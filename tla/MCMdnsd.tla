-------------------------------- MODULE MCMdnsd --------------------------------
(* Machines with no, one and two addresses, and queries that know answers.  *)
EXTENDS Mdnsd

If(type, addr) == [type |-> type, addr |-> addr]
SomeInterfaces == {<<>>, <<If("A", "ip1"), If("A", "ip2")>>, <<If("AAAA", "ip6")>>}

Known(r, ttl) == [name |-> r.name, type |-> r.type, target |-> r.target, ttl |-> ttl]
Query(qn, ans) == [kind |-> "query", qn |-> qn, ans |-> ans]
SomePackets ==
    {[NoPacket EXCEPT !.kind = k] : k \in {"other", "error", "discarded", "truncated"}}
    \cup
    {Query(<<Ask("type", "PTR"), Ask("inst", "ANY")>>, <<Known(TXT, 60)>>),
     Query(<<Ask("type", "PTR"), Ask("host", "A")>>, <<Known(PTR, 59)>>),
     Query(<<Ask(SERVICES, "PTR"), Ask("host", "ANY")>>,
           <<Known(Record("host", "A", "ip2"), 120)>>),
     Query(<<[Ask("inst", "SRV") EXCEPT !.unicast_query = TRUE]>>, <<>>)}
=============================================================================
