----------------------------- MODULE MCRtspReader -----------------------------
(* Requests that end before, at and after the buffer's end, and some whose *)
(* Content-Length is not their body's.                                     *)
EXTENDS RtspReader

AnyEnd == {<<"cr">>, <<"lf">>, <<"cr", "lf">>}
Body(n) == [i \in 1..n |-> IF i = 2 THEN "lf" ELSE "b"]
SomeRequests ==
    {[headers |-> <<"hdr">>, body |-> <<>>, length |-> 0],
     [headers |-> <<"cl">>, body |-> Body(7), length |-> 7],
     [headers |-> <<"hdr", "hdr", "cl">>, body |-> Body(3), length |-> 3],
     [headers |-> <<"long">>, body |-> <<>>, length |-> 0],
     [headers |-> <<"cl">>, body |-> <<"hdr", "lf", "lf">>, length |-> -1],
     [headers |-> <<"cl">>, body |-> Body(3), length |-> 1],
     [headers |-> <<"cl">>, body |-> <<>>, length |-> 2]}
=============================================================================
