----------------------------- MODULE AlacEncoder -----------------------------
(***************************************************************************)
(* What a lossless frame is: an encoder for every feature that AlacDecoder *)
(* reads, as the reference it is compared with.  A frame is [channels,     *)
(* plain, hassize, raw, shift, weight, a, b, samples], a and b describing  *)
(* a channel by [rice, coef, quant], samples being pairs.                  *)
(***************************************************************************)
EXTENDS AlacDecoder

Bits(v, n) == [i \in 1..n |-> (v \div 2^(n - i)) % 2]
Bytes(bits) ==
    LET bit(i) == IF i <= Len(bits) THEN bits[i] ELSE 0
        byte(i) == FoldLeft(LAMBDA v, j : 2 * v + bit(8 * i + j), 0,
                            [j \in 1..8 |-> j])
    IN [i \in 1..(Len(bits) + 7) \div 8 |-> byte(i - 1)]

\* A value in ones, a zero and k bits; k - 1 bits say that nothing is left.
CodeValue(v, size, k, kmask) ==
    LET m == 2^Least(k, kmask) - 1
        q == v \div m
        r == v % m
    IN IF q > RICE_THRESHOLD THEN [i \in 1..RICE_THRESHOLD + 1 |-> 1] \o Bits(v, size)
       ELSE [i \in 1..q |-> 1] \o <<0>>
            \o IF k = 1 THEN <<>> ELSE IF r = 0 THEN Bits(0, k - 1) ELSE Bits(r + 1, k)

Folded(e) == IF e < 0 THEN -2 * e - 1 ELSE 2 * e
ZerosFirst(errors) == CHOOSE n \in 0..Len(errors) :
    /\ \A i \in 1..n : errors[i] = 0
    /\ n < Len(errors) => errors[n + 1] # 0

RECURSIVE CodeFrom(_, _, _, _, _)
CodeFrom(errors, size, history, sign, rice) ==
    IF errors = <<>> THEN <<>>
    ELSE LET v == Folded(Head(errors))
             next == NextHistory(history, v, rice)
             bits == CodeValue(v - sign, size, RiceK(history, rice), 31)
             rest == Tail(errors)
             zeros == ZerosFirst(rest)
         IN IF next < 128 /\ rest # <<>>
            THEN bits \o CodeValue(zeros, 16, BlockK(next), rice.kmodifier)
                 \o CodeFrom(SubSeq(rest, zeros + 1, Len(rest)), size, 0, 1, rice)
            ELSE bits \o CodeFrom(rest, size, next, 0, rice)

\* What the prediction misses of each sample.
Missed(x, coef, quant, bits) ==
    LET n == Len(coef)
        RECURSIVE from(_, _, _)
        from(i, c, errors) ==
            IF i > Len(x) THEN errors
            ELSE LET out == SubSeq(x, 1, i - 1)
                     guess == IF i = 1 \/ n = 0 THEN 0
                              ELSE IF n = 31 \/ i <= n + 1 THEN x[i - 1]
                              ELSE Predicted(out, c, quant)
                     e == SIGN_EXTENDED32(x[i] - guess, bits)
                 IN from(i + 1, IF n \in {0, 31} \/ i <= n + 1 THEN c
                                ELSE Adapted(e, out, c, quant), Append(errors, e))
    IN from(1, coef, <<>>)

Describe(d) == Bits(0, 4) \o Bits(d.quant, 4) \o Bits(d.rice, 3) \o Bits(Len(d.coef), 5)
               \o FlattenSeq([i \in 1..Len(d.coef) |-> Bits(d.coef[i] % 65536, 16)])
Coded(x, d, size, setinfo) ==
    CodeFrom(Missed(x, d.coef, d.quant, size), size, setinfo.initial, 0, RiceOf(d, setinfo))

\* Left and right, or a weighted middle and the difference.
Mixed(f) == [i \in 1..Len(f.samples) |->
    LET l == f.samples[i][1]  r == f.samples[i][2]
    IN IF f.weight = 0 \/ f.channels = 0 THEN <<l, r>>
       ELSE <<r + (((l - r) * f.weight) \div 2^f.shift), l - r>>]

Encode(f, setinfo) ==
    LET n == Len(f.samples)
        raw == [i \in 1..8 * f.raw * n * (f.channels + 1) |-> 1]
        size == SampleSize - 8 * f.raw + f.channels
        first == [i \in 1..n |-> Mixed(f)[i][1]]
        second == [i \in 1..n |-> Mixed(f)[i][2]]
        header == Bits(f.channels, 3) \o Bits(0, 16) \o <<IF f.hassize THEN 1 ELSE 0>>
                  \o Bits(f.raw, 2) \o <<IF f.plain THEN 1 ELSE 0>>
                  \o IF f.hassize THEN Zeros(16) \o Bits(n, 16) ELSE <<>>
        plain(i) == Bits(f.samples[i][1] % 65536, 16)
                    \o IF f.channels = 1 THEN Bits(f.samples[i][2] % 65536, 16) ELSE <<>>
        body == IF f.plain THEN FlattenSeq([i \in 1..n |-> plain(i)])
                ELSE IF f.channels = 0
                THEN Zeros(16) \o Describe(f.a) \o raw \o Coded(first, f.a, size, setinfo)
                ELSE Bits(f.shift, 8) \o Bits(f.weight, 8) \o Describe(f.a) \o Describe(f.b)
                     \o raw \o Coded(first, f.a, size, setinfo)
                     \o Coded(second, f.b, size, setinfo)
    IN Bytes(header \o body)
=============================================================================
