----------------------------- MODULE AlacDecoder -----------------------------
(***************************************************************************)
(* alac.c 129-1124 as operators: the bit reader, the adaptive Rice decoder,*)
(* the adaptive predictor, the two ways of unmixing stereo, and the frame. *)
(* Samples have 16 bits and frames two channels: player.c 137-140 creates  *)
(* no other decoder, so the 24-bit branches never run and are left out.    *)
(*                                                                         *)
(* A stream is a position in the packet: [bytes, at, acc], acc bits into   *)
(* byte at (from 0).  A reader returns [v, s]: what it read and the stream *)
(* after it.  Stale is what the output holds where nothing is written.     *)
(***************************************************************************)
EXTENDS Integers, Sequences, SequencesExt

CONSTANT Stale

RICE_THRESHOLD == 8
SampleSize == 16

-----------------------------------------------------------------------------
Byte(s, i) == IF s.at + i < Len(s.bytes) THEN s.bytes[s.at + i + 1] ELSE 0
Advance(s, n) == [s EXCEPT !.at = @ + (s.acc + n) \div 8, !.acc = (@ + n) % 8]

readbits_16(s, n) ==
    [v |-> (((Byte(s, 0) * 65536 + Byte(s, 1) * 256 + Byte(s, 2)) * 2^s.acc) % 2^24)
               \div 2^(24 - n),
     s |-> Advance(s, n)]

readbits(s, n) ==
    IF n <= 16 THEN readbits_16(s, n)
    ELSE LET high == readbits_16(s, 16)
             low == readbits_16(Advance(s, 16), n - 16)
         IN [v |-> high.v * 2^(n - 16) + low.v, s |-> Advance(s, n)]
\* The field of n bits after some others.
Field(s, skip, n) == readbits(Advance(s, skip), n).v

readbit(s) == [v |-> ((Byte(s, 0) * 2^s.acc) \div 128) % 2, s |-> Advance(s, 1)]
\* \div and % round down, as the shift and the mask of a negative number do.
unreadbits(s, n) == Advance(s, -n)

count_leading_zeros(x) == 31 - CHOOSE n \in 0..30 : 2^n <= x /\ x - 2^n < 2^n

\* n signed numbers of 16 bits: coefficients, or samples that are not coded.
SIGN_EXTENDED32(val, bits) == ((val + 2^(bits - 1)) % 2^bits) - 2^(bits - 1)
ReadShorts(s, n) ==
    [v |-> [i \in 1..n |-> SIGN_EXTENDED32(Field(s, 16 * (i - 1), 16), 16)],
     s |-> Advance(s, 16 * n)]

-----------------------------------------------------------------------------
\* A prefix of ones, at most one more than the threshold.
Ones(s) == CHOOSE x \in 0..RICE_THRESHOLD + 1 :
    /\ \A i \in 0..x - 1 : readbit(Advance(s, i)).v = 1
    /\ x <= RICE_THRESHOLD => readbit(Advance(s, x)).v = 0

\* kmask is the number of bits rice_kmodifier_mask lets through.
Least(a, b) == IF a < b THEN a ELSE b
entropy_decode_value(s, size, k, kmask) ==
    LET small(past, base, extra) ==
            IF extra > 1 THEN [v |-> base + extra - 1, s |-> Advance(past, k)]
            ELSE [v |-> base, s |-> unreadbits(Advance(past, k), 1)]
        value(x) ==
            IF x > RICE_THRESHOLD THEN readbits(Advance(s, x), size)
            ELSE IF k = 1 THEN [v |-> x, s |-> Advance(s, x + 1)]
            ELSE small(Advance(s, x + 1), x * (2^Least(k, kmask) - 1), Field(s, x + 1, k))
    IN value(Ones(s))

\* How many bits a value has, from the history of the values before it.
RiceK(history, rice) ==
    LET k == 31 - rice.kmodifier - count_leading_zeros(history \div 512 + 3)
    IN IF k < 0 THEN k + rice.kmodifier ELSE rice.kmodifier
BlockK(history) == count_leading_zeros(history) + (history + 16) \div 64 - 24
NextHistory(history, v, rice) ==
    IF v > 65535 THEN 65535
    ELSE history + v * rice.mult - (history * rice.mult) \div 512

Signed(v) == IF v % 2 = 1 THEN -((v + 1) \div 2) ELSE v \div 2
Zeros(n) == [i \in 1..n |-> 0]

\* Mutant: after a block of zeros the next value is not known to be another.
AfterBlockZero(size) == 0
AfterBlock(size) == IF size > 65535 THEN 0 ELSE 1

\* Values until there are n; where the history is small, a block of zeros.
RECURSIVE RiceFrom(_, _, _, _, _, _, _)
RiceFrom(out, n, s, size, history, sign, rice) ==
    IF Len(out) >= n THEN [v |-> out, s |-> s]
    ELSE LET block(more, b) ==
                 RiceFrom(more \o Zeros(b.v), n, b.s, size, 0, AfterBlock(b.v), rice)
             after(more, next, past) ==
                 IF next < 128 /\ Len(more) < n
                 THEN block(more, entropy_decode_value(past, 16, BlockK(next), rice.kmodifier))
                 ELSE RiceFrom(more, n, past, size, next, 0, rice)
             value(d) == after(Append(out, Signed(d.v + sign)),
                               NextHistory(history, d.v + sign, rice), d.s)
         IN value(entropy_decode_value(s, size, RiceK(history, rice), 31))
entropy_rice_decode(s, n, size, rice) == RiceFrom(<<>>, n, s, size, rice.initial, 0, rice)

-----------------------------------------------------------------------------
SIGN_ONLY(v) == IF v < 0 THEN -1 ELSE IF v > 0 THEN 1 ELSE 0

\* The sample after out, from its last Len(coef) + 1 samples.
Predicted(out, coef, quant) ==
    LET n == Len(coef)
        base == out[Len(out) - n]
        term(j) == (out[Len(out) + 1 - j] - base) * coef[j]
        sum == FoldLeft(LAMBDA a, j : a + term(j), 0, [j \in 1..n |-> j])
    IN ((2^(quant - 1) + sum) \div 2^quant) + base

\* Coefficients move against the error, from the oldest, until it is used up.
RECURSIVE AdaptFrom(_, _, _, _, _)
AdaptFrom(p, error, out, coef, quant) ==
    LET val == out[Len(out) - Len(coef)] - out[Len(out) + 1 - p]
        d == SIGN_ONLY(error)
        used == (d * val * SIGN_ONLY(val)) \div 2^quant
    IN IF p = 0 \/ d = 0 THEN coef
       ELSE LET left == error - used * (Len(coef) - p + 1)
                moved == [coef EXCEPT ![p] = @ - d * SIGN_ONLY(val)]
            IN IF d * left > 0 THEN AdaptFrom(p - 1, left, out, moved, quant)
               ELSE moved
Adapted(error, out, coef, quant) == AdaptFrom(Len(coef), error, out, coef, quant)

RECURSIVE Summed(_, _, _), FirFrom(_, _, _, _, _)
Summed(out, errors, bits) ==
    IF errors = <<>> THEN out
    ELSE Summed(Append(out, SIGN_EXTENDED32(Last(out) + Head(errors), bits)),
                Tail(errors), bits)
FirFrom(out, errors, bits, coef, quant) ==
    IF errors = <<>> THEN out
    ELSE LET val == Predicted(out, coef, quant) + Head(errors)
         IN FirFrom(Append(out, SIGN_EXTENDED32(val, bits)), Tail(errors), bits,
                    Adapted(Head(errors), out, coef, quant), quant)

\* The first sample and one for each coefficient are plain sums.
WarmUp(n) == n + 1

\* A frame that is shorter than the warm-up runs past its buffer: none is here.
predictor_decompress_fir_adapt(errors, bits, coef, quant) ==
    LET n == Len(coef)
        Warm == Summed(<<errors[1]>>, SubSeq(errors, 2, WarmUp(n)), bits)
    IN IF n = 0 THEN errors
       ELSE IF n = 31 THEN Summed(<<errors[1]>>, Tail(errors), bits)
       ELSE FirFrom(Warm, SubSeq(errors, WarmUp(n) + 1, Len(errors)), bits, coef, quant)

-----------------------------------------------------------------------------
deinterlace_16(a, b, shift, leftweight) ==
    [i \in 1..Len(a) |->
        IF leftweight = 0
        THEN <<SIGN_EXTENDED32(a[i], 16), SIGN_EXTENDED32(b[i], 16)>>
        ELSE LET right == SIGN_EXTENDED32(a[i] - ((b[i] * leftweight) \div 2^shift), 16)
             IN <<SIGN_EXTENDED32(right + b[i], 16), right>>]

\* A channel's predictor and Rice parameters, before its coded samples.
Description(s) ==
    LET coef == ReadShorts(Advance(s, 16), Field(s, 11, 5))
    IN [v |-> [type |-> Field(s, 0, 4), quant |-> Field(s, 4, 4),
               rice |-> Field(s, 8, 3), coef |-> coef.v],
        s |-> coef.s]

RiceOf(desc, setinfo) ==
    [initial |-> setinfo.initial, kmodifier |-> setinfo.kmodifier,
     mult |-> (desc.rice * setinfo.mult) \div 4]

\* One channel's samples; an unknown prediction leaves the buffer as it was.
Channel(s, n, size, desc, setinfo) ==
    LET decoded(coded) ==
            [s |-> coded.s,
             v |-> IF desc.type = 0
                   THEN predictor_decompress_fir_adapt(coded.v, size, desc.coef, desc.quant)
                   ELSE [i \in 1..n |-> Stale]]
    IN decoded(entropy_rice_decode(s, n, size, RiceOf(desc, setinfo)))

\* What all frames begin with.
FrameHeader(s, setinfo) ==
    LET hassize == Field(s, 19, 1) = 1
    IN [channels |-> Field(s, 0, 3), raw |-> Field(s, 20, 2), plain |-> Field(s, 22, 1) = 1,
        n |-> IF hassize THEN Field(s, 23, 32) ELSE setinfo.samples,
        s |-> Advance(s, IF hassize THEN 55 ELSE 23)]

\* case 0: the right channel of the output is not written.
Mono(h, setinfo) ==
    LET size == SampleSize - 8 * h.raw
        coded(desc) == Channel(Advance(desc.s, 8 * h.raw * h.n), h.n, size, desc.v, setinfo)
        left(a) == [i \in 1..h.n |-> <<a.v[i], Stale>>]
    IN left(IF h.plain THEN ReadShorts(h.s, h.n) ELSE coded(Description(Advance(h.s, 16))))

\* case 1.
Stereo(h, setinfo) ==
    LET size == SampleSize - 8 * h.raw + 1
        plain(both) == deinterlace_16([i \in 1..h.n |-> both[2 * i - 1]],
                                      [i \in 1..h.n |-> both[2 * i]], 0, 0)
        mixed(descB, a) == deinterlace_16(a.v, Channel(a.s, h.n, size, descB.v, setinfo).v,
                                          Field(h.s, 0, 8), Field(h.s, 8, 8))
        coded(descA, descB) ==
            mixed(descB, Channel(Advance(descB.s, 16 * h.raw * h.n), h.n, size, descA.v, setinfo))
        described(descA) == coded(descA, Description(descA.s))
    IN IF h.plain THEN plain(ReadShorts(h.s, 2 * h.n).v)
       ELSE described(Description(Advance(h.s, 16)))

\* Other numbers of channels leave the output as it was.
alac_decode_frame(bytes, setinfo) ==
    LET frame(h) == CASE h.channels = 0 -> Mono(h, setinfo)
                      [] h.channels = 1 -> Stereo(h, setinfo)
                      [] OTHER -> [i \in 1..h.n |-> <<Stale, Stale>>]
    IN frame(FrameHeader([bytes |-> bytes, at |-> 0, acc |-> 0], setinfo))
=============================================================================
