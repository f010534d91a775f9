------------------------------ MODULE LzCodecs ------------------------------
(***************************************************************************)
(* The two LZ77 codecs the HDF5 library has of its own, LZF and BloscLZ:   *)
(* an input becomes a list of tokens, literal runs and references back,    *)
(* and the tokens become the input again.                                  *)
(*                                                                         *)
(* A token is the fields its bytes are made of: a literal run has a length *)
(* of 5 bits, a reference a length of 3 bits with bytes to go on and a     *)
(* distance of 5 bits and a byte, which in BloscLZ may say that two more   *)
(* bytes follow.  The code has Rows = 32 and Byte = 256; with smaller ones *)
(* all limits are within reach of short inputs.  Inputs are sequences of   *)
(* symbols, grown piece by piece.                                          *)
(***************************************************************************)
EXTENDS Integers, Sequences, FiniteSets, SequencesExt

CONSTANTS
    Rows,           \* the values of 5 bits
    Byte,           \* the values of a byte
    Lengths,        \* the lengths of the pieces
    MaxPieces       \* bound of the number of the pieces

\* Where Rows \in Nat \ {0} /\ Byte \in Nat \ {0} /\ MaxPieces \in Nat.

VARIABLES input, fresh, pieces
vars == <<input, fresh, pieces>>

Smaller(a, b) == IF a < b THEN a ELSE b
Lit(d) == [k |-> "lit", d |-> d]
Ref(c, x, hi, lo, far) == [k |-> "ref", c |-> c, x |-> x, hi |-> hi, lo |-> lo, far |-> far]
\* The literals not yet written are a token, when there are any.
Flushed(toks, lit) == IF lit = <<>> THEN toks ELSE Append(toks, Lit(lit))
\* The last place that had the same hash; equal hashes are compared, so that
\* the hash may be taken to be the symbols themselves.
At(h, key, none) == IF key \in DOMAIN h THEN h[key] ELSE none
Put(h, key, p) == [k \in DOMAIN h \cup {key} |-> IF k = key THEN p ELSE h[k]]
\* How far s goes on the same from p and q on, at most n symbols.
Common(s, p, q, n) ==
    LET far == {i \in 0..n : \A j \in 0..(i - 1) : s[p + j] = s[q + j]} IN
    CHOOSE i \in far : \A j \in far : j <= i
\* A literal is added; a run that is full is written.
TakeLiteral(st, symbol) ==
    LET lit == Append(st.lit, symbol) IN
    [st EXCEPT !.lit = IF Len(lit) = Rows THEN <<>> ELSE lit,
               !.toks = IF Len(lit) = Rows THEN Append(@, Lit(lit)) ELSE @, !.ip = @ + 1]

-----------------------------------------------------------------------------
\* LZF.

LzfLongest == 9 + Byte - 1
LzfReach == Rows * Byte
LzfRef(len, off) ==
    Ref(IF len <= 8 THEN len - 2 ELSE 7, IF len <= 8 THEN <<>> ELSE <<len - 9>>, off \div Byte, off % Byte, <<>>)
\* The first symbol is never referred to.
LzfMatches(s, ip, r) ==
    r > 1 /\ ip - r < LzfReach /\ \A j \in 0..2 : s[r + j] = s[ip + j]
RECURSIVE LzfFrom(_, _)
LzfFrom(s, st) ==
    LET left == Len(s) - st.ip + 1
        key == SubSeq(s, st.ip, st.ip + 2)
        r == At(st.h, key, 0)
        seen == [st EXCEPT !.h = Put(@, key, st.ip)] IN
    IF left = 0 THEN Flushed(st.toks, st.lit)
    ELSE IF left < 3 THEN LzfFrom(s, TakeLiteral(st, s[st.ip]))
    ELSE IF ~LzfMatches(s, st.ip, r) THEN LzfFrom(s, TakeLiteral(seen, s[st.ip]))
    ELSE LET len == Common(s, r, st.ip, Smaller(left, LzfLongest)) IN
         LzfFrom(s, [seen EXCEPT !.toks = Append(Flushed(st.toks, st.lit), LzfRef(len, st.ip - r - 1)),
                                 !.lit = <<>>, !.ip = @ + len])
\* lzf_compress.
LzfCompress(s) == LzfFrom(s, [ip |-> 1, lit |-> <<>>, h |-> [k \in {} |-> 0], toks |-> <<>>])

\* n symbols from `back` places before the end on, one at a time.
CopyBack(out, back, n) ==
    FoldLeft(LAMBDA o, i : Append(o, o[Len(out) - back + i]), out, [i \in 1..n |-> i])
\* What no output is.
Bad == <<-1>>
LzfTake(out, t) ==
    IF out = Bad THEN Bad
    ELSE IF t.k = "lit" THEN out \o t.d
    ELSE LET len == IF t.c = 7 THEN t.x[1] + 7 + 2 ELSE t.c + 2
             off == t.hi * Byte + t.lo IN
         IF Len(out) < off + 1 THEN Bad ELSE CopyBack(out, off + 1, len)
\* lzf_decompress.
LzfDecompress(toks) == FoldLeft(LzfTake, <<>>, toks)

-----------------------------------------------------------------------------
\* BloscLZ, at the level the library uses.

MinLen == 4
Shift == 4
MaxDistance == Rows * Byte - 1
FarDistance == Byte * Byte - 1 + MaxDistance - 1
\* Whole bytes and the byte that ends the length.
Extra(n) == [i \in 1..(n \div (Byte - 1)) |-> Byte - 1] \o <<n % (Byte - 1)>>
BloscRef(len, dist) ==
    LET c == Smaller(len, 7)
        x == IF len < 7 THEN <<>> ELSE Extra(len - 7) IN
    IF dist < MaxDistance THEN Ref(c, x, dist \div Byte, dist % Byte, <<>>)
    ELSE Ref(c, x, Rows - 1, Byte - 1, <<dist - MaxDistance>>)
\* Where the match of r and ip ends; a run of one symbol is compared with the
\* place before, so that it ends a place further.
MatchEnd(s, ip, r) ==
    LET bound == Len(s) IN
    IF ip - r = 1
    THEN LET same == {e \in (ip + 4)..bound : \A j \in (ip + 4)..(e - 1) : s[j - 1] = s[ip]} IN
         CHOOSE e \in same : \A f \in same : f <= e
    ELSE ip + 4 + Common(s, r + 4, ip + 4, bound - ip - 4)
BloscMatches(s, ip, r) ==
    ip - r > 0 /\ ip - r < FarDistance /\ \A j \in 0..3 : s[r + j] = s[ip + j]
RECURSIVE BloscFrom(_, _)
BloscFrom(s, st) ==
    LET key == SubSeq(s, st.ip, st.ip + 3)
        r == At(st.h, key, 1)
        seen == [st EXCEPT !.h = Put(@, key, st.ip)] IN
    IF st.ip > Len(s) THEN Flushed(st.toks, st.lit)
    ELSE IF st.ip > Len(s) - 12 THEN BloscFrom(s, TakeLiteral(st, s[st.ip]))
    ELSE IF ~BloscMatches(s, st.ip, r) THEN BloscFrom(s, TakeLiteral(seen, s[st.ip]))
    ELSE LET to == MatchEnd(s, st.ip, r) - Shift
             len == to - st.ip
             dist == st.ip - r - 1 IN
         IF len < MinLen \/ (len <= 5 /\ dist >= MaxDistance)
         THEN BloscFrom(s, TakeLiteral(seen, s[st.ip]))
         ELSE BloscFrom(s, [ip |-> to + 2, lit |-> <<>>, h |-> Put(seen.h, SubSeq(s, to, to + 3), to),
                            toks |-> Append(Flushed(st.toks, st.lit), BloscRef(len, dist))])
\* blosclz_compress: a short input becomes nothing at all.
BloscCompress(s) ==
    IF Len(s) < 16 THEN <<>>
    ELSE BloscFrom(s, [ip |-> 5, lit |-> SubSeq(s, 1, 4), h |-> [k \in {} |-> 0], toks |-> <<>>])

BloscTake(out, t) ==
    IF out = Bad THEN Bad
    ELSE IF t.k = "lit" THEN out \o t.d
    ELSE LET len == (t.c - 1) + FoldLeft(LAMBDA a, b : a + b, 0, t.x) + 3
             away == t.hi = Rows - 1 /\ t.lo = Byte - 1
             back == (IF away THEN t.far[1] + MaxDistance ELSE t.hi * Byte + t.lo) + 1 IN
         IF away # (t.far # <<>>) THEN Bad
         ELSE IF back > Len(out) \/ Len(out) + len > Len(input) THEN Bad ELSE CopyBack(out, back, len)
\* blosclz_decompress.
BloscDecompress(toks) == FoldLeft(BloscTake, <<>>, toks)

-----------------------------------------------------------------------------
\* The inputs: n times a symbol, n new symbols, or n symbols again.
Init == input = <<>> /\ fresh = 10 /\ pieces = 0
Add(piece) == pieces < MaxPieces /\ pieces' = pieces + 1 /\ input' = input \o piece
Repeat(symbol, n) == Add([i \in 1..n |-> symbol]) /\ UNCHANGED fresh
Fresh(n) == Add([i \in 1..n |-> fresh + i]) /\ fresh' = fresh + n
Again(p, n) == p + n - 1 <= Len(input) /\ Add(SubSeq(input, p, p + n - 1)) /\ UNCHANGED fresh
Next ==
    \/ \E symbol \in {0, 1}, n \in Lengths : Repeat(symbol, n)
    \/ \E n \in Lengths : Fresh(n)
    \/ \E p \in {1, 2, 5}, n \in Lengths : Again(p, n)
Spec == Init /\ [][Next]_vars

-----------------------------------------------------------------------------
\* What is compressed comes back.
LzfRoundTrip == LzfDecompress(LzfCompress(input)) = input
BloscRoundTrip == Len(input) >= 16 => BloscDecompress(BloscCompress(input)) = input

Bits(n, k) == n \in 0..(k - 1)
Fits(t) ==
    IF t.k = "lit" THEN Len(t.d) \in 1..Rows
    ELSE t.c \in 1..7 /\ Bits(t.hi, Rows) /\ Bits(t.lo, Byte)
         /\ (\A i \in DOMAIN t.x : Bits(t.x[i], Byte)) /\ (\A i \in DOMAIN t.far : Bits(t.far[i], Byte * Byte))
\* Every field has room in its bits: a length or a distance that has not is cut
\* without a word.
LzfFits == \A k \in DOMAIN LzfCompress(input) : Fits(LzfCompress(input)[k])
BloscFits == \A k \in DOMAIN BloscCompress(input) : Fits(BloscCompress(input)[k])

Size(t) == IF t.k = "lit" THEN Len(t.d) + 1 ELSE 2 + Len(t.x) + 2 * Len(t.far)
TotalSize(toks) == FoldLeft(LAMBDA a, t : a + Size(t), 0, toks)
\* An input that cannot be compressed grows by a byte for each run of literals.
LzfExpansion == TotalSize(LzfCompress(input)) <= Len(input) + (Len(input) + Rows - 1) \div Rows
=============================================================================
