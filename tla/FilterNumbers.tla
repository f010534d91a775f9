--------------------------- MODULE FilterNumbers ----------------------------
(***************************************************************************)
(* The arithmetic of three HDF5 filters: the Fletcher-32 checksum and the  *)
(* two quantizers of floating point numbers, BitGroom and Granular         *)
(* BitRound.  Widths are constants: a word of the checksum has Half values *)
(* and its sums Half * Half, a float a sign, Exps exponents and Fine       *)
(* fractions, all of them powers of two.  A float is its bits as a number, *)
(* and floats of one sign are in the order of these numbers.               *)
(***************************************************************************)
EXTENDS Integers, Sequences, SequencesExt

CONSTANTS
    Half, ByteValues,       \* the values of a word and of a byte
    Alphabets,              \* the data of the checksum: of these bytes, and so long
    Exps, FineBits          \* the exponents, and the bits of the fraction

\* Where Half = ByteValues * ByteValues /\ FineBits \in Nat \ {0} /\ Exps \in Nat \ {0, 1}.

VARIABLES data, float, drop, missing
vars == <<data, float, drop, missing>>

Smaller(a, b) == IF a < b THEN a ELSE b

-----------------------------------------------------------------------------
\* fletcher32.

\* The words of a group, whose sums just fit: 360 for words of 16 bits, 3 for
\* the words of 4 bits that are checked.
Group == 3
Fold(sum) == (sum % Half) + (sum \div Half)
Wide(n) == n % (Half * Half)
Words(s) ==
    [k \in 1..((Len(s) + 1) \div 2) |->
        s[2 * k - 1] * ByteValues + (IF 2 * k <= Len(s) THEN s[2 * k] ELSE 0)]
\* The sums are folded after each full group, after the last whole word, after
\* an odd byte, and once more.
Fletcher32(s) ==
    LET whole == Len(s) \div 2
        words == Words(s)
        add(a, k) ==
            LET one == Wide(a.one + words[k])
                two == Wide(a.two + one) IN
            IF k % Group = 0 \/ k >= whole THEN [one |-> Fold(one), two |-> Fold(two)]
            ELSE [one |-> one, two |-> two]
        sums == FoldLeft(add, [one |-> 0, two |-> 0], [k \in 1..Len(words) |-> k]) IN
    [one |-> Fold(sums.one), two |-> Fold(sums.two)]

-----------------------------------------------------------------------------
\* Floats.
Fine == 2 ^ FineBits
Floats == 0..(2 * Exps * Fine - 1)
Magnitude(u) == u % (Exps * Fine)
Sign(u) == u \div (Exps * Fine)
\* The last exponent is that of the infinities.
Finite(u) == Magnitude(u) < (Exps - 1) * Fine

\* bitgroom_quantize of a number with `drop` bits too many: in turn the bits are
\* cleared and set; zero and the missing value stay.
BitGroom(u, odd) ==
    LET unit == 2 ^ drop IN
    IF drop <= 0 \/ u = 0 \/ u = missing THEN u
    ELSE IF odd THEN u - (u % unit) + unit - 1 ELSE u - (u % unit)

\* bitround_quantize: half a unit is added, then the bits are cleared.
BitRound(u) ==
    LET unit == 2 ^ drop IN
    IF drop <= 0 \/ Magnitude(u) = 0 \/ ~Finite(u) THEN u
    ELSE (((u + unit \div 2) \div unit) * unit) % (2 * Exps * Fine)

-----------------------------------------------------------------------------
Init == data = <<>> /\ float = 0 /\ drop = 0 /\ missing = 0
\* More data for the checksum.
Feed(byte) ==
    /\ \E a \in Alphabets : ToSet(data) \cup {byte} \subseteq a.bytes /\ Len(data) < a.len
    /\ float = 0 /\ drop = 0 /\ missing = 0
    /\ data' = Append(data, byte)
    /\ UNCHANGED <<float, drop, missing>>
\* A number, the bits it has too many for the digits asked, a missing value.
Choose(u, z, ms) ==
    /\ data = <<>> /\ float = 0 /\ drop = 0 /\ missing = 0
    /\ float' = u /\ drop' = z /\ missing' = ms /\ UNCHANGED data
Next ==
    \/ \E byte \in UNION {a.bytes : a \in Alphabets} : Feed(byte)
    \/ \E u \in Floats, z \in 0..FineBits, ms \in {0, 5, Exps * Fine + 3} : Choose(u, z, ms)
Spec == Init /\ [][Next]_vars

-----------------------------------------------------------------------------
Sum(s) == FoldLeft(LAMBDA a, b : a + b, 0, s)
Sums(s) == [k \in DOMAIN s |-> Sum(SubSeq(s, 1, k))]
Congruent(a, b) == (a - b) % (Half - 1) = 0
\* The checksum is the one without overflow: both sums are the true sums in ones'
\* complement, in one word each, and zero only when all data are zero.
FletcherExact ==
    LET f == Fletcher32(data)
        w == Words(data) IN
    /\ f.one \in 0..(Half - 1) /\ f.two \in 0..(Half - 1)
    /\ Congruent(f.one, Sum(w)) /\ Congruent(f.two, Sum(Sums(w)))
    /\ (f.one = 0) = (\A k \in DOMAIN w : w[k] = 0)

Distance(u, v) == IF u < v THEN v - u ELSE u - v
\* Quantizing keeps the sign and the exponent, errs by less than the bits that
\* are dropped, and quantizing again in the same place changes nothing.
GroomClose ==
    \A odd \in BOOLEAN :
        LET v == BitGroom(float, odd) IN
        /\ Sign(v) = Sign(float) /\ Magnitude(v) \div Fine = Magnitude(float) \div Fine
        /\ Distance(v, float) < 2 ^ drop
        /\ v = missing \/ BitGroom(v, odd) = v
\* Rounding keeps the sign, errs by half of the bits that are dropped at most, and
\* rounding again changes nothing.
RoundClose ==
    /\ Sign(BitRound(float)) = Sign(float)
    /\ Distance(BitRound(float), float) <= (2 ^ drop) \div 2
    /\ BitRound(BitRound(float)) = BitRound(float)
=============================================================================
