------------------------------ MODULE Amounts ------------------------------
(***************************************************************************)
(* Amounts of a coin or a token (neko-core/src/amount.rs): a whole number  *)
(* of minimal units, read from what is typed.                              *)
(***************************************************************************)
EXTENDS Numerals

CONSTANTS None, I128     \* the largest i128

Blank(c) == c = " "

\* s.trim()
trim(s) == LET inked == {i \in DOMAIN s : ~Blank(s[i])}
           IN IF inked = {} THEN <<>> ELSE SubSeq(s, Min(inked), Max(inked))

\* s.trim().replace([',', '_'], "")
Bare(text) == Without(trim(text), {Comma, "_"})

\* Digits, with at most one point, and no more places than the asset has.
Formed(s, decimals) ==
    LET digits == IntPart(s) \o FracPart(s)
    IN /\ digits # <<>>
       /\ \A i \in DOMAIN digits : is_ascii_digit(digits[i])
       /\ Len(FracPart(s)) <= decimals

checked_mul(a, b) == IF a = None \/ a > I128 \div b THEN None ELSE a * b
checked_add(a, b) == IF a = None \/ a > I128 - b THEN None ELSE a + b

Whole(digits) == LET v[k \in 0..Len(digits)] ==
                         IF k = 0 THEN 0
                         ELSE checked_add(checked_mul(v[k - 1], 10), DigitOf(digits[k]))
                 IN v[Len(digits)]

\* Mutant: the fraction is not aligned to the precision.
Fraction_RightAligned(digits, decimals) == Number(digits)

Fraction(digits, decimals) == Number(digits) * pow10(decimals - Len(digits))

RawOf(s, decimals) ==
    checked_add(checked_mul(Whole(IntPart(s)), pow10(decimals)), Fraction(FracPart(s), decimals))

\* The amount a text is, or None where it is no amount: nothing is typed, it is not
\* a number, it has too many places, is too large, or is zero.
parse(text, decimals) == IF Formed(Bare(text), decimals) /\ RawOf(Bare(text), decimals) \in 1..I128
                         THEN RawOf(Bare(text), decimals) ELSE None
=============================================================================
