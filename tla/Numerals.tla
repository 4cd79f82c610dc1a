------------------------------ MODULE Numerals ------------------------------
(***************************************************************************)
(* How an amount is written (neko-core/src/amount.rs): a whole number of   *)
(* minimal units as decimal digits, exact, grouped, capped or trimmed.     *)
(* A text is a sequence of one-character strings.  The sign is left out:   *)
(* no amount that is sent or held is negative.                             *)
(***************************************************************************)
EXTENDS Integers, SequencesExt

Figure == <<"0", "1", "2", "3", "4", "5", "6", "7", "8", "9">>

is_ascii_digit(c) == c \in ToSet(Figure)
DigitOf(c) == CHOOSE d \in 0..9 : Figure[d + 1] = c

\* 10i128.pow(n)
pow10(n) == LET p[k \in 0..n] == IF k = 0 THEN 1 ELSE 10 * p[k - 1]
            IN p[n]

\* What digits read as, one after the other.
Number(digits) == LET v[k \in 0..Len(digits)] ==
                          IF k = 0 THEN 0 ELSE v[k - 1] * 10 + DigitOf(digits[k])
                  IN v[Len(digits)]

---------------------------------------------------------------------------
(* Texts.                                                                  *)

Comma == ","

Keep(s, c, marks) == IF c \in marks THEN s ELSE Append(s, c)

\* s.replace(marks, "")
Without(s, marks) == LET kept[k \in 0..Len(s)] ==
                             IF k = 0 THEN <<>> ELSE Keep(kept[k - 1], s[k], marks)
                     IN kept[Len(s)]

\* s.split_once('.'): no point is an empty fraction.
Points(s) == {i \in DOMAIN s : s[i] = "."}
Dot(s)    == CHOOSE i \in Points(s) : \A j \in Points(s) : i <= j

IntPart(s)  == IF Points(s) = {} THEN s ELSE SubSeq(s, 1, Dot(s) - 1)
FracPart(s) == IF Points(s) = {} THEN <<>> ELSE SubSeq(s, Dot(s) + 1, Len(s))

---------------------------------------------------------------------------
(* Writing.  What is before the point and what is behind it are kept apart *)
(* until the end, where the code splits the text again.                    *)

\* The last n digits of a number, zeros in front.
Padded(v, n) == [i \in 1..n |-> Figure[((v \div pow10(n - i)) % 10) + 1]]

\* How many digits a number takes: one at least.
Width(v) == LET w[n \in Nat \ {0}] == IF v < pow10(n) THEN n ELSE w[n + 1]
            IN w[1]

\* Where there are no decimals, a zero is written for them.
to_exact_string(raw, decimals) ==
    [int  |-> Padded(raw \div pow10(decimals), Width(raw \div pow10(decimals))),
     frac |-> Padded(raw % pow10(decimals), IF decimals = 0 THEN 1 ELSE decimals)]

\* A comma before every third digit from the right, but for the first.
Push(grouped, c, i, len) ==
    Append(IF i > 0 /\ (len - i) % 3 = 0 THEN Append(grouped, Comma) ELSE grouped, c)

Grouped(digits) ==
    LET done[k \in 0..Len(digits)] ==
            IF k = 0 THEN <<>> ELSE Push(done[k - 1], digits[k], k - 1, Len(digits))
    IN done[Len(digits)]

to_display_string(raw, decimals) ==
    LET exact == to_exact_string(raw, decimals)
    IN [int |-> Grouped(exact.int), frac |-> exact.frac]

Zeros(n) == [i \in 1..n |-> "0"]

\* Cut, and what would be cut to nothing is said to be less than can be shown.
to_display_string_max(raw, decimals, max_frac) ==
    LET full == to_display_string(raw, decimals)
        cut  == SubSeq(full.frac, 1, max_frac)
    IN IF decimals <= max_frac THEN full
       ELSE IF full.int = <<"0">> /\ cut = Zeros(max_frac) /\ raw # 0
         THEN [int |-> <<"<", "0">>, frac |-> Zeros(max_frac - 1) \o <<"1">>]
       ELSE [int |-> full.int, frac |-> cut]

\* frac.trim_end_matches('0')
trim_end(frac) == LET ends == {n \in 0..Len(frac) : \A i \in n + 1 .. Len(frac) : frac[i] = "0"}
                  IN SubSeq(frac, 1, CHOOSE n \in ends : \A m \in ends : n <= m)

Joined(int, frac) == IF frac = <<>> THEN int ELSE int \o (<<".">> \o frac)

\* Zeros that end the fraction go, and the point with the last of them.
to_display_string_trim(raw, decimals, max_frac) ==
    LET capped == to_display_string_max(raw, decimals, max_frac)
    IN Joined(capped.int, IF Contains(capped.int, "<") THEN capped.frac ELSE trim_end(capped.frac))

to_display_string_full(raw, decimals) == to_display_string_trim(raw, decimals, decimals)

---------------------------------------------------------------------------
(* What a reader takes a written amount for, in minimal units: each digit  *)
(* by its place.                                                           *)
ByPlace(digits, places) ==
    SumFunction([i \in DOMAIN digits |-> DigitOf(digits[i]) * pow10(places - i)])

Says(text, decimals) ==
    LET t == Without(text, {Comma, "<"})
    IN ByPlace(IntPart(t), decimals + Len(IntPart(t))) + ByPlace(FracPart(t), decimals)
=============================================================================
