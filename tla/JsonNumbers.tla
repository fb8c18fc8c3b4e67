------------------------------- MODULE JsonNumbers -----------------------------
(***************************************************************************)
(* Exact decimal numbers (Json.cpp): the canonical form a number is kept   *)
(* in and the comparison of two canonical forms.  A lexeme is what JSON    *)
(* syntax allows: a sign, the digits before and after the point and the    *)
(* written exponent.                                                       *)
(***************************************************************************)
EXTENDS Integers, Sequences, SequencesExt, FiniteSetsExt

CONSTANTS
  MaxDigits,    \* digits of a coefficient (1024 in the code)
  MaxWritten,   \* a written exponent (4096)
  MaxEffective  \* the exponent of the stripped coefficient (5120)

ASSUME LimitsAssumption ==
  MaxDigits \in Nat /\ MaxWritten \in Nat /\ MaxEffective \in Nat /\ MaxDigits <= MaxEffective

IsLexeme(l) ==
  /\ l.neg \in BOOLEAN /\ l.exp \in Int
  /\ l.whole \in Seq(0..9) \ {<<>>} /\ l.frac \in Seq(0..9)

Refused == [kind |-> "refused"]
Number(neg, whole, frac) == [kind |-> "number", neg |-> neg, whole |-> whole, frac |-> frac]

Zeros(n)   == [i \in 1..n |-> 0]
Nonzero(s) == {i \in 1..Len(s) : s[i] # 0}

(* The digits up to the last one that is not zero, but at least one.       *)
Stripped(s) == SubSeq(s, 1, Max({1} \cup Nonzero(s)))

(* Where the point goes when the digits c stand for c * 10^exponent.       *)
Placed(neg, c, exponent) ==
  LET point == Len(c) + exponent IN
    IF point <= 0 THEN Number(neg, <<0>>, Zeros(-point) \o c)
    ELSE IF point >= Len(c) THEN Number(neg, c \o Zeros(point - Len(c)), <<>>)
    ELSE Number(neg, SubSeq(c, 1, point), SubSeq(c, point + 1, Len(c)))

Canonical(l) ==
  LET digits      == l.whole \o l.frac
      coefficient == Stripped(digits)
      exponent    == l.exp - Len(l.frac) + (Len(digits) - Len(coefficient))
  IN IF \/ Len(digits) > MaxDigits \/ l.exp \notin -MaxWritten..MaxWritten
        \/ exponent \notin -MaxEffective..MaxEffective
     THEN Refused
     ELSE IF Nonzero(coefficient) = {} THEN Number(FALSE, <<0>>, <<>>)
     ELSE Placed(l.neg, SubSeq(coefficient, Min(Nonzero(coefficient)), Len(coefficient)),
                 exponent)

(* -1, 0 or 1 by the first digit that differs; a missing one counts as 0.  *)
Digit(s, i) == IF i <= Len(s) THEN s[i] ELSE 0
CompareDigits(s, t) ==
  LET differ == {i \in 1..Max({Len(s), Len(t)}) : Digit(s, i) # Digit(t, i)} IN
    IF differ = {} THEN 0
    ELSE IF Digit(s, Min(differ)) < Digit(t, Min(differ)) THEN -1 ELSE 1

CompareMagnitudes(a, b) ==
  IF Len(a.whole) # Len(b.whole) THEN IF Len(a.whole) < Len(b.whole) THEN -1 ELSE 1
  ELSE IF CompareDigits(a.whole, b.whole) # 0 THEN CompareDigits(a.whole, b.whole)
  ELSE CompareDigits(a.frac, b.frac)

(* Mutant: two negative numbers are compared by their magnitudes.          *)
Compare_Magnitudes(a, b) ==
  IF a.neg # b.neg THEN IF a.neg THEN -1 ELSE 1
  ELSE CompareMagnitudes(a, b)

Compare(a, b) ==
  IF a.neg # b.neg THEN IF a.neg THEN -1 ELSE 1
  ELSE IF a.neg THEN -CompareMagnitudes(a, b) ELSE CompareMagnitudes(a, b)

(* The exact value of a lexeme, times 10^scale: every power of ten is one  *)
(* more zero.                                                              *)
ValueOf(digits) == FoldLeft(LAMBDA acc, d : 10 * acc + d, 0, digits)
Scaled(l, scale) ==
  LET n == ValueOf(l.whole \o l.frac \o Zeros(l.exp - Len(l.frac) + scale))
  IN IF l.neg THEN -n ELSE n
===============================================================================
