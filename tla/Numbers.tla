------------------------------ MODULE Numbers ------------------------------
(***************************************************************************)
(* Number rendering, canon/numbers.py.  A number is the record of its kind *)
(* ("int" or "float"), its sign and its decimal digits: it has the value   *)
(* 0.d1d2d3... * 10^point, where a float has the digits of the shortest    *)
(* decimal that reads back to it, none of them an outer zero (the float    *)
(* zero has no digit), and an int all the digits it is written with.       *)
(* What is rendered is the record of a numeral: its sign, the digits       *)
(* before and after the decimal point, and the exponent.                   *)
(***************************************************************************)
EXTENDS Integers, Sequences, SequencesExt

CONSTANT Double(_)  \* float(n) of an int; its word is "overflow" if it raises

Zeros(n) == IF n <= 0 THEN <<>> ELSE [i \in 1..n |-> 0]

Refusal(reason) == [node |-> "refused", reason |-> reason]  \* CanonicalizationError
Uncaught(error) == [node |-> "raised", reason |-> error]    \* any other exception

LexLess(s, t) ==
  \/ IsStrictPrefix(s, t)
  \/ \E i \in DOMAIN s \cap DOMAIN t : s[i] < t[i] /\ SubSeq(s, 1, i - 1) = SubSeq(t, 1, i - 1)

-----------------------------------------------------------------------------
NoExponent == [neg |-> FALSE, digits |-> <<>>]

Numeral(neg, word, whole, fraction, exponent) ==
  [ node     |-> "number",
    neg      |-> neg,
    word     |-> word,
    whole    |-> whole,
    fraction |-> fraction,
    exponent |-> exponent ]

\* |e| in two digits or three; Python pads the exponent to two.
Digits2(e) ==
  LET n == IF e < 0 THEN -e ELSE e
  IN  IF n < 100 THEN <<n \div 10, n % 10>> ELSE <<n \div 100, (n \div 10) % 10, n % 10>>

\* Python's repr(float): fixed from 1e-4 to below 1e16, with a digit after the
\* point, and scientific outside.
Repr(v) ==
  LET d == v.digits
      p == v.point
      n == Len(d)
      orZero(s) == IF s = <<>> THEN <<0>> ELSE s
      cut == IF p < 0 THEN 0 ELSE IF p < n THEN p ELSE n
  IN  CASE v.word # "finite" -> Numeral(v.neg, v.word, <<>>, <<>>, NoExponent)
        [] v.word = "finite" /\ (n = 0 \/ (-4 < p /\ p <= 16)) ->
             Numeral(v.neg, "finite",
                     orZero(SubSeq(d, 1, cut) \o Zeros(p - n)),
                     orZero(Zeros(-p) \o SubSeq(d, cut + 1, n)),
                     NoExponent)
        [] OTHER ->
             Numeral(v.neg, "finite", <<d[1]>>, Tail(d), [neg |-> p < 1, digits |-> Digits2(p - 1)])

-----------------------------------------------------------------------------
\* _decompose: the significant digits of a numeral and the place of its point.
Decompose(numeral) ==
  LET combined == numeral.whole \o numeral.fraction
      e        == FoldLeft(LAMBDA acc, x : 10 * acc + x, 0, numeral.exponent.digits)
      nonzero  == {i \in DOMAIN combined : combined[i] # 0}
      lead     == CHOOSE i \in nonzero : \A j \in nonzero : i <= j
      last     == CHOOSE i \in nonzero : \A j \in nonzero : j <= i
  IN  IF nonzero = {}
      THEN [digits |-> <<0>>, point |-> 0]
      ELSE [ digits |-> SubSeq(combined, lead, last),
             point  |-> Len(numeral.whole) + (IF numeral.exponent.neg THEN -e ELSE e)
                          - (lead - 1) ]

\* An exponent without padding.
Digits(e) == LET two == Digits2(e) IN IF Head(two) = 0 THEN Tail(two) ELSE two

\* Mutant: from 10^20 on.
OneTooFew == 20

\* The greatest place of the point for which an integer is written in full.
FullPlaces == 21

\* The four layouts of ECMAScript's Number::toString, for k digits.
Layout(neg, digits, n, k) ==
  CASE k <= n /\ n <= FullPlaces -> Numeral(neg, "finite", digits \o Zeros(n - k), <<>>, NoExponent)
    [] 0 < n /\ n < k /\ n <= FullPlaces ->
         Numeral(neg, "finite", SubSeq(digits, 1, n), SubSeq(digits, n + 1, k), NoExponent)
    [] -6 < n /\ n <= 0 -> Numeral(neg, "finite", <<0>>, Zeros(-n) \o digits, NoExponent)
    [] OTHER -> Numeral(neg, "finite", <<digits[1]>>, SubSeq(digits, 2, k),
                        [neg |-> n < 1, digits |-> Digits(n - 1)])

ES6(v) ==
  CASE v.word = "nan" -> Refusal("NaN")
    [] v.word = "inf" -> Refusal("Infinity")
    [] v.word = "overflow" -> Uncaught("OverflowError")
    [] v.word = "finite" /\ v.digits = <<>> -> Numeral(FALSE, "finite", <<0>>, <<>>, NoExponent)
    [] OTHER -> LET parts == Decompose(Repr([v EXCEPT !.neg = FALSE]))
                IN  Layout(v.neg, parts.digits, parts.point, Len(parts.digits))

-----------------------------------------------------------------------------
MaxSafeInteger == <<9, 0, 0, 7, 1, 9, 9, 2, 5, 4, 7, 4, 0, 9, 9, 1>>

Unsafe(v) ==
  \/ Len(v.digits) > Len(MaxSafeInteger)
  \/ Len(v.digits) = Len(MaxSafeInteger) /\ LexLess(MaxSafeInteger, v.digits)

\* str(n) of an int.
Plain(v) == Numeral(v.neg, "finite", v.digits, <<>>, NoExponent)

\* Mutant: the policy for big integers is not asked.
RenderExactly(rules, v) == Plain(v)

RenderInt(rules, v) ==
  CASE Unsafe(v) /\ rules.bigint_policy = "reject" -> Refusal("bigint")
    [] Unsafe(v) /\ rules.bigint_policy = "ieee754_coerce" -> ES6(Double(v))
    [] OTHER -> Plain(v)

RenderFloat(rules, v) ==
  CASE rules.number_format = "int_only" -> Refusal("non-integer")
    [] rules.number_format = "decimal_preserve" -> Repr(v)
    [] rules.number_format = "es6_shortest" -> ES6(v)

RenderNumber(rules, v) ==
  IF v.kind = "int" THEN RenderInt(rules, v) ELSE RenderFloat(rules, v)
=============================================================================
