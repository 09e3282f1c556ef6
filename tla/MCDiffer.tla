------------------------------- MODULE MCDiffer -------------------------------
(***************************************************************************)
(* The differential runner over the canonicalizer: every pair of the       *)
(* registered rulesets over the corpus, and every ruleset with itself, and *)
(* the readings of the SCQOS specification with each other, over grids of  *)
(* values chosen at the boundaries of each rule.                           *)
(***************************************************************************)
EXTENDS Differ, Corpus

(* Rulesets that are not registered, for the policies no registered one has. *)
Variants ==
  { [JCS EXCEPT !.key_order = "insertion", !.unicode_form = "nfc"],
    [NfcUtf8Ascii EXCEPT !.number_format = "int_only", !.absent_null = "null_as_empty"],
    [PrettySorted EXCEPT !.bigint_policy = "reject", !.line_ending = "crlf"] }

Capped == [ScqosES6 EXCEPT !.max_canonical_bytes = 2]

Readings == {ScqosLiteral, ScqosES6, ScqosLiteralES6num}

-----------------------------------------------------------------------------
(* The grids.                                                              *)

Of(values) == [i \in DOMAIN values |-> CaseOf(i, "grid", FALSE, values[i])]

F(neg, digits, point) == Float(neg, digits, point)
PowerOfTen(n) == Integer(<<1>> \o Zeros(n))
NotFinite(word) == [F(FALSE, <<>>, 0) EXCEPT !.word = word]

GridNumbers ==
  << Small(0), Small(1), Integer(MaxSafeInteger),
     Integer(<<9, 0, 0, 7, 1, 9, 9, 2, 5, 4, 7, 4, 0, 9, 9, 2>>), Integer(Past53),
     Integer(Bits64), PowerOfTen(20), PowerOfTen(21),
     F(FALSE, <<>>, 0), F(TRUE, <<>>, 0), F(FALSE, <<1>>, 1), F(TRUE, <<1, 5>>, 1),
     F(FALSE, <<1>>, 0), F(FALSE, <<9, 0, 0, 7, 1, 9, 9, 2, 5, 4, 7, 4, 0, 9, 9, 2>>, 16),
     F(FALSE, <<1>>, 16), F(FALSE, <<1>>, 17), F(FALSE, <<1>>, 21), F(FALSE, <<1>>, 22),
     F(FALSE, <<1, 5>>, 22), F(FALSE, <<1>>, 101),
     F(FALSE, <<1>>, -3), F(FALSE, <<1>>, -4), F(FALSE, <<1>>, -5), F(FALSE, <<1>>, -6),
     F(FALSE, <<1>>, -8), F(FALSE, <<9, 9>>, -9), F(TRUE, <<1>>, -99),
     NotFinite("nan"), NotFinite("inf") >>

GridValues ==
  << Null, ABSENT, [kind |-> "bool", of |-> TRUE], Arr(<<>>), Arr(<<Null>>), Arr(<<Arr(<<>>)>>),
     Obj(<<>>), One(Obj(<<>>)), One(Null), Two(Small(1), ABSENT), Two(Small(1), Null),
     One(Small(1)), Str(<<>>), Str(N(1)), Str(<<233>>), Str(<<101, 769>>), Str(<<101>>),
     Str(<<34>>), Str(<<92>>), Str(<<8>>), Str(<<31>>), Str(<<127>>), Str(<<128>>),
     Str(<<57344>>), Str(<<65536>>), Str(<<129514>>), Str(<<92, 117>>) >>

Names == << <<>>, N(1), <<102>>, <<233>>, <<101, 769>>, <<57344>>, <<65536>> >>

\* Two names with two values, in both orders of insertion.
TwoNames(s, t) ==
  IF s = t THEN <<>>
  ELSE << Obj(<<Member(s, Small(1)), Member(t, Small(2))>>),
          Obj(<<Member(t, Small(2)), Member(s, Small(1))>>) >>

GridObjects ==
  FlattenSeq([i \in DOMAIN Names |->
    FlattenSeq([j \in DOMAIN Names |-> TwoNames(Names[i], Names[j])])])

Grids == {Of(GridNumbers), Of([i \in DOMAIN GridNumbers |-> One(GridNumbers[i])]),
          Of(GridValues), Of(GridObjects)}

\* A member of a value that no ruleset or not every ruleset can encode.
Strange ==
  { Of(<<One(W), value>>) :
      value \in { One(Str(<<55296>>)), Obj(<<Member(<<55296>>, Small(1))>>),
                  One(Integer([i \in 1..310 |-> 9])), One([kind |-> "set"]),
                  Arr(<<ABSENT>>), Arr(<<Small(1), Small(2), Small(3)>>) } }

Comparison(l, r, cs) == [left |-> l, right |-> r, cases |-> cs]

MCComparisons ==
  {Comparison(l, r, CORPUS) : l \in Registry, r \in Registry}
    \cup {Comparison(r, r, cs) : r \in Registry \cup Variants, cs \in Grids}
    \cup {Comparison(l, r, cs) : l \in Readings, r \in Readings, cs \in Grids}
    \cup {Comparison(l, r, cs) : l \in {NfcUtf8Ascii, PrettySorted, Capped},
                                 r \in {JCS, NfcUtf8Ascii, Capped}, cs \in Strange}

-----------------------------------------------------------------------------
(* What a canonical text ought to stand for: the value under a ruleset,    *)
(* without the order of members, what is elided and what is normalized.    *)

\* The decimal value of a finite number.
Magnitude(v) ==
  LET nonzero == {i \in DOMAIN v.digits : v.digits[i] # 0}
      last    == CHOOSE i \in nonzero : \A j \in nonzero : j <= i
  IN  IF nonzero = {}
      THEN [digits |-> <<>>, point |-> 0]
      ELSE [digits |-> SubSeq(v.digits, 1, last), point |-> v.point]

IntAndFloatDiffer(rules, v) ==
  \/ rules.number_format = "decimal_preserve"
  \/ rules.bigint_policy = "exact" /\ v.point > 21

NumberMeant(rules, v) ==
  LET coerced == v.kind = "int" /\ Unsafe(v) /\ rules.bigint_policy = "ieee754_coerce"
      n       == IF coerced THEN AsDouble(v) ELSE v
  IN  [ kind  |-> IF IntAndFloatDiffer(rules, v) THEN v.kind ELSE "number",
        word  |-> n.word,
        neg   |-> n.neg /\ (Magnitude(n).digits # <<>> \/ rules.number_format = "decimal_preserve"),
        value |-> Magnitude(n) ]

RECURSIVE Meant(_, _)
Meant(rules, value) ==
  CASE value.kind \in {"int", "float"} -> NumberMeant(rules, value)
    [] value.kind = "string" -> Str(Normalize(rules, value.chars))
    [] value.kind = "array" -> Arr([i \in DOMAIN value.items |-> Meant(rules, value.items[i])])
    [] value.kind = "object" ->
         LET ms     == value.members
             kept   == {i \in DOMAIN ms :
                          /\ ms[i].value.kind # "absent"
                          /\ ms[i].value.kind = "null" => rules.absent_null # "null_elided"}
             empty(v) == v.kind = "null" /\ rules.absent_null = "null_as_empty"
             \* the place of a member among those kept, where it counts
             place(i) == IF rules.key_order = "insertion"
                         THEN Cardinality({j \in kept : j < i}) ELSE 0
         IN  [ kind    |-> "object",
               members |-> { <<place(i), Normalize(rules, ms[i].name),
                               IF empty(ms[i].value) THEN Str(<<>>) ELSE Meant(rules, ms[i].value)>> :
                             i \in kept } ]
    [] OTHER -> value

-----------------------------------------------------------------------------
(* Where the readings of the SCQOS specification may differ.               *)

RECURSIVE Parts(_)
Parts(value) ==
  {value} \cup
  CASE value.kind = "array" -> UNION {Parts(value.items[i]) : i \in DOMAIN value.items}
    [] value.kind = "object" ->
         UNION {Parts(value.members[i].value) : i \in DOMAIN value.members}
    [] OTHER -> {}

\* A name with a supplementary character where another has one from U+E000 on.
OrderMatters(names) ==
  \E s, t \in names : \E i \in DOMAIN s \cap DOMAIN t :
    s[i] >= 65536 /\ t[i] \in 57344..65535 /\ SubSeq(s, 1, i - 1) = SubSeq(t, 1, i - 1)

\* A float the two notations differ on: an integer below 10^21, a number from
\* 10^-9 to below 10^-4, and whatever is not finite.
FloatMatters(v) ==
  \/ v.word # "finite" \/ v.digits = <<>>
  \/ Len(v.digits) <= v.point /\ v.point <= 21
  \/ -8 <= v.point /\ v.point <= -4

\* An integer of which the double nearest to it is written otherwise.
IntMatters(v) == Unsafe(v) /\ (v.point > 21 \/ Magnitude(AsDouble(v)) # Magnitude(v))

Gaps(value) ==
  UNION { CASE part.kind = "float" /\ FloatMatters(part) -> {"number_format"}
            [] part.kind = "int" /\ IntMatters(part) -> {"bigint_policy"}
            [] part.kind = "object"
                 /\ OrderMatters({part.members[i].name : i \in DOMAIN part.members}) ->
                 {"key_order"}
            [] OTHER -> {} : part \in Parts(value) }

-----------------------------------------------------------------------------
(* Properties.                                                             *)

Latest == results[Len(results)]

\* Two values have the same canonical text under a ruleset exactly if the
\* ruleset means them to: whatever the order of insertion, the normalization of
\* names and strings, the members elided and the notation of numbers, and
\* nothing else is confused (engine.py _members and _serialize, numbers.py).
TextIsMeaning ==
  (left = right /\ results # <<>> /\ ~Refused(Latest.left)) =>
    LET meant == Meant(left, Latest.case.value)
    IN  \A i \in DOMAIN results :
          ~Refused(results[i].left) =>
            ((results[i].left = Latest.left) <=> (Meant(left, results[i].case.value) = meant))

\* A canonical text is a fixed point: it says no name twice, so that load_json
\* accepts it, and what load_json makes of it has the same canonical text. Not
\* finite numbers are left out: json.loads does not read what is written of them.
RereadsToItself ==
  (results # <<>> /\ ~Refused(Latest.left)
     /\ \A part \in Parts(Latest.case.value) : part.kind = "float" => part.word = "finite") =>
    /\ Loads(Latest.left.form)
    /\ Emit(left, Read(Latest.left.form)) = Latest.left

\* The readings of the SCQOS specification disagree on a value exactly if it
\* asks a question the specification leaves open and the two answer
\* differently: the order of names beyond U+FFFF, the notation of a float, the
\* value of an integer beyond 2^53 - 1 (rulesets/scqos.py, FINDINGS-CANON-01).
GapsExplainAll ==
  (results # <<>> /\ {left, right} \subseteq Readings) =>
    (Diverged(Latest)
       <=> \E question \in Gaps(Latest.case.value) : left[question] # right[question])

\* The corpus tells the two readings of FINDINGS-CANON-01 apart in nine cases of
\* 33, the packet of the declared schema among them.
NineCasesDiverge ==
  (status = "returned" /\ cases = CORPUS /\ left = ScqosLiteral /\ right = ScqosES6) =>
    /\ {results[i].case.id : i \in {j \in DOMAIN results : Diverged(results[j])}}
         = {"ORD-01", "NUM-01", "NUM-02", "NUM-03", "NUM-04", "NUM-06",
            "INT-01", "INT-02", "PKT-01"}
    /\ Summary("number", "DIVERGE") = 5 /\ Summary("number", "AGREE") = 1

\* Whether some string in a value has a surrogate that the ruleset leaves as it
\* is, some name of an object has one, or some integer is beyond every float.
Unencodable(rules, value) ==
  \E part \in Parts(value) :
    CASE part.kind = "string" ->
           rules.string_escaping # "ascii_only" /\ \E i \in DOMAIN part.chars : IsSurrogate(part.chars[i])
      [] part.kind = "object" ->
           \E i \in DOMAIN part.members : \E k \in DOMAIN part.members[i].name :
             IsSurrogate(part.members[i].name[k])
      [] part.kind = "int" ->
           rules.bigint_policy = "ieee754_coerce" /\ Len(part.digits) > 309
      [] OTHER -> FALSE

\* compare loses every outcome to an error that is no refusal exactly if a case
\* cannot be encoded under one of the rulesets (differ.py _render catches
\* CanonicalizationError only): the cases before it and after it go with it.
LostToEncoding ==
  /\ status = "raised" => results = <<>>
  /\ status # "comparing" =>
       (status = "raised"
          <=> \E i \in DOMAIN cases : \E rules \in {left, right} :
                Unencodable(rules, cases[i].value))
=============================================================================
