------------------------------- MODULE Corpus -------------------------------
(***************************************************************************)
(* The registered rulesets, canon/rulesets, and the 33 cases of            *)
(* canon/corpus.py.  Where the characters of a string do not matter it is  *)
(* one letter: W is a word, and the plain names of an object are N(1),     *)
(* N(2), ... in their ASCII order.                                         *)
(***************************************************************************)
EXTENDS Canon

JCS ==
  [ key_order |-> "utf16_code_unit", unicode_form |-> "none", number_format |-> "es6_shortest",
    bigint_policy |-> "ieee754_coerce", absent_null |-> "distinct",
    string_escaping |-> "json_minimal", line_ending |-> "none", trailing_newline |-> FALSE,
    indent |-> 0, digest_algorithm |-> "sha256", digest_encoding |-> "hex_lower",
    max_canonical_bytes |-> 0 ]

NfcUtf8Ascii ==
  [JCS EXCEPT !.key_order = "utf8_bytes", !.unicode_form = "nfc", !.bigint_policy = "exact",
              !.string_escaping = "ascii_only"]

PrettySorted ==
  [JCS EXCEPT !.key_order = "codepoint", !.number_format = "decimal_preserve",
              !.bigint_policy = "exact", !.absent_null = "null_elided", !.line_ending = "lf",
              !.trailing_newline = TRUE, !.indent = 2]

JCSBase64url == [JCS EXCEPT !.digest_encoding = "base64url"]

ScqosShared == [JCS EXCEPT !.digest_algorithm = "sha3_512", !.max_canonical_bytes = 1048576]

ScqosLiteral ==
  [ScqosShared EXCEPT !.key_order = "codepoint", !.number_format = "decimal_preserve",
                      !.bigint_policy = "exact"]
ScqosES6 == ScqosShared
ScqosLiteralES6num ==
  [ScqosShared EXCEPT !.key_order = "codepoint", !.bigint_policy = "exact"]

Registry == {JCS, NfcUtf8Ascii, PrettySorted, JCSBase64url,
             ScqosLiteral, ScqosES6, ScqosLiteralES6num}

-----------------------------------------------------------------------------
(* Values.                                                                 *)

Null == [kind |-> "null"]
ABSENT == [kind |-> "absent"]
Str(chars) == [kind |-> "string", chars |-> chars]
Arr(items) == [kind |-> "array", items |-> items]
Member(name, value) == [name |-> name, value |-> value]
Obj(members) == [kind |-> "object", members |-> members]
Integer(digits) ==
  [kind |-> "int", word |-> "finite", neg |-> FALSE, digits |-> digits, point |-> Len(digits)]
Float(neg, digits, point) ==
  [kind |-> "float", word |-> "finite", neg |-> neg, digits |-> digits, point |-> point]

Small(n) == Integer(<<n>>)
W == Str(<<116>>)
N(n) == <<96 + n>>
One(value) == Obj(<<Member(N(1), value)>>)
Two(first, second) == Obj(<<Member(N(1), first), Member(N(2), second)>>)

\* unicodedata.normalize("NFC", s) on the characters of the corpus: e with an
\* acute accent is composed, dot above and dot below change places.
NFC(chars) ==
  FoldLeft(LAMBDA done, c :
             LET before == IF done = <<>> THEN 0 ELSE Last(done)
             IN  CASE before = 101 /\ c = 769 -> Append(Front(done), 233)
                   [] before = 775 /\ c = 803 -> Front(done) \o <<803, 775>>
                   [] OTHER -> Append(done, c),
           <<>>, chars)

\* float(n) of the integers of the corpus: the two that are not exact, and one
\* that is too large for a float.
Past53 == <<9, 0, 0, 7, 1, 9, 9, 2, 5, 4, 7, 4, 0, 9, 9, 3>>
Bits64 == <<1, 8, 4, 4, 6, 7, 4, 4, 0, 7, 3, 7, 0, 9, 5, 5, 1, 6, 1, 5>>

AsDouble(n) ==
  LET nonzero == {i \in DOMAIN n.digits : n.digits[i] # 0}
      last    == CHOOSE i \in nonzero : \A j \in nonzero : j <= i
  IN  CASE n.digits = Past53 ->
             Float(n.neg, <<9, 0, 0, 7, 1, 9, 9, 2, 5, 4, 7, 4, 0, 9, 9, 2>>, 16)
        [] n.digits = Bits64 ->
             Float(n.neg, <<1, 8, 4, 4, 6, 7, 4, 4, 0, 7, 3, 7, 0, 9, 5, 5, 2>>, 20)
        [] Len(n.digits) > 309 -> [Float(n.neg, <<>>, 0) EXCEPT !.word = "overflow"]
        [] OTHER -> Float(n.neg, SubSeq(n.digits, 1, last), Len(n.digits))

-----------------------------------------------------------------------------
CaseOf(id, question, high, value) ==
  [id |-> id, question |-> question, high |-> high, value |-> value]

Ordering ==
  << CaseOf("ORD-01", "order", TRUE,
       Obj(<<Member(<<57344>>, Small(1)), Member(<<65536>>, Small(2))>>)),
     CaseOf("ORD-02", "order", FALSE,
       Obj(<<Member(<<90>>, Small(1)), Member(<<97>>, Small(2)), Member(<<65>>, Small(3)),
             Member(<<48>>, Small(4)), Member(<<95>>, Small(5))>>)),
     CaseOf("ORD-03", "order", TRUE,
       Obj(<<Member(<<99, 97, 102, 101, 769>>, Small(1)),
             Member(<<99, 97, 102, 233>>, Small(2))>>)),
     CaseOf("ORD-04", "order", FALSE, Obj(<<Member(<<>>, Small(1)), Member(N(1), Small(2))>>)),
     CaseOf("ORD-05", "order", FALSE,
       Obj(<<Member(N(2), Obj(<<Member(N(26), Small(1)), Member(N(1), Small(2))>>)),
             Member(N(1), Obj(<<Member(N(25), Small(3)), Member(N(2), Small(4))>>))>>)) >>

Unicode ==
  << CaseOf("UNI-01", "unicode", TRUE, One(Str(<<74, 111, 115, 101, 769>>))),
     CaseOf("UNI-02", "unicode", TRUE,
       Two(Str(<<64257, 108, 101>>), Str(<<65313, 65314>>))),
     CaseOf("UNI-03", "unicode", FALSE, One(Str(<<113, 775, 803>>))),
     CaseOf("UNI-04", "unicode", FALSE, One(Str(<<129514, 128300>>))) >>

NumberCases ==
  << CaseOf("NUM-01", "number", TRUE, One(Float(FALSE, <<1, 0, 2, 4>>, 4))),
     CaseOf("NUM-02", "number", TRUE,
       Obj(<<Member(N(2), Float(FALSE, <<1>>, 21)), Member(N(1), Float(FALSE, <<1>>, 22))>>)),
     CaseOf("NUM-03", "number", TRUE,
       Two(Float(FALSE, <<1>>, -5), Float(FALSE, <<1>>, -6))),
     CaseOf("NUM-04", "number", TRUE, One(Float(TRUE, <<>>, 0))),
     CaseOf("NUM-05", "number", FALSE,
       Two(Float(FALSE, <<1>>, 0),
           Float(FALSE, <<3, 0, 0, 0, 0, 0, 0, 0, 0, 0, 0, 0, 0, 0, 0, 0, 4>>, 0))),
     CaseOf("NUM-06", "number", TRUE, Two(Small(1), Float(FALSE, <<1>>, 1))) >>

BigInts ==
  << CaseOf("INT-01", "bigint", TRUE, Two(Integer(MaxSafeInteger), Integer(Past53))),
     CaseOf("INT-02", "bigint", TRUE, One(Integer(Bits64))),
     CaseOf("INT-03", "bigint", FALSE, One(W)) >>

Nulls ==
  << CaseOf("NUL-01", "null", TRUE, One(Null)),
     CaseOf("NUL-02", "null", TRUE, One(ABSENT)),
     CaseOf("NUL-03", "null", FALSE, One(Str(<<>>))),
     CaseOf("NUL-04", "null", FALSE,
       Obj(<<Member(N(2), Arr(<<>>)), Member(N(1), Obj(<<>>))>>)),
     CaseOf("NUL-05", "null", FALSE, One(Arr(<<Small(1), Null, Small(3)>>))) >>

Escapes ==
  << CaseOf("ESC-01", "escape", TRUE, One(Str(<<97, 0, 98, 31, 99>>))),
     CaseOf("ESC-02", "escape", TRUE, One(Str(<<116, 9, 104, 10, 110, 92, 98, 34, 113>>))),
     CaseOf("ESC-03", "escape", FALSE,
       Obj(<<Member(N(2), Str(<<47, 97, 47, 98>>)), Member(N(1), Str(<<127>>))>>)),
     CaseOf("ESC-04", "escape", TRUE, One(Str(<<97, 8232, 98, 8233, 99>>))) >>

\* The members of the packet in their order of declaration, named by the place
\* of the name among the sixteen.
Packet ==
  LET payload ==
        Obj(<<Member(N(4), Small(2)), Member(N(1), W), Member(N(5), Float(FALSE, <<1, 0, 2, 4>>, 4)),
              Member(N(3), Integer(<<1, 7>>)),
              Member(N(2), Arr(<<Small(3), Small(0), Small(5)>>))>>)
  IN  Obj(<<Member(N(11), W), Member(N(15), W), Member(N(1), W), Member(N(2), W),
            Member(N(10), W), Member(N(14), W), Member(N(16), W),
            Member(N(6), W), Member(N(3), W), Member(N(4), W), Member(N(7), W),
            Member(N(12), payload), Member(N(5), W), Member(N(13), Small(2)),
            Member(N(8), Null), Member(N(9), Null)>>)

ReceiptShaped ==
  LET Predicate(evidence) ==
        Obj(<<Member(N(2), W), Member(N(3), W), Member(N(1), Arr(evidence))>>)
  IN  Obj(<<Member(N(7), W), Member(N(2), W), Member(N(8), Small(2)), Member(N(1), W),
            Member(N(5), W), Member(N(3), W),
            Member(N(6), Arr(<<Predicate(<<W>>), Predicate(<<W>>), Predicate(<<>>)>>)),
            Member(N(4), Null),
            Member(N(9), Obj(<<Member(N(2), W), Member(N(1), ABSENT)>>))>>)

Structure ==
  << CaseOf("STR-01", "structure", FALSE,
       One(One(One(One(One(
         Arr(<<Small(1), Arr(<<Small(2), Arr(<<Small(3)>>)>>)>>))))))),
     CaseOf("STR-02", "structure", FALSE,
       One(Arr(<<Obj(<<Member(N(2), Small(1)), Member(N(1), Small(2))>>), One(Small(3)),
                 Obj(<<>>)>>))),
     CaseOf("PKT-01", "structure", TRUE, Packet),
     CaseOf("PKT-02", "structure", TRUE, Two(One(W), One(W))),
     CaseOf("PKT-03", "structure", TRUE, Two(One(W), One(W))),
     CaseOf("STR-03", "structure", TRUE, ReceiptShaped) >>

CORPUS == Ordering \o Unicode \o NumberCases \o BigInts \o Nulls \o Escapes \o Structure
=============================================================================
