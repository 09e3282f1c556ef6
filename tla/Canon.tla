------------------------------- MODULE Canon -------------------------------
(***************************************************************************)
(* The canonicalizer, canon/engine.py, under any ruleset of                *)
(* canon/ruleset.py.  A ruleset is the record of the fields of Ruleset; a  *)
(* value is a tree of records with a kind, an object the sequence of its   *)
(* members in insertion order, a string the sequence of its code points.   *)
(*                                                                         *)
(* A canonical text is modelled by its form: the tree of its tokens, with  *)
(* the padding each bracket carries.  Two texts are equal if and only if   *)
(* their forms are.                                                        *)
(***************************************************************************)
EXTENDS Numbers, TLC

CONSTANT Compose(_)  \* unicodedata.normalize("NFC", chars)

Normalize(rules, chars) == IF rules.unicode_form = "none" THEN chars ELSE Compose(chars)

-----------------------------------------------------------------------------
(* Strings.                                                                *)

ShortEscapes == {8, 9, 10, 12, 13, 34, 92}

IsSurrogate(c) == 55296 <= c /\ c < 57344

Utf16(c) ==
  IF c < 65536 THEN <<c>> ELSE <<55296 + ((c - 65536) \div 1024), 56320 + (c % 1024)>>

Continuation(n) == 128 + (n % 64)

Utf8(c) ==
  CASE c < 128 -> <<c>>
    [] 128 <= c /\ c < 2048 -> <<192 + (c \div 64), Continuation(c)>>
    [] 2048 <= c /\ c < 65536 ->
         <<224 + (c \div 4096), Continuation(c \div 64), Continuation(c)>>
    [] OTHER ->
         <<240 + (c \div 262144), Continuation(c \div 4096), Continuation(c \div 64),
           Continuation(c)>>

\* The code units of a string, in the order they are compared in.
Utf16Units(chars) == FlattenSeq([i \in DOMAIN chars |-> Utf16(chars[i])])
Utf8Bytes(chars) == FlattenSeq([i \in DOMAIN chars |-> Utf8(chars[i])])

\* The tokens of one character: a short escape, \u escapes, or itself.
Escape(rules, c) ==
  CASE c \in ShortEscapes -> <<[as |-> "short", of |-> c]>>
    [] c \notin ShortEscapes /\ c < 32 -> <<[as |-> "u", of |-> c]>>
    [] c > 127 /\ rules.string_escaping = "ascii_only" ->
         [i \in DOMAIN Utf16(c) |-> [as |-> "u", of |-> Utf16(c)[i]]]
    [] OTHER -> <<[as |-> "raw", of |-> c]>>

String(rules, chars) ==
  LET text == Normalize(rules, chars)
  IN  [node |-> "string", units |-> FlattenSeq([i \in DOMAIN text |-> Escape(rules, text[i])])]

-----------------------------------------------------------------------------
(* Members of an object.                                                   *)

\* Mutant: the names are sorted as they are given.
SortRaw(rules, name) ==
  IF rules.key_order = "utf16_code_unit" THEN Utf16Units(name) ELSE name

SortKey(rules, name) ==
  CASE rules.key_order = "utf16_code_unit" -> Utf16Units(Normalize(rules, name))
    [] rules.key_order = "utf8_bytes" -> Utf8Bytes(Normalize(rules, name))
    [] rules.key_order = "codepoint" -> Normalize(rules, name)

\* An absent member is never emitted; a null one is elided or becomes "".
Kept(rules, members) ==
  SelectSeq(members,
    LAMBDA m : /\ m.value.kind # "absent"
               /\ ~(m.value.kind = "null" /\ rules.absent_null = "null_elided"))

NullFilled(rules, value) ==
  IF value.kind = "null" /\ rules.absent_null = "null_as_empty"
  THEN [kind |-> "string", chars |-> <<>>]
  ELSE value

Sorted(rules, members) ==
  IF rules.key_order = "insertion"
  THEN members
  ELSE SortSeq(members, LAMBDA m, n : LexLess(SortKey(rules, m.name), SortKey(rules, n.name)))

Members(rules, members) ==
  LET kept == Kept(rules, members)
  IN  Sorted(rules, [i \in DOMAIN kept |->
                       [kept[i] EXCEPT !.value = NullFilled(rules, kept[i].value)]])

\* Mutant: the names are compared as they are given.
RawDuplicate(rules, members) == [i \in DOMAIN members |-> <<>>]

\* What the check of a name against the names before it raises: UTF-8 encodes
\* no surrogate, and two names may be one after normalization.
NameErrors(rules, members) ==
  [ i \in DOMAIN members |->
      LET name == Normalize(rules, members[i].name)
      IN  IF \E k \in DOMAIN name : IsSurrogate(name[k])
          THEN <<Uncaught("UnicodeEncodeError")>>
          ELSE IF \E j \in 1..(i - 1) : Normalize(rules, members[j].name) = name
          THEN <<Refusal("duplicate key")>>
          ELSE <<>> ]

-----------------------------------------------------------------------------
(* Documents.                                                              *)

IsError(form) == form.node \in {"refused", "raised"}

\* The first error in the order of evaluation, or the form.
FirstError(errors, form) == IF errors = <<>> THEN form ELSE Head(errors)

\* The newline and the indentation a bracket puts around its parts.
Pad(rules, depth) ==
  IF rules.indent <= 0
  THEN <<>>
  ELSE <<[ newline |-> IF rules.line_ending = "none" THEN "lf" ELSE rules.line_ending,
           width   |-> rules.indent * depth ]>>

RECURSIVE Serialize(_, _, _)

Bracket(rules, shape, names, values, depth) ==
  LET parts == [i \in DOMAIN values |-> Serialize(rules, values[i], depth + 1)]
  IN  FirstError(SelectSeq(parts, IsError),
        [ node  |-> shape,
          names |-> names,
          parts |-> parts,
          pads  |-> IF parts = <<>> THEN <<>> ELSE Pad(rules, depth + 1) \o Pad(rules, depth) ])

Object(rules, members, depth) ==
  LET ms == Members(rules, members)
  IN  FirstError(FlattenSeq(NameErrors(rules, ms)),
        Bracket(rules, "object",
                [i \in DOMAIN ms |-> String(rules, ms[i].name)],
                [i \in DOMAIN ms |-> ms[i].value], depth))

Serialize(rules, value, depth) ==
  CASE value.kind = "null" -> [node |-> "null"]
    [] value.kind = "bool" -> [node |-> "bool", of |-> value.of]
    [] value.kind \in {"int", "float"} -> RenderNumber(rules, value)
    [] value.kind = "string" -> String(rules, value.chars)
    [] value.kind = "array" -> Bracket(rules, "array", <<>>, value.items, depth)
    [] value.kind = "object" -> Object(rules, value.members, depth)
    [] OTHER -> Refusal("no canonical form")

\* The leaves of a form, names included.
RECURSIVE Leaves(_)
Leaves(form) ==
  IF form.node \in {"array", "object"}
  THEN form.names \o FlattenSeq([i \in DOMAIN form.parts |-> Leaves(form.parts[i])])
  ELSE <<form>>

\* Mutant: surrogates pass.
SurrogatesPass(form) == TRUE

Encodable(form) ==
  \A leaf \in ToSet(Leaves(form)) :
    leaf.node = "string" =>
      \A unit \in ToSet(leaf.units) : unit.as = "raw" => ~IsSurrogate(unit.of)

\* The length of a text in bytes, counted in leaves.
Size(form) == Len(Leaves(form))

Emit(rules, value) ==
  LET form == Serialize(rules, value, 0)
  IN  CASE value.kind = "absent" -> Refusal("ABSENT")
        [] IsError(form) -> form
        [] ~IsError(form) /\ ~Encodable(form) -> Uncaught("UnicodeEncodeError")
        [] ~IsError(form) /\ Encodable(form)
             /\ rules.max_canonical_bytes # 0 /\ Size(form) > rules.max_canonical_bytes ->
             Refusal("size")
        [] OTHER -> [ node  |-> "text",
                      form  |-> form,
                      final |-> IF rules.trailing_newline THEN rules.line_ending ELSE "none" ]

\* Hashing is injective; the encoding of the hash is part of the digest.
DigestOf(rules, text) ==
  [algorithm |-> rules.digest_algorithm, encoding |-> rules.digest_encoding, of |-> text]

-----------------------------------------------------------------------------
(* Reading a canonical text back, load_json.                               *)

\* The code points a string's tokens stand for: a pair of \u escapes that are
\* surrogates is one character.
Chars(units) ==
  FoldLeft(LAMBDA chars, unit :
             LET high == IF chars = <<>> THEN 0 ELSE Last(chars)
             IN  IF unit.as = "u" /\ unit.of \in 56320..57343 /\ high \in 55296..56319
                 THEN Append(Front(chars), 65536 + 1024 * (high - 55296) + (unit.of - 56320))
                 ELSE Append(chars, unit.of),
           <<>>, units)

\* A numeral without point and exponent is an int, parsed exactly.
NumberRead(numeral) ==
  IF numeral.fraction = <<>> /\ numeral.exponent = NoExponent
  THEN [ kind |-> "int", word |-> "finite", neg |-> numeral.neg,
         digits |-> numeral.whole, point |-> Len(numeral.whole) ]
  ELSE LET parts == Decompose(numeral)
       IN  [ kind |-> "float", word |-> "finite", neg |-> numeral.neg,
             digits |-> IF parts.digits = <<0>> THEN <<>> ELSE parts.digits,
             point |-> parts.point ]

RECURSIVE Read(_)
Read(form) ==
  CASE form.node = "null" -> [kind |-> "null"]
    [] form.node = "bool" -> [kind |-> "bool", of |-> form.of]
    [] form.node = "number" -> NumberRead(form)
    [] form.node = "string" -> [kind |-> "string", chars |-> Chars(form.units)]
    [] form.node = "array" ->
         [kind |-> "array", items |-> [i \in DOMAIN form.parts |-> Read(form.parts[i])]]
    [] form.node = "object" ->
         [ kind    |-> "object",
           members |-> [i \in DOMAIN form.parts |->
                          [name |-> Chars(form.names[i].units), value |-> Read(form.parts[i])]] ]

\* The hook of load_json: no object of the document says one name twice.
RECURSIVE Loads(_)
Loads(form) ==
  IF form.node \notin {"array", "object"}
  THEN TRUE
  ELSE /\ \A i, j \in DOMAIN form.names :
            Chars(form.names[i].units) = Chars(form.names[j].units) => i = j
       /\ \A i \in DOMAIN form.parts : Loads(form.parts[i])
=============================================================================
