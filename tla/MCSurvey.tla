------------------------------- MODULE MCSurvey -------------------------------
(***************************************************************************)
(* Surveys of a few runs put together by hand, and surveys of the corpus:  *)
(* the local runs of two registered rulesets (run_from_local), the runs    *)
(* the locator's own tests compare.                                        *)
(***************************************************************************)
EXTENDS CanonSurvey, Corpus

-----------------------------------------------------------------------------
(* Runs put together by hand.                                              *)

MCInvariants == {"I1"}

Held == [ predicates |-> <<[id |-> "I1", result |-> "FAIL", evidence |-> "e"]>>,
          decision   |-> "HOLD",
          proof_digest |-> "p" ]
Permitted == [Held EXCEPT !.decision = "PERMIT"]

Bytes(b, d) == [refused |-> FALSE, bytes |-> b, digest |-> d]

RunsOf(case) ==
  { LR!Local(case, Bytes("b1", "hex1"), Nil, Nil), LR!Local(case, Bytes("b1", "base1"), Nil, Nil),
    LR!Local(case, Bytes("b1", "hex1"), Held, Nil), LR!Local(case, Bytes("b1", "hex1"), Permitted, Nil),
    LR!Local(case, Bytes("b2", "hex2"), Held, Nil),
    [caseId |-> case, values |-> [s \in Stages |-> Absent]] }

HandMade ==
  RunsOf("C06")
    \cup {LR!Local("C22", Bytes("b1", "hex1"), receipt, Nil) : receipt \in {Nil, Held, Permitted}}

ListsOf(n) == UNION {[1..m -> HandMade] : m \in 0..n}

-----------------------------------------------------------------------------
(* The corpus.                                                             *)

\* Refused for two reasons: the names are one after normalization, and a value
\* is not finite.
TwiceRefused ==
  CaseOf("twice", "grid", FALSE,
    LET nan == [Float(FALSE, <<>>, 0) EXCEPT !.word = "nan"]
    IN  Obj(<<Member(<<233>>, nan), Member(<<101, 769>>, nan)>>))

Surveyed == Append(CORPUS, TwiceRefused)

MCCaseIds == {"C06", "C22"} \cup {Surveyed[i].id : i \in DOMAIN Surveyed}

MCSurveys ==
  LET corpus == {RunsUnder[rules] : rules \in Rulesets}
  IN  [left : ListsOf(2), right : ListsOf(2)] \cup [left : corpus, right : corpus]
=============================================================================
