--------------------------- MODULE MCLineageAudit ---------------------------
EXTENDS LineageAudit

MCInvariants == {"I1", "I2", "I6"}
MCTemporal == {"I1", "I2"}

\* Three sessions, and starts that make separations of less than, exactly and
\* more than the minimum of two, in both directions.
IndexedStates == [session : 1..3, start : 0..4, backend : {"fez"}]

\* A start that does not parse, and a state without an index.
MCStates == IndexedStates \union [session : 1..2, start : {Nil}, backend : {"fez"}] \union
            [session : {Nil}, start : {2}, backend : {"fez"}]

\* Enough for an admitted chain of two and for held sessions in between.
FewStates == [session : 1..3, start : {0, 1, 2, 4}, backend : {"fez"}]

\* Links shorter than the minimum, exact and negative, and a state without an
\* index.
HeldStates == [session : 1..3, start : 0..2, backend : {"fez"}] \union
              [session : {Nil}, start : {1}, backend : {"fez"}]
TwoStates == [session : 1..2, start : {0, 2}, backend : {"fez"}]

MCFailings == {{}, {"I1"}}
VerdictFailings == {{}, {"I1"}, {"I6"}}
NoArtifacts == {Nil}
MCArtifacts == {Nil, Described, "other", Uncanonical, Unencodable}
None == {}

-----------------------------------------------------------------------------
(* Receipts that are not of the shape the substrates return: four regular  *)
(* ones, each spoilt in one way.                                           *)

First == [session |-> 1, start |-> 0, backend |-> "fez"]
Second == [session |-> 2, start |-> 2, backend |-> "fez"]
Early == [session |-> 2, start |-> 0, backend |-> "fez"]

Sound ==
  { Receipt(First, Nil, "PERMIT", {}),
    Receipt(Second, Digest(First), "PERMIT", {}),
    Receipt(Early, Digest(First), "HOLD", {"I1"}),
    Receipt(First, Nil, "HOLD", {"I6"}) }

Entry(id, result, evidence, inputs) ==
  [id |-> id, result |-> result, evidence |-> evidence, inputs |-> inputs]

\* Predicate lists: one identifier missing, a result outside {PASS, FAIL}, no
\* evidence, no evaluated inputs, and a FAIL hidden by a later entry.
SpoiltLists ==
  { <<Entry("I1", "PASS", TRUE, TRUE), Entry("I2", "PASS", TRUE, TRUE)>>,
    <<Entry("I1", "FAIL", TRUE, TRUE), Entry("I2", "PASS", TRUE, TRUE)>>,
    <<Entry("I1", "SKIP", TRUE, TRUE), Entry("I2", "PASS", TRUE, TRUE),
      Entry("I6", "PASS", TRUE, TRUE)>>,
    <<Entry("I1", "PASS", FALSE, TRUE), Entry("I2", "PASS", TRUE, TRUE),
      Entry("I6", "PASS", TRUE, TRUE)>>,
    <<Entry("I1", "PASS", TRUE, FALSE), Entry("I2", "PASS", TRUE, TRUE),
      Entry("I6", "PASS", TRUE, TRUE)>>,
    <<Entry("I1", "FAIL", TRUE, TRUE), Entry("I2", "PASS", TRUE, TRUE),
      Entry("I6", "PASS", TRUE, TRUE), Entry("I1", "PASS", TRUE, TRUE)>> }

Spoilt ==
  UNION {
    { [receipt EXCEPT !.complete = FALSE],
      [receipt EXCEPT !.decision = "ALLOW"],
      [receipt EXCEPT !.declared = Nil],
      [receipt EXCEPT !.stateDigest = Digest(Elsewhere)],
      [receipt EXCEPT !.inputDigest = Nil],
      [receipt EXCEPT !.inputDigest = Digest("other")],
      [receipt EXCEPT !.outputDigest = Nil],
      [receipt EXCEPT !.outputDigest = Digest(Described)],
      [receipt EXCEPT !.predicates = Nil],
      [receipt EXCEPT !.proved = FALSE] }
      \union {[receipt EXCEPT !.predicates = list] : list \in SpoiltLists}
    : receipt \in Sound }
=============================================================================
