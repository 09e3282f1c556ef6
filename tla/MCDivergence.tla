---------------------------- MODULE MCDivergence ----------------------------
(***************************************************************************)
(* Small runs for the locator: local runs (with and without a receipt) and *)
(* hand-made runs with a gap at any subset of the stages.                  *)
(***************************************************************************)
EXTENDS Divergence, FiniteSets

LR == INSTANCE LocalRun

MCInvariants == {"I1", "I2"}

Entry(id, result, evidence) == [id |-> id, result |-> result, evidence |-> evidence]

\* Predicate lists: two orders of one list, another evidence, one id missing,
\* a duplicate identifier whose later entry restores the first list, the same
\* without that entry, an entry that says nothing, and one of no predicate.
Lists ==
  { <<Entry("I1", "PASS", "e0"), Entry("I2", "FAIL", "e1")>>,
    <<Entry("I2", "FAIL", "e1"), Entry("I1", "PASS", "e0")>>,
    <<Entry("I1", "PASS", "e0"), Entry("I2", "FAIL", "e2")>>,
    <<Entry("I2", "FAIL", "e1")>>,
    <<Entry("I2", "PASS", "e0"), Entry("I1", "PASS", "e0"), Entry("I2", "FAIL", "e1")>>,
    <<Entry("I2", "PASS", "e0"), Entry("I1", "PASS", "e0")>>,
    <<Entry("I2", "FAIL", "e1"), Entry("I1", Nil, Nil)>>,
    <<Entry("I9", "PASS", "e0"), Entry("I2", "FAIL", "e1")>> }

\* Two rulesets' bytes, the second also with another digest encoding, and a
\* refusal.
Canons ==
  { [refused |-> FALSE, bytes |-> <<"bytes", 1>>, digest |-> <<"hex", 1>>],
    [refused |-> FALSE, bytes |-> <<"bytes", 2>>, digest |-> <<"hex", 2>>],
    [refused |-> FALSE, bytes |-> <<"bytes", 2>>, digest |-> <<"base64", 2>>],
    [refused |-> TRUE, message |-> <<"refused", 0>>] }

WholeReceipts ==
  [predicates : Lists, decision : {"PERMIT"}, output_digest : {"out"}, proof_digest : {"p"}]
    \union
  [predicates : Lists, decision : {"HOLD"}, output_digest : {Nil}, proof_digest : {"p", "q"}]

\* Receipts that lack fields, as a non-conforming substrate may return them.
PartialReceipts == {[decision |-> "HOLD"], [predicates |-> <<>>, proof_digest |-> "p"]}

Receipts == WholeReceipts \union PartialReceipts \union {Nil}

LocalRuns ==
  {LR!Local("C06", canon, receipt, consequence) :
     canon \in Canons, receipt \in Receipts, consequence \in {Nil, "out"}}

\* Runs put together by hand, as the tests do: any subset of the stages.
Gaps ==
  {[ caseId |-> c,
     values |-> [s \in 1..6 |-> IF s \in produced THEN base.values[s] ELSE Absent] ] :
       c \in {"C06", "C22"},
       produced \in SUBSET (1..6),
       base \in {LR!Local("C06", [refused |-> FALSE, bytes |-> <<"bytes", 1>>,
                                  digest |-> <<"hex", 1>>],
                          [predicates |-> <<Entry("I2", "FAIL", "e1")>>, decision |-> "HOLD",
                           output_digest |-> Nil, proof_digest |-> "p"], Nil)}}

MCRuns == LocalRuns \union Gaps
=============================================================================
