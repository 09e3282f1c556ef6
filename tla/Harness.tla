------------------------------ MODULE Harness ------------------------------
(***************************************************************************)
(* The phase-1 harness of harness/runner.py: it submits the cases one by   *)
(* one to a substrate adapter, has the receipts verified, and scores them. *)
(* What the substrate answers is its own affair: an adapter is the set of  *)
(* answers it may give to each submission, a receipt, Nil (no receipt) or  *)
(* an exception.                                                           *)
(***************************************************************************)
EXTENDS ReceiptChecks, FiniteSets

CONSTANTS Cases,           \* the sequence of fixtures
          NegativeControls,
          Lineage,         \* LINEAGE_PREDICATES
          Adapters,        \* names of adapters
          Live,            \* those whose attribute live is True
          Answers(_, _),   \* what an adapter may answer to a submission
          Exception,       \* the answer that is an exception
          MaxRuns          \* bound: calls of Harness.run

ASSUME CasesAssumption == Len(Cases) \in Nat /\ DOMAIN Cases = 1..Len(Cases)
\* "The label follows the prediction": a negative control is a case of which
\* no predicate is predicted to fail.
ASSUME ControlsAssumption ==
  \A k \in DOMAIN Cases :
    Cases[k].caseId \in NegativeControls <=> Cases[k].predicates = {}
ASSUME MaxRunsAssumption == MaxRuns \in Nat
\* No two cases share an identifier, and the bypass, C18, is a case about the
\* substrate's own behaviour.
ASSUME IdentifiersAssumption ==
  \A j, k \in DOMAIN Cases :
    /\ Cases[j].caseId = Cases[k].caseId => j = k
    /\ Cases[k].caseId = "C18" => Cases[k].requiresSubstrate

VARIABLES adapter,   \* self.adapter
          results,   \* self.results
          status,    \* "idle", "running", "aborted" by an exception, "returned"
          position,  \* of the case being run, in Cases
          pending,   \* the receipt whose variant has still to be submitted, or Nil
          runs       \* how often run was called

vars == <<adapter, results, status, position, pending, runs>>

Case == Cases[position]
Running == status = "running" /\ position <= Len(Cases)

\* Fixture.bytes_: a case without an artifact has no bytes to submit.
Bytes(artifact) == IF artifact = Nil THEN Nil ELSE <<artifact, "compact">>

\* The submission of a case, and the second one of C05.
Submission(case) == [ caseId   |-> case.caseId,
                      again    |-> FALSE,
                      bytes    |-> Bytes(case.artifact),
                      declared |-> case.declared ]
VariantSubmission(case) == [ caseId   |-> case.caseId,
                             again    |-> TRUE,
                             bytes    |-> case.variant,
                             declared |-> Nil ]

\* NullAdapter, the offline dry run, never answers with a receipt.
ASSUME DryRunAssumption ==
  "null" \in Adapters =>
    \A k \in DOMAIN Cases : Answers("null", Submission(Cases[k])) = {Nil}

-----------------------------------------------------------------------------
(* CaseResult.                                                             *)

Unexecuted ==
  [ caseId       |-> Case.caseId,
    executed     |-> FALSE,
    decision     |-> Nil,
    failing      |-> {},
    variant      |-> Nil,     \* variant_agrees
    payloads     |-> {},      \* of the failing lineage predicates
    failures     |-> {},
    unverifiable |-> {} ]

Bypassed == [Unexecuted EXCEPT !.executed = TRUE, !.decision = "NO_RECEIPT"]

Scored(receipt, variantAgrees) ==
  LET checks == Verify(receipt, [d \in {} |-> Nil], Case.artifact, Nil)
      fired  == Lineage \intersect Failing(receipt)
  IN  [ caseId       |-> Case.caseId,
        executed     |-> TRUE,
        decision     |-> receipt.decision,
        failing      |-> Failing(receipt),
        variant      |-> variantAgrees,
        payloads     |-> {Predicate(receipt, i).payload : i \in fired},
        failures     |-> FailedChecks(checks),
        unverifiable |-> UnverifiableChecks(checks) ]

\* C05: the decision and the state digest must both match.
VariantAgrees(receipt, variant) ==
  /\ variant.decision = receipt.decision
  /\ variant.stateDigest = receipt.stateDigest

-----------------------------------------------------------------------------
Init ==
  /\ adapter \in Adapters
  /\ results = <<>>
  /\ status = "idle"
  /\ position = 1
  /\ pending = Nil
  /\ runs = 0

\* Harness.run is called, the first time or again.
Call ==
  /\ status # "running"
  /\ runs < MaxRuns
  /\ runs' = runs + 1
  /\ status' = "running"
  /\ position' = 1
  /\ UNCHANGED <<adapter, results, pending>>

Record(result) ==
  /\ results' = Append(results, result)
  /\ position' = position + 1
  /\ pending' = Nil
  /\ UNCHANGED <<adapter, status, runs>>

\* An exception leaves _run_one and run; what was not appended is lost.
Abort ==
  /\ status' = "aborted"
  /\ pending' = Nil
  /\ UNCHANGED <<adapter, results, position, runs>>

\* A case about the substrate's own behaviour is not run against a double.
NotExecutable ==
  /\ Running
  /\ Case.requiresSubstrate
  /\ adapter \notin Live
  /\ Record(Unexecuted)

\* Mutant: the guard is keyed on the case it was written for.
NotTheBypass == Case.caseId # "C18" \/ adapter \in Live

Executable == ~Case.requiresSubstrate \/ adapter \in Live

\* The predicates are read first, whatever else the receipt lacks; then verify
\* is given the fixture's artifact.  Both may raise.
Score(receipt, variantAgrees) ==
  IF receipt.predicates = Nil \/ Raises(receipt, Case.artifact, Nil)
  THEN Abort
  ELSE Record(Scored(receipt, variantAgrees))

\* Mutant: a case without a receipt is skipped.
SkipSilently ==
  /\ Running
  /\ pending = Nil
  /\ Executable
  /\ Nil \in Answers(adapter, Submission(Case))
  /\ position' = position + 1
  /\ UNCHANGED <<adapter, results, status, pending, runs>>

NoReceipt ==
  /\ Running
  /\ pending = Nil
  /\ Executable
  /\ Nil \in Answers(adapter, Submission(Case))
  /\ Record(IF Case.caseId = "C18" THEN Bypassed ELSE Unexecuted)

Receive(receipt) ==
  /\ Running
  /\ pending = Nil
  /\ Executable
  /\ receipt \notin {Nil, Exception}
  /\ IF Case.variant = Nil
     THEN Score(receipt, Nil)
     ELSE /\ pending' = receipt
          /\ UNCHANGED <<adapter, results, status, position, runs>>

\* The second submission of C05.  No receipt for it leaves variant_agrees None.
NoVariant ==
  /\ Running
  /\ pending # Nil
  /\ Nil \in Answers(adapter, VariantSubmission(Case))
  /\ Score(pending, Nil)

ReceiveVariant(variant) ==
  /\ Running
  /\ pending # Nil
  /\ variant \notin {Nil, Exception}
  /\ Score(pending, VariantAgrees(pending, variant))

\* submit raises, for the case or for its variant.
Raise ==
  /\ Running
  /\ Executable
  /\ Exception \in Answers(adapter, IF pending = Nil THEN Submission(Case) ELSE VariantSubmission(Case))
  /\ Abort

\* Mutant: the loop may end one case early, and then only there.
ReturnEarly ==
  /\ status = "running"
  /\ position = Len(Cases)
  /\ status' = "returned"
  /\ UNCHANGED <<adapter, results, position, pending, runs>>

Return ==
  /\ status = "running"
  /\ position = Len(Cases) + 1
  /\ status' = "returned"
  /\ UNCHANGED <<adapter, results, position, pending, runs>>

Step ==
  \/ NotExecutable
  \/ NoReceipt
  \/ Running /\ \E receipt \in Answers(adapter, Submission(Case)) : Receive(receipt)
  \/ NoVariant
  \/ Running /\ pending # Nil
       /\ \E variant \in Answers(adapter, VariantSubmission(Case)) : ReceiveVariant(variant)
  \/ Raise
  \/ Return

Next == Call \/ Step

Spec == Init /\ [][Next]_vars

\* run is a loop in one thread, and every call of submit returns or raises.
FairSpec == Spec /\ WF_vars(Step)

-----------------------------------------------------------------------------
(* Scoring: what CaseResult and summary make of the results.               *)

Predicted(k) == LET p == CHOOSE p \in DOMAIN Cases : Cases[p].caseId = results[k].caseId
                IN  Cases[p]

DecisionAgrees(k) ==
  /\ results[k].executed
  /\ results[k].decision # Nil
  /\ results[k].decision = Predicted(k).decision

\* Mutants: exactly the predicted predicates have to fail; a case for which
\* none is predicted agrees whatever fails.
ExactlyAgrees(k) ==
  /\ results[k].executed
  /\ results[k].variant # FALSE
  /\ results[k].failing = Predicted(k).predicates
AgreesIfUnpredicted(k) ==
  /\ results[k].executed
  /\ results[k].variant # FALSE
  /\ \/ Predicted(k).predicates = {}
     \/ results[k].failing \intersect Predicted(k).predicates # {}

\* Any of the predicted predicates may be blamed; if none is, none may fail.
PredicateAgrees(k) ==
  /\ results[k].executed
  /\ results[k].variant # FALSE
  /\ IF Predicted(k).predicates = {}
     THEN results[k].failing = {}
     ELSE results[k].failing \intersect Predicted(k).predicates # {}

Executed == {k \in DOMAIN results : results[k].executed}
Controls == {k \in Executed : results[k].caseId \in NegativeControls}
Violations == Executed \ Controls
FalsePositives == {k \in Controls : results[k].decision \in {"HOLD", "TERMINATE"}}
TruePositives ==
  {k \in Violations : results[k].decision \in {"HOLD", "TERMINATE", "NO_RECEIPT"}}

\* Mutant: every failing predicate is a lineage predicate.
AnyFailing(k) == results[k].failing

Fired(k) == Lineage \intersect results[k].failing

\* The rows of aliasing_matrix: a later result of a case replaces an earlier.
MatrixRow(caseId) ==
  LET rows == {k \in Executed : results[k].caseId = caseId /\ Fired(k) # {}}
      last == CHOOSE k \in rows : \A j \in rows : j <= k
  IN  [fired |-> Fired(last), distinct |-> Cardinality(results[last].payloads)]
MatrixCases == {results[k].caseId : k \in {j \in Executed : Fired(j) # {}}}

Summary ==
  [ executed   |-> Cardinality(Executed),
    predicate  |-> Cardinality({k \in Executed : PredicateAgrees(k)}),
    decision   |-> Cardinality({k \in Executed : DecisionAgrees(k)}),
    positives  |-> <<Cardinality(TruePositives), Cardinality(Violations)>>,
    falsely    |-> <<Cardinality(FalsePositives), Cardinality(Controls)>>,
    rows       |-> Cardinality(MatrixCases) ]

-----------------------------------------------------------------------------
(* Properties.                                                             *)

\* The last results are those of the cases of the last run, in the order
\* listed and one per case, also when earlier runs were cut short: no case is
\* dropped, repeated or reported under another's name.
CasesInOrder ==
  /\ Len(results) >= position - 1
  /\ \A k \in 1..(position - 1) :
       results[Len(results) - (position - 1) + k].caseId = Cases[k].caseId

\* "results ... can never be mistaken for findings": whatever is run against a
\* double, no case that needs a live substrate is executed, so none of them
\* enters a rate; and nothing at all is executed in a dry run.
DoublesFindNothing ==
  adapter \notin Live =>
    \A k \in Executed : /\ ~Predicted(k).requiresSubstrate
                        /\ adapter # "null"

\* The receipt of result k explains its own decision.
Coherent(k) == {"schema", "decision_derivation"} \intersect results[k].failures = {}

\* Predicate-level agreement, the primary outcome, is never reached by the
\* wrong decision as long as the receipt is coherent: a negative control that
\* was held does not agree, and a violation that agrees was detected.
AgreementIsAdmission ==
  \A k \in Executed : Coherent(k) =>
    /\ k \in FalsePositives => ~PredicateAgrees(k)
    /\ (k \in Violations /\ PredicateAgrees(k)) => k \in TruePositives

\* A run ends, in a return or in an exception of the substrate.
RunsEnd == (status = "running") ~> (status # "running")

=============================================================================
