----------------------------- MODULE Divergence -----------------------------
(***************************************************************************)
(* The first-divergence locator of harness/divergence.py: two runs of one  *)
(* case, compared stage by stage in causal order, halting at the first     *)
(* inequality.  One step of the specification is one iteration of the loop *)
(* of compare_runs.                                                        *)
(***************************************************************************)
EXTENDS StageValues

CONSTANT Runs  \* the runs that may be compared

ASSUME RunsAssumption == \A r \in Runs : DOMAIN r.values = Stages
\* What a run has of the predicates is None or a list.
ASSUME ListsAssumption ==
  \A r \in Runs : \A s \in Stages \cap {PredicateStage} :
    r.values[s] \notin {Absent, Nil} => DOMAIN r.values[s] \subseteq Nat

-----------------------------------------------------------------------------
VARIABLES left, right,   \* the two runs
          comparisons,   \* the verdicts appended so far, in stage order
          halted,        \* a stage has diverged
          status         \* "comparing", "refused" (ValueError) or "reported"

vars == <<left, right, comparisons, halted, status>>

\* The stage of the loop's next iteration.
Stage == Len(comparisons) + 1

Init ==
  /\ left \in Runs
  /\ right \in Runs
  /\ comparisons = <<>>
  /\ halted = FALSE
  /\ status = "comparing"

\* Runs of two different cases raise ValueError before the walk starts.
Refuse ==
  /\ status = "comparing"
  /\ left.caseId # right.caseId
  /\ status' = "refused"
  /\ UNCHANGED <<left, right, comparisons, halted>>

Walking ==
  /\ status = "comparing"
  /\ left.caseId = right.caseId
  /\ Stage <= NumStages

Available == Has(left, Stage) /\ Has(right, Stage)

Emit(verdict) ==
  /\ comparisons' = Append(comparisons, verdict)
  /\ UNCHANGED <<left, right, status>>

\* Mutant: without its `continue`, a stage that is not reached is compared too.
UnreachedFallsThrough ==
  /\ Walking
  /\ halted
  /\ comparisons' = comparisons \o <<"NOT_REACHED", "EQUAL">>
  /\ UNCHANGED <<left, right, status, halted>>

SkipUnreached ==
  /\ Walking
  /\ halted
  /\ Emit("NOT_REACHED")
  /\ UNCHANGED halted

\* Mutant: a stage that was not produced ends the walk.
UnavailableHalts ==
  /\ Walking
  /\ ~halted
  /\ ~Available
  /\ Emit("UNAVAILABLE")
  /\ halted' = TRUE

SkipUnavailable ==
  /\ Walking
  /\ ~halted
  /\ ~Available
  /\ Emit("UNAVAILABLE")
  /\ UNCHANGED halted

Agree ==
  /\ Walking
  /\ ~halted
  /\ Available
  /\ Equal(Stage, left.values[Stage], right.values[Stage])
  /\ Emit("EQUAL")
  /\ UNCHANGED halted

Diverge ==
  /\ Walking
  /\ ~halted
  /\ Available
  /\ ~Equal(Stage, left.values[Stage], right.values[Stage])
  /\ Emit("DIVERGED")
  /\ halted' = TRUE

\* Mutant: the report is returned only if nothing diverged.
ReturnIfConverged ==
  /\ status = "comparing"
  /\ left.caseId = right.caseId
  /\ Stage = NumStages + 1
  /\ ~halted
  /\ status' = "reported"
  /\ UNCHANGED <<left, right, comparisons, halted>>

\* The loop is over: the DivergenceReport is returned.
Return ==
  /\ status = "comparing"
  /\ left.caseId = right.caseId
  /\ Stage = NumStages + 1
  /\ status' = "reported"
  /\ UNCHANGED <<left, right, comparisons, halted>>

Next ==
  \/ Refuse
  \/ SkipUnreached
  \/ SkipUnavailable
  \/ Agree
  \/ Diverge
  \/ Return

Spec == Init /\ [][Next]_vars

\* compare_runs is a loop in one thread: nothing can stop it half way.
FairSpec == Spec /\ WF_vars(Next)

-----------------------------------------------------------------------------
(* Properties.                                                             *)

TypeOK ==
  /\ left \in Runs
  /\ right \in Runs
  /\ comparisons \in Seq(Verdicts)
  /\ Len(comparisons) <= NumStages
  /\ halted \in BOOLEAN
  /\ status \in {"comparing", "refused", "reported"}

\* HALT-ON-FIRST (divergence.py, point 1): one defect is one finding.  At most
\* one stage is ever DIVERGED; every stage after it, and no other, is
\* NOT_REACHED, so no downstream stage is reported as passing or failing.
HaltOnFirst ==
  \A s \in DOMAIN comparisons :
    /\ comparisons[s] = "DIVERGED" =>
         \A t \in DOMAIN comparisons : t > s => comparisons[t] = "NOT_REACHED"
    /\ comparisons[s] = "NOT_REACHED" =>
         \E t \in DOMAIN comparisons : t < s /\ comparisons[t] = "DIVERGED"

\* A list that says something of each predicate it names, and says it once.
SaysOnce(list) ==
  /\ list # Nil
  /\ \A k \in DOMAIN list :
       /\ list[k].id \in Invariants
       /\ <<list[k].result, list[k].evidence>> # <<Nil, Nil>>
  /\ \A j, k \in DOMAIN list : list[j].id = list[k].id => j = k
Statements(list) == {<<list[k].id, list[k].result, list[k].evidence>> : k \in DOMAIN list}

\* Agreement means agreement about every predicate, its result and the evidence
\* it cites ("two implementations that both reach FAIL on I2 by citing
\* different inputs have diverged"), whatever the order of the lists; and a
\* divergence is never an artefact of that order.
EvidenceIsCompared ==
  (PredicateStage \in DOMAIN comparisons /\ comparisons[PredicateStage] \in {"EQUAL", "DIVERGED"})
    => LET lhs == left.values[PredicateStage]
           rhs == right.values[PredicateStage]
       IN  (SaysOnce(lhs) /\ SaysOnce(rhs))
             => (comparisons[PredicateStage] = "EQUAL" <=> Statements(lhs) = Statements(rhs))

\* The verifier and the scoring read the failing predicates through a map of
\* their own (receipt.py _predicate_map). Receipts the locator finds equal at
\* their predicates have the same failing ones there, however often the lists
\* repeat an identifier: no difference of the score passes for agreement.
Reading == INSTANCE PredicateMap

FailuresAgree ==
  (PredicateStage \in DOMAIN comparisons /\ comparisons[PredicateStage] = "EQUAL")
    => LET lhs == left.values[PredicateStage]
           rhs == right.values[PredicateStage]
       IN  Nil \notin {lhs, rhs} =>
             Reading!Failing([predicates |-> lhs]) = Reading!Failing([predicates |-> rhs])

\* The runs as the abstract specification sees them.
Missing == {s \in Stages : ~Has(left, s) \/ ~Has(right, s)}
Unequal ==
  {s \in Stages \ Missing : ~Equal(s, left.values[s], right.values[s])}

Locator == INSTANCE FirstDivergence WITH
  missing    <- Missing,
  unequal    <- Unequal,
  comparable <- (left.caseId = right.caseId),
  report     <- IF status = "comparing" THEN <<"no report">>
                ELSE IF status = "refused" THEN <<"refused">>
                ELSE comparisons

\* The loop implements the one-step locator: what it returns is exactly the
\* least stage both runs produced and disagree on, EQUAL or UNAVAILABLE before
\* it and NOT_REACHED after it, for every pair of runs.
LocatesTheBoundary == Locator!Spec

\* The walk always ends, in a report or a refusal (compare_runs returns).
Terminates == <>(status # "comparing")
=============================================================================
