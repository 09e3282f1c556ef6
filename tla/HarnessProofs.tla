--------------------------- MODULE HarnessProofs ---------------------------
(***************************************************************************)
(* What the runs of MCHarness show of a few cases holds for every list of  *)
(* cases and for substrates that answer anything.                          *)
(***************************************************************************)
EXTENDS Harness, ReceiptLemmas, SequenceTheorems

\* results is a list, of whatever.
IsList == \E S : results \in Seq(S)

\* Recording appends one result and moves to the next case.
LEMMA Appended ==
  ASSUME IsList, NEW result, Record(result)
  PROVE  /\ IsList'
         /\ DOMAIN results' = 1..Len(results')
         /\ DOMAIN results = 1..Len(results)
         /\ Len(results) \in Nat
         /\ Len(results') = Len(results) + 1
         /\ \A k \in 1..Len(results) : results'[k] = results[k]
         /\ results'[Len(results) + 1] = result
<1>1. PICK S : results \in Seq(S)
  BY DEF IsList
<1> DEFINE T == S \union {result}
<1>2. results \in Seq(T) /\ result \in T
  BY <1>1
<1>3. results' = Append(results, result)
  BY DEF Record
<1>4. /\ results' \in Seq(T)
      /\ Len(results') = Len(results) + 1
      /\ \A k \in 1..Len(results) : results'[k] = results[k]
      /\ results'[Len(results) + 1] = result
  BY <1>2, <1>3, AppendProperties
<1>5. DOMAIN results' = 1..Len(results') /\ DOMAIN results = 1..Len(results)
      /\ Len(results) \in Nat
  BY <1>2, <1>4
<1> QED
  BY <1>4, <1>5 DEF IsList

\* A list that is not changed stays one.
LEMMA Unchanged == ASSUME IsList, UNCHANGED results PROVE IsList'
BY DEF IsList

\* Every step of run records a result, leaves by an exception, or changes
\* neither the results nor the position.
LEMMA StepRecords ==
  ASSUME Step
  PROVE  \/ Running /\ Record(Unexecuted)
         \/ Running /\ Case.caseId = "C18" /\ Record(Bypassed)
         \/ Running /\ \E receipt, variantAgrees : Record(Scored(receipt, variantAgrees))
         \/ UNCHANGED <<adapter, results, position, runs>>
<1>1. ASSUME NEW receipt, NEW variantAgrees, Running, Score(receipt, variantAgrees)
      PROVE  \/ Running /\ \E r, v : Record(Scored(r, v))
             \/ UNCHANGED <<adapter, results, position, runs>>
  BY <1>1 DEF Score, Abort
<1>2. CASE NotExecutable
  BY <1>2 DEF NotExecutable
<1>3. CASE NoReceipt
  BY <1>3 DEF NoReceipt
<1>4. ASSUME NEW receipt, Receive(receipt)
      PROVE  \/ Running /\ \E r, v : Record(Scored(r, v))
             \/ UNCHANGED <<adapter, results, position, runs>>
  BY <1>1, <1>4 DEF Receive
<1>5. CASE NoVariant
  BY <1>1, <1>5 DEF NoVariant
<1>6. ASSUME NEW variant, ReceiveVariant(variant)
      PROVE  \/ Running /\ \E r, v : Record(Scored(r, v))
             \/ UNCHANGED <<adapter, results, position, runs>>
  BY <1>1, <1>6 DEF ReceiveVariant
<1>7. CASE Raise
  BY <1>7 DEF Raise, Abort
<1>8. CASE Return
  BY <1>8 DEF Return
<1> QED
  BY <1>2, <1>3, <1>4, <1>5, <1>6, <1>7, <1>8 DEF Step

-----------------------------------------------------------------------------
(* The order of the results.                                               *)

Placed == position \in 1..(Len(Cases) + 1)

Ordered == IsList /\ Placed /\ CasesInOrder

\* A result that names the case it was made for extends the order.
LEMMA RecordOrdered ==
  ASSUME Ordered, Running, NEW result, result.caseId = Case.caseId, Record(result)
  PROVE  Ordered'
<1>1. /\ IsList'
      /\ Len(results) \in Nat
      /\ Len(results') = Len(results) + 1
      /\ \A k \in 1..Len(results) : results'[k] = results[k]
      /\ results'[Len(results) + 1] = result
  BY Appended DEF Ordered
<1>2. /\ position \in Nat /\ 1 <= position /\ position <= Len(Cases)
      /\ position' = position + 1
      /\ Len(Cases) \in Nat
  BY CasesAssumption DEF Ordered, Placed, Running, Record
<1>3. Placed'
  BY <1>2 DEF Placed
<1>4. Len(results) >= position - 1
  BY DEF Ordered, CasesInOrder
<1>5. ASSUME NEW k \in 1..position
      PROVE  results'[Len(results) + 1 - position + k].caseId = Cases[k].caseId
  <2>1. CASE k = position
    <3>1. Len(results) + 1 - position + k = Len(results) + 1
      BY <1>1, <1>2, <2>1
    <3> QED
      BY <1>1, <2>1, <3>1 DEF Case
  <2>2. CASE k # position
    <3>1. k \in 1..(position - 1)
      BY <1>2, <2>2
    <3>2. results[Len(results) - (position - 1) + k].caseId = Cases[k].caseId
      BY <3>1 DEF Ordered, CasesInOrder
    <3>3. /\ Len(results) - (position - 1) + k = Len(results) + 1 - position + k
          /\ Len(results) + 1 - position + k \in 1..Len(results)
      BY <1>1, <1>2, <1>4, <3>1
    <3> QED
      BY <1>1, <3>2, <3>3
  <2> QED
    BY <2>1, <2>2
<1>6. CasesInOrder'
  <2>1. /\ position' - 1 = position
        /\ Len(results') - (position' - 1) = Len(results) + 1 - position
        /\ Len(results') >= position' - 1
    BY <1>1, <1>2, <1>4
  <2> QED
    BY <1>5, <2>1 DEF CasesInOrder
<1> QED
  BY <1>1, <1>3, <1>6 DEF Ordered

LEMMA OrderKept ==
  ASSUME Ordered, [Next]_vars
  PROVE  Ordered'
<1>1. ASSUME UNCHANGED <<results, position>>
      PROVE  Ordered'
  BY <1>1, Unchanged DEF Ordered, Placed, CasesInOrder
<1>2. CASE Call
  <2>1. position' = 1 /\ results' = results
    BY <1>2 DEF Call
  <2>2. IsList' /\ Placed'
    BY <2>1, Unchanged, CasesAssumption DEF Ordered, Placed
  <2>3. Len(results) \in Nat
    <3>1. PICK S : results \in Seq(S)
      BY DEF Ordered, IsList
    <3> QED
      BY <3>1
  <2>4. CasesInOrder'
    BY <2>1, <2>3 DEF CasesInOrder
  <2> QED
    BY <2>2, <2>4 DEF Ordered
<1>3. CASE Step
  <2>1. CASE Running /\ Record(Unexecuted)
    BY <2>1, RecordOrdered DEF Unexecuted
  <2>2. CASE Running /\ Record(Bypassed)
    BY <2>2, RecordOrdered DEF Bypassed, Unexecuted
  <2>3. ASSUME Running, NEW receipt, NEW variantAgrees, Record(Scored(receipt, variantAgrees))
        PROVE  Ordered'
    <3>1. Scored(receipt, variantAgrees).caseId = Case.caseId
      BY DEF Scored
    <3> QED
      BY <2>3, <3>1, RecordOrdered
  <2> QED
    BY <1>1, <1>3, <2>1, <2>2, <2>3, StepRecords
<1>4. CASE UNCHANGED vars
  BY <1>1, <1>4 DEF vars
<1> QED
  BY <1>2, <1>3, <1>4 DEF Next

\* The results of a run are those of its cases, in the order listed, whatever
\* the substrate answers and wherever earlier runs were cut short (run,
\* _run_one).
THEOREM ResultsInOrder == Spec => []CasesInOrder
<1>1. Init => Ordered
  <2> SUFFICES ASSUME Init PROVE Ordered
    OBVIOUS
  <2>1. results \in Seq({}) /\ Len(results) = 0 /\ position = 1
    BY DEF Init
  <2> QED
    BY <2>1, CasesAssumption DEF Ordered, IsList, Placed, CasesInOrder
<1>2. Ordered /\ [Next]_vars => Ordered'
  BY OrderKept
<1>3. Ordered => CasesInOrder
  BY DEF Ordered
<1> QED
  BY <1>1, <1>2, <1>3, PTL DEF Spec

-----------------------------------------------------------------------------
(* What agreement means.                                                   *)

\* An executed result whose receipt is coherent was decided for its reasons.
Explained(result) ==
  (result.executed /\ {"schema", "decision_derivation"} \intersect result.failures = {})
    => \/ result.decision = "NO_RECEIPT" /\ result.failing = {}
       \/ /\ result.decision \in Decisions
          /\ result.decision = "PERMIT" <=> result.failing = {}

FromCase(result) == \E p \in DOMAIN Cases : Cases[p].caseId = result.caseId

AllExplained ==
  IsList /\ Placed /\ \A k \in DOMAIN results : Explained(results[k]) /\ FromCase(results[k])

LEMMA ScoredExplained ==
  ASSUME NEW receipt, NEW variantAgrees
  PROVE  Explained(Scored(receipt, variantAgrees))
<1> DEFINE checks == Verify(receipt, [d \in {} |-> Nil], Case.artifact, Nil)
           result == Scored(receipt, variantAgrees)
<1>1. /\ result.decision = receipt.decision
      /\ result.failing = Failing(receipt)
      /\ result.failures = FailedChecks(checks)
  BY DEF Scored
<1> HIDE DEF result
<1> SUFFICES ASSUME {"schema", "decision_derivation"} \intersect FailedChecks(checks) = {}
             PROVE  /\ receipt.decision \in Decisions
                    /\ receipt.decision = "PERMIT" <=> Failing(receipt) = {}
  BY <1>1 DEF Explained, result
<1>2. SchemaHolds(receipt) /\ CheckDerivation(receipt) \subseteq checks
  BY SchemaPassed
<1> HIDE DEF checks
<1>3. (receipt.decision = "PERMIT") <=> (Failing(receipt) = {})
  BY <1>2, Derived
<1> QED
  BY <1>2, <1>3 DEF SchemaHolds

LEMMA RecordExplained ==
  ASSUME AllExplained, Running, NEW result, Explained(result),
         result.caseId = Case.caseId, Record(result)
  PROVE  AllExplained'
<1>1. /\ IsList'
      /\ DOMAIN results' = 1..Len(results')
      /\ DOMAIN results = 1..Len(results)
      /\ Len(results) \in Nat
      /\ Len(results') = Len(results) + 1
      /\ \A k \in 1..Len(results) : results'[k] = results[k]
      /\ results'[Len(results) + 1] = result
  BY Appended DEF AllExplained
<1>2. position \in DOMAIN Cases /\ Placed'
  BY CasesAssumption DEF AllExplained, Placed, Running, Record
<1>3. FromCase(result)
  BY <1>2 DEF FromCase, Case
<1>4. ASSUME NEW k \in DOMAIN results'
      PROVE  Explained(results'[k]) /\ FromCase(results'[k])
  <2>1. k \in DOMAIN results \/ k = Len(results) + 1
    BY <1>1
  <2> QED
    BY <1>1, <1>3, <2>1 DEF AllExplained
<1> QED
  BY <1>1, <1>2, <1>4 DEF AllExplained, Explained, FromCase

LEMMA ExplainedKept ==
  ASSUME AllExplained, [Next]_vars
  PROVE  AllExplained'
<1>1. ASSUME UNCHANGED <<results, position>>
      PROVE  AllExplained'
  BY <1>1, Unchanged DEF AllExplained, Placed, Explained, FromCase
<1>2. CASE Call
  <2>1. position' = 1 /\ results' = results
    BY <1>2 DEF Call
  <2>2. IsList' /\ Placed'
    BY <2>1, Unchanged, CasesAssumption DEF AllExplained, Placed
  <2> QED
    BY <2>1, <2>2 DEF AllExplained, Explained, FromCase
<1>3. CASE Step
  <2>1. CASE Running /\ Record(Unexecuted)
    <3>1. Explained(Unexecuted) /\ Unexecuted.caseId = Case.caseId
      BY DEF Explained, Unexecuted
    <3> QED
      BY <2>1, <3>1, RecordExplained
  <2>2. CASE Running /\ Record(Bypassed)
    <3>1. Explained(Bypassed) /\ Bypassed.caseId = Case.caseId
      BY DEF Explained, Bypassed, Unexecuted
    <3> QED
      BY <2>2, <3>1, RecordExplained
  <2>3. ASSUME Running, NEW receipt, NEW variantAgrees, Record(Scored(receipt, variantAgrees))
        PROVE  AllExplained'
    <3>1. Scored(receipt, variantAgrees).caseId = Case.caseId
      BY DEF Scored
    <3> QED
      BY <2>3, <3>1, ScoredExplained, RecordExplained
  <2> QED
    BY <1>1, <1>3, <2>1, <2>2, <2>3, StepRecords
<1>4. CASE UNCHANGED vars
  BY <1>1, <1>4 DEF vars
<1> QED
  BY <1>2, <1>3, <1>4 DEF Next

\* The primary outcome is never reached by the wrong decision: of coherent
\* receipts, a held negative control never agrees and a violation that agrees
\* was held (predicate_agrees, summary, _check_decision_derivation).
THEOREM AgreementAdmits == Spec => []AgreementIsAdmission
<1>1. Init => AllExplained
  <2> SUFFICES ASSUME Init PROVE AllExplained
    OBVIOUS
  <2>1. results \in Seq({}) /\ DOMAIN results = {} /\ position = 1
    BY DEF Init
  <2> QED
    BY <2>1, CasesAssumption DEF AllExplained, IsList, Placed
<1>2. AllExplained /\ [Next]_vars => AllExplained'
  BY ExplainedKept
<1>3. AllExplained => AgreementIsAdmission
  <2> SUFFICES ASSUME AllExplained, NEW k \in Executed, Coherent(k)
               PROVE  /\ k \in FalsePositives => ~PredicateAgrees(k)
                      /\ (k \in Violations /\ PredicateAgrees(k)) => k \in TruePositives
    BY DEF AgreementIsAdmission
  <2> DEFINE p == CHOOSE p \in DOMAIN Cases : Cases[p].caseId = results[k].caseId
  <2>1. k \in DOMAIN results /\ results[k].executed
    BY DEF Executed
  <2>2. p \in DOMAIN Cases /\ Cases[p].caseId = results[k].caseId
    BY <2>1 DEF AllExplained, FromCase
  <2>3. Predicted(k) = Cases[p]
    BY DEF Predicted
  <2> HIDE DEF p
  <2>4. k \in Controls <=> Predicted(k).predicates = {}
    BY <2>2, <2>3, ControlsAssumption DEF Controls
  <2>5. \/ results[k].decision = "NO_RECEIPT" /\ results[k].failing = {}
        \/ /\ results[k].decision \in Decisions
           /\ results[k].decision = "PERMIT" <=> results[k].failing = {}
    BY <2>1 DEF AllExplained, Explained, Coherent
  <2>6. ASSUME k \in FalsePositives, PredicateAgrees(k) PROVE FALSE
    <3>1. results[k].failing = {}
      BY <2>4, <2>6 DEF FalsePositives, PredicateAgrees
    <3> QED
      BY <2>5, <2>6, <3>1 DEF FalsePositives
  <2>7. ASSUME k \in Violations, PredicateAgrees(k) PROVE k \in TruePositives
    <3>1. results[k].failing # {}
      BY <2>4, <2>7 DEF Violations, PredicateAgrees
    <3> QED
      BY <2>5, <2>7, <3>1 DEF TruePositives, Decisions
  <2> QED
    BY <2>6, <2>7
<1> QED
  BY <1>1, <1>2, <1>3, PTL DEF Spec

-----------------------------------------------------------------------------
(* Doubles.                                                                *)

\* The adapter is not the dry run, and a double only when the case is one that
\* may be run against a double.
MayFind(case) == adapter # "null" /\ (adapter \notin Live => ~case.requiresSubstrate)

MayStand(result) ==
  result.executed =>
    \E p \in DOMAIN Cases : Cases[p].caseId = result.caseId /\ MayFind(Cases[p])

\* A receipt is kept for the second submission only of a case that may be run.
Justified ==
  /\ adapter \in Adapters \ Live
  /\ IsList /\ Placed
  /\ pending # Nil => Running /\ MayFind(Case)
  /\ \A k \in DOMAIN results : MayStand(results[k])

LEMMA RecordStands ==
  ASSUME Justified, Running, NEW result, result.caseId = Case.caseId,
         result.executed => MayFind(Case), Record(result)
  PROVE  Justified'
<1>1. /\ IsList'
      /\ DOMAIN results' = 1..Len(results')
      /\ DOMAIN results = 1..Len(results)
      /\ Len(results') = Len(results) + 1
      /\ Len(results) \in Nat
      /\ \A k \in 1..Len(results) : results'[k] = results[k]
      /\ results'[Len(results) + 1] = result
  BY Appended DEF Justified
<1>2. /\ position \in DOMAIN Cases
      /\ Placed'
      /\ pending' = Nil /\ adapter' = adapter
  BY CasesAssumption DEF Justified, Placed, Running, Record
<1>3. MayStand(result)
  BY <1>2 DEF MayStand, Case
<1>4. ASSUME NEW k \in DOMAIN results'
      PROVE  MayStand(results'[k])
  <2>1. k \in DOMAIN results \/ k = Len(results) + 1
    BY <1>1
  <2> QED
    BY <1>1, <1>3, <2>1 DEF Justified
<1> QED
  BY <1>1, <1>2, <1>4 DEF Justified, MayStand, MayFind

\* The bypass and the dry run aside, a double is asked only about the others.
LEMMA ExecutableStands ==
  ASSUME Justified, Running, Executable
  PROVE  /\ Case.caseId # "C18"
         /\ adapter # "null" => MayFind(Case)
         /\ adapter = "null" => Answers(adapter, Submission(Case)) = {Nil}
<1>1. position \in DOMAIN Cases
  BY CasesAssumption DEF Justified, Placed, Running
<1>2. adapter \notin Live /\ ~Case.requiresSubstrate
  BY DEF Justified, Executable
<1>3. Case.caseId # "C18"
  BY <1>1, <1>2, IdentifiersAssumption DEF Case
<1>4. adapter # "null" => MayFind(Case)
  BY <1>2 DEF MayFind
<1>5. adapter = "null" => Answers(adapter, Submission(Case)) = {Nil}
  BY <1>1, DryRunAssumption DEF Case, Justified
<1> QED
  BY <1>3, <1>4, <1>5

LEMMA StandsKept ==
  ASSUME Justified, [Next]_vars
  PROVE  Justified'
<1>1. ASSUME UNCHANGED <<adapter, results, position>>, pending' = Nil
      PROVE  Justified'
  BY <1>1, Unchanged DEF Justified, Placed, MayStand, MayFind
<1>2. ASSUME NEW receipt, NEW variantAgrees, Running, MayFind(Case),
             Score(receipt, variantAgrees)
      PROVE  Justified'
  <2>1. CASE Abort
    BY <1>1, <2>1 DEF Abort
  <2>2. CASE Record(Scored(receipt, variantAgrees))
    <3>1. Scored(receipt, variantAgrees).caseId = Case.caseId
      BY DEF Scored
    <3> QED
      BY <1>2, <2>2, <3>1, RecordStands
  <2> QED
    BY <1>2, <2>1, <2>2 DEF Score
<1>3. CASE Call
  <2>1. pending = Nil
    BY <1>3 DEF Call, Justified, Running
  <2>2. IsList' /\ Placed'
    BY <1>3, Unchanged, CasesAssumption DEF Call, Justified, Placed
  <2> QED
    BY <1>3, <2>1, <2>2 DEF Call, Justified, MayStand, MayFind
<1>4. CASE NotExecutable
  <2>1. ~Unexecuted.executed /\ Unexecuted.caseId = Case.caseId
    BY DEF Unexecuted
  <2> QED
    BY <1>4, <2>1, RecordStands DEF NotExecutable
<1>5. CASE NoReceipt
  <2>1. Case.caseId # "C18" /\ Running
    BY <1>5, ExecutableStands DEF NoReceipt
  <2>2. Record(Unexecuted)
    BY <1>5, <2>1 DEF NoReceipt
  <2>3. ~Unexecuted.executed /\ Unexecuted.caseId = Case.caseId
    BY DEF Unexecuted
  <2> QED
    BY <2>1, <2>2, <2>3, RecordStands
<1>6. ASSUME NEW receipt \in Answers(adapter, Submission(Case)), Receive(receipt)
      PROVE  Justified'
  <2>1. Running /\ Executable /\ receipt # Nil
    BY <1>6 DEF Receive
  <2>2. MayFind(Case)
    BY <1>6, <2>1, ExecutableStands
  <2>3. CASE Case.variant = Nil
    BY <1>2, <1>6, <2>1, <2>2, <2>3 DEF Receive
  <2>4. CASE Case.variant # Nil
    <3>1. UNCHANGED <<adapter, results, status, position>>
      BY <1>6, <2>4 DEF Receive
    <3>2. Running' /\ MayFind(Case)'
      BY <2>1, <2>2, <3>1 DEF Running, MayFind, Case
    <3> QED
      BY <3>1, <3>2, Unchanged DEF Justified, Placed, MayStand, MayFind
  <2> QED
    BY <2>3, <2>4
<1>7. CASE NoVariant
  BY <1>2, <1>7 DEF NoVariant, Justified
<1>8. ASSUME NEW variant, ReceiveVariant(variant)
      PROVE  Justified'
  BY <1>2, <1>8 DEF ReceiveVariant, Justified
<1>9. CASE Raise
  BY <1>1, <1>9 DEF Raise, Abort
<1>10. CASE Return
  <2>1. pending' = Nil
    <3>1. ~Running
      BY <1>10, CasesAssumption DEF Return, Running
    <3> QED
      BY <1>10, <3>1 DEF Return, Justified
  <2> QED
    BY <1>1, <1>10, <2>1 DEF Return
<1>11. CASE UNCHANGED vars
  BY <1>11, Unchanged DEF vars, Justified, Placed, Running, MayStand, MayFind, Case
<1> QED
  BY <1>3, <1>4, <1>5, <1>6, <1>7, <1>8, <1>9, <1>10, <1>11 DEF Next, Step

\* What is run against a double can never be mistaken for a finding, whatever
\* the double answers and wherever runs are cut short: no case that needs a live
\* substrate is executed, and in the dry run none is (NullAdapter, _run_one).
THEOREM NothingFoundByDoubles == Spec => []DoublesFindNothing
<1> DEFINE Inv == /\ adapter \in Adapters
                  /\ adapter \notin Live => Justified
<1>1. Init => Inv
  <2> SUFFICES ASSUME Init PROVE Inv
    OBVIOUS
  <2>1. results \in Seq({}) /\ DOMAIN results = {} /\ position = 1
    BY DEF Init
  <2> QED
    BY <2>1, CasesAssumption DEF Init, Justified, IsList, Placed
<1>2. Inv /\ [Next]_vars => Inv'
  <2> SUFFICES ASSUME Inv, [Next]_vars PROVE Inv'
    OBVIOUS
  <2>1. adapter' = adapter
    BY DEF Next, Step, vars, Call, NotExecutable, NoReceipt, Receive, NoVariant,
           ReceiveVariant, Raise, Return, Score, Record, Abort
  <2> QED
    BY <2>1, StandsKept
<1>3. Inv => DoublesFindNothing
  <2> SUFFICES ASSUME Justified, NEW k \in Executed
               PROVE  ~Predicted(k).requiresSubstrate /\ adapter # "null"
    BY DEF DoublesFindNothing
  <2>1. k \in DOMAIN results /\ results[k].executed
    BY DEF Executed
  <2>2. PICK p \in DOMAIN Cases : Cases[p].caseId = results[k].caseId /\ MayFind(Cases[p])
    BY <2>1 DEF Justified, MayStand
  <2>3. Predicted(k) = Cases[p]
    BY <2>2, IdentifiersAssumption DEF Predicted
  <2> QED
    BY <2>2, <2>3 DEF Justified, MayFind
<1> QED
  BY <1>1, <1>2, <1>3, PTL DEF Spec
=============================================================================
