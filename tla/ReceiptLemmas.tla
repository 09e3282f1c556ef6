---------------------------- MODULE ReceiptLemmas ----------------------------
(***************************************************************************)
(* What the presence or the absence of a failed check says about a receipt.*)
(***************************************************************************)
EXTENDS ReceiptChecks, TLAPS

\* A test among the checks was passed if no check of its name failed.
LEMMA TestHeld ==
  ASSUME NEW checks, NEW name, NEW P \in BOOLEAN,
         Test(name, P) \subseteq checks, name \notin FailedChecks(checks)
  PROVE  P
<1> SUFFICES ASSUME ~P PROVE FALSE
  OBVIOUS
<1>1. [name |-> name, status |-> "FAIL"] \in checks
  BY DEF Test, Check
<1> QED
  BY <1>1 DEF FailedChecks

\* A check that was added as a failure is among the failed ones.
LEMMA CheckFailed ==
  ASSUME NEW checks, NEW name, Check(name, "FAIL") \subseteq checks
  PROVE  name \in FailedChecks(checks)
<1>1. [name |-> name, status |-> "FAIL"] \in checks
  BY DEF Check
<1> QED
  BY <1>1 DEF FailedChecks

\* If the schema check did not fail, the schema holds and every other check
\* was made.
LEMMA SchemaPassed ==
  ASSUME NEW receipt, NEW store, NEW input, NEW output,
         "schema" \notin FailedChecks(Verify(receipt, store, input, output))
  PROVE  LET checks == Verify(receipt, store, input, output) IN
         /\ SchemaHolds(receipt)
         /\ CheckInput(receipt, input) \subseteq checks
         /\ CheckOutput(receipt, output) \subseteq checks
         /\ CheckPredicates(receipt) \subseteq checks
         /\ CheckLineage(receipt, store) \subseteq checks
         /\ CheckTemporal(receipt, store) \subseteq checks
         /\ CheckConsequence(receipt, output) \subseteq checks
         /\ CheckDerivation(receipt) \subseteq checks
         /\ CheckSignature(receipt) \subseteq checks
<1> DEFINE checks == Verify(receipt, store, input, output)
<1>1. SchemaHolds(receipt)
  <2> SUFFICES ASSUME ~SchemaHolds(receipt) PROVE FALSE
    OBVIOUS
  <2>1. Check("schema", "FAIL") \subseteq checks
    BY DEF Verify
  <2> QED
    BY <2>1, CheckFailed
<1> QED
  BY <1>1 DEF Verify

\* Of a receipt whose decision is in the enum, the check of the derivation lets
\* pass exactly the permits without and the others with a failing predicate.
LEMMA Derived ==
  ASSUME NEW receipt, NEW checks, SchemaHolds(receipt),
         CheckDerivation(receipt) \subseteq checks,
         "decision_derivation" \notin FailedChecks(checks)
  PROVE  (receipt.decision = "PERMIT") <=> (Failing(receipt) = {})
<1>1. /\ receipt.decision = "PERMIT" => Failing(receipt) = {}
      /\ receipt.decision \in {"HOLD", "TERMINATE"} => Failing(receipt) # {}
  BY TestHeld DEF CheckDerivation
<1> QED
  BY <1>1 DEF SchemaHolds, Decisions
=============================================================================
