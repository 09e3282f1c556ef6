---------------------------- MODULE ReceiptChecks ----------------------------
(***************************************************************************)
(* The checks of verifier/receipt.py: what ReceiptVerifier.verify says of  *)
(* one receipt, given a receipt store and the artifacts handed to it.      *)
(*                                                                         *)
(* A receipt is a record                                                   *)
(*   complete      every field of REQUIRED_RECEIPT_FIELDS is present       *)
(*   decision      the decision it declares                                *)
(*   declared      its declared_state, [session, start, backend], or Nil   *)
(*   parent        parent_state_digest, or Nil                             *)
(*   stateDigest   state_digest                                            *)
(*   inputDigest   input_digest, or Nil for what has no slice              *)
(*   outputDigest  output_digest, or Nil                                   *)
(*   predicates    a sequence of [id, result, evidence, inputs] entries,   *)
(*                 the last two saying whether those fields are present,   *)
(*                 or Nil                                                  *)
(*   proved        proof_digest is there and not empty                     *)
(* A session index may be missing (Nil); a start that is not in the pinned *)
(* timestamp format is Nil, any other start is an instant.  Otherwise the  *)
(* fields have the types the receipt's schema gives them.                  *)
(***************************************************************************)
EXTENDS PredicateMap, Integers

CONSTANTS Temporal,       \* those a temporal violation may be blamed on, I1 and I2
          MinSeparation,  \* MIN_SEPARATION_SECONDS
          Nil,            \* Python's None
          Uncanonical,    \* a value with no canonical form
          Unencodable     \* one of which digest raises another exception

Decisions == {"PERMIT", "HOLD", "TERMINATE"}

ASSUME MinSeparationAssumption == MinSeparation \in Nat \ {0}
ASSUME TemporalAssumption == Temporal \subseteq Invariants

-----------------------------------------------------------------------------
(* Digests.  Two canonical values have the same digest exactly when they   *)
(* are equal; a value the canonicalizer refuses has none.  Only a refusal  *)
(* is caught: what else the canonicalizer raises, of a surrogate that is   *)
(* not paired or an integer beyond every float, leaves verify (Raises).    *)

Digest(value) == <<"digest of", value>>

Recompute(value) == IF value = Uncanonical THEN Nil ELSE Digest(value)

\* dict.get on the receipt store.
Resolve(store, digest) ==
  IF digest \in DOMAIN store THEN store[digest] ELSE Nil

\* (receipt.get("declared_state") or {}).get(...)
Session(receipt) ==
  IF receipt.declared = Nil THEN Nil ELSE receipt.declared.session
Start(receipt) ==
  IF receipt.declared = Nil THEN Nil ELSE receipt.declared.start

-----------------------------------------------------------------------------
(* The checks.  Each is the set of [name, status] records it adds.         *)

Check(name, status) == {[name |-> name, status |-> status]}

Test(name, passes) == Check(name, IF passes THEN "PASS" ELSE "FAIL")

\* Mutant: the decision is not looked at.
FieldsPresent(receipt) == receipt.complete

SchemaHolds(receipt) == receipt.complete /\ receipt.decision \in Decisions

\* Mutant: any artifact with a canonical form will do.
InputCanonical(receipt, input) ==
  IF input = Nil
  THEN Check("input_digest", "UNVERIFIABLE")
  ELSE Test("input_digest", Recompute(input) # Nil)

CheckInput(receipt, input) ==
  IF input = Nil
  THEN Check("input_digest", "UNVERIFIABLE")
  ELSE Test("input_digest",
            Recompute(input) # Nil /\ Recompute(input) = receipt.inputDigest)

\* Both sides may be None, and then match.
CheckOutput(receipt, output) ==
  IF receipt.decision # "PERMIT"
  THEN Test("output_digest", receipt.outputDigest = Nil)
  ELSE IF output = Nil
  THEN Check("output_digest", "UNVERIFIABLE")
  ELSE Test("output_digest", Recompute(output) = receipt.outputDigest)

CheckPredicates(receipt) ==
  IF ~(Invariants \subseteq Exposed(receipt))
  THEN Check("predicate_exposure", "FAIL")
  ELSE Test("predicate_evidence",
            \A i \in Invariants : /\ Predicate(receipt, i).evidence
                                  /\ Predicate(receipt, i).inputs)
       \union
       Test("predicate_results",
            \A i \in Invariants : Predicate(receipt, i).result \in {"PASS", "FAIL"})

\* Mutant: an index may be skipped.
Later(receipt, parent) ==
  \/ Session(receipt) = Nil
  \/ Session(parent) = Nil
  \/ Session(receipt) > Session(parent)

\* The index of the parent is compared only when both indices are there.
Follows(receipt, parent) ==
  \/ Session(receipt) = Nil
  \/ Session(parent) = Nil
  \/ Session(receipt) = Session(parent) + 1

\* Mutant: the index is not compared.
ParentResolves(receipt, store) ==
  IF Session(receipt) = 1
  THEN receipt.parent = Nil
  ELSE LET parent == Resolve(store, receipt.parent) IN
       /\ receipt.parent # Nil
       /\ parent # Nil
       /\ Recompute(parent.declared) = receipt.parent

LineageHolds(receipt, store) ==
  IF Session(receipt) = 1
  THEN receipt.parent = Nil
  ELSE LET parent == Resolve(store, receipt.parent) IN
       /\ receipt.parent # Nil
       /\ parent # Nil
       /\ Recompute(parent.declared) = receipt.parent
       /\ Follows(receipt, parent)

CheckLineage(receipt, store) == Test("lineage", LineageHolds(receipt, store))

\* Mutant: twelve hours is not enough.
MoreThanCompliant(receipt, parent) == Start(receipt) - Start(parent) > MinSeparation

Compliant(receipt, parent) == Start(receipt) - Start(parent) >= MinSeparation

\* Mutant: the absolute value of the separation is compared.
EitherWay(receipt, parent) ==
  Test("separation",
       \/ receipt.decision = "PERMIT" /\ Compliant(receipt, parent)
       \/ receipt.decision = "PERMIT" /\ Compliant(parent, receipt)
       \/ receipt.decision # "PERMIT" /\ ~Compliant(receipt, parent)
                                     /\ ~Compliant(parent, receipt))

\* PERMIT exactly when the separation is compliant; and a violation has to be
\* blamed on I1 or I2, which is a check of its own.
CheckSeparation(receipt, parent) ==
  Test("separation", Compliant(receipt, parent) <=> receipt.decision = "PERMIT")
  \union
  IF Compliant(receipt, parent)
  THEN {}
  ELSE Test("separation_attribution", Failing(receipt) \intersect Temporal # {})

CheckTemporal(receipt, store) ==
  IF Session(receipt) = 1
  THEN Check("separation", "PASS")
  ELSE LET parent == Resolve(store, receipt.parent) IN
       IF parent = Nil
       THEN Check("separation", "UNVERIFIABLE")
       ELSE IF Start(receipt) = Nil \/ Start(parent) = Nil
       THEN Check("separation", "FAIL")
       ELSE CheckSeparation(receipt, parent)

CheckConsequence(receipt, output) ==
  Test("consequence", receipt.decision = "PERMIT" \/ output = Nil)

\* Mutant: a hold need not be explained.
PermitsDerived(receipt) ==
  Test("decision_derivation", receipt.decision = "PERMIT" => Failing(receipt) = {})

CheckDerivation(receipt) ==
  Test("decision_derivation",
       /\ receipt.decision = "PERMIT" => Failing(receipt) = {}
       /\ receipt.decision \in {"HOLD", "TERMINATE"} => Failing(receipt) # {})

\* Mutant: a proof digest that is there is taken for a signature.
SignaturePresent(receipt) ==
  Test("signature", receipt.proved)

\* No signature algorithm is specified (CANON-02), so no signature passes.
CheckSignature(receipt) ==
  Check("signature", IF receipt.proved THEN "UNVERIFIABLE" ELSE "FAIL")

Verify(receipt, store, input, output) ==
  IF ~SchemaHolds(receipt)
  THEN Check("schema", "FAIL")
  ELSE Check("schema", "PASS")
         \union CheckInput(receipt, input)
         \union CheckOutput(receipt, output)
         \union CheckPredicates(receipt)
         \union CheckLineage(receipt, store)
         \union CheckTemporal(receipt, store)
         \union CheckConsequence(receipt, output)
         \union CheckDerivation(receipt)
         \union CheckSignature(receipt)

\* verify raises instead of returning: of an artifact whose encoding raises,
\* when it describes the mismatch of a declared digest that has no slice, and
\* when it iterates over predicates that are None.
Raises(receipt, input, output) ==
  /\ SchemaHolds(receipt)
  /\ \/ input = Unencodable
     \/ input \notin {Nil, Uncanonical} /\ receipt.inputDigest = Nil
     \/ receipt.decision = "PERMIT" /\ output = Unencodable
     \/ receipt.predicates = Nil

\* VerificationResult.failed and .unverifiable, by name.
FailedChecks(checks) == {c.name : c \in {d \in checks : d.status = "FAIL"}}
UnverifiableChecks(checks) ==
  {c.name : c \in {d \in checks : d.status = "UNVERIFIABLE"}}

\* VerificationResult.verified
Verified(checks) == FailedChecks(checks) = {} /\ UnverifiableChecks(checks) = {}
=============================================================================
