---------------------------- MODULE LineageAudit ----------------------------
(***************************************************************************)
(* An audit of a lineage of sessions with verifier/receipt.py: a caller    *)
(* owns a receipt store (a dict from state digests to receipts), builds a  *)
(* ReceiptVerifier over it, has receipts of the substrate verified against *)
(* it, and files the receipts that pass, so that later sessions resolve    *)
(* their parents among them.                                               *)
(*                                                                         *)
(* The substrate is under test, so its receipts are arbitrary.  The caller *)
(* is not part of the code; it does what the tests of the verifier do.     *)
(***************************************************************************)
EXTENDS ReceiptChecks, FiniteSets

CONSTANTS States,        \* the declared states receipts may carry
          Failings,      \* the sets of predicates reported as failing
          Described,     \* the artifact the regular receipts digest
          Artifacts,     \* what the caller may hand to verify as an artifact
          Irregular,     \* receipts that are not of the regular shape
          Elsewhere,     \* a state whose receipt is nowhere in the store
          FileHeld,      \* file receipts whose decision is not PERMIT as well
          MaxFiled       \* bound: the number of keys of the caller's store

ASSUME StatesAssumption ==
  /\ States \subseteq
       [session : Int \union {Nil}, start : Int \union {Nil}, backend : STRING]
  /\ Nil \notin States
ASSUME IrregularAssumption == \A r \in Irregular : r.declared \in States \union {Nil}
ASSUME MaxFiledAssumption == MaxFiled \in Nat

VARIABLES ledger,    \* the caller's dict: state digest -> receipt
          verifier,  \* "unbuilt", or which dict self.store is
          inHand     \* the last receipt verified and its checks, or Nil

vars == <<ledger, verifier, inHand>>

Empty == [d \in {} |-> Nil]

\* ReceiptVerifier.store.  `receipt_store or {}` keeps the caller's dict, whose
\* later contents the verifier then sees, only if it has an entry by then.
Store == IF verifier = "shared" THEN ledger ELSE Empty

\* A list of predicates in the order of INVARIANTS.
Listed == CHOOSE list \in [1..Cardinality(Invariants) -> Invariants] :
            \A i \in Invariants : \E k \in DOMAIN list : list[k] = i

\* A receipt of the shape the substrates of harness/mocks.py return.
Receipt(state, parent, decision, failing) ==
  [ complete     |-> TRUE,
    decision     |-> decision,
    declared     |-> state,
    parent       |-> parent,
    stateDigest  |-> Digest(state),
    inputDigest  |-> Digest(Described),
    outputDigest |-> IF decision = "PERMIT" THEN Digest(Described) ELSE Nil,
    predicates   |-> [k \in DOMAIN Listed |->
                        [ id       |-> Listed[k],
                          result   |-> IF Listed[k] \in failing THEN "FAIL" ELSE "PASS",
                          evidence |-> TRUE,
                          inputs   |-> TRUE ]],
    proved       |-> TRUE ]

Parents == {Nil, Digest(Elsewhere)} \union DOMAIN ledger

\* What a substrate of that shape may return.
Regular == {Receipt(state, parent, decision, failing) :
              state \in States, parent \in Parents, decision \in Decisions, failing \in Failings}

Passes(checks) == FailedChecks(checks) = {}

-----------------------------------------------------------------------------
Init ==
  /\ ledger = Empty
  /\ verifier = "unbuilt"
  /\ inHand = Nil

\* The collected first session is put in the store before a verifier exists.
Seed(state) ==
  /\ verifier = "unbuilt"
  /\ state.session = 1
  /\ state.start # Nil
  /\ Cardinality(DOMAIN ledger \union {Digest(state)}) <= MaxFiled
  /\ ledger' = [d \in DOMAIN ledger \union {Digest(state)} |->
                  IF d = Digest(state)
                  THEN Receipt(state, Nil, "PERMIT", {})
                  ELSE ledger[d]]
  /\ UNCHANGED <<verifier, inHand>>

\* ReceiptVerifier(ruleset, receipt_store)
Build ==
  /\ verifier = "unbuilt"
  /\ verifier' = IF DOMAIN ledger = {} THEN "private" ELSE "shared"
  /\ UNCHANGED <<ledger, inHand>>

\* verify returns a result, which the caller keeps with its receipt.
Examine(receipt, input, output) ==
  /\ ~Raises(receipt, input, output)
  /\ inHand' = [receipt |-> receipt, input |-> input, output |-> output,
                checks |-> Verify(receipt, Store, input, output)]
  /\ UNCHANGED <<ledger, verifier>>

\* verify raises: there is no result to keep.
Fail(receipt, input, output) ==
  /\ Raises(receipt, input, output)
  /\ UNCHANGED vars

\* The caller has a receipt verified, of any shape, with or without artifacts.
CallVerify ==
  /\ verifier # "unbuilt"
  /\ inHand = Nil
  /\ \E receipt \in Regular \union Irregular, input \in Artifacts, output \in Artifacts :
       Examine(receipt, input, output) \/ Fail(receipt, input, output)

\* The caller is done with the receipt in hand without filing it.
SetAside ==
  /\ inHand # Nil
  /\ inHand' = Nil
  /\ UNCHANGED <<ledger, verifier>>

\* The key the tests of the verifier file a receipt under.
Key(receipt) == Recompute(receipt.declared)

\* The caller files the receipt in hand unless a check failed.  What cannot be
\* verified (no result is ever without such a check) does not stop it.
File ==
  /\ inHand # Nil
  /\ Passes(inHand.checks)
  /\ FileHeld \/ inHand.receipt.decision = "PERMIT"
  /\ Key(inHand.receipt) # Nil
  /\ Cardinality(DOMAIN ledger \union {Key(inHand.receipt)}) <= MaxFiled
  /\ ledger' = [d \in DOMAIN ledger \union {Key(inHand.receipt)} |->
                  IF d = Key(inHand.receipt) THEN inHand.receipt ELSE ledger[d]]
  /\ inHand' = Nil
  /\ UNCHANGED verifier

Next ==
  \/ \E state \in States : Seed(state)
  \/ Build
  \/ CallVerify
  \/ File
  \/ SetAside

Spec == Init /\ [][Next]_vars
-----------------------------------------------------------------------------
(* Properties.                                                             *)

Filed == DOMAIN ledger
Genesis(d) == Session(ledger[d]) = 1

TypeOK ==
  /\ verifier \in {"unbuilt", "private", "shared"}
  /\ verifier = "shared" => Filed # {}
  /\ Cardinality(Filed) <= MaxFiled
  /\ \A d \in Filed : /\ ledger[d].decision \in Decisions
                      /\ ledger[d].declared \in States \union {Nil}
  /\ inHand # Nil => verifier # "unbuilt"

\* Whatever the substrate returns, every filed receipt of a later session has
\* its parent in the store, under the digest of that parent's declared state,
\* with the preceding index; and it is admitted exactly when it starts twelve
\* hours or more after that parent (contract 5.1.1, 5.1.3).  It has to survive
\* the overwriting of the parent by another receipt of the same state.
Justified(d) ==
  LET receipt == ledger[d]
      parent  == ledger[receipt.parent]
  IN  /\ d = Digest(receipt.declared)
      /\ Genesis(d) \/ /\ receipt.parent \in Filed
                       /\ Start(receipt) # Nil
                       /\ Start(parent) # Nil
                       /\ Follows(receipt, parent)
                       /\ Compliant(receipt, parent) <=> receipt.decision = "PERMIT"

EntriesJustified == \A d \in Filed : Justified(d)

\* If only admitted receipts are filed and all of them carry an index, session
\* n of a lineage is at least n - 1 separations away from some first session:
\* no run of verified sessions is shorter than the contract's replication unit
\* allows, however many branches and overwritten entries the store has.
StudySpan ==
  (\A d \in Filed : Session(ledger[d]) # Nil) =>
    \A d \in Filed : ~Genesis(d) =>
      \E g \in Filed :
        /\ Genesis(g)
        /\ Start(ledger[g]) # Nil
        /\ Start(ledger[d]) >= Start(ledger[g])
                                 + MinSeparation * (Session(ledger[d]) - 1)

\* The keys reached from each key by following parent_state_digest.
Ancestry ==
  LET ancestors[n \in 0..MaxFiled] ==
        IF n = 0
        THEN [d \in Filed |-> {}]
        ELSE [d \in Filed |->
                IF ledger[d].parent \in Filed
                THEN {ledger[d].parent} \union ancestors[n - 1][ledger[d].parent]
                ELSE {}]
  IN  ancestors[MaxFiled]

\* If all filed receipts carry an index, none is its own ancestor and all lead
\* back to a first session: "missing ancestry must HOLD, never PERMIT by default"
\* holds of the whole chain although verify looks only one step back, held
\* receipts and overwritten ones included. (Without an index a held receipt may
\* be filed as its own parent.)
ReachesGenesis ==
  (\A d \in Filed : Session(ledger[d]) # Nil) =>
    \A d \in Filed :
      /\ d \notin Ancestry[d]
      /\ Genesis(d) \/ \E a \in Ancestry[d] : Genesis(a)

\* Two admitted sessions of which one descends from the other are never closer
\* than twelve hours, so that they count as independent replicates (contract
\* 5.1.1), and not only when they are parent and child.
AncestorsSpaced ==
  \A d \in Filed : \A a \in Ancestry[d] :
    (ledger[d].decision = "PERMIT" /\ ledger[a].decision = "PERMIT")
      => /\ Start(ledger[a]) # Nil
         /\ Compliant(ledger[d], ledger[a])

\* What the contract asks of a session that is to be admitted (5.1.1, 5.1.3).
ContractAdmits(state, parent) ==
  IF state.session = 1
  THEN parent = Nil
  ELSE /\ parent \in Filed
       /\ state.start # Nil
       /\ Start(ledger[parent]) # Nil
       /\ state.session = Session(ledger[parent]) + 1
       /\ state.backend = ledger[parent].declared.backend
       /\ state.start - Start(ledger[parent]) >= MinSeparation

\* A verifier over the caller's store lets the honest PERMIT of a session pass
\* exactly when the contract admits that session: nothing else gets through
\* and no conforming session is refused, at the boundary as elsewhere.  (What
\* the caller has in hand plays no part: it is enough to look between receipts.
\* The run has the sessions of one backend: verify reads no backend_id.)
AdmissionExact ==
  (verifier = "shared" /\ inHand = Nil) =>
    \A state \in States, parent \in Parents :
      (state.session # Nil /\ (parent \in Filed => Session(ledger[parent]) # Nil))
        => ( Passes(Verify(Receipt(state, parent, "PERMIT", {}), Store, Nil, Nil))
               <=> ContractAdmits(state, parent) )

-----------------------------------------------------------------------------
(* Properties of what verify said of the receipt in hand.                  *)

Accepted == inHand # Nil /\ Passes(inHand.checks)

\* An accepted receipt explains its own decision and leaves nothing behind
\* that the decision forbids: every predicate is exposed once and for all with
\* its evidence, the decision is PERMIT exactly if none of them fails, and
\* unless it is PERMIT there is neither an output digest nor an output.
AcceptedIsCoherent ==
  Accepted =>
    LET receipt == inHand.receipt IN
    /\ Invariants \subseteq Exposed(receipt)
    /\ \A i \in Invariants : /\ Predicate(receipt, i).evidence
                             /\ Predicate(receipt, i).result \in {"PASS", "FAIL"}
    /\ receipt.decision = "PERMIT" <=> Failing(receipt) = {}
    /\ receipt.decision # "PERMIT" => receipt.outputDigest = Nil /\ inHand.output = Nil

\* No signature can be validated, so nothing the verifier says of any receipt
\* may read as a complete success ("a gap must not be laundered into a green
\* result"): also an accepted receipt has a check that was not performed.
NeverVerified == inHand # Nil => ~Verified(inHand.checks)

\* "the receipt does not describe these bytes": the digests of an accepted
\* PERMIT are those of the artifacts it was verified with.
InputDescribed ==
  (Accepted /\ inHand.input # Nil)
    => inHand.receipt.inputDigest = Digest(inHand.input)
=============================================================================
