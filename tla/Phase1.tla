------------------------------- MODULE Phase1 -------------------------------
(***************************************************************************)
(* The phase-1 cases of harness/fixtures.py and the mock substrates of     *)
(* harness/mocks.py that the scorecard is validated against.               *)
(*                                                                         *)
(* An artifact is a record of what the mocks and the cases look at: the    *)
(* session index, the start in seconds after that of session 1, the parent *)
(* receipt it names, its stratum and whether it has a field that is        *)
(* nobody's concern.  Bytes are an artifact and the way it is encoded.     *)
(***************************************************************************)
EXTENDS ReceiptChecks

Hours == 3600
Minutes == 60

-----------------------------------------------------------------------------
(* Fixtures.                                                               *)

\* The values of an artifact in other bytes than those of Fixture.bytes_.
AlternateEncoding(artifact) == <<artifact, "reversed, spaced, escaped">>

\* successor, without its overrides.
Successor(offset) ==
  [ session  |-> 2,
    start    |-> offset,
    parentId |-> "rcpt-0001",
    stratum  |-> "fresh",
    noted    |-> FALSE ]

Fixture(caseId, artifact, decision, predicates) ==
  [ caseId            |-> caseId,
    artifact          |-> artifact,
    decision          |-> decision,
    predicates        |-> predicates,
    requiresSubstrate |-> FALSE,
    variant           |-> Nil,
    declared          |-> Nil ]

CompliantOffset == 14 * Hours
NearLegal == 12 * Hours + 1 * Minutes
NearIllegal == 12 * Hours - 1 * Minutes
Inside == 3 * Hours

\* The collected successor: 13h 44m 33s after session 1.
RealSuccessor == Successor(13 * Hours + 44 * Minutes + 33)

Compared == Successor(CompliantOffset)

\* build_phase1
Phase1Cases ==
  << Fixture("C01", RealSuccessor, "PERMIT", {}),
     Fixture("C02", [Compared EXCEPT !.noted = TRUE], "PERMIT", {}),
     [Fixture("C05", Compared, "PERMIT", {})
        EXCEPT !.variant = AlternateEncoding(Compared)],
     Fixture("C24", [Compared EXCEPT !.stratum = "stale"], "PERMIT", {}),
     Fixture("C06", Successor(Inside), "HOLD", {"I1", "I2"}),
     Fixture("C22", Successor(NearIllegal), "HOLD", {"I1", "I2"}),
     Fixture("C23", Successor(NearLegal), "PERMIT", {}),
     Fixture("C07", [Compared EXCEPT !.parentId = "rcpt-does-not-exist"], "HOLD", {"I2"}),
     [Fixture("C13", Compared, "HOLD", {"I6"})
        EXCEPT !.declared = <<"declared", "f">>],
     [Fixture("C09", Compared, "one of two", {"I2"}) EXCEPT !.requiresSubstrate = TRUE],
     [Fixture("C18", Nil, "DETECTED", {"I5"}) EXCEPT !.requiresSubstrate = TRUE] >>

-----------------------------------------------------------------------------
(* Receipts of the mocks.                                                  *)

\* What a failing predicate cites unless it says something else.
DefaultEvidence == "parent.collection_start"

\* _predicates: cited gives the evidence of some of the failing predicates.
Predicates(failing, cited) ==
  LET ids == <<"I1", "I2", "I3", "I4", "I5", "I6", "I7", "I8">> IN
  [k \in DOMAIN ids |->
     [ id       |-> ids[k],
       result   |-> IF ids[k] \in failing THEN "FAIL" ELSE "PASS",
       evidence |-> TRUE,
       inputs   |-> TRUE,
       payload  |-> IF ids[k] \in DOMAIN cited THEN cited[ids[k]]
                    ELSE IF ids[k] \in failing THEN DefaultEvidence
                    ELSE "nothing" ]]

Uncited == [i \in {} |-> "nothing"]

\* _canonical_state_digest leaves out the fields whose name starts with "_".
CanonicalStateDigest(artifact) == Digest([artifact EXCEPT !.noted = FALSE])

MockReceipt(artifact, decision, predicates) ==
  [ complete     |-> TRUE,
    decision     |-> decision,
    declared     |-> artifact,
    parent       |-> IF artifact.session > 1 THEN "parent-digest-fixture" ELSE Nil,
    stateDigest  |-> CanonicalStateDigest(artifact),
    inputDigest  |-> <<"declared", "0">>,
    outputDigest |-> IF decision = "PERMIT" THEN <<"declared", "2">> ELSE Nil,
    predicates   |-> predicates,
    proved       |-> TRUE ]

SeparationOk(artifact) == artifact.start >= MinSeparation
AncestryOk(artifact) == artifact.parentId = "rcpt-0001"

Permit(artifact) == MockReceipt(artifact, "PERMIT", Predicates({}, Uncited))
Hold(artifact, failing, cited) ==
  MockReceipt(artifact, "HOLD", Predicates(failing, cited))

\* The digest a submission declares is that of the bytes it consists of.
DigestOk(bytes, declared) == declared = Nil \/ declared = Digest(bytes)

-----------------------------------------------------------------------------
(* The mock substrates: what submit returns for bytes, never empty ones    *)
(* (then it returns None), and a declared digest or Nil.                   *)

Correct(artifact, bytes, declared) ==
  IF ~DigestOk(bytes, declared)
  THEN [Hold(artifact, {"I6"}, [i \in {"I6"} |-> "declared and recomputed digest"])
          EXCEPT !.inputDigest = declared]
  ELSE IF ~AncestryOk(artifact)
  THEN Hold(artifact, {"I2"}, [i \in {"I2"} |-> "parent_receipt_id unresolved"])
  ELSE IF ~SeparationOk(artifact)
  THEN Hold(artifact, {"I1", "I2"},
            [i \in {"I1", "I2"} |-> IF i = "I1" THEN "temporal_window and parent start"
                                    ELSE "lineage.parent_state_digest"])
  ELSE Permit(artifact)

PerExecutionOnly(artifact) == Permit(artifact)

ParanoidGate(artifact) == Hold(artifact, {"I2"}, Uncited)

AliasedPredicates(artifact) ==
  IF AncestryOk(artifact) /\ SeparationOk(artifact)
  THEN Permit(artifact)
  ELSE Hold(artifact, {"I2", "I4", "I7"},
            [i \in {"I2", "I4", "I7"} |-> "lineage.parent_state_digest"])

MisattributingGate(artifact) ==
  IF AncestryOk(artifact) /\ SeparationOk(artifact)
  THEN Permit(artifact)
  ELSE Hold(artifact, {"I5"}, [i \in {"I5"} |-> "boundary.resource_ceiling"])

DefaultPermitGate(artifact) ==
  IF AncestryOk(artifact) /\ ~SeparationOk(artifact)
  THEN Hold(artifact, {"I1", "I2"}, Uncited)
  ELSE Permit(artifact)

LiteralByteHasher(artifact, bytes, declared) ==
  IF ~DigestOk(bytes, declared)
  THEN [Hold(artifact, {"I6"}, Uncited) EXCEPT !.inputDigest = declared]
  ELSE LET receipt == IF AncestryOk(artifact) /\ SeparationOk(artifact)
                      THEN Permit(artifact)
                      ELSE Hold(artifact, {"I1", "I2"}, Uncited)
       IN  [receipt EXCEPT !.stateDigest = Digest(bytes)]

MockSubmit(name, bytes, declared) ==
  IF bytes = Nil \/ name = "null"
  THEN Nil
  ELSE LET artifact == bytes[1] IN
       CASE name = "correct"            -> Correct(artifact, bytes, declared)
         [] name = "per-execution only" -> PerExecutionOnly(artifact)
         [] name = "paranoid"           -> ParanoidGate(artifact)
         [] name = "aliased"            -> AliasedPredicates(artifact)
         [] name = "misattributing"     -> MisattributingGate(artifact)
         [] name = "default-permit"     -> DefaultPermitGate(artifact)
         [] name = "literal bytes"      -> LiteralByteHasher(artifact, bytes, declared)

Mocks == {"null", "correct", "per-execution only", "paranoid", "aliased",
          "misattributing", "default-permit", "literal bytes"}
=============================================================================
