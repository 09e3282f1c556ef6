---------------------------- MODULE FreezeProofs ----------------------------
(***************************************************************************)
(* For any source groups, any header and any number of edits: a digest in  *)
(* the manifest is out of date only by an edit, and a FROZEN stage B is    *)
(* that of the collected parent.                                           *)
(***************************************************************************)
EXTENDS Freeze, TLAPS

\* A manifest with a FROZEN stage B was written from the root, and its stage B
\* is what a run from the root would find now, unless the harness was edited or
\* a session's file touched.
FrozenFromRoot ==
  (manifest # Nothing /\ manifest.statusB = "FROZEN") =>
    /\ manifest.stageB.fixtures.parent # Stub
    /\ "parent" \notin touched =>
         "parent" \in wired /\ manifest.stageB.fixtures.parent = Collected("parent")
    /\ touched \cap ({Harness} \cup Sessions) = {} => manifest.stageB = StageB("root")

IInv == TypeOK /\ StaleOnlyByEdit /\ FrozenFromRoot

-----------------------------------------------------------------------------
LEMMA InitInvariant == Init => IInv
  BY DEF Init, IInv, TypeOK, StaleOnlyByEdit, FrozenFromRoot, Layouts, NoLine, Placeholder

\* What a run of the tool writes.
LEMMA WriteStep ==
  ASSUME IInv, Write
  PROVE  IInv' /\ (manifest'.statusB = "FROZEN" => manifest'.stageB = StageB("root"))
<1>1. PICK cwd \in Directories :
        manifest' = [ written |-> TRUE,
                      stageA  |-> StageA,
                      stageB  |-> StageB(cwd),
                      statusB |-> StatusB(StageB(cwd)),
                      doi     |-> FALSE ]
  BY DEF Write
<1>2. /\ UNCHANGED <<sources, contract, prereg, wired, collected>>
      /\ touched' = {}
  BY DEF Write
<1>3. TypeOK'
  BY <1>1, <1>2 DEF IInv, TypeOK, ManifestFields, StageA, StatusB, CanonicalDocument
<1>4. StageA' = StageA /\ StageB("root")' = StageB("root")
  BY <1>2 DEF StageA, StageB, LoadParent, Found, Collected, CanonicalDocument, BlankLines
<1>5. StaleOnlyByEdit'
  BY <1>1, <1>4 DEF StaleOnlyByEdit
<1>6. ASSUME manifest'.statusB = "FROZEN"
      PROVE  /\ manifest'.stageB.fixtures.parent # Stub
             /\ "parent" \in wired /\ manifest'.stageB.fixtures.parent = Collected("parent")
             /\ manifest'.stageB = StageB("root")
  <2>1. StageB(cwd).parent # Stub
    BY <1>1, <1>6 DEF StatusB
  <2>2. Found("parent", cwd)
    BY <2>1 DEF StageB, LoadParent
  <2>3. cwd = "root" /\ "parent" \in wired
    BY <2>2 DEF Found
  <2>. QED
    BY <1>1, <2>1, <2>2, <2>3 DEF StageB, LoadParent
<1>7. FrozenFromRoot'
  BY <1>2, <1>4, <1>6 DEF FrozenFromRoot, Collected
<1>. QED
  BY <1>3, <1>5, <1>6, <1>7 DEF IInv

\* The steps that leave the manifest's digests alone.
LEMMA EditStep ==
  ASSUME IInv, EditSources \/ EditContract \/ AddLine \/ FillLine \/ EditPrereg
               \/ RecordDoi \/ Relayout \/ WireSession \/ EditSession \/ RemoveSession
               \/ UNCHANGED vars
  PROVE  TypeOK'
<1>. USE DEF IInv, TypeOK, Touchable
<1>1. CASE EditSources
  BY <1>1 DEF EditSources
<1>2. CASE EditContract
  BY <1>2 DEF EditContract
<1>3. CASE AddLine
  BY <1>3 DEF AddLine, Placeholder
<1>4. CASE FillLine
  BY <1>4 DEF FillLine, Filled
<1>5. CASE EditPrereg
  BY <1>5 DEF EditPrereg
<1>6. CASE RecordDoi
  BY <1>6 DEF RecordDoi, ManifestFields
<1>7. CASE Relayout
  BY <1>7 DEF Relayout
<1>8. CASE WireSession
  BY <1>8 DEF WireSession
<1>9. CASE EditSession
  BY <1>9 DEF EditSession
<1>10. CASE RemoveSession
  BY <1>10 DEF RemoveSession
<1>11. CASE UNCHANGED vars
  BY <1>11 DEF vars
<1>. QED
  BY <1>1, <1>2, <1>3, <1>4, <1>5, <1>6, <1>7, <1>8, <1>9, <1>10, <1>11

\* A step other than a run of the tool: what it changes of the material, it
\* touches, and the manifest keeps its digests.
LEMMA EditKeepsDigests ==
  ASSUME IInv, EditSources \/ EditContract \/ AddLine \/ FillLine \/ EditPrereg
               \/ RecordDoi \/ Relayout \/ WireSession \/ EditSession \/ RemoveSession
               \/ UNCHANGED vars
  PROVE  /\ touched \subseteq touched'
         /\ \A g \in Groups \ touched' : sources'[g] = sources[g]
         /\ "contract" \notin touched' => StageA.contract' = StageA.contract
         /\ "preregistration" \notin touched' => StageA.preregistration' = StageA.preregistration
         /\ touched' \cap ({Harness} \cup Sessions) = {} => StageB("root")' = StageB("root")
         /\ "parent" \notin touched' =>
              ("parent" \in wired' <=> "parent" \in wired) /\ Collected("parent")' = Collected("parent")
         /\ manifest' # Nothing =>
              /\ manifest # Nothing
              /\ manifest'.stageA = manifest.stageA
              /\ manifest'.stageB = manifest.stageB
              /\ manifest'.statusB = manifest.statusB
<1>. USE HarnessAssumption DEF IInv, TypeOK, StageA, StageB, LoadParent, Found, Collected, Sessions,
             CanonicalDocument
<1>1. CASE EditSources
  BY <1>1 DEF EditSources
<1>2. CASE EditContract
  BY <1>2 DEF EditContract
<1>3. CASE AddLine
  BY <1>3 DEF AddLine
<1>4. CASE FillLine
  <2>1. BlankLines(contract.header)' = BlankLines(contract.header)
    BY <1>4 DEF FillLine, Filled, BlankLines, NoLine
  <2>2. contract.text' = contract.text
    BY <1>4 DEF FillLine
  <2>. QED
    BY <1>4, <2>1, <2>2 DEF FillLine
<1>5. CASE EditPrereg
  BY <1>5 DEF EditPrereg
<1>6. CASE RecordDoi
  <2>1. /\ manifest'.stageA = manifest.stageA
        /\ manifest'.stageB = manifest.stageB
        /\ manifest'.statusB = manifest.statusB
    BY <1>6 DEF RecordDoi, ManifestFields
  <2>. QED
    BY <1>6, <2>1 DEF RecordDoi
<1>7. CASE Relayout
  <2>1. contract.text' = contract.text /\ contract.header' = contract.header
        /\ prereg.text' = prereg.text
    BY <1>7 DEF Relayout
  <2>. QED
    BY <1>7, <2>1 DEF Relayout
<1>8. CASE WireSession
  BY <1>8 DEF WireSession
<1>9. CASE EditSession
  BY <1>9 DEF EditSession
<1>10. CASE RemoveSession
  BY <1>10 DEF RemoveSession
<1>11. CASE UNCHANGED vars
  BY <1>11 DEF vars
<1>. QED
  BY <1>1, <1>2, <1>3, <1>4, <1>5, <1>6, <1>7, <1>8, <1>9, <1>10, <1>11

LEMMA NextInvariant == IInv /\ [Next]_vars => IInv'
<1>. SUFFICES ASSUME IInv, [Next]_vars PROVE IInv'
  OBVIOUS
<1>1. CASE Write
  BY <1>1, WriteStep
<1>2. CASE ~Write
  <2>1. EditSources \/ EditContract \/ AddLine \/ FillLine \/ EditPrereg
          \/ RecordDoi \/ Relayout \/ WireSession \/ EditSession \/ RemoveSession
          \/ UNCHANGED vars
    BY <1>2 DEF Next
  <2>2. TypeOK'
    BY <2>1, EditStep
  <2>3. StaleOnlyByEdit'
    BY <2>1, EditKeepsDigests DEF IInv, StaleOnlyByEdit, StageA
  <2>4. FrozenFromRoot'
    BY <2>1, EditKeepsDigests DEF IInv, FrozenFromRoot
  <2>. QED
    BY <2>2, <2>3, <2>4 DEF IInv
<1>. QED
  BY <1>1, <1>2

THEOREM Invariance == Spec => []IInv
  BY InitInvariant, NextInvariant, PTL DEF Spec

\* The digests of stage A in the manifest go out of date only by an edit
\* (protocol/freeze.py, canonical_document_bytes and compute_stage_a).
THEOREM ManifestStaysCurrent == Spec => []StaleOnlyByEdit
<1>1. IInv => StaleOnlyByEdit
  BY DEF IInv
<1>. QED
  BY <1>1, Invariance, PTL

\* FROZEN is said of fixtures of the collected parent only (freeze).
THEOREM FrozenIsCollected == Spec => []FrozenMeansCollected
<1>1. IInv => FrozenMeansCollected
  BY DEF IInv, FrozenFromRoot, FrozenMeansCollected
<1>. QED
  BY <1>1, Invariance, PTL

\* Two manifests with a FROZEN stage B agree on it, unless the harness was
\* edited or a session's file touched in between (compute_stage_b).
THEOREM FrozenFixturesAreStable == Spec => FrozenFixturesStable
<1>1. ASSUME IInv, [Next]_vars, manifest # Nothing, manifest' # Nothing,
             manifest.statusB = "FROZEN", manifest'.statusB = "FROZEN",
             touched \cap ({Harness} \cup Sessions) = {}
      PROVE  manifest'.stageB = manifest.stageB
  <2>1. CASE Write
    BY <1>1, <2>1, WriteStep DEF IInv, FrozenFromRoot
  <2>2. CASE ~Write
    <3>1. EditSources \/ EditContract \/ AddLine \/ FillLine \/ EditPrereg
            \/ RecordDoi \/ Relayout \/ WireSession \/ EditSession \/ RemoveSession
            \/ UNCHANGED vars
      BY <1>1, <2>2 DEF Next
    <3>. QED
      BY <1>1, <3>1, EditKeepsDigests
  <2>. QED
    BY <2>1, <2>2
<1>2. IInv /\ [Next]_vars =>
        [ (manifest # Nothing /\ manifest' # Nothing
             /\ manifest.statusB = "FROZEN" /\ manifest'.statusB = "FROZEN"
             /\ touched \cap ({Harness} \cup Sessions) = {})
            => manifest'.stageB = manifest.stageB ]_vars
  BY <1>1
<1>. QED
  BY <1>2, Invariance, PTL DEF Spec, FrozenFixturesStable

\* The types of the freeze's state.
THEOREM TypeCorrect == Spec => []TypeOK
<1>1. IInv => TypeOK
  BY DEF IInv
<1>. QED
  BY <1>1, Invariance, PTL
=============================================================================
