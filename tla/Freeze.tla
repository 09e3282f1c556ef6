------------------------------- MODULE Freeze -------------------------------
(***************************************************************************)
(* The freeze procedure, protocol/freeze.py, and what the people who keep  *)
(* the study do between two runs of it: they edit the documents and the    *)
(* source, fill the header of the contract from the manifest, record the   *)
(* DOI, put the collected sessions into fixtures/, change them there or    *)
(* take them out, and run the tool from the repository's root or from      *)
(* another directory.                                                      *)
(*                                                                         *)
(* A document is its text, the lines of its header and its layout; a       *)
(* digest is the canonical material it is taken of.  A text, a source      *)
(* group or a session is the number of times it has been edited.           *)
(***************************************************************************)
EXTENDS Naturals

CONSTANTS Groups,          \* the source groups hashed into stage A
          Harness,         \* the one of them that holds harness/fixtures.py
          Fields,          \* the header lines that are filled at a freeze
          ContractDigest,  \* the one of them that carries the contract's digest
          MaxEdits         \* how often a text, a group or a session may be edited

ASSUME HarnessAssumption == Harness \in Groups
ASSUME FieldsAssumption == ContractDigest \in Fields

VARIABLES sources,    \* the edits of every source group
          contract,   \* the contract: text, header, layout
          prereg,     \* the preregistration: text, layout
          wired,      \* the collected sessions in fixtures/: "parent", "successor"
          collected,  \* the edits of their files
          manifest,   \* protocol/FREEZE-MANIFEST.json, or Nothing
          touched     \* what has changed since the manifest was written

vars == <<sources, contract, prereg, wired, collected, manifest, touched>>

Nothing == [written |-> FALSE]

Layouts == {"lf", "crlf"}
Sessions == {"parent", "successor"}
Directories == {"root", "elsewhere"}

\* What a header line may hold: no such line, the placeholder, or a value.
NoLine == [line |-> "none"]
Placeholder == [line |-> "placeholder"]
Filled(value) == [line |-> "filled", value |-> value]
Blanked == [line |-> "blanked"]

-----------------------------------------------------------------------------
(* Stage A.                                                                *)

\* Mutant: the digest alone is blanked, as before the correction of version 1.1.0.
DigestsOnly(header) ==
  [f \in Fields |-> IF header[f] = NoLine \/ f # ContractDigest THEN header[f] ELSE Blanked]

\* DIGEST_LINE_PATTERN and contract_status: a line that is there is blanked.
BlankLines(header) == [f \in Fields |-> IF header[f] = NoLine THEN NoLine ELSE Blanked]

\* canonical_document_bytes: the layout of a document is normalized away.
CanonicalDocument(document, header) ==
  [text |-> document.text, header |-> header, layout |-> "lf"]

StageA ==
  [ sources         |-> sources,
    contract        |-> CanonicalDocument(contract, BlankLines(contract.header)),
    preregistration |-> CanonicalDocument(prereg, <<>>) ]

-----------------------------------------------------------------------------
(* Stage B: the sessions are looked up from the working directory.         *)

Found(session, cwd) == session \in wired /\ cwd = "root"

Collected(session) == [from |-> "file", edits |-> collected[session]]
Stub == [from |-> "stub"]
Derived == [from |-> "parent"]

\* Mutant: the parent alone is looked up from the root.
ParentFromRoot(cwd) == IF "parent" \in wired THEN Collected("parent") ELSE Stub

LoadParent(cwd) == IF Found("parent", cwd) THEN Collected("parent") ELSE Stub

\* C01 is the collected successor, or one derived from the parent.
StageB(cwd) ==
  [ parent   |-> LoadParent(cwd),
    fixtures |-> [ harness   |-> sources[Harness],
                   parent    |-> LoadParent(cwd),
                   C01       |-> IF Found("successor", cwd)
                                 THEN Collected("successor") ELSE Derived ] ]

\* Mutant: the status says whether the parent is in the repository.
StatusIfWired(stageB) == IF "parent" \in wired THEN "FROZEN" ELSE "PROVISIONAL"

StatusB(stageB) == IF stageB.parent # Stub THEN "FROZEN" ELSE "PROVISIONAL"

-----------------------------------------------------------------------------
Init ==
  /\ sources = [g \in Groups |-> 0]
  /\ \E header \in [Fields -> {NoLine, Placeholder}] : \E layout \in Layouts :
       /\ contract = [text |-> 0, header |-> header, layout |-> layout]
       /\ prereg = [text |-> 0, layout |-> layout]
  /\ wired = {}
  /\ collected = [session \in Sessions |-> 0]
  /\ manifest = Nothing
  /\ touched = {}

\* freeze.py --write: the whole manifest is replaced, a DOI written into it by
\* hand with it.
Write ==
  /\ \E cwd \in Directories :
       manifest' = [ written  |-> TRUE,
                     stageA   |-> StageA,
                     stageB   |-> StageB(cwd),
                     statusB  |-> StatusB(StageB(cwd)),
                     doi      |-> FALSE ]
  /\ touched' = {}
  /\ UNCHANGED <<sources, contract, prereg, wired, collected>>

EditSources ==
  /\ \E g \in Groups :
       /\ sources[g] < MaxEdits
       /\ sources' = [sources EXCEPT ![g] = @ + 1]
       /\ touched' = touched \cup {g}
  /\ UNCHANGED <<contract, prereg, wired, collected, manifest>>

EditContract ==
  /\ contract.text < MaxEdits
  /\ contract' = [contract EXCEPT !.text = @ + 1]
  /\ touched' = touched \cup {"contract"}
  /\ UNCHANGED <<sources, prereg, wired, collected, manifest>>

\* A header line the contract did not have is added to it.
AddLine ==
  /\ \E f \in Fields :
       /\ contract.header[f] = NoLine
       /\ contract' = [contract EXCEPT !.header[f] = Placeholder]
  /\ touched' = touched \cup {"contract"}
  /\ UNCHANGED <<sources, prereg, wired, collected, manifest>>

\* A line of the contract's header is filled, its digest from the manifest.
FillLine ==
  /\ manifest # Nothing
  /\ \E f \in Fields :
       /\ contract.header[f] # NoLine
       /\ contract' = [contract EXCEPT
            !.header[f] = Filled(IF f = ContractDigest THEN manifest.stageA.contract.text ELSE 0)]
  /\ UNCHANGED <<sources, prereg, wired, collected, manifest, touched>>

\* The text of the preregistration changes: a correction, the DOI in its
\* header, or a dated entry in its log of deviations.
EditPrereg ==
  /\ prereg.text < MaxEdits
  /\ prereg' = [prereg EXCEPT !.text = @ + 1]
  /\ touched' = touched \cup {"preregistration"}
  /\ UNCHANGED <<sources, contract, wired, collected, manifest>>

\* The DOI goes into the protocol's header and into the manifest.
RecordDoi ==
  /\ manifest # Nothing
  /\ prereg.text < MaxEdits
  /\ prereg' = [prereg EXCEPT !.text = @ + 1]
  /\ manifest' = [manifest EXCEPT !.doi = TRUE]
  /\ touched' = touched \cup {"preregistration"}
  /\ UNCHANGED <<sources, contract, wired, collected>>

\* A document is checked out with the other line endings.
Relayout ==
  /\ \E layout \in Layouts :
       \/ contract' = [contract EXCEPT !.layout = layout] /\ UNCHANGED prereg
       \/ prereg' = [prereg EXCEPT !.layout = layout] /\ UNCHANGED contract
  /\ UNCHANGED <<sources, wired, collected, manifest, touched>>

\* The files of the sessions come, change and go.
WireSession ==
  /\ \E session \in Sessions \ wired :
       /\ wired' = wired \cup {session}
       /\ touched' = touched \cup {session}
  /\ UNCHANGED <<sources, contract, prereg, collected, manifest>>

EditSession ==
  /\ \E session \in wired :
       /\ collected[session] < MaxEdits
       /\ collected' = [collected EXCEPT ![session] = @ + 1]
       /\ touched' = touched \cup {session}
  /\ UNCHANGED <<sources, contract, prereg, wired, manifest>>

RemoveSession ==
  /\ \E session \in wired :
       /\ wired' = wired \ {session}
       /\ touched' = touched \cup {session}
  /\ UNCHANGED <<sources, contract, prereg, collected, manifest>>

Next ==
  \/ Write
  \/ EditSources
  \/ EditContract
  \/ AddLine
  \/ FillLine
  \/ EditPrereg
  \/ RecordDoi
  \/ Relayout
  \/ WireSession
  \/ EditSession
  \/ RemoveSession

Spec == Init /\ [][Next]_vars

-----------------------------------------------------------------------------
(* Properties.                                                             *)

Touchable == Groups \cup {"contract", "preregistration"} \cup Sessions

ManifestFields == {"written", "stageA", "stageB", "statusB", "doi"}

TypeOK ==
  /\ sources \in [Groups -> Nat]
  /\ contract \in [ text   : Nat,
                   header : [Fields -> [line : {"none", "placeholder"}]
                                         \cup [line : {"filled"}, value : Nat]],
                   layout : Layouts ]
  /\ prereg \in [text : Nat, layout : Layouts]
  /\ wired \subseteq Sessions
  /\ collected \in [Sessions -> Nat]
  /\ touched \subseteq Touchable
  /\ manifest # Nothing =>
       /\ DOMAIN manifest = ManifestFields
       /\ manifest.stageA.contract.text \in Nat
       /\ manifest.statusB \in {"FROZEN", "PROVISIONAL"}
       /\ manifest.doi \in BOOLEAN

\* A digest of stage A in the manifest is out of date only if what it is taken
\* of was edited after the manifest was written: filling the header of the
\* contract from that manifest, a checkout with other line endings and the
\* wiring of collected data leave every one of them ("Stage A digests do not
\* change when stage B lands", freeze.py, and PREREG version 1.1.0 on the
\* fields that are blanked).
StaleOnlyByEdit ==
  manifest # Nothing =>
    /\ \A g \in Groups \ touched : manifest.stageA.sources[g] = StageA.sources[g]
    /\ "contract" \notin touched => manifest.stageA.contract = StageA.contract
    /\ "preregistration" \notin touched =>
         manifest.stageA.preregistration = StageA.preregistration

\* A manifest whose stage B is FROZEN has digests of fixtures derived from the
\* collected parent, wherever the tool was run, and of the file that is there
\* unless it was changed or taken out since.
FrozenMeansCollected ==
  (manifest # Nothing /\ manifest.statusB = "FROZEN") =>
    /\ manifest.stageB.fixtures.parent # Stub
    /\ "parent" \notin touched =>
         "parent" \in wired /\ manifest.stageB.fixtures.parent = Collected("parent")

\* Between two manifests with a FROZEN stage B its digests change only if the
\* harness or a session's file was touched.
FrozenFixturesStable ==
  [][ (manifest # Nothing /\ manifest' # Nothing
         /\ manifest.statusB = "FROZEN" /\ manifest'.statusB = "FROZEN"
         /\ touched \cap ({Harness} \cup Sessions) = {})
        => manifest'.stageB = manifest.stageB ]_vars
=============================================================================
