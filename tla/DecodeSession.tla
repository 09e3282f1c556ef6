---------------------------- MODULE DecodeSession ----------------------------
(***************************************************************************)
(* A published session on its way through the capability: the artifacts    *)
(* Extraction builds of published histograms are among the inputs Decode   *)
(* is given.                                                               *)
(***************************************************************************)
EXTENDS Decode, Extraction

CONSTANTS Published,  \* the files of sessions
          Places      \* <<session index, parent>> pairs an artifact is built for

\* The code of the study has a table.
ASSUME CodeAssumption ==
  /\ CODE_DISTANCE \in Nat /\ ROUNDS \in Nat
  /\ Buildable([distance |-> CODE_DISTANCE, rounds |-> ROUNDS])

\* A histogram is an object of integers: no text is a key of it twice.
ASSUME PublishedAssumption ==
  \A files \in Published :
    /\ files \in [ circuit : BOOLEAN, rounds : Int, submitted : Int, calibrated : Int,
                  counts : Seq([outcome : Seq(Seq({0, 1, Blot})), count : Int]) ]
    /\ \A j, k \in DOMAIN files.counts :
         Text(files.counts[j].outcome) = Text(files.counts[k].outcome) => j = k

\* A record that is extracted is a string.
ASSUME StringsAssumption ==
  \A files \in Published : \A k \in DOMAIN files.counts :
    Usable(files.counts[k].outcome) => RecordOf(files.counts[k].outcome) # NotString

\* None is no output artifact.
ASSUME NilAssumption == Nil \notin [count : Nat, shots : Int, defects : Seq(Nat), session : Nat]

ASSUME PlacesAssumption == \A place \in Places : place[1] \in Nat \ {0}

\* The files build_artifact makes an artifact of.
Buildables == {files \in Published : BuildArtifact(files, 1, Nil) # NoArtifact}

\* What load_input makes of that artifact, and the files it was built from.
InputOf(files, place) ==
  LET artifact == BuildArtifact(files, place[1], place[2])
  IN  [ form     |-> "object",
        fields   |-> Required,
        typed    |-> TRUE,
        session  |-> artifact.session,
        distance |-> artifact.distance,
        rounds   |-> artifact.rounds,
        shots    |-> artifact.shots,
        records  |-> artifact.records,
        parent   |-> artifact.parent,
        source   |-> files ]

ASSUME ExtractedAssumption ==
  \A i \in Inputs : "source" \in DOMAIN i =>
    i.source \in Buildables /\ \E place \in Places : i = InputOf(i.source, place)

IsExtracted == "source" \in DOMAIN input

-----------------------------------------------------------------------------
(* Properties.                                                             *)

\* The shots of a histogram: of each entry, one for each time it was counted.
Shots(counts) == UNION {{k} \X (1..counts[k].count) : k \in DOMAIN counts}

\* An extracted session is decoded, and the output counts the published
\* histogram: unless it has no shot, its rounds are not those the records were
\* cut for, or it names a parent in the first session; nothing of that is
\* noticed before the capability runs (extract_qecp1.py build_artifact,
\* decode.py decode).
ExtractedIsDecoded ==
  (IsExtracted /\ phase = "over") =>
    LET counts == input.source.counts
        shots == Shots(counts)
        Events(s) == RecordOf(counts[s[1]].outcome).ones
    IN  /\ Completed <=> /\ shots # {}
                        /\ input.source.rounds = ROUNDS
                        /\ (input.session = 1) = (input.parent = Nil)
        /\ Completed =>
             /\ outcome.shots = Cardinality(shots)
             /\ outcome.count = Cardinality({s \in shots : Table(Code)[Events(s)] = 1})
             /\ \A r \in 1..ROUNDS :
                  outcome.defects[r] =
                    Cardinality({e \in shots \X Detectors(Code) :
                                   e[2] \in Events(e[1]) /\ Round(Code, e[2]) = r - 1})

Reordered(files, order) ==
  [files EXCEPT !.counts = [k \in DOMAIN files.counts |-> files.counts[order[k]]]]

\* The artifact, and so its digest, is a function of what was published: it
\* does not depend on the order the histogram was parsed in, and its stratum
\* is the one its age in hours tells (extract_qecp1.py, conventions 4 and 6).
ExtractionIsCanonical ==
  (IsExtracted /\ phase = "load") =>
    LET files == input.source
        entries == DOMAIN files.counts
        artifact == BuildArtifact(files, input.session, input.parent)
    IN  /\ artifact.stratum = "stale" <=> artifact.hours >= 24
        /\ \A order \in Bijection(entries, entries) :
             BuildArtifact(Reordered(files, order), input.session, input.parent) = artifact
=============================================================================
