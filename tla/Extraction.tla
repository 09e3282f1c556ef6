----------------------------- MODULE Extraction -----------------------------
(***************************************************************************)
(* Extraction of an input artifact from a published session,               *)
(* harness/extract_qecp1.py.  A published histogram is the sequence of its *)
(* entries in the order they were parsed in, no outcome twice; an outcome  *)
(* is the sequence of its groups, a group the sequence of its characters,  *)
(* with Blot for one that is neither 0 nor 1.  Times are in seconds.       *)
(***************************************************************************)
EXTENDS Integers, Sequences, SequencesExt

CONSTANTS CODE_DISTANCE, ROUNDS,
          NoArtifact  \* ValueError or KeyError leaves build_artifact

Blot == 2
Hour == 3600
DETECTOR_BITS == ROUNDS * (CODE_DISTANCE - 1)

\* An outcome as the text it is published as; a space comes before any digit.
Text(outcome) == FlattenSeq([g \in DOMAIN outcome |-> outcome[g] \o <<-1>>])

TextLess(s, t) ==
  \/ IsStrictPrefix(s, t)
  \/ \E i \in DOMAIN s \cap DOMAIN t : s[i] < t[i] /\ SubSeq(s, 1, i - 1) = SubSeq(t, 1, i - 1)

\* The ancilla groups, without the data register.
Bits(outcome) == FlattenSeq(Tail(outcome))

Usable(outcome) ==
  /\ Len(outcome) = ROUNDS + 1
  /\ Len(Bits(outcome)) = DETECTOR_BITS
  /\ \A k \in 1..DETECTOR_BITS : Bits(outcome)[k] # Blot

\* A record as the capability sees it.
RecordOf(outcome) ==
  [ width  |-> Len(Bits(outcome)),
    binary |-> TRUE,
    ones   |-> {k - 1 : k \in {j \in DOMAIN Bits(outcome) : Bits(outcome)[j] = 1}} ]

\* The place of an entry in the sorted list: one after those that are less.
Before(counts, k) ==
  {j \in DOMAIN counts : TextLess(Text(counts[j].outcome), Text(counts[k].outcome))}
Place(counts, k) == 1 + Cardinality(Before(counts, k))

\* Mutant: the entries stay in the order they were parsed in.
AsParsed(counts) == counts

InOrder(counts) ==
  [i \in DOMAIN counts |-> counts[CHOOSE k \in DOMAIN counts : Place(counts, k) = i]]

\* Mutant: an outcome gives one record, however often it was counted.
OneRecord(counts) ==
  LET entries == InOrder(counts) IN [i \in DOMAIN entries |-> RecordOf(entries[i].outcome)]

\* syndrome_records, of outcomes that are all usable.
SyndromeRecords(counts) ==
  LET entries == InOrder(counts)
  IN  FlattenSeq([i \in DOMAIN entries |->
                    [shot \in 1..entries[i].count |-> RecordOf(entries[i].outcome)]])

Stratum(seconds) == IF seconds >= 24 * Hour THEN "stale" ELSE "fresh"

\* build_artifact, of the files of a session.
BuildArtifact(files, sessionIndex, parentReceiptId) ==
  IF ~files.circuit \/ \E i \in DOMAIN files.counts : ~Usable(files.counts[i].outcome)
  THEN NoArtifact
  ELSE LET records == SyndromeRecords(files.counts)
           age     == files.submitted - files.calibrated
       IN  [ session  |-> sessionIndex,
             distance |-> CODE_DISTANCE,
             rounds   |-> files.rounds,
             shots    |-> Len(records),
             records  |-> records,
             parent   |-> parentReceiptId,
             hours    |-> age \div Hour,
             stratum  |-> Stratum(age) ]
=============================================================================
