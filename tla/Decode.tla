------------------------------- MODULE Decode -------------------------------
(***************************************************************************)
(* The capability of capability/decode.py: one run reads an input artifact *)
(* and ends in the declared output artifact or in the declared error       *)
(* artifact.  One step is one check before the records, one entry of the   *)
(* decode table, or one record.                                            *)
(*                                                                         *)
(* An input is a record                                                    *)
(*   form     what json.loads makes of the bytes, "object" if an object    *)
(*   fields   the required fields that it has                              *)
(*   typed    the fields not listed below have their types                 *)
(*   session, distance, rounds, shots, records, parent                     *)
(* A syndrome record is NotString or a record [width, binary, ones]: its   *)
(* length, whether all of it is 0s and 1s, and the places of its 1s.       *)
(***************************************************************************)
EXTENDS DecodeTable

CONSTANTS Inputs,     \* the inputs the capability may be given
          Required,   \* REQUIRED_INPUT_FIELDS
          NotString,  \* an item of syndrome_records that is not a string
          Nil         \* Python's None

ASSUME InputsAssumption ==
  \A i \in Inputs :
    /\ {i.distance, i.rounds, i.shots} \subseteq Int
    /\ i.records \in Seq({i.records[k] : k \in DOMAIN i.records})
    /\ \A k \in DOMAIN i.records :
         LET record == i.records[k] IN
         record # NotString =>
           /\ record \in [width : Nat, binary : BOOLEAN, ones : SUBSET Nat]
           /\ record.ones \subseteq 0..(record.width - 1)

VARIABLES input,    \* the input artifact
          phase,    \* the next thing to do
          pattern,  \* the next to enter in the table
          table,    \* what has been entered
          index,    \* of the next record
          count,    \* logical_error_count
          defects,  \* defects_per_round
          outcome   \* Nil, the output or error artifact, or what was raised

vars == <<input, phase, pattern, table, index, count, defects, outcome>>

Code == [distance |-> input.distance, rounds |-> input.rounds]

Init ==
  /\ input \in Inputs
  /\ phase = "load"
  /\ pattern = <<>>
  /\ table = <<>>
  /\ index = 1
  /\ count = 0
  /\ defects = <<>>
  /\ outcome = Nil

End(artifact) ==
  /\ phase' = "over"
  /\ outcome' = artifact
  /\ UNCHANGED <<input, pattern, table, index, count, defects>>

Error(class) == End([error |-> class])

Goto(next) ==
  /\ phase' = next
  /\ UNCHANGED <<input, pattern, table, index, count, defects, outcome>>

-----------------------------------------------------------------------------
(* load_input                                                              *)

\* What load_input turns into a DecodeError; of a number of more digits than
\* Python converts, or of nesting beyond its stack, json.loads raises errors
\* that are neither UnicodeDecodeError nor JSONDecodeError.
Refused == {"not UTF-8", "not JSON", "duplicate keys", "not an object"}
Unforeseen == {"too many digits", "too deep"}

WellTyped ==
  /\ input.typed
  /\ input.session >= 1
  /\ input.distance >= 1
  /\ input.rounds >= 1
  /\ input.shots >= 1
  /\ (input.parent = Nil) = (input.session = 1)

Raise ==
  /\ phase = "load"
  /\ input.form \in Unforeseen
  /\ End([raised |-> input.form])

Reject ==
  /\ phase = "load"
  /\ input.form \notin Unforeseen
  /\ input.form \in Refused \/ ~(Required \subseteq input.fields) \/ ~WellTyped
  /\ Error("schema_invalid")

Load ==
  /\ phase = "load"
  /\ input.form = "object"
  /\ Required \subseteq input.fields
  /\ WellTyped
  /\ Goto("decode")

-----------------------------------------------------------------------------
(* decode                                                                  *)

Mismatch ==
  /\ phase = "decode"
  /\ Len(input.records) # input.shots
  /\ Error("shots_mismatch")

NoTable ==
  /\ phase = "decode"
  /\ Len(input.records) = input.shots
  /\ ~Buildable(Code)
  /\ Error("table_unavailable")

BuildTable ==
  /\ phase = "decode"
  /\ Len(input.records) = input.shots
  /\ Buildable(Code)
  /\ phase' = "table"
  /\ pattern' = FirstPattern(Code)
  /\ UNCHANGED <<input, table, index, count, defects, outcome>>

\* One iteration of build_table's loop; after the last pattern the counting of
\* the records begins.
Enter ==
  /\ phase = "table"
  /\ LET key == Key(Code, pattern) IN
     table' = [k \in DOMAIN table \union {key} |->
                 IF k = key THEN LeastParity(Code, Fired(pattern)) ELSE table[k]]
  /\ \/ /\ Zeros(pattern) # {}
        /\ pattern' = NextPattern(pattern)
        /\ UNCHANGED <<phase, defects>>
     \/ /\ Zeros(pattern) = {}
        /\ phase' = "records"
        /\ defects' = [r \in 1..input.rounds |-> 0]
        /\ UNCHANGED pattern
  /\ UNCHANGED <<input, index, count, outcome>>

Record == input.records[index]

WellFormed(record) ==
  /\ record # NotString
  /\ record.width = DetectorCount(Code)
  /\ record.binary

Reading == phase = "records" /\ index <= Len(input.records)

\* Mutant: a malformed record is skipped.
SkipMalformed ==
  /\ Reading
  /\ ~WellFormed(Record)
  /\ index' = index + 1
  /\ UNCHANGED <<input, phase, pattern, table, count, defects, outcome>>

Malformed ==
  /\ Reading
  /\ ~WellFormed(Record)
  /\ Error("record_malformed")

\* Mutant: the segments of two rounds overlap by one.
LongSegment(record, r) ==
  record.ones \intersect ((r - 1) * (input.distance - 1)..(r * (input.distance - 1)))

\* The 1s of record[(r - 1) * (distance - 1) : r * (distance - 1)].
Segment(record, r) ==
  record.ones \intersect ((r - 1) * (input.distance - 1)..(r * (input.distance - 1) - 1))

Tally ==
  /\ Reading
  /\ WellFormed(Record)
  /\ count' = count + table[Record]
  /\ defects' = [r \in DOMAIN defects |->
                   defects[r] + Cardinality(Segment(Record, r))]
  /\ index' = index + 1
  /\ UNCHANGED <<input, phase, pattern, table, outcome>>

Complete ==
  /\ phase = "records"
  /\ index = Len(input.records) + 1
  /\ End([ count   |-> count,
           shots   |-> input.shots,
           defects |-> defects,
           session |-> input.session ])

Next ==
  \/ Raise \/ Reject \/ Load
  \/ Mismatch \/ NoTable \/ BuildTable \/ Enter
  \/ Malformed \/ Tally \/ Complete

Spec == Init /\ [][Next]_vars

-----------------------------------------------------------------------------
(* Properties.                                                             *)

Completed == outcome # Nil /\ "count" \in DOMAIN outcome

\* The enumeration reaches every pattern of the code and makes no other key,
\* each entry is the correction of the detectors that its key shows as fired,
\* and a record that passes the checks is a key: no lookup can fail ("There is
\* no fallback branch", table.py).
TableIsComplete ==
  phase = "records" =>
    /\ DOMAIN table = [ width : {DetectorCount(Code)}, binary : {TRUE},
                        ones : SUBSET Detectors(Code) ]
    /\ \A key \in DOMAIN table : table[key] = Table(Code)[key.ones]
    /\ (Reading /\ WellFormed(Record)) => Record \in DOMAIN table

\* An output artifact is about all the records, each decoded and each of its
\* detection events counted once, in the round the row-major numbering of the
\* table puts it in: nothing is partial and nothing depends on the order of
\* the records.
OutputIsTheTally ==
  Completed =>
    LET records == DOMAIN input.records
        Events(r) == {e \in records \X Detectors(Code) :
                        e[2] \in input.records[e[1]].ones /\ Round(Code, e[2]) = r}
    IN  /\ outcome.shots = Cardinality(records)
        /\ outcome.count =
             Cardinality({k \in records : Table(Code)[input.records[k].ones] = 1})
        /\ \A r \in 0..(input.rounds - 1) :
             outcome.defects[r + 1] = Cardinality(Events(r))

\* "No partial results" (decode.py; contract 6): an input with one record that
\* is not one pattern of its code has no output artifact, wherever the record
\* is, and neither has one whose shots are not those it declares.
NothingPartial ==
  Completed =>
    /\ Len(input.records) = input.shots
    /\ \A k \in DOMAIN input.records :
         /\ input.records[k] # NotString
         /\ input.records[k].width = DetectorCount(Code)
         /\ input.records[k].binary
=============================================================================
