---------------------------- MODULE StageValues ----------------------------
(***************************************************************************)
(* The stages of a run in harness/divergence.py and the comparison of two  *)
(* values of one stage.  A run is the record of its case and of one value  *)
(* per stage, Absent where it did not produce the stage.                   *)
(***************************************************************************)
EXTENDS Naturals, Sequences

CONSTANTS NumStages,       \* len(STAGES)
          PredicateStage,  \* the index of Stage.PREDICATES
          Invariants,      \* the predicate identifiers I1..I8
          Absent,          \* the mark of a stage that is no key of Run.values
          Nil              \* Python's None

Stages == 1..NumStages

Verdicts == {"EQUAL", "DIVERGED", "NOT_REACHED", "UNAVAILABLE"}

ASSUME NumStagesAssumption == NumStages \in Nat \ {0}

-----------------------------------------------------------------------------
(* Run.has and the comparison of one stage's values.                       *)

Has(run, stage) == run.values[stage] # Absent

\* Mutant: of two entries with one id the first is kept.
FirstEntry(list, id) ==
  CHOOSE k \in DOMAIN list :
    /\ list[k].id = id
    /\ \A j \in DOMAIN list : list[j].id = id => k <= j

\* {p["id"]: p for p in value}: of two entries with one id the later wins.
LastEntry(list, id) ==
  CHOOSE k \in DOMAIN list :
    /\ list[k].id = id
    /\ \A j \in DOMAIN list : list[j].id = id => j <= k

\* Mutant: the result alone is compared, without its evidence.
ResultsOnly(value) ==
  IF value = Nil
  THEN Nil
  ELSE [i \in Invariants |->
          IF \E k \in DOMAIN value : value[k].id = i
          THEN value[LastEntry(value, i)].result
          ELSE Nil]

PredicateSignature(value) ==
  IF value = Nil
  THEN Nil
  ELSE [i \in Invariants |->
          IF \E k \in DOMAIN value : value[k].id = i
          THEN LET entry == value[LastEntry(value, i)]
               IN  <<entry.result, entry.evidence>>
          ELSE <<Nil, Nil>>]

Equal(stage, lhs, rhs) ==
  IF stage = PredicateStage
  THEN PredicateSignature(lhs) = PredicateSignature(rhs)
  ELSE lhs = rhs
=============================================================================
