-------------------------- MODULE FirstDivergence --------------------------
(***************************************************************************)
(* What the first-divergence locator promises, with no loop: given the     *)
(* stages some run did not produce and the stages whose two values differ, *)
(* the report appears in one step, complete, and names at most one         *)
(* boundary, the least stage that differs.  Pairs of runs of different     *)
(* cases are refused instead.                                              *)
(***************************************************************************)
EXTENDS Naturals

CONSTANT NumStages

VARIABLES missing,     \* stages one of the two runs did not produce
          unequal,     \* stages both produced, with different values
          comparable,  \* the two runs are of the same case
          report       \* Nothing, the refusal, or one verdict per stage

Stages == 1..NumStages

Nothing == <<"no report">>
Refusal == <<"refused">>

IsBoundary(b) == b \in unequal /\ \A s \in unequal : b <= s

Beyond(s) == \E b \in Stages : IsBoundary(b) /\ b < s

Verdict(s) ==
  IF Beyond(s) THEN "NOT_REACHED"
  ELSE IF s \in missing THEN "UNAVAILABLE"
  ELSE IF s \in unequal THEN "DIVERGED"
  ELSE "EQUAL"

Promised == [s \in Stages |-> Verdict(s)]

Init ==
  /\ missing \subseteq Stages
  /\ unequal \subseteq Stages \ missing
  /\ comparable \in BOOLEAN
  /\ report = Nothing

Report ==
  /\ report = Nothing
  /\ report' = IF comparable THEN Promised ELSE Refusal
  /\ UNCHANGED <<missing, unequal, comparable>>

vars == <<missing, unequal, comparable, report>>

Spec == Init /\ [][Report]_vars

FairSpec == Spec /\ WF_vars(Report)
=============================================================================
