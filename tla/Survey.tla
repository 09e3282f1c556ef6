------------------------------- MODULE Survey -------------------------------
(***************************************************************************)
(* The locator across a set of cases, harness/divergence.py: the runs of   *)
(* one implementation are compared with the runs of the other of the same  *)
(* case (locate_across_cases), one run per step, and the reports are       *)
(* grouped by the stage of their boundary (summarize).  One comparison is  *)
(* the report the locator promises (FirstDivergence).                      *)
(***************************************************************************)
EXTENDS StageValues

CONSTANTS CaseIds,  \* the cases run
          Surveys   \* the pairs of lists of runs that may be surveyed

ASSUME SurveysAssumption ==
  \A survey \in Surveys : \A runs \in {survey.left, survey.right} :
    /\ DOMAIN runs = 1..Len(runs) /\ Len(runs) \in Nat
    /\ \A i \in DOMAIN runs : runs[i].caseId \in CaseIds

VARIABLES leftRuns, rightRuns,  \* the two lists
          taken,                \* how many of leftRuns have been handled
          reports,              \* the reports so far
          summary               \* Nothing, or the groups of the reports

vars == <<leftRuns, rightRuns, taken, reports, summary>>

Nothing == <<>>
NoStage == 0

-----------------------------------------------------------------------------
(* The comparison of two runs of one case.                                 *)

Missing(l, r) == {s \in Stages : ~Has(l, s) \/ ~Has(r, s)}

Unequal(l, r) == {s \in Stages \ Missing(l, r) : ~Equal(s, l.values[s], r.values[s])}

Locator(l, r) == INSTANCE FirstDivergence WITH
  missing    <- Missing(l, r),
  unequal    <- Unequal(l, r),
  comparable <- TRUE,
  report     <- Nothing

CompareRuns(l, r) == [caseId |-> l.caseId, verdicts |-> Locator(l, r)!Promised]

Reports == [caseId : CaseIds, verdicts : [Stages -> Verdicts]]

\* DivergenceReport.first_divergence
FirstDivergence(report) ==
  IF \E s \in Stages : report.verdicts[s] = "DIVERGED"
  THEN CHOOSE s \in Stages :
         /\ report.verdicts[s] = "DIVERGED"
         /\ \A t \in Stages : report.verdicts[t] = "DIVERGED" => s <= t
  ELSE NoStage

\* DivergenceReport.converged
Converged(report) ==
  FirstDivergence(report) = NoStage /\ \E s \in Stages : report.verdicts[s] = "EQUAL"

-----------------------------------------------------------------------------
(* locate_across_cases.                                                    *)

\* Mutant: the lists are walked side by side.
SamePlace(i) == {i} \cap DOMAIN rightRuns

\* The places on the right of the runs of the case of leftRuns[i].
OfItsCase(i) == {j \in DOMAIN rightRuns : rightRuns[j].caseId = leftRuns[i].caseId}

Matched(i) == OfItsCase(i) # {}

\* right_by_case: of two runs of one case the later stands.
Counterpart(i) == rightRuns[CHOOSE j \in OfItsCase(i) : \A k \in OfItsCase(i) : k <= j]

Compared(i) == CompareRuns(leftRuns[i], Counterpart(i))

Init ==
  /\ \E survey \in Surveys : leftRuns = survey.left /\ rightRuns = survey.right
  /\ taken = 0
  /\ reports = <<>>
  /\ summary = Nothing

\* Mutant: the run on the left is compared with every one on the right.
LocateAll ==
  /\ taken < Len(leftRuns)
  /\ Matched(taken + 1)
  /\ reports' = reports \o [j \in DOMAIN rightRuns |-> CompareRuns(leftRuns[taken + 1], rightRuns[j])]
  /\ taken' = taken + 1
  /\ UNCHANGED <<leftRuns, rightRuns, summary>>

Locate ==
  /\ taken < Len(leftRuns)
  /\ Matched(taken + 1)
  /\ reports' = Append(reports, Compared(taken + 1))
  /\ taken' = taken + 1
  /\ UNCHANGED <<leftRuns, rightRuns, summary>>

\* A case the other implementation has no run of leaves no report.
Skip ==
  /\ taken < Len(leftRuns)
  /\ ~Matched(taken + 1)
  /\ taken' = taken + 1
  /\ UNCHANGED <<leftRuns, rightRuns, reports, summary>>

-----------------------------------------------------------------------------
(* summarize.                                                              *)

\* Mutant: the property DivergenceReport.converged decides.
ConvergedReports(rs) == {k \in DOMAIN rs : Converged(rs[k])}

ConvergedCases(rs) == {k \in DOMAIN rs : FirstDivergence(rs[k]) = NoStage}

ByStage(rs) == [s \in Stages |-> {k \in DOMAIN rs : FirstDivergence(rs[k]) = s}]

\* Mutant: the first report decides.
FirstSeen(rs) ==
  IF \E s \in Stages : ByStage(rs)[s] # {}
  THEN CHOOSE s \in Stages : \E k \in ByStage(rs)[s] :
         \A j \in 1..(k - 1) : FirstDivergence(rs[j]) = NoStage
  ELSE NoStage

EarliestBoundary(rs) ==
  IF \E s \in Stages : ByStage(rs)[s] # {}
  THEN CHOOSE s \in Stages : ByStage(rs)[s] # {} /\ \A t \in Stages : ByStage(rs)[t] # {} => s <= t
  ELSE NoStage

Summarize ==
  /\ taken = Len(leftRuns)
  /\ summary = Nothing
  /\ summary' = [ converged |-> ConvergedCases(reports),
                  byStage   |-> ByStage(reports),
                  earliest  |-> EarliestBoundary(reports) ]
  /\ UNCHANGED <<leftRuns, rightRuns, taken, reports>>

Next == Locate \/ Skip \/ Summarize

Spec == Init /\ [][Next]_vars

-----------------------------------------------------------------------------
(* Properties.                                                             *)

TypeOK ==
  /\ taken \in 0..Len(leftRuns)
  /\ reports \in Seq(Reports) /\ Len(reports) <= taken
  /\ summary # Nothing =>
       /\ taken = Len(leftRuns)
       /\ summary.converged \subseteq DOMAIN reports
       /\ summary.byStage \in [Stages -> SUBSET DOMAIN reports]
       /\ summary.earliest \in Stages \cup {NoStage}

\* The summary loses no report and counts none twice: every one is either among
\* the converged or in the list of exactly one stage (divergence.py summarize).
EveryReportCounted ==
  summary # Nothing =>
    \A k \in DOMAIN reports :
      /\ (k \in summary.converged) <=> (\A s \in Stages : k \notin summary.byStage[s])
      /\ \A s, t \in Stages : k \in summary.byStage[s] \cap summary.byStage[t] => s = t

\* The last run of a case on the right.
IsLastRunOf(case, j) ==
  /\ rightRuns[j].caseId = case
  /\ \A k \in DOMAIN rightRuns : rightRuns[k].caseId = case => k <= j

\* "preserving every divergence" (divergence.py locate_across_cases): a run that
\* differs from the last run of its case on the right leaves a report with the
\* least stage they differ on as its boundary. A difference from an earlier run
\* of the case is lost.
DivergencesPreserved ==
  \A i \in 1..taken : \A j \in DOMAIN rightRuns :
    (IsLastRunOf(leftRuns[i].caseId, j) /\ Unequal(leftRuns[i], rightRuns[j]) # {}) =>
      \E k \in DOMAIN reports :
        /\ reports[k].caseId = leftRuns[i].caseId
        /\ FirstDivergence(reports[k]) \in Unequal(leftRuns[i], rightRuns[j])
        /\ \A s \in Unequal(leftRuns[i], rightRuns[j]) : FirstDivergence(reports[k]) <= s

\* The earliest boundary of the summary is a difference some compared runs
\* really have, and no compared runs differ on a stage before it: closing the
\* boundaries in that order never meets an earlier one (divergence.py
\* summarize, "EARLIEST BOUNDARY").
EarliestIsRoot ==
  (summary # Nothing /\ summary.earliest # NoStage) =>
    /\ \E i \in DOMAIN leftRuns :
         Matched(i) /\ summary.earliest \in Unequal(leftRuns[i], Counterpart(i))
    /\ \A i \in DOMAIN leftRuns : Matched(i) =>
         \A s \in Unequal(leftRuns[i], Counterpart(i)) : summary.earliest <= s

\* A report is counted among the converged exactly if its two runs differ on no
\* stage both produced; they may have no such stage at all, and then
\* DivergenceReport.converged does not hold of what summarize calls converged.
ConvergedIsNoDifference ==
  summary # Nothing =>
    \A i \in DOMAIN leftRuns : Matched(i) =>
      \E k \in DOMAIN reports :
        /\ reports[k] = Compared(i)
        /\ (k \in summary.converged) <=> (Unequal(leftRuns[i], Counterpart(i)) = {})
        /\ (k \in summary.converged /\ ~Converged(reports[k])) <=>
             (Missing(leftRuns[i], Counterpart(i)) = Stages)
=============================================================================
