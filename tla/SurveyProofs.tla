---------------------------- MODULE SurveyProofs ----------------------------
(***************************************************************************)
(* For every list of runs on either side: the reports are the comparisons  *)
(* promised by the locator, one for every run with a counterpart, and the  *)
(* summary names the least stage any two compared runs differ on.  For     *)
(* every two rulesets and all cases: it agrees with the differential       *)
(* runner.                                                                 *)
(***************************************************************************)
EXTENDS CanonSurvey, WellFoundedInduction, TLAPS

\* A report is the comparison of some left run already taken with its
\* counterpart, and every one of those runs has its report.
Sound ==
  \A k \in DOMAIN reports : \E i \in 1..taken : Matched(i) /\ reports[k] = Compared(i)

Complete ==
  \A i \in 1..taken : Matched(i) => \E k \in DOMAIN reports : reports[k] = Compared(i)

Grouped ==
  summary # Nothing =>
    /\ summary = [ converged |-> ConvergedCases(reports),
                   byStage   |-> ByStage(reports),
                   earliest  |-> EarliestBoundary(reports) ]
    /\ taken = Len(leftRuns)

\* The lists are two of those that may be surveyed.
Listed ==
  \A runs \in {leftRuns, rightRuns} :
    /\ DOMAIN runs = 1..Len(runs) /\ Len(runs) \in Nat
    /\ \A i \in DOMAIN runs : runs[i].caseId \in CaseIds

IInv == TypeOK /\ Listed /\ Sound /\ Complete /\ Grouped

-----------------------------------------------------------------------------
\* The least-number principle for the sets of stages used here.
LessThan == {pair \in Nat \X Nat : pair[1] < pair[2]}

LEMMA LessThanWellFounded == IsWellFoundedOn(LessThan, Nat)
  BY NatLessThanWellFounded DEF OpToRel, LessThan

LEMMA LeastStage ==
  ASSUME NEW S, S \subseteq Stages, S # {}
  PROVE  \E s \in S : \A t \in S : s <= t
<1>1. Stages \subseteq Nat
  BY NumStagesAssumption DEF Stages
<1>2. PICK s \in S : \A t \in S : <<t, s>> \notin LessThan
  BY <1>1, WFMin, LessThanWellFounded
<1>3. ASSUME NEW t \in S PROVE s <= t
  <2>1. <<t, s>> \in Nat \X Nat /\ ~(t < s)
    BY <1>1, <1>2 DEF LessThan
  <2>. QED
    BY <1>1, <2>1
<1>. QED
  BY <1>3

-----------------------------------------------------------------------------
(* One report.                                                             *)

LEMMA CompareRunsType ==
  ASSUME NEW l, NEW r
  PROVE  CompareRuns(l, r).verdicts \in [Stages -> Verdicts]
  BY DEF CompareRuns, Locator!Promised, Locator!Verdict, Locator!Stages, Stages, Verdicts

\* A stage is DIVERGED exactly if it is the least one the two runs differ on.
LEMMA DivergedStage ==
  ASSUME NEW l, NEW r, NEW s \in Stages
  PROVE  CompareRuns(l, r).verdicts[s] = "DIVERGED"
           <=> s \in Unequal(l, r) /\ \A t \in Unequal(l, r) : s <= t
<1>1. Stages \subseteq Nat /\ Unequal(l, r) \subseteq Stages \ Missing(l, r)
  BY NumStagesAssumption DEF Stages, Unequal
<1>2. CompareRuns(l, r).verdicts[s] = Locator(l, r)!Verdict(s)
  BY DEF CompareRuns, Locator!Promised, Locator!Stages, Stages
<1>3. Locator(l, r)!Beyond(s) <=>
        \E b \in Unequal(l, r) : b < s /\ \A t \in Unequal(l, r) : b <= t
  BY <1>1 DEF Locator!Beyond, Locator!IsBoundary, Locator!Stages, Stages
<1>4. CompareRuns(l, r).verdicts[s] = "DIVERGED" <=>
        ~Locator(l, r)!Beyond(s) /\ s \notin Missing(l, r) /\ s \in Unequal(l, r)
  BY <1>2 DEF Locator!Verdict
<1>5. CASE s \notin Unequal(l, r)
  BY <1>4, <1>5
<1>6. CASE s \in Unequal(l, r)
  <2>1. PICK b \in Unequal(l, r) : \A t \in Unequal(l, r) : b <= t
    BY <1>1, <1>6, LeastStage
  <2>2. s \in Nat /\ b \in Nat /\ b <= s /\ s \notin Missing(l, r)
    BY <1>1, <1>6, <2>1
  <2>3. CASE b < s
    <3>1. Locator(l, r)!Beyond(s)
      BY <1>3, <2>1, <2>3
    <3>2. ~(s <= b)
      BY <2>2, <2>3
    <3>. QED
      BY <1>4, <2>1, <3>1, <3>2
  <2>4. CASE b = s
    <3>1. ~\E c \in Unequal(l, r) : c < s /\ \A t \in Unequal(l, r) : c <= t
      <4>1. ASSUME NEW c \in Unequal(l, r), c < s PROVE FALSE
        <5>1. s <= c /\ c \in Nat
          BY <1>1, <2>1, <2>4, <4>1
        <5>. QED
          BY <2>2, <4>1, <5>1
      <4>. QED
        BY <4>1
    <3>. QED
      BY <1>3, <1>4, <1>6, <2>1, <2>2, <2>4, <3>1
  <2>. QED
    BY <2>2, <2>3, <2>4
<1>. QED
  BY <1>5, <1>6

\* The boundary of a report is the least stage the two runs differ on.
LEMMA BoundaryOfComparison ==
  ASSUME NEW l, NEW r
  PROVE  /\ Unequal(l, r) = {} => FirstDivergence(CompareRuns(l, r)) = NoStage
         /\ Unequal(l, r) # {} =>
              /\ FirstDivergence(CompareRuns(l, r)) \in Unequal(l, r)
              /\ \A s \in Unequal(l, r) : FirstDivergence(CompareRuns(l, r)) <= s
<1>1. Unequal(l, r) \subseteq Stages /\ Stages \subseteq Nat
  BY NumStagesAssumption DEF Unequal, Stages
<1>2. CASE Unequal(l, r) = {}
  BY <1>2, DivergedStage DEF FirstDivergence
<1>3. CASE Unequal(l, r) # {}
  <2>1. PICK b \in Unequal(l, r) : \A t \in Unequal(l, r) : b <= t
    BY <1>1, <1>3, LeastStage
  <2>2. ASSUME NEW s \in Stages
        PROVE  CompareRuns(l, r).verdicts[s] = "DIVERGED" <=> s = b
    <3>1. (s \in Unequal(l, r) /\ \A t \in Unequal(l, r) : s <= t) <=> s = b
      <4>1. ASSUME s \in Unequal(l, r), \A t \in Unequal(l, r) : s <= t PROVE s = b
        <5>1. s <= b /\ b <= s /\ s \in Nat /\ b \in Nat
          BY <1>1, <2>1, <4>1
        <5>. QED
          BY <5>1
      <4>. QED
        BY <2>1, <4>1
    <3>. QED
      BY <3>1, DivergedStage
  <2>3. FirstDivergence(CompareRuns(l, r)) = b
    BY <1>1, <2>1, <2>2 DEF FirstDivergence
  <2>. QED
    BY <1>3, <2>1, <2>3
<1>. QED
  BY <1>2, <1>3

\* A report among the converged is one whose runs differ on no stage.
LEMMA NoBoundary ==
  ASSUME NEW l, NEW r
  PROVE  /\ FirstDivergence(CompareRuns(l, r)) = NoStage <=> Unequal(l, r) = {}
         /\ FirstDivergence(CompareRuns(l, r)) \in Stages \cup {NoStage}
<1>1. Unequal(l, r) \subseteq Stages /\ NoStage \notin Stages
  BY NumStagesAssumption DEF Unequal, Stages, NoStage
<1>. QED
  BY <1>1, BoundaryOfComparison

-----------------------------------------------------------------------------
(* Type correctness, and what the reports are.                             *)

LEMMA ComparedIsReport ==
  ASSUME Listed, NEW i \in DOMAIN leftRuns
  PROVE  Compared(i) \in Reports
<1>1. leftRuns[i].caseId \in CaseIds
  BY DEF Listed
<1>2. /\ Compared(i) = [ caseId   |-> Compared(i).caseId,
                         verdicts |-> Compared(i).verdicts ]
      /\ Compared(i).caseId = leftRuns[i].caseId
  BY DEF Compared, CompareRuns
<1>3. Compared(i).verdicts \in [Stages -> Verdicts]
  BY CompareRunsType DEF Compared
<1>. QED
  BY <1>1, <1>2, <1>3 DEF Reports

LEMMA SummaryType ==
  ASSUME NEW rs \in Seq(Reports)
  PROVE  /\ ConvergedCases(rs) \subseteq DOMAIN rs
         /\ ByStage(rs) \in [Stages -> SUBSET DOMAIN rs]
         /\ EarliestBoundary(rs) \in Stages \cup {NoStage}
         /\ EarliestBoundary(rs) # NoStage =>
              /\ ByStage(rs)[EarliestBoundary(rs)] # {}
              /\ \A t \in Stages : ByStage(rs)[t] # {} => EarliestBoundary(rs) <= t
         /\ EarliestBoundary(rs) = NoStage => \A s \in Stages : ByStage(rs)[s] = {}
<1>1. ConvergedCases(rs) \subseteq DOMAIN rs /\ ByStage(rs) \in [Stages -> SUBSET DOMAIN rs]
  BY DEF ConvergedCases, ByStage
<1>2. NoStage \notin Stages
  BY NumStagesAssumption DEF Stages, NoStage
<1>3. CASE \E s \in Stages : ByStage(rs)[s] # {}
  <2>. DEFINE Used == {s \in Stages : ByStage(rs)[s] # {}}
  <2>1. \E s \in Used : \A t \in Used : s <= t
    BY <1>3, LeastStage
  <2>2. \E s \in Stages : ByStage(rs)[s] # {} /\ \A t \in Stages : ByStage(rs)[t] # {} => s <= t
    BY <2>1
  <2>3. /\ EarliestBoundary(rs) \in Stages
        /\ ByStage(rs)[EarliestBoundary(rs)] # {}
        /\ \A t \in Stages : ByStage(rs)[t] # {} => EarliestBoundary(rs) <= t
    BY <1>3, <2>2 DEF EarliestBoundary
  <2>. QED
    BY <1>1, <1>2, <2>3
<1>4. CASE ~\E s \in Stages : ByStage(rs)[s] # {}
  BY <1>1, <1>2, <1>4 DEF EarliestBoundary
<1>. QED
  BY <1>3, <1>4

LEMMA InitInvariant == Init => IInv
<1>. SUFFICES ASSUME Init PROVE IInv
  OBVIOUS
<1>1. PICK survey \in Surveys : leftRuns = survey.left /\ rightRuns = survey.right
  BY DEF Init
<1>2. Listed
  BY <1>1, SurveysAssumption DEF Listed
<1>3. taken = 0 /\ reports = <<>> /\ summary = Nothing
  BY DEF Init
<1>. QED
  BY <1>2, <1>3 DEF IInv, TypeOK, Listed, Sound, Complete, Grouped

LEMMA NextInvariant == IInv /\ [Next]_vars => IInv'
<1>. SUFFICES ASSUME IInv, [Next]_vars PROVE IInv'
  OBVIOUS
<1>0. TypeOK /\ Listed /\ Sound /\ Complete /\ Grouped
  BY DEF IInv
<1>5. Len(leftRuns) \in Nat
  BY <1>0 DEF Listed
<1>6. taken \in Nat /\ taken <= Len(leftRuns)
  <2>1. taken \in 0..Len(leftRuns)
    BY <1>0 DEF TypeOK
  <2>. QED
    BY <1>5, <2>1
<1>7. reports \in Seq(Reports) /\ Len(reports) <= taken
  BY <1>0 DEF TypeOK
<1>8. Len(reports) \in Nat /\ DOMAIN reports = 1..Len(reports)
  BY <1>7
<1>9. taken < Len(leftRuns) => summary = Nothing
  BY <1>0, <1>5, <1>6 DEF Grouped
<1>1. CASE Locate
  <2>. DEFINE report == Compared(taken + 1)
  <2>1. /\ taken' = taken + 1 /\ taken < Len(leftRuns) /\ Matched(taken + 1)
        /\ reports' = Append(reports, report)
        /\ leftRuns' = leftRuns /\ rightRuns' = rightRuns /\ summary' = summary
    BY <1>1 DEF Locate
  <2>2. report \in Reports
    <3>1. taken + 1 \in 1..Len(leftRuns)
      BY <1>5, <1>6, <2>1
    <3>2. taken + 1 \in DOMAIN leftRuns
      BY <1>0, <3>1 DEF Listed
    <3>. QED
      BY <1>0, <3>2, ComparedIsReport
  <2>. HIDE DEF report
  <2>3. /\ reports' \in Seq(Reports) /\ Len(reports') = Len(reports) + 1
        /\ DOMAIN reports' = 1..(Len(reports) + 1)
        /\ reports'[Len(reports) + 1] = report
        /\ \A k \in 1..Len(reports) : reports'[k] = reports[k]
    <3>1. reports' \in Seq(Reports) /\ Len(reports') = Len(reports) + 1
      BY <1>7, <2>1, <2>2
    <3>2. \A k \in 1..(Len(reports) + 1) :
            reports'[k] = IF k <= Len(reports) THEN reports[k] ELSE report
      BY <1>7, <2>1, <2>2
    <3>. QED
      BY <1>8, <3>1, <3>2
  <2>4. \A i : (Matched(i))' <=> Matched(i)
    BY <2>1 DEF Matched, OfItsCase
  <2>5. \A i : (Compared(i))' = Compared(i)
    BY <2>1 DEF Compared, Counterpart, OfItsCase
  <2>6. summary = Nothing /\ summary' = Nothing
    BY <1>9, <2>1 DEF Nothing
  <2>7. TypeOK'
    <3>1. taken' \in 0..Len(leftRuns') /\ Len(reports') <= taken'
      BY <1>5, <1>6, <1>7, <1>8, <2>1, <2>3
    <3>. QED
      BY <2>3, <2>6, <3>1 DEF TypeOK, Nothing
  <2>8. Listed'
    BY <1>0, <2>1 DEF Listed
  <2>9. Sound'
    <3>. SUFFICES ASSUME NEW k \in 1..(Len(reports) + 1)
                  PROVE  \E i \in 1..(taken + 1) : Matched(i) /\ reports'[k] = Compared(i)
      BY <2>1, <2>3, <2>4, <2>5 DEF Sound
    <3>1. CASE k = Len(reports) + 1
      <4>1. taken + 1 \in 1..(taken + 1)
        BY <1>6
      <4>. QED
        BY <2>1, <2>3, <3>1, <4>1 DEF report
    <3>2. CASE k \in 1..Len(reports)
      <4>1. PICK i \in 1..taken : Matched(i) /\ reports[k] = Compared(i)
        BY <1>0, <1>8, <3>2 DEF Sound
      <4>2. i \in 1..(taken + 1)
        BY <1>6
      <4>. QED
        BY <2>3, <3>2, <4>1, <4>2
    <3>. QED
      BY <1>8, <3>1, <3>2
  <2>10. Complete'
    <3>. SUFFICES ASSUME NEW i \in 1..(taken + 1), Matched(i)
                  PROVE  \E k \in 1..(Len(reports) + 1) : reports'[k] = Compared(i)
      BY <2>1, <2>3, <2>4, <2>5 DEF Complete
    <3>1. CASE i = taken + 1
      <4>1. Len(reports) + 1 \in 1..(Len(reports) + 1)
        BY <1>8
      <4>. QED
        BY <2>3, <3>1, <4>1 DEF report
    <3>2. CASE i \in 1..taken
      <4>1. PICK k \in 1..Len(reports) : reports[k] = Compared(i)
        BY <1>0, <1>8, <3>2 DEF Complete
      <4>2. k \in 1..(Len(reports) + 1)
        BY <1>8
      <4>. QED
        BY <2>3, <4>1, <4>2
    <3>. QED
      BY <1>6, <3>1, <3>2
  <2>11. Grouped'
    BY <2>6 DEF Grouped
  <2>. QED
    BY <2>7, <2>8, <2>9, <2>10, <2>11 DEF IInv
<1>2. CASE Skip
  <2>1. /\ taken' = taken + 1 /\ taken < Len(leftRuns) /\ ~Matched(taken + 1)
        /\ leftRuns' = leftRuns /\ rightRuns' = rightRuns
        /\ reports' = reports /\ summary' = summary
    BY <1>2 DEF Skip
  <2>2. \A i : (Matched(i))' <=> Matched(i)
    BY <2>1 DEF Matched, OfItsCase
  <2>3. \A i : (Compared(i))' = Compared(i)
    BY <2>1 DEF Compared, Counterpart, OfItsCase
  <2>4. summary = Nothing /\ summary' = Nothing
    BY <1>9, <2>1 DEF Nothing
  <2>5. TypeOK' /\ Listed'
    <3>1. taken' \in 0..Len(leftRuns') /\ Len(reports') <= taken'
      BY <1>5, <1>6, <1>7, <1>8, <2>1
    <3>2. reports' \in Seq(Reports)
      BY <1>7, <2>1
    <3>. QED
      BY <1>0, <2>1, <2>4, <3>1, <3>2 DEF TypeOK, Listed, Nothing
  <2>6. Sound'
    <3>1. 1..taken \subseteq 1..taken'
      BY <1>6, <2>1
    <3>2. \A k \in DOMAIN reports : \E i \in 1..taken : Matched(i) /\ reports[k] = Compared(i)
      BY <1>0 DEF Sound
    <3>. QED
      BY <2>1, <2>2, <2>3, <3>1, <3>2 DEF Sound
  <2>7. Complete'
    <3>. SUFFICES ASSUME NEW i \in 1..(taken + 1), Matched(i)
                  PROVE  \E k \in DOMAIN reports : reports[k] = Compared(i)
      BY <2>1, <2>2, <2>3 DEF Complete
    <3>1. i # taken + 1
      BY <2>1
    <3>2. i \in 1..taken
      BY <1>6, <3>1
    <3>. QED
      BY <1>0, <3>2 DEF Complete
  <2>8. Grouped'
    BY <2>4 DEF Grouped
  <2>. QED
    BY <2>5, <2>6, <2>7, <2>8 DEF IInv
<1>3. CASE Summarize
  <2>1. /\ taken = Len(leftRuns) /\ taken' = taken
        /\ leftRuns' = leftRuns /\ rightRuns' = rightRuns /\ reports' = reports
        /\ summary' = [ converged |-> ConvergedCases(reports),
                        byStage   |-> ByStage(reports),
                        earliest  |-> EarliestBoundary(reports) ]
    BY <1>3 DEF Summarize
  <2>2. \A i : (Matched(i))' <=> Matched(i)
    BY <2>1 DEF Matched, OfItsCase
  <2>3. \A i : (Compared(i))' = Compared(i)
    BY <2>1 DEF Compared, Counterpart, OfItsCase
  <2>4. /\ summary'.converged = ConvergedCases(reports)
        /\ summary'.byStage = ByStage(reports)
        /\ summary'.earliest = EarliestBoundary(reports)
    BY <2>1
  <2>5. TypeOK'
    BY <1>0, <2>1, <2>4, SummaryType DEF TypeOK
  <2>6. Listed' /\ Sound' /\ Complete'
    BY <1>0, <2>1, <2>2, <2>3 DEF Listed, Sound, Complete
  <2>7. Grouped'
    BY <2>1 DEF Grouped
  <2>. QED
    BY <2>5, <2>6, <2>7 DEF IInv
<1>4. CASE UNCHANGED vars
  <2>1. /\ taken' = taken /\ leftRuns' = leftRuns /\ rightRuns' = rightRuns
        /\ reports' = reports /\ summary' = summary
    BY <1>4 DEF vars
  <2>2. \A i : (Matched(i))' <=> Matched(i)
    BY <2>1 DEF Matched, OfItsCase
  <2>3. \A i : (Compared(i))' = Compared(i)
    BY <2>1 DEF Compared, Counterpart, OfItsCase
  <2>. QED
    BY <1>0, <2>1, <2>2, <2>3 DEF IInv, TypeOK, Listed, Sound, Complete, Grouped
<1>. QED
  BY <1>1, <1>2, <1>3, <1>4 DEF Next

LEMMA Invariance == Spec => []IInv
  BY InitInvariant, NextInvariant, PTL DEF Spec

\* Type correctness: no report is written twice, none without a run of its own,
\* and the summary's groups hold reports there are.
THEOREM TypeCorrect == Spec => []TypeOK
<1>1. IInv => TypeOK
  BY DEF IInv
<1>. QED
  BY <1>1, Invariance, PTL

-----------------------------------------------------------------------------
(* Properties.                                                             *)

\* Every report is among the converged or in the list of exactly one stage.
THEOREM NoReportLost == Spec => []EveryReportCounted
<1>1. IInv => EveryReportCounted
  <2>. SUFFICES ASSUME IInv PROVE EveryReportCounted
    OBVIOUS
  <2>. SUFFICES ASSUME summary # Nothing, NEW k \in DOMAIN reports
                PROVE  /\ (k \in summary.converged)
                            <=> (\A s \in Stages : k \notin summary.byStage[s])
                       /\ \A s, t \in Stages :
                            k \in summary.byStage[s] \cap summary.byStage[t] => s = t
    BY DEF EveryReportCounted
  <2>1. /\ summary.converged = ConvergedCases(reports)
        /\ summary.byStage = ByStage(reports)
    BY DEF IInv, Grouped
  <2>2. FirstDivergence(reports[k]) \in Stages \cup {NoStage}
    <3>1. PICK i \in 1..taken : reports[k] = Compared(i)
      BY DEF IInv, Sound
    <3>. QED
      BY <3>1, NoBoundary DEF Compared
  <2>3. NoStage \notin Stages
    BY NumStagesAssumption DEF Stages, NoStage
  <2>. QED
    BY <2>1, <2>2, <2>3 DEF ConvergedCases, ByStage
<1>. QED
  BY <1>1, Invariance, PTL

\* A difference between two runs of one case leaves a report that has the least
\* stage they differ on as its boundary.
THEOREM NothingHidden == Spec => []DivergencesPreserved
<1>1. IInv => DivergencesPreserved
  <2>. SUFFICES ASSUME IInv PROVE DivergencesPreserved
    OBVIOUS
  <2>. SUFFICES ASSUME NEW i \in 1..taken, NEW j \in DOMAIN rightRuns,
                       IsLastRunOf(leftRuns[i].caseId, j),
                       Unequal(leftRuns[i], rightRuns[j]) # {}
                PROVE  \E k \in DOMAIN reports :
                         /\ reports[k].caseId = leftRuns[i].caseId
                         /\ FirstDivergence(reports[k]) \in Unequal(leftRuns[i], rightRuns[j])
                         /\ \A s \in Unequal(leftRuns[i], rightRuns[j]) :
                              FirstDivergence(reports[k]) <= s
    BY DEF DivergencesPreserved
  <2>1. (CHOOSE n \in OfItsCase(i) : \A m \in OfItsCase(i) : m <= n) = j
    <3>1. OfItsCase(i) \subseteq Nat
      BY DEF IInv, Listed, OfItsCase
    <3>2. j \in OfItsCase(i) /\ \A m \in OfItsCase(i) : m <= j
      BY DEF IsLastRunOf, OfItsCase
    <3>. HIDE DEF OfItsCase
    <3>3. \A n \in OfItsCase(i) : (\A m \in OfItsCase(i) : m <= n) => n = j
      BY <3>1, <3>2
    <3>. QED
      BY <3>2, <3>3
  <2>2. Matched(i) /\ Counterpart(i) = rightRuns[j]
    BY <2>1 DEF Matched, Counterpart, IsLastRunOf, OfItsCase
  <2>3. PICK k \in DOMAIN reports : reports[k] = Compared(i)
    BY <2>2 DEF IInv, Complete
  <2>4. reports[k] = CompareRuns(leftRuns[i], rightRuns[j])
    BY <2>2, <2>3 DEF Compared
  <2>5. reports[k].caseId = leftRuns[i].caseId
    BY <2>4 DEF CompareRuns
  <2>. QED
    BY <2>4, <2>5, BoundaryOfComparison
<1>. QED
  BY <1>1, Invariance, PTL

\* The earliest boundary is a stage two compared runs differ on, and the least.
THEOREM EarliestIsTheRoot == Spec => []EarliestIsRoot
<1>1. IInv => EarliestIsRoot
  <2>. SUFFICES ASSUME IInv PROVE EarliestIsRoot
    OBVIOUS
  <2>. SUFFICES ASSUME summary # Nothing, summary.earliest # NoStage
                PROVE  /\ \E i \in DOMAIN leftRuns :
                            /\ Matched(i)
                            /\ summary.earliest \in Unequal(leftRuns[i], Counterpart(i))
                       /\ \A i \in DOMAIN leftRuns : Matched(i) =>
                            \A s \in Unequal(leftRuns[i], Counterpart(i)) :
                              summary.earliest <= s
    BY DEF EarliestIsRoot
  <2>. DEFINE earliest == EarliestBoundary(reports)
  <2>1. summary.earliest = earliest /\ taken = Len(leftRuns)
    BY DEF IInv, Grouped
  <2>2. DOMAIN leftRuns = 1..taken
    BY <2>1 DEF IInv, Listed
  <2>3. /\ ByStage(reports)[earliest] # {}
        /\ \A t \in Stages : ByStage(reports)[t] # {} => earliest <= t
        /\ earliest \in Stages
    BY <2>1, SummaryType DEF IInv, TypeOK
  <2>. HIDE DEF earliest
  <2>4. \E i \in DOMAIN leftRuns :
          Matched(i) /\ earliest \in Unequal(leftRuns[i], Counterpart(i))
    <3>1. PICK k \in DOMAIN reports : FirstDivergence(reports[k]) = earliest
      BY <2>3 DEF ByStage
    <3>2. PICK i \in 1..taken : Matched(i) /\ reports[k] = Compared(i)
      BY DEF IInv, Sound
    <3>3. earliest # NoStage
      BY <2>3, NumStagesAssumption DEF Stages, NoStage
    <3>. QED
      BY <2>2, <3>1, <3>2, <3>3, BoundaryOfComparison DEF Compared
  <2>5. ASSUME NEW i \in DOMAIN leftRuns, Matched(i),
               NEW s \in Unequal(leftRuns[i], Counterpart(i))
        PROVE  earliest <= s
    <3>1. PICK k \in DOMAIN reports : reports[k] = Compared(i)
      BY <2>2, <2>5 DEF IInv, Complete
    <3>. DEFINE b == FirstDivergence(reports[k])
    <3>2. b \in Unequal(leftRuns[i], Counterpart(i)) /\ b <= s
      BY <3>1, BoundaryOfComparison DEF Compared
    <3>3. b \in Stages /\ s \in Stages /\ Stages \subseteq Nat
      BY <3>2, NumStagesAssumption DEF Unequal, Stages
    <3>4. ByStage(reports)[b] # {}
      BY <3>3 DEF ByStage
    <3>5. earliest <= b
      BY <2>3, <3>3, <3>4
    <3>. HIDE DEF b
    <3>. QED
      BY <2>3, <3>2, <3>3, <3>5
  <2>. QED
    BY <2>1, <2>4, <2>5
<1>. QED
  BY <1>1, Invariance, PTL

\* A stage is EQUAL in the report of two runs that differ nowhere exactly if
\* both produced it.
LEMMA EqualStage ==
  ASSUME NEW l, NEW r, Unequal(l, r) = {}, NEW s \in Stages
  PROVE  CompareRuns(l, r).verdicts[s] = "EQUAL" <=> s \notin Missing(l, r)
<1>1. CompareRuns(l, r).verdicts[s] = Locator(l, r)!Verdict(s)
  BY DEF CompareRuns, Locator!Promised, Locator!Stages, Stages
<1>2. ~Locator(l, r)!Beyond(s)
  BY DEF Locator!Beyond, Locator!IsBoundary
<1>. QED
  BY <1>1, <1>2 DEF Locator!Verdict

\* A report is among the converged exactly if its two runs differ on no stage
\* both produced, and DivergenceReport.converged denies it exactly if there is
\* no such stage.
THEOREM ConvergedWithoutADifference == Spec => []ConvergedIsNoDifference
<1>1. IInv => ConvergedIsNoDifference
  <2>. SUFFICES ASSUME IInv, summary # Nothing, NEW i \in DOMAIN leftRuns, Matched(i)
                PROVE  \E k \in DOMAIN reports :
                         /\ reports[k] = Compared(i)
                         /\ (k \in summary.converged)
                              <=> (Unequal(leftRuns[i], Counterpart(i)) = {})
                         /\ (k \in summary.converged /\ ~Converged(reports[k])) <=>
                              (Missing(leftRuns[i], Counterpart(i)) = Stages)
    BY DEF ConvergedIsNoDifference
  <2>. DEFINE l == leftRuns[i]
              r == Counterpart(i)
  <2>1. summary.converged = ConvergedCases(reports) /\ taken = Len(leftRuns)
    BY DEF IInv, Grouped
  <2>2. DOMAIN leftRuns = 1..taken
    BY <2>1 DEF IInv, Listed
  <2>3. PICK k \in DOMAIN reports : reports[k] = Compared(i)
    BY <2>2 DEF IInv, Complete
  <2>4. reports[k] = CompareRuns(l, r)
    BY <2>3 DEF Compared
  <2>. HIDE DEF l, r
  <2>5. FirstDivergence(reports[k]) = NoStage <=> Unequal(l, r) = {}
    BY <2>4, NoBoundary
  <2>6. k \in summary.converged <=> Unequal(l, r) = {}
    BY <2>1, <2>5 DEF ConvergedCases
  <2>7. Missing(l, r) \subseteq Stages /\ (Missing(l, r) = Stages => Unequal(l, r) = {})
    BY DEF Missing, Unequal
  <2>8. CASE Unequal(l, r) = {}
    <3>1. Converged(reports[k]) <=> \E s \in Stages : s \notin Missing(l, r)
      BY <2>4, <2>5, <2>8, EqualStage DEF Converged
    <3>. QED
      BY <2>3, <2>6, <2>7, <2>8, <3>1 DEF l, r
  <2>9. CASE Unequal(l, r) # {}
    BY <2>3, <2>6, <2>7, <2>9 DEF l, r
  <2>. QED
    BY <2>8, <2>9
<1>. QED
  BY <1>1, Invariance, PTL

-----------------------------------------------------------------------------
(* Runs of one case under two rulesets.                                    *)

\* The first two stages of a run made without a receipt, and no others.
LEMMA RunUnder ==
  ASSUME NEW rules \in Rulesets, NEW i \in DOMAIN Cases
  PROVE  LET emitted == EmitUnder(rules, Cases[i].value)
             run == RunsUnder[rules][i]
         IN  /\ run.caseId = Cases[i].id
             /\ run.values[1] = emitted /\ run.values[1] # Absent
             /\ run.values[2] = (IF emitted.node = "refused" THEN emitted ELSE DigestUnder(rules, emitted))
             /\ run.values[2] # Absent
             /\ \A s \in Stages : s > 2 => run.values[s] = Absent
<1> DEFINE emitted == EmitUnder(rules, Cases[i].value)
           digest == DigestUnder(rules, emitted)
           canon == CanonOf(rules, Cases[i].value)
           second == IF emitted.node = "refused" THEN emitted ELSE digest
           run == LR!Local(Cases[i].id, canon, Nil, Nil)
<1>1. emitted # Absent /\ (emitted.node # "refused" => digest # Absent)
  BY EmittedAssumption
<1>2. RunsUnder[rules][i] = run
  BY DEF RunsUnder
<1>3. LR!CanonicalValues(canon) = <<emitted, second>>
  BY DEF CanonOf, LR!CanonicalValues
<1>4. LR!ReceiptValues(Nil, Nil) = <<Absent, Absent, Absent, Absent>>
  BY DEF LR!ReceiptValues
<1> HIDE DEF emitted, second, canon
<1>5. run = [caseId |-> Cases[i].id, values |-> <<emitted, second, Absent, Absent, Absent, Absent>>]
  BY <1>3, <1>4 DEF LR!Local
<1>6. Stages = 1..6
  BY StagesAssumption DEF Stages
<1> DEFINE values == <<emitted, second, Absent, Absent, Absent, Absent>>
<1>7. /\ values[1] = emitted /\ values[2] = second
      /\ \A s \in 1..6 : s > 2 => values[s] = Absent
  OBVIOUS
<1> HIDE DEF values
<1>8. run.caseId = Cases[i].id /\ run.values = values
  BY <1>5 DEF values
<1>9. second = (IF emitted.node = "refused" THEN emitted ELSE DigestUnder(rules, emitted))
  BY DEF second
<1> QED
  BY <1>1, <1>2, <1>6, <1>7, <1>8, <1>9 DEF emitted

\* The report of two such runs.
LEMMA ReportUnder ==
  ASSUME NEW l \in Rulesets, NEW r \in Rulesets, NEW i \in DOMAIN Cases
  PROVE  LET a == RunsUnder[l][i].values
             b == RunsUnder[r][i].values
             report == CompareRuns(RunsUnder[l][i], RunsUnder[r][i])
         IN  /\ report.caseId = Cases[i].id
             /\ a[1] # b[1] => FirstDivergence(report) = 1
             /\ a[1] = b[1] /\ a[2] # b[2] => FirstDivergence(report) = 2
             /\ a[1] = b[1] /\ a[2] = b[2] => FirstDivergence(report) = NoStage /\ Converged(report)
<1> DEFINE x == RunsUnder[l][i]
           y == RunsUnder[r][i]
           report == CompareRuns(x, y)
<1>1. /\ x.caseId = Cases[i].id
      /\ x.values[1] # Absent /\ x.values[2] # Absent
      /\ \A s \in Stages : s > 2 => x.values[s] = Absent
  BY RunUnder
<1>2. /\ y.values[1] # Absent /\ y.values[2] # Absent
      /\ \A s \in Stages : s > 2 => y.values[s] = Absent
  BY RunUnder
<1> HIDE DEF x, y
<1>3. Stages = 1..6 /\ PredicateStage > 2
  BY StagesAssumption DEF Stages
<1>4. 1 # PredicateStage /\ 2 # PredicateStage
  <2>1. ~(1 > 2) /\ ~(2 > 2)
    OBVIOUS
  <2> QED
    BY <1>3, <2>1
<1>5. Missing(x, y) = {3, 4, 5, 6}
  <2>1. \A s \in 1..6 : s = 1 \/ s = 2 \/ (s > 2 /\ s \in {3, 4, 5, 6})
    OBVIOUS
  <2>2. \A s \in {3, 4, 5, 6} : s \in 1..6 /\ s > 2 /\ s # 1 /\ s # 2
    OBVIOUS
  <2> QED
    BY <1>1, <1>2, <1>3, <2>1, <2>2 DEF Missing, Has
<1>6. Unequal(x, y) = {s \in {1, 2} : x.values[s] # y.values[s]}
  <2>1. Stages \ Missing(x, y) = {1, 2}
    BY <1>3, <1>5
  <2>2. \A s \in {1, 2} : Equal(s, x.values[s], y.values[s]) <=> x.values[s] = y.values[s]
    BY <1>4 DEF Equal
  <2> QED
    BY <2>1, <2>2 DEF Unequal
<1>7. /\ Unequal(x, y) = {} => FirstDivergence(report) = NoStage
      /\ Unequal(x, y) # {} =>
           /\ FirstDivergence(report) \in Unequal(x, y)
           /\ \A s \in Unequal(x, y) : FirstDivergence(report) <= s
  BY BoundaryOfComparison
<1>8. report.caseId = Cases[i].id
  BY <1>1 DEF CompareRuns
<1> HIDE DEF report
<1>9. ASSUME x.values[1] # y.values[1] PROVE FirstDivergence(report) = 1
  <2>1. 1 \in Unequal(x, y) /\ Unequal(x, y) \subseteq {1, 2}
    BY <1>6, <1>9
  <2>2. FirstDivergence(report) \in {1, 2} /\ FirstDivergence(report) <= 1
    BY <1>7, <2>1
  <2> QED
    BY <2>2
<1>10. ASSUME x.values[1] = y.values[1], x.values[2] # y.values[2] PROVE FirstDivergence(report) = 2
  BY <1>6, <1>7, <1>10
<1>11. ASSUME x.values[1] = y.values[1], x.values[2] = y.values[2]
       PROVE  FirstDivergence(report) = NoStage /\ Converged(report)
  <2>1. Unequal(x, y) = {} /\ 1 \in Stages /\ 1 \notin Missing(x, y)
    BY <1>3, <1>5, <1>6, <1>11
  <2>2. report.verdicts[1] = "EQUAL"
    BY <2>1, EqualStage DEF report
  <2> QED
    BY <1>7, <2>1, <2>2 DEF Converged
<1> QED
  BY <1>8, <1>9, <1>10, <1>11 DEF x, y, report

\* What both tools tell of a case.
LEMMA ToolsAgreeOnCase ==
  ASSUME NEW l \in Rulesets, NEW r \in Rulesets, NEW i \in DOMAIN Cases
  PROVE  LET outcome == Runner(l, r)!Outcome(l, r, Cases[i])
             report == CompareRuns(RunsUnder[l][i], RunsUnder[r][i])
         IN  /\ report.caseId = outcome.case.id
             /\ outcome.status = "AGREE" => Converged(report)
             /\ outcome.status = "ONE_REFUSES" => FirstDivergence(report) = 1
             /\ outcome.status = "BOTH_REFUSE" =>
                  FirstDivergence(report) = IF outcome.left = outcome.right THEN NoStage ELSE 1
             /\ outcome.status = "DIVERGE" =>
                  FirstDivergence(report) = IF outcome.left = outcome.right THEN 2 ELSE 1
             /\ outcome.status \in {"AGREE", "ONE_REFUSES", "BOTH_REFUSE", "DIVERGE"}
<1> DEFINE a == EmitUnder(l, Cases[i].value)
           b == EmitUnder(r, Cases[i].value)
           da == Runner(l, r)!Digest(l, a)
           db == Runner(l, r)!Digest(r, b)
           outcome == Runner(l, r)!Outcome(l, r, Cases[i])
           report == CompareRuns(RunsUnder[l][i], RunsUnder[r][i])
           ra == a.node = "refused"
           rb == b.node = "refused"
           Agree == /\ report.caseId = outcome.case.id
                    /\ outcome.status = "AGREE" => Converged(report)
                    /\ outcome.status = "ONE_REFUSES" => FirstDivergence(report) = 1
                    /\ outcome.status = "BOTH_REFUSE" =>
                         FirstDivergence(report) = IF outcome.left = outcome.right THEN NoStage ELSE 1
                    /\ outcome.status = "DIVERGE" =>
                         FirstDivergence(report) = IF outcome.left = outcome.right THEN 2 ELSE 1
                    /\ outcome.status \in {"AGREE", "ONE_REFUSES", "BOTH_REFUSE", "DIVERGE"}
<1>1. /\ outcome.case = Cases[i] /\ outcome.left = a /\ outcome.right = b
      /\ outcome.status = Runner(l, r)!Status(a, b, da, db)
  BY DEF Runner!Outcome
<1>2. /\ da = IF ra THEN Nil ELSE DigestUnder(l, a)
      /\ db = IF rb THEN Nil ELSE DigestUnder(r, b)
  BY DEF Runner!Digest, Runner!Refused
<1>3. /\ ra /\ rb => outcome.status = "BOTH_REFUSE"
      /\ ~(ra <=> rb) => outcome.status = "ONE_REFUSES"
      /\ ~ra /\ ~rb /\ a = b /\ da = db => outcome.status = "AGREE"
      /\ ~ra /\ ~rb /\ ~(a = b /\ da = db) => outcome.status = "DIVERGE"
  BY <1>1 DEF Runner!Status, Runner!Refused
<1> DEFINE x1 == RunsUnder[l][i].values[1]
           x2 == RunsUnder[l][i].values[2]
           y1 == RunsUnder[r][i].values[1]
           y2 == RunsUnder[r][i].values[2]
<1>4. /\ x1 = a /\ x2 = IF ra THEN a ELSE DigestUnder(l, a)
      /\ y1 = b /\ y2 = IF rb THEN b ELSE DigestUnder(r, b)
  BY RunUnder
<1>5. /\ report.caseId = Cases[i].id
      /\ x1 # y1 => FirstDivergence(report) = 1
      /\ x1 = y1 /\ x2 # y2 => FirstDivergence(report) = 2
      /\ x1 = y1 /\ x2 = y2 => FirstDivergence(report) = NoStage /\ Converged(report)
  BY ReportUnder
<1>6. ~(ra <=> rb) => a # b
  OBVIOUS
<1> HIDE DEF outcome, report, a, b, da, db, x1, x2, y1, y2
<1>7. ASSUME ra, rb PROVE Agree
  <2>1. outcome.status = "BOTH_REFUSE"
    BY <1>3, <1>7
  <2>2. x1 = a /\ x2 = a /\ y1 = b /\ y2 = b
    BY <1>4, <1>7
  <2>3. FirstDivergence(report) = IF a = b THEN NoStage ELSE 1
    BY <1>5, <2>2
  <2> QED
    BY <1>1, <1>5, <2>1, <2>3
<1>8. ASSUME ~(ra <=> rb) PROVE Agree
  <2>1. outcome.status = "ONE_REFUSES"
    BY <1>3, <1>8
  <2>2. FirstDivergence(report) = 1
    BY <1>4, <1>6, <1>8, <1>5
  <2> QED
    BY <1>1, <1>5, <2>1, <2>2
<1>9. ASSUME ~ra, ~rb PROVE Agree
  <2>1. x1 = a /\ x2 = da /\ y1 = b /\ y2 = db
    BY <1>2, <1>4, <1>9
  <2>2. CASE a = b /\ da = db
    <3>1. outcome.status = "AGREE" /\ Converged(report)
      BY <1>3, <1>9, <1>5, <2>1, <2>2
    <3> QED
      BY <1>1, <1>5, <3>1
  <2>3. CASE ~(a = b /\ da = db)
    <3>1. outcome.status = "DIVERGE"
      BY <1>3, <1>9, <2>3
    <3>2. FirstDivergence(report) = IF a = b THEN 2 ELSE 1
      BY <1>5, <2>1, <2>3
    <3> QED
      BY <1>1, <1>5, <3>1, <3>2
  <2> QED
    BY <2>2, <2>3
<1> QED
  BY <1>7, <1>8, <1>9 DEF outcome, report

\* Over the runs of two rulesets every run is compared, with that of its case.
InStep ==
  \A l, r \in Rulesets :
    (leftRuns = RunsUnder[l] /\ rightRuns = RunsUnder[r]) =>
      /\ Len(reports) = taken
      /\ \A i \in 1..taken : reports[i] = CompareRuns(RunsUnder[l][i], RunsUnder[r][i])

LEMMA CounterpartUnder ==
  ASSUME NEW l \in Rulesets, NEW r \in Rulesets, leftRuns = RunsUnder[l], rightRuns = RunsUnder[r],
         NEW i \in DOMAIN Cases
  PROVE  Matched(i) /\ Compared(i) = CompareRuns(RunsUnder[l][i], RunsUnder[r][i])
<1>1. DOMAIN rightRuns = DOMAIN Cases
  BY DEF RunsUnder
<1>2. \A j \in DOMAIN Cases : leftRuns[j].caseId = Cases[j].id /\ rightRuns[j].caseId = Cases[j].id
  BY RunUnder
<1>3. OfItsCase(i) = {i}
  BY <1>1, <1>2, CasesAssumption DEF OfItsCase
<1>4. i <= i
  BY CasesAssumption
<1>5. Counterpart(i) = rightRuns[i]
  BY <1>3, <1>4 DEF Counterpart
<1> QED
  BY <1>3, <1>5 DEF Matched, Compared

LEMMA RunsInStep == Spec => []InStep
<1>1. Init => InStep
  <2> SUFFICES ASSUME Init PROVE InStep
    OBVIOUS
  <2>1. taken = 0 /\ Len(reports) = 0
    BY DEF Init
  <2> QED
    BY <2>1 DEF InStep
<1>2. IInv /\ InStep /\ [Next]_vars => InStep'
  <2> SUFFICES ASSUME IInv, InStep, [Next]_vars,
                      NEW l \in Rulesets, NEW r \in Rulesets,
                      leftRuns' = RunsUnder[l], rightRuns' = RunsUnder[r]
               PROVE  /\ Len(reports') = taken'
                      /\ \A i \in 1..taken' :
                           reports'[i] = CompareRuns(RunsUnder[l][i], RunsUnder[r][i])
    BY DEF InStep
  <2>1. leftRuns' = leftRuns /\ rightRuns' = rightRuns
    BY DEF Next, Locate, Skip, Summarize, vars
  <2>2. /\ Len(reports) = taken
        /\ \A i \in 1..taken : reports[i] = CompareRuns(RunsUnder[l][i], RunsUnder[r][i])
    BY <2>1 DEF InStep
  <2>3. /\ taken \in Nat /\ taken <= Len(leftRuns) /\ Len(leftRuns) \in Nat
        /\ DOMAIN leftRuns = 1..Len(leftRuns) /\ reports \in Seq(Reports)
    <3>1. Len(leftRuns) \in Nat /\ DOMAIN leftRuns = 1..Len(leftRuns)
      BY DEF IInv, Listed
    <3>2. taken \in 0..Len(leftRuns) /\ reports \in Seq(Reports)
      BY DEF IInv, TypeOK
    <3> QED
      BY <3>1, <3>2
  <2>4. DOMAIN leftRuns = DOMAIN Cases
    BY <2>1 DEF RunsUnder
  <2>5. ASSUME taken < Len(leftRuns)
        PROVE  Matched(taken + 1)
                 /\ Compared(taken + 1) = CompareRuns(RunsUnder[l][taken + 1], RunsUnder[r][taken + 1])
    <3>1. taken + 1 \in DOMAIN Cases
      <4>1. taken + 1 \in 1..Len(leftRuns)
        BY <2>3, <2>5
      <4> QED
        BY <2>3, <2>4, <4>1
    <3> QED
      BY <2>1, <3>1, CounterpartUnder
  <2>6. CASE Locate
    <3>1. /\ taken' = taken + 1 /\ taken < Len(leftRuns)
          /\ reports' = Append(reports, Compared(taken + 1))
      BY <2>6 DEF Locate
    <3>2. /\ Len(reports') = taken + 1
          /\ \A i \in 1..taken : reports'[i] = reports[i]
          /\ reports'[taken + 1] = Compared(taken + 1)
      BY <2>2, <2>3, <3>1
    <3>3. \A i \in 1..(taken + 1) : i \in 1..taken \/ i = taken + 1
      BY <2>3
    <3> QED
      BY <2>2, <2>5, <3>1, <3>2, <3>3
  <2>7. CASE Skip
    BY <2>5, <2>7 DEF Skip
  <2>8. CASE Summarize \/ UNCHANGED vars
    BY <2>2, <2>8 DEF Summarize, vars
  <2> QED
    BY <2>6, <2>7, <2>8 DEF Next
<1> QED
  BY <1>1, <1>2, Invariance, PTL DEF Spec

\* Of whatever rulesets and cases: the locator's report of a case and the
\* differential runner's outcome tell the same (differ.py compare, divergence.py
\* run_from_local, locate_across_cases).
THEOREM ToolsTellTheSame == Spec => []ToolsAgree
<1>1. IInv /\ InStep => ToolsAgree
  <2> SUFFICES ASSUME IInv, InStep, NEW l \in Rulesets, NEW r \in Rulesets,
                      leftRuns = RunsUnder[l], rightRuns = RunsUnder[r], NEW i \in 1..taken
               PROVE  LET outcome == Runner(l, r)!Outcome(l, r, Cases[i])
                      IN  /\ reports[i].caseId = outcome.case.id
                          /\ CASE outcome.status = "AGREE" -> Converged(reports[i])
                               [] outcome.status = "ONE_REFUSES" -> FirstDivergence(reports[i]) = 1
                               [] outcome.status = "BOTH_REFUSE" ->
                                    FirstDivergence(reports[i])
                                      = IF outcome.left = outcome.right THEN NoStage ELSE 1
                               [] outcome.status = "DIVERGE" ->
                                    FirstDivergence(reports[i])
                                      = IF outcome.left = outcome.right THEN 2 ELSE 1
    BY DEF InStep, ToolsAgree
  <2>1. i \in DOMAIN Cases
    <3>1. DOMAIN leftRuns = 1..Len(leftRuns) /\ taken \in Nat /\ taken <= Len(leftRuns)
          /\ Len(leftRuns) \in Nat
      BY DEF IInv, TypeOK, Listed
    <3>2. i \in DOMAIN leftRuns
      BY <3>1
    <3>3. DOMAIN leftRuns = DOMAIN Cases
      BY DEF RunsUnder
    <3> QED
      BY <3>2, <3>3
  <2>2. reports[i] = CompareRuns(RunsUnder[l][i], RunsUnder[r][i])
    BY DEF InStep
  <2> DEFINE outcome == Runner(l, r)!Outcome(l, r, Cases[i])
             report == reports[i]
  <2>3. /\ report.caseId = outcome.case.id
        /\ outcome.status = "AGREE" => Converged(report)
        /\ outcome.status = "ONE_REFUSES" => FirstDivergence(report) = 1
        /\ outcome.status = "BOTH_REFUSE" =>
             FirstDivergence(report) = IF outcome.left = outcome.right THEN NoStage ELSE 1
        /\ outcome.status = "DIVERGE" =>
             FirstDivergence(report) = IF outcome.left = outcome.right THEN 2 ELSE 1
        /\ outcome.status \in {"AGREE", "ONE_REFUSES", "BOTH_REFUSE", "DIVERGE"}
    BY <2>1, <2>2, ToolsAgreeOnCase
  <2> HIDE DEF outcome
  <2>4. /\ report.caseId = outcome.case.id
        /\ CASE outcome.status = "AGREE" -> Converged(report)
             [] outcome.status = "ONE_REFUSES" -> FirstDivergence(report) = 1
             [] outcome.status = "BOTH_REFUSE" ->
                  FirstDivergence(report) = IF outcome.left = outcome.right THEN NoStage ELSE 1
             [] outcome.status = "DIVERGE" ->
                  FirstDivergence(report) = IF outcome.left = outcome.right THEN 2 ELSE 1
    BY <2>3
  <2> QED
    BY <2>4 DEF outcome
<1> QED
  BY <1>1, RunsInStep, Invariance, PTL
=============================================================================
