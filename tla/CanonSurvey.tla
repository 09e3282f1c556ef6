----------------------------- MODULE CanonSurvey -----------------------------
(***************************************************************************)
(* The two tools that compare canonicalizers, over one list of cases: the  *)
(* locator (Survey) over the runs run_from_local makes of what two         *)
(* rulesets do with the cases, and the differential runner (Differ).  What *)
(* a ruleset makes of a value is a parameter here, as in Differ.           *)
(***************************************************************************)
EXTENDS Survey

CONSTANTS Rulesets,           \* the rulesets compared
          Cases,              \* a sequence of cases, each with id and value
          EmitUnder(_, _),    \* Canonicalizer(ruleset).emit(value)
          DigestUnder(_, _)   \* the digest of what was emitted, under a ruleset

ASSUME StagesAssumption == NumStages = 6 /\ PredicateStage > 2

ASSUME CasesAssumption ==
  /\ DOMAIN Cases = 1..Len(Cases) /\ Len(Cases) \in Nat
  /\ \A i, j \in DOMAIN Cases : Cases[i].id = Cases[j].id => i = j

\* The mark of a missing stage is none of the values, and no case raises more
\* than a refusal: that would leave run_from_local.
ASSUME EmittedAssumption ==
  \A rules \in Rulesets : \A i \in DOMAIN Cases :
    LET emitted == EmitUnder(rules, Cases[i].value)
    IN  /\ emitted.node # "raised"
        /\ emitted # Absent
        /\ emitted.node # "refused" => DigestUnder(rules, emitted) # Absent

LR == INSTANCE LocalRun

\* canon.emit and canon.digest, as run_from_local calls them.
CanonOf(rules, value) ==
  LET emitted == EmitUnder(rules, value)
  IN  IF emitted.node = "refused"
      THEN [refused |-> TRUE, message |-> emitted]
      ELSE [refused |-> FALSE, bytes |-> emitted, digest |-> DigestUnder(rules, emitted)]

\* The runs made under each ruleset, without receipts.
RunsUnder ==
  [ rules \in Rulesets |->
      [i \in DOMAIN Cases |-> LR!Local(Cases[i].id, CanonOf(rules, Cases[i].value), Nil, Nil)] ]

Runner(l, r) == INSTANCE Differ WITH
  Comparisons <- {}, left <- l, right <- r, cases <- Cases, results <- <<>>, status <- "comparing"

-----------------------------------------------------------------------------
(* Properties.                                                             *)

\* The differential runner and the locator tell the same of every case, except
\* that two refusals are no divergence to the one, and diverge for the other if
\* their messages do; the locator calls canonical bytes that agree with digests
\* that do not a divergence of the digest (differ.py compare, divergence.py
\* run_from_local, locate_across_cases).
ToolsAgree ==
  \A l, r \in Rulesets :
    (leftRuns = RunsUnder[l] /\ rightRuns = RunsUnder[r]) =>
      /\ Len(reports) = taken
      /\ \A i \in 1..taken :
           LET outcome == Runner(l, r)!Outcome(l, r, Cases[i])
           IN  /\ reports[i].caseId = outcome.case.id
               /\ CASE outcome.status = "AGREE" -> Converged(reports[i])
                    [] outcome.status = "ONE_REFUSES" -> FirstDivergence(reports[i]) = 1
                    [] outcome.status = "BOTH_REFUSE" ->
                         FirstDivergence(reports[i]) = IF outcome.left = outcome.right THEN NoStage ELSE 1
                    [] outcome.status = "DIVERGE" ->
                         FirstDivergence(reports[i]) = IF outcome.left = outcome.right THEN 2 ELSE 1
=============================================================================
