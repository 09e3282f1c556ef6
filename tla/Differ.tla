------------------------------- MODULE Differ -------------------------------
(***************************************************************************)
(* The differential runner, canon/differ.py: two rulesets over a sequence  *)
(* of cases, one step of the specification per case.  What a ruleset makes *)
(* of a value is a parameter here, for the canonicalizer of Canon.         *)
(***************************************************************************)
EXTENDS Naturals, Sequences, FiniteSets

CONSTANTS Comparisons,        \* the arguments compare may be called with
          EmitUnder(_, _),    \* Canonicalizer(ruleset).emit(value)
          DigestUnder(_, _),  \* the digest of what was emitted, under a ruleset
          Nil                 \* Python's None

VARIABLES left, right,   \* the two rulesets
          cases,         \* the cases compared
          results,       \* the outcomes so far
          status         \* "comparing", "returned", or "raised"

vars == <<left, right, cases, results, status>>

-----------------------------------------------------------------------------
Refused(emitted) == emitted.node = "refused"
Raised(emitted) == emitted.node = "raised"

\* A refusal is rendered as its message and has no digest.
Digest(rules, emitted) == IF Refused(emitted) THEN Nil ELSE DigestUnder(rules, emitted)

Status(l, r, ldigest, rdigest) ==
  CASE Refused(l) /\ Refused(r) -> "BOTH_REFUSE"
    [] Refused(l) # Refused(r) -> "ONE_REFUSES"
    [] ~Refused(l) /\ ~Refused(r) /\ l = r /\ ldigest = rdigest -> "AGREE"
    [] OTHER -> "DIVERGE"

Outcome(lrules, rrules, case) ==
  LET l == EmitUnder(lrules, case.value)
      r == EmitUnder(rrules, case.value)
  IN  [ case        |-> case,
        left        |-> l,
        right       |-> r,
        leftDigest  |-> Digest(lrules, l),
        rightDigest |-> Digest(rrules, r),
        status      |-> Status(l, r, Digest(lrules, l), Digest(rrules, r)) ]

Diverged(outcome) == outcome.status \in {"DIVERGE", "ONE_REFUSES"}

-----------------------------------------------------------------------------
Init ==
  /\ \E c \in Comparisons : left = c.left /\ right = c.right /\ cases = c.cases
  /\ results = <<>>
  /\ status = "comparing"

Comparing == status = "comparing" /\ Len(results) < Len(cases)

NextCase == cases[Len(results) + 1]

NextOutcome == Outcome(left, right, NextCase)

Compare ==
  /\ Comparing
  /\ LET outcome == NextOutcome
     IN  /\ ~Raised(outcome.left) /\ ~Raised(outcome.right)
         /\ results' = Append(results, outcome)
  /\ UNCHANGED <<left, right, cases, status>>

\* An error that is no CanonicalizationError leaves compare: there are no results.
Raise ==
  /\ Comparing
  /\ LET outcome == NextOutcome IN Raised(outcome.left) \/ Raised(outcome.right)
  /\ status' = "raised"
  /\ results' = <<>>
  /\ UNCHANGED <<left, right, cases>>

Return ==
  /\ status = "comparing"
  /\ Len(results) = Len(cases)
  /\ status' = "returned"
  /\ UNCHANGED <<left, right, cases, results>>

Next == Compare \/ Raise \/ Return

Spec == Init /\ [][Next]_vars

\* compare is a loop in one thread.
FairSpec == Spec /\ WF_vars(Next)

-----------------------------------------------------------------------------
\* summarize: the number of outcomes per question and status.
Summary(question, verdict) ==
  Cardinality({i \in DOMAIN results :
                 results[i].case.question = question /\ results[i].status = verdict})
=============================================================================
