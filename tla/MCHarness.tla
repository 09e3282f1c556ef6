----------------------------- MODULE MCHarness -----------------------------
(***************************************************************************)
(* The harness on the eleven phase-1 cases against the mock substrates, on *)
(* a substrate that may fail or send what cannot be read at any            *)
(* submission, and on a few cases against a live substrate that answers    *)
(* what it likes.                                                          *)
(***************************************************************************)
EXTENDS Harness

P == INSTANCE Phase1

MCInvariants == {"I1", "I2", "I3", "I4", "I5", "I6", "I7", "I8"}
MCTemporal == {"I1", "I2"}
MCLineage == {"I2", "I4", "I7"}
MCControls == {"C01", "C02", "C03", "C04", "C05", "C23", "C24"}
TwelveHours == 12 * 3600

MCCases == P!Phase1Cases

\* The correct mock behind a connection that may break or spoil the receipt,
\* double and live: at a control, the case with two encodings, a violation, the
\* declared output and the two cases that need a substrate.
FlakyNames == {"flaky double", "flaky live"}
FlakyLive == {"flaky live"}
FlakyAt == {"C01", "C05", "C06", "C13", "C09", "C18"}

MCAdapters == P!Mocks \cup FlakyNames

\* Receipts that the verifier raises on.
Unreadable(answer) ==
  IF answer = Nil
  THEN {}
  ELSE {[answer EXCEPT !.inputDigest = Nil], [answer EXCEPT !.predicates = Nil]}

MockAnswers(name, submission) ==
  IF name \in FlakyNames
  THEN LET answer == P!MockSubmit("correct", submission.bytes, submission.declared) IN
       {answer} \cup IF submission.caseId \in FlakyAt
                    THEN {Nil, Exception} \cup Unreadable(answer)
                    ELSE {}
  ELSE {P!MockSubmit(name, submission.bytes, submission.declared)}

-----------------------------------------------------------------------------
\* The README's table of the signatures, from its columns, and the two mocks
\* it leaves out (counted over complete runs of the nine offline cases).
Signature ==
  [ name \in P!Mocks \ {"null"} |->
      CASE name = "correct"            -> <<9, 9, 4, 0, 3>>
        [] name = "per-execution only" -> <<5, 5, 0, 0, 0>>
        [] name = "paranoid"           -> <<3, 4, 4, 5, 9>>
        [] name = "misattributing"     -> <<5, 8, 3, 0, 0>>
        [] name = "aliased"            -> <<8, 8, 3, 0, 3>>
        [] name = "default-permit"     -> <<7, 7, 2, 0, 2>>
        [] name = "literal bytes"      -> <<8, 9, 4, 0, 3>> ]

\* Each defect has the signature the README's table gives it: predicate-level
\* and decision-level agreement of nine, true positives of four, false
\* positives of five, and the rows of the aliasing matrix.
Discriminates ==
  (status = "returned" /\ adapter \in DOMAIN Signature) =>
    LET expected == Signature[adapter] IN
    /\ Summary.executed = 9 * runs
    /\ Summary.predicate = expected[1] * runs
    /\ Summary.decision = expected[2] * runs
    /\ Summary.positives = <<expected[3] * runs, 4 * runs>>
    /\ Summary.falsely = <<expected[4] * runs, 5 * runs>>
    /\ Summary.rows = expected[5]

\* H3: the matrix of the aliased mock shows I2, I4 and I7 firing together with
\* one payload, in every row; that of the correct one never has two of them.
AliasesShown ==
  \A c \in MatrixCases :
    /\ adapter = "aliased" =>
         MatrixRow(c) = [fired |-> MCLineage, distinct |-> 1]
    /\ adapter = "correct" => Cardinality(MatrixRow(c).fired) = 1

-----------------------------------------------------------------------------
(* A substrate that answers what it likes.                                 *)

\* A control, the case with two encodings, a violation and the bypass.
FewCases == <<MCCases[1], MCCases[3], MCCases[5], MCCases[11]>>

AnyName == {"any"}

Claim(decision, failing, stateDigest) ==
  [ complete     |-> TRUE,
    decision     |-> decision,
    declared     |-> Nil,
    parent       |-> Nil,
    stateDigest  |-> stateDigest,
    inputDigest  |-> "claimed",
    outputDigest |-> Nil,
    predicates   |-> P!Predicates(failing, P!Uncited),
    proved       |-> TRUE ]

\* Two state digests, a decision outside the enum, a receipt that exposes no
\* predicates, one without a required field and one with a null input digest.
AnyAnswers(name, submission) ==
  {Claim(decision, failing, digest) :
     decision \in {"PERMIT", "HOLD", "TERMINATE"},
     failing \in {{}, {"I2"}, {"I5"}},
     digest \in IF submission.caseId = "C05" THEN {1, 2} ELSE {1}}
    \union
  { Claim("ALLOW", {"I2"}, 1),
    [Claim("PERMIT", {}, 1) EXCEPT !.predicates = <<>>],
    [Claim("PERMIT", {}, 1) EXCEPT !.complete = FALSE],
    [Claim("PERMIT", {}, 1) EXCEPT !.inputDigest = Nil],
    Nil, Exception }
=============================================================================
