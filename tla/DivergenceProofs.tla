-------------------------- MODULE DivergenceProofs --------------------------
(***************************************************************************)
(* For every number of stages and every pair of runs: the loop of          *)
(* compare_runs halts on the first inequality, and what it returns is what *)
(* the one-step locator promises.                                          *)
(***************************************************************************)
EXTENDS Divergence, TLAPS

\* The verdicts given so far are the promised ones, the loop is halted exactly
\* when the boundary is behind it, and a finished walk is a whole walk.
Decided ==
  \A s \in DOMAIN comparisons : comparisons[s] = Locator!Verdict(s)

HaltedAtBoundary ==
  IF halted
  THEN \E b \in DOMAIN comparisons : Locator!IsBoundary(b)
  ELSE \A s \in DOMAIN comparisons : s \notin Unequal

Finished ==
  /\ status = "refused" => left.caseId # right.caseId
  /\ status = "reported" =>
       left.caseId = right.caseId /\ Len(comparisons) = NumStages

IInv == TypeOK /\ Decided /\ HaltedAtBoundary /\ Finished

-----------------------------------------------------------------------------
LEMMA InitInvariant == Init => IInv
<1>. SUFFICES ASSUME Init PROVE IInv
  OBVIOUS
<1>1. comparisons \in Seq(Verdicts) /\ Len(comparisons) = 0 /\ DOMAIN comparisons = {}
  BY DEF Init
<1>2. TypeOK
  <2>1. Len(comparisons) <= NumStages
    BY <1>1, NumStagesAssumption
  <2>. QED
    BY <1>1, <2>1 DEF Init, TypeOK
<1>3. Decided /\ HaltedAtBoundary /\ Finished
  BY <1>1 DEF Init, Decided, HaltedAtBoundary, Finished
<1>. QED
  BY <1>2, <1>3 DEF IInv

\* What the four appending actions share: the walk grows by one verdict, and
\* that verdict is the promised one.
LEMMA EmitStep ==
  ASSUME IInv, Walking, NEW verdict \in Verdicts, Emit(verdict),
         verdict = Locator!Verdict(Stage)
  PROVE  /\ comparisons' \in Seq(Verdicts)
         /\ DOMAIN comparisons' = DOMAIN comparisons \union {Stage}
         /\ Stage \in Stages /\ Stage \notin DOMAIN comparisons
         /\ \A s \in DOMAIN comparisons : s < Stage
         /\ Len(comparisons') <= NumStages
         /\ Decided'
         /\ Finished'
         /\ UNCHANGED <<left, right, status, Missing, Unequal>>
<1>1. /\ comparisons \in Seq(Verdicts)
      /\ Len(comparisons) \in Nat
      /\ DOMAIN comparisons = 1..Len(comparisons)
  BY DEF IInv, TypeOK
<1>2. /\ comparisons' \in Seq(Verdicts)
      /\ Len(comparisons') = Stage
      /\ DOMAIN comparisons' = 1..Stage
      /\ \A s \in 1..Len(comparisons) : comparisons'[s] = comparisons[s]
      /\ comparisons'[Stage] = verdict
  BY <1>1 DEF Emit, Stage
<1>3. UNCHANGED <<left, right, status, Missing, Unequal>>
  BY DEF Emit, Missing, Unequal, Has
<1>4. \A s : Locator!Verdict(s)' = Locator!Verdict(s)
  BY <1>3 DEF Locator!Verdict, Locator!Beyond, Locator!IsBoundary
<1>5. Decided'
  BY <1>1, <1>2, <1>4 DEF IInv, Decided, Stage
<1>6. Finished'
  BY <1>3 DEF Walking, Finished
<1>. QED
  BY <1>1, <1>2, <1>3, <1>5, <1>6, NumStagesAssumption
     DEF Walking, Stage, Stages, Locator!Stages

LEMMA SkipUnreachedStep == IInv /\ SkipUnreached => IInv'
<1>. SUFFICES ASSUME IInv, SkipUnreached PROVE IInv'
  OBVIOUS
<1>1. PICK b \in DOMAIN comparisons : Locator!IsBoundary(b)
  BY DEF SkipUnreached, IInv, HaltedAtBoundary
<1>2. b < Stage /\ b \in Stages
  BY <1>1, NumStagesAssumption DEF IInv, TypeOK, Stage, Stages
<1>3. Locator!Verdict(Stage) = "NOT_REACHED"
  BY <1>1, <1>2 DEF Locator!Verdict, Locator!Beyond, Locator!Stages, Stages
<1>4. /\ Walking /\ Emit("NOT_REACHED") /\ "NOT_REACHED" \in Verdicts
      /\ halted /\ UNCHANGED halted
  BY DEF SkipUnreached, Verdicts
<1>5. /\ comparisons' \in Seq(Verdicts)
      /\ DOMAIN comparisons' = DOMAIN comparisons \union {Stage}
      /\ Len(comparisons') <= NumStages
      /\ Decided' /\ Finished'
      /\ UNCHANGED <<left, right, status, Missing, Unequal>>
  BY <1>3, <1>4, EmitStep
<1>6. TypeOK'
  BY <1>4, <1>5 DEF IInv, TypeOK
<1>7. HaltedAtBoundary'
  BY <1>1, <1>4, <1>5 DEF HaltedAtBoundary, Locator!IsBoundary
<1>. QED
  BY <1>5, <1>6, <1>7 DEF IInv

LEMMA NotBeyond ==
  ASSUME IInv, Walking, ~halted
  PROVE  ~Locator!Beyond(Stage)
<1>1. \A b \in Locator!Stages : b < Stage => b \in DOMAIN comparisons
  BY NumStagesAssumption DEF IInv, TypeOK, Stage, Locator!Stages
<1>2. \A b \in DOMAIN comparisons : b \notin Unequal
  BY DEF IInv, HaltedAtBoundary
<1>. QED
  BY <1>1, <1>2 DEF Locator!Beyond, Locator!IsBoundary

\* An action that passes a stage the runs do not disagree on.
LEMMA PassStep ==
  ASSUME IInv, Walking, ~halted, UNCHANGED halted, Stage \notin Unequal,
         NEW verdict \in Verdicts, Emit(verdict), verdict = Locator!Verdict(Stage)
  PROVE  IInv'
<1>1. /\ comparisons' \in Seq(Verdicts)
      /\ DOMAIN comparisons' = DOMAIN comparisons \union {Stage}
      /\ Len(comparisons') <= NumStages
      /\ Decided' /\ Finished'
      /\ UNCHANGED <<left, right, status, Missing, Unequal>>
  BY EmitStep
<1>2. TypeOK'
  BY <1>1 DEF IInv, TypeOK
<1>3. HaltedAtBoundary'
  BY <1>1 DEF IInv, HaltedAtBoundary
<1>. QED
  BY <1>1, <1>2, <1>3 DEF IInv

LEMMA SkipUnavailableStep == IInv /\ SkipUnavailable => IInv'
<1>. SUFFICES ASSUME IInv, SkipUnavailable PROVE IInv'
  OBVIOUS
<1>1. /\ Walking /\ ~halted /\ UNCHANGED halted
      /\ Emit("UNAVAILABLE") /\ "UNAVAILABLE" \in Verdicts
  BY DEF SkipUnavailable, Verdicts
<1>2. Stage \in Missing
  BY <1>1, NumStagesAssumption
     DEF SkipUnavailable, Available, Missing, Walking, Stage, Stages, IInv, TypeOK
<1>3. Locator!Verdict(Stage) = "UNAVAILABLE"
  BY <1>1, <1>2, NotBeyond DEF Locator!Verdict
<1>4. Stage \notin Unequal
  BY <1>2 DEF Unequal
<1>. QED
  BY <1>1, <1>3, <1>4, PassStep

LEMMA AgreeStep == IInv /\ Agree => IInv'
<1>. SUFFICES ASSUME IInv, Agree PROVE IInv'
  OBVIOUS
<1>1. /\ Walking /\ ~halted /\ UNCHANGED halted
      /\ Emit("EQUAL") /\ "EQUAL" \in Verdicts
  BY DEF Agree, Verdicts
<1>2. Stage \notin Missing /\ Stage \notin Unequal
  BY DEF Agree, Available, Missing, Unequal
<1>3. Locator!Verdict(Stage) = "EQUAL"
  BY <1>1, <1>2, NotBeyond DEF Locator!Verdict
<1>. QED
  BY <1>1, <1>2, <1>3, PassStep

LEMMA DivergeStep == IInv /\ Diverge => IInv'
<1>. SUFFICES ASSUME IInv, Diverge PROVE IInv'
  OBVIOUS
<1>1. /\ Walking /\ ~halted /\ halted'
      /\ Emit("DIVERGED") /\ "DIVERGED" \in Verdicts
  BY DEF Diverge, Verdicts
<1>2. Stage \in Stages /\ Stage \in Nat
  BY NumStagesAssumption DEF Diverge, Walking, Stage, Stages, IInv, TypeOK
<1>3. Stage \in Unequal /\ Stage \notin Missing
  BY <1>2 DEF Diverge, Available, Missing, Unequal
<1>4. Locator!Verdict(Stage) = "DIVERGED"
  BY <1>1, <1>3, NotBeyond DEF Locator!Verdict
<1>5. /\ comparisons' \in Seq(Verdicts)
      /\ DOMAIN comparisons' = DOMAIN comparisons \union {Stage}
      /\ Len(comparisons') <= NumStages
      /\ Decided' /\ Finished'
      /\ UNCHANGED <<left, right, status, Missing, Unequal>>
  BY <1>1, <1>4, EmitStep
<1>6. Locator!IsBoundary(Stage)
  <2>1. \A s \in Unequal : s \in Nat /\ s \in 1..NumStages
    BY NumStagesAssumption DEF Unequal, Stages
  <2>2. \A s \in DOMAIN comparisons : s \notin Unequal
    BY <1>1 DEF IInv, HaltedAtBoundary
  <2>3. \A s \in Unequal : Stage <= s
    BY <2>1, <2>2, NumStagesAssumption DEF IInv, TypeOK, Stage
  <2>. QED
    BY <1>3, <2>3 DEF Locator!IsBoundary
<1>7. TypeOK'
  BY <1>1, <1>5 DEF IInv, TypeOK, Diverge
<1>8. HaltedAtBoundary'
  <2>1. Unequal' = Unequal /\ Stage \in DOMAIN comparisons'
    BY <1>5
  <2>2. \E b \in DOMAIN comparisons' :
          b \in Unequal' /\ \A s \in Unequal' : b <= s
    BY <1>6, <2>1 DEF Locator!IsBoundary
  <2>. QED
    BY <1>1, <2>2 DEF HaltedAtBoundary, Locator!IsBoundary
<1>. QED
  BY <1>5, <1>7, <1>8 DEF IInv

LEMMA EndStep == IInv /\ (Refuse \/ Return \/ UNCHANGED vars) => IInv'
<1>. SUFFICES ASSUME IInv, Refuse \/ Return \/ UNCHANGED vars PROVE IInv'
  OBVIOUS
<1>1. UNCHANGED <<left, right, comparisons, halted, Missing, Unequal>>
  BY DEF Refuse, Return, vars, Missing, Unequal, Has
<1>2. TypeOK'
  BY <1>1 DEF IInv, TypeOK, Refuse, Return, vars
<1>3. Decided'
  BY <1>1 DEF IInv, Decided, Locator!Verdict, Locator!Beyond, Locator!IsBoundary
<1>4. HaltedAtBoundary'
  BY <1>1 DEF IInv, HaltedAtBoundary, Locator!IsBoundary
<1>5. Finished'
  BY NumStagesAssumption
     DEF IInv, TypeOK, Finished, Refuse, Return, vars, Stage
<1>. QED
  BY <1>2, <1>3, <1>4, <1>5 DEF IInv

LEMMA Invariance == Spec => []IInv
<1>1. IInv /\ [Next]_vars => IInv'
  BY SkipUnreachedStep, SkipUnavailableStep, AgreeStep, DivergeStep, EndStep
     DEF Next
<1>. QED
  BY InitInvariant, <1>1, PTL DEF Spec

-----------------------------------------------------------------------------
\* The walk of compare_runs keeps its types: never more verdicts than stages,
\* and no verdict outside the enumeration.
THEOREM TypeCorrect == Spec => []TypeOK
<1>1. IInv => TypeOK
  BY DEF IInv
<1>. QED
  BY <1>1, Invariance, PTL

\* One defect is reported once: whatever the runs and however many the
\* stages, everything after a divergence is NOT_REACHED and nothing else is.
THEOREM OneFinding == Spec => []HaltOnFirst
<1>1. IInv => HaltOnFirst
  <2>. SUFFICES ASSUME IInv, NEW s \in DOMAIN comparisons
                PROVE  /\ comparisons[s] = "DIVERGED" =>
                            \A t \in DOMAIN comparisons :
                              t > s => comparisons[t] = "NOT_REACHED"
                       /\ comparisons[s] = "NOT_REACHED" =>
                            \E t \in DOMAIN comparisons :
                              t < s /\ comparisons[t] = "DIVERGED"
    BY DEF HaltOnFirst
  <2>1. /\ DOMAIN comparisons = 1..Len(comparisons)
        /\ Len(comparisons) \in 0..NumStages
        /\ \A t \in DOMAIN comparisons : comparisons[t] = Locator!Verdict(t)
    BY NumStagesAssumption DEF IInv, TypeOK, Decided
  <2>2. \A t \in DOMAIN comparisons : t \in Nat /\ t \in Locator!Stages
    BY <2>1, NumStagesAssumption DEF Locator!Stages
  <2>3. Unequal \subseteq Locator!Stages /\ Unequal \subseteq Nat
    BY NumStagesAssumption DEF Unequal, Stages, Locator!Stages
  <2>4. ASSUME comparisons[s] = "DIVERGED", NEW t \in DOMAIN comparisons, t > s
        PROVE  comparisons[t] = "NOT_REACHED"
    <3>1. s \in Unequal /\ ~Locator!Beyond(s)
      BY <2>1, <2>4 DEF Locator!Verdict
    <3>2. HaltedAtBoundary
      BY DEF IInv
    <3>3. halted
      BY <3>1, <3>2 DEF HaltedAtBoundary
    <3>4. PICK b \in DOMAIN comparisons : Locator!IsBoundary(b)
      BY <3>2, <3>3 DEF HaltedAtBoundary
    <3>5. b < t
      BY <2>2, <2>4, <3>1, <3>4 DEF Locator!IsBoundary
    <3>6. Locator!Beyond(t)
      BY <2>2, <3>4, <3>5 DEF Locator!Beyond
    <3>. QED
      BY <2>1, <3>6 DEF Locator!Verdict
  <2>5. ASSUME comparisons[s] = "NOT_REACHED"
        PROVE  \E t \in DOMAIN comparisons : t < s /\ comparisons[t] = "DIVERGED"
    <3>1. Locator!Beyond(s)
      BY <2>1, <2>5 DEF Locator!Verdict
    <3>2. PICK b \in Locator!Stages : Locator!IsBoundary(b) /\ b < s
      BY <3>1 DEF Locator!Beyond
    <3>3. b \in DOMAIN comparisons
      BY <2>1, <2>2, <3>2 DEF Locator!Stages
    <3>4. b \in Unequal /\ b \notin Missing
      BY <3>2 DEF Locator!IsBoundary, Unequal
    <3>5. ~Locator!Beyond(b)
      <4>1. \A c \in Locator!Stages : Locator!IsBoundary(c) => c \in Nat /\ b <= c
        BY <2>3, <3>2 DEF Locator!IsBoundary
      <4>2. b \in Nat
        BY <2>3, <3>4
      <4>. QED
        BY <4>1, <4>2 DEF Locator!Beyond
    <3>. QED
      BY <2>1, <3>2, <3>3, <3>4, <3>5 DEF Locator!Verdict
  <2>. QED
    BY <2>4, <2>5
<1>. QED
  BY <1>1, Invariance, PTL

\* The loop implements the one-step locator, for every number of stages.
THEOREM Implements == Spec => LocatesTheBoundary
<1>1. Init => Locator!Init
  BY DEF Init, Locator!Init, Locator!Nothing, Locator!Stages, Stages, Missing, Unequal
<1>2. IInv /\ IInv' /\ [Next]_vars => [Locator!Report]_(Locator!vars)
  <2>. SUFFICES ASSUME IInv, IInv', [Next]_vars
                PROVE  [Locator!Report]_(Locator!vars)
    OBVIOUS
  <2>1. UNCHANGED <<left, right, Missing, Unequal>>
    BY DEF Next, Refuse, SkipUnreached, SkipUnavailable, Agree, Diverge, Return,
           Emit, vars, Missing, Unequal, Has
  <2>2. CASE Refuse
    BY <2>1, <2>2 DEF Refuse, Locator!Report, Locator!Nothing, Locator!Refusal
  <2>3. CASE Return
    <3>1. comparisons = Locator!Promised
      BY <2>3, NumStagesAssumption
         DEF Return, Stage, IInv, TypeOK, Decided, Locator!Promised, Locator!Stages
    <3>. QED
      BY <2>1, <2>3, <3>1 DEF Return, Locator!Report, Locator!Nothing
  <2>4. CASE SkipUnreached \/ SkipUnavailable \/ Agree \/ Diverge \/ UNCHANGED vars
    <3>1. (status = "comparing" /\ status' = "comparing") \/ UNCHANGED vars
      BY <2>4 DEF SkipUnreached, SkipUnavailable, Agree, Diverge, Walking, Emit
    <3>. QED
      BY <2>1, <3>1 DEF vars, Locator!vars
  <2>. QED
    BY <2>2, <2>3, <2>4 DEF Next
<1>. QED
  BY <1>1, <1>2, Invariance, PTL DEF Spec, LocatesTheBoundary, Locator!Spec

-----------------------------------------------------------------------------
(* What agreement about the predicates means.                              *)

\* The signature of a list and its statements tell the same.
LEMMA SignatureSays ==
  ASSUME NEW list, DOMAIN list \subseteq Nat, SaysOnce(list),
         NEW i \in Invariants, NEW result, NEW evidence
  PROVE  <<i, result, evidence>> \in Statements(list)
           <=> /\ PredicateSignature(list)[i] = <<result, evidence>>
               /\ <<result, evidence>> # <<Nil, Nil>>
<1> DEFINE signature == PredicateSignature(list)
<1>1. signature = [j \in Invariants |->
                     IF \E k \in DOMAIN list : list[k].id = j
                     THEN LET entry == list[LastEntry(list, j)]
                          IN  <<entry.result, entry.evidence>>
                     ELSE <<Nil, Nil>>]
  BY DEF PredicateSignature, SaysOnce
<1>2. ASSUME NEW k \in DOMAIN list, list[k].id = i
      PROVE  signature[i] = <<list[k].result, list[k].evidence>>
  <2>1. k <= k
    OBVIOUS
  <2>2. \A j \in DOMAIN list : list[j].id = i => j = k
    BY <1>2 DEF SaysOnce
  <2>3. LastEntry(list, i) = k
    BY <1>2, <2>1, <2>2 DEF LastEntry
  <2> QED
    BY <1>1, <1>2, <2>3
<1>3. ASSUME <<i, result, evidence>> \in Statements(list)
      PROVE  signature[i] = <<result, evidence>> /\ <<result, evidence>> # <<Nil, Nil>>
  <2>1. PICK k \in DOMAIN list :
          <<i, result, evidence>> = <<list[k].id, list[k].result, list[k].evidence>>
    BY <1>3 DEF Statements
  <2> QED
    BY <1>2, <2>1 DEF SaysOnce
<1>4. ASSUME signature[i] = <<result, evidence>>, <<result, evidence>> # <<Nil, Nil>>
      PROVE  <<i, result, evidence>> \in Statements(list)
  <2>1. PICK k \in DOMAIN list : list[k].id = i
    BY <1>1, <1>4
  <2>2. <<list[k].result, list[k].evidence>> = <<result, evidence>>
    BY <1>2, <1>4, <2>1
  <2> QED
    BY <2>1, <2>2 DEF Statements
<1> QED
  BY <1>3, <1>4

\* Two lists have one signature exactly if they make the same statements,
\* whatever the order they make them in.
LEMMA SignaturesEqual ==
  ASSUME NEW lhs, NEW rhs, DOMAIN lhs \subseteq Nat, DOMAIN rhs \subseteq Nat,
         SaysOnce(lhs), SaysOnce(rhs)
  PROVE  PredicateSignature(lhs) = PredicateSignature(rhs) <=> Statements(lhs) = Statements(rhs)
<1> DEFINE l == PredicateSignature(lhs)
           r == PredicateSignature(rhs)
<1>1. ASSUME NEW list, SaysOnce(list), NEW statement \in Statements(list)
      PROVE  \E i \in Invariants : \E result, evidence : statement = <<i, result, evidence>>
  BY <1>1 DEF Statements, SaysOnce
<1>2. ASSUME l = r PROVE Statements(lhs) = Statements(rhs)
  <2>1. ASSUME NEW i \in Invariants, NEW result, NEW evidence
        PROVE  <<i, result, evidence>> \in Statements(lhs) <=> <<i, result, evidence>> \in Statements(rhs)
    <3>1. <<i, result, evidence>> \in Statements(lhs)
            <=> l[i] = <<result, evidence>> /\ <<result, evidence>> # <<Nil, Nil>>
      BY SignatureSays
    <3>2. <<i, result, evidence>> \in Statements(rhs)
            <=> r[i] = <<result, evidence>> /\ <<result, evidence>> # <<Nil, Nil>>
      BY SignatureSays
    <3> HIDE DEF l, r
    <3> QED
      BY <1>2, <3>1, <3>2
  <2> QED
    BY <1>1, <2>1
<1>3. ASSUME Statements(lhs) = Statements(rhs) PROVE l = r
  <2>1. ASSUME NEW list, SaysOnce(list), DOMAIN list \subseteq Nat, NEW i \in Invariants
        PROVE  \/ PredicateSignature(list)[i] = <<Nil, Nil>>
               \/ \E result, evidence :
                    /\ PredicateSignature(list)[i] = <<result, evidence>>
                    /\ <<i, result, evidence>> \in Statements(list)
    <3>1. CASE \E k \in DOMAIN list : list[k].id = i
      <4>1. PICK k \in DOMAIN list : list[k].id = i
        BY <3>1
      <4>2. <<i, list[k].result, list[k].evidence>> \in Statements(list)
        BY <4>1 DEF Statements
      <4>3. PredicateSignature(list)[i] = <<list[k].result, list[k].evidence>>
        BY <2>1, <4>2, SignatureSays
      <4> QED
        BY <4>2, <4>3
    <3>2. CASE ~\E k \in DOMAIN list : list[k].id = i
      BY <2>1, <3>2 DEF PredicateSignature, SaysOnce
    <3> QED
      BY <3>1, <3>2
  <2>2. ASSUME NEW i \in Invariants PROVE l[i] = r[i]
    <3>1. \A result, evidence : <<i, result, evidence>> \in Statements(lhs) =>
            l[i] = <<result, evidence>> /\ <<result, evidence>> # <<Nil, Nil>>
      BY SignatureSays
    <3>2. \A result, evidence : <<i, result, evidence>> \in Statements(rhs) =>
            r[i] = <<result, evidence>> /\ <<result, evidence>> # <<Nil, Nil>>
      BY SignatureSays
    <3>3. CASE l[i] # <<Nil, Nil>>
      <4>1. PICK result, evidence :
              l[i] = <<result, evidence>> /\ <<i, result, evidence>> \in Statements(lhs)
        BY <2>1, <3>3
      <4>2. <<i, result, evidence>> \in Statements(rhs)
        BY <1>3, <4>1
      <4>3. r[i] = <<result, evidence>>
        BY <3>2, <4>2
      <4> HIDE DEF l, r
      <4> QED
        BY <4>1, <4>3
    <3>4. CASE r[i] # <<Nil, Nil>>
      <4>1. PICK result, evidence :
              r[i] = <<result, evidence>> /\ <<i, result, evidence>> \in Statements(rhs)
        BY <2>1, <3>4
      <4>2. <<i, result, evidence>> \in Statements(lhs)
        BY <1>3, <4>1
      <4>3. l[i] = <<result, evidence>>
        BY <3>1, <4>2
      <4> HIDE DEF l, r
      <4> QED
        BY <4>1, <4>3
    <3> HIDE DEF l, r
    <3> QED
      BY <3>3, <3>4
  <2> QED
    BY <2>2 DEF PredicateSignature, SaysOnce
<1> QED
  BY <1>2, <1>3

\* Two runs that say something of each predicate once agree at that stage
\* exactly if they make the same statements, results and evidence: no order of
\* the lists is a divergence, and no other evidence an agreement
\* (_predicate_signature).
THEOREM EvidenceCompared == Spec => []EvidenceIsCompared
<1>1. IInv => EvidenceIsCompared
  <2> DEFINE lhs == left.values[PredicateStage]
             rhs == right.values[PredicateStage]
  <2> SUFFICES ASSUME IInv, PredicateStage \in DOMAIN comparisons,
                      comparisons[PredicateStage] \in {"EQUAL", "DIVERGED"},
                      SaysOnce(lhs), SaysOnce(rhs)
               PROVE  comparisons[PredicateStage] = "EQUAL" <=> Statements(lhs) = Statements(rhs)
    BY DEF EvidenceIsCompared
  <2>1. PredicateStage \in Stages
    BY NumStagesAssumption DEF IInv, TypeOK, Stages
  <2>2. comparisons[PredicateStage] = Locator!Verdict(PredicateStage)
    BY DEF IInv, Decided
  <2>3. PredicateStage \notin Missing
    BY <2>2 DEF Locator!Verdict, Unequal
  <2>4. comparisons[PredicateStage] = "EQUAL" <=> PredicateStage \notin Unequal
    BY <2>2, <2>3 DEF Locator!Verdict
  <2>5. PredicateStage \in Unequal <=> PredicateSignature(lhs) # PredicateSignature(rhs)
    BY <2>1, <2>3 DEF Unequal, Equal
  <2>6. left \in Runs /\ right \in Runs /\ lhs # Absent /\ rhs # Absent
    BY <2>1, <2>3 DEF IInv, TypeOK, Missing, Has
  <2>7. DOMAIN lhs \subseteq Nat /\ DOMAIN rhs \subseteq Nat
    BY <2>1, <2>6, ListsAssumption DEF SaysOnce
  <2> HIDE DEF lhs, rhs
  <2> QED
    BY <2>4, <2>5, <2>7, SignaturesEqual
<1> QED
  BY <1>1, Invariance, PTL

-----------------------------------------------------------------------------
(* The lists as the locator and as the verifier read them.                 *)

\* A predicate fails for the verifier exactly if the locator's signature has
\* FAIL for it.
LEMMA FailingIsSigned ==
  ASSUME NEW list, list # Nil, Nil # "FAIL", NEW i \in Invariants
  PROVE  i \in Reading!Failing([predicates |-> list])
           <=> PredicateSignature(list)[i][1] = "FAIL"
<1> DEFINE receipt == [predicates |-> list]
<1>1. receipt.predicates = list
  OBVIOUS
<1>2. i \in Reading!Exposed(receipt) <=> \E k \in DOMAIN list : list[k].id = i
  BY <1>1 DEF Reading!Exposed
<1>3. Reading!Predicate(receipt, i) = list[LastEntry(list, i)]
  BY <1>1 DEF Reading!Predicate, LastEntry
<1> HIDE DEF receipt
<1>4. CASE \E k \in DOMAIN list : list[k].id = i
  <2>1. PredicateSignature(list)[i] =
          <<list[LastEntry(list, i)].result, list[LastEntry(list, i)].evidence>>
    BY <1>4 DEF PredicateSignature
  <2>2. i \in Reading!Failing(receipt) <=> list[LastEntry(list, i)].result = "FAIL"
    BY <1>2, <1>3, <1>4 DEF Reading!Failing
  <2> QED
    BY <2>1, <2>2 DEF receipt
<1>5. CASE ~\E k \in DOMAIN list : list[k].id = i
  <2>1. PredicateSignature(list)[i] = <<Nil, Nil>>
    BY <1>5 DEF PredicateSignature
  <2>2. i \notin Reading!Failing(receipt)
    BY <1>2, <1>5 DEF Reading!Failing
  <2> QED
    BY <2>1, <2>2 DEF receipt
<1> QED
  BY <1>4, <1>5

\* Runs that are equal at their predicates have the same failing ones for the
\* verifier and the scoring, for lists of any length that repeat identifiers as
\* they like (_predicate_signature and _predicate_map).  None is no result.
THEOREM FailuresAgreed == Nil # "FAIL" => (Spec => []FailuresAgree)
<1> SUFFICES ASSUME Nil # "FAIL" PROVE Spec => []FailuresAgree
  OBVIOUS
<1>1. IInv => FailuresAgree
  <2> DEFINE lhs == left.values[PredicateStage]
             rhs == right.values[PredicateStage]
  <2> SUFFICES ASSUME IInv, PredicateStage \in DOMAIN comparisons,
                      comparisons[PredicateStage] = "EQUAL", Nil \notin {lhs, rhs}
               PROVE  Reading!Failing([predicates |-> lhs])
                        = Reading!Failing([predicates |-> rhs])
    BY DEF FailuresAgree
  <2>1. PredicateStage \in Stages
    BY NumStagesAssumption DEF IInv, TypeOK, Stages
  <2>2. comparisons[PredicateStage] = Locator!Verdict(PredicateStage)
    BY DEF IInv, Decided
  <2>3. PredicateStage \notin Missing /\ PredicateStage \notin Unequal
    BY <2>2 DEF Locator!Verdict, Unequal
  <2>4. PredicateSignature(lhs) = PredicateSignature(rhs)
    BY <2>1, <2>3 DEF Unequal, Equal
  <2>5. lhs # Nil /\ rhs # Nil
    OBVIOUS
  <2> HIDE DEF lhs, rhs
  <2>6. \A i \in Invariants : i \in Reading!Failing([predicates |-> lhs])
                               <=> i \in Reading!Failing([predicates |-> rhs])
    BY <2>4, <2>5, FailingIsSigned
  <2>7. /\ Reading!Failing([predicates |-> lhs]) \subseteq Invariants
        /\ Reading!Failing([predicates |-> rhs]) \subseteq Invariants
    BY DEF Reading!Failing
  <2> QED
    BY <2>6, <2>7
<1> QED
  BY <1>1, Invariance, PTL
=============================================================================
