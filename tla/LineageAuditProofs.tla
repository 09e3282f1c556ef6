------------------------- MODULE LineageAuditProofs -------------------------
(***************************************************************************)
(* What the runs of MCLineageAudit show of a few receipts holds for every  *)
(* set of states, receipts and artifacts and for every store size.  The    *)
(* last three parts prove that the verifier lets pass exactly the sessions *)
(* the contract admits, and that lineages of any length start with a first *)
(* session and are spaced if nothing but what is admitted is filed.        *)
(***************************************************************************)
EXTENDS LineageAudit, ReceiptLemmas, FiniteSetTheorems, TLAPS

-----------------------------------------------------------------------------
(* What a result without a failed check says.                              *)

\* A test among the checks was passed if none of them failed.
LEMMA TestPassed ==
  ASSUME NEW checks, NEW name, NEW P \in BOOLEAN,
         Test(name, P) \subseteq checks, Passes(checks)
  PROVE  P
BY TestHeld DEF Passes

\* No check was added as a failure if none of them failed.
LEMMA CheckNotFailed ==
  ASSUME NEW checks, NEW name, Check(name, "FAIL") \subseteq checks
  PROVE  ~Passes(checks)
BY CheckFailed DEF Passes

\* What verify has established of a receipt none of whose checks failed.
LEMMA PassingReceipt ==
  ASSUME NEW receipt, NEW store, NEW input, NEW output,
         Passes(Verify(receipt, store, input, output))
  PROVE  /\ SchemaHolds(receipt)
         /\ LineageHolds(receipt, store)
         /\ CheckTemporal(receipt, store) \subseteq Verify(receipt, store, input, output)
<1> DEFINE checks == Verify(receipt, store, input, output)
<1>1. /\ SchemaHolds(receipt)
      /\ CheckLineage(receipt, store) \subseteq checks
      /\ CheckTemporal(receipt, store) \subseteq checks
  BY SchemaPassed DEF Passes
<1>2. LineageHolds(receipt, store) \in BOOLEAN
  BY DEF LineageHolds
<1>3. LineageHolds(receipt, store)
  <2> HIDE DEF checks
  <2> QED
    BY <1>1, <1>2, TestPassed DEF CheckLineage, checks
<1> QED
  BY <1>1, <1>3

\* A receipt of a later session none of whose checks failed has a parent in the
\* verifier's store, which it follows, and is admitted exactly if compliant.
LEMMA PassingSuccessor ==
  ASSUME NEW receipt, NEW store, NEW input, NEW output,
         Passes(Verify(receipt, store, input, output)),
         Session(receipt) # 1
  PROVE  LET parent == store[receipt.parent] IN
         /\ receipt.parent \in DOMAIN store
         /\ Recompute(parent.declared) = receipt.parent
         /\ Start(receipt) # Nil
         /\ Start(parent) # Nil
         /\ Follows(receipt, parent)
         /\ Compliant(receipt, parent) <=> receipt.decision = "PERMIT"
<1> DEFINE checks == Verify(receipt, store, input, output)
           parent == store[receipt.parent]
<1>1. /\ LineageHolds(receipt, store)
      /\ CheckTemporal(receipt, store) \subseteq checks
  BY PassingReceipt
<1>2. /\ receipt.parent \in DOMAIN store
      /\ Resolve(store, receipt.parent) = parent
      /\ parent # Nil
      /\ Recompute(parent.declared) = receipt.parent
      /\ Follows(receipt, parent)
  BY <1>1 DEF LineageHolds, Resolve
<1> HIDE DEF checks, parent
<1>3. ~(Start(receipt) = Nil \/ Start(parent) = Nil)
  <2> SUFFICES ASSUME Start(receipt) = Nil \/ Start(parent) = Nil PROVE FALSE
    OBVIOUS
  <2>1. Check("separation", "FAIL") \subseteq checks
    BY <1>1, <1>2 DEF CheckTemporal
  <2> QED
    BY <2>1, CheckNotFailed DEF checks
<1>4. CheckSeparation(receipt, parent) \subseteq checks
  BY <1>1, <1>2, <1>3 DEF CheckTemporal
<1>5. Test("separation", Compliant(receipt, parent) <=> receipt.decision = "PERMIT")
        \subseteq checks
  BY <1>4 DEF CheckSeparation
<1>6. Compliant(receipt, parent) <=> receipt.decision = "PERMIT"
  BY <1>5, TestPassed DEF checks
<1> QED
  BY <1>2, <1>3, <1>6 DEF parent

-----------------------------------------------------------------------------
(* The result in hand is still what verify would say: the store does not   *)
(* change between the verification of a receipt and its filing.            *)

HandFresh ==
  inHand # Nil =>
    inHand.checks = Verify(inHand.receipt, Store, inHand.input, inHand.output)

LEMMA DeclaredByReceipt ==
  ASSUME NEW state, NEW parent, NEW decision, NEW failing
  PROVE  /\ Receipt(state, parent, decision, failing).declared = state
         /\ Receipt(state, parent, decision, failing).decision = decision
BY DEF Receipt

\* The store the verifier looks into is the caller's or empty.
LEMMA StoreWithin ==
  \A p \in DOMAIN Store : p \in Filed /\ Store[p] = ledger[p]
BY DEF Store, Filed, Empty

\* What a filed or seeded receipt must be: an entry of a later session keeps
\* its justification when another key, or a key of the same state, is written.
LEMMA Overwriting ==
  ASSUME EntriesJustified,
         NEW key, NEW receipt,
         key = Digest(receipt.declared),
         ledger' = [d \in Filed \union {key} |-> IF d = key THEN receipt ELSE ledger[d]],
         Session(receipt) = 1 \/
           /\ receipt.parent \in Filed
           /\ Start(receipt) # Nil
           /\ Start(ledger[receipt.parent]) # Nil
           /\ Follows(receipt, ledger[receipt.parent])
           /\ Compliant(receipt, ledger[receipt.parent]) <=> receipt.decision = "PERMIT"
  PROVE  /\ EntriesJustified'
         /\ \A d \in Filed : ledger'[d].declared = ledger[d].declared
<1>1. Filed' = Filed \union {key}
  BY DEF Filed
<1>2. ASSUME NEW d \in Filed
      PROVE  ledger'[d].declared = ledger[d].declared
  <2>1. d = Digest(ledger[d].declared)
    BY DEF EntriesJustified, Justified
  <2>2. CASE d = key
    <3>1. ledger[d].declared = receipt.declared
      BY <2>1, <2>2 DEF Digest
    <3> QED
      BY <2>2, <3>1
  <2>3. CASE d # key
    BY <2>3
  <2> QED
    BY <2>2, <2>3
<1>3. ASSUME NEW d \in Filed
      PROVE  Start(ledger'[d]) = Start(ledger[d]) /\ Session(ledger'[d]) = Session(ledger[d])
  BY <1>2 DEF Start, Session
<1>4. ASSUME NEW d \in Filed'
      PROVE  Justified(d)'
  <2>1. CASE d = key
    <3>1. ledger'[d] = receipt
      BY <2>1
    <3>2. CASE Session(receipt) = 1
      BY <2>1, <3>1, <3>2 DEF Justified, Genesis
    <3>3. CASE Session(receipt) # 1
      <4>1. /\ receipt.parent \in Filed
            /\ Start(receipt) # Nil
            /\ Start(ledger'[receipt.parent]) # Nil
            /\ Follows(receipt, ledger'[receipt.parent])
            /\ Compliant(receipt, ledger'[receipt.parent]) <=> receipt.decision = "PERMIT"
        BY <3>3, <1>3 DEF Follows, Compliant
      <4> QED
        BY <2>1, <3>1, <4>1, <1>1 DEF Justified
    <3> QED
      BY <3>2, <3>3
  <2>2. CASE d # key
    <3>1. d \in Filed /\ ledger'[d] = ledger[d]
      BY <1>1, <2>2
    <3>2. Justified(d)
      BY <3>1 DEF EntriesJustified
    <3>3. CASE Genesis(d)
      BY <3>1, <3>2, <3>3 DEF Justified, Genesis
    <3>4. CASE ~Genesis(d)
      <4> DEFINE p == ledger[d].parent
      <4>1. /\ p \in Filed
            /\ Start(ledger[d]) # Nil
            /\ Start(ledger'[p]) # Nil
            /\ Follows(ledger[d], ledger'[p])
            /\ Compliant(ledger[d], ledger'[p]) <=> ledger[d].decision = "PERMIT"
        BY <3>2, <3>4, <1>3 DEF Justified, Follows, Compliant
      <4>2. d = Digest(ledger[d].declared)
        BY <3>2 DEF Justified
      <4> QED
        BY <3>1, <4>1, <4>2, <1>1 DEF Justified
    <3> QED
      BY <3>3, <3>4
  <2> QED
    BY <2>1, <2>2
<1>5. EntriesJustified'
  BY <1>4 DEF EntriesJustified
<1> QED
  BY <1>2, <1>5

\* File and Seed write entries as Overwriting wants them.
LEMMA FiledAsWanted ==
  ASSUME HandFresh, File
  PROVE  LET receipt == inHand.receipt
             key     == Digest(receipt.declared)
         IN  /\ ledger' = [d \in Filed \union {key} |->
                             IF d = key THEN receipt ELSE ledger[d]]
             /\ receipt.decision \in Decisions
             /\ FileHeld \/ receipt.decision = "PERMIT"
             /\ Session(receipt) = 1 \/
                  /\ receipt.parent \in Filed
                  /\ Start(receipt) # Nil
                  /\ Start(ledger[receipt.parent]) # Nil
                  /\ Follows(receipt, ledger[receipt.parent])
                  /\ Compliant(receipt, ledger[receipt.parent])
                       <=> receipt.decision = "PERMIT"
<1> DEFINE receipt == inHand.receipt
           key     == Digest(receipt.declared)
<1>1. Key(receipt) = key
  BY DEF File, Key, Recompute
<1>2. ledger' = [d \in Filed \union {key} |-> IF d = key THEN receipt ELSE ledger[d]]
  BY <1>1 DEF File, Filed
<1>3. Passes(Verify(receipt, Store, inHand.input, inHand.output))
  BY DEF File, HandFresh
<1>4. receipt.decision \in Decisions
  BY <1>3, PassingReceipt DEF SchemaHolds
<1>5. ASSUME Session(receipt) # 1
      PROVE  /\ receipt.parent \in Filed
             /\ Start(receipt) # Nil
             /\ Start(ledger[receipt.parent]) # Nil
             /\ Follows(receipt, ledger[receipt.parent])
             /\ Compliant(receipt, ledger[receipt.parent]) <=> receipt.decision = "PERMIT"
  <2>1. /\ receipt.parent \in DOMAIN Store
        /\ Start(receipt) # Nil
        /\ Start(Store[receipt.parent]) # Nil
        /\ Follows(receipt, Store[receipt.parent])
        /\ Compliant(receipt, Store[receipt.parent]) <=> receipt.decision = "PERMIT"
    <3> HIDE DEF receipt
    <3> QED
      BY <1>3, <1>5, PassingSuccessor
  <2>2. receipt.parent \in Filed /\ Store[receipt.parent] = ledger[receipt.parent]
    BY <2>1, StoreWithin
  <2> QED
    BY <2>1, <2>2
<1>6. FileHeld \/ receipt.decision = "PERMIT"
  BY DEF File
<1> QED
  BY <1>2, <1>4, <1>5, <1>6

LEMMA SeededAsWanted ==
  ASSUME NEW state \in States, Seed(state)
  PROVE  LET receipt == Receipt(state, Nil, "PERMIT", {})
             key     == Digest(receipt.declared)
         IN  /\ ledger' = [d \in Filed \union {key} |->
                             IF d = key THEN receipt ELSE ledger[d]]
             /\ receipt.declared = state
             /\ receipt.decision = "PERMIT"
             /\ Session(receipt) = 1
<1> DEFINE receipt == Receipt(state, Nil, "PERMIT", {})
<1>1. receipt.declared = state /\ receipt.decision = "PERMIT"
  BY DeclaredByReceipt
<1>2. Session(receipt) = 1
  <2>1. state # Nil /\ state.session = 1
    BY StatesAssumption DEF Seed
  <2> HIDE DEF receipt
  <2> QED
    BY <1>1, <2>1 DEF Session
<1>3. ledger' = [d \in Filed \union {Digest(state)} |->
                   IF d = Digest(state) THEN receipt ELSE ledger[d]]
  BY DEF Seed, Filed
<1> HIDE DEF receipt
<1> QED
  BY <1>1, <1>2, <1>3 DEF receipt

-----------------------------------------------------------------------------
(* The step lemmas.                                                        *)

LEMMA HandFreshKept ==
  ASSUME HandFresh, TypeOK, [Next]_vars
  PROVE  HandFresh'
<1>1. ASSUME NEW state \in States, Seed(state)
      PROVE  HandFresh'
  BY <1>1 DEF Seed, TypeOK, HandFresh
<1>2. CASE Build
  BY <1>2 DEF Build, TypeOK, HandFresh
<1>3. ASSUME NEW receipt, NEW input, NEW output, Examine(receipt, input, output)
      PROVE  HandFresh'
  <2>1. Store' = Store
    BY <1>3 DEF Examine, Store, Empty
  <2>2. /\ inHand'.receipt = receipt
        /\ inHand'.input = input
        /\ inHand'.output = output
        /\ inHand'.checks = Verify(receipt, Store, input, output)
    BY <1>3 DEF Examine
  <2> QED
    BY <2>1, <2>2 DEF HandFresh
<1>4. ASSUME NEW receipt, NEW input, NEW output, Fail(receipt, input, output)
      PROVE  HandFresh'
  BY <1>4 DEF Fail, vars, HandFresh, Store, Empty
<1>5. CASE File \/ SetAside
  BY <1>5 DEF File, SetAside, HandFresh
<1>6. CASE UNCHANGED vars
  BY <1>6 DEF vars, HandFresh, Store, Empty
<1> QED
  BY <1>1, <1>2, <1>3, <1>4, <1>5, <1>6 DEF Next, CallVerify

LEMMA EntriesJustifiedKept ==
  ASSUME EntriesJustified, HandFresh, [Next]_vars
  PROVE  EntriesJustified'
<1>1. ASSUME NEW state \in States, Seed(state)
      PROVE  EntriesJustified'
  BY <1>1, SeededAsWanted, Overwriting
<1>2. CASE File
  BY <1>2, FiledAsWanted, Overwriting
<1>3. ASSUME UNCHANGED ledger
      PROVE  EntriesJustified'
  BY <1>3 DEF EntriesJustified, Justified, Filed, Genesis
<1>4. CASE Build \/ SetAside
  BY <1>3, <1>4 DEF Build, SetAside
<1>5. ASSUME NEW receipt, NEW input, NEW output, Examine(receipt, input, output)
      PROVE  EntriesJustified'
  BY <1>3, <1>5 DEF Examine
<1>6. ASSUME NEW receipt, NEW input, NEW output, Fail(receipt, input, output)
      PROVE  EntriesJustified'
  BY <1>3, <1>6 DEF Fail, vars
<1>7. CASE UNCHANGED vars
  BY <1>3, <1>7 DEF vars
<1> QED
  BY <1>1, <1>2, <1>4, <1>5, <1>6, <1>7 DEF Next, CallVerify

\* The receipts examined declare a state of States, or none.
Examinable ==
  inHand # Nil => inHand.receipt.declared \in States \union {Nil}

LEMMA TypeKept ==
  ASSUME TypeOK, Examinable, HandFresh, [Next]_vars
  PROVE  TypeOK' /\ Examinable'
<1>1. ASSUME NEW state \in States, Seed(state)
      PROVE  TypeOK' /\ Examinable'
  <2> DEFINE receipt == Receipt(state, Nil, "PERMIT", {})
             key     == Digest(receipt.declared)
  <2>1. /\ ledger' = [d \in Filed \union {key} |-> IF d = key THEN receipt ELSE ledger[d]]
        /\ receipt.declared = state
        /\ receipt.decision = "PERMIT"
    BY <1>1, SeededAsWanted
  <2>2. verifier' = "unbuilt" /\ inHand' = inHand
    BY <1>1 DEF Seed
  <2>3. Cardinality(Filed') <= MaxFiled
    <3>1. Cardinality(DOMAIN ledger \union {Digest(state)}) <= MaxFiled
      BY <1>1 DEF Seed
    <3>2. Filed' = DOMAIN ledger \union {Digest(state)}
      BY <2>1 DEF Filed
    <3> QED
      BY <3>1, <3>2
  <2> HIDE DEF receipt
  <2> QED
    BY <1>1, <2>1, <2>2, <2>3 DEF TypeOK, Examinable, Filed, Decisions, Seed
<1>2. CASE Build
  BY <1>2 DEF Build, TypeOK, Examinable, Filed
<1>3. ASSUME NEW receipt, NEW input, NEW output,
             receipt.declared \in States \union {Nil}, verifier # "unbuilt",
             Examine(receipt, input, output)
      PROVE  TypeOK' /\ Examinable'
  BY <1>3 DEF Examine, TypeOK, Examinable, Filed
<1>4. CASE File
  <2> DEFINE receipt == inHand.receipt
             key     == Digest(receipt.declared)
  <2>1. /\ ledger' = [d \in Filed \union {key} |-> IF d = key THEN receipt ELSE ledger[d]]
        /\ receipt.decision \in Decisions
    BY <1>4, FiledAsWanted
  <2>2. /\ receipt.declared \in States \union {Nil}
        /\ verifier' = verifier
        /\ inHand' = Nil
    BY <1>4 DEF File, Examinable
  <2>3. Cardinality(Filed') <= MaxFiled
    <3>1. Filed' = DOMAIN ledger \union {Key(inHand.receipt)}
      BY <1>4 DEF File, Filed
    <3>2. Cardinality(DOMAIN ledger \union {Key(inHand.receipt)}) <= MaxFiled
      BY <1>4 DEF File
    <3> QED
      BY <3>1, <3>2
  <2> HIDE DEF receipt
  <2> QED
    BY <2>1, <2>2, <2>3 DEF TypeOK, Examinable, Filed
<1>5. CASE SetAside
  BY <1>5 DEF SetAside, TypeOK, Examinable, Filed
<1>6. ASSUME UNCHANGED vars
      PROVE  TypeOK' /\ Examinable'
  BY <1>6 DEF vars, TypeOK, Examinable, Filed
<1>7. ASSUME NEW receipt, NEW input, NEW output, Fail(receipt, input, output)
      PROVE  TypeOK' /\ Examinable'
  BY <1>6, <1>7 DEF Fail
<1>8. ASSUME NEW receipt \in Regular, NEW input \in Artifacts, NEW output \in Artifacts,
             verifier # "unbuilt", Examine(receipt, input, output)
      PROVE  TypeOK' /\ Examinable'
  <2>1. receipt.declared \in States
    BY <1>8, DeclaredByReceipt DEF Regular
  <2> QED
    BY <1>3, <1>8, <2>1
<1>9. ASSUME NEW receipt \in Irregular, NEW input \in Artifacts, NEW output \in Artifacts,
             verifier # "unbuilt", Examine(receipt, input, output)
      PROVE  TypeOK' /\ Examinable'
  BY <1>3, <1>9, IrregularAssumption
<1> QED
  BY <1>1, <1>2, <1>4, <1>5, <1>6, <1>7, <1>8, <1>9 DEF Next, CallVerify

-----------------------------------------------------------------------------
(* The span of a study: if only admitted receipts are filed, every entry   *)
(* is far enough from a first session, because its parent already was.     *)

OnlyAdmitted == \A d \in Filed : ledger[d].decision = "PERMIT"

\* One more session costs one more separation.
LEMMA OneMoreSeparation ==
  ASSUME NEW m \in Int, NEW n \in Int
  PROVE  m * n = m * (n - 1) + m
OBVIOUS

\* Entries whose indices and starts are numbers wherever they are present.
LEMMA EntryNumbers ==
  ASSUME TypeOK, NEW d \in Filed
  PROVE  /\ Session(ledger[d]) \in Int \union {Nil}
         /\ Start(ledger[d]) \in Int \union {Nil}
BY StatesAssumption DEF TypeOK, Session, Start

\* Writing an admitted entry keeps the span of all of them.
LEMMA SpanWritten ==
  ASSUME TypeOK, TypeOK', EntriesJustified, StudySpan, OnlyAdmitted,
         NEW key, NEW receipt,
         key = Digest(receipt.declared),
         receipt.decision = "PERMIT",
         ledger' = [d \in Filed \union {key} |-> IF d = key THEN receipt ELSE ledger[d]],
         \A d \in Filed : ledger'[d].declared = ledger[d].declared,
         Session(receipt) = 1 \/
           /\ receipt.parent \in Filed
           /\ Start(receipt) # Nil
           /\ Start(ledger[receipt.parent]) # Nil
           /\ Follows(receipt, ledger[receipt.parent])
           /\ Compliant(receipt, ledger[receipt.parent])
  PROVE  StudySpan' /\ OnlyAdmitted'
<1>1. Filed' = Filed \union {key}
  BY DEF Filed
<1>2. OnlyAdmitted'
  BY <1>1 DEF OnlyAdmitted
<1>3. ASSUME NEW d \in Filed
      PROVE  Start(ledger'[d]) = Start(ledger[d]) /\ Session(ledger'[d]) = Session(ledger[d])
  BY <1>3 DEF Start, Session
<1>4. SUFFICES ASSUME \A d \in Filed' : Session(ledger'[d]) # Nil,
                      NEW d \in Filed', ~Genesis(d)'
               PROVE  \E g \in Filed' :
                        /\ Genesis(g)'
                        /\ Start(ledger'[g]) # Nil
                        /\ Start(ledger'[d]) >= Start(ledger'[g])
                             + MinSeparation * (Session(ledger'[d]) - 1)
  BY <1>2 DEF StudySpan
<1>5. \A e \in Filed : Session(ledger[e]) # Nil
  BY <1>1, <1>3, <1>4
<1>6. ASSUME NEW e \in Filed, ~Genesis(e)
      PROVE  \E g \in Filed :
               /\ Genesis(g)
               /\ Start(ledger[g]) # Nil
               /\ Start(ledger[e]) >= Start(ledger[g])
                    + MinSeparation * (Session(ledger[e]) - 1)
  BY <1>5, <1>6 DEF StudySpan
<1>7. CASE d \in Filed
  <2>1. ~Genesis(d)
    BY <1>3, <1>4, <1>7 DEF Genesis
  <2>2. PICK g \in Filed :
          /\ Genesis(g)
          /\ Start(ledger[g]) # Nil
          /\ Start(ledger[d]) >= Start(ledger[g])
               + MinSeparation * (Session(ledger[d]) - 1)
    BY <1>6, <1>7, <2>1
  <2>3. /\ Start(ledger'[g]) = Start(ledger[g])
        /\ Session(ledger'[g]) = 1
        /\ Start(ledger'[d]) = Start(ledger[d])
        /\ Session(ledger'[d]) = Session(ledger[d])
    BY <1>3, <1>7, <2>2 DEF Genesis
  <2>4. Genesis(g)' /\ g \in Filed'
    BY <1>1, <2>3 DEF Genesis
  <2> QED
    BY <2>2, <2>3, <2>4
<1>8. CASE d \notin Filed
  <2> DEFINE p == receipt.parent
             n == Session(ledger'[d])
             at == Start(ledger'[d])
             pn == Session(ledger[p])
             pat == Start(ledger[p])
  <2>1. d = key /\ ledger'[d] = receipt
    BY <1>1, <1>8
  <2>2. /\ p \in Filed
        /\ at # Nil
        /\ pat # Nil
        /\ Follows(receipt, ledger[p])
        /\ at - pat >= MinSeparation
    BY <1>4, <2>1 DEF Genesis, Compliant
  <2>3. /\ n \in Int /\ at \in Int /\ pn \in Int /\ pat \in Int
        /\ MinSeparation \in Int
        /\ n = pn + 1
    <3>1. n \in Int /\ at \in Int
      BY <1>4, <2>2, EntryNumbers, StatesAssumption DEF TypeOK, Session, Start
    <3>2. pn \in Int /\ pat \in Int
      BY <1>5, <2>2, EntryNumbers
    <3>3. pn # Nil /\ n # Nil
      BY <1>4, <1>5, <2>2
    <3>4. n = pn + 1
      BY <2>1, <2>2, <3>3 DEF Follows
    <3> QED
      BY <3>1, <3>2, <3>4, MinSeparationAssumption
  <2>4. CASE Genesis(p)
    <3>1. pn = 1
      BY <2>4 DEF Genesis
    <3>2. Genesis(p)' /\ Start(ledger'[p]) = pat /\ p \in Filed'
      BY <1>1, <1>3, <2>2, <3>1 DEF Genesis
    <3>3. at >= pat + MinSeparation * (n - 1)
      <4> HIDE DEF n, at, pn, pat
      <4>1. n - 1 = 1
        BY <2>3, <3>1
      <4>2. MinSeparation * (n - 1) = MinSeparation
        BY <2>3, <4>1
      <4> QED
        BY <2>2, <2>3, <4>2
    <3> QED
      BY <2>2, <3>2, <3>3
  <2>5. CASE ~Genesis(p)
    <3>1. PICK g \in Filed :
            /\ Genesis(g)
            /\ Start(ledger[g]) # Nil
            /\ pat >= Start(ledger[g]) + MinSeparation * (pn - 1)
      BY <1>6, <2>2, <2>5
    <3> DEFINE gat == Start(ledger[g])
    <3>2. gat \in Int
      BY <3>1, EntryNumbers
    <3>3. at >= gat + MinSeparation * (n - 1)
      <4> HIDE DEF n, at, pn, pat, gat
      <4>1. MinSeparation * pn = MinSeparation * (pn - 1) + MinSeparation
        BY <2>3, OneMoreSeparation
      <4>2. n - 1 = pn
        BY <2>3
      <4>3. MinSeparation * (pn - 1) \in Int /\ MinSeparation * pn \in Int
        BY <2>3
      <4>4. pat >= gat + MinSeparation * (pn - 1)
        BY <3>1 DEF gat
      <4>5. at >= gat + MinSeparation * pn
        BY <2>2, <2>3, <3>2, <4>1, <4>3, <4>4
      <4> QED
        BY <4>2, <4>5
    <3>4. Genesis(g)' /\ Start(ledger'[g]) = gat /\ g \in Filed'
      BY <1>1, <1>3, <3>1 DEF Genesis
    <3> QED
      BY <3>1, <3>3, <3>4
  <2> QED
    BY <2>4, <2>5
<1> QED
  BY <1>1, <1>4, <1>7, <1>8

LEMMA SpanKept ==
  ASSUME ~FileHeld, TypeOK, TypeOK', EntriesJustified, HandFresh, StudySpan,
         OnlyAdmitted, [Next]_vars
  PROVE  StudySpan' /\ OnlyAdmitted'
<1>1. ASSUME NEW state \in States, Seed(state)
      PROVE  StudySpan' /\ OnlyAdmitted'
  <2> DEFINE receipt == Receipt(state, Nil, "PERMIT", {})
             key     == Digest(receipt.declared)
  <2>1. /\ ledger' = [d \in Filed \union {key} |-> IF d = key THEN receipt ELSE ledger[d]]
        /\ receipt.decision = "PERMIT"
        /\ Session(receipt) = 1
    BY <1>1, SeededAsWanted
  <2> HIDE DEF receipt
  <2>2. \A d \in Filed : ledger'[d].declared = ledger[d].declared
    BY <2>1, Overwriting
  <2> QED
    BY <2>1, <2>2, SpanWritten
<1>2. CASE File
  <2> DEFINE receipt == inHand.receipt
             key     == Digest(receipt.declared)
  <2>1. /\ ledger' = [d \in Filed \union {key} |-> IF d = key THEN receipt ELSE ledger[d]]
        /\ receipt.decision = "PERMIT"
        /\ Session(receipt) = 1 \/
             /\ receipt.parent \in Filed
             /\ Start(receipt) # Nil
             /\ Start(ledger[receipt.parent]) # Nil
             /\ Follows(receipt, ledger[receipt.parent])
             /\ Compliant(receipt, ledger[receipt.parent]) <=> receipt.decision = "PERMIT"
    BY <1>2, FiledAsWanted
  <2> HIDE DEF receipt
  <2>2. \A d \in Filed : ledger'[d].declared = ledger[d].declared
    BY <2>1, Overwriting
  <2> QED
    BY <2>1, <2>2, SpanWritten
<1>3. ASSUME UNCHANGED ledger
      PROVE  StudySpan' /\ OnlyAdmitted'
  BY <1>3 DEF StudySpan, OnlyAdmitted, Filed, Genesis
<1>4. CASE Build \/ SetAside
  BY <1>3, <1>4 DEF Build, SetAside
<1>5. ASSUME NEW receipt, NEW input, NEW output, Examine(receipt, input, output)
      PROVE  StudySpan' /\ OnlyAdmitted'
  BY <1>3, <1>5 DEF Examine
<1>6. ASSUME NEW receipt, NEW input, NEW output, Fail(receipt, input, output)
      PROVE  StudySpan' /\ OnlyAdmitted'
  BY <1>3, <1>6 DEF Fail, vars
<1>7. CASE UNCHANGED vars
  BY <1>3, <1>7 DEF vars
<1> QED
  BY <1>1, <1>2, <1>4, <1>5, <1>6, <1>7 DEF Next, CallVerify

-----------------------------------------------------------------------------
(* The theorems.                                                           *)

\* The audit starts with nothing filed and nothing in hand.
LEMMA InitHolds ==
  ASSUME Init
  PROVE  /\ TypeOK /\ Examinable /\ HandFresh
         /\ EntriesJustified /\ StudySpan /\ OnlyAdmitted
<1>1. Filed = {} /\ inHand = Nil /\ verifier = "unbuilt"
  BY DEF Init, Empty, Filed
<1>2. Cardinality(Filed) <= MaxFiled
  BY <1>1, FS_EmptySet, MaxFiledAssumption
<1> QED
  BY <1>1, <1>2
  DEF TypeOK, Examinable, HandFresh, EntriesJustified, StudySpan, OnlyAdmitted

\* The audit is well typed: an entry's receipt has a decision of the enum, the
\* verifier shares the caller's store only once it is not empty, and no result
\* is ever in hand before there is a verifier (verify, __init__).
THEOREM TypeCorrect == Spec => []TypeOK
<1> DEFINE I == TypeOK /\ Examinable /\ HandFresh
<1>1. Init => I
  BY InitHolds
<1>2. I /\ [Next]_vars => I'
  BY TypeKept, HandFreshKept
<1>3. I => TypeOK
  OBVIOUS
<1> QED
  BY <1>1, <1>2, <1>3, PTL DEF Spec

\* Everything that is filed on the word of verify is justified by what is
\* filed beneath it, and stays so whatever is filed or overwritten later
\* (_check_lineage, _check_temporal).
THEOREM LedgerJustified == Spec => []EntriesJustified
<1> DEFINE I == EntriesJustified /\ HandFresh
<1>1. Init => I
  BY InitHolds
<1>2. TypeOK /\ I /\ [Next]_vars => I'
  BY EntriesJustifiedKept, HandFreshKept
<1>3. I => EntriesJustified
  OBVIOUS
<1> QED
  BY <1>1, <1>2, <1>3, TypeCorrect, PTL DEF Spec

\* A caller that files only admitted receipts never holds a lineage shorter
\* than the replication unit allows: session n starts at least n - 1
\* separations after some first session (contract 5.1.1, 5.1.3).
THEOREM NoShortStudy == ~FileHeld => (Spec => []StudySpan)
<1> SUFFICES ASSUME ~FileHeld PROVE Spec => []StudySpan
  OBVIOUS
<1> DEFINE I == TypeOK /\ Examinable /\ HandFresh /\ EntriesJustified
                /\ StudySpan /\ OnlyAdmitted
<1>1. Init => I
  BY InitHolds
<1>2. I /\ [Next]_vars => I'
  BY TypeKept, HandFreshKept, EntriesJustifiedKept, SpanKept
<1>3. I => StudySpan
  OBVIOUS
<1> QED
  BY <1>1, <1>2, <1>3, PTL DEF Spec

\* Nothing verify says of any receipt is a complete success, because a
\* signature is never checked (_check_signature, VerificationResult.verified).
THEOREM NothingVerified == Spec => []NeverVerified
<1>1. HandFresh => NeverVerified
  <2> SUFFICES ASSUME HandFresh, inHand # Nil, Verified(inHand.checks) PROVE FALSE
    BY DEF NeverVerified
  <2> DEFINE receipt == inHand.receipt
             checks  == Verify(receipt, Store, inHand.input, inHand.output)
  <2>1. inHand.checks = checks
    BY DEF HandFresh
  <2>2. CheckSignature(receipt) \subseteq checks
    BY <2>1, SchemaPassed DEF Verified
  <2> HIDE DEF checks, receipt
  <2>3. CASE receipt.proved
    <3>1. [name |-> "signature", status |-> "UNVERIFIABLE"] \in inHand.checks
      BY <2>1, <2>2, <2>3 DEF CheckSignature, Check
    <3>2. "signature" \in UnverifiableChecks(inHand.checks)
      BY <3>1 DEF UnverifiableChecks
    <3> QED
      BY <3>2 DEF Verified
  <2>4. CASE ~receipt.proved
    <3>1. Check("signature", "FAIL") \subseteq inHand.checks
      BY <2>1, <2>2, <2>4 DEF CheckSignature
    <3> QED
      BY <3>1, CheckFailed DEF Verified
  <2> QED
    BY <2>3, <2>4
<1>2. Init => HandFresh
  BY InitHolds
<1>3. TypeOK /\ HandFresh /\ [Next]_vars => HandFresh'
  BY HandFreshKept
<1> QED
  BY <1>1, <1>2, <1>3, TypeCorrect, PTL DEF Spec

\* A receipt verify finds nothing wrong with explains its own decision and
\* leaves nothing behind that the decision forbids (_check_predicates,
\* _check_decision_derivation, _check_decision_consequences, _check_digests).
THEOREM CoherentAcceptance == Spec => []AcceptedIsCoherent
<1>1. HandFresh => AcceptedIsCoherent
  <2> SUFFICES ASSUME HandFresh, Accepted PROVE AcceptedIsCoherent
    BY DEF AcceptedIsCoherent
  <2> DEFINE receipt == inHand.receipt
             checks  == inHand.checks
  <2>1. checks = Verify(receipt, Store, inHand.input, inHand.output) /\ Passes(checks)
    BY DEF HandFresh, Accepted
  <2>3. /\ CheckOutput(receipt, inHand.output) \subseteq checks
        /\ CheckPredicates(receipt) \subseteq checks
        /\ CheckConsequence(receipt, inHand.output) \subseteq checks
        /\ CheckDerivation(receipt) \subseteq checks
        /\ SchemaHolds(receipt)
    <3> HIDE DEF receipt
    <3> QED
      BY <2>1, SchemaPassed DEF Passes
  <2> HIDE DEF receipt, checks
  <2>4. Invariants \subseteq Exposed(receipt)
    <3> SUFFICES ASSUME ~(Invariants \subseteq Exposed(receipt)) PROVE FALSE
      OBVIOUS
    <3>1. Check("predicate_exposure", "FAIL") \subseteq checks
      BY <2>3 DEF CheckPredicates
    <3> QED
      BY <2>1, <3>1, CheckNotFailed
  <2>5. /\ Test("predicate_evidence",
                \A i \in Invariants : /\ Predicate(receipt, i).evidence
                                      /\ Predicate(receipt, i).inputs) \subseteq checks
        /\ Test("predicate_results",
                \A i \in Invariants : Predicate(receipt, i).result \in {"PASS", "FAIL"})
             \subseteq checks
    BY <2>3, <2>4 DEF CheckPredicates
  <2>6. \A i \in Invariants : Predicate(receipt, i).evidence /\ Predicate(receipt, i).inputs
    BY <2>1, <2>5, TestPassed
  <2>7. \A i \in Invariants : Predicate(receipt, i).result \in {"PASS", "FAIL"}
    BY <2>1, <2>5, TestPassed
  <2>8. (receipt.decision = "PERMIT") <=> (Failing(receipt) = {})
    BY <2>1, <2>3, Derived DEF Passes
  <2>9. ASSUME receipt.decision # "PERMIT"
        PROVE  receipt.outputDigest = Nil /\ inHand.output = Nil
    <3>1. receipt.outputDigest = Nil
      <4>1. Test("output_digest", receipt.outputDigest = Nil) \subseteq checks
        BY <2>3, <2>9 DEF CheckOutput
      <4> QED
        BY <2>1, <4>1, TestPassed
    <3>2. receipt.decision = "PERMIT" \/ inHand.output = Nil
      BY <2>1, <2>3, TestPassed DEF CheckConsequence
    <3> QED
      BY <2>9, <3>1, <3>2
  <2> QED
    BY <2>4, <2>6, <2>7, <2>8, <2>9 DEF AcceptedIsCoherent, receipt
<1>2. Init => HandFresh
  BY InitHolds
<1>3. TypeOK /\ HandFresh /\ [Next]_vars => HandFresh'
  BY HandFreshKept
<1> QED
  BY <1>1, <1>2, <1>3, TypeCorrect, PTL DEF Spec

\* An accepted receipt is about the input it was verified with (_check_digests):
\* that has a canonical form, and its digest is the declared one.
THEOREM InputIsDescribed == Spec => []InputDescribed
<1>1. HandFresh => InputDescribed
  <2> SUFFICES ASSUME HandFresh, Accepted, inHand.input # Nil
               PROVE  inHand.receipt.inputDigest = Digest(inHand.input)
    BY DEF InputDescribed
  <2> DEFINE receipt == inHand.receipt
             checks  == inHand.checks
  <2>1. checks = Verify(receipt, Store, inHand.input, inHand.output) /\ Passes(checks)
    BY DEF HandFresh, Accepted
  <2>2. CheckInput(receipt, inHand.input) \subseteq checks
    <3> HIDE DEF receipt
    <3> QED
      BY <2>1, SchemaPassed DEF Passes
  <2> HIDE DEF receipt, checks
  <2>3. Recompute(inHand.input) # Nil /\ Recompute(inHand.input) = receipt.inputDigest
    BY <2>1, <2>2, TestPassed DEF CheckInput
  <2> QED
    BY <2>3 DEF Recompute, receipt
<1>2. Init => HandFresh
  BY InitHolds
<1>3. TypeOK /\ HandFresh /\ [Next]_vars => HandFresh'
  BY HandFreshKept
<1> QED
  BY <1>1, <1>2, <1>3, TypeCorrect, PTL DEF Spec

-----------------------------------------------------------------------------
(* Exact admission, lineages that are spaced and lineages with a root.     *)

\* None is neither a digest nor a receipt, and a declared state has a
\* canonical form.
NilIsNone ==
  /\ \A value : Digest(value) # Nil
  /\ Nil.decision \notin Decisions
  /\ Uncanonical \notin States

OneBackend == \A s, t \in States : s.backend = t.backend

-----------------------------------------------------------------------------
(* The predicates of a receipt of the regular shape.                       *)

LessThan == {pair \in Nat \X Nat : pair[1] < pair[2]}

\* A set of places in a list has a last one: the least number of places behind.
LEMMA LastPlace ==
  ASSUME NEW n \in Nat, NEW K, K \subseteq 1..n, K # {}
  PROVE  \E k \in K : \A j \in K : j <= k
<1> DEFINE behind == {n - k : k \in K}
<1>1. behind \subseteq Nat /\ behind # {}
  <2>1. \A k \in K : n - k \in Nat
    OBVIOUS
  <2>2. behind \subseteq Nat
    BY <2>1
  <2>3. PICK k \in K : TRUE
    OBVIOUS
  <2>4. n - k \in behind
    BY <2>3
  <2> QED
    BY <2>2, <2>4
<1>2. IsWellFoundedOn(LessThan, Nat)
  BY NatLessThanWellFounded DEF OpToRel, LessThan
<1>3. PICK m \in behind : \A l \in behind : <<l, m>> \notin LessThan
  <2> HIDE DEF behind
  <2> QED
    BY <1>1, <1>2, WFMin
<1>4. PICK k \in K : m = n - k
  BY <1>3
<1>5. ASSUME NEW j \in K PROVE j <= k
  <2>1. n - j \in behind /\ n - j \in Nat /\ m \in Nat
    BY <1>1
  <2>2. ~(n - j < m)
    BY <1>3, <2>1 DEF LessThan
  <2> QED
    BY <1>4, <2>2
<1> QED
  BY <1>5

\* There is a list of the invariants to fill a receipt with.
LEMMA ListedInvariants ==
  ASSUME IsFiniteSet(Invariants)
  PROVE  /\ Cardinality(Invariants) \in Nat
         /\ Listed \in [1..Cardinality(Invariants) -> Invariants]
         /\ \A i \in Invariants : \E k \in DOMAIN Listed : Listed[k] = i
<1>1. /\ Cardinality(Invariants) \in Nat
      /\ ExistsBijection(1..Cardinality(Invariants), Invariants)
  BY FS_CardinalityType
<1>2. \E list \in [1..Cardinality(Invariants) -> Invariants] :
        \A i \in Invariants : \E k \in DOMAIN list : list[k] = i
  BY <1>1 DEF ExistsBijection, Bijection, Surjection, Injection
<1> QED
  BY <1>1, <1>2 DEF Listed

\* A regular receipt without a failing predicate exposes all of them, passed
\* and with their evidence.
LEMMA HonestPredicates ==
  ASSUME IsFiniteSet(Invariants), NEW state, NEW parent
  PROVE  LET receipt == Receipt(state, parent, "PERMIT", {}) IN
         /\ Invariants \subseteq Exposed(receipt)
         /\ \A i \in Invariants : /\ Predicate(receipt, i).result = "PASS"
                                  /\ Predicate(receipt, i).evidence
                                  /\ Predicate(receipt, i).inputs
<1> DEFINE receipt == Receipt(state, parent, "PERMIT", {})
           n == Cardinality(Invariants)
<1>1. /\ DOMAIN receipt.predicates = 1..n /\ n \in Nat
      /\ \A k \in 1..n : /\ receipt.predicates[k].id = Listed[k]
                         /\ receipt.predicates[k].result = "PASS"
                         /\ receipt.predicates[k].evidence
                         /\ receipt.predicates[k].inputs
  BY ListedInvariants DEF Receipt
<1>2. \A i \in Invariants : \E k \in 1..n : receipt.predicates[k].id = i
  BY <1>1, ListedInvariants
<1> HIDE DEF receipt, n
<1>3. Invariants \subseteq Exposed(receipt)
  BY <1>1, <1>2 DEF Exposed
<1>4. ASSUME NEW i \in Invariants
      PROVE  \E k \in 1..n : Predicate(receipt, i) = receipt.predicates[k]
  <2> DEFINE K == {k \in 1..n : receipt.predicates[k].id = i}
  <2>1. PICK k \in K : \A j \in K : j <= k
    <3>1. K \subseteq 1..n /\ K # {}
      BY <1>2
    <3> HIDE DEF K
    <3> QED
      BY <1>1, <3>1, LastPlace
  <2>2. \E l \in DOMAIN receipt.predicates :
          /\ receipt.predicates[l].id = i
          /\ \A j \in DOMAIN receipt.predicates : receipt.predicates[j].id = i => j <= l
    BY <1>1, <2>1
  <2> QED
    BY <1>1, <2>2 DEF Predicate
<1> QED
  BY <1>1, <1>3, <1>4 DEF receipt

-----------------------------------------------------------------------------
(* No check stops what the contract admits.                                *)

LEMMA NoFailure ==
  ASSUME NEW checks, \A c \in checks : c.status # "FAIL"
  PROVE  Passes(checks)
BY DEF Passes, FailedChecks

LEMMA TestOf ==
  ASSUME NEW name, NEW P \in BOOLEAN, P
  PROVE  \A c \in Test(name, P) : c.status # "FAIL"
BY DEF Test, Check

\* An honest PERMIT passes if its lineage holds and its separation is kept.
LEMMA HonestPasses ==
  ASSUME IsFiniteSet(Invariants), NEW state, NEW parent, NEW store,
         LineageHolds(Receipt(state, parent, "PERMIT", {}), store),
         \A c \in CheckTemporal(Receipt(state, parent, "PERMIT", {}), store) : c.status # "FAIL"
  PROVE  Passes(Verify(Receipt(state, parent, "PERMIT", {}), store, Nil, Nil))
<1> DEFINE receipt == Receipt(state, parent, "PERMIT", {})
<1>1. receipt.complete /\ receipt.decision = "PERMIT" /\ receipt.proved
  BY DEF Receipt
<1>2. /\ Invariants \subseteq Exposed(receipt)
      /\ \A i \in Invariants : /\ Predicate(receipt, i).result = "PASS"
                               /\ Predicate(receipt, i).evidence
                               /\ Predicate(receipt, i).inputs
  BY HonestPredicates
<1>3. LineageHolds(receipt, store)
  OBVIOUS
<1>4. \A c \in CheckTemporal(receipt, store) : c.status # "FAIL"
  OBVIOUS
<1> HIDE DEF receipt
<1>5. SchemaHolds(receipt)
  BY <1>1 DEF SchemaHolds, Decisions
<1>6. /\ \A c \in CheckInput(receipt, Nil) : c.status # "FAIL"
      /\ \A c \in CheckOutput(receipt, Nil) : c.status # "FAIL"
      /\ \A c \in CheckSignature(receipt) : c.status # "FAIL"
  BY <1>1 DEF CheckInput, CheckOutput, CheckSignature, Check
<1>7. \A c \in CheckPredicates(receipt) : c.status # "FAIL"
  BY <1>2 DEF CheckPredicates, Test, Check
<1>8. \A c \in CheckLineage(receipt, store) : c.status # "FAIL"
  BY <1>3 DEF CheckLineage, Test, Check
<1>9. \A c \in CheckConsequence(receipt, Nil) : c.status # "FAIL"
  BY <1>1 DEF CheckConsequence, Test, Check
<1>10. \A c \in CheckDerivation(receipt) : c.status # "FAIL"
  <2>1. Failing(receipt) = {}
    BY <1>2 DEF Failing
  <2> QED
    BY <1>1, <2>1 DEF CheckDerivation, Test, Check
<1>11. \A c \in Verify(receipt, store, Nil, Nil) : c.status # "FAIL"
  BY <1>4, <1>5, <1>6, <1>7, <1>8, <1>9, <1>10 DEF Verify, Check
<1> QED
  BY <1>11, NoFailure DEF receipt

-----------------------------------------------------------------------------
\* What an entry of the store is to the session that names it as its parent.
LEMMA EntryAsParent ==
  ASSUME NilIsNone, TypeOK, EntriesJustified, NEW p \in Filed, Session(ledger[p]) # Nil
  PROVE  /\ ledger[p] # Nil /\ p # Nil
         /\ ledger[p].declared \in States
         /\ Recompute(ledger[p].declared) = p
<1>1. ledger[p] # Nil
  BY DEF TypeOK, NilIsNone
<1>2. ledger[p].declared \in States
  BY DEF TypeOK, Session
<1>3. p = Digest(ledger[p].declared)
  BY DEF EntriesJustified, Justified
<1> QED
  BY <1>1, <1>2, <1>3 DEF NilIsNone, Recompute

LEMMA PassesIfAdmitted ==
  ASSUME NilIsNone, IsFiniteSet(Invariants), TypeOK, EntriesJustified,
         NEW state \in States, NEW parent,
         parent \in Filed => Session(ledger[parent]) # Nil,
         ContractAdmits(state, parent)
  PROVE  Passes(Verify(Receipt(state, parent, "PERMIT", {}), ledger, Nil, Nil))
<1> DEFINE receipt == Receipt(state, parent, "PERMIT", {})
<1>1. /\ receipt.declared = state /\ receipt.parent = parent /\ receipt.decision = "PERMIT"
      /\ Session(receipt) = state.session /\ Start(receipt) = state.start
  BY StatesAssumption DEF Receipt, Session, Start
<1>2. CASE state.session = 1
  <2>1. parent = Nil
    BY <1>2 DEF ContractAdmits
  <2> HIDE DEF receipt
  <2>2. LineageHolds(receipt, ledger)
    BY <1>1, <1>2, <2>1 DEF LineageHolds
  <2>3. \A c \in CheckTemporal(receipt, ledger) : c.status # "FAIL"
    BY <1>1, <1>2 DEF CheckTemporal, Check
  <2> QED
    BY <2>2, <2>3, HonestPasses DEF receipt
<1>3. CASE state.session # 1
  <2>1. /\ parent \in Filed /\ state.start # Nil /\ Start(ledger[parent]) # Nil
        /\ state.session = Session(ledger[parent]) + 1
        /\ state.start - Start(ledger[parent]) >= MinSeparation
    BY <1>3 DEF ContractAdmits
  <2>2. /\ ledger[parent] # Nil /\ parent # Nil
        /\ Recompute(ledger[parent].declared) = parent
        /\ Resolve(ledger, parent) = ledger[parent]
    BY <2>1, EntryAsParent DEF Resolve, Filed
  <2> HIDE DEF receipt
  <2>3. LineageHolds(receipt, ledger)
    BY <1>1, <1>3, <2>1, <2>2 DEF LineageHolds, Follows
  <2>4. Compliant(receipt, ledger[parent])
    BY <1>1, <2>1 DEF Compliant
  <2>5. CheckTemporal(receipt, ledger) = CheckSeparation(receipt, ledger[parent])
    BY <1>1, <1>3, <2>1, <2>2 DEF CheckTemporal
  <2>6. \A c \in CheckSeparation(receipt, ledger[parent]) : c.status # "FAIL"
    BY <1>1, <2>4 DEF CheckSeparation, Test, Check
  <2> QED
    BY <2>3, <2>5, <2>6, HonestPasses DEF receipt
<1> QED
  BY <1>2, <1>3

LEMMA AdmittedIfPasses ==
  ASSUME NilIsNone, OneBackend, TypeOK, EntriesJustified,
         NEW state \in States, NEW parent, state.session # Nil,
         parent \in Filed => Session(ledger[parent]) # Nil,
         Passes(Verify(Receipt(state, parent, "PERMIT", {}), ledger, Nil, Nil))
  PROVE  ContractAdmits(state, parent)
<1> DEFINE receipt == Receipt(state, parent, "PERMIT", {})
<1>1. /\ receipt.declared = state /\ receipt.parent = parent /\ receipt.decision = "PERMIT"
      /\ Session(receipt) = state.session /\ Start(receipt) = state.start
  BY StatesAssumption DEF Receipt, Session, Start
<1>2. CASE state.session = 1
  <2>1. LineageHolds(receipt, ledger)
    BY PassingReceipt
  <2> HIDE DEF receipt
  <2> QED
    BY <1>1, <1>2, <2>1 DEF LineageHolds, ContractAdmits
<1>3. CASE state.session # 1
  <2>1. /\ receipt.parent \in DOMAIN ledger
        /\ Start(receipt) # Nil
        /\ Start(ledger[receipt.parent]) # Nil
        /\ Follows(receipt, ledger[receipt.parent])
        /\ Compliant(receipt, ledger[receipt.parent]) <=> receipt.decision = "PERMIT"
    <3>1. Session(receipt) # 1
      BY <1>1, <1>3
    <3> QED
      BY <3>1, PassingSuccessor
  <2> HIDE DEF receipt
  <2>2. /\ parent \in Filed /\ Session(ledger[parent]) # Nil
        /\ ledger[parent].declared \in States
    BY <1>1, <2>1, EntryAsParent DEF Filed
  <2>3. state.backend = ledger[parent].declared.backend
    BY <2>2 DEF OneBackend
  <2>4. state.session = Session(ledger[parent]) + 1
    BY <1>1, <2>1, <2>2 DEF Follows
  <2> QED
    BY <1>1, <1>3, <2>1, <2>2, <2>3, <2>4 DEF Compliant, ContractAdmits
<1> QED
  BY <1>2, <1>3

\* A verifier over the caller's store lets the honest PERMIT of a session pass
\* exactly if the contract admits it (_check_lineage, _check_temporal), for any
\* states of one backend, which no check compares.
THEOREM ExactAdmission ==
  (NilIsNone /\ OneBackend /\ IsFiniteSet(Invariants)) => (Spec => []AdmissionExact)
<1> SUFFICES ASSUME NilIsNone, OneBackend, IsFiniteSet(Invariants)
             PROVE  Spec => []AdmissionExact
  OBVIOUS
<1>1. TypeOK /\ EntriesJustified => AdmissionExact
  <2> SUFFICES ASSUME TypeOK, EntriesJustified, verifier = "shared",
                      NEW state \in States, NEW parent \in Parents, state.session # Nil,
                      parent \in Filed => Session(ledger[parent]) # Nil
               PROVE  Passes(Verify(Receipt(state, parent, "PERMIT", {}), Store, Nil, Nil))
                        <=> ContractAdmits(state, parent)
    BY DEF AdmissionExact
  <2>1. Store = ledger
    BY DEF Store
  <2> QED
    BY <2>1, PassesIfAdmitted, AdmittedIfPasses
<1> QED
  BY <1>1, TypeCorrect, LedgerJustified, PTL

-----------------------------------------------------------------------------
(* The ancestors of an entry, level by level.                              *)

\* The entries reached from d in at most n steps, given those in n - 1.
Level(before, n) ==
  IF n = 0
  THEN [d \in Filed |-> {}]
  ELSE [d \in Filed |->
          IF ledger[d].parent \in Filed
          THEN {ledger[d].parent} \union before[n - 1][ledger[d].parent]
          ELSE {}]

LevelsUpTo(m, f) == f = [n \in 0..m |-> Level(f, n)]

\* The recursion defines something: of the numbers up to which there are no
\* levels there is no least.
LEMMA LevelsExist == \E f : LevelsUpTo(MaxFiled, f)
<1> DEFINE without == {m \in 0..MaxFiled : ~\E f : LevelsUpTo(m, f)}
<1> SUFFICES ASSUME without # {} PROVE FALSE
  BY MaxFiledAssumption
<1>1. without \subseteq Nat
  BY MaxFiledAssumption
<1>2. IsWellFoundedOn(LessThan, Nat)
  BY NatLessThanWellFounded DEF OpToRel, LessThan
<1>3. PICK m \in without : \A l \in without : <<l, m>> \notin LessThan
  <2> HIDE DEF without
  <2> QED
    BY <1>1, <1>2, WFMin
<1>4. m \in 0..MaxFiled /\ m \in Nat /\ ~\E f : LevelsUpTo(m, f)
  BY <1>1
<1> HIDE DEF without
<1>5. m # 0
  <2> SUFFICES ASSUME m = 0 PROVE FALSE
    OBVIOUS
  <2> DEFINE f == [n \in 0..0 |-> [d \in Filed |-> {}]]
  <2>1. \A n \in 0..0 : Level(f, n) = [d \in Filed |-> {}]
    BY DEF Level
  <2>2. LevelsUpTo(0, f)
    BY <2>1 DEF LevelsUpTo
  <2> QED
    BY <1>4, <2>2
<1>6. PICK g : LevelsUpTo(m - 1, g)
  <2>1. m - 1 \in 0..MaxFiled /\ <<m - 1, m>> \in LessThan
    BY <1>4, <1>5, MaxFiledAssumption DEF LessThan
  <2>2. m - 1 \notin without
    BY <1>3, <2>1
  <2> QED
    BY <2>1, <2>2 DEF without
<1> DEFINE f == [n \in 0..m |-> IF n = m THEN Level(g, m) ELSE g[n]]
<1>7. \A n \in 0..(m - 1) : f[n] = g[n] /\ g[n] = Level(g, n)
  BY <1>4, <1>6 DEF LevelsUpTo
<1>8. ASSUME NEW n \in 0..m PROVE f[n] = Level(f, n)
  <2>1. f[n] = Level(g, n)
    <3>1. CASE n = m
      BY <3>1
    <3>2. CASE n # m
      <4>1. n \in 0..(m - 1)
        BY <1>4, <3>2
      <4> QED
        BY <1>7, <4>1
    <3> QED
      BY <3>1, <3>2
  <2>2. n # 0 => f[n - 1] = g[n - 1]
    BY <1>4, <1>7
  <2> HIDE DEF f
  <2>3. Level(f, n) = Level(g, n)
    BY <2>2 DEF Level
  <2> QED
    BY <2>1, <2>3
<1>9. f = [n \in 0..m |-> Level(f, n)]
  BY <1>8
<1> QED
  BY <1>4, <1>9 DEF LevelsUpTo

LEMMA AncestryIsLevel ==
  \E f : LevelsUpTo(MaxFiled, f) /\ Ancestry = f[MaxFiled]
<1> DEFINE levels == CHOOSE f : f = [n \in 0..MaxFiled |-> Level(f, n)]
<1>1. levels = [n \in 0..MaxFiled |-> Level(levels, n)]
  BY LevelsExist DEF LevelsUpTo
<1>2. Ancestry = levels[MaxFiled]
  BY DEF Ancestry, Level
<1> QED
  BY <1>1, <1>2 DEF LevelsUpTo

\* A transitive relation that holds of every entry and its parent holds of every
\* entry and its ancestors: of the levels it fails on there is no least.
LEMMA AncestorsRelated ==
  ASSUME NEW R,
         \A d \in Filed : ledger[d].parent \in Filed => <<d, ledger[d].parent>> \in R,
         \A d, p, a \in Filed : <<d, p>> \in R /\ <<p, a>> \in R => <<d, a>> \in R,
         NEW f, LevelsUpTo(MaxFiled, f)
  PROVE  \A n \in 0..MaxFiled : \A d \in Filed :
           f[n][d] \subseteq {a \in Filed : <<d, a>> \in R}
<1> DEFINE Related(d, a) == a \in Filed /\ <<d, a>> \in R
           failing == {n \in 0..MaxFiled : \E d \in Filed : \E a \in f[n][d] : ~Related(d, a)}
<1>1. \A n \in 0..MaxFiled : f[n] = Level(f, n)
  BY DEF LevelsUpTo
<1>2. failing = {}
  <2> SUFFICES ASSUME failing # {} PROVE FALSE
    OBVIOUS
  <2>1. failing \subseteq Nat
    BY MaxFiledAssumption
  <2>2. IsWellFoundedOn(LessThan, Nat)
    BY NatLessThanWellFounded DEF OpToRel, LessThan
  <2>3. PICK n \in failing : \A l \in failing : <<l, n>> \notin LessThan
    <3> HIDE DEF failing
    <3> QED
      BY <2>1, <2>2, WFMin
  <2>4. n \in 0..MaxFiled /\ n \in Nat
    BY <2>1
  <2>5. PICK d \in Filed : \E b \in f[n][d] : ~Related(d, b)
    BY <2>3
  <2>6. PICK a \in f[n][d] : ~Related(d, a)
    BY <2>5
  <2>7. f[n] = Level(f, n)
    BY <1>1, <2>4
  <2>8. /\ n # 0
        /\ ledger[d].parent \in Filed
        /\ a = ledger[d].parent \/ a \in f[n - 1][ledger[d].parent]
    BY <2>6, <2>7 DEF Level
  <2>9. a \in f[n - 1][ledger[d].parent]
    BY <2>6, <2>8
  <2>10. ~Related(ledger[d].parent, a)
    BY <2>6, <2>8
  <2>11. n - 1 \in 0..MaxFiled /\ <<n - 1, n>> \in LessThan
    BY <2>4, <2>8, MaxFiledAssumption DEF LessThan
  <2>12. n - 1 \in failing
    BY <2>8, <2>9, <2>10, <2>11
  <2> QED
    BY <2>3, <2>11, <2>12
<1> QED
  BY <1>2

-----------------------------------------------------------------------------
(* The spacing of a lineage.                                               *)

\* A first session names no parent.
Rooted == \A d \in Filed : Genesis(d) => ledger[d].parent = Nil

\* What an entry that names a filed parent is to it.
LEMMA Link ==
  ASSUME NilIsNone, TypeOK, EntriesJustified, Rooted,
         NEW d \in Filed, ledger[d].parent \in Filed
  PROVE  LET p == ledger[d].parent IN
         /\ ~Genesis(d)
         /\ Start(ledger[d]) \in Int /\ Start(ledger[d]) # Nil
         /\ Start(ledger[p]) \in Int /\ Start(ledger[p]) # Nil
         /\ Follows(ledger[d], ledger[p])
         /\ Compliant(ledger[d], ledger[p]) <=> ledger[d].decision = "PERMIT"
<1>1. ~Genesis(d)
  <2>1. ledger[d].parent # Nil
    BY DEF EntriesJustified, Justified, NilIsNone
  <2> QED
    BY <2>1 DEF Rooted
<1>2. /\ Start(ledger[d]) # Nil
      /\ Start(ledger[ledger[d].parent]) # Nil
      /\ Follows(ledger[d], ledger[ledger[d].parent])
      /\ Compliant(ledger[d], ledger[ledger[d].parent]) <=> ledger[d].decision = "PERMIT"
  BY <1>1 DEF EntriesJustified, Justified
<1>3. Start(ledger[d]) \in Int /\ Start(ledger[ledger[d].parent]) \in Int
  BY <1>2, EntryNumbers
<1> QED
  BY <1>1, <1>2, <1>3

\* If all entries are admitted and justified, an entry is a separation or more
\* behind its parent, so all the more behind the ancestors of its parent.
LEMMA SpacedIfJustified ==
  ASSUME NilIsNone, TypeOK, EntriesJustified, OnlyAdmitted, Rooted
  PROVE  AncestorsSpaced
<1> DEFINE R == {pair \in Filed \X Filed :
                   /\ Start(ledger[pair[1]]) \in Int /\ Start(ledger[pair[2]]) \in Int
                   /\ Start(ledger[pair[2]]) # Nil
                   /\ Compliant(ledger[pair[1]], ledger[pair[2]])}
<1>1. \A d \in Filed : ledger[d].parent \in Filed => <<d, ledger[d].parent>> \in R
  BY Link DEF OnlyAdmitted
<1>2. \A d, p, a \in Filed : <<d, p>> \in R /\ <<p, a>> \in R => <<d, a>> \in R
  BY MinSeparationAssumption DEF Compliant
<1>3. PICK f : LevelsUpTo(MaxFiled, f) /\ Ancestry = f[MaxFiled]
  BY AncestryIsLevel
<1>4. MaxFiled \in 0..MaxFiled
  BY MaxFiledAssumption
<1>5. \A d \in Filed : Ancestry[d] \subseteq {a \in Filed : <<d, a>> \in R}
  <2> HIDE DEF R
  <2> QED
    BY <1>1, <1>2, <1>3, <1>4, AncestorsRelated
<1> QED
  BY <1>5 DEF AncestorsSpaced

LEMMA RootedKept ==
  ASSUME Rooted, EntriesJustified, HandFresh, [Next]_vars
  PROVE  Rooted'
<1>1. ASSUME NEW receipt,
             ledger' = [d \in Filed \union {Digest(receipt.declared)} |->
                          IF d = Digest(receipt.declared) THEN receipt ELSE ledger[d]],
             Session(receipt) = 1 => receipt.parent = Nil
      PROVE  Rooted'
  BY <1>1 DEF Rooted, Filed, Genesis
<1>2. ASSUME NEW state \in States, Seed(state)
      PROVE  Rooted'
  <2>1. Receipt(state, Nil, "PERMIT", {}).parent = Nil
    BY DEF Receipt
  <2> QED
    BY <1>1, <1>2, <2>1, SeededAsWanted
<1>3. CASE File
  <2>1. Session(inHand.receipt) = 1 => inHand.receipt.parent = Nil
    <3>1. Passes(Verify(inHand.receipt, Store, inHand.input, inHand.output))
      BY <1>3 DEF File, HandFresh
    <3>2. LineageHolds(inHand.receipt, Store)
      BY <3>1, PassingReceipt
    <3> QED
      BY <3>2 DEF LineageHolds
  <2> QED
    BY <1>1, <1>3, <2>1, FiledAsWanted
<1>4. ASSUME UNCHANGED ledger
      PROVE  Rooted'
  BY <1>4 DEF Rooted, Filed, Genesis
<1>5. CASE Build \/ SetAside
  BY <1>4, <1>5 DEF Build, SetAside
<1>6. ASSUME NEW receipt, NEW input, NEW output, Examine(receipt, input, output)
      PROVE  Rooted'
  BY <1>4, <1>6 DEF Examine
<1>7. ASSUME NEW receipt, NEW input, NEW output, Fail(receipt, input, output)
      PROVE  Rooted'
  BY <1>4, <1>7 DEF Fail, vars
<1>8. CASE UNCHANGED vars
  BY <1>4, <1>8 DEF vars
<1> QED
  BY <1>2, <1>3, <1>5, <1>6, <1>7, <1>8 DEF Next, CallVerify

\* If only admitted receipts are filed, two sessions of which one descends from
\* the other are a separation or more apart, over any number of links, although
\* verify looks one step back (_check_temporal).
THEOREM LineagesAreSpaced == (NilIsNone /\ ~FileHeld) => (Spec => []AncestorsSpaced)
<1> SUFFICES ASSUME NilIsNone, ~FileHeld PROVE Spec => []AncestorsSpaced
  OBVIOUS
<1> DEFINE I == TypeOK /\ Examinable /\ HandFresh /\ EntriesJustified
                /\ StudySpan /\ OnlyAdmitted /\ Rooted
<1>1. Init => I
  <2>1. Init => Rooted
    BY DEF Init, Rooted, Filed, Empty
  <2> QED
    BY <2>1, InitHolds
<1>2. I /\ [Next]_vars => I'
  BY TypeKept, HandFreshKept, EntriesJustifiedKept, SpanKept, RootedKept
<1>3. I => AncestorsSpaced
  BY SpacedIfJustified
<1> QED
  BY <1>1, <1>2, <1>3, PTL DEF Spec

-----------------------------------------------------------------------------
(* Every lineage leads back to a first session.                            *)

FiniteLedger == IsFiniteSet(Filed)

Indexed == \A d \in Filed : Session(ledger[d]) # Nil

\* An ancestor has a lower index.
LEMMA AncestorsPrecede ==
  ASSUME NilIsNone, TypeOK, EntriesJustified, Rooted, Indexed,
         NEW f, LevelsUpTo(MaxFiled, f)
  PROVE  \A n \in 0..MaxFiled : \A d \in Filed : f[n][d] \subseteq Filed /\ d \notin f[n][d]
<1> DEFINE R == {pair \in Filed \X Filed :
                   Session(ledger[pair[2]]) < Session(ledger[pair[1]])}
<1>1. \A d \in Filed : Session(ledger[d]) \in Int
  BY EntryNumbers DEF Indexed
<1>2. ASSUME NEW d \in Filed, ledger[d].parent \in Filed
      PROVE  <<d, ledger[d].parent>> \in R
  <2>1. Session(ledger[d]) = Session(ledger[ledger[d].parent]) + 1
    BY <1>2, Link DEF Follows, Indexed
  <2> QED
    BY <1>1, <1>2, <2>1
<1>3. \A d, p, a \in Filed : <<d, p>> \in R /\ <<p, a>> \in R => <<d, a>> \in R
  BY <1>1
<1>4. \A d \in Filed : <<d, d>> \notin R
  BY <1>1
<1> HIDE DEF R
<1>5. \A n \in 0..MaxFiled : \A d \in Filed :
        f[n][d] \subseteq {a \in Filed : <<d, a>> \in R}
  BY <1>2, <1>3, AncestorsRelated
<1> QED
  BY <1>4, <1>5

\* Either a first session is among the first n ancestors, or there are n.
LEMMA RootOrMany ==
  ASSUME NilIsNone, TypeOK, EntriesJustified, Rooted, Indexed, FiniteLedger,
         NEW f, LevelsUpTo(MaxFiled, f)
  PROVE  \A n \in 0..MaxFiled : \A d \in Filed :
           \/ Genesis(d) \/ \E a \in f[n][d] : Genesis(a)
           \/ Cardinality(f[n][d]) >= n
<1> DEFINE Claim(n, d) == \/ Genesis(d) \/ \E a \in f[n][d] : Genesis(a)
                          \/ Cardinality(f[n][d]) >= n
           failing == {n \in 0..MaxFiled : \E d \in Filed : ~Claim(n, d)}
<1>1. \A n \in 0..MaxFiled : f[n] = Level(f, n)
  BY DEF LevelsUpTo
<1>2. \A n \in 0..MaxFiled : \A d \in Filed :
        /\ f[n][d] \subseteq Filed /\ d \notin f[n][d]
        /\ IsFiniteSet(f[n][d]) /\ Cardinality(f[n][d]) \in Nat
  BY AncestorsPrecede, FS_Subset, FS_CardinalityType DEF FiniteLedger
<1>3. failing = {}
  <2> SUFFICES ASSUME failing # {} PROVE FALSE
    OBVIOUS
  <2>1. failing \subseteq Nat
    BY MaxFiledAssumption
  <2>2. IsWellFoundedOn(LessThan, Nat)
    BY NatLessThanWellFounded DEF OpToRel, LessThan
  <2>3. PICK n \in failing : \A l \in failing : <<l, n>> \notin LessThan
    <3> HIDE DEF failing
    <3> QED
      BY <2>1, <2>2, WFMin
  <2>4. n \in 0..MaxFiled /\ n \in Nat
    BY <2>1
  <2>5. PICK d \in Filed : ~Claim(n, d)
    BY <2>3
  <2>6. n # 0
    BY <1>2, <2>4, <2>5
  <2> DEFINE p == ledger[d].parent
  <2>7. p \in Filed
    BY <2>5 DEF EntriesJustified, Justified
  <2>8. f[n][d] = {p} \union f[n - 1][p]
    BY <1>1, <2>4, <2>6, <2>7 DEF Level
  <2>9. n - 1 \in 0..MaxFiled /\ <<n - 1, n>> \in LessThan
    BY <2>4, <2>6, MaxFiledAssumption DEF LessThan
  <2>10. Claim(n - 1, p)
    <3>1. n - 1 \notin failing
      BY <2>3, <2>9
    <3> HIDE DEF Claim
    <3> QED
      BY <2>7, <2>9, <3>1
  <2>11. Cardinality(f[n - 1][p]) >= n - 1
    BY <2>5, <2>8, <2>10
  <2>12. Cardinality({p} \union f[n - 1][p]) = Cardinality(f[n - 1][p]) + 1
    <3>1. p \notin f[n - 1][p] /\ IsFiniteSet(f[n - 1][p])
      BY <1>2, <2>7, <2>9
    <3>2. {p} \union f[n - 1][p] = f[n - 1][p] \union {p}
      OBVIOUS
    <3> HIDE DEF p
    <3> QED
      BY <3>1, <3>2, FS_AddElement
  <2>13. Cardinality(f[n - 1][p]) \in Nat
    BY <1>2, <2>7, <2>9
  <2>14. Cardinality(f[n][d]) >= n
    <3> HIDE DEF p
    <3> QED
      BY <2>4, <2>8, <2>11, <2>12, <2>13
  <2> QED
    BY <2>5, <2>14
<1> QED
  BY <1>3

\* Without a first session behind it an entry would have as many ancestors as
\* there are entries, itself not among them.
LEMMA GenesisReached ==
  ASSUME NilIsNone, TypeOK, EntriesJustified, Rooted, FiniteLedger
  PROVE  ReachesGenesis
<1> SUFFICES ASSUME Indexed, NEW d \in Filed
             PROVE  /\ d \notin Ancestry[d]
                    /\ Genesis(d) \/ \E a \in Ancestry[d] : Genesis(a)
  BY DEF ReachesGenesis, Indexed
<1>1. PICK f : LevelsUpTo(MaxFiled, f) /\ Ancestry = f[MaxFiled]
  BY AncestryIsLevel
<1>2. MaxFiled \in 0..MaxFiled
  BY MaxFiledAssumption
<1>3. Ancestry[d] \subseteq Filed /\ d \notin Ancestry[d]
  BY <1>1, <1>2, AncestorsPrecede
<1>4. \/ Genesis(d) \/ \E a \in Ancestry[d] : Genesis(a)
      \/ Cardinality(Ancestry[d]) >= MaxFiled
  BY <1>1, <1>2, RootOrMany
<1>5. ~(Cardinality(Ancestry[d]) >= MaxFiled)
  <2>1. IsFiniteSet(Ancestry[d]) /\ Cardinality(Ancestry[d]) \in Nat
    BY <1>3, FS_Subset, FS_CardinalityType DEF FiniteLedger
  <2>2. Cardinality(Ancestry[d] \union {d}) = Cardinality(Ancestry[d]) + 1
    BY <1>3, <2>1, FS_AddElement
  <2>3. /\ Cardinality(Ancestry[d] \union {d}) <= Cardinality(Filed)
        /\ Cardinality(Filed) \in Nat
    BY <1>3, FS_Subset, FS_CardinalityType DEF FiniteLedger
  <2>4. Cardinality(Filed) <= MaxFiled
    BY DEF TypeOK
  <2> QED
    BY <2>1, <2>2, <2>3, <2>4, MaxFiledAssumption
<1> QED
  BY <1>3, <1>4, <1>5

LEMMA FiniteKept ==
  ASSUME FiniteLedger, HandFresh, [Next]_vars
  PROVE  FiniteLedger'
<1>1. ASSUME NEW key, Filed' = Filed \union {key}
      PROVE  FiniteLedger'
  BY <1>1, FS_AddElement DEF FiniteLedger
<1>2. ASSUME NEW state \in States, Seed(state)
      PROVE  FiniteLedger'
  <2>1. Filed' = Filed \union {Digest(state)}
    BY <1>2 DEF Seed, Filed
  <2> QED
    BY <1>1, <2>1
<1>3. CASE File
  <2>1. Filed' = Filed \union {Key(inHand.receipt)}
    BY <1>3 DEF File, Filed
  <2> QED
    BY <1>1, <2>1
<1>4. ASSUME UNCHANGED ledger
      PROVE  FiniteLedger'
  BY <1>4 DEF FiniteLedger, Filed
<1>5. CASE Build \/ SetAside
  BY <1>4, <1>5 DEF Build, SetAside
<1>6. ASSUME NEW receipt, NEW input, NEW output, Examine(receipt, input, output)
      PROVE  FiniteLedger'
  BY <1>4, <1>6 DEF Examine
<1>7. ASSUME NEW receipt, NEW input, NEW output, Fail(receipt, input, output)
      PROVE  FiniteLedger'
  BY <1>4, <1>7 DEF Fail, vars
<1>8. CASE UNCHANGED vars
  BY <1>4, <1>8 DEF vars
<1> QED
  BY <1>2, <1>3, <1>5, <1>6, <1>7, <1>8 DEF Next, CallVerify

\* Whatever is filed, held or admitted, and overwritten: if every filed receipt
\* carries an index, none descends from itself and every lineage starts with a
\* first session (_check_lineage looks one step back).
THEOREM LineagesAreRooted == NilIsNone => (Spec => []ReachesGenesis)
<1> SUFFICES ASSUME NilIsNone PROVE Spec => []ReachesGenesis
  OBVIOUS
<1> DEFINE I == TypeOK /\ Examinable /\ HandFresh /\ EntriesJustified
                /\ Rooted /\ FiniteLedger
<1>1. Init => I
  <2>1. Init => Rooted /\ FiniteLedger
    BY FS_EmptySet DEF Init, Rooted, FiniteLedger, Filed, Empty
  <2> QED
    BY <2>1, InitHolds
<1>2. I /\ [Next]_vars => I'
  BY TypeKept, HandFreshKept, EntriesJustifiedKept, RootedKept, FiniteKept
<1>3. I => ReachesGenesis
  BY GenesisReached
<1> QED
  BY <1>1, <1>2, <1>3, PTL DEF Spec
=============================================================================
