---------------------------- MODULE DecodeProofs ----------------------------
(***************************************************************************)
(* What the capability's output artifact stands for, for inputs of any     *)
(* size and any code, and for what is extracted of histograms of any       *)
(* length.                                                                 *)
(***************************************************************************)
EXTENDS DecodeSession, FiniteSetTheorems, SequenceTheorems, WellFoundedInduction, TLAPS

\* What the loop has established about the records it has passed.
Passed ==
  /\ index \in Nat \ {0}
  /\ phase \in {"load", "decode", "table"} => index = 1
  /\ phase = "table" => Len(input.records) = input.shots
  /\ phase = "records" =>
       /\ Len(input.records) = input.shots
       /\ \A k \in DOMAIN input.records : k < index => WellFormed(input.records[k])

\* The records before the next one that a correction flips, and the events of
\* a round in them.
Flipped(n) == {k \in DOMAIN input.records : k < n /\ Table(Code)[input.records[k].ones] = 1}

EventsBefore(n, r) ==
  {e \in (DOMAIN input.records) \X Detectors(Code) :
     /\ e[1] < n
     /\ e[2] \in input.records[e[1]].ones
     /\ Round(Code, e[2]) = r}

\* Both are what has been counted.
Tallied ==
  /\ phase \in {"load", "decode", "table"} => count = 0
  /\ phase = "records" =>
       /\ Buildable(Code)
       /\ count = Cardinality(Flipped(index))
       /\ defects \in [1..input.rounds -> Nat]
       /\ \A r \in 0..(input.rounds - 1) : defects[r + 1] = Cardinality(EventsBefore(index, r))

\* The order of itertools.product.
Earlier(p, q) ==
  \E i \in DOMAIN q : p[i] = 0 /\ q[i] = 1 /\ \A j \in DOMAIN q : j < i => p[j] = q[j]

\* The table holds what comes before the pattern, and in the end everything.
Entered ==
  /\ phase \in {"load", "decode"} => DOMAIN table = {}
  /\ phase = "table" =>
       /\ Buildable(Code)
       /\ pattern \in Patterns(Code)
       /\ DOMAIN table = {Key(Code, p) : p \in {q \in Patterns(Code) : Earlier(q, pattern)}}
       /\ \A key \in DOMAIN table : table[key] = LeastParity(Code, key.ones)
  /\ phase = "records" =>
       /\ DOMAIN table = {Key(Code, p) : p \in Patterns(Code)}
       /\ \A key \in DOMAIN table : table[key] = LeastParity(Code, key.ones)

IInv ==
  /\ input \in Inputs
  /\ phase # "over" => outcome = Nil
  /\ Passed
  /\ Entered
  /\ Tallied
  /\ NothingPartial
  /\ OutputIsTheTally

\* The artifact Error and Raise end with is no output artifact.
LEMMA NoOutput ==
  ASSUME NEW class
  PROVE  /\ "count" \notin DOMAIN [error |-> class]
         /\ "count" \notin DOMAIN [raised |-> class]
<1>1. DOMAIN [error |-> class] = {"error"}
  OBVIOUS
<1>2. DOMAIN [raised |-> class] = {"raised"}
  OBVIOUS
<1> QED
  BY <1>1, <1>2

LEMMA RecordsAreListed ==
  ASSUME input \in Inputs
  PROVE  /\ Len(input.records) \in Nat
         /\ DOMAIN input.records = 1..Len(input.records)
BY InputsAssumption

LEMMA CodeIsSmall ==
  ASSUME input \in Inputs, Buildable(Code)
  PROVE  /\ input.distance \in Nat /\ input.distance >= 3
         /\ input.rounds \in Nat /\ input.rounds >= 1
         /\ DetectorCount(Code) \in Nat
<1>1. /\ input.distance \in Nat /\ input.distance >= 3
      /\ input.rounds \in Nat /\ input.rounds >= 1
  <2>1. input.distance \in Int /\ input.rounds \in Int
    BY InputsAssumption
  <2>2. Code.distance = input.distance /\ Code.rounds = input.rounds
    BY DEF Code
  <2> QED
    BY <2>1, <2>2 DEF Buildable
<1>2. DetectorCount(Code) = input.rounds * (input.distance - 1)
  BY DEF DetectorCount, Code
<1>3. \A m, n \in Nat : m * n \in Nat
  BY Z3
<1> QED
  BY <1>1, <1>2, <1>3

-----------------------------------------------------------------------------
(* The patterns, in the order of itertools.product.                        *)

LessThan == {pair \in Nat \X Nat : pair[1] < pair[2]}

\* A set of naturals with an element has a least one.
LEMMA LeastNumber ==
  ASSUME NEW N \in SUBSET Nat, NEW n \in N
  PROVE  \E m \in N : \A k \in N : m <= k
<1>1. IsWellFoundedOn(LessThan, Nat)
  BY NatLessThanWellFounded DEF OpToRel, LessThan
<1>2. PICK m \in N : \A k \in N : <<k, m>> \notin LessThan
  BY <1>1, WFMin
<1>3. ASSUME NEW k \in N PROVE m <= k
  <2>1. m \in Nat /\ k \in Nat
    OBVIOUS
  <2>2. k < m => <<k, m>> \in LessThan
    BY <2>1 DEF LessThan
  <2> QED
    BY <1>2, <2>1, <2>2
<1> QED
  BY <1>3

\* A pattern that is not all of 1s has a last 0.
LEMMA LastZero ==
  ASSUME NEW n \in Nat, NEW p \in [0..(n - 1) -> {0, 1}], Zeros(p) # {}
  PROVE  /\ Max(Zeros(p)) \in 0..(n - 1) /\ p[Max(Zeros(p))] = 0
         /\ \A i \in 0..(n - 1) : Max(Zeros(p)) < i => p[i] = 1
<1> DEFINE N == {n - i : i \in Zeros(p)}
<1>1. Zeros(p) \subseteq 0..(n - 1)
  BY DEF Zeros
<1>2. N \subseteq Nat /\ N # {}
  BY <1>1
<1>3. PICK m \in N : \A k \in N : m <= k
  BY <1>2, LeastNumber
<1>4. PICK i \in Zeros(p) : m = n - i
  OBVIOUS
<1>5. ASSUME NEW j \in Zeros(p) PROVE j <= i
  <2>1. i \in 0..(n - 1) /\ j \in 0..(n - 1)
    BY <1>1
  <2>2. n - j \in N
    OBVIOUS
  <2> HIDE DEF N
  <2>3. n - i <= n - j
    BY <1>3, <1>4, <2>2
  <2> QED
    BY <2>1, <2>3
<1>6. Max(Zeros(p)) \in Zeros(p) /\ \A j \in Zeros(p) : j <= Max(Zeros(p))
  <2>1. \A j \in Zeros(p) : i >= j
    BY <1>1, <1>5
  <2>2. Max(Zeros(p)) \in Zeros(p) /\ \A j \in Zeros(p) : Max(Zeros(p)) >= j
    BY <2>1, Zenon DEF Max
  <2> QED
    BY <1>1, <2>2
<1> HIDE DEF N
<1> DEFINE last == Max(Zeros(p))
<1>7. last \in Zeros(p) /\ \A j \in Zeros(p) : j <= last
  BY <1>6
<1> HIDE DEF last
<1>8. last \in 0..(n - 1) /\ p[last] = 0
  BY <1>1, <1>7 DEF Zeros
<1>9. ASSUME NEW k \in 0..(n - 1), last < k
      PROVE  p[k] = 1
  <2>1. k \notin Zeros(p)
    BY <1>7, <1>8, <1>9
  <2> QED
    BY <2>1 DEF Zeros
<1> QED
  BY <1>8, <1>9 DEF last

\* Two patterns that differ first differ somewhere.
LEMMA FirstDifference ==
  ASSUME NEW n \in Nat, NEW p \in [0..(n - 1) -> {0, 1}], NEW q \in [0..(n - 1) -> {0, 1}], p # q
  PROVE  \E i \in 0..(n - 1) : p[i] # q[i] /\ \A j \in 0..(n - 1) : j < i => p[j] = q[j]
<1> DEFINE N == {i \in 0..(n - 1) : p[i] # q[i]}
<1>1. PICK k \in 0..(n - 1) : p[k] # q[k]
  <2>1. p = [i \in 0..(n - 1) |-> p[i]] /\ q = [i \in 0..(n - 1) |-> q[i]]
    OBVIOUS
  <2> QED
    BY <2>1, Zenon
<1>2. k \in N /\ N \subseteq Nat
  BY <1>1
<1>3. PICK i \in N : \A j \in N : i <= j
  BY <1>2, LeastNumber
<1>4. i \in 0..(n - 1) /\ p[i] # q[i]
  OBVIOUS
<1>5. ASSUME NEW j \in 0..(n - 1), j < i
      PROVE  p[j] = q[j]
  BY <1>3, <1>4, <1>5
<1> QED
  BY <1>4, <1>5

LEMMA NothingBeforeFirst ==
  ASSUME NEW n \in Nat, NEW p \in [0..(n - 1) -> {0, 1}]
  PROVE  ~Earlier(p, [i \in 0..(n - 1) |-> 0])
BY DEF Earlier

\* Nothing lies between a pattern and the next one.
LEMMA NextIsNext ==
  ASSUME NEW n \in Nat, NEW p \in [0..(n - 1) -> {0, 1}], NEW q \in [0..(n - 1) -> {0, 1}],
         Zeros(q) # {}
  PROVE  /\ NextPattern(q) \in [0..(n - 1) -> {0, 1}]
         /\ Earlier(p, NextPattern(q)) <=> p = q \/ Earlier(p, q)
<1> DEFINE last == Max(Zeros(q))
           next == NextPattern(q)
<1>1. /\ last \in 0..(n - 1) /\ q[last] = 0
      /\ \A i \in 0..(n - 1) : last < i => q[i] = 1
  BY LastZero
<1>2. /\ next \in [0..(n - 1) -> {0, 1}]
      /\ next[last] = 1
      /\ \A i \in 0..(n - 1) : i < last => next[i] = q[i]
      /\ \A i \in 0..(n - 1) : last < i => next[i] = 0
  BY <1>1 DEF NextPattern
<1> HIDE DEF last, next
<1>3. ASSUME Earlier(p, next)
      PROVE  p = q \/ Earlier(p, q)
  <2>1. PICK i \in 0..(n - 1) : /\ p[i] = 0 /\ next[i] = 1
                                 /\ \A j \in 0..(n - 1) : j < i => p[j] = next[j]
    BY <1>2, <1>3 DEF Earlier
  <2>2. i <= last
    BY <1>1, <1>2, <2>1
  <2>3. CASE i < last
    <3>1. q[i] = 1 /\ \A j \in 0..(n - 1) : j < i => p[j] = q[j]
      BY <1>1, <1>2, <2>1, <2>3
    <3> QED
      BY <2>1, <3>1 DEF Earlier
  <2>4. CASE i = last
    <3>1. \A j \in 0..(n - 1) : j < last + 1 => p[j] = q[j]
      BY <1>1, <1>2, <2>1, <2>4
    <3>2. CASE p # q
      <4>1. PICK k \in 0..(n - 1) : /\ p[k] # q[k]
                                     /\ \A j \in 0..(n - 1) : j < k => p[j] = q[j]
        BY <3>2, FirstDifference
      <4>2. k >= last + 1
        BY <1>1, <3>1, <4>1
      <4>3. q[k] = 1 /\ p[k] = 0
        BY <1>1, <4>1, <4>2
      <4> QED
        BY <4>1, <4>3 DEF Earlier
    <3> QED
      BY <3>2
  <2> QED
    BY <1>1, <2>2, <2>3, <2>4
<1>4. ASSUME p = q
      PROVE  Earlier(p, next)
  BY <1>1, <1>2, <1>4 DEF Earlier
<1>5. ASSUME Earlier(p, q)
      PROVE  Earlier(p, next)
  <2>1. PICK i \in 0..(n - 1) : /\ p[i] = 0 /\ q[i] = 1
                                 /\ \A j \in 0..(n - 1) : j < i => p[j] = q[j]
    BY <1>5 DEF Earlier
  <2>2. CASE i < last
    <3>1. next[i] = 1 /\ \A j \in 0..(n - 1) : j < i => p[j] = next[j]
      BY <1>1, <1>2, <2>1, <2>2
    <3> QED
      BY <1>2, <2>1, <3>1 DEF Earlier
  <2>3. CASE last < i
    <3>1. p[last] = 0 /\ \A j \in 0..(n - 1) : j < last => p[j] = next[j]
      BY <1>1, <1>2, <2>1, <2>3
    <3> QED
      BY <1>1, <1>2, <3>1 DEF Earlier
  <2> QED
    BY <1>1, <2>1, <2>2, <2>3
<1> QED
  BY <1>2, <1>3, <1>4, <1>5 DEF next

\* The pattern without a 0 is the last.
LEMMA AllBeforeLast ==
  ASSUME NEW n \in Nat, NEW p \in [0..(n - 1) -> {0, 1}], NEW q \in [0..(n - 1) -> {0, 1}],
         Zeros(q) = {}
  PROVE  p = q \/ Earlier(p, q)
<1>1. \A i \in 0..(n - 1) : q[i] = 1
  BY DEF Zeros
<1>2. CASE p # q
  <2>1. PICK i \in 0..(n - 1) : p[i] # q[i] /\ \A j \in 0..(n - 1) : j < i => p[j] = q[j]
    BY <1>2, FirstDifference
  <2> QED
    BY <1>1, <2>1 DEF Earlier
<1> QED
  BY <1>2

\* The keys of all patterns are the strings of the code.
LEMMA KeysAreStrings ==
  ASSUME DetectorCount(Code) \in Nat
  PROVE  {Key(Code, p) : p \in Patterns(Code)}
           = [width : {DetectorCount(Code)}, binary : {TRUE}, ones : SUBSET Detectors(Code)]
<1> DEFINE S == [width : {DetectorCount(Code)}, binary : {TRUE}, ones : SUBSET Detectors(Code)]
<1>1. ASSUME NEW p \in Patterns(Code)
      PROVE  Key(Code, p) \in S
  BY DEF Key, Repeat, Fired, Patterns, Detectors
<1>2. ASSUME NEW key \in S
      PROVE  \E p \in Patterns(Code) : key = Key(Code, p)
  <2> DEFINE p == [i \in Detectors(Code) |-> IF i \in key.ones THEN 1 ELSE 0]
  <2>1. p \in Patterns(Code)
    BY DEF Patterns, Repeat, Detectors
  <2>2. Fired(p) = key.ones
    BY DEF Fired, Zeros
  <2>3. key = [width |-> DetectorCount(Code), binary |-> TRUE, ones |-> key.ones]
    OBVIOUS
  <2>4. key = Key(Code, p)
    BY <2>2, <2>3 DEF Key, Repeat
  <2> QED
    BY <2>1, <2>4
<1> HIDE DEF S
<1>3. {Key(Code, p) : p \in Patterns(Code)} = S
  BY <1>1, <1>2
<1> QED
  BY <1>3 DEF S

-----------------------------------------------------------------------------
(* What one more record adds.                                              *)

\* The row of a detector is the interval it is in.
LEMMA RowIsInterval ==
  ASSUME NEW width \in Nat \ {0}, NEW r \in Nat, NEW d \in Nat
  PROVE  d \div width = r <=> d \in r * width..((r + 1) * width - 1)
<1> DEFINE q == d \div width
           m == d % width
<1>1. q \in Nat /\ m \in 0..(width - 1) /\ d = q * width + m
  BY Z3
<1>2. r * width \in Nat /\ (r + 1) * width = r * width + width
  BY Z3
<1>3. ASSUME NEW x \in Nat, NEW y \in Nat, x < y
      PROVE  x * width + width <= y * width
  <2>1. PICK z \in Nat : y = x + 1 + z
    <3>1. y - (x + 1) \in Nat /\ y = x + 1 + (y - (x + 1))
      BY <1>3
    <3> QED
      BY <3>1
  <2>2. y * width = x * width + width + z * width
    BY <2>1, Z3
  <2>3. z * width \in Nat
    BY Z3
  <2>4. x * width \in Nat
    BY Z3
  <2> QED
    BY <2>2, <2>3, <2>4
<1> HIDE DEF q, m
<1>4. q * width \in Nat
  BY <1>1, Z3
<1>5. q = r => d \in r * width..((r + 1) * width - 1)
  BY <1>1, <1>2
<1>6. q < r => d < r * width
  BY <1>1, <1>2, <1>3, <1>4
<1>7. r < q => ~(d <= (r + 1) * width - 1)
  BY <1>1, <1>2, <1>3, <1>4
<1>8. q = d \div width
  BY DEF q
<1> QED
  BY <1>1, <1>5, <1>6, <1>7, <1>8

LEMMA OneMoreFlipped ==
  ASSUME input \in Inputs, NEW n \in DOMAIN input.records
  PROVE  /\ IsFiniteSet(Flipped(n))
         /\ Cardinality(Flipped(n + 1)) =
              IF Table(Code)[input.records[n].ones] = 1
              THEN Cardinality(Flipped(n)) + 1 ELSE Cardinality(Flipped(n))
<1>1. Len(input.records) \in Nat /\ DOMAIN input.records = 1..Len(input.records)
  BY RecordsAreListed
<1>2. IsFiniteSet(Flipped(n))
  <2>1. IsFiniteSet(1..Len(input.records))
    BY <1>1, FS_Interval
  <2> QED
    BY <1>1, <2>1, FS_Subset DEF Flipped
<1>3. CASE Table(Code)[input.records[n].ones] = 1
  <2>1. Flipped(n + 1) = Flipped(n) \cup {n}
    BY <1>1, <1>3 DEF Flipped
  <2>2. n \notin Flipped(n)
    BY <1>1 DEF Flipped
  <2> QED
    BY <1>2, <1>3, <2>1, <2>2, FS_AddElement
<1>4. CASE Table(Code)[input.records[n].ones] # 1
  <2>1. Flipped(n + 1) = Flipped(n)
    BY <1>1, <1>4 DEF Flipped
  <2> QED
    BY <1>2, <1>4, <2>1
<1> QED
  BY <1>2, <1>3, <1>4

LEMMA OneMoreRow ==
  ASSUME input \in Inputs, Buildable(Code), NEW n \in DOMAIN input.records,
         WellFormed(input.records[n]), NEW r \in Nat
  PROVE  /\ Cardinality(EventsBefore(n, r)) \in Nat
         /\ Cardinality(Segment(input.records[n], r + 1)) \in Nat
         /\ Cardinality(EventsBefore(n + 1, r)) =
              Cardinality(EventsBefore(n, r)) + Cardinality(Segment(input.records[n], r + 1))
<1> DEFINE row == Segment(input.records[n], r + 1)
<1>1. Len(input.records) \in Nat /\ DOMAIN input.records = 1..Len(input.records)
  BY RecordsAreListed
<1>2. /\ input.distance \in Nat /\ input.distance >= 3
      /\ DetectorCount(Code) \in Nat
  BY CodeIsSmall
<1>3. IsFiniteSet(Detectors(Code)) /\ Detectors(Code) \subseteq Nat
  <2>1. 0 \in Int /\ DetectorCount(Code) - 1 \in Int
    BY <1>2
  <2>2. IsFiniteSet(0..(DetectorCount(Code) - 1))
    BY <2>1, FS_Interval
  <2> QED
    BY <2>2 DEF Detectors
<1>4. input.records[n].ones \subseteq Detectors(Code)
  BY InputsAssumption DEF WellFormed, Detectors
<1>5. IsFiniteSet(EventsBefore(n, r))
  <2>1. IsFiniteSet(1..Len(input.records))
    BY <1>1, FS_Interval
  <2>2. IsFiniteSet((DOMAIN input.records) \X Detectors(Code))
    BY <1>1, <1>3, <2>1, FS_Product
  <2> QED
    BY <2>2, FS_Subset DEF EventsBefore
<1>6. row = {d \in input.records[n].ones : Round(Code, d) = r}
  <2>1. (r + 1) - 1 = r
    OBVIOUS
  <2>2. row = input.records[n].ones
                \cap (r * (input.distance - 1)..((r + 1) * (input.distance - 1) - 1))
    BY <2>1 DEF Segment
  <2>3. ASSUME NEW d \in input.records[n].ones
        PROVE  Round(Code, d) = r
                 <=> d \in r * (input.distance - 1)..((r + 1) * (input.distance - 1) - 1)
    <3>1. d \in Nat /\ input.distance - 1 \in Nat \ {0}
      BY <1>2, <1>3, <1>4
    <3>2. Round(Code, d) = d \div (input.distance - 1)
      BY DEF Round, Code
    <3> QED
      BY <3>1, <3>2, RowIsInterval
  <2> QED
    BY <2>2, <2>3
<1>7. row \subseteq Detectors(Code)
  BY <1>4, <1>6
<1> HIDE DEF row
<1>8. IsFiniteSet(row)
  BY <1>3, <1>7, FS_Subset
<1>9. EventsBefore(n + 1, r) = EventsBefore(n, r) \cup ({n} \X row)
  <2>1. ASSUME NEW k \in DOMAIN input.records, NEW d \in Detectors(Code)
        PROVE  <<k, d>> \in EventsBefore(n + 1, r)
                 <=> <<k, d>> \in EventsBefore(n, r) \/ (k = n /\ d \in row)
    BY <1>1, <1>6, <2>1 DEF EventsBefore
  <2>2. EventsBefore(n + 1, r) \subseteq (DOMAIN input.records) \X Detectors(Code)
    BY DEF EventsBefore
  <2>3. EventsBefore(n, r) \subseteq (DOMAIN input.records) \X Detectors(Code)
    BY DEF EventsBefore
  <2>4. {n} \X row \subseteq (DOMAIN input.records) \X Detectors(Code)
    BY <1>7
  <2> QED
    BY <2>1, <2>2, <2>3, <2>4
<1>10. EventsBefore(n, r) \cap ({n} \X row) = {}
  BY <1>1 DEF EventsBefore
<1>11. IsFiniteSet({n} \X row) /\ Cardinality({n} \X row) = Cardinality(row)
  <2>1. IsFiniteSet({n}) /\ Cardinality({n}) = 1
    BY FS_Singleton
  <2>2. Cardinality(row) \in Nat
    BY <1>8, FS_CardinalityType
  <2>3. IsFiniteSet({n} \X row) /\ Cardinality({n} \X row) = Cardinality({n}) * Cardinality(row)
    BY <1>8, <2>1, FS_Product
  <2> QED
    BY <2>1, <2>2, <2>3
<1>12. Cardinality(EventsBefore(n, r)) \in Nat /\ Cardinality(row) \in Nat
  BY <1>5, <1>8, FS_CardinalityType
<1>13. Cardinality(EventsBefore(n + 1, r)) =
         Cardinality(EventsBefore(n, r)) + Cardinality(row)
  <2>1. Cardinality(EventsBefore(n, r) \cup ({n} \X row)) =
          Cardinality(EventsBefore(n, r)) + Cardinality({n} \X row)
            - Cardinality(EventsBefore(n, r) \cap ({n} \X row))
    BY <1>5, <1>11, FS_Union
  <2>2. Cardinality(EventsBefore(n, r) \cap ({n} \X row)) = 0
    BY <1>10, FS_EmptySet
  <2>3. Cardinality(EventsBefore(n + 1, r)) =
          Cardinality(EventsBefore(n, r)) + Cardinality(row) - 0
    BY <1>9, <1>11, <2>1, <2>2, Zenon
  <2> QED
    BY <1>12, <2>3
<1> QED
  BY <1>12, <1>13 DEF row

LEMMA EntryIsBit ==
  ASSUME NEW code, NEW ones \in SUBSET Detectors(code)
  PROVE  /\ Table(code)[ones] = LeastParity(code, ones)
         /\ Table(code)[ones] \in {0, 1}
BY DEF Table, LeastParity, CorrectionParity

-----------------------------------------------------------------------------
(* The invariant.                                                          *)

LEMMA EndsWithout ==
  ASSUME IInv, NEW artifact, End(artifact), "count" \notin DOMAIN artifact
  PROVE  IInv'
<1>1. input' = input /\ phase' = "over" /\ index' = index /\ outcome' = artifact
  BY DEF End
<1>2. ~Completed'
  BY <1>1 DEF Completed
<1> QED
  BY <1>1, <1>2 DEF IInv, Passed, Entered, Tallied, NothingPartial, OutputIsTheTally

LEMMA Initial == Init => IInv
BY DEF Init, IInv, Passed, Entered, Tallied, NothingPartial, OutputIsTheTally, Completed

\* Before the first entry there is none.
LEMMA TableStarts ==
  ASSUME IInv, BuildTable
  PROVE  Entered'
<1>1. /\ phase' = "table" /\ pattern' = FirstPattern(Code) /\ table' = table
      /\ input' = input /\ DOMAIN table = {} /\ Buildable(Code)
  BY DEF IInv, Entered, BuildTable
<1>2. Code' = Code
  BY <1>1 DEF Code
<1>3. DetectorCount(Code) \in Nat
  BY <1>1, CodeIsSmall DEF IInv
<1>4. FirstPattern(Code) \in Patterns(Code)
  BY DEF FirstPattern, Patterns
<1>5. \A p \in Patterns(Code) : ~Earlier(p, FirstPattern(Code))
  BY <1>3, NothingBeforeFirst DEF FirstPattern, Patterns, Repeat
<1>6. {Key(Code, p) : p \in {q \in Patterns(Code) : Earlier(q, FirstPattern(Code))}} = {}
  BY <1>5
<1> QED
  BY <1>1, <1>2, <1>4, <1>6 DEF Entered

\* One more entry is the next in the order, and after the last there is none.
LEMMA OneMoreEntry ==
  ASSUME IInv, Enter
  PROVE  Entered'
<1> DEFINE key == Key(Code, pattern)
           before(q) == {p \in Patterns(Code) : Earlier(p, q)}
<1>1. /\ Buildable(Code) /\ pattern \in Patterns(Code)
      /\ DOMAIN table = {Key(Code, p) : p \in before(pattern)}
      /\ \A k \in DOMAIN table : table[k] = LeastParity(Code, k.ones)
  BY DEF IInv, Entered, Enter
<1>2. /\ table' = [k \in DOMAIN table \union {key} |->
                    IF k = key THEN LeastParity(Code, Fired(pattern)) ELSE table[k]]
      /\ input' = input
  BY DEF Enter
<1>3. Code' = Code
  BY <1>2 DEF Code
<1>4. \A k \in DOMAIN table' : table'[k] = LeastParity(Code, k.ones)
  <2>1. key.ones = Fired(pattern)
    BY DEF Key
  <2> HIDE DEF key
  <2> QED
    BY <1>1, <1>2, <2>1
<1>5. DOMAIN table' = {Key(Code, p) : p \in before(pattern) \union {pattern}}
  <2>1. DOMAIN table' = DOMAIN table \union {key}
    BY <1>2
  <2> HIDE DEF before
  <2> QED
    BY <1>1, <2>1
<1>6. DetectorCount(Code) \in Nat /\ Patterns(Code) = [0..(DetectorCount(Code) - 1) -> {0, 1}]
  BY <1>1, CodeIsSmall DEF IInv, Patterns, Repeat
<1>7. CASE Zeros(pattern) # {}
  <2>1. pattern' = NextPattern(pattern) /\ phase' = "table"
    BY <1>7 DEF Enter
  <2>2. NextPattern(pattern) \in Patterns(Code)
    BY <1>1, <1>6, <1>7, NextIsNext
  <2>3. \A p \in Patterns(Code) :
          Earlier(p, NextPattern(pattern)) <=> p = pattern \/ Earlier(p, pattern)
    BY <1>1, <1>6, <1>7, NextIsNext
  <2>4. before(NextPattern(pattern)) = before(pattern) \union {pattern}
    BY <1>1, <2>3
  <2>5. DOMAIN table' = {Key(Code, p) : p \in before(NextPattern(pattern))}
    BY <1>5, <2>4
  <2> QED
    BY <1>1, <1>3, <1>4, <2>1, <2>2, <2>5 DEF Entered
<1>8. CASE Zeros(pattern) = {}
  <2>1. phase' = "records"
    BY <1>8 DEF Enter
  <2>2. \A p \in Patterns(Code) : p = pattern \/ Earlier(p, pattern)
    BY <1>1, <1>6, <1>8, AllBeforeLast
  <2>3. before(pattern) \union {pattern} = Patterns(Code)
    BY <1>1, <2>2
  <2>4. DOMAIN table' = {Key(Code, p) : p \in Patterns(Code)}
    BY <1>5, <2>3
  <2> QED
    BY <1>3, <1>4, <2>1, <2>4 DEF Entered
<1> QED
  BY <1>7, <1>8

\* A record that passes the checks is a key.
LEMMA RecordIsKey ==
  ASSUME input \in Inputs, Buildable(Code), NEW k \in DOMAIN input.records,
         WellFormed(input.records[k])
  PROVE  /\ input.records[k] \in {Key(Code, p) : p \in Patterns(Code)}
         /\ input.records[k].ones \in SUBSET Detectors(Code)
<1> DEFINE record == input.records[k]
<1>1. /\ record # NotString /\ record.width = DetectorCount(Code) /\ record.binary
  BY DEF WellFormed
<1>2. /\ record \in [width : Nat, binary : BOOLEAN, ones : SUBSET Nat]
      /\ record.ones \subseteq 0..(record.width - 1)
  BY <1>1, InputsAssumption
<1>3. record.ones \in SUBSET Detectors(Code)
  BY <1>1, <1>2 DEF Detectors
<1>4. record.binary = TRUE
  BY <1>1, <1>2
<1>5. record \in [ width : {DetectorCount(Code)}, binary : {TRUE}, ones : SUBSET Detectors(Code) ]
  BY <1>1, <1>2, <1>3, <1>4
<1>6. DetectorCount(Code) \in Nat
  BY CodeIsSmall
<1> HIDE DEF record
<1>7. record \in {Key(Code, p) : p \in Patterns(Code)}
  BY <1>5, <1>6, KeysAreStrings
<1> QED
  BY <1>3, <1>7 DEF record

\* Nothing has been counted when the table is complete.
LEMMA StartsAtZero ==
  ASSUME IInv, Enter, Zeros(pattern) = {}
  PROVE  Tallied'
<1>1. input \in Inputs /\ count = 0 /\ index = 1 /\ Buildable(Code)
  BY DEF IInv, Entered, Tallied, Passed, Enter
<1>2. Len(input.records) \in Nat /\ DOMAIN input.records = 1..Len(input.records)
  BY <1>1, RecordsAreListed
<1>3. Flipped(1) = {}
  BY <1>2 DEF Flipped
<1>4. \A r : EventsBefore(1, r) = {}
  BY <1>2 DEF EventsBefore
<1>5. Cardinality({}) = 0
  BY FS_EmptySet
<1>6. /\ input' = input /\ index' = 1 /\ count' = 0 /\ phase' = "records"
      /\ defects' = [r \in 1..input.rounds |-> 0] /\ Buildable(Code)
  BY <1>1 DEF Enter
<1>7. input.rounds \in Nat
  BY <1>1, <1>6, CodeIsSmall
<1>8. count' = Cardinality(Flipped(index))'
  <2>1. Flipped(index)' = Flipped(1)
    BY <1>6 DEF Flipped, Code
  <2> QED
    BY <1>3, <1>5, <1>6, <2>1
<1>9. \A r \in 0..(input.rounds - 1) : defects'[r + 1] = Cardinality(EventsBefore(index, r))'
  <2> SUFFICES ASSUME NEW r \in 0..(input.rounds - 1)
               PROVE  defects'[r + 1] = Cardinality(EventsBefore(index, r))'
    OBVIOUS
  <2>1. EventsBefore(index, r)' = EventsBefore(1, r)
    BY <1>6 DEF EventsBefore, Code
  <2>2. r + 1 \in 1..input.rounds
    BY <1>7
  <2> QED
    BY <1>4, <1>5, <1>6, <2>1, <2>2
<1>10. Buildable(Code)'
  BY <1>6 DEF Code
<1> QED
  BY <1>6, <1>8, <1>9, <1>10 DEF Tallied

\* A record adds itself, if its entry is 1, and its rows.
LEMMA TallyKept ==
  ASSUME IInv, Tally
  PROVE  Tallied'
<1> DEFINE record == input.records[index]
<1>1. /\ input \in Inputs /\ phase = "records" /\ Buildable(Code)
      /\ count = Cardinality(Flipped(index))
      /\ defects \in [1..input.rounds -> Nat]
      /\ \A r \in 0..(input.rounds - 1) : defects[r + 1] = Cardinality(EventsBefore(index, r))
      /\ WellFormed(record)
  BY DEF IInv, Tally, Tallied, Reading, Record
<1>2. index \in DOMAIN input.records
  BY <1>1, RecordsAreListed DEF IInv, Passed, Tally, Reading
<1>3. /\ input' = input /\ phase' = "records" /\ index' = index + 1
      /\ count' = count + table[record]
      /\ defects' = [r \in DOMAIN defects |-> defects[r] + Cardinality(Segment(record, r))]
  BY <1>1 DEF Tally, Record
<1>4. input.rounds \in Nat
  BY <1>1, CodeIsSmall
<1>5. count' = Cardinality(Flipped(index))'
  <2>1. record.ones \in SUBSET Detectors(Code) /\ record \in {Key(Code, p) : p \in Patterns(Code)}
    BY <1>1, <1>2, RecordIsKey
  <2>2. table[record] = Table(Code)[record.ones] /\ Table(Code)[record.ones] \in {0, 1}
    <3>1. table[record] = LeastParity(Code, record.ones)
      BY <1>1, <2>1 DEF IInv, Entered
    <3> QED
      BY <2>1, <3>1, EntryIsBit
  <2>3. Cardinality(Flipped(index)) \in Nat
    BY <1>1, <1>2, OneMoreFlipped, FS_CardinalityType
  <2>4. Cardinality(Flipped(index + 1)) =
          IF Table(Code)[record.ones] = 1
          THEN Cardinality(Flipped(index)) + 1 ELSE Cardinality(Flipped(index))
    BY <1>1, <1>2, OneMoreFlipped
  <2>5. Flipped(index)' = Flipped(index + 1)
    BY <1>3 DEF Flipped, Code
  <2> QED
    BY <1>1, <1>3, <2>2, <2>3, <2>4, <2>5
<1>6. ASSUME NEW r \in 0..(input.rounds - 1)
      PROVE  /\ Cardinality(Segment(record, r + 1)) \in Nat
             /\ defects'[r + 1] = Cardinality(EventsBefore(index, r))'
  <2>1. r \in Nat /\ r + 1 \in 1..input.rounds
    BY <1>4
  <2>2. /\ Cardinality(Segment(record, r + 1)) \in Nat
        /\ Cardinality(EventsBefore(index + 1, r)) =
             Cardinality(EventsBefore(index, r)) + Cardinality(Segment(record, r + 1))
    BY <1>1, <1>2, <2>1, OneMoreRow
  <2>3. EventsBefore(index, r)' = EventsBefore(index + 1, r)
    BY <1>3 DEF EventsBefore, Code
  <2>4. defects'[r + 1] = defects[r + 1] + Cardinality(Segment(record, r + 1))
    BY <1>1, <1>3, <2>1
  <2> QED
    BY <1>1, <2>2, <2>3, <2>4
<1>7. defects' \in [1..input.rounds -> Nat]
  <2> SUFFICES ASSUME NEW r \in 1..input.rounds
               PROVE  defects[r] + Cardinality(Segment(record, r)) \in Nat
    BY <1>1, <1>3
  <2>1. r - 1 \in 0..(input.rounds - 1) /\ (r - 1) + 1 = r
    BY <1>4
  <2>2. Cardinality(Segment(record, r)) \in Nat
    BY <1>6, <2>1
  <2> QED
    BY <1>1, <2>2
<1>8. Buildable(Code)'
  BY <1>1, <1>3 DEF Code
<1> QED
  BY <1>3, <1>5, <1>6, <1>7, <1>8 DEF Tallied

\* What has been counted after the last record is the output.
LEMMA OutputIsTallied ==
  ASSUME IInv, Complete
  PROVE  OutputIsTheTally'
<1>1. /\ input \in Inputs /\ phase = "records" /\ Buildable(Code)
      /\ count = Cardinality(Flipped(index))
      /\ \A r \in 0..(input.rounds - 1) : defects[r + 1] = Cardinality(EventsBefore(index, r))
      /\ Len(input.records) = input.shots
  BY DEF IInv, Complete, Tallied, Passed
<1>2. Len(input.records) \in Nat /\ DOMAIN input.records = 1..Len(input.records)
  BY <1>1, RecordsAreListed
<1>3. /\ input' = input /\ index = Len(input.records) + 1
      /\ outcome'.count = count /\ outcome'.shots = input.shots /\ outcome'.defects = defects
  BY DEF Complete, End
<1>4. input.shots = Cardinality(DOMAIN input.records)
  <2>1. Cardinality(1..Len(input.records)) = Len(input.records)
    BY <1>2, FS_Interval
  <2> QED
    BY <1>1, <1>2, <2>1
<1>5. Flipped(index) = {k \in DOMAIN input.records : Table(Code)[input.records[k].ones] = 1}
  BY <1>2, <1>3 DEF Flipped
<1>6. \A r : EventsBefore(index, r) =
               {e \in (DOMAIN input.records) \X Detectors(Code) :
                  e[2] \in input.records[e[1]].ones /\ Round(Code, e[2]) = r}
  <2>1. \A e \in (DOMAIN input.records) \X Detectors(Code) : e[1] < index
    BY <1>2, <1>3
  <2> QED
    BY <2>1 DEF EventsBefore
<1>7. Code' = Code
  BY <1>3 DEF Code
<1> QED
  BY <1>1, <1>3, <1>4, <1>5, <1>6, <1>7 DEF OutputIsTheTally

LEMMA Step == IInv /\ [Next]_vars => IInv'
<1> SUFFICES ASSUME IInv, [Next]_vars PROVE IInv'
  OBVIOUS
<1> USE DEF IInv
<1>1. CASE Raise
  BY <1>1, NoOutput, EndsWithout DEF Raise
<1>2. CASE Reject
  BY <1>2, NoOutput, EndsWithout DEF Reject, Error
<1>3. CASE Load
  BY <1>3 DEF Load, Goto, Passed, Entered, Tallied, NothingPartial, OutputIsTheTally, Completed
<1>4. CASE Mismatch
  BY <1>4, NoOutput, EndsWithout DEF Mismatch, Error
<1>5. CASE NoTable
  BY <1>5, NoOutput, EndsWithout DEF NoTable, Error
<1>6. CASE BuildTable
  <2>1. Entered'
    BY <1>6, TableStarts
  <2> QED
    BY <1>6, <2>1 DEF BuildTable, Passed, Tallied, NothingPartial, OutputIsTheTally, Completed
<1>7. CASE Enter
  <2>1. DOMAIN input.records \subseteq Nat \ {0}
    BY RecordsAreListed
  <2>2. Passed'
    BY <1>7, <2>1 DEF Enter, Passed
  <2>3. Entered'
    BY <1>7, OneMoreEntry
  <2>4. Tallied'
    <3>1. CASE Zeros(pattern) # {}
      BY <1>7, <3>1 DEF Enter, Tallied
    <3> QED
      BY <1>7, <3>1, StartsAtZero
  <2> QED
    BY <1>7, <2>2, <2>3, <2>4 DEF Enter, NothingPartial, OutputIsTheTally, Completed
<1>8. CASE Malformed
  BY <1>8, NoOutput, EndsWithout DEF Malformed, Error
<1>9. CASE Tally
  <2>1. ASSUME NEW k \in DOMAIN input.records, k < index + 1
        PROVE  WellFormed(input.records[k])'
    <3>1. k \in Nat
      BY RecordsAreListed
    <3>2. CASE k = index
      BY <1>9, <3>2 DEF Tally, Record, WellFormed, Code
    <3>3. CASE k < index
      BY <1>9, <3>3 DEF Tally, Reading, Passed, WellFormed, Code
    <3> QED
      BY <2>1, <3>1, <3>2, <3>3 DEF Passed
  <2>2. Passed'
    BY <1>9, <2>1 DEF Tally, Reading, Passed
  <2>3. Tallied'
    BY <1>9, TallyKept
  <2>4. Entered'
    BY <1>9 DEF Tally, Reading, Entered, Code
  <2> QED
    BY <1>9, <2>2, <2>3, <2>4 DEF Tally, Reading, NothingPartial, OutputIsTheTally, Completed
<1>10. CASE Complete
  <2>1. \A k \in DOMAIN input.records : WellFormed(input.records[k])
    BY <1>10, RecordsAreListed DEF Complete, Passed
  <2>2. NothingPartial'
    BY <1>10, <2>1 DEF Complete, End, Passed, NothingPartial, WellFormed, Code, DetectorCount
  <2>3. OutputIsTheTally'
    BY <1>10, OutputIsTallied
  <2> QED
    BY <1>10, <2>2, <2>3 DEF Complete, End, Passed, Entered, Tallied
<1>11. CASE UNCHANGED vars
  <2>1. Code' = Code
    BY <1>11 DEF vars, Code
  <2>2. Passed' /\ NothingPartial'
    BY <1>11, <2>1 DEF vars, Passed, NothingPartial, Completed, WellFormed
  <2>3. /\ Flipped(index)' = Flipped(index)
        /\ \A r : EventsBefore(index, r)' = EventsBefore(index, r)
    BY <1>11, <2>1 DEF vars, Flipped, EventsBefore
  <2>4. Tallied'
    BY <1>11, <2>1, <2>3 DEF vars, Tallied
  <2>5. OutputIsTheTally'
    BY <1>11, <2>1 DEF vars, OutputIsTheTally, Completed
  <2>6. Entered'
    BY <1>11, <2>1 DEF vars, Entered
  <2> QED
    BY <1>11, <2>2, <2>4, <2>5, <2>6 DEF vars
<1> QED
  BY <1>1, <1>2, <1>3, <1>4, <1>5, <1>6, <1>7, <1>8, <1>9, <1>10, <1>11 DEF Next

\* An output artifact is the tally of all the records: for inputs of any
\* length and codes of any size, each record is counted once in the logical
\* errors and each event once in its round (decode).
THEOREM TallyIsComplete == Spec => []OutputIsTheTally
<1>1. IInv => OutputIsTheTally
  BY DEF IInv
<1> QED
  BY Initial, Step, <1>1, PTL DEF Spec

\* "No partial results" (decode.py:15): for every input there is, an output
\* artifact is about as many records as the input declares, and each of them
\* is one pattern of the code the table was built for.
THEOREM NeverPartial == Spec => []NothingPartial
<1>1. IInv => NothingPartial
  BY DEF IInv
<1> QED
  BY Initial, Step, <1>1, PTL DEF Spec

\* The enumeration of build_table misses no pattern of its code and makes no
\* other key, whatever the code's size: table[record] raises no KeyError, and
\* what it returns is the correction of the best matching of the record's 1s.
THEOREM TableIsTotal == Spec => []TableIsComplete
<1>1. IInv => TableIsComplete
  <2> SUFFICES ASSUME IInv, phase = "records"
               PROVE  /\ DOMAIN table = [ width : {DetectorCount(Code)}, binary : {TRUE},
                                          ones : SUBSET Detectors(Code) ]
                      /\ \A key \in DOMAIN table : table[key] = Table(Code)[key.ones]
                      /\ (Reading /\ WellFormed(Record)) => Record \in DOMAIN table
    BY DEF TableIsComplete
  <2>1. input \in Inputs /\ Buildable(Code)
    BY DEF IInv, Tallied
  <2>2. DetectorCount(Code) \in Nat
    BY <2>1, CodeIsSmall
  <2>3. DOMAIN table = [ width : {DetectorCount(Code)}, binary : {TRUE},
                         ones : SUBSET Detectors(Code) ]
    BY <2>2, KeysAreStrings DEF IInv, Entered
  <2>4. ASSUME NEW key \in DOMAIN table
        PROVE  table[key] = Table(Code)[key.ones]
    <3>1. key.ones \in SUBSET Detectors(Code)
      BY <2>3
    <3>2. table[key] = LeastParity(Code, key.ones)
      BY DEF IInv, Entered
    <3> QED
      BY <3>1, <3>2, EntryIsBit
  <2>5. ASSUME Reading, WellFormed(Record)
        PROVE  Record \in DOMAIN table
    <3>1. index \in DOMAIN input.records
      BY <2>1, <2>5, RecordsAreListed DEF IInv, Passed, Reading
    <3> QED
      BY <2>1, <2>5, <3>1, RecordIsKey DEF IInv, Entered, Record
  <2> QED
    BY <2>3, <2>4, <2>5
<1> QED
  BY Initial, Step, <1>1, PTL DEF Spec

-----------------------------------------------------------------------------
(* What FlattenSeq returns.                                                *)

\* A function is the unfolding of FlattenSeq's recursion up to n.
Unfolds(f, seqs, n) == f = [i \in 1..n |-> IF i = 1 THEN seqs[i] ELSE f[i - 1] \o seqs[i]]

LEMMA ListsAreFunctions ==
  ASSUME NEW T
  PROVE  /\ \A n \in Nat : \A f \in [1..n -> T] : f \in Seq(T) /\ Len(f) = n
         /\ \A s \in Seq(T) : /\ Len(s) \in Nat /\ DOMAIN s = 1..Len(s)
                            /\ \A k \in DOMAIN s : s[k] \in T
OBVIOUS

LEMMA Unfolding ==
  ASSUME NEW S, NEW seqs \in Seq(Seq(S)), NEW n \in 1..Len(seqs)
  PROVE  \E f : Unfolds(f, seqs, n)
<1> DEFINE Bad == {m \in 1..Len(seqs) : ~ \E f : Unfolds(f, seqs, m)}
<1> SUFFICES ASSUME n \in Bad PROVE FALSE
  OBVIOUS
<1>1. PICK m \in Bad : \A k \in Bad : m <= k
  <2>1. Bad \subseteq Nat
    OBVIOUS
  <2> HIDE DEF Bad
  <2> QED
    BY <2>1, LeastNumber
<1>2. m \in 1..Len(seqs) /\ ~ \E f : Unfolds(f, seqs, m)
  OBVIOUS
<1>3. CASE m = 1
  <2>1. [i \in 1..1 |-> seqs[1]] =
          [i \in 1..1 |-> IF i = 1 THEN seqs[i] ELSE [j \in 1..1 |-> seqs[1]][i - 1] \o seqs[i]]
    OBVIOUS
  <2> QED
    BY <1>2, <1>3, <2>1 DEF Unfolds
<1>4. CASE m # 1
  <2>1. m - 1 \in 1..Len(seqs) /\ m - 1 \notin Bad
    <3>1. m - 1 \in 1..Len(seqs) /\ ~(m <= m - 1)
      BY <1>2, <1>4
    <3> HIDE DEF Bad
    <3> QED
      BY <1>1, <3>1
  <2>2. PICK g : Unfolds(g, seqs, m - 1)
    BY <2>1
  <2> DEFINE f == [i \in 1..m |-> IF i = m THEN g[m - 1] \o seqs[m] ELSE g[i]]
  <2>3. \A i \in 1..m : f[i] = IF i = 1 THEN seqs[i] ELSE f[i - 1] \o seqs[i]
    <3> SUFFICES ASSUME NEW i \in 1..m
                 PROVE  f[i] = IF i = 1 THEN seqs[i] ELSE f[i - 1] \o seqs[i]
      OBVIOUS
    <3>1. CASE i = m
      <4>1. i - 1 \in 1..m /\ i - 1 # m /\ i # 1
        BY <3>1, <1>4, <1>2
      <4> QED
        BY <3>1, <4>1
    <3>2. CASE i # m
      <4>1. i \in 1..(m - 1)
        BY <3>2, <1>2
      <4>2. g[i] = IF i = 1 THEN seqs[i] ELSE g[i - 1] \o seqs[i]
        BY <2>2, <4>1 DEF Unfolds
      <4>3. i # 1 => i - 1 \in 1..m /\ i - 1 # m
        BY <4>1
      <4> QED
        BY <3>2, <4>2, <4>3
    <3> QED
      BY <3>1, <3>2
  <2>4. f = [i \in 1..m |-> IF i = 1 THEN seqs[i] ELSE f[i - 1] \o seqs[i]]
    <3>1. f = [i \in 1..m |-> f[i]]
      OBVIOUS
    <3> HIDE DEF f
    <3> QED
      BY <2>3, <3>1
  <2> QED
    BY <1>2, <2>4 DEF Unfolds
<1> QED
  BY <1>3, <1>4

LEMMA FlattenUnfolds ==
  ASSUME NEW S, NEW seqs \in Seq(Seq(S)), Len(seqs) # 0
  PROVE  \E f : Unfolds(f, seqs, Len(seqs)) /\ FlattenSeq(seqs) = f[Len(seqs)]
<1>1. Len(seqs) \in 1..Len(seqs)
  OBVIOUS
<1> DEFINE flatten ==
             CHOOSE f : f = [i \in 1..Len(seqs) |-> IF i = 1 THEN seqs[i] ELSE f[i - 1] \o seqs[i]]
<1>2. flatten = [i \in 1..Len(seqs) |-> IF i = 1 THEN seqs[i] ELSE flatten[i - 1] \o seqs[i]]
  BY <1>1, Unfolding DEF Unfolds
<1>3. FlattenSeq(seqs) = flatten[Len(seqs)]
  BY DEF FlattenSeq
<1> QED
  BY <1>2, <1>3 DEF Unfolds

\* Where the elements of the sequences are.
Cells(seqs, n) == {c \in (1..n) \X (Nat \ {0}) : c[2] <= Len(seqs[c[1]])}

\* Flattening puts every element of every sequence in one place, and fills every
\* place: up to the n-th sequence.
Tiles(b, seqs, n, flat) ==
  /\ b \in Bijection(Cells(seqs, n), 1..Len(flat))
  /\ \A c \in Cells(seqs, n) : flat[b[c]] = seqs[c[1]][c[2]]

LEMMA TileOneMore ==
  ASSUME NEW S, NEW seqs \in Seq(Seq(S)), NEW n \in Nat, n + 1 \in 1..Len(seqs),
         NEW flat \in Seq(S), NEW b, Tiles(b, seqs, n, flat)
  PROVE  \E d : Tiles(d, seqs, n + 1, flat \o seqs[n + 1])
<1> DEFINE all == flat \o seqs[n + 1]
           d == [c \in Cells(seqs, n + 1) |-> IF c[1] = n + 1 THEN Len(flat) + c[2] ELSE b[c]]
<1>1. /\ seqs[n + 1] \in Seq(S) /\ Len(flat) \in Nat /\ Len(seqs[n + 1]) \in Nat
      /\ Len(all) = Len(flat) + Len(seqs[n + 1])
      /\ \A k \in 1..Len(flat) : all[k] = flat[k]
      /\ \A k \in 1..Len(seqs[n + 1]) : all[Len(flat) + k] = seqs[n + 1][k]
  OBVIOUS
<1>2. /\ b \in [Cells(seqs, n) -> 1..Len(flat)]
      /\ \A c, e \in Cells(seqs, n) : b[c] = b[e] => c = e
      /\ \A k \in 1..Len(flat) : \E c \in Cells(seqs, n) : b[c] = k
  BY DEF Tiles, Bijection, Injection, Surjection, IsInjective
<1>3. \A c \in Cells(seqs, n + 1) :
        IF c[1] = n + 1 THEN c[2] \in 1..Len(seqs[n + 1]) ELSE c \in Cells(seqs, n)
  BY DEF Cells
<1>4. /\ Cells(seqs, n) \subseteq Cells(seqs, n + 1)
      /\ \A c \in Cells(seqs, n) : c[1] # n + 1
      /\ \A k \in 1..Len(seqs[n + 1]) : <<n + 1, k>> \in Cells(seqs, n + 1)
  BY <1>1 DEF Cells
<1>5. \A c \in Cells(seqs, n + 1) : c = <<c[1], c[2]>>
  BY DEF Cells
<1>6. d \in [Cells(seqs, n + 1) -> 1..Len(all)]
  <2> SUFFICES ASSUME NEW c \in Cells(seqs, n + 1)
               PROVE  (IF c[1] = n + 1 THEN Len(flat) + c[2] ELSE b[c]) \in 1..Len(all)
    OBVIOUS
  <2> HIDE DEF all
  <2>1. CASE c[1] = n + 1
    BY <1>1, <1>3, <2>1
  <2>2. CASE c[1] # n + 1
    <3>1. b[c] \in 1..Len(flat)
      BY <1>2, <1>3, <2>2
    <3> QED
      BY <1>1, <2>2, <3>1
  <2> QED
    BY <2>1, <2>2
<1>7. \A c, e \in Cells(seqs, n + 1) : d[c] = d[e] => c = e
  <2> SUFFICES ASSUME NEW c \in Cells(seqs, n + 1), NEW e \in Cells(seqs, n + 1), d[c] = d[e]
               PROVE  c = e
    OBVIOUS
  <2>1. CASE c[1] = n + 1 /\ e[1] = n + 1
    <3>1. c[2] = e[2]
      BY <1>1, <1>3, <2>1
    <3> QED
      BY <3>1, <2>1, <1>5
  <2>2. CASE c[1] = n + 1 /\ e[1] # n + 1
    <3>1. b[e] \in 1..Len(flat)
      BY <1>2, <1>3, <2>2
    <3> QED
      BY <1>1, <1>3, <2>2, <3>1
  <2>3. CASE c[1] # n + 1 /\ e[1] = n + 1
    <3>1. b[c] \in 1..Len(flat)
      BY <1>2, <1>3, <2>3
    <3> QED
      BY <1>1, <1>3, <2>3, <3>1
  <2>4. CASE c[1] # n + 1 /\ e[1] # n + 1
    BY <1>2, <1>3, <2>4
  <2> QED
    BY <2>1, <2>2, <2>3, <2>4
<1>8. \A k \in 1..Len(all) : \E c \in Cells(seqs, n + 1) : d[c] = k
  <2> SUFFICES ASSUME NEW k \in 1..Len(all)
               PROVE  \E c \in Cells(seqs, n + 1) : d[c] = k
    OBVIOUS
  <2>1. CASE k <= Len(flat)
    <3>1. k \in 1..Len(flat)
      BY <2>1, <1>1
    <3>2. PICK c \in Cells(seqs, n) : b[c] = k
      BY <1>2, <3>1
    <3>3. c \in Cells(seqs, n + 1) /\ d[c] = k
      BY <3>2, <1>4
    <3> QED
      BY <3>3
  <2>2. CASE k > Len(flat)
    <3>1. k - Len(flat) \in 1..Len(seqs[n + 1])
      BY <2>2, <1>1
    <3>2. /\ <<n + 1, k - Len(flat)>> \in Cells(seqs, n + 1)
          /\ d[<<n + 1, k - Len(flat)>>] = k
      BY <3>1, <1>4, <1>1
    <3> QED
      BY <3>2
  <2> QED
    BY <2>1, <2>2, <1>1
<1>9. d \in Bijection(Cells(seqs, n + 1), 1..Len(all))
  <2> HIDE DEF d, all
  <2> QED
    BY <1>6, <1>7, <1>8 DEF Bijection, Injection, Surjection, IsInjective
<1>10. \A c \in Cells(seqs, n + 1) : all[d[c]] = seqs[c[1]][c[2]]
  <2> SUFFICES ASSUME NEW c \in Cells(seqs, n + 1)
               PROVE  all[d[c]] = seqs[c[1]][c[2]]
    OBVIOUS
  <2> HIDE DEF all
  <2>1. CASE c[1] = n + 1
    BY <1>1, <1>3, <2>1
  <2>2. CASE c[1] # n + 1
    <3>1. c \in Cells(seqs, n) /\ b[c] \in 1..Len(flat)
      BY <1>2, <1>3, <2>2
    <3>2. flat[b[c]] = seqs[c[1]][c[2]]
      BY <3>1 DEF Tiles
    <3> QED
      BY <1>1, <2>2, <3>1, <3>2
  <2> QED
    BY <2>1, <2>2
<1> QED
  BY <1>9, <1>10 DEF Tiles

LEMMA TilesUpTo ==
  ASSUME NEW S, NEW seqs \in Seq(Seq(S)), NEW f, Unfolds(f, seqs, Len(seqs)), NEW n \in 1..Len(seqs)
  PROVE  f[n] \in Seq(S) /\ \E b : Tiles(b, seqs, n, f[n])
<1> DEFINE Good(m) == f[m] \in Seq(S) /\ \E b : Tiles(b, seqs, m, f[m])
           Bad == {m \in 1..Len(seqs) : ~Good(m)}
<1> SUFFICES ASSUME n \in Bad PROVE FALSE
  OBVIOUS
<1>1. PICK m \in Bad : \A k \in Bad : m <= k
  <2>1. Bad \subseteq Nat
    OBVIOUS
  <2> HIDE DEF Bad
  <2> QED
    BY <2>1, LeastNumber
<1>2. m \in 1..Len(seqs) /\ ~Good(m)
  OBVIOUS
<1>3. \A k \in 1..Len(seqs) : f[k] = IF k = 1 THEN seqs[k] ELSE f[k - 1] \o seqs[k]
  BY DEF Unfolds
<1>4. CASE m = 1
  <2>1. f[1] = <<>> \o seqs[1] /\ f[1] \in Seq(S)
    BY <1>2, <1>3, <1>4
  <2>2. Cells(seqs, 0) = {}
    BY DEF Cells
  <2>3. Tiles(<<>>, seqs, 0, <<>>)
    <3>1. 1..Len(<<>>) = {} /\ DOMAIN <<>> = {} /\ <<>> \in [{} -> {}]
      OBVIOUS
    <3> QED
      BY <2>2, <3>1 DEF Tiles, Bijection, Injection, Surjection, IsInjective
  <2>4. \E d : Tiles(d, seqs, 0 + 1, <<>> \o seqs[0 + 1])
    <3>1. <<>> \in Seq(S) /\ 0 \in Nat /\ 0 + 1 \in 1..Len(seqs)
      BY <1>2, <1>4
    <3> QED
      BY <2>3, <3>1, TileOneMore
  <2> QED
    BY <1>2, <1>4, <2>1, <2>4
<1>5. CASE m # 1
  <2>1. m - 1 \in Nat /\ m - 1 \in 1..Len(seqs) /\ (m - 1) + 1 = m /\ ~(m <= m - 1)
    BY <1>2, <1>5
  <2>2. Good(m - 1)
    <3>1. m - 1 \notin Bad
      <4> HIDE DEF Bad
      <4> QED
        BY <1>1, <2>1
    <3> QED
      BY <2>1, <3>1
  <2>3. PICK b : Tiles(b, seqs, m - 1, f[m - 1])
    BY <2>2
  <2>4. f[m - 1] \in Seq(S)
    BY <2>2
  <2>5. \E d : Tiles(d, seqs, (m - 1) + 1, f[m - 1] \o seqs[(m - 1) + 1])
    <3> HIDE DEF Bad, Good
    <3>1. (m - 1) + 1 \in 1..Len(seqs)
      BY <2>1, <1>2
    <3> QED
      BY <2>1, <2>3, <2>4, <3>1, TileOneMore
  <2>6. f[m] = f[m - 1] \o seqs[m] /\ seqs[m] \in Seq(S)
    <3> HIDE DEF Bad, Good
    <3>1. m \in 1..Len(seqs)
      BY <1>2
    <3>2. f[m] = IF m = 1 THEN seqs[m] ELSE f[m - 1] \o seqs[m]
      BY <1>3, <3>1
    <3>3. seqs[m] \in Seq(S)
      BY <3>1
    <3> QED
      BY <1>5, <3>2, <3>3
  <2>7. f[m] \in Seq(S)
    BY <2>4, <2>6
  <2> QED
    BY <1>2, <2>1, <2>5, <2>6, <2>7
<1> QED
  BY <1>4, <1>5

\* What FlattenSeq returns: every element of every sequence, each in one place.
LEMMA FlattenTiles ==
  ASSUME NEW S, NEW seqs \in Seq(Seq(S))
  PROVE  /\ FlattenSeq(seqs) \in Seq(S)
         /\ \E b : Tiles(b, seqs, Len(seqs), FlattenSeq(seqs))
<1>1. CASE Len(seqs) = 0
  <2>1. FlattenSeq(seqs) = <<>>
    BY <1>1 DEF FlattenSeq
  <2>2. Cells(seqs, Len(seqs)) = {}
    BY <1>1 DEF Cells
  <2>3. Tiles(<<>>, seqs, Len(seqs), <<>>)
    <3>1. 1..Len(<<>>) = {} /\ DOMAIN <<>> = {} /\ <<>> \in [{} -> {}]
      OBVIOUS
    <3> QED
      BY <2>2, <3>1 DEF Tiles, Bijection, Injection, Surjection, IsInjective
  <2> QED
    BY <2>1, <2>3
<1>2. CASE Len(seqs) # 0
  <2>1. Len(seqs) \in 1..Len(seqs)
    BY <1>2
  <2> QED
    BY <1>2, <2>1, FlattenUnfolds, TilesUpTo
<1> QED
  BY <1>1, <1>2

-----------------------------------------------------------------------------
(* The order of texts.                                                     *)

\* The first place two texts differ at, where the first text has ended or has
\* the lesser character.
LessAt(s, t, i) ==
  /\ i \in 1..Len(t) /\ i <= Len(s) + 1
  /\ \A j \in 1..(i - 1) : s[j] = t[j]
  /\ i <= Len(s) => s[i] < t[i]

LEMMA TextLessAt ==
  ASSUME NEW s \in Seq(Int), NEW t \in Seq(Int)
  PROVE  TextLess(s, t) <=> \E i \in Nat : LessAt(s, t, i)
<1>0. /\ Len(s) \in Nat /\ Len(t) \in Nat /\ DOMAIN s = 1..Len(s) /\ DOMAIN t = 1..Len(t)
      /\ \A u \in Seq(Int) : \A m \in 0..Len(u) :
           /\ SubSeq(u, 1, m) = [j \in 1..m |-> u[j]]
  <2>1. ASSUME NEW u \in Seq(Int), NEW m \in 0..Len(u)
        PROVE  SubSeq(u, 1, m) = [j \in 1..m |-> u[j]]
    <3>1. Len(SubSeq(u, 1, m)) = m /\ SubSeq(u, 1, m) \in Seq(Int)
      BY <2>1
    <3>2. \A j \in 1..m : SubSeq(u, 1, m)[j] = u[j]
      BY <2>1
    <3> QED
      BY <3>1, <3>2
  <2> QED
    BY <2>1
<1>1. ASSUME IsStrictPrefix(s, t)
      PROVE  \E i \in Nat : LessAt(s, t, i)
  <2>1. Len(s) <= Len(t) /\ s # t /\ SubSeq(s, 1, Len(s)) = SubSeq(t, 1, Len(s))
    BY <1>1 DEF IsStrictPrefix, IsPrefix
  <2>2. \A j \in 1..Len(s) : s[j] = t[j]
    <3>1. Len(s) \in 0..Len(s) /\ Len(s) \in 0..Len(t)
      BY <1>0, <2>1
    <3>2. [j \in 1..Len(s) |-> s[j]] = [j \in 1..Len(s) |-> t[j]]
      BY <1>0, <2>1, <3>1
    <3> QED
      BY <3>2
  <2>3. Len(s) # Len(t)
    <3> SUFFICES ASSUME Len(s) = Len(t) PROVE s = t
      BY <2>1
    <3>1. s = [j \in 1..Len(s) |-> s[j]] /\ t = [j \in 1..Len(s) |-> t[j]]
      OBVIOUS
    <3> QED
      BY <2>2, <3>1
  <2>4. LessAt(s, t, Len(s) + 1)
    <3>1. Len(s) + 1 \in 1..Len(t) /\ ~(Len(s) + 1 <= Len(s)) /\ (Len(s) + 1) - 1 = Len(s)
      BY <2>1, <2>3
    <3> QED
      BY <2>2, <3>1 DEF LessAt
  <2> QED
    BY <1>0, <2>4
<1>2. ASSUME NEW i \in DOMAIN s \cap DOMAIN t, s[i] < t[i],
             SubSeq(s, 1, i - 1) = SubSeq(t, 1, i - 1)
      PROVE  \E k \in Nat : LessAt(s, t, k)
  <2>1. i - 1 \in 0..Len(s) /\ i - 1 \in 0..Len(t)
        /\ i \in 1..Len(t) /\ i <= Len(s) + 1 /\ i \in Nat
    BY <1>0, <1>2
  <2>2. [j \in 1..(i - 1) |-> s[j]] = [j \in 1..(i - 1) |-> t[j]]
    BY <1>0, <1>2, <2>1
  <2>3. \A j \in 1..(i - 1) : s[j] = t[j]
    BY <2>2
  <2> QED
    BY <1>2, <2>1, <2>3 DEF LessAt
<1>3. ASSUME NEW i \in Nat, LessAt(s, t, i)
      PROVE  TextLess(s, t)
  <2>1. CASE i <= Len(s)
    <3>1. i \in DOMAIN s \cap DOMAIN t /\ s[i] < t[i]
      BY <1>0, <1>3, <2>1 DEF LessAt
    <3>2. i - 1 \in 0..Len(s) /\ i - 1 \in 0..Len(t)
      BY <1>0, <3>1
    <3>3. SubSeq(s, 1, i - 1) = [j \in 1..(i - 1) |-> s[j]]
          /\ SubSeq(t, 1, i - 1) = [j \in 1..(i - 1) |-> t[j]]
      BY <1>0, <3>2
    <3>4. [j \in 1..(i - 1) |-> s[j]] = [j \in 1..(i - 1) |-> t[j]]
      BY <1>3 DEF LessAt
    <3> QED
      BY <3>1, <3>3, <3>4 DEF TextLess
  <2>2. CASE ~(i <= Len(s))
    <3>1. i = Len(s) + 1 /\ Len(s) < Len(t)
      BY <1>0, <1>3, <2>2 DEF LessAt
    <3>2. [j \in 1..Len(s) |-> s[j]] = [j \in 1..Len(s) |-> t[j]]
      BY <1>0, <1>3, <3>1 DEF LessAt
    <3>3. SubSeq(s, 1, Len(s)) = SubSeq(t, 1, Len(s))
      <4>1. Len(s) \in 0..Len(s) /\ Len(s) \in 0..Len(t)
        BY <3>1
      <4>2. SubSeq(s, 1, Len(s)) = [j \in 1..Len(s) |-> s[j]]
            /\ SubSeq(t, 1, Len(s)) = [j \in 1..Len(s) |-> t[j]]
        BY <1>0, <4>1
      <4> QED
        BY <3>2, <4>2
    <3>4. s # t
      BY <3>1, <1>0
    <3> QED
      BY <3>1, <3>3, <3>4, <1>0 DEF TextLess, IsStrictPrefix, IsPrefix
  <2> QED
    BY <2>1, <2>2
<1> QED
  BY <1>1, <1>2, <1>3 DEF TextLess

LEMMA TextLessIsStrict ==
  ASSUME NEW s \in Seq(Int)
  PROVE  ~TextLess(s, s)
<1> SUFFICES ASSUME NEW i \in Nat, LessAt(s, s, i) PROVE FALSE
  BY TextLessAt
<1>1. i \in 1..Len(s) /\ s[i] < s[i]
  BY DEF LessAt
<1> QED
  BY <1>1

LEMMA TextLessIsTransitive ==
  ASSUME NEW s \in Seq(Int), NEW t \in Seq(Int), NEW u \in Seq(Int),
         TextLess(s, t), TextLess(t, u)
  PROVE  TextLess(s, u)
<1>1. PICK i \in Nat : LessAt(s, t, i)
  BY TextLessAt
<1>2. PICK k \in Nat : LessAt(t, u, k)
  BY TextLessAt
<1>3. Len(s) \in Nat /\ Len(t) \in Nat /\ Len(u) \in Nat
  OBVIOUS
<1>4. /\ \A j \in 1..Len(s) : s[j] \in Int
      /\ \A j \in 1..Len(t) : t[j] \in Int
      /\ \A j \in 1..Len(u) : u[j] \in Int
  OBVIOUS
<1>5. CASE i < k
  <2>1. LessAt(s, u, i)
    BY <1>1, <1>2, <1>3, <1>5 DEF LessAt
  <2> QED
    BY <2>1, TextLessAt
<1>6. CASE i = k
  <2>1. LessAt(s, u, i)
    BY <1>1, <1>2, <1>3, <1>4, <1>6 DEF LessAt
  <2> QED
    BY <2>1, TextLessAt
<1>7. CASE k < i
  <2>1. /\ k \in 1..Len(u) /\ k <= Len(s) + 1 /\ k \in 1..(i - 1) /\ k <= Len(t)
        /\ \A j \in 1..(k - 1) : j \in 1..(i - 1)
    <3>1. i \in 1..Len(t) /\ i <= Len(s) + 1 /\ k \in 1..Len(u)
      BY <1>1, <1>2 DEF LessAt
    <3> QED
      BY <3>1, <1>3, <1>7
  <2>2. \A j \in 1..(k - 1) : s[j] = u[j]
    BY <1>1, <1>2, <2>1 DEF LessAt
  <2>3. s[k] < u[k]
    BY <1>1, <1>2, <2>1 DEF LessAt
  <2>4. LessAt(s, u, k)
    BY <2>1, <2>2, <2>3 DEF LessAt
  <2> QED
    BY <2>4, TextLessAt
<1> QED
  BY <1>5, <1>6, <1>7

LEMMA TextLessIsTotal ==
  ASSUME NEW s \in Seq(Int), NEW t \in Seq(Int), s # t
  PROVE  TextLess(s, t) \/ TextLess(t, s)
<1> DEFINE Apart == {i \in Nat \ {0} : (i \in 1..Len(s) /\ i \in 1..Len(t)) => s[i] # t[i]}
<1>1. Len(s) \in Nat /\ Len(t) \in Nat
  OBVIOUS
<1>2. PICK i \in Apart : \A j \in Apart : i <= j
  <2>1. Apart \in SUBSET Nat /\ Len(s) + 1 \in Apart
    BY <1>1
  <2> HIDE DEF Apart
  <2> QED
    BY <2>1, LeastNumber
<1>3. i \in Nat \ {0} /\ (i \in 1..Len(s) /\ i \in 1..Len(t) => s[i] # t[i])
  OBVIOUS
<1>4. \A j \in 1..(i - 1) : j \in 1..Len(s) /\ j \in 1..Len(t) /\ s[j] = t[j]
  <2> SUFFICES ASSUME NEW j \in 1..(i - 1)
               PROVE  j \in 1..Len(s) /\ j \in 1..Len(t) /\ s[j] = t[j]
    OBVIOUS
  <2>1. j \in Nat \ {0} /\ ~(i <= j)
    BY <1>3
  <2>2. j \notin Apart
    <3> HIDE DEF Apart
    <3> QED
      BY <1>2, <2>1
  <2> QED
    BY <2>1, <2>2
<1>5. i <= Len(s) + 1 /\ i <= Len(t) + 1
  <2>1. i # 1 => i - 1 \in 1..(i - 1)
    BY <1>3
  <2> QED
    BY <1>1, <1>3, <1>4, <2>1
<1>6. i <= Len(s) \/ i <= Len(t)
  <2> SUFFICES ASSUME i = Len(s) + 1, i = Len(t) + 1 PROVE FALSE
    BY <1>1, <1>3, <1>5
  <2>1. Len(s) = Len(t) /\ \A j \in 1..Len(s) : s[j] = t[j]
    BY <1>1, <1>4
  <2> QED
    BY <2>1
<1>7. /\ i \in 1..Len(s) => s[i] \in Int
      /\ i \in 1..Len(t) => t[i] \in Int
  OBVIOUS
<1>8. LessAt(s, t, i) \/ LessAt(t, s, i)
  <2> HIDE DEF Apart
  <2> QED
    BY <1>1, <1>3, <1>4, <1>5, <1>6, <1>7 DEF LessAt
<1> QED
  BY <1>3, <1>8, TextLessAt

-----------------------------------------------------------------------------
(* The entries of a histogram in order.                                    *)

Histogram(counts) ==
  /\ counts \in Seq([outcome : Seq(Seq({0, 1, Blot})), count : Int])
  /\ \A j, k \in DOMAIN counts : Text(counts[j].outcome) = Text(counts[k].outcome) => j = k

LEMMA TextType ==
  ASSUME NEW result \in Seq(Seq({0, 1, Blot}))
  PROVE  Text(result) \in Seq(Int)
<1> DEFINE groups == [g \in DOMAIN result |-> result[g] \o <<-1>>]
<1>1. Blot \in Int
  BY DEF Blot
<1>2. \A g \in 1..Len(result) : result[g] \in Seq(Int)
  <2> SUFFICES ASSUME NEW g \in 1..Len(result) PROVE result[g] \in Seq(Int)
    OBVIOUS
  <2>1. result[g] \in Seq({0, 1, Blot})
    OBVIOUS
  <2> QED
    BY <1>1, <2>1
<1>3. \A g \in 1..Len(result) : result[g] \o <<-1>> \in Seq(Int)
  BY <1>2
<1>4. groups \in Seq(Seq(Int))
  <2>1. DOMAIN result = 1..Len(result) /\ Len(result) \in Nat
    OBVIOUS
  <2>2. groups \in [1..Len(result) -> Seq(Int)]
    BY <1>3, <2>1
  <2> HIDE DEF groups
  <2> QED
    BY <2>1, <2>2, ListsAreFunctions, Zenon
<1> QED
  BY <1>4, FlattenTiles DEF Text

LEMMA TextsOfEntries ==
  ASSUME NEW counts, Histogram(counts), NEW m \in DOMAIN counts
  PROVE  Text(counts[m].outcome) \in Seq(Int)
<1>1. counts[m] \in [outcome : Seq(Seq({0, 1, Blot})), count : Int]
  BY ListsAreFunctions, Zenon DEF Histogram
<1>2. counts[m].outcome \in Seq(Seq({0, 1, Blot}))
  BY <1>1
<1> QED
  BY <1>2, TextType

LEMMA PlacesAreOrdered ==
  ASSUME NEW counts, Histogram(counts), NEW j \in DOMAIN counts, NEW k \in DOMAIN counts,
         TextLess(Text(counts[j].outcome), Text(counts[k].outcome))
  PROVE  Place(counts, j) < Place(counts, k)
<1> DEFINE T(m) == Text(counts[m].outcome)
<1>1. \A m \in DOMAIN counts : T(m) \in Seq(Int)
  BY TextsOfEntries
<1>2. IsFiniteSet(DOMAIN counts)
  BY FS_Interval DEF Histogram
<1>3. /\ Before(counts, j) \subseteq DOMAIN counts /\ Before(counts, k) \subseteq DOMAIN counts
      /\ IsFiniteSet(Before(counts, j)) /\ IsFiniteSet(Before(counts, k))
  BY <1>2, FS_Subset DEF Before
<1>4. j \notin Before(counts, j)
  BY <1>1, TextLessIsStrict DEF Before
<1>5. Before(counts, j) \cup {j} \subseteq Before(counts, k)
  <2>1. ASSUME NEW m \in Before(counts, j)
        PROVE  m \in Before(counts, k)
    <3>1. m \in DOMAIN counts /\ TextLess(T(m), T(j))
      BY <2>1 DEF Before
    <3>2. TextLess(T(m), T(k))
      <4>1. T(m) \in Seq(Int) /\ T(j) \in Seq(Int) /\ T(k) \in Seq(Int)
        BY <1>1, <3>1
      <4> QED
        BY <3>1, <4>1, TextLessIsTransitive
    <3> QED
      BY <3>1, <3>2 DEF Before
  <2>2. j \in Before(counts, k)
    BY DEF Before
  <2> QED
    BY <2>1, <2>2
<1>6. Cardinality(Before(counts, j) \cup {j}) = Cardinality(Before(counts, j)) + 1
  BY <1>3, <1>4, FS_AddElement
<1>7. Cardinality(Before(counts, j) \cup {j}) <= Cardinality(Before(counts, k))
  BY <1>3, <1>5, FS_Subset
<1>8. Cardinality(Before(counts, j)) \in Nat /\ Cardinality(Before(counts, k)) \in Nat
  BY <1>3, FS_CardinalityType
<1> QED
  BY <1>6, <1>7, <1>8 DEF Place

\* An entry has a place among the sorted, another than any other entry.
LEMMA PlacesAreTaken ==
  ASSUME NEW counts, Histogram(counts)
  PROVE  [k \in DOMAIN counts |-> Place(counts, k)] \in Bijection(DOMAIN counts, DOMAIN counts)
<1> DEFINE p == [k \in DOMAIN counts |-> Place(counts, k)]
<1>1. Len(counts) \in Nat /\ DOMAIN counts = 1..Len(counts)
  BY DEF Histogram
<1>2. IsFiniteSet(DOMAIN counts) /\ Cardinality(DOMAIN counts) = Len(counts)
  <2>1. IsFiniteSet(1..Len(counts)) /\ Cardinality(1..Len(counts)) = Len(counts)
    <3>1. IF 1 > Len(counts) THEN Len(counts) = 0 ELSE Len(counts) - 1 + 1 = Len(counts)
      BY <1>1
    <3>2. 1 \in Int /\ Len(counts) \in Int
      BY <1>1
    <3>3. IsFiniteSet(1..Len(counts))
          /\ Cardinality(1..Len(counts)) = IF 1 > Len(counts) THEN 0 ELSE Len(counts) - 1 + 1
      BY <3>2, FS_Interval
    <3> QED
      BY <3>1, <3>3
  <2> QED
    BY <1>1, <2>1
<1>3. \A m \in DOMAIN counts : Text(counts[m].outcome) \in Seq(Int)
  BY TextsOfEntries
<1>4. ASSUME NEW k \in DOMAIN counts
      PROVE  Place(counts, k) \in DOMAIN counts
  <2>1. Before(counts, k) \subseteq DOMAIN counts \ {k}
    BY <1>3, TextLessIsStrict DEF Before
  <2>2. IsFiniteSet(DOMAIN counts \ {k}) /\ Cardinality(DOMAIN counts \ {k}) = Len(counts) - 1
    BY <1>2, FS_RemoveElement
  <2>3. IsFiniteSet(Before(counts, k)) /\ Cardinality(Before(counts, k)) <= Len(counts) - 1
    BY <2>1, <2>2, FS_Subset
  <2>4. Cardinality(Before(counts, k)) \in Nat
    BY <2>3, FS_CardinalityType
  <2>5. Place(counts, k) \in 1..Len(counts)
    BY <1>1, <2>3, <2>4 DEF Place
  <2> QED
    BY <1>1, <2>5
<1>5. ASSUME NEW j \in DOMAIN counts, NEW k \in DOMAIN counts, Place(counts, j) = Place(counts, k)
      PROVE  j = k
  <2> SUFFICES ASSUME j # k PROVE FALSE
    OBVIOUS
  <2>1. Text(counts[j].outcome) # Text(counts[k].outcome)
    BY DEF Histogram
  <2>2. Place(counts, j) < Place(counts, k) \/ Place(counts, k) < Place(counts, j)
    BY <1>3, <2>1, TextLessIsTotal, PlacesAreOrdered
  <2>3. Place(counts, j) \in Int /\ Place(counts, k) \in Int
    BY <1>1, <1>4
  <2> QED
    BY <1>5, <2>2, <2>3
<1>6. p \in Injection(DOMAIN counts, DOMAIN counts)
  <2>1. p \in [DOMAIN counts -> DOMAIN counts]
    BY <1>4
  <2>2. \A j, k \in DOMAIN counts : p[j] = p[k] => j = k
    BY <1>5
  <2> QED
    BY <2>1, <2>2 DEF Injection, IsInjective
<1>7. p \in Surjection(DOMAIN counts, DOMAIN counts)
  <2> HIDE DEF p
  <2> QED
    BY <1>2, <1>6, FS_Injection
<1> QED
  BY <1>6, <1>7 DEF Bijection

LEMMA InOrderAtPlace ==
  ASSUME NEW counts, Histogram(counts)
  PROVE  /\ DOMAIN InOrder(counts) = DOMAIN counts
         /\ \A k \in DOMAIN counts :
              Place(counts, k) \in DOMAIN counts /\ InOrder(counts)[Place(counts, k)] = counts[k]
         /\ \A i \in DOMAIN counts : \E k \in DOMAIN counts : Place(counts, k) = i
<1>1. /\ \A k \in DOMAIN counts : Place(counts, k) \in DOMAIN counts
      /\ \A j, k \in DOMAIN counts : Place(counts, j) = Place(counts, k) => j = k
      /\ \A i \in DOMAIN counts : \E k \in DOMAIN counts : Place(counts, k) = i
  <2> DEFINE p == [k \in DOMAIN counts |-> Place(counts, k)]
  <2>1. p \in Bijection(DOMAIN counts, DOMAIN counts)
    BY PlacesAreTaken
  <2>2. \A k \in DOMAIN counts : p[k] = Place(counts, k)
    OBVIOUS
  <2>3. /\ p \in [DOMAIN counts -> DOMAIN counts]
        /\ \A j, k \in DOMAIN counts : p[j] = p[k] => j = k
        /\ \A i \in DOMAIN counts : \E k \in DOMAIN counts : p[k] = i
    <3> HIDE DEF p
    <3> QED
      BY <2>1 DEF Bijection, Injection, Surjection, IsInjective
  <2> HIDE DEF p
  <2> QED
    BY <2>2, <2>3
<1>2. ASSUME NEW k \in DOMAIN counts
      PROVE  InOrder(counts)[Place(counts, k)] = counts[k]
  <2>1. (CHOOSE j \in DOMAIN counts : Place(counts, j) = Place(counts, k)) = k
    BY <1>1
  <2> QED
    BY <1>1, <2>1 DEF InOrder
<1> QED
  BY <1>1, <1>2 DEF InOrder

-----------------------------------------------------------------------------
(* A record for every shot.                                                *)

LEMMA RepeatedIsList ==
  ASSUME NEW n \in Int, NEW T, NEW t \in T
  PROVE  /\ [shot \in 1..n |-> t] \in Seq(T)
         /\ Len([shot \in 1..n |-> t]) = IF n > 0 THEN n ELSE 0
<1> DEFINE m == IF n > 0 THEN n ELSE 0
           list == [shot \in 1..m |-> t]
<1>1. m \in Nat /\ 1..n = 1..m
  OBVIOUS
<1>2. list \in [1..m -> T]
  OBVIOUS
<1>3. list = [shot \in 1..n |-> t]
  BY <1>1
<1>4. list \in Seq(T) /\ Len(list) = m
  <2> HIDE DEF m, list
  <2> QED
    BY <1>1, <1>2, ListsAreFunctions
<1> QED
  <2> HIDE DEF list
  <2> QED
    BY <1>3, <1>4

LEMMA ShotsOfEntries ==
  ASSUME NEW counts, Histogram(counts)
  PROVE  /\ \A s \in Shots(counts) : /\ s = <<s[1], s[2]>> /\ s[1] \in DOMAIN counts
                                   /\ s[2] \in 1..counts[s[1]].count
         /\ \A k \in DOMAIN counts : \A j \in 1..counts[k].count : <<k, j>> \in Shots(counts)
BY DEF Shots

LEMMA RecordsAreShots ==
  ASSUME NEW counts, Histogram(counts)
  PROVE  /\ SyndromeRecords(counts) \in Seq({RecordOf(counts[k].outcome) : k \in DOMAIN counts})
         /\ \E b \in Bijection(Shots(counts), DOMAIN SyndromeRecords(counts)) :
              \A s \in Shots(counts) :
                SyndromeRecords(counts)[b[s]] = RecordOf(counts[s[1]].outcome)
<1> DEFINE entries == InOrder(counts)
           R == {RecordOf(counts[k].outcome) : k \in DOMAIN counts}
           Repeated(i) == [shot \in 1..entries[i].count |-> RecordOf(entries[i].outcome)]
           seqs == [i \in DOMAIN entries |-> Repeated(i)]
           records == SyndromeRecords(counts)
<1>1. /\ Len(counts) \in Nat /\ DOMAIN counts = 1..Len(counts)
      /\ \A k \in DOMAIN counts : counts[k].count \in Int
  <2>1. \A k \in DOMAIN counts : counts[k] \in [outcome : Seq(Seq({0, 1, Blot})), count : Int]
    BY ListsAreFunctions, Zenon DEF Histogram
  <2> QED
    BY <2>1, ListsAreFunctions DEF Histogram
<1>2. /\ DOMAIN entries = DOMAIN counts
      /\ \A k \in DOMAIN counts :
           Place(counts, k) \in DOMAIN counts /\ entries[Place(counts, k)] = counts[k]
      /\ \A i \in DOMAIN counts : \E k \in DOMAIN counts : Place(counts, k) = i
  BY InOrderAtPlace
<1>3. \A j, k \in DOMAIN counts : Place(counts, j) = Place(counts, k) => j = k
  <2> DEFINE p == [k \in DOMAIN counts |-> Place(counts, k)]
  <2>1. p \in Bijection(DOMAIN counts, DOMAIN counts)
    BY PlacesAreTaken
  <2>2. \A k \in DOMAIN counts : p[k] = Place(counts, k)
    OBVIOUS
  <2>3. \A j, k \in DOMAIN counts : p[j] = p[k] => j = k
    <3> HIDE DEF p
    <3> QED
      BY <2>1 DEF Bijection, Injection, IsInjective
  <2> HIDE DEF p
  <2> QED
    BY <2>2, <2>3
<1>4. ASSUME NEW i \in DOMAIN entries
      PROVE  /\ entries[i].count \in Int
             /\ Repeated(i) \in Seq(R)
             /\ Len(Repeated(i)) = IF entries[i].count > 0 THEN entries[i].count ELSE 0
             /\ DOMAIN Repeated(i) = 1..entries[i].count
             /\ \A j \in 1..entries[i].count : Repeated(i)[j] = RecordOf(entries[i].outcome)
  <2>1. PICK k \in DOMAIN counts : Place(counts, k) = i
    BY <1>2
  <2>2. entries[i] = counts[k]
    BY <1>2, <2>1
  <2>3. RecordOf(entries[i].outcome) \in R /\ entries[i].count \in Int
    BY <1>1, <2>2
  <2> HIDE DEF entries, R
  <2> QED
    BY <2>3, RepeatedIsList
<1>5. seqs \in Seq(Seq(R)) /\ Len(seqs) = Len(counts)
  <2>1. seqs \in [1..Len(counts) -> Seq(R)]
    <3> HIDE DEF entries, Repeated, R
    <3> QED
      BY <1>1, <1>2, <1>4
  <2> HIDE DEF seqs, R
  <2> QED
    BY <1>1, <2>1, ListsAreFunctions
<1>6. records = FlattenSeq(seqs)
  BY DEF SyndromeRecords
<1>7. PICK b : Tiles(b, seqs, Len(counts), records)
  <2> HIDE DEF seqs, R, records
  <2> QED
    BY <1>5, <1>6, FlattenTiles
<1>8. records \in Seq(R)
  <2> HIDE DEF seqs, R, records
  <2> QED
    BY <1>5, <1>6, FlattenTiles
<1> DEFINE cells == Cells(seqs, Len(counts))
           g == [s \in Shots(counts) |-> <<Place(counts, s[1]), s[2]>>]
<1>9. \A i \in DOMAIN counts : seqs[i] = Repeated(i)
  BY <1>2
<1>10. ASSUME NEW k \in DOMAIN counts
       PROVE  /\ Len(seqs[Place(counts, k)]) = IF counts[k].count > 0 THEN counts[k].count ELSE 0
              /\ \A j \in 1..counts[k].count :
                   seqs[Place(counts, k)][j] = RecordOf(counts[k].outcome)
  <2>1. /\ Place(counts, k) \in DOMAIN counts /\ Place(counts, k) \in DOMAIN entries
        /\ entries[Place(counts, k)] = counts[k]
    BY <1>2
  <2>2. seqs[Place(counts, k)] = Repeated(Place(counts, k))
    BY <1>9, <2>1
  <2>3. /\ Len(Repeated(Place(counts, k))) = IF counts[k].count > 0 THEN counts[k].count ELSE 0
        /\ \A j \in 1..counts[k].count :
             Repeated(Place(counts, k))[j] = RecordOf(counts[k].outcome)
    <3> HIDE DEF seqs, entries, Repeated
    <3> QED
      BY <1>4, <2>1
  <2> HIDE DEF seqs, entries, Repeated
  <2> QED
    BY <2>2, <2>3
<1> HIDE DEF entries, Repeated, seqs
<1>11. g \in [Shots(counts) -> cells]
  <2> SUFFICES ASSUME NEW s \in Shots(counts)
               PROVE  <<Place(counts, s[1]), s[2]>> \in cells
    OBVIOUS
  <2>1. s[1] \in DOMAIN counts /\ s[2] \in 1..counts[s[1]].count
    BY ShotsOfEntries
  <2>2. Place(counts, s[1]) \in 1..Len(counts)
    BY <1>1, <1>2, <2>1
  <2>3. counts[s[1]].count \in Int /\ s[2] \in Nat \ {0} /\ s[2] <= counts[s[1]].count
    BY <1>1, <2>1
  <2>4. s[2] <= Len(seqs[Place(counts, s[1])])
    BY <1>10, <2>1, <2>3
  <2> QED
    BY <2>2, <2>3, <2>4 DEF Cells
<1>12. \A s, t \in Shots(counts) : g[s] = g[t] => s = t
  <2> SUFFICES ASSUME NEW s \in Shots(counts), NEW t \in Shots(counts), g[s] = g[t]
               PROVE  s = t
    OBVIOUS
  <2>1. Place(counts, s[1]) = Place(counts, t[1]) /\ s[2] = t[2]
    OBVIOUS
  <2>2. s[1] = t[1]
    BY <1>3, <2>1, ShotsOfEntries
  <2> QED
    BY <2>1, <2>2, ShotsOfEntries
<1>13. \A c \in cells : \E s \in Shots(counts) : g[s] = c
  <2> SUFFICES ASSUME NEW c \in cells
               PROVE  \E s \in Shots(counts) : g[s] = c
    OBVIOUS
  <2>1. /\ c = <<c[1], c[2]>> /\ c[1] \in 1..Len(counts) /\ c[2] \in Nat \ {0}
        /\ c[2] <= Len(seqs[c[1]])
    BY DEF Cells
  <2>2. PICK k \in DOMAIN counts : Place(counts, k) = c[1]
    BY <1>1, <1>2, <2>1
  <2>3. c[2] \in 1..counts[k].count
    BY <1>1, <1>10, <2>1, <2>2
  <2>4. <<k, c[2]>> \in Shots(counts)
    BY <2>3, ShotsOfEntries
  <2>5. g[<<k, c[2]>>] = c
    BY <2>1, <2>2, <2>4
  <2> QED
    BY <2>4, <2>5
<1>14. /\ b \in [cells -> 1..Len(records)]
       /\ \A c, e \in cells : b[c] = b[e] => c = e
       /\ \A m \in 1..Len(records) : \E c \in cells : b[c] = m
       /\ \A c \in cells : records[b[c]] = seqs[c[1]][c[2]]
  <2> HIDE DEF records
  <2> QED
    BY <1>7 DEF Tiles, Bijection, Injection, Surjection, IsInjective
<1>15. DOMAIN records = 1..Len(records)
  <2> HIDE DEF records, R
  <2> QED
    BY <1>8
<1> DEFINE d == [s \in Shots(counts) |-> b[g[s]]]
<1>16. d \in Bijection(Shots(counts), DOMAIN records)
  <2> HIDE DEF records, cells, g
  <2>1. d \in [Shots(counts) -> DOMAIN records]
    BY <1>11, <1>14, <1>15
  <2>2. \A s, t \in Shots(counts) : d[s] = d[t] => s = t
    BY <1>11, <1>12, <1>14
  <2>3. \A m \in DOMAIN records : \E s \in Shots(counts) : d[s] = m
    <3> SUFFICES ASSUME NEW m \in DOMAIN records PROVE \E s \in Shots(counts) : d[s] = m
      OBVIOUS
    <3>1. PICK c \in cells : b[c] = m
      BY <1>14, <1>15
    <3>2. PICK s \in Shots(counts) : g[s] = c
      BY <1>13
    <3> QED
      BY <3>1, <3>2
  <2> HIDE DEF d
  <2> QED
    BY <2>1, <2>2, <2>3 DEF Bijection, Injection, Surjection, IsInjective
<1>17. ASSUME NEW s \in Shots(counts)
       PROVE  records[d[s]] = RecordOf(counts[s[1]].outcome)
  <2>1. s[1] \in DOMAIN counts /\ s[2] \in 1..counts[s[1]].count
    BY ShotsOfEntries
  <2>2. g[s] = <<Place(counts, s[1]), s[2]>> /\ g[s] \in cells
    BY <1>11
  <2>3. records[b[g[s]]] = seqs[Place(counts, s[1])][s[2]]
    <3> HIDE DEF records, cells, g
    <3> QED
      BY <1>14, <2>2
  <2> HIDE DEF records, g
  <2> QED
    BY <1>10, <2>1, <2>3
<1> QED
  <2> HIDE DEF records, d
  <2> QED
    BY <1>8, <1>16, <1>17 DEF records

-----------------------------------------------------------------------------
(* What is extracted does not depend on the order of the histogram.        *)

\* A bijection matches subsets of the same size.
LEMMA SubsetsMatch ==
  ASSUME NEW S, NEW T, IsFiniteSet(T), NEW b \in Bijection(S, T),
         NEW A \in SUBSET S, NEW B \in SUBSET T, \A s \in S : s \in A <=> b[s] \in B
  PROVE  Cardinality(A) = Cardinality(B)
<1>1. /\ b \in [S -> T]
      /\ \A s, t \in S : b[s] = b[t] => s = t
      /\ \A t \in T : \E s \in S : b[s] = t
  BY DEF Bijection, Injection, Surjection, IsInjective
<1> DEFINE a == [s \in A |-> b[s]]
<1>2. a \in Bijection(A, B)
  <2>1. a \in [A -> B]
    OBVIOUS
  <2>2. \A s, t \in A : a[s] = a[t] => s = t
    BY <1>1
  <2>3. \A t \in B : \E s \in A : a[s] = t
    BY <1>1
  <2> HIDE DEF a
  <2> QED
    BY <2>1, <2>2, <2>3 DEF Bijection, Injection, Surjection, IsInjective
<1>3. IsFiniteSet(B)
  BY FS_Subset
<1>4. a \in Injection(A, B) /\ a \in Surjection(A, B)
  BY <1>2 DEF Bijection
<1> HIDE DEF a
<1> QED
  BY <1>3, <1>4, FS_Injection

LEMMA OrderIsForgotten ==
  ASSUME NEW counts, Histogram(counts), NEW order \in Bijection(DOMAIN counts, DOMAIN counts)
  PROVE  LET parsed == [k \in DOMAIN counts |-> counts[order[k]]]
         IN  Histogram(parsed) /\ InOrder(parsed) = InOrder(counts)
<1> DEFINE parsed == [k \in DOMAIN counts |-> counts[order[k]]]
           Entry == [outcome : Seq(Seq({0, 1, Blot})), count : Int]
<1>1. /\ order \in [DOMAIN counts -> DOMAIN counts]
      /\ \A j, k \in DOMAIN counts : order[j] = order[k] => j = k
  BY DEF Bijection, Injection, Surjection, IsInjective
<1>2. /\ DOMAIN parsed = DOMAIN counts
      /\ \A k \in DOMAIN counts : parsed[k] = counts[order[k]] /\ order[k] \in DOMAIN counts
  BY <1>1
<1>3. /\ Len(counts) \in Nat /\ DOMAIN counts = 1..Len(counts)
      /\ \A k \in DOMAIN counts : counts[k] \in Entry
  <2> HIDE DEF Entry
  <2>1. counts \in Seq(Entry)
    BY Zenon DEF Histogram, Entry
  <2> QED
    BY <2>1, ListsAreFunctions
<1>4. Histogram(parsed)
  <2>1. parsed \in [1..Len(counts) -> Entry]
    <3> HIDE DEF Entry
    <3> QED
      BY <1>1, <1>3
  <2>2. parsed \in Seq(Entry)
    <3> HIDE DEF Entry, parsed
    <3> QED
      BY <1>3, <2>1, ListsAreFunctions
  <2>3. ASSUME NEW j \in DOMAIN parsed, NEW k \in DOMAIN parsed,
               Text(parsed[j].outcome) = Text(parsed[k].outcome)
        PROVE  j = k
    <3>1. order[j] = order[k]
      <4> HIDE DEF parsed
      <4> QED
        BY <1>2, <2>3 DEF Histogram
    <3> QED
      BY <1>1, <1>2, <3>1
  <2> HIDE DEF parsed
  <2> QED
    BY <2>2, <2>3, Zenon DEF Histogram, Entry
<1> HIDE DEF parsed, Entry
<1>5. IsFiniteSet(DOMAIN counts)
  BY <1>3, FS_Interval
<1>6. ASSUME NEW k \in DOMAIN counts
      PROVE  Place(parsed, k) = Place(counts, order[k])
  <2>1. /\ Before(parsed, k) \in SUBSET DOMAIN counts
        /\ Before(counts, order[k]) \in SUBSET DOMAIN counts
    BY <1>2 DEF Before
  <2>2. \A j \in DOMAIN counts : j \in Before(parsed, k) <=> order[j] \in Before(counts, order[k])
    BY <1>2 DEF Before
  <2>3. Cardinality(Before(parsed, k)) = Cardinality(Before(counts, order[k]))
    BY <1>5, <2>1, <2>2, SubsetsMatch
  <2> QED
    BY <2>3 DEF Place
<1>7. ASSUME NEW i \in DOMAIN counts
      PROVE  InOrder(parsed)[i] = InOrder(counts)[i]
  <2>1. PICK k \in DOMAIN counts : Place(parsed, k) = i
    BY <1>2, <1>4, InOrderAtPlace
  <2>2. InOrder(parsed)[i] = counts[order[k]]
    <3>1. InOrder(parsed)[Place(parsed, k)] = parsed[k]
      BY <1>2, <1>4, InOrderAtPlace
    <3> QED
      BY <1>2, <2>1, <3>1
  <2>3. InOrder(counts)[i] = counts[order[k]]
    BY <1>2, <1>6, <2>1, InOrderAtPlace
  <2> QED
    BY <2>2, <2>3
<1>8. InOrder(parsed) = [i \in DOMAIN counts |-> InOrder(parsed)[i]]
      /\ InOrder(counts) = [i \in DOMAIN counts |-> InOrder(counts)[i]]
  BY <1>2 DEF InOrder
<1> QED
  BY <1>4, <1>7, <1>8 DEF parsed

\* What a session is built from is a histogram all of whose outcomes are usable.
LEMMA BuiltFromUsable ==
  ASSUME NEW files \in Buildables
  PROVE  /\ files \in Published /\ files.circuit /\ Histogram(files.counts)
         /\ \A k \in DOMAIN files.counts : Usable(files.counts[k].outcome)
<1>1. files \in Published /\ BuildArtifact(files, 1, Nil) # NoArtifact
  BY DEF Buildables
<1>2. ~(~files.circuit \/ \E k \in DOMAIN files.counts : ~Usable(files.counts[k].outcome))
  BY <1>1 DEF BuildArtifact
<1>3. Histogram(files.counts)
  <2>1. files.counts \in Seq([outcome : Seq(Seq({0, 1, Blot})), count : Int])
    BY <1>1, PublishedAssumption
  <2> QED
    BY <1>1, <2>1, PublishedAssumption DEF Histogram
<1> QED
  BY <1>1, <1>2, <1>3

LEMMA StratumTellsAge ==
  ASSUME NEW age \in Int
  PROVE  Stratum(age) = "stale" <=> age \div Hour >= 24
<1>1. age >= 24 * 3600 <=> age \div 3600 >= 24
  BY Z3
<1> QED
  BY <1>1 DEF Stratum, Hour

LEMMA ReorderedIsTheSame ==
  ASSUME NEW files \in Buildables, NEW session, NEW parent,
         NEW order \in Bijection(DOMAIN files.counts, DOMAIN files.counts)
  PROVE  BuildArtifact(Reordered(files, order), session, parent)
           = BuildArtifact(files, session, parent)
<1> DEFINE counts == files.counts
           parsed == [k \in DOMAIN counts |-> counts[order[k]]]
           other == Reordered(files, order)
<1>1. /\ files \in Published /\ files.circuit /\ Histogram(counts)
      /\ \A k \in DOMAIN counts : Usable(counts[k].outcome)
  BY BuiltFromUsable
<1>2. /\ other.circuit = files.circuit /\ other.counts = parsed /\ other.rounds = files.rounds
      /\ other.submitted = files.submitted /\ other.calibrated = files.calibrated
  <2>1. files \in [ circuit : BOOLEAN, rounds : Int, submitted : Int, calibrated : Int,
                    counts : Seq([outcome : Seq(Seq({0, 1, Blot})), count : Int]) ]
    BY <1>1, PublishedAssumption
  <2>2. DOMAIN files = {"circuit", "rounds", "submitted", "calibrated", "counts"}
    BY <2>1, Zenon
  <2> HIDE DEF parsed
  <2>3. other = [files EXCEPT !.counts = parsed]
    BY Zenon DEF Reordered, parsed
  <2> QED
    BY <2>2, <2>3
<1>3. Histogram(parsed) /\ InOrder(parsed) = InOrder(counts)
  BY <1>1, OrderIsForgotten
<1>4. SyndromeRecords(parsed) = SyndromeRecords(counts)
  BY <1>3 DEF SyndromeRecords
<1>5. \A k \in DOMAIN parsed : Usable(parsed[k].outcome)
  <2>1. order \in [DOMAIN counts -> DOMAIN counts]
    BY DEF Bijection, Injection
  <2> QED
    BY <1>1, <2>1
<1> HIDE DEF parsed, counts, other
<1>6. BuildArtifact(files, session, parent) =
        [ session  |-> session,
          distance |-> CODE_DISTANCE,
          rounds   |-> files.rounds,
          shots    |-> Len(SyndromeRecords(counts)),
          records  |-> SyndromeRecords(counts),
          parent   |-> parent,
          hours    |-> (files.submitted - files.calibrated) \div Hour,
          stratum  |-> Stratum(files.submitted - files.calibrated) ]
  BY <1>1 DEF BuildArtifact, counts
<1>7. BuildArtifact(other, session, parent) =
        [ session  |-> session,
          distance |-> CODE_DISTANCE,
          rounds   |-> files.rounds,
          shots    |-> Len(SyndromeRecords(parsed)),
          records  |-> SyndromeRecords(parsed),
          parent   |-> parent,
          hours    |-> (files.submitted - files.calibrated) \div Hour,
          stratum  |-> Stratum(files.submitted - files.calibrated) ]
  BY <1>1, <1>2, <1>5 DEF BuildArtifact
<1> QED
  BY <1>4, <1>6, <1>7 DEF other

\* For any session and any order of its histogram: the artifact is the same, and
\* the stratum is the one the age in hours tells (extract_qecp1.py, conventions 4
\* and 6).
THEOREM ExtractionForgetsOrder == Spec => []ExtractionIsCanonical
<1>1. IInv => ExtractionIsCanonical
  <2> SUFFICES ASSUME IInv, IsExtracted, phase = "load"
               PROVE  LET files == input.source
                          entries == DOMAIN files.counts
                          artifact == BuildArtifact(files, input.session, input.parent)
                      IN  /\ artifact.stratum = "stale" <=> artifact.hours >= 24
                          /\ \A order \in Bijection(entries, entries) :
                               BuildArtifact(Reordered(files, order), input.session, input.parent)
                                 = artifact
    BY DEF ExtractionIsCanonical
  <2> DEFINE files == input.source
             artifact == BuildArtifact(files, input.session, input.parent)
             age == files.submitted - files.calibrated
  <2>1. files \in Buildables
    BY ExtractedAssumption DEF IInv, IsExtracted
  <2>2. artifact.stratum = Stratum(age) /\ artifact.hours = age \div Hour
    BY <2>1, BuiltFromUsable DEF BuildArtifact
  <2>3. age \in Int
    BY <2>1, PublishedAssumption, BuiltFromUsable
  <2>4. artifact.stratum = "stale" <=> artifact.hours >= 24
    <3> HIDE DEF artifact, age
    <3> QED
      BY <2>2, <2>3, StratumTellsAge
  <2> QED
    BY <2>1, <2>4, ReorderedIsTheSame
<1> QED
  BY Initial, Step, <1>1, PTL DEF Spec

-----------------------------------------------------------------------------
(* A session is decoded.                                                   *)

Output == [count |-> count, shots |-> input.shots, defects |-> defects, session |-> input.session]

Sound ==
  /\ input.form = "object" /\ Required \subseteq input.fields /\ WellTyped
  /\ Len(input.records) = input.shots
  /\ Buildable(Code)
  /\ \A k \in DOMAIN input.records : WellFormed(input.records[k])

\* The capability ends with the output artifact unless something is wrong with
\* the input, and with none of an input whose fields are not typed.
EndsForAReason ==
  /\ phase \in {"load", "decode", "table", "records", "over"}
  /\ phase \in {"decode", "table", "records"} \/ Completed => WellTyped
  /\ phase = "over" =>
       ~Sound \/ (outcome = Output /\ count \in Nat /\ defects \in [1..input.rounds -> Nat])

LEMMA EndsUnsound ==
  ASSUME EndsForAReason, NEW artifact, End(artifact), "count" \notin DOMAIN artifact, ~Sound
  PROVE  EndsForAReason'
<1>1. /\ input' = input /\ phase' = "over" /\ outcome' = artifact
  BY DEF End
<1>2. ~Completed'
  BY <1>1 DEF Completed
<1>3. Sound' = Sound
  BY <1>1 DEF Sound, WellTyped, WellFormed, Code
<1> QED
  BY <1>1, <1>2, <1>3 DEF EndsForAReason

LEMMA ReasonInitially == Init => EndsForAReason
BY DEF Init, EndsForAReason, Completed

LEMMA ReasonKept == IInv /\ EndsForAReason /\ [Next]_vars => EndsForAReason'
<1> SUFFICES ASSUME IInv, EndsForAReason, [Next]_vars PROVE EndsForAReason'
  OBVIOUS
<1>1. CASE Raise
  <2>1. ~Sound
    BY <1>1 DEF Raise, Unforeseen, Sound
  <2> QED
    BY <1>1, <2>1, NoOutput, EndsUnsound DEF Raise
<1>2. CASE Reject
  <2>1. ~Sound
    BY <1>2 DEF Reject, Refused, Sound
  <2> QED
    BY <1>2, <2>1, NoOutput, EndsUnsound DEF Reject, Error
<1>3. CASE Load
  BY <1>3 DEF Load, Goto, EndsForAReason, WellTyped, Completed
<1>4. CASE Mismatch
  <2>1. ~Sound
    BY <1>4 DEF Mismatch, Sound
  <2> QED
    BY <1>4, <2>1, NoOutput, EndsUnsound DEF Mismatch, Error
<1>5. CASE NoTable
  <2>1. ~Sound
    BY <1>5 DEF NoTable, Sound
  <2> QED
    BY <1>5, <2>1, NoOutput, EndsUnsound DEF NoTable, Error
<1>6. CASE BuildTable
  BY <1>6 DEF BuildTable, EndsForAReason, WellTyped, Completed
<1>7. CASE Enter
  BY <1>7 DEF Enter, EndsForAReason, WellTyped, Completed
<1>8. CASE Malformed
  <2>1. index \in DOMAIN input.records /\ ~WellFormed(input.records[index])
    BY <1>8, RecordsAreListed DEF Malformed, Reading, Record, IInv, Passed
  <2>2. ~Sound
    BY <2>1 DEF Sound
  <2> QED
    BY <1>8, <2>2, NoOutput, EndsUnsound DEF Malformed, Error
<1>9. CASE Tally
  BY <1>9 DEF Tally, Reading, EndsForAReason, WellTyped, Completed
<1>10. CASE Complete
  <2>1. /\ input' = input /\ phase' = "over" /\ count' = count /\ defects' = defects
        /\ outcome' = Output /\ Output' = Output
    BY <1>10 DEF Complete, End, Output
  <2>2. WellTyped /\ WellTyped' = WellTyped
    BY <1>10, <2>1 DEF Complete, EndsForAReason, WellTyped
  <2>3. count \in Nat
    <3>1. count = Cardinality(Flipped(index))
      BY <1>10 DEF Complete, IInv, Tallied
    <3>2. IsFiniteSet(DOMAIN input.records)
      BY RecordsAreListed, FS_Interval DEF IInv
    <3>3. IsFiniteSet(Flipped(index))
      BY <3>2, FS_Subset DEF Flipped
    <3> QED
      BY <3>1, <3>3, FS_CardinalityType
  <2>4. defects \in [1..input.rounds -> Nat]
    BY <1>10 DEF Complete, IInv, Tallied
  <2> QED
    BY <2>1, <2>2, <2>3, <2>4 DEF EndsForAReason
<1>11. CASE UNCHANGED vars
  <2>1. Sound' = Sound /\ WellTyped' = WellTyped /\ Completed' = Completed /\ Output' = Output
    BY <1>11 DEF vars, Sound, WellTyped, WellFormed, Completed, Output, Code
  <2> QED
    BY <1>11, <2>1 DEF vars, EndsForAReason
<1> QED
  BY <1>1, <1>2, <1>3, <1>4, <1>5, <1>6, <1>7, <1>8, <1>9, <1>10, <1>11 DEF Next

\* What there is to know of an extracted input.
LEMMA WhatIsExtracted ==
  ASSUME input \in Inputs, IsExtracted
  PROVE  LET counts == input.source.counts
         IN  /\ input.source \in Buildables
             /\ input.form = "object" /\ Required \subseteq input.fields /\ input.typed
             /\ input.session \in Nat \ {0}
             /\ input.distance = CODE_DISTANCE
             /\ input.rounds = input.source.rounds /\ input.rounds \in Int
             /\ input.records = SyndromeRecords(counts)
             /\ input.shots = Len(input.records)
<1>1. PICK place \in Places : input = InputOf(input.source, place)
  BY ExtractedAssumption DEF IsExtracted
<1>2. input.source \in Buildables
  BY ExtractedAssumption DEF IsExtracted
<1> DEFINE files == input.source
           artifact == BuildArtifact(files, place[1], place[2])
<1>3. /\ artifact.session = place[1] /\ artifact.distance = CODE_DISTANCE
      /\ artifact.rounds = files.rounds /\ artifact.shots = Len(SyndromeRecords(files.counts))
      /\ artifact.records = SyndromeRecords(files.counts)
  BY <1>2, BuiltFromUsable DEF BuildArtifact
<1> HIDE DEF artifact
<1>4. /\ input.form = "object" /\ input.fields = Required /\ input.typed = TRUE
      /\ input.session = artifact.session /\ input.distance = artifact.distance
      /\ input.rounds = artifact.rounds /\ input.shots = artifact.shots
      /\ input.records = artifact.records
  BY <1>1 DEF InputOf, artifact
<1>5. place[1] \in Nat \ {0}
  BY PlacesAssumption
<1>6. input.rounds \in Int
  BY InputsAssumption
<1> QED
  BY <1>2, <1>3, <1>4, <1>5, <1>6

LEMMA ExtractedRecords ==
  ASSUME input \in Inputs, IsExtracted, NEW b,
         b \in Bijection(Shots(input.source.counts), DOMAIN input.records),
         \A s \in Shots(input.source.counts) :
           input.records[b[s]] = RecordOf(input.source.counts[s[1]].outcome),
         NEW k \in DOMAIN input.records
  PROVE  /\ input.records[k] # NotString /\ input.records[k].binary
         /\ input.records[k].width = DETECTOR_BITS
<1> DEFINE counts == input.source.counts
<1>1. PICK s \in Shots(counts) : b[s] = k
  BY DEF Bijection, Surjection
<1>2. input.source \in Buildables
  BY WhatIsExtracted
<1>3. s[1] \in DOMAIN counts /\ Usable(counts[s[1]].outcome)
  BY <1>1, <1>2, BuiltFromUsable, ShotsOfEntries
<1>4. input.records[k] = RecordOf(counts[s[1]].outcome)
  BY <1>1
<1>5. RecordOf(counts[s[1]].outcome) # NotString
  BY <1>2, <1>3, BuiltFromUsable, StringsAssumption
<1>6. /\ RecordOf(counts[s[1]].outcome).width = DETECTOR_BITS
      /\ RecordOf(counts[s[1]].outcome).binary = TRUE
  BY <1>3 DEF RecordOf, Usable
<1> QED
  BY <1>4, <1>5, <1>6

LEMMA ProductsMatch ==
  ASSUME NEW S, NEW T, NEW D, NEW b \in Bijection(S, T)
  PROVE  [e \in S \X D |-> <<b[e[1]], e[2]>>] \in Bijection(S \X D, T \X D)
<1> DEFINE p == [e \in S \X D |-> <<b[e[1]], e[2]>>]
<1>1. /\ b \in [S -> T]
      /\ \A s, t \in S : b[s] = b[t] => s = t
      /\ \A t \in T : \E s \in S : b[s] = t
  BY DEF Bijection, Injection, Surjection, IsInjective
<1>2. p \in [S \X D -> T \X D]
  BY <1>1
<1>3. ASSUME NEW e \in S \X D, NEW f \in S \X D, p[e] = p[f]
      PROVE  e = f
  <2>1. b[e[1]] = b[f[1]] /\ e[2] = f[2]
    BY <1>3
  <2>2. e[1] = f[1]
    BY <1>1, <2>1
  <2> QED
    BY <2>1, <2>2
<1>4. ASSUME NEW c \in T \X D
      PROVE  \E e \in S \X D : p[e] = c
  <2>1. PICK s \in S : b[s] = c[1]
    BY <1>1
  <2>2. <<s, c[2]>> \in S \X D /\ p[<<s, c[2]>>] = c
    BY <2>1
  <2> QED
    BY <2>2
<1> HIDE DEF p
<1>5. p \in Bijection(S \X D, T \X D)
  BY <1>2, <1>3, <1>4 DEF Bijection, Injection, Surjection, IsInjective
<1> QED
  BY <1>5 DEF p

\* The output counts the shots.
LEMMA OutputCountsShots ==
  ASSUME IInv, IsExtracted, Completed, input.rounds = ROUNDS, ROUNDS \in Nat
  PROVE  LET counts == input.source.counts
             shots == Shots(counts)
             Events(s) == RecordOf(counts[s[1]].outcome).ones
         IN  /\ outcome.shots = Cardinality(shots)
             /\ outcome.count = Cardinality({s \in shots : Table(Code)[Events(s)] = 1})
             /\ \A r \in 1..ROUNDS :
                  outcome.defects[r] =
                    Cardinality({e \in shots \X Detectors(Code) :
                                   e[2] \in Events(e[1]) /\ Round(Code, e[2]) = r - 1})
<1> DEFINE counts == input.source.counts
           shots == Shots(counts)
           Events(s) == RecordOf(counts[s[1]].outcome).ones
           records == DOMAIN input.records
<1>1. input \in Inputs /\ input.source \in Buildables /\ input.records = SyndromeRecords(counts)
  BY WhatIsExtracted DEF IInv
<1>2. PICK b \in Bijection(shots, records) :
        \A s \in shots : input.records[b[s]] = RecordOf(counts[s[1]].outcome)
  <2>1. Histogram(counts)
    BY <1>1, BuiltFromUsable
  <2>2. \E b \in Bijection(shots, DOMAIN SyndromeRecords(counts)) :
          \A s \in shots : SyndromeRecords(counts)[b[s]] = RecordOf(counts[s[1]].outcome)
    <3> HIDE DEF counts
    <3> QED
      BY <2>1, RecordsAreShots
  <2> QED
    BY <1>1, <2>2
<1>3. /\ IsFiniteSet(records) /\ IsFiniteSet(Detectors(Code))
  <2>1. DetectorCount(Code) - 1 \in Int
    <3>1. input.distance \in Int /\ input.rounds \in Int
      BY <1>1, InputsAssumption
    <3>2. DetectorCount(Code) = input.rounds * (input.distance - 1)
      BY DEF DetectorCount, Code
    <3> QED
      BY <3>1, <3>2, Z3
  <2>2. IsFiniteSet(Detectors(Code))
    BY <2>1, FS_Interval DEF Detectors
  <2>3. IsFiniteSet(records)
    BY <1>1, RecordsAreListed, FS_Interval
  <2> QED
    BY <2>2, <2>3
<1>4. \A s \in shots : b[s] \in records /\ input.records[b[s]].ones = Events(s)
  BY <1>2 DEF Bijection, Injection
<1> HIDE DEF shots, records, Events
<1>5. Cardinality(shots) = Cardinality(records)
  BY <1>3, <1>4, SubsetsMatch
<1>6. Cardinality({s \in shots : Table(Code)[Events(s)] = 1})
        = Cardinality({k \in records : Table(Code)[input.records[k].ones] = 1})
  BY <1>3, <1>4, SubsetsMatch
<1>7. ASSUME NEW r
      PROVE  Cardinality({e \in shots \X Detectors(Code) :
                            e[2] \in Events(e[1]) /\ Round(Code, e[2]) = r})
               = Cardinality({e \in records \X Detectors(Code) :
                                e[2] \in input.records[e[1]].ones /\ Round(Code, e[2]) = r})
  <2> DEFINE D == Detectors(Code)
             p == [e \in shots \X D |-> <<b[e[1]], e[2]>>]
             A == {e \in shots \X D : e[2] \in Events(e[1]) /\ Round(Code, e[2]) = r}
             B == {e \in records \X D : e[2] \in input.records[e[1]].ones /\ Round(Code, e[2]) = r}
  <2>1. p \in Bijection(shots \X D, records \X D)
    BY ProductsMatch
  <2>2. IsFiniteSet(records \X D)
    BY <1>3, FS_Product
  <2>3. ASSUME NEW e \in shots \X D
        PROVE  e \in A <=> p[e] \in B
    <3>1. e[1] \in shots /\ e[2] \in D /\ p[e] = <<b[e[1]], e[2]>>
      OBVIOUS
    <3>2. p[e] \in records \X D /\ p[e][1] = b[e[1]] /\ p[e][2] = e[2]
      BY <1>4, <3>1
    <3>3. input.records[b[e[1]]].ones = Events(e[1])
      BY <1>4, <3>1
    <3> HIDE DEF p, D
    <3> QED
      BY <3>2, <3>3
  <2> HIDE DEF p, D
  <2>4. A \in SUBSET (shots \X D) /\ B \in SUBSET (records \X D)
    OBVIOUS
  <2>5. Cardinality(A) = Cardinality(B)
    <3> HIDE DEF A, B
    <3> QED
      BY <2>1, <2>2, <2>3, <2>4, SubsetsMatch
  <2> QED
    BY <2>5 DEF D
<1>8. /\ outcome.shots = Cardinality(records)
      /\ outcome.count = Cardinality({k \in records : Table(Code)[input.records[k].ones] = 1})
      /\ \A r \in 0..(input.rounds - 1) :
           outcome.defects[r + 1] =
             Cardinality({e \in records \X Detectors(Code) :
                            e[2] \in input.records[e[1]].ones /\ Round(Code, e[2]) = r})
  BY DEF IInv, OutputIsTheTally, records
<1>9. ASSUME NEW r \in 1..ROUNDS
      PROVE  outcome.defects[r] =
               Cardinality({e \in shots \X Detectors(Code) :
                              e[2] \in Events(e[1]) /\ Round(Code, e[2]) = r - 1})
  <2>1. r - 1 \in 0..(input.rounds - 1) /\ (r - 1) + 1 = r
    OBVIOUS
  <2> QED
    BY <1>7, <1>8, <2>1
<1> QED
  BY <1>5, <1>6, <1>8, <1>9 DEF shots, Events

LEMMA CompletesWhenSound ==
  ASSUME EndsForAReason, phase = "over", Sound, input \in Inputs, input.session \in Nat
  PROVE  Completed
<1>1. outcome = Output /\ count \in Nat /\ defects \in [1..input.rounds -> Nat]
  BY DEF EndsForAReason
<1>2. input.rounds \in Nat /\ input.shots \in Int
  BY CodeIsSmall, InputsAssumption DEF Sound
<1>3. defects \in Seq(Nat)
  BY <1>1, <1>2, ListsAreFunctions
<1>4. Output \in [count : Nat, shots : Int, defects : Seq(Nat), session : Nat]
  BY <1>1, <1>2, <1>3 DEF Output
<1>5. "count" \in DOMAIN Output
  BY DEF Output
<1> QED
  BY <1>1, <1>4, <1>5, NilAssumption DEF Completed

\* For any session, of any number of shots and of any code that has a table: it
\* is decoded unless it has no shot, other rounds or a parent where it may have
\* none, and the output counts its published histogram (extract_qecp1.py
\* build_artifact, decode.py decode).
THEOREM HistogramIsCounted == Spec => []ExtractedIsDecoded
<1>1. IInv /\ EndsForAReason => ExtractedIsDecoded
  <2> SUFFICES ASSUME IInv, EndsForAReason, IsExtracted, phase = "over"
               PROVE  LET counts == input.source.counts
                          shots == Shots(counts)
                          Events(s) == RecordOf(counts[s[1]].outcome).ones
                      IN  /\ Completed <=> /\ shots # {}
                                          /\ input.source.rounds = ROUNDS
                                          /\ (input.session = 1) = (input.parent = Nil)
                          /\ Completed =>
                               /\ outcome.shots = Cardinality(shots)
                               /\ outcome.count =
                                    Cardinality({s \in shots : Table(Code)[Events(s)] = 1})
                               /\ \A r \in 1..ROUNDS :
                                    outcome.defects[r] =
                                      Cardinality({e \in shots \X Detectors(Code) :
                                        e[2] \in Events(e[1]) /\ Round(Code, e[2]) = r - 1})
    BY DEF ExtractedIsDecoded
  <2> DEFINE counts == input.source.counts
             shots == Shots(counts)
  <2>1. /\ input \in Inputs /\ input.source \in Buildables
        /\ input.form = "object" /\ Required \subseteq input.fields /\ input.typed
        /\ input.session \in Nat \ {0} /\ input.distance = CODE_DISTANCE
        /\ input.rounds = input.source.rounds /\ input.rounds \in Int
        /\ input.records = SyndromeRecords(counts) /\ input.shots = Len(input.records)
    BY WhatIsExtracted DEF IInv
  <2>2. PICK b \in Bijection(shots, DOMAIN input.records) :
          \A s \in shots : input.records[b[s]] = RecordOf(counts[s[1]].outcome)
    <3>1. Histogram(counts)
      BY <2>1, BuiltFromUsable
    <3>2. \E b \in Bijection(shots, DOMAIN SyndromeRecords(counts)) :
            \A s \in shots : SyndromeRecords(counts)[b[s]] = RecordOf(counts[s[1]].outcome)
      <4> HIDE DEF counts
      <4> QED
        BY <3>1, RecordsAreShots
    <3> QED
      BY <2>1, <3>2
  <2>3. \A k \in DOMAIN input.records :
          /\ input.records[k] # NotString /\ input.records[k].binary
          /\ input.records[k].width = DETECTOR_BITS
    BY <2>1, <2>2, ExtractedRecords
  <2>4. Len(input.records) \in Nat /\ DOMAIN input.records = 1..Len(input.records)
    BY <2>1, RecordsAreListed
  <2>5. shots # {} <=> input.shots >= 1
    <3>1. /\ \A s \in shots : b[s] \in DOMAIN input.records
          /\ \A k \in DOMAIN input.records : \E s \in shots : b[s] = k
      BY DEF Bijection, Injection, Surjection
    <3>2. input.shots >= 1 <=> DOMAIN input.records # {}
      BY <2>1, <2>4
    <3> QED
      BY <3>1, <3>2
  <2>6. /\ CODE_DISTANCE \in Nat /\ ROUNDS \in Nat /\ ROUNDS >= 1 /\ CODE_DISTANCE >= 3
        /\ Buildable([distance |-> CODE_DISTANCE, rounds |-> ROUNDS])
    BY CodeAssumption DEF Buildable
  <2>7. DetectorCount(Code) = DETECTOR_BITS <=> input.rounds = ROUNDS
    <3>1. DetectorCount(Code) = input.rounds * (CODE_DISTANCE - 1)
      BY <2>1 DEF DetectorCount, Code
    <3>2. DETECTOR_BITS = ROUNDS * (CODE_DISTANCE - 1)
      BY DEF DETECTOR_BITS
    <3>3. \A m, n \in Int : \A w \in Nat : w >= 2 => (m * w = n * w <=> m = n)
      BY Z3
    <3>4. input.rounds \in Int /\ ROUNDS \in Int
          /\ CODE_DISTANCE - 1 \in Nat /\ CODE_DISTANCE - 1 >= 2
      BY <2>1, <2>6
    <3>5. input.rounds * (CODE_DISTANCE - 1) = ROUNDS * (CODE_DISTANCE - 1)
            <=> input.rounds = ROUNDS
      BY <3>3, <3>4, Zenon
    <3> QED
      BY <3>1, <3>2, <3>5
  <2>8. ASSUME Completed
        PROVE  /\ shots # {} /\ input.rounds = ROUNDS /\ (input.session = 1) = (input.parent = Nil)
    <3>1. WellTyped
      BY <2>8 DEF EndsForAReason
    <3>2. input.shots >= 1 /\ (input.session = 1) = (input.parent = Nil)
      BY <3>1 DEF WellTyped
    <3>3. 1 \in DOMAIN input.records
      BY <2>1, <2>4, <3>2
    <3>4. input.records[1].width = DetectorCount(Code)
      BY <2>8, <3>3 DEF IInv, NothingPartial
    <3>5. input.records[1].width = DETECTOR_BITS
      BY <2>3, <3>3
    <3> QED
      BY <2>5, <2>7, <3>2, <3>4, <3>5
  <2>9. ASSUME shots # {}, input.rounds = ROUNDS, (input.session = 1) = (input.parent = Nil)
        PROVE  Completed
    <3>1. WellTyped
      BY <2>1, <2>5, <2>6, <2>9 DEF WellTyped
    <3>2. Buildable(Code)
      BY <2>1, <2>6, <2>9 DEF Code
    <3>3. \A k \in DOMAIN input.records : WellFormed(input.records[k])
      BY <2>3, <2>7, <2>9 DEF WellFormed
    <3>4. Sound
      BY <2>1, <3>1, <3>2, <3>3 DEF Sound
    <3> QED
      BY <2>1, <3>4, CompletesWhenSound
  <2>10. Completed <=> /\ shots # {}
                      /\ input.source.rounds = ROUNDS
                      /\ (input.session = 1) = (input.parent = Nil)
    BY <2>1, <2>8, <2>9
  <2> QED
    BY <2>1, <2>6, <2>8, <2>10, OutputCountsShots
<1>2. IInv /\ EndsForAReason /\ [Next]_vars => (IInv /\ EndsForAReason)'
  BY Step, ReasonKept
<1>3. Init => IInv /\ EndsForAReason
  BY Initial, ReasonInitially
<1> QED
  BY <1>1, <1>2, <1>3, PTL DEF Spec
=============================================================================
