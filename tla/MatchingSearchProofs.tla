------------------------ MODULE MatchingSearchProofs ------------------------
(***************************************************************************)
(* For every code a table may be built for and every pattern: the search   *)
(* returns the least of all matchings, and the correction that matching    *)
(* implies undoes what few faults did.                                     *)
(***************************************************************************)
EXTENDS MatchingSearch, FiniteSetTheorems, SequenceTheorems, WellFoundedInduction, TLAPS

-----------------------------------------------------------------------------
(* Least elements.                                                         *)

LessThan == {pair \in Nat \X Nat : pair[1] < pair[2]}

LEMMA LeastNumber ==
  ASSUME NEW K, K \subseteq Nat, K # {}
  PROVE  Min(K) \in K /\ \A k \in K : Min(K) <= k
<1>1. IsWellFoundedOn(LessThan, Nat)
  BY NatLessThanWellFounded DEF OpToRel, LessThan
<1>2. PICK k \in K : \A j \in K : <<j, k>> \notin LessThan
  BY <1>1, WFMin
<1>3. ASSUME NEW j \in K PROVE k <= j
  <2>1. j \in Nat /\ k \in Nat
    OBVIOUS
  <2>2. j < k => <<j, k>> \in LessThan
    BY <2>1 DEF LessThan
  <2> QED
    BY <1>2, <2>1, <2>2
<1> QED
  BY <1>3 DEF Min

-----------------------------------------------------------------------------
(* The order of tuples.                                                    *)

\* A strict linear order.
Orders(R, A) ==
  /\ \A a \in A : <<a, a>> \notin R
  /\ \A a, b, c \in A : <<a, b>> \in R /\ <<b, c>> \in R => <<a, c>> \in R
  /\ \A a, b \in A : a = b \/ <<a, b>> \in R \/ <<b, a>> \in R

Precedes(R, s, t) ==
  \E k \in DOMAIN t : Agree(s, t, k) /\ (k \in DOMAIN s => <<s[k], t[k]>> \in R)

Lexicographic(R, A) == {pair \in Seq(A) \X Seq(A) : Precedes(R, pair[1], pair[2])}

\* Of two different sequences one precedes the other: there is a first place
\* where they differ.
LEMMA SomePrecedes ==
  ASSUME NEW A, NEW R, Orders(R, A), NEW s \in Seq(A), NEW t \in Seq(A), s # t
  PROVE  Precedes(R, s, t) \/ Precedes(R, t, s)
<1> DEFINE K == {k \in Nat \ {0} : ~(k \in DOMAIN s /\ k \in DOMAIN t /\ s[k] = t[k])}
<1>1. /\ Len(s) \in Nat /\ DOMAIN s = 1..Len(s)
      /\ Len(t) \in Nat /\ DOMAIN t = 1..Len(t)
  OBVIOUS
<1>2. K \subseteq Nat /\ K # {}
  <2>1. Len(s) + 1 \in K
    BY <1>1
  <2> QED
    BY <2>1
<1> DEFINE k == Min(K)
<1>3. k \in K /\ \A j \in K : k <= j
  <2> HIDE DEF K
  <2> QED
    BY <1>2, LeastNumber
<1>4. k \in Nat \ {0} /\ ~(k \in DOMAIN s /\ k \in DOMAIN t /\ s[k] = t[k])
  BY <1>3
<1>5. \A j \in 1..(k - 1) : j \in DOMAIN s /\ j \in DOMAIN t /\ s[j] = t[j]
  BY <1>3, <1>4
<1> HIDE DEF K, k
<1>6. CASE k \in DOMAIN s /\ k \in DOMAIN t
  <2>1. s[k] \in A /\ t[k] \in A /\ s[k] # t[k]
    BY <1>4, <1>6
  <2> QED
    BY <1>5, <1>6, <2>1 DEF Orders, Precedes, Agree
<1>7. CASE k \in DOMAIN s /\ k \notin DOMAIN t
  BY <1>5, <1>7 DEF Precedes, Agree
<1>8. CASE k \notin DOMAIN s /\ k \in DOMAIN t
  BY <1>5, <1>8 DEF Precedes, Agree
<1>9. CASE k \notin DOMAIN s /\ k \notin DOMAIN t
  <2>1. Len(s) = k - 1
    BY <1>1, <1>4, <1>5, <1>9
  <2>2. Len(t) = k - 1
    BY <1>1, <1>4, <1>5, <1>9
  <2>3. s = t
    BY <1>1, <1>5, <2>1, <2>2, SeqEqual
  <2> QED
    BY <2>3
<1> QED
  BY <1>6, <1>7, <1>8, <1>9

LEMMA PrecedesTransitive ==
  ASSUME NEW A, NEW R, Orders(R, A),
         NEW s \in Seq(A), NEW t \in Seq(A), NEW u \in Seq(A),
         Precedes(R, s, t), Precedes(R, t, u)
  PROVE  Precedes(R, s, u)
<1>1. DOMAIN t = 1..Len(t) /\ DOMAIN u = 1..Len(u) /\ Len(t) \in Nat /\ Len(u) \in Nat
  OBVIOUS
<1>2. PICK k \in DOMAIN t : Agree(s, t, k) /\ (k \in DOMAIN s => <<s[k], t[k]>> \in R)
  BY DEF Precedes
<1>3. PICK l \in DOMAIN u : Agree(t, u, l) /\ (l \in DOMAIN t => <<t[l], u[l]>> \in R)
  BY DEF Precedes
<1>4. k \in Nat \ {0} /\ l \in Nat \ {0}
  BY <1>1
<1>5. CASE k < l
  <2>1. k \in DOMAIN u /\ t[k] = u[k]
    BY <1>1, <1>3, <1>4, <1>5 DEF Agree
  <2>2. Agree(s, u, k)
    BY <1>2, <1>3, <1>4, <1>5 DEF Agree
  <2> QED
    BY <1>2, <2>1, <2>2 DEF Precedes
<1>6. CASE k = l
  <2>1. Agree(s, u, k)
    BY <1>2, <1>3, <1>4, <1>6 DEF Agree
  <2>2. ASSUME k \in DOMAIN s PROVE <<s[k], u[k]>> \in R
    <3>1. s[k] \in A /\ t[k] \in A /\ u[k] \in A
      BY <1>3, <1>6, <2>2
    <3> QED
      BY <1>2, <1>3, <1>6, <2>2, <3>1 DEF Orders
  <2> QED
    BY <1>3, <1>6, <2>1, <2>2 DEF Precedes
<1>7. CASE l < k
  <2>1. l \in DOMAIN t
    BY <1>1, <1>4, <1>7
  <2>2. Agree(s, u, l)
    BY <1>2, <1>3, <1>4, <1>7 DEF Agree
  <2>3. l \in DOMAIN s /\ s[l] = t[l]
    BY <1>2, <1>4, <1>7 DEF Agree
  <2> QED
    BY <1>3, <2>1, <2>2, <2>3 DEF Precedes
<1> QED
  BY <1>4, <1>5, <1>6, <1>7

LEMMA LexicographicOrders ==
  ASSUME NEW A, NEW R, Orders(R, A)
  PROVE  Orders(Lexicographic(R, A), Seq(A))
<1>1. ASSUME NEW s \in Seq(A) PROVE ~Precedes(R, s, s)
  <2>1. \A k \in DOMAIN s : <<s[k], s[k]>> \notin R
    BY DEF Orders
  <2> QED
    BY <2>1 DEF Precedes
<1>2. \A s, t \in Seq(A) : <<s, t>> \in Lexicographic(R, A) <=> Precedes(R, s, t)
  BY DEF Lexicographic
<1>3. \A s, t, u \in Seq(A) : Precedes(R, s, t) /\ Precedes(R, t, u) => Precedes(R, s, u)
  BY PrecedesTransitive
<1>4. \A s, t \in Seq(A) : s = t \/ Precedes(R, s, t) \/ Precedes(R, t, s)
  BY SomePrecedes
<1> QED
  BY <1>1, <1>2, <1>3, <1>4 DEF Orders

\* A candidate, whatever code it is of: groups are sequences of detectors.
Weighed == [cost : Nat, matching : Seq(Seq(Nat))]

\* Candidates are ordered by cost and then by matching: of two different ones
\* exactly one is better, and what is better than a better one is better.
LEMMA BetterOrders ==
  /\ \A a \in Weighed : ~Better(a, a)
  /\ \A a, b, c \in Weighed : Better(a, b) /\ Better(b, c) => Better(a, c)
  /\ \A a, b \in Weighed : a = b \/ Better(a, b) \/ Better(b, a)
<1> DEFINE groups    == Lexicographic(LessThan, Nat)
           matchings == Lexicographic(groups, Seq(Nat))
<1>1. Orders(LessThan, Nat)
  BY DEF Orders, LessThan
<1>2. Orders(groups, Seq(Nat))
  BY <1>1, LexicographicOrders
<1>3. Orders(matchings, Seq(Seq(Nat)))
  <2> HIDE DEF groups
  <2> QED
    BY <1>2, LexicographicOrders
<1>4. \A g, h \in Seq(Nat) : <<g, h>> \in groups <=> LessGroup(g, h)
  <2> SUFFICES ASSUME NEW g \in Seq(Nat), NEW h \in Seq(Nat)
               PROVE  <<g, h>> \in groups <=> LessGroup(g, h)
    OBVIOUS
  <2>1. \A k \in DOMAIN h : k \in DOMAIN g => (<<g[k], h[k]>> \in LessThan <=> g[k] < h[k])
    BY DEF LessThan
  <2> QED
    BY <2>1 DEF Lexicographic, Precedes, LessGroup
<1>5. \A m, n \in Seq(Seq(Nat)) : <<m, n>> \in matchings <=> LessMatching(m, n)
  <2> SUFFICES ASSUME NEW m \in Seq(Seq(Nat)), NEW n \in Seq(Seq(Nat))
               PROVE  <<m, n>> \in matchings <=> LessMatching(m, n)
    OBVIOUS
  <2>1. \A k \in DOMAIN n :
          k \in DOMAIN m => (<<m[k], n[k]>> \in groups <=> LessGroup(m[k], n[k]))
    <3> HIDE DEF groups
    <3> QED
      BY <1>4
  <2> HIDE DEF groups
  <2> QED
    BY <2>1 DEF Lexicographic, Precedes, LessMatching
<1>6. \A a, b \in Weighed :
        Better(a, b) <=> \/ a.cost < b.cost
                         \/ a.cost = b.cost /\ <<a.matching, b.matching>> \in matchings
  BY <1>5 DEF Better, Weighed
<1> HIDE DEF matchings
<1>7. \A a \in Weighed : a.cost \in Nat /\ a.matching \in Seq(Seq(Nat))
  BY DEF Weighed
<1>8. \A a, b \in Weighed : a.cost = b.cost /\ a.matching = b.matching => a = b
  BY DEF Weighed
<1>9. \A m \in Seq(Seq(Nat)) : <<m, m>> \notin matchings
  BY <1>3 DEF Orders
<1>10. \A l, m, n \in Seq(Seq(Nat)) :
         <<l, m>> \in matchings /\ <<m, n>> \in matchings => <<l, n>> \in matchings
  BY <1>3 DEF Orders
<1>11. \A m, n \in Seq(Seq(Nat)) : m = n \/ <<m, n>> \in matchings \/ <<n, m>> \in matchings
  BY <1>3 DEF Orders
<1>12. ASSUME NEW a \in Weighed PROVE ~Better(a, a)
  <2>1. a.cost \in Nat /\ <<a.matching, a.matching>> \notin matchings
    BY <1>7, <1>9
  <2>2. Better(a, a) <=> a.cost < a.cost \/ (a.cost = a.cost /\ <<a.matching, a.matching>> \in matchings)
    BY <1>6
  <2> QED
    BY <2>1, <2>2
<1>13. ASSUME NEW a \in Weighed, NEW b \in Weighed, NEW c \in Weighed,
              Better(a, b), Better(b, c)
       PROVE  Better(a, c)
  <2>1. a.cost \in Nat /\ b.cost \in Nat /\ c.cost \in Nat
    BY <1>7
  <2>2. a.cost < b.cost \/ (a.cost = b.cost /\ <<a.matching, b.matching>> \in matchings)
    BY <1>6, <1>13
  <2>3. b.cost < c.cost \/ (b.cost = c.cost /\ <<b.matching, c.matching>> \in matchings)
    BY <1>6, <1>13
  <2>4. Better(a, c) <=> a.cost < c.cost \/ (a.cost = c.cost /\ <<a.matching, c.matching>> \in matchings)
    BY <1>6
  <2>5. <<a.matching, b.matching>> \in matchings /\ <<b.matching, c.matching>> \in matchings
          => <<a.matching, c.matching>> \in matchings
    BY <1>7, <1>10
  <2> QED
    BY <2>1, <2>2, <2>3, <2>4, <2>5
<1>14. ASSUME NEW a \in Weighed, NEW b \in Weighed
       PROVE  a = b \/ Better(a, b) \/ Better(b, a)
  <2>1. a.cost \in Nat /\ b.cost \in Nat
    BY <1>7
  <2>2. Better(a, b) <=> a.cost < b.cost \/ (a.cost = b.cost /\ <<a.matching, b.matching>> \in matchings)
    BY <1>6
  <2>3. Better(b, a) <=> b.cost < a.cost \/ (b.cost = a.cost /\ <<b.matching, a.matching>> \in matchings)
    BY <1>6
  <2>4. \/ a.matching = b.matching
        \/ <<a.matching, b.matching>> \in matchings
        \/ <<b.matching, a.matching>> \in matchings
    BY <1>7, <1>11
  <2>5. a.cost = b.cost /\ a.matching = b.matching => a = b
    BY <1>8
  <2> QED
    BY <2>1, <2>2, <2>3, <2>4, <2>5
<1> QED
  BY <1>12, <1>13, <1>14

-----------------------------------------------------------------------------
(* The recursion of Candidates.                                            *)

\* What it makes of a set of detectors, given what it makes of the smaller ones.
Ways(c, of, S) ==
  IF S = {}
  THEN {[cost |-> 0, matching |-> <<>>]}
  ELSE LET head == Min(S) IN
       Prepend(BoundaryCost(c, head), <<head>>, of[S \ {head}])
         \union
       UNION {Prepend(PairCost(c, head, other), <<head, other>>, of[S \ {head, other}]) :
                other \in S \ {head}}

AllWays(c, F) == CHOOSE f : f = [S \in SUBSET F |-> Ways(c, f, S)]

LEMMA DetectorsAreFinite ==
  ASSUME NEW c \in Codes
  PROVE  /\ c.distance \in Nat /\ c.distance >= 3
         /\ Detectors(c) \subseteq Nat
         /\ IsFiniteSet(Detectors(c))
<1>1. c.distance \in Nat /\ c.distance >= 3 /\ c.rounds \in Nat
  BY CodesAssumption DEF Buildable
<1>2. \A m, n \in Nat : m * n \in Nat
  BY Z3
<1>3. DetectorCount(c) \in Nat
  BY <1>1, <1>2 DEF DetectorCount
<1>4. 0 \in Int /\ DetectorCount(c) - 1 \in Int
  BY <1>3
<1>5. IsFiniteSet(0..(DetectorCount(c) - 1))
  BY <1>4, FS_Interval
<1> QED
  BY <1>1, <1>4, <1>5 DEF Detectors

LEMMA LeastDetector ==
  ASSUME NEW c \in Codes, NEW S, S \subseteq Detectors(c), S # {}
  PROVE  Min(S) \in S /\ \A d \in S : Min(S) <= d
BY DetectorsAreFinite, LeastNumber

\* It looks at smaller sets only.
LEMMA WaysAgree ==
  ASSUME NEW c \in Codes, NEW S, S \subseteq Detectors(c), NEW f, NEW g,
         \A T \in SUBSET S : T # S => f[T] = g[T]
  PROVE  Ways(c, f, S) = Ways(c, g, S)
<1> SUFFICES ASSUME S # {} PROVE Ways(c, f, S) = Ways(c, g, S)
  BY DEF Ways
<1> DEFINE head == Min(S)
<1>1. head \in S
  BY LeastDetector
<1>2. f[S \ {head}] = g[S \ {head}]
  <2>1. S \ {head} \in SUBSET S /\ S \ {head} # S
    BY <1>1
  <2> QED
    BY <2>1
<1>3. \A other \in S \ {head} : f[S \ {head, other}] = g[S \ {head, other}]
  <2> SUFFICES ASSUME NEW other \in S \ {head}
               PROVE  f[S \ {head, other}] = g[S \ {head, other}]
    OBVIOUS
  <2>1. S \ {head, other} \in SUBSET S /\ S \ {head, other} # S
    BY <1>1
  <2> QED
    BY <2>1
<1>4. {Prepend(PairCost(c, head, other), <<head, other>>, f[S \ {head, other}]) :
         other \in S \ {head}} =
      {Prepend(PairCost(c, head, other), <<head, other>>, g[S \ {head, other}]) :
         other \in S \ {head}}
  <2> HIDE DEF head
  <2> QED
    BY <1>3
<1> QED
  BY <1>2, <1>4 DEF Ways

Smaller(F, n) == {S \in SUBSET F : Cardinality(S) <= n}

\* The recursion defines something: of the sizes up to which it defines nothing
\* there is no least.
LEMMA WaysExist ==
  ASSUME NEW c \in Codes, NEW F \in SUBSET Detectors(c)
  PROVE  AllWays(c, F) = [S \in SUBSET F |-> Ways(c, AllWays(c, F), S)]
<1> DEFINE Defined(n) == \E f : f = [S \in Smaller(F, n) |-> Ways(c, f, S)]
           K == {n \in Nat : ~Defined(n)}
<1>1. IsFiniteSet(F)
  BY DetectorsAreFinite, FS_Subset
<1>2. ASSUME NEW S \in SUBSET F
      PROVE  IsFiniteSet(S) /\ Cardinality(S) \in Nat /\ Cardinality(S) <= Cardinality(F)
  BY <1>1, FS_Subset, FS_CardinalityType
<1>3. ASSUME NEW n \in K, \A m \in K : n <= m PROVE FALSE
  <2>1. CASE n = 0
    <3>1. Smaller(F, 0) = {{}}
      BY <1>2, FS_EmptySet DEF Smaller
    <3> DEFINE f == [S \in {{}} |-> {[cost |-> 0, matching |-> <<>>]}]
    <3>2. \A S \in {{}} : Ways(c, f, S) = {[cost |-> 0, matching |-> <<>>]}
      BY DEF Ways
    <3>3. f = [S \in Smaller(F, 0) |-> Ways(c, f, S)]
      BY <3>1, <3>2
    <3> QED
      BY <2>1, <3>3
  <2>2. CASE n # 0
    <3>1. n \in Nat /\ n - 1 \in Nat /\ ~Defined(n)
      BY <2>2
    <3>2. n - 1 \notin K
      <4> HIDE DEF K
      <4> QED
        BY <1>3, <3>1
    <3>3. PICK g : g = [S \in Smaller(F, n - 1) |-> Ways(c, g, S)]
      BY <3>1, <3>2
    <3> DEFINE f == [S \in Smaller(F, n) |-> Ways(c, g, S)]
    <3>4. \A S \in Smaller(F, n - 1) : S \in Smaller(F, n) /\ f[S] = g[S]
      <4>1. \A S \in Smaller(F, n - 1) : S \in Smaller(F, n)
        BY <1>2, <3>1 DEF Smaller
      <4>2. \A S \in Smaller(F, n - 1) : g[S] = Ways(c, g, S)
        BY <3>3
      <4> QED
        BY <4>1, <4>2
    <3>5. ASSUME NEW S \in Smaller(F, n) PROVE f[S] = Ways(c, f, S)
      <4>1. f[S] = Ways(c, g, S)
        OBVIOUS
      <4> HIDE DEF f
      <4>2. ASSUME NEW T \in SUBSET S, T # S PROVE g[T] = f[T]
        <5>1. S \in SUBSET F /\ T \in SUBSET F /\ Cardinality(S) <= n
          BY DEF Smaller
        <5>2. Cardinality(T) <= Cardinality(S) /\ Cardinality(T) # Cardinality(S)
          BY <1>2, <4>2, <5>1, FS_Subset
        <5>3. Cardinality(T) \in Nat /\ Cardinality(S) \in Nat
          BY <1>2, <5>1
        <5>4. T \in Smaller(F, n - 1)
          BY <3>1, <5>1, <5>2, <5>3 DEF Smaller
        <5> QED
          BY <3>4, <5>4
      <4>3. S \subseteq Detectors(c)
        BY DEF Smaller
      <4>4. Ways(c, g, S) = Ways(c, f, S)
        BY <4>2, <4>3, WaysAgree
      <4> QED
        BY <4>1, <4>4
    <3>6. f = [S \in Smaller(F, n) |-> Ways(c, f, S)]
      BY <3>5
    <3> QED
      BY <3>1, <3>6
  <2> QED
    BY <2>1, <2>2
<1>4. K = {}
  <2> SUFFICES ASSUME K # {} PROVE FALSE
    OBVIOUS
  <2>1. K \subseteq Nat
    OBVIOUS
  <2> HIDE DEF K
  <2> QED
    BY <1>3, <2>1, LeastNumber
<1>5. Defined(Cardinality(F))
  BY <1>2, <1>4
<1>6. Smaller(F, Cardinality(F)) = SUBSET F
  BY <1>2 DEF Smaller
<1> QED
  BY <1>5, <1>6 DEF AllWays

LEMMA CandidatesAreWays ==
  ASSUME NEW c \in Codes, NEW F \in SUBSET Detectors(c)
  PROVE  Candidates(c, F) = AllWays(c, F)[F]
BY DEF Candidates, AllWays, Ways

LEMMA CostsAreNatural ==
  ASSUME NEW c \in Codes, NEW a \in Detectors(c), NEW b \in Detectors(c)
  PROVE  BoundaryCost(c, a) \in Nat /\ PairCost(c, a, b) \in Nat
<1>1. c.distance - 1 \in Nat \ {0} /\ a \in Nat /\ b \in Nat
  BY DetectorsAreFinite
<1>2. \A d \in Nat, n \in Nat \ {0} : d \div n \in Nat /\ d % n \in Nat /\ d % n < n
  BY Z3
<1>3. /\ Round(c, a) \in Nat /\ Position(c, a) \in Nat /\ Position(c, a) < c.distance - 1
      /\ Round(c, b) \in Nat /\ Position(c, b) \in Nat
  BY <1>1, <1>2 DEF Round, Position
<1>4. PairCost(c, a, b) \in Nat
  <2>1. \A m, n \in Nat : Gap(m, n) \in Nat
    BY DEF Gap
  <2>2. Gap(Round(c, a), Round(c, b)) \in Nat /\ Gap(Position(c, a), Position(c, b)) \in Nat
    BY <1>3, <2>1
  <2> QED
    BY <2>2 DEF PairCost
<1>5. BoundaryCost(c, a) \in Nat
  <2> DEFINE ends == {Position(c, a) + 1, (c.distance - 1) - Position(c, a)}
  <2>1. ends \subseteq Nat /\ ends # {}
    <3>1. \A n, p \in Nat : p < n => p + 1 \in Nat /\ n - p \in Nat
      OBVIOUS
    <3> QED
      BY <1>1, <1>3, <3>1
  <2>2. Min(ends) \in ends
    <3> HIDE DEF ends
    <3> QED
      BY <2>1, LeastNumber
  <2> QED
    BY <2>1, <2>2 DEF BoundaryCost
<1> QED
  BY <1>4, <1>5

\* There is a candidate, and every candidate has a natural cost and is a
\* sequence of groups: of the sets for which this is false there is no least.
LEMMA CandidatesAreWeighed ==
  ASSUME NEW c \in Codes, NEW F \in SUBSET Detectors(c), NEW S \in SUBSET F
  PROVE  AllWays(c, F)[S] \subseteq Weighed /\ AllWays(c, F)[S] # {}
<1> DEFINE of == AllWays(c, F)
           Good(T) == of[T] \subseteq Weighed /\ of[T] # {}
           K  == {T \in SUBSET F : ~Good(T)}
<1>1. \A T \in SUBSET F : of[T] = Ways(c, of, T)
  BY WaysExist
<1>2. F \subseteq Detectors(c) /\ IsFiniteSet(F)
  BY DetectorsAreFinite, FS_Subset
<1> HIDE DEF of
<1>3. ASSUME NEW n \in Nat, NEW group \in Seq(Nat), NEW T, T \subseteq Weighed
      PROVE  Prepend(n, group, T) \subseteq Weighed
  <2> SUFFICES ASSUME NEW w \in T
               PROVE  [cost |-> n + w.cost, matching |-> <<group>> \o w.matching] \in Weighed
    BY DEF Prepend
  <2>1. w.cost \in Nat /\ w.matching \in Seq(Seq(Nat))
    BY <1>3 DEF Weighed
  <2>2. <<group>> \in Seq(Seq(Nat))
    OBVIOUS
  <2>3. <<group>> \o w.matching \in Seq(Seq(Nat))
    BY <2>1, <2>2, ConcatProperties
  <2> QED
    BY <2>1, <2>3 DEF Weighed
<1>4. ASSUME NEW T \in SUBSET F, \A U \in SUBSET T : U # T => Good(U)
      PROVE  Good(T)
  <2>1. CASE T = {}
    <3>1. of[T] = {[cost |-> 0, matching |-> <<>>]}
      BY <1>1, <2>1 DEF Ways
    <3>2. <<>> \in Seq(Seq(Nat))
      OBVIOUS
    <3> QED
      BY <3>1, <3>2 DEF Weighed
  <2>2. CASE T # {}
    <3> DEFINE head == Min(T)
    <3>1. head \in T /\ head \in Detectors(c) /\ head \in Nat
      BY <1>2, <2>2, LeastDetector, DetectorsAreFinite
    <3>2. /\ Prepend(BoundaryCost(c, head), <<head>>, of[T \ {head}]) \subseteq Weighed
          /\ Prepend(BoundaryCost(c, head), <<head>>, of[T \ {head}]) # {}
      <4>1. of[T \ {head}] \subseteq Weighed /\ of[T \ {head}] # {}
        BY <1>4, <3>1
      <4> HIDE DEF head
      <4>2. <<head>> \in Seq(Nat)
        BY <3>1
      <4>3. Prepend(BoundaryCost(c, head), <<head>>, of[T \ {head}]) # {}
        BY <4>1 DEF Prepend
      <4> QED
        BY <1>3, <3>1, <4>1, <4>2, <4>3, CostsAreNatural
    <3>3. ASSUME NEW other \in T \ {head}
          PROVE  Prepend(PairCost(c, head, other), <<head, other>>, of[T \ {head, other}]) \subseteq Weighed
      <4>1. of[T \ {head, other}] \subseteq Weighed
        BY <1>4, <3>1
      <4>2. other \in Detectors(c) /\ other \in Nat
        BY <1>2, DetectorsAreFinite
      <4> HIDE DEF head
      <4>3. <<head, other>> \in Seq(Nat)
        BY <3>1, <4>2
      <4> QED
        BY <1>3, <3>1, <4>1, <4>2, <4>3, CostsAreNatural
    <3>4. of[T] = Prepend(BoundaryCost(c, head), <<head>>, of[T \ {head}])
                    \union
                  UNION {Prepend(PairCost(c, head, other), <<head, other>>, of[T \ {head, other}]) :
                           other \in T \ {head}}
      BY <1>1, <2>2 DEF Ways
    <3> HIDE DEF head
    <3> QED
      BY <3>2, <3>3, <3>4
  <2> QED
    BY <2>1, <2>2
<1>5. K = {}
  <2> SUFFICES ASSUME K # {} PROVE FALSE
    OBVIOUS
  <2>1. FiniteSubsetsOf(F) = SUBSET F
    BY <1>2, FS_FiniteSubsetsOfFinite
  <2>2. IsWellFoundedOn(StrictSubsetOrdering(F), SUBSET F)
    BY <2>1, FS_StrictSubsetOrderingWellFounded
  <2>3. PICK T \in K : \A U \in K : <<U, T>> \notin StrictSubsetOrdering(F)
    <3>1. K \subseteq SUBSET F
      OBVIOUS
    <3> HIDE DEF K
    <3> QED
      BY <2>2, <3>1, WFMin
  <2>4. T \in SUBSET F /\ ~Good(T)
    OBVIOUS
  <2>5. ASSUME NEW U \in SUBSET T, U # T PROVE Good(U)
    <3>1. <<U, T>> \in StrictSubsetOrdering(F)
      BY <2>4, <2>5 DEF StrictSubsetOrdering
    <3>2. U \notin K
      BY <2>3, <3>1
    <3> QED
      BY <2>4, <3>2
  <2> QED
    BY <1>4, <2>4, <2>5
<1> QED
  BY <1>5 DEF of

-----------------------------------------------------------------------------
(* The calls of one call.                                                  *)

Enumerates(s, S) ==
  /\ s \in [1..Cardinality(S) -> S]
  /\ \A j, k \in DOMAIN s : j < k => s[j] < s[k]

\* Every finite set of numbers has an ascending enumeration: of the sizes of
\* the sets without one there is no least.
LEMMA AscendingExists ==
  ASSUME NEW S, S \subseteq Nat, IsFiniteSet(S)
  PROVE  Enumerates(Ascending(S), S)
<1> DEFINE Without(T) == T \subseteq Nat /\ IsFiniteSet(T) /\ ~\E s : Enumerates(s, T)
           K == {n \in Nat : \E T \in SUBSET Nat : Without(T) /\ Cardinality(T) = n}
<1>1. ASSUME NEW n \in K, \A m \in K : n <= m PROVE FALSE
  <2>1. PICK T \in SUBSET Nat : Without(T) /\ Cardinality(T) = n
    OBVIOUS
  <2>2. n \in Nat /\ IsFiniteSet(T)
    BY <2>1
  <2>3. T # {}
    <3> SUFFICES ASSUME T = {} PROVE FALSE
      OBVIOUS
    <3> DEFINE s == [k \in 1..0 |-> 0]
    <3>1. Cardinality(T) = 0
      BY FS_EmptySet
    <3>2. s \in [1..0 -> T] /\ DOMAIN s = {}
      OBVIOUS
    <3> HIDE DEF s
    <3>3. Enumerates(s, T)
      BY <3>1, <3>2 DEF Enumerates
    <3> QED
      BY <2>1, <3>3
  <2> DEFINE least == Min(T)
             rest  == T \ {least}
  <2>4. least \in T /\ \A d \in T : least <= d
    BY <2>3, LeastNumber
  <2>5. IsFiniteSet(rest) /\ Cardinality(rest) = n - 1 /\ n - 1 \in Nat
    <3>1. IsFiniteSet(rest) /\ Cardinality(rest) = n - 1
      BY <2>1, <2>2, <2>4, FS_RemoveElement
    <3> QED
      BY <3>1, FS_CardinalityType
  <2>6. n - 1 \notin K
    <3> HIDE DEF K
    <3> QED
      BY <1>1, <2>2, <2>5
  <2>7. PICK t : Enumerates(t, rest)
    <3>1. rest \in SUBSET Nat
      OBVIOUS
    <3> HIDE DEF rest
    <3> QED
      BY <2>5, <2>6, <3>1
  <2> DEFINE s == [k \in 1..n |-> IF k = 1 THEN least ELSE t[k - 1]]
  <2>8. t \in [1..(n - 1) -> rest] /\ \A j, k \in 1..(n - 1) : j < k => t[j] < t[k]
    BY <2>5, <2>7 DEF Enumerates
  <2>9. \A k \in 1..n : k # 1 => k - 1 \in 1..(n - 1) /\ t[k - 1] \in rest
    BY <2>2, <2>8
  <2>10. s \in [1..n -> T]
    BY <2>4, <2>9
  <2>11. ASSUME NEW j \in 1..n, NEW k \in 1..n, j < k PROVE s[j] < s[k]
    <3>1. k # 1 /\ s[k] = t[k - 1] /\ t[k - 1] \in rest
      BY <2>2, <2>9, <2>11
    <3>2. CASE j = 1
      <4>1. least <= t[k - 1] /\ least # t[k - 1] /\ least \in Nat /\ t[k - 1] \in Nat
        BY <2>4, <3>1
      <4> HIDE DEF least
      <4> QED
        BY <3>1, <3>2, <4>1
    <3>3. CASE j # 1
      <4>1. s[j] = t[j - 1]
        BY <3>3
      <4>2. j - 1 \in 1..(n - 1) /\ k - 1 \in 1..(n - 1) /\ j - 1 < k - 1
        BY <2>2, <2>9, <2>11, <3>1, <3>3
      <4> QED
        BY <2>8, <3>1, <4>1, <4>2
    <3> QED
      BY <3>2, <3>3
  <2>12. DOMAIN s = 1..n
    OBVIOUS
  <2> HIDE DEF s
  <2>13. Enumerates(s, T)
    BY <2>1, <2>10, <2>11, <2>12 DEF Enumerates
  <2> QED
    BY <2>1, <2>13
<1>2. K = {}
  <2> SUFFICES ASSUME K # {} PROVE FALSE
    OBVIOUS
  <2>1. K \subseteq Nat
    OBVIOUS
  <2> HIDE DEF K
  <2> QED
    BY <1>1, <2>1, LeastNumber
<1>3. \E s : Enumerates(s, S)
  BY <1>2, FS_CardinalityType
<1> QED
  BY <1>3 DEF Ascending, Enumerates

\* No element is left out.
LEMMA AscendingComplete ==
  ASSUME NEW S, S \subseteq Nat, IsFiniteSet(S), NEW d \in S
  PROVE  \E k \in DOMAIN Ascending(S) : Ascending(S)[k] = d
<1> DEFINE s == Ascending(S)
           n == Cardinality(S)
<1>1. n \in Nat
  BY FS_CardinalityType
<1>2. s \in [1..n -> S] /\ \A j, k \in 1..n : j < k => s[j] < s[k]
  BY AscendingExists DEF Enumerates
<1>3. IsFiniteSet(1..n) /\ Cardinality(1..n) = n
  BY <1>1, FS_Interval
<1> HIDE DEF s, n
<1>4. s \in Injection(1..n, S)
  <2>1. ASSUME NEW j \in 1..n, NEW k \in 1..n, s[j] = s[k] PROVE j = k
    <3>1. s[j] \in Nat /\ s[k] \in Nat
      BY <1>2
    <3>2. ~(j < k) /\ ~(k < j)
      BY <1>2, <2>1, <3>1
    <3> QED
      BY <1>1, <3>2
  <2> QED
    BY <1>2, <2>1 DEF Injection, IsInjective
<1>5. s \in Surjection(1..n, S)
  BY <1>3, <1>4, FS_Injection DEF n
<1> QED
  BY <1>2, <1>5 DEF Surjection, s

\* Calls of a search for the matchings of F, and what a call may arrive at.
Pending(F) == [remaining : SUBSET F, acc : Seq(Seq(Nat)), cost : Nat]

Arrival(call, w) == [cost |-> call.cost + w.cost, matching |-> call.acc \o w.matching]

ArrivalsBy(call, ways) == {Arrival(call, w) : w \in ways}

Arrivals(c, F, call) == ArrivalsBy(call, AllWays(c, F)[call.remaining])

\* The call with one group more, of cost n.
Onward(call, S, n, group) == Call(S, Append(call.acc, group), call.cost + n)

LEMMA MatchingsAssociate ==
  \A l, m, n \in Seq(Seq(Nat)) : (l \o m) \o n = l \o (m \o n)
<1> DEFINE Groups == Seq(Nat)
<1> HIDE DEF Groups
<1>1. \A l, m, n \in Seq(Groups) : (l \o m) \o n = l \o (m \o n)
  <2> SUFFICES ASSUME NEW l \in Seq(Groups), NEW m \in Seq(Groups), NEW n \in Seq(Groups)
               PROVE  (l \o m) \o n = l \o (m \o n)
    OBVIOUS
  <2> QED
    BY ConcatAssociative
<1> QED
  BY <1>1 DEF Groups

\* To arrive with a group in front is to arrive by the call that has the group.
LEMMA OneGroupMore ==
  ASSUME NEW c \in Codes, NEW F \in SUBSET Detectors(c), NEW call \in Pending(F),
         NEW n \in Nat, NEW group \in Seq(Nat), NEW S \in SUBSET F
  PROVE  /\ Onward(call, S, n, group) \in Pending(F)
         /\ Arrivals(c, F, Onward(call, S, n, group))
              = ArrivalsBy(call, Prepend(n, group, AllWays(c, F)[S]))
<1> DEFINE ways == AllWays(c, F)[S]
           next == Onward(call, S, n, group)
           Longer(w) == [cost |-> n + w.cost, matching |-> <<group>> \o w.matching]
<1>1. call.cost \in Nat /\ call.acc \in Seq(Seq(Nat))
  BY DEF Pending
<1>2. Append(call.acc, group) = call.acc \o <<group>> /\ Append(call.acc, group) \in Seq(Seq(Nat))
  BY <1>1, AppendIsConcat, AppendProperties
<1>3. /\ next \in Pending(F)
      /\ next.remaining = S /\ next.acc = Append(call.acc, group) /\ next.cost = call.cost + n
  BY <1>1, <1>2 DEF Onward, Call, Pending
<1>4. ways \subseteq Weighed
  BY CandidatesAreWeighed
<1> HIDE DEF ways, next
<1>5. ASSUME NEW w \in ways
      PROVE  Arrival(next, w) = Arrival(call, Longer(w))
  <2>1. w.cost \in Nat /\ w.matching \in Seq(Seq(Nat))
    BY <1>4 DEF Weighed
  <2>2. <<group>> \in Seq(Seq(Nat))
    OBVIOUS
  <2>3. (call.acc \o <<group>>) \o w.matching = call.acc \o (<<group>> \o w.matching)
    BY <1>1, <2>1, <2>2, MatchingsAssociate
  <2>4. next.acc \o w.matching = call.acc \o Longer(w).matching
    BY <1>2, <1>3, <2>3
  <2>5. next.cost + w.cost = call.cost + Longer(w).cost
    BY <1>1, <1>3, <2>1
  <2> HIDE DEF Longer
  <2> QED
    BY <2>4, <2>5 DEF Arrival
<1>6. Prepend(n, group, ways) = {Longer(w) : w \in ways}
  BY DEF Prepend
<1> HIDE DEF Longer
<1>7. ArrivalsBy(next, ways) = ArrivalsBy(call, Prepend(n, group, ways))
  BY <1>5, <1>6 DEF ArrivalsBy
<1>8. Arrivals(c, F, next) = ArrivalsBy(next, ways)
  BY <1>3 DEF Arrivals, ways
<1> QED
  BY <1>3, <1>7, <1>8 DEF next, ways

\* The calls a call makes arrive together at what it may arrive at.
LEMMA CallsArrive ==
  ASSUME code \in Codes, fired \in SUBSET Detectors(code),
         NEW call \in Pending(fired), call.remaining # {}
  PROVE  /\ Calls(call) \in Seq(Pending(fired))
         /\ \A w \in Arrivals(code, fired, call) :
              \E next \in Range(Calls(call)) : w \in Arrivals(code, fired, next)
         /\ \A next \in Range(Calls(call)) :
              Arrivals(code, fired, next) \subseteq Arrivals(code, fired, call)
<1> DEFINE S    == call.remaining
           of   == AllWays(code, fired)
           head == Min(S)
           rest == Ascending(S \ {head})
           size == Cardinality(S \ {head})
           alone == Onward(call, S \ {head}, BoundaryCost(code, head), <<head>>)
           With(other) == Onward(call, S \ {head, other}, PairCost(code, head, other),
                                 <<head, other>>)
           pairs == [k \in DOMAIN rest |-> With(rest[k])]
           first == Prepend(BoundaryCost(code, head), <<head>>, of[S \ {head}])
           Second(other) == Prepend(PairCost(code, head, other), <<head, other>>,
                                    of[S \ {head, other}])
<1>1. S \in SUBSET fired /\ S \subseteq Nat /\ S \subseteq Detectors(code) /\ IsFiniteSet(S)
  <2>1. Detectors(code) \subseteq Nat /\ IsFiniteSet(Detectors(code))
    BY DetectorsAreFinite
  <2>2. S \in SUBSET fired
    BY DEF Pending
  <2> QED
    BY <2>1, <2>2, FS_Subset
<1>2. head \in S
  BY <1>1, LeastDetector
<1> HIDE DEF head
<1>3. IsFiniteSet(S \ {head}) /\ size \in Nat
  BY <1>1, FS_RemoveElement, FS_CardinalityType
<1>4. /\ rest \in [1..size -> S \ {head}]
      /\ \A other \in S \ {head} : \E k \in DOMAIN rest : rest[k] = other
  BY <1>1, <1>3, AscendingExists, AscendingComplete DEF Enumerates
<1>5. Calls(call) = <<alone>> \o pairs
  BY DEF Calls, Onward, head
<1> HIDE DEF rest, size
<1>6. \A n \in Nat, group \in Seq(Nat), T \in SUBSET fired :
         /\ Onward(call, T, n, group) \in Pending(fired)
         /\ Arrivals(code, fired, Onward(call, T, n, group))
              = ArrivalsBy(call, Prepend(n, group, of[T]))
  BY OneGroupMore
<1>7. alone \in Pending(fired) /\ Arrivals(code, fired, alone) = ArrivalsBy(call, first)
  <2>1. BoundaryCost(code, head) \in Nat
    BY <1>1, <1>2, CostsAreNatural
  <2>2. <<head>> \in Seq(Nat)
    BY <1>1, <1>2
  <2>3. S \ {head} \in SUBSET fired
    BY <1>1
  <2> HIDE DEF S
  <2> QED
    BY <1>6, <2>1, <2>2, <2>3
<1>8. ASSUME NEW other \in S \ {head}
      PROVE  /\ With(other) \in Pending(fired)
             /\ Arrivals(code, fired, With(other)) = ArrivalsBy(call, Second(other))
  <2>1. PairCost(code, head, other) \in Nat
    BY <1>1, <1>2, CostsAreNatural
  <2>2. <<head, other>> \in Seq(Nat)
    BY <1>1, <1>2
  <2>3. S \ {head, other} \in SUBSET fired
    BY <1>1
  <2> HIDE DEF S
  <2> QED
    BY <1>6, <2>1, <2>2, <2>3
<1>9. of[S] = first \union UNION {Second(other) : other \in S \ {head}}
  <2>1. of[S] = Ways(code, of, S)
    BY <1>1, WaysExist
  <2> QED
    BY <2>1 DEF Ways, head
<1>10. Arrivals(code, fired, call) = ArrivalsBy(call, of[S])
  BY DEF Arrivals
<1> HIDE DEF of, S, alone, With, first, Second
<1>11. /\ pairs \in Seq(Pending(fired))
       /\ Range(pairs) = {With(other) : other \in S \ {head}}
  <2>1. DOMAIN rest = 1..size
    BY <1>4
  <2>2. \A k \in 1..size : rest[k] \in S \ {head}
    BY <1>4
  <2>3. \A k \in 1..size : With(rest[k]) \in Pending(fired)
    BY <1>8, <2>2
  <2>4. [k \in 1..size |-> With(rest[k])] \in Seq(Pending(fired))
    BY <1>3, <2>3
  <2>5. DOMAIN pairs = 1..size /\ \A k \in 1..size : pairs[k] = With(rest[k])
    BY <2>1
  <2>6. pairs \in Seq(Pending(fired))
    BY <2>1, <2>4
  <2> HIDE DEF pairs
  <2>7. Range(pairs) = {With(other) : other \in S \ {head}}
    BY <1>4, <2>1, <2>2, <2>5 DEF Range
  <2> QED
    BY <2>6, <2>7
<1> HIDE DEF pairs
<1>12. <<alone>> \in Seq(Pending(fired)) /\ Range(<<alone>>) = {alone}
  BY <1>7 DEF Range
<1>13. <<alone>> \o pairs \in Seq(Pending(fired))
  BY <1>11, <1>12, ConcatProperties
<1>14. Range(<<alone>> \o pairs) = {alone} \cup {With(other) : other \in S \ {head}}
  <2>1. \A s, t \in Seq(Pending(fired)) : Range(s \o t) = Range(s) \cup Range(t)
    BY RangeConcatenation
  <2> QED
    BY <1>11, <1>12, <2>1, Zenon
<1>15. \A w \in ArrivalsBy(call, of[S]) :
         \/ w \in ArrivalsBy(call, first)
         \/ \E other \in S \ {head} : w \in ArrivalsBy(call, Second(other))
  BY <1>9 DEF ArrivalsBy
<1>16. /\ ArrivalsBy(call, first) \subseteq ArrivalsBy(call, of[S])
       /\ \A other \in S \ {head} : ArrivalsBy(call, Second(other)) \subseteq ArrivalsBy(call, of[S])
  BY <1>9 DEF ArrivalsBy
<1>17. ASSUME NEW w \in Arrivals(code, fired, call)
       PROVE  \E next \in Range(Calls(call)) : w \in Arrivals(code, fired, next)
  BY <1>5, <1>7, <1>8, <1>10, <1>14, <1>15
<1>18. ASSUME NEW next \in Range(Calls(call))
       PROVE  Arrivals(code, fired, next) \subseteq Arrivals(code, fired, call)
  BY <1>5, <1>7, <1>8, <1>10, <1>14, <1>16
<1> QED
  BY <1>5, <1>13, <1>17, <1>18

-----------------------------------------------------------------------------
(* The invariant.                                                          *)

Settled(w) == best # Nothing /\ (best = w \/ Better(best, w))

Expected(w) == \E call \in Range(stack) : w \in Arrivals(code, fired, call)

IInv ==
  /\ code \in Codes
  /\ fired \in SUBSET Detectors(code)
  /\ stack \in Seq(Pending(fired))
  /\ \A call \in Range(stack) : Arrivals(code, fired, call) \subseteq Candidates(code, fired)
  /\ best # Nothing => best \in Candidates(code, fired)
  /\ \A w \in Candidates(code, fired) : Expected(w) \/ Settled(w)
  /\ returned => stack = <<>>

LEMMA CandidatesWeighed ==
  ASSUME code \in Codes, fired \in SUBSET Detectors(code)
  PROVE  Candidates(code, fired) \subseteq Weighed /\ Candidates(code, fired) # {}
<1>1. Candidates(code, fired) = AllWays(code, fired)[fired]
  BY CandidatesAreWays
<1>2. /\ AllWays(code, fired)[fired] \subseteq Weighed
      /\ AllWays(code, fired)[fired] # {}
  BY CandidatesAreWeighed
<1> QED
  BY <1>1, <1>2

LEMMA StackSplits ==
  ASSUME NEW F, NEW s \in Seq(Pending(F)), s # <<>>
  PROVE  /\ Head(s) \in Pending(F) /\ Tail(s) \in Seq(Pending(F))
         /\ Range(s) = {Head(s)} \cup Range(Tail(s))
<1>1. Len(s) \in Nat \ {0} /\ DOMAIN s = 1..Len(s)
  OBVIOUS
<1>2. /\ Head(s) \in Pending(F) /\ Tail(s) \in Seq(Pending(F))
      /\ Len(Tail(s)) = Len(s) - 1
      /\ \A k \in 1..Len(Tail(s)) : Tail(s)[k] = s[k + 1]
  BY HeadTailProperties
<1>3. DOMAIN Tail(s) = 1..(Len(s) - 1) /\ Head(s) = s[1]
  BY <1>1, <1>2
<1>4. Range(s) \subseteq {Head(s)} \cup Range(Tail(s))
  <2> SUFFICES ASSUME NEW k \in 1..Len(s), k # 1 PROVE s[k] \in Range(Tail(s))
    BY <1>1, <1>3 DEF Range
  <2>1. k - 1 \in DOMAIN Tail(s) /\ s[k] = Tail(s)[k - 1]
    BY <1>1, <1>2, <1>3
  <2> QED
    BY <2>1 DEF Range
<1>5. {Head(s)} \cup Range(Tail(s)) \subseteq Range(s)
  <2>1. Head(s) \in Range(s)
    BY <1>1, <1>3 DEF Range
  <2>2. ASSUME NEW k \in DOMAIN Tail(s) PROVE Tail(s)[k] \in Range(s)
    <3>1. k + 1 \in DOMAIN s /\ Tail(s)[k] = s[k + 1]
      BY <1>1, <1>2, <1>3
    <3> QED
      BY <3>1 DEF Range
  <2> QED
    BY <2>1, <2>2 DEF Range
<1> QED
  BY <1>2, <1>4, <1>5

\* The search starts with one call, which may arrive at everything.
LEMMA Initial == Init => IInv
<1> SUFFICES ASSUME Init PROVE IInv
  OBVIOUS
<1>1. code \in Codes /\ fired \in SUBSET Detectors(code) /\ ~returned
  BY DEF Init
<1>2. Candidates(code, fired) = AllWays(code, fired)[fired]
  BY <1>1, CandidatesAreWays
<1>3. CASE fired = {}
  <2>1. stack = <<>> /\ best = [cost |-> 0, matching |-> <<>>]
    BY <1>3 DEF Init
  <2>2. AllWays(code, fired)[fired] = Ways(code, AllWays(code, fired), fired)
    BY <1>1, WaysExist
  <2>3. Candidates(code, fired) = {best}
    BY <1>2, <1>3, <2>1, <2>2 DEF Ways
  <2>4. best # Nothing
    BY <1>1, <2>3, NothingAssumption
  <2>5. Range(stack) = {} /\ stack \in Seq(Pending(fired))
    BY <2>1 DEF Range
  <2> QED
    BY <1>1, <2>1, <2>3, <2>4, <2>5 DEF IInv, Settled
<1>4. CASE fired # {}
  <2> DEFINE call == Call(fired, <<>>, 0)
  <2>1. stack = <<call>> /\ best = Nothing
    BY <1>4 DEF Init
  <2>2. /\ call.remaining = fired /\ call.acc = <<>> /\ call.cost = 0
        /\ call \in Pending(fired)
    BY DEF Call, Pending
  <2>3. Arrivals(code, fired, call) = Candidates(code, fired)
    <3>1. Candidates(code, fired) \subseteq Weighed
      BY <1>1, CandidatesWeighed
    <3>2. ASSUME NEW w \in Candidates(code, fired) PROVE Arrival(call, w) = w
      <4>1. w.cost \in Nat /\ w.matching \in Seq(Seq(Nat)) /\ w = [cost |-> w.cost, matching |-> w.matching]
        BY <3>1 DEF Weighed
      <4>2. \A m \in Seq(Seq(Nat)) : <<>> \o m = m
        BY ConcatEmptySeq
      <4> HIDE DEF call
      <4>3. call.cost + w.cost = w.cost /\ call.acc \o w.matching = w.matching
        BY <2>2, <4>1, <4>2
      <4> QED
        BY <4>1, <4>3 DEF Arrival
    <3> HIDE DEF call
    <3> QED
      BY <1>2, <2>2, <3>2 DEF Arrivals, ArrivalsBy
  <2> HIDE DEF call
  <2>4. Range(stack) = {call} /\ stack \in Seq(Pending(fired))
    BY <2>1, <2>2 DEF Range
  <2> QED
    BY <1>1, <2>1, <2>3, <2>4 DEF IInv, Expected
<1> QED
  BY <1>3, <1>4

\* What a call that is cut may arrive at costs more than the best candidate.
LEMMA CutKept == IInv /\ Cut => IInv'
<1> SUFFICES ASSUME IInv, Cut PROVE IInv'
  OBVIOUS
<1>1. /\ code \in Codes /\ fired \in SUBSET Detectors(code)
      /\ stack \in Seq(Pending(fired)) /\ stack # <<>>
      /\ best # Nothing /\ best \in Candidates(code, fired) /\ Now.cost > best.cost
  BY DEF IInv, Cut, Pruned
<1>2. /\ Now \in Pending(fired) /\ Tail(stack) \in Seq(Pending(fired))
      /\ Range(stack) = {Now} \cup Range(Tail(stack))
  BY <1>1, StackSplits DEF Now
<1>3. /\ code' = code /\ fired' = fired /\ stack' = Tail(stack) /\ best' = best
      /\ returned' = returned
  BY DEF Cut
<1>4. ASSUME NEW w \in Arrivals(code, fired, Now) PROVE Settled(w)
  <2>1. PICK v \in AllWays(code, fired)[Now.remaining] : w = Arrival(Now, v)
    BY DEF Arrivals, ArrivalsBy
  <2>2. v.cost \in Nat /\ Now.cost \in Nat
    <3>1. Now.remaining \in SUBSET fired /\ Now.cost \in Nat
      BY <1>2 DEF Pending
    <3> QED
      BY <1>1, <3>1, CandidatesAreWeighed DEF Weighed
  <2>3. w.cost = Now.cost + v.cost
    BY <2>1 DEF Arrival
  <2>4. best.cost \in Nat
    BY <1>1, CandidatesWeighed DEF Weighed
  <2>5. best.cost < w.cost
    BY <1>1, <2>2, <2>3, <2>4
  <2> QED
    BY <1>1, <2>5 DEF Settled, Better
<1>5. ASSUME NEW w \in Candidates(code, fired) PROVE Expected(w)' \/ Settled(w)'
  <2>1. Settled(w)' <=> Settled(w)
    BY <1>3 DEF Settled
  <2>2. Expected(w)' <=> \E call \in Range(Tail(stack)) : w \in Arrivals(code, fired, call)
    BY <1>3 DEF Expected
  <2>3. Expected(w) \/ Settled(w)
    BY DEF IInv
  <2> QED
    BY <1>2, <1>4, <2>1, <2>2, <2>3 DEF Expected
<1>6. \A call \in Range(Tail(stack)) : Arrivals(code, fired, call) \subseteq Candidates(code, fired)
  BY <1>2 DEF IInv
<1>7. ~returned
  BY <1>1 DEF IInv
<1> QED
  BY <1>1, <1>2, <1>3, <1>5, <1>6, <1>7 DEF IInv

\* The call arrives at the candidate it compares.
LEMMA CandidateKept == IInv /\ Candidate => IInv'
<1> SUFFICES ASSUME IInv, Candidate PROVE IInv'
  OBVIOUS
<1> DEFINE candidate == [cost |-> Now.cost, matching |-> Now.acc]
<1>1. /\ code \in Codes /\ fired \in SUBSET Detectors(code)
      /\ stack \in Seq(Pending(fired)) /\ stack # <<>> /\ Now.remaining = {}
      /\ best # Nothing => best \in Candidates(code, fired)
  BY DEF IInv, Candidate
<1>2. /\ Now \in Pending(fired) /\ Tail(stack) \in Seq(Pending(fired))
      /\ Range(stack) = {Now} \cup Range(Tail(stack))
  BY <1>1, StackSplits DEF Now
<1>3. /\ code' = code /\ fired' = fired /\ stack' = Tail(stack) /\ returned' = returned
      /\ best' = IF best = Nothing \/ Better(candidate, best) THEN candidate ELSE best
  BY DEF Candidate
<1>4. Arrivals(code, fired, Now) = {candidate}
  <2>1. AllWays(code, fired)[{}] = {[cost |-> 0, matching |-> <<>>]}
    <3>1. AllWays(code, fired)[{}] = Ways(code, AllWays(code, fired), {})
      BY <1>1, WaysExist
    <3> QED
      BY <3>1 DEF Ways
  <2>2. Now.cost \in Nat /\ Now.acc \in Seq(Seq(Nat))
    BY <1>2 DEF Pending
  <2>3. \A m \in Seq(Seq(Nat)) : m \o <<>> = m
    BY ConcatEmptySeq
  <2>4. Arrival(Now, [cost |-> 0, matching |-> <<>>]) = candidate
    <3>1. Now.cost + 0 = Now.cost /\ Now.acc \o <<>> = Now.acc
      BY <2>2, <2>3
    <3> QED
      BY <3>1 DEF Arrival
  <2> HIDE DEF candidate
  <2> QED
    BY <1>1, <2>1, <2>4 DEF Arrivals, ArrivalsBy
<1> HIDE DEF candidate
<1>5. candidate \in Candidates(code, fired) /\ candidate # Nothing
  <2>1. candidate \in Candidates(code, fired)
    BY <1>2, <1>4 DEF IInv
  <2> QED
    BY <1>1, <2>1, NothingAssumption
<1>6. Candidates(code, fired) \subseteq Weighed
  BY <1>1, CandidatesWeighed
<1>7. ASSUME NEW w, w = candidate PROVE Settled(w)'
  <2>1. CASE best = Nothing \/ Better(candidate, best)
    BY <1>3, <1>5, <1>7, <2>1 DEF Settled
  <2>2. CASE best # Nothing /\ ~Better(candidate, best)
    <3>1. best = candidate \/ Better(best, candidate)
      BY <1>1, <1>5, <1>6, <2>2, BetterOrders
    <3> QED
      BY <1>3, <1>7, <2>2, <3>1 DEF Settled
  <2> QED
    BY <2>1, <2>2
<1>8. ASSUME NEW w \in Candidates(code, fired), Settled(w) PROVE Settled(w)'
  <2>1. best # Nothing /\ best \in Weighed /\ w \in Weighed /\ candidate \in Weighed
    BY <1>1, <1>5, <1>6, <1>8 DEF Settled
  <2>2. CASE Better(candidate, best)
    <3>1. Better(candidate, w)
      BY <1>8, <2>1, <2>2, BetterOrders DEF Settled
    <3> QED
      BY <1>3, <1>5, <2>2, <3>1 DEF Settled
  <2>3. CASE ~Better(candidate, best)
    BY <1>3, <1>8, <2>1, <2>3 DEF Settled
  <2> QED
    BY <2>2, <2>3
<1>9. ASSUME NEW w \in Candidates(code, fired) PROVE Expected(w)' \/ Settled(w)'
  <2>1. Expected(w)' <=> \E call \in Range(Tail(stack)) : w \in Arrivals(code, fired, call)
    BY <1>3 DEF Expected
  <2>2. Expected(w) \/ Settled(w)
    BY DEF IInv
  <2> QED
    BY <1>2, <1>4, <1>7, <1>8, <2>1, <2>2 DEF Expected
<1>10. \A call \in Range(Tail(stack)) : Arrivals(code, fired, call) \subseteq Candidates(code, fired)
  BY <1>2 DEF IInv
<1>11. best' \in Candidates(code, fired) /\ ~returned
  BY <1>1, <1>3, <1>5 DEF IInv
<1> QED
  BY <1>1, <1>2, <1>3, <1>9, <1>10, <1>11 DEF IInv

\* The calls of a call arrive at what it may arrive at.
LEMMA BranchKept == IInv /\ Branch => IInv'
<1> SUFFICES ASSUME IInv, Branch PROVE IInv'
  OBVIOUS
<1>1. /\ code \in Codes /\ fired \in SUBSET Detectors(code)
      /\ stack \in Seq(Pending(fired)) /\ stack # <<>> /\ Now.remaining # {}
  BY DEF IInv, Branch
<1>2. /\ Now \in Pending(fired) /\ Tail(stack) \in Seq(Pending(fired))
      /\ Range(stack) = {Now} \cup Range(Tail(stack))
  BY <1>1, StackSplits DEF Now
<1>3. /\ code' = code /\ fired' = fired /\ stack' = Calls(Now) \o Tail(stack)
      /\ best' = best /\ returned' = returned
  BY DEF Branch
<1>4. /\ Calls(Now) \in Seq(Pending(fired))
      /\ \A w \in Arrivals(code, fired, Now) :
           \E next \in Range(Calls(Now)) : w \in Arrivals(code, fired, next)
      /\ \A next \in Range(Calls(Now)) :
           Arrivals(code, fired, next) \subseteq Arrivals(code, fired, Now)
  BY <1>1, <1>2, CallsArrive
<1>5. /\ stack' \in Seq(Pending(fired))
      /\ Range(stack') = Range(Calls(Now)) \cup Range(Tail(stack))
  <2>1. \A s, t \in Seq(Pending(fired)) :
          s \o t \in Seq(Pending(fired)) /\ Range(s \o t) = Range(s) \cup Range(t)
    BY ConcatProperties, RangeConcatenation
  <2> QED
    BY <1>2, <1>3, <1>4, <2>1
<1>6. \A call \in Range(stack') : Arrivals(code, fired, call) \subseteq Candidates(code, fired)
  BY <1>2, <1>4, <1>5 DEF IInv
<1>7. ASSUME NEW w \in Candidates(code, fired) PROVE Expected(w)' \/ Settled(w)'
  <2>1. Settled(w)' <=> Settled(w)
    BY <1>3 DEF Settled
  <2>2. Expected(w)' <=> \E call \in Range(stack') : w \in Arrivals(code, fired, call)
    BY <1>3 DEF Expected
  <2>3. Expected(w) \/ Settled(w)
    BY DEF IInv
  <2> QED
    BY <1>2, <1>4, <1>5, <2>1, <2>2, <2>3 DEF Expected
<1>8. ~returned
  BY <1>1 DEF IInv
<1> QED
  BY <1>1, <1>3, <1>5, <1>6, <1>7, <1>8 DEF IInv

LEMMA Step == IInv /\ [Next]_vars => IInv'
<1> SUFFICES ASSUME IInv, [Next]_vars PROVE IInv'
  OBVIOUS
<1>1. CASE Cut
  BY <1>1, CutKept
<1>2. CASE Candidate
  BY <1>2, CandidateKept
<1>3. CASE Branch
  BY <1>3, BranchKept
<1>4. CASE Return
  BY <1>4 DEF Return, IInv, Expected, Settled
<1>5. CASE UNCHANGED vars
  BY <1>5 DEF vars, IInv, Expected, Settled
<1> QED
  BY <1>1, <1>2, <1>3, <1>4, <1>5 DEF Next

\* What a call may arrive at starts with what it has matched.
LEMMA ArrivalStartsWith ==
  ASSUME NEW acc \in Seq(Seq(Nat)), NEW m \in Seq(Seq(Nat))
  PROVE  Len(acc) <= Len(acc \o m) /\ acc = SubSeq(acc \o m, 1, Len(acc))
<1>1. Len(acc) \in Nat /\ Len(m) \in Nat /\ Len(acc \o m) = Len(acc) + Len(m)
  BY ConcatProperties
<1>2. SubSeq(acc \o m, 1, Len(acc)) = acc
  BY SubSeqOfConcat1, SubSeqFull, <1>1
<1> QED
  BY <1>1, <1>2

\* Nothing is expected once it has returned.
LEMMA ReturnedIsLeast ==
  ASSUME IInv, returned
  PROVE  /\ best \in Candidates(code, fired)
         /\ \A w \in Candidates(code, fired) : best = w \/ Better(best, w)
<1>1. code \in Codes /\ fired \in SUBSET Detectors(code)
  BY DEF IInv
<1>2. Candidates(code, fired) # {}
  BY <1>1, CandidatesWeighed
<1>3. \A w \in Candidates(code, fired) : ~Expected(w)
  BY DEF IInv, Expected, Range
<1>4. \A w \in Candidates(code, fired) : best # Nothing /\ (best = w \/ Better(best, w))
  BY <1>3 DEF IInv, Settled
<1> QED
  BY <1>2, <1>4 DEF IInv

\* For every code a table may be built for and every pattern: pruning loses no
\* matching, and the matching returned is the one of least cost and, of those,
\* the least in order (_min_weight_matching).
THEOREM SearchIsExact == Spec => []NothingLost
<1>1. IInv => NothingLost
  <2> SUFFICES ASSUME IInv PROVE NothingLost
    OBVIOUS
  <2>1. code \in Codes /\ fired \in SUBSET Detectors(code) /\ stack \in Seq(Pending(fired))
    BY DEF IInv
  <2>2. Candidates(code, fired) \subseteq Weighed /\ Candidates(code, fired) # {}
    BY <2>1, CandidatesWeighed
  <2>3. ASSUME NEW w \in Candidates(code, fired), Expected(w)
        PROVE  Reachable(w.matching)
    <3>1. PICK k \in DOMAIN stack : w \in Arrivals(code, fired, stack[k])
      BY <2>3 DEF Expected, Range
    <3>2. stack[k] \in Pending(fired)
      BY <2>1
    <3>3. stack[k].remaining \in SUBSET fired /\ stack[k].acc \in Seq(Seq(Nat))
      BY <3>2 DEF Pending
    <3>4. PICK v \in AllWays(code, fired)[stack[k].remaining] : w = Arrival(stack[k], v)
      BY <3>1 DEF Arrivals, ArrivalsBy
    <3>5. v.matching \in Seq(Seq(Nat))
      BY <2>1, <3>3, CandidatesAreWeighed DEF Weighed
    <3>6. w.matching = stack[k].acc \o v.matching
      BY <3>4 DEF Arrival
    <3>7. /\ Len(stack[k].acc) <= Len(w.matching)
          /\ stack[k].acc = SubSeq(w.matching, 1, Len(stack[k].acc))
      BY <3>3, <3>5, <3>6, ArrivalStartsWith, Zenon
    <3> QED
      BY <3>7 DEF Reachable
  <2>4. ASSUME returned PROVE best = BestMatching(code, fired)
    <3>1. \A w \in Candidates(code, fired) : best = w \/ Better(best, w)
      BY <2>4, ReturnedIsLeast
    <3>2. best \in Candidates(code, fired)
      BY <2>4, ReturnedIsLeast
    <3> DEFINE Least(w) == \A v \in Candidates(code, fired) : v = w \/ Better(w, v)
    <3>3. Least(best)
      BY <3>1
    <3>4. ASSUME NEW w \in Candidates(code, fired), Least(w) PROVE w = best
      <4> SUFFICES ASSUME w # best PROVE FALSE
        OBVIOUS
      <4>1. Better(w, best) /\ Better(best, w)
        BY <3>1, <3>2, <3>4
      <4> QED
        BY <2>2, <3>2, <4>1, BetterOrders
    <3>5. BestMatching(code, fired) = CHOOSE w \in Candidates(code, fired) : Least(w)
      BY DEF BestMatching
    <3> HIDE DEF Least
    <3> QED
      BY <3>2, <3>3, <3>4, <3>5
  <2>5. \A w \in Candidates(code, fired) :
          \/ Reachable(w.matching)
          \/ best = w
          \/ best # Nothing /\ Better(best, w)
    BY <2>3 DEF IInv, Settled
  <2> QED
    BY <2>4, <2>5 DEF NothingLost
<1> QED
  BY Initial, Step, <1>1, PTL DEF Spec

-----------------------------------------------------------------------------
(* The least weight of a set of detectors.                                 *)

\* Of the sets with a property there is one without a smaller one.
LEMMA LeastSet ==
  ASSUME NEW F, IsFiniteSet(F), NEW K, K \subseteq SUBSET F, K # {}
  PROVE  \E T \in K : \A U \in SUBSET T : U # T => U \notin K
<1>1. FiniteSubsetsOf(F) = SUBSET F
  BY FS_FiniteSubsetsOfFinite
<1>2. IsWellFoundedOn(StrictSubsetOrdering(F), SUBSET F)
  BY <1>1, FS_StrictSubsetOrderingWellFounded
<1>3. PICK T \in K : \A U \in K : <<U, T>> \notin StrictSubsetOrdering(F)
  BY <1>2, WFMin
<1>4. ASSUME NEW U \in SUBSET T, U # T PROVE U \notin K
  <2>1. <<U, T>> \in StrictSubsetOrdering(F)
    BY <1>4 DEF StrictSubsetOrdering
  <2> QED
    BY <1>3, <2>1
<1> QED
  BY <1>4

LEMMA WaysOf ==
  ASSUME NEW c \in Codes, NEW F \in SUBSET Detectors(c), NEW S \in SUBSET F
  PROVE  AllWays(c, F)[S] = Ways(c, AllWays(c, F), S)
<1> DEFINE of == AllWays(c, F)
<1>1. of = [T \in SUBSET F |-> Ways(c, of, T)]
  BY WaysExist
<1> HIDE DEF of
<1>2. of[S] = Ways(c, of, S)
  BY <1>1
<1> QED
  BY <1>2 DEF of

\* The ways of matching a set are the same in whatever larger set it is.
LEMMA WaysOfSubset ==
  ASSUME NEW c \in Codes, NEW F \in SUBSET Detectors(c), NEW S \in SUBSET F
  PROVE  AllWays(c, F)[S] = AllWays(c, Detectors(c))[S]
<1> DEFINE K == {T \in SUBSET F : AllWays(c, F)[T] # AllWays(c, Detectors(c))[T]}
<1>1. K \subseteq SUBSET F /\ IsFiniteSet(F)
  BY DetectorsAreFinite, FS_Subset
<1>2. ASSUME NEW T \in K, \A U \in SUBSET T : U # T => U \notin K PROVE FALSE
  <2>1. T \in SUBSET F /\ T \subseteq Detectors(c)
    OBVIOUS
  <2>2. \A U \in SUBSET T : U # T => AllWays(c, F)[U] = AllWays(c, Detectors(c))[U]
    BY <1>2, <2>1
  <2>3. Ways(c, AllWays(c, F), T) = Ways(c, AllWays(c, Detectors(c)), T)
    BY <2>1, <2>2, WaysAgree
  <2>4. /\ AllWays(c, F)[T] = Ways(c, AllWays(c, F), T)
        /\ AllWays(c, Detectors(c))[T] = Ways(c, AllWays(c, Detectors(c)), T)
    BY <2>1, WaysOf
  <2> QED
    BY <2>3, <2>4
<1>3. K = {}
  <2> SUFFICES ASSUME K # {} PROVE FALSE
    OBVIOUS
  <2> HIDE DEF K
  <2> QED
    BY <1>1, <1>2, LeastSet
<1> QED
  BY <1>3

\* The cost of matching two detectors, or one to the boundary.
GroupCost(c, x, y) == IF x = y THEN BoundaryCost(c, x) ELSE PairCost(c, x, y)

Group(x, y) == IF x = y THEN <<x>> ELSE <<x, y>>

AllOf(c) == AllWays(c, Detectors(c))

Weight(c, S) == Min({w.cost : w \in AllOf(c)[S]})

LEMMA WeightIsLeast ==
  ASSUME NEW c \in Codes, NEW S \in SUBSET Detectors(c)
  PROVE  /\ Weight(c, S) \in Nat
         /\ \E w \in AllOf(c)[S] : Weight(c, S) = w.cost
         /\ \A w \in AllOf(c)[S] : Weight(c, S) <= w.cost
<1> DEFINE costs == {w.cost : w \in AllOf(c)[S]}
<1>1. AllOf(c)[S] \subseteq Weighed /\ AllOf(c)[S] # {}
  BY CandidatesAreWeighed DEF AllOf
<1>2. costs \subseteq Nat /\ costs # {}
  BY <1>1 DEF Weighed
<1>3. Min(costs) \in costs /\ \A n \in costs : Min(costs) <= n
  <2> HIDE DEF costs
  <2> QED
    BY <1>2, LeastNumber
<1> QED
  BY <1>2, <1>3 DEF Weight

LEMMA WeightOfNone ==
  ASSUME NEW c \in Codes
  PROVE  Weight(c, {}) = 0
<1>1. AllOf(c)[{}] = Ways(c, AllOf(c), {})
  BY WaysOf DEF AllOf
<1>2. AllOf(c)[{}] = {[cost |-> 0, matching |-> <<>>]}
  BY <1>1 DEF Ways
<1> QED
  BY <1>2, WeightIsLeast

LEMMA WaysByGroup ==
  ASSUME NEW c \in Codes, NEW S \in SUBSET Detectors(c), S # {}
  PROVE  /\ \A y \in S : \A v \in AllOf(c)[S \ {Min(S), y}] : \E w \in AllOf(c)[S] :
              w.cost = GroupCost(c, Min(S), y) + v.cost
         /\ \A w \in AllOf(c)[S] : \E y \in S : \E v \in AllOf(c)[S \ {Min(S), y}] :
              /\ w.cost = GroupCost(c, Min(S), y) + v.cost
              /\ w.matching = <<Group(Min(S), y)>> \o v.matching
<1> DEFINE head == Min(S)
           of   == AllOf(c)
           alone == Prepend(BoundaryCost(c, head), <<head>>, of[S \ {head}])
           With(y) == Prepend(PairCost(c, head, y), <<head, y>>, of[S \ {head, y}])
<1>1. of[S] = Ways(c, of, S)
  BY WaysOf DEF AllOf
<1>2. of[S] = alone \union UNION {With(y) : y \in S \ {head}}
  BY <1>1 DEF Ways
<1>3. head \in S
  BY LeastDetector
<1> HIDE DEF head, of
<1>4. S \ {head, head} = S \ {head}
  OBVIOUS
<1>5. ASSUME NEW y \in S, NEW v \in of[S \ {head, y}]
      PROVE  \E w \in of[S] : w.cost = GroupCost(c, head, y) + v.cost
  <2>1. CASE y = head
    <3>1. [cost |-> BoundaryCost(c, head) + v.cost, matching |-> <<<<head>>>> \o v.matching] \in of[S]
      BY <1>2, <1>4, <1>5, <2>1 DEF Prepend
    <3> QED
      BY <2>1, <3>1 DEF GroupCost
  <2>2. CASE y # head
    <3>1. [cost |-> PairCost(c, head, y) + v.cost, matching |-> <<<<head, y>>>> \o v.matching] \in With(y)
      BY <1>5 DEF Prepend
    <3> HIDE DEF With
    <3>2. With(y) \subseteq of[S]
      BY <1>2, <2>2
    <3> QED
      BY <2>2, <3>1, <3>2 DEF GroupCost
  <2> QED
    BY <2>1, <2>2
<1>6. ASSUME NEW w \in of[S]
      PROVE  \E y \in S : \E v \in of[S \ {head, y}] :
               w.cost = GroupCost(c, head, y) + v.cost /\ w.matching = <<Group(head, y)>> \o v.matching
  <2>1. CASE w \in alone
    <3>1. PICK v \in of[S \ {head}] :
             w = [cost |-> BoundaryCost(c, head) + v.cost, matching |-> <<<<head>>>> \o v.matching]
      BY <2>1 DEF Prepend
    <3>2. w.cost = GroupCost(c, head, head) + v.cost /\ w.matching = <<Group(head, head)>> \o v.matching
      BY <3>1 DEF GroupCost, Group
    <3> QED
      BY <1>3, <1>4, <3>2
  <2>2. ASSUME NEW y \in S \ {head}, w \in With(y)
        PROVE  \E v \in of[S \ {head, y}] :
                 w.cost = GroupCost(c, head, y) + v.cost /\ w.matching = <<Group(head, y)>> \o v.matching
    <3>1. PICK v \in of[S \ {head, y}] :
             w = [cost |-> PairCost(c, head, y) + v.cost, matching |-> <<<<head, y>>>> \o v.matching]
      BY <2>2 DEF Prepend
    <3>2. w.cost = GroupCost(c, head, y) + v.cost /\ w.matching = <<Group(head, y)>> \o v.matching
      BY <2>2, <3>1 DEF GroupCost, Group
    <3> QED
      BY <3>2
  <2> HIDE DEF alone, With
  <2> QED
    BY <1>2, <2>1, <2>2
<1> QED
  BY <1>5, <1>6 DEF head, of

LEMMA DetectorPlaces ==
  ASSUME NEW c \in Codes, NEW a \in Detectors(c)
  PROVE  /\ c.distance - 1 \in Nat /\ c.distance - 1 >= 2
         /\ a \in Nat /\ Round(c, a) \in Nat
         /\ Position(c, a) \in Nat /\ Position(c, a) < c.distance - 1
<1>1. c.distance - 1 \in Nat \ {0} /\ a \in Nat /\ c.distance - 1 >= 2
  BY DetectorsAreFinite
<1>2. \A d \in Nat, n \in Nat \ {0} : d \div n \in Nat /\ d % n \in Nat /\ d % n < n
  BY Z3
<1> QED
  BY <1>1, <1>2 DEF Round, Position

\* The boundary that is nearer, the left one if neither is.
LEMMA NearerBoundary ==
  ASSUME NEW c \in Codes, NEW a \in Detectors(c)
  PROVE  BoundaryCost(c, a) = IF Position(c, a) + 1 <= (c.distance - 1) - Position(c, a)
                              THEN Position(c, a) + 1
                              ELSE (c.distance - 1) - Position(c, a)
<1> DEFINE m == Position(c, a) + 1
           n == (c.distance - 1) - Position(c, a)
<1>1. m \in Nat /\ n \in Nat
  BY DetectorPlaces
<1>2. BoundaryCost(c, a) = Min({m, n})
  BY DEF BoundaryCost
<1> HIDE DEF m, n
<1>3. Min({m, n}) \in {m, n} /\ \A k \in {m, n} : Min({m, n}) <= k
  <2>1. {m, n} \subseteq Nat /\ {m, n} # {}
    BY <1>1
  <2> QED
    BY <2>1, LeastNumber
<1>4. Min({m, n}) = IF m <= n THEN m ELSE n
  BY <1>1, <1>3
<1> QED
  BY <1>2, <1>4 DEF m, n

\* Costs are distances: symmetric, and no detour is shorter.
LEMMA PairCostsAreDistances ==
  ASSUME NEW c \in Codes, NEW x \in Detectors(c), NEW y \in Detectors(c), NEW z \in Detectors(c)
  PROVE  /\ PairCost(c, x, y) \in Nat
         /\ PairCost(c, x, y) = PairCost(c, y, x)
         /\ PairCost(c, x, z) <= PairCost(c, x, y) + PairCost(c, y, z)
         /\ BoundaryCost(c, x) \in Nat
         /\ BoundaryCost(c, x) <= PairCost(c, x, y) + BoundaryCost(c, y)
<1>1. \A k, m, n \in Nat :
        /\ Gap(k, m) \in Nat /\ Gap(k, m) = Gap(m, k) /\ Gap(k, n) <= Gap(k, m) + Gap(m, n)
        /\ k <= m + Gap(k, m) /\ m <= k + Gap(k, m)
  BY DEF Gap
<1>2. /\ Round(c, x) \in Nat /\ Round(c, y) \in Nat /\ Round(c, z) \in Nat
      /\ Position(c, x) \in Nat /\ Position(c, y) \in Nat /\ Position(c, z) \in Nat
      /\ c.distance - 1 \in Nat
      /\ Position(c, x) < c.distance - 1 /\ Position(c, y) < c.distance - 1
  BY DetectorPlaces
<1>3. /\ PairCost(c, x, y) = Gap(Round(c, x), Round(c, y)) + Gap(Position(c, x), Position(c, y))
      /\ PairCost(c, y, x) = Gap(Round(c, y), Round(c, x)) + Gap(Position(c, y), Position(c, x))
      /\ PairCost(c, y, z) = Gap(Round(c, y), Round(c, z)) + Gap(Position(c, y), Position(c, z))
      /\ PairCost(c, x, z) = Gap(Round(c, x), Round(c, z)) + Gap(Position(c, x), Position(c, z))
  BY DEF PairCost
<1>4. /\ Gap(Round(c, x), Round(c, y)) \in Nat
      /\ Gap(Round(c, y), Round(c, z)) \in Nat
      /\ Gap(Round(c, x), Round(c, z)) \in Nat
      /\ Gap(Round(c, x), Round(c, y)) = Gap(Round(c, y), Round(c, x))
      /\ Gap(Round(c, x), Round(c, z)) <= Gap(Round(c, x), Round(c, y)) + Gap(Round(c, y), Round(c, z))
  BY <1>1, <1>2
<1>5. /\ Gap(Position(c, x), Position(c, y)) \in Nat
      /\ Gap(Position(c, y), Position(c, z)) \in Nat
      /\ Gap(Position(c, x), Position(c, z)) \in Nat
      /\ Gap(Position(c, x), Position(c, y)) = Gap(Position(c, y), Position(c, x))
      /\ Gap(Position(c, x), Position(c, z))
           <= Gap(Position(c, x), Position(c, y)) + Gap(Position(c, y), Position(c, z))
      /\ Position(c, x) <= Position(c, y) + Gap(Position(c, x), Position(c, y))
      /\ Position(c, y) <= Position(c, x) + Gap(Position(c, x), Position(c, y))
  BY <1>1, <1>2
<1>6. /\ PairCost(c, x, y) \in Nat
      /\ PairCost(c, x, y) = PairCost(c, y, x)
      /\ PairCost(c, x, z) <= PairCost(c, x, y) + PairCost(c, y, z)
      /\ Gap(Position(c, x), Position(c, y)) <= PairCost(c, x, y)
  BY <1>3, <1>4, <1>5
<1> HIDE DEF Position
<1>7. BoundaryCost(c, x) \in Nat /\ BoundaryCost(c, x) <= PairCost(c, x, y) + BoundaryCost(c, y)
  BY <1>2, <1>5, <1>6, NearerBoundary
<1> QED
  BY <1>6, <1>7

LEMMA GroupCostsAreNatural ==
  ASSUME NEW c \in Codes, NEW x \in Detectors(c), NEW y \in Detectors(c)
  PROVE  GroupCost(c, x, y) \in Nat /\ GroupCost(c, x, y) = GroupCost(c, y, x)
BY PairCostsAreDistances DEF GroupCost

LEMMA WeightOfSome ==
  ASSUME NEW c \in Codes, NEW S \in SUBSET Detectors(c), S # {}
  PROVE  /\ \A y \in S : Weight(c, S) <= GroupCost(c, Min(S), y) + Weight(c, S \ {Min(S), y})
         /\ \E y \in S : Weight(c, S) = GroupCost(c, Min(S), y) + Weight(c, S \ {Min(S), y})
<1> DEFINE head == Min(S)
<1>1. head \in S
  BY LeastDetector
<1>2. \A y \in S : S \ {head, y} \in SUBSET Detectors(c) /\ GroupCost(c, head, y) \in Nat
  BY <1>1, GroupCostsAreNatural
<1>3. /\ Weight(c, S) \in Nat
      /\ \A w \in AllOf(c)[S] : Weight(c, S) <= w.cost
  BY WeightIsLeast
<1>4. /\ \A y \in S : \A v \in AllOf(c)[S \ {head, y}] : \E w \in AllOf(c)[S] :
           w.cost = GroupCost(c, head, y) + v.cost
      /\ \A w \in AllOf(c)[S] : \E y \in S : \E v \in AllOf(c)[S \ {head, y}] :
           w.cost = GroupCost(c, head, y) + v.cost
  BY WaysByGroup
<1> HIDE DEF head
<1>5. ASSUME NEW y \in S PROVE Weight(c, S) <= GroupCost(c, head, y) + Weight(c, S \ {head, y})
  <2>1. PICK v \in AllOf(c)[S \ {head, y}] : Weight(c, S \ {head, y}) = v.cost
    BY <1>2, WeightIsLeast
  <2>2. PICK w \in AllOf(c)[S] : w.cost = GroupCost(c, head, y) + v.cost
    BY <1>4
  <2> QED
    BY <1>3, <2>1, <2>2
<1>6. \E y \in S : Weight(c, S) = GroupCost(c, head, y) + Weight(c, S \ {head, y})
  <2>1. PICK w \in AllOf(c)[S] : Weight(c, S) = w.cost
    BY WeightIsLeast
  <2>2. PICK y \in S : \E v \in AllOf(c)[S \ {head, y}] : w.cost = GroupCost(c, head, y) + v.cost
    BY <1>4
  <2>3. PICK v \in AllOf(c)[S \ {head, y}] : w.cost = GroupCost(c, head, y) + v.cost
    BY <2>2
  <2>4. /\ Weight(c, S \ {head, y}) \in Nat
        /\ Weight(c, S \ {head, y}) <= v.cost
    BY <1>2, WeightIsLeast
  <2>5. AllOf(c)[S \ {head, y}] \subseteq Weighed
    BY <1>2, CandidatesAreWeighed DEF AllOf
  <2>6. v.cost \in Nat
    BY <2>5 DEF Weighed
  <2>7. Weight(c, S) <= GroupCost(c, head, y) + Weight(c, S \ {head, y})
    BY <1>5
  <2>8. GroupCost(c, head, y) \in Nat
    BY <1>2
  <2>9. Weight(c, S) = GroupCost(c, head, y) + Weight(c, S \ {head, y})
    BY <1>3, <2>1, <2>3, <2>4, <2>6, <2>7, <2>8
  <2> QED
    BY <2>9
<1> QED
  BY <1>5, <1>6 DEF head

\* A matching may be begun with any group ...
LEMMA AnyGroup ==
  ASSUME NEW c \in Codes, NEW S \in SUBSET Detectors(c), NEW x \in S, NEW y \in S
  PROVE  Weight(c, S) <= GroupCost(c, x, y) + Weight(c, S \ {x, y})
<1> DEFINE Good(T) == \A a, b \in T : Weight(c, T) <= GroupCost(c, a, b) + Weight(c, T \ {a, b})
           K == {T \in SUBSET Detectors(c) : ~Good(T)}
<1>1. K \subseteq SUBSET Detectors(c) /\ IsFiniteSet(Detectors(c))
  BY DetectorsAreFinite
<1>2. ASSUME NEW T \in K, \A U \in SUBSET T : U # T => U \notin K PROVE FALSE
  <2>1. T \in SUBSET Detectors(c)
    OBVIOUS
  <2>2. PICK a \in T, b \in T : ~(Weight(c, T) <= GroupCost(c, a, b) + Weight(c, T \ {a, b}))
    OBVIOUS
  <2>3. \A U \in SUBSET T : U # T => U \in SUBSET Detectors(c) /\ Good(U)
    BY <1>2, <2>1
  <2> DEFINE head == Min(T)
  <2>4. head \in T
    BY <2>1, LeastDetector
  <2>5. /\ \A z \in T : Weight(c, T) <= GroupCost(c, head, z) + Weight(c, T \ {head, z})
        /\ \A U \in SUBSET Detectors(c) : Weight(c, U) \in Nat
        /\ \A d, e \in T : GroupCost(c, d, e) \in Nat /\ GroupCost(c, d, e) = GroupCost(c, e, d)
    <3>1. \A z \in T : Weight(c, T) <= GroupCost(c, head, z) + Weight(c, T \ {head, z})
      BY <2>1, <2>4, WeightOfSome
    <3>2. \A U \in SUBSET Detectors(c) : Weight(c, U) \in Nat
      BY WeightIsLeast
    <3>3. \A d, e \in T : GroupCost(c, d, e) \in Nat /\ GroupCost(c, d, e) = GroupCost(c, e, d)
      BY <2>1, GroupCostsAreNatural
    <3> QED
      BY <3>1, <3>2, <3>3
  <2>6. head \notin {a, b}
    <3>1. a = head => FALSE
      BY <2>2, <2>5
    <3>2. b = head => FALSE
      <4> SUFFICES ASSUME b = head PROVE FALSE
        OBVIOUS
      <4>1. Weight(c, T) <= GroupCost(c, b, a) + Weight(c, T \ {b, a})
        BY <2>5
      <4>2. T \ {b, a} = T \ {a, b} /\ GroupCost(c, b, a) = GroupCost(c, a, b)
        BY <2>5
      <4> HIDE DEF head, Good, K
      <4> QED
        BY <2>2, <4>1, <4>2
    <3> QED
      BY <3>1, <3>2
  <2> DEFINE rest == T \ {a, b}
  <2>7. rest \in SUBSET Detectors(c) /\ rest # {} /\ Min(rest) = head
    <3>1. head \in rest /\ rest \in SUBSET Detectors(c)
      BY <2>1, <2>4, <2>6
    <3>2. (\A d \in T : head <= d) /\ T \subseteq Nat
      BY <2>1, <2>4, LeastDetector, DetectorsAreFinite
    <3>3. Min(rest) \in rest /\ \A d \in rest : Min(rest) <= d
      BY <3>1, LeastDetector
    <3>4. Min(rest) \in Nat /\ head \in Nat /\ head <= Min(rest) /\ Min(rest) <= head
      BY <2>4, <3>1, <3>2, <3>3
    <3> HIDE DEF head, rest
    <3> QED
      BY <3>1, <3>4
  <2>8. PICK z \in rest : Weight(c, rest) = GroupCost(c, head, z) + Weight(c, rest \ {head, z})
    <3> HIDE DEF rest, head
    <3> QED
      BY <2>7, WeightOfSome
  <2> DEFINE less == T \ {head, z}
  <2>9. Weight(c, less) <= GroupCost(c, a, b) + Weight(c, less \ {a, b})
    <3>1. less \in SUBSET T /\ less # T /\ a \in less /\ b \in less
      BY <2>4, <2>6
    <3> HIDE DEF less
    <3> QED
      BY <2>3, <3>1
  <2>10. less \ {a, b} = rest \ {head, z}
    OBVIOUS
  <2>11. Weight(c, T) <= GroupCost(c, head, z) + Weight(c, less)
    BY <2>5
  <2>12. /\ Weight(c, T) \in Nat /\ Weight(c, less) \in Nat /\ Weight(c, less \ {a, b}) \in Nat
         /\ GroupCost(c, a, b) \in Nat /\ GroupCost(c, head, z) \in Nat
    BY <2>1, <2>4, <2>5
  <2>13. ~(Weight(c, T) <= GroupCost(c, a, b) + Weight(c, rest))
    BY <2>2
  <2> HIDE DEF rest, less, head, Good, K
  <2>14. Weight(c, rest) = GroupCost(c, head, z) + Weight(c, less \ {a, b})
    BY <2>8, <2>10
  <2> QED
    BY <2>9, <2>11, <2>12, <2>13, <2>14
<1>3. K = {}
  <2> SUFFICES ASSUME K # {} PROVE FALSE
    OBVIOUS
  <2> HIDE DEF K
  <2> QED
    BY <1>1, <1>2, LeastSet
<1> QED
  BY <1>3

\* ... and a lightest one has a group of any detector.
LEMMA SomeGroup ==
  ASSUME NEW c \in Codes, NEW S \in SUBSET Detectors(c), NEW x \in S
  PROVE  \E y \in S : Weight(c, S) = GroupCost(c, x, y) + Weight(c, S \ {x, y})
<1> DEFINE Good(T) == \A a \in T : \E b \in T :
                        Weight(c, T) = GroupCost(c, a, b) + Weight(c, T \ {a, b})
           K == {T \in SUBSET Detectors(c) : ~Good(T)}
<1>1. K \subseteq SUBSET Detectors(c) /\ IsFiniteSet(Detectors(c))
  BY DetectorsAreFinite
<1>2. ASSUME NEW T \in K, \A U \in SUBSET T : U # T => U \notin K PROVE FALSE
  <2>1. T \in SUBSET Detectors(c)
    OBVIOUS
  <2>2. PICK a \in T : ~\E b \in T : Weight(c, T) = GroupCost(c, a, b) + Weight(c, T \ {a, b})
    OBVIOUS
  <2>3. \A U \in SUBSET T : U # T => U \in SUBSET Detectors(c) /\ Good(U)
    BY <1>2, <2>1
  <2> DEFINE head == Min(T)
  <2>4. head \in T
    BY <2>1, LeastDetector
  <2>5. PICK z \in T : Weight(c, T) = GroupCost(c, head, z) + Weight(c, T \ {head, z})
    BY <2>1, <2>4, WeightOfSome
  <2> HIDE DEF head
  <2>6. a # head /\ a # z
    <3>1. a # head
      BY <2>2, <2>5
    <3>2. a # z
      <4> SUFFICES ASSUME a = z PROVE FALSE
        OBVIOUS
      <4>1. T \ {z, head} = T \ {head, z} /\ GroupCost(c, z, head) = GroupCost(c, head, z)
        BY <2>1, <2>4, GroupCostsAreNatural
      <4>2. Weight(c, T) = GroupCost(c, z, head) + Weight(c, T \ {z, head})
        BY <2>5, <4>1
      <4> QED
        BY <2>2, <2>4, <4>2
    <3> QED
      BY <3>1, <3>2
  <2> DEFINE less == T \ {head, z}
  <2>7. PICK b \in less : Weight(c, less) = GroupCost(c, a, b) + Weight(c, less \ {a, b})
    <3>1. less \in SUBSET T /\ less # T /\ a \in less
      BY <2>4, <2>6
    <3>2. Good(less)
      BY <2>3, <3>1
    <3> HIDE DEF less
    <3> QED
      BY <3>1, <3>2
  <2> DEFINE rest == T \ {a, b}
  <2>8. Weight(c, rest) <= GroupCost(c, head, z) + Weight(c, rest \ {head, z})
    <3>1. rest \in SUBSET Detectors(c) /\ head \in rest /\ z \in rest
      BY <2>1, <2>4, <2>6, <2>7
    <3> HIDE DEF rest
    <3> QED
      BY <3>1, AnyGroup
  <2>9. Weight(c, T) <= GroupCost(c, a, b) + Weight(c, rest)
    BY <2>1, AnyGroup
  <2>10. less \ {a, b} = rest \ {head, z}
    OBVIOUS
  <2>11. /\ Weight(c, T) \in Nat /\ Weight(c, rest) \in Nat /\ Weight(c, less) \in Nat
         /\ Weight(c, rest \ {head, z}) \in Nat
    BY <2>1, WeightIsLeast
  <2>12. GroupCost(c, a, b) \in Nat /\ GroupCost(c, head, z) \in Nat
    BY <2>1, <2>4, GroupCostsAreNatural
  <2>13. Weight(c, T) # GroupCost(c, a, b) + Weight(c, rest)
    BY <2>2
  <2>14. Weight(c, T) = GroupCost(c, head, z) + Weight(c, less)
    BY <2>5
  <2> HIDE DEF rest, less, Good, K
  <2>15. Weight(c, less) = GroupCost(c, a, b) + Weight(c, rest \ {head, z})
    BY <2>7, <2>10
  <2> QED
    BY <2>8, <2>9, <2>11, <2>12, <2>13, <2>14, <2>15
<1>3. K = {}
  <2> SUFFICES ASSUME K # {} PROVE FALSE
    OBVIOUS
  <2> HIDE DEF K
  <2> QED
    BY <1>1, <1>2, LeastSet
<1> QED
  BY <1>3

-----------------------------------------------------------------------------
(* What one fault changes of the least weight.                             *)

\* No group costs more than a way around it through another pair.
LEMMA NoDetour ==
  ASSUME NEW c \in Codes, NEW u \in Detectors(c), NEW v \in Detectors(c),
         NEW x \in Detectors(c), NEW y \in Detectors(c)
  PROVE  /\ x # y /\ u # v /\ x # u /\ y # v =>
              GroupCost(c, x, y) <= GroupCost(c, u, x) + GroupCost(c, u, v) + GroupCost(c, v, y)
         /\ u # v /\ y # v =>
              GroupCost(c, y, y) <= GroupCost(c, u, u) + GroupCost(c, u, v) + GroupCost(c, v, y)
         /\ u # y => GroupCost(c, y, y) <= GroupCost(c, u, u) + GroupCost(c, u, y)
         /\ u # v /\ u # y /\ v # y => GroupCost(c, v, y) <= GroupCost(c, u, v) + GroupCost(c, u, y)
<1>1. /\ PairCost(c, x, y) \in Nat /\ PairCost(c, u, x) \in Nat /\ PairCost(c, u, v) \in Nat
      /\ PairCost(c, v, y) \in Nat /\ PairCost(c, u, y) \in Nat
      /\ PairCost(c, y, u) \in Nat /\ PairCost(c, x, v) \in Nat
      /\ BoundaryCost(c, u) \in Nat /\ BoundaryCost(c, y) \in Nat
  BY PairCostsAreDistances
<1>2. /\ PairCost(c, x, y) <= PairCost(c, x, v) + PairCost(c, v, y)
      /\ PairCost(c, x, v) <= PairCost(c, x, u) + PairCost(c, u, v)
      /\ PairCost(c, x, u) = PairCost(c, u, x)
  BY PairCostsAreDistances
<1>3. /\ BoundaryCost(c, y) <= PairCost(c, y, u) + BoundaryCost(c, u)
      /\ PairCost(c, y, u) <= PairCost(c, y, v) + PairCost(c, v, u)
      /\ PairCost(c, y, u) = PairCost(c, u, y) /\ PairCost(c, y, v) = PairCost(c, v, y)
      /\ PairCost(c, v, u) = PairCost(c, u, v)
      /\ PairCost(c, v, y) <= PairCost(c, v, u) + PairCost(c, u, y)
  BY PairCostsAreDistances
<1> QED
  BY <1>1, <1>2, <1>3 DEF GroupCost

\* A set that differs from another in two detectors, or in one, weighs at most
\* what matching the two, or the one, costs more.
LEMMA OneGroupApart ==
  ASSUME NEW c \in Codes, NEW S \in SUBSET Detectors(c),
         NEW u \in Detectors(c), NEW v \in Detectors(c)
  PROVE  Weight(c, SymDiff(S, {u, v})) <= Weight(c, S) + GroupCost(c, u, v)
<1> DEFINE T == SymDiff(S, {u, v})
           W(U) == Weight(c, U)
           G(x, y) == GroupCost(c, x, y)
<1>1. T = (S \ {u, v}) \cup ({u, v} \ S) /\ T \in SUBSET Detectors(c)
  BY DEF SymDiff
<1>2. /\ \A U \in SUBSET Detectors(c) : W(U) \in Nat
      /\ \A x, y \in Detectors(c) : G(x, y) \in Nat /\ G(x, y) = G(y, x)
  BY WeightIsLeast, GroupCostsAreNatural
<1>3. \A U \in SUBSET Detectors(c) : \A x, y \in U : W(U) <= G(x, y) + W(U \ {x, y})
  BY AnyGroup
<1>4. \A U \in SUBSET Detectors(c) : \A x \in U : \E y \in U : W(U) = G(x, y) + W(U \ {x, y})
  BY SomeGroup
<1>5. \A x, y, a, b \in Detectors(c) :
        /\ x # y /\ a # b /\ x # a /\ y # b => G(x, y) <= G(a, x) + G(a, b) + G(b, y)
        /\ a # b /\ y # b => G(y, y) <= G(a, a) + G(a, b) + G(b, y)
        /\ a # y => G(y, y) <= G(a, a) + G(a, y)
        /\ a # b /\ a # y /\ b # y => G(b, y) <= G(a, b) + G(a, y)
  BY NoDetour
<1> SUFFICES W(T) <= W(S) + G(u, v)
  OBVIOUS
<1> HIDE DEF T, W, G
<1>6. CASE u \notin S /\ v \notin S
  <2>1. T \ {u, v} = S /\ u \in T /\ v \in T
    BY <1>1, <1>6
  <2>2. W(T) <= G(u, v) + W(T \ {u, v})
    BY <1>1, <1>3, <2>1
  <2>3. W(T) \in Nat /\ W(S) \in Nat /\ G(u, v) \in Nat
    BY <1>1, <1>2
  <2>4. W(T) <= G(u, v) + W(S)
    BY <2>1, <2>2
  <2> QED
    BY <2>3, <2>4
<1>7. CASE u = v /\ u \in S
  <2>1. T = S \ {u}
    BY <1>1, <1>7
  <2>2. PICK y \in S : W(S) = G(u, y) + W(S \ {u, y})
    BY <1>4, <1>7
  <2>3. CASE y = u
    <3>1. S \ {u, y} = T
      BY <2>1, <2>3
    <3>2. W(S) = G(u, u) + W(T)
      BY <2>2, <2>3, <3>1
    <3>3. W(T) \in Nat /\ G(u, v) \in Nat
      BY <1>1, <1>2
    <3> QED
      BY <1>7, <3>2, <3>3
  <2>4. CASE y # u
    <3>1. S \ {u, y} = T \ {y, y} /\ y \in T
      BY <2>1, <2>4
    <3>2. W(T) <= G(y, y) + W(T \ {y, y})
      BY <1>1, <1>3, <3>1
    <3>3. G(y, y) <= G(u, u) + G(u, y)
      BY <1>5, <2>4
    <3>4. W(S) = G(u, y) + W(T \ {y, y})
      BY <2>2, <3>1
    <3>5. /\ W(T) \in Nat /\ W(T \ {y, y}) \in Nat
          /\ G(u, u) \in Nat /\ G(u, y) \in Nat /\ G(y, y) \in Nat
      BY <1>1, <1>2
    <3> QED
      BY <1>7, <3>2, <3>3, <3>4, <3>5
  <2> QED
    BY <2>3, <2>4
<1>8. ASSUME NEW a \in Detectors(c), NEW b \in Detectors(c), a # b, {a, b} = {u, v},
             G(a, b) = G(u, v), a \in S, b \notin S
      PROVE  W(T) <= W(S) + G(u, v)
  <2>1. T = (S \ {a}) \cup {b}
    BY <1>1, <1>8
  <2>2. PICK y \in S : W(S) = G(a, y) + W(S \ {a, y})
    BY <1>4, <1>8
  <2>3. CASE y = a
    <3>1. S \ {a, y} = T \ {b, b} /\ b \in T
      BY <1>8, <2>1, <2>3
    <3>2. W(T) <= G(b, b) + W(T \ {b, b})
      BY <1>1, <1>3, <3>1
    <3>3. G(b, b) <= G(a, a) + G(a, b)
      BY <1>5, <1>8
    <3>4. W(S) = G(a, a) + W(T \ {b, b})
      BY <2>2, <2>3, <3>1
    <3>5. W(T \ {b, b}) \in Nat /\ W(T) \in Nat
      BY <1>1, <1>2
    <3> QED
      BY <1>2, <1>8, <3>2, <3>3, <3>4, <3>5
  <2>4. CASE y # a
    <3>1. S \ {a, y} = T \ {b, y} /\ b \in T /\ y \in T /\ y # b
      BY <1>8, <2>1, <2>4
    <3>2. W(T) <= G(b, y) + W(T \ {b, y})
      BY <1>1, <1>3, <3>1
    <3>3. G(b, y) <= G(a, b) + G(a, y)
      BY <1>5, <1>8, <2>4, <3>1
    <3>4. W(S) = G(a, y) + W(T \ {b, y})
      BY <2>2, <3>1
    <3>5. W(T \ {b, y}) \in Nat /\ W(T) \in Nat
      BY <1>1, <1>2
    <3>6. G(b, y) \in Nat /\ G(a, y) \in Nat /\ G(a, b) \in Nat
      BY <1>2, <1>8
    <3> QED
      BY <1>8, <3>2, <3>3, <3>4, <3>5, <3>6
  <2> QED
    BY <2>3, <2>4
<1>9. CASE u # v /\ u \in S /\ v \in S
  <2>1. T = S \ {u, v}
    BY <1>1, <1>9
  <2>2. PICK x \in S : W(S) = G(u, x) + W(S \ {u, x})
    BY <1>4, <1>9
  <2>3. CASE x = v
    <3>1. W(S) = G(u, v) + W(T)
      BY <2>1, <2>2, <2>3
    <3>2. W(T) \in Nat /\ G(u, v) \in Nat
      BY <1>1, <1>2
    <3> QED
      BY <3>1, <3>2
  <2>4. CASE x # v
    <3> DEFINE U == S \ {u, x}
    <3>1. U \in SUBSET Detectors(c) /\ v \in U
      BY <1>9, <2>4
    <3>2. PICK y \in U : W(U) = G(v, y) + W(U \ {v, y})
      <4> HIDE DEF U
      <4> QED
        BY <1>4, <3>1
    <3> DEFINE V == U \ {v, y}
    <3>3. W(S) = G(u, x) + G(v, y) + W(V)
      <4>1. G(u, x) \in Nat /\ G(v, y) \in Nat /\ W(V) \in Nat
        BY <1>2
      <4>2. W(S) = G(u, x) + W(U) /\ W(U) = G(v, y) + W(V)
        BY <2>2, <3>2
      <4> HIDE DEF U, V
      <4> QED
        BY <4>1, <4>2
    <3>4. V \in SUBSET Detectors(c) /\ W(V) \in Nat /\ W(T) \in Nat
      BY <1>1, <1>2
    <3>5. y # x /\ y # u
      OBVIOUS
    <3>6. G(u, v) \in Nat /\ G(u, x) \in Nat /\ G(v, y) \in Nat
      BY <1>2
    <3>7. CASE x = u /\ y = v
      <4>1. V = T
        BY <2>1, <3>7
      <4> HIDE DEF U, V
      <4> QED
        BY <3>3, <3>4, <3>6, <4>1
    <3>8. CASE x = u /\ y # v
      <4>1. V = T \ {y, y} /\ y \in T
        BY <2>1, <3>5, <3>8
      <4>2. G(y, y) <= G(u, u) + G(u, v) + G(v, y) /\ G(y, y) \in Nat
        BY <1>2, <1>5, <1>9, <3>5, <3>8
      <4> HIDE DEF U, V
      <4>3. W(T) <= G(y, y) + W(V)
        BY <1>1, <1>3, <4>1
      <4> QED
        BY <3>3, <3>4, <3>6, <3>8, <4>2, <4>3
    <3>9. CASE x # u /\ y = v
      <4>1. V = T \ {x, x} /\ x \in T
        BY <2>1, <2>4, <3>9
      <4>2. G(x, x) <= G(v, v) + G(v, u) + G(u, x) /\ G(x, x) \in Nat /\ G(v, u) = G(u, v)
        BY <1>2, <1>5, <1>9, <3>9
      <4> HIDE DEF U, V
      <4>3. W(T) <= G(x, x) + W(V)
        BY <1>1, <1>3, <4>1
      <4> QED
        BY <3>3, <3>4, <3>6, <3>9, <4>2, <4>3
    <3>10. CASE x # u /\ y # v
      <4>1. V = T \ {x, y} /\ x \in T /\ y \in T
        BY <2>1, <2>4, <3>5, <3>10
      <4>2. G(x, y) <= G(u, x) + G(u, v) + G(v, y) /\ G(x, y) \in Nat
        BY <1>2, <1>5, <1>9, <3>5, <3>10
      <4> HIDE DEF U, V
      <4>3. W(T) <= G(x, y) + W(V)
        BY <1>1, <1>3, <4>1
      <4> QED
        BY <3>3, <3>4, <3>6, <4>2, <4>3
    <3> QED
      BY <3>7, <3>8, <3>9, <3>10
  <2> QED
    BY <2>3, <2>4
<1>10. {u, v} = {v, u} /\ G(u, v) = G(v, u)
  BY <1>2
<1> QED
  BY <1>6, <1>7, <1>8, <1>9, <1>10

-----------------------------------------------------------------------------
(* Faults as groups of cost 1.                                             *)

\* There is one detector at every place of the grid.
LEMMA OneDetectorAt ==
  ASSUME NEW c \in Codes, NEW r \in 0..(c.rounds - 1), NEW p \in 0..(c.distance - 2)
  PROVE  \E d \in Detectors(c) :
           \A e \in Detectors(c) : (Round(c, e) = r /\ Position(c, e) = p) <=> e = d
<1> DEFINE n == c.distance - 1
           d == r * n + p
<1>1. /\ c.distance \in Nat /\ c.rounds \in Nat /\ n \in Nat \ {0} /\ p < n
      /\ r \in Nat /\ p \in Nat /\ r + 1 <= c.rounds
  BY CodesAssumption, DetectorsAreFinite
<1> HIDE DEF n
<1>2. d \in Nat /\ d \div n = r /\ d % n = p
  BY <1>1, Z3
<1>3. d <= c.rounds * n - 1
  <2>1. PICK k \in Nat : c.rounds = r + 1 + k
    <3>1. c.rounds - (r + 1) \in Nat /\ c.rounds = r + 1 + (c.rounds - (r + 1))
      BY <1>1
    <3> QED
      BY <3>1
  <2>2. c.rounds * n = r * n + n + k * n
    BY <1>1, <2>1, Z3
  <2>3. k * n \in Nat /\ r * n \in Nat
    BY <1>1, Z3
  <2> QED
    BY <1>1, <2>2, <2>3
<1>4. \A e \in Nat : e = (e \div n) * n + (e % n)
  BY <1>1, Z3
<1>5. d \in Detectors(c)
  BY <1>2, <1>3 DEF Detectors, DetectorCount, n
<1>6. /\ \A e \in Detectors(c) : e \in Nat
      /\ \A e : Round(c, e) = e \div n /\ Position(c, e) = e % n
  BY DetectorsAreFinite DEF Round, Position, n
<1>7. ASSUME NEW e \in Detectors(c), e \div n = r, e % n = p PROVE e = d
  BY <1>4, <1>6, <1>7
<1> HIDE DEF d
<1> QED
  BY <1>2, <1>5, <1>6, <1>7

\* The places of the faults: what a fault sets off could be matched in one group
\* of cost 1; if it is a wrong measurement, the two are in one column, and
\* a flipped qubit has the detectors to its left on its left.
LEMMA FaultIsAGroup ==
  ASSUME code \in Codes, NEW f \in Faults
  PROVE  \E u, v \in Detectors(code) :
           /\ SetsOff(f) = {u, v} /\ GroupCost(code, u, v) = 1
           /\ f[1] = "measurement" => u # v /\ Position(code, u) = Position(code, v)
           /\ f[1] = "qubit" =>
                /\ f[3] \in 0..(code.distance - 1)
                /\ f[3] = 0 => u = v /\ Position(code, u) = 0
                /\ f[3] = code.distance - 1 => u = v /\ Position(code, u) = code.distance - 2
                /\ f[3] \notin {0, code.distance - 1} =>
                     Position(code, u) = f[3] - 1 /\ Position(code, v) = f[3] /\ u # v
<1> DEFINE n == code.distance - 1
           At(d, r, p) == \A e \in Detectors(code) : (Round(code, e) = r /\ Position(code, e) = p) <=> e = d
<1>1. /\ code.distance \in Nat /\ code.rounds \in Nat /\ n \in Nat /\ n >= 2
      /\ n = code.distance - 1 /\ n - 1 = code.distance - 2
  BY CodesAssumption, DetectorsAreFinite
<1>2. \A r \in 0..(code.rounds - 1), p \in 0..(n - 1) : \E d \in Detectors(code) : At(d, r, p)
  BY <1>1, OneDetectorAt
<1>3. ASSUME NEW u \in Detectors(code), NEW v \in Detectors(code)
      PROVE  PairCost(code, u, v) = Gap(Round(code, u), Round(code, v)) + Gap(Position(code, u), Position(code, v))
  BY DEF PairCost
<1>4. \A k \in Nat : Gap(k, k) = 0 /\ Gap(k, k + 1) = 1
  BY DEF Gap
<1>5. \A d \in Detectors(code) : Round(code, d) \in Nat /\ Position(code, d) \in Nat /\ Position(code, d) < n
  BY DetectorPlaces
<1>6. ASSUME NEW r \in 0..(code.rounds - 2), NEW p \in 0..(code.distance - 2), f = <<"measurement", r, p>>
      PROVE  \E u, v \in Detectors(code) :
               /\ SetsOff(f) = {u, v} /\ GroupCost(code, u, v) = 1
               /\ u # v /\ Position(code, u) = Position(code, v)
  <2>1. r \in Nat /\ r \in 0..(code.rounds - 1) /\ r + 1 \in 0..(code.rounds - 1) /\ p \in 0..(n - 1)
    BY <1>1
  <2>2. PICK u \in Detectors(code) : At(u, r, p)
    BY <1>2, <2>1
  <2>3. PICK v \in Detectors(code) : At(v, r + 1, p)
    BY <1>2, <2>1
  <2>4. Round(code, u) = r /\ Position(code, u) = p /\ Round(code, v) = r + 1 /\ Position(code, v) = p
    BY <2>2, <2>3
  <2>5. u # v
    BY <2>1, <2>4
  <2>6. SetsOff(f) = {d \in Detectors(code) : Position(code, d) = p /\ Round(code, d) \in {r, r + 1}}
    BY <1>6 DEF SetsOff
  <2>7. SetsOff(f) = {u, v}
    BY <2>2, <2>3, <2>6
  <2>8. PairCost(code, u, v) = 1
    <3>1. Gap(r, r + 1) = 1 /\ Gap(p, p) = 0
      BY <1>4, <2>1
    <3>2. PairCost(code, u, v) = Gap(r, r + 1) + Gap(p, p)
      BY <1>3, <2>4
    <3> QED
      BY <3>1, <3>2
  <2> QED
    BY <2>4, <2>5, <2>7, <2>8 DEF GroupCost
<1>7. ASSUME NEW r \in 0..(code.rounds - 1), NEW q \in 0..(code.distance - 1), f = <<"qubit", r, q>>
      PROVE  \E u, v \in Detectors(code) :
               /\ SetsOff(f) = {u, v} /\ GroupCost(code, u, v) = 1
               /\ q = 0 => u = v /\ Position(code, u) = 0
               /\ q = n => u = v /\ Position(code, u) = n - 1
               /\ q \notin {0, n} => Position(code, u) = q - 1 /\ Position(code, v) = q /\ u # v
  <2>1. SetsOff(f) = {d \in Detectors(code) : Round(code, d) = r /\ Position(code, d) \in {q - 1, q}}
    BY <1>7 DEF SetsOff
  <2>2. r \in Nat /\ q \in Nat /\ q <= n
    BY <1>1
  <2>3. CASE q = 0
    <3>1. 0 \in 0..(n - 1)
      BY <1>1
    <3>2. PICK u \in Detectors(code) : At(u, r, 0)
      BY <1>2, <3>1
    <3>3. \A d \in Detectors(code) : Position(code, d) \in {q - 1, q} <=> Position(code, d) = 0
      BY <1>5, <2>3
    <3>4. SetsOff(f) = {u, u}
      BY <2>1, <3>2, <3>3
    <3>5. Position(code, u) = 0
      BY <3>2
    <3>6. BoundaryCost(code, u) = 1
      BY <1>1, <3>5, NearerBoundary
    <3> QED
      BY <1>1, <2>3, <3>4, <3>5, <3>6 DEF GroupCost
  <2>4. CASE q = n
    <3>1. n - 1 \in 0..(n - 1) /\ n # 0
      BY <1>1
    <3>2. PICK u \in Detectors(code) : At(u, r, n - 1)
      BY <1>2, <3>1
    <3>3. \A d \in Detectors(code) : Position(code, d) \in {q - 1, q} <=> Position(code, d) = n - 1
      BY <1>1, <1>5, <2>4
    <3>4. SetsOff(f) = {u, u}
      BY <2>1, <3>2, <3>3
    <3>5. Position(code, u) = n - 1
      BY <3>2
    <3>6. BoundaryCost(code, u) = 1
      BY <1>1, <3>5, NearerBoundary
    <3> HIDE DEF n
    <3> QED
      BY <2>4, <3>1, <3>4, <3>5, <3>6 DEF GroupCost
  <2>5. CASE q \notin {0, n}
    <3>1. q - 1 \in 0..(n - 1) /\ q \in 0..(n - 1) /\ q - 1 \in Nat /\ (q - 1) + 1 = q
      BY <1>1, <2>2, <2>5
    <3>2. PICK u \in Detectors(code) : At(u, r, q - 1)
      BY <1>2, <3>1
    <3>3. PICK v \in Detectors(code) : At(v, r, q)
      BY <1>2, <3>1
    <3>4. Round(code, u) = r /\ Position(code, u) = q - 1 /\ Round(code, v) = r /\ Position(code, v) = q
      BY <3>2, <3>3
    <3>5. u # v
      BY <2>2, <3>4
    <3>6. SetsOff(f) = {u, v}
      BY <2>1, <3>2, <3>3
    <3>7. PairCost(code, u, v) = 1
      <4>1. Gap(r, r) = 0 /\ Gap(q - 1, q) = 1
        <5>1. Gap(q - 1, (q - 1) + 1) = 1
          BY <1>4, <3>1
        <5> QED
          BY <1>4, <2>2, <3>1, <5>1
      <4>2. PairCost(code, u, v) = Gap(r, r) + Gap(q - 1, q)
        BY <1>3, <3>4
      <4> QED
        BY <4>1, <4>2
    <3> QED
      BY <2>5, <3>4, <3>5, <3>6, <3>7 DEF GroupCost
  <2> QED
    BY <2>3, <2>4, <2>5
<1>8. \/ \E r \in 0..(code.rounds - 2), p \in 0..(code.distance - 2) : f = <<"measurement", r, p>>
      \/ \E r \in 0..(code.rounds - 1), q \in 0..(code.distance - 1) : f = <<"qubit", r, q>>
  BY DEF Faults
<1>9. CASE \E r \in 0..(code.rounds - 2), p \in 0..(code.distance - 2) : f = <<"measurement", r, p>>
  <2>1. f[1] = "measurement" /\ f[1] # "qubit"
    BY <1>9
  <2> QED
    BY <1>6, <1>9, <2>1
<1>10. CASE \E r \in 0..(code.rounds - 1), q \in 0..(code.distance - 1) : f = <<"qubit", r, q>>
  <2>1. PICK r \in 0..(code.rounds - 1), q \in 0..(code.distance - 1) : f = <<"qubit", r, q>>
    BY <1>10
  <2>2. f[1] # "measurement" /\ f[3] = q
    BY <2>1
  <2> QED
    BY <1>1, <1>7, <2>1, <2>2
<1> QED
  BY <1>8, <1>9, <1>10

-----------------------------------------------------------------------------
(* The cuts of the code: cut q is between the detectors left of q and the  *)
(* others.  What is matched across it, or flipped on it, an odd number of  *)
(* times can be told from the detectors and the observable alone.          *)

Odd(S) == Cardinality(S) % 2 = 1

Before(c, S, q) == {d \in S : Position(c, d) < q}

Crossed(c, S, b) == {q \in 0..(c.distance - 1) : ~(Odd(Before(c, S, q)) <=> b = 1)}

\* The left boundary is not the farther one.
Left(c, d) == Position(c, d) + 1 <= (c.distance - 1) - Position(c, d)

\* The cuts between two detectors, or between one and its boundary.
CutsBetween(c, u, v) ==
  {q \in 0..(c.distance - 1) :
     IF u = v THEN Left(c, u) <=> ~(Position(c, u) < q)
              ELSE ~(Position(c, u) < q <=> Position(c, v) < q)}

LEMMA OddOneMore ==
  ASSUME NEW S, IsFiniteSet(S), NEW x, x \notin S
  PROVE  Odd(S \cup {x}) <=> ~Odd(S)
<1>1. Cardinality(S) \in Nat /\ Cardinality(S \cup {x}) = Cardinality(S) + 1
  BY FS_CardinalityType, FS_AddElement
<1>2. \A n \in Nat : (n + 1) % 2 = 1 <=> ~(n % 2 = 1)
  OBVIOUS
<1> QED
  BY <1>1, <1>2 DEF Odd

LEMMA OddToggled ==
  ASSUME NEW S, IsFiniteSet(S), NEW x
  PROVE  IsFiniteSet(SymDiff(S, {x})) /\ (Odd(SymDiff(S, {x})) <=> ~Odd(S))
<1>1. CASE x \in S
  <2>1. SymDiff(S, {x}) = S \ {x} /\ IsFiniteSet(S \ {x})
    BY <1>1, FS_RemoveElement DEF SymDiff
  <2>2. Odd((S \ {x}) \cup {x}) <=> ~Odd(S \ {x})
    BY <2>1, OddOneMore
  <2>3. (S \ {x}) \cup {x} = S
    BY <1>1
  <2> QED
    BY <2>1, <2>2, <2>3
<1>2. CASE x \notin S
  <2>1. SymDiff(S, {x}) = S \cup {x} /\ IsFiniteSet(S \cup {x})
    BY <1>2, FS_AddElement DEF SymDiff
  <2> QED
    BY <1>2, <2>1, OddOneMore
<1> QED
  BY <1>1, <1>2

\* A group changes the number of detectors left of a cut by an odd number if
\* the cut has one end of it on its left.
LEMMA OddBefore ==
  ASSUME NEW c \in Codes, NEW S \in SUBSET Detectors(c),
         NEW u \in Detectors(c), NEW v \in Detectors(c), NEW q \in Nat
  PROVE  LET T == SymDiff(S, {u, v}) IN
         /\ u = v => (Odd(Before(c, T, q)) <=> ~(Odd(Before(c, S, q)) <=> Position(c, u) < q))
         /\ u # v => (Odd(Before(c, T, q)) <=>
                        (Odd(Before(c, S, q)) <=> (Position(c, u) < q <=> Position(c, v) < q)))
<1> DEFINE T == SymDiff(S, {u, v})
           B == Before(c, S, q)
           L(d) == Position(c, d) < q
           BT == Before(c, T, q)
<1>1. IsFiniteSet(B)
  BY DetectorsAreFinite, FS_Subset DEF Before
<1>2. BT = {d \in (S \ {u, v}) \cup ({u, v} \ S) : L(d)} /\ B = {d \in S : L(d)}
  BY DEF Before, SymDiff
<1> HIDE DEF T, BT, B, L
<1>3. ~L(u) /\ ~L(v) => BT = B
  BY <1>2
<1>4. L(u) /\ (u = v \/ ~L(v)) => BT = SymDiff(B, {u})
  BY <1>2 DEF SymDiff
<1>5. L(v) /\ ~L(u) => BT = SymDiff(B, {v})
  BY <1>2 DEF SymDiff
<1>6. L(u) /\ L(v) /\ u # v => BT = SymDiff(SymDiff(B, {u}), {v})
  BY <1>2 DEF SymDiff
<1>7. /\ IsFiniteSet(SymDiff(B, {u}))
      /\ Odd(SymDiff(B, {u})) <=> ~Odd(B)
      /\ Odd(SymDiff(B, {v})) <=> ~Odd(B)
  BY <1>1, OddToggled
<1>8. Odd(SymDiff(SymDiff(B, {u}), {v})) <=> ~Odd(SymDiff(B, {u}))
  BY <1>7, OddToggled
<1>9. u = v => (Odd(BT) <=> ~(Odd(B) <=> L(u)))
  <2>1. CASE L(u)
    BY <1>4, <1>7, <2>1
  <2>2. CASE ~L(u)
    BY <1>3, <2>2
  <2> QED
    BY <2>1, <2>2
<1>10. u # v => (Odd(BT) <=> (Odd(B) <=> (L(u) <=> L(v))))
  <2>1. CASE L(u) /\ L(v)
    BY <1>6, <1>7, <1>8, <2>1
  <2>2. CASE L(u) /\ ~L(v)
    BY <1>4, <1>7, <2>2
  <2>3. CASE ~L(u) /\ L(v)
    BY <1>5, <1>7, <2>3
  <2>4. CASE ~L(u) /\ ~L(v)
    BY <1>3, <2>4
  <2> QED
    BY <2>1, <2>2, <2>3, <2>4
<1> QED
  BY <1>9, <1>10 DEF BT, B, L, T

LEMMA CutsCost ==
  ASSUME NEW c \in Codes, NEW u \in Detectors(c), NEW v \in Detectors(c)
  PROVE  IsFiniteSet(CutsBetween(c, u, v)) /\ Cardinality(CutsBetween(c, u, v)) <= GroupCost(c, u, v)
<1> DEFINE n == c.distance - 1
           j == Position(c, u)
           k == Position(c, v)
<1>1. /\ n \in Nat /\ n = c.distance - 1 /\ j \in Nat /\ k \in Nat /\ j < n /\ k < n
  BY DetectorPlaces
<1>2. /\ GroupCost(c, u, v) \in Nat
      /\ u # v => GroupCost(c, u, v) = Gap(Round(c, u), Round(c, v)) + Gap(j, k)
      /\ u = v => GroupCost(c, u, v) = IF j + 1 <= n - j THEN j + 1 ELSE n - j
  BY GroupCostsAreNatural, NearerBoundary DEF GroupCost, PairCost
<1>3. CutsBetween(c, u, v) =
        {q \in 0..n : IF u = v THEN j + 1 <= n - j <=> ~(j < q) ELSE ~(j < q <=> k < q)}
  BY DEF CutsBetween, Left
<1>4. Gap(Round(c, u), Round(c, v)) \in Nat
  BY DetectorPlaces DEF Gap
<1> HIDE DEF n, j, k
<1>5. ASSUME NEW a \in Int, NEW b \in Int, a <= b
      PROVE  IsFiniteSet((a + 1)..b) /\ Cardinality((a + 1)..b) = b - a
  <2>1. a + 1 \in Int
    OBVIOUS
  <2>2. /\ IsFiniteSet((a + 1)..b)
        /\ Cardinality((a + 1)..b) = IF a + 1 > b THEN 0 ELSE b - (a + 1) + 1
    BY <2>1, FS_Interval
  <2> QED
    BY <1>5, <2>2
<1>6. CASE u = v /\ j + 1 <= n - j
  <2>1. CutsBetween(c, u, v) = 0..j
    BY <1>1, <1>3, <1>6
  <2>2. IsFiniteSet(0..j) /\ Cardinality(0..j) = j + 1
    BY <1>1, FS_Interval
  <2> QED
    BY <1>1, <1>2, <1>6, <2>1, <2>2
<1>7. CASE u = v /\ ~(j + 1 <= n - j)
  <2>1. CutsBetween(c, u, v) = (j + 1)..n
    BY <1>1, <1>3, <1>7
  <2>2. IsFiniteSet((j + 1)..n) /\ Cardinality((j + 1)..n) = n - j
    <3>1. j \in Int /\ n \in Int /\ j <= n
      BY <1>1
    <3> QED
      BY <1>5, <3>1
  <2> QED
    BY <1>1, <1>2, <1>7, <2>1, <2>2
<1>8. CASE u # v /\ j < k
  <2>1. CutsBetween(c, u, v) = (j + 1)..k
    BY <1>1, <1>3, <1>8
  <2>2. IsFiniteSet((j + 1)..k) /\ Cardinality((j + 1)..k) = k - j
    BY <1>1, <1>5, <1>8
  <2>3. Gap(j, k) = k - j
    BY <1>8 DEF Gap
  <2> QED
    BY <1>1, <1>2, <1>4, <1>8, <2>1, <2>2, <2>3
<1>9. CASE u # v /\ ~(j < k)
  <2>1. CutsBetween(c, u, v) = (k + 1)..j
    BY <1>1, <1>3, <1>9
  <2>2. IsFiniteSet((k + 1)..j) /\ Cardinality((k + 1)..j) = j - k
    BY <1>1, <1>5, <1>9
  <2>3. Gap(j, k) = j - k
    BY <1>9 DEF Gap
  <2> QED
    BY <1>1, <1>2, <1>4, <1>9, <2>1, <2>2, <2>3
<1> QED
  BY <1>6, <1>7, <1>8, <1>9

LEMMA CrossedIsFinite ==
  ASSUME NEW c \in Codes, NEW S, NEW b
  PROVE  IsFiniteSet(Crossed(c, S, b)) /\ Cardinality(Crossed(c, S, b)) \in Nat
<1>1. 0 \in Int /\ c.distance - 1 \in Int
  BY DetectorsAreFinite
<1>2. IsFiniteSet(0..(c.distance - 1))
  BY <1>1, FS_Interval
<1>3. Crossed(c, S, b) \in SUBSET (0..(c.distance - 1))
  BY DEF Crossed
<1> QED
  BY <1>2, <1>3, FS_Subset, FS_CardinalityType

\* A group matched, or a fault, is crossed by as many cuts as it costs.
LEMMA GroupCrosses ==
  ASSUME NEW c \in Codes, NEW S \in SUBSET Detectors(c),
         NEW u \in Detectors(c), NEW v \in Detectors(c),
         NEW b \in {0, 1}, NEW d \in {0, 1}, d # b <=> u = v /\ Left(c, u)
  PROVE  LET T == SymDiff(S, {u, v}) IN
         Cardinality(Crossed(c, T, d)) <= Cardinality(Crossed(c, S, b)) + GroupCost(c, u, v)
<1> DEFINE T == SymDiff(S, {u, v})
           now == Crossed(c, T, d)
           then == Crossed(c, S, b)
           cut == CutsBetween(c, u, v)
<1>1. now \subseteq then \cup cut
  <2> SUFFICES ASSUME NEW q \in now, q \notin then, q \notin cut PROVE FALSE
    OBVIOUS
  <2>1. q \in 0..(c.distance - 1) /\ q \in Nat
    BY DEF Crossed
  <2>2. ~(Odd(Before(c, T, q)) <=> d = 1) /\ (Odd(Before(c, S, q)) <=> b = 1)
    BY <2>1 DEF Crossed
  <2>3. CASE u = v
    <3>1. ~(Left(c, u) <=> ~(Position(c, u) < q))
      BY <2>1, <2>3 DEF CutsBetween
    <3>2. Odd(Before(c, T, q)) <=> ~(Odd(Before(c, S, q)) <=> Position(c, u) < q)
      BY <2>1, <2>3, OddBefore
    <3>3. d = 1 <=> ~(b = 1 <=> Left(c, u))
      BY <2>3
    <3> QED
      BY <2>2, <3>1, <3>2, <3>3
  <2>4. CASE u # v
    <3>1. Position(c, u) < q <=> Position(c, v) < q
      BY <2>1, <2>4 DEF CutsBetween
    <3>2. Odd(Before(c, T, q)) <=> (Odd(Before(c, S, q)) <=> (Position(c, u) < q <=> Position(c, v) < q))
      BY <2>1, <2>4, OddBefore
    <3>3. d = b
      BY <2>4
    <3> QED
      BY <2>2, <3>1, <3>2, <3>3
  <2> QED
    BY <2>3, <2>4
<1>2. IsFiniteSet(then) /\ IsFiniteSet(cut) /\ Cardinality(cut) <= GroupCost(c, u, v)
  BY CrossedIsFinite, CutsCost
<1>3. /\ IsFiniteSet(then \cup cut) /\ Cardinality(then \cap cut) \in Nat
      /\ Cardinality(then \cup cut) = Cardinality(then) + Cardinality(cut) - Cardinality(then \cap cut)
  BY <1>2, FS_Union, FS_Intersection, FS_CardinalityType
<1>4. Cardinality(now) <= Cardinality(then \cup cut)
  BY <1>1, <1>3, FS_Subset
<1>5. IsFiniteSet(now) /\ Cardinality(now) \in Nat /\ Cardinality(then) \in Nat /\ Cardinality(cut) \in Nat
  BY <1>1, <1>2, <1>3, FS_Subset, FS_CardinalityType
<1>6. GroupCost(c, u, v) \in Nat
  BY GroupCostsAreNatural
<1> HIDE DEF now, then, cut
<1>7. Cardinality(now) <= Cardinality(then) + GroupCost(c, u, v)
  BY <1>2, <1>3, <1>4, <1>5, <1>6
<1> QED
  BY <1>7 DEF now, then

\* The cuts a correction leaves crossed are at most what its matching costs.
LEMMA ParityOfMore ==
  ASSUME NEW c \in Codes, NEW g, NEW m \in Seq(Seq(Nat))
  PROVE  /\ CorrectionParity(c, m) \in {0, 1} /\ CorrectionParity(c, <<g>> \o m) \in {0, 1}
         /\ CorrectionParity(c, <<g>> \o m) # CorrectionParity(c, m) <=> EndsLeft(c, g)
<1> DEFINE lefts == {k \in DOMAIN m : EndsLeft(c, m[k])}
           moved == {k + 1 : k \in lefts}
           all   == {k \in DOMAIN (<<g>> \o m) : EndsLeft(c, (<<g>> \o m)[k])}
<1>1. /\ Len(m) \in Nat /\ DOMAIN m = 1..Len(m) /\ DOMAIN (<<g>> \o m) = 1..(Len(m) + 1)
      /\ (<<g>> \o m)[1] = g
      /\ \A k \in 1..Len(m) : (<<g>> \o m)[k + 1] = m[k]
  OBVIOUS
<1>2. all = moved \cup (IF EndsLeft(c, g) THEN {1} ELSE {})
  <2>1. ASSUME NEW k \in 1..(Len(m) + 1), k # 1
        PROVE  k - 1 \in 1..Len(m) /\ (k - 1) + 1 = k /\ (<<g>> \o m)[k] = m[k - 1]
    <3>1. k - 1 \in 1..Len(m) /\ (k - 1) + 1 = k
      BY <1>1, <2>1
    <3> QED
      BY <1>1, <3>1
  <2>2. ASSUME NEW k \in all, k # 1 PROVE k \in moved
    <3>1. k - 1 \in lefts /\ k = (k - 1) + 1
      BY <1>1, <2>1, <2>2
    <3> HIDE DEF lefts
    <3> QED
      BY <3>1
  <2>3. ASSUME NEW k \in lefts PROVE k + 1 \in all
    <3>1. k \in 1..Len(m) /\ k + 1 \in 1..(Len(m) + 1)
      BY <1>1
    <3> QED
      BY <1>1, <3>1
  <2>4. 1 \in all <=> EndsLeft(c, g)
    <3>1. 1 \in 1..(Len(m) + 1)
      BY <1>1
    <3> QED
      BY <1>1, <3>1
  <2> HIDE DEF all, lefts
  <2> QED
    BY <2>2, <2>3, <2>4
<1>3. 1 \notin moved
  BY <1>1
<1>4. IsFiniteSet(lefts)
  <2>1. IsFiniteSet(1..Len(m))
    BY <1>1, FS_Interval
  <2> QED
    BY <1>1, <2>1, FS_Subset
<1>5. IsFiniteSet(moved) /\ Cardinality(moved) = Cardinality(lefts)
  <2> DEFINE next == [k \in lefts |-> k + 1]
  <2>1. \A j, k \in lefts : j + 1 = k + 1 => j = k
    BY <1>1
  <2>2. next \in Bijection(lefts, moved)
    <3> HIDE DEF lefts
    <3> QED
      BY <2>1 DEF Bijection, Injection, Surjection, IsInjective
  <2>3. ExistsBijection(lefts, moved)
    BY <2>2 DEF ExistsBijection
  <2> QED
    BY <1>4, <2>3, FS_Bijection
<1>6. /\ CorrectionParity(c, m) = IF Odd(lefts) THEN 1 ELSE 0
      /\ CorrectionParity(c, <<g>> \o m) = IF Odd(all) THEN 1 ELSE 0
  BY DEF CorrectionParity, Odd
<1>7. Odd(moved) <=> Odd(lefts)
  BY <1>5 DEF Odd
<1> HIDE DEF all, moved, lefts
<1>8. (Odd(all) <=> ~Odd(moved)) <=> EndsLeft(c, g)
  <2>1. CASE EndsLeft(c, g)
    <3>1. all = moved \cup {1}
      BY <1>2, <2>1
    <3> QED
      BY <1>3, <1>5, <2>1, <3>1, OddOneMore
  <2>2. CASE ~EndsLeft(c, g)
    <3>1. all = moved
      BY <1>2, <2>2
    <3> QED
      BY <2>2, <3>1
  <2> QED
    BY <2>1, <2>2
<1> QED
  BY <1>6, <1>7, <1>8

\* With no detector nothing is crossed.
LEMMA NoneCrossed ==
  ASSUME NEW c \in Codes
  PROVE  Cardinality(Crossed(c, {}, 0)) = 0
<1>1. \A q \in 0..(c.distance - 1) : Before(c, {}, q) = {}
  BY DEF Before
<1>2. Cardinality({}) = 0
  BY FS_EmptySet
<1>3. ~Odd({})
  BY <1>2 DEF Odd
<1>4. Crossed(c, {}, 0) = {}
  BY <1>1, <1>3 DEF Crossed
<1> QED
  BY <1>2, <1>4

LEMMA CorrectionCrosses ==
  ASSUME NEW c \in Codes, NEW S \in SUBSET Detectors(c), NEW w \in AllOf(c)[S]
  PROVE  /\ CorrectionParity(c, w.matching) \in {0, 1}
         /\ Cardinality(Crossed(c, S, CorrectionParity(c, w.matching))) <= w.cost
<1> DEFINE Parity(v) == CorrectionParity(c, v.matching)
           Good(T) == \A v \in AllOf(c)[T] :
                        Parity(v) \in {0, 1} /\ Cardinality(Crossed(c, T, Parity(v))) <= v.cost
           K == {T \in SUBSET Detectors(c) : ~Good(T)}
<1>1. K \subseteq SUBSET Detectors(c) /\ IsFiniteSet(Detectors(c))
  BY DetectorsAreFinite
<1>2. ASSUME NEW T \in K, \A U \in SUBSET T : U # T => U \notin K PROVE FALSE
  <2>1. T \in SUBSET Detectors(c) /\ ~Good(T)
    OBVIOUS
  <2>2. CASE T = {}
    <3>1. AllOf(c)[{}] = Ways(c, AllOf(c), {})
      BY WaysOf DEF AllOf
    <3>2. AllOf(c)[{}] = {[cost |-> 0, matching |-> <<>>]}
      BY <3>1 DEF Ways
    <3>3. CorrectionParity(c, <<>>) = 0
      <4>1. {k \in DOMAIN <<>> : EndsLeft(c, <<>>[k])} = {}
        OBVIOUS
      <4>2. Cardinality({}) % 2 = 0
        BY FS_EmptySet
      <4> QED
        BY <4>1, <4>2 DEF CorrectionParity
    <3> QED
      BY <2>1, <2>2, <3>2, <3>3, NoneCrossed
  <2>3. CASE T # {}
    <3> DEFINE head == Min(T)
    <3>1. PICK w1 \in AllOf(c)[T] :
             ~(Parity(w1) \in {0, 1} /\ Cardinality(Crossed(c, T, Parity(w1))) <= w1.cost)
      BY <2>1
    <3>2. head \in T
      BY <2>1, <2>3, LeastDetector
    <3>3. PICK y \in T : \E v \in AllOf(c)[T \ {head, y}] :
             w1.cost = GroupCost(c, head, y) + v.cost /\ w1.matching = <<Group(head, y)>> \o v.matching
      BY <2>1, <2>3, WaysByGroup
    <3> DEFINE U == T \ {head, y}
    <3>4. PICK v \in AllOf(c)[U] :
             w1.cost = GroupCost(c, head, y) + v.cost /\ w1.matching = <<Group(head, y)>> \o v.matching
      BY <3>3
    <3>5. U \in SUBSET T /\ U # T /\ U \in SUBSET Detectors(c) /\ SymDiff(U, {head, y}) = T
      BY <2>1, <3>2 DEF SymDiff
    <3>6. Good(U)
      BY <1>2, <3>5
    <3>7. Parity(v) \in {0, 1} /\ Cardinality(Crossed(c, U, Parity(v))) <= v.cost
      BY <3>6
    <3>8. v.cost \in Nat /\ v.matching \in Seq(Seq(Nat))
      <4>1. AllOf(c)[U] \subseteq Weighed
        BY <3>5, CandidatesAreWeighed DEF AllOf
      <4> QED
        BY <4>1 DEF Weighed
    <3>9. EndsLeft(c, Group(head, y)) <=> head = y /\ Left(c, head)
      <4>1. CASE head = y
        <5>1. Group(head, y) = <<head>>
          BY <4>1 DEF Group
        <5>2. Len(<<head>>) = 1 /\ <<head>>[1] = head
          OBVIOUS
        <5> HIDE DEF head
        <5> QED
          BY <4>1, <5>1, <5>2 DEF EndsLeft, Left
      <4>2. CASE head # y
        <5>1. Group(head, y) = <<head, y>>
          BY <4>2 DEF Group
        <5>2. Len(<<head, y>>) = 2
          OBVIOUS
        <5> HIDE DEF head
        <5> QED
          BY <4>2, <5>1, <5>2 DEF EndsLeft
      <4> QED
        BY <4>1, <4>2
    <3>10. Parity(w1) \in {0, 1} /\ (Parity(w1) # Parity(v) <=> head = y /\ Left(c, head))
      <4> HIDE DEF U, head
      <4> QED
        BY <3>4, <3>8, <3>9, ParityOfMore
    <3>11. head \in Detectors(c) /\ y \in Detectors(c) /\ GroupCost(c, head, y) \in Nat
      BY <2>1, <3>2, GroupCostsAreNatural
    <3>12. Cardinality(Crossed(c, T, Parity(w1)))
             <= Cardinality(Crossed(c, U, Parity(v))) + GroupCost(c, head, y)
      <4> HIDE DEF U, head, Parity
      <4> QED
        BY <3>5, <3>7, <3>10, <3>11, GroupCrosses
    <3>13. Cardinality(Crossed(c, T, Parity(w1))) \in Nat /\ Cardinality(Crossed(c, U, Parity(v))) \in Nat
      BY CrossedIsFinite
    <3> HIDE DEF U, head, Parity
    <3> QED
      BY <3>1, <3>4, <3>7, <3>8, <3>10, <3>11, <3>12, <3>13
  <2> QED
    BY <2>2, <2>3
<1>3. K = {}
  <2> SUFFICES ASSUME K # {} PROVE FALSE
    OBVIOUS
  <2> HIDE DEF K
  <2> QED
    BY <1>1, <1>2, LeastSet
<1> QED
  BY <1>3

-----------------------------------------------------------------------------
(* A set of faults.                                                        *)

\* Only a flip of the first qubit is a group at the left boundary.
LEMMA FaultCrosses ==
  ASSUME code \in Codes, NEW f \in Faults
  PROVE  \E u, v \in Detectors(code) :
           /\ SetsOff(f) = {u, v} /\ GroupCost(code, u, v) = 1
           /\ (u = v /\ Left(code, u)) <=> (f[1] = "qubit" /\ f[3] = 0)
<1>1. PICK u \in Detectors(code), v \in Detectors(code) :
           /\ SetsOff(f) = {u, v} /\ GroupCost(code, u, v) = 1
           /\ f[1] = "measurement" => u # v /\ Position(code, u) = Position(code, v)
           /\ f[1] = "qubit" =>
                /\ f[3] \in 0..(code.distance - 1)
                /\ f[3] = 0 => u = v /\ Position(code, u) = 0
                /\ f[3] = code.distance - 1 => u = v /\ Position(code, u) = code.distance - 2
                /\ f[3] \notin {0, code.distance - 1} =>
                     Position(code, u) = f[3] - 1 /\ Position(code, v) = f[3] /\ u # v
  BY FaultIsAGroup
<1>2. code.distance \in Nat /\ code.distance >= 3
  BY DetectorsAreFinite
<1>3. f[1] = "measurement" \/ f[1] = "qubit"
  BY DEF Faults
<1>4. CASE f[1] = "measurement"
  BY <1>1, <1>4
<1>5. CASE f[1] = "qubit" /\ f[3] = 0
  <2>1. u = v /\ Position(code, u) = 0
    BY <1>1, <1>5
  <2>2. Left(code, u)
    BY <1>2, <2>1 DEF Left
  <2> QED
    BY <1>1, <1>5, <2>1, <2>2
<1>6. CASE f[1] = "qubit" /\ f[3] = code.distance - 1
  <2>1. Position(code, u) = code.distance - 2 /\ f[3] # 0
    BY <1>1, <1>2, <1>6
  <2>2. ~Left(code, u)
    BY <1>2, <2>1 DEF Left
  <2> QED
    BY <1>1, <2>1, <2>2
<1>7. CASE f[1] = "qubit" /\ f[3] \notin {0, code.distance - 1}
  BY <1>1, <1>7
<1> QED
  BY <1>3, <1>4, <1>5, <1>6, <1>7

\* What one fault more does to the pattern and to the observable.
LEMMA OneFaultMore ==
  ASSUME code \in Codes, NEW e \in SUBSET Faults, IsFiniteSet(e), NEW f \in Faults, f \notin e
  PROVE  /\ Syndrome(e \cup {f}) = SymDiff(Syndrome(e), SetsOff(f))
         /\ Flips(e) \in {0, 1} /\ Flips(e \cup {f}) \in {0, 1}
         /\ Flips(e \cup {f}) # Flips(e) <=> f[1] = "qubit" /\ f[3] = 0
<1> DEFINE On(d) == {g \in e : d \in SetsOff(g)}
           On2(d) == {g \in e \cup {f} : d \in SetsOff(g)}
           first == {g \in e : g[1] = "qubit" /\ g[3] = 0}
           first2 == {g \in e \cup {f} : g[1] = "qubit" /\ g[3] = 0}
<1>1. ASSUME NEW d PROVE Odd(On2(d)) <=> ~(Odd(On(d)) <=> d \in SetsOff(f))
  <2>1. IsFiniteSet(On(d)) /\ f \notin On(d)
    BY FS_Subset
  <2>2. CASE d \in SetsOff(f)
    <3>1. On2(d) = On(d) \cup {f}
      BY <2>2
    <3> HIDE DEF On, On2
    <3> QED
      BY <2>1, <2>2, <3>1, OddOneMore
  <2>3. CASE d \notin SetsOff(f)
    <3>1. On2(d) = On(d)
      BY <2>3
    <3> QED
      BY <2>3, <3>1
  <2> QED
    BY <2>2, <2>3
<1>2. /\ Syndrome(e) = {d \in Detectors(code) : Odd(On(d))}
      /\ Syndrome(e \cup {f}) = {d \in Detectors(code) : Odd(On2(d))}
  BY DEF Syndrome, Odd
<1>3. SetsOff(f) \subseteq Detectors(code)
  BY DEF SetsOff
<1>4. Syndrome(e \cup {f}) = SymDiff(Syndrome(e), SetsOff(f))
  <2> HIDE DEF On, On2
  <2> QED
    BY <1>1, <1>2, <1>3 DEF SymDiff
<1>5. IsFiniteSet(first) /\ f \notin first
  BY FS_Subset
<1>6. IsFiniteSet(first2)
  <2>1. IsFiniteSet(e \cup {f})
    BY FS_AddElement
  <2> QED
    BY <2>1, FS_Subset
<1>7. \A n \in Nat : n % 2 \in {0, 1}
  OBVIOUS
<1>8. Cardinality(first) \in Nat /\ Cardinality(first2) \in Nat
  BY <1>5, <1>6, FS_CardinalityType
<1>9. Flips(e) = Cardinality(first) % 2 /\ Flips(e \cup {f}) = Cardinality(first2) % 2
  BY DEF Flips
<1>10. (Odd(first2) <=> ~Odd(first)) <=> f[1] = "qubit" /\ f[3] = 0
  <2>1. CASE f[1] = "qubit" /\ f[3] = 0
    <3>1. first2 = first \cup {f}
      BY <2>1
    <3> HIDE DEF first, first2
    <3> QED
      BY <1>5, <2>1, <3>1, OddOneMore
  <2>2. CASE ~(f[1] = "qubit" /\ f[3] = 0)
    <3>1. first2 = first
      BY <2>2
    <3> QED
      BY <2>2, <3>1
  <2> QED
    BY <2>1, <2>2
<1> HIDE DEF first, first2
<1> QED
  BY <1>4, <1>7, <1>8, <1>9, <1>10 DEF Odd

LEMMA FaultsAreFinite ==
  ASSUME code \in Codes
  PROVE  IsFiniteSet(Faults)
<1> DEFINE kinds  == {"qubit", "measurement"}
           places == (0..code.rounds) \X (0..code.distance)
           all    == kinds \X places
           fault  == [x \in all |-> <<x[1], x[2][1], x[2][2]>>]
           range  == {fault[x] : x \in all}
<1>1. code.rounds \in Nat /\ code.distance \in Nat
  BY CodesAssumption
<1>2. IsFiniteSet(0..code.rounds) /\ IsFiniteSet(0..code.distance)
  <2>1. 0 \in Int /\ code.rounds \in Int /\ code.distance \in Int
    BY <1>1
  <2>2. IsFiniteSet(0..code.rounds)
    BY <2>1, FS_Interval
  <2>3. IsFiniteSet(0..code.distance)
    BY <2>1, FS_Interval
  <2> QED
    BY <2>2, <2>3
<1>3. IsFiniteSet(kinds)
  <2>1. IsFiniteSet({"qubit"})
    BY FS_Singleton
  <2>2. IsFiniteSet({"qubit"} \cup {"measurement"})
    BY <2>1, FS_AddElement
  <2>3. kinds = {"qubit"} \cup {"measurement"}
    OBVIOUS
  <2> QED
    BY <2>2, <2>3
<1>4. IsFiniteSet(all)
  BY <1>2, <1>3, FS_Product
<1>5. IsFiniteSet(range)
  <2>1. fault \in Surjection(all, range)
    <3> HIDE DEF all
    <3> QED
      BY DEF Surjection
  <2> QED
    BY <1>4, <2>1, FS_Surjection
<1>6. ASSUME NEW k \in kinds, NEW r \in 0..code.rounds, NEW p \in 0..code.distance
      PROVE  <<k, r, p>> \in range
  <2>1. <<k, <<r, p>>>> \in all /\ fault[<<k, <<r, p>>>>] = <<k, r, p>>
    OBVIOUS
  <2> HIDE DEF all, fault
  <2> QED
    BY <2>1
<1>7. Faults \subseteq range
  <2>1. \A n \in Nat : 0..(n - 1) \subseteq 0..n /\ 0..(n - 2) \subseteq 0..n
    OBVIOUS
  <2> HIDE DEF range
  <2> QED
    BY <1>1, <1>6, <2>1 DEF Faults
<1> QED
  BY <1>5, <1>7, FS_Subset

\* A set of faults weighs at most its size, and crosses at most that many cuts.
LEMMA FaultsCross ==
  ASSUME code \in Codes, NEW e \in SUBSET Faults
  PROVE  /\ Syndrome(e) \in SUBSET Detectors(code) /\ Flips(e) \in {0, 1}
         /\ Weight(code, Syndrome(e)) <= Cardinality(e)
         /\ Cardinality(Crossed(code, Syndrome(e), Flips(e))) <= Cardinality(e)
<1> DEFINE Good(x) == /\ Flips(x) \in {0, 1}
                      /\ Weight(code, Syndrome(x)) <= Cardinality(x)
                      /\ Cardinality(Crossed(code, Syndrome(x), Flips(x))) <= Cardinality(x)
           K == {x \in SUBSET Faults : ~Good(x)}
<1>1. K \subseteq SUBSET Faults /\ IsFiniteSet(Faults)
  BY FaultsAreFinite
<1>2. \A x : Syndrome(x) \in SUBSET Detectors(code)
  BY DEF Syndrome
<1>3. ASSUME NEW x \in K, \A y \in SUBSET x : y # x => y \notin K PROVE FALSE
  <2>1. x \in SUBSET Faults /\ ~Good(x)
    OBVIOUS
  <2>2. CASE x = {}
    <3>1. Cardinality({}) = 0
      BY FS_EmptySet
    <3>2. \A d : {g \in {} : d \in SetsOff(g)} = {}
      OBVIOUS
    <3>3. {g \in {} : g[1] = "qubit" /\ g[3] = 0} = {}
      OBVIOUS
    <3>4. Syndrome({}) = {} /\ Flips({}) = 0
      BY <3>1, <3>2, <3>3 DEF Syndrome, Flips
    <3>5. Weight(code, {}) = 0
      BY WeightOfNone
    <3>6. Cardinality(Crossed(code, {}, 0)) = 0
      BY NoneCrossed
    <3> QED
      BY <2>1, <2>2, <3>1, <3>4, <3>5, <3>6
  <2>3. CASE x # {}
    <3>1. PICK f \in x : TRUE
      BY <2>3
    <3> DEFINE y == x \ {f}
    <3>2. y \in SUBSET x /\ y # x /\ y \in SUBSET Faults /\ f \notin y /\ f \in Faults /\ y \cup {f} = x
      BY <2>1, <3>1
    <3>3. Good(y)
      BY <1>3, <3>2
    <3> HIDE DEF y, Good, K
    <3>4. IsFiniteSet(y)
      BY <1>1, <3>2, FS_Subset
    <3>5. Cardinality(y) \in Nat /\ Cardinality(x) = Cardinality(y) + 1
      BY <3>2, <3>4, FS_AddElement, FS_CardinalityType
    <3>6. /\ Syndrome(x) = SymDiff(Syndrome(y), SetsOff(f))
          /\ Flips(x) \in {0, 1} /\ Flips(y) \in {0, 1}
          /\ Flips(x) # Flips(y) <=> f[1] = "qubit" /\ f[3] = 0
      BY <3>2, <3>4, OneFaultMore
    <3>7. PICK u \in Detectors(code), v \in Detectors(code) :
             /\ SetsOff(f) = {u, v} /\ GroupCost(code, u, v) = 1
             /\ (u = v /\ Left(code, u)) <=> (f[1] = "qubit" /\ f[3] = 0)
      BY <3>2, FaultCrosses
    <3>8. Weight(code, Syndrome(x)) <= Weight(code, Syndrome(y)) + 1
      BY <1>2, <3>6, <3>7, OneGroupApart
    <3>9. Cardinality(Crossed(code, Syndrome(x), Flips(x)))
            <= Cardinality(Crossed(code, Syndrome(y), Flips(y))) + 1
      <4>1. Flips(x) # Flips(y) <=> u = v /\ Left(code, u)
        BY <3>6, <3>7
      <4> QED
        BY <1>2, <3>6, <3>7, <4>1, GroupCrosses
    <3>10. Weight(code, Syndrome(x)) \in Nat /\ Weight(code, Syndrome(y)) \in Nat
      BY <1>2, WeightIsLeast
    <3>11. /\ Cardinality(Crossed(code, Syndrome(x), Flips(x))) \in Nat
           /\ Cardinality(Crossed(code, Syndrome(y), Flips(y))) \in Nat
      BY CrossedIsFinite
    <3> QED
      BY <2>1, <3>3, <3>5, <3>6, <3>8, <3>9, <3>10, <3>11 DEF Good
  <2> QED
    BY <2>2, <2>3
<1>4. K = {}
  <2> SUFFICES ASSUME K # {} PROVE FALSE
    OBVIOUS
  <2> HIDE DEF K
  <2> QED
    BY <1>1, <1>3, LeastSet
<1> QED
  BY <1>2, <1>4

-----------------------------------------------------------------------------
(* What is returned.                                                       *)

\* What is returned has the least weight.
LEMMA ReturnedWeight ==
  ASSUME IInv, returned
  PROVE  best \in AllOf(code)[fired] /\ best.cost = Weight(code, fired)
<1>1. code \in Codes /\ fired \in SUBSET Detectors(code)
  BY DEF IInv
<1>2. Candidates(code, fired) = AllOf(code)[fired]
  BY <1>1, CandidatesAreWays, WaysOfSubset DEF AllOf
<1>3. /\ best \in AllOf(code)[fired]
      /\ \A w \in AllOf(code)[fired] : best = w \/ Better(best, w)
  BY <1>2, ReturnedIsLeast
<1>4. AllOf(code)[fired] \subseteq Weighed
  BY <1>1, CandidatesAreWeighed DEF AllOf
<1>5. \A w \in AllOf(code)[fired] : w.cost \in Nat /\ best.cost \in Nat /\ best.cost <= w.cost
  BY <1>3, <1>4 DEF Weighed, Better
<1>6. /\ \E w \in AllOf(code)[fired] : Weight(code, fired) = w.cost
      /\ \A w \in AllOf(code)[fired] : Weight(code, fired) <= w.cost
  BY <1>1, WeightIsLeast
<1> QED
  BY <1>3, <1>5, <1>6

\* For every code a table may be built for: whatever at most (distance - 1) / 2
\* faults caused a pattern, the matching found for it undoes what they did to
\* the logical observable (build_table, _correction_parity).
THEOREM TableCorrects == Spec => []CorrectsFewFaults
<1>1. IInv => CorrectsFewFaults
  <2> SUFFICES ASSUME IInv, returned,
                      NEW faults \in FewFaults, Syndrome(faults) = fired
               PROVE  CorrectionParity(code, best.matching) = Flips(faults)
    BY DEF CorrectsFewFaults
  <2> DEFINE n == code.distance - 1
             parity == CorrectionParity(code, best.matching)
             matched == Crossed(code, fired, parity)
             caused == Crossed(code, fired, Flips(faults))
  <2>1. code \in Codes /\ fired \in SUBSET Detectors(code)
    BY DEF IInv
  <2>2. n \in Nat
    BY <2>1, DetectorsAreFinite
  <2>3. /\ faults \in SUBSET Faults /\ Cardinality(faults) \in Nat
        /\ Cardinality(faults) + Cardinality(faults) <= n
    <3>1. PICK k \in 0..(n \div 2) : faults \in kSubset(k, Faults)
      BY DEF FewFaults
    <3>2. faults \in SUBSET Faults /\ Cardinality(faults) = k
      BY <3>1 DEF kSubset
    <3>3. \A m \in Nat : m \div 2 \in Nat /\ (m \div 2) + (m \div 2) <= m
      OBVIOUS
    <3> HIDE DEF n
    <3> QED
      BY <2>2, <3>2, <3>3
  <2>4. /\ Flips(faults) \in {0, 1}
        /\ Weight(code, fired) <= Cardinality(faults)
        /\ Cardinality(caused) <= Cardinality(faults)
    BY <2>1, <2>3, FaultsCross
  <2>5. best \in AllOf(code)[fired] /\ best.cost = Weight(code, fired)
    BY ReturnedWeight
  <2>6. parity \in {0, 1} /\ Cardinality(matched) <= Weight(code, fired)
    BY <2>1, <2>5, CorrectionCrosses
  <2>7. IsFiniteSet(0..n) /\ Cardinality(0..n) = n + 1
    BY <2>2, FS_Interval
  <2>8. matched \subseteq 0..n /\ caused \subseteq 0..n
    BY DEF Crossed
  <2>9. IsFiniteSet(matched) /\ IsFiniteSet(caused)
    BY <2>7, <2>8, FS_Subset
  <2>10. /\ Cardinality(matched \cup caused)
              = Cardinality(matched) + Cardinality(caused) - Cardinality(matched \cap caused)
         /\ Cardinality(matched) \in Nat /\ Cardinality(caused) \in Nat
         /\ Cardinality(matched \cap caused) \in Nat
    BY <2>9, FS_Union, FS_Intersection, FS_CardinalityType
  <2>11. Weight(code, fired) \in Nat
    BY <2>1, WeightIsLeast
  <2>12. ASSUME parity # Flips(faults) PROVE FALSE
    <3>1. \A q : ~(Odd(Before(code, fired, q)) <=> parity = 1)
                   \/ ~(Odd(Before(code, fired, q)) <=> Flips(faults) = 1)
      BY <2>4, <2>6, <2>12
    <3>2. 0..n \subseteq matched \cup caused
      BY <3>1 DEF Crossed
    <3>3. matched \cup caused = 0..n
      BY <2>8, <3>2
    <3>4. Cardinality(matched \cup caused) = n + 1
      BY <2>7, <3>3
    <3> HIDE DEF n, matched, caused
    <3> QED
      BY <2>2, <2>3, <2>4, <2>6, <2>10, <2>11, <3>4
  <2> QED
    BY <2>12
<1> QED
  BY Initial, Step, <1>1, PTL DEF Spec
=============================================================================
