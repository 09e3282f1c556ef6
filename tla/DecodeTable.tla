---------------------------- MODULE DecodeTable ----------------------------
(***************************************************************************)
(* The decode table of capability/table.py: minimum-weight matchings of    *)
(* the detectors of a repetition code, and the correction they imply.  The *)
(* search that finds the matching is in MatchingSearch.                    *)
(*                                                                         *)
(* A code is a record [distance, rounds]; detectors are numbered from 0,   *)
(* row by row; a matching is a sequence of groups <<detector>> (matched to *)
(* the boundary) and <<detector, later detector>>, in the order of their   *)
(* first detectors.                                                        *)
(***************************************************************************)
EXTENDS Naturals, Sequences, FiniteSetsExt

CONSTANT MaxDetectorBits  \* MAX_DETECTOR_BITS

ASSUME MaxDetectorBitsAssumption == MaxDetectorBits \in Nat

DetectorCount(code) == code.rounds * (code.distance - 1)
Detectors(code) == 0..(DetectorCount(code) - 1)

\* Row-major: detector r * (distance - 1) + p is check p of round r.
Round(code, detector) == detector \div (code.distance - 1)
Position(code, detector) == detector % (code.distance - 1)

Gap(m, n) == IF m < n THEN n - m ELSE m - n

PairCost(code, a, b) ==
  Gap(Round(code, a), Round(code, b)) + Gap(Position(code, a), Position(code, b))

\* Mutant: the left boundary is a step too near.
LeftIsNearer(code, detector) ==
  Min({Position(code, detector), (code.distance - 1) - Position(code, detector)})

BoundaryCost(code, detector) ==
  Min({Position(code, detector) + 1, (code.distance - 1) - Position(code, detector)})

\* Only a detector matched to the left boundary flips the logical observable.
EndsLeft(code, group) ==
  /\ Len(group) = 1
  /\ Position(code, group[1]) + 1 <= (code.distance - 1) - Position(code, group[1])

CorrectionParity(code, matching) ==
  IF Cardinality({k \in DOMAIN matching : EndsLeft(code, matching[k])}) % 2 = 1 THEN 1 ELSE 0

\* build_table's TableErrors.
Buildable(code) ==
  /\ code.distance >= 3
  /\ code.distance % 2 = 1
  /\ code.rounds >= 1
  /\ DetectorCount(code) <= MaxDetectorBits

-----------------------------------------------------------------------------
(* The order of tuples: by the first item that differs, a prefix first.    *)

Agree(s, t, k) == \A j \in 1..(k - 1) : j \in DOMAIN s /\ s[j] = t[j]

LessGroup(g, h) ==
  \E k \in DOMAIN h : Agree(g, h, k) /\ (k \in DOMAIN g => g[k] < h[k])

LessMatching(m, n) ==
  \E k \in DOMAIN n : Agree(m, n, k) /\ (k \in DOMAIN m => LessGroup(m[k], n[k]))

\* (cost, matching) tuples.
Better(a, b) ==
  \/ a.cost < b.cost
  \/ a.cost = b.cost /\ LessMatching(a.matching, b.matching)

-----------------------------------------------------------------------------
(* What the search is to find, without searching.                          *)

Prepend(cost, group, candidates) ==
  {[cost |-> cost + c.cost, matching |-> <<group>> \o c.matching] : c \in candidates}

\* Every way of matching a set of detectors, with what it costs.
Candidates(code, fired) ==
  LET of[S \in SUBSET fired] ==
        IF S = {}
        THEN {[cost |-> 0, matching |-> <<>>]}
        ELSE LET head == Min(S) IN
             Prepend(BoundaryCost(code, head), <<head>>, of[S \ {head}])
               \union
             UNION {Prepend(PairCost(code, head, other), <<head, other>>, of[S \ {head, other}]) :
                      other \in S \ {head}}
  IN  of[fired]

BestMatching(code, fired) ==
  LET candidates == Candidates(code, fired) IN
  CHOOSE c \in candidates : \A d \in candidates : d = c \/ Better(c, d)

-----------------------------------------------------------------------------
(* build_table: one entry after another, for the strings that              *)
(* itertools.product("01", repeat=bits) gives in lexicographic order.  A    *)
(* pattern is such a tuple, a function from the places of the string.      *)

\* Mutant: the last detector is left out of the strings.
OneBitShort(code) == DetectorCount(code) - 1

\* bits
Repeat(code) == DetectorCount(code)

Patterns(code) == [0..(Repeat(code) - 1) -> {0, 1}]
FirstPattern(code) == [i \in 0..(Repeat(code) - 1) |-> 0]

Zeros(pattern) == {i \in DOMAIN pattern : pattern[i] = 0}

\* The last 0 becomes 1, and what is after it 0 again.
NextPattern(pattern) ==
  LET last == Max(Zeros(pattern))
  IN  [i \in DOMAIN pattern |-> IF i < last THEN pattern[i] ELSE IF i = last THEN 1 ELSE 0]

Fired(pattern) == DOMAIN pattern \ Zeros(pattern)

\* "".join(pattern), as Decode has its records.
Key(code, pattern) == [width |-> Repeat(code), binary |-> TRUE, ones |-> Fired(pattern)]

LeastParity(code, fired) == CorrectionParity(code, BestMatching(code, fired).matching)

\* What the table is to hold: for every set of detectors the correction of its
\* best matching.
Table(code) == [fired \in SUBSET Detectors(code) |-> LeastParity(code, fired)]
=============================================================================
