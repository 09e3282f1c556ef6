--------------------------- MODULE MatchingSearch ---------------------------
(***************************************************************************)
(* The branch-and-bound search of capability/table.py for the matching of  *)
(* least weight (_min_weight_matching).  A step is one call of the inner   *)
(* function search; stack holds the calls that are still to be made, the   *)
(* next one first.                                                         *)
(***************************************************************************)
EXTENDS DecodeTable

CONSTANTS Codes,   \* the codes a table is built for
          Nothing  \* no candidate yet

ASSUME CodesAssumption ==
  \A code \in Codes : code.distance \in Nat /\ code.rounds \in Nat /\ Buildable(code)

ASSUME NothingAssumption ==
  \A code \in Codes : \A fired \in SUBSET Detectors(code) :
    Nothing \notin Candidates(code, fired)

VARIABLES code, fired,  \* the code, and the detectors of one pattern
          stack,        \* the calls to be made, [remaining, acc, cost] records
          best,         \* the best candidate so far, or Nothing
          returned      \* _min_weight_matching has returned best

vars == <<code, fired, stack, best, returned>>

Call(remaining, acc, cost) == [remaining |-> remaining, acc |-> acc, cost |-> cost]

\* No detector fired: the empty matching is returned without a search.
Init ==
  /\ code \in Codes
  /\ fired \in SUBSET Detectors(code)
  /\ IF fired = {}
     THEN stack = <<>> /\ best = [cost |-> 0, matching |-> <<>>]
     ELSE stack = <<Call(fired, <<>>, 0)>> /\ best = Nothing
  /\ returned = FALSE

Now == Head(stack)

Pruned == best # Nothing /\ Now.cost > best.cost

Cut ==
  /\ stack # <<>>
  /\ Pruned
  /\ stack' = Tail(stack)
  /\ UNCHANGED <<code, fired, best, returned>>

\* Mutant: the last candidate wins.
Replace ==
  /\ stack # <<>>
  /\ ~Pruned
  /\ Now.remaining = {}
  /\ best' = [cost |-> Now.cost, matching |-> Now.acc]
  /\ stack' = Tail(stack)
  /\ UNCHANGED <<code, fired, returned>>

\* acc is sorted as it is: each group starts with the least detector left.
Candidate ==
  /\ stack # <<>>
  /\ ~Pruned
  /\ Now.remaining = {}
  /\ LET candidate == [cost |-> Now.cost, matching |-> Now.acc] IN
     best' = IF best = Nothing \/ Better(candidate, best) THEN candidate ELSE best
  /\ stack' = Tail(stack)
  /\ UNCHANGED <<code, fired, returned>>

\* The detectors after the head, in ascending order.
Ascending(S) == CHOOSE s \in [1..Cardinality(S) -> S] :
                  \A j, k \in DOMAIN s : j < k => s[j] < s[k]

\* The calls of one call: the head to the boundary, then with each later one.
Calls(call) ==
  LET head == Min(call.remaining)
      rest == Ascending(call.remaining \ {head})
  IN  << Call(call.remaining \ {head}, Append(call.acc, <<head>>),
              call.cost + BoundaryCost(code, head)) >>
        \o
      [k \in DOMAIN rest |->
         Call(call.remaining \ {head, rest[k]}, Append(call.acc, <<head, rest[k]>>),
              call.cost + PairCost(code, head, rest[k]))]

Branch ==
  /\ stack # <<>>
  /\ ~Pruned
  /\ Now.remaining # {}
  /\ stack' = Calls(Now) \o Tail(stack)
  /\ UNCHANGED <<code, fired, best, returned>>

Return ==
  /\ stack = <<>>
  /\ ~returned
  /\ returned' = TRUE
  /\ UNCHANGED <<code, fired, stack, best>>

Next == Cut \/ Candidate \/ Branch \/ Return

Spec == Init /\ [][Next]_vars

-----------------------------------------------------------------------------
(* Properties.                                                             *)

\* A matching that a call on the stack may still arrive at.
Reachable(matching) ==
  \E k \in DOMAIN stack :
    /\ Len(stack[k].acc) <= Len(matching)
    /\ stack[k].acc = SubSeq(matching, 1, Len(stack[k].acc))

\* Pruning and the tie-break lose nothing: at every moment every matching is
\* either still to come or no better than the best one so far, and what is
\* returned is the least of all by cost and then by order, "a property of the
\* result rather than of the traversal".
NothingLost ==
  /\ \A candidate \in Candidates(code, fired) :
       \/ Reachable(candidate.matching)
       \/ best = candidate
       \/ best # Nothing /\ Better(best, candidate)
  /\ returned => best = BestMatching(code, fired)

\* The faults of a code: a flip of one data qubit before a round, or one
\* wrong measurement between two rounds.
Faults ==
  {<<"qubit", r, q>> : r \in 0..(code.rounds - 1), q \in 0..(code.distance - 1)}
    \union
  {<<"measurement", r, p>> : r \in 0..(code.rounds - 2), p \in 0..(code.distance - 2)}

\* The detectors a fault sets off: the checks on either side of a qubit, or
\* one check in two rounds.
SetsOff(fault) ==
  {d \in Detectors(code) :
     IF fault[1] = "qubit"
     THEN Round(code, d) = fault[2] /\ Position(code, d) \in {fault[3] - 1, fault[3]}
     ELSE Position(code, d) = fault[3] /\ Round(code, d) \in {fault[2], fault[2] + 1}}

Syndrome(faults) ==
  {d \in Detectors(code) : Cardinality({f \in faults : d \in SetsOff(f)}) % 2 = 1}

\* A flip of the first qubit moves the observable.
Flips(faults) ==
  Cardinality({f \in faults : f[1] = "qubit" /\ f[3] = 0}) % 2

FewFaults ==
  UNION {kSubset(n, Faults) : n \in 0..((code.distance - 1) \div 2)}

\* The table decodes a repetition code of its distance: whichever faults, at
\* most (distance - 1) / 2 of them, caused the pattern, the correction of its
\* matching undoes what they did to the logical observable.
CorrectsFewFaults ==
  returned =>
    \A faults \in FewFaults :
      Syndrome(faults) = fired => CorrectionParity(code, best.matching) = Flips(faults)
=============================================================================
