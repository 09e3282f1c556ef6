---------------------------- MODULE PredicateMap ----------------------------
(***************************************************************************)
(* What verifier/receipt.py and harness/runner.py read of the predicates   *)
(* of a receipt, through ReceiptVerifier._predicate_map.                   *)
(*                                                                         *)
(* A receipt has them in its field predicates: a sequence of entries, each *)
(* with its id and its result.  (In a dict an entry's id is its key; its   *)
(* keys are all different, and their order plays no part.)                 *)
(***************************************************************************)
EXTENDS Naturals, Sequences

CONSTANT Invariants  \* the predicate identifiers, INVARIANTS

\* {p.get("id"): p for p in raw}: the last of several entries wins.
Exposed(receipt) == {receipt.predicates[k].id : k \in DOMAIN receipt.predicates}

Predicate(receipt, i) ==
  receipt.predicates[
    CHOOSE k \in DOMAIN receipt.predicates :
      /\ receipt.predicates[k].id = i
      /\ \A j \in DOMAIN receipt.predicates :
           receipt.predicates[j].id = i => j <= k]

Failing(receipt) ==
  {i \in Invariants \intersect Exposed(receipt) :
     Predicate(receipt, i).result = "FAIL"}
=============================================================================
