----------------------------- MODULE RefCountStore -----------------------------
(***************************************************************************)
(* What a reference-counted HashStore promises, without any values: a      *)
(* signed count per key, moved by one for each insertion and removal, and  *)
(* the sum of both when one store is consolidated into another.            *)
(***************************************************************************)
EXTENDS Integers

CONSTANT Keys

VARIABLES
    counts,     \* the store's count of every key
    staged      \* the count of every key in the overlay built beside it

Bump(f, k, d) == [f EXCEPT ![k] = @ + d]

Init ==
    /\ counts = [k \in Keys |-> 0]
    /\ staged = [k \in Keys |-> 0]

\* One insertion (d = 1) or removal (d = -1) of one key in one of the stores.
Step ==
    \E k \in Keys, d \in {-1, 1} :
        \/ counts' = Bump(counts, k, d) /\ UNCHANGED staged
        \/ staged' = Bump(staged, k, d) /\ UNCHANGED counts

\* The overlay is added to the store and starts over.
Merge ==
    /\ counts' = [k \in Keys |-> counts[k] + staged[k]]
    /\ staged' = [k \in Keys |-> 0]

\* The store is drained or cleared.
Reset ==
    /\ counts' = [k \in Keys |-> 0]
    /\ UNCHANGED staged

Next == Step \/ Merge \/ Reset

Spec == Init /\ [][Next]_<<counts, staged>>
===============================================================================
