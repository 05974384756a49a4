---------------------------- MODULE GenerateOnce ----------------------------
(***************************************************************************)
(* What a cron, its queue and its worker promise together: an item that is *)
(* wanted is made at most once, and nothing is made that never was wanted. *)
(* The worker of the DIPs (dipWorker.ts) and that of the loans             *)
(* (conditionPrecedentWorker.ts) implement it.                             *)
(***************************************************************************)
CONSTANT Items

VARIABLES
    wanted,   \* items that were wanted at some time
    made      \* how often each item was made

Init == wanted = {} /\ made = [item \in Items |-> 0]

Want(items) ==
    /\ items \subseteq Items
    /\ wanted' = wanted \cup items
    /\ UNCHANGED made

Make(item) ==
    /\ item \in wanted
    /\ made[item] = 0
    /\ made' = [made EXCEPT ![item] = 1]
    /\ UNCHANGED wanted

Next ==
    \/ \E items \in SUBSET Items : Want(items)
    \/ \E item \in Items : Make(item)

Spec == Init /\ [][Next]_<<wanted, made>>

=============================================================================
