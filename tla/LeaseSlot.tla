----------------------------- MODULE LeaseSlot ------------------------------
(***************************************************************************)
(* What the lease protocol promises, without tokens, clocks, submissions or *)
(* isolates: each work item has one slot, held by at most one lease; a     *)
(* lease that has not lapsed is never pushed out of its slot by another;   *)
(* only the lease in the slot may be brought back from its lapse; and a    *)
(* lease id that was once used never holds a slot again.                   *)
(***************************************************************************)
CONSTANTS Items, LeaseIds, Free

VARIABLES
    slot,   \* the lease holding each item's slot, or Free
    used,   \* the leases ever issued
    lapsed  \* those whose time is over

Init ==
    /\ slot = [i \in Items |-> Free]
    /\ used = {}
    /\ lapsed = {}

\* A claim fills a free slot, or one whose lease has lapsed; it may have taken so
\* long that the new lease has lapsed too.
Acquire(i, l) ==
    /\ l \notin used
    /\ slot[i] = Free \/ slot[i] \in lapsed
    /\ slot' = [slot EXCEPT ![i] = l]
    /\ used' = used \cup {l}
    /\ lapsed' = lapsed \/ lapsed' = lapsed \cup {l}

\* Releases, submissions, expiries and revocations empty slots.
Vacate(S) ==
    /\ slot' = [i \in Items |-> IF i \in S THEN Free ELSE slot[i]]
    /\ UNCHANGED <<used, lapsed>>

Lapse(S) ==
    /\ S \subseteq used
    /\ lapsed' = lapsed \cup S
    /\ UNCHANGED <<slot, used>>

\* A renewal, which may come late: it may still find its lease in the slot.
Renew(i) ==
    /\ slot[i] \in used
    /\ lapsed' = lapsed \ {slot[i]} \/ lapsed' = lapsed \cup {slot[i]}
    /\ UNCHANGED <<slot, used>>

Next ==
    \/ \E i \in Items, l \in LeaseIds : Acquire(i, l)
    \/ \E S \in SUBSET Items : Vacate(S)
    \/ \E S \in SUBSET LeaseIds : Lapse(S)
    \/ \E i \in Items : Renew(i)

Spec == Init /\ [][Next]_<<slot, used, lapsed>>
=============================================================================
