---------------------------- MODULE RecoveryPoint ----------------------------
(***************************************************************************)
(* What a recovery store promises to whoever reads it: snapshots are       *)
(* numbered as they are made, `current` is one of them that is kept, and   *)
(* it moves only to the one that was made last; what it names and what is  *)
(* pinned is never discarded; a crash brings back at worst the current     *)
(* that was settled before.  SnapshotStore implements it.                  *)
(***************************************************************************)
EXTENDS Naturals

VARIABLES
    made,     \* number of snapshots ever made
    kept,     \* those that can be read
    current,  \* the one to recover from, 0 for none
    settled,  \* the current that is sure to survive a crash
    pinned    \* those that stay until they are unpinned

vars == <<made, kept, current, settled, pinned>>

Init == made = 0 /\ kept = {} /\ current = 0 /\ settled = 0 /\ pinned = {}

Make ==
    /\ made' = made + 1
    /\ kept' = kept \cup {made'}
    /\ UNCHANGED <<current, settled, pinned>>

Publish ==
    /\ made \in kept
    /\ current' = made
    /\ UNCHANGED <<made, kept, settled, pinned>>

Settle ==
    /\ settled' = current
    /\ UNCHANGED <<made, kept, current, pinned>>

Discard ==
    /\ \E i \in kept \ (pinned \cup {current}) : kept' = kept \ {i}
    /\ UNCHANGED <<made, current, settled, pinned>>

Pin ==
    /\ \E i \in kept : pinned' = pinned \cup {i}
    /\ UNCHANGED <<made, kept, current, settled>>

Unpin ==
    /\ \E i \in kept : pinned' = pinned \ {i}
    /\ UNCHANGED <<made, kept, current, settled>>

\* Snapshots that were being made or discarded may be there or not.
Crash ==
    /\ current' \in {current, settled}
    /\ settled' = current'
    /\ kept' \subseteq 1 .. made
    /\ pinned \cup ({current'} \ {0}) \subseteq kept'
    /\ UNCHANGED <<made, pinned>>

Next == Make \/ Publish \/ Settle \/ Discard \/ Pin \/ Unpin \/ Crash

Spec == Init /\ [][Next]_vars
=============================================================================
