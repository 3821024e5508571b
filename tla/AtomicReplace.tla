---------------------------- MODULE AtomicReplace ----------------------------
(***************************************************************************)
(* What restore promises (docs/architecture.md, "restore commit point"):   *)
(* the sessions that were there are destroyed only once everything that    *)
(* was asked for exists, nothing that was restored is destroyed once the   *)
(* first of them is gone, and the report tells which of the two the user   *)
(* is left with.                                                           *)
(***************************************************************************)
VARIABLES
    old,      \* every session that was there is still there
    new,      \* every session of the snapshot is there
    verdict   \* "none" until the report is written

Init == old = TRUE /\ new = FALSE /\ verdict = "none"

\* Sessions are created, or a failed attempt is cleaned up.
Prepare ==
    /\ verdict = "none" /\ old
    /\ new' \in BOOLEAN
    /\ UNCHANGED <<old, verdict>>

\* The irreversible part.
Retire ==
    /\ verdict = "none" /\ new
    /\ old' = FALSE
    /\ UNCHANGED <<new, verdict>>

Report ==
    /\ verdict = "none"
    /\ \/ new /\ verdict' = "succeeded"
       \/ old /\ verdict' \in {"rolled back", "rollback incomplete"}
    /\ UNCHANGED <<old, new>>

Next == Prepare \/ Retire \/ Report

Spec == Init /\ [][Next]_<<old, new, verdict>>
=============================================================================
