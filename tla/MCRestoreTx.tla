----------------------------- MODULE MCRestoreTx -----------------------------
(* A server with two sessions, and snapshots that share one of their names  *)
(* with it: two sessions, or three of which the last is a group member.     *)
EXTENDS RestoreTx

CONSTANTS t1, t2

TwoSessions == <<"a", "b">>
Temporaries == <<"backup 0", "backup 1">>
Snapshot == <<"b", "c">>
Snapshot3 == <<"b", "c", "d">>
ClientState == <<[to |-> 2, last |-> 1]>>
=============================================================================
