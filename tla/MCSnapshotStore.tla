--------------------------- MODULE MCSnapshotStore ---------------------------
(***************************************************************************)
(* Values for the constants of SnapshotStore.  `boot` is one session with  *)
(* one window and one pane, `work` the same session with a second window.  *)
(***************************************************************************)
EXTENDS SnapshotStore

CONSTANTS c1, c2, daemon, boot, work
=============================================================================
