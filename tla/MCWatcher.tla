------------------------------ MODULE MCWatcher ------------------------------
(* Values for the constants of Watcher. *)
EXTENDS Watcher

CONSTANTS boot, work
=============================================================================
