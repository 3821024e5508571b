------------------------------- MODULE Watcher -------------------------------
(***************************************************************************)
(* The watcher process of one tmux socket (daemon.rs): what it decides     *)
(* when it starts on a server that has just come up, automatic restore,    *)
(* and the autosaves that follow, against manual saves and restores        *)
(* (main.rs), users who change the server at any time, servers that are    *)
(* replaced, and processes that die.                                       *)
(*                                                                         *)
(* The store is reduced to what current.json names; what is inside a       *)
(* commit is the subject of SnapshotStore, what is inside apply() that of  *)
(* RestoreTx.  Captures are taken at one instant, the file operations of a *)
(* commit happen at another.                                               *)
(*                                                                         *)
(* A definition named Faulty... is the one that follows it with a mistake, *)
(* used only to show that the properties can fail.                         *)
(***************************************************************************)
EXTENDS Naturals, FiniteSets

CONSTANTS
    Shapes,     \* structures a server can have
    Boot,       \* one session, one window, one pane that runs no command
    AutoRestore, \* restore.auto
    MaxIds,     \* bound: snapshots that become current
    MaxGen,     \* bound: tmux servers
    MaxChanges, \* bound: structural changes made by users
    MaxDeaths   \* bound: processes killed, damaged files, failed operations

WatcherAssumption ==
    /\ Boot \in Shapes
    /\ AutoRestore \in BOOLEAN
    /\ {MaxIds, MaxChanges, MaxDeaths} \subseteq Nat /\ MaxGen \in Nat \ {0}

ASSUME WatcherAssumption

VARIABLES
    server,    \* the live tmux server
    current,   \* the snapshot current.json names
    lock,      \* who holds mutation.lock
    pc,        \* what the watcher does next
    initial,   \* its first capture of the server
    protected, \* the id it must not replace by a bootstrap, 0 for None
    source,    \* the id automatic restore wants to restore
    cap,       \* the capture of the save under way
    outcome,   \* how automatic restore ended
    cli,       \* what the manual command under way does next
    plan,      \* the capture of the manual command
    applied,   \* history: apply() was run by this watcher
    found,     \* history: the current id when it started
    broken,    \* history: generations whose restore died half way
    changes, deaths

begun   == <<initial, found>>
watcher == <<pc, begun, protected, source, cap, outcome, applied>>
manual  == <<cli, plan>>
vars    == <<server, current, lock, watcher, manual, broken, changes, deaths>>

-----------------------------------------------------------------------------
\* A server, and a capture of one.  `gen` stands for its identity (pid and
\* start time); `half` says that a restore has started to change it and has
\* not come to its end.
Servers == [gen : 1 .. MaxGen, shape : Shapes, half : BOOLEAN]
Fresh(g) == [gen |-> g, shape |-> Boot, half |-> FALSE]

\* id 0: there is no pointer.
Snapshots == [id : 0 .. MaxIds, gen : 0 .. MaxGen, shape : Shapes, half : BOOLEAN,
              loads : BOOLEAN]
None == [id |-> 0, gen |-> 0, shape |-> Boot, half |-> FALSE, loads |-> FALSE]

IsBootstrap(c) == c.shape = Boot /\ ~c.half

Describes(s, c) ==
    s.loads /\ s.gen = c.gen /\ s.shape = c.shape /\ s.half = c.half

\* commit(.., set_current): a matching current is left alone.
Publish(c) ==
    IF Describes(current, c) THEN UNCHANGED current
    ELSE /\ current.id < MaxIds
         /\ current' = [id |-> current.id + 1, gen |-> c.gen, shape |-> c.shape,
                        half |-> c.half, loads |-> TRUE]

Init ==
    /\ server = Fresh(1)
    /\ current = None
    /\ lock = "free"
    /\ pc = "off" /\ initial = Fresh(1) /\ protected = 0 /\ source = 0
    /\ cap = Fresh(1) /\ outcome = "none" /\ applied = FALSE /\ found = 0
    /\ cli = "idle" /\ plan = Fresh(1)
    /\ broken = {} /\ changes = 0 /\ deaths = 0

Goto(s) == pc' = s
Take(who) == lock = "free" /\ lock' = who
FaultyLeave(who) == UNCHANGED lock
Leave(who) == lock' = IF lock = who THEN "free" ELSE lock
Act == changes < MaxChanges /\ changes' = changes + 1
Fault == deaths < MaxDeaths /\ deaths' = deaths + 1

-----------------------------------------------------------------------------
\* The tmux server, its users, the disk.

UserChange(s) ==
    /\ Act /\ s # server.shape
    /\ server' = [server EXCEPT !.shape = s]
    /\ UNCHANGED <<current, lock, watcher, manual, broken, deaths>>

\* A watcher that runs a command meanwhile, or whose hook waiter belonged to
\* the old server, exits; one that only polls meets the new server next time.
ServerRestart ==
    /\ server.gen < MaxGen
    /\ server' = Fresh(server.gen + 1)
    /\ \/ UNCHANGED <<pc, lock>>
       \/ pc # "off" /\ Goto("off") /\ Leave("watcher")
    /\ UNCHANGED <<current, begun, protected, source, cap, outcome, applied, manual,
                   broken, changes, deaths>>

\* The body of the current snapshot is lost or altered.
Damage ==
    /\ current.loads /\ Fault
    /\ current' = [current EXCEPT !.loads = FALSE]
    /\ UNCHANGED <<server, lock, watcher, manual, broken, changes>>

-----------------------------------------------------------------------------
\* apply() on the server the connection was opened to: it ends with the
\* sessions of the snapshot, those that were there, or a mixture.  A server
\* that came up meanwhile is out of its reach.
BeginApply == server' = [server EXCEPT !.half = TRUE]
EndApply(shape) ==
    server' = IF server.half THEN [server EXCEPT !.half = FALSE, !.shape = shape]
              ELSE server

-----------------------------------------------------------------------------
\* `tmux-recover save` and `tmux-recover restore`.

SaveStarts ==
    /\ cli = "idle" /\ Act /\ cli' = "save"
    /\ UNCHANGED <<server, current, lock, watcher, plan, broken, deaths>>

FaultySaveCaptures ==
    /\ cli = "save"
    /\ plan' = server /\ cli' = "commit"
    /\ UNCHANGED <<server, current, lock, watcher, broken, changes, deaths>>
SaveCaptures ==
    /\ cli = "save" /\ Take("cli")
    /\ plan' = server /\ cli' = "commit"
    /\ UNCHANGED <<server, current, watcher, broken, changes, deaths>>

SaveCommits ==
    /\ cli = "commit" /\ Leave("cli")
    /\ Publish(plan) /\ cli' = "idle"
    /\ UNCHANGED <<server, watcher, plan, broken, changes, deaths>>

\* Loads the snapshot, captures the target and asks, all before the lock.
RestoreStarts ==
    /\ cli = "idle" /\ current.loads /\ Act
    /\ plan' = [server EXCEPT !.shape = current.shape] /\ cli' = "restore"
    /\ UNCHANGED <<server, current, lock, watcher, broken, deaths>>

RestoreBegins ==
    /\ cli = "restore" /\ Take("cli")
    /\ BeginApply /\ cli' = "apply"
    /\ UNCHANGED <<current, watcher, plan, broken, changes, deaths>>

\* Success brings the snapshot, failure the old sessions or a mixture.
RestoreEnds ==
    /\ cli = "apply" /\ Leave("cli") /\ cli' = "idle"
    /\ \/ EndApply(plan.shape) /\ UNCHANGED deaths
       \/ Fault /\ \E s \in Shapes : EndApply(s)
    /\ UNCHANGED <<current, watcher, plan, broken, changes>>

ManualDies ==
    /\ cli # "idle" /\ Fault
    /\ broken' = IF cli = "apply" THEN broken \cup {server.gen} ELSE broken
    /\ Leave("cli") /\ cli' = "idle"
    /\ UNCHANGED <<server, current, watcher, plan, changes>>

-----------------------------------------------------------------------------
\* The watcher starts.  daemon.lock admits one at a time.

Start ==
    /\ pc = "off"
    /\ initial' = server /\ applied' = FALSE /\ outcome' = "none"
    /\ protected' = 0 /\ source' = 0 /\ found' = current.id
    /\ Goto("protect")
    /\ UNCHANGED <<server, current, lock, cap, manual, broken, changes, deaths>>

\* bootstrap_current_to_preserve reads the pointer, and the body afterwards.
ReadPointer ==
    /\ pc = "protect"
    /\ IF AutoRestore /\ IsBootstrap(initial) /\ current.id # 0
       THEN Goto("compare") /\ protected' = current.id
       ELSE Goto("auto") /\ UNCHANGED protected
    /\ UNCHANGED <<server, current, lock, begun, source, cap, outcome, applied, manual,
                   broken, changes, deaths>>

ReadBody ==
    /\ pc = "compare"
    /\ protected' = IF current.loads /\ current.gen # initial.gen THEN protected ELSE 0
    /\ Goto("auto")
    /\ UNCHANGED <<server, current, lock, begun, source, cap, outcome, applied, manual,
                   broken, changes, deaths>>

-----------------------------------------------------------------------------
\* auto_restore.  Ok(true) is "restored", Ok(false) "skipped"; "untouched" and
\* "mutated" are its two errors.  Only a restore lifts the protection.
FaultyAutoEnds(o) ==
    /\ outcome' = o
    /\ protected' = IF o = "skipped" THEN protected ELSE 0
    /\ Goto("hooks")
AutoEnds(o) ==
    /\ outcome' = o
    /\ protected' = IF o \in {"restored", "mutated"} THEN 0 ELSE protected
    /\ Goto("hooks")

\* Whether the pane shows the default shell at an instant is left open: a
\* bootstrap may have to settle, or never does.
AutoCheck ==
    /\ pc = "auto"
    /\ \/ /\ ~AutoRestore \/ current.id = 0
          /\ AutoEnds("skipped") /\ UNCHANGED source
       \/ /\ AutoRestore /\ current.id # 0 /\ ~current.loads
          /\ AutoEnds("untouched") /\ UNCHANGED source
       \/ /\ AutoRestore /\ current.loads
          /\ current.gen = initial.gen \/ ~IsBootstrap(initial)
          /\ AutoEnds("skipped") /\ UNCHANGED source
       \/ /\ AutoRestore /\ current.loads
          /\ current.gen # initial.gen /\ IsBootstrap(initial)
          /\ source' = current.id
          /\ Goto("lock") \/ Goto("settle")
          /\ UNCHANGED <<outcome, protected>>
    /\ UNCHANGED <<server, current, lock, begun, cap, applied, manual, broken, changes,
                   deaths>>

\* The settle loop recaptures until the shell shows, the server is no longer a
\* bootstrap, or its deadline passes.
Settle ==
    /\ pc = "settle"
    /\ \/ AutoEnds("skipped")
       \/ IsBootstrap(server) /\ Goto("lock") /\ UNCHANGED <<outcome, protected>>
    /\ UNCHANGED <<server, current, lock, begun, source, cap, applied, manual, broken,
                   changes, deaths>>

\* Under the lock current is loaded again and the server captured again.
FaultyMayRestore ==
    current.gen # server.gen /\ IsBootstrap(server)
MayRestore ==
    /\ current.id = source
    /\ server.gen = initial.gen /\ current.gen # server.gen
    /\ IsBootstrap(server)

AutoRestoreBegins ==
    /\ pc = "lock"
    /\ \/ /\ current.loads /\ MayRestore
          /\ Take("watcher") /\ Goto("prepare")
          /\ UNCHANGED <<outcome, protected>>
       \/ /\ lock = "free" /\ current.loads
          /\ AutoEnds("skipped") /\ UNCHANGED lock
       \/ /\ lock = "free" /\ ~current.loads
          /\ AutoEnds("untouched") /\ UNCHANGED lock
    /\ UNCHANGED <<server, current, begun, source, cap, applied, manual, broken,
                   changes, deaths>>

\* Preflight, the safety snapshot, its retention pass or the connection.
PrepareFails ==
    /\ pc = "prepare" /\ Fault
    /\ AutoEnds("untouched") /\ Leave("watcher")
    /\ UNCHANGED <<server, current, begun, source, cap, applied, manual, broken,
                   changes>>

ApplyBegins ==
    /\ pc = "prepare"
    /\ BeginApply
    /\ applied' = TRUE
    /\ Goto("apply")
    /\ UNCHANGED <<current, lock, begun, protected, source, cap, outcome, manual, broken,
                   changes, deaths>>

\* The report is written before the status of apply() is looked at; when that
\* write fails the error counts as one of a server left untouched.
ApplyEnds ==
    /\ pc = "apply" /\ Leave("watcher")
    /\ \/ /\ server.half /\ EndApply(current.shape)
          /\ AutoEnds("restored") /\ UNCHANGED deaths
       \/ ~server.half /\ UNCHANGED server /\ AutoEnds("mutated") /\ UNCHANGED deaths
       \/ Fault /\ \E s \in Shapes : EndApply(s) /\ AutoEnds("mutated")
       \/ Fault /\ \E s \in Shapes : EndApply(s) /\ AutoEnds("untouched")
    /\ UNCHANGED <<current, begun, source, cap, applied, manual, broken, changes>>

-----------------------------------------------------------------------------
\* Hooks, the first save, and the loop.

HooksInstalled ==
    /\ pc = "hooks" /\ Goto("first")
    /\ UNCHANGED <<server, current, lock, begun, protected, source, cap, outcome,
                   applied, manual, broken, changes, deaths>>

\* A hook event or a tick of the poll, after which the timer has run out.
TimerFires ==
    /\ pc = "watch" /\ Goto("due")
    /\ UNCHANGED <<server, current, lock, begun, protected, source, cap, outcome,
                   applied, manual, broken, changes, deaths>>

Capture ==
    /\ pc \in {"first", "due"} /\ Take("watcher")
    /\ cap' = server
    /\ Goto(IF pc = "first" THEN "firstsave" ELSE "save")
    /\ UNCHANGED <<server, current, begun, protected, source, outcome, applied, manual,
                   broken, changes, deaths>>

\* save_captured, and what run() makes of its outcome.
FaultyKeeps == protected # 0 /\ current.id = protected
Keeps == IsBootstrap(cap) /\ protected # 0 /\ current.id = protected

SaveCaptured ==
    /\ pc \in {"firstsave", "save"} /\ Leave("watcher")
    /\ IF Keeps THEN UNCHANGED <<current, protected>>
       ELSE Publish(cap) /\ protected' = 0
    /\ Goto("watch")
    /\ UNCHANGED <<server, begun, source, cap, outcome, applied, manual, broken,
                   changes, deaths>>

\* An error of the first save ends the process, a later one is logged.  The
\* error may come after the pointer was replaced (the retention pass).
SaveFails ==
    /\ pc \in {"firstsave", "save"} /\ Fault /\ Leave("watcher")
    /\ UNCHANGED current \/ (~Keeps /\ Publish(cap))
    /\ Goto(IF pc = "firstsave" THEN "off" ELSE "watch")
    /\ UNCHANGED <<server, begun, protected, source, cap, outcome, applied, manual,
                   broken, changes>>

\* Stop and Reload, which leave the loop only between two saves.
Stop ==
    /\ pc = "watch" /\ Act /\ Goto("off")
    /\ UNCHANGED <<server, current, lock, begun, protected, source, cap, outcome,
                   applied, manual, broken, deaths>>

\* Killed, or SIGTERM before the loop, where no handler is installed yet.
WatcherDies ==
    /\ pc # "off" /\ Fault
    /\ broken' = IF pc = "apply" THEN broken \cup {server.gen} ELSE broken
    /\ Leave("watcher") /\ Goto("off")
    /\ UNCHANGED <<server, current, begun, protected, source, cap, outcome, applied,
                   manual, changes>>

-----------------------------------------------------------------------------
Startup ==
    \/ ReadPointer \/ ReadBody \/ AutoCheck \/ Settle \/ AutoRestoreBegins
    \/ ApplyBegins \/ ApplyEnds \/ HooksInstalled
Saving == TimerFires \/ Capture \/ SaveCaptured
Manual == SaveCaptures \/ SaveCommits \/ RestoreBegins \/ RestoreEnds

Next ==
    \/ \E s \in Shapes : UserChange(s)
    \/ ServerRestart \/ Damage
    \/ SaveStarts \/ RestoreStarts \/ Manual \/ ManualDies
    \/ Start \/ Startup \/ Saving
    \/ PrepareFails \/ SaveFails \/ Stop \/ WatcherDies

Spec == Init /\ [][Next]_vars

\* Processes that run go on: the executor polls every ready future, a command
\* of the user comes to its end, and the poll timer ticks for ever.
LiveSpec == Spec /\ WF_vars(Startup \/ Saving) /\ WF_vars(Manual)

-----------------------------------------------------------------------------
\* The values every variable can take, and who holds the mutation lock when.
TypeOK ==
    /\ server \in Servers /\ initial \in Servers /\ cap \in Servers /\ plan \in Servers
    /\ current \in Snapshots
    /\ pc \in {"off", "protect", "compare", "auto", "settle", "lock", "prepare", "apply",
               "hooks", "first", "firstsave", "watch", "due", "save"}
    /\ protected \in 0 .. MaxIds /\ source \in 0 .. MaxIds /\ found \in 0 .. MaxIds
    /\ outcome \in {"none", "restored", "skipped", "untouched", "mutated"}
    /\ applied \in BOOLEAN
    /\ cli \in {"idle", "save", "commit", "restore", "apply"}
    /\ lock \in {"free", "watcher", "cli"}
    /\ lock = "watcher" <=> pc \in {"prepare", "apply", "firstsave", "save"}
    /\ lock = "cli" <=> cli \in {"commit", "apply"}
    /\ broken \subseteq 1 .. MaxGen
    /\ changes \in 0 .. MaxChanges /\ deaths \in 0 .. MaxDeaths

\* A watcher that started on a bootstrap of a new server and never ran apply()
\* does not replace the readable snapshot of an earlier server by a bootstrap
\* of the one it started on: shell detection that times out, a preflight or a
\* safety snapshot that fails leave the user's last session reachable as
\* `current`, whatever manual commands and restarts happen in between
\* (docs/architecture.md:174-180, the `protected_current` of run()).
PreviousCurrentStays ==
    [][ /\ pc \in {"firstsave", "save"}
        /\ AutoRestore /\ ~applied /\ IsBootstrap(initial)
        /\ current.loads /\ current.gen < initial.gen /\ current.id = found
        /\ current' # current /\ current'.loads
        => ~(IsBootstrap(current') /\ current'.gen = initial.gen) ]_vars

\* What a restore was in the middle of building is never published as current,
\* by the autosave or by a manual save, unless the restore itself died and left
\* the server like that: captures that lead to a commit wait for the mutation
\* lock that every restore holds to its end (daemon.rs:532-535, main.rs:718).
HalfRestoredNeverCurrent == current.half => current.gen \in broken

\* While automatic restore prepares and runs, what it restores is still the
\* snapshot it chose, no save or restore has come in between, and that snapshot
\* belongs to another server than the one it started on.
AutoRestoreStillWanted ==
    pc \in {"prepare", "apply"} /\ current.loads =>
        current.id = source /\ current.gen # initial.gen

\* An outcome reported as "server unchanged" means that apply() was not run
\* (the comment of AutoRestoreError::ServerUntouched, daemon.rs:431).
UntouchedMeansUntouched == outcome = "untouched" => ~applied

\* The watcher keeps the previous current of an unresolved bootstrap.
Preserving == current.id # 0 /\ current.id = protected /\ IsBootstrap(server)
Running == pc \in {"hooks", "first", "firstsave", "watch", "due", "save"}

\* A watcher that keeps running, when users, servers and faults come to rest,
\* ends with a current snapshot of the live server, or goes on preserving the
\* previous one of an unresolved bootstrap: the protection does not stop
\* autosave once the server has real structure.
AutosaveCatchesUp ==
    <>[]Running => <>[](Describes(current, server) \/ Preserving)
=============================================================================
