---------------------------- MODULE SnapshotStore ----------------------------
(***************************************************************************)
(* The recovery store of one tmux socket (storage.rs) and the commands     *)
(* that mutate it: `save`, `pin`, `unpin`, `restore` (main.rs) and the     *)
(* daemon's autosave (daemon.rs).  Every mutation runs under the blocking  *)
(* flock on mutation.lock; what a command reads before it asks for the     *)
(* lock is read without it.  Each step below is one file operation that is *)
(* atomic on disk, so a process may die, a file operation may fail and the *)
(* machine may lose power between any two of them.  Bodies, the pointer    *)
(* and the sidecar are renamed and synced in two steps; a marker, and the  *)
(* removal of a disabled sidecar, is one step with its sync.               *)
(*                                                                         *)
(* Data abstraction.  A snapshot body is identified by the position of its *)
(* capture in `snaps` (ids are timestamps; the clock is monotone here, see *)
(* Retention for a clock that is not).  What a capture says of the tmux    *)
(* server is its generation (Origin), its structure (structural hash) and  *)
(* `ver`, the logical time of the capture.                                 *)
(***************************************************************************)
EXTENDS Naturals, Sequences, FiniteSets

CONSTANTS
    Clients,         \* CLI processes that may run at the same time
    Daemon,          \* the watcher process of this socket
    Shapes,          \* structures a server can have
    Boot,            \* the one-session/one-window/one-pane bootstrap
    ClientOps,       \* the commands the CLI processes run
    NoProcesses,     \* writers configured with an empty process allowlist
    GuardBootstrap,  \* the daemon may pass a protected current (restore.auto)
    Recent,          \* retention.recent
    SafetyKeep,      \* retention.safety_snapshots
    KeepsPeriods,    \* retention.hourly_days or retention.daily_days is not 0
    MaxSnaps,        \* bound: snapshots ever created
    MaxVer,          \* bound: changes of the tmux server made by its users
    MaxFaults        \* bound: deaths, failed writes, damages, power losses

NoWriter == "nobody"
Writers == Clients \cup {Daemon}

StoreAssumption ==
    /\ Daemon \notin Clients /\ NoWriter \notin Writers
    /\ Boot \in Shapes
    /\ NoProcesses \subseteq Writers
    /\ ClientOps \subseteq {"save", "labelled", "initial", "pin", "unpin", "restore"}
    /\ GuardBootstrap \in BOOLEAN
    /\ {Recent, SafetyKeep, MaxSnaps, MaxVer, MaxFaults} \subseteq Nat
    /\ KeepsPeriods \in BOOLEAN

ASSUME StoreAssumption

VARIABLES
    server,    \* the live tmux server: what a capture taken now would say
    snaps,     \* every snapshot ever created, in order of creation
    bodies,    \* ids with a file in snapshots/
    bad,       \* ids whose body is damaged: loading it fails
    ptr,       \* the id current.json names, 0 when there is no pointer
    pins,      \* ids with a marker in pins/
    safety,    \* ids with a marker in safety/
    cp,        \* process-current.json
    durable,   \* what fsync has made permanent of bodies, ptr and cp
    torn,      \* a writer died between a rename and the fsync that follows it
    req,       \* the command each process has under way, as it asked the lock
    holder,    \* the process that holds mutation.lock
    step,      \* the next file operation of the holder
    cap,       \* the holder's capture
    new,       \* the id the holder writes, or the current id it found unchanged
    doomed,    \* ids prune has decided to remove and not removed yet
    expired,   \* safety markers prune has decided to remove and not removed yet
    faults,    \* faults so far
    lastSaved  \* history: the capture of the last save that reported success

disk  == <<snaps, bodies, ptr, pins, safety, cp, durable>>
crit  == <<cap, new, doomed, expired>>
vars  == <<server, snaps, bodies, bad, ptr, pins, safety, cp, durable, torn,
           req, holder, step, cap, new, doomed, expired, faults, lastSaved>>

-----------------------------------------------------------------------------
Captures == [gen : Nat, shape : Shapes, ver : Nat]
NoCapture == [gen |-> 0, shape |-> Boot, ver |-> 0]
Checkpoints == [base : Nat, gen : Nat, shape : Shapes, ver : Nat]
NoCheckpoint == [base |-> 0, gen |-> 0, shape |-> Boot, ver |-> 0]

\* `id` is the snapshot of pin/unpin (0 selects "current") and restore, and
\* the protected_current argument of an autosave (0 is None).
Ops == {"none", "save", "labelled", "initial", "autosave", "pin", "unpin", "restore"}
Requests == [op : Ops, pin : BOOLEAN, replace : BOOLEAN, id : Nat, target : Captures]
Idle == [op |-> "none", pin |-> FALSE, replace |-> FALSE, id |-> 0, target |-> NoCapture]

Steps == {"free", "enter", "capture", "commit", "syncBody", "pointer", "syncPointer",
          "pin", "pinCurrent", "mark", "prune", "remove", "syncRemoved", "unmark",
          "apply", "checkpoint", "syncCheckpoint", "marker"}

Command == req[holder]
Loadable(i) == i \in bodies \ bad
WritesCheckpoint(w) == w \notin NoProcesses

\* Definitions whose name starts with Faulty are used by no specification: each
\* is the definition that follows it with one plausible mistake, to show that
\* the properties can fail.

FaultyNewId == Len(snaps) + 2
NewId == Len(snaps) + 1

\* Dedup compares the origin too, and trusts the current body, not the pointer.
FaultyStructureOnly(c) == ptr # 0 /\ Loadable(ptr) /\ snaps[ptr].shape = c.shape
FaultyPointerOnly(c) ==
    ptr # 0 /\ snaps[ptr].gen = c.gen /\ snaps[ptr].shape = c.shape
CurrentMatches(c) ==
    /\ ptr # 0 /\ Loadable(ptr)
    /\ snaps[ptr].gen = c.gen /\ snaps[ptr].shape = c.shape

FaultyStoreEmpty == ptr = 0
StoreEmpty == ptr = 0 /\ bodies = {}

-----------------------------------------------------------------------------
\* Retention.  Entries with an unreadable identity are left alone (damage that
\* spares the identity, and so leaves an entry, is not told apart).  `spaced`
\* stands for whatever the hourly and daily classes keep (module Retention): with
\* either of them, the newest entry among others, which represents its hour or day.
Entries == bodies \ bad
Newest(S, k) == {i \in S : Cardinality({j \in S : j > i}) < k}
SafetyEntries == Entries \cap safety
FaultyKeptPruningCurrent(spaced) ==
    Newest(SafetyEntries, SafetyKeep) \cup Newest(Entries, Recent) \cup spaced
        \cup (Entries \cap pins)
FaultyKeptPruningSafety(spaced) ==
    Newest(Entries, Recent) \cup spaced \cup (Entries \cap (pins \cup {ptr}))
Kept(spaced) ==
    Newest(SafetyEntries, SafetyKeep) \cup Newest(Entries, Recent) \cup spaced
        \cup (Entries \cap (pins \cup {ptr}))
Expired == SafetyEntries \ Newest(SafetyEntries, SafetyKeep)

\* The snapshot a command has just written is the newest entry.
MayRepresent(spaced) == KeepsPeriods => Entries \cap {new} \subseteq spaced

-----------------------------------------------------------------------------
Init ==
    /\ server = [gen |-> 1, shape |-> Boot, ver |-> 1]
    /\ snaps = <<>>
    /\ bodies = {} /\ bad = {}
    /\ ptr = 0
    /\ pins = {} /\ safety = {}
    /\ cp = NoCheckpoint
    /\ durable = [bodies |-> {}, ptr |-> 0, cp |-> NoCheckpoint]
    /\ torn = FALSE
    /\ req = [w \in Writers |-> Idle]
    /\ holder = NoWriter /\ step = "free"
    /\ cap = NoCapture /\ new = 0 /\ doomed = {} /\ expired = {}
    /\ faults = 0
    /\ lastSaved = NoCapture

-----------------------------------------------------------------------------
\* The tmux server and its users.

UserChange(s) ==
    /\ server.ver < MaxVer /\ s # server.shape
    /\ server' = [server EXCEPT !.shape = s, !.ver = @ + 1]
    /\ UNCHANGED <<disk, bad, torn, req, holder, step, crit, faults, lastSaved>>

ServerRestart ==
    /\ server.ver < MaxVer
    /\ server' = [gen |-> server.gen + 1, shape |-> Boot, ver |-> server.ver + 1]
    /\ UNCHANGED <<disk, bad, torn, req, holder, step, crit, faults, lastSaved>>

-----------------------------------------------------------------------------
\* Commands, up to the point where they ask for the lock.

\* Every command under way may still create one snapshot.
Room == Len(snaps) + Cardinality({w \in Writers : req[w] # Idle}) < MaxSnaps

Ask(w, r) ==
    /\ req[w] = Idle /\ Room
    /\ req' = [req EXCEPT ![w] = r]
    /\ UNCHANGED <<server, disk, bad, torn, holder, step, crit, faults, lastSaved>>

StartSave(w) ==
    \E op \in ClientOps \cap {"save", "labelled", "initial"}, pin \in BOOLEAN :
        /\ op = "initial" => ~pin
        /\ Ask(w, [Idle EXCEPT !.op = op, !.pin = pin])

StartPin(w) ==
    \E op \in ClientOps \cap {"pin", "unpin"}, i \in bodies \cup {0} :
        Ask(w, [Idle EXCEPT !.op = op, !.id = i])

\* A target that is not a bootstrap needs --replace.  Every other objection
\* (another origin, a missing directory) ends the command before it has changed
\* anything: such a command is one that was never started.
PassesPreflight(replace) == server.shape = Boot \/ replace

\* restore() loads its source, captures its target and runs the preflight gate
\* before it asks for the lock.
StartRestore(w) ==
    /\ "restore" \in ClientOps
    /\ \E i \in bodies, replace \in BOOLEAN :
        /\ Loadable(i)
        /\ PassesPreflight(replace)
        /\ Ask(w, [Idle EXCEPT !.op = "restore", !.id = i, !.replace = replace,
                               !.target = server])

\* save_if_changed(.., protected_current): the id was read without the lock.
StartAutosave ==
    \E i \in IF GuardBootstrap THEN {0, ptr} ELSE {0} :
        Ask(Daemon, [Idle EXCEPT !.op = "autosave", !.id = i])

Acquire(w) ==
    /\ holder = NoWriter /\ req[w] # Idle
    /\ holder' = w
    /\ step' = IF req[w].op \in {"pin", "unpin"} THEN "marker" ELSE "enter"
    /\ UNCHANGED <<server, disk, bad, torn, req, crit, faults, lastSaved>>

-----------------------------------------------------------------------------
\* The critical section.

\* What every way out of a command has in common: the lock is released.
Leave ==
    /\ holder' = NoWriter /\ step' = "free"
    /\ req' = [req EXCEPT ![holder] = Idle]
    /\ cap' = NoCapture /\ new' = 0 /\ doomed' = {} /\ expired' = {}

Goto(s) == step' = s /\ UNCHANGED <<req, holder>>

SaveOps == {"save", "labelled", "initial", "autosave"}

\* A save that published or confirmed its capture reports success.
Succeed ==
    /\ Leave
    /\ lastSaved' = IF Command.op \in SaveOps THEN cap ELSE lastSaved

\* remove_process_checkpoint_if_disabled; only the daemon carries on when the
\* removal fails.
DropDisabledCheckpoint ==
    \/ /\ WritesCheckpoint(holder) \/ cp = NoCheckpoint
       /\ UNCHANGED <<cp, durable, faults>>
    \/ /\ ~WritesCheckpoint(holder) /\ cp # NoCheckpoint
       /\ cp' = NoCheckpoint
       /\ durable' = [durable EXCEPT !.ptr = ptr, !.cp = NoCheckpoint]
       /\ UNCHANGED faults
    \/ /\ ~WritesCheckpoint(holder) /\ cp # NoCheckpoint
       /\ Command.op = "autosave" /\ faults < MaxFaults
       /\ faults' = faults + 1
       /\ UNCHANGED <<cp, durable>>

AlreadyInitialized == Command.op = "initial" /\ ~StoreEmpty

\* A restore commits the capture it took before it asked for the lock.
Proceed ==
    /\ \/ Command.op = "restore" /\ Goto("commit") /\ cap' = Command.target
       \/ Command.op # "restore" /\ Goto("capture") /\ UNCHANGED cap
    /\ UNCHANGED <<new, doomed, expired>>

Enter ==
    /\ step = "enter"
    /\ DropDisabledCheckpoint
    /\ \/ AlreadyInitialized /\ Leave
       \/ ~AlreadyInitialized /\ Proceed
    /\ UNCHANGED <<server, snaps, bodies, ptr, pins, safety, bad, torn, lastSaved>>

\* A capture taken before the lock may be as old as any that was published.
FaultyCapture ==
    /\ step = "capture"
    /\ cap' \in {server} \cup {snaps[i] : i \in 1 .. Len(snaps)}
    /\ Goto("commit")
    /\ UNCHANGED <<server, disk, bad, torn, new, doomed, expired, faults, lastSaved>>

Capture ==
    /\ step = "capture"
    /\ cap' = server
    /\ Goto("commit")
    /\ UNCHANGED <<server, disk, bad, torn, new, doomed, expired, faults, lastSaved>>

FaultyUnguarded == FALSE
ProtectedBootstrap ==
    /\ Command.op = "autosave" /\ cap.shape = Boot
    /\ Command.id # 0 /\ ptr = Command.id

\* The watcher leaves the previous current alone while the new server is still
\* an unresolved bootstrap.
SkipProtected ==
    /\ step = "commit" /\ ProtectedBootstrap
    /\ Leave
    /\ UNCHANGED <<server, disk, bad, torn, faults, lastSaved>>

Dedups == Command.op \in {"save", "initial", "autosave"} /\ CurrentMatches(cap)

\* The autosave refreshes the sidecar when its interval has elapsed or it
\* belongs to another snapshot; a manual save always does.
Unchanged ==
    /\ step = "commit" /\ ~ProtectedBootstrap /\ Dedups
    /\ \/ /\ WritesCheckpoint(holder)
          /\ Goto(IF Command.pin THEN "pinCurrent" ELSE "checkpoint")
          /\ new' = ptr
          /\ UNCHANGED <<cap, doomed, expired, lastSaved>>
       \/ /\ ~WritesCheckpoint(holder) /\ Command.pin
          /\ Goto("pinCurrent")
          /\ new' = ptr
          /\ UNCHANGED <<cap, doomed, expired, lastSaved>>
       \/ /\ ~Command.pin
          /\ \/ ~WritesCheckpoint(holder)
             \/ Command.op = "autosave" /\ cp.base = ptr
          /\ Succeed
    /\ UNCHANGED <<server, disk, bad, torn, faults>>

WriteBody ==
    /\ step = "commit" /\ ~ProtectedBootstrap /\ ~Dedups
    /\ snaps' = Append(snaps, cap)
    /\ new' = NewId
    /\ bodies' = bodies \cup {new'}
    /\ Goto("syncBody")
    /\ UNCHANGED <<server, ptr, pins, safety, cp, durable, bad, torn, cap, doomed,
                   expired, faults, lastSaved>>

FaultySyncBody ==
    /\ step = "syncBody"
    /\ Goto(IF Command.op = "restore" THEN "mark" ELSE "pointer")
    /\ UNCHANGED <<server, disk, bad, torn, crit, faults, lastSaved>>

SyncBody ==
    /\ step = "syncBody"
    /\ durable' = [durable EXCEPT !.bodies = bodies]
    /\ Goto(IF Command.op = "restore" THEN "mark" ELSE "pointer")
    /\ UNCHANGED <<server, snaps, bodies, ptr, pins, safety, cp, bad, torn, crit,
                   faults, lastSaved>>

WritePointer ==
    /\ step = "pointer"
    /\ ptr' = new
    /\ Goto("syncPointer")
    /\ UNCHANGED <<server, snaps, bodies, pins, safety, cp, durable, bad, torn, crit,
                   faults, lastSaved>>

SyncPointer ==
    /\ step = "syncPointer"
    /\ durable' = [durable EXCEPT !.ptr = ptr, !.cp = cp]
    /\ torn' = FALSE
    /\ Goto(IF Command.pin THEN "pin" ELSE "prune")
    /\ UNCHANGED <<server, snaps, bodies, ptr, pins, safety, cp, bad, crit, faults,
                   lastSaved>>

\* The last thing a save does is to write the sidecar.
AfterStructure ==
    IF WritesCheckpoint(holder)
    THEN Goto("checkpoint") /\ UNCHANGED <<crit, lastSaved>>
    ELSE Succeed

PinSaved ==
    /\ step \in {"pin", "pinCurrent"} /\ Loadable(new)
    /\ pins' = pins \cup {new}
    /\ IF step = "pin" THEN Goto("prune") /\ UNCHANGED <<crit, lastSaved>>
                       ELSE AfterStructure
    /\ UNCHANGED <<server, snaps, bodies, ptr, safety, cp, durable, bad, torn, faults>>

MarkSafety ==
    /\ step = "mark" /\ Loadable(new)
    /\ safety' = safety \cup {new}
    /\ Goto("prune")
    /\ UNCHANGED <<server, snaps, bodies, ptr, pins, cp, durable, bad, torn, crit,
                   faults, lastSaved>>

DecidePrune ==
    /\ step = "prune"
    /\ \E spaced \in SUBSET Entries :
        MayRepresent(spaced) /\ doomed' = Entries \ Kept(spaced)
    /\ expired' = Expired
    /\ Goto(IF doomed' = {} THEN "unmark" ELSE "remove")
    /\ UNCHANGED <<server, disk, bad, torn, cap, new, faults, lastSaved>>

\* Files are removed one at a time, newest first, then the directory is synced.
RemoveBody ==
    /\ step = "remove"
    /\ \E i \in doomed :
        /\ \A j \in doomed : j <= i
        /\ bodies' = bodies \ {i}
        /\ doomed' = doomed \ {i}
    /\ Goto(IF doomed' = {} THEN "syncRemoved" ELSE "remove")
    /\ UNCHANGED <<server, snaps, ptr, pins, safety, cp, durable, bad, torn, cap, new,
                   expired, faults, lastSaved>>

SyncRemoved ==
    /\ step = "syncRemoved"
    /\ durable' = [durable EXCEPT !.bodies = bodies]
    /\ Goto("unmark")
    /\ UNCHANGED <<server, snaps, bodies, ptr, pins, safety, cp, bad, torn, crit,
                   faults, lastSaved>>

UnmarkExpired ==
    /\ step = "unmark" /\ expired # {}
    /\ \E i \in expired :
        /\ \A j \in expired : j <= i
        /\ safety' = safety \ {i}
        /\ expired' = expired \ {i}
    /\ Goto("unmark")
    /\ UNCHANGED <<server, snaps, bodies, ptr, pins, cp, durable, bad, torn, cap, new,
                   doomed, faults, lastSaved>>

AfterPrune ==
    /\ step = "unmark" /\ expired = {}
    /\ IF Command.op = "restore" THEN Goto("apply") /\ UNCHANGED <<crit, lastSaved>>
                                 ELSE AfterStructure
    /\ UNCHANGED <<server, disk, bad, torn, faults>>

\* apply() over a connection opened now, to whatever server listens on the
\* socket: restored, rolled back, or something in between (module RestoreTx).
ApplyRestore ==
    /\ step = "apply"
    /\ \/ UNCHANGED server
       \/ \E s \in Shapes :
             server' = [server EXCEPT !.shape = s, !.ver = @ + 1]
    /\ Succeed
    /\ UNCHANGED <<disk, bad, torn, faults>>

WriteCheckpoint ==
    /\ step = "checkpoint"
    /\ cp' = [base |-> new, gen |-> cap.gen, shape |-> cap.shape, ver |-> cap.ver]
    /\ Goto("syncCheckpoint")
    /\ UNCHANGED <<server, snaps, bodies, ptr, pins, safety, durable, bad, torn, crit,
                   faults, lastSaved>>

SyncCheckpoint ==
    /\ step = "syncCheckpoint"
    /\ durable' = [durable EXCEPT !.ptr = ptr, !.cp = cp]
    /\ Succeed
    /\ UNCHANGED <<server, snaps, bodies, ptr, pins, safety, cp, bad, torn, faults>>

\* After a commit the daemon only warns when the sidecar cannot be written.
CheckpointFails ==
    /\ step = "checkpoint" /\ Command.op = "autosave" /\ faults < MaxFaults
    /\ faults' = faults + 1
    /\ Succeed
    /\ UNCHANGED <<server, disk, bad, torn>>

\* pin and unpin resolve and load the snapshot under the lock.
WriteMarker ==
    /\ step = "marker"
    /\ LET i == IF Command.id = 0 THEN ptr ELSE Command.id IN
        /\ Loadable(i)
        /\ pins' = IF Command.op = "pin" THEN pins \cup {i} ELSE pins \ {i}
    /\ Succeed
    /\ UNCHANGED <<server, snaps, bodies, ptr, safety, cp, durable, bad, torn, faults>>

-----------------------------------------------------------------------------
\* Faults.

\* An operation that needs a body it cannot load returns an error.
LoadFails ==
    /\ \/ step \in {"pin", "pinCurrent", "mark"} /\ ~Loadable(new)
       \/ /\ step = "marker"
          /\ ~Loadable(IF Command.id = 0 THEN ptr ELSE Command.id)
    /\ Leave
    /\ UNCHANGED <<server, disk, bad, torn, faults, lastSaved>>

\* The holder is killed, or its next operation fails and `?` returns.
HolderDies ==
    /\ holder # NoWriter /\ faults < MaxFaults
    /\ faults' = faults + 1
    /\ torn' = (torn \/ step \in {"syncBody", "syncPointer"})
    /\ Leave
    /\ UNCHANGED <<server, disk, bad, lastSaved>>

WaiterDies(w) ==
    /\ w # holder /\ req[w] # Idle /\ faults < MaxFaults
    /\ faults' = faults + 1
    /\ req' = [req EXCEPT ![w] = Idle]
    /\ UNCHANGED <<server, disk, bad, torn, holder, step, crit, lastSaved>>

Damage(i) ==
    /\ i \in bodies \ bad /\ faults < MaxFaults
    /\ faults' = faults + 1
    /\ bad' = bad \cup {i}
    /\ UNCHANGED <<server, disk, torn, req, holder, step, crit, lastSaved>>

\* Every process dies with the server.  A directory operation that no fsync has
\* confirmed may or may not have reached the disk.
PowerLoss ==
    /\ faults < MaxFaults /\ ~torn
    /\ faults' = faults + 1
    /\ server' = [gen |-> server.gen + 1, shape |-> Boot, ver |-> server.ver + 1]
    /\ \E b \in SUBSET (bodies \cup durable.bodies),
          p \in {ptr, durable.ptr}, c \in {cp, durable.cp} :
        /\ bodies \cap durable.bodies \subseteq b
        /\ bodies' = b /\ ptr' = p /\ cp' = c
        /\ durable' = [bodies |-> b, ptr |-> p, cp |-> c]
    /\ req' = [w \in Writers |-> Idle]
    /\ holder' = NoWriter /\ step' = "free"
    /\ cap' = NoCapture /\ new' = 0 /\ doomed' = {} /\ expired' = {}
    /\ UNCHANGED <<snaps, pins, safety, bad, torn, lastSaved>>

-----------------------------------------------------------------------------
HolderStep ==
    \/ Enter \/ Capture \/ SkipProtected \/ Unchanged \/ WriteBody \/ SyncBody
    \/ WritePointer \/ SyncPointer \/ PinSaved \/ MarkSafety \/ DecidePrune
    \/ RemoveBody \/ SyncRemoved \/ UnmarkExpired \/ AfterPrune \/ ApplyRestore
    \/ WriteCheckpoint \/ SyncCheckpoint \/ WriteMarker \/ LoadFails

Next ==
    \/ \E s \in Shapes : UserChange(s)
    \/ ServerRestart
    \/ \E w \in Clients : StartSave(w) \/ StartPin(w) \/ StartRestore(w)
    \/ StartAutosave
    \/ \E w \in Writers : Acquire(w) \/ WaiterDies(w)
    \/ HolderStep
    \/ CheckpointFails
    \/ HolderDies
    \/ \E i \in bodies : Damage(i)
    \/ PowerLoss

Spec == Init /\ [][Next]_vars

\* A process that holds the lock keeps running (HolderStep), the daemon's poll
\* timer keeps firing (StartAutosave) and the kernel does not pass the daemon
\* over for ever when the lock is free (Acquire).  Users owe nothing.
FairSpec ==
    /\ Spec
    /\ WF_vars(HolderStep)
    /\ WF_vars(StartAutosave)
    /\ SF_vars(Acquire(Daemon))

-----------------------------------------------------------------------------
\* Properties.

Ids == 1 .. Len(snaps)

\* The values every variable can take: every id is one that was given out, and
\* the lock is held exactly while a command is between two of its steps.
TypeOK ==
    /\ server \in Captures
    /\ snaps \in Seq(Captures)
    /\ bodies \subseteq Ids /\ bad \subseteq Ids
    /\ ptr \in Ids \cup {0}
    /\ pins \subseteq Ids /\ safety \subseteq Ids
    /\ cp \in Checkpoints
    /\ durable \in [bodies : SUBSET Ids, ptr : Ids \cup {0}, cp : Checkpoints]
    /\ torn \in BOOLEAN
    /\ req \in [Writers -> Requests]
    /\ step \in Steps
    /\ holder \in IF step = "free" THEN {NoWriter} ELSE Writers
    /\ cap \in Captures
    /\ new \in Ids \cup {0}
    /\ doomed \subseteq Ids /\ expired \subseteq Ids
    /\ faults \in Nat
    /\ lastSaved \in Captures

\* current.json never names a snapshot that is not in snapshots/: not between
\* the two writes of a commit, not while prune removes files, not after a death
\* or a power loss (storage.rs commit_with, prune, atomic_write).
CurrentNamesBody == ptr # 0 => ptr \in bodies

\* What is pinned is in the store (storage.rs pin, prune); a part of StoreInv.
PinnedSurvive == pins \subseteq bodies

\* The sidecar always carries the generation and the structure of the snapshot
\* it names, so a restore of that snapshot can accept it (storage.rs
\* commit_with, the Origin comparison of dedup; restore.rs
\* checkpoint_eligibility).
CheckpointFitsBase ==
    cp.base # 0 =>
        cp.gen = snaps[cp.base].gen /\ cp.shape = snaps[cp.base].shape

\* What the last successful save captured is what current holds, unless a later
\* capture has replaced it: no other writer, retention pass or crash takes a
\* reported save back.
LastSaveIsCurrent ==
    lastSaved # NoCapture =>
        /\ ptr # 0
        /\ \/ snaps[ptr].gen = lastSaved.gen /\ snaps[ptr].shape = lastSaved.shape
           \/ snaps[ptr].ver > lastSaved.ver

\* What current and the pins name is in the store at every step, and what this rests
\* on.  A commit makes the body durable before the pointer names it and prune
\* spares what current and the pins name, so unless a writer died between a
\* rename and its fsync, all of it would survive a power loss now (storage.rs
\* commit_with, prune, pin, atomic_write).
StoreInv ==
    /\ CurrentNamesBody /\ PinnedSurvive
    /\ doomed \subseteq bodies /\ doomed \cap (pins \cup {ptr}) = {}
    /\ doomed # {} => step = "remove"
    /\ step \in {"syncBody", "pointer"} => new \in bodies
    /\ step = "syncBody" => new \notin pins \cup {ptr, durable.ptr}
    /\ step \in {"pointer", "syncPointer"} => bodies \subseteq durable.bodies
    /\ ~torn =>
        /\ bodies \subseteq
              durable.bodies \cup (IF step = "syncBody" THEN {new} ELSE {})
        /\ durable.ptr # 0 => durable.ptr \in bodies
        /\ step # "syncPointer" => durable.ptr = ptr

\* The two-file commit, retention, pins and every fault leave a reader of the store
\* what RecoveryPoint promises (storage.rs commit_with, prune, pin, atomic_write).
RP == INSTANCE RecoveryPoint WITH
        made <- Len(snaps), kept <- bodies, current <- ptr, settled <- durable.ptr,
        pinned <- pins
KeepsRecoveryPoint == RP!Spec

\* The settings under which prune spares a snapshot just written that is neither
\* current nor pinned: not all four of retention are 0.
RetainsNewest == Recent + SafetyKeep > 0 \/ KeepsPeriods

\* While a restore mutates the server its safety snapshot is in the store, unless
\* retention is configured to keep nothing at all; it is marked if any are to be,
\* and no more than the configured number of them are (main.rs restore,
\* storage.rs prune, which runs between the commit of the copy and its use).
SafetyCopyHeld ==
    step = "apply" =>
        /\ RetainsNewest => new \in bodies
        /\ SafetyKeep > 0 => new \in safety
        /\ Cardinality(SafetyEntries) <= SafetyKeep

\* current never moves back to an older capture: a delayed writer cannot
\* overtake a newer one (main.rs save, daemon.rs save_if_changed).  A power loss
\* may undo an unfinished commit; it is the only step that changes both the
\* pointer and the server.
CurrentNeverGoesBack ==
    [][ptr # 0 /\ ptr' # ptr /\ server' = server
           => ptr' # 0 /\ snaps'[ptr'].ver >= snaps[ptr].ver]_vars

\* An --if-empty save never publishes over existing history, even when the
\* pointer is the only part of it that is missing (storage.rs is_empty).
InitialSaveKeepsHistory ==
    [][ptr' # ptr /\ step = "pointer" /\ Command.op = "initial"
           => ptr = 0 /\ bodies = {new}]_vars

\* A guarded autosave never replaces the very snapshot it was told to protect
\* with a bootstrap (daemon.rs save_captured).
ProtectedCurrentStays ==
    [][ptr' # ptr /\ step = "pointer" /\ Command.op = "autosave"
        /\ Command.id # 0 /\ Command.id = ptr
           => snaps'[ptr'].shape # Boot]_vars

\* current loads and describes the live server, and the sidecar fits it.
CurrentIsFresh ==
    /\ ptr # 0 /\ Loadable(ptr)
    /\ snaps[ptr].gen = server.gen /\ snaps[ptr].shape = server.shape
    /\ WritesCheckpoint(Daemon) => cp.base = ptr

\* Once the faults and the users' changes are over, autosave leaves a current
\* that is fresh: a damaged current body or a restarted server with the same
\* structure does not go unnoticed (storage.rs commit_with, daemon.rs
\* save_captured).
CurrentCatchesUp == []<>CurrentIsFresh

\* A restore without --replace replaces nothing but a fresh bootstrap
\* (README.md:250-251; main.rs restore, restore.rs preflight).  apply() renames and
\* kills the sessions of its capture with all they hold by then; `server.shape` is
\* what those hold, and sessions opened beside them are left alone.
ReplacesOnlyBootstrap ==
    step = "apply" /\ ~Command.replace => server.shape = Boot
=============================================================================
