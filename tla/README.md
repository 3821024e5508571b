# A verification project for tmux-recover

`tmux-recover` saves the sessions of a tmux server, continuously and by hand,
and restores them after the server is gone. This directory holds TLA+ modules
that model the parts of it that are hard to test, the TLC configurations that
check them, and TLAPS proofs. Paths below are relative to the repository
(`src/…` for the Rust sources); `PROJECT.json` maps every definition to lines.

Contents: [the system](#1-the-system) ·
[the modules](#2-the-modules-and-the-code) · [the runs](#3-the-runs) ·
[fairness](#4-fairness) · [proofs](#5-what-is-proved) ·
[disagreements](#6-where-code-and-documentation-disagree) ·
[not modelled](#7-what-is-not-modelled) · [plan](#8-plan)

## 1. The system

One *watcher* process per tmux socket (`tmux-recover daemon`), any number of
command processes (`save`, `pin`, `unpin`, `restore`, `daemon --stop` …), one
*recovery store* per socket on disk, and the tmux server with its users.
Processes share the store through a blocking `flock` on `mutation.lock`; they
talk to tmux through control-mode clients; commands talk to the watcher through
a Unix socket.

| component | state | operations | interacts with | hard behaviours | correct when |
|---|---|---|---|---|---|
| Recovery store (`storage.rs`) | `snapshots/`, `current.json`, `pins/`, `safety/`, `process-current.json` | commit, pin, unpin, mark_safety, prune, checkpoint | the file system, every process | death between rename and fsync, power loss, damaged bodies, retention against pointer and pins | what current and the pins name is there; a reported save is kept; current never goes back |
| Commands (`main.rs`) | what they read before they hold the lock | save, pin, unpin, restore | store, tmux | stale captures and decisions | nothing read without the lock decides what is overwritten |
| Restore transaction (`restore.rs`) | renamed, created, switched; two connections | rename, build, switch, verify, retire, roll back, report | tmux, its users | lost replies, refused commands, users in between, name collisions, moving terminals | old or new is whole at every moment, and the report says which |
| Watcher (`daemon.rs`) | protected current, outcome of automatic restore | start, auto restore, saves, stop | store, tmux, commands | a fresh server, settling shells, concurrent manual commands, death | the previous session is not lost to a bootstrap; nothing half-restored is published; it catches up |
| Event loop and hooks (`daemon.rs`, `tmux/hooks.rs`) | pending deadline, poll, last write, waiter | hook event, poll, timer, re-arm | `tmux wait-for` | signals that meet nobody, events during a save, failed saves | changes are saved within bounded time, writes are spaced |
| Control plane (`daemon_control.rs`, `main.rs`) | listener, request tasks, pending action, channel | bind, request, acknowledge, deliver, rebind, return, re-exec | the loop, `--stop`, `--reload` | cancelled tasks, failing listeners, concurrent requests, generations | an acknowledged action happens, and only that one |
| Control connections (`tmux/control.rs`) | position in the stream, poisoned | execute, one-shot commands | tmux | hook blocks within replies, failing sequences, disconnects | a reply belongs to its command |
| Capture (`tmux/capture.rs`) | none | five list commands in one client, rows to graph | tmux hooks | hook output among results, windows linked several times, groups | the results are those of the commands; every server has a valid snapshot |
| Snapshot model (`model.rs`) | the graph of sessions, links, windows, panes | validate | capture, import, restore | – | what is valid can be restored, or is rejected before anything changes |
| Build (`restore.rs`, build_snapshot …) | new sessions and windows, maps of ids | one pass per session, window, link … | tmux and its options | base-index, renumber-windows, groups, shared windows, order of selection | what comes back is what was saved |
| Import (`import.rs`) | what the rows have said so far | one pass for windows, one for the rest | files of tmux-resurrect | truncated files, unreadable rows, groups that name missing sessions | nothing is lost in silence |
| Process inspection, config, util | none | parsing, `/proc` | – | – | pure |

The hazards of each, with the line where they bite, are in `PROJECT.json`
(`hazards`): 28 are covered by the properties below, 12 are listed with the
reason why no property covers them.

## 2. The modules and the code

Every module names its abstraction in its header. A definition called
`Faulty…` is used by no specification: it is the definition that follows it with
one plausible mistake (a dropped guard, a wrong order, a missing fsync), and
shows that a property can fail.

**SnapshotStore** (`storage.rs`, `main.rs`, the save path of `daemon.rs`). One
action per file operation of the critical section, in the order of the code:
`Enter` (drop a disabled checkpoint, test for `--if-empty`), `Capture`,
`SkipProtected` / `Unchanged` / `WriteBody`, `SyncBody`, `WritePointer`,
`SyncPointer`, `PinSaved` / `MarkSafety`, `DecidePrune`, `RemoveBody` (one file
at a time), `SyncRemoved`, `UnmarkExpired`, `AfterPrune`, `WriteCheckpoint`,
`SyncCheckpoint`, `ApplyRestore`. `StartSave`, `StartPin`, `StartRestore` and
`StartAutosave` are what a command reads before it asks for the lock. A snapshot
is its position in `snaps`, with generation (Origin), shape (structural hash) and
the logical time of the capture. `durable` is what an fsync has confirmed;
`HolderDies`, `WaiterDies`, `Damage`, `PowerLoss` and `CheckpointFails` are the
faults. Which hourly and daily representatives survive is left open here.

**RecoveryPoint** is the abstract store: snapshots are numbered as they are made,
`current` moves only to the last one made, what it or a pin names is not discarded,
and a crash brings back at worst the current that had settled. SnapshotStore
implements it with `made <- Len(snaps)`, `kept <- bodies`, `current <- ptr`,
`settled <- durable.ptr`, `pinned <- pins` (property `KeepsRecoveryPoint`): the
locking, the two-file commit, the safety markers, the checkpoint and every command
are stutters or one of its seven actions.

**Retention** (`SnapshotStore::prune`). The choice of survivors, exactly, with
hours, days and windows; a snapshot is its time stamp and the file operations are
one step.

**RestoreTx** (`restore.rs`, apply_inner and what it calls). One action per tmux
command, each carried out and confirmed, refused, or lost with its connection
(`Command`), and the actions of users between any two of them. A session is a
name and a terminal is where it is attached; windows, panes and properties are
steps that may fail. `touched` records what users changed, so that the properties
speak of what the restore did.

**AtomicReplace** is the abstract specification: old and new sessions are whole or
not; the old ones go only when the new are whole, and the report says which is
left. RestoreTx implements it under `old <- OldWhole, new <- NewWhole` (property
`KeepsPromise`).

**RoundTrip** composes capture or import, the checks, and the build: a server of
sessions, links, windows, panes and selection is saved, and built again on a server
with its own `base-index` and `renumber-windows`, one step for each pass through a
loop of `build_snapshot`, `restore_properties`, `restore_zoomed_windows` and
`restore_session_windows`. It stands on five modules of operators:

* **SnapshotModel** (`model.rs`, the checks of `restore.rs`): the graph, `Valid`
  (`TmuxState::validate`), `Restorable` (`validate_state_for_restore`), groups.
* **ControlStream** (`tmux/control.rs`, `select_capture_blocks`): replies and one-shot
  results as sequences of blocks among those of hooks.
* **Resurrect** (`import.rs`): the builder from rows to a graph; the file that
  tmux-resurrect writes about a server, and what damage leaves of it (external).
* **TmuxServer** (external): what tmux does with `new-session`, `move-window`,
  `link-window`, `kill-window`, `switch-client` and `split-window` as the build uses
  them, with the stack of last windows and the renumbering. `IsServer` says which servers
  there can be; it is all the proofs assume of one.
* **Ordering**: a finite set of indexes in its order.

**Watcher** (`daemon.rs`). The start of the watcher (`Start`, `ReadPointer`,
`ReadBody`, `AutoCheck`, `Settle`, `AutoRestoreBegins`, `ApplyBegins`,
`ApplyEnds` …), saves in two instants (`Capture`, `SaveCaptured`), and a manual
command in the same two instants, under one lock. The store is what
`current.json` names; a server is a generation, a shape, and whether a restore is
in the middle of it.

**HookEvents** (`daemon.rs` run(), `tmux/hooks.rs`). Discrete time. It does not pass
while an arm of the loop is ready, but does while a save waits and while the
process of a waiter has not reached the server. A tmux channel is modelled as tmux
implements it: a signal ends the waiters; with no waiter it is remembered, and a
second one takes it back (the comment of `wait_for_event`). Waiters that a killed
watcher leaves behind steal signals.

**ControlPlane** (`daemon_control.rs`, `daemon.rs`, `main.rs`). Generations of the
daemon, the request tasks with their acknowledge-then-deliver order and delivery on
drop, the listener that fails and is bound again while state and channel outlive
it, startup that defers the action, return, re-execution and death, and the
commands that poll for confirmation. Deadlines are left open: a poll may give up at
any time.

The modules are composed by abstraction, not by conjunction: `ApplyRestore` of
SnapshotStore and `ApplyBegins`/`ApplyEnds` of Watcher stand for RestoreTx, a
session that RestoreTx creates step by step and may fail to stands for RoundTrip (a
`refused` build there is a failed command here),
`SaveCommits` and `Publish` of Watcher for a critical section of SnapshotStore,
the open choice `spaced` of SnapshotStore for the buckets of Retention,
`TimerFires` of Watcher for HookEvents.

## 3. The runs

Deadlock is not checked: a system whose bounds are used up and whose commands have
ended has nothing left to do, and a restore of RoundTrip ends. In SnapshotStore, Watcher and
ControlPlane a stop before that point would violate the liveness properties.

| run | states | question |
|---|---|---|
| `SnapshotStore_store` | 1.2 M | two commands of any kind and the daemon; one fault anywhere |
| `SnapshotStore_live` | 0.4 M | does current catch up, with two faults and a competing command |
| `RestoreTx_tx` | 1.2 M | one failed or lost command and two acts of users anywhere in a restore |
| `Watcher_auto` | 0.3 M | a watcher with automatic restore, three servers, one death or failure |
| `ControlPlane_life` | 0.2 M | a stop and two reloads, two generations, two faults |
| `Retention_history` | 2.3 M | ten ticks of saves, restores, pins and unpins |
| `HookEvents_loop` | 1.6 M | four structures, one failure or restart, twelve ticks |
| `RoundTrip_same` | 1.1 M | five thousand servers, saved and built again |
| `SnapshotStore_gate`, `RestoreTx_names`, `Watcher_untouched`, `RoundTrip_index` | – | sentences of the documentation that the code does not keep (section 6) |

*SnapshotStore_store.* `KeepsRecoveryPoint`: the store implements RecoveryPoint, with
the faults. `StoreInv`, of which `CurrentNamesBody` and `PinnedSurvive` are parts:
what current, its durable copy and the pins name is in the store at every step.
`CheckpointFitsBase`: the process checkpoint has the generation and structure of
its base, which is why dedup compares the origin. `LastSaveIsCurrent`: a reported
save stays current until a later capture replaces it. `SafetyCopyHeld`: the safety
snapshot is there while the restore runs, unless retention is set to keep nothing
(`RetainsNewest`; the run has `recent = 0` and one safety snapshot, the theorem every setting). `CurrentNeverGoesBack`,
`InitialSaveKeepsHistory`, `ProtectedCurrentStays`: what a step may never do to the
pointer. *Bounds*: three snapshots give a current one, one to supersede and one to
prune with `recent = 0`; two versions of the server are enough for an old and a new
capture; two commands and the daemon are every pair of roles; one fault, because a
second only repeats the same recovery in a state that one fault reaches as well
(the live run has two). One process writes no checkpoints (an empty allowlist).

*RestoreTx_tx.* Two old sessions, one of whose names a new session has; three new
sessions, one of them a deferred group member; two terminals; client state that
pairs one terminal. That is the least with a collision of names, a second
iteration of every loop, and a terminal that has to move. Two acts of users: one
to take a terminal away and one to close or open a session.

*Watcher_auto.* Three servers: the one that was saved, the one the watcher starts
on, and one that replaces it meanwhile. `AutoRestore = TRUE` includes the behaviours of a
watcher without automatic restore after it has skipped.

*Retention_history.* Hours of two ticks, days of four, windows of one and two days:
snapshots pass through recent, hourly, daily and beyond within ten ticks.

`PeriodsRemembered`: an hour or a day in the window that had a snapshot has one.

*RoundTrip_same.* `HooksDoNoHarm`: no output of hooks makes a capture fail or take a
wrong block. `EveryServerFits`: what is captured or imported is valid and, without
dead panes, restorable. `LinksRestored`, `SelectionRestored`, `WindowsRestored`: what
was saved is what is built. `LossIsNoticed`: a damaged file is never imported
as if it were whole. `RefusedForKnownReasons`: the build does not fail but for three
reasons. *Bounds*: one session over every way to link two windows at three indexes, a
second session, a group of two, a group and a third session in every order of
creation, every current and last window; two windows are the least with an order, a
shared and an unshared one, three indexes leave gaps at 0 and in the middle; both
usual values of `base-index`, and `renumber-windows` on and off. One to three panes, a
window that is too small for them, zoom, dead panes, pane-base-index 0 and 1 on two
of these servers, saved in every way including a file cut at every row. Every
combination of hooks that print nothing, an empty block, text or an error behind
each of the five commands, and a capture that ends at each of them.

*HookEvents_loop.* `ChangesAreSaved` and `HeardIsSaved` bound the delay from the last
change (`since`), not from the first unsaved one: a stream of events may overwrite the
deadline for as long as it lasts, which the code allows. *Bounds*: debounce 1, minimum
interval 2, poll 3: all different, in the order of the defaults. Both delays are tight: they
are violated without their last `Debounce`, because an event just before a save
puts it off once more.

## 4. Fairness

* `FairSpec` (SnapshotStore): a holder of the lock goes on; the poll timer of the
  daemon keeps firing; `flock` does not pass the daemon over for ever (strong
  fairness, as the lock is taken and released by others in between). Users owe
  nothing, and a fault is never required.
* `LiveSpec` (Watcher): the executor polls what is ready, a manual command comes to
  its end. The property speaks of watchers that keep running.
* `LiveSpec` (ControlPlane): request tasks and the loop are polled and the startup
  transaction ends (its waits have deadlines). Neither a new process nor a command
  is required to happen.
* RestoreTx, RoundTrip, Retention and HookEvents assume none. HookEvents states its progress as
  safety (a bound on the clock), which needs only that time does not pass while the
  loop is ready.

## 5. What is proved

For every value of the constants allowed by the assumptions:

| theorem | statement |
|---|---|
| `SnapshotStore_proofs!TypeCorrect` | `Spec => []TypeOK` |
| `SnapshotStore_proofs!StoreRecoverable` | `Spec => []StoreInv` |
| `SnapshotStore_proofs!CurrentSafe` | `Spec => []CurrentNamesBody` |
| `SnapshotStore_proofs!CheckpointFits` | `Spec => []CheckpointFitsBase` |
| `SnapshotStore_proofs!ReportedStays` | `Spec => []LastSaveIsCurrent` |
| `SnapshotStore_proofs!NeverBack` | `Spec => CurrentNeverGoesBack` |
| `SnapshotStore_proofs!InitialKeeps` | `Spec => InitialSaveKeepsHistory` |
| `SnapshotStore_proofs!ProtectedStays` | `Spec => ProtectedCurrentStays` |
| `SnapshotStore_proofs!SafetyCopy` | `Spec => []SafetyCopyHeld` |
| `SnapshotStore_proofs!Refinement` | `Spec => KeepsRecoveryPoint` |
| `Watcher_proofs!TypeCorrect` | `Spec => []TypeOK` |
| `Watcher_proofs!NoMixtures` | `Spec => []HalfRestoredNeverCurrent` |
| `Watcher_proofs!StillWanted` | `Spec => []AutoRestoreStillWanted` |
| `Watcher_proofs!PreviousStays` | `Spec => PreviousCurrentStays` |
| `ControlPlane_proofs!TypeCorrect` | `Spec => []TypeOK` |
| `ControlPlane_proofs!NeverLost` | `Spec => []AcknowledgedIsKept` |
| `ControlPlane_proofs!DecidesTheEnd` | `Spec => []AcknowledgedDecides` |
| `HookEvents_proofs!TypeCorrect` | `Spec => []TypeOK` |
| `HookEvents_proofs!WritesSpaced` | `Spec => WritesAreSpaced` |
| `HookEvents_proofs!ChangesSaved` | `Spec => []ChangesAreSaved` |
| `HookEvents_proofs!HeardSaved` | `Spec => []HeardIsSaved` |
| `Retention_proofs!TypeCorrect` | `Spec => []TypeOK` |
| `Retention_proofs!NothingForgotten` | `Spec => []PeriodsRemembered` |
| `Retention_proofs!BoundHolds` | `Spec => HistoryBounded` |
| `RestoreTx_proofs!TypeCorrect` | `Spec => []TypeOK` |
| `RestoreTx_proofs!NamesRestored` | `Spec => []RestoredNames` |
| `RestoreTx_proofs!Arrivals` | `Spec => []TerminalsArrived` |
| `RestoreTx_proofs!RollbackTrue` | `Spec => []RollbackIsTrue` |
| `RestoreTx_proofs!Refinement` | `Spec => KeepsPromise` |
| `RoundTrip_proofs!HooksHarmless` | `Spec => []HooksDoNoHarm` |
| `RoundTrip_proofs!ServersFit` | `Spec => [](way = "capture" => EveryServerFits)` |
| `RoundTrip_build!TypesCorrect` | `Spec => [](way = "capture" \/ IsSnapshot(snap) => TypeOK)` |
| `RoundTrip_build!WindowsAreRestored` | `Spec => [](way = "capture" => WindowsRestored)` |
| `RoundTrip_build!LinksAreRestored` | `Spec => [](way = "capture" => LinksRestored)` |
| `RoundTrip_build!SelectionIsRestored` | `Spec => [](way = "capture" => SelectionRestored)` |
| `RoundTrip_build!RefusalsKnown` | `Spec => [](way = "capture" => RefusedForKnownReasons)` |
| `RoundTrip_build!SnapshotsAreBuilt` | `Spec => [](IsSnapshot(snap) => …)`, every build, captured or imported |

*Assumptions*: `StoreAssumption` (the daemon is not a command process, the
bootstrap is a shape, the limits of retention and the bounds are numbers, 0 included), `WatcherAssumption` (the bootstrap is a shape, the bounds are
numbers, there is at least one server), `ControlAssumption` (finitely many commands, none
of which both stops and reloads, and at least one generation), `HookAssumption` (the configured
durations are positive, which `config.rs` requires of them), `RetentionAssumption` (the
limits and windows are numbers, periods are positive, and the hourly window is not longer than the
daily one),
`RestoreAssumption` (there are sessions on both sides, no name occurs twice among the
old, the new or the backup names, the backup names are chosen unlike the others, the first session
is in no group of an earlier one, the saved clients name sessions of the snapshot, and there are
finitely many terminals, whose names are not ids of sessions) and `RoundTripAssumption` (what is
saved is a server in the sense of `IsServer`, hooks are of the four kinds, the options of the
new server have their types). The bounds are arbitrary,
so the theorems hold for every number of saves, servers, generations, sessions, terminals,
acts of users and faults, and for servers with any sessions, groups, links, windows and panes.

*The store.* `CurrentNamesBody` is not inductive: a power loss brings back the
durable pointer, and a prune under way removes what it decided on several steps ago.
`StoreInv` adds what the code relies on. (1) What prune has decided to remove
(`doomed`) is disjoint from the pointer and the pins as long as it removes, because
the lock keeps both still. (2) The body of the commit under way is in the store
before the pointer is written, and every body is durable by then, so the two-file
commit never has a durable pointer ahead of its body. (3) As long as no writer died
between a rename and the fsync after it (`torn`), durable and visible pointer differ
only in `syncPointer`. `AtRest` states once that steps which leave the disk alone
preserve all this; `StoreStep` has one case for each action that does not.

*The refinement.* Under `StoreInv` each step of the store is a step of RecoveryPoint
or leaves it alone (`PromiseStep`). Two things are not local: that `WritePointer`
publishes the snapshot made last needs `NewestInv` (nobody else makes one while the
commit holds the lock), and that a power loss is a `Crash`, which keeps what is
pinned and what current names, needs that pins and both pointers name durable bodies.

*The order of captures.* The invariants below hold under the type invariant. `FitInv`: from the
body on, the snapshot of the holder has the content of its capture, and so has what the
sidecar names, on disk and in what a power loss may bring back. `SeenInv`: a version of the
server stands for one state of it, so two captures of one version are the same.
`AheadInv`: from its capture to the pointer the holder of a save is at least as new as
every snapshot and as what was last reported, because it captured under the lock; a
restore, whose capture may be old, never gets to the pointer. `HoldsInv` says of the
visible and of the durable pointer that they name what was last reported or something
later, so a power loss cannot take a reported save back. `GateInv`: what a save checked
before it wrote, that the store is empty or that current is not the protected snapshot,
holds until the pointer. `SafetyInv`: the safety copy of a restore is the newest
snapshot, so prune spares it (as the newest safety snapshot, as the newest of all when
none is kept, or for its hour or day when `recent` is 0 as well), and the safety snapshots that are neither unmarked nor about to be are the
newest k, which are at most k (`NewestBound`).

*The watcher.* `HalfInv`: a half-restored server has a restore at work on it, which holds
the lock, or one that died there; hence so has every capture on its way to a commit. For
`PreviousCurrentStays` the invariant is `Protected`: as long as there is something to
protect (`AtStake`: the readable snapshot the watcher found, of an earlier server, and no
apply() so far), the id that `save_captured` compares with is that snapshot's. A manual
command that publishes between the start of a watcher and its look at the pointer makes
`current` another snapshot than the one it found, which is then not at stake.

*The control plane.* `OneAction`: what the request tasks, the channel and the loop of a
generation hold is one and the same action, the pending one, and whoever was
acknowledged asked for it. That gives `AcknowledgedDecides`. `AcknowledgedIsKept` needs in
addition that a task that is cancelled with its reply written delivers (`Dropped`, the
destructor of `LifecycleDelivery`), also when all tasks are at once.

*The loop.* `WritesAreSpaced` needs that every deadline was computed after the last
write (`DeadlinesInv`): a pending deadline, or the time at which a due save was
taken up, is a minimum interval after `lastWrite`. Saves that write nothing do not
move `lastWrite`; those that do leave any pending deadline unset, since the loop
does not take events during a save.

The delay bounds follow from two invariants. `TimeInv`: in the loop no deadline is ever
passed, because time stands still while one is ready, and after a save the poll is at most a
period away, however many ticks were skipped (`NextTick`). `PollInv`: what brings an unsaved
change to a save is the poll within its period, or a deadline that the poll has set, or such a
deadline put off by one event. It is put off only once: if the waiter that is started then meets a
signal, the change is so recent that the poll's own bound holds again (`EventAhead`). `HeardInv` is
the same for the events alone; it also carries a change over the save that was captured before it,
when only the waiter that has ended remembers it.

*Retention.* `PeriodsRemembered` is not inductive: the snapshot that stands for an hour may
itself leave the window, or stop being exempt, before the next pass. `RememberInv` says that the
one left is at least as new as every snapshot of the period that was ever written. So it is in
the window as long as any of them is, and a pass either keeps it or keeps a newer one of the same
hour (`Represented`); an hour is part of one day (`HourWithinDay`), so that moving from the hourly to
the daily set forgets nothing. `HistoryBounded` counts: what is left is mapped injectively into
the hours and the days that the windows reach into, one more than their length (`PeriodsBound`).

*The restore.* `RestoreInv` has four parts beside the type invariant. `ControlInv`: how far the
program is and what it has recorded by then. `BuiltInv`: the originals are whole until the commit
phase, and what was built stands until a rollback. `TerminalInv`: no terminal is closed by what the
restore does, and those it has switched are where they belong. `UndoneInv`: a rollback works from
lists that a lost reply may have left short; as long as the first connection lives the lists say
all that was done, and a rollback that misses something has noted it (`undone`). The last is
why a rollback that is reported complete is one, although no single list can be trusted. Each
tmux command can end in many ways; `ForwardOutcome`, `BackwardOutcome` and `UserOutcome` reduce a
step to a few outcomes (it did what it says; it failed, carried out or not; a user acted), and the
step lemmas have one case for each of them. The refinement is then local: under `RestoreInv`
before and after it each step is a step of AtomicReplace or a stutter (`PromiseStep`), and the report is
right because the originals are removed only after `BuiltStands` and terminals have been verified.

*The round trip.* `RoundTripInv` has six parts. `StartInv` is what is known of the server.
`CaptureInv` and `HooksDoNoHarm`: the stream of a capture is the answers of its commands in their
order with what hooks print between them (`AllPrinted`); an answer begins with a prefix that no hook
has, so the selection finds the four it needs, and with `list-clients` succeeded also the fifth. `GraphInv`:
the snapshot is `Graph` of the server; `GraphIs` proves that it is valid, and restorable
without dead panes, because a first link to each window is chosen (`FirstLinksAre`) and the members of a
group share their windows. `CheckedInv` and `PhaseInv` say how far the program is.

`BuildInv` is why the restore is right, and the only part that is not local: no property of a finished
restore is inductive, as none speaks of a build half way. `Progress` does: it says what there is after
some passes of a loop, from the set `todo` of those to come. Ids are different ones (`IdsAre`); a session
holds its windows at their indexes and a placeholder (`HeldAs`) until that is killed, and from
then on at the indexes that `renumber-windows` makes of them (`LeftAs`); a window has its panes
(`BuiltAs`), a group exists since its first member joined (`GroupedAs`), and a session whose windows were
not displaced shows what it showed (`ShownAs`). Each pass keeps this, one lemma for each (`CreateWindowKeeps`,
`LinkWindowKeeps`, `KillPlaceholderKeeps` …), from lemmas about what the tmux command does
(`PutIs`, `MoveIs`, `UnlinkIs`, `RenumberIs` …), and the end of a loop is the beginning of the next
(`NextLoopKeeps`). A refusal comes with its `Reason`. `BuildInv` holds for every snapshot that passes the
checks, captured or imported (`SnapshotsAreBuilt`); the theorems that compare with the server
follow from `CaptureIs`, for captures.

*Model-checked only*: `LossIsNoticed`, and the other properties of RoundTrip for servers that were
saved by tmux-resurrect. What an import makes of its rows is a fold over them (`FoldLeft`,
`FlattenSeq`): induction over data, which the installed provers cannot do. `IsSnapshot`, the
hypothesis of two theorems, says of an import that its fields have their types and that every window with
panes has an active one. All other safety properties of the passing runs are proved. Liveness is outside the
prover's reach as well and stays with TLC: `CurrentCatchesUp`, `AutosaveCatchesUp` and
`AcknowledgedHappens`.

## 6. Where code and documentation disagree

* `ReplacesOnlyBootstrap` (README.md:250-251, `main.rs:476`): the bootstrap check of
  `restore` uses a capture taken before it waits for the lock. Windows and panes that the
  captured session gets meanwhile are removed with it (`restore.rs:706-717, 771-774`);
  sessions opened beside it are not in the capture and survive.
* `RestoresNames` (README.md:285-286, `restore.rs:716`): when the reply to the first
  rename is lost, the rollback has nothing recorded and the name stays temporary.
* `UntouchedMeansUntouched` (the comment at `daemon.rs:431`, `daemon.rs:375`): a
  report that cannot be written after a successful apply() counts as "untouched".
* `PlaceholderHasRoom` (docs/architecture.md:190-191, `restore.rs:908`): the index that
  the placeholder window is moved to is unused in the snapshot, but it may be the one
  at which tmux has created the placeholder. A server whose windows leave index 0
  free cannot be restored where `base-index` is 0.

Observed and without a run: of two concurrent reloads one can take the other's
replacement for its own (`main.rs:387`); terminals of sessions that were not captured are not put
back by a rollback (`restore.rs:797`); a session whose placeholder window cannot be
moved outlives the rollback (`restore.rs:908`, variable `made`); a stop counts as
confirmed when the endpoint cannot be reached (`main.rs:338`); two signals before
a waiter has registered are lost until the poll (`tmux/hooks.rs:175`, against
docs/architecture.md:105-108; HookEvents has the behaviour, `ChangesAreSaved` bounds
its effect).

Observed in RoundTrip, where the properties name them as exceptions: with
`renumber-windows` on, killing the placeholder moves windows, and the selection by
index that follows finds none or, without a word, another one (`Displaced`). A
session without a last window may have one after the restore, as links are selected
when they are made. A group keeps its members but not its name, and a group of one
is not a group any more. A window linked twice to one session loses its later link in
a capture, and is two windows after an import. Whoever has a hook that prints an empty
block is told that there are no clients when `list-clients` is refused. A dead pane
keeps a capture from being restored; imported, it comes back alive. `Poisoned`
(`tmux/control.rs`) is never reached, as no caller sends two commands at a time. What
was built is not compared with the snapshot before the old sessions are removed.

## 7. What is not modelled

* Parsing of fields, formatting, hashing, the geometry of layouts, configuration,
  `/proc`: pure or plain I/O. Names and titles are opaque, so what tmux expands in
  them (`#`) is not seen.
* In Capture, the second query (default shell) and the pairing of panes with
  processes; in Import, the repair of pane rows with shifted fields and the command's
  writes to a store of its own, which are those of a save without dedup.
* In the build, working directories and their policy, the commands that are started
  again in panes, and which of them may be (checkpoint eligibility); what the
  user's own hooks do to the new server meanwhile.
* A restore in the middle of whose build users act is in RestoreTx, where sessions
  have no content; RoundTrip has no users.
* Restore reports, the identity cache of `entries()`, permissions and size limits of
  the control socket.
* Power loss in a torn state: a writer that dies between rename and fsync, followed
  by other writers and then a power loss (`PowerLoss` asks for `~torn`).
* A clock that goes backwards. With it, or with all four settings of retention at 0, prune
  removes the safety snapshot of a restore before it is used.
* In the store, a marker (pin, safety) is set or removed in one step with its `fsync`, and
  so is a disabled process checkpoint removed; the daemon removes it after its capture,
  not before, under the same lock. A damaged body is no entry for retention; one whose
  identity can still be read would be. The daemon returns an error when it cannot refresh
  the checkpoint of an unchanged snapshot; `CheckpointFails` treats this as after a commit.
  `current.json` itself is not damaged: a save would rewrite it, a restore fails until then.
* A snapshot without a server identity, in Watcher. In Resurrect, a second state row
  (an error in the code) and the diagnostics about the last session.
* Deadlines on tmux commands: the code has none on control connections.

## 8. Plan

Done, in the order in which most depends on them: SnapshotStore and its proofs,
RestoreTx with AtomicReplace, Watcher, ControlPlane, Retention, HookEvents; then
RecoveryPoint with the proof of the refinement, RoundTrip with the modules it stands
on; the proofs of the Watcher, the ControlPlane and the order of captures; then the
proofs of Retention, of RestoreTx with its refinement, of the delays of HookEvents, and of the
round trip of a capture.

What the model could still take in: checkpoint eligibility and the refresh period of
the checkpoint; a damaged `current.json`, and power loss in a torn state, in
SnapshotStore; a lost burst, in HookEvents; users during the build, in RoundTrip.

Theorems worth proving next: the round trip of an import, with the passes over the rows as recursive
functions; what the model takes in of the list above.
