------------------------------ MODULE HookEvents ------------------------------
(***************************************************************************)
(* When the watcher saves: the hook events it waits for through a tmux     *)
(* `wait-for` channel (tmux/hooks.rs), the poll, the debounce and the      *)
(* minimum interval between two writes (the loop of run() in daemon.rs).   *)
(*                                                                         *)
(* Time is discrete.  It does not pass while the loop has something to do, *)
(* but it does while a save waits for the mutation lock or for tmux, and   *)
(* while the process of a waiter has not reached the tmux server yet.      *)
(* What a capture says of the structure is a version number.               *)
(*                                                                         *)
(* A definition named Faulty... is the one that follows it with a mistake, *)
(* used only to show that the properties can fail.                         *)
(***************************************************************************)
EXTENDS Naturals

CONSTANTS
    Debounce,    \* autosave.debounce
    MinInterval, \* autosave.min_interval
    Poll,        \* autosave.poll_interval
    MaxVersion,  \* bound: changes of the structure
    MaxFaults,   \* bound: failed saves and restarts of the watcher
    MaxTime      \* bound: the clock

HookAssumption ==
    /\ Debounce \in Nat \ {0} /\ MinInterval \in Nat \ {0} /\ Poll \in Nat \ {0}
    /\ MaxVersion \in Nat \ {0} /\ MaxTime \in Nat \ {0} /\ MaxFaults \in Nat

ASSUME HookAssumption

VARIABLES
    now,       \* the clock
    version,   \* the structure of the tmux server
    saved,     \* what current says of it
    hooked,    \* the hooks of the server signal the channel
    woken,     \* the channel was signalled while nobody waited
    waiter,    \* the `tmux wait-for` process of the watcher
    orphans,   \* those of watchers that were killed
    stage,     \* what run() is doing
    captured,  \* the capture of the save under way
    pending,   \* the deadline of the next save, 0 for None
    nextPoll,  \* the next tick of the poll
    lastWrite, \* last_write
    faults,
    heard,     \* history: the last change met a waiter, or the end of one
    since      \* history: the last change, end of a save, or restart

channel == <<woken, waiter, orphans>>
save == <<stage, captured>>
timing == <<pending, nextPoll, lastWrite>>
history == <<heard, since>>
vars == <<now, version, saved, hooked, channel, save, timing, faults, history>>

-----------------------------------------------------------------------------
Later(a, b) == IF a >= b THEN a ELSE b

FaultyDeadline(earliest) == earliest
Deadline(earliest) == Later(earliest, lastWrite + MinInterval)

Init ==
    /\ now = 1 /\ version = 1 /\ saved = 0
    /\ hooked \in BOOLEAN
    /\ woken = FALSE /\ waiter = "off" /\ orphans = {}
    /\ stage = "start" /\ captured = 0
    /\ pending = 0 /\ nextPoll = 0 /\ lastWrite = 0
    /\ faults = 0 /\ heard = FALSE /\ since = 1

-----------------------------------------------------------------------------
\* tmux.  A signal ends the waiters of a channel; without any it is remembered,
\* and a second one takes the first back.

SignalChannel ==
    LET waited == waiter = "waiting" \/ "waiting" \in orphans
    IN  /\ waiter' = IF waiter = "waiting" THEN "fired" ELSE waiter
        /\ orphans' = orphans \ {"waiting"}
        /\ woken' = (~waited /\ ~woken)

\* Hooks stay installed when the watcher that installed them is gone.
Change ==
    /\ version < MaxVersion /\ version' = version + 1
    /\ IF hooked THEN SignalChannel ELSE UNCHANGED channel
    /\ heard' = (waiter \in {"waiting", "fired"}) /\ since' = now
    /\ UNCHANGED <<now, saved, hooked, save, timing, faults>>

\* The process of the waiter reaches the server.
FaultyRegister ==
    /\ waiter = "starting" /\ waiter' = "waiting"
    /\ UNCHANGED <<now, version, saved, hooked, woken, orphans, save, timing,
                   faults, history>>
Register ==
    /\ waiter = "starting"
    /\ waiter' = IF woken THEN "fired" ELSE "waiting"
    /\ woken' = FALSE
    /\ UNCHANGED <<now, version, saved, hooked, orphans, save, timing, faults,
                   history>>

OrphanRegisters ==
    /\ "starting" \in orphans
    /\ orphans' = (orphans \ {"starting"}) \cup (IF woken THEN {} ELSE {"waiting"})
    /\ woken' = FALSE
    /\ UNCHANGED <<now, version, saved, hooked, waiter, save, timing, faults,
                   history>>

-----------------------------------------------------------------------------
\* run(): hooks, waiter, first save, then the loop.

\* The hooks of an earlier watcher are as good as new ones; without a free slot
\* the watcher goes on with the poll alone.
ArmHookEvent ==
    /\ stage = "start" /\ stage' = "first"
    /\ \/ hooked' = TRUE /\ waiter' = "starting"
       \/ ~hooked /\ UNCHANGED <<hooked, waiter>>
    /\ UNCHANGED <<now, version, saved, woken, orphans, captured, timing,
                   faults, history>>

\* The capture is taken under the lock.
Capture ==
    /\ \/ stage = "first" /\ stage' = "first commit"
       \/ stage = "due" /\ stage' = "commit"
    /\ captured' = version
    /\ UNCHANGED <<now, version, saved, hooked, channel, timing, faults,
                   history>>

\* The poll starts with the loop, and so does the minimum interval.
FirstCommit ==
    /\ stage = "first commit" /\ stage' = "loop"
    /\ saved' = captured
    /\ nextPoll' = now + Poll /\ lastWrite' = now
    /\ since' = now
    /\ UNCHANGED <<now, version, hooked, channel, captured, pending, faults,
                   heard>>

Looping == stage = "loop"
HookReady == Looping /\ waiter = "fired"
PollReady == Looping /\ now >= nextPoll
TimerReady == Looping /\ pending # 0 /\ now >= pending

HookEvent ==
    /\ HookReady
    /\ waiter' = "starting"
    /\ pending' = Deadline(now + Debounce)
    /\ UNCHANGED <<now, version, saved, hooked, woken, orphans, save, nextPoll,
                   lastWrite, faults, history>>

\* Ticks that were missed during a save are skipped.
FaultyPollTick ==
    /\ PollReady
    /\ nextPoll' = nextPoll + ((now - nextPoll) \div Poll + 1) * Poll
    /\ pending' = IF pending = 0 THEN pending ELSE Deadline(now)
    /\ UNCHANGED <<now, version, saved, hooked, channel, save, lastWrite,
                   faults, history>>
PollTick ==
    /\ PollReady
    /\ nextPoll' = nextPoll + ((now - nextPoll) \div Poll + 1) * Poll
    /\ pending' = Deadline(now)
    /\ UNCHANGED <<now, version, saved, hooked, channel, save, lastWrite,
                   faults, history>>

TimerFires ==
    /\ TimerReady
    /\ pending' = 0 /\ stage' = "due"
    /\ UNCHANGED <<now, version, saved, hooked, channel, captured, nextPoll,
                   lastWrite, faults, history>>

\* Only a save that wrote something moves the minimum interval.
FaultyCommit ==
    /\ stage = "commit" /\ stage' = "loop"
    /\ saved' = captured
    /\ lastWrite' = IF saved # captured THEN now ELSE lastWrite
    /\ waiter' = IF waiter # "off" THEN "starting" ELSE waiter
    /\ since' = now
    /\ UNCHANGED <<now, version, hooked, woken, orphans, captured, pending,
                   nextPoll, faults, heard>>
Commit ==
    /\ stage = "commit" /\ stage' = "loop"
    /\ saved' = captured
    /\ lastWrite' = IF saved # captured THEN now ELSE lastWrite
    /\ since' = now
    /\ UNCHANGED <<now, version, hooked, channel, captured, pending, nextPoll,
                   faults, heard>>

\* A save that fails in the loop is logged; nothing is scheduled in its place.
SaveFails ==
    /\ stage \in {"due", "commit"} /\ stage' = "loop"
    /\ faults < MaxFaults /\ faults' = faults + 1
    /\ heard' = FALSE /\ since' = now
    /\ UNCHANGED <<now, version, saved, hooked, channel, captured, timing>>

\* Stop or reload: finish_hook_waiter signals the channel itself and waits for
\* the waiter, which is killed if it does not end.  The next watcher starts over.
Restart ==
    /\ Looping /\ faults < MaxFaults /\ faults' = faults + 1
    /\ stage' = "start" /\ pending' = 0 /\ heard' = FALSE /\ since' = now
    /\ IF waiter = "off" THEN UNCHANGED channel
       ELSE /\ waiter' = "off" /\ orphans' = orphans \ {"waiting"}
            /\ woken' = (~woken /\ waiter # "waiting" /\ "waiting" \notin orphans)
    /\ UNCHANGED <<now, version, saved, hooked, captured, nextPoll, lastWrite>>

\* SIGTERM in the loop drops the waiter with the watcher.  Killed at any moment,
\* the watcher leaves the process of the waiter behind.
Killed ==
    /\ stage # "start" /\ faults < MaxFaults /\ faults' = faults + 1
    /\ stage' = "start" /\ pending' = 0 /\ heard' = FALSE /\ since' = now
    /\ waiter' = "off"
    /\ orphans' \in {orphans, orphans \cup ({waiter} \cap {"starting", "waiting"})}
    /\ UNCHANGED <<now, version, saved, hooked, woken, captured, nextPoll,
                   lastWrite>>

Tick ==
    /\ now < MaxTime /\ now' = now + 1
    /\ ~(HookReady \/ PollReady \/ TimerReady)
    /\ UNCHANGED <<version, saved, hooked, channel, save, timing, faults,
                   history>>

Next ==
    \/ Change \/ Register \/ OrphanRegisters \/ Tick
    \/ ArmHookEvent \/ Capture \/ FirstCommit
    \/ HookEvent \/ PollTick \/ TimerFires
    \/ Commit \/ SaveFails \/ Restart \/ Killed

Spec == Init /\ [][Next]_vars

-----------------------------------------------------------------------------
\* The values every variable can take; tmux does not let a process wait on a
\* channel that was signalled.
TypeOK ==
    /\ now \in 1 .. MaxTime
    /\ version \in 1 .. MaxVersion
    /\ saved \in 0 .. version /\ captured \in 0 .. version
    /\ hooked \in BOOLEAN /\ woken \in BOOLEAN
    /\ orphans \subseteq {"starting", "waiting"}
    /\ waiter \in {"off", "starting", "waiting", "fired"}
    /\ woken => waiter # "waiting" /\ "waiting" \notin orphans
    /\ waiter # "off" => hooked
    /\ stage \in {"start", "first", "first commit", "loop", "due", "commit"}
    /\ pending \in Nat /\ nextPoll \in Nat /\ lastWrite \in Nat
    /\ faults \in 0 .. MaxFaults
    /\ heard \in BOOLEAN /\ since \in 1 .. now

\* Once changes pause they are saved: no longer than the poll or the minimum
\* interval and one debounce after the last change, or the last save or start of
\* the loop, nothing is unsaved, even when there are no hooks, when the channel lost
\* its signal or when a save failed (daemon.rs:139-186).  While changes go on, each
\* may put the save of the earlier ones off by another debounce: `since` starts
\* again with every change, as the deadline in the code does.
ChangesAreSaved ==
    Looping /\ saved # version =>
        now <= since + Later(Poll, MinInterval) + Debounce

\* When the last change met a waiter, the changes are saved without the poll: no
\* event is dropped while the watcher is busy saving, and a waiter that ended is
\* not forgotten (hooks.rs:159-163, daemon.rs:148-155).
HeardIsSaved ==
    Looping /\ heard /\ saved # version =>
        now <= Later(since + Debounce, lastWrite + MinInterval) + Debounce

\* Two writes of the loop are a minimum interval apart, whatever events and
\* ticks coincide and however long a save has to wait.
WritesAreSpaced ==
    [][stage = "commit" /\ saved' # saved => now >= lastWrite + MinInterval]_vars
=============================================================================
