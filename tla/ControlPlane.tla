----------------------------- MODULE ControlPlane -----------------------------
(***************************************************************************)
(* Stopping and reloading the watcher: the control endpoint of the daemon  *)
(* (daemon_control.rs), what run() makes of a lifecycle request during     *)
(* startup and in its loop (daemon.rs), re-execution, and the commands     *)
(* `daemon --stop` and `daemon --reload` that send a request and poll the  *)
(* status until they believe it (main.rs).                                 *)
(*                                                                         *)
(* A generation is one process image: re-execution and a fresh start both  *)
(* begin a new one, told apart by its start time.  daemon.lock admits one  *)
(* at a time.  Deadlines are left open: a poll may give up at any time.    *)
(*                                                                         *)
(* A definition named Faulty... is the one that follows it with a mistake, *)
(* used only to show that the properties can fail.                         *)
(***************************************************************************)
EXTENDS Naturals, Sequences, FiniteSets, SequencesExt

CONSTANTS
    Stoppers,   \* commands `daemon --stop`
    Reloaders,  \* commands `daemon --reload`
    MaxGen,     \* bound: generations
    MaxFaults   \* bound: crashes, failed listeners, failed startups

Clients == Stoppers \cup Reloaders

ControlAssumption ==
    /\ IsFiniteSet(Clients) /\ Stoppers \cap Reloaders = {}
    /\ MaxGen \in Nat \ {0} /\ MaxFaults \in Nat

ASSUME ControlAssumption

VARIABLES
    gen,      \* the latest generation
    stage,    \* how far it has come
    exit,     \* the exit it has decided on
    bound,    \* its listener is alive
    path,     \* the generation that owns the socket file, 0 if there is none
    pending,  \* LifecycleState.pending
    actions,  \* the channel of lifecycle actions
    task,     \* the request tasks of the listener, one per client
    step,     \* what each command does next
    previous, \* the generation a reload found before it asked
    acked,    \* the generation that acknowledged the command, 0 if none did
    ended,    \* history: how each generation ended
    faults

process == <<gen, stage, exit>>
endpoint == <<bound, path, pending, actions, task>>
clients == <<step, previous, acked>>
vars == <<process, endpoint, clients, ended, faults>>

-----------------------------------------------------------------------------
Op(c) == IF c \in Stoppers THEN "stop" ELSE "reload"

Init ==
    /\ gen = 1 /\ stage = "startup" /\ exit = "none"
    /\ bound = TRUE /\ path = 1
    /\ pending = "none" /\ actions = <<>> /\ task = [c \in Clients |-> "none"]
    /\ step = [c \in Clients |-> "idle"]
    /\ previous = [c \in Clients |-> 0]
    /\ acked = [c \in Clients |-> 0]
    /\ ended = [g \in 1 .. MaxGen |-> "no"]
    /\ faults = 0

Fault == faults < MaxFaults /\ faults' = faults + 1
Reachable == bound /\ path = gen
Alive == stage \in {"startup", "watch", "leaving"}
Goes(c, s) == step' = [step EXCEPT ![c] = s]
Becomes(c, t) == task' = [task EXCEPT ![c] = t]

-----------------------------------------------------------------------------
\* The request tasks.

FaultyReserve(c) ==
    /\ pending' = Op(c)
    /\ Becomes(c, "reserved") /\ UNCHANGED step
Reserve(c) ==
    \/ /\ pending = "none" /\ pending' = Op(c)
       /\ Becomes(c, "reserved") /\ UNCHANGED step
    \/ /\ pending # "none" /\ UNCHANGED pending
       /\ Becomes(c, "none") /\ Goes(c, "failed")

HandleRequest(c) ==
    /\ task[c] = "reading" /\ Reserve(c)
    /\ UNCHANGED <<process, bound, path, actions, previous, acked, ended, faults>>

\* A command that has given up does not see the answer; the action is
\* delivered all the same.
Acknowledge(c) ==
    /\ task[c] = "reserved" /\ Becomes(c, "written")
    /\ IF step[c] = "sent" THEN Goes(c, "waiting") /\ acked' = [acked EXCEPT ![c] = gen]
       ELSE UNCHANGED <<step, acked>>
    /\ UNCHANGED <<process, bound, path, pending, actions, previous, ended, faults>>

Deliver(c) ==
    /\ task[c] = "written" /\ Becomes(c, "none")
    /\ actions' = Append(actions, Op(c))
    /\ UNCHANGED <<process, bound, path, pending, clients, ended, faults>>

\* Every task is dropped.  LifecycleDelivery sends its action on Drop, and
\* the peers whose answer is outstanding see the connection close.
FaultyDetached == UNCHANGED <<task, actions, step>>
Disconnect ==
    step' = [c \in Clients |-> IF task[c] \in {"reading", "reserved"} THEN "failed"
                               ELSE step[c]]
FaultyDropTasks ==
    /\ task' = [c \in Clients |-> "none"]
    /\ UNCHANGED actions /\ Disconnect
DropTasks ==
    /\ task' = [c \in Clients |-> "none"]
    /\ actions' = actions \o
          LET held == {c \in Clients : task[c] \in {"reserved", "written"}}
          IN  [i \in 1 .. Cardinality(held) |-> Op(SetToSeq(held)[i])]
    /\ Disconnect

\* SocketGuard removes the file only when it is the one this process bound.
Unlink == path' = IF path = gen THEN 0 ELSE path

\* accept() failed for good.  next_request then binds a new listener, which it
\* can do only while run() waits for it; state and channel outlive the listener.
EndpointFails ==
    /\ bound /\ Alive /\ Fault
    /\ bound' = FALSE /\ Unlink /\ DropTasks
    /\ UNCHANGED <<process, pending, previous, acked, ended>>

Rebind ==
    /\ ~bound /\ stage \in {"startup", "watch"}
    /\ bound' = TRUE /\ path' = gen
    /\ UNCHANGED <<process, pending, actions, task, clients, ended, faults>>

-----------------------------------------------------------------------------
\* run()

\* finish_startup: the startup transaction goes on, the first request counts.
FaultyDefer == UNCHANGED exit
Defer == exit' = IF exit = "none" THEN Head(actions) ELSE exit

StartupTakes ==
    /\ stage = "startup" /\ actions # <<>>
    /\ Defer /\ actions' = Tail(actions)
    /\ UNCHANGED <<gen, stage, bound, path, pending, task, clients, ended, faults>>

StartupEnds ==
    /\ stage = "startup"
    /\ stage' = IF exit = "none" THEN "watch" ELSE "leaving"
    /\ UNCHANGED <<gen, exit, endpoint, clients, ended, faults>>

WatchTakes ==
    /\ stage = "watch" /\ actions # <<>>
    /\ exit' = Head(actions) /\ actions' = Tail(actions)
    /\ stage' = "leaving"
    /\ UNCHANGED <<gen, bound, path, pending, task, clients, ended, faults>>

Signal ==
    /\ stage = "watch"
    /\ exit' = "signal" /\ stage' = "leaving"
    /\ UNCHANGED <<gen, endpoint, clients, ended, faults>>

\* run() returns: the endpoint goes first, daemon.lock after it.  An action
\* still in the channel goes with it.
Return ==
    /\ stage = "leaving"
    /\ bound' = FALSE /\ Unlink /\ DropTasks
    /\ ended' = [ended EXCEPT ![gen] = exit]
    /\ stage' = IF exit = "reload" THEN "exec" ELSE "gone"
    /\ UNCHANGED <<gen, exit, pending, previous, acked, faults>>

\* A failed startup, a panic, SIGKILL, a binary that cannot be executed.  The
\* socket file stays when nothing was dropped in order.
Dies ==
    /\ stage # "gone" /\ Fault
    /\ stage' = "gone" /\ bound' = FALSE /\ (Unlink \/ UNCHANGED path)
    /\ task' = [c \in Clients |-> "none"]
    /\ Disconnect
    /\ ended' = IF Alive THEN [ended EXCEPT ![gen] = "died"] ELSE ended
    /\ UNCHANGED <<gen, exit, pending, actions, previous, acked>>

\* Re-execution, or another start that wins the lock: a new image, which
\* removes a stale socket file and binds its own.
Begin ==
    /\ stage \in {"exec", "gone"} /\ gen < MaxGen
    /\ gen' = gen + 1 /\ stage' = "startup" /\ exit' = "none"
    /\ bound' = TRUE /\ path' = gen + 1
    /\ pending' = "none" /\ actions' = <<>>
    /\ UNCHANGED <<task, clients, ended, faults>>

-----------------------------------------------------------------------------
\* The commands.

Ask(c) ==
    /\ step[c] = "idle"
    /\ IF Reachable THEN Goes(c, "send") ELSE Goes(c, "failed")
    /\ previous' = [previous EXCEPT ![c] = IF c \in Reloaders THEN gen ELSE 0]
    /\ UNCHANGED <<process, endpoint, acked, ended, faults>>

Send(c) ==
    /\ step[c] = "send"
    /\ IF Reachable THEN Goes(c, "sent") /\ Becomes(c, "reading")
       ELSE Goes(c, "failed") /\ UNCHANGED task
    /\ UNCHANGED <<process, bound, path, pending, actions, previous, acked, ended, faults>>

\* wait_for_daemon_stop ends well when nothing can be connected to,
\* wait_for_daemon_reload when a generation other than the previous answers.
Confirmed(c) ==
    /\ step[c] = "waiting"
    /\ IF c \in Stoppers THEN ~Reachable ELSE Reachable /\ gen # previous[c]
    /\ Goes(c, "done")
    /\ UNCHANGED <<process, endpoint, previous, acked, ended, faults>>

GiveUp(c) ==
    /\ step[c] \in {"sent", "waiting"} /\ Goes(c, "failed")
    /\ UNCHANGED <<process, endpoint, previous, acked, ended, faults>>

-----------------------------------------------------------------------------
Serve == \E c \in Clients : HandleRequest(c) \/ Acknowledge(c) \/ Deliver(c)
Run == StartupTakes \/ WatchTakes \/ Return

Next ==
    \/ Serve \/ Run \/ StartupEnds \/ Rebind
    \/ EndpointFails \/ Signal \/ Dies \/ Begin
    \/ \E c \in Clients : Ask(c) \/ Send(c) \/ Confirmed(c) \/ GiveUp(c)

Spec == Init /\ [][Next]_vars

\* The executor polls what is ready, and the startup transaction comes to an
\* end.  Nothing makes a command be issued, a process start or a fault occur.
LiveSpec ==
    Spec /\ WF_vars(Serve) /\ WF_vars(Run) /\ WF_vars(StartupEnds)

-----------------------------------------------------------------------------
\* The values every variable can take; a generation that is gone has neither
\* listener nor request tasks.
TypeOK ==
    /\ gen \in 1 .. MaxGen
    /\ stage \in {"startup", "watch", "leaving", "exec", "gone"}
    /\ exit \in {"none", "stop", "reload", "signal"}
    /\ bound \in (IF Alive THEN BOOLEAN ELSE {FALSE})
    /\ path \in 0 .. MaxGen
    /\ pending \in {"none", "stop", "reload"}
    /\ actions \in Seq({"stop", "reload"})
    /\ task \in [Clients -> IF bound THEN {"none", "reading", "reserved", "written"}
                            ELSE {"none"}]
    /\ step \in [Clients -> {"idle", "send", "sent", "waiting", "done", "failed"}]
    /\ previous \in [Clients -> 0 .. MaxGen]
    /\ acked \in [Clients -> 0 .. MaxGen]
    /\ ended \in [1 .. MaxGen -> {"no", "stop", "reload", "signal", "died"}]
    /\ faults \in 0 .. MaxFaults

\* An acknowledged action is never lost while its generation runs: it is held
\* by the request task, in the channel, or decided on, whatever happens to the
\* listener and whenever the task is cancelled (LifecycleDelivery,
\* daemon_control.rs:415-439; docs/architecture.md:54-60).
AcknowledgedIsKept ==
    \A c \in Clients :
        acked[c] = gen /\ Alive =>
            task[c] = "written" \/ Contains(actions, Op(c)) \/ exit \in {Op(c), "signal"}

\* A generation that acknowledged a stop is not re-executed, and one that
\* acknowledged a reload does not just stop: the acknowledged action decides
\* how it ends, unless a signal or a failure did (reserve, get_or_insert).
AcknowledgedDecides ==
    \A c \in Clients :
        acked[c] # 0 => ended[acked[c]] \in {"no", Op(c), "signal", "died"}

\* Every acknowledged action takes place: the generation comes to its end, even
\* when the request arrives during startup or the listener fails at once.
AcknowledgedHappens ==
    \A c \in Clients : \A g \in 1 .. MaxGen : acked[c] = g ~> ended[g] # "no"
=============================================================================
