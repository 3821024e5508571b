-------------------------- MODULE ControlPlane_proofs --------------------------
(***************************************************************************)
(* Proofs about ControlPlane, for any number of commands, generations and  *)
(* faults.                                                                 *)
(***************************************************************************)
EXTENDS ControlPlane, FiniteSetTheorems, TLAPS

Lifecycle == {"stop", "reload"}
CommandSteps == {"idle", "send", "sent", "waiting", "done", "failed"}
TaskSteps == {"none", "reading", "reserved", "written"}

\* The commands whose action a request task holds and has not delivered yet.
Held == {c \in Clients : task[c] \in {"reserved", "written"}}

LEMMA OpType == \A c : Op(c) \in Lifecycle
BY DEF Op, Lifecycle

\* A finite set has a sequence of its elements.
LEMMA Sequenced ==
    ASSUME NEW S, IsFiniteSet(S)
    PROVE  /\ Cardinality(S) \in Nat
           /\ SetToSeq(S) \in [1 .. Cardinality(S) -> S]
           /\ \A x \in S : Cardinality(S) > 0
<1>1. Cardinality(S) \in Nat /\ ExistsBijection(1 .. Cardinality(S), S)
  BY FS_CardinalityType
<1>2. PICK f \in [1 .. Cardinality(S) -> S] : IsInjective(f)
  BY <1>1 DEF ExistsBijection, Bijection, Injection, Surjection, IsInjective
<1>3. SetToSeq(S) \in [1 .. Cardinality(S) -> S]
  BY <1>2, Zenon DEF SetToSeq
<1>4. ASSUME NEW x \in S PROVE Cardinality(S) > 0
  BY <1>1, <1>4, FS_EmptySet
<1> QED BY <1>1, <1>3, <1>4

\* Dropping the tasks leaves in the channel what was there and, behind it, the
\* actions that the tasks held.
LEMMA Dropped ==
    ASSUME TypeOK, DropTasks
    PROVE  /\ actions' \in Seq(Lifecycle)
           /\ Len(actions') >= Len(actions)
           /\ \A i \in 1 .. Len(actions) : actions'[i] = actions[i]
           /\ \A i \in 1 .. Len(actions') :
                i > Len(actions) => \E c \in Held : actions'[i] = Op(c)
           /\ \A c \in Held : \E i \in 1 .. Len(actions') : i > Len(actions)
<1> DEFINE k == Cardinality(Held)
           more == [i \in 1 .. k |-> Op(SetToSeq(Held)[i])]
<1>1. IsFiniteSet(Held)
  BY FS_Subset, ControlAssumption DEF Held, ControlAssumption
<1>2. k \in Nat /\ SetToSeq(Held) \in [1 .. k -> Held] /\ \A x \in Held : k > 0
  BY <1>1, Sequenced
<1>3. actions' = actions \o more
  BY DEF DropTasks, Held
<1>4. more \in Seq(Lifecycle) /\ Len(more) = k
  BY <1>2, OpType
<1>5. actions \in Seq(Lifecycle)
  BY DEF TypeOK, Lifecycle
<1> HIDE DEF k
<1>6. Len(actions') = Len(actions) + k /\ Len(actions) \in Nat
  BY <1>2, <1>3, <1>4, <1>5
<1>7. \A i \in 1 .. Len(actions) : actions'[i] = actions[i]
  BY <1>2, <1>3, <1>4, <1>5
<1>8. ASSUME NEW i \in 1 .. Len(actions'), i > Len(actions)
      PROVE  \E c \in Held : actions'[i] = Op(c)
  <2>1. i - Len(actions) \in 1 .. k
    BY <1>2, <1>6, <1>8
  <2>2. actions'[i] = more[i - Len(actions)]
    BY <1>2, <1>3, <1>4, <1>5, <1>8
  <2>3. SetToSeq(Held)[i - Len(actions)] \in Held
    BY <1>2, <2>1
  <2> QED BY <2>1, <2>2, <2>3
<1>9. actions' \in Seq(Lifecycle)
  BY <1>3, <1>4, <1>5
<1>10. ASSUME NEW c \in Held PROVE \E i \in 1 .. Len(actions') : i > Len(actions)
  <2>1. k > 0
    BY <1>2
  <2>2. Len(actions) + 1 \in 1 .. Len(actions')
    BY <1>2, <1>6, <2>1
  <2> QED BY <1>6, <2>2
<1> QED BY <1>2, <1>6, <1>7, <1>8, <1>9, <1>10

-----------------------------------------------------------------------------
\* Whoever leaves has decided how.
Decided == stage = "leaving" => exit # "none"

\* The type invariant is inductive only with what a departure has decided.
LEMMA TypedAndDecided == Spec => [](TypeOK /\ Decided)
<1> USE ControlAssumption DEF ControlAssumption
<1>1. Init => TypeOK /\ Decided
  BY DEF Init, TypeOK, Alive, Decided
<1>2. TypeOK /\ Decided /\ [Next]_vars => TypeOK'
  <2> SUFFICES ASSUME TypeOK, Decided, [Next]_vars PROVE TypeOK'
    OBVIOUS
  <2> USE DEF process, endpoint, clients, CommandSteps, TaskSteps
  <2>a. \A c : Op(c) \in {"stop", "reload"}
    BY OpType DEF Lifecycle
  <2>b. DropTasks => Disconnect /\ task' = [c \in Clients |-> "none"]
    BY DEF DropTasks
  <2>c. Disconnect => step' \in [Clients -> CommandSteps]
    BY DEF Disconnect, TypeOK
  <2>d. DropTasks => actions' \in Seq({"stop", "reload"})
    BY Dropped DEF Lifecycle
  <2>e. Fault => faults' \in 0 .. MaxFaults
    BY DEF Fault, TypeOK
  <2>f. Unlink => path' \in 0 .. MaxGen
    BY DEF Unlink, TypeOK
  <2>t. /\ step \in [Clients -> CommandSteps] /\ task \in [Clients -> TaskSteps]
        /\ acked \in [Clients -> 0 .. MaxGen] /\ previous \in [Clients -> 0 .. MaxGen]
        /\ gen \in 0 .. MaxGen /\ 0 \in 0 .. MaxGen
    BY DEF TypeOK
  <2>g. ASSUME NEW c \in Clients, task[c] # "none" \/ Reachable,
               NEW t \in TaskSteps, Becomes(c, t)
        PROVE  bound /\ task' \in [Clients -> TaskSteps]
    <3>1. bound
      BY <2>g DEF Reachable, TypeOK
    <3> QED BY <2>g, <2>t, <3>1 DEF Becomes
  <2>h. ASSUME NEW c \in Clients, NEW t \in CommandSteps, Goes(c, t)
        PROVE  step' \in [Clients -> CommandSteps]
    BY <2>h, <2>t DEF Goes
  <2>1. ASSUME NEW c \in Clients, HandleRequest(c) PROVE TypeOK'
    <3>1. bound /\ task' \in [Clients -> TaskSteps]
      BY <2>1, <2>g DEF HandleRequest, Reserve
    <3>2. step' \in [Clients -> CommandSteps]
      BY <2>1, <2>h, <2>t DEF HandleRequest, Reserve
    <3>3. pending' \in {"none", "stop", "reload"}
      BY <2>1, <2>a DEF HandleRequest, Reserve, TypeOK
    <3> QED BY <2>1, <3>1, <3>2, <3>3 DEF HandleRequest, TypeOK, Alive
  <2>2. ASSUME NEW c \in Clients, Acknowledge(c) PROVE TypeOK'
    <3>1. bound /\ task' \in [Clients -> TaskSteps]
      BY <2>2, <2>g DEF Acknowledge
    <3>2. step' \in [Clients -> CommandSteps] /\ acked' \in [Clients -> 0 .. MaxGen]
      <4>1. CASE step[c] = "sent"
        BY <2>2, <2>h, <2>t, <4>1 DEF Acknowledge
      <4>2. CASE step[c] # "sent"
        BY <2>2, <2>t, <4>2 DEF Acknowledge
      <4> QED BY <4>1, <4>2
    <3> QED BY <2>2, <3>1, <3>2 DEF Acknowledge, TypeOK, Alive
  <2>3. ASSUME NEW c \in Clients, Deliver(c) PROVE TypeOK'
    <3>1. actions' \in Seq({"stop", "reload"})
      BY <2>3, <2>a DEF Deliver, TypeOK
    <3>2. bound /\ task' \in [Clients -> TaskSteps]
      BY <2>3, <2>g DEF Deliver
    <3> QED BY <2>3, <3>1, <3>2 DEF Deliver, TypeOK, Alive
  <2>4. CASE StartupTakes
    <3>1. Head(actions) \in {"stop", "reload"} /\ Tail(actions) \in Seq({"stop", "reload"})
      BY <2>4 DEF StartupTakes, TypeOK
    <3> QED BY <2>4, <3>1 DEF StartupTakes, Defer, TypeOK, Alive
  <2>5. CASE WatchTakes
    <3>1. Head(actions) \in {"stop", "reload"} /\ Tail(actions) \in Seq({"stop", "reload"})
      BY <2>5 DEF WatchTakes, TypeOK
    <3> QED BY <2>5, <3>1 DEF WatchTakes, TypeOK, Alive
  <2>6. CASE Return
    <3>1. ended' \in [1 .. MaxGen -> {"no", "stop", "reload", "signal", "died"}]
      <4>1. exit \in {"no", "stop", "reload", "signal", "died"}
        BY <2>6 DEF Return, Decided, TypeOK
      <4> QED BY <2>6, <4>1 DEF Return, TypeOK
    <3> QED BY <2>6, <3>1, <2>b, <2>c, <2>d, <2>f DEF Return, TypeOK, Alive
  <2>7. CASE StartupEnds
    BY <2>7 DEF StartupEnds, TypeOK, Alive
  <2>8. CASE Rebind
    BY <2>8 DEF Rebind, TypeOK, Alive
  <2>9. CASE EndpointFails
    BY <2>9, <2>b, <2>c, <2>d, <2>e, <2>f, ZenonT(30) DEF EndpointFails, TypeOK, Alive
  <2>10. CASE Signal
    BY <2>10 DEF Signal, TypeOK, Alive
  <2>11. CASE Dies
    <3>1. path' \in 0 .. MaxGen
      BY <2>11, <2>f DEF Dies, TypeOK
    <3> QED BY <2>11, <3>1, <2>c, <2>e DEF Dies, TypeOK, Alive
  <2>12. CASE Begin
    BY <2>12 DEF Begin, TypeOK, Alive
  <2>13. ASSUME NEW c \in Clients, Ask(c) PROVE TypeOK'
    <3>1. step' \in [Clients -> CommandSteps]
      BY <2>13, <2>h DEF Ask
    <3>2. previous' \in [Clients -> 0 .. MaxGen]
      BY <2>13, <2>t DEF Ask
    <3> QED BY <2>13, <3>1, <3>2 DEF Ask, TypeOK, Alive
  <2>14. ASSUME NEW c \in Clients, Send(c) PROVE TypeOK'
    <3>1. step' \in [Clients -> CommandSteps]
      BY <2>14, <2>h DEF Send
    <3>2. UNCHANGED task \/ (bound /\ task' \in [Clients -> TaskSteps])
      <4>1. CASE Reachable
        <5>1. Becomes(c, "reading")
          BY <2>14, <4>1 DEF Send
        <5> QED BY <4>1, <5>1, <2>g
      <4>2. CASE ~Reachable
        BY <2>14, <4>2 DEF Send
      <4> QED BY <4>1, <4>2
    <3> QED BY <2>14, <3>1, <3>2 DEF Send, TypeOK, Alive
  <2>15. ASSUME NEW c \in Clients, Confirmed(c) \/ GiveUp(c) PROVE TypeOK'
    <3>1. step' \in [Clients -> CommandSteps]
      BY <2>15, <2>h DEF Confirmed, GiveUp
    <3>2. UNCHANGED <<process, endpoint, previous, acked, ended, faults>>
      BY <2>15 DEF Confirmed, GiveUp
    <3> QED BY <3>1, <3>2 DEF TypeOK, Alive
  <2>16. CASE UNCHANGED vars
    BY <2>16 DEF vars, TypeOK, Alive
  <2> QED
    BY <2>1, <2>2, <2>3, <2>4, <2>5, <2>6, <2>7, <2>8, <2>9, <2>10, <2>11, <2>12, <2>13,
       <2>14, <2>15, <2>16 DEF Next, Serve, Run
<1>3. TypeOK /\ Decided /\ [Next]_vars => Decided'
  <2> SUFFICES ASSUME TypeOK, Decided, [Next]_vars, stage' = "leaving" PROVE exit' # "none"
    BY DEF Decided
  <2>1. CASE WatchTakes
    <3>1. Head(actions) \in {"stop", "reload"}
      BY <2>1 DEF WatchTakes, TypeOK
    <3> QED BY <2>1, <3>1 DEF WatchTakes
  <2>2. CASE ~WatchTakes
    BY <2>2
    DEF Next, Serve, Run, HandleRequest, Acknowledge, Deliver, StartupTakes, Return,
        StartupEnds, Rebind, EndpointFails, Signal, Dies, Begin, Ask, Send, Confirmed,
        GiveUp, Decided, vars, process
  <2> QED BY <2>1, <2>2
<1> QED
  BY <1>1, <1>2, <1>3, PTL DEF Spec


\* Every variable keeps its type, and no listener or task outlives its generation.
THEOREM TypeCorrect == Spec => []TypeOK
BY TypedAndDecided, PTL

-----------------------------------------------------------------------------
\* What the request tasks, the channel and the loop of one generation hold is one
\* action, the pending one; whoever was acknowledged by this generation asked for it.
OneAction ==
    /\ \A c \in Clients : task[c] \in {"reserved", "written"} => Op(c) = pending
    /\ \A i \in 1 .. Len(actions) : actions[i] = pending
    /\ exit \in {"none", "signal", pending}
    /\ \A c \in Clients : acked[c] <= gen /\ (acked[c] = gen => Op(c) = pending)

\* A command that has not sent its request has no task.
NotSent == \A c \in Clients : step[c] \in {"idle", "send"} => task[c] = "none"

\* Generations that have not ended are not recorded as such.
NotEnded ==
    \A g \in 1 .. MaxGen : g > gen \/ (g = gen /\ Alive) => ended[g] = "no"

Promise == OneAction /\ NotSent /\ NotEnded /\ AcknowledgedIsKept /\ AcknowledgedDecides

LEMMA PromiseStep == TypeOK /\ Decided /\ Promise /\ [Next]_vars => Promise'
<1> SUFFICES ASSUME TypeOK, Decided, Promise, [Next]_vars PROVE Promise'
  OBVIOUS
<1> USE DEF process, endpoint, clients
<1>a. /\ step \in [Clients -> CommandSteps] /\ task \in [Clients -> TaskSteps]
      /\ acked \in [Clients -> 0 .. MaxGen] /\ gen \in 1 .. MaxGen /\ MaxGen \in Nat
      /\ ended \in [1 .. MaxGen -> {"no", "stop", "reload", "signal", "died"}]
      /\ actions \in Seq(Lifecycle) /\ pending \in {"none"} \cup Lifecycle
      /\ Len(actions) \in Nat
  BY ControlAssumption DEF TypeOK, TaskSteps, CommandSteps, Lifecycle, ControlAssumption
<1>b. \A c : Op(c) \in Lifecycle /\ Op(c) # "none"
  BY OpType DEF Lifecycle
<1>c. \A c \in Clients : task[c] # "none" => Alive
  BY DEF TypeOK
<1>d. OneAction /\ NotSent /\ NotEnded /\ AcknowledgedIsKept /\ AcknowledgedDecides
  BY DEF Promise
\* With nothing pending, nothing is held anywhere.
<1>e. ASSUME pending = "none"
      PROVE  /\ \A c \in Clients : task[c] \notin {"reserved", "written"} /\ acked[c] # gen
             /\ ~\E i \in 1 .. Len(actions) : TRUE
             /\ exit \in {"none", "signal"}
  <2>1. \A i \in 1 .. Len(actions) : actions[i] \in Lifecycle
    BY <1>a
  <2> QED BY <1>b, <1>d, <1>e, <2>1 DEF OneAction, Lifecycle
\* Steps that neither end the generation nor move what it holds.
<1>f. ASSUME UNCHANGED <<gen, exit, pending, actions, acked, ended>>,
             Alive' => Alive,
             \A c \in Clients : \/ task'[c] = task[c]
                                \/ task[c] \notin {"reserved", "written"}
                                     /\ task'[c] \notin {"reserved", "written"},
             NotSent'
      PROVE  Promise'
  <2>1. OneAction'
    BY <1>d, <1>f DEF OneAction, Op
  <2>2. NotEnded'
    BY <1>d, <1>f DEF NotEnded
  <2>3. AcknowledgedIsKept'
    BY <1>d, <1>f DEF AcknowledgedIsKept, Op
  <2>4. AcknowledgedDecides'
    BY <1>d, <1>f DEF AcknowledgedDecides, Op
  <2> QED BY <1>f, <2>1, <2>2, <2>3, <2>4 DEF Promise
<1>1. ASSUME NEW c \in Clients, HandleRequest(c) PROVE Promise'
  <2>1. task[c] = "reading" /\ step[c] \notin {"idle", "send"}
    BY <1>1, <1>d DEF HandleRequest, NotSent
  <2>2. CASE pending = "none" /\ pending' = Op(c) /\ Becomes(c, "reserved") /\ UNCHANGED step
    <3>1. \A d \in Clients : task'[d] = IF d = c THEN "reserved" ELSE task[d]
      BY <2>2, <1>a DEF Becomes
    <3>2. OneAction'
      BY <1>1, <1>d, <1>e, <2>2, <3>1 DEF OneAction, HandleRequest, Op
    <3>3. NotSent'
      BY <1>d, <2>1, <2>2, <3>1 DEF NotSent
    <3>4. AcknowledgedIsKept'
      BY <1>1, <1>e, <2>2 DEF AcknowledgedIsKept, HandleRequest
    <3>5. NotEnded' /\ AcknowledgedDecides'
      BY <1>1, <1>d DEF NotEnded, AcknowledgedDecides, HandleRequest, Op, Alive
    <3> QED BY <3>2, <3>3, <3>4, <3>5 DEF Promise
  <2>3. CASE pending # "none" /\ UNCHANGED pending /\ Becomes(c, "none") /\ Goes(c, "failed")
    <3>1. \A d \in Clients : /\ task'[d] = IF d = c THEN "none" ELSE task[d]
                             /\ step'[d] = IF d = c THEN "failed" ELSE step[d]
      BY <2>3, <1>a DEF Becomes, Goes
    <3>2. NotSent'
      BY <1>d, <3>1 DEF NotSent
    <3>3. UNCHANGED <<gen, stage, exit, pending, actions, acked, ended>>
      BY <1>1, <2>3 DEF HandleRequest
    <3> QED BY <1>f, <2>1, <3>1, <3>2, <3>3 DEF Alive
  <2> QED BY <1>1, <2>2, <2>3 DEF HandleRequest, Reserve
<1>2. ASSUME NEW c \in Clients, Acknowledge(c) PROVE Promise'
  <2>1. task[c] = "reserved" /\ Op(c) = pending /\ Alive /\ ended[gen] = "no"
    BY <1>2, <1>a, <1>c, <1>d DEF Acknowledge, OneAction, NotEnded
  <2>2. \A d \in Clients : task'[d] = IF d = c THEN "written" ELSE task[d]
    BY <1>2, <1>a DEF Acknowledge, Becomes
  <2>3. UNCHANGED <<gen, stage, exit, pending, actions, ended>>
    BY <1>2 DEF Acknowledge
  <2>4. \A d \in Clients : (d = c /\ acked'[d] = gen) \/ acked'[d] = acked[d]
    <3>1. CASE step[c] = "sent"
      BY <1>2, <1>a, <3>1 DEF Acknowledge
    <3>2. CASE step[c] # "sent"
      BY <1>2, <3>2 DEF Acknowledge
    <3> QED BY <3>1, <3>2
  <2>5. \A d \in Clients : step'[d] \notin {"idle", "send"} \/ step'[d] = step[d]
    <3>1. CASE step[c] = "sent"
      BY <1>2, <1>a, <3>1 DEF Acknowledge, Goes
    <3>2. CASE step[c] # "sent"
      BY <1>2, <3>2 DEF Acknowledge
    <3> QED BY <3>1, <3>2
  <2>6. OneAction'
    BY <1>a, <1>d, <2>1, <2>2, <2>3, <2>4, SMTT(30) DEF OneAction, Op
  <2>7. NotSent'
    BY <1>d, <2>1, <2>2, <2>5 DEF NotSent
  <2>8. NotEnded'
    BY <1>d, <2>3 DEF NotEnded, Alive
  <2>9. AcknowledgedIsKept'
    BY <1>d, <2>2, <2>3, <2>4 DEF AcknowledgedIsKept, Op, Alive
  <2>10. AcknowledgedDecides'
    BY <1>d, <2>1, <2>3, <2>4 DEF AcknowledgedDecides, Op
  <2> QED BY <2>6, <2>7, <2>8, <2>9, <2>10 DEF Promise
<1>3. ASSUME NEW c \in Clients, Deliver(c) PROVE Promise'
  <2>1. task[c] = "written" /\ Op(c) = pending
    BY <1>3, <1>d DEF Deliver, OneAction
  <2>2. \A d \in Clients : task'[d] = IF d = c THEN "none" ELSE task[d]
    BY <1>3, <1>a DEF Deliver, Becomes
  <2>3. UNCHANGED <<gen, stage, exit, pending, acked, ended, step>>
    BY <1>3 DEF Deliver
  <2>4. /\ Len(actions') = Len(actions) + 1
        /\ \A i \in 1 .. Len(actions') :
             actions'[i] = IF i = Len(actions) + 1 THEN Op(c) ELSE actions[i]
    BY <1>3, <1>a, <1>b DEF Deliver
  <2>5. OneAction'
    <3>1. \A i \in 1 .. Len(actions') : i = Len(actions) + 1 \/ i \in 1 .. Len(actions)
      BY <1>a, <2>4
    <3>2. \A i \in 1 .. Len(actions') : actions'[i] = pending'
      BY <1>d, <2>1, <2>3, <2>4, <3>1 DEF OneAction
    <3> QED BY <1>d, <2>2, <2>3, <3>2 DEF OneAction, Op
  <2>6. NotSent' /\ NotEnded' /\ AcknowledgedDecides'
    BY <1>d, <2>1, <2>2, <2>3 DEF NotSent, NotEnded, AcknowledgedDecides, Op, Alive
  <2>7. AcknowledgedIsKept'
    <3>1. \A d \in Clients : acked[d] = gen => Op(d) = actions'[Len(actions')]
      BY <1>a, <1>d, <2>1, <2>4 DEF OneAction
    <3>2. Len(actions') \in 1 .. Len(actions')
      BY <1>a, <2>4
    <3> QED BY <2>3, <3>1, <3>2 DEF AcknowledgedIsKept, Contains, Op
  <2> QED BY <2>5, <2>6, <2>7 DEF Promise
<1>g. ASSUME actions # <<>>
      PROVE  /\ Head(actions) = pending
             /\ Len(Tail(actions)) \in Nat
             /\ \A i \in 1 .. Len(Tail(actions)) : Tail(actions)[i] = pending
  <2>1. 1 \in 1 .. Len(actions) /\ Len(Tail(actions)) = Len(actions) - 1
    BY <1>a, <1>g
  <2>2. \A i \in 1 .. Len(Tail(actions)) : i + 1 \in 1 .. Len(actions)
                                             /\ Tail(actions)[i] = actions[i + 1]
    BY <1>a, <1>g, <2>1
  <2> QED BY <1>a, <1>d, <1>g, <2>1, <2>2 DEF OneAction
<1>4. CASE StartupTakes \/ WatchTakes
  <2>1. /\ actions # <<>> /\ actions' = Tail(actions) /\ Alive
        /\ exit' \in {"signal", pending}
        /\ UNCHANGED <<gen, pending, task, step, acked, ended>>
    BY <1>4, <1>d, <1>g DEF StartupTakes, WatchTakes, Defer, Alive, OneAction
  <2>2. OneAction'
    BY <1>d, <1>g, <2>1 DEF OneAction, Op
  <2>3. NotSent' /\ NotEnded' /\ AcknowledgedDecides'
    BY <1>d, <2>1 DEF NotSent, NotEnded, AcknowledgedDecides, Op
  <2>4. AcknowledgedIsKept'
    BY <1>d, <2>1 DEF AcknowledgedIsKept, OneAction, Op
  <2> QED BY <2>2, <2>3, <2>4 DEF Promise
<1>5. CASE StartupEnds
  BY <1>5, <1>d, <1>f DEF StartupEnds, Alive, NotSent
<1>6. CASE Rebind
  BY <1>6, <1>d, <1>f DEF Rebind, Alive, NotSent
\* What dropping the tasks leaves.
<1>h. ASSUME DropTasks
      PROVE  /\ \A i \in 1 .. Len(actions') : actions'[i] = pending
             /\ \A c \in Clients : task'[c] = "none"
             /\ \A c \in Clients : task[c] = "written" => Contains(actions', Op(c))
             /\ \A c \in Clients : Contains(actions, Op(c)) => Contains(actions', Op(c))
  <2>1. /\ Len(actions') \in Nat /\ Len(actions') >= Len(actions)
        /\ \A i \in 1 .. Len(actions) : actions'[i] = actions[i]
        /\ \A i \in 1 .. Len(actions') :
             i > Len(actions) => \E c \in Held : actions'[i] = Op(c)
        /\ \A c \in Held : \E i \in 1 .. Len(actions') : i > Len(actions)
    BY <1>h, Dropped
  <2>2. \A c \in Held : Op(c) = pending
    BY <1>d DEF Held, OneAction
  <2>3. \A i \in 1 .. Len(actions') : i \in 1 .. Len(actions) \/ i > Len(actions)
    BY <1>a
  <2>4. \A i \in 1 .. Len(actions') : actions'[i] = pending
    BY <1>d, <2>1, <2>2, <2>3 DEF OneAction
  <2>5. ASSUME NEW c \in Clients, task[c] = "written" PROVE Contains(actions', Op(c))
    <3>1. c \in Held
      BY <2>5 DEF Held
    <3> QED BY <2>1, <2>2, <2>4, <3>1 DEF Contains
  <2>6. ASSUME NEW c \in Clients, Contains(actions, Op(c)) PROVE Contains(actions', Op(c))
    <3>1. PICK i \in 1 .. Len(actions) : actions[i] = Op(c)
      BY <2>6 DEF Contains
    <3>2. i \in 1 .. Len(actions') /\ actions'[i] = Op(c)
      BY <1>a, <2>1, <3>1
    <3> QED BY <3>2 DEF Contains
  <2>7. \A c \in Clients : task'[c] = "none"
    BY <1>h DEF DropTasks
  <2> QED BY <2>4, <2>5, <2>6, <2>7
<1>7. CASE EndpointFails
  <2>1. DropTasks /\ UNCHANGED <<gen, stage, exit, pending, acked, ended>>
    BY <1>7 DEF EndpointFails
  <2>2. OneAction'
    BY <1>d, <1>h, <2>1 DEF OneAction, Op
  <2>3. NotSent' /\ NotEnded' /\ AcknowledgedDecides'
    BY <1>d, <1>h, <2>1 DEF NotSent, NotEnded, AcknowledgedDecides, Op, Alive
  <2>4. AcknowledgedIsKept'
    BY <1>d, <1>h, <2>1 DEF AcknowledgedIsKept, Op, Alive
  <2> QED BY <2>2, <2>3, <2>4 DEF Promise
<1>8. CASE Signal
  <2>1. /\ exit' = "signal" /\ Alive
        /\ UNCHANGED <<gen, pending, actions, task, step, acked, ended>>
    BY <1>8 DEF Signal, Alive
  <2>2. OneAction' /\ AcknowledgedIsKept'
    BY <1>d, <2>1 DEF OneAction, AcknowledgedIsKept, Op
  <2>3. NotSent' /\ NotEnded' /\ AcknowledgedDecides'
    BY <1>d, <2>1 DEF NotSent, NotEnded, AcknowledgedDecides, Op
  <2> QED BY <2>2, <2>3 DEF Promise
\* However a generation ends, its end is the action it acknowledged, if any.
<1>i. ASSUME NEW e \in {"signal", "died", pending},
             ended' = [ended EXCEPT ![gen] = e] \/ UNCHANGED ended,
             UNCHANGED <<gen, acked>>, ~Alive'
      PROVE  NotEnded' /\ AcknowledgedDecides' /\ AcknowledgedIsKept'
  <2>1. \A g \in 1 .. MaxGen : ended'[g] = ended[g] \/ (g = gen /\ ended'[g] = e)
    BY <1>a, <1>i
  <2>2. NotEnded'
    BY <1>a, <1>d, <1>i, <2>1 DEF NotEnded
  <2>3. AcknowledgedDecides'
    BY <1>a, <1>d, <1>i, <2>1 DEF AcknowledgedDecides, OneAction, Op
  <2>4. AcknowledgedIsKept'
    BY <1>i DEF AcknowledgedIsKept
  <2> QED BY <2>2, <2>3, <2>4
<1>9. CASE Return
  <2>1. /\ DropTasks /\ UNCHANGED <<gen, exit, pending, acked>> /\ ~Alive'
        /\ exit \in {"signal", pending}
        /\ ended' = [ended EXCEPT ![gen] = exit]
    BY <1>9, <1>d DEF Return, Alive, Decided, OneAction
  <2>2. OneAction' /\ NotSent'
    BY <1>d, <1>h, <2>1 DEF OneAction, NotSent, Op
  <2> QED BY <1>i, <2>1, <2>2 DEF Promise
<1>10. CASE Dies
  <2>1. /\ UNCHANGED <<gen, exit, pending, actions, acked>> /\ ~Alive'
        /\ ended' = [ended EXCEPT ![gen] = "died"] \/ UNCHANGED ended
        /\ \A c \in Clients : task'[c] = "none"
    BY <1>10 DEF Dies, Alive
  <2>2. OneAction' /\ NotSent'
    BY <1>d, <2>1 DEF OneAction, NotSent, Op
  <2> QED BY <1>i, <2>1, <2>2 DEF Promise
<1>11. CASE Begin
  <2>1. /\ gen' = gen + 1 /\ pending' = "none" /\ actions' = <<>> /\ exit' = "none"
        /\ \A c \in Clients : task[c] = "none"
        /\ UNCHANGED <<task, step, acked, ended>>
    BY <1>11, <1>c DEF Begin, Alive
  <2>2. \A c \in Clients : acked'[c] # gen' /\ acked'[c] <= gen'
    BY <1>a, <1>d, <2>1 DEF OneAction
  <2>3. OneAction' /\ AcknowledgedIsKept'
    BY <2>1, <2>2 DEF OneAction, AcknowledgedIsKept
  <2>4. NotEnded'
    BY <1>a, <1>d, <2>1 DEF NotEnded
  <2>5. NotSent' /\ AcknowledgedDecides'
    BY <1>d, <2>1 DEF NotSent, AcknowledgedDecides, Op
  <2> QED BY <2>3, <2>4, <2>5 DEF Promise
<1>12. ASSUME NEW c \in Clients, Ask(c) PROVE Promise'
  <2>1. \A d \in Clients : step'[d] \in {"idle", "send"} => step[d] \in {"idle", "send"}
    BY <1>12, <1>a DEF Ask, Goes
  <2> QED BY <1>12, <1>d, <1>f, <2>1 DEF Ask, Alive, NotSent
<1>13. ASSUME NEW c \in Clients, Send(c) PROVE Promise'
  <2>1. UNCHANGED <<gen, stage, exit, pending, actions, acked, ended>> /\ task[c] = "none"
    BY <1>13, <1>d DEF Send, NotSent
  <2>2. \A d \in Clients :
          \/ d = c /\ task'[d] \in {"none", "reading"} /\ step'[d] \notin {"idle", "send"}
          \/ d # c /\ task'[d] = task[d] /\ step'[d] = step[d]
    <3>1. CASE Reachable
      BY <1>13, <1>a, <3>1 DEF Send, Goes, Becomes
    <3>2. CASE ~Reachable
      BY <1>13, <1>a, <2>1, <3>2 DEF Send, Goes
    <3> QED BY <3>1, <3>2
  <2>3. NotSent'
    BY <1>d, <2>2 DEF NotSent
  <2> QED BY <1>f, <2>1, <2>2, <2>3 DEF Alive
<1>14. ASSUME NEW c \in Clients, Confirmed(c) \/ GiveUp(c) PROVE Promise'
  <2>1. UNCHANGED <<gen, stage, exit, pending, actions, task, acked, ended>>
    BY <1>14 DEF Confirmed, GiveUp
  <2>2. \A d \in Clients : step'[d] \in {"idle", "send"} => step[d] \in {"idle", "send"}
    BY <1>14, <1>a DEF Confirmed, GiveUp, Goes
  <2>3. NotSent'
    BY <1>d, <2>1, <2>2 DEF NotSent
  <2> QED BY <1>f, <2>1, <2>3 DEF Alive
<1>15. CASE UNCHANGED vars
  BY <1>15, <1>d, <1>f DEF vars, Alive, NotSent
<1> QED
  BY <1>1, <1>2, <1>3, <1>4, <1>5, <1>6, <1>7, <1>8, <1>9, <1>10, <1>11, <1>12, <1>13,
     <1>14, <1>15 DEF Next, Serve, Run

\* The promise of the control plane holds in every reachable state.
LEMMA PromiseHolds == Spec => []Promise
<1>1. Init => Promise
  BY ControlAssumption
  DEF Init, Promise, OneAction, NotSent, NotEnded, AcknowledgedIsKept, AcknowledgedDecides,
      ControlAssumption
<1> QED
  BY <1>1, PromiseStep, TypedAndDecided, PTL DEF Spec

\* An acknowledged stop or reload is held by its task, the channel or the loop as
\* long as the generation that acknowledged it runs.
THEOREM NeverLost == Spec => []AcknowledgedIsKept
<1>1. Promise => AcknowledgedIsKept
  BY DEF Promise
<1> QED
  BY <1>1, PromiseHolds, PTL

\* A generation ends by the action it acknowledged, by a signal or by a failure.
THEOREM DecidesTheEnd == Spec => []AcknowledgedDecides
<1>1. Promise => AcknowledgedDecides
  BY DEF Promise
<1> QED
  BY <1>1, PromiseHolds, PTL
=============================================================================
