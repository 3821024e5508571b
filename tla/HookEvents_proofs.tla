--------------------------- MODULE HookEvents_proofs ---------------------------
(***************************************************************************)
(* Proofs about HookEvents, for every setting of the three intervals: the  *)
(* type invariant, the distance of two writes, and how long a change can   *)
(* stay unsaved.                                                           *)
(***************************************************************************)
EXTENDS HookEvents, TLAPS

\* The two halves of the type invariant: what is counted, and what is chosen.
Numbers ==
    /\ now \in 1 .. MaxTime /\ since \in 1 .. now
    /\ version \in 1 .. MaxVersion
    /\ saved \in 0 .. version /\ captured \in 0 .. version
    /\ pending \in Nat /\ nextPoll \in Nat /\ lastWrite \in Nat
    /\ faults \in 0 .. MaxFaults

Flags ==
    /\ hooked \in BOOLEAN /\ woken \in BOOLEAN /\ heard \in BOOLEAN
    /\ orphans \subseteq {"starting", "waiting"}
    /\ waiter \in {"off", "starting", "waiting", "fired"}
    /\ woken => waiter # "waiting" /\ "waiting" \notin orphans
    /\ waiter # "off" => hooked
    /\ stage \in {"start", "first", "first commit", "loop", "due", "commit"}

\* Membership is true or false.
LEMMA Decided == ASSUME NEW S, NEW e PROVE (e \in S) \in BOOLEAN
BY SMT

\* TypeOK is the two halves.
LEMMA Halves == TypeOK <=> Numbers /\ Flags
BY Zenon DEF TypeOK, Numbers, Flags

\* Every step keeps the counters in their ranges.
LEMMA NumbersStep == Numbers /\ [Next]_vars => Numbers'
<1> SUFFICES ASSUME Numbers, [Next]_vars PROVE Numbers'
  OBVIOUS
<1> USE HookAssumption DEF HookAssumption, Numbers
<1>1. CASE Change
  BY <1>1 DEF Change, save, timing
<1>2. CASE Register \/ OrphanRegisters
  BY <1>2 DEF Register, OrphanRegisters, save, timing, history
<1>3. CASE ArmHookEvent
  BY <1>3 DEF ArmHookEvent, timing, history
<1>4. CASE Capture
  <2>1. captured' = version /\ UNCHANGED <<now, version, saved, faults, since>>
    BY <1>4 DEF Capture, history
  <2>2. UNCHANGED <<pending, nextPoll, lastWrite>>
    BY <1>4 DEF Capture, timing
  <2> QED
    BY <2>1, <2>2
<1>12. CASE FirstCommit
  <2>1. /\ saved' = captured /\ nextPoll' = now + Poll /\ lastWrite' = now
        /\ since' = now
        /\ UNCHANGED <<now, version, captured, pending, faults>>
    BY <1>12 DEF FirstCommit
  <2> QED
    BY <2>1
<1>5. CASE HookEvent
  BY <1>5 DEF HookEvent, Deadline, Later, save, history
<1>6. CASE PollTick
  <2>1. nextPoll' \in Nat
    BY <1>6 DEF PollTick, PollReady
  <2> QED
    BY <1>6, <2>1 DEF PollTick, Deadline, Later, save, history
<1>7. CASE TimerFires
  BY <1>7 DEF TimerFires, history
<1>8. CASE Commit \/ SaveFails
  BY <1>8 DEF Commit, SaveFails, timing
<1>9. CASE Restart \/ Killed
  BY <1>9 DEF Restart, Killed
<1>10. CASE Tick
  BY <1>10 DEF Tick, save, timing, history
<1>11. CASE UNCHANGED vars
  BY <1>11 DEF vars, save, timing, history
<1> QED
  BY <1>1, <1>2, <1>3, <1>4, <1>5, <1>6, <1>7, <1>8, <1>9, <1>10, <1>11,
     <1>12 DEF Next

\* Every step keeps the channel and its waiters consistent.
LEMMA FlagsStep == Flags /\ [Next]_vars => Flags'
<1> SUFFICES ASSUME Flags, [Next]_vars PROVE Flags'
  OBVIOUS
<1> USE DEF Flags
<1>1. CASE Change
  <2>4. stage' = stage /\ hooked' = hooked
    BY <1>1, Zenon DEF Change, save
  <2>5. heard' \in BOOLEAN
    <3>1. heard' = (waiter \in {"waiting", "fired"})
      BY <1>1, Zenon DEF Change
    <3>2. (waiter \in {"waiting", "fired"}) \in BOOLEAN
      BY Decided, Zenon
    <3> QED
      BY <3>1, <3>2, Zenon
  <2>1. stage' = stage /\ hooked' = hooked /\ heard' \in BOOLEAN
    BY <2>4, <2>5
  <2>2. CASE hooked /\ SignalChannel
    <3>1. CASE waiter = "waiting"
      BY <2>1, <2>2, <3>1, Zenon DEF SignalChannel
    <3>2. CASE waiter # "waiting" /\ "waiting" \in orphans
      BY <2>1, <2>2, <3>2, Zenon DEF SignalChannel
    <3>3. CASE waiter # "waiting" /\ "waiting" \notin orphans
      BY <2>1, <2>2, <3>3, Zenon DEF SignalChannel
    <3> QED
      BY <3>1, <3>2, <3>3
  <2>3. CASE UNCHANGED channel
    BY <2>1, <2>3, Zenon DEF channel
  <2> QED
    BY <1>1, <2>2, <2>3, Zenon DEF Change
<1>2. CASE Register \/ OrphanRegisters
  BY <1>2, Zenon DEF Register, OrphanRegisters, save, history
<1>3. CASE ArmHookEvent
  <2>1. /\ stage' = "first" /\ UNCHANGED <<woken, orphans, heard>>
        /\ \/ hooked' = TRUE /\ waiter' = "starting"
           \/ UNCHANGED <<hooked, waiter>>
    BY <1>3 DEF ArmHookEvent, history
  <2>2. CASE hooked' = TRUE /\ waiter' = "starting"
    BY <2>1, <2>2, Zenon
  <2>3. CASE UNCHANGED <<hooked, waiter>>
    BY <2>1, <2>3, Zenon
  <2> QED
    BY <2>1, <2>2, <2>3
<1>12. CASE Capture
  BY <1>12, Zenon DEF Capture, channel, history
<1>4. CASE FirstCommit
  BY <1>4, Zenon DEF FirstCommit, channel
<1>5. CASE HookEvent
  BY <1>5, Zenon DEF HookEvent, HookReady, save, history
<1>6. CASE PollTick
  BY <1>6, Zenon DEF PollTick, save, channel, history
<1>7. CASE TimerFires
  BY <1>7, Zenon DEF TimerFires, channel, history
<1>8. CASE Commit
  BY <1>8, Zenon DEF Commit, channel
<1>13. CASE SaveFails
  BY <1>13, Zenon DEF SaveFails, channel
<1>9. CASE Restart
  BY <1>9, Zenon DEF Restart, channel
<1>14. CASE Killed
  BY <1>14, Zenon DEF Killed
<1>10. CASE Tick
  BY <1>10, Zenon DEF Tick, save, channel, history
<1>11. CASE UNCHANGED vars
  BY <1>11, Zenon DEF vars, save, channel, history
<1> QED
  BY <1>1, <1>2, <1>3, <1>4, <1>5, <1>6, <1>7, <1>8, <1>9, <1>10, <1>11,
     <1>12, <1>13, <1>14 DEF Next

\* Every variable keeps its type, and tmux never lets a process wait on a channel
\* that was signalled.
THEOREM TypeCorrect == Spec => []TypeOK
<1>1. Init => Numbers
  BY HookAssumption DEF HookAssumption, Init, Numbers
<1>2. Init => Flags
  BY Zenon DEF Init, Flags
<1>3. Spec => []Numbers
  BY <1>1, NumbersStep, PTL DEF Spec
<1>4. Spec => []Flags
  BY <1>2, FlagsStep, PTL DEF Spec
<1> QED
  BY <1>3, <1>4, Halves, PTL

\* A deadline is never set closer to the last write than the minimum interval,
\* none survives into another watcher, and a save is only under way once its
\* deadline has passed.
DeadlinesInv ==
    /\ stage \notin {"loop", "due", "commit"} => pending = 0
    /\ pending # 0 => pending >= lastWrite + MinInterval
    /\ stage \in {"due", "commit"} => pending = 0 /\ now >= lastWrite + MinInterval

\* Every step keeps the deadlines right.
LEMMA DeadlinesStep == Numbers /\ DeadlinesInv /\ [Next]_vars => DeadlinesInv'
<1> SUFFICES ASSUME Numbers, DeadlinesInv, [Next]_vars PROVE DeadlinesInv'
  OBVIOUS
<1>0. /\ now \in Nat /\ pending \in Nat /\ lastWrite \in Nat
      /\ MinInterval \in Nat /\ Debounce \in Nat
  BY HookAssumption DEF HookAssumption, Numbers
<1> USE <1>0 DEF DeadlinesInv
<1>1. CASE Change \/ Register \/ OrphanRegisters \/ UNCHANGED vars
  BY <1>1 DEF Change, Register, OrphanRegisters, vars, save, timing
<1>2. CASE Tick
  BY <1>2 DEF Tick, save, timing
<1>3. CASE ArmHookEvent \/ Capture
  BY <1>3 DEF ArmHookEvent, Capture, timing
<1>4. CASE FirstCommit
  BY <1>4 DEF FirstCommit
<1>5. CASE HookEvent
  BY <1>5 DEF HookEvent, HookReady, Looping, Deadline, Later, save
<1>6. CASE PollTick
  BY <1>6 DEF PollTick, PollReady, Looping, Deadline, Later, save
<1>7. CASE TimerFires
  BY <1>7 DEF TimerFires, TimerReady, Looping
<1>8. CASE Commit \/ SaveFails
  BY <1>8 DEF Commit, SaveFails, timing
<1>9. CASE Restart \/ Killed
  BY <1>9 DEF Restart, Killed
<1> QED
  BY <1>1, <1>2, <1>3, <1>4, <1>5, <1>6, <1>7, <1>8, <1>9 DEF Next

\* Two writes of the loop are a minimum interval apart, for every debounce, every
\* minimum and poll interval and every sequence of events, ticks and failures.
THEOREM WritesSpaced == Spec => WritesAreSpaced
<1>1. Init => DeadlinesInv
  BY DEF Init, DeadlinesInv
<1>2. Spec => []Numbers
  BY TypeCorrect, Halves, PTL
<1>3. Spec => []DeadlinesInv
  BY <1>1, <1>2, DeadlinesStep, PTL DEF Spec
<1>4. DeadlinesInv /\ [Next]_vars =>
        [stage = "commit" /\ saved' # saved => now >= lastWrite + MinInterval]_vars
  BY DEF DeadlinesInv
<1> QED
  BY <1>3, <1>4, PTL DEF Spec, WritesAreSpaced

\* The next save is decided no later than the poll after the last change, or than the
\* deadline that poll has set.
Settled == since + Later(Poll, MinInterval)

\* A waiter that has ended, or will as soon as it registers, calls for another event.
EventAhead == waiter = "fired" \/ (waiter = "starting" /\ woken)

\* In the loop time stands still while anything is ready, so no deadline is ever passed;
\* a deadline that the poll has set is put off at most once.
TimeInv ==
    /\ lastWrite <= since
    /\ stage \in {"loop", "due", "commit"} => nextPoll <= now + Poll
    /\ Looping =>
          /\ now <= nextPoll \/ now = since
          /\ pending # 0 => now <= pending
          /\ waiter = "fired" /\ woken => now = since
PollInv ==
    Looping =>
        \/ nextPoll <= since + Poll
        \/ pending # 0 /\ pending <= Settled
        \/ pending # 0 /\ pending <= Settled + Debounce /\ ~EventAhead

\* What was heard is at the waiter that ended, or behind a deadline that at most one more
\* event puts off; what changed after the capture of a save is still at the waiter.
Soon == Later(since + Debounce, lastWrite + MinInterval)
HeardInv ==
    /\ stage \in {"first commit", "commit"} /\ heard /\ captured # version => waiter = "fired"
    /\ Looping /\ heard /\ saved # version =>
          \/ waiter = "fired" /\ now = since
          \/ pending # 0 /\ pending <= Soon
          \/ pending # 0 /\ pending <= Soon + Debounce /\ ~EventAhead

\* The tick after the ones that were missed is the next one after now.
LEMMA NextTick ==
    ASSUME NEW m \in Nat, NEW n \in Nat, NEW p \in Nat \ {0}, m >= n
    PROVE  /\ n + ((m - n) \div p + 1) * p \in Nat
           /\ n + ((m - n) \div p + 1) * p <= m + p
           /\ n + ((m - n) \div p + 1) * p > m
<1> DEFINE q == (m - n) \div p
           r == (m - n) % p
<1>1. q \in Nat /\ r \in Nat /\ r < p /\ m - n = p * q + r
  OBVIOUS
<1>2. p * q \in Nat /\ (q + 1) * p = p * q + p
  BY <1>1
<1> QED
  BY <1>1, <1>2

\* What a step of the loop finds: numbers, and two intervals that take time.
LEMMA Times ==
    ASSUME Numbers
    PROVE  /\ now \in Nat /\ now > 0 /\ since \in Nat /\ since <= now
           /\ pending \in Nat /\ nextPoll \in Nat /\ lastWrite \in Nat
           /\ MinInterval \in Nat /\ Debounce \in Nat /\ Poll \in Nat \ {0}
BY HookAssumption DEF HookAssumption, Numbers

\* A poll that is ready sets the next tick after now, and at most a period away.
LEMMA TickSkips ==
    ASSUME Numbers, PollTick
    PROVE  nextPoll' \in Nat /\ nextPoll' > now /\ nextPoll' <= now + Poll
<1>1. /\ now \in Nat /\ nextPoll \in Nat /\ Poll \in Nat \ {0} /\ now >= nextPoll
      /\ nextPoll' = nextPoll + ((now - nextPoll) \div Poll + 1) * Poll
  BY Times DEF PollTick, PollReady
<1> QED
  BY <1>1, NextTick

\* Every step keeps the clock behind what is ready.
LEMMA TimeStep ==
    Numbers /\ DeadlinesInv /\ TimeInv /\ [Next]_vars => TimeInv'
<1> SUFFICES ASSUME Numbers, DeadlinesInv, TimeInv, [Next]_vars
             PROVE  TimeInv'
  OBVIOUS
<1>0. /\ now \in Nat /\ now > 0 /\ since \in Nat /\ since <= now
      /\ pending \in Nat /\ nextPoll \in Nat /\ lastWrite \in Nat
      /\ MinInterval \in Nat /\ Debounce \in Nat /\ Poll \in Nat \ {0}
  BY Times
<1> USE <1>0 DEF TimeInv, Looping
<1>1. CASE Change
  <2>1. since' = now /\ UNCHANGED <<now, stage, pending, nextPoll, lastWrite>>
    BY <1>1 DEF Change, save, timing
  <2> QED
    BY <2>1
<1>2. CASE Register \/ OrphanRegisters
  <2>1. /\ ~woken'
        /\ UNCHANGED <<now, since, stage, pending, nextPoll, lastWrite>>
    BY <1>2 DEF Register, OrphanRegisters, save, timing, history
  <2> QED
    BY <2>1
<1>3. CASE Tick
  <2>1. /\ now' = now + 1
        /\ UNCHANGED <<woken, waiter, since, stage, pending, nextPoll, lastWrite>>
        /\ Looping => ~HookReady /\ ~PollReady /\ ~TimerReady
    BY <1>3 DEF Tick, channel, save, timing, history
  <2>2. Looping => /\ waiter # "fired" /\ now < nextPoll
                   /\ pending # 0 => now < pending
    BY <2>1 DEF HookReady, PollReady, TimerReady
  <2> QED
    BY <2>1, <2>2
<1>4. CASE ArmHookEvent \/ Capture
  <2>1. /\ stage' # "loop" /\ UNCHANGED <<now, since, pending, nextPoll, lastWrite>>
        /\ stage' \in {"loop", "due", "commit"} => stage = "due"
    BY <1>4 DEF ArmHookEvent, Capture, timing, history
  <2> QED
    BY <2>1
<1>5. CASE FirstCommit
  <2>1. /\ pending' = 0 /\ since' = now /\ lastWrite' = now /\ now' = now
        /\ nextPoll' = now + Poll
    BY <1>5 DEF FirstCommit, DeadlinesInv
  <2> QED
    BY <2>1
<1>6. CASE HookEvent
  <2>1. /\ waiter' = "starting" /\ pending' \in Nat /\ pending' >= now
        /\ UNCHANGED <<now, since, stage, nextPoll, lastWrite>>
    BY <1>6 DEF HookEvent, Deadline, Later, save, history
  <2> QED
    BY <2>1
<1>7. CASE PollTick
  <2>1. /\ pending' \in Nat /\ pending' >= now
        /\ UNCHANGED <<now, woken, waiter, since, stage, lastWrite>>
    BY <1>7 DEF PollTick, Deadline, Later, channel, save, history
  <2>2. nextPoll' \in Nat /\ nextPoll' > now /\ nextPoll' <= now + Poll
    BY <1>7, TickSkips
  <2> QED
    BY <2>1, <2>2
<1>8. CASE TimerFires
  BY <1>8 DEF TimerFires, TimerReady, history
<1>9. CASE Commit \/ SaveFails
  <2>1. /\ stage \in {"due", "commit"} /\ since' = now /\ lastWrite' <= now
        /\ UNCHANGED <<now, pending, nextPoll>>
    BY <1>9 DEF Commit, SaveFails, timing
  <2> QED
    BY <2>1 DEF DeadlinesInv
<1>10. CASE Restart \/ Killed
  BY <1>10 DEF Restart, Killed
<1>11. CASE UNCHANGED vars
  BY <1>11 DEF vars, channel, save, timing, history
<1> QED
  BY <1>1, <1>2, <1>3, <1>4, <1>5, <1>6, <1>7, <1>8, <1>9, <1>10, <1>11 DEF Next

\* In the loop the poll, or a deadline it has set, is never further off than promised.
LEMMA PollStep ==
    Numbers /\ TimeInv /\ PollInv /\ [Next]_vars => PollInv'
<1> SUFFICES ASSUME Numbers, TimeInv, PollInv, [Next]_vars PROVE PollInv'
  OBVIOUS
<1>0. /\ now \in Nat /\ now > 0 /\ since \in Nat /\ since <= now
      /\ pending \in Nat /\ nextPoll \in Nat /\ lastWrite \in Nat
      /\ MinInterval \in Nat /\ Debounce \in Nat /\ Poll \in Nat \ {0}
      /\ lastWrite <= since
  BY Times DEF TimeInv
<1> USE <1>0 DEF Looping, Settled, Later
<1>1. CASE Change
  <2>1. since' = now /\ nextPoll' = nextPoll /\ stage' = stage
    BY <1>1 DEF Change, save, timing
  <2> QED
    BY <2>1 DEF PollInv, TimeInv
<1>2. CASE Register \/ OrphanRegisters
  <2>1. EventAhead' => EventAhead
    BY <1>2 DEF Register, OrphanRegisters, EventAhead
  <2>2. UNCHANGED <<since, stage, pending, nextPoll>>
    BY <1>2 DEF Register, OrphanRegisters, save, timing, history
  <2> QED
    BY <2>1, <2>2 DEF PollInv
<1>3. CASE Tick \/ UNCHANGED vars
  <2>1. UNCHANGED <<since, stage, pending, nextPoll, waiter, woken>>
    BY <1>3 DEF Tick, vars, channel, save, timing, history
  <2>2. EventAhead' <=> EventAhead
    BY <2>1 DEF EventAhead
  <2> QED
    BY <2>1, <2>2 DEF PollInv
<1>4. CASE ArmHookEvent \/ Capture \/ TimerFires \/ Restart \/ Killed
  <2>1. stage' # "loop"
    BY <1>4 DEF ArmHookEvent, Capture, TimerFires, Restart, Killed
  <2> QED
    BY <2>1 DEF PollInv
<1>5. CASE FirstCommit
  <2>1. nextPoll' = now + Poll /\ since' = now
    BY <1>5 DEF FirstCommit
  <2> QED
    BY <2>1 DEF PollInv
<1>6. CASE HookEvent
  <2>1. /\ stage = "loop" /\ waiter = "fired" /\ waiter' = "starting"
        /\ pending' = Later(now + Debounce, lastWrite + MinInterval)
        /\ UNCHANGED <<since, stage, nextPoll, woken>>
    BY <1>6 DEF HookEvent, HookReady, Deadline, save, history
  <2>2. EventAhead
    BY <2>1 DEF EventAhead
  <2>3. nextPoll <= since + Poll \/ (pending # 0 /\ pending <= Settled)
    BY <2>1, <2>2 DEF PollInv
  <2>4. CASE nextPoll <= since + Poll
    BY <2>1, <2>4 DEF PollInv
  <2>5. CASE nextPoll > since + Poll
    <3>1. now # since /\ now <= pending /\ pending <= Settled
      BY <2>1, <2>3, <2>5 DEF TimeInv
    <3>2. ~EventAhead'
      BY <2>1, <3>1 DEF EventAhead, TimeInv
    <3>3. pending' # 0 /\ pending' <= Settled + Debounce
      BY <2>1, <3>1
    <3> QED
      BY <2>1, <3>2, <3>3 DEF PollInv
  <2> QED
    BY <2>4, <2>5
<1>7. CASE PollTick
  <2>1. /\ stage = "loop" /\ nextPoll <= now
        /\ pending' = Later(now, lastWrite + MinInterval)
        /\ UNCHANGED <<since, stage, waiter, woken>>
    BY <1>7 DEF PollTick, PollReady, Deadline, save, channel, history
  <2>2. EventAhead' <=> EventAhead
    BY <2>1 DEF EventAhead
  <2>3. pending' # 0 /\ pending' \in Nat /\ Settled \in Nat
    BY <2>1
  <2>4. CASE nextPoll <= since + Poll
    <3>1. now <= since + Poll
      BY <2>1, <2>4 DEF TimeInv
    <3>2. pending' <= Settled
      BY <2>1, <3>1
    <3> QED
      BY <2>1, <2>3, <3>2 DEF PollInv
  <2>5. CASE pending # 0 /\ pending <= Settled
    <3>1. pending' <= Settled
      BY <2>1, <2>5 DEF TimeInv
    <3> QED
      BY <2>1, <2>3, <3>1 DEF PollInv
  <2>6. CASE pending # 0 /\ pending <= Settled + Debounce /\ ~EventAhead
    <3>1. pending' <= Settled + Debounce
      BY <2>1, <2>6 DEF TimeInv
    <3> QED
      BY <2>1, <2>2, <2>3, <2>6, <3>1 DEF PollInv
  <2> QED
    BY <2>1, <2>4, <2>5, <2>6 DEF PollInv
<1>8. CASE Commit \/ SaveFails
  <2>1. /\ stage \in {"due", "commit"} /\ since' = now /\ nextPoll' = nextPoll
    BY <1>8 DEF Commit, SaveFails, timing
  <2> QED
    BY <2>1 DEF PollInv, TimeInv
<1> QED
  BY <1>1, <1>2, <1>3, <1>4, <1>5, <1>6, <1>7, <1>8 DEF Next

\* A change that met a waiter is never forgotten, and never put off twice.
LEMMA HeardStep ==
    Numbers /\ Flags /\ TimeInv /\ HeardInv /\ [Next]_vars => HeardInv'
<1> SUFFICES ASSUME Numbers, Flags, TimeInv, HeardInv, [Next]_vars PROVE HeardInv'
  OBVIOUS
<1>0. /\ now \in Nat /\ now > 0 /\ since \in Nat /\ since <= now
      /\ pending \in Nat /\ lastWrite \in Nat
      /\ MinInterval \in Nat /\ Debounce \in Nat
      /\ lastWrite <= since
  BY Times DEF TimeInv
<1> USE <1>0 DEF Looping, Soon, Later
<1>1. CASE Change
  <2>1. since' = now /\ now' = now /\ (hooked => SignalChannel)
    BY <1>1 DEF Change
  <2>2. heard' = (waiter \in {"waiting", "fired"})
    BY <1>1 DEF Change
  <2>3. CASE waiter \in {"waiting", "fired"}
    <3>1. waiter' = "fired"
      BY <2>1, <2>3 DEF Flags, SignalChannel
    <3> QED
      BY <2>1, <3>1 DEF HeardInv
  <2>4. CASE waiter \notin {"waiting", "fired"}
    <3>1. ~heard'
      BY <2>2, <2>4
    <3> QED
      BY <3>1 DEF HeardInv
  <2> QED
    BY <2>3, <2>4
<1>2. CASE Register \/ OrphanRegisters
  <2>1. EventAhead' => EventAhead
    BY <1>2 DEF Register, OrphanRegisters, EventAhead
  <2>2. waiter = "fired" => waiter' = "fired"
    BY <1>2 DEF Register, OrphanRegisters
  <2>3. UNCHANGED <<now, since, stage, pending, lastWrite, heard, saved, version, captured>>
    BY <1>2 DEF Register, OrphanRegisters, save, timing, history
  <2> QED
    BY <2>1, <2>2, <2>3 DEF HeardInv
<1>3. CASE Tick \/ UNCHANGED vars
  <2>1. UNCHANGED <<since, stage, pending, lastWrite, waiter, woken,
                    heard, saved, version, captured>>
    BY <1>3 DEF Tick, vars, channel, save, timing, history
  <2>2. EventAhead' <=> EventAhead
    BY <2>1 DEF EventAhead
  <2>3. stage = "loop" /\ waiter = "fired" => now' = now
    BY <1>3 DEF Tick, HookReady, vars
  <2> QED
    BY <2>1, <2>2, <2>3 DEF HeardInv
<1>4. CASE Capture
  BY <1>4 DEF Capture, HeardInv
<1>9. CASE ArmHookEvent \/ TimerFires
  BY <1>9 DEF ArmHookEvent, TimerFires, HeardInv
<1>10. CASE SaveFails \/ Restart \/ Killed
  BY <1>10 DEF SaveFails, Restart, Killed, HeardInv
<1>5. CASE FirstCommit \/ Commit
  <2>1. /\ stage \in {"first commit", "commit"} /\ stage' = "loop"
        /\ saved' = captured /\ since' = now
        /\ UNCHANGED <<now, version, waiter, captured, heard>>
    BY <1>5 DEF FirstCommit, Commit, channel
  <2> QED
    BY <2>1 DEF HeardInv
<1>6. CASE HookEvent
  <2>1. /\ stage = "loop" /\ waiter = "fired" /\ waiter' = "starting"
        /\ pending' = Later(now + Debounce, lastWrite + MinInterval)
        /\ UNCHANGED <<now, since, stage, lastWrite, woken, heard, saved, version>>
    BY <1>6 DEF HookEvent, HookReady, Deadline, save, history
  <2>2. EventAhead
    BY <2>1 DEF EventAhead
  <2>3. pending' # 0 /\ pending' \in Nat /\ Soon' = Soon
    BY <2>1
  <2>4. CASE heard /\ saved # version
    <3>1. now = since \/ (pending # 0 /\ pending <= Soon)
      BY <2>1, <2>2, <2>4 DEF HeardInv
    <3>2. CASE now = since
      <4>1. pending' <= Soon
        BY <2>1, <3>2
      <4> QED
        BY <2>1, <2>3, <4>1 DEF HeardInv
    <3>3. CASE now # since
      <4>1. now <= pending /\ pending <= Soon
        BY <2>1, <3>1, <3>3 DEF TimeInv
      <4>2. ~EventAhead'
        BY <2>1, <3>3 DEF EventAhead, TimeInv
      <4>3. pending' <= Soon + Debounce
        BY <2>1, <4>1
      <4> QED
        BY <2>1, <2>3, <4>2, <4>3 DEF HeardInv
    <3> QED
      BY <3>2, <3>3
  <2>5. CASE ~(heard /\ saved # version)
    BY <2>1, <2>5 DEF HeardInv
  <2> QED
    BY <2>4, <2>5
<1>7. CASE PollTick
  <2>1. /\ stage = "loop"
        /\ pending' = Later(now, lastWrite + MinInterval)
        /\ UNCHANGED <<now, since, stage, lastWrite, waiter, woken, heard, saved, version>>
    BY <1>7 DEF PollTick, PollReady, Deadline, save, channel, history
  <2>2. (EventAhead' <=> EventAhead) /\ Soon' = Soon
    BY <2>1 DEF EventAhead
  <2>3. pending' # 0 /\ pending' \in Nat /\ Soon \in Nat
    BY <2>1
  <2>4. pending # 0 => pending' <= Later(pending, Soon)
    BY <2>1 DEF TimeInv
  <2> HIDE DEF Soon
  <2> QED
    BY <2>1, <2>2, <2>3, <2>4 DEF HeardInv
<1> QED
  BY <1>1, <1>2, <1>3, <1>4, <1>5, <1>6, <1>7, <1>9, <1>10 DEF Next

\* What the clock, the poll and the events are held to, in every state.
LEMMA TimeKept == Spec => [](Numbers /\ Flags /\ DeadlinesInv /\ TimeInv)
<1>1. Init => DeadlinesInv /\ TimeInv
  BY DEF Init, DeadlinesInv, TimeInv, Looping
<1>2. Spec => []Numbers /\ []Flags
  BY TypeCorrect, Halves, PTL
<1>3. Spec => []DeadlinesInv
  BY <1>1, <1>2, DeadlinesStep, PTL DEF Spec
<1>4. Spec => []TimeInv
  BY <1>1, <1>2, <1>3, TimeStep, PTL DEF Spec
<1> QED
  BY <1>2, <1>3, <1>4, PTL

\* For every setting of the three intervals, nothing is unsaved for longer than the poll or
\* the minimum interval and one debounce since the last change, save or start of the loop,
\* whatever becomes of the signals and however many failed saves and restarts there are.
THEOREM ChangesSaved == Spec => []ChangesAreSaved
<1>1. Init => PollInv
  BY DEF Init, PollInv, Looping
<1>2. Spec => []PollInv
  BY <1>1, TimeKept, PollStep, PTL DEF Spec
<1>3. Numbers /\ TimeInv /\ PollInv => ChangesAreSaved
  <2> SUFFICES ASSUME Numbers, TimeInv, PollInv, stage = "loop"
               PROVE  now <= Settled + Debounce
    BY DEF ChangesAreSaved, Looping, Settled
  <2>1. /\ now \in Nat /\ since \in Nat /\ pending \in Nat /\ nextPoll \in Nat
        /\ MinInterval \in Nat /\ Debounce \in Nat /\ Poll \in Nat
    BY Times
  <2>2. /\ now <= nextPoll \/ now = since
        /\ pending # 0 => now <= pending
    BY DEF TimeInv, Looping
  <2>3. \/ nextPoll <= since + Poll
        \/ pending # 0 /\ pending <= Settled + Debounce
    BY <2>1 DEF PollInv, Looping, Settled, Later
  <2> QED
    BY <2>1, <2>2, <2>3 DEF Settled, Later
<1> QED
  BY <1>2, <1>3, TimeKept, PTL

\* For every setting of the three intervals, changes the last of which met a waiter are
\* saved without the poll: within two debounces of it, or the minimum interval and one.
THEOREM HeardSaved == Spec => []HeardIsSaved
<1>1. Init => HeardInv
  BY DEF Init, HeardInv, Looping
<1>2. Spec => []HeardInv
  BY <1>1, TimeKept, HeardStep, PTL DEF Spec
<1>3. Numbers /\ TimeInv /\ HeardInv => HeardIsSaved
  <2> SUFFICES ASSUME Numbers, TimeInv, HeardInv,
                      stage = "loop", heard, saved # version
               PROVE  now <= Soon + Debounce
    BY DEF HeardIsSaved, Looping, Soon
  <2>1. /\ now \in Nat /\ since \in Nat /\ pending \in Nat /\ lastWrite \in Nat
        /\ MinInterval \in Nat /\ Debounce \in Nat
    BY Times
  <2>2. pending # 0 => now <= pending
    BY DEF TimeInv, Looping
  <2>3. \/ now = since
        \/ pending # 0 /\ pending <= Soon + Debounce
    BY <2>1 DEF HeardInv, Looping, Soon, Later
  <2> QED
    BY <2>1, <2>2, <2>3 DEF Soon, Later
<1> QED
  BY <1>2, <1>3, TimeKept, PTL
=============================================================================
