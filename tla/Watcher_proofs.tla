---------------------------- MODULE Watcher_proofs ----------------------------
(***************************************************************************)
(* Proofs about Watcher, for any set of structures, and any number of      *)
(* servers, snapshots, changes and faults, with automatic restore or       *)
(* without it.                                                             *)
(***************************************************************************)
EXTENDS Watcher, TLAPS

\* A record of a server, and one of a snapshot, by their fields.
LEMMA ServerRecord ==
    \A s \in Servers : /\ s.gen \in 1 .. MaxGen /\ s.shape \in Shapes /\ s.half \in BOOLEAN
                       /\ \A x \in Shapes : [s EXCEPT !.shape = x] \in Servers
                       /\ \A h \in BOOLEAN : [s EXCEPT !.half = h] \in Servers
                       /\ \A x \in Shapes :
                            [s EXCEPT !.half = FALSE, !.shape = x] \in Servers
BY DEF Servers

LEMMA FreshType == \A g \in 1 .. MaxGen : Fresh(g) \in Servers
BY WatcherAssumption DEF Fresh, Servers, WatcherAssumption

LEMMA BeginType == ASSUME server \in Servers, BeginApply PROVE server' \in Servers
BY ServerRecord DEF BeginApply

LEMMA EndType ==
    ASSUME server \in Servers, NEW x \in Shapes, EndApply(x) PROVE server' \in Servers
BY ServerRecord DEF EndApply

LEMMA PublishType ==
    ASSUME current \in Snapshots, NEW c \in Servers, Publish(c)
    PROVE  /\ current' \in Snapshots
           /\ \/ UNCHANGED current /\ Describes(current, c)
              \/ current' = [id |-> current.id + 1, gen |-> c.gen, shape |-> c.shape,
                             half |-> c.half, loads |-> TRUE]
<1>1. CASE Describes(current, c)
  BY <1>1 DEF Publish
<1>2. CASE ~Describes(current, c)
  <2>1. current.id + 1 \in 0 .. MaxIds
    BY <1>2, WatcherAssumption DEF Publish, Snapshots, WatcherAssumption
  <2>2. c.gen \in 0 .. MaxGen /\ c.shape \in Shapes /\ c.half \in BOOLEAN
    <3>1. c.gen \in 1 .. MaxGen /\ c.shape \in Shapes /\ c.half \in BOOLEAN
      BY ServerRecord
    <3>2. 1 .. MaxGen \subseteq 0 .. MaxGen
      BY WatcherAssumption DEF WatcherAssumption
    <3> QED BY <3>1, <3>2, Zenon
  <2>3. current' = [id |-> current.id + 1, gen |-> c.gen, shape |-> c.shape,
                    half |-> c.half, loads |-> TRUE]
    BY <1>2, Zenon DEF Publish
  <2>4. current' \in Snapshots
    BY <2>1, <2>2, <2>3, Zenon DEF Snapshots
  <2> QED BY <2>3, <2>4
<1> QED BY <1>1, <1>2

-----------------------------------------------------------------------------
\* Every variable keeps its type, and the mutation lock is held exactly in the steps
\* that need it, whoever dies.
THEOREM TypeCorrect == Spec => []TypeOK
<1>1. Init => TypeOK
  <2>1. None \in Snapshots
    BY WatcherAssumption DEF None, Snapshots, WatcherAssumption
  <2>2. Fresh(1) \in Servers
    BY FreshType, WatcherAssumption DEF WatcherAssumption
  <2>3. 0 \in 0 .. MaxIds /\ 0 \in 0 .. MaxChanges /\ 0 \in 0 .. MaxDeaths
    BY WatcherAssumption DEF WatcherAssumption
  <2> QED BY <2>1, <2>2, <2>3 DEF Init, TypeOK
<1>2. TypeOK /\ [Next]_vars => TypeOK'
  <2> SUFFICES ASSUME TypeOK, [Next]_vars PROVE TypeOK'
    OBVIOUS
  <2> USE DEF watcher, begun, manual
  <2>a. /\ server \in Servers /\ cap \in Servers /\ plan \in Servers
        /\ current \in Snapshots /\ current.id \in 0 .. MaxIds
        /\ current.shape \in Shapes /\ current.gen \in 0 .. MaxGen
        /\ server.gen \in 1 .. MaxGen /\ server.shape \in Shapes
        /\ MaxGen \in Nat /\ MaxIds \in Nat /\ MaxDeaths \in Nat /\ MaxChanges \in Nat
        /\ protected \in 0 .. MaxIds /\ 0 \in 0 .. MaxIds
    BY WatcherAssumption DEF TypeOK, Snapshots, Servers, WatcherAssumption
  <2>b. Act => changes' \in 0 .. MaxChanges
    BY <2>a DEF Act, TypeOK
  <2>c. Fault => deaths' \in 0 .. MaxDeaths
    BY <2>a DEF Fault, TypeOK
  <2>1. ASSUME NEW s \in Shapes, UserChange(s) PROVE TypeOK'
    <3>1. server' \in Servers
      BY <2>1, <2>a, ServerRecord DEF UserChange
    <3> QED BY <2>1, <2>b, <3>1 DEF UserChange, TypeOK
  <2>2. CASE ServerRestart
    <3>1. server' \in Servers
      BY <2>2, <2>a, FreshType DEF ServerRestart
    <3>2. CASE UNCHANGED <<pc, lock>>
      BY <2>2, <3>1, <3>2 DEF ServerRestart, TypeOK
    <3>3. CASE pc # "off" /\ Goto("off") /\ Leave("watcher")
      BY <2>2, <3>1, <3>3 DEF ServerRestart, TypeOK, Goto, Leave
    <3> QED BY <2>2, <3>2, <3>3 DEF ServerRestart
  <2>3. CASE Damage
    <3>1. current' \in Snapshots
      BY <2>3, <2>a DEF Damage, Snapshots
    <3> QED BY <2>3, <2>c, <3>1 DEF Damage, TypeOK
  <2>4. CASE SaveStarts \/ SaveCaptures
    BY <2>4, <2>b DEF SaveStarts, SaveCaptures, Take, TypeOK
  <2>5. CASE SaveCommits
    <3>1. current' \in Snapshots
      BY <2>5, <2>a, PublishType DEF SaveCommits
    <3> QED BY <2>5, <3>1 DEF SaveCommits, Leave, TypeOK
  <2>6. CASE RestoreStarts
    <3>1. plan' \in Servers
      BY <2>6, <2>a, ServerRecord DEF RestoreStarts
    <3> QED BY <2>6, <2>b, <3>1 DEF RestoreStarts, TypeOK
  <2>7. CASE RestoreBegins
    BY <2>7, <2>a, BeginType DEF RestoreBegins, Take, TypeOK
  <2>8. CASE RestoreEnds
    <3>1. server' \in Servers
      <4>1. plan.shape \in Shapes
        BY <2>a, ServerRecord
      <4> QED BY <2>8, <2>a, <4>1, EndType DEF RestoreEnds
    <3>2. deaths' \in 0 .. MaxDeaths
      BY <2>8, <2>c DEF RestoreEnds, TypeOK
    <3> QED BY <2>8, <3>1, <3>2 DEF RestoreEnds, Leave, TypeOK
  <2>9. CASE ManualDies
    <3>1. broken' \subseteq 1 .. MaxGen
      BY <2>9, <2>a DEF ManualDies, TypeOK
    <3> QED BY <2>9, <2>c, <3>1 DEF ManualDies, Leave, TypeOK
  <2>10. CASE Start
    BY <2>10, <2>a DEF Start, Goto, TypeOK
  <2>11. CASE ReadPointer \/ ReadBody
    <3>1. protected' \in 0 .. MaxIds
      BY <2>11, <2>a DEF ReadPointer, ReadBody
    <3> QED BY <2>11, <3>1 DEF ReadPointer, ReadBody, Goto, TypeOK
  <2>d. ASSUME NEW o \in {"restored", "skipped", "untouched", "mutated"}, AutoEnds(o)
        PROVE  /\ outcome' \in {"restored", "skipped", "untouched", "mutated"}
               /\ protected' \in 0 .. MaxIds /\ pc' = "hooks"
    BY <2>d, <2>a DEF AutoEnds, Goto
  <2>12. CASE AutoCheck
    <3>1. /\ outcome' \in {"none", "restored", "skipped", "untouched", "mutated"}
          /\ protected' \in 0 .. MaxIds /\ source' \in 0 .. MaxIds
          /\ pc' \in {"hooks", "lock", "settle"}
      BY <2>12, <2>a, <2>d DEF AutoCheck, Goto, TypeOK
    <3> QED BY <2>12, <3>1 DEF AutoCheck, TypeOK
  <2>13. CASE Settle
    <3>1. /\ outcome' \in {"none", "restored", "skipped", "untouched", "mutated"}
          /\ protected' \in 0 .. MaxIds /\ pc' \in {"hooks", "lock"}
      BY <2>13, <2>a, <2>d DEF Settle, Goto, TypeOK
    <3> QED BY <2>13, <3>1 DEF Settle, TypeOK
  <2>14. CASE AutoRestoreBegins
    <3>1. /\ outcome' \in {"none", "restored", "skipped", "untouched", "mutated"}
          /\ protected' \in 0 .. MaxIds /\ lock = "free"
          /\ \/ pc' = "prepare" /\ lock' = "watcher"
             \/ pc' = "hooks" /\ lock' = "free"
      BY <2>14, <2>a, <2>d DEF AutoRestoreBegins, Goto, Take, TypeOK
    <3> QED BY <2>14, <3>1 DEF AutoRestoreBegins, TypeOK
  <2>15. CASE PrepareFails
    BY <2>15, <2>c, <2>d DEF PrepareFails, Leave, TypeOK
  <2>16. CASE ApplyBegins
    BY <2>16, <2>a, BeginType DEF ApplyBegins, Goto, TypeOK
  <2>17. CASE ApplyEnds
    <3>1. server' \in Servers
      BY <2>17, <2>a, EndType DEF ApplyEnds
    <3>2. deaths' \in 0 .. MaxDeaths
      BY <2>17, <2>c DEF ApplyEnds, TypeOK
    <3>3. /\ outcome' \in {"restored", "skipped", "untouched", "mutated"}
          /\ protected' \in 0 .. MaxIds /\ pc' = "hooks"
      BY <2>17, <2>d DEF ApplyEnds
    <3> QED BY <2>17, <3>1, <3>2, <3>3 DEF ApplyEnds, Leave, TypeOK
  <2>18. CASE HooksInstalled \/ TimerFires
    BY <2>18 DEF HooksInstalled, TimerFires, Goto, TypeOK
  <2>19. CASE Capture
    BY <2>19 DEF Capture, Goto, Take, TypeOK
  <2>20. CASE SaveCaptured
    <3>1. current' \in Snapshots /\ protected' \in 0 .. MaxIds
      BY <2>20, <2>a, PublishType DEF SaveCaptured
    <3> QED BY <2>20, <3>1 DEF SaveCaptured, Goto, Leave, TypeOK
  <2>21. CASE SaveFails
    <3>1. current' \in Snapshots
      BY <2>21, <2>a, PublishType DEF SaveFails
    <3> QED BY <2>21, <2>c, <3>1 DEF SaveFails, Goto, Leave, TypeOK
  <2>22. CASE Stop
    BY <2>22, <2>b DEF Stop, Goto, TypeOK
  <2>23. CASE WatcherDies
    <3>1. broken' \subseteq 1 .. MaxGen
      BY <2>23, <2>a DEF WatcherDies, TypeOK
    <3> QED BY <2>23, <2>c, <3>1 DEF WatcherDies, Goto, Leave, TypeOK
  <2>24. CASE UNCHANGED vars
    BY <2>24 DEF vars, TypeOK
  <2> QED
    BY <2>1, <2>2, <2>3, <2>4, <2>5, <2>6, <2>7, <2>8, <2>9, <2>10, <2>11, <2>12, <2>13,
       <2>14, <2>15, <2>16, <2>17, <2>18, <2>19, <2>20, <2>21, <2>22, <2>23, <2>24
    DEF Next, Startup, Saving, Manual
<1> QED
  BY <1>1, <1>2, PTL DEF Spec

-----------------------------------------------------------------------------
\* A server that is half restored is so because a restore is at work on it under the
\* lock, or because one died there; so is every capture that may become current.
Mixture(c) == c.half => c.gen \in broken
HalfInv ==
    /\ server.half => \/ pc = "apply" \/ cli = "apply"
                      \/ server.gen \in broken
    /\ pc \in {"firstsave", "save"} => Mixture(cap)
    /\ cli = "commit" => Mixture(plan)
    /\ Mixture(current)

LEMMA HalfStep == TypeOK /\ HalfInv /\ [Next]_vars => HalfInv'
<1> SUFFICES ASSUME TypeOK, HalfInv, [Next]_vars PROVE HalfInv'
  OBVIOUS
<1> USE DEF watcher, begun, manual
<1>a. /\ server \in Servers /\ cap \in Servers /\ plan \in Servers /\ current \in Snapshots
      /\ lock \in {"free", "watcher", "cli"}
      /\ lock = "watcher" <=> pc \in {"prepare", "apply", "firstsave", "save"}
      /\ lock = "cli" <=> cli \in {"commit", "apply"}
  BY DEF TypeOK
<1>b. /\ server.half => pc = "apply" \/ cli = "apply" \/ server.gen \in broken
      /\ pc \in {"firstsave", "save"} => (cap.half => cap.gen \in broken)
      /\ cli = "commit" => (plan.half => plan.gen \in broken)
      /\ current.half => current.gen \in broken
  BY DEF HalfInv, Mixture
\* Steps that change no server, no capture and not the current snapshot, and begin or
\* end no save and no restore.
<1>c. ASSUME UNCHANGED <<server, current, cap, plan>>, broken \subseteq broken',
             pc' \in {"firstsave", "save"} => pc \in {"firstsave", "save"},
             cli' = "commit" => cli = "commit",
             pc = "apply" => pc' = "apply" \/ ~server.half \/ server.gen \in broken',
             cli = "apply" => cli' = "apply" \/ ~server.half \/ server.gen \in broken'
      PROVE  HalfInv'
  BY <1>b, <1>c DEF HalfInv, Mixture
\* Publishing a capture that is not a mixture.
<1>d. ASSUME NEW c \in Servers, c.half => c.gen \in broken,
             Publish(c) \/ UNCHANGED current
      PROVE  current'.half => current'.gen \in broken
  <2>1. CASE Publish(c)
    <3>1. UNCHANGED current \/ (current'.half = c.half /\ current'.gen = c.gen)
      BY <1>a, <2>1, PublishType
    <3> QED BY <1>b, <1>d, <3>1
  <2> QED BY <1>b, <1>d, <2>1
\* The end of a restore, in whatever state it leaves the sessions.
<1>e. ASSUME NEW x \in Shapes, EndApply(x) PROVE ~server'.half /\ server'.gen = server.gen
  BY <1>a, <1>e, ServerRecord DEF EndApply, Servers
<1>1. ASSUME NEW s \in Shapes, UserChange(s) PROVE HalfInv'
  <2>1. server'.half = server.half /\ server'.gen = server.gen
    BY <1>1, <1>a DEF UserChange, Servers
  <2>2. UNCHANGED <<pc, cli, cap, plan, current, broken>>
    BY <1>1 DEF UserChange
  <2> QED BY <1>b, <2>1, <2>2 DEF HalfInv, Mixture
<1>2. CASE ServerRestart
  <2>1. ~server'.half
    BY <1>2 DEF ServerRestart, Fresh
  <2>2. pc' = pc \/ pc' = "off"
    BY <1>2 DEF ServerRestart, Goto
  <2>3. UNCHANGED <<cli, cap, plan, current, broken>>
    BY <1>2 DEF ServerRestart
  <2> QED BY <1>b, <2>1, <2>2, <2>3 DEF HalfInv, Mixture
<1>3. CASE Damage
  <2>1. current'.half = current.half /\ current'.gen = current.gen
    BY <1>3, <1>a DEF Damage, Snapshots
  <2>2. UNCHANGED <<pc, cli, cap, plan, server, broken>>
    BY <1>3 DEF Damage
  <2> QED BY <1>b, <2>1, <2>2 DEF HalfInv, Mixture
<1>4. CASE SaveStarts
  BY <1>4, <1>c DEF SaveStarts
<1>5. CASE SaveCaptures
  <2>1. pc # "apply" /\ cli # "apply"
    BY <1>5, <1>a DEF SaveCaptures, Take
  <2> QED BY <1>5, <1>b, <2>1 DEF SaveCaptures, HalfInv, Mixture
<1>6. CASE SaveCommits
  <2>1. current'.half => current'.gen \in broken
    BY <1>6, <1>a, <1>b, <1>d DEF SaveCommits
  <2> QED BY <1>6, <1>b, <2>1 DEF SaveCommits, HalfInv, Mixture
<1>7. CASE RestoreStarts
  BY <1>7, <1>b DEF RestoreStarts, HalfInv, Mixture
<1>8. CASE RestoreBegins
  BY <1>8, <1>b DEF RestoreBegins, HalfInv, Mixture
<1>9. CASE RestoreEnds
  <2>1. ~server'.half
    BY <1>9, <1>a, <1>e, ServerRecord DEF RestoreEnds
  <2> QED BY <1>9, <1>b, <2>1 DEF RestoreEnds, HalfInv, Mixture
<1>10. CASE ManualDies
  <2>1. broken \subseteq broken' /\ (cli = "apply" => server.gen \in broken')
    BY <1>10 DEF ManualDies
  <2> QED BY <1>10, <1>c, <2>1 DEF ManualDies
<1>11. CASE Start \/ ReadPointer \/ ReadBody
  <2>1. pc' \in {"protect", "compare", "auto"} /\ pc # "apply"
    BY <1>11 DEF Start, ReadPointer, ReadBody, Goto
  <2> QED BY <1>11, <1>c, <2>1 DEF Start, ReadPointer, ReadBody
<1>12. CASE AutoCheck \/ Settle \/ AutoRestoreBegins \/ PrepareFails
  <2>1. pc' \in {"lock", "settle", "hooks", "prepare"} /\ pc # "apply"
    BY <1>12 DEF AutoCheck, Settle, AutoRestoreBegins, PrepareFails, AutoEnds, Goto
  <2> QED BY <1>12, <1>c, <2>1 DEF AutoCheck, Settle, AutoRestoreBegins, PrepareFails
<1>13. CASE ApplyBegins
  <2>1. pc' = "apply"
    BY <1>13 DEF ApplyBegins, Goto
  <2> QED BY <1>13, <1>b, <2>1 DEF ApplyBegins, HalfInv, Mixture
<1>14. CASE ApplyEnds
  <2>1. ~server'.half
    BY <1>14, <1>a, <1>e DEF ApplyEnds, Snapshots
  <2>2. pc' = "hooks"
    BY <1>14 DEF ApplyEnds, AutoEnds, Goto
  <2> QED BY <1>14, <1>b, <2>1, <2>2 DEF ApplyEnds, HalfInv, Mixture
<1>15. CASE HooksInstalled \/ TimerFires \/ Stop
  <2>1. pc' \in {"first", "due", "off"} /\ pc # "apply"
    BY <1>15 DEF HooksInstalled, TimerFires, Stop, Goto
  <2> QED BY <1>15, <1>c, <2>1 DEF HooksInstalled, TimerFires, Stop
<1>16. CASE Capture
  <2>1. pc # "apply" /\ cli # "apply" /\ cap' = server
    BY <1>16, <1>a DEF Capture, Take
  <2> QED BY <1>16, <1>b, <2>1 DEF Capture, HalfInv, Mixture
<1>17. CASE SaveCaptured \/ SaveFails
  <2>1. current'.half => current'.gen \in broken
    BY <1>17, <1>a, <1>b, <1>d DEF SaveCaptured, SaveFails
  <2>2. pc' \in {"watch", "off"} /\ pc # "apply"
    BY <1>17 DEF SaveCaptured, SaveFails, Goto
  <2> QED BY <1>17, <1>b, <2>1, <2>2 DEF SaveCaptured, SaveFails, HalfInv, Mixture
<1>18. CASE WatcherDies
  <2>1. broken \subseteq broken' /\ (pc = "apply" => server.gen \in broken') /\ pc' = "off"
    BY <1>18 DEF WatcherDies, Goto
  <2> QED BY <1>18, <1>c, <2>1 DEF WatcherDies
<1>19. CASE UNCHANGED vars
  BY <1>19, <1>c DEF vars
<1> QED
  BY <1>1, <1>2, <1>3, <1>4, <1>5, <1>6, <1>7, <1>8, <1>9, <1>10, <1>11, <1>12, <1>13,
     <1>14, <1>15, <1>16, <1>17, <1>18, <1>19 DEF Next, Startup, Saving, Manual

\* No snapshot of a server in the middle of a restore becomes current, unless that
\* restore died.
THEOREM NoMixtures == Spec => []HalfRestoredNeverCurrent
<1>1. Init => HalfInv
  BY DEF Init, HalfInv, Mixture, None, Fresh
<1>2. HalfInv => HalfRestoredNeverCurrent
  BY DEF HalfInv, Mixture, HalfRestoredNeverCurrent
<1> QED
  BY <1>1, <1>2, HalfStep, TypeCorrect, PTL DEF Spec

-----------------------------------------------------------------------------
\* Nobody saves while automatic restore has the lock.
LEMMA WantedStep ==
    TypeOK /\ AutoRestoreStillWanted /\ [Next]_vars => AutoRestoreStillWanted'
<1> SUFFICES ASSUME TypeOK, AutoRestoreStillWanted, [Next]_vars,
                    pc' \in {"prepare", "apply"}, current'.loads
             PROVE  current'.id = source' /\ current'.gen # initial'.gen
  BY DEF AutoRestoreStillWanted
<1> USE DEF watcher, begun, manual
<1>1. CASE AutoRestoreBegins
  <2>1. MayRestore /\ UNCHANGED <<current, initial, source>>
    BY <1>1 DEF AutoRestoreBegins, AutoEnds, Goto
  <2> QED BY <2>1 DEF MayRestore
<1>2. CASE ~AutoRestoreBegins
  <2>1. pc \in {"prepare", "apply"} /\ UNCHANGED <<initial, source>>
    BY <1>2
    DEF Next, Startup, Saving, Manual, UserChange, ServerRestart, Damage, SaveStarts,
        RestoreStarts, SaveCaptures, SaveCommits, RestoreBegins, RestoreEnds, ManualDies,
        Start, ReadPointer, ReadBody, AutoCheck, Settle, ApplyBegins, ApplyEnds,
        HooksInstalled, TimerFires, Capture, SaveCaptured, PrepareFails, SaveFails, Stop,
        WatcherDies, AutoEnds, Goto, vars
  <2>2. cli # "commit"
    BY <2>1 DEF TypeOK
  <2>3. UNCHANGED current
    <3>1. CASE Damage
      BY <3>1 DEF Damage, TypeOK, Snapshots
    <3>2. CASE ~Damage
      BY <1>2, <2>1, <2>2, <3>2
      DEF Next, Startup, Saving, Manual, UserChange, ServerRestart, SaveStarts,
          RestoreStarts, SaveCaptures, SaveCommits, RestoreBegins, RestoreEnds, ManualDies,
          Start, ReadPointer, ReadBody, AutoCheck, Settle, ApplyBegins, ApplyEnds,
          HooksInstalled, TimerFires, Capture, SaveCaptured, PrepareFails, SaveFails, Stop,
          WatcherDies, vars
    <3> QED BY <3>1, <3>2
  <2> QED BY <2>1, <2>3 DEF AutoRestoreStillWanted
<1> QED BY <1>1, <1>2

\* While automatic restore prepares and runs, it still restores what it chose.
THEOREM StillWanted == Spec => []AutoRestoreStillWanted
<1>1. Init => AutoRestoreStillWanted
  BY DEF Init, AutoRestoreStillWanted
<1> QED
  BY <1>1, WantedStep, TypeCorrect, PTL DEF Spec

-----------------------------------------------------------------------------
\* As long as the current snapshot is the one the watcher found, can be read, is of an
\* earlier server, and the watcher that met a bootstrap has not run apply(), it is
\* protected from the first look at the pointer on.
AtStake ==
    /\ pc \notin {"off", "protect"}
    /\ AutoRestore /\ ~applied /\ IsBootstrap(initial)
    /\ current.loads /\ current.gen < initial.gen /\ current.id = found
Protected ==
    /\ current.loads => current.id # 0
    /\ initial.gen <= server.gen
    /\ found <= current.id
    /\ pc = "apply" => applied
    /\ pc \in {"firstsave", "save"} => initial.gen <= cap.gen
    /\ AtStake => protected = found

LEMMA ProtectedStep == TypeOK /\ Protected /\ [Next]_vars => Protected'
<1> SUFFICES ASSUME TypeOK, Protected, [Next]_vars PROVE Protected'
  OBVIOUS
<1> USE DEF watcher, begun, manual
<1>a. /\ server \in Servers /\ cap \in Servers /\ plan \in Servers /\ initial \in Servers
      /\ current \in Snapshots /\ current.id \in Nat /\ found \in Nat
      /\ current.gen \in Nat /\ server.gen \in Nat /\ cap.gen \in Nat /\ initial.gen \in Nat
      /\ plan.gen \in Nat
  BY DEF TypeOK, Servers, Snapshots
<1>b. /\ current.loads => current.id # 0
      /\ initial.gen <= server.gen /\ found <= current.id
      /\ pc = "apply" => applied
      /\ pc \in {"firstsave", "save"} => initial.gen <= cap.gen
      /\ AtStake => protected = found
  BY DEF Protected
\* Steps that leave alone what the invariant speaks of, but for the progress of the
\* watcher and a server that is a later one.
<1>c. ASSUME UNCHANGED <<current, begun, cap, protected>>,
             server'.gen \in Nat /\ server.gen <= server'.gen,
             applied => applied', pc' = "apply" => applied',
             pc' \in {"firstsave", "save"} => pc \in {"firstsave", "save"},
             pc' \in {"off", "protect"} \/ pc \notin {"off", "protect"}
      PROVE  Protected'
  <2>1. AtStake' => AtStake
    BY <1>c DEF AtStake, IsBootstrap
  <2> QED BY <1>a, <1>b, <1>c, <2>1 DEF Protected
\* A capture that is published is a new snapshot, or is the current one already.
<1>d. ASSUME NEW c \in Servers, Publish(c)
      PROVE  \/ UNCHANGED current /\ current.gen = c.gen
             \/ current'.id = current.id + 1 /\ current'.loads
  BY <1>a, <1>d, PublishType DEF Describes
<1>e. ASSUME current'.id = current.id + 1, UNCHANGED <<begun, cap, server>>,
             pc' = "apply" => pc = "apply" /\ UNCHANGED applied,
             pc' \in {"firstsave", "save"} => pc \in {"firstsave", "save"}
      PROVE  Protected'
  <2>1. found' <= current'.id /\ current'.id # found' /\ current'.id # 0
    BY <1>a, <1>b, <1>e
  <2> QED BY <1>b, <1>e, <2>1 DEF Protected, AtStake
<1>f. ASSUME BeginApply PROVE server'.gen = server.gen
  BY <1>a, <1>f DEF BeginApply, Servers
<1>g. ASSUME NEW x, EndApply(x) PROVE server'.gen = server.gen
  BY <1>a, <1>g DEF EndApply, Servers
<1>1. ASSUME NEW s \in Shapes, UserChange(s) PROVE Protected'
  <2>1. server'.gen = server.gen
    BY <1>1, <1>a DEF UserChange, Servers
  <2> QED BY <1>1, <1>a, <1>b, <1>c, <2>1 DEF UserChange
<1>2. CASE ServerRestart
  <2>1. server'.gen = server.gen + 1
    BY <1>2 DEF ServerRestart, Fresh
  <2>2. server'.gen \in Nat /\ server.gen <= server'.gen
    BY <1>a, <2>1
  <2>3. pc' = pc \/ pc' = "off"
    BY <1>2 DEF ServerRestart, Goto
  <2> QED BY <1>2, <1>b, <1>c, <2>2, <2>3 DEF ServerRestart
<1>3. CASE Damage
  <2>1. current'.id = current.id /\ ~current'.loads
    BY <1>3, <1>a DEF Damage, Snapshots
  <2>2. UNCHANGED <<pc, initial, found, applied, cap, server>>
    BY <1>3 DEF Damage
  <2> QED BY <1>b, <2>1, <2>2 DEF Protected, AtStake
<1>4. CASE SaveStarts \/ SaveCaptures \/ RestoreStarts \/ ManualDies
  BY <1>4, <1>a, <1>b, <1>c
  DEF SaveStarts, SaveCaptures, RestoreStarts, ManualDies
<1>5. CASE SaveCommits
  <2>1. UNCHANGED <<server, begun, cap, protected, applied, pc>>
    BY <1>5 DEF SaveCommits
  <2>2. UNCHANGED current \/ current'.id = current.id + 1
    BY <1>5, <1>a, <1>d DEF SaveCommits
  <2> QED BY <1>a, <1>b, <1>c, <1>e, <2>1, <2>2
<1>6. CASE RestoreBegins \/ RestoreEnds
  <2>1. server'.gen = server.gen
    BY <1>6, <1>f, <1>g DEF RestoreBegins, RestoreEnds
  <2> QED BY <1>6, <1>a, <1>b, <1>c, <2>1 DEF RestoreBegins, RestoreEnds
<1>7. CASE Start
  <2>1. /\ pc' = "protect" /\ initial' = server /\ found' = current.id
        /\ UNCHANGED <<server, current, cap>>
    BY <1>7 DEF Start, Goto
  <2> QED BY <1>a, <1>b, <2>1 DEF Protected, AtStake
<1>8. CASE ReadPointer
  <2>1. /\ pc' \in {"compare", "auto"} /\ UNCHANGED <<server, current, begun, cap, applied>>
        /\ AutoRestore /\ IsBootstrap(initial) /\ current.id # 0 => protected' = current.id
    BY <1>8 DEF ReadPointer, Goto
  <2> QED BY <1>b, <2>1 DEF Protected, AtStake, IsBootstrap
<1>9. CASE ReadBody
  <2>1. /\ pc = "compare" /\ pc' = "auto"
        /\ UNCHANGED <<server, current, begun, cap, applied>>
        /\ current.loads /\ current.gen # initial.gen => protected' = protected
    BY <1>9 DEF ReadBody, Goto
  <2> QED BY <1>a, <1>b, <2>1 DEF Protected, AtStake, IsBootstrap
<1>10. CASE AutoCheck \/ Settle \/ AutoRestoreBegins \/ PrepareFails
  <2>1. /\ pc' \in {"lock", "settle", "hooks", "prepare"}
        /\ pc \in {"auto", "settle", "lock", "prepare"}
        /\ UNCHANGED <<server, current, begun, cap, protected, applied>>
    BY <1>10 DEF AutoCheck, Settle, AutoRestoreBegins, PrepareFails, AutoEnds, Goto
  <2> QED BY <1>a, <1>b, <1>c, <2>1
<1>11. CASE ApplyBegins
  <2>1. server'.gen = server.gen /\ applied' /\ pc = "prepare" /\ pc' = "apply"
    BY <1>11, <1>f DEF ApplyBegins, Goto
  <2> QED BY <1>11, <1>a, <1>b, <1>c, <2>1 DEF ApplyBegins
<1>12. CASE ApplyEnds
  <2>1. server'.gen = server.gen
    BY <1>12, <1>g DEF ApplyEnds
  <2>2. applied' /\ pc' = "hooks" /\ UNCHANGED <<current, begun, cap>>
    BY <1>12, <1>b DEF ApplyEnds, AutoEnds, Goto
  <2> QED BY <1>b, <2>1, <2>2 DEF Protected, AtStake
<1>13. CASE HooksInstalled \/ TimerFires \/ Stop \/ WatcherDies
  <2>1. pc' \in {"first", "due", "off"} /\ (pc' # "off" => pc \in {"hooks", "watch"})
    BY <1>13 DEF HooksInstalled, TimerFires, Stop, WatcherDies, Goto
  <2> QED BY <1>13, <1>a, <1>b, <1>c, <2>1 DEF HooksInstalled, TimerFires, Stop, WatcherDies
<1>14. CASE Capture
  <2>1. /\ cap' = server /\ pc \in {"first", "due"} /\ pc' \in {"firstsave", "save"}
        /\ UNCHANGED <<server, current, begun, protected, applied>>
    BY <1>14 DEF Capture, Goto
  <2> QED BY <1>b, <2>1 DEF Protected, AtStake, IsBootstrap
<1>15. CASE SaveCaptured
  <2>1. /\ pc \in {"firstsave", "save"} /\ pc' = "watch"
        /\ UNCHANGED <<server, begun, cap, applied>>
    BY <1>15 DEF SaveCaptured, Goto
  <2>2. CASE Keeps
    BY <1>15, <1>a, <1>b, <1>c, <2>1, <2>2 DEF SaveCaptured
  <2>3. CASE ~Keeps
    <3>1. Publish(cap)
      BY <1>15, <2>3 DEF SaveCaptured
    <3>2. CASE current'.id = current.id + 1
      BY <1>e, <2>1, <3>2
    <3>3. CASE UNCHANGED current /\ current.gen = cap.gen
      <4>1. ~AtStake'
        BY <1>a, <1>b, <2>1, <3>3 DEF AtStake
      <4> QED BY <1>b, <2>1, <3>3, <4>1 DEF Protected
    <3> QED BY <1>a, <1>d, <3>1, <3>2, <3>3
  <2> QED BY <2>2, <2>3
<1>16. CASE SaveFails
  <2>1. /\ pc \in {"firstsave", "save"} /\ pc' \in {"off", "watch"}
        /\ UNCHANGED <<server, begun, cap, applied, protected>>
    BY <1>16 DEF SaveFails, Goto
  <2>2. UNCHANGED current \/ current'.id = current.id + 1
    BY <1>16, <1>a, <1>d DEF SaveFails
  <2> QED BY <1>a, <1>b, <1>c, <1>e, <2>1, <2>2
<1>17. CASE UNCHANGED vars
  BY <1>17, <1>a, <1>b, <1>c DEF vars
<1> QED
  BY <1>1, <1>2, <1>3, <1>4, <1>5, <1>6, <1>7, <1>8, <1>9, <1>10, <1>11, <1>12, <1>13,
     <1>14, <1>15, <1>16, <1>17 DEF Next, Startup, Saving, Manual

\* A step that replaces what is at stake is a save of the watcher, and what it
\* saves is not a bootstrap: Protected says that the id it compares with is that
\* of the current snapshot.
LEMMA PreviousStep ==
  ASSUME TypeOK, Protected, Next,
         pc \in {"firstsave", "save"}, AutoRestore, ~applied, IsBootstrap(initial),
         current.loads, current.gen < initial.gen, current.id = found,
         current' # current, current'.loads
  PROVE  ~IsBootstrap(current')
<1>1. cli # "commit" /\ cap \in Servers /\ current \in Snapshots
  BY DEF TypeOK, watcher, begun, manual
<1>2. protected = current.id /\ current.id # 0
  BY DEF Protected, AtStake
<1>3. SaveCaptured \/ SaveFails
  <2>1. ~Damage
    BY <1>1 DEF Damage, Snapshots
  <2> QED
    BY <1>1, <2>1
    DEF Next, Startup, Saving, Manual, UserChange, ServerRestart, SaveStarts,
        RestoreStarts, SaveCaptures, SaveCommits, RestoreBegins, RestoreEnds, ManualDies,
        Start, ReadPointer, ReadBody, AutoCheck, Settle, AutoRestoreBegins, ApplyBegins,
        ApplyEnds, HooksInstalled, TimerFires, Capture, PrepareFails, Stop, WatcherDies
<1>4. ~Keeps /\ Publish(cap)
  BY <1>3 DEF SaveCaptured, SaveFails
<1>5. current'.shape = cap.shape /\ current'.half = cap.half
  BY <1>1, <1>4, PublishType
<1> QED BY <1>2, <1>4, <1>5 DEF Keeps, IsBootstrap

\* No save of the watcher replaces what is at stake by the bootstrap it started on.
THEOREM PreviousStays == Spec => PreviousCurrentStays
<1>1. Init => Protected
  BY DEF Init, Protected, AtStake, None, Fresh, watcher, begun, manual
<1>2. TypeOK /\ Protected /\ Next =>
        (/\ pc \in {"firstsave", "save"}
         /\ AutoRestore /\ ~applied /\ IsBootstrap(initial)
         /\ current.loads /\ current.gen < initial.gen /\ current.id = found
         /\ current' # current /\ current'.loads
         => ~(IsBootstrap(current') /\ current'.gen = initial.gen))
  BY PreviousStep
<1> QED
  BY <1>1, <1>2, ProtectedStep, TypeCorrect, PTL DEF Spec, PreviousCurrentStays, vars
=============================================================================
