------------------------ MODULE SnapshotStore_proofs ------------------------
(***************************************************************************)
(* Proofs about SnapshotStore, for every number of processes, every set of *)
(* structures and every bound.  First the type invariant and the           *)
(* durability of what current.json and the pins name.  Then the order in   *)
(* which commands of the store see each other: the sidecar fits the        *)
(* snapshot it names, current never goes back to an older capture, what a  *)
(* save has reported stays, what a command checked holds when it           *)
(* publishes, and the safety copy is there while a restore changes the     *)
(* server.  Last, that SnapshotStore implements RecoveryPoint.             *)
(***************************************************************************)
EXTENDS SnapshotStore, FiniteSetTheorems, WellFoundedInduction, TLAPS

\* The values that stand for "nothing" have their types.
LEMMA Defaults ==
    /\ NoCapture \in Captures
    /\ NoCheckpoint \in Checkpoints
    /\ Idle \in Requests
    /\ Idle.target = NoCapture
BY StoreAssumption DEF StoreAssumption, NoCapture, Captures, NoCheckpoint, Checkpoints,
   Idle, Requests, Ops

\* What a request made from Idle by the commands is.
LEMMA RequestTypes ==
    ASSUME NEW op \in Ops, NEW pin \in BOOLEAN, NEW replace \in BOOLEAN, NEW i \in Nat,
           NEW t \in Captures
    PROVE  /\ [Idle EXCEPT !.op = op, !.pin = pin] \in Requests
           /\ [Idle EXCEPT !.op = op, !.id = i] \in Requests
           /\ [Idle EXCEPT !.op = op, !.id = i, !.replace = replace, !.target = t]
                 \in Requests
BY Defaults DEF Idle, Requests

\* The ids only change when a snapshot is created.
LEMMA IdsStay == snaps' = snaps => Ids' = Ids
BY DEF Ids

\* Releasing the lock leaves the control state well typed.
LEMMA LeaveType ==
    ASSUME TypeOK, Leave, snaps' = snaps
    PROVE  /\ req' \in [Writers -> Requests]
           /\ step' \in Steps
           /\ holder' \in IF step' = "free" THEN {NoWriter} ELSE Writers
           /\ cap' \in Captures
           /\ new' \in Ids \cup {0}
           /\ doomed' = {} /\ expired' = {}
BY Defaults DEF TypeOK, Leave, Steps

\* Every variable keeps its type in every reachable state of the store.
THEOREM TypeCorrect == Spec => []TypeOK
<1>1. Init => TypeOK
  <2> SUFFICES ASSUME Init PROVE TypeOK
    OBVIOUS
  <2>1. server \in Captures
    BY StoreAssumption DEF Init, StoreAssumption, Captures
  <2>2. snaps \in Seq(Captures) /\ Ids = {}
    BY DEF Init, Ids
  <2>3. req \in [Writers -> Requests]
    BY Defaults DEF Init
  <2>4. durable \in [bodies : SUBSET Ids, ptr : Ids \cup {0}, cp : Checkpoints]
    BY Defaults, <2>2 DEF Init
  <2> QED
    BY <2>1, <2>2, <2>3, <2>4, Defaults DEF Init, TypeOK, Steps
<1>2. TypeOK /\ [Next]_vars => TypeOK'
  <2> SUFFICES ASSUME TypeOK, [Next]_vars PROVE TypeOK'
    OBVIOUS
  <2> USE IdsStay DEF TypeOK, disk, crit
  <2>1. ASSUME NEW s \in Shapes, UserChange(s) PROVE TypeOK'
    <3>1. server.gen \in Nat /\ server.ver \in Nat
      BY DEF Captures
    <3>2. server' = [gen |-> server.gen, shape |-> s, ver |-> server.ver + 1]
      BY <2>1 DEF UserChange, Captures
    <3>3. server' \in Captures
      BY <3>1, <3>2 DEF Captures
    <3> QED BY <2>1, <3>3 DEF UserChange
  <2>2. CASE ServerRestart
    <3>1. server' \in Captures
      BY <2>2, StoreAssumption, SMTT(30) DEF ServerRestart, Captures, StoreAssumption
    <3> QED BY <2>2, <3>1 DEF ServerRestart
  <2>3. ASSUME NEW w \in Writers, NEW r \in Requests, Ask(w, r) PROVE TypeOK'
    BY <2>3 DEF Ask
  <2>4. ASSUME NEW w \in Clients, StartSave(w) \/ StartPin(w) \/ StartRestore(w)
        PROVE TypeOK'
    <3>1. w \in Writers
      BY DEF Writers
    <3>2. CASE StartSave(w)
      <4>1. PICK op \in Ops, pin \in BOOLEAN : Ask(w, [Idle EXCEPT !.op = op, !.pin = pin])
        BY <3>2 DEF StartSave, Ops
      <4>2. [Idle EXCEPT !.op = op, !.pin = pin] \in Requests
        BY RequestTypes, Defaults
      <4> QED BY <3>1, <4>1, <4>2, <2>3
    <3>3. CASE StartPin(w)
      <4>1. PICK op \in ClientOps \cap {"pin", "unpin"}, i \in bodies \cup {0} :
              Ask(w, [Idle EXCEPT !.op = op, !.id = i])
        BY <3>3 DEF StartPin
      <4>a. op \in Ops /\ i \in Nat
        BY DEF Ops, Ids
      <4>2. [Idle EXCEPT !.op = op, !.id = i] \in Requests
        BY <4>a, RequestTypes, Defaults
      <4> QED BY <3>1, <4>1, <4>2, <2>3
    <3>4. CASE StartRestore(w)
      <4>1. PICK i \in bodies, replace \in BOOLEAN :
              Ask(w, [Idle EXCEPT !.op = "restore", !.id = i, !.replace = replace,
                                  !.target = server])
        BY <3>4 DEF StartRestore
      <4>a. i \in Nat
        BY DEF Ids
      <4>2. [Idle EXCEPT !.op = "restore", !.id = i, !.replace = replace,
                         !.target = server] \in Requests
        BY <4>a, RequestTypes DEF Ops
      <4> QED BY <3>1, <4>1, <4>2, <2>3
    <3> QED
      BY <2>4, <3>2, <3>3, <3>4
  <2>5. CASE StartAutosave
    <3>1. PICK i \in (IF GuardBootstrap THEN {0, ptr} ELSE {0}) :
            Ask(Daemon, [Idle EXCEPT !.op = "autosave", !.id = i])
      BY <2>5 DEF StartAutosave
    <3>a. i \in Nat
      BY DEF Ids
    <3>2. [Idle EXCEPT !.op = "autosave", !.id = i] \in Requests
      BY <3>a, RequestTypes, Defaults DEF Ops
    <3> QED BY <3>1, <3>2, <2>3 DEF Writers
  <2>6. ASSUME NEW w \in Writers, Acquire(w) PROVE TypeOK'
    BY <2>6 DEF Acquire, Steps
  <2>7. ASSUME NEW w \in Writers, WaiterDies(w) PROVE TypeOK'
    BY <2>7, Defaults DEF WaiterDies
  <2>8. CASE Enter
    <3>a. [durable EXCEPT !.ptr = ptr, !.cp = NoCheckpoint]
            \in [bodies : SUBSET Ids, ptr : Ids \cup {0}, cp : Checkpoints]
      BY Defaults
    <3>b. cp' \in {cp, NoCheckpoint} /\ faults' \in {faults, faults + 1}
      BY <2>8 DEF Enter, DropDisabledCheckpoint
    <3>c. \/ durable' = durable
          \/ durable' = [durable EXCEPT !.ptr = ptr, !.cp = NoCheckpoint]
      BY <2>8, Zenon DEF Enter, DropDisabledCheckpoint
    <3>d. durable' \in [bodies : SUBSET Ids, ptr : Ids \cup {0}, cp : Checkpoints]
      BY <3>a, <3>c, Zenon
    <3>e. cp' \in Checkpoints /\ faults' \in Nat
      BY <3>b, Defaults
    <3>1. /\ cp' \in Checkpoints /\ faults' \in Nat
          /\ durable' \in [bodies : SUBSET Ids, ptr : Ids \cup {0}, cp : Checkpoints]
      BY <3>d, <3>e
    <3>2. CASE Leave
      BY <2>8, <3>1, <3>2, LeaveType DEF Enter
    <3>3. CASE Proceed
      <4>a. holder \in Writers
        BY <2>8 DEF Enter
      <4>1. Command \in Requests
        BY <4>a DEF Command
      <4>2. req' = req /\ holder' = holder /\ step' \in Steps \ {"free"}
        BY <3>3 DEF Proceed, Goto, Steps
      <4>3. cap' \in Captures
        BY <3>3, <4>1 DEF Proceed, Requests
      <4> QED BY <2>8, <3>1, <3>3, <4>a, <4>2, <4>3 DEF Enter, Proceed
    <3> QED BY <2>8, <3>2, <3>3 DEF Enter
  <2>9. CASE Capture
    BY <2>9 DEF Capture, Goto, Steps
  <2>10. CASE SkipProtected
    BY <2>10, LeaveType DEF SkipProtected
  <2>11. CASE Unchanged
    <3>1. CASE Succeed
      BY <2>11, <3>1, LeaveType DEF Unchanged, Succeed
    <3>2. CASE ~Succeed
      BY <2>11, <3>2 DEF Unchanged, Goto, Steps
    <3> QED BY <3>1, <3>2
  <2>12. CASE WriteBody
    <3>1. snaps' \in Seq(Captures) /\ Len(snaps') = Len(snaps) + 1 /\ Len(snaps) \in Nat
      BY <2>12 DEF WriteBody
    <3>2. Ids \subseteq Ids' /\ new' \in Ids'
      BY <2>12, <3>1 DEF WriteBody, Ids, NewId
    <3>3. step' = "syncBody" /\ step = "commit" /\ req' = req /\ holder' = holder
      BY <2>12 DEF WriteBody, Goto
    <3>4. step' \in Steps /\ holder' \in IF step' = "free" THEN {NoWriter} ELSE Writers
      BY <3>3 DEF Steps
    <3>5. durable' \in [bodies : SUBSET Ids', ptr : Ids' \cup {0}, cp : Checkpoints]
      BY <2>12, <3>2 DEF WriteBody
    <3> QED BY <2>12, <3>1, <3>2, <3>3, <3>4, <3>5 DEF WriteBody
  <2>13. CASE SyncBody
    BY <2>13 DEF SyncBody, Goto, Steps
  <2>14. CASE WritePointer
    BY <2>14 DEF WritePointer, Goto, Steps
  <2>15. CASE SyncPointer
    BY <2>15 DEF SyncPointer, Goto, Steps
  <2>16. CASE PinSaved
    <3>1. pins' \subseteq Ids
      BY <2>16 DEF PinSaved, Loadable
    <3>2. CASE Succeed
      BY <2>16, <3>1, <3>2, LeaveType DEF PinSaved, Succeed
    <3>3. CASE ~Succeed
      BY <2>16, <3>1, <3>3 DEF PinSaved, AfterStructure, Goto, Steps
    <3> QED BY <3>2, <3>3
  <2>17. CASE MarkSafety
    BY <2>17 DEF MarkSafety, Loadable, Goto, Steps
  <2>18. CASE DecidePrune
    <3>1. doomed' \subseteq Ids /\ expired' \subseteq Ids
      BY <2>18 DEF DecidePrune, Entries, Expired, SafetyEntries
    <3> QED BY <2>18, <3>1 DEF DecidePrune, Goto, Steps
  <2>19. CASE RemoveBody
    BY <2>19 DEF RemoveBody, Goto, Steps
  <2>20. CASE SyncRemoved
    BY <2>20 DEF SyncRemoved, Goto, Steps
  <2>21. CASE UnmarkExpired
    BY <2>21 DEF UnmarkExpired, Goto, Steps
  <2>22. CASE AfterPrune
    <3>1. CASE Succeed
      BY <2>22, <3>1, LeaveType DEF AfterPrune, Succeed
    <3>2. CASE ~Succeed
      BY <2>22, <3>2 DEF AfterPrune, AfterStructure, Goto, Steps
    <3> QED BY <3>1, <3>2
  <2>23. CASE ApplyRestore
    <3>a. server.gen \in Nat /\ server.ver \in Nat
      BY DEF Captures
    <3>b. ASSUME NEW s \in Shapes,
                 server' = [server EXCEPT !.shape = s, !.ver = @ + 1]
          PROVE  server' \in Captures
      <4>1. server' = [gen |-> server.gen, shape |-> s, ver |-> server.ver + 1]
        BY <3>b DEF Captures
      <4> QED BY <3>a, <4>1 DEF Captures
    <3>1. server' \in Captures
      BY <2>23, <3>b, Zenon DEF ApplyRestore
    <3> QED BY <2>23, <3>1, LeaveType DEF ApplyRestore, Succeed
  <2>24. CASE WriteCheckpoint
    <3>1. cp' \in Checkpoints
      BY <2>24 DEF WriteCheckpoint, Checkpoints, Captures, Ids
    <3> QED BY <2>24, <3>1 DEF WriteCheckpoint, Goto, Steps
  <2>25. CASE SyncCheckpoint
    BY <2>25, LeaveType DEF SyncCheckpoint, Succeed
  <2>26. CASE CheckpointFails
    BY <2>26, LeaveType DEF CheckpointFails, Succeed
  <2>27. CASE WriteMarker
    <3>1. pins' \subseteq Ids
      BY <2>27 DEF WriteMarker, Loadable
    <3> QED BY <2>27, <3>1, LeaveType DEF WriteMarker, Succeed
  <2>28. CASE LoadFails
    BY <2>28, LeaveType DEF LoadFails
  <2>29. CASE HolderDies
    BY <2>29, LeaveType DEF HolderDies
  <2>30. ASSUME NEW i \in bodies, Damage(i) PROVE TypeOK'
    BY <2>30 DEF Damage
  <2>31. CASE PowerLoss
    <3>1. server' \in Captures
      BY <2>31, StoreAssumption, SMTT(30) DEF PowerLoss, Captures, StoreAssumption
    <3>2. /\ bodies' \subseteq Ids /\ ptr' \in Ids \cup {0} /\ cp' \in Checkpoints
          /\ durable' \in [bodies : SUBSET Ids, ptr : Ids \cup {0}, cp : Checkpoints]
      BY <2>31 DEF PowerLoss
    <3> QED BY <2>31, <3>1, <3>2, Defaults DEF PowerLoss, Steps
  <2>32. CASE UNCHANGED vars
    BY <2>32 DEF vars
  <2> QED
    BY <2>1, <2>2, <2>4, <2>5, <2>6, <2>7, <2>8, <2>9, <2>10, <2>11, <2>12, <2>13, <2>14,
       <2>15, <2>16, <2>17, <2>18, <2>19, <2>20, <2>21, <2>22, <2>23, <2>24, <2>25, <2>26,
       <2>27, <2>28, <2>29, <2>30, <2>31, <2>32 DEF Next, HolderStep
<1> QED
  BY <1>1, <1>2, PTL DEF Spec

-----------------------------------------------------------------------------
\* A step between two points of a command where the store is at rest: nothing
\* the invariant speaks of moves, and a removal under way may be given up.
LEMMA AtRest ==
    ASSUME StoreInv,
           UNCHANGED <<bodies, ptr, pins, durable, torn>>,
           step \notin {"syncBody", "syncPointer"},
           step' \notin {"syncBody", "pointer", "syncPointer"},
           doomed' = {}
    PROVE  StoreInv'
BY DEF StoreInv, CurrentNamesBody, PinnedSurvive

\* Outside a removal nothing is doomed.
LEMMA NothingDoomed == StoreInv /\ step # "remove" => doomed = {}
BY DEF StoreInv

\* The invariant that makes the store recoverable is preserved by every step.
LEMMA StoreStep == TypeOK /\ StoreInv /\ [Next]_vars => StoreInv'
<1> SUFFICES ASSUME TypeOK, StoreInv, [Next]_vars PROVE StoreInv'
  OBVIOUS
<1> USE DEF disk, crit
<1>a. ptr \in Ids \cup {0} /\ durable.ptr \in Ids \cup {0} /\ pins \subseteq Ids
  BY DEF TypeOK
<1>b. 0 \notin Ids /\ Len(snaps) + 1 \notin Ids \cup {0}
  BY DEF TypeOK, Ids
<1>c. durable = [bodies |-> durable.bodies, ptr |-> durable.ptr, cp |-> durable.cp]
  BY DEF TypeOK
<1>1. ASSUME NEW s \in Shapes, UserChange(s) PROVE StoreInv'
  BY <1>1 DEF UserChange, StoreInv, CurrentNamesBody, PinnedSurvive
<1>2. CASE ServerRestart
  BY <1>2 DEF ServerRestart, StoreInv, CurrentNamesBody, PinnedSurvive
<1>3. ASSUME NEW w, NEW r, Ask(w, r) PROVE StoreInv'
  BY <1>3 DEF Ask, StoreInv, CurrentNamesBody, PinnedSurvive
<1>4. ASSUME NEW w \in Clients, StartSave(w) \/ StartPin(w) \/ StartRestore(w)
      PROVE StoreInv'
  BY <1>4, <1>3, Zenon DEF StartSave, StartPin, StartRestore
<1>5. CASE StartAutosave
  BY <1>5, <1>3, Zenon DEF StartAutosave
<1>6. ASSUME NEW w \in Writers, Acquire(w) PROVE StoreInv'
  <2>1. step = "free" /\ step' \in {"enter", "marker"}
    BY <1>6, StoreAssumption DEF Acquire, TypeOK, StoreAssumption
  <2> QED BY <1>6, <2>1, NothingDoomed, AtRest DEF Acquire
<1>7. ASSUME NEW w \in Writers, WaiterDies(w) PROVE StoreInv'
  BY <1>7 DEF WaiterDies, StoreInv, CurrentNamesBody, PinnedSurvive
<1>8. CASE Enter
  <2>1. step = "enter" /\ step' \in {"free", "commit", "capture"}
    BY <1>8 DEF Enter, Leave, Proceed, Goto
  <2>2. doomed' = {}
    BY <1>8, <2>1, NothingDoomed DEF Enter, Leave, Proceed
  <2>3. durable'.bodies = durable.bodies /\ durable'.ptr \in {durable.ptr, ptr}
    BY <1>8, <1>c DEF Enter, DropDisabledCheckpoint
  <2> QED BY <1>8, <2>1, <2>2, <2>3
      DEF Enter, StoreInv, CurrentNamesBody, PinnedSurvive
<1>9. CASE Capture
  BY <1>9, NothingDoomed, AtRest DEF Capture, Goto
<1>10. CASE SkipProtected
  BY <1>10, AtRest DEF SkipProtected, Leave
<1>11. CASE Unchanged
  <2>1. step = "commit" /\ step' \in {"free", "pinCurrent", "checkpoint"}
    BY <1>11 DEF Unchanged, Goto, Succeed, Leave
  <2>2. doomed' = {}
    BY <1>11, <2>1, NothingDoomed DEF Unchanged, Succeed, Leave
  <2> QED BY <1>11, <2>1, <2>2, AtRest DEF Unchanged
<1>12. CASE WriteBody
  <2>1. step = "commit" /\ step' = "syncBody" /\ new' = Len(snaps) + 1
    BY <1>12 DEF WriteBody, Goto, NewId
  <2>2. new' \notin pins \cup {ptr, durable.ptr}
    BY <2>1, <1>a, <1>b
  <2> QED BY <1>12, <2>1, <2>2, NothingDoomed
      DEF WriteBody, StoreInv, CurrentNamesBody, PinnedSurvive
<1>13. CASE SyncBody
  <2>1. durable'.bodies = bodies /\ durable'.ptr = durable.ptr
    BY <1>13, <1>c DEF SyncBody
  <2> QED BY <1>13, <2>1, NothingDoomed
      DEF SyncBody, Goto, StoreInv, CurrentNamesBody, PinnedSurvive
<1>14. CASE WritePointer
  BY <1>14, NothingDoomed DEF WritePointer, Goto, StoreInv, CurrentNamesBody, PinnedSurvive
<1>15. CASE SyncPointer
  <2>1. durable'.bodies = durable.bodies /\ durable'.ptr = ptr
    BY <1>15, <1>c DEF SyncPointer
  <2> QED BY <1>15, <2>1, NothingDoomed
      DEF SyncPointer, Goto, StoreInv, CurrentNamesBody, PinnedSurvive
<1>16. CASE PinSaved
  <2>1. step \in {"pin", "pinCurrent"} /\ step' \in {"free", "prune", "checkpoint"}
    BY <1>16 DEF PinSaved, AfterStructure, Goto, Succeed, Leave
  <2>2. doomed' = {}
    BY <1>16, <2>1, NothingDoomed DEF PinSaved, AfterStructure, Succeed, Leave
  <2> QED BY <1>16, <2>1, <2>2
      DEF PinSaved, Loadable, StoreInv, CurrentNamesBody, PinnedSurvive
<1>17. CASE MarkSafety
  BY <1>17, NothingDoomed, AtRest DEF MarkSafety, Goto
<1>18. CASE DecidePrune
  <2>1. step = "prune" /\ step' \in {"unmark", "remove"} /\ (doomed' # {} => step' = "remove")
    BY <1>18 DEF DecidePrune, Goto
  <2>2. doomed' \subseteq bodies /\ doomed' \cap (pins \cup {ptr}) = {}
    BY <1>18 DEF DecidePrune, Entries, Kept
  <2> QED BY <1>18, <2>1, <2>2
      DEF DecidePrune, StoreInv, CurrentNamesBody, PinnedSurvive
<1>19. CASE RemoveBody
  <2>1. PICK i \in doomed : bodies' = bodies \ {i} /\ doomed' = doomed \ {i}
    BY <1>19 DEF RemoveBody
  <2>2. step = "remove" /\ step' \in {"syncRemoved", "remove"} /\ (doomed' # {} => step' = "remove")
    BY <1>19 DEF RemoveBody, Goto
  <2>3. i \notin pins \cup {ptr}
    BY <2>1 DEF StoreInv
  <2> QED BY <1>19, <2>1, <2>2, <2>3
      DEF RemoveBody, StoreInv, CurrentNamesBody, PinnedSurvive
<1>20. CASE SyncRemoved
  <2>1. durable'.bodies = bodies /\ durable'.ptr = durable.ptr
    BY <1>20, <1>c DEF SyncRemoved
  <2> QED BY <1>20, <2>1, NothingDoomed
      DEF SyncRemoved, Goto, StoreInv, CurrentNamesBody, PinnedSurvive
<1>21. CASE UnmarkExpired
  BY <1>21, NothingDoomed, AtRest DEF UnmarkExpired, Goto
<1>22. CASE AfterPrune
  <2>1. step = "unmark" /\ step' \in {"free", "apply", "checkpoint"}
    BY <1>22 DEF AfterPrune, AfterStructure, Goto, Succeed, Leave
  <2>2. doomed' = {}
    BY <1>22, <2>1, NothingDoomed DEF AfterPrune, AfterStructure, Succeed, Leave
  <2> QED BY <1>22, <2>1, <2>2, AtRest DEF AfterPrune
<1>23. CASE ApplyRestore
  BY <1>23, AtRest DEF ApplyRestore, Succeed, Leave
<1>24. CASE WriteCheckpoint
  BY <1>24, NothingDoomed, AtRest DEF WriteCheckpoint, Goto
<1>25. CASE SyncCheckpoint
  <2>1. durable'.bodies = durable.bodies /\ durable'.ptr = ptr
    BY <1>25, <1>c DEF SyncCheckpoint
  <2> QED BY <1>25, <2>1
      DEF SyncCheckpoint, Succeed, Leave, StoreInv, CurrentNamesBody, PinnedSurvive
<1>26. CASE CheckpointFails
  BY <1>26, AtRest DEF CheckpointFails, Succeed, Leave
<1>27. CASE WriteMarker
  BY <1>27, NothingDoomed
  DEF WriteMarker, Loadable, Succeed, Leave, StoreInv, CurrentNamesBody, PinnedSurvive
<1>28. CASE LoadFails
  BY <1>28, AtRest DEF LoadFails, Leave
<1>29. CASE HolderDies
  <2>1. step' = "free" /\ doomed' = {}
    BY <1>29 DEF HolderDies, Leave
  <2>2. ~torn' => ~torn /\ step \notin {"syncBody", "syncPointer"}
    BY <1>29 DEF HolderDies
  <2> QED BY <1>29, <2>1, <2>2 DEF HolderDies, StoreInv, CurrentNamesBody, PinnedSurvive
<1>30. ASSUME NEW i \in bodies, Damage(i) PROVE StoreInv'
  BY <1>30 DEF Damage, StoreInv, CurrentNamesBody, PinnedSurvive
<1>31. CASE PowerLoss
  <2>1. PICK b \in SUBSET (bodies \cup durable.bodies), p \in {ptr, durable.ptr}, c \in {cp, durable.cp} :
          /\ bodies \cap durable.bodies \subseteq b
          /\ bodies' = b /\ ptr' = p
          /\ durable' = [bodies |-> b, ptr |-> p, cp |-> c]
    BY <1>31 DEF PowerLoss
  <2>2. durable'.bodies = bodies' /\ durable'.ptr = ptr'
    BY <2>1
  <2>3. step' = "free" /\ doomed' = {} /\ pins' = pins
    BY <1>31 DEF PowerLoss
  <2>4. pins \subseteq bodies \cap durable.bodies
    BY <1>31 DEF PowerLoss, StoreInv, PinnedSurvive
  <2>5. ptr' # 0 => ptr' \in bodies \cap durable.bodies
    BY <1>31, <2>1 DEF PowerLoss, StoreInv, CurrentNamesBody
  <2> QED BY <2>1, <2>2, <2>3, <2>4, <2>5 DEF StoreInv, CurrentNamesBody, PinnedSurvive
<1>32. CASE UNCHANGED vars
  BY <1>32 DEF vars, StoreInv, CurrentNamesBody, PinnedSurvive
<1> QED
  BY <1>1, <1>2, <1>4, <1>5, <1>6, <1>7, <1>8, <1>9, <1>10, <1>11, <1>12, <1>13, <1>14,
     <1>15, <1>16, <1>17, <1>18, <1>19, <1>20, <1>21, <1>22, <1>23, <1>24, <1>25, <1>26,
     <1>27, <1>28, <1>29, <1>30, <1>31, <1>32 DEF Next, HolderStep

\* The store is recoverable in every reachable state: a finished commit and the
\* pinned snapshots would survive a power loss at this moment.
THEOREM StoreRecoverable == Spec => []StoreInv
<1>1. Init => StoreInv
  BY DEF Init, StoreInv, CurrentNamesBody, PinnedSurvive
<1> QED
  BY <1>1, StoreStep, TypeCorrect, PTL DEF Spec

\* current.json names a body that is there, at every moment of every command.
THEOREM CurrentSafe == Spec => []CurrentNamesBody
<1>1. StoreInv => CurrentNamesBody
  BY DEF StoreInv
<1> QED
  BY <1>1, StoreRecoverable, PTL

-------------------------------------------------------------------------------
\* The order in which commands of the store see each other.

\* The steps of a holder whose snapshot is in the store, or was there already.
Committed ==
    {"syncBody", "pointer", "syncPointer", "pin", "pinCurrent", "mark", "prune", "remove",
     "syncRemoved", "unmark", "apply", "checkpoint", "syncCheckpoint"}

SameContent(c, d) == c.gen = d.gen /\ c.shape = d.shape
Fits(c) == c.base # 0 => c.base \in Ids /\ SameContent(c, snaps[c.base])

\* The sidecar on disk, the one that a power loss may bring back, and the one that the
\* holder is going to write all fit the snapshot they name.
FitInv ==
    /\ Fits(cp) /\ Fits(durable.cp)
    /\ step \in Committed => new \in Ids /\ SameContent(snaps[new], cap)

\* A new snapshot does not disturb the ones before it.
LEMMA Appended ==
  ASSUME TypeOK, snaps' = Append(snaps, cap)
  PROVE  /\ Ids \subseteq Ids' /\ NewId \in Ids' /\ snaps'[NewId] = cap
         /\ Ids' = Ids \cup {NewId} /\ Len(snaps) \in Nat
         /\ \A i \in Ids : snaps'[i] = snaps[i]
BY DEF TypeOK, Ids, NewId

\* What fitted before a snapshot was added still fits.
LEMMA FitsStay ==
  ASSUME TypeOK, NEW c, Fits(c), snaps' = snaps \/ snaps' = Append(snaps, cap)
  PROVE  c.base # 0 => c.base \in Ids' /\ SameContent(c, snaps'[c.base])
BY Appended, IdsStay DEF Fits, SameContent

\* No step leaves a sidecar that does not fit: the one that is written has the capture
\* of the snapshot it names, and the others were there before.
LEMMA FitStep == TypeOK /\ FitInv /\ [Next]_vars => FitInv'
<1> SUFFICES ASSUME TypeOK, FitInv, [Next]_vars PROVE FitInv'
  OBVIOUS
<1> USE DEF disk, crit
<1>a. durable = [bodies |-> durable.bodies, ptr |-> durable.ptr, cp |-> durable.cp]
  BY DEF TypeOK
<1>b. ASSUME UNCHANGED snaps, {cp', durable'.cp} \subseteq {cp, durable.cp, NoCheckpoint},
             \/ step' \notin Committed
             \/ step \in Committed /\ UNCHANGED <<new, cap>>
      PROVE  FitInv'
  <2>1. Fits(NoCheckpoint)
    BY DEF Fits, NoCheckpoint
  <2>2. Fits(cp)'
    BY <1>b, <2>1, IdsStay DEF FitInv, Fits
  <2>3. Fits(durable.cp)'
    BY <1>b, <2>1, IdsStay DEF FitInv, Fits
  <2> QED BY <1>b, <2>2, <2>3, IdsStay DEF FitInv
<1>1. CASE WriteBody
  <2>1. /\ snaps' = Append(snaps, cap) /\ new' = NewId /\ UNCHANGED <<cp, durable, cap>>
        /\ step' = "syncBody"
    BY <1>1 DEF WriteBody, Goto
  <2>2. Fits(cp)' /\ Fits(durable.cp)'
    BY <2>1, FitsStay DEF FitInv, Fits
  <2>3. new' \in Ids' /\ SameContent(snaps'[new'], cap')
    BY <2>1, Appended DEF SameContent
  <2> QED BY <2>2, <2>3 DEF FitInv
<1>2. CASE WriteCheckpoint
  <2>1. /\ UNCHANGED <<snaps, durable, new, cap>> /\ step = "checkpoint"
        /\ cp' = [base |-> new, gen |-> cap.gen, shape |-> cap.shape, ver |-> cap.ver]
    BY <1>2 DEF WriteCheckpoint
  <2>2. new \in Ids /\ SameContent(snaps[new], cap)
    BY <2>1 DEF FitInv, Committed
  <2>3. Fits(cp)' /\ Fits(durable.cp)'
    BY <2>1, <2>2, IdsStay DEF FitInv, Fits, SameContent
  <2> QED BY <2>1, <2>2, <2>3, IdsStay DEF FitInv
<1>3. CASE Unchanged
  <2>1. ptr \in Ids /\ SameContent(snaps[ptr], cap)
    BY <1>3 DEF Unchanged, Dedups, CurrentMatches, TypeOK, SameContent
  <2>2. UNCHANGED <<snaps, cp, durable>>
    BY <1>3 DEF Unchanged
  <2>3. step' = "free" \/ (new' = ptr /\ UNCHANGED cap)
    BY <1>3 DEF Unchanged, Succeed, Leave
  <2>4. Fits(cp)' /\ Fits(durable.cp)'
    BY <2>2, IdsStay DEF FitInv, Fits
  <2> QED BY <2>1, <2>2, <2>3, <2>4, IdsStay DEF FitInv, Committed
<1>4. ASSUME NEW w, NEW r, Ask(w, r) PROVE FitInv'
  BY <1>4, <1>b DEF Ask
<1>5. ASSUME NEW w \in Clients, StartSave(w) \/ StartPin(w) \/ StartRestore(w) PROVE FitInv'
  BY <1>5, <1>4, Zenon DEF StartSave, StartPin, StartRestore
<1>6. CASE StartAutosave
  BY <1>6, <1>4, Zenon DEF StartAutosave
<1>7. ASSUME NEW s \in Shapes, UserChange(s) PROVE FitInv'
  BY <1>7, <1>b DEF UserChange
<1>8. ASSUME NEW w \in Writers, Acquire(w) \/ WaiterDies(w) PROVE FitInv'
  BY <1>8, <1>b DEF Acquire, WaiterDies, Committed
<1>9. CASE Enter
  <2>1. step' \notin Committed
    BY <1>9 DEF Enter, Leave, Proceed, Goto, Committed
  <2>2. {cp', durable'.cp} \subseteq {cp, durable.cp, NoCheckpoint}
    BY <1>9, <1>a DEF Enter, DropDisabledCheckpoint
  <2> QED BY <1>9, <1>b, <2>1, <2>2 DEF Enter
<1>10. CASE SyncBody \/ WritePointer \/ SyncPointer \/ MarkSafety \/ RemoveBody
              \/ SyncRemoved \/ UnmarkExpired \/ DecidePrune
  <2>1. step \in Committed /\ UNCHANGED <<snaps, cp, new, cap>>
    BY <1>10 DEF SyncBody, WritePointer, SyncPointer, MarkSafety, RemoveBody, SyncRemoved,
                 UnmarkExpired, DecidePrune, Committed
  <2>2. durable'.cp \in {cp, durable.cp}
    BY <1>10, <1>a DEF SyncBody, WritePointer, SyncPointer, MarkSafety, RemoveBody,
                       SyncRemoved, UnmarkExpired, DecidePrune
  <2> QED BY <1>b, <2>1, <2>2
<1>11. CASE PinSaved \/ AfterPrune
  <2>1. step \in Committed /\ UNCHANGED <<snaps, cp, durable>>
    BY <1>11 DEF PinSaved, AfterPrune, Committed
  <2>2. step' = "free" \/ UNCHANGED <<new, cap>>
    BY <1>11 DEF PinSaved, AfterPrune, AfterStructure, Succeed, Leave
  <2> QED BY <1>b, <2>1, <2>2 DEF Committed
<1>12. CASE ApplyRestore \/ SyncCheckpoint \/ WriteMarker \/ LoadFails \/ CheckpointFails
              \/ HolderDies \/ SkipProtected
  <2>1. step' = "free" /\ UNCHANGED <<snaps, cp>>
    BY <1>12 DEF ApplyRestore, SyncCheckpoint, WriteMarker, LoadFails, CheckpointFails,
                 HolderDies, SkipProtected, Succeed, Leave
  <2>2. durable'.cp \in {cp, durable.cp}
    BY <1>12, <1>a DEF ApplyRestore, SyncCheckpoint, WriteMarker, LoadFails,
                       CheckpointFails, HolderDies, SkipProtected
  <2> QED BY <1>b, <2>1, <2>2 DEF Committed
<1>13. CASE ServerRestart \/ Capture
  BY <1>13, <1>b DEF ServerRestart, Capture, Goto, Committed
<1>14. ASSUME NEW i \in bodies, Damage(i) PROVE FitInv'
  BY <1>14, <1>b DEF Damage
<1>15. CASE PowerLoss
  <2>1. \E b \in SUBSET (bodies \cup durable.bodies), p \in {ptr, durable.ptr},
           c \in {cp, durable.cp} :
          cp' = c /\ durable' = [bodies |-> b, ptr |-> p, cp |-> c]
    BY <1>15 DEF PowerLoss
  <2>2. UNCHANGED snaps /\ step' = "free"
    BY <1>15 DEF PowerLoss
  <2> QED BY <1>b, <2>1, <2>2 DEF Committed
<1>16. CASE UNCHANGED vars
  BY <1>16, <1>b DEF vars
<1> QED
  BY <1>1, <1>2, <1>3, <1>5, <1>6, <1>7, <1>8, <1>9, <1>10, <1>11, <1>12, <1>13, <1>14,
     <1>15, <1>16 DEF Next, HolderStep

\* The process checkpoint always fits the snapshot it names (storage.rs commit_with;
\* restore.rs checkpoint_eligibility): it is written last, by the holder of the lock,
\* from the capture that current holds, and a power loss brings back one that fitted.
THEOREM CheckpointFits == Spec => []CheckpointFitsBase
<1>1. Init => FitInv
  BY DEF Init, FitInv, Fits, NoCheckpoint, Committed
<1>2. FitInv => CheckpointFitsBase
  BY DEF FitInv, Fits, SameContent, CheckpointFitsBase
<1> QED BY <1>1, <1>2, FitStep, TypeCorrect, PTL DEF Spec

-----------------------------------------------------------------------------
\* The command that holds the lock is under way, and is one that has this step.
ControlInv ==
    /\ step # "free" => Command # Idle
    /\ step = "marker" => Command.op \in {"pin", "unpin"}
    /\ step \in {"mark", "apply"} => Command.op = "restore"
    /\ step \in {"capture", "pointer", "syncPointer", "pin", "pinCurrent", "checkpoint",
                 "syncCheckpoint"} => Command.op # "restore"

\* Nothing seen of the server is newer than the server, and what was seen at its
\* present version is the server.
Seen(c, s) == c.ver <= s.ver /\ (c.ver = s.ver => c = s)
SeenInv ==
    /\ 0 < server.ver
    /\ Seen(cap, server) /\ Seen(lastSaved, server)
    /\ \A w \in Writers : Seen(req[w].target, server)
    /\ \A i \in Ids : snaps[i].ver <= server.ver

\* What the holder of a save has captured is at least as new as every snapshot and
\* the last capture reported, until it has published it.
AheadInv ==
    /\ step \in {"commit", "syncBody", "pointer"} /\ Command.op # "restore" =>
          Seen(lastSaved, cap) /\ \A i \in Ids : snaps[i].ver <= cap.ver
    /\ step \in {"syncBody", "pointer"} => new \in Ids /\ snaps[new] = cap

\* What the last save reported is what the pointer names, or it was replaced by a later
\* capture; a power loss does not change that, since the durable pointer says the same.
Holds(p) ==
    lastSaved # NoCapture =>
        p # 0 /\ (SameContent(snaps[p], lastSaved) \/ snaps[p].ver > lastSaved.ver)
Published ==
    {"syncPointer", "pin", "pinCurrent", "prune", "remove", "syncRemoved", "unmark",
     "checkpoint", "syncCheckpoint"}
HoldsInv ==
    /\ Holds(ptr) /\ (~torn => Holds(durable.ptr))
    /\ step \in Published /\ Command.op \in SaveOps =>
          ptr # 0 /\ SameContent(snaps[ptr], cap)

\* While the lock is held nobody touches the command of its holder.
LEMMA ControlStep == TypeOK /\ ControlInv /\ [Next]_vars => ControlInv'
<1> SUFFICES ASSUME TypeOK, ControlInv, [Next]_vars PROVE ControlInv'
  OBVIOUS
<1> USE DEF disk, crit
<1>a. ASSUME UNCHANGED <<holder, step>>, step # "free" => Command' = Command
      PROVE  ControlInv'
  BY <1>a DEF ControlInv
<1>b. ASSUME step' = "free" PROVE ControlInv'
  BY <1>b DEF ControlInv
<1>c. step # "free" => holder \in Writers
  BY DEF TypeOK
<1>1. ASSUME NEW w \in Writers, NEW r, Ask(w, r) PROVE ControlInv'
  <2>1. step # "free" => holder # w
    BY <1>1, <1>c DEF Ask, ControlInv, Command, Idle
  <2> QED BY <1>1, <1>a, <1>c, <2>1 DEF Ask, Command, TypeOK
<1>2. ASSUME NEW w \in Clients, StartSave(w) \/ StartPin(w) \/ StartRestore(w)
      PROVE  ControlInv'
  BY <1>2, <1>1, Zenon DEF StartSave, StartPin, StartRestore, Writers
<1>3. CASE StartAutosave
  <2>1. Daemon \in Writers
    BY DEF Writers
  <2> QED BY <1>3, <1>1, <2>1, Zenon DEF StartAutosave
<1>4. ASSUME NEW s \in Shapes, UserChange(s) PROVE ControlInv'
  BY <1>4, <1>a DEF UserChange, Command
<1>5. ASSUME NEW w \in Writers, Acquire(w) PROVE ControlInv'
  BY <1>5 DEF Acquire, Command, ControlInv
<1>6. ASSUME NEW w \in Writers, WaiterDies(w) PROVE ControlInv'
  BY <1>6, <1>a, <1>c DEF WaiterDies, Command, TypeOK
<1>d. ASSUME step # "free", UNCHANGED <<req, holder>>,
             step' \in {"enter", "commit", "syncBody", "prune", "remove", "syncRemoved",
                        "unmark"}
      PROVE  ControlInv'
  BY <1>d DEF ControlInv, Command
<1>e. ASSUME step # "free", UNCHANGED <<req, holder>>, Command.op # "restore",
             step' \in {"capture", "pointer", "syncPointer", "pin", "pinCurrent",
                        "checkpoint", "syncCheckpoint"}
      PROVE  ControlInv'
  BY <1>e DEF ControlInv, Command
<1>f. ASSUME step # "free", UNCHANGED <<req, holder>>, Command.op = "restore",
             step' \in {"mark", "apply"}
      PROVE  ControlInv'
  BY <1>f DEF ControlInv, Command
<1>7. CASE Enter
  BY <1>7, <1>b, <1>d, <1>e DEF Enter, Leave, Proceed, Goto
<1>8. CASE Unchanged
  BY <1>8, <1>b, <1>e DEF Unchanged, Dedups, Succeed, Leave, Goto
<1>9. CASE SyncBody
  BY <1>9, <1>e, <1>f DEF SyncBody, Goto
<1>10. CASE Capture \/ WriteBody \/ MarkSafety \/ DecidePrune \/ RemoveBody \/ SyncRemoved
              \/ UnmarkExpired
  <2>1. step # "free" /\ UNCHANGED <<req, holder>>
    BY <1>10 DEF Capture, WriteBody, MarkSafety, DecidePrune, RemoveBody, SyncRemoved,
                 UnmarkExpired, Goto
  <2>2. step' \in {"commit", "syncBody", "prune", "remove", "syncRemoved", "unmark"}
    BY <1>10 DEF Capture, WriteBody, MarkSafety, DecidePrune, RemoveBody, SyncRemoved,
                 UnmarkExpired, Goto
  <2> QED BY <1>d, <2>1, <2>2
<1>11. CASE WritePointer \/ SyncPointer \/ PinSaved \/ WriteCheckpoint
  <2>1. step \in {"pointer", "syncPointer", "pin", "pinCurrent", "checkpoint"}
    BY <1>11 DEF WritePointer, SyncPointer, PinSaved, WriteCheckpoint
  <2>2. Command.op # "restore"
    BY <2>1 DEF ControlInv
  <2>3. \/ step' = "free"
        \/ /\ UNCHANGED <<req, holder>>
           /\ step' \in {"syncPointer", "pin", "prune", "checkpoint", "syncCheckpoint"}
    BY <1>11 DEF WritePointer, SyncPointer, PinSaved, WriteCheckpoint, AfterStructure,
                 Succeed, Leave, Goto
  <2> QED BY <1>b, <1>d, <1>e, <2>1, <2>2, <2>3
<1>12. CASE AfterPrune
  BY <1>12, <1>b, <1>e, <1>f DEF AfterPrune, AfterStructure, Succeed, Leave, Goto
<1>13. CASE SkipProtected \/ ApplyRestore \/ SyncCheckpoint \/ WriteMarker \/ LoadFails
              \/ CheckpointFails \/ HolderDies \/ PowerLoss
  BY <1>13, <1>b DEF SkipProtected, ApplyRestore, SyncCheckpoint, WriteMarker, LoadFails,
                     CheckpointFails, HolderDies, PowerLoss, Succeed, Leave
<1>14. CASE ServerRestart
  BY <1>14, <1>a DEF ServerRestart, Command
<1>15. ASSUME NEW i \in bodies, Damage(i) PROVE ControlInv'
  BY <1>15, <1>a DEF Damage, Command
<1>16. CASE UNCHANGED vars
  BY <1>16, <1>a DEF vars, Command
<1> QED
  BY <1>2, <1>3, <1>4, <1>5, <1>6, <1>7, <1>8, <1>9, <1>10, <1>11, <1>12, <1>13, <1>14,
     <1>15, <1>16 DEF Next, HolderStep

\* Where what a step brings in comes from: the clock of the server only goes forward,
\* and whoever remembers a capture took it now or had it from somebody who did.
LEMMA Sources ==
  ASSUME TypeOK, ControlInv, [Next]_vars
  PROVE  /\ server' = server \/ server'.ver > server.ver
         /\ cap' \in {cap, NoCapture, server} \/ (holder \in Writers /\ cap' = Command.target)
         /\ lastSaved' \in {lastSaved, cap}
         /\ \A w \in Writers : req'[w].target \in {req[w].target, NoCapture, server}
         /\ snaps' = snaps \/ snaps' = Append(snaps, cap)
<1> USE DEF disk, crit
<1>a. Idle.target = NoCapture
  BY Defaults
<1>b. step # "free" => holder \in Writers
  BY DEF TypeOK
<1>c. server.ver \in Nat /\ server = [gen |-> server.gen, shape |-> server.shape,
                                     ver |-> server.ver]
  BY DEF TypeOK, Captures
<1>1. server' = server \/ server'.ver > server.ver
  <2>1. ASSUME NEW w, NEW r, Ask(w, r) PROVE server' = server
    BY <2>1 DEF Ask
  <2>2. ASSUME NEW w \in Clients, StartSave(w) \/ StartPin(w) \/ StartRestore(w)
        PROVE  server' = server
    BY <2>2, <2>1, Zenon DEF StartSave, StartPin, StartRestore
  <2>3. CASE StartAutosave
    BY <2>3, <2>1, Zenon DEF StartAutosave
  <2>4. CASE \/ \E s \in Shapes : UserChange(s)
             \/ ServerRestart \/ ApplyRestore \/ PowerLoss
    <3>1. ASSUME NEW s \in Shapes, server' = [server EXCEPT !.shape = s, !.ver = @ + 1]
          PROVE  server'.ver = server.ver + 1
      BY <3>1, <1>c
    <3>2. CASE \E s \in Shapes : UserChange(s)
      BY <3>2, <3>1, <1>c DEF UserChange
    <3>3. CASE ServerRestart \/ PowerLoss
      BY <3>3, <1>c DEF ServerRestart, PowerLoss
    <3>4. CASE ApplyRestore
      <4>1. CASE UNCHANGED server
        BY <4>1
      <4>2. CASE server' # server
        <5>1. PICK s \in Shapes : server' = [server EXCEPT !.shape = s, !.ver = @ + 1]
          BY <3>4, <4>2 DEF ApplyRestore
        <5> QED BY <5>1, <3>1, <1>c
      <4> QED BY <4>1, <4>2
    <3> QED BY <2>4, <3>2, <3>3, <3>4
  <2>5. CASE HolderStep /\ ~ApplyRestore
    BY <2>5
    DEF HolderStep, Enter, Capture, SkipProtected, Unchanged, WriteBody, SyncBody,
        WritePointer, SyncPointer, PinSaved, MarkSafety, DecidePrune, RemoveBody,
        SyncRemoved, UnmarkExpired, AfterPrune, WriteCheckpoint, SyncCheckpoint,
        WriteMarker, LoadFails
  <2>6. CASE \/ \E w \in Writers : Acquire(w) \/ WaiterDies(w)
             \/ CheckpointFails \/ HolderDies \/ \E i \in bodies : Damage(i)
             \/ UNCHANGED vars
    BY <2>6 DEF Acquire, WaiterDies, CheckpointFails, HolderDies, Damage, vars
  <2> QED BY <2>2, <2>3, <2>4, <2>5, <2>6 DEF Next
<1>2. cap' \in {cap, NoCapture, server} \/ (holder \in Writers /\ cap' = Command.target)
  <2>1. ASSUME NEW w, NEW r, Ask(w, r) PROVE cap' = cap
    BY <2>1 DEF Ask
  <2>2. ASSUME NEW w \in Clients, StartSave(w) \/ StartPin(w) \/ StartRestore(w)
        PROVE  cap' = cap
    BY <2>2, <2>1, Zenon DEF StartSave, StartPin, StartRestore
  <2>3. CASE StartAutosave
    BY <2>3, <2>1, Zenon DEF StartAutosave
  <2>4. CASE Enter
    BY <2>4, <1>b DEF Enter, Leave, Proceed
  <2>5. CASE HolderStep /\ ~Enter
    BY <2>5
    DEF HolderStep, Capture, SkipProtected, Unchanged, WriteBody, SyncBody,
        WritePointer, SyncPointer, PinSaved, MarkSafety, DecidePrune, RemoveBody,
        SyncRemoved, UnmarkExpired, AfterPrune, AfterStructure, ApplyRestore,
        WriteCheckpoint, SyncCheckpoint, WriteMarker, LoadFails, Succeed, Leave
  <2>6. CASE \/ \E w \in Writers : Acquire(w) \/ WaiterDies(w)
             \/ CheckpointFails \/ HolderDies \/ \E i \in bodies : Damage(i)
             \/ \E s \in Shapes : UserChange(s)
             \/ ServerRestart \/ PowerLoss \/ UNCHANGED vars
    BY <2>6 DEF Acquire, WaiterDies, CheckpointFails, HolderDies, Damage, UserChange,
                ServerRestart, PowerLoss, Succeed, Leave, vars
  <2> QED BY <2>2, <2>3, <2>4, <2>5, <2>6 DEF Next
<1>3. lastSaved' \in {lastSaved, cap}
  <2>1. ASSUME NEW w, NEW r, Ask(w, r) PROVE lastSaved' = lastSaved
    BY <2>1 DEF Ask
  <2>2. ASSUME NEW w \in Clients, StartSave(w) \/ StartPin(w) \/ StartRestore(w)
        PROVE  lastSaved' = lastSaved
    BY <2>2, <2>1, Zenon DEF StartSave, StartPin, StartRestore
  <2>3. CASE StartAutosave
    BY <2>3, <2>1, Zenon DEF StartAutosave
  <2>4. CASE HolderStep
    BY <2>4
    DEF HolderStep, Enter, Capture, SkipProtected, Unchanged, WriteBody, SyncBody,
        WritePointer, SyncPointer, PinSaved, MarkSafety, DecidePrune, RemoveBody,
        SyncRemoved, UnmarkExpired, AfterPrune, AfterStructure, ApplyRestore,
        WriteCheckpoint, SyncCheckpoint, WriteMarker, LoadFails, Succeed
  <2>5. CASE \/ \E w \in Writers : Acquire(w) \/ WaiterDies(w)
             \/ CheckpointFails \/ HolderDies \/ \E i \in bodies : Damage(i)
             \/ \E s \in Shapes : UserChange(s)
             \/ ServerRestart \/ PowerLoss \/ UNCHANGED vars
    BY <2>5 DEF Acquire, WaiterDies, CheckpointFails, HolderDies, Damage, UserChange,
                ServerRestart, PowerLoss, Succeed, vars
  <2> QED BY <2>2, <2>3, <2>4, <2>5 DEF Next
<1>4. ASSUME NEW w \in Writers PROVE req'[w].target \in {req[w].target, NoCapture, server}
  <2>1. ASSUME NEW v, NEW r, Ask(v, r), r.target \in {NoCapture, server}
        PROVE  req'[w].target \in {req[w].target, NoCapture, server}
    BY <2>1 DEF Ask, TypeOK
  <2>2. ASSUME NEW v \in Clients, StartSave(v) \/ StartPin(v)
        PROVE  req'[w].target \in {req[w].target, NoCapture, server}
    <3>1. \E op, x : \/ Ask(v, [Idle EXCEPT !.op = op, !.pin = x])
                     \/ Ask(v, [Idle EXCEPT !.op = op, !.id = x])
      BY <2>2, Zenon DEF StartSave, StartPin
    <3>2. \A op, x : /\ [Idle EXCEPT !.op = op, !.pin = x].target = NoCapture
                     /\ [Idle EXCEPT !.op = op, !.id = x].target = NoCapture
      BY DEF Idle
    <3> QED BY <2>1, <3>1, <3>2
  <2>3. ASSUME NEW v \in Clients, StartRestore(v)
        PROVE  req'[w].target \in {req[w].target, NoCapture, server}
    <3>1. PICK i, x : Ask(v, [Idle EXCEPT !.op = "restore", !.id = i, !.replace = x,
                                          !.target = server])
      BY <2>3, Zenon DEF StartRestore
    <3>2. [Idle EXCEPT !.op = "restore", !.id = i, !.replace = x,
                       !.target = server].target = server
      BY DEF Idle
    <3> QED BY <2>1, <3>1, <3>2
  <2>4. CASE StartAutosave
    <3>1. PICK i : Ask(Daemon, [Idle EXCEPT !.op = "autosave", !.id = i])
      BY <2>4, Zenon DEF StartAutosave
    <3>2. [Idle EXCEPT !.op = "autosave", !.id = i].target = NoCapture
      BY DEF Idle
    <3> QED BY <2>1, <3>1, <3>2
  <2>5. CASE HolderStep \/ CheckpointFails \/ HolderDies
    <3>1. req' = req \/ req' = [req EXCEPT ![holder] = Idle]
      BY <2>5
      DEF HolderStep, Enter, Capture, SkipProtected, Unchanged, WriteBody, SyncBody,
          WritePointer, SyncPointer, PinSaved, MarkSafety, DecidePrune, RemoveBody,
          SyncRemoved, UnmarkExpired, AfterPrune, AfterStructure, ApplyRestore,
          WriteCheckpoint, SyncCheckpoint, WriteMarker, LoadFails, CheckpointFails,
          HolderDies, Proceed, Succeed, Leave, Goto
    <3> QED BY <3>1, <1>a DEF TypeOK
  <2>6. CASE \/ \E v \in Writers : Acquire(v) \/ WaiterDies(v)
             \/ \E i \in bodies : Damage(i)
             \/ \E s \in Shapes : UserChange(s)
             \/ ServerRestart \/ PowerLoss \/ UNCHANGED vars
    BY <2>6, <1>a DEF Acquire, WaiterDies, Damage, UserChange, ServerRestart, PowerLoss,
                      TypeOK, vars
  <2> QED BY <2>2, <2>3, <2>4, <2>5, <2>6 DEF Next
<1>5. snaps' = snaps \/ snaps' = Append(snaps, cap)
  <2>1. ASSUME NEW w, NEW r, Ask(w, r) PROVE snaps' = snaps
    BY <2>1 DEF Ask
  <2>2. ASSUME NEW w \in Clients, StartSave(w) \/ StartPin(w) \/ StartRestore(w)
        PROVE  snaps' = snaps
    BY <2>2, <2>1, Zenon DEF StartSave, StartPin, StartRestore
  <2>3. CASE StartAutosave
    BY <2>3, <2>1, Zenon DEF StartAutosave
  <2>4. CASE HolderStep
    BY <2>4
    DEF HolderStep, Enter, Capture, SkipProtected, Unchanged, WriteBody, SyncBody,
        WritePointer, SyncPointer, PinSaved, MarkSafety, DecidePrune, RemoveBody,
        SyncRemoved, UnmarkExpired, AfterPrune, ApplyRestore, WriteCheckpoint,
        SyncCheckpoint, WriteMarker, LoadFails
  <2>5. CASE \/ \E w \in Writers : Acquire(w) \/ WaiterDies(w)
             \/ CheckpointFails \/ HolderDies \/ \E i \in bodies : Damage(i)
             \/ \E s \in Shapes : UserChange(s)
             \/ ServerRestart \/ PowerLoss \/ UNCHANGED vars
    BY <2>5 DEF Acquire, WaiterDies, CheckpointFails, HolderDies, Damage, UserChange,
                ServerRestart, PowerLoss, vars
  <2> QED BY <2>2, <2>3, <2>4, <2>5 DEF Next
<1> QED BY <1>1, <1>2, <1>3, <1>4, <1>5

\* What is remembered of the server stays true of it as the server changes.
LEMMA SeenStays ==
  ASSUME NEW c, NEW s \in Captures, NEW t \in Captures,
         t = s \/ t.ver > s.ver, c \in Captures,
         Seen(c, s) \/ c = NoCapture, 0 < s.ver
  PROVE  Seen(c, t)
BY DEF Seen, Captures, NoCapture

\* What was seen stays true, by where it came from.
LEMMA SeenStep == TypeOK /\ TypeOK' /\ ControlInv /\ SeenInv /\ [Next]_vars => SeenInv'
<1> SUFFICES ASSUME TypeOK, TypeOK', ControlInv, SeenInv, [Next]_vars PROVE SeenInv'
  OBVIOUS
<1>a. /\ server \in Captures /\ server' \in Captures /\ 0 < server.ver
      /\ cap \in Captures /\ lastSaved \in Captures
      /\ \A w \in Writers : req[w].target \in Captures
      /\ \A i \in Ids : snaps[i] \in Captures
  BY DEF TypeOK, SeenInv, Requests, Ids
<1>b. server' = server \/ server'.ver > server.ver
  BY Sources
<1>c. ASSUME NEW c \in Captures, Seen(c, server) \/ c = NoCapture PROVE Seen(c, server')
  BY <1>a, <1>b, <1>c, SeenStays
<1>d. Seen(server, server)
  BY <1>a DEF Seen, Captures
<1>e. NoCapture \in Captures
  BY Defaults
<1>1. 0 < server'.ver
  BY <1>a, <1>b DEF Captures
<1>2. Seen(cap', server')
  <2>1. cap' \in Captures /\ (Seen(cap', server) \/ cap' = NoCapture)
    BY Sources, <1>a, <1>d, <1>e DEF SeenInv, Command
  <2> QED BY <2>1, <1>c
<1>3. Seen(lastSaved', server')
  BY Sources, <1>a, <1>c DEF SeenInv
<1>4. ASSUME NEW w \in Writers PROVE Seen(req'[w].target, server')
  <2>1. req'[w].target \in Captures
        /\ (Seen(req'[w].target, server) \/ req'[w].target = NoCapture)
    BY Sources, <1>a, <1>d, <1>e DEF SeenInv
  <2> QED BY <2>1, <1>c
<1>5. ASSUME NEW i \in Ids' PROVE snaps'[i].ver <= server'.ver
  <2>1. snaps'[i].ver <= server.ver /\ snaps'[i].ver \in Nat
    <3>1. CASE snaps' = snaps
      BY <3>1, <1>5, <1>a, IdsStay DEF SeenInv, Captures
    <3>2. CASE snaps' = Append(snaps, cap)
      BY <3>2, <1>5, <1>a, Appended DEF SeenInv, Seen, Captures
    <3> QED BY <3>1, <3>2, Sources
  <2> QED BY <2>1, <1>a, <1>b DEF Captures
<1> QED BY <1>1, <1>2, <1>3, <1>4, <1>5 DEF SeenInv

\* From the capture to the pointer the holder is ahead of all others: it took its
\* capture under the lock, and nobody else adds a snapshot or reports a save.
LEMMA AheadStep ==
  TypeOK /\ TypeOK' /\ ControlInv /\ SeenInv /\ AheadInv /\ [Next]_vars => AheadInv'
<1> SUFFICES ASSUME TypeOK, ControlInv, SeenInv, AheadInv, [Next]_vars PROVE AheadInv'
  OBVIOUS
<1> USE DEF disk, crit
<1>a. ASSUME UNCHANGED <<snaps, step, new, cap, lastSaved>>, step # "free" => Command' = Command
      PROVE  AheadInv'
  BY <1>a, IdsStay DEF AheadInv
<1>b. ASSUME step' \notin {"commit", "syncBody", "pointer"} PROVE AheadInv'
  BY <1>b DEF AheadInv
<1>c. step # "free" => holder \in Writers
  BY DEF TypeOK
<1>1. ASSUME NEW w \in Writers, NEW r, Ask(w, r) PROVE AheadInv'
  <2>1. step # "free" => holder # w
    BY <1>1, <1>c DEF Ask, ControlInv, Command
  <2> QED BY <1>1, <1>a, <1>c, <2>1 DEF Ask, Command, TypeOK
<1>2. ASSUME NEW w \in Clients, StartSave(w) \/ StartPin(w) \/ StartRestore(w)
      PROVE  AheadInv'
  BY <1>2, <1>1, Zenon DEF StartSave, StartPin, StartRestore, Writers
<1>3. CASE StartAutosave
  <2>1. Daemon \in Writers
    BY DEF Writers
  <2> QED BY <1>3, <1>1, <2>1, Zenon DEF StartAutosave
<1>4. ASSUME NEW s \in Shapes, UserChange(s) PROVE AheadInv'
  BY <1>4, <1>a DEF UserChange, Command
<1>5. ASSUME NEW w \in Writers, Acquire(w) PROVE AheadInv'
  BY <1>5, <1>b DEF Acquire
<1>6. ASSUME NEW w \in Writers, WaiterDies(w) PROVE AheadInv'
  BY <1>6, <1>a, <1>c DEF WaiterDies, Command, TypeOK
<1>7. CASE Enter
  <2>1. step' # "commit" \/ (Command.op = "restore" /\ UNCHANGED <<req, holder>>)
    BY <1>7 DEF Enter, Leave, Proceed, Goto
  <2>2. step' \notin {"syncBody", "pointer"}
    BY <1>7 DEF Enter, Leave, Proceed, Goto
  <2> QED BY <2>1, <2>2 DEF AheadInv, Command
<1>8. CASE Capture
  <2>1. cap' = server /\ step' = "commit" /\ UNCHANGED <<snaps, lastSaved>>
    BY <1>8 DEF Capture, Goto
  <2> QED BY <2>1, IdsStay DEF AheadInv, SeenInv
<1>9. CASE WriteBody
  <2>1. /\ snaps' = Append(snaps, cap) /\ new' = NewId /\ UNCHANGED <<cap, lastSaved>>
        /\ step = "commit" /\ step' = "syncBody" /\ Command' = Command
    BY <1>9 DEF WriteBody, Goto, Command
  <2>2. cap.ver \in Nat
    BY DEF TypeOK, Captures
  <2>3. new' \in Ids' /\ snaps'[new'] = cap'
    BY <2>1, Appended
  <2>4. ASSUME Command.op # "restore"
        PROVE  Seen(lastSaved', cap') /\ \A i \in Ids' : snaps'[i].ver <= cap'.ver
    <3>1. Seen(lastSaved, cap) /\ \A i \in Ids : snaps[i].ver <= cap.ver
      BY <2>1, <2>4 DEF AheadInv
    <3>2. ASSUME NEW i \in Ids' PROVE snaps'[i].ver <= cap.ver
      <4>1. i \in Ids \/ snaps'[i] = cap
        BY <2>1, <3>2, Appended
      <4>2. CASE i \in Ids
        BY <2>1, <3>1, <4>2, Appended
      <4> QED BY <2>2, <4>1, <4>2
    <3> QED BY <2>1, <3>1, <3>2
  <2> QED BY <2>1, <2>3, <2>4 DEF AheadInv
<1>10. CASE SyncBody
  BY <1>10, IdsStay DEF SyncBody, Goto, AheadInv, Command
<1>11. CASE HolderStep /\ ~Enter /\ ~Capture /\ ~WriteBody /\ ~SyncBody
  <2>1. step' \notin {"commit", "syncBody", "pointer"}
    BY <1>11
    DEF HolderStep, SkipProtected, Unchanged, WritePointer, SyncPointer,
        PinSaved, MarkSafety, DecidePrune, RemoveBody, SyncRemoved, UnmarkExpired,
        AfterPrune, AfterStructure, ApplyRestore, WriteCheckpoint, SyncCheckpoint,
        WriteMarker, LoadFails, Succeed, Leave, Goto
  <2> QED BY <2>1, <1>b
<1>12. CASE CheckpointFails \/ HolderDies \/ PowerLoss
  BY <1>12, <1>b DEF CheckpointFails, HolderDies, PowerLoss, Succeed, Leave
<1>13. CASE ServerRestart
  BY <1>13, <1>a DEF ServerRestart, Command
<1>14. ASSUME NEW i \in bodies, Damage(i) PROVE AheadInv'
  BY <1>14, <1>a DEF Damage, Command
<1>15. CASE UNCHANGED vars
  BY <1>15, <1>a DEF vars, Command
<1> QED
  BY <1>2, <1>3, <1>4, <1>5, <1>6, <1>7, <1>8, <1>9, <1>10, <1>11, <1>12, <1>13, <1>14,
     <1>15 DEF Next

\* A step that moves the pointer publishes the capture of the holder, which is at least
\* as new as any other, or is a power loss.
LEMMA PointerMoves ==
  ASSUME TypeOK, ControlInv, AheadInv, [Next]_vars, ptr' # ptr
  PROVE  /\ snaps' = snaps /\ UNCHANGED lastSaved
         /\ \/ WritePointer
            \/ PowerLoss
<1> USE DEF disk, crit
<1>1. ASSUME NEW w, NEW r, Ask(w, r) PROVE FALSE
  BY <1>1 DEF Ask
<1>2. ASSUME NEW w \in Clients, StartSave(w) \/ StartPin(w) \/ StartRestore(w) PROVE FALSE
  BY <1>2, <1>1, Zenon DEF StartSave, StartPin, StartRestore
<1>3. CASE StartAutosave
  BY <1>3, <1>1, Zenon DEF StartAutosave
<1>4. CASE HolderStep /\ ~WritePointer
  BY <1>4
  DEF HolderStep, Enter, Capture, SkipProtected, Unchanged, WriteBody, SyncBody,
      SyncPointer, PinSaved, MarkSafety, DecidePrune, RemoveBody, SyncRemoved,
      UnmarkExpired, AfterPrune, ApplyRestore, WriteCheckpoint, SyncCheckpoint,
      WriteMarker, LoadFails
<1>5. CASE \/ \E w \in Writers : Acquire(w) \/ WaiterDies(w)
           \/ CheckpointFails \/ HolderDies \/ \E i \in bodies : Damage(i)
           \/ \E s \in Shapes : UserChange(s)
           \/ ServerRestart \/ UNCHANGED vars
  BY <1>5 DEF Acquire, WaiterDies, CheckpointFails, HolderDies, Damage, UserChange,
              ServerRestart, vars
<1>6. CASE WritePointer \/ PowerLoss
  BY <1>6 DEF WritePointer, PowerLoss
<1> QED BY <1>2, <1>3, <1>4, <1>5, <1>6 DEF Next

\* What a commit publishes is the capture of the holder, at least as new as any other.
LEMMA PublishesNewest ==
  ASSUME TypeOK, ControlInv, AheadInv, WritePointer
  PROVE  /\ ptr' \in Ids /\ snaps[ptr'] = cap /\ Command.op # "restore"
         /\ Seen(lastSaved, cap)
         /\ \A i \in Ids : snaps[i].ver <= cap.ver
BY DEF WritePointer, AheadInv, ControlInv, disk, crit

\* What a save reported stays reported by what the pointer names.
LEMMA HoldsStep ==
  TypeOK /\ StoreInv /\ ControlInv /\ AheadInv /\ HoldsInv /\ [Next]_vars => HoldsInv'
<1> SUFFICES ASSUME TypeOK, StoreInv, ControlInv, AheadInv, HoldsInv, [Next]_vars
             PROVE  HoldsInv'
  OBVIOUS
<1> USE DEF disk, crit
<1>a. /\ ptr \in Ids \cup {0} /\ durable.ptr \in Ids \cup {0} /\ lastSaved \in Captures
      /\ cap \in Captures
      /\ durable = [bodies |-> durable.bodies, ptr |-> durable.ptr, cp |-> durable.cp]
  BY DEF TypeOK
<1>b. ~torn /\ step # "syncPointer" => durable.ptr = ptr
  BY DEF StoreInv
<1>c. ASSUME UNCHANGED <<snaps, ptr, lastSaved>>,
             ~torn' => durable'.ptr = ptr \/ (~torn /\ durable'.ptr = durable.ptr),
             \/ step' \notin Published
             \/ /\ step \in Published \/ Command.op \notin SaveOps
                /\ Command' = Command /\ cap' = cap
      PROVE  HoldsInv'
  <2>1. Holds(ptr)' /\ (~torn' => Holds(durable.ptr)')
    BY <1>c DEF HoldsInv, Holds
  <2> QED BY <1>c, <2>1 DEF HoldsInv
<1>d. ASSUME Succeed, step # "syncPointer", UNCHANGED <<snaps, ptr, torn>>,
             durable'.ptr \in {ptr, durable.ptr},
             Command.op \in SaveOps => ptr # 0 /\ SameContent(snaps[ptr], cap)
      PROVE  HoldsInv'
  <2>1. step' \notin Published
    BY <1>d DEF Succeed, Leave, Published
  <2>2. Holds(ptr)'
    BY <1>d DEF Succeed, HoldsInv, Holds
  <2>3. ~torn' => durable'.ptr = ptr
    BY <1>b, <1>d
  <2>4. ~torn' => Holds(durable.ptr)'
    BY <1>d, <2>2, <2>3 DEF Holds
  <2> QED BY <2>1, <2>2, <2>4 DEF HoldsInv
<1>e. step # "free" => holder \in Writers
  BY DEF TypeOK
<1>1. ASSUME NEW w \in Writers, NEW r, Ask(w, r) PROVE HoldsInv'
  <2>1. step # "free" => holder # w
    BY <1>1, <1>e DEF Ask, ControlInv, Command
  <2>2. step \in Published => Command' = Command
    BY <1>1, <1>e, <2>1 DEF Ask, Command, TypeOK, Published
  <2> QED BY <1>1, <1>c, <2>2 DEF Ask
<1>2. ASSUME NEW w \in Clients, StartSave(w) \/ StartPin(w) \/ StartRestore(w)
      PROVE  HoldsInv'
  BY <1>2, <1>1, Zenon DEF StartSave, StartPin, StartRestore, Writers
<1>3. CASE StartAutosave
  <2>1. Daemon \in Writers
    BY DEF Writers
  <2> QED BY <1>3, <1>1, <2>1, Zenon DEF StartAutosave
<1>4. CASE \/ \E s \in Shapes : UserChange(s)
           \/ ServerRestart \/ \E i \in bodies : Damage(i)
  <2>1. UNCHANGED <<snaps, ptr, lastSaved, torn, durable, req, holder, step, cap>>
    BY <1>4 DEF UserChange, ServerRestart, Damage
  <2> QED BY <1>c, <2>1 DEF Command
<1>5. ASSUME NEW w \in Writers, Acquire(w) PROVE HoldsInv'
  BY <1>5, <1>c DEF Acquire, Published
<1>6. ASSUME NEW w \in Writers, WaiterDies(w) PROVE HoldsInv'
  <2>1. step \in Published => Command' = Command
    BY <1>6, <1>e DEF WaiterDies, Command, TypeOK, Published
  <2> QED BY <1>6, <1>c, <2>1 DEF WaiterDies
<1>7. CASE Enter
  <2>1. step' \notin Published
    BY <1>7 DEF Enter, Leave, Proceed, Goto, Published
  <2>2. durable'.ptr \in {ptr, durable.ptr}
    BY <1>7, <1>a DEF Enter, DropDisabledCheckpoint
  <2> QED BY <1>7, <1>b, <1>c, <2>1, <2>2 DEF Enter
<1>8. CASE Capture \/ SkipProtected \/ LoadFails
  BY <1>8, <1>c DEF Capture, SkipProtected, LoadFails, Leave, Goto, Published
<1>9. CASE Unchanged
  <2>1. ptr # 0 /\ SameContent(snaps[ptr], cap)
    BY <1>9 DEF Unchanged, Dedups, CurrentMatches, SameContent
  <2>2. CASE Succeed
    BY <1>9, <1>d, <2>1, <2>2 DEF Unchanged
  <2>3. CASE ~Succeed
    <3>1. UNCHANGED <<snaps, ptr, torn, durable, cap, lastSaved>>
      BY <1>9, <2>3 DEF Unchanged
    <3>2. Holds(ptr)' /\ (~torn' => Holds(durable.ptr)')
      BY <3>1 DEF HoldsInv, Holds
    <3> QED BY <2>1, <3>1, <3>2 DEF HoldsInv
  <2> QED BY <2>2, <2>3
<1>10. CASE WriteBody
  <2>1. /\ snaps' = Append(snaps, cap) /\ UNCHANGED <<ptr, torn, durable, lastSaved>>
        /\ step' \notin Published
    BY <1>10 DEF WriteBody, Goto, Published
  <2>2. Holds(ptr)' /\ (~torn' => Holds(durable.ptr)')
    BY <2>1, <1>a, Appended DEF HoldsInv, Holds
  <2> QED BY <2>1, <2>2 DEF HoldsInv
<1>11. CASE WritePointer
  <2>1. /\ UNCHANGED <<snaps, torn, durable, lastSaved, cap>>
    BY <1>11 DEF WritePointer
  <2>2. ptr' # 0 /\ snaps[ptr'] = cap /\ Seen(lastSaved, cap)
    BY <1>11, PublishesNewest DEF Ids
  <2>3. SameContent(cap, lastSaved) \/ cap.ver > lastSaved.ver
    BY <1>a, <2>2 DEF Seen, SameContent, Captures
  <2>4. Holds(ptr)' /\ (~torn' => Holds(durable.ptr)')
    BY <2>1, <2>2, <2>3 DEF HoldsInv, Holds
  <2> QED BY <2>1, <2>2, <2>4 DEF HoldsInv, SameContent
<1>12. CASE SyncBody
  BY <1>12, <1>a, <1>c DEF SyncBody, Goto, Published
<1>13. CASE SyncPointer \/ MarkSafety \/ DecidePrune \/ RemoveBody \/ SyncRemoved
              \/ UnmarkExpired \/ WriteCheckpoint
  <2>1. UNCHANGED <<snaps, ptr, lastSaved, cap>> /\ Command' = Command
    BY <1>13 DEF SyncPointer, MarkSafety, DecidePrune, RemoveBody, SyncRemoved,
                 UnmarkExpired, WriteCheckpoint, Goto, Command
  <2>2. step \in Published \/ Command.op \notin SaveOps
    BY <1>13 DEF SyncPointer, MarkSafety, DecidePrune, RemoveBody, SyncRemoved,
                 UnmarkExpired, WriteCheckpoint, Published, ControlInv, SaveOps
  <2>3. durable'.ptr = ptr \/ (torn' = torn /\ durable'.ptr = durable.ptr)
    BY <1>13, <1>a DEF SyncPointer, MarkSafety, DecidePrune, RemoveBody, SyncRemoved,
                       UnmarkExpired, WriteCheckpoint
  <2> QED BY <1>c, <2>1, <2>2, <2>3
<1>14. CASE PinSaved \/ AfterPrune
  <2>1. /\ step \in Published \ {"syncPointer"}
        /\ UNCHANGED <<snaps, ptr, torn, durable>>
    BY <1>14 DEF PinSaved, AfterPrune, Published
  <2>2. CASE Succeed
    BY <1>d, <2>1, <2>2 DEF HoldsInv
  <2>3. CASE ~Succeed
    <3>1. UNCHANGED <<lastSaved, cap, req, holder>>
      BY <1>14, <2>3 DEF PinSaved, AfterPrune, AfterStructure, Goto
    <3> QED BY <1>c, <2>1, <3>1 DEF Command
  <2> QED BY <2>2, <2>3
<1>15. CASE SyncCheckpoint \/ CheckpointFails
  <2>1. /\ step \in Published \ {"syncPointer"} /\ Succeed
        /\ UNCHANGED <<snaps, ptr, torn>>
    BY <1>15 DEF SyncCheckpoint, CheckpointFails, Published
  <2>2. durable'.ptr \in {ptr, durable.ptr}
    BY <1>15, <1>a DEF SyncCheckpoint, CheckpointFails
  <2> QED BY <1>d, <2>1, <2>2 DEF HoldsInv
<1>16. CASE ApplyRestore \/ WriteMarker
  <2>1. /\ Command.op \notin SaveOps /\ step # "syncPointer" /\ Succeed
        /\ UNCHANGED <<snaps, ptr, torn, durable>>
    BY <1>16 DEF ApplyRestore, WriteMarker, ControlInv, SaveOps
  <2> QED BY <1>d, <2>1
<1>17. CASE HolderDies
  <2>1. UNCHANGED <<snaps, ptr, lastSaved, durable>> /\ (~torn' => ~torn)
        /\ step' \notin Published
    BY <1>17 DEF HolderDies, Leave, Published
  <2> QED BY <1>c, <2>1
<1>18. CASE PowerLoss
  <2>1. /\ ~torn /\ ~torn' /\ UNCHANGED <<snaps, lastSaved>> /\ step' \notin Published
        /\ ptr' \in {ptr, durable.ptr} /\ durable'.ptr = ptr'
    BY <1>18 DEF PowerLoss, Published
  <2>2. Holds(ptr)' /\ Holds(durable.ptr)'
    BY <2>1 DEF HoldsInv, Holds
  <2> QED BY <2>1, <2>2 DEF HoldsInv
<1>19. CASE UNCHANGED vars
  BY <1>19, <1>c DEF vars, Command
<1> QED
  BY <1>2, <1>3, <1>4, <1>5, <1>6, <1>7, <1>8, <1>9, <1>10, <1>11, <1>12, <1>13, <1>14,
     <1>15, <1>16, <1>17, <1>18, <1>19 DEF Next, HolderStep

\* All of it holds in every reachable state.
LEMMA OrderHolds == Spec => [](ControlInv /\ SeenInv /\ AheadInv /\ HoldsInv)
<1>1. Init => ControlInv /\ SeenInv /\ AheadInv /\ HoldsInv
  <2> SUFFICES ASSUME Init PROVE ControlInv /\ SeenInv /\ AheadInv /\ HoldsInv
    OBVIOUS
  <2>1. ControlInv /\ AheadInv
    BY DEF Init, ControlInv, AheadInv
  <2>2. Ids = {}
    BY DEF Init, Ids
  <2>3. Seen(NoCapture, server) /\ 0 < server.ver
    BY DEF Init, Seen, NoCapture
  <2>4. SeenInv
    BY <2>2, <2>3, Defaults DEF Init, SeenInv
  <2>5. HoldsInv
    BY DEF Init, HoldsInv, Holds, Published
  <2> QED BY <2>1, <2>4, <2>5
<1> QED
  BY <1>1, ControlStep, SeenStep, AheadStep, HoldsStep, TypeCorrect, StoreRecoverable, PTL
  DEF Spec

\* What the last successful save captured is what current holds, unless a later capture
\* has replaced it (storage.rs commit_with, main.rs save, daemon.rs save_if_changed):
\* captures are taken under the lock, so what is published is never older than what was
\* reported, and a pointer that was reported is durable.
THEOREM ReportedStays == Spec => []LastSaveIsCurrent
<1>1. HoldsInv => LastSaveIsCurrent
  BY DEF HoldsInv, Holds, SameContent, LastSaveIsCurrent
<1> QED BY <1>1, OrderHolds, PTL

\* No delayed writer overtakes a newer one (main.rs save, daemon.rs save_if_changed):
\* apart from a power loss, current moves only to a capture at least as new.
THEOREM NeverBack == Spec => CurrentNeverGoesBack
<1>1. TypeOK /\ ControlInv /\ AheadInv /\ [Next]_vars /\ ptr # 0 /\ ptr' # ptr /\ server' = server
        => ptr' # 0 /\ snaps'[ptr'].ver >= snaps[ptr].ver
  <2> SUFFICES ASSUME TypeOK, ControlInv, AheadInv, [Next]_vars, ptr # 0, ptr' # ptr,
                      server' = server
               PROVE  ptr' # 0 /\ snaps'[ptr'].ver >= snaps[ptr].ver
    OBVIOUS
  <2>1. ptr \in Ids /\ snaps[ptr] \in Captures /\ cap \in Captures
    BY DEF TypeOK, Ids
  <2>2. ~PowerLoss
    <3>1. server.gen \in Nat
      BY DEF TypeOK, Captures
    <3> QED BY <3>1 DEF PowerLoss
  <2>3. WritePointer /\ snaps' = snaps
    BY <2>2, PointerMoves
  <2>4. ptr' \in Ids /\ snaps[ptr'] = cap /\ snaps[ptr].ver <= cap.ver
    BY <2>1, <2>3, PublishesNewest DEF Captures
  <2> QED BY <2>1, <2>3, <2>4 DEF Ids, Captures
<1> QED BY <1>1, OrderHolds, TypeCorrect, PTL DEF Spec, CurrentNeverGoesBack

-----------------------------------------------------------------------------
\* What a command found when it decided to go on is so until it writes the pointer.
GateInv ==
    /\ step \in {"capture", "commit"} /\ Command.op = "initial" => StoreEmpty
    /\ step \in {"syncBody", "pointer"} /\ Command.op = "initial" =>
          ptr = 0 /\ bodies = {new}
    /\ step \in {"syncBody", "pointer"} /\ Command.op = "autosave"
          /\ Command.id # 0 /\ Command.id = ptr => snaps[new].shape # Boot

\* Nobody else writes in between.
LEMMA GateStep == TypeOK /\ ControlInv /\ GateInv /\ [Next]_vars => GateInv'
<1> SUFFICES ASSUME TypeOK, ControlInv, GateInv, [Next]_vars PROVE GateInv'
  OBVIOUS
<1> USE DEF disk, crit
<1>a. ASSUME UNCHANGED <<snaps, bodies, ptr, step, new>>, step # "free" => Command' = Command
      PROVE  GateInv'
  BY <1>a DEF GateInv, StoreEmpty
<1>b. ASSUME step' \notin {"capture", "commit", "syncBody", "pointer"} PROVE GateInv'
  BY <1>b DEF GateInv
<1>c. step # "free" => holder \in Writers
  BY DEF TypeOK
<1>1. ASSUME NEW w \in Writers, NEW r, Ask(w, r) PROVE GateInv'
  <2>1. step # "free" => holder # w
    BY <1>1, <1>c DEF Ask, ControlInv, Command
  <2> QED BY <1>1, <1>a, <1>c, <2>1 DEF Ask, Command, TypeOK
<1>2. ASSUME NEW w \in Clients, StartSave(w) \/ StartPin(w) \/ StartRestore(w)
      PROVE  GateInv'
  BY <1>2, <1>1, Zenon DEF StartSave, StartPin, StartRestore, Writers
<1>3. CASE StartAutosave
  <2>1. Daemon \in Writers
    BY DEF Writers
  <2> QED BY <1>3, <1>1, <2>1, Zenon DEF StartAutosave
<1>4. CASE \/ \E s \in Shapes : UserChange(s)
           \/ ServerRestart \/ \E i \in bodies : Damage(i)
  <2>1. UNCHANGED <<snaps, bodies, ptr, step, new, req, holder>>
    BY <1>4 DEF UserChange, ServerRestart, Damage
  <2> QED BY <1>a, <2>1 DEF Command
<1>5. ASSUME NEW w \in Writers, Acquire(w) PROVE GateInv'
  BY <1>5, <1>b DEF Acquire
<1>6. ASSUME NEW w \in Writers, WaiterDies(w) PROVE GateInv'
  BY <1>6, <1>a, <1>c DEF WaiterDies, Command, TypeOK
<1>7. CASE Enter
  <2>1. CASE AlreadyInitialized
    BY <1>7, <2>1, <1>b DEF Enter, Leave
  <2>2. CASE ~AlreadyInitialized
    <3>1. /\ step' \in {"capture", "commit"} /\ Command' = Command
          /\ UNCHANGED <<bodies, ptr>>
      BY <1>7, <2>2 DEF Enter, Proceed, Goto, Command
    <3> QED BY <2>2, <3>1 DEF AlreadyInitialized, StoreEmpty, GateInv
  <2> QED BY <2>1, <2>2
<1>8. CASE Capture
  BY <1>8 DEF Capture, Goto, Command, GateInv, StoreEmpty
<1>9. CASE WriteBody
  <2>1. /\ snaps' = Append(snaps, cap) /\ new' = NewId /\ bodies' = bodies \cup {new'}
        /\ ptr' = ptr /\ Command' = Command /\ step = "commit" /\ step' = "syncBody"
        /\ ~ProtectedBootstrap
    BY <1>9 DEF WriteBody, Goto, Command
  <2>2. snaps'[new'] = cap
    BY <2>1, Appended
  <2>3. Command.op = "initial" => ptr' = 0 /\ bodies' = {new'}
    BY <2>1 DEF GateInv, StoreEmpty
  <2>4. Command.op = "autosave" /\ Command.id # 0 /\ Command.id = ptr
          => snaps'[new'].shape # Boot
    BY <2>1, <2>2 DEF ProtectedBootstrap
  <2> QED BY <2>1, <2>3, <2>4 DEF GateInv
<1>10. CASE SyncBody
  BY <1>10 DEF SyncBody, Goto, Command, GateInv
<1>11. CASE HolderStep /\ ~Enter /\ ~Capture /\ ~WriteBody /\ ~SyncBody
  <2>1. step' \notin {"capture", "commit", "syncBody", "pointer"}
    BY <1>11
    DEF HolderStep, SkipProtected, Unchanged, WritePointer, SyncPointer,
        PinSaved, MarkSafety, DecidePrune, RemoveBody, SyncRemoved, UnmarkExpired,
        AfterPrune, AfterStructure, ApplyRestore, WriteCheckpoint, SyncCheckpoint,
        WriteMarker, LoadFails, Succeed, Leave, Goto
  <2> QED BY <2>1, <1>b
<1>12. CASE CheckpointFails \/ HolderDies \/ PowerLoss
  BY <1>12, <1>b DEF CheckpointFails, HolderDies, PowerLoss, Succeed, Leave
<1>13. CASE UNCHANGED vars
  BY <1>13, <1>a DEF vars, Command
<1> QED
  BY <1>2, <1>3, <1>4, <1>5, <1>6, <1>7, <1>8, <1>9, <1>10, <1>11, <1>12, <1>13 DEF Next

LEMMA GateHolds == Spec => []GateInv
<1>1. Init => GateInv
  BY DEF Init, GateInv
<1>2. Spec => []ControlInv
  BY OrderHolds, PTL
<1> QED BY <1>1, <1>2, GateStep, TypeCorrect, PTL DEF Spec

\* A save --if-empty publishes only into a store that has no history (main.rs save,
\* storage.rs is_empty), although the check comes several steps before the pointer.
THEOREM InitialKeeps == Spec => InitialSaveKeepsHistory
<1>1. GateInv /\ [Next]_vars /\ ptr' # ptr /\ step = "pointer" /\ Command.op = "initial"
        => ptr = 0 /\ bodies = {new}
  BY DEF GateInv
<1> QED BY <1>1, GateHolds, PTL DEF Spec, InitialSaveKeepsHistory

\* An autosave never puts a bootstrap in the place of the very snapshot it was told to
\* protect (daemon.rs save_captured): the comparison is made under the lock.
THEOREM ProtectedStays == Spec => ProtectedCurrentStays
<1>1. TypeOK /\ StoreInv /\ ControlInv /\ AheadInv /\ GateInv /\ [Next]_vars
        => (ptr' # ptr /\ step = "pointer" /\ Command.op = "autosave"
              /\ Command.id # 0 /\ Command.id = ptr
                 => snaps'[ptr'].shape # Boot)
  <2> SUFFICES ASSUME TypeOK, StoreInv, ControlInv, AheadInv, GateInv, [Next]_vars,
                      ptr' # ptr, step = "pointer", Command.op = "autosave",
                      Command.id # 0, Command.id = ptr
               PROVE  snaps'[ptr'].shape # Boot
    OBVIOUS
  <2>1. ~PowerLoss
    BY DEF PowerLoss, StoreInv
  <2>2. ptr' = new /\ snaps' = snaps
    BY <2>1, PointerMoves DEF WritePointer
  <2> QED BY <2>2 DEF GateInv
<1> QED
  BY <1>1, OrderHolds, GateHolds, StoreRecoverable, TypeCorrect, PTL
  DEF Spec, ProtectedCurrentStays

-----------------------------------------------------------------------------
\* A set of numbers that is not empty has a least one.
LEMMA LeastNumber ==
  ASSUME NEW S \in SUBSET Nat, S # {}
  PROVE  \E m \in S : \A j \in S : m <= j
<1>1. PICK m \in S : \A j \in S : <<j, m>> \notin OpToRel(<, Nat)
  BY WFMin, NatLessThanWellFounded, Zenon
<1>2. ASSUME NEW j \in S PROVE m <= j
  <2>1. <<j, m>> \in Nat \X Nat /\ <<j, m>>[1] = j /\ <<j, m>>[2] = m /\ j \in Nat /\ m \in Nat
    OBVIOUS
  <2>2. ~(j < m)
    BY <1>1, <2>1 DEF OpToRel
  <2> QED BY <2>1, <2>2
<1> QED BY <1>2

\* The newest k of a finite set of snapshots are at most k, and the newest one of all
\* is among them.
LEMMA NewestBound ==
  ASSUME NEW S \in SUBSET Nat, IsFiniteSet(S), NEW k \in Nat
  PROVE  IsFiniteSet(Newest(S, k)) /\ Cardinality(Newest(S, k)) <= k
<1> DEFINE N == Newest(S, k)
<1>1. N \in SUBSET S /\ IsFiniteSet(N) /\ Cardinality(N) \in Nat
  BY FS_Subset, FS_CardinalityType DEF Newest
<1>2. CASE N = {}
  BY <1>1, <1>2, FS_EmptySet
<1>3. CASE N # {}
  <2>1. PICK m \in N : \A j \in N : m <= j
    BY <1>1, <1>3, LeastNumber
  <2> DEFINE Above == {j \in S : j > m}
  <2>2. Cardinality(Above) < k
    BY <2>1 DEF Newest
  <2>3. IsFiniteSet(Above) /\ Cardinality(Above) \in Nat
    BY FS_Subset, FS_CardinalityType
  <2>4. N \ {m} \in SUBSET Above
    <3>1. ASSUME NEW j \in N \ {m} PROVE j \in S /\ j > m
      <4>1. j \in Nat /\ m \in Nat /\ m <= j /\ j # m /\ j \in S
        BY <1>1, <2>1
      <4> QED BY <4>1
    <3> QED BY <3>1
  <2>5. Cardinality(N \ {m}) <= Cardinality(Above)
    BY <2>3, <2>4, FS_Subset
  <2>6. Cardinality(N \ {m}) = Cardinality(N) - 1
    BY <1>1, <2>1, FS_RemoveElement
  <2> QED BY <1>1, <2>2, <2>3, <2>5, <2>6
<1> QED BY <1>1, <1>2, <1>3

LEMMA NewestKept ==
  ASSUME NEW S \in SUBSET Nat, NEW k \in Nat \ {0}, NEW i \in S, \A j \in S : j <= i
  PROVE  i \in Newest(S, k)
<1>1. ASSUME NEW j \in S PROVE ~(j > i)
  <2>1. i \in Nat /\ j \in Nat /\ j <= i
    OBVIOUS
  <2> QED BY <2>1
<1>2. {j \in S : j > i} = {}
  BY <1>1
<1> QED BY <1>2, FS_EmptySet DEF Newest

\* The safety copy of a restore is the newest snapshot and, if it is to be kept, is there
\* and marked from the moment it is written; once prune has decided, the safety snapshots
\* that stay are not too many.
AfterMark == {"prune", "remove", "syncRemoved", "unmark", "apply"}
SafetyInv ==
    /\ step \in {"syncBody", "mark"} \cup AfterMark /\ Command.op = "restore" =>
          new = Len(snaps) /\ (RetainsNewest => new \in bodies /\ new \notin doomed)
    /\ step = "prune" /\ Command.op = "restore" => new \in safety
    /\ step \in AfterMark /\ Command.op = "restore" /\ SafetyKeep > 0 =>
          new \in safety /\ new \notin expired
    /\ step \in AfterMark \ {"prune"} => Cardinality(SafetyEntries \ expired) <= SafetyKeep
    /\ expired # {} => step \in {"remove", "syncRemoved", "unmark"}

LEMMA SmallerSafety ==
  ASSUME TypeOK, NEW S, NEW T, S \in SUBSET SafetyEntries, T \in SUBSET S,
         Cardinality(S) <= SafetyKeep
  PROVE  Cardinality(T) <= SafetyKeep
<1>1. Len(snaps) \in Nat /\ SafetyEntries \in SUBSET Ids
  BY DEF TypeOK, SafetyEntries, Entries
<1>2. IsFiniteSet(Ids)
  BY <1>1, FS_Interval DEF Ids
<1>3. IsFiniteSet(S)
  BY <1>1, <1>2, FS_Subset
<1> QED BY <1>3, FS_Subset, FS_CardinalityType, StoreAssumption DEF StoreAssumption

\* While a restore is between its marker and the end of apply(), nobody else touches
\* bodies and markers, and prune spares the newest safety snapshot.
LEMMA SafetyStep ==
    TypeOK /\ StoreInv /\ ControlInv /\ SafetyInv /\ [Next]_vars => SafetyInv'
<1> SUFFICES ASSUME TypeOK, StoreInv, ControlInv, SafetyInv, [Next]_vars PROVE SafetyInv'
  OBVIOUS
<1> USE DEF disk, crit
<1>a. ASSUME UNCHANGED <<snaps, bodies, safety, step, new, doomed, expired>>, bad \subseteq bad',
             step # "free" => Command' = Command
      PROVE  SafetyInv'
  <2>1. SafetyEntries' \subseteq SafetyEntries
    BY <1>a DEF SafetyEntries, Entries
  <2>2. step \in AfterMark \ {"prune"} => Cardinality(SafetyEntries' \ expired) <= SafetyKeep
    BY <2>1, SmallerSafety DEF SafetyInv
  <2> QED BY <1>a, <2>2 DEF SafetyInv, AfterMark
<1>b. ASSUME step' \notin {"syncBody", "mark"} \cup AfterMark, expired' = {}
      PROVE  SafetyInv'
  BY <1>b DEF SafetyInv, AfterMark
<1>d. step \notin {"remove", "syncRemoved", "unmark"} => expired = {}
  BY DEF SafetyInv
<1>c. step # "free" => holder \in Writers
  BY DEF TypeOK
<1>1. ASSUME NEW w \in Writers, NEW r, Ask(w, r) PROVE SafetyInv'
  <2>1. step # "free" => holder # w
    BY <1>1, <1>c DEF Ask, ControlInv, Command
  <2> QED BY <1>1, <1>a, <1>c, <2>1 DEF Ask, Command, TypeOK
<1>2. ASSUME NEW w \in Clients, StartSave(w) \/ StartPin(w) \/ StartRestore(w)
      PROVE  SafetyInv'
  BY <1>2, <1>1, Zenon DEF StartSave, StartPin, StartRestore, Writers
<1>3. CASE StartAutosave
  <2>1. Daemon \in Writers
    BY DEF Writers
  <2> QED BY <1>3, <1>1, <2>1, Zenon DEF StartAutosave
<1>4. CASE \/ \E s \in Shapes : UserChange(s)
           \/ ServerRestart \/ \E i \in bodies : Damage(i)
  <2>1. /\ UNCHANGED <<snaps, bodies, safety, step, new, doomed, expired, req, holder>>
        /\ bad \subseteq bad'
    BY <1>4 DEF UserChange, ServerRestart, Damage
  <2> QED BY <1>a, <2>1 DEF Command
<1>5. ASSUME NEW w \in Writers, Acquire(w) PROVE SafetyInv'
  <2>1. step = "free" /\ step' \in {"marker", "enter"} /\ UNCHANGED expired
    BY <1>5, StoreAssumption DEF Acquire, TypeOK, StoreAssumption
  <2> QED BY <2>1, <1>b, <1>d DEF AfterMark
<1>6. ASSUME NEW w \in Writers, WaiterDies(w) PROVE SafetyInv'
  BY <1>6, <1>a, <1>c DEF WaiterDies, Command, TypeOK
<1>7. CASE WriteBody
  <2>1. /\ Len(snaps') = Len(snaps) + 1 /\ new' = Len(snaps') /\ new' \in bodies'
        /\ step' = "syncBody" /\ UNCHANGED <<doomed, expired>> /\ step = "commit"
    BY <1>7 DEF WriteBody, NewId, Goto, TypeOK
  <2>2. doomed = {}
    BY <2>1, NothingDoomed
  <2> QED BY <2>1, <2>2, <1>d DEF SafetyInv, AfterMark
<1>8. CASE SyncBody
  BY <1>8 DEF SyncBody, Goto, SafetyInv, AfterMark, Command
<1>9. CASE MarkSafety
  <2>1. /\ step = "mark" /\ step' = "prune" /\ safety' = safety \cup {new}
        /\ UNCHANGED <<snaps, bodies, new, doomed, expired>> /\ Command' = Command
    BY <1>9 DEF MarkSafety, Goto, Command
  <2> QED BY <2>1, <1>d DEF SafetyInv, AfterMark
<1>10. CASE SyncPointer \/ PinSaved
  <2>1. /\ step \in {"syncPointer", "pin", "pinCurrent"} /\ Command.op # "restore"
        /\ step' \notin AfterMark \/ (step' = "prune" /\ Command' = Command)
        /\ step' \notin {"syncBody", "mark"} /\ expired' \in {{}, expired}
    BY <1>10 DEF SyncPointer, PinSaved, AfterStructure, Succeed, Leave, Goto, ControlInv,
                 AfterMark, Command
  <2> QED BY <2>1, <1>d DEF SafetyInv, AfterMark
<1>11. CASE DecidePrune
  <2>1. PICK spaced \in SUBSET Entries : /\ MayRepresent(spaced)
                                        /\ doomed' = Entries \ Kept(spaced)
    BY <1>11 DEF DecidePrune
  <2>2. /\ step = "prune" /\ step' \in {"unmark", "remove"} /\ Command' = Command
        /\ UNCHANGED <<snaps, bodies, bad, safety, new>>
        /\ expired' = SafetyEntries \ Newest(SafetyEntries, SafetyKeep)
    BY <1>11 DEF DecidePrune, Goto, Command, Expired
  <2>3. /\ SafetyEntries \in SUBSET Ids /\ Entries \in SUBSET Ids /\ Len(snaps) \in Nat
        /\ Ids \in SUBSET Nat
    BY DEF TypeOK, SafetyEntries, Entries, Ids
  <2>4. IsFiniteSet(SafetyEntries)
    <3>1. IsFiniteSet(Ids)
      BY <2>3, FS_Interval DEF Ids
    <3> QED BY <2>3, <3>1, FS_Subset
  <2>5. Cardinality(SafetyEntries' \ expired') <= SafetyKeep
    <3>1. SafetyEntries' \ expired' = Newest(SafetyEntries, SafetyKeep)
      BY <2>2 DEF SafetyEntries, Entries, Newest
    <3> QED BY <2>3, <2>4, <3>1, NewestBound, StoreAssumption DEF StoreAssumption
  <2>6. ASSUME Command.op = "restore"
        PROVE  /\ new = Len(snaps) /\ new \in safety
               /\ RetainsNewest => new \in bodies /\ new \notin doomed'
               /\ SafetyKeep > 0 => new \notin expired'
    <3>1. new = Len(snaps) /\ new \in safety /\ (RetainsNewest => new \in bodies)
      BY <2>2, <2>6 DEF SafetyInv, AfterMark
    <3>2. \A j \in Ids : j <= new
      BY <2>3, <3>1 DEF Ids
    <3>3. SafetyKeep \in Nat /\ Recent \in Nat
      BY StoreAssumption DEF StoreAssumption
    <3>4. CASE new \notin Entries
      BY <2>1, <2>2, <3>1, <3>4 DEF SafetyEntries
    <3>5. CASE new \in Entries /\ SafetyKeep > 0
      <4>1. new \in SafetyEntries
        BY <3>1, <3>5 DEF SafetyEntries
      <4>2. new \in Newest(SafetyEntries, SafetyKeep)
        BY <2>3, <3>2, <3>3, <3>5, <4>1, NewestKept
      <4> QED BY <2>1, <2>2, <3>1, <4>2 DEF Kept
    <3>6. CASE new \in Entries /\ ~(SafetyKeep > 0) /\ Recent > 0
      <4>1. Recent \in Nat \ {0}
        BY <3>3, <3>6
      <4>2. new \in Newest(Entries, Recent)
        BY <2>3, <3>2, <3>6, <4>1, NewestKept
      <4> QED BY <2>1, <3>1, <3>6, <4>2 DEF Kept
    <3>7. CASE new \in Entries /\ ~(SafetyKeep > 0) /\ ~(Recent > 0)
      <4>1. RetainsNewest => KeepsPeriods
        BY <3>3, <3>7 DEF RetainsNewest
      <4>2. KeepsPeriods => new \in Kept(spaced)
        BY <2>1, <3>7 DEF MayRepresent, Kept
      <4> QED BY <2>1, <3>1, <3>7, <4>1, <4>2
    <3> QED BY <3>4, <3>5, <3>6, <3>7
  <2> QED BY <2>2, <2>5, <2>6 DEF SafetyInv, AfterMark
<1>12. CASE RemoveBody
  <2>1. /\ step = "remove" /\ step' \in {"syncRemoved", "remove"}
        /\ \E i \in doomed : bodies' = bodies \ {i}
        /\ doomed' \subseteq doomed
        /\ UNCHANGED <<snaps, bad, safety, new, expired>> /\ Command' = Command
    BY <1>12 DEF RemoveBody, Goto, Command
  <2>2. SafetyEntries' \subseteq SafetyEntries
    BY <2>1 DEF SafetyEntries, Entries
  <2>3. Cardinality(SafetyEntries' \ expired') <= SafetyKeep
    BY <2>1, <2>2, SmallerSafety DEF SafetyInv, AfterMark
  <2> QED BY <2>1, <2>3 DEF SafetyInv, AfterMark
<1>13. CASE SyncRemoved
  <2>1. /\ step = "syncRemoved" /\ step' = "unmark" /\ Command' = Command
        /\ UNCHANGED <<snaps, bodies, bad, safety, new, doomed, expired>>
    BY <1>13 DEF SyncRemoved, Goto, Command
  <2> QED BY <2>1 DEF SafetyInv, AfterMark, SafetyEntries, Entries
<1>14. CASE UnmarkExpired
  <2>1. /\ step = "unmark" /\ step' = "unmark" /\ Command' = Command
        /\ UNCHANGED <<snaps, bodies, bad, new, doomed>>
        /\ \E i \in expired : safety' = safety \ {i} /\ expired' = expired \ {i}
    BY <1>14 DEF UnmarkExpired, Goto, Command
  <2>2. SafetyEntries' \ expired' = SafetyEntries \ expired
    BY <2>1 DEF SafetyEntries, Entries
  <2> QED BY <2>1, <2>2 DEF SafetyInv, AfterMark
<1>15. CASE AfterPrune
  <2>1. /\ step = "unmark" /\ expired = {} /\ expired' = {}
        /\ \/ step' = "apply" /\ UNCHANGED <<new, doomed, expired, req, holder>>
           \/ step' \notin {"syncBody", "mark"} \cup AfterMark
        /\ UNCHANGED <<snaps, bodies, bad, safety>>
    BY <1>15 DEF AfterPrune, AfterStructure, Succeed, Leave, Goto, AfterMark
  <2> QED BY <2>1, <1>b DEF SafetyInv, AfterMark, SafetyEntries, Entries, Command
<1>16. CASE \/ Enter \/ Capture \/ SkipProtected \/ Unchanged \/ WritePointer \/ ApplyRestore
            \/ WriteCheckpoint \/ SyncCheckpoint \/ WriteMarker \/ LoadFails
            \/ CheckpointFails \/ HolderDies \/ PowerLoss
  <2>1. step' \notin {"syncBody", "mark"} \cup AfterMark
    BY <1>16
    DEF Enter, Capture, SkipProtected, Unchanged, WritePointer, ApplyRestore,
        WriteCheckpoint, SyncCheckpoint, WriteMarker, LoadFails, CheckpointFails,
        HolderDies, PowerLoss, Proceed, Succeed, Leave, Goto, AfterMark
  <2>2. expired' = {} \/ (expired' = expired /\ step \notin {"remove", "syncRemoved", "unmark"})
    BY <1>16
    DEF Enter, Capture, SkipProtected, Unchanged, WritePointer, ApplyRestore,
        WriteCheckpoint, SyncCheckpoint, WriteMarker, LoadFails, CheckpointFails,
        HolderDies, PowerLoss, Proceed, Succeed, Leave
  <2> QED BY <2>1, <2>2, <1>b, <1>d
<1>17. CASE UNCHANGED vars
  BY <1>17, <1>a DEF vars, Command
<1> QED
  BY <1>2, <1>3, <1>4, <1>5, <1>6, <1>7, <1>8, <1>9, <1>10, <1>11, <1>12, <1>13, <1>14,
     <1>15, <1>16, <1>17 DEF Next, HolderStep

\* While a restore changes the server its safety copy is in the store, for every setting
\* of retention but the one that keeps nothing; it is marked if any are to be, and no more
\* than the configured number of safety snapshots are (main.rs restore, storage.rs prune).
THEOREM SafetyCopy == Spec => []SafetyCopyHeld
<1>1. Init => SafetyInv
  BY DEF Init, SafetyInv, AfterMark
<1>2. ControlInv /\ SafetyInv => SafetyCopyHeld
  <2> SUFFICES ASSUME ControlInv, SafetyInv, step = "apply"
               PROVE  /\ RetainsNewest => new \in bodies
                      /\ SafetyKeep > 0 => new \in safety
                      /\ Cardinality(SafetyEntries) <= SafetyKeep
    BY DEF SafetyCopyHeld
  <2>1. Command.op = "restore" /\ expired = {} /\ SafetyEntries \ expired = SafetyEntries
    BY DEF ControlInv, SafetyInv
  <2> QED BY <2>1 DEF SafetyInv, AfterMark
<1>3. Spec => []ControlInv
  BY OrderHolds, PTL
<1> QED BY <1>1, <1>2, <1>3, SafetyStep, TypeCorrect, StoreRecoverable, PTL DEF Spec

-------------------------------------------------------------------------------
\* SnapshotStore implements RecoveryPoint.

\* The snapshot a commit is about to publish is the one that was made last: nobody
\* else makes one while the lock is held.
NewestInv == step \in {"syncBody", "pointer"} => new = Len(snaps)

LEMMA NewestStep == TypeOK /\ NewestInv /\ [Next]_vars => NewestInv'
<1> SUFFICES ASSUME TypeOK, NewestInv, [Next]_vars PROVE NewestInv'
  OBVIOUS
<1> USE DEF disk, crit, NewestInv
<1>1. ASSUME UNCHANGED <<snaps, step, new>> PROVE NewestInv'
  BY <1>1
<1>2. ASSUME step' \notin {"syncBody", "pointer"} PROVE NewestInv'
  BY <1>2
<1>3. ASSUME NEW w, NEW r, Ask(w, r) PROVE NewestInv'
  BY <1>3, <1>1 DEF Ask
<1>4. ASSUME NEW s \in Shapes, UserChange(s) PROVE NewestInv'
  BY <1>4, <1>1 DEF UserChange
<1>5. CASE ServerRestart
  BY <1>5, <1>1 DEF ServerRestart
<1>6. ASSUME NEW w \in Clients, StartSave(w) \/ StartPin(w) \/ StartRestore(w)
      PROVE NewestInv'
  BY <1>6, <1>3, Zenon DEF StartSave, StartPin, StartRestore
<1>7. CASE StartAutosave
  BY <1>7, <1>3, Zenon DEF StartAutosave
<1>8. ASSUME NEW w \in Writers, Acquire(w) \/ WaiterDies(w) PROVE NewestInv'
  BY <1>8, <1>1, <1>2 DEF Acquire, WaiterDies
<1>9. CASE WriteBody
  BY <1>9 DEF WriteBody, NewId, TypeOK
<1>10. CASE SyncBody
  BY <1>10 DEF SyncBody
<1>11. CASE HolderStep /\ ~WriteBody /\ ~SyncBody
  <2>1. step' \notin {"syncBody", "pointer"}
    BY <1>11
    DEF HolderStep, Enter, Capture, SkipProtected, Unchanged, WritePointer, SyncPointer,
        PinSaved, MarkSafety, DecidePrune, RemoveBody, SyncRemoved, UnmarkExpired,
        AfterPrune, AfterStructure, ApplyRestore, WriteCheckpoint, SyncCheckpoint,
        WriteMarker, LoadFails, Succeed, Leave, Proceed, Goto
  <2> QED BY <2>1, <1>2
<1>12. CASE CheckpointFails \/ HolderDies \/ PowerLoss
  BY <1>12, <1>2 DEF CheckpointFails, HolderDies, PowerLoss, Succeed, Leave
<1>13. ASSUME NEW i \in bodies, Damage(i) PROVE NewestInv'
  BY <1>13, <1>1 DEF Damage
<1>14. CASE UNCHANGED vars
  BY <1>14, <1>1 DEF vars
<1> QED
  BY <1>4, <1>5, <1>6, <1>7, <1>8, <1>9, <1>10, <1>11, <1>12, <1>13, <1>14 DEF Next

\* Every step of the store is a step of the recovery point, or leaves it alone.
LEMMA PromiseStep ==
    TypeOK /\ StoreInv /\ NewestInv /\ [Next]_vars => [RP!Next]_(RP!vars)
<1> SUFFICES ASSUME TypeOK, StoreInv, NewestInv, [Next]_vars
             PROVE  RP!Next \/ UNCHANGED <<snaps, bodies, ptr, durable.ptr, pins>>
  BY DEF RP!vars
<1> USE DEF disk, crit
<1>a. durable = [bodies |-> durable.bodies, ptr |-> durable.ptr, cp |-> durable.cp]
  BY DEF TypeOK
<1>b. ASSUME UNCHANGED <<snaps, bodies, ptr, pins>>, durable'.ptr \in {ptr, durable.ptr}
      PROVE  RP!Settle \/ UNCHANGED <<snaps, bodies, ptr, durable.ptr, pins>>
  BY <1>b DEF RP!Settle
<1>c. ASSUME UNCHANGED <<snaps, bodies, ptr, pins, durable>>
      PROVE  UNCHANGED <<snaps, bodies, ptr, durable.ptr, pins>>
  BY <1>c
<1>1. ASSUME NEW s \in Shapes, UserChange(s)
      PROVE UNCHANGED <<snaps, bodies, ptr, durable.ptr, pins>>
  BY <1>1, <1>c DEF UserChange
<1>2. ASSUME NEW w, NEW r, Ask(w, r)
      PROVE UNCHANGED <<snaps, bodies, ptr, durable.ptr, pins>>
  BY <1>2, <1>c DEF Ask
<1>3. ASSUME NEW w \in Clients, StartSave(w) \/ StartPin(w) \/ StartRestore(w)
      PROVE UNCHANGED <<snaps, bodies, ptr, durable.ptr, pins>>
  BY <1>3, <1>2, Zenon DEF StartSave, StartPin, StartRestore
<1>4. CASE StartAutosave
  BY <1>4, <1>2, Zenon DEF StartAutosave
<1>5. ASSUME NEW w \in Writers, Acquire(w) \/ WaiterDies(w)
      PROVE UNCHANGED <<snaps, bodies, ptr, durable.ptr, pins>>
  BY <1>5, <1>c DEF Acquire, WaiterDies
<1>6. CASE Enter \/ SyncBody \/ SyncPointer \/ SyncRemoved \/ SyncCheckpoint
  <2>1. UNCHANGED <<snaps, bodies, ptr, pins>>
    BY <1>6 DEF Enter, SyncBody, SyncPointer, SyncRemoved, SyncCheckpoint
  <2>2. durable'.ptr \in {ptr, durable.ptr}
    BY <1>6, <1>a
    DEF Enter, DropDisabledCheckpoint, SyncBody, SyncPointer, SyncRemoved, SyncCheckpoint
  <2> QED BY <1>b, <2>1, <2>2 DEF RP!Next
<1>7. CASE WriteBody
  <2>1. Len(snaps') = Len(snaps) + 1 /\ bodies' = bodies \cup {Len(snaps')}
    BY <1>7 DEF WriteBody, NewId, TypeOK
  <2>2. RP!Make
    BY <1>7, <2>1 DEF WriteBody, RP!Make
  <2> QED BY <2>2 DEF RP!Next
<1>8. CASE WritePointer
  <2>1. step = "pointer" /\ ptr' = Len(snaps) /\ Len(snaps) \in bodies
    BY <1>8 DEF WritePointer, NewestInv, StoreInv
  <2>2. RP!Publish
    BY <1>8, <2>1 DEF WritePointer, RP!Publish
  <2> QED BY <2>2 DEF RP!Next
<1>9. CASE PinSaved
  <2>1. RP!Pin
    BY <1>9 DEF PinSaved, Loadable, RP!Pin
  <2> QED BY <2>1 DEF RP!Next
<1>10. CASE RemoveBody
  <2>1. PICK i \in doomed : bodies' = bodies \ {i}
    BY <1>10 DEF RemoveBody
  <2>2. i \in bodies \ (pins \cup {ptr})
    BY <2>1 DEF StoreInv
  <2>3. RP!Discard
    BY <1>10, <2>1, <2>2 DEF RemoveBody, RP!Discard
  <2> QED BY <2>3 DEF RP!Next
<1>11. CASE WriteMarker
  <2>1. RP!Pin \/ RP!Unpin
    BY <1>11 DEF WriteMarker, Loadable, RP!Pin, RP!Unpin
  <2> QED BY <2>1 DEF RP!Next
<1>12. CASE \/ ServerRestart \/ Capture \/ SkipProtected \/ Unchanged \/ MarkSafety \/ DecidePrune
            \/ UnmarkExpired \/ AfterPrune \/ ApplyRestore \/ WriteCheckpoint \/ LoadFails
            \/ CheckpointFails \/ HolderDies
  BY <1>12, <1>c
  DEF ServerRestart, Capture, SkipProtected, Unchanged, MarkSafety, DecidePrune, UnmarkExpired,
      AfterPrune, ApplyRestore, WriteCheckpoint, LoadFails, CheckpointFails, HolderDies
<1>13. ASSUME NEW i \in bodies, Damage(i)
       PROVE UNCHANGED <<snaps, bodies, ptr, durable.ptr, pins>>
  BY <1>13, <1>c DEF Damage
<1>14. CASE PowerLoss
  <2>1. PICK b \in SUBSET (bodies \cup durable.bodies), p \in {ptr, durable.ptr}, c \in {cp, durable.cp} :
          /\ bodies \cap durable.bodies \subseteq b
          /\ bodies' = b /\ ptr' = p
          /\ durable' = [bodies |-> b, ptr |-> p, cp |-> c]
    BY <1>14 DEF PowerLoss
  <2>2. ptr' \in {ptr, durable.ptr} /\ durable'.ptr = ptr' /\ snaps' = snaps /\ pins' = pins
    BY <1>14, <2>1 DEF PowerLoss
  <2>3. bodies' \subseteq 1 .. Len(snaps)
    BY <2>1 DEF TypeOK, Ids
  <2>4. StoreInv'
    BY StoreStep
  <2>5. pins' \cup ({ptr'} \ {0}) \subseteq bodies'
    BY <2>4 DEF StoreInv, CurrentNamesBody, PinnedSurvive
  <2>6. RP!Crash
    BY <2>2, <2>3, <2>5 DEF RP!Crash
  <2> QED BY <2>6 DEF RP!Next
<1>15. CASE UNCHANGED vars
  BY <1>15, <1>c DEF vars
<1> QED
  BY <1>1, <1>3, <1>4, <1>5, <1>6, <1>7, <1>8, <1>9, <1>10, <1>11, <1>12, <1>13, <1>14, <1>15
  DEF Next, HolderStep

\* The store keeps the promise of a recovery point (storage.rs commit_with, prune, pin,
\* unpin, atomic_write): current moves only to the newest snapshot, once it is there;
\* what it names and what is pinned is never removed, and after a crash current is one
\* that was settled or published before.
THEOREM Refinement == Spec => KeepsRecoveryPoint
<1>1. Init => RP!Init /\ NewestInv
  BY DEF Init, RP!Init, NewestInv
<1>2. TypeOK /\ StoreInv /\ NewestInv /\ [Next]_vars => [RP!Next]_(RP!vars)
  BY PromiseStep
<1> QED
  BY <1>1, <1>2, NewestStep, TypeCorrect, StoreRecoverable, PTL
  DEF Spec, KeepsRecoveryPoint, RP!Spec
===============================================================================
