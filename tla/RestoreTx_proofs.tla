--------------------------- MODULE RestoreTx_proofs ---------------------------
(***************************************************************************)
(* Proofs about apply() of restore.rs: it keeps the promise of             *)
(* AtomicReplace, the names and the terminals are where they belong after  *)
(* a success, and a rollback that is reported complete is one.  They hold  *)
(* for every server, snapshot, set of terminals and saved client state,    *)
(* and for any number of faults and of changes by users.                   *)
(***************************************************************************)
EXTENDS RestoreTx, FiniteSetTheorems, SequenceTheorems, WellFoundedInduction, TLAPS

Building == {"create", "move", "windows", "group"}
Switching == {"switch last", "switch", "inventory"}
Complete == {"connect", "properties", "verify"} \cup Switching
Forward == {"rename", "list"} \cup Building \cup Complete
Commit == {"retire", "finish"}
Returning == {"switch back", "back inventory"}
Undo == Returning \cup {"kill", "rename back", "report"}

\* Where the program is, and what it has recorded by then.
ControlInv ==
    /\ verdict = "none" <=> step # "done"
    /\ step \in {"rename", "retire"} => k \in Old
    /\ step \in {"rename", "list", "create", "windows", "group"} \cup Complete \cup Commit
          => made = 0
    /\ renamed = <<>> =>
          /\ step \in {"rename", "report", "done"}
          /\ verdict \in {"none", "rolled back", "rollback incomplete"}
          /\ listed = <<>> /\ created = <<>> /\ made = 0
    /\ step \in {"rename", "list"} => listed = <<>> /\ created = <<>> /\ DOMAIN built = {}
    /\ step \in {"create", "move"} =>
          k \in Primaries /\ DOMAIN built = {s \in Primaries : s < k}
    /\ step = "move" => made # 0
    /\ step = "windows" => DOMAIN built = Primaries
    /\ step = "group" =>
          k \in Deferred /\ DOMAIN built = Primaries \cup {s \in Deferred : s < k}
    /\ step \in Complete \cup Commit \/ verdict = "succeeded" => DOMAIN built = Positions
    /\ step \in Switching \cup Returning => k \in DOMAIN listed
    /\ step \in Returning => listed[k].from \in Old
    /\ step = "kill" => k \in DOMAIN created
    /\ step = "rename back" => k \in DOMAIN renamed
    /\ \A i, j \in DOMAIN listed : listed[i].terminal = listed[j].terminal => i = j

\* What is there: the originals until the commit phase, what was built until a
\* rollback removes it.
Stands(i, n) == i \in touched \/ (i \in Live /\ name[i] = n)
BuiltStands == \A s \in DOMAIN built : Stands(built[s], Saved[s])
BuiltInv ==
    /\ step \notin Commit /\ verdict # "succeeded" => OldWhole
    /\ step \in Forward \cup Commit \/ verdict = "succeeded" => BuiltStands
    /\ step = "move" => Stands(made, Saved[k])

\* Where the terminals are: open as long as no session was removed, and those that were
\* switched at the session meant for them.
Arrived(j) == listed[j].terminal \in touched \/ at[listed[j].terminal] = built[Goal(j)]
TerminalInv ==
    /\ step \in Forward \cup Returning =>
          \A j \in DOMAIN listed : listed[j].terminal \in touched \/ at[listed[j].terminal] # 0
    /\ step \in Switching => \A j \in DOMAIN listed : j < k => Arrived(j)
    /\ step \in {"verify"} \cup Commit \/ verdict = "succeeded" =>
          \A j \in DOMAIN listed : Arrived(j)

\* What a rollback still has to do.  As long as the first connection lives the lists say
\* what was done; a rollback that misses something has noted it.
Returned(j) ==
    listed[j].from \in Old /\ listed[j].terminal \notin touched
      => at[listed[j].terminal] = listed[j].from
NamedBack(i) == i \in Live \ touched => name[i] = Target[i]
NothingMissed ==
    /\ step \in Returning => \A j \in DOMAIN listed : j < k => Returned(j)
    /\ step \in {"kill", "rename back", "report"} \/ RolledBack =>
          \A j \in DOMAIN listed : Returned(j)
    /\ step = "kill" => \A j \in DOMAIN created : j > k => created[j] \notin Live
    /\ step \in {"rename back", "report"} \/ RolledBack =>
          \A j \in DOMAIN created : created[j] \notin Live
    /\ step = "rename back" => \A j \in DOMAIN renamed : j > k => NamedBack(renamed[j])
    /\ step = "report" \/ RolledBack =>
          /\ \A j \in DOMAIN renamed : NamedBack(renamed[j])
          /\ renamed # <<>> => "client" \in up
UndoneInv ==
    /\ "client" \in up => Live \subseteq Old \cup touched \cup ToSet(created) \cup {made}
    /\ renamed = <<>> => Live \subseteq Old \cup touched
    /\ "client" \in up => \A i \in Old \ ToSet(renamed) : NamedBack(i)
    /\ RolledBack => undone
    /\ undone => NothingMissed
-----------------------------------------------------------------------------
\* What a step of the restore amounts to, whatever became of its command.

Recorded == <<renamed, listed, created, built, made, switched, undone, verdict, touched>>

\* The reversible part.
Fails ==
    /\ step \in Forward /\ BackFrom(1) /\ UNCHANGED Recorded /\ up' \subseteq up
    /\ \/ UNCHANGED world
       \/ /\ "client" \notin up'
          /\ \/ step = "rename" /\ k \in Live /\ Rename(k, Backup[k])
             \/ step \in {"create", "group"} /\ NewSession(Saved[k])

Renames ==
    /\ step = "rename" /\ k \in Live /\ Rename(k, Backup[k])
    /\ renamed' = Append(renamed, k)
    /\ (step' = "rename" /\ k' \in Old) \/ (step' = "list" /\ k' = 0)
    /\ UNCHANGED <<listed, created, built, made, switched, undone, verdict, touched, up>>

Lists ==
    /\ step = "list" /\ step' = "create" /\ k' = 1
    /\ listed' \in Seq([terminal : Present, from : Live])
    /\ \A j \in DOMAIN listed' : listed'[j].from = at[listed'[j].terminal]
    /\ \A i, j \in DOMAIN listed' : listed'[i].terminal = listed'[j].terminal => i = j
    /\ touched' = touched \ Terminals
    /\ UNCHANGED <<world, renamed, created, built, made, switched, undone, verdict, up>>

Creates ==
    /\ step = "create" /\ step' = "move" /\ k' = k
    /\ NewSession(Saved[k]) /\ made' = last'
    /\ UNCHANGED <<renamed, listed, created, built, switched, undone, verdict, touched, up>>

Follows(here, S, there) ==
    \/ step' = here /\ k' \in S /\ k' > k /\ \A j \in S : j > k => k' <= j
    \/ step' = there /\ k' = 0 /\ \A j \in S : j <= k

Records ==
    /\ step = "move" /\ made \in Live
    /\ created' = Append(created, made) /\ built' = Extend(built, k, made) /\ made' = 0
    /\ Follows("create", Primaries, "windows")
    /\ UNCHANGED <<world, renamed, listed, switched, undone, verdict, touched, up>>

Joins ==
    /\ step = "group" /\ NewSession(Saved[k])
    /\ created' = Append(created, last') /\ built' = Extend(built, k, last')
    /\ Follows("group", Deferred, "connect")
    /\ UNCHANGED <<renamed, listed, made, switched, undone, verdict, touched, up>>

Passes ==
    /\ UNCHANGED <<world, Recorded>> /\ up' \subseteq up \cup {"final"}
    /\ \/ /\ step = "windows"
          /\ \/ step' = "group" /\ k' \in Deferred /\ \A j \in Deferred : k' <= j
             \/ step' = "connect" /\ k' = 0 /\ Deferred = {}
       \/ step = "connect" /\ step' = "properties" /\ k' = 0
       \/ step = "properties" /\ SwitchFrom(1)
       \/ step = "inventory" /\ at[Terminal] = 0 /\ SwitchFrom(k + 1)
       \/ step = "verify" /\ step' = "retire" /\ k' = 1

Diverts ==
    /\ step \in {"switch last", "switch"} /\ step' \in {"switch", "inventory"} /\ k' = k
    /\ UNCHANGED world \/ \E i \in Live : Switch(Terminal, i)
    /\ UNCHANGED Recorded /\ up' \subseteq up

Switches ==
    /\ step = "switch" /\ SwitchFrom(k + 1) /\ switched' = switched \cup {k}
    /\ built[Goal(k)] \in Live /\ Switch(Terminal, built[Goal(k)])
    /\ UNCHANGED <<renamed, listed, created, built, made, undone, verdict, touched, up>>

\* The irreversible part.
Retires ==
    /\ step = "retire"
    /\ (step' = "retire" /\ k' \in Old) \/ (step' = "finish" /\ k' = 0)
    /\ UNCHANGED world \/ (k \in Live /\ Kill(k))
    /\ UNCHANGED Recorded /\ up' \subseteq up

\* The rollback.
Returns ==
    /\ step = "switch back" /\ BackFrom(k + 1)
    /\ listed[k].from \in Live /\ Switch(Terminal, listed[k].from)
    /\ UNCHANGED <<Recorded, up>>

Doubts ==
    /\ step = "switch back" /\ step' = "back inventory" /\ k' = k
    /\ UNCHANGED world \/ (listed[k].from \in Live /\ Switch(Terminal, listed[k].from))
    /\ UNCHANGED Recorded /\ up' \subseteq up

Settles ==
    /\ step = "back inventory" /\ BackFrom(k + 1)
    /\ undone' \in BOOLEAN /\ (undone' => undone /\ at[Terminal] = 0)
    /\ UNCHANGED <<world, renamed, listed, created, built, made, switched, verdict, touched>>
    /\ up' \subseteq up

Removes ==
    /\ step = "kill" /\ KillFrom(k - 1)
    /\ UNCHANGED world \/ (created[k] \in Live /\ Kill(created[k]))
    /\ undone' \in BOOLEAN /\ (undone' => undone /\ created[k] \notin Live')
    /\ UNCHANGED <<renamed, listed, created, built, made, switched, verdict, touched>>
    /\ up' \subseteq up

Restores ==
    /\ step = "rename back" /\ RenameFrom(k - 1)
    /\ UNCHANGED world
       \/ (renamed[k] \in Live /\ Rename(renamed[k], Target[renamed[k]]))
    /\ undone' \in BOOLEAN
    /\ undone' => undone /\ name'[renamed[k]] = Target[renamed[k]] /\ "client" \in up'
    /\ UNCHANGED <<renamed, listed, created, built, made, switched, verdict, touched>>
    /\ up' \subseteq up

Outcome ==
    \/ Fails \/ Renames \/ Lists \/ Creates \/ Records \/ Joins \/ Passes \/ Diverts
    \/ Switches \/ Retires \/ Returns \/ Doubts \/ Settles \/ Removes \/ Restores

Bounded == faults' \in 0 .. MaxFaults /\ acts' \in 0 .. MaxActs

-----------------------------------------------------------------------------
\* The least of a set of numbers.
LEMMA LeastNumber ==
  ASSUME NEW S \in SUBSET Nat, S # {}
  PROVE  Min(S) \in S /\ \A j \in S : Min(S) <= j
<1>1. PICK m \in S : \A j \in S : <<j, m>> \notin OpToRel(<, Nat)
  BY WFMin, NatLessThanWellFounded, Zenon
<1>2. ASSUME NEW j \in S PROVE m <= j
  <2>1. <<j, m>> \in Nat \X Nat /\ <<j, m>>[1] = j /\ <<j, m>>[2] = m /\ j \in Nat /\ m \in Nat
    OBVIOUS
  <2>2. ~(j < m)
    BY <1>1, <2>1 DEF OpToRel
  <2> QED BY <2>1, <2>2
<1>3. \E m_1 \in S : \A j \in S : m_1 <= j
  BY <1>2
<1> QED BY <1>3, Zenon DEF Min

LEMMA NextNumber ==
  ASSUME NEW S \in SUBSET Nat, NEW i, NEW R, R = {j \in S : j > i}, R # {}
  PROVE  Min(R) \in S /\ Min(R) > i /\ \A j \in S : j > i => Min(R) <= j
BY LeastNumber

\* A list that is worked through in order.
LEMMA FirstInOrder ==
  ASSUME NEW S \in SUBSET Nat, NEW i \in S, \A m \in S : i <= m
  PROVE  {s \in S : s < i} = {}
<1>1. \A s \in S : ~(s < i)
  OBVIOUS
<1> QED BY <1>1

LEMMA LastInOrder ==
  ASSUME NEW S \in SUBSET Nat, NEW i \in S, \A m \in S : m <= i
  PROVE  S = {s \in S : s < i} \cup {i}
<1>1. \A s \in S : s < i \/ s = i
  OBVIOUS
<1> QED BY <1>1

LEMMA NextInOrder ==
  ASSUME NEW S \in SUBSET Nat, NEW i \in S, NEW j \in S, j > i,
         \A m \in S : m > i => j <= m
  PROVE  {s \in S : s < j} = {s \in S : s < i} \cup {i}
<1>1. \A s \in S : s < j <=> s < i \/ s = i
  OBVIOUS
<1> QED BY <1>1

\* The constants.
LEMMA Constants ==
  /\ Len(Target) \in Nat \ {0} /\ DOMAIN Target = Old /\ Old \in SUBSET Nat /\ 1 \in Old
  /\ Len(Saved) \in Nat \ {0} /\ DOMAIN Saved = Positions /\ Positions \in SUBSET Nat
  /\ Deferred \in SUBSET Positions /\ Primaries \in SUBSET Positions /\ 1 \in Primaries
  /\ \A j \in Primaries : j >= 1
  /\ Terminals \cap Nat = {} /\ IsFiniteSet(Terminals) /\ MaxFaults \in Nat /\ MaxActs \in Nat
  /\ Preferred \in Seq(ToSet(Preferred))
BY RestoreAssumption DEF RestoreAssumption, Old, Positions, Primaries

LEMMA ForwardOutcome ==
  ASSUME TypeOK, ControlInv, step \in Forward, RestoreStep
  PROVE  /\ Fails \/ Renames \/ Lists \/ Creates \/ Records \/ Joins \/ Passes \/ Diverts
            \/ Switches
         /\ Bounded
<1> USE DEF Command, Goto, Rollback, Recorded, result, world, Bounded
<1>c. /\ Old \in SUBSET Nat /\ Positions \in SUBSET Nat /\ Deferred \in SUBSET Nat
      /\ Primaries \in SUBSET Nat /\ k \in Nat /\ faults \in 0 .. MaxFaults
      /\ acts \in 0 .. MaxActs /\ MaxFaults \in Nat
  BY Constants DEF TypeOK
<1>b. ASSUME faults' \in {faults, faults + 1}, faults' = faults \/ faults < MaxFaults,
             acts' = acts
      PROVE  Bounded
  BY <1>b, <1>c
<1>1. CASE RenameBackup
  <2>1. Fails \/ (/\ Rename(k, Backup[k]) /\ k \in Live /\ renamed' = Append(renamed, k)
                  /\ NextOf("rename", Old, Goto("list", 0))
                  /\ UNCHANGED <<listed, created, built, made, switched, undone, verdict,
                                 touched, up>>)
    BY <1>1 DEF RenameBackup, CanRename, Fails, Forward
  <2>2. NextOf("rename", Old, Goto("list", 0)) =>
          (step' = "rename" /\ k' \in Old) \/ (step' = "list" /\ k' = 0)
    BY <1>c, NextNumber DEF NextOf
  <2>3. Bounded
    BY <1>1, <1>b DEF RenameBackup
  <2> QED BY <1>1, <2>1, <2>2, <2>3 DEF RenameBackup, Renames
<1>2. CASE ListClients
  <2>1. Fails \/ (/\ \E order \in SetToSeqs(Present) :
                        listed' = [j \in DOMAIN order |->
                                     [terminal |-> order[j], from |-> at[order[j]]]]
                  /\ touched' = touched \ Terminals /\ step' = "create" /\ k' = 1
                  /\ UNCHANGED <<world, renamed, created, built, made, switched, undone,
                                 verdict, up>>)
    BY <1>2 DEF ListClients, Fails, Forward
  <2>2. ASSUME NEW order \in SetToSeqs(Present),
               listed' = [j \in DOMAIN order |->
                            [terminal |-> order[j], from |-> at[order[j]]]]
        PROVE  /\ listed' \in Seq([terminal : Present, from : Live])
               /\ \A j \in DOMAIN listed' : listed'[j].from = at[listed'[j].terminal]
               /\ \A i, j \in DOMAIN listed' :
                     listed'[i].terminal = listed'[j].terminal => i = j
    <3>1. Present \in SUBSET Terminals /\ IsFiniteSet(Terminals)
      BY Constants DEF Present
    <3>2. Cardinality(Present) \in Nat
      BY <3>1, FS_Subset, FS_CardinalityType
    <3>3. /\ order \in [1 .. Cardinality(Present) -> Present]
          /\ \A i, j \in 1 .. Cardinality(Present) : i # j => order[i] # order[j]
      BY DEF SetToSeqs
    <3>4. \A t \in Present : at[t] \in Live
      BY DEF Present, TypeOK
    <3>5. listed' \in [1 .. Cardinality(Present) -> [terminal : Present, from : Live]]
      BY <2>2, <3>3, <3>4
    <3>6. listed' \in Seq([terminal : Present, from : Live])
      BY <3>2, <3>5, SeqDef, ZenonT(30)
    <3>7. /\ DOMAIN listed' = 1 .. Cardinality(Present)
          /\ \A j \in 1 .. Cardinality(Present) :
                listed'[j].from = at[order[j]] /\ listed'[j].terminal = order[j]
      BY <2>2, <3>3
    <3> QED BY <3>3, <3>6, <3>7
  <2>3. Bounded
    BY <1>2, <1>b DEF ListClients
  <2> QED BY <1>2, <2>1, <2>2, <2>3 DEF ListClients, Lists
<1>3. CASE CreateSession
  <2>1. Fails \/ Creates
    BY <1>3 DEF CreateSession, Fails, Creates, Forward, Building
  <2>2. Bounded
    BY <1>3, <1>b DEF CreateSession
  <2> QED BY <2>1, <2>2
<1>4. CASE MovePlaceholder
  <2>1. Fails \/ (/\ made \in Live /\ created' = Append(created, made)
                  /\ built' = Extend(built, k, made) /\ made' = 0
                  /\ NextOf("create", Primaries, Goto("windows", 0))
                  /\ UNCHANGED <<world, renamed, listed, switched, undone, verdict, touched, up>>)
    BY <1>4 DEF MovePlaceholder, Fails, Forward, Building
  <2>2. NextOf("create", Primaries, Goto("windows", 0)) => Follows("create", Primaries, "windows")
    BY <1>c, NextNumber DEF NextOf, Follows
  <2>3. Bounded
    BY <1>4, <1>b DEF MovePlaceholder
  <2> QED BY <1>4, <2>1, <2>2, <2>3 DEF MovePlaceholder, Records
<1>5. CASE BuildWindows
  <2>1. Fails \/ (/\ UNCHANGED <<world, Recorded, up>>
                  /\ IF Deferred # {} THEN Goto("group", Min(Deferred)) ELSE Goto("connect", 0))
    BY <1>5 DEF BuildWindows, Fails, Forward, Building
  <2>2. Deferred # {} => Min(Deferred) \in Deferred /\ \A j \in Deferred : Min(Deferred) <= j
    BY <1>c, LeastNumber
  <2>3. Bounded
    BY <1>5, <1>b DEF BuildWindows
  <2> QED BY <1>5, <2>1, <2>2, <2>3 DEF BuildWindows, Passes
<1>6. CASE CreateMember
  <2>1. Fails \/ (/\ NewSession(Saved[k])
                  /\ created' = Append(created, last') /\ built' = Extend(built, k, last')
                  /\ NextOf("group", Deferred, Goto("connect", 0))
                  /\ UNCHANGED <<renamed, listed, made, switched, undone, verdict, touched, up>>)
    BY <1>6 DEF CreateMember, Fails, Forward, Building
  <2>2. NextOf("group", Deferred, Goto("connect", 0)) => Follows("group", Deferred, "connect")
    <3> DEFINE R == {j \in Deferred : j > k}
    <3>1. R # {} => Min(R) \in Deferred /\ Min(R) > k /\ \A j \in Deferred : j > k => Min(R) <= j
      BY <1>c, NextNumber
    <3>2. R = {} => \A j \in Deferred : j <= k
      BY <1>c
    <3> QED BY <3>1, <3>2 DEF NextOf, Follows
  <2>3. Bounded
    BY <1>6, <1>b DEF CreateMember
  <2> QED BY <1>6, <2>1, <2>2, <2>3 DEF CreateMember, Joins
<1>7. CASE ConnectFinal
  <2>1. Fails \/ Passes
    BY <1>7 DEF ConnectFinal, Fails, Passes, Forward, Complete
  <2>2. Bounded
    BY <1>7, <1>b DEF ConnectFinal
  <2> QED BY <2>1, <2>2
<1>8. CASE RestoreProperties
  <2>1. Fails \/ Passes
    BY <1>8 DEF RestoreProperties, Fails, Passes, Forward, Complete
  <2>2. Bounded
    BY <1>8, <1>b DEF RestoreProperties
  <2> QED BY <2>1, <2>2
<1>9. CASE SwitchLast
  <2>1. Diverts
    BY <1>9 DEF SwitchLast, Diverts, CanSwitch
  <2>2. Bounded
    BY <1>9, <1>b DEF SwitchLast
  <2> QED BY <2>1, <2>2
<1>10. CASE SwitchClient
  <2>1. Diverts \/ Switches
    BY <1>10 DEF SwitchClient, Diverts, Switches, CanSwitch
  <2>2. Bounded
    BY <1>10, <1>b DEF SwitchClient
  <2> QED BY <2>1, <2>2
<1>11. CASE Inventory
  <2>1. Fails \/ Passes
    BY <1>11 DEF Inventory, Fails, Passes, Forward, Complete, Switching
  <2>2. Bounded
    BY <1>11, <1>b DEF Inventory
  <2> QED BY <2>1, <2>2
<1>12. CASE Verify
  <2>1. Fails \/ Passes
    BY <1>12 DEF Verify, Fails, Passes, Forward, Complete
  <2>2. Bounded
    BY <1>12, <1>b DEF Verify
  <2> QED BY <2>1, <2>2
<1>13. ~(Retire \/ SwitchBack \/ BackInventory \/ KillNew \/ RenameBack \/ Report)
  BY DEF Retire, SwitchBack, BackInventory, KillNew, RenameBack, Report, Forward, Building,
         Complete, Switching
<1> QED BY <1>1, <1>2, <1>3, <1>4, <1>5, <1>6, <1>7, <1>8, <1>9, <1>10, <1>11, <1>12, <1>13
        DEF RestoreStep

LEMMA BackwardOutcome ==
  ASSUME TypeOK, ControlInv, step \notin Forward, RestoreStep, ~Report
  PROVE  (Retires \/ Returns \/ Doubts \/ Settles \/ Removes \/ Restores) /\ Bounded
<1> USE DEF Command, Goto, Recorded, result, world, Bounded
<1>c. /\ Old \in SUBSET Nat /\ k \in Nat /\ faults \in 0 .. MaxFaults
      /\ acts \in 0 .. MaxActs /\ MaxFaults \in Nat
  BY Constants DEF TypeOK
<1>b. ASSUME faults' \in {faults, faults + 1}, faults' = faults \/ faults < MaxFaults,
             acts' = acts
      PROVE  Bounded
  BY <1>b, <1>c
<1>d. undone \in BOOLEAN
  BY DEF TypeOK
<1>1. CASE Retire
  <2>1. RetireNext => (step' = "retire" /\ k' \in Old) \/ (step' = "finish" /\ k' = 0)
    BY <1>c, NextNumber DEF RetireNext, NextOf
  <2>2. Bounded
    BY <1>1, <1>b DEF Retire
  <2> QED BY <1>1, <2>1, <2>2 DEF Retire, Retires
<1>2. CASE SwitchBack
  <2>1. Returns \/ Doubts
    BY <1>2 DEF SwitchBack, Returns, Doubts, CanSwitch
  <2>2. Bounded
    BY <1>2, <1>b DEF SwitchBack
  <2> QED BY <2>1, <2>2
<1>3. CASE BackInventory
  <2>1. Settles
    BY <1>3 DEF BackInventory, Settles, TypeOK
  <2>2. Bounded
    BY <1>3, <1>b DEF BackInventory
  <2> QED BY <2>1, <2>2
<1>4. CASE KillNew
  <2>1. Kill(created[k]) => created[k] \notin Live'
    BY DEF Kill, Drop, Live
  <2>2. \/ Kill(created[k]) /\ created[k] \in Live /\ undone' = undone
        \/ (UNCHANGED world \/ (created[k] \in Live /\ Kill(created[k]))) /\ undone' = FALSE
    BY <1>4 DEF KillNew
  <2>4. undone' \in BOOLEAN /\ (undone' => undone /\ created[k] \notin Live')
    <3>1. CASE Kill(created[k]) /\ undone' = undone
      BY <1>d, <2>1, <3>1, Zenon
    <3>2. CASE undone' = FALSE
      BY <3>2
    <3> QED BY <2>2, <3>1, <3>2, Zenon
  <2>5. Removes
    BY <1>4, <2>2, <2>4 DEF KillNew, Removes
  <2>3. Bounded
    BY <1>4, <1>b DEF KillNew
  <2> QED BY <2>3, <2>5
<1>5. CASE RenameBack
  <2>1. Rename(renamed[k], Target[renamed[k]]) /\ renamed[k] \in Live =>
          name'[renamed[k]] = Target[renamed[k]]
    BY DEF Rename, Live
  <2> DEFINE i == renamed[k]
  <2>2. \/ Rename(i, Target[i]) /\ i \in Live /\ undone' = undone /\ "client" \in up'
        \/ (UNCHANGED world \/ (i \in Live /\ Rename(i, Target[i]))) /\ undone' = FALSE
    BY <1>5 DEF RenameBack, CanRename
  <2>4. /\ undone' \in BOOLEAN
        /\ undone' => undone /\ name'[i] = Target[i] /\ "client" \in up'
    <3>1. CASE Rename(i, Target[i]) /\ i \in Live /\ undone' = undone /\ "client" \in up'
      BY <1>d, <2>1, <3>1, Zenon
    <3>2. CASE undone' = FALSE
      BY <3>2
    <3> QED BY <2>2, <3>1, <3>2, Zenon
  <2>5. Restores
    BY <1>5, <2>2, <2>4 DEF RenameBack, Restores
  <2>3. Bounded
    BY <1>5, <1>b DEF RenameBack
  <2> QED BY <2>3, <2>5
<1> QED BY <1>1, <1>2, <1>3, <1>4, <1>5
        DEF RestoreStep, RenameBackup, ListClients, CreateSession, MovePlaceholder,
            BuildWindows, CreateMember, ConnectFinal, RestoreProperties, SwitchLast,
            SwitchClient, Inventory, Verify, Forward, Building, Complete, Switching

-----------------------------------------------------------------------------
\* What a command or a user does to the server.

LEMMA AfterRename ==
  ASSUME NEW i, NEW n, Rename(i, n)
  PROVE  /\ Live' = Live /\ at' = at /\ last' = last
         /\ \A j \in Live : name'[j] = IF j = i THEN n ELSE name[j]
BY DEF Rename, Live

LEMMA AfterOpen ==
  ASSUME TypeOK, NEW n, NewSession(n)
  PROVE  /\ last' = last + 1 /\ last' \in Nat \ {0} /\ last' \notin Ids /\ last' \notin Live
         /\ last' \notin Old
         /\ Ids' = Ids \cup {last'} /\ Live' = Live \cup {last'} /\ at' = at
         /\ name'[last'] = n /\ \A j \in Live : name'[j] = name[j]
<1>1. last \in Nat /\ last' = last + 1 /\ Ids' = Ids \cup {last'} /\ last' \notin Ids
  <2>1. last \in Nat
    BY DEF TypeOK
  <2>2. last' = last + 1
    BY DEF NewSession
  <2> QED BY <2>1, <2>2 DEF Ids
<1>2. last' \notin Live /\ last' \notin Old
  BY <1>1 DEF TypeOK
<1>3. Live' = Live \cup {last'} /\ name'[last'] = n /\ at' = at
  BY DEF NewSession, Extend, Live
<1>4. \A j \in Live : name'[j] = name[j]
  BY <1>2 DEF NewSession, Extend, Live
<1> QED BY <1>1, <1>2, <1>3, <1>4

LEMMA AfterKill ==
  ASSUME TypeOK, NEW i, Kill(i)
  PROVE  /\ Live' = Live \ {i} /\ last' = last /\ \A j \in Live' : name'[j] = name[j]
         /\ at' \in [Terminals -> Live' \cup {0}]
         /\ \A t \in Terminals : at[t] # i => at'[t] = at[t]
<1>1. Live' = Live \ {i} /\ last' = last /\ \A j \in Live' : name'[j] = name[j]
  BY DEF Kill, Drop, Live
<1>2. at \in [Terminals -> Live \cup {0}]
  BY DEF TypeOK
<1>3. /\ at' \in [Terminals -> Live \cup {0}]
      /\ \A t \in Terminals : IF at[t] = i THEN at'[t] # i ELSE at'[t] = at[t]
  BY DEF Kill
<1>4. ASSUME NEW t \in Terminals PROVE at'[t] # i
  BY <1>3
<1>5. at' \in [Terminals -> Live' \cup {0}]
  BY <1>1, <1>3, <1>4
<1> QED BY <1>1, <1>3, <1>5

LEMMA AfterSwitch ==
  ASSUME TypeOK, NEW t \in Terminals, NEW i \in Live \cup {0}, Switch(t, i)
  PROVE  /\ name' = name /\ Live' = Live /\ last' = last
         /\ at' \in [Terminals -> Live' \cup {0}]
         /\ at'[t] = i /\ \A u \in Terminals : u # t => at'[u] = at[u]
BY DEF Switch, TypeOK, Live

\* None of it gives an id twice or leaves a terminal in a session that is gone.
WorldTyped ==
    /\ last' \in Nat /\ Ids \subseteq Ids' /\ Live' \cup Old \subseteq Ids'
    /\ at' \in [Terminals -> Live' \cup {0}]

LEMMA WorldType ==
  ASSUME TypeOK,
         \/ UNCHANGED world
         \/ \E i, n : Rename(i, n)
         \/ \E n : NewSession(n)
         \/ \E i : Kill(i)
         \/ \E t \in Terminals, i \in Live \cup {0} : Switch(t, i)
  PROVE  WorldTyped
<1>1. /\ last \in Nat /\ Live \cup Old \subseteq Ids
      /\ at \in [Terminals -> Live \cup {0}] /\ Ids = 1 .. last
  BY DEF TypeOK, Ids
<1>2. CASE UNCHANGED world
  BY <1>1, <1>2 DEF world, WorldTyped, Live, Ids
<1>3. ASSUME NEW i, NEW n, Rename(i, n) PROVE WorldTyped
  BY <1>1, <1>3, AfterRename DEF WorldTyped, Ids
<1>4. ASSUME NEW n, NewSession(n) PROVE WorldTyped
  <2>1. /\ last' \in Nat \ {0} /\ Ids' = Ids \cup {last'} /\ Live' = Live \cup {last'}
        /\ at' = at
    BY <1>4, AfterOpen
  <2> QED BY <1>1, <2>1 DEF WorldTyped
<1>5. ASSUME NEW i, Kill(i) PROVE WorldTyped
  <2>1. Live' = Live \ {i} /\ last' = last /\ at' \in [Terminals -> Live' \cup {0}]
    BY <1>5, AfterKill
  <2>2. Ids' = Ids
    BY <2>1 DEF Ids
  <2> QED BY <1>1, <2>1, <2>2 DEF WorldTyped
<1>6. ASSUME NEW t \in Terminals, NEW i \in Live \cup {0}, Switch(t, i) PROVE WorldTyped
  <2>1. Live' = Live /\ last' = last /\ at' \in [Terminals -> Live' \cup {0}]
    BY <1>6, AfterSwitch
  <2>2. Ids' = Ids
    BY <2>1 DEF Ids
  <2> QED BY <1>1, <2>1, <2>2 DEF WorldTyped
<1> QED BY <1>2, <1>3, <1>4, <1>5, <1>6

\* The lists that the restore keeps.
LEMMA RecordTypes ==
  ASSUME TypeOK
  PROVE  /\ Len(listed) \in Nat /\ DOMAIN listed = 1 .. Len(listed)
         /\ DOMAIN listed \in SUBSET Nat
         /\ Len(created) \in Nat /\ DOMAIN created = 1 .. Len(created)
         /\ Len(renamed) \in Nat /\ DOMAIN renamed = 1 .. Len(renamed)
         /\ \A j \in DOMAIN listed : listed[j].terminal \in Terminals /\ listed[j].from \in Ids
         /\ \A j \in DOMAIN created : created[j] \in Ids \ Old
         /\ \A j \in DOMAIN renamed : renamed[j] \in Old
         /\ \A s \in DOMAIN built : built[s] \in Ids \ Old
         /\ ToSet(created) = {created[j] : j \in DOMAIN created}
         /\ ToSet(renamed) = {renamed[j] : j \in DOMAIN renamed}
<1>1. listed \in Seq([terminal : Terminals, from : Ids])
  BY DEF TypeOK
<1>2. created \in Seq(Ids \ Old)
  BY DEF TypeOK
<1>3. renamed \in Seq(Old)
  BY DEF TypeOK
<1>4. Len(listed) \in Nat /\ DOMAIN listed = 1 .. Len(listed)
  BY <1>1
<1>5. ASSUME NEW j \in DOMAIN listed
      PROVE  listed[j].terminal \in Terminals /\ listed[j].from \in Ids
  <2>1. listed[j] \in [terminal : Terminals, from : Ids]
    BY <1>1, <1>4, ElementOfSeq
  <2> QED BY <2>1
<1>6. Len(created) \in Nat /\ DOMAIN created = 1 .. Len(created)
      /\ \A j \in DOMAIN created : created[j] \in Ids \ Old
  BY <1>2
<1>7. Len(renamed) \in Nat /\ DOMAIN renamed = 1 .. Len(renamed)
      /\ \A j \in DOMAIN renamed : renamed[j] \in Old
  BY <1>3
<1>8. {built[s] : s \in DOMAIN built} = ToSet(created)
  BY DEF TypeOK
<1>9. /\ ToSet(created) = {created[j] : j \in DOMAIN created}
      /\ ToSet(renamed) = {renamed[j] : j \in DOMAIN renamed}
  BY DEF ToSet
<1>10. ASSUME NEW s \in DOMAIN built PROVE built[s] \in Ids \ Old
  <2>1. built[s] \in ToSet(created)
    BY <1>8
  <2> QED BY <1>6, <1>9, <2>1
<1> QED BY <1>4, <1>5, <1>6, <1>7, <1>9, <1>10

LEMMA IdsAreNumbers ==
  ASSUME TypeOK
  PROVE  /\ Ids \in SUBSET Nat /\ 0 \notin Ids /\ Ids \cap Terminals = {}
         /\ Live \subseteq Ids /\ Old \subseteq Ids
<1>1. last \in Nat /\ Live \cup Old \subseteq Ids
  BY DEF TypeOK
<1>2. Ids \in SUBSET Nat /\ 0 \notin Ids
  BY <1>1 DEF Ids
<1>3. Terminals \cap Nat = {}
  BY Constants
<1> QED BY <1>1, <1>2, <1>3

LEMMA PositionOrNone ==
  ASSUME NEW S \in SUBSET Nat, NEW i, i \in S \/ i = 0
  PROVE  i \in Nat
<1>1. 0 \in Nat
  OBVIOUS
<1> QED BY <1>1, Zenon

LEMMA Appended ==
  ASSUME NEW S, NEW list \in Seq(S), NEW e \in S
  PROVE  /\ Append(list, e) \in Seq(S) /\ Append(list, e) # <<>>
         /\ DOMAIN Append(list, e) = DOMAIN list \cup {Len(list) + 1}
         /\ Len(list) + 1 \notin DOMAIN list
         /\ Append(list, e)[Len(list) + 1] = e
         /\ \A j \in DOMAIN list : Append(list, e)[j] = list[j]
         /\ ToSet(Append(list, e)) = ToSet(list) \cup {e}
<1> DEFINE more == Append(list, e)
<1>1. Len(list) \in Nat /\ DOMAIN list = 1 .. Len(list)
  BY LenProperties
<1>2. /\ more \in Seq(S) /\ more # <<>> /\ Len(more) = Len(list) + 1
      /\ \A j \in 1 .. Len(list) : more[j] = list[j]
      /\ more[Len(list) + 1] = e
  BY AppendProperties
<1> HIDE DEF more
<1>3. DOMAIN more = 1 .. Len(list) + 1
  BY <1>2, LenProperties
<1>4. 1 .. Len(list) + 1 = 1 .. Len(list) \cup {Len(list) + 1}
      /\ Len(list) + 1 \notin 1 .. Len(list)
  BY <1>1
<1>5. ToSet(more) = ToSet(list) \cup {e}
  BY <1>1, <1>2, <1>3, <1>4 DEF ToSet
<1> QED BY <1>1, <1>2, <1>3, <1>4, <1>5 DEF more

\* What the program counter says of the position.
LEMMA Positioned ==
  ASSUME TypeOK, ControlInv
  PROVE  /\ step \in {"rename", "retire"} => k \in Old
         /\ step \in {"create", "move", "group"} => k \in Positions /\ k \notin DOMAIN built
         /\ step = "move" => made # 0
         /\ step \in {"rename", "list"} => listed = <<>> /\ created = <<>> /\ DOMAIN built = {}
         /\ step \in Switching \cup Returning => k \in DOMAIN listed
         /\ step = "kill" => k \in DOMAIN created /\ k - 1 \in Nat
         /\ step = "rename back" => k \in DOMAIN renamed /\ k - 1 \in Nat
         /\ k \in Nat
<1>1. k \in Nat /\ Positions \in SUBSET Nat /\ Deferred \in SUBSET Positions
      /\ Primaries = Positions \ Deferred
  BY Constants DEF TypeOK, Primaries
<1>2. ASSUME step \in {"create", "move"} PROVE k \in Positions /\ k \notin DOMAIN built
  <2>1. k \in Primaries /\ DOMAIN built = {s \in Primaries : s < k}
    BY <1>2 DEF ControlInv
  <2> QED BY <1>1, <2>1
<1>3. ASSUME step = "group" PROVE k \in Positions /\ k \notin DOMAIN built
  <2>1. k \in Deferred /\ DOMAIN built = Primaries \cup {s \in Deferred : s < k}
    BY <1>3 DEF ControlInv
  <2> QED BY <1>1, <2>1
<1>4. step \in {"create", "move", "group"} => k \in Positions /\ k \notin DOMAIN built
  BY <1>2, <1>3
<1>5. step = "kill" => k \in DOMAIN created /\ k - 1 \in Nat
  <2>1. DOMAIN created = 1 .. Len(created) /\ Len(created) \in Nat
    BY RecordTypes
  <2>2. step = "kill" => k \in DOMAIN created
    BY DEF ControlInv
  <2> QED BY <2>1, <2>2
<1>6. step = "rename back" => k \in DOMAIN renamed /\ k - 1 \in Nat
  <2>1. DOMAIN renamed = 1 .. Len(renamed) /\ Len(renamed) \in Nat
    BY RecordTypes
  <2>2. step = "rename back" => k \in DOMAIN renamed
    BY DEF ControlInv
  <2>3. \A j \in DOMAIN renamed : j - 1 \in Nat
    BY <2>1
  <2> QED BY <2>2, <2>3
<1>7. /\ step \in {"rename", "retire"} => k \in Old
      /\ step = "move" => made # 0
      /\ step \in {"rename", "list"} => listed = <<>> /\ created = <<>> /\ DOMAIN built = {}
      /\ step \in Switching \cup Returning => k \in DOMAIN listed
  BY DEF ControlInv
<1> QED BY <1>1, <1>4, <1>5, <1>6, <1>7

LEMMA NextPosition ==
  ASSUME TypeOK
  PROVE  k \in Nat /\ k + 1 \in Nat /\ k + 1 \in Nat \ {0}
<1>1. k \in Nat
  BY DEF TypeOK
<1> QED BY <1>1

\* Where a rollback goes on.
LEMMA BackGoes ==
  ASSUME TypeOK, NEW i \in Nat, BackFrom(i)
  PROVE  \/ /\ step' = "switch back" /\ k' \in DOMAIN listed /\ k' >= i
            /\ listed[k'].from \in Old
            /\ \A j \in DOMAIN listed : i <= j /\ j < k' => listed[j].from \notin Old
         \/ /\ \A j \in DOMAIN listed : i <= j => listed[j].from \notin Old
            /\ KillFrom(Len(created))
<1> DEFINE rest == {j \in DOMAIN listed : j >= i /\ listed[j].from \in Old}
<1>1. DOMAIN listed \in SUBSET Nat
  BY RecordTypes
<1>2. ASSUME rest # {} PROVE Min(rest) \in rest /\ \A j \in rest : Min(rest) <= j
  BY <1>1, <1>2, LeastNumber
<1>3. CASE rest # {}
  <2>1. step' = "switch back" /\ k' = Min(rest)
    BY <1>3 DEF BackFrom, Goto
  <2>2. k' \in rest /\ \A j \in rest : k' <= j
    BY <1>2, <1>3, <2>1
  <2> HIDE DEF rest
  <2>3. ASSUME NEW j \in DOMAIN listed, i <= j, j < k' PROVE j \notin rest
    <3>1. j \in Nat /\ k' \in Nat
      BY <1>1, <2>2 DEF rest
    <3> QED BY <2>2, <2>3, <3>1
  <2> QED BY <1>1, <2>1, <2>2, <2>3 DEF rest
<1>4. CASE rest = {}
  <2>1. KillFrom(Len(created))
    BY <1>4 DEF BackFrom
  <2>2. \A j \in DOMAIN listed : i <= j => listed[j].from \notin Old
    BY <1>1, <1>4
  <2> QED BY <2>1, <2>2
<1> QED BY <1>3, <1>4

LEMMA UndoSteps ==
  ASSUME TypeOK, NEW i \in Nat, BackFrom(i) \/ KillFrom(i) \/ RenameFrom(i)
  PROVE  step' \in Undo /\ k' \in Nat
<1>1. Len(created) \in Nat /\ Len(renamed) \in Nat /\ DOMAIN listed \in SUBSET Nat
  BY RecordTypes
<1>2. ASSUME NEW m \in Nat, KillFrom(m) \/ RenameFrom(m) PROVE step' \in Undo /\ k' \in Nat
  <2>1. ASSUME NEW n \in Nat, RenameFrom(n) PROVE step' \in Undo /\ k' \in Nat
    <3>1. (step' = "rename back" /\ k' = n) \/ (step' = "report" /\ k' = 0)
      BY <2>1 DEF RenameFrom, Goto
    <3>2. step' \in Undo
      BY <3>1 DEF Undo, Returning
    <3>3. k' \in Nat
      <4>1. n \in Nat /\ 0 \in Nat
        OBVIOUS
      <4>2. k' = n \/ k' = 0
        BY <3>1
      <4> QED BY <4>1, <4>2, Zenon
    <3> QED BY <3>2, <3>3
  <2>2. CASE KillFrom(m)
    <3>1. (step' = "kill" /\ k' = m) \/ RenameFrom(Len(renamed))
      BY <2>2 DEF KillFrom, Goto
    <3> QED BY <1>1, <2>1, <3>1 DEF Undo, Returning
  <2> QED BY <1>2, <2>1, <2>2
<1>3. CASE BackFrom(i)
  <2>1. (step' = "switch back" /\ k' \in DOMAIN listed) \/ KillFrom(Len(created))
    BY <1>3, BackGoes, Zenon
  <2>2. CASE step' = "switch back" /\ k' \in DOMAIN listed
    BY <1>1, <2>2 DEF Undo, Returning
  <2>3. CASE KillFrom(Len(created))
    BY <1>1, <1>2, <2>3
  <2> QED BY <2>1, <2>2, <2>3
<1> QED BY <1>2, <1>3

LEMMA SwitchSteps ==
  ASSUME TypeOK, NEW j \in Nat \ {0}, SwitchFrom(j)
  PROVE  \/ step' \in {"switch last", "switch"} /\ k' = j /\ j \in DOMAIN listed
         \/ step' = "verify" /\ k' = 0 /\ j > Len(listed)
<1>1. Len(listed) \in Nat /\ DOMAIN listed = 1 .. Len(listed)
  BY RecordTypes
<1>2. j > Len(listed) \/ j \in DOMAIN listed
  BY <1>1
<1>3. CASE j > Len(listed)
  BY <1>3 DEF SwitchFrom, Goto
<1>4. CASE ~(j > Len(listed))
  BY <1>2, <1>4 DEF SwitchFrom, Goto
<1> QED BY <1>3, <1>4

\* What users change they leave a trace of.
UsersAct ==
    /\ verdict = "none" /\ UNCHANGED <<up, step, k, result>> /\ Bounded /\ WorldTyped
    /\ touched \subseteq touched' /\ touched' \subseteq Ids' \cup Terminals
    /\ \A i \in Ids : (i \in Live' \/ i \in touched') <=> (i \in Live \/ i \in touched)
    /\ \A i \in Ids : i \in Live' => i \in Live
    /\ \A i \in Live : i \in touched' \/ (i \in Live' /\ name'[i] = name[i])
    /\ Live' \ Live \subseteq touched'
    /\ \A t \in Terminals : t \in touched' \/ at'[t] = at[t]

LEMMA UserOutcome ==
  ASSUME TypeOK, UserStep
  PROVE  UsersAct
<1>1. /\ last \in Nat /\ Live \subseteq Ids /\ at \in [Terminals -> Live \cup {0}]
      /\ touched \subseteq Ids \cup Terminals /\ Terminals \cap Nat = {}
      /\ faults \in 0 .. MaxFaults /\ acts \in 0 .. MaxActs /\ MaxActs \in Nat
      /\ Ids \in SUBSET Nat /\ 0 \notin Ids
  <2>1. /\ last \in Nat /\ Live \subseteq Ids /\ at \in [Terminals -> Live \cup {0}]
        /\ touched \subseteq Ids \cup Terminals
        /\ faults \in 0 .. MaxFaults /\ acts \in 0 .. MaxActs
    BY DEF TypeOK
  <2>2. Ids \in SUBSET Nat /\ 0 \notin Ids
    BY <2>1 DEF Ids
  <2> QED BY <2>1, <2>2, Constants
<1>2. ASSUME Act
      PROVE  verdict = "none" /\ UNCHANGED <<up, step, k, result>> /\ Bounded
  BY <1>1, <1>2 DEF Act, Bounded
<1>3. ASSUME NEW n \in UserNames, UserOpens(n) PROVE UsersAct
  <2>1. NewSession(n) /\ touched' = touched \cup {last'} /\ Act
    BY <1>3 DEF UserOpens, Touch
  <2>2. WorldTyped
    BY <2>1, WorldType
  <2>3. /\ last' \notin Ids /\ Ids' = Ids \cup {last'} /\ Live' = Live \cup {last'}
        /\ at' = at /\ \A j \in Live : name'[j] = name[j]
    BY <2>1, AfterOpen
  <2> QED BY <1>1, <1>2, <2>1, <2>2, <2>3 DEF UsersAct
<1>4. ASSUME NEW i \in Live, UserCloses(i) PROVE UsersAct
  <2>1. /\ Kill(i) /\ Act
        /\ touched' = touched \cup {i} \cup {t \in Terminals : at[t] = i}
    BY <1>4 DEF UserCloses, Touch
  <2>2. WorldTyped
    BY <2>1, WorldType
  <2>3. /\ Live' = Live \ {i} /\ last' = last /\ \A j \in Live' : name'[j] = name[j]
        /\ \A t \in Terminals : at[t] # i => at'[t] = at[t]
    BY <2>1, AfterKill
  <2>4. Ids' = Ids
    BY <2>3 DEF Ids
  <2>5. \A t \in Terminals : t \in touched' \/ at'[t] = at[t]
    BY <2>1, <2>3
  <2>6. \A j \in Ids : (j \in Live' \/ j \in touched') <=> (j \in Live \/ j \in touched)
    BY <1>1, <1>4, <2>1, <2>3
  <2> QED BY <1>1, <1>2, <1>4, <2>1, <2>2, <2>3, <2>4, <2>5, <2>6, ZenonT(30) DEF UsersAct
<1>5. ASSUME NEW i \in Live, NEW n \in UserNames, UserRenames(i, n) PROVE UsersAct
  <2>1. Rename(i, n) /\ touched' = touched \cup {i} /\ Act
    BY <1>5 DEF UserRenames, Touch
  <2>2. WorldTyped
    BY <2>1, WorldType
  <2>3. /\ Live' = Live /\ at' = at /\ last' = last
        /\ \A j \in Live : name'[j] = IF j = i THEN n ELSE name[j]
    BY <2>1, AfterRename
  <2>4. Ids' = Ids
    BY <2>3 DEF Ids
  <2> QED BY <1>1, <1>2, <1>5, <2>1, <2>2, <2>3, <2>4 DEF UsersAct
<1>6. ASSUME NEW t \in Terminals, NEW i \in Live \cup {0}, Switch(t, i),
             touched' = touched \cup {t}, Act
      PROVE  UsersAct
  <2>1. WorldTyped
    BY <1>6, WorldType
  <2>2. /\ name' = name /\ Live' = Live /\ last' = last
        /\ \A u \in Terminals : u # t => at'[u] = at[u]
    BY <1>6, AfterSwitch
  <2>3. Ids' = Ids
    BY <2>2 DEF Ids
  <2> QED BY <1>1, <1>2, <1>6, <2>1, <2>2, <2>3 DEF UsersAct
<1>7. ASSUME NEW i \in Live, NEW t \in Terminals, UserAttaches(t, i) PROVE UsersAct
  BY <1>6, <1>7 DEF UserAttaches, Touch
<1>8. ASSUME NEW t \in Terminals, UserDetaches(t) PROVE UsersAct
  BY <1>6, <1>8 DEF UserDetaches, Touch
<1> QED BY <1>3, <1>4, <1>5, <1>7, <1>8 DEF UserStep

LEMMA TypeStep == TypeOK /\ ControlInv /\ [Next]_vars => TypeOK'
<1> SUFFICES ASSUME TypeOK, ControlInv, [Next]_vars PROVE TypeOK'
  OBVIOUS
<1>1. /\ up \subseteq {"client", "final"} /\ step \in Steps /\ k \in Nat
      /\ renamed \in Seq(Old) /\ listed \in Seq([terminal : Terminals, from : Ids])
      /\ created \in Seq(Ids \ Old) /\ DOMAIN built \subseteq Positions
      /\ {built[s] : s \in DOMAIN built} = ToSet(created)
      /\ made \in {0} \cup (Ids \ Old) /\ switched \subseteq DOMAIN listed
      /\ undone \in BOOLEAN /\ touched \subseteq Ids \cup Terminals
      /\ verdict \in {"none", "succeeded", "rolled back", "rollback incomplete"}
  BY DEF TypeOK
<1>2. ASSUME WorldTyped
      PROVE  /\ listed \in Seq([terminal : Terminals, from : Ids'])
             /\ created \in Seq(Ids' \ Old) /\ made \in {0} \cup (Ids' \ Old)
             /\ touched \subseteq Ids' \cup Terminals
  <2>1. Ids \subseteq Ids'
    BY <1>2 DEF WorldTyped
  <2>2. /\ [terminal : Terminals, from : Ids] \subseteq [terminal : Terminals, from : Ids']
        /\ Ids \ Old \subseteq Ids' \ Old
    BY <2>1
  <2>3. created \in Seq(Ids' \ Old)
    BY <1>1, <2>2, SeqMonotonic
  <2>4. listed \in Seq([terminal : Terminals, from : Ids'])
    BY <1>1, <2>2, SeqMonotonic
  <2> QED BY <1>1, <2>1, <2>3, <2>4
<1>3. ASSUME WorldTyped, Bounded, up' \subseteq up \cup {"final"}, step' \in Steps, k' \in Nat,
             renamed' \in Seq(Old), listed' \in Seq([terminal : Terminals, from : Ids']),
             created' \in Seq(Ids' \ Old), DOMAIN built' \subseteq Positions,
             {built'[s] : s \in DOMAIN built'} = ToSet(created'),
             made' \in {0} \cup (Ids' \ Old), switched' \subseteq DOMAIN listed',
             undone' \in BOOLEAN, touched' \subseteq Ids' \cup Terminals,
             verdict' \in {"none", "succeeded", "rolled back", "rollback incomplete"}
      PROVE  TypeOK'
  BY <1>1, <1>3 DEF TypeOK, WorldTyped, Bounded
<1>4. ASSUME WorldTyped, Bounded, up' \subseteq up \cup {"final"}, step' \in Steps, k' \in Nat,
             UNCHANGED <<renamed, listed, created, built, made, verdict>>,
             switched' \subseteq DOMAIN listed, undone' \in BOOLEAN,
             touched' \subseteq Ids' \cup Terminals
      PROVE  TypeOK'
  BY <1>1, <1>2, <1>3, <1>4
<1>5. Undo \subseteq Steps /\ Forward \subseteq Steps /\ Commit \subseteq Steps
  BY DEF Undo, Returning, Forward, Commit, Building, Complete, Switching, Steps
<1>6. CASE UserStep
  <2>1. UsersAct
    BY <1>6, UserOutcome
  <2> QED BY <1>1, <1>4, <2>1 DEF UsersAct, result
<1>7. ASSUME Bounded, WorldTyped, UNCHANGED Recorded, up' \subseteq up \cup {"final"},
             step' \in Steps, k' \in Nat
      PROVE  TypeOK'
  BY <1>1, <1>2, <1>4, <1>7 DEF Recorded
<1>8. Old \in SUBSET Nat /\ Positions \in SUBSET Nat /\ Terminals \cap Nat = {}
      /\ Deferred \in SUBSET Positions /\ Primaries \in SUBSET Positions
  BY Constants
<1>28. ASSUME NEW j \in Nat \ {0}, SwitchFrom(j) PROVE step' \in Steps /\ k' \in Nat
  <2>1. step' \in {"switch last", "switch", "verify"} /\ (k' = j \/ k' = 0)
    BY <1>28, SwitchSteps, Zenon
  <2>2. j \in Nat /\ 0 \in Nat
    OBVIOUS
  <2>3. step' \in Steps
    BY <2>1 DEF Steps
  <2>4. k' \in Nat
    BY <2>1, <2>2, Zenon
  <2> QED BY <2>3, <2>4
<1>9. ASSUME Bounded, Fails PROVE TypeOK'
  <2>1. WorldTyped
    BY <1>9, WorldType DEF Fails
  <2>2. step' \in Undo /\ k' \in Nat
    BY <1>9, UndoSteps DEF Fails
  <2> QED BY <1>5, <1>7, <1>9, <2>1, <2>2 DEF Fails
<1>10. ASSUME Bounded, Renames PROVE TypeOK'
  <2>1. WorldTyped
    BY <1>10, WorldType DEF Renames
  <2>2. renamed' \in Seq(Old)
    BY <1>1, <1>10, Positioned, AppendProperties DEF Renames
  <2>3. step' \in Steps
    BY <1>10 DEF Renames, Steps
  <2>4. k' \in Nat
    <3>1. k' \in Old \/ k' = 0
      BY <1>10 DEF Renames
    <3> QED BY <1>8, <3>1, PositionOrNone
  <2> QED BY <1>1, <1>2, <1>3, <1>10, <2>1, <2>2, <2>3, <2>4 DEF Renames
<1>11. ASSUME Bounded, Lists PROVE TypeOK'
  <2>1. WorldTyped
    BY <1>11, WorldType DEF Lists
  <2>2. listed' \in Seq([terminal : Terminals, from : Ids'])
    <3>1. Present \subseteq Terminals /\ Live \subseteq Ids /\ Ids \subseteq Ids'
      BY <2>1 DEF Present, TypeOK, WorldTyped
    <3>2. [terminal : Present, from : Live] \subseteq [terminal : Terminals, from : Ids']
      <4>1. ASSUME NEW r \in [terminal : Present, from : Live]
            PROVE  r \in [terminal : Terminals, from : Ids']
        BY <3>1
      <4> QED BY <4>1
    <3> QED BY <1>11, <3>2, SeqMonotonic DEF Lists
  <2>3. step' \in Steps /\ k' \in Nat
    BY <1>11 DEF Lists, Steps
  <2>4. switched = {}
    <3>1. step = "list"
      BY <1>11 DEF Lists
    <3>2. listed = <<>>
      BY <3>1, Positioned, Zenon
    <3>3. DOMAIN listed = {}
      BY <3>2
    <3>4. switched \subseteq DOMAIN listed
      BY <1>1, Zenon
    <3> QED BY <3>3, <3>4
  <2>5. switched' \subseteq DOMAIN listed' /\ touched' \subseteq Ids' \cup Terminals
    BY <1>2, <1>11, <2>1, <2>4 DEF Lists
  <2>6. /\ renamed' \in Seq(Old) /\ created' \in Seq(Ids' \ Old)
        /\ DOMAIN built' \subseteq Positions
        /\ {built'[s] : s \in DOMAIN built'} = ToSet(created')
        /\ made' \in {0} \cup (Ids' \ Old) /\ undone' \in BOOLEAN
        /\ verdict' \in {"none", "succeeded", "rolled back", "rollback incomplete"}
        /\ up' \subseteq up \cup {"final"}
    BY <1>1, <1>2, <1>11, <2>1 DEF Lists
  <2> QED BY <1>3, <1>11, <2>1, <2>2, <2>3, <2>5, <2>6
<1>12. ASSUME Bounded, Creates PROVE TypeOK'
  <2>1. WorldTyped /\ last' \in Ids' \ Old
    BY <1>12, WorldType, AfterOpen DEF Creates
  <2>2. step' \in Steps
    BY <1>12 DEF Creates, Steps
  <2> QED BY <1>1, <1>2, <1>3, <1>12, <2>1, <2>2 DEF Creates
<1>13. ASSUME Bounded, WorldTyped, NEW i \in Ids' \ Old, created' = Append(created, i),
              built' = Extend(built, k, i), k \in Positions, k \notin DOMAIN built,
              made' \in {0, made}, step' \in Steps, k' \in Nat,
              UNCHANGED <<renamed, listed, switched, undone, verdict, touched, up>>
       PROVE  TypeOK'
  <2>1. created' \in Seq(Ids' \ Old) /\ ToSet(created') = ToSet(created) \cup {i}
    BY <1>2, <1>13, Appended
  <2>2. DOMAIN built' = DOMAIN built \cup {k}
    BY <1>13 DEF Extend
  <2>3. built'[k] = i /\ \A s \in DOMAIN built : built'[s] = built[s]
    BY <1>13 DEF Extend
  <2>4. {built'[s] : s \in DOMAIN built'} = {built[s] : s \in DOMAIN built} \cup {i}
    BY <2>2, <2>3
  <2> QED BY <1>1, <1>2, <1>3, <1>13, <2>1, <2>2, <2>4
<1>14. ASSUME Bounded, Records PROVE TypeOK'
  <2>1. WorldTyped
    BY <1>14, WorldType DEF Records
  <2>2. made \in Ids' \ Old
    BY <1>1, <1>2, <1>14, <2>1, Positioned DEF Records
  <2>3. k \in Positions /\ k \notin DOMAIN built
    BY <1>14, Positioned DEF Records
  <2>4. step' \in Steps
    BY <1>14 DEF Records, Follows, Steps
  <2>5. k' \in Nat
    <3>1. (k' \in Primaries \/ k' = 0) /\ Primaries \in SUBSET Nat
      BY <1>8, <1>14 DEF Records, Follows
    <3> QED BY <3>1, PositionOrNone
  <2> QED BY <1>13, <1>14, <2>1, <2>2, <2>3, <2>4, <2>5 DEF Records
<1>15. ASSUME Bounded, Joins PROVE TypeOK'
  <2>1. WorldTyped /\ last' \in Ids' \ Old
    BY <1>15, WorldType, AfterOpen DEF Joins
  <2>2. k \in Positions /\ k \notin DOMAIN built
    BY <1>15, Positioned DEF Joins
  <2>3. step' \in Steps
    BY <1>15 DEF Joins, Follows, Steps
  <2>4. k' \in Nat
    <3>1. (k' \in Deferred \/ k' = 0) /\ Deferred \in SUBSET Nat
      BY <1>8, <1>15 DEF Joins, Follows
    <3> QED BY <3>1, PositionOrNone
  <2> QED BY <1>13, <1>15, <2>1, <2>2, <2>3, <2>4 DEF Joins
<1>16. ASSUME Bounded, Passes PROVE TypeOK'
  <2>1. WorldTyped
    BY <1>16, WorldType DEF Passes
  <2>2. step' \in Steps /\ k' \in Nat
    <3>1. 1 \in Nat \ {0} /\ k + 1 \in Nat \ {0}
      BY NextPosition
    <3>2. CASE SwitchFrom(1) \/ SwitchFrom(k + 1)
      BY <1>28, <3>1, <3>2
    <3>3. CASE ~(SwitchFrom(1) \/ SwitchFrom(k + 1))
      <4>1. step' \in Steps
        BY <1>16, <3>3 DEF Passes, Steps
      <4>2. k' \in Nat
        <5>1. (k' \in Deferred \/ k' = 0 \/ k' = 1) /\ Deferred \in SUBSET Nat
          BY <1>8, <1>16, <3>3 DEF Passes
        <5>2. 1 \in Nat
          OBVIOUS
        <5> QED BY <5>1, <5>2, PositionOrNone
      <4> QED BY <4>1, <4>2
    <3> QED BY <3>2, <3>3
  <2> QED BY <1>7, <1>16, <2>1, <2>2 DEF Passes
<1>17. ASSUME Bounded, Diverts PROVE TypeOK'
  <2>1. k \in DOMAIN listed /\ Terminal \in Terminals
    BY <1>17, RecordTypes DEF Diverts, ControlInv, Switching, Terminal
  <2>2. WorldTyped
    BY <1>17, <2>1, WorldType DEF Diverts
  <2>3. step' \in Steps /\ k' \in Nat
    BY <1>1, <1>17 DEF Diverts, Steps
  <2> QED BY <1>7, <1>17, <2>2, <2>3 DEF Diverts
<1>18. ASSUME Bounded, Switches PROVE TypeOK'
  <2>1. k \in DOMAIN listed /\ Terminal \in Terminals
    BY <1>18, RecordTypes DEF Switches, ControlInv, Switching, Terminal
  <2>2. WorldTyped
    BY <1>18, <2>1, WorldType DEF Switches
  <2>3. step' \in Steps /\ k' \in Nat
    <3>1. k + 1 \in Nat \ {0}
      BY NextPosition
    <3>2. SwitchFrom(k + 1)
      BY <1>18 DEF Switches
    <3> QED BY <1>28, <3>1, <3>2
  <2> QED BY <1>1, <1>2, <1>4, <1>18, <2>1, <2>2, <2>3 DEF Switches
<1>19. ASSUME Bounded, Retires PROVE TypeOK'
  <2>1. WorldTyped
    BY <1>19, WorldType DEF Retires
  <2>2. step' \in Steps
    BY <1>19 DEF Retires, Steps
  <2>3. k' \in Nat
    <3>1. k' \in Old \/ k' = 0
      BY <1>19 DEF Retires
    <3> QED BY <1>8, <3>1, PositionOrNone
  <2> QED BY <1>7, <1>19, <2>1, <2>2, <2>3 DEF Retires
<1>20. ASSUME Bounded, Returns PROVE TypeOK'
  <2>1. k \in DOMAIN listed /\ Terminal \in Terminals
    BY <1>20, RecordTypes DEF Returns, ControlInv, Returning, Terminal
  <2>2. WorldTyped
    BY <1>20, <2>1, WorldType DEF Returns
  <2>3. step' \in Steps /\ k' \in Nat
    <3>1. k + 1 \in Nat /\ BackFrom(k + 1)
      BY <1>20, NextPosition DEF Returns
    <3> QED BY <1>5, <3>1, UndoSteps
  <2> QED BY <1>7, <1>20, <2>2, <2>3 DEF Returns
<1>21. ASSUME Bounded, Doubts PROVE TypeOK'
  <2>1. k \in DOMAIN listed /\ Terminal \in Terminals
    BY <1>21, RecordTypes DEF Doubts, ControlInv, Returning, Terminal
  <2>2. WorldTyped
    BY <1>21, <2>1, WorldType DEF Doubts
  <2>3. step' \in Steps /\ k' \in Nat
    BY <1>1, <1>21 DEF Doubts, Steps
  <2> QED BY <1>7, <1>21, <2>2, <2>3 DEF Doubts
<1>22. ASSUME Bounded, Settles PROVE TypeOK'
  <2>1. WorldTyped
    BY <1>22, WorldType DEF Settles
  <2>2. step' \in Steps /\ k' \in Nat
    <3>1. k + 1 \in Nat /\ BackFrom(k + 1)
      BY <1>22, NextPosition DEF Settles
    <3> QED BY <1>5, <3>1, UndoSteps
  <2> QED BY <1>1, <1>2, <1>4, <1>22, <2>1, <2>2 DEF Settles
<1>23. ASSUME Bounded, Removes PROVE TypeOK'
  <2>1. WorldTyped
    BY <1>23, WorldType DEF Removes
  <2>2. k - 1 \in Nat
    BY <1>23, Positioned DEF Removes
  <2>3. step' \in Steps /\ k' \in Nat
    BY <1>5, <1>23, <2>2, UndoSteps DEF Removes
  <2> QED BY <1>1, <1>2, <1>4, <1>23, <2>1, <2>3 DEF Removes
<1>24. ASSUME Bounded, Restores PROVE TypeOK'
  <2>1. WorldTyped
    BY <1>24, WorldType DEF Restores
  <2>2. k - 1 \in Nat
    BY <1>24, Positioned DEF Restores
  <2>3. step' \in Steps /\ k' \in Nat
    BY <1>5, <1>24, <2>2, UndoSteps DEF Restores
  <2> QED BY <1>1, <1>2, <1>4, <1>24, <2>1, <2>3 DEF Restores
<1>25. CASE Report
  <2>1. WorldTyped /\ Bounded
    BY <1>25, WorldType DEF Report, TypeOK, Bounded
  <2>2. step' \in Steps /\ k' \in Nat
    BY <1>25 DEF Report, Goto, Steps
  <2> QED BY <1>1, <1>2, <1>3, <1>25, <2>1, <2>2 DEF Report
<1>26. CASE UNCHANGED vars
  BY <1>26 DEF vars, world, result, TypeOK, Live, Ids
<1>27. CASE RestoreStep
  BY <1>9, <1>10, <1>11, <1>12, <1>14, <1>15, <1>16, <1>17, <1>18, <1>19, <1>20, <1>21,
     <1>22, <1>23, <1>24, <1>25, <1>27, ForwardOutcome, BackwardOutcome
<1> QED BY <1>6, <1>26, <1>27 DEF Next
-----------------------------------------------------------------------------
\* The program counter.

\* A rollback goes on with something that it has recorded.
Undoing ==
    \/ step' \in Returning /\ k' \in DOMAIN listed /\ listed[k'].from \in Old
    \/ step' = "kill" /\ k' \in DOMAIN created
    \/ step' = "rename back" /\ k' \in DOMAIN renamed
    \/ step' = "report"

LEMMA UndoGoes ==
  ASSUME TypeOK, NEW i \in Nat,
         BackFrom(i) \/ (KillFrom(i) /\ i <= Len(created)) \/ (RenameFrom(i) /\ i <= Len(renamed))
  PROVE  Undoing
<1>1. /\ Len(created) \in Nat /\ DOMAIN created = 1 .. Len(created)
      /\ Len(renamed) \in Nat /\ DOMAIN renamed = 1 .. Len(renamed)
  BY RecordTypes
<1>2. ASSUME NEW n \in Nat, n <= Len(renamed), RenameFrom(n) PROVE Undoing
  <2>1. n > 0 => n \in DOMAIN renamed
    BY <1>1, <1>2
  <2>2. (step' = "rename back" /\ k' = n /\ n > 0) \/ step' = "report"
    BY <1>2 DEF RenameFrom, Goto
  <2> QED BY <2>1, <2>2 DEF Undoing
<1>3. ASSUME NEW n \in Nat, n <= Len(created), KillFrom(n) PROVE Undoing
  <2>1. \/ step' = "kill" /\ k' = n /\ n \in DOMAIN created
        \/ RenameFrom(Len(renamed))
    BY <1>1, <1>3 DEF KillFrom, Goto
  <2>2. CASE RenameFrom(Len(renamed))
    BY <1>1, <1>2, <2>2
  <2> QED BY <2>1, <2>2 DEF Undoing
<1>4. CASE BackFrom(i)
  <2>1. \/ step' = "switch back" /\ k' \in DOMAIN listed /\ listed[k'].from \in Old
        \/ KillFrom(Len(created))
    BY <1>4, BackGoes
  <2>2. CASE KillFrom(Len(created))
    BY <1>1, <1>3, <2>2
  <2> QED BY <2>1, <2>2 DEF Undoing, Returning
<1> QED BY <1>2, <1>3, <1>4

LEMMA ControlUndo ==
  ASSUME TypeOK, ControlInv, step \in Forward \cup Undo, Undoing,
         UNCHANGED <<renamed, listed, created, built, made, verdict>>
  PROVE  ControlInv'
<1>1. step' \in Undo /\ step' # "done" /\ step # "done"
  BY DEF Undoing, Undo, Returning, Forward, Building, Complete, Switching
<1>2. verdict' = "none"
  BY <1>1 DEF ControlInv
<1>3. \A i, j \in DOMAIN listed : listed[i].terminal = listed[j].terminal => i = j
  BY DEF ControlInv
<1>4. /\ step' \in Switching \cup Returning => k' \in DOMAIN listed
      /\ step' \in Returning => listed[k'].from \in Old
      /\ step' = "kill" => k' \in DOMAIN created
      /\ step' = "rename back" => k' \in DOMAIN renamed
  BY DEF Undoing, Returning, Switching
<1>5. ASSUME renamed = <<>>
      PROVE  step' = "report" /\ listed = <<>> /\ created = <<>> /\ made = 0
  <2>1. listed = <<>> /\ created = <<>> /\ made = 0
    BY <1>5 DEF ControlInv
  <2>2. DOMAIN listed = {} /\ DOMAIN created = {} /\ DOMAIN renamed = {}
    BY <1>5, <2>1
  <2> QED BY <2>1, <2>2 DEF Undoing
<1> QED BY <1>1, <1>2, <1>3, <1>4, <1>5
        DEF ControlInv, Undo, Returning, Building, Complete, Switching, Commit

LEMMA ControlStep == TypeOK /\ ControlInv /\ [Next]_vars => ControlInv'
<1> SUFFICES ASSUME TypeOK, ControlInv, [Next]_vars PROVE ControlInv'
  OBVIOUS
<1>1. /\ Old \in SUBSET Nat /\ Positions \in SUBSET Nat /\ 1 \in Old /\ 1 \in Primaries
      /\ Deferred \in SUBSET Positions /\ Primaries = Positions \ Deferred
      /\ \A j \in Primaries : 1 <= j
      /\ Primaries \in SUBSET Nat /\ Deferred \in SUBSET Nat
  BY Constants DEF Primaries
<1>2. k \in Nat /\ k + 1 \in Nat /\ k + 1 \in Nat \ {0} /\ 1 \in Nat \ {0}
  BY NextPosition
<1>3. \A i, j \in DOMAIN listed : listed[i].terminal = listed[j].terminal => i = j
  BY DEF ControlInv
<1>4. ASSUME step \in Forward
      PROVE  /\ step # "done" /\ verdict = "none"
             /\ step # "rename" => renamed # <<>>
  BY <1>4 DEF ControlInv, Forward, Building, Complete, Switching
\* A step from the list of the terminals on, as long as nothing failed.
<1>5. ASSUME step \in Forward, step # "rename", verdict' = verdict, renamed' = renamed,
             step' \in (Forward \ {"rename", "list"}) \cup Commit,
             step' \in Commit => k' \in Old \/ step' = "finish",
             step' # "move" => made' = 0, step' = "move" => made' # 0,
             step' \in {"create", "move"} =>
               k' \in Primaries /\ DOMAIN built' = {s \in Primaries : s < k'},
             step' = "windows" => DOMAIN built' = Primaries,
             step' = "group" =>
               k' \in Deferred /\ DOMAIN built' = Primaries \cup {s \in Deferred : s < k'},
             step' \in Complete \cup Commit => DOMAIN built' = Positions,
             step' \in Switching => k' \in DOMAIN listed',
             \A i, j \in DOMAIN listed' : listed'[i].terminal = listed'[j].terminal => i = j
      PROVE  ControlInv'
  BY <1>4, <1>5
     DEF ControlInv, Forward, Building, Complete, Switching, Commit, Returning
<1>6. ASSUME Fails PROVE ControlInv'
  <2>1. Undoing
    BY <1>6, <1>1, UndoGoes DEF Fails
  <2> QED BY <1>6, <2>1, ControlUndo DEF Fails, Recorded
<1>7. ASSUME Renames PROVE ControlInv'
  <2>1. renamed' # <<>>
    <3>1. k \in Old /\ renamed \in Seq(Old)
      BY <1>7, Positioned DEF Renames, TypeOK
    <3> QED BY <1>7, <3>1, Appended DEF Renames
  <2>2. listed = <<>> /\ created = <<>> /\ DOMAIN built = {} /\ made = 0 /\ verdict = "none"
    BY <1>7 DEF Renames, ControlInv
  <2> QED BY <1>3, <1>7, <2>1, <2>2
          DEF Renames, ControlInv, Building, Complete, Switching, Commit, Returning
<1>8. ASSUME Lists PROVE ControlInv'
  <2>1. DOMAIN built = {} /\ made = 0
    BY <1>8 DEF Lists, ControlInv
  <2>2. {s \in Primaries : s < 1} = {}
    BY <1>1, FirstInOrder
  <2>3. step \in Forward
    BY <1>8 DEF Lists, Forward
  <2>4. step' \in Forward /\ step' \notin Complete \cup Commit
    BY <1>8 DEF Lists, Forward, Building, Complete, Switching, Commit
  <2> QED BY <1>1, <1>5, <1>8, <2>1, <2>2, <2>3, <2>4 DEF Lists, Complete, Commit
<1>9. ASSUME Creates PROVE ControlInv'
  <2>1. made' # 0
    BY <1>9, AfterOpen DEF Creates
  <2>2. k \in Primaries /\ DOMAIN built = {s \in Primaries : s < k}
    BY <1>9 DEF Creates, ControlInv
  <2>3. step \in Forward
    BY <1>9 DEF Creates, Forward, Building
  <2>4. step' \in Forward /\ step' \notin Complete \cup Commit
    BY <1>9 DEF Creates, Forward, Building, Complete, Switching, Commit
  <2> QED BY <1>3, <1>5, <1>9, <2>1, <2>2, <2>3, <2>4 DEF Creates, Complete, Commit
<1>10. ASSUME Records PROVE ControlInv'
  <2>1. k \in Primaries /\ DOMAIN built = {s \in Primaries : s < k}
    BY <1>10 DEF Records, ControlInv
  <2>2. DOMAIN built' = {s \in Primaries : s < k} \cup {k}
    BY <1>10, <2>1 DEF Records, Extend
  <2>3. ASSUME step' = "create"
        PROVE  k' \in Primaries /\ DOMAIN built' = {s \in Primaries : s < k'}
    <3>1. k' \in Primaries /\ k' > k /\ \A m \in Primaries : m > k => k' <= m
      BY <1>10, <2>3 DEF Records, Follows
    <3> QED BY <1>1, <2>1, <2>2, <3>1, NextInOrder
  <2>4. ASSUME step' = "windows" PROVE DOMAIN built' = Primaries
    <3>1. \A m \in Primaries : m <= k
      BY <1>10, <2>4 DEF Records, Follows
    <3> QED BY <1>1, <2>1, <2>2, <3>1, LastInOrder
  <2>5. step \in Forward /\ step' \in {"create", "windows"}
    BY <1>10 DEF Records, Follows, Forward, Building
  <2>6. step' \in Forward /\ step' \notin Complete \cup Commit
    BY <2>5 DEF Forward, Building, Complete, Switching, Commit
  <2> QED BY <1>3, <1>5, <1>10, <2>3, <2>4, <2>5, <2>6 DEF Records, Complete, Commit
<1>11. ASSUME Joins PROVE ControlInv'
  <2>1. k \in Deferred /\ DOMAIN built = Primaries \cup {s \in Deferred : s < k} /\ made = 0
    BY <1>11 DEF Joins, ControlInv
  <2>2. DOMAIN built' = Primaries \cup {s \in Deferred : s < k} \cup {k}
    BY <1>11, <2>1 DEF Joins, Extend
  <2>3. ASSUME step' = "group"
        PROVE  k' \in Deferred /\ DOMAIN built' = Primaries \cup {s \in Deferred : s < k'}
    <3>1. k' \in Deferred /\ k' > k /\ \A m \in Deferred : m > k => k' <= m
      BY <1>11, <2>3 DEF Joins, Follows
    <3>2. {s \in Deferred : s < k'} = {s \in Deferred : s < k} \cup {k}
      BY <1>1, <2>1, <3>1, NextInOrder
    <3> QED BY <2>2, <3>1, <3>2
  <2>4. ASSUME step' = "connect" PROVE DOMAIN built' = Positions
    <3>1. \A m \in Deferred : m <= k
      BY <1>11, <2>4 DEF Joins, Follows
    <3>2. Deferred = {s \in Deferred : s < k} \cup {k}
      BY <1>1, <2>1, <3>1, LastInOrder
    <3> QED BY <1>1, <2>2, <3>2
  <2>5. step \in Forward /\ step' \in {"group", "connect"}
    BY <1>11 DEF Joins, Follows, Forward, Building
  <2>6. step' \in Forward /\ step' \notin Commit \cup Switching
    BY <2>5 DEF Forward, Building, Complete, Switching, Commit
  <2> QED BY <1>3, <1>5, <1>11, <2>1, <2>3, <2>4, <2>5, <2>6 DEF Joins, Complete, Commit
<1>12. ASSUME Passes PROVE ControlInv'
  <2>1. made = 0
    BY <1>12 DEF Passes, ControlInv, Complete, Switching
  <2>2. step = "windows" => DOMAIN built = Primaries
    BY DEF ControlInv
  <2>3. step \in Complete => DOMAIN built = Positions
    BY DEF ControlInv
  <2>4. step \in Forward /\ step # "rename"
    BY <1>12 DEF Passes, Forward, Building, Complete, Switching
  <2>5. CASE step = "windows" /\ step' = "group" /\ k' \in Deferred /\ \A j \in Deferred : k' <= j
    <3>1. {s \in Deferred : s < k'} = {}
      BY <1>1, <2>5, FirstInOrder
    <3>2. step' \in Forward /\ step' \notin Complete \cup Commit
      BY <2>5 DEF Forward, Building, Complete, Switching, Commit
    <3> QED BY <1>3, <1>5, <1>12, <2>1, <2>2, <2>4, <2>5, <3>1, <3>2
            DEF Passes, Recorded, Complete, Commit
  <2>6. CASE step = "windows" /\ step' = "connect" /\ Deferred = {}
    <3>1. DOMAIN built = Positions
      BY <1>1, <2>2, <2>6
    <3>2. step' \in Forward /\ step' \notin Switching \cup Commit
      BY <2>6 DEF Forward, Building, Complete, Switching, Commit
    <3> QED BY <1>3, <1>5, <1>12, <2>1, <2>4, <2>6, <3>1, <3>2 DEF Passes, Recorded, Commit
  <2>7. ASSUME step \in Complete, NEW j \in Nat \ {0}, SwitchFrom(j) PROVE ControlInv'
    <3>1. \/ step' \in {"switch last", "switch"} /\ k' = j /\ j \in DOMAIN listed
          \/ step' = "verify"
      BY <2>7, SwitchSteps
    <3>2. step' \in {"switch last", "switch", "verify"}
      BY <3>1
    <3>3. step' \in Forward /\ step' \notin Building \cup Commit
      BY <3>2 DEF Forward, Building, Complete, Switching, Commit
    <3>4. step' \in Switching => k' \in DOMAIN listed
      BY <3>1 DEF Switching
    <3> QED BY <1>3, <1>5, <1>12, <2>1, <2>3, <2>4, <2>7, <3>2, <3>3, <3>4
            DEF Passes, Recorded, Building, Commit
  <2>8. CASE step = "connect" /\ step' = "properties"
    <3>1. step' \in Forward /\ step' \notin Switching \cup Commit /\ step \in Complete
      BY <2>8 DEF Forward, Building, Complete, Switching, Commit
    <3> QED BY <1>3, <1>5, <1>12, <2>1, <2>3, <2>4, <2>8, <3>1 DEF Passes, Recorded, Commit
  <2>9. CASE step = "verify" /\ step' = "retire" /\ k' = 1
    <3>1. step' \in Commit /\ step' \notin Switching /\ step \in Complete
      BY <2>9 DEF Complete, Switching, Commit
    <3> QED BY <1>1, <1>3, <1>5, <1>12, <2>1, <2>3, <2>4, <2>9, <3>1 DEF Passes, Recorded, Commit
  <2> QED BY <1>2, <1>12, <2>5, <2>6, <2>7, <2>8, <2>9 DEF Passes, Complete, Switching
<1>13. ASSUME Diverts PROVE ControlInv'
  <2>1. step \in Switching /\ step \in Complete /\ step \in Forward /\ step # "rename"
    BY <1>13 DEF Diverts, Forward, Complete, Switching
  <2>2. made = 0 /\ DOMAIN built = Positions /\ k \in DOMAIN listed
    BY <2>1 DEF ControlInv
  <2>3. step' \in Forward /\ step' \notin Building \cup Commit
    BY <1>13 DEF Diverts, Forward, Building, Complete, Switching, Commit
  <2> QED BY <1>3, <1>5, <1>13, <2>1, <2>2, <2>3 DEF Diverts, Recorded, Building, Commit
<1>14. ASSUME Switches PROVE ControlInv'
  <2>1. step \in Complete /\ step \in Forward /\ step # "rename"
    BY <1>14 DEF Switches, Forward, Complete, Switching
  <2>2. made = 0 /\ DOMAIN built = Positions
    BY <2>1 DEF ControlInv
  <2>3. \/ step' \in {"switch last", "switch"} /\ k' \in DOMAIN listed
        \/ step' = "verify"
    BY <1>2, <1>14, SwitchSteps DEF Switches
  <2>4. step' \in Forward /\ step' \notin Building \cup Commit
    BY <2>3 DEF Forward, Building, Complete, Switching, Commit
  <2>5. step' \in Switching => k' \in DOMAIN listed
    BY <2>3 DEF Switching
  <2> QED BY <1>3, <1>5, <1>14, <2>1, <2>2, <2>3, <2>4, <2>5 DEF Switches, Building, Commit
<1>15. ASSUME Retires PROVE ControlInv'
  <2>1. made = 0 /\ DOMAIN built = Positions /\ verdict = "none" /\ renamed # <<>>
    BY <1>15 DEF Retires, ControlInv, Commit
  <2> QED BY <1>3, <1>15, <2>1
          DEF Retires, Recorded, ControlInv, Building, Complete, Switching, Commit, Returning
<1>16. ASSUME Returns PROVE ControlInv'
  <2>1. Undoing
    BY <1>2, <1>16, UndoGoes DEF Returns
  <2> QED BY <1>16, <2>1, ControlUndo DEF Returns, Recorded, Undo, Returning
<1>17. ASSUME Doubts PROVE ControlInv'
  <2>1. k \in DOMAIN listed /\ listed[k].from \in Old
    BY <1>17 DEF Doubts, ControlInv, Returning
  <2>2. Undoing
    BY <1>17, <2>1 DEF Doubts, Undoing, Returning
  <2> QED BY <1>17, <2>2, ControlUndo DEF Doubts, Recorded, Undo, Returning
<1>18. ASSUME Settles PROVE ControlInv'
  <2>1. Undoing
    BY <1>2, <1>18, UndoGoes DEF Settles
  <2> QED BY <1>18, <2>1, ControlUndo DEF Settles, Undo, Returning
<1>19. ASSUME Removes PROVE ControlInv'
  <2>1. k - 1 \in Nat /\ k - 1 <= Len(created)
    <3>1. k \in DOMAIN created /\ DOMAIN created = 1 .. Len(created) /\ Len(created) \in Nat
      BY <1>19, Positioned, RecordTypes DEF Removes
    <3> QED BY <3>1
  <2>2. Undoing
    BY <1>19, <2>1, UndoGoes DEF Removes
  <2> QED BY <1>19, <2>2, ControlUndo DEF Removes, Undo
<1>20. ASSUME Restores PROVE ControlInv'
  <2>1. k - 1 \in Nat /\ k - 1 <= Len(renamed)
    <3>1. k \in DOMAIN renamed /\ DOMAIN renamed = 1 .. Len(renamed) /\ Len(renamed) \in Nat
      BY <1>20, Positioned, RecordTypes DEF Restores
    <3> QED BY <3>1
  <2>2. Undoing
    BY <1>20, <2>1, UndoGoes DEF Restores
  <2> QED BY <1>20, <2>2, ControlUndo DEF Restores, Undo
<1>21. CASE Report
  <2>1. /\ step' = "done"
        /\ verdict' \in {"succeeded", "rolled back", "rollback incomplete"}
        /\ verdict' = "succeeded" => step = "finish"
        /\ step \in {"finish", "report"}
        /\ UNCHANGED <<renamed, listed, created, built, made>>
    BY <1>21 DEF Report, Goto
  <2>2. step = "finish" => DOMAIN built = Positions /\ renamed # <<>>
    BY DEF ControlInv, Commit
  <2>3. renamed = <<>> => listed = <<>> /\ created = <<>> /\ made = 0
    BY DEF ControlInv
  <2> QED BY <1>3, <2>1, <2>2, <2>3
          DEF ControlInv, Building, Complete, Switching, Commit, Returning
<1>22. CASE UserStep
  <2>1. UNCHANGED <<step, k, result>>
    BY <1>22, UserOutcome DEF UsersAct
  <2> QED BY <2>1, ZenonT(30) DEF ControlInv, result
<1>23. CASE UNCHANGED vars
  BY <1>23, ZenonT(30) DEF vars, world, result, ControlInv
<1>24. CASE RestoreStep
  BY <1>6, <1>7, <1>8, <1>9, <1>10, <1>11, <1>12, <1>13, <1>14, <1>15, <1>16, <1>17, <1>18,
     <1>19, <1>20, <1>21, <1>24, ForwardOutcome, BackwardOutcome
<1> QED BY <1>22, <1>23, <1>24 DEF Next

-----------------------------------------------------------------------------
\* The sessions.

\* What stood there still does, or a user has changed it.
Keeps(S) ==
    \A i \in S :
        /\ i \in touched => i \in touched'
        /\ i \in Live => i \in touched' \/ (i \in Live' /\ name'[i] = name[i])

LEMMA Spared ==
  ASSUME TypeOK, touched' = touched \/ touched' = touched \ Terminals
  PROVE  /\ UNCHANGED world => Keeps(Ids)
         /\ \A i, n : Rename(i, n) => Keeps(Ids \ {i}) /\ Live' = Live
         /\ \A n : NewSession(n) => Keeps(Ids)
         /\ \A i : Kill(i) => Keeps(Ids \ {i})
         /\ \A t \in Terminals : \A i \in Live \cup {0} : Switch(t, i) => Keeps(Ids)
<1>1. \A i \in Ids : i \in touched => i \in touched'
  BY IdsAreNumbers
<1>2. UNCHANGED world => Keeps(Ids)
  BY <1>1 DEF world, Keeps, Live
<1>3. ASSUME NEW i, NEW n, Rename(i, n) PROVE Keeps(Ids \ {i}) /\ Live' = Live
  BY <1>1, <1>3, AfterRename DEF Keeps
<1>4. ASSUME NEW n, NewSession(n) PROVE Keeps(Ids)
  <2>1. Live' = Live \cup {last'} /\ \A j \in Live : name'[j] = name[j]
    BY <1>4, AfterOpen
  <2> QED BY <1>1, <2>1 DEF Keeps
<1>5. ASSUME NEW i, Kill(i) PROVE Keeps(Ids \ {i})
  <2>1. Live' = Live \ {i} /\ \A j \in Live' : name'[j] = name[j]
    BY <1>5, AfterKill
  <2> QED BY <1>1, <2>1 DEF Keeps
<1>6. ASSUME NEW t \in Terminals, NEW i \in Live \cup {0}, Switch(t, i) PROVE Keeps(Ids)
  <2>1. name' = name /\ Live' = Live
    BY <1>6, AfterSwitch
  <2> QED BY <1>1, <2>1 DEF Keeps
<1> QED BY <1>2, <1>3, <1>4, <1>5, <1>6

LEMMA StandsOn ==
  ASSUME NEW S, Keeps(S), NEW i \in S, NEW n, Stands(i, n)
  PROVE  i \in touched' \/ (i \in Live' /\ name'[i] = n)
BY DEF Keeps, Stands

LEMMA OldStay ==
  ASSUME NEW S, Keeps(S), Old \subseteq S, OldWhole
  PROVE  OldWhole'
BY DEF Keeps, OldWhole, Kept, Old

LEMMA BuiltStep == TypeOK /\ ControlInv /\ BuiltInv /\ [Next]_vars => BuiltInv'
<1> SUFFICES ASSUME TypeOK, ControlInv, BuiltInv, [Next]_vars PROVE BuiltInv'
  OBVIOUS
<1>1. /\ Old \subseteq Ids /\ Live \subseteq Ids
      /\ \A s \in DOMAIN built : built[s] \in Ids \ Old
  BY RecordTypes DEF TypeOK
<1>2. /\ step \notin Commit /\ verdict # "succeeded" => OldWhole
      /\ step \in Forward \cup Commit \/ verdict = "succeeded" =>
            BuiltStands
      /\ step = "move" => Stands(made, Saved[k])
  BY DEF BuiltInv
<1>3. step # "done" => verdict = "none"
  BY DEF ControlInv
\* What was built stays as long as the step spares it.
<1>4. ASSUME NEW S \in SUBSET Ids, Keeps(S), UNCHANGED built, Ids \ Old \subseteq S,
             \/ step \in Forward \cup Commit
             \/ verdict = "succeeded"
      PROVE  BuiltStands'
  <2>1. ASSUME NEW s \in DOMAIN built
        PROVE  built[s] \in touched' \/ (built[s] \in Live' /\ name'[built[s]] = Saved[s])
    BY <1>1, <1>2, <1>4, StandsOn DEF BuiltStands
  <2> QED BY <1>4, <2>1 DEF Stands, BuiltStands
\* A step before the commit phase that creates nothing.
<1>5. ASSUME step \in Forward, UNCHANGED <<built, verdict>>, Keeps(Ids), step' # "move"
      PROVE  BuiltInv'
  <2>1. OldWhole
    BY <1>2, <1>3, <1>5 DEF Forward, Building, Complete, Switching, Commit
  <2>2. OldWhole'
    BY <1>1, <1>5, <2>1, OldStay
  <2>3. BuiltStands'
    BY <1>4, <1>5
  <2> QED BY <1>5, <2>2, <2>3 DEF BuiltInv
\* A step of the rollback.
<1>6. ASSUME OldWhole', step' \in Undo, UNCHANGED verdict, verdict = "none" PROVE BuiltInv'
  BY <1>6 DEF BuiltInv, Undo, Returning, Forward, Commit, Building, Complete, Switching
<1>7. ASSUME Fails PROVE BuiltInv'
  <2>1. OldWhole /\ verdict = "none"
    BY <1>2, <1>3, <1>7 DEF Fails, Forward, Building, Complete, Switching, Commit
  <2>2. step' \in Undo
    BY <1>7, UndoSteps DEF Fails
  <2>3. touched' = touched /\ verdict' = verdict
    BY <1>7 DEF Fails, Recorded
  <2>4. ASSUME UNCHANGED world PROVE OldWhole'
    BY <1>1, <2>1, <2>3, <2>4, Spared, OldStay
  <2>5. ASSUME Rename(k, Backup[k]) PROVE OldWhole'
    <3>1. Live' = Live
      BY <2>5, AfterRename
    <3> QED BY <2>1, <2>3, <3>1 DEF OldWhole, Kept, Old
  <2>6. ASSUME NewSession(Saved[k]) PROVE OldWhole'
    <3>1. Keeps(Ids)
      BY <2>3, <2>6, Spared
    <3> QED BY <1>1, <2>1, <3>1, OldStay
  <2>7. OldWhole'
    BY <1>7, <2>4, <2>5, <2>6 DEF Fails
  <2> QED BY <1>6, <2>1, <2>2, <2>3, <2>7
<1>8. ASSUME Renames PROVE BuiltInv'
  <2>1. OldWhole /\ DOMAIN built = {}
    BY <1>2, <1>3, <1>8, Positioned DEF Renames, Commit
  <2>2. Live' = Live
    BY <1>8, AfterRename DEF Renames
  <2>3. OldWhole'
    BY <1>8, <2>1, <2>2 DEF OldWhole, Kept, Old, Renames
  <2> QED BY <1>8, <2>1, <2>3 DEF Renames, BuiltInv, BuiltStands
<1>9. ASSUME Lists PROVE BuiltInv'
  <2>1. Keeps(Ids)
    BY <1>9, Spared DEF Lists
  <2>2. step \in Forward /\ step' # "move"
    BY <1>9 DEF Lists, Forward
  <2> QED BY <1>5, <1>9, <2>1, <2>2 DEF Lists
\* A new session.
<1>10. ASSUME step \in Forward, NewSession(Saved[k]), touched' = touched, verdict' = verdict
       PROVE  /\ OldWhole'
              /\ Keeps(Ids)
              /\ last' \in Live' /\ name'[last'] = Saved[k]
  <2>1. OldWhole
    BY <1>2, <1>3, <1>10 DEF Forward, Building, Complete, Switching, Commit
  <2>2. Keeps(Ids)
    BY <1>10, Spared
  <2>3. last' \in Live' /\ name'[last'] = Saved[k]
    BY <1>10, AfterOpen
  <2> QED BY <1>1, <2>1, <2>2, <2>3, OldStay
<1>11. ASSUME Creates PROVE BuiltInv'
  <2>1. step \in Forward
    BY <1>11 DEF Creates, Forward, Building
  <2>2. OldWhole' /\ Keeps(Ids) /\ last' \in Live' /\ name'[last'] = Saved[k]
    BY <1>10, <1>11, <2>1 DEF Creates
  <2>3. BuiltStands'
    BY <1>4, <1>11, <2>1, <2>2 DEF Creates
  <2>4. Stands(made, Saved[k])'
    BY <1>11, <2>2 DEF Creates, Stands
  <2> QED BY <2>2, <2>3, <2>4 DEF BuiltInv
\* It becomes one of those that were built.
<1>12. ASSUME NEW i, built' = Extend(built, k, i), step \in Forward, Keeps(Ids),
              i \in touched' \/ (i \in Live' /\ name'[i] = Saved[k]),
              OldWhole', step' # "move"
       PROVE  BuiltInv'
  <2>1. /\ DOMAIN built' = DOMAIN built \cup {k} /\ built'[k] = i
        /\ \A s \in DOMAIN built : s # k => built'[s] = built[s]
    BY <1>12 DEF Extend
  <2>2. ASSUME NEW s \in DOMAIN built
        PROVE  built[s] \in touched' \/ (built[s] \in Live' /\ name'[built[s]] = Saved[s])
    BY <1>1, <1>2, <1>12, StandsOn DEF BuiltStands
  <2>3. BuiltStands'
    BY <1>12, <2>1, <2>2 DEF Stands, BuiltStands
  <2> QED BY <1>12, <2>3 DEF BuiltInv
<1>13. ASSUME Records PROVE BuiltInv'
  <2>1. step \in Forward /\ step' # "move"
    BY <1>13 DEF Records, Follows, Forward, Building
  <2>2. Keeps(Ids)
    BY <1>13, Spared DEF Records
  <2>3. OldWhole
    BY <1>2, <1>3, <1>13 DEF Records, Commit
  <2>4. OldWhole'
    BY <1>1, <2>2, <2>3, OldStay
  <2>5. Stands(made, Saved[k]) /\ made \in Ids
    BY <1>1, <1>2, <1>13 DEF Records
  <2>6. made \in touched' \/ (made \in Live' /\ name'[made] = Saved[k])
    BY <2>2, <2>5, StandsOn
  <2> QED BY <1>12, <1>13, <2>1, <2>2, <2>4, <2>6 DEF Records
<1>14. ASSUME Joins PROVE BuiltInv'
  <2>1. step \in Forward /\ step' # "move"
    BY <1>14 DEF Joins, Follows, Forward, Building
  <2>2. OldWhole' /\ Keeps(Ids) /\ last' \in Live' /\ name'[last'] = Saved[k]
    BY <1>10, <1>14, <2>1 DEF Joins
  <2> QED BY <1>12, <1>14, <2>1, <2>2 DEF Joins
<1>15. ASSUME Passes PROVE BuiltInv'
  <2>1. Keeps(Ids) /\ UNCHANGED <<built, verdict>>
    BY <1>15, Spared DEF Passes, Recorded
  <2>2. step \in Forward
    BY <1>15 DEF Passes, Forward, Building, Complete, Switching
  <2>3. step' # "move"
    BY <1>15 DEF Passes, SwitchFrom, Goto
  <2> QED BY <1>5, <2>1, <2>2, <2>3
<1>16. ASSUME k \in DOMAIN listed, NEW i \in Live, UNCHANGED world \/ Switch(Terminal, i),
              touched' = touched
       PROVE  Keeps(Ids)
  <2>1. Terminal \in Terminals
    BY <1>16, RecordTypes DEF Terminal
  <2> QED BY <1>16, <2>1, Spared
<1>17. ASSUME Diverts PROVE BuiltInv'
  <2>1. k \in DOMAIN listed /\ step \in Forward /\ step' # "move"
    BY <1>17, Positioned DEF Diverts, Forward, Complete, Switching
  <2>2. touched' = touched /\ UNCHANGED <<built, verdict>>
    BY <1>17 DEF Diverts, Recorded
  <2>3. Keeps(Ids)
    <3>1. CASE UNCHANGED world
      BY <2>2, <3>1, Spared
    <3>2. CASE \E i \in Live : Switch(Terminal, i)
      BY <1>16, <2>1, <2>2, <3>2
    <3> QED BY <1>17, <3>1, <3>2 DEF Diverts
  <2> QED BY <1>5, <2>1, <2>2, <2>3
<1>18. ASSUME Switches PROVE BuiltInv'
  <2>1. k \in DOMAIN listed /\ step \in Forward
    BY <1>18, Positioned DEF Switches, Forward, Complete, Switching
  <2>2. step' # "move"
    BY <1>18 DEF Switches, SwitchFrom, Goto
  <2>3. Keeps(Ids)
    BY <1>16, <1>18, <2>1 DEF Switches
  <2> QED BY <1>5, <1>18, <2>1, <2>2, <2>3 DEF Switches
<1>19. ASSUME Retires PROVE BuiltInv'
  <2>1. touched' = touched /\ built' = built /\ k \in Old
    BY <1>19, Positioned DEF Retires, Recorded
  <2>2. Keeps(Ids \ {k})
    <3>1. CASE UNCHANGED world
      BY <2>1, <3>1, Spared DEF Keeps
    <3>2. CASE Kill(k)
      BY <2>1, <3>2, Spared
    <3> QED BY <1>19, <3>1, <3>2 DEF Retires
  <2>3. step \in Commit /\ Ids \ Old \subseteq Ids \ {k}
    BY <1>19, <2>1 DEF Retires, Commit
  <2>4. BuiltStands'
    BY <1>4, <2>1, <2>2, <2>3
  <2> QED BY <1>19, <2>4 DEF Retires, BuiltInv, Commit
\* What the rollback does to the sessions.
<1>20. ASSUME step \in Undo, step' \in Undo, touched' = touched, verdict' = verdict,
              \/ UNCHANGED world
              \/ \E t \in Terminals : \E i \in Live : Switch(t, i)
              \/ \E i \in Ids \ Old : Kill(i)
              \/ \E i, n : Rename(i, n)
       PROVE  BuiltInv'
  <2>1. OldWhole /\ verdict = "none"
    BY <1>2, <1>3, <1>20 DEF Undo, Returning, Commit
  <2>2. CASE UNCHANGED world
    <3>1. Keeps(Ids)
      BY <1>20, <2>2, Spared
    <3> QED BY <1>1, <1>6, <1>20, <2>1, <3>1, OldStay
  <2>3. ASSUME NEW t \in Terminals, NEW i \in Live, Switch(t, i) PROVE BuiltInv'
    <3>1. Keeps(Ids)
      BY <1>20, <2>3, Spared
    <3> QED BY <1>1, <1>6, <1>20, <2>1, <3>1, OldStay
  <2>4. ASSUME NEW i \in Ids \ Old, Kill(i) PROVE BuiltInv'
    <3>1. Keeps(Ids \ {i}) /\ Old \subseteq Ids \ {i}
      BY <1>1, <1>20, <2>4, Spared
    <3> QED BY <1>6, <1>20, <2>1, <3>1, OldStay
  <2>5. ASSUME NEW i, NEW n, Rename(i, n) PROVE BuiltInv'
    <3>1. Live' = Live
      BY <2>5, AfterRename
    <3>2. OldWhole'
      BY <1>20, <2>1, <3>1 DEF OldWhole, Kept, Old
    <3> QED BY <1>6, <1>20, <2>1, <3>2
  <2> QED BY <1>20, <2>2, <2>3, <2>4, <2>5
<1>21. ASSUME Returns PROVE BuiltInv'
  <2>1. Terminal \in Terminals
    BY <1>21, Positioned, RecordTypes DEF Returns, Returning, Terminal
  <2>2. step' \in Undo /\ step \in Undo
    BY <1>21, NextPosition, UndoSteps DEF Returns, Undo, Returning
  <2> QED BY <1>20, <1>21, <2>1, <2>2 DEF Returns, Recorded
<1>22. ASSUME Doubts PROVE BuiltInv'
  <2>1. Terminal \in Terminals
    BY <1>22, Positioned, RecordTypes DEF Doubts, Returning, Terminal
  <2>2. step' \in Undo /\ step \in Undo
    BY <1>22 DEF Doubts, Undo, Returning
  <2> QED BY <1>20, <1>22, <2>1, <2>2 DEF Doubts, Recorded
<1>23. ASSUME Settles PROVE BuiltInv'
  <2>1. step' \in Undo /\ step \in Undo
    BY <1>23, NextPosition, UndoSteps DEF Settles, Undo, Returning
  <2> QED BY <1>20, <1>23, <2>1 DEF Settles
<1>24. ASSUME Removes PROVE BuiltInv'
  <2>1. created[k] \in Ids \ Old
    BY <1>24, Positioned, RecordTypes DEF Removes
  <2>2. k - 1 \in Nat
    BY <1>24, Positioned DEF Removes
  <2>3. step' \in Undo /\ step \in Undo
    BY <1>24, <2>2, UndoSteps DEF Removes, Undo
  <2> QED BY <1>20, <1>24, <2>1, <2>3 DEF Removes
<1>25. ASSUME Restores PROVE BuiltInv'
  <2>1. k - 1 \in Nat
    BY <1>25, Positioned DEF Restores
  <2>2. step' \in Undo /\ step \in Undo
    BY <1>25, <2>1, UndoSteps DEF Restores, Undo
  <2> QED BY <1>20, <1>25, <2>2 DEF Restores
<1>26. CASE Report
  <2>1. /\ step' = "done" /\ UNCHANGED <<world, built, touched>>
        /\ verdict' = "succeeded" <=> step = "finish"
        /\ step \in {"finish", "report"}
    BY <1>26 DEF Report, Goto
  <2>2. Keeps(Ids)
    BY <2>1, Spared
  <2>3. verdict' = "succeeded" => BuiltStands'
    BY <1>4, <2>1, <2>2 DEF Commit
  <2>4. verdict' # "succeeded" => OldWhole'
    BY <1>1, <1>2, <1>3, <2>1, <2>2, OldStay DEF Commit
  <2> QED BY <2>1, <2>3, <2>4
          DEF BuiltInv, Forward, Commit, Building, Complete, Switching
<1>27. CASE UserStep
  <2>1. UsersAct
    BY <1>27, UserOutcome
  <2>2. Keeps(Ids) /\ UNCHANGED <<step, k, built, made, verdict>>
    BY <1>1, <2>1 DEF UsersAct, Keeps, result
  <2>3. step \in Forward \cup Commit \/ verdict = "succeeded" =>
          BuiltStands'
    BY <1>4, <2>2
  <2>4. step \notin Commit /\ verdict # "succeeded" => OldWhole'
    BY <1>1, <1>2, <2>2, OldStay
  <2>5. step = "move" => Stands(made, Saved[k])'
    <3>1. made \in Ids \/ made = 0
      BY DEF TypeOK
    <3>2. ASSUME step = "move" PROVE made # 0 /\ Stands(made, Saved[k])
      BY <1>2, <3>2 DEF ControlInv
    <3> QED BY <2>2, <3>1, <3>2, StandsOn DEF Stands
  <2> QED BY <2>2, <2>3, <2>4, <2>5 DEF BuiltInv
<1>28. CASE UNCHANGED vars
  BY <1>28 DEF vars, world, result, BuiltInv, BuiltStands, OldWhole, Kept, Old, Live, Stands
<1>29. CASE RestoreStep
  BY <1>7, <1>8, <1>9, <1>11, <1>13, <1>14, <1>15, <1>17, <1>18, <1>19, <1>21, <1>22, <1>23,
     <1>24, <1>25, <1>26, <1>29, ForwardOutcome, BackwardOutcome
<1> QED BY <1>27, <1>28, <1>29 DEF Next

-----------------------------------------------------------------------------
\* The terminals.

\* A terminal that is not at the same session as before was moved by its user.
Rests(T) ==
    \A t \in T : /\ t \in touched => t \in touched'
                 /\ t \in touched' \/ at'[t] = at[t]

LEMMA Resting ==
  ASSUME TypeOK, touched' = touched
  PROVE  /\ UNCHANGED world => Rests(Terminals)
         /\ \A i, n : Rename(i, n) => Rests(Terminals)
         /\ \A n : NewSession(n) => Rests(Terminals)
         /\ \A i : Kill(i) => Rests({t \in Terminals : at[t] # i})
<1>1. UNCHANGED world => Rests(Terminals)
  BY DEF world, Rests
<1>2. ASSUME NEW i, NEW n, Rename(i, n) PROVE Rests(Terminals)
  BY <1>2, AfterRename DEF Rests
<1>3. ASSUME NEW n, NewSession(n) PROVE Rests(Terminals)
  BY <1>3, AfterOpen DEF Rests
<1>4. ASSUME NEW i, Kill(i) PROVE Rests({t \in Terminals : at[t] # i})
  BY <1>4, AfterKill DEF Rests
<1> QED BY <1>1, <1>2, <1>3, <1>4

\* When one terminal is switched the others stay.
LEMMA OthersRest ==
  ASSUME TypeOK, ControlInv, k \in DOMAIN listed, NEW i \in Live, Switch(Terminal, i)
  PROVE  /\ at'[listed[k].terminal] = i
         /\ \A j \in DOMAIN listed :
               j # k => at'[listed[j].terminal] = at[listed[j].terminal]
<1>1. Terminal \in Terminals /\ \A j \in DOMAIN listed : listed[j].terminal \in Terminals
  BY RecordTypes DEF Terminal
<1>2. \A j \in DOMAIN listed : j # k => listed[j].terminal # Terminal
  BY DEF ControlInv, Terminal
<1>3. at'[Terminal] = i /\ \A u \in Terminals : u # Terminal => at'[u] = at[u]
  BY <1>1, AfterSwitch
<1> QED BY <1>1, <1>2, <1>3 DEF Terminal

\* A terminal is sent to a session of the snapshot.
LEMMA Goals ==
  ASSUME NEW j \in DOMAIN listed
  PROVE  Goal(j) \in Positions
<1>1. \A q \in DOMAIN Preferred : Preferred[q].to \in Positions
  <2>1. \A p \in ToSet(Preferred) : p.to \in 1 .. Len(Saved)
    BY RestoreAssumption DEF RestoreAssumption
  <2>2. \A q \in DOMAIN Preferred : Preferred[q] \in ToSet(Preferred)
    BY DEF ToSet
  <2> QED BY <2>1, <2>2 DEF Positions
<1>2. Namesakes(j) # {} => Min(Namesakes(j)) \in Namesakes(j)
  <2>1. Namesakes(j) \in SUBSET Nat
    BY Constants DEF Namesakes
  <2> QED BY <2>1, LeastNumber
<1>3. Namesakes(j) \subseteq Positions /\ 1 \in Positions
  BY Constants DEF Namesakes
<1> QED BY <1>1, <1>2, <1>3 DEF Goal

Open(j) == listed[j].terminal \in touched \/ at[listed[j].terminal] # 0

LEMMA TerminalStep == TypeOK /\ ControlInv /\ TerminalInv /\ [Next]_vars => TerminalInv'
<1> SUFFICES ASSUME TypeOK, ControlInv, TerminalInv, [Next]_vars PROVE TerminalInv'
  OBVIOUS
<1>1. /\ DOMAIN listed = 1 .. Len(listed) /\ Len(listed) \in Nat /\ DOMAIN listed \in SUBSET Nat
      /\ \A j \in DOMAIN listed : listed[j].terminal \in Terminals
      /\ Live \in SUBSET Nat /\ 0 \notin Live /\ k \in Nat
  BY RecordTypes, IdsAreNumbers DEF TypeOK
<1>2. /\ step \in Forward \cup Returning => \A j \in DOMAIN listed : Open(j)
      /\ step \in Switching => \A j \in DOMAIN listed : j < k => Arrived(j)
      /\ step \in {"verify"} \cup Commit \/ verdict = "succeeded" =>
            \A j \in DOMAIN listed : Arrived(j)
  BY DEF TerminalInv, Open
\* The same terminals and goals after a step that leaves the lists alone.
<1>3. ASSUME UNCHANGED <<listed, built>>,
             step' \in Forward \cup Returning => \A j \in DOMAIN listed :
               listed[j].terminal \in touched' \/ at'[listed[j].terminal] # 0,
             step' \in Switching => \A j \in DOMAIN listed : j < k' =>
               listed[j].terminal \in touched' \/ at'[listed[j].terminal] = built[Goal(j)],
             step' \in {"verify"} \cup Commit \/ verdict' = "succeeded" =>
               \A j \in DOMAIN listed :
                 listed[j].terminal \in touched' \/ at'[listed[j].terminal] = built[Goal(j)]
      PROVE  TerminalInv'
  <2>1. \A j \in DOMAIN listed : Goal(j)' = Goal(j)
    BY <1>3 DEF Goal, Namesakes, Positions, Old
  <2>2. \A j \in DOMAIN listed : Arrived(j)' <=>
          (listed[j].terminal \in touched' \/ at'[listed[j].terminal] = built[Goal(j)])
    BY <1>3, <2>1 DEF Arrived
  <2> HIDE DEF Arrived
  <2> QED BY <1>3, <2>2 DEF TerminalInv
<1>4. ASSUME Rests(Terminals), NEW j \in DOMAIN listed
      PROVE  /\ Open(j) => listed[j].terminal \in touched' \/ at'[listed[j].terminal] # 0
             /\ Arrived(j) =>
                  listed[j].terminal \in touched' \/ at'[listed[j].terminal] = built[Goal(j)]
  BY <1>1, <1>4 DEF Rests, Open, Arrived
\* Before any terminal is switched.
<1>5. ASSUME step' \notin Switching, step' \notin {"verify"} \cup Commit, verdict' # "succeeded",
             step' \in Forward \cup Returning => \A j \in DOMAIN listed' :
               listed'[j].terminal \in touched' \/ at'[listed'[j].terminal] # 0
      PROVE  TerminalInv'
  BY <1>5 DEF TerminalInv
<1>6. step # "done" => verdict = "none"
  BY DEF ControlInv
<1>7. ASSUME Fails PROVE TerminalInv'
  <2>1. step' \in Undo
    BY <1>7, UndoSteps DEF Fails
  <2>2. Rests(Terminals) /\ listed' = listed /\ verdict' # "succeeded"
    BY <1>6, <1>7, Resting DEF Fails, Recorded, Forward, Building, Complete, Switching
  <2>3. \A j \in DOMAIN listed : Open(j)
    BY <1>2, <1>7 DEF Fails
  <2>4. step' \notin Switching /\ step' \notin {"verify"} \cup Commit
    BY <2>1 DEF Undo, Returning, Switching, Commit
  <2> QED BY <1>4, <1>5, <2>2, <2>3, <2>4
<1>8. ASSUME Renames PROVE TerminalInv'
  <2>1. DOMAIN listed' = {}
    BY <1>8, Positioned DEF Renames
  <2>2. step' \notin Switching /\ step' \notin {"verify"} \cup Commit /\ verdict' # "succeeded"
    BY <1>6, <1>8 DEF Renames, Switching, Commit
  <2> QED BY <1>5, <2>1, <2>2
<1>9. ASSUME Lists PROVE TerminalInv'
  <2>1. step' \notin Switching /\ step' \notin {"verify"} \cup Commit /\ verdict' # "succeeded"
    BY <1>6, <1>9 DEF Lists, Switching, Commit
  <2>2. ASSUME NEW j \in DOMAIN listed' PROVE at'[listed'[j].terminal] # 0
    <3>1. listed'[j] \in [terminal : Present, from : Live]
      <4>1. listed' \in Seq([terminal : Present, from : Live])
        BY <1>9 DEF Lists
      <4>2. DOMAIN listed' = 1 .. Len(listed')
        BY <4>1
      <4> QED BY <4>1, <4>2, ElementOfSeq
    <3>2. at[listed'[j].terminal] = listed'[j].from /\ at' = at
      BY <1>9 DEF Lists, world
    <3> QED BY <1>1, <3>1, <3>2
  <2> QED BY <1>5, <2>1, <2>2
\* While the sessions are built.
<1>10. ASSUME step \in Forward, Rests(Terminals), listed' = listed, verdict' = verdict,
              step' \notin Switching \cup {"verify"} \cup Commit
       PROVE  TerminalInv'
  <2>1. verdict' # "succeeded"
    BY <1>6, <1>10 DEF Forward, Building, Complete, Switching
  <2>2. \A j \in DOMAIN listed : Open(j)
    BY <1>2, <1>10
  <2> QED BY <1>4, <1>5, <1>10, <2>1, <2>2
<1>11. ASSUME Creates PROVE TerminalInv'
  <2>1. Rests(Terminals)
    BY <1>11, Resting DEF Creates
  <2>2. step \in Forward /\ step' \notin Switching \cup {"verify"} \cup Commit
    BY <1>11 DEF Creates, Forward, Building, Switching, Commit
  <2> QED BY <1>10, <1>11, <2>1, <2>2 DEF Creates
<1>12. ASSUME Records PROVE TerminalInv'
  <2>1. Rests(Terminals)
    BY <1>12, Resting DEF Records
  <2>2. step \in Forward /\ step' \notin Switching \cup {"verify"} \cup Commit
    BY <1>12 DEF Records, Follows, Forward, Building, Switching, Commit
  <2> QED BY <1>10, <1>12, <2>1, <2>2 DEF Records
<1>13. ASSUME Joins PROVE TerminalInv'
  <2>1. Rests(Terminals)
    BY <1>13, Resting DEF Joins
  <2>2. step \in Forward /\ step' \notin Switching \cup {"verify"} \cup Commit
    BY <1>13 DEF Joins, Follows, Forward, Building, Switching, Commit
  <2> QED BY <1>10, <1>13, <2>1, <2>2 DEF Joins
\* The terminals from the first one to the last.
<1>14. ASSUME NEW n \in Nat \ {0}, SwitchFrom(n), UNCHANGED <<listed, built, verdict>>,
              verdict = "none",
              \A j \in DOMAIN listed :
                listed[j].terminal \in touched' \/ at'[listed[j].terminal] # 0,
              \A j \in DOMAIN listed : j < n =>
                listed[j].terminal \in touched' \/ at'[listed[j].terminal] = built[Goal(j)]
       PROVE  TerminalInv'
  <2>1. \/ step' \in {"switch last", "switch"} /\ k' = n
        \/ step' = "verify" /\ n > Len(listed)
    BY <1>14, SwitchSteps
  <2>2. n > Len(listed) => \A j \in DOMAIN listed : j < n
    BY <1>1
  <2> QED BY <1>3, <1>14, <2>1, <2>2 DEF Switching, Commit
<1>15. ASSUME Passes PROVE TerminalInv'
  <2>1. Rests(Terminals) /\ UNCHANGED <<listed, built, verdict>>
    BY <1>15, Resting DEF Passes, Recorded
  <2>2. step \in Forward /\ step # "done"
    BY <1>15 DEF Passes, Forward, Building, Complete, Switching
  <2>3. \A j \in DOMAIN listed : Open(j)
    BY <1>2, <2>2
  <2>4. CASE step' \in {"group", "connect", "properties"}
    <3>1. step' \notin Switching \cup {"verify"} \cup Commit
      BY <2>4 DEF Switching, Commit
    <3> QED BY <1>10, <2>1, <2>2, <3>1
  <2>5. CASE SwitchFrom(1)
    <3>1. ~ \E j \in DOMAIN listed : j < 1
      BY <1>1
    <3> QED BY <1>4, <1>6, <1>14, <2>1, <2>2, <2>3, <2>5, <3>1
  <2>6. CASE step = "inventory" /\ at[Terminal] = 0 /\ SwitchFrom(k + 1)
    <3>1. k \in DOMAIN listed /\ step \in Switching
      BY <2>6, Positioned DEF Switching
    <3>2. Arrived(k)
      BY <2>3, <2>6, <3>1 DEF Open, Arrived, Terminal
    <3>3. \A j \in DOMAIN listed : j < k + 1 => Arrived(j)
      <4>1. \A j \in DOMAIN listed : j < k + 1 => j < k \/ j = k
        BY <1>1
      <4> QED BY <1>2, <3>1, <3>2, <4>1
    <3>4. k + 1 \in Nat \ {0}
      BY NextPosition
    <3> QED BY <1>4, <1>6, <1>14, <2>1, <2>2, <2>3, <2>6, <3>3, <3>4
  <2>7. CASE step = "verify" /\ step' = "retire"
    <3>1. \A j \in DOMAIN listed : Arrived(j)
      BY <1>2, <2>7
    <3>2. step' \notin Switching /\ step' \notin Forward \cup Returning
      BY <2>7 DEF Switching, Forward, Building, Complete, Returning
    <3> QED BY <1>3, <1>4, <2>1, <3>1, <3>2
  <2> QED BY <1>15, <2>4, <2>5, <2>6, <2>7 DEF Passes
<1>16. ASSUME Diverts PROVE TerminalInv'
  <2>1. step \in Switching /\ step \in Forward /\ k \in DOMAIN listed
    BY <1>16, Positioned DEF Diverts, Switching, Forward, Complete
  <2>2. /\ UNCHANGED <<listed, built, verdict, touched>> /\ k' = k
        /\ step' \in Switching /\ step' \notin {"verify"} \cup Commit /\ verdict # "succeeded"
    BY <1>6, <1>16 DEF Diverts, Recorded, Switching, Commit
  <2>3. \A j \in DOMAIN listed : Open(j) /\ (j < k => Arrived(j))
    BY <1>2, <2>1
  <2>4. CASE UNCHANGED world
    <3>1. Rests(Terminals)
      BY <2>2, <2>4, Resting
    <3> QED BY <1>3, <1>4, <2>2, <2>3, <3>1
  <2>5. ASSUME NEW i \in Live, Switch(Terminal, i) PROVE TerminalInv'
    <3>1. /\ at'[listed[k].terminal] = i /\ i # 0
          /\ \A j \in DOMAIN listed :
                j # k => at'[listed[j].terminal] = at[listed[j].terminal]
      BY <1>1, <2>1, <2>5, OthersRest
    <3>2. \A j \in DOMAIN listed :
            listed[j].terminal \in touched' \/ at'[listed[j].terminal] # 0
      BY <2>2, <2>3, <3>1 DEF Open
    <3>3. \A j \in DOMAIN listed : j < k => j # k
      BY <1>1
    <3>4. \A j \in DOMAIN listed : j < k =>
            listed[j].terminal \in touched' \/ at'[listed[j].terminal] = built[Goal(j)]
      BY <2>2, <2>3, <3>1, <3>3 DEF Arrived
    <3> QED BY <1>3, <2>2, <3>2, <3>4
  <2> QED BY <1>16, <2>4, <2>5 DEF Diverts
<1>17. ASSUME Switches PROVE TerminalInv'
  <2>1. step \in Switching /\ step \in Forward /\ k \in DOMAIN listed /\ verdict = "none"
    BY <1>6, <1>17, Positioned DEF Switches, Switching, Forward, Complete
  <2>2. \A j \in DOMAIN listed : Open(j) /\ (j < k => Arrived(j))
    BY <1>2, <2>1
  <2>3. /\ at'[listed[k].terminal] = built[Goal(k)] /\ built[Goal(k)] # 0
        /\ \A j \in DOMAIN listed :
              j # k => at'[listed[j].terminal] = at[listed[j].terminal]
    BY <1>1, <1>17, <2>1, OthersRest DEF Switches
  <2>4. touched' = touched /\ UNCHANGED <<listed, built, verdict>>
    BY <1>17 DEF Switches
  <2>5. \A j \in DOMAIN listed :
          listed[j].terminal \in touched' \/ at'[listed[j].terminal] # 0
    BY <2>2, <2>3, <2>4 DEF Open
  <2>6. \A j \in DOMAIN listed : j < k + 1 =>
          listed[j].terminal \in touched' \/ at'[listed[j].terminal] = built[Goal(j)]
    <3>1. \A j \in DOMAIN listed : j < k + 1 => j = k \/ (j < k /\ j # k)
      BY <1>1
    <3> QED BY <2>2, <2>3, <2>4, <3>1 DEF Arrived
  <2>7. k + 1 \in Nat \ {0} /\ SwitchFrom(k + 1)
    BY <1>17, NextPosition DEF Switches
  <2> QED BY <1>14, <2>1, <2>4, <2>5, <2>6, <2>7
<1>18. ASSUME Retires PROVE TerminalInv'
  <2>1. /\ step \in Commit /\ UNCHANGED <<listed, built, touched, verdict>> /\ k \in Old
        /\ DOMAIN built = Positions
    BY <1>18, Positioned DEF Retires, Recorded, Commit, ControlInv
  <2>2. \A j \in DOMAIN listed : Arrived(j)
    BY <1>2, <2>1
  <2>3. \A j \in DOMAIN listed :
          listed[j].terminal \in touched' \/ at'[listed[j].terminal] = built[Goal(j)]
    <3>1. CASE UNCHANGED world
      <4>1. Rests(Terminals)
        BY <2>1, <3>1, Resting
      <4> QED BY <1>4, <2>2, <4>1
    <3>2. CASE Kill(k)
      <4>1. ASSUME NEW j \in DOMAIN listed, at[listed[j].terminal] = built[Goal(j)]
            PROVE  at'[listed[j].terminal] = built[Goal(j)]
        <5>1. built[Goal(j)] \notin Old
          BY <2>1, Goals, RecordTypes
        <5>2. \A t \in Terminals : at[t] # k => at'[t] = at[t]
          BY <3>2, AfterKill
        <5> QED BY <1>1, <2>1, <4>1, <5>1, <5>2
      <4> QED BY <2>1, <2>2, <4>1 DEF Arrived
    <3> QED BY <1>18, <3>1, <3>2 DEF Retires
  <2>4. step' \notin Switching /\ step' \notin Forward \cup Returning
    BY <1>18 DEF Retires, Switching, Forward, Building, Complete, Returning
  <2> QED BY <1>3, <2>1, <2>3, <2>4
\* A terminal goes back.
<1>19. ASSUME step \in Undo, step' \in Undo, verdict' = verdict, listed' = listed,
              step' \in Returning => \A j \in DOMAIN listed :
                listed[j].terminal \in touched' \/ at'[listed[j].terminal] # 0
       PROVE  TerminalInv'
  <2>1. step' \notin Switching /\ step' \notin {"verify"} \cup Commit /\ step' \notin Forward
    BY <1>19 DEF Undo, Returning, Switching, Commit, Forward, Building, Complete
  <2>2. verdict' # "succeeded"
    BY <1>6, <1>19 DEF Undo, Returning
  <2> QED BY <1>5, <1>19, <2>1, <2>2
<1>20. ASSUME step \in Returning, k \in DOMAIN listed, NEW i \in Live, Switch(Terminal, i),
              touched' = touched
       PROVE  \A j \in DOMAIN listed :
                listed[j].terminal \in touched' \/ at'[listed[j].terminal] # 0
  <2>1. /\ at'[listed[k].terminal] = i /\ i # 0
        /\ \A j \in DOMAIN listed :
              j # k => at'[listed[j].terminal] = at[listed[j].terminal]
    BY <1>1, <1>20, OthersRest
  <2>2. \A j \in DOMAIN listed : Open(j)
    BY <1>2, <1>20
  <2> QED BY <1>20, <2>1, <2>2 DEF Open
<1>21. ASSUME step \in Returning, UNCHANGED world, touched' = touched
       PROVE  \A j \in DOMAIN listed :
                listed[j].terminal \in touched' \/ at'[listed[j].terminal] # 0
  <2>1. Rests(Terminals)
    BY <1>21, Resting
  <2> QED BY <1>2, <1>4, <1>21, <2>1
<1>22. ASSUME Returns PROVE TerminalInv'
  <2>1. step \in Undo /\ step \in Returning /\ step' \in Undo /\ k \in DOMAIN listed
    BY <1>22, NextPosition, Positioned, UndoSteps DEF Returns, Undo, Returning
  <2>2. \A j \in DOMAIN listed :
          listed[j].terminal \in touched' \/ at'[listed[j].terminal] # 0
    BY <1>20, <1>22, <2>1 DEF Returns, Recorded
  <2> QED BY <1>19, <1>22, <2>1, <2>2 DEF Returns, Recorded
<1>23. ASSUME Doubts PROVE TerminalInv'
  <2>1. step \in Undo /\ step \in Returning /\ step' \in Undo /\ k \in DOMAIN listed
    BY <1>23, Positioned DEF Doubts, Undo, Returning
  <2>2. \A j \in DOMAIN listed :
          listed[j].terminal \in touched' \/ at'[listed[j].terminal] # 0
    BY <1>20, <1>21, <1>23, <2>1 DEF Doubts, Recorded
  <2> QED BY <1>19, <1>23, <2>1, <2>2 DEF Doubts, Recorded
<1>24. ASSUME Settles PROVE TerminalInv'
  <2>1. step \in Undo /\ step \in Returning /\ step' \in Undo
    BY <1>24, NextPosition, UndoSteps DEF Settles, Undo, Returning
  <2>2. \A j \in DOMAIN listed :
          listed[j].terminal \in touched' \/ at'[listed[j].terminal] # 0
    BY <1>21, <1>24, <2>1 DEF Settles
  <2> QED BY <1>19, <1>24, <2>1, <2>2 DEF Settles
<1>25. ASSUME Removes PROVE TerminalInv'
  <2>1. step' \in {"kill", "rename back", "report"}
    BY <1>25 DEF Removes, KillFrom, RenameFrom, Goto
  <2> QED BY <1>19, <1>25, <2>1 DEF Removes, Undo, Returning
<1>26. ASSUME Restores PROVE TerminalInv'
  <2>1. step' \in {"rename back", "report"}
    BY <1>26 DEF Restores, RenameFrom, Goto
  <2> QED BY <1>19, <1>26, <2>1 DEF Restores, Undo, Returning
<1>27. CASE Report
  <2>1. /\ step' = "done" /\ UNCHANGED <<world, listed, built, touched>>
        /\ verdict' = "succeeded" => step = "finish"
    BY <1>27 DEF Report, Goto
  <2>2. Rests(Terminals)
    BY <2>1, Resting
  <2>3. verdict' = "succeeded" => \A j \in DOMAIN listed : Arrived(j)
    BY <1>2, <2>1 DEF Commit
  <2>4. step' \notin Switching /\ step' \notin Forward \cup Returning
        /\ step' \notin {"verify"} \cup Commit
    BY <2>1 DEF Switching, Forward, Building, Complete, Returning, Commit
  <2> QED BY <1>3, <1>4, <2>1, <2>2, <2>3, <2>4
<1>28. CASE UserStep
  <2>1. UsersAct
    BY <1>28, UserOutcome
  <2>2. Rests(Terminals) /\ UNCHANGED <<step, k, listed, built, verdict>>
    BY <2>1 DEF UsersAct, Rests, result
  <2> QED BY <1>2, <1>3, <1>4, <2>2
<1>29. CASE UNCHANGED vars
  <2>1. Rests(Terminals) /\ UNCHANGED <<step, k, listed, built, verdict>>
    BY <1>29 DEF vars, world, result, Rests
  <2> QED BY <1>2, <1>3, <1>4, <2>1
<1>30. CASE RestoreStep
  BY <1>7, <1>8, <1>9, <1>11, <1>12, <1>13, <1>15, <1>16, <1>17, <1>18, <1>22, <1>23,
     <1>24, <1>25, <1>26, <1>27, <1>30, ForwardOutcome, BackwardOutcome
<1> QED BY <1>28, <1>29, <1>30 DEF Next

-----------------------------------------------------------------------------
\* The rollback.

\* What is left to undo when a step of the rollback leads to the next.
LEMMA MissedByRename ==
  ASSUME TypeOK, NEW n \in Nat, n <= Len(renamed), RenameFrom(n),
         UNCHANGED <<renamed, listed, created>>, verdict' = "none",
         \A j \in DOMAIN listed : Returned(j)',
         \A j \in DOMAIN created : created[j] \notin Live',
         \A j \in DOMAIN renamed : j > n =>
           (renamed[j] \in Live' \ touched' => name'[renamed[j]] = Target[renamed[j]]),
         n = 0 /\ renamed # <<>> => "client" \in up'
  PROVE  NothingMissed'
<1>0. n > 0 \/ n = 0
  OBVIOUS
<1>1. (step' = "rename back" /\ k' = n) \/ (step' = "report" /\ n = 0)
  BY <1>0, Zenon DEF RenameFrom, Goto
<1>2. ~ RolledBack' /\ step' \notin Returning /\ step' # "kill"
  BY <1>1 DEF RolledBack, Returning
<1>3. n = 0 => \A j \in DOMAIN renamed : j > n
  BY RecordTypes
<1>4. \A j \in DOMAIN renamed : j > n => NamedBack(renamed[j])'
  BY DEF NamedBack
<1> HIDE DEF Returned, NamedBack
<1> QED BY <1>1, <1>2, <1>3, <1>4 DEF NothingMissed

LEMMA MissedByKill ==
  ASSUME TypeOK, NEW n \in Nat, n <= Len(created), KillFrom(n),
         UNCHANGED <<renamed, listed, created>>, verdict' = "none",
         \A j \in DOMAIN listed : Returned(j)',
         \A j \in DOMAIN created : j > n => created[j] \notin Live'
  PROVE  NothingMissed'
<1>1. (step' = "kill" /\ k' = n) \/ (n = 0 /\ RenameFrom(Len(renamed)))
  BY DEF KillFrom, Goto
<1>2. CASE step' = "kill" /\ k' = n
  <2>1. ~ RolledBack' /\ step' \notin Returning
    BY <1>2 DEF RolledBack, Returning
  <2> HIDE DEF Returned
  <2> QED BY <1>2, <2>1 DEF NothingMissed
<1>3. CASE n = 0 /\ RenameFrom(Len(renamed))
  <2>1. \A j \in DOMAIN created : created[j] \notin Live'
    BY <1>3, RecordTypes
  <2>2. Len(renamed) \in Nat /\ \A j \in DOMAIN renamed : ~(j > Len(renamed))
    BY RecordTypes
  <2>3. Len(renamed) = 0 => renamed = <<>>
    BY EmptySeq DEF TypeOK
  <2> QED BY <1>3, <2>1, <2>2, <2>3, MissedByRename
<1> QED BY <1>1, <1>2, <1>3

LEMMA MissedByReturn ==
  ASSUME TypeOK, NEW i \in Nat, BackFrom(i),
         UNCHANGED <<renamed, listed, created>>, verdict' = "none",
         \A j \in DOMAIN listed : j < i => Returned(j)'
  PROVE  NothingMissed'
<1>1. DOMAIN listed \in SUBSET Nat /\ Len(created) \in Nat
      /\ \A j \in DOMAIN created : ~(j > Len(created))
  BY RecordTypes
<1>2. ASSUME NEW j \in DOMAIN listed, listed[j].from \notin Old PROVE Returned(j)'
  BY <1>2 DEF Returned, Old
<1>3. CASE /\ step' = "switch back" /\ k' \in DOMAIN listed /\ k' >= i
           /\ \A j \in DOMAIN listed : i <= j /\ j < k' => listed[j].from \notin Old
  <2>1. ASSUME NEW j \in DOMAIN listed, j < k' PROVE Returned(j)'
    <3>1. j < i \/ i <= j
      BY <1>1
    <3> QED BY <1>2, <1>3, <2>1, <3>1
  <2>2. ~ RolledBack'
    BY DEF RolledBack
  <2> HIDE DEF Returned
  <2> QED BY <1>3, <2>1, <2>2 DEF NothingMissed
<1>4. CASE (\A j \in DOMAIN listed : i <= j => listed[j].from \notin Old) /\ KillFrom(Len(created))
  <2>1. ASSUME NEW j \in DOMAIN listed PROVE Returned(j)'
    <3>1. j < i \/ i <= j
      BY <1>1
    <3> QED BY <1>2, <1>4, <3>1
  <2> QED BY <1>1, <1>4, <2>1, MissedByKill
<1> QED BY <1>3, <1>4, BackGoes

\* A terminal that has returned stays where it is.
LEMMA ReturnedStays ==
  ASSUME TypeOK, NEW T, Rests(T), NEW j \in DOMAIN listed, listed[j].terminal \in T, Returned(j),
         listed' = listed
  PROVE  Returned(j)'
BY DEF Rests, Returned, Old

\* While nothing is undone.
LEMMA UndoneForward ==
  ASSUME UndoneInv, step' \in Forward \cup Commit, verdict' # "rolled back",
         "client" \in up' => Live' \subseteq Old \cup touched' \cup ToSet(created') \cup {made'},
         renamed' = <<>> => Live' \subseteq Old \cup touched',
         "client" \in up' => \A i \in Old \ ToSet(renamed') :
           i \in Live' \ touched' => name'[i] = Target[i]
  PROVE  UndoneInv'
<1>1. step' \notin Undo /\ ~ RolledBack'
  BY DEF Undo, Returning, Forward, Building, Complete, Switching, Commit, RolledBack
<1>2. NothingMissed'
  BY <1>1 DEF NothingMissed, Undo
<1> QED BY <1>1, <1>2 DEF UndoneInv, NamedBack, Old

LEMMA UndoneStep ==
  TypeOK /\ ControlInv /\ TerminalInv /\ UndoneInv /\ [Next]_vars => UndoneInv'
<1> SUFFICES ASSUME TypeOK, ControlInv, TerminalInv, UndoneInv, [Next]_vars PROVE UndoneInv'
  OBVIOUS
<1>1. /\ "client" \in up => Live \subseteq Old \cup touched \cup ToSet(created) \cup {made}
      /\ renamed = <<>> => Live \subseteq Old \cup touched
      /\ "client" \in up => \A i \in Old \ ToSet(renamed) :
            i \in Live \ touched => name[i] = Target[i]
      /\ RolledBack => undone
      /\ undone => NothingMissed
  BY DEF UndoneInv, NamedBack
<1>2. /\ Live \subseteq Ids /\ Old \subseteq Ids /\ Ids \cap Terminals = {}
      /\ 0 \notin Ids /\ Ids \in SUBSET Nat
  BY IdsAreNumbers
<1>3. /\ \A j \in DOMAIN listed : listed[j].terminal \in Terminals
      /\ \A j \in DOMAIN created : created[j] \in Ids \ Old
      /\ \A j \in DOMAIN renamed : renamed[j] \in Old
      /\ ToSet(created) = {created[j] : j \in DOMAIN created}
      /\ ToSet(renamed) = {renamed[j] : j \in DOMAIN renamed}
      /\ DOMAIN listed \in SUBSET Nat /\ DOMAIN created \in SUBSET Nat
      /\ DOMAIN renamed \in SUBSET Nat /\ k \in Nat
      /\ created \in Seq(Ids \ Old) /\ renamed \in Seq(Old) /\ undone \in BOOLEAN
  <2>1. /\ DOMAIN listed \in SUBSET Nat /\ DOMAIN created \in SUBSET Nat
        /\ DOMAIN renamed \in SUBSET Nat
    BY RecordTypes
  <2>2. /\ created \in Seq(Ids \ Old) /\ renamed \in Seq(Old) /\ undone \in BOOLEAN
        /\ k \in Nat
    BY DEF TypeOK
  <2>3. /\ \A j \in DOMAIN listed : listed[j].terminal \in Terminals
        /\ \A j \in DOMAIN created : created[j] \in Ids \ Old
        /\ \A j \in DOMAIN renamed : renamed[j] \in Old
        /\ ToSet(created) = {created[j] : j \in DOMAIN created}
        /\ ToSet(renamed) = {renamed[j] : j \in DOMAIN renamed}
    BY RecordTypes, Zenon
  <2> QED BY <2>1, <2>2, <2>3
<1>4. step # "done" => verdict = "none"
  BY DEF ControlInv
<1>5. renamed = <<>> => step \in {"rename", "report", "done"}
  BY DEF ControlInv
\* The lists still say what was done after a step that only removes or moves.
<1>6. ASSUME Live' \subseteq Live, UNCHANGED <<renamed, created, made, touched>>,
             "client" \in up' => "client" \in up,
             \A i \in Old \cap Live' : name'[i] = name[i]
      PROVE  /\ "client" \in up' =>
                   Live' \subseteq Old \cup touched' \cup ToSet(created') \cup {made'}
             /\ renamed' = <<>> => Live' \subseteq Old \cup touched'
             /\ "client" \in up' => \A i \in Old \ ToSet(renamed') :
                   i \in Live' \ touched' => name'[i] = Target[i]
  BY <1>1, <1>6
<1>7. ASSUME Live' \subseteq Live, UNCHANGED <<renamed, created, made, touched, verdict>>,
             "client" \in up' => "client" \in up, verdict = "none",
             \A i \in Old \cap Live' : name'[i] = name[i],
             undone' => NothingMissed'
      PROVE  UndoneInv'
  <2>1. ~ RolledBack'
    BY <1>7 DEF RolledBack
  <2> HIDE DEF NothingMissed
  <2> QED BY <1>6, <1>7, <2>1 DEF UndoneInv, NamedBack, Old
<1>8. ASSUME Fails PROVE UndoneInv'
  <2>1. /\ BackFrom(1) /\ UNCHANGED Recorded /\ verdict = "none" /\ 1 \in Nat
        /\ \A j \in DOMAIN listed : ~(j < 1)
    <3>1. \A j \in DOMAIN listed : ~(j < 1)
      BY RecordTypes
    <3> QED BY <1>4, <1>8, <3>1 DEF Fails, Forward, Building, Complete, Switching
  <2>2. NothingMissed'
    BY <2>1, MissedByReturn DEF Recorded
  <2>3. CASE UNCHANGED world
    <3>1. Live' = Live /\ \A i \in Old \cap Live' : name'[i] = name[i]
      BY <2>3 DEF world, Live
    <3> QED BY <1>7, <1>8, <2>1, <2>2, <3>1 DEF Fails, Recorded
  <2>4. CASE "client" \notin up' /\ (step = "rename" => Live' = Live)
    <3>1. renamed' = <<>> => Live' \subseteq Old \cup touched'
      BY <1>1, <1>5, <1>8, <2>1, <2>4 DEF Fails, Recorded, Forward, Building, Complete, Switching
    <3>2. ~ RolledBack'
      BY <2>1 DEF RolledBack, Recorded
    <3> HIDE DEF NothingMissed
    <3> QED BY <2>2, <2>4, <3>1, <3>2 DEF UndoneInv
  <2>5. ASSUME Rename(k, Backup[k]) PROVE Live' = Live
    BY <2>5, AfterRename
  <2> QED BY <1>8, <2>3, <2>4, <2>5 DEF Fails
<1>9. ASSUME Renames PROVE UndoneInv'
  <2>1. k \in Old /\ verdict' = "none"
    BY <1>4, <1>9, Positioned DEF Renames
  <2>2. /\ Live' = Live
        /\ \A j \in Live : j # k => name'[j] = name[j]
    BY <1>9, AfterRename DEF Renames
  <2>3. renamed' # <<>> /\ ToSet(renamed') = ToSet(renamed) \cup {k}
    BY <1>3, <1>9, <2>1, Appended DEF Renames
  <2>4. step' \in Forward /\ UNCHANGED <<touched, up, created, made>>
    BY <1>9 DEF Renames, Forward
  <2> QED BY <1>1, <2>1, <2>2, <2>3, <2>4, UndoneForward
<1>10. ASSUME Lists PROVE UndoneInv'
  <2>1. verdict' = "none" /\ step' \in Forward /\ renamed' # <<>>
    BY <1>4, <1>5, <1>10 DEF Lists, Forward, Building
  <2>2. Live' = Live /\ name' = name /\ UNCHANGED <<up, renamed, created, made>>
    BY <1>10 DEF Lists, world, Live
  <2>3. \A i \in Ids : i \in touched => i \in touched'
    BY <1>2, <1>10 DEF Lists
  <2> QED BY <1>1, <1>2, <2>1, <2>2, <2>3, UndoneForward
\* A new session is recorded, or the next one to be.
<1>11. ASSUME NewSession(Saved[k]), step \in Forward, step # "rename",
              step' \in Forward \cup Commit, UNCHANGED <<renamed, touched, up, verdict>>,
              Live' \subseteq Live \cup {last'},
              ToSet(created) \cup ({made} \ {0}) \cup {last'} \subseteq ToSet(created') \cup {made'}
       PROVE  UndoneInv'
  <2>1. /\ Live' = Live \cup {last'} /\ last' \notin Old
        /\ \A j \in Live : name'[j] = name[j]
    BY <1>11, AfterOpen
  <2>2. verdict' = "none" /\ renamed' # <<>>
    BY <1>4, <1>5, <1>11 DEF Forward, Building, Complete, Switching
  <2>3. "client" \in up' =>
          Live' \subseteq Old \cup touched' \cup ToSet(created') \cup {made'}
    BY <1>1, <1>2, <1>11, <2>1
  <2>4. "client" \in up' => \A i \in Old \ ToSet(renamed') :
          i \in Live' \ touched' => name'[i] = Target[i]
    BY <1>1, <1>11, <2>1
  <2> QED BY <1>11, <2>2, <2>3, <2>4, UndoneForward
<1>12. ASSUME Creates PROVE UndoneInv'
  <2>1. made = 0 /\ step \in Forward /\ step # "rename" /\ step' \in Forward
    BY <1>12 DEF Creates, ControlInv, Forward, Building
  <2>2. Live' = Live \cup {last'}
    BY <1>12, AfterOpen DEF Creates
  <2> QED BY <1>11, <1>12, <2>1, <2>2 DEF Creates
<1>13. ASSUME Records PROVE UndoneInv'
  <2>1. made \in Ids \ Old
    <3>1. made \in {0} \cup (Ids \ Old) /\ made \in Live
      BY <1>13 DEF Records, TypeOK
    <3> QED BY <1>2, <3>1
  <2>2. ToSet(created') = ToSet(created) \cup {made}
    BY <1>3, <1>13, <2>1, Appended, SMTT(30) DEF Records
  <2>3. step' \in Forward /\ verdict' = "none" /\ renamed' # <<>>
    BY <1>4, <1>5, <1>13 DEF Records, Follows, Forward, Building
  <2>4. Live' = Live /\ name' = name /\ UNCHANGED <<up, renamed, touched>>
    BY <1>13 DEF Records, world, Live
  <2> QED BY <1>1, <2>2, <2>3, <2>4, UndoneForward
<1>14. ASSUME Joins PROVE UndoneInv'
  <2>1. made' = made /\ step \in Forward /\ step # "rename" /\ step' \in Forward
    BY <1>14 DEF Joins, Follows, Forward, Building, Complete
  <2>2. Live' = Live \cup {last'} /\ last' \in Ids' \ Old /\ Ids \subseteq Ids'
    BY <1>14, AfterOpen DEF Joins
  <2>3. created \in Seq(Ids' \ Old)
    BY <1>3, <2>2, SeqMonotonic
  <2>4. ToSet(created') = ToSet(created) \cup {last'}
    BY <1>14, <2>2, <2>3, Appended DEF Joins
  <2> QED BY <1>11, <1>14, <2>1, <2>2, <2>4 DEF Joins
\* A step that moves terminals or removes an original.
<1>15. ASSUME Live' \subseteq Live, UNCHANGED <<renamed, created, made, touched, verdict>>,
              "client" \in up' => "client" \in up, verdict = "none",
              \A i \in Old \cap Live' : name'[i] = name[i],
              step' \in Forward \cup Commit
       PROVE  UndoneInv'
  <2>1. /\ "client" \in up' =>
              Live' \subseteq Old \cup touched' \cup ToSet(created') \cup {made'}
        /\ renamed' = <<>> => Live' \subseteq Old \cup touched'
        /\ "client" \in up' => \A i \in Old \ ToSet(renamed') :
              i \in Live' \ touched' => name'[i] = Target[i]
    BY <1>6, <1>15
  <2> QED BY <1>15, <2>1, UndoneForward
<1>16. ASSUME Passes PROVE UndoneInv'
  <2>1. Live' = Live /\ name' = name
    BY <1>16 DEF Passes, world, Live
  <2>2. verdict = "none"
    BY <1>4, <1>16 DEF Passes
  <2>3. step' \in Forward \cup Commit
    BY <1>16 DEF Passes, SwitchFrom, Goto, Forward, Building, Complete, Switching, Commit
  <2>4. "client" \in up' => "client" \in up
    BY <1>16 DEF Passes
  <2> QED BY <1>15, <1>16, <2>1, <2>2, <2>3, <2>4 DEF Passes, Recorded
<1>17. ASSUME k \in DOMAIN listed, NEW i \in Live, Switch(Terminal, i)
       PROVE  Live' = Live /\ name' = name
  <2>1. Terminal \in Terminals
    BY <1>17, RecordTypes DEF Terminal
  <2> QED BY <1>17, <2>1, AfterSwitch
<1>18. ASSUME Diverts PROVE UndoneInv'
  <2>1. k \in DOMAIN listed /\ verdict = "none"
    BY <1>4, <1>18, Positioned DEF Diverts, Switching
  <2>2. Live' = Live /\ name' = name
    <3>1. CASE UNCHANGED world
      BY <3>1 DEF world, Live
    <3> QED BY <1>17, <1>18, <2>1, <3>1 DEF Diverts
  <2>3. step' \in Forward
    BY <1>18 DEF Diverts, Forward, Complete, Switching
  <2> QED BY <1>15, <1>18, <2>1, <2>2, <2>3 DEF Diverts, Recorded
<1>19. ASSUME Switches PROVE UndoneInv'
  <2>1. k \in DOMAIN listed /\ verdict = "none"
    BY <1>4, <1>19, Positioned DEF Switches, Switching
  <2>2. Live' = Live /\ name' = name
    BY <1>17, <1>19, <2>1 DEF Switches
  <2>3. step' \in Forward
    BY <1>19 DEF Switches, SwitchFrom, Goto, Forward, Complete, Switching
  <2> QED BY <1>15, <1>19, <2>1, <2>2, <2>3 DEF Switches
<1>20. ASSUME Retires PROVE UndoneInv'
  <2>1. verdict = "none" /\ step' \in Commit
    BY <1>4, <1>20 DEF Retires, Commit
  <2>2. Live' \subseteq Live /\ \A i \in Live' : name'[i] = name[i]
    <3>1. CASE UNCHANGED world
      BY <3>1 DEF world, Live
    <3>2. CASE Kill(k)
      BY <3>2, AfterKill
    <3> QED BY <1>20, <3>1, <3>2 DEF Retires
  <2> QED BY <1>15, <1>20, <2>1, <2>2 DEF Retires, Recorded
<1>21. ASSUME Returns PROVE UndoneInv'
  <2>1. k \in DOMAIN listed /\ verdict = "none" /\ step \in Returning
    BY <1>4, <1>21, Positioned DEF Returns, Returning
  <2>2. Live' = Live /\ name' = name
    BY <1>17, <1>21, <2>1 DEF Returns
  <2>3. ASSUME undone' PROVE NothingMissed'
    <3>1. \A j \in DOMAIN listed : j < k => Returned(j)
      BY <1>1, <1>21, <2>1, <2>3 DEF Returns, Recorded, NothingMissed
    <3>2. /\ at'[listed[k].terminal] = listed[k].from
          /\ \A j \in DOMAIN listed :
                j # k => at'[listed[j].terminal] = at[listed[j].terminal]
      BY <1>21, <2>1, OthersRest DEF Returns
    <3>3. ASSUME NEW j \in DOMAIN listed, j < k + 1 PROVE Returned(j)'
      <4>1. j = k \/ (j < k /\ j # k)
        BY <1>3, <3>3
      <4> QED BY <1>21, <3>1, <3>2, <4>1 DEF Returns, Recorded, Returned, Old
    <3> QED BY <1>21, <2>1, <3>3, NextPosition, MissedByReturn DEF Returns, Recorded
  <2> QED BY <1>7, <1>21, <2>1, <2>2, <2>3 DEF Returns, Recorded
<1>22. ASSUME Doubts PROVE UndoneInv'
  <2>1. k \in DOMAIN listed /\ verdict = "none" /\ step \in Returning /\ step' \in Returning
    BY <1>4, <1>22, Positioned DEF Doubts, Returning
  <2>2. Live' = Live /\ name' = name
    <3>1. CASE UNCHANGED world
      BY <3>1 DEF world, Live
    <3> QED BY <1>17, <1>22, <2>1, <3>1 DEF Doubts
  <2>3. ASSUME undone' PROVE NothingMissed'
    <3>1. \A j \in DOMAIN listed : j < k => Returned(j)
      BY <1>1, <1>22, <2>1, <2>3 DEF Doubts, Recorded, NothingMissed
    <3>2. \A j \in DOMAIN listed : j # k => at'[listed[j].terminal] = at[listed[j].terminal]
      <4>1. CASE UNCHANGED world
        BY <4>1 DEF world
      <4> QED BY <1>22, <2>1, <4>1, OthersRest DEF Doubts
    <3>3. ASSUME NEW j \in DOMAIN listed, j < k PROVE Returned(j)'
      <4>1. j # k
        BY <1>3, <3>3
      <4> QED BY <1>22, <3>1, <3>2, <3>3, <4>1 DEF Doubts, Recorded, Returned, Old
    <3>4. /\ ~ RolledBack' /\ step' = "back inventory" /\ k' = k /\ listed' = listed
      BY <1>22, <2>1 DEF Doubts, Recorded, RolledBack
    <3> HIDE DEF Returned
    <3> QED BY <3>3, <3>4 DEF NothingMissed
  <2> QED BY <1>7, <1>22, <2>1, <2>2, <2>3 DEF Doubts, Recorded
<1>23. ASSUME Settles PROVE UndoneInv'
  <2>1. k \in DOMAIN listed /\ verdict = "none" /\ step \in Returning
    BY <1>4, <1>23, Positioned DEF Settles, Returning
  <2>2. Live' = Live /\ name' = name /\ at' = at
    BY <1>23 DEF Settles, world, Live
  <2>3. ASSUME undone' PROVE NothingMissed'
    <3>1. \A j \in DOMAIN listed : j < k => Returned(j)
      BY <1>1, <1>23, <2>1, <2>3 DEF Settles, NothingMissed
    <3>2. listed[k].terminal \in touched
      <4>1. at[listed[k].terminal] = 0
        BY <1>23, <2>3 DEF Settles, Terminal
      <4>2. listed[k].terminal \in touched \/ at[listed[k].terminal] # 0
        BY <2>1 DEF TerminalInv
      <4> QED BY <4>1, <4>2
    <3>3. ASSUME NEW j \in DOMAIN listed, j < k + 1 PROVE Returned(j)'
      <4>1. j = k \/ j < k
        BY <1>3, <3>3
      <4> QED BY <1>23, <2>2, <3>1, <3>2, <4>1 DEF Settles, Returned, Old
    <3> QED BY <1>23, <2>1, <3>3, NextPosition, MissedByReturn DEF Settles
  <2> QED BY <1>7, <1>23, <2>1, <2>2, <2>3 DEF Settles
<1>24. ASSUME Removes PROVE UndoneInv'
  <2>1. /\ k \in DOMAIN created /\ k - 1 \in Nat /\ k - 1 <= Len(created) /\ verdict = "none"
        /\ UNCHANGED <<listed, touched>>
    <3>1. k \in DOMAIN created /\ k - 1 \in Nat
      BY <1>24, Positioned DEF Removes
    <3>2. DOMAIN created = 1 .. Len(created) /\ Len(created) \in Nat
      BY RecordTypes
    <3> QED BY <1>4, <1>24, <3>1, <3>2 DEF Removes
  <2>2. Live' \subseteq Live /\ \A i \in Live' : name'[i] = name[i]
    <3>1. CASE UNCHANGED world
      BY <3>1 DEF world, Live
    <3>2. CASE Kill(created[k])
      BY <3>2, AfterKill
    <3> QED BY <1>24, <3>1, <3>2 DEF Removes
  <2>3. ASSUME undone' PROVE NothingMissed'
    <3>1. /\ \A j \in DOMAIN listed : Returned(j)
          /\ \A j \in DOMAIN created : j > k => created[j] \notin Live
          /\ created[k] \notin Live'
      BY <1>1, <1>24, <2>3 DEF Removes, NothingMissed
    <3>2. ASSUME NEW j \in DOMAIN listed PROVE Returned(j)'
      <4>1. CASE UNCHANGED world
        BY <2>1, <3>1, <4>1 DEF world, Returned, Old
      <4>2. CASE Kill(created[k])
        <5>1. created[k] \notin Old
          BY <1>3, <2>1
        <5>2. \A t \in Terminals : at[t] # created[k] => at'[t] = at[t]
          BY <4>2, AfterKill
        <5> QED BY <1>3, <2>1, <3>1, <5>1, <5>2 DEF Returned, Old
      <4> QED BY <1>24, <4>1, <4>2 DEF Removes
    <3>3. ASSUME NEW j \in DOMAIN created, j > k - 1 PROVE created[j] \notin Live'
      <4>1. j = k \/ j > k
        BY <1>3, <3>3
      <4> QED BY <2>2, <3>1, <4>1
    <3> QED BY <1>24, <2>1, <3>2, <3>3, MissedByKill DEF Removes
  <2> QED BY <1>7, <1>24, <2>1, <2>2, <2>3 DEF Removes
<1>25. ASSUME Restores PROVE UndoneInv'
  <2>1. /\ k \in DOMAIN renamed /\ k - 1 \in Nat /\ k - 1 <= Len(renamed) /\ verdict = "none"
        /\ UNCHANGED <<renamed, listed, created, made, touched, verdict>>
    <3>1. k \in DOMAIN renamed /\ k - 1 \in Nat
      BY <1>25, Positioned DEF Restores
    <3>2. DOMAIN renamed = 1 .. Len(renamed) /\ Len(renamed) \in Nat
      BY RecordTypes
    <3>3. k - 1 <= Len(renamed)
      BY <3>1, <3>2
    <3> QED BY <1>4, <1>25, <3>1, <3>3 DEF Restores
  <2>2. /\ Live' = Live /\ at' = at
        /\ \A i \in Live : i # renamed[k] => name'[i] = name[i]
    <3>1. CASE UNCHANGED world
      BY <3>1 DEF world, Live
    <3>2. CASE Rename(renamed[k], Target[renamed[k]])
      BY <3>2, AfterRename
    <3> QED BY <1>25, <3>1, <3>2 DEF Restores
  <2>3. "client" \in up' => "client" \in up
    BY <1>25 DEF Restores
  <2>4. renamed[k] \in ToSet(renamed)
    BY <1>3, <2>1
  <2>5. ASSUME undone' PROVE NothingMissed'
    <3>1. /\ \A j \in DOMAIN listed : Returned(j)
          /\ \A j \in DOMAIN created : created[j] \notin Live
          /\ \A j \in DOMAIN renamed : j > k => NamedBack(renamed[j])
          /\ name'[renamed[k]] = Target[renamed[k]] /\ "client" \in up'
      BY <1>1, <1>25, <2>5 DEF Restores, NothingMissed
    <3>2. \A j \in DOMAIN listed : Returned(j)'
      BY <2>1, <2>2, <3>1 DEF Returned, Old
    <3>3. ASSUME NEW j \in DOMAIN renamed, j > k - 1, renamed[j] \in Live' \ touched'
          PROVE  name'[renamed[j]] = Target[renamed[j]]
      <4>1. j = k \/ j > k
        BY <1>3, <3>3
      <4> QED BY <2>1, <2>2, <3>1, <3>3, <4>1 DEF NamedBack
    <3> QED BY <1>25, <2>1, <2>2, <3>1, <3>2, <3>3, MissedByRename DEF Restores
  <2>6. ~ RolledBack'
    BY <2>1 DEF RolledBack
  <2>7. /\ "client" \in up' =>
              Live' \subseteq Old \cup touched' \cup ToSet(created') \cup {made'}
        /\ renamed' = <<>> => Live' \subseteq Old \cup touched'
        /\ "client" \in up' => \A i \in Old \ ToSet(renamed') :
              i \in Live' \ touched' => name'[i] = Target[i]
    BY <1>1, <2>1, <2>2, <2>3, <2>4
  <2> HIDE DEF NothingMissed
  <2> QED BY <2>5, <2>6, <2>7 DEF UndoneInv, NamedBack, Old
<1>26. CASE Report
  <2>1. /\ UNCHANGED <<world, up, renamed, listed, created, made, undone, touched>>
        /\ step' = "done" /\ (RolledBack' => step = "report" /\ undone)
    BY <1>26 DEF Report, Goto, RolledBack
  <2>2. Live' = Live /\ name' = name /\ at' = at
    BY <2>1 DEF world, Live
  <2>3. ASSUME undone' PROVE NothingMissed'
    <3>1. CASE ~ RolledBack'
      BY <2>1, <3>1 DEF NothingMissed, Returning
    <3>2. CASE RolledBack'
      <4>1. /\ \A j \in DOMAIN listed : Returned(j)
            /\ \A j \in DOMAIN created : created[j] \notin Live
            /\ \A j \in DOMAIN renamed : NamedBack(renamed[j])
            /\ renamed # <<>> => "client" \in up
        BY <1>1, <2>1, <3>2 DEF NothingMissed
      <4>2. /\ \A j \in DOMAIN listed : Returned(j)'
            /\ \A j \in DOMAIN renamed : NamedBack(renamed[j])'
        BY <2>1, <2>2, <4>1 DEF Returned, NamedBack, Old
      <4> HIDE DEF Returned, NamedBack
      <4> QED BY <2>1, <2>2, <4>1, <4>2 DEF NothingMissed, Returning
    <3> QED BY <3>1, <3>2
  <2>4. /\ "client" \in up' =>
              Live' \subseteq Old \cup touched' \cup ToSet(created') \cup {made'}
        /\ renamed' = <<>> => Live' \subseteq Old \cup touched'
        /\ "client" \in up' => \A i \in Old \ ToSet(renamed') :
              i \in Live' \ touched' => name'[i] = Target[i]
    BY <1>6, <2>1, <2>2
  <2> HIDE DEF NothingMissed
  <2> QED BY <2>1, <2>3, <2>4 DEF UndoneInv, NamedBack, Old
<1>27. CASE UserStep
  <2>1. UsersAct
    BY <1>27, UserOutcome
  <2>2. /\ UNCHANGED <<up, step, k, renamed, listed, created, made, undone, verdict>>
        /\ verdict = "none"
    BY <2>1 DEF UsersAct, result
  <2>3. /\ touched \subseteq touched' /\ \A i \in Ids : i \in Live' => i \in Live
        /\ \A i \in Live : i \in touched' \/ (i \in Live' /\ name'[i] = name[i])
        /\ Live' \ Live \subseteq touched'
        /\ \A t \in Terminals : t \in touched' \/ at'[t] = at[t]
    BY <2>1 DEF UsersAct
  <2>4. /\ "client" \in up' =>
              Live' \subseteq Old \cup touched' \cup ToSet(created') \cup {made'}
        /\ renamed' = <<>> => Live' \subseteq Old \cup touched'
    BY <1>1, <2>2, <2>3
  <2>5. "client" \in up' => \A i \in Old \ ToSet(renamed') :
          i \in Live' \ touched' => name'[i] = Target[i]
    BY <1>1, <1>2, <2>2, <2>3
  <2>6. ASSUME undone' PROVE NothingMissed'
    <3>1. NothingMissed /\ ~ RolledBack'
      BY <1>1, <2>2, <2>6 DEF RolledBack
    <3>2. \A j \in DOMAIN listed : Returned(j) => Returned(j)'
      BY <1>3, <2>2, <2>3 DEF Returned, Old
    <3>3. \A j \in DOMAIN renamed : NamedBack(renamed[j]) => NamedBack(renamed[j])'
      BY <1>2, <1>3, <2>2, <2>3 DEF NamedBack
    <3>4. \A j \in DOMAIN created : created[j] \notin Live => created[j] \notin Live'
      BY <1>3, <2>3
    <3> HIDE DEF Returned, NamedBack
    <3> QED BY <2>2, <3>1, <3>2, <3>3, <3>4 DEF NothingMissed
  <2>7. ~ RolledBack'
    BY <2>2 DEF RolledBack
  <2> HIDE DEF NothingMissed
  <2> QED BY <2>4, <2>5, <2>6, <2>7 DEF UndoneInv, NamedBack, Old
<1>28. CASE UNCHANGED vars
  BY <1>28 DEF vars, world, result, UndoneInv, NothingMissed, Returned, NamedBack, RolledBack,
               Live, Old
<1>29. CASE RestoreStep
  BY <1>8, <1>9, <1>10, <1>12, <1>13, <1>14, <1>16, <1>18, <1>19, <1>20, <1>21, <1>22, <1>23,
     <1>24, <1>25, <1>26, <1>29, ForwardOutcome, BackwardOutcome
<1> QED BY <1>27, <1>28, <1>29 DEF Next

-----------------------------------------------------------------------------
\* The theorems.

RestoreInv == TypeOK /\ ControlInv /\ BuiltInv /\ TerminalInv /\ UndoneInv

LEMMA RestoreInit == Init => RestoreInv
<1> SUFFICES ASSUME Init PROVE RestoreInv
  OBVIOUS
<1>1. /\ name = Target /\ at \in [Terminals -> Old] /\ last = Len(Target) /\ up = {"client"}
      /\ step = "rename" /\ k = 1 /\ renamed = <<>> /\ listed = <<>> /\ created = <<>>
      /\ built = <<>> /\ made = 0 /\ switched = {} /\ undone = TRUE /\ verdict = "none"
      /\ touched = {} /\ faults = 0 /\ acts = 0
  BY DEF Init
<1>2. /\ Live = Old /\ Ids = Old /\ Len(Target) \in Nat /\ 1 \in Old /\ MaxFaults \in Nat
      /\ MaxActs \in Nat
  BY <1>1, Constants DEF Live, Ids, Old
<1>3. DOMAIN listed = {} /\ DOMAIN created = {} /\ DOMAIN renamed = {} /\ DOMAIN built = {}
      /\ ToSet(created) = {} /\ ToSet(renamed) = {}
  BY <1>1 DEF ToSet
<1>4. TypeOK
  BY <1>1, <1>2, <1>3 DEF TypeOK, Steps
<1>5. ControlInv
  BY <1>1, <1>2, <1>3
     DEF ControlInv, Building, Complete, Switching, Commit, Returning
<1>6. BuiltInv
  BY <1>1, <1>2, <1>3 DEF BuiltInv, BuiltStands, OldWhole, Kept, Commit
<1>7. TerminalInv
  BY <1>1, <1>3 DEF TerminalInv, Switching, Commit
<1>8. UndoneInv
  BY <1>1, <1>2, <1>3 DEF UndoneInv, NothingMissed, NamedBack, RolledBack, Returning
<1> QED BY <1>4, <1>5, <1>6, <1>7, <1>8 DEF RestoreInv

LEMMA RestoreInvariant == Spec => []RestoreInv
<1>1. RestoreInv /\ [Next]_vars => RestoreInv'
  BY TypeStep, ControlStep, BuiltStep, TerminalStep, UndoneStep DEF RestoreInv
<1> QED BY <1>1, RestoreInit, PTL DEF Spec

\* Whatever fails and whatever users do, every variable of the restore keeps its type: no
\* id of a session is given out twice, every terminal is in a session that exists, and
\* what was built is exactly what the rollback knows it has to remove (restore.rs
\* apply_inner).
THEOREM TypeCorrect == Spec => []TypeOK
<1>1. RestoreInv => TypeOK
  BY DEF RestoreInv
<1> QED BY <1>1, RestoreInvariant, PTL

\* After a success every session of the snapshot that users left alone is there under its
\* own name (restore.rs apply_inner).
THEOREM NamesRestored == Spec => []RestoredNames
<1>1. RestoreInv => RestoredNames
  <2> SUFFICES ASSUME RestoreInv, verdict = "succeeded", NEW s \in Positions,
                      built[s] \notin touched
               PROVE  built[s] \in Live /\ name[built[s]] = Saved[s]
    BY DEF RestoredNames
  <2>1. DOMAIN built = Positions
    BY DEF RestoreInv, ControlInv
  <2>2. BuiltStands
    BY DEF RestoreInv, BuiltInv
  <2> QED BY <2>1, <2>2 DEF BuiltStands, Stands
<1> QED BY <1>1, RestoreInvariant, PTL

\* When the originals are about to be destroyed, or have been, every terminal that was
\* found shows the session meant for it, unless its user took it elsewhere (restore.rs
\* switch_clients).
THEOREM Arrivals == Spec => []TerminalsArrived
<1>1. RestoreInv => TerminalsArrived
  BY DEF RestoreInv, TerminalInv, TerminalsArrived, Arrived, Commit
<1> QED BY <1>1, RestoreInvariant, PTL

\* A rollback that is reported complete is one: none of the recorded sessions is left,
\* the originals have their names and the terminals are back in them (restore.rs
\* apply_inner, the Err branch).
THEOREM RollbackTrue == Spec => []RollbackIsTrue
<1>1. RestoreInv => RollbackIsTrue
  <2> SUFFICES ASSUME RestoreInv, RolledBack
               PROVE  /\ Live \ (Old \cup touched) \subseteq {made}
                      /\ renamed # <<>> =>
                            \A i \in Old : i \in touched \/ (i \in Live /\ name[i] = Target[i])
                      /\ \A j \in DOMAIN listed :
                            listed[j].from \in Old /\ listed[j].terminal \notin touched
                              => at[listed[j].terminal] = listed[j].from
    BY DEF RollbackIsTrue
  <2>1. TypeOK /\ ControlInv /\ BuiltInv /\ UndoneInv
    BY DEF RestoreInv
  <2>2. /\ "client" \in up => Live \subseteq Old \cup touched \cup ToSet(created) \cup {made}
        /\ renamed = <<>> => Live \subseteq Old \cup touched
        /\ "client" \in up => \A i \in Old \ ToSet(renamed) : NamedBack(i)
        /\ NothingMissed
    BY <2>1 DEF UndoneInv
  <2>3. /\ \A j \in DOMAIN listed : Returned(j)
        /\ \A j \in DOMAIN created : created[j] \notin Live
        /\ \A j \in DOMAIN renamed : NamedBack(renamed[j])
        /\ renamed # <<>> => "client" \in up
    BY <2>2 DEF NothingMissed
  <2>4. OldWhole
    <3>1. step = "done" /\ verdict # "succeeded"
      BY <2>1 DEF ControlInv, RolledBack
    <3> QED BY <2>1, <3>1 DEF BuiltInv, Commit
  <2>5. /\ ToSet(created) = {created[j] : j \in DOMAIN created}
        /\ ToSet(renamed) = {renamed[j] : j \in DOMAIN renamed}
    BY <2>1, RecordTypes
  <2>6. Live \ (Old \cup touched) \subseteq {made}
    BY <2>2, <2>3, <2>5
  <2>7. ASSUME renamed # <<>>, NEW i \in Old
        PROVE  i \in touched \/ (i \in Live /\ name[i] = Target[i])
    <3>1. NamedBack(i)
      BY <2>2, <2>3, <2>5, <2>7
    <3>2. i \in Live \/ i \in touched
      BY <2>4 DEF OldWhole, Kept
    <3> QED BY <3>1, <3>2 DEF NamedBack
  <2> QED BY <2>3, <2>6, <2>7 DEF Returned
<1> QED BY <1>1, RestoreInvariant, PTL

\* Users undo nothing that the restore has promised: what they remove they have touched.
LEMMA UsersKeep ==
  ASSUME TypeOK, UsersAct
  PROVE  (OldWhole' <=> OldWhole) /\ (NewWhole' <=> NewWhole)
<1>1. /\ built' = built /\ Old \subseteq Ids /\ \A s \in DOMAIN built : built[s] \in Ids
  BY IdsAreNumbers, RecordTypes DEF UsersAct, result
<1>2. \A i \in Ids : (i \in Live' \/ i \in touched') <=> (i \in Live \/ i \in touched)
  BY DEF UsersAct
<1>3. OldWhole' <=> OldWhole
  BY <1>1, <1>2 DEF OldWhole, Kept, Old
<1>4. NewWhole' <=> NewWhole
  BY <1>1, <1>2 DEF NewWhole, Kept, Positions
<1> QED BY <1>3, <1>4

LEMMA PromiseStep ==
  ASSUME RestoreInv, RestoreInv', [Next]_vars
  PROVE  [Promise!Next]_<<OldWhole, NewWhole, verdict>>
<1>1. /\ TypeOK /\ ControlInv /\ BuiltInv /\ ControlInv' /\ BuiltInv'
  BY DEF RestoreInv
<1>2. OldWhole \in BOOLEAN /\ NewWhole \in BOOLEAN /\ OldWhole' \in BOOLEAN
      /\ NewWhole' \in BOOLEAN
  BY DEF OldWhole, NewWhole
<1>3. ASSUME OldWhole' <=> OldWhole, NewWhole' <=> NewWhole
      PROVE  OldWhole' = OldWhole /\ NewWhole' = NewWhole
  BY <1>2, <1>3
<1>4. step # "done" => verdict = "none"
  BY <1>1 DEF ControlInv
\* Before the commit phase and in a rollback.
<1>5. ASSUME OldWhole, OldWhole', verdict = "none", verdict' = verdict PROVE Promise!Prepare
  <2>1. OldWhole' = OldWhole
    BY <1>2, <1>5
  <2> QED BY <1>2, <1>5, <2>1 DEF Promise!Prepare
<1>6. ASSUME step \notin Commit, step # "done", step' \notin Commit, verdict' = verdict
      PROVE  Promise!Prepare
  <2>1. verdict = "none" /\ OldWhole /\ OldWhole'
    BY <1>1, <1>4, <1>6 DEF BuiltInv
  <2> QED BY <1>5, <1>6, <2>1
<1>7. ASSUME ControlInv, BuiltInv, step \in Commit PROVE NewWhole
  <2>1. DOMAIN built = Positions /\ BuiltStands
    BY <1>7 DEF ControlInv, BuiltInv
  <2> QED BY <2>1 DEF BuiltStands, Stands, NewWhole, Kept
<1>8. ASSUME ControlInv', BuiltInv', step' \in Commit PROVE NewWhole'
  <2>1. (DOMAIN built = Positions /\ BuiltStands)'
    BY <1>8 DEF ControlInv, BuiltInv
  <2> QED BY <2>1 DEF BuiltStands, Stands, NewWhole, Kept
<1>9. ASSUME Fails \/ Renames \/ Lists \/ Creates \/ Records \/ Joins \/ Diverts \/ Switches
             \/ Returns \/ Doubts \/ Settles \/ Removes \/ Restores
      PROVE  Promise!Prepare
  <2>1. verdict' = verdict
    BY <1>9 DEF Fails, Renames, Lists, Creates, Records, Joins, Diverts, Switches, Returns,
                Doubts, Settles, Removes, Restores, Recorded
  <2>2. step \notin Commit /\ step # "done"
    BY <1>9 DEF Fails, Renames, Lists, Creates, Records, Joins, Diverts, Switches, Returns,
                Doubts, Settles, Removes, Restores, Forward, Building, Complete, Switching, Commit
  <2>3. step' \notin Commit
    <3>1. CASE Fails
      <4>1. step' \in Undo
        BY <1>1, <3>1, UndoSteps DEF Fails
      <4> QED BY <4>1 DEF Undo, Returning, Commit
    <3>2. CASE Returns \/ Settles
      <4>1. step' \in Undo
        BY <1>1, <3>2, NextPosition, UndoSteps DEF Returns, Settles
      <4> QED BY <4>1 DEF Undo, Returning, Commit
    <3> QED BY <1>9, <3>1, <3>2
            DEF Renames, Lists, Creates, Records, Joins, Follows, Diverts, Switches, SwitchFrom,
                Doubts, Removes, KillFrom, Restores, RenameFrom, Goto, Commit
  <2> QED BY <1>6, <2>1, <2>2, <2>3
<1>10. ASSUME Passes PROVE Promise!Prepare
  <2>1. verdict' = verdict /\ verdict = "none" /\ OldWhole
    BY <1>1, <1>4, <1>10 DEF Passes, Recorded, BuiltInv, Commit
  <2>2. OldWhole'
    BY <1>10, <2>1 DEF Passes, Recorded, world, OldWhole, Kept, Live, Old
  <2> QED BY <1>5, <2>1, <2>2
<1>11. ASSUME Retires PROVE [Promise!Next]_<<OldWhole, NewWhole, verdict>>
  <2>1. verdict = "none" /\ verdict' = verdict /\ touched' = touched
        /\ step \in Commit /\ step' \in Commit
    BY <1>4, <1>11 DEF Retires, Recorded, Commit
  <2>2. NewWhole /\ NewWhole'
    BY <1>1, <1>7, <1>8, <2>1
  <2>3. NewWhole' = NewWhole
    BY <1>2, <2>2
  <2>4. Live' \subseteq Live
    <3>1. CASE UNCHANGED world
      BY <3>1 DEF world, Live
    <3>2. CASE Kill(k)
      BY <1>1, <3>2, AfterKill
    <3> QED BY <1>11, <3>1, <3>2 DEF Retires
  <2>5. CASE OldWhole'
    <3>1. OldWhole
      BY <2>1, <2>4, <2>5 DEF OldWhole, Kept, Old
    <3>2. OldWhole' = OldWhole
      BY <1>2, <2>5, <3>1
    <3> QED BY <2>1, <2>3, <3>2
  <2>6. CASE ~ OldWhole'
    <3>1. OldWhole' = FALSE
      BY <1>2, <2>6
    <3>2. Promise!Retire
      BY <2>1, <2>2, <2>3, <3>1 DEF Promise!Retire
    <3> QED BY <3>2 DEF Promise!Next
  <2> QED BY <2>5, <2>6
<1>12. CASE Report
  <2>1. /\ UNCHANGED <<world, built, touched>> /\ verdict = "none"
        /\ \/ step = "finish" /\ verdict' = "succeeded"
           \/ step = "report" /\ verdict' \in {"rolled back", "rollback incomplete"}
    BY <1>4, <1>12 DEF Report
  <2>2. (OldWhole' <=> OldWhole) /\ (NewWhole' <=> NewWhole)
    BY <2>1 DEF world, OldWhole, NewWhole, Kept, Live, Old, Positions
  <2>3. step = "finish" => NewWhole
    BY <1>1, <1>7 DEF Commit
  <2>4. step = "report" => OldWhole
    BY <1>1, <2>1 DEF BuiltInv, Commit
  <2>5. Promise!Report
    BY <1>3, <2>1, <2>2, <2>3, <2>4 DEF Promise!Report
  <2> QED BY <2>5 DEF Promise!Next
<1>13. CASE UserStep
  <2>1. UsersAct
    BY <1>1, <1>13, UserOutcome
  <2>2. OldWhole' = OldWhole /\ NewWhole' = NewWhole
    BY <1>1, <1>3, <2>1, UsersKeep
  <2>3. verdict' = verdict
    BY <2>1 DEF UsersAct, result
  <2> QED BY <2>2, <2>3
<1>14. CASE UNCHANGED vars
  <2>1. (OldWhole' <=> OldWhole) /\ (NewWhole' <=> NewWhole)
    BY <1>14 DEF vars, world, result, OldWhole, NewWhole, Kept, Live, Old, Positions
  <2>2. verdict' = verdict
    BY <1>14 DEF vars, result
  <2> QED BY <1>3, <2>1, <2>2
<1>15. CASE RestoreStep
  <2>1. Outcome \/ Report
    BY <1>1, <1>15, ForwardOutcome, BackwardOutcome DEF Outcome
  <2> QED BY <1>9, <1>10, <1>11, <1>12, <2>1 DEF Outcome, Promise!Next
<1> QED BY <1>13, <1>14, <1>15 DEF Next

\* restore implements its promise, whatever fails and whatever users do: the originals go
\* only when everything new is there, nothing new goes after that, and the report tells
\* which of the two is left (restore.rs apply_inner, the commit phase).
THEOREM Refinement == Spec => KeepsPromise
<1>1. Init => Promise!Init
  <2> SUFFICES ASSUME Init PROVE Promise!Init
    OBVIOUS
  <2>1. name = Target /\ built = <<>> /\ verdict = "none"
    BY DEF Init
  <2>2. Live = Old /\ 1 \in Positions /\ DOMAIN built = {}
    BY <2>1, Constants DEF Live
  <2>3. OldWhole
    BY <2>2 DEF OldWhole, Kept
  <2>4. ~ NewWhole
    BY <2>2 DEF NewWhole
  <2>5. OldWhole = TRUE /\ NewWhole = FALSE
    BY <2>3, <2>4 DEF OldWhole, NewWhole
  <2> QED BY <2>1, <2>5 DEF Promise!Init
<1>2. RestoreInv /\ RestoreInv' /\ [Next]_vars
        => [Promise!Next]_<<OldWhole, NewWhole, verdict>>
  BY PromiseStep
<1> QED BY <1>1, <1>2, RestoreInvariant, PTL DEF Spec, KeepsPromise, Promise!Spec
=============================================================================
