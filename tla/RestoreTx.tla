------------------------------ MODULE RestoreTx ------------------------------
(***************************************************************************)
(* apply() of restore.rs: replace the sessions of a tmux server by those   *)
(* of a snapshot, one tmux command at a time, over two control connections *)
(* (`client` for the commands that can be rolled back and for the          *)
(* rollback, `final` from the moment the first new session exists).        *)
(*                                                                         *)
(* Between two commands the users of the server may do anything: close and *)
(* open sessions, attach, switch and detach terminals.  A command may be   *)
(* refused, and a connection may end with the reply to a command that was  *)
(* or was not carried out.  `touched` records what the users changed, so   *)
(* that the properties speak of what the restore did.                      *)
(*                                                                         *)
(* Left out: what is inside a session.  Windows, panes, properties and     *)
(* processes are steps that may fail; a session is a name.  The restore's  *)
(* own control clients are never switched and are left out, too.           *)
(*                                                                         *)
(* A definition named Faulty... is the one that follows it with a mistake, *)
(* used only to show that the properties can fail.                         *)
(***************************************************************************)
EXTENDS Naturals, Sequences, FiniteSets, SequencesExt

CONSTANTS
    Target,      \* names of the sessions of the server, as captured
    Backup,      \* the temporary names chosen for them
    Saved,       \* names of the sessions of the snapshot
    Deferred,    \* positions in Saved of group members other than the first
    Preferred,   \* client_state of the snapshot, most recently active first
    Terminals,   \* ordinary tmux clients
    UserNames,   \* names users give to sessions of their own
    MaxFaults,   \* bound: refused commands and lost connections
    MaxActs      \* bound: what users do meanwhile

RestoreAssumption ==
    /\ \A list \in {Target, Backup, Saved, Preferred} : list \in Seq(ToSet(list))
    /\ Len(Target) > 0 /\ Len(Saved) > 0 /\ Len(Backup) = Len(Target)
    /\ IsInjective(Target) /\ IsInjective(Backup) /\ IsInjective(Saved)
    /\ ToSet(Backup) \cap (ToSet(Target) \cup ToSet(Saved)) = {}
    /\ Deferred \subseteq 2 .. Len(Saved)
    /\ \A p \in ToSet(Preferred) :
          p.to \in 1 .. Len(Saved) /\ p.last \in 0 .. Len(Saved)
    /\ IsFiniteSet(Terminals) /\ Terminals \cap Nat = {}
    /\ {MaxFaults, MaxActs} \subseteq Nat

ASSUME RestoreAssumption

VARIABLES
    name,     \* the live sessions and their names
    at,       \* the session each terminal is attached to, 0 when it is closed
    last,     \* the last session id the server gave out
    up,       \* the connections that are open
    step,     \* what the restore does next
    k,        \* the position in the list it works on
    renamed,  \* positions in Target that were renamed
    listed,   \* the terminals found before the build, most active first
    created,  \* ids of the sessions it knows it has created
    built,    \* the ids of the sessions of the snapshot, by position
    made,     \* a session that was created and is not recorded yet
    switched, \* positions in listed that were switched
    undone,   \* every rollback command so far succeeded
    verdict,  \* the report
    touched,  \* sessions and terminals users changed after the restore listed them
    faults, acts

world  == <<name, at, last>>
result == <<renamed, listed, created, built, made, switched, undone, verdict>>
vars   == <<world, up, step, k, result, touched, faults, acts>>

-----------------------------------------------------------------------------
Old == 1 .. Len(Target)
Positions == 1 .. Len(Saved)
Live == DOMAIN name
Names == {name[i] : i \in Live}
Drop(f, i) == [j \in DOMAIN f \ {i} |-> f[j]]
Extend(f, i, v) == [j \in DOMAIN f \cup {i} |-> IF j = i THEN v ELSE f[j]]
Touch(s) == touched' = touched \cup s

Init ==
    /\ name = Target
    /\ at \in [Terminals -> Old]
    /\ last = Len(Target)
    /\ up = {"client"}
    /\ step = "rename" /\ k = 1
    /\ renamed = <<>> /\ listed = <<>> /\ created = <<>> /\ built = <<>>
    /\ made = 0 /\ switched = {} /\ undone = TRUE /\ verdict = "none"
    /\ touched = {} /\ faults = 0 /\ acts = 0

-----------------------------------------------------------------------------
\* tmux.

NewSession(n) ==
    /\ last' = last + 1
    /\ name' = Extend(name, last', n)
    /\ UNCHANGED at

Rename(i, n) == name' = [name EXCEPT ![i] = n] /\ UNCHANGED <<at, last>>
CanRename(i, n) == i \in Live /\ \A j \in Live \ {i} : name[j] # n

\* detach-on-destroy decides what becomes of the terminals of a session.
Kill(i) ==
    /\ name' = Drop(name, i)
    /\ at' \in [Terminals -> Live \cup {0}]
    /\ \A t \in Terminals : IF at[t] = i THEN at'[t] # i ELSE at'[t] = at[t]
    /\ UNCHANGED last

Switch(t, i) == at' = [at EXCEPT ![t] = i] /\ UNCHANGED <<name, last>>
CanSwitch(t, i) == at[t] # 0 /\ i \in Live

\* One command over a connection.  It is carried out and confirmed (Then), or it
\* fails (Else): tmux cannot or will not do it, or the connection ends with the
\* command carried out or not.
Command(connection, possible, Effect, Then, Else) ==
    \/ /\ connection \in up /\ possible
       /\ Effect /\ Then
       /\ UNCHANGED <<up, faults>>
    \/ /\ connection \notin up \/ ~possible
       /\ Else
       /\ UNCHANGED <<world, up, faults>>
    \/ /\ connection \in up /\ possible /\ faults < MaxFaults
       /\ faults' = faults + 1
       /\ Else
       /\ \/ UNCHANGED <<world, up>>
          \/ up' = up \ {connection} /\ (UNCHANGED world \/ Effect)

-----------------------------------------------------------------------------
\* Where the code goes next.

Goto(s, i) == step' = s /\ k' = i
Primaries == Positions \ Deferred
NextOf(here, S, there) ==
    LET rest == {j \in S : j > k} IN
    IF rest # {} THEN Goto(here, Min(rest)) ELSE there

\* Rollback goes through listed in order, then backwards through created and
\* renamed.  Terminals whose session was not captured are passed over.
RenameFrom(i) == IF i > 0 THEN Goto("rename back", i) ELSE Goto("report", 0)
KillFrom(i) == IF i > 0 THEN Goto("kill", i) ELSE RenameFrom(Len(renamed))
BackFrom(i) ==
    LET rest == {j \in DOMAIN listed : j >= i /\ listed[j].from \in Old} IN
    IF rest # {} THEN Goto("switch back", Min(rest)) ELSE KillFrom(Len(created))
Rollback == BackFrom(1)

-----------------------------------------------------------------------------
\* The reversible part.

RenameBackup ==
    /\ step = "rename"
    /\ Command("client", CanRename(k, Backup[k]), Rename(k, Backup[k]),
               /\ renamed' = Append(renamed, k)
               /\ NextOf("rename", Old, Goto("list", 0)),
               Rollback /\ UNCHANGED renamed)
    /\ UNCHANGED <<listed, created, built, made, switched, undone, verdict, touched, acts>>

\* The terminals in the order of their activity, which may be any.
Present == {t \in Terminals : at[t] # 0}

ListClients ==
    /\ step = "list"
    /\ Command("client", TRUE, UNCHANGED world,
               /\ \E order \in SetToSeqs(Present) :
                     listed' = [j \in DOMAIN order |->
                                  [terminal |-> order[j], from |-> at[order[j]]]]
               /\ touched' = touched \ Terminals
               /\ Goto("create", 1),
               Rollback /\ UNCHANGED <<listed, touched>>)
    /\ UNCHANGED <<renamed, created, built, made, switched, undone, verdict, acts>>

CreateSession ==
    /\ step = "create"
    /\ Command("client", Saved[k] \notin Names, NewSession(Saved[k]),
               made' = last' /\ Goto("move", k),
               Rollback /\ UNCHANGED made)
    /\ UNCHANGED <<renamed, listed, created, built, switched, undone, verdict, touched, acts>>

\* The session is recorded for the rollback once its placeholder window has been
\* moved out of the way.
MovePlaceholder ==
    /\ step = "move"
    /\ Command("client", made \in Live, UNCHANGED world,
               /\ created' = Append(created, made)
               /\ built' = Extend(built, k, made)
               /\ made' = 0
               /\ NextOf("create", Primaries, Goto("windows", 0)),
               Rollback /\ UNCHANGED <<created, built, made>>)
    /\ UNCHANGED <<renamed, listed, switched, undone, verdict, touched, acts>>

BuildWindows ==
    /\ step = "windows"
    /\ Command("client", ToSet(created) \subseteq Live, UNCHANGED world,
               IF Deferred # {} THEN Goto("group", Min(Deferred)) ELSE Goto("connect", 0),
               Rollback)
    /\ UNCHANGED <<result, touched, acts>>

FaultyCreateMember ==
    /\ step = "group"
    /\ Command("client", Saved[k] \notin Names, NewSession(Saved[k]),
               /\ built' = Extend(built, k, last')
               /\ NextOf("group", Deferred, Goto("connect", 0)),
               Rollback /\ UNCHANGED built)
    /\ UNCHANGED <<renamed, listed, created, made, switched, undone, verdict, touched, acts>>

CreateMember ==
    /\ step = "group"
    /\ Command("client", Saved[k] \notin Names, NewSession(Saved[k]),
               /\ created' = Append(created, last')
               /\ built' = Extend(built, k, last')
               /\ NextOf("group", Deferred, Goto("connect", 0)),
               Rollback /\ UNCHANGED <<created, built>>)
    /\ UNCHANGED <<renamed, listed, made, switched, undone, verdict, touched, acts>>

ConnectFinal ==
    /\ step = "connect"
    /\ \/ /\ built[1] \in Live
          /\ up' = up \cup {"final"} /\ Goto("properties", 0)
          /\ UNCHANGED faults
       \/ /\ built[1] \notin Live /\ Rollback
          /\ UNCHANGED <<up, faults>>
       \/ /\ faults < MaxFaults /\ faults' = faults + 1 /\ Rollback
          /\ UNCHANGED up
    /\ UNCHANGED <<world, result, touched, acts>>

\* The session of the snapshot a terminal is switched to: by saved client
\* state, else by the name of the session it was in, else the first.
Namesakes(j) ==
    {s \in Positions : listed[j].from \in Old /\ Saved[s] = Target[listed[j].from]}
Goal(j) ==
    IF j \in DOMAIN Preferred THEN Preferred[j].to
    ELSE IF Namesakes(j) # {} THEN Min(Namesakes(j)) ELSE 1
Detour(j) ==
    IF j \in DOMAIN Preferred /\ Preferred[j].last \notin {0, Preferred[j].to}
    THEN Preferred[j].last ELSE 0

SwitchFrom(j) ==
    IF j > Len(listed) THEN Goto("verify", 0)
    ELSE Goto(IF Detour(j) # 0 THEN "switch last" ELSE "switch", j)

\* restore_properties, start_panes, restore_zoomed_windows,
\* restore_session_windows and restore_pane_titles.
RestoreProperties ==
    /\ step = "properties"
    /\ Command("final", ToSet(created) \subseteq Live, UNCHANGED world,
               SwitchFrom(1), Rollback)
    /\ UNCHANGED <<result, touched, acts>>

Terminal == listed[k].terminal

SwitchLast ==
    /\ step = "switch last"
    /\ Command("final", CanSwitch(Terminal, built[Detour(k)]),
               Switch(Terminal, built[Detour(k)]),
               Goto("switch", k), Goto("inventory", k))
    /\ UNCHANGED <<result, touched, acts>>

SwitchClient ==
    /\ step = "switch"
    /\ Command("final", CanSwitch(Terminal, built[Goal(k)]),
               Switch(Terminal, built[Goal(k)]),
               switched' = switched \cup {k} /\ SwitchFrom(k + 1),
               Goto("inventory", k) /\ UNCHANGED switched)
    /\ UNCHANGED <<renamed, listed, created, built, made, undone, verdict, touched, acts>>

FaultyInventory ==
    /\ step = "inventory"
    /\ Command("final", TRUE, UNCHANGED world, SwitchFrom(k + 1), Rollback)
    /\ UNCHANGED <<result, touched, acts>>

\* A terminal that cannot be switched may have been closed meanwhile.
Inventory ==
    /\ step = "inventory"
    /\ Command("final", TRUE, UNCHANGED world,
               IF at[Terminal] # 0 THEN Rollback ELSE SwitchFrom(k + 1),
               Rollback)
    /\ UNCHANGED <<result, touched, acts>>

\* list_clients at the end of switch_clients.
Verify ==
    /\ step = "verify"
    /\ Command("final", TRUE, UNCHANGED world,
               IF \E j \in switched : at[listed[j].terminal] \notin {0, built[Goal(j)]}
               THEN Rollback ELSE Goto("retire", 1),
               Rollback)
    /\ UNCHANGED <<result, touched, acts>>

-----------------------------------------------------------------------------
\* The irreversible part: what cannot be removed is only a warning.

RetireNext == NextOf("retire", Old, Goto("finish", 0))

FaultyRetireAndUndo ==
    /\ step = "retire"
    /\ Command("final", k \in Live, Kill(k), RetireNext, Rollback)
    /\ UNCHANGED <<result, touched, acts>>

FaultyRetireByName ==
    /\ step = "retire"
    /\ LET victims == {i \in Live : name[i] = Target[k]} IN
       Command("final", victims # {}, Kill(Min(victims)), RetireNext, RetireNext)
    /\ UNCHANGED <<result, touched, acts>>

Retire ==
    /\ step = "retire"
    /\ Command("final", k \in Live, Kill(k), RetireNext, RetireNext)
    /\ UNCHANGED <<result, touched, acts>>

-----------------------------------------------------------------------------
\* Rollback.

SwitchBack ==
    /\ step = "switch back"
    /\ Command("client", CanSwitch(Terminal, listed[k].from),
               Switch(Terminal, listed[k].from),
               BackFrom(k + 1), Goto("back inventory", k))
    /\ UNCHANGED <<result, touched, acts>>

BackInventory ==
    /\ step = "back inventory"
    /\ Command("client", TRUE, UNCHANGED world,
               undone' = (undone /\ at[Terminal] = 0) /\ BackFrom(k + 1),
               undone' = FALSE /\ BackFrom(k + 1))
    /\ UNCHANGED <<renamed, listed, created, built, made, switched, verdict, touched, acts>>

KillNew ==
    /\ step = "kill"
    /\ Command("client", created[k] \in Live, Kill(created[k]),
               UNCHANGED undone /\ KillFrom(k - 1),
               undone' = FALSE /\ KillFrom(k - 1))
    /\ UNCHANGED <<renamed, listed, created, built, made, switched, verdict, touched, acts>>

FaultyRenameBack ==
    /\ step = "rename back"
    /\ LET i == renamed[k] IN
       Command("client", CanRename(i, Target[i]), Rename(i, Target[i]),
               RenameFrom(k - 1), RenameFrom(k - 1))
    /\ UNCHANGED <<result, touched, acts>>

RenameBack ==
    /\ step = "rename back"
    /\ LET i == renamed[k] IN
       Command("client", CanRename(i, Target[i]), Rename(i, Target[i]),
               UNCHANGED undone /\ RenameFrom(k - 1),
               undone' = FALSE /\ RenameFrom(k - 1))
    /\ UNCHANGED <<renamed, listed, created, built, made, switched, verdict, touched, acts>>

Report ==
    /\ \/ step = "finish" /\ verdict' = "succeeded"
       \/ step = "report" /\ undone /\ verdict' = "rolled back"
       \/ step = "report" /\ ~undone /\ verdict' = "rollback incomplete"
    /\ Goto("done", 0)
    /\ UNCHANGED <<world, up, renamed, listed, created, built, made, switched, undone,
                   touched, faults, acts>>

-----------------------------------------------------------------------------
\* Users.

Act ==
    /\ verdict = "none" /\ acts < MaxActs
    /\ acts' = acts + 1
    /\ UNCHANGED <<up, step, k, result, faults>>

UserOpens(n) ==
    /\ n \notin Names
    /\ NewSession(n) /\ Touch({last'}) /\ Act

UserCloses(i) ==
    /\ Cardinality(Live) > 1
    /\ Kill(i) /\ Touch({i} \cup {t \in Terminals : at[t] = i}) /\ Act

UserRenames(i, n) ==
    /\ CanRename(i, n)
    /\ Rename(i, n) /\ Touch({i}) /\ Act

\* An attached terminal is switched, or a closed one is attached again.
UserAttaches(t, i) ==
    /\ at[t] # i
    /\ Switch(t, i) /\ Touch({t}) /\ Act

UserDetaches(t) ==
    /\ at[t] # 0
    /\ Switch(t, 0) /\ Touch({t}) /\ Act

-----------------------------------------------------------------------------
RestoreStep ==
    \/ RenameBackup \/ ListClients \/ CreateSession \/ MovePlaceholder \/ BuildWindows
    \/ CreateMember \/ ConnectFinal \/ RestoreProperties \/ SwitchLast \/ SwitchClient
    \/ Inventory \/ Verify \/ Retire \/ SwitchBack \/ BackInventory \/ KillNew
    \/ RenameBack \/ Report

UserStep ==
    \/ \E n \in UserNames : UserOpens(n)
    \/ \E i \in Live :
          \/ UserCloses(i)
          \/ \E n \in UserNames : UserRenames(i, n)
          \/ \E t \in Terminals : UserAttaches(t, i)
    \/ \E t \in Terminals : UserDetaches(t)

Next == RestoreStep \/ UserStep

Spec == Init /\ [][Next]_vars

-----------------------------------------------------------------------------
\* Properties.

Ids == 1 .. last
Steps == {"rename", "list", "create", "move", "windows", "group", "connect", "properties",
          "switch last", "switch", "inventory", "verify", "retire", "switch back",
          "back inventory", "kill", "rename back", "report", "finish", "done"}

\* The values every variable can take; what is built is what the rollback knows
\* it has to remove.
TypeOK ==
    /\ last \in Nat /\ Live \cup Old \subseteq Ids
    /\ at \in [Terminals -> Live \cup {0}]
    /\ up \subseteq {"client", "final"}
    /\ step \in Steps /\ k \in Nat
    /\ renamed \in Seq(Old)
    /\ listed \in Seq([terminal : Terminals, from : Ids])
    /\ created \in Seq(Ids \ Old)
    /\ DOMAIN built \subseteq Positions
    /\ {built[s] : s \in DOMAIN built} = ToSet(created)
    /\ made \in {0} \cup (Ids \ Old)
    /\ switched \subseteq DOMAIN listed
    /\ undone \in BOOLEAN
    /\ verdict \in {"none", "succeeded", "rolled back", "rollback incomplete"}
    /\ touched \subseteq Ids \cup Terminals
    /\ faults \in 0 .. MaxFaults /\ acts \in 0 .. MaxActs

\* What is left that users have not touched.
Kept(i) == i \in Live \/ i \in touched

\* "Whole": nothing is missing that users have not removed themselves.
OldWhole == \A i \in Old : Kept(i)
NewWhole == \A s \in Positions : s \in DOMAIN built /\ Kept(built[s])
Promise == INSTANCE AtomicReplace WITH old <- OldWhole, new <- NewWhole

\* restore implements its promise, whatever fails and whatever users do: the
\* originals go only when everything new is there, nothing new goes after that,
\* and the report tells which of the two is left (restore.rs apply_inner, the
\* commit phase).
KeepsPromise == Promise!Spec

\* After a success every session of the snapshot that users left alone is there,
\* under its own name, although the originals had the same names when the
\* restore began (restore.rs apply_inner).
RestoredNames ==
    verdict = "succeeded" =>
        \A s \in Positions :
            built[s] \notin touched => built[s] \in Live /\ name[built[s]] = Saved[s]

\* When the originals are about to be destroyed, or have been, every terminal
\* that was found shows the session that was meant for it, unless its user took
\* it elsewhere (restore.rs switch_clients).
TerminalsArrived ==
    step \in {"retire", "finish"} \/ verdict = "succeeded" =>
        \A j \in DOMAIN listed :
            listed[j].terminal \in touched
            \/ at[listed[j].terminal] = built[Goal(j)]

RolledBack == verdict = "rolled back"

\* A rollback that is reported complete leaves none of the sessions that were
\* recorded, every original under its own name unless even the first of them
\* was not known to be renamed, and every terminal that was in an original back
\* in it (restore.rs apply_inner, the Err branch).
RollbackIsTrue ==
    RolledBack =>
        /\ Live \ (Old \cup touched) \subseteq {made}
        /\ renamed # <<>> =>
              \A i \in Old : i \in touched \/ (i \in Live /\ name[i] = Target[i])
        /\ \A j \in DOMAIN listed :
              listed[j].from \in Old /\ listed[j].terminal \notin touched
                => at[listed[j].terminal] = listed[j].from

\* A failure before the commit point restores the session names
\* (README.md:285-286; restore.rs apply_inner).
RestoresNames ==
    RolledBack => \A i \in Old : i \in touched \/ name[i] = Target[i]
=============================================================================
