------------------------------ MODULE RoundTrip ------------------------------
(***************************************************************************)
(* From a tmux server to a snapshot and back: the capture                  *)
(* (src/tmux/capture.rs), or the import of a file that tmux-resurrect      *)
(* wrote (src/import.rs), the checks a snapshot has to pass (src/model.rs, *)
(* src/restore.rs) and the commands that build it again on another server  *)
(* (build_snapshot, restore_properties, restore_zoomed_windows and         *)
(* restore_session_windows of src/restore.rs), one step for each pass      *)
(* through one of their loops.  What may go wrong around the build (lost   *)
(* connections, users, the sessions that are replaced) is in RestoreTx.    *)
(*                                                                         *)
(* Sessions and windows are numbered in the order of their ids, which is   *)
(* the order of a snapshot.  A window's content (name, layout, titles,     *)
(* working directories, automatic-rename) is the number of the window it   *)
(* was saved from, a pane's is its position there; 0 is no window.         *)
(*                                                                         *)
(* A definition named Faulty... is one that follows it with a mistake,     *)
(* used only to show that the properties can fail.                         *)
(***************************************************************************)
EXTENDS TmuxServer, ControlStream, Resurrect

CONSTANTS
    Starts,       \* servers, each with a way to save it and what its user's hooks print
    Bases,        \* values of base-index on the server that is restored to
    Renumbering,  \* values of renumber-windows there
    DefaultRows   \* rows of a window there that is not resized

Commands == <<"S", "W", "P", "M", "C">>

\* Every server can be saved, in every way, with any hooks behind the commands.
RoundTripAssumption ==
    /\ \A start \in Starts :
         /\ IsServer(start.server, PaneBaseMax)
         /\ start.way \in {"capture", "import", "damaged"}
         /\ start.hooks \in [DOMAIN Commands -> {"none", "empty", "text", "error"}]
    /\ Bases \subseteq Nat /\ Renumbering \subseteq BOOLEAN
    /\ DefaultRows \in Nat

ASSUME RoundTripAssumption

VARIABLES
    saved,    \* the server that is saved: [sessions, windows, clients]
    way,      \* how: "capture", "import" of a file of tmux-resurrect, or "damaged"
    hooks,    \* what an after- hook prints behind each command of the capture
    phase,    \* how far capture and restore are
    ended,    \* how the control stream of the capture ended
    source,   \* which blocks the capture took for its results
    snap,     \* the snapshot
    options,  \* of the server that is restored to: [base, renumber]
    sess,     \* its new sessions, in the order of their creation
    wins,     \* its new windows, in the order of their creation
    session_ids, window_ids,  \* saved to new ids, 0 for none yet
    todo,     \* what is left of the current loop
    why       \* why a command was refused

vars == <<saved, way, hooks, phase, ended, source, snap, options, sess, wins,
          session_ids, window_ids, todo, why>>
live == <<options, sess, wins, session_ids, window_ids, todo, why>>

-----------------------------------------------------------------------------
(* Capture *)

\* A window that is linked twice to a session is recorded where it is linked first.
FaultyLinksOf(s) == InOrder(Indexes(s))
LinksOf(s) ==
    InOrder({i \in Indexes(s) :
                \A j \in Indexes(s) : s.links[j] = s.links[i] => i <= j})

\* parse_session and parse_window, for one session.
Recorded(n, s) ==
    [name |-> n, group |-> s.group,
     windows |-> [k \in DOMAIN LinksOf(s) |->
                    [window |-> s.links[LinksOf(s)[k]], index |-> LinksOf(s)[k]]],
     active |-> s.links[s.cur],
     last |-> IF s.stack = <<>> THEN 0 ELSE s.links[Head(s.stack)]]

\* parse_pane, for the panes of one window.
Panes(w) == [k \in 1..w.panes |-> [index |-> w.first + k - 1, dead |-> w.dead]]

\* parse_capture: rows that name sessions and windows of other rows become a graph.
Graph(server, clients) ==
    [sessions |-> [n \in DOMAIN server.sessions |-> Recorded(n, server.sessions[n])],
     windows |-> [w \in DOMAIN server.windows |->
                    [what |-> w, panes |-> Panes(server.windows[w]),
                     rows |-> server.windows[w].rows, layout |-> server.windows[w].panes,
                     active |-> server.windows[w].active,
                     zoomed |-> server.windows[w].zoomed]],
     clients |-> clients, noticed |-> FALSE]

-----------------------------------------------------------------------------
(* What a restore computes from the snapshot before it sends a command *)

Sessions == DOMAIN snap.sessions
Windows == DOMAIN snap.windows
PrimaryOf(n) == Primary(n, snap)
Deferred == {n \in Sessions : PrimaryOf(n) # n}

\* unused_window_index.
Used == UNION {UsedIndexes(snap.sessions[n]) : n \in Sessions}
PlaceholderIndex == Min((0..(Cardinality(Used) + 1)) \ Used)

\* window_owners: the sessions that a window is linked to, and where.
Owners(w) == {n \in Sessions : w \in LinkedTo(snap.sessions[n])}
Owner(w) == Min(Owners(w))
Where(s, w) == s.windows[SelectInSeq(s.windows, LAMBDA l : l.window = w)].index
FaultyIndexIn(n, w) == Where(snap.sessions[Owner(w)], w)
IndexIn(n, w) == Where(snap.sessions[n], w)

\* The sessions that get a link to a window: one member of each group (the first
\* that has it), and not the one the window was created in.
Linkers(w) ==
    {n \in Owners(w) : /\ n = Min({m \in Owners(w) : PrimaryOf(m) = PrimaryOf(n)})
                       /\ PrimaryOf(n) # PrimaryOf(Owner(w))}

-----------------------------------------------------------------------------
(* Steps *)

Init ==
    /\ \E start \in Starts : /\ saved = start.server /\ way = start.way
                             /\ hooks = start.hooks
    /\ phase = "running"
    /\ ended = "open" /\ source = <<>>
    /\ snap = Empty
    /\ options = [base |-> 0, renumber |-> FALSE]
    /\ sess = <<>> /\ wins = <<>>
    /\ session_ids = <<>> /\ window_ids = <<>>
    /\ todo = {} /\ why = "none"

Block(kind, ok, own) == [kind |-> kind, ok |-> ok, own |-> own, flags |-> 0]

\* The block of the k-th command of the capture, and the blocks of a hook.
ResultBlock(k) ==
    Block(IF Commands[k] = "C" /\ ~saved.clients THEN "empty" ELSE Commands[k],
          TRUE, TRUE)
HookBlocks(kind) ==
    IF kind = "none" THEN <<>> ELSE <<Block(kind, kind # "error", FALSE)>>

\* What tmux prints when it runs the commands up to the n-th.
Printed(n) ==
    FlattenSeq([k \in 1..n |-> <<ResultBlock(k)>> \o HookBlocks(hooks[k])])

\* capture_structure_unattached.  n commands succeed; the next one is refused, which
\* makes tmux drop the rest, or the server dies.
Capture ==
    /\ phase = "running" /\ way = "capture"
    /\ \E n \in 0..Len(Commands), ends \in {"exit", "error", "death"} :
         LET stream == IF ends = "error"
                       THEN Append(Printed(n), Block("text", FALSE, TRUE))
                       ELSE Printed(n)
             blocks == GoodBlocks(stream)
             picked == Selected(blocks)
         IN  /\ ends = "exit" <=> n = Len(Commands)
             /\ ended' = ends
             /\ IF /\ OneShot(stream, ends # "death", Len(Commands)) = "ok"
                   /\ \A k \in DOMAIN picked : picked[k] # 0
                THEN /\ source' = [k \in DOMAIN picked |-> blocks[picked[k]]]
                     /\ snap' = Graph(saved, blocks[picked[5]].kind = "C")
                     /\ phase' = IF Valid(snap') THEN "captured" ELSE "invalid"
                ELSE /\ phase' = "no capture"
                     /\ UNCHANGED <<source, snap>>
    /\ UNCHANGED <<saved, way, hooks, live>>

\* import_resurrect; what is left of a damaged file may describe nothing.
Import ==
    /\ phase = "running" /\ way \in {"import", "damaged"}
    /\ \E file \in IF way = "import" THEN {File(saved)} ELSE Damages(File(saved)) :
         /\ snap' = Finished(file)
         /\ phase' = IF snap'.windows = <<>> THEN "no capture"
                     ELSE IF Valid(snap') THEN "captured" ELSE "invalid"
    /\ UNCHANGED <<saved, way, hooks, ended, source, live>>

\* preflight, and the server that the snapshot is restored to.
Preflight ==
    /\ phase = "captured"
    /\ \E base \in Bases, renumber \in Renumbering :
         options' = [base |-> base, renumber |-> renumber]
    /\ IF Restorable(snap)
       THEN /\ phase' = "sessions"
            /\ todo' = Sessions \ Deferred
            /\ session_ids' = [n \in Sessions |-> 0]
            /\ window_ids' = [w \in Windows |-> 0]
       ELSE /\ phase' = "rejected"
            /\ UNCHANGED <<session_ids, window_ids, todo>>
    /\ UNCHANGED <<saved, way, hooks, ended, source, snap, sess, wins, why>>

Loops == <<"sessions", "windows", "links", "placeholders", "members",
           "properties", "zoom", "selection", "done">>

NextLoop ==
    /\ \E k \in 1..(Len(Loops) - 1) :
         /\ phase = Loops[k]
         /\ phase' = Loops[k + 1]
    /\ todo = {}
    /\ todo' = CASE phase' = "placeholders" -> Sessions \ Deferred
                 [] phase' = "members" -> Deferred
                 [] phase' = "selection" -> Sessions
                 [] phase' = "done" -> {}
                 [] OTHER -> Windows
    /\ UNCHANGED <<saved, way, hooks, ended, source, snap, options, sess, wins,
                   session_ids, window_ids, why>>

\* What the passes through the loops leave alone; a refused command ends the build,
\* and what was built so far is removed by the rollback of RestoreTx.
Pass(loop, i, problem) ==
    /\ phase = loop /\ i \in todo
    /\ todo' = todo \ {i}
    /\ why' = problem
    /\ phase' = IF problem = "none" THEN phase ELSE "refused"
    /\ UNCHANGED <<saved, way, hooks, ended, source, snap, options>>

Earliest == IF todo = {} THEN 0 ELSE Min(todo)

\* A command that reports ids is answered with them; what hooks printed before that
\* has flags 0.
Answered ==
    LET own == [Block("ids", TRUE, TRUE) EXCEPT !.flags = 1]
    IN  \A k \in DOMAIN hooks : Reply(Append(HookBlocks(hooks[k]), own)).own

\* new-session with a placeholder window at base-index, and move-window, which tmux
\* refuses when the window is already there.
CreateSession ==
    LET n == Earliest
        placeholder == [what |-> 0, panes |-> <<1>>, rows |-> 0, first |-> 0,
                        active |-> 1, zoomed |-> FALSE]
        created == [group |-> 0, links |-> [i \in {options.base} |-> Len(wins) + 1],
                    cur |-> options.base, stack |-> <<>>]
        same == options.base = PlaceholderIndex
    IN  /\ Pass("sessions", n, CASE ~Answered -> "misread"
                                 [] same -> "same index"
                                 [] OTHER -> "none")
        /\ wins' = Append(wins, placeholder)
        /\ sess' = Append(sess, IF same THEN created
                                ELSE Move(created, options.base, PlaceholderIndex))
        /\ session_ids' = [session_ids EXCEPT ![n] = Len(sess) + 1]
        /\ UNCHANGED window_ids

\* split-window, each time of the pane that was created last.
FaultySplit(n) ==
    LET panes[k \in 1..n] == IF k = 1 THEN <<1>> ELSE InsertAfter(panes[k - 1], 1, k)
    IN  panes[n]
Split(n) ==
    LET panes[k \in 1..n] == IF k = 1 THEN <<1>> ELSE InsertAfter(panes[k - 1], k - 1, k)
    IN  panes[n]

\* new-window in the primary of the first owner, and the splits.
CreateWindow ==
    LET w == Earliest
        at == session_ids[PrimaryOf(Owner(w))]
        index == IndexIn(Owner(w), w)
        state == snap.windows[w]
        n == Len(state.panes)
        rows == IF state.rows > 0 THEN state.rows ELSE DefaultRows
        taken == index \in Indexes(sess[at])
    IN  /\ Pass("windows", w,
                CASE ~Answered -> "misread"
                  [] taken -> "index in use"
                  [] \E k \in 1..(n - 1) : ~RoomToSplit(rows, k) -> "no space"
                  [] OTHER -> "none")
        /\ IF taken THEN UNCHANGED <<wins, sess, window_ids>>
           ELSE /\ wins' = Append(wins,
                       [what |-> state.what, panes |-> Split(n), rows |-> rows,
                        first |-> state.panes[1].index, active |-> 1, zoomed |-> FALSE])
                /\ sess' = [sess EXCEPT ![at] = Put(@, index, Len(wins) + 1)]
                /\ window_ids' = [window_ids EXCEPT ![w] = Len(wins) + 1]
        /\ UNCHANGED session_ids

\* link-window, which also selects the window.  The map of owners has no order.
LinkWindow(w) ==
    LET by(k) == {n \in Linkers(w) : session_ids[PrimaryOf(n)] = k}
        index(k) == IndexIn(Min(by(k)), w)
        linked == {k \in DOMAIN sess : by(k) # {}}
    IN  /\ Pass("links", w,
                IF \E k \in linked : index(k) \in Indexes(sess[k])
                THEN "index in use" ELSE "none")
        /\ sess' = [k \in DOMAIN sess |->
                      IF k \in linked
                      THEN Select(Put(sess[k], index(k), window_ids[w]), index(k))
                      ELSE sess[k]]
        /\ UNCHANGED <<wins, session_ids, window_ids>>

KillPlaceholder(n) ==
    LET left == Unlink(sess[session_ids[n]], PlaceholderIndex)
    IN  /\ Pass("placeholders", n, "none")
        /\ sess' = [sess EXCEPT ![session_ids[n]] =
                      IF options.renumber THEN Renumber(left, options.base) ELSE left]
        /\ UNCHANGED <<wins, session_ids, window_ids>>

\* new-session -t.
CreateMember ==
    LET n == Earliest
        p == session_ids[PrimaryOf(n)]
    IN  /\ Pass("members", n, IF Answered THEN "none" ELSE "misread")
        /\ sess' = Append([sess EXCEPT ![p].group = p], Member(sess[p], p))
        /\ session_ids' = [session_ids EXCEPT ![n] = Len(sess) + 1]
        /\ UNCHANGED <<wins, window_ids>>

\* The panes that were created, in this order, are the saved ones.
FaultyPane(w, k) == snap.windows[w].panes[k].index
Pane(w, k) == wins[window_ids[w]].panes[k]

\* select-layout keeps the order of the panes, select-pane makes one active.
RestoreProperties ==
    LET w == Earliest
    IN  /\ Pass("properties", w, "none")
        /\ wins' = [wins EXCEPT ![window_ids[w]].active = Pane(w, snap.windows[w].active)]
        /\ UNCHANGED <<sess, session_ids, window_ids>>

RestoreZoom ==
    LET w == Earliest
    IN  /\ Pass("zoom", w, "none")
        /\ wins' = [wins EXCEPT ![window_ids[w]].zoomed = snap.windows[w].zoomed]
        /\ UNCHANGED <<sess, session_ids, window_ids>>

\* switch-client to the last window and then to the active one, by index.
FaultyOrder(n) == <<snap.sessions[n].active, snap.sessions[n].last>>
SelectionOrder(n) == <<snap.sessions[n].last, snap.sessions[n].active>>

Show(s, n, w) == IF w = 0 THEN s ELSE Select(s, IndexIn(n, w))

RestoreSelection ==
    LET n == Earliest
        k == session_ids[n]
        order == SelectionOrder(n)
        found == \A w \in {order[1], order[2]} \ {0} : IndexIn(n, w) \in Indexes(sess[k])
    IN  /\ Pass("selection", n, IF found THEN "none" ELSE "no window")
        /\ sess' = IF found THEN [sess EXCEPT ![k] = Show(Show(@, n, order[1]), n, order[2])]
                            ELSE sess
        /\ UNCHANGED <<wins, session_ids, window_ids>>

Next ==
    \/ Capture \/ Import \/ Preflight \/ NextLoop
    \/ CreateSession \/ CreateWindow
    \/ \E w \in todo : LinkWindow(w)
    \/ \E n \in todo : KillPlaceholder(n)
    \/ CreateMember \/ RestoreProperties \/ RestoreZoom \/ RestoreSelection

Spec == Init /\ [][Next]_vars

-----------------------------------------------------------------------------
(* Properties *)

Restored == phase = "done"
Whole == way # "damaged"

\* The session of the server that became a session of the snapshot.
Original(n) == saved.sessions[snap.sessions[n].name]

\* What a session looks like, link by link; a window linked twice to a session is
\* captured once.
OldLinks(s) == IF way = "capture" THEN LinksOf(s) ELSE InOrder(Indexes(s))
Content(k, i) == wins[sess[k].links[i]].what
NewContent(k) == LET order == InOrder(Indexes(sess[k]))
                 IN  [j \in DOMAIN order |-> Content(k, order[j])]

\* The indexes of the restored session are others than the saved ones, because
\* renumber-windows has closed the gaps (or moved them to base-index) with the kill of
\* the placeholder.
Displaced(n) ==
    LET used == UsedIndexes(snap.sessions[n])
    IN  /\ options.renumber
        /\ used # options.base..(options.base + Cardinality(used) - 1)

TypeOK ==
    /\ phase \in {"running", "no capture", "captured", "invalid", "rejected", "refused"}
                   \cup {Loops[k] : k \in DOMAIN Loops}
    /\ way \in {"capture", "import", "damaged"}
    /\ ended \in {"open", "exit", "error", "death"}
    /\ \A k \in DOMAIN sess :
         /\ sess[k].cur \in Indexes(sess[k])
         /\ \A j \in DOMAIN sess[k].stack :
              sess[k].stack[j] \in Indexes(sess[k]) \ {sess[k].cur}
         /\ \A i \in Indexes(sess[k]) : sess[k].links[i] \in DOMAIN wins
         /\ sess[k].group \in {0} \cup DOMAIN sess
    /\ \A k \in DOMAIN wins : wins[k].active \in DOMAIN wins[k].panes

\* Whatever hooks print behind the commands of a capture, empty blocks, text or errors
\* (docs/architecture.md:114-118): a capture whose five commands succeeded is not lost,
\* what it takes for its results are its results, and only the clients can be wrong,
\* when their command was refused.
HooksDoNoHarm ==
    /\ ended = "exit" => /\ phase # "no capture"
                         /\ source # <<>> => snap.clients = saved.clients
    /\ source # <<>> => \A k \in 1..4 : source[k].own

\* Every server, with windows linked to several sessions or twice to one, groups and
\* any selection, has a snapshot that passes validation, captured or imported; only dead
\* panes, and in a damaged file missing rows, keep it from being restored.
EveryServerFits ==
    /\ Whole => phase # "invalid"
    /\ phase = "rejected" /\ Whole =>
         /\ way = "capture"
         /\ \E w \in DOMAIN saved.windows : saved.windows[w].dead

\* A file that lost sessions, links or panes is never imported in silence, wherever it
\* was cut (docs/migrating-from-resurrect.md:79-80, README.md:350).
LossIsNoticed ==
    phase = "captured" /\ ~Whole /\ ~snap.noticed =>
        LET whole == Finished(File(saved))
        IN  <<snap.sessions, snap.windows>> = <<whole.sessions, whole.windows>>

Grouped(ss, m, n) == ss[m].group # 0 /\ ss[m].group = ss[n].group

\* After a restore every session has its windows where they were (in the same order,
\* if they were renumbered), and there are no other windows and no other sessions;
\* what a damaged file has lost is missing, but nothing is where it was not.  A
\* captured window that several sessions share is one window again, and sessions that
\* were in a group are in one again, no others.
LinksRestored ==
    Restored =>
        /\ Len(sess) = Len(snap.sessions)
        /\ Whole => Len(sess) = Len(saved.sessions)
        /\ \A n \in Sessions :
             LET s == Original(n)
                 k == session_ids[n]
                 old == OldLinks(s)
             IN  IF Whole
                 THEN /\ NewContent(k) = [j \in DOMAIN old |-> s.links[old[j]]]
                      /\ Displaced(n) \/ Indexes(sess[k]) = {old[j] : j \in DOMAIN old}
                 ELSE Displaced(n) \/ \A i \in Indexes(sess[k]) :
                        i \in Indexes(s) /\ s.links[i] = Content(k, i)
        /\ way = "capture" =>
             \A k, l \in DOMAIN sess : \A i \in Indexes(sess[k]), j \in Indexes(sess[l]) :
               Content(k, i) = Content(l, j) => sess[k].links[i] = sess[l].links[j]
        /\ Whole => \A m, n \in Sessions :
             m # n => (Grouped(saved.sessions, m, n)
                         <=> Grouped(sess, session_ids[m], session_ids[n]))

\* Each session shows the window it showed, and the last window is the one before,
\* if there was one and, in a capture, it is not the same window at another index.
SelectionRestored ==
    Restored /\ Whole =>
        \A n \in {n \in Sessions : ~Displaced(n)} :
            LET s == Original(n)
                k == session_ids[n]
            IN  /\ Content(k, sess[k].cur) = s.links[s.cur]
                /\ /\ s.stack # <<>>
                   /\ way = "capture" => s.links[Head(s.stack)] # s.links[s.cur]
                   => /\ sess[k].stack # <<>>
                      /\ Content(k, Head(sess[k].stack)) = s.links[Head(s.stack)]
                /\ way = "import" => sess[k].cur = s.cur

\* Each window has its panes in their order, at their indexes, with the same one
\* active and the same zoom.
WindowsRestored ==
    Restored /\ Whole =>
        \A w \in Windows :
            LET new == wins[window_ids[w]]
                old == saved.windows[new.what]
            IN  /\ new.what = snap.windows[w].what
                /\ new.panes = [k \in 1..old.panes |-> k]
                /\ <<new.first, new.active, new.zoomed>>
                     = <<old.first, old.active, old.zoomed>>

\* tmux refuses a command of the build for three reasons only: the placeholder is
\* already at the index it should move to, a window has too few rows for its panes
\* one above the other, or renumber-windows has moved the windows.
RefusedForKnownReasons ==
    phase = "refused" =>
        \/ why = "same index" /\ PlaceholderIndex = options.base
        \/ /\ why = "no space"
           /\ \E w \in DOMAIN saved.windows :
                saved.windows[w].rows < 2 * saved.windows[w].panes - 1
        \/ why = "no window" /\ \E n \in Sessions : Displaced(n)

\* docs/architecture.md:190-191: "Restore bookkeeping chooses a genuinely unused window
\* index".  The index is not used by the snapshot, but may be by the placeholder itself.
PlaceholderHasRoom == why # "same index"
=============================================================================
