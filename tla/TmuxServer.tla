----------------------------- MODULE TmuxServer -----------------------------
(***************************************************************************)
(* What tmux does with the commands that build_snapshot and its callers    *)
(* send (src/restore.rs): a session is its windows by index, the current   *)
(* one and the stack of those that were current before, whose top is the   *)
(* last window.  External to the repository.                               *)
(***************************************************************************)
EXTENDS Ordering, Sequences, FiniteSetsExt

Indexes(s) == DOMAIN s.links

\* What a server can be: sessions with their windows at some indexes, one of them
\* current; those of a group share their windows, and a window is in some session.
IsSession(s, server) ==
    /\ s.group \in Nat
    /\ Indexes(s) \subseteq Nat /\ IsFiniteSet(Indexes(s))
    /\ s.links \in [Indexes(s) -> DOMAIN server.windows]
    /\ s.cur \in Indexes(s) /\ s.stack \in Seq(Indexes(s) \ {s.cur})

IsWindow(w, maxFirst) ==
    /\ {w.panes, w.rows} \subseteq Nat \ {0}
    /\ w.first \in 0..maxFirst /\ w.active \in 1..w.panes
    /\ {w.zoomed, w.dead} \subseteq BOOLEAN

IsServer(server, maxFirst) ==
    LET ss == server.sessions
    IN  /\ ss # <<>> /\ ss \in Seq({ss[n] : n \in DOMAIN ss})
        /\ server.windows \in Seq({server.windows[w] : w \in DOMAIN server.windows})
        /\ \A n \in DOMAIN ss : IsSession(ss[n], server)
        /\ \A m, n \in DOMAIN ss :
              ss[m].group # 0 /\ ss[m].group = ss[n].group => ss[m].links = ss[n].links
        /\ \A w \in DOMAIN server.windows :
              /\ IsWindow(server.windows[w], maxFirst)
              /\ \E n \in DOMAIN ss : \E i \in Indexes(ss[n]) : ss[n].links[i] = w
        /\ server.clients \in BOOLEAN

Drop(stack, i) == Picked(stack, {k \in DOMAIN stack : stack[k] # i})

\* switch-client and every command that makes a window current.
Select(s, i) ==
    IF i = s.cur THEN s
    ELSE [s EXCEPT !.cur = i, !.stack = <<s.cur>> \o Drop(@, i)]

\* new-window -d, and link-window before it selects.
Put(s, i, w) ==
    [s EXCEPT !.links = [j \in DOMAIN @ \cup {i} |-> IF j = i THEN w ELSE @[j]]]

\* The window that becomes current when the current one goes: the last one, or
\* the one before it, or the one with the highest index.
Successor(s) ==
    LET lower == {j \in Indexes(s) : j < s.cur}
    IN  IF s.stack # <<>> THEN Head(s.stack)
        ELSE IF lower # {} THEN Max(lower)
        ELSE Max(Indexes(s))

\* kill-window, and the second half of move-window.
Unlink(s, i) ==
    LET left == IF s.cur = i THEN Select(s, Successor(s)) ELSE s
    IN  [left EXCEPT !.links = [j \in DOMAIN @ \ {i} |-> @[j]],
                     !.stack = Drop(@, i)]

Move(s, i, j) == Unlink(Select(Put(s, j, s.links[i]), j), i)

\* The option renumber-windows closes the gaps after a kill-window.
NewIndex(s, base, i) == base + Cardinality({j \in Indexes(s) : j < i})

Renumber(s, base) ==
    LET order == InOrder(Indexes(s))
    IN  [s EXCEPT !.links = [i \in base..(base + Len(order) - 1)
                               |-> s.links[order[i - base + 1]]],
                  !.cur = NewIndex(s, base, @),
                  !.stack = [k \in DOMAIN @ |-> NewIndex(s, base, @[k])]]

\* new-session -t: the new member shares the windows of its group and shows the
\* first one.
Member(s, id) ==
    Select([s EXCEPT !.stack = <<>>, !.group = id], Min(Indexes(s)))

\* split-window halves a pane of the newest pane's rows, after resize-pane -U has
\* given it all but one row and a border for each pane above it.
RoomToSplit(rows, panes) == rows - 2 * (panes - 1) >= 3

\* The new pane follows the one that was split.
InsertAfter(panes, target, p) ==
    LET k == CHOOSE k \in DOMAIN panes : panes[k] = target
    IN  SubSeq(panes, 1, k) \o <<p>> \o SubSeq(panes, k + 1, Len(panes))
=============================================================================
