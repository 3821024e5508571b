---------------------------- MODULE SnapshotModel ----------------------------
(***************************************************************************)
(* The state a snapshot holds (src/model.rs) and what has to be true of it *)
(* before it is written and before it is restored.                         *)
(*                                                                         *)
(* Sessions and windows are numbered in the order of a snapshot, which is  *)
(* that of their ids; 0 is none.  A session is its name, its group, its    *)
(* links (window and index) and the windows it shows and showed last.  A   *)
(* window is what it holds (name, titles, working directories, commands),  *)
(* its panes, its rows, the number of panes its layout is for (0 for a     *)
(* layout that is a name), its active pane and whether it is zoomed.  With  *)
(* the state go whether it has clients, and whether the snapshot has       *)
(* diagnostics (noticed).                                                  *)
(***************************************************************************)
EXTENDS Naturals, Sequences, FiniteSets, FiniteSetsExt

CONSTANT PaneBaseMax    \* TMUX_PANE_BASE_INDEX_MAX

ASSUME PaneBaseAssumption == PaneBaseMax \in Nat

Empty == [sessions |-> <<>>, windows |-> <<>>, clients |-> FALSE, noticed |-> FALSE]

LinkedTo(s) == {s.windows[k].window : k \in DOMAIN s.windows}
UsedIndexes(s) == {s.windows[k].index : k \in DOMAIN s.windows}

\* TmuxState::validate.
SessionValid(s, state) ==
    /\ \A k \in DOMAIN s.windows : /\ s.windows[k].index >= 0
                                   /\ s.windows[k].window \in DOMAIN state.windows
    /\ Cardinality(LinkedTo(s)) = Len(s.windows)
    /\ Cardinality(UsedIndexes(s)) = Len(s.windows)
    /\ {s.active, s.last} \ {0} \subseteq LinkedTo(s)

WindowValid(w) ==
    /\ w.panes # <<>> => w.panes[1].index \in 0..PaneBaseMax
    /\ \A k \in 2..Len(w.panes) : w.panes[k].index = w.panes[k - 1].index + 1
    /\ w.active \in DOMAIN w.panes \cup {0}

Valid(state) ==
    /\ \A n \in DOMAIN state.sessions : SessionValid(state.sessions[n], state)
    /\ UNION {LinkedTo(state.sessions[n]) : n \in DOMAIN state.sessions}
         = DOMAIN state.windows
    /\ \A w \in DOMAIN state.windows : WindowValid(state.windows[w])

\* session_groups: the members of a group, the first of which is its primary.
Primary(n, state) ==
    LET group == state.sessions[n].group
        members == {m \in DOMAIN state.sessions : state.sessions[m].group = group}
    IN  IF group = 0 THEN n ELSE Min(members)

\* validate_layout, as far as it depends on the window.
LayoutFits(w) == w.layout \in {0, Len(w.panes)}

\* link_signature.
Links(s) == {s.windows[k] : k \in DOMAIN s.windows}

\* validate_state_for_restore.
Restorable(state) ==
    /\ state.sessions # <<>>
    /\ \A n \in DOMAIN state.sessions :
         /\ state.sessions[n].windows # <<>>
         /\ Links(state.sessions[n]) = Links(state.sessions[Primary(n, state)])
    /\ \A w \in DOMAIN state.windows :
         LET window == state.windows[w]
         IN  /\ window.panes # <<>>
             /\ \A k \in DOMAIN window.panes : ~window.panes[k].dead
             /\ LayoutFits(window)
=============================================================================
