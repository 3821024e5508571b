------------------------------ MODULE Resurrect ------------------------------
(***************************************************************************)
(* Importing a file of tmux-resurrect (src/import.rs): one pass over the   *)
(* rows for the windows, one for panes, groups and clients, then groups    *)
(* are resolved and what is missing gets a default.  A file that was cut   *)
(* short, or has rows that cannot be read, is imported as far as it goes;  *)
(* what was noticed is kept as diagnostics.                                *)
(*                                                                         *)
(* A row is a record of its fields.  Sessions go by their names, windows   *)
(* by the name of their session and their index.  How a pane row with      *)
(* shifted or additional fields is repaired is left out.                   *)
(*                                                                         *)
(* A definition named Faulty... is one that follows it with a mistake,     *)
(* used only to show that the properties can fail.                         *)
(***************************************************************************)
EXTENDS SnapshotModel, SequencesExt

NewBuilder == [sessions |-> <<>>, windows |-> <<>>, groups |-> <<>>, clients |-> 0,
               noticed |-> FALSE]

Key(r) == <<r.session, r.window>>
Note(b) == [b EXCEPT !.noticed = TRUE]

\* Builder::ensure_session, and a link to the window of a row; links are keys of
\* windows by index.
Linked(b, r) ==
    LET old == IF r.session \in DOMAIN b.sessions THEN b.sessions[r.session]
               ELSE [group |-> 0, links |-> <<>>, active |-> <<>>, last |-> <<>>]
        new == [old EXCEPT !.links = @ @@ (r.window :> Key(r))]
    IN  [b EXCEPT !.sessions = (r.session :> new) @@ @]

\* Builder::parse_window.
ParseWindow(b, r) ==
    [Linked(b, r) EXCEPT
       !.sessions[r.session].active = IF r.active THEN Key(r) ELSE @,
       !.sessions[r.session].last = IF r.last THEN Key(r) ELSE @,
       !.windows = (Key(r) :> [what |-> r.what, panes |-> <<>>, active |-> {},
                               rows |-> r.rows, layout |-> r.layout,
                               zoomed |-> r.zoomed]) @@ @]

\* Builder::parse_pane.  A window without a row of its own gets the layout "tiled".
Unknown(b, r) ==
    [Linked(b, r) EXCEPT
       !.windows = @ @@ (Key(r) :> [what |-> r.what, panes |-> <<>>, active |-> {},
                                    rows |-> 0, layout |-> 0, zoomed |-> r.zoomed])]
AddPane(b, r) ==
    [b EXCEPT !.windows[Key(r)].panes = Append(@, [index |-> r.index, dead |-> FALSE]),
              !.windows[Key(r)].active = IF r.active THEN {r.index} ELSE @]
FaultyParsePane(b, r) ==
    AddPane(IF Key(r) \in DOMAIN b.windows THEN b ELSE Unknown(b, r), r)
ParsePane(b, r) ==
    AddPane(IF Key(r) \in DOMAIN b.windows THEN b ELSE Note(Unknown(b, r)), r)

ParseOther(b, r) ==
    CASE r.kind = "group" -> [b EXCEPT !.groups = Append(@, r)]
      [] r.kind = "state" -> [b EXCEPT !.clients = r.current]
      [] r.kind = "unreadable" -> Note(b)
      [] OTHER -> b

\* Builder::parse.
Kind(rows, kind) == SelectSeq(rows, LAMBDA r : r.kind = kind)
Parsed(rows) ==
    LET windows == FoldLeft(ParseWindow, NewBuilder, Kind(rows, "window"))
        panes == FoldLeft(ParsePane, windows, Kind(rows, "pane"))
    IN  FoldLeft(ParseOther, panes, rows)

\* Builder::finish, for one group row: original and copy are a group of the original's
\* name.
WindowAt(session, index) ==
    IF index \subseteq DOMAIN session.links /\ index # {}
    THEN session.links[Min(index)] ELSE <<>>
Copy(b, r) ==
    LET original == b.sessions[r.original]
    IN  [group |-> r.original, links |-> original.links,
         active |-> WindowAt(original, r.active), last |-> WindowAt(original, r.last)]
Join(b, r) ==
    IF r.original \notin DOMAIN b.sessions THEN Note(b)
    ELSE [b EXCEPT !.sessions =
            (r.session :> Copy(b, r))
              @@ (r.original :> [b.sessions[r.original] EXCEPT !.group = r.original])
              @@ @]

\* The order of ids is taken to be that of names and indexes.
Before(k, l) == k[1] < l[1] \/ (k[1] = l[1] /\ k[2] < l[2])

\* Builder::finish.
Finished(rows) ==
    LET parsed == Parsed(rows)
        b == FoldLeft(Join, parsed, parsed.groups)
        names == SetToSortSeq(DOMAIN b.sessions, <)
        keys == SetToSortSeq(DOMAIN b.windows, Before)
        Number(key) == SelectInSeq(keys, LAMBDA k : k = key)
        Session(name) ==
            LET s == b.sessions[name]
                order == SetToSortSeq(DOMAIN s.links, <)
            IN  [name |-> name, group |-> s.group,
                 windows |-> [k \in DOMAIN order |->
                                [window |-> Number(s.links[order[k]]), index |-> order[k]]],
                 active |-> Number(IF s.active = <<>> THEN s.links[order[1]] ELSE s.active),
                 last |-> Number(s.last)]
        Window(w) ==
            LET panes == SortSeq(w.panes, LAMBDA p, q : p.index < q.index)
                active == SelectInSeq(panes, LAMBDA p : p.index \in w.active)
            IN  [w EXCEPT !.panes = panes,
                          !.active = IF active # 0 THEN active ELSE Min({1, Len(panes)})]
    IN  [sessions |-> [k \in DOMAIN names |-> Session(names[k])],
         windows |-> [k \in DOMAIN keys |-> Window(b.windows[keys[k]])],
         clients |-> b.clients \in DOMAIN b.sessions,
         noticed |-> b.noticed \/ b.clients \notin {0} \cup DOMAIN b.sessions]

\* What tmux-resurrect writes about a server: the members of a group but the first as
\* rows that name the first, then the panes and the windows of all other sessions.
First(n, ss) ==
    Min({m \in DOMAIN ss : m = n \/ (ss[n].group # 0 /\ ss[m].group = ss[n].group)})
LastIndex(s) == IF s.stack = <<>> THEN {} ELSE {Head(s.stack)}

GroupRow(n, ss) ==
    [kind |-> "group", session |-> n, original |-> First(n, ss), active |-> {ss[n].cur},
     last |-> LastIndex(ss[n])]
WindowRow(n, i, s, w) ==
    [kind |-> "window", session |-> n, window |-> i, what |-> s.links[i],
     active |-> i = s.cur, last |-> i \in LastIndex(s), zoomed |-> w.zoomed,
     rows |-> w.rows, layout |-> w.panes]
PaneRows(n, i, s, w) ==
    [k \in 1..w.panes |->
       [kind |-> "pane", session |-> n, window |-> i, what |-> s.links[i],
        zoomed |-> w.zoomed, index |-> w.first + k - 1, active |-> k = w.active]]

File(server) ==
    LET ss == server.sessions
        all == [n \in DOMAIN ss |-> n]
        copies == SelectSeq(all, LAMBDA n : First(n, ss) # n)
        own == SelectSeq(all, LAMBDA n : First(n, ss) = n)
        indexes(n) == SetToSortSeq(DOMAIN ss[n].links, <)
        window(n, i) == server.windows[ss[n].links[i]]
    IN  [k \in DOMAIN copies |-> GroupRow(copies[k], ss)]
          \o FlattenSeq([k \in DOMAIN own |-> LET n == own[k] IN
                FlattenSeq([j \in DOMAIN indexes(n) |-> LET i == indexes(n)[j] IN
                    PaneRows(n, i, ss[n], window(n, i))])])
          \o FlattenSeq([k \in DOMAIN own |-> LET n == own[k] IN
                [j \in DOMAIN indexes(n) |-> LET i == indexes(n)[j] IN
                    WindowRow(n, i, ss[n], window(n, i))]])
          \o (IF server.clients THEN <<[kind |-> "state", current |-> 1]>> ELSE <<>>)

\* The file was cut short when it was written, or one of its rows cannot be read.
Damages(file) ==
    {SubSeq(file, 1, n) : n \in 0..(Len(file) - 1)}
      \cup {ReplaceAt(file, n, [kind |-> "unreadable"]) : n \in DOMAIN file}
=============================================================================
