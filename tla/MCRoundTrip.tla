----------------------------- MODULE MCRoundTrip -----------------------------
(* Servers of one or two independent sessions, or of a group and at most one   *)
(* more session, over two windows and three indexes; windows of several shapes *)
(* and hooks of every kind on a small server.                                  *)
EXTENDS RoundTrip

Shape(panes, rows, first, active, zoomed, dead) ==
    [panes |-> panes, rows |-> rows, first |-> first, active |-> active,
     zoomed |-> zoomed, dead |-> dead]
Plain == Shape(1, 2, 0, 1, FALSE, FALSE)
Shapes == {Plain, Shape(3, 5, 1, 2, TRUE, FALSE), Shape(3, 5, 0, 1, FALSE, FALSE),
           Shape(3, 4, 0, 3, FALSE, FALSE), Shape(1, 2, 0, 1, FALSE, TRUE)}

Session(links, cur, stack) ==
    [group |-> 0, links |-> links, cur |-> cur, stack |-> stack]

\* Every way to link windows of a set to indexes and to select among the links.
SessionsOver(W, I) ==
    UNION {{Session(links, cur, stack) :
              cur \in DOMAIN links, stack \in {<<>>} \cup {<<i>> : i \in DOMAIN links}}
             : links \in UNION {[D -> W] : D \in SUBSET I \ {{}}}}
Sound(s) == s.stack = <<>> \/ Head(s.stack) # s.cur

One == {s \in SessionsOver({1, 2}, 0..2) : Sound(s)}
Small == {s \in SessionsOver({1, 2}, {0, 2}) : Sound(s)}
Fixed == {s \in Small : s.stack = <<>> /\ s.cur = Min(Indexes(s))}

InGroup(s) == [s EXCEPT !.group = 1]
Joined(s, cur) == InGroup([s EXCEPT !.cur = cur, !.stack = <<>>])

Topologies ==
    {<<s>> : s \in One}
      \cup {<<s, t>> : s \in One, t \in Small}
      \cup UNION {{<<InGroup(s), Joined(s, c)>> : c \in Indexes(s)} : s \in One}
      \cup UNION {LET g == InGroup(s)
                      h == Joined(s, Max(Indexes(s)))
                  IN  {<<g, h, t>>, <<g, t, h>>, <<t, g, h>>} : s, t \in Fixed}

WindowsOf(sessions) ==
    UNION {{sessions[n].links[i] : i \in Indexes(sessions[n])} : n \in DOMAIN sessions}
Servers == {t \in Topologies : WindowsOf(t) \in {{1}, {1, 2}}}

Quiet == [k \in 1..Len(Commands) |-> "none"]

Start(sessions, windows, clients, saved_by, printed) ==
    [server |-> [sessions |-> sessions, windows |-> windows, clients |-> clients],
     way |-> saved_by, hooks |-> printed]
Simple(t, saved_by) == Start(t, [w \in WindowsOf(t) |-> Plain], FALSE, saved_by, Quiet)

Pair == <<Session(0 :> 1 @@ 1 :> 2, 0, <<1>>)>>
Trio == <<InGroup(Pair[1]), Joined(Pair[1], 1), Session(2 :> 1, 2, <<>>)>>

MCStarts ==
    {Simple(t, w) : t \in Servers, w \in {"capture", "import"}}
      \cup {Start(t, shapes, TRUE, w, Quiet) :
              t \in {Pair, Trio}, shapes \in [1..2 -> Shapes],
              w \in {"capture", "import", "damaged"}}
      \cup {Start(Pair, <<Plain, Plain>>, clients, "capture", printed) :
              clients \in BOOLEAN,
              printed \in [1..Len(Commands) -> {"none", "empty", "text", "error"}]}
=============================================================================
