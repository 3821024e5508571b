---------------------------- MODULE RoundTrip_build ----------------------------
(***************************************************************************)
(* Proofs about the second half of a round trip, the restore of a snapshot *)
(* that was captured: every pass of every loop of restore_snapshot_plan,   *)
(* and from them that the windows, the links, the groups and what is       *)
(* selected are those of the server that was captured, for every such      *)
(* server, every base-index and every hook.                                *)
(***************************************************************************)
EXTENDS RoundTrip_proofs

\* What was built, from the sessions ss, the windows ws and the maps sids and wids from
\* saved to new ids, in the loop at, of which left is left.  Late are the loops after the
\* placeholders are gone.
Late == {"members", "properties", "zoom", "selection", "done"}

TodoIn(at) ==
    CASE at \in {"sessions", "placeholders"} -> Sessions \ Deferred
      [] at = "members" -> Deferred
      [] at = "selection" -> Sessions
      [] at = "done" -> {}
      [] OTHER -> Windows

\* The sessions and windows there are already.
Exists(n, at, left) ==
    IF n \in Deferred THEN at \in Late /\ (at = "members" => n \notin left)
    ELSE at = "sessions" => n \notin left
Filled(w, at, left) == at # "sessions" /\ (at = "windows" => w \notin left)

\* The windows of a session by now, at the indexes that were saved, ...
There(n, w, at, left) ==
    /\ at # "sessions"
    /\ at = "windows" => Owner(w) = n /\ w \notin left
    /\ at = "links" => Owner(w) = n \/ w \notin left
Here(n, at, left) == {w \in LinkedIn(n) : There(n, w, at, left)}

HeldAs(s, wids, n, here) ==
    /\ Indexes(s) = {IndexIn(n, w) : w \in here} \cup {PlaceholderIndex}
    /\ \A w \in here : s.links[IndexIn(n, w)] = wids[w]

\* ... and after the kill of the placeholder at those that renumber-windows makes of them.
Killed(n, at, left) == at \in Late \/ (at = "placeholders" /\ n \notin left)
Spot(n, w) ==
    IF options.renumber THEN options.base + Rank(UsedIn(n), IndexIn(n, w))
    ELSE IndexIn(n, w)

LeftAs(s, wids, n) ==
    /\ Indexes(s) = {Spot(n, w) : w \in LinkedIn(n)}
    /\ \A w \in LinkedIn(n) : s.links[Spot(n, w)] = wids[w]

\* A saved window and the new one.
BuiltAs(new, w) ==
    LET old == snap.windows[w]
    IN  /\ new.what = old.what
        /\ new.panes = [k \in 1..Len(old.panes) |-> k]
        /\ new.first = old.panes[1].index
ActiveBy(w, at, left) ==
    at \in {"zoom", "selection", "done"} \/ (at = "properties" /\ w \notin left)
ZoomedBy(w, at, left) == at \in {"selection", "done"} \/ (at = "zoom" /\ w \notin left)

\* The primary of a group knows of it when the first member has joined.
HasMember(p, sids) == \E m \in Deferred : sids[m] # 0 /\ PrimaryOf(m) = p
GroupedAs(s, n, sids) ==
    s.group = IF HasMember(PrimaryOf(n), sids) THEN sids[PrimaryOf(n)] ELSE 0

ShownAs(s, n) ==
    LET a == snap.sessions[n].active
        l == snap.sessions[n].last
    IN  a # 0 =>
          /\ s.cur = IndexIn(n, a)
          /\ l # 0 /\ l # a => s.stack # <<>> /\ Head(s.stack) = IndexIn(n, l)

\* The new ids are different ones, there is one for all that exists, and no new
\* session is without a saved one.
IdsAre(ss, ws, sids, wids, at, left) ==
    /\ left \in SUBSET TodoIn(at)
    /\ sids \in [Sessions -> 0..Len(ss)]
    /\ wids \in [Windows -> 0..Len(ws)]
    /\ \A n \in Sessions : sids[n] # 0 <=> Exists(n, at, left)
    /\ \A w \in Windows : wids[w] # 0 <=> Filled(w, at, left)
    /\ \A m, n \in Sessions : sids[m] = sids[n] /\ sids[n] # 0 => m = n
    /\ \A v, w \in Windows : wids[v] = wids[w] /\ wids[w] # 0 => v = w
    /\ \A k \in 1..Len(ss) : \E n \in Sessions : sids[n] = k

WindowsAre(ws, wids, at, left) ==
    \A w \in Windows : wids[w] # 0 =>
        /\ BuiltAs(ws[wids[w]], w)
        /\ ActiveBy(w, at, left) => ws[wids[w]].active = snap.windows[w].active
        /\ ZoomedBy(w, at, left) => ws[wids[w]].zoomed = snap.windows[w].zoomed

LinksAre(ss, sids, wids, at, left) ==
    \A n \in Sessions : sids[n] # 0 =>
        IF Killed(n, at, left) THEN LeftAs(ss[sids[n]], wids, n)
        ELSE HeldAs(ss[sids[n]], wids, n, Here(n, at, left))

GroupsAre(ss, sids) ==
    \A n \in Sessions : sids[n] # 0 => GroupedAs(ss[sids[n]], n, sids)

SelectionIs(ss, sids, at, left) ==
    at \in {"selection", "done"} =>
        \A n \in Sessions \ left : ~Displaced(n) => ShownAs(ss[sids[n]], n)

Progress(ss, ws, sids, wids, at, left) ==
    /\ IdsAre(ss, ws, sids, wids, at, left)
    /\ WindowsAre(ws, wids, at, left)
    /\ LinksAre(ss, sids, wids, at, left)
    /\ GroupsAre(ss, sids)
    /\ SelectionIs(ss, sids, at, left)

\* The types of what is built, even by a command that was refused.
NewType ==
    [group : Nat, links : UNION {[D -> Nat] : D \in SUBSET Nat}, cur : Nat, stack : Seq(Nat)]
NewWindow ==
    [what : Nat, panes : Seq(Nat), rows : Nat, first : Nat, active : Nat, zoomed : BOOLEAN]

Typed(ss, ws) ==
    /\ ss \in Seq(NewType) /\ ws \in Seq(NewWindow)
    /\ \A k \in 1..Len(ss) : IsNew(ss[k], Len(ws)) /\ ss[k].group \in 0..Len(ss)
    /\ \A k \in 1..Len(ws) : ws[k].active \in DOMAIN ws[k].panes

LEMMA Framed ==
  ASSUME snap' = snap, options' = options
  PROVE  /\ Fit' <=> Fit
         /\ \A ss, ws, sids, wids, at, left :
              Progress(ss, ws, sids, wids, at, left)' <=> Progress(ss, ws, sids, wids, at, left)
<1>1. Sessions' = Sessions /\ Windows' = Windows 
  BY DEF Sessions, Windows
<1>2. \A n : /\ PrimaryOf(n)' = PrimaryOf(n) /\ LinkedIn(n)' = LinkedIn(n)
             /\ UsedIn(n)' = UsedIn(n)
  BY DEF PrimaryOf, LinkedIn, UsedIn
<1>3. Deferred' = Deferred
  BY <1>1, <1>2 DEF Deferred
<1>4. \A n, w : IndexIn(n, w)' = IndexIn(n, w)
  BY DEF IndexIn
<1>5. \A w : Owner(w)' = Owner(w)
  BY <1>1 DEF Owner, Owners
<1>6. PlaceholderIndex' = PlaceholderIndex
  BY <1>1 DEF PlaceholderIndex, Used
<1>7. \A n : Displaced(n)' <=> Displaced(n)
  BY DEF Displaced
<1>8. \A n, w : Spot(n, w)' = Spot(n, w)
  BY <1>2, <1>4 DEF Spot
<1>9. \A s, wids, n, here : HeldAs(s, wids, n, here)' <=> HeldAs(s, wids, n, here)
  BY <1>4, <1>6 DEF HeldAs
<1>10. \A s, wids, n : LeftAs(s, wids, n)' <=> LeftAs(s, wids, n)
  BY <1>2, <1>8 DEF LeftAs
<1>11. \A n, at, left : Here(n, at, left)' = Here(n, at, left)
  BY <1>2, <1>5 DEF Here, There
<1>12. \A new, w : BuiltAs(new, w)' <=> BuiltAs(new, w)
  BY DEF BuiltAs
<1>13. \A s, n, sids : GroupedAs(s, n, sids)' <=> GroupedAs(s, n, sids)
  BY <1>2, <1>3 DEF GroupedAs, HasMember
<1>14. \A s, n : ShownAs(s, n)' <=> ShownAs(s, n)
  BY <1>4 DEF ShownAs
<1>15. \A at : TodoIn(at)' = TodoIn(at)
  BY <1>1, <1>3 DEF TodoIn
<1>16. \A n, at, left : Exists(n, at, left)' <=> Exists(n, at, left)
  BY <1>3 DEF Exists
<1>17. \A ss, ws, sids, wids, at, left :
         IdsAre(ss, ws, sids, wids, at, left)' <=> IdsAre(ss, ws, sids, wids, at, left)
  BY <1>1, <1>15, <1>16 DEF IdsAre
<1>18. \A ws, wids, at, left : WindowsAre(ws, wids, at, left)' <=> WindowsAre(ws, wids, at, left)
  BY <1>1, <1>12 DEF WindowsAre
<1>19. \A ss, sids, wids, at, left :
         LinksAre(ss, sids, wids, at, left)' <=> LinksAre(ss, sids, wids, at, left)
  BY <1>1, <1>9, <1>10, <1>11 DEF LinksAre
<1>20. \A ss, sids : GroupsAre(ss, sids)' <=> GroupsAre(ss, sids)
  BY <1>1, <1>13 DEF GroupsAre
<1>21. \A ss, sids, at, left : SelectionIs(ss, sids, at, left)' <=> SelectionIs(ss, sids, at, left)
  BY <1>1, <1>7, <1>14 DEF SelectionIs
<1>22. Fit' <=> Fit
  BY DEF Fit, IsSnapshot
<1> QED BY <1>17, <1>18, <1>19, <1>20, <1>21, <1>22 DEF Progress

LEMMA FramedNow ==
  ASSUME snap' = snap, options' = options,
         Progress(sess', wins', session_ids', window_ids', phase', todo')
  PROVE  Progress(sess, wins, session_ids, window_ids, phase, todo)'
BY Framed

-----------------------------------------------------------------------------
\* The operators of the build.

LEMMA EarliestIs ==
  ASSUME NEW S \in SUBSET Nat, todo \in SUBSET S, todo # {}
  PROVE  Earliest \in todo /\ Earliest \in S
<1>1. Min(todo) \in todo
  BY Least
<1> QED BY <1>1 DEF Earliest

\* In a loop over numbers from 1, a pass with the earliest one has one.
LEMMA PassedIs ==
  ASSUME NEW S \in SUBSET (Nat \ {0}), todo \in SUBSET S, NEW loop, NEW problem,
         Pass(loop, Earliest, problem)
  PROVE  Earliest \in todo /\ Earliest \in S
<1>1. Earliest \in todo
  BY DEF Pass
<1> QED BY <1>1

LEMMA AnsweredIs ==
  ASSUME StartInv
  PROVE  Answered
<1> DEFINE own == [Block("ids", TRUE, TRUE) EXCEPT !.flags = 1]
<1>1. own.flags = 1 /\ own.own = TRUE
  BY DEF Block
<1> HIDE DEF own
<1>2. \A kind \in Kinds : Reply(Append(HookBlocks(kind), own)).own
  <2> TAKE kind \in Kinds
  <2> DEFINE before == HookBlocks(kind)
             blocks == Append(before, own)
             S == {k \in 1..Len(blocks) : blocks[k].flags # 0}
  <2>1. before \in Seq(HookBlock)
    BY HookBlocksAre
  <2>2. \A b \in HookBlock : b.flags = 0
    BY DEF HookBlock, Block
  <2> HIDE DEF before
  <2>3. \A k \in 1..Len(before) : before[k].flags = 0
    BY <2>1, <2>2
  <2>4. Len(blocks) = Len(before) + 1 /\ Len(before) \in Nat
        /\ blocks[Len(before) + 1] = own
        /\ \A k \in 1..Len(before) : blocks[k] = before[k]
    BY <2>1
  <2>5. S = {Len(before) + 1}
    BY <1>1, <2>3, <2>4
  <2>6. Min(S) = Len(before) + 1
    <3> DEFINE last == Len(before) + 1
    <3>1. {last} \in SUBSET Nat /\ {last} # {}
      BY <2>4
    <3> HIDE DEF last
    <3>2. Min({last}) \in {last}
      BY <3>1, Least
    <3> QED BY <2>5, <3>2 DEF last
  <2>7. SelectInSeq(blocks, LAMBDA b : b.flags # 0) = IF S # {} THEN Min(S) ELSE 0
    BY DEF SelectInSeq
  <2>8. Min(S) = Len(before) + 1 /\ S # {}
    BY <2>5, <2>6
  <2>9. Reply(blocks) = blocks[IF S # {} THEN Min(S) ELSE 0]
    BY <2>7, Zenon DEF Reply
  <2>10. Reply(blocks) = own
    BY <2>4, <2>8, <2>9
  <2> QED BY <1>1, <2>10 DEF before
<1>3. DOMAIN hooks = 1..5 /\ \A k \in 1..5 : hooks[k] \in Kinds
  BY DEF StartInv
<1> QED BY <1>2, <1>3 DEF Answered, own

LEMMA NewGrows ==
  ASSUME NEW s, NEW N \in Nat, NEW M \in Nat, N <= M, IsNew(s, N)
  PROVE  IsNew(s, M)
<1>1. s.links \in [Indexes(s) -> 1..N] /\ Indexes(s) \in SUBSET Nat
  BY NewIs
<1>2. s.links \in [Indexes(s) -> 1..M]
  <2>1. \A i \in Indexes(s) : s.links[i] \in 1..M
    BY <1>1
  <2> QED BY <1>1, <2>1
<1>3. s \in [group : Nat, links : UNION {[D -> 1..M] : D \in SUBSET Nat},
             cur : Nat, stack : Seq(Nat)]
  <2>1. s = [group |-> s.group, links |-> s.links, cur |-> s.cur, stack |-> s.stack]
    BY DEF IsNew
  <2>2. s.group \in Nat /\ s.cur \in Nat /\ s.stack \in Seq(Nat)
    BY NewIs
  <2>3. s.links \in UNION {[D -> 1..M] : D \in SUBSET Nat}
    BY <1>1, <1>2
  <2> QED BY <2>1, <2>2, <2>3
<1> QED BY <1>3 DEF IsNew

LEMMA NewTyped ==
  ASSUME NEW s, NEW N \in Nat, IsNew(s, N)
  PROVE  s \in NewType
<1>1. s.links \in [Indexes(s) -> 1..N] /\ Indexes(s) \in SUBSET Nat
  BY NewIs
<1>2. s = [group |-> s.group, links |-> s.links, cur |-> s.cur, stack |-> s.stack]
  BY DEF IsNew
<1>3. s.group \in Nat /\ s.cur \in Nat /\ s.stack \in Seq(Nat)
  BY NewIs
<1>4. s.links \in UNION {[D -> Nat] : D \in SUBSET Nat}
  BY <1>1
<1> QED BY <1>2, <1>3, <1>4 DEF NewType

UpTo(n) == [j \in 1..n |-> j]

LEMMA InsertAfterLast ==
  ASSUME NEW n \in Nat \ {0}
  PROVE  InsertAfter(UpTo(n), n, n + 1) = UpTo(n + 1)
<1> DEFINE p == UpTo(n)
<1>1. p \in Seq(Nat) /\ Len(p) = n /\ DOMAIN p = 1..n /\ \A k \in 1..n : p[k] = k
  BY DEF UpTo
<1> HIDE DEF p
<1>2. (CHOOSE k \in DOMAIN p : p[k] = n) = n
  BY <1>1
<1>3. InsertAfter(p, n, n + 1) = SubSeq(p, 1, n) \o <<n + 1>> \o SubSeq(p, n + 1, n)
  BY <1>1, <1>2 DEF InsertAfter
<1>4. SubSeq(p, 1, n) = p /\ SubSeq(p, n + 1, n) = <<>>
  BY <1>1
<1>5. SubSeq(p, 1, n) \o <<n + 1>> \o SubSeq(p, n + 1, n) = p \o <<n + 1>>
  BY <1>1, <1>4
<1>6. p \o <<n + 1>> = UpTo(n + 1)
  BY <1>1 DEF UpTo
<1> QED BY <1>3, <1>5, <1>6 DEF p

LEMMA SplitIs ==
  ASSUME NEW n \in Nat \ {0}
  PROVE  Split(n) = UpTo(n)
<1> DEFINE Step(f, k) == IF k = 1 THEN <<1>> ELSE InsertAfter(f[k - 1], k - 1, k)
           IsSplit(f) == f = [k \in 1..n |-> IF k = 1 THEN <<1>>
                                             ELSE InsertAfter(f[k - 1], k - 1, k)]
           g == [k \in 1..n |-> UpTo(k)]
<1>1. IsSplit(g)
  <2>1. \A k \in 1..n : g[k] = IF k = 1 THEN <<1>> ELSE InsertAfter(g[k - 1], k - 1, k)
    <3> TAKE k \in 1..n
    <3>1. CASE k = 1
      <4>1. UpTo(1) = <<1>>
        BY DEF UpTo
      <4> QED BY <3>1, <4>1
    <3>2. CASE k # 1
      <4>1. k - 1 \in Nat \ {0} /\ (k - 1) + 1 = k /\ k - 1 \in 1..n
        BY <3>2
      <4>2. InsertAfter(UpTo(k - 1), k - 1, (k - 1) + 1) = UpTo((k - 1) + 1)
        BY <4>1, InsertAfterLast
      <4>3. g[k] = UpTo(k) /\ g[k - 1] = UpTo(k - 1)
        BY <4>1
      <4> QED BY <3>2, <4>1, <4>2, <4>3
    <3> QED BY <3>1, <3>2
  <2>2. g = [k \in 1..n |-> g[k]]
    OBVIOUS
  <2> HIDE DEF g
  <2> QED BY <2>1, <2>2
<1>2. ASSUME NEW f, IsSplit(f) PROVE f[n] = UpTo(n)
  <2> DEFINE Wrong == {k \in 1..n : f[k] # g[k]}
  <2>1. \A k \in 1..n : f[k] = IF k = 1 THEN <<1>> ELSE InsertAfter(f[k - 1], k - 1, k)
    BY <1>2
  <2>2. \A k \in 1..n : g[k] = IF k = 1 THEN <<1>> ELSE InsertAfter(g[k - 1], k - 1, k)
    <3> HIDE DEF g
    <3> QED BY <1>1
  <2>3. g[n] = UpTo(n)
    OBVIOUS
  <2> HIDE DEF g, IsSplit
  <2>4. Wrong = {}
    <3> SUFFICES ASSUME Wrong # {} PROVE FALSE
      OBVIOUS
    <3> DEFINE k == Min(Wrong)
    <3>1. Wrong \in SUBSET Nat
      OBVIOUS
    <3>2. k \in Wrong /\ \A j \in Wrong : k <= j
      <4> HIDE DEF Wrong
      <4> QED BY <3>1, Least
    <3>3. k \in 1..n /\ f[k] # g[k]
      BY <3>2
    <3>4. \A j \in 1..n : j < k => f[j] = g[j]
      <4> HIDE DEF k
      <4> QED BY <3>2, <3>3
    <3> HIDE DEF k, Wrong
    <3>5. CASE k = 1
      BY <2>1, <2>2, <3>3, <3>5
    <3>6. CASE k # 1
      <4>1. k - 1 \in 1..n /\ k - 1 < k
        BY <3>3, <3>6
      <4>2. f[k - 1] = g[k - 1]
        BY <3>4, <4>1
      <4> QED BY <2>1, <2>2, <3>3, <3>6, <4>2
    <3> QED BY <3>5, <3>6
  <2>5. f[n] = g[n]
    BY <2>4
  <2> QED BY <2>3, <2>5
<1>3. IsSplit(CHOOSE f : IsSplit(f))
  <2> HIDE DEF IsSplit
  <2> QED BY <1>1, Zenon
<1>4. Split(n) = (CHOOSE f : IsSplit(f))[n]
  BY DEF Split
<1> HIDE DEF IsSplit, g
<1> QED BY <1>2, <1>3, <1>4

-----------------------------------------------------------------------------
\* What is built stays well-formed.

LEMMA TypedIs ==
  ASSUME NEW ss, NEW ws, Typed(ss, ws)
  PROVE  /\ Len(ss) \in Nat /\ DOMAIN ss = 1..Len(ss) /\ Len(ws) \in Nat
         /\ DOMAIN ws = 1..Len(ws)
         /\ \A k \in 1..Len(ss) : IsNew(ss[k], Len(ws)) /\ ss[k].group \in 0..Len(ss)
<1>1. ss \in Seq(NewType) /\ ws \in Seq(NewWindow)
  BY DEF Typed
<1> QED BY <1>1 DEF Typed

LEMMA SessionAdded ==
  ASSUME NEW ss, NEW ws, Typed(ss, ws), NEW s, IsNew(s, Len(ws)),
         s.group \in 0..(Len(ss) + 1)
  PROVE  /\ Typed(Append(ss, s), ws) /\ Len(Append(ss, s)) = Len(ss) + 1
         /\ Append(ss, s)[Len(ss) + 1] = s
         /\ \A k \in 1..Len(ss) : Append(ss, s)[k] = ss[k]
<1>1. ss \in Seq(NewType) /\ ws \in Seq(NewWindow) /\ Len(ss) \in Nat /\ Len(ws) \in Nat
  BY DEF Typed
<1>2. s \in NewType
  BY <1>1, NewTyped
<1> DEFINE tt == Append(ss, s)
<1> HIDE DEF NewType
<1>3. /\ tt \in Seq(NewType) /\ Len(tt) = Len(ss) + 1 /\ tt[Len(ss) + 1] = s
      /\ \A k \in 1..Len(ss) : tt[k] = ss[k]
  BY <1>1, <1>2
<1> HIDE DEF tt
<1>4. \A k \in 1..Len(tt) : IsNew(tt[k], Len(ws)) /\ tt[k].group \in 0..Len(tt)
  <2> TAKE k \in 1..Len(tt)
  <2>1. CASE k \in 1..Len(ss)
    <3>1. tt[k] = ss[k] /\ IsNew(ss[k], Len(ws)) /\ ss[k].group \in 0..Len(ss)
      BY <1>3, <2>1 DEF Typed
    <3> QED BY <1>1, <1>3, <3>1
  <2>2. CASE k = Len(ss) + 1
    BY <1>3, <2>2
  <2> QED BY <1>1, <1>3, <2>1, <2>2
<1> QED BY <1>1, <1>3, <1>4 DEF Typed, tt

LEMMA WindowAdded ==
  ASSUME NEW ss, NEW ws, Typed(ss, ws), NEW w \in NewWindow, w.active \in DOMAIN w.panes
  PROVE  /\ Typed(ss, Append(ws, w)) /\ Len(Append(ws, w)) = Len(ws) + 1
         /\ Append(ws, w)[Len(ws) + 1] = w
         /\ \A k \in 1..Len(ws) : Append(ws, w)[k] = ws[k]
<1>1. ss \in Seq(NewType) /\ ws \in Seq(NewWindow) /\ Len(ss) \in Nat /\ Len(ws) \in Nat
  BY DEF Typed
<1> DEFINE tt == Append(ws, w)
<1> HIDE DEF NewType, NewWindow
<1>2. /\ tt \in Seq(NewWindow) /\ Len(tt) = Len(ws) + 1 /\ tt[Len(ws) + 1] = w
      /\ \A k \in 1..Len(ws) : tt[k] = ws[k]
  BY <1>1
<1> HIDE DEF tt
<1>3. \A k \in 1..Len(ss) : IsNew(ss[k], Len(tt)) /\ ss[k].group \in 0..Len(ss)
  <2> TAKE k \in 1..Len(ss)
  <2>1. IsNew(ss[k], Len(ws)) /\ ss[k].group \in 0..Len(ss)
    BY DEF Typed
  <2>2. Len(tt) \in Nat /\ Len(ws) <= Len(tt)
    BY <1>1, <1>2
  <2> QED BY <1>1, <2>1, <2>2, NewGrows
<1>4. \A k \in 1..Len(tt) : tt[k].active \in DOMAIN tt[k].panes
  <2> TAKE k \in 1..Len(tt)
  <2>1. CASE k \in 1..Len(ws)
    BY <1>2, <2>1 DEF Typed
  <2>2. CASE k = Len(ws) + 1
    BY <1>2, <2>2
  <2> QED BY <1>1, <1>2, <2>1, <2>2
<1> QED BY <1>1, <1>2, <1>3, <1>4 DEF Typed, tt

\* Some sessions are changed.
LEMMA SessionsSet ==
  ASSUME NEW ss, NEW ws, Typed(ss, ws), NEW tt, DOMAIN tt = 1..Len(ss),
         tt = [k \in 1..Len(ss) |-> tt[k]],
         \A k \in 1..Len(ss) : IsNew(tt[k], Len(ws)) /\ tt[k].group \in 0..Len(ss)
  PROVE  Typed(tt, ws) /\ Len(tt) = Len(ss)
<1>1. ws \in Seq(NewWindow) /\ Len(ss) \in Nat /\ Len(ws) \in Nat
  BY DEF Typed
<1>2. \A k \in 1..Len(ss) : tt[k] \in NewType
  BY <1>1, NewTyped
<1> HIDE DEF NewType
<1>3. tt \in [1..Len(ss) -> NewType]
  BY <1>2
<1>4. tt \in Seq(NewType) /\ Len(tt) = Len(ss)
  BY <1>1, <1>3
<1> QED BY <1>1, <1>4 DEF Typed

LEMMA SessionSet ==
  ASSUME NEW ss, NEW ws, Typed(ss, ws), NEW k \in 1..Len(ss), NEW s, IsNew(s, Len(ws)),
         s.group \in 0..Len(ss)
  PROVE  /\ Typed([ss EXCEPT ![k] = s], ws) /\ Len([ss EXCEPT ![k] = s]) = Len(ss)
         /\ [ss EXCEPT ![k] = s][k] = s
         /\ \A j \in 1..Len(ss) : j # k => [ss EXCEPT ![k] = s][j] = ss[j]
<1> DEFINE tt == [ss EXCEPT ![k] = s]
<1>1. DOMAIN ss = 1..Len(ss) /\ ss \in Seq(NewType)
  BY TypedIs DEF Typed
<1>2. /\ DOMAIN tt = 1..Len(ss) /\ tt = [j \in 1..Len(ss) |-> tt[j]]
      /\ tt[k] = s /\ \A j \in 1..Len(ss) : j # k => tt[j] = ss[j]
  BY <1>1
<1> HIDE DEF tt
<1>3. \A j \in 1..Len(ss) : IsNew(tt[j], Len(ws)) /\ tt[j].group \in 0..Len(ss)
  BY <1>2 DEF Typed
<1>4. Typed(tt, ws) /\ Len(tt) = Len(ss)
  BY <1>2, <1>3, SessionsSet
<1> QED BY <1>2, <1>4 DEF tt

LEMMA WindowSet ==
  ASSUME NEW ss, NEW ws, Typed(ss, ws), NEW k \in 1..Len(ws), NEW w \in NewWindow,
         w.active \in DOMAIN w.panes, NEW tt, tt = [ws EXCEPT ![k] = w]
  PROVE  /\ Typed(ss, tt) /\ Len(tt) = Len(ws) /\ tt[k] = w
         /\ \A j \in 1..Len(ws) : j # k => tt[j] = ws[j]
<1> HIDE DEF NewWindow
<1>1. ws \in Seq(NewWindow) /\ Len(ws) \in Nat /\ DOMAIN ws = 1..Len(ws)
  BY DEF Typed
<1>2. /\ tt \in Seq(NewWindow) /\ Len(tt) = Len(ws)
      /\ tt[k] = w /\ \A j \in 1..Len(ws) : j # k => tt[j] = ws[j]
  BY <1>1
<1>3. \A j \in 1..Len(tt) : tt[j].active \in DOMAIN tt[j].panes
  BY <1>1, <1>2 DEF Typed
<1>4. Typed(ss, tt)
  BY <1>2, <1>3 DEF Typed
<1> QED BY <1>2, <1>4

-----------------------------------------------------------------------------
\* The passes through the loops.

\* Why a pass may be refused.
Rows(w) == IF snap.windows[w].rows > 0 THEN snap.windows[w].rows ELSE DefaultRows
Reason(reason) ==
    \/ reason = "same index" /\ PlaceholderIndex = options.base
    \/ /\ reason = "no space"
       /\ \E w \in Windows : Rows(w) < 2 * Len(snap.windows[w].panes) - 1
    \/ reason = "no window" /\ \E n \in Sessions : Displaced(n)

\* What a pass has to keep.
Kept ==
    /\ Typed(sess', wins')
    /\ phase' = "refused" => Reason(why')
    /\ phase' # "refused" =>
         Progress(sess', wins', session_ids', window_ids', phase', todo')

\* What holds before it.
AtLoop(loop) ==
    /\ StartInv /\ Fit /\ phase = loop
    /\ options \in [base : Nat, renumber : BOOLEAN]
    /\ Typed(sess, wins)
    /\ Progress(sess, wins, session_ids, window_ids, phase, todo)

\* A new session with its only window.
Created(N, i) == [group |-> 0, links |-> [k \in {i} |-> N], cur |-> i, stack |-> <<>>]

LEMMA CreatedIs ==
  ASSUME NEW N \in Nat \ {0}, NEW i \in Nat
  PROVE  IsNew(Created(N, i), N) /\ Created(N, i).group = 0 /\ Indexes(Created(N, i)) = {i}
<1> DEFINE s == Created(N, i)
<1>1. s.group = 0 /\ s.links = [k \in {i} |-> N] /\ s.cur = i /\ s.stack = <<>>
  BY DEF Created
<1>2. Indexes(s) = {i} /\ IsFiniteSet({i})
  BY <1>1, FS_Singleton DEF Indexes
<1>3. s.links \in [{i} -> 1..N] /\ {i} \in SUBSET Nat
  BY <1>1
<1>4. s.links \in UNION {[D -> 1..N] : D \in SUBSET Nat}
  BY <1>3
<1>5. s = [group |-> s.group, links |-> s.links, cur |-> s.cur, stack |-> s.stack]
  BY DEF Created
<1> HIDE DEF s
<1>6. s \in [group : Nat, links : UNION {[D -> 1..N] : D \in SUBSET Nat},
             cur : Nat, stack : Seq(Nat)]
  <2>1. <<>> \in Seq(Nat)
    OBVIOUS
  <2>2. s.group \in Nat /\ s.cur \in Nat /\ s.stack \in Seq(Nat)
    BY <1>1, <2>1
  <2> QED BY <1>4, <1>5, <2>2
<1>7. s.stack \in Seq(Indexes(s) \ {s.cur})
  BY <1>1
<1> QED BY <1>1, <1>2, <1>6, <1>7 DEF IsNew, s

LEMMA CreateSessionKeeps ==
  ASSUME AtLoop("sessions"), CreateSession
  PROVE  Kept
<1> DEFINE n == Earliest
           base == options.base
           placeholder == [what |-> 0, panes |-> <<1>>, rows |-> 0, first |-> 0,
                           active |-> 1, zoomed |-> FALSE]
           created == [group |-> 0, links |-> [i \in {base} |-> Len(wins) + 1],
                       cur |-> base, stack |-> <<>>]
           same == base = PlaceholderIndex
           s == IF same THEN created ELSE Move(created, base, PlaceholderIndex)
<1>1. /\ Pass("sessions", n, CASE ~Answered -> "misread"
                               [] same -> "same index"
                               [] OTHER -> "none")
      /\ wins' = Append(wins, placeholder) /\ sess' = Append(sess, s)
      /\ session_ids' = [session_ids EXCEPT ![n] = Len(sess) + 1]
      /\ window_ids' = window_ids
  BY DEF CreateSession
<1>2. /\ Typed(sess, wins) /\ Len(sess) \in Nat /\ Len(wins) \in Nat /\ base \in Nat
      /\ PlaceholderIndex \in Nat /\ Answered
  BY AnsweredIs, TypedIs, PlaceholderIs DEF AtLoop
<1>3. IdsAre(sess, wins, session_ids, window_ids, "sessions", todo)
  BY DEF AtLoop, Progress
<1>4. todo \in SUBSET (Sessions \ Deferred) /\ Sessions \in SUBSET (Nat \ {0})
  <2>1. todo \in SUBSET (Sessions \ Deferred)
    BY <1>3 DEF IdsAre, TodoIn
  <2>2. Sessions \in SUBSET (Nat \ {0})
    BY FitSessions DEF AtLoop
  <2> QED BY <2>1, <2>2
<1>5. n \in todo /\ n \in Sessions \ Deferred
  <2> DEFINE S == Sessions \ Deferred
  <2>1. S \in SUBSET (Nat \ {0}) /\ todo \in SUBSET S
    BY <1>4
  <2> HIDE DEF S, same
  <2>2. n \in todo /\ n \in S
    BY <1>1, <2>1, PassedIs
  <2> QED BY <2>2 DEF S
<1>6. Typed(sess, wins') /\ Len(wins') = Len(wins) + 1
  <2>1. placeholder \in NewWindow /\ placeholder.active \in DOMAIN placeholder.panes
    <3>1. <<1>> \in Seq(Nat) /\ DOMAIN <<1>> = {1}
      OBVIOUS
    <3> QED BY <3>1 DEF NewWindow
  <2> HIDE DEF placeholder
  <2> QED BY <1>1, <1>2, <2>1, WindowAdded
<1>7. IsNew(s, Len(wins) + 1) /\ s.group = 0 /\ Indexes(s) = {PlaceholderIndex}
  <2> DEFINE N == Len(wins) + 1
             c == Created(N, base)
  <2>1. N \in Nat \ {0}
    BY <1>2
  <2>2. s = IF same THEN c ELSE Move(c, base, PlaceholderIndex)
    BY DEF Created
  <2> HIDE DEF s, N
  <2>3. IsNew(c, N) /\ c.group = 0 /\ Indexes(c) = {base}
    BY <1>2, <2>1, CreatedIs
  <2> HIDE DEF c
  <2>4. CASE same
    BY <2>2, <2>3, <2>4 DEF N
  <2>5. CASE ~same
    <3>1. /\ IsNew(Move(c, base, PlaceholderIndex), N)
          /\ Indexes(Move(c, base, PlaceholderIndex))
               = (Indexes(c) \ {base}) \cup {PlaceholderIndex}
          /\ Move(c, base, PlaceholderIndex).group = c.group
      <4>1. N \in Nat /\ base \in Indexes(c) /\ PlaceholderIndex \in Nat \ Indexes(c)
        BY <1>2, <2>1, <2>3, <2>5
      <4> QED BY <2>3, <4>1, MoveIs
    <3> QED BY <2>2, <2>3, <2>5, <3>1 DEF N
  <2> QED BY <2>4, <2>5
<1> HIDE DEF s
<1>8. /\ Typed(sess', wins') /\ Len(sess') = Len(sess) + 1 /\ sess'[Len(sess) + 1] = s
      /\ \A k \in 1..Len(sess) : sess'[k] = sess[k]
  <2>1. s.group \in 0..(Len(sess) + 1) /\ IsNew(s, Len(wins'))
    BY <1>2, <1>6, <1>7
  <2>2. /\ Typed(Append(sess, s), wins') /\ Len(Append(sess, s)) = Len(sess) + 1
        /\ Append(sess, s)[Len(sess) + 1] = s
        /\ \A k \in 1..Len(sess) : Append(sess, s)[k] = sess[k]
    BY <1>6, <2>1, SessionAdded
  <2> QED BY <1>1, <2>2
<1>9. phase' = "refused" => Reason(why')
  <2>1. phase' = "refused" => why' = "same index" /\ same
    BY <1>1, <1>2 DEF Pass
  <2> QED BY <2>1 DEF Reason
<1>10. todo' = todo \ {n} /\ (phase' # "refused" => phase' = "sessions")
  BY <1>1 DEF Pass
<1> HIDE DEF n
<1>11. /\ session_ids \in [Sessions -> 0..Len(sess)]
       /\ session_ids' \in [Sessions -> 0..Len(sess')]
       /\ session_ids'[n] = Len(sess) + 1 /\ session_ids[n] = 0
       /\ \A m \in Sessions : m # n => session_ids'[m] = session_ids[m]
  <2>1. session_ids \in [Sessions -> 0..Len(sess)] /\ session_ids[n] = 0
    BY <1>3, <1>5 DEF IdsAre, Exists
  <2>2. 0..Len(sess) \in SUBSET (0..Len(sess')) /\ Len(sess) + 1 \in 0..Len(sess')
    BY <1>2, <1>8
  <2>3. session_ids \in [Sessions -> 0..Len(sess')]
    BY <2>1, <2>2
  <2> QED BY <1>1, <1>5, <2>1, <2>2, <2>3
<1>12. \A w \in Windows : window_ids'[w] = 0
  BY <1>1, <1>3 DEF IdsAre, Filled
<1>13. IdsAre(sess', wins', session_ids', window_ids', "sessions", todo')
  <2>1. todo' \in SUBSET TodoIn("sessions")
    BY <1>3, <1>10 DEF IdsAre
  <2>2. window_ids' \in [Windows -> 0..Len(wins')]
    <3>1. window_ids \in [Windows -> 0..Len(wins)]
      BY <1>3 DEF IdsAre
    <3>2. 0..Len(wins) \in SUBSET (0..Len(wins'))
      BY <1>2, <1>6
    <3> QED BY <1>1, <3>1, <3>2
  <2>3. \A m \in Sessions : session_ids'[m] # 0 <=> Exists(m, "sessions", todo')
    <3> TAKE m \in Sessions
    <3>1. session_ids[m] # 0 <=> Exists(m, "sessions", todo)
      BY <1>3 DEF IdsAre
    <3>2. CASE m = n
      BY <1>2, <1>5, <1>10, <1>11, <3>2 DEF Exists
    <3>3. CASE m # n
      BY <1>10, <1>11, <3>1, <3>3 DEF Exists
    <3> QED BY <3>2, <3>3
  <2>4. \A w \in Windows : window_ids'[w] # 0 <=> Filled(w, "sessions", todo')
    BY <1>12 DEF Filled
  <2>5. \A l, m \in Sessions : session_ids'[l] = session_ids'[m] /\ session_ids'[m] # 0 => l = m
    <3>1. \A l, m \in Sessions : session_ids[l] = session_ids[m] /\ session_ids[m] # 0 => l = m
      BY <1>3 DEF IdsAre
    <3>2. \A m \in Sessions : session_ids[m] # Len(sess) + 1
      BY <1>2, <1>11
    <3> QED BY <1>11, <3>1, <3>2
  <2>6. \A k \in 1..Len(sess') : \E m \in Sessions : session_ids'[m] = k
    <3> TAKE k \in 1..Len(sess')
    <3>1. CASE k = Len(sess) + 1
      BY <1>5, <1>11, <3>1
    <3>2. CASE k \in 1..Len(sess)
      <4>1. PICK m \in Sessions : session_ids[m] = k
        BY <1>3, <3>2 DEF IdsAre
      <4>2. m # n
        BY <1>2, <1>11, <3>2, <4>1
      <4> QED BY <1>11, <4>1, <4>2
    <3> QED BY <1>2, <1>8, <3>1, <3>2
  <2> QED BY <1>11, <1>12, <2>1, <2>2, <2>3, <2>4, <2>5, <2>6 DEF IdsAre
<1>14. WindowsAre(wins', window_ids', "sessions", todo')
  BY <1>12 DEF WindowsAre
<1>15. \A m, left : Here(m, "sessions", left) = {} /\ ~Killed(m, "sessions", left)
  BY DEF Here, There, Killed, Late
<1>16. ASSUME NEW m \in Sessions, session_ids'[m] # 0, m # n
       PROVE  session_ids[m] # 0 /\ sess'[session_ids'[m]] = sess[session_ids[m]]
  <2>1. session_ids'[m] = session_ids[m] /\ session_ids[m] \in 1..Len(sess)
    BY <1>2, <1>11, <1>16
  <2> QED BY <1>8, <1>16, <2>1
<1>17. LinksAre(sess', session_ids', window_ids', "sessions", todo')
  <2> SUFFICES ASSUME NEW m \in Sessions, session_ids'[m] # 0
               PROVE  HeldAs(sess'[session_ids'[m]], window_ids', m, {})
    BY <1>15 DEF LinksAre
  <2>1. CASE m = n
    BY <1>7, <1>8, <1>11, <2>1 DEF HeldAs
  <2>2. CASE m # n
    <3>1. LinksAre(sess, session_ids, window_ids, "sessions", todo)
      BY DEF AtLoop, Progress
    <3>2. HeldAs(sess[session_ids[m]], window_ids, m, {})
      BY <1>15, <1>16, <2>2, <3>1 DEF LinksAre
    <3> QED BY <1>1, <1>16, <2>2, <3>2
  <2> QED BY <2>1, <2>2
<1>18. \A m \in Deferred : m \in Sessions /\ session_ids[m] = 0 /\ session_ids'[m] = 0
  <2> TAKE m \in Deferred
  <2>1. m \in Sessions /\ ~Exists(m, "sessions", todo)
    BY DEF Deferred, Exists, Late
  <2>2. session_ids[m] = 0
    BY <1>3, <2>1 DEF IdsAre
  <2> QED BY <1>5, <1>11, <2>1, <2>2
<1>19. GroupsAre(sess', session_ids')
  <2> SUFFICES ASSUME NEW m \in Sessions, session_ids'[m] # 0
               PROVE  sess'[session_ids'[m]].group = 0
    BY <1>18 DEF GroupsAre, GroupedAs, HasMember
  <2>1. CASE m = n
    BY <1>7, <1>8, <1>11, <2>1
  <2>2. CASE m # n
    <3>1. GroupedAs(sess[session_ids[m]], m, session_ids)
      BY <1>16, <2>2 DEF AtLoop, Progress, GroupsAre
    <3> QED BY <1>16, <1>18, <2>2, <3>1 DEF GroupedAs, HasMember
  <2> QED BY <2>1, <2>2
<1>20. SelectionIs(sess', session_ids', "sessions", todo')
  BY DEF SelectionIs
<1>21. phase' # "refused" =>
         Progress(sess', wins', session_ids', window_ids', phase', todo')
  BY <1>10, <1>13, <1>14, <1>17, <1>19, <1>20 DEF Progress
<1> QED BY <1>8, <1>9, <1>21 DEF Kept

\* Facts about the new ids that every loop after the first needs.
LEMMA IdsIn ==
  ASSUME NEW ss, NEW ws, NEW sids, NEW wids, NEW at, NEW left,
         IdsAre(ss, ws, sids, wids, at, left), Len(ss) \in Nat, Len(ws) \in Nat
  PROVE  /\ \A n \in Sessions : sids[n] # 0 => sids[n] \in 1..Len(ss)
         /\ \A w \in Windows : wids[w] # 0 => wids[w] \in 1..Len(ws)
<1>1. sids \in [Sessions -> 0..Len(ss)] /\ wids \in [Windows -> 0..Len(ws)]
  BY DEF IdsAre
<1> QED BY <1>1

\* One more window in a session that has its placeholder.
LEMMA HeldMore ==
  ASSUME NEW s, NEW wids, NEW n, NEW here, HeldAs(s, wids, n, here),
         NEW w, NEW t, NEW xids,
         Indexes(t) = Indexes(s) \cup {IndexIn(n, w)},
         t.links[IndexIn(n, w)] = xids[w],
         \A j \in Indexes(s) : t.links[j] = s.links[j],
         \A v \in here : xids[v] = wids[v],
         NEW more, more = here \cup {w}
  PROVE  HeldAs(t, xids, n, more)
<1>1. /\ Indexes(s) = {IndexIn(n, v) : v \in here} \cup {PlaceholderIndex}
      /\ \A v \in here : s.links[IndexIn(n, v)] = wids[v]
  BY DEF HeldAs
<1>2. Indexes(t) = {IndexIn(n, v) : v \in more} \cup {PlaceholderIndex}
  BY <1>1
<1>3. \A v \in more : t.links[IndexIn(n, v)] = xids[v]
  <2>1. ASSUME NEW v \in here PROVE t.links[IndexIn(n, v)] = xids[v]
    BY <1>1
  <2> QED BY <2>1
<1> QED BY <1>2, <1>3 DEF HeldAs

\* The index of a window that is not in the session yet is free.
LEMMA IndexFree ==
  ASSUME Fit, NEW s, NEW wids, NEW n \in Sessions, NEW here \in SUBSET LinkedIn(n),
         HeldAs(s, wids, n, here), NEW w \in LinkedIn(n), w \notin here
  PROVE  IndexIn(n, w) \notin Indexes(s) /\ IndexIn(n, w) \in Nat
<1>1. Indexes(s) = {IndexIn(n, v) : v \in here} \cup {PlaceholderIndex}
  BY DEF HeldAs
<1>2. /\ IndexIn(n, w) \in UsedIn(n) /\ UsedIn(n) \in SUBSET Nat
      /\ \A v \in LinkedIn(n) : IndexIn(n, v) = IndexIn(n, w) => v = w
  BY LinkedIs
<1>3. IndexIn(n, w) # PlaceholderIndex
  BY <1>2, PlaceholderIs
<1> QED BY <1>1, <1>2, <1>3

LEMMA CreateWindowKeeps ==
  ASSUME AtLoop("windows"), CreateWindow
  PROVE  Kept
<1> DEFINE w == Earliest
           o == Owner(w)
           k == session_ids[PrimaryOf(o)]
           index == IndexIn(o, w)
           state == snap.windows[w]
           count == Len(state.panes)
           rows == IF state.rows > 0 THEN state.rows ELSE DefaultRows
           new == [what |-> state.what, panes |-> Split(count), rows |-> rows,
                   first |-> state.panes[1].index, active |-> 1, zoomed |-> FALSE]
           put == Put(sess[k], index, Len(wins) + 1)
           taken == index \in Indexes(sess[k])
           here == Here(o, "windows", todo)
<1>1. /\ Pass("windows", w,
                CASE ~Answered -> "misread"
                  [] taken -> "index in use"
                  [] \E j \in 1..(count - 1) : ~RoomToSplit(rows, j) -> "no space"
                  [] OTHER -> "none")
      /\ ~taken => /\ wins' = Append(wins, new)
                   /\ sess' = [sess EXCEPT ![k] = put]
                   /\ window_ids' = [window_ids EXCEPT ![w] = Len(wins) + 1]
      /\ session_ids' = session_ids
  BY DEF CreateWindow
<1>2. /\ Fit /\ Typed(sess, wins) /\ Len(sess) \in Nat /\ Len(wins) \in Nat
      /\ Answered
  BY AnsweredIs, TypedIs DEF AtLoop
<1>3. /\ IdsAre(sess, wins, session_ids, window_ids, "windows", todo)
      /\ WindowsAre(wins, window_ids, "windows", todo)
      /\ LinksAre(sess, session_ids, window_ids, "windows", todo)
      /\ GroupsAre(sess, session_ids)
  BY DEF AtLoop, Progress
<1>4. w \in todo /\ w \in Windows
  <2>1. todo \in SUBSET Windows /\ Windows \in SUBSET (Nat \ {0})
    BY <1>2, <1>3, FitWindows DEF IdsAre, TodoIn
  <2> HIDE DEF taken, rows, count
  <2>2. w \in todo /\ w \in Windows
    BY <1>1, <2>1, PassedIs
  <2> QED BY <2>2
<1>5. o \in Sessions /\ w \in LinkedIn(o) /\ PrimaryOf(o) = o
  BY <1>2, <1>4, OwnerIs
<1>6. k = session_ids[o] /\ k # 0 /\ k \in 1..Len(sess)
  <2>1. Exists(o, "windows", todo)
    BY <1>5 DEF Exists, Deferred
  <2>2. k = session_ids[o] /\ k # 0
    BY <1>3, <1>5, <2>1 DEF IdsAre
  <2> QED BY <1>2, <1>3, <1>5, <2>2, IdsIn
<1>7. \A n, left : ~Killed(n, "windows", left)
  BY DEF Killed, Late
<1>8. /\ HeldAs(sess[k], window_ids, o, here)
      /\ here \in SUBSET LinkedIn(o) /\ w \notin here
  <2>1. here \in SUBSET LinkedIn(o) /\ w \notin here
    BY <1>4 DEF Here, There
  <2> QED BY <1>3, <1>5, <1>6, <1>7, <2>1 DEF LinksAre
<1>9. index \notin Indexes(sess[k]) /\ index \in Nat /\ ~taken
  BY <1>2, <1>5, <1>8, IndexFree
<1> HIDE DEF w, o, k, index, new, put, taken, here, rows, count
<1>10. new \in NewWindow /\ new.active \in DOMAIN new.panes
       /\ BuiltAs(new, w)
  <2>1. state \in WindowType /\ state.panes # <<>>
    BY <1>2, <1>4, FitWindows
  <2>2. count \in Nat \ {0}
    <3> HIDE DEF state
    <3> QED BY <2>1, EmptySeq DEF WindowType, count
  <2>3. state.what \in Nat /\ state.rows \in Nat /\ state.panes[1].index \in Nat
    <3> DEFINE panes == state.panes
               T == [index : Nat, dead : BOOLEAN]
    <3> HIDE DEF state
    <3>1. panes \in Seq(T) /\ \A p \in T : p.index \in Nat
      BY <2>1 DEF WindowType
    <3>2. Len(panes) \in Nat \ {0}
      BY <2>2 DEF count
    <3> HIDE DEF panes, T
    <3>3. panes[1] \in T
      BY <3>1, <3>2
    <3>4. state.what \in Nat /\ state.rows \in Nat
      BY <2>1 DEF WindowType
    <3> QED BY <3>1, <3>3, <3>4 DEF panes
  <2>4. rows \in Nat
    BY <2>3, RoundTripAssumption DEF rows, RoundTripAssumption
  <2>5. Split(count) = [j \in 1..count |-> j]
    BY <2>2, SplitIs DEF UpTo
  <2>6. /\ new.what = state.what /\ new.panes = [j \in 1..count |-> j] /\ new.rows = rows
        /\ new.first = state.panes[1].index /\ new.active = 1 /\ new.zoomed = FALSE
    BY <2>5 DEF new
  <2>7. new.panes \in Seq(Nat) /\ DOMAIN new.panes = 1..count /\ 1 \in 1..count
    BY <2>2, <2>6
  <2>8. new \in NewWindow
    <3> HIDE DEF state
    <3>1. /\ new.what \in Nat /\ new.rows \in Nat /\ new.first \in Nat
          /\ new.active \in Nat
      BY <2>3, <2>4, <2>6
    <3>3. new.zoomed \in BOOLEAN
      BY DEF new
    <3>2. new = [what |-> new.what, panes |-> new.panes, rows |-> new.rows,
                 first |-> new.first, active |-> new.active, zoomed |-> new.zoomed]
      BY DEF new
    <3> QED BY <2>7, <3>1, <3>2, <3>3 DEF NewWindow
  <2>9. BuiltAs(new, w)
    BY <2>6 DEF BuiltAs, count
  <2> QED BY <2>6, <2>7, <2>8, <2>9
<1>11. /\ Typed(sess, wins') /\ Len(wins') = Len(wins) + 1 /\ wins'[Len(wins) + 1] = new
       /\ \A j \in 1..Len(wins) : wins'[j] = wins[j]
  <2>1. wins' = Append(wins, new)
    BY <1>1, <1>9
  <2> QED BY <1>2, <1>10, <2>1, WindowAdded
<1>12. /\ IsNew(sess[k], Len(wins)) /\ sess[k].group \in 0..Len(sess)
       /\ IsNew(put, Len(wins')) /\ put.group = sess[k].group
       /\ Indexes(put) = Indexes(sess[k]) \cup {index}
       /\ put.links[index] = Len(wins) + 1
       /\ \A j \in Indexes(sess[k]) : put.links[j] = sess[k].links[j]
  <2>1. IsNew(sess[k], Len(wins)) /\ sess[k].group \in 0..Len(sess)
    BY <1>2, <1>6, TypedIs
  <2> DEFINE N == Len(wins)
             M == N + 1
             s == sess[k]
  <2>2. N \in Nat /\ M \in Nat /\ N <= M /\ M \in 1..M /\ IsNew(s, N) /\ index \in Nat
    BY <1>2, <1>9, <2>1
  <2> HIDE DEF N, M, s
  <2>3. /\ IsNew(Put(s, index, M), M)
        /\ Indexes(Put(s, index, M)) = Indexes(s) \cup {index}
        /\ Put(s, index, M).links[index] = M
        /\ \A j \in Indexes(s) \ {index} : Put(s, index, M).links[j] = s.links[j]
        /\ Put(s, index, M).group = s.group
    BY <2>2, PutIs
  <2> QED BY <1>9, <1>11, <2>1, <2>3 DEF N, M, s, put
<1>13. /\ Typed(sess', wins') /\ Len(sess') = Len(sess) /\ sess'[k] = put
       /\ \A j \in 1..Len(sess) : j # k => sess'[j] = sess[j]
  <2>1. sess' = [sess EXCEPT ![k] = put]
    BY <1>1, <1>9
  <2> DEFINE tt == [sess EXCEPT ![k] = put]
  <2>2. /\ Typed(tt, wins') /\ Len(tt) = Len(sess) /\ tt[k] = put
        /\ \A j \in 1..Len(sess) : j # k => tt[j] = sess[j]
    BY <1>6, <1>11, <1>12, SessionSet
  <2> HIDE DEF tt
  <2> QED BY <2>1, <2>2 DEF tt
<1>14. phase' = "refused" => Reason(why')
  <2> SUFFICES ASSUME phase' = "refused" PROVE Reason(why')
    OBVIOUS
  <2>1. why' = "no space" /\ \E j \in 1..(count - 1) : ~RoomToSplit(rows, j)
    BY <1>1, <1>2, <1>9 DEF Pass
  <2>2. PICK j \in 1..(count - 1) : ~RoomToSplit(rows, j)
    BY <2>1
  <2>3. rows \in Nat /\ count \in Nat
    <3>1. state \in WindowType
      BY <1>2, <1>4, FitWindows
    <3> HIDE DEF state
    <3>2. state.rows \in Nat /\ count \in Nat
      BY <3>1 DEF WindowType, count
    <3> QED BY <3>2, RoundTripAssumption DEF rows, RoundTripAssumption
  <2>4. rows < 2 * count - 1
    BY <2>2, <2>3 DEF RoomToSplit
  <2>5. Rows(w) = rows
    BY DEF Rows, rows
  <2> QED BY <1>4, <2>1, <2>4, <2>5 DEF Reason, count
<1>15. todo' = todo \ {w} /\ (phase' # "refused" => phase' = "windows")
  BY <1>1 DEF Pass
<1>16. /\ window_ids \in [Windows -> 0..Len(wins)]
       /\ window_ids' \in [Windows -> 0..Len(wins')]
       /\ window_ids'[w] = Len(wins) + 1
       /\ \A v \in Windows : v # w => window_ids'[v] = window_ids[v]
  <2>1. window_ids \in [Windows -> 0..Len(wins)]
    BY <1>3 DEF IdsAre
  <2>2. 0..Len(wins) \in SUBSET (0..Len(wins')) /\ Len(wins) + 1 \in 0..Len(wins')
    BY <1>2, <1>11
  <2>3. window_ids' = [window_ids EXCEPT ![w] = Len(wins) + 1]
    BY <1>1, <1>9
  <2> QED BY <1>4, <2>1, <2>2, <2>3
<1>17. IdsAre(sess', wins', session_ids', window_ids', "windows", todo')
  <2>1. todo' \in SUBSET TodoIn("windows")
    BY <1>3, <1>15 DEF IdsAre
  <2>2. session_ids' \in [Sessions -> 0..Len(sess')]
    BY <1>1, <1>3, <1>13 DEF IdsAre
  <2>3. \A m \in Sessions : session_ids'[m] # 0 <=> Exists(m, "windows", todo')
    BY <1>1, <1>3 DEF IdsAre, Exists, Late
  <2>4. \A v \in Windows : window_ids'[v] # 0 <=> Filled(v, "windows", todo')
    <3> TAKE v \in Windows
    <3>1. window_ids[v] # 0 <=> Filled(v, "windows", todo)
      BY <1>3 DEF IdsAre
    <3>2. CASE v = w
      BY <1>2, <1>15, <1>16, <3>2 DEF Filled
    <3>3. CASE v # w
      BY <1>15, <1>16, <3>1, <3>3 DEF Filled
    <3> QED BY <3>2, <3>3
  <2>5. \A u, v \in Windows : window_ids'[u] = window_ids'[v] /\ window_ids'[v] # 0 => u = v
    <3>1. \A u, v \in Windows : window_ids[u] = window_ids[v] /\ window_ids[v] # 0 => u = v
      BY <1>3 DEF IdsAre
    <3>2. \A v \in Windows : window_ids[v] # Len(wins) + 1
      BY <1>2, <1>16
    <3> QED BY <1>16, <3>1, <3>2
  <2>6. /\ \A l, m \in Sessions : session_ids'[l] = session_ids'[m] /\ session_ids'[m] # 0 => l = m
        /\ \A j \in 1..Len(sess') : \E m \in Sessions : session_ids'[m] = j
    BY <1>1, <1>3, <1>13 DEF IdsAre
  <2> QED BY <1>16, <2>1, <2>2, <2>3, <2>4, <2>5, <2>6 DEF IdsAre
<1>18. WindowsAre(wins', window_ids', "windows", todo')
  <2>1. \A v, left : ~ActiveBy(v, "windows", left) /\ ~ZoomedBy(v, "windows", left)
    BY DEF ActiveBy, ZoomedBy
  <2> SUFFICES ASSUME NEW v \in Windows, window_ids'[v] # 0
               PROVE  BuiltAs(wins'[window_ids'[v]], v)
    BY <2>1 DEF WindowsAre
  <2>2. CASE v = w
    BY <1>10, <1>11, <1>16, <2>2
  <2>3. CASE v # w
    <3>1. window_ids'[v] = window_ids[v] /\ window_ids[v] # 0
      BY <1>16, <2>3
    <3>2. window_ids[v] \in 1..Len(wins)
      BY <1>2, <1>3, <3>1, IdsIn
    <3>3. BuiltAs(wins[window_ids[v]], v)
      BY <1>3, <2>1, <3>1 DEF WindowsAre
    <3> QED BY <1>11, <3>1, <3>2, <3>3
  <2> QED BY <2>2, <2>3
<1>19. LinksAre(sess', session_ids', window_ids', "windows", todo')
  <2> SUFFICES ASSUME NEW m \in Sessions, session_ids'[m] # 0
               PROVE  HeldAs(sess'[session_ids'[m]], window_ids', m,
                             Here(m, "windows", todo'))
    BY <1>7 DEF LinksAre
  <2>1. CASE m = o
    <3>1. Here(o, "windows", todo') = here \cup {w}
      BY <1>5, <1>15 DEF Here, There, here, o
    <3>2. \A v \in here : window_ids'[v] = window_ids[v]
      <4>1. \A v \in here : v \in Windows
        BY <1>2, <1>5, <1>8, LinkedIs
      <4> QED BY <1>8, <1>16, <4>1
    <3>3. HeldAs(put, window_ids', o, Here(o, "windows", todo'))
      <4>1. put.links[IndexIn(o, w)] = window_ids'[w]
        BY <1>12, <1>16 DEF index
      <4>2. Indexes(put) = Indexes(sess[k]) \cup {IndexIn(o, w)}
            /\ IndexIn(o, w) \notin Indexes(sess[k])
        BY <1>9, <1>12 DEF index
      <4> DEFINE s == sess[k]
                 more == Here(o, "windows", todo')
      <4>3. more = here \cup {w} /\ HeldAs(s, window_ids, o, here)
            /\ Indexes(put) = Indexes(s) \cup {IndexIn(o, w)}
            /\ \A j \in Indexes(s) : put.links[j] = s.links[j]
        BY <1>8, <1>12, <3>1, <4>2
      <4> HIDE DEF s, more
      <4> QED BY <3>2, <4>1, <4>3, HeldMore DEF more
    <3> QED BY <1>1, <1>6, <1>13, <2>1, <3>3
  <2>2. CASE m # o
    <3>1. session_ids[m] # k /\ session_ids[m] \in 1..Len(sess)
      BY <1>1, <1>2, <1>3, <1>5, <1>6, <2>2, IdsIn DEF IdsAre
    <3>2. sess'[session_ids'[m]] = sess[session_ids[m]]
      BY <1>1, <1>13, <3>1
    <3>3. Here(m, "windows", todo') = Here(m, "windows", todo)
      BY <1>15, <2>2 DEF Here, There, o
    <3>4. HeldAs(sess[session_ids[m]], window_ids, m, Here(m, "windows", todo))
      BY <1>1, <1>3, <1>7 DEF LinksAre
    <3>5. \A v \in Here(m, "windows", todo) : window_ids'[v] = window_ids[v]
      <4>1. \A v \in Here(m, "windows", todo) : v \in Windows /\ v # w
        BY <1>2, <1>4, LinkedIs DEF Here, There
      <4> QED BY <1>16, <4>1
    <3>6. HeldAs(sess[session_ids[m]], window_ids', m, Here(m, "windows", todo))
      BY <3>4, <3>5 DEF HeldAs
    <3> QED BY <3>2, <3>3, <3>6
  <2> QED BY <2>1, <2>2
<1>20. GroupsAre(sess', session_ids')
  <2> SUFFICES ASSUME NEW m \in Sessions, session_ids[m] # 0
               PROVE  GroupedAs(sess'[session_ids[m]], m, session_ids)
    BY <1>1 DEF GroupsAre
  <2>1. sess'[session_ids[m]].group = sess[session_ids[m]].group
    <3>1. session_ids[m] \in 1..Len(sess)
      BY <1>2, <1>3, IdsIn
    <3> QED BY <1>12, <1>13, <3>1
  <2> QED BY <1>3, <2>1 DEF GroupsAre, GroupedAs
<1>21. SelectionIs(sess', session_ids', "windows", todo')
  BY DEF SelectionIs
<1>22. phase' # "refused" =>
         Progress(sess', wins', session_ids', window_ids', phase', todo')
  BY <1>15, <1>17, <1>18, <1>19, <1>20, <1>21 DEF Progress
<1> QED BY <1>13, <1>14, <1>22 DEF Kept

\* A pass that creates nothing leaves the ids alone.
LEMMA IdsKept ==
  ASSUME NEW ss, NEW ws, NEW sids, NEW wids, NEW at, NEW left,
         IdsAre(ss, ws, sids, wids, at, left),
         NEW tt, NEW vs, Len(tt) = Len(ss), Len(vs) = Len(ws), NEW i,
         at \notin {"sessions", "windows", "members"}
  PROVE  IdsAre(tt, vs, sids, wids, at, left \ {i})
<1>1. \A n : Exists(n, at, left) <=> Exists(n, at, left \ {i})
  BY DEF Exists
<1>2. \A w : Filled(w, at, left) <=> Filled(w, at, left \ {i})
  BY DEF Filled
<1> HIDE DEF Exists, Filled
<1> QED BY <1>1, <1>2 DEF IdsAre

\* link-window puts the window in a session and shows it.
LinkShown(s, i, id) == Select(Put(s, i, id), i)

LEMMA LinkedThere ==
  ASSUME NEW s, NEW N \in Nat, IsNew(s, N), NEW i \in Nat, NEW id \in 1..N, i \notin Indexes(s)
  PROVE  /\ IsNew(LinkShown(s, i, id), N) /\ LinkShown(s, i, id).group = s.group
         /\ Indexes(LinkShown(s, i, id)) = Indexes(s) \cup {i}
         /\ LinkShown(s, i, id).links[i] = id
         /\ \A j \in Indexes(s) : LinkShown(s, i, id).links[j] = s.links[j]
<1> DEFINE put == Put(s, i, id)
<1>1. /\ IsNew(put, N) /\ Indexes(put) = Indexes(s) \cup {i} /\ put.links[i] = id
      /\ \A j \in Indexes(s) \ {i} : put.links[j] = s.links[j]
      /\ put.group = s.group
  BY PutIs
<1> HIDE DEF put
<1>2. i \in Indexes(put)
  BY <1>1
<1>3. IsNew(Select(put, i), N) /\ Select(put, i).links = put.links
      /\ Select(put, i).group = put.group
  BY <1>1, <1>2, SelectIs
<1>4. LinkShown(s, i, id) = Select(put, i)
  BY DEF LinkShown, put
<1> QED BY <1>1, <1>3, <1>4 DEF Indexes

LEMMA LinkWindowKeeps ==
  ASSUME AtLoop("links"), NEW w \in todo, LinkWindow(w)
  PROVE  Kept
<1> DEFINE by(k) == {n \in Linkers(w) : session_ids[PrimaryOf(n)] = k}
           index(k) == IndexIn(Min(by(k)), w)
           linked == {k \in DOMAIN sess : by(k) # {}}
           here(n) == Here(n, "links", todo)
           id == window_ids[w]
<1>1. /\ Pass("links", w, IF \E k \in linked : index(k) \in Indexes(sess[k])
                          THEN "index in use" ELSE "none")
      /\ sess' = [k \in DOMAIN sess |->
                    IF k \in linked THEN LinkShown(sess[k], index(k), id) ELSE sess[k]]
      /\ wins' = wins /\ session_ids' = session_ids /\ window_ids' = window_ids
  BY DEF LinkWindow, LinkShown
<1>2. /\ Fit /\ Typed(sess, wins) /\ Len(sess) \in Nat /\ Len(wins) \in Nat
      /\ DOMAIN sess = 1..Len(sess)
      /\ \A k \in 1..Len(sess) : IsNew(sess[k], Len(wins)) /\ sess[k].group \in 0..Len(sess)
  BY TypedIs DEF AtLoop
<1>3. /\ IdsAre(sess, wins, session_ids, window_ids, "links", todo)
      /\ WindowsAre(wins, window_ids, "links", todo)
      /\ LinksAre(sess, session_ids, window_ids, "links", todo)
      /\ GroupsAre(sess, session_ids)
  BY DEF AtLoop, Progress
<1>4. w \in Windows /\ todo \in SUBSET Windows
  BY <1>3 DEF IdsAre, TodoIn
<1>5. id \in 1..Len(wins)
  BY <1>2, <1>3, <1>4, IdsIn DEF IdsAre, Filled
<1>6. \A n, left : ~Killed(n, "links", left)
  BY DEF Killed, Late
<1>7. /\ \A n \in Sessions : session_ids[n] # 0 => session_ids[n] \in 1..Len(sess)
      /\ \A m, n \in Sessions : session_ids[m] = session_ids[n] /\ session_ids[n] # 0 => m = n
  BY <1>2, <1>3, IdsIn DEF IdsAre
<1>8. \A n \in Linkers(w) : /\ n \in Sessions /\ PrimaryOf(n) = n /\ w \in LinkedIn(n)
                            /\ n # Owner(w) /\ session_ids[n] # 0
  <2> TAKE n \in Linkers(w)
  <2>1. n \in Sessions /\ PrimaryOf(n) = n /\ w \in LinkedIn(n) /\ n # Owner(w)
    BY <1>2, <1>4, LinkersAre
  <2>2. Exists(n, "links", todo)
    BY <2>1 DEF Exists, Deferred
  <2>3. session_ids[n] # 0
    BY <1>3, <2>1, <2>2 DEF IdsAre
  <2> QED BY <2>1, <2>3
<1>9. \A n \in Linkers(w) : /\ session_ids[n] \in linked
                            /\ index(session_ids[n]) = IndexIn(n, w)
  <2> TAKE n \in Linkers(w)
  <2>1. by(session_ids[n]) = {n}
    BY <1>7, <1>8
  <2>2. Min({n}) = n
    <3>1. {n} \in SUBSET Nat /\ {n} # {}
      BY <1>2, <1>8, FitSessions
    <3>2. Min({n}) \in {n}
      BY <3>1, Least
    <3> QED BY <3>2
  <2>3. session_ids[n] \in DOMAIN sess
    BY <1>2, <1>7, <1>8
  <2> QED BY <2>1, <2>2, <2>3
<1>10. \A k \in linked : \E n \in Linkers(w) : k = session_ids[n]
  BY <1>8
<1>11. ASSUME NEW n \in Sessions, session_ids[n] # 0
       PROVE  HeldAs(sess[session_ids[n]], window_ids, n, here(n))
  BY <1>3, <1>6, <1>11 DEF LinksAre
<1>12. \A n \in Linkers(w) : w \notin here(n) /\ here(n) \in SUBSET LinkedIn(n)
  BY <1>8 DEF Here, There
<1>13. \A n \in Linkers(w) : /\ IndexIn(n, w) \notin Indexes(sess[session_ids[n]])
                             /\ IndexIn(n, w) \in Nat
  <2> TAKE n \in Linkers(w)
  <2> DEFINE s == sess[session_ids[n]]
             h == here(n)
  <2>1. /\ HeldAs(s, window_ids, n, h) /\ w \in LinkedIn(n) /\ w \notin h
        /\ h \in SUBSET LinkedIn(n) /\ n \in Sessions
    BY <1>8, <1>11, <1>12
  <2> HIDE DEF s, h
  <2>2. IndexIn(n, w) \notin Indexes(s) /\ IndexIn(n, w) \in Nat
    BY <1>2, <2>1, IndexFree
  <2> QED BY <2>2 DEF s
<1>14. ~ \E k \in linked : index(k) \in Indexes(sess[k])
  <2> SUFFICES ASSUME NEW k \in linked PROVE index(k) \notin Indexes(sess[k])
    OBVIOUS
  <2>1. PICK n \in Linkers(w) : k = session_ids[n]
    BY <1>10
  <2>2. index(k) = IndexIn(n, w)
    BY <1>9, <2>1
  <2> HIDE DEF index
  <2> QED BY <1>13, <2>1, <2>2
<1>15. todo' = todo \ {w} /\ phase' = "links"
  <2> DEFINE problem == IF \E k \in linked : index(k) \in Indexes(sess[k])
                        THEN "index in use" ELSE "none"
  <2>1. problem = "none"
    BY <1>14
  <2>2. Pass("links", w, problem)
    BY <1>1
  <2> HIDE DEF problem
  <2> QED BY <2>1, <2>2 DEF Pass
<1>16. ASSUME NEW n \in Linkers(w)
       PROVE  sess'[session_ids[n]] = LinkShown(sess[session_ids[n]], IndexIn(n, w), id)
  <2>1. session_ids[n] \in linked /\ index(session_ids[n]) = IndexIn(n, w)
        /\ session_ids[n] \in DOMAIN sess
    BY <1>9
  <2> HIDE DEF index, linked, id
  <2> QED BY <1>1, <2>1
<1>17. ASSUME NEW k \in 1..Len(sess), \A n \in Linkers(w) : k # session_ids[n]
       PROVE  sess'[k] = sess[k]
  <2>1. k \notin linked
    BY <1>10, <1>17
  <2> HIDE DEF index, linked, id
  <2> QED BY <1>1, <1>2, <2>1
<1>18. DOMAIN sess' = 1..Len(sess) /\ sess' = [k \in 1..Len(sess) |-> sess'[k]]
  <2> HIDE DEF index, linked, id
  <2> QED BY <1>1, <1>2
<1> HIDE DEF by, index, linked, here, id
<1>19. ASSUME NEW n \in Linkers(w), NEW s, NEW t,
              s = sess[session_ids[n]], t = sess'[session_ids[n]]
       PROVE  /\ IsNew(t, Len(wins)) /\ t.group = s.group
              /\ Indexes(t) = Indexes(s) \cup {IndexIn(n, w)}
              /\ t.links[IndexIn(n, w)] = id
              /\ \A j \in Indexes(s) : t.links[j] = s.links[j]
  <2>1. t = LinkShown(s, IndexIn(n, w), id)
    BY <1>16, <1>19
  <2>2. /\ IsNew(s, Len(wins)) /\ IndexIn(n, w) \in Nat /\ IndexIn(n, w) \notin Indexes(s)
    BY <1>2, <1>7, <1>8, <1>13, <1>19
  <2> DEFINE i == IndexIn(n, w)
             N == Len(wins)
  <2>3. IsNew(s, N) /\ i \in Nat /\ i \notin Indexes(s) /\ t = LinkShown(s, i, id)
        /\ N \in Nat /\ id \in 1..N
    BY <1>2, <1>5, <2>1, <2>2
  <2> HIDE DEF i, N
  <2>4. /\ IsNew(LinkShown(s, i, id), N) /\ LinkShown(s, i, id).group = s.group
        /\ Indexes(LinkShown(s, i, id)) = Indexes(s) \cup {i}
        /\ LinkShown(s, i, id).links[i] = id
        /\ \A j \in Indexes(s) : LinkShown(s, i, id).links[j] = s.links[j]
    BY <2>3, LinkedThere
  <2> QED BY <2>3, <2>4 DEF i, N
<1>20. ASSUME NEW k \in 1..Len(sess)
       PROVE  IsNew(sess'[k], Len(wins)) /\ sess'[k].group = sess[k].group
  <2>1. CASE \E n \in Linkers(w) : k = session_ids[n]
    BY <1>19, <2>1
  <2>2. CASE \A n \in Linkers(w) : k # session_ids[n]
    BY <1>2, <1>17, <2>2
  <2> QED BY <2>1, <2>2
<1>21. Typed(sess', wins') /\ Len(sess') = Len(sess)
  <2>1. \A k \in 1..Len(sess) : IsNew(sess'[k], Len(wins)) /\ sess'[k].group \in 0..Len(sess)
    BY <1>2, <1>20
  <2>2. Typed(sess', wins) /\ Len(sess') = Len(sess)
    BY <1>2, <1>18, <2>1, SessionsSet
  <2> QED BY <1>1, <2>2
<1>22. IdsAre(sess', wins', session_ids', window_ids', "links", todo')
  <2>1. IdsAre(sess', wins', session_ids, window_ids, "links", todo \ {w})
    BY <1>1, <1>3, <1>21, IdsKept
  <2> QED BY <1>1, <1>15, <2>1
<1>23. WindowsAre(wins', window_ids', "links", todo')
  BY <1>1, <1>3 DEF WindowsAre, ActiveBy, ZoomedBy
<1>24. LinksAre(sess', session_ids', window_ids', "links", todo')
  <2> SUFFICES ASSUME NEW m \in Sessions, session_ids[m] # 0
               PROVE  HeldAs(sess'[session_ids[m]], window_ids, m, Here(m, "links", todo'))
    BY <1>1, <1>6 DEF LinksAre
  <2>1. CASE m \in Linkers(w)
    <3> DEFINE s == sess[session_ids[m]]
               t == sess'[session_ids[m]]
               h == here(m)
               more == Here(m, "links", todo')
    <3>1. more = h \cup {w}
      BY <1>8, <1>15, <2>1 DEF Here, There, here
    <3>2. HeldAs(s, window_ids, m, h)
      BY <1>11
    <3>3. /\ Indexes(t) = Indexes(s) \cup {IndexIn(m, w)}
          /\ t.links[IndexIn(m, w)] = window_ids[w]
          /\ \A j \in Indexes(s) : t.links[j] = s.links[j]
      BY <1>19, <2>1, SMTT(30) DEF id
    <3> HIDE DEF s, t, h, more
    <3>4. HeldAs(t, window_ids, m, more)
      BY <3>1, <3>2, <3>3, HeldMore
    <3> QED BY <3>4 DEF t, more
  <2>2. CASE m \notin Linkers(w)
    <3>1. sess'[session_ids[m]] = sess[session_ids[m]]
      <4>1. \A n \in Linkers(w) : session_ids[m] # session_ids[n]
        BY <1>7, <1>8, <2>2
      <4> QED BY <1>7, <1>17, <4>1
    <3>2. Here(m, "links", todo') = here(m)
      <4>1. w \in LinkedIn(m) => Owner(w) = m
        <5>1. PrimaryOf(m) = m
          BY <1>3 DEF IdsAre, Exists, Deferred, Late
        <5> QED BY <1>2, <1>4, <2>2, <5>1, LinkersAre
      <4> QED BY <1>15, <4>1 DEF Here, There, here
    <3> QED BY <1>11, <3>1, <3>2
  <2> QED BY <2>1, <2>2
<1>25. GroupsAre(sess', session_ids')
  <2> SUFFICES ASSUME NEW m \in Sessions, session_ids[m] # 0
               PROVE  GroupedAs(sess'[session_ids[m]], m, session_ids)
    BY <1>1 DEF GroupsAre
  <2>1. sess'[session_ids[m]].group = sess[session_ids[m]].group
    BY <1>7, <1>20
  <2> QED BY <1>3, <2>1 DEF GroupsAre, GroupedAs
<1>26. SelectionIs(sess', session_ids', "links", todo')
  BY DEF SelectionIs
<1>27. Progress(sess', wins', session_ids', window_ids', phase', todo')
  BY <1>15, <1>22, <1>23, <1>24, <1>25, <1>26 DEF Progress
<1> QED BY <1>15, <1>21, <1>27 DEF Kept

LEMMA RenumberedIs ==
  ASSUME Fit, options \in [base : Nat, renumber : BOOLEAN], options.renumber,
         NEW n \in Sessions, NEW s, NEW N, IsNew(s, N), Indexes(s) = UsedIn(n), NEW wids,
         \A w \in LinkedIn(n) : s.links[IndexIn(n, w)] = wids[w]
  PROVE  /\ IsNew(Renumber(s, options.base), N)
         /\ Renumber(s, options.base).group = s.group
         /\ LeftAs(Renumber(s, options.base), wids, n)
<1> DEFINE base == options.base
           t == Renumber(s, base)
           L == LinkedIn(n)
<1>1. base \in Nat
  OBVIOUS
<1> HIDE DEF base
<1>2. /\ IsNew(t, N) /\ t.group = s.group
      /\ Indexes(t) = {NewIndex(s, base, i) : i \in Indexes(s)}
      /\ \A i \in Indexes(s) : t.links[NewIndex(s, base, i)] = s.links[i]
  BY <1>1, RenumberIs
<1>3. /\ \A w \in L : IndexIn(n, w) \in UsedIn(n)
      /\ \A i \in UsedIn(n) : \E w \in L : IndexIn(n, w) = i
  BY LinkedIs
<1> HIDE DEF t, L
<1>4. \A w \in L : NewIndex(s, base, IndexIn(n, w)) = Spot(n, w)
  BY DEF NewIndex, Spot, Rank, base
<1>5. Indexes(t) = {Spot(n, w) : w \in L}
  <2>1. Indexes(t) = {NewIndex(s, base, i) : i \in UsedIn(n)}
    BY <1>2
  <2>2. Indexes(t) = {NewIndex(s, base, IndexIn(n, w)) : w \in L}
    BY <1>3, <2>1
  <2> QED BY <1>4, <2>2
<1>6. \A w \in L : t.links[Spot(n, w)] = wids[w]
  BY <1>2, <1>3, <1>4 DEF L
<1> QED BY <1>2, <1>5, <1>6 DEF LeftAs, t, base, L

\* A session without its placeholder.
LEMMA PlaceholderKilled ==
  ASSUME Fit, options \in [base : Nat, renumber : BOOLEAN], NEW n \in Sessions,
         NEW s, NEW N \in Nat, IsNew(s, N), NEW wids, HeldAs(s, wids, n, LinkedIn(n)),
         NEW left, left = Unlink(s, PlaceholderIndex),
         NEW t, t = IF options.renumber THEN Renumber(left, options.base) ELSE left
  PROVE  IsNew(t, N) /\ t.group = s.group /\ LeftAs(t, wids, n)
<1> DEFINE P == PlaceholderIndex
           L == LinkedIn(n)
           base == options.base
<1>1. /\ Indexes(s) = {IndexIn(n, w) : w \in L} \cup {P}
      /\ \A w \in L : s.links[IndexIn(n, w)] = wids[w]
  BY DEF HeldAs
<1>2. /\ L # {} /\ base \in Nat
      /\ \A w \in L : IndexIn(n, w) \in UsedIn(n)
      /\ \A i \in UsedIn(n) : \E w \in L : IndexIn(n, w) = i
  BY LinkedIs
<1>3. P \notin UsedIn(n)
  BY PlaceholderIs
<1> HIDE DEF P, L, base
<1>4. UsedIn(n) = {IndexIn(n, w) : w \in L}
  BY <1>2
<1>5. /\ P \in Indexes(s) /\ Indexes(s) # {P} /\ Indexes(s) \ {P} = UsedIn(n)
  BY <1>1, <1>2, <1>3, <1>4
<1>6. /\ IsNew(left, N) /\ Indexes(left) = UsedIn(n) /\ left.group = s.group
      /\ \A w \in L : left.links[IndexIn(n, w)] = wids[w]
  <2>1. /\ IsNew(Unlink(s, P), N) /\ Indexes(Unlink(s, P)) = Indexes(s) \ {P}
        /\ \A j \in Indexes(s) \ {P} : Unlink(s, P).links[j] = s.links[j]
        /\ Unlink(s, P).group = s.group
    BY <1>5, UnlinkIs
  <2>2. left = Unlink(s, P)
    BY DEF P
  <2>3. IsNew(left, N) /\ Indexes(left) = UsedIn(n) /\ left.group = s.group
    BY <1>5, <2>1, <2>2
  <2>4. \A w \in L : left.links[IndexIn(n, w)] = wids[w]
    BY <1>1, <1>2, <1>5, <2>1, <2>2
  <2> QED BY <2>3, <2>4
<1>7. CASE ~options.renumber
  <2>1. t = left /\ \A w : Spot(n, w) = IndexIn(n, w)
    BY <1>7 DEF Spot
  <2> QED BY <1>4, <1>6, <2>1 DEF LeftAs, L
<1>8. CASE options.renumber
  <2>1. t = Renumber(left, base)
    BY <1>8 DEF base
  <2>2. /\ IsNew(Renumber(left, base), N) /\ Renumber(left, base).group = left.group
        /\ LeftAs(Renumber(left, base), wids, n)
    BY <1>6, <1>8, RenumberedIs DEF L, base
  <2> QED BY <1>6, <2>1, <2>2
<1> QED BY <1>7, <1>8

LEMMA KillPlaceholderKeeps ==
  ASSUME AtLoop("placeholders"), NEW n \in todo, KillPlaceholder(n)
  PROVE  Kept
<1> DEFINE k == session_ids[n]
           left == Unlink(sess[k], PlaceholderIndex)
           t == IF options.renumber THEN Renumber(left, options.base) ELSE left
<1>1. /\ Pass("placeholders", n, "none")
      /\ sess' = [sess EXCEPT ![k] = t]
      /\ wins' = wins /\ session_ids' = session_ids /\ window_ids' = window_ids
  BY DEF KillPlaceholder
<1>2. /\ Fit /\ options \in [base : Nat, renumber : BOOLEAN]
      /\ Typed(sess, wins) /\ Len(sess) \in Nat /\ Len(wins) \in Nat
      /\ \A j \in 1..Len(sess) : IsNew(sess[j], Len(wins)) /\ sess[j].group \in 0..Len(sess)
  BY TypedIs DEF AtLoop
<1>3. /\ IdsAre(sess, wins, session_ids, window_ids, "placeholders", todo)
      /\ WindowsAre(wins, window_ids, "placeholders", todo)
      /\ LinksAre(sess, session_ids, window_ids, "placeholders", todo)
      /\ GroupsAre(sess, session_ids)
  BY DEF AtLoop, Progress
<1>4. n \in Sessions /\ n \notin Deferred
  BY <1>3 DEF IdsAre, TodoIn
<1>5. /\ \A m \in Sessions : session_ids[m] # 0 => session_ids[m] \in 1..Len(sess)
      /\ \A l, m \in Sessions : session_ids[l] = session_ids[m] /\ session_ids[m] # 0 => l = m
  BY <1>2, <1>3, IdsIn DEF IdsAre
<1>6. k # 0 /\ k \in 1..Len(sess)
  BY <1>3, <1>4, <1>5 DEF IdsAre, Exists
<1>7. todo' = todo \ {n} /\ phase' = "placeholders"
  BY <1>1 DEF Pass
<1>8. \A m, l : Here(m, "placeholders", l) = LinkedIn(m)
  BY DEF Here, There
<1>9. HeldAs(sess[k], window_ids, n, LinkedIn(n))
  <2>1. ~Killed(n, "placeholders", todo)
    BY DEF Killed, Late
  <2> QED BY <1>3, <1>4, <1>6, <1>8, <2>1 DEF LinksAre
<1>10. IsNew(t, Len(wins)) /\ t.group = sess[k].group /\ LeftAs(t, window_ids, n)
  <2> DEFINE s == sess[k]
             N == Len(wins)
  <2>1. /\ IsNew(s, N) /\ N \in Nat /\ HeldAs(s, window_ids, n, LinkedIn(n))
        /\ left = Unlink(s, PlaceholderIndex)
        /\ t = IF options.renumber THEN Renumber(left, options.base) ELSE left
    BY <1>2, <1>6, <1>9
  <2> HIDE DEF s, N, t, left
  <2>2. IsNew(t, N) /\ t.group = s.group /\ LeftAs(t, window_ids, n)
    BY <1>2, <1>4, <2>1, PlaceholderKilled
  <2> QED BY <2>2 DEF s, N
<1> HIDE DEF k, t
<1>11. /\ Typed(sess', wins') /\ Len(sess') = Len(sess) /\ sess'[k] = t
       /\ \A j \in 1..Len(sess) : j # k => sess'[j] = sess[j]
  <2> DEFINE tt == [sess EXCEPT ![k] = t]
  <2>1. t.group \in 0..Len(sess)
    BY <1>2, <1>6, <1>10
  <2>2. /\ Typed(tt, wins) /\ Len(tt) = Len(sess) /\ tt[k] = t
        /\ \A j \in 1..Len(sess) : j # k => tt[j] = sess[j]
    BY <1>2, <1>6, <1>10, <2>1, SessionSet
  <2> HIDE DEF tt
  <2> QED BY <1>1, <2>2 DEF tt
<1>12. IdsAre(sess', wins', session_ids', window_ids', "placeholders", todo')
  <2>1. IdsAre(sess', wins', session_ids, window_ids, "placeholders", todo \ {n})
    BY <1>1, <1>3, <1>11, IdsKept
  <2> QED BY <1>1, <1>7, <2>1
<1>13. WindowsAre(wins', window_ids', "placeholders", todo')
  BY <1>1, <1>3 DEF WindowsAre, ActiveBy, ZoomedBy
<1>14. ASSUME NEW m \in Sessions, session_ids[m] # 0, m # n
       PROVE  sess'[session_ids[m]] = sess[session_ids[m]]
  <2>1. session_ids[m] \in 1..Len(sess) /\ session_ids[m] # k
    BY <1>4, <1>5, <1>6, <1>14 DEF k
  <2> QED BY <1>11, <2>1
<1>15. LinksAre(sess', session_ids', window_ids', "placeholders", todo')
  <2> SUFFICES ASSUME NEW m \in Sessions, session_ids[m] # 0
               PROVE  IF Killed(m, "placeholders", todo')
                      THEN LeftAs(sess'[session_ids[m]], window_ids, m)
                      ELSE HeldAs(sess'[session_ids[m]], window_ids, m, LinkedIn(m))
    BY <1>1, <1>8 DEF LinksAre
  <2>1. CASE m = n
    <3>1. Killed(m, "placeholders", todo')
      BY <1>7, <2>1 DEF Killed
    <3> QED BY <1>10, <1>11, <2>1, <3>1 DEF k
  <2>2. CASE m # n
    <3>1. Killed(m, "placeholders", todo') <=> Killed(m, "placeholders", todo)
      BY <1>7, <2>2 DEF Killed
    <3>2. IF Killed(m, "placeholders", todo)
          THEN LeftAs(sess[session_ids[m]], window_ids, m)
          ELSE HeldAs(sess[session_ids[m]], window_ids, m, LinkedIn(m))
      BY <1>3, <1>8 DEF LinksAre
    <3> QED BY <1>14, <2>2, <3>1, <3>2
  <2> QED BY <2>1, <2>2
<1>16. GroupsAre(sess', session_ids')
  <2> SUFFICES ASSUME NEW m \in Sessions, session_ids[m] # 0
               PROVE  GroupedAs(sess'[session_ids[m]], m, session_ids)
    BY <1>1 DEF GroupsAre
  <2>1. sess'[session_ids[m]].group = sess[session_ids[m]].group
    <3>1. CASE m = n
      BY <1>10, <1>11, <3>1 DEF k
    <3>2. CASE m # n
      BY <1>14, <3>2
    <3> QED BY <3>1, <3>2
  <2> QED BY <1>3, <2>1 DEF GroupsAre, GroupedAs
<1>17. SelectionIs(sess', session_ids', "placeholders", todo')
  BY DEF SelectionIs
<1>18. Progress(sess', wins', session_ids', window_ids', phase', todo')
  BY <1>7, <1>12, <1>13, <1>15, <1>16, <1>17 DEF Progress
<1> QED BY <1>7, <1>11, <1>18 DEF Kept

LEMMA LeftSame ==
  ASSUME NEW s, NEW t, NEW wids, NEW n, LeftAs(s, wids, n), t.links = s.links
  PROVE  LeftAs(t, wids, n)
BY DEF LeftAs, Indexes

LEMMA RegroupedIs ==
  ASSUME NEW s, NEW N, IsNew(s, N), NEW id \in Nat
  PROVE  /\ IsNew([s EXCEPT !.group = id], N) /\ [s EXCEPT !.group = id].group = id
         /\ [s EXCEPT !.group = id].links = s.links
<1> DEFINE t == [s EXCEPT !.group = id]
<1>1. s.links \in [Indexes(s) -> 1..N] /\ DOMAIN s = {"group", "links", "cur", "stack"}
  BY NewIs
<1>2. /\ t.group = id /\ t.links = s.links /\ t.cur = s.cur /\ t.stack = s.stack
      /\ t = [group |-> t.group, links |-> t.links, cur |-> t.cur, stack |-> t.stack]
  BY <1>1 DEF IsNew
<1> HIDE DEF t
<1>3. Indexes(t) = Indexes(s)
  BY <1>2 DEF Indexes
<1>4. t \in [group : Nat, links : UNION {[D -> 1..N] : D \in SUBSET Nat},
             cur : Nat, stack : Seq(Nat)]
  <2>1. /\ s.links \in UNION {[D -> 1..N] : D \in SUBSET Nat}
        /\ s.cur \in Nat /\ s.stack \in Seq(Nat)
    BY DEF IsNew
  <2> QED BY <1>2, <2>1
<1>5. IsNew(t, N)
  BY <1>2, <1>3, <1>4 DEF IsNew
<1> QED BY <1>2, <1>5 DEF t

\* The sessions that are not the primary of a group.
LEMMA DeferredIs ==
  ASSUME Fit
  PROVE  /\ Deferred \in SUBSET Sessions /\ Sessions \in SUBSET (Nat \ {0})
         /\ \A n \in Sessions : /\ n \in Deferred <=> PrimaryOf(n) # n
                                /\ PrimaryOf(n) \in Sessions \ Deferred
<1>1. Sessions \in SUBSET (Nat \ {0})
  BY FitSessions
<1>2. \A n \in Sessions : PrimaryOf(n) \in Sessions /\ PrimaryOf(PrimaryOf(n)) = PrimaryOf(n)
  BY PrimaryIs
<1> QED BY <1>1, <1>2 DEF Deferred

LEMMA CreateMemberKeeps ==
  ASSUME AtLoop("members"), CreateMember
  PROVE  Kept
<1> DEFINE n == Earliest
           q == PrimaryOf(n)
           p == session_ids[q]
           changed == [sess[p] EXCEPT !.group = p]
           mid == [sess EXCEPT ![p] = changed]
           member == Member(sess[p], p)
           new == Len(sess) + 1
<1>1. /\ Pass("members", n, IF Answered THEN "none" ELSE "misread")
      /\ sess' = Append([sess EXCEPT ![p].group = p], member)
      /\ session_ids' = [session_ids EXCEPT ![n] = new]
      /\ wins' = wins /\ window_ids' = window_ids
  BY DEF CreateMember
<1>2. /\ Fit /\ Typed(sess, wins) /\ Len(sess) \in Nat /\ Len(wins) \in Nat
      /\ DOMAIN sess = 1..Len(sess) /\ Answered
      /\ \A j \in 1..Len(sess) : IsNew(sess[j], Len(wins)) /\ sess[j].group \in 0..Len(sess)
  BY TypedIs, AnsweredIs DEF AtLoop
<1>3. /\ IdsAre(sess, wins, session_ids, window_ids, "members", todo)
      /\ WindowsAre(wins, window_ids, "members", todo)
      /\ LinksAre(sess, session_ids, window_ids, "members", todo)
      /\ GroupsAre(sess, session_ids)
  BY DEF AtLoop, Progress
<1>4. n \in todo /\ n \in Deferred /\ n \in Sessions
  <2>1. todo \in SUBSET Deferred /\ Deferred \in SUBSET (Nat \ {0})
        /\ Deferred \in SUBSET Sessions
    BY <1>2, <1>3, DeferredIs DEF IdsAre, TodoIn
  <2>2. n \in todo /\ n \in Deferred
    BY <1>1, <2>1, PassedIs
  <2> QED BY <2>1, <2>2
<1>5. todo' = todo \ {n} /\ phase' = "members"
  BY <1>1, <1>2 DEF Pass
<1>6. /\ \A m \in Sessions : session_ids[m] # 0 => session_ids[m] \in 1..Len(sess)
      /\ \A l, m \in Sessions : session_ids[l] = session_ids[m] /\ session_ids[m] # 0 => l = m
      /\ \A m \in Sessions : session_ids[m] # 0 <=> Exists(m, "members", todo)
      /\ session_ids \in [Sessions -> 0..Len(sess)]
  BY <1>2, <1>3, IdsIn DEF IdsAre
<1>7. /\ q \in Sessions \ Deferred /\ q # n /\ p # 0 /\ p \in 1..Len(sess) /\ session_ids[n] = 0
  <2>1. q \in Sessions \ Deferred /\ q # n
    BY <1>2, <1>4, DeferredIs
  <2>2. Exists(q, "members", todo) /\ ~Exists(n, "members", todo)
    BY <1>4, <2>1 DEF Exists
  <2> QED BY <1>4, <1>6, <2>1, <2>2
<1>8. sess' = Append(mid, member)
  BY <1>1, <1>2, <1>7
<1> HIDE DEF n, q, p, changed, mid, member, new
<1>9. /\ IsNew(changed, Len(wins)) /\ changed.group = p /\ changed.links = sess[p].links
      /\ IsNew(member, Len(wins)) /\ member.group = p /\ member.links = sess[p].links
  <2> DEFINE s == sess[p]
             N == Len(wins)
  <2>1. IsNew(s, N) /\ p \in Nat
    BY <1>2, <1>7
  <2> HIDE DEF s, N
  <2>2. /\ IsNew([s EXCEPT !.group = p], N) /\ [s EXCEPT !.group = p].group = p
        /\ [s EXCEPT !.group = p].links = s.links
    BY <2>1, RegroupedIs
  <2>3. /\ IsNew(Member(s, p), N) /\ Member(s, p).links = s.links /\ Member(s, p).group = p
    BY <2>1, MemberIs
  <2> QED BY <2>2, <2>3 DEF changed, member, s, N
<1>10. /\ Typed(mid, wins) /\ Len(mid) = Len(sess) /\ mid[p] = changed
       /\ \A j \in 1..Len(sess) : j # p => mid[j] = sess[j]
  <2>1. /\ Typed(sess, wins) /\ p \in 1..Len(sess) /\ IsNew(changed, Len(wins))
        /\ changed.group \in 0..Len(sess)
    BY <1>2, <1>7, <1>9
  <2> QED BY <2>1, SessionSet DEF mid
<1>11. /\ Typed(sess', wins') /\ Len(sess') = new /\ sess'[new] = member
       /\ \A j \in 1..Len(sess) : sess'[j] = mid[j]
  <2>1. member.group \in 0..(Len(mid) + 1)
    BY <1>2, <1>7, <1>9, <1>10
  <2>2. /\ Typed(Append(mid, member), wins) /\ Len(Append(mid, member)) = Len(mid) + 1
        /\ Append(mid, member)[Len(mid) + 1] = member
        /\ \A j \in 1..Len(mid) : Append(mid, member)[j] = mid[j]
    BY <1>9, <1>10, <2>1, SessionAdded
  <2> QED BY <1>1, <1>8, <1>10, <2>2 DEF new
<1>12. /\ session_ids' \in [Sessions -> 0..Len(sess')]
       /\ session_ids'[n] = new /\ new \notin 0..Len(sess) /\ new # 0
       /\ \A m \in Sessions : m # n => session_ids'[m] = session_ids[m]
  <2>1. 0..Len(sess) \in SUBSET (0..Len(sess')) /\ new \in 0..Len(sess')
        /\ new \notin 0..Len(sess) /\ new # 0
    BY <1>2, <1>11 DEF new
  <2>2. session_ids \in [Sessions -> 0..Len(sess')]
    BY <1>6, <2>1
  <2> QED BY <1>1, <1>4, <2>1, <2>2
<1>13. ASSUME NEW m \in Sessions, session_ids'[m] # 0, m # n
       PROVE  /\ session_ids[m] # 0 /\ session_ids'[m] = session_ids[m]
              /\ sess'[session_ids'[m]].links = sess[session_ids[m]].links
              /\ sess'[session_ids'[m]].group =
                   IF m = q THEN p ELSE sess[session_ids[m]].group
  <2>1. session_ids'[m] = session_ids[m] /\ session_ids[m] # 0
        /\ session_ids[m] \in 1..Len(sess)
    BY <1>6, <1>12, <1>13
  <2>2. sess'[session_ids'[m]] = mid[session_ids[m]]
    BY <1>11, <2>1
  <2>3. CASE m = q
    <3>1. session_ids[m] = p
      BY <2>3 DEF p
    <3> QED BY <1>9, <1>10, <2>1, <2>2, <2>3, <3>1
  <2>4. CASE m # q
    <3>1. session_ids[m] # p
      BY <1>6, <1>7, <2>1, <2>4 DEF p
    <3> QED BY <1>10, <2>1, <2>2, <2>4, <3>1
  <2> QED BY <2>3, <2>4
<1>14. IdsAre(sess', wins', session_ids', window_ids', "members", todo')
  <2>1. todo' \in SUBSET TodoIn("members")
    BY <1>3, <1>5 DEF IdsAre
  <2>2. /\ window_ids' \in [Windows -> 0..Len(wins')]
        /\ \A v, w \in Windows : window_ids'[v] = window_ids'[w] /\ window_ids'[w] # 0 => v = w
    BY <1>1, <1>3 DEF IdsAre
  <2>3. \A m \in Sessions : session_ids'[m] # 0 <=> Exists(m, "members", todo')
    <3> TAKE m \in Sessions
    <3>1. CASE m = n
      BY <1>4, <1>5, <1>12, <3>1 DEF Exists, Late
    <3>2. CASE m # n
      BY <1>5, <1>6, <1>12, <3>2 DEF Exists
    <3> QED BY <3>1, <3>2
  <2>4. \A w \in Windows : window_ids'[w] # 0 <=> Filled(w, "members", todo')
    BY <1>1, <1>3 DEF IdsAre, Filled
  <2>5. \A l, m \in Sessions : session_ids'[l] = session_ids'[m] /\ session_ids'[m] # 0 => l = m
    <3>1. \A m \in Sessions : session_ids[m] # new
      BY <1>6, <1>12
    <3> QED BY <1>6, <1>12, <3>1
  <2>6. \A k \in 1..Len(sess') : \E m \in Sessions : session_ids'[m] = k
    <3> TAKE k \in 1..Len(sess')
    <3>1. CASE k = new
      BY <1>4, <1>12, <3>1
    <3>2. CASE k \in 1..Len(sess)
      <4>1. PICK m \in Sessions : session_ids[m] = k
        BY <1>3, <3>2 DEF IdsAre
      <4>2. m # n
        BY <1>2, <1>7, <3>2, <4>1
      <4> QED BY <1>12, <4>1, <4>2
    <3> QED BY <1>2, <1>11, <3>1, <3>2 DEF new
  <2> QED BY <1>12, <2>1, <2>2, <2>3, <2>4, <2>5, <2>6 DEF IdsAre
<1>15. WindowsAre(wins', window_ids', "members", todo')
  BY <1>1, <1>3 DEF WindowsAre, ActiveBy, ZoomedBy
<1>16. \A m, left : Killed(m, "members", left)
  BY DEF Killed, Late
<1>17. ASSUME NEW m \in Sessions, session_ids[m] # 0
       PROVE  LeftAs(sess[session_ids[m]], window_ids, m)
  BY <1>3, <1>16, <1>17 DEF LinksAre
<1>18. LinksAre(sess', session_ids', window_ids', "members", todo')
  <2> SUFFICES ASSUME NEW m \in Sessions, session_ids'[m] # 0
               PROVE  LeftAs(sess'[session_ids'[m]], window_ids, m)
    BY <1>1, <1>16 DEF LinksAre
  <2>1. CASE m = n
    <3>1. LeftAs(sess[p], window_ids, q)
      BY <1>7, <1>17 DEF p
    <3>2. LeftAs(member, window_ids, q)
      BY <1>9, <3>1, LeftSame
    <3>3. /\ LinkedIn(n) = LinkedIn(q) /\ UsedIn(n) = UsedIn(q)
          /\ \A w \in LinkedIn(n) : IndexIn(n, w) = IndexIn(q, w)
      BY <1>2, <1>4, GroupShares DEF q
    <3>4. \A w \in LinkedIn(n) : Spot(n, w) = Spot(q, w)
      BY <3>3 DEF Spot
    <3>5. LeftAs(member, window_ids, n)
      BY <3>2, <3>3, <3>4 DEF LeftAs
    <3> QED BY <1>11, <1>12, <2>1, <3>5
  <2>2. CASE m # n
    BY <1>13, <1>17, <2>2, LeftSame
  <2> QED BY <2>1, <2>2
<1>19. \A r \in Sessions : HasMember(r, session_ids') <=> HasMember(r, session_ids) \/ r = q
  <2>1. Deferred \in SUBSET Sessions
    BY <1>2, DeferredIs
  <2> QED BY <1>4, <1>7, <1>12, <2>1 DEF HasMember, q
<1>20. GroupsAre(sess', session_ids')
  <2> SUFFICES ASSUME NEW m \in Sessions, session_ids'[m] # 0
               PROVE  GroupedAs(sess'[session_ids'[m]], m, session_ids')
    BY DEF GroupsAre
  <2> DEFINE r == PrimaryOf(m)
  <2>1. r \in Sessions \ Deferred /\ r # n /\ session_ids'[r] = session_ids[r]
        /\ (m # r => m \in Deferred)
    BY <1>2, <1>4, <1>12, DeferredIs
  <2>2. CASE m = n
    <3>1. r = q /\ HasMember(r, session_ids') /\ session_ids'[r] = p
      BY <1>19, <2>1, <2>2 DEF q, p
    <3> QED BY <1>9, <1>11, <1>12, <2>2, <3>1 DEF GroupedAs
  <2>3. CASE m = q
    <3>1. r = q /\ HasMember(r, session_ids') /\ session_ids'[r] = p
      <4>1. r = q
        BY <1>2, <1>7, <2>3, DeferredIs
      <4> QED BY <1>19, <2>1, <4>1 DEF p
    <3>2. sess'[session_ids'[m]].group = p
      BY <1>7, <1>13, <2>3
    <3> QED BY <3>1, <3>2 DEF GroupedAs
  <2>4. CASE m # n /\ m # q
    <3>1. /\ sess'[session_ids'[m]].group = sess[session_ids[m]].group
          /\ session_ids[m] # 0
      BY <1>13, <2>4
    <3>2. GroupedAs(sess[session_ids[m]], m, session_ids)
      BY <1>3, <3>1 DEF GroupsAre
    <3>3. HasMember(r, session_ids') <=> HasMember(r, session_ids)
      <4>1. r = q => HasMember(r, session_ids)
        BY <2>1, <2>4, <3>1 DEF HasMember
      <4> QED BY <1>19, <2>1, <4>1
    <3> QED BY <2>1, <3>1, <3>2, <3>3 DEF GroupedAs
  <2> QED BY <2>2, <2>3, <2>4
<1>21. SelectionIs(sess', session_ids', "members", todo')
  BY DEF SelectionIs
<1>22. Progress(sess', wins', session_ids', window_ids', phase', todo')
  BY <1>5, <1>14, <1>15, <1>18, <1>20, <1>21 DEF Progress
<1> QED BY <1>5, <1>11, <1>22 DEF Kept

\* After the loop over the members all sessions and windows are there.
Finishing == {"properties", "zoom", "selection", "done"}

LEMMA FinishingIs ==
  ASSUME NEW at \in Finishing, NEW left
  PROVE  /\ \A n : Killed(n, at, left) /\ Exists(n, at, left)
         /\ \A w : Filled(w, at, left)
         /\ at \notin {"sessions", "windows", "members"}
BY DEF Finishing, Killed, Late, Exists, Filled

LEMMA LinksFinished ==
  ASSUME NEW ss, NEW sids, NEW wids, NEW at \in Finishing, NEW left
  PROVE  LinksAre(ss, sids, wids, at, left)
           <=> \A n \in Sessions : sids[n] # 0 => LeftAs(ss[sids[n]], wids, n)
BY FinishingIs DEF LinksAre

\* A window with another active pane or another zoom is the same otherwise.
LEMMA ActiveSet ==
  ASSUME NEW new \in NewWindow, NEW w, BuiltAs(new, w), NEW p \in DOMAIN new.panes,
         NEW t, t = [new EXCEPT !.active = p]
  PROVE  /\ t \in NewWindow /\ t.active = p /\ t.panes = new.panes /\ t.zoomed = new.zoomed
         /\ BuiltAs(t, w)
<1>1. new.panes \in Seq(Nat) /\ DOMAIN new.panes \in SUBSET Nat
  BY DEF NewWindow
<1>2. /\ t.active = p /\ t.panes = new.panes /\ t.zoomed = new.zoomed /\ t.what = new.what
      /\ t.first = new.first /\ t \in NewWindow
  BY <1>1 DEF NewWindow
<1> QED BY <1>2 DEF BuiltAs

LEMMA ZoomSet ==
  ASSUME NEW new \in NewWindow, NEW w, BuiltAs(new, w), NEW z \in BOOLEAN,
         NEW t, t = [new EXCEPT !.zoomed = z]
  PROVE  /\ t \in NewWindow /\ t.zoomed = z /\ t.panes = new.panes /\ t.active = new.active
         /\ BuiltAs(t, w)
<1>1. /\ t.active = new.active /\ t.panes = new.panes /\ t.what = new.what
      /\ t.first = new.first
  BY DEF NewWindow
<1>2. t \in NewWindow
  BY DEF NewWindow
<1>3. t.zoomed = z
  BY DEF NewWindow
<1> QED BY <1>1, <1>2, <1>3 DEF BuiltAs

\* A window that the loops after the build change.
LEMMA WindowIs ==
  ASSUME Fit, Typed(sess, wins), NEW at \in Finishing, NEW w \in Windows,
         Progress(sess, wins, session_ids, window_ids, at, todo)
  PROVE  /\ window_ids[w] \in 1..Len(wins) /\ wins[window_ids[w]] \in NewWindow
         /\ BuiltAs(wins[window_ids[w]], w)
         /\ \A v \in Windows : v # w => window_ids[v] # window_ids[w]
         /\ wins[window_ids[w]].active \in DOMAIN wins[window_ids[w]].panes
         /\ snap.windows[w].active \in DOMAIN wins[window_ids[w]].panes
         /\ wins[window_ids[w]].panes[snap.windows[w].active] = snap.windows[w].active
         /\ snap.windows[w].zoomed \in BOOLEAN
<1> DEFINE id == window_ids[w]
           old == snap.windows[w]
<1>1. IdsAre(sess, wins, session_ids, window_ids, at, todo)
      /\ WindowsAre(wins, window_ids, at, todo)
  BY DEF Progress
<1>2. Len(sess) \in Nat /\ Len(wins) \in Nat /\ wins \in Seq(NewWindow)
      /\ \A k \in 1..Len(wins) : wins[k].active \in DOMAIN wins[k].panes
  BY TypedIs DEF Typed
<1>3. id # 0
  BY <1>1, FinishingIs DEF IdsAre
<1>4. id \in 1..Len(wins) /\ \A v \in Windows : v # w => window_ids[v] # id
  <2>1. id \in 1..Len(wins)
    BY <1>1, <1>2, <1>3, IdsIn
  <2> QED BY <1>1, <1>3, <2>1 DEF IdsAre
<1>5. wins[id] \in NewWindow
  <2> HIDE DEF id, NewWindow
  <2> QED BY <1>2, <1>4
<1>6. BuiltAs(wins[id], w)
  BY <1>1, <1>3 DEF WindowsAre
<1>7. old \in WindowType /\ old.active \in DOMAIN old.panes
  BY FitWindows
<1>8. old.zoomed \in BOOLEAN
  BY <1>7 DEF WindowType
<1>9. DOMAIN old.panes = 1..Len(old.panes)
  BY <1>7 DEF WindowType
<1>10. wins[id].panes = [k \in 1..Len(old.panes) |-> k]
  BY <1>6 DEF BuiltAs
<1>11. old.active \in DOMAIN wins[id].panes /\ wins[id].panes[old.active] = old.active
  BY <1>7, <1>9, <1>10
<1> QED BY <1>2, <1>4, <1>5, <1>6, <1>8, <1>11

\* The pass of a loop that changes one window and no session.
LEMMA WindowChanged ==
  ASSUME Fit, Typed(sess, wins), NEW at \in {"properties", "zoom"}, NEW w \in Windows,
         Progress(sess, wins, session_ids, window_ids, at, todo), phase' = at,
         NEW t \in NewWindow, t.active \in DOMAIN t.panes, BuiltAs(t, w),
         t.active = snap.windows[w].active,
         at = "zoom" => t.zoomed = snap.windows[w].zoomed,
         wins' = [wins EXCEPT ![window_ids[w]] = t], todo' = todo \ {w},
         sess' = sess, session_ids' = session_ids, window_ids' = window_ids
  PROVE  Kept
<1> DEFINE id == window_ids[w]
<1>1. /\ IdsAre(sess, wins, session_ids, window_ids, at, todo)
      /\ WindowsAre(wins, window_ids, at, todo)
      /\ LinksAre(sess, session_ids, window_ids, at, todo)
      /\ GroupsAre(sess, session_ids) /\ at \in Finishing
  BY DEF Progress, Finishing
<1>2. /\ id \in 1..Len(wins) /\ Len(sess) \in Nat /\ Len(wins) \in Nat
      /\ DOMAIN wins = 1..Len(wins)
      /\ \A v \in Windows : v # w => window_ids[v] # id
  BY <1>1, TypedIs, WindowIs
<1>3. \A v \in Windows : window_ids[v] # 0 => window_ids[v] \in 1..Len(wins)
  BY <1>1, <1>2, IdsIn
<1>4. /\ Typed(sess, wins') /\ Len(wins') = Len(wins) /\ wins'[id] = t
      /\ \A j \in 1..Len(wins) : j # id => wins'[j] = wins[j]
  <2> DEFINE vs == wins'
  <2>1. id \in 1..Len(wins) /\ vs = [wins EXCEPT ![id] = t]
    BY <1>2
  <2> HIDE DEF id, vs
  <2>2. Typed(sess, wins) /\ t \in NewWindow /\ t.active \in DOMAIN t.panes
    OBVIOUS
  <2>3. Typed(sess, vs)
    BY <2>1, <2>2, WindowSet
  <2>4. Len(vs) = Len(wins)
    BY <2>1, <2>2, WindowSet
  <2>5. vs[id] = t
    BY <2>1, <2>2, WindowSet
  <2>6. \A j \in 1..Len(wins) : j # id => vs[j] = wins[j]
    BY <2>1, <2>2, WindowSet
  <2> QED BY <2>3, <2>4, <2>5, <2>6 DEF vs
<1> HIDE DEF id, NewWindow
<1>5. IdsAre(sess', wins', session_ids', window_ids', at, todo')
  <2>1. IdsAre(sess, wins', session_ids, window_ids, at, todo \ {w})
    BY <1>1, <1>4, IdsKept
  <2> QED BY <2>1
<1>6. WindowsAre(wins', window_ids', at, todo')
  <2> SUFFICES ASSUME NEW v \in Windows, window_ids[v] # 0
               PROVE  /\ BuiltAs(wins'[window_ids[v]], v)
                      /\ ActiveBy(v, at, todo \ {w}) =>
                           wins'[window_ids[v]].active = snap.windows[v].active
                      /\ ZoomedBy(v, at, todo \ {w}) =>
                           wins'[window_ids[v]].zoomed = snap.windows[v].zoomed
    BY DEF WindowsAre
  <2>1. CASE v = w
    <3>1. wins'[window_ids[v]] = t
      BY <1>4, <2>1 DEF id
    <3> QED BY <2>1, <3>1 DEF ZoomedBy
  <2>2. CASE v # w
    <3>1. wins'[window_ids[v]] = wins[window_ids[v]]
      BY <1>2, <1>3, <1>4, <2>2
    <3>2. /\ ActiveBy(v, at, todo \ {w}) <=> ActiveBy(v, at, todo)
          /\ ZoomedBy(v, at, todo \ {w}) <=> ZoomedBy(v, at, todo)
      BY <2>2 DEF ActiveBy, ZoomedBy
    <3> QED BY <1>1, <3>1, <3>2 DEF WindowsAre
  <2> QED BY <2>1, <2>2
<1>7. LinksAre(sess', session_ids', window_ids', at, todo')
  <2>1. \A n \in Sessions : session_ids[n] # 0 => LeftAs(sess[session_ids[n]], window_ids, n)
    BY <1>1, LinksFinished
  <2> QED BY <1>1, <2>1, LinksFinished
<1>8. SelectionIs(sess', session_ids', at, todo')
  BY DEF SelectionIs
<1>9. Progress(sess', wins', session_ids', window_ids', at, todo')
  BY <1>1, <1>5, <1>6, <1>7, <1>8 DEF Progress
<1>10. Typed(sess', wins') /\ phase' # "refused"
  BY <1>4
<1> QED BY <1>9, <1>10 DEF Kept

LEMMA RestorePropertiesKeeps ==
  ASSUME AtLoop("properties"), RestoreProperties
  PROVE  Kept
<1> DEFINE w == Earliest
           id == window_ids[w]
           p == wins[id].panes[snap.windows[w].active]
           t == [wins[id] EXCEPT !.active = p]
<1>1. /\ Pass("properties", w, "none") /\ wins' = [wins EXCEPT ![id].active = p]
      /\ sess' = sess /\ session_ids' = session_ids /\ window_ids' = window_ids
  BY DEF RestoreProperties, Pane
<1>2. /\ Fit /\ Typed(sess, wins)
      /\ Progress(sess, wins, session_ids, window_ids, "properties", todo)
  BY DEF AtLoop
<1>3. w \in Windows
  <2>1. todo \in SUBSET Windows /\ Windows \in SUBSET (Nat \ {0})
    BY <1>2, FitWindows DEF Progress, IdsAre, TodoIn
  <2> QED BY <1>1, <2>1, PassedIs
<1>4. todo' = todo \ {w} /\ phase' = "properties"
  BY <1>1 DEF Pass
<1> HIDE DEF w
<1>5. /\ id \in 1..Len(wins) /\ wins[id] \in NewWindow /\ BuiltAs(wins[id], w)
      /\ p = snap.windows[w].active /\ p \in DOMAIN wins[id].panes
  <2>1. "properties" \in Finishing
    BY DEF Finishing
  <2> QED BY <1>2, <1>3, <2>1, WindowIs
<1>6. wins' = [wins EXCEPT ![id] = t]
  BY <1>1
<1>7. t \in NewWindow /\ t.active = p /\ t.panes = wins[id].panes /\ BuiltAs(t, w)
  <2> DEFINE new == wins[id]
             q == p
  <2>1. new \in NewWindow /\ BuiltAs(new, w) /\ q \in DOMAIN new.panes
        /\ t = [new EXCEPT !.active = q]
    BY <1>5
  <2> HIDE DEF new, q, t, NewWindow
  <2>2. t \in NewWindow /\ t.active = q /\ t.panes = new.panes /\ BuiltAs(t, w)
    BY <2>1, ActiveSet
  <2> QED BY <2>2 DEF new, q
<1> HIDE DEF t, p, NewWindow
<1>8. t.active \in DOMAIN t.panes /\ t.active = snap.windows[w].active
  BY <1>5, <1>7
<1>9. wins' = [wins EXCEPT ![window_ids[w]] = t]
  BY <1>6
<1> HIDE DEF id
<1>10. "properties" \in {"properties", "zoom"} /\ "properties" # "zoom"
  OBVIOUS
<1> QED BY <1>1, <1>2, <1>3, <1>4, <1>7, <1>8, <1>9, <1>10, WindowChanged

LEMMA RestoreZoomKeeps ==
  ASSUME AtLoop("zoom"), RestoreZoom
  PROVE  Kept
<1> DEFINE w == Earliest
           id == window_ids[w]
           z == snap.windows[w].zoomed
           t == [wins[id] EXCEPT !.zoomed = z]
<1>1. /\ Pass("zoom", w, "none") /\ wins' = [wins EXCEPT ![id].zoomed = z]
      /\ sess' = sess /\ session_ids' = session_ids /\ window_ids' = window_ids
  BY DEF RestoreZoom
<1>2. /\ Fit /\ Typed(sess, wins)
      /\ Progress(sess, wins, session_ids, window_ids, "zoom", todo)
  BY DEF AtLoop
<1>3. w \in Windows
  <2>1. todo \in SUBSET Windows /\ Windows \in SUBSET (Nat \ {0})
    BY <1>2, FitWindows DEF Progress, IdsAre, TodoIn
  <2> QED BY <1>1, <2>1, PassedIs
<1>4. todo' = todo \ {w} /\ phase' = "zoom"
  BY <1>1 DEF Pass
<1> HIDE DEF w
<1>5. /\ id \in 1..Len(wins) /\ wins[id] \in NewWindow /\ BuiltAs(wins[id], w)
      /\ wins[id].active \in DOMAIN wins[id].panes
  <2>1. "zoom" \in Finishing
    BY DEF Finishing
  <2> QED BY <1>2, <1>3, <2>1, WindowIs
<1>6. z \in BOOLEAN
  <2>1. "zoom" \in Finishing
    BY DEF Finishing
  <2>2. snap.windows[w].zoomed \in BOOLEAN
    BY <1>2, <1>3, <2>1, WindowIs
  <2> QED BY <2>2
<1>7. wins[id].active = snap.windows[w].active
  <2>1. id # 0
    BY <1>5
  <2> QED BY <1>2, <1>3, <2>1 DEF Progress, WindowsAre, ActiveBy
<1>8. wins' = [wins EXCEPT ![id] = t]
  BY <1>1
<1>9. t \in NewWindow /\ t.zoomed = z /\ t.panes = wins[id].panes /\ BuiltAs(t, w)
      /\ t.active = wins[id].active
  <2> DEFINE new == wins[id]
             y == z
  <2>1. new \in NewWindow /\ BuiltAs(new, w) /\ y \in BOOLEAN
        /\ t = [new EXCEPT !.zoomed = y]
    BY <1>5, <1>6
  <2> HIDE DEF new, y, t, NewWindow
  <2>2. t \in NewWindow /\ t.zoomed = y /\ t.panes = new.panes /\ BuiltAs(t, w)
        /\ t.active = new.active
    BY <2>1, ZoomSet
  <2> QED BY <2>2 DEF new, y
<1>10. t.zoomed = snap.windows[w].zoomed
  BY <1>9, Zenon
<1> HIDE DEF t, z, NewWindow
<1>11. t.active \in DOMAIN t.panes /\ t.active = snap.windows[w].active
  BY <1>5, <1>7, <1>9
<1>12. wins' = [wins EXCEPT ![window_ids[w]] = t]
  BY <1>8
<1> HIDE DEF id
<1>13. "zoom" \in {"properties", "zoom"}
  OBVIOUS
<1> QED BY <1>1, <1>2, <1>3, <1>4, <1>9, <1>10, <1>11, <1>12, <1>13, WindowChanged

\* A session that renumber-windows did not displace has its windows where they were.
LEMMA SpotIs ==
  ASSUME Fit, options \in [base : Nat, renumber : BOOLEAN], NEW n \in Sessions,
         ~Displaced(n), NEW w \in LinkedIn(n)
  PROVE  Spot(n, w) = IndexIn(n, w)
<1> DEFINE U == UsedIn(n)
           base == options.base
           i == IndexIn(n, w)
<1>1. CASE ~options.renumber
  BY <1>1 DEF Spot
<1>2. CASE options.renumber
  <2>1. U = base..(base + Cardinality(U) - 1)
    BY <1>2 DEF Displaced, UsedIn
  <2>2. base \in Nat /\ i \in U /\ IsFiniteSet(U)
    BY LinkedIs
  <2>3. Cardinality(U) \in Nat
    BY <2>2, FS_CardinalityType
  <2>4. Spot(n, w) = base + Cardinality({j \in U : j < i})
    BY <1>2 DEF Spot, Rank
  <2> HIDE DEF U, base, i
  <2>5. {j \in U : j < i} = base..(i - 1) /\ base <= i /\ i \in Nat
    BY <2>1, <2>2, <2>3
  <2>6. Cardinality(base..(i - 1)) = i - base
    <3>1. base \in Int /\ i - 1 \in Int
      BY <2>2, <2>5
    <3>2. Cardinality(base..(i - 1)) = IF base > i - 1 THEN 0 ELSE (i - 1) - base + 1
      BY <3>1, FS_Interval
    <3> QED BY <2>2, <2>5, <3>2
  <2>7. Spot(n, w) = base + (i - base)
    BY <2>4, <2>5, <2>6
  <2>8. Spot(n, w) = i
    BY <2>2, <2>5, <2>7
  <2> QED BY <2>8 DEF i
<1> QED BY <1>1, <1>2

\* One switch of the client, when the window is there.
LEMMA ShowIs ==
  ASSUME NEW s, NEW N, IsNew(s, N), NEW n, NEW w, w # 0 => IndexIn(n, w) \in Indexes(s)
  PROVE  /\ IsNew(Show(s, n, w), N) /\ Show(s, n, w).links = s.links
         /\ Show(s, n, w).group = s.group
         /\ w # 0 => Show(s, n, w).cur = IndexIn(n, w)
         /\ w = 0 => Show(s, n, w) = s
         /\ w # 0 /\ s.cur # IndexIn(n, w) =>
              Show(s, n, w).stack # <<>> /\ Head(Show(s, n, w).stack) = s.cur
<1>1. CASE w = 0
  BY <1>1 DEF Show
<1>2. CASE w # 0
  <2> DEFINE i == IndexIn(n, w)
  <2>1. Show(s, n, w) = Select(s, i) /\ i \in Indexes(s)
    BY <1>2 DEF Show
  <2> HIDE DEF i
  <2>2. /\ IsNew(Select(s, i), N)
        /\ Select(s, i).links = s.links /\ Select(s, i).group = s.group
        /\ Select(s, i).cur = i
        /\ i # s.cur => Select(s, i).stack # <<>> /\ Head(Select(s, i).stack) = s.cur
    BY <2>1, SelectIs
  <2> QED BY <1>2, <2>1, <2>2 DEF i
<1> QED BY <1>1, <1>2

\* Both switches, for the windows that the snapshot has.
LEMMA SelectedAs ==
  ASSUME Fit, NEW n \in Sessions, NEW s, NEW N, IsNew(s, N),
         NEW a, a = snap.sessions[n].active, NEW l, l = snap.sessions[n].last,
         \A w \in {l, a} \ {0} : IndexIn(n, w) \in Indexes(s),
         NEW t, t = Show(Show(s, n, l), n, a)
  PROVE  /\ IsNew(t, N) /\ t.links = s.links /\ t.group = s.group /\ ShownAs(t, n)
<1> DEFINE mid == Show(s, n, l)
<1>1. l # 0 => IndexIn(n, l) \in Indexes(s)
  OBVIOUS
<1>2. /\ IsNew(mid, N) /\ mid.links = s.links /\ mid.group = s.group
      /\ l # 0 => mid.cur = IndexIn(n, l)
  BY <1>1, ShowIs
<1>3. Indexes(mid) = Indexes(s) /\ t = Show(mid, n, a)
  BY <1>2 DEF Indexes
<1> HIDE DEF mid
<1>4. a # 0 => IndexIn(n, a) \in Indexes(mid)
  BY <1>3
<1>5. /\ IsNew(Show(mid, n, a), N) /\ Show(mid, n, a).links = mid.links
      /\ Show(mid, n, a).group = mid.group
      /\ a # 0 => Show(mid, n, a).cur = IndexIn(n, a)
      /\ a # 0 /\ mid.cur # IndexIn(n, a) =>
           Show(mid, n, a).stack # <<>> /\ Head(Show(mid, n, a).stack) = mid.cur
  BY <1>2, <1>4, ShowIs
<1>6. {a, l} \ {0} \in SUBSET LinkedIn(n)
  BY FitSessions DEF SessionValid, LinkedIn
<1>7. a # 0 /\ l # 0 /\ l # a => IndexIn(n, l) # IndexIn(n, a)
  <2>1. \A w, v \in LinkedIn(n) : IndexIn(n, w) = IndexIn(n, v) => w = v
    BY LinkedIs
  <2> QED BY <1>6, <2>1
<1>8. ShownAs(t, n)
  BY <1>2, <1>3, <1>5, <1>7 DEF ShownAs
<1> QED BY <1>2, <1>3, <1>5, <1>8

LEMMA RestoreSelectionKeeps ==
  ASSUME AtLoop("selection"), RestoreSelection
  PROVE  Kept
<1> DEFINE n == Earliest
           k == session_ids[n]
           s == sess[k]
           a == snap.sessions[n].active
           l == snap.sessions[n].last
           t == Show(Show(s, n, l), n, a)
           found == \A w \in {l, a} \ {0} : IndexIn(n, w) \in Indexes(s)
<1>1. /\ Pass("selection", n, IF found THEN "none" ELSE "no window")
      /\ sess' = IF found THEN [sess EXCEPT ![k] = Show(Show(@, n, l), n, a)] ELSE sess
      /\ wins' = wins /\ session_ids' = session_ids /\ window_ids' = window_ids
  BY DEF RestoreSelection, SelectionOrder
<1>2. /\ Fit /\ options \in [base : Nat, renumber : BOOLEAN]
      /\ Typed(sess, wins) /\ Len(sess) \in Nat /\ Len(wins) \in Nat
      /\ DOMAIN sess = 1..Len(sess)
      /\ \A j \in 1..Len(sess) : IsNew(sess[j], Len(wins)) /\ sess[j].group \in 0..Len(sess)
  BY TypedIs DEF AtLoop
<1>3. /\ IdsAre(sess, wins, session_ids, window_ids, "selection", todo)
      /\ WindowsAre(wins, window_ids, "selection", todo)
      /\ LinksAre(sess, session_ids, window_ids, "selection", todo)
      /\ GroupsAre(sess, session_ids)
      /\ SelectionIs(sess, session_ids, "selection", todo)
      /\ "selection" \in Finishing
  BY DEF AtLoop, Progress, Finishing
<1>4. n \in Sessions
  <2>1. todo \in SUBSET Sessions /\ Sessions \in SUBSET (Nat \ {0})
    BY <1>2, <1>3, FitSessions DEF IdsAre, TodoIn
  <2> QED BY <1>1, <2>1, PassedIs
<1>5. /\ \A m \in Sessions : session_ids[m] # 0 /\ session_ids[m] \in 1..Len(sess)
      /\ \A m \in Sessions : m # n => session_ids[m] # k
  <2>1. \A m \in Sessions : session_ids[m] # 0
    BY <1>3, FinishingIs DEF IdsAre
  <2>2. \A m \in Sessions : session_ids[m] \in 1..Len(sess)
    BY <1>2, <1>3, <2>1, IdsIn
  <2>3. \A m \in Sessions : m # n => session_ids[m] # k
    BY <1>3, <1>4, <2>1 DEF IdsAre
  <2> QED BY <2>1, <2>2, <2>3
<1>6. \A m \in Sessions : LeftAs(sess[session_ids[m]], window_ids, m)
  BY <1>3, <1>5, LinksFinished
<1>7. {a, l} \ {0} \in SUBSET LinkedIn(n)
  BY <1>2, <1>4, FitSessions DEF SessionValid, LinkedIn
<1>8. IsNew(s, Len(wins)) /\ s.group \in 0..Len(sess) /\ k \in 1..Len(sess)
  BY <1>2, <1>4, <1>5
<1>9. ~found => Displaced(n)
  <2> SUFFICES ASSUME ~Displaced(n) PROVE found
    OBVIOUS
  <2>1. LeftAs(s, window_ids, n)
    BY <1>4, <1>6
  <2>2. \A w \in LinkedIn(n) : Spot(n, w) = IndexIn(n, w)
    BY <1>2, <1>4, SpotIs
  <2>3. \A w \in LinkedIn(n) : IndexIn(n, w) \in Indexes(s)
    BY <2>1, <2>2 DEF LeftAs
  <2> HIDE DEF s, a, l
  <2> QED BY <1>7, <2>3
<1>10. sess' = IF found THEN [sess EXCEPT ![k] = t] ELSE sess
  BY <1>1
<1>11. todo' = todo \ {n}
  BY <1>1 DEF Pass
<1> HIDE DEF n, k, t, found, a, l, s
<1>12. CASE ~found
  <2>1. phase' = "refused" /\ why' = "no window"
    BY <1>1, <1>12 DEF Pass
  <2>2. Typed(sess', wins')
    BY <1>1, <1>2, <1>10, <1>12
  <2> QED BY <1>4, <1>9, <1>12, <2>1, <2>2 DEF Kept, Reason
<1>13. CASE found
  <2>1. phase' = "selection"
    BY <1>1, <1>13 DEF Pass
  <2>2. /\ IsNew(t, Len(wins)) /\ t.links = s.links /\ t.group = s.group /\ ShownAs(t, n)
    <3> DEFINE N == Len(wins)
    <3>1. /\ IsNew(s, N) /\ a = snap.sessions[n].active /\ l = snap.sessions[n].last
          /\ \A w \in {l, a} \ {0} : IndexIn(n, w) \in Indexes(s)
          /\ t = Show(Show(s, n, l), n, a)
      BY <1>8, <1>13 DEF found, a, l, t
    <3> HIDE DEF N
    <3>2. Fit /\ n \in Sessions
      BY <1>2, <1>4
    <3>3. IsNew(t, N) /\ t.links = s.links /\ t.group = s.group
      BY <3>1, <3>2, SelectedAs
    <3>4. ShownAs(t, n)
      BY <3>1, <3>2, SelectedAs
    <3> QED BY <3>3, <3>4 DEF N
  <2>3. /\ Typed(sess', wins) /\ Len(sess') = Len(sess) /\ sess'[k] = t
        /\ \A j \in 1..Len(sess) : j # k => sess'[j] = sess[j]
    <3> DEFINE tt == [sess EXCEPT ![k] = t]
    <3>1. /\ Typed(sess, wins) /\ k \in 1..Len(sess) /\ IsNew(t, Len(wins))
          /\ t.group \in 0..Len(sess)
      BY <1>2, <1>8, <2>2
    <3>2. Typed(tt, wins) /\ Len(tt) = Len(sess)
      BY <3>1, SessionSet
    <3>3. tt[k] = t /\ \A j \in 1..Len(sess) : j # k => tt[j] = sess[j]
      BY <1>2, <3>1
    <3>4. sess' = tt
      BY <1>10, <1>13
    <3> HIDE DEF tt
    <3> QED BY <3>2, <3>3, <3>4
  <2>4. \A m \in Sessions : m # n => sess'[session_ids[m]] = sess[session_ids[m]]
    BY <1>5, <2>3
  <2>5. sess'[session_ids[n]] = t /\ s = sess[session_ids[n]]
    BY <2>3 DEF k, s
  <2>6. IdsAre(sess', wins', session_ids', window_ids', "selection", todo')
    <3>1. IdsAre(sess', wins, session_ids, window_ids, "selection", todo \ {n})
      BY <1>3, <2>3, IdsKept
    <3> QED BY <1>1, <1>11, <3>1
  <2>7. WindowsAre(wins', window_ids', "selection", todo')
    BY <1>1, <1>3 DEF WindowsAre, ActiveBy, ZoomedBy
  <2>8. LinksAre(sess', session_ids', window_ids', "selection", todo')
    <3>1. \A m \in Sessions : LeftAs(sess'[session_ids[m]], window_ids, m)
      <4> TAKE m \in Sessions
      <4>1. CASE m = n
        BY <1>6, <2>2, <2>5, <4>1, LeftSame
      <4>2. CASE m # n
        BY <1>6, <2>4, <4>2
      <4> QED BY <4>1, <4>2
    <3> QED BY <1>1, <1>3, <3>1, LinksFinished
  <2>9. GroupsAre(sess', session_ids')
    <3>1. \A m \in Sessions : sess'[session_ids[m]].group = sess[session_ids[m]].group
      BY <2>2, <2>4, <2>5
    <3> QED BY <1>1, <1>3, <3>1 DEF GroupsAre, GroupedAs
  <2>10. SelectionIs(sess', session_ids', "selection", todo')
    <3> SUFFICES ASSUME NEW m \in Sessions \ todo', ~Displaced(m)
                 PROVE  ShownAs(sess'[session_ids[m]], m)
      BY <1>1 DEF SelectionIs
    <3>1. CASE m = n
      BY <2>2, <2>5, <3>1
    <3>2. CASE m # n
      <4>1. m \in Sessions \ todo
        BY <1>11, <3>2
      <4>2. ShownAs(sess[session_ids[m]], m)
        BY <1>3, <4>1 DEF SelectionIs
      <4> QED BY <2>4, <3>2, <4>2
    <3> QED BY <3>1, <3>2
  <2>11. Progress(sess', wins', session_ids', window_ids', phase', todo')
    BY <2>1, <2>6, <2>7, <2>8, <2>9, <2>10 DEF Progress
  <2> QED BY <1>1, <2>1, <2>3, <2>11 DEF Kept
<1> QED BY <1>12, <1>13

\* A loop that is over leaves what the next one begins with.
Follows(at, to) == \E k \in 1..8 : at = Loops[k] /\ to = Loops[k + 1]

LEMMA FollowsIs ==
  ASSUME NEW at, NEW to, Follows(at, to)
  PROVE  \/ at = "sessions" /\ to = "windows"
         \/ at = "windows" /\ to = "links"
         \/ at = "links" /\ to = "placeholders"
         \/ at = "placeholders" /\ to = "members"
         \/ at = "members" /\ to = "properties"
         \/ at = "properties" /\ to = "zoom"
         \/ at = "zoom" /\ to = "selection"
         \/ at = "selection" /\ to = "done"
<1>1. PICK k \in 1..8 : at = Loops[k] /\ to = Loops[k + 1]
  BY DEF Follows
<1>2. \/ k = 1 \/ k = 2 \/ k = 3 \/ k = 4 \/ k = 5 \/ k = 6 \/ k = 7 \/ k = 8
  OBVIOUS
<1> QED BY <1>1, <1>2, LoopsAre

LEMMA NextProgress ==
  ASSUME Fit, NEW ss, NEW ws, NEW sids, NEW wids, NEW at, NEW to,
         Progress(ss, ws, sids, wids, at, {}), Follows(at, to)
  PROVE  Progress(ss, ws, sids, wids, to, TodoIn(to))
<1> DEFINE left == TodoIn(to)
<1>1. /\ IdsAre(ss, ws, sids, wids, at, {}) /\ WindowsAre(ws, wids, at, {})
      /\ LinksAre(ss, sids, wids, at, {}) /\ GroupsAre(ss, sids)
      /\ SelectionIs(ss, sids, at, {})
  BY DEF Progress
<1>2. \/ at = "sessions" /\ to = "windows"
      \/ at = "windows" /\ to = "links"
      \/ at = "links" /\ to = "placeholders"
      \/ at = "placeholders" /\ to = "members"
      \/ at = "members" /\ to = "properties"
      \/ at = "properties" /\ to = "zoom"
      \/ at = "zoom" /\ to = "selection"
      \/ at = "selection" /\ to = "done"
  BY FollowsIs
<1>3. /\ to \in {"windows", "links", "properties", "zoom"} => left = Windows
      /\ to = "placeholders" => left = Sessions \ Deferred
      /\ to = "members" => left = Deferred
      /\ to = "selection" => left = Sessions
      /\ to = "done" => left = {}
  BY DEF TodoIn
<1> HIDE DEF left
<1>4. \A n \in Sessions : Exists(n, at, {}) <=> Exists(n, to, left)
  BY <1>2, <1>3 DEF Exists, Late
<1>5. \A w \in Windows : Filled(w, at, {}) <=> Filled(w, to, left)
  BY <1>2, <1>3 DEF Filled
<1>6. IdsAre(ss, ws, sids, wids, to, left)
  BY <1>1, <1>4, <1>5 DEF IdsAre, left
<1>7. \A w \in Windows : /\ ActiveBy(w, to, left) => ActiveBy(w, at, {})
                         /\ ZoomedBy(w, to, left) => ZoomedBy(w, at, {})
  BY <1>2, <1>3 DEF ActiveBy, ZoomedBy
<1>8. WindowsAre(ws, wids, to, left)
  BY <1>1, <1>7 DEF WindowsAre
<1>9. ASSUME NEW n \in Sessions, Exists(n, at, {})
      PROVE  Killed(n, at, {}) <=> Killed(n, to, left)
  BY <1>2, <1>3, <1>9 DEF Exists, Killed, Late
<1>10. ASSUME NEW n \in Sessions, ~Killed(n, to, left)
       PROVE  Here(n, at, {}) = Here(n, to, left)
  <2>1. \A w \in LinkedIn(n) : w \in Windows
    BY LinkedIs
  <2>2. to \notin Late
    BY <1>10 DEF Killed
  <2>3. \A w \in LinkedIn(n) : There(n, w, at, {}) <=> There(n, w, to, left)
    BY <1>2, <1>3, <2>1, <2>2 DEF There, Late
  <2> QED BY <2>3 DEF Here
<1>11. LinksAre(ss, sids, wids, to, left)
  <2> SUFFICES ASSUME NEW n \in Sessions, sids[n] # 0
               PROVE  IF Killed(n, to, left) THEN LeftAs(ss[sids[n]], wids, n)
                      ELSE HeldAs(ss[sids[n]], wids, n, Here(n, to, left))
    BY DEF LinksAre
  <2>1. Exists(n, at, {})
    BY <1>1 DEF IdsAre
  <2>2. IF Killed(n, at, {}) THEN LeftAs(ss[sids[n]], wids, n)
        ELSE HeldAs(ss[sids[n]], wids, n, Here(n, at, {}))
    BY <1>1 DEF LinksAre
  <2> QED BY <1>9, <1>10, <2>1, <2>2
<1>12. SelectionIs(ss, sids, to, left)
  BY <1>1, <1>2, <1>3 DEF SelectionIs
<1> QED BY <1>1, <1>6, <1>8, <1>11, <1>12 DEF Progress, left

LEMMA NextLoopKeeps ==
  ASSUME Fit, Typed(sess, wins), NextLoop,
         Progress(sess, wins, session_ids, window_ids, phase, todo)
  PROVE  Kept
<1>1. Follows(phase, phase')
  BY LoopsAre DEF NextLoop, Follows
<1>2. todo = {} /\ sess' = sess /\ wins' = wins /\ session_ids' = session_ids
      /\ window_ids' = window_ids
  BY DEF NextLoop
<1>3. phase' # "sessions" /\ phase' # "refused"
  BY <1>1, FollowsIs
<1>4. todo' = TodoIn(phase')
  BY <1>3 DEF NextLoop, TodoIn
<1>5. Progress(sess, wins, session_ids, window_ids, phase', TodoIn(phase'))
  BY <1>1, <1>2, NextProgress
<1>6. Progress(sess', wins', session_ids', window_ids', phase', todo')
  BY <1>2, <1>4, <1>5
<1> QED BY <1>2, <1>3, <1>6 DEF Kept

-----------------------------------------------------------------------------
\* The invariant of the build, for any snapshot that can be restored: what was built is
\* that part of it, and when a pass is refused there is a known reason.
BuildInv ==
    IF phase \in Building \cup {"refused"}
    THEN Fit =>
           /\ options \in [base : Nat, renumber : BOOLEAN]
           /\ Typed(sess, wins)
           /\ phase = "refused" => Reason(why)
           /\ phase # "refused" =>
                Progress(sess, wins, session_ids, window_ids, phase, todo)
    ELSE sess = <<>> /\ wins = <<>>

\* Before anything is built.
Beginning ==
    /\ Fit /\ sess = <<>> /\ wins = <<>> /\ phase = "sessions"
    /\ todo = Sessions \ Deferred
    /\ session_ids = [n \in Sessions |-> 0] /\ window_ids = [w \in Windows |-> 0]
ProgressNow == Progress(sess, wins, session_ids, window_ids, phase, todo)

LEMMA BeginningIs == Beginning => Typed(sess, wins) /\ ProgressNow
<1> SUFFICES ASSUME Beginning PROVE Typed(sess, wins) /\ ProgressNow
  OBVIOUS
<1>1. /\ sess = <<>> /\ wins = <<>> /\ phase = "sessions" /\ todo = Sessions \ Deferred
      /\ session_ids = [n \in Sessions |-> 0] /\ window_ids = [w \in Windows |-> 0]
  BY DEF Beginning
<1>2. Len(sess) = 0 /\ Len(wins) = 0 /\ 0..0 = {0} /\ 1..0 = {}
  BY <1>1
<1>3. Typed(sess, wins)
  <2>1. sess \in Seq(NewType) /\ wins \in Seq(NewWindow)
    BY <1>1
  <2> QED BY <1>2, <2>1 DEF Typed
<1>4. \A n \in Sessions : session_ids[n] = 0
  BY <1>1
<1>5. \A w \in Windows : window_ids[w] = 0
  BY <1>1
<1>6. IdsAre(sess, wins, session_ids, window_ids, "sessions", todo)
  <2>1. todo \in SUBSET TodoIn("sessions")
    BY <1>1 DEF TodoIn
  <2>2. \A n \in Sessions : ~Exists(n, "sessions", todo)
    BY <1>1 DEF Exists, Late
  <2>3. \A w \in Windows : ~Filled(w, "sessions", todo)
    BY DEF Filled
  <2>4. session_ids \in [Sessions -> 0..Len(sess)] /\ window_ids \in [Windows -> 0..Len(wins)]
    BY <1>1, <1>2
  <2> QED BY <1>2, <1>4, <1>5, <2>1, <2>2, <2>3, <2>4 DEF IdsAre
<1>7. WindowsAre(wins, window_ids, "sessions", todo)
  BY <1>5 DEF WindowsAre
<1>8. LinksAre(sess, session_ids, window_ids, "sessions", todo)
  BY <1>4 DEF LinksAre
<1>9. GroupsAre(sess, session_ids)
  BY <1>4 DEF GroupsAre
<1>10. SelectionIs(sess, session_ids, "sessions", todo)
  BY DEF SelectionIs
<1>11. Progress(sess, wins, session_ids, window_ids, "sessions", todo)
  BY <1>6, <1>7, <1>8, <1>9, <1>10 DEF Progress
<1> QED BY <1>1, <1>3, <1>11 DEF ProgressNow

LEMMA ReasonFramed ==
  ASSUME snap' = snap, options' = options
  PROVE  \A reason : Reason(reason)' <=> Reason(reason)
<1>1. Sessions' = Sessions /\ Windows' = Windows
  BY DEF Sessions, Windows
<1>2. PlaceholderIndex' = PlaceholderIndex
  BY <1>1 DEF PlaceholderIndex, Used
<1>3. \A n : Displaced(n)' <=> Displaced(n)
  BY DEF Displaced
<1>4. \A w : Rows(w)' = Rows(w)
  BY DEF Rows
<1> QED BY <1>1, <1>2, <1>3, <1>4 DEF Reason

LEMMA BuildKeeps ==
  ASSUME StartInv, BuildInv, Build, Fit
  PROVE  Kept
<1>1. phase \in Building
  BY BuildSteps
<1>2. phase # "refused"
  BY <1>1, LoopsAre
<1>3. /\ options \in [base : Nat, renumber : BOOLEAN] /\ Typed(sess, wins)
      /\ Progress(sess, wins, session_ids, window_ids, phase, todo)
  BY <1>1, <1>2 DEF BuildInv
<1>4. \A loop : phase = loop => AtLoop(loop)
  BY <1>3 DEF AtLoop
<1>5. CASE NextLoop
  BY <1>3, <1>5, NextLoopKeeps
<1>6. CASE CreateSession
  BY <1>4, <1>6, CreateSessionKeeps DEF CreateSession, Pass
<1>7. CASE CreateWindow
  BY <1>4, <1>7, CreateWindowKeeps DEF CreateWindow, Pass
<1>8. CASE \E w \in todo : LinkWindow(w)
  <2>1. PICK w \in todo : LinkWindow(w)
    BY <1>8
  <2>2. phase = "links"
    BY <2>1 DEF LinkWindow, Pass
  <2> QED BY <1>4, <2>1, <2>2, LinkWindowKeeps
<1>9. CASE \E n \in todo : KillPlaceholder(n)
  <2>1. PICK n \in todo : KillPlaceholder(n)
    BY <1>9
  <2>2. phase = "placeholders"
    BY <2>1 DEF KillPlaceholder, Pass
  <2> QED BY <1>4, <2>1, <2>2, KillPlaceholderKeeps
<1>10. CASE CreateMember
  BY <1>4, <1>10, CreateMemberKeeps DEF CreateMember, Pass
<1>11. CASE RestoreProperties
  BY <1>4, <1>11, RestorePropertiesKeeps DEF RestoreProperties, Pass
<1>12. CASE RestoreZoom
  BY <1>4, <1>12, RestoreZoomKeeps DEF RestoreZoom, Pass
<1>13. CASE RestoreSelection
  BY <1>4, <1>13, RestoreSelectionKeeps DEF RestoreSelection, Pass
<1> QED BY <1>5, <1>6, <1>7, <1>8, <1>9, <1>10, <1>11, <1>12, <1>13 DEF Build

LEMMA BuildInvStep ==
  ASSUME StartInv, BuildInv, [Next]_vars
  PROVE  BuildInv'
<1>0. \A p : p \in Building \cup {"refused"} =>
               p \notin {"running", "captured", "rejected", "invalid", "no capture"}
  BY LoopsAre
<1>1. CASE UNCHANGED vars
  <2>1. /\ snap' = snap /\ options' = options /\ phase' = phase /\ sess' = sess
        /\ wins' = wins /\ session_ids' = session_ids /\ window_ids' = window_ids
        /\ todo' = todo /\ why' = why
    BY <1>1 DEF vars
  <2>2. CASE phase \notin Building \cup {"refused"}
    BY <2>1, <2>2 DEF BuildInv, Building, Loops
  <2>3. CASE phase \in Building \cup {"refused"}
    <3> SUFFICES ASSUME Fit'
                 PROVE  /\ options' \in [base : Nat, renumber : BOOLEAN]
                        /\ Typed(sess', wins')
                        /\ phase' = "refused" => Reason(why)'
                        /\ phase' # "refused" =>
                             Progress(sess, wins, session_ids, window_ids, phase, todo)'
      BY <2>1, <2>3 DEF BuildInv, Building, Loops
    <3>1. Fit
      BY <2>1, Framed
    <3>2. /\ options \in [base : Nat, renumber : BOOLEAN] /\ Typed(sess, wins)
          /\ phase = "refused" => Reason(why)
          /\ phase # "refused" => Progress(sess, wins, session_ids, window_ids, phase, todo)
      BY <2>3, <3>1 DEF BuildInv
    <3>3. phase' = "refused" => Reason(why)'
      BY <2>1, <3>2, ReasonFramed
    <3>4. phase' # "refused" => Progress(sess, wins, session_ids, window_ids, phase, todo)'
      BY <2>1, <3>2, FramedNow
    <3> QED BY <2>1, <3>2, <3>3, <3>4
  <2> QED BY <2>2, <2>3
<1>2. CASE Capture \/ Import
  <2>1. /\ phase = "running" /\ phase' \in {"captured", "invalid", "no capture"}
        /\ sess' = sess /\ wins' = wins
    BY <1>2 DEF Capture, Import, live
  <2> QED BY <1>0, <2>1 DEF BuildInv, Building, Loops
<1>3. CASE Preflight
  <2>1. /\ phase = "captured" /\ snap' = snap /\ sess' = sess /\ wins' = wins
        /\ \E base \in Bases, renumber \in Renumbering :
             options' = [base |-> base, renumber |-> renumber]
    BY <1>3 DEF Preflight
  <2>2. sess' = <<>> /\ wins' = <<>>
    BY <1>0, <2>1 DEF BuildInv
  <2>3. CASE ~Restorable(snap)
    <3>1. phase' = "rejected"
      BY <1>3, <2>3 DEF Preflight
    <3> QED BY <1>0, <2>2, <3>1 DEF BuildInv, Building, Loops
  <2>4. CASE Restorable(snap)
    <3>1. /\ phase' = "sessions" /\ todo' = Sessions \ Deferred
          /\ session_ids' = [n \in Sessions |-> 0] /\ window_ids' = [w \in Windows |-> 0]
      BY <1>3, <2>4 DEF Preflight
    <3>2. options' \in [base : Nat, renumber : BOOLEAN]
      BY <2>1, RoundTripAssumption DEF RoundTripAssumption
    <3>3. Sessions' = Sessions /\ Windows' = Windows /\ Deferred' = Deferred
      <4>1. Sessions' = Sessions /\ Windows' = Windows
        BY <2>1 DEF Sessions, Windows
      <4>2. \A n : PrimaryOf(n)' = PrimaryOf(n)
        BY <2>1 DEF PrimaryOf
      <4> QED BY <4>1, <4>2 DEF Deferred
    <3>4. Fit' => Beginning'
      BY <2>2, <3>1, <3>3 DEF Beginning
    <3>5. Fit' => (Typed(sess, wins) /\ ProgressNow)'
      BY <3>4, BeginningIs, PTL
    <3>6. phase' # "refused" /\ phase' \in Building \cup {"refused"}
      BY <3>1, LoopsAre
    <3> QED BY <3>2, <3>5, <3>6 DEF BuildInv, ProgressNow, Building, Loops
  <2> QED BY <2>3, <2>4
<1>4. CASE Build
  <2>1. /\ snap' = snap /\ options' = options
        /\ phase \in Building /\ phase' \in Building \cup {"refused"}
    BY <1>4, BuildSteps
  <2> SUFFICES ASSUME Fit'
               PROVE  /\ options' \in [base : Nat, renumber : BOOLEAN]
                      /\ Typed(sess', wins')
                      /\ phase' = "refused" => Reason(why)'
                      /\ phase' # "refused" =>
                           Progress(sess, wins, session_ids, window_ids, phase, todo)'
    BY <2>1 DEF BuildInv, Building, Loops
  <2>2. Fit
    BY <2>1, Framed
  <2>3. Kept /\ options \in [base : Nat, renumber : BOOLEAN]
    BY <1>4, <2>1, <2>2, BuildKeeps DEF BuildInv
  <2>4. phase' = "refused" => Reason(why)'
    BY <2>1, <2>3, ReasonFramed DEF Kept
  <2>5. phase' # "refused" => Progress(sess, wins, session_ids, window_ids, phase, todo)'
    BY <2>1, <2>3, FramedNow DEF Kept
  <2> QED BY <2>1, <2>3, <2>4, <2>5 DEF Kept
<1> QED BY <1>1, <1>2, <1>3, <1>4, NextIs

-----------------------------------------------------------------------------
\* What holds when the loops are over.

\* A snapshot that is being restored has passed the checks.
CheckedInv ==
    /\ phase \in {"captured", "rejected", "refused"} \cup Building => Valid(snap)
    /\ phase \in {"refused"} \cup Building => Restorable(snap)

\* How far the program and its capture can be.
PhaseInv ==
    /\ phase \in {"running", "no capture", "captured", "invalid", "rejected", "refused"}
                   \cup Building
    /\ ended \in {"open", "exit", "error", "death"}

LEMMA CheckedInvStep ==
  ASSUME CheckedInv, PhaseInv, [Next]_vars
  PROVE  CheckedInv' /\ PhaseInv'
<1>0. \A p : p \in Building => p \notin {"running", "captured", "rejected", "refused",
                                         "invalid", "no capture"}
  BY LoopsAre
<1>1. Building' = Building
  BY DEF Building, Loops
<1>2. CASE UNCHANGED vars
  BY <1>1, <1>2 DEF vars, CheckedInv, PhaseInv
<1>3. CASE Capture
  <2>1. ended' \in {"exit", "error", "death"}
    BY <1>3 DEF Capture
  <2>2. \/ phase' = "no capture"
        \/ phase' = IF Valid(snap') THEN "captured" ELSE "invalid"
    BY <1>3 DEF Capture
  <2> QED BY <1>0, <1>1, <2>1, <2>2 DEF CheckedInv, PhaseInv
<1>4. CASE Import
  <2>1. /\ ended' = ended
        /\ \/ phase' = "no capture"
           \/ phase' = IF Valid(snap') THEN "captured" ELSE "invalid"
    BY <1>4 DEF Import
  <2> QED BY <1>0, <1>1, <2>1 DEF CheckedInv, PhaseInv
<1>5. CASE Preflight
  <2>1. /\ ended' = ended /\ snap' = snap /\ phase = "captured"
        /\ phase' = IF Restorable(snap) THEN "sessions" ELSE "rejected"
    BY <1>5 DEF Preflight
  <2> QED BY <1>0, <1>1, <2>1, LoopsAre DEF CheckedInv, PhaseInv
<1>6. CASE Build
  <2>1. /\ ended' = ended /\ snap' = snap /\ phase \in Building
        /\ phase' \in Building \cup {"refused"}
    BY <1>6, BuildSteps
  <2> QED BY <1>1, <2>1 DEF CheckedInv, PhaseInv
<1> QED BY <1>2, <1>3, <1>4, <1>5, <1>6, NextIs

\* Everything that is known, and that it is known of every state.
RoundTripInv == StartInv /\ CaptureInv /\ GraphInv /\ CheckedInv /\ PhaseInv /\ BuildInv

LEMMA RoundTripInvHolds == Spec => []RoundTripInv
<1>1. Init => RoundTripInv
  <2> SUFFICES ASSUME Init PROVE RoundTripInv
    OBVIOUS
  <2>1. phase = "running" /\ ended = "open" /\ sess = <<>> /\ wins = <<>>
    BY DEF Init
  <2>2. "running" \notin {"captured", "rejected", "refused", "invalid"} \cup Building
    BY LoopsAre
  <2>3. GraphInv /\ CheckedInv /\ PhaseInv /\ BuildInv
    BY <2>1, <2>2 DEF GraphInv, CheckedInv, PhaseInv, BuildInv
  <2> QED BY <2>3, StartHolds DEF RoundTripInv
<1>2. RoundTripInv /\ [Next]_vars => RoundTripInv'
  BY CaptureInvStep, GraphInvStep, CheckedInvStep, BuildInvStep DEF RoundTripInv
<1> QED BY <1>1, <1>2, PTL DEF Spec

LEMMA CaptureFits ==
  ASSUME RoundTripInv, way = "capture", phase \in {"refused"} \cup Building
  PROVE  Fit /\ \E c : snap = Graph(saved, c)
<1>1. PICK c : snap = Graph(saved, c)
  BY DEF RoundTripInv, GraphInv
<1>2. IsSnapshot(snap)
  BY <1>1, GraphIs DEF RoundTripInv, StartInv
<1>3. Valid(snap) /\ Restorable(snap)
  BY DEF RoundTripInv, CheckedInv
<1> QED BY <1>1, <1>2, <1>3 DEF Fit

\* The sessions and windows of a capture are those of the server.
LEMMA CaptureIs ==
  ASSUME StartInv, NEW c, snap = Graph(saved, c)
  PROVE  /\ Sessions = DOMAIN saved.sessions /\ Len(snap.sessions) = Len(saved.sessions)
         /\ \A n \in Sessions : /\ snap.sessions[n] = Recorded(n, saved.sessions[n])
                                /\ IsSession(saved.sessions[n], saved)
                                /\ snap.sessions[n].group = saved.sessions[n].group
                                /\ Original(n) = saved.sessions[n]
         /\ Windows = DOMAIN saved.windows
         /\ \A w \in Windows : CapturedAs(snap.windows[w], w, saved.windows[w])
<1>1. IsServer(saved, PaneBaseMax)
  BY DEF StartInv
<1>2. /\ Windows = DOMAIN saved.windows
      /\ \A w \in Windows : CapturedAs(snap.windows[w], w, saved.windows[w])
  BY <1>1, GraphWindows DEF Windows
<1>3. /\ Sessions = DOMAIN saved.sessions /\ snap.sessions \in Seq(SessionType)
      /\ \A n \in Sessions : /\ snap.sessions[n] = Recorded(n, saved.sessions[n])
                             /\ IsSession(saved.sessions[n], saved)
  BY <1>1, GraphSessions DEF Sessions
<1>4. Len(snap.sessions) = Len(saved.sessions)
  <2>1. DOMAIN snap.sessions = 1..Len(snap.sessions) /\ Len(snap.sessions) \in Nat
    BY <1>3
  <2>2. DOMAIN saved.sessions = 1..Len(saved.sessions) /\ Len(saved.sessions) \in Nat
    BY <1>1, ServerIs
  <2>3. 1..Len(snap.sessions) = 1..Len(saved.sessions)
    BY <1>3, <2>1, <2>2 DEF Sessions
  <2> QED BY <2>1, <2>2, <2>3
<1>5. \A n \in Sessions : /\ snap.sessions[n].group = saved.sessions[n].group
                          /\ snap.sessions[n].name = n
  <2>1. \A n, s : Recorded(n, s).group = s.group /\ Recorded(n, s).name = n
    BY DEF Recorded
  <2> QED BY <1>3, <2>1
<1> QED BY <1>2, <1>3, <1>4, <1>5 DEF Original

LEMMA RestoredIs ==
  ASSUME RoundTripInv, Fit, Restored
  PROVE  /\ options \in [base : Nat, renumber : BOOLEAN]
         /\ Len(sess) \in Nat /\ Len(wins) \in Nat /\ DOMAIN sess = 1..Len(sess)
         /\ \A n \in Sessions : /\ session_ids[n] \in 1..Len(sess)
                                /\ IsNew(sess[session_ids[n]], Len(wins))
                                /\ LeftAs(sess[session_ids[n]], window_ids, n)
                                /\ GroupedAs(sess[session_ids[n]], n, session_ids)
                                /\ ~Displaced(n) => ShownAs(sess[session_ids[n]], n)
         /\ \A m, n \in Sessions : session_ids[m] = session_ids[n] => m = n
         /\ \A k \in 1..Len(sess) : \E n \in Sessions : session_ids[n] = k
         /\ session_ids = [n \in Sessions |-> session_ids[n]]
         /\ \A w \in Windows : /\ BuiltAs(wins[window_ids[w]], w)
                               /\ wins[window_ids[w]].active = snap.windows[w].active
                               /\ wins[window_ids[w]].zoomed = snap.windows[w].zoomed
<1>1. phase = "done" /\ phase \in Building /\ "done" \in Finishing
  BY LoopsAre DEF Restored, Finishing
<1>2. /\ options \in [base : Nat, renumber : BOOLEAN] /\ Typed(sess, wins)
      /\ Progress(sess, wins, session_ids, window_ids, "done", todo)
  BY <1>1 DEF RoundTripInv, BuildInv
<1>3. /\ Len(sess) \in Nat /\ Len(wins) \in Nat /\ DOMAIN sess = 1..Len(sess)
      /\ \A k \in 1..Len(sess) : IsNew(sess[k], Len(wins))
  BY <1>2, TypedIs
<1>4. /\ IdsAre(sess, wins, session_ids, window_ids, "done", todo)
      /\ WindowsAre(wins, window_ids, "done", todo)
      /\ LinksAre(sess, session_ids, window_ids, "done", todo)
      /\ GroupsAre(sess, session_ids)
      /\ SelectionIs(sess, session_ids, "done", todo)
  BY <1>2 DEF Progress
<1>5. /\ \A n \in Sessions : session_ids[n] # 0
      /\ \A w \in Windows : window_ids[w] # 0
  BY <1>1, <1>4, FinishingIs DEF IdsAre
<1>6. \A n \in Sessions : session_ids[n] \in 1..Len(sess)
  BY <1>3, <1>4, <1>5, IdsIn
<1>7. /\ \A m, n \in Sessions : session_ids[m] = session_ids[n] => m = n
      /\ \A k \in 1..Len(sess) : \E n \in Sessions : session_ids[n] = k
      /\ session_ids = [n \in Sessions |-> session_ids[n]]
      /\ todo = {}
  BY <1>4, <1>5 DEF IdsAre, TodoIn
<1>8. \A n \in Sessions : LeftAs(sess[session_ids[n]], window_ids, n)
  BY <1>1, <1>4, <1>5, LinksFinished
<1>9. \A n \in Sessions : GroupedAs(sess[session_ids[n]], n, session_ids)
  BY <1>4, <1>5 DEF GroupsAre
<1>10. \A n \in Sessions : ~Displaced(n) => ShownAs(sess[session_ids[n]], n)
  BY <1>4, <1>7 DEF SelectionIs
<1>11. \A w \in Windows : /\ BuiltAs(wins[window_ids[w]], w)
                          /\ wins[window_ids[w]].active = snap.windows[w].active
                          /\ wins[window_ids[w]].zoomed = snap.windows[w].zoomed
  BY <1>4, <1>5 DEF WindowsAre, ActiveBy, ZoomedBy
<1> QED BY <1>2, <1>3, <1>6, <1>7, <1>8, <1>9, <1>10, <1>11

\* Every new session has its current window and those before it among its windows, and
\* every window its active pane, whatever was captured (parse_capture), or imported, if
\* what was imported is a snapshot.
THEOREM TypesCorrect == Spec => [](way = "capture" \/ IsSnapshot(snap) => TypeOK)
<1>1. RoundTripInv => (way = "capture" \/ IsSnapshot(snap) => TypeOK)
  <2> SUFFICES ASSUME RoundTripInv, way = "capture" \/ IsSnapshot(snap) PROVE TypeOK
    OBVIOUS
  <2>1. /\ phase \in {"running", "no capture", "captured", "invalid", "rejected", "refused"}
                       \cup Building
        /\ ended \in {"open", "exit", "error", "death"}
        /\ way \in {"capture", "import", "damaged"}
    BY DEF RoundTripInv, PhaseInv, StartInv
  <2>2. Typed(sess, wins)
    <3>1. CASE phase \in Building \cup {"refused"}
      <4>1. Fit
        BY <3>1, CaptureFits DEF RoundTripInv, CheckedInv, Fit
      <4> QED BY <3>1, <4>1 DEF RoundTripInv, BuildInv
    <3>2. CASE phase \notin Building \cup {"refused"}
      <4>1. sess = <<>> /\ wins = <<>>
        BY <3>2 DEF RoundTripInv, BuildInv
      <4>2. sess \in Seq(NewType) /\ wins \in Seq(NewWindow) /\ Len(sess) = 0 /\ Len(wins) = 0
        BY <4>1
      <4> QED BY <4>2 DEF Typed
    <3> QED BY <3>1, <3>2
  <2>3. /\ DOMAIN sess = 1..Len(sess) /\ DOMAIN wins = 1..Len(wins)
        /\ \A k \in 1..Len(sess) : IsNew(sess[k], Len(wins)) /\ sess[k].group \in 0..Len(sess)
    BY <2>2, TypedIs
  <2>4. \A k \in 1..Len(wins) : wins[k].active \in DOMAIN wins[k].panes
    BY <2>2 DEF Typed
  <2>5. ASSUME NEW s, NEW N, IsNew(s, N)
        PROVE  /\ s.cur \in Indexes(s)
               /\ \A j \in DOMAIN s.stack : s.stack[j] \in Indexes(s) \ {s.cur}
               /\ \A i \in Indexes(s) : s.links[i] \in 1..N
    <3>1. s.links \in [Indexes(s) -> 1..N]
      BY <2>5, NewIs
    <3>2. s.cur \in Indexes(s) /\ s.stack \in Seq(Indexes(s) \ {s.cur})
      BY <2>5 DEF IsNew
    <3> QED BY <3>1, <3>2
  <2>6. \A k \in 1..Len(sess) : sess[k].group \in {0} \cup 1..Len(sess)
    BY <2>3
  <2> QED BY <2>1, <2>3, <2>4, <2>5, <2>6 DEF TypeOK, Building
<1> QED BY <1>1, RoundTripInvHolds, PTL

LEMMA FirstOfMany ==
  ASSUME NEW p \in Nat \ {0}, NEW f \in 0..PaneBaseMax
  PROVE  1 \in 1..p /\ f + 1 - 1 = f
BY PaneBaseAssumption

\* A window that was captured (parse_window, parse_pane) and restored (build_snapshot,
\* restore_properties, restore_zoomed_windows) has its panes in their order, at their
\* indexes, the same one active and the same zoom, on any server and for any hooks.
THEOREM WindowsAreRestored == Spec => [](way = "capture" => WindowsRestored)
<1>1. RoundTripInv => (way = "capture" => WindowsRestored)
  <2> SUFFICES ASSUME RoundTripInv, way = "capture", Restored, NEW w \in Windows
               PROVE  LET new == wins[window_ids[w]]
                          old == saved.windows[new.what]
                      IN  /\ new.what = snap.windows[w].what
                          /\ new.panes = [k \in 1..old.panes |-> k]
                          /\ <<new.first, new.active, new.zoomed>>
                               = <<old.first, old.active, old.zoomed>>
    BY DEF WindowsRestored
  <2> DEFINE new == wins[window_ids[w]]
             old == saved.windows[new.what]
  <2>1. phase \in Building
    BY LoopsAre DEF Restored
  <2>2. Fit /\ \E c : snap = Graph(saved, c)
    BY <2>1, CaptureFits
  <2>3. /\ BuiltAs(new, w) /\ new.active = snap.windows[w].active
        /\ new.zoomed = snap.windows[w].zoomed
    BY <2>2, RestoredIs
  <2>4. CapturedAs(snap.windows[w], w, saved.windows[w])
    BY <2>2, CaptureIs DEF RoundTripInv
  <2>5. new.what = w /\ old = saved.windows[w]
    BY <2>3, <2>4 DEF BuiltAs, CapturedAs
  <2>6. /\ Len(Panes(old)) = old.panes /\ Panes(old)[1].index = old.first + 1 - 1
        /\ old.first + 1 - 1 = old.first
    <3>1. /\ Len(Panes(old)) = old.panes /\ old.panes \in Nat \ {0}
          /\ old.first \in 0..PaneBaseMax
          /\ \A k \in 1..old.panes : Panes(old)[k].index = old.first + k - 1
      BY <2>4, <2>5, PanesAre DEF CapturedAs
    <3> HIDE DEF old
    <3>2. 1 \in 1..old.panes /\ old.first + 1 - 1 = old.first
      BY <3>1, FirstOfMany
    <3>3. Panes(old)[1].index = old.first + 1 - 1
      BY <3>1, <3>2
    <3> QED BY <3>1, <3>2, <3>3
  <2>7. snap.windows[w].panes = Panes(old) /\ snap.windows[w].what = w
        /\ snap.windows[w].active = old.active /\ snap.windows[w].zoomed = old.zoomed
    BY <2>4, <2>5 DEF CapturedAs
  <2> HIDE DEF new, old
  <2>8. new.panes = [k \in 1..old.panes |-> k] /\ new.first = old.first
    BY <2>3, <2>6, <2>7 DEF BuiltAs
  <2>9. new.what = snap.windows[w].what
    BY <2>3 DEF BuiltAs
  <2> QED BY <2>3, <2>7, <2>8, <2>9 DEF new, old
<1> QED BY <1>1, RoundTripInvHolds, PTL

\* tmux refuses a command of the build of a capture (build_snapshot, create_window,
\* restore_session_windows) for the reasons that are known only, however many sessions,
\* windows and panes there are.
THEOREM RefusalsKnown == Spec => [](way = "capture" => RefusedForKnownReasons)
<1>1. RoundTripInv => (way = "capture" => RefusedForKnownReasons)
  <2> SUFFICES ASSUME RoundTripInv, way = "capture", phase = "refused"
               PROVE  RefusedForKnownReasons
    BY DEF RefusedForKnownReasons
  <2>1. Fit /\ \E c : snap = Graph(saved, c)
    BY CaptureFits
  <2>2. Reason(why)
    BY <2>1 DEF RoundTripInv, BuildInv
  <2>3. ASSUME NEW w \in Windows, Rows(w) < 2 * Len(snap.windows[w].panes) - 1
        PROVE  /\ w \in DOMAIN saved.windows
               /\ saved.windows[w].rows < 2 * saved.windows[w].panes - 1
    <3> DEFINE old == saved.windows[w]
    <3>1. CapturedAs(snap.windows[w], w, old) /\ Windows = DOMAIN saved.windows
      BY <2>1, CaptureIs DEF RoundTripInv
    <3>2. Len(Panes(old)) = old.panes /\ old.rows \in Nat \ {0}
      BY <3>1, PanesAre DEF CapturedAs
    <3>3. Len(snap.windows[w].panes) = old.panes /\ Rows(w) = old.rows
      BY <3>1, <3>2 DEF CapturedAs, Rows
    <3> QED BY <2>3, <3>1, <3>3
  <2> QED BY <2>2, <2>3 DEF RefusedForKnownReasons, Reason
<1> QED BY <1>1, RoundTripInvHolds, PTL

\* What a captured session became: each of its windows is at its spot, and holds what it
\* held.
LEMMA ContentIs ==
  ASSUME RoundTripInv, way = "capture", Restored
  PROVE  \A n \in Sessions :
           /\ Indexes(sess[session_ids[n]]) = {Spot(n, w) : w \in LinkedIn(n)}
           /\ \A w \in LinkedIn(n) :
                /\ sess[session_ids[n]].links[Spot(n, w)] = window_ids[w]
                /\ Content(session_ids[n], Spot(n, w)) = w
<1>1. Fit /\ \E c : snap = Graph(saved, c)
  <2>1. phase \in Building
    BY LoopsAre DEF Restored
  <2> QED BY <2>1, CaptureFits
<1>2. \A w \in Windows : wins[window_ids[w]].what = w
  <2>1. \A w \in Windows : BuiltAs(wins[window_ids[w]], w)
    BY <1>1, RestoredIs
  <2>2. \A w \in Windows : CapturedAs(snap.windows[w], w, saved.windows[w])
    BY <1>1, CaptureIs DEF RoundTripInv
  <2> QED BY <2>1, <2>2 DEF BuiltAs, CapturedAs
<1>3. \A n \in Sessions : LeftAs(sess[session_ids[n]], window_ids, n)
  BY <1>1, RestoredIs
<1>4. \A n \in Sessions : LinkedIn(n) \in SUBSET Windows
  BY <1>1, LinkedIs
<1> QED BY <1>2, <1>3, <1>4 DEF LeftAs, Content

\* Where a captured session had its windows.
LEMMA CapturedLinks ==
  ASSUME RoundTripInv, way = "capture", Restored, NEW n \in Sessions,
         NEW s, s = saved.sessions[n]
  PROVE  /\ Original(n) = s /\ LinksOf(s) = InOrder(FirstLinks(s))
         /\ UsedIn(n) = FirstLinks(s) /\ LinkedIn(n) = {s.links[i] : i \in Indexes(s)}
         /\ \A i \in UsedIn(n) : s.links[i] \in LinkedIn(n) /\ IndexIn(n, s.links[i]) = i
         /\ snap.sessions[n].active = s.links[s.cur] /\ s.links[s.cur] # 0
         /\ s.stack # <<>> => /\ snap.sessions[n].last = s.links[Head(s.stack)]
                              /\ s.links[Head(s.stack)] # 0
                              /\ s.links[Head(s.stack)] \in LinkedIn(n)
         /\ s.links[s.cur] \in LinkedIn(n)
<1>1. Fit /\ \E c : snap = Graph(saved, c)
  <2>1. phase \in Building
    BY LoopsAre DEF Restored
  <2> QED BY <2>1, CaptureFits
<1>2. /\ snap.sessions[n] = Recorded(n, s) /\ IsSession(s, saved) /\ Original(n) = s
      /\ Windows = DOMAIN saved.windows
  BY <1>1, CaptureIs DEF RoundTripInv
<1>3. n \in Nat /\ DOMAIN saved.windows \in SUBSET (Nat \ {0})
  BY <1>1, <1>2, FitSessions, FitWindows
<1>4. /\ LinkedTo(Recorded(n, s)) = {s.links[i] : i \in Indexes(s)}
      /\ UsedIndexes(Recorded(n, s)) = FirstLinks(s)
      /\ \A i \in FirstLinks(s) : \E k \in DOMAIN Recorded(n, s).windows :
           Recorded(n, s).windows[k] = [window |-> s.links[i], index |-> i]
      /\ Recorded(n, s).active = s.links[s.cur]
      /\ Recorded(n, s).last = IF s.stack = <<>> THEN 0 ELSE s.links[Head(s.stack)]
      /\ s.stack # <<>> => Head(s.stack) \in Indexes(s)
      /\ s.cur \in Indexes(s)
      /\ \A i \in Indexes(s) : s.links[i] \in DOMAIN saved.windows
  <2>1. DOMAIN saved.windows \in SUBSET Nat
    BY <1>3
  <2> QED BY <1>2, <1>3, <2>1, RecordedIs, SMTT(30)
<1>5. LinksOf(s) = InOrder(FirstLinks(s)) /\ FirstLinks(s) \in SUBSET Indexes(s)
  BY <1>2, FirstLinksAre
<1>6. \A i \in FirstLinks(s) : IndexIn(n, s.links[i]) = i
  <2> TAKE i \in FirstLinks(s)
  <2> DEFINE r == snap.sessions[n]
  <2>0. r = Recorded(n, s)
    BY <1>2
  <2>1. PICK k \in DOMAIN r.windows : r.windows[k] = [window |-> s.links[i], index |-> i]
    <3> HIDE DEF r
    <3> QED BY <1>4, <2>0
  <2>2. r \in SessionType /\ SessionValid(r, snap)
    BY <1>1, FitSessions
  <2> HIDE DEF r
  <2>3. Where(r, r.windows[k].window) = r.windows[k].index
    BY <2>1, <2>2, WhereIs
  <2>4. Where(r, s.links[i]) = i
    BY <2>1, <2>3
  <2> QED BY <2>4 DEF IndexIn, r
<1>7. /\ UsedIn(n) = FirstLinks(s) /\ LinkedIn(n) = {s.links[i] : i \in Indexes(s)}
      /\ snap.sessions[n].active = s.links[s.cur]
      /\ s.stack # <<>> => snap.sessions[n].last = s.links[Head(s.stack)]
  BY <1>2, <1>4 DEF UsedIn, LinkedIn
<1>8. \A i \in Indexes(s) : s.links[i] \in LinkedIn(n) /\ s.links[i] # 0
  BY <1>3, <1>4, <1>7
<1> QED BY <1>2, <1>4, <1>5, <1>6, <1>7, <1>8

\* The selection of every captured session whose windows were not displaced
\* (restore_session_windows): the active window is shown, and the last window is the one
\* shown before it.
THEOREM SelectionIsRestored == Spec => [](way = "capture" => SelectionRestored)
<1>1. RoundTripInv => (way = "capture" => SelectionRestored)
  <2> SUFFICES ASSUME RoundTripInv, way = "capture", Restored,
                      NEW n \in Sessions, ~Displaced(n),
                      NEW s, s = saved.sessions[n], NEW k, k = session_ids[n]
               PROVE  /\ Content(k, sess[k].cur) = s.links[s.cur]
                      /\ s.stack # <<>> /\ s.links[Head(s.stack)] # s.links[s.cur]
                         => /\ sess[k].stack # <<>>
                            /\ Content(k, Head(sess[k].stack)) = s.links[Head(s.stack)]
    <3>1. "capture" # "import"
      OBVIOUS
    <3> QED BY <3>1, CapturedLinks DEF SelectionRestored
  <2>1. Fit
    <3>1. phase \in Building
      BY LoopsAre DEF Restored
    <3> QED BY <3>1, CaptureFits
  <2>2. options \in [base : Nat, renumber : BOOLEAN] /\ ShownAs(sess[k], n)
    BY <2>1, RestoredIs
  <2>3. \A w \in LinkedIn(n) : Content(k, IndexIn(n, w)) = w
    <3>1. \A w \in LinkedIn(n) : Spot(n, w) = IndexIn(n, w)
      BY <2>1, <2>2, SpotIs
    <3>2. \A w \in LinkedIn(n) : Content(k, Spot(n, w)) = w
      BY ContentIs
    <3> QED BY <3>1, <3>2
  <2>4. /\ snap.sessions[n].active = s.links[s.cur] /\ s.links[s.cur] # 0
        /\ s.stack # <<>> => /\ snap.sessions[n].last = s.links[Head(s.stack)]
                             /\ s.links[Head(s.stack)] # 0
                             /\ s.links[Head(s.stack)] \in LinkedIn(n)
        /\ s.links[s.cur] \in LinkedIn(n)
    BY CapturedLinks
  <2> QED BY <2>2, <2>3, <2>4 DEF ShownAs
<1> QED BY <1>1, RoundTripInvHolds, PTL

\* The spots of the windows of a session are in the order of their indexes.
LEMMA SpotsInOrder ==
  ASSUME Fit, options \in [base : Nat, renumber : BOOLEAN], NEW n \in Sessions,
         NEW T, T = {Spot(n, w) : w \in LinkedIn(n)}
  PROVE  /\ Cardinality(T) = Cardinality(UsedIn(n))
         /\ \A k \in 1..Cardinality(UsedIn(n)) : \A w \in LinkedIn(n) :
              IndexIn(n, w) = InOrder(UsedIn(n))[k] => InOrder(T)[k] = Spot(n, w)
<1> DEFINE S == UsedIn(n)
           base == options.base
           g == [i \in S |-> IF options.renumber THEN base + Rank(S, i) ELSE i]
<1>1. /\ S \in SUBSET Nat /\ IsFiniteSet(S) /\ base \in Nat
      /\ \A w \in LinkedIn(n) : IndexIn(n, w) \in S
      /\ \A i \in S : \E w \in LinkedIn(n) : IndexIn(n, w) = i
  BY LinkedIs
<1>2. \A w \in LinkedIn(n) : g[IndexIn(n, w)] = Spot(n, w)
  BY <1>1 DEF Spot
<1> HIDE DEF S, base
<1>3. \A i \in S : Rank(S, i) \in Nat
  BY <1>1, RankType
<1>4. g \in [S -> Nat]
  BY <1>1, <1>3
<1>5. \A i, j \in S : i < j => g[i] < g[j]
  <2> TAKE i, j \in S
  <2>1. i < j => Rank(S, i) < Rank(S, j)
    BY <1>1, RankOrders
  <2> QED BY <1>1, <1>3, <2>1
<1> HIDE DEF g
<1>6. /\ \A i \in S : g[i] \in T
      /\ \A t \in T : \E i \in S : g[i] = t
  BY <1>1, <1>2
<1>7. /\ Cardinality(T) = Cardinality(S)
      /\ \A k \in 1..Cardinality(S) : InOrder(T)[k] = g[InOrder(S)[k]]
  <2>1. /\ S \in SUBSET Nat /\ IsFiniteSet(S) /\ g \in [S -> Nat]
        /\ \A i, j \in S : i < j => g[i] < g[j]
        /\ \A i \in S : g[i] \in T
        /\ \A t \in T : \E i \in S : g[i] = t
    BY <1>1, <1>4, <1>5, <1>6
  <2>2. \A k \in 1..Cardinality(S) : InOrder(T)[k] = g[InOrder(S)[k]]
    BY <2>1, ImageInOrder, SMTT(30)
  <2>3. Cardinality(T) = Cardinality(S)
    BY <2>1, ImageInOrder
  <2> QED BY <2>2, <2>3
<1>8. \A k \in 1..Cardinality(S) : \A w \in LinkedIn(n) :
        IndexIn(n, w) = InOrder(S)[k] => InOrder(T)[k] = Spot(n, w)
  BY <1>2, <1>7
<1> QED BY <1>7, <1>8 DEF S

\* The contents of a restored session, in its order, are those of the captured one.
LEMMA ContentsInOrder ==
  ASSUME RoundTripInv, way = "capture", Restored, Fit, NEW n \in Sessions,
         NEW s, s = saved.sessions[n]
  PROVE  /\ NewContent(session_ids[n])
              = [j \in DOMAIN LinksOf(s) |-> s.links[LinksOf(s)[j]]]
         /\ ~Displaced(n) =>
              Indexes(sess[session_ids[n]]) = {LinksOf(s)[j] : j \in DOMAIN LinksOf(s)}
<1> DEFINE k == session_ids[n]
           S == UsedIn(n)
           T == {Spot(n, w) : w \in LinkedIn(n)}
           C == Cardinality(S)
<1>1. options \in [base : Nat, renumber : BOOLEAN]
  BY RestoredIs
<1>2. /\ LinksOf(s) = InOrder(S)
      /\ \A i \in S : s.links[i] \in LinkedIn(n) /\ IndexIn(n, s.links[i]) = i
  BY CapturedLinks
<1>3. /\ Indexes(sess[k]) = T
      /\ \A w \in LinkedIn(n) : Content(k, Spot(n, w)) = w
  BY ContentIs
<1>4. /\ IsFiniteSet(S) /\ S \in SUBSET Nat
      /\ \A w \in LinkedIn(n) : IndexIn(n, w) \in S
  BY LinkedIs
<1>5. /\ C \in Nat /\ InOrder(S) \in [1..C -> S]
      /\ \A i \in S : \E j \in 1..C : InOrder(S)[j] = i
  BY <1>4, Ordered
<1>6. /\ Cardinality(T) = C
      /\ \A j \in 1..C : \A w \in LinkedIn(n) :
           IndexIn(n, w) = InOrder(S)[j] => InOrder(T)[j] = Spot(n, w)
  BY <1>1, SpotsInOrder
<1>7. DOMAIN InOrder(T) = 1..C
  BY <1>6 DEF InOrder
<1>8. NewContent(k) = [j \in 1..C |-> Content(k, InOrder(T)[j])]
  BY <1>3, <1>7 DEF NewContent
<1>9. ~Displaced(n) => T = S
  <2> SUFFICES ASSUME ~Displaced(n) PROVE T = S
    OBVIOUS
  <2>1. \A w \in LinkedIn(n) : Spot(n, w) = IndexIn(n, w)
    BY <1>1, SpotIs
  <2> QED BY <1>2, <1>4, <2>1
<1> HIDE DEF k, S, T, C
<1>10. \A j \in 1..C : Content(k, InOrder(T)[j]) = s.links[InOrder(S)[j]]
  <2> TAKE j \in 1..C
  <2> DEFINE i == InOrder(S)[j]
             w == s.links[i]
  <2>1. i \in S /\ w \in LinkedIn(n) /\ IndexIn(n, w) = i
    BY <1>2, <1>5
  <2>2. InOrder(T)[j] = Spot(n, w)
    BY <1>6, <2>1
  <2> QED BY <1>3, <2>1, <2>2
<1>11. NewContent(k) = [j \in DOMAIN LinksOf(s) |-> s.links[LinksOf(s)[j]]]
  BY <1>2, <1>5, <1>8, <1>10
<1>12. {LinksOf(s)[j] : j \in DOMAIN LinksOf(s)} = S
  BY <1>2, <1>5
<1> QED BY <1>3, <1>9, <1>11, <1>12 DEF k

\* There are as many new sessions as saved ones.
LEMMA AsMany ==
  ASSUME RoundTripInv, Restored, Fit
  PROVE  Len(sess) = Len(snap.sessions)
<1> DEFINE N == Len(snap.sessions)
           T == {session_ids[n] : n \in 1..N}
<1>1. Sessions = 1..N /\ N \in Nat
  BY FitSessions
<1>2. /\ Len(sess) \in Nat
      /\ \A n \in Sessions : session_ids[n] \in 1..Len(sess)
      /\ \A m, n \in Sessions : session_ids[m] = session_ids[n] => m = n
      /\ \A k \in 1..Len(sess) : \E n \in Sessions : session_ids[n] = k
      /\ session_ids = [n \in Sessions |-> session_ids[n]]
  BY RestoredIs
<1>3. T = 1..Len(sess)
  BY <1>1, <1>2
<1>4. Cardinality(T) = N
  <2> DEFINE f == session_ids
  <2>1. /\ f = [n \in 1..N |-> f[n]] /\ T = {f[n] : n \in 1..N}
        /\ \A m, n \in 1..N : f[m] = f[n] => m = n
    BY <1>1, <1>2
  <2> HIDE DEF f, N, T
  <2> QED BY <1>1, <2>1, Injective
<1>5. Cardinality(1..Len(sess)) = Len(sess)
  BY <1>2, FS_Interval
<1> QED BY <1>3, <1>4, <1>5

\* The groups of the new sessions.
LEMMA GroupsRestored ==
  ASSUME RoundTripInv, Restored, Fit, NEW m \in Sessions, NEW n \in Sessions, m # n
  PROVE  Grouped(sess, session_ids[m], session_ids[n])
           <=> /\ snap.sessions[m].group # 0
               /\ snap.sessions[m].group = snap.sessions[n].group
<1> DEFINE p == PrimaryOf(m)
           q == PrimaryOf(n)
<1>1. /\ \A l \in Sessions : session_ids[l] # 0
      /\ \A k, l \in Sessions : session_ids[k] = session_ids[l] => k = l
      /\ GroupedAs(sess[session_ids[m]], m, session_ids)
      /\ GroupedAs(sess[session_ids[n]], n, session_ids)
  BY RestoredIs
<1>2. /\ p \in Sessions /\ q \in Sessions
      /\ m # p => m \in Deferred
      /\ n # q => n \in Deferred
  BY DeferredIs DEF Deferred
<1>3. p = q <=> /\ snap.sessions[m].group # 0
                /\ snap.sessions[m].group = snap.sessions[n].group
  BY PrimaryIs
<1>4. ASSUME p = q PROVE HasMember(p, session_ids)
  BY <1>1, <1>2, <1>4 DEF HasMember
<1>5. Grouped(sess, session_ids[m], session_ids[n]) <=> p = q
  BY <1>1, <1>2, <1>4 DEF Grouped, GroupedAs
<1> QED BY <1>3, <1>5

\* Every session that was captured has its windows again, in their order and, where
\* renumber-windows did not displace them, at their indexes, a window that several
\* sessions shared is one window again, and the groups are the same (build_snapshot with
\* window_owners, session_groups and unused_window_index).
THEOREM LinksAreRestored == Spec => [](way = "capture" => LinksRestored)
<1>1. RoundTripInv => (way = "capture" => LinksRestored)
  <2> SUFFICES ASSUME RoundTripInv, way = "capture", Restored PROVE LinksRestored
    BY DEF LinksRestored
  <2>1. Fit /\ \E c : snap = Graph(saved, c)
    <3>1. phase \in Building
      BY LoopsAre DEF Restored
    <3> QED BY <3>1, CaptureFits
  <2>2. Len(sess) = Len(snap.sessions) /\ Len(sess) = Len(saved.sessions)
    BY <2>1, AsMany, CaptureIs DEF RoundTripInv
  <2>3. Whole
    BY DEF Whole
  <2>4. ASSUME NEW n \in Sessions, NEW s, s = Original(n), NEW k, k = session_ids[n],
               NEW old, old = OldLinks(s)
        PROVE  /\ NewContent(k) = [j \in DOMAIN old |-> s.links[old[j]]]
               /\ Displaced(n) \/ Indexes(sess[k]) = {old[j] : j \in DOMAIN old}
    <3>1. s = saved.sessions[n] /\ old = LinksOf(s)
      BY <2>4, CapturedLinks DEF OldLinks
    <3>2. /\ NewContent(session_ids[n])
               = [j \in DOMAIN LinksOf(s) |-> s.links[LinksOf(s)[j]]]
          /\ ~Displaced(n) =>
               Indexes(sess[session_ids[n]]) = {LinksOf(s)[j] : j \in DOMAIN LinksOf(s)}
      BY <2>1, <3>1, ContentsInOrder
    <3> QED BY <2>4, <3>1, <3>2
  <2>5. ASSUME NEW k \in DOMAIN sess, NEW l \in DOMAIN sess,
               NEW i \in Indexes(sess[k]), NEW j \in Indexes(sess[l]),
               Content(k, i) = Content(l, j)
        PROVE  sess[k].links[i] = sess[l].links[j]
    <3>1. ASSUME NEW h \in DOMAIN sess, NEW x \in Indexes(sess[h])
          PROVE  sess[h].links[x] = window_ids[Content(h, x)]
      <4>1. PICK n \in Sessions : session_ids[n] = h
        BY <2>1, RestoredIs
      <4>2. PICK w \in LinkedIn(n) : x = Spot(n, w)
        BY <4>1, ContentIs
      <4> QED BY <4>1, <4>2, ContentIs
    <3> QED BY <2>5, <3>1
  <2>6. ASSUME NEW m \in Sessions, NEW n \in Sessions, m # n
        PROVE  Grouped(saved.sessions, m, n)
                 <=> Grouped(sess, session_ids[m], session_ids[n])
    <3>1. /\ snap.sessions[m].group = saved.sessions[m].group
          /\ snap.sessions[n].group = saved.sessions[n].group
      BY <2>1, CaptureIs DEF RoundTripInv
    <3>2. Grouped(sess, session_ids[m], session_ids[n])
            <=> /\ snap.sessions[m].group # 0
                /\ snap.sessions[m].group = snap.sessions[n].group
      BY <2>1, <2>6, GroupsRestored
    <3> QED BY <3>1, <3>2 DEF Grouped
  <2> QED BY <2>2, <2>3, <2>4, <2>5, <2>6, SMTT(30) DEF LinksRestored
<1> QED BY <1>1, RoundTripInvHolds, PTL

-----------------------------------------------------------------------------
\* What a snapshot says of the server that is built from it: a session for each of its
\* sessions and no others, with its windows at their indexes, or where renumber-windows
\* put them, in its group and showing what it showed; and for each of its windows another
\* one with its panes, its active pane and its zoom.
BuiltFromSnapshot ==
    /\ \A k \in 1..Len(sess) : \E n \in Sessions : session_ids[n] = k
    /\ \A m, n \in Sessions : session_ids[m] = session_ids[n] => m = n
    /\ \A v, w \in Windows : window_ids[v] = window_ids[w] => v = w
    /\ \A n \in Sessions : /\ LeftAs(sess[session_ids[n]], window_ids, n)
                           /\ GroupedAs(sess[session_ids[n]], n, session_ids)
                           /\ ~Displaced(n) => ShownAs(sess[session_ids[n]], n)
    /\ \A w \in Windows : /\ BuiltAs(wins[window_ids[w]], w)
                          /\ wins[window_ids[w]].active = snap.windows[w].active
                          /\ wins[window_ids[w]].zoomed = snap.windows[w].zoomed

\* Whatever snapshot passes the checks (validate_state_for_restore), captured from a
\* server, imported from a file or from a damaged one: when the build of it is done
\* (build_snapshot to restore_session_windows) the server is what the snapshot says, and
\* if a command of it was refused, then for a reason that is known.
THEOREM SnapshotsAreBuilt ==
  Spec => [](IsSnapshot(snap) => /\ Restored => BuiltFromSnapshot
                                 /\ phase = "refused" => Reason(why))
<1>1. RoundTripInv => (IsSnapshot(snap) => /\ Restored => BuiltFromSnapshot
                                           /\ phase = "refused" => Reason(why))
  <2> SUFFICES ASSUME RoundTripInv, IsSnapshot(snap), Restored \/ phase = "refused"
               PROVE  /\ Restored => BuiltFromSnapshot
                      /\ phase = "refused" => Reason(why)
    OBVIOUS
  <2>1. "done" \in Building /\ "refused" # "done"
    BY LoopsAre
  <2>2. Fit
    BY <2>1 DEF Restored, RoundTripInv, CheckedInv, Fit
  <2>3. ASSUME Restored PROVE BuiltFromSnapshot
    <3>1. IdsAre(sess, wins, session_ids, window_ids, "done", todo)
      BY <2>1, <2>2, <2>3 DEF RoundTripInv, BuildInv, Progress, Restored
    <3>2. "done" \notin {"sessions", "windows"}
      OBVIOUS
    <3>3. \A v, w \in Windows : window_ids[v] = window_ids[w] => v = w
      BY <3>1, <3>2 DEF IdsAre, Filled
    <3> QED BY <2>2, <2>3, <3>3, RestoredIs DEF BuiltFromSnapshot
  <2>4. ASSUME phase = "refused" PROVE Reason(why)
    BY <2>2, <2>4 DEF RoundTripInv, BuildInv
  <2> QED BY <2>3, <2>4
<1> QED BY <1>1, RoundTripInvHolds, PTL
================================================================================
