--------------------------- MODULE RoundTrip_proofs ---------------------------
(***************************************************************************)
(* Proofs about RoundTrip.  First the lemmas about the model of tmux:      *)
(* finite sets of numbers in their order, and what each command does to    *)
(* the windows of a session, to the current one and to the stack of those  *)
(* before it.  Then the first half of a round trip: the capture reads what *)
(* the server holds whatever hooks print between the answers, and the      *)
(* snapshot of every server there may be passes the checks of a restore.   *)
(***************************************************************************)
EXTENDS RoundTrip, FiniteSetTheorems, WellFoundedInduction, SequenceTheorems, TLAPS

\* The least of a set of numbers.
LEMMA Least ==
  ASSUME NEW S \in SUBSET Nat, S # {}
  PROVE  Min(S) \in S /\ \A j \in S : Min(S) <= j
<1>1. PICK m \in S : \A j \in S : <<j, m>> \notin OpToRel(<, Nat)
  BY WFMin, NatLessThanWellFounded, Zenon
<1>2. ASSUME NEW j \in S PROVE m <= j
  <2>1. <<j, m>> \in Nat \X Nat /\ <<j, m>>[1] = j /\ <<j, m>>[2] = m /\ j \in Nat /\ m \in Nat
    OBVIOUS
  <2>2. ~(j < m)
    BY <1>1, <2>1 DEF OpToRel
  <2> QED BY <2>1, <2>2
<1>3. \E m_1 \in S : \A j \in S : m_1 <= j
  BY <1>2
<1> QED BY <1>3, Zenon DEF Min

\* How many members of a set are below a number.
Rank(S, i) == Cardinality({j \in S : j < i})

LEMMA RankType ==
  ASSUME NEW S, IsFiniteSet(S), NEW i
  PROVE  /\ IsFiniteSet({j \in S : j < i}) /\ Rank(S, i) \in Nat
         /\ Rank(S, i) <= Cardinality(S)
<1>1. {j \in S : j < i} \in SUBSET S
  OBVIOUS
<1>2. IsFiniteSet({j \in S : j < i}) /\ Cardinality({j \in S : j < i}) <= Cardinality(S)
  BY <1>1, FS_Subset
<1> QED BY <1>2, FS_CardinalityType DEF Rank

LEMMA RankGrows ==
  ASSUME NEW S \in SUBSET Nat, IsFiniteSet(S), NEW i \in S, NEW k \in Nat, i < k
  PROVE  Rank(S, i) + 1 <= Rank(S, k)
<1> DEFINE A == {j \in S : j < i}
           B == {j \in S : j < k}
<1>1. IsFiniteSet(A) /\ Cardinality(A) \in Nat /\ IsFiniteSet(B) /\ Cardinality(B) \in Nat
  BY RankType DEF Rank
<1>2. i \notin A /\ A \cup {i} \in SUBSET B
  <2>1. i \in Nat /\ i \notin A /\ i \in B
    OBVIOUS
  <2>2. ASSUME NEW j \in A PROVE j \in B
    OBVIOUS
  <2> HIDE DEF A, B
  <2> QED BY <2>1, <2>2
<1>3. Cardinality(A \cup {i}) = Cardinality(A) + 1
  BY <1>1, <1>2, FS_AddElement
<1>4. Cardinality(A \cup {i}) <= Cardinality(B)
  BY <1>1, <1>2, FS_Subset
<1> QED BY <1>1, <1>3, <1>4 DEF Rank

LEMMA RankInside ==
  ASSUME NEW S \in SUBSET Nat, IsFiniteSet(S), NEW i \in S
  PROVE  Rank(S, i) \in 0..(Cardinality(S) - 1) /\ Cardinality(S) \in Nat
<1> DEFINE A == {j \in S : j < i}
<1>1. IsFiniteSet(A) /\ Cardinality(A) \in Nat /\ Cardinality(S) \in Nat
  BY RankType, FS_CardinalityType DEF Rank
<1>2. i \notin A /\ A \cup {i} \in SUBSET S
  OBVIOUS
<1>3. Cardinality(A \cup {i}) = Cardinality(A) + 1
  BY <1>1, <1>2, FS_AddElement
<1>4. Cardinality(A \cup {i}) <= Cardinality(S)
  BY <1>2, FS_Subset
<1> QED BY <1>1, <1>3, <1>4 DEF Rank

LEMMA RankOrders ==
  ASSUME NEW S \in SUBSET Nat, IsFiniteSet(S), NEW i \in S, NEW k \in S
  PROVE  /\ Rank(S, i) = Rank(S, k) <=> i = k
         /\ Rank(S, i) < Rank(S, k) <=> i < k
<1>1. Rank(S, i) \in Nat /\ Rank(S, k) \in Nat /\ i \in Nat /\ k \in Nat
  BY RankType
<1>2. i < k => Rank(S, i) + 1 <= Rank(S, k)
  BY RankGrows
<1>3. k < i => Rank(S, k) + 1 <= Rank(S, i)
  BY RankGrows
<1> QED BY <1>1, <1>2, <1>3

\* Every number below the size of the set is the rank of one member.
LEMMA RankReached ==
  ASSUME NEW S \in SUBSET Nat, IsFiniteSet(S), NEW r \in 0..(Cardinality(S) - 1)
  PROVE  \E i \in S : Rank(S, i) = r
<1> DEFINE T == 0..(Cardinality(S) - 1)
           f == [i \in S |-> Rank(S, i)]
<1>1. Cardinality(S) \in Nat
  BY FS_CardinalityType
<1>2. f \in [S -> T]
  BY RankInside
<1>3. \A i, k \in S : f[i] = f[k] => i = k
  BY RankOrders
<1>4. f \in Injection(S, T)
  BY <1>2, <1>3 DEF Injection, IsInjective
<1>5. IsFiniteSet(T) /\ Cardinality(T) = Cardinality(S)
  BY <1>1, FS_Interval
<1>6. f \in Surjection(S, T)
  BY <1>4, <1>5, FS_Injection
<1>7. \A t \in T : \E i \in S : f[i] = t
  BY <1>6 DEF Surjection
<1> QED BY <1>7

\* A set in its order: each member at its rank, and nothing else.
LEMMA Ordered ==
  ASSUME NEW S \in SUBSET Nat, IsFiniteSet(S)
  PROVE  /\ Cardinality(S) \in Nat
         /\ InOrder(S) \in [1..Cardinality(S) -> S]
         /\ \A i \in S : /\ Rank(S, i) + 1 \in 1..Cardinality(S)
                         /\ InOrder(S)[Rank(S, i) + 1] = i
         /\ \A k \in 1..Cardinality(S) : Rank(S, InOrder(S)[k]) = k - 1
<1>1. Cardinality(S) \in Nat
  BY FS_CardinalityType
<1>2. ASSUME NEW k \in 1..Cardinality(S)
      PROVE  InOrder(S)[k] \in S /\ Rank(S, InOrder(S)[k]) = k - 1
  <2>1. k - 1 \in 0..(Cardinality(S) - 1)
    BY <1>1
  <2>2. \E i \in S : Cardinality({j \in S : j < i}) = k - 1
    BY <2>1, RankReached DEF Rank
  <2> QED BY <2>2 DEF InOrder, Rank
<1>3. ASSUME NEW i \in S
      PROVE  Rank(S, i) + 1 \in 1..Cardinality(S) /\ InOrder(S)[Rank(S, i) + 1] = i
  <2>1. Rank(S, i) + 1 \in 1..Cardinality(S) /\ Rank(S, i) \in Nat
    BY RankInside, <1>1
  <2>2. InOrder(S)[Rank(S, i) + 1] \in S
        /\ Rank(S, InOrder(S)[Rank(S, i) + 1]) = Rank(S, i)
    BY <2>1, <1>2
  <2> QED BY <2>1, <2>2, RankOrders
<1>4. InOrder(S) \in [1..Cardinality(S) -> S]
  BY <1>2 DEF InOrder
<1> QED BY <1>1, <1>2, <1>3, <1>4

LEMMA OrderedGrows ==
  ASSUME NEW S \in SUBSET Nat, IsFiniteSet(S),
         NEW j \in 1..Cardinality(S), NEW k \in 1..Cardinality(S)
  PROVE  /\ j < k <=> InOrder(S)[j] < InOrder(S)[k]
         /\ j = k <=> InOrder(S)[j] = InOrder(S)[k]
<1>1. /\ InOrder(S)[j] \in S /\ InOrder(S)[k] \in S
      /\ Rank(S, InOrder(S)[j]) = j - 1 /\ Rank(S, InOrder(S)[k]) = k - 1
      /\ j \in Nat /\ k \in Nat
  BY Ordered, SMTT(30)
<1>2. /\ Rank(S, InOrder(S)[j]) = Rank(S, InOrder(S)[k]) <=> InOrder(S)[j] = InOrder(S)[k]
      /\ Rank(S, InOrder(S)[j]) < Rank(S, InOrder(S)[k]) <=> InOrder(S)[j] < InOrder(S)[k]
  BY <1>1, RankOrders
<1> QED BY <1>1, <1>2

\* Numbers that are moved in their order stay in it.
LEMMA ImageInOrder ==
  ASSUME NEW S \in SUBSET Nat, IsFiniteSet(S), NEW g \in [S -> Nat],
         \A i, j \in S : i < j => g[i] < g[j],
         NEW T, \A i \in S : g[i] \in T, \A t \in T : \E i \in S : g[i] = t
  PROVE  /\ IsFiniteSet(T) /\ Cardinality(T) = Cardinality(S)
         /\ \A k \in 1..Cardinality(S) : InOrder(T)[k] = g[InOrder(S)[k]]
<1>0. T = {g[i] : i \in S}
  OBVIOUS
<1>1. \A i, j \in S : g[i] < g[j] <=> i < j
  <2> TAKE i, j \in S
  <2>1. i \in Nat /\ j \in Nat /\ g[i] \in Nat /\ g[j] \in Nat
    OBVIOUS
  <2>2. i < j \/ i = j \/ j < i
    BY <2>1
  <2> QED BY <2>1, <2>2
<1>2. \A i, j \in S : g[i] = g[j] => i = j
  <2> TAKE i, j \in S
  <2>1. i \in Nat /\ j \in Nat /\ g[i] \in Nat /\ g[j] \in Nat
    OBVIOUS
  <2>2. i < j \/ i = j \/ j < i
    BY <2>1
  <2> QED BY <1>1, <2>1, <2>2
<1>3. ASSUME NEW A \in SUBSET S, NEW B, B = {g[i] : i \in A}
      PROVE  IsFiniteSet(B) /\ Cardinality(B) = Cardinality(A)
  <2> DEFINE f == [i \in A |-> g[i]]
  <2>1. f \in Bijection(A, B)
    <3>1. \A a, b \in A : f[a] = f[b] => a = b
      BY <1>2
    <3>2. f \in [A -> B] /\ \A t \in B : \E a \in A : f[a] = t
      BY <1>3
    <3> QED BY <3>1, <3>2 DEF Bijection, Injection, Surjection, IsInjective
  <2>2. ExistsBijection(A, B)
    BY <2>1 DEF ExistsBijection
  <2>3. IsFiniteSet(A)
    BY FS_Subset
  <2> QED BY <2>2, <2>3, FS_Bijection
<1>4. IsFiniteSet(T) /\ Cardinality(T) = Cardinality(S)
  BY <1>0, <1>3
<1>5. T \in SUBSET Nat
  OBVIOUS
<1>6. \A i \in S : g[i] \in T /\ Rank(T, g[i]) = Rank(S, i)
  <2> TAKE i \in S
  <2> DEFINE A == {j \in S : j < i}
             B == {t \in T : t < g[i]}
  <2>1. B = {g[j] : j \in A}
    BY <1>1
  <2>2. A \in SUBSET S
    OBVIOUS
  <2> HIDE DEF A, B
  <2>3. Cardinality(B) = Cardinality(A)
    BY <1>3, <2>1, <2>2
  <2> QED BY <2>3 DEF Rank, A, B
<1>7. ASSUME NEW k \in 1..Cardinality(S) PROVE InOrder(T)[k] = g[InOrder(S)[k]]
  <2> DEFINE i == InOrder(S)[k]
  <2>1. i \in S /\ Rank(S, i) = k - 1 /\ k \in Nat
    BY Ordered
  <2> HIDE DEF i
  <2>2. InOrder(T)[Rank(T, g[i]) + 1] = g[i]
    BY <1>4, <1>5, <1>6, <2>1, Ordered
  <2>3. Rank(T, g[i]) + 1 = k
    BY <1>6, <2>1
  <2> QED BY <2>2, <2>3 DEF i
<1> QED BY <1>4, <1>7

\* The greatest of a finite set of numbers.
LEMMA Greatest ==
  ASSUME NEW S \in SUBSET Nat, S # {}, IsFiniteSet(S)
  PROVE  Max(S) \in S /\ \A j \in S : j <= Max(S)
<1> DEFINE N == Cardinality(S)
           top == InOrder(S)[N]
<1>1. N \in Nat /\ N # 0
  BY FS_EmptySet, FS_CardinalityType
<1>2. N \in 1..N
  BY <1>1
<1>3. top \in S /\ Rank(S, top) = N - 1
  BY <1>2, Ordered
<1>4. ASSUME NEW j \in S PROVE j <= top
  <2>1. Rank(S, j) \in 0..(N - 1) /\ j \in Nat /\ top \in Nat
    BY <1>3, RankInside
  <2>2. top < j => Rank(S, top) < Rank(S, j)
    BY <1>3, RankOrders
  <2> QED BY <2>1, <2>2, <1>1, <1>3
<1>5. \E x \in S : \A y \in S : x >= y
  <2>1. \A y \in S : top >= y
    BY <1>3, <1>4
  <2> QED BY <2>1, <1>3
<1>6. Max(S) \in S /\ \A y \in S : Max(S) >= y
  BY <1>5, Zenon DEF Max
<1>7. \A y \in S : y <= Max(S)
  BY <1>6
<1> QED BY <1>6, <1>7

-----------------------------------------------------------------------------
LEMMA PickedIs ==
  ASSUME NEW A, NEW seq \in Seq(A), NEW S \in SUBSET DOMAIN seq
  PROVE  /\ IsFiniteSet(S) /\ S \in SUBSET Nat /\ Cardinality(S) \in Nat
         /\ Picked(seq, S) \in [1..Cardinality(S) -> A]
         /\ \A k \in 1..Cardinality(S) : /\ InOrder(S)[k] \in S
                                         /\ Picked(seq, S)[k] = seq[InOrder(S)[k]]
<1>1. DOMAIN seq = 1..Len(seq) /\ Len(seq) \in Nat
  OBVIOUS
<1>2. IsFiniteSet(1..Len(seq))
  BY <1>1, FS_Interval
<1>3. IsFiniteSet(S) /\ S \in SUBSET Nat
  BY <1>1, <1>2, FS_Subset
<1>4. Cardinality(S) \in Nat /\ InOrder(S) \in [1..Cardinality(S) -> S]
  BY <1>3, Ordered
<1>5. \A k \in 1..Cardinality(S) : InOrder(S)[k] \in DOMAIN seq /\ seq[InOrder(S)[k]] \in A
  BY <1>4
<1>6. DOMAIN InOrder(S) = 1..Cardinality(S)
  BY <1>4
<1> QED BY <1>3, <1>4, <1>5, <1>6 DEF Picked

\* The stack without a window that is shown or gone; its top stays where it is.
LEMMA DropIs ==
  ASSUME NEW A, NEW stack \in Seq(A), NEW i
  PROVE  /\ Drop(stack, i) \in Seq(A \ {i})
         /\ stack # <<>> /\ Head(stack) # i
              => Drop(stack, i) # <<>> /\ Head(Drop(stack, i)) = Head(stack)
<1> DEFINE S == {k \in DOMAIN stack : stack[k] # i}
           N == Cardinality(S)
           d == Drop(stack, i)
<1>0. S \in SUBSET DOMAIN stack /\ \A k \in S : stack[k] # i
  OBVIOUS
<1>1. /\ IsFiniteSet(S) /\ S \in SUBSET Nat /\ N \in Nat
      /\ d \in [1..N -> A]
      /\ \A k \in 1..N : InOrder(S)[k] \in S /\ d[k] = stack[InOrder(S)[k]]
  BY <1>0, PickedIs DEF Drop
<1>2. \A k \in 1..N : d[k] \in A \ {i}
  BY <1>0, <1>1
<1>3. d \in [1..N -> A \ {i}]
  BY <1>1, <1>2
<1>4. d \in Seq(A \ {i})
  BY <1>1, <1>3
<1>5. ASSUME stack # <<>>, Head(stack) # i
      PROVE  d # <<>> /\ Head(d) = Head(stack)
  <2>1. 1 \in S /\ stack[1] = Head(stack)
    BY <1>5
  <2>2. {k \in S : k < 1} = {}
    OBVIOUS
  <2>3. Rank(S, 1) = 0
    BY <2>2, FS_EmptySet DEF Rank
  <2>4. 1 \in 1..N /\ InOrder(S)[1] = 1
    BY <2>1, <2>3, <1>1, Ordered
  <2>5. d[1] = stack[1] /\ d # <<>>
    BY <2>4, <1>1
  <2> QED BY <2>1, <2>5, <1>4
<1> QED BY <1>4, <1>5

\* A session of the server that is built: its windows are among the first N.
IsNew(s, N) ==
    /\ s \in [group : Nat, links : UNION {[D -> 1..N] : D \in SUBSET Nat},
             cur : Nat, stack : Seq(Nat)]
    /\ IsFiniteSet(Indexes(s))
    /\ s.cur \in Indexes(s) /\ s.stack \in Seq(Indexes(s) \ {s.cur})

LEMMA NewIs ==
  ASSUME NEW s, NEW N, IsNew(s, N)
  PROVE  /\ Indexes(s) \in SUBSET Nat /\ s.links \in [Indexes(s) -> 1..N]
         /\ s.group \in Nat /\ s.cur \in Nat /\ s.stack \in Seq(Nat)
         /\ DOMAIN s = {"group", "links", "cur", "stack"}
BY DEF IsNew, Indexes

LEMMA SelectIs ==
  ASSUME NEW s, NEW N, IsNew(s, N), NEW i \in Indexes(s)
  PROVE  /\ IsNew(Select(s, i), N)
         /\ Select(s, i).links = s.links /\ Select(s, i).group = s.group
         /\ Select(s, i).cur = i
         /\ i = s.cur => Select(s, i) = s
         /\ i # s.cur => Select(s, i).stack # <<>> /\ Head(Select(s, i).stack) = s.cur
<1>1. CASE i = s.cur
  BY <1>1 DEF Select
<1>2. CASE i # s.cur
  <2> DEFINE d == Drop(s.stack, i)
             t == [s EXCEPT !.cur = i, !.stack = <<s.cur>> \o d]
  <2>1. Select(s, i) = t
    BY <1>2 DEF Select
  <2>2. /\ Indexes(s) \in SUBSET Nat /\ s.cur \in Indexes(s)
        /\ DOMAIN s = {"group", "links", "cur", "stack"}
    BY NewIs DEF IsNew
  <2>3. d \in Seq((Indexes(s) \ {s.cur}) \ {i})
    BY DropIs DEF IsNew
  <2>4. d \in Seq(Indexes(s) \ {i}) /\ d \in Seq(Nat)
    BY <2>2, <2>3
  <2>5. /\ <<s.cur>> \o d \in Seq(Indexes(s) \ {i}) /\ <<s.cur>> \o d \in Seq(Nat)
        /\ <<s.cur>> \o d # <<>> /\ Head(<<s.cur>> \o d) = s.cur
    BY <1>2, <2>2, <2>4
  <2> HIDE DEF d
  <2>6. t.links = s.links /\ t.group = s.group /\ t.cur = i /\ t.stack = <<s.cur>> \o d
    BY <2>2
  <2>7. Indexes(t) = Indexes(s)
    BY <2>6 DEF Indexes
  <2>8. t \in [group : Nat, links : UNION {[D -> 1..N] : D \in SUBSET Nat},
             cur : Nat, stack : Seq(Nat)]
    BY <2>2, <2>5 DEF IsNew
  <2>9. IsNew(t, N)
    BY <2>5, <2>6, <2>7, <2>8 DEF IsNew
  <2> QED BY <1>2, <2>1, <2>5, <2>6, <2>9
<1> QED BY <1>1, <1>2

LEMMA PutIs ==
  ASSUME NEW s, NEW N \in Nat, IsNew(s, N), NEW M \in Nat, N <= M, NEW i \in Nat, NEW w \in 1..M
  PROVE  /\ IsNew(Put(s, i, w), M)
         /\ Indexes(Put(s, i, w)) = Indexes(s) \cup {i}
         /\ Put(s, i, w).links[i] = w
         /\ \A j \in Indexes(s) \ {i} : Put(s, i, w).links[j] = s.links[j]
         /\ Put(s, i, w).group = s.group /\ Put(s, i, w).cur = s.cur
         /\ Put(s, i, w).stack = s.stack
<1> DEFINE l == [j \in Indexes(s) \cup {i} |-> IF j = i THEN w ELSE s.links[j]]
           t == [s EXCEPT !.links = l]
<1>1. /\ Indexes(s) \in SUBSET Nat /\ s.links \in [Indexes(s) -> 1..N]
      /\ DOMAIN s = {"group", "links", "cur", "stack"}
  BY NewIs
<1>2. Put(s, i, w) = t
  BY <1>1 DEF Put, Indexes
<1>3. \A j \in Indexes(s) : s.links[j] \in 1..M
  BY <1>1
<1>4. /\ l \in [Indexes(s) \cup {i} -> 1..M] /\ Indexes(s) \cup {i} \in SUBSET Nat
      /\ l[i] = w /\ \A j \in Indexes(s) \ {i} : l[j] = s.links[j]
      /\ DOMAIN l = Indexes(s) \cup {i}
  BY <1>1, <1>3
<1> HIDE DEF l
<1>5. t.links = l /\ t.group = s.group /\ t.cur = s.cur /\ t.stack = s.stack
  BY <1>1
<1>6. Indexes(t) = Indexes(s) \cup {i}
  BY <1>4, <1>5 DEF Indexes
<1>7. IsFiniteSet(Indexes(s) \cup {i})
  BY FS_AddElement DEF IsNew
<1>8. t \in [group : Nat, links : UNION {[D -> 1..M] : D \in SUBSET Nat},
           cur : Nat, stack : Seq(Nat)]
  BY <1>1, <1>4, ZenonT(30) DEF IsNew
<1>9. t.stack \in Seq(Indexes(t) \ {t.cur}) /\ t.cur \in Indexes(t)
  <2>1. s.stack \in Seq(Indexes(s) \ {s.cur}) /\ s.cur \in Indexes(s)
    BY DEF IsNew
  <2>2. Indexes(s) \ {s.cur} \subseteq Indexes(t) \ {t.cur}
    BY <1>5, <1>6
  <2>3. s.stack \in Seq(Indexes(t) \ {t.cur})
    BY <2>1, <2>2
  <2> QED BY <2>1, <2>3, <1>5, <1>6
<1>10. IsNew(t, M)
  BY <1>6, <1>7, <1>8, <1>9 DEF IsNew
<1> QED BY <1>2, <1>4, <1>5, <1>6, <1>10

\* The window that a session shows when the one it shows goes.
LEMMA SuccessorIs ==
  ASSUME NEW s, NEW N, IsNew(s, N), Indexes(s) # {s.cur}
  PROVE  Successor(s) \in Indexes(s) \ {s.cur}
<1> DEFINE lower == {j \in Indexes(s) : j < s.cur}
<1>1. Indexes(s) \in SUBSET Nat /\ IsFiniteSet(Indexes(s)) /\ s.cur \in Indexes(s)
  BY NewIs DEF IsNew
<1>2. CASE s.stack # <<>>
  <2>1. Head(s.stack) \in Indexes(s) \ {s.cur}
    BY <1>2 DEF IsNew
  <2> QED BY <1>2, <2>1 DEF Successor
<1>3. CASE s.stack = <<>> /\ lower # {}
  <2>1. lower \in SUBSET Nat /\ IsFiniteSet(lower)
    BY <1>1, FS_Subset
  <2>2. Max(lower) \in lower
    BY <1>3, <2>1, Greatest
  <2>3. Max(lower) \in Indexes(s) \ {s.cur}
    BY <2>2, <1>1
  <2> QED BY <1>3, <2>3 DEF Successor
<1>4. CASE s.stack = <<>> /\ lower = {}
  <2>1. Max(Indexes(s)) \in Indexes(s) /\ \A j \in Indexes(s) : j <= Max(Indexes(s))
    BY <1>1, Greatest
  <2>2. PICK j \in Indexes(s) : j # s.cur
    BY <1>1
  <2>3. ~(j < s.cur) /\ j \in Nat /\ s.cur \in Nat /\ Max(Indexes(s)) \in Nat
    BY <1>4, <1>1, <2>1
  <2>4. Max(Indexes(s)) # s.cur
    BY <2>1, <2>2, <2>3
  <2> QED BY <1>4, <2>1, <2>4 DEF Successor
<1> QED BY <1>2, <1>3, <1>4

LEMMA UnlinkIs ==
  ASSUME NEW s, NEW N, IsNew(s, N), NEW i \in Indexes(s), Indexes(s) # {i}
  PROVE  /\ IsNew(Unlink(s, i), N)
         /\ Indexes(Unlink(s, i)) = Indexes(s) \ {i}
         /\ \A j \in Indexes(s) \ {i} : Unlink(s, i).links[j] = s.links[j]
         /\ Unlink(s, i).group = s.group
<1> DEFINE left == IF s.cur = i THEN Select(s, Successor(s)) ELSE s
           l == [j \in Indexes(left) \ {i} |-> left.links[j]]
           d == Drop(left.stack, i)
           t == [left EXCEPT !.links = l, !.stack = d]
<1>1. /\ IsNew(left, N) /\ left.links = s.links /\ left.group = s.group
      /\ left.cur # i
  <2>1. CASE s.cur = i
    <3>1. Successor(s) \in Indexes(s) \ {s.cur}
      BY <2>1, SuccessorIs
    <3>2. left = Select(s, Successor(s))
      BY <2>1
    <3> HIDE DEF left
    <3> QED BY <2>1, <3>1, <3>2, SelectIs
  <2>2. CASE s.cur # i
    BY <2>2
  <2> QED BY <2>1, <2>2
<1> HIDE DEF left
<1>2. /\ Indexes(left) \in SUBSET Nat /\ left.links \in [Indexes(left) -> 1..N]
      /\ DOMAIN left = {"group", "links", "cur", "stack"}
      /\ IsFiniteSet(Indexes(left)) /\ left.cur \in Indexes(left)
      /\ left.stack \in Seq(Indexes(left) \ {left.cur}) /\ left.group \in Nat
  BY <1>1, NewIs DEF IsNew
<1>3. Unlink(s, i) = t
  BY <1>2 DEF Unlink, Indexes, left
<1>4. l \in [Indexes(left) \ {i} -> 1..N] /\ DOMAIN l = Indexes(left) \ {i}
      /\ Indexes(left) \ {i} \in SUBSET Nat
      /\ \A j \in Indexes(left) \ {i} : l[j] = left.links[j]
  BY <1>2
<1>5. d \in Seq((Indexes(left) \ {left.cur}) \ {i})
  BY <1>2, DropIs
<1>6. d \in Seq((Indexes(left) \ {i}) \ {left.cur}) /\ d \in Seq(Nat)
  <2>1. (Indexes(left) \ {left.cur}) \ {i} = (Indexes(left) \ {i}) \ {left.cur}
    OBVIOUS
  <2>2. (Indexes(left) \ {i}) \ {left.cur} \subseteq Nat
    BY <1>2
  <2>3. d \in Seq((Indexes(left) \ {i}) \ {left.cur})
    BY <1>5, <2>1
  <2> HIDE DEF d
  <2>4. d \in Seq(Nat)
    BY <2>2, <2>3
  <2> QED BY <2>3, <2>4
<1> HIDE DEF l, d
<1>7. t.links = l /\ t.stack = d /\ t.cur = left.cur /\ t.group = left.group
  BY <1>2
<1>8. Indexes(t) = Indexes(left) \ {i}
  BY <1>4, <1>7 DEF Indexes
<1>9. IsFiniteSet(Indexes(left) \ {i})
  BY <1>2, FS_RemoveElement
<1>10. l \in UNION {[D -> 1..N] : D \in SUBSET Nat}
  BY <1>4
<1>11. t \in [group : Nat, links : UNION {[D -> 1..N] : D \in SUBSET Nat},
              cur : Nat, stack : Seq(Nat)]
  BY <1>1, <1>2, <1>6, <1>10 DEF IsNew
<1>12. IsNew(t, N)
  BY <1>1, <1>2, <1>6, <1>7, <1>8, <1>9, <1>11 DEF IsNew
<1>13. Indexes(left) = Indexes(s)
  BY <1>1 DEF Indexes
<1> QED BY <1>1, <1>3, <1>4, <1>7, <1>8, <1>12, <1>13

LEMMA MoveIs ==
  ASSUME NEW s, NEW N \in Nat, IsNew(s, N), NEW i \in Indexes(s), NEW j \in Nat \ Indexes(s)
  PROVE  /\ IsNew(Move(s, i, j), N)
         /\ Indexes(Move(s, i, j)) = (Indexes(s) \ {i}) \cup {j}
         /\ Move(s, i, j).links[j] = s.links[i]
         /\ \A k \in Indexes(s) \ {i} : Move(s, i, j).links[k] = s.links[k]
         /\ Move(s, i, j).group = s.group
<1> DEFINE put == Put(s, j, s.links[i])
           shown == Select(put, j)
<1>1. s.links[i] \in 1..N /\ i # j
  BY NewIs
<1>2. /\ IsNew(put, N) /\ Indexes(put) = Indexes(s) \cup {j} /\ put.links[j] = s.links[i]
      /\ \A k \in Indexes(s) \ {j} : put.links[k] = s.links[k]
      /\ put.group = s.group
  <2> DEFINE id == s.links[i]
  <2>1. PICK M \in Nat : N <= M /\ M = N
    OBVIOUS
  <2>2. IsNew(s, N) /\ N \in Nat /\ N <= M /\ j \in Nat /\ id \in 1..M
    BY <1>1, <2>1
  <2> HIDE DEF id
  <2>3. \A k \in Indexes(s) \ {j} : Put(s, j, id).links[k] = s.links[k]
    BY <2>2, PutIs
  <2>4. IsNew(Put(s, j, id), M)
    BY <2>2, PutIs
  <2>5. Indexes(Put(s, j, id)) = Indexes(s) \cup {j}
    BY <2>2, PutIs
  <2>6. IsNew(Put(s, j, id), N) /\ Indexes(Put(s, j, id)) = Indexes(s) \cup {j}
    BY <2>1, <2>4, <2>5
  <2>7. Put(s, j, id).links[j] = id
    BY <2>2, PutIs
  <2>8. Put(s, j, id).group = s.group
    BY <2>2, PutIs
  <2> QED BY <2>3, <2>6, <2>7, <2>8 DEF id
<1> HIDE DEF put
<1>3. IsNew(shown, N) /\ shown.links = put.links /\ shown.group = put.group
  BY <1>2, SelectIs
<1> HIDE DEF shown
<1>4. Indexes(shown) = Indexes(s) \cup {j}
  BY <1>2, <1>3 DEF Indexes
<1>5. /\ IsNew(Unlink(shown, i), N)
      /\ Indexes(Unlink(shown, i)) = Indexes(shown) \ {i}
      /\ \A k \in Indexes(shown) \ {i} : Unlink(shown, i).links[k] = shown.links[k]
      /\ Unlink(shown, i).group = shown.group
  BY <1>1, <1>3, <1>4, UnlinkIs
<1>6. Move(s, i, j) = Unlink(shown, i)
  BY DEF Move, shown, put
<1> QED BY <1>1, <1>2, <1>3, <1>4, <1>5, <1>6

LEMMA MemberIs ==
  ASSUME NEW s, NEW N, IsNew(s, N), NEW id \in Nat
  PROVE  /\ IsNew(Member(s, id), N) /\ Member(s, id).links = s.links
         /\ Member(s, id).group = id
<1> DEFINE t == [s EXCEPT !.stack = <<>>, !.group = id]
<1>1. /\ Indexes(s) \in SUBSET Nat /\ s.cur \in Indexes(s)
      /\ DOMAIN s = {"group", "links", "cur", "stack"}
  BY NewIs DEF IsNew
<1>2. t.links = s.links /\ t.stack = <<>> /\ t.group = id /\ t.cur = s.cur
  BY <1>1
<1>3. t \in [group : Nat, links : UNION {[D -> 1..N] : D \in SUBSET Nat},
             cur : Nat, stack : Seq(Nat)]
  <2>1. <<>> \in Seq(Nat) /\ s.links \in UNION {[D -> 1..N] : D \in SUBSET Nat}
        /\ s.cur \in Nat
    BY DEF IsNew
  <2> QED BY <1>1, <1>2, <2>1
<1>4. Indexes(t) = Indexes(s)
  BY <1>2 DEF Indexes
<1>5. IsNew(t, N)
  BY <1>2, <1>3, <1>4 DEF IsNew
<1>6. Min(Indexes(s)) \in Indexes(s)
  BY <1>1, Least
<1>7. Member(s, id) = Select(t, Min(Indexes(s)))
  BY DEF Member
<1> HIDE DEF t
<1> QED BY <1>2, <1>4, <1>5, <1>6, <1>7, SelectIs

LEMMA NewIndexIs ==
  ASSUME NEW s, NEW N, IsNew(s, N), NEW base \in Nat, NEW i \in Indexes(s)
  PROVE  /\ Cardinality(Indexes(s)) \in Nat /\ Cardinality(Indexes(s)) # 0
         /\ NewIndex(s, base, i) \in base..(base + Cardinality(Indexes(s)) - 1)
         /\ NewIndex(s, base, i) \in Nat
         /\ NewIndex(s, base, i) - base + 1 = Rank(Indexes(s), i) + 1
         /\ \A j \in Indexes(s) : NewIndex(s, base, i) = NewIndex(s, base, j) => i = j
<1>1. Indexes(s) \in SUBSET Nat /\ IsFiniteSet(Indexes(s))
  BY NewIs DEF IsNew
<1>2. /\ Rank(Indexes(s), i) \in 0..(Cardinality(Indexes(s)) - 1)
      /\ Cardinality(Indexes(s)) \in Nat
  BY <1>1, RankInside
<1>3. \A j \in Indexes(s) : NewIndex(s, base, j) = base + Rank(Indexes(s), j)
  BY DEF NewIndex, Rank
<1>4. \A j \in Indexes(s) : Rank(Indexes(s), j) \in Nat
  BY <1>1, RankType
<1>5. \A j \in Indexes(s) : Rank(Indexes(s), i) = Rank(Indexes(s), j) => i = j
  BY <1>1, RankOrders
<1> QED BY <1>2, <1>3, <1>4, <1>5

LEMMA RenumberIs ==
  ASSUME NEW s, NEW N, IsNew(s, N), NEW base \in Nat
  PROVE  /\ IsNew(Renumber(s, base), N)
         /\ Indexes(Renumber(s, base)) = {NewIndex(s, base, i) : i \in Indexes(s)}
         /\ \A i \in Indexes(s) : Renumber(s, base).links[NewIndex(s, base, i)] = s.links[i]
         /\ Renumber(s, base).group = s.group
<1> DEFINE I == Indexes(s)
           C == Cardinality(I)
           J == base..(base + C - 1)
           order == InOrder(I)
           l == [i \in base..(base + Len(order) - 1) |-> s.links[order[i - base + 1]]]
           new == NewIndex(s, base, s.cur)
           d == [k \in DOMAIN s.stack |-> NewIndex(s, base, s.stack[k])]
           t == [s EXCEPT !.links = l, !.cur = new, !.stack = d]
<1>1. /\ I \in SUBSET Nat /\ IsFiniteSet(I) /\ s.links \in [I -> 1..N]
      /\ DOMAIN s = {"group", "links", "cur", "stack"}
      /\ s.cur \in I /\ s.stack \in Seq(I \ {s.cur}) /\ s.group \in Nat
  BY NewIs DEF IsNew
<1>2. /\ C \in Nat /\ order \in [1..C -> I] /\ Len(order) = C
      /\ \A i \in I : Rank(I, i) + 1 \in 1..C /\ order[Rank(I, i) + 1] = i
      /\ \A k \in 1..C : Rank(I, order[k]) = k - 1
  <2>1. /\ C \in Nat /\ order \in [1..C -> I]
        /\ \A i \in I : Rank(I, i) + 1 \in 1..C /\ order[Rank(I, i) + 1] = i
        /\ \A k \in 1..C : Rank(I, order[k]) = k - 1
    BY <1>1, Ordered
  <2> HIDE DEF order, C, I
  <2>2. Len(order) = C
    BY <2>1
  <2> QED BY <2>1, <2>2
<1>3. \A i \in I : /\ NewIndex(s, base, i) \in J /\ NewIndex(s, base, i) \in Nat
                   /\ NewIndex(s, base, i) - base + 1 = Rank(I, i) + 1
  BY NewIndexIs
<1>4. \A i, j \in I : NewIndex(s, base, i) = NewIndex(s, base, j) => i = j
  BY NewIndexIs
<1>5. Renumber(s, base) = t
  BY <1>1 DEF Renumber, Indexes
<1> HIDE DEF I, C, order
<1>6. l \in [J -> 1..N] /\ J \in SUBSET Nat /\ DOMAIN l = J
  <2>1. ASSUME NEW i \in J PROVE s.links[order[i - base + 1]] \in 1..N
    <3>1. i - base + 1 \in 1..C
      BY <1>2
    <3> QED BY <3>1, <1>1, <1>2
  <2>2. base..(base + Len(order) - 1) = J
    BY <1>2
  <2>3. \A j \in J : j \in Nat
    BY <1>2
  <2> HIDE DEF J
  <2>4. DOMAIN l = J /\ l \in [J -> 1..N]
    BY <2>1, <2>2
  <2> QED BY <2>3, <2>4
<1>7. \A i \in I : l[NewIndex(s, base, i)] = s.links[i]
  <2> TAKE i \in I
  <2>1. NewIndex(s, base, i) \in base..(base + Len(order) - 1)
    BY <1>2, <1>3
  <2>2. l[NewIndex(s, base, i)] = s.links[order[NewIndex(s, base, i) - base + 1]]
    BY <2>1
  <2>3. order[NewIndex(s, base, i) - base + 1] = i
    BY <1>2, <1>3
  <2> QED BY <2>2, <2>3
<1>8. J = {NewIndex(s, base, i) : i \in I}
  <2>1. ASSUME NEW j \in J PROVE \E i \in I : j = NewIndex(s, base, i)
    <3>1. j - base + 1 \in 1..C
      BY <1>2
    <3>2. order[j - base + 1] \in I /\ Rank(I, order[j - base + 1]) = j - base + 1 - 1
      BY <3>1, <1>2
    <3>3. NewIndex(s, base, order[j - base + 1]) - base + 1 = j - base + 1
      BY <3>2, <1>3, <1>2
    <3>4. NewIndex(s, base, order[j - base + 1]) = j
      BY <3>2, <3>3, <1>3, <1>2
    <3> QED BY <3>2, <3>4
  <2> QED BY <2>1, <1>3
<1>9. new \in J /\ new \in Nat
  BY <1>1, <1>3
<1>10. d \in Seq(J \ {new}) /\ d \in Seq(Nat)
  <2>1. DOMAIN s.stack = 1..Len(s.stack) /\ Len(s.stack) \in Nat
    BY <1>1
  <2>2. ASSUME NEW k \in DOMAIN s.stack
        PROVE  /\ NewIndex(s, base, s.stack[k]) \in J \ {new}
               /\ NewIndex(s, base, s.stack[k]) \in Nat
    <3>1. s.stack[k] \in I /\ s.stack[k] # s.cur
      BY <1>1
    <3> QED BY <3>1, <1>1, <1>3, <1>4
  <2>3. d \in [1..Len(s.stack) -> J \ {new}] /\ d \in [1..Len(s.stack) -> Nat]
    BY <2>1, <2>2
  <2> HIDE DEF d, J, new
  <2> QED BY <2>1, <2>3
<1> HIDE DEF l, d, new, J
<1>11. t.links = l /\ t.cur = new /\ t.stack = d /\ t.group = s.group
  BY <1>1
<1>12. Indexes(t) = J
  BY <1>6, <1>11 DEF Indexes
<1>13. IsFiniteSet(J)
  BY <1>2, FS_Interval DEF J
<1>14. l \in UNION {[D -> 1..N] : D \in SUBSET Nat}
  BY <1>6
<1>15. t \in [group : Nat, links : UNION {[D -> 1..N] : D \in SUBSET Nat},
              cur : Nat, stack : Seq(Nat)]
  BY <1>1, <1>9, <1>10, <1>14 DEF IsNew
<1>16. IsNew(t, N)
  BY <1>9, <1>10, <1>11, <1>12, <1>13, <1>15 DEF IsNew
<1> QED BY <1>5, <1>7, <1>8, <1>11, <1>12, <1>16 DEF I

-------------------------------------------------------------------------------
\* The capture and the checks.

\* What may stand in the stream of a capture: answers to the program, and what hooks print.
Kinds == {"none", "empty", "text", "error"}
HookBlock == {Block(kind, kind # "error", FALSE) : kind \in Kinds \ {"none"}}
Answers == {ResultBlock(k) : k \in 1..5}

LEMMA CommandsAre ==
  /\ Len(Commands) = 5 /\ DOMAIN Commands = 1..5
  /\ Commands[1] = "S" /\ Commands[2] = "W" /\ Commands[3] = "P" /\ Commands[4] = "M"
  /\ Commands[5] = "C"
<1>1. Len(Commands) = 5
  BY DEF Commands
<1>2. DOMAIN Commands = 1..5
  BY DEF Commands
<1>3. /\ Commands[1] = "S" /\ Commands[2] = "W" /\ Commands[3] = "P"
      /\ Commands[4] = "M" /\ Commands[5] = "C"
  BY DEF Commands
<1> QED BY <1>1, <1>2, <1>3

LEMMA OneBlock == ASSUME NEW S, NEW b \in S PROVE <<b>> \in Seq(S)
  OBVIOUS

LEMMA HookBlocksAre ==
  ASSUME NEW kind \in Kinds
  PROVE  HookBlocks(kind) \in Seq(HookBlock)
<1>1. CASE kind = "none"
  BY <1>1 DEF HookBlocks
<1>2. CASE kind # "none"
  <2>1. Block(kind, kind # "error", FALSE) \in HookBlock
    BY <1>2 DEF HookBlock
  <2>2. <<Block(kind, kind # "error", FALSE)>> \in Seq(HookBlock)
    BY <2>1, OneBlock
  <2>3. HookBlocks(kind) = <<Block(kind, kind # "error", FALSE)>>
    BY <1>2 DEF HookBlocks
  <2> QED BY <2>2, <2>3
<1> QED BY <1>1, <1>2

\* Printed, one command after the other.
Told(k) == <<ResultBlock(k)>> \o HookBlocks(hooks[k])
Telling(n) ==
    [k \in 1..n |->
       IF k = 1 THEN Told(1)
       ELSE IF k = 2 THEN Told(1) \o Told(2)
       ELSE IF k = 3 THEN (Told(1) \o Told(2)) \o Told(3)
       ELSE IF k = 4 THEN ((Told(1) \o Told(2)) \o Told(3)) \o Told(4)
       ELSE (((Told(1) \o Told(2)) \o Told(3)) \o Told(4)) \o Told(5)]

LEMMA PrintedIs ==
  ASSUME NEW n \in 1..5
  PROVE  Printed(n) = Telling(n)[n]
<1> DEFINE seqs == [k \in 1..n |-> Told(k)]
           IsFlat(f) == f = [i \in 1..Len(seqs) |-> IF i = 1 THEN seqs[i] ELSE f[i - 1] \o seqs[i]]
<1>4. Len(seqs) = n
  OBVIOUS
<1>1. IsFlat(Telling(n))
  <2>1. \A i \in 1..n : Telling(n)[i] = IF i = 1 THEN seqs[i] ELSE Telling(n)[i - 1] \o seqs[i]
    <3> TAKE i \in 1..n
    <3>1. seqs[i] = Told(i)
      OBVIOUS
    <3>2. i \in {1, 2, 3, 4, 5} /\ (i # 1 => i - 1 \in 1..n)
      OBVIOUS
    <3> HIDE DEF seqs
    <3>3. CASE i = 1
      BY <3>1, <3>3 DEF Telling
    <3>4. CASE i = 2
      BY <3>1, <3>2, <3>4 DEF Telling
    <3>5. CASE i = 3
      BY <3>1, <3>2, <3>5 DEF Telling
    <3>6. CASE i = 4
      BY <3>1, <3>2, <3>6 DEF Telling
    <3>7. CASE i = 5
      BY <3>1, <3>2, <3>7 DEF Telling
    <3> QED BY <3>2, <3>3, <3>4, <3>5, <3>6, <3>7
  <2>2. Telling(n) = [i \in 1..n |-> Telling(n)[i]]
    BY DEF Telling
  <2> HIDE DEF seqs
  <2> QED BY <2>1, <2>2, <1>4
<1>2. ASSUME NEW f, IsFlat(f) PROVE \A i \in 1..n : f[i] = Telling(n)[i]
  <2> DEFINE g == Telling(n)
  <2>0. f = [i \in 1..n |-> IF i = 1 THEN seqs[i] ELSE f[i - 1] \o seqs[i]]
    BY <1>2, <1>4
  <2>a. g = [i \in 1..n |-> IF i = 1 THEN seqs[i] ELSE g[i - 1] \o seqs[i]]
    BY <1>1, <1>4
  <2> HIDE DEF g, seqs
  <2>b. \A i \in 1..n : f[i] = IF i = 1 THEN seqs[i] ELSE f[i - 1] \o seqs[i]
    BY <2>0
  <2>c. \A i \in 1..n : g[i] = IF i = 1 THEN seqs[i] ELSE g[i - 1] \o seqs[i]
    BY <2>a
  <2>1. f[1] = g[1]
    BY <2>b, <2>c
  <2>2. n >= 2 => f[2] = g[2]
    BY <2>b, <2>c, <2>1
  <2>3. n >= 3 => f[3] = g[3]
    BY <2>b, <2>c, <2>2
  <2>4. n >= 4 => f[4] = g[4]
    BY <2>b, <2>c, <2>3
  <2>5. n >= 5 => f[5] = g[5]
    BY <2>b, <2>c, <2>4
  <2>6. \A i \in 1..n : i \in {1, 2, 3, 4, 5} /\ n >= i
    OBVIOUS
  <2>7. \A i \in 1..n : f[i] = g[i]
    BY <2>1, <2>2, <2>3, <2>4, <2>5, <2>6
  <2> QED BY <2>7 DEF g
<1>3. IsFlat(CHOOSE f : IsFlat(f))
  <2> HIDE DEF IsFlat
  <2> QED BY <1>1, Zenon
<1>5. FlattenSeq(seqs) = (CHOOSE f : IsFlat(f))[n]
  <2> HIDE DEF seqs
  <2>1. Len(seqs) # 0
    BY <1>4
  <2> QED BY <1>4, <2>1 DEF FlattenSeq
<1>6. Printed(n) = FlattenSeq(seqs)
  BY DEF Printed, Told
<1> HIDE DEF IsFlat, seqs
<1> QED BY <1>2, <1>3, <1>5, <1>6

LEMMA ResultBlocksAre ==
  /\ \A k \in 1..5 : ResultBlock(k) \in Answers /\ ResultBlock(k).ok /\ ResultBlock(k).own
  /\ \A k \in 1..4 : ResultBlock(k).kind = Commands[k]
  /\ ResultBlock(5).kind = IF saved.clients THEN "C" ELSE "empty"
<1>1. ASSUME NEW k \in 1..5
      PROVE  ResultBlock(k) \in Answers /\ ResultBlock(k).ok /\ ResultBlock(k).own
  BY DEF ResultBlock, Answers, Block
<1>2. ASSUME NEW k \in 1..4 PROVE ResultBlock(k).kind = Commands[k]
  <2>1. Commands[k] # "C"
    <3>1. k \in {1, 2, 3, 4}
      OBVIOUS
    <3> QED BY <3>1, CommandsAre
  <2> QED BY <2>1 DEF ResultBlock, Block
<1>3. ResultBlock(5).kind = IF saved.clients THEN "C" ELSE "empty"
  BY CommandsAre DEF ResultBlock, Block
<1> QED BY <1>1, <1>2, <1>3

LEMMA ToldIs ==
  ASSUME hooks \in [1..5 -> Kinds], NEW k \in 1..5
  PROVE  /\ Told(k) \in Seq(Answers \cup HookBlock) /\ Len(Told(k)) \in Nat \ {0}
         /\ Told(k)[1] = ResultBlock(k)
<1>1. HookBlocks(hooks[k]) \in Seq(HookBlock)
  BY HookBlocksAre
<1>2. ResultBlock(k) \in Answers
  BY ResultBlocksAre
<1> DEFINE h == HookBlocks(hooks[k])
           r == ResultBlock(k)
<1>3. Told(k) = <<r>> \o h
  BY DEF Told
<1> HIDE DEF h, r
<1>4. <<r>> \in Seq(Answers \cup HookBlock) /\ h \in Seq(Answers \cup HookBlock)
  BY <1>1, <1>2 DEF h, r
<1>5. /\ <<r>> \o h \in Seq(Answers \cup HookBlock) /\ Len(<<r>> \o h) \in Nat \ {0}
      /\ (<<r>> \o h)[1] = r
  BY <1>4
<1> QED BY <1>3, <1>5 DEF r

LEMMA Extended ==
  ASSUME NEW A, NEW s \in Seq(A), NEW t \in Seq(A), Len(t) \in Nat \ {0}
  PROVE  /\ s \o t \in Seq(A) /\ Len(s \o t) = Len(s) + Len(t) /\ Len(s) \in Nat
         /\ \A i \in 1..Len(s) : (s \o t)[i] = s[i]
         /\ (s \o t)[Len(s) + 1] = t[1]
OBVIOUS

LEMMA PrintedType ==
  ASSUME hooks \in [1..5 -> Kinds], NEW n \in 0..5
  PROVE  Printed(n) \in Seq(Answers \cup HookBlock)
<1>1. CASE n = 0
  <2>1. Printed(0) = <<>>
    <3>1. [k \in 1..0 |-> <<ResultBlock(k)>> \o HookBlocks(hooks[k])] = <<>>
      OBVIOUS
    <3>2. Len(<<>>) = 0
      OBVIOUS
    <3> QED BY <3>1, <3>2 DEF Printed, FlattenSeq
  <2> DEFINE A == Answers \cup HookBlock
  <2> HIDE DEF A
  <2>2. <<>> \in Seq(A)
    OBVIOUS
  <2> QED BY <1>1, <2>1, <2>2 DEF A
<1>2. CASE n # 0
  <2> DEFINE B == Seq(Answers \cup HookBlock)
  <2>1. \A k \in 1..5 : Told(k) \in B
    BY ToldIs
  <2>2. \A s, t \in B : s \o t \in B
    OBVIOUS
  <2> HIDE DEF B
  <2>3. n \in {1, 2, 3, 4, 5}
    BY <1>2
  <2>4. Telling(n)[n] \in B
    BY <2>1, <2>2, <2>3 DEF Telling
  <2>5. Printed(n) = Telling(n)[n]
    BY <1>2, PrintedIs
  <2> QED BY <2>4, <2>5 DEF B
<1> QED BY <1>1, <1>2

\* When all commands ran, their answers are there in their order.
LEMMA AllPrinted ==
  ASSUME hooks \in [1..5 -> Kinds]
  PROVE  \E p \in [1..5 -> DOMAIN Printed(5)] :
           /\ \A k \in 1..5 : Printed(5)[p[k]] = ResultBlock(k)
           /\ \A j, k \in 1..5 : j < k => p[j] < p[k]
<1> DEFINE A == Answers \cup HookBlock
           t1 == Told(1)
           t2 == t1 \o Told(2)
           t3 == t2 \o Told(3)
           t4 == t3 \o Told(4)
           t5 == t4 \o Told(5)
           p == [k \in 1..5 |-> IF k = 1 THEN 1 ELSE IF k = 2 THEN Len(t1) + 1
                                ELSE IF k = 3 THEN Len(t2) + 1
                                ELSE IF k = 4 THEN Len(t3) + 1 ELSE Len(t4) + 1]
<1>1. \A k \in 1..5 : /\ Told(k) \in Seq(A) /\ Len(Told(k)) \in Nat \ {0}
                      /\ Told(k)[1] = ResultBlock(k)
  BY ToldIs
<1> HIDE DEF A
<1>2. /\ t1 \in Seq(A) /\ Len(t1) \in Nat \ {0} /\ t1[1] = ResultBlock(1)
  BY <1>1
<1>3. /\ t2 \in Seq(A) /\ Len(t2) \in Nat /\ Len(t1) + 1 <= Len(t2)
      /\ \A i \in 1..Len(t1) : t2[i] = t1[i]
      /\ t2[Len(t1) + 1] = ResultBlock(2)
  <2> HIDE DEF t1
  <2> QED BY <1>1, <1>2, Extended, SMTT(30)
<1>4. /\ t3 \in Seq(A) /\ Len(t3) \in Nat /\ Len(t2) + 1 <= Len(t3)
      /\ \A i \in 1..Len(t2) : t3[i] = t2[i]
      /\ t3[Len(t2) + 1] = ResultBlock(3)
  <2> HIDE DEF t2
  <2> QED BY <1>1, <1>3, Extended, SMTT(30)
<1>5. /\ t4 \in Seq(A) /\ Len(t4) \in Nat /\ Len(t3) + 1 <= Len(t4)
      /\ \A i \in 1..Len(t3) : t4[i] = t3[i]
      /\ t4[Len(t3) + 1] = ResultBlock(4)
  <2> HIDE DEF t3
  <2> QED BY <1>1, <1>4, Extended, SMTT(30)
<1>6. /\ t5 \in Seq(A) /\ Len(t5) \in Nat /\ Len(t4) + 1 <= Len(t5)
      /\ \A i \in 1..Len(t4) : t5[i] = t4[i]
      /\ t5[Len(t4) + 1] = ResultBlock(5)
  <2> HIDE DEF t4
  <2> QED BY <1>1, <1>5, Extended, SMTT(30)
<1>7. Printed(5) = t5
  <2>1. Telling(5)[5] = t5
    BY DEF Telling
  <2> HIDE DEF t5
  <2>2. 5 \in 1..5
    OBVIOUS
  <2>3. Printed(5) = Telling(5)[5]
    BY <2>2, PrintedIs
  <2> QED BY <2>1, <2>3
<1> HIDE DEF t1, t2, t3, t4, t5
<1>8. DOMAIN t5 = 1..Len(t5)
  BY <1>6
<1>9. /\ t5[1] = ResultBlock(1) /\ t5[Len(t1) + 1] = ResultBlock(2)
      /\ t5[Len(t2) + 1] = ResultBlock(3) /\ t5[Len(t3) + 1] = ResultBlock(4)
  <2>0. /\ 1 \in 1..Len(t1) /\ 1 \in 1..Len(t2) /\ 1 \in 1..Len(t3) /\ 1 \in 1..Len(t4)
        /\ Len(t1) + 1 \in 1..Len(t2) /\ Len(t1) + 1 \in 1..Len(t3)
        /\ Len(t1) + 1 \in 1..Len(t4) /\ Len(t2) + 1 \in 1..Len(t3)
        /\ Len(t2) + 1 \in 1..Len(t4) /\ Len(t3) + 1 \in 1..Len(t4)
    <3>1. \A a, b, c, d \in Nat : a # 0 /\ a + 1 <= b /\ b + 1 <= c /\ c + 1 <= d
            => /\ 1 \in 1..a /\ 1 \in 1..b /\ 1 \in 1..c /\ 1 \in 1..d
               /\ a + 1 \in 1..b /\ a + 1 \in 1..c /\ a + 1 \in 1..d
               /\ b + 1 \in 1..c /\ b + 1 \in 1..d /\ c + 1 \in 1..d
      OBVIOUS
    <3> QED BY <3>1, <1>2, <1>3, <1>4, <1>5
  <2>1. t2[1] = ResultBlock(1)
    BY <1>2, <1>3, <2>0
  <2>2. t3[1] = ResultBlock(1) /\ t3[Len(t1) + 1] = ResultBlock(2)
    BY <1>3, <1>4, <2>0, <2>1
  <2>3. /\ t4[1] = ResultBlock(1) /\ t4[Len(t1) + 1] = ResultBlock(2)
        /\ t4[Len(t2) + 1] = ResultBlock(3)
    BY <1>4, <1>5, <2>0, <2>2
  <2>4. /\ t5[1] = t4[1] /\ t5[Len(t1) + 1] = t4[Len(t1) + 1]
        /\ t5[Len(t2) + 1] = t4[Len(t2) + 1] /\ t5[Len(t3) + 1] = t4[Len(t3) + 1]
    BY <1>6, <2>0
  <2> QED BY <1>5, <2>3, <2>4
<1>10. \A k \in 1..5 : k \in {1, 2, 3, 4, 5}
  OBVIOUS
<1>11. /\ p[1] = 1 /\ p[2] = Len(t1) + 1 /\ p[3] = Len(t2) + 1 /\ p[4] = Len(t3) + 1
       /\ p[5] = Len(t4) + 1 /\ DOMAIN p = 1..5 /\ p = [k \in 1..5 |-> p[k]]
  OBVIOUS
<1> HIDE DEF p
<1>12. \A k \in 1..5 : p[k] \in DOMAIN t5
  BY <1>2, <1>3, <1>4, <1>5, <1>6, <1>8, <1>10, <1>11, SMTT(30)
<1>13. \A k \in 1..5 : t5[p[k]] = ResultBlock(k)
  BY <1>6, <1>9, <1>10, <1>11
<1>14. p[1] < p[2] /\ p[2] < p[3] /\ p[3] < p[4] /\ p[4] < p[5] /\ \A k \in 1..5 : p[k] \in Nat
  <2>1. \A k \in 1..5 : p[k] \in Nat
    BY <1>12, <1>8
  <2>2. \A a, b, c, d \in Nat : a # 0 /\ a + 1 <= b /\ b + 1 <= c /\ c + 1 <= d
          => 1 < a + 1 /\ a + 1 < b + 1 /\ b + 1 < c + 1 /\ c + 1 < d + 1
    OBVIOUS
  <2>3. /\ 1 < Len(t1) + 1 /\ Len(t1) + 1 < Len(t2) + 1 /\ Len(t2) + 1 < Len(t3) + 1
        /\ Len(t3) + 1 < Len(t4) + 1
    BY <2>2, <1>2, <1>3, <1>4, <1>5
  <2> QED BY <2>1, <2>3, <1>11
<1>15. \A j, k \in 1..5 : j < k => p[j] < p[k]
  BY <1>10, <1>14
<1>16. p \in [1..5 -> DOMAIN t5]
  BY <1>11, <1>12
<1> QED BY <1>7, <1>13, <1>15, <1>16

-----------------------------------------------------------------------------
LEMMA BlockAfterIs ==
  ASSUME NEW B, NEW blocks \in Seq(B), NEW k \in Nat, NEW kind
  PROVE  /\ BlockAfter(blocks, k, kind) \in Nat
         /\ BlockAfter(blocks, k, kind) # 0 =>
              /\ BlockAfter(blocks, k, kind) \in DOMAIN blocks
              /\ blocks[BlockAfter(blocks, k, kind)].kind = kind
         /\ \A j \in DOMAIN blocks : j > k /\ blocks[j].kind = kind =>
              /\ BlockAfter(blocks, k, kind) # 0
              /\ BlockAfter(blocks, k, kind) <= j
<1> DEFINE found == {j \in DOMAIN blocks : j > k /\ blocks[j].kind = kind}
<1>1. found \in SUBSET Nat /\ \A j \in found : j # 0 /\ j \in DOMAIN blocks
  OBVIOUS
<1>2. CASE found = {}
  <2>1. BlockAfter(blocks, k, kind) = 0
    BY <1>2 DEF BlockAfter
  <2> QED BY <1>2, <2>1
<1>3. CASE found # {}
  <2>1. BlockAfter(blocks, k, kind) = Min(found)
    BY <1>3 DEF BlockAfter
  <2>2. Min(found) \in found /\ \A j \in found : Min(found) <= j
    BY <1>1, <1>3, Least
  <2>3. \A j \in DOMAIN blocks : j > k /\ blocks[j].kind = kind => j \in found
    OBVIOUS
  <2>4. Min(found) \in Nat /\ blocks[Min(found)].kind = kind /\ Min(found) \in DOMAIN blocks
        /\ Min(found) # 0
    BY <2>2, <1>1
  <2> HIDE DEF found
  <2> QED BY <2>1, <2>2, <2>3, <2>4
<1> QED BY <1>2, <1>3

\* Whoever prints it, a block of this kind answers the program.
Streamed == Answers \cup HookBlock \cup {Block("text", FALSE, TRUE)}

LEMMA KindTells ==
  ASSUME NEW b \in Streamed
  PROVE  /\ b.kind \in {"S", "W", "P", "M"} => b.own
         /\ b.kind = "C" => saved.clients
<1>1. CASE b \in Answers
  <2>1. PICK k \in 1..5 : b = ResultBlock(k)
    BY <1>1 DEF Answers
  <2>2. b.own
    BY <2>1, ResultBlocksAre
  <2>3. b.kind = "C" => saved.clients
    <3>1. CASE k = 5
      BY <2>1, <3>1, ResultBlocksAre
    <3>2. CASE k # 5
      <4>1. k \in {1, 2, 3, 4}
        BY <3>2
      <4> QED BY <2>1, <4>1, ResultBlocksAre, CommandsAre
    <3> QED BY <3>1, <3>2
  <2> QED BY <2>2, <2>3
<1>2. CASE b \in HookBlock
  <2>1. b.kind \in Kinds
    BY <1>2 DEF HookBlock, Block
  <2> QED BY <2>1 DEF Kinds
<1>3. CASE b = Block("text", FALSE, TRUE)
  BY <1>3 DEF Block
<1> QED BY <1>1, <1>2, <1>3 DEF Streamed

LEMMA GoodBlocksAre ==
  ASSUME NEW stream \in Seq(Streamed)
  PROVE  GoodBlocks(stream) \in Seq(Streamed)
<1> DEFINE S == {k \in DOMAIN stream : stream[k].ok}
<1>1. S \in SUBSET DOMAIN stream
  OBVIOUS
<1>2. Cardinality(S) \in Nat /\ Picked(stream, S) \in [1..Cardinality(S) -> Streamed]
  BY <1>1, PickedIs
<1> HIDE DEF S
<1>3. Picked(stream, S) \in Seq(Streamed)
  BY <1>2
<1> QED BY <1>3 DEF GoodBlocks, S

\* When all commands ran, their blocks are still there in their order after the blocks
\* that ended with an error are dropped.
LEMMA AllGood ==
  ASSUME hooks \in [1..5 -> Kinds]
  PROVE  \E q \in [1..5 -> DOMAIN GoodBlocks(Printed(5))] :
           /\ \A k \in 1..5 : GoodBlocks(Printed(5))[q[k]] = ResultBlock(k)
           /\ \A j, k \in 1..5 : j < k => q[j] < q[k]
<1> DEFINE stream == Printed(5)
           S == {k \in DOMAIN stream : stream[k].ok}
           good == Picked(stream, S)
<1>1. PICK p \in [1..5 -> DOMAIN stream] :
         /\ \A k \in 1..5 : stream[p[k]] = ResultBlock(k)
         /\ \A j, k \in 1..5 : j < k => p[j] < p[k]
  BY AllPrinted
<1>2. stream \in Seq(Answers \cup HookBlock)
  BY PrintedType
<1>3. S \in SUBSET DOMAIN stream
  OBVIOUS
<1>4. /\ IsFiniteSet(S) /\ S \in SUBSET Nat /\ Cardinality(S) \in Nat
      /\ good \in [1..Cardinality(S) -> Answers \cup HookBlock]
      /\ \A k \in 1..Cardinality(S) : good[k] = stream[InOrder(S)[k]]
  BY <1>2, <1>3, PickedIs
<1>5. \A k \in 1..5 : p[k] \in S
  <2>1. \A k \in 1..5 : stream[p[k]].ok /\ p[k] \in DOMAIN stream
    BY <1>1, ResultBlocksAre
  <2> QED BY <2>1
<1> HIDE DEF S, stream
<1> DEFINE q == [k \in 1..5 |-> Rank(S, p[k]) + 1]
<1>6. \A k \in 1..5 : q[k] \in 1..Cardinality(S) /\ InOrder(S)[q[k]] = p[k]
  BY <1>4, <1>5, Ordered
<1>7. \A k \in 1..5 : good[q[k]] = ResultBlock(k)
  BY <1>1, <1>4, <1>6
<1>8. ASSUME NEW j \in 1..5, NEW k \in 1..5, j < k PROVE q[j] < q[k]
  <2>1. p[j] < p[k] /\ p[j] \in S /\ p[k] \in S
    BY <1>1, <1>5, <1>8
  <2>2. Rank(S, p[j]) < Rank(S, p[k]) /\ Rank(S, p[j]) \in Nat /\ Rank(S, p[k]) \in Nat
    BY <2>1, <1>4, RankOrders, RankType
  <2> QED BY <2>2
<1>9. GoodBlocks(Printed(5)) = good
  BY DEF GoodBlocks, S, stream
<1>10. DOMAIN good = 1..Cardinality(S)
  BY <1>4
<1> HIDE DEF good
<1>11. q \in [1..5 -> DOMAIN good]
  BY <1>6, <1>10
<1> HIDE DEF q
<1> QED BY <1>7, <1>8, <1>9, <1>11

\* What the capture takes for its results.
LEMMA SelectedIs ==
  ASSUME NEW blocks \in Seq(Streamed), NEW k \in 1..5, Selected(blocks)[k] # 0
  PROVE  /\ Selected(blocks)[k] \in DOMAIN blocks
         /\ k # 5 => blocks[Selected(blocks)[k]].own
         /\ k = 5 => (blocks[Selected(blocks)[k]].kind = "C" => saved.clients)
<1> DEFINE s == BlockAfter(blocks, 0, "S")
           w == BlockAfter(blocks, s, "W")
           p == BlockAfter(blocks, w, "P")
           m == BlockAfter(blocks, p, "M")
           c == BlockAfter(blocks, m, "C")
           e == BlockAfter(blocks, m, "empty")
<1>1. s \in Nat /\ (s # 0 => s \in DOMAIN blocks /\ blocks[s].kind = "S")
  BY BlockAfterIs
<1>2. w \in Nat /\ (w # 0 => w \in DOMAIN blocks /\ blocks[w].kind = "W")
  <2> HIDE DEF s
  <2> QED BY <1>1, BlockAfterIs
<1>3. p \in Nat /\ (p # 0 => p \in DOMAIN blocks /\ blocks[p].kind = "P")
  <2> HIDE DEF w
  <2> QED BY <1>2, BlockAfterIs
<1>4. m \in Nat /\ (m # 0 => m \in DOMAIN blocks /\ blocks[m].kind = "M")
  <2> HIDE DEF p
  <2> QED BY <1>3, BlockAfterIs
<1>5. /\ c \in Nat /\ (c # 0 => c \in DOMAIN blocks)
      /\ e \in Nat /\ (e # 0 => e \in DOMAIN blocks)
  <2> HIDE DEF m
  <2> QED BY <1>4, BlockAfterIs
<1>6. Selected(blocks) = <<s, w, p, m, IF c # 0 THEN c ELSE e>>
  BY DEF Selected
<1> HIDE DEF s, w, p, m, c, e
<1>7. /\ Selected(blocks)[1] = s /\ Selected(blocks)[2] = w /\ Selected(blocks)[3] = p
      /\ Selected(blocks)[4] = m /\ Selected(blocks)[5] = IF c # 0 THEN c ELSE e
  BY <1>6
<1>8. \A b \in DOMAIN blocks : blocks[b] \in Streamed
  OBVIOUS
<1>9. k \in {1, 2, 3, 4, 5}
  OBVIOUS
<1> HIDE DEF Streamed
<1>10. Selected(blocks)[k] \in DOMAIN blocks
  BY <1>1, <1>2, <1>3, <1>4, <1>5, <1>7, <1>9
<1>11. k # 5 => blocks[Selected(blocks)[k]].kind \in {"S", "W", "P", "M"}
  BY <1>1, <1>2, <1>3, <1>4, <1>7, <1>9
<1> QED BY <1>8, <1>10, <1>11, KindTells

\* When all commands ran, every result is found, and the clients are those there are.
LEMMA AllSelected ==
  ASSUME hooks \in [1..5 -> Kinds]
  PROVE  LET blocks == GoodBlocks(Printed(5))
         IN  /\ Len(blocks) >= 5
             /\ \A k \in 1..5 : Selected(blocks)[k] # 0
             /\ saved.clients => blocks[Selected(blocks)[5]].kind = "C"
<1> DEFINE blocks == GoodBlocks(Printed(5))
           s == BlockAfter(blocks, 0, "S")
           w == BlockAfter(blocks, s, "W")
           p == BlockAfter(blocks, w, "P")
           m == BlockAfter(blocks, p, "M")
           c == BlockAfter(blocks, m, "C")
           e == BlockAfter(blocks, m, "empty")
<1>1. PICK q \in [1..5 -> DOMAIN blocks] :
         /\ \A k \in 1..5 : blocks[q[k]] = ResultBlock(k)
         /\ \A j, k \in 1..5 : j < k => q[j] < q[k]
  BY AllGood
<1>2. blocks \in Seq(Streamed)
  <2>1. Printed(5) \in Seq(Answers \cup HookBlock)
    BY PrintedType
  <2>2. Answers \cup HookBlock \subseteq Streamed
    BY DEF Streamed
  <2> DEFINE A == Answers \cup HookBlock
  <2> HIDE DEF A, Streamed
  <2>3. Printed(5) \in Seq(Streamed)
    BY <2>1, <2>2 DEF A
  <2> QED BY <2>3, GoodBlocksAre
<1> HIDE DEF blocks
<1>3. Len(blocks) \in Nat /\ DOMAIN blocks = 1..Len(blocks)
  BY <1>2
<1>4. /\ q[1] \in DOMAIN blocks /\ q[2] \in DOMAIN blocks /\ q[3] \in DOMAIN blocks
      /\ q[4] \in DOMAIN blocks /\ q[5] \in DOMAIN blocks
      /\ q[1] < q[2] /\ q[2] < q[3] /\ q[3] < q[4] /\ q[4] < q[5]
  BY <1>1
<1>5. /\ blocks[q[1]].kind = "S" /\ blocks[q[2]].kind = "W" /\ blocks[q[3]].kind = "P"
      /\ blocks[q[4]].kind = "M"
      /\ blocks[q[5]].kind = IF saved.clients THEN "C" ELSE "empty"
  BY <1>1, ResultBlocksAre, CommandsAre
<1>6. Len(blocks) >= 5
  BY <1>3, <1>4
<1>7. s \in Nat /\ s # 0 /\ s <= q[1]
  <2>1. q[1] > 0
    BY <1>3, <1>4
  <2> QED BY <2>1, <1>2, <1>4, <1>5, BlockAfterIs
<1> HIDE DEF s
<1>8. w \in Nat /\ w # 0 /\ w <= q[2]
  <2>1. q[2] > s
    BY <1>3, <1>4, <1>7
  <2> QED BY <2>1, <1>2, <1>4, <1>5, <1>7, BlockAfterIs
<1> HIDE DEF w
<1>9. p \in Nat /\ p # 0 /\ p <= q[3]
  <2>1. q[3] > w
    BY <1>3, <1>4, <1>8
  <2> QED BY <2>1, <1>2, <1>4, <1>5, <1>8, BlockAfterIs
<1> HIDE DEF p
<1>10. m \in Nat /\ m # 0 /\ m <= q[4]
  <2>1. q[4] > p
    BY <1>3, <1>4, <1>9
  <2> QED BY <2>1, <1>2, <1>4, <1>5, <1>9, BlockAfterIs
<1> HIDE DEF m
<1>11. /\ saved.clients => c # 0 /\ blocks[c].kind = "C"
       /\ ~saved.clients => e # 0
  <2>1. q[5] > m
    BY <1>3, <1>4, <1>10
  <2> QED BY <2>1, <1>2, <1>4, <1>5, <1>10, BlockAfterIs
<1>12. Selected(blocks) = <<s, w, p, m, IF c # 0 THEN c ELSE e>>
  BY DEF Selected, s, w, p, m
<1> HIDE DEF c, e
<1>13. /\ Selected(blocks)[1] = s /\ Selected(blocks)[2] = w /\ Selected(blocks)[3] = p
       /\ Selected(blocks)[4] = m /\ Selected(blocks)[5] = IF c # 0 THEN c ELSE e
  BY <1>12
<1>14. \A k \in 1..5 : k \in {1, 2, 3, 4, 5}
  OBVIOUS
<1>15. \A k \in 1..5 : Selected(blocks)[k] # 0
  BY <1>7, <1>8, <1>9, <1>10, <1>11, <1>13, <1>14
<1>16. saved.clients => blocks[Selected(blocks)[5]].kind = "C"
  BY <1>11, <1>13
<1> QED BY <1>6, <1>15, <1>16 DEF blocks

-----------------------------------------------------------------------------
\* What is known of the server that is saved, and of how.
StartInv ==
    /\ IsServer(saved, PaneBaseMax)
    /\ way \in {"capture", "import", "damaged"}
    /\ hooks \in [1..5 -> Kinds]

Building == {Loops[k] : k \in DOMAIN Loops}

LEMMA LoopsAre ==
  /\ DOMAIN Loops = 1..9 /\ Len(Loops) = 9
  /\ Loops[1] = "sessions" /\ Loops[2] = "windows" /\ Loops[3] = "links"
  /\ Loops[4] = "placeholders" /\ Loops[5] = "members" /\ Loops[6] = "properties"
  /\ Loops[7] = "zoom" /\ Loops[8] = "selection" /\ Loops[9] = "done"
  /\ Building = {"sessions", "windows", "links", "placeholders", "members",
                 "properties", "zoom", "selection", "done"}
<1>1. Len(Loops) = 9
  BY DEF Loops
<1>2. DOMAIN Loops = 1..9
  BY DEF Loops
<1>3. /\ Loops[1] = "sessions" /\ Loops[2] = "windows" /\ Loops[3] = "links"
      /\ Loops[4] = "placeholders" /\ Loops[5] = "members" /\ Loops[6] = "properties"
      /\ Loops[7] = "zoom" /\ Loops[8] = "selection" /\ Loops[9] = "done"
  BY DEF Loops
<1>4. \A k : k \in 1..9 <=> k \in {1, 2, 3, 4, 5, 6, 7, 8, 9}
  OBVIOUS
<1>5. Building = {Loops[1], Loops[2], Loops[3], Loops[4], Loops[5], Loops[6], Loops[7],
                  Loops[8], Loops[9]}
  BY <1>2, <1>4 DEF Building
<1> QED BY <1>1, <1>2, <1>3, <1>5

\* The steps of the build leave what they build from alone.
Build ==
    \/ NextLoop \/ CreateSession \/ CreateWindow
    \/ \E w \in todo : LinkWindow(w)
    \/ \E n \in todo : KillPlaceholder(n)
    \/ CreateMember \/ RestoreProperties \/ RestoreZoom \/ RestoreSelection

LEMMA BuildSteps ==
  ASSUME Build
  PROVE  /\ UNCHANGED <<saved, way, hooks, ended, source, snap, options>>
         /\ phase \in Building /\ phase' \in Building \cup {"refused"}
<1> DEFINE Loop == {"sessions", "windows", "links", "placeholders", "members",
                    "properties", "zoom", "selection", "done"}
<1>1. ASSUME NextLoop
      PROVE  /\ UNCHANGED <<saved, way, hooks, ended, source, snap, options>>
             /\ phase \in Building /\ phase' \in Building
  <2>1. \E k \in 1..8 : phase = Loops[k] /\ phase' = Loops[k + 1]
    BY <1>1, LoopsAre DEF NextLoop
  <2>2. \A k \in 1..8 : k \in 1..9 /\ k + 1 \in 1..9
    OBVIOUS
  <2>3. phase \in Building /\ phase' \in Building
    BY <2>1, <2>2, LoopsAre DEF Building
  <2>4. UNCHANGED <<saved, way, hooks, ended, source, snap, options>>
    BY <1>1 DEF NextLoop
  <2> QED BY <2>3, <2>4
<1>2. ASSUME NEW loop \in Loop, NEW i, NEW problem, Pass(loop, i, problem)
      PROVE  /\ UNCHANGED <<saved, way, hooks, ended, source, snap, options>>
             /\ phase \in Building /\ phase' \in Building \cup {"refused"}
  BY <1>2, LoopsAre DEF Pass
<1>3. \/ NextLoop
      \/ \E loop \in Loop : \E i, problem : Pass(loop, i, problem)
  BY DEF Build, CreateSession, CreateWindow, LinkWindow, KillPlaceholder, CreateMember,
         RestoreProperties, RestoreZoom, RestoreSelection
<1> QED BY <1>1, <1>2, <1>3

LEMMA NextIs == Next <=> Capture \/ Import \/ Preflight \/ Build
BY DEF Next, Build

\* What the program did by now, apart from the build.
CaptureInv ==
    /\ phase = "running" =>
         /\ ended = "open" /\ source = <<>>
         /\ sess = <<>> /\ wins = <<>> /\ why = "none"
    /\ HooksDoNoHarm

LEMMA CaptureStep ==
  ASSUME StartInv, CaptureInv, Capture
  PROVE  HooksDoNoHarm' /\ phase' # "running"
<1>1. PICK n \in 0..Len(Commands), ends \in {"exit", "error", "death"} :
         LET stream == IF ends = "error"
                       THEN Append(Printed(n), Block("text", FALSE, TRUE))
                       ELSE Printed(n)
             blocks == GoodBlocks(stream)
             picked == Selected(blocks)
         IN  /\ ends = "exit" <=> n = Len(Commands)
             /\ ended' = ends
             /\ IF /\ OneShot(stream, ends # "death", Len(Commands)) = "ok"
                   /\ \A k \in DOMAIN picked : picked[k] # 0
                THEN /\ source' = [k \in DOMAIN picked |-> blocks[picked[k]]]
                     /\ snap' = Graph(saved, blocks[picked[5]].kind = "C")
                     /\ phase' = IF Valid(snap') THEN "captured" ELSE "invalid"
                ELSE /\ phase' = "no capture"
                     /\ UNCHANGED <<source, snap>>
  BY DEF Capture
<1> DEFINE stream == IF ends = "error"
                     THEN Append(Printed(n), Block("text", FALSE, TRUE))
                     ELSE Printed(n)
           blocks == GoodBlocks(stream)
           picked == Selected(blocks)
           taken == /\ OneShot(stream, ends # "death", Len(Commands)) = "ok"
                    /\ \A k \in DOMAIN picked : picked[k] # 0
<1>2. /\ n \in 0..5 /\ (ends = "exit" <=> n = 5) /\ ended' = ends
      /\ taken => /\ source' = [k \in DOMAIN picked |-> blocks[picked[k]]]
                  /\ snap' = Graph(saved, blocks[picked[5]].kind = "C")
                  /\ phase' = IF Valid(snap') THEN "captured" ELSE "invalid"
      /\ ~taken => phase' = "no capture" /\ UNCHANGED <<source, snap>>
  BY <1>1, CommandsAre
<1>3. hooks \in [1..5 -> Kinds] /\ saved' = saved /\ source = <<>>
  BY DEF StartInv, CaptureInv, Capture
<1>4. stream \in Seq(Streamed)
  <2> DEFINE A == Answers \cup HookBlock
             error == Block("text", FALSE, TRUE)
  <2>1. Printed(n) \in Seq(A)
    BY <1>2, <1>3, PrintedType
  <2>2. A \subseteq Streamed /\ error \in Streamed
    BY DEF Streamed
  <2> HIDE DEF A, Streamed, error
  <2>3. Printed(n) \in Seq(Streamed)
    BY <2>1, <2>2
  <2>4. Append(Printed(n), error) \in Seq(Streamed)
    BY <2>2, <2>3
  <2> QED BY <2>3, <2>4 DEF error
<1>5. blocks \in Seq(Streamed)
  BY <1>4, GoodBlocksAre
<1>6. DOMAIN picked = 1..5
  <2>1. \E s, w, p, m, x : picked = <<s, w, p, m, x>>
    BY ZenonT(30) DEF Selected
  <2> HIDE DEF picked
  <2> QED BY <2>1
<1>7. ends = "exit" => taken /\ (saved.clients => blocks[picked[5]].kind = "C")
  <2> SUFFICES ASSUME ends = "exit" PROVE taken /\ (saved.clients => blocks[picked[5]].kind = "C")
    OBVIOUS
  <2>1. stream = Printed(5)
    BY <1>2
  <2>2. /\ Len(blocks) >= 5 /\ \A k \in 1..5 : picked[k] # 0
        /\ saved.clients => blocks[picked[5]].kind = "C"
    BY <1>3, <2>1, AllSelected
  <2>3. ~(Len(blocks) < 5)
    <3>1. Len(blocks) \in Nat
      <4> HIDE DEF blocks
      <4> QED BY <1>5
    <3> QED BY <2>2, <3>1
  <2>4. OneShot(stream, ends # "death", Len(Commands)) = "ok"
    BY <2>3, CommandsAre DEF OneShot
  <2> QED BY <2>2, <2>4, <1>6
<1> HIDE DEF stream, taken
<1>8. CASE ~taken
  <2>1. ends # "exit" /\ source' = <<>> /\ phase' = "no capture"
    BY <1>2, <1>3, <1>7, <1>8
  <2> QED BY <1>2, <2>1 DEF HooksDoNoHarm
<1>9. CASE taken
  <2>1. \A k \in 1..5 : picked[k] # 0
    BY <1>6, <1>9 DEF taken
  <2>2. \A k \in 1..4 : blocks[picked[k]].own
    <3> TAKE k \in 1..4
    <3>1. k \in 1..5 /\ k # 5
      OBVIOUS
    <3> QED BY <1>5, <2>1, <3>1, SelectedIs
  <2>3. blocks[picked[5]].kind = "C" => saved.clients
    BY <1>5, <2>1, SelectedIs
  <2> HIDE DEF picked, blocks
  <2>4. /\ source' = [k \in 1..5 |-> blocks[picked[k]]]
        /\ snap' = Graph(saved, blocks[picked[5]].kind = "C")
        /\ phase' \in {"captured", "invalid"}
    BY <1>2, <1>6, <1>9
  <2>5. \A k \in 1..4 : source'[k].own
    <3> TAKE k \in 1..4
    <3>1. k \in 1..5
      OBVIOUS
    <3>2. source'[k] = blocks[picked[k]]
      BY <2>4, <3>1
    <3> QED BY <2>2, <3>2
  <2>6. snap'.clients = (blocks[picked[5]].kind = "C")
    BY <2>4 DEF Graph
  <2>7. saved.clients \in BOOLEAN
    BY DEF StartInv, IsServer
  <2>8. ends = "exit" => snap'.clients = saved'.clients
    <3>1. ASSUME ends = "exit" PROVE snap'.clients = saved.clients
      <4>1. CASE saved.clients = TRUE
        BY <1>7, <2>6, <3>1, <4>1
      <4>2. CASE saved.clients = FALSE
        BY <2>3, <2>6, <4>2
      <4> QED BY <2>7, <4>1, <4>2
    <3> QED BY <3>1, <1>3
  <2>9. ended' = "exit" => ends = "exit"
    BY <1>2
  <2> QED BY <2>4, <2>5, <2>8, <2>9 DEF HooksDoNoHarm
<1>10. phase' # "running"
  BY <1>2 DEF taken
<1> QED BY <1>8, <1>9, <1>10

LEMMA StartHolds == Init => StartInv /\ CaptureInv
<1> SUFFICES ASSUME Init PROVE StartInv /\ CaptureInv
  OBVIOUS
<1>1. PICK start \in Starts : saved = start.server /\ way = start.way /\ hooks = start.hooks
  BY DEF Init
<1>2. StartInv
  BY <1>1, RoundTripAssumption, CommandsAre DEF StartInv, RoundTripAssumption, Kinds
<1>3. CaptureInv
  BY DEF Init, CaptureInv, HooksDoNoHarm
<1> QED BY <1>2, <1>3

LEMMA CaptureInvStep ==
  ASSUME StartInv, CaptureInv, [Next]_vars
  PROVE  StartInv' /\ CaptureInv'
<1>1. CASE UNCHANGED vars
  BY <1>1 DEF vars, StartInv, CaptureInv, HooksDoNoHarm, live
<1>2. ASSUME Next PROVE saved' = saved /\ way' = way /\ hooks' = hooks
  <2>1. CASE Build
    BY <2>1, BuildSteps
  <2>2. CASE Capture \/ Import \/ Preflight
    BY <2>2 DEF Capture, Import, Preflight
  <2> QED BY <1>2, <2>1, <2>2, NextIs
<1>3. ASSUME Next PROVE StartInv'
  BY <1>2, <1>3 DEF StartInv
<1>4. CASE Capture
  BY <1>4, <1>3, CaptureStep, NextIs DEF CaptureInv
<1>5. CASE Import
  <2>1. /\ phase = "running" /\ phase' \in {"no capture", "captured", "invalid"}
        /\ ended' = ended /\ source' = source
    BY <1>5 DEF Import
  <2>2. ended' = "open" /\ source' = <<>>
    BY <2>1 DEF CaptureInv
  <2> QED BY <1>3, <1>5, <2>1, <2>2, NextIs DEF CaptureInv, HooksDoNoHarm
<1>6. CASE Preflight
  <2>1. /\ phase' \in {"sessions", "rejected"}
        /\ ended' = ended /\ source' = source /\ snap' = snap /\ saved' = saved
    BY <1>6 DEF Preflight
  <2> QED BY <1>3, <1>6, <2>1, NextIs DEF CaptureInv, HooksDoNoHarm
<1>7. CASE Build
  <2>1. /\ phase' # "running" /\ phase' # "no capture"
        /\ ended' = ended /\ source' = source /\ snap' = snap /\ saved' = saved
    BY <1>7, BuildSteps, LoopsAre
  <2> QED BY <1>3, <1>7, <2>1, NextIs DEF CaptureInv, HooksDoNoHarm
<1> QED BY <1>1, <1>4, <1>5, <1>6, <1>7, NextIs

\* Whatever hooks print behind the commands of a capture (select_capture_blocks and
\* parse_one_shot_output), a capture whose five commands succeeded is not lost, what it
\* takes for its results are its results, and the clients are those there are.
THEOREM HooksHarmless == Spec => []HooksDoNoHarm
<1>1. Init => StartInv /\ CaptureInv
  BY StartHolds
<1>2. StartInv /\ CaptureInv /\ [Next]_vars => StartInv' /\ CaptureInv'
  BY CaptureInvStep
<1>3. CaptureInv => HooksDoNoHarm
  BY DEF CaptureInv
<1> QED BY <1>1, <1>2, <1>3, PTL DEF Spec

-----------------------------------------------------------------------------
LinkType == [window : Nat, index : Nat]
SessionType ==
    [name : Nat, group : Nat, windows : Seq(LinkType), active : Nat, last : Nat]
WindowType ==
    [what : Nat, panes : Seq([index : Nat, dead : BOOLEAN]), rows : Nat, layout : Nat,
     active : Nat, zoomed : BOOLEAN]

IsSnapshot(state) ==
    /\ state.sessions \in Seq(SessionType) /\ state.windows \in Seq(WindowType)
    /\ \A w \in DOMAIN state.windows :
         state.windows[w].panes # <<>> =>
             state.windows[w].active \in DOMAIN state.windows[w].panes

LEMMA Injective ==
  ASSUME NEW n \in Nat, NEW f, f = [k \in 1..n |-> f[k]],
         NEW T, T = {f[k] : k \in 1..n}
  PROVE  /\ IsFiniteSet(T)
         /\ Cardinality(T) = n => \A j, k \in 1..n : f[j] = f[k] => j = k
         /\ (\A j, k \in 1..n : f[j] = f[k] => j = k) => Cardinality(T) = n
<1>1. IsFiniteSet(1..n) /\ Cardinality(1..n) = n
  BY FS_Interval
<1>2. f \in [1..n -> T]
  <2>1. \A k \in 1..n : f[k] \in T
    OBVIOUS
  <2> QED BY <2>1
<1>3. f \in Surjection(1..n, T)
  <2>1. \A t \in T : \E k \in 1..n : f[k] = t
    OBVIOUS
  <2> QED BY <1>2, <2>1 DEF Surjection
<1>4. IsFiniteSet(T) /\ (Cardinality(T) = n <=> f \in Injection(1..n, T))
  BY <1>1, <1>3, FS_Surjection
<1>5. f \in Injection(1..n, T) <=> \A j, k \in 1..n : f[j] = f[k] => j = k
  BY <1>2 DEF Injection, IsInjective
<1> QED BY <1>4, <1>5

\* The links of a session that passed validation: each window once, each index once.
LEMMA SessionLinks ==
  ASSUME NEW s \in SessionType, NEW state, SessionValid(s, state)
  PROVE  /\ IsFiniteSet(LinkedTo(s)) /\ LinkedTo(s) \in SUBSET Nat
         /\ IsFiniteSet(UsedIndexes(s)) /\ UsedIndexes(s) \in SUBSET Nat
         /\ \A j, k \in DOMAIN s.windows :
              /\ s.windows[j].window = s.windows[k].window => j = k
              /\ s.windows[j].index = s.windows[k].index => j = k
<1>1. s.windows \in Seq(LinkType)
  BY DEF SessionType
<1> DEFINE n == Len(s.windows)
           f == [k \in 1..n |-> s.windows[k].window]
           g == [k \in 1..n |-> s.windows[k].index]
<1>2. n \in Nat /\ DOMAIN s.windows = 1..n
  BY <1>1
<1>3. \A k \in 1..n : s.windows[k].window \in Nat /\ s.windows[k].index \in Nat
  <2>1. \A k \in 1..n : s.windows[k] \in LinkType
    BY <1>1, <1>2
  <2>2. \A l \in LinkType : l.window \in Nat /\ l.index \in Nat
    BY DEF LinkType
  <2> QED BY <2>1, <2>2
<1> HIDE DEF n
<1>4. /\ LinkedTo(s) = {f[k] : k \in 1..n} /\ UsedIndexes(s) = {g[k] : k \in 1..n}
      /\ f = [k \in 1..n |-> f[k]] /\ g = [k \in 1..n |-> g[k]]
      /\ \A k \in 1..n : f[k] = s.windows[k].window /\ g[k] = s.windows[k].index
  BY <1>2 DEF LinkedTo, UsedIndexes
<1>5. Cardinality(LinkedTo(s)) = n /\ Cardinality(UsedIndexes(s)) = n
  BY DEF SessionValid, n
<1> HIDE DEF f, g
<1>6. IsFiniteSet(LinkedTo(s)) /\ \A j, k \in 1..n : f[j] = f[k] => j = k
  BY <1>2, <1>4, <1>5, Injective
<1>7. IsFiniteSet(UsedIndexes(s)) /\ \A j, k \in 1..n : g[j] = g[k] => j = k
  BY <1>2, <1>4, <1>5, Injective
<1>8. LinkedTo(s) \in SUBSET Nat /\ UsedIndexes(s) \in SUBSET Nat
  BY <1>3, <1>4
<1> QED BY <1>2, <1>4, <1>6, <1>7, <1>8

LEMMA WhereIs ==
  ASSUME NEW s \in SessionType, NEW state, SessionValid(s, state), NEW k \in DOMAIN s.windows
  PROVE  Where(s, s.windows[k].window) = s.windows[k].index
<1> DEFINE w == s.windows[k].window
           I == {i \in 1..Len(s.windows) : s.windows[i].window = w}
<1>1. DOMAIN s.windows = 1..Len(s.windows)
  BY DEF SessionType
<1>2. I = {k}
  BY <1>1, SessionLinks
<1>3. SelectInSeq(s.windows, LAMBDA l : l.window = w) = IF I # {} THEN Min(I) ELSE 0
  BY DEF SelectInSeq
<1>4. Min({k}) = k
  <2>1. k \in Nat
    BY <1>1
  <2> QED BY <2>1, Least
<1> HIDE DEF I
<1>5. SelectInSeq(s.windows, LAMBDA l : l.window = w) = k
  BY <1>2, <1>3, <1>4
<1> HIDE DEF w
<1> QED BY <1>5 DEF Where, w

\* A snapshot that can be restored.
Fit == IsSnapshot(snap) /\ Valid(snap) /\ Restorable(snap)

LinkedIn(n) == LinkedTo(snap.sessions[n])
UsedIn(n) == UsedIndexes(snap.sessions[n])

LEMMA FitSessions ==
  ASSUME Fit
  PROVE  /\ Sessions = 1..Len(snap.sessions) /\ Len(snap.sessions) \in Nat \ {0}
         /\ \A n \in Sessions : /\ snap.sessions[n] \in SessionType
                                /\ SessionValid(snap.sessions[n], snap)
                                /\ snap.sessions[n].windows # <<>>
<1>1. snap.sessions \in Seq(SessionType) /\ snap.sessions # <<>>
  BY DEF Fit, IsSnapshot, Restorable
<1>2. \A n \in DOMAIN snap.sessions : snap.sessions[n] \in SessionType
  BY <1>1
<1>3. DOMAIN snap.sessions = 1..Len(snap.sessions) /\ Len(snap.sessions) \in Nat \ {0}
  BY <1>1
<1>4. \A n \in DOMAIN snap.sessions : /\ SessionValid(snap.sessions[n], snap)
                                      /\ snap.sessions[n].windows # <<>>
  BY DEF Fit, Valid, Restorable
<1> QED BY <1>2, <1>3, <1>4 DEF Sessions

LEMMA FitWindows ==
  ASSUME Fit
  PROVE  /\ Windows = 1..Len(snap.windows) /\ Len(snap.windows) \in Nat
         /\ \A w \in Windows :
              /\ snap.windows[w] \in WindowType
              /\ snap.windows[w].panes # <<>>
              /\ snap.windows[w].active \in DOMAIN snap.windows[w].panes
<1>1. snap.windows \in Seq(WindowType)
  BY DEF Fit, IsSnapshot
<1>2. \A w \in DOMAIN snap.windows : snap.windows[w] \in WindowType
  BY <1>1
<1>3. DOMAIN snap.windows = 1..Len(snap.windows) /\ Len(snap.windows) \in Nat
  BY <1>1
<1>4. \A w \in DOMAIN snap.windows : snap.windows[w].panes # <<>>
  BY DEF Fit, Restorable
<1>5. \A w \in DOMAIN snap.windows :
         snap.windows[w].active \in DOMAIN snap.windows[w].panes
  BY <1>4 DEF Fit, IsSnapshot
<1> QED BY <1>2, <1>3, <1>4, <1>5 DEF Windows

LEMMA PrimaryIs ==
  ASSUME Fit, NEW n \in Sessions
  PROVE  /\ PrimaryOf(n) \in Sessions /\ PrimaryOf(n) <= n
         /\ PrimaryOf(PrimaryOf(n)) = PrimaryOf(n)
         /\ \A m \in Sessions : m # n =>
              (PrimaryOf(m) = PrimaryOf(n)
                 <=> /\ snap.sessions[m].group # 0
                     /\ snap.sessions[m].group = snap.sessions[n].group)
<1> DEFINE G(m) == snap.sessions[m].group
           Members(g) == {m \in Sessions : G(m) = g}
<1>1. Sessions \in SUBSET Nat
  BY FitSessions
<1>2. \A m \in Sessions : PrimaryOf(m) = IF G(m) = 0 THEN m ELSE Min(Members(G(m)))
  BY DEF PrimaryOf, Primary, Sessions
<1>3. \A m \in Sessions : /\ Min(Members(G(m))) \in Members(G(m))
                          /\ Min(Members(G(m))) <= m
  <2> TAKE m \in Sessions
  <2>1. m \in Members(G(m)) /\ Members(G(m)) \in SUBSET Nat
    BY <1>1
  <2> HIDE DEF Members
  <2> QED BY <2>1, Least
<1>4. \A m \in Sessions : PrimaryOf(m) \in Sessions /\ PrimaryOf(m) <= m
                          /\ G(PrimaryOf(m)) = G(m)
  <2> TAKE m \in Sessions
  <2>1. CASE G(m) = 0
    <3>1. PrimaryOf(m) = m /\ m \in Nat
      BY <1>1, <1>2, <2>1
    <3> QED BY <3>1
  <2>2. CASE G(m) # 0
    BY <1>2, <1>3, <2>2
  <2> QED BY <2>1, <2>2
<1>5. PrimaryOf(PrimaryOf(n)) = PrimaryOf(n)
  <2>1. /\ PrimaryOf(n) \in Sessions /\ G(PrimaryOf(n)) = G(n)
        /\ PrimaryOf(n) = IF G(n) = 0 THEN n ELSE Min(Members(G(n)))
    BY <1>2, <1>4
  <2>2. PrimaryOf(PrimaryOf(n)) = IF G(PrimaryOf(n)) = 0 THEN PrimaryOf(n)
                                  ELSE Min(Members(G(PrimaryOf(n))))
    BY <1>2, <2>1
  <2> HIDE DEF G, Members
  <2>3. CASE G(n) = 0
    BY <2>1, <2>2, <2>3
  <2>4. CASE G(n) # 0
    BY <2>1, <2>2, <2>4
  <2> QED BY <2>3, <2>4
<1>6. ASSUME NEW m \in Sessions, m # n
      PROVE  PrimaryOf(m) = PrimaryOf(n) <=> G(m) # 0 /\ G(m) = G(n)
  <2>1. G(m) # 0 /\ G(m) = G(n) => PrimaryOf(m) = PrimaryOf(n)
    BY <1>2
  <2>2. PrimaryOf(m) = PrimaryOf(n) => G(m) = G(n)
    BY <1>4
  <2>3. G(m) = 0 /\ G(n) = 0 => PrimaryOf(m) # PrimaryOf(n)
    BY <1>2, <1>6
  <2> QED BY <2>1, <2>2, <2>3
<1> QED BY <1>4, <1>5, <1>6

\* The windows of a session and their indexes; members of a group have the same.
LEMMA LinkedIs ==
  ASSUME Fit, NEW n \in Sessions
  PROVE  /\ LinkedIn(n) # {} /\ LinkedIn(n) \in SUBSET Windows
         /\ IsFiniteSet(UsedIn(n)) /\ UsedIn(n) \in SUBSET Nat
         /\ \A w \in LinkedIn(n) : IndexIn(n, w) \in UsedIn(n)
         /\ \A w, v \in LinkedIn(n) : IndexIn(n, w) = IndexIn(n, v) => w = v
         /\ \A i \in UsedIn(n) : \E w \in LinkedIn(n) : IndexIn(n, w) = i
<1> DEFINE s == snap.sessions[n]
           D == DOMAIN s.windows
<1>1. s \in SessionType /\ SessionValid(s, snap) /\ s.windows # <<>>
  BY FitSessions
<1>2. D # {}
  <2>1. s.windows \in Seq(LinkType) /\ s.windows # <<>>
    BY <1>1 DEF SessionType
  <2> HIDE DEF s
  <2>2. Len(s.windows) # 0 /\ Len(s.windows) \in Nat
    BY <2>1, EmptySeq
  <2>3. 1 \in DOMAIN s.windows
    BY <2>1, <2>2
  <2> QED BY <2>3
<1>3. \A k \in D : Where(s, s.windows[k].window) = s.windows[k].index
  BY <1>1, WhereIs
<1>4. /\ IsFiniteSet(UsedIndexes(s)) /\ UsedIndexes(s) \in SUBSET Nat
      /\ \A j, k \in D : /\ s.windows[j].window = s.windows[k].window => j = k
                         /\ s.windows[j].index = s.windows[k].index => j = k
  BY <1>1, SessionLinks
<1>5. LinkedTo(s) \in SUBSET Windows
  BY <1>1 DEF LinkedTo, SessionValid, Windows
<1>6. /\ LinkedTo(s) = {s.windows[k].window : k \in D}
      /\ UsedIndexes(s) = {s.windows[k].index : k \in D}
      /\ \A w : IndexIn(n, w) = Where(s, w)
  BY DEF LinkedTo, UsedIndexes, IndexIn
<1> HIDE DEF s, D
<1>7. LinkedTo(s) # {}
  BY <1>2, <1>6, ZenonT(30)
<1>8. \A w \in LinkedTo(s) : IndexIn(n, w) \in UsedIndexes(s)
  BY <1>3, <1>6
<1>9. \A w, v \in LinkedTo(s) : IndexIn(n, w) = IndexIn(n, v) => w = v
  BY <1>3, <1>4, <1>6
<1>10. \A i \in UsedIndexes(s) : \E w \in LinkedTo(s) : IndexIn(n, w) = i
  BY <1>3, <1>6
<1> QED BY <1>4, <1>5, <1>7, <1>8, <1>9, <1>10 DEF LinkedIn, UsedIn, s

LEMMA GroupShares ==
  ASSUME Fit, NEW n \in Sessions
  PROVE  /\ LinkedIn(n) = LinkedIn(PrimaryOf(n)) /\ UsedIn(n) = UsedIn(PrimaryOf(n))
         /\ \A w \in LinkedIn(n) : IndexIn(n, w) = IndexIn(PrimaryOf(n), w)
<1> DEFINE p == PrimaryOf(n)
           s == snap.sessions[n]
           t == snap.sessions[p]
<1>1. p \in Sessions
  BY PrimaryIs
<1>2. Links(s) = Links(t)
  BY DEF Fit, Restorable, PrimaryOf, Sessions
<1>3. /\ s \in SessionType /\ SessionValid(s, snap)
      /\ t \in SessionType /\ SessionValid(t, snap)
  BY <1>1, FitSessions
<1>4. /\ LinkedTo(s) = {l.window : l \in Links(s)} /\ LinkedTo(t) = {l.window : l \in Links(t)}
      /\ UsedIndexes(s) = {l.index : l \in Links(s)} /\ UsedIndexes(t) = {l.index : l \in Links(t)}
  BY DEF LinkedTo, UsedIndexes, Links
<1>5. /\ \A l \in Links(s) : Where(s, l.window) = l.index
      /\ \A l \in Links(t) : Where(t, l.window) = l.index
  <2>1. \A k \in DOMAIN s.windows : Where(s, s.windows[k].window) = s.windows[k].index
    BY <1>3, WhereIs
  <2>2. \A k \in DOMAIN t.windows : Where(t, t.windows[k].window) = t.windows[k].index
    BY <1>3, WhereIs
  <2> QED BY <2>1, <2>2 DEF Links
<1>6. \A w : IndexIn(n, w) = Where(s, w) /\ IndexIn(p, w) = Where(t, w)
  BY DEF IndexIn
<1> HIDE DEF s, t, p
<1>7. \A w \in LinkedTo(s) : IndexIn(n, w) = IndexIn(p, w)
  BY <1>2, <1>4, <1>5, <1>6
<1> QED BY <1>2, <1>4, <1>7 DEF LinkedIn, UsedIn, s, t, p

LEMMA OwnerIs ==
  ASSUME Fit, NEW w \in Windows
  PROVE  /\ Owner(w) \in Sessions /\ w \in LinkedIn(Owner(w))
         /\ PrimaryOf(Owner(w)) = Owner(w)
<1>1. \E n \in Sessions : w \in LinkedTo(snap.sessions[n])
  BY DEF Fit, Valid, Sessions, Windows
<1>2. Owners(w) # {} /\ Owners(w) \in SUBSET Nat /\ Owners(w) \subseteq Sessions
  BY <1>1, FitSessions DEF Owners
<1>3. Owner(w) \in Owners(w) /\ \A n \in Owners(w) : Owner(w) <= n
  BY <1>2, Least DEF Owner
<1>4. Owner(w) \in Sessions /\ w \in LinkedIn(Owner(w))
  BY <1>3 DEF Owners, LinkedIn
<1>5. /\ PrimaryOf(Owner(w)) \in Sessions /\ PrimaryOf(Owner(w)) <= Owner(w)
      /\ w \in LinkedIn(PrimaryOf(Owner(w)))
  BY <1>4, PrimaryIs, GroupShares
<1>6. PrimaryOf(Owner(w)) \in Owners(w)
  BY <1>5 DEF Owners, LinkedIn
<1>7. Owner(w) <= PrimaryOf(Owner(w))
  BY <1>3, <1>6
<1>8. Owner(w) \in Nat /\ PrimaryOf(Owner(w)) \in Nat
  BY <1>2, <1>3, <1>6
<1> QED BY <1>4, <1>5, <1>7, <1>8

LEMMA LinkersAre ==
  ASSUME Fit, NEW w \in Windows
  PROVE  Linkers(w) = {n \in Sessions : /\ PrimaryOf(n) = n /\ w \in LinkedIn(n)
                                        /\ n # Owner(w)}
<1>1. Owners(w) = {n \in Sessions : w \in LinkedIn(n)} /\ Sessions \in SUBSET Nat
  BY FitSessions DEF Owners, LinkedIn
<1>2. ASSUME NEW n \in Owners(w)
      PROVE  /\ PrimaryOf(n) = Min({m \in Owners(w) : PrimaryOf(m) = PrimaryOf(n)})
             /\ n \in Sessions
  <2> DEFINE S == {m \in Owners(w) : PrimaryOf(m) = PrimaryOf(n)}
  <2>1. n \in Sessions /\ PrimaryOf(n) \in Sessions /\ w \in LinkedIn(PrimaryOf(n))
    BY <1>1, PrimaryIs, GroupShares
  <2>2. PrimaryOf(n) \in S
    BY <1>1, <2>1, PrimaryIs
  <2>3. \A m \in S : PrimaryOf(n) <= m /\ m \in Nat
    <3>1. \A m \in S : m \in Sessions /\ PrimaryOf(m) = PrimaryOf(n)
      BY <1>1
    <3>2. \A m \in Sessions : PrimaryOf(m) <= m
      BY PrimaryIs
    <3> HIDE DEF S
    <3> QED BY <1>1, <3>1, <3>2
  <2>4. S \in SUBSET Nat /\ PrimaryOf(n) \in Nat
    BY <2>2, <2>3
  <2> HIDE DEF S
  <2>5. Min(S) \in S /\ Min(S) <= PrimaryOf(n) /\ PrimaryOf(n) <= Min(S)
    BY <2>2, <2>3, <2>4, Least
  <2>6. Min(S) = PrimaryOf(n)
    <3>1. Min(S) \in Nat
      BY <2>4, <2>5, Zenon
    <3> QED BY <2>4, <2>5, <3>1
  <2> QED BY <2>1, <2>6 DEF S
<1>3. PrimaryOf(Owner(w)) = Owner(w)
  BY OwnerIs
<1> QED BY <1>1, <1>2, <1>3 DEF Linkers

LEMMA PlaceholderIs ==
  ASSUME Fit
  PROVE  PlaceholderIndex \in Nat /\ \A n \in Sessions : PlaceholderIndex \notin UsedIn(n)
<1> DEFINE C == Cardinality(Used)
           free == (0..(C + 1)) \ Used
           all == {UsedIn(n) : n \in Sessions}
<1>1. Used = UNION all
  BY DEF Used, UsedIn
<1>2. IsFiniteSet(all)
  <2> DEFINE f == [n \in Sessions |-> UsedIn(n)]
  <2>1. Sessions = 1..Len(snap.sessions) /\ Len(snap.sessions) \in Nat
    BY FitSessions
  <2>2. f = [n \in 1..Len(snap.sessions) |-> f[n]]
        /\ all = {f[n] : n \in 1..Len(snap.sessions)}
    BY <2>1
  <2> HIDE DEF f, all
  <2> QED BY <2>1, <2>2, Injective
<1>3. \A U \in all : IsFiniteSet(U)
  BY LinkedIs
<1> HIDE DEF all
<1>4. IsFiniteSet(Used) /\ C \in Nat
  <2>1. IsFiniteSet(Used)
    BY <1>1, <1>2, <1>3, FS_UNION
  <2> QED BY <2>1, FS_CardinalityType
<1>5. free # {}
  <2> SUFFICES ASSUME free = {} PROVE FALSE
    OBVIOUS
  <2>1. 0..(C + 1) \in SUBSET Used
    OBVIOUS
  <2>2. Cardinality(0..(C + 1)) = C + 2
    <3>1. 0 \in Int /\ C + 1 \in Int /\ ~(0 > C + 1) /\ C + 1 - 0 + 1 = C + 2
      BY <1>4
    <3> HIDE DEF C
    <3> QED BY <3>1, FS_Interval
  <2>3. Cardinality(0..(C + 1)) <= C
    BY <1>4, <2>1, FS_Subset
  <2> QED BY <1>4, <2>2, <2>3
<1>6. free \in SUBSET Nat
  BY <1>4
<1>7. PlaceholderIndex = Min(free)
  BY DEF PlaceholderIndex
<1>8. PlaceholderIndex \in free
  <2> HIDE DEF free
  <2> QED BY <1>5, <1>6, <1>7, Least
<1>9. PlaceholderIndex \in Nat /\ PlaceholderIndex \notin Used
  BY <1>6, <1>8
<1> QED BY <1>9 DEF Used, UsedIn

-----------------------------------------------------------------------------
LEMMA ServerIs ==
  ASSUME NEW server, IsServer(server, PaneBaseMax)
  PROVE  /\ DOMAIN server.sessions = 1..Len(server.sessions)
         /\ Len(server.sessions) \in Nat \ {0}
         /\ DOMAIN server.windows = 1..Len(server.windows) /\ Len(server.windows) \in Nat
         /\ \A n \in DOMAIN server.sessions : IsSession(server.sessions[n], server)
         /\ \A w \in DOMAIN server.windows : IsWindow(server.windows[w], PaneBaseMax)
<1> DEFINE ss == server.sessions
           ws == server.windows
           S == {ss[n] : n \in DOMAIN ss}
           W == {ws[w] : w \in DOMAIN ws}
<1>1. ss # <<>> /\ ss \in Seq(S) /\ ws \in Seq(W)
  BY DEF IsServer
<1>2. \A n \in DOMAIN ss : IsSession(ss[n], server)
  BY DEF IsServer
<1>3. \A w \in DOMAIN ws : IsWindow(ws[w], PaneBaseMax)
  BY DEF IsServer
<1> HIDE DEF S, W, ss, ws
<1>4. Len(ss) \in Nat \ {0} /\ DOMAIN ss = 1..Len(ss) /\ Len(ws) \in Nat /\ DOMAIN ws = 1..Len(ws)
  BY <1>1, EmptySeq
<1> QED BY <1>2, <1>3, <1>4 DEF ss, ws

\* The indexes where the windows of a session are linked first.
FirstLinks(s) ==
    {i \in Indexes(s) : \A j \in Indexes(s) : s.links[j] = s.links[i] => i <= j}

LEMMA FirstLinksAre ==
  ASSUME NEW s, NEW server, IsSession(s, server)
  PROVE  /\ FirstLinks(s) \in SUBSET Indexes(s) /\ FirstLinks(s) \in SUBSET Nat
         /\ IsFiniteSet(FirstLinks(s)) /\ LinksOf(s) = InOrder(FirstLinks(s))
         /\ \A i, j \in FirstLinks(s) : s.links[i] = s.links[j] => i = j
         /\ \A i \in Indexes(s) : \E j \in FirstLinks(s) : s.links[j] = s.links[i]
<1> DEFINE I == Indexes(s)
           F == FirstLinks(s)
<1>1. I \in SUBSET Nat /\ IsFiniteSet(I)
  BY DEF IsSession
<1>2. F \in SUBSET I
  BY DEF FirstLinks
<1>3. IsFiniteSet(F) /\ F \in SUBSET Nat
  BY <1>1, <1>2, FS_Subset
<1>4. ASSUME NEW i \in F, NEW j \in F, s.links[i] = s.links[j] PROVE i = j
  <2>1. i <= j /\ j <= i
    BY <1>4 DEF FirstLinks
  <2>2. i \in Nat /\ j \in Nat
    BY <1>3
  <2> QED BY <2>1, <2>2
<1>5. ASSUME NEW i \in I PROVE \E j \in F : s.links[j] = s.links[i]
  <2> DEFINE S == {j \in I : s.links[j] = s.links[i]}
  <2>1. S \in SUBSET Nat /\ S # {}
    BY <1>1
  <2>2. Min(S) \in S /\ \A j \in S : Min(S) <= j
    BY <2>1, Least
  <2>3. Min(S) \in I /\ s.links[Min(S)] = s.links[i]
        /\ \A j \in I : s.links[j] = s.links[Min(S)] => Min(S) <= j
    BY <2>2
  <2> QED BY <2>3 DEF FirstLinks
<1>6. LinksOf(s) = InOrder(F)
  BY DEF LinksOf, FirstLinks
<1> QED BY <1>2, <1>3, <1>4, <1>5, <1>6

\* What is recorded of a session.
LEMMA RecordedIs ==
  ASSUME NEW s, NEW server, IsSession(s, server), NEW n \in Nat,
         DOMAIN server.windows \in SUBSET Nat
  PROVE  /\ Recorded(n, s) \in SessionType
         /\ Cardinality(LinkedTo(Recorded(n, s))) = Len(Recorded(n, s).windows)
         /\ Cardinality(UsedIndexes(Recorded(n, s))) = Len(Recorded(n, s).windows)
         /\ Recorded(n, s).windows # <<>>
         /\ LinkedTo(Recorded(n, s)) = {s.links[i] : i \in Indexes(s)}
         /\ UsedIndexes(Recorded(n, s)) = FirstLinks(s)
         /\ \A i \in FirstLinks(s) : \E k \in DOMAIN Recorded(n, s).windows :
              Recorded(n, s).windows[k] = [window |-> s.links[i], index |-> i]
         /\ Recorded(n, s).active = s.links[s.cur]
         /\ Recorded(n, s).last =
              IF s.stack = <<>> THEN 0 ELSE s.links[Head(s.stack)]
         /\ s.stack # <<>> => Head(s.stack) \in Indexes(s)
         /\ s.cur \in Indexes(s)
         /\ \A i \in Indexes(s) : s.links[i] \in DOMAIN server.windows
<1> DEFINE I == Indexes(s)
           F == FirstLinks(s)
           C == Cardinality(F)
           order == LinksOf(s)
           r == Recorded(n, s)
           f == [k \in 1..C |-> s.links[order[k]]]
           g == [k \in 1..C |-> order[k]]
<1>1. /\ F \in SUBSET I /\ F \in SUBSET Nat /\ IsFiniteSet(F) /\ order = InOrder(F)
      /\ \A i, j \in F : s.links[i] = s.links[j] => i = j
      /\ \A i \in I : \E j \in F : s.links[j] = s.links[i]
  BY FirstLinksAre
<1>2. /\ s.links \in [I -> DOMAIN server.windows] /\ s.cur \in I
      /\ s.stack \in Seq(I \ {s.cur}) /\ s.group \in Nat
  BY DEF IsSession
<1>3. \A i \in I : s.links[i] \in DOMAIN server.windows /\ s.links[i] \in Nat
  BY <1>2
<1>4. s.stack # <<>> => Head(s.stack) \in I
  <2> HIDE DEF I
  <2> QED BY <1>2
<1>5. /\ C \in Nat /\ order \in [1..C -> F]
      /\ \A i \in F : \E k \in 1..C : order[k] = i
  <2>1. C \in Nat /\ InOrder(F) \in [1..C -> F]
    BY <1>1, Ordered
  <2>2. \A i \in F : Rank(F, i) + 1 \in 1..C /\ InOrder(F)[Rank(F, i) + 1] = i
    BY <1>1, Ordered
  <2> QED BY <1>1, <2>1, <2>2
<1>6. \A j, k \in 1..C : order[j] = order[k] => j = k
  BY <1>1, OrderedGrows
<1>7. /\ r.windows = [k \in 1..C |-> [window |-> s.links[order[k]], index |-> order[k]]]
      /\ r.name = n /\ r.group = s.group /\ r.active = s.links[s.cur]
      /\ r.last = IF s.stack = <<>> THEN 0 ELSE s.links[Head(s.stack)]
      /\ r = [name |-> r.name, group |-> r.group, windows |-> r.windows,
              active |-> r.active, last |-> r.last]
  <2>1. DOMAIN order = 1..C
    BY <1>5
  <2> QED BY <2>1 DEF Recorded
<1> HIDE DEF I, F, C, order, r
<1>8. r.windows \in Seq(LinkType) /\ Len(r.windows) = C /\ DOMAIN r.windows = 1..C
  <2>1. \A k \in 1..C : [window |-> s.links[order[k]], index |-> order[k]] \in LinkType
    BY <1>1, <1>3, <1>5 DEF LinkType
  <2> HIDE DEF LinkType
  <2>2. r.windows \in [1..C -> LinkType]
    BY <1>7, <2>1
  <2> QED BY <1>5, <2>2
<1>9. r \in SessionType
  <2>1. r.active \in Nat
    BY <1>2, <1>3, <1>7
  <2>2. r.last \in Nat
    BY <1>3, <1>4, <1>7
  <2> QED BY <1>2, <1>7, <1>8, <2>1, <2>2 DEF SessionType
<1>10. /\ LinkedTo(r) = {f[k] : k \in 1..C} /\ UsedIndexes(r) = {g[k] : k \in 1..C}
  BY <1>7, <1>8 DEF LinkedTo, UsedIndexes
<1>11. /\ \A j, k \in 1..C : f[j] = f[k] => j = k
       /\ \A j, k \in 1..C : g[j] = g[k] => j = k
  BY <1>1, <1>5, <1>6, ZenonT(30)
<1>12. f = [k \in 1..C |-> f[k]] /\ g = [k \in 1..C |-> g[k]]
  OBVIOUS
<1>13. /\ \A k \in 1..C : f[k] = s.links[order[k]] /\ g[k] = order[k]
  OBVIOUS
<1> HIDE DEF f, g
<1>14. Cardinality(LinkedTo(r)) = C /\ Cardinality(UsedIndexes(r)) = C
  <2>1. (\A j, k \in 1..C : f[j] = f[k] => j = k) => Cardinality(LinkedTo(r)) = C
    BY <1>5, <1>10, <1>12, Injective
  <2>2. (\A j, k \in 1..C : g[j] = g[k] => j = k) => Cardinality(UsedIndexes(r)) = C
    BY <1>5, <1>10, <1>12, Injective
  <2> QED BY <1>11, <2>1, <2>2
<1>15. UsedIndexes(r) = F
  BY <1>5, <1>10, <1>13
<1>16. LinkedTo(r) = {s.links[i] : i \in I}
  <2>1. ASSUME NEW k \in 1..C PROVE \E i \in I : f[k] = s.links[i]
    BY <1>1, <1>5, <1>13
  <2>2. ASSUME NEW i \in I PROVE \E k \in 1..C : f[k] = s.links[i]
    <3>1. PICK j \in F : s.links[j] = s.links[i]
      BY <1>1
    <3>2. PICK k \in 1..C : order[k] = j
      BY <1>5
    <3> QED BY <3>1, <3>2, <1>13
  <2> QED BY <2>1, <2>2, <1>10
<1>17. r.windows # <<>>
  <2>1. PICK j \in F : TRUE
    BY <1>1, <1>2
  <2>2. PICK k \in 1..C : order[k] = j
    BY <1>5
  <2>3. C # 0
    BY <2>2, <1>5
  <2> QED BY <1>8, <2>3
<1>18. \A i \in F : \E k \in 1..C : r.windows[k] = [window |-> s.links[i], index |-> i]
  BY <1>5, <1>7
<1> QED BY <1>2, <1>3, <1>4, <1>7, <1>8, <1>9, <1>14, <1>15, <1>16, <1>17, <1>18
    DEF I, F, C, r

LEMMA PanesAre ==
  ASSUME NEW w, IsWindow(w, PaneBaseMax)
  PROVE  /\ Panes(w) \in Seq([index : Nat, dead : BOOLEAN])
         /\ Len(Panes(w)) = w.panes /\ DOMAIN Panes(w) = 1..w.panes /\ Panes(w) # <<>>
         /\ w.panes \in Nat \ {0} /\ w.rows \in Nat \ {0} /\ w.first \in 0..PaneBaseMax
         /\ w.active \in 1..w.panes /\ w.zoomed \in BOOLEAN
         /\ \A k \in 1..w.panes : /\ Panes(w)[k].index = w.first + k - 1
                                  /\ Panes(w)[k].dead = w.dead
<1>1. /\ w.panes \in Nat \ {0} /\ w.rows \in Nat \ {0} /\ w.first \in 0..PaneBaseMax
      /\ w.active \in 1..w.panes /\ w.zoomed \in BOOLEAN /\ w.dead \in BOOLEAN
  BY DEF IsWindow
<1> DEFINE T == [index : Nat, dead : BOOLEAN]
           n == w.panes
<1>2. \A k \in 1..n : [index |-> w.first + k - 1, dead |-> w.dead] \in T
  <2> TAKE k \in 1..n
  <2>1. w.first + k - 1 \in Nat
    BY <1>1, PaneBaseAssumption
  <2> QED BY <1>1, <2>1
<1>3. Panes(w) \in [1..n -> T]
  <2> HIDE DEF T
  <2> QED BY <1>2 DEF Panes
<1> HIDE DEF T
<1>4. Panes(w) \in Seq(T) /\ Len(Panes(w)) = n /\ DOMAIN Panes(w) = 1..n
  BY <1>1, <1>3
<1>5. Panes(w) # <<>>
  BY <1>1, <1>4
<1>6. \A k \in 1..n : Panes(w)[k].index = w.first + k - 1 /\ Panes(w)[k].dead = w.dead
  BY DEF Panes
<1> QED BY <1>1, <1>4, <1>5, <1>6 DEF T

\* The snapshot of a server, window by window.
CapturedAs(new, w, old) ==
    /\ new.panes = Panes(old) /\ new.what = w /\ new.rows = old.rows
    /\ new.active = old.active /\ new.zoomed = old.zoomed /\ new.layout = old.panes
    /\ IsWindow(old, PaneBaseMax) /\ WindowValid(new)

LEMMA GraphWindows ==
  ASSUME NEW server, IsServer(server, PaneBaseMax), NEW c, NEW g, g = Graph(server, c)
  PROVE  /\ DOMAIN g.windows = DOMAIN server.windows /\ g.windows \in Seq(WindowType)
         /\ \A w \in DOMAIN g.windows : CapturedAs(g.windows[w], w, server.windows[w])
<1> DEFINE ws == server.windows
           N == Len(ws)
           entry(w) == [what |-> w, panes |-> Panes(ws[w]), rows |-> ws[w].rows,
                        layout |-> ws[w].panes, active |-> ws[w].active,
                        zoomed |-> ws[w].zoomed]
<1>1. DOMAIN ws = 1..N /\ N \in Nat /\ \A w \in DOMAIN ws : IsWindow(ws[w], PaneBaseMax)
  BY ServerIs
<1>2. g.windows = [w \in DOMAIN ws |-> entry(w)]
  BY DEF Graph
<1> HIDE DEF ws, N
<1>3. \A w \in DOMAIN ws : entry(w) \in WindowType
  <2> TAKE w \in DOMAIN ws
  <2>1. Panes(ws[w]) \in Seq([index : Nat, dead : BOOLEAN])
    BY <1>1, PanesAre
  <2>2. /\ ws[w].rows \in Nat /\ ws[w].panes \in Nat /\ ws[w].active \in 1..ws[w].panes
        /\ ws[w].zoomed \in BOOLEAN
    BY <1>1, PanesAre
  <2>3. w \in Nat /\ ws[w].active \in Nat
    BY <1>1, <2>2
  <2> QED BY <2>1, <2>2, <2>3 DEF WindowType
<1>4. \A w \in DOMAIN ws : WindowValid(entry(w))
  <2> TAKE w \in DOMAIN ws
  <2> DEFINE p == Panes(ws[w])
             n == ws[w].panes
  <2>1. /\ Len(p) = n /\ DOMAIN p = 1..n /\ n \in Nat \ {0}
        /\ ws[w].first \in 0..PaneBaseMax /\ ws[w].active \in 1..n
        /\ \A k \in 1..n : p[k].index = ws[w].first + k - 1
    BY <1>1, PanesAre
  <2> HIDE DEF p, n
  <2>2. p[1].index \in 0..PaneBaseMax
    BY <2>1, PaneBaseAssumption
  <2>3. \A k \in 2..Len(p) : p[k].index = p[k - 1].index + 1
    BY <2>1, PaneBaseAssumption, SMTT(30)
  <2>4. entry(w).panes = p /\ entry(w).active = ws[w].active
    BY DEF p
  <2>5. entry(w).active \in DOMAIN p
    BY <2>1, <2>4
  <2> HIDE DEF entry
  <2> QED BY <2>2, <2>3, <2>4, <2>5 DEF WindowValid
<1>5. g.windows \in Seq(WindowType)
  <2> HIDE DEF entry, WindowType
  <2>1. g.windows \in [1..N -> WindowType]
    BY <1>1, <1>2, <1>3
  <2> QED BY <1>1, <2>1
<1>6. \A w \in DOMAIN ws : g.windows[w] = entry(w)
  BY <1>2
<1>7. DOMAIN g.windows = DOMAIN ws
  BY <1>2
<1>8. ASSUME NEW w \in DOMAIN ws
      PROVE  /\ g.windows[w].panes = Panes(ws[w]) /\ g.windows[w].what = w
             /\ g.windows[w].rows = ws[w].rows /\ g.windows[w].active = ws[w].active
             /\ g.windows[w].zoomed = ws[w].zoomed /\ g.windows[w].layout = ws[w].panes
  <2> DEFINE e == entry(w)
  <2>1. /\ e.panes = Panes(ws[w]) /\ e.what = w /\ e.rows = ws[w].rows
        /\ e.active = ws[w].active /\ e.zoomed = ws[w].zoomed /\ e.layout = ws[w].panes
    OBVIOUS
  <2>2. g.windows[w] = e
    BY <1>6
  <2> HIDE DEF e
  <2> QED BY <2>1, <2>2
<1>9. \A w \in DOMAIN ws : IsWindow(ws[w], PaneBaseMax) /\ WindowValid(g.windows[w])
  <2> HIDE DEF entry
  <2> QED BY <1>1, <1>4, <1>6
<1>10. \A w \in DOMAIN ws : CapturedAs(g.windows[w], w, ws[w])
  BY <1>8, <1>9 DEF CapturedAs
<1> QED BY <1>5, <1>7, <1>10 DEF ws

\* ... and session by session.
LEMMA GraphSessions ==
  ASSUME NEW server, IsServer(server, PaneBaseMax), NEW c, NEW g, g = Graph(server, c)
  PROVE  /\ DOMAIN g.sessions = DOMAIN server.sessions /\ g.sessions \in Seq(SessionType)
         /\ g.sessions # <<>>
         /\ \A n \in DOMAIN g.sessions :
              /\ g.sessions[n] = Recorded(n, server.sessions[n])
              /\ IsSession(server.sessions[n], server)
              /\ SessionValid(g.sessions[n], g)
              /\ g.sessions[n].windows # <<>>
<1> DEFINE ss == server.sessions
           N == Len(ss)
<1>1. /\ DOMAIN ss = 1..N /\ N \in Nat \ {0}
      /\ \A n \in DOMAIN ss : IsSession(ss[n], server)
      /\ DOMAIN server.windows \in SUBSET Nat
  BY ServerIs
<1>2. g.sessions = [n \in DOMAIN ss |-> Recorded(n, ss[n])]
  BY DEF Graph
<1> HIDE DEF ss, N
<1>3. DOMAIN g.windows = DOMAIN server.windows
  BY GraphWindows
<1>4. ASSUME NEW n \in DOMAIN ss
      PROVE  /\ Recorded(n, ss[n]) \in SessionType /\ SessionValid(Recorded(n, ss[n]), g)
             /\ Recorded(n, ss[n]).windows # <<>>
  <2> DEFINE s == ss[n]
             r == Recorded(n, s)
  <2>1. IsSession(s, server) /\ n \in Nat
    BY <1>1
  <2> HIDE DEF s
  <2>2. /\ r \in SessionType
        /\ Cardinality(LinkedTo(r)) = Len(r.windows)
        /\ Cardinality(UsedIndexes(r)) = Len(r.windows)
        /\ r.windows # <<>>
    BY <1>1, <2>1, RecordedIs
  <2>3. /\ LinkedTo(r) = {s.links[i] : i \in Indexes(s)}
        /\ r.active = s.links[s.cur]
        /\ r.last = IF s.stack = <<>> THEN 0 ELSE s.links[Head(s.stack)]
    BY <1>1, <2>1, RecordedIs
  <2>4. /\ s.stack # <<>> => Head(s.stack) \in Indexes(s)
        /\ s.cur \in Indexes(s)
        /\ \A i \in Indexes(s) : s.links[i] \in DOMAIN server.windows
    BY <1>1, <2>1, RecordedIs
  <2> HIDE DEF r
  <2>5. {r.active, r.last} \ {0} \subseteq LinkedTo(r)
    BY <2>3, <2>4
  <2>6. \A k \in DOMAIN r.windows : /\ r.windows[k].index >= 0
                                    /\ r.windows[k].window \in DOMAIN g.windows
    <3> TAKE k \in DOMAIN r.windows
    <3>1. r.windows[k] \in LinkType
      BY <2>2 DEF SessionType
    <3>2. r.windows[k].index \in Nat
      BY <3>1 DEF LinkType
    <3>3. r.windows[k].window \in LinkedTo(r)
      BY DEF LinkedTo
    <3> QED BY <1>3, <2>3, <2>4, <3>2, <3>3
  <2> QED BY <2>2, <2>5, <2>6 DEF SessionValid, r, s
<1>5. \A n \in DOMAIN ss : g.sessions[n] = Recorded(n, ss[n])
  BY <1>2
<1>6. DOMAIN g.sessions = DOMAIN ss
  BY <1>2
<1>7. g.sessions \in Seq(SessionType) /\ g.sessions # <<>>
  <2> HIDE DEF SessionType
  <2>1. g.sessions \in [1..N -> SessionType]
    BY <1>1, <1>2, <1>4
  <2>2. g.sessions \in Seq(SessionType) /\ Len(g.sessions) = N
    BY <1>1, <2>1
  <2> QED BY <1>1, <2>2
<1> QED BY <1>1, <1>4, <1>5, <1>6, <1>7 DEF ss

LEMMA GraphIs ==
  ASSUME NEW server, IsServer(server, PaneBaseMax), NEW c, NEW g, g = Graph(server, c)
  PROVE  /\ IsSnapshot(g) /\ Valid(g)
         /\ (\A w \in DOMAIN server.windows : ~server.windows[w].dead) => Restorable(g)
<1> DEFINE ss == server.sessions
           gs == g.sessions
<1>1. /\ DOMAIN gs = DOMAIN ss /\ gs \in Seq(SessionType) /\ gs # <<>>
      /\ \A n \in DOMAIN gs : /\ gs[n] = Recorded(n, ss[n]) /\ IsSession(ss[n], server)
                              /\ SessionValid(gs[n], g) /\ gs[n].windows # <<>>
  BY GraphSessions
<1>2. /\ DOMAIN g.windows = DOMAIN server.windows /\ g.windows \in Seq(WindowType)
      /\ \A w \in DOMAIN g.windows : CapturedAs(g.windows[w], w, server.windows[w])
  BY GraphWindows
<1>3. DOMAIN ss = 1..Len(ss) /\ Len(ss) \in Nat /\ DOMAIN server.windows \in SUBSET Nat
  BY ServerIs
<1> HIDE DEF ss, gs
<1>4. IsSnapshot(g)
  <2>1. ASSUME NEW w \in DOMAIN g.windows
        PROVE  g.windows[w].active \in DOMAIN g.windows[w].panes
    <3> DEFINE old == server.windows[w]
    <3>1. IsWindow(old, PaneBaseMax) /\ g.windows[w].panes = Panes(old)
          /\ g.windows[w].active = old.active
      BY <1>2 DEF CapturedAs
    <3> HIDE DEF old
    <3>2. DOMAIN Panes(old) = 1..old.panes /\ old.active \in 1..old.panes
      BY <3>1, PanesAre
    <3> QED BY <3>1, <3>2
  <2> QED BY <1>1, <1>2, <2>1 DEF IsSnapshot, gs
<1>5. \A n \in DOMAIN gs : /\ LinkedTo(gs[n]) = {ss[n].links[i] : i \in Indexes(ss[n])}
                           /\ \A i \in Indexes(ss[n]) : ss[n].links[i] \in DOMAIN g.windows
  <2> TAKE n \in DOMAIN gs
  <2> DEFINE s == ss[n]
  <2>1. IsSession(s, server) /\ n \in Nat /\ gs[n] = Recorded(n, s)
    BY <1>1, <1>3
  <2> HIDE DEF s
  <2>2. LinkedTo(Recorded(n, s)) = {s.links[i] : i \in Indexes(s)}
    BY <1>3, <2>1, RecordedIs
  <2>3. \A i \in Indexes(s) : s.links[i] \in DOMAIN server.windows
    BY <1>3, <2>1, RecordedIs
  <2> QED BY <1>2, <2>1, <2>2, <2>3 DEF s
<1>6. Valid(g)
  <2>1. UNION {LinkedTo(gs[n]) : n \in DOMAIN gs} = DOMAIN g.windows
    <3>1. \A n \in DOMAIN gs : LinkedTo(gs[n]) \subseteq DOMAIN g.windows
      BY <1>5
    <3>2. ASSUME NEW w \in DOMAIN g.windows PROVE \E n \in DOMAIN gs : w \in LinkedTo(gs[n])
      <4>1. PICK n \in DOMAIN ss : \E i \in Indexes(ss[n]) : ss[n].links[i] = w
        BY <1>2 DEF IsServer, ss
      <4> QED BY <1>1, <1>5, <4>1
    <3> QED BY <3>1, <3>2
  <2>2. \A w \in DOMAIN g.windows : WindowValid(g.windows[w])
    BY <1>2 DEF CapturedAs
  <2> QED BY <1>1, <2>1, <2>2 DEF Valid, gs
<1>7. \A n \in DOMAIN gs : Links(gs[n]) = Links(gs[Primary(n, g)])
  <2> TAKE n \in DOMAIN gs
  <2> DEFINE G(m) == gs[m].group
             members == {m \in DOMAIN gs : G(m) = G(n)}
  <2>1. Primary(n, g) = IF G(n) = 0 THEN n ELSE Min(members)
    BY DEF Primary, gs
  <2>2. CASE G(n) = 0
    BY <2>1, <2>2
  <2>3. CASE G(n) # 0
    <3> DEFINE p == Min(members)
    <3>1. members \in SUBSET Nat /\ members # {}
      BY <1>1, <1>3
    <3>2. p \in members
      <4> HIDE DEF members
      <4> QED BY <3>1, Least
    <3>3. p \in DOMAIN gs /\ G(p) = G(n)
      BY <3>2
    <3> HIDE DEF p, members
    <3>4. \A m \in DOMAIN gs : G(m) = ss[m].group
      BY <1>1 DEF Recorded
    <3>5. ss[p].links = ss[n].links
      <4>1. ss[p].group # 0 /\ ss[p].group = ss[n].group /\ p \in DOMAIN ss /\ n \in DOMAIN ss
        BY <1>1, <2>3, <3>3, <3>4
      <4> QED BY <4>1 DEF IsServer, ss
    <3>6. Recorded(p, ss[p]).windows = Recorded(n, ss[n]).windows
      BY <3>5 DEF Recorded, LinksOf, Indexes
    <3>7. gs[p].windows = gs[n].windows
      BY <1>1, <3>3, <3>6
    <3> QED BY <2>1, <2>3, <3>7 DEF Links, p
  <2> QED BY <2>2, <2>3
<1>8. ASSUME \A w \in DOMAIN server.windows : ~server.windows[w].dead
      PROVE  Restorable(g)
  <2>1. ASSUME NEW w \in DOMAIN g.windows
        PROVE  /\ g.windows[w].panes # <<>>
               /\ \A k \in DOMAIN g.windows[w].panes : ~g.windows[w].panes[k].dead
               /\ LayoutFits(g.windows[w])
    <3> DEFINE old == server.windows[w]
    <3>1. /\ Len(Panes(old)) = old.panes /\ DOMAIN Panes(old) = 1..old.panes
          /\ Panes(old) # <<>>
          /\ \A k \in 1..old.panes : Panes(old)[k].dead = old.dead
      BY <1>2, PanesAre DEF CapturedAs
    <3>2. ~old.dead
      BY <1>2, <1>8
    <3>3. g.windows[w].panes = Panes(old) /\ g.windows[w].layout = old.panes
      BY <1>2 DEF CapturedAs
    <3> HIDE DEF old
    <3> QED BY <3>1, <3>2, <3>3 DEF LayoutFits
  <2> QED BY <1>1, <1>7, <2>1 DEF Restorable, gs
<1> QED BY <1>4, <1>6, <1>8

\* What is known of the snapshot of a capture.
GraphInv ==
    way = "capture" =>
      /\ phase # "invalid"
      /\ phase \in {"captured", "rejected", "refused"} \cup Building =>
           \E c : snap = Graph(saved, c)
      /\ phase = "rejected" => ~Restorable(snap)
      /\ phase \in {"refused"} \cup Building => Restorable(snap)

LEMMA GraphInvStep ==
  ASSUME StartInv, GraphInv, [Next]_vars
  PROVE  GraphInv'
<1>0. \A p : p \in Building => p \notin {"running", "captured", "rejected", "refused",
                                         "invalid", "no capture"}
  BY LoopsAre
<1>1. CASE UNCHANGED vars
  BY <1>1 DEF vars, GraphInv
<1>2. CASE Capture
  <2>1. /\ saved' = saved /\ way' = way
        /\ \/ phase' = "no capture"
           \/ /\ \E c : snap' = Graph(saved, c)
              /\ phase' = IF Valid(snap') THEN "captured" ELSE "invalid"
    BY <1>2 DEF Capture
  <2>2. CASE phase' = "no capture"
    BY <1>0, <2>2 DEF GraphInv
  <2>3. CASE /\ \E c : snap' = Graph(saved, c)
             /\ phase' = IF Valid(snap') THEN "captured" ELSE "invalid"
    <3>1. PICK c : snap' = Graph(saved, c)
      BY <2>3
    <3>2. Valid(snap')
      BY <3>1, GraphIs DEF StartInv
    <3>3. phase' = "captured" /\ \E d : snap' = Graph(saved', d)
      BY <2>1, <2>3, <3>2
    <3> QED BY <1>0, <3>3 DEF GraphInv
  <2> QED BY <2>1, <2>2, <2>3
<1>3. CASE Import
  BY <1>3 DEF Import, GraphInv
<1>4. CASE Preflight
  <2>1. /\ phase = "captured" /\ saved' = saved /\ way' = way /\ snap' = snap
        /\ phase' = IF Restorable(snap) THEN "sessions" ELSE "rejected"
    BY <1>4 DEF Preflight
  <2>2. way' = "capture" => \E c : snap' = Graph(saved', c)
    BY <2>1 DEF GraphInv
  <2>3. phase' # "invalid" /\ (phase' = "rejected" => ~Restorable(snap'))
        /\ (phase' # "rejected" => Restorable(snap'))
    BY <2>1
  <2> QED BY <1>0, <2>2, <2>3 DEF GraphInv
<1>5. CASE Build
  <2>1. /\ saved' = saved /\ way' = way /\ snap' = snap
        /\ phase \in Building /\ phase' \in Building \cup {"refused"}
    BY <1>5, BuildSteps
  <2>2. phase' # "invalid" /\ phase' # "rejected"
    BY <1>0, <2>1
  <2> QED BY <2>1, <2>2 DEF GraphInv
<1> QED BY <1>1, <1>2, <1>3, <1>4, <1>5, NextIs

\* Every captured server (parse_capture) has a snapshot that passes validation
\* (TmuxState::validate), and only dead panes keep it from being restored
\* (validate_state_for_restore).
THEOREM ServersFit == Spec => [](way = "capture" => EveryServerFits)
<1>1. Init => StartInv /\ CaptureInv /\ GraphInv
  <2>1. Init => GraphInv
    BY LoopsAre DEF Init, GraphInv
  <2> QED BY <2>1, StartHolds
<1>2. StartInv /\ CaptureInv /\ GraphInv /\ [Next]_vars => StartInv' /\ CaptureInv' /\ GraphInv'
  BY CaptureInvStep, GraphInvStep
<1>3. StartInv /\ GraphInv => (way = "capture" => EveryServerFits)
  <2> SUFFICES ASSUME StartInv, GraphInv, way = "capture" PROVE EveryServerFits
    OBVIOUS
  <2>1. phase # "invalid"
    BY DEF GraphInv
  <2>2. ASSUME phase = "rejected" PROVE \E w \in DOMAIN saved.windows : saved.windows[w].dead
    <3>1. PICK c : snap = Graph(saved, c)
      BY <2>2 DEF GraphInv
    <3>2. ~Restorable(snap)
      BY <2>2 DEF GraphInv
    <3> QED BY <3>1, <3>2, GraphIs DEF StartInv
  <2> QED BY <2>1, <2>2 DEF EveryServerFits
<1> QED BY <1>1, <1>2, <1>3, PTL DEF Spec
===============================================================================
