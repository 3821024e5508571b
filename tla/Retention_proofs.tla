--------------------------- MODULE Retention_proofs ---------------------------
(***************************************************************************)
(* Proofs about the retention policy: its markers never name a snapshot    *)
(* that is gone, no hour or day of its windows is forgotten, and what a    *)
(* pass leaves is bounded.  They hold for every policy, every length of    *)
(* the hour and the day and every history.                                 *)
(***************************************************************************)
EXTENDS Retention, FiniteSetTheorems, WellFoundedInduction, TLAPS

-----------------------------------------------------------------------------
\* Division.

\* A product of a positive factor with a positive number is at least that factor.
LEMMA ProductGrows ==
  ASSUME NEW d \in Nat \ {0}, NEW m \in Int, m >= 1
  PROVE  d * m >= d
<1>1. m - 1 >= 0 /\ d >= 0 /\ m - 1 \in Int
  OBVIOUS
<1>2. d * (m - 1) >= 0
  BY <1>1
<1>3. d * (m - 1) = d * m - d
  OBVIOUS
<1> QED BY <1>2, <1>3

\* A quotient is the one number whose multiple leaves a remainder below the divisor.
LEMMA Quotient ==
  ASSUME NEW a \in Int, NEW d \in Nat \ {0}
  PROVE  a \div d \in Int /\ d * (a \div d) <= a /\ a < d * (a \div d) + d
OBVIOUS

LEMMA QuotientUnique ==
  ASSUME NEW a \in Int, NEW d \in Nat \ {0}, NEW q \in Int, d * q <= a, a < d * q + d
  PROVE  a \div d = q
<1> DEFINE p == a \div d
<1>1. p \in Int /\ d * p <= a /\ a < d * p + d
  BY Quotient
<1> HIDE DEF p
<1>2. ASSUME p > q PROVE FALSE
  <2>1. d * (p - q) >= d
    BY <1>1, <1>2, ProductGrows
  <2>2. d * (p - q) = d * p - d * q
    BY <1>1
  <2> QED BY <1>1, <2>1, <2>2
<1>3. ASSUME q > p PROVE FALSE
  <2>1. d * (q - p) >= d
    BY <1>1, <1>3, ProductGrows
  <2>2. d * (q - p) = d * q - d * p
    BY <1>1
  <2> QED BY <1>1, <2>1, <2>2
<1>4. p = q
  BY <1>1, <1>2, <1>3
<1> QED BY <1>4 DEF p

\* Division by a product is division by one factor after the other.
LEMMA QuotientOfQuotient ==
  ASSUME NEW a \in Int, NEW c \in Nat \ {0}, NEW d \in Nat \ {0}
  PROVE  a \div (c * d) = (a \div c) \div d
<1> DEFINE p == a \div c
           q == p \div d
<1>1. p \in Int /\ c * p <= a /\ a <= c * p + c - 1
  BY Quotient
<1>2. q \in Int /\ d * q <= p /\ p <= d * q + d - 1
  BY <1>1, Quotient
<1> HIDE DEF p, q
<1>3. c * (p - d * q) >= 0
  BY <1>1, <1>2
<1>4. c * (d * q + d - 1 - p) >= 0
  BY <1>1, <1>2
<1>5. c * (p - d * q) = c * p - (c * d) * q
  BY <1>1, <1>2
<1>6. c * (d * q + d - 1 - p) = (c * d) * q + c * d - c - c * p
  BY <1>1, <1>2
<1>7. c * d \in Nat \ {0}
  <2>1. c * d \in Nat /\ c * d >= c
    BY ProductGrows
  <2> QED BY <2>1
<1>8. (c * d) * q <= a /\ a < (c * d) * q + c * d /\ (c * d) * q \in Int
  BY <1>1, <1>2, <1>3, <1>4, <1>5, <1>6, <1>7
<1>9. a \div (c * d) = q
  BY <1>2, <1>7, <1>8, QuotientUnique
<1> QED BY <1>9 DEF p, q
-----------------------------------------------------------------------------
\* The newest ones.

LEMMA Periods ==
  /\ Day \in Nat \ {0} /\ Minutes \in Nat \ {0} /\ Hours \in Nat \ {0}
  /\ {Recent, Safety, HourlyDays, DailyDays} \subseteq Nat /\ HourlyDays <= DailyDays
  /\ MaxTime \in Nat \ {0}
<1>1. Minutes \in Nat \ {0} /\ Hours \in Nat \ {0}
  BY RetentionAssumption DEF RetentionAssumption
<1>2. Day \in Nat /\ Day >= Minutes
  BY <1>1, ProductGrows DEF Day
<1> QED BY <1>1, <1>2, RetentionAssumption DEF RetentionAssumption

\* A set of numbers that is not empty has a least one, and one with a bound has a
\* greatest one.
LEMMA LeastNumber ==
  ASSUME NEW S \in SUBSET Nat, S # {}
  PROVE  \E m \in S : \A j \in S : m <= j
<1>1. PICK m \in S : \A j \in S : <<j, m>> \notin OpToRel(<, Nat)
  BY WFMin, NatLessThanWellFounded, Zenon
<1>2. ASSUME NEW j \in S PROVE m <= j
  <2>1. <<j, m>> \in Nat \X Nat /\ <<j, m>>[1] = j /\ <<j, m>>[2] = m /\ j \in Nat /\ m \in Nat
    OBVIOUS
  <2>2. ~(j < m)
    BY <1>1, <2>1 DEF OpToRel
  <2> QED BY <2>1, <2>2
<1> QED BY <1>2

LEMMA GreatestNumber ==
  ASSUME NEW S \in SUBSET Nat, S # {}, NEW b \in Nat, \A j \in S : j <= b
  PROVE  \E m \in S : \A j \in S : j <= m
<1> DEFINE D == {b - j : j \in S}
<1>1. ASSUME NEW x \in D PROVE x \in Nat
  <2>1. PICK j \in S : x = b - j
    OBVIOUS
  <2>2. j \in Nat /\ j <= b
    OBVIOUS
  <2> QED BY <2>1, <2>2
<1>2. D \in SUBSET Nat /\ D # {}
  BY <1>1
<1>3. PICK x \in D : \A y \in D : x <= y
  BY <1>2, LeastNumber
<1>4. PICK m \in S : x = b - m
  BY <1>3
<1>5. ASSUME NEW j \in S PROVE j <= m
  <2>1. b - m <= b - j
    BY <1>3, <1>4
  <2>2. j \in Nat /\ m \in Nat
    OBVIOUS
  <2> QED BY <2>1, <2>2
<1> QED BY <1>5

\* The newest n are at most n.
LEMMA NewestBound ==
  ASSUME NEW S \in SUBSET Nat, IsFiniteSet(S), NEW n \in Nat
  PROVE  IsFiniteSet(Newest(S, n)) /\ Cardinality(Newest(S, n)) <= n
<1> DEFINE N == Newest(S, n)
<1>1. N \in SUBSET S /\ IsFiniteSet(N) /\ Cardinality(N) \in Nat
  BY FS_Subset, FS_CardinalityType DEF Newest
<1>2. CASE N = {}
  BY <1>1, <1>2, FS_EmptySet
<1>3. CASE N # {}
  <2>1. PICK m \in N : \A j \in N : m <= j
    BY <1>1, <1>3, LeastNumber
  <2> DEFINE Above == {f \in S : f > m}
  <2>2. Cardinality(Above) < n
    BY <2>1 DEF Newest
  <2>3. IsFiniteSet(Above) /\ Cardinality(Above) \in Nat
    BY FS_Subset, FS_CardinalityType
  <2>4. N \ {m} \in SUBSET Above
    <3>1. ASSUME NEW j \in N \ {m} PROVE j \in S /\ j > m
      <4>1. j \in Nat /\ m \in Nat /\ m <= j /\ j # m /\ j \in S
        BY <1>1, <2>1
      <4> QED BY <4>1
    <3> QED BY <3>1
  <2>5. Cardinality(N \ {m}) <= Cardinality(Above)
    BY <2>3, <2>4, FS_Subset
  <2>6. Cardinality(N \ {m}) = Cardinality(N) - 1
    BY <1>1, <2>1, FS_RemoveElement
  <2> QED BY <1>1, <2>2, <2>3, <2>5, <2>6
<1> QED BY <1>1, <1>2, <1>3

\* The newest of a period stands for every older one of it.
LEMMA NewestStands ==
  ASSUME NEW S \in SUBSET Nat, NEW b \in Nat, \A j \in S : j <= b,
         NEW length \in Nat \ {0}, NEW e \in S
  PROVE  \E f \in NewestPer(S, length) : f >= e /\ f \div length = e \div length
<1> DEFINE P == {f \in S : f >= e /\ f \div length = e \div length}
<1>1. P \in SUBSET Nat /\ e \in P /\ \A j \in P : j <= b
  <2>1. e \in Nat /\ e >= e
    OBVIOUS
  <2> QED BY <2>1
<1>2. PICK m \in P : \A j \in P : j <= m
  BY <1>1, GreatestNumber
<1>3. ASSUME NEW f \in S, f > m, f \div length = m \div length PROVE FALSE
  <2>1. f \in Nat /\ m \in Nat /\ e \in Nat /\ m >= e
    BY <1>2
  <2>2. f \in P
    BY <1>2, <1>3, <2>1
  <2> QED BY <1>2, <1>3, <2>1, <2>2
<1>4. m \in NewestPer(S, length)
  BY <1>2, <1>3 DEF NewestPer
<1> QED BY <1>2, <1>4

-----------------------------------------------------------------------------

\* The snapshots a pass starts from, and what it leaves.
LEMMA Pass ==
  ASSUME TypeOK, NEW S, S = entries \cup {now}, NEW M \in SUBSET S, NEW cur \in S,
         Prune(S, M, cur), UNCHANGED <<now, pins>>
  PROVE  /\ S \in SUBSET Nat /\ IsFiniteSet(S) /\ now \in S /\ now \in Nat
         /\ \A j \in S : j <= now
         /\ entries' = Keep(S, M, pins \cup {cur}) /\ entries' \in SUBSET S
         /\ pins \cup {cur} \subseteq entries'
         /\ marks' = Newest(M, Safety) /\ pruned' = now
<1>1. now \in Nat /\ S \in SUBSET (1 .. now)
  BY DEF TypeOK
<1>2. S \in SUBSET Nat /\ IsFiniteSet(S) /\ now \in S /\ \A j \in S : j <= now
  <2>1. IsFiniteSet(1 .. now)
    BY <1>1, FS_Interval
  <2>2. IsFiniteSet(S)
    BY <1>1, <2>1, FS_Subset
  <2>3. ASSUME NEW j \in S PROVE j \in Nat /\ j <= now
    BY <1>1
  <2> QED BY <2>2, <2>3
<1>3. S \cap M = M
  OBVIOUS
<1>4. entries' = Keep(S, M, pins \cup {cur}) /\ marks' = Newest(M, Safety) /\ pruned' = now
  BY <1>3 DEF Prune, Newest
<1>5. entries' \in SUBSET S
  BY <1>4 DEF Keep, Newest, NewestPer, Hourly, Daily, Counted
<1>6. pins \cup {cur} \subseteq entries'
  BY <1>4 DEF Keep, TypeOK
<1> QED BY <1>1, <1>2, <1>4, <1>5, <1>6

LEMMA TypeStep == TypeOK /\ [Next]_vars => TypeOK'
<1> SUFFICES ASSUME TypeOK, [Next]_vars PROVE TypeOK'
  OBVIOUS
<1> USE Periods
<1>1. ASSUME NEW M \in SUBSET (marks \cup {now}), NEW cur \in entries \cup {now},
             Prune(entries \cup {now}, M, cur), UNCHANGED <<now, pins>>,
             written' = written \cup {now}, current' = cur
      PROVE  TypeOK'
  <2> DEFINE S == entries \cup {now}
  <2>1. M \in SUBSET S
    BY DEF TypeOK
  <2>2. /\ S \in SUBSET Nat /\ IsFiniteSet(S) /\ entries' \in SUBSET S
        /\ entries' = Keep(S, M, pins \cup {cur}) /\ pins \cup {cur} \subseteq entries'
        /\ marks' = Newest(M, Safety) /\ pruned' = now
    BY <1>1, <2>1, Pass, SMTT(30)
  <2>3. M \in SUBSET Nat /\ IsFiniteSet(M)
    <3> HIDE DEF S
    <3> QED BY <2>1, <2>2, FS_Subset
  <2>4. Cardinality(marks') <= Safety
    BY <2>2, <2>3, NewestBound
  <2>5. marks' \subseteq entries'
    BY <2>2 DEF Keep
  <2>6. now \in 1 .. MaxTime /\ now \in 1 .. now /\ written \subseteq 1 .. now
        /\ entries \subseteq written
    BY DEF TypeOK
  <2>7. written' \subseteq 1 .. now /\ entries' \subseteq written'
    BY <1>1, <2>2, <2>6
  <2> QED BY <1>1, <2>2, <2>4, <2>5, <2>6, <2>7 DEF TypeOK
<1>2. CASE Tick
  BY <1>2 DEF Tick, TypeOK
<1>3. CASE Save
  BY <1>3, <1>1 DEF Save
<1>4. CASE Restore
  <2>1. current \in entries
    BY <1>4 DEF Restore, TypeOK
  <2> QED BY <1>4, <2>1, <1>1 DEF Restore
<1>5. ASSUME NEW e \in entries, Pin(e) \/ Unpin(e) PROVE TypeOK'
  BY <1>5 DEF Pin, Unpin, TypeOK
<1>6. CASE UNCHANGED vars
  BY <1>6 DEF vars, TypeOK
<1> QED BY <1>2, <1>3, <1>4, <1>5, <1>6 DEF Next

\* The values every variable can take.  Of the markers it says that prune leaves none
\* without its snapshot, and no more than retention.safety_snapshots (storage.rs prune).
THEOREM TypeCorrect == Spec => []TypeOK
<1>1. Init => TypeOK
  <2>1. Cardinality({}) = 0
    BY FS_EmptySet
  <2> SUFFICES ASSUME Init PROVE TypeOK
    OBVIOUS
  <2> QED BY <2>1, Periods DEF Init, TypeOK
<1> QED BY <1>1, TypeStep, PTL DEF Spec

-----------------------------------------------------------------------------
\* The period of every snapshot that was written in the window is represented by one that
\* is left and at least as new.  That one is within the window as long as the first one
\* is, so that the next pass counts it, or it is exempt and stays.
Within(e, days) == pruned - e <= days * Day
RememberInv ==
    /\ written \subseteq 1 .. pruned
    /\ \A e \in written :
        /\ Within(e, HourlyDays) => \E f \in entries : f >= e /\ HourOf(f) = HourOf(e)
        /\ Within(e, DailyDays) => \E f \in entries : f >= e /\ DayOf(f) = DayOf(e)

\* An hour is part of one day.
LEMMA HourWithinDay ==
  ASSUME NEW e \in Nat, NEW f \in Nat, HourOf(e) = HourOf(f)
  PROVE  DayOf(e) = DayOf(f)
<1>1. Minutes \in Nat \ {0} /\ Hours \in Nat \ {0} /\ e \in Int /\ f \in Int
  BY Periods
<1>2. e \div (Minutes * Hours) = (e \div Minutes) \div Hours
  BY <1>1, QuotientOfQuotient
<1>3. f \div (Minutes * Hours) = (f \div Minutes) \div Hours
  BY <1>1, QuotientOfQuotient
<1> QED BY <1>2, <1>3 DEF HourOf, DayOf, Day

\* What a pass counts for the hours is represented in its hour, and what it counts for the
\* days in its day.
LEMMA Represented ==
  ASSUME NEW S \in SUBSET Nat, now \in Nat, \A j \in S : j <= now, NEW M, NEW exempt,
         NEW e \in S
  PROVE  /\ now - e <= HourlyDays * Day =>
               \E f \in Keep(S, M, exempt) : f >= e /\ HourOf(f) = HourOf(e)
         /\ now - e <= DailyDays * Day =>
               \E f \in Keep(S, M, exempt) : f >= e /\ DayOf(f) = DayOf(e)
<1> USE Periods
<1> DEFINE K == Keep(S, M, exempt)
           H == Hourly(S, exempt)
           D == Daily(S, exempt)
<1>1. e \in Nat /\ e >= e
  OBVIOUS
<1>2. H \in SUBSET Nat /\ (\A j \in H : j <= now) /\ D \in SUBSET Nat /\ (\A j \in D : j <= now)
  BY DEF Hourly, Daily, Counted
<1>3. CASE e \in exempt
  <2>1. e \in K
    BY <1>3 DEF Keep
  <2> QED BY <1>1, <2>1
<1>4. ASSUME e \in H
      PROVE  \E f \in K : f >= e /\ HourOf(f) = HourOf(e) /\ DayOf(f) = DayOf(e)
  <2>1. PICK f \in NewestPer(H, Minutes) : f >= e /\ f \div Minutes = e \div Minutes
    BY <1>2, <1>4, NewestStands
  <2>2. f \in K /\ f \in Nat /\ HourOf(f) = HourOf(e)
    BY <1>2, <2>1 DEF Keep, NewestPer, HourOf
  <2> QED BY <1>1, <2>1, <2>2, HourWithinDay
<1>5. ASSUME e \in D PROVE \E f \in K : f >= e /\ DayOf(f) = DayOf(e)
  <2>1. PICK f \in NewestPer(D, Day) : f >= e /\ f \div Day = e \div Day
    BY <1>2, <1>5, NewestStands
  <2> QED BY <2>1 DEF Keep, DayOf
<1>6. CASE e \notin exempt
  <2>1. now - e <= HourlyDays * Day => e \in H
    BY <1>6 DEF Hourly, Counted
  <2>2. now - e <= DailyDays * Day => e \in H \/ e \in D
    BY <1>6 DEF Daily, Counted
  <2> QED BY <1>4, <1>5, <2>1, <2>2
<1> QED BY <1>3, <1>6

LEMMA RememberPass ==
  ASSUME TypeOK, RememberInv, NEW M \in SUBSET (marks \cup {now}),
         NEW cur \in entries \cup {now}, Prune(entries \cup {now}, M, cur),
         UNCHANGED <<now, pins>>, written' = written \cup {now}
  PROVE  RememberInv'
<1> DEFINE S == entries \cup {now}
<1>1. /\ S \in SUBSET Nat /\ now \in Nat /\ now \in S /\ pruned' = now
      /\ (\A j \in S : j <= now) /\ entries' = Keep(S, M, pins \cup {cur})
        /\ entries' \in SUBSET Nat
  <2>1. M \in SUBSET S
    BY DEF TypeOK
  <2>2. S \in SUBSET Nat /\ now \in Nat /\ now \in S /\ pruned' = now /\ entries' \in SUBSET S
    BY <2>1, Pass
  <2>3. \A j \in S : j <= now
    BY <2>1, Pass
  <2>4. entries' = Keep(S, M, pins \cup {cur})
    BY <2>1, Pass
  <2> QED BY <2>2, <2>3, <2>4
<1>2. /\ pruned \in Nat /\ pruned <= now /\ written \in SUBSET Nat
      /\ HourlyDays * Day \in Nat /\ DailyDays * Day \in Nat
  BY Periods DEF TypeOK
<1> HIDE DEF S
<1>3. ASSUME NEW e \in S
      PROVE  /\ now - e <= HourlyDays * Day =>
                   \E f \in entries' : f >= e /\ HourOf(f) = HourOf(e)
             /\ now - e <= DailyDays * Day =>
                   \E f \in entries' : f >= e /\ DayOf(f) = DayOf(e)
  <2> DEFINE K == Keep(S, M, pins \cup {cur})
  <2>1. S \in SUBSET Nat /\ now \in Nat /\ e \in S /\ (\A j \in S : j <= now)
    BY <1>1, Zenon
  <2>2. /\ now - e <= HourlyDays * Day => \E f \in K : f >= e /\ HourOf(f) = HourOf(e)
        /\ now - e <= DailyDays * Day => \E f \in K : f >= e /\ DayOf(f) = DayOf(e)
    BY <2>1, Represented, SMTT(20)
  <2>3. entries' = K
    BY <1>1, Zenon
  <2> QED BY <2>2, <2>3, Zenon
<1> USE Periods
<1>4. ASSUME NEW e \in written, now - e <= HourlyDays * Day
      PROVE  \E f \in entries' : f >= e /\ HourOf(f) = HourOf(e)
  <2>1. e \in Nat /\ Within(e, HourlyDays)
    BY <1>1, <1>2, <1>4 DEF Within
  <2>2. PICK g \in entries : g >= e /\ HourOf(g) = HourOf(e)
    BY <2>1 DEF RememberInv
  <2>3. g \in S /\ g \in Nat /\ now - g <= HourlyDays * Day
    BY <1>1, <1>4, <2>1, <2>2 DEF S
  <2>4. PICK f \in entries' : f >= g /\ HourOf(f) = HourOf(g)
    BY <1>3, <2>3
  <2>5. f \in Nat /\ f >= e
    BY <1>1, <2>1, <2>2, <2>3, <2>4
  <2> QED BY <2>2, <2>4, <2>5
<1>5. ASSUME NEW e \in written, now - e <= DailyDays * Day
      PROVE  \E f \in entries' : f >= e /\ DayOf(f) = DayOf(e)
  <2>1. e \in Nat /\ Within(e, DailyDays)
    BY <1>1, <1>2, <1>5 DEF Within
  <2>2. PICK g \in entries : g >= e /\ DayOf(g) = DayOf(e)
    BY <2>1 DEF RememberInv
  <2>3. g \in S /\ g \in Nat /\ now - g <= DailyDays * Day
    BY <1>1, <1>5, <2>1, <2>2 DEF S
  <2>4. PICK f \in entries' : f >= g /\ DayOf(f) = DayOf(g)
    BY <1>3, <2>3
  <2>5. f \in Nat /\ f >= e
    BY <1>1, <2>1, <2>2, <2>3, <2>4
  <2> QED BY <2>2, <2>4, <2>5
<1>6. written' \subseteq 1 .. pruned'
  BY <1>1 DEF TypeOK
<1> QED BY <1>1, <1>3, <1>4, <1>5, <1>6 DEF RememberInv, Within, HourOf, DayOf

LEMMA RememberStep == TypeOK /\ RememberInv /\ [Next]_vars => RememberInv'
<1> SUFFICES ASSUME TypeOK, RememberInv, [Next]_vars PROVE RememberInv'
  OBVIOUS
<1>1. CASE Save
  BY <1>1, RememberPass DEF Save
<1>2. CASE Restore
  <2>1. current \in entries
    BY <1>2 DEF Restore, TypeOK
  <2> QED BY <1>2, <2>1, RememberPass DEF Restore
<1>3. ASSUME UNCHANGED <<entries, written, pruned>> PROVE RememberInv'
  BY <1>3 DEF RememberInv, Within, HourOf, DayOf
<1>4. CASE Tick \/ (\E e \in entries : Pin(e) \/ Unpin(e)) \/ UNCHANGED vars
  BY <1>3, <1>4 DEF Tick, Pin, Unpin, vars
<1> QED BY <1>1, <1>2, <1>4 DEF Next

\* "One per hour for 30 days, one per day for 180 days": of every hour and every day of
\* the windows in which a snapshot was written one is left, whatever was pruned, pinned,
\* unpinned or made current since (storage.rs prune).
THEOREM NothingForgotten == Spec => []PeriodsRemembered
<1>1. Init => RememberInv
  BY DEF Init, RememberInv
<1>2. RememberInv => PeriodsRemembered
  BY DEF RememberInv, PeriodsRemembered, Within
<1> QED BY <1>1, <1>2, TypeCorrect, RememberStep, PTL DEF Spec

-----------------------------------------------------------------------------
\* What is within n periods of another time has a quotient within n of its quotient.
LEMMA QuotientShift ==
  ASSUME NEW a \in Int, NEW b \in Int, NEW d \in Nat \ {0}, NEW n \in Int
  PROVE  /\ a >= b - d * n => a \div d >= b \div d - n
         /\ a <= b - d * n => a \div d <= b \div d - n
<1> DEFINE q == a \div d
           p == b \div d
<1>1. q \in Int /\ d * q <= a /\ a < d * q + d
  BY Quotient
<1>2. p \in Int /\ d * p <= b /\ b < d * p + d
  BY Quotient
<1> HIDE DEF p, q
<1>3. ASSUME a >= b - d * n, q < p - n PROVE FALSE
  <2>1. d * (p - n - q) >= d
    BY <1>1, <1>2, <1>3, ProductGrows
  <2>2. d * (p - n - q) = d * p - d * n - d * q
    BY <1>1, <1>2
  <2> QED BY <1>1, <1>2, <1>3, <2>1, <2>2
<1>4. ASSUME a <= b - d * n, q > p - n PROVE FALSE
  <2>1. d * (q - (p - n)) >= d
    BY <1>1, <1>2, <1>4, ProductGrows
  <2>2. d * (q - (p - n)) = d * q - d * p + d * n
    BY <1>1, <1>2
  <2> QED BY <1>1, <1>2, <1>4, <2>1, <2>2
<1>5. (a >= b - d * n => q >= p - n) /\ (a <= b - d * n => q <= p - n)
  BY <1>1, <1>2, <1>3, <1>4
<1> QED BY <1>5 DEF p, q

\* One for each of the periods that the set reaches into.
LEMMA PeriodsBound ==
  ASSUME NEW S \in SUBSET Nat, NEW length \in Nat \ {0}, NEW a \in Int, NEW n \in Nat,
         \A e \in S : e \div length \in a .. (a + n)
  PROVE  /\ IsFiniteSet(NewestPer(S, length))
         /\ Cardinality(NewestPer(S, length)) <= n + 1
<1> DEFINE N == NewestPer(S, length)
           index == [e \in N |-> e \div length]
<1>1. N \in SUBSET S
  BY DEF NewestPer
<1>2. index \in [N -> a .. (a + n)]
  BY <1>1
<1>3. ASSUME NEW e \in N, NEW f \in N, index[e] = index[f] PROVE e = f
  <2>1. e \in Nat /\ f \in Nat /\ e \in S /\ f \in S /\ e \div length = f \div length
    BY <1>1, <1>3
  <2>2. ~(f > e) /\ ~(e > f)
    BY <2>1 DEF NewestPer
  <2> QED BY <2>1, <2>2
<1>4. index \in Injection(N, a .. (a + n))
  BY <1>2, <1>3, Zenon DEF Injection, IsInjective
<1>5. IsFiniteSet(a .. (a + n)) /\ Cardinality(a .. (a + n)) = n + 1
  <2>1. a + n \in Int /\ ~(a > a + n) /\ a + n - a + 1 = n + 1
    OBVIOUS
  <2> QED BY <2>1, FS_Interval
<1> HIDE DEF N, index
<1>6. IsFiniteSet(N) /\ Cardinality(N) <= n + 1
  BY <1>4, <1>5, FS_Injection
<1> QED BY <1>6 DEF N

LEMMA UnionBound ==
  ASSUME NEW A, IsFiniteSet(A), NEW B, IsFiniteSet(B), NEW m \in Nat, NEW n \in Nat,
         Cardinality(A) <= m, Cardinality(B) <= n
  PROVE  IsFiniteSet(A \cup B) /\ Cardinality(A \cup B) <= m + n
<1>1. IsFiniteSet(A \cup B)
      /\ Cardinality(A \cup B) = Cardinality(A) + Cardinality(B) - Cardinality(A \cap B)
  BY FS_Union
<1>2. IsFiniteSet(A \cap B)
  BY FS_Subset
<1>3. Cardinality(A) \in Nat /\ Cardinality(B) \in Nat /\ Cardinality(A \cap B) \in Nat
  BY <1>2, FS_CardinalityType
<1> QED BY <1>1, <1>3

\* What the windows keep.
LEMMA HourlyBound ==
  ASSUME NEW S \in SUBSET Nat, now \in Nat, \A j \in S : j <= now, NEW exempt
  PROVE  /\ IsFiniteSet(NewestPer(Hourly(S, exempt), Minutes))
         /\ Cardinality(NewestPer(Hourly(S, exempt), Minutes)) <= HourlyDays * Hours + 1
<1> DEFINE H == Hourly(S, exempt)
           n == HourlyDays * Hours
           a == now \div Minutes - n
<1>1. Minutes \in Nat \ {0} /\ Hours \in Nat /\ HourlyDays \in Nat /\ n \in Nat
  BY Periods
<1>2. HourlyDays * Day = Minutes * n
  BY <1>1 DEF Day
<1>3. now \div Minutes \in Int /\ a \in Int
  BY <1>1, Quotient
<1>4. H \in SUBSET Nat
  BY DEF Hourly, Counted
<1>5. \A e \in H : now - e <= Minutes * n
  BY <1>2 DEF Hourly, Counted
<1> HIDE DEF n
<1>6. ASSUME NEW e \in H PROVE e \div Minutes \in a .. (a + n)
  <2>1. e \in Int /\ e >= now - Minutes * n /\ e <= now - Minutes * 0
    BY <1>1, <1>4, <1>5 DEF Hourly, Counted
  <2>2. e \div Minutes >= now \div Minutes - n /\ e \div Minutes <= now \div Minutes - 0
    BY <1>1, <2>1, QuotientShift
  <2>3. e \div Minutes \in Int
    BY <1>1, <2>1, Quotient
  <2> QED BY <1>1, <1>3, <2>2, <2>3
<1> HIDE DEF H, a
<1>7. IsFiniteSet(NewestPer(H, Minutes)) /\ Cardinality(NewestPer(H, Minutes)) <= n + 1
  BY <1>1, <1>3, <1>4, <1>6, PeriodsBound
<1> QED BY <1>7 DEF H, n

LEMMA DailyBound ==
  ASSUME NEW S \in SUBSET Nat, now \in Nat, \A j \in S : j <= now, NEW exempt
  PROVE  /\ IsFiniteSet(NewestPer(Daily(S, exempt), Day))
         /\ Cardinality(NewestPer(Daily(S, exempt), Day)) <= DailyDays - HourlyDays + 1
<1> DEFINE D == Daily(S, exempt)
           n == DailyDays - HourlyDays
           a == now \div Day - DailyDays
<1>1. Day \in Nat \ {0} /\ DailyDays \in Nat /\ HourlyDays \in Nat /\ n \in Nat
  BY Periods
<1>2. now \div Day \in Int /\ a \in Int
  BY <1>1, Quotient
<1>3. D \in SUBSET Nat
  BY DEF Daily, Counted
<1>4. \A e \in D : now - e <= DailyDays * Day /\ ~(now - e <= HourlyDays * Day)
  BY DEF Daily, Hourly, Counted
<1>5. ASSUME NEW e \in D PROVE e \div Day \in a .. (a + n)
  <2>1. DailyDays * Day = Day * DailyDays /\ HourlyDays * Day = Day * HourlyDays
        /\ Day * DailyDays \in Int /\ Day * HourlyDays \in Int
    BY <1>1
  <2>2. e \in Int /\ e >= now - Day * DailyDays /\ e <= now - Day * HourlyDays
    BY <1>3, <1>4, <2>1
  <2>3. e \div Day >= now \div Day - DailyDays /\ e \div Day <= now \div Day - HourlyDays
    BY <1>1, <2>2, QuotientShift
  <2>4. e \div Day \in Int
    BY <1>1, <2>2, Quotient
  <2> QED BY <1>1, <1>2, <2>3, <2>4
<1> HIDE DEF D, a, n
<1>6. IsFiniteSet(NewestPer(D, Day)) /\ Cardinality(NewestPer(D, Day)) <= n + 1
  BY <1>1, <1>2, <1>3, <1>5, PeriodsBound
<1> QED BY <1>6 DEF D, n

LEMMA PassBound ==
  ASSUME TypeOK, NEW M \in SUBSET (marks \cup {now}), NEW cur \in entries \cup {now},
         Prune(entries \cup {now}, M, cur), UNCHANGED <<now, pins>>
  PROVE  Cardinality(entries' \ pins') <=
            Recent + Safety + 1 + (HourlyDays * Hours + 1) + (DailyDays - HourlyDays + 1)
<1> DEFINE S == entries \cup {now}
           X == pins \cup {cur}
           A == Newest(S, Recent)
           B == Newest(M, Safety)
           H == NewestPer(Hourly(S, X), Minutes)
           D == NewestPer(Daily(S, X), Day)
           h == HourlyDays * Hours + 1
           d == DailyDays - HourlyDays + 1
<1>1. M \in SUBSET S
  BY DEF TypeOK
<1>2. S \in SUBSET Nat /\ IsFiniteSet(S) /\ now \in Nat
  BY <1>1, Pass
<1>3. \A j \in S : j <= now
  BY <1>1, Pass
<1>4. entries' = Keep(S, M, X)
  BY <1>1, Pass
<1>5. Recent \in Nat /\ Safety \in Nat /\ 1 \in Nat /\ h \in Nat /\ d \in Nat
  BY Periods
<1>6. M \in SUBSET Nat /\ IsFiniteSet(M)
  <2> HIDE DEF S
  <2> QED BY <1>1, <1>2, FS_Subset
<1>7. IsFiniteSet(A) /\ Cardinality(A) <= Recent
  BY <1>2, <1>5, NewestBound
<1>8. IsFiniteSet(B) /\ Cardinality(B) <= Safety
  BY <1>5, <1>6, NewestBound
<1>9. IsFiniteSet({cur}) /\ Cardinality({cur}) <= 1
  <2>1. IsFiniteSet({cur}) /\ Cardinality({cur}) = 1
    BY FS_Singleton, Zenon
  <2> QED BY <2>1
<1>10. IsFiniteSet(H) /\ Cardinality(H) <= h
  <2> HIDE DEF S, X
  <2> QED BY <1>2, <1>3, HourlyBound
<1>11. IsFiniteSet(D) /\ Cardinality(D) <= d
  <2> HIDE DEF S, X
  <2> QED BY <1>2, <1>3, DailyBound
<1>12. entries' \ pins' \in SUBSET (A \cup B \cup {cur} \cup H \cup D)
  BY <1>4 DEF Keep
<1> HIDE DEF S, X, A, B, H, D, h, d
<1>13. IsFiniteSet(A \cup B) /\ Cardinality(A \cup B) <= Recent + Safety
  BY <1>5, <1>7, <1>8, UnionBound
<1>14. /\ IsFiniteSet(A \cup B \cup {cur})
       /\ Cardinality(A \cup B \cup {cur}) <= Recent + Safety + 1
  <2>1. Recent + Safety \in Nat
    BY <1>5
  <2> QED BY <1>5, <1>9, <1>13, <2>1, UnionBound
<1>15. /\ IsFiniteSet(A \cup B \cup {cur} \cup H)
       /\ Cardinality(A \cup B \cup {cur} \cup H) <= Recent + Safety + 1 + h
  <2>1. Recent + Safety + 1 \in Nat
    BY <1>5
  <2> QED BY <1>5, <1>10, <1>14, <2>1, UnionBound
<1>16. /\ IsFiniteSet(A \cup B \cup {cur} \cup H \cup D)
       /\ Cardinality(A \cup B \cup {cur} \cup H \cup D) <= Recent + Safety + 1 + h + d
  <2>1. Recent + Safety + 1 + h \in Nat
    BY <1>5
  <2> QED BY <1>5, <1>11, <1>15, <2>1, UnionBound
<1>17. /\ IsFiniteSet(entries' \ pins')
       /\ Cardinality(entries' \ pins') <= Cardinality(A \cup B \cup {cur} \cup H \cup D)
  BY <1>12, <1>16, FS_Subset
<1>18. /\ Cardinality(entries' \ pins') \in Nat
       /\ Cardinality(A \cup B \cup {cur} \cup H \cup D) \in Nat
  BY <1>16, <1>17, FS_CardinalityType
<1>19. Cardinality(entries' \ pins') <= Recent + Safety + 1 + h + d
  BY <1>5, <1>16, <1>17, <1>18
<1> QED BY <1>19 DEF h, d

\* Retention bounds what a pass leaves, pins aside, for every policy and every history
\* (storage.rs prune).
THEOREM BoundHolds == Spec => HistoryBounded
<1>1. TypeOK /\ [Next]_vars =>
        [entries' # entries =>
            Cardinality(entries' \ pins') <=
              Recent + Safety + 1 + (HourlyDays * Hours + 1) + (DailyDays - HourlyDays + 1)]_vars
  <2> SUFFICES ASSUME TypeOK, [Next]_vars, entries' # entries
               PROVE  Cardinality(entries' \ pins') <=
                         Recent + Safety + 1 + (HourlyDays * Hours + 1)
                           + (DailyDays - HourlyDays + 1)
    OBVIOUS
  <2>1. CASE Save
    BY <2>1, PassBound DEF Save
  <2>2. CASE Restore
    <3>1. current \in entries
      BY <2>2 DEF Restore, TypeOK
    <3> QED BY <2>2, <3>1, PassBound DEF Restore
  <2> QED BY <2>1, <2>2 DEF Next, Tick, Pin, Unpin, vars
<1> QED BY <1>1, TypeCorrect, PTL DEF Spec, HistoryBounded
=============================================================================
