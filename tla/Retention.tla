------------------------------ MODULE Retention ------------------------------
(***************************************************************************)
(* The retention policy over a long history (SnapshotStore::prune): which  *)
(* snapshots remain after many saves, restores, pins and unpins, as the    *)
(* hours and days that the policy counts by go past.  SnapshotStore leaves *)
(* the choice of the hourly and daily survivors open; here it is exact,    *)
(* and the file operations are one step.                                   *)
(*                                                                         *)
(* A snapshot is its time stamp, and the clock does not go backwards.      *)
(*                                                                         *)
(* A definition named Faulty... is one that follows it with a mistake,     *)
(* used only to show that the properties can fail.                         *)
(***************************************************************************)
EXTENDS Naturals, FiniteSets

CONSTANTS
    Recent, Safety,          \* retention.recent, retention.safety_snapshots
    HourlyDays, DailyDays,   \* retention.hourly_days, retention.daily_days
    Minutes, Hours,          \* ticks of the clock in an hour, hours in a day
    MaxTime                  \* bound: the clock

RetentionAssumption ==
    /\ {Recent, Safety, HourlyDays, DailyDays} \subseteq Nat
    /\ {Minutes, Hours, MaxTime} \subseteq Nat \ {0}
    /\ HourlyDays <= DailyDays

ASSUME RetentionAssumption

VARIABLES
    now,      \* the clock
    entries,  \* the snapshots of the store
    current,  \* the one current.json names, 0 for none
    pins, marks,  \* the markers under pins/ and safety/
    written,  \* history: every snapshot there ever was
    pruned    \* history: when prune last ran

vars == <<now, entries, current, pins, marks, written, pruned>>

-----------------------------------------------------------------------------
Day == Minutes * Hours

\* The newest n members of S.
Newest(S, n) == {e \in S : Cardinality({f \in S : f > e}) < n}

\* The newest member of S in each period of the given length.
NewestPer(S, length) ==
    {e \in S : ~ \E f \in S : f > e /\ f \div length = e \div length}

\* A pinned snapshot and the current one do not stand for their hour or day.
Counted(S, exempt, days) == {e \in S \ exempt : now - e <= days * Day}

FaultyDaily(S, exempt) ==
    {e \in S \ exempt : now - e > HourlyDays * Day /\ now - e < DailyDays * Day}
Hourly(S, exempt) == Counted(S, exempt, HourlyDays)
Daily(S, exempt) == Counted(S, exempt, DailyDays) \ Hourly(S, exempt)

FaultyUnthinned(S, safe, exempt) ==
    Newest(safe, Safety) \cup Newest(S, Recent) \cup (S \cap exempt)
        \cup Hourly(S, exempt) \cup Daily(S, exempt)
Keep(S, safe, exempt) ==
    Newest(safe, Safety) \cup Newest(S, Recent) \cup (S \cap exempt)
        \cup NewestPer(Hourly(S, exempt), Minutes)
        \cup NewestPer(Daily(S, exempt), Day)

FaultyPrune(S, M, cur) ==
    /\ entries' = Keep(S, S \cap M, pins \cup {cur})
    /\ marks' = M
    /\ pruned' = now
\* prune with the snapshots S and the safety markers M.  A marker whose
\* snapshot is gone is not looked at again.
Prune(S, M, cur) ==
    LET safe == S \cap M
    IN  /\ entries' = Keep(S, safe, pins \cup {cur})
        /\ marks' = M \ (safe \ Newest(safe, Safety))
        /\ pruned' = now

-----------------------------------------------------------------------------
Init ==
    /\ now = 1 /\ entries = {} /\ current = 0 /\ pins = {} /\ marks = {}
    /\ written = {} /\ pruned = 1

Tick ==
    /\ now < MaxTime /\ now' = now + 1
    /\ UNCHANGED <<entries, current, pins, marks, written, pruned>>

\* A save commits a new current snapshot and prunes.
Save ==
    /\ now \notin written /\ written' = written \cup {now}
    /\ current' = now
    /\ Prune(entries \cup {now}, marks, now)
    /\ UNCHANGED <<now, pins>>

\* A restore commits its safety snapshot, marks it and prunes.
Restore ==
    /\ current # 0
    /\ now \notin written /\ written' = written \cup {now}
    /\ Prune(entries \cup {now}, marks \cup {now}, current)
    /\ UNCHANGED <<now, current, pins>>

Pin(e) ==
    /\ e \in entries \ pins /\ pins' = pins \cup {e}
    /\ UNCHANGED <<now, entries, current, marks, written, pruned>>

Unpin(e) ==
    /\ e \in entries \cap pins /\ pins' = pins \ {e}
    /\ UNCHANGED <<now, entries, current, marks, written, pruned>>

Next ==
    \/ Tick \/ Save \/ Restore
    \/ \E e \in entries : Pin(e) \/ Unpin(e)

Spec == Init /\ [][Next]_vars

-----------------------------------------------------------------------------
\* The values every variable can take; safety markers are those of snapshots
\* in the store, no more than the policy keeps.
TypeOK ==
    /\ now \in 1 .. MaxTime /\ pruned \in 1 .. now
    /\ written \subseteq 1 .. now /\ entries \subseteq written
    /\ current \in {0} \cup entries
    /\ pins \subseteq entries
    /\ marks \subseteq entries /\ Cardinality(marks) <= Safety

\* The hour and the day of a snapshot, counted from the beginning of time.
HourOf(e) == e \div Minutes
DayOf(e) == e \div Day

\* "One per hour for 30 days, one per day for 180 days": of every hour in which a
\* snapshot was written one is left as long as the hour is within the hourly window,
\* and of every day within the daily one, also while the hourly window moves across
\* that day, whatever was pruned, pinned, unpinned or made current since.
PeriodsRemembered ==
    \A e \in written :
        /\ pruned - e <= HourlyDays * Day => \E f \in entries : HourOf(f) = HourOf(e)
        /\ pruned - e <= DailyDays * Day => \E f \in entries : DayOf(f) = DayOf(e)

\* What a retention pass leaves is bounded, pins aside: the recent and the
\* safety snapshots, the current one, one per hour and one per day of the
\* windows, where a window can reach into one more hour or day.
HistoryBounded ==
    [][entries' # entries =>
        Cardinality(entries' \ pins') <=
            Recent + Safety + 1 + (HourlyDays * Hours + 1) + (DailyDays - HourlyDays + 1)]_vars
=============================================================================
