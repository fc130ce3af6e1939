---------------------------- MODULE MCPartitions ----------------------------
(***************************************************************************)
(* Partitions against the calendar, day after day: a leap year with its    *)
(* ends, and for the weeks of the ISO calendar three years.                *)
(***************************************************************************)
LOCAL INSTANCE Integers
LOCAL INSTANCE Sequences
LOCAL INSTANCE FiniteSets
LOCAL P == INSTANCE Partitions

LOCAL DayOf(y, m, d) == P!DateToJulian(y, m, d)
LOCAL Year == DayOf(2023, 12, 20)..DayOf(2025, 1, 14)
LOCAL Years == DayOf(2019, 12, 20)..DayOf(2022, 1, 14)

\* isoweek agrees with the time package, and its two directions with each other.
ASSUME ISOWeeksAgree ==
    \A j \in Years :
        LET d == P!JulianToDate(j)
            w == P!FromDate(j)
        IN /\ P!DateToJulian(d.year, d.month, d.day) = j
           /\ w = P!ISOWeek(j)
           /\ P!StartDate(w.year, w.week) = j - P!ISOWeekday(j) + 1

(***************************************************************************)
(* Bounds.                                                                 *)
(***************************************************************************)
LOCAL Sunday(j) == P!Weekday(j) = 0
LOCAL Period(intv, j) ==
    LET b == P!Bounds(intv, IF intv = "weekly" /\ Sunday(j) THEN j - 1 ELSE j)
    IN b.low..(b.up - 1)

\* A day is in the bounds it is given, and all days of these bounds are given the
\* same; except that a Sunday is given the week after its own.
ASSUME BoundsHold ==
    \A intv \in P!Intervals, j \in Year :
        IF intv = "weekly" /\ Sunday(j) THEN P!Bounds(intv, j) = P!Bounds(intv, j + 1)
        ELSE /\ j \in Period(intv, j)
             /\ \A k \in Period(intv, j) :
                   (intv = "weekly" /\ Sunday(k)) \/ P!Bounds(intv, k) = P!Bounds(intv, j)

\* The name of a partition is verified by the bounds it is created with, except on
\* a Sunday.
ASSUME NamesVerify ==
    \A intv \in P!Intervals, j \in Year :
        LET p == P!newPartition(intv, j)
        IN P!verifyPartName([name |-> p.name, low |-> P!Range(p).low, up |-> P!Range(p).up], 0)
             <=> ~(intv = "weekly" /\ Sunday(j))

(***************************************************************************)
(* The partitions that should exist.                                       *)
(***************************************************************************)
LOCAL Config(intv, retain, ahead) ==
    [intv |-> intv, retain |-> retain, preProvision |-> ahead, drop |-> TRUE, zone |-> 0]
\* The first days of the k periods after that of a day, and of the k before it.
LOCAL Low(intv, j) == P!Bounds(intv, IF intv = "weekly" /\ Sunday(j) THEN j - 1 ELSE j).low
LOCAL Up(intv, j) == P!Bounds(intv, IF intv = "weekly" /\ Sunday(j) THEN j - 1 ELSE j).up
LOCAL After[intv \in P!Intervals, j \in Int, k \in Nat] ==
    IF k = 0 THEN {} ELSE {Up(intv, j)} \cup After[intv, Up(intv, j), k - 1]
LOCAL Before[intv \in P!Intervals, j \in Int, k \in Nat] ==
    IF k = 0 THEN {}
    ELSE LET low == Low(intv, Low(intv, j) - 1) IN {low} \cup Before[intv, low, k - 1]
LOCAL ShouldExist(cfg, j) ==
    {P!setName(cfg.intv, s) :
       s \in {Low(cfg.intv, j)} \cup After[cfg.intv, j, cfg.preProvision]
               \cup Before[cfg.intv, j, cfg.retain]}
LOCAL Names(parts) == {p.name : p \in parts}

\* The 31st of a month that ends a quarter: three months later or earlier there is
\* no such day, and the day after it is of another quarter.
LOCAL Day31(cfg, j) ==
    LET d == P!JulianToDate(j)
    IN cfg.intv = "quarterly" /\ d.day = 31 /\ d.month \in {3, 12}

\* What should exist are the period of the day, so many before and so many after
\* it; except, with quarters, on the last day of March and of December, when one
\* of them is missing.
ASSUME ExpectedInARow ==
    \A intv \in P!Intervals, retain \in {0, 2}, ahead \in {1, 2}, j \in Year :
        LET cfg == Config(intv, retain, ahead)
        IN Names(P!expectedPartitions(cfg, j)) = ShouldExist(cfg, j)
             \/ (Day31(cfg, j) /\ \E n \in ShouldExist(cfg, j) :
                                     n \notin Names(P!expectedPartitions(cfg, j)))

(***************************************************************************)
(* Check, day after day.                                                   *)
(***************************************************************************)
LOCAL Empty == [rows |-> {}, tables |-> {}, ok |-> TRUE]
\* After the Checks of days: the partitions, and whether the last one succeeded.
LOCAL Checked(cfg, days) == P!Go(cfg, Empty, days)
LOCAL Days(from, n) == [i \in 1..n |-> from + i - 1]
LOCAL HasDay(db, j) == \E r \in db.rows : r.low <= j /\ j < r.up

\* A server that checks every day has the partition of every day, the day after
\* too, and no other but those it retains; whenever it starts, but for a Sunday
\* with weeks.  With quarters it must not retain.
ASSUME EveryDayHasItsPartition ==
    \A intv \in P!Intervals \ {"quarterly"}, start \in DayOf(2023, 12, 20)..DayOf(2024, 1, 2) :
        (intv = "weekly" => ~Sunday(start)) =>
        LET cfg == Config(intv, 1, 1)
            db == Checked(cfg, Days(start, 17))
        IN /\ db.ok /\ HasDay(db, start + 16) /\ HasDay(db, start + 17)
           /\ Cardinality(db.rows) = 3

\* Two Checks on a Sunday, the first ever with weeks: the partition of the next
\* week has the name of this one, the second Check refuses it, and the Sunday has
\* no partition.
ASSUME SundayStopsChecks ==
    LET sunday == DayOf(2024, 3, 3)
        db == Checked(Config("weekly", 0, 1), <<sunday, sunday>>)
    IN Sunday(sunday) /\ ~db.ok /\ ~HasDay(db, sunday)

\* With quarters, on the last day of March, the quarter that begins on the next is
\* detached; the table has its name, and it cannot be made again: the first day of
\* April has no partition, and no Check succeeds any more.
ASSUME MarchEndsStopChecks ==
    LET last == DayOf(2024, 3, 31)
        db(drop) == Checked([Config("quarterly", 1, 1) EXCEPT !.drop = drop], Days(last - 1, 3))
    IN /\ ~db(FALSE).ok /\ ~HasDay(db(FALSE), last + 1)
       /\ db(TRUE).ok /\ HasDay(db(TRUE), last + 1)

\* With a session whose time zone has minutes no Check succeeds after the first.
ASSUME MinutesStopChecks ==
    LET cfg == [Config("daily", 1, 1) EXCEPT !.zone = 330]
    IN Checked(cfg, Days(DayOf(2024, 1, 1), 1)).ok /\ ~Checked(cfg, Days(DayOf(2024, 1, 1), 2)).ok

(***************************************************************************)
(* Prefixes.                                                               *)
(***************************************************************************)
LOCAL PartitionOf(intv, j) == P!setName(intv, Low(intv, j))

\* Audio is stored under the prefix of the partition that has its call: with every
\* clock for days, months and years.
ASSUME PrefixIsThePartitions ==
    \A intv \in P!Intervals, j \in Year, own \in {-1, 0, 1} :
        intv \in {"daily", "monthly", "yearly"} \/ own = 0
          => P!PartitionPrefix(intv, j, j + own) = PartitionOf(intv, j)
\* With weeks and quarters the prefix is of the clock the call's time is on: of an
\* earlier partition, whose audio is deleted earlier, or of a later one.
ASSUME OtherClockOtherPrefix ==
    \A intv \in {"weekly", "quarterly"}, own \in {-1, 1} :
        \E j \in Year : P!PartitionPrefix(intv, j, j + own) # PartitionOf(intv, j)
=============================================================================
