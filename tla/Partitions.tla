----------------------------- MODULE Partitions -----------------------------
(***************************************************************************)
(* The calendar of the partition manager: internal/isoweek, the bounds of  *)
(* internal/common/intervals.go, and the names, bounds and prefixes of     *)
(* partitions in pkg/database/partman, as operators.  Module               *)
(* PartitionPrune has Check as a process, on periods that are numbers;     *)
(* here is what makes a day a period.                                      *)
(*                                                                         *)
(* A day is its Julian day number, a partition [intv, time, name], a row   *)
(* of the catalogue [name, low, up]; a name is what is formatted into it.  *)
(***************************************************************************)
EXTENDS Integers, Sequences
LOCAL S == INSTANCE SequencesExt

Intervals == {"daily", "weekly", "monthly", "quarterly", "yearly"}
DaysInWeek == 7
MonthsInQuarter == 3

(***************************************************************************)
(* isoweek.                                                                *)
(***************************************************************************)
DateToJulian(year, month, day) ==
    LET y == (IF month < 3 THEN year - 1 ELSE year) + 4800
        m == IF month < 3 THEN month + 12 ELSE month
    IN day + (153 * (m - 3) + 2) \div 5 + 365 * y
         + y \div 4 - y \div 100 + y \div 400 - 32045
JulianToDate(jdn) ==
    LET e == 4 * (jdn + 1401 + (((4 * jdn + 274277) \div 146097) * 3) \div 4 - 38) + 3
        h == ((e % 1461) \div 4) * 5 + 2
        month == (((h \div 153) + 2) % 12) + 1
    IN [year |-> e \div 1461 - 4716 + (14 - month) \div 12,
        month |-> month, day |-> (h % 153) \div 5 + 1]
ISOWeekday(jdn) == (jdn % 7) + 1
startOffset(y, week) ==
    LET p == y - 1
    IN week * 7 - ((p + p \div 4 - p \div 100 + p \div 400 + 3) % 7) - 4
StartDate(wyear, week) == DateToJulian(wyear, 1, 1) + startOffset(wyear, week)
ordinalInYear(jdn) == jdn - DateToJulian(JulianToDate(jdn).year, 1, 1) + 1

\* The last days of a year may be in the first week of the next, the first ones in
\* the last week of the one before.
FromDate(jdn) ==
    LET week(j) == (ordinalInYear(j) - ISOWeekday(j) + 10) \div 7
        late(j) == LET y == JulianToDate(j).year
                   IN IF week(j) = 53 /\ StartDate(y + 1, 1) <= j
                      THEN [year |-> y + 1, week |-> 1] ELSE [year |-> y, week |-> week(j)]
    IN IF week(jdn) < 1 THEN late(DateToJulian(JulianToDate(jdn).year - 1, 12, 31))
       ELSE late(jdn)

(***************************************************************************)
(* The time package: Date and AddDate normalise, first the month and then  *)
(* the day; a week of ISOWeek is of the year that has its Thursday.        *)
(***************************************************************************)
Date(year, month, day) ==
    DateToJulian(year + (month - 1) \div 12, ((month - 1) % 12) + 1, 1) + day - 1
AddDate(jdn, years, months, days) ==
    LET d == JulianToDate(jdn) IN Date(d.year + years, d.month + months, d.day + days)
Weekday(jdn) == ISOWeekday(jdn) % 7
ISOWeek(jdn) ==
    LET thursday == jdn - ISOWeekday(jdn) + 4
    IN [year |-> JulianToDate(thursday).year, week |-> (ordinalInYear(thursday) - 1) \div 7 + 1]

(***************************************************************************)
(* Bounds: from low up to, and not including, up.                          *)
(***************************************************************************)
Quarter(jdn) == (JulianToDate(jdn).month - 1) \div MonthsInQuarter
GetWeeklyBounds(jdn) ==
    LET low == AddDate(jdn, 0, 0, -(Weekday(jdn) - 1))
    IN [low |-> low, up |-> AddDate(low, 0, 0, DaysInWeek)]
GetMonthlyBounds(jdn) ==
    LET low == Date(JulianToDate(jdn).year, JulianToDate(jdn).month, 1)
    IN [low |-> low, up |-> AddDate(low, 0, 1, 0)]
GetQuarterlyBounds(jdn) ==
    LET low == Date(JulianToDate(jdn).year, Quarter(jdn) * MonthsInQuarter + 1, 1)
    IN [low |-> low, up |-> AddDate(low, 0, MonthsInQuarter, 0)]
GetYearlyBounds(jdn) ==
    LET low == Date(JulianToDate(jdn).year, 1, 1) IN [low |-> low, up |-> AddDate(low, 1, 0, 0)]
Bounds(intv, jdn) ==
    CASE intv = "daily"     -> [low |-> jdn, up |-> jdn + 1]
      [] intv = "weekly"    -> GetWeeklyBounds(jdn)
      [] intv = "monthly"   -> GetMonthlyBounds(jdn)
      [] intv = "quarterly" -> GetQuarterlyBounds(jdn)
      [] intv = "yearly"    -> GetYearlyBounds(jdn)

(***************************************************************************)
(* Partitions.                                                             *)
(***************************************************************************)
setName(intv, time) ==
    LET d == JulianToDate(time)
    IN CASE intv = "daily"     -> <<"daily", d.year, d.month, d.day>>
         [] intv = "weekly"    -> <<"weekly", ISOWeek(time).year, ISOWeek(time).week>>
         [] intv = "monthly"   -> <<"monthly", d.year, d.month>>
         [] intv = "quarterly" -> <<"quarterly", d.year, Quarter(time) + 1>>
         [] intv = "yearly"    -> <<"yearly", d.year>>
newPartition(intv, time) == [intv |-> intv, time |-> time, name |-> setName(intv, time)]

Next(p, i) ==
    LET d == JulianToDate(p.time)
    IN newPartition(p.intv,
         CASE p.intv = "daily"     -> AddDate(p.time, 0, 0, i)
           [] p.intv = "weekly"    -> AddDate(p.time, 0, 0, i * DaysInWeek)
           [] p.intv = "monthly"   -> Date(d.year, d.month + i, 1)
           [] p.intv = "quarterly" -> AddDate(p.time, 0, i * MonthsInQuarter, 0)
           [] p.intv = "yearly"    -> Date(d.year + i, 1, 1))
Prev(p, i) == Next(p, -i)
Range(p) == Bounds(p.intv, p.time)

retentionPartitions(cfg, cur) == {Prev(cur, i) : i \in 1..cfg.retain}
futurePartitions(cfg, cur) == {Next(cur, i) : i \in 1..cfg.preProvision}
expectedPartitions(cfg, now) ==
    LET cur == newPartition(cfg.intv, now)
    IN {cur} \cup (IF cfg.retain > -1 THEN retentionPartitions(cfg, cur) ELSE {})
             \cup futurePartitions(cfg, cur)

\* What the catalogue shows of a bound depends on the time zone of the session, and
\* the patterns have no minutes of one.
ParseBounds(row, zone) == [ok |-> zone % 60 = 0 /\ row.low <= row.up, low |-> row.low]

\* A partition that is there must have the name its lower bound would give it.
StartOf(name) ==
    CASE name[1] = "daily" -> Date(name[2], name[3], name[4])
      [] name[1] = "weekly" -> StartDate(name[2], name[3])
      [] name[1] = "monthly" -> Date(name[2], name[3], 1)
      [] name[1] = "quarterly" -> Date(name[2], (name[3] - 1) * MonthsInQuarter + 1, 1)
      [] name[1] = "yearly" -> Date(name[2], 1, 1)
verifyPartName(row, zone) ==
    ParseBounds(row, zone).ok /\ StartOf(row.name) = ParseBounds(row, zone).low
ExistingPartitions(cfg, rows) ==
    [ok |-> \A r \in rows : verifyPartName(r, cfg.zone) /\ r.name[1] = cfg.intv,
     parts |-> {[intv |-> cfg.intv, time |-> r.low, name |-> r.name] : r \in rows}]

\* By name.
comparePartitions(existing, expected) ==
    LET has(parts, p) == \E q \in parts : q.name = p.name
    IN [unexpected |-> {p \in existing : ~has(expected, p)},
        missing |-> {p \in expected : ~has(existing, p)}]

\* CREATE TABLE: another table has the name, or another partition some of the range.
createPartition(db, p) ==
    LET row == [name |-> p.name, low |-> Range(p).low, up |-> Range(p).up]
        clashes == \/ p.name \in db.tables
                   \/ \E r \in db.rows : r.name = p.name \/ (r.low < row.up /\ row.low < r.up)
    IN [db EXCEPT !.rows = @ \cup {row}, !.ok = @ /\ ~clashes]
prunePartition(cfg, db, p) ==
    [db EXCEPT !.rows = {r \in @ : r.name # p.name},
               !.tables = IF cfg.drop THEN @ ELSE @ \cup {p.name}]

\* Check, when nothing else fails: db has the partitions, and the tables of the
\* detached ones; an error leaves all as it was.
Check(cfg, db, now) ==
    LET existing == ExistingPartitions(cfg, db.rows)
        diff == comparePartitions(existing.parts, expectedPartitions(cfg, now))
        pruned == IF cfg.retain = -1 THEN db
                  ELSE S!FoldLeft(LAMBDA d, p : prunePartition(cfg, d, p), db,
                                S!SetToSeq(diff.unexpected))
        created == S!FoldLeft(LAMBDA d, p : createPartition(d, p), [pruned EXCEPT !.ok = TRUE],
                            S!SetToSeq(diff.missing))
    IN IF existing.ok /\ created.ok THEN created ELSE [db EXCEPT !.ok = FALSE]

\* The Checks of days in a row; an error ends nothing.
Go(cfg, db, days) == S!FoldLeft(LAMBDA d, j : Check(cfg, d, j), db, days)

(***************************************************************************)
(* The prefix of a call's audio: utc is the day the call was made, own the *)
(* day on the clock its time was given with.                               *)
(***************************************************************************)
PartitionPrefix(intv, utc, own) ==
    CASE intv = "weekly"    -> <<"weekly", FromDate(own).year, FromDate(own).week>>
      [] intv = "quarterly" -> <<"quarterly", JulianToDate(own).year, Quarter(Bounds(intv, utc).low) + 1>>
      [] OTHER              -> setName(intv, Bounds(intv, utc).low)
=============================================================================
