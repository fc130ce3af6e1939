------------------------------ MODULE Trending ------------------------------
(***************************************************************************)
(* What the alerter scores with: internal/timeseries, internal/trending    *)
(* and internal/trending/slidingwindow, as operators on records.           *)
(*                                                                         *)
(* A time series keeps the number of events at several granularities, in   *)
(* one ring of buckets each; what happened within the last step of the     *)
(* finest one is pending.  Moments are integers, Zero is time.Time{}; a    *)
(* sum over parts of buckets is a fraction, kept in units of 1/Scale.      *)
(***************************************************************************)
EXTENDS Integers, Sequences, SequencesExt, FiniteSetsExt

CONSTANTS Zero, Scale

Truncate(time, g) == time - (time % g)
Earlier(a, b) == IF a < b THEN a ELSE b
Later(a, b) == IF a > b THEN a ELSE b

(***************************************************************************)
(* One level: granularity g, n buckets, the end, the index of the oldest.  *)
(***************************************************************************)
clear(l, time) ==
    [l EXCEPT !.oldest = 1, !.end = Truncate(time, l.g), !.buckets = [i \in 0..(l.n - 1) |-> 0]]
newLevel(g, n) ==
    clear([g |-> g, n |-> n, end |-> Zero, oldest |-> 1, buckets |-> <<>>], Zero)
duration(l) == l.g * l.n - l.g
earliest(l) == l.end - duration(l)

\* The bucket of a moment, counted from the oldest.
levelIncrease(l, amount, time) ==
    LET steps == (l.n - 1) - (l.end - Truncate(time, l.g)) \div l.g
    IN [l EXCEPT !.buckets[(l.oldest + steps) % l.n] = @ + amount]

\* The end goes up to the target, or past it; each step empties a bucket.
levelAdvance(l, target) ==
    LET k == IF target > l.end THEN (target - l.end + l.g - 1) \div l.g ELSE 0
        emptied == {(l.oldest + j) % l.n : j \in 0..(k - 1)}
    IN [l EXCEPT !.end = @ + k * l.g, !.oldest = (@ + k) % l.n,
                 !.buckets = [i \in 0..(l.n - 1) |-> IF i \in emptied THEN 0 ELSE l.buckets[i]]]

\* Buckets that overlap with the ends of the interval count in proportion; what
\* has not happened yet, after latest, is not part of a bucket.
sumInterval(l, from, to, latest) ==
    LET start == Later(from, earliest(l))
        end == Earlier(to, l.end)
        begin(i) == earliest(l) + i * l.g
        next(i) == Earlier(begin(i) + l.g, latest)
        from0 == (start - earliest(l)) \div l.g
        counted == {i \in from0..(l.n - 1) : \A j \in from0..i : begin(j) < end /\ next(j) >= start}
        part(i) == LET count == l.buckets[(l.oldest + i) % l.n]
                   IN IF begin(i) < start \/ next(i) > end
                      THEN (count * Scale * (Earlier(next(i), end) - Later(begin(i), start)))
                             \div l.g
                      ELSE count * Scale
    IN MapThenSumSet(part, counted)

(***************************************************************************)
(* The time series.                                                        *)
(***************************************************************************)
\* Granularities are strictly increasing, and no count is zero.
checkGranularities(gs) ==
    /\ gs # <<>>
    /\ \A i \in DOMAIN gs : gs[i].n # 0 /\ gs[i].g > (IF i = 1 THEN 0 ELSE gs[i - 1].g)
NewTimeSeries(gs) ==
    [levels |-> [i \in DOMAIN gs |-> newLevel(gs[i].g, gs[i].n)],
     pending |-> 0, pendingTime |-> Zero, latest |-> Zero]

increaseAtTime(ts, amount, time) ==
    LET told(l) == IF time < l.end - duration(l) THEN l ELSE levelIncrease(l, amount, time)
    IN [ts EXCEPT !.levels = [i \in DOMAIN @ |-> told(@[i])]]

\* A level whose every bucket is too old is emptied, and ends before the target;
\* then what is pending is told to the levels, which now end later.
advanceLevels(ts, target) ==
    LET later(l) == IF target >= l.end + duration(l) THEN clear(l, target)
                    ELSE levelAdvance(l, target)
    IN [ts EXCEPT !.levels = [i \in DOMAIN @ |-> later(@[i])]]
handlePending(ts) ==
    LET told == increaseAtTime(ts, ts.pending, ts.pendingTime)
    IN [told EXCEPT !.pending = 0, !.pendingTime = told.levels[1].end]
advance(ts, target) ==
    IF target > ts.pendingTime THEN handlePending(advanceLevels(ts, target)) ELSE ts

IncreaseAtTime(ts, amount, time) ==
    LET seen == [ts EXCEPT !.latest = Later(@, time)]
    IN IF time > ts.pendingTime THEN [advance(seen, time) EXCEPT !.pending = amount]
       ELSE IF time > ts.pendingTime - ts.levels[1].g THEN [seen EXCEPT !.pending = @ + 1]
       ELSE increaseAtTime(seen, amount, time)

\* The sum over an interval, of the finest level that reaches back to its start,
\* or of the coarsest; nothing when the series has nothing of it.
intersects(ts, start, end) ==
    LET biggest == Last(ts.levels)
    IN end >= biggest.end - duration(biggest) /\ start <= ts.levels[1].end
Range0(ts, start, end) ==
    LET reaching == {i \in DOMAIN ts.levels : start >= earliest(ts.levels[i])}
        level == ts.levels[IF reaching = {} THEN Len(ts.levels) ELSE Min(reaching)]
    IN IF start > end \/ ~intersects(ts, start, end) THEN 0
       ELSE sumInterval(level, start, end, ts.latest)

(***************************************************************************)
(* The score of an item: the counts of the recent past and of all that is  *)
(* stored.  The series is brought up to the clock before each of the two,  *)
(* and the clock is read anew each time: nowTotal and nowRecent, both not  *)
(* before now.                                                             *)
(***************************************************************************)
computeCounts(ts, now, nowTotal, nowRecent, storageDuration, recentDuration) ==
    LET first == advance(ts, nowTotal)
        second == advance(first, nowRecent)
    IN [total |-> Range0(first, now - storageDuration, now),
        recent |-> Range0(second, now - recentDuration, now)]

\* The probability is a fraction: the recent count of the count, or, of an item
\* without a past, of that and the default.
Probability(counts, defaultHourlyCount) ==
    [num |-> counts.recent,
     den |-> IF counts.recent = counts.total THEN counts.recent + defaultHourlyCount * Scale
             ELSE counts.total]

\* The first count of the best scores; of more than count, one less.
take(s, count) == IF count >= Len(s) THEN s ELSE SubSeq(s, 1, count - 1)
\* Those before the first one below t, of scores in order.
threshold(s, t) ==
    IF \E i \in DOMAIN s : s[i] < t
    THEN SubSeq(s, 1, Min({i \in DOMAIN s : s[i] < t}) - 1) ELSE s

(***************************************************************************)
(* The sliding window: the largest of what was inserted in each step.      *)
(***************************************************************************)
newSlidingWindow(step, dur, now) ==
    [n |-> dur \div step, step |-> step, dur |-> dur, end |-> Truncate(now, step) - dur,
     oldest |-> 1, newest |-> 0, buffer |-> [i \in 0..((dur \div step) - 1) |-> 0]]

\* The buffer's index 1 is written when the end first moves: a window of one
\* step has no such index.
InBounds(sw, now) ==
    Truncate(now, sw.step) - sw.dur > sw.end => sw.oldest \in DOMAIN sw.buffer
windowAdvance(sw, now) ==
    LET newEnd == Truncate(now, sw.step) - sw.dur
        k == IF newEnd > sw.end THEN (newEnd - sw.end) \div sw.step ELSE 0
        emptied == {(sw.oldest + j) % sw.n : j \in 0..(k - 1)}
    IN IF k = 0 THEN sw
       ELSE [sw EXCEPT !.end = newEnd, !.newest = (sw.oldest + k - 1) % sw.n,
                       !.oldest = (@ + k) % sw.n,
                       !.buffer = [i \in DOMAIN @ |-> IF i \in emptied THEN 0 ELSE @[i]]]
Insert(sw, now, score) ==
    LET w == windowAdvance(sw, now)
    IN [w EXCEPT !.buffer[w.newest] = Later(@, score)]
WindowMax(sw, now) ==
    LET w == windowAdvance(sw, now) IN Max({0} \cup {w.buffer[i] : i \in DOMAIN w.buffer})
=============================================================================
