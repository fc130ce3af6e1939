----------------------------- MODULE MCTrending -----------------------------
(***************************************************************************)
(* Trending and RuleTime against what they stand for, over all inputs of a *)
(* few events and a short day.                                             *)
(***************************************************************************)
EXTENDS Integers, Sequences, FiniteSets

LOCAL T == INSTANCE Trending WITH Zero <- -48, Scale <- 4
LOCAL R == INSTANCE RuleTime WITH Day <- 8, Minutes <- 2, Seconds <- 2

(***************************************************************************)
(* The time series: two levels, of three buckets of 2 and three of 4.      *)
(***************************************************************************)
Finest == 2
Levels2 == <<[g |-> Finest, n |-> 3], [g |-> 4, n |-> 3]>>
ASSUME LevelsMakeSense == T!checkGranularities(Levels2)

\* Events that are told at now, some of them late; and two of them in a row.
Heard(clock, delays) == {[now |-> n, time |-> n - d] : n \in clock, d \in delays}
InARow(events) == {<<a, b>> \in events \X events : a.now <= b.now}
Series(h) ==
    T!FoldLeft(LAMBDA ts, e : T!IncreaseAtTime(ts, 1, e.time), T!NewTimeSeries(Levels2), h)
Count(h, InWindow(_)) == Cardinality({i \in DOMAIN h : InWindow(h[i].time)})
Kept(l) == T!MapThenSumSet(LAMBDA i : l.buckets[i], DOMAIN l.buckets)

\* However late events are and however long nothing happens, every level has
\* each event that it reaches back to once, and none twice: to within the finest
\* granularity of when it happened.
ASSUME EventsCountOnce ==
    \A h \in InARow(Heard(0..15, {0, 1, 3, 6})), d \in {0, 1, 2, 4, 5, 9} :
        LET ts == T!advance(Series(h), h[2].now + d)
        IN \A i \in DOMAIN Levels2 :
              LET begin == T!earliest(ts.levels[i])
                  kept == Kept(ts.levels[i]) + ts.pending
              IN /\ kept <= Count(h, LAMBDA t : t > begin - Finest)
                 /\ kept >= Count(h, LAMBDA t : t >= begin + Finest)

\* "Date ranges are [start, end[" (timeseries.go:20): for events and an interval
\* that are whole buckets, Range is their number.
ASSUME RangeIsExact ==
    \A h \in InARow(Heard({2 * k : k \in 0..8}, {0, 2, 4, 8})), d \in 0..4,
       start \in {4 * k : k \in -1..4}, end \in {4 * k : k \in 0..5} :
        LET now == h[2].now + d
        IN start < end /\ end <= now /\ start >= T!Truncate(now, 4) - 4
           => T!Range0(T!advance(Series(h), now), start, end)
                = 4 * Count(h, LAMBDA t : start <= t /\ t < end)

\* The recent count is a part of the count, so that the probability is one, when
\* the clock does not move between the two.
ASSUME RecentIsPartOfAll ==
    \A h \in InARow(Heard(0..11, {0, 1, 3, 6})), d \in {0, 1, 4}, recent \in {3, 6} :
        LET now == h[2].now + d
            counts == T!computeCounts(Series(h), now, now, now, 12, recent)
            p == T!Probability(counts, 3)
        IN counts.recent <= counts.total /\ (counts.recent > 0 => p.num <= p.den)
\* When it does, an event that was pending may be recent and not counted at all:
\* the probability of a talkgroup that is heard for the first time is 1/0.
ASSUME SecondReadMayCountMore ==
    \E e \in Heard(0..11, {0}) :
        LET p == T!Probability(T!computeCounts(Series(<<e>>), e.now, e.now, e.now + 2, 12, 4), 3)
        IN p.num > 0 /\ p.den = 0
\* With a lookback of one day the coarsest level reaches back to nothing: what
\* happened before the current hours is not counted (here: three buckets of 2,
\* one of 4).
ASSUME OneDayCountsNothing ==
    LET short == T!NewTimeSeries(<<[g |-> Finest, n |-> 3], [g |-> 4, n |-> 1]>>)
        counts == T!computeCounts(T!IncreaseAtTime(short, 1, 9), 10, 10, 10, 8, 3)
    IN counts.total = 0 /\ counts.recent > 0

(***************************************************************************)
(* The sliding window, and the best scores.                                *)
(***************************************************************************)
\* The maximum is that of the steps that are not older than the window.
ASSUME MaxOfWindow ==
    \A h \in InARow([now : 0..9, score : 1..3]), d \in 0..8 :
        LET sw == T!FoldLeft(LAMBDA w, e : T!Insert(w, e.now, e.score),
                             T!newSlidingWindow(2, 6, 0), h)
            now == h[2].now + d
        IN T!WindowMax(sw, now) =
             T!Max({0} \cup {h[i].score : i \in {j \in 1..2 :
                               T!Truncate(h[j].now, 2) > T!Truncate(now, 2) - 6}})
\* A window of one step indexes past its buffer when the first step is over.
ASSUME OneStepOutOfBounds ==
    /\ ~T!InBounds(T!newSlidingWindow(2, 2, 0), 2)
    /\ \A n \in 2..4, now \in 0..9 : T!InBounds(T!newSlidingWindow(2, 2 * n, 0), now)
\* Of more scores than are asked for, one less than asked for is taken.
ASSUME TakeLosesOne ==
    \A n \in 0..5, count \in 1..5 :
        Len(T!take([i \in 1..n |-> i], count)) = IF n <= count THEN n ELSE count - 1
ASSUME ThresholdKeepsTheBest ==
    \A s \in [1..3 -> 0..3] :
        s[1] >= s[2] /\ s[2] >= s[3]
        => T!threshold(s, 2) = SelectSeq(s, LAMBDA x : x >= 2)

(***************************************************************************)
(* Rule times: a day of 8, two hours of two minutes of two seconds.        *)
(***************************************************************************)
RuleTimes == [hour : 0..1, minute : 0..1, second : 0..1, duration : 0..8]
\* What a rule time stands for: every day, from its time on, both ends excluded.
Stands(rt, t, loc) ==
    \E day \in -3..4 : LET begin == day * 8 + R!TimeOfDay(rt) - loc
                       IN begin < t /\ t < begin + rt.duration
\* On one clock Covers is that, past midnight too.
ASSUME CoversItsTimes ==
    \A rt \in RuleTimes, t \in 0..16, zone \in {-3, 0, 2} :
        R!Covers(rt, t, zone, zone) <=> Stands(rt, t, zone)
\* On another than that of the moment it need not be: the day is taken from the
\* moment's own clock.
ASSUME OtherZoneMayMiss ==
    \E rt \in RuleTimes, t \in 0..16 : R!Covers(rt, t, 0, -3) # Stands(rt, t, -3)
\* What is parsed is a rule time; a text that is refused may have changed it.
ASSUME ParseChecks ==
    \A n \in 1..4, dur \in {-1, 0, 8, 9} : \A spec \in [1..n -> -1..2] :
        LET rt == [hour |-> 1, minute |-> 0, second |-> 1, duration |-> 3]
            res == R!Parse(rt, spec, dur)
        IN /\ res.rt \in RuleTimes
           /\ res.ok <=> /\ n \in {2, 3} /\ dur \in 0..8
                         /\ \A i \in 1..n : spec[i] \in 0..1
           /\ res.ok => R!TimeOfDay(res.rt)
                          = spec[1] * 4 + spec[2] * 2 + (IF n = 3 THEN spec[3] ELSE 1)
\* Multipliers apply in any order, each once, however many times of a rule match.
ASSUME ApplyOnce ==
    LET rule(at, len, mult) ==
            [times |-> <<[hour |-> at, minute |-> 0, second |-> 0, duration |-> len],
                         [hour |-> at, minute |-> 0, second |-> 0, duration |-> 8]>>,
             mult |-> mult]
        a == rule(0, 3, 2)
        b == rule(1, 2, 3)
    IN \A t \in 0..8 :
          /\ R!Apply(<<a, b>>, t, 0) = R!Apply(<<b, a>>, t, 0)
          /\ R!Apply(<<a, b>>, t, 0) = (IF t % 8 # 0 THEN 2 ELSE 1)
                                        * (IF t % 8 # 4 THEN 3 ELSE 1)
=============================================================================
