------------------------------ MODULE RuleTime ------------------------------
(***************************************************************************)
(* The times of alert rules: internal/ruletime and pkg/alerting/rules.     *)
(*                                                                         *)
(* A rule time is a time of day and how long it lasts.  Moments are        *)
(* integers on one line, a day is Day of them, and a zone is what its      *)
(* clocks are ahead by; clocks are not changed in summer.                  *)
(***************************************************************************)
EXTENDS Integers, Sequences, SequencesExt

CONSTANTS Day, Minutes, Seconds     \* of a day: 24 hours; of an hour; of a minute

\* Parse, of the numbers between the colons and of the duration; the fields of
\* the rule time that was there are overwritten one after the other, so what
\* precedes an error is changed.
Limit == <<Day \div (Minutes * Seconds), Minutes, Seconds>>
Fields == <<"hour", "minute", "second">>
Parse(rt, spec, dur) ==
    LET bad == {i \in DOMAIN spec : spec[i] \notin 0..(Limit[i] - 1)}
        good == {i \in DOMAIN spec : \A j \in 1..i : j \notin bad}
        set == [f \in DOMAIN rt |->
                  IF \E i \in good : Fields[i] = f
                  THEN spec[CHOOSE i \in good : Fields[i] = f] ELSE rt[f]]
    IN IF Len(spec) \notin {2, 3} THEN [ok |-> FALSE, rt |-> rt]
       ELSE IF bad # {} \/ dur \notin 0..Day THEN [ok |-> FALSE, rt |-> set]
       ELSE [ok |-> TRUE, rt |-> [set EXCEPT !.duration = dur]]

TimeOfDay(rt) == (rt.hour * Minutes + rt.minute) * Seconds + rt.second

\* Covers: the day is that of the moment on its own clock, the time of day is
\* one of the rule's clock.  A rule that reaches into the next day is taken to
\* have begun the day before; and a moment that is later than a day after it
\* began is looked up a day earlier.
DayOf(t, zone) == (t + zone) \div Day
Covers(rt, t, zone, loc) ==
    LET start == DayOf(t, zone) * Day + TimeOfDay(rt) - loc
        wraps == DayOf(start + rt.duration, loc) > DayOf(start, loc)
        begin == IF wraps THEN start - Day ELSE start
        moment == IF wraps /\ t - begin > Day THEN t - Day ELSE t
    IN moment > begin /\ moment < begin + rt.duration

\* A rule matches when one of its times does; the multipliers of all rules that
\* match are applied.
MatchTime(rule, t, loc) == \E i \in DOMAIN rule.times : Covers(rule.times[i], t, loc, loc)
Apply(rules, t, loc) ==
    FoldSeq(LAMBDA rule, final : IF MatchTime(rule, t, loc) THEN final * rule.mult ELSE final,
            1, rules)
=============================================================================
