------------------------------ MODULE Alerter ------------------------------
(***************************************************************************)
(* The alerter (pkg/alerting): it scores the talkgroups by their calls     *)
(* every minute, notifies of those that are more active than usual, and    *)
(* keeps each one it has made an alert of in a cache until renotify is     *)
(* over.  The goroutine Go is "ticker"; a request for a test notification  *)
(* (testNotifyHandler) is "tester".  Both evaluate the scores under the    *)
(* lock, which the call sink and a reload take too.                        *)
(*                                                                         *)
(* Time is in units, and what is kept of a moment is its age: how long     *)
(* ago it was, up to MaxAge, which is longer than anything compares to.    *)
(* What a score is, and what the weight and the rules of a talkgroup make  *)
(* of it, is chosen when the scores are computed: module Trending has how  *)
(* they are computed, module Push what becomes of a batch of alerts that   *)
(* is sent to devices.                                                     *)
(***************************************************************************)
EXTENDS Integers, Sequences, SequencesExt, Policy

CONSTANTS
    TGs,            \* talkgroups
    Renotifies,     \* the values of renotify that are configured
    MaxLag,         \* bound: how long a goroutine may wait after it read the clock
    MaxAge,         \* bound: the age of what is long ago
    TestTGs,        \* what a test notification may ask for: lists of talkgroups
    IgnoreFailureCountThreshold,
    MaxFaults       \* bound: failures of the database and of the webhook

ASSUME AlerterAssumption ==
    /\ Renotifies \subseteq Nat
    /\ \E r \in Renotifies : \A q \in Renotifies : r <= q    \* it is not empty
    /\ MaxLag \in Nat /\ MaxAge \in Nat
    /\ \A r \in Renotifies : r + MaxLag < MaxAge
    /\ TestTGs \subseteq Seq(TGs)
    /\ IgnoreFailureCountThreshold \in Nat
    /\ MaxFaults \in Nat

NotCached == -1
None == "none"
Senders == {"ticker", "tester"}

VARIABLES
    lock,           \* the alerter's mutex: who holds it
    renotify,       \* of the configuration in force
    items,          \* the talkgroups the scorer has heard
    scores,         \* the last scores: none, low, hot, or damped (hot, but not weighted)
    alertCache,     \* the age of the alert of a talkgroup, or NotCached
    ignoreList,     \* failures to get the talkgroup
    tgStore,        \* what the talkgroup store has: "alert", "silent" or "gone"
    go,             \* the two goroutines: pc, lag, todo, batch, want
    faults,         \* failures so far
    stored,         \* history: the age of the last alert that AddAlert stored, up
                    \* to the shortest renotify and one more
    posted          \* history: what the webhook was posted since the last scores

vars == <<lock, renotify, items, scores, alertCache, ignoreList, tgStore, go, faults, stored,
          posted>>

Levels == {"none", "low", "hot", "damped"}
PCs == {"idle", "hint", "lock", "eval", "make", "sending", "clean"}
Idle == [pc |-> "idle", lag |-> 0, todo |-> {}, batch |-> <<>>, want |-> <<>>]
MinRenotify == CHOOSE r \in Renotifies : \A q \in Renotifies : r <= q

TypeOK ==
    /\ lock \in Senders \cup {None}
    /\ renotify \in Renotifies
    /\ items \in SUBSET TGs
    /\ scores \in [TGs -> Levels]
    /\ alertCache \in [TGs -> 0..MaxAge \cup {NotCached}]
    /\ ignoreList \in [TGs -> 0..(IgnoreFailureCountThreshold + 1)]
    /\ tgStore \in [TGs -> {"alert", "silent", "gone"}]
    /\ go \in [Senders -> [pc : PCs, lag : 0..MaxLag, todo : SUBSET TGs, batch : Seq(TGs),
                           want : Seq(TGs)]]
    /\ faults \in 0..MaxFaults
    /\ stored \in [TGs -> 0..(MinRenotify + 1)]
    /\ posted \in SUBSET TGs

Init ==
    /\ lock = None
    /\ renotify \in Renotifies
    /\ items = {}
    /\ scores = [t \in TGs |-> "none"]
    /\ alertCache = [t \in TGs |-> NotCached]
    /\ ignoreList = [t \in TGs |-> 0]
    /\ tgStore = [t \in TGs |-> "alert"]
    /\ go = [s \in Senders |-> Idle]
    /\ faults = 0
    /\ stored = [t \in TGs |-> MinRenotify + 1]
    /\ posted = {}

Unlocked == lock = None
Unlock == lock' = None
Fault == faults < MaxFaults /\ faults' = faults + 1
NoFault == UNCHANGED faults

(***************************************************************************)
(* Around the two goroutines.                                              *)
(***************************************************************************)
\* Time passes; a goroutine that has read the clock is not held up for longer
\* than MaxLag.
Older(age) == IF age = NotCached THEN NotCached ELSE IF age < MaxAge THEN age + 1 ELSE age
Waiting(s) == go[s].pc \in {"hint", "lock", "eval", "clean"}
TimePasses ==
    /\ \A s \in Senders : Waiting(s) => go[s].lag < MaxLag
    /\ alertCache' = [t \in TGs |-> Older(alertCache[t])]
    /\ stored' = [t \in TGs |-> IF stored[t] <= MinRenotify THEN stored[t] + 1 ELSE stored[t]]
    /\ go' = [s \in Senders |-> IF Waiting(s) THEN [go[s] EXCEPT !.lag = @ + 1] ELSE go[s]]
    /\ UNCHANGED <<lock, renotify, items, scores, ignoreList, tgStore, faults, posted>>

\* The call sink: the scorer hears of a talkgroup.
Call(t) ==
    /\ Unlocked /\ t \notin items
    /\ items' = items \cup {t}
    /\ UNCHANGED <<lock, renotify, scores, alertCache, ignoreList, tgStore, go, faults, stored,
                   posted>>

\* The levels of the scores of some talkgroups.
Scorings(scored) == {f \in [TGs -> Levels] : \A t \in TGs : (f[t] = "none") <=> (t \notin scored)}
Scored == {t \in TGs : scores[t] # "none"}

\* HUP: another configuration, whose threshold the last scores are then held to;
\* one without renotify keeps the old.
HUP ==
    /\ Unlocked
    /\ renotify' \in Renotifies
    /\ scores' \in Scorings(Scored)
    /\ UNCHANGED <<lock, items, alertCache, ignoreList, tgStore, go, faults, stored, posted>>

\* A talkgroup is edited, deleted, or stored again (module TGCache).
EditTG(t) ==
    /\ \E state \in {"alert", "silent", "gone"} : tgStore' = [tgStore EXCEPT ![t] = state]
    /\ UNCHANGED <<lock, renotify, items, scores, alertCache, ignoreList, go, faults, stored,
                   posted>>

(***************************************************************************)
(* The steps of an evaluation.                                             *)
(***************************************************************************)
\* The ticker fires: score, and notify has read the clock.
Score ==
    /\ go["ticker"].pc = "idle" /\ Unlocked
    /\ scores' \in Scorings(items)
    /\ go' = [go EXCEPT !["ticker"] = [Idle EXCEPT !.pc = "hint"]]
    /\ posted' = {}
    /\ UNCHANGED <<lock, renotify, items, alertCache, ignoreList, tgStore, faults, stored>>

\* A test notification for some talkgroups, or (when it names none) a scored one.
testNotifyHandler(want) ==
    /\ go["tester"].pc = "idle"
    /\ May({"Admin"}, "Alert", "testNotify", {})
    /\ go' = [go EXCEPT !["tester"] = [Idle EXCEPT !.pc = "hint", !.want = want]]
    /\ UNCHANGED <<lock, renotify, items, scores, alertCache, ignoreList, tgStore, faults,
                   stored, posted>>

\* What comes after an evaluation that failed, or had nothing to send: the
\* ticker cleans the cache, for which it reads the clock anew.
AfterNotify(s) ==
    IF s = "ticker" THEN [Idle EXCEPT !.pc = "clean"] ELSE Idle

\* Hint, without the lock; it fails with the database.
Hint(s) ==
    /\ go[s].pc = "hint"
    /\ \/ NoFault /\ go' = [go EXCEPT ![s].pc = "lock"]
       \/ Fault /\ go' = [go EXCEPT ![s] = AfterNotify(s)]
    /\ UNCHANGED <<lock, renotify, items, scores, alertCache, ignoreList, tgStore, stored,
                   posted>>

Lock(s) ==
    /\ go[s].pc = "lock" /\ Unlocked
    /\ lock' = s
    /\ go' = [go EXCEPT ![s].pc = "eval", ![s].todo = Scored]
    /\ UNCHANGED <<renotify, items, scores, alertCache, ignoreList, tgStore, faults, stored,
                   posted>>

\* One score whose talkgroup cannot be got, or is past getting.
Ignored(t) == ignoreList[t] > IgnoreFailureCountThreshold
IgnoreTG(s, t) ==
    /\ Ignored(t) \/ tgStore[t] = "gone"
    /\ ignoreList' = [ignoreList EXCEPT ![t] = IF Ignored(t) THEN @ ELSE @ + 1]
    /\ go' = [go EXCEPT ![s].todo = @ \ {t}]
    /\ UNCHANGED <<lock, renotify, items, scores, alertCache, tgStore, faults, stored, posted>>

\* Whether the cached alert is old enough, as of the clock the evaluation has read.
\* Variant: one that is as old as renotify is.
ExpiredAtOnce(s, t) == alertCache[t] = NotCached \/ alertCache[t] - go[s].lag >= renotify
\* Variant: an alert that is cached stays.
ExpiredNever(s, t) == alertCache[t] = NotCached
Expired(s, t) == alertCache[t] = NotCached \/ alertCache[t] - go[s].lag > renotify
Due(s, t) ==
    /\ ~Ignored(t) /\ tgStore[t] = "alert"
    /\ scores[t] \in {"hot", "damped"} \/ s = "tester"
    /\ Expired(s, t)
\* A low score that is tested may be weighted above the threshold.
Suppressed(t) ==
    IF scores[t] = "low" THEN BOOLEAN ELSE {scores[t] = "damped"}

\* One score that leads to no alert.
SkipTG(s, t) ==
    /\ ~Ignored(t) /\ tgStore[t] # "gone" /\ ~Due(s, t)
    /\ go' = [go EXCEPT ![s].todo = @ \ {t}]
    /\ UNCHANGED <<lock, renotify, items, scores, alertCache, ignoreList, tgStore, faults,
                   stored, posted>>

AddAlert(t) == stored' = [stored EXCEPT ![t] = 0]

\* One score that does.  The alert is cached first; a suppressed one is not
\* stored; that of a test is not stored either; and when storing fails, the
\* evaluation returns no alert at all.
MakeAlert(s, t) ==
    /\ Due(s, t)
    /\ alertCache' = [alertCache EXCEPT ![t] = 0]
    /\ \E suppressed \in Suppressed(t) :
          \/ /\ suppressed
             /\ go' = [go EXCEPT ![s].todo = @ \ {t}]
             /\ NoFault /\ UNCHANGED <<lock, stored>>
          \/ /\ ~suppressed
             /\ go' = [go EXCEPT ![s].todo = @ \ {t}, ![s].batch = Append(@, t)]
             /\ IF s = "ticker" THEN AddAlert(t) ELSE UNCHANGED stored
             /\ NoFault /\ UNCHANGED lock
          \/ /\ ~suppressed /\ s = "ticker"
             /\ go' = [go EXCEPT ![s] = AfterNotify(s)]
             /\ Fault /\ Unlock /\ UNCHANGED stored
    /\ UNCHANGED <<renotify, items, scores, ignoreList, tgStore, posted>>

EvalTG(s) ==
    /\ go[s].pc = "eval"
    /\ \E t \in go[s].todo : IgnoreTG(s, t) \/ SkipTG(s, t) \/ MakeAlert(s, t)

\* The evaluation is over: the ticker sends if there is anything to send.
Evaluated(s) ==
    /\ go[s].pc = "eval" /\ go[s].todo = {}
    /\ Unlock
    /\ go' = [go EXCEPT ![s] =
                IF s = "tester" THEN [@ EXCEPT !.pc = "make", !.lag = 0]
                ELSE IF go[s].batch = <<>> THEN AfterNotify(s)
                ELSE [Idle EXCEPT !.pc = "sending", !.batch = go[s].batch]]
    /\ UNCHANGED <<renotify, items, scores, alertCache, ignoreList, tgStore, faults, stored,
                   posted>>

\* The alerts a test has asked for are added to those of its evaluation; they
\* are neither cached nor stored.  Without a score to choose from, the handler
\* panics, and the request ends.
MakeTest ==
    LET o == go["tester"]
        chosen == IF o.want = <<>> THEN {<<t>> : t \in Scored} ELSE {o.want}
    IN /\ o.pc = "make"
       /\ \/ chosen = {} /\ go' = [go EXCEPT !["tester"] = Idle]
          \/ \E tgs \in chosen :
                go' = [go EXCEPT !["tester"] =
                         [Idle EXCEPT !.pc = "sending", !.batch = o.batch \o tgs]]
       /\ UNCHANGED <<lock, renotify, items, scores, alertCache, ignoreList, tgStore, faults,
                      stored, posted>>

\* Send: the push backend never fails; the webhook after it may.
Send(s) ==
    /\ go[s].pc = "sending"
    /\ \/ NoFault /\ posted' = posted \cup ToSet(go[s].batch)
       \/ Fault /\ UNCHANGED posted
    /\ go' = [go EXCEPT ![s] = AfterNotify(s)]
    /\ UNCHANGED <<lock, renotify, items, scores, alertCache, ignoreList, tgStore, stored>>

\* cleanCache, as of the clock it read before it took the lock.
CleanCache ==
    /\ go["ticker"].pc = "clean" /\ Unlocked
    /\ alertCache' = [t \in TGs |->
                        IF Expired("ticker", t) THEN NotCached ELSE alertCache[t]]
    /\ go' = [go EXCEPT !["ticker"] = Idle]
    /\ UNCHANGED <<lock, renotify, items, scores, ignoreList, tgStore, faults, stored, posted>>

Notify(s) == Hint(s) \/ Lock(s) \/ EvalTG(s) \/ Evaluated(s) \/ Send(s)
Ticker == Score \/ Notify("ticker") \/ CleanCache
Tester == Notify("tester") \/ MakeTest

Next ==
    \/ TimePasses \/ HUP
    \/ \E t \in TGs : Call(t) \/ EditTG(t)
    \/ Ticker \/ Tester
    \/ \E want \in TestTGs : testNotifyHandler(want)

Spec == Init /\ [][Next]_vars

\* Time passes, the ticker fires, and what has begun goes on; who waits for the
\* lock again and again gets it.
FairSpec ==
    /\ Spec
    /\ SF_vars(TimePasses)
    /\ SF_vars(Ticker)
    /\ SF_vars(Tester)

(***************************************************************************)
(* Properties.                                                             *)
(***************************************************************************)
\* A talkgroup is notified of once in renotify: the ticker stores an alert of a
\* talkgroup only when it last did so longer ago than the shortest renotify that
\* was in force; a test in between, a reload, a clock read long before the lock
\* was had, and an entry that is cleaned meanwhile make no difference.
NotMoreOften ==
    [][\A t \in TGs : go'["ticker"].batch = Append(go["ticker"].batch, t)
                      => stored[t] > MinRenotify]_vars

\* A talkgroup that stays hot is notified of again and again, whatever failed
\* before: an alert that was cached and then lost is made anew after renotify.
StaysHot(t) == scores[t] = "hot" /\ tgStore[t] = "alert" /\ ~Ignored(t)
HotIsToldAgain == \A t \in TGs : <>[]StaysHot(t) => []<>(t \in posted)
=============================================================================
