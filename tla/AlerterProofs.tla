--------------------------- MODULE AlerterProofs ---------------------------
(***************************************************************************)
(* Proofs about Alerter: type correctness, and that no talkgroup is        *)
(* notified of twice within renotify, for any number of talkgroups, values *)
(* of renotify, delays and failures.  And about Push, which takes the      *)
(* batches: types, that every subscriber is told, and that only the row of *)
(* a device whose delivery failed goes.                                    *)
(***************************************************************************)
EXTENDS Alerter, Push, TLAPS

-----------------------------------------------------------------------------
(* Type correctness.                                                       *)

LEMMA Bounds ==
    /\ MinRenotify \in Renotifies /\ MinRenotify \in Nat
    /\ \A q \in Renotifies : q \in Nat /\ MinRenotify <= q
    /\ MaxLag \in Nat /\ MaxAge \in Nat /\ MaxFaults \in Nat
    /\ IgnoreFailureCountThreshold \in Nat
BY AlerterAssumption DEF MinRenotify

\* What a goroutine is doing.
Doing == [pc : PCs, lag : 0..MaxLag, todo : SUBSET TGs, batch : Seq(TGs), want : Seq(TGs)]

LEMMA IdleType ==
    /\ Idle \in Doing
    /\ \A s \in Senders : AfterNotify(s) \in Doing
    /\ Idle.batch = <<>> /\ Idle.lag = 0
    /\ \A s \in Senders : AfterNotify(s).batch = <<>>
<1>1. Idle \in Doing /\ Idle.batch = <<>> /\ Idle.lag = 0
  BY Bounds DEF Idle, Doing, PCs
<1>2. [Idle EXCEPT !.pc = "clean"] \in Doing /\ [Idle EXCEPT !.pc = "clean"].batch = <<>>
  BY <1>1 DEF Doing, PCs
<1>3. QED
  BY <1>1, <1>2 DEF AfterNotify

LEMMA GoType == TypeOK => go \in [Senders -> Doing]
BY DEF TypeOK, Doing

\* The types of everything but the goroutines.
DataOK ==
    /\ lock \in Senders \cup {None}
    /\ renotify \in Renotifies
    /\ items \in SUBSET TGs
    /\ scores \in [TGs -> Levels]
    /\ alertCache \in [TGs -> 0..MaxAge \cup {NotCached}]
    /\ ignoreList \in [TGs -> 0..(IgnoreFailureCountThreshold + 1)]
    /\ tgStore \in [TGs -> {"alert", "silent", "gone"}]
    /\ faults \in 0..MaxFaults
    /\ stored \in [TGs -> 0..(MinRenotify + 1)]
    /\ posted \in SUBSET TGs

LEMMA Parts == TypeOK <=> DataOK /\ go \in [Senders -> Doing]
BY DEF TypeOK, DataOK, Doing

LEMMA PartsNext == TypeOK' <=> (DataOK' /\ (go \in [Senders -> Doing])')
BY DEF TypeOK, DataOK, Doing

LEMMA FaultType == ASSUME DataOK, Fault \/ NoFault PROVE faults' \in 0..MaxFaults
BY Bounds DEF DataOK, Fault, NoFault

LEMMA TypeInit == Init => TypeOK
<1> SUFFICES ASSUME Init PROVE TypeOK
  OBVIOUS
<1>1. go \in [Senders -> Doing]
  BY IdleType DEF Init
<1>2. DataOK
  BY Bounds DEF Init, DataOK, Levels
<1>3. QED
  BY <1>1, <1>2, Parts

\* What happens around the goroutines.
LEMMA AroundType ==
    ASSUME TypeOK, TimePasses \/ HUP \/ \E t \in TGs : Call(t) \/ EditTG(t)
    PROVE  TypeOK'
<1> USE Bounds
<1>0. DataOK /\ go \in [Senders -> Doing]
  BY Parts
<1>1. CASE TimePasses
  <2>1. go' \in [Senders -> Doing]
    <3>1. ASSUME NEW s \in Senders, Waiting(s)
          PROVE  [go[s] EXCEPT !.lag = @ + 1] \in Doing
      <4>1. go[s].lag + 1 \in 0..MaxLag
        BY <1>0, <1>1, <3>1 DEF TimePasses, Doing
      <4>2. QED
        BY <1>0, <4>1 DEF Doing
    <3>2. QED
      BY <1>0, <1>1, <3>1 DEF TimePasses
  <2>2. alertCache' \in [TGs -> 0..MaxAge \cup {NotCached}]
    BY <1>0, <1>1 DEF TimePasses, Older, DataOK, NotCached
  <2>3. stored' \in [TGs -> 0..(MinRenotify + 1)]
    BY <1>0, <1>1 DEF TimePasses, DataOK
  <2>4. DataOK'
    BY <1>0, <1>1, <2>2, <2>3 DEF TimePasses, DataOK
  <2>5. QED
    BY <2>1, <2>4, PartsNext
<1>2. CASE HUP
  BY <1>0, <1>2, PartsNext DEF HUP, DataOK, Scorings
<1>3. CASE \E t \in TGs : Call(t)
  BY <1>0, <1>3, PartsNext DEF Call, DataOK
<1>4. CASE \E t \in TGs : EditTG(t)
  BY <1>0, <1>4, PartsNext DEF EditTG, DataOK
<1>5. QED
  BY <1>1, <1>2, <1>3, <1>4

\* A goroutine that goes on is doing something well formed.
LEMMA MoveType ==
    ASSUME go \in [Senders -> Doing], NEW s \in Senders, NEW d \in Doing
    PROVE  [go EXCEPT ![s] = d] \in [Senders -> Doing]
OBVIOUS

\* The evaluation of one score.
LEMMA EvalType ==
    ASSUME TypeOK, NEW s \in Senders, EvalTG(s)
    PROVE  TypeOK'
<1>0. DataOK /\ go \in [Senders -> Doing] /\ go[s] \in Doing
  BY Parts
<1>1. PICK t \in go[s].todo : IgnoreTG(s, t) \/ SkipTG(s, t) \/ MakeAlert(s, t)
  BY DEF EvalTG
<1>2. t \in TGs /\ go[s].todo \ {t} \in SUBSET TGs /\ go[s].batch \in Seq(TGs)
  BY <1>0 DEF Doing
<1>3. Append(go[s].batch, t) \in Seq(TGs)
  BY <1>2
<1> DEFINE d == [go[s] EXCEPT !.todo = @ \ {t}]
           e == [go[s] EXCEPT !.todo = @ \ {t}, !.batch = Append(@, t)]
<1>4. d \in Doing /\ e \in Doing
  <2>1. d \in Doing
    BY <1>0, <1>2 DEF Doing
  <2>2. e \in Doing
    BY <1>0, <1>2, <1>3 DEF Doing
  <2>3. QED
    BY <2>1, <2>2
<1>5. CASE IgnoreTG(s, t)
  <2>1. go' = [go EXCEPT ![s] = d]
    BY <1>5 DEF IgnoreTG
  <2>2. ignoreList[t] \in 0..(IgnoreFailureCountThreshold + 1)
    BY <1>0, <1>2 DEF DataOK
  <2>3. (IF Ignored(t) THEN ignoreList[t] ELSE ignoreList[t] + 1)
          \in 0..(IgnoreFailureCountThreshold + 1)
    BY <2>2, Bounds DEF Ignored
  <2>4. DataOK'
    BY <1>0, <1>2, <1>5, <2>3 DEF IgnoreTG, DataOK
  <2>5. QED
    BY <1>0, <1>4, <2>1, <2>4, MoveType, PartsNext
<1>6. CASE SkipTG(s, t)
  <2>1. go' = [go EXCEPT ![s] = d] /\ DataOK'
    BY <1>0, <1>6 DEF SkipTG, DataOK
  <2>2. QED
    BY <1>0, <1>4, <2>1, MoveType, PartsNext
<1>7. CASE MakeAlert(s, t)
  <2>1. alertCache' \in [TGs -> 0..MaxAge \cup {NotCached}]
    <3>1. 0 \in 0..MaxAge /\ alertCache' = [alertCache EXCEPT ![t] = 0]
      BY <1>7, Bounds DEF MakeAlert, AddAlert
    <3>2. QED
      BY <1>0, <3>1 DEF DataOK
  <2>2. stored' \in [TGs -> 0..(MinRenotify + 1)]
    <3>1. 0 \in 0..(MinRenotify + 1) /\ stored' \in {stored, [stored EXCEPT ![t] = 0]}
      BY <1>7, Bounds DEF MakeAlert, AddAlert
    <3>2. QED
      BY <1>0, <3>1 DEF DataOK
  <2>3. faults' \in 0..MaxFaults
    BY <1>0, <1>7, FaultType DEF MakeAlert, AddAlert
  <2>4. lock' \in Senders \cup {None}
    BY <1>0, <1>7 DEF MakeAlert, AddAlert, DataOK, Unlock
  <2>5. DataOK'
    BY <1>0, <1>7, <2>1, <2>2, <2>3, <2>4 DEF MakeAlert, AddAlert, DataOK
  <2>6. go' \in {[go EXCEPT ![s] = d], [go EXCEPT ![s] = e], [go EXCEPT ![s] = AfterNotify(s)]}
    BY <1>7 DEF MakeAlert, AddAlert
  <2>7. QED
    BY <1>0, <1>4, <2>5, <2>6, IdleType, MoveType, PartsNext
<1>8. QED
  BY <1>1, <1>5, <1>6, <1>7

\* The rest of what a goroutine does.
LEMMA NotifyType ==
    ASSUME TypeOK, NEW s \in Senders, Notify(s)
    PROVE  TypeOK'
<1>0. DataOK /\ go \in [Senders -> Doing] /\ go[s] \in Doing
  BY Parts
<1>a. go[s].batch \in Seq(TGs) /\ ToSet(go[s].batch) \in SUBSET TGs
  BY <1>0 DEF Doing, ToSet
<1>1. CASE Hint(s)
  <2> DEFINE d == [go[s] EXCEPT !.pc = "lock"]
  <2>1. d \in Doing
    <3>1. "lock" \in PCs
      BY DEF PCs
    <3>2. QED
      BY <1>0, <3>1 DEF Doing
  <2>2. go' \in {[go EXCEPT ![s] = d], [go EXCEPT ![s] = AfterNotify(s)]}
    BY <1>1 DEF Hint
  <2>3. DataOK'
    BY <1>0, <1>1, FaultType DEF Hint, DataOK
  <2>4. QED
    BY <1>0, <2>1, <2>2, <2>3, IdleType, MoveType, PartsNext
<1>2. CASE Lock(s)
  <2> DEFINE d == [go[s] EXCEPT !.pc = "eval", !.todo = Scored]
  <2>1. d \in Doing
    <3>1. "eval" \in PCs /\ Scored \in SUBSET TGs
      BY DEF PCs, Scored
    <3>2. QED
      BY <1>0, <3>1 DEF Doing
  <2>2. go' = [go EXCEPT ![s] = d] /\ DataOK'
    BY <1>0, <1>2 DEF Lock, DataOK
  <2>3. QED
    BY <1>0, <2>1, <2>2, MoveType, PartsNext
<1>3. CASE EvalTG(s)
  BY <1>3, EvalType
<1>4. CASE Evaluated(s)
  <2> DEFINE d == [go[s] EXCEPT !.pc = "make", !.lag = 0]
             e == [Idle EXCEPT !.pc = "sending", !.batch = go[s].batch]
  <2>1. d \in Doing /\ e \in Doing
    BY <1>0, <1>a, IdleType, Bounds DEF PCs, Doing
  <2>2. go' \in {[go EXCEPT ![s] = d], [go EXCEPT ![s] = e], [go EXCEPT ![s] = AfterNotify(s)]}
    BY <1>4 DEF Evaluated
  <2>3. DataOK'
    BY <1>0, <1>4 DEF Evaluated, DataOK, Unlock
  <2>4. QED
    BY <1>0, <2>1, <2>2, <2>3, IdleType, MoveType, PartsNext
<1>5. CASE Send(s)
  <2>1. posted' \in SUBSET TGs
    BY <1>0, <1>a, <1>5 DEF Send, DataOK
  <2>2. faults' \in 0..MaxFaults
    BY <1>0, <1>5, FaultType DEF Send
  <2>3. go' = [go EXCEPT ![s] = AfterNotify(s)] /\ DataOK'
    BY <1>0, <1>5, <2>1, <2>2 DEF Send, DataOK
  <2>4. QED
    BY <1>0, <2>3, IdleType, MoveType, PartsNext
<1>6. QED
  BY <1>1, <1>2, <1>3, <1>4, <1>5 DEF Notify

\* What only one of the two does.
LEMMA OwnType ==
    ASSUME TypeOK,
           Score \/ CleanCache \/ MakeTest \/ \E want \in TestTGs : testNotifyHandler(want)
    PROVE  TypeOK'
<1>0. DataOK /\ go \in [Senders -> Doing] /\ {"ticker", "tester"} = Senders
  BY Parts DEF Senders
<1>1. CASE Score
  <2>1. "hint" \in PCs
    BY DEF PCs
  <2>4. [Idle EXCEPT !.pc = "hint"] \in Doing
    BY <2>1, IdleType DEF Doing
  <2>2. DataOK'
    BY <1>0, <1>1 DEF Score, DataOK, Scorings
  <2>3. QED
    BY <1>0, <1>1, <2>4, <2>2, MoveType, PartsNext DEF Score
<1>2. CASE CleanCache
  <2>1. alertCache' \in [TGs -> 0..MaxAge \cup {NotCached}]
    BY <1>0, <1>2 DEF CleanCache, DataOK
  <2>2. DataOK'
    BY <1>0, <1>2, <2>1 DEF CleanCache, DataOK
  <2>3. QED
    BY <1>0, <1>2, <2>2, IdleType, MoveType, PartsNext DEF CleanCache
<1>3. CASE MakeTest
  <2>1. go["tester"].batch \in Seq(TGs) /\ go["tester"].want \in Seq(TGs)
    BY <1>0 DEF Doing
  <2>2. \A t \in Scored : <<t>> \in Seq(TGs)
    BY DEF Scored
  <2>3. ASSUME NEW tgs \in Seq(TGs)
        PROVE  [Idle EXCEPT !.pc = "sending", !.batch = go["tester"].batch \o tgs] \in Doing
    <3>1. go["tester"].batch \o tgs \in Seq(TGs) /\ "sending" \in PCs
      BY <2>1 DEF PCs
    <3>2. QED
      BY <3>1, IdleType DEF Doing
  <2>4. \E d \in Doing : go' = [go EXCEPT !["tester"] = d]
    BY <1>3, <2>1, <2>2, <2>3, IdleType DEF MakeTest
  <2>5. DataOK'
    BY <1>0, <1>3 DEF MakeTest, DataOK
  <2>6. QED
    BY <1>0, <2>4, <2>5, MoveType, PartsNext
<1>4. CASE \E want \in TestTGs : testNotifyHandler(want)
  <2>1. PICK want \in TestTGs : testNotifyHandler(want)
    BY <1>4
  <2>2. [Idle EXCEPT !.pc = "hint", !.want = want] \in Doing
    <3>1. "hint" \in PCs /\ want \in Seq(TGs)
      BY AlerterAssumption DEF PCs
    <3>2. QED
      BY <3>1, IdleType DEF Doing
  <2>3. DataOK'
    BY <1>0, <2>1 DEF testNotifyHandler, DataOK
  <2>4. QED
    BY <1>0, <2>1, <2>2, <2>3, MoveType, PartsNext DEF testNotifyHandler
<1>5. QED
  BY <1>1, <1>2, <1>3, <1>4
LEMMA TypeStep == TypeOK /\ [Next]_vars => TypeOK'
<1> SUFFICES ASSUME TypeOK, [Next]_vars PROVE TypeOK'
  OBVIOUS
<1>1. "ticker" \in Senders /\ "tester" \in Senders
  BY DEF Senders
<1>2. CASE TimePasses \/ HUP \/ \E t \in TGs : Call(t) \/ EditTG(t)
  BY <1>2, AroundType
<1>3. CASE Notify("ticker") \/ Notify("tester")
  BY <1>1, <1>3, NotifyType
<1>4. CASE Score \/ CleanCache \/ MakeTest \/ \E want \in TestTGs : testNotifyHandler(want)
  BY <1>4, OwnType
<1>5. CASE UNCHANGED vars
  BY <1>5 DEF vars, TypeOK
<1>6. QED
  BY <1>2, <1>3, <1>4, <1>5 DEF Next, Ticker, Tester

\* Whatever the goroutines, the requests and the reloads do, the variables keep
\* their types: the ignore list never counts past its threshold and no goroutine
\* is held up past its bound.
THEOREM TypeCorrect == Spec => []TypeOK
BY TypeInit, TypeStep, PTL DEF Spec

-----------------------------------------------------------------------------
(* No talkgroup is notified of too often.                                  *)

\* While an alert that was stored is not older than renotify, the talkgroup is
\* in the cache, with an alert that is no older.
StoredIsCached ==
    \A t \in TGs : stored[t] <= MinRenotify
                   => alertCache[t] # NotCached /\ alertCache[t] <= stored[t]

\* So such a talkgroup is not due, for any renotify and any delay.
LEMMA NotExpired ==
    ASSUME TypeOK, StoredIsCached, NEW s \in Senders, NEW t \in TGs, Expired(s, t)
    PROVE  stored[t] > MinRenotify
<1>1. SUFFICES ASSUME stored[t] <= MinRenotify PROVE FALSE
  <2>1. stored[t] \in Nat /\ MinRenotify \in Nat
    BY Bounds DEF TypeOK
  <2>2. QED
    BY <1>1, <2>1
<1>2. alertCache[t] # NotCached /\ alertCache[t] <= stored[t] /\ stored[t] \in Nat
  BY <1>1, Bounds DEF StoredIsCached, TypeOK
<1>3. alertCache[t] \in Nat
  BY <1>2, Bounds DEF TypeOK
<1>4. go[s].lag \in Nat
  BY GoType, Bounds DEF Doing
<1>5. renotify \in Nat /\ MinRenotify \in Nat /\ MinRenotify <= renotify
  BY Bounds DEF TypeOK
<1>6. alertCache[t] - go[s].lag > renotify
  BY <1>2 DEF Expired
<1>7. QED
  BY <1>1, <1>2, <1>3, <1>4, <1>5, <1>6

LEMMA CachedStep ==
    TypeOK /\ StoredIsCached /\ [Next]_vars => StoredIsCached'
<1> SUFFICES ASSUME TypeOK, StoredIsCached, [Next]_vars PROVE StoredIsCached'
  OBVIOUS
<1>0. \A t \in TGs : /\ stored[t] \in 0..(MinRenotify + 1)
                     /\ alertCache[t] \in 0..MaxAge \cup {NotCached}
  BY DEF TypeOK
<1>1. CASE UNCHANGED <<stored, alertCache>>
  BY <1>1 DEF StoredIsCached
<1>2. CASE TimePasses
  <2>1. SUFFICES ASSUME NEW t \in TGs, stored'[t] <= MinRenotify
                 PROVE  alertCache'[t] # NotCached /\ alertCache'[t] <= stored'[t]
    BY DEF StoredIsCached
  <2>2. stored[t] <= MinRenotify /\ stored'[t] = stored[t] + 1
    BY <1>0, <1>2, <2>1, Bounds DEF TimePasses
  <2>3. alertCache[t] \in 0..MaxAge /\ alertCache[t] <= stored[t]
    BY <1>0, <2>2 DEF StoredIsCached
  <2>4. alertCache'[t] = Older(alertCache[t])
    BY <1>2 DEF TimePasses
  <2>5. alertCache'[t] \in {alertCache[t], alertCache[t] + 1}
    BY <2>3, <2>4, Bounds DEF Older, NotCached
  <2>6. QED
    BY <1>0, <2>2, <2>3, <2>5, Bounds DEF NotCached
<1>3. CASE CleanCache
  <2>1. SUFFICES ASSUME NEW t \in TGs, stored[t] <= MinRenotify
                 PROVE  alertCache'[t] = alertCache[t]
    BY <1>3 DEF StoredIsCached, CleanCache
  <2>2. ~Expired("ticker", t)
    <3>1. "ticker" \in Senders /\ stored[t] \in Int /\ MinRenotify \in Int
      BY <1>0, Bounds DEF Senders
    <3>2. QED
      BY <2>1, <3>1, NotExpired
  <2>3. QED
    BY <1>3, <2>2 DEF CleanCache
<1>4. CASE \E s \in Senders : EvalTG(s)
  <2>1. PICK s \in Senders, t \in TGs : IgnoreTG(s, t) \/ SkipTG(s, t) \/ MakeAlert(s, t)
    BY <1>4, GoType DEF EvalTG, Doing
  <2>2. CASE IgnoreTG(s, t) \/ SkipTG(s, t)
    BY <1>1, <2>2 DEF IgnoreTG, SkipTG
  <2>3. CASE MakeAlert(s, t)
    <3>1. alertCache' = [alertCache EXCEPT ![t] = 0]
      BY <2>3 DEF MakeAlert, AddAlert
    <3>2. stored' \in {stored, [stored EXCEPT ![t] = 0]}
      BY <2>3 DEF MakeAlert, AddAlert
    <3>3. alertCache \in [TGs -> 0..MaxAge \cup {NotCached}] /\ stored \in [TGs -> 0..(MinRenotify + 1)]
      BY DEF TypeOK
    <3>4. QED
      BY <1>0, <3>1, <3>2, <3>3, Bounds DEF StoredIsCached, NotCached
  <2>4. QED
    BY <2>1, <2>2, <2>3
<1>5. CASE HUP \/ Score \/ MakeTest \/ \E s \in Senders : Hint(s) \/ Lock(s) \/ Evaluated(s) \/ Send(s)
  BY <1>1, <1>5 DEF HUP, Score, MakeTest, Hint, Lock, Evaluated, Send
<1>6. CASE (\E t \in TGs : Call(t) \/ EditTG(t)) \/ (\E want \in TestTGs : testNotifyHandler(want))
  BY <1>1, <1>6 DEF Call, EditTG, testNotifyHandler
<1>7. CASE UNCHANGED vars
  BY <1>1, <1>7 DEF vars
<1>8. QED
  BY <1>2, <1>3, <1>4, <1>5, <1>6, <1>7 DEF Next, Ticker, Tester, Notify, Senders

\* The batch of the ticker grows by one only when it has made an alert.
Grows(t) == go'["ticker"].batch = Append(go["ticker"].batch, t)
LEMMA NotGrowing ==
    ASSUME NEW b \in Seq(TGs), NEW t \in TGs
    PROVE  b # Append(b, t) /\ <<>> # Append(b, t)
<1>1. Len(Append(b, t)) = Len(b) + 1 /\ Len(b) \in Nat
  OBVIOUS
<1>2. QED
  BY <1>1

LEMMA OnlyDueGrow ==
    ASSUME TypeOK, [Next]_vars, NEW t \in TGs, Grows(t)
    PROVE  Expired("ticker", t)
<1>0. /\ go \in [Senders -> Doing] /\ "ticker" \in Senders /\ "tester" \in Senders
      /\ go["ticker"].batch \in Seq(TGs)
  BY GoType DEF Doing, Senders
<1>1. go'["ticker"].batch # go["ticker"].batch /\ go'["ticker"].batch # <<>>
  BY <1>0, NotGrowing DEF Grows
<1>2. CASE UNCHANGED go
  BY <1>1, <1>2
<1>3. CASE TimePasses
  <2>1. go'["ticker"].batch = go["ticker"].batch
    BY <1>0, <1>3 DEF TimePasses, Doing
  <2>2. QED
    BY <1>1, <2>1
<1>4. CASE HUP \/ (\E x \in TGs : Call(x) \/ EditTG(x)) \/ UNCHANGED vars
  BY <1>2, <1>4 DEF HUP, Call, EditTG, vars
<1>6. CASE Score \/ CleanCache \/ Send("ticker")
  <2>1. [Idle EXCEPT !.pc = "hint"].batch = <<>>
    BY DEF Idle
  <2>2. go'["ticker"].batch = <<>>
    BY <1>0, <1>6, <2>1, IdleType DEF Score, CleanCache, Send
  <2>3. QED
    BY <1>1, <2>2
<1>7. CASE Hint("ticker") \/ Lock("ticker") \/ Evaluated("ticker")
  <2>1. /\ [go["ticker"] EXCEPT !.pc = "lock"].batch = go["ticker"].batch
        /\ [go["ticker"] EXCEPT !.pc = "eval", !.todo = Scored].batch = go["ticker"].batch
        /\ [Idle EXCEPT !.pc = "sending", !.batch = go["ticker"].batch].batch
             = go["ticker"].batch
    BY <1>0 DEF Idle, Doing
  <2>2. AfterNotify("ticker").batch = <<>>
    BY <1>0, IdleType
  <2>3. go'["ticker"].batch \in {<<>>, go["ticker"].batch}
    BY <1>0, <1>7, <2>1, <2>2 DEF Hint, Lock, Evaluated
  <2>4. QED
    BY <1>1, <2>3
<1>8. CASE EvalTG("ticker")
  <2>1. PICK x \in TGs : IgnoreTG("ticker", x) \/ SkipTG("ticker", x) \/ MakeAlert("ticker", x)
    BY <1>0, <1>8 DEF EvalTG, Doing
  <2>2. MakeAlert("ticker", x) /\ go'["ticker"].batch = Append(go["ticker"].batch, x)
    BY <1>0, <1>1, <2>1, IdleType DEF IgnoreTG, SkipTG, MakeAlert, AddAlert, Doing
  <2>3. x = t
    <3>1. Append(go["ticker"].batch, x) = Append(go["ticker"].batch, t)
      BY <2>2 DEF Grows
    <3>2. QED
      BY <1>0, <3>1
  <2>4. QED
    BY <2>2, <2>3 DEF MakeAlert, AddAlert, Due
<1>9. CASE Tester \/ \E want \in TestTGs : testNotifyHandler(want)
  <2>1. go' \in [Senders -> Doing]
    BY TypeStep, GoType DEF TypeOK, Doing
  <2>2. \E d : go' = [go EXCEPT !["tester"] = d]
    BY <1>9 DEF Tester, Notify, Hint, Lock, EvalTG, IgnoreTG, SkipTG, MakeAlert, AddAlert, Evaluated,
                Send, MakeTest, testNotifyHandler
  <2>3. QED
    BY <1>0, <1>1, <2>2
<1>10. QED
  BY <1>3, <1>4, <1>6, <1>7, <1>8, <1>9 DEF Next, Ticker, Notify

\* A talkgroup is not notified of twice within the shortest renotify, for any
\* number of talkgroups and whatever tests, reloads, delays and failures come in
\* between.
THEOREM NeverTooOften == Spec => NotMoreOften
<1>1. Init => StoredIsCached
  BY Bounds DEF Init, StoredIsCached
<1>2. TypeOK /\ StoredIsCached /\ [Next]_vars
      => [\A t \in TGs : go'["ticker"].batch = Append(go["ticker"].batch, t)
                         => stored[t] > MinRenotify]_vars
  BY OnlyDueGrow, NotExpired DEF Grows, Senders
<1>3. QED
  BY <1>1, <1>2, CachedStep, TypeCorrect, PTL DEF Spec, NotMoreOften

-----------------------------------------------------------------------------
(* What becomes of a batch of alerts: module Push, with senders of its own. *)

\* The rows whose users are subscribed to what a sender has at hand.
Wanted(s) ==
    {r \in rows : Covers(Subscriptions(r.user), Head(out[s].batch))}

\* The history follows the rows that are wanted.
LEMMA Watched ==
    ASSUME Watch, NEW s \in Dispatchers
    PROVE  /\ ~Dispatching(out'[s]) => ever'[s] = {} /\ always'[s] = {}
           /\ Dispatching(out'[s]) =>
                /\ Wanted(s)' \subseteq ever'[s]
                /\ always'[s] \subseteq Wanted(s)'
                /\ ever'[s] \subseteq ever[s] \cup Wanted(s)'
           /\ Dispatching(out'[s]) /\ Dispatching(out[s])
                /\ out'[s].batch = out[s].batch
              => ever[s] \subseteq ever'[s] /\ always'[s] \subseteq always[s]
BY DEF Watch, Wanted

\* The query finds the rows that are wanted.
LEMMA QueryFinds ==
    ASSUME PushTypeOK, NEW s \in Dispatchers, out[s].batch # <<>>
    PROVE  GetWebPushSubscriptionsSubscribed(Head(out[s].batch)) = Wanted(s)
<1>1. Head(out[s].batch) \in Talkgroups
  BY DEF PushTypeOK
<1>2. SystemOf[Head(out[s].batch)] \in Systems
  BY <1>1 DEF Systems
<1>. QED
  BY <1>1, <1>2
     DEF GetWebPushSubscriptionsSubscribed, Wanted, Covers,
         Subscriptions, GetTalkgroupSubscriptions,
         GetSystemSubscriptions

\* A sender has a batch, what it sends to is wanted or was, and no row that
\* has been wanted all the time is left out.
SenderInv ==
    \A s \in Dispatchers :
       /\ out[s].pc # "none" => out[s].batch # <<>>
       /\ out[s].pc # "send" => out[s].left = {}
       /\ out[s].pc \in {"none", "query"} => told[s] = {} /\ failed[s] = {}
       /\ out[s].left \subseteq ever[s] /\ told[s] \subseteq ever[s]
       /\ out[s].left \cap failed[s] = {}
       /\ out[s].pc \in {"send", "sent"}
            => always[s] \subseteq out[s].left \cup told[s] \cup failed[s]

\* An identifier is given once: what a sender has of a row is that row.
IdInv ==
    /\ \A r \in rows : r.id < nextID
    /\ \A s \in Dispatchers : \A r \in out[s].left :
         r.id < nextID /\ \A q \in rows : q.id = r.id => q = r

PushInv == PushTypeOK /\ SenderInv /\ IdInv

LEMMA InitPush == PushInit => PushInv
BY PushAssumption
   DEF PushInit, PushTypeOK, Quiet, PushInv, SenderInv, IdInv

\* A sender goes on with its next alert, or is done.
LEMMA NextAlertType ==
    ASSUME NEW o, o.batch \in Seq(Talkgroups), o.batch # <<>>
    PROVE  LET n == NextAlert(o) IN
           /\ n \in [pc : {"none", "query"}, batch : Seq(Talkgroups), left : {{}}]
           /\ n.pc = "query" => n.batch # <<>>
           /\ n.batch # o.batch
<1>1. CASE Len(o.batch) = 1
  BY <1>1 DEF NextAlert, Quiet
<1>2. CASE Len(o.batch) # 1
  <2>1. Tail(o.batch) \in Seq(Talkgroups) /\ Len(Tail(o.batch)) = Len(o.batch) - 1
        /\ Len(o.batch) \in Nat \ {0, 1}
    BY <1>2
  <2>2. Len(<<>>) = 0 /\ Len(Tail(o.batch)) # 0 /\ Len(Tail(o.batch)) # Len(o.batch)
    BY <2>1
  <2>3. Tail(o.batch) # <<>> /\ Tail(o.batch) # o.batch
    BY <2>2, Zenon
  <2>. QED  BY <1>2, <2>1, <2>3 DEF NextAlert, Quiet
<1>. QED  BY <1>1, <1>2

\* What a step of the senders or of the users is, but for the history: at most
\* one sender moves, and it moves in one of five ways.
SenderMoves(s) ==
    \/ \E b \in Batches : NotifierSend(s, b)
    \/ DispatchAlerts(s)

\* The others stay as they are.
LEMMA OthersStay ==
    ASSUME PushTypeOK, NEW s \in Dispatchers, SenderMoves(s), NEW q \in Dispatchers \ {s}
    PROVE  out'[q] = out[q] /\ told'[q] = told[q] /\ failed'[q] = failed[q]
BY DEF SenderMoves, NotifierSend, DispatchAlerts, QueryDevices,
       SendAlertToSubscriber, AllSent, DispatchNext,
       Forget, PushTypeOK

\* A sender that stays as it is, or sends to one more row, keeps its promises.
LEMMA SenderKeeps ==
    ASSUME PushTypeOK, SenderInv, Watch, NEW s \in Dispatchers,
           out'[s] = out[s], told'[s] = told[s], failed'[s] = failed[s]
    PROVE  /\ out'[s].left \subseteq ever'[s] /\ told'[s] \subseteq ever'[s]
           /\ out'[s].pc \in {"send", "sent"}
                => always'[s] \subseteq out'[s].left \cup told'[s] \cup failed'[s]
<1>1. CASE out[s].pc = "none"
  BY <1>1 DEF SenderInv
<1>2. CASE out[s].pc # "none"
  BY <1>2, Watched DEF SenderInv, Dispatching
<1>. QED  BY <1>1, <1>2

\* What the acting sender has after its step.
LEMMA SenderActs ==
    ASSUME PushTypeOK, SenderInv, Watch,
           NEW s \in Dispatchers, SenderMoves(s)
    PROVE  /\ out'[s].pc # "none" => out'[s].batch # <<>>
           /\ out'[s].pc # "send" => out'[s].left = {}
           /\ out'[s].pc \in {"none", "query"} => told'[s] = {} /\ failed'[s] = {}
           /\ out'[s].left \subseteq ever'[s] /\ told'[s] \subseteq ever'[s]
           /\ out'[s].left \cap failed'[s] = {}
           /\ out'[s].pc \in {"send", "sent"}
                => always'[s] \subseteq out'[s].left \cup told'[s] \cup failed'[s]
<1> USE DEF Dispatching
<1>0. /\ out[s] \in [pc : {"none", "query", "send", "sent"}, batch : Seq(Talkgroups),
                     left : SUBSET Row]
      /\ s \in DOMAIN out /\ s \in DOMAIN told /\ s \in DOMAIN failed
  BY DEF PushTypeOK
<1>1. ASSUME NEW b \in Batches, NotifierSend(s, b)
      PROVE  out'[s].pc = "query" /\ out'[s].batch # <<>> /\ out'[s].left = {}
             /\ told'[s] = {} /\ failed'[s] = {}
  <2>1. out[s] = Quiet /\ told'[s] = told[s] /\ failed'[s] = failed[s] /\ b # <<>>
        /\ out'[s] = [Quiet EXCEPT !.pc = "query", !.batch = b]
    BY <1>0, <1>1, PushAssumption DEF NotifierSend
  <2>2. told[s] = {} /\ failed[s] = {}
    BY <2>1 DEF Quiet, SenderInv
  <2>. QED  BY <2>1, <2>2 DEF Quiet
<1>2. CASE QueryDevices(s)
  <2>1. out[s].pc = "query" /\ out[s].batch # <<>> /\ told[s] = {} /\ failed[s] = {}
        /\ told' = told /\ failed' = failed /\ UNCHANGED <<rows, tgSubs, sysSubs>>
    BY <1>2 DEF QueryDevices, subVars, SenderInv
  <2>2. CASE out' = [out EXCEPT ![s] = NextAlert(@)]
    <3>1. out'[s] = NextAlert(out[s])
      BY <1>0, <2>2
    <3>. QED  BY <1>0, <2>1, <3>1, NextAlertType
  <2>3. CASE out' = [out EXCEPT ![s].pc = "send",
                     ![s].left = GetWebPushSubscriptionsSubscribed(Head(out[s].batch))]
    <3>1. out'[s].pc = "send" /\ out'[s].batch = out[s].batch /\ out'[s].left = Wanted(s)
      BY <1>0, <2>1, <2>3, QueryFinds
    <3>2. Wanted(s)' = Wanted(s)
      BY <2>1, <3>1
         DEF Wanted, Covers, Subscriptions,
             GetTalkgroupSubscriptions, GetSystemSubscriptions
    <3>. QED  BY <2>1, <3>1, <3>2, Watched
  <2>. QED  BY <1>2, <2>2, <2>3 DEF QueryDevices
<1>3. CASE SendAlertToSubscriber(s)
  <2>1. PICK r \in out[s].left :
          /\ out'[s].left = out[s].left \ {r}
          /\ \/ told'[s] = told[s] \cup {r} /\ failed'[s] = failed[s]
             \/ told'[s] = told[s] /\ failed'[s] = failed[s] \cup {r}
    BY <1>0, <1>3 DEF SendAlertToSubscriber
  <2>2. out[s].pc = "send" /\ out'[s].pc = "send" /\ out'[s].batch = out[s].batch
    BY <1>0, <1>3 DEF SendAlertToSubscriber
  <2>. QED  BY <2>1, <2>2, Watched DEF SenderInv
<1>4. CASE AllSent(s)
  <2>1. out[s].pc = "send" /\ out[s].left = {} /\ out'[s].pc = "sent" /\ out'[s].left = {}
        /\ out'[s].batch = out[s].batch /\ told' = told /\ failed' = failed
    BY <1>0, <1>4 DEF AllSent
  <2>. QED  BY <2>1, Watched DEF SenderInv
<1>5. CASE DispatchNext(s)
  <2>1. out[s].pc = "sent" /\ out'[s] = NextAlert(out[s]) /\ told'[s] = {}
        /\ failed'[s] = {}
    BY <1>0, <1>5 DEF DispatchNext, Forget
  <2>. QED  BY <1>0, <2>1, NextAlertType DEF SenderInv
<1>. QED  BY <1>1, <1>2, <1>3, <1>4, <1>5 DEF SenderMoves, DispatchAlerts

LEMMA SenderNext ==
    ASSUME PushTypeOK, SenderInv, [PushNext]_pushVars
    PROVE  SenderInv'
<1>1. ASSUME NEW s \in Dispatchers, SenderMoves(s), Watch PROVE SenderInv'
  <2> SUFFICES ASSUME NEW q \in Dispatchers
               PROVE  /\ out'[q].pc # "none" => out'[q].batch # <<>>
                      /\ out'[q].pc # "send" => out'[q].left = {}
                      /\ out'[q].pc \in {"none", "query"} => told'[q] = {} /\ failed'[q] = {}
                      /\ out'[q].left \subseteq ever'[q] /\ told'[q] \subseteq ever'[q]
                      /\ out'[q].left \cap failed'[q] = {}
                      /\ out'[q].pc \in {"send", "sent"}
                           => always'[q] \subseteq out'[q].left \cup told'[q] \cup failed'[q]
    BY DEF SenderInv
  <2>1. CASE q = s
    BY <1>1, <2>1, SenderActs
  <2>2. CASE q # s
    <3>1. out'[q] = out[q] /\ told'[q] = told[q] /\ failed'[q] = failed[q]
      BY <1>1, <2>2, OthersStay
    <3>. QED  BY <1>1, <3>1, SenderKeeps DEF SenderInv
  <2>. QED  BY <2>1, <2>2
<1>2. ASSUME UserStep, Watch PROVE SenderInv'
  <2>1. UNCHANGED <<out, told, failed>>
    BY <1>2 DEF UserStep, Subscribe, Unsubscribe,
                WebPushSubscribe
  <2>. QED  BY <1>2, <2>1, SenderKeeps DEF SenderInv
<1>3. CASE UNCHANGED pushVars
  BY <1>3 DEF pushVars, SenderInv
<1>. QED
  BY <1>1, <1>2, <1>3 DEF PushNext, Step, SenderMoves

\* Rows that only lose members, with the identifiers that are given out.
LEMMA IdKeeps ==
    ASSUME IdInv, rows' \subseteq rows, nextID' = nextID,
           \A s \in Dispatchers : out'[s].left \subseteq out[s].left \cup rows,
           PushTypeOK
    PROVE  IdInv'
BY DEF IdInv, PushTypeOK

LEMMA IdNext ==
    ASSUME PushTypeOK, SenderInv, IdInv, [PushNext]_pushVars
    PROVE  IdInv'
<1>1. ASSUME NEW s \in Dispatchers, SenderMoves(s) PROVE IdInv'
  <2>1. rows' \subseteq rows /\ nextID' = nextID
    BY <1>1
       DEF SenderMoves, NotifierSend, DispatchAlerts, QueryDevices,
           SendAlertToSubscriber, DeletePushSubscriptionByID,
           AllSent, DispatchNext, subVars
  <2>2. out'[s].left \subseteq out[s].left \cup rows
    <3>0. /\ out[s] \in [pc : {"none", "query", "send", "sent"}, batch : Seq(Talkgroups),
                         left : SUBSET Row]
          /\ s \in DOMAIN out
      BY DEF PushTypeOK
    <3>1. out[s].pc \in {"query", "sent"} => NextAlert(out[s]).left = {}
      BY <3>0, NextAlertType DEF SenderInv
    <3>2. CASE \E b \in Batches : NotifierSend(s, b)
      BY <3>0, <3>2 DEF NotifierSend, Quiet
    <3>3. CASE QueryDevices(s)
      BY <3>0, <3>1, <3>3
         DEF QueryDevices, GetWebPushSubscriptionsSubscribed
    <3>4. CASE SendAlertToSubscriber(s)
      BY <3>0, <3>4 DEF SendAlertToSubscriber
    <3>5. CASE AllSent(s) \/ DispatchNext(s)
      BY <3>0, <3>1, <3>5 DEF AllSent, DispatchNext
    <3>. QED  BY <1>1, <3>2, <3>3, <3>4, <3>5 DEF SenderMoves, DispatchAlerts
  <2>3. \A q \in Dispatchers \ {s} : out'[q] = out[q]
    BY <1>1, OthersStay
  <2>. QED  BY <2>1, <2>2, <2>3, IdKeeps
<1>2. CASE UNCHANGED <<rows, nextID, out>>
  BY <1>2 DEF IdInv
<1>3. ASSUME NEW u \in Subscribers, NEW d \in Devices, WebPushSubscribe(u, d)
      PROVE  IdInv'
  <2> DEFINE n == [id |-> nextID, user |-> u, dev |-> d]
  <2>1. rows' = rows \cup {n} /\ nextID' = nextID + 1 /\ out' = out
    BY <1>3 DEF WebPushSubscribe, CreateWebPushSubscription
  <2>2. nextID \in Nat /\ \A r \in rows : r.id \in Nat
    BY DEF PushTypeOK, Row
  <2>3. \A s \in Dispatchers : \A r \in out[s].left : r.id \in Nat
    BY DEF PushTypeOK, Row
  <2>. QED  BY <2>1, <2>2, <2>3 DEF IdInv
<1>4. ASSUME NEW u \in Subscribers, NEW sub \in SubSets,
             Subscribe(u, sub) \/ Unsubscribe(u, sub)
      PROVE  IdInv'
  BY <1>2, <1>4 DEF Subscribe, Unsubscribe
<1>5. CASE UNCHANGED pushVars
  BY <1>2, <1>5 DEF pushVars
<1>. QED
  BY <1>1, <1>3, <1>4, <1>5 DEF PushNext, Step, UserStep, SenderMoves

\* The types of the tables of subscriptions, of the rows, and of the senders.
LEMMA TablesNext ==
    ASSUME PushTypeOK, [PushNext]_pushVars
    PROVE  (tgSubs \subseteq Subscribers \X Talkgroups)' /\ (sysSubs \subseteq Subscribers \X Systems)'
<1>1. CASE UNCHANGED <<tgSubs, sysSubs>>
  BY <1>1 DEF PushTypeOK, Systems
<1>2. ASSUME NEW u \in Subscribers, NEW sub \in SubSets,
             Subscribe(u, sub) \/ Unsubscribe(u, sub)
      PROVE  (tgSubs \subseteq Subscribers \X Talkgroups)' /\ (sysSubs \subseteq Subscribers \X Systems)'
  <2>1. sub.talkgroups \subseteq Talkgroups /\ sub.systems \subseteq Systems
    BY PushAssumption
  <2>. QED
    BY <1>2, <2>1
       DEF Subscribe, Unsubscribe, SubscribeTalkgroups,
           SubscribeSystems, UnsubscribeAllSystems,
           UnsubscribeAllTalkgroups, UnsubscribeSystems,
           UnsubscribeTalkgroups, PushTypeOK, Systems
<1>3. ASSUME NEW s \in Dispatchers, SenderMoves(s) PROVE UNCHANGED <<tgSubs, sysSubs>>
  BY <1>3
     DEF SenderMoves, NotifierSend, DispatchAlerts, QueryDevices,
         SendAlertToSubscriber, AllSent, DispatchNext,
         subVars
<1>4. ASSUME NEW u \in Subscribers, NEW d \in Devices, WebPushSubscribe(u, d)
      PROVE  UNCHANGED <<tgSubs, sysSubs>>
  BY <1>4 DEF WebPushSubscribe
<1>5. CASE UNCHANGED pushVars
  BY <1>1, <1>5 DEF pushVars
<1>. QED
  BY <1>1, <1>2, <1>3, <1>4, <1>5
     DEF PushNext, Step, UserStep, SenderMoves

\* Rows are those of one device and one identifier each.
RowsOK ==
    /\ rows \subseteq Row /\ nextID \in 1..(MaxRows + 1)
    /\ \A r, q \in rows : r.id = q.id \/ r.dev = q.dev => r = q

LEMMA RowsNext ==
    ASSUME PushTypeOK, IdInv, [PushNext]_pushVars
    PROVE  RowsOK'
<1>0. RowsOK /\ MaxRows \in Nat
  BY PushAssumption DEF PushTypeOK, RowsOK
<1>1. ASSUME rows' \subseteq rows, nextID' = nextID PROVE RowsOK'
  BY <1>0, <1>1 DEF RowsOK, Row
<1>2. ASSUME NEW s \in Dispatchers, SenderMoves(s) PROVE rows' \subseteq rows /\ nextID' = nextID
  BY <1>2
     DEF SenderMoves, NotifierSend, DispatchAlerts, QueryDevices,
         SendAlertToSubscriber, DeletePushSubscriptionByID,
         AllSent, DispatchNext, subVars
<1>3. ASSUME NEW u \in Subscribers, NEW d \in Devices, WebPushSubscribe(u, d)
      PROVE  RowsOK'
  <2> DEFINE n == [id |-> nextID, user |-> u, dev |-> d]
  <2>1. rows' = rows \cup {n} /\ nextID' = nextID + 1 /\ nextID <= MaxRows
        /\ \A r \in rows : r.dev # d
    BY <1>3 DEF WebPushSubscribe, CreateWebPushSubscription
  <2>2. nextID \in 1..MaxRows /\ nextID + 1 \in 1..(MaxRows + 1)
    BY <1>0, <2>1 DEF RowsOK
  <2>3. n \in Row
    BY <2>2 DEF Row
  <2>4. \A r \in rows : r.id # n.id /\ r.dev # n.dev
    BY <2>1, <2>2, <1>0 DEF IdInv, RowsOK, Row
  <2>. QED  BY <1>0, <2>1, <2>2, <2>3, <2>4 DEF RowsOK, Row
<1>4. ASSUME NEW u \in Subscribers, NEW sub \in SubSets,
             Subscribe(u, sub) \/ Unsubscribe(u, sub)
      PROVE  RowsOK'
  BY <1>1, <1>4 DEF Subscribe, Unsubscribe
<1>5. CASE UNCHANGED pushVars
  BY <1>1, <1>5 DEF pushVars
<1>. QED
  BY <1>1, <1>2, <1>3, <1>4, <1>5
     DEF PushNext, Step, UserStep, SenderMoves

\* What a sender is doing.
Sending == [pc : {"none", "query", "send", "sent"}, batch : Seq(Talkgroups), left : SUBSET Row]

LEMMA SendersNext ==
    ASSUME PushTypeOK, SenderInv, RowsOK',
           [PushNext]_pushVars
    PROVE  /\ out' \in [Dispatchers -> Sending]
           /\ told' \in [Dispatchers -> SUBSET Row]
           /\ failed' \in [Dispatchers -> SUBSET Row]
           /\ ever' \in [Dispatchers -> SUBSET Row]
           /\ always' \in [Dispatchers -> SUBSET Row]
<1>0. /\ out \in [Dispatchers -> Sending]
      /\ told \in [Dispatchers -> SUBSET Row]
      /\ failed \in [Dispatchers -> SUBSET Row]
      /\ ever \in [Dispatchers -> SUBSET Row]
      /\ always \in [Dispatchers -> SUBSET Row]
      /\ rows \subseteq Row
  BY DEF PushTypeOK, Sending
<1>1. ASSUME NEW s \in Dispatchers, SenderMoves(s)
      PROVE  /\ out' \in [Dispatchers -> Sending]
             /\ told' \in [Dispatchers -> SUBSET Row]
             /\ failed' \in [Dispatchers -> SUBSET Row]
  <2>1. ASSUME NEW b \in Batches, NotifierSend(s, b) PROVE out' \in [Dispatchers -> Sending]
    <3>1. [Quiet EXCEPT !.pc = "query", !.batch = b] \in Sending
      BY PushAssumption DEF Quiet, Sending
    <3>. QED  BY <1>0, <2>1, <3>1 DEF NotifierSend
  <2>2. out[s].pc # "none" => NextAlert(out[s]) \in Sending
    BY <1>0, NextAlertType DEF SenderInv, Sending
  <2>3. CASE QueryDevices(s)
    <3> DEFINE found == GetWebPushSubscriptionsSubscribed(Head(out[s].batch))
    <3>1. found \in SUBSET Row
      BY <1>0 DEF GetWebPushSubscriptionsSubscribed
    <3>2. UNCHANGED <<told, failed>> /\ out[s].pc = "query"
          /\ \/ out' = [out EXCEPT ![s].pc = "send", ![s].left = found]
             \/ out' = [out EXCEPT ![s] = NextAlert(@)]
      BY <2>3 DEF QueryDevices
    <3> HIDE DEF found
    <3>3. out[s] \in Sending
      BY <1>0
    <3>4. [out[s] EXCEPT !.pc = "send", !.left = found] \in Sending
      BY <3>1, <3>3 DEF Sending
    <3>5. CASE out' = [out EXCEPT ![s].pc = "send", ![s].left = found]
      <4>1. out' = [out EXCEPT ![s] = [out[s] EXCEPT !.pc = "send", !.left = found]]
        BY <1>0, <3>5
      <4>. QED  BY <1>0, <3>2, <3>4, <4>1
    <3>. QED  BY <1>0, <2>2, <3>2, <3>5
  <2>4. CASE SendAlertToSubscriber(s)
    <3>1. PICK r \in out[s].left :
            /\ out' = [out EXCEPT ![s].left = @ \ {r}]
            /\ \/ told' = [told EXCEPT ![s] = @ \cup {r}] /\ UNCHANGED failed
               \/ UNCHANGED told /\ failed' = [failed EXCEPT ![s] = @ \cup {r}]
      BY <2>4 DEF SendAlertToSubscriber
    <3>2. r \in Row
      BY <1>0, <3>1 DEF Sending
    <3>3. out' \in [Dispatchers -> Sending]
      <4>1. [out[s] EXCEPT !.left = @ \ {r}] \in Sending
        BY <1>0 DEF Sending
      <4>2. out' = [out EXCEPT ![s] = [out[s] EXCEPT !.left = @ \ {r}]]
        BY <1>0, <3>1
      <4>. QED  BY <1>0, <4>1, <4>2
    <3>. QED  BY <1>0, <3>1, <3>2, <3>3
  <2>5. CASE AllSent(s)
    BY <1>0, <2>5 DEF AllSent, Sending
  <2>6. CASE DispatchNext(s)
    BY <1>0, <2>2, <2>6 DEF DispatchNext, Forget
  <2>. QED
    BY <1>0, <1>1, <2>1, <2>3, <2>4, <2>5, <2>6
       DEF SenderMoves, DispatchAlerts, NotifierSend
<1>2. ASSUME UserStep PROVE UNCHANGED <<out, told, failed>>
  BY <1>2 DEF UserStep, Subscribe, Unsubscribe,
              WebPushSubscribe
<1>3. ASSUME Watch
      PROVE  /\ ever' \in [Dispatchers -> SUBSET Row]
             /\ always' \in [Dispatchers -> SUBSET Row]
  <2>1. rows' \subseteq Row
    BY DEF RowsOK, Row
  <2>. QED  BY <1>0, <1>3, <2>1 DEF Watch
<1>4. CASE UNCHANGED pushVars
  BY <1>0, <1>4 DEF pushVars
<1>. QED
  BY <1>0, <1>1, <1>2, <1>3, <1>4 DEF PushNext, Step, SenderMoves

LEMMA PushKept ==
    ASSUME PushInv, [PushNext]_pushVars
    PROVE  PushInv'
<1>1. RowsOK'
  BY RowsNext DEF PushInv
<1>2. (tgSubs \subseteq Subscribers \X Talkgroups)' /\ (sysSubs \subseteq Subscribers \X Systems)'
  BY TablesNext DEF PushInv
<1>3. PushTypeOK'
  BY <1>1, <1>2, SendersNext DEF PushInv, RowsOK, Sending, PushTypeOK
<1>. QED  BY <1>3, SenderNext, IdNext DEF PushInv

\* The tables, the rows and the senders of notifications keep their types: in
\* particular no two rows have one device or one identifier.
THEOREM PushTypeCorrect ==
    PushSpec => []PushTypeOK
<1>1. PushInit => PushInv
  BY InitPush
<1>2. PushInv /\ [PushNext]_pushVars => PushInv'
  BY PushKept
<1>3. PushInv => PushTypeOK
  BY DEF PushInv
<1>. QED  BY <1>1, <1>2, <1>3, PTL DEF PushSpec

\* Whatever users, other senders and push services do meanwhile, an alert that
\* has been dispatched was sent to every device that was subscribed all the
\* time, unless its own delivery failed, and to none that never was.
THEOREM EveryoneIsTold ==
    PushSpec => []SubscribersTold
<1>1. PushInit => PushInv
  BY InitPush
<1>2. PushInv /\ [PushNext]_pushVars => PushInv'
  BY PushKept
<1>3. PushInv => SubscribersTold
  BY DEF PushInv, SenderInv, SubscribersTold
<1>. QED  BY <1>1, <1>2, <1>3, PTL DEF PushSpec

\* A device loses its row only by a failed delivery to that very row, not by one
\* to a row it had before and another sender still knows of.
THEOREM OnlyRefusedLeave ==
    PushSpec => OnlyRefusedGo
<1> DEFINE Refused == \A r \in rows \ rows' :
                         \E s \in Dispatchers : r \in failed'[s] \ failed[s]
<1>1. PushInit => PushInv
  BY InitPush
<1>2. PushInv /\ [PushNext]_pushVars => PushInv'
  BY PushKept
<1>3. PushInv /\ [PushNext]_pushVars => [Refused]_pushVars
  <2> SUFFICES ASSUME PushInv, PushNext, NEW r \in rows \ rows'
               PROVE  \E s \in Dispatchers : r \in failed'[s] \ failed[s]
    OBVIOUS
  <2>1. PICK s \in Dispatchers : SendAlertToSubscriber(s)
    BY DEF PushNext, Step, UserStep, Subscribe,
           Unsubscribe, WebPushSubscribe,
           CreateWebPushSubscription, DispatchAlerts, NotifierSend,
           QueryDevices, AllSent, DispatchNext, subVars
  <2>2. PICK q \in out[s].left : /\ failed' = [failed EXCEPT ![s] = @ \cup {q}]
                                 /\ rows' = DeletePushSubscriptionByID(q)
    BY <2>1 DEF SendAlertToSubscriber
  <2>3. r.id = q.id
    BY <2>2 DEF DeletePushSubscriptionByID
  <2>4. r = q
    BY <2>3 DEF PushInv, IdInv
  <2>5. q \notin failed[s] /\ q \in failed'[s]
    BY <2>2 DEF PushInv, SenderInv, PushTypeOK
  <2>. QED  BY <2>4, <2>5
<1>. QED  BY <1>1, <1>2, <1>3, PTL DEF PushSpec, OnlyRefusedGo
=============================================================================
