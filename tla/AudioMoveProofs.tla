-------------------------- MODULE AudioMoveProofs --------------------------
(***************************************************************************)
(* Proofs about AudioMove, as long as the failures are those of the        *)
(* transaction, of the caller, of the server and of the bulk deletes:      *)
(* types; no committed row dangles; a move is one atomic step to the       *)
(* readers of the table calls.  And as long as users do not change the     *)
(* tags meanwhile: what a success carried and left, in one batch and in    *)
(* several, and says; and that a rollback leaves no object behind, if no   *)
(* row is taken twice at the border of a batch or by another try.          *)
(***************************************************************************)
EXTENDS AudioMove, FiniteSetTheorems, TLAPS

-----------------------------------------------------------------------------
(* Type correctness.                                                       *)

\* A group of variables that does not change keeps its type.
LEMMA Frame ==
    ASSUME TypeOK
    PROVE  /\ UNCHANGED <<stores, before>> => StoresOK'
           /\ UNCHANGED <<workers, req>> => PoolOK'
           /\ UNCHANGED <<txpc, pend>> => TxOK'
           /\ UNCHANGED tracker => TrackerOK'
<1>1. UNCHANGED <<stores, before>> => StoresOK'
  BY DEF TypeOK, StoresOK, stores
<1>2. UNCHANGED <<workers, req>> => PoolOK'
  BY DEF TypeOK, PoolOK, workers
<1>3. UNCHANGED <<txpc, pend>> => TxOK'
  BY DEF TypeOK, TxOK
<1>4. UNCHANGED tracker => TrackerOK'
  BY DEF TypeOK, TrackerOK, tracker
<1>5. QED
  BY <1>1, <1>2, <1>3, <1>4

LEMMA Bounds ==
    /\ MaxTries \in Nat /\ MaxMoves \in Nat
    /\ \A r \in Requests : r.tries \in 0..MaxTries /\ r.start \in Nat
BY AudioMoveAssumption DEF RequestType

\* The row an update writes is a row.
LEMMA NewRowType ==
    ASSUME TypeOK, NEW w \in Workers, wcall[w] \in Calls, req \in Requests
    PROVE  NewRow(w) \in Row
<1>1. req.dest \in Backends \cup {DB}
  BY AudioMoveAssumption DEF RequestType
<1>2. wblob[w] \in Audio /\ "none" \in Audio
  BY DEF TypeOK, PoolOK, Audio
<1>3. NewRow(w).refs \in SUBSET Backends
  BY <1>1 DEF NewRow, AudioRefOut
<1>4. NewRow(w).blob \in Audio
  BY <1>2 DEF NewRow
<1>5. QED
  BY <1>3, <1>4 DEF Row, NewRow

\* A turn of the retry loop leaves the pool well formed.
LEMMA NextTurnType ==
    ASSUME TypeOK, NEW w \in Workers, NextTurn(w),
           wpc[w] \in {"get", "store", "send"},
           wblob' \in [Workers -> Audio], werr' \in [Workers -> BOOLEAN],
           req' = req
    PROVE  PoolOK' /\ egErr' \in BOOLEAN
<1>1. CASE wtry[w] < req.tries
  <2>1. wtry[w] + 1 \in 0..MaxTries
    <3>1. req.tries \in 0..MaxTries /\ wtry[w] \in 0..MaxTries
      BY Bounds DEF TypeOK, PoolOK
    <3>. QED  BY <1>1, <3>1, Bounds
  <2>2. QED
    BY <1>1, <2>1 DEF NextTurn, TypeOK, PoolOK, ControlOK
<1>2. CASE ~(wtry[w] < req.tries)
  BY <1>2 DEF NextTurn, TypeOK, PoolOK, ControlOK
<1>3. QED
  BY <1>1, <1>2

LEMMA WorkerFailsType ==
    ASSUME TypeOK, NEW w \in Workers, WorkerFails(w), wblob' = wblob,
           req' = req
    PROVE  PoolOK' /\ egErr' \in BOOLEAN
BY DEF WorkerFails, TypeOK, PoolOK

LEMMA DeadlineType ==
    ASSUME TypeOK, NEW w \in Workers, DeadlineExceeded(w), wblob' = wblob,
           req' = req,
           wpc[w] \in {"get", "store", "send"}
    PROVE  PoolOK' /\ egErr' \in BOOLEAN
<1>1. wblob' \in [Workers -> Audio] /\ werr' \in [Workers -> BOOLEAN]
  BY DEF TypeOK, PoolOK, DeadlineExceeded
<1>2. QED
  BY <1>1, NextTurnType DEF DeadlineExceeded

LEMMA FinishType ==
    ASSUME TypeOK, NEW failed \in BOOLEAN, Finish(failed), pc # "idle",
           UNCHANGED <<maint, call, query, ctxDone, egErr, completed>>
    PROVE  ControlOK'
<1>1. /\ pc' \in {"rollback", "commit"} /\ res' \in {"ok", "err"}
      /\ left' \subseteq Backends /\ moveErr' \in BOOLEAN
  BY DEF Finish
<1>2. QED
  BY <1>1 DEF TypeOK, ControlOK, call, query

LEMMA QuietType ==
    ASSUME TypeOK, Quiet, UNCHANGED <<stores, call, completed>>,
           res' \in {"none", "ok", "err", "crash"}
    PROVE  TypeOK'
<1>1. StoresOK'
  BY Frame DEF call
<1>2. ControlOK'
  <2>1. 0 \in Int /\ 0 \in Nat
    OBVIOUS
  <2>2. QED
    BY <2>1 DEF Quiet, call, TypeOK, ControlOK
<1>3. PoolOK'
  BY AudioMoveAssumption DEF Quiet, PoolOK, Audio
<1>4. TxOK'
  BY DEF Quiet, TxOK, NoUpdates
<1>5. TrackerOK'
  BY DEF Quiet, TrackerOK, NoRefs
<1>6. QED
  BY <1>1, <1>2, <1>3, <1>4, <1>5 DEF TypeOK

LEMMA TypeInit == Init => TypeOK
<1> SUFFICES ASSUME Init PROVE TypeOK
  OBVIOUS
<1>1. row \in [Calls -> Row]
  BY AudioMoveAssumption DEF Init
<1>2. object \in [Refs -> Audio]
  BY DEF Init, Audio
<1>3. StoresOK
  BY <1>1, <1>2 DEF Init, StoresOK
<1>4. ControlOK
  <2>1. 0 \in 0..MaxMoves /\ 0 \in Int /\ 0 \in Nat
    BY Bounds
  <2>2. QED
    BY <2>1 DEF Init, ControlOK
<1>5. PoolOK
  BY AudioMoveAssumption DEF Init, PoolOK, Audio
<1>6. TxOK
  BY DEF Init, TxOK, NoUpdates
<1>7. TrackerOK
  BY DEF Init, TrackerOK, NoRefs
<1>8. QED
  BY <1>3, <1>4, <1>5, <1>6, <1>7 DEF TypeOK

LEMMA TypeNext == TypeOK /\ [Next]_vars => TypeOK'
<1> SUFFICES ASSUME TypeOK, [Next]_vars PROVE TypeOK'
  OBVIOUS
<1> USE Frame
<1>1. ASSUME NEW r \in Requests, Begin(r) \/ Refuse(r) PROVE TypeOK'
  <2>1. StoresOK'
    BY <1>1 DEF Begin, Refuse, TypeOK, StoresOK, stores
  <2>2. ControlOK'
    <3>1. moves + 1 \in 0..MaxMoves
      BY <1>1, Bounds DEF Begin, Refuse, TypeOK, ControlOK
    <3>2. CASE Begin(r)
      BY <3>1, <3>2 DEF Begin, query, TypeOK, ControlOK
    <3>3. CASE Refuse(r)
      BY <3>1, <3>3 DEF Refuse, query, TypeOK, ControlOK
    <3>4. QED
      BY <1>1, <3>2, <3>3
  <2>3. PoolOK'
    BY <1>1 DEF Begin, Refuse, workers, TypeOK, PoolOK
  <2>4. QED
    BY <1>1, <2>1, <2>2, <2>3 DEF Begin, Refuse, TypeOK
<1>2. CASE NothingToDo
  <2>1. ControlOK'
    BY <1>2, FinishType DEF NothingToDo
  <2>2. QED
    BY <1>2, <2>1 DEF NothingToDo, call, query, TypeOK
<1>3. CASE StartPool
  <2>1. Cardinality(Selected(req)) \in Nat
    <3>1. IsFiniteSet(Selected(req))
      BY FS_Subset, AudioMoveAssumption DEF Selected, Matching, Movable
    <3>. QED  BY <3>1, FS_CardinalityType
  <2>2. req.start \in Nat
    BY <1>3, Bounds DEF StartPool, TypeOK, ControlOK
  <2>3. ControlOK'
    BY <1>3, <2>1, <2>2 DEF StartPool, call, TypeOK, ControlOK
  <2>4. PoolOK'
    BY <1>3 DEF StartPool, call, query, TypeOK, ControlOK, PoolOK
  <2>5. TxOK'
    BY <1>3 DEF StartPool, TypeOK, TxOK
  <2>6. QED
    BY <1>3, <2>3, <2>4, <2>5 DEF StartPool, call, query, TypeOK
<1>4. ASSUME NEW w \in Workers, SendRow(w) PROVE TypeOK'
  <2>1. ControlOK'
    <3>1. PICK c \in batch : /\ batch' = batch \ {c} /\ count' = count - 1
                             /\ start' = DateOf[c]
      BY <1>4 DEF SendRow
    <3>2. DateOf[c] \in Nat /\ batch' \subseteq Calls /\ count' \in Int
      BY <3>1, AudioMoveAssumption DEF TypeOK, ControlOK
    <3>. QED  BY <1>4, <3>1, <3>2 DEF SendRow, call, TypeOK, ControlOK
  <2>2. PoolOK'
    BY <1>4, Bounds DEF SendRow, call, query, TypeOK, ControlOK, PoolOK
  <2>3. QED
    BY <1>4, <2>1, <2>2 DEF SendRow, call, query, TypeOK
<1>5. CASE CloseWork
  <2>1. ControlOK'
    BY <1>5 DEF CloseWork, call, query, TypeOK, ControlOK
  <2>2. QED
    BY <1>5, <2>1 DEF CloseWork, call, query, TypeOK
<1>6. CASE Join
  <2>1. ControlOK'
    BY <1>6 DEF Join, call, query, TypeOK, ControlOK
  <2>2. QED
    BY <1>6, <2>1 DEF Join, call, query, TypeOK
<1>7. ASSUME NEW w \in Workers, GetAudio(w) PROVE TypeOK'
  <2> DEFINE c == wcall[w]
  <2>1. c \in Calls /\ wpc[w] \in {"get", "store", "send"} /\ req' = req
    BY <1>7 DEF GetAudio, call, query, TypeOK, PoolOK
  <2>2. ASSUME NEW v \in Audio, HaveAudio(w, v)
        PROVE  PoolOK' /\ egErr' \in BOOLEAN /\ del' \in [Refs -> Nat]
    <3>1. PoolOK'
      BY <2>1, <2>2 DEF HaveAudio, TypeOK, PoolOK
    <3>2. egErr' \in BOOLEAN
      BY <2>2 DEF HaveAudio, TypeOK, ControlOK
    <3>3. del' \in [Refs -> Nat]
      BY <2>2 DEF HaveAudio, TypeOK, TrackerOK
    <3>4. QED
      BY <3>1, <3>2, <3>3
  <2>3. row[c].blob \in Audio /\ Fetched(c) \subseteq Audio
    <3>1. row[c] \in Row
      BY <2>1 DEF TypeOK, StoresOK
    <3>2. row[c].blob \in Audio /\ row[c].refs \subseteq Backends
      BY <3>1 DEF Row
    <3>3. \A b \in row[c].refs : object[c, b] \in Audio
      BY <2>1, <3>2 DEF TypeOK, StoresOK, Refs
    <3>4. {"none", "bad"} \subseteq Audio
      BY DEF Audio
    <3>5. QED
      BY <3>2, <3>3, <3>4 DEF Fetched
  <2>4. PoolOK' /\ egErr' \in BOOLEAN /\ del' \in [Refs -> Nat]
    <3>1. CASE \E v \in Audio : HaveAudio(w, v)
      BY <3>1, <2>2
    <3>2. CASE WorkerFails(w) /\ UNCHANGED <<wblob, del>>
      BY <3>2, <2>1, WorkerFailsType DEF TypeOK, TrackerOK
    <3>3. CASE DeadlineExceeded(w) /\ UNCHANGED <<wblob, del>>
      BY <3>3, <2>1, DeadlineType DEF TypeOK, TrackerOK
    <3>4. QED
      BY <1>7, <2>3, <3>1, <3>2, <3>3 DEF GetAudio
  <2>5. ControlOK'
    BY <1>7, <2>4 DEF GetAudio, call, query, TypeOK, ControlOK
  <2>6. TrackerOK'
    BY <1>7, <2>4 DEF GetAudio, TypeOK, TrackerOK
  <2>7. QED
    BY <1>7, <2>4, <2>5, <2>6 DEF GetAudio, call, query, TypeOK
<1>8. ASSUME NEW w \in Workers, StoreAudio(w) PROVE TypeOK'
  <2> DEFINE c == wcall[w]
             b == req.dest
  <2>1. /\ c \in Calls /\ wpc[w] \in {"get", "store", "send"}
        /\ req' = req /\ wblob' = wblob
    BY <1>8 DEF StoreAudio, call, query, TypeOK, PoolOK
  <2>2. Content(w) \in Audio /\ "bad" \in Audio
    BY DEF Content, Audio
  <2>3. object' \in [Refs -> Audio]
    <3>1. \A r \in Refs : object[r] \in Audio
      BY DEF TypeOK, StoresOK
    <3>2. \E v : object' = [object EXCEPT ![<<c, b>>] = v]
                 /\ v \in {object[c, b], Content(w), "bad"}
      BY <1>8 DEF StoreAudio, Remains
    <3>3. CASE <<c, b>> \in Refs
      BY <2>2, <3>1, <3>2, <3>3 DEF TypeOK, StoresOK
    <3>4. CASE <<c, b>> \notin Refs
      BY <3>2, <3>4 DEF TypeOK, StoresOK
    <3>5. QED
      BY <3>3, <3>4
  <2>4. StoresOK'
    BY <1>8, <2>3 DEF StoreAudio, call, query, TypeOK, StoresOK
  <2>5. PoolOK' /\ egErr' \in BOOLEAN
    <3>1. CASE UNCHANGED <<wcall, wtry, werr, egErr>>
               /\ wpc' = [wpc EXCEPT ![w] = "send"]
      BY <2>1, <3>1 DEF TypeOK, PoolOK, ControlOK
    <3>2. CASE WorkerFails(w)
      BY <2>1, <3>2, WorkerFailsType
    <3>3. CASE DeadlineExceeded(w)
      BY <2>1, <3>3, DeadlineType
    <3>4. QED
      BY <1>8, <3>1, <3>2, <3>3 DEF StoreAudio
  <2>6. ControlOK'
    BY <1>8, <2>5 DEF StoreAudio, call, query, TypeOK, ControlOK
  <2>7. TrackerOK'
    BY <1>8 DEF StoreAudio, TypeOK, TrackerOK
  <2>8. QED
    BY <1>8, <2>4, <2>5, <2>6, <2>7 DEF StoreAudio, call, query, TypeOK
<1>9. ASSUME NEW w \in Workers, SendUpdate(w) PROVE TypeOK'
  <2>1. /\ wcall[w] \in Calls /\ wpc[w] \in {"get", "store", "send"}
        /\ wblob' \in [Workers -> Audio] /\ werr' \in [Workers -> BOOLEAN]
        /\ req' = req
    BY <1>9 DEF SendUpdate, call, query, TypeOK, PoolOK
  <2>2. PoolOK' /\ egErr' \in BOOLEAN
    BY <1>9, <2>1, NextTurnType DEF SendUpdate
  <2>3. ctxDone' \in BOOLEAN
    BY <1>9 DEF SendUpdate, TxReceives, TxUpdates, TxFails, TxDrains,
                TypeOK, ControlOK
  <2>4. ControlOK'
    BY <1>9, <2>2, <2>3 DEF SendUpdate, call, query, TypeOK, ControlOK
  <2>5. TxOK'
    <3>1. CASE TxUpdates(w)
      <4>1. req \in Requests
        BY <2>1 DEF TypeOK, PoolOK
      <4>2. QED
        BY <2>1, <3>1, <4>1, NewRowType DEF TxUpdates, TypeOK, TxOK
    <3>2. CASE TxFails
      BY <3>2 DEF TxFails, TypeOK, TxOK, NoUpdates
    <3>3. CASE TxDrains
      BY <3>3 DEF TxDrains, TypeOK, TxOK
    <3>4. QED
      BY <1>9, <3>1, <3>2, <3>3 DEF SendUpdate, TxReceives
  <2>6. QED
    BY <1>9, <2>2, <2>4, <2>5 DEF SendUpdate, call, query, TypeOK
<1>10. ASSUME NEW w \in Workers, WorkerExit(w) PROVE TypeOK'
  <2>1. PoolOK' /\ egErr' \in BOOLEAN
    BY <1>10 DEF WorkerExit, call, query, TypeOK, PoolOK, ControlOK
  <2>2. ControlOK'
    BY <1>10, <2>1 DEF WorkerExit, call, query, TypeOK, ControlOK
  <2>3. QED
    BY <1>10, <2>1, <2>2 DEF WorkerExit, call, query, TypeOK
<1>11. CASE TxBegin
  <2>1. TxOK' /\ ControlOK'
    BY <1>11 DEF TxBegin, call, query, TypeOK, TxOK, ControlOK
  <2>2. QED
    BY <1>11, <2>1 DEF TxBegin, call, query, TypeOK
<1>12. CASE TxEnd
  <2>1. row' \in [Calls -> Row]
    BY <1>12 DEF TxEnd, Committed, TypeOK, StoresOK, TxOK
  <2>2. StoresOK'
    BY <1>12, <2>1 DEF TxEnd, call, query, TypeOK, StoresOK
  <2>3. moveErr \in BOOLEAN /\ pc # "idle"
    BY <1>12 DEF TxEnd, TypeOK, ControlOK
  <2>4. ControlOK'
    BY <1>12, <2>3, FinishType DEF TxEnd
  <2>5. TxOK'
    BY <1>12 DEF TxEnd, TxOK, NoUpdates
  <2>6. QED
    BY <1>12, <2>2, <2>4, <2>5 DEF TxEnd, call, query, TypeOK
<1>13. ASSUME NEW b \in Backends, DeleteBulk(b) PROVE TypeOK'
  <2>1. object' \in [Refs -> Audio]
    BY <1>13 DEF DeleteBulk, TypeOK, StoresOK, Audio
  <2>2. StoresOK'
    BY <1>13, <2>1 DEF DeleteBulk, call, query, TypeOK, StoresOK
  <2>3. ControlOK'
    BY <1>13 DEF DeleteBulk, call, query, TypeOK, ControlOK
  <2>4. QED
    BY <1>13, <2>2, <2>3 DEF DeleteBulk, call, query, TypeOK
<1>14. CASE Unlock
  BY <1>14, QuietType DEF Unlock, TypeOK, ControlOK
<1>15. CASE Cancel
  <2>1. ControlOK'
    BY <1>15 DEF Cancel, call, query, TypeOK, ControlOK
  <2>2. QED
    BY <1>15, <2>1 DEF Cancel, call, query, TypeOK
<1>16. CASE Crash
  BY <1>16, QuietType DEF Crash
<1>17. CASE NextBatch
  <2>1. ControlOK'
    <3>1. batch' \subseteq Calls
      BY <1>17 DEF NextBatch, FirstRows, Matching, Movable
    <3>. QED  BY <1>17, <3>1 DEF NextBatch, call, TypeOK, ControlOK
  <2>2. QED
    BY <1>17, <2>1 DEF NextBatch, call, TypeOK
<1>18. ASSUME NEW c \in Calls, Retag(c) PROVE TypeOK'
  <2>1. StoresOK'
    BY <1>18 DEF Retag, call, TypeOK, StoresOK
  <2>2. ControlOK'
    BY <1>18 DEF Retag, call, query, TypeOK, ControlOK
  <2>3. QED
    BY <1>18, <2>1, <2>2 DEF Retag, call, TypeOK
<1>19. CASE UNCHANGED vars
  <2>1. ControlOK'
    BY <1>19 DEF vars, TypeOK, ControlOK
  <2>2. QED
    BY <1>19, <2>1 DEF vars, stores, workers, tracker, TypeOK
<1>20. QED
  BY <1>1, <1>2, <1>3, <1>4, <1>5, <1>6, <1>7, <1>8, <1>9, <1>10, <1>11,
     <1>12, <1>13, <1>14, <1>15, <1>16, <1>17, <1>18, <1>19
     DEF Next, MoveStep, WorkerStep

\* TypeOK holds in every reachable state, for any number of calls, backends,
\* workers, tries and moves and whatever fails.
THEOREM TypeCorrect == Spec => []TypeOK
<1>1. Init => TypeOK
  BY TypeInit
<1>2. TypeOK /\ [Next]_vars => TypeOK'
  BY TypeNext
<1>3. QED
  BY <1>1, <1>2, PTL DEF Spec

-----------------------------------------------------------------------------
(* No committed row dangles.                                               *)

\* The failures the rows are proof against: those of the database (short of
\* a lost answer to COMMIT), of the caller, of the server and of the bulk
\* deletes.  A failed read or write of an object, or of the query, is not
\* among them: MCAudioMove_faults.cfg shows why.
TxFaultsOnly ==
    Faults \cap {"query", "get", "store", "deadline", "ack"} = {}

LEMMA NoBackendFault ==
    ASSUME TxFaultsOnly
    PROVE  /\ ~Fault("query") /\ ~Fault("get") /\ ~Fault("store")
           /\ ~Fault("deadline") /\ ~Fault("ack")
BY DEF TxFaultsOnly, Fault

\* A tracker that recorded nothing holds no ref.
LEMMA NoRefsHeld ==
    \A c \in Calls, b \in Backends : ~(NoRefs[c, b] > 0)
<1> SUFFICES ASSUME NEW c \in Calls, NEW b \in Backends
             PROVE  ~(NoRefs[c, b] > 0)
  OBVIOUS
<1>1. <<c, b>> \in Refs
  BY DEF Refs
<1>2. NoRefs[<<c, b>>] = 0
  BY <1>1 DEF NoRefs
<1>3. NoRefs[<<c, b>>] \in Int /\ ~(0 > 0)
  BY <1>2, SMT
<1>4. QED
  BY <1>2, <1>3

\* Rows and objects that do not change stay free of dangling references.
LEMMA DanglingFrame ==
    ASSUME IInv, UNCHANGED stores
    PROVE  NoDanglingRefs'
BY DEF IInv, NoDanglingRefs, Sound, stores

LEMMA PendingFrame ==
    ASSUME IInv, UNCHANGED <<object, pend>>, ctxDone => ctxDone',
           \/ pc' \in {"send", "join", "txwait"}
           \/ pend = NoUpdates
    PROVE  PendingInv'
BY DEF IInv, PendingInv, NoUpdates, Sound

LEMMA TrackerFrame ==
    ASSUME IInv, UNCHANGED <<row, req, del, cre, left>>,
           pc' \notin {"idle", "count", "commit"}, pc # "commit"
    PROVE  TrackerInv'
BY DEF IInv, TrackerInv

\* A row the transaction's goroutine gets from a worker is sound.
LEMMA NewRowSound ==
    ASSUME IInv, NEW w \in Workers, wpc[w] = "send", ~ctxDone
    PROVE  Sound(wcall[w], NewRow(w))
<1>1. /\ wblob[w] = "audio"
      /\ req.dest # DB => object[wcall[w], req.dest] = "audio"
  BY DEF IInv, WorkersInv
<1>2. \A b \in NewRow(w).refs : b = req.dest /\ req.dest # DB
  BY DEF NewRow, AudioRefOut
<1>3. NewRow(w).blob # "bad"
  BY <1>1 DEF NewRow
<1>4. NewRow(w).refs = {} => NewRow(w).blob = "audio"
  BY <1>1 DEF NewRow
<1>5. QED
  BY <1>1, <1>2, <1>3, <1>4 DEF Sound

\* The selected row of a busy worker does not name the destination.
LEMMA SelectedRow ==
    ASSUME IInv, NEW w \in Workers, Busy(w)
    PROVE  /\ wcall[w] \in Calls
           /\ req.dest = DB => row[wcall[w]].blob = "none"
           /\ req.dest # DB => /\ req.dest \notin row[wcall[w]].refs
                               /\ req.dest \in Backends
<1>1. wcall[w] \in Movable(req)
  BY DEF IInv, WorkersInv
<1>2. req \in Requests
  BY DEF IInv, TypeOK, PoolOK, Busy
<1>3. req.dest \in Backends \cup {DB}
  BY <1>2, AudioMoveAssumption DEF RequestType
<1>4. QED
  BY <1>1, <1>3 DEF Movable

LEMMA IInvInit == Init => IInv
<1> SUFFICES ASSUME Init PROVE IInv
  OBVIOUS
<1>1. NoDanglingRefs
  <2> SUFFICES ASSUME NEW c \in Calls PROVE Sound(c, row[c])
    BY DEF NoDanglingRefs
  <2>1. /\ row[c].refs \subseteq Backends /\ row[c].blob \in Audio
        /\ row[c].blob # "bad" /\ (row[c].blob = "none" => row[c].refs # {})
    BY AudioMoveAssumption DEF Init, Row
  <2>2. \A b \in row[c].refs : object[c, b] = "audio"
    BY <2>1 DEF Init, Refs
  <2>3. QED
    BY <2>1, <2>2 DEF Sound, Audio
<1>2. CancelledInv /\ WorkersInv
  BY DEF Init, CancelledInv, WorkersInv, Busy, Running
<1>3. PendingInv
  BY DEF Init, PendingInv, NoUpdates
<1>4. TrackerInv
  BY NoRefsHeld DEF Init, TrackerInv
<1>5. QED
  BY <1>1, <1>2, <1>3, <1>4, TypeInit DEF IInv

\* After Quiet the invariant holds, whatever happened before.
LEMMA QuietInv ==
    ASSUME IInv, Quiet, UNCHANGED stores, TypeOK'
    PROVE  IInv'
<1>1. NoDanglingRefs'
  BY DanglingFrame
<1>2. CancelledInv' /\ WorkersInv'
  BY DEF Quiet, CancelledInv, WorkersInv, Busy, Running
<1>3. PendingInv'
  BY DEF Quiet, PendingInv, NoUpdates
<1>4. TrackerInv'
  BY NoRefsHeld DEF Quiet, TrackerInv
<1>5. QED
  BY <1>1, <1>2, <1>3, <1>4 DEF IInv

\* A tracker that recorded nothing stays so, and a commit deletes nothing.
LEMMA FinishTracker ==
    ASSUME IInv, NEW failed \in BOOLEAN, Finish(failed), pc # "commit",
           UNCHANGED <<req, del, cre>>, failed => row' = row
    PROVE  TrackerInv'
<1>1. \A c \in Calls, b \in Backends : ~(del[c, b] > 0)
  BY NoRefsHeld DEF IInv, TrackerInv
<1>2. pc' = "commit" => left' = {}
  BY <1>1 DEF Finish
<1>3. pc' \in {"rollback", "commit"} /\ (pc' # "commit" => row' = row)
  BY DEF Finish
<1>4. QED
  BY <1>2, <1>3 DEF IInv, TrackerInv

LEMMA IInvNext ==
    ASSUME TxFaultsOnly, IInv, [Next]_vars
    PROVE  IInv'
<1>0. TypeOK' /\ TypeOK
  BY TypeNext DEF IInv
<1>1. ASSUME NEW r \in Requests, Begin(r) PROVE IInv'
  <2>1. NoDanglingRefs'
    BY <1>1, DanglingFrame DEF Begin
  <2>2. CancelledInv'
    BY <1>1 DEF Begin, workers, IInv, CancelledInv
  <2>3. WorkersInv'
    BY <1>1 DEF Begin, workers, IInv, WorkersInv, Busy
  <2>4. PendingInv'
    BY <1>1 DEF Begin, IInv, PendingInv, NoUpdates
  <2>5. TrackerInv'
    BY <1>1, NoRefsHeld DEF Begin, tracker, IInv, TrackerInv
  <2>6. QED
    BY <1>0, <2>1, <2>2, <2>3, <2>4, <2>5 DEF IInv
<1>2. ASSUME NEW r \in Requests, Refuse(r) PROVE IInv'
  <2>1. NoDanglingRefs'
    BY <1>2, DanglingFrame DEF Refuse
  <2>2. CancelledInv' /\ WorkersInv'
    BY <1>2 DEF Refuse, stores, workers, IInv, CancelledInv, WorkersInv, Busy,
                Running, Movable
  <2>3. PendingInv'
    BY <1>2 DEF Refuse, IInv, PendingInv, NoUpdates
  <2>4. TrackerInv'
    BY <1>2 DEF Refuse, stores, tracker, IInv, TrackerInv
  <2>5. QED
    BY <1>0, <2>1, <2>2, <2>3, <2>4 DEF IInv
<1>3. CASE NothingToDo
  <2>1. NoDanglingRefs'
    BY <1>3, DanglingFrame DEF NothingToDo
  <2>2. CancelledInv' /\ WorkersInv'
    BY <1>3 DEF NothingToDo, Finish, workers, IInv, CancelledInv,
                WorkersInv, Busy, Running
  <2>3. PendingInv'
    BY <1>3 DEF NothingToDo, Finish, IInv, PendingInv, NoUpdates
  <2>4. TrackerInv'
    BY <1>3, FinishTracker DEF NothingToDo, stores, call, query, tracker
  <2>5. QED
    BY <1>0, <2>1, <2>2, <2>3, <2>4 DEF IInv
<1>4. CASE StartPool
  <2>1. NoDanglingRefs'
    BY <1>4, DanglingFrame DEF StartPool
  <2>2. CancelledInv'
    BY <1>4 DEF StartPool, IInv, CancelledInv, Running
  <2>3. WorkersInv'
    BY <1>4, <1>0 DEF StartPool, stores, call, WorkersInv, Busy, Movable
  <2>4. PendingInv'
    BY <1>4, PendingFrame DEF StartPool, stores
  <2>5. TrackerInv'
    BY <1>4, TrackerFrame DEF StartPool, stores, call, query, tracker
  <2>6. QED
    BY <1>0, <2>1, <2>2, <2>3, <2>4, <2>5 DEF IInv
<1>5. ASSUME NEW w \in Workers, SendRow(w) PROVE IInv'
  <2>1. NoDanglingRefs'
    BY <1>5, DanglingFrame DEF SendRow
  <2>2. CancelledInv'
    BY <1>5 DEF SendRow, IInv, CancelledInv, Running
  <2>3. WorkersInv'
    <3>1. Movable(req)' = Movable(req)
      BY <1>5 DEF SendRow, stores, call, query, Movable
    <3>2. wcall'[w] \in Movable(req) /\ wpc'[w] = "get"
      <4>1. PICK c \in batch : wcall' = [wcall EXCEPT ![w] = c]
        BY <1>5 DEF SendRow
      <4>2. c \in Movable(req)
        BY <1>5 DEF SendRow, IInv, WorkersInv
      <4>3. QED
        BY <1>0, <1>5, <4>1, <4>2 DEF SendRow, TypeOK, PoolOK
    <3>3. \A x \in Workers \ {w} : wcall'[x] = wcall[x] /\ wpc'[x] = wpc[x]
      BY <1>0, <1>5 DEF SendRow, TypeOK, PoolOK
    <3>4. QED
      BY <1>5, <3>1, <3>2, <3>3
         DEF SendRow, stores, call, query, IInv, WorkersInv, Busy
  <2>4. PendingInv'
    BY <1>5, PendingFrame DEF SendRow, stores
  <2>5. TrackerInv'
    BY <1>5, TrackerFrame DEF SendRow, stores, call, query, tracker
  <2>6. QED
    BY <1>0, <2>1, <2>2, <2>3, <2>4, <2>5 DEF IInv
<1>6. CASE CloseWork \/ Join
  <2>1. NoDanglingRefs'
    BY <1>6, DanglingFrame DEF CloseWork, Join
  <2>2. CancelledInv'
    <3>1. UNCHANGED <<ctxDone, egErr, werr>> /\ pc' \in {"join", "txwait"}
      BY <1>6 DEF CloseWork, Join, workers
    <3>2. moveErr' => ctxDone
      <4>1. CASE CloseWork
        BY <4>1, NoBackendFault DEF CloseWork, wctxDone, IInv, CancelledInv
      <4>2. CASE Join
        <5>1. moveErr' => moveErr \/ egErr
          BY <4>2 DEF Join
        <5>2. QED
          BY <4>2, <5>1 DEF Join, IInv, CancelledInv, Running
      <4>3. QED
        BY <1>6, <4>1, <4>2
    <3>3. QED
      BY <3>1, <3>2 DEF IInv, CancelledInv
  <2>3. WorkersInv'
    <3>1. Movable(req)' = Movable(req)
      BY <1>6 DEF CloseWork, Join, stores, call, query, Movable
    <3>2. pc' = "join" \/ \A w \in Workers : wpc[w] = "exit"
      BY <1>6 DEF CloseWork, Join
    <3>3. UNCHANGED <<wpc, wcall, wblob, object, ctxDone, req>>
          /\ pc' # "send"
      BY <1>6 DEF CloseWork, Join, stores, workers, call
    <3>4. QED
      BY <3>1, <3>2, <3>3 DEF IInv, WorkersInv, Busy
  <2>4. PendingInv'
    BY <1>6, PendingFrame DEF CloseWork, Join, stores
  <2>5. TrackerInv'
    BY <1>6, TrackerFrame DEF CloseWork, Join, stores, call, query, tracker
  <2>6. QED
    BY <1>0, <2>1, <2>2, <2>3, <2>4, <2>5 DEF IInv
<1>7. ASSUME NEW w \in Workers, GetAudio(w) PROVE IInv'
  <2> DEFINE c == wcall[w]
  <2>1. /\ Busy(w) /\ c \in Calls /\ Sound(c, row[c])
        /\ row[c].refs \subseteq Backends
    BY <1>0, <1>7, SelectedRow
       DEF GetAudio, Busy, IInv, NoDanglingRefs, TypeOK, StoresOK, Row
  <2>2. ~FromBlob(c) => ~AllFail(c)
    <3>1. \A b \in Backends : ~TimesOut(b)
      BY NoBackendFault DEF TimesOut
    <3>2. \A b \in row[c].refs : ~Unreadable(c, b)
      BY <2>1, NoBackendFault DEF Unreadable, Sound
    <3>3. row[c].refs = {} => FromBlob(c)
      BY <2>1 DEF Sound, FromBlob
    <3>4. QED
      BY <2>1, <3>1, <3>2, <3>3 DEF AllFail
  <2>3. PICK v \in Audio : HaveAudio(w, v) /\ (~ctxDone => v = "audio")
    <3>1. FromBlob(c) => row[c].blob = "audio" /\ req.dest # DB
      BY <1>0, <2>1, SelectedRow
         DEF FromBlob, Sound, TypeOK, StoresOK, Row, Audio
    <3>2. ~ctxDone => \A v \in Fetched(c) : v = "audio"
      BY <2>1 DEF Fetched, Sound, wctxDone, IInv, CancelledInv
    <3>3. Fetched(c) \subseteq Audio
      BY <2>1 DEF Fetched, Sound, Audio
    <3>4. CASE FromBlob(c)
      BY <1>7, <3>1, <3>4 DEF GetAudio, Audio
    <3>5. CASE ~FromBlob(c)
      <4>1. \E v \in Fetched(c) : HaveAudio(w, v)
        BY <1>7, <2>2, <3>5 DEF GetAudio
      <4>2. QED
        BY <4>1, <3>2, <3>3
    <3>6. QED
      BY <3>4, <3>5
  <2>4. NoDanglingRefs'
    BY <1>7, DanglingFrame DEF GetAudio
  <2>5. CancelledInv'
    BY <1>7, <2>3 DEF GetAudio, HaveAudio, IInv, CancelledInv, Running
  <2>6. WorkersInv'
    <3>1. Movable(req)' = Movable(req)
      BY <1>7 DEF GetAudio, stores, call, query, Movable
    <3>2. /\ wcall' = wcall /\ wblob'[w] = v
          /\ wpc'[w] = IF req.dest = DB THEN "send" ELSE "store"
          /\ \A x \in Workers \ {w} : /\ wpc'[x] = wpc[x]
                                      /\ wblob'[x] = wblob[x]
      BY <1>0, <2>3 DEF HaveAudio, TypeOK, PoolOK
    <3>3. /\ pc' = pc /\ ctxDone' = ctxDone /\ req' = req /\ object' = object
          /\ batch' = batch
      BY <1>7 DEF GetAudio, stores, call, query
    <3>4. pc \in {"send", "join"}
      BY <2>1 DEF IInv, WorkersInv, Busy
    <3>5. QED
      BY <2>1, <2>3, <3>1, <3>2, <3>3, <3>4 DEF IInv, WorkersInv, Busy
  <2>7. PendingInv'
    BY <1>7, PendingFrame, <2>1
       DEF GetAudio, stores, IInv, WorkersInv, Busy
  <2>8. TrackerInv'
    <3>1. del' = del
      <4>1. CASE req.copy \/ FromBlob(c)
        BY <2>3, <4>1 DEF HaveAudio
      <4>2. CASE ~(req.copy \/ FromBlob(c))
        BY <1>0, <2>3, <4>2
           DEF HaveAudio, AudioRefOut, TypeOK, TrackerOK
      <4>3. QED
        BY <4>1, <4>2
    <3>2. QED
      BY <1>7, <3>1 DEF GetAudio, stores, call, query, IInv, TrackerInv
  <2>9. QED
    BY <1>0, <2>4, <2>5, <2>6, <2>7, <2>8 DEF IInv
<1>8. ASSUME NEW w \in Workers, StoreAudio(w) PROVE IInv'
  <2> DEFINE c == wcall[w]
             b == req.dest
  <2>1. /\ Busy(w) /\ c \in Calls /\ b # DB /\ b \in Backends
        /\ b \notin row[c].refs /\ pc \in {"send", "join"}
        /\ <<c, b>> \in Refs
    BY <1>8, SelectedRow DEF StoreAudio, Busy, IInv, WorkersInv, Refs
  <2>2. /\ ~ctxDone => /\ CanRead(b) /\ Content(w) = "audio"
        /\ ~TimesOut(b) /\ ~Fault("store")
        /\ ~CanRead(b) => ctxDone
    BY <1>8, NoBackendFault
       DEF StoreAudio, CanRead, wctxDone, Content, TimesOut, IInv,
           CancelledInv, WorkersInv
  <2>3. PICK v : /\ object' = [object EXCEPT ![<<c, b>>] = v]
                 /\ ~ctxDone => v = "audio"
    BY <1>8, <2>2 DEF StoreAudio
  <2>4. /\ object'[c, b] = v
        /\ \A r \in Refs \ {<<c, b>>} : object'[r] = object[r]
    BY <1>0, <2>1, <2>3 DEF TypeOK, StoresOK
  <2>5. UNCHANGED <<row, pc, req, batch, ctxDone, moveErr, wblob, pend, del,
                    left>>
    BY <1>8 DEF StoreAudio, call, query
  <2>6. NoDanglingRefs'
    <3> SUFFICES ASSUME NEW d \in Calls, NEW e \in row[d].refs
                 PROVE  object'[d, e] = "audio"
      BY <2>5 DEF IInv, NoDanglingRefs, Sound
    <3>1. e \in Backends /\ <<d, e>> # <<c, b>>
      BY <1>0, <2>1 DEF TypeOK, StoresOK, Row
    <3>2. QED
      BY <2>4, <3>1 DEF IInv, NoDanglingRefs, Sound, Refs
  <2>7. CancelledInv'
    <3>1. CASE ~ctxDone
      BY <1>8, <2>2, <2>5, <3>1 DEF StoreAudio, IInv, CancelledInv, Running
    <3>2. CASE ctxDone
      BY <2>1, <2>5, <3>2 DEF CancelledInv
    <3>3. QED
      BY <3>1, <3>2, <1>0 DEF TypeOK, ControlOK
  <2>8. WorkersInv'
    <3>1. Movable(req)' = Movable(req)
      BY <2>5 DEF Movable
    <3>2. \A x \in Workers \ {w} : wpc'[x] = wpc[x] /\ wcall'[x] = wcall[x]
      BY <1>0, <1>8, <2>2
         DEF StoreAudio, WorkerFails, TypeOK, PoolOK
    <3>3. wpc'[w] = "exit" \/ (wpc'[w] = "send" /\ wcall'[w] = c)
      <4>1. CASE wpc' = [wpc EXCEPT ![w] = "send"] /\ wcall' = wcall
        BY <1>0, <4>1 DEF TypeOK, PoolOK
      <4>2. CASE WorkerFails(w)
        BY <1>0, <4>2 DEF WorkerFails, TypeOK, PoolOK
      <4>3. QED
        BY <1>8, <2>2, <4>1, <4>2 DEF StoreAudio
    <3>4. wblob[w] = "audio" \/ ctxDone
      BY <1>8 DEF StoreAudio, IInv, WorkersInv
    <3>5. ASSUME NEW x \in Workers, ~ctxDone, wpc'[x] = "send"
          PROVE  object'[wcall'[x], b] = "audio"
      <4>1. CASE x = w
        BY <2>3, <2>4, <3>3, <3>5, <4>1
      <4>2. CASE x # w
        <5>1. Busy(x) /\ wcall'[x] = wcall[x] /\ wpc[x] = "send"
          BY <3>2, <3>5, <4>2 DEF Busy
        <5>2. wcall[x] \in Calls /\ object[wcall[x], b] = "audio"
          BY <2>1, <3>5, <5>1, SelectedRow DEF IInv, WorkersInv
        <5>3. CASE wcall[x] = c
          BY <2>3, <2>4, <3>5, <5>1, <5>3
        <5>4. CASE wcall[x] # c
          BY <2>1, <2>4, <5>1, <5>2, <5>4 DEF Refs
        <5>5. QED
          BY <5>3, <5>4
      <4>3. QED
        BY <4>1, <4>2
    <3>6. QED
      BY <2>1, <2>5, <3>1, <3>2, <3>3, <3>4, <3>5 DEF IInv, WorkersInv, Busy
  <2>9. PendingInv'
    <3> SUFFICES ASSUME ~ctxDone, NEW d \in Calls, pend[d] # None
                 PROVE  Sound(d, pend[d])'
      BY <2>1, <2>5 DEF PendingInv
    <3>1. Sound(d, pend[d]) /\ pend[d].refs \subseteq Backends
      BY <1>0 DEF IInv, PendingInv, TypeOK, TxOK, Row
    <3>2. ASSUME NEW e \in pend[d].refs PROVE object'[d, e] = "audio"
      <4>1. CASE <<d, e>> = <<c, b>>
        BY <2>3, <2>4, <4>1
      <4>2. CASE <<d, e>> # <<c, b>>
        BY <2>4, <3>1, <4>2 DEF Sound, Refs
      <4>3. QED
        BY <4>1, <4>2
    <3>3. QED
      BY <2>5, <3>1, <3>2 DEF Sound
  <2>10. TrackerInv'
    <3>1. \A d \in Calls, e \in Backends :
             cre'[d, e] > 0 => cre[d, e] > 0 \/ (d = c /\ e = b)
      <4> SUFFICES ASSUME NEW d \in Calls, NEW e \in Backends,
                          cre'[d, e] > 0, ~(d = c /\ e = b)
                   PROVE  cre[d, e] > 0
        OBVIOUS
      <4>1. <<d, e>> # <<c, b>> /\ <<d, e>> \in Refs
        BY DEF Refs
      <4>2. cre'[<<d, e>>] = cre[<<d, e>>]
        BY <1>0, <1>8, <4>1 DEF StoreAudio, TypeOK, TrackerOK
      <4>3. QED
        BY <4>2
    <3>2. \A d \in Calls, e \in Backends :
             cre'[d, e] > 0 => e = req.dest /\ e \notin row[d].refs
      BY <2>1, <3>1 DEF IInv, TrackerInv
    <3>3. QED
      BY <2>1, <2>5, <3>2 DEF IInv, TrackerInv
  <2>11. QED
    BY <1>0, <2>6, <2>7, <2>8, <2>9, <2>10 DEF IInv
<1>9. ASSUME NEW w \in Workers, SendUpdate(w) PROVE IInv'
  <2>1. /\ Busy(w) /\ pc \in {"send", "join"}
        /\ UNCHANGED <<row, object, pc, req, batch, moveErr, egErr, wblob, del,
                       cre, left>>
    BY <1>9 DEF SendUpdate, NextTurn, Busy, stores, call, query, tracker, IInv,
                WorkersInv
  <2>2. NoDanglingRefs'
    BY <2>1 DEF IInv, NoDanglingRefs, Sound
  <2>3. ctxDone' \in BOOLEAN /\ (ctxDone => ctxDone')
    BY <1>0, <1>9 DEF SendUpdate, TxReceives, TxUpdates, TxFails, TxDrains,
                      TypeOK, ControlOK
  <2>4. CancelledInv'
    <3>1. \A x \in Workers : werr'[x] => werr[x]
      BY <1>0, <1>9 DEF SendUpdate, TypeOK, PoolOK
    <3>2. QED
      BY <2>1, <2>3, <3>1 DEF IInv, CancelledInv, Running
  <2>5. WorkersInv'
    <3>1. Movable(req)' = Movable(req)
      BY <2>1 DEF Movable
    <3>2. \A x \in Workers \ {w} : wpc'[x] = wpc[x] /\ wcall'[x] = wcall[x]
      BY <1>0, <1>9 DEF SendUpdate, NextTurn, TypeOK, PoolOK
    <3>3. wpc'[w] = "recv" \/ (wpc'[w] = "get" /\ wcall'[w] = wcall[w])
      <4>1. CASE wtry[w] < req.tries
        BY <1>0, <1>9, <4>1 DEF SendUpdate, NextTurn, TypeOK, PoolOK
      <4>2. CASE ~(wtry[w] < req.tries)
        BY <1>0, <1>9, <4>2 DEF SendUpdate, NextTurn, TypeOK, PoolOK
      <4>3. QED
        BY <4>1, <4>2
    <3>4. QED
      BY <2>1, <2>3, <3>1, <3>2, <3>3 DEF IInv, WorkersInv, Busy
  <2>6. PendingInv'
    <3>1. CASE TxUpdates(w)
      <4>1. Sound(wcall[w], NewRow(w))
        BY <1>9, <3>1, NewRowSound DEF SendUpdate, TxUpdates
      <4>2. ASSUME NEW d \in Calls, pend'[d] # None
            PROVE  Sound(d, pend'[d])
        <5>1. pend'[d] = pend[d] \/ (d = wcall[w] /\ pend'[d] = NewRow(w))
          <6>1. pend' = pend \/ pend' = [pend EXCEPT ![wcall[w]] = NewRow(w)]
            BY <3>1 DEF TxUpdates
          <6>2. QED
            BY <1>0, <6>1 DEF TypeOK, TxOK
        <5>2. ~ctxDone
          BY <3>1 DEF TxUpdates
        <5>3. QED
          BY <4>1, <4>2, <5>1, <5>2 DEF IInv, PendingInv
      <4>3. QED
        BY <2>1, <4>2 DEF PendingInv, Sound
    <3>2. CASE TxFails
      BY <2>1, <3>2 DEF TxFails, PendingInv, NoUpdates
    <3>3. CASE TxDrains
      BY <2>1, <3>3, PendingFrame DEF TxDrains
    <3>4. QED
      BY <1>9, <3>1, <3>2, <3>3 DEF SendUpdate, TxReceives
  <2>7. TrackerInv'
    BY <2>1, TrackerFrame
  <2>8. QED
    BY <1>0, <2>2, <2>4, <2>5, <2>6, <2>7 DEF IInv
<1>10. ASSUME NEW w \in Workers, WorkerExit(w) PROVE IInv'
  <2>1. pc \in {"send", "join"}
    BY <1>10 DEF WorkerExit, IInv, WorkersInv
  <2>2. NoDanglingRefs'
    BY <1>10, DanglingFrame DEF WorkerExit
  <2>3. CancelledInv'
    BY <1>10 DEF WorkerExit, IInv, CancelledInv, Running
  <2>4. WorkersInv'
    <3>1. Movable(req)' = Movable(req)
      BY <1>10 DEF WorkerExit, stores, call, query, Movable
    <3>2. \A x \in Workers : wpc'[x] = wpc[x] \/ wpc'[x] = "exit"
      BY <1>0, <1>10 DEF WorkerExit, TypeOK, PoolOK
    <3>3. QED
      BY <1>10, <2>1, <3>1, <3>2
         DEF WorkerExit, stores, call, query, IInv, WorkersInv, Busy
  <2>5. PendingInv'
    BY <1>10, <2>1, PendingFrame DEF WorkerExit, stores
  <2>6. TrackerInv'
    BY <1>10, <2>1, TrackerFrame DEF WorkerExit, stores, call, query, tracker
  <2>7. QED
    BY <1>0, <2>2, <2>3, <2>4, <2>5, <2>6 DEF IInv
<1>11. CASE TxBegin
  <2>1. NoDanglingRefs'
    BY <1>11, DanglingFrame DEF TxBegin
  <2>2. CancelledInv' /\ WorkersInv'
    BY <1>11 DEF TxBegin, stores, workers, call, query, IInv, CancelledInv,
                 WorkersInv, Busy, Running, Movable
  <2>3. PendingInv'
    BY <1>11, PendingFrame DEF TxBegin, stores
  <2>4. TrackerInv'
    BY <1>11, TrackerFrame DEF TxBegin, stores, call, query, tracker
  <2>5. QED
    BY <1>0, <2>1, <2>2, <2>3, <2>4 DEF IInv
<1>12. CASE TxEnd
  <2>1. ~ctxDone => ~moveErr
    BY <1>12 DEF TxEnd, IInv, CancelledInv, Running
  <2>2. \/ ~ctxDone /\ row' = Committed /\ Finish(FALSE)
        \/ row' = row /\ Finish(TRUE)
    <3>1. ~ctxDone => moveErr = FALSE
      BY <1>0, <2>1 DEF TypeOK, ControlOK
    <3>2. QED
      BY <1>12, <3>1, NoBackendFault DEF TxEnd
  <2>3. UNCHANGED <<object, req, ctxDone, egErr, del, cre>>
        /\ UNCHANGED workers /\ pc = "txwait"
    BY <1>12 DEF TxEnd, call, query, tracker
  <2>4. NoDanglingRefs'
    <3> SUFFICES ASSUME NEW c \in Calls PROVE Sound(c, row'[c])
      BY <2>3 DEF NoDanglingRefs, Sound
    <3>1. Sound(c, row[c])
      BY DEF IInv, NoDanglingRefs
    <3>2. CASE ~ctxDone /\ row' = Committed
      BY <3>1, <3>2 DEF Committed, IInv, PendingInv
    <3>3. QED
      BY <2>2, <3>1, <3>2
  <2>5. CancelledInv' /\ WorkersInv'
    BY <2>2, <2>3 DEF Finish, workers, IInv, CancelledInv, WorkersInv, Busy,
                      Running
  <2>6. PendingInv'
    BY <1>12 DEF TxEnd, PendingInv, NoUpdates
  <2>7. TrackerInv'
    BY <2>2, <2>3, FinishTracker
  <2>8. QED
    BY <1>0, <2>4, <2>5, <2>6, <2>7 DEF IInv
<1>13. ASSUME NEW b \in Backends, DeleteBulk(b) PROVE IInv'
  <2>1. pc = "rollback"
    BY <1>13 DEF DeleteBulk, IInv, TrackerInv
  <2>2. NoDanglingRefs'
    <3> SUFFICES ASSUME NEW c \in Calls, NEW e \in row[c].refs
                 PROVE  object'[c, e] = "audio"
      BY <1>13 DEF DeleteBulk, IInv, NoDanglingRefs, Sound
    <3>1. e \in Backends /\ object[c, e] = "audio" /\ <<c, e>> \in Refs
      BY <1>0 DEF IInv, NoDanglingRefs, Sound, TypeOK, StoresOK, Row, Refs
    <3>2. e = b => c \notin Doomed(b)
      BY <2>1, <3>1 DEF Doomed, IInv, TrackerInv
    <3>3. PICK gone \in SUBSET Doomed(b) :
             object' = [r \in Refs |-> IF r[2] = b /\ r[1] \in gone
                                         THEN "none" ELSE object[r]]
      BY <1>13 DEF DeleteBulk
    <3>4. QED
      BY <3>1, <3>2, <3>3
  <2>3. CancelledInv' /\ WorkersInv'
    BY <1>13, <2>1 DEF DeleteBulk, workers, call, query, IInv, CancelledInv,
                       WorkersInv, Busy, Running
  <2>4. PendingInv'
    BY <1>13, <2>1 DEF DeleteBulk, IInv, PendingInv, NoUpdates
  <2>5. TrackerInv'
    BY <1>13, <2>1 DEF DeleteBulk, call, query, tracker, IInv, TrackerInv
  <2>6. QED
    BY <1>0, <2>2, <2>3, <2>4, <2>5 DEF IInv
<1>14. CASE Unlock \/ Crash
  BY <1>0, <1>14, QuietInv DEF Unlock, Crash
<1>15. CASE Cancel
  <2>1. NoDanglingRefs'
    BY <1>15, DanglingFrame DEF Cancel
  <2>2. CancelledInv' /\ WorkersInv'
    BY <1>15 DEF Cancel, stores, workers, call, query, IInv, CancelledInv,
                 WorkersInv, Busy, Running, Movable
  <2>3. PendingInv'
    BY <1>15 DEF Cancel, IInv, PendingInv
  <2>4. TrackerInv'
    BY <1>15 DEF Cancel, stores, call, query, tracker, IInv, TrackerInv
  <2>5. QED
    BY <1>0, <2>1, <2>2, <2>3, <2>4 DEF IInv
<1>16. CASE NextBatch
  <2>1. NoDanglingRefs'
    BY <1>16, DanglingFrame DEF NextBatch
  <2>2. CancelledInv'
    BY <1>16 DEF NextBatch, workers, IInv, CancelledInv, Running
  <2>3. WorkersInv'
    <3>1. Movable(req)' = Movable(req)
      BY <1>16 DEF NextBatch, stores, call, Movable
    <3>2. batch' \subseteq Movable(req)
      BY <1>16 DEF NextBatch, FirstRows, Matching
    <3>3. QED
      BY <1>16, <3>1, <3>2
         DEF NextBatch, stores, workers, call, IInv, WorkersInv, Busy
  <2>4. PendingInv'
    BY <1>16, PendingFrame DEF NextBatch, stores
  <2>5. TrackerInv'
    BY <1>16, TrackerFrame DEF NextBatch, stores, call, tracker
  <2>6. QED
    BY <1>0, <2>1, <2>2, <2>3, <2>4, <2>5 DEF IInv
<1>17. ASSUME NEW c \in Calls, Retag(c) PROVE IInv'
  <2>1. UNCHANGED <<row, object, req, pc, ctxDone, pend, del, cre, left>>
        /\ UNCHANGED <<batch, workers, egErr, moveErr>>
    BY <1>17 DEF Retag, call, query, tracker
  <2>2. NoDanglingRefs'
    BY <2>1 DEF IInv, NoDanglingRefs, Sound
  <2>3. CancelledInv' /\ WorkersInv'
    BY <2>1 DEF workers, IInv, CancelledInv, WorkersInv, Busy, Running, Movable
  <2>4. PendingInv' /\ TrackerInv'
    BY <2>1 DEF IInv, PendingInv, TrackerInv, Sound, NoUpdates
  <2>5. QED
    BY <1>0, <2>2, <2>3, <2>4 DEF IInv
<1>18. CASE UNCHANGED vars
  <2>1. NoDanglingRefs'
    BY <1>18, DanglingFrame DEF vars, stores
  <2>2. CancelledInv' /\ WorkersInv'
    BY <1>18 DEF vars, IInv, CancelledInv, WorkersInv, Busy, Running, Movable
  <2>3. PendingInv' /\ TrackerInv'
    BY <1>18 DEF vars, IInv, PendingInv, TrackerInv, Sound, NoUpdates
  <2>4. QED
    BY <1>0, <2>1, <2>2, <2>3 DEF IInv
<1>19. QED
  BY <1>1, <1>2, <1>3, <1>4, <1>5, <1>6, <1>7, <1>8, <1>9, <1>10, <1>11,
     <1>12, <1>13, <1>14, <1>15, <1>16, <1>17, <1>18
     DEF Next, MoveStep, WorkerStep

\* As long as the backends and the query answer and a COMMIT is not left in
\* doubt, no committed row names a missing object: not while a move runs, is
\* cancelled, loses its transaction or cleans up, and not after a restart,
\* for any number of calls, backends, workers and tries.
THEOREM NoDangling == ASSUME TxFaultsOnly PROVE Spec => []NoDanglingRefs
<1>1. Init => IInv
  BY IInvInit
<1>2. IInv /\ [Next]_vars => IInv'
  BY IInvNext
<1>3. IInv => NoDanglingRefs
  BY DEF IInv
<1>4. QED
  BY <1>1, <1>2, <1>3, PTL DEF Spec

-----------------------------------------------------------------------------
(* A move is one step, or none.                                            *)

InTx == pc \in {"send", "join", "txwait"}

\* The transaction can still commit.
Alive == InTx /\ ~ctxDone /\ txpc # "drain"

\* The transaction has rows that could be moved, each carried as it should
\* be, and nothing runs for a dry move.
CarryInv ==
    /\ InTx => ~req.dry
    /\ \A c \in Calls :
         pend[c] # None => /\ c \in Movable(req) \ SweptCalls
                           /\ ~ctxDone => Contract!Carried(req, row[c], pend[c])

\* A worker that is busy was so with the same call.
LEMMA PoolKeeps ==
    ASSUME TypeOK, NEW w \in Workers, WorkerStep(w)
    PROVE  /\ Busy(w)
              => \A x \in Workers : Busy(x)' => Busy(x) /\ wcall'[x] = wcall[x]
           /\ \A x \in Workers \ {w} : wpc'[x] = wpc[x] /\ wcall'[x] = wcall[x]
           /\ ~Busy(w) => ~Busy(w)'
<1>1. \A x \in Workers \ {w} : wpc'[x] = wpc[x] /\ wcall'[x] = wcall[x]
  BY DEF WorkerStep, GetAudio, HaveAudio, StoreAudio, SendUpdate, WorkerExit, WorkerFails,
         DeadlineExceeded, NextTurn, TypeOK, PoolOK
<1>2. Busy(w)' => Busy(w) /\ wcall'[w] = wcall[w]
  <2>1. CASE NextTurn(w) /\ Busy(w)
    <3>1. CASE wtry[w] < req.tries
      BY <2>1, <3>1 DEF NextTurn
    <3>2. CASE ~(wtry[w] < req.tries)
      BY <2>1, <3>2 DEF NextTurn, Busy, TypeOK, PoolOK
    <3>. QED  BY <3>1, <3>2
  <2>2. CASE WorkerFails(w) \/ WorkerExit(w)
    BY <2>2 DEF WorkerFails, WorkerExit, Busy, TypeOK, PoolOK
  <2>3. CASE Busy(w) /\ wcall' = wcall
    BY <2>3
  <2>. QED
    BY <2>1, <2>2, <2>3 DEF WorkerStep, GetAudio, HaveAudio, StoreAudio, SendUpdate, Busy,
       DeadlineExceeded
<1>. QED  BY <1>1, <1>2 DEF Busy

LEMMA CarryOver ==
    ASSUME IInv', ~InTx'
    PROVE  CarryInv'
BY DEF IInv, PendingInv, NoUpdates, CarryInv, InTx

LEMMA CarryFrame ==
    ASSUME CarryInv, TypeOK', UNCHANGED <<row, req, pend>>, InTx' => InTx, ctxDone => ctxDone'
    PROVE  CarryInv'
<1>1. Movable(req)' = Movable(req)
  BY DEF Movable
<1>. QED  BY <1>1 DEF CarryInv, TypeOK, ControlOK

\* The row of an update that a worker sends is carried.
LEMMA NewRowCarried ==
    ASSUME IInv, NEW w \in Workers, wpc[w] = "send", ~ctxDone
    PROVE  Contract!Carried(req, row[wcall[w]], NewRow(w))
<1> DEFINE c == wcall[w]
<1>1. Busy(w) /\ c \in Calls /\ c \in Movable(req) /\ wblob[w] = "audio"
  BY SelectedRow DEF Busy, IInv, WorkersInv
<1>2. row[c].blob \in Audio /\ row[c].blob # "bad" /\ row[c].refs \in SUBSET Backends
  BY <1>1 DEF IInv, TypeOK, StoresOK, Row, NoDanglingRefs, Sound
<1>3. FromBlob(c) => row[c].blob = "audio"
  BY <1>2 DEF FromBlob, Audio
<1>4. CASE req.dest = DB
  <2>1. NewRow(w).refs = {} /\ NewRow(w).blob = "audio"
    BY <1>1, <1>4 DEF NewRow, AudioRefOut
  <2>. QED  BY <1>4, <2>1 DEF Contract!Carried
<1>5. CASE req.dest # DB
  <2>1. /\ NewRow(w).refs = {req.dest}
        /\ NewRow(w).blob = IF req.copy /\ FromBlob(c) THEN "audio" ELSE "none"
    BY <1>1, <1>5 DEF NewRow, AudioRefOut
  <2>. QED  BY <1>3, <1>5, <2>1 DEF Contract!Carried
<1>. QED  BY <1>4, <1>5

\* An update adds at most the row of the call it is for.
LEMMA CarrySendUpdate ==
    ASSUME IInv, IInv', CarryInv, NEW w \in Workers, SendUpdate(w)
    PROVE  CarryInv'
<1>1. /\ Busy(w) /\ wpc[w] = "send" /\ pc \in {"send", "join"}
      /\ UNCHANGED <<row, pc, req>> /\ TypeOK /\ TypeOK'
      /\ wcall[w] \in Calls /\ wcall[w] \in Movable(req)
  <2>1. TypeOK /\ TypeOK' /\ WorkersInv
    BY DEF IInv
  <2>2. wpc[w] = "send" /\ UNCHANGED <<row, pc, req>>
    BY DEF SendUpdate, stores, call
  <2>3. Busy(w) /\ pc \in {"send", "join"}
    BY <2>1, <2>2 DEF Busy, WorkersInv
  <2>. QED  BY <2>1, <2>2, <2>3, SelectedRow DEF WorkersInv
<1>2. CASE TxUpdates(w)
  <2>1. Movable(req)' = Movable(req)
    BY <1>1 DEF Movable
  <2>2. \A c \in Calls : pend'[c] = IF c = wcall[w] /\ c \notin SweptCalls THEN NewRow(w) ELSE pend[c]
    BY <1>1, <1>2 DEF TxUpdates, TypeOK, TxOK
  <2>3. ~ctxDone /\ Contract!Carried(req, row[wcall[w]], NewRow(w))
    BY <1>1, <1>2, NewRowCarried DEF TxUpdates
  <2>. QED  BY <1>1, <2>1, <2>2, <2>3 DEF CarryInv, InTx
<1>3. CASE TxFails
  BY <1>1, <1>3 DEF TxFails, CarryInv, InTx, NoUpdates
<1>4. CASE TxDrains
  BY <1>1, <1>4, CarryFrame DEF TxDrains, InTx
<1>. QED  BY <1>2, <1>3, <1>4 DEF SendUpdate, TxReceives

LEMMA CarryNext ==
    ASSUME IInv, IInv', CarryInv, [Next]_vars
    PROVE  CarryInv'
<1>0. TypeOK /\ TypeOK'
  BY DEF IInv
<1>1. CASE \E r \in Requests : Begin(r) \/ Refuse(r)
  BY <1>1, CarryOver DEF Begin, Refuse, InTx
<1>2. CASE NothingToDo \/ TxEnd \/ Unlock \/ Crash \/ \E b \in Backends : DeleteBulk(b)
  BY <1>2, CarryOver DEF NothingToDo, TxEnd, Finish, Unlock, Crash, Quiet, DeleteBulk, InTx
<1>3. CASE StartPool
  <2>1. ~req.dry /\ UNCHANGED <<row, req, pend>> /\ pend = NoUpdates
    BY <1>3 DEF StartPool, stores, call, IInv, PendingInv
  <2>. QED  BY <2>1 DEF CarryInv, NoUpdates
<1>4. ASSUME NEW w \in Workers, SendRow(w) \/ GetAudio(w) \/ StoreAudio(w) \/ WorkerExit(w)
      PROVE  CarryInv'
  BY <1>0, <1>4, CarryFrame
     DEF SendRow, GetAudio, StoreAudio, WorkerExit, stores, call, InTx
<1>5. CASE NextBatch \/ CloseWork \/ Join \/ TxBegin \/ Cancel \/ \E c \in Calls : Retag(c)
  BY <1>0, <1>5, CarryFrame
     DEF NextBatch, CloseWork, Join, TxBegin, Cancel, Retag, stores, call, InTx
<1>6. CASE UNCHANGED vars
  BY <1>0, <1>6, CarryFrame DEF vars, InTx
<1>. QED
  BY <1>1, <1>2, <1>3, <1>4, <1>5, <1>6, CarrySendUpdate DEF Next, MoveStep, WorkerStep

LEMMA CarryInit == Init => CarryInv
BY DEF Init, CarryInv, InTx, NoUpdates

\* What a reader of the table calls sees does not change.
LEMMA ContractStutters ==
    ASSUME UNCHANGED <<row, req, res>>, Running' <=> Running
    PROVE  UNCHANGED Contract!vars
BY DEF Running, Contract!vars

\* For this table the two ideas of what can be moved agree.
LEMMA ContractMovable ==
    ASSUME SweptCalls \subseteq Calls, NEW r \in Requests
    PROVE  Contract!Movable(r) = Movable(r) \ SweptCalls
<1>1. r.swept \in {"both", "only", "no"}
  BY AudioMoveAssumption DEF RequestType
<1>. QED  BY <1>1 DEF Contract!Movable, Movable

\* A move that is under way ends with no row changed.
LEMMA ContractFails ==
    ASSUME TypeOK, Running, Finish(TRUE), row' = row
    PROVE  Contract!Fail
<1>1. req # None
  BY AudioMoveAssumption DEF Running, TypeOK, ControlOK
<1>. QED  BY <1>1 DEF Running, Finish, Contract!Fail

\* It commits what it has of the table, all at once: rows carried as asked.
LEMMA ContractCommits ==
    ASSUME IInv, CarryInv, pc = "txwait", txpc = "recv", ~ctxDone,
           row' = Committed, Finish(moveErr)
    PROVE  Contract!Succeed
<1>1. TypeOK /\ req \in Requests /\ req # None /\ ~req.dry /\ moveErr = FALSE
  BY AudioMoveAssumption
     DEF IInv, TypeOK, ControlOK, CancelledInv, Running, CarryInv, InTx
<1>2. Contract!Movable(req) = Movable(req) \ SweptCalls
  BY <1>1, ContractMovable, AudioMoveAssumption
<1>3. ASSUME NEW c \in Calls \ SweptCalls, row'[c] # row[c]
      PROVE  c \in Movable(req) \ SweptCalls /\ Contract!Carried(req, row[c], row'[c])
  <2>1. pend[c] # None /\ row'[c] = pend[c]
    BY <1>3 DEF Committed
  <2>. QED  BY <2>1 DEF CarryInv
<1>4. pc' = "commit" /\ res' = "ok"
  BY <1>1 DEF Finish
<1>. QED  BY <1>1, <1>2, <1>3, <1>4 DEF Contract!Succeed

\* Every step of the move is a step of its contract, or none.
LEMMA ContractNext ==
    ASSUME TxFaultsOnly, IInv, CarryInv, [Next]_vars
    PROVE  [Contract!Next]_(Contract!vars)
<1>0. TypeOK
  BY DEF IInv
<1>1. ASSUME NEW r \in Requests, Begin(r) PROVE Contract!Accept
  BY <1>1 DEF Begin, stores, Contract!Accept
<1>2. ASSUME NEW r \in Requests, Refuse(r) PROVE Contract!Refuse
  BY <1>2 DEF Refuse, stores, Contract!Refuse
<1>3. CASE NothingToDo
  <2>1. pc = "count" /\ row' = row
    BY <1>3 DEF NothingToDo, stores
  <2>2. CASE Finish(TRUE)
    BY <1>0, <2>1, <2>2, ContractFails DEF Running, Contract!Next
  <2>3. CASE (Selected(req) = {} \/ req.dry) /\ Finish(FALSE)
    <3>1. req # None
      BY <1>0, <2>1, AudioMoveAssumption DEF TypeOK, ControlOK
    <3>2. pc' = "commit" /\ res' = "ok"
      BY <2>3 DEF Finish
    <3>. QED  BY <2>1, <3>1, <3>2 DEF Contract!Succeed, Contract!Next
  <2>. QED  BY <1>3, <2>2, <2>3 DEF NothingToDo
<1>4. CASE TxEnd
  <2>1. CASE txpc = "recv" /\ ~ctxDone /\ row' = Committed /\ Finish(moveErr)
    BY <1>4, <2>1, ContractCommits DEF TxEnd, Contract!Next
  <2>2. CASE row' = row /\ Finish(TRUE)
    BY <1>0, <1>4, <2>2, ContractFails DEF TxEnd, Running, Contract!Next
  <2>3. ~Fault("ack")
    BY DEF TxFaultsOnly, Fault
  <2>. QED  BY <1>4, <2>1, <2>2, <2>3 DEF TxEnd
<1>5. CASE Crash
  BY <1>5 DEF Crash, Quiet, stores, Contract!Restart, Contract!Next
<1>6. CASE StartPool \/ NextBatch \/ CloseWork \/ Join \/ TxBegin \/ Cancel
           \/ \E c \in Calls : Retag(c)
  BY <1>6, ContractStutters
     DEF StartPool, NextBatch, CloseWork, Join, TxBegin, Cancel, Retag, stores, call, Running
<1>7. CASE Unlock \/ \E b \in Backends : DeleteBulk(b)
  BY <1>7, ContractStutters DEF Unlock, Quiet, DeleteBulk, stores, call, Running
<1>8. ASSUME NEW w \in Workers, SendRow(w) \/ WorkerStep(w)
      PROVE  UNCHANGED Contract!vars
  BY <1>8, ContractStutters
     DEF SendRow, WorkerStep, GetAudio, StoreAudio, SendUpdate, WorkerExit, stores, call, Running
<1>9. CASE UNCHANGED vars
  BY <1>9, ContractStutters DEF vars, Running
<1>. QED
  BY <1>1, <1>2, <1>3, <1>4, <1>5, <1>6, <1>7, <1>8, <1>9 DEF Next, MoveStep, Contract!Next

LEMMA ContractInit == Init => Contract!Init
BY DEF Init, Contract!Init

\* MoveCallAudio, its batches, workers, transaction, cleanup and restarts
\* included, is one step to whoever reads the table calls: all it commits of
\* it becomes visible at once, rows that could be moved and carried as asked,
\* whatever row was taken twice and whatever the queries of the loop missed.
THEOREM MovesAreAtomic ==
    ASSUME TxFaultsOnly
    PROVE  Spec => MoveIsAtomic
<1>1. Init => IInv /\ CarryInv /\ Contract!Init
  BY IInvInit, CarryInit, ContractInit
<1>2. IInv /\ CarryInv /\ [Next]_vars
        => IInv' /\ CarryInv' /\ [Contract!Next]_(Contract!vars)
  BY IInvNext, CarryNext, ContractNext
<1>. QED  BY <1>1, <1>2, PTL DEF Spec, MoveIsAtomic, Contract!Spec

-----------------------------------------------------------------------------
(* The queries of the loop, while nobody changes the tags.                 *)

\* Users leave the talkgroups' tags alone.
SteadyTags == "retag" \notin Faults

\* One query returns all that was counted.
Fits == Cardinality(Selected(req)) <= BatchSize

\* The first query has not been sent.
Fresh == /\ batch = {} /\ start = req.start /\ count = Cardinality(Selected(req))
         /\ cre = NoRefs /\ \A w \in Workers : wpc[w] = "recv"

\* A query returns rows of the selection and finds one, and only one query is
\* sent for a selection that fits a batch.
QueryInv ==
    /\ pc = "send" =>
         /\ batch \subseteq Selected(req)
         /\ batch = {} => /\ req.start <= start
                          /\ \E e \in Selected(req) : start <= DateOf[e]
    /\ pc \in {"join", "txwait"} /\ ~ctxDone => count <= 0
    /\ Fits => /\ pc = "send" => Fresh \/ count = Cardinality(batch)
               /\ pc \in {"join", "txwait"} /\ ~ctxDone => count = 0

LEMMA SomeCalls ==
    ASSUME NEW S \in SUBSET Calls
    PROVE  IsFiniteSet(S) /\ Cardinality(S) \in Nat
BY FS_Subset, FS_CardinalityType, AudioMoveAssumption

LEMMA SomeSelected ==
    /\ Selected(req) \in SUBSET Calls
    /\ IsFiniteSet(Selected(req)) /\ Cardinality(Selected(req)) \in Nat
<1>1. Selected(req) \in SUBSET Calls
  BY DEF Selected, Matching, Movable
<1>. QED  BY <1>1, SomeCalls

\* What a query with a limit returns.
LEMMA FirstRowsOf ==
    ASSUME NEW S \in SUBSET Calls, NEW F \in FirstRows(S)
    PROVE  /\ F \subseteq S
           /\ S # {} => F # {}
           /\ Cardinality(S) <= BatchSize => F = S
           /\ \A c \in F, d \in S \ F : DateOf[c] <= DateOf[d]
<1>1. /\ F \in SUBSET S /\ (F = S \/ Cardinality(F) = BatchSize)
      /\ Cardinality(F) <= BatchSize
      /\ \A c \in F, d \in S \ F : DateOf[c] <= DateOf[d]
  BY DEF FirstRows
<1>2. IsFiniteSet(S) /\ Cardinality(S) \in Nat /\ BatchSize \in Nat \ {0}
  BY SomeCalls, AudioMoveAssumption
<1>3. Cardinality(F) <= Cardinality(S) /\ (Cardinality(S) = Cardinality(F) => S = F)
      /\ Cardinality(F) \in Nat
  BY <1>1, <1>2, FS_Subset, FS_CardinalityType
<1>4. S # {} => F # {}
  BY <1>1, <1>2, FS_EmptySet
<1>5. Cardinality(S) <= BatchSize => F = S
  BY <1>1, <1>2, <1>3
<1>. QED  BY <1>1, <1>4, <1>5

LEMMA SelectedFrame ==
    ASSUME UNCHANGED <<row, tagged, req>>
    PROVE  Selected(req)' = Selected(req) /\ (Fits' <=> Fits)
<1>1. Selected(req)' = Selected(req)
  BY DEF Selected, Matching, Movable
<1>. QED  BY <1>1 DEF Fits

LEMMA QueryInit == Init => QueryInv
BY DEF Init, QueryInv

\* Steps that send no query and take no row.
LEMMA QueryFrame ==
    ASSUME QueryInv, TypeOK', UNCHANGED <<row, tagged, req, pc, query>>,
           pc = "send" /\ Fresh => UNCHANGED cre /\ \A w \in Workers : wpc'[w] = wpc[w],
           ctxDone => ctxDone'
    PROVE  QueryInv'
<1>1. Selected(req)' = Selected(req) /\ (Fits' <=> Fits)
  BY SelectedFrame
<1>2. pc = "send" /\ Fresh => Fresh'
  BY <1>1 DEF Fresh, query
<1>. QED  BY <1>1, <1>2 DEF QueryInv, query, TypeOK, ControlOK

\* Where no pool is there is nothing to say.
LEMMA QueryOver ==
    ASSUME pc' \notin {"send", "join", "txwait"}
    PROVE  QueryInv'
BY DEF QueryInv

\* A query asks from the last row on, so for no row that was not counted.
LEMMA QueryBatch ==
    ASSUME TypeOK, QueryInv, NextBatch
    PROVE  /\ QueryInv'
           /\ batch' \in FirstRows(Matching(req, start))
           /\ Matching(req, start) \subseteq Selected(req)
           /\ Fits => Fresh /\ batch' = Selected(req)
<1> DEFINE M == Matching(req, start)
<1>1. /\ pc = "send" /\ batch = {} /\ count > 0 /\ batch' \in FirstRows(M)
      /\ UNCHANGED <<row, tagged, pc, req, count>>
  BY DEF NextBatch, stores, call
<1>2. /\ req \in Requests /\ req.start \in Nat /\ start \in Nat
      /\ DateOf \in [Calls -> Nat \ {0}]
  BY <1>1, Bounds, AudioMoveAssumption DEF TypeOK, ControlOK
<1>3. req.start <= start /\ M # {} /\ M \in SUBSET Calls /\ M \subseteq Selected(req)
  <2>1. PICK e \in Selected(req) : start <= DateOf[e]
    BY <1>1 DEF QueryInv
  <2>2. req.start <= start
    BY <1>1 DEF QueryInv
  <2>3. e \in M
    BY <2>1 DEF Selected, Matching
  <2>4. ASSUME NEW c \in M PROVE c \in Selected(req)
    <3>1. c \in Movable(req) \cap tagged /\ c \in Calls /\ start <= DateOf[c]
      BY DEF Matching, Movable
    <3>2. req.start <= DateOf[c]
      BY <1>2, <2>2, <3>1
    <3>. QED  BY <3>1, <3>2 DEF Selected, Matching
  <2>. QED  BY <2>2, <2>3, <2>4 DEF Matching, Movable
<1>4. batch' # {} /\ batch' \subseteq Selected(req)
  BY <1>1, <1>3, FirstRowsOf
<1>5. Fits => Fresh /\ batch' = Selected(req)
  <2> SUFFICES ASSUME Fits PROVE Fresh /\ batch' = Selected(req)
    OBVIOUS
  <2>1. Fresh
    BY <1>1, FS_EmptySet DEF QueryInv
  <2>2. M = Selected(req)
    BY <2>1 DEF Fresh, Selected
  <2>. QED  BY <1>1, <1>3, <2>1, <2>2, FirstRowsOf DEF Fits
<1>6. Selected(req)' = Selected(req) /\ (Fits' <=> Fits)
  BY <1>1, SelectedFrame
<1>7. Fits => count' = Cardinality(batch')
  BY <1>1, <1>5 DEF Fresh
<1>8. QueryInv'
  BY <1>1, <1>4, <1>6, <1>7 DEF QueryInv
<1>. QED  BY <1>1, <1>3, <1>5, <1>8

\* Worker w takes a row from the producer.
LEMMA HandsTake ==
    ASSUME TypeOK, NEW w \in Workers, SendRow(w)
    PROVE  \E c \in batch :
             /\ \A d \in batch : DateOf[c] <= DateOf[d]
             /\ batch' = batch \ {c} /\ count' = count - 1 /\ start' = DateOf[c]
             /\ wcall'[w] = c /\ ~Busy(w) /\ wpc'[w] = "get" /\ wtry'[w] = 0
             /\ \A x \in Workers \ {w} : /\ wpc'[x] = wpc[x] /\ wcall'[x] = wcall[x]
                                         /\ wtry'[x] = wtry[x]
BY DEF SendRow, TypeOK, PoolOK, Busy

LEMMA QueryTake ==
    ASSUME TypeOK, QueryInv, NEW w \in Workers, SendRow(w)
    PROVE  QueryInv'
<1>1. PICK c \in batch : batch' = batch \ {c} /\ count' = count - 1 /\ start' = DateOf[c]
  BY HandsTake
<1>2. pc = "send" /\ UNCHANGED <<row, tagged, pc, req>>
  BY DEF SendRow, stores, call
<1>3. Selected(req)' = Selected(req) /\ (Fits' <=> Fits) /\ c \in Selected(req)
  BY <1>2, SelectedFrame DEF QueryInv
<1>4. c \in Calls /\ DateOf[c] \in Nat /\ req.start <= DateOf[c]
  BY <1>3, AudioMoveAssumption DEF Selected, Matching, Movable
<1>5. Fits => count' = Cardinality(batch')
  <2>1. IsFiniteSet(batch) /\ Cardinality(batch) \in Nat
    BY SomeCalls DEF TypeOK, ControlOK
  <2>2. Fits => count = Cardinality(batch)
    BY <1>1, <1>2 DEF QueryInv, Fresh
  <2>. QED  BY <1>1, <2>1, <2>2, FS_RemoveElement
<1>6. batch' \subseteq Selected(req) /\ req.start <= start' /\ start' <= DateOf[c]
  BY <1>1, <1>2, <1>4 DEF QueryInv
<1>. QED  BY <1>2, <1>3, <1>5, <1>6 DEF QueryInv

LEMMA QueryNext ==
    ASSUME TxFaultsOnly, SteadyTags, IInv, IInv', QueryInv, [Next]_vars
    PROVE  QueryInv'
<1>0. TypeOK /\ TypeOK'
  BY DEF IInv
<1>1. CASE (\E r \in Requests : Begin(r) \/ Refuse(r)) \/ NothingToDo \/ TxEnd \/ Unlock \/ Crash
           \/ \E b \in Backends : DeleteBulk(b)
  <2>1. pc' \notin {"send", "join", "txwait"}
    BY <1>1 DEF Begin, Refuse, NothingToDo, TxEnd, Finish, Unlock, Crash, Quiet, DeleteBulk
  <2>. QED  BY <2>1, QueryOver
<1>2. CASE StartPool
  <2>1. /\ pc' = "send" /\ batch' = {} /\ count' = Cardinality(Selected(req))
        /\ start' = req.start /\ Selected(req) # {} /\ \A w \in Workers : wpc'[w] = "recv"
        /\ UNCHANGED <<row, tagged, req, cre>> /\ cre = NoRefs
    BY <1>2 DEF StartPool, stores, call, tracker, IInv, TrackerInv
  <2>2. Selected(req)' = Selected(req)
    BY <2>1, SelectedFrame
  <2>3. req.start <= start' /\ \A e \in Selected(req) : start' <= DateOf[e]
    <3>1. req.start \in Nat
      BY <1>0, <1>2, Bounds DEF StartPool, TypeOK, ControlOK
    <3>. QED  BY <2>1, <3>1 DEF Selected, Matching
  <2>4. Fresh'
    BY <2>1, <2>2 DEF Fresh
  <2>. QED  BY <2>1, <2>2, <2>3, <2>4 DEF QueryInv
<1>3. CASE NextBatch
  BY <1>0, <1>3, QueryBatch
<1>4. ASSUME NEW w \in Workers, SendRow(w) PROVE QueryInv'
  BY <1>0, <1>4, QueryTake
<1>5. CASE CloseWork
  <2>1. /\ pc = "send" /\ pc' = "join" /\ UNCHANGED <<row, tagged, req, count, ctxDone>>
        /\ ~ctxDone => batch = {} /\ count <= 0
    BY <1>0, <1>5, NoBackendFault
       DEF CloseWork, stores, call, wctxDone, IInv, CancelledInv
  <2>2. Selected(req)' = Selected(req) /\ (Fits' <=> Fits)
    BY <2>1, SelectedFrame
  <2>3. Fits /\ ~ctxDone => count = 0
    <3>1. ~ctxDone => count # Cardinality(Selected(req))
      BY <2>1, SomeSelected, FS_EmptySet DEF QueryInv
    <3>. QED  BY <2>1, <3>1, FS_EmptySet DEF QueryInv, Fresh
  <2>. QED  BY <2>1, <2>2, <2>3 DEF QueryInv
<1>6. CASE Join
  <2>1. /\ pc = "join" /\ pc' = "txwait"
        /\ UNCHANGED <<row, tagged, req, count, ctxDone>>
    BY <1>6 DEF Join, stores, call, query
  <2>2. Selected(req)' = Selected(req) /\ (Fits' <=> Fits)
    BY <2>1, SelectedFrame
  <2>. QED  BY <2>1, <2>2 DEF QueryInv
<1>7. CASE TxBegin \/ Cancel \/ UNCHANGED vars
  <2>1. UNCHANGED <<row, tagged, req, pc, query, wpc, cre>>
    BY <1>7 DEF TxBegin, Cancel, vars, stores, call, query, workers, tracker
  <2>2. ctxDone => ctxDone'
    BY <1>7 DEF TxBegin, Cancel, vars
  <2>. QED  BY <1>0, <2>1, <2>2, QueryFrame
<1>8. ASSUME NEW w \in Workers, WorkerStep(w) PROVE QueryInv'
  <2>1. UNCHANGED <<row, tagged, req, pc, query>>
    BY <1>8 DEF WorkerStep, GetAudio, StoreAudio, SendUpdate, WorkerExit, stores, call
  <2>2. ctxDone => ctxDone'
    BY <1>0, <1>8 DEF WorkerStep, GetAudio, StoreAudio, SendUpdate, WorkerExit, TxReceives,
           TxUpdates, TxFails, TxDrains
  <2>3. ~(pc = "send" /\ Fresh)
    BY <1>8 DEF WorkerStep, GetAudio, StoreAudio, SendUpdate, WorkerExit, Fresh
  <2>. QED  BY <1>0, <2>1, <2>2, <2>3, QueryFrame
<1>9. ~\E c \in Calls : Retag(c)
  BY DEF SteadyTags, Retag, Fault
<1>. QED
  BY <1>1, <1>2, <1>3, <1>4, <1>5, <1>6, <1>7, <1>8, <1>9 DEF Next, MoveStep

-----------------------------------------------------------------------------
(* What a reported success means.                                          *)

\* No row is one of swept_calls, which SetCallAudio does not update.
NoneSwept == SweptCalls = {} \/ \A r \in Requests : r.swept = "no"

\* A move that runs has changed no row yet.
FoundInv ==
    /\ Running => before.row = row /\ res = "none"
    /\ pc = "count" => completed = 0
    /\ pc # "send" => batch = {}

LEMMA FoundInit == Init => FoundInv
BY DEF Init, FoundInv, Running

LEMMA FoundNext ==
    ASSUME IInv, FoundInv, [Next]_vars
    PROVE  FoundInv'
<1>1. CASE (\E r \in Requests : Begin(r) \/ Refuse(r)) \/ Crash
  BY <1>1 DEF Begin, Refuse, Crash, Quiet, stores, query, FoundInv, Running
<1>2. CASE NothingToDo \/ TxEnd \/ Unlock \/ \E b \in Backends : DeleteBulk(b)
  BY <1>2 DEF NothingToDo, TxEnd, Finish, Unlock, Quiet, DeleteBulk, query, FoundInv, Running
<1>3. CASE StartPool \/ NextBatch \/ CloseWork \/ Join \/ TxBegin \/ Cancel
           \/ \E c \in Calls : Retag(c)
  BY <1>3 DEF StartPool, NextBatch, CloseWork, Join, TxBegin, Cancel, Retag,
         stores, call, query, FoundInv, Running
<1>4. ASSUME NEW w \in Workers, SendRow(w) PROVE FoundInv'
  BY <1>4 DEF SendRow, stores, call, FoundInv, Running
<1>5. ASSUME NEW w \in Workers, GetAudio(w) \/ StoreAudio(w) \/ WorkerExit(w)
      PROVE  FoundInv'
  BY <1>5 DEF GetAudio, StoreAudio, WorkerExit, stores, call, query, FoundInv, Running
<1>6. ASSUME NEW w \in Workers, SendUpdate(w) PROVE FoundInv'
  <2>1. pc # "count"
    BY <1>6 DEF SendUpdate, IInv, WorkersInv
  <2>. QED  BY <1>6, <2>1 DEF SendUpdate, stores, call, query, FoundInv, Running
<1>7. CASE UNCHANGED vars
  BY <1>7 DEF vars, FoundInv, Running
<1>. QED  BY <1>1, <1>2, <1>3, <1>4, <1>5, <1>6, <1>7 DEF Next, MoveStep, WorkerStep

\* While a move runs what it was asked for is what it selects.
LEMMA AskedSelected ==
    ASSUME TypeOK, FoundInv, Running
    PROVE  Asked = Selected(req)
<1>1. before.row = row /\ req \in Requests /\ req.start \in Nat /\ tagged \subseteq Calls
  BY Bounds DEF FoundInv, Running, TypeOK, ControlOK, StoresOK
<1>. QED  BY <1>1 DEF Asked, Selected, Matching, Movable

LEMMA AskedFrame ==
    ASSUME UNCHANGED <<before, req, tagged>>
    PROVE  Asked' = Asked /\ (InOneBatch' <=> InOneBatch)
<1>1. Asked' = Asked
  BY DEF Asked
<1>. QED  BY <1>1 DEF InOneBatch

\* A worker or the transaction has the call.
Taken(c) == pend[c] # None \/ \E w \in Workers : Busy(w) /\ wcall[w] = c

\* While the transaction can commit: the rows taken are selected and no later
\* than those in the batch and those that neither have, which are no earlier
\* than the next query begins; and one batch, once it is there, has them all.
OrderInv ==
    Alive =>
      /\ \A c \in Calls : Taken(c) => c \in Selected(req)
      /\ \A c \in Calls, d \in Selected(req) :
            Taken(c) /\ ~Taken(d) => DateOf[c] <= DateOf[d]
      /\ \A c \in batch, d \in Selected(req) \ batch : ~Taken(d) => DateOf[c] <= DateOf[d]
      /\ pc = "send" /\ batch = {} =>
            \A d \in Selected(req) : ~Taken(d) => start <= DateOf[d]
      /\ Fits => \/ pc = "send" /\ Fresh
                 \/ \A d \in Selected(req) : Taken(d) \/ d \in batch

LEMMA OrderInit == Init => OrderInv
BY DEF Init, OrderInv, Alive, InTx

\* Until it has sent the update, a worker goes on with its call or the move
\* is cancelled.
LEMMA StillBusy ==
    ASSUME TxFaultsOnly, IInv, IInv', NEW w \in Workers, GetAudio(w) \/ StoreAudio(w)
    PROVE  ctxDone' \/ (Busy(w)' /\ UNCHANGED <<wcall, wtry>>)
<1>1. TypeOK
  BY DEF IInv
<1>2. CASE WorkerFails(w)
  BY <1>2 DEF WorkerFails, IInv, CancelledInv
<1>3. CASE UNCHANGED <<wcall, wtry>>
           /\ wpc' \in {[wpc EXCEPT ![w] = "send"], [wpc EXCEPT ![w] = "store"]}
  BY <1>1, <1>3 DEF Busy, TypeOK, PoolOK
<1>4. \A b : ~TimesOut(b)
  BY NoBackendFault DEF TimesOut
<1>5. CASE GetAudio(w)
  <2>1. \/ \E v \in Audio : HaveAudio(w, v)
        \/ \E v \in Fetched(wcall[w]) : HaveAudio(w, v)
        \/ WorkerFails(w)
    <3>1. wcall[w] \in Calls
      BY <1>1, <1>5 DEF GetAudio, TypeOK, PoolOK
    <3>2. row[wcall[w]].blob \in Audio
      BY <1>1, <3>1 DEF TypeOK, StoresOK, Row
    <3>. QED  BY <1>4, <1>5, <3>2 DEF GetAudio
  <2>2. (\E v : HaveAudio(w, v)) \/ WorkerFails(w)
    BY <2>1
  <2>. QED  BY <1>2, <1>3, <2>2 DEF HaveAudio
<1>6. CASE StoreAudio(w)
  BY <1>2, <1>3, <1>4, <1>6 DEF StoreAudio
<1>. QED  BY <1>5, <1>6

\* Steps that neither take a row nor lose one.
LEMMA OrderFrame ==
    ASSUME OrderInv, TypeOK, Alive' => Alive, UNCHANGED <<row, tagged, req, pc, query>>,
           Alive' => \A c \in Calls : Taken(c)' <=> Taken(c),
           pc = "send" /\ Fresh => UNCHANGED cre /\ \A w \in Workers : wpc'[w] = wpc[w]
    PROVE  OrderInv'
<1> SUFFICES ASSUME Alive' PROVE OrderInv'
  BY DEF OrderInv
<1>1. Selected(req)' = Selected(req) /\ (Fits' <=> Fits)
  BY SelectedFrame
<1>2. pc = "send" /\ Fresh => Fresh'
  BY <1>1 DEF Fresh, query
<1>3. Selected(req) \subseteq Calls /\ batch \subseteq Calls
  BY SomeSelected DEF TypeOK, ControlOK
<1>. QED  BY <1>1, <1>2, <1>3 DEF OrderInv, query

\* The next batch is of the earliest rows that nobody has taken.
LEMMA OrderBatch ==
    ASSUME TypeOK, QueryInv, OrderInv, NextBatch
    PROVE  OrderInv'
<1> SUFFICES ASSUME Alive' PROVE OrderInv'
  BY DEF OrderInv
<1> DEFINE M == Matching(req, start)
<1>1. /\ pc = "send" /\ batch = {} /\ start' = 0 /\ Alive
      /\ UNCHANGED <<row, tagged, req, pc, pend, wpc, wcall>>
  BY DEF NextBatch, stores, call, workers, Alive, InTx
<1>2. /\ batch' \in FirstRows(M) /\ M \subseteq Selected(req)
      /\ Fits => batch' = Selected(req)
  BY QueryBatch
<1>3. Selected(req)' = Selected(req) /\ (Fits' <=> Fits) /\ Selected(req) \subseteq Calls
  BY <1>1, SelectedFrame, SomeSelected
<1>4. \A c : Taken(c)' <=> Taken(c)
  BY <1>1 DEF Taken, Busy
<1>5. ASSUME NEW c \in batch', NEW d \in Selected(req) \ batch', ~Taken(d)
      PROVE  DateOf[c] <= DateOf[d]
  <2>1. start <= DateOf[d]
    BY <1>1, <1>5 DEF OrderInv
  <2>2. d \in M
    BY <2>1 DEF Selected, Matching
  <2>. QED  BY <1>2, <1>3, <1>5, <2>2, FirstRowsOf
<1>6. \A d \in Selected(req) : start' <= DateOf[d]
  BY <1>1, <1>3, AudioMoveAssumption
<1>. QED  BY <1>1, <1>2, <1>3, <1>4, <1>5, <1>6 DEF OrderInv

\* The row that a worker takes is the earliest one nobody had.
LEMMA OrderTake ==
    ASSUME TypeOK, QueryInv, OrderInv, NEW w \in Workers, SendRow(w)
    PROVE  OrderInv'
<1> SUFFICES ASSUME Alive' PROVE OrderInv'
  BY DEF OrderInv
<1>1. PICK c \in batch :
        /\ \A d \in batch : DateOf[c] <= DateOf[d]
        /\ batch' = batch \ {c} /\ start' = DateOf[c]
        /\ wcall'[w] = c /\ ~Busy(w) /\ wpc'[w] = "get"
        /\ \A x \in Workers \ {w} : wpc'[x] = wpc[x] /\ wcall'[x] = wcall[x]
  BY HandsTake
<1>2. pc = "send" /\ UNCHANGED <<row, tagged, req, pc, pend>> /\ Alive
  BY DEF SendRow, stores, call, Alive, InTx
<1>3. /\ Selected(req)' = Selected(req) /\ (Fits' <=> Fits) /\ c \in Selected(req)
      /\ Selected(req) \subseteq Calls
  BY <1>2, SelectedFrame, SomeSelected DEF QueryInv
<1>4. \A d : Taken(d)' <=> Taken(d) \/ d = c
  <2>1. ASSUME NEW d, Taken(d) PROVE Taken(d)'
    BY <1>1, <1>2, <2>1 DEF Taken, Busy
  <2>2. Taken(c)'
    BY <1>1 DEF Taken, Busy
  <2>3. ASSUME NEW d, Taken(d)', d # c PROVE Taken(d)
    BY <1>1, <1>2, <2>3 DEF Taken, Busy
  <2>. QED  BY <2>1, <2>2, <2>3
<1>5. \A d \in Selected(req) : ~Taken(d) => DateOf[c] <= DateOf[d]
  BY <1>1, <1>2 DEF OrderInv
<1>6. \A x \in Calls, d \in Selected(req) : Taken(x)' /\ ~Taken(d)' => DateOf[x] <= DateOf[d]
  BY <1>2, <1>4, <1>5 DEF OrderInv
<1>7. \A x \in batch', d \in Selected(req) \ batch' : ~Taken(d)' => DateOf[x] <= DateOf[d]
  BY <1>1, <1>2, <1>4 DEF OrderInv
<1>8. Fits => \A d \in Selected(req) : Taken(d)' \/ d \in batch'
  BY <1>1, <1>2, <1>4 DEF OrderInv, Fresh
<1>. QED  BY <1>1, <1>2, <1>3, <1>4, <1>5, <1>6, <1>7, <1>8 DEF OrderInv

LEMMA OrderNext ==
    ASSUME TxFaultsOnly, SteadyTags, NoneSwept, IInv, IInv', QueryInv, FoundInv, OrderInv,
           [Next]_vars
    PROVE  OrderInv'
<1>0. TypeOK /\ TypeOK' /\ WorkersInv
  BY DEF IInv
<1>1. CASE (\E r \in Requests : Begin(r) \/ Refuse(r)) \/ NothingToDo \/ TxEnd \/ Unlock \/ Crash
           \/ \E b \in Backends : DeleteBulk(b)
  BY <1>1 DEF Begin, Refuse, NothingToDo, TxEnd, Finish, Unlock, Crash, Quiet, DeleteBulk,
         OrderInv, Alive, InTx
<1>2. CASE StartPool
  <2>1. /\ pc' = "send" /\ batch' = {} /\ count' = Cardinality(Selected(req))
        /\ start' = req.start /\ \A w \in Workers : wpc'[w] = "recv"
        /\ UNCHANGED <<row, tagged, req, cre, pend>> /\ cre = NoRefs /\ pend = NoUpdates
    BY <1>2 DEF StartPool, stores, call, tracker, IInv, TrackerInv, PendingInv
  <2>2. Selected(req)' = Selected(req) /\ Selected(req) \subseteq Calls
    BY <2>1, SelectedFrame, SomeSelected
  <2>3. Fresh'
    BY <2>1, <2>2 DEF Fresh
  <2>4. \A c \in Calls : ~Taken(c)'
    BY <2>1 DEF Taken, Busy, NoUpdates
  <2>5. \A d \in Selected(req) : start' <= DateOf[d]
    BY <2>1 DEF Selected, Matching
  <2>. QED  BY <2>1, <2>2, <2>3, <2>4, <2>5 DEF OrderInv
<1>3. CASE NextBatch
  BY <1>0, <1>3, OrderBatch
<1>4. ASSUME NEW w \in Workers, SendRow(w) PROVE OrderInv'
  BY <1>0, <1>4, OrderTake
<1>5. CASE CloseWork \/ Join
  <2> SUFFICES ASSUME Alive' PROVE OrderInv'
    BY DEF OrderInv
  <2>1. /\ UNCHANGED <<row, tagged, req, pend, wpc, wcall>> /\ Alive /\ pc' # "send"
        /\ batch' = {}
        /\ pc = "send" => batch = {} /\ count <= 0
        /\ batch = {}
    BY <1>0, <1>5, NoBackendFault
       DEF CloseWork, Join, stores, call, query, workers, wctxDone, IInv, CancelledInv, Alive,
           InTx, FoundInv
  <2>2. Selected(req)' = Selected(req) /\ (Fits' <=> Fits)
    BY <2>1, SelectedFrame
  <2>3. ~(pc = "send" /\ Fresh)
    <3>1. pc = "send" => count # Cardinality(Selected(req))
      BY <2>1, SomeSelected, FS_EmptySet DEF QueryInv
    <3>. QED  BY <3>1 DEF Fresh
  <2>4. \A c : Taken(c)' <=> Taken(c)
    BY <2>1 DEF Taken, Busy
  <2>. QED  BY <2>1, <2>2, <2>3, <2>4 DEF OrderInv
<1>6. CASE TxBegin \/ Cancel \/ UNCHANGED vars
  <2>1. UNCHANGED <<row, tagged, req, pc, query, pend, wpc, wcall, cre>>
    BY <1>6 DEF TxBegin, Cancel, vars, stores, call, query, workers, tracker
  <2>2. Alive' => Alive
    BY <1>6, <2>1 DEF TxBegin, Cancel, vars, Alive, InTx
  <2>3. \A c : Taken(c)' <=> Taken(c)
    BY <2>1 DEF Taken, Busy
  <2>. QED  BY <1>0, <2>1, <2>2, <2>3, OrderFrame
<1>7. ASSUME NEW w \in Workers, WorkerStep(w) PROVE OrderInv'
  <2>1. UNCHANGED <<row, tagged, req, pc, query>>
    BY <1>7 DEF WorkerStep, GetAudio, StoreAudio, SendUpdate, WorkerExit, stores, call
  <2>2. ~(pc = "send" /\ Fresh)
    BY <1>7 DEF WorkerStep, GetAudio, StoreAudio, SendUpdate, WorkerExit, Fresh
  <2>3. \A x \in Workers \ {w} : Busy(x)' <=> Busy(x)
    BY <1>0, <1>7, PoolKeeps DEF Busy
  <2>4. \A x \in Workers : Busy(x)' => Busy(x) /\ wcall'[x] = wcall[x]
    BY <1>0, <1>7, PoolKeeps DEF Busy
  <2>5. CASE GetAudio(w) \/ StoreAudio(w) \/ WorkerExit(w)
    <3>1. UNCHANGED <<pend, ctxDone, txpc>>
      BY <2>5 DEF GetAudio, StoreAudio, WorkerExit
    <3>2. ~ctxDone => (Busy(w) => Busy(w)' /\ wcall'[w] = wcall[w])
      BY <2>5, <3>1, StillBusy DEF WorkerExit, Busy
    <3>3. ~ctxDone => \A c : Taken(c)' <=> Taken(c)
      BY <1>0, <1>7, <2>3, <2>4, <3>1, <3>2, PoolKeeps DEF Taken
    <3>. QED  BY <1>0, <2>1, <2>2, <3>1, <3>3, OrderFrame DEF Alive, InTx
  <2>6. CASE SendUpdate(w)
    <3>1. Alive' => TxUpdates(w) /\ Alive
      BY <2>1, <2>6 DEF SendUpdate, TxReceives, TxUpdates, TxFails, TxDrains, Alive, InTx
    <3>2. ASSUME TxUpdates(w) PROVE \A c \in Calls : Taken(c)' <=> Taken(c)
      <4>1. Busy(w) /\ wcall[w] \in Calls /\ wcall[w] \in Movable(req) /\ req \in Requests
        BY <1>0, <2>6 DEF SendUpdate, Busy, WorkersInv, TypeOK, PoolOK, ControlOK
      <4>2. wcall[w] \notin SweptCalls
        BY <4>1 DEF NoneSwept, Movable
      <4>3. NewRow(w) # None
        BY <1>0, <4>1, NewRowType, AudioMoveAssumption
      <4>4. \A c \in Calls : pend'[c] = IF c = wcall[w] THEN NewRow(w) ELSE pend[c]
        BY <1>0, <3>2, <4>1, <4>2 DEF TxUpdates, TypeOK, TxOK
      <4>5. \A x \in Workers \ {w} : wcall'[x] = wcall[x]
        BY <1>0, <1>7, PoolKeeps
      <4>. QED  BY <2>3, <2>4, <4>1, <4>3, <4>4, <4>5 DEF Taken
    <3>. QED  BY <1>0, <2>1, <2>2, <3>1, <3>2, OrderFrame
  <2>. QED  BY <1>7, <2>5, <2>6 DEF WorkerStep
<1>8. ~\E c \in Calls : Retag(c)
  BY DEF SteadyTags, Retag, Fault
<1>. QED
  BY <1>1, <1>2, <1>3, <1>4, <1>5, <1>6, <1>7, <1>8 DEF Next, MoveStep

\* What SuccessMovesAll says, from the end of the transaction on.
SuccessInv ==
    res = "ok" /\ ~req.dry =>
      /\ \A c \in Moved : c \in Asked /\ Reached(c)
      /\ \A c \in Moved, d \in Asked \ Moved : DateOf[c] <= DateOf[d]
      /\ InOneBatch => Moved = Asked

LEMMA SuccessInit == Init => SuccessInv
BY DEF Init, SuccessInv

\* The rows that COMMIT changes are those of the transaction.
LEMMA CommitMoves ==
    ASSUME IInv, CarryInv, FoundInv, OrderInv, pc = "txwait", txpc = "recv", ~ctxDone,
           row' = Committed, UNCHANGED <<before, req, tagged>>
    PROVE  /\ Moved' = {c \in Calls : pend[c] # None}
           /\ \A c \in Moved' : c \in Asked' /\ Reached(c)'
           /\ \A c \in Moved', d \in Asked' \ Moved' : DateOf[c] <= DateOf[d]
           /\ InOneBatch' => Fits /\ Moved' = Asked'
           /\ Asked' = Selected(req)
<1>1. Alive /\ Running /\ TypeOK /\ batch = {} /\ before.row = row
  BY DEF Alive, InTx, Running, IInv, FoundInv
<1>2. Asked' = Selected(req) /\ (InOneBatch' <=> Fits)
  BY <1>1, AskedSelected, AskedFrame DEF InOneBatch, Fits
<1>3. \A c : Taken(c) <=> pend[c] # None
  BY DEF IInv, WorkersInv, Busy, Taken
<1>4. ASSUME NEW c \in Calls, pend[c] # None
      PROVE  row'[c] # row[c] /\ Reached(c)' /\ c \in Selected(req)
  <2>1. /\ row'[c] = pend[c] /\ c \in Movable(req)
        /\ Contract!Carried(req, row[c], pend[c])
    BY <1>4 DEF Committed, CarryInv
  <2>2. c \in Selected(req)
    BY <1>1, <1>3, <1>4 DEF OrderInv
  <2>. QED  BY <2>1, <2>2 DEF Contract!Carried, Movable, Reached
<1>5. ASSUME NEW c \in Calls, pend[c] = None
      PROVE  row'[c] = row[c]
  BY <1>5 DEF Committed
<1>6. Moved' = {c \in Calls : pend[c] # None}
  BY <1>1, <1>4, <1>5 DEF Moved
<1>7. Selected(req) \subseteq Calls
  BY SomeSelected
<1>8. \A c \in Moved', d \in Asked' \ Moved' : DateOf[c] <= DateOf[d]
  BY <1>1, <1>2, <1>3, <1>6, <1>7 DEF OrderInv
<1>9. Fits => Moved' = Asked'
  BY <1>1, <1>2, <1>3, <1>4, <1>6, <1>7 DEF OrderInv
<1>. QED  BY <1>2, <1>4, <1>6, <1>8, <1>9

\* Once the outcome is known nothing of it changes before the next move.
LEMMA OutcomeKeeps ==
    ASSUME SteadyTags, IInv, FoundInv, [Next]_vars, res' = "ok"
    PROVE  \/ UNCHANGED <<row, tagged, req, before, completed, res>>
           \/ NothingToDo
           \/ TxEnd
<1>1. CASE (\E r \in Requests : Begin(r) \/ Refuse(r)) \/ Crash
  BY <1>1 DEF Begin, Refuse, Crash
<1>2. CASE StartPool \/ NextBatch \/ CloseWork \/ Join \/ TxBegin \/ Cancel \/ UNCHANGED vars
  BY <1>2 DEF StartPool, NextBatch, CloseWork, Join, TxBegin, Cancel, stores, call, vars
<1>3. CASE Unlock \/ \E b \in Backends : DeleteBulk(b)
  BY <1>3 DEF Unlock, DeleteBulk, stores, call
<1>4. ASSUME NEW w \in Workers, SendRow(w) \/ GetAudio(w) \/ StoreAudio(w) \/ WorkerExit(w)
      PROVE  UNCHANGED <<row, tagged, req, before, completed, res>>
  BY <1>4 DEF SendRow, GetAudio, StoreAudio, WorkerExit, stores, call
<1>5. ASSUME NEW w \in Workers, SendUpdate(w) PROVE FALSE
  <2>1. Running /\ res' = res
    BY <1>5 DEF SendUpdate, IInv, WorkersInv, Running
  <2>. QED  BY <2>1 DEF FoundInv
<1>6. ~\E c \in Calls : Retag(c)
  BY DEF SteadyTags, Retag, Fault
<1>. QED
  BY <1>1, <1>2, <1>3, <1>4, <1>5, <1>6 DEF Next, MoveStep, WorkerStep

LEMMA SuccessNext ==
    ASSUME TxFaultsOnly, SteadyTags, IInv, CarryInv, FoundInv, OrderInv, SuccessInv,
           [Next]_vars
    PROVE  SuccessInv'
<1> SUFFICES ASSUME res' = "ok" PROVE SuccessInv'
  BY DEF SuccessInv
<1>0. TypeOK
  BY DEF IInv
<1>1. CASE UNCHANGED <<row, tagged, req, before, res>>
  <2>1. Moved' = Moved /\ Asked' = Asked /\ (InOneBatch' <=> InOneBatch)
    BY <1>1, AskedFrame DEF Moved
  <2>2. \A c : Reached(c)' <=> Reached(c)
    BY <1>1 DEF Reached
  <2>. QED  BY <1>1, <2>1, <2>2 DEF SuccessInv
<1>2. CASE NothingToDo
  <2>1. /\ UNCHANGED <<row, tagged, req, before>> /\ Running
        /\ Selected(req) = {} \/ req.dry
    BY <1>2 DEF NothingToDo, Finish, Running, stores, call
  <2>2. Asked' = Selected(req) /\ before.row = row
    BY <1>0, <2>1, AskedFrame, AskedSelected DEF FoundInv
  <2>3. Moved' = {}
    BY <2>1, <2>2 DEF Moved
  <2>. QED  BY <2>1, <2>2, <2>3 DEF SuccessInv
<1>3. CASE TxEnd
  <2>1. /\ txpc = "recv" /\ ~ctxDone /\ row' = Committed /\ pc = "txwait"
        /\ UNCHANGED <<before, req, tagged>>
    BY <1>3, NoBackendFault DEF TxEnd, Finish, call
  <2>. QED  BY <2>1, CommitMoves DEF SuccessInv
<1>. QED  BY <1>1, <1>2, <1>3, OutcomeKeeps

\* A move that reported success changed only rows it was asked for and has
\* each where it should be; of those it was asked for it left none that is
\* older than one it carried, and none at all if they fit a batch: batches,
\* workers and transaction lose no row in between, with any number of them.
\* That holds if users do not change the tags and no swept row is asked for.
THEOREM SuccessIsComplete ==
    ASSUME TxFaultsOnly, SteadyTags, NoneSwept
    PROVE  Spec => []SuccessMovesAll
<1> DEFINE I == IInv /\ CarryInv /\ QueryInv /\ FoundInv /\ OrderInv /\ SuccessInv
<1>1. Init => I
  BY IInvInit, CarryInit, QueryInit, FoundInit, OrderInit, SuccessInit
<1>2. I /\ [Next]_vars => I'
  <2> SUFFICES ASSUME I, [Next]_vars PROVE I'
    OBVIOUS
  <2>1. IInv'
    BY IInvNext
  <2>2. CarryInv' /\ QueryInv' /\ FoundInv' /\ OrderInv' /\ SuccessInv'
    BY <2>1, CarryNext, QueryNext, FoundNext, OrderNext, SuccessNext
  <2>. QED  BY <2>1, <2>2
<1>3. I => SuccessMovesAll
  BY DEF SuccessInv, SuccessMovesAll
<1>. QED  BY <1>1, <1>2, <1>3, PTL DEF Spec

-----------------------------------------------------------------------------
(* The number that is returned.                                            *)

\* The workers that have not sent the update of their row yet.
FirstTry == {w \in Workers : Busy(w) /\ wtry[w] = 0}

\* Whatever was counted is still to be sent, with a worker, or counted by
\* completedRows, which retries only add to.
TallyInv ==
    Alive => /\ Cardinality(Selected(req)) <= count + completed + Cardinality(FirstTry)
             /\ req.tries = 0 =>
                  /\ Cardinality(Selected(req)) = count + completed + Cardinality(FirstTry)
                  /\ \A w \in Workers : Busy(w) => wtry[w] = 0

LEMMA TallyInit == Init => TallyInv
BY DEF Init, TallyInv, Alive, InTx

LEMMA SomeTry == IsFiniteSet(FirstTry) /\ Cardinality(FirstTry) \in Nat
<1>1. FirstTry \in SUBSET Workers
  BY DEF FirstTry
<1>. QED  BY <1>1, FS_Subset, FS_CardinalityType, AudioMoveAssumption

\* Steps in which no worker takes a row or sends an update.
LEMMA TallyFrame ==
    ASSUME TallyInv, UNCHANGED <<row, tagged, req, count, completed>>, Alive' => Alive,
           Alive' => \A w \in Workers : (Busy(w)' <=> Busy(w)) /\ wtry'[w] = wtry[w]
    PROVE  TallyInv'
<1> SUFFICES ASSUME Alive' PROVE TallyInv'
  BY DEF TallyInv
<1>1. Selected(req)' = Selected(req)
  BY SelectedFrame
<1>2. FirstTry' = FirstTry
  BY DEF FirstTry
<1>. QED  BY <1>1, <1>2 DEF TallyInv

LEMMA TallyTake ==
    ASSUME TypeOK, TallyInv, NEW w \in Workers, SendRow(w)
    PROVE  TallyInv'
<1> SUFFICES ASSUME Alive' PROVE TallyInv'
  BY DEF TallyInv
<1>1. /\ count' = count - 1 /\ ~Busy(w) /\ wpc'[w] = "get" /\ wtry'[w] = 0
      /\ \A x \in Workers \ {w} : wpc'[x] = wpc[x] /\ wtry'[x] = wtry[x]
  BY HandsTake
<1>2. UNCHANGED <<row, tagged, req, completed>> /\ Alive
  BY DEF SendRow, stores, call, Alive, InTx
<1>3. FirstTry' = FirstTry \cup {w} /\ w \notin FirstTry
  BY <1>1 DEF FirstTry, Busy
<1>4. Cardinality(FirstTry') = Cardinality(FirstTry) + 1
  BY <1>3, SomeTry, FS_AddElement
<1>5. Selected(req)' = Selected(req) /\ Cardinality(Selected(req)) \in Nat
  BY <1>2, SelectedFrame, SomeSelected
<1>6. \A x \in Workers : Busy(x)' => x = w \/ (Busy(x) /\ wtry'[x] = wtry[x])
  BY <1>1 DEF Busy
<1>7. count \in Int /\ completed \in Nat /\ Cardinality(FirstTry) \in Nat
  BY SomeTry DEF TypeOK, ControlOK
<1>8. Cardinality(Selected(req)) <= count' + completed + Cardinality(FirstTry')
  BY <1>1, <1>2, <1>4, <1>5, <1>7 DEF TallyInv
<1>9. req.tries = 0 =>
        /\ Cardinality(Selected(req)) = count' + completed + Cardinality(FirstTry')
        /\ \A x \in Workers : Busy(x)' => wtry'[x] = 0
  BY <1>1, <1>2, <1>4, <1>5, <1>6, <1>7 DEF TallyInv
<1>. QED  BY <1>2, <1>5, <1>8, <1>9 DEF TallyInv

LEMMA TallyUpdate ==
    ASSUME TypeOK, TallyInv, NEW w \in Workers, SendUpdate(w)
    PROVE  TallyInv'
<1> SUFFICES ASSUME Alive' PROVE TallyInv'
  BY DEF TallyInv
<1>1. /\ wpc[w] = "send" /\ Busy(w) /\ NextTurn(w) /\ completed' = completed + 1
      /\ UNCHANGED <<row, tagged, req, pc, count>>
  BY DEF SendUpdate, Busy, stores, call, query
<1>2. Alive
  BY <1>1 DEF SendUpdate, TxReceives, TxUpdates, TxFails, TxDrains, Alive, InTx
<1>3. wtry[w] \in Nat /\ req.tries \in Nat
  <2>1. req \in Requests /\ wtry[w] \in 0..MaxTries
    BY <1>1 DEF TypeOK, PoolOK
  <2>. QED  BY <2>1, Bounds
<1>4. /\ Busy(w)' => wtry'[w] > 0 /\ req.tries > 0
      /\ \A x \in Workers \ {w} : wpc'[x] = wpc[x] /\ wtry'[x] = wtry[x]
  <2>1. CASE wtry[w] < req.tries
    BY <1>1, <1>3, <2>1 DEF NextTurn, TypeOK, PoolOK
  <2>2. CASE ~(wtry[w] < req.tries)
    BY <1>1, <2>2 DEF NextTurn, Busy, TypeOK, PoolOK
  <2>. QED  BY <2>1, <2>2
<1>5. FirstTry' = FirstTry \ {w}
  BY <1>3, <1>4 DEF FirstTry, Busy
<1>6. /\ Cardinality(FirstTry') + 1 >= Cardinality(FirstTry)
      /\ req.tries = 0 => Cardinality(FirstTry') + 1 = Cardinality(FirstTry)
      /\ Cardinality(FirstTry') \in Nat
  <2>1. req.tries = 0 => w \in FirstTry
    BY <1>1, <1>2 DEF FirstTry, TallyInv
  <2>2. /\ IsFiniteSet(FirstTry \ {w})
        /\ Cardinality(FirstTry \ {w}) = IF w \in FirstTry THEN Cardinality(FirstTry) - 1
                                                           ELSE Cardinality(FirstTry)
    BY SomeTry, FS_RemoveElement
  <2>3. Cardinality(FirstTry \ {w}) \in Nat
    BY <2>2, FS_CardinalityType
  <2>. QED  BY <1>5, <2>1, <2>2, <2>3, SomeTry
<1>7. Selected(req)' = Selected(req) /\ Cardinality(Selected(req)) \in Nat
  BY <1>1, SelectedFrame, SomeSelected
<1>8. count \in Int /\ completed \in Nat /\ Cardinality(FirstTry) \in Nat
  BY SomeTry DEF TypeOK, ControlOK
<1>9. req.tries = 0 => \A x \in Workers : Busy(x)' => wtry'[x] = 0
  BY <1>2, <1>3, <1>4 DEF TallyInv, Busy
<1>10. Cardinality(Selected(req)) <= count + completed' + Cardinality(FirstTry')
  BY <1>1, <1>2, <1>6, <1>7, <1>8 DEF TallyInv
<1>11. req.tries = 0 =>
         Cardinality(Selected(req)) = count + completed' + Cardinality(FirstTry')
  BY <1>1, <1>2, <1>6, <1>7, <1>8 DEF TallyInv
<1>. QED  BY <1>1, <1>7, <1>9, <1>10, <1>11 DEF TallyInv

LEMMA TallyNext ==
    ASSUME TxFaultsOnly, SteadyTags, IInv, IInv', FoundInv, TallyInv, [Next]_vars
    PROVE  TallyInv'
<1>0. TypeOK
  BY DEF IInv
<1>1. CASE (\E r \in Requests : Begin(r) \/ Refuse(r)) \/ NothingToDo \/ TxEnd \/ Unlock \/ Crash
           \/ \E b \in Backends : DeleteBulk(b)
  BY <1>1 DEF Begin, Refuse, NothingToDo, TxEnd, Finish, Unlock, Crash, Quiet, DeleteBulk,
         TallyInv, Alive, InTx
<1>2. CASE StartPool
  <2>1. /\ count' = Cardinality(Selected(req)) /\ completed' = 0
        /\ \A w \in Workers : wpc'[w] = "recv"
        /\ UNCHANGED <<row, tagged, req>>
    BY <1>2 DEF StartPool, stores, call, FoundInv
  <2>2. Selected(req)' = Selected(req) /\ Cardinality(Selected(req)) \in Nat
    BY <2>1, SelectedFrame, SomeSelected
  <2>3. FirstTry' = {} /\ \A w \in Workers : ~Busy(w)'
    BY <2>1 DEF FirstTry, Busy
  <2>. QED  BY <2>1, <2>2, <2>3, FS_EmptySet DEF TallyInv
<1>3. CASE NextBatch \/ CloseWork \/ Join \/ TxBegin \/ Cancel \/ UNCHANGED vars
  <2>1. UNCHANGED <<row, tagged, req, count, completed, wpc, wtry>>
    BY <1>3 DEF NextBatch, CloseWork, Join, TxBegin, Cancel, vars, stores, call, query, workers
  <2>2. Alive' => Alive
    BY <1>3 DEF NextBatch, CloseWork, Join, TxBegin, Cancel, vars, Alive, InTx
  <2>. QED  BY <2>1, <2>2, TallyFrame DEF Busy
<1>4. ASSUME NEW w \in Workers, SendRow(w) PROVE TallyInv'
  BY <1>0, <1>4, TallyTake
<1>5. ASSUME NEW w \in Workers, GetAudio(w) \/ StoreAudio(w) \/ WorkerExit(w)
      PROVE  TallyInv'
  <2>1. UNCHANGED <<row, tagged, req, count, completed, pc, ctxDone, txpc>> /\ WorkerStep(w)
    BY <1>5 DEF GetAudio, StoreAudio, WorkerExit, stores, call, query, WorkerStep
  <2>2. \A x \in Workers \ {w} : Busy(x)' <=> Busy(x)
    BY <1>0, <2>1, PoolKeeps DEF Busy
  <2>3. CASE WorkerExit(w)
    <3>1. (Busy(w)' <=> Busy(w)) /\ wtry' = wtry
      BY <1>0, <2>1, <2>3, PoolKeeps DEF WorkerExit, Busy
    <3>. QED  BY <2>1, <2>2, <3>1, TallyFrame DEF Alive, InTx
  <2>4. CASE GetAudio(w) \/ StoreAudio(w)
    <3>1. ctxDone \/ (Busy(w)' /\ wtry' = wtry)
      BY <2>1, <2>4, StillBusy
    <3>2. Busy(w)
      BY <2>4 DEF GetAudio, StoreAudio, Busy
    <3>. QED  BY <2>1, <2>2, <3>1, <3>2, TallyFrame DEF Alive, InTx
  <2>. QED  BY <1>5, <2>3, <2>4
<1>6. ASSUME NEW w \in Workers, SendUpdate(w) PROVE TallyInv'
  BY <1>0, <1>6, TallyUpdate
<1>7. ~\E c \in Calls : Retag(c)
  BY DEF SteadyTags, Retag, Fault
<1>. QED
  BY <1>1, <1>2, <1>3, <1>4, <1>5, <1>6, <1>7 DEF Next, MoveStep, WorkerStep

\* What CountIsRowsMoved says, from the end of the transaction on.
CountInv ==
    res = "ok" /\ ~req.dry =>
      /\ Cardinality(Asked) <= completed
      /\ InOneBatch /\ req.tries = 0 => completed = Cardinality(Moved)

LEMMA CountInit == Init => CountInv
BY DEF Init, CountInv

LEMMA CountNext ==
    ASSUME TxFaultsOnly, SteadyTags, IInv, CarryInv, QueryInv, FoundInv, OrderInv, TallyInv,
           CountInv, [Next]_vars
    PROVE  CountInv'
<1> SUFFICES ASSUME res' = "ok" PROVE CountInv'
  BY DEF CountInv
<1>0. TypeOK
  BY DEF IInv
<1>1. CASE UNCHANGED <<row, tagged, req, before, completed, res>>
  <2>1. Moved' = Moved /\ Asked' = Asked /\ (InOneBatch' <=> InOneBatch)
    BY <1>1, AskedFrame DEF Moved
  <2>. QED  BY <1>1, <2>1 DEF CountInv
<1>2. CASE NothingToDo
  <2>1. /\ UNCHANGED <<row, tagged, req, before, completed>> /\ Running /\ completed = 0
        /\ Selected(req) = {} \/ req.dry
    BY <1>2 DEF NothingToDo, Finish, Running, stores, call, FoundInv
  <2>2. Asked' = Selected(req) /\ before.row = row
    BY <1>0, <2>1, AskedFrame, AskedSelected DEF FoundInv
  <2>3. Moved' = {}
    BY <2>1, <2>2 DEF Moved
  <2>. QED  BY <2>1, <2>2, <2>3, FS_EmptySet DEF CountInv
<1>3. CASE TxEnd
  <2>1. /\ txpc = "recv" /\ ~ctxDone /\ row' = Committed /\ pc = "txwait"
        /\ UNCHANGED <<before, req, tagged, completed>>
    BY <1>3, NoBackendFault DEF TxEnd, Finish, call
  <2>2. Asked' = Selected(req) /\ (InOneBatch' => Fits /\ Moved' = Asked')
    BY <2>1, CommitMoves
  <2>3. FirstTry = {}
    BY <2>1 DEF FirstTry, Busy, IInv, WorkersInv
  <2>4. /\ Cardinality(Selected(req)) <= count + completed
        /\ req.tries = 0 => Cardinality(Selected(req)) = count + completed
    <3>1. count \in Int /\ completed \in Nat /\ Cardinality(FirstTry) = 0
      BY <1>0, <2>3, FS_EmptySet DEF TypeOK, ControlOK
    <3>. QED  BY <2>1, <3>1, SomeSelected DEF TallyInv, Alive, InTx
  <2>5. count <= 0 /\ (Fits => count = 0)
    BY <2>1 DEF QueryInv
  <2>6. count \in Int /\ completed \in Nat /\ Cardinality(Selected(req)) \in Nat
    BY <1>0, SomeSelected DEF TypeOK, ControlOK
  <2>7. Cardinality(Selected(req)) <= completed
    BY <2>4, <2>5, <2>6
  <2>8. Fits /\ req.tries = 0 => completed = Cardinality(Selected(req))
    BY <2>4, <2>5, <2>6
  <2>. QED  BY <2>1, <2>2, <2>7, <2>8 DEF CountInv
<1>. QED  BY <1>1, <1>2, <1>3, OutcomeKeeps

\* The number returned with a success is never less than the number of rows
\* that were asked for, and it is the number of rows that changed if the
\* move took none twice: with one batch, and a single try of each row.
THEOREM CountIsExact ==
    ASSUME TxFaultsOnly, SteadyTags, NoneSwept
    PROVE  Spec => []CountIsRowsMoved
<1> DEFINE I == /\ IInv /\ CarryInv /\ QueryInv /\ FoundInv /\ OrderInv
                /\ TallyInv /\ CountInv
<1>1. Init => I
  BY IInvInit, CarryInit, QueryInit, FoundInit, OrderInit, TallyInit, CountInit
<1>2. I /\ [Next]_vars => I'
  <2> SUFFICES ASSUME I, [Next]_vars PROVE I'
    OBVIOUS
  <2>1. IInv'
    BY IInvNext
  <2>2. CarryInv' /\ QueryInv' /\ FoundInv' /\ OrderInv'
    BY <2>1, CarryNext, QueryNext, FoundNext, OrderNext
  <2>3. TallyInv' /\ CountInv'
    BY <2>1, TallyNext, CountNext
  <2>. QED  BY <2>1, <2>2, <2>3
<1>3. I => CountIsRowsMoved
  BY DEF CountInv, CountIsRowsMoved
<1>. QED  BY <1>1, <1>2, <1>3, PTL DEF Spec

-----------------------------------------------------------------------------
(* The rollback of a failed move to files leaves nothing it created.       *)

\* No destination heeds the context, and bulk deletes do not fail by themselves.
ToFiles == (\A r \in Requests : r.dest \notin S3Backends) /\ "del" \notin Faults

\* The move takes no row twice: one batch and a single try.
Single == InOneBatch /\ req.tries = 0

LEMMA SingleFits ==
    ASSUME TypeOK, FoundInv, Running
    PROVE  InOneBatch <=> Fits
BY AskedSelected DEF InOneBatch, Fits

\* No call is with the producer and a worker, or with two workers.
OnceInv ==
    InTx /\ Single =>
      \A w \in Workers : Busy(w) =>
         /\ wcall[w] \notin batch
         /\ \A x \in Workers \ {w} : Busy(x) => wcall[x] # wcall[w]

LEMMA OnceInit == Init => OnceInv
BY DEF Init, OnceInv, InTx

\* A step of a move leaves what it was asked for, and found, as it was.
LEMMA SingleKeeps ==
    ASSUME SteadyTags, [Next]_vars, ~\E r \in Requests : Begin(r) \/ Refuse(r)
    PROVE  UNCHANGED <<before, req, tagged>> /\ (Single' <=> Single)
<1>1. ASSUME NEW w \in Workers, SendRow(w) \/ WorkerStep(w)
      PROVE  UNCHANGED <<before, req, tagged>>
  BY <1>1 DEF SendRow, WorkerStep, GetAudio, StoreAudio, SendUpdate, WorkerExit, stores, call
<1>2. ~\E c \in Calls : Retag(c)
  BY DEF SteadyTags, Retag, Fault
<1>3. UNCHANGED <<before, req, tagged>>
  BY <1>1, <1>2
     DEF Next, MoveStep, NothingToDo, StartPool, NextBatch, CloseWork, Join, TxBegin, TxEnd,
         Unlock, Cancel, Crash, DeleteBulk, vars, stores, call
<1>. QED  BY <1>3, AskedFrame DEF Single

\* What a step does to the calls in hand.
LEMMA HandsNext ==
    ASSUME TypeOK, [Next]_vars, ~StartPool, ~NextBatch
    PROVE  \/ \E w \in Workers : SendRow(w)
           \/ /\ batch' \subseteq batch
              /\ \A x \in Workers : Busy(x)' => Busy(x) /\ wcall'[x] = wcall[x]
<1>1. ASSUME batch' \subseteq batch, UNCHANGED <<wpc, wcall>>
      PROVE  /\ batch' \subseteq batch
             /\ \A x \in Workers : Busy(x)' => Busy(x) /\ wcall'[x] = wcall[x]
  BY <1>1 DEF Busy
<1>2. CASE \/ \E r \in Requests : Begin(r) \/ Refuse(r)
           \/ NothingToDo \/ CloseWork \/ Join \/ TxBegin \/ TxEnd \/ Cancel
           \/ (\E b \in Backends : DeleteBulk(b)) \/ (\E c \in Calls : Retag(c)) \/ UNCHANGED vars
  BY <1>1, <1>2
     DEF Begin, Refuse, NothingToDo, CloseWork, Join, TxBegin, TxEnd, Cancel, DeleteBulk,
         Retag, workers, query, vars
<1>3. CASE Unlock \/ Crash
  BY <1>3 DEF Unlock, Crash, Quiet, Busy
<1>4. ASSUME NEW w \in Workers, WorkerStep(w)
      PROVE  /\ batch' = batch
             /\ \A x \in Workers : Busy(x)' => Busy(x) /\ wcall'[x] = wcall[x]
  <2>1. batch' = batch
    BY <1>4 DEF WorkerStep, GetAudio, StoreAudio, SendUpdate, WorkerExit, query
  <2>. QED  BY <1>4, <2>1, PoolKeeps DEF Busy
<1>. QED
  BY <1>2, <1>3, <1>4 DEF Next, MoveStep

LEMMA OnceNext ==
    ASSUME SteadyTags, IInv, QueryInv, FoundInv, OnceInv, [Next]_vars
    PROVE  OnceInv'
<1> SUFFICES ASSUME InTx', Single' PROVE OnceInv'
  BY DEF OnceInv
<1>0. TypeOK
  BY DEF IInv
<1>1. CASE StartPool
  <2>1. \A w \in Workers : ~Busy(w)'
    BY <1>1 DEF StartPool, Busy
  <2>. QED  BY <2>1 DEF OnceInv
<1>2. CASE ~StartPool
  <2>1. InTx /\ Single
    <3>1. ~\E r \in Requests : Begin(r) \/ Refuse(r)
      BY DEF Begin, Refuse, InTx
    <3>2. Single
      BY <3>1, SingleKeeps
    <3>3. ASSUME NEW w \in Workers, SendRow(w) \/ WorkerStep(w) PROVE pc' = pc
      BY <3>3 DEF SendRow, WorkerStep, GetAudio, StoreAudio, SendUpdate, WorkerExit
    <3>4. InTx
      BY <1>2, <3>1, <3>3
         DEF Next, MoveStep, NothingToDo, NextBatch, CloseWork, Join, TxBegin, TxEnd, Finish,
             Unlock, Quiet, Cancel, Crash, DeleteBulk, Retag, vars, InTx
    <3>. QED  BY <3>2, <3>4
  <2>2. CASE NextBatch
    <3>1. Fresh
      BY <1>0, <2>1, <2>2, SingleFits, QueryBatch DEF Single, InTx, Running
    <3>2. \A w \in Workers : ~Busy(w)'
      BY <2>2, <3>1 DEF NextBatch, Fresh, workers, Busy
    <3>. QED  BY <3>2 DEF OnceInv
  <2>3. ASSUME NEW w \in Workers, SendRow(w) PROVE OnceInv'
    <3>1. PICK c \in batch : /\ batch' = batch \ {c} /\ wcall'[w] = c /\ ~Busy(w)
                             /\ wpc'[w] = "get"
                             /\ \A x \in Workers \ {w} : /\ wpc'[x] = wpc[x]
                                                         /\ wcall'[x] = wcall[x]
      BY <1>0, <2>3, HandsTake
    <3>2. \A x \in Workers \ {w} : /\ Busy(x)' => Busy(x) /\ wcall'[x] = wcall[x]
                                   /\ Busy(x)' => wcall'[x] # c
      BY <2>1, <3>1 DEF Busy, OnceInv
    <3>3. ASSUME NEW y \in Workers, Busy(y)'
          PROVE  wcall'[y] \notin batch'
      BY <2>1, <3>1, <3>2, <3>3 DEF OnceInv, Busy
    <3>4. ASSUME NEW y \in Workers, Busy(y)', NEW x \in Workers \ {y}, Busy(x)'
          PROVE  wcall'[x] # wcall'[y]
      <4>1. CASE y = w
        BY <3>1, <3>2, <3>4, <4>1 DEF Busy
      <4>2. CASE x = w
        BY <3>1, <3>2, <3>4, <4>2 DEF Busy
      <4>3. CASE y # w /\ x # w
        BY <2>1, <3>2, <3>4, <4>3 DEF OnceInv, Busy
      <4>. QED  BY <4>1, <4>2, <4>3
    <3>. QED  BY <3>3, <3>4 DEF OnceInv
  <2>4. CASE /\ batch' \subseteq batch
             /\ \A x \in Workers : Busy(x)' => Busy(x) /\ wcall'[x] = wcall[x]
    BY <2>1, <2>4 DEF OnceInv
  <2>. QED  BY <1>0, <1>2, <2>2, <2>3, <2>4, HandsNext
<1>. QED  BY <1>1, <1>2

\* The audio of the call is still to be stored.
ToStore(c) ==
    c \in batch \/ \E w \in Workers : wpc[w] \in {"get", "store"} /\ wcall[w] = c

\* What the tracker recorded was created once and is there until the cleanup
\* of its backend; no other object differs from what the move found.
TakenOK ==
    /\ \A r \in Refs :
          /\ cre[r] <= 1
          /\ cre[r] > 0 => /\ ~ToStore(r[1])
                           /\ object[r] # "none" \/ (~Running /\ r[2] \notin left)
    /\ Running => /\ res = "none"
                  /\ \A r \in Refs : object[r] = before.object[r] \/ cre[r] > 0
    /\ res = "err" =>
         /\ pc \in {"rollback", "idle"}
         /\ \A r \in Refs :
              \/ object[r] \in {"none", before.object[r]}
              \/ pc = "rollback" /\ r[2] \in left /\ cre[r] > 0

\* That is so of a move that takes no row twice.
TakenInv == Single => TakenOK

LEMMA TakenInit == Init => TakenInv
BY DEF Init, TakenInv, TakenOK, Running, NoRefs

\* Without retries, who had a call to store still has it or has stored it.
LEMMA ToStoreNext ==
    ASSUME req.tries = 0, TypeOK, [Next]_vars, ~StartPool, ~NextBatch, NEW c, ToStore(c)'
    PROVE  ToStore(c)
<1>1. CASE \/ \E r \in Requests : Begin(r) \/ Refuse(r)
           \/ NothingToDo \/ CloseWork \/ Join \/ TxBegin \/ TxEnd \/ Cancel
           \/ (\E b \in Backends : DeleteBulk(b)) \/ (\E d \in Calls : Retag(d)) \/ UNCHANGED vars
  <2>1. batch' \subseteq batch /\ UNCHANGED <<wpc, wcall>>
    BY <1>1
       DEF Begin, Refuse, NothingToDo, CloseWork, Join, TxBegin, TxEnd, Cancel, DeleteBulk,
           Retag, workers, query, vars
  <2>. QED  BY <2>1 DEF ToStore
<1>2. CASE Unlock \/ Crash
  BY <1>2 DEF Unlock, Crash, Quiet, ToStore
<1>3. ASSUME NEW w \in Workers, SendRow(w) PROVE ToStore(c)
  <2>1. PICK d \in batch : /\ batch' = batch \ {d} /\ wcall'[w] = d /\ ~Busy(w)
                           /\ wpc'[w] = "get"
                           /\ \A x \in Workers \ {w} : /\ wpc'[x] = wpc[x]
                                                       /\ wcall'[x] = wcall[x]
    BY <1>3, HandsTake
  <2>2. CASE c = d
    BY <2>2 DEF ToStore
  <2>3. CASE c # d
    BY <2>1, <2>3 DEF ToStore
  <2>. QED  BY <2>2, <2>3
<1>4. ASSUME NEW w \in Workers, WorkerStep(w) PROVE ToStore(c)
  <2>1. batch' = batch
    BY <1>4 DEF WorkerStep, GetAudio, StoreAudio, SendUpdate, WorkerExit, query
  <2>2. \A x \in Workers \ {w} : wpc'[x] = wpc[x] /\ wcall'[x] = wcall[x]
    BY <1>4, PoolKeeps
  <2>3. wpc'[w] \in {"get", "store"} => wpc[w] \in {"get", "store"} /\ wcall'[w] = wcall[w]
    <3>1. NextTurn(w) => wpc'[w] = "recv"
      BY DEF NextTurn, TypeOK, PoolOK
    <3>2. WorkerFails(w) \/ WorkerExit(w) => wpc'[w] = "exit"
      BY DEF WorkerFails, WorkerExit, TypeOK, PoolOK
    <3>3. CASE GetAudio(w)
      BY <3>1, <3>2, <3>3 DEF GetAudio, HaveAudio, DeadlineExceeded, TypeOK, PoolOK
    <3>4. CASE StoreAudio(w)
      BY <3>1, <3>2, <3>4 DEF StoreAudio, DeadlineExceeded, TypeOK, PoolOK
    <3>. QED  BY <1>4, <3>1, <3>2, <3>3, <3>4 DEF WorkerStep, SendUpdate
  <2>. QED  BY <2>1, <2>2, <2>3 DEF ToStore
<1>. QED
  BY <1>1, <1>2, <1>3, <1>4 DEF Next, MoveStep

\* An object is created, for the first time.
LEMMA TakenStore ==
    ASSUME TxFaultsOnly, ToFiles, Single, IInv, OnceInv, TakenOK,
           [Next]_vars, NEW w \in Workers, StoreAudio(w)
    PROVE  TakenOK'
<1> DEFINE d == wcall[w]
<1> DEFINE e == req.dest
<1>1. TypeOK /\ WorkersInv /\ ~StartPool /\ ~NextBatch /\ req.tries = 0
  <2>1. TypeOK /\ WorkersInv /\ ~StartPool /\ req.tries = 0
    BY DEF IInv, StoreAudio, StartPool, Single
  <2>2. wpc[w] = "store" /\ wpc'[w] # "store"
    BY <2>1 DEF StoreAudio, WorkerFails, DeadlineExceeded, NextTurn, TypeOK, PoolOK
  <2>. QED  BY <2>1, <2>2 DEF NextBatch, workers
<1>2. /\ wpc[w] = "store" /\ pc \in {"send", "join"} /\ d \in Calls /\ Busy(w)
      /\ req \in Requests /\ e \in Backends /\ e \notin S3Backends /\ <<d, e>> \in Refs
  <2>1. wpc[w] = "store" /\ Busy(w) /\ pc \in {"send", "join"} /\ d \in Calls
    BY <1>1 DEF StoreAudio, Busy, WorkersInv, TypeOK, PoolOK
  <2>2. req \in Requests /\ e # DB
    BY <1>1, <2>1 DEF WorkersInv, TypeOK, ControlOK
  <2>3. e \in Backends /\ e \notin S3Backends
    BY <2>2, AudioMoveAssumption DEF ToFiles, RequestType
  <2>. QED  BY <2>1, <2>2, <2>3 DEF Refs
<1>3. /\ object' = [object EXCEPT ![<<d, e>>] = Content(w)]
      /\ cre' = [cre EXCEPT ![<<d, e>>] = @ + 1]
      /\ wpc' = [wpc EXCEPT ![w] = "send"] /\ UNCHANGED <<wcall, batch, pc, res, before, left>>
  BY <1>2, NoBackendFault DEF StoreAudio, CanRead, TimesOut, call, query
<1>4. cre[<<d, e>>] = 0
  <2>1. ToStore(<<d, e>>[1])
    BY <1>2 DEF ToStore
  <2>2. cre[<<d, e>>] \in Nat /\ ~(cre[<<d, e>>] > 0)
    BY <1>1, <1>2, <2>1 DEF TypeOK, TrackerOK, TakenOK
  <2>. QED  BY <2>2
<1>5. \A r \in Refs :
        IF r = <<d, e>> THEN cre'[r] = 1 /\ object'[r] # "none"
                        ELSE cre'[r] = cre[r] /\ object'[r] = object[r]
  <2>1. Content(w) # "none"
    BY DEF Content
  <2>2. cre'[<<d, e>>] = 1 /\ object'[<<d, e>>] # "none"
    BY <1>1, <1>2, <1>3, <1>4, <2>1 DEF TypeOK, TrackerOK, StoresOK
  <2>3. ASSUME NEW r \in Refs, r # <<d, e>>
        PROVE  cre'[r] = cre[r] /\ object'[r] = object[r]
    BY <1>1, <1>3, <2>3 DEF TypeOK, TrackerOK, StoresOK
  <2>. QED  BY <2>2, <2>3
<1>6. ASSUME NEW c, c = d PROVE ~ToStore(c)'
  BY <1>1, <1>2, <1>3, <1>6 DEF ToStore, OnceInv, InTx, Busy, TypeOK, PoolOK
<1>7. \A c : ToStore(c)' => ToStore(c)
  BY <1>1, ToStoreNext
<1>8. Running /\ Running' /\ res' = "none"
  BY <1>2, <1>3 DEF Running, TakenOK
<1>9. ASSUME NEW r \in Refs
      PROVE  /\ cre'[r] <= 1
             /\ cre'[r] > 0 => ~ToStore(r[1])' /\ object'[r] # "none"
             /\ object'[r] = before'.object[r] \/ cre'[r] > 0
  <2>1. CASE r = <<d, e>>
    <3>1. r[1] = d
      BY <2>1
    <3>. QED  BY <1>5, <1>6, <2>1, <3>1
  <2>2. CASE r # <<d, e>>
    BY <1>3, <1>5, <1>7, <1>8, <2>2 DEF TakenOK
  <2>. QED  BY <2>1, <2>2
<1>. QED  BY <1>8, <1>9 DEF TakenOK

\* What the rollback deletes of a backend of files.
LEMMA DoomedRefs ==
    ASSUME pc = "rollback", NEW b \in Backends, NEW c \in Calls
    PROVE  c \in Doomed(b) <=> cre[<<c, b>>] > 0
BY Zenon DEF Doomed

\* It does not stop early at an object that is there and listed once.
LEMMA NoStop ==
    ASSUME ToFiles, pc = "rollback", NEW b \in Backends, NEW c \in Calls, NEW gone,
           object[<<c, b>>] # "none", ~(cre[<<c, b>>] > 1)
    PROVE  ~StopsAt(b, c, gone) \/ b \in S3Backends
<1>1. object[c, b] # "none" /\ ~(cre[c, b] > 1) /\ ~Fault("del")
  BY Zenon DEF ToFiles, Fault
<1>. QED  BY <1>1, Zenon DEF StopsAt

\* A bulk delete of the rollback removes every object it is called for.
LEMMA TakenDelete ==
    ASSUME ToFiles, IInv, TakenOK,
           NEW b \in Backends, DeleteBulk(b)
    PROVE  TakenOK'
<1>1. /\ pc = "rollback" /\ b \in left /\ left' = left \ {b} /\ req \in Requests /\ TypeOK
      /\ UNCHANGED <<pc, cre, before, res, batch, wpc, wcall>> /\ ~Running
  BY DEF DeleteBulk, IInv, TrackerInv, call, query, tracker, workers, TypeOK, ControlOK, Running
<1>2. PICK gone \in SUBSET Doomed(b) :
        /\ gone = Doomed(b) \/ \E c \in Doomed(b) : StopsAt(b, c, gone)
        /\ object' = [r \in Refs |-> IF r[2] = b /\ r[1] \in gone THEN "none" ELSE object[r]]
  BY DEF DeleteBulk
<1>3. gone = Doomed(b)
  <2> SUFFICES ASSUME NEW c \in Doomed(b), StopsAt(b, c, gone) PROVE FALSE
    BY <1>2
  <2>1. c \in Calls /\ <<c, b>> \in Refs
    BY DEF Doomed, Refs
  <2>2. cre[<<c, b>>] > 0
    BY <1>1, <2>1, DoomedRefs
  <2>3. object[<<c, b>>] # "none" /\ ~(cre[<<c, b>>] > 1)
    BY <1>1, <2>1, <2>2 DEF TakenOK, TypeOK, TrackerOK
  <2>4. b = req.dest
    <3>1. cre[c, b] > 0
      BY <2>2, Zenon
    <3>. QED  BY <2>1, <3>1, Zenon DEF IInv, TrackerInv
  <2>. QED  BY <1>1, <2>1, <2>3, <2>4, NoStop DEF ToFiles
<1>4. \A r \in Refs : /\ object'[r] \in {"none", object[r]}
                      /\ r[2] # b => object'[r] = object[r]
                      /\ r[2] = b /\ cre[r] > 0 => object'[r] = "none"
  <2> SUFFICES ASSUME NEW r \in Refs
               PROVE  /\ object'[r] \in {"none", object[r]}
                      /\ r[2] # b => object'[r] = object[r]
                      /\ r[2] = b /\ cre[r] > 0 => object'[r] = "none"
    OBVIOUS
  <2>1. r[1] \in Calls /\ r = <<r[1], r[2]>>
    BY DEF Refs
  <2>2. r[2] = b /\ cre[r] > 0 => r[1] \in Doomed(b)
    BY <1>1, <2>1, DoomedRefs
  <2>. QED  BY <1>2, <1>3, <2>2
<1>5. \A c : ToStore(c)' <=> ToStore(c)
  BY <1>1 DEF ToStore
<1>6. ~Running'
  BY <1>1 DEF Running
<1>7. \A r \in Refs : /\ cre'[r] <= 1
                      /\ cre'[r] > 0 => ~ToStore(r[1])' /\ (object'[r] # "none" \/ r[2] \notin left')
  BY <1>1, <1>4, <1>5 DEF TakenOK
<1>8. res' = "err" =>
        \A r \in Refs : \/ object'[r] \in {"none", before'.object[r]}
                        \/ pc' = "rollback" /\ r[2] \in left' /\ cre'[r] > 0
  BY <1>1, <1>4 DEF TakenOK
<1>. QED  BY <1>1, <1>6, <1>7, <1>8 DEF TakenOK

\* A failure has every backend on its list where something was created.
LEMMA ToClean ==
    ASSUME Finish(TRUE), NEW r \in Refs, cre[r] > 0
    PROVE  r[2] \in left'
<1>1. PICK c \in Calls, b \in Backends : r = <<c, b>>
  BY DEF Refs
<1>2. cre[c, b] > 0 /\ r[2] = b
  BY <1>1, Zenon
<1>. QED  BY <1>2 DEF Finish


\* Where nothing is recorded and the objects are as they were found.
LEMMA TakenAfresh ==
    ASSUME cre' = NoRefs, UNCHANGED object, res' = "err" => pc' = "idle",
           \/ before'.object = object /\ (Running' => res' = "none")
           \/ TakenOK /\ before' = before /\ ~Running' /\ (res' = "err" => res = "err" /\ left = {})
    PROVE  TakenOK'
<1>1. \A r \in Refs : cre'[r] = 0
  BY DEF NoRefs
<1>. QED  BY <1>1 DEF TakenOK

\* While the move runs and nothing is stored.
LEMMA TakenRuns ==
    ASSUME req.tries = 0, TypeOK, TakenOK, [Next]_vars, Running, Running',
           UNCHANGED <<object, cre, before, res>>,
           StartPool \/ NextBatch => cre = NoRefs
    PROVE  TakenOK'
<1>1. res' = "none"
  BY DEF TakenOK
<1>2. CASE StartPool \/ NextBatch
  <2>1. \A r \in Refs : cre'[r] = 0
    BY <1>2 DEF NoRefs
  <2>. QED  BY <1>1, <2>1 DEF TakenOK
<1>3. CASE ~(StartPool \/ NextBatch)
  <2>1. \A c : ToStore(c)' => ToStore(c)
    BY <1>3, ToStoreNext
  <2>. QED  BY <1>1, <2>1 DEF TakenOK
<1>. QED  BY <1>2, <1>3

\* When its outcome is known.
LEMMA TakenFinish ==
    ASSUME req.tries = 0, TypeOK, TakenOK, [Next]_vars, Running, ~StartPool, ~NextBatch,
           Finish(TRUE) \/ Finish(FALSE), UNCHANGED <<object, cre, before>>
    PROVE  TakenOK'
<1>1. \A r \in Refs : /\ cre'[r] <= 1
                      /\ cre'[r] > 0 => ~ToStore(r[1])' /\ object'[r] # "none"
  BY ToStoreNext DEF TakenOK
<1>2. CASE Finish(TRUE)
  <2>1. pc' = "rollback" /\ ~Running'
    BY <1>2 DEF Finish, Running
  <2>2. \A r \in Refs : object[r] = before.object[r] \/ cre[r] > 0
    BY DEF TakenOK
  <2>3. \A r \in Refs : \/ object'[r] \in {"none", before'.object[r]}
                        \/ r[2] \in left' /\ cre'[r] > 0
    BY <1>2, <2>2, ToClean
  <2>. QED  BY <1>1, <2>1, <2>3 DEF TakenOK
<1>3. CASE Finish(FALSE)
  <2>1. res' = "ok" /\ ~Running'
    BY <1>3 DEF Finish, Running
  <2>. QED  BY <1>1, <2>1 DEF TakenOK
<1>. QED  BY <1>2, <1>3

LEMMA TakenNext ==
    ASSUME TxFaultsOnly, ToFiles, SteadyTags, IInv, QueryInv, FoundInv, OnceInv, TakenInv,
           [Next]_vars
    PROVE  TakenInv'
<1>0. TypeOK /\ (pc \in {"idle", "count"} => cre = NoRefs)
  BY DEF IInv, TrackerInv
<1>1. CASE \E r \in Requests : Begin(r) \/ Refuse(r)
  <2>1. cre' = NoRefs /\ object' = object /\ before'.object = object
    BY <1>0, <1>1 DEF Begin, Refuse, tracker, stores
  <2>2. /\ res' = "err" => pc' = "idle"
        /\ Running' => res' = "none"
    BY <1>1 DEF Begin, Refuse, Running
  <2>. QED  BY <2>1, <2>2, TakenAfresh DEF TakenInv
<1> SUFFICES ASSUME ~\E r \in Requests : Begin(r) \/ Refuse(r), Single' PROVE TakenOK'
  BY <1>1 DEF TakenInv
<1>2. Single /\ TakenOK /\ req.tries = 0
  BY SingleKeeps DEF TakenInv, Single
<1>3. CASE Crash \/ Unlock
  <2>1. cre' = NoRefs /\ object' = object /\ before' = before /\ pc' = "idle" /\ ~Running'
    BY <1>3 DEF Crash, Unlock, Quiet, stores, call, Running
  <2>2. res' = "err" => res = "err" /\ left = {}
    BY <1>3 DEF Crash, Unlock
  <2>. QED  BY <1>2, <2>1, <2>2, TakenAfresh
<1>4. CASE NothingToDo
  <2>1. Running /\ ~StartPool /\ ~NextBatch /\ UNCHANGED <<object, cre, before>>
    BY <1>4 DEF NothingToDo, Finish, StartPool, NextBatch, Running, stores, call, tracker
  <2>. QED  BY <1>0, <1>2, <1>4, <2>1, TakenFinish DEF NothingToDo
<1>5. CASE TxEnd
  <2>1. /\ Running /\ ~StartPool /\ ~NextBatch
        /\ UNCHANGED <<object, cre, before>> /\ moveErr \in BOOLEAN
    BY <1>0, <1>5 DEF TxEnd, StartPool, NextBatch, Running, call, tracker, TypeOK, ControlOK
  <2>2. Finish(moveErr) => Finish(TRUE) \/ Finish(FALSE)
    <3>1. CASE moveErr = TRUE
      BY <3>1
    <3>2. CASE moveErr = FALSE
      BY <3>2
    <3>. QED  BY <2>1, <3>1, <3>2
  <2>. QED  BY <1>0, <1>2, <1>5, <2>1, <2>2, TakenFinish DEF TxEnd
<1>6. CASE StartPool \/ NextBatch \/ CloseWork \/ Join \/ TxBegin \/ Cancel
  <2>1. Running /\ Running' /\ UNCHANGED <<object, cre, before, res>>
    BY <1>6
       DEF StartPool, NextBatch, CloseWork, Join, TxBegin, Cancel, Running, stores, call, tracker
  <2>2. StartPool => cre = NoRefs
    BY <1>0 DEF StartPool
  <2>3. NextBatch => cre = NoRefs
    BY <1>0, <1>2, <2>1, SingleFits, QueryBatch DEF Single, Fresh
  <2>. QED  BY <1>0, <1>2, <2>1, <2>2, <2>3, TakenRuns
<1>7. ASSUME NEW w \in Workers, SendRow(w) \/ GetAudio(w) \/ SendUpdate(w) \/ WorkerExit(w)
      PROVE  TakenOK'
  <2>1. wpc[w] # "exit" /\ UNCHANGED <<pc, object, cre, before, res>>
    BY <1>7 DEF SendRow, GetAudio, SendUpdate, WorkerExit, stores, call, tracker
  <2>2. pc \in {"send", "join"}
    BY <2>1 DEF IInv, WorkersInv
  <2>3. ~StartPool /\ (NextBatch => cre = NoRefs)
    BY <1>0, <1>2, <2>2, SingleFits, QueryBatch DEF Single, Fresh, Running, StartPool
  <2>. QED  BY <1>0, <1>2, <2>1, <2>2, <2>3, TakenRuns DEF Running
<1>8. ASSUME NEW w \in Workers, StoreAudio(w) PROVE TakenOK'
  BY <1>2, <1>8, TakenStore
<1>9. ASSUME NEW b \in Backends, DeleteBulk(b) PROVE TakenOK'
  BY <1>2, <1>9, TakenDelete
<1>10. CASE UNCHANGED vars
  <2>1. UNCHANGED <<pc, object, cre, before, res, left, batch, wpc, wcall>>
    BY <1>10 DEF vars
  <2>2. \A c : ToStore(c)' <=> ToStore(c)
    BY <2>1 DEF ToStore
  <2>. QED  BY <1>2, <2>1, <2>2 DEF TakenOK, Running
<1>11. ~\E c \in Calls : Retag(c)
  BY DEF SteadyTags, Retag, Fault
<1>. QED
  BY <1>3, <1>4, <1>5, <1>6, <1>7, <1>8, <1>9, <1>10, <1>11 DEF Next, MoveStep, WorkerStep

\* When a failed move to files or to the database is over, everything it
\* created is gone again, however far each worker was, with any number of
\* calls and workers: if what it was asked for fits a batch and it does not
\* try again, so that no row is taken twice, no bulk delete fails by itself
\* and users do not change the tags meanwhile.
THEOREM RollbackIsComplete ==
    ASSUME TxFaultsOnly, ToFiles, SteadyTags
    PROVE  Spec => []RollbackDeletesCreated
<1> DEFINE I == IInv /\ QueryInv /\ FoundInv /\ OnceInv /\ TakenInv
<1>1. Init => I
  BY IInvInit, QueryInit, FoundInit, OnceInit, TakenInit
<1>2. I /\ [Next]_vars => I'
  <2> SUFFICES ASSUME I, [Next]_vars PROVE I'
    OBVIOUS
  <2>1. IInv'
    BY IInvNext
  <2>2. QueryInv' /\ FoundInv' /\ OnceInv' /\ TakenInv'
    BY <2>1, QueryNext, FoundNext, OnceNext, TakenNext
  <2>. QED  BY <2>1, <2>2
<1>3. I => RollbackDeletesCreated
  BY DEF TakenInv, TakenOK, Single, RollbackDeletesCreated
<1>. QED  BY <1>1, <1>2, <1>3, PTL DEF Spec

=============================================================================
