----------------------------- MODULE AudioMove -----------------------------
(***************************************************************************)
(* MoveCallAudio of pkg/calls/callstore/move.go: the audio of the selected *)
(* calls is carried from one audio backend (or the database) to another by *)
(* a pool of workers.  The rows are updated in one database transaction,   *)
(* the objects are written as the workers go, and a refTracker remembers   *)
(* what to delete once the outcome is known.                               *)
(*                                                                         *)
(* Four kinds of process take steps: the goroutine that runs mover.do      *)
(* (pc), the workers (wpc), the goroutine that owns the transaction (txpc) *)
(* and, after do returned, the goroutine that runs Rollback or Commit      *)
(* (pc = "rollback" or "commit").  A rendezvous on one of the unbuffered   *)
(* channels is one action of both ends.                                    *)
(***************************************************************************)
EXTENDS Integers, FiniteSets

CONSTANTS
    Calls,       \* the calls of the database
    SweptCalls,  \* those whose row lives in swept_calls rather than calls
    Backends,    \* the configured audio backends, by name
    S3Backends,  \* those that heed the context (s3); the others are "fs"
    Workers,     \* the goroutines of the pool
    DateOf,      \* call_date of each call; 0 is the zero time, no bound
    BatchSize,   \* batchSize: the most rows one query of the loop returns
    MaxTries,    \* bound on MoveCallParams.Tries
    Requests,    \* the MoveCallParams callers pass, see RequestType
    Faults,      \* what the environment may do, see FaultKinds
    InitRows,    \* the rows a call may start with
    MaxMoves,    \* bound on the number of calls of MoveCallAudio
    DB,          \* DestBackend = nil: the destination is the database
    AnyBackend,  \* HasBackend = nil: no source backend is asked for
    None         \* no call, no update

\* What a blob column or an object holds: nothing, the call's audio, or
\* bytes that are not the call's audio (empty, or cut short).
Audio == {"none", "audio", "bad"}

Refs == Calls \X Backends

\* audio_ref as the set of backends it names, audio_blob as what it holds.
Row == [refs : SUBSET Backends, blob : Audio]

RequestType ==
    [dest : Backends \cup {DB}, has : Backends \cup {AnyBackend},
     copy : BOOLEAN, swept : {"both", "only", "no"}, dry : BOOLEAN,
     start : Nat, tries : 0..MaxTries]

FaultKinds ==
    {"query",     \* reading the selected rows fails part of the way
     "get",       \* reading an object fails
     "store",     \* writing an object fails, possibly after it was written
     "deadline",  \* an s3 request exceeds the backend's timeout
     "db",        \* the count, an UPDATE, a BEGIN or a COMMIT fails
     "ack",       \* a COMMIT is applied and its answer is lost
     "del",       \* a bulk delete fails part of the way
     "cancel",    \* the caller's context is cancelled
     "retag",     \* users change tags: calls cease or begin to match
     "nxbackend", \* the caller names a destination that is not configured
     "crash"}     \* the server stops and is started again

ASSUME AudioMoveAssumption ==
    /\ SweptCalls \subseteq Calls
    /\ S3Backends \subseteq Backends
    /\ IsFiniteSet(Calls) /\ IsFiniteSet(Workers)
    /\ DateOf \in [Calls -> Nat \ {0}] /\ BatchSize \in Nat \ {0}
    /\ MaxTries \in Nat /\ MaxMoves \in Nat
    /\ Requests \subseteq RequestType
    /\ Faults \subseteq FaultKinds
    /\ InitRows \subseteq
         {r \in Row : /\ r.blob # "bad"
                      /\ r.blob = "none" => r.refs # {}}
    /\ DB \notin Backends /\ AnyBackend \notin Backends /\ None \notin Calls
    /\ None \notin Row /\ None \notin Requests

VARIABLES
    row,        \* Calls -> Row: the committed rows
    object,     \* Refs -> Audio: the objects the backends hold
    tagged,     \* the calls whose talkgroup matches TagsAny and TagsNot
    maint,      \* store.maintInProgress is locked
    pc,         \* where MoveCallAudio is
    req,        \* its parameters
    batch,      \* rows the loop's query returned and the producer has not
                \* sent to a worker yet
    count,      \* rows counted beforehand, less the rows sent
    start,      \* dbPar.Start of the next query, or 0: no bound
    ctxDone,    \* the context of do is cancelled
    egErr,      \* a worker returned an error: the errgroup cancelled wctx
    moveErr,    \* err of do is not nil
    completed,  \* mover.completedRows
    wpc, wcall, wblob, wtry, werr,  \* the workers: place, row, ca.AudioBlob,
                                    \* i of the retry loop, err
    txpc,       \* where the goroutine with the transaction is
    pend,       \* Calls -> Row or None: updates not committed yet
    del, cre,   \* refTracker: how often a ref was queued / recorded
    left,       \* backends whose DeleteBulk is still to be called
    moves,      \* number of calls of MoveCallAudio so far
    res,        \* what the last one returned
    before      \* the rows and objects it found (for the properties only)

stores == <<row, object, tagged>>
query == <<batch, count, start>>
workers == <<wpc, wcall, wblob, wtry, werr>>
tracker == <<del, cre>>
call == <<req, moves, before>>
vars == <<row, object, tagged, maint, pc, req, batch, count, start, ctxDone,
          egErr, moveErr, completed, wpc, wcall, wblob, wtry, werr, txpc, pend, del, cre,
          left, moves, res, before>>

NoRefs == [r \in Refs |-> 0]
NoUpdates == [c \in Calls |-> None]

wctxDone == ctxDone \/ egErr
Fault(f) == f \in Faults

StoresOK ==
    /\ row \in [Calls -> Row]
    /\ object \in [Refs -> Audio]
    /\ tagged \subseteq Calls
    /\ before \in [row : [Calls -> Row], object : [Refs -> Audio]]

ControlOK ==
    /\ pc \in {"idle", "count", "send", "join", "txwait", "rollback",
               "commit"}
    /\ req \in Requests \cup {None}
    /\ pc # "idle" => req \in Requests
    /\ maint \in BOOLEAN /\ left \subseteq Backends
    /\ batch \subseteq Calls /\ count \in Int /\ start \in Nat
    /\ ctxDone \in BOOLEAN /\ egErr \in BOOLEAN /\ moveErr \in BOOLEAN
    /\ completed \in Nat /\ moves \in 0..MaxMoves
    /\ res \in {"none", "ok", "err", "crash"}

PoolOK ==
    /\ wpc \in [Workers -> {"recv", "get", "store", "send", "exit"}]
    /\ wcall \in [Workers -> Calls \cup {None}]
    /\ \A w \in Workers : wpc[w] \in {"get", "store", "send"}
                            => wcall[w] \in Calls
    /\ \A w \in Workers : wpc[w] # "exit" => req \in Requests
    /\ wblob \in [Workers -> Audio]
    /\ wtry \in [Workers -> 0..MaxTries]
    /\ werr \in [Workers -> BOOLEAN]

TxOK == txpc \in {"begin", "recv", "drain"} /\ pend \in [Calls -> Row \cup {None}]

TrackerOK == del \in [Refs -> Nat] /\ cre \in [Refs -> Nat]

TypeOK == StoresOK /\ ControlOK /\ PoolOK /\ TxOK /\ TrackerOK

Init ==
    /\ row \in [Calls -> InitRows]
    /\ \A c \in SweptCalls : row[c].refs = {}  \* DerefSweptCallAudios ran
    /\ object = [r \in Refs |-> IF r[2] \in row[r[1]].refs
                                  THEN "audio" ELSE "none"]
    /\ tagged = Calls
    /\ maint = FALSE /\ pc = "idle" /\ req = None
    /\ batch = {} /\ count = 0 /\ start = 0
    /\ ctxDone = FALSE /\ egErr = FALSE /\ moveErr = FALSE /\ completed = 0
    /\ wpc = [w \in Workers |-> "exit"] /\ wcall = [w \in Workers |-> None]
    /\ wblob = [w \in Workers |-> "none"] /\ wtry = [w \in Workers |-> 0]
    /\ werr = [w \in Workers |-> FALSE]
    /\ txpc = "drain" /\ pend = NoUpdates /\ del = NoRefs /\ cre = NoRefs
    /\ left = {} /\ moves = 0 /\ res = "none"
    /\ before = [row |-> row, object |-> object]

-----------------------------------------------------------------------------
(* MoveCallAudio up to the start of the pool.                              *)

\* What HasBackend, HasBlob, NotHasBackend and SweptCalls ask of a row.
Movable(r) ==
    {c \in Calls :
        /\ r.swept = "only" => c \in SweptCalls
        /\ r.swept = "no" => c \notin SweptCalls
        /\ r.has # AnyBackend => r.has \in row[c].refs
        /\ r.dest = DB => row[c].blob = "none"
        /\ r.dest # DB => r.dest \notin row[c].refs}

\* The WHERE clause of GetCallAudio, with Start = from.
Matching(r, from) == {c \in Movable(r) \cap tagged : from <= DateOf[c]}

\* The rows GetCallAudioCount counts.
Selected(r) == Matching(r, r.start)

\* Variant: ORDER BY call_date is dropped.
AnyRows(S) == {F \in SUBSET S : /\ F = S \/ Cardinality(F) = BatchSize
                                /\ Cardinality(F) <= BatchSize}

\* ORDER BY call_date FETCH NEXT BatchSize: the first rows of S by date.
FirstRows(S) ==
    {F \in SUBSET S :
        /\ F = S \/ Cardinality(F) = BatchSize
        /\ Cardinality(F) <= BatchSize
        /\ \A c \in F, d \in S \ F : DateOf[c] <= DateOf[d]}

\* TryLock succeeds and the parameters are accepted.
Begin(r) ==
    /\ pc = "idle" /\ ~maint /\ moves < MaxMoves
    /\ r.has # r.dest
    /\ maint' = TRUE /\ pc' = "count" /\ req' = r /\ moves' = moves + 1
    /\ before' = [row |-> row, object |-> object]
    /\ completed' = 0 /\ moveErr' = FALSE /\ ctxDone' = FALSE
    /\ egErr' = FALSE /\ res' = "none"
    /\ UNCHANGED <<stores, query, workers, txpc, pend, tracker, left>>

\* The parameters are refused: ErrNXBackend, or ErrSrcDestSame.  Both
\* returns come after TryLock and before anything that would unlock.
Refuse(r) ==
    /\ pc = "idle" /\ ~maint /\ moves < MaxMoves
    /\ (Fault("nxbackend") \/ r.has = r.dest)
    /\ maint' = TRUE /\ moves' = moves + 1 /\ res' = "err"
    /\ before' = [row |-> row, object |-> object]
    /\ UNCHANGED <<stores, pc, req, query, ctxDone, egErr, moveErr, completed,
                   workers, txpc, pend, tracker, left>>

\* Variant: the outcomes are swapped, a success is rolled back.
FinishSwapped(failed) ==
    /\ moveErr' = failed
    /\ pc' = IF failed THEN "commit" ELSE "rollback"
    /\ res' = IF failed THEN "err" ELSE "ok"
    /\ left' = {b \in Backends : \E c \in Calls :
                  IF failed THEN del[c, b] > 0 ELSE cre[c, b] > 0}

\* Variant: a failure is not rolled back.
FinishNoRollback(failed) ==
    /\ moveErr' = failed
    /\ pc' = "commit"
    /\ res' = IF failed THEN "err" ELSE "ok"
    /\ left' = {b \in Backends : \E c \in Calls : del[c, b] > 0}

\* do returned: a goroutine runs Rollback or Commit, MoveCallAudio returns.
Finish(failed) ==
    /\ moveErr' = failed
    /\ pc' = IF failed THEN "rollback" ELSE "commit"
    /\ res' = IF failed THEN "err" ELSE "ok"
    /\ left' = {b \in Backends : \E c \in Calls :
                  IF failed THEN cre[c, b] > 0 ELSE del[c, b] > 0}

\* GetCallAudioCount fails, or there is nothing to do.
NothingToDo ==
    /\ pc = "count"
    /\ \/ (Fault("db") \/ ctxDone) /\ Finish(TRUE)
       \/ (Selected(req) = {} \/ req.dry) /\ Finish(FALSE)
    /\ UNCHANGED <<stores, maint, call, query, ctxDone, egErr, completed,
                   workers, txpc, pend, tracker>>

\* There are rows: the pool and the transaction's goroutine are started.
StartPool ==
    /\ pc = "count" /\ ~req.dry
    /\ Selected(req) # {}
    /\ pc' = "send"
    /\ batch' = {} /\ count' = Cardinality(Selected(req)) /\ start' = req.start
    /\ wpc' = [w \in Workers |-> "recv"] /\ txpc' = "begin"
    /\ UNCHANGED <<stores, maint, call, ctxDone, egErr, moveErr, completed,
                   wcall, wblob, wtry, werr, pend, tracker, left, res>>

-----------------------------------------------------------------------------
(* The producer: the loop of do over the batches and the callback of       *)
(* GetCallAudioCb.                                                         *)

\* The next query of the loop, outside the transaction: it sees the rows as
\* they are committed, the last one of the batch before included.
NextBatch ==
    /\ pc = "send" /\ batch = {} /\ count > 0 /\ ~wctxDone
    /\ batch' \in FirstRows(Matching(req, start))
    /\ start' = 0                       \* var last time.Time
    /\ UNCHANGED <<stores, maint, pc, call, count, ctxDone, egErr, moveErr,
                   completed, workers, txpc, pend, tracker, left, res>>

\* workCh <- row, received by worker w.
SendRow(w) ==
    /\ pc = "send" /\ wpc[w] = "recv"
    /\ \E c \in batch :
          /\ \A d \in batch : DateOf[c] <= DateOf[d]
          /\ batch' = batch \ {c} /\ count' = count - 1 /\ start' = DateOf[c]
          /\ wcall' = [wcall EXCEPT ![w] = c]
    /\ wpc' = [wpc EXCEPT ![w] = "get"]
    /\ wtry' = [wtry EXCEPT ![w] = 0]
    /\ UNCHANGED <<stores, maint, pc, call, ctxDone, egErr, moveErr,
                   completed, wblob, werr, txpc, pend, tracker, left, res>>

\* Variant: the loop ends one row early.
CloseWorkEarly ==
    /\ pc = "send"
    /\ \/ Cardinality(batch) <= 1 /\ count <= 1 /\ moveErr' = FALSE
       \/ (Fault("query") \/ wctxDone) /\ moveErr' = TRUE
    /\ pc' = "join" /\ batch' = {}
    /\ UNCHANGED <<stores, maint, call, count, start, ctxDone, egErr,
                   completed, workers, txpc, pend, tracker, left, res>>

\* close(workCh): a batch is sent and as many rows as were counted, or the
\* query failed, or wctx is done.
CloseWork ==
    /\ pc = "send"
    /\ \/ batch = {} /\ count <= 0 /\ moveErr' = FALSE
       \/ (Fault("query") \/ wctxDone) /\ moveErr' = TRUE
    /\ pc' = "join" /\ batch' = {}
    /\ UNCHANGED <<stores, maint, call, count, start, ctxDone, egErr,
                   completed, workers, txpc, pend, tracker, left, res>>

\* The deferred function: eg.Wait, then close(setCallAudioChan).
Join ==
    /\ pc = "join"
    /\ \A w \in Workers : wpc[w] = "exit"
    /\ moveErr' = (moveErr \/ egErr)
    /\ pc' = "txwait"
    /\ UNCHANGED <<stores, maint, call, query, ctxDone, egErr, completed,
                   workers, txpc, pend, tracker, left, res>>

-----------------------------------------------------------------------------
(* The workers: moveCallAudio, moveWorker and the loop around them.        *)

\* opts.audioRefOut after CallAudio: UnmarshalJSON replaces the local map
\* refm by a new one, so the caller's map stays as empty as it was made.
AudioRefOut(c) == {}

\* CallAudio tries the refs in any order until one of them answers.
CanRead(b) == ~(b \in S3Backends /\ wctxDone)
Unreadable(c, b) == CanRead(b) /\ (object[c, b] = "none" \/ Fault("get"))
TimesOut(b) == CanRead(b) /\ b \in S3Backends /\ Fault("deadline")

\* The audio CallAudio may return without an error.  A cancelled s3 read
\* ends it with no error and with what was read so far, if anything.
Fetched(c) ==
    {object[c, b] : b \in {x \in row[c].refs :
                             CanRead(x) /\ object[c, x] # "none"}}
      \cup (IF wctxDone /\ row[c].refs \cap S3Backends # {}
              THEN {"none", "bad"} ELSE {})

AllFail(c) == \A b \in row[c].refs : Unreadable(c, b) \/ TimesOut(b)

\* An error other than DeadlineExceeded ends the worker and cancels wctx.
WorkerFails(w) ==
    /\ wpc' = [wpc EXCEPT ![w] = "exit"]
    /\ wcall' = [wcall EXCEPT ![w] = None]
    /\ werr' = [werr EXCEPT ![w] = TRUE]
    /\ egErr' = TRUE
    /\ UNCHANGED wtry

\* The end of one turn of the retry loop.  The break of the success case
\* leaves the switch, not the loop, so a turn follows whenever one is left.
NextTurn(w) ==
    /\ IF wtry[w] < req.tries
         THEN /\ wtry' = [wtry EXCEPT ![w] = @ + 1]
              /\ wpc' = [wpc EXCEPT ![w] = "get"]
              /\ UNCHANGED wcall
         ELSE /\ wpc' = [wpc EXCEPT ![w] = "recv"]
              /\ wcall' = [wcall EXCEPT ![w] = None]
              /\ UNCHANGED wtry
    /\ UNCHANGED egErr

DeadlineExceeded(w) == NextTurn(w) /\ werr' = [werr EXCEPT ![w] = TRUE]

FromBlob(c) == row[c].blob # "none"

\* What moveCallAudio does once it holds the audio: queue the old refs.
HaveAudio(w, v) ==
    LET c == wcall[w] IN
    /\ wblob' = [wblob EXCEPT ![w] = v]
    /\ wpc' = [wpc EXCEPT ![w] = IF req.dest = DB THEN "send" ELSE "store"]
    /\ del' = IF req.copy \/ FromBlob(c) THEN del
              ELSE [r \in Refs |-> IF r[1] = c /\ r[2] \in AudioRefOut(c)
                                     THEN del[r] + 1 ELSE del[r]]
    /\ UNCHANGED <<wcall, wtry, werr, egErr>>

GetAudio(w) ==
    /\ wpc[w] = "get"
    /\ LET c == wcall[w] IN
       \/ /\ FromBlob(c) /\ req.dest # DB
          /\ HaveAudio(w, row[c].blob)
       \/ /\ ~FromBlob(c)
          /\ \E v \in Fetched(c) : HaveAudio(w, v)
       \/ /\ IF FromBlob(c)
               THEN req.dest = DB        \* already in db
               ELSE /\ AllFail(c)        \* no ref, or the last error
                    /\ row[c].refs # {} =>
                         \E b \in row[c].refs : Unreadable(c, b)
          /\ WorkerFails(w)
          /\ UNCHANGED <<wblob, del>>
       \/ /\ ~FromBlob(c) /\ AllFail(c)
          /\ \E b \in row[c].refs : TimesOut(b)
          /\ DeadlineExceeded(w)
          /\ UNCHANGED <<wblob, del>>
    /\ UNCHANGED <<stores, maint, pc, call, query, ctxDone, moveErr,
                   completed, txpc, pend, cre, left, res>>

\* What Store leaves in the destination when it succeeds.
Content(w) == IF wblob[w] = "audio" THEN "audio" ELSE "bad"

\* A failed write: nothing was written, or (s3) the answer was lost, or (fs)
\* the file was cut short.
Remains(c, w) ==
    {object[c, req.dest], IF req.dest \in S3Backends THEN Content(w) ELSE "bad"}

\* m.dst.Store, and refs.Created when it succeeds.
StoreAudio(w) ==
    /\ wpc[w] = "store"
    /\ LET c == wcall[w]  b == req.dest IN
       \/ /\ CanRead(b)
          /\ object' = [object EXCEPT ![<<c, b>>] = Content(w)]
          /\ cre' = [cre EXCEPT ![<<c, b>>] = @ + 1]
          /\ wpc' = [wpc EXCEPT ![w] = "send"]
          /\ UNCHANGED <<wcall, wtry, werr, egErr>>
       \/ /\ Fault("store") \/ ~CanRead(b)
          /\ \E v \in Remains(c, w) : object' = [object EXCEPT ![<<c, b>>] = v]
          /\ WorkerFails(w)
          /\ UNCHANGED cre
       \/ /\ TimesOut(b)
          /\ \E v \in Remains(c, w) : object' = [object EXCEPT ![<<c, b>>] = v]
          /\ DeadlineExceeded(w)
          /\ UNCHANGED cre
    /\ UNCHANGED <<row, tagged, maint, pc, call, query, ctxDone, moveErr, completed,
                   wblob, txpc, pend, del, left, res>>

\* Variant: the new reference is not recorded in the row.
NewRowNoRef(w) ==
    [refs |-> {}, blob |-> IF req.dest = DB THEN wblob[w] ELSE "none"]

\* The row SetCallAudio writes for worker w: audioRefOut was cleared unless
\* this is a copy, and the blob is kept if it is the destination or a copy's
\* source.
NewRow(w) ==
    LET c == wcall[w]
        kept == IF req.copy /\ ~FromBlob(c) THEN AudioRefOut(c) ELSE {}
    IN  [refs |-> IF req.dest = DB THEN kept ELSE kept \cup {req.dest},
         blob |-> IF req.dest = DB \/ (req.copy /\ FromBlob(c))
                    THEN wblob[w] ELSE "none"]

\* tx.SetCallAudio: it updates the table calls, where a swept call is not.
TxUpdates(w) ==
    /\ txpc = "recv" /\ ~ctxDone
    /\ pend' = IF wcall[w] \in SweptCalls THEN pend
               ELSE [pend EXCEPT ![wcall[w]] = NewRow(w)]
    /\ UNCHANGED <<txpc, ctxDone>>

\* The update fails: the transaction is abandoned and ctx is cancelled.
TxFails ==
    /\ txpc = "recv" /\ (Fault("db") \/ ctxDone)
    /\ ctxDone' = TRUE /\ txpc' = "drain" /\ pend' = NoUpdates

\* The channel is drained for the workers' sake.
TxDrains == txpc = "drain" /\ UNCHANGED <<txpc, ctxDone, pend>>

\* Variant: nobody drains the channel.
TxReceivesNoDrain(w) == TxUpdates(w) \/ TxFails

TxReceives(w) == TxUpdates(w) \/ TxFails \/ TxDrains

\* scaCh <- request, received by the goroutine with the transaction.
SendUpdate(w) ==
    /\ wpc[w] = "send"
    /\ TxReceives(w)
    /\ completed' = completed + 1
    /\ werr' = [werr EXCEPT ![w] = FALSE]
    /\ NextTurn(w)
    /\ UNCHANGED <<stores, maint, pc, call, query, moveErr, wblob, tracker,
                   left, res>>

\* workCh is closed: the worker returns the err its last row left behind.
WorkerExit(w) ==
    /\ wpc[w] = "recv" /\ pc # "send"
    /\ wpc' = [wpc EXCEPT ![w] = "exit"]
    /\ egErr' = (egErr \/ werr[w])
    /\ UNCHANGED <<stores, maint, pc, call, query, ctxDone, moveErr, completed,
                   wcall, wblob, wtry, werr, txpc, pend, tracker, left, res>>

-----------------------------------------------------------------------------
(* The goroutine with the transaction: InTx in do.                         *)

TxBegin ==
    /\ pc \in {"send", "join", "txwait"} /\ txpc = "begin"
    /\ \/ txpc' = "recv" /\ ~ctxDone
       \/ txpc' = "drain" /\ (Fault("db") \/ ctxDone)
    /\ UNCHANGED <<stores, maint, pc, call, query, ctxDone, egErr, moveErr,
                   completed, workers, pend, tracker, left, res>>

Committed == [c \in Calls |-> IF pend[c] = None THEN row[c] ELSE pend[c]]

\* setCallAudioChan is closed: COMMIT, unless an update failed before.  The
\* errors of the workers do not reach the transaction.
TxEnd ==
    /\ pc = "txwait" /\ txpc # "begin"
    /\ \/ /\ txpc = "recv" /\ ~ctxDone
          /\ row' = Committed /\ Finish(moveErr)
       \/ /\ txpc = "recv" /\ Fault("ack")
          /\ row' = Committed /\ Finish(TRUE)
       \/ /\ txpc = "drain" \/ Fault("db") \/ ctxDone
          /\ row' = row /\ Finish(TRUE)
    /\ pend' = NoUpdates /\ txpc' = "drain"
    /\ UNCHANGED <<object, tagged, maint, call, query, ctxDone, egErr, completed,
                   workers, tracker>>

-----------------------------------------------------------------------------
(* After do: Rollback or Commit of the refTracker, then the unlock.        *)

\* The refs of backend b the tracker deletes.
Doomed(b) ==
    {c \in Calls : IF pc = "rollback" THEN cre[c, b] > 0 ELSE del[c, b] > 0}

\* DeleteBulk may stop at ref c with the refs of gone deleted.  An fs backend
\* stops at the first file it cannot remove, and a ref that is listed twice
\* is missing the second time; s3 does not mind a missing object.
StopsAt(b, c, gone) ==
    \/ Fault("del")
    \/ b \notin S3Backends /\ object[c, b] = "none"
    \/ /\ b \notin S3Backends /\ c \in gone
       /\ (IF pc = "rollback" THEN cre[c, b] ELSE del[c, b]) > 1

\* b.DeleteBulk.  Its error is collected and the next backend is called.
DeleteBulk(b) ==
    /\ pc \in {"rollback", "commit"} /\ b \in left
    /\ left' = left \ {b}
    /\ \E gone \in SUBSET Doomed(b) :
          /\ gone = Doomed(b) \/ \E c \in Doomed(b) : StopsAt(b, c, gone)
          /\ object' = [r \in Refs |-> IF r[2] = b /\ r[1] \in gone
                                         THEN "none" ELSE object[r]]
    /\ UNCHANGED <<row, tagged, maint, pc, call, query, ctxDone, egErr, moveErr,
                   completed, workers, txpc, pend, tracker, res>>

\* The state of a server in which no move runs.
Quiet ==
    /\ pc' = "idle" /\ maint' = FALSE
    /\ batch' = {} /\ count' = 0 /\ start' = 0 /\ left' = {} /\ ctxDone' = FALSE /\ egErr' = FALSE
    /\ moveErr' = FALSE
    /\ wpc' = [w \in Workers |-> "exit"] /\ wcall' = [w \in Workers |-> None]
    /\ wblob' = [w \in Workers |-> "none"] /\ wtry' = [w \in Workers |-> 0]
    /\ werr' = [w \in Workers |-> FALSE]
    /\ txpc' = "drain" /\ pend' = NoUpdates /\ del' = NoRefs /\ cre' = NoRefs

\* The deferred maintInProgress.Unlock.
Unlock ==
    /\ pc \in {"rollback", "commit"} /\ left = {}
    /\ Quiet
    /\ UNCHANGED <<stores, call, completed, res>>

-----------------------------------------------------------------------------
(* The environment.                                                        *)

\* The caller goes away: its context, and with it ctx and wctx, is cancelled.
\* The cleanup runs WithoutCancel.
Cancel ==
    /\ Fault("cancel") /\ pc \in {"count", "send", "join", "txwait"}
    /\ ~ctxDone /\ ctxDone' = TRUE
    /\ UNCHANGED <<stores, maint, pc, call, query, egErr, moveErr, completed,
                   workers, txpc, pend, tracker, left, res>>

\* The process dies: the transaction is rolled back by the database, the
\* tracker (which has no journal) and the lock are forgotten.
Crash ==
    /\ Fault("crash") /\ maint
    /\ Quiet
    /\ res' = "crash"
    /\ UNCHANGED <<stores, call, completed>>

\* A user retags the talkgroup of c, which the request's tags then match or
\* no longer match.  Only the count and the queries of the loop look at it.
Retag(c) ==
    /\ Fault("retag") /\ pc \in {"count", "send"}
    /\ tagged' = IF c \in tagged THEN tagged \ {c} ELSE tagged \cup {c}
    /\ UNCHANGED <<row, object, maint, pc, call, query, ctxDone, egErr, moveErr,
                   completed, workers, txpc, pend, tracker, left, res>>

WorkerStep(w) ==
    GetAudio(w) \/ StoreAudio(w) \/ SendUpdate(w) \/ WorkerExit(w)

MoveStep ==
    \/ NothingToDo \/ StartPool \/ NextBatch \/ CloseWork \/ Join
    \/ TxBegin \/ TxEnd \/ Unlock
    \/ \E w \in Workers : SendRow(w) \/ WorkerStep(w)
    \/ \E b \in Backends : DeleteBulk(b)

Next ==
    \/ \E r \in Requests : Begin(r) \/ Refuse(r)
    \/ MoveStep
    \/ \E c \in Calls : Retag(c)
    \/ Cancel \/ Crash

Spec == Init /\ [][Next]_vars

\* The goroutines of a move that has begun are scheduled: whenever one of
\* them can take a step, one of them does.  Callers, faults and crashes are
\* never owed.
FairSpec == Spec /\ WF_vars(MoveStep)

-----------------------------------------------------------------------------
(* Properties.                                                             *)

\* A row names an object only if the backend holds the call's audio there:
\* no reader of a committed row, at any moment of a move, its cleanup or a
\* restart, finds a dangling reference, and no call is left without audio.
Sound(c, r) ==
    /\ \A b \in r.refs : object[c, b] = "audio"
    /\ r.blob # "bad"
    /\ r.refs = {} => r.blob = "audio"

NoDanglingRefs == \A c \in Calls : Sound(c, row[c])

\* What the request asked for of the rows it found, and what has changed.
Asked ==
    {c \in Calls \cap tagged :
        /\ req.swept = "only" => c \in SweptCalls
        /\ req.swept = "no" => c \notin SweptCalls
        /\ req.has # AnyBackend => req.has \in before.row[c].refs
        /\ req.dest = DB => before.row[c].blob = "none"
        /\ req.dest # DB => req.dest \notin before.row[c].refs
        /\ req.start <= DateOf[c]}

Moved == {c \in Calls : row[c] # before.row[c]}

\* The first query returned all of it: no row is taken twice.
InOneBatch == Cardinality(Asked) <= BatchSize

\* Once the rollback of a failed move is over no object it created is left,
\* if the move took no row twice: its selection fits a batch, and it does
\* not try again.
RollbackDeletesCreated ==
    pc = "idle" /\ res = "err" /\ req # None /\ InOneBatch /\ req.tries = 0 =>
      \A r \in Refs : object[r] \in {"none", before.object[r]}

Reached(c) ==
    IF req.dest = DB THEN row[c].blob = "audio" ELSE req.dest \in row[c].refs

\* A move that reported success changed only rows it was asked for, and each
\* is in the destination.  The rows it left are no older than those it
\* carried, and there are none if the selection fits a batch.
SuccessMovesAll ==
    pc = "idle" /\ res = "ok" /\ ~req.dry =>
      /\ \A c \in Moved : c \in Asked /\ Reached(c)
      /\ \A c \in Moved, d \in Asked \ Moved : DateOf[c] <= DateOf[d]
      /\ InOneBatch => Moved = Asked

\* The number returned is the number of rows moved if the move took no row
\* twice.  Otherwise it is never less than the number of rows asked for,
\* and so may be more than the number of rows moved.
CountIsRowsMoved ==
    pc = "idle" /\ res = "ok" /\ ~req.dry =>
      /\ Cardinality(Asked) <= completed
      /\ InOneBatch /\ req.tries = 0 => completed = Cardinality(Moved)

\* A query of the loop returns a row, so that the loop goes on to its end
\* and never begins again without a bound on the date.
QueryFindsRows ==
    pc = "send" /\ batch = {} /\ count > 0 => Matching(req, start) # {}

\* A finished move that is not a copy leaves no object its row forgot.
OldAudioCleared ==
    pc = "idle" /\ res = "ok" /\ ~req.copy =>
      \A c \in Calls, b \in Backends :
         b \in before.row[c].refs \ row[c].refs => object[c, b] = "none"

\* The maintenance lock is held only while a move (or its cleanup) runs.
LockMeansMaintenance == maint => pc # "idle"

\* To a reader of the table calls a move is one step that carries rows as
\* asked, or no step at all: MoveContract, with the request active until the
\* transaction has ended.
Contract == INSTANCE MoveContract
              WITH Calls <- Calls \ SweptCalls,
                   row <- [c \in Calls \ SweptCalls |-> row[c]],
                   active <- IF pc \in {"count", "send", "join", "txwait"}
                               THEN req ELSE None,
                   outcome <- res
MoveIsAtomic == Contract!Spec

\* A move ends and gives the lock back.
MoveEnds == pc # "idle" ~> ~maint

-----------------------------------------------------------------------------
(* Why no reference dangles while Faults has no fault of a backend, of the *)
(* query or of the answer to COMMIT: an inductive invariant.               *)

Running == pc \in {"count", "send", "join", "txwait"}
Busy(w) == wpc[w] \in {"get", "store", "send"}

\* An error before the transaction has ended comes from the cancelled ctx:
\* then nothing is committed.
CancelledInv ==
    /\ pc = "idle" => ~ctxDone
    /\ egErr => ctxDone
    /\ \A w \in Workers : werr[w] => ctxDone
    /\ Running /\ moveErr => ctxDone

\* A worker has a selected row, the audio it read unless ctx is cancelled,
\* and what it stored is in the destination when it sends the update.
WorkersInv ==
    /\ pc \notin {"send", "join"} => \A w \in Workers : wpc[w] = "exit"
    /\ pc = "send" => batch \subseteq Movable(req)
    /\ \A w \in Workers :
          /\ Busy(w) => wcall[w] \in Movable(req)
          /\ wpc[w] = "store" => req.dest # DB
          /\ wpc[w] \in {"store", "send"} /\ ~ctxDone => wblob[w] = "audio"
          /\ wpc[w] = "send" /\ ~ctxDone /\ req.dest # DB =>
               object[wcall[w], req.dest] = "audio"

\* The rows of an open transaction that can still commit are sound.
PendingInv ==
    /\ pc \notin {"send", "join", "txwait"} => pend = NoUpdates
    /\ ~ctxDone => \A c \in Calls : pend[c] # None => Sound(c, pend[c])

\* What a rollback deletes is named by no row, a commit deletes nothing.
TrackerInv ==
    /\ del = NoRefs
    /\ \A c \in Calls, b \in Backends :
          cre[c, b] > 0 =>
            b = req.dest /\ (pc # "commit" => b \notin row[c].refs)
    /\ pc = "commit" => left = {}
    /\ pc \in {"idle", "count"} => cre = NoRefs

IInv == /\ TypeOK /\ NoDanglingRefs
        /\ CancelledInv /\ WorkersInv /\ PendingInv /\ TrackerInv
=============================================================================
