----------------------------- MODULE CallIngest -----------------------------
(***************************************************************************)
(* How a call gets into the store (pkg/pipeline, AddCall of callstore),    *)
(* and how fsck checks what is there (Fsck of callstore).                  *)
(*                                                                         *)
(* The audio goes to the first backend of the ingest list that takes it,   *)
(* or into the row; the row follows in a transaction of its own.  A row of *)
(* an unknown talkgroup is refused once, then the talkgroup is learned and *)
(* the row inserted again.  When that fails the object is deleted again.   *)
(* EmitCall holds the lock of the sinks meanwhile: calls are ingested one  *)
(* at a time.  A relay, another sink, has the call at the same time; when  *)
(* it is required and fails, the context of the store is cancelled.        *)
(*                                                                         *)
(* Fsck lists a backend, directory after directory, and then marks the     *)
(* rows that name the backend and were not listed.                         *)
(***************************************************************************)
EXTENDS Integers, Sequences, FiniteSets

CONSTANTS
    Calls,      \* the calls that are uploaded, each once
    TGOf,       \* Calls -> the talkgroup
    Known,      \* the talkgroups known at the start
    Backends,   \* the audio backends
    Ingest,     \* the names of the backends with "ingest", in order
    Heeds,      \* the backends whose operations end with the context (s3)
    Accepts,    \* Backends -> the calls its filter passes
    Configs,    \* the configurations: onError, for each backend "next",
                \* "fail" or "db", and onExhaust, "fail" or "db"
    Relay,      \* "none", "optional" or "required"
    Dirs,       \* Calls -> the directory of its object, in listing order
    MaxDir,     \* the last directory
    Admins,     \* whether users add and delete talkgroups
    MaxFscks,   \* bound on the number of fscks
    Faults,     \* what may fail, see FaultKinds
    MaxFaults,  \* bound on the number of failures
    None

FaultKinds ==
    {"store",       \* a backend cannot store an object
     "storelost",   \* it stores the object and reports an error
     "sql",         \* a statement or COMMIT fails
     "commitlost",  \* COMMIT is executed and reported as failed
     "learn",       \* the talkgroup cannot be learned
     "delete",      \* the object cannot be deleted
     "relay",       \* the relay fails
     "crash",       \* the server stops
     "lose",        \* an object vanishes from its backend
     "list",        \* a listing ends with an error
     "unreadable"}  \* a directory cannot be read

ASSUME CallIngestAssumption ==
    /\ Ingest \in Seq(Backends) /\ Heeds \subseteq Backends
    /\ Accepts \in [Backends -> SUBSET Calls]
    /\ Configs \subseteq [onError : [Backends -> {"next", "fail", "db"}],
                         onExhaust : {"fail", "db"}]
    /\ Relay \in {"none", "optional", "required"}
    /\ MaxDir \in Nat /\ Dirs \in [Calls -> 1..MaxDir]
    /\ Admins \in BOOLEAN /\ MaxFscks \in Nat
    /\ Faults \subseteq FaultKinds /\ MaxFaults \in Nat
    /\ {"row", "no"} \cap Backends = {} /\ None \notin Calls \cup Backends

VARIABLES
    rows,      \* the calls table: where the audio is, a backend or "row";
               \* "no" row
    marked,    \* the calls with dangling_at
    tgs,       \* the talkgroups table
    objects,   \* the objects of the backends
    told,      \* what the uploader was told: "ok", "error"; "cut" by a crash
    pc,        \* what AddCall does next
    call,      \* the call being ingested
    at,        \* the place in Ingest
    created,   \* the refTracker's created objects
    failed,    \* AddCall's err
    relay,     \* what the relay does
    fpc,       \* what Fsck does next
    fsck,      \* its backend
    dir,       \* the directory it lists next
    listed,    \* the temporary table
    named,     \* the rows whose mark it has cleared, and so locked
    missing,   \* the rows it has marked
    fscks,     \* how many there were
    faults,    \* how often something failed
    config,    \* the configuration; it does not change
    lost,      \* history: the objects that vanished by themselves
    doubted,   \* history: the calls committed, but reported as not
    refused,   \* history: the objects a backend reported it could not store
    kept,      \* history: those that could not be deleted again
    inRows,    \* history: the rows that named the backend when Fsck began
    there,     \* history: the calls it has had an object of ever since
    absent,    \* history: those it has had none of since
    skipped    \* history: the directories it could not read

store == <<rows, tgs, objects, told, config, lost, doubted, refused, kept>>
aside == <<config, lost>>
adder == <<pc, call, at, created, failed, relay>>
checker == <<fpc, fsck, dir, listed, named, missing, fscks>>
history == <<inRows, there, absent, skipped>>
vars == <<store, marked, adder, checker, history, faults>>

Init ==
    /\ rows = [c \in Calls |-> "no"] /\ marked = {} /\ tgs = Known
    /\ objects = {} /\ told = [c \in Calls |-> "nothing"]
    /\ config \in Configs /\ lost = {} /\ doubted = {} /\ refused = {} /\ kept = {}
    /\ pc = "idle" /\ call = None /\ at = 1 /\ created = {} /\ failed = FALSE
    /\ relay = "idle"
    /\ fpc = "idle" /\ fsck = None /\ dir = 1 /\ listed = {} /\ named = {}
    /\ missing = {} /\ fscks = 0
    /\ inRows = {} /\ there = {} /\ absent = {} /\ skipped = {}
    /\ faults = 0

Fault(k) == k \in Faults /\ faults < MaxFaults /\ faults' = faults + 1

\* The context of the sinks ends when a required one returns an error.
Cancelled == Relay = "required" /\ relay = "failed"

-----------------------------------------------------------------------------
(* EmitCall and the relay.                                                 *)

\* The lock of the sinks is free: the sinks start, and AddCall resets its
\* refTracker.
EmitCall(c) ==
    /\ pc = "idle" /\ told[c] = "nothing"
    /\ pc' = "store" /\ call' = c /\ at' = 1 /\ created' = {} /\ failed' = FALSE
    /\ relay' = IF Relay = "none" THEN "idle" ELSE "running"
    /\ UNCHANGED <<store, faults>>

RelayDone ==
    /\ relay = "running"
    /\ \/ relay' = "done" /\ UNCHANGED faults
       \/ relay' = "failed" /\ Fault("relay")
    /\ UNCHANGED <<store, pc, call, at, created, failed>>

\* Both sinks are through.
Answer ==
    /\ pc = "done" /\ relay # "running"
    /\ told' = [told EXCEPT ![call] =
                  IF failed \/ Cancelled THEN "error" ELSE "ok"]
    /\ pc' = "idle" /\ call' = None /\ relay' = "idle"
    /\ UNCHANGED <<rows, tgs, objects, aside, doubted, refused, kept, at, created, failed, faults>>

-----------------------------------------------------------------------------
(* AddCall.                                                                *)

Fail == failed' = TRUE /\ pc' = "done"

Stored(b) ==
    /\ ~(Cancelled /\ b \in Heeds)
    /\ objects' = objects \cup {<<b, call>>} /\ created' = {<<b, call>>}
    /\ pc' = "insert"
    /\ UNCHANGED <<at, failed, refused, faults>>

\* Variant: with onError fail the next backend is tried all the same.
StoreFailsOn(b) ==
    /\ \/ Cancelled /\ b \in Heeds /\ UNCHANGED <<objects, faults>>
       \/ Fault("store") /\ UNCHANGED objects
       \/ Fault("storelost") /\ objects' = objects \cup {<<b, call>>}
    /\ refused' = refused \cup {<<b, call>>}
    /\ \/ config.onError[b] # "db" /\ at' = at + 1 /\ UNCHANGED <<pc, failed>>
       \/ config.onError[b] = "db" /\ pc' = "insert" /\ UNCHANGED <<at, failed>>
    /\ UNCHANGED created

StoreFails(b) ==
    /\ \/ Cancelled /\ b \in Heeds /\ UNCHANGED <<objects, faults>>
       \/ Fault("store") /\ UNCHANGED objects
       \/ Fault("storelost") /\ objects' = objects \cup {<<b, call>>}
    /\ refused' = refused \cup {<<b, call>>}
    /\ \/ config.onError[b] = "next" /\ at' = at + 1 /\ UNCHANGED <<pc, failed>>
       \/ config.onError[b] = "db" /\ pc' = "insert" /\ UNCHANGED <<at, failed>>
       \/ config.onError[b] = "fail" /\ Fail /\ UNCHANGED at
    /\ UNCHANGED created

\* One round of audioBackends.Store, or what follows its loop.
Store ==
    /\ pc = "store"
    /\ \/ /\ at <= Len(Ingest)
          /\ LET b == Ingest[at] IN
               \/ /\ call \notin Accepts[b] /\ at' = at + 1
                  /\ UNCHANGED <<objects, refused, pc, created, failed, faults>>
               \/ call \in Accepts[b] /\ (Stored(b) \/ StoreFails(b))
       \/ /\ at > Len(Ingest)
          /\ \/ config.onExhaust = "db" /\ pc' = "insert" /\ UNCHANGED failed
             \/ config.onExhaust = "fail" /\ Fail
          /\ UNCHANGED <<objects, refused, at, created, faults>>
    /\ UNCHANGED <<rows, tgs, told, aside, doubted, kept, call, relay>>

\* The row: audio_ref of the object, or audio_blob.
Place == IF created = {} THEN "row" ELSE (CHOOSE o \in created : TRUE)[1]

AddRow == rows' = [rows EXCEPT ![call] = Place]

\* The transaction commits: the refTracker is committed, and reset.
Succeed == AddRow /\ pc' = "done" /\ created' = {} /\ UNCHANGED <<doubted, faults>>

TGKnown == TGOf[call] \in tgs

\* A transaction that ends the ingest: it commits, or it does not, or does
\* without AddCall knowing.
LastTx ==
    \/ ~Cancelled /\ TGKnown /\ Succeed
    \/ /\ pc' = "rollback" /\ UNCHANGED created
       /\ \/ (Cancelled \/ ~TGKnown) /\ UNCHANGED <<rows, doubted, faults>>
          \/ Fault("sql") /\ UNCHANGED <<rows, doubted>>
          \/ TGKnown /\ Fault("commitlost") /\ AddRow /\ doubted' = doubted \cup {call}

\* Variant: the refTracker is rolled back before the second attempt.
InsertRollingBack ==
    /\ pc = "insert"
    /\ IF ~Cancelled /\ ~TGKnown
         THEN pc' = "learn" /\ objects' = objects \ created
                /\ UNCHANGED <<rows, doubted, created, faults>>
         ELSE LastTx /\ UNCHANGED objects
    /\ UNCHANGED <<tgs, told, aside, refused, kept, call, at, failed, relay>>

\* The first transaction.  A talkgroup that is not there is to be learned.
Insert ==
    /\ pc = "insert"
    /\ \/ ~Cancelled /\ ~TGKnown /\ pc' = "learn" /\ UNCHANGED <<rows, doubted, created, faults>>
       \/ (Cancelled \/ TGKnown) /\ LastTx
    /\ UNCHANGED <<tgs, objects, told, aside, refused, kept, call, at, failed, relay>>

\* Variant: that the talkgroup is there already ends the ingest well.
LearnTGOnce ==
    /\ pc = "learn"
    /\ \/ /\ ~Cancelled /\ ~TGKnown
          /\ tgs' = tgs \cup {TGOf[call]} /\ pc' = "again" /\ UNCHANGED faults
       \/ TGKnown /\ pc' = "done" /\ UNCHANGED <<tgs, faults>>
       \/ (Cancelled \/ Fault("learn")) /\ pc' = "rollback" /\ UNCHANGED <<tgs, faults>>
    /\ UNCHANGED <<rows, objects, told, aside, doubted, refused, kept>>
    /\ UNCHANGED <<call, at, created, failed, relay>>

\* LearnTG, called in the second transaction, inserts with a connection of
\* its own: the talkgroup stays whatever becomes of the transaction.  One
\* that is there by now is an error.
LearnTG ==
    /\ pc = "learn"
    /\ \/ /\ ~Cancelled /\ ~TGKnown
          /\ tgs' = tgs \cup {TGOf[call]} /\ pc' = "again" /\ UNCHANGED faults
       \/ /\ \/ (Cancelled \/ TGKnown) /\ UNCHANGED faults
             \/ Fault("learn")
          /\ pc' = "rollback" /\ UNCHANGED tgs
    /\ UNCHANGED <<rows, objects, told, aside, doubted, refused, kept>>
    /\ UNCHANGED <<call, at, created, failed, relay>>

\* The rest of the second transaction.
InsertAgain ==
    /\ pc = "again" /\ LastTx
    /\ UNCHANGED <<tgs, objects, told, aside, refused, kept, call, at, failed, relay>>

\* Variant: the error of the second transaction is not seen.
RollbackNothing ==
    /\ pc = "rollback" /\ Fail
    /\ UNCHANGED <<rows, tgs, objects, told, aside, doubted, refused, kept>>
    /\ UNCHANGED <<call, at, created, relay, faults>>

\* refTracker.Rollback, with the context of the sinks.
Rollback ==
    /\ pc = "rollback" /\ Fail
    /\ LET late == Cancelled /\ \E o \in created : o[1] \in Heeds IN
         \/ /\ ~late /\ objects' = objects \ created
            /\ UNCHANGED <<kept, faults>>
         \/ /\ created # {}
            /\ (late /\ UNCHANGED faults) \/ Fault("delete")
            /\ kept' = kept \cup created /\ UNCHANGED objects
    /\ UNCHANGED <<rows, tgs, told, aside, doubted, refused, call, at, created, relay>>

Ingests ==
    \/ \E c \in Calls : EmitCall(c)
    \/ RelayDone \/ Answer \/ Store \/ Insert \/ LearnTG \/ InsertAgain \/ Rollback

-----------------------------------------------------------------------------
(* Fsck: one transaction, READ COMMITTED.                                  *)

FsckBegin(b) ==
    /\ fpc = "idle" /\ fscks < MaxFscks /\ fscks' = fscks + 1
    /\ fpc' = "list" /\ fsck' = b /\ dir' = 1
    /\ listed' = {} /\ named' = {} /\ missing' = {}
    /\ UNCHANGED <<marked, faults>>

FsckEnds ==
    /\ fpc' = "idle" /\ fsck' = None /\ dir' = 1
    /\ listed' = {} /\ named' = {} /\ missing' = {}
    /\ UNCHANGED fscks

ObjectsIn(b, d) == {c \in Calls : Dirs[c] = d /\ <<b, c>> \in objects}

\* ListCalls, a directory of it.  WalkDir's callback of the fs backend ignores
\* the error of a directory that cannot be read.
FsckList ==
    /\ fpc = "list" /\ dir <= MaxDir
    /\ \/ listed' = listed \cup ObjectsIn(fsck, dir) /\ UNCHANGED faults
       \/ fsck \notin Heeds /\ Fault("unreadable") /\ UNCHANGED listed
    /\ dir' = dir + 1
    /\ UNCHANGED <<marked, fpc, fsck, named, missing, fscks>>

Naming(b) == {c \in Calls : rows[c] = b}

\* Variant: the marks of an earlier fsck stay.
FsckClearNothing ==
    /\ fpc = "list" /\ dir > MaxDir /\ fpc' = "mark"
    /\ UNCHANGED <<marked, fsck, dir, listed, named, missing, fscks, faults>>

\* FsckRefs: the first UPDATE.
FsckClear ==
    /\ fpc = "list" /\ dir > MaxDir /\ fpc' = "mark"
    /\ named' = Naming(fsck)
    /\ UNCHANGED <<marked, fsck, dir, listed, missing, fscks, faults>>

\* Variant: an inner join with the listing, which has no row without an id.
FsckMarkInner ==
    /\ fpc = "mark" /\ fpc' = "commit"
    /\ missing' = {c \in Naming(fsck) \cap listed : c \notin listed}
    /\ UNCHANGED <<marked, fsck, dir, listed, named, fscks, faults>>

\* The second, which sees the rows committed meanwhile.
FsckMark ==
    /\ fpc = "mark" /\ fpc' = "commit"
    /\ missing' = Naming(fsck) \ listed
    /\ UNCHANGED <<marked, fsck, dir, listed, named, fscks, faults>>

FsckCommit ==
    /\ fpc = "commit"
    /\ marked' = (marked \ named) \cup missing
    /\ FsckEnds /\ UNCHANGED faults

FsckFails ==
    /\ \/ fpc = "list" /\ Fault("list")
       \/ fpc \in {"mark", "commit"} /\ Fault("sql")
    /\ FsckEnds /\ UNCHANGED marked

Fsck ==
    \/ \E b \in Backends : FsckBegin(b)
    \/ FsckList \/ FsckClear \/ FsckMark \/ FsckCommit \/ FsckFails

-----------------------------------------------------------------------------
(* The surroundings.                                                       *)

\* A user adds a talkgroup, or deletes one that no call names.
Admin ==
    /\ Admins
    /\ \E t \in {TGOf[c] : c \in Calls} :
         \/ t \notin tgs /\ tgs' = tgs \cup {t}
         \/ /\ t \in tgs /\ \A c \in Calls : TGOf[c] = t => rows[c] = "no"
            /\ tgs' = tgs \ {t}
    /\ UNCHANGED <<rows, objects, told, aside, doubted, refused, kept, faults>>

Lose ==
    /\ Fault("lose")
    /\ \E o \in objects : objects' = objects \ {o} /\ lost' = lost \cup {o}
    /\ UNCHANGED <<rows, tgs, told, config, doubted, refused, kept>>

\* The server stops: the connections end, and with them the transactions.
Crash ==
    /\ (pc # "idle" \/ fpc # "idle") /\ Fault("crash")
    /\ told' = IF call = None THEN told ELSE [told EXCEPT ![call] = "cut"]
    /\ pc' = "idle" /\ call' = None /\ at' = 1 /\ created' = {} /\ failed' = FALSE
    /\ relay' = "idle"
    /\ FsckEnds
    /\ UNCHANGED <<rows, tgs, objects, aside, doubted, refused, kept, marked>>

\* The history of the running fsck.
Watch ==
    LET now == {c \in Calls : <<fsck', c>> \in objects'} IN
      IF fpc' = "idle" \/ fpc = "idle"
        THEN LET begins == fpc' # "idle" IN
               /\ inRows' = IF begins THEN Naming(fsck') ELSE {}
               /\ there' = IF begins THEN now ELSE {}
               /\ absent' = IF begins THEN Calls \ now ELSE {}
               /\ skipped' = {}
        ELSE /\ there' = there \cap now /\ absent' = absent \ now
             /\ skipped' = IF dir' > dir /\ faults' > faults THEN skipped \cup {dir} ELSE skipped
             /\ UNCHANGED inRows

Next ==
    /\ \/ Ingests /\ UNCHANGED <<marked, checker>>
       \/ Fsck /\ UNCHANGED <<store, adder>>
       \/ (Admin \/ Lose) /\ UNCHANGED <<adder, marked, checker>>
       \/ Crash
    /\ Watch

Spec == Init /\ [][Next]_vars

-----------------------------------------------------------------------------
(* Correctness.                                                            *)

Objects == Backends \X Calls

StoreOK ==
    /\ rows \in [Calls -> Backends \cup {"row", "no"}]
    /\ tgs \subseteq {TGOf[c] : c \in Calls} \cup Known
    /\ objects \subseteq Objects
    /\ told \in [Calls -> {"nothing", "ok", "error", "cut"}]
    /\ config \in Configs /\ lost \subseteq Objects /\ doubted \subseteq Calls
    /\ refused \subseteq Objects /\ kept \subseteq Objects

AdderOK ==
    /\ pc \in {"idle", "store", "insert", "learn", "again", "rollback", "done"}
    /\ call \in Calls \cup {None} /\ (pc # "idle" <=> call # None)
    /\ at \in 1..(Len(Ingest) + 1) /\ created \subseteq Objects /\ failed \in BOOLEAN
    /\ relay \in {"idle", "running", "done", "failed"}

CheckerOK ==
    /\ marked \subseteq Calls
    /\ fpc \in {"idle", "list", "mark", "commit"} /\ fsck \in Backends \cup {None}
    /\ dir \in 1..(MaxDir + 1) /\ fscks \in 0..MaxFscks
    /\ listed \subseteq Calls /\ named \subseteq Calls /\ missing \subseteq Calls

HistoryOK ==
    /\ inRows \subseteq Calls /\ there \subseteq Calls /\ absent \subseteq Calls
    /\ skipped \subseteq 1..(MaxDir + 1)

TypeOK == StoreOK /\ AdderOK /\ CheckerOK /\ HistoryOK /\ faults \in 0..MaxFaults

\* What AddCall rolls back no row names, now or later, at whatever step the
\* context ends, a statement fails or the server stops, with one exception:
\* when COMMIT is executed and reported as failed, the rollback deletes the
\* object the committed row names.  The uploader of such a call is not told
\* that it is stored.  (Objects that vanish by themselves are for fsck.)
OnlyLostCommitsDangle ==
    \A c \in Calls :
      rows[c] \in Backends /\ <<rows[c], c>> \notin objects \cup lost =>
        c \in doubted /\ told[c] # "ok"

\* The same without the exception, which is so unless COMMITs get lost.
NoDanglingRow ==
    \A c \in Calls : rows[c] \in Backends => <<rows[c], c>> \in objects \cup lost

\* A call the uploader was told is stored has a row, and its talkgroup too.
OkIsKept ==
    \A c \in Calls : told[c] = "ok" => rows[c] # "no" /\ TGOf[c] \in tgs

\* An object without a row has one of four reasons: its call is being
\* ingested, the server stopped meanwhile, the backend had reported that it
\* could not store it, or AddCall could not delete it again.
OrphansExplained ==
    \A o \in objects :
      rows[o[2]] = o[1] \/ o[2] = call \/ told[o[2]] = "cut" \/ o \in refused \cup kept

\* The audio is where the configuration sends it: in the first backend that
\* takes the call, unless those before it failed and their onError is next;
\* in the row after a failure with onError db, or of all with onExhaust db.
PlaceIsConfigured ==
    \A c \in Calls :
      LET Tried(i) == c \in Accepts[Ingest[i]] => <<Ingest[i], c>> \in refused
          PassedBy(i) == Tried(i) /\ (c \in Accepts[Ingest[i]] => config.onError[Ingest[i]] = "next")
      IN /\ rows[c] \in Backends =>
              \E i \in 1..Len(Ingest) :
                /\ Ingest[i] = rows[c] /\ c \in Accepts[rows[c]]
                /\ \A j \in 1..(i - 1) : PassedBy(j)
         /\ rows[c] = "row" =>
              \/ config.onExhaust = "db" /\ \A j \in 1..Len(Ingest) : PassedBy(j)
              \/ \E i \in 1..Len(Ingest) :
                   /\ <<Ingest[i], c>> \in refused /\ config.onError[Ingest[i]] = "db"
                   /\ \A j \in 1..(i - 1) : PassedBy(j)

Commits == fpc = "commit" /\ fpc' = "idle" /\ faults' = faults

\* Whatever is ingested during a fsck: a row that was there when it began,
\* and whose object was there all the time, has no mark after it, even if
\* an earlier fsck had marked it.
FsckClearsSound == [][Commits => \A c \in inRows \cap there \cap marked' : Dirs[c] \in skipped]_vars

\* And a row that was there when it began, and whose object never was, has.
FsckFindsMissing == [][Commits => inRows \cap absent \subseteq marked']_vars

\* "Fsck checks that all audio references are good and marks as dangling ones
\* that are not" (store.go:87): it marks no row whose object is there.
MarksAreDangling ==
    [][\A c \in marked' \ marked : <<rows[c], c>> \notin objects]_vars
=============================================================================
