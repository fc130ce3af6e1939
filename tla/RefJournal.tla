----------------------------- MODULE RefJournal -----------------------------
(***************************************************************************)
(* The audio ref journal of pkg/calls/callstore: how the objects of a      *)
(* pruned partition are deleted.  PruneBackendRefs (audio.go) writes a row *)
(* of audio_ref_journal and asks the backend to delete a prefix.  An fs    *)
(* backend deletes at once; an s3 backend is given a lifecycle rule that   *)
(* lets the service expire the objects, and the row says when to look      *)
(* again.  refJournal.GC (journal.go) takes the rows that are due, gives   *)
(* the rule again if it is missing, and drops row and rule once the        *)
(* objects are gone.                                                       *)
(*                                                                         *)
(* GC is run by the hourly ticker of GoGC, by an administrator's request   *)
(* and at startup; PruneBackendRefs by the partition manager.  They run    *)
(* beside each other with no lock: a ruleJob reads the whole lifecycle     *)
(* configuration of the bucket, and its Commit writes the whole of it.     *)
(***************************************************************************)
EXTENDS Integers, FiniteSets

CONSTANTS
    Collectors,    \* the goroutines that run GC
    Partman,       \* the one that runs PruneBackendRefs
    Backends,      \* the backends named in the database
    Configured,    \* those the configuration still has
    S3Backends,    \* those that prune in batches (s3); the others are "fs"
    Prefixes,      \* the partition prefixes: the refs of the journal
    Objects,       \* the objects of the backends
    TargetOf,      \* Objects -> Backends \X Prefixes: where an object lies
    ErrThreshold,  \* JournalErrThreshold
    Ids,           \* the ids of journal rows; bounds the INSERTs
    MaxPrunes,     \* bound on the calls of PruneBackendRefs
    Faults,        \* what may fail, see FaultKinds
    MaxFaults,     \* bound on the number of failures
    None

Targets == Backends \X Prefixes

FaultKinds ==
    {"read",    \* GetBucketLifecycle fails
     "insert",  \* AddDelete fails
     "prune",   \* listing or removing the prefix fails
     "note",    \* UpdatePruneAfter or Drop fails
     "commit",  \* SetBucketLifecycle fails
     "crash"}   \* the server stops and is started again

\* A ruleJob: the rules read, and the prefixes to add and to delete.
RuleJob == [cfg : SUBSET Prefixes, adds : SUBSET Prefixes,
            dels : SUBSET Prefixes]

ASSUME RefJournalAssumption ==
    /\ Configured \subseteq Backends /\ S3Backends \subseteq Backends
    /\ Partman \notin Collectors
    /\ TargetOf \in [Objects -> Targets]
    /\ Ids \subseteq Nat \ {0} /\ 1 \in Ids
    /\ ErrThreshold \in Nat \ {0} /\ MaxPrunes \in Nat /\ MaxFaults \in Nat
    /\ Faults \subseteq FaultKinds
    /\ None \notin Backends /\ None \notin RuleJob

\* prune_after: NULL, in the future (five days ahead, or nearer), or past.
After == {"null", "wait", "near", "due"}

\* A row of audio_ref_journal.  Id 0 is what a failed INSERT returns.
Entry == [id : Ids, be : Backends, ref : Prefixes, after : After]
NoId == 0

Procs == Collectors \cup {Partman}

VARIABLES
    journal,  \* the rows of audio_ref_journal
    nextId,   \* the id the next INSERT takes
    objects,  \* the objects that exist
    rules,    \* Backends -> the prefixes with a lifecycle rule (s3)
    pc,       \* Procs -> what the goroutine does next
    todo,     \* Procs -> rows of the query still to be handled
    cur,      \* Procs -> the row in hand
    back,     \* Procs -> the backend of the rows being handled
    job,      \* Procs -> the open PruneJob
    errs,     \* Procs -> errCounts of back
    prunes,   \* how often PruneBackendRefs was called
    faults    \* how often something failed

db == <<journal, nextId>>
store == <<objects, rules>>
mem == <<pc, todo, cur, back, job, errs>>
vars == <<db, store, mem, prunes, faults>>

NoRow == [id |-> NoId, be |-> None, ref |-> None, after |-> "null"]

Target(r) == <<r.be, r.ref>>

Under(t) == {o \in objects : TargetOf[o] = t}

\* The journal is empty, or an earlier configuration left a row behind.
Init ==
    /\ \/ journal = {} /\ nextId = 1
       \/ \E b \in Backends \ Configured, x \in Prefixes :
            /\ journal = {[id |-> 1, be |-> b, ref |-> x, after |-> "due"]}
            /\ nextId = 2
    /\ objects = Objects
    /\ rules = [b \in Backends |-> {}]
    /\ pc = [p \in Procs |-> "idle"] /\ todo = [p \in Procs |-> {}]
    /\ cur = [p \in Procs |-> NoRow] /\ back = [p \in Procs |-> None]
    /\ job = [p \in Procs |-> None] /\ errs = [p \in Procs |-> 0]
    /\ prunes = 0 /\ faults = 0

Fault(k) == k \in Faults /\ faults < MaxFaults /\ faults' = faults + 1

-----------------------------------------------------------------------------
(* A pass of GC and a call of PruneBackendRefs share the steps that follow *)
(* the choice of a row.  pc = "row" is the loop's head: the next row of    *)
(* the query for a collector, the end of the one prefix for Partman.       *)

\* GC begins: the query returns the rows that are due.
Collect(g) ==
    /\ pc[g] = "idle"
    /\ pc' = [pc EXCEPT ![g] = "row"]
    /\ todo' = [todo EXCEPT ![g] = {r \in journal : r.after \in {"null", "due"}}]
    /\ back' = [back EXCEPT ![g] = None]
    /\ errs' = [errs EXCEPT ![g] = 0]
    /\ UNCHANGED <<db, store, cur, job, prunes, faults>>

\* The partition manager asks a backend to delete a partition's prefix.
\* PruneBackendRefs is given a list that always has that one element.
PruneBackendRefs(b, x) ==
    /\ pc[Partman] = "idle" /\ prunes < MaxPrunes
    /\ b \in Configured
    /\ prunes' = prunes + 1
    /\ pc' = [pc EXCEPT ![Partman] = IF b \in S3Backends THEN "job"
                                                         ELSE "insert"]
    /\ cur' = [cur EXCEPT ![Partman] =
                 [id |-> NoId, be |-> b, ref |-> x, after |-> "null"]]
    /\ back' = [back EXCEPT ![Partman] = b]
    /\ errs' = [errs EXCEPT ![Partman] = 0]
    /\ UNCHANGED <<db, store, todo, job, faults>>

\* The rows come ordered by backend: those of back are finished first.
MoreOf(p) == \E r \in todo[p] : r.be = back[p]

\* GC takes its next row.  The rows of a backend that is not configured are
\* reported and left; the first row of a batch pruner opens a PruneJob.
NextRow(g) ==
    /\ pc[g] = "row" /\ (MoreOf(g) \/ job[g] = None)
    /\ \E r \in todo[g] :
        /\ MoreOf(g) => r.be = back[g]
        /\ todo' = [todo EXCEPT ![g] = @ \ {r}]
        /\ cur' = [cur EXCEPT ![g] = r]
        /\ IF r.be \in Configured
             THEN /\ back' = [back EXCEPT ![g] = r.be]
                  /\ pc' = [pc EXCEPT ![g] =
                       IF r.be # back[g] /\ r.be \in S3Backends THEN "job"
                                                                ELSE "prune"]
                  /\ errs' = [errs EXCEPT ![g] = IF r.be # back[g] THEN 0 ELSE @]
             ELSE /\ back' = [back EXCEPT ![g] = None]
                  /\ UNCHANGED <<pc, errs>>
    /\ UNCHANGED <<db, store, job, prunes, faults>>

\* newRuleJob reads the lifecycle configuration.  When that fails GC leaves
\* the backend's other rows as well, and PruneBackendRefs returns.
NewPruneJob(p) ==
    /\ pc[p] = "job"
    /\ \/ /\ job' = [job EXCEPT ![p] = [cfg |-> rules[back[p]],
                                        adds |-> {}, dels |-> {}]]
          /\ pc' = [pc EXCEPT ![p] = IF p = Partman THEN "insert" ELSE "prune"]
          /\ UNCHANGED <<todo, faults>>
       \/ /\ Fault("read")
          /\ todo' = [todo EXCEPT ![p] = {r \in @ : r.be # back[p]}]
          /\ pc' = [pc EXCEPT ![p] = "row"]
          /\ UNCHANGED job
    /\ UNCHANGED <<db, store, cur, back, errs, prunes>>

\* AddDelete of PruneBackendRefs.  The prefix may have a row already: the
\* violated constraint is logged and the row in hand keeps id 0.
AddDelete ==
    /\ pc[Partman] = "insert"
    /\ LET r == cur[Partman] IN
       \/ /\ \A e \in journal : Target(e) # Target(r)
          /\ nextId \in Ids
          /\ journal' = journal \cup {[r EXCEPT !.id = nextId]}
          /\ nextId' = nextId + 1
          /\ cur' = [cur EXCEPT ![Partman].id = nextId]
          /\ pc' = [pc EXCEPT ![Partman] = "prune"]
          /\ UNCHANGED faults
       \/ /\ \E e \in journal : Target(e) = Target(r)
          /\ pc' = [pc EXCEPT ![Partman] = "prune"]
          /\ UNCHANGED <<db, cur, faults>>
       \/ /\ Fault("insert")
          /\ pc' = [pc EXCEPT ![Partman] = "row"]
          /\ UNCHANGED <<db, cur>>
    /\ UNCHANGED <<store, todo, back, job, errs, prunes>>

-----------------------------------------------------------------------------
(* Prune of the backend, for the row in hand.                              *)

HasRule(j, x) == x \in (j.cfg \cup j.adds) \ j.dels

\* Prune fails: the row's tries are incremented, which changes nothing
\* here.  More than ErrThreshold errors end the backend's turn.
PruneFailed(p) ==
    /\ errs' = [errs EXCEPT ![p] = IF @ <= ErrThreshold THEN @ + 1 ELSE @]
    /\ todo' = [todo EXCEPT ![p] =
                  {r \in @ : r.be # back[p] \/ errs'[p] <= ErrThreshold}]
    /\ pc' = [pc EXCEPT ![p] = "row"]

\* Variant: the rule is not queued.
AddRmRuleLost(p) ==
    /\ ~HasRule(job[p], cur[p].ref)
    /\ pc' = [pc EXCEPT ![p] = "wait"]
    /\ UNCHANGED <<objects, job, todo, errs, faults>>

\* The first time, or when the rule has gone missing: give the rule.
AddRmRule(p) ==
    /\ ~HasRule(job[p], cur[p].ref)
    /\ job' = [job EXCEPT ![p].adds = @ \cup {cur[p].ref}]
    /\ pc' = [pc EXCEPT ![p] = "wait"]
    /\ UNCHANGED <<objects, todo, errs, faults>>

\* A row that has never waited meets its rule: "rule already exists".
RuleAlreadyExists(p) ==
    /\ HasRule(job[p], cur[p].ref) /\ cur[p].after = "null"
    /\ PruneFailed(p)
    /\ UNCHANGED <<objects, job, faults>>

\* Variant: the rule of an empty prefix goes, its row waits on.
PrefixExistsKeepsRow(p) ==
    /\ HasRule(job[p], cur[p].ref) /\ cur[p].after # "null"
    /\ job' = [job EXCEPT ![p].dels =
                 IF Under(Target(cur[p])) = {} THEN @ \cup {cur[p].ref} ELSE @]
    /\ pc' = [pc EXCEPT ![p] = "wait"]
    /\ UNCHANGED <<objects, todo, errs, faults>>

\* The rule has had its time: look whether anything is left.
PrefixExists(p) ==
    /\ HasRule(job[p], cur[p].ref) /\ cur[p].after # "null"
    /\ \/ /\ Under(Target(cur[p])) # {}
          /\ pc' = [pc EXCEPT ![p] = "wait"]
          /\ UNCHANGED <<job, todo, errs, faults>>
       \/ /\ Under(Target(cur[p])) = {}
          /\ job' = [job EXCEPT ![p].dels = @ \cup {cur[p].ref}]
          /\ pc' = [pc EXCEPT ![p] = "drop"]
          /\ UNCHANGED <<todo, errs, faults>>
       \/ Fault("prune") /\ PruneFailed(p) /\ UNCHANGED job
    /\ UNCHANGED objects

\* os.RemoveAll, which may fail with some of the files removed.
RemoveAll(p) ==
    /\ \/ /\ objects' = objects \ Under(Target(cur[p]))
          /\ pc' = [pc EXCEPT ![p] = "drop"]
          /\ UNCHANGED <<todo, errs, faults>>
       \/ /\ Fault("prune") /\ PruneFailed(p)
          /\ \E S \in SUBSET Under(Target(cur[p])) : objects' = objects \ S
    /\ UNCHANGED job

Prune(p) ==
    /\ pc[p] = "prune"
    /\ IF back[p] \in S3Backends
         THEN AddRmRule(p) \/ RuleAlreadyExists(p) \/ PrefixExists(p)
         ELSE RemoveAll(p)
    /\ UNCHANGED <<db, rules, cur, back, prunes>>

-----------------------------------------------------------------------------
(* The row is brought up to date, and the job committed.                   *)

UpdatePruneAfter(id) ==
    journal' = {IF r.id = id THEN [r EXCEPT !.after = "wait"] ELSE r :
                  r \in journal}

Drop(id) == journal' = {r \in journal : r.id # id}

\* Variant: a prefix that waits for its rule is done.
NoteSwapped(p) ==
    /\ \/ pc[p] = "drop" /\ UpdatePruneAfter(cur[p].id) /\ UNCHANGED faults
       \/ pc[p] = "wait" /\ Drop(cur[p].id) /\ UNCHANGED faults
    /\ pc' = [pc EXCEPT ![p] = "row"]
    /\ UNCHANGED <<nextId, store, todo, cur, back, job, errs, prunes>>

Note(p) ==
    /\ \/ pc[p] = "wait" /\ UpdatePruneAfter(cur[p].id) /\ UNCHANGED faults
       \/ pc[p] = "drop" /\ Drop(cur[p].id) /\ UNCHANGED faults
       \/ pc[p] \in {"wait", "drop"} /\ Fault("note") /\ UNCHANGED journal
    /\ pc' = [pc EXCEPT ![p] = "row"]
    /\ UNCHANGED <<nextId, store, todo, cur, back, job, errs, prunes>>

\* ruleJob.Commit, when the rows of a backend are finished: nothing to do,
\* or SetBucketLifecycle of what was read, less dels, plus adds.  Its error
\* is reported and has no other effect.
Commit(p) ==
    /\ pc[p] = "row" /\ job[p] # None /\ ~MoreOf(p)
    /\ \/ /\ rules' = IF job[p].adds = {} /\ job[p].dels = {} THEN rules
                      ELSE [rules EXCEPT ![back[p]] =
                              (job[p].cfg \ job[p].dels) \cup job[p].adds]
          /\ UNCHANGED faults
       \/ Fault("commit") /\ UNCHANGED rules
    /\ job' = [job EXCEPT ![p] = None]
    /\ UNCHANGED <<db, objects, pc, todo, cur, back, errs, prunes>>

End(p) ==
    /\ pc[p] = "row" /\ todo[p] = {} /\ job[p] = None
    /\ pc' = [pc EXCEPT ![p] = "idle"]
    /\ cur' = [cur EXCEPT ![p] = NoRow]
    /\ back' = [back EXCEPT ![p] = None]
    /\ UNCHANGED <<db, store, todo, job, errs, prunes, faults>>

-----------------------------------------------------------------------------
(* The surroundings: the s3 service expires the objects of its rules one   *)
(* by one, time passes, the server is restarted.                           *)

Expire(o) ==
    /\ o \in objects
    /\ TargetOf[o][1] \in S3Backends
    /\ TargetOf[o][2] \in rules[TargetOf[o][1]]
    /\ objects' = objects \ {o}
    /\ UNCHANGED <<db, rules, mem, prunes, faults>>

Quiet == \A p \in Procs : pc[p] = "idle"

\* prune_after is set five days ahead.  Some time in those days no pass is
\* running; when they end another may be.
Elapse(r) ==
    /\ \E a \in After :
         /\ \/ r.after = "wait" /\ Quiet /\ a = "near"
            \/ r.after = "near" /\ a = "due"
         /\ journal' = (journal \ {r}) \cup {[r EXCEPT !.after = a]}
    /\ UNCHANGED <<nextId, store, mem, prunes, faults>>

Crash ==
    /\ Fault("crash")
    /\ pc' = [p \in Procs |-> "idle"] /\ todo' = [p \in Procs |-> {}]
    /\ cur' = [p \in Procs |-> NoRow] /\ back' = [p \in Procs |-> None]
    /\ job' = [p \in Procs |-> None] /\ errs' = [p \in Procs |-> 0]
    /\ UNCHANGED <<db, store, prunes>>

-----------------------------------------------------------------------------
\* What a goroutine does without being asked.
Step(p) ==
    \/ p # Partman /\ NextRow(p)
    \/ p = Partman /\ AddDelete
    \/ NewPruneJob(p) \/ Prune(p) \/ Note(p) \/ Commit(p) \/ End(p)

Next ==
    \/ \E g \in Collectors : Collect(g)
    \/ \E b \in Backends, x \in Prefixes : PruneBackendRefs(b, x)
    \/ \E p \in Procs : Step(p)
    \/ \E o \in Objects : Expire(o)
    \/ \E r \in journal : Elapse(r)
    \/ Crash

Spec == Init /\ [][Next]_vars

\* The goroutines run, the ticker fires, the service applies its rules and
\* time passes: the ticker's passes are an hour apart, so moments without one
\* come again and again.  Nothing else is owed: no prune and no failure.
FairSpec ==
    /\ Spec
    /\ \A p \in Procs : WF_vars(Step(p))
    /\ \A g \in Collectors : WF_vars(Collect(g))
    /\ \A o \in Objects : WF_vars(Expire(o))
    /\ \A i \in Ids : SF_vars(\E r \in journal : r.id = i /\ Elapse(r))

-----------------------------------------------------------------------------
TypeOK ==
    /\ journal \subseteq Entry /\ nextId \in Nat \ {0}
    /\ objects \subseteq Objects
    /\ rules \in [Backends -> SUBSET Prefixes]
    /\ pc \in [Procs -> {"idle", "row", "job", "insert", "prune", "wait", "drop"}]
    /\ todo \in [Procs -> SUBSET Entry]
    /\ cur \in [Procs -> [id : Ids \cup {NoId}, be : Backends \cup {None},
                          ref : Prefixes \cup {None}, after : After]]
    /\ back \in [Procs -> Backends \cup {None}]
    /\ job \in [Procs -> RuleJob \cup {None}]
    /\ errs \in [Procs -> 0..(ErrThreshold + 1)]
    /\ prunes \in 0..MaxPrunes /\ faults \in 0..MaxFaults

pending == {Target(r) : r \in journal}

Contract == INSTANCE DeleteContract

\* Whatever interleaves and fails, objects go only while the journal has a
\* row for their prefix, and the row goes only after all of them: GC may
\* lose a rule or a commit and still knows what is left to do.
DeletesKeepTheContract == Contract!Spec

Requested == {r \in journal : r.be \in Configured}

\* Every prefix that was entered in the journal is emptied in the end.
DeletesHappen ==
    \A t \in Configured \X Prefixes :
        (t \in pending) ~> (Under(t) = {})

\* A row that was never noted although its rule is in the bucket: Prune takes
\* it for a new one, and the rule is in the way.
Stuck(i) == \E r \in journal :
                r.id = i /\ r.after = "null" /\ r.ref \in rules[r.be]

\* Whatever failed, every row of the journal is dropped in the end, unless it
\* is stuck for good: GC "removes any successful prunes".
JournalDrains ==
    \A i \in Ids :
        \/ <>[]Stuck(i)
        \/ (\E r \in Requested : r.id = i) ~> ~(\E r \in journal : r.id = i)

\* When the journal has been worked off, no lifecycle rule is left behind in
\* a bucket.
NoRuleLeft == Quiet /\ journal = {} => \A b \in Backends : rules[b] = {}

-----------------------------------------------------------------------------
(* The inductive invariant behind DeletesKeepTheContract.  A target is safe *)
(* to delete when the journal still has it or nothing of it is left; every  *)
(* rule, every copy of the rules in a job and every row in hand is safe.    *)

SafeTarget(t) == t \in pending \/ Under(t) = {}

\* A row that was read or written, as opposed to one still to be inserted.
InHand(p) == \/ pc[p] \in {"prune", "wait", "drop"}
             \/ p # Partman /\ pc[p] = "job"

HandInv ==
    \A p \in Procs :
        /\ pc[p] \notin {"idle", "row"} =>
             cur[p].be = back[p] /\ cur[p].be \in Backends /\ cur[p].ref \in Prefixes
        /\ InHand(p) => SafeTarget(Target(cur[p]))
        /\ pc[p] = "drop" => Under(Target(cur[p])) = {}
        /\ \A r \in todo[p] : SafeTarget(Target(r))

RuleInv ==
    /\ \A b \in Backends : \A x \in rules[b] : SafeTarget(<<b, x>>)
    /\ \A p \in Procs :
         /\ back[p] \in Configured \cup {None}
         /\ pc[p] \in {"idle", "job"} => job[p] = None
         /\ job[p] # None =>
              /\ back[p] # None
              /\ \A x \in job[p].cfg \cup job[p].adds : SafeTarget(<<back[p], x>>)

\* A goroutine that handles a row of an s3 backend has a job open.
JobInv ==
    \A p \in Procs : back[p] \in S3Backends /\ job[p] = None =>
        /\ pc[p] \notin {"insert", "prune", "wait", "drop"}
        /\ pc[p] = "row" => ~MoreOf(p)

\* An id names one target, now and in every stale copy of a row.
SameTarget(q) ==
    /\ q.id < nextId
    /\ \A r \in journal : r.id = q.id => Target(r) = Target(q)

IdInv ==
    /\ \A q \in journal : SameTarget(q)
    /\ \A p \in Procs : SameTarget(cur[p]) /\ \A q \in todo[p] : SameTarget(q)

IInv == TypeOK /\ HandInv /\ RuleInv /\ JobInv /\ IdInv
=============================================================================
