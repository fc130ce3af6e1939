--------------------------- MODULE PartitionPrune ---------------------------
(***************************************************************************)
(* The partition manager (pkg/database/partman): every hour, and when the  *)
(* server starts, Check creates the partitions of the calls table that are *)
(* needed soon and prunes those whose time is up.  Before a partition is   *)
(* detached the calls that belong to an incident are swept: copied to      *)
(* swept_calls, their audio resolved into the row; then the backends are   *)
(* asked to delete the partition's prefix.                                 *)
(*                                                                         *)
(* Check is one transaction (READ COMMITTED), but the deletes it asks for  *)
(* are not part of it: what becomes of them is DeleteContract, which       *)
(* RefJournal implements.  Meanwhile users add calls to incidents and take *)
(* them out.                                                               *)
(***************************************************************************)
EXTENDS Integers, FiniteSets

CONSTANTS
    Calls,         \* the calls of the table
    PartOf,        \* Calls -> the partition: partition p holds period p
    AtStart,       \* the calls dated the first instant of their period
    Backends,      \* the audio backends
    Homes,         \* Calls -> the backends of audio_ref; {}: it is in the row
    Retain,        \* how many past periods are kept; -1: all
    PreProvision,  \* how many future periods have their partition
    FirstPeriod,   \* the period the model starts in
    LastPeriod,    \* bound on the periods
    PerPeriod,     \* Checks in a period, at least, that no user spoils
    Racy,          \* whether users add calls while these are being pruned
    Faults,        \* what may fail, see FaultKinds
    MaxFaults,     \* bound on the number of failures
    None

FaultKinds ==
    {"sql",    \* a statement fails before the tx has asked for a delete
     "read",   \* a backend cannot be read
     "ask",    \* PruneBackendRefs fails
     "crash",  \* the server stops before then
     "late"}   \* any of these once the tx has asked, or COMMIT fails

Partitions == 0..(LastPeriod + PreProvision)

\* Variants: one future partition more, one past partition less, none ahead.
ExpectedMore(t) == {p \in 0..(LastPeriod + PreProvision + 1) :
                      t - Retain <= p /\ p <= t + PreProvision + 1}
ExpectedLessPast(t) == {p \in Partitions : t - Retain < p /\ p <= t + PreProvision}
ExpectedNoFuture(t) == {p \in Partitions : t - Retain <= p /\ p <= t}

\* expectedPartitions of the partman at time t.
Expected(t) == {p \in Partitions : t - Retain <= p /\ p <= t + PreProvision}

ASSUME PartitionPruneAssumption ==
    /\ Retain \in Nat \cup {-1} /\ PreProvision \in Nat \ {0}
    /\ FirstPeriod \in Nat /\ LastPeriod \in Nat
    /\ Retain <= FirstPeriod /\ FirstPeriod <= LastPeriod
    /\ PartOf \in [Calls -> Partitions] /\ AtStart \subseteq Calls
    /\ \A c \in Calls : /\ PartOf[c] <= FirstPeriod
                        /\ Retain = -1 \/ PartOf[c] >= FirstPeriod - Retain
    /\ Homes \in [Calls -> SUBSET Backends]
    /\ Racy \in BOOLEAN /\ Faults \subseteq FaultKinds
    /\ PerPeriod \in Nat \ {0} /\ MaxFaults \in Nat
    /\ None \notin Partitions

Objects == {o \in Backends \X Calls : o[1] \in Homes[o[2]]}
Targets == Backends \X Partitions
TargetOf == [o \in Objects |-> <<o[1], PartOf[o[2]]>>]

VARIABLES
    now,        \* the period
    checks,     \* Checks of this period that ended, up to PerPeriod
    attached,   \* the partitions of the calls table
    link,       \* incidents_calls: whether a call is in an incident, and
                \* which table the row names
    swept,      \* swept_calls: "none", or where the audio is
    objects,    \* the objects of the backends
    pending,    \* the prefixes the backends have yet to delete
    pc,         \* what Check does next
    at,         \* the period Check was called with
    todo,       \* the unexpected partitions not yet handled
    part,       \* the one in hand
    asks,       \* the backends still to be asked for part
    burnt,      \* whether the transaction has asked for a delete
    wAttached,  \* attached as the transaction has it
    wSwept,     \* swept as the transaction has it
    moved,      \* the links the transaction has changed, and so locks
    faults      \* how often something failed

db == <<attached, link, swept>>
tx == <<at, todo, part, asks, burnt, wAttached, wSwept, moved>>
vars == <<now, checks, db, objects, pending, pc, tx, faults>>

Journal == INSTANCE DeleteContract

Init ==
    /\ now = FirstPeriod /\ checks = 0
    /\ attached = {p \in Partitions : p <= FirstPeriod + PreProvision}
                    \cap (IF Retain = -1 THEN Partitions ELSE Expected(FirstPeriod))
    /\ link = [c \in Calls |-> "none"] /\ swept = [c \in Calls |-> "none"]
    /\ objects = Objects /\ pending = {}
    /\ pc = "idle" /\ at = now /\ todo = {} /\ part = None /\ asks = {}
    /\ burnt = FALSE /\ wAttached = attached /\ wSwept = swept /\ moved = {}
    /\ faults = 0

Fault(k) == k \in Faults /\ faults < MaxFaults /\ faults' = faults + 1

\* The link of a call as the transaction sees it.
TxLink(c) == IF c \in moved THEN "swept" ELSE link[c]

CallsIn(p) == {c \in Calls : PartOf[c] = p}

-----------------------------------------------------------------------------
(* Check.  A failed statement aborts the transaction: every later one      *)
(* fails too, createPartition returns the error, or COMMIT is refused.     *)

EndCheck ==
    /\ pc' = "idle"
    /\ todo' = {} /\ part' = None /\ asks' = {} /\ burnt' = FALSE /\ moved' = {}
    /\ UNCHANGED <<now, at>>

Count == checks' = IF at = now /\ checks < PerPeriod THEN checks + 1 ELSE checks

Rollback ==
    /\ wAttached' = attached /\ wSwept' = swept
    /\ EndCheck
    /\ UNCHANGED <<db, objects, pending>>

Check ==
    /\ pc = "idle"
    /\ at' = now
    /\ todo' = IF Retain > -1 THEN attached \ Expected(now) ELSE {}
    /\ pc' = "next"
    /\ UNCHANGED <<now, checks, db, objects, pending, part, asks, burnt,
                   wAttached, wSwept, moved, faults>>

\* An error of prunePartition is logged, and the next one gets its turn.
NextPartition ==
    /\ pc = "next"
    /\ \/ /\ part' \in todo
          /\ todo' = todo \ {part'}
          /\ pc' = "sweep"
       \/ todo = {} /\ pc' = "create" /\ UNCHANGED <<part, todo>>
    /\ UNCHANGED <<now, checks, db, objects, pending, at, asks, burnt,
                   wAttached, wSwept, moved, faults>>

\* Variant: a call that was swept before violates the key.
SweepCallsConflict ==
    /\ pc = "sweep"
    /\ LET linked == {c \in CallsIn(part) : TxLink(c) # "none"} IN
       IF \A c \in linked : wSwept[c] = "none"
         THEN /\ wSwept' = [c \in Calls |->
                   IF c \in linked THEN IF Homes[c] = {} THEN "blob" ELSE "ref"
                                   ELSE wSwept[c]]
              /\ pc' = "cleanup"
              /\ UNCHANGED <<now, checks, db, objects, pending, at, todo, part,
                             asks, burnt, wAttached, moved>>
         ELSE Rollback /\ UNCHANGED checks
    /\ UNCHANGED faults

\* INSERT INTO swept_calls ... ON CONFLICT DO NOTHING.
SweepCalls ==
    /\ pc = "sweep"
    /\ wSwept' = [c \in Calls |->
         IF PartOf[c] = part /\ TxLink(c) # "none" /\ wSwept[c] = "none"
           THEN IF Homes[c] = {} THEN "blob" ELSE "ref"
           ELSE wSwept[c]]
    /\ pc' = "cleanup"
    /\ UNCHANGED <<now, checks, db, objects, pending, at, todo, part, asks,
                   burnt, wAttached, moved, faults>>

\* UPDATE incidents_calls SET swept_call_id = call_id: a link that was added
\* since the sweep names no row of swept_calls, which the key does not allow.
CleanupSweptCalls ==
    /\ pc = "cleanup"
    /\ LET linked == {c \in CallsIn(part) : TxLink(c) # "none"} IN
       IF \A c \in linked : wSwept[c] # "none"
         THEN /\ moved' = moved \cup linked
              /\ pc' = "deref"
              /\ UNCHANGED <<now, checks, db, objects, pending, at, todo, part,
                             asks, burnt, wAttached, wSwept>>
         ELSE Rollback /\ UNCHANGED checks
    /\ UNCHANGED faults

\* Variant: only the backends of the calls that were not swept.
PrunableUnswept ==
    UNION {Homes[c] : c \in {d \in CallsIn(part) : wSwept[d] = "none"}}

\* GetPrunableAudioRefs: the backends of the calls dated in (start, end].
PrunableAudioRefs ==
    UNION {Homes[c] : c \in {d \in Calls :
              /\ PartOf[d] \in wAttached
              /\ IF d \in AtStart THEN PartOf[d] = part + 1
                                  ELSE PartOf[d] = part}}

\* Variant: the references of swept rows are left as they are.
DerefNothing ==
    /\ pc = "deref"
    /\ asks' = PrunableAudioRefs
    /\ pc' = "ask"
    /\ UNCHANGED <<now, checks, db, objects, pending, at, todo, part, burnt,
                   wAttached, wSwept, moved, faults>>

\* The audio of every swept row with a reference, of this partition or of an
\* earlier one, is read and put in the row.
DerefSweptCallAudios ==
    /\ pc = "deref"
    /\ LET refs == {c \in Calls : wSwept[c] = "ref"} IN
       \/ \E c \in refs :
            /\ \E b \in Homes[c] : <<b, c>> \in objects
            /\ wSwept' = [wSwept EXCEPT ![c] = "blob"]
            /\ UNCHANGED <<pc, asks, faults>>
       \/ /\ refs = {}
          /\ asks' = PrunableAudioRefs
          /\ pc' = "ask"
          /\ UNCHANGED <<wSwept, faults>>
       \/ /\ \/ /\ \E c \in refs : \A b \in Homes[c] : <<b, c>> \notin objects
                /\ UNCHANGED faults
             \/ refs # {} /\ Fault("read")
          /\ pc' = "next"
          /\ UNCHANGED <<wSwept, asks>>
    /\ UNCHANGED <<now, checks, db, objects, pending, at, todo, part, burnt,
                   wAttached, moved>>

\* PruneAudioPrefix: the journal has the prefix from here on, whatever
\* becomes of the transaction.
PruneAudioPrefix ==
    /\ pc = "ask"
    /\ \/ \E b \in asks :
            /\ Journal!Ask(<<b, part>>)
            /\ asks' = asks \ {b} /\ burnt' = TRUE
            /\ UNCHANGED <<pc, faults>>
       \/ /\ asks = {} /\ pc' = "detach"
          /\ UNCHANGED <<objects, pending, asks, burnt, faults>>
       \/ /\ asks # {} /\ Fault(IF burnt THEN "late" ELSE "ask")
          /\ pc' = "next" /\ asks' = {}
          /\ UNCHANGED <<objects, pending, burnt>>
    /\ UNCHANGED <<now, checks, db, at, todo, part, wAttached, wSwept, moved>>

\* A link that still names a call of the partition is in the way.
DetachPartition ==
    /\ pc = "detach"
    /\ IF \E c \in CallsIn(part) : TxLink(c) = "calls"
         THEN Rollback /\ UNCHANGED checks
         ELSE /\ wAttached' = wAttached \ {part}
              /\ pc' = "next"
              /\ UNCHANGED <<now, checks, db, objects, pending, at, todo, part,
                             asks, burnt, wSwept, moved>>
    /\ UNCHANGED faults

CreatePartitions ==
    /\ pc = "create"
    /\ wAttached' = wAttached \cup (Expected(at) \ attached)
    /\ pc' = "commit"
    /\ UNCHANGED <<now, checks, db, objects, pending, at, todo, part, asks,
                   burnt, wSwept, moved, faults>>

Commit ==
    /\ pc = "commit"
    /\ attached' = wAttached /\ swept' = wSwept
    /\ link' = [c \in Calls |-> TxLink(c)]
    /\ EndCheck /\ Count
    /\ UNCHANGED <<objects, pending, wAttached, wSwept, faults>>

Abort ==
    /\ pc \in {"sweep", "cleanup", "deref", "detach", "create", "commit"}
    /\ Fault(IF burnt THEN "late" ELSE "sql")
    /\ Rollback /\ Count

Crash ==
    /\ pc # "idle" /\ Fault(IF burnt THEN "late" ELSE "crash")
    /\ Rollback /\ Count

-----------------------------------------------------------------------------
(* Users, time and the journal.                                            *)

\* The transaction holds the table from its first DETACH or CREATE on.
Unlocked == wAttached = attached

\* An addition that Check meets too late to sweep the call.
TooLate(c) == PartOf[c] = part /\ \/ pc \in {"deref", "ask", "detach"}
                                  \/ pc = "cleanup" /\ burnt

AddToIncident(c) ==
    /\ link[c] = "none" /\ PartOf[c] \in attached /\ Unlocked
    /\ Racy \/ ~TooLate(c)
    /\ link' = [link EXCEPT ![c] = "calls"]
    /\ UNCHANGED <<now, checks, attached, swept, objects, pending, pc, tx, faults>>

RemoveFromIncident(c) ==
    /\ link[c] # "none" /\ c \notin moved
    /\ link' = [link EXCEPT ![c] = "none"]
    /\ UNCHANGED <<now, checks, attached, swept, objects, pending, pc, tx, faults>>

\* A period is a day at least, and Check runs every hour.
Advance ==
    /\ now < LastPeriod /\ checks = PerPeriod
    /\ now' = now + 1 /\ checks' = 0
    /\ UNCHANGED <<db, objects, pending, pc, tx, faults>>

Delete ==
    /\ \/ \E o \in objects : Journal!Remove({o})
       \/ \E t \in pending : Journal!Forget(t)
    /\ UNCHANGED <<now, checks, db, pc, tx, faults>>

CheckStep ==
    \/ NextPartition \/ SweepCalls \/ CleanupSweptCalls \/ DerefSweptCallAudios
    \/ PruneAudioPrefix \/ DetachPartition \/ CreatePartitions \/ Commit

Next ==
    \/ Check \/ CheckStep \/ Abort \/ Crash
    \/ \E c \in Calls : AddToIncident(c) \/ RemoveFromIncident(c)
    \/ Advance \/ Delete

Spec == Init /\ [][Next]_vars

\* Check is called again and again and goes on; its two statements follow one
\* another at once, so no user comes between them every time; the journal
\* does its work (RefJournal!DeletesHappen).  No user and no failure is owed.
FairSpec ==
    /\ Spec
    /\ WF_vars(Check) /\ WF_vars(CheckStep) /\ WF_vars(Delete)
    /\ SF_vars(CleanupSweptCalls /\ pc' = "deref")

-----------------------------------------------------------------------------
\* A partition is being pruned.
InHand == pc \in {"sweep", "cleanup", "deref", "ask", "detach"}

TypeOK ==
    /\ now \in FirstPeriod..LastPeriod /\ checks \in 0..PerPeriod
    /\ attached \subseteq Partitions /\ wAttached \subseteq Partitions
    /\ link \in [Calls -> {"none", "calls", "swept"}]
    /\ {swept, wSwept} \subseteq [Calls -> {"none", "ref", "blob"}]
    /\ objects \subseteq Objects /\ pending \subseteq Targets
    /\ pc \in {"idle", "next", "sweep", "cleanup", "deref", "ask", "detach",
               "create", "commit"}
    /\ at \in FirstPeriod..now /\ todo \subseteq Partitions
    /\ part \in Partitions \cup {None} /\ (InHand => part \in Partitions)
    /\ asks \subseteq Backends
    /\ burnt \in BOOLEAN /\ moved \subseteq Calls /\ faults \in 0..MaxFaults

Stored(c) == \E b \in Homes[c] : <<b, c>> \in objects

\* While no Check is under way every call of an incident can be played: its
\* row is in the table the link names, the audio in the row or in a backend.
\* (From the request to delete until COMMIT the swept copy cannot be seen.)
IncidentAudioKept ==
    pc = "idle" => \A c \in Calls :
        /\ link[c] = "calls" => PartOf[c] \in attached /\ (Homes[c] = {} \/ Stored(c))
        /\ link[c] = "swept" => swept[c] = "blob" \/ (swept[c] = "ref" /\ Stored(c))

\* The calls of a retained period keep their partition and their audio,
\* whatever Check does with the others.
RetainedUntouched ==
    \A c \in Calls : Retain = -1 \/ PartOf[c] >= now - Retain =>
        /\ PartOf[c] \in attached
        /\ \A b \in Homes[c] : <<b, c>> \in objects

\* The audio of a partition that has gone is gone or in the journal.
NoAudioLeft ==
    \A o \in objects : PartOf[o[2]] \in attached \/ TargetOf[o] \in pending

\* The calls that come in now have a partition, also when Checks of this
\* period failed.
CallsCanBeStored == now \in attached

\* A partition whose time is up is detached in the end, and its audio
\* deleted.
RetentionHappens ==
    \A p \in Partitions :
        (Retain > -1 /\ now - Retain > p)
          ~> (p \notin attached /\ \A o \in objects : PartOf[o[2]] # p)
=============================================================================
