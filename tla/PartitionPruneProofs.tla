------------------------ MODULE PartitionPruneProofs -------------------------
(***************************************************************************)
(* Proofs about PartitionPrune: type correctness, that Check leaves the    *)
(* retained periods alone, that calls can always be stored, that no audio  *)
(* of a detached partition is forgotten, and that the calls of incidents   *)
(* keep theirs.                                                            *)
(***************************************************************************)
EXTENDS PartitionPrune, TLAPS

-----------------------------------------------------------------------------
(* What makes the safety properties inductive.                             *)

\* Between two Checks nothing of a transaction is left; what is to be pruned,
\* and has been, is older than what Check keeps, and still attached until it is
\* detached.  Neither the table nor the journal is ahead of Check.
CheckInv ==
    /\ pc = "idle" => /\ wAttached = attached /\ wSwept = swept /\ moved = {}
                      /\ todo = {} /\ ~burnt
    /\ InHand => part \notin todo
    /\ \A p \in todo \cup (attached \ wAttached) \cup (IF InHand THEN {part} ELSE {}) :
          Retain > -1 /\ p < at - Retain
    /\ todo \cup (IF InHand THEN {part} ELSE {}) \subseteq wAttached
    /\ todo \subseteq attached
    /\ \A p \in attached \cup wAttached : p <= at + PreProvision
    /\ \A t \in pending : Retain > -1 /\ t[2] < at - Retain

\* What the transaction detaches has been asked for, backend by backend.
AskedInv ==
    /\ \A o \in objects : PartOf[o[2]] \in wAttached \cap attached \/ TargetOf[o] \in pending
    /\ pc \in {"ask", "detach"} =>
         \A o \in objects : PartOf[o[2]] = part => o[1] \in asks \/ TargetOf[o] \in pending
    /\ pc = "detach" => asks = {}

\* A Check of this period that succeeded has provided for the next: of the Checks
\* that ended no more than faults failed.
AheadInv ==
    /\ now \in attached
    /\ checks > faults => now + 1 \in attached
    /\ pc = "commit" => at + 1 \in wAttached

\* No call loses its partition before Check stops expecting it.
KeptInv ==
    \A c \in Calls : Retain = -1 \/ PartOf[c] >= at - Retain => PartOf[c] \in attached

\* Nobody has asked for the audio of a call.
Untouched(c) == \A b \in Homes[c] : <<b, c>> \in objects /\ <<b, PartOf[c]>> \notin pending

\* Until the transaction has asked for a delete, the audio of every attached
\* partition is untouched; from then on, that of every one it leaves attached
\* but the one in hand, which has no call of an incident any more.
UntouchedInv ==
    /\ ~burnt => \A c \in Calls : PartOf[c] \in attached => Untouched(c)
    /\ \A c \in Calls : PartOf[c] \in wAttached =>
          Untouched(c) \/ (burnt /\ pc \in {"ask", "detach"} /\ PartOf[c] = part)
    /\ pc \in {"ask", "detach"} => \A c \in Calls : wSwept[c] # "ref"

\* A reference is kept in a swept row as long as its partition is there.
RefsInv(rows, parts) ==
    \A c \in Calls : rows[c] = "ref" => PartOf[c] \in parts /\ Homes[c] # {}

LinksInv ==
    /\ RefsInv(swept, attached) /\ RefsInv(wSwept, wAttached)
    /\ \A c \in Calls :
         /\ link[c] = "calls" => PartOf[c] \in attached
         /\ link[c] = "swept" => swept[c] # "none"
         /\ swept[c] # "none" => wSwept[c] # "none"
         /\ TxLink(c) = "calls" => PartOf[c] \in wAttached
         /\ c \in moved => wSwept[c] # "none"

\* Once the partition in hand is swept, and has no way back, no user brings a
\* call of it into an incident.
NoWayBackInv ==
    /\ pc = "cleanup" /\ burnt =>
         \A c \in CallsIn(part) : TxLink(c) # "none" => wSwept[c] # "none"
    /\ pc \in {"deref", "ask", "detach"} => \A c \in CallsIn(part) : TxLink(c) # "calls"

-----------------------------------------------------------------------------
(* Type correctness.                                                       *)

LEMMA Periods ==
    /\ FirstPeriod \in Nat /\ LastPeriod \in Nat /\ PreProvision \in Nat \ {0}
    /\ Retain \in Nat \cup {-1} /\ Retain <= FirstPeriod /\ FirstPeriod <= LastPeriod
    /\ PerPeriod \in Nat \ {0} /\ MaxFaults \in Nat
BY PartitionPruneAssumption

LEMMA FaultCounted ==
    ASSUME TypeOK, NEW k, Fault(k)
    PROVE  faults' = faults + 1 /\ faults' \in 0..MaxFaults
BY Periods DEF TypeOK, Fault

LEMMA CountType ==
    ASSUME TypeOK, Count
    PROVE  checks' \in 0..PerPeriod
BY Periods DEF TypeOK, Count

LEMMA HomesType ==
    ASSUME NEW c \in Calls
    PROVE  Homes[c] \subseteq Backends /\ PartOf[c] \in Partitions
BY PartitionPruneAssumption

LEMMA AsksType == PrunableAudioRefs \subseteq Backends
BY HomesType DEF PrunableAudioRefs

LEMMA RollbackType ==
    ASSUME TypeOK, Rollback, checks' \in 0..PerPeriod, faults' \in 0..MaxFaults
    PROVE  TypeOK'
BY DEF TypeOK, Rollback, EndCheck, db, InHand

LEMMA TypeInit == Init => TypeOK
<1>. SUFFICES ASSUME Init
              PROVE  TypeOK
  OBVIOUS
<1>1. attached \subseteq Partitions
  BY DEF Init
<1>2. link \in [Calls -> {"none", "calls", "swept"}]
      /\ swept \in [Calls -> {"none", "ref", "blob"}]
  BY DEF Init
<1>3. now \in FirstPeriod..LastPeriod /\ checks \in 0..PerPeriod
      /\ at \in FirstPeriod..now /\ faults \in 0..MaxFaults
  BY Periods DEF Init
<1>. QED  BY <1>1, <1>2, <1>3 DEF Init, TypeOK, InHand

LEMMA TypeStep == TypeOK /\ [Next]_vars => TypeOK'
<1>. SUFFICES ASSUME TypeOK, [Next]_vars
              PROVE  TypeOK'
  OBVIOUS
<1>. USE DEF db, tx, InHand
<1>1. CASE Check
  <2>1. now \in FirstPeriod..now
    BY Periods DEF TypeOK
  <2>. QED  BY <1>1, <2>1 DEF Check, TypeOK
<1>2. CASE NextPartition
  BY <1>2 DEF NextPartition, TypeOK
<1>3. CASE SweepCalls
  <2>1. wSwept' \in [Calls -> {"none", "ref", "blob"}]
    BY <1>3 DEF SweepCalls, TypeOK
  <2>. QED  BY <1>3, <2>1 DEF SweepCalls, TypeOK
<1>4. CASE CleanupSweptCalls
  <2>1. CASE Rollback /\ UNCHANGED <<checks, faults>>
    BY <2>1, RollbackType DEF TypeOK
  <2>2. CASE ~(Rollback /\ UNCHANGED <<checks, faults>>)
    BY <1>4, <2>2 DEF CleanupSweptCalls, CallsIn, TypeOK
  <2>. QED  BY <2>1, <2>2
<1>5. CASE DerefSweptCallAudios
  <2>1. wSwept' \in [Calls -> {"none", "ref", "blob"}] /\ asks' \subseteq Backends
    BY <1>5, AsksType DEF DerefSweptCallAudios, TypeOK
  <2>2. faults' \in 0..MaxFaults
    BY <1>5, FaultCounted DEF DerefSweptCallAudios, TypeOK
  <2>3. pc' \in {"deref", "ask", "next"}
    BY <1>5 DEF DerefSweptCallAudios
  <2>. QED  BY <1>5, <2>1, <2>2, <2>3 DEF DerefSweptCallAudios, TypeOK
<1>6. CASE PruneAudioPrefix
  <2>1. faults' \in 0..MaxFaults
    BY <1>6, FaultCounted DEF PruneAudioPrefix, TypeOK
  <2>2. objects' \subseteq Objects
    BY <1>6 DEF PruneAudioPrefix, TypeOK, Journal!Ask
  <2>3. pending' \subseteq Targets
    <3>1. \A b \in asks : <<b, part>> \in Targets
      BY <1>6 DEF PruneAudioPrefix, TypeOK, InHand, Targets
    <3>. QED  BY <1>6, <3>1 DEF PruneAudioPrefix, TypeOK, Journal!Ask
  <2>4. asks' \subseteq Backends /\ burnt' \in BOOLEAN /\ pc' \in {"ask", "detach", "next"}
    BY <1>6 DEF PruneAudioPrefix, TypeOK
  <2>. QED  BY <1>6, <2>1, <2>2, <2>3, <2>4 DEF PruneAudioPrefix, TypeOK, InHand
<1>7. CASE DetachPartition
  <2>1. CASE Rollback /\ UNCHANGED <<checks, faults>>
    BY <2>1, RollbackType DEF TypeOK
  <2>2. CASE ~(Rollback /\ UNCHANGED <<checks, faults>>)
    BY <1>7, <2>2 DEF DetachPartition, TypeOK
  <2>. QED  BY <2>1, <2>2
<1>8. CASE CreatePartitions
  BY <1>8 DEF CreatePartitions, Expected, TypeOK
<1>9. CASE Commit
  <2>1. \A c \in Calls : TxLink(c) \in {"none", "calls", "swept"}
    BY DEF TxLink, TypeOK
  <2>. QED  BY <1>9, <2>1, CountType DEF Commit, EndCheck, TypeOK
<1>10. CASE Abort \/ Crash
  BY <1>10, RollbackType, FaultCounted, CountType DEF Abort, Crash
<1>11. ASSUME NEW c \in Calls, AddToIncident(c) \/ RemoveFromIncident(c)
       PROVE  TypeOK'
  BY <1>11 DEF AddToIncident, RemoveFromIncident, TypeOK
<1>12. CASE Advance
  BY <1>12, Periods DEF Advance, TypeOK
<1>13. CASE Delete
  <2>1. objects' \subseteq objects /\ pending' \subseteq pending
    BY <1>13 DEF Delete, Journal!Remove, Journal!Forget
  <2>. QED  BY <1>13, <2>1 DEF Delete, TypeOK
<1>14. CASE UNCHANGED vars
  BY <1>14 DEF vars, TypeOK
<1>. QED  BY <1>1, <1>2, <1>3, <1>4, <1>5, <1>6, <1>7, <1>8, <1>9, <1>10, <1>11, <1>12,
             <1>13, <1>14 DEF Next, CheckStep

\* Every state has values of the types, whatever fails.
THEOREM TypeCorrect == Spec => []TypeOK
BY TypeInit, TypeStep, PTL DEF Spec

-----------------------------------------------------------------------------
(* What Check may prune.                                                   *)

\* Every way a transaction ends without a COMMIT.
LEMMA RollbackCheck ==
    ASSUME TypeOK, CheckInv, Rollback
    PROVE  CheckInv'
BY DEF CheckInv, Rollback, EndCheck, InHand, db

LEMMA AttachedInit ==
    ASSUME Init, NEW c \in Calls
    PROVE  PartOf[c] \in attached
<1>1. PartOf[c] \in Partitions /\ PartOf[c] <= FirstPeriod
      /\ (Retain = -1 \/ PartOf[c] >= FirstPeriod - Retain)
  BY PartitionPruneAssumption
<1>2. PartOf[c] <= FirstPeriod + PreProvision
  BY <1>1, Periods DEF Partitions
<1>3. Retain # -1 => PartOf[c] \in Expected(FirstPeriod)
  BY <1>1, <1>2, Periods DEF Expected, Partitions
<1>. QED  BY <1>1, <1>2, <1>3 DEF Init

LEMMA CheckInit == Init => CheckInv
<1>. SUFFICES ASSUME Init
              PROVE  CheckInv
  OBVIOUS
<1>1. \A p \in attached : p <= at + PreProvision
  BY Periods DEF Init, Partitions
<1>. QED  BY <1>1 DEF Init, CheckInv, InHand

\* The partitions Check does not expect are those whose time is up: there is none
\* that is ahead of it.
LEMMA UnexpectedIsOld ==
    ASSUME TypeOK, CheckInv, NEW p \in attached \ Expected(now)
    PROVE  p < now - Retain
<1>1. p \in Nat /\ now \in Nat /\ at \in Nat /\ at <= now /\ p <= at + PreProvision
  BY Periods DEF TypeOK, CheckInv, Partitions
<1>2. p <= now + PreProvision
  BY <1>1, Periods
<1>. QED  BY <1>1, <1>2, Periods DEF Expected, TypeOK

LEMMA CheckStepInv == TypeOK /\ CheckInv /\ [Next]_vars => CheckInv'
<1>. SUFFICES ASSUME TypeOK, CheckInv, [Next]_vars
              PROVE  CheckInv'
  OBVIOUS
<1>0. /\ at \in Nat /\ now \in Nat /\ at <= now
      /\ attached \subseteq Nat /\ wAttached \subseteq Nat /\ todo \subseteq Nat
  BY Periods DEF TypeOK, Partitions
<1>. USE DEF db, tx, InHand
<1>1. CASE Check
  <2>1. \A p \in todo' : Retain > -1 /\ p < at' - Retain
    BY <1>1, UnexpectedIsOld DEF Check
  <2>2. \A p \in attached \cup wAttached : p <= at' + PreProvision
    <3>1. \A p \in attached \cup wAttached : p <= at + PreProvision
      BY DEF CheckInv
    <3>. QED  BY <1>0, <1>1, <3>1, Periods DEF Check
  <2>3. \A t \in pending : Retain > -1 /\ t[2] < at' - Retain
    <3>1. \A t \in pending : t[2] \in Nat /\ Retain > -1 /\ t[2] < at - Retain
      BY DEF CheckInv, TypeOK, Targets, Partitions
    <3>. QED  BY <1>0, <1>1, <3>1, Periods DEF Check
  <2>. QED  BY <1>1, <2>1, <2>2, <2>3 DEF Check, CheckInv
<1>2. CASE NextPartition
  BY <1>2 DEF NextPartition, CheckInv
<1>3. CASE SweepCalls
  BY <1>3 DEF SweepCalls, CheckInv
<1>4. CASE CleanupSweptCalls
  BY <1>4, RollbackCheck DEF CleanupSweptCalls, CheckInv
<1>5. CASE DerefSweptCallAudios
  BY <1>5 DEF DerefSweptCallAudios, CheckInv
<1>6. CASE PruneAudioPrefix
  BY <1>6 DEF PruneAudioPrefix, Journal!Ask, CheckInv
<1>7. CASE DetachPartition
  BY <1>7, RollbackCheck DEF DetachPartition, CheckInv
<1>8. CASE CreatePartitions
  <2>1. \A p \in Expected(at) : p <= at + PreProvision
    BY DEF Expected
  <2>. QED  BY <1>8, <2>1 DEF CreatePartitions, CheckInv
<1>9. CASE Commit
  BY <1>9 DEF Commit, EndCheck, CheckInv
<1>10. CASE Abort \/ Crash
  BY <1>10, RollbackCheck DEF Abort, Crash
<1>11. ASSUME NEW c \in Calls, AddToIncident(c) \/ RemoveFromIncident(c)
       PROVE  CheckInv'
  BY <1>11 DEF AddToIncident, RemoveFromIncident, CheckInv
<1>12. CASE Advance
  BY <1>12 DEF Advance, CheckInv
<1>13. CASE Delete
  <2>1. pending' \subseteq pending
    BY <1>13 DEF Delete, Journal!Remove, Journal!Forget
  <2>. QED  BY <1>13, <2>1 DEF Delete, CheckInv
<1>14. CASE UNCHANGED vars
  BY <1>14 DEF vars, CheckInv
<1>. QED  BY <1>1, <1>2, <1>3, <1>4, <1>5, <1>6, <1>7, <1>8, <1>9, <1>10, <1>11, <1>12,
             <1>13, <1>14 DEF Next, CheckStep

LEMMA CheckInvariant == Spec => [](TypeOK /\ CheckInv)
BY TypeInit, TypeStep, CheckInit, CheckStepInv, PTL DEF Spec

-----------------------------------------------------------------------------
(* Retained periods.                                                       *)

\* What a step may do to the table, the journal and the backends: a partition goes
\* that is old, an object goes that was asked for.
LEMMA TablesStep ==
    ASSUME TypeOK, CheckInv, [Next]_vars
    PROVE  /\ \A p \in attached \ attached' : Retain > -1 /\ p < now - Retain
           /\ \A o \in objects \ objects' : TargetOf[o] \in pending
           /\ now <= now'
<1>0. now \in Nat /\ at \in Nat /\ at <= now
  BY Periods DEF TypeOK
<1>1. \A p \in attached \ wAttached : Retain > -1 /\ p < now - Retain
  <2>1. \A p \in attached \ wAttached : p \in Nat /\ Retain > -1 /\ p < at - Retain
    BY Periods DEF CheckInv, TypeOK, Partitions
  <2>. QED  BY <1>0, <2>1, Periods
<1>2. attached' = attached \/ attached' = wAttached
  BY DEF Next, CheckStep, Check, NextPartition, SweepCalls, CleanupSweptCalls,
         DerefSweptCallAudios, PruneAudioPrefix, DetachPartition, CreatePartitions, Commit,
         Abort, Crash, Rollback, AddToIncident, RemoveFromIncident, Advance, Delete, db, vars
<1>3. \A o \in objects \ objects' : TargetOf[o] \in pending
  BY DEF Next, CheckStep, Check, NextPartition, SweepCalls, CleanupSweptCalls,
         DerefSweptCallAudios, PruneAudioPrefix, DetachPartition, CreatePartitions, Commit,
         Abort, Crash, Rollback, AddToIncident, RemoveFromIncident, Advance, Delete, vars,
         Journal!Ask, Journal!Remove, Journal!Forget
<1>4. now <= now'
  BY <1>0 DEF Next, CheckStep, Check, NextPartition, SweepCalls, CleanupSweptCalls,
         DerefSweptCallAudios, PruneAudioPrefix, DetachPartition, CreatePartitions, Commit,
         Abort, Crash, Rollback, EndCheck, AddToIncident, RemoveFromIncident, Advance, Delete,
         vars
<1>. QED  BY <1>1, <1>2, <1>3, <1>4

\* The calls of a retained period keep their partition and their audio, whatever
\* fails and whatever users do meanwhile.
THEOREM RetainedKept == Spec => []RetainedUntouched
<1>1. Init => RetainedUntouched
  <2>. SUFFICES ASSUME Init, NEW c \in Calls, Retain = -1 \/ PartOf[c] >= now - Retain
                PROVE  /\ PartOf[c] \in attached
                       /\ \A b \in Homes[c] : <<b, c>> \in objects
    BY DEF RetainedUntouched
  <2>1. \A b \in Homes[c] : <<b, c>> \in Objects
    BY HomesType DEF Objects
  <2>. QED  BY AttachedInit, <2>1 DEF Init
<1>2. TypeOK /\ CheckInv /\ RetainedUntouched /\ [Next]_vars => RetainedUntouched'
  <2>. SUFFICES ASSUME TypeOK, CheckInv, RetainedUntouched, [Next]_vars,
                       NEW c \in Calls, Retain = -1 \/ PartOf[c] >= now' - Retain
                PROVE  /\ PartOf[c] \in attached'
                       /\ \A b \in Homes[c] : <<b, c>> \in objects'
    BY DEF RetainedUntouched
  <2>1. now \in Nat /\ at \in Nat /\ now' \in Nat /\ at <= now /\ PartOf[c] \in Nat
        /\ Homes[c] \subseteq Backends
    BY TypeStep, Periods, HomesType DEF TypeOK, Partitions
  <2>2. Retain = -1 \/ PartOf[c] >= now - Retain
    BY <2>1, TablesStep, Periods
  <2>3. PartOf[c] \in attached /\ \A b \in Homes[c] : <<b, c>> \in objects
    BY <2>2 DEF RetainedUntouched
  <2>4. PartOf[c] \in attached'
    BY <2>1, <2>2, <2>3, TablesStep, Periods
  <2>5. ASSUME NEW b \in Homes[c], <<b, c>> \notin objects'
        PROVE  FALSE
    <3>1. <<b, c>> \in Objects /\ TargetOf[<<b, c>>] = <<b, PartOf[c]>>
      BY <2>3 DEF TypeOK, TargetOf
    <3>2. <<b, PartOf[c]>> \in pending
      BY <2>3, <2>5, <3>1, TablesStep
    <3>3. Retain > -1 /\ PartOf[c] < at - Retain
      BY <3>2 DEF CheckInv
    <3>. QED  BY <2>1, <2>2, <3>3, Periods
  <2>. QED  BY <2>4, <2>5
<1>. QED  BY <1>1, <1>2, CheckInvariant, PTL DEF Spec

-----------------------------------------------------------------------------
(* Calls can be stored.                                                    *)

LEMMA AheadInit == Init => AheadInv
<1>. SUFFICES ASSUME Init
              PROVE  AheadInv
  OBVIOUS
<1>1. now \in attached
  BY Periods DEF Init, Expected, Partitions
<1>. QED  BY <1>1 DEF Init, AheadInv

\* A Check that ends counts with the failures it had.
LEMMA RollbackAhead ==
    ASSUME TypeOK, AheadInv, Rollback,
           UNCHANGED <<checks, faults>> \/ (Count /\ faults' = faults + 1)
    PROVE  AheadInv'
<1>1. checks \in Nat /\ faults \in Nat
  BY Periods DEF TypeOK
<1>2. checks' > faults' => checks > faults
  BY <1>1 DEF Count
<1>. QED  BY <1>2 DEF AheadInv, Rollback, EndCheck, db

LEMMA AheadStep ==
    ASSUME PerPeriod > MaxFaults
    PROVE  TypeOK /\ CheckInv /\ AheadInv /\ [Next]_vars => AheadInv'
<1>. SUFFICES ASSUME TypeOK, CheckInv, AheadInv, [Next]_vars
              PROVE  AheadInv'
  OBVIOUS
<1>0. /\ now \in Nat /\ at \in Nat /\ at <= now /\ checks \in Nat /\ faults \in Nat
      /\ faults <= MaxFaults /\ now <= LastPeriod
  BY Periods DEF TypeOK
<1>. USE DEF db, tx
<1>1. CASE Check \/ NextPartition \/ SweepCalls
  BY <1>1 DEF Check, NextPartition, SweepCalls, AheadInv
<1>2. CASE CleanupSweptCalls \/ DetachPartition
  <2>1. CASE Rollback /\ UNCHANGED <<checks, faults>>
    BY <2>1, RollbackAhead
  <2>2. CASE ~(Rollback /\ UNCHANGED <<checks, faults>>)
    BY <1>2, <2>2 DEF CleanupSweptCalls, DetachPartition, AheadInv
  <2>. QED  BY <2>1, <2>2
<1>3. CASE DerefSweptCallAudios \/ PruneAudioPrefix
  <2>1. UNCHANGED <<now, checks, attached>>
    BY <1>3 DEF DerefSweptCallAudios, PruneAudioPrefix
  <2>2. pc' # "commit"
    BY <1>3 DEF DerefSweptCallAudios, PruneAudioPrefix
  <2>3. faults' = faults \/ faults' = faults + 1
    BY <1>3 DEF DerefSweptCallAudios, PruneAudioPrefix, Fault
  <2>. QED  BY <1>0, <2>1, <2>2, <2>3 DEF AheadInv
<1>4. CASE CreatePartitions
  <2>1. at + 1 \in Expected(at)
    BY <1>0, Periods DEF Expected, Partitions
  <2>2. at + 1 \in attached => at + 1 \in wAttached
    BY <1>0, Periods DEF CheckInv
  <2>. QED  BY <1>4, <2>1, <2>2 DEF CreatePartitions, AheadInv
<1>5. CASE Commit
  <2>1. now \in attached' /\ (now + 1 \in attached => now + 1 \in attached')
    <3>1. \A p \in attached \ wAttached : p < at - Retain /\ Retain > -1
      BY DEF CheckInv
    <3>. QED  BY <1>0, <1>5, <3>1, Periods DEF Commit, AheadInv
  <2>2. at = now => now + 1 \in attached'
    BY <1>5 DEF Commit, AheadInv
  <2>3. checks' > faults' => at = now \/ checks > faults
    BY <1>5 DEF Commit, Count
  <2>. QED  BY <1>5, <2>1, <2>2, <2>3 DEF Commit, EndCheck, AheadInv
<1>6. CASE Abort \/ Crash
  BY <1>6, RollbackAhead, FaultCounted DEF Abort, Crash
<1>7. ASSUME NEW c \in Calls, AddToIncident(c) \/ RemoveFromIncident(c)
      PROVE  AheadInv'
  BY <1>7 DEF AddToIncident, RemoveFromIncident, AheadInv
<1>8. CASE Advance
  <2>1. checks > faults
    BY <1>0, <1>8, Periods DEF Advance
  <2>2. ~(checks' > faults')
    BY <1>0, <1>8 DEF Advance
  <2>. QED  BY <1>8, <2>1, <2>2 DEF Advance, AheadInv
<1>9. CASE Delete \/ UNCHANGED vars
  BY <1>9 DEF Delete, vars, AheadInv
<1>. QED  BY <1>1, <1>2, <1>3, <1>4, <1>5, <1>6, <1>7, <1>8, <1>9 DEF Next, CheckStep

\* There is a partition for the calls that come in now, in every period in which
\* one Check at least neither fails nor is spoilt.
THEOREM AlwaysStorable ==
    ASSUME PerPeriod > MaxFaults
    PROVE  Spec => []CallsCanBeStored
<1>1. AheadInv => CallsCanBeStored
  BY DEF AheadInv, CallsCanBeStored
<1>. QED  BY <1>1, AheadInit, AheadStep, CheckInvariant, PTL DEF Spec

-----------------------------------------------------------------------------
(* No audio is left behind.                                                *)

LEMMA TargetOfObject ==
    ASSUME TypeOK, NEW o \in objects
    PROVE  /\ TargetOf[o] = <<o[1], PartOf[o[2]]>>
           /\ o[2] \in Calls /\ o[1] \in Homes[o[2]]
BY DEF TypeOK, TargetOf, Objects

\* No object appears, and what was asked for stays asked for as long as there is
\* something to delete.
LEMMA JournalStep ==
    ASSUME TypeOK, [Next]_vars
    PROVE  /\ objects' \subseteq objects
           /\ \A o \in objects' : TargetOf[o] \in pending => TargetOf[o] \in pending'
<1>1. CASE UNCHANGED <<objects, pending>>
  BY <1>1
<1>2. CASE PruneAudioPrefix
  BY <1>2 DEF PruneAudioPrefix, Journal!Ask
<1>3. CASE Delete
  BY <1>3 DEF Delete, Journal!Remove, Journal!Forget, Journal!Left
<1>. QED  BY <1>1, <1>2, <1>3
          DEF Next, CheckStep, Check, NextPartition, SweepCalls, CleanupSweptCalls,
              DerefSweptCallAudios, DetachPartition, CreatePartitions, Commit, Abort, Crash,
              Rollback, AddToIncident, RemoveFromIncident, Advance, vars

LEMMA AskedInit == Init => AskedInv
<1>. SUFFICES ASSUME Init
              PROVE  AskedInv
  OBVIOUS
<1>1. ASSUME NEW o \in objects
      PROVE  PartOf[o[2]] \in attached
  BY <1>1, AttachedInit DEF Init, Objects
<1>. QED  BY <1>1 DEF Init, AskedInv

\* Without a call at the first instant of its period the backends of a partition are
\* those that hold a call of it.
LEMMA PrunableOfPart ==
    ASSUME AtStart = {}, NEW c \in Calls, PartOf[c] = part, part \in wAttached
    PROVE  Homes[c] \subseteq PrunableAudioRefs
BY DEF PrunableAudioRefs

LEMMA AskedStep ==
    ASSUME AtStart = {}
    PROVE  TypeOK /\ AskedInv /\ [Next]_vars => AskedInv'
<1>. SUFFICES ASSUME TypeOK, AskedInv, [Next]_vars
              PROVE  AskedInv'
  OBVIOUS
<1>. USE DEF db, tx
<1>1. ASSUME \A p \in wAttached \cap attached : p \in wAttached' \cap attached'
      PROVE  \A o \in objects' : PartOf[o[2]] \in wAttached' \cap attached'
                                  \/ TargetOf[o] \in pending'
  BY <1>1, JournalStep DEF AskedInv
<1>2. CASE Rollback /\ UNCHANGED <<checks, faults>>
  BY <1>2, <1>1 DEF Rollback, EndCheck, AskedInv
<1>3. CASE Check \/ NextPartition \/ SweepCalls \/ CleanupSweptCalls
  BY <1>3, <1>2, <1>1 DEF Check, NextPartition, SweepCalls, CleanupSweptCalls, AskedInv
<1>4. CASE DerefSweptCallAudios
  <2>1. UNCHANGED <<attached, wAttached, objects, pending, part>>
    BY <1>4 DEF DerefSweptCallAudios
  <2>2. pc' \in {"deref", "next"} \/ (pc' = "ask" /\ asks' = PrunableAudioRefs)
    BY <1>4 DEF DerefSweptCallAudios
  <2>3. ASSUME NEW o \in objects, PartOf[o[2]] = part
        PROVE  o[1] \in PrunableAudioRefs \/ TargetOf[o] \in pending
    BY <2>3, PrunableOfPart, TargetOfObject DEF AskedInv
  <2>. QED  BY <2>1, <2>2, <2>3 DEF AskedInv
<1>5. CASE PruneAudioPrefix
  <2>1. UNCHANGED <<attached, wAttached, objects, part>>
    BY <1>5 DEF PruneAudioPrefix, Journal!Ask
  <2>2. \/ /\ pc' = "ask" /\ pc = "ask"
           /\ \E b \in asks : pending' = pending \cup {<<b, part>>} /\ asks' = asks \ {b}
        \/ asks = {} /\ asks' = {} /\ pc = "ask" /\ pc' = "detach" /\ pending' = pending
        \/ pc' = "next" /\ pending' = pending
    BY <1>5 DEF PruneAudioPrefix, Journal!Ask
  <2>3. \A o \in objects : PartOf[o[2]] = part => TargetOf[o] = <<o[1], part>>
    BY TargetOfObject
  <2>. QED  BY <2>1, <2>2, <2>3 DEF AskedInv
<1>6. CASE DetachPartition /\ ~(Rollback /\ UNCHANGED <<checks, faults>>)
  BY <1>6 DEF DetachPartition, AskedInv
<1>7. CASE CreatePartitions \/ Commit
  BY <1>7 DEF CreatePartitions, Commit, EndCheck, AskedInv
<1>8. CASE Abort \/ Crash
  BY <1>8, <1>1 DEF Abort, Crash, Rollback, EndCheck, AskedInv
<1>9. ASSUME NEW c \in Calls, AddToIncident(c) \/ RemoveFromIncident(c)
      PROVE  AskedInv'
  BY <1>9 DEF AddToIncident, RemoveFromIncident, AskedInv
<1>10. CASE Advance \/ UNCHANGED vars
  BY <1>10 DEF Advance, vars, AskedInv
<1>11. CASE Delete
  <2>1. UNCHANGED <<attached, wAttached, pc, part, asks>>
    BY <1>11 DEF Delete
  <2>. QED  BY <2>1, JournalStep DEF AskedInv
<1>. QED  BY <1>2, <1>3, <1>4, <1>5, <1>6, <1>7, <1>8, <1>9, <1>10, <1>11
          DEF Next, CheckStep, DetachPartition

\* What a detached partition leaves in the backends has been given to the journal,
\* whatever fails: but for a call dated the first instant of its period, which
\* GetPrunableAudioRefs counts in the period before.
THEOREM AudioOfDetachedAsked ==
    ASSUME AtStart = {}
    PROVE  Spec => []NoAudioLeft
<1>1. AskedInv => NoAudioLeft
  BY DEF AskedInv, NoAudioLeft
<1>. QED  BY <1>1, AskedInit, AskedStep, CheckInvariant, PTL DEF Spec

-----------------------------------------------------------------------------
(* The calls of incidents keep their audio.                                *)

AudioInv == KeptInv /\ UntouchedInv /\ LinksInv /\ NoWayBackInv

\* Users who leave alone what is being pruned, and no failure after a request.
Careful == ~Racy /\ "late" \notin Faults

LEMMA UntouchedInit ==
    ASSUME Init, NEW c \in Calls
    PROVE  Untouched(c)
<1>1. \A b \in Homes[c] : <<b, c>> \in Objects
  BY HomesType DEF Objects
<1>. QED  BY <1>1 DEF Init, Untouched

LEMMA AudioInit == Init => AudioInv
<1>. SUFFICES ASSUME Init
              PROVE  AudioInv
  OBVIOUS
<1>1. KeptInv
  BY AttachedInit DEF KeptInv
<1>2. UntouchedInv
  BY UntouchedInit DEF UntouchedInv, Init
<1>3. LinksInv
  BY DEF LinksInv, RefsInv, TxLink, Init
<1>4. NoWayBackInv
  BY DEF NoWayBackInv, Init
<1>. QED  BY <1>1, <1>2, <1>3, <1>4 DEF AudioInv

\* The calls of the partitions that Check creates have theirs already: what is
\* created has no call yet.
LEMMA CreatedIsEmpty ==
    ASSUME TypeOK, KeptInv, NEW c \in Calls, PartOf[c] \in Expected(at) \ attached
    PROVE  FALSE
BY DEF KeptInv, Expected

\* The journal does not touch what nobody asked for.
LEMMA DeleteUntouched ==
    ASSUME TypeOK, Delete, NEW c \in Calls, Untouched(c)
    PROVE  Untouched(c)'
<1>1. pending' \subseteq pending
  BY DEF Delete, Journal!Remove, Journal!Forget
<1>2. ASSUME NEW b \in Homes[c], <<b, c>> \notin objects'
      PROVE  FALSE
  <2>1. <<b, c>> \in objects /\ <<b, PartOf[c]>> \notin pending
    BY DEF Untouched
  <2>2. TargetOf[<<b, c>>] = <<b, PartOf[c]>>
    BY <2>1 DEF TypeOK, TargetOf
  <2>3. TargetOf[<<b, c>>] \in pending
    BY <1>2, <2>1 DEF Delete, Journal!Remove, Journal!Forget
  <2>. QED  BY <2>1, <2>2, <2>3
<1>. QED  BY <1>1, <1>2 DEF Untouched

\* What a transaction that has asked for nothing leaves when it is rolled back.
LEMMA RollbackAudio ==
    ASSUME AudioInv, ~burnt, Rollback
    PROVE  AudioInv'
<1>. USE DEF AudioInv, Rollback, EndCheck, db
<1>1. KeptInv'
  BY DEF KeptInv
<1>2. \A c \in Calls : Untouched(c) => Untouched(c)'
  BY DEF Untouched
<1>3. UntouchedInv'
  BY <1>2 DEF UntouchedInv
<1>4. LinksInv'
  BY DEF LinksInv, RefsInv, TxLink
<1>5. NoWayBackInv'
  BY DEF NoWayBackInv
<1>. QED  BY <1>1, <1>3, <1>4, <1>5

\* The statements that can fail of themselves do not once a delete is under way.
LEMMA RolledBackEarly ==
    ASSUME Careful, AudioInv,
           Abort \/ Crash \/ (Rollback /\ (CleanupSweptCalls \/ DetachPartition))
    PROVE  ~burnt
<1>1. CASE Abort \/ Crash
  BY <1>1 DEF Careful, Abort, Crash, Fault
<1>2. CASE Rollback /\ CleanupSweptCalls
  BY <1>2 DEF Rollback, EndCheck, CleanupSweptCalls, AudioInv, NoWayBackInv
<1>3. CASE Rollback /\ DetachPartition
  <2>1. /\ pc = "detach" /\ pc' = "idle"
        /\ (\E c \in CallsIn(part) : TxLink(c) = "calls") \/ pc' = "next"
    BY <1>3 DEF Rollback, EndCheck, DetachPartition
  <2>. QED  BY <2>1 DEF AudioInv, NoWayBackInv
<1>. QED  BY <1>1, <1>2, <1>3

LEMMA KeptStep == TypeOK /\ CheckInv /\ KeptInv /\ [Next]_vars => KeptInv'
<1>. SUFFICES ASSUME TypeOK, CheckInv, KeptInv, [Next]_vars, NEW c \in Calls,
                     Retain = -1 \/ PartOf[c] >= at' - Retain
              PROVE  PartOf[c] \in attached'
  BY DEF KeptInv
<1>1. at \in Nat /\ at' \in Nat /\ PartOf[c] \in Nat
  BY TypeStep, Periods, HomesType DEF TypeOK, Partitions
<1>2. at' = at \/ at' = now
  BY DEF Next, CheckStep, Check, NextPartition, SweepCalls, CleanupSweptCalls,
         DerefSweptCallAudios, PruneAudioPrefix, DetachPartition, CreatePartitions, Commit,
         Abort, Crash, Rollback, EndCheck, AddToIncident, RemoveFromIncident, Advance, Delete,
         tx, vars
<1>3. attached' = attached \/ attached' = wAttached
  BY DEF Next, CheckStep, Check, NextPartition, SweepCalls, CleanupSweptCalls,
         DerefSweptCallAudios, PruneAudioPrefix, DetachPartition, CreatePartitions, Commit,
         Abort, Crash, Rollback, AddToIncident, RemoveFromIncident, Advance, Delete, db, vars
<1>4. at <= at'
  BY <1>1, <1>2, Periods DEF TypeOK
<1>5. Retain = -1 \/ PartOf[c] >= at - Retain
  BY <1>1, <1>4, Periods
<1>6. PartOf[c] \in attached
  BY <1>5 DEF KeptInv
<1>7. PartOf[c] \in attached \ wAttached => Retain > -1 /\ PartOf[c] < at - Retain
  BY DEF CheckInv
<1>. QED  BY <1>1, <1>3, <1>5, <1>6, <1>7, Periods

\* A step that leaves the backends and the journal alone leaves every call's audio.
LEMMA UntouchedKept ==
    ASSUME UNCHANGED <<objects, pending>>, NEW c \in Calls
    PROVE  Untouched(c)' <=> Untouched(c)
BY DEF Untouched

LEMMA UntouchedStep ==
    ASSUME Careful
    PROVE  TypeOK /\ CheckInv /\ AudioInv /\ [Next]_vars => UntouchedInv'
<1>. SUFFICES ASSUME TypeOK, CheckInv, AudioInv, [Next]_vars
              PROVE  UntouchedInv'
  OBVIOUS
<1>0. UntouchedInv
  BY DEF AudioInv
<1>. USE DEF db, tx
<1>1. CASE Check \/ NextPartition \/ SweepCalls
  BY <1>0, <1>1, UntouchedKept DEF Check, NextPartition, SweepCalls, UntouchedInv
<1>2. CASE Rollback /\ (CleanupSweptCalls \/ DetachPartition)
  BY <1>2, RolledBackEarly, RollbackAudio DEF AudioInv
<1>3. CASE CleanupSweptCalls /\ ~Rollback
  BY <1>0, <1>3, UntouchedKept DEF CleanupSweptCalls, UntouchedInv
<1>4. CASE DerefSweptCallAudios
  <2>1. UNCHANGED <<attached, wAttached, objects, pending, burnt, part>> /\ pc = "deref"
    BY <1>4 DEF DerefSweptCallAudios
  <2>2. pc' \in {"deref", "next"} \/ (pc' = "ask" /\ \A c \in Calls : wSwept'[c] # "ref")
    BY <1>4 DEF DerefSweptCallAudios
  <2>. QED  BY <1>0, <2>1, <2>2, UntouchedKept DEF UntouchedInv
<1>5. CASE PruneAudioPrefix
  <2>1. UNCHANGED <<attached, wAttached, wSwept, objects, part>> /\ pc = "ask"
    BY <1>5 DEF PruneAudioPrefix, Journal!Ask
  <2>2. CASE UNCHANGED <<pending, burnt>> /\ pc' \in {"ask", "detach"}
    BY <1>0, <2>1, <2>2, UntouchedKept DEF UntouchedInv
  <2>3. CASE ~burnt /\ UNCHANGED <<pending, burnt>> /\ pc' = "next"
    BY <1>0, <2>1, <2>3, UntouchedKept DEF UntouchedInv
  <2>4. CASE /\ burnt' /\ pc' = "ask"
             /\ \E b \in asks : pending' = pending \cup {<<b, part>>}
    <3>1. ASSUME NEW c \in Calls, Untouched(c), PartOf[c] # part
          PROVE  Untouched(c)'
      BY <2>1, <2>4, <3>1 DEF Untouched
    <3>. QED  BY <1>0, <2>1, <2>4, <3>1 DEF UntouchedInv
  <2>. QED  BY <1>5, <2>2, <2>3, <2>4 DEF PruneAudioPrefix, Journal!Ask, Fault, Careful
<1>6. CASE DetachPartition /\ ~Rollback
  <2>1. wAttached' = wAttached \ {part} /\ pc' = "next"
        /\ UNCHANGED <<attached, objects, pending, burnt, part>>
    BY <1>6 DEF DetachPartition
  <2>. QED  BY <1>0, <2>1, UntouchedKept DEF UntouchedInv
<1>7. CASE CreatePartitions
  <2>1. wAttached' = wAttached \cup (Expected(at) \ attached) /\ pc = "create"
        /\ pc' = "commit" /\ UNCHANGED <<attached, objects, pending, burnt, part>>
    BY <1>7 DEF CreatePartitions
  <2>2. \A c \in Calls : PartOf[c] \in wAttached' => PartOf[c] \in wAttached
    BY <2>1, CreatedIsEmpty DEF AudioInv
  <2>. QED  BY <1>0, <2>1, <2>2, UntouchedKept DEF UntouchedInv
<1>8. CASE Commit
  BY <1>0, <1>8, UntouchedKept DEF Commit, EndCheck, UntouchedInv
<1>9. CASE Abort \/ Crash
  BY <1>9, RolledBackEarly, RollbackAudio DEF Abort, Crash, AudioInv
<1>10. ASSUME NEW c \in Calls, AddToIncident(c) \/ RemoveFromIncident(c)
       PROVE  UntouchedInv'
  BY <1>0, <1>10, UntouchedKept DEF AddToIncident, RemoveFromIncident, UntouchedInv
<1>11. CASE Advance \/ UNCHANGED vars
  BY <1>0, <1>11, UntouchedKept DEF Advance, vars, UntouchedInv
<1>12. CASE Delete
  <2>1. UNCHANGED <<attached, wAttached, wSwept, burnt, pc, part>>
    BY <1>12 DEF Delete
  <2>. QED  BY <1>0, <1>12, <2>1, DeleteUntouched DEF UntouchedInv
<1>. QED  BY <1>1, <1>2, <1>3, <1>4, <1>5, <1>6, <1>7, <1>8, <1>9, <1>10, <1>11, <1>12
          DEF Next, CheckStep

LEMMA LinksStep ==
    ASSUME Careful
    PROVE  TypeOK /\ CheckInv /\ AudioInv /\ [Next]_vars => LinksInv'
<1>. SUFFICES ASSUME TypeOK, CheckInv, AudioInv, [Next]_vars
              PROVE  LinksInv'
  OBVIOUS
<1>0. LinksInv
  BY DEF AudioInv
<1>. USE DEF db, tx, RefsInv
<1>1. CASE Check \/ NextPartition
  BY <1>0, <1>1 DEF Check, NextPartition, LinksInv, TxLink
<1>2. CASE SweepCalls
  <2>1. UNCHANGED <<db, wAttached, moved>> /\ part \in wAttached
    BY <1>2 DEF SweepCalls, CheckInv, InHand
  <2>2. ASSUME NEW c \in Calls
        PROVE  /\ wSwept[c] # "none" => wSwept'[c] # "none"
               /\ wSwept'[c] = "ref" => wSwept[c] = "ref" \/ (PartOf[c] = part /\ Homes[c] # {})
    BY <1>2 DEF SweepCalls
  <2>. QED  BY <1>0, <2>1, <2>2 DEF LinksInv, TxLink
<1>3. CASE Rollback /\ (CleanupSweptCalls \/ DetachPartition)
  BY <1>3, RolledBackEarly, RollbackAudio DEF AudioInv
<1>4. CASE CleanupSweptCalls /\ ~Rollback
  BY <1>0, <1>4 DEF CleanupSweptCalls, LinksInv, TxLink, CallsIn
<1>5. CASE DerefSweptCallAudios
  <2>1. UNCHANGED <<db, wAttached, moved>>
    BY <1>5 DEF DerefSweptCallAudios
  <2>2. ASSUME NEW c \in Calls
        PROVE  /\ wSwept[c] # "none" => wSwept'[c] # "none"
               /\ wSwept'[c] = "ref" => wSwept[c] = "ref"
    BY <1>5 DEF DerefSweptCallAudios, TypeOK
  <2>. QED  BY <1>0, <2>1, <2>2 DEF LinksInv, TxLink
<1>6. CASE PruneAudioPrefix
  BY <1>0, <1>6 DEF PruneAudioPrefix, LinksInv, TxLink
<1>7. CASE DetachPartition /\ ~Rollback
  <2>1. UNCHANGED <<db, wSwept, moved>> /\ wAttached' = wAttached \ {part} /\ pc = "detach"
    BY <1>7 DEF DetachPartition
  <2>2. \A c \in Calls : wSwept[c] # "ref" /\ (PartOf[c] = part => TxLink(c) # "calls")
    BY <2>1 DEF AudioInv, UntouchedInv, NoWayBackInv, CallsIn
  <2>. QED  BY <1>0, <2>1, <2>2 DEF LinksInv, TxLink
<1>8. CASE CreatePartitions
  BY <1>0, <1>8 DEF CreatePartitions, LinksInv, TxLink
<1>9. CASE Commit
  <2>1. /\ attached' = wAttached /\ wAttached' = wAttached /\ swept' = wSwept
        /\ wSwept' = wSwept /\ moved' = {} /\ link' = [c \in Calls |-> TxLink(c)]
    BY <1>9 DEF Commit, EndCheck
  <2>2. \A c \in Calls : TxLink(c)' = TxLink(c)
    BY <2>1 DEF TxLink
  <2>3. \A c \in Calls : TxLink(c) = "swept" => wSwept[c] # "none"
    BY <1>0 DEF LinksInv, TxLink
  <2>. QED  BY <1>0, <2>1, <2>2, <2>3 DEF LinksInv
<1>10. CASE Abort \/ Crash
  BY <1>10, RolledBackEarly, RollbackAudio DEF Abort, Crash, AudioInv
<1>11. ASSUME NEW c \in Calls, AddToIncident(c) \/ RemoveFromIncident(c)
       PROVE  LinksInv'
  <2>1. link \in [Calls -> {"none", "calls", "swept"}]
    BY DEF TypeOK
  <2>. QED  BY <1>0, <1>11, <2>1
            DEF AddToIncident, RemoveFromIncident, LinksInv, TxLink, Unlocked
<1>12. CASE Advance \/ Delete \/ UNCHANGED vars
  BY <1>0, <1>12 DEF Advance, Delete, vars, LinksInv, TxLink
<1>. QED  BY <1>1, <1>2, <1>3, <1>4, <1>5, <1>6, <1>7, <1>8, <1>9, <1>10, <1>11, <1>12
          DEF Next, CheckStep

LEMMA NoWayBackStep ==
    ASSUME Careful
    PROVE  TypeOK /\ CheckInv /\ AudioInv /\ [Next]_vars => NoWayBackInv'
<1>. SUFFICES ASSUME TypeOK, CheckInv, AudioInv, [Next]_vars
              PROVE  NoWayBackInv'
  OBVIOUS
<1>0. NoWayBackInv
  BY DEF AudioInv
<1>. USE DEF db, tx, CallsIn
<1>1. CASE Check \/ NextPartition \/ CreatePartitions \/ Commit \/ Abort \/ Crash
  BY <1>1 DEF Check, NextPartition, CreatePartitions, Commit, Abort, Crash, Rollback, EndCheck,
              NoWayBackInv
<1>2. CASE SweepCalls
  <2>1. pc' = "cleanup" /\ UNCHANGED <<part, link, moved>>
    BY <1>2 DEF SweepCalls
  <2>2. \A c \in Calls : PartOf[c] = part /\ TxLink(c) # "none" => wSwept'[c] # "none"
    BY <1>2 DEF SweepCalls
  <2>. QED  BY <2>1, <2>2 DEF NoWayBackInv, TxLink
<1>3. CASE CleanupSweptCalls
  BY <1>3 DEF CleanupSweptCalls, Rollback, EndCheck, NoWayBackInv, TxLink
<1>4. CASE DerefSweptCallAudios \/ PruneAudioPrefix \/ DetachPartition
  BY <1>0, <1>4 DEF DerefSweptCallAudios, PruneAudioPrefix, DetachPartition, Rollback, EndCheck,
                    NoWayBackInv, TxLink
<1>5. ASSUME NEW c \in Calls, AddToIncident(c)
      PROVE  NoWayBackInv'
  <2>1. /\ ~TooLate(c) /\ \A d \in Calls : d # c => link'[d] = link[d]
        /\ UNCHANGED <<pc, part, moved, wSwept, burnt>>
    BY <1>5 DEF AddToIncident, Careful, TypeOK
  <2>2. \A d \in Calls : d # c => TxLink(d)' = TxLink(d)
    BY <2>1 DEF TxLink
  <2>. QED  BY <1>0, <2>1, <2>2 DEF NoWayBackInv, TooLate
<1>6. ASSUME NEW c \in Calls, RemoveFromIncident(c)
      PROVE  NoWayBackInv'
  <2>1. \A d \in Calls : TxLink(d)' = TxLink(d) \/ TxLink(d)' = "none"
    BY <1>6 DEF RemoveFromIncident, TxLink, TypeOK
  <2>. QED  BY <1>0, <1>6, <2>1 DEF RemoveFromIncident, NoWayBackInv
<1>7. CASE Advance \/ Delete \/ UNCHANGED vars
  BY <1>0, <1>7 DEF Advance, Delete, vars, NoWayBackInv, TxLink
<1>. QED  BY <1>1, <1>2, <1>3, <1>4, <1>5, <1>6, <1>7 DEF Next, CheckStep

LEMMA AudioIsKept ==
    ASSUME TypeOK, CheckInv, AudioInv
    PROVE  IncidentAudioKept
<1>. SUFFICES ASSUME pc = "idle", NEW c \in Calls
              PROVE  /\ link[c] = "calls" =>
                           PartOf[c] \in attached /\ (Homes[c] = {} \/ Stored(c))
                     /\ link[c] = "swept" =>
                           swept[c] = "blob" \/ (swept[c] = "ref" /\ Stored(c))
  BY DEF IncidentAudioKept
<1>1. ASSUME PartOf[c] \in attached, Homes[c] # {}
      PROVE  Stored(c)
  <2>1. Untouched(c)
    BY <1>1 DEF CheckInv, AudioInv, UntouchedInv
  <2>. QED  BY <1>1, <2>1 DEF Untouched, Stored
<1>2. swept[c] \in {"none", "ref", "blob"}
  BY DEF TypeOK
<1>3. /\ link[c] = "calls" => PartOf[c] \in attached
      /\ link[c] = "swept" => swept[c] # "none"
      /\ swept[c] = "ref" => PartOf[c] \in attached /\ Homes[c] # {}
  BY DEF AudioInv, LinksInv, RefsInv
<1>. QED  BY <1>1, <1>2, <1>3

\* Whenever no Check is under way, every call of an incident can be played, in as
\* many Checks as there may be, with any early failure in each: provided no user adds
\* a call that is being pruned, and nothing fails between the first request to delete
\* and the COMMIT.
THEOREM IncidentsPlayable ==
    ASSUME Careful
    PROVE  Spec => []IncidentAudioKept
<1>1. TypeOK /\ CheckInv /\ AudioInv /\ [Next]_vars => AudioInv'
  BY KeptStep, UntouchedStep, LinksStep, NoWayBackStep DEF AudioInv
<1>. QED  BY <1>1, AudioInit, AudioIsKept, CheckInvariant, PTL DEF Spec
=============================================================================
