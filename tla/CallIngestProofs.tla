-------------------------- MODULE CallIngestProofs --------------------------
(***************************************************************************)
(* Proofs about CallIngest: type correctness, that no row ever names an    *)
(* object that AddCall removed, that a call reported as stored has its row *)
(* and its talkgroup, that audio is where the configuration sends it and   *)
(* is left over for known reasons only, and what fsck finds and clears.    *)
(* And about Nexus, the sink the pipeline gives the call to: types, that   *)
(* the broadcasts a client hears are whole and in order, and that a call   *)
(* is handed to one worker.                                                *)
(***************************************************************************)
EXTENDS CallIngest, Nexus, TLAPS

-----------------------------------------------------------------------------
(* Type correctness.                                                       *)

LEMMA Bounds ==
    /\ MaxDir \in Nat /\ MaxFscks \in Nat /\ MaxFaults \in Nat
    /\ Len(Ingest) \in Nat /\ \A i \in 1..Len(Ingest) : Ingest[i] \in Backends
BY CallIngestAssumption

LEMMA FaultType ==
    ASSUME TypeOK, NEW k, Fault(k)
    PROVE  faults' \in 0..MaxFaults
BY Bounds DEF TypeOK, Fault

\* The call in hand.
LEMMA InHand == ASSUME TypeOK, pc # "idle" PROVE call \in Calls
BY DEF TypeOK, AdderOK

\* A group of variables that does not change keeps its type.
LEMMA Frame ==
    ASSUME TypeOK
    PROVE  /\ UNCHANGED store => StoreOK'
           /\ UNCHANGED adder => AdderOK'
           /\ UNCHANGED <<marked, checker>> => CheckerOK'
           /\ UNCHANGED history => HistoryOK'
           /\ UNCHANGED faults => faults' \in 0..MaxFaults
<1>1. UNCHANGED store => StoreOK'
  BY DEF TypeOK, StoreOK, store, aside
<1>2. UNCHANGED adder => AdderOK'
  BY DEF TypeOK, AdderOK, adder
<1>3. UNCHANGED <<marked, checker>> => CheckerOK'
  BY DEF TypeOK, CheckerOK, checker
<1>4. UNCHANGED history => HistoryOK'
  BY DEF TypeOK, HistoryOK, history
<1>5. UNCHANGED faults => faults' \in 0..MaxFaults
  BY DEF TypeOK
<1>6. QED
  BY <1>1, <1>2, <1>3, <1>4, <1>5

\* What AddCall has created is the object of the call in hand, or nothing.
Creates ==
    /\ pc = "store" => created = {}
    /\ pc \in {"insert", "learn", "again", "rollback"} =>
         created = {} \/ \E b \in Backends : created = {<<b, call>>}

LEMMA PlaceType ==
    ASSUME Creates, pc \in {"insert", "learn", "again"}
    PROVE  /\ Place \in Backends \cup {"row"} /\ Place # "no"
           /\ Place \in Backends => <<Place, call>> \in created
<1>1. CASE created = {}
  <2>1. Place = "row" /\ "row" \notin Backends
    BY <1>1, CallIngestAssumption DEF Place
  <2>2. QED
    BY <2>1
<1>2. CASE \E b \in Backends : created = {<<b, call>>}
  <2>1. PICK b \in Backends : created = {<<b, call>>}
    BY <1>2
  <2>2. (CHOOSE o \in created : TRUE) = <<b, call>>
    BY <2>1
  <2>3. Place = b
    BY <2>1, <2>2 DEF Place
  <2>4. QED
    BY <2>1, <2>3, CallIngestAssumption
<1>3. QED
  BY <1>1, <1>2 DEF Creates

LEMMA LastTxType ==
    ASSUME TypeOK, Creates, pc \in {"insert", "again"}, LastTx
    PROVE  /\ rows' \in [Calls -> Backends \cup {"row", "no"}]
           /\ doubted' \subseteq Calls /\ faults' \in 0..MaxFaults
           /\ pc' \in {"rollback", "done"} /\ created' \subseteq created
<1>1. call \in Calls /\ Place \in Backends \cup {"row"}
  BY InHand, PlaceType
<1>2. CASE ~Cancelled /\ TGKnown /\ Succeed
  BY <1>1, <1>2 DEF Succeed, AddRow, TypeOK, StoreOK
<1>3. CASE /\ pc' = "rollback" /\ UNCHANGED created
           /\ UNCHANGED <<rows, doubted, faults>>
  BY <1>3 DEF TypeOK, StoreOK
<1>4. CASE /\ pc' = "rollback" /\ UNCHANGED created
           /\ Fault("sql") /\ UNCHANGED <<rows, doubted>>
  BY <1>4, FaultType DEF TypeOK, StoreOK
<1>5. CASE /\ pc' = "rollback" /\ UNCHANGED created
           /\ Fault("commitlost") /\ AddRow /\ doubted' = doubted \cup {call}
  BY <1>1, <1>5, FaultType DEF AddRow, TypeOK, StoreOK
<1>6. QED
  BY <1>2, <1>3, <1>4, <1>5 DEF LastTx

\* The steps of AddCall and its surroundings keep the types of the store, of
\* AddCall and of the count of failures.
Typed == StoreOK' /\ AdderOK' /\ faults' \in 0..MaxFaults

LEMMA StoreFailsType ==
    ASSUME TypeOK, NEW b \in Backends, StoreFails(b),
           pc = "store", at <= Len(Ingest), UNCHANGED call
    PROVE  /\ objects' \subseteq Objects /\ refused' \subseteq Objects
           /\ faults' \in 0..MaxFaults /\ created' = created
           /\ pc' \in {"store", "insert", "done"} /\ failed' \in BOOLEAN
           /\ at' \in 1..(Len(Ingest) + 1)
<1>1. <<b, call>> \in Objects
  BY InHand DEF Objects
<1>2. objects' \subseteq Objects /\ faults' \in 0..MaxFaults
  BY <1>1, FaultType DEF StoreFails, TypeOK, StoreOK
<1>3. refused' \subseteq Objects
  BY <1>1 DEF StoreFails, TypeOK, StoreOK
<1>4. at + 1 \in 1..(Len(Ingest) + 1)
  BY Bounds DEF TypeOK, AdderOK
<1>5. /\ pc' \in {"store", "insert", "done"} /\ failed' \in BOOLEAN
      /\ at' \in 1..(Len(Ingest) + 1) /\ created' = created
  BY <1>4 DEF StoreFails, Fail, TypeOK, AdderOK
<1>6. QED
  BY <1>2, <1>3, <1>5

LEMMA StoreType ==
    ASSUME TypeOK, Creates, Store
    PROVE  Typed /\ Creates'
<1> DEFINE b == Ingest[at]
<1>1. call \in Calls /\ pc = "store" /\ call' = call /\ relay' = relay
  BY InHand DEF Store
<1>2. CASE at <= Len(Ingest) /\ call \in Accepts[b] /\ Stored(b)
  <2>1. b \in Backends /\ <<b, call>> \in Objects
    BY <1>1, <1>2, Bounds DEF TypeOK, AdderOK, Objects
  <2>2. StoreOK' /\ faults' \in 0..MaxFaults
    BY <1>2, <2>1 DEF Store, Stored, TypeOK, StoreOK, aside, Objects
  <2>3. AdderOK'
    BY <1>1, <1>2, <2>1 DEF Store, Stored, TypeOK, AdderOK
  <2>4. Creates'
    BY <1>1, <1>2, <2>1 DEF Stored, Creates
  <2>5. QED
    BY <2>2, <2>3, <2>4 DEF Typed
<1>3. CASE at <= Len(Ingest) /\ call \in Accepts[b] /\ StoreFails(b)
  <2>1. b \in Backends
    BY <1>3, Bounds DEF TypeOK, AdderOK
  <2>2. /\ objects' \subseteq Objects /\ refused' \subseteq Objects
        /\ faults' \in 0..MaxFaults /\ created' = created
        /\ pc' \in {"store", "insert", "done"} /\ failed' \in BOOLEAN
        /\ at' \in 1..(Len(Ingest) + 1)
    BY <1>1, <1>3, <2>1, StoreFailsType
  <2>3. StoreOK'
    BY <2>2 DEF Store, TypeOK, StoreOK, aside
  <2>4. AdderOK'
    BY <1>1, <2>2 DEF TypeOK, AdderOK
  <2>5. Creates'
    BY <1>1, <2>2 DEF Creates
  <2>6. QED
    BY <2>2, <2>3, <2>4, <2>5 DEF Typed
<1>4. CASE /\ at <= Len(Ingest) /\ call \notin Accepts[b] /\ at' = at + 1
           /\ UNCHANGED <<objects, refused, pc, created, failed, faults>>
  <2>1. at' \in 1..(Len(Ingest) + 1)
    BY <1>4, Bounds DEF TypeOK, AdderOK
  <2>2. StoreOK' /\ faults' \in 0..MaxFaults
    BY <1>4 DEF Store, TypeOK, StoreOK, aside
  <2>3. AdderOK' /\ Creates'
    BY <1>1, <1>4, <2>1 DEF TypeOK, AdderOK, Creates
  <2>4. QED
    BY <2>2, <2>3 DEF Typed
<1>5. CASE /\ pc' \in {"insert", "done"} /\ failed' \in BOOLEAN
           /\ UNCHANGED <<objects, refused, at, created, faults>>
  <2>1. StoreOK' /\ faults' \in 0..MaxFaults
    BY <1>5 DEF Store, TypeOK, StoreOK, aside
  <2>2. AdderOK' /\ Creates'
    BY <1>1, <1>5 DEF TypeOK, AdderOK, Creates
  <2>3. QED
    BY <2>1, <2>2 DEF Typed
<1>6. failed \in BOOLEAN
  BY DEF TypeOK, AdderOK
<1>7. QED
  BY <1>1, <1>2, <1>3, <1>4, <1>5, <1>6 DEF Store, Fail

\* Each other step of Ingests.
LEMMA IngestsType ==
    ASSUME TypeOK, Creates, Ingests
    PROVE  Typed /\ Creates'
<1>1. ASSUME NEW c \in Calls, EmitCall(c) PROVE Typed /\ Creates'
  <2>1. StoreOK' /\ faults' \in 0..MaxFaults
    BY <1>1, Frame DEF EmitCall
  <2>2. 1 \in 1..(Len(Ingest) + 1)
    BY Bounds
  <2>3. c # None
    BY CallIngestAssumption
  <2>4. relay' \in {"idle", "running"}
    BY <1>1 DEF EmitCall
  <2>5. AdderOK'
    BY <1>1, <2>2, <2>3, <2>4 DEF EmitCall, AdderOK
  <2>6. QED
    BY <1>1, <2>1, <2>5 DEF EmitCall, Creates, Typed
<1>2. CASE RelayDone
  <2>1. StoreOK' /\ faults' \in 0..MaxFaults
    BY <1>2, Frame, FaultType DEF RelayDone
  <2>2. AdderOK' /\ Creates'
    BY <1>2 DEF RelayDone, TypeOK, AdderOK, Creates
  <2>3. QED
    BY <2>1, <2>2 DEF Typed
<1>3. CASE Answer
  <2>1. StoreOK' /\ faults' \in 0..MaxFaults
    BY <1>3, InHand DEF Answer, TypeOK, StoreOK, aside
  <2>2. AdderOK' /\ Creates'
    BY <1>3 DEF Answer, TypeOK, AdderOK, Creates
  <2>3. QED
    BY <2>1, <2>2 DEF Typed
<1>4. CASE Store
  BY <1>4, StoreType
<1>5. CASE Insert
  <2>1. /\ rows' \in [Calls -> Backends \cup {"row", "no"}]
        /\ doubted' \subseteq Calls /\ faults' \in 0..MaxFaults
        /\ pc' \in {"learn", "rollback", "done"} /\ created' \subseteq created
        /\ pc' \in {"learn", "rollback"} => created' = created
    <3>1. CASE LastTx
      BY <1>5, <3>1, LastTxType DEF Insert, LastTx, Succeed
    <3>2. CASE pc' = "learn" /\ UNCHANGED <<rows, doubted, created, faults>>
      BY <3>2 DEF TypeOK, StoreOK
    <3>3. QED
      BY <1>5, <3>1, <3>2 DEF Insert
  <2>2. StoreOK'
    BY <1>5, <2>1 DEF Insert, TypeOK, StoreOK, aside
  <2>3. AdderOK' /\ Creates'
    BY <1>5, <2>1 DEF Insert, TypeOK, AdderOK, Creates
  <2>4. QED
    BY <2>1, <2>2, <2>3 DEF Typed
<1>6. CASE LearnTG
  <2>1. /\ tgs' \subseteq tgs \cup {TGOf[call]} /\ faults' \in 0..MaxFaults
        /\ pc' \in {"again", "rollback"}
    BY <1>6, FaultType DEF LearnTG, TypeOK
  <2>2. StoreOK'
    BY <1>6, <2>1, InHand DEF LearnTG, TypeOK, StoreOK, aside
  <2>3. AdderOK' /\ Creates'
    BY <1>6, <2>1 DEF LearnTG, TypeOK, AdderOK, Creates
  <2>4. QED
    BY <2>1, <2>2, <2>3 DEF Typed
<1>7. CASE InsertAgain
  <2>1. /\ rows' \in [Calls -> Backends \cup {"row", "no"}]
        /\ doubted' \subseteq Calls /\ faults' \in 0..MaxFaults
        /\ pc' \in {"rollback", "done"} /\ created' \subseteq created
        /\ pc' = "rollback" => created' = created
    BY <1>7, LastTxType DEF InsertAgain, LastTx, Succeed
  <2>2. StoreOK'
    BY <1>7, <2>1 DEF InsertAgain, TypeOK, StoreOK, aside
  <2>3. AdderOK' /\ Creates'
    BY <1>7, <2>1 DEF InsertAgain, TypeOK, AdderOK, Creates
  <2>4. QED
    BY <2>1, <2>2, <2>3 DEF Typed
<1>8. CASE Rollback
  <2>1. /\ objects' \subseteq objects /\ kept' \subseteq kept \cup created
        /\ faults' \in 0..MaxFaults
    BY <1>8, FaultType DEF Rollback, TypeOK
  <2>2. StoreOK'
    BY <1>8, <2>1 DEF Rollback, TypeOK, StoreOK, AdderOK, aside
  <2>3. AdderOK' /\ Creates'
    BY <1>8 DEF Rollback, Fail, TypeOK, AdderOK, Creates
  <2>4. QED
    BY <2>1, <2>2, <2>3 DEF Typed
<1>9. QED
  BY <1>1, <1>2, <1>3, <1>4, <1>5, <1>6, <1>7, <1>8 DEF Ingests

LEMMA FsckType ==
    ASSUME TypeOK, Fsck
    PROVE  CheckerOK' /\ faults' \in 0..MaxFaults
<1>1. ASSUME NEW b \in Backends, FsckBegin(b)
      PROVE  CheckerOK' /\ faults' \in 0..MaxFaults
  <2>1. fscks' \in 0..MaxFscks /\ 1 \in 1..(MaxDir + 1)
    BY <1>1, Bounds DEF FsckBegin, TypeOK, CheckerOK
  <2>2. QED
    BY <1>1, <2>1 DEF FsckBegin, TypeOK, CheckerOK
<1>2. ASSUME FsckEnds, marked' \subseteq Calls PROVE CheckerOK'
  <2>1. 1 \in 1..(MaxDir + 1)
    BY Bounds
  <2>2. QED
    BY <1>2, <2>1 DEF FsckEnds, TypeOK, CheckerOK
<1>3. CASE FsckList
  <2>1. dir' \in 1..(MaxDir + 1)
    BY <1>3, Bounds DEF FsckList, TypeOK, CheckerOK
  <2>2. listed' \subseteq Calls /\ faults' \in 0..MaxFaults
    BY <1>3, FaultType DEF FsckList, ObjectsIn, TypeOK, CheckerOK
  <2>3. QED
    BY <1>3, <2>1, <2>2 DEF FsckList, TypeOK, CheckerOK
<1>4. CASE FsckClear
  BY <1>4 DEF FsckClear, Naming, TypeOK, CheckerOK
<1>5. CASE FsckMark
  BY <1>5 DEF FsckMark, Naming, TypeOK, CheckerOK
<1>6. CASE FsckCommit
  <2>1. marked' \subseteq Calls /\ faults' = faults
    BY <1>6 DEF FsckCommit, TypeOK, CheckerOK
  <2>2. QED
    BY <1>2, <1>6, <2>1 DEF FsckCommit, TypeOK
<1>7. CASE FsckFails
  <2>1. marked' \subseteq Calls /\ faults' \in 0..MaxFaults
    BY <1>7, FaultType DEF FsckFails, TypeOK, CheckerOK
  <2>2. QED
    BY <1>2, <1>7, <2>1 DEF FsckFails
<1>8. QED
  BY <1>1, <1>3, <1>4, <1>5, <1>6, <1>7 DEF Fsck

LEMMA SurroundingsType ==
    ASSUME TypeOK, Admin \/ Lose
    PROVE  StoreOK' /\ faults' \in 0..MaxFaults
<1>1. CASE Admin
  BY <1>1 DEF Admin, TypeOK, StoreOK, aside
<1>2. CASE Lose
  BY <1>2, FaultType DEF Lose, TypeOK, StoreOK
<1>3. QED
  BY <1>1, <1>2

LEMMA CrashType ==
    ASSUME TypeOK, Crash
    PROVE  StoreOK' /\ AdderOK' /\ CheckerOK' /\ faults' \in 0..MaxFaults
<1>1. StoreOK'
  BY DEF Crash, TypeOK, StoreOK, AdderOK, aside
<1>2. 1 \in 1..(Len(Ingest) + 1) /\ 1 \in 1..(MaxDir + 1)
  BY Bounds
<1>3. AdderOK'
  BY <1>2 DEF Crash, AdderOK
<1>4. CheckerOK'
  BY <1>2 DEF Crash, FsckEnds, TypeOK, CheckerOK
<1>5. faults' \in 0..MaxFaults
  BY FaultType DEF Crash
<1>6. QED
  BY <1>1, <1>3, <1>4, <1>5

LEMMA WatchType ==
    ASSUME TypeOK, Watch
    PROVE  HistoryOK'
<1>1. inRows' \subseteq Calls
  BY DEF Watch, Naming, TypeOK, HistoryOK
<1>2. there' \subseteq Calls /\ absent' \subseteq Calls
  BY DEF Watch, TypeOK, HistoryOK
<1>3. skipped' \subseteq 1..(MaxDir + 1)
  BY DEF Watch, TypeOK, HistoryOK, CheckerOK
<1>4. QED
  BY <1>1, <1>2, <1>3 DEF HistoryOK

LEMMA TypeInit == Init => TypeOK /\ Creates
<1> SUFFICES ASSUME Init PROVE TypeOK /\ Creates
  OBVIOUS
<1>1. StoreOK /\ HistoryOK /\ Creates
  BY DEF Init, StoreOK, HistoryOK, Creates
<1>2. /\ 1 \in 1..(Len(Ingest) + 1) /\ 1 \in 1..(MaxDir + 1)
      /\ 0 \in 0..MaxFscks /\ 0 \in 0..MaxFaults
  BY Bounds
<1>3. AdderOK
  BY <1>2 DEF Init, AdderOK
<1>4. CheckerOK /\ faults \in 0..MaxFaults
  BY <1>2 DEF Init, CheckerOK
<1>5. QED
  BY <1>1, <1>3, <1>4 DEF TypeOK

LEMMA TypeNext ==
    ASSUME TypeOK, Creates, [Next]_vars
    PROVE  TypeOK' /\ Creates'
<1>1. CASE Ingests /\ UNCHANGED <<marked, checker>> /\ Watch
  BY <1>1, IngestsType, Frame, WatchType DEF Typed, TypeOK
<1>2. CASE Fsck /\ UNCHANGED <<store, adder>> /\ Watch
  <2>1. Creates'
    BY <1>2 DEF Creates, adder
  <2>2. QED
    BY <1>2, <2>1, FsckType, Frame, WatchType DEF TypeOK
<1>3. CASE (Admin \/ Lose) /\ UNCHANGED <<adder, marked, checker>> /\ Watch
  <2>1. Creates'
    BY <1>3 DEF Creates, adder
  <2>2. AdderOK' /\ CheckerOK'
    BY <1>3, Frame
  <2>3. QED
    BY <1>3, <2>1, <2>2, SurroundingsType, WatchType DEF TypeOK
<1>4. CASE Crash /\ Watch
  <2>1. Creates'
    BY <1>4 DEF Crash, Creates
  <2>2. QED
    BY <1>4, <2>1, CrashType, WatchType DEF TypeOK
<1>5. CASE UNCHANGED vars
  <2>1. UNCHANGED <<store, marked, adder, checker, history, faults>>
    BY <1>5 DEF vars
  <2>2. Creates'
    BY <2>1 DEF Creates, adder
  <2>3. QED
    BY <2>1, <2>2, Frame DEF TypeOK
<1>6. QED
  BY <1>1, <1>2, <1>3, <1>4, <1>5 DEF Next

\* TypeOK holds in every reachable state, for any number of calls, backends,
\* talkgroups, fscks and failures: EmitCall, AddCall and Fsck keep what they
\* work on well formed.
THEOREM TypeCorrect == Spec => []TypeOK
<1>1. TypeOK /\ Creates /\ [Next]_vars => TypeOK' /\ Creates'
  BY TypeNext
<1>2. Spec => [](TypeOK /\ Creates)
  BY <1>1, TypeInit, PTL DEF Spec
<1>3. QED
  BY <1>2, PTL

-----------------------------------------------------------------------------
(* No dangling row.  The object of the call in hand is there as long as    *)
(* its row may still be inserted, and has no row when it is removed.       *)

Inserting == pc \in {"store", "insert", "learn", "again"}

\* The call in hand has no row until its transaction commits, and other
\* calls that were not answered have none either.
NoRowYet ==
    /\ \A c \in Calls : told[c] = "nothing" /\ c # call => rows[c] = "no"
    /\ Inserting => rows[call] = "no"
    /\ pc = "rollback" => rows[call] = "no" \/ call \in doubted

CreatedIsThere == Inserting => created \subseteq objects \cup lost

\* No row names an object that is not there, but of a call in doubt.
DoubtedAside ==
    \A c \in Calls : rows[c] \in Backends => <<rows[c], c>> \in objects \cup lost \/ c \in doubted

Sound == TypeOK /\ Creates /\ NoRowYet /\ CreatedIsThere /\ DoubtedAside

\* Steps that change no row, and no object.
LEMMA SoundFrame ==
    ASSUME Sound, UNCHANGED <<rows, told, doubted, objects, lost>>,
           \/ UNCHANGED <<pc, call, created>>
           \/ pc' = "done" /\ call' = call
           \/ /\ Inserting \/ pc = "rollback"
              /\ pc' \in {"insert", "learn", "again", "rollback", "store"}
              /\ (pc = "rollback" => pc' = "rollback")
              /\ UNCHANGED <<call, created>>
    PROVE  NoRowYet' /\ CreatedIsThere' /\ DoubtedAside'
BY DEF Sound, NoRowYet, CreatedIsThere, DoubtedAside, Inserting

LEMMA SoundLastTx ==
    ASSUME Sound, pc \in {"insert", "again"}, LastTx,
           UNCHANGED <<told, objects, lost, call>>
    PROVE  NoRowYet' /\ CreatedIsThere' /\ DoubtedAside'
<1>1. /\ call \in Calls /\ created \subseteq objects \cup lost
      /\ Place \in Backends => <<Place, call>> \in created
      /\ rows \in [Calls -> Backends \cup {"row", "no"}]
  BY InHand, PlaceType DEF Sound, CreatedIsThere, Inserting, TypeOK, StoreOK
<1>2. CASE Succeed
  <2>1. rows' = [rows EXCEPT ![call] = Place] /\ pc' = "done" /\ doubted' = doubted
    BY <1>2 DEF Succeed, AddRow
  <2>2. NoRowYet' /\ CreatedIsThere'
    BY <1>1, <2>1 DEF Sound, NoRowYet, CreatedIsThere, Inserting
  <2>3. DoubtedAside'
    BY <1>1, <2>1 DEF Sound, DoubtedAside
  <2>4. QED
    BY <2>2, <2>3
<1>3. CASE pc' = "rollback" /\ UNCHANGED <<created, rows, doubted>>
  BY <1>3, SoundFrame DEF Inserting
<1>4. CASE pc' = "rollback" /\ AddRow /\ doubted' = doubted \cup {call}
  <2>1. rows' = [rows EXCEPT ![call] = Place]
    BY <1>4 DEF AddRow
  <2>2. NoRowYet' /\ CreatedIsThere'
    BY <1>1, <1>4, <2>1 DEF Sound, NoRowYet, CreatedIsThere, Inserting
  <2>3. DoubtedAside'
    BY <1>1, <1>4, <2>1 DEF Sound, DoubtedAside
  <2>4. QED
    BY <2>2, <2>3
<1>5. QED
  BY <1>2, <1>3, <1>4 DEF LastTx

LEMMA SoundStore ==
    ASSUME Sound, Store
    PROVE  NoRowYet' /\ CreatedIsThere' /\ DoubtedAside'
<1> DEFINE b == Ingest[at]
<1>1. pc = "store" /\ Inserting /\ created = {} /\ UNCHANGED <<rows, told, doubted, lost, call>>
  BY DEF Store, aside, Sound, Creates, Inserting
<1>2. CASE Stored(b)
  BY <1>1, <1>2 DEF Stored, Sound, NoRowYet, CreatedIsThere, DoubtedAside, Inserting
<1>3. CASE StoreFails(b)
  <2>1. objects \subseteq objects' /\ created' = {} /\ pc' \in {"store", "insert", "done"}
    BY <1>1, <1>3 DEF StoreFails, Fail
  <2>2. QED
    BY <1>1, <2>1 DEF Sound, NoRowYet, CreatedIsThere, DoubtedAside, Inserting
<1>4. CASE UNCHANGED <<objects, pc, created>>
  BY <1>1, <1>4, SoundFrame
<1>5. CASE pc' \in {"insert", "done"} /\ UNCHANGED <<objects, created>>
  BY <1>1, <1>5, SoundFrame
<1>6. QED
  BY <1>2, <1>3, <1>4, <1>5 DEF Store, Fail

LEMMA SoundNext ==
    ASSUME Sound, [Next]_vars
    PROVE  Sound'
<1>1. SUFFICES NoRowYet' /\ CreatedIsThere' /\ DoubtedAside'
  BY TypeNext DEF Sound
<1>2. ASSUME NEW c \in Calls, EmitCall(c)
      PROVE  NoRowYet' /\ CreatedIsThere' /\ DoubtedAside'
  <2>1. call = None /\ c # None /\ rows[c] = "no"
    BY <1>2, CallIngestAssumption DEF EmitCall, Sound, TypeOK, AdderOK, NoRowYet
  <2>2. UNCHANGED <<rows, told, doubted, objects, lost>>
    BY <1>2 DEF EmitCall, store, aside
  <2>3. pc' = "store" /\ call' = c /\ created' = {}
    BY <1>2 DEF EmitCall
  <2>4. QED
    BY <2>1, <2>2, <2>3, CallIngestAssumption
    DEF Sound, NoRowYet, CreatedIsThere, DoubtedAside, Inserting
<1>3. CASE RelayDone
  BY <1>3, SoundFrame DEF RelayDone, store, aside
<1>4. CASE Answer
  <2>1. call \in Calls /\ call' = None /\ pc' = "idle" /\ None \notin Calls
    BY <1>4, InHand, CallIngestAssumption DEF Answer, Sound
  <2>2. /\ told' \in [Calls -> {"nothing", "ok", "error", "cut"}]
        /\ told'[call] # "nothing" /\ \A c \in Calls \ {call} : told'[c] = told[c]
        /\ UNCHANGED <<rows, doubted, objects, lost>>
    BY <1>4, <2>1 DEF Answer, aside, Sound, TypeOK, StoreOK
  <2>3. QED
    BY <2>1, <2>2 DEF Sound, NoRowYet, CreatedIsThere, DoubtedAside, Inserting
<1>5. CASE Store
  BY <1>5, SoundStore
<1>6. CASE Insert
  <2>1. CASE LastTx
    BY <1>6, <2>1, SoundLastTx DEF Insert, aside
  <2>2. CASE pc' = "learn" /\ UNCHANGED <<rows, doubted, created, faults>>
    BY <1>6, <2>2, SoundFrame DEF Insert, aside, Inserting
  <2>3. QED
    BY <1>6, <2>1, <2>2 DEF Insert
<1>7. CASE LearnTG
  BY <1>7, SoundFrame DEF LearnTG, aside, Inserting
<1>8. CASE InsertAgain
  BY <1>8, SoundLastTx DEF InsertAgain, aside
<1>9. CASE Rollback
  <2>1. /\ pc' = "done" /\ UNCHANGED <<rows, told, doubted, lost, call>>
        /\ objects' = objects \/ objects' = objects \ created
        /\ rows[call] = "no" \/ call \in doubted
    BY <1>9 DEF Rollback, Fail, aside, Sound, NoRowYet
  <2>2. \A o \in created : o[2] = call
    BY <1>9 DEF Rollback, Sound, Creates
  <2>3. \A c \in Calls : rows[c] \in Backends =>
          <<rows[c], c>> \in objects' \cup lost \/ c \in doubted
    <3>1. SUFFICES ASSUME NEW c \in Calls, rows[c] \in Backends, c \notin doubted
                   PROVE  <<rows[c], c>> \in objects' \cup lost
      OBVIOUS
    <3>2. c # call
      BY <2>1, <3>1, CallIngestAssumption
    <3>3. <<rows[c], c>> \notin created
      BY <2>2, <3>2
    <3>4. QED
      BY <2>1, <3>1, <3>3 DEF Sound, DoubtedAside
  <2>4. QED
    BY <2>1, <2>3 DEF Sound, NoRowYet, CreatedIsThere, DoubtedAside, Inserting
<1>10. CASE Fsck /\ UNCHANGED <<store, adder>>
  BY <1>10, SoundFrame DEF store, adder, aside
<1>11. CASE Admin /\ UNCHANGED adder
  BY <1>11, SoundFrame DEF Admin, adder, aside
<1>12. CASE Lose /\ UNCHANGED adder
  <2>1. /\ objects' \cup lost' = objects \cup lost
        /\ UNCHANGED <<rows, told, doubted, pc, call, created>>
    BY <1>12 DEF Lose, adder
  <2>2. QED
    BY <2>1 DEF Sound, NoRowYet, CreatedIsThere, DoubtedAside, Inserting
<1>13. CASE Crash
  <2>1. /\ pc' = "idle" /\ call' = None /\ UNCHANGED <<rows, doubted, objects, lost>>
        /\ told' = IF call = None THEN told ELSE [told EXCEPT ![call] = "cut"]
    BY <1>13 DEF Crash, aside
  <2>2. \A c \in Calls : told'[c] = "nothing" => told[c] = "nothing" /\ c # call
    BY <2>1, CallIngestAssumption DEF Sound, TypeOK, StoreOK, AdderOK
  <2>3. QED
    BY <2>1, <2>2 DEF Sound, NoRowYet, CreatedIsThere, DoubtedAside, Inserting
<1>14. CASE UNCHANGED vars
  BY <1>14, SoundFrame DEF vars, store, adder, aside
<1>15. QED
  BY <1>2, <1>3, <1>4, <1>5, <1>6, <1>7, <1>8, <1>9, <1>10, <1>11, <1>12, <1>13, <1>14
  DEF Next, Ingests

LEMMA SoundInit == Init => Sound
<1> SUFFICES ASSUME Init PROVE Sound
  OBVIOUS
<1>1. NoRowYet /\ CreatedIsThere /\ DoubtedAside
  BY CallIngestAssumption DEF Init, NoRowYet, CreatedIsThere, DoubtedAside, Inserting
<1>2. QED
  BY <1>1, TypeInit DEF Sound

\* A call whose COMMIT was reported as failed is answered with an error.
Doubts ==
    /\ call # None => told[call] = "nothing"
    /\ \A c \in doubted :
          /\ told[c] # "ok" /\ (told[c] = "nothing" => c = call)
          /\ c = call => pc = "rollback" \/ (pc = "done" /\ failed)

LEMMA DoubtsLastTx ==
    ASSUME Doubts, pc \in {"insert", "again"}, LastTx, UNCHANGED <<told, call>>, call # None
    PROVE  Doubts'
<1>1. call \notin doubted
  BY DEF Doubts
<1>2. CASE doubted' = doubted
  BY <1>1, <1>2 DEF Doubts
<1>3. CASE doubted' = doubted \cup {call} /\ pc' = "rollback"
  BY <1>1, <1>3 DEF Doubts
<1>. QED  BY <1>2, <1>3 DEF LastTx, Succeed

LEMMA DoubtsNext ==
    ASSUME TypeOK, Doubts, [Next]_vars
    PROVE  Doubts'
<1>0. /\ told \in [Calls -> {"nothing", "ok", "error", "cut"}]
      /\ call \in Calls \cup {None} /\ (pc # "idle" <=> call # None) /\ doubted \subseteq Calls
      /\ None \notin Calls
  BY CallIngestAssumption DEF TypeOK, StoreOK, AdderOK
<1>1. ASSUME UNCHANGED <<told, doubted, call>>, call \notin doubted \/ UNCHANGED <<pc, failed>>
      PROVE  Doubts'
  BY <1>1 DEF Doubts
<1>2. CASE \E c \in Calls : EmitCall(c)
  BY <1>0, <1>2 DEF EmitCall, store, Doubts
<1>3. CASE RelayDone
  BY <1>1, <1>3 DEF RelayDone, store
<1>4. CASE Answer
  <2>1. /\ pc = "done" /\ call' = None /\ call \in Calls /\ doubted' = doubted
        /\ \A c \in Calls \ {call} : told'[c] = told[c]
    BY <1>0, <1>4 DEF Answer
  <2>2. told'[call] # "nothing" /\ (failed => told'[call] # "ok")
    <3>1. told' = [told EXCEPT ![call] = IF failed \/ Cancelled THEN "error" ELSE "ok"]
      BY <1>4 DEF Answer
    <3>2. CASE failed \/ Cancelled
      BY <1>0, <2>1, <3>1, <3>2
    <3>3. CASE ~(failed \/ Cancelled)
      BY <1>0, <2>1, <3>1, <3>3
    <3>. QED  BY <3>2, <3>3
  <2>. QED  BY <1>0, <2>1, <2>2 DEF Doubts
<1>5. CASE Store
  <2>1. call \notin doubted /\ UNCHANGED <<told, doubted, call>>
    BY <1>5 DEF Store, Doubts
  <2>. QED  BY <1>1, <2>1
<1>6. CASE Insert
  <2>1. pc = "insert" /\ UNCHANGED <<told, call>> /\ call # None
    BY <1>0, <1>6 DEF Insert
  <2>2. CASE UNCHANGED doubted
    BY <1>1, <2>1, <2>2 DEF Doubts
  <2>3. CASE LastTx
    BY <2>1, <2>3, DoubtsLastTx
  <2>. QED  BY <1>6, <2>2, <2>3 DEF Insert
<1>7. CASE LearnTG
  BY <1>1, <1>7 DEF LearnTG, aside, Doubts
<1>8. CASE InsertAgain
  BY <1>0, <1>8, DoubtsLastTx DEF InsertAgain
<1>9. CASE Rollback
  BY <1>9 DEF Rollback, Fail, aside, Doubts
<1>10. CASE Crash
  <2>1. /\ call' = None /\ doubted' = doubted
        /\ told' = IF call = None THEN told ELSE [told EXCEPT ![call] = "cut"]
    BY <1>10 DEF Crash
  <2>2. /\ call = None \/ told'[call] = "cut"
        /\ \A c \in Calls \ {call} : told'[c] = told[c]
    BY <1>0, <2>1
  <2>. QED  BY <1>0, <2>1, <2>2 DEF Doubts
<1>11. CASE \/ (Fsck /\ UNCHANGED <<store, adder>>) \/ ((Admin \/ Lose) /\ UNCHANGED adder)
            \/ UNCHANGED vars
  BY <1>1, <1>11 DEF Admin, Lose, store, adder, vars
<1>. QED
  BY <1>2, <1>3, <1>4, <1>5, <1>6, <1>7, <1>8, <1>9, <1>10, <1>11 DEF Next, Ingests

\* Whatever AddCall removes, whenever a statement fails, the context ends or
\* the server stops, and however the talkgroup comes and goes: a row names it
\* only if its COMMIT was executed and reported as failed, and its uploader is
\* not told that the call is stored.  (An object that vanished by itself
\* aside.)
THEOREM OnlyInDoubt == Spec => []OnlyLostCommitsDangle
<1>1. Init => Sound /\ Doubts
  BY SoundInit DEF Init, Doubts
<1>2. (Sound /\ Doubts) /\ [Next]_vars => (Sound /\ Doubts)'
  BY SoundNext, DoubtsNext DEF Sound
<1>3. Sound /\ Doubts => OnlyLostCommitsDangle
  BY DEF Sound, DoubtedAside, Doubts, OnlyLostCommitsDangle
<1>. QED  BY <1>1, <1>2, <1>3, PTL DEF Spec

\* If the answer to a COMMIT is never lost, whatever else fails, no row names
\* an object that AddCall removed.
THEOREM NoDangling ==
    ASSUME "commitlost" \notin Faults
    PROVE  Spec => []NoDanglingRow
<1> DEFINE NoDoubt == doubted = {}
<1>1. NoDoubt /\ [Next]_vars => NoDoubt'
  <2> SUFFICES ASSUME NoDoubt, [Next]_vars PROVE doubted' = doubted
    OBVIOUS
  <2>1. LastTx => doubted' = doubted
    BY DEF LastTx, Succeed, Fault
  <2>. QED
    BY <2>1
       DEF Next, Ingests, EmitCall, RelayDone, Answer, Store, Insert, LearnTG, InsertAgain,
           Rollback, Admin, Lose, Crash, store, vars
<1>2. Init => NoDoubt
  BY DEF Init
<1>3. NoDoubt /\ Sound => NoDanglingRow
  BY DEF Sound, DoubtedAside, NoDanglingRow
<1>. QED  BY <1>1, <1>2, <1>3, SoundInit, SoundNext, PTL DEF Spec

-----------------------------------------------------------------------------
(* What the uploader was told is stored is.                                *)

\* A talkgroup with a row is there, since the row refers to it.
RowsHaveTG == \A c \in Calls : rows[c] # "no" => TGOf[c] \in tgs

\* AddCall has no error before it is done, and then a row or an error.
ErrorOrRow ==
    /\ pc \notin {"idle", "done"} => ~failed
    /\ pc = "done" /\ ~failed => rows[call] # "no"

Kept == TypeOK /\ Creates /\ RowsHaveTG /\ ErrorOrRow /\ OkIsKept

\* Steps that change no row, no answer and no talkgroup.
LEMMA KeptFrame ==
    ASSUME Kept, UNCHANGED <<rows, told, tgs>>,
           \/ UNCHANGED <<pc, call, failed>>
           \/ pc' = "done" /\ failed' = TRUE
           \/ pc' \in {"store", "insert", "learn", "again", "rollback"} /\ failed' = FALSE
           \/ pc' = "idle"
    PROVE  RowsHaveTG' /\ ErrorOrRow' /\ OkIsKept'
BY DEF Kept, RowsHaveTG, ErrorOrRow, OkIsKept

LEMMA KeptLastTx ==
    ASSUME Kept, pc \in {"insert", "again"}, LastTx, UNCHANGED <<told, tgs, call, failed>>
    PROVE  RowsHaveTG' /\ ErrorOrRow' /\ OkIsKept'
<1>1. /\ call \in Calls /\ Place # "no" /\ ~failed
      /\ rows \in [Calls -> Backends \cup {"row", "no"}]
  BY InHand, PlaceType DEF Kept, ErrorOrRow, TypeOK, StoreOK
<1>2. CASE AddRow /\ TGKnown /\ pc' \in {"done", "rollback"}
  <2>1. rows'[call] = Place /\ \A c \in Calls \ {call} : rows'[c] = rows[c]
    BY <1>1, <1>2 DEF AddRow
  <2>2. RowsHaveTG' /\ ErrorOrRow'
    BY <1>1, <1>2, <2>1 DEF Kept, RowsHaveTG, ErrorOrRow, TGKnown
  <2>3. OkIsKept'
    BY <1>1, <1>2, <2>1 DEF Kept, OkIsKept, TGKnown
  <2>4. QED
    BY <2>2, <2>3
<1>3. CASE pc' = "rollback" /\ UNCHANGED rows
  BY <1>1, <1>3 DEF Kept, RowsHaveTG, ErrorOrRow, OkIsKept
<1>4. QED
  BY <1>2, <1>3 DEF LastTx, Succeed

LEMMA KeptStore ==
    ASSUME Kept, Store
    PROVE  RowsHaveTG' /\ ErrorOrRow' /\ OkIsKept'
<1>1. pc = "store" /\ UNCHANGED <<rows, told, tgs, call>> /\ failed = FALSE
  BY DEF Store, Kept, ErrorOrRow, TypeOK, AdderOK
<1>2. \/ pc' = "done" /\ failed' = TRUE
      \/ pc' \in {"store", "insert"} /\ failed' = FALSE
  BY <1>1 DEF Store, Stored, StoreFails, Fail
<1>3. QED
  BY <1>1, <1>2, KeptFrame

\* A talkgroup that a row refers to is not deleted.
LEMMA KeptAdmin ==
    ASSUME Kept, Admin, UNCHANGED adder
    PROVE  RowsHaveTG' /\ ErrorOrRow' /\ OkIsKept'
<1>1. UNCHANGED <<rows, told, pc, call, failed>>
  BY DEF Admin, adder
<1>2. \A c \in Calls : rows[c] # "no" => TGOf[c] \in tgs'
  <2>1. PICK t \in {TGOf[c] : c \in Calls} :
          \/ tgs' = tgs \cup {t}
          \/ (\A c \in Calls : TGOf[c] = t => rows[c] = "no") /\ tgs' = tgs \ {t}
    BY DEF Admin
  <2>2. QED
    BY <2>1 DEF Kept, RowsHaveTG
<1>3. QED
  BY <1>1, <1>2 DEF Kept, RowsHaveTG, ErrorOrRow, OkIsKept

LEMMA KeptNext ==
    ASSUME Kept, [Next]_vars
    PROVE  Kept'
<1>1. SUFFICES RowsHaveTG' /\ ErrorOrRow' /\ OkIsKept'
  BY TypeNext DEF Kept
<1>2. ASSUME NEW c \in Calls, EmitCall(c)
      PROVE  RowsHaveTG' /\ ErrorOrRow' /\ OkIsKept'
  BY <1>2, KeptFrame DEF EmitCall, store, aside
<1>3. CASE RelayDone
  BY <1>3, KeptFrame DEF RelayDone, store, aside
<1>4. CASE Answer
  <2>1. call \in Calls /\ pc = "done" /\ pc' = "idle" /\ UNCHANGED <<rows, tgs>>
    BY <1>4, InHand DEF Answer, Kept
  <2>2. \A c \in Calls : told'[c] = "ok" => told[c] = "ok" \/ (c = call /\ ~failed)
    <3>1. DOMAIN told = Calls
      BY DEF Kept, TypeOK, StoreOK
    <3>2. told' = [told EXCEPT ![call] = IF failed \/ Cancelled THEN "error" ELSE "ok"]
      BY <1>4 DEF Answer
    <3>3. CASE failed
      <4>1. told' = [told EXCEPT ![call] = "error"]
        BY <3>2, <3>3
      <4>2. QED
        BY <2>1, <3>1, <4>1
    <3>4. CASE ~failed
      BY <2>1, <3>1, <3>2, <3>4
    <3>5. QED
      BY <3>3, <3>4
  <2>3. QED
    BY <2>1, <2>2 DEF Kept, RowsHaveTG, ErrorOrRow, OkIsKept
<1>5. CASE Store
  BY <1>5, KeptStore
<1>6. CASE Insert
  <2>1. CASE LastTx
    BY <1>6, <2>1, KeptLastTx DEF Insert
  <2>2. CASE pc' = "learn" /\ UNCHANGED rows
    <3>1. failed = FALSE
      BY <1>6 DEF Insert, Kept, ErrorOrRow, TypeOK, AdderOK
    <3>2. QED
      BY <1>6, <2>2, <3>1, KeptFrame DEF Insert
  <2>3. QED
    BY <1>6, <2>1, <2>2 DEF Insert
<1>7. CASE LearnTG
  <2>1. /\ pc = "learn" /\ pc' \in {"again", "rollback"} /\ tgs \subseteq tgs'
        /\ UNCHANGED <<rows, told, call, failed>>
    BY <1>7 DEF LearnTG
  <2>2. QED
    BY <2>1 DEF Kept, RowsHaveTG, ErrorOrRow, OkIsKept
<1>8. CASE InsertAgain
  BY <1>8, KeptLastTx DEF InsertAgain
<1>9. CASE Rollback
  BY <1>9, KeptFrame DEF Rollback, Fail
<1>10. CASE Fsck /\ UNCHANGED <<store, adder>>
  BY <1>10, KeptFrame DEF store, adder
<1>11. CASE Admin /\ UNCHANGED adder
  BY <1>11, KeptAdmin
<1>12. CASE Lose /\ UNCHANGED adder
  BY <1>12, KeptFrame DEF Lose, adder
<1>13. CASE Crash
  <2>1. /\ pc' = "idle" /\ UNCHANGED <<rows, tgs>>
        /\ told' = IF call = None THEN told ELSE [told EXCEPT ![call] = "cut"]
    BY <1>13 DEF Crash
  <2>2. \A c \in Calls : told'[c] = "ok" => told[c] = "ok"
    BY <2>1 DEF Kept, TypeOK, StoreOK, AdderOK
  <2>3. QED
    BY <2>1, <2>2 DEF Kept, RowsHaveTG, ErrorOrRow, OkIsKept
<1>14. CASE UNCHANGED vars
  BY <1>14, KeptFrame DEF vars, store, adder
<1>15. QED
  BY <1>2, <1>3, <1>4, <1>5, <1>6, <1>7, <1>8, <1>9, <1>10, <1>11, <1>12, <1>13, <1>14
  DEF Next, Ingests

LEMMA KeptInit == Init => Kept
BY TypeInit DEF Init, Kept, RowsHaveTG, ErrorOrRow, OkIsKept

\* A call that the uploader was told is stored has a row, and its talkgroup
\* is there, whoever deletes talkgroups and whatever fails before or later:
\* AddCall reports no success without a commit that succeeded.
THEOREM OkKept == Spec => []OkIsKept
<1>1. Spec => []Kept
  BY KeptInit, KeptNext, PTL DEF Spec
<1>2. Kept => OkIsKept
  BY DEF Kept
<1>3. QED
  BY <1>1, <1>2, PTL
-----------------------------------------------------------------------------
(* Orphans: every object has a row, or a reason to have none.              *)

\* A call nobody has ingested yet has no object.
NoneYet == \A o \in objects : told[o[2]] = "nothing" => o[2] = call

\* The objects of the call in hand: until AddCall is done what it created is its
\* own affair.
Own ==
    \A o \in objects : o[2] = call =>
        \/ o \in refused \cup kept
        \/ rows[call] = o[1]
        \/ o \in created /\ pc # "done"

Accounted == Sound /\ NoneYet /\ Own /\ OrphansExplained

\* Steps that leave the row and the objects alone, and give up nothing created.
LEMMA AccountedFrame ==
    ASSUME Accounted, UNCHANGED <<rows, told, call>>, objects' \subseteq objects,
           refused \subseteq refused', kept \subseteq kept',
           \/ UNCHANGED created /\ (pc' = "done" => pc = "done")
           \/ created \cap objects' = {}
    PROVE  NoneYet' /\ Own' /\ OrphansExplained'
BY DEF Accounted, NoneYet, Own, OrphansExplained

LEMMA AccountedLastTx ==
    ASSUME Accounted, pc \in {"insert", "again"}, LastTx,
           UNCHANGED <<told, objects, call, refused, kept>>
    PROVE  NoneYet' /\ Own' /\ OrphansExplained'
<1>1. CASE UNCHANGED <<rows, created>> /\ pc' = "rollback"
  BY <1>1, AccountedFrame
<1>2. CASE AddRow /\ pc' \in {"done", "rollback"}
  <2>1. /\ call \in Calls /\ objects \subseteq Objects /\ rows[call] = "no"
        /\ rows \in [Calls -> Backends \cup {"row", "no"}] /\ "no" \notin Backends
    BY InHand, CallIngestAssumption
    DEF Accounted, Sound, TypeOK, StoreOK, NoRowYet, Inserting
  <2>2. rows'[call] = Place /\ \A c \in Calls \ {call} : rows'[c] = rows[c]
    BY <1>2, <2>1 DEF AddRow
  <2>3. \A o \in created : Place = o[1]
    <3>1. created = {} \/ \E b \in Backends : created = {<<b, call>>}
      BY DEF Accounted, Sound, Creates
    <3>2. ASSUME NEW b \in Backends, created = {<<b, call>>}
          PROVE  Place = b
      <4>1. (CHOOSE o \in created : TRUE) = <<b, call>>
        BY <3>2
      <4>. QED  BY <3>2, <4>1 DEF Place
    <3>. QED  BY <3>1, <3>2
  <2>4. \A o \in objects : o[2] = call => o \in refused \cup kept \/ rows'[call] = o[1]
    <3>1. \A o \in objects : o[1] \in Backends
      BY <2>1 DEF Objects
    <3>. QED  BY <2>1, <2>2, <2>3, <3>1 DEF Accounted, Own
  <2>5. \A o \in objects : o[2] \in Calls
    BY <2>1 DEF Objects
  <2>. QED  BY <2>2, <2>4, <2>5 DEF Accounted, NoneYet, Own, OrphansExplained
<1>. QED  BY <1>1, <1>2 DEF LastTx, Succeed

LEMMA AccountedStore ==
    ASSUME Accounted, Store
    PROVE  NoneYet' /\ Own' /\ OrphansExplained'
<1> DEFINE b == Ingest[at]
<1>1. pc = "store" /\ created = {} /\ UNCHANGED <<rows, told, call, kept>>
  BY DEF Store, aside, Accounted, Sound, Creates
<1>2. CASE Stored(b) /\ UNCHANGED refused
  <2>1. objects' = objects \cup {<<b, call>>} /\ created' = {<<b, call>>} /\ pc' = "insert"
    BY <1>2 DEF Stored
  <2>. QED  BY <1>1, <1>2, <2>1 DEF Accounted, NoneYet, Own, OrphansExplained
<1>3. CASE StoreFails(b)
  <2>1. /\ objects' \subseteq objects \cup {<<b, call>>} /\ created' = {}
        /\ refused' = refused \cup {<<b, call>>}
    BY <1>1, <1>3 DEF StoreFails
  <2>. QED  BY <1>1, <2>1 DEF Accounted, NoneYet, Own, OrphansExplained
<1>4. CASE UNCHANGED <<objects, refused, created>>
  BY <1>1, <1>4, AccountedFrame
<1>. QED  BY <1>2, <1>3, <1>4 DEF Store, Stored

LEMMA AccountedNext ==
    ASSUME Accounted, [Next]_vars
    PROVE  Accounted'
<1>1. SUFFICES NoneYet' /\ Own' /\ OrphansExplained'
  BY SoundNext DEF Accounted
<1>2. ASSUME NEW c \in Calls, EmitCall(c)
      PROVE  NoneYet' /\ Own' /\ OrphansExplained'
  <2>1. call = None /\ told[c] = "nothing" /\ call' = c /\ pc' = "store"
        /\ UNCHANGED <<rows, told, objects, refused, kept>>
    BY <1>2 DEF EmitCall, store, aside, Accounted, Sound, TypeOK, AdderOK
  <2>2. \A o \in objects : o[2] \in Calls /\ o[2] # None
    BY CallIngestAssumption DEF Accounted, Sound, TypeOK, StoreOK, Objects
  <2>. QED  BY <2>1, <2>2 DEF Accounted, NoneYet, Own, OrphansExplained
<1>3. CASE RelayDone
  BY <1>3, AccountedFrame DEF RelayDone, store, aside
<1>4. CASE Answer
  <2>1. /\ call \in Calls /\ pc = "done" /\ call' = None
        /\ UNCHANGED <<rows, objects, refused, kept>>
    BY <1>4, InHand DEF Answer, Accounted, Sound
  <2>2. told'[call] # "nothing" /\ \A c \in Calls \ {call} : told'[c] = told[c]
    BY <1>4, <2>1 DEF Answer, Accounted, Sound, TypeOK, StoreOK
  <2>3. \A o \in objects : o[2] \in Calls /\ o[2] # None
    BY CallIngestAssumption DEF Accounted, Sound, TypeOK, StoreOK, Objects
  <2>. QED  BY <2>1, <2>2, <2>3 DEF Accounted, NoneYet, Own, OrphansExplained
<1>5. CASE Store
  BY <1>5, AccountedStore
<1>6. CASE Insert
  <2>1. CASE LastTx
    BY <1>6, <2>1, AccountedLastTx DEF Insert
  <2>2. CASE pc' = "learn" /\ UNCHANGED <<rows, created>>
    BY <1>6, <2>2, AccountedFrame DEF Insert
  <2>. QED  BY <1>6, <2>1, <2>2 DEF Insert
<1>7. CASE LearnTG
  BY <1>7, AccountedFrame DEF LearnTG
<1>8. CASE InsertAgain
  BY <1>8, AccountedLastTx DEF InsertAgain
<1>9. CASE Rollback
  <2>1. /\ UNCHANGED <<rows, told, call, refused>> /\ objects' \subseteq objects
        /\ \/ objects' = objects \ created /\ kept' = kept
           \/ kept' = kept \cup created
    BY <1>9 DEF Rollback
  <2>. QED  BY <2>1 DEF Accounted, NoneYet, Own, OrphansExplained
<1>10. CASE Fsck /\ UNCHANGED <<store, adder>>
  BY <1>10, AccountedFrame DEF store, adder
<1>11. CASE (Admin \/ Lose) /\ UNCHANGED adder
  BY <1>11, AccountedFrame DEF Admin, Lose, adder
<1>12. CASE Crash
  <2>1. /\ call' = None /\ UNCHANGED <<rows, objects, refused, kept>>
        /\ told' = IF call = None THEN told ELSE [told EXCEPT ![call] = "cut"]
    BY <1>12 DEF Crash
  <2>2. /\ call = None \/ (call \in Calls /\ told'[call] = "cut")
        /\ \A c \in Calls \ {call} : told'[c] = told[c]
    BY <2>1 DEF Accounted, Sound, TypeOK, StoreOK, AdderOK
  <2>3. \A o \in objects : o[2] \in Calls /\ o[2] # None
    BY CallIngestAssumption DEF Accounted, Sound, TypeOK, StoreOK, Objects
  <2>. QED  BY <2>1, <2>2, <2>3 DEF Accounted, NoneYet, Own, OrphansExplained
<1>13. CASE UNCHANGED vars
  BY <1>13, AccountedFrame DEF vars, store, adder
<1>. QED  BY <1>2, <1>3, <1>4, <1>5, <1>6, <1>7, <1>8, <1>9, <1>10, <1>11, <1>12, <1>13
          DEF Next, Ingests

\* Every object has a row that names it, but for four reasons: the ingest is under
\* way, a crash cut it, the backend had reported the object as not stored, or AddCall
\* could not delete it again.
THEOREM NoOtherOrphans == Spec => []OrphansExplained
<1>1. Init => Accounted
  BY SoundInit DEF Init, Accounted, NoneYet, Own, OrphansExplained
<1>2. Accounted => OrphansExplained
  BY DEF Accounted
<1>. QED  BY <1>1, <1>2, AccountedNext, PTL DEF Spec

-----------------------------------------------------------------------------
(* The audio is where the configuration sends it.                          *)

\* Store goes past place i: its filter does not pass the call, or it failed and the
\* next one may be tried.
PassedBy(c, i) ==
    c \in Accepts[Ingest[i]] =>
      <<Ingest[i], c>> \in refused /\ config.onError[Ingest[i]] = "next"

MayBeIn(c, b) ==
    \E i \in 1..Len(Ingest) :
      /\ Ingest[i] = b /\ c \in Accepts[b]
      /\ \A j \in 1..(i - 1) : PassedBy(c, j)

MayBeInRow(c) ==
    \/ config.onExhaust = "db" /\ \A j \in 1..Len(Ingest) : PassedBy(c, j)
    \/ \E i \in 1..Len(Ingest) :
         /\ <<Ingest[i], c>> \in refused /\ config.onError[Ingest[i]] = "db"
         /\ \A j \in 1..(i - 1) : PassedBy(c, j)

\* How far Store has come with the call in hand, and where its row may go.
OnItsWay ==
    /\ pc = "store" => \A j \in 1..(at - 1) : PassedBy(call, j)
    /\ pc \in {"insert", "learn", "again"} =>
         /\ \A o \in created : MayBeIn(call, o[1])
         /\ created = {} => MayBeInRow(call)

Configured ==
    \A c \in Calls : /\ rows[c] \in Backends => MayBeIn(c, rows[c])
                     /\ rows[c] = "row" => MayBeInRow(c)

LEMMA ConfiguredIs == Configured <=> PlaceIsConfigured
BY DEF Configured, PlaceIsConfigured, MayBeIn, MayBeInRow, PassedBy

\* Refusals are not taken back, and the configuration does not change.
LEMMA RefusalsStay ==
    ASSUME refused \subseteq refused', UNCHANGED config, NEW c, NEW b
    PROVE  /\ \A i : PassedBy(c, i) => PassedBy(c, i)'
           /\ MayBeIn(c, b) => MayBeIn(c, b)'
           /\ MayBeInRow(c) => MayBeInRow(c)'
<1>1. \A i : PassedBy(c, i) => PassedBy(c, i)'
  BY DEF PassedBy
<1>2. MayBeIn(c, b) => MayBeIn(c, b)'
  BY <1>1 DEF MayBeIn
<1>3. MayBeInRow(c) => MayBeInRow(c)'
  BY <1>1 DEF MayBeInRow
<1>. QED  BY <1>1, <1>2, <1>3

Placed == TypeOK /\ Creates /\ OnItsWay /\ Configured

\* Steps that add no row and do not go on with Store.
LEMMA PlacedFrame ==
    ASSUME Placed, UNCHANGED <<rows, refused, config>>,
           \/ UNCHANGED <<pc, call, at, created>>
           \/ pc' \in {"idle", "rollback", "done"}
           \/ /\ pc \in {"insert", "learn", "again"} /\ pc' \in {"insert", "learn", "again"}
              /\ UNCHANGED <<call, created>>
    PROVE  OnItsWay' /\ Configured'
BY RefusalsStay DEF Placed, OnItsWay, Configured

LEMMA PlacedLastTx ==
    ASSUME Placed, pc \in {"insert", "again"}, LastTx, UNCHANGED <<refused, config>>
    PROVE  OnItsWay' /\ Configured'
<1>1. CASE UNCHANGED rows /\ pc' = "rollback"
  BY <1>1, PlacedFrame
<1>2. CASE AddRow /\ pc' \in {"done", "rollback"}
  <2>1. /\ call \in Calls /\ rows \in [Calls -> Backends \cup {"row", "no"}]
        /\ "row" \notin Backends
    BY InHand, CallIngestAssumption DEF Placed, TypeOK, StoreOK
  <2>2. rows'[call] = Place /\ \A c \in Calls \ {call} : rows'[c] = rows[c]
    BY <1>2, <2>1 DEF AddRow
  <2>3. Place \in Backends => MayBeIn(call, Place)
    <3>1. Place \in Backends => <<Place, call>> \in created
      BY PlaceType DEF Placed
    <3>. QED  BY <3>1 DEF Placed, OnItsWay
  <2>4. Place = "row" => MayBeInRow(call)
    <3>1. created = {} \/ \E b \in Backends : created = {<<b, call>>}
      BY DEF Placed, Creates
    <3>2. ASSUME NEW b \in Backends, created = {<<b, call>>}
          PROVE  Place = b
      <4>1. (CHOOSE o \in created : TRUE) = <<b, call>>
        BY <3>2
      <4>. QED  BY <3>2, <4>1 DEF Place
    <3>. QED  BY <2>1, <3>1, <3>2 DEF Placed, OnItsWay
  <2>5. Configured'
    BY <2>1, <2>2, <2>3, <2>4, RefusalsStay DEF Placed, Configured
  <2>. QED  BY <1>2, <2>5 DEF OnItsWay
<1>. QED  BY <1>1, <1>2 DEF LastTx, Succeed

LEMMA PlacedStore ==
    ASSUME Placed, Store
    PROVE  OnItsWay' /\ Configured'
<1>0. PICK c \in Calls : c = call /\ c = call'
  BY InHand DEF Placed, Store
<1> DEFINE b == Ingest[at]
<1>1. /\ pc = "store" /\ created = {} /\ UNCHANGED <<rows, call, config>>
      /\ refused \subseteq refused'
  BY DEF Store, Stored, StoreFails, aside, Placed, Creates
<1>2. Configured'
  BY <1>1, RefusalsStay DEF Placed, Configured
<1>3. at \in Nat /\ \A j \in 1..(at - 1) : PassedBy(c, j)
  BY <1>0, <1>1, Bounds DEF Placed, OnItsWay, TypeOK, AdderOK
<1>4. \A j \in 1..(at - 1) : PassedBy(c, j)'
  BY <1>1, <1>3, RefusalsStay
<1>5. ASSUME at' = at + 1, UNCHANGED <<pc, call>>, \A j \in {at} : PassedBy(c, j)'
      PROVE  OnItsWay'
  <2>1. \A j \in 1..(at' - 1) : j \in 1..(at - 1) \/ j = at
    BY <1>3, <1>5
  <2>2. \A j \in 1..(at' - 1) : PassedBy(c, j)'
    BY <1>4, <1>5, <2>1
  <2>. QED  BY <1>0, <1>1, <1>5, <2>2 DEF OnItsWay
<1>6. CASE at <= Len(Ingest) /\ call \in Accepts[b] /\ Stored(b) /\ UNCHANGED refused
  <2>1. at \in 1..Len(Ingest)
    BY <1>6, Bounds DEF Placed, TypeOK, AdderOK
  <2>2. PICK e \in Backends : e = Ingest[at]
    BY <2>1, Bounds
  <2>3. pc' = "insert" /\ created' = {<<e, c>>}
    BY <1>0, <1>6, <2>2 DEF Stored
  <2>4. MayBeIn(c, e)
    BY <1>0, <1>3, <1>6, <2>1, <2>2 DEF MayBeIn
  <2>5. MayBeIn(c, e)'
    BY <1>1, <2>4, RefusalsStay
  <2>6. created' # {} /\ \A o \in created' : o[1] = e
    BY <2>3
  <2>7. OnItsWay'
    BY <1>0, <2>3, <2>5, <2>6 DEF OnItsWay
  <2>. QED  BY <1>2, <2>7
<1>7. CASE at <= Len(Ingest) /\ call \in Accepts[b] /\ StoreFails(b)
  <2>1. /\ refused' = refused \cup {<<b, call>>} /\ created' = {}
        /\ \/ config.onError[b] = "next" /\ at' = at + 1 /\ UNCHANGED pc
           \/ config.onError[b] = "db" /\ pc' = "insert"
           \/ pc' = "done"
    BY <1>1, <1>7 DEF StoreFails, Fail
  <2>2. CASE config.onError[b] = "next" /\ at' = at + 1 /\ UNCHANGED pc
    <3>1. \A j \in {at} : PassedBy(c, j)'
      BY <1>0, <1>1, <2>1, <2>2 DEF PassedBy
    <3>. QED  BY <1>1, <1>2, <1>5, <2>2, <3>1
  <2>3. CASE config.onError[b] = "db" /\ pc' = "insert"
    <3>1. at \in 1..Len(Ingest)
      BY <1>7, Bounds DEF Placed, TypeOK, AdderOK
    <3>2. <<Ingest[at], c>> \in refused' /\ config'.onError[Ingest[at]] = "db"
      BY <1>0, <1>1, <2>1, <2>3
    <3>3. MayBeInRow(c)'
      <4>1. \E i \in 1..Len(Ingest) :
              /\ <<Ingest[i], c>> \in refused' /\ config'.onError[Ingest[i]] = "db"
              /\ \A j \in 1..(i - 1) : PassedBy(c, j)'
        BY <1>4, <3>1, <3>2
      <4>. QED  BY <4>1 DEF MayBeInRow
    <3>. QED  BY <1>0, <1>1, <1>2, <2>1, <2>3, <3>3 DEF OnItsWay
  <2>4. CASE pc' = "done"
    BY <1>2, <2>4 DEF OnItsWay
  <2>. QED  BY <2>1, <2>2, <2>3, <2>4
<1>8. CASE /\ at <= Len(Ingest) /\ call \notin Accepts[b] /\ at' = at + 1
           /\ UNCHANGED <<refused, pc, created>>
  <2>1. \A j \in {at} : PassedBy(c, j)'
    BY <1>0, <1>1, <1>8 DEF PassedBy
  <2>. QED  BY <1>1, <1>2, <1>5, <1>8, <2>1
<1>9. CASE /\ at > Len(Ingest) /\ UNCHANGED <<refused, created>>
           /\ (config.onExhaust = "db" /\ pc' = "insert") \/ pc' = "done"
  <2>1. 1..Len(Ingest) \subseteq 1..(at - 1)
    BY <1>3, <1>9, Bounds
  <2>2. pc' = "insert" => MayBeInRow(c)
    BY <1>3, <1>9, <2>1 DEF MayBeInRow
  <2>3. pc' = "insert" => MayBeInRow(c)'
    BY <1>1, <2>2, RefusalsStay
  <2>. QED  BY <1>0, <1>1, <1>2, <1>9, <2>3 DEF OnItsWay
<1>. QED  BY <1>6, <1>7, <1>8, <1>9 DEF Store, Stored, Fail

LEMMA PlacedNext ==
    ASSUME Placed, [Next]_vars
    PROVE  Placed'
<1>1. SUFFICES OnItsWay' /\ Configured'
  BY TypeNext DEF Placed
<1>2. ASSUME NEW c \in Calls, EmitCall(c)
      PROVE  OnItsWay' /\ Configured'
  <2>1. /\ pc' = "store" /\ at' = 1 /\ 1..(1 - 1) = {}
        /\ UNCHANGED <<rows, refused, config>>
    BY <1>2 DEF EmitCall, store, aside
  <2>. QED  BY <2>1, RefusalsStay DEF Placed, OnItsWay, Configured
<1>3. CASE RelayDone \/ Answer
  BY <1>3, PlacedFrame DEF RelayDone, Answer, store, aside
<1>4. CASE Store
  BY <1>4, PlacedStore
<1>5. CASE Insert
  <2>1. CASE LastTx
    BY <1>5, <2>1, PlacedLastTx DEF Insert, aside
  <2>2. CASE pc' = "learn" /\ UNCHANGED <<rows, created>>
    BY <1>5, <2>2, PlacedFrame DEF Insert, aside
  <2>. QED  BY <1>5, <2>1, <2>2 DEF Insert
<1>6. CASE LearnTG \/ Rollback
  BY <1>6, PlacedFrame DEF LearnTG, Rollback, Fail, aside
<1>7. CASE InsertAgain
  BY <1>7, PlacedLastTx DEF InsertAgain, aside
<1>8. CASE (Fsck /\ UNCHANGED <<store, adder>>) \/ UNCHANGED vars
  BY <1>8, PlacedFrame DEF vars, store, adder, aside
<1>9. CASE (Admin \/ Lose) /\ UNCHANGED adder
  BY <1>9, PlacedFrame DEF Admin, Lose, adder, aside
<1>10. CASE Crash
  BY <1>10, PlacedFrame DEF Crash, aside
<1>. QED  BY <1>2, <1>3, <1>4, <1>5, <1>6, <1>7, <1>8, <1>9, <1>10 DEF Next, Ingests

\* The audio of every row is in the first backend that takes the call, those before
\* it having failed with onError next, or in the row where the configuration says so.
THEOREM PlacedAsConfigured == Spec => []PlaceIsConfigured
<1>1. Init => Placed
  <2>. SUFFICES ASSUME Init
                PROVE  OnItsWay /\ Configured
    BY TypeInit DEF Placed
  <2>1. \A c \in Calls : rows[c] = "no" /\ "no" \notin Backends
    BY CallIngestAssumption DEF Init
  <2>. QED  BY <2>1 DEF Init, OnItsWay, Configured
<1>2. Placed => PlaceIsConfigured
  BY ConfiguredIs DEF Placed
<1>. QED  BY <1>1, <1>2, PlacedNext, PTL DEF Spec

-----------------------------------------------------------------------------
(* Fsck, whatever is ingested meanwhile.                                   *)

\* What a running fsck knows of the rows that were there when it began.
Checked ==
    fpc # "idle" =>
      /\ fsck \in Backends /\ inRows \subseteq Naming(fsck)
      /\ \A c \in there : <<fsck, c>> \in objects
      /\ absent \cap listed = {}
      /\ \A c \in there : Dirs[c] < dir => c \in listed \/ Dirs[c] \in skipped
      /\ fpc \in {"mark", "commit"} => dir > MaxDir /\ inRows \subseteq named
      /\ fpc = "commit" => missing \cap listed = {} /\ inRows \ listed \subseteq missing

\* The reference of a row is not changed by what is ingested later.
LEMMA RowsStay ==
    ASSUME Sound, [Next]_vars, NEW c \in Calls, rows[c] \in Backends
    PROVE  rows'[c] = rows[c]
<1>1. rows \in [Calls -> Backends \cup {"row", "no"}] /\ rows[c] # "no"
  BY CallIngestAssumption DEF Sound, TypeOK, StoreOK
<1>2. AddRow /\ Inserting => rows'[c] = rows[c]
  BY <1>1 DEF AddRow, Sound, NoRowYet
<1>3. LastTx /\ pc \in {"insert", "again"} => UNCHANGED rows \/ (AddRow /\ Inserting)
  BY DEF LastTx, Succeed, Inserting
<1>. QED  BY <1>2, <1>3
          DEF Next, Ingests, EmitCall, RelayDone, Answer, Store, Insert, LearnTG, InsertAgain,
              Rollback, Admin, Lose, Crash, vars, store

\* The history while a fsck goes on.
LEMMA WatchGoesOn ==
    ASSUME Watch, fpc # "idle", fpc' # "idle"
    PROVE  /\ inRows' = inRows
           /\ there' = {c \in there : c \in Calls /\ <<fsck', c>> \in objects'}
           /\ absent' = {c \in absent : c \notin Calls \/ <<fsck', c>> \notin objects'}
           /\ skipped \subseteq skipped'
           /\ dir' > dir /\ faults' > faults => skipped' = skipped \cup {dir}
BY DEF Watch

LEMMA FsckBegins ==
    ASSUME Watch, UNCHANGED store, NEW b \in Backends, FsckBegin(b)
    PROVE  Checked'
<1>1. fpc = "idle" /\ fpc' = "list" /\ fsck' = b /\ dir' = 1 /\ listed' = {}
      /\ rows' = rows
  BY DEF FsckBegin, store
<1>2. /\ inRows' = Naming(fsck')
      /\ there' = {c \in Calls : <<fsck', c>> \in objects'}
  BY <1>1 DEF Watch
<1>3. Naming(fsck') = {c \in Calls : rows'[c] = fsck'}
  BY <1>1 DEF Naming
<1>4. \A c \in Calls : Dirs[c] \in Nat /\ Dirs[c] >= 1
  BY Bounds, CallIngestAssumption
<1>. QED  BY <1>1, <1>2, <1>3, <1>4 DEF Checked, Naming

\* What is ingested, added, deleted or lost while a fsck goes on.
LEMMA CheckedMeanwhile ==
    ASSUME Sound, Checked, [Next]_vars, Watch, UNCHANGED checker
    PROVE  Checked'
<1>. SUFFICES ASSUME fpc # "idle"
              PROVE  Checked'
  BY DEF Checked, checker
<1>1. /\ inRows' = inRows /\ skipped \subseteq skipped' /\ absent' \subseteq absent
      /\ there' \subseteq there /\ \A c \in there' : <<fsck', c>> \in objects'
      /\ UNCHANGED <<fpc, fsck, dir, listed, named, missing>>
  BY WatchGoesOn DEF checker
<1>2. inRows' \subseteq Naming(fsck)'
  <2>1. \A c \in inRows : c \in Calls /\ rows[c] = fsck /\ fsck \in Backends
    BY DEF Checked, Naming
  <2>2. \A c \in inRows : rows'[c] = fsck'
    BY <1>1, <2>1, RowsStay
  <2>. QED  BY <1>1, <2>1, <2>2 DEF Naming
<1>. QED  BY <1>1, <1>2 DEF Checked

LEMMA CheckedFsck ==
    ASSUME Sound, Checked, Watch, Fsck, UNCHANGED store
    PROVE  Checked'
<1>1. UNCHANGED <<rows, objects>>
  BY DEF store
<1>2. CASE \E b \in Backends : FsckBegin(b)
  BY <1>2, FsckBegins
<1>3. CASE fpc' = "idle"
  BY <1>3 DEF Checked
<1>4. ASSUME FsckList \/ FsckClear \/ FsckMark
      PROVE  /\ fpc # "idle" /\ fpc' # "idle" /\ fsck' = fsck
             /\ inRows' = inRows /\ skipped \subseteq skipped' /\ absent' \subseteq absent
             /\ there' \subseteq there
             /\ \A c \in there' : <<fsck', c>> \in objects'
             /\ \A c \in absent' \cap Calls : <<fsck', c>> \notin objects'
             /\ fsck' \in Backends /\ inRows' \subseteq Naming(fsck)'
  <2>1. fpc # "idle" /\ fpc' # "idle" /\ fsck' = fsck
    BY <1>4 DEF FsckList, FsckClear, FsckMark
  <2>2. inRows \subseteq Naming(fsck) /\ fsck \in Backends
    BY <2>1 DEF Checked
  <2>3. Naming(fsck)' = Naming(fsck)
    BY <1>1, <2>1 DEF Naming
  <2>. QED  BY <2>1, <2>2, <2>3, WatchGoesOn
<1>5. CASE FsckList
  <2>1. /\ fpc = "list" /\ fpc' = "list" /\ dir' = dir + 1 /\ dir \in Nat
        /\ \/ listed' = listed \cup ObjectsIn(fsck, dir)
           \/ listed' = listed /\ faults' = faults + 1 /\ faults \in Nat
    BY <1>5, Bounds DEF FsckList, Fault, Sound, TypeOK, CheckerOK
  <2>2. absent' \cap listed' = {}
    BY <1>1, <1>4, <1>5, <2>1 DEF Checked, ObjectsIn
  <2>3. ASSUME NEW c \in there', Dirs[c] < dir'
        PROVE  c \in listed' \/ Dirs[c] \in skipped'
    <3>1. /\ c \in there /\ c \in Calls /\ Dirs[c] \in Nat
          /\ <<fsck, c>> \in objects
      BY <1>4, <1>5, Bounds, CallIngestAssumption DEF Checked, Sound, TypeOK, HistoryOK
    <3>2. CASE Dirs[c] < dir
      BY <1>4, <1>5, <2>1, <3>1, <3>2 DEF Checked
    <3>3. CASE Dirs[c] = dir
      <4>1. CASE listed' = listed \cup ObjectsIn(fsck, dir)
        BY <3>1, <3>3, <4>1 DEF ObjectsIn
      <4>2. CASE listed' = listed /\ faults' = faults + 1 /\ faults \in Nat
        BY <1>4, <1>5, <2>1, <3>3, <4>2, WatchGoesOn
      <4>. QED  BY <2>1, <4>1, <4>2
    <3>. QED  BY <2>1, <2>3, <3>1, <3>2, <3>3
  <2>. QED  BY <1>4, <1>5, <2>1, <2>2, <2>3 DEF Checked
<1>6. CASE FsckClear
  <2>1. /\ fpc' = "mark" /\ dir' = dir /\ dir > MaxDir /\ named' = Naming(fsck)
        /\ listed' = listed
    BY <1>6 DEF FsckClear
  <2>. QED  BY <1>4, <1>6, <2>1 DEF Checked
<1>7. CASE FsckMark
  <2>1. /\ fpc = "mark" /\ fpc' = "commit" /\ missing' = Naming(fsck) \ listed
        /\ UNCHANGED <<dir, listed, named>>
    BY <1>7 DEF FsckMark
  <2>. QED  BY <1>4, <1>7, <2>1 DEF Checked
<1>8. FsckCommit \/ FsckFails => fpc' = "idle"
  BY DEF FsckCommit, FsckFails, FsckEnds
<1>. QED  BY <1>2, <1>3, <1>5, <1>6, <1>7, <1>8 DEF Fsck

Watched == Sound /\ Checked

LEMMA WatchedNext ==
    ASSUME Watched, [Next]_vars
    PROVE  Watched'
<1>1. SUFFICES Checked'
  BY SoundNext DEF Watched
<1>2. CASE UNCHANGED vars
  BY <1>2 DEF vars, store, checker, history, Watched, Checked, Naming
<1>3. CASE Next /\ UNCHANGED checker
  BY <1>3, CheckedMeanwhile DEF Next, Watched
<1>4. CASE Fsck /\ UNCHANGED store /\ Watch
  BY <1>4, CheckedFsck DEF Watched
<1>5. CASE Crash
  BY <1>5 DEF Crash, FsckEnds, Checked
<1>. QED  BY <1>2, <1>3, <1>4, <1>5 DEF Next

LEMMA WatchedInvariant == Spec => []Watched
<1>1. Init => Watched
  BY SoundInit DEF Init, Watched, Checked
<1>. QED  BY <1>1, WatchedNext, PTL DEF Spec

\* A fsck that commits goes by what it knows.
LEMMA CommitMarks ==
    ASSUME Watched, [Next]_vars, Commits
    PROVE  /\ marked' = (marked \ named) \cup missing
           /\ inRows \subseteq named /\ missing \cap listed = {}
           /\ inRows \ listed \subseteq missing /\ absent \cap listed = {}
           /\ \A c \in there : c \in listed \/ Dirs[c] \in skipped
<1>1. faults \in Nat
  BY Bounds DEF Watched, Sound, TypeOK
<1>2. \A k : ~Fault(k)
  BY <1>1 DEF Commits, Fault
<1>3. fpc = "commit" /\ fpc' = "idle"
  BY DEF Commits
<1>4. marked' = (marked \ named) \cup missing
  BY <1>2, <1>3 DEF Next, Crash, Fsck, FsckBegin, FsckList, FsckClear, FsckMark, FsckCommit,
                    FsckFails, vars, checker
<1>5. ASSUME NEW c \in there
      PROVE  c \in listed \/ Dirs[c] \in skipped
  <2>1. c \in Calls /\ dir \in Nat /\ dir > MaxDir
    BY <1>3, Bounds DEF Watched, Sound, TypeOK, HistoryOK, CheckerOK, Checked
  <2>2. Dirs[c] < dir
    BY <2>1, Bounds, CallIngestAssumption
  <2>. QED  BY <1>3, <2>2 DEF Watched, Checked
<1>. QED  BY <1>3, <1>4, <1>5 DEF Watched, Checked

\* A row that was there when a fsck began and whose object was there all the time
\* has no mark after its commit, whatever is ingested, lost or deleted meanwhile
\* (unless the directory could not be read).
THEOREM ClearsSound == Spec => FsckClearsSound
<1>1. Watched /\ [Next]_vars =>
        (Commits => \A c \in inRows \cap there \cap marked' : Dirs[c] \in skipped)
  BY CommitMarks
<1>. QED  BY <1>1, WatchedInvariant, PTL DEF Spec, FsckClearsSound

\* And one whose object never was has.
THEOREM FindsMissing == Spec => FsckFindsMissing
<1>1. Watched /\ [Next]_vars => (Commits => inRows \cap absent \subseteq marked')
  BY CommitMarks
<1>. QED  BY <1>1, WatchedInvariant, PTL DEF Spec, FsckFindsMissing

-----------------------------------------------------------------------------
(* Nexus, which the pipeline hands the call to next: its broadcasts and    *)
(* the calls it gives to workers.                                          *)

-----------------------------------------------------------------------------
(* Sequences: a queue behind what was heard, and the round.                *)

LEMMA Concat ==
    ASSUME NEW T, NEW s \in Seq(T), NEW t \in Seq(T)
    PROVE  /\ s \o t \in Seq(T) /\ Len(s \o t) = Len(s) + Len(t)
           /\ \A i \in 1..(Len(s) + Len(t)) :
                (s \o t)[i] = IF i <= Len(s) THEN s[i] ELSE t[i - Len(s)]
OBVIOUS

\* What z has is what s had, one element less from the k-th on, and perhaps e
\* at the end.
Before(i, k) == IF i < k THEN i ELSE i + 1
Follows(z, s, e) ==
    \E k, n \in Nat : \A i \in DOMAIN z :
      \/ i <= n /\ Before(i, k) \in DOMAIN s /\ z[i] = s[Before(i, k)]
      \/ i = n + 1 /\ z[i] = e

\* Nothing but an answer goes.
Keeps(z, s) ==
    \A i \in DOMAIN s : s[i][1] # "reply" => \E j \in DOMAIN z : z[j] = s[i]

LEMMA FollowsSame ==
    ASSUME NEW T, NEW s \in Seq(T), NEW e
    PROVE  Follows(s, s, e) /\ Keeps(s, s)
<1>1. Len(s) + 1 \in Nat /\ Len(s) \in Nat /\ DOMAIN s = 1..Len(s)
  OBVIOUS
<1>2. \A i \in DOMAIN s : i <= Len(s) /\ Before(i, Len(s) + 1) = i
  BY <1>1 DEF Before
<1>3. Follows(s, s, e)
  BY <1>1, <1>2 DEF Follows
<1>4. QED
  BY <1>3 DEF Keeps

LEMMA FollowsAppend ==
    ASSUME NEW T, NEW s \in Seq(T), NEW e \in T
    PROVE  Follows(Append(s, e), s, e) /\ Keeps(Append(s, e), s)
<1>1. Len(s) + 1 \in Nat /\ Len(s) \in Nat /\ DOMAIN s = 1..Len(s)
  OBVIOUS
<1>2. DOMAIN Append(s, e) = 1..(Len(s) + 1) /\ Append(s, e)[Len(s) + 1] = e
      /\ \A i \in DOMAIN s : Append(s, e)[i] = s[i]
  OBVIOUS
<1>3. \A i \in DOMAIN Append(s, e) :
        \/ /\ i <= Len(s) /\ Before(i, Len(s) + 1) \in DOMAIN s
           /\ Append(s, e)[i] = s[Before(i, Len(s) + 1)]
        \/ i = Len(s) + 1 /\ Append(s, e)[i] = e
  BY <1>1, <1>2 DEF Before
<1>4. Follows(Append(s, e), s, e)
  BY <1>1, <1>3 DEF Follows
<1>5. QED
  BY <1>1, <1>2, <1>4 DEF Keeps

\* The head of the queue goes over, or, an answer, away.
LEMMA FollowsHead ==
    ASSUME NEW T, NEW s \in Seq(T), NEW t \in Seq(T), t # <<>>, NEW e
    PROVE  /\ Append(s, Head(t)) \o Tail(t) = s \o t
           /\ Head(t)[1] = "reply" =>
                Follows(s \o Tail(t), s \o t, e) /\ Keeps(s \o Tail(t), s \o t)
<1> DEFINE k == Len(s) + 1
           z == s \o Tail(t)
<1>1. Head(t) \in T /\ Tail(t) \in Seq(T) /\ Len(Tail(t)) = Len(t) - 1 /\ Len(t) \in Nat
      /\ Len(t) >= 1 /\ Head(t) = t[1] /\ Len(s) \in Nat
      /\ \A i \in 1..(Len(t) - 1) : Tail(t)[i] = t[i + 1]
  OBVIOUS
<1>2. Append(s, Head(t)) \o Tail(t) = s \o t
  <2>1. /\ Append(s, Head(t)) \o Tail(t) \in Seq(T)
        /\ Len(Append(s, Head(t)) \o Tail(t)) = Len(s) + Len(t)
        /\ \A i \in 1..(Len(s) + Len(t)) :
             (Append(s, Head(t)) \o Tail(t))[i]
               = IF i <= Len(s) + 1 THEN Append(s, Head(t))[i] ELSE Tail(t)[i - (Len(s) + 1)]
    BY <1>1, Concat
  <2>2. /\ s \o t \in Seq(T) /\ Len(s \o t) = Len(s) + Len(t)
        /\ \A i \in 1..(Len(s) + Len(t)) :
             (s \o t)[i] = IF i <= Len(s) THEN s[i] ELSE t[i - Len(s)]
    BY Concat
  <2>3. \A i \in 1..(Len(s) + Len(t)) : (Append(s, Head(t)) \o Tail(t))[i] = (s \o t)[i]
    BY <2>1, <2>2, <1>1
  <2>4. QED
    BY <2>1, <2>2, <2>3
<1>3. ASSUME Head(t)[1] = "reply" PROVE Follows(z, s \o t, e) /\ Keeps(z, s \o t)
  <2>1. /\ DOMAIN z = 1..(Len(s) + Len(t) - 1)
        /\ \A i \in DOMAIN z : z[i] = IF i <= Len(s) THEN s[i] ELSE Tail(t)[i - Len(s)]
    BY <1>1, Concat
  <2>2. /\ DOMAIN (s \o t) = 1..(Len(s) + Len(t))
        /\ \A i \in 1..(Len(s) + Len(t)) :
             (s \o t)[i] = IF i <= Len(s) THEN s[i] ELSE t[i - Len(s)]
    BY Concat
  <2>3. \A i \in DOMAIN z : i <= Len(s) + Len(t) - 1
          /\ Before(i, k) \in DOMAIN (s \o t) /\ z[i] = (s \o t)[Before(i, k)]
    <3> SUFFICES ASSUME NEW i \in DOMAIN z
                 PROVE  i <= Len(s) + Len(t) - 1
                        /\ Before(i, k) \in DOMAIN (s \o t) /\ z[i] = (s \o t)[Before(i, k)]
      OBVIOUS
    <3>1. CASE i <= Len(s)
      BY <3>1, <2>1, <2>2, <1>1 DEF Before
    <3>2. CASE ~(i <= Len(s))
      <4>1. i - Len(s) \in 1..(Len(t) - 1) /\ Before(i, k) = i + 1
        BY <3>2, <2>1, <1>1 DEF Before
      <4>2. z[i] = t[i - Len(s) + 1]
        BY <4>1, <3>2, <2>1, <1>1
      <4>3. (s \o t)[i + 1] = t[i + 1 - Len(s)] /\ i + 1 \in DOMAIN (s \o t)
        BY <4>1, <3>2, <2>1, <2>2, <1>1
      <4>4. i + 1 - Len(s) = i - Len(s) + 1
        BY <4>1, <2>1, <1>1
      <4>5. QED
        BY <4>1, <4>2, <4>3, <4>4, <2>1, <1>1
    <3>3. QED
      BY <3>1, <3>2
  <2>4. Follows(z, s \o t, e)
    <3>1. k \in Nat /\ Len(s) + Len(t) - 1 \in Nat
      BY <1>1
    <3>2. QED
      BY <2>3, <3>1 DEF Follows
  <2>5. Keeps(z, s \o t)
    <3> SUFFICES ASSUME NEW i \in DOMAIN (s \o t), (s \o t)[i][1] # "reply"
                 PROVE  \E j \in DOMAIN z : z[j] = (s \o t)[i]
      BY DEF Keeps
    <3>1. CASE i <= Len(s)
      BY <3>1, <2>1, <2>2, <1>1
    <3>2. CASE i > Len(s)
      <4>1. i # k
        BY <2>2, <1>1, <1>3
      <4>2. i - 1 \in DOMAIN z /\ Before(i - 1, k) = i
        BY <4>1, <3>2, <2>1, <2>2, <1>1 DEF Before
      <4>3. QED
        BY <4>2, <2>3
    <3>3. QED
      BY <3>1, <3>2, <2>2, <1>1
  <2>6. QED
    BY <2>4, <2>5
<1>4. QED
  BY <1>2, <1>3

LEMMA AppendToQueue ==
    ASSUME NEW T, NEW s \in Seq(T), NEW t \in Seq(T), NEW e \in T
    PROVE  s \o Append(t, e) = Append(s \o t, e)
<1>1. /\ s \o t \in Seq(T) /\ Len(s \o t) = Len(s) + Len(t)
      /\ \A i \in 1..(Len(s) + Len(t)) :
           (s \o t)[i] = IF i <= Len(s) THEN s[i] ELSE t[i - Len(s)]
  BY Concat
<1>2. Append(t, e) \in Seq(T) /\ Len(Append(t, e)) = Len(t) + 1
      /\ Len(s) \in Nat /\ Len(t) \in Nat
  OBVIOUS
<1>3. /\ s \o Append(t, e) \in Seq(T) /\ Len(s \o Append(t, e)) = Len(s) + Len(t) + 1
      /\ \A i \in 1..(Len(s) + (Len(t) + 1)) :
           (s \o Append(t, e))[i] = IF i <= Len(s) THEN s[i] ELSE Append(t, e)[i - Len(s)]
  <2> DEFINE u == Append(t, e)
  <2>1. u \in Seq(T) /\ Len(u) = Len(t) + 1
    BY <1>2
  <2> HIDE DEF u
  <2>2. /\ s \o u \in Seq(T) /\ Len(s \o u) = Len(s) + Len(u)
        /\ \A i \in 1..(Len(s) + Len(u)) :
             (s \o u)[i] = IF i <= Len(s) THEN s[i] ELSE u[i - Len(s)]
    BY <2>1, Concat
  <2>3. Len(s) + Len(u) = Len(s) + Len(t) + 1 /\ Len(s) + Len(u) = Len(s) + (Len(t) + 1)
    BY <2>1, <1>2
  <2>4. QED
    BY <2>2, <2>3 DEF u
<1>4. Append(s \o t, e) \in Seq(T) /\ Len(Append(s \o t, e)) = Len(s) + Len(t) + 1
  BY <1>1, <1>2
<1>5. \A i \in 1..(Len(s) + Len(t) + 1) : (s \o Append(t, e))[i] = Append(s \o t, e)[i]
  <2> SUFFICES ASSUME NEW i \in 1..(Len(s) + Len(t) + 1)
               PROVE  (s \o Append(t, e))[i] = Append(s \o t, e)[i]
    OBVIOUS
  <2>1. CASE i <= Len(s)
    BY <2>1, <1>1, <1>2, <1>3
  <2>2. CASE i > Len(s) /\ i <= Len(s) + Len(t)
    <3>1. i - Len(s) \in 1..Len(t) /\ ~(i <= Len(s)) /\ i \in 1..(Len(s) + Len(t))
      BY <2>2, <1>2
    <3>2. (s \o Append(t, e))[i] = t[i - Len(s)]
      BY <3>1, <1>2, <1>3
    <3>3. Append(s \o t, e)[i] = (s \o t)[i] /\ (s \o t)[i] = t[i - Len(s)]
      BY <3>1, <1>1, <1>2
    <3>4. QED
      BY <3>2, <3>3
  <2>3. CASE i = Len(s) + Len(t) + 1
    <3>1. i - Len(s) = Len(t) + 1 /\ ~(i <= Len(s)) /\ i \in 1..(Len(s) + (Len(t) + 1))
      BY <2>3, <1>2
    <3>2. (s \o Append(t, e))[i] = e
      BY <3>1, <1>2, <1>3
    <3>3. Append(s \o t, e)[i] = e
      BY <2>3, <1>1, <1>2
    <3>4. QED
      BY <3>2, <3>3
  <2>4. QED
    BY <2>1, <2>2, <2>3, <1>2
<1>6. QED
  BY <1>3, <1>4, <1>5

\* The round: who is added is in it, who is deleted is not, and nobody twice.
LEMMA RoundAppend ==
    ASSUME NEW s \in Seq(Clients), IsInjective(s), NEW c \in Clients, c \notin Range(s)
    PROVE  /\ Append(s, c) \in Seq(Clients) /\ IsInjective(Append(s, c))
           /\ Range(Append(s, c)) \subseteq Range(s) \cup {c}
BY DEF IsInjective, Range

LEMMA RoundWithout ==
    ASSUME NEW s \in Seq(Clients), IsInjective(s), NEW c
    PROVE  /\ Without(s, c) \in Seq(Clients) /\ IsInjective(Without(s, c))
           /\ Range(Without(s, c)) \subseteq Range(s) \ {c}
<1>1. CASE c \notin Range(s)
  BY <1>1 DEF Without
<1>2. CASE c \in Range(s)
  <2> DEFINE place == CHOOSE i \in DOMAIN s : s[i] = c
             n == Len(s)
             z == [s EXCEPT ![place] = s[n]]
  <2>1. place \in 1..n /\ s[place] = c /\ n \in Nat /\ n >= 1
    BY <1>2 DEF Range
  <2>2. \A i \in 1..n : s[i] \in Clients
    OBVIOUS
  <2> HIDE DEF place
  <2>3. z \in Seq(Clients) /\ Len(z) = n
        /\ \A i \in 1..n : z[i] = IF i = place THEN s[n] ELSE s[i]
    BY <2>1, <2>2
  <2> HIDE DEF z
  <2> DEFINE w == SubSeq(z, 1, n - 1)
  <2>4. w \in Seq(Clients) /\ Len(w) = n - 1 /\ \A i \in 1..(n - 1) : w[i] = z[i]
    BY <2>3, <2>1
  <2>5. Without(s, c) = w
    BY <1>2, <2>3 DEF Without, Front, Last, place, z
  <2> HIDE DEF w
  <2>6. DOMAIN w = 1..(n - 1) /\ \A i \in 1..(n - 1) : w[i] = IF i = place THEN s[n] ELSE s[i]
    BY <2>1, <2>3, <2>4
  <2>7. \A i, j \in 1..n : s[i] = s[j] => i = j
    BY DEF IsInjective
  <2>8. IsInjective(w)
    BY <2>1, <2>6, <2>7 DEF IsInjective
  <2>9. \A i \in 1..(n - 1) : w[i] # c /\ \E j \in 1..n : w[i] = s[j]
    BY <2>1, <2>6, <2>7
  <2>10. Range(w) \subseteq Range(s) \ {c}
    BY <2>6, <2>9 DEF Range
  <2>11. QED
    BY <2>4, <2>5, <2>8, <2>10
<1>3. QED
  BY <1>1, <1>2

LEMMA UpcomingIs ==
    ASSUME items \in Seq(Clients), turn \in Nat, items # <<>>
    PROVE  Upcoming \in Clients /\ Upcoming \in Range(items)
<1>1. Len(items) \in Nat /\ Len(items) > 0 /\ DOMAIN items = 1..Len(items)
  OBVIOUS
<1>2. (turn % Len(items)) + 1 \in 1..Len(items)
  BY <1>1
<1>3. QED
  BY <1>1, <1>2 DEF Upcoming, Range

-----------------------------------------------------------------------------
(* Types, by parts.                                                        *)

SocketsOK ==
    /\ srv \in {"up", "stopping", "gone", "panicked"}
    /\ conn \in [Clients -> {"new", "open", "ended", "unregistered", "closed"}]
    /\ hello \subseteq Clients /\ clients \subseteq Clients /\ isWorker \subseteq Clients
QueuesOK ==
    /\ out \in [Clients -> Seq(Entry)] /\ heard \in [Clients -> Seq(Entry)]
    /\ \A c \in Clients : Len(out[c]) <= QSize
WishesOK ==
    /\ subs \in [Clients -> SUBSET Types]
    /\ since \in [Clients -> [Types -> Nat]]
RoundOK == items \in Seq(Clients) /\ IsInjective(items) /\ turn \in Nat
LoopOK ==
    /\ log \in Seq(Types) /\ nx \in {"recv", "bcast", "hunt", "down"}
    /\ todo \subseteq Clients
HuntsOK == hunt \in [Dispatchers -> Dispatch \cup {Nobody}]
SourcesOK == pipe \in {"call", Nobody} /\ emitted \in Nat /\ requests \in Nat
Doing == [pc : {"idle", "start", "mark", "reply", "bcast", "done"},
          of : Clients \cup {Nobody}, kind : CommandKinds \cup {Nobody}]
CmdsOK == cmds \in [Goroutines -> Doing]

LEMMA Parts ==
    NexusTypeOK <=> /\ SocketsOK /\ QueuesOK /\ WishesOK /\ RoundOK
                    /\ LoopOK /\ HuntsOK /\ SourcesOK /\ CmdsOK
BY DEF NexusTypeOK, SocketsOK, QueuesOK, WishesOK, RoundOK, LoopOK, HuntsOK, SourcesOK,
       CmdsOK, Doing

LEMMA PartsNext ==
    NexusTypeOK' <=> /\ SocketsOK' /\ QueuesOK' /\ WishesOK' /\ RoundOK'
                     /\ LoopOK' /\ HuntsOK' /\ SourcesOK' /\ CmdsOK'
BY DEF NexusTypeOK, SocketsOK, QueuesOK, WishesOK, RoundOK, LoopOK, HuntsOK, SourcesOK,
       CmdsOK, Doing

LEMMA HubFrame ==
    ASSUME NexusTypeOK
    PROVE  /\ UNCHANGED <<srv, conn, hello, clients, isWorker>> => SocketsOK'
           /\ UNCHANGED <<out, heard>> => QueuesOK'
           /\ UNCHANGED <<subs, since>> => WishesOK'
           /\ UNCHANGED <<items, turn>> => RoundOK'
           /\ UNCHANGED <<log, nx, todo>> => LoopOK'
           /\ UNCHANGED hunt => HuntsOK'
           /\ UNCHANGED <<pipe, emitted, requests>> => SourcesOK'
           /\ UNCHANGED cmds => CmdsOK'
<1> USE Parts
<1>1. UNCHANGED <<srv, conn, hello, clients, isWorker>> => SocketsOK'
  BY DEF SocketsOK
<1>2. UNCHANGED <<out, heard>> => QueuesOK'
  BY DEF QueuesOK
<1>3. UNCHANGED <<subs, since>> => WishesOK'
  BY DEF WishesOK
<1>4. UNCHANGED <<items, turn>> => RoundOK'
  BY DEF RoundOK
<1>5. UNCHANGED <<log, nx, todo>> => LoopOK'
  BY DEF LoopOK
<1>6. UNCHANGED hunt => HuntsOK'
  BY DEF HuntsOK
<1>7. UNCHANGED <<pipe, emitted, requests>> => SourcesOK'
  BY DEF SourcesOK
<1>8. UNCHANGED cmds => CmdsOK'
  BY DEF CmdsOK
<1>9. QED
  BY <1>1, <1>2, <1>3, <1>4, <1>5, <1>6, <1>7, <1>8

\* A message goes into a queue that has room for it.
LEMMA EnqueueType ==
    ASSUME QueuesOK, NEW c \in Clients, NEW e \in Entry,
           UNCHANGED heard,
           (HasRoom(c) /\ Enqueue(c, e)) \/ TrySend(c, e) \/ UNCHANGED out
    PROVE  /\ QueuesOK'
           /\ UNCHANGED out \/ Enqueue(c, e)
<1>1. CASE UNCHANGED out
  BY <1>1 DEF QueuesOK
<1>2. CASE HasRoom(c) /\ Enqueue(c, e)
  <2>1. out[c] \in Seq(Entry) /\ Len(out[c]) < QSize /\ QSize \in Nat
    BY <1>2, NexusAssumption DEF QueuesOK, HasRoom
  <2>2. Append(out[c], e) \in Seq(Entry) /\ Len(Append(out[c], e)) <= QSize
    BY <2>1
  <2>3. out' = [out EXCEPT ![c] = Append(out[c], e)]
    BY <1>2 DEF Enqueue
  <2> HIDE DEF Entry
  <2>4. QED
    BY <1>2, <2>2, <2>3 DEF QueuesOK
<1>3. QED
  BY <1>1, <1>2 DEF TrySend

\* A command goes on: its client and its kind stay.
LEMMA GotoIs ==
    ASSUME CmdsOK, NEW g \in Goroutines, NEW p, Goto(g, p),
           p \in {"start", "mark", "reply", "bcast", "done"}
    PROVE  /\ CmdsOK'
           /\ \A h \in Goroutines \ {g} : cmds'[h] = cmds[h]
           /\ cmds'[g].pc = p /\ cmds'[g].of = cmds[g].of /\ cmds'[g].kind = cmds[g].kind
<1>1. cmds[g] \in Doing
  BY DEF CmdsOK
<1>2. [cmds[g] EXCEPT !.pc = p] \in Doing
  BY <1>1 DEF Doing
<1>3. cmds' = [cmds EXCEPT ![g] = [cmds[g] EXCEPT !.pc = p]]
  BY DEF Goto
<1>4. CmdsOK'
  BY <1>2, <1>3 DEF CmdsOK
<1>5. QED
  BY <1>1, <1>3, <1>4 DEF CmdsOK, Doing

LEMMA HuntTypes ==
    ASSUME HuntsOK, NEW d \in Dispatchers, hunt[d] # Nobody
    PROVE  /\ hunt[d] \in Dispatch
           /\ \A p \in {"next", "send"}, c \in Clients :
                /\ [hunt EXCEPT ![d].pc = p, ![d].last = c]
                     = [hunt EXCEPT ![d] = [pc |-> p, call |-> hunt[d].call, last |-> c]]
                /\ [pc |-> p, call |-> hunt[d].call, last |-> c] \in Dispatch
           /\ \A p \in {"next", "send"} :
                /\ [hunt EXCEPT ![d].pc = p]
                     = [hunt EXCEPT ![d] = [pc |-> p, call |-> hunt[d].call, last |-> hunt[d].last]]
                /\ [pc |-> p, call |-> hunt[d].call, last |-> hunt[d].last] \in Dispatch
<1>1. hunt[d] \in Dispatch
  BY DEF HuntsOK
<1>2. \A p \in {"next", "send"}, c \in Clients :
        /\ [hunt[d] EXCEPT !.pc = p, !.last = c] = [pc |-> p, call |-> hunt[d].call, last |-> c]
        /\ [pc |-> p, call |-> hunt[d].call, last |-> c] \in Dispatch
  <2> SUFFICES ASSUME NEW p \in {"next", "send"}, NEW c \in Clients
               PROVE  /\ [hunt[d] EXCEPT !.pc = p, !.last = c]
                           = [pc |-> p, call |-> hunt[d].call, last |-> c]
                      /\ [pc |-> p, call |-> hunt[d].call, last |-> c] \in Dispatch
    OBVIOUS
  <2>1. [pc |-> p, call |-> hunt[d].call, last |-> c] \in Dispatch
    BY <1>1 DEF Dispatch
  <2>2. [hunt[d] EXCEPT !.pc = p, !.last = c] = [pc |-> p, call |-> hunt[d].call, last |-> c]
    <3> DEFINE r == [hunt[d] EXCEPT !.pc = p]
    <3>1. r = [pc |-> p, call |-> hunt[d].call, last |-> hunt[d].last]
      BY <1>1 DEF Dispatch
    <3> HIDE DEF r
    <3>2. [r EXCEPT !.last = c] = [pc |-> p, call |-> hunt[d].call, last |-> c]
      BY <3>1
    <3>3. QED
      BY <3>2 DEF r
  <2>3. QED
    BY <2>1, <2>2
<1>3. \A p \in {"next", "send"} :
        /\ [hunt[d] EXCEPT !.pc = p] = [pc |-> p, call |-> hunt[d].call, last |-> hunt[d].last]
        /\ [pc |-> p, call |-> hunt[d].call, last |-> hunt[d].last] \in Dispatch
  BY <1>1 DEF Dispatch
<1>4. ASSUME NEW p \in {"next", "send"}, NEW c \in Clients
      PROVE  [hunt EXCEPT ![d].pc = p, ![d].last = c]
               = [hunt EXCEPT ![d] = [pc |-> p, call |-> hunt[d].call, last |-> c]]
  <2>1. [hunt[d] EXCEPT !.pc = p, !.last = c] = [pc |-> p, call |-> hunt[d].call, last |-> c]
    BY <1>2
  <2>2. QED
    BY <2>1
<1>5. ASSUME NEW p \in {"next", "send"}
      PROVE  [hunt EXCEPT ![d].pc = p]
               = [hunt EXCEPT ![d] = [pc |-> p, call |-> hunt[d].call, last |-> hunt[d].last]]
  <2>1. [hunt[d] EXCEPT !.pc = p] = [pc |-> p, call |-> hunt[d].call, last |-> hunt[d].last]
    BY <1>3
  <2>2. QED
    BY <2>1
<1>6. QED
  BY <1>1, <1>2, <1>3, <1>4, <1>5

\* A call is dispatched, handed on, or gone.
LEMMA HuntsType ==
    ASSUME HuntsOK, NEW d \in Dispatchers, NEW h \in Dispatch \cup {Nobody},
           hunt' = [hunt EXCEPT ![d] = h]
    PROVE  /\ HuntsOK' /\ hunt'[d] = h
           /\ \A e \in Dispatchers \ {d} : hunt'[e] = hunt[e]
BY DEF HuntsOK

\* A command has a client that was connected, and a call is sent to a client.
HasClient ==
    /\ \A g \in Goroutines :
         cmds[g].pc # "idle" => cmds[g].of \in Clients /\ conn[cmds[g].of] # "new"
    /\ \A d \in Dispatchers :
         hunt[d] # Nobody /\ hunt[d].pc = "send" => hunt[d].last \in Clients

HubTyped == NexusTypeOK /\ HasClient

LEMMA ForgetType ==
    ASSUME NexusTypeOK, NEW c \in Clients, Forget(c), UNCHANGED turn
    PROVE  /\ RoundOK' /\ clients' \subseteq clients
           /\ Range(items') \subseteq Range(items)
           /\ \A b \in clients : b # c => b \in clients'
<1>1. items \in Seq(Clients) /\ IsInjective(items) /\ turn \in Nat
  BY Parts DEF RoundOK
<1>2. items' = items \/ items' = Without(items, c)
  BY DEF Forget
<1>3. RoundOK' /\ Range(items') \subseteq Range(items)
  <2>1. CASE items' = items
    BY <1>1, <2>1 DEF RoundOK
  <2>2. CASE items' = Without(items, c)
    <3>1. /\ Without(items, c) \in Seq(Clients)
          /\ IsInjective(Without(items, c))
          /\ Range(Without(items, c)) \subseteq Range(items) \ {c}
      BY <1>1, RoundWithout
    <3>2. QED
      BY <1>1, <2>2, <3>1 DEF RoundOK
  <2>3. QED
    BY <1>2, <2>1, <2>2
<1>4. QED
  BY <1>3 DEF Forget

LEMMA ConnectionType ==
    ASSUME HubTyped, NEW c \in Clients, Connection(c)
    PROVE  NexusTypeOK'
<1> USE DEF HubTyped
<1> DEFINE Goal == NexusTypeOK'
<1>1. CASE ServeWS(c)
  <2>1. SocketsOK'
    BY <1>1, Parts DEF ServeWS, SocketsOK
  <2>2. QED
    BY <1>1, <2>1, HubFrame, PartsNext
       DEF ServeWS, queues, wishes, round, source
<1>2. CASE Hello(c)
  <2>1. SocketsOK'
    BY <1>2, Parts DEF Hello, SocketsOK
  <2>2. <<"reply", 0>> \in Entry
    BY DEF Entry
  <2>3. QueuesOK'
    BY <1>2, <2>2, EnqueueType, Parts DEF Hello
  <2>4. QED
    BY <1>2, <2>1, <2>3, HubFrame, PartsNext DEF Hello, wishes, round, source
<1>3. ASSUME NEW g \in Goroutines, NEW k \in CommandKinds, ReadMessage(g, c, k)
      PROVE  NexusTypeOK'
  <2>1. [pc |-> IF k = "tg" THEN "reply" ELSE "start", of |-> c, kind |-> k] \in Doing
    BY DEF Doing
  <2>2. CmdsOK'
    BY <1>3, <2>1, Parts DEF ReadMessage, CmdsOK
  <2>3. QED
    BY <1>3, <2>2, HubFrame, PartsNext
       DEF ReadMessage, nexus, queues, wishes, round, source
<1>4. CASE ReadFails(c) \/ CloseCh(c)
  <2>1. SocketsOK'
    BY <1>4, Parts DEF ReadFails, CloseCh, nexus, SocketsOK
  <2>2. QED
    BY <1>4, <2>1, HubFrame, PartsNext
       DEF ReadFails, CloseCh, nexus, queues, wishes, round, source
<1>5. CASE Unregister(c)
  <2>1. SocketsOK'
    BY <1>5, Parts DEF Unregister, Forget, SocketsOK
  <2>2. RoundOK'
    BY <1>5, ForgetType DEF Unregister
  <2>3. QED
    BY <1>5, <2>1, <2>2, HubFrame, PartsNext
       DEF Unregister, queues, wishes, source
<1>6. CASE WritePump(c)
  <2>1. out[c] \in Seq(Entry) /\ out[c] # <<>> /\ heard[c] \in Seq(Entry)
        /\ Len(out[c]) <= QSize /\ QSize \in Nat
    BY <1>6, Parts, NexusAssumption DEF WritePump, QueuesOK
  <2>2. /\ Tail(out[c]) \in Seq(Entry) /\ Len(Tail(out[c])) <= QSize
        /\ Append(heard[c], Head(out[c])) \in Seq(Entry)
    BY <2>1
  <2>3. \E h \in Seq(Entry) : heard' = [heard EXCEPT ![c] = h]
    BY <1>6, <2>1, <2>2 DEF WritePump
  <2>4. out' = [out EXCEPT ![c] = Tail(out[c])]
    BY <1>6 DEF WritePump
  <2>5. QueuesOK'
    BY <2>2, <2>3, <2>4, Parts DEF QueuesOK
  <2>6. QED
    BY <1>6, <2>5, HubFrame, PartsNext
       DEF WritePump, nexus, wishes, round, source
<1>7. QED
  BY <1>1, <1>2, <1>3, <1>4, <1>5, <1>6 DEF Connection

LEMMA CommandType ==
    ASSUME HubTyped, NEW g \in Goroutines, Command(g)
    PROVE  NexusTypeOK'
<1> USE DEF HubTyped
<1> DEFINE c == cmds[g].of
<1>1. cmds[g].pc # "idle" => c \in Clients
  BY DEF HasClient
<1>2. CmdsOK /\ QueuesOK /\ WishesOK /\ LoopOK /\ RoundOK /\ SocketsOK
  BY Parts
<1> HIDE DEF c
<1>3. CASE Live(g)
  <2>1. cmds[g].pc = "start"
    BY <1>3 DEF Live
  <2>2. c \in Clients
    BY <1>1, <2>1
  <2>3. CmdsOK'
    BY <1>2, <1>3, GotoIs DEF Live
  <2>4. WishesOK'
    <3>1. CASE UNCHANGED wishes
      BY <3>1, HubFrame DEF wishes
    <3>2. ASSUME NEW want \in Wants, subs' = [subs EXCEPT ![c] = want],
                 since' = [since EXCEPT ![c] = [t \in Types |->
                             IF t \in subs[c] THEN since[c][t] ELSE Len(log)]]
          PROVE  WishesOK'
      <4>1. want \in SUBSET Types
        BY NexusAssumption
      <4>2. Len(log) \in Nat /\ since[c] \in [Types -> Nat]
        BY <1>2, <2>2 DEF LoopOK, WishesOK
      <4>3. [t \in Types |-> IF t \in subs[c] THEN since[c][t] ELSE Len(log)]
              \in [Types -> Nat]
        BY <4>2
      <4>4. QED
        BY <1>2, <2>2, <3>2, <4>1, <4>3 DEF WishesOK
    <3>3. QED
      BY <1>3, <3>1, <3>2 DEF Live, c
  <2>5. QED
    BY <1>3, <2>3, <2>4, HubFrame, PartsNext
       DEF Live, nexus, queues, round, source
<1>4. CASE RegisterWorker(g)
  <2>1. CmdsOK'
    BY <1>2, <1>4, GotoIs DEF RegisterWorker
  <2>2. c \in Clients
    BY <1>1, <1>4 DEF RegisterWorker
  <2>3. RoundOK'
    <3>1. CASE c \in Range(items)
      BY <1>4, <3>1, HubFrame DEF RegisterWorker, c
    <3>2. CASE c \notin Range(items)
      <4>1. Append(items, c) \in Seq(Clients) /\ IsInjective(Append(items, c))
        BY <1>2, <2>2, <3>2, RoundAppend DEF RoundOK
      <4>2. items' = Append(items, c) /\ turn' = turn
        BY <1>4, <3>2 DEF RegisterWorker, c
      <4>3. QED
        BY <1>2, <4>1, <4>2 DEF RoundOK
    <3>3. QED
      BY <3>1, <3>2
  <2>4. QED
    BY <1>4, <2>1, <2>3, HubFrame, PartsNext
       DEF RegisterWorker, nexus, queues, wishes, source
<1>5. CASE MarkWorker(g)
  <2>1. CmdsOK'
    BY <1>2, <1>5, GotoIs DEF MarkWorker
  <2>2. SocketsOK'
    BY <1>1, <1>2, <1>5 DEF MarkWorker, nexus, SocketsOK, c
  <2>3. QED
    BY <1>5, <2>1, <2>2, HubFrame, PartsNext
       DEF MarkWorker, nexus, queues, wishes, round, source
<1>6. CASE SetTranscript(g)
  <2>1. CmdsOK'
    BY <1>2, <1>6, GotoIs DEF SetTranscript
  <2>2. QED
    BY <1>6, <2>1, HubFrame, PartsNext
       DEF SetTranscript, nexus, queues, wishes, round, source
<1>7. CASE Reply(g)
  <2>1. CmdsOK'
    BY <1>2, <1>7, GotoIs DEF Reply
  <2>2. c \in Clients /\ <<"reply", 0>> \in Entry
    BY <1>1, <1>7 DEF Reply, Entry
  <2>3. UNCHANGED heard /\ (UNCHANGED out \/ TrySend(c, <<"reply", 0>>))
    BY <1>7 DEF Reply, c
  <2>4. QueuesOK'
    BY <1>2, <2>2, <2>3, EnqueueType
  <2>5. SocketsOK'
    BY <1>2, <1>7 DEF Reply, nexus, SocketsOK
  <2>6. QED
    BY <1>7, <2>1, <2>4, <2>5, HubFrame, PartsNext
       DEF Reply, nexus, wishes, round, source
<1>8. QED
  BY <1>3, <1>4, <1>5, <1>6, <1>7 DEF Command

\* What a step of a dispatch makes of it.
LEMMA HuntSteps ==
    ASSUME HubTyped, NEW d \in Dispatchers
    PROVE  /\ NextWorker(d) =>
                \/ /\ EndHunt(d)
                   /\ Upcoming = Nobody \/ Upcoming = hunt[d].last
                \/ /\ items # <<>> /\ Upcoming \in Clients
                   /\ hunt' = [hunt EXCEPT ![d] =
                        [pc |-> "send", call |-> hunt[d].call, last |-> Upcoming]]
                   /\ UNCHANGED nx
           /\ SendWork(d) =>
                \/ EndHunt(d) /\ UNCHANGED items
                \/ /\ items' = Without(items, hunt[d].last)
                   /\ hunt' = [hunt EXCEPT ![d] =
                        [pc |-> "next", call |-> hunt[d].call, last |-> hunt[d].last]]
                   /\ UNCHANGED <<out, nx>>
<1> HuntsOK /\ RoundOK
  BY Parts DEF HubTyped
<1>1. ASSUME NextWorker(d), Upcoming \notin {Nobody, hunt[d].last}
      PROVE  /\ items # <<>> /\ Upcoming \in Clients
             /\ hunt' = [hunt EXCEPT ![d] =
                  [pc |-> "send", call |-> hunt[d].call, last |-> Upcoming]]
             /\ UNCHANGED nx
  <2>1. items # <<>>
    BY <1>1 DEF Upcoming
  <2>2. Upcoming \in Clients
    BY <2>1, UpcomingIs DEF RoundOK
  <2>3. hunt' = [hunt EXCEPT ![d].pc = "send", ![d].last = Upcoming] /\ UNCHANGED nx
        /\ hunt[d] # Nobody
    BY <1>1 DEF NextWorker
  <2> HIDE DEF Upcoming
  <2>4. QED
    BY <2>1, <2>2, <2>3, HuntTypes
<1>2. ASSUME SendWork(d), ~(EndHunt(d) /\ UNCHANGED items)
      PROVE  /\ items' = Without(items, hunt[d].last)
             /\ hunt' = [hunt EXCEPT ![d] =
                  [pc |-> "next", call |-> hunt[d].call, last |-> hunt[d].last]]
             /\ UNCHANGED <<out, nx>>
  <2>1. hunt' = [hunt EXCEPT ![d].pc = "next"] /\ UNCHANGED <<out, nx>> /\ hunt[d] # Nobody
        /\ items' = Without(items, hunt[d].last)
    BY <1>2 DEF SendWork
  <2>2. QED
    BY <2>1, HuntTypes
<1>3. QED
  BY <1>1, <1>2 DEF NextWorker

LEMMA HuntType ==
    ASSUME HubTyped, NEW d \in Dispatchers, Hunt(d)
    PROVE  NexusTypeOK'
<1> USE DEF HubTyped
<1>1. HuntsOK /\ RoundOK /\ LoopOK /\ SocketsOK /\ QueuesOK
  BY Parts
<1>2. EndHunt(d) => HuntsOK' /\ nx' \in {"recv", "bcast", "hunt", "down"}
  BY <1>1, HuntsType DEF EndHunt, LoopOK
<1>3. CASE NextWorker(d)
  <2>1. RoundOK'
    BY <1>1, <1>3 DEF NextWorker, RoundOK
  <2>2. HuntsOK' /\ nx' \in {"recv", "bcast", "hunt", "down"}
    <3>1. CASE EndHunt(d)
      BY <3>1, <1>2
    <3>2. CASE /\ items # <<>> /\ Upcoming \in Clients
               /\ hunt' = [hunt EXCEPT ![d] =
                    [pc |-> "send", call |-> hunt[d].call, last |-> Upcoming]]
               /\ UNCHANGED nx
      <4>1. [pc |-> "send", call |-> hunt[d].call, last |-> Upcoming] \in Dispatch
        BY <1>1, <1>3, <3>2, HuntTypes DEF NextWorker
      <4>2. QED
        BY <1>1, <3>2, <4>1, HuntsType DEF LoopOK
    <3>3. QED
      BY <1>3, <3>1, <3>2, HuntSteps
  <2>3. LoopOK'
    BY <1>1, <1>3, <2>2 DEF NextWorker, LoopOK
  <2>4. QED
    BY <1>3, <2>1, <2>2, <2>3, HubFrame, PartsNext
       DEF NextWorker, queues, wishes, source
<1>4. CASE SendWork(d)
  <2>1. hunt[d] # Nobody /\ hunt[d].last \in Clients /\ hunt[d] \in Dispatch
    BY <1>1, <1>4, HuntTypes DEF SendWork, HasClient
  <2>2. <<d, hunt[d].call>> \in Entry
    BY <2>1 DEF Dispatch, Entry
  <2>3. RoundOK' /\ HuntsOK' /\ nx' \in {"recv", "bcast", "hunt", "down"}
    <3>1. CASE EndHunt(d) /\ UNCHANGED items
      BY <1>1, <1>2, <1>4, <3>1 DEF SendWork, RoundOK
    <3>2. CASE /\ items' = Without(items, hunt[d].last)
               /\ hunt' = [hunt EXCEPT ![d] =
                    [pc |-> "next", call |-> hunt[d].call, last |-> hunt[d].last]]
               /\ UNCHANGED <<out, nx>>
      <4>1. [pc |-> "next", call |-> hunt[d].call, last |-> hunt[d].last] \in Dispatch
        BY <2>1, <1>1, HuntTypes
      <4>2. /\ Without(items, hunt[d].last) \in Seq(Clients)
            /\ IsInjective(Without(items, hunt[d].last))
        BY <1>1, RoundWithout DEF RoundOK
      <4>3. RoundOK'
        BY <1>1, <1>4, <3>2, <4>2 DEF RoundOK, SendWork
      <4>4. HuntsOK'
        BY <1>1, <3>2, <4>1, HuntsType
      <4>5. QED
        BY <1>1, <3>2, <4>3, <4>4 DEF LoopOK
    <3>3. QED
      BY <1>4, <3>1, <3>2, HuntSteps
  <2>4. LoopOK'
    BY <1>1, <1>4, <2>3 DEF SendWork, LoopOK
  <2>5. QueuesOK'
    BY <1>1, <1>4, <2>1, <2>2, EnqueueType DEF SendWork
  <2>6. SocketsOK'
    BY <1>1, <1>4 DEF SendWork, SocketsOK
  <2>7. QED
    BY <1>4, <2>3, <2>4, <2>5, <2>6, HubFrame, PartsNext
       DEF SendWork, wishes, source
<1>5. QED
  BY <1>3, <1>4 DEF Hunt

LEMMA LoopType ==
    ASSUME HubTyped, NexusGo
    PROVE  NexusTypeOK'
<1> USE DEF HubTyped
<1>1. HuntsOK /\ RoundOK /\ LoopOK /\ SocketsOK /\ QueuesOK /\ CmdsOK /\ SourcesOK
  BY Parts
<1>2. ASSUME NEW m, Receive(m), m \in Types PROVE LoopOK'
  BY <1>1, <1>2 DEF Receive, LoopOK, SocketsOK
<1>3. CASE ReceiveCall
  <2>1. LoopOK'
    BY <1>1, <1>2, <1>3 DEF ReceiveCall, SourcesOK, Types
  <2>2. SourcesOK'
    BY <1>1, <1>3 DEF ReceiveCall, Receive, SourcesOK
  <2>3. QED
    BY <1>3, <2>1, <2>2, HubFrame, PartsNext
       DEF ReceiveCall, Receive, queues, wishes, round
<1>4. ASSUME NEW g \in Goroutines, ReceiveTranscript(g) PROVE NexusTypeOK'
  <2>1. LoopOK'
    BY <1>2, <1>4 DEF ReceiveTranscript, Types
  <2>2. CmdsOK'
    BY <1>1, <1>4, GotoIs DEF ReceiveTranscript
  <2>3. QED
    BY <1>4, <2>1, <2>2, HubFrame, PartsNext
       DEF ReceiveTranscript, Receive, queues, wishes, round
<1>5. ASSUME NEW c \in Clients, BroadcastTo(c) PROVE NexusTypeOK'
  <2>1. <<"bcast", Len(log)>> \in Entry
    BY <1>1 DEF Entry, LoopOK
  <2>2. QueuesOK'
    BY <1>1, <1>5, <2>1, EnqueueType DEF BroadcastTo
  <2>3. LoopOK'
    BY <1>1, <1>5 DEF BroadcastTo, LoopOK
  <2>4. RoundOK' /\ clients' \subseteq Clients
    <3>1. CASE Forget(c)
      BY <1>1, <1>5, <3>1, ForgetType DEF BroadcastTo, SocketsOK
    <3>2. CASE UNCHANGED <<clients, items>>
      BY <1>1, <1>5, <3>2 DEF BroadcastTo, RoundOK, SocketsOK
    <3>3. QED
      BY <1>5, <3>1, <3>2 DEF BroadcastTo
  <2>5. SocketsOK'
    BY <1>1, <1>5, <2>4 DEF BroadcastTo, SocketsOK
  <2>6. QED
    BY <1>5, <2>2, <2>3, <2>4, <2>5, HubFrame, PartsNext
       DEF BroadcastTo, wishes, source
<1>6. CASE BroadcastDone
  <2>1. LoopOK'
    BY <1>1, <1>6 DEF BroadcastDone, LoopOK
  <2>2. HuntsOK'
    <3>1. [pc |-> "next", call |-> Len(log), last |-> Nobody] \in Dispatch
          /\ "nexus" \in Dispatchers
      BY <1>1 DEF Dispatch, LoopOK, Dispatchers
    <3>2. QED
      BY <1>1, <1>6, <3>1 DEF BroadcastDone, HuntsOK
  <2>3. QED
    BY <1>6, <2>1, <2>2, HubFrame, PartsNext
       DEF BroadcastDone, queues, wishes, round, source
<1>7. CASE GoEnds
  <2>1. LoopOK'
    BY <1>1, <1>7 DEF GoEnds, LoopOK
  <2>2. QED
    BY <1>7, <2>1, HubFrame, PartsNext
       DEF GoEnds, queues, wishes, round, source
<1>8. CASE Hunt("nexus")
  BY <1>8, HuntType DEF Dispatchers
<1>9. QED
  BY <1>3, <1>4, <1>5, <1>6, <1>7, <1>8 DEF NexusGo

LEMMA SourceType ==
    ASSUME HubTyped,
           HttpDispatch \/ BroadcastCall \/ Stop \/ Exit
    PROVE  NexusTypeOK'
<1> USE DEF HubTyped
<1>1. HuntsOK /\ SocketsOK /\ SourcesOK
  BY Parts
<1>2. CASE HttpDispatch
  <2>1. [pc |-> "next", call |-> requests + 1, last |-> Nobody] \in Dispatch
        /\ "http" \in Dispatchers
    BY <1>1 DEF Dispatch, SourcesOK, Dispatchers
  <2>2. HuntsOK'
    BY <1>1, <1>2, <2>1 DEF HttpDispatch, HuntsOK
  <2>3. SourcesOK'
    BY <1>1, <1>2 DEF HttpDispatch, source, SourcesOK
  <2>4. QED
    BY <1>2, <2>2, <2>3, HubFrame, PartsNext
       DEF HttpDispatch, nexus, queues, wishes, round
<1>3. CASE BroadcastCall
  <2>1. SourcesOK'
    BY <1>1, <1>3 DEF BroadcastCall, SourcesOK
  <2>2. QED
    BY <1>3, <2>1, HubFrame, PartsNext
       DEF BroadcastCall, nexus, queues, wishes, round
<1>4. CASE Stop \/ Exit
  <2>1. SocketsOK'
    BY <1>1, <1>4 DEF Stop, Exit, nexus, SocketsOK
  <2>2. QED
    BY <1>4, <2>1, HubFrame, PartsNext
       DEF Stop, Exit, nexus, queues, wishes, round, source
<1>5. QED
  BY <1>2, <1>3, <1>4

LEMMA HubTypeInit == ASSUME NexusInit PROVE HubTyped
<1> USE DEF NexusInit
<1>1. SocketsOK /\ WishesOK /\ LoopOK /\ HuntsOK /\ SourcesOK
  BY DEF SocketsOK, WishesOK, LoopOK, HuntsOK, SourcesOK, Types, Dispatchers
<1>2. QueuesOK
  BY NexusAssumption DEF QueuesOK
<1>3. RoundOK
  BY DEF RoundOK, IsInjective
<1>4. CmdsOK
  BY DEF CmdsOK, Doing, Idle
<1>5. HasClient
  BY DEF HasClient, Idle
<1>6. QED
  BY <1>1, <1>2, <1>3, <1>4, <1>5, Parts DEF HubTyped

-----------------------------------------------------------------------------
(* What a step does to commands, to the round and to dispatches.           *)

LEMMA CommandSteps ==
    ASSUME HubTyped, NexusNext, NEW g \in Goroutines
    PROVE  \/ cmds'[g] = cmds[g]
           \/ /\ cmds[g].pc # "idle" /\ cmds'[g].pc \notin {"idle", "start"}
              /\ cmds'[g].of = cmds[g].of /\ cmds'[g].kind = cmds[g].kind
           \/ \E c \in Clients, k \in CommandKinds :
                /\ ReadMessage(g, c, k)
                /\ cmds'[g].of = c /\ cmds'[g].kind = k /\ cmds'[g].pc # "idle"
<1> DEFINE Same == cmds'[g] = cmds[g]
           GoesOn == /\ cmds[g].pc # "idle" /\ cmds'[g].pc \notin {"idle", "start"}
                     /\ cmds'[g].of = cmds[g].of /\ cmds'[g].kind = cmds[g].kind
<1>1. CmdsOK
  BY Parts DEF HubTyped
<1>2. ASSUME NEW h \in Goroutines, NEW p \in {"mark", "reply", "bcast", "done"},
             Goto(h, p), cmds[h].pc # "idle"
      PROVE  Same \/ GoesOn
  BY <1>1, <1>2, GotoIs
<1> HIDE DEF Same, GoesOn
<1>3. CASE UNCHANGED cmds
  BY <1>3 DEF Same, GoesOn
<1>4. ASSUME NEW c \in Clients, Connection(c)
      PROVE  \/ Same
             \/ \E k \in CommandKinds :
                  /\ ReadMessage(g, c, k)
                  /\ cmds'[g].of = c /\ cmds'[g].kind = k /\ cmds'[g].pc # "idle"
  <2>1. ASSUME NEW h \in Goroutines, NEW k \in CommandKinds, ReadMessage(h, c, k)
        PROVE  \/ Same
               \/ /\ ReadMessage(g, c, k)
                  /\ cmds'[g].of = c /\ cmds'[g].kind = k /\ cmds'[g].pc # "idle"
    <3>1. cmds' = [cmds EXCEPT ![h] =
                     [pc |-> IF k = "tg" THEN "reply" ELSE "start", of |-> c, kind |-> k]]
      BY <2>1 DEF ReadMessage
    <3>2. CASE h = g
      BY <1>1, <2>1, <3>1, <3>2 DEF CmdsOK
    <3>3. CASE h # g
      BY <1>1, <3>1, <3>3 DEF CmdsOK, Same
    <3>4. QED
      BY <3>2, <3>3
  <2>2. CASE UNCHANGED cmds
    BY <2>2 DEF Same
  <2>3. QED
    BY <1>4, <2>1, <2>2
       DEF Connection, ServeWS, Hello, ReadFails, Unregister, CloseCh,
           WritePump
<1>5. ASSUME NEW h \in Goroutines, Command(h) PROVE Same \/ GoesOn
  BY <1>2, <1>5
     DEF Command, Live, RegisterWorker, MarkWorker, SetTranscript, Reply
<1>6. CASE NexusGo
  <2>1. ASSUME NEW h \in Goroutines, ReceiveTranscript(h) PROVE Same \/ GoesOn
    BY <1>2, <2>1 DEF ReceiveTranscript
  <2>2. CASE UNCHANGED cmds
    BY <1>3, <2>2
  <2>3. QED
    BY <1>6, <2>1, <2>2
       DEF NexusGo, ReceiveCall, BroadcastTo, BroadcastDone, GoEnds,
           Hunt, NextWorker, SendWork, Same, GoesOn
<1>7. CASE HttpDispatch \/ Hunt("http") \/ BroadcastCall \/ Stop \/ Exit
  BY <1>3, <1>7 DEF HttpDispatch, Hunt, NextWorker, SendWork, BroadcastCall,
                    Stop, Exit
<1>8. QED
  BY <1>4, <1>5, <1>6, <1>7 DEF NexusNext, Same, GoesOn

\* A connection is new once.
LEMMA NewOnce ==
    ASSUME HubTyped, NexusNext, NEW c \in Clients, conn[c] # "new"
    PROVE  conn'[c] # "new" /\ ~ServeWS(c)
<1>1. SocketsOK
  BY Parts DEF HubTyped
<1>2. CASE UNCHANGED conn
  BY <1>2 DEF ServeWS
<1>3. ASSUME NEW b \in Clients, NEW w \in {"open", "ended", "unregistered", "closed"},
             conn' = [conn EXCEPT ![b] = w]
      PROVE  conn'[c] # "new"
  BY <1>1, <1>3 DEF SocketsOK
<1>4. ASSUME NEW b \in Clients, Connection(b) PROVE conn'[c] # "new"
  BY <1>2, <1>3, <1>4
     DEF Connection, ServeWS, Hello, ReadMessage, ReadFails, Unregister,
         CloseCh, WritePump
<1>5. ASSUME NEW g \in Goroutines, Command(g) PROVE conn'[c] # "new"
  BY <1>2, <1>5
     DEF Command, Live, RegisterWorker, MarkWorker, SetTranscript, Reply
<1>6. CASE NexusGo
  BY <1>2, <1>6
     DEF NexusGo, ReceiveCall, ReceiveTranscript, Receive, BroadcastTo,
         BroadcastDone, GoEnds, Hunt, NextWorker, SendWork
<1>7. CASE HttpDispatch \/ Hunt("http") \/ BroadcastCall \/ Stop \/ Exit
  BY <1>2, <1>7 DEF HttpDispatch, Hunt, NextWorker, SendWork, BroadcastCall,
                    Stop, Exit
<1>8. QED
  BY <1>4, <1>5, <1>6, <1>7 DEF NexusNext, ServeWS

\* Only a registration puts a worker into the round.
LEMMA RoundSteps ==
    ASSUME HubTyped, NexusNext
    PROVE  \/ Range(items') \subseteq Range(items)
           \/ \E g \in Goroutines :
                /\ cmds[g].pc = "start" /\ cmds[g].kind = "register"
                /\ cmds'[g].pc = "mark" /\ cmds'[g].kind = "register"
                /\ cmds'[g].of = cmds[g].of /\ cmds[g].of \notin Range(items)
                /\ Range(items') \subseteq Range(items) \cup {cmds[g].of}
<1> DEFINE Less == Range(items') \subseteq Range(items)
<1>1. RoundOK /\ CmdsOK
  BY Parts DEF HubTyped
<1>2. CASE UNCHANGED items
  BY <1>2
<1>3. ASSUME NEW c, items' = Without(items, c) PROVE Less
  BY <1>1, <1>3, RoundWithout DEF RoundOK
<1> HIDE DEF Less
<1>4. ASSUME NEW c \in Clients, Connection(c) PROVE Less
  BY <1>2, <1>3, <1>4
     DEF Connection, ServeWS, Hello, ReadMessage, ReadFails, Unregister,
         Forget, CloseCh, WritePump, round, Less
<1>5. ASSUME NEW g \in Goroutines, Command(g), ~Less
      PROVE  /\ cmds[g].pc = "start" /\ cmds[g].kind = "register"
             /\ cmds'[g].pc = "mark" /\ cmds'[g].kind = "register"
             /\ cmds'[g].of = cmds[g].of /\ cmds[g].of \notin Range(items)
             /\ Range(items') \subseteq Range(items) \cup {cmds[g].of}
  <2>1. RegisterWorker(g) /\ cmds[g].of \notin Range(items)
    BY <1>2, <1>5
       DEF Command, Live, RegisterWorker, MarkWorker, SetTranscript,
           Reply, round, Less
  <2>2. /\ cmds[g].pc = "start" /\ cmds[g].kind = "register" /\ Goto(g, "mark")
        /\ items' = Append(items, cmds[g].of)
    BY <2>1 DEF RegisterWorker
  <2>3. cmds'[g].pc = "mark" /\ cmds'[g].of = cmds[g].of /\ cmds'[g].kind = cmds[g].kind
    BY <1>1, <2>2, GotoIs
  <2>4. cmds[g].of \in Clients
    BY <2>2 DEF HubTyped, HasClient
  <2>5. Range(items') \subseteq Range(items) \cup {cmds[g].of}
    BY <1>1, <2>1, <2>2, <2>4, RoundAppend DEF RoundOK
  <2>6. QED
    BY <2>1, <2>2, <2>3, <2>5
<1>6. CASE NexusGo
  BY <1>2, <1>3, <1>6
     DEF NexusGo, ReceiveCall, ReceiveTranscript, Receive, BroadcastTo,
         Forget, BroadcastDone, GoEnds, Hunt, NextWorker, SendWork,
         round, Less
<1>7. CASE HttpDispatch \/ Hunt("http") \/ BroadcastCall \/ Stop \/ Exit
  BY <1>2, <1>3, <1>7
     DEF HttpDispatch, Hunt, NextWorker, SendWork, BroadcastCall,
         Stop, Exit, round, Less
<1>8. QED
  BY <1>4, <1>5, <1>6, <1>7 DEF NexusNext, Less

\* The number of the dispatch a dispatcher makes next.
Number(d) == IF d = "nexus" THEN Len(log) ELSE requests + 1

LEMMA DispatchSteps ==
    ASSUME HubTyped, NexusNext, NEW d \in Dispatchers
    PROVE  \/ hunt'[d] = hunt[d]
           \/ /\ hunt'[d] = Nobody /\ NextWorker(d)
              /\ Upcoming = Nobody \/ Upcoming = hunt[d].last
           \/ hunt'[d] = Nobody /\ SendWork(d)
           \/ /\ hunt'[d] = [pc |-> "next", call |-> Number(d), last |-> Nobody]
              /\ hunt[d] = Nobody \/ d = "nexus"
              /\ (d = "nexus" /\ BroadcastDone) \/ (d = "http" /\ HttpDispatch)
           \/ /\ hunt'[d] = [pc |-> "send", call |-> hunt[d].call, last |-> Upcoming]
              /\ hunt[d] # Nobody /\ items # <<>> /\ Upcoming \in Range(items)
              /\ UNCHANGED items
           \/ /\ hunt'[d] = [pc |-> "next", call |-> hunt[d].call, last |-> hunt[d].last]
              /\ hunt[d] # Nobody /\ hunt[d].pc = "send"
              /\ items' = Without(items, hunt[d].last)
<1> DEFINE Goal ==
           \/ hunt'[d] = hunt[d]
           \/ /\ hunt'[d] = Nobody /\ NextWorker(d)
              /\ Upcoming = Nobody \/ Upcoming = hunt[d].last
           \/ hunt'[d] = Nobody /\ SendWork(d)
           \/ /\ hunt'[d] = [pc |-> "next", call |-> Number(d), last |-> Nobody]
              /\ hunt[d] = Nobody \/ d = "nexus"
              /\ (d = "nexus" /\ BroadcastDone) \/ (d = "http" /\ HttpDispatch)
           \/ /\ hunt'[d] = [pc |-> "send", call |-> hunt[d].call, last |-> Upcoming]
              /\ hunt[d] # Nobody /\ items # <<>> /\ Upcoming \in Range(items)
              /\ UNCHANGED items
           \/ /\ hunt'[d] = [pc |-> "next", call |-> hunt[d].call, last |-> hunt[d].last]
              /\ hunt[d] # Nobody /\ hunt[d].pc = "send"
              /\ items' = Without(items, hunt[d].last)
<1>1. HuntsOK /\ RoundOK
  BY Parts DEF HubTyped
<1>2. ASSUME UNCHANGED hunt PROVE Goal
  BY <1>2
<1>3. ASSUME NEW e \in Dispatchers, e # d, NEW h, hunt' = [hunt EXCEPT ![e] = h]
      PROVE  Goal
  BY <1>1, <1>3 DEF HuntsOK
<1>4. ASSUME NEW h, hunt' = [hunt EXCEPT ![d] = h] PROVE hunt'[d] = h
  BY <1>1, <1>4 DEF HuntsOK
<1>5. ASSUME NEW e \in Dispatchers, e # d, Hunt(e) PROVE Goal
  <2> HIDE DEF Goal
  <2>1. CASE NextWorker(e)
    BY <1>3, <1>5, <2>1, HuntSteps DEF EndHunt
  <2>2. CASE SendWork(e)
    BY <1>3, <1>5, <2>2, HuntSteps DEF EndHunt
  <2>3. QED
    BY <1>5, <2>1, <2>2 DEF Hunt
<1>6. ASSUME Hunt(d) PROVE Goal
  <2>1. CASE NextWorker(d)
    <3>1. CASE /\ EndHunt(d)
               /\ Upcoming = Nobody \/ Upcoming = hunt[d].last
      <4>1. hunt'[d] = Nobody
        BY <1>4, <3>1 DEF EndHunt
      <4>2. QED
        BY <2>1, <3>1, <4>1
    <3>2. CASE /\ items # <<>> /\ Upcoming \in Clients
               /\ hunt' = [hunt EXCEPT ![d] =
                    [pc |-> "send", call |-> hunt[d].call, last |-> Upcoming]]
               /\ UNCHANGED nx
      <4>1. hunt'[d] = [pc |-> "send", call |-> hunt[d].call, last |-> Upcoming]
        BY <1>4, <3>2
      <4>2. Upcoming \in Range(items)
        BY <1>1, <3>2, UpcomingIs DEF RoundOK
      <4>3. hunt[d] # Nobody /\ UNCHANGED items
        BY <2>1 DEF NextWorker
      <4>4. QED
        BY <3>2, <4>1, <4>2, <4>3
    <3>3. QED
      BY <2>1, <3>1, <3>2, HuntSteps
  <2>2. CASE SendWork(d)
    <3>1. CASE EndHunt(d) /\ UNCHANGED items
      <4>1. hunt'[d] = Nobody
        BY <1>4, <3>1 DEF EndHunt
      <4>2. QED
        BY <2>2, <4>1
    <3>2. CASE /\ items' = Without(items, hunt[d].last)
               /\ hunt' = [hunt EXCEPT ![d] =
                    [pc |-> "next", call |-> hunt[d].call, last |-> hunt[d].last]]
               /\ UNCHANGED <<out, nx>>
      <4>1. hunt'[d] = [pc |-> "next", call |-> hunt[d].call, last |-> hunt[d].last]
        BY <1>4, <3>2
      <4>2. hunt[d] # Nobody /\ hunt[d].pc = "send"
        BY <2>2 DEF SendWork
      <4>3. QED
        BY <3>2, <4>1, <4>2
    <3>3. QED
      BY <2>2, <3>1, <3>2, HuntSteps
  <2>3. QED
    BY <1>6, <2>1, <2>2 DEF Hunt
<1>7. ASSUME BroadcastDone PROVE Goal
  <2>1. CASE d = "nexus"
    <3>1. UNCHANGED hunt
          \/ hunt' = [hunt EXCEPT ![d] = [pc |-> "next", call |-> Len(log), last |-> Nobody]]
      BY <1>7, <2>1 DEF BroadcastDone
    <3>2. CASE hunt' = [hunt EXCEPT ![d] = [pc |-> "next", call |-> Len(log), last |-> Nobody]]
      <4>1. hunt'[d] = [pc |-> "next", call |-> Number(d), last |-> Nobody]
        BY <1>4, <2>1, <3>2 DEF Number
      <4>2. QED
        BY <1>7, <2>1, <4>1
    <3>3. QED
      BY <1>2, <3>1, <3>2
  <2>2. CASE d # "nexus"
    <3> HIDE DEF Goal
    <3>1. QED
      BY <1>2, <1>3, <1>7, <2>2 DEF BroadcastDone, Dispatchers
  <2>3. QED
    BY <2>1, <2>2
<1>8. ASSUME HttpDispatch PROVE Goal
  <2>1. CASE d = "http"
    <3>1. hunt' = [hunt EXCEPT ![d] = [pc |-> "next", call |-> Number(d), last |-> Nobody]]
          /\ hunt[d] = Nobody
      BY <1>8, <2>1 DEF HttpDispatch, Number
    <3>2. hunt'[d] = [pc |-> "next", call |-> Number(d), last |-> Nobody]
      BY <1>4, <3>1
    <3>3. QED
      BY <1>8, <2>1, <3>1, <3>2
  <2>2. CASE d # "http"
    <3> HIDE DEF Goal
    <3>1. QED
      BY <1>3, <1>8, <2>2 DEF HttpDispatch, Dispatchers
  <2>3. QED
    BY <2>1, <2>2
<1>9. ASSUME Hunt("nexus") \/ Hunt("http") PROVE Goal
  BY <1>5, <1>6, <1>9 DEF Dispatchers
<1> HIDE DEF Goal
<1>10. ASSUME NEW c \in Clients, Connection(c) PROVE Goal
  BY <1>2, <1>10
     DEF Connection, ServeWS, Hello, ReadMessage, ReadFails, Unregister,
         CloseCh, WritePump
<1>11. ASSUME NEW g \in Goroutines, Command(g) PROVE Goal
  BY <1>2, <1>11
     DEF Command, Live, RegisterWorker, MarkWorker, SetTranscript, Reply
<1>12. ASSUME NexusGo PROVE Goal
  BY <1>2, <1>7, <1>9, <1>12
     DEF NexusGo, ReceiveCall, ReceiveTranscript, Receive, BroadcastTo,
         GoEnds
<1>13. ASSUME BroadcastCall \/ Stop \/ Exit PROVE Goal
  BY <1>2, <1>13 DEF BroadcastCall, Stop, Exit
<1>14. Goal
  BY <1>8, <1>9, <1>10, <1>11, <1>12, <1>13 DEF NexusNext
<1>15. QED
  BY <1>14 DEF Goal

LEMMA RecordIsNotNone ==
    ASSUME HuntsOK, NEW d \in Dispatchers,
           NEW p \in {"next", "send"}, NEW n \in Nat, NEW c \in Clients \cup {Nobody},
           hunt'[d] = [pc |-> p, call |-> n, last |-> c]
    PROVE  hunt'[d] # Nobody /\ hunt'[d].pc = p /\ hunt'[d].call = n /\ hunt'[d].last = c
BY NexusAssumption DEF Dispatch

\* The five ways of a dispatch, in terms of its parts.
LEMMA DispatchParts ==
    ASSUME HubTyped, NexusNext, NEW d \in Dispatchers, hunt'[d] # Nobody
    PROVE  \/ hunt'[d] = hunt[d]
           \/ /\ hunt'[d].pc = "next" /\ hunt'[d].last = Nobody /\ hunt'[d].call = Number(d)
              /\ (d = "nexus" /\ BroadcastDone) \/ (d = "http" /\ HttpDispatch)
           \/ /\ hunt[d] # Nobody /\ hunt'[d].pc = "send" /\ hunt'[d].call = hunt[d].call
              /\ hunt'[d].last \in Range(items) /\ hunt'[d].last \in Clients
              /\ UNCHANGED items
           \/ /\ hunt[d] # Nobody /\ hunt[d].pc = "send" /\ hunt'[d].pc = "next"
              /\ hunt'[d].call = hunt[d].call /\ hunt'[d].last = hunt[d].last
              /\ items' = Without(items, hunt[d].last)
<1>1. HuntsOK /\ LoopOK /\ SourcesOK /\ RoundOK
  BY Parts DEF HubTyped
<1>2. Number(d) \in Nat
  BY <1>1 DEF Number, LoopOK, SourcesOK
<1>3. hunt[d] # Nobody =>
        hunt[d] \in Dispatch /\ hunt[d].call \in Nat /\ hunt[d].last \in Clients \cup {Nobody}
  BY <1>1, HuntTypes DEF Dispatch
<1>4. CASE hunt'[d] = [pc |-> "next", call |-> Number(d), last |-> Nobody]
           /\ ((d = "nexus" /\ BroadcastDone) \/ (d = "http" /\ HttpDispatch))
  BY <1>1, <1>2, <1>4, RecordIsNotNone
<1>5. CASE /\ hunt'[d] = [pc |-> "send", call |-> hunt[d].call, last |-> Upcoming]
           /\ hunt[d] # Nobody /\ items # <<>> /\ Upcoming \in Range(items)
           /\ UNCHANGED items
  <2>1. Upcoming \in Clients
    BY <1>1, <1>5, UpcomingIs DEF RoundOK
  <2> HIDE DEF Upcoming
  <2>2. QED
    BY <1>1, <1>3, <1>5, <2>1, RecordIsNotNone
<1>6. CASE /\ hunt'[d] = [pc |-> "next", call |-> hunt[d].call, last |-> hunt[d].last]
           /\ hunt[d] # Nobody /\ hunt[d].pc = "send"
           /\ items' = Without(items, hunt[d].last)
  BY <1>1, <1>3, <1>6, RecordIsNotNone
<1>7. QED
  BY <1>4, <1>5, <1>6, DispatchSteps

LEMMA HasClientNext ==
    ASSUME HubTyped, NexusNext
    PROVE  HasClient'
<1>1. ASSUME NEW g \in Goroutines, cmds'[g].pc # "idle"
      PROVE  cmds'[g].of \in Clients /\ conn'[cmds'[g].of] # "new"
  <2>1. CASE cmds'[g] = cmds[g]
    <3>1. cmds[g].of \in Clients /\ conn[cmds[g].of] # "new"
      BY <1>1, <2>1 DEF HubTyped, HasClient
    <3>2. QED
      BY <2>1, <3>1, NewOnce
  <2>2. CASE cmds[g].pc # "idle" /\ cmds'[g].of = cmds[g].of
    <3>1. cmds[g].of \in Clients /\ conn[cmds[g].of] # "new"
      BY <2>2 DEF HubTyped, HasClient
    <3>2. QED
      BY <2>2, <3>1, NewOnce
  <2>3. ASSUME NEW c \in Clients, NEW k \in CommandKinds, ReadMessage(g, c, k),
               cmds'[g].of = c
        PROVE  cmds'[g].of \in Clients /\ conn'[cmds'[g].of] # "new"
    BY <2>3, NewOnce DEF ReadMessage
  <2>4. QED
    BY <2>1, <2>2, <2>3, CommandSteps
<1>2. ASSUME NEW d \in Dispatchers, hunt'[d] # Nobody, hunt'[d].pc = "send"
      PROVE  hunt'[d].last \in Clients
  BY <1>2, DispatchParts DEF HubTyped, HasClient
<1>3. QED
  BY <1>1, <1>2 DEF HasClient

LEMMA HubTypedNext ==
    ASSUME HubTyped, [NexusNext]_nexusVars
    PROVE  HubTyped'
<1>1. CASE NexusNext
  <2>1. NexusTypeOK'
    <3>1. CASE Hunt("http")
      BY <3>1, HuntType DEF Dispatchers
    <3>2. QED
      BY <1>1, <3>1, ConnectionType, CommandType, LoopType, SourceType DEF NexusNext
  <2>2. QED
    BY <1>1, <2>1, HasClientNext DEF HubTyped
<1>2. CASE UNCHANGED nexusVars
  <2>1. NexusTypeOK'
    BY <1>2, HubFrame, PartsNext
       DEF nexusVars, nexus, queues, wishes, round, source, HubTyped
  <2>2. HasClient'
    BY <1>2 DEF nexusVars, HubTyped, HasClient
  <2>3. QED
    BY <2>1, <2>2 DEF HubTyped
<1>3. QED
  BY <1>1, <1>2

\* Connections, queues, the round, commands and dispatches keep their types,
\* and no queue grows beyond its size, for any number of connections and
\* commands.
THEOREM NexusTypeCorrect ==
    NexusSpec => []NexusTypeOK
<1>1. NexusInit => HubTyped
  BY HubTypeInit
<1>2. HubTyped /\ [NexusNext]_nexusVars => HubTyped'
  BY HubTypedNext
<1>3. HubTyped => NexusTypeOK
  BY DEF HubTyped
<1>4. QED
  BY <1>1, <1>2, <1>3, PTL DEF NexusSpec

-----------------------------------------------------------------------------
(* A worker that was dropped does not come back into the round: it         *)
(* registers once.                                                         *)

Registers(g, c) == cmds[g].pc # "idle" /\ cmds[g].kind = "register" /\ cmds[g].of = c

RegisterOnce ==
    /\ \A g, h \in Goroutines, c \in Clients : Registers(g, c) /\ Registers(h, c) => g = h
    /\ \A c \in Clients :
         c \in Range(items) \/ (\E d \in Dispatchers : hunt[d] # Nobody /\ hunt[d].last = c)
           => \E g \in Goroutines : Registers(g, c) /\ cmds[g].pc # "start"

DroppedIsOut ==
    \A d \in Dispatchers :
      hunt[d] # Nobody /\ hunt[d].pc = "next" => hunt[d].last \notin Range(items)

LEMMA RegistersNext ==
    ASSUME HubTyped, NexusNext, NEW g \in Goroutines, NEW c \in Clients
    PROVE  /\ Registers(g, c)' => Registers(g, c) \/ ReadMessage(g, c, "register")
           /\ Registers(g, c) /\ cmds[g].pc # "start" => Registers(g, c)' /\ cmds'[g].pc # "start"
<1>1. CASE cmds'[g] = cmds[g]
  BY <1>1 DEF Registers
<1>2. CASE /\ cmds[g].pc # "idle" /\ cmds'[g].pc \notin {"idle", "start"}
           /\ cmds'[g].of = cmds[g].of /\ cmds'[g].kind = cmds[g].kind
  BY <1>2 DEF Registers
<1>3. ASSUME NEW b \in Clients, NEW k \in CommandKinds, ReadMessage(g, b, k),
             cmds'[g].of = b, cmds'[g].kind = k
      PROVE  /\ Registers(g, c)' => ReadMessage(g, c, "register")
             /\ ~(Registers(g, c) /\ cmds[g].pc # "start")
  BY <1>3 DEF Registers, ReadMessage
<1>4. QED
  BY <1>1, <1>2, <1>3, CommandSteps

LEMMA RegisterOnceNext ==
    ASSUME HubTyped, RegisterOnce, NexusNext
    PROVE  RegisterOnce'
<1>1. ASSUME NEW g \in Goroutines, NEW h \in Goroutines, NEW c \in Clients,
             Registers(g, c)', Registers(h, c)', g # h, ReadMessage(g, c, "register")
      PROVE  FALSE
  <2>1. cmds'[h] = cmds[h]
    BY <1>1, Parts DEF ReadMessage, CmdsOK, HubTyped
  <2>2. cmds[h].of = c /\ cmds[h].kind = "register"
    BY <1>1, <2>1 DEF Registers
  <2>3. QED
    BY <1>1, <2>2 DEF ReadMessage
<1>2. ASSUME NEW g \in Goroutines, NEW h \in Goroutines, NEW c \in Clients,
             Registers(g, c)', Registers(h, c)'
      PROVE  g = h
  <2>1. CASE Registers(g, c) /\ Registers(h, c)
    BY <2>1 DEF RegisterOnce
  <2>2. QED
    BY <1>1, <1>2, <2>1, RegistersNext
<1>3. ASSUME NEW c \in Clients,
             \E g \in Goroutines : Registers(g, c) /\ cmds[g].pc # "start"
      PROVE  \E g \in Goroutines : Registers(g, c)' /\ cmds'[g].pc # "start"
  BY <1>3, RegistersNext
<1>4. ASSUME NEW c \in Clients, c \in Range(items')
      PROVE  \E g \in Goroutines : Registers(g, c)' /\ cmds'[g].pc # "start"
  <2>1. CASE c \in Range(items)
    BY <1>3, <2>1 DEF RegisterOnce
  <2>2. CASE c \notin Range(items)
    <3>1. PICK g \in Goroutines :
            /\ cmds[g].pc = "start" /\ cmds[g].kind = "register"
            /\ cmds'[g].pc = "mark" /\ cmds'[g].kind = "register"
            /\ cmds'[g].of = cmds[g].of /\ cmds[g].of \notin Range(items)
            /\ Range(items') \subseteq Range(items) \cup {cmds[g].of}
      BY <1>4, <2>2, RoundSteps
    <3>2. cmds'[g].of = c
      BY <1>4, <2>2, <3>1
    <3>3. QED
      BY <3>1, <3>2 DEF Registers
  <2>3. QED
    BY <2>1, <2>2
<1>5. ASSUME NEW c \in Clients, NEW d \in Dispatchers, hunt'[d] # Nobody, hunt'[d].last = c
      PROVE  \E g \in Goroutines : Registers(g, c)' /\ cmds'[g].pc # "start"
  <2>1. c # Nobody
    BY NexusAssumption
  <2>2. c \in Range(items) \/ (hunt[d] # Nobody /\ hunt[d].last = c)
    BY <1>5, <2>1, DispatchParts
  <2>3. QED
    BY <1>3, <2>2 DEF RegisterOnce
<1>6. \A c \in Clients :
        c \in Range(items') \/ (\E d \in Dispatchers : hunt'[d] # Nobody /\ hunt'[d].last = c)
          => \E g \in Goroutines : Registers(g, c)' /\ cmds'[g].pc # "start"
  BY <1>4, <1>5
<1>7. QED
  BY <1>2, <1>6 DEF RegisterOnce, Registers, Range

LEMMA DroppedIsOutNext ==
    ASSUME HubTyped, RegisterOnce, DroppedIsOut, NexusNext
    PROVE  DroppedIsOut'
<1> SUFFICES ASSUME NEW d \in Dispatchers, hunt'[d] # Nobody, hunt'[d].pc = "next"
             PROVE  hunt'[d].last \notin Range(items')
  BY DEF DroppedIsOut, Range
<1>1. RoundOK /\ RoundOK'
  BY HubTypedNext, Parts, PartsNext DEF HubTyped
<1>2. Nobody \notin Range(items')
  BY <1>1, NexusAssumption DEF RoundOK, Range
<1>3. CASE hunt'[d] = hunt[d]
  <2>1. hunt[d].last \notin Range(items)
    BY <1>3 DEF DroppedIsOut
  <2>2. ASSUME NEW g \in Goroutines, cmds[g].pc = "start", cmds[g].kind = "register",
               cmds[g].of = hunt[d].last
        PROVE  FALSE
    <3>1. cmds[g].of \in Clients /\ Registers(g, cmds[g].of)
      BY <2>2 DEF HubTyped, HasClient, Registers
    <3>2. PICK h \in Goroutines : Registers(h, cmds[g].of) /\ cmds[h].pc # "start"
      BY <1>3, <2>2, <3>1 DEF RegisterOnce
    <3>3. g = h
      BY <3>1, <3>2 DEF RegisterOnce
    <3>4. QED
      BY <2>2, <3>2, <3>3
  <2>3. QED
    BY <1>3, <2>1, <2>2, RoundSteps
<1>4. CASE items' = Without(items, hunt[d].last) /\ hunt'[d].last = hunt[d].last
  BY <1>1, <1>4, RoundWithout DEF RoundOK
<1>5. QED
  BY <1>2, <1>3, <1>4, DispatchParts

-----------------------------------------------------------------------------
(* Streams: what a step adds to one.                                       *)

\* What goes into the queue of c: an answer, the broadcast of the loop, or
\* the call that is handed to c.
New(c, e) ==
    \/ e[1] = "reply"
    \/ BroadcastTo(c) /\ e = <<"bcast", Len(log)>>
    \/ \E d \in Dispatchers :
         /\ SendWork(d) /\ EndHunt(d) /\ hunt[d].last = c
         /\ e = <<d, hunt[d].call>>

LEMMA StreamType ==
    ASSUME NexusTypeOK, NEW c \in Clients
    PROVE  Stream(c) \in Seq(Entry)
BY Parts, Concat DEF QueuesOK, Stream

LEMMA StreamTypeNext ==
    ASSUME NexusTypeOK', NEW c \in Clients
    PROVE  Stream(c)' \in Seq(Entry)
<1>1. heard'[c] \in Seq(Entry) /\ out'[c] \in Seq(Entry)
  BY PartsNext DEF QueuesOK
<1>2. QED
  BY <1>1, Concat DEF Stream

LEMMA StreamSteps ==
    ASSUME HubTyped, NexusNext, NEW c \in Clients
    PROVE  \E e \in Entry :
             /\ Follows(Stream(c)', Stream(c), e)
             /\ Keeps(Stream(c)', Stream(c))
             /\ New(c, e)
<1> DEFINE Goal == \E e \in Entry :
                     /\ Follows(Stream(c)', Stream(c), e)
                     /\ Keeps(Stream(c)', Stream(c))
                     /\ New(c, e)
<1>1. QueuesOK /\ LoopOK /\ HuntsOK /\ CmdsOK
  BY Parts DEF HubTyped
<1>2. heard[c] \in Seq(Entry) /\ out[c] \in Seq(Entry)
      /\ Stream(c) \in Seq(Entry)
  BY <1>1, StreamType DEF QueuesOK, HubTyped
<1>3. <<"reply", 0>> \in Entry /\ New(c, <<"reply", 0>>)
  BY DEF Entry, New
<1> HIDE DEF New
<1>4. ASSUME heard'[c] = heard[c], out'[c] = out[c] PROVE Goal
  <2>1. Stream(c)' = Stream(c)
    BY <1>4 DEF Stream
  <2>2. QED
    BY <1>2, <1>3, <2>1, FollowsSame
<1>5. ASSUME NEW b \in Clients, NEW e \in Entry, UNCHANGED heard,
             UNCHANGED out \/ Enqueue(b, e), New(b, e)
      PROVE  Goal
  <2>1. CASE UNCHANGED out \/ b # c
    <3>1. out'[c] = out[c] /\ heard'[c] = heard[c]
      BY <1>1, <1>5, <2>1 DEF QueuesOK, Enqueue
    <3>2. QED
      BY <1>4, <3>1
  <2>2. CASE b = c /\ Enqueue(b, e)
    <3>1. out'[c] = Append(out[c], e) /\ heard'[c] = heard[c]
      BY <1>1, <1>5, <2>2 DEF QueuesOK, Enqueue
    <3>2. Stream(c)' = heard[c] \o Append(out[c], e)
      BY <3>1 DEF Stream
    <3>3. heard[c] \o Append(out[c], e) = Append(heard[c] \o out[c], e)
      <4>1. \A s, t \in Seq(Entry) : s \o Append(t, e) = Append(s \o t, e)
        BY AppendToQueue
      <4>2. QED
        BY <1>2, <4>1, Zenon
    <3>4. Stream(c)' = Append(Stream(c), e)
      BY <3>2, <3>3 DEF Stream
    <3>5. QED
      BY <1>2, <1>5, <2>2, <3>4, FollowsAppend
  <2>3. QED
    BY <1>5, <2>1, <2>2
<1>6. ASSUME UNCHANGED <<heard, out>> PROVE Goal
  BY <1>4, <1>6
<1>7. ASSUME NEW b \in Clients, UNCHANGED heard, TrySend(b, <<"reply", 0>>) \/ UNCHANGED out
      PROVE  Goal
  <2>1. New(b, <<"reply", 0>>)
    BY DEF New
  <2> HIDE DEF Goal
  <2>2. QED
    BY <1>3, <1>5, <1>7, <2>1 DEF TrySend
<1>8. ASSUME NEW b \in Clients, WritePump(b) PROVE Goal
  <2>1. CASE b # c
    <3>1. out'[c] = out[c] /\ heard'[c] = heard[c]
      BY <1>1, <1>8, <2>1 DEF QueuesOK, WritePump
    <3>2. QED
      BY <1>4, <3>1
  <2>2. CASE b = c
    <3>1. /\ out[c] # <<>> /\ out'[c] = Tail(out[c])
          /\ heard'[c] = IF Head(out[c])[1] = "reply" THEN heard[c]
                                                     ELSE Append(heard[c], Head(out[c]))
      BY <1>1, <1>8, <2>2 DEF QueuesOK, WritePump
    <3>2. CASE Head(out[c])[1] = "reply"
      <4>1. Stream(c)' = heard[c] \o Tail(out[c])
        BY <3>1, <3>2 DEF Stream
      <4>2. /\ Follows(Stream(c)', Stream(c), <<"reply", 0>>)
            /\ Keeps(Stream(c)', Stream(c))
        BY <1>2, <3>1, <3>2, <4>1, FollowsHead DEF Stream
      <4>3. QED
        BY <1>3, <4>2
    <3>3. CASE Head(out[c])[1] # "reply"
      <4>1. Stream(c)' = Append(heard[c], Head(out[c])) \o Tail(out[c])
        BY <3>1, <3>3 DEF Stream
      <4>2. Stream(c)' = Stream(c)
        BY <1>2, <3>1, <4>1, FollowsHead DEF Stream
      <4>3. QED
        BY <1>2, <1>3, <4>2, FollowsSame
    <3>4. QED
      BY <3>2, <3>3
  <2>3. QED
    BY <2>1, <2>2
<1> HIDE DEF Goal
<1>9. ASSUME NEW b \in Clients, BroadcastTo(b) PROVE Goal
  <2>1. <<"bcast", Len(log)>> \in Entry
    BY <1>1 DEF Entry, LoopOK
  <2>2. New(b, <<"bcast", Len(log)>>)
    BY <1>9 DEF New
  <2>3. QED
    BY <1>5, <1>9, <2>1, <2>2 DEF BroadcastTo
<1>10. ASSUME NEW d \in Dispatchers, Hunt(d) PROVE Goal
  <2>1. CASE NextWorker(d)
    BY <1>6, <2>1 DEF NextWorker, queues
  <2>2. CASE SendWork(d) /\ UNCHANGED out
    BY <1>6, <2>2 DEF SendWork
  <2>3. CASE SendWork(d) /\ ~UNCHANGED out
    <3>1. hunt[d] # Nobody /\ hunt[d].pc = "send"
      BY <2>3 DEF SendWork
    <3>2. hunt[d] \in Dispatch /\ hunt[d].last \in Clients
      BY <1>1, <3>1, HuntTypes DEF HubTyped, HasClient
    <3>3. <<d, hunt[d].call>> \in Entry
      BY <3>2 DEF Dispatch, Entry
    <3>4. UNCHANGED heard /\ Enqueue(hunt[d].last, <<d, hunt[d].call>>) /\ EndHunt(d)
      BY <2>3 DEF SendWork
    <3>5. New(hunt[d].last, <<d, hunt[d].call>>)
      BY <2>3, <3>4 DEF New
    <3>6. QED
      BY <1>5, <3>2, <3>3, <3>4, <3>5
  <2>4. QED
    BY <1>10, <2>1, <2>2, <2>3 DEF Hunt
<1>11. ASSUME NEW b \in Clients, Connection(b) PROVE Goal
  <2>1. CASE Hello(b)
    BY <1>7, <2>1 DEF Hello
  <2>2. QED
    BY <1>6, <1>8, <1>11, <2>1
       DEF Connection, ServeWS, ReadMessage, ReadFails, Unregister,
           CloseCh, queues
<1>12. ASSUME NEW g \in Goroutines, Command(g) PROVE Goal
  <2>1. CASE Reply(g)
    <3>1. cmds[g].of \in Clients
      BY <2>1 DEF Reply, HubTyped, HasClient
    <3>2. UNCHANGED heard /\ (TrySend(cmds[g].of, <<"reply", 0>>) \/ UNCHANGED out)
      BY <2>1 DEF Reply
    <3>3. QED
      BY <1>7, <3>1, <3>2
  <2>2. QED
    BY <1>6, <1>12, <2>1
       DEF Command, Live, RegisterWorker, MarkWorker, SetTranscript,
           queues
<1>13. ASSUME NexusGo PROVE Goal
  <2>1. CASE Hunt("nexus")
    BY <1>10, <2>1 DEF Dispatchers
  <2>2. QED
    BY <1>6, <1>9, <1>13, <2>1
       DEF NexusGo, ReceiveCall, ReceiveTranscript, Receive,
           BroadcastDone, GoEnds, queues
<1>14. ASSUME HttpDispatch \/ Hunt("http") \/ BroadcastCall \/ Stop \/ Exit
       PROVE  Goal
  <2>1. CASE Hunt("http")
    BY <1>10, <2>1 DEF Dispatchers
  <2>2. QED
    BY <1>6, <1>14, <2>1
       DEF HttpDispatch, BroadcastCall, Stop, Exit, queues
<1>15. Goal
  BY <1>11, <1>12, <1>13, <1>14 DEF NexusNext
<1>16. QED
  BY <1>15 DEF Goal

-----------------------------------------------------------------------------
(* Numbers: the loop and the dispatchers only ever add higher ones.        *)

\* The number of the last dispatch, and of the last that may be in a queue.
Top(d) == IF d = "nexus" THEN Len(log) ELSE requests
Made(d) == IF hunt[d] # Nobody \/ (d = "nexus" /\ nx = "bcast") THEN Top(d) - 1 ELSE Top(d)

Counting ==
    /\ nx = "hunt" <=> hunt["nexus"] # Nobody
    /\ \A d \in Dispatchers : hunt[d] # Nobody => hunt[d].call = Top(d)

Numbered ==
    \A c \in Clients : \A i \in DOMAIN Stream(c) :
      /\ Stream(c)[i][1] = "bcast" => Stream(c)[i][2] <= Past(c)
      /\ \A d \in Dispatchers :
           Stream(c)[i][1] = d => Stream(c)[i][2] <= Made(d)

\* What the loop does to the log.
LEMMA LoopSteps ==
    ASSUME HubTyped, Counting, NexusNext
    PROVE  \/ \E m : Receive(m) /\ m \in Types
           \/ /\ log' = log /\ todo' \subseteq todo
              /\ \A c \in Clients : c \in todo \ todo' => BroadcastTo(c)
              /\ \/ nx' = nx
                 \/ BroadcastDone
                 \/ nx = "hunt" /\ nx' = "recv"
                 \/ nx = "recv" /\ nx' = "down"
<1>1. CASE UNCHANGED nexus
  BY <1>1 DEF nexus
<1>2. ASSUME NEW c \in Clients, Connection(c) PROVE UNCHANGED <<log, nx, todo>>
  BY <1>2
     DEF Connection, ServeWS, Hello, ReadMessage, ReadFails, Unregister,
         CloseCh, WritePump, nexus
<1>3. ASSUME NEW g \in Goroutines, Command(g) PROVE UNCHANGED <<log, nx, todo>>
  BY <1>3
     DEF Command, Live, RegisterWorker, MarkWorker, SetTranscript,
         Reply, nexus
<1>4. ASSUME NEW d \in Dispatchers, Hunt(d)
      PROVE  log' = log /\ todo' = todo /\ (nx' = nx \/ (nx = "hunt" /\ nx' = "recv"))
  <2>1. hunt[d] # Nobody
    BY <1>4 DEF Hunt, NextWorker, SendWork
  <2>2. d = "nexus" => nx = "hunt"
    BY <2>1 DEF Counting
  <2>3. nx' = nx \/ EndHunt(d)
    BY <1>4 DEF Hunt, NextWorker, SendWork
  <2>4. QED
    BY <1>4, <2>2, <2>3 DEF Hunt, NextWorker, SendWork, EndHunt
<1>5. CASE NexusGo
  <2>1. CASE ReceiveCall
    <3>1. Receive(pipe) /\ pipe \in Types
      BY <2>1, Parts DEF ReceiveCall, SourcesOK, Types, HubTyped
    <3>2. QED
      BY <3>1
  <2>2. ASSUME NEW g \in Goroutines, ReceiveTranscript(g)
        PROVE  Receive("transcript") /\ "transcript" \in Types
    BY <2>2 DEF ReceiveTranscript, Types
  <2>3. ASSUME NEW c \in Clients, BroadcastTo(c)
        PROVE  /\ log' = log /\ todo' \subseteq todo /\ nx' = nx
               /\ \A b \in Clients : b \in todo \ todo' => BroadcastTo(b)
    <3>1. log' = log /\ todo' = todo \ {c} /\ nx' = nx
      BY <2>3 DEF BroadcastTo
    <3>2. QED
      BY <2>3, <3>1
  <2>4. CASE Hunt("nexus")
    BY <1>4, <2>4 DEF Dispatchers
  <2>5. CASE BroadcastDone
    BY <2>5 DEF BroadcastDone
  <2>6. CASE GoEnds
    BY <2>6 DEF GoEnds
  <2>7. QED
    BY <1>5, <2>1, <2>2, <2>3, <2>4, <2>5, <2>6 DEF NexusGo
<1>6. CASE Hunt("http")
  BY <1>4, <1>6 DEF Dispatchers
<1>7. CASE HttpDispatch \/ BroadcastCall \/ Stop \/ Exit
  BY <1>1, <1>7 DEF HttpDispatch, BroadcastCall, Stop, Exit
<1>8. QED
  BY <1>2, <1>3, <1>5, <1>6, <1>7 DEF NexusNext

LEMMA RequestsSteps ==
    ASSUME NexusNext
    PROVE  requests' = requests \/ (HttpDispatch /\ requests' = requests + 1)
<1>1. ASSUME NEW c \in Clients, Connection(c) PROVE requests' = requests
  BY <1>1
     DEF Connection, ServeWS, Hello, ReadMessage, ReadFails, Unregister,
         CloseCh, WritePump
<1>2. ASSUME NEW g \in Goroutines, Command(g) PROVE requests' = requests
  BY <1>2
     DEF Command, Live, RegisterWorker, MarkWorker, SetTranscript, Reply
<1>3. CASE NexusGo
  BY <1>3
     DEF NexusGo, ReceiveCall, ReceiveTranscript, Receive, BroadcastTo,
         BroadcastDone, GoEnds, Hunt, NextWorker, SendWork
<1>4. CASE HttpDispatch
  BY <1>4 DEF HttpDispatch
<1>5. CASE Hunt("http") \/ BroadcastCall \/ Stop \/ Exit
  BY <1>5 DEF Hunt, NextWorker, SendWork, BroadcastCall, Stop, Exit
<1>6. QED
  BY <1>1, <1>2, <1>3, <1>4, <1>5 DEF NexusNext

LEMMA LoopHunts ==
    ASSUME HubTyped, Counting, NexusNext
    PROVE  nx' = "hunt" <=> hunt'["nexus"] # Nobody
<1> DEFINE Goal == nx' = "hunt" <=> hunt'["nexus"] # Nobody
<1>1. HuntsOK /\ LoopOK /\ SourcesOK /\ (nx = "hunt" <=> hunt["nexus"] # Nobody)
  BY Parts DEF HubTyped, Counting
<1>2. ASSUME UNCHANGED hunt, nx' = nx \/ (nx # "hunt" /\ nx' # "hunt") PROVE Goal
  BY <1>1, <1>2
<1>3. ASSUME NEW d \in Dispatchers, EndHunt(d) PROVE Goal
  BY <1>1, <1>3 DEF HuntsOK, EndHunt, Dispatchers
<1>4. ASSUME NEW d \in Dispatchers, hunt[d] # Nobody, NEW h \in Dispatch,
             hunt' = [hunt EXCEPT ![d] = h], nx' = nx
      PROVE  Goal
  <2>1. h # Nobody
    BY NexusAssumption
  <2>2. QED
    BY <1>1, <1>4, <2>1 DEF HuntsOK, Dispatchers
<1>5. ASSUME NEW d \in Dispatchers, Hunt(d) PROVE Goal
  <2>1. hunt[d] # Nobody
    BY <1>5 DEF Hunt, NextWorker, SendWork
  <2>2. hunt[d].last \in Clients \cup {Nobody} /\ hunt[d].call \in Nat
    BY <1>1, <2>1, HuntTypes DEF Dispatch
  <2>3. \A p \in {"next", "send"}, c \in Clients \cup {Nobody} :
          [pc |-> p, call |-> hunt[d].call, last |-> c] \in Dispatch
    BY <2>2 DEF Dispatch
  <2> HIDE DEF Goal
  <2>4. CASE NextWorker(d)
    BY <1>3, <1>4, <2>1, <2>3, <2>4, HuntSteps
  <2>5. CASE SendWork(d)
    BY <1>3, <1>4, <2>1, <2>2, <2>3, <2>5, HuntSteps
  <2>6. QED
    BY <1>5, <2>4, <2>5 DEF Hunt
<1>6. ASSUME BroadcastDone PROVE Goal
  <2>1. [pc |-> "next", call |-> Len(log), last |-> Nobody] \in Dispatch
    BY <1>1 DEF Dispatch, LoopOK
  <2>2. [pc |-> "next", call |-> Len(log), last |-> Nobody] # Nobody
    BY <2>1, NexusAssumption
  <2>3. QED
    BY <1>1, <1>6, <2>2 DEF BroadcastDone, HuntsOK, Dispatchers
<1>7. ASSUME HttpDispatch PROVE Goal
  BY <1>1, <1>7 DEF HttpDispatch, nexus, HuntsOK, Dispatchers
<1> HIDE DEF Goal
<1>8. ASSUME NEW c \in Clients, Connection(c) PROVE Goal
  BY <1>2, <1>8
     DEF Connection, ServeWS, Hello, ReadMessage, ReadFails, Unregister,
         CloseCh, WritePump, nexus
<1>9. ASSUME NEW g \in Goroutines, Command(g) PROVE Goal
  BY <1>2, <1>9
     DEF Command, Live, RegisterWorker, MarkWorker, SetTranscript,
         Reply, nexus
<1>10. ASSUME NexusGo PROVE Goal
  <2>1. CASE Hunt("nexus")
    BY <1>5, <2>1 DEF Dispatchers
  <2>2. CASE BroadcastDone
    BY <1>6, <2>2
  <2>3. QED
    BY <1>2, <1>10, <2>1, <2>2
       DEF NexusGo, ReceiveCall, ReceiveTranscript, Receive, BroadcastTo,
           GoEnds
<1>11. ASSUME Hunt("http") \/ BroadcastCall \/ Stop \/ Exit PROVE Goal
  <2>1. CASE Hunt("http")
    BY <1>5, <2>1 DEF Dispatchers
  <2>2. QED
    BY <1>2, <1>11, <2>1 DEF BroadcastCall, Stop, Exit, nexus
<1>12. Goal
  BY <1>7, <1>8, <1>9, <1>10, <1>11 DEF NexusNext
<1>13. QED
  BY <1>12 DEF Goal

LEMMA CountingNext ==
    ASSUME HubTyped, Counting, NexusNext
    PROVE  Counting'
<1>1. nx' = "hunt" <=> hunt'["nexus"] # Nobody
  BY LoopHunts
<1>2. ASSUME NEW d \in Dispatchers, hunt'[d] # Nobody
      PROVE  hunt'[d].call = Top(d)'
  <2>1. ASSUME hunt[d] # Nobody PROVE Top(d)' = Top(d) /\ hunt[d].call = Top(d)
    <3>1. hunt[d].call = Top(d)
      BY <2>1 DEF Counting
    <3>2. CASE d = "nexus"
      <4>1. nx = "hunt"
        BY <2>1, <3>2 DEF Counting
      <4>2. log' = log
        BY <4>1, LoopSteps DEF Receive
      <4>3. QED
        BY <3>1, <3>2, <4>2 DEF Top
    <3>3. CASE d # "nexus"
      <4>1. ~HttpDispatch
        BY <2>1, <3>3 DEF HttpDispatch, Dispatchers
      <4>2. QED
        BY <3>1, <3>3, <4>1, RequestsSteps DEF Top
    <3>4. QED
      BY <3>2, <3>3
  <2>2. CASE hunt'[d] = hunt[d]
    BY <1>2, <2>1, <2>2
  <2>3. CASE /\ hunt'[d].call = Number(d)
             /\ (d = "nexus" /\ BroadcastDone) \/ (d = "http" /\ HttpDispatch)
    BY <2>3 DEF Number, Top, BroadcastDone, HttpDispatch
  <2>4. CASE hunt[d] # Nobody /\ hunt'[d].call = hunt[d].call
    BY <2>1, <2>4
  <2>5. QED
    BY <1>2, <2>2, <2>3, <2>4, DispatchParts
<1>3. QED
  BY <1>1, <1>2 DEF Counting, Top

LEMMA MadeSteps ==
    ASSUME HubTyped, Counting, NexusNext, NEW d \in Dispatchers
    PROVE  /\ Made(d) \in Int /\ Made(d)' \in Int /\ Made(d)' >= Made(d)
           /\ SendWork(d) /\ EndHunt(d) =>
                hunt[d].call = Made(d) + 1 /\ Made(d)' = Made(d) + 1
<1>1. /\ HuntsOK /\ LoopOK /\ SourcesOK /\ HuntsOK' /\ LoopOK' /\ SourcesOK'
      /\ Counting /\ Counting'
  BY HubTypedNext, CountingNext, Parts, PartsNext DEF HubTyped
<1>2. Len(log) \in Nat /\ Len(log') \in Nat /\ requests \in Nat /\ requests' \in Nat
  BY <1>1 DEF LoopOK, SourcesOK
<1>3. CASE d = "nexus"
  <2>1. /\ Made(d) = IF nx \in {"bcast", "hunt"} THEN Len(log) - 1 ELSE Len(log)
        /\ Made(d)' = IF nx' \in {"bcast", "hunt"} THEN Len(log') - 1 ELSE Len(log')
    BY <1>1, <1>3 DEF Made, Top, Counting
  <2>2. CASE \E m : Receive(m) /\ m \in Types
    <3>1. nx = "recv" /\ nx' = "bcast" /\ Len(log') = Len(log) + 1
      BY <1>1, <2>2 DEF Receive, LoopOK
    <3>2. hunt[d] = Nobody
      BY <1>1, <1>3, <3>1 DEF Counting
    <3>3. ~SendWork(d)
      BY <3>2 DEF SendWork
    <3>4. QED
      BY <1>2, <2>1, <3>1, <3>3
  <2>3. CASE /\ log' = log
             /\ \/ nx' = nx
                \/ BroadcastDone
                \/ nx = "hunt" /\ nx' = "recv"
                \/ nx = "recv" /\ nx' = "down"
    <3>1. Made(d)' >= Made(d)
      BY <1>2, <2>1, <2>3 DEF BroadcastDone
    <3>2. ASSUME SendWork(d), EndHunt(d)
          PROVE  hunt[d].call = Made(d) + 1 /\ Made(d)' = Made(d) + 1
      <4>1. hunt[d] # Nobody /\ nx' = "recv"
        BY <1>3, <3>2 DEF SendWork, EndHunt
      <4>2. nx = "hunt" /\ hunt[d].call = Len(log)
        BY <1>1, <1>3, <4>1 DEF Counting, Top
      <4>3. QED
        BY <1>2, <2>1, <2>3, <4>1, <4>2
    <3>3. QED
      BY <1>2, <2>1, <3>1, <3>2
  <2>4. QED
    BY <2>2, <2>3, LoopSteps
<1>4. CASE d = "http"
  <2>1. /\ Made(d) = IF hunt[d] # Nobody THEN requests - 1 ELSE requests
        /\ Made(d)' = IF hunt'[d] # Nobody THEN requests' - 1 ELSE requests'
    BY <1>4 DEF Made, Top
  <2>2. CASE HttpDispatch /\ requests' = requests + 1
    <3>1. hunt[d] = Nobody /\ ~SendWork(d)
      BY <1>4, <2>2 DEF HttpDispatch, SendWork
    <3>2. QED
      BY <1>2, <2>1, <2>2, <3>1
  <2>3. CASE ~HttpDispatch /\ requests' = requests
    <3>1. hunt[d] = Nobody => hunt'[d] = Nobody
      BY <1>4, <2>3, DispatchParts
    <3>2. ASSUME SendWork(d), EndHunt(d)
          PROVE  hunt[d].call = Made(d) + 1 /\ Made(d)' = Made(d) + 1
      <4>1. hunt[d] # Nobody /\ hunt'[d] = Nobody
        BY <1>1, <3>2 DEF SendWork, EndHunt, HuntsOK
      <4>2. hunt[d].call = requests
        BY <1>1, <1>4, <4>1 DEF Counting, Top
      <4>3. QED
        BY <1>2, <2>1, <2>3, <4>1, <4>2
    <3>3. QED
      BY <1>2, <2>1, <2>3, <3>1, <3>2
  <2>4. QED
    BY <2>2, <2>3, RequestsSteps, <1>2 DEF HttpDispatch
<1>5. QED
  BY <1>3, <1>4 DEF Dispatchers

LEMMA PastSteps ==
    ASSUME HubTyped, Counting, NexusNext, NEW c \in Clients
    PROVE  /\ Past(c) \in Int /\ Past(c)' \in Int /\ Past(c)' >= Past(c)
           /\ BroadcastTo(c) =>
                Len(log) = Past(c) + 1 /\ Past(c)' = Past(c) + 1
<1>1. LoopOK /\ LoopOK'
  BY HubTypedNext, Parts, PartsNext DEF HubTyped
<1>2. Len(log) \in Nat /\ Len(log') \in Nat
  BY <1>1 DEF LoopOK
<1>3. /\ Past(c) = IF nx = "bcast" /\ c \in todo THEN Len(log) - 1 ELSE Len(log)
      /\ Past(c)' = IF nx' = "bcast" /\ c \in todo' THEN Len(log') - 1 ELSE Len(log')
  BY DEF Past
<1>4. ASSUME BroadcastTo(c)
      PROVE  Len(log) = Past(c) + 1 /\ Past(c)' = Past(c) + 1
  <2>1. nx = "bcast" /\ c \in todo /\ log' = log /\ c \notin todo'
    BY <1>4 DEF BroadcastTo
  <2>2. QED
    BY <1>2, <1>3, <2>1
<1>5. Past(c)' >= Past(c)
  <2>1. CASE \E m : Receive(m) /\ m \in Types
    <3>1. nx = "recv" /\ Len(log') = Len(log) + 1
      BY <1>1, <2>1 DEF Receive, LoopOK
    <3>2. QED
      BY <1>2, <1>3, <3>1
  <2>2. CASE /\ log' = log /\ todo' \subseteq todo
             /\ \/ nx' = nx
                \/ BroadcastDone
                \/ nx = "hunt" /\ nx' = "recv"
                \/ nx = "recv" /\ nx' = "down"
    BY <1>2, <1>3, <2>2 DEF BroadcastDone
  <2>3. QED
    BY <2>1, <2>2, LoopSteps
<1>6. QED
  BY <1>2, <1>3, <1>4, <1>5

LEMMA NumberedNext ==
    ASSUME HubTyped, Counting, Numbered, NexusNext
    PROVE  Numbered'
<1> SUFFICES ASSUME NEW c \in Clients, NEW i \in DOMAIN Stream(c)'
             PROVE  /\ Stream(c)'[i][1] = "bcast" => Stream(c)'[i][2] <= Past(c)'
                    /\ \A d \in Dispatchers :
                         Stream(c)'[i][1] = d => Stream(c)'[i][2] <= Made(d)'
  BY DEF Numbered, Stream, Past, Made, Top
<1>1. PICK e \in Entry :
        /\ Follows(Stream(c)', Stream(c), e)
        /\ New(c, e)
  BY StreamSteps
<1>2. CASE \E k \in DOMAIN Stream(c) : Stream(c)'[i] = Stream(c)[k]
  <2>1. PICK k \in DOMAIN Stream(c) : Stream(c)'[i] = Stream(c)[k]
    BY <1>2
  <2> DEFINE x == Stream(c)[k]
  <2>2. x \in Entry
    BY StreamType DEF HubTyped
  <2>3. x[2] \in Nat
    BY <2>2 DEF Entry
  <2>4. /\ x[1] = "bcast" => x[2] <= Past(c)
        /\ \A d \in Dispatchers : x[1] = d => x[2] <= Made(d)
    BY DEF Numbered
  <2>5. Stream(c)'[i] = x
    BY <2>1
  <2> HIDE DEF x
  <2>6. x[1] = "bcast" => x[2] <= Past(c)'
    BY <2>3, <2>4, PastSteps
  <2>7. ASSUME NEW d \in Dispatchers, x[1] = d PROVE x[2] <= Made(d)'
    BY <2>3, <2>4, <2>7, MadeSteps
  <2>8. QED
    BY <2>5, <2>6, <2>7
<1>3. CASE Stream(c)'[i] = e
  <2>1. /\ e[1] = "bcast" => e[2] <= Past(c)'
        /\ \A d \in Dispatchers : e[1] = d => e[2] <= Made(d)'
    <3>1. CASE e[1] = "reply"
      BY <3>1 DEF Dispatchers
    <3>2. CASE BroadcastTo(c) /\ e = <<"bcast", Len(log)>>
      BY <3>2, PastSteps DEF Dispatchers
    <3>3. ASSUME NEW d \in Dispatchers, SendWork(d), EndHunt(d),
                 e = <<d, hunt[d].call>>
          PROVE  /\ e[1] = "bcast" => e[2] <= Past(c)'
                 /\ \A b \in Dispatchers : e[1] = b => e[2] <= Made(b)'
      <4>1. hunt[d].call = Made(d)' /\ Made(d)' \in Int /\ e[1] = d /\ e[2] = hunt[d].call
        BY <3>3, MadeSteps
      <4>2. e[1] # "bcast"
        BY <4>1 DEF Dispatchers
      <4>3. e[2] <= Made(d)'
        BY <4>1
      <4>4. QED
        BY <4>1, <4>2, <4>3
    <3>4. QED
      BY <1>1, <3>1, <3>2, <3>3 DEF New
  <2>2. QED
    BY <1>3, <2>1
<1>4. QED
  BY <1>1, <1>2, <1>3 DEF Follows

-----------------------------------------------------------------------------
(* A call is handed out once, and dispatches end when the round is empty.  *)

WorkOnce ==
    \A c, d \in Clients : \A i \in DOMAIN Stream(c), j \in DOMAIN Stream(d) :
      Stream(c)[i][1] \in Dispatchers /\ Stream(c)[i] = Stream(d)[j]
        => c = d /\ i = j

\* The call that is handed to c is in no queue yet, and goes into no other.
LEMMA NewWork ==
    ASSUME HubTyped, Counting, Numbered, NexusNext,
           NEW c \in Clients, NEW e \in Entry, New(c, e), e[1] \in Dispatchers
    PROVE  /\ \A b \in Clients : \A k \in DOMAIN Stream(b) : Stream(b)[k] # e
           /\ \A b \in Clients : New(b, e) => b = c
<1>1. e[1] # "reply" /\ e[1] # "bcast"
  BY DEF Dispatchers
<1>2. ASSUME NEW b, New(b, e)
      PROVE  \E d \in Dispatchers :
               /\ SendWork(d) /\ EndHunt(d) /\ hunt[d].last = b
               /\ e = <<d, hunt[d].call>>
  BY <1>1, <1>2 DEF New
<1>3. PICK d \in Dispatchers :
        /\ SendWork(d) /\ EndHunt(d) /\ hunt[d].last = c
        /\ e = <<d, hunt[d].call>>
  BY <1>2
<1>4. e[1] = d /\ e[2] = Made(d) + 1 /\ Made(d) \in Int
  BY <1>3, MadeSteps
<1>5. ASSUME NEW b \in Clients, NEW k \in DOMAIN Stream(b), Stream(b)[k] = e
      PROVE  FALSE
  <2>1. e[2] <= Made(d)
    BY <1>4, <1>5 DEF Numbered
  <2>2. QED
    BY <1>4, <2>1
<1>6. ASSUME NEW b \in Clients, New(b, e) PROVE b = c
  <2>1. PICK f \in Dispatchers : hunt[f].last = b /\ e = <<f, hunt[f].call>>
    BY <1>2, <1>6
  <2>2. f = d
    BY <1>4, <2>1
  <2>3. QED
    BY <1>3, <2>1, <2>2
<1>7. QED
  BY <1>5, <1>6

LEMMA BeforeIsInjective ==
    ASSUME NEW k \in Nat, NEW i \in Nat, NEW j \in Nat
    PROVE  /\ Before(i, k) = Before(j, k) => i = j
           /\ i < j => Before(i, k) < Before(j, k)
           /\ Before(i, k) \in Nat
BY DEF Before

LEMMA WorkOnceNext ==
    ASSUME HubTyped, Counting, Numbered, WorkOnce, NexusNext
    PROVE  WorkOnce'
<1> SUFFICES ASSUME NEW c \in Clients, NEW b \in Clients,
                    NEW i \in DOMAIN Stream(c)', NEW j \in DOMAIN Stream(b)',
                    Stream(c)'[i][1] \in Dispatchers,
                    Stream(c)'[i] = Stream(b)'[j]
             PROVE  c = b /\ i = j
  BY DEF WorkOnce, Stream
<1>1. i \in Nat /\ j \in Nat
  <2>1. Stream(c)' \in Seq(Entry) /\ Stream(b)' \in Seq(Entry)
    BY HubTypedNext, StreamTypeNext DEF HubTyped
  <2>2. QED
    BY <2>1
<1>2. PICK e \in Entry : Follows(Stream(c)', Stream(c), e) /\ New(c, e)
  BY StreamSteps
<1>3. PICK k \in Nat, n \in Nat : \A x \in DOMAIN Stream(c)' :
        \/ /\ x <= n /\ Before(x, k) \in DOMAIN Stream(c)
           /\ Stream(c)'[x] = Stream(c)[Before(x, k)]
        \/ x = n + 1 /\ Stream(c)'[x] = e
  BY <1>2 DEF Follows
<1>4. CASE b = c
  <2>1. CASE Stream(c)'[i] = e
    <3>1. i = n + 1 /\ j = n + 1
      BY <1>2, <1>3, <1>4, <2>1, NewWork
    <3>2. QED
      BY <1>4, <3>1
  <2>2. CASE Stream(c)'[i] # e
    <3>1. /\ Before(i, k) \in DOMAIN Stream(c) /\ Before(j, k) \in DOMAIN Stream(c)
          /\ Stream(c)'[i] = Stream(c)[Before(i, k)]
          /\ Stream(c)'[j] = Stream(c)[Before(j, k)]
      BY <1>3, <1>4, <2>2
    <3>2. /\ Stream(c)[Before(i, k)] = Stream(c)[Before(j, k)]
          /\ Stream(c)[Before(i, k)][1] \in Dispatchers
      BY <1>4, <3>1
    <3>3. \A x, y \in DOMAIN Stream(c) :
            Stream(c)[x][1] \in Dispatchers /\ Stream(c)[x] = Stream(c)[y]
              => x = y
      BY DEF WorkOnce
    <3>4. Before(i, k) = Before(j, k)
      BY <3>1, <3>2, <3>3
    <3>5. QED
      BY <1>1, <1>4, <3>4, BeforeIsInjective
  <2>3. QED
    BY <2>1, <2>2
<1>5. CASE b # c
  <2>1. PICK f \in Entry : Follows(Stream(b)', Stream(b), f) /\ New(b, f)
    BY StreamSteps
  <2>2. \/ \E y \in DOMAIN Stream(b) : Stream(b)'[j] = Stream(b)[y]
        \/ Stream(b)'[j] = f
    BY <2>1 DEF Follows
  <2>3. \/ \E x \in DOMAIN Stream(c) : Stream(c)'[i] = Stream(c)[x]
        \/ Stream(c)'[i] = e
    BY <1>3
  <2>4. CASE Stream(c)'[i] = e
    <3>1. e[1] \in Dispatchers
      BY <2>4
    <3>2. Stream(b)'[j] = f /\ f = e
      BY <1>2, <2>2, <2>4, <3>1, NewWork
    <3>3. QED
      BY <1>2, <1>5, <2>1, <3>1, <3>2, NewWork
  <2>5. CASE \E x \in DOMAIN Stream(c) : Stream(c)'[i] = Stream(c)[x]
    <3>1. PICK x \in DOMAIN Stream(c) : Stream(c)'[i] = Stream(c)[x]
      BY <2>5
    <3>2. CASE Stream(b)'[j] = f
      <4>1. f[1] \in Dispatchers /\ Stream(c)[x] = f
        BY <3>1, <3>2
      <4>2. QED
        BY <2>1, <4>1, NewWork
    <3>3. CASE \E y \in DOMAIN Stream(b) : Stream(b)'[j] = Stream(b)[y]
      BY <1>5, <3>1, <3>3 DEF WorkOnce
    <3>4. QED
      BY <2>2, <3>2, <3>3
  <2>6. QED
    BY <2>3, <2>4, <2>5
<1>6. QED
  BY <1>4, <1>5

\* What the loop and the workers know.
HubInv == HubTyped /\ RegisterOnce /\ DroppedIsOut /\ Counting /\ Numbered /\ WorkOnce

LEMMA HubInit == ASSUME NexusInit PROVE HubInv
<1>1. HubTyped
  BY HubTypeInit
<1>2. RegisterOnce /\ DroppedIsOut
  BY DEF NexusInit, RegisterOnce, DroppedIsOut, Registers, Idle, Range
<1>3. Counting
  BY DEF NexusInit, Counting, Dispatchers
<1>4. \A c \in Clients : DOMAIN Stream(c) = {}
  BY DEF NexusInit, Stream
<1>5. Numbered /\ WorkOnce
  BY <1>4 DEF Numbered, WorkOnce
<1>6. QED
  BY <1>1, <1>2, <1>3, <1>5 DEF HubInv

LEMMA HubNext ==
    ASSUME HubInv, [NexusNext]_nexusVars
    PROVE  HubInv'
<1>1. CASE NexusNext
  BY <1>1, HubTypedNext, RegisterOnceNext, DroppedIsOutNext, CountingNext, NumberedNext,
     WorkOnceNext
     DEF HubInv
<1>2. CASE UNCHANGED nexusVars
  <2>1. HubTyped'
    BY HubTypedNext DEF HubInv
  <2> USE <1>2 DEF nexusVars, nexus, queues, wishes, round, source, HubInv
  <2>2. RegisterOnce' /\ DroppedIsOut'
    BY DEF RegisterOnce, DroppedIsOut, Registers, Range
  <2>3. Counting'
    BY DEF Counting, Top
  <2>4. \A c \in Clients : Stream(c)' = Stream(c) /\ Past(c)' = Past(c)
    BY DEF Stream, Past
  <2>5. \A d \in Dispatchers : Made(d)' = Made(d)
    BY DEF Made, Top
  <2>6. Numbered'
    BY <2>4, <2>5 DEF Numbered
  <2>7. WorkOnce'
    BY <2>4 DEF WorkOnce
  <2>8. QED
    BY <2>1, <2>2, <2>3, <2>6, <2>7
<1>3. QED
  BY <1>1, <1>2

LEMMA HubInvariant == NexusSpec => []HubInv
<1>1. NexusInit => HubInv
  BY HubInit
<1>2. HubInv /\ [NexusNext]_nexusVars => HubInv'
  BY HubNext
<1>3. QED
  BY <1>1, <1>2, PTL DEF NexusSpec

GivesUpLate ==
    \A d \in Dispatchers :
      (hunt[d] # Nobody /\ hunt[d].pc = "next" /\ hunt'[d] = Nobody) => items = <<>>

LEMMA GivesUp ==
    ASSUME HubInv, [NexusNext]_nexusVars
    PROVE  GivesUpLate
<1> SUFFICES ASSUME NEW d \in Dispatchers, hunt[d] # Nobody, hunt[d].pc = "next",
                    hunt'[d] = Nobody, items # <<>>
             PROVE  FALSE
  BY DEF GivesUpLate
<1>1. NexusNext
  BY DEF nexusVars
<1>2. RoundOK /\ HuntsOK
  BY Parts DEF HubInv, HubTyped
<1>3. Upcoming \in Range(items) /\ Upcoming \in Clients
  BY <1>2, UpcomingIs DEF RoundOK
<1>4. Upcoming # Nobody /\ Upcoming # hunt[d].last
  BY <1>3, NexusAssumption DEF HubInv, DroppedIsOut
<1>5. ~SendWork(d)
  BY DEF SendWork
<1>6. \A h \in Dispatch : h # Nobody
  BY NexusAssumption
<1>7. hunt'[d] # Nobody
  <2>1. hunt[d].call \in Nat /\ hunt[d].last \in Clients \cup {Nobody}
    BY <1>2, HuntTypes DEF Dispatch
  <2>2. Number(d) \in Nat
    <3>1. LoopOK /\ SourcesOK
      BY Parts DEF HubInv, HubTyped
    <3>2. QED
      BY <3>1 DEF Number, LoopOK, SourcesOK
  <2>3. \A p \in {"next", "send"}, n \in Nat, c \in Clients \cup {Nobody} :
          [pc |-> p, call |-> n, last |-> c] # Nobody
    BY <1>6 DEF Dispatch
  <2> HIDE DEF Upcoming
  <2>4. QED
    BY <1>1, <1>3, <1>4, <1>5, <2>1, <2>2, <2>3, DispatchSteps DEF HubInv
<1>8. QED
  BY <1>7

\* A call, of nexus or of an HTTP request, goes into the queue of one worker
\* and once, and its dispatch gives up only when no worker is left in the
\* round, for any workers, queue sizes, calls and dispatches.
THEOREM WorkIsHandedOut ==
    NexusSpec => WorkFindsWorker
<1>1. HubInv => \A c, d \in Clients :
         \A i \in DOMAIN Stream(c), j \in DOMAIN Stream(d) :
           Stream(c)[i][1] \in Dispatchers /\ Stream(c)[i] = Stream(d)[j]
             => c = d /\ i = j
  BY DEF HubInv, WorkOnce
<1>2. HubInv /\ [NexusNext]_nexusVars =>
        [\A d \in Dispatchers :
           (hunt[d] # Nobody /\ hunt[d].pc = "next" /\ hunt'[d] = Nobody)
             => items = <<>>]_nexusVars
  BY GivesUp DEF GivesUpLate
<1>3. QED
  BY <1>1, <1>2, HubInvariant, PTL DEF NexusSpec, WorkFindsWorker

-----------------------------------------------------------------------------
(* Streams are in order, and whole for the clients that are registered.    *)

Ordered ==
    \A c \in Clients : \A i, j \in DOMAIN Stream(c) :
      i < j /\ Stream(c)[i][1] = "bcast" /\ Stream(c)[j][1] = "bcast"
        => Stream(c)[i][2] < Stream(c)[j][2]

\* c has a broadcast of a type it is subscribed to, from after it was.
Due(c, n) == log[n] \in subs[c] /\ since[c][log[n]] < n
Has(c, n) == \E i \in DOMAIN Stream(c) : Stream(c)[i] = <<"bcast", n>>
Whole == \A c \in clients : \A n \in 1..Past(c) : Due(c, n) => Has(c, n)

NewWantsNothing == \A c \in Clients : conn[c] = "new" => subs[c] = {}

StreamInv == HubInv /\ Ordered /\ Whole /\ NewWantsNothing

LEMMA OrderedNext ==
    ASSUME HubInv, Ordered, NexusNext
    PROVE  Ordered'
<1> USE DEF HubInv
<1> SUFFICES ASSUME NEW c \in Clients,
                    NEW i \in DOMAIN Stream(c)', NEW j \in DOMAIN Stream(c)', i < j,
                    Stream(c)'[i][1] = "bcast", Stream(c)'[j][1] = "bcast"
             PROVE  Stream(c)'[i][2] < Stream(c)'[j][2]
  BY DEF Ordered, Stream
<1>1. i \in Nat /\ j \in Nat
  <2>1. Stream(c)' \in Seq(Entry)
    BY HubTypedNext, StreamTypeNext DEF HubTyped
  <2>2. QED
    BY <2>1
<1>2. PICK e \in Entry : Follows(Stream(c)', Stream(c), e) /\ New(c, e)
  BY StreamSteps
<1>3. PICK k \in Nat, n \in Nat : \A x \in DOMAIN Stream(c)' :
        \/ /\ x <= n /\ Before(x, k) \in DOMAIN Stream(c)
           /\ Stream(c)'[x] = Stream(c)[Before(x, k)]
        \/ x = n + 1 /\ Stream(c)'[x] = e
  BY <1>2 DEF Follows
<1>4. Before(i, k) \in DOMAIN Stream(c) /\ Stream(c)'[i] = Stream(c)[Before(i, k)]
  BY <1>1, <1>3
<1>5. CASE Before(j, k) \in DOMAIN Stream(c)
           /\ Stream(c)'[j] = Stream(c)[Before(j, k)]
  <2>1. Before(i, k) < Before(j, k)
    BY <1>1, BeforeIsInjective
  <2>2. QED
    BY <1>4, <1>5, <2>1 DEF Ordered
<1>6. CASE Stream(c)'[j] = e
  <2>1. BroadcastTo(c) /\ e = <<"bcast", Len(log)>>
    BY <1>2, <1>6 DEF New, Dispatchers
  <2>2. e[2] = Past(c) + 1 /\ Past(c) \in Int
    BY <2>1, PastSteps
  <2>3. Stream(c)[Before(i, k)] \in Entry
    BY <1>4, StreamType DEF HubTyped
  <2>4. Stream(c)[Before(i, k)][2] \in Nat
    BY <2>3 DEF Entry
  <2>5. Stream(c)[Before(i, k)][2] <= Past(c)
    BY <1>4 DEF Numbered
  <2>6. QED
    BY <1>4, <1>6, <2>2, <2>4, <2>5
<1>7. QED
  BY <1>3, <1>5, <1>6

\* A new subscription is due from the next broadcast on, an old one as before.
LEMMA WishSteps ==
    ASSUME HubTyped, NexusNext, NEW c \in Clients
    PROVE  \/ subs'[c] = subs[c] /\ since'[c] = since[c]
           \/ /\ conn[c] # "new"
              /\ \A t \in Types :
                   since'[c][t] = IF t \in subs[c] THEN since[c][t] ELSE Len(log)
<1> DEFINE Goal ==
           \/ subs'[c] = subs[c] /\ since'[c] = since[c]
           \/ /\ conn[c] # "new"
              /\ \A t \in Types :
                   since'[c][t] = IF t \in subs[c] THEN since[c][t] ELSE Len(log)
<1>1. ASSUME UNCHANGED wishes PROVE Goal
  BY <1>1 DEF wishes
<1>2. ASSUME NEW g \in Goroutines, Live(g) PROVE Goal
  <2>1. cmds[g].of \in Clients /\ conn[cmds[g].of] # "new" /\ WishesOK
    BY <1>2, Parts DEF Live, HubTyped, HasClient
  <2>2. CASE UNCHANGED wishes
    BY <1>1, <2>2
  <2>3. ASSUME NEW want \in Wants, subs' = [subs EXCEPT ![cmds[g].of] = want],
               since' = [since EXCEPT ![cmds[g].of] = [t \in Types |->
                           IF t \in subs[cmds[g].of] THEN since[cmds[g].of][t] ELSE Len(log)]]
        PROVE  Goal
    <3>1. CASE cmds[g].of = c
      BY <2>1, <2>3, <3>1 DEF WishesOK
    <3>2. CASE cmds[g].of # c
      BY <2>1, <2>3, <3>2 DEF WishesOK
    <3>3. QED
      BY <3>1, <3>2
  <2> HIDE DEF Goal
  <2>4. QED
    BY <1>2, <2>2, <2>3 DEF Live
<1> HIDE DEF Goal
<1>3. ASSUME NEW b \in Clients, Connection(b) PROVE UNCHANGED wishes
  BY <1>3
     DEF Connection, ServeWS, Hello, ReadMessage, ReadFails, Unregister,
         CloseCh, WritePump
<1>4. ASSUME NEW g \in Goroutines, Command(g), ~Live(g) PROVE UNCHANGED wishes
  BY <1>4
     DEF Command, RegisterWorker, MarkWorker, SetTranscript, Reply
<1>5. NexusGo => UNCHANGED wishes
  BY DEF NexusGo, ReceiveCall, ReceiveTranscript, Receive, BroadcastTo,
         BroadcastDone, GoEnds, Hunt, NextWorker, SendWork
<1>6. HttpDispatch \/ Hunt("http") \/ BroadcastCall \/ Stop \/ Exit
        => UNCHANGED wishes
  BY DEF HttpDispatch, Hunt, NextWorker, SendWork, BroadcastCall, Stop, Exit
<1>7. Goal
  BY <1>1, <1>2, <1>3, <1>4, <1>5, <1>6 DEF NexusNext
<1>8. QED
  BY <1>7 DEF Goal

\* Only a new connection is registered.
LEMMA ClientSteps ==
    ASSUME NexusNext, NEW c \in Clients, c \in clients'
    PROVE  c \in clients \/ (ServeWS(c) /\ conn[c] = "new" /\ UNCHANGED subs)
<1>1. CASE clients' \subseteq clients
  BY <1>1
<1>2. ASSUME NEW b \in Clients, Connection(b), ~ServeWS(b) PROVE clients' \subseteq clients
  BY <1>2
     DEF Connection, Hello, ReadMessage, ReadFails, Unregister,
         Forget, CloseCh, WritePump, nexus
<1>3. ASSUME NEW b \in Clients, ServeWS(b) PROVE c \in clients \/ b = c
  BY <1>3 DEF ServeWS
<1>4. ASSUME NEW g \in Goroutines, Command(g) PROVE clients' \subseteq clients
  BY <1>4
     DEF Command, Live, RegisterWorker, MarkWorker, SetTranscript,
         Reply, nexus
<1>5. NexusGo => clients' \subseteq clients
  BY DEF NexusGo, ReceiveCall, ReceiveTranscript, Receive, BroadcastTo,
         Forget, BroadcastDone, GoEnds, Hunt, NextWorker, SendWork
<1>6. HttpDispatch \/ Hunt("http") \/ BroadcastCall \/ Stop \/ Exit
        => clients' \subseteq clients
  BY DEF HttpDispatch, Hunt, NextWorker, SendWork, BroadcastCall,
         Stop, Exit, nexus
<1>7. ServeWS(c) => conn[c] = "new" /\ UNCHANGED subs
  BY DEF ServeWS, wishes
<1>8. QED
  BY <1>1, <1>2, <1>3, <1>4, <1>5, <1>6, <1>7 DEF NexusNext

LEMMA NewWantsNothingNext ==
    ASSUME HubTyped, NewWantsNothing, NexusNext
    PROVE  NewWantsNothing'
<1> SUFFICES ASSUME NEW c \in Clients, conn'[c] = "new" PROVE subs'[c] = {}
  BY DEF NewWantsNothing
<1>1. conn[c] = "new"
  BY NewOnce
<1>2. QED
  BY <1>1, WishSteps DEF NewWantsNothing

LEMMA WholeNext ==
    ASSUME StreamInv, NexusNext
    PROVE  Whole'
<1> USE DEF StreamInv, HubInv
<1> SUFFICES ASSUME NEW c \in clients', NEW n \in 1..Past(c)',
                    log'[n] \in subs'[c], since'[c][log'[n]] < n
             PROVE  \E i \in DOMAIN Stream(c)' : Stream(c)'[i] = <<"bcast", n>>
  BY DEF Whole, Due, Has, Past, Stream
<1>1. LoopOK /\ LoopOK' /\ SocketsOK' /\ WishesOK /\ QueuesOK /\ QueuesOK'
  BY HubTypedNext, Parts, PartsNext DEF HubTyped
<1>2. c \in Clients
  BY <1>1 DEF SocketsOK
<1>3. c \in clients
  <2>1. CASE conn[c] = "new" /\ UNCHANGED subs
    BY <1>2, <2>1 DEF NewWantsNothing
  <2>2. QED
    BY <1>2, <2>1, ClientSteps
<1>4. Past(c) \in Int /\ Past(c)' \in Int /\ n \in Nat /\ Len(log) \in Nat
      /\ Past(c) <= Len(log)
  BY <1>1, <1>2, PastSteps DEF LoopOK, Past
<1>5. CASE n <= Past(c)
  <2>1. n \in 1..Len(log) /\ log'[n] = log[n] /\ log[n] \in Types
    <3>1. n \in 1..Len(log)
      BY <1>4, <1>5
    <3>2. log' = log \/ \E m \in Types : log' = Append(log, m)
      BY LoopSteps DEF Receive
    <3>3. QED
      BY <1>1, <3>1, <3>2 DEF LoopOK
  <2>2. Due(c, n)
    <3>1. CASE subs'[c] = subs[c] /\ since'[c] = since[c]
      BY <2>1, <3>1 DEF Due
    <3>2. CASE \A t \in Types :
                 since'[c][t] = IF t \in subs[c] THEN since[c][t] ELSE Len(log)
      <4>1. ~(Len(log) < n)
        BY <1>4, <2>1
      <4>2. QED
        BY <2>1, <3>2, <4>1 DEF Due
    <3>3. QED
      BY <1>2, <3>1, <3>2, WishSteps
  <2>3. PICK i \in DOMAIN Stream(c) : Stream(c)[i] = <<"bcast", n>>
    <3>1. n \in 1..Past(c)
      BY <1>4, <1>5
    <3>2. QED
      BY <1>3, <2>2, <3>1 DEF Whole, Has
  <2>4. Keeps(Stream(c)', Stream(c))
    BY <1>2, StreamSteps
  <2>5. QED
    BY <2>3, <2>4 DEF Keeps
<1>6. CASE n > Past(c)
  <2>1. Past(c)' > Past(c)
    BY <1>4, <1>6
  <2>2. /\ Past(c) = IF nx = "bcast" /\ c \in todo THEN Len(log) - 1 ELSE Len(log)
        /\ Past(c)' = IF nx' = "bcast" /\ c \in todo' THEN Len(log') - 1 ELSE Len(log')
    BY DEF Past
  <2>3. ASSUME NEW m, Receive(m) PROVE FALSE
    <3>1. nx = "recv" /\ nx' = "bcast" /\ c \in todo' /\ log' = Append(log, m)
      BY <1>3, <2>3 DEF Receive
    <3>2. Len(log') = Len(log) + 1
      BY <1>1, <3>1 DEF LoopOK
    <3>3. QED
      BY <1>4, <2>1, <2>2, <3>1, <3>2
  <2>4. BroadcastTo(c)
    <3>1. /\ log' = log /\ todo' \subseteq todo
          /\ \A b \in Clients : b \in todo \ todo' => BroadcastTo(b)
          /\ \/ nx' = nx
             \/ BroadcastDone
             \/ nx = "hunt" /\ nx' = "recv"
             \/ nx = "recv" /\ nx' = "down"
      BY <2>3, LoopSteps
    <3>2. nx = "bcast" /\ c \in todo
      BY <1>4, <2>1, <2>2, <3>1
    <3>3. ~BroadcastDone
      BY <3>2 DEF BroadcastDone
    <3>4. c \notin todo'
      BY <1>4, <2>1, <2>2, <3>1, <3>2, <3>3
    <3>5. QED
      BY <1>2, <3>1, <3>2, <3>4
  <2>5. n = Len(log)
    BY <1>2, <1>4, <1>6, <2>4, PastSteps
  <2>6. log' = log /\ subs' = subs /\ c \in clients'
    BY <2>4 DEF BroadcastTo, wishes
  <2>7. Last(log) \in subs[c]
    BY <2>5, <2>6 DEF Last
  <2>8. Enqueue(c, <<"bcast", n>>) /\ UNCHANGED heard
    BY <2>4, <2>5, <2>6, <2>7 DEF BroadcastTo, Forget
  <2>9. out[c] \in Seq(Entry) /\ heard[c] \in Seq(Entry)
        /\ <<"bcast", n>> \in Entry
    BY <1>1, <1>2, <1>4 DEF QueuesOK, Entry
  <2>10. out'[c] = Append(out[c], <<"bcast", n>>) /\ heard'[c] = heard[c]
    BY <1>1, <1>2, <2>8 DEF QueuesOK, Enqueue
  <2>11. heard[c] \o Append(out[c], <<"bcast", n>>) = Append(Stream(c), <<"bcast", n>>)
    <3>1. \A s, t \in Seq(Entry) :
            s \o Append(t, <<"bcast", n>>) = Append(s \o t, <<"bcast", n>>)
      BY <2>9, AppendToQueue
    <3>2. heard[c] \o Append(out[c], <<"bcast", n>>) = Append(heard[c] \o out[c], <<"bcast", n>>)
      BY <2>9, <3>1, Zenon
    <3>3. QED
      BY <3>2 DEF Stream
  <2>12. Stream(c)' = Append(Stream(c), <<"bcast", n>>)
    BY <2>10, <2>11 DEF Stream
  <2>13. Stream(c) \in Seq(Entry)
    BY <1>2, StreamType DEF HubTyped
  <2>14. /\ Len(Stream(c)) + 1 \in DOMAIN Stream(c)'
         /\ Stream(c)'[Len(Stream(c)) + 1] = <<"bcast", n>>
    <3>1. \A s \in Seq(Entry) : \A e \in Entry :
            Len(s) + 1 \in DOMAIN Append(s, e) /\ Append(s, e)[Len(s) + 1] = e
      OBVIOUS
    <3>2. QED
      BY <2>9, <2>12, <2>13, <3>1
  <2>15. QED
    BY <2>14
<1>7. QED
  BY <1>4, <1>5, <1>6

LEMMA StreamNext ==
    ASSUME StreamInv, [NexusNext]_nexusVars
    PROVE  StreamInv'
<1>1. HubInv'
  BY HubNext DEF StreamInv
<1>2. CASE NexusNext
  BY <1>1, <1>2, OrderedNext, WholeNext, NewWantsNothingNext DEF StreamInv, HubInv
<1>3. CASE UNCHANGED nexusVars
  <2> USE <1>3 DEF nexusVars, nexus, queues, wishes, StreamInv
  <2>1. \A c : Stream(c)' = Stream(c) /\ Past(c)' = Past(c)
    BY DEF Stream, Past
  <2>2. Ordered' /\ NewWantsNothing'
    BY <2>1 DEF Ordered, NewWantsNothing
  <2>3. Whole'
    BY <2>1 DEF Whole, Due, Has
  <2>4. QED
    BY <1>1, <2>2, <2>3
<1>4. QED
  BY <1>2, <1>3

\* For any number of connections, commands and calls and any size of the
\* queues, a client hears broadcasts in order and none twice, and as long as
\* nexus knows it every one that it subscribed to before.
THEOREM StreamsAreWhole ==
    NexusSpec => []StreamIsWhole
<1>1. NexusInit => StreamInv
  <2> SUFFICES ASSUME NexusInit PROVE StreamInv
    OBVIOUS
  <2>1. \A c \in Clients : DOMAIN Stream(c) = {}
    BY DEF NexusInit, Stream
  <2>2. Ordered
    BY <2>1 DEF Ordered
  <2>3. Whole /\ NewWantsNothing
    BY DEF NexusInit, Whole, NewWantsNothing
  <2>4. QED
    BY <2>2, <2>3, HubInit DEF StreamInv
<1>2. StreamInv /\ [NexusNext]_nexusVars => StreamInv'
  BY StreamNext
<1>3. StreamInv => StreamIsWhole
  <2> SUFFICES ASSUME StreamInv PROVE StreamIsWhole
    OBVIOUS
  <2>1. SocketsOK
    BY Parts DEF StreamInv, HubInv, HubTyped
  <2>2. QED
    BY <2>1 DEF StreamInv, Ordered, Whole, Due, Has, StreamIsWhole, SocketsOK
<1>4. QED
  BY <1>1, <1>2, <1>3, PTL DEF NexusSpec
=============================================================================
