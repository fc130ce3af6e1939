-------------------------- MODULE RefJournalProofs --------------------------
(***************************************************************************)
(* Proofs about RefJournal: whatever interleaves and fails, the journal    *)
(* keeps DeleteContract.  The inductive invariant IInv is proved action by *)
(* action; the step from it to the contract needs only that the target in  *)
(* hand is safe.                                                           *)
(***************************************************************************)
EXTENDS RefJournal, TLAPS

-----------------------------------------------------------------------------
(* Lemmas about the journal and the targets.                               *)

LEMMA PendingDef == \A t : t \in pending <=> \E r \in journal : Target(r) = t
BY DEF pending

\* A safe target stays safe while objects only go and no target is
\* forgotten that still has some.
LEMMA Stable ==
    ASSUME objects' \subseteq objects,
           \A t : t \in pending => t \in pending' \/ Under(t) = {},
           NEW t, SafeTarget(t)
    PROVE  SafeTarget(t)'
<1>1. Under(t)' \subseteq Under(t)
  BY DEF Under
<1>2. QED
  BY <1>1 DEF SafeTarget

\* A step that leaves the rows, the objects and the ids alone keeps every
\* safe target safe.
LEMMA StableUnchanged ==
    ASSUME UNCHANGED <<journal, objects>>
    PROVE  /\ \A t : SafeTarget(t) => SafeTarget(t)'
           /\ \A t : Under(t)' = Under(t)
BY DEF SafeTarget, pending, Under

\* Putting a row off, or the passing of time, changes no target.
LEMMA PendingKept ==
    ASSUME NEW f, journal' = {f[r] : r \in journal},
           \A r \in journal : Target(f[r]) = Target(r)
    PROVE  pending' = pending
BY DEF pending

\* Ids keep naming their targets while rows only go; id 0 names nothing.
LEMMA SameIds ==
    ASSUME IInv, journal' \subseteq journal, nextId' = nextId
    PROVE  /\ \A q : SameTarget(q) => SameTarget(q)'
           /\ \A q : q.id = 0 => SameTarget(q)'
<1>1. \A r \in journal : r.id # 0
  BY RefJournalAssumption DEF IInv, TypeOK, Entry
<1>2. 0 < nextId
  BY DEF IInv, TypeOK
<1>3. QED
  BY <1>1, <1>2 DEF SameTarget, Target

LEMMA ConstFacts ==
    /\ ErrThreshold \in Nat /\ MaxPrunes \in Nat /\ MaxFaults \in Nat
    /\ Ids \subseteq Nat \ {0} /\ None \notin Backends /\ None \notin RuleJob
    /\ Configured \subseteq Backends /\ Partman \in Procs
    /\ Collectors \subseteq Procs /\ Partman \notin Collectors
    /\ 1 \in Ids
BY RefJournalAssumption DEF Procs

LEMMA FaultType == ASSUME TypeOK, NEW k, Fault(k)
                   PROVE  faults' \in 0..MaxFaults
<1>1. faults \in 0..MaxFaults /\ faults < MaxFaults /\ faults' = faults + 1
  BY DEF TypeOK, Fault
<1>2. QED
  BY <1>1, ConstFacts

-----------------------------------------------------------------------------
(* The initial states.                                                     *)

LEMMA InitInv == Init => IInv
<1> SUFFICES ASSUME Init PROVE IInv
  OBVIOUS
<1> USE ConstFacts
<1>1. journal \subseteq Entry /\ nextId \in Nat \ {0}
  BY DEF Init, Entry, After
<1>2. /\ cur \in [Procs -> [id : Ids \cup {NoId}, be : Backends \cup {None},
                            ref : Prefixes \cup {None}, after : After]]
  BY DEF Init, NoRow, After, NoId
<1>3. errs \in [Procs -> 0..(ErrThreshold + 1)]
  <2>1. 0 \in 0..(ErrThreshold + 1)
    OBVIOUS
  <2>2. QED
    BY <2>1 DEF Init
<1>4. prunes \in 0..MaxPrunes /\ faults \in 0..MaxFaults
  BY DEF Init
<1>5. TypeOK
  BY <1>1, <1>2, <1>3, <1>4 DEF Init, TypeOK
<1>6. HandInv
  BY DEF Init, HandInv, InHand
<1>7. RuleInv
  BY DEF Init, RuleInv
<1>8. JobInv
  BY RefJournalAssumption DEF Init, JobInv
<1>9. IdInv
  <2>1. \A p \in Procs : cur[p].id = 0 /\ todo[p] = {}
    BY DEF Init, NoRow, NoId
  <2>2. \A r \in journal : r.id = 1 /\ r.id < nextId
    BY DEF Init
  <2>3. \A r, q \in journal : r = q
    BY DEF Init
  <2>4. QED
    BY <1>1, <2>1, <2>2, <2>3 DEF IdInv, SameTarget
<1>10. QED
  BY <1>5, <1>6, <1>7, <1>8, <1>9 DEF IInv

-----------------------------------------------------------------------------
(* One lemma per action.                                                   *)

LEMMA CollectInv == ASSUME IInv, NEW g \in Collectors, Collect(g) PROVE IInv'
<1> USE ConstFacts
<1>1. UNCHANGED <<journal, objects>>
  BY DEF Collect, db, store
<1>2. TypeOK'
  <2>1. todo' \in [Procs -> SUBSET Entry]
    BY DEF Collect, IInv, TypeOK
  <2>2. errs' \in [Procs -> 0..(ErrThreshold + 1)]
    <3>1. 0 \in 0..(ErrThreshold + 1)
      OBVIOUS
    <3>2. QED
      BY <3>1 DEF Collect, IInv, TypeOK
  <2>3. QED
    BY <2>1, <2>2 DEF Collect, IInv, TypeOK, db, store
<1>3. HandInv'
  <2>1. \A r \in journal : SafeTarget(Target(r))
    BY DEF SafeTarget, pending
  <2>2. \A p \in Procs : \A r \in todo'[p] : r \in todo[p] \/ r \in journal
    BY DEF Collect, IInv, TypeOK
  <2>3. QED
    BY <1>1, <2>1, <2>2, StableUnchanged
       DEF Collect, IInv, TypeOK, HandInv, InHand, db, store
<1>4. RuleInv'
  BY <1>1, StableUnchanged DEF Collect, IInv, TypeOK, RuleInv, db, store
<1>5. JobInv'
  BY RefJournalAssumption DEF Collect, IInv, TypeOK, JobInv, MoreOf, db, store
<1>6. IdInv'
  <2>1. \A p \in Procs : \A r \in todo'[p] : r \in todo[p] \/ r \in journal
    BY DEF Collect, IInv, TypeOK
  <2>2. QED
    BY <2>1, SameIds DEF Collect, IInv, IdInv, db
<1>7. QED
  BY <1>2, <1>3, <1>4, <1>5, <1>6 DEF IInv

LEMMA PruneBackendRefsInv ==
    ASSUME IInv, NEW b \in Backends, NEW x \in Prefixes, PruneBackendRefs(b, x)
    PROVE  IInv'
<1> USE ConstFacts
<1>1. UNCHANGED <<journal, objects>>
  BY DEF PruneBackendRefs, db, store
<1>2. TypeOK'
  <2>1. prunes' \in 0..MaxPrunes
    BY DEF PruneBackendRefs, IInv, TypeOK
  <2>2. errs' \in [Procs -> 0..(ErrThreshold + 1)]
    <3>1. 0 \in 0..(ErrThreshold + 1)
      OBVIOUS
    <3>2. QED
      BY <3>1 DEF PruneBackendRefs, IInv, TypeOK
  <2>3. [id |-> NoId, be |-> b, ref |-> x, after |-> "null"]
          \in [id : Ids \cup {NoId}, be : Backends \cup {None},
               ref : Prefixes \cup {None}, after : After]
    BY DEF After
  <2>4. QED
    BY <2>1, <2>2, <2>3 DEF PruneBackendRefs, IInv, TypeOK, db, store
<1>3. HandInv'
  BY <1>1, StableUnchanged
     DEF PruneBackendRefs, IInv, TypeOK, HandInv, InHand, db, store
<1>4. RuleInv'
  BY <1>1, StableUnchanged
     DEF PruneBackendRefs, IInv, TypeOK, RuleInv, db, store
<1>5. JobInv'
  BY DEF PruneBackendRefs, IInv, TypeOK, JobInv, MoreOf, db, store
<1>6. IdInv'
  <2>1. \A p \in Procs : cur'[p] = cur[p] \/ cur'[p].id = 0
    BY DEF PruneBackendRefs, IInv, TypeOK, NoId
  <2>2. QED
    BY <2>1, SameIds DEF PruneBackendRefs, IInv, IdInv, db
<1>7. QED
  BY <1>2, <1>3, <1>4, <1>5, <1>6 DEF IInv

LEMMA NextRowInv == ASSUME IInv, NEW g \in Collectors, NextRow(g) PROVE IInv'
<1> USE ConstFacts
<1>0. PICK r \in todo[g] :
        /\ MoreOf(g) => r.be = back[g]
        /\ todo' = [todo EXCEPT ![g] = @ \ {r}]
        /\ cur' = [cur EXCEPT ![g] = r]
        /\ IF r.be \in Configured
             THEN /\ back' = [back EXCEPT ![g] = r.be]
                  /\ pc' = [pc EXCEPT ![g] =
                       IF r.be # back[g] /\ r.be \in S3Backends THEN "job"
                                                                ELSE "prune"]
                  /\ errs' = [errs EXCEPT ![g] = IF r.be # back[g] THEN 0 ELSE @]
             ELSE /\ back' = [back EXCEPT ![g] = None]
                  /\ UNCHANGED <<pc, errs>>
  BY DEF NextRow
<1>1. UNCHANGED <<journal, objects>>
  BY DEF NextRow, db, store
<1>2. r \in Entry /\ pc[g] = "row" /\ g # Partman
  BY DEF NextRow, IInv, TypeOK
<1>3. TypeOK'
  <2>1. todo' \in [Procs -> SUBSET Entry]
    BY <1>0 DEF IInv, TypeOK
  <2>2. errs' \in [Procs -> 0..(ErrThreshold + 1)]
    <3>1. 0 \in 0..(ErrThreshold + 1)
      OBVIOUS
    <3>2. QED
      BY <3>1, <1>0 DEF IInv, TypeOK
  <2>3. r \in [id : Ids \cup {NoId}, be : Backends \cup {None},
               ref : Prefixes \cup {None}, after : After]
    BY <1>2 DEF Entry
  <2>4. back' \in [Procs -> Backends \cup {None}]
    BY <1>0, <1>2 DEF IInv, TypeOK, Entry
  <2>5. pc' \in [Procs -> {"idle", "row", "job", "insert", "prune", "wait", "drop"}]
    BY <1>0, <1>2 DEF IInv, TypeOK
  <2>6. QED
    BY <1>0, <2>1, <2>2, <2>3, <2>4, <2>5 DEF NextRow, IInv, TypeOK, db, store
<1>4. HandInv'
  <2>1. SafeTarget(Target(r))
    BY DEF IInv, HandInv
  <2>2. \A p \in Procs : \A q \in todo'[p] : q \in todo[p]
    BY <1>0 DEF IInv, TypeOK
  <2>3. r.be \in Backends /\ r.ref \in Prefixes
    BY <1>2 DEF Entry
  <2>4. QED
    BY <1>0, <1>1, <1>2, <2>1, <2>2, <2>3, StableUnchanged
       DEF IInv, TypeOK, HandInv, InHand
<1>5. RuleInv'
  <2>1. CASE job[g] = None
    BY <2>1, <1>0, <1>1, <1>2, StableUnchanged
       DEF NextRow, IInv, TypeOK, RuleInv, store
  <2>2. CASE job[g] # None
    <3>1. MoreOf(g) /\ r.be = back[g] /\ back[g] \in Configured
      BY <2>2, <1>0 DEF NextRow, IInv, RuleInv
    <3>2. \A p \in Procs : back'[p] = back[p]
      BY <3>1, <1>0 DEF IInv, TypeOK
    <3>3. pc' = [pc EXCEPT ![g] = "prune"]
      BY <3>1, <1>0 DEF IInv, TypeOK
    <3>4. QED
      BY <3>2, <3>3, <1>1, <1>2, StableUnchanged
         DEF NextRow, IInv, TypeOK, RuleInv, store
  <2>3. QED
    BY <2>1, <2>2
<1>6. JobInv'
  <2>1. \A p \in Procs \ {g} : /\ pc'[p] = pc[p] /\ back'[p] = back[p]
                               /\ todo'[p] = todo[p] /\ job'[p] = job[p]
    BY <1>0 DEF NextRow, IInv, TypeOK
  <2>2. job'[g] = job[g]
    BY DEF NextRow
  <2>3. CASE r.be \in Configured
    <3>1. CASE r.be # back[g]
      BY <3>1, <2>1, <2>2, <2>3, <1>0
         DEF IInv, TypeOK, JobInv, MoreOf
    <3>2. CASE r.be = back[g]
      <4>1. MoreOf(g)
        BY <3>2 DEF MoreOf
      <4>2. back[g] \in S3Backends => job[g] # None
        BY <4>1, <1>2 DEF IInv, JobInv
      <4>3. QED
        BY <3>2, <4>2, <2>1, <2>2, <2>3, <1>0
           DEF IInv, TypeOK, JobInv, MoreOf
    <3>3. QED
      BY <3>1, <3>2
  <2>4. CASE r.be \notin Configured
    BY <2>1, <2>4, <1>0, RefJournalAssumption DEF IInv, TypeOK, JobInv, MoreOf
  <2>5. QED
    BY <2>3, <2>4
<1>7. IdInv'
  <2>1. /\ \A p \in Procs : todo'[p] \subseteq todo[p]
        /\ \A p \in Procs : cur'[p] = cur[p] \/ cur'[p] \in todo[g]
    BY <1>0 DEF IInv, TypeOK
  <2>2. QED
    BY <2>1, SameIds DEF NextRow, IInv, IdInv, db
<1>8. QED
  BY <1>3, <1>4, <1>5, <1>6, <1>7 DEF IInv

LEMMA NewPruneJobInv == ASSUME IInv, NEW p \in Procs, NewPruneJob(p) PROVE IInv'
<1> USE ConstFacts
<1>1. UNCHANGED <<journal, objects>>
  BY DEF NewPruneJob, db, store
<1>2. pc[p] = "job" /\ cur[p].be = back[p] /\ back[p] \in Backends
  BY DEF NewPruneJob, IInv, HandInv
<1>3. CASE /\ job' = [job EXCEPT ![p] = [cfg |-> rules[back[p]],
                                        adds |-> {}, dels |-> {}]]
           /\ pc' = [pc EXCEPT ![p] = IF p = Partman THEN "insert" ELSE "prune"]
           /\ UNCHANGED <<todo, faults>>
  <2>1. [cfg |-> rules[back[p]], adds |-> {}, dels |-> {}] \in RuleJob
    BY <1>2 DEF IInv, TypeOK, RuleJob
  <2>2. TypeOK'
    BY <1>3, <2>1 DEF NewPruneJob, IInv, TypeOK, db, store
  <2>3. HandInv'
    BY <1>1, <1>3, StableUnchanged
       DEF NewPruneJob, IInv, TypeOK, HandInv, InHand, db, store
  <2>4. RuleInv'
    BY <1>1, <1>2, <1>3, <2>1, StableUnchanged
       DEF NewPruneJob, IInv, TypeOK, RuleInv, db, store
  <2>5. JobInv'
    BY <1>3, <2>1 DEF NewPruneJob, IInv, TypeOK, JobInv, MoreOf
  <2>6. IdInv'
    BY <1>3, SameIds DEF NewPruneJob, IInv, IdInv, db
  <2>7. QED
    BY <2>2, <2>3, <2>4, <2>5, <2>6 DEF IInv
<1>4. CASE /\ Fault("read")
           /\ todo' = [todo EXCEPT ![p] = {r \in @ : r.be # back[p]}]
           /\ pc' = [pc EXCEPT ![p] = "row"]
           /\ UNCHANGED job
  <2>0. \A q \in Procs : todo'[q] \subseteq todo[q]
    BY <1>4 DEF IInv, TypeOK
  <2>1. TypeOK'
    <3>1. todo' \in [Procs -> SUBSET Entry]
      BY <1>4 DEF IInv, TypeOK
    <3>2. QED
      BY <1>4, <3>1, FaultType DEF NewPruneJob, IInv, TypeOK, db, store
  <2>2. HandInv'
    BY <1>1, <1>4, <2>0, StableUnchanged
       DEF NewPruneJob, IInv, TypeOK, HandInv, InHand, db, store
  <2>3. RuleInv'
    BY <1>1, <1>4, StableUnchanged
       DEF NewPruneJob, IInv, TypeOK, RuleInv, db, store
  <2>4. JobInv'
    BY <1>4 DEF NewPruneJob, IInv, TypeOK, JobInv, MoreOf
  <2>5. IdInv'
    BY <2>0, SameIds DEF NewPruneJob, IInv, IdInv, db
  <2>6. QED
    BY <2>1, <2>2, <2>3, <2>4, <2>5 DEF IInv
<1>5. QED
  BY <1>3, <1>4 DEF NewPruneJob

\* AddDelete with a new row: every id in use is smaller than the new one.
LEMMA InsertInv ==
    ASSUME IInv, NEW new \in Entry, new.id = nextId,
           pc[Partman] = "insert", new.be = back[Partman],
           journal' = journal \cup {new}, nextId' = nextId + 1,
           cur' = [cur EXCEPT ![Partman] = new],
           pc' = [pc EXCEPT ![Partman] = "prune"],
           UNCHANGED <<store, todo, back, job, errs, prunes, faults>>
    PROVE  IInv'
<1> USE ConstFacts
<1>1. new.be \in Backends /\ new.ref \in Prefixes /\ new.id \in Nat
  BY DEF Entry
<1>2. \A t : t \in pending => t \in pending'
  BY DEF pending
<1>3. \A t : SafeTarget(t) => SafeTarget(t)'
  BY <1>2, Stable DEF store
<1>4. SafeTarget(Target(new))'
  BY DEF SafeTarget, pending, Target
<1>5. TypeOK'
  <2>1. new \in [id : Ids \cup {NoId}, be : Backends \cup {None},
                 ref : Prefixes \cup {None}, after : After]
    BY DEF Entry
  <2>2. nextId' \in Nat \ {0}
    BY DEF IInv, TypeOK
  <2>3. journal' \subseteq Entry
    BY DEF IInv, TypeOK
  <2>4. QED
    BY <2>1, <2>2, <2>3 DEF IInv, TypeOK, store
<1>6. \A p \in Procs \ {Partman} : cur'[p] = cur[p] /\ pc'[p] = pc[p]
  BY DEF IInv, TypeOK
<1>7. cur'[Partman] = new /\ pc'[Partman] = "prune"
  BY DEF IInv, TypeOK
<1>8. \A t : Under(t)' = Under(t)
  BY DEF Under, store
<1>9. HandInv'
  <2>1. \A p \in Procs \ {Partman} :
          /\ pc'[p] \notin {"idle", "row"} =>
               /\ cur'[p].be = back'[p]
               /\ cur'[p].be \in Backends /\ cur'[p].ref \in Prefixes
          /\ InHand(p)' => SafeTarget(Target(cur[p]))'
          /\ pc'[p] = "drop" => Under(Target(cur[p]))' = {}
          /\ \A r \in todo'[p] : SafeTarget(Target(r))'
    BY <1>3, <1>6, <1>8 DEF IInv, HandInv, InHand, Target
  <2>2. SafeTarget(Target(cur[Partman]))'
    BY <1>4, <1>7 DEF Target
  <2>3. \A r \in todo'[Partman] : SafeTarget(Target(r))'
    BY <1>3 DEF IInv, HandInv, Target
  <2>4. QED
    BY <1>1, <1>7, <2>1, <2>2, <2>3 DEF HandInv, Target
<1>10. RuleInv'
  BY <1>3 DEF IInv, TypeOK, RuleInv, store
<1>11. JobInv'
  BY DEF IInv, TypeOK, JobInv, MoreOf
<1>12. IdInv'
  <2>1. nextId \in Nat
    BY DEF IInv, TypeOK
  <2>2. \A q : SameTarget(q) /\ q.id \in Nat => SameTarget(q)'
    <3> SUFFICES ASSUME NEW q, SameTarget(q), q.id \in Nat
                 PROVE  SameTarget(q)'
      OBVIOUS
    <3>1. q.id < nextId /\ q.id # new.id /\ q.id < nextId'
      BY <2>1 DEF SameTarget
    <3>2. QED
      BY <3>1 DEF SameTarget, Target
  <2>3. \A q \in journal : q.id \in Nat
    BY DEF IInv, TypeOK, Entry
  <2>4. \A p \in Procs : cur[p].id \in Nat /\ todo[p] \subseteq Entry
    <3>1. \A p \in Procs : cur[p].id \in Ids \cup {NoId} /\ todo[p] \subseteq Entry
      BY DEF IInv, TypeOK
    <3>2. Ids \cup {NoId} \subseteq Nat
      BY DEF NoId
    <3>3. QED
      BY <3>1, <3>2
  <2>5. \A p \in Procs : \A q \in todo[p] : q.id \in Nat
    BY <2>4 DEF Entry
  <2>6. SameTarget(new)'
    <3>1. \A e \in journal : e.id # nextId
      BY <2>1, <2>3 DEF IInv, IdInv, SameTarget
    <3>2. \A e \in journal' : e.id = new.id => e = new
      BY <3>1
    <3>3. new.id < nextId'
      BY <2>1
    <3>4. QED
      BY <3>2, <3>3 DEF SameTarget, Target
  <2>7. \A q \in journal : SameTarget(q)'
    BY <2>2, <2>3 DEF IInv, IdInv
  <2>8. \A p \in Procs : SameTarget(cur[p])'
    BY <1>6, <1>7, <2>2, <2>4, <2>6 DEF IInv, IdInv, SameTarget, Target
  <2>9. \A p \in Procs : \A q \in todo'[p] : SameTarget(q)'
    BY <2>2, <2>5 DEF IInv, IdInv
  <2>10. \A q \in journal' : SameTarget(q)'
    BY <2>6, <2>7
  <2>11. QED
    BY <2>8, <2>9, <2>10 DEF IdInv
<1>13. QED
  BY <1>5, <1>9, <1>10, <1>11, <1>12 DEF IInv

LEMMA AddDeleteInv == ASSUME IInv, AddDelete PROVE IInv'
<1> USE ConstFacts
<1> DEFINE r == cur[Partman]
<1>1. /\ pc[Partman] = "insert" /\ UNCHANGED objects
      /\ r.be = back[Partman] /\ r.be \in Backends /\ r.ref \in Prefixes
      /\ r \in [id : Ids \cup {NoId}, be : Backends \cup {None},
                ref : Prefixes \cup {None}, after : After]
  BY DEF AddDelete, IInv, TypeOK, HandInv, store
<1>2. CASE /\ nextId \in Ids
           /\ journal' = journal \cup {[r EXCEPT !.id = nextId]}
           /\ nextId' = nextId + 1
           /\ cur' = [cur EXCEPT ![Partman].id = nextId]
           /\ pc' = [pc EXCEPT ![Partman] = "prune"]
           /\ UNCHANGED faults
  <2>1. [r EXCEPT !.id = nextId] \in Entry
    BY <1>1, <1>2 DEF Entry
  <2>2. /\ [r EXCEPT !.id = nextId].id = nextId
        /\ [r EXCEPT !.id = nextId].be = r.be
    BY <1>1
  <2>3. cur' = [cur EXCEPT ![Partman] = [r EXCEPT !.id = nextId]]
    BY <1>2
  <2>4. QED
    BY <1>1, <1>2, <2>1, <2>2, <2>3, InsertInv DEF AddDelete
<1>3. CASE /\ \E e \in journal : Target(e) = Target(r)
           /\ pc' = [pc EXCEPT ![Partman] = "prune"]
           /\ UNCHANGED <<db, cur, faults>>
  <2>1. SafeTarget(Target(r))
    BY <1>3 DEF SafeTarget, pending
  <2>2. TypeOK'
    BY <1>3 DEF AddDelete, IInv, TypeOK, db, store
  <2>3. HandInv'
    BY <1>1, <1>3, <2>1, StableUnchanged
       DEF AddDelete, IInv, TypeOK, HandInv, InHand, db
  <2>4. RuleInv'
    BY <1>1, <1>3, StableUnchanged
       DEF AddDelete, IInv, TypeOK, RuleInv, db, store
  <2>5. JobInv'
    BY <1>1, <1>3 DEF AddDelete, IInv, TypeOK, JobInv, MoreOf
  <2>6. IdInv'
    BY <1>3, SameIds DEF AddDelete, IInv, IdInv, db
  <2>7. QED
    BY <2>2, <2>3, <2>4, <2>5, <2>6 DEF IInv
<1>4. CASE /\ Fault("insert")
           /\ pc' = [pc EXCEPT ![Partman] = "row"]
           /\ UNCHANGED <<db, cur>>
  <2>2. TypeOK'
    BY <1>4, FaultType DEF AddDelete, IInv, TypeOK, db, store
  <2>3. HandInv'
    BY <1>1, <1>4, StableUnchanged
       DEF AddDelete, IInv, TypeOK, HandInv, InHand, db
  <2>4. RuleInv'
    BY <1>1, <1>4, StableUnchanged
       DEF AddDelete, IInv, TypeOK, RuleInv, db, store
  <2>5. JobInv'
    BY <1>1, <1>4 DEF AddDelete, IInv, TypeOK, JobInv, MoreOf
  <2>6. IdInv'
    BY <1>4, SameIds DEF AddDelete, IInv, IdInv, db
  <2>7. QED
    BY <2>2, <2>3, <2>4, <2>5, <2>6 DEF IInv
<1>5. QED
  BY <1>2, <1>3, <1>4 DEF AddDelete

-----------------------------------------------------------------------------
(* Prune.                                                                  *)

\* A failed Prune: the goroutine goes on to the next row.
LEMMA PruneFailedInv ==
    ASSUME IInv, NEW p \in Procs, pc[p] = "prune", PruneFailed(p),
           objects' \subseteq objects,
           faults' \in 0..MaxFaults,
           UNCHANGED <<db, rules, cur, back, job, prunes>>
    PROVE  IInv'
<1> USE ConstFacts
<1>1. \A t : SafeTarget(t) => SafeTarget(t)'
  <2>1. pending' = pending
    BY DEF pending, db
  <2>2. QED
    BY <2>1, Stable
<1>2. \A q \in Procs : todo'[q] \subseteq todo[q]
  BY DEF PruneFailed, IInv, TypeOK
<1>3. TypeOK'
  <2>1. errs' \in [Procs -> 0..(ErrThreshold + 1)]
    <3>1. \A n \in 0..(ErrThreshold + 1) :
            n <= ErrThreshold => n + 1 \in 0..(ErrThreshold + 1)
      OBVIOUS
    <3>2. QED
      BY <3>1 DEF PruneFailed, IInv, TypeOK
  <2>2. todo' \in [Procs -> SUBSET Entry]
    BY DEF PruneFailed, IInv, TypeOK
  <2>3. QED
    BY <2>1, <2>2 DEF PruneFailed, IInv, TypeOK, db
<1>4. HandInv'
  <2>1. \A q \in Procs \ {p} : pc'[q] = pc[q]
    BY DEF PruneFailed, IInv, TypeOK
  <2>2. pc'[p] = "row"
    BY DEF PruneFailed, IInv, TypeOK
  <2>3. \A t : Under(t)' \subseteq Under(t)
    BY DEF Under
  <2>4. QED
    BY <1>1, <1>2, <2>1, <2>2, <2>3 DEF IInv, HandInv, InHand, Target
<1>5. RuleInv'
  BY <1>1 DEF PruneFailed, IInv, TypeOK, RuleInv
<1>6. JobInv'
  BY <1>2 DEF PruneFailed, IInv, TypeOK, JobInv, MoreOf
<1>7. IdInv'
  BY <1>2, SameIds DEF IInv, IdInv, db
<1>8. QED
  BY <1>3, <1>4, <1>5, <1>6, <1>7 DEF IInv

\* A Prune of an s3 backend that queues something in its job.
LEMMA QueuedInv ==
    ASSUME IInv, NEW p \in Procs, pc[p] = "prune", NEW j \in RuleJob,
           NEW next \in {"wait", "drop"},
           job' = [job EXCEPT ![p] = j], pc' = [pc EXCEPT ![p] = next],
           back[p] # None,
           \A x \in j.cfg \cup j.adds : SafeTarget(<<back[p], x>>),
           next = "drop" => Under(Target(cur[p])) = {},
           UNCHANGED <<db, store, cur, back, todo, errs, prunes, faults>>
    PROVE  IInv'
<1> USE ConstFacts
<1>1. UNCHANGED <<journal, objects>>
  BY DEF db, store
<1>2. TypeOK'
  BY DEF IInv, TypeOK, db, store
<1>3. HandInv'
  BY <1>1, StableUnchanged DEF IInv, TypeOK, HandInv, InHand, Target
<1>4. RuleInv'
  BY <1>1, StableUnchanged DEF IInv, TypeOK, RuleInv, store
<1>5. JobInv'
  BY DEF IInv, TypeOK, JobInv, MoreOf
<1>6. IdInv'
  BY <1>1, SameIds DEF IInv, IdInv, db
<1>7. QED
  BY <1>2, <1>3, <1>4, <1>5, <1>6 DEF IInv

LEMMA PruneInv == ASSUME IInv, NEW p \in Procs, Prune(p) PROVE IInv'
<1> USE ConstFacts
<1>1. /\ pc[p] = "prune" /\ UNCHANGED <<db, rules, cur, back, prunes>>
      /\ cur[p].be = back[p] /\ back[p] \in Backends
      /\ cur[p].ref \in Prefixes /\ back[p] # None
      /\ SafeTarget(Target(cur[p]))
  BY DEF Prune, IInv, HandInv, InHand
<1>2. CASE back[p] \in S3Backends
  <2>0. job[p] \in RuleJob /\ job[p] # None
    BY <1>1, <1>2 DEF IInv, JobInv, TypeOK
  <2>01. \A x \in job[p].cfg \cup job[p].adds : SafeTarget(<<back[p], x>>)
    BY <2>0 DEF IInv, RuleInv
  <2>1. CASE AddRmRule(p)
    <3> DEFINE j == [job[p] EXCEPT !.adds = @ \cup {cur[p].ref}]
    <3>1. j \in RuleJob /\ j.cfg = job[p].cfg
          /\ j.adds = job[p].adds \cup {cur[p].ref}
      BY <1>1, <2>0 DEF RuleJob
    <3>2. \A x \in j.cfg \cup j.adds : SafeTarget(<<back[p], x>>)
      BY <1>1, <2>01, <3>1 DEF Target
    <3>3. job' = [job EXCEPT ![p] = j] /\ pc' = [pc EXCEPT ![p] = "wait"]
      BY <2>1 DEF AddRmRule
    <3>4. UNCHANGED <<store, todo, errs, faults>>
      BY <1>1, <2>1 DEF AddRmRule, store
    <3> HIDE DEF j
    <3>5. QED
      BY <1>1, <3>1, <3>2, <3>3, <3>4, QueuedInv
  <2>2. CASE RuleAlreadyExists(p)
    <3>1. faults' \in 0..MaxFaults
      BY <2>2 DEF RuleAlreadyExists, IInv, TypeOK
    <3>2. QED
      BY <1>1, <2>2, <3>1, PruneFailedInv DEF RuleAlreadyExists
  <2>3. CASE PrefixExists(p)
    <3>1. CASE /\ pc' = [pc EXCEPT ![p] = "wait"]
               /\ UNCHANGED <<job, todo, errs, faults>>
      <4>1. job' = [job EXCEPT ![p] = job[p]]
        BY <3>1 DEF IInv, TypeOK
      <4>2. UNCHANGED store
        BY <1>1, <2>3 DEF PrefixExists, store
      <4>3. QED
        BY <1>1, <2>0, <2>01, <3>1, <4>1, <4>2, QueuedInv
    <3>2. CASE /\ Under(Target(cur[p])) = {}
               /\ job' = [job EXCEPT ![p].dels = @ \cup {cur[p].ref}]
               /\ pc' = [pc EXCEPT ![p] = "drop"]
               /\ UNCHANGED <<todo, errs, faults>>
      <4> DEFINE j == [job[p] EXCEPT !.dels = @ \cup {cur[p].ref}]
      <4>1. j \in RuleJob /\ j.cfg = job[p].cfg /\ j.adds = job[p].adds
        BY <1>1, <2>0 DEF RuleJob
      <4>2. job' = [job EXCEPT ![p] = j]
        BY <3>2
      <4>3. UNCHANGED store
        BY <1>1, <2>3 DEF PrefixExists, store
      <4> HIDE DEF j
      <4>4. QED
        BY <1>1, <2>01, <3>2, <4>1, <4>2, <4>3, QueuedInv
    <3>3. CASE Fault("prune") /\ PruneFailed(p) /\ UNCHANGED job
      <4>1. faults' \in 0..MaxFaults
        BY <3>3, FaultType DEF IInv
      <4>2. QED
        BY <1>1, <2>3, <3>3, <4>1, PruneFailedInv DEF PrefixExists
    <3>4. QED
      BY <2>3, <3>1, <3>2, <3>3 DEF PrefixExists
  <2>4. QED
    BY <1>2, <2>1, <2>2, <2>3 DEF Prune
<1>3. CASE back[p] \notin S3Backends
  <2>1. CASE /\ objects' = objects \ Under(Target(cur[p]))
             /\ pc' = [pc EXCEPT ![p] = "drop"]
             /\ UNCHANGED <<todo, errs, faults, job>>
    <3>1. \A t : SafeTarget(t) => SafeTarget(t)'
      <4>1. pending' = pending
        BY <1>1 DEF pending, db
      <4>2. QED
        BY <2>1, <4>1, Stable
    <3>2. \A t : Under(t)' \subseteq Under(t)
      BY <2>1 DEF Under
    <3>3. Under(Target(cur[p]))' = {}
      BY <1>1, <2>1 DEF Under, Target
    <3>4. TypeOK'
      BY <1>1, <2>1 DEF IInv, TypeOK, db
    <3>5. HandInv'
      <4>1. \A q \in Procs \ {p} : pc'[q] = pc[q]
        BY <2>1 DEF IInv, TypeOK
      <4>2. QED
        BY <1>1, <2>1, <3>1, <3>2, <3>3, <4>1
           DEF IInv, TypeOK, HandInv, InHand, Target
    <3>6. RuleInv'
      BY <1>1, <2>1, <3>1 DEF IInv, TypeOK, RuleInv
    <3>7. JobInv'
      BY <1>1, <1>3, <2>1 DEF IInv, TypeOK, JobInv, MoreOf
    <3>8. IdInv'
      BY <1>1, <2>1, SameIds DEF IInv, IdInv, db
    <3>9. QED
      BY <3>4, <3>5, <3>6, <3>7, <3>8 DEF IInv
  <2>2. CASE /\ Fault("prune") /\ PruneFailed(p) /\ UNCHANGED job
             /\ \E S \in SUBSET Under(Target(cur[p])) : objects' = objects \ S
    <3>1. faults' \in 0..MaxFaults
      BY <2>2, FaultType DEF IInv
    <3>2. QED
      BY <1>1, <2>2, <3>1, PruneFailedInv
  <2>3. QED
    BY <1>3, <2>1, <2>2 DEF Prune, RemoveAll
<1>4. QED
  BY <1>2, <1>3

-----------------------------------------------------------------------------
(* Note, and the passing of time: rows change or go, targets do not.       *)

\* Rows are rewritten one by one, each keeping its id and its target.
LEMMA RewriteIds ==
    ASSUME IInv, NEW f, journal' = {f[r] : r \in journal}, nextId' = nextId,
           \A r \in journal : f[r].id = r.id /\ Target(f[r]) = Target(r)
    PROVE  /\ \A q : SameTarget(q) => SameTarget(q)'
           /\ \A q \in journal' : SameTarget(q)'
           /\ pending' = pending
<1>1. pending' = pending
  BY DEF pending
<1>2. \A q : SameTarget(q) => SameTarget(q)'
  BY DEF SameTarget, Target
<1>3. \A q \in journal : SameTarget(f[q])
  <2> SUFFICES ASSUME NEW q \in journal PROVE SameTarget(f[q])
    OBVIOUS
  <2>1. SameTarget(q)
    BY DEF IInv, IdInv
  <2>2. f[q].id = q.id /\ Target(f[q]) = Target(q)
    OBVIOUS
  <2>3. QED
    BY <2>1, <2>2 DEF SameTarget
<1>4. QED
  BY <1>1, <1>2, <1>3

\* What the steps of Note share once the journal is accounted for.
LEMMA NotedInv ==
    ASSUME IInv, NEW p \in Procs, pc[p] \in {"wait", "drop"},
           journal' \subseteq Entry, faults' \in 0..MaxFaults,
           \A t : SafeTarget(t) => SafeTarget(t)', IdInv',
           pc' = [pc EXCEPT ![p] = "row"],
           UNCHANGED <<nextId, store, todo, cur, back, job, errs, prunes>>
    PROVE  IInv'
<1>1. TypeOK'
  BY DEF IInv, TypeOK, store
<1>2. HandInv'
  <2>1. \A q \in Procs \ {p} : pc'[q] = pc[q]
    BY DEF IInv, TypeOK
  <2>2. pc'[p] = "row"
    BY DEF IInv, TypeOK
  <2>3. \A t : Under(t)' = Under(t)
    BY DEF Under, store
  <2>4. QED
    BY <2>1, <2>2, <2>3 DEF IInv, HandInv, InHand, Target
<1>3. RuleInv'
  BY DEF IInv, TypeOK, RuleInv, store
<1>4. JobInv'
  BY DEF IInv, TypeOK, JobInv, MoreOf
<1>5. QED
  BY <1>1, <1>2, <1>3, <1>4 DEF IInv

LEMMA NoteInv == ASSUME IInv, NEW p \in Procs, Note(p) PROVE IInv'
<1> USE ConstFacts
<1>1. /\ pc[p] \in {"wait", "drop"} /\ pc' = [pc EXCEPT ![p] = "row"]
      /\ UNCHANGED <<nextId, store, todo, cur, back, job, errs, prunes>>
      /\ UNCHANGED objects
  BY DEF Note, store
<1>2. journal \subseteq Entry /\ faults \in 0..MaxFaults
  BY DEF IInv, TypeOK
<1>3. CASE pc[p] = "wait" /\ UpdatePruneAfter(cur[p].id) /\ UNCHANGED faults
  <2> DEFINE f == [r \in journal |->
                     IF r.id = cur[p].id THEN [r EXCEPT !.after = "wait"] ELSE r]
  <2>1. \A r \in journal : /\ f[r] \in Entry /\ f[r].id = r.id
                           /\ Target(f[r]) = Target(r)
    BY <1>2 DEF Entry, After, Target
  <2>2. journal' = {f[r] : r \in journal}
    BY <1>3 DEF UpdatePruneAfter
  <2> HIDE DEF f
  <2>3. /\ \A q : SameTarget(q) => SameTarget(q)'
        /\ \A q \in journal' : SameTarget(q)'
        /\ pending' = pending
    BY <1>1, <2>1, <2>2, RewriteIds
  <2>4. \A t : SafeTarget(t) => SafeTarget(t)'
    BY <1>1, <2>3, Stable
  <2>5. IdInv'
    BY <1>1, <2>3 DEF IInv, IdInv, SameTarget, Target
  <2>6. journal' \subseteq Entry
    BY <2>1, <2>2
  <2>7. QED
    BY <1>1, <1>2, <1>3, <2>4, <2>5, <2>6, NotedInv
<1>4. CASE pc[p] = "drop" /\ Drop(cur[p].id) /\ UNCHANGED faults
  <2>1. journal' \subseteq journal
    BY <1>4 DEF Drop
  <2>2. Under(Target(cur[p])) = {}
    BY <1>4 DEF IInv, HandInv
  <2>3. \A r \in journal : r \in journal' \/ Target(r) = Target(cur[p])
    BY <1>4 DEF Drop, IInv, IdInv, SameTarget
  <2>4. \A t : t \in pending => t \in pending' \/ Under(t) = {}
    BY <2>2, <2>3 DEF pending, Target
  <2>5. \A t : SafeTarget(t) => SafeTarget(t)'
    BY <1>1, <2>4, Stable
  <2>6. IdInv'
    BY <1>1, <2>1, SameIds DEF IInv, IdInv, SameTarget, Target
  <2>7. QED
    BY <1>1, <1>2, <1>4, <2>1, <2>5, <2>6, NotedInv
<1>5. CASE Fault("note") /\ UNCHANGED journal
  <2>1. faults' \in 0..MaxFaults
    BY <1>5, FaultType DEF IInv
  <2>2. \A t : SafeTarget(t) => SafeTarget(t)'
    BY <1>1, <1>5, StableUnchanged
  <2>3. IdInv'
    BY <1>1, <1>5, SameIds DEF IInv, IdInv, SameTarget, Target
  <2>4. QED
    BY <1>1, <1>2, <1>5, <2>1, <2>2, <2>3, NotedInv
<1>6. QED
  BY <1>3, <1>4, <1>5 DEF Note

LEMMA ElapseInv == ASSUME IInv, NEW r \in journal, Elapse(r) PROVE IInv'
<1>1. PICK a \in After : journal' = (journal \ {r}) \cup {[r EXCEPT !.after = a]}
  BY DEF Elapse
<1>2. journal \subseteq Entry /\ r \in Entry
  BY DEF IInv, TypeOK
<1> DEFINE f == [q \in journal |-> IF q = r THEN [r EXCEPT !.after = a] ELSE q]
<1>3. \A q \in journal : /\ f[q] \in Entry /\ f[q].id = q.id
                         /\ Target(f[q]) = Target(q)
  BY <1>2 DEF Entry, Target
<1>4. journal' = {f[q] : q \in journal}
  <2>1. \A q \in journal' : q \in {f[e] : e \in journal}
    BY <1>1
  <2>2. \A q \in journal : f[q] \in journal'
    BY <1>1
  <2>3. QED
    BY <2>1, <2>2
<1> HIDE DEF f
<1>5. UNCHANGED <<nextId, store, mem, prunes, faults>> /\ UNCHANGED objects
  BY DEF Elapse, store
<1>6. /\ \A q : SameTarget(q) => SameTarget(q)'
      /\ \A q \in journal' : SameTarget(q)'
      /\ pending' = pending
  BY <1>3, <1>4, <1>5, RewriteIds
<1>7. \A t : SafeTarget(t) => SafeTarget(t)'
  BY <1>5, <1>6, Stable
<1>8. TypeOK'
  BY <1>3, <1>4, <1>5 DEF IInv, TypeOK, store, mem
<1>9. HandInv'
  BY <1>5, <1>7 DEF IInv, HandInv, InHand, Target, Under, mem
<1>10. RuleInv' /\ JobInv'
  BY <1>5, <1>7 DEF IInv, RuleInv, JobInv, MoreOf, mem, store
<1>11. IdInv'
  BY <1>5, <1>6 DEF IInv, IdInv, SameTarget, Target, mem
<1>12. QED
  BY <1>8, <1>9, <1>10, <1>11 DEF IInv

-----------------------------------------------------------------------------
(* The remaining actions.                                                  *)

LEMMA CommitInv == ASSUME IInv, NEW p \in Procs, Commit(p) PROVE IInv'
<1> USE ConstFacts
<1>1. /\ UNCHANGED <<journal, objects>> /\ pc[p] = "row" /\ job[p] # None
      /\ ~MoreOf(p) /\ job' = [job EXCEPT ![p] = None]
      /\ UNCHANGED <<db, objects, pc, todo, cur, back, errs, prunes>>
  BY DEF Commit, db
<1>2. job[p] \in RuleJob /\ back[p] \in Backends
  BY <1>1 DEF IInv, TypeOK, RuleInv
<1>3. \/ rules' = rules /\ faults' \in 0..MaxFaults
      \/ /\ rules' = [rules EXCEPT ![back[p]] =
                         (job[p].cfg \ job[p].dels) \cup job[p].adds]
         /\ faults' \in 0..MaxFaults
  BY FaultType DEF Commit, IInv, TypeOK
<1>4. TypeOK'
  BY <1>1, <1>2, <1>3 DEF IInv, TypeOK, RuleJob, db
<1>5. HandInv'
  BY <1>1, StableUnchanged DEF IInv, HandInv, InHand, Target
<1>6. RuleInv'
  <2>1. \A x \in job[p].cfg \cup job[p].adds : SafeTarget(<<back[p], x>>)
    BY <1>1 DEF IInv, RuleInv
  <2>2. \A b \in Backends : \A x \in rules'[b] : SafeTarget(<<b, x>>)
    <3>1. SUFFICES ASSUME NEW b \in Backends, NEW x \in rules'[b]
                   PROVE  SafeTarget(<<b, x>>)
      OBVIOUS
    <3>2. CASE rules'[b] = rules[b]
      BY <3>1, <3>2 DEF IInv, RuleInv
    <3>3. CASE rules'[b] # rules[b]
      <4>1. rules \in [Backends -> SUBSET Prefixes]
        BY DEF IInv, TypeOK
      <4>2. b = back[p] /\ x \in job[p].cfg \cup job[p].adds
        BY <1>3, <3>1, <3>3, <4>1
      <4>3. QED
        BY <2>1, <4>2
    <3>4. QED
      BY <3>2, <3>3
  <2>3. QED
    BY <1>1, <2>2, StableUnchanged DEF IInv, TypeOK, RuleInv
<1>7. JobInv'
  BY <1>1 DEF IInv, TypeOK, JobInv, MoreOf
<1>8. IdInv'
  BY <1>1, SameIds DEF IInv, IdInv, SameTarget, Target, db
<1>9. QED
  BY <1>4, <1>5, <1>6, <1>7, <1>8 DEF IInv

LEMMA EndInv == ASSUME IInv, NEW p \in Procs, End(p) PROVE IInv'
<1> USE ConstFacts
<1>1. UNCHANGED <<journal, objects>>
  BY DEF End, db, store
<1>2. TypeOK'
  <2>1. NoRow \in [id : Ids \cup {NoId}, be : Backends \cup {None},
                   ref : Prefixes \cup {None}, after : After]
    BY DEF NoRow, After
  <2>2. QED
    BY <2>1 DEF End, IInv, TypeOK, db, store
<1>3. HandInv'
  <2>1. \A q \in Procs \ {p} : cur'[q] = cur[q] /\ pc'[q] = pc[q] /\ back'[q] = back[q]
    BY DEF End, IInv, TypeOK
  <2>2. pc'[p] = "idle" /\ todo'[p] = {}
    BY DEF End, IInv, TypeOK
  <2>3. QED
    BY <1>1, <2>1, <2>2, StableUnchanged
       DEF End, IInv, HandInv, InHand, Target
<1>4. RuleInv'
  BY <1>1, StableUnchanged DEF End, IInv, TypeOK, RuleInv, store
<1>5. JobInv'
  BY RefJournalAssumption DEF End, IInv, TypeOK, JobInv, MoreOf
<1>6. IdInv'
  <2>1. \A q \in Procs : cur'[q] = cur[q] \/ cur'[q].id = 0
    BY DEF End, IInv, TypeOK, NoRow, NoId
  <2>2. QED
    BY <2>1, SameIds DEF End, IInv, IdInv, SameTarget, Target, db
<1>7. QED
  BY <1>2, <1>3, <1>4, <1>5, <1>6 DEF IInv

LEMMA ExpireInv == ASSUME IInv, NEW o \in Objects, Expire(o) PROVE IInv'
<1>1. objects' \subseteq objects /\ UNCHANGED <<db, rules, mem, prunes, faults>>
  BY DEF Expire
<1>2. \A t : SafeTarget(t) => SafeTarget(t)'
  <2>1. pending' = pending
    BY <1>1 DEF pending, db
  <2>2. QED
    BY <1>1, <2>1, Stable
<1>3. \A t : Under(t)' \subseteq Under(t)
  BY <1>1 DEF Under
<1>4. TypeOK'
  BY <1>1 DEF IInv, TypeOK, db, mem
<1>5. HandInv'
  BY <1>1, <1>2, <1>3 DEF IInv, HandInv, InHand, Target, mem
<1>6. RuleInv' /\ JobInv'
  BY <1>1, <1>2 DEF IInv, RuleInv, JobInv, MoreOf, mem
<1>7. IdInv'
  BY <1>1, SameIds DEF IInv, IdInv, SameTarget, Target, db, mem
<1>8. QED
  BY <1>4, <1>5, <1>6, <1>7 DEF IInv

LEMMA CrashInv == ASSUME IInv, Crash PROVE IInv'
<1> USE ConstFacts
<1>1. UNCHANGED <<journal, objects>>
  BY DEF Crash, db, store
<1>2. TypeOK'
  <2>1. NoRow \in [id : Ids \cup {NoId}, be : Backends \cup {None},
                   ref : Prefixes \cup {None}, after : After]
    BY DEF NoRow, After
  <2>2. 0 \in 0..(ErrThreshold + 1)
    OBVIOUS
  <2>3. faults' \in 0..MaxFaults
    BY FaultType DEF Crash, IInv
  <2>4. QED
    BY <2>1, <2>2, <2>3 DEF Crash, IInv, TypeOK, db, store
<1>3. HandInv'
  BY DEF Crash, HandInv, InHand
<1>4. RuleInv' /\ JobInv'
  BY <1>1, StableUnchanged, RefJournalAssumption
     DEF Crash, IInv, RuleInv, JobInv, store
<1>5. IdInv'
  BY SameIds DEF Crash, IInv, IdInv, SameTarget, Target, db, NoRow, NoId
<1>6. QED
  BY <1>2, <1>3, <1>4, <1>5 DEF IInv

LEMMA NextInv == IInv /\ [Next]_vars => IInv'
<1> SUFFICES ASSUME IInv, [Next]_vars PROVE IInv'
  OBVIOUS
<1>1. CASE UNCHANGED vars
  <2>1. UNCHANGED <<journal, objects, nextId, rules, mem, prunes, faults>>
    BY <1>1 DEF vars, db, store
  <2>2. \A t : SafeTarget(t)' <=> SafeTarget(t)
    BY <2>1 DEF SafeTarget, Under, pending
  <2>3. \A t : Under(t)' = Under(t)
    BY <2>1 DEF Under
  <2>4. TypeOK'
    BY <2>1 DEF IInv, TypeOK, mem
  <2>5. HandInv'
    BY <2>1, <2>2, <2>3 DEF IInv, HandInv, InHand, Target, mem
  <2>6. RuleInv'
    BY <2>1, <2>2 DEF IInv, RuleInv, mem
  <2>7. JobInv'
    BY <2>1 DEF IInv, JobInv, MoreOf, mem
  <2>8. IdInv'
    BY <2>1 DEF IInv, IdInv, SameTarget, Target, mem
  <2>9. QED
    BY <2>4, <2>5, <2>6, <2>7, <2>8 DEF IInv
<1>2. CASE \E p \in Procs : Step(p)
  <2> PICK p \in Procs : Step(p)
    BY <1>2
  <2>1. p # Partman => p \in Collectors
    BY DEF Procs
  <2>2. QED
    BY <2>1, NextRowInv, AddDeleteInv, NewPruneJobInv, PruneInv, NoteInv,
       CommitInv, EndInv DEF Step
<1>3. QED
  BY <1>1, <1>2, CollectInv, PruneBackendRefsInv, ExpireInv, ElapseInv,
     CrashInv DEF Next

-----------------------------------------------------------------------------
(* The theorems.                                                           *)

\* Every variable of the journal, the buckets and the goroutines keeps its
\* type, for any number of collectors, backends, prefixes and failures.
THEOREM TypeCorrect == Spec => []TypeOK
<1>1. IInv => TypeOK
  BY DEF IInv
<1>2. QED
  BY <1>1, InitInv, NextInv, PTL DEF Spec

LEMMA ContractInit == IInv => Contract!Init
BY DEF IInv, TypeOK, Contract!Init, pending, Entry, Target, Targets

\* Objects go only from a target the journal still has.
LEMMA ContractRemove ==
    ASSUME IInv, NEW t, SafeTarget(t), NEW S \in SUBSET Under(t),
           objects' = objects \ S, UNCHANGED journal
    PROVE  [Contract!Next]_(Contract!vars)
<1>1. pending' = pending
  BY DEF pending
<1>2. CASE S = {}
  BY <1>1, <1>2 DEF Contract!vars
<1>3. CASE S # {}
  <2>1. t \in pending /\ S \subseteq objects /\ \A o \in S : TargetOf[o] = t
    BY <1>3 DEF SafeTarget, Under
  <2>2. Contract!Remove(S)
    BY <1>1, <2>1 DEF Contract!Remove
  <2>3. QED
    BY <2>1, <2>2 DEF Contract!Next
<1>4. QED
  BY <1>2, <1>3

LEMMA ContractNext == IInv /\ [Next]_vars => [Contract!Next]_(Contract!vars)
<1> SUFFICES ASSUME IInv, [Next]_vars PROVE [Contract!Next]_(Contract!vars)
  OBVIOUS
<1> USE DEF Contract!vars
<1>1. CASE UNCHANGED <<journal, objects>>
  BY <1>1 DEF pending
<1>2. CASE \E p \in Procs : Prune(p)
  <2> PICK p \in Procs : Prune(p)
    BY <1>2
  <2>1. SafeTarget(Target(cur[p])) /\ UNCHANGED journal
    BY DEF Prune, IInv, HandInv, InHand, db
  <2>2. UNCHANGED objects
        \/ \E S \in SUBSET Under(Target(cur[p])) : objects' = objects \ S
    BY DEF Prune, AddRmRule, RuleAlreadyExists, PrefixExists, RemoveAll
  <2>3. QED
    BY <1>1, <2>1, <2>2, ContractRemove
<1>3. CASE AddDelete
  <2>1. CASE UNCHANGED journal
    BY <1>1, <1>3, <2>1 DEF AddDelete, store
  <2>2. CASE journal' = journal \cup {[cur[Partman] EXCEPT !.id = nextId]}
    <3> DEFINE r == cur[Partman]
    <3>1. /\ r.be \in Backends /\ r.ref \in Prefixes
          /\ r \in [id : Ids \cup {NoId}, be : Backends \cup {None},
                    ref : Prefixes \cup {None}, after : After]
      BY <1>3, ConstFacts DEF AddDelete, IInv, TypeOK, HandInv
    <3>2. Target([r EXCEPT !.id = nextId]) = Target(r)
      BY <3>1 DEF Target
    <3>3. pending' = pending \cup {Target(r)}
      BY <2>2, <3>2 DEF pending
    <3>4. Target(r) \in Targets /\ UNCHANGED objects
      BY <1>3, <3>1 DEF Target, Targets, AddDelete, store
    <3>5. QED
      BY <3>3, <3>4 DEF Contract!Next, Contract!Ask
  <2>3. QED
    BY <1>3, <2>1, <2>2 DEF AddDelete, db
<1>4. CASE \E p \in Procs : Note(p)
  <2> PICK p \in Procs : Note(p)
    BY <1>4
  <2> DEFINE t == Target(cur[p])
  <2>1. UNCHANGED objects
    BY DEF Note, store
  <2>2. CASE UNCHANGED journal
    BY <1>1, <2>1, <2>2
  <2>3. CASE UpdatePruneAfter(cur[p].id)
    <3>1. \A r \in journal : Target([r EXCEPT !.after = "wait"]) = Target(r)
      BY DEF IInv, TypeOK, Entry, Target
    <3>2. pending' = pending
      BY <2>3, <3>1 DEF UpdatePruneAfter, pending
    <3>3. QED
      BY <2>1, <3>2
  <2>4. CASE pc[p] = "drop" /\ Drop(cur[p].id)
    <3>1. Under(t) = {}
      BY <2>4 DEF IInv, HandInv
    <3>2. journal' \subseteq journal
      BY <2>4 DEF Drop
    <3>3. \A r \in journal : r \in journal' \/ Target(r) = t
      BY <2>4 DEF Drop, IInv, IdInv, SameTarget
    <3>4. pending' = pending \/ (t \in pending /\ pending' = pending \ {t})
      BY <3>2, <3>3 DEF pending, Target
    <3>5. pending \subseteq Targets
      BY DEF IInv, TypeOK, Entry, pending, Target, Targets
    <3>6. t \in pending /\ pending' = pending \ {t} => Contract!Forget(t)
      BY <2>1, <3>1 DEF Contract!Forget, Contract!Left, Under
    <3>7. QED
      BY <2>1, <3>4, <3>5, <3>6 DEF Contract!Next
  <2>5. QED
    BY <2>2, <2>3, <2>4 DEF Note
<1>5. CASE \E o \in Objects : Expire(o)
  <2> PICK o \in Objects : Expire(o)
    BY <1>5
  <2>1. TargetOf[o] \in Backends \X Prefixes
    BY RefJournalAssumption DEF Targets
  <2>2. TargetOf[o] = <<TargetOf[o][1], TargetOf[o][2]>> /\ TargetOf[o][1] \in Backends
    BY <2>1
  <2>3. SafeTarget(TargetOf[o])
    BY <2>2 DEF Expire, IInv, RuleInv
  <2>4. {o} \in SUBSET Under(TargetOf[o]) /\ objects' = objects \ {o}
        /\ UNCHANGED journal
    BY DEF Expire, Under, db
  <2>5. QED
    BY <2>3, <2>4, ContractRemove
<1>6. CASE \E r \in journal : Elapse(r)
  <2> PICK r \in journal : Elapse(r)
    BY <1>6
  <2>1. PICK a : journal' = (journal \ {r}) \cup {[r EXCEPT !.after = a]}
    BY DEF Elapse
  <2>2. Target([r EXCEPT !.after = a]) = Target(r)
    BY DEF IInv, TypeOK, Entry, Target
  <2>3. pending' = pending /\ UNCHANGED objects
    BY <2>1, <2>2 DEF pending, Elapse, store
  <2>4. QED
    BY <2>3
<1>7. QED
  BY <1>1, <1>2, <1>3, <1>4, <1>5, <1>6
     DEF Next, Step, vars, Collect, PruneBackendRefs, NextRow, NewPruneJob,
         Commit, End, Crash, db, store

\* The journal implements its contract: with any number of collectors, in
\* any interleaving with the partition manager, and whichever reads, writes
\* and commits fail or are cut off by a restart, objects go only while the
\* journal has their prefix, and the prefix goes only after them.
THEOREM KeepsTheContract == Spec => DeletesKeepTheContract
<1>1. Init => Contract!Init
  BY InitInv, ContractInit
<1>2. QED
  BY <1>1, InitInv, NextInv, ContractNext, PTL
     DEF Spec, Contract!Spec, DeletesKeepTheContract
=============================================================================
