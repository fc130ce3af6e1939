--------------------------- MODULE TGCacheProofs ---------------------------
(***************************************************************************)
(* Proofs about TGCache: type correctness, that the cache disagrees with   *)
(* the tables only where writes overlapped or failed, the same of the      *)
(* names of the systems, and that filters follow the tags.                 *)
(***************************************************************************)
EXTENDS TGCache, TLAPS

-----------------------------------------------------------------------------
(* Type correctness.                                                       *)

\* The parts of TypeOK.
OpsOK == op \in [Ops -> Operations]
LockOK == \A o \in Ops : op[o].pc = "recompile" <=> filtMtx = o
TablesOK == tgs \in Records /\ systems \subseteq Systems
CachesOK == cache \in Records /\ names \in [Systems -> {"none", "name", "blank"}]
FiltersOK ==
    /\ compiled \in [Filters \cup Unheard -> (SUBSET TGs) \cup {None}]
    /\ registered \subseteq Filters /\ using \in Filters \cup {None}
    /\ filtMtx \in Ops \cup {None}
CountsOK == started \in 0..MaxOps /\ faults \in 0..MaxFaults
HistoryOK ==
    /\ suspect \subseteq TGs \cup Systems /\ behind \subseteq Filters \X TGs
    /\ learned \subseteq Systems

LEMMA Parts ==
    TypeOK <=> /\ OpsOK /\ LockOK /\ TablesOK /\ CachesOK
               /\ FiltersOK /\ CountsOK /\ HistoryOK
BY DEF TypeOK, OpsOK, LockOK, TablesOK, CachesOK, FiltersOK, CountsOK, HistoryOK

LEMMA PartsNext ==
    OpsOK' /\ LockOK' /\ TablesOK' /\ CachesOK' /\ FiltersOK' /\ CountsOK' /\ HistoryOK'
      => TypeOK'
BY DEF TypeOK, OpsOK, LockOK, TablesOK, CachesOK, FiltersOK, CountsOK, HistoryOK

AskPcs == {"system", "asksys", "putsys", "learnsys"}

\* Who asks for a system has talkgroups of it, and of no other; and so have
\* those who know its name.
Asks ==
    \A o \in Ops :
      op[o].pc \in AskPcs \/ op[o].name # "none" => OneSystem(op[o].ids)

LEMMA SysType ==
    ASSUME OpsOK, Asks, NEW o \in Ops, op[o].pc \in AskPcs \/ op[o].name # "none"
    PROVE  /\ Sys(o) \in Systems
           /\ \A t \in op[o].ids : SysOf[t] = Sys(o)
<1>1. op[o].ids \subseteq TGs
  BY DEF OpsOK, Operations
<1>2. PICK t \in op[o].ids : TRUE
  BY DEF Asks, OneSystem
<1>3. SysOf[t] \in Systems
  BY <1>1, <1>2, TGCacheAssumption
<1>4. \E s \in Systems : \E u \in op[o].ids : SysOf[u] = s
  BY <1>2, <1>3
<1>5. Sys(o) \in Systems /\ \E u \in op[o].ids : SysOf[u] = Sys(o)
  BY <1>4 DEF Sys
<1>6. QED
  BY <1>5 DEF Asks, OneSystem

LEMMA IdleType == Idle \in Operations /\ NoRecs \in Records
BY DEF Idle, Operations, NoRecs, Records, Rows, Inputs, Absent

\* An operation takes a step that is not one of the recompilation.
LEMMA BecomeType ==
    ASSUME TypeOK, Asks, NEW o \in Ops, NEW r \in Operations, Become(o, r),
           op[o].pc # "recompile", r.pc # "recompile", filtMtx' = filtMtx,
           r.pc \in AskPcs \/ r.name # "none" => OneSystem(r.ids)
    PROVE  OpsOK' /\ LockOK' /\ Asks'
<1> DEFINE x == IF r.pc = "idle" THEN Idle ELSE r
<1>1. x \in Operations /\ x.pc # "recompile"
  BY IdleType DEF Idle
<1>2. op' = [op EXCEPT ![o] = x]
  BY DEF Become
<1>3. x.pc \in AskPcs \/ x.name # "none" => OneSystem(x.ids)
  BY DEF Idle, AskPcs
<1>4. \A p \in Ops : op'[p] = IF p = o THEN x ELSE op[p]
  BY <1>2, Parts DEF OpsOK
<1>5. OpsOK'
  BY <1>1, <1>2, Parts DEF OpsOK
<1>6. LockOK'
  BY <1>1, <1>4, Parts DEF LockOK
<1>7. Asks'
  BY <1>3, <1>4 DEF Asks
<1>8. QED
  BY <1>5, <1>6, <1>7

\* What is not touched stays well formed.
LEMMA Frame ==
    ASSUME TypeOK
    PROVE  /\ UNCHANGED tables => TablesOK'
           /\ UNCHANGED caches => CachesOK'
           /\ UNCHANGED filters => FiltersOK'
           /\ UNCHANGED <<started, faults>> => CountsOK'
           /\ UNCHANGED history => HistoryOK'
<1>1. UNCHANGED tables => TablesOK'
  BY Parts DEF tables, TablesOK
<1>2. UNCHANGED caches => CachesOK'
  BY Parts DEF caches, CachesOK
<1>3. UNCHANGED filters => FiltersOK'
  BY Parts DEF filters, FiltersOK
<1>4. UNCHANGED <<started, faults>> => CountsOK'
  BY Parts DEF CountsOK
<1>5. UNCHANGED history => HistoryOK'
  BY Parts DEF history, HistoryOK
<1>6. QED
  BY <1>1, <1>2, <1>3, <1>4, <1>5

LEMMA Counts ==
    ASSUME TypeOK
    PROVE  /\ Starts /\ UNCHANGED faults => CountsOK'
           /\ \A k : Fault(k) /\ UNCHANGED started => CountsOK'
           /\ \A k : Starts /\ Fault(k) => CountsOK'
<1>1. MaxOps \in Nat /\ MaxFaults \in Nat /\ started \in 0..MaxOps /\ faults \in 0..MaxFaults
  BY TGCacheAssumption, Parts DEF CountsOK
<1>2. Starts => started' \in 0..MaxOps
  BY <1>1 DEF Starts
<1>3. ASSUME NEW k, Fault(k) PROVE faults' \in 0..MaxFaults
  BY <1>1, <1>3 DEF Fault
<1>4. QED
  BY <1>1, <1>2, <1>3 DEF CountsOK

\* The records the operations go on with.
LEMMA ReadType ==
    ASSUME NEW r \in Operations
    PROVE  /\ Read(r) \in Operations /\ Read(r).pc \in {"idle", "tx", "tags"}
           /\ Read(r).name = r.name /\ Read(r).ids = r.ids
BY DEF Read, Operations

LEMMA SeesType ==
    ASSUME NEW r \in Operations, NEW t \in TGs, NEW row \in Rows \cup {Absent}
    PROVE  /\ Sees(r, t, row) \in Operations /\ Sees(r, t, row).pc = r.pc
           /\ Sees(r, t, row).name = r.name /\ Sees(r, t, row).ids = r.ids
           /\ Sees(r, t, row).todo = r.todo /\ Sees(r, t, row).recs = r.recs
<1>1. CASE r.what = "UpdateTG"
  <2>1. [r.saw EXCEPT ![t] = row] \in Records
    BY DEF Operations, Records
  <2>2. (r.affected \/ row = "tagged") \in BOOLEAN
    BY DEF Operations
  <2>3. Sees(r, t, row) = [r EXCEPT !.saw = [r.saw EXCEPT ![t] = row], !.affected = r.affected \/ row = "tagged"]
    BY <1>1 DEF Sees, Operations
  <2>4. QED
    BY <2>1, <2>2, <2>3 DEF Operations
<1>2. CASE r.what # "UpdateTG"
  BY <1>2 DEF Sees
<1>3. QED
  BY <1>1, <1>2

LEMMA LookedType ==
    ASSUME NEW r \in Operations
    PROVE  /\ Looked(r) \in Operations /\ Looked(r).pc \in {"idle", "tx", "tags", "query"}
           /\ Looked(r).name = r.name /\ Looked(r).ids = r.ids
<1>1. CASE r.miss # {} \/ r.what \in {"TGs", "UpsertTGs"}
  BY <1>1 DEF Looked, Operations
<1>2. CASE ~(r.miss # {} \/ r.what \in {"TGs", "UpsertTGs"})
  BY <1>2, ReadType DEF Looked
<1>3. QED
  BY <1>1, <1>2

LEMMA NamedType ==
    ASSUME NEW r \in Operations, NEW name \in {"none", "name", "blank"}
    PROVE  /\ Named(r, name) \in Operations /\ Named(r, name).pc \in {"idle", "tx", "look"}
           /\ Named(r, name).name = name /\ Named(r, name).ids = r.ids
BY DEF Named, Operations

LEMMA AddAllType ==
    ASSUME TypeOK, NEW S \in SUBSET TGs, NEW recs \in Records,
           NEW name \in {"none", "name", "blank"}, AddAll(S, recs, name)
    PROVE  CachesOK'
BY Parts DEF AddAll, CachesOK, Records

TypeInv == TypeOK /\ Asks

LEMMA TypeInit == Init => TypeInv
<1> SUFFICES ASSUME Init PROVE TypeInv
  OBVIOUS
<1>1. OpsOK /\ Asks
  BY IdleType DEF Init, OpsOK, Asks, Idle, AskPcs
<1>2. LockOK
  BY TGCacheAssumption DEF Init, LockOK, Idle
<1>3. TablesOK /\ CachesOK
  BY TGCacheAssumption, IdleType DEF Init, TablesOK, CachesOK, Records
<1>4. FiltersOK /\ HistoryOK
  <2>1. compiled = [f \in Filters \cup Unheard |-> None]
    BY DEF Init
  <2>2. compiled \in [Filters \cup Unheard -> (SUBSET TGs) \cup {None}]
    <3>1. None \in (SUBSET TGs) \cup {None}
      OBVIOUS
    <3>2. QED
      BY <2>1, <3>1, Zenon
  <2>3. registered = {} /\ using = None /\ filtMtx = None
    BY DEF Init
  <2>4. suspect = {} /\ behind = {} /\ learned = {}
    BY DEF Init
  <2>5. FiltersOK
    BY <2>2, <2>3 DEF FiltersOK
  <2>6. HistoryOK
    BY <2>4 DEF HistoryOK
  <2>7. QED
    BY <2>5, <2>6
<1>5. CountsOK
  BY TGCacheAssumption DEF Init, CountsOK
<1>6. QED
  BY <1>1, <1>2, <1>3, <1>4, <1>5, Parts DEF TypeInv

\* A step that touches neither the operations nor the lock of the filters.
LEMMA SameOps ==
    ASSUME TypeInv, UNCHANGED <<op, filtMtx>>
    PROVE  OpsOK' /\ LockOK' /\ Asks'
BY Parts DEF TypeInv, OpsOK, LockOK, Asks

\* A step with which an operation goes on, for the same talkgroups.
LEMMA GoesOn ==
    ASSUME TypeInv, NEW o \in Ops, NEW r \in Operations, Become(o, r),
           op[o].pc # "recompile", r.pc # "recompile", filtMtx' = filtMtx,
           r.name = op[o].name, r.ids = op[o].ids,
           r.pc \in AskPcs => op[o].pc \in AskPcs
    PROVE  OpsOK' /\ LockOK' /\ Asks'
<1>1. r.pc \in AskPcs \/ r.name # "none" => OneSystem(r.ids)
  BY DEF TypeInv, Asks
<1>2. QED
  BY <1>1, BecomeType DEF TypeInv

\* The steps that only look, or that go on to another step.
LEMMA BeginType ==
    ASSUME TypeInv, NEW o \in Ops, NEW what, NEW ids \in SUBSET TGs, NEW tag \in Inputs, NEW start,
           what \in {"TG", "Load", "TGs", "UpdateTG", "UpsertTGs", "LearnTG", "SystemName"},
           start \in {"look", "hint", "query", "system"}, start = "system" => OneSystem(ids),
           Begin(o, what, ids, tag, start)
    PROVE  TypeInv'
<1> DEFINE r == [Idle EXCEPT !.what = what, !.ids = ids, !.todo = ids,
                             !.miss = ids, !.tag = tag, !.pc = start]
<1>1. r \in Operations /\ r.pc = start /\ r.name = "none" /\ r.ids = ids
  BY IdleType DEF Operations, Idle
<1>2. Become(o, r)
  BY <1>1 DEF Begin, Become
<1>3. op[o].pc # "recompile" /\ filtMtx' = filtMtx
  BY DEF Begin, filters
<1>4. OpsOK' /\ LockOK' /\ Asks'
  BY <1>1, <1>2, <1>3, BecomeType DEF TypeInv, AskPcs
<1>5. CountsOK'
  BY Counts DEF TypeInv, Begin
<1>6. QED
  BY <1>4, <1>5, Frame, PartsNext DEF TypeInv, Begin, tables, caches, filters, history

LEMMA CallType == ASSUME TypeInv, NEW o \in Ops, Call(o) PROVE TypeInv'
<1>1. "plain" \in Inputs
  BY DEF Rows, Inputs
<1>2. \A t \in TGs : {t} \in SUBSET TGs /\ OneSystem({t})
  BY DEF OneSystem
<1>3. CASE \E t \in TGs : Begin(o, "TG", {t}, "plain", "look")
  BY <1>1, <1>2, <1>3, BeginType
<1>4. CASE \E S \in SUBSET TGs \ {{}} : Begin(o, "Load", S, "plain", "hint")
  BY <1>1, <1>4, BeginType
<1>5. CASE \E S \in SUBSET TGs \ {{}} : Begin(o, "TGs", S, "plain", "look")
  BY <1>1, <1>5, BeginType
<1>6. CASE Begin(o, "TGs", TGs, "plain", "query")
  BY <1>1, <1>6, BeginType
<1>7. CASE \E t \in TGs, g \in Inputs : Begin(o, "UpdateTG", {t}, g, "system")
  BY <1>2, <1>7, BeginType
<1>8. CASE \E S \in SUBSET TGs, g \in Inputs : OneSystem(S) /\ Begin(o, "UpsertTGs", S, g, "system")
  BY <1>8, BeginType
<1>9. CASE \E t \in TGs : Begin(o, "LearnTG", {t}, "plain", "system")
  BY <1>1, <1>2, <1>9, BeginType
<1>10. CASE \E t \in TGs : Begin(o, "SystemName", {t}, "plain", "system")
  BY <1>1, <1>2, <1>10, BeginType
<1>11. QED
  BY <1>3, <1>4, <1>5, <1>6, <1>7, <1>8, <1>9, <1>10 DEF Call

LEMMA LookType == ASSUME TypeInv, NEW o \in Ops, Look(o) PROVE TypeInv'
<1>1. op[o] \in Operations /\ cache \in Records
  BY Parts DEF TypeInv, OpsOK, CachesOK
<1>2. PICK t \in op[o].todo :
        LET left == op[o].todo \ {t}
            miss == (op[o].miss \ {t}) \cup (IF cache[t] = Absent THEN {t} ELSE {})
            r == Sees([op[o] EXCEPT !.todo = left, !.miss = miss], t, cache[t])
        IN Become(o, IF left # {} THEN r ELSE Looked(r))
  BY DEF Look
<1> DEFINE left == op[o].todo \ {t}
           miss == (op[o].miss \ {t}) \cup (IF cache[t] = Absent THEN {t} ELSE {})
           b == [op[o] EXCEPT !.todo = left, !.miss = miss]
           r == Sees(b, t, cache[t])
           x == IF left # {} THEN r ELSE Looked(r)
<1>3. t \in TGs /\ cache[t] \in Rows \cup {Absent}
  BY <1>1 DEF Operations, Records
<1>4. b \in Operations /\ b.pc = "look" /\ b.name = op[o].name /\ b.ids = op[o].ids
  BY <1>1, <1>3 DEF Operations, Look
<1> HIDE DEF b
<1>5. r \in Operations /\ r.pc = "look" /\ r.name = op[o].name /\ r.ids = op[o].ids
  BY <1>3, <1>4, SeesType
<1>6. /\ x \in Operations /\ x.pc \in {"look", "idle", "tx", "tags", "query"}
      /\ x.name = op[o].name /\ x.ids = op[o].ids
  <2>1. CASE left # {}
    BY <1>5, <2>1
  <2>2. CASE left = {}
    BY <1>5, <2>2, LookedType
  <2>3. QED
    BY <2>1, <2>2
<1>7. op[o].pc = "look" /\ filtMtx' = filtMtx /\ Become(o, x)
  BY <1>2 DEF Look, filters, b
<1> HIDE DEF x
<1>8. OpsOK' /\ LockOK' /\ Asks'
  BY <1>6, <1>7, GoesOn DEF AskPcs
<1>9. QED
  BY <1>8, Frame, PartsNext DEF TypeInv, Look, tables, caches, filters, history

LEMMA HintLooksType == ASSUME TypeInv, NEW o \in Ops, HintLooks(o) PROVE TypeInv'
<1> DEFINE miss == {t \in op[o].ids : cache[t] = Absent}
           x == [op[o] EXCEPT !.miss = miss, !.pc = IF miss = {} THEN "idle" ELSE "query"]
<1>1. op[o] \in Operations
  BY Parts DEF TypeInv, OpsOK
<1>2. op[o].pc = "hint" /\ filtMtx' = filtMtx /\ Become(o, x)
  BY DEF HintLooks, filters
<1>3. x \in Operations /\ x.pc \in {"idle", "query"} /\ x.name = op[o].name /\ x.ids = op[o].ids
  BY <1>1 DEF Operations
<1> HIDE DEF x
<1>4. OpsOK' /\ LockOK' /\ Asks'
  BY <1>2, <1>3, GoesOn DEF AskPcs
<1>5. QED
  BY <1>4, Frame, PartsNext DEF TypeInv, HintLooks, tables, caches, filters, history

LEMMA QueryType == ASSUME TypeInv, NEW o \in Ops, Query(o) PROVE TypeInv'
<1> DEFINE found == {t \in op[o].miss : tgs[t] # Absent}
           recs == [t \in TGs |-> IF t \in found THEN tgs[t] ELSE Absent]
           r == [op[o] EXCEPT !.todo = found, !.recs = recs, !.miss = {}]
           t == CHOOSE u \in found : TRUE
           y == Sees(r, t, recs[t])
           x == IF found = {} THEN Read(r) ELSE [y EXCEPT !.pc = "add"]
<1>1. op[o] \in Operations /\ tgs \in Records
  BY Parts DEF TypeInv, OpsOK, TablesOK
<1>2. op[o].pc = "query" /\ filtMtx' = filtMtx /\ Become(o, x)
  BY DEF Query, filters
<1>3. found \in SUBSET TGs /\ recs \in Records
  BY <1>1 DEF Operations, Records
<1>4. r \in Operations /\ r.name = op[o].name /\ r.ids = op[o].ids
  BY <1>1, <1>3 DEF Operations
<1> HIDE DEF r
<1>5. x \in Operations /\ x.pc \in {"idle", "tx", "tags", "add"} /\ x.name = op[o].name /\ x.ids = op[o].ids
  <2>1. CASE found = {}
    BY <1>4, <2>1, ReadType
  <2>2. CASE found # {}
    <3>1. t \in TGs /\ recs[t] \in Rows \cup {Absent}
      BY <1>1, <1>3, <2>2 DEF Records
    <3>2. y \in Operations /\ y.name = op[o].name /\ y.ids = op[o].ids
      BY <1>4, <3>1, SeesType
    <3> HIDE DEF y
    <3>3. QED
      BY <2>2, <3>2 DEF Operations
  <2>3. QED
    BY <2>1, <2>2
<1> HIDE DEF x
<1>6. OpsOK' /\ LockOK' /\ Asks'
  BY <1>2, <1>5, GoesOn DEF AskPcs
<1>7. QED
  BY <1>6, Frame, PartsNext DEF TypeInv, Query, tables, caches, filters, history

\* An operation that is given up.
LEMMA GivenUp ==
    ASSUME TypeInv, NEW o \in Ops, Become(o, Idle), op[o].pc # "recompile", filtMtx' = filtMtx
    PROVE  OpsOK' /\ LockOK' /\ Asks'
<1>1. Idle \in Operations /\ Idle.pc = "idle" /\ Idle.name = "none"
  BY IdleType DEF Idle
<1>2. QED
  BY <1>1, BecomeType DEF TypeInv, AskPcs

LEMMA QueryFailsType == ASSUME TypeInv, NEW o \in Ops, QueryFails(o) PROVE TypeInv'
<1>1. op[o] \in Operations /\ op[o].pc = "query" /\ filtMtx' = filtMtx
  BY Parts DEF TypeInv, OpsOK, QueryFails, filters
<1>2. OpsOK' /\ LockOK' /\ Asks'
  <2> DEFINE r == [op[o] EXCEPT !.miss = {}]
  <2>1. CASE op[o].what = "UpdateTG"
    <3>1. r \in Operations /\ r.name = op[o].name /\ r.ids = op[o].ids
      BY <1>1 DEF Operations
    <3>2. Become(o, Read(r))
      BY <2>1 DEF QueryFails
    <3> HIDE DEF r
    <3>3. QED
      BY <1>1, <3>1, <3>2, ReadType, GoesOn DEF AskPcs
  <2>2. CASE op[o].what # "UpdateTG"
    BY <1>1, <2>2, GivenUp DEF QueryFails
  <2>3. QED
    BY <2>1, <2>2
<1>3. CountsOK'
  BY Counts DEF TypeInv, QueryFails
<1>4. QED
  BY <1>2, <1>3, Frame, PartsNext DEF TypeInv, QueryFails, tables, caches, filters, history

LEMMA AddType == ASSUME TypeInv, NEW o \in Ops, Add(o) PROVE TypeInv'
<1>1. op[o] \in Operations /\ op[o].pc = "add" /\ filtMtx' = filtMtx
  BY Parts DEF TypeInv, OpsOK, Add, filters
<1>2. PICK S \in SUBSET op[o].todo :
        LET left == op[o].todo \ S
            r == [op[o] EXCEPT !.todo = left]
        IN /\ IF op[o].what = "Load" THEN Cardinality(S) = 1 ELSE left = {}
           /\ AddAll(S, op[o].recs, "name")
           /\ Become(o, IF left # {} THEN r ELSE Read([r EXCEPT !.recs = NoRecs]))
  BY DEF Add
<1> DEFINE left == op[o].todo \ S
           r == [op[o] EXCEPT !.todo = left]
           q == [r EXCEPT !.recs = NoRecs]
           x == IF left # {} THEN r ELSE Read(q)
<1>3. r \in Operations /\ r.pc = "add" /\ r.name = op[o].name /\ r.ids = op[o].ids
  BY <1>1 DEF Operations
<1>4. q \in Operations /\ q.name = op[o].name /\ q.ids = op[o].ids
  BY <1>3, IdleType DEF Operations
<1>5. Become(o, x)
  BY <1>2
<1> HIDE DEF r, q
<1>6. x \in Operations /\ x.pc \in {"add", "idle", "tx", "tags"} /\ x.name = op[o].name /\ x.ids = op[o].ids
  BY <1>3, <1>4, ReadType
<1> HIDE DEF x
<1>7. OpsOK' /\ LockOK' /\ Asks'
  BY <1>1, <1>5, <1>6, GoesOn DEF AskPcs
<1>8. CachesOK'
  <2>1. S \in SUBSET TGs /\ op[o].recs \in Records
    BY <1>1 DEF Operations
  <2>2. QED
    BY <1>2, <2>1, AddAllType DEF TypeInv
<1>9. QED
  BY <1>7, <1>8, Frame, PartsNext DEF TypeInv, Add, tables, filters, history

\* SystemName returns a name to whoever asked.
LEMMA NamedStep ==
    ASSUME TypeInv, NEW o \in Ops, op[o].pc \in AskPcs, NEW name \in {"none", "name", "blank"},
           Become(o, Named(op[o], name)), filtMtx' = filtMtx
    PROVE  OpsOK' /\ LockOK' /\ Asks'
<1>1. op[o] \in Operations /\ OneSystem(op[o].ids)
  BY Parts DEF TypeInv, OpsOK, Asks
<1>2. /\ Named(op[o], name) \in Operations /\ Named(op[o], name).pc \in {"idle", "tx", "look"}
      /\ Named(op[o], name).ids = op[o].ids
  BY <1>1, NamedType
<1>3. QED
  BY <1>1, <1>2, BecomeType DEF TypeInv, AskPcs

\* An operation goes on without a new record.
LEMMA GoesTo ==
    ASSUME TypeInv, NEW o \in Ops, op[o].pc # "recompile", filtMtx' = filtMtx,
           NEW next \in {"idle", "look", "query", "asksys", "putsys", "learnsys", "tx", "filters"},
           next \in AskPcs => op[o].pc \in AskPcs, Become(o, [op[o] EXCEPT !.pc = next])
    PROVE  OpsOK' /\ LockOK' /\ Asks'
<1> DEFINE x == [op[o] EXCEPT !.pc = next]
<1>1. x \in Operations /\ x.pc = next /\ x.name = op[o].name /\ x.ids = op[o].ids
  BY Parts DEF TypeInv, OpsOK, Operations
<1> HIDE DEF x
<1>2. Become(o, x)
  BY DEF x
<1>3. QED
  BY <1>1, <1>2, GoesOn

LEMMA SystemNameType == ASSUME TypeInv, NEW o \in Ops, SystemName(o) PROVE TypeInv'
<1>1. op[o].pc = "system" /\ op[o].pc \in AskPcs /\ filtMtx' = filtMtx
  BY DEF SystemName, AskPcs, filters
<1>2. Sys(o) \in Systems /\ names[Sys(o)] \in {"none", "name", "blank"}
  BY <1>1, SysType, Parts DEF TypeInv, CachesOK
<1>3. OpsOK' /\ LockOK' /\ Asks'
  <2>1. CASE names[Sys(o)] = "none"
    BY <1>1, <2>1, GoesTo DEF SystemName
  <2>2. CASE names[Sys(o)] # "none"
    BY <1>1, <1>2, <2>2, NamedStep DEF SystemName
  <2>3. QED
    BY <2>1, <2>2
<1>4. QED
  BY <1>3, Frame, PartsNext DEF TypeInv, SystemName, tables, caches, filters, history

LEMMA AskSystemType == ASSUME TypeInv, NEW o \in Ops, AskSystem(o) PROVE TypeInv'
<1>1. op[o].pc = "asksys" /\ op[o].pc \in AskPcs /\ filtMtx' = filtMtx
  BY DEF AskSystem, AskPcs, filters
<1>2. OpsOK' /\ LockOK' /\ Asks'
  <2>1. CASE Become(o, [op[o] EXCEPT !.pc = "putsys"])
    BY <1>1, <2>1, GoesTo
  <2>2. CASE Become(o, [op[o] EXCEPT !.pc = "learnsys"])
    BY <1>1, <2>2, GoesTo
  <2>3. CASE Become(o, Idle)
    BY <1>1, <2>3, GivenUp
  <2>4. QED
    BY <2>1, <2>2, <2>3 DEF AskSystem
<1>3. UNCHANGED faults \/ Fault("query")
  BY DEF AskSystem
<1>4. CountsOK'
  BY <1>3, Frame, Counts DEF TypeInv, AskSystem
<1>5. QED
  BY <1>2, <1>4, Frame, PartsNext DEF TypeInv, AskSystem, tables, caches, filters, history

LEMMA PutSystemType == ASSUME TypeInv, NEW o \in Ops, PutSystem(o) PROVE TypeInv'
<1>1. op[o].pc = "putsys" /\ op[o].pc \in AskPcs /\ filtMtx' = filtMtx
  BY DEF PutSystem, AskPcs, filters
<1>2. OpsOK' /\ LockOK' /\ Asks'
  BY <1>1, NamedStep DEF PutSystem
<1>3. CachesOK'
  BY Parts DEF TypeInv, PutSystem, CachesOK
<1>4. QED
  BY <1>2, <1>3, Frame, PartsNext DEF TypeInv, PutSystem, tables, caches, filters, history

LEMMA LearnSystemType == ASSUME TypeInv, NEW o \in Ops, LearnSystem(o) PROVE TypeInv'
<1>1. op[o].pc = "learnsys" /\ op[o].pc \in AskPcs /\ filtMtx' = filtMtx
  BY DEF LearnSystem, AskPcs, filters
<1>2. Sys(o) \in Systems
  BY <1>1, SysType, Parts DEF TypeInv
<1>3. OpsOK' /\ LockOK' /\ Asks'
  <2>1. CASE Become(o, Named(op[o], "blank"))
    BY <1>1, <2>1, NamedStep
  <2>2. CASE Become(o, Idle)
    BY <1>1, <2>2, GivenUp
  <2>3. QED
    BY <2>1, <2>2 DEF LearnSystem
<1>4. TablesOK' /\ CachesOK' /\ HistoryOK'
  <2>1. systems' \in {systems, systems \cup {Sys(o)}} /\ learned' \in {learned, learned \cup {Sys(o)}}
    BY DEF LearnSystem
  <2>2. names' \in {names, [names EXCEPT ![Sys(o)] = "name"]}
    BY DEF LearnSystem
  <2>3. tgs' = tgs /\ cache' = cache /\ suspect' = suspect /\ behind' = behind
    BY DEF LearnSystem
  <2>4. TablesOK'
    BY <1>2, <2>1, <2>3, Parts DEF TypeInv, TablesOK
  <2>5. CachesOK'
    BY <2>2, <2>3, Parts DEF TypeInv, CachesOK
  <2>6. HistoryOK'
    BY <1>2, <2>1, <2>3, Parts DEF TypeInv, HistoryOK
  <2>7. QED
    BY <2>4, <2>5, <2>6
<1>5. UNCHANGED faults \/ Fault("sql")
  BY DEF LearnSystem
<1>6. CountsOK'
  BY <1>5, Frame, Counts DEF TypeInv, LearnSystem
<1>7. QED
  BY <1>3, <1>4, <1>6, Frame, PartsNext DEF TypeInv, LearnSystem, tables, caches, filters, history

LEMMA TagsType == ASSUME TypeInv, NEW o \in Ops, Tags(o) PROVE TypeInv'
<1>1. op[o] \in Operations /\ cache \in Records /\ op[o].pc = "tags" /\ filtMtx' = filtMtx
  BY Parts DEF TypeInv, OpsOK, CachesOK, Tags, filters
<1>2. PICK t \in op[o].todo :
        LET left == op[o].todo \ {t} IN
          Become(o, [op[o] EXCEPT
            !.todo = left, !.pc = IF left = {} THEN "tx" ELSE "tags",
            !.saw[t] = cache[t],
            !.affected = op[o].affected \/ "tagged" \in {cache[t], op[o].tag}])
  BY DEF Tags
<1> DEFINE left == op[o].todo \ {t}
           saw == [op[o].saw EXCEPT ![t] = cache[t]]
           affected == op[o].affected \/ "tagged" \in {cache[t], op[o].tag}
           x == [op[o] EXCEPT !.todo = left, !.pc = IF left = {} THEN "tx" ELSE "tags",
                              !.saw = saw, !.affected = affected]
<1>3. t \in TGs /\ left \in SUBSET TGs
  BY <1>1 DEF Operations
<1>4. saw \in Records
  BY <1>1, <1>3 DEF Operations, Records
<1>5. affected \in BOOLEAN
  BY <1>1 DEF Operations
<1>6. Become(o, x)
  BY <1>1, <1>2 DEF Operations
<1> HIDE DEF left, saw, affected
<1>7. x \in Operations /\ x.pc \in {"tx", "tags"} /\ x.name = op[o].name /\ x.ids = op[o].ids
  BY <1>1, <1>3, <1>4, <1>5 DEF Operations
<1> HIDE DEF x
<1>8. OpsOK' /\ LockOK' /\ Asks'
  BY <1>1, <1>6, <1>7, GoesOn DEF AskPcs
<1>9. QED
  BY <1>8, Frame, PartsNext DEF TypeInv, Tags, tables, caches, filters, history

LEMMA TxType == ASSUME TypeInv, NEW o \in Ops, Tx(o) PROVE TypeInv'
<1> DEFINE r == op[o]
           changed == {t \in r.ids : (tgs[t] = "tagged") # (Written(r, t) = "tagged")}
           unseen == {t \in changed : r.saw[t] # tgs[t]}
           row == [t \in TGs |-> IF t \in r.ids THEN Written(r, t) ELSE Absent]
           retagged == r.what = "UpdateTG" /\ \E t \in r.ids : row[t] = "tagged"
           affected == r.affected \/ retagged
           x == [r EXCEPT !.pc = "put", !.recs = row, !.todo = r.ids, !.saw = NoRecs,
                          !.tag = "plain", !.affected = affected]
<1>1. /\ r \in Operations /\ tgs \in Records /\ r.pc = "tx" /\ filtMtx' = filtMtx
      /\ r.ids \subseteq TGs /\ \A t \in TGs : Written(r, t) \in Rows
  BY Parts DEF TypeInv, OpsOK, TablesOK, Tx, filters, Operations, Written, Records, Rows, Inputs
<1>2. row \in Records /\ affected \in BOOLEAN
  BY <1>1 DEF Records, Operations
<1>3. OpsOK' /\ LockOK' /\ Asks'
  <2> HIDE DEF row, affected
  <2>1. CASE Become(o, x)
    <3>1. x \in Operations /\ x.pc = "put" /\ x.name = op[o].name /\ x.ids = op[o].ids
      BY <1>1, <1>2, IdleType DEF Operations, Inputs, Rows
    <3> HIDE DEF x
    <3>2. QED
      BY <1>1, <2>1, <3>1, GoesOn DEF AskPcs
  <2>2. CASE Become(o, Idle)
    BY <1>1, <2>2, GivenUp
  <2>3. QED
    BY <2>1, <2>2 DEF Tx, row, affected
<1>4. TablesOK'
  <2>1. tgs' = [t \in TGs |-> IF t \in r.ids THEN row[t] ELSE tgs[t]] /\ systems' = systems
    BY DEF Tx
  <2>2. tgs' \in Records
    BY <1>1, <2>1 DEF Records
  <2>3. QED
    BY <2>1, <2>2, Parts DEF TypeInv, TablesOK
<1>5. HistoryOK'
  <2>1. changed \subseteq TGs /\ unseen \subseteq TGs /\ Unaware \subseteq Filters
    BY <1>1 DEF Unaware
  <2>2. \/ suspect' = suspect \cup {t \in r.ids : \E p \in Others(o) : Holds(p, t)}
        \/ suspect' = suspect \cup r.ids
    BY DEF Tx
  <2>3. suspect' \subseteq TGs \cup Systems
    BY <1>1, <2>2, Parts DEF TypeInv, HistoryOK
  <2>4. \/ behind' = behind \cup Unaware \X changed \cup Filters \X unseen
        \/ behind' = behind \cup Filters \X changed
    BY DEF Tx
  <2> HIDE DEF changed, unseen
  <2>5. behind' \subseteq Filters \X TGs
    BY <2>1, <2>4, Parts DEF TypeInv, HistoryOK
  <2>6. QED
    BY <2>3, <2>5, Parts DEF TypeInv, HistoryOK, Tx
<1>6. UNCHANGED faults \/ Fault("commitlost")
  BY DEF Tx
<1>7. CountsOK'
  BY <1>6, Frame, Counts DEF TypeInv, Tx
<1>8. QED
  BY <1>3, <1>4, <1>5, <1>7, Frame, PartsNext DEF TypeInv, Tx, caches, filters

LEMMA TxFailsType == ASSUME TypeInv, NEW o \in Ops, TxFails(o) PROVE TypeInv'
<1>1. op[o].pc = "tx" /\ filtMtx' = filtMtx /\ Become(o, Idle)
  BY DEF TxFails, filters
<1>2. OpsOK' /\ LockOK' /\ Asks'
  BY <1>1, GivenUp
<1>3. UNCHANGED faults \/ Fault("sql")
  BY DEF TxFails
<1>4. CountsOK'
  BY <1>3, Frame, Counts DEF TypeInv, TxFails
<1>5. QED
  BY <1>2, <1>4, Frame, PartsNext DEF TypeInv, TxFails, tables, caches, filters, history

LEMMA PutType == ASSUME TypeInv, NEW o \in Ops, Put(o) PROVE TypeInv'
<1>1. op[o] \in Operations /\ op[o].pc = "put" /\ filtMtx' = filtMtx
  BY Parts DEF TypeInv, OpsOK, Put, filters
<1>2. PICK t \in op[o].todo :
        LET left == op[o].todo \ {t}
            r == [op[o] EXCEPT !.todo = left]
        IN /\ AddAll({t}, op[o].recs, op[o].name)
           /\ Become(o, IF left # {} THEN r
                        ELSE [r EXCEPT !.pc = IF r.affected THEN "filters" ELSE "idle"])
  BY DEF Put
<1> DEFINE left == op[o].todo \ {t}
           r == [op[o] EXCEPT !.todo = left]
           x == IF left # {} THEN r
                ELSE [r EXCEPT !.pc = IF r.affected THEN "filters" ELSE "idle"]
<1>3. r \in Operations /\ r.pc = "put" /\ r.name = op[o].name /\ r.ids = op[o].ids
  BY <1>1 DEF Operations
<1>4. Become(o, x)
  BY <1>2
<1> HIDE DEF r
<1>5. x \in Operations /\ x.pc \in {"put", "filters", "idle"} /\ x.name = op[o].name /\ x.ids = op[o].ids
  BY <1>3 DEF Operations
<1> HIDE DEF x
<1>6. OpsOK' /\ LockOK' /\ Asks'
  BY <1>1, <1>4, <1>5, GoesOn DEF AskPcs
<1>7. CachesOK'
  <2>1. {t} \in SUBSET TGs /\ op[o].recs \in Records /\ op[o].name \in {"none", "name", "blank"}
    BY <1>1, <1>2 DEF Operations
  <2>2. QED
    BY <1>2, <2>1, AddAllType DEF TypeInv
<1>8. QED
  BY <1>6, <1>7, Frame, PartsNext DEF TypeInv, Put, tables, filters, history

\* The operations that hold the lock of the cache all the time.
LEMMA DeleteTGType == ASSUME TypeInv, NEW t \in TGs, DeleteTG(t) PROVE TypeInv'
<1>1. OpsOK' /\ LockOK' /\ Asks'
  BY SameOps DEF DeleteTG, filters
<1>2. TablesOK'
  BY Parts DEF TypeInv, DeleteTG, TablesOK, Records
<1>3. CachesOK'
  <2>1. cache' \in {cache, [cache EXCEPT ![t] = Absent]} /\ names' = names
    BY DEF DeleteTG
  <2>2. QED
    BY <2>1, Parts DEF TypeInv, CachesOK, Records
<1>4. HistoryOK'
  <2>1. suspect' \subseteq suspect \cup {t}
    BY DEF DeleteTG
  <2>2. behind' = behind \cup Filters \X ({t} \cap Tagged) /\ learned' = learned
    BY DEF DeleteTG
  <2>3. QED
    BY <2>1, <2>2, Parts DEF TypeInv, HistoryOK
<1>5. CountsOK'
  BY Counts DEF TypeInv, DeleteTG
<1>6. QED
  BY <1>1, <1>2, <1>3, <1>4, <1>5, Frame, PartsNext DEF TypeInv, DeleteTG

LEMMA CreateSystemType == ASSUME TypeInv, NEW s \in Systems, CreateSystem(s) PROVE TypeInv'
<1>1. OpsOK' /\ LockOK' /\ Asks'
  BY SameOps DEF CreateSystem, filters
<1>2. TablesOK' /\ CachesOK'
  BY Parts DEF TypeInv, CreateSystem, TablesOK, CachesOK
<1>3. CountsOK'
  BY Counts DEF TypeInv, CreateSystem
<1>4. QED
  BY <1>1, <1>2, <1>3, Frame, PartsNext DEF TypeInv, CreateSystem, filters, history

LEMMA ClearedType == ASSUME TypeInv, Cleared PROVE CachesOK'
BY IdleType DEF Cleared, CachesOK

LEMMA UnhealedType == Unhealed \subseteq suspect \cap (TGs \cup Systems)
BY DEF Unhealed

LEMMA InvalidateType == ASSUME TypeInv, Invalidate PROVE TypeInv'
<1>1. OpsOK' /\ LockOK' /\ Asks'
  BY SameOps DEF Invalidate, filters
<1>2. CachesOK'
  BY ClearedType DEF Invalidate
<1>3. HistoryOK'
  BY UnhealedType, Parts DEF TypeInv, Invalidate, HistoryOK
<1>4. CountsOK'
  BY Counts DEF TypeInv, Invalidate
<1>5. QED
  BY <1>1, <1>2, <1>3, <1>4, Frame, PartsNext DEF TypeInv, Invalidate, tables, filters

LEMMA DeleteSystemType == ASSUME TypeInv, NEW s \in Systems, DeleteSystem(s) PROVE TypeInv'
<1>1. OpsOK' /\ LockOK' /\ Asks'
  BY SameOps DEF DeleteSystem, filters
<1>2. CachesOK'
  BY ClearedType DEF DeleteSystem
<1>3. suspect' \subseteq Unhealed \cup {s} /\ systems' \subseteq systems
  BY DEF DeleteSystem
<1>4. HistoryOK'
  BY <1>3, UnhealedType, Parts DEF TypeInv, DeleteSystem, HistoryOK
<1>5. TablesOK'
  BY <1>3, Parts DEF TypeInv, DeleteSystem, TablesOK
<1>6. CountsOK'
  BY Counts DEF TypeInv, DeleteSystem
<1>7. QED
  BY <1>1, <1>2, <1>4, <1>5, <1>6, Frame, PartsNext DEF TypeInv, DeleteSystem, filters

\* An operation gets hold of the filters, ...
LEMMA LockFiltersType == ASSUME TypeInv, NEW o \in Ops, LockFilters(o) PROVE TypeInv'
<1> DEFINE x == [op[o] EXCEPT !.pc = "recompile", !.flts = registered]
<1>1. op[o] \in Operations /\ registered \subseteq Filters
  BY Parts DEF TypeInv, OpsOK, FiltersOK
<1>2. x \in Operations /\ x.pc = "recompile" /\ x.name = op[o].name /\ x.ids = op[o].ids
  BY <1>1 DEF Operations
<1> HIDE DEF x
<1>3. op' = [op EXCEPT ![o] = x] /\ filtMtx = None /\ filtMtx' = o
  BY <1>2 DEF LockFilters, Become, x
<1>4. \A p \in Ops : op'[p] = IF p = o THEN x ELSE op[p]
  BY <1>3, Parts DEF TypeInv, OpsOK
<1>5. OpsOK'
  BY <1>2, <1>3, Parts DEF TypeInv, OpsOK
<1>6. LockOK'
  BY <1>2, <1>3, <1>4, TGCacheAssumption, Parts DEF TypeInv, LockOK
<1>7. Asks'
  BY <1>2, <1>4 DEF TypeInv, Asks, AskPcs
<1>8. FiltersOK'
  BY <1>3, Parts DEF TypeInv, FiltersOK, LockFilters
<1>9. QED
  BY <1>5, <1>6, <1>7, <1>8, Frame, PartsNext DEF TypeInv, LockFilters, tables, caches, history

\* ... compiles one of them ...
LEMMA RecompileType == ASSUME TypeInv, NEW o \in Ops, Recompile(o) PROVE TypeInv'
<1>1. PICK f \in op[o].flts :
        /\ compiled' = [compiled EXCEPT ![f] = Tagged]
        /\ Become(o, [op[o] EXCEPT !.flts = op[o].flts \ {f}])
        /\ behind' = behind \ ({f} \X TGs)
  BY DEF Recompile
<1> DEFINE x == [op[o] EXCEPT !.flts = op[o].flts \ {f}]
<1>2. op[o] \in Operations /\ op[o].pc = "recompile"
  BY Parts DEF TypeInv, OpsOK, Recompile
<1>3. x \in Operations /\ x.pc = "recompile" /\ x.name = op[o].name /\ x.ids = op[o].ids
  BY <1>2 DEF Operations
<1> HIDE DEF x
<1>4. op' = [op EXCEPT ![o] = x] /\ filtMtx' = filtMtx
  BY <1>1, <1>3 DEF Recompile, Become, x
<1>5. \A p \in Ops : op'[p] = IF p = o THEN x ELSE op[p]
  BY <1>4, Parts DEF TypeInv, OpsOK
<1>6. OpsOK'
  BY <1>3, <1>4, Parts DEF TypeInv, OpsOK
<1>7. LockOK'
  BY <1>2, <1>3, <1>4, <1>5, Parts DEF TypeInv, LockOK
<1>8. Asks'
  BY <1>3, <1>5 DEF TypeInv, Asks, AskPcs
<1>9. FiltersOK'
  <2>1. Tagged \in SUBSET TGs
    BY DEF Tagged
  <2>2. QED
    BY <1>1, <1>4, <2>1, Parts DEF TypeInv, FiltersOK, Recompile
<1>10. HistoryOK'
  BY <1>1, Parts DEF TypeInv, HistoryOK, Recompile
<1>11. QED
  BY <1>6, <1>7, <1>8, <1>9, <1>10, Frame, PartsNext DEF TypeInv, Recompile, tables, caches

\* ... and lets go of them.
LEMMA Unlocked ==
    ASSUME TypeInv, NEW o \in Ops, op[o].pc = "recompile", Become(o, Idle), filtMtx' = None
    PROVE  OpsOK' /\ LockOK' /\ Asks'
<1>1. op' = [op EXCEPT ![o] = Idle] /\ Idle.pc = "idle" /\ Idle.name = "none"
  BY DEF Become, Idle
<1>2. \A p \in Ops : op'[p] = IF p = o THEN Idle ELSE op[p]
  BY <1>1, Parts DEF TypeInv, OpsOK
<1>3. OpsOK'
  BY <1>1, IdleType, Parts DEF TypeInv, OpsOK
<1>4. LockOK'
  BY <1>1, <1>2, TGCacheAssumption, Parts DEF TypeInv, LockOK
<1>5. Asks'
  BY <1>1, <1>2 DEF TypeInv, Asks, AskPcs
<1>6. QED
  BY <1>3, <1>4, <1>5

LEMMA RecompileFailsType == ASSUME TypeInv, NEW o \in Ops, RecompileFails(o) PROVE TypeInv'
<1>1. OpsOK' /\ LockOK' /\ Asks'
  BY Unlocked DEF RecompileFails
<1>2. FiltersOK'
  <2>1. PICK f \in op[o].flts : compiled' = [compiled EXCEPT ![f] = {}]
    BY DEF RecompileFails
  <2>2. compiled' \in [Filters \cup Unheard -> (SUBSET TGs) \cup {None}]
    BY <2>1, Parts DEF TypeInv, FiltersOK
  <2>3. QED
    BY <2>2, Parts DEF TypeInv, FiltersOK, RecompileFails
<1>3. HistoryOK'
  <2>1. op[o].flts \subseteq Filters
    BY Parts DEF TypeInv, OpsOK, Operations
  <2>2. behind' = behind \cup op[o].flts \X TGs /\ UNCHANGED <<suspect, learned>>
    BY DEF RecompileFails
  <2>3. QED
    BY <2>1, <2>2, Parts DEF TypeInv, HistoryOK
<1>4. CountsOK'
  BY Counts DEF TypeInv, RecompileFails
<1>5. QED
  BY <1>1, <1>2, <1>3, <1>4, Frame, PartsNext DEF TypeInv, RecompileFails, tables, caches

LEMMA UnlockFiltersType == ASSUME TypeInv, NEW o \in Ops, UnlockFilters(o) PROVE TypeInv'
<1>1. OpsOK' /\ LockOK' /\ Asks'
  BY Unlocked DEF UnlockFilters
<1>2. FiltersOK'
  BY Parts DEF TypeInv, FiltersOK, UnlockFilters
<1>3. QED
  BY <1>1, <1>2, Frame, PartsNext DEF TypeInv, UnlockFilters, tables, caches, history

\* Clients and backends.
LEMMA LiveType == ASSUME TypeInv, NEW o \in Ops, NEW f \in Filters, Live(o, f) PROVE TypeInv'
<1> DEFINE x == [Idle EXCEPT !.what = "Live", !.pc = "register", !.flts = {f}]
<1>1. x \in Operations /\ x.pc = "register" /\ x.name = "none"
  BY IdleType DEF Operations, Idle
<1> HIDE DEF x
<1>2. op[o].pc # "recompile" /\ filtMtx' = filtMtx /\ Become(o, x)
  BY <1>1 DEF Live, Become, x
<1>3. OpsOK' /\ LockOK' /\ Asks'
  BY <1>1, <1>2, BecomeType DEF TypeInv, AskPcs
<1>4. FiltersOK'
  <2>1. Tagged \in SUBSET TGs /\ compiled' = [compiled EXCEPT ![f] = Tagged]
    BY DEF Tagged, Live
  <2>2. QED
    BY <2>1, Parts DEF TypeInv, FiltersOK, Live
<1>5. CountsOK'
  BY Counts DEF TypeInv, Live
<1>6. QED
  BY <1>3, <1>4, <1>5, Frame, PartsNext DEF TypeInv, Live, tables, caches, history

LEMMA RegisterType == ASSUME TypeInv, NEW o \in Ops, Register(o) PROVE TypeInv'
<1>1. OpsOK' /\ LockOK' /\ Asks'
  BY GivenUp DEF Register
<1>2. op[o].flts \subseteq Filters
  BY Parts DEF TypeInv, OpsOK, Operations
<1>3. FiltersOK'
  BY <1>2, Parts DEF TypeInv, FiltersOK, Register
<1>4. QED
  BY <1>1, <1>3, Frame, PartsNext DEF TypeInv, Register, tables, caches, history

LEMMA LiveUnfilteredType == ASSUME TypeInv, LiveUnfiltered PROVE TypeInv'
<1>1. OpsOK' /\ LockOK' /\ Asks'
  BY SameOps DEF LiveUnfiltered
<1>2. FiltersOK'
  BY Parts DEF TypeInv, FiltersOK, LiveUnfiltered
<1>3. QED
  BY <1>1, <1>2, Frame, PartsNext DEF TypeInv, LiveUnfiltered, tables, caches, history

LEMMA UnregisterType == ASSUME TypeInv, Unregister PROVE TypeInv'
<1>1. OpsOK' /\ LockOK' /\ Asks'
  BY SameOps DEF Unregister
<1>2. FiltersOK'
  BY Parts DEF TypeInv, FiltersOK, Unregister
<1>3. QED
  BY <1>1, <1>2, Frame, PartsNext DEF TypeInv, Unregister, tables, caches, history

LEMMA FirstUseType == ASSUME TypeInv, NEW f \in Unheard, FirstUse(f) PROVE TypeInv'
<1>1. OpsOK' /\ LockOK' /\ Asks'
  BY SameOps DEF FirstUse
<1>2. FiltersOK'
  <2>1. Tagged \in SUBSET TGs
    BY DEF Tagged
  <2>2. QED
    BY <2>1, Parts DEF TypeInv, FiltersOK, FirstUse
<1>3. CountsOK'
  BY Counts DEF TypeInv, FirstUse
<1>4. QED
  BY <1>1, <1>2, <1>3, Frame, PartsNext DEF TypeInv, FirstUse, tables, caches, history

LEMMA TypeStep == TypeInv /\ [Next]_vars => TypeInv'
<1> SUFFICES ASSUME TypeInv, [Next]_vars PROVE TypeInv'
  OBVIOUS
<1>1. ASSUME NEW o \in Ops, Step(o) PROVE TypeInv'
  BY <1>1, LookType, HintLooksType, QueryType, QueryFailsType, AddType, SystemNameType,
     AskSystemType, PutSystemType, LearnSystemType, TagsType, TxType, TxFailsType, PutType,
     LockFiltersType, RecompileType, RecompileFailsType, UnlockFiltersType, RegisterType DEF Step
<1>2. CASE UNCHANGED vars
  BY <1>2, SameOps, Frame, PartsNext DEF TypeInv, vars, filters
<1>3. QED
  BY <1>1, <1>2, CallType, LiveType, DeleteTGType, CreateSystemType, DeleteSystemType,
     InvalidateType, LiveUnfilteredType, UnregisterType, FirstUseType DEF Next

\* The tables, the cache, the filters and the operations are well formed,
\* and the goroutine that recompiles filters is the one that holds their lock
\* (RecompileFilters): a failure does not leave it locked.
THEOREM TypeCorrect == Spec => []TypeOK
<1>1. TypeInv => TypeOK
  BY DEF TypeInv
<1>2. QED
  BY TypeInit, TypeStep, <1>1, PTL DEF Spec

-----------------------------------------------------------------------------
(* The cache and the table.                                                *)

\* A record that waits to be put into the cache is the row, or a write has
\* come between.
HeldAgrees ==
    \A o \in Ops, t \in TGs : Holds(o, t) => op[o].recs[t] = tgs[t] \/ t \in suspect

CoherentInv == TypeInv /\ HeldAgrees /\ CacheAgrees

LEMMA BecomeIs ==
    ASSUME OpsOK, NEW o \in Ops, NEW r, Become(o, r)
    PROVE  /\ op'[o] = IF r.pc = "idle" THEN Idle ELSE r
           /\ op'[o].pc = r.pc
           /\ \A p \in Others(o) : op'[p] = op[p]
BY DEF Become, OpsOK, Others, Idle

\* The steps after which the operation has no record in hand, and which
\* touch neither the table nor the cache.
Aside(o) ==
    \/ Call(o) \/ Look(o) \/ HintLooks(o) \/ QueryFails(o) \/ SystemName(o) \/ AskSystem(o)
    \/ PutSystem(o) \/ LearnSystem(o) \/ Tags(o) \/ TxFails(o) \/ LockFilters(o) \/ Recompile(o)
    \/ RecompileFails(o) \/ UnlockFilters(o) \/ Register(o)

LEMMA AsideOps ==
    ASSUME TypeInv, NEW o \in Ops, Aside(o)
    PROVE  /\ op[o].pc \notin {"add", "put"} /\ op'[o].pc \notin {"add", "put", "register"}
           /\ \A p \in Others(o) : op'[p] = op[p]
           /\ UNCHANGED <<tgs, cache, suspect>>
<1>1. OpsOK /\ op[o] \in Operations
  BY Parts DEF TypeInv, OpsOK
<1>2. Idle.pc = "idle"
  BY DEF Idle
<1>3. UNCHANGED <<tgs, cache, suspect>>
  BY DEF Aside, Call, Begin, Look, HintLooks, QueryFails, SystemName, AskSystem, PutSystem,
     LearnSystem, Tags, TxFails, LockFilters, Recompile, RecompileFails, UnlockFilters, Register,
     tables, caches, history
<1>4. CASE Call(o)
  <2>1. ASSUME NEW what, NEW ids, NEW tag, NEW start, Begin(o, what, ids, tag, start),
               start \in {"look", "hint", "query", "system"}
        PROVE  /\ op[o].pc = "idle" /\ op'[o].pc = start
               /\ \A p \in Others(o) : op'[p] = op[p]
    BY <1>1, <2>1 DEF Begin, Idle, Others, OpsOK
  <2>2. \E what, ids, tag : \E start \in {"look", "hint", "query", "system"} :
          Begin(o, what, ids, tag, start)
    BY <1>4 DEF Call
  <2>3. QED
    BY <1>3, <2>1, <2>2
<1>5. ASSUME NEW r, Become(o, r), r.pc \notin {"add", "put", "register"}
      PROVE  op'[o].pc \notin {"add", "put", "register"} /\ \A p \in Others(o) : op'[p] = op[p]
  BY <1>1, <1>5, BecomeIs
<1>6. CASE Look(o)
  <2>1. PICK t \in op[o].todo :
          LET left == op[o].todo \ {t}
              miss == (op[o].miss \ {t}) \cup (IF cache[t] = Absent THEN {t} ELSE {})
              r == Sees([op[o] EXCEPT !.todo = left, !.miss = miss], t, cache[t])
          IN Become(o, IF left # {} THEN r ELSE Looked(r))
    BY <1>6 DEF Look
  <2> DEFINE left == op[o].todo \ {t}
             miss == (op[o].miss \ {t}) \cup (IF cache[t] = Absent THEN {t} ELSE {})
             b == [op[o] EXCEPT !.todo = left, !.miss = miss]
             r == Sees(b, t, cache[t])
             x == IF left # {} THEN r ELSE Looked(r)
  <2>2. t \in TGs /\ cache[t] \in Rows \cup {Absent}
    BY <1>1, Parts DEF Operations, TypeInv, CachesOK, Records
  <2>3. b \in Operations /\ b.pc = "look"
    BY <1>1, <1>6, <2>2 DEF Operations, Look
  <2>4. Become(o, x)
    BY <2>1
  <2> HIDE DEF b
  <2>5. r \in Operations /\ r.pc = "look"
    BY <2>2, <2>3, SeesType
  <2> HIDE DEF r
  <2>6. x.pc \notin {"add", "put", "register"}
    BY <2>5, LookedType
  <2> HIDE DEF x
  <2>7. QED
    BY <1>3, <1>5, <1>6, <2>4, <2>6 DEF Look
<1>7. CASE HintLooks(o)
  <2> DEFINE x == [op[o] EXCEPT !.miss = {t \in op[o].ids : cache[t] = Absent},
                     !.pc = IF {t \in op[o].ids : cache[t] = Absent} = {} THEN "idle" ELSE "query"]
  <2>1. x.pc \in {"idle", "query"} /\ Become(o, x)
    BY <1>1, <1>7 DEF HintLooks, Operations
  <2> HIDE DEF x
  <2>2. QED
    BY <1>3, <1>5, <1>7, <2>1 DEF HintLooks
<1>8. CASE QueryFails(o)
  <2> DEFINE q == [op[o] EXCEPT !.miss = {}]
  <2>1. q \in Operations
    BY <1>1 DEF Operations
  <2>2. Become(o, Read(q)) \/ Become(o, Idle)
    BY <1>8 DEF QueryFails
  <2> HIDE DEF q
  <2>3. \E r : Become(o, r) /\ r.pc \notin {"add", "put", "register"}
    BY <1>2, <2>1, <2>2, ReadType
  <2>4. QED
    BY <1>3, <1>5, <1>8, <2>3 DEF QueryFails
<1>9. ASSUME NEW name \in {"none", "name", "blank"}, Become(o, Named(op[o], name))
      PROVE  op'[o].pc \notin {"add", "put", "register"} /\ \A p \in Others(o) : op'[p] = op[p]
  BY <1>1, <1>5, <1>9, NamedType
<1>10. ASSUME NEW next, next \notin {"add", "put", "register"}, Become(o, [op[o] EXCEPT !.pc = next])
       PROVE  op'[o].pc \notin {"add", "put", "register"} /\ \A p \in Others(o) : op'[p] = op[p]
  <2> DEFINE x == [op[o] EXCEPT !.pc = next]
  <2>1. x.pc = next /\ Become(o, x)
    BY <1>1, <1>10 DEF Operations
  <2> HIDE DEF x
  <2>2. QED
    BY <1>5, <1>10, <2>1
<1>11. CASE SystemName(o)
  <2>1. op[o].pc = "system" /\ op[o].pc \in AskPcs
    BY <1>11 DEF SystemName, AskPcs
  <2>2. Sys(o) \in Systems /\ names[Sys(o)] \in {"none", "name", "blank"}
    BY <2>1, SysType, Parts DEF TypeInv, CachesOK
  <2>3. CASE names[Sys(o)] = "none"
    BY <1>3, <1>10, <1>11, <2>1, <2>3 DEF SystemName
  <2>4. CASE names[Sys(o)] # "none"
    BY <1>3, <1>9, <1>11, <2>1, <2>2, <2>4 DEF SystemName
  <2>5. QED
    BY <2>3, <2>4
<1>12. CASE AskSystem(o)
  <2>1. CASE Become(o, Idle)
    BY <1>2, <1>3, <1>5, <1>12, <2>1 DEF AskSystem
  <2>2. CASE Become(o, [op[o] EXCEPT !.pc = "putsys"])
    BY <1>3, <1>10, <1>12, <2>2 DEF AskSystem
  <2>3. CASE Become(o, [op[o] EXCEPT !.pc = "learnsys"])
    BY <1>3, <1>10, <1>12, <2>3 DEF AskSystem
  <2>4. QED
    BY <1>12, <2>1, <2>2, <2>3 DEF AskSystem
<1>13. CASE PutSystem(o)
  BY <1>3, <1>9, <1>13 DEF PutSystem
<1>14. CASE LearnSystem(o)
  <2>1. CASE Become(o, Idle)
    BY <1>2, <1>3, <1>5, <1>14, <2>1 DEF LearnSystem
  <2>2. CASE Become(o, Named(op[o], "blank"))
    BY <1>3, <1>9, <1>14, <2>2 DEF LearnSystem
  <2>3. QED
    BY <1>14, <2>1, <2>2 DEF LearnSystem
<1>15. CASE Tags(o)
  <2>1. PICK x : Become(o, x) /\ x.pc \in {"tx", "tags"}
    <3>1. PICK t \in op[o].todo :
            LET left == op[o].todo \ {t} IN
              Become(o, [op[o] EXCEPT
                !.todo = left, !.pc = IF left = {} THEN "tx" ELSE "tags",
                !.saw[t] = cache[t],
                !.affected = op[o].affected \/ "tagged" \in {cache[t], op[o].tag}])
      BY <1>15 DEF Tags
    <3> DEFINE left == op[o].todo \ {t}
    <3>2. [op[o] EXCEPT
             !.todo = left, !.pc = IF left = {} THEN "tx" ELSE "tags",
             !.saw[t] = cache[t],
             !.affected = op[o].affected \/ "tagged" \in {cache[t], op[o].tag}].pc
            \in {"tx", "tags"}
      BY <1>1 DEF Operations
    <3>3. QED
      BY <3>1, <3>2
  <2>2. QED
    BY <1>3, <1>5, <1>15, <2>1 DEF Tags
<1>16. CASE TxFails(o)
  BY <1>2, <1>3, <1>5, <1>16 DEF TxFails
<1>17. CASE LockFilters(o)
  <2> DEFINE x == [op[o] EXCEPT !.pc = "recompile", !.flts = registered]
  <2>1. x.pc = "recompile" /\ Become(o, x)
    BY <1>1, <1>17 DEF LockFilters, Operations
  <2> HIDE DEF x
  <2>2. QED
    BY <1>3, <1>5, <1>17, <2>1 DEF LockFilters
<1>18. CASE Recompile(o)
  <2>1. PICK f : Become(o, [op[o] EXCEPT !.flts = op[o].flts \ {f}])
    BY <1>18 DEF Recompile
  <2> DEFINE x == [op[o] EXCEPT !.flts = op[o].flts \ {f}]
  <2>2. x.pc = "recompile"
    BY <1>1, <1>18 DEF Recompile, Operations
  <2>3. Become(o, x)
    BY <2>1
  <2> HIDE DEF x
  <2>4. QED
    BY <1>3, <1>5, <1>18, <2>2, <2>3 DEF Recompile
<1>19. CASE RecompileFails(o) \/ UnlockFilters(o) \/ Register(o)
  BY <1>2, <1>3, <1>5, <1>19 DEF RecompileFails, UnlockFilters, Register
<1>20. QED
  BY <1>4, <1>6, <1>7, <1>8, <1>11, <1>12, <1>13, <1>14, <1>15, <1>16, <1>17, <1>18, <1>19
     DEF Aside

LEMMA LiveOps ==
    ASSUME TypeInv, NEW o \in Ops, NEW f \in Filters, Live(o, f)
    PROVE  /\ op[o].pc = "idle" /\ op'[o].pc = "register" /\ op'[o].flts = {f}
           /\ \A p \in Others(o) : op'[p] = op[p]
           /\ UNCHANGED <<tgs, cache, suspect>>
<1>1. op' = [op EXCEPT ![o] = [Idle EXCEPT !.what = "Live", !.pc = "register", !.flts = {f}]]
  BY DEF Live
<1>2. QED
  BY <1>1, Parts DEF TypeInv, OpsOK, Idle, Others, Live, tables, caches, history

LEMMA AsideCoherent ==
    ASSUME CoherentInv, NEW o \in Ops, Aside(o) \/ \E f \in Filters : Live(o, f)
    PROVE  HeldAgrees' /\ CacheAgrees'
<1>1. /\ op[o].pc \notin {"add", "put"} /\ op'[o].pc \notin {"add", "put"}
      /\ \A p \in Ops : p # o => op'[p] = op[p]
      /\ tgs' = tgs /\ cache' = cache /\ suspect' = suspect
  BY AsideOps, LiveOps DEF CoherentInv, Others
<1>2. HeldAgrees'
  BY <1>1 DEF CoherentInv, HeldAgrees, Holds
<1>3. \A t : Putting(t) => Putting(t)'
  BY <1>1 DEF Putting
<1>4. CacheAgrees'
  BY <1>1, <1>3 DEF CoherentInv, CacheAgrees
<1>5. QED
  BY <1>2, <1>4

\* The steps of a goroutine with records.  After each it asks for the same
\* talkgroups with the same name, or it is over.
SameName(o) ==
    op'[o].name = "none" \/ (op'[o].name = op[o].name /\ op'[o].ids = op[o].ids)

LEMMA QueryOps ==
    ASSUME TypeInv, NEW o \in Ops, Query(o)
    PROVE  /\ op'[o].pc \in {"idle", "tx", "tags", "add"} /\ SameName(o)
           /\ \A t \in TGs : Holds(o, t)' => op'[o].recs[t] = tgs[t]
           /\ \A p \in Others(o) : op'[p] = op[p]
<1> DEFINE found == {t \in op[o].miss : tgs[t] # Absent}
           recs == [t \in TGs |-> IF t \in found THEN tgs[t] ELSE Absent]
           r == [op[o] EXCEPT !.todo = found, !.recs = recs, !.miss = {}]
           t0 == CHOOSE u \in found : TRUE
           y == Sees(r, t0, recs[t0])
           x == IF found = {} THEN Read(r) ELSE [y EXCEPT !.pc = "add"]
<1>1. OpsOK /\ op[o] \in Operations /\ tgs \in Records /\ Become(o, x)
  BY Parts DEF TypeInv, OpsOK, TablesOK, Query
<1>2. found \in SUBSET TGs /\ recs \in Records
  BY <1>1 DEF Operations, Records
<1>3. /\ r \in Operations /\ r.recs = recs /\ r.todo = found
      /\ r.name = op[o].name /\ r.ids = op[o].ids
  BY <1>1, <1>2 DEF Operations
<1> HIDE DEF r
<1>4. /\ x.pc \in {"idle", "tx", "tags", "add"} /\ x.name = op[o].name /\ x.ids = op[o].ids
      /\ x.pc = "add" => x.recs = recs /\ x.todo = found
  <2>1. CASE found = {}
    BY <1>3, <2>1, ReadType
  <2>2. CASE found # {}
    <3>1. t0 \in TGs /\ recs[t0] \in Rows \cup {Absent}
      BY <1>1, <1>2, <2>2 DEF Records
    <3> HIDE DEF found, recs, t0
    <3>2. /\ y \in Operations /\ y.recs = recs /\ y.todo = found
          /\ y.name = op[o].name /\ y.ids = op[o].ids
      BY <1>3, <3>1, SeesType
    <3> HIDE DEF y
    <3>3. QED
      BY <2>2, <3>2 DEF Operations
  <2>3. QED
    BY <2>1, <2>2
<1> HIDE DEF x
<1>5. /\ op'[o].pc \in {"idle", "tx", "tags", "add"} /\ SameName(o)
      /\ op'[o].pc = "add" => op'[o].recs = recs /\ op'[o].todo = found
      /\ \A p \in Others(o) : op'[p] = op[p]
  BY <1>1, <1>4, BecomeIs DEF Idle, SameName
<1>6. QED
  BY <1>5 DEF Holds

LEMMA AddOps ==
    ASSUME TypeInv, NEW o \in Ops, Add(o)
    PROVE  /\ op'[o].pc \in {"idle", "tx", "tags", "add"} /\ SameName(o)
           /\ \E S \in SUBSET op[o].todo : AddAll(S, op[o].recs, "name")
           /\ \A t \in TGs : Holds(o, t)' => Holds(o, t) /\ op'[o].recs = op[o].recs
           /\ \A p \in Others(o) : op'[p] = op[p]
<1>1. OpsOK /\ op[o] \in Operations /\ op[o].pc = "add"
  BY Parts DEF TypeInv, OpsOK, Add
<1>2. PICK S \in SUBSET op[o].todo :
        LET left == op[o].todo \ S
            r == [op[o] EXCEPT !.todo = left]
        IN /\ IF op[o].what = "Load" THEN Cardinality(S) = 1 ELSE left = {}
           /\ AddAll(S, op[o].recs, "name")
           /\ Become(o, IF left # {} THEN r ELSE Read([r EXCEPT !.recs = NoRecs]))
  BY DEF Add
<1> DEFINE left == op[o].todo \ S
           r == [op[o] EXCEPT !.todo = left]
           q == [r EXCEPT !.recs = NoRecs]
           x == IF left # {} THEN r ELSE Read(q)
<1>3. /\ r \in Operations /\ r.recs = op[o].recs /\ r.todo = left /\ r.pc = "add"
      /\ r.name = op[o].name /\ r.ids = op[o].ids
  BY <1>1 DEF Operations
<1>4. q \in Operations /\ q.name = op[o].name /\ q.ids = op[o].ids
  BY <1>3, IdleType DEF Operations
<1>5. Become(o, x)
  BY <1>2
<1> HIDE DEF r, q
<1>6. /\ x.pc \in {"idle", "tx", "tags", "add"} /\ x.name = op[o].name /\ x.ids = op[o].ids
      /\ x.pc = "add" => x.recs = op[o].recs /\ x.todo = left
  BY <1>3, <1>4, ReadType
<1> HIDE DEF x
<1>7. /\ op'[o].pc \in {"idle", "tx", "tags", "add"} /\ SameName(o)
      /\ op'[o].pc = "add" => op'[o].recs = op[o].recs /\ op'[o].todo = left
      /\ \A p \in Others(o) : op'[p] = op[p]
  BY <1>1, <1>5, <1>6, BecomeIs DEF Idle, SameName
<1>8. \A t \in TGs : Holds(o, t)' => Holds(o, t) /\ op'[o].recs = op[o].recs
  BY <1>1, <1>7 DEF Holds
<1>9. QED
  BY <1>2, <1>7, <1>8

LEMMA PutOps ==
    ASSUME TypeInv, NEW o \in Ops, Put(o)
    PROVE  \E u \in op[o].todo :
             /\ AddAll({u}, op[o].recs, op[o].name)
             /\ op'[o].pc \in {"put", "filters", "idle"} /\ SameName(o)
             /\ op'[o].pc = "put" => op'[o].recs = op[o].recs /\ op'[o].todo = op[o].todo \ {u}
             /\ op[o].todo \ {u} # {} => op'[o].pc = "put"
             /\ op[o].affected => /\ op'[o].pc \in {"put", "filters"} /\ op'[o].affected
                                  /\ op'[o].ids = op[o].ids
             /\ \A p \in Others(o) : op'[p] = op[p]
<1>1. OpsOK /\ op[o] \in Operations /\ op[o].pc = "put"
  BY Parts DEF TypeInv, OpsOK, Put
<1>2. PICK u \in op[o].todo :
        LET left == op[o].todo \ {u}
            r == [op[o] EXCEPT !.todo = left]
        IN /\ AddAll({u}, op[o].recs, op[o].name)
           /\ Become(o, IF left # {} THEN r
                        ELSE [r EXCEPT !.pc = IF r.affected THEN "filters" ELSE "idle"])
  BY DEF Put
<1> DEFINE left == op[o].todo \ {u}
           r == [op[o] EXCEPT !.todo = left]
           x == IF left # {} THEN r
                ELSE [r EXCEPT !.pc = IF r.affected THEN "filters" ELSE "idle"]
<1>3. /\ r \in Operations /\ r.pc = "put" /\ r.recs = op[o].recs /\ r.todo = left
      /\ r.ids = op[o].ids /\ r.name = op[o].name /\ r.affected = op[o].affected
  BY <1>1 DEF Operations
<1>4. Become(o, x)
  BY <1>2
<1> HIDE DEF r
<1>5. /\ x.pc \in {"put", "filters", "idle"} /\ x.ids = op[o].ids /\ x.name = op[o].name
      /\ x.affected = op[o].affected
      /\ x.pc = "put" => x.recs = op[o].recs /\ x.todo = left
      /\ left # {} => x.pc = "put"
      /\ op[o].affected => x.pc \in {"put", "filters"}
  <2>1. CASE left # {}
    BY <1>3, <2>1
  <2>2. CASE left = {} /\ r.affected
    BY <1>3, <2>2 DEF Operations
  <2>3. CASE left = {} /\ ~r.affected
    BY <1>3, <2>3 DEF Operations
  <2>4. QED
    BY <2>1, <2>2, <2>3
<1> HIDE DEF x
<1>6. /\ op'[o].pc \in {"put", "filters", "idle"} /\ SameName(o)
      /\ op'[o].pc = "put" => op'[o].recs = op[o].recs /\ op'[o].todo = left
      /\ left # {} => op'[o].pc = "put"
      /\ op[o].affected => /\ op'[o].pc \in {"put", "filters"} /\ op'[o].affected
                           /\ op'[o].ids = op[o].ids
      /\ \A p \in Others(o) : op'[p] = op[p]
  BY <1>1, <1>4, <1>5, BecomeIs DEF Idle, SameName
<1>7. QED
  BY <1>2, <1>6

LEMMA QueryCoherent ==
    ASSUME CoherentInv, NEW o \in Ops, Query(o)
    PROVE  HeldAgrees' /\ CacheAgrees'
<1>1. /\ op[o].pc = "query" /\ op'[o].pc # "put" /\ UNCHANGED <<tgs, cache, suspect>>
      /\ \A t \in TGs : Holds(o, t)' => op'[o].recs[t] = tgs[t]
      /\ \A p \in Ops : p # o => op'[p] = op[p]
  BY QueryOps DEF CoherentInv, Others, Query, tables, caches, history
<1>2. HeldAgrees'
  <2> SUFFICES ASSUME NEW p \in Ops, NEW t \in TGs, Holds(p, t)'
               PROVE  op'[p].recs[t] = tgs[t] \/ t \in suspect
    BY <1>1 DEF HeldAgrees
  <2>1. CASE p = o
    BY <1>1, <2>1
  <2>2. CASE p # o
    BY <1>1, <2>2 DEF Holds, CoherentInv, HeldAgrees
  <2>3. QED
    BY <2>1, <2>2
<1>3. \A t : Putting(t) => Putting(t)'
  BY <1>1 DEF Putting
<1>4. CacheAgrees'
  BY <1>1, <1>3 DEF CoherentInv, CacheAgrees
<1>5. QED
  BY <1>2, <1>4

LEMMA AddCoherent ==
    ASSUME CoherentInv, NEW o \in Ops, Add(o)
    PROVE  HeldAgrees' /\ CacheAgrees'
<1>1. /\ op[o].pc = "add" /\ op'[o].pc # "put" /\ UNCHANGED <<tgs, suspect>>
      /\ \A t \in TGs : Holds(o, t)' => Holds(o, t) /\ op'[o].recs = op[o].recs
      /\ \A p \in Ops : p # o => op'[p] = op[p]
  BY AddOps DEF CoherentInv, Others, Add, tables, history
<1>2. PICK S \in SUBSET op[o].todo : AddAll(S, op[o].recs, "name")
  BY AddOps DEF CoherentInv
<1>3. HeldAgrees'
  <2> SUFFICES ASSUME NEW p \in Ops, NEW t \in TGs, Holds(p, t)'
               PROVE  op'[p].recs[t] = tgs[t] \/ t \in suspect
    BY <1>1 DEF HeldAgrees
  <2>1. Holds(p, t) /\ op'[p].recs = op[p].recs
    BY <1>1 DEF Holds
  <2>2. QED
    BY <2>1 DEF CoherentInv, HeldAgrees
<1>4. \A t : Putting(t) => Putting(t)'
  BY <1>1 DEF Putting
<1>5. \A t \in TGs : cache'[t] = IF t \in S THEN op[o].recs[t] ELSE cache[t]
  BY <1>2 DEF AddAll
<1>6. CacheAgrees'
  <2> SUFFICES ASSUME NEW t \in TGs
               PROVE  cache'[t] \in {Absent, tgs[t]} \/ t \in suspect \/ Putting(t)'
    BY <1>1 DEF CacheAgrees
  <2>1. CASE t \in S
    BY <1>1, <1>5, <2>1 DEF CoherentInv, HeldAgrees, Holds
  <2>2. CASE t \notin S
    BY <1>4, <1>5, <2>2 DEF CoherentInv, CacheAgrees
  <2>3. QED
    BY <2>1, <2>2
<1>7. QED
  BY <1>3, <1>6

\* A write is told to the cache by its writer, and those who have read the
\* row before are suspect.
LEMMA TxCoherent ==
    ASSUME CoherentInv, NEW o \in Ops, Tx(o)
    PROVE  HeldAgrees' /\ CacheAgrees'
<1> DEFINE r == op[o]
           row == [t \in TGs |-> IF t \in r.ids THEN Written(r, t) ELSE Absent]
           retagged == r.what = "UpdateTG" /\ \E t \in r.ids : row[t] = "tagged"
           x == [r EXCEPT !.pc = "put", !.recs = row, !.todo = r.ids, !.saw = NoRecs,
                          !.tag = "plain", !.affected = r.affected \/ retagged]
<1>1. OpsOK /\ op[o] \in Operations /\ op[o].pc = "tx"
  BY Parts DEF CoherentInv, TypeInv, OpsOK, Tx
<1>2. /\ \A t \in TGs : tgs'[t] = IF t \in r.ids THEN row[t] ELSE tgs[t]
      /\ cache' = cache
  BY DEF Tx, caches
<1>3. CASE /\ Become(o, x)
           /\ suspect' = suspect \cup {t \in r.ids : \E p \in Others(o) : Holds(p, t)}
  <2>1. x.pc = "put" /\ x.recs = row /\ x.todo = r.ids
    BY <1>1 DEF Operations
  <2> HIDE DEF x, row
  <2>2. /\ op'[o].pc = "put" /\ op'[o].recs = row /\ op'[o].todo = r.ids
        /\ \A p \in Ops : p # o => op'[p] = op[p]
    BY <1>1, <1>3, <2>1, BecomeIs DEF Others
  <2>3. HeldAgrees'
    <3> SUFFICES ASSUME NEW p \in Ops, NEW t \in TGs, Holds(p, t)'
                 PROVE  op'[p].recs[t] = tgs'[t] \/ t \in suspect'
      BY DEF HeldAgrees
    <3>1. CASE p = o
      BY <1>2, <2>2, <3>1 DEF Holds, row
    <3>2. CASE p # o
      <4>1. Holds(p, t) /\ p \in Others(o)
        BY <2>2, <3>2 DEF Holds, Others
      <4>2. CASE t \in r.ids
        BY <1>3, <4>1, <4>2
      <4>3. CASE t \notin r.ids
        BY <1>2, <1>3, <2>2, <3>2, <4>1, <4>3 DEF CoherentInv, HeldAgrees
      <4>4. QED
        BY <4>2, <4>3
    <3>3. QED
      BY <3>1, <3>2
  <2>4. \A t : Putting(t) => Putting(t)'
    BY <1>1, <2>2 DEF Putting
  <2>5. \A t \in r.ids : Putting(t)'
    BY <2>2 DEF Putting
  <2>6. CacheAgrees'
    BY <1>2, <1>3, <2>4, <2>5 DEF CoherentInv, CacheAgrees
  <2>7. QED
    BY <2>3, <2>6
<1>4. CASE Become(o, Idle) /\ suspect' = suspect \cup r.ids
  <2>1. op'[o].pc = "idle" /\ \A p \in Ops : p # o => op'[p] = op[p]
    BY <1>1, <1>4, BecomeIs DEF Others, Idle
  <2>2. HeldAgrees'
    BY <1>2, <1>4, <2>1 DEF CoherentInv, HeldAgrees, Holds
  <2>3. \A t : Putting(t) => Putting(t)'
    BY <1>1, <2>1 DEF Putting
  <2>4. CacheAgrees'
    BY <1>2, <1>4, <2>3 DEF CoherentInv, CacheAgrees
  <2>5. QED
    BY <2>2, <2>4
<1>5. QED
  BY <1>3, <1>4 DEF Tx

LEMMA PutCoherent ==
    ASSUME CoherentInv, NEW o \in Ops, Put(o)
    PROVE  HeldAgrees' /\ CacheAgrees'
<1>1. op[o].pc = "put" /\ UNCHANGED <<tgs, suspect>>
  BY DEF Put, tables, history
<1>2. PICK u \in op[o].todo :
        /\ AddAll({u}, op[o].recs, op[o].name)
        /\ op'[o].pc # "add"
        /\ op'[o].pc = "put" => op'[o].recs = op[o].recs /\ op'[o].todo = op[o].todo \ {u}
        /\ op[o].todo \ {u} # {} => op'[o].pc = "put"
        /\ \A p \in Ops : p # o => op'[p] = op[p]
  BY PutOps DEF CoherentInv, Others
<1>3. HeldAgrees'
  <2> SUFFICES ASSUME NEW p \in Ops, NEW t \in TGs, Holds(p, t)'
               PROVE  op'[p].recs[t] = tgs[t] \/ t \in suspect
    BY <1>1 DEF HeldAgrees
  <2>1. Holds(p, t) /\ op'[p].recs = op[p].recs
    BY <1>1, <1>2 DEF Holds
  <2>2. QED
    BY <2>1 DEF CoherentInv, HeldAgrees
<1>4. \A t : t # u /\ Putting(t) => Putting(t)'
  BY <1>2 DEF Putting
<1>5. \A t \in TGs : cache'[t] = IF t = u THEN op[o].recs[t] ELSE cache[t]
  BY <1>2 DEF AddAll
<1>6. CacheAgrees'
  <2> SUFFICES ASSUME NEW t \in TGs
               PROVE  cache'[t] \in {Absent, tgs[t]} \/ t \in suspect \/ Putting(t)'
    BY <1>1 DEF CacheAgrees
  <2>1. CASE t = u
    BY <1>1, <1>5, <2>1 DEF CoherentInv, HeldAgrees, Holds
  <2>2. CASE t # u
    BY <1>4, <1>5, <2>2 DEF CoherentInv, CacheAgrees
  <2>3. QED
    BY <2>1, <2>2
<1>7. QED
  BY <1>3, <1>6

\* A delete leaves the talkgroup suspect when somebody has its row.
LEMMA DeleteTGCoherent ==
    ASSUME CoherentInv, NEW t \in TGs, DeleteTG(t)
    PROVE  HeldAgrees' /\ CacheAgrees'
<1>1. /\ tgs' = [tgs EXCEPT ![t] = Absent] /\ op' = op /\ tgs \in Records /\ cache \in Records
  BY Parts DEF CoherentInv, TypeInv, TablesOK, CachesOK, DeleteTG
<1>2. \/ cache'[t] = Absent /\ suspect' = (suspect \ {t}) \cup (IF Held(t) THEN {t} ELSE {})
      \/ t \in suspect' /\ suspect' = suspect \cup {t}
  BY <1>1 DEF DeleteTG, Records
<1>3. \A u \in TGs : u # t => /\ tgs'[u] = tgs[u] /\ cache'[u] = cache[u]
                              /\ (u \in suspect' <=> u \in suspect)
  BY <1>1 DEF DeleteTG, Records
<1>4. HeldAgrees'
  <2> SUFFICES ASSUME NEW p \in Ops, NEW u \in TGs, Holds(p, u)
               PROVE  op[p].recs[u] = tgs'[u] \/ u \in suspect'
    BY <1>1 DEF HeldAgrees, Holds
  <2>1. CASE u = t
    BY <1>2, <2>1 DEF Held
  <2>2. CASE u # t
    BY <1>3, <2>2 DEF CoherentInv, HeldAgrees
  <2>3. QED
    BY <2>1, <2>2
<1>5. CacheAgrees'
  <2> SUFFICES ASSUME NEW u \in TGs
               PROVE  cache'[u] \in {Absent, tgs'[u]} \/ u \in suspect' \/ Putting(u)
    BY <1>1 DEF CacheAgrees, Putting
  <2>1. CASE u = t
    BY <1>2, <2>1
  <2>2. CASE u # t
    BY <1>3, <2>2 DEF CoherentInv, CacheAgrees
  <2>3. QED
    BY <2>1, <2>2
<1>6. QED
  BY <1>4, <1>5

\* An empty cache agrees with any table.
LEMMA ClearedCoherent ==
    ASSUME CoherentInv, Cleared, UNCHANGED <<tgs, op>>, Unhealed \subseteq suspect'
    PROVE  HeldAgrees' /\ CacheAgrees'
<1>1. CacheAgrees'
  BY DEF Cleared, NoRecs, CacheAgrees
<1>2. \A o \in Ops, t \in TGs : Holds(o, t) /\ t \in suspect => t \in suspect'
  BY DEF Unhealed, Held
<1>3. HeldAgrees'
  BY <1>2 DEF CoherentInv, HeldAgrees, Holds
<1>4. QED
  BY <1>1, <1>3

LEMMA SameCoherent ==
    ASSUME CoherentInv, UNCHANGED <<tgs, cache, op, suspect>>
    PROVE  HeldAgrees' /\ CacheAgrees'
BY DEF CoherentInv, HeldAgrees, CacheAgrees, Holds, Putting

LEMMA CoherentStep == CoherentInv /\ [Next]_vars => CoherentInv'
<1> SUFFICES ASSUME CoherentInv, [Next]_vars PROVE CoherentInv'
  OBVIOUS
<1>1. TypeInv'
  BY TypeStep DEF CoherentInv
<1>2. HeldAgrees' /\ CacheAgrees'
  <2>1. ASSUME NEW o \in Ops, Call(o) \/ Step(o) \/ \E f \in Filters : Live(o, f)
        PROVE  HeldAgrees' /\ CacheAgrees'
    BY <2>1, AsideCoherent, QueryCoherent, AddCoherent, TxCoherent, PutCoherent DEF Step, Aside
  <2>2. CASE \E s \in Systems : CreateSystem(s)
    BY <2>2, SameCoherent DEF CreateSystem, history
  <2>3. CASE \E s \in Systems : DeleteSystem(s)
    BY <2>3, ClearedCoherent DEF DeleteSystem
  <2>4. CASE Invalidate
    BY <2>4, ClearedCoherent DEF Invalidate, tables
  <2>5. CASE LiveUnfiltered \/ Unregister \/ \E f \in Unheard : FirstUse(f)
    BY <2>5, SameCoherent DEF LiveUnfiltered, Unregister, FirstUse, tables, caches, history
  <2>6. CASE UNCHANGED vars
    BY <2>6, SameCoherent DEF vars, tables, caches, history
  <2>7. QED
    BY <2>1, <2>2, <2>3, <2>4, <2>5, <2>6, DeleteTGCoherent DEF Next
<1>3. QED
  BY <1>1, <1>2 DEF CoherentInv

\* However reads, writes, deletes and invalidations of any number of
\* goroutines interleave, what the cache has for a talkgroup (get, addNoLock)
\* is its row, or it is about to be told, or a write overlapped with another
\* operation or was reported as failed.
THEOREM CacheCoherent == Spec => []CacheAgrees
<1>1. Init => CoherentInv
  <2>1. Init => HeldAgrees /\ CacheAgrees
    BY DEF Init, HeldAgrees, CacheAgrees, Holds, Idle, NoRecs
  <2>2. QED
    BY <2>1, TypeInit DEF CoherentInv
<1>2. CoherentInv => CacheAgrees
  BY DEF CoherentInv
<1>3. QED
  BY <1>1, <1>2, CoherentStep, PTL DEF Spec

-----------------------------------------------------------------------------
(* What an operation knows when it writes.                                 *)

Writers == {"UpdateTG", "UpsertTGs", "LearnTG"}

\* A writer is concerned with one system; it recompiles the filters of a tag
\* it has seen or is given; what it puts into the cache are rows.
Good(r) ==
    /\ r.pc = "tags" => r.what = "UpsertTGs"
    /\ r.pc = "tx" => r.what \in Writers
    /\ r.what = "LearnTG" => r.tag = "plain"
    /\ r.what \in Writers => OneSystem(r.ids)
    /\ \A t \in TGs : r.saw[t] = "tagged" => r.affected
    /\ r.pc = "tx" /\ r.what = "UpsertTGs" /\ r.tag = "tagged" => r.affected
    /\ r.pc \in {"add", "put"} => \A t \in r.todo : r.recs[t] # Absent
    /\ r.pc = "put" => r.todo \subseteq r.ids

AllGood == \A o \in Ops : Good(op[o])

GoodInv == TypeInv /\ AllGood

LEMMA IdleGood == Good(Idle)
BY DEF Good, Idle, Writers, NoRecs, Absent

LEMMA BecomeGood ==
    ASSUME GoodInv, NEW o \in Ops, NEW r, Become(o, r), Good(r)
    PROVE  AllGood'
<1>1. /\ op'[o] = IF r.pc = "idle" THEN Idle ELSE r
      /\ \A p \in Ops : p # o => op'[p] = op[p]
  BY BecomeIs, Parts DEF GoodInv, TypeInv, Others
<1>2. Good(op'[o])
  BY <1>1, IdleGood
<1>3. \A p \in Ops : Good(op'[p])
  BY <1>1, <1>2 DEF GoodInv, AllGood
<1>4. QED
  BY <1>3 DEF AllGood, Good

LEMMA ReadGood ==
    ASSUME NEW r \in Operations, Good(r) PROVE Good(Read(r))
BY DEF Good, Read, Operations, Writers

LEMMA SeesGood ==
    ASSUME NEW r \in Operations, NEW t \in TGs, NEW row \in Rows \cup {Absent}, Good(r)
    PROVE  Good(Sees(r, t, row))
<1>1. CASE r.what = "UpdateTG"
  <2> DEFINE saw == [r.saw EXCEPT ![t] = row]
             affected == r.affected \/ row = "tagged"
  <2>1. Sees(r, t, row) = [r EXCEPT !.saw = saw, !.affected = affected]
    BY <1>1 DEF Sees, Operations
  <2>2. \A u \in TGs : saw[u] = "tagged" => affected
    BY DEF Operations, Records, Good
  <2>3. r.affected => affected
    OBVIOUS
  <2> HIDE DEF saw, affected
  <2>4. QED
    BY <2>1, <2>2, <2>3 DEF Good, Operations
<1>2. CASE r.what # "UpdateTG"
  BY <1>2 DEF Sees
<1>3. QED
  BY <1>1, <1>2

LEMMA LookedGood ==
    ASSUME NEW r \in Operations, Good(r) PROVE Good(Looked(r))
<1>1. CASE r.miss # {} \/ r.what \in {"TGs", "UpsertTGs"}
  BY <1>1 DEF Looked, Operations, Good
<1>2. CASE ~(r.miss # {} \/ r.what \in {"TGs", "UpsertTGs"})
  BY <1>2, ReadGood DEF Looked
<1>3. QED
  BY <1>1, <1>2

LEMMA NamedGood ==
    ASSUME NEW r \in Operations, Good(r), NEW name PROVE Good(Named(r, name))
BY DEF Named, Operations, Good, Writers

LEMMA BeginGood ==
    ASSUME GoodInv, NEW o \in Ops, NEW what, NEW ids \in SUBSET TGs, NEW tag, NEW start,
           start \in {"look", "hint", "query", "system"},
           what \in Writers => OneSystem(ids), what = "LearnTG" => tag = "plain",
           Begin(o, what, ids, tag, start)
    PROVE  AllGood'
<1> DEFINE r == [Idle EXCEPT !.what = what, !.ids = ids, !.todo = ids,
                             !.miss = ids, !.tag = tag, !.pc = start]
<1>1. Good(r) /\ r.pc = start
  BY DEF Good, Idle, Writers, NoRecs, Absent
<1>2. Become(o, r)
  BY <1>1 DEF Begin, Become
<1> HIDE DEF r
<1>3. QED
  BY <1>1, <1>2, BecomeGood

LEMMA CallGood == ASSUME GoodInv, NEW o \in Ops, Call(o) PROVE AllGood'
<1>1. \A t \in TGs : {t} \in SUBSET TGs /\ OneSystem({t})
  BY DEF OneSystem
<1>2. {"TG", "Load", "TGs", "SystemName"} \cap Writers = {} /\ "LearnTG" \notin {"UpdateTG", "UpsertTGs"}
  BY DEF Writers
<1>3. CASE \E t \in TGs : Begin(o, "TG", {t}, "plain", "look")
  BY <1>1, <1>3, BeginGood
<1>4. CASE \E S \in SUBSET TGs \ {{}} : Begin(o, "Load", S, "plain", "hint")
  BY <1>2, <1>4, BeginGood
<1>5. CASE \E S \in SUBSET TGs \ {{}} : Begin(o, "TGs", S, "plain", "look")
  BY <1>2, <1>5, BeginGood
<1>6. CASE Begin(o, "TGs", TGs, "plain", "query")
  BY <1>2, <1>6, BeginGood
<1>7. CASE \E t \in TGs, g \in Inputs : Begin(o, "UpdateTG", {t}, g, "system")
  BY <1>1, <1>2, <1>7, BeginGood
<1>8. CASE \E S \in SUBSET TGs, g \in Inputs : OneSystem(S) /\ Begin(o, "UpsertTGs", S, g, "system")
  BY <1>2, <1>8, BeginGood
<1>9. CASE \E t \in TGs : Begin(o, "LearnTG", {t}, "plain", "system")
  BY <1>1, <1>9, BeginGood
<1>10. CASE \E t \in TGs : Begin(o, "SystemName", {t}, "plain", "system")
  BY <1>1, <1>10, BeginGood
<1>11. QED
  BY <1>3, <1>4, <1>5, <1>6, <1>7, <1>8, <1>9, <1>10 DEF Call

LEMMA LookGood == ASSUME GoodInv, NEW o \in Ops, Look(o) PROVE AllGood'
<1>1. op[o] \in Operations /\ cache \in Records /\ Good(op[o]) /\ op[o].pc = "look"
  BY Parts DEF GoodInv, AllGood, TypeInv, OpsOK, CachesOK, Look
<1>2. PICK t \in op[o].todo :
        LET left == op[o].todo \ {t}
            miss == (op[o].miss \ {t}) \cup (IF cache[t] = Absent THEN {t} ELSE {})
            r == Sees([op[o] EXCEPT !.todo = left, !.miss = miss], t, cache[t])
        IN Become(o, IF left # {} THEN r ELSE Looked(r))
  BY DEF Look
<1> DEFINE left == op[o].todo \ {t}
           miss == (op[o].miss \ {t}) \cup (IF cache[t] = Absent THEN {t} ELSE {})
           b == [op[o] EXCEPT !.todo = left, !.miss = miss]
           r == Sees(b, t, cache[t])
           x == IF left # {} THEN r ELSE Looked(r)
<1>3. t \in TGs /\ cache[t] \in Rows \cup {Absent}
  BY <1>1 DEF Operations, Records
<1>4. b \in Operations /\ Good(b)
  BY <1>1, <1>3 DEF Operations, Good
<1>5. Become(o, x)
  BY <1>2
<1> HIDE DEF b
<1>6. r \in Operations /\ Good(r)
  BY <1>3, <1>4, SeesType, SeesGood
<1> HIDE DEF r
<1>7. Good(x)
  BY <1>6, LookedGood
<1> HIDE DEF x
<1>8. QED
  BY <1>5, <1>7, BecomeGood

LEMMA HintLooksGood == ASSUME GoodInv, NEW o \in Ops, HintLooks(o) PROVE AllGood'
<1> DEFINE miss == {t \in op[o].ids : cache[t] = Absent}
           x == [op[o] EXCEPT !.miss = miss, !.pc = IF miss = {} THEN "idle" ELSE "query"]
<1>1. op[o] \in Operations /\ Good(op[o]) /\ Become(o, x)
  BY Parts DEF GoodInv, AllGood, TypeInv, OpsOK, HintLooks
<1>2. Good(x)
  BY <1>1 DEF Operations, Good
<1> HIDE DEF x
<1>3. QED
  BY <1>1, <1>2, BecomeGood

LEMMA QueryGood == ASSUME GoodInv, NEW o \in Ops, Query(o) PROVE AllGood'
<1> DEFINE found == {t \in op[o].miss : tgs[t] # Absent}
           recs == [t \in TGs |-> IF t \in found THEN tgs[t] ELSE Absent]
           r == [op[o] EXCEPT !.todo = found, !.recs = recs, !.miss = {}]
           t0 == CHOOSE u \in found : TRUE
           y == Sees(r, t0, recs[t0])
           x == IF found = {} THEN Read(r) ELSE [y EXCEPT !.pc = "add"]
<1>1. op[o] \in Operations /\ tgs \in Records /\ Good(op[o]) /\ op[o].pc = "query" /\ Become(o, x)
  BY Parts DEF GoodInv, AllGood, TypeInv, OpsOK, TablesOK, Query
<1>2. found \in SUBSET TGs /\ recs \in Records /\ \A t \in found : recs[t] # Absent
  BY <1>1 DEF Operations, Records
<1>3. r \in Operations /\ Good(r) /\ r.recs = recs /\ r.todo = found
  BY <1>1, <1>2 DEF Operations, Good
<1> HIDE DEF r
<1>4. Good(x)
  <2>1. CASE found = {}
    BY <1>3, <2>1, ReadGood
  <2>2. CASE found # {}
    <3>1. t0 \in TGs /\ recs[t0] \in Rows \cup {Absent}
      BY <1>1, <1>2, <2>2 DEF Records
    <3> HIDE DEF found, recs, t0
    <3>2. y \in Operations /\ Good(y) /\ y.recs = recs /\ y.todo = found
      BY <1>3, <3>1, SeesType, SeesGood
    <3> HIDE DEF y
    <3>3. Good([y EXCEPT !.pc = "add"])
      BY <1>2, <3>2 DEF Operations, Good
    <3>4. QED
      BY <2>2, <3>3
  <2>3. QED
    BY <2>1, <2>2
<1> HIDE DEF x
<1>5. QED
  BY <1>1, <1>4, BecomeGood

LEMMA QueryFailsGood == ASSUME GoodInv, NEW o \in Ops, QueryFails(o) PROVE AllGood'
<1> DEFINE r == [op[o] EXCEPT !.miss = {}]
<1>1. op[o] \in Operations /\ Good(op[o])
  BY Parts DEF GoodInv, AllGood, TypeInv, OpsOK
<1>2. r \in Operations /\ Good(r)
  BY <1>1 DEF Operations, Good
<1>3. Become(o, Read(r)) \/ Become(o, Idle)
  BY DEF QueryFails
<1> HIDE DEF r
<1>4. QED
  BY <1>2, <1>3, ReadGood, IdleGood, BecomeGood

LEMMA AddGood == ASSUME GoodInv, NEW o \in Ops, Add(o) PROVE AllGood'
<1>1. op[o] \in Operations /\ op[o].pc = "add" /\ Good(op[o])
  BY Parts DEF GoodInv, AllGood, TypeInv, OpsOK, Add
<1>2. PICK S \in SUBSET op[o].todo :
        LET left == op[o].todo \ S
            r == [op[o] EXCEPT !.todo = left]
        IN /\ IF op[o].what = "Load" THEN Cardinality(S) = 1 ELSE left = {}
           /\ AddAll(S, op[o].recs, "name")
           /\ Become(o, IF left # {} THEN r ELSE Read([r EXCEPT !.recs = NoRecs]))
  BY DEF Add
<1> DEFINE left == op[o].todo \ S
           r == [op[o] EXCEPT !.todo = left]
           q == [r EXCEPT !.recs = NoRecs]
           x == IF left # {} THEN r ELSE Read(q)
<1>3. r \in Operations /\ Good(r) /\ r.todo = left
  BY <1>1 DEF Operations, Good
<1>4. Become(o, x)
  BY <1>2
<1> HIDE DEF r
<1>5. left = {} => q \in Operations /\ Good(q)
  BY <1>3, IdleType DEF Operations, Good
<1> HIDE DEF q
<1>6. Good(x)
  BY <1>3, <1>5, ReadGood
<1> HIDE DEF x
<1>7. QED
  BY <1>4, <1>6, BecomeGood

\* A step that only moves an operation on, to where nothing is asked of it.
LEMMA GoesGood ==
    ASSUME GoodInv, NEW o \in Ops, NEW next \in {"asksys", "putsys", "learnsys"},
           Become(o, [op[o] EXCEPT !.pc = next])
    PROVE  AllGood'
<1> DEFINE x == [op[o] EXCEPT !.pc = next]
<1>1. op[o] \in Operations /\ Good(op[o])
  BY Parts DEF GoodInv, AllGood, TypeInv, OpsOK
<1>2. Good(x)
  BY <1>1 DEF Operations, Good
<1> HIDE DEF x
<1>3. Become(o, x)
  BY DEF x
<1>4. QED
  BY <1>2, <1>3, BecomeGood

LEMMA AskingGood ==
    ASSUME GoodInv, NEW o \in Ops,
           SystemName(o) \/ AskSystem(o) \/ PutSystem(o) \/ LearnSystem(o)
    PROVE  AllGood'
<1>1. op[o] \in Operations /\ Good(op[o])
  BY Parts DEF GoodInv, AllGood, TypeInv, OpsOK
<1>2. ASSUME NEW name, Become(o, Named(op[o], name)) PROVE AllGood'
  BY <1>1, <1>2, NamedGood, BecomeGood
<1>3. CASE SystemName(o)
  <2>1. CASE names[Sys(o)] = "none"
    BY <1>3, <2>1, GoesGood DEF SystemName
  <2>2. CASE names[Sys(o)] # "none"
    BY <1>2, <1>3, <2>2 DEF SystemName
  <2>3. QED
    BY <2>1, <2>2
<1>4. CASE AskSystem(o)
  <2>1. \/ Become(o, [op[o] EXCEPT !.pc = "putsys"])
        \/ Become(o, [op[o] EXCEPT !.pc = "learnsys"]) \/ Become(o, Idle)
    BY <1>4 DEF AskSystem
  <2>2. QED
    BY <2>1, GoesGood, IdleGood, BecomeGood
<1>5. CASE PutSystem(o)
  BY <1>2, <1>5 DEF PutSystem
<1>6. CASE LearnSystem(o)
  <2>1. Become(o, Named(op[o], "blank")) \/ Become(o, Idle)
    BY <1>6 DEF LearnSystem
  <2>2. QED
    BY <1>2, <2>1, IdleGood, BecomeGood
<1>7. QED
  BY <1>3, <1>4, <1>5, <1>6

LEMMA TagsGood == ASSUME GoodInv, NEW o \in Ops, Tags(o) PROVE AllGood'
<1>1. op[o] \in Operations /\ cache \in Records /\ op[o].pc = "tags" /\ Good(op[o])
  BY Parts DEF GoodInv, AllGood, TypeInv, OpsOK, CachesOK, Tags
<1>2. PICK t \in op[o].todo :
        LET left == op[o].todo \ {t} IN
          Become(o, [op[o] EXCEPT
            !.todo = left, !.pc = IF left = {} THEN "tx" ELSE "tags",
            !.saw[t] = cache[t],
            !.affected = op[o].affected \/ "tagged" \in {cache[t], op[o].tag}])
  BY DEF Tags
<1> DEFINE left == op[o].todo \ {t}
           saw == [op[o].saw EXCEPT ![t] = cache[t]]
           affected == op[o].affected \/ "tagged" \in {cache[t], op[o].tag}
           x == [op[o] EXCEPT !.todo = left, !.pc = IF left = {} THEN "tx" ELSE "tags",
                              !.saw = saw, !.affected = affected]
<1>3. Become(o, x)
  BY <1>1, <1>2 DEF Operations
<1>4. \A u \in TGs : saw[u] = "tagged" => affected
  BY <1>1 DEF Operations, Records, Good
<1>5. op[o].tag = "tagged" => affected
  OBVIOUS
<1> HIDE DEF left, saw, affected
<1>6. Good(x)
  BY <1>1, <1>4, <1>5 DEF Operations, Good, Writers
<1> HIDE DEF x
<1>7. QED
  BY <1>3, <1>6, BecomeGood

LEMMA WrittenType ==
    ASSUME TypeInv, NEW o \in Ops, NEW t \in TGs
    PROVE  Written(op[o], t) \in Rows
BY Parts DEF TypeInv, OpsOK, TablesOK, Operations, Written, Records, Rows, Inputs

LEMMA TxGood == ASSUME GoodInv, NEW o \in Ops, Tx(o) PROVE AllGood'
<1> DEFINE r == op[o]
           row == [t \in TGs |-> IF t \in r.ids THEN Written(r, t) ELSE Absent]
           retagged == r.what = "UpdateTG" /\ \E t \in r.ids : row[t] = "tagged"
           affected == r.affected \/ retagged
           x == [r EXCEPT !.pc = "put", !.recs = row, !.todo = r.ids, !.saw = NoRecs,
                          !.tag = "plain", !.affected = affected]
<1>1. r \in Operations /\ Good(r) /\ r.ids \subseteq TGs
  BY Parts DEF GoodInv, AllGood, TypeInv, OpsOK, Operations
<1>2. \A t \in r.ids : row[t] # Absent
  BY <1>1, WrittenType DEF GoodInv, Rows, Absent
<1>3. Become(o, x) \/ Become(o, Idle)
  BY DEF Tx
<1> HIDE DEF row, affected
<1>4. Good(x)
  BY <1>1, <1>2 DEF Operations, Good, NoRecs, Absent
<1> HIDE DEF x
<1>5. QED
  BY <1>3, <1>4, IdleGood, BecomeGood

LEMMA PutGood == ASSUME GoodInv, NEW o \in Ops, Put(o) PROVE AllGood'
<1>1. op[o] \in Operations /\ op[o].pc = "put" /\ Good(op[o])
  BY Parts DEF GoodInv, AllGood, TypeInv, OpsOK, Put
<1>2. PICK t \in op[o].todo :
        LET left == op[o].todo \ {t}
            r == [op[o] EXCEPT !.todo = left]
        IN /\ AddAll({t}, op[o].recs, op[o].name)
           /\ Become(o, IF left # {} THEN r
                        ELSE [r EXCEPT !.pc = IF r.affected THEN "filters" ELSE "idle"])
  BY DEF Put
<1> DEFINE left == op[o].todo \ {t}
           r == [op[o] EXCEPT !.todo = left]
           x == IF left # {} THEN r
                ELSE [r EXCEPT !.pc = IF r.affected THEN "filters" ELSE "idle"]
<1>3. r \in Operations /\ Good(r)
  BY <1>1 DEF Operations, Good
<1>4. Become(o, x)
  BY <1>2
<1> HIDE DEF r
<1>5. Good(x)
  <2>1. CASE left # {}
    BY <1>3, <2>1
  <2>2. CASE left = {} /\ r.affected
    BY <1>3, <2>2 DEF Operations, Good
  <2>3. CASE left = {} /\ ~r.affected
    BY <1>3, <2>3 DEF Operations, Good
  <2>4. QED
    BY <2>1, <2>2, <2>3
<1> HIDE DEF x
<1>6. QED
  BY <1>4, <1>5, BecomeGood

LEMMA RecompilingGood ==
    ASSUME GoodInv, NEW o \in Ops, LockFilters(o) \/ Recompile(o)
    PROVE  AllGood'
<1>1. op[o] \in Operations /\ Good(op[o])
  BY Parts DEF GoodInv, AllGood, TypeInv, OpsOK
<1>2. CASE LockFilters(o)
  <2> DEFINE x == [op[o] EXCEPT !.pc = "recompile", !.flts = registered]
  <2>1. Good(x)
    BY <1>1 DEF Operations, Good
  <2>2. Become(o, x)
    BY <1>2 DEF LockFilters
  <2> HIDE DEF x
  <2>3. QED
    BY <2>1, <2>2, BecomeGood
<1>3. CASE Recompile(o)
  <2>1. PICK f : Become(o, [op[o] EXCEPT !.flts = op[o].flts \ {f}])
    BY <1>3 DEF Recompile
  <2> DEFINE x == [op[o] EXCEPT !.flts = op[o].flts \ {f}]
  <2>2. Good(x)
    BY <1>1 DEF Operations, Good
  <2> HIDE DEF x
  <2>3. Become(o, x)
    BY <2>1 DEF x
  <2>4. QED
    BY <2>2, <2>3, BecomeGood
<1>4. QED
  BY <1>2, <1>3

LEMMA LiveGood == ASSUME GoodInv, NEW o \in Ops, NEW f \in Filters, Live(o, f) PROVE AllGood'
<1> DEFINE x == [Idle EXCEPT !.what = "Live", !.pc = "register", !.flts = {f}]
<1>1. Good(x) /\ x.pc = "register"
  BY DEF Good, Idle, Writers, NoRecs, Absent
<1> HIDE DEF x
<1>2. Become(o, x)
  BY <1>1 DEF Live, Become, x
<1>3. QED
  BY <1>1, <1>2, BecomeGood

LEMMA SameGood == ASSUME GoodInv, op' = op PROVE AllGood'
BY DEF GoodInv, AllGood, Good

LEMMA GoodInit == Init => GoodInv
BY TypeInit, IdleGood DEF Init, GoodInv, AllGood

LEMMA GoodStep == GoodInv /\ [Next]_vars => GoodInv'
<1> SUFFICES ASSUME GoodInv, [Next]_vars PROVE AllGood'
  BY TypeStep DEF GoodInv
<1>1. ASSUME NEW o \in Ops, Become(o, Idle) PROVE AllGood'
  BY <1>1, IdleGood, BecomeGood
<1>2. ASSUME NEW o \in Ops, Step(o) PROVE AllGood'
  <2>1. CASE TxFails(o) \/ RecompileFails(o) \/ UnlockFilters(o) \/ Register(o)
    BY <1>1, <2>1 DEF TxFails, RecompileFails, UnlockFilters, Register
  <2>2. QED
    BY <1>2, <2>1, LookGood, HintLooksGood, QueryGood, QueryFailsGood, AddGood, AskingGood,
       TagsGood, TxGood, PutGood, RecompilingGood DEF Step
<1>3. CASE op' = op
  BY <1>3, SameGood
<1>4. CASE UNCHANGED vars
  BY <1>3, <1>4 DEF vars
<1>5. CASE \/ \E t \in TGs : DeleteTG(t)
           \/ \E s \in Systems : CreateSystem(s) \/ DeleteSystem(s)
           \/ Invalidate \/ LiveUnfiltered \/ Unregister
           \/ \E f \in Unheard : FirstUse(f)
  BY <1>3, <1>5 DEF DeleteTG, CreateSystem, DeleteSystem, Invalidate, LiveUnfiltered, Unregister, FirstUse
<1>6. QED
  BY <1>2, <1>4, <1>5, CallGood, LiveGood DEF Next

-----------------------------------------------------------------------------
(* The filters and the tags.                                               *)

Agrees(f, t) == t \in compiled[f] <=> tgs[t] = "tagged"

\* A filter that is not registered yet has nobody to recompile it: it is
\* behind with every change since it was compiled.
UnawareBehind == \A f \in Unaware, t \in TGs : Agrees(f, t) \/ <<f, t>> \in behind

RegisteredAgree ==
    \A f \in registered, t \in TGs : Agrees(f, t) \/ <<f, t>> \in behind \/ Recompiling(f, t)

FollowInv == GoodInv /\ UnawareBehind /\ RegisteredAgree

\* Steps of an operation that touch neither filters nor tags.
FarOps == {"idle", "look", "hint", "query", "add", "system", "asksys", "putsys", "learnsys",
           "tags", "tx"}

LEMMA FarFollows ==
    ASSUME FollowInv, NEW o \in Ops, op[o].pc \in FarOps, op'[o].pc # "register",
           \A p \in Others(o) : op'[p] = op[p], UNCHANGED <<tgs, compiled, registered, behind>>
    PROVE  UnawareBehind' /\ RegisteredAgree'
<1>1. \A p \in Ops : p # o => op'[p] = op[p]
  BY DEF Others
<1>2. Unaware' \subseteq Unaware
  BY <1>1 DEF Unaware
<1>3. \A f, t : Agrees(f, t)' <=> Agrees(f, t)
  BY DEF Agrees
<1>4. \A f, t : Recompiling(f, t) => Recompiling(f, t)'
  BY <1>1 DEF Recompiling, FarOps
<1>5. QED
  BY <1>2, <1>3, <1>4 DEF FollowInv, UnawareBehind, RegisteredAgree

\* The steps that only read.
Reads(o) ==
    \/ Call(o) \/ Look(o) \/ HintLooks(o) \/ Query(o) \/ QueryFails(o) \/ Add(o) \/ SystemName(o)
    \/ AskSystem(o) \/ PutSystem(o) \/ LearnSystem(o) \/ Tags(o) \/ TxFails(o)

LEMMA ReadsFollow ==
    ASSUME FollowInv, NEW o \in Ops, Reads(o)
    PROVE  UnawareBehind' /\ RegisteredAgree'
<1>1. op[o].pc \in FarOps
  BY DEF Reads, FarOps, Call, Begin, Look, HintLooks, Query, QueryFails, Add, SystemName, AskSystem,
     PutSystem, LearnSystem, Tags, TxFails
<1>2. UNCHANGED <<tgs, compiled, registered, behind>>
  BY DEF Reads, Call, Begin, Look, HintLooks, Query, QueryFails, Add, SystemName, AskSystem,
     PutSystem, LearnSystem, Tags, TxFails, tables, filters, history
<1>3. op'[o].pc # "register" /\ \A p \in Others(o) : op'[p] = op[p]
  <2>1. CASE Query(o) \/ Add(o)
    BY <2>1, QueryOps, AddOps DEF FollowInv, GoodInv
  <2>2. CASE ~(Query(o) \/ Add(o))
    <3>1. Aside(o)
      BY <2>2 DEF Reads, Aside
    <3>2. QED
      BY <3>1, AsideOps DEF FollowInv, GoodInv
  <2>3. QED
    BY <2>1, <2>2
<1>4. QED
  BY <1>1, <1>2, <1>3, FarFollows

\* Whoever changes a tag it has seen will recompile the filters.
LEMMA SeenIsAffected ==
    ASSUME GoodInv, NEW o \in Ops, op[o].pc = "tx", CanWrite(op[o], Sys(o)), NEW t \in op[o].ids,
           (tgs[t] = "tagged") # (Written(op[o], t) = "tagged"), op[o].saw[t] = tgs[t]
    PROVE  op[o].affected \/ (op[o].what = "UpdateTG" /\ Written(op[o], t) = "tagged")
<1> DEFINE r == op[o]
<1>1. r \in Operations /\ Good(r) /\ t \in TGs
  BY Parts DEF GoodInv, AllGood, TypeInv, OpsOK, Operations
<1>2. CASE tgs[t] = "tagged"
  BY <1>1, <1>2 DEF Good
<1>3. CASE tgs[t] # "tagged"
  <2>1. Written(r, t) = "tagged" /\ r.tag = "tagged"
    BY <1>1, <1>3 DEF Written
  <2>2. r.what \in {"UpdateTG", "UpsertTGs"}
    BY <1>1, <2>1 DEF Good, Writers
  <2>3. QED
    BY <1>1, <2>1, <2>2 DEF Good
<1>4. QED
  BY <1>2, <1>3

LEMMA TxFollows ==
    ASSUME FollowInv, NEW o \in Ops, Tx(o)
    PROVE  UnawareBehind' /\ RegisteredAgree'
<1> DEFINE r == op[o]
           changed == {t \in r.ids : (tgs[t] = "tagged") # (Written(r, t) = "tagged")}
           unseen == {t \in changed : r.saw[t] # tgs[t]}
           row == [t \in TGs |-> IF t \in r.ids THEN Written(r, t) ELSE Absent]
           retagged == r.what = "UpdateTG" /\ \E t \in r.ids : row[t] = "tagged"
           affected == r.affected \/ retagged
           x == [r EXCEPT !.pc = "put", !.recs = row, !.todo = r.ids, !.saw = NoRecs,
                          !.tag = "plain", !.affected = affected]
<1>1. /\ OpsOK /\ r \in Operations /\ r.ids \subseteq TGs /\ r.pc = "tx" /\ CanWrite(r, Sys(o))
      /\ compiled' = compiled /\ registered' = registered /\ GoodInv
  BY Parts DEF FollowInv, GoodInv, TypeInv, OpsOK, Operations, Tx, filters
<1>2. \A t \in TGs : tgs'[t] = IF t \in r.ids THEN Written(r, t) ELSE tgs[t]
  BY DEF Tx
<1>3. \A f, t : t \in TGs \ changed => (Agrees(f, t)' <=> Agrees(f, t))
  BY <1>1, <1>2 DEF Agrees
<1>4. registered \subseteq Filters /\ Unaware \subseteq Filters
  BY Parts DEF FollowInv, GoodInv, TypeInv, FiltersOK, Unaware
<1>5. CASE Become(o, x) /\ behind' = behind \cup Unaware \X changed \cup Filters \X unseen
  <2>1. x.pc = "put" /\ x.ids = r.ids /\ x.affected = affected
    BY <1>1 DEF Operations
  <2> HIDE DEF x
  <2>2. /\ op'[o].pc = "put" /\ op'[o].ids = r.ids /\ op'[o].affected = affected
        /\ \A p \in Ops : p # o => op'[p] = op[p]
    BY <1>1, <1>5, <2>1, BecomeIs DEF Others
  <2>3. Unaware' \subseteq Unaware
    BY <2>2 DEF Unaware
  <2>4. UnawareBehind'
    <3> SUFFICES ASSUME NEW f \in Unaware, NEW t \in TGs PROVE Agrees(f, t)' \/ <<f, t>> \in behind'
      BY <2>3 DEF UnawareBehind
    <3>1. CASE t \in changed
      BY <1>5, <3>1
    <3>2. CASE t \notin changed
      <4>1. Agrees(f, t) \/ <<f, t>> \in behind
        BY DEF FollowInv, UnawareBehind
      <4> HIDE DEF changed, unseen
      <4>2. QED
        BY <1>3, <1>5, <3>2, <4>1
    <3>3. QED
      BY <3>1, <3>2
  <2>5. \A f, t : Recompiling(f, t) => Recompiling(f, t)'
    BY <1>1, <2>2 DEF Recompiling
  <2>6. RegisteredAgree'
    <3> SUFFICES ASSUME NEW f \in registered, NEW t \in TGs
                 PROVE  Agrees(f, t)' \/ <<f, t>> \in behind' \/ Recompiling(f, t)'
      BY <1>1 DEF RegisteredAgree
    <3>1. CASE t \in changed /\ r.saw[t] = tgs[t]
      <4>1. affected
        <5>1. r.affected \/ (r.what = "UpdateTG" /\ Written(r, t) = "tagged")
          BY <1>1, <3>1, SeenIsAffected
        <5>2. t \in r.ids /\ row[t] = Written(r, t)
          BY <3>1
        <5>3. QED
          BY <5>1, <5>2
      <4>2. QED
        BY <2>2, <3>1, <4>1 DEF Recompiling
    <3>2. CASE t \in changed /\ r.saw[t] # tgs[t]
      <4>1. t \in unseen
        BY <3>2
      <4> HIDE DEF changed, unseen
      <4>2. QED
        BY <1>4, <1>5, <4>1
    <3>3. CASE t \notin changed
      <4>1. Agrees(f, t) \/ <<f, t>> \in behind \/ Recompiling(f, t)
        BY DEF FollowInv, RegisteredAgree
      <4> HIDE DEF changed, unseen
      <4>2. QED
        BY <1>3, <1>5, <2>5, <3>3, <4>1
    <3>4. QED
      BY <3>1, <3>2, <3>3
  <2>7. QED
    BY <2>4, <2>6
<1>6. CASE Become(o, Idle) /\ behind' = behind \cup Filters \X changed
  <2>1. op'[o].pc = "idle" /\ \A p \in Ops : p # o => op'[p] = op[p]
    BY <1>1, <1>6, BecomeIs DEF Others, Idle
  <2>2. Unaware' \subseteq Unaware
    BY <2>1 DEF Unaware
  <2>3. \A f, t : Recompiling(f, t) => Recompiling(f, t)'
    BY <1>1, <2>1 DEF Recompiling
  <2> HIDE DEF changed
  <2>4. \A f \in Filters, t \in TGs : Agrees(f, t) \/ <<f, t>> \in behind
                                   => Agrees(f, t)' \/ <<f, t>> \in behind'
    BY <1>3, <1>6
  <2>5. \A f \in Filters, t \in changed : <<f, t>> \in behind'
    BY <1>6
  <2>6. UnawareBehind'
    BY <1>4, <2>2, <2>4 DEF FollowInv, UnawareBehind
  <2>7. RegisteredAgree'
    BY <1>1, <1>4, <2>3, <2>4 DEF FollowInv, RegisteredAgree
  <2>8. QED
    BY <2>6, <2>7
<1>7. QED
  BY <1>5, <1>6 DEF Tx

LEMMA PutFollows ==
    ASSUME FollowInv, NEW o \in Ops, Put(o)
    PROVE  UnawareBehind' /\ RegisteredAgree'
<1>1. op[o].pc = "put" /\ UNCHANGED <<tgs, compiled, registered, behind>>
  BY DEF Put, tables, filters, history
<1>2. /\ op'[o].pc # "register"
      /\ op[o].affected => /\ op'[o].pc \in {"put", "filters"} /\ op'[o].affected
                           /\ op'[o].ids = op[o].ids
      /\ \A p \in Ops : p # o => op'[p] = op[p]
  BY PutOps DEF FollowInv, GoodInv, Others
<1>3. Unaware' \subseteq Unaware
  BY <1>2 DEF Unaware
<1>4. \A f, t : Agrees(f, t)' <=> Agrees(f, t)
  BY <1>1 DEF Agrees
<1>5. \A f, t : Recompiling(f, t) => Recompiling(f, t)'
  BY <1>1, <1>2 DEF Recompiling
<1>6. QED
  BY <1>1, <1>3, <1>4, <1>5 DEF FollowInv, UnawareBehind, RegisteredAgree

\* The registered filters are those that an operation is about to recompile,
\* and nobody registers one in the meantime.
LEMMA LockFiltersFollows ==
    ASSUME FollowInv, NEW o \in Ops, LockFilters(o)
    PROVE  UnawareBehind' /\ RegisteredAgree'
<1> DEFINE x == [op[o] EXCEPT !.pc = "recompile", !.flts = registered]
<1>1. /\ OpsOK /\ op[o] \in Operations /\ op[o].pc = "filters" /\ Become(o, x)
      /\ UNCHANGED <<tgs, compiled, registered, behind>>
  BY Parts DEF FollowInv, GoodInv, TypeInv, OpsOK, LockFilters, tables, history
<1>2. x.pc = "recompile" /\ x.flts = registered /\ x.ids = op[o].ids /\ x.affected = op[o].affected
  BY <1>1 DEF Operations
<1> HIDE DEF x
<1>3. /\ op'[o].pc = "recompile" /\ op'[o].flts = registered
      /\ op'[o].ids = op[o].ids /\ op'[o].affected = op[o].affected
      /\ \A p \in Ops : p # o => op'[p] = op[p]
  BY <1>1, <1>2, BecomeIs DEF Others
<1>4. Unaware' \subseteq Unaware
  BY <1>3 DEF Unaware
<1>5. \A f, t : Agrees(f, t)' <=> Agrees(f, t)
  BY <1>1 DEF Agrees
<1>6. \A f \in registered, t \in TGs : Recompiling(f, t) => Recompiling(f, t)'
  BY <1>1, <1>3 DEF Recompiling
<1>7. QED
  BY <1>1, <1>4, <1>5, <1>6 DEF FollowInv, UnawareBehind, RegisteredAgree

\* A filter that has just been compiled agrees.
LEMMA CompiledAgrees ==
    ASSUME NEW f, f \in DOMAIN compiled, compiled' = [compiled EXCEPT ![f] = Tagged], tgs' = tgs
    PROVE  \A t \in TGs : Agrees(f, t)'
BY DEF Agrees, Tagged

LEMMA RecompileFollows ==
    ASSUME FollowInv, NEW o \in Ops, Recompile(o)
    PROVE  UnawareBehind' /\ RegisteredAgree'
<1>1. PICK f \in op[o].flts :
        /\ compiled' = [compiled EXCEPT ![f] = Tagged]
        /\ Become(o, [op[o] EXCEPT !.flts = op[o].flts \ {f}])
        /\ behind' = behind \ ({f} \X TGs)
  BY DEF Recompile
<1> DEFINE x == [op[o] EXCEPT !.flts = op[o].flts \ {f}]
<1>2. /\ OpsOK /\ op[o] \in Operations /\ op[o].pc = "recompile"
      /\ UNCHANGED <<tgs, registered>> /\ f \in Filters
      /\ compiled \in [Filters \cup Unheard -> (SUBSET TGs) \cup {None}]
  BY Parts DEF FollowInv, GoodInv, TypeInv, OpsOK, FiltersOK, Operations, Recompile, tables
<1>3. /\ x.pc = "recompile" /\ x.flts = op[o].flts \ {f}
      /\ x.ids = op[o].ids /\ x.affected = op[o].affected
  BY <1>2 DEF Operations
<1> HIDE DEF x
<1>4. Become(o, x)
  BY <1>1 DEF x
<1>5. /\ op'[o].pc = "recompile" /\ op'[o].flts = op[o].flts \ {f}
      /\ op'[o].ids = op[o].ids /\ op'[o].affected = op[o].affected
      /\ \A p \in Ops : p # o => op'[p] = op[p]
  BY <1>2, <1>3, <1>4, BecomeIs DEF Others
<1>6. Unaware' \subseteq Unaware
  BY <1>5 DEF Unaware
<1>7. \A t \in TGs : Agrees(f, t)'
  BY <1>1, <1>2, CompiledAgrees
<1>8. \A g \in Filters, t \in TGs : g # f => /\ (Agrees(g, t)' <=> Agrees(g, t))
                                         /\ (<<g, t>> \in behind' <=> <<g, t>> \in behind)
                                         /\ (Recompiling(g, t) => Recompiling(g, t)')
  <2> SUFFICES ASSUME NEW g \in Filters, NEW t \in TGs, g # f
               PROVE  /\ (Agrees(g, t)' <=> Agrees(g, t))
                      /\ (<<g, t>> \in behind' <=> <<g, t>> \in behind)
                      /\ (Recompiling(g, t) => Recompiling(g, t)')
    OBVIOUS
  <2>1. Agrees(g, t)' <=> Agrees(g, t)
    BY <1>1, <1>2 DEF Agrees
  <2>2. <<g, t>> \in behind' <=> <<g, t>> \in behind
    BY <1>1
  <2>3. Recompiling(g, t) => Recompiling(g, t)'
    BY <1>2, <1>5 DEF Recompiling
  <2>4. QED
    BY <2>1, <2>2, <2>3
<1>9. registered \subseteq Filters /\ Unaware \subseteq Filters
  BY Parts DEF FollowInv, GoodInv, TypeInv, FiltersOK, Unaware
<1>10. UnawareBehind'
  BY <1>6, <1>7, <1>8, <1>9 DEF FollowInv, UnawareBehind
<1>11. RegisteredAgree'
  BY <1>2, <1>7, <1>8, <1>9 DEF FollowInv, RegisteredAgree
<1>12. QED
  BY <1>10, <1>11

LEMMA RecompileFailsFollows ==
    ASSUME FollowInv, NEW o \in Ops, RecompileFails(o)
    PROVE  UnawareBehind' /\ RegisteredAgree'
<1>1. PICK f \in op[o].flts : compiled' = [compiled EXCEPT ![f] = {}]
  BY DEF RecompileFails
<1>2. /\ OpsOK /\ op[o] \in Operations /\ op[o].pc = "recompile" /\ Become(o, Idle)
      /\ UNCHANGED <<tgs, registered>> /\ behind' = behind \cup op[o].flts \X TGs
      /\ compiled \in [Filters \cup Unheard -> (SUBSET TGs) \cup {None}]
  BY Parts DEF FollowInv, GoodInv, TypeInv, OpsOK, FiltersOK, Operations, RecompileFails, tables
<1>3. op'[o].pc = "idle" /\ \A p \in Ops : p # o => op'[p] = op[p]
  BY <1>2, BecomeIs DEF Others, Idle
<1>4. Unaware' \subseteq Unaware
  BY <1>3 DEF Unaware
<1>5. \A g \in op[o].flts, t \in TGs : <<g, t>> \in behind'
  BY <1>2
<1>6. ASSUME NEW g, g \notin op[o].flts, NEW t \in TGs
      PROVE  /\ (Agrees(g, t)' <=> Agrees(g, t))
             /\ (Recompiling(g, t) => Recompiling(g, t)')
  <2>1. g # f
    BY <1>6
  <2>2. Agrees(g, t)' <=> Agrees(g, t)
    BY <1>1, <1>2, <2>1 DEF Agrees
  <2>3. Recompiling(g, t) => Recompiling(g, t)'
    BY <1>2, <1>3, <1>6 DEF Recompiling
  <2>4. QED
    BY <2>2, <2>3
<1>7. behind \subseteq behind'
  BY <1>2
<1>8. UnawareBehind'
  BY <1>4, <1>5, <1>6, <1>7 DEF FollowInv, UnawareBehind
<1>9. RegisteredAgree'
  BY <1>2, <1>5, <1>6, <1>7 DEF FollowInv, RegisteredAgree
<1>10. QED
  BY <1>8, <1>9

LEMMA UnlockFiltersFollows ==
    ASSUME FollowInv, NEW o \in Ops, UnlockFilters(o)
    PROVE  UnawareBehind' /\ RegisteredAgree'
<1>1. /\ OpsOK /\ op[o].pc = "recompile" /\ op[o].flts = {} /\ Become(o, Idle)
      /\ UNCHANGED <<tgs, compiled, registered, behind>>
  BY Parts DEF FollowInv, GoodInv, TypeInv, UnlockFilters, tables, history
<1>2. op'[o].pc = "idle" /\ \A p \in Ops : p # o => op'[p] = op[p]
  BY <1>1, BecomeIs DEF Others, Idle
<1>3. Unaware' \subseteq Unaware
  BY <1>2 DEF Unaware
<1>4. \A f, t : Agrees(f, t)' <=> Agrees(f, t)
  BY <1>1 DEF Agrees
<1>5. \A f, t : Recompiling(f, t) => Recompiling(f, t)'
  BY <1>1, <1>2 DEF Recompiling
<1>6. QED
  BY <1>1, <1>3, <1>4, <1>5 DEF FollowInv, UnawareBehind, RegisteredAgree

\* Clients.
LEMMA LiveFollows ==
    ASSUME FollowInv, NEW o \in Ops, NEW f \in Filters, Live(o, f)
    PROVE  UnawareBehind' /\ RegisteredAgree'
<1>1. /\ op[o].pc = "idle" /\ op'[o].pc = "register" /\ op'[o].flts = {f}
      /\ \A p \in Ops : p # o => op'[p] = op[p]
  BY LiveOps DEF FollowInv, GoodInv, Others
<1>2. /\ compiled' = [compiled EXCEPT ![f] = Tagged] /\ UNCHANGED <<tgs, registered, behind>>
      /\ compiled \in [Filters \cup Unheard -> (SUBSET TGs) \cup {None}]
  BY Parts DEF FollowInv, GoodInv, TypeInv, FiltersOK, Live, tables, history
<1>3. \A t \in TGs : Agrees(f, t)'
  BY <1>2, CompiledAgrees
<1>4. \A g, t : g # f => (Agrees(g, t)' <=> Agrees(g, t))
  BY <1>2 DEF Agrees
<1>5. Unaware' \subseteq Unaware \cup {f}
  BY <1>1 DEF Unaware
<1>6. \A g, t : Recompiling(g, t) => Recompiling(g, t)'
  BY <1>1 DEF Recompiling
<1>7. UnawareBehind'
  BY <1>2, <1>3, <1>4, <1>5 DEF FollowInv, UnawareBehind
<1>8. RegisteredAgree'
  BY <1>2, <1>3, <1>4, <1>6 DEF FollowInv, RegisteredAgree
<1>9. QED
  BY <1>7, <1>8

LEMMA RegisterFollows ==
    ASSUME FollowInv, NEW o \in Ops, Register(o)
    PROVE  UnawareBehind' /\ RegisteredAgree'
<1>1. /\ OpsOK /\ op[o] \in Operations /\ op[o].pc = "register" /\ Become(o, Idle)
      /\ UNCHANGED <<tgs, compiled, behind>> /\ registered' = registered \cup op[o].flts
  BY Parts DEF FollowInv, GoodInv, TypeInv, OpsOK, Register, tables, history
<1>2. op'[o].pc = "idle" /\ \A p \in Ops : p # o => op'[p] = op[p]
  BY <1>1, BecomeIs DEF Others, Idle
<1>3. Unaware' \subseteq Unaware
  BY <1>2 DEF Unaware
<1>4. op[o].flts \subseteq Unaware
  BY <1>1 DEF Unaware, Operations
<1>5. \A f, t : Agrees(f, t)' <=> Agrees(f, t)
  BY <1>1 DEF Agrees
<1>6. \A f, t : Recompiling(f, t) => Recompiling(f, t)'
  BY <1>1, <1>2 DEF Recompiling
<1>7. QED
  BY <1>1, <1>3, <1>4, <1>5, <1>6 DEF FollowInv, UnawareBehind, RegisteredAgree

\* Steps that touch no operation.
LEMMA SameFollows ==
    ASSUME FollowInv, UNCHANGED <<op, tgs, behind>>, registered' \subseteq registered,
           \A f \in Filters : compiled'[f] = compiled[f]
    PROVE  UnawareBehind' /\ RegisteredAgree'
<1>1. registered \subseteq Filters /\ Unaware \subseteq Filters /\ Unaware' = Unaware
  BY Parts DEF FollowInv, GoodInv, TypeInv, FiltersOK, Unaware
<1>2. \A f \in Filters, t \in TGs : Agrees(f, t)' <=> Agrees(f, t)
  BY DEF Agrees
<1>3. \A f, t : Recompiling(f, t)' <=> Recompiling(f, t)
  BY DEF Recompiling
<1>4. QED
  BY <1>1, <1>2, <1>3 DEF FollowInv, UnawareBehind, RegisteredAgree

LEMMA DeleteTGFollows ==
    ASSUME FollowInv, NEW t \in TGs, DeleteTG(t)
    PROVE  UnawareBehind' /\ RegisteredAgree'
<1>1. registered \subseteq Filters /\ Unaware \subseteq Filters /\ tgs \in Records
  BY Parts DEF FollowInv, GoodInv, TypeInv, FiltersOK, TablesOK, Unaware
<1>2. /\ UNCHANGED <<op, compiled, registered>> /\ tgs' = [tgs EXCEPT ![t] = Absent]
      /\ behind' = behind \cup Filters \X ({t} \cap Tagged)
  BY DEF DeleteTG, filters
<1>3. Unaware' = Unaware
  BY <1>2 DEF Unaware
<1>4. ASSUME NEW f \in Filters, NEW u \in TGs
      PROVE  (Agrees(f, u)' <=> Agrees(f, u)) \/ <<f, u>> \in behind'
  <2>1. CASE u = t /\ tgs[t] = "tagged"
    BY <1>2, <2>1 DEF Tagged
  <2>2. CASE u = t /\ tgs[t] # "tagged"
    BY <1>1, <1>2, <2>2 DEF Agrees, Records, Absent
  <2>3. CASE u # t
    BY <1>1, <1>2, <2>3 DEF Agrees, Records
  <2>4. QED
    BY <2>1, <2>2, <2>3
<1>5. \A f, u : Recompiling(f, u)' <=> Recompiling(f, u)
  BY <1>2 DEF Recompiling
<1>6. behind \subseteq behind'
  BY <1>2
<1>7. UnawareBehind'
  BY <1>1, <1>3, <1>4, <1>6 DEF FollowInv, UnawareBehind
<1>8. RegisteredAgree'
  BY <1>1, <1>2, <1>4, <1>5, <1>6 DEF FollowInv, RegisteredAgree
<1>9. QED
  BY <1>7, <1>8

LEMMA FollowStep == FollowInv /\ [Next]_vars => FollowInv'
<1> SUFFICES ASSUME FollowInv, [Next]_vars PROVE UnawareBehind' /\ RegisteredAgree'
  BY GoodStep DEF FollowInv
<1>1. ASSUME NEW o \in Ops, Call(o) \/ Step(o) PROVE UnawareBehind' /\ RegisteredAgree'
  BY <1>1, ReadsFollow, TxFollows, PutFollows, LockFiltersFollows, RecompileFollows,
     RecompileFailsFollows, UnlockFiltersFollows, RegisterFollows DEF Step, Reads
<1>2. CASE \/ \E s \in Systems : CreateSystem(s) \/ DeleteSystem(s)
           \/ Invalidate \/ LiveUnfiltered \/ UNCHANGED vars
  <2>1. UNCHANGED <<op, tgs, behind, registered, compiled>>
    BY <1>2 DEF CreateSystem, DeleteSystem, Invalidate, LiveUnfiltered, vars, tables, filters, history
  <2>2. QED
    BY <2>1, SameFollows
<1>3. CASE Unregister
  BY <1>3, SameFollows DEF Unregister, tables, history
<1>4. CASE \E f \in Unheard : FirstUse(f)
  <2>1. PICK f \in Unheard : FirstUse(f)
    BY <1>4
  <2>2. \A g \in Filters : compiled'[g] = compiled[g]
    <3>1. compiled' = [compiled EXCEPT ![f] = Tagged] /\ f \notin Filters
      BY <2>1, TGCacheAssumption DEF FirstUse
    <3>2. compiled \in [Filters \cup Unheard -> (SUBSET TGs) \cup {None}]
      BY Parts DEF FollowInv, GoodInv, TypeInv, FiltersOK
    <3>3. QED
      BY <3>1, <3>2
  <2>3. QED
    BY <2>1, <2>2, SameFollows DEF FirstUse, tables, history
<1>5. QED
  BY <1>1, <1>2, <1>3, <1>4, LiveFollows, DeleteTGFollows DEF Next

\* However updates, recompilations, the commands of clients and failures
\* interleave (RecompileFilters, RegisterFilter, Recompile), a registered
\* filter passes the talkgroups with its tag, or somebody is about to
\* recompile it, or the change is one that no recompilation follows.
THEOREM FiltersFollow == Spec => []FiltersAgree
<1>1. Init => FollowInv
  BY GoodInit DEF Init, FollowInv, UnawareBehind, RegisteredAgree, Unaware, Idle
<1>2. FollowInv => FiltersAgree
  BY DEF FollowInv, RegisteredAgree, FiltersAgree, Agrees
<1>3. QED
  BY <1>1, <1>2, FollowStep, PTL DEF Spec

-----------------------------------------------------------------------------
(* The names of the systems.                                               *)

\* A talkgroup of the table refers to its system.
Referential == \A t \in TGs : tgs[t] # Absent => SysOf[t] \in systems

\* The system that an operation is about to name is there, or was deleted under it.
HeldSystems == \A o \in Ops, s \in Systems : HoldsSys(o, s) => s \in systems \cup suspect

\* Who goes on with the empty name has learned the system, or has met somebody who had.
BlankLearned ==
    \A o \in Ops : op[o].name = "blank" => \A t \in op[o].ids : SysOf[t] \in learned

NamesInv == GoodInv /\ Referential /\ HeldSystems /\ BlankLearned /\ NamesAgree

LEMMA SysOfOne ==
    ASSUME OpsOK, NEW o \in Ops, OneSystem(op[o].ids)
    PROVE  \A t \in op[o].ids : SysOf[t] = Sys(o)
<1>1. op[o].ids \subseteq TGs
  BY DEF OpsOK, Operations
<1>2. PICK t \in op[o].ids : TRUE
  BY DEF OneSystem
<1>3. \E s \in Systems : \E u \in op[o].ids : SysOf[u] = s
  BY <1>1, <1>2, TGCacheAssumption
<1>4. \E u \in op[o].ids : SysOf[u] = Sys(o)
  BY <1>3 DEF Sys
<1>. QED  BY <1>4 DEF OneSystem

LEMMA SameHolds ==
    ASSUME NEW p, op'[p] = op[p]
    PROVE  \A s : HoldsSys(p, s)' <=> HoldsSys(p, s)
<1>1. Sys(p)' = Sys(p)
  BY DEF Sys
<1>2. \A t : Holds(p, t)' <=> Holds(p, t)
  BY DEF Holds
<1>. QED  BY <1>1, <1>2 DEF HoldsSys

\* An operation goes on to r, having been told no more of its system than it may be.
LEMMA BecomeNames ==
    ASSUME NamesInv, NEW o \in Ops, NEW r, Become(o, r), r.pc \notin {"add", "put", "putsys"},
           r.name = "blank" => \A t \in r.ids : SysOf[t] \in learned',
           systems \subseteq systems', suspect \subseteq suspect', learned \subseteq learned'
    PROVE  HeldSystems' /\ BlankLearned'
<1>1. /\ op'[o] = IF r.pc = "idle" THEN Idle ELSE r
      /\ op'[o].pc = r.pc /\ \A p \in Ops : p # o => op'[p] = op[p]
  BY BecomeIs, Parts DEF NamesInv, GoodInv, TypeInv, Others
<1>2. ASSUME NEW p \in Ops, NEW s \in Systems, HoldsSys(p, s)'
      PROVE  s \in systems' \cup suspect'
  <2>1. p # o
    BY <1>1, <1>2 DEF HoldsSys, Holds
  <2>2. HoldsSys(p, s)
    BY <1>1, <1>2, <2>1, SameHolds
  <2>. QED  BY <2>2 DEF NamesInv, HeldSystems
<1>3. ASSUME NEW p \in Ops, op'[p].name = "blank", NEW t \in op'[p].ids
      PROVE  SysOf[t] \in learned'
  <2>1. CASE p = o
    BY <1>1, <1>3, <2>1 DEF Idle
  <2>2. CASE p # o
    BY <1>1, <1>3, <2>2 DEF NamesInv, BlankLearned
  <2>. QED  BY <2>1, <2>2
<1>. QED  BY <1>2, <1>3 DEF HeldSystems, BlankLearned

\* The steps that change no table, no name and no history.
Quiet(o) ==
    \/ Call(o) \/ Look(o) \/ HintLooks(o) \/ QueryFails(o) \/ SystemName(o) \/ AskSystem(o)
    \/ Tags(o) \/ TxFails(o) \/ LockFilters(o) \/ Recompile(o) \/ RecompileFails(o)
    \/ UnlockFilters(o) \/ Register(o) \/ \E f \in Filters : Live(o, f)

LEMMA QuietTables ==
    ASSUME NEW o \in Ops, Quiet(o)
    PROVE  UNCHANGED <<tgs, systems, names, suspect, learned>>
BY DEF Quiet, Call, Begin, Look, HintLooks, QueryFails, SystemName, AskSystem, Tags, TxFails,
       LockFilters, Recompile, RecompileFails, UnlockFilters, Register, Live, tables, caches,
       history

\* The name of a quiet step's operation stays, or is what the cache has.
LEMMA QuietNames ==
    ASSUME NamesInv, NEW o \in Ops, Quiet(o)
    PROVE  HeldSystems' /\ BlankLearned'
<1>1. OpsOK /\ Asks /\ op[o] \in Operations
  BY Parts DEF NamesInv, GoodInv, TypeInv, OpsOK
<1>2. UNCHANGED <<tgs, systems, names, suspect, learned>>
  BY QuietTables
<1>3. op[o].name = "blank" => \A t \in op[o].ids : SysOf[t] \in learned
  BY DEF NamesInv, BlankLearned
<1>4. ASSUME NEW r, Become(o, r), r.pc \notin {"add", "put", "putsys"},
             r.name = "none" \/ (r.name = op[o].name /\ r.ids = op[o].ids)
      PROVE  HeldSystems' /\ BlankLearned'
  BY <1>2, <1>3, <1>4, BecomeNames
<1>5. ASSUME Become(o, Idle)
      PROVE  HeldSystems' /\ BlankLearned'
  BY <1>4, <1>5 DEF Idle
<1>6. ASSUME NEW next, next \notin {"add", "put", "putsys"}, Become(o, [op[o] EXCEPT !.pc = next])
      PROVE  HeldSystems' /\ BlankLearned'
  <2> DEFINE x == [op[o] EXCEPT !.pc = next]
  <2>1. x.pc = next /\ x.name = op[o].name /\ x.ids = op[o].ids
    BY <1>1 DEF Operations
  <2>2. Become(o, x)
    BY <1>6
  <2> HIDE DEF x
  <2>. QED  BY <1>4, <1>6, <2>1, <2>2
<1>7. CASE Call(o)
  <2>1. PICK what, ids, tag : \E start \in {"look", "hint", "query", "system"} :
          Begin(o, what, ids, tag, start)
    BY <1>7 DEF Call
  <2>2. PICK start \in {"look", "hint", "query", "system"} : Begin(o, what, ids, tag, start)
    BY <2>1
  <2> DEFINE r == [Idle EXCEPT !.what = what, !.ids = ids, !.todo = ids,
                               !.miss = ids, !.tag = tag, !.pc = start]
  <2>3. r.pc = start /\ r.name = "none" /\ Become(o, r)
    BY <2>2 DEF Begin, Become, Idle
  <2> HIDE DEF r
  <2>. QED  BY <1>4, <2>2, <2>3
<1>8. CASE Look(o)
  <2>1. PICK t \in op[o].todo :
          LET left == op[o].todo \ {t}
              miss == (op[o].miss \ {t}) \cup (IF cache[t] = Absent THEN {t} ELSE {})
              r == Sees([op[o] EXCEPT !.todo = left, !.miss = miss], t, cache[t])
          IN Become(o, IF left # {} THEN r ELSE Looked(r))
    BY <1>8 DEF Look
  <2> DEFINE left == op[o].todo \ {t}
             miss == (op[o].miss \ {t}) \cup (IF cache[t] = Absent THEN {t} ELSE {})
             b == [op[o] EXCEPT !.todo = left, !.miss = miss]
             r == Sees(b, t, cache[t])
             x == IF left # {} THEN r ELSE Looked(r)
  <2>2. t \in TGs /\ cache[t] \in Rows \cup {Absent}
    BY <1>1, Parts DEF Operations, NamesInv, GoodInv, TypeInv, CachesOK, Records
  <2>3. b \in Operations /\ b.pc = "look" /\ b.name = op[o].name /\ b.ids = op[o].ids
    BY <1>1, <1>8, <2>2 DEF Operations, Look
  <2>4. Become(o, x)
    BY <2>1
  <2> HIDE DEF b
  <2>5. r \in Operations /\ r.pc = "look" /\ r.name = op[o].name /\ r.ids = op[o].ids
    BY <2>2, <2>3, SeesType
  <2> HIDE DEF r
  <2>6. x.pc \notin {"add", "put", "putsys"} /\ x.name = op[o].name /\ x.ids = op[o].ids
    BY <2>5, LookedType
  <2> HIDE DEF x
  <2>. QED  BY <1>4, <2>4, <2>6
<1>9. CASE HintLooks(o)
  <2> DEFINE miss == {t \in op[o].ids : cache[t] = Absent}
             x == [op[o] EXCEPT !.miss = miss, !.pc = IF miss = {} THEN "idle" ELSE "query"]
  <2>1. x.pc \in {"idle", "query"} /\ x.name = op[o].name /\ x.ids = op[o].ids
    BY <1>1 DEF Operations
  <2>2. Become(o, x)
    BY <1>9 DEF HintLooks
  <2> HIDE DEF x
  <2>. QED  BY <1>4, <2>1, <2>2
<1>10. CASE QueryFails(o)
  <2> DEFINE q == [op[o] EXCEPT !.miss = {}]
  <2>1. q \in Operations /\ q.name = op[o].name /\ q.ids = op[o].ids
    BY <1>1 DEF Operations
  <2>2. Become(o, Read(q)) \/ Become(o, Idle)
    BY <1>10 DEF QueryFails
  <2> HIDE DEF q
  <2>. QED  BY <1>4, <1>5, <2>1, <2>2, ReadType
<1>11. CASE SystemName(o)
  <2>1. op[o].pc \in AskPcs
    BY <1>11 DEF SystemName, AskPcs
  <2>2. /\ Sys(o) \in Systems /\ names[Sys(o)] \in {"none", "name", "blank"}
        /\ \A t \in op[o].ids : SysOf[t] = Sys(o)
    BY <1>1, <2>1, SysType, Parts DEF NamesInv, GoodInv, TypeInv, CachesOK
  <2>3. CASE names[Sys(o)] = "none"
    BY <1>6, <1>11, <2>3 DEF SystemName
  <2>4. CASE names[Sys(o)] # "none"
    <3> DEFINE x == Named(op[o], names[Sys(o)])
    <3>1. Become(o, x)
      BY <1>11, <2>4 DEF SystemName
    <3>2. x.pc \in {"idle", "tx", "look"} /\ x.name = names[Sys(o)] /\ x.ids = op[o].ids
      BY <1>1, <2>2, NamedType
    <3>3. names[Sys(o)] = "blank" => Sys(o) \in learned
      BY <2>2 DEF NamesInv, NamesAgree
    <3> HIDE DEF x
    <3>. QED  BY <1>2, <2>2, <3>1, <3>2, <3>3, BecomeNames
  <2>. QED  BY <2>3, <2>4
<1>12. CASE AskSystem(o)
  <2>1. CASE Become(o, [op[o] EXCEPT !.pc = "putsys"]) /\ Sys(o) \in systems
    <3> DEFINE x == [op[o] EXCEPT !.pc = "putsys"]
    <3>1. x.pc = "putsys" /\ x.name = op[o].name /\ x.ids = op[o].ids
      BY <1>1 DEF Operations
    <3>2. Become(o, x)
      BY <2>1
    <3> HIDE DEF x
    <3>3. /\ op'[o].pc = "putsys" /\ op'[o].name = op[o].name /\ op'[o].ids = op[o].ids
          /\ \A p \in Ops : p # o => op'[p] = op[p]
      BY <1>1, <3>1, <3>2, BecomeIs DEF Others
    <3>4. Sys(o)' = Sys(o)
      BY <3>3 DEF Sys
    <3>5. ASSUME NEW p \in Ops, NEW s \in Systems, HoldsSys(p, s)'
          PROVE  s \in systems \cup suspect
      <4>1. CASE p = o
        BY <2>1, <3>3, <3>4, <3>5, <4>1 DEF HoldsSys, Holds
      <4>2. CASE p # o
        BY <3>3, <3>5, <4>2, SameHolds DEF NamesInv, HeldSystems
      <4>. QED  BY <4>1, <4>2
    <3>6. BlankLearned'
      BY <1>2, <3>3 DEF NamesInv, BlankLearned
    <3>. QED  BY <1>2, <3>5, <3>6 DEF HeldSystems
  <2>2. CASE Become(o, [op[o] EXCEPT !.pc = "learnsys"])
    BY <1>6, <2>2
  <2>. QED  BY <1>5, <1>12, <2>1, <2>2 DEF AskSystem
<1>13. CASE Tags(o)
  <2>1. PICK t \in op[o].todo :
          LET left == op[o].todo \ {t} IN
            Become(o, [op[o] EXCEPT
              !.todo = left, !.pc = IF left = {} THEN "tx" ELSE "tags",
              !.saw[t] = cache[t],
              !.affected = op[o].affected \/ "tagged" \in {cache[t], op[o].tag}])
    BY <1>13 DEF Tags
  <2> DEFINE x == [op[o] EXCEPT
              !.todo = op[o].todo \ {t}, !.pc = IF op[o].todo \ {t} = {} THEN "tx" ELSE "tags",
              !.saw[t] = cache[t],
              !.affected = op[o].affected \/ "tagged" \in {cache[t], op[o].tag}]
  <2>2. x.pc \in {"tx", "tags"} /\ x.name = op[o].name /\ x.ids = op[o].ids
    BY <1>1 DEF Operations
  <2>3. Become(o, x)
    BY <2>1
  <2> HIDE DEF x
  <2>. QED  BY <1>4, <2>2, <2>3
<1>14. CASE LockFilters(o)
  <2> DEFINE x == [op[o] EXCEPT !.pc = "recompile", !.flts = registered]
  <2>1. x.pc = "recompile" /\ x.name = op[o].name /\ x.ids = op[o].ids
    BY <1>1 DEF Operations
  <2>2. Become(o, x)
    BY <1>14 DEF LockFilters
  <2> HIDE DEF x
  <2>. QED  BY <1>4, <2>1, <2>2
<1>15. CASE Recompile(o)
  <2>1. PICK f : Become(o, [op[o] EXCEPT !.flts = op[o].flts \ {f}])
    BY <1>15 DEF Recompile
  <2> DEFINE x == [op[o] EXCEPT !.flts = op[o].flts \ {f}]
  <2>2. x.pc = "recompile" /\ x.name = op[o].name /\ x.ids = op[o].ids
    BY <1>1, <1>15 DEF Recompile, Operations
  <2>3. Become(o, x)
    BY <2>1
  <2> HIDE DEF x
  <2>. QED  BY <1>4, <2>2, <2>3
<1>16. CASE TxFails(o) \/ RecompileFails(o) \/ UnlockFilters(o) \/ Register(o)
  BY <1>5, <1>16 DEF TxFails, RecompileFails, UnlockFilters, Register
<1>17. CASE \E f \in Filters : Live(o, f)
  <2>1. PICK f \in Filters : Live(o, f)
    BY <1>17
  <2> DEFINE x == [Idle EXCEPT !.what = "Live", !.pc = "register", !.flts = {f}]
  <2>2. x.pc = "register" /\ x.name = "none"
    BY DEF Idle
  <2>3. Become(o, x)
    BY <2>1, <2>2 DEF Live, Become
  <2> HIDE DEF x
  <2>. QED  BY <1>4, <2>2, <2>3
<1>. QED  BY <1>7, <1>8, <1>9, <1>10, <1>11, <1>12, <1>13, <1>14, <1>15, <1>16, <1>17 DEF Quiet

LEMMA KeptNames ==
    ASSUME NamesInv, names' = names, systems \subseteq systems',
           \A s \in Systems : s \in suspect => s \in suspect', learned \subseteq learned'
    PROVE  NamesAgree'
BY DEF NamesInv, NamesAgree

\* A system that is named is there, or is suspect.
LEMMA AddAllNames ==
    ASSUME NamesInv, NEW S \in SUBSET TGs, NEW recs, NEW name, AddAll(S, recs, name),
           UNCHANGED <<systems, learned>>, suspect \subseteq suspect',
           \A t \in S : /\ SysOf[t] \in systems \cup suspect
                        /\ name = "blank" => SysOf[t] \in learned
    PROVE  NamesAgree'
<1>1. \A s \in Systems : names'[s] = IF \E t \in S : SysOf[t] = s THEN name ELSE names[s]
  BY DEF AddAll
<1>2. ASSUME NEW s \in Systems
      PROVE  /\ names'[s] # "none" => s \in systems' \cup suspect'
             /\ names'[s] = "blank" => s \in learned'
  <2>1. CASE \E t \in S : SysOf[t] = s
    BY <1>1, <2>1
  <2>2. CASE ~\E t \in S : SysOf[t] = s
    BY <1>1, <2>2 DEF NamesInv, NamesAgree
  <2>. QED  BY <2>1, <2>2
<1>. QED  BY <1>2 DEF NamesAgree

\* What the others hold and know stays so while nothing is taken away.
LEMMA OthersNames ==
    ASSUME NamesInv, NEW o \in Ops, \A p \in Ops : p # o => op'[p] = op[p],
           systems \subseteq systems', suspect \subseteq suspect', learned \subseteq learned',
           SameName(o) \/ (op'[o].name = "blank" => \A t \in op'[o].ids : SysOf[t] \in learned')
    PROVE  /\ BlankLearned'
           /\ \A p \in Ops, s \in Systems : p # o /\ HoldsSys(p, s)' => s \in systems' \cup suspect'
<1>1. ASSUME NEW p \in Ops, op'[p].name = "blank", NEW t \in op'[p].ids
      PROVE  SysOf[t] \in learned'
  BY <1>1 DEF SameName, NamesInv, BlankLearned
<1>2. ASSUME NEW p \in Ops, NEW s \in Systems, p # o, HoldsSys(p, s)'
      PROVE  s \in systems' \cup suspect'
  <2>1. HoldsSys(p, s)
    BY <1>2, SameHolds
  <2>. QED  BY <2>1 DEF NamesInv, HeldSystems
<1>. QED  BY <1>1, <1>2 DEF BlankLearned

NamesKept == Referential' /\ HeldSystems' /\ BlankLearned' /\ NamesAgree'

LEMMA PutSystemNames ==
    ASSUME NamesInv, NEW o \in Ops, PutSystem(o) PROVE NamesKept
<1>1. OpsOK /\ Asks /\ op[o] \in Operations /\ names \in [Systems -> {"none", "name", "blank"}]
  BY Parts DEF NamesInv, GoodInv, TypeInv, OpsOK, CachesOK
<1>2. op[o].pc = "putsys" /\ UNCHANGED <<tgs, systems, suspect, learned>>
  BY DEF PutSystem, tables, history
<1>3. Sys(o) \in Systems
  BY <1>1, <1>2, SysType DEF AskPcs
<1>4. Sys(o) \in systems \cup suspect
  BY <1>2, <1>3 DEF NamesInv, HeldSystems, HoldsSys
<1> DEFINE x == Named(op[o], "name")
<1>5. x.pc \in {"idle", "tx", "look"} /\ x.name = "name" /\ Become(o, x)
  BY <1>1, NamedType DEF PutSystem
<1> HIDE DEF x
<1>6. HeldSystems' /\ BlankLearned'
  BY <1>2, <1>5, BecomeNames
<1>7. \A s \in Systems : names'[s] = IF s = Sys(o) THEN "name" ELSE names[s]
  BY <1>1, <1>3 DEF PutSystem
<1>8. NamesAgree'
  BY <1>2, <1>4, <1>7 DEF NamesInv, NamesAgree
<1>. QED  BY <1>2, <1>6, <1>8 DEF NamesInv, Referential, NamesKept

LEMMA LearnSystemNames ==
    ASSUME NamesInv, NEW o \in Ops, LearnSystem(o) PROVE NamesKept
<1>1. OpsOK /\ Asks /\ op[o] \in Operations /\ names \in [Systems -> {"none", "name", "blank"}]
  BY Parts DEF NamesInv, GoodInv, TypeInv, OpsOK, CachesOK
<1>2. op[o].pc = "learnsys" /\ UNCHANGED <<tgs, suspect>>
  BY DEF LearnSystem
<1>3. Sys(o) \in Systems /\ \A t \in op[o].ids : SysOf[t] = Sys(o)
  BY <1>1, <1>2, SysType DEF AskPcs
<1>4. CASE /\ systems' = systems \cup {Sys(o)} /\ names' = [names EXCEPT ![Sys(o)] = "name"]
           /\ learned' = learned \cup {Sys(o)} /\ Become(o, Named(op[o], "blank"))
  <2> DEFINE x == Named(op[o], "blank")
  <2>1. x.pc \in {"idle", "tx", "look"} /\ x.ids = op[o].ids /\ Become(o, x)
    BY <1>1, <1>4, NamedType
  <2> HIDE DEF x
  <2>2. HeldSystems' /\ BlankLearned'
    BY <1>2, <1>3, <1>4, <2>1, BecomeNames
  <2>3. \A s \in Systems : names'[s] = IF s = Sys(o) THEN "name" ELSE names[s]
    BY <1>1, <1>3, <1>4
  <2>4. NamesAgree'
    BY <1>2, <1>4, <2>3 DEF NamesInv, NamesAgree
  <2>. QED  BY <1>2, <1>4, <2>2, <2>4 DEF NamesInv, Referential, NamesKept
<1>5. CASE Become(o, Idle) /\ UNCHANGED <<systems, names, learned>>
  <2>1. HeldSystems' /\ BlankLearned'
    BY <1>2, <1>5, BecomeNames DEF Idle
  <2>2. NamesAgree'
    BY <1>2, <1>5, KeptNames
  <2>. QED  BY <1>2, <1>5, <2>1, <2>2 DEF NamesInv, Referential, NamesKept
<1>. QED  BY <1>4, <1>5 DEF LearnSystem

LEMMA QueryNames ==
    ASSUME NamesInv, NEW o \in Ops, Query(o) PROVE NamesKept
<1>1. TypeInv /\ GoodInv' /\ op' \in [Ops -> Operations]
  BY GoodStep, Parts DEF NamesInv, GoodInv, Next, Step, TypeInv, TypeOK
<1>2. UNCHANGED <<tgs, systems, names, suspect, learned>>
  BY DEF Query, tables, caches, history
<1>3. /\ op'[o].pc \in {"idle", "tx", "tags", "add"} /\ SameName(o)
      /\ \A t \in TGs : Holds(o, t)' => op'[o].recs[t] = tgs[t]
      /\ \A p \in Ops : p # o => op'[p] = op[p]
  BY <1>1, QueryOps DEF Others
<1>4. \A t \in TGs : Holds(o, t)' => SysOf[t] \in systems
  BY <1>3 DEF Holds, NamesInv, Referential
<1>5. \A s \in Systems : HoldsSys(o, s)' => s \in systems
  BY <1>3, <1>4 DEF HoldsSys
<1>6. BlankLearned' /\ HeldSystems'
  BY <1>2, <1>3, <1>5, OthersNames DEF HeldSystems
<1>. QED  BY <1>2, <1>6, KeptNames DEF NamesInv, Referential, NamesKept

LEMMA AddNames ==
    ASSUME NamesInv, NEW o \in Ops, Add(o) PROVE NamesKept
<1>1. TypeInv /\ Good(op[o]) /\ op[o] \in Operations
  BY Parts DEF NamesInv, GoodInv, AllGood, TypeInv, OpsOK
<1>2. op[o].pc = "add" /\ UNCHANGED <<tgs, systems, suspect, learned>>
  BY DEF Add, tables, history
<1>3. /\ op'[o].pc \in {"idle", "tx", "tags", "add"} /\ SameName(o)
      /\ \A t \in TGs : Holds(o, t)' => Holds(o, t)
      /\ \A p \in Ops : p # o => op'[p] = op[p]
  BY <1>1, AddOps DEF Others
<1>4. PICK S \in SUBSET op[o].todo : AddAll(S, op[o].recs, "name")
  BY <1>1, AddOps
<1>5. \A t \in op[o].todo : t \in TGs /\ SysOf[t] \in Systems /\ Holds(o, t)
  BY <1>1, <1>2, TGCacheAssumption DEF Good, Holds, Operations
<1>6. \A t \in S : t \in TGs /\ SysOf[t] \in systems \cup suspect
  BY <1>5 DEF NamesInv, HeldSystems, HoldsSys
<1>7. NamesAgree'
  BY <1>2, <1>4, <1>6, AddAllNames
<1>8. \A s \in Systems : HoldsSys(o, s)' => HoldsSys(o, s)
  BY <1>3 DEF HoldsSys
<1>9. BlankLearned' /\ HeldSystems'
  BY <1>2, <1>3, <1>8, OthersNames DEF NamesInv, HeldSystems
<1>. QED  BY <1>2, <1>7, <1>9 DEF NamesInv, Referential, NamesKept

LEMMA PutNames ==
    ASSUME NamesInv, NEW o \in Ops, Put(o) PROVE NamesKept
<1>1. TypeInv /\ Good(op[o]) /\ op[o] \in Operations
  BY Parts DEF NamesInv, GoodInv, AllGood, TypeInv, OpsOK
<1>2. op[o].pc = "put" /\ UNCHANGED <<tgs, systems, suspect, learned>>
  BY DEF Put, tables, history
<1>3. PICK u \in op[o].todo :
        /\ AddAll({u}, op[o].recs, op[o].name)
        /\ op'[o].pc \in {"put", "filters", "idle"} /\ SameName(o)
        /\ op'[o].pc = "put" => op'[o].recs = op[o].recs /\ op'[o].todo = op[o].todo \ {u}
        /\ \A p \in Ops : p # o => op'[p] = op[p]
  BY <1>1, PutOps DEF Others
<1>4. u \in TGs /\ u \in op[o].ids /\ SysOf[u] \in Systems /\ Holds(o, u)
  BY <1>1, <1>2, TGCacheAssumption DEF Good, Holds, Operations
<1>5. SysOf[u] \in systems \cup suspect /\ (op[o].name = "blank" => SysOf[u] \in learned)
  BY <1>4 DEF NamesInv, HeldSystems, HoldsSys, BlankLearned
<1>6. PICK recs, name : AddAll({u}, recs, name) /\ (name = "blank" => SysOf[u] \in learned)
  BY <1>3, <1>5
<1>7. NamesAgree'
  BY <1>2, <1>4, <1>5, <1>6, AddAllNames
<1>8. \A t \in TGs : Holds(o, t)' => Holds(o, t)
  BY <1>2, <1>3 DEF Holds
<1>9. \A s \in Systems : HoldsSys(o, s)' => HoldsSys(o, s)
  BY <1>3, <1>8 DEF HoldsSys
<1>10. BlankLearned' /\ HeldSystems'
  BY <1>2, <1>3, <1>9, OthersNames DEF NamesInv, HeldSystems
<1>. QED  BY <1>2, <1>7, <1>10 DEF NamesInv, Referential, NamesKept

\* Who may write writes talkgroups of a system that is there.
LEMMA WritersSystem ==
    ASSUME NamesInv, NEW o \in Ops, op[o].pc = "tx", CanWrite(op[o], Sys(o))
    PROVE  \A t \in op[o].ids : SysOf[t] \in systems
<1>1. OpsOK /\ op[o] \in Operations /\ Good(op[o])
  BY Parts DEF NamesInv, GoodInv, AllGood, TypeInv, OpsOK
<1>2. op[o].what \in Writers /\ op[o].ids \subseteq TGs
  BY <1>1 DEF Good, Operations
<1>3. \A t \in op[o].ids : SysOf[t] = Sys(o)
  BY <1>1, <1>2, SysOfOne DEF Good
<1>4. CASE op[o].what = "UpdateTG"
  BY <1>2, <1>4 DEF CanWrite, NamesInv, Referential
<1>5. CASE op[o].what \in {"UpsertTGs", "LearnTG"}
  <2>1. Sys(o) \in systems
    BY <1>5 DEF CanWrite
  <2>. QED  BY <1>3, <2>1
<1>. QED  BY <1>2, <1>4, <1>5 DEF Writers

LEMMA TxNames ==
    ASSUME NamesInv, NEW o \in Ops, Tx(o) PROVE NamesKept
<1> DEFINE r == op[o]
           row == [t \in TGs |-> IF t \in r.ids THEN Written(r, t) ELSE Absent]
           retagged == r.what = "UpdateTG" /\ \E t \in r.ids : row[t] = "tagged"
           affected == r.affected \/ retagged
           x == [r EXCEPT !.pc = "put", !.recs = row, !.todo = r.ids, !.saw = NoRecs,
                          !.tag = "plain", !.affected = affected]
<1>1. OpsOK /\ r \in Operations /\ r.ids \subseteq TGs /\ r.pc = "tx"
  BY Parts DEF NamesInv, GoodInv, TypeInv, OpsOK, Operations, Tx
<1>2. /\ \A t \in TGs : tgs'[t] = IF t \in r.ids THEN row[t] ELSE tgs[t]
      /\ UNCHANGED <<systems, names, learned>> /\ suspect \subseteq suspect'
  BY DEF Tx, caches
<1>3. \A t \in r.ids : SysOf[t] \in systems
  BY <1>1, WritersSystem DEF Tx
<1>4. Referential' /\ NamesAgree'
  BY <1>2, <1>3, KeptNames DEF NamesInv, Referential
<1>5. Become(o, x) \/ Become(o, Idle)
  BY DEF Tx
<1>6. CASE Become(o, x)
  <2> HIDE DEF row, affected
  <2>1. x.pc = "put" /\ x.todo = r.ids /\ x.name = r.name /\ x.ids = r.ids
    BY <1>1 DEF Operations
  <2> HIDE DEF x
  <2>2. /\ op'[o].pc = "put" /\ op'[o].todo = r.ids /\ op'[o].name = r.name /\ op'[o].ids = r.ids
        /\ \A p \in Ops : p # o => op'[p] = op[p]
    BY <1>1, <1>6, <2>1, BecomeIs DEF Others
  <2>3. \A s \in Systems : HoldsSys(o, s)' => s \in systems
    BY <1>3, <2>2 DEF HoldsSys, Holds
  <2>4. SameName(o)
    BY <2>2 DEF SameName
  <2>5. BlankLearned' /\ HeldSystems'
    BY <1>2, <2>2, <2>3, <2>4, OthersNames DEF HeldSystems
  <2>. QED  BY <1>4, <2>5 DEF NamesKept
<1>7. CASE Become(o, Idle)
  <2>1. BlankLearned' /\ HeldSystems'
    BY <1>2, <1>7, BecomeNames DEF Idle
  <2>. QED  BY <1>4, <2>1 DEF NamesKept
<1>. QED  BY <1>5, <1>6, <1>7

\* Where no operation goes on, what is held stays so.
LEMMA SameNames ==
    ASSUME NamesInv, op' = op, systems \subseteq systems', learned' = learned,
           \A s \in Systems : s \in suspect => s \in suspect'
    PROVE  HeldSystems' /\ BlankLearned'
<1>1. ASSUME NEW p \in Ops, NEW s \in Systems, HoldsSys(p, s)'
      PROVE  s \in systems' \cup suspect'
  BY <1>1, SameHolds DEF NamesInv, HeldSystems
<1>. QED  BY <1>1 DEF NamesInv, HeldSystems, BlankLearned

LEMMA DeleteTGNames ==
    ASSUME NamesInv, NEW t \in TGs, DeleteTG(t) PROVE NamesKept
<1>1. /\ tgs' = [tgs EXCEPT ![t] = Absent] /\ UNCHANGED <<op, systems, names, learned>>
      /\ tgs \in Records
  BY Parts DEF NamesInv, GoodInv, TypeInv, TablesOK, DeleteTG
<1>2. \A s \in Systems : s \in suspect => s \in suspect'
  BY TGCacheAssumption DEF DeleteTG
<1>3. Referential'
  BY <1>1 DEF NamesInv, Referential, Records
<1>4. HeldSystems' /\ BlankLearned' /\ NamesAgree'
  BY <1>1, <1>2, SameNames, KeptNames
<1>. QED  BY <1>3, <1>4 DEF NamesKept

LEMMA CreateSystemNames ==
    ASSUME NamesInv, NEW s \in Systems, CreateSystem(s) PROVE NamesKept
<1>1. /\ UNCHANGED <<tgs, op, suspect, learned>> /\ systems' = systems \cup {s}
      /\ names' = [names EXCEPT ![s] = "name"] /\ names \in [Systems -> {"none", "name", "blank"}]
  BY Parts DEF NamesInv, GoodInv, TypeInv, CachesOK, CreateSystem, history
<1>2. HeldSystems' /\ BlankLearned'
  BY <1>1, SameNames
<1>3. Referential' /\ NamesAgree'
  BY <1>1 DEF NamesInv, Referential, NamesAgree
<1>. QED  BY <1>2, <1>3 DEF NamesKept

\* No name is left; a system that is deleted under an operation is suspect.
LEMMA ClearedNames ==
    ASSUME NamesInv, Cleared, UNCHANGED <<op, learned>>, Referential',
           Unhealed \subseteq suspect',
           \A s \in Systems, o \in Ops :
             HoldsSys(o, s) /\ s \in systems => s \in systems' \cup suspect'
    PROVE  NamesKept
<1>1. ASSUME NEW o \in Ops, NEW s \in Systems, HoldsSys(o, s)'
      PROVE  s \in systems' \cup suspect'
  <2>1. HoldsSys(o, s)
    BY <1>1, SameHolds
  <2>2. s \in suspect => s \in suspect'
    BY <2>1 DEF Unhealed
  <2>. QED  BY <2>1, <2>2 DEF NamesInv, HeldSystems
<1>2. BlankLearned'
  BY DEF NamesInv, BlankLearned
<1>3. NamesAgree'
  BY DEF Cleared, NamesAgree
<1>. QED  BY <1>1, <1>2, <1>3 DEF HeldSystems, NamesKept

LEMMA DeleteSystemNames ==
    ASSUME NamesInv, NEW s \in Systems, DeleteSystem(s) PROVE NamesKept
<1>1. Cleared /\ UNCHANGED <<op, learned, tgs>>
  BY DEF DeleteSystem
<1>2. CASE \E t \in TGs : SysOf[t] = s /\ tgs[t] # Absent
  <2>1. suspect' = Unhealed /\ systems' = systems
    BY <1>2 DEF DeleteSystem
  <2>. QED  BY <1>1, <2>1, ClearedNames DEF NamesInv, Referential
<1>3. CASE ~\E t \in TGs : SysOf[t] = s /\ tgs[t] # Absent
  <2>1. /\ systems' = systems \ {s}
        /\ suspect' = Unhealed \cup (IF \E o \in Ops : HoldsSys(o, s) THEN {s} ELSE {})
    BY <1>3 DEF DeleteSystem
  <2>2. Referential'
    BY <1>1, <1>3, <2>1 DEF NamesInv, Referential
  <2>3. \A u \in Systems, o \in Ops :
          HoldsSys(o, u) /\ u \in systems => u \in systems' \cup suspect'
    BY <2>1
  <2>4. Unhealed \subseteq suspect'
    BY <2>1
  <2>. QED  BY <1>1, <2>2, <2>3, <2>4, ClearedNames
<1>. QED  BY <1>2, <1>3

LEMMA NamesStep == NamesInv /\ [Next]_vars => NamesInv'
<1> SUFFICES ASSUME NamesInv, [Next]_vars PROVE NamesKept
  BY GoodStep DEF NamesInv, NamesKept
<1>1. ASSUME NEW o \in Ops, Quiet(o) PROVE NamesKept
  <2>1. UNCHANGED <<tgs, systems, names, suspect, learned>>
    BY <1>1, QuietTables
  <2>. QED  BY <1>1, <2>1, QuietNames, KeptNames DEF NamesInv, Referential, NamesKept
<1>2. ASSUME NEW o \in Ops, Call(o) \/ Step(o) \/ \E f \in Filters : Live(o, f)
      PROVE  NamesKept
  BY <1>1, <1>2, QueryNames, AddNames, PutSystemNames, LearnSystemNames, TxNames, PutNames
     DEF Step, Quiet
<1>3. ASSUME UNCHANGED <<tgs, systems, names, op, suspect, learned>>
      PROVE  NamesKept
  BY <1>3, SameNames, KeptNames DEF NamesInv, Referential, NamesKept
<1>4. CASE UNCHANGED vars \/ LiveUnfiltered \/ Unregister \/ \E f \in Unheard : FirstUse(f)
  BY <1>3, <1>4 DEF vars, LiveUnfiltered, Unregister, FirstUse, tables, caches, history
<1>5. CASE Invalidate
  <2>1. Cleared /\ suspect' = Unhealed /\ UNCHANGED <<tgs, systems, op, learned>>
    BY <1>5 DEF Invalidate, tables
  <2>. QED  BY <2>1, ClearedNames DEF NamesInv, Referential
<1>. QED
  BY <1>2, <1>4, <1>5, DeleteTGNames, CreateSystemNames, DeleteSystemNames DEF Next

\* However asking for systems, learning them, writing, deleting and clearing
\* interleave, the cache names no system that is not there, unless it was
\* deleted while an operation was about to name it; and it has an empty name
\* only for a system that a call of an unknown talkgroup has learned.
THEOREM NamesCoherent == Spec => []NamesAgree
<1>1. Init => NamesInv
  <2> SUFFICES ASSUME Init PROVE NamesInv
    OBVIOUS
  <2>1. GoodInv
    BY GoodInit
  <2>2. Referential
    BY DEF Init, Referential
  <2>3. HeldSystems /\ BlankLearned /\ NamesAgree
    BY DEF Init, Idle, HeldSystems, BlankLearned, NamesAgree, HoldsSys, Holds
  <2>. QED  BY <2>1, <2>2, <2>3 DEF NamesInv
<1>2. NamesInv => NamesAgree
  BY DEF NamesInv
<1>. QED  BY <1>1, <1>2, NamesStep, PTL DEF Spec
=============================================================================
