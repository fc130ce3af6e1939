------------------------------ MODULE TGCache ------------------------------
(***************************************************************************)
(* The talkgroup store (pkg/talkgroups/tgstore): a cache over two tables,  *)
(* and the filters that select calls by the tags of their talkgroups       *)
(* (pkg/calls/filter).                                                     *)
(*                                                                         *)
(* Every operation is a goroutine.  It holds the lock of the cache only    *)
(* while it touches the cache, never while it queries: others come         *)
(* between its query and its add.  DeleteTG, DeleteSystem and CreateSystem *)
(* alone hold it all the time, so each is one action.                      *)
(*                                                                         *)
(* A talkgroup is abstracted to whether it has the tag the filters are     *)
(* about.                                                                  *)
(***************************************************************************)
EXTENDS Naturals, FiniteSets

CONSTANTS
    TGs,        \* the talkgroups
    Systems,    \* the systems
    SysOf,      \* TGs -> Systems
    Starting,   \* what the table may hold at the start: TGs -> Rows or Absent
    Ops,        \* goroutines
    Filters,    \* the filters a client sends, one after the other, ...
    Unheard,    \* ... and those of audio backends, which nobody registers
    MaxOps,     \* bound on the number of operations
    Faults,     \* what may fail, see FaultKinds
    MaxFaults,  \* bound on the number of failures
    None

FaultKinds ==
    {"query",       \* a query fails
     "sql",         \* a statement that writes, or COMMIT, fails
     "commitlost"}  \* COMMIT is executed and reported as failed

Absent == "absent"
Rows == {"plain", "tagged"}

\* What a writer is given: the new tags, or none.
Inputs == Rows \cup {"keep"}

ASSUME TGCacheAssumption ==
    /\ SysOf \in [TGs -> Systems] /\ Starting \subseteq [TGs -> Rows \cup {Absent}]
    /\ Unheard \cap Filters = {} /\ TGs \cap Systems = {}
    /\ MaxOps \in Nat /\ Faults \subseteq FaultKinds /\ MaxFaults \in Nat
    /\ None \notin Ops \cup Filters \cup Unheard

VARIABLES
    tgs,         \* the talkgroups table
    systems,     \* the systems table
    cache,       \* t.tgs
    names,       \* t.systems: "name", or "blank" for the empty string
    compiled,    \* the talkgroups a filter passes; None before it is compiled
    registered,  \* t.filters
    using,       \* the client's filter
    filtMtx,     \* who holds the lock of the filters
    op,          \* the goroutines, each field empty when it does not matter
                 \* any more; the field saw is history: what UpdateTG and
                 \* UpsertTGs have found before they write
    started,     \* how many operations there were
    faults,      \* how often something failed
    suspect,     \* history: the talkgroups written while another operation
                 \* had a record of them, or whose writer knew nothing of it,
                 \* and the systems deleted in the same way
    behind,      \* history: the filters and talkgroups of the changes that no
                 \* recompilation follows
    learned      \* history: the systems that LearnTG learned

tables == <<tgs, systems>>
caches == <<cache, names>>
filters == <<compiled, registered, using, filtMtx>>
history == <<suspect, behind, learned>>
vars == <<tables, caches, filters, op, started, faults, history>>

NoRecs == [t \in TGs |-> Absent]

Idle ==
    [pc |-> "idle", what |-> "none", ids |-> {}, todo |-> {}, miss |-> {}, recs |-> NoRecs,
     name |-> "none", tag |-> "plain", affected |-> FALSE, saw |-> NoRecs, flts |-> {}]

Init ==
    /\ tgs \in Starting /\ systems = {SysOf[t] : t \in {u \in TGs : tgs[u] # Absent}}
    /\ cache = NoRecs /\ names = [s \in Systems |-> "none"]
    /\ compiled = [f \in Filters \cup Unheard |-> None] /\ registered = {} /\ using = None
    /\ filtMtx = None /\ op = [o \in Ops |-> Idle] /\ started = 0 /\ faults = 0
    /\ suspect = {} /\ behind = {} /\ learned = {}

Fault(k) == k \in Faults /\ faults < MaxFaults /\ faults' = faults + 1

Starts == started < MaxOps /\ started' = started + 1

\* An operation that is over leaves nothing behind.
Become(o, r) == op' = [op EXCEPT ![o] = IF r.pc = "idle" THEN Idle ELSE r]

Sys(o) == CHOOSE s \in Systems : \E t \in op[o].ids : SysOf[t] = s

Tagged == {t \in TGs : tgs[t] = "tagged"}

\* An operation with a record that it will put into the cache.
Holds(o, t) == op[o].pc \in {"add", "put"} /\ t \in op[o].todo /\ op[o].recs[t] # Absent

HoldsSys(o, s) ==
    (op[o].pc = "putsys" /\ s = Sys(o)) \/ \E t \in TGs : SysOf[t] = s /\ Holds(o, t)

Others(o) == Ops \ {o}

-----------------------------------------------------------------------------
(* The operations.                                                         *)

Begin(o, what, ids, tag, pc) ==
    /\ op[o].pc = "idle" /\ Starts
    /\ op' = [op EXCEPT ![o] = [Idle EXCEPT !.what = what, !.ids = ids, !.todo = ids,
                                            !.miss = ids, !.tag = tag, !.pc = pc]]
    /\ UNCHANGED <<tables, caches, filters, faults, history>>

OneSystem(S) == S # {} /\ \A t, u \in S : SysOf[t] = SysOf[u]

Call(o) ==
    \/ \E t \in TGs : Begin(o, "TG", {t}, "plain", "look")
    \/ \E S \in SUBSET TGs \ {{}} : Begin(o, "Load", S, "plain", "hint")
    \/ \E S \in SUBSET TGs \ {{}} : Begin(o, "TGs", S, "plain", "look")
    \/ Begin(o, "TGs", TGs, "plain", "query")  \* all of them, or a page
    \/ \E t \in TGs, g \in Inputs : Begin(o, "UpdateTG", {t}, g, "system")
    \/ \E S \in SUBSET TGs, g \in Inputs : OneSystem(S) /\ Begin(o, "UpsertTGs", S, g, "system")
    \/ \E t \in TGs : Begin(o, "LearnTG", {t}, "plain", "system")
    \/ \E t \in TGs : Begin(o, "SystemName", {t}, "plain", "system")

-----------------------------------------------------------------------------
(* Reading: TG, TGs, Hint and Load, and what UpdateTG and UpsertTGs read   *)
(* before they write.                                                      *)

\* What follows in operation r when it has read.
Read(r) ==
    CASE r.what = "UpdateTG"  -> [r EXCEPT !.pc = "tx"]
      [] r.what = "UpsertTGs" -> [r EXCEPT !.pc = "tags", !.todo = r.ids]
      [] OTHER                -> [r EXCEPT !.pc = "idle"]

\* UpdateTG has found row, and will recompile the filters of its tags.
Sees(r, t, row) ==
    IF r.what = "UpdateTG"
      THEN [r EXCEPT !.saw[t] = row, !.affected = r.affected \/ row = "tagged"] ELSE r

\* TG queries when it has missed.  TGs queries in any case.
Looked(r) ==
    IF r.miss # {} \/ r.what \in {"TGs", "UpsertTGs"} THEN [r EXCEPT !.pc = "query"] ELSE Read(r)

\* The lock is taken for each talkgroup by itself.
Look(o) ==
    /\ op[o].pc = "look"
    /\ \E t \in op[o].todo :
         LET left == op[o].todo \ {t}
             miss == (op[o].miss \ {t}) \cup (IF cache[t] = Absent THEN {t} ELSE {})
             r == Sees([op[o] EXCEPT !.todo = left, !.miss = miss], t, cache[t])
         IN Become(o, IF left # {} THEN r ELSE Looked(r))
    /\ UNCHANGED <<tables, caches, filters, started, faults, history>>

\* Hint looks at all of them under one lock.
HintLooks(o) ==
    /\ op[o].pc = "hint"
    /\ LET miss == {t \in op[o].ids : cache[t] = Absent} IN
         Become(o, [op[o] EXCEPT !.miss = miss, !.pc = IF miss = {} THEN "idle" ELSE "query"])
    /\ UNCHANGED <<tables, caches, filters, started, faults, history>>

Query(o) ==
    /\ op[o].pc = "query"
    /\ LET found == {t \in op[o].miss : tgs[t] # Absent}
           recs == [t \in TGs |-> IF t \in found THEN tgs[t] ELSE Absent]
           r == [op[o] EXCEPT !.todo = found, !.recs = recs, !.miss = {}]
       IN Become(o, IF found = {} THEN Read(r)
                    ELSE [Sees(r, CHOOSE t \in found : TRUE, recs[CHOOSE t \in found : TRUE])
                            EXCEPT !.pc = "add"])
    /\ UNCHANGED <<tables, caches, filters, started, faults, history>>

\* The error ends all but UpdateTG, which writes all the same.
QueryFails(o) ==
    /\ op[o].pc = "query" /\ Fault("query")
    /\ Become(o, IF op[o].what = "UpdateTG" THEN Read([op[o] EXCEPT !.miss = {}]) ELSE Idle)
    /\ UNCHANGED <<tables, caches, filters, started, history>>

AddAll(S, recs, name) ==
    /\ cache' = [t \in TGs |-> IF t \in S THEN recs[t] ELSE cache[t]]
    /\ names' = [s \in Systems |-> IF \E t \in S : SysOf[t] = s THEN name ELSE names[s]]

\* The rows come joined with the system.  Load adds them one at a time.
Add(o) ==
    /\ op[o].pc = "add"
    /\ \E S \in SUBSET op[o].todo :
         LET left == op[o].todo \ S
             r == [op[o] EXCEPT !.todo = left]
         IN /\ IF op[o].what = "Load" THEN Cardinality(S) = 1 ELSE left = {}
            /\ AddAll(S, op[o].recs, "name")
            /\ Become(o, IF left # {} THEN r ELSE Read([r EXCEPT !.recs = NoRecs]))
    /\ UNCHANGED <<tables, filters, started, faults, history>>

-----------------------------------------------------------------------------
(* SystemName, which the writers ask first.                                *)

Named(r, name) ==
    [r EXCEPT !.name = name,
              !.pc = CASE r.what = "SystemName" -> "idle"
                       [] r.what = "LearnTG"    -> "tx"
                       [] OTHER                 -> "look"]

SystemName(o) ==
    /\ op[o].pc = "system"
    /\ LET name == names[Sys(o)] IN
         Become(o, IF name = "none" THEN [op[o] EXCEPT !.pc = "asksys"]
                   ELSE Named(op[o], name))
    /\ UNCHANGED <<tables, caches, filters, started, faults, history>>

\* An error counts as no system, which LearnTG then learns.
AskSystem(o) ==
    /\ op[o].pc = "asksys"
    /\ \/ /\ Sys(o) \in systems /\ Become(o, [op[o] EXCEPT !.pc = "putsys"])
          /\ UNCHANGED faults
       \/ /\ (Sys(o) \notin systems /\ UNCHANGED faults) \/ Fault("query")
          /\ Become(o, IF op[o].what = "LearnTG" THEN [op[o] EXCEPT !.pc = "learnsys"] ELSE Idle)
    /\ UNCHANGED <<tables, caches, filters, started, history>>

PutSystem(o) ==
    /\ op[o].pc = "putsys"
    /\ names' = [names EXCEPT ![Sys(o)] = "name"]
    /\ Become(o, Named(op[o], "name"))
    /\ UNCHANGED <<tables, cache, filters, started, faults, history>>

\* LearnSystem.  LearnTG goes on with the name it had found, which is empty.
LearnSystem(o) ==
    /\ op[o].pc = "learnsys"
    /\ \/ /\ Sys(o) \notin systems
          /\ systems' = systems \cup {Sys(o)} /\ names' = [names EXCEPT ![Sys(o)] = "name"]
          /\ learned' = learned \cup {Sys(o)}
          /\ Become(o, Named(op[o], "blank")) /\ UNCHANGED faults
       \/ /\ (Sys(o) \in systems /\ UNCHANGED faults) \/ Fault("sql")
          /\ Become(o, Idle) /\ UNCHANGED <<systems, names, learned>>
    /\ UNCHANGED <<tgs, cache, filters, started, suspect, behind>>

-----------------------------------------------------------------------------
(* Writing.                                                                *)

\* Variant: the tags that the talkgroups had are forgotten.
TagsOfInput(o) ==
    /\ op[o].pc = "tags"
    /\ \E t \in op[o].todo :
         LET left == op[o].todo \ {t} IN
           Become(o, [op[o] EXCEPT
             !.todo = left, !.pc = IF left = {} THEN "tx" ELSE "tags",
             !.saw[t] = cache[t],
             !.affected = op[o].affected \/ op[o].tag = "tagged"])
    /\ UNCHANGED <<tables, caches, filters, started, faults, history>>

\* The tags of the inputs, and those the cache has for them: the filters
\* that UpsertTGs will recompile.
Tags(o) ==
    /\ op[o].pc = "tags"
    /\ \E t \in op[o].todo :
         LET left == op[o].todo \ {t} IN
           Become(o, [op[o] EXCEPT
             !.todo = left, !.pc = IF left = {} THEN "tx" ELSE "tags",
             !.saw[t] = cache[t],
             !.affected = op[o].affected \/ "tagged" \in {cache[t], op[o].tag}])
    /\ UNCHANGED <<tables, caches, filters, started, faults, history>>

\* The row to update is there, or the one to learn is not; a talkgroup
\* refers to its system.
CanWrite(r, s) ==
    CASE r.what = "UpdateTG"  -> \A t \in r.ids : tgs[t] # Absent
      [] r.what = "LearnTG"   -> s \in systems /\ \A t \in r.ids : tgs[t] = Absent
      [] r.what = "UpsertTGs" -> s \in systems

\* The row of t afterwards: tags that are not given stay.
Written(r, t) ==
    IF r.tag # "keep" THEN r.tag ELSE IF tgs[t] = Absent THEN "plain" ELSE tgs[t]

\* The filters that are compiled but not registered yet.
Unaware == {f \in Filters : \E p \in Ops : op[p].pc = "register" /\ f \in op[p].flts}

Tx(o) ==
    /\ op[o].pc = "tx" /\ CanWrite(op[o], Sys(o))
    /\ LET r == op[o]
           changed == {t \in r.ids : (tgs[t] = "tagged") # (Written(r, t) = "tagged")}
           unseen == {t \in changed : r.saw[t] # tgs[t]}
           row == [t \in TGs |-> IF t \in r.ids THEN Written(r, t) ELSE Absent]
           retagged == r.what = "UpdateTG" /\ \E t \in r.ids : row[t] = "tagged"
       IN /\ tgs' = [t \in TGs |-> IF t \in r.ids THEN row[t] ELSE tgs[t]]
          /\ \/ /\ Become(o, [r EXCEPT
                     !.pc = "put", !.recs = row, !.todo = r.ids, !.saw = NoRecs, !.tag = "plain",
                     !.affected = r.affected \/ retagged])
                /\ suspect' = suspect \cup {t \in r.ids : \E p \in Others(o) : Holds(p, t)}
                /\ behind' = behind \cup Unaware \X changed \cup Filters \X unseen
                /\ UNCHANGED faults
             \/ /\ Fault("commitlost") /\ Become(o, Idle)
                /\ suspect' = suspect \cup r.ids /\ behind' = behind \cup Filters \X changed
    /\ UNCHANGED <<systems, caches, filters, started, learned>>

TxFails(o) ==
    /\ op[o].pc = "tx"
    /\ (~CanWrite(op[o], Sys(o)) /\ UNCHANGED faults) \/ Fault("sql")
    /\ Become(o, Idle)
    /\ UNCHANGED <<tables, caches, filters, started, history>>

\* Variant: the record is not put into the cache when the cache has one.
PutNew(o) ==
    /\ op[o].pc = "put"
    /\ \E t \in op[o].todo :
         LET left == op[o].todo \ {t}
             r == [op[o] EXCEPT !.todo = left]
         IN /\ AddAll(IF cache[t] = Absent THEN {t} ELSE {}, op[o].recs, op[o].name)
            /\ Become(o, IF left # {} THEN r
                         ELSE [r EXCEPT !.pc = IF r.affected THEN "filters" ELSE "idle"])
    /\ UNCHANGED <<tables, filters, started, faults, history>>

Put(o) ==
    /\ op[o].pc = "put"
    /\ \E t \in op[o].todo :
         LET left == op[o].todo \ {t}
             r == [op[o] EXCEPT !.todo = left]
         IN /\ AddAll({t}, op[o].recs, op[o].name)
            /\ Become(o, IF left # {} THEN r
                         ELSE [r EXCEPT !.pc = IF r.affected THEN "filters" ELSE "idle"])
    /\ UNCHANGED <<tables, filters, started, faults, history>>

Held(t) == \E o \in Ops : Holds(o, t)

DeleteTG(t) ==
    /\ Starts
    /\ tgs' = [tgs EXCEPT ![t] = Absent]
    /\ \/ /\ cache' = [cache EXCEPT ![t] = Absent]
          /\ suspect' = (suspect \ {t}) \cup (IF Held(t) THEN {t} ELSE {})
          /\ UNCHANGED faults
       \/ Fault("commitlost") /\ suspect' = suspect \cup {t} /\ UNCHANGED cache
    /\ behind' = behind \cup Filters \X ({t} \cap Tagged)
    /\ UNCHANGED <<systems, names, filters, op, learned>>

CreateSystem(s) ==
    /\ Starts /\ s \notin systems
    /\ systems' = systems \cup {s} /\ names' = [names EXCEPT ![s] = "name"]
    /\ UNCHANGED <<tgs, cache, filters, op, faults, history>>

\* What may still go wrong when the cache has been cleared.
Unhealed ==
    {t \in suspect \cap TGs : Held(t)}
      \cup {s \in suspect \cap Systems : \E o \in Ops : HoldsSys(o, s)}

Cleared == cache' = NoRecs /\ names' = [s \in Systems |-> "none"]

\* HUP.
Invalidate ==
    /\ Starts /\ Cleared
    /\ suspect' = Unhealed
    /\ UNCHANGED <<tables, filters, op, faults, behind, learned>>

\* Variant: only the system's own talkgroups are forgotten, not its name.
DeleteSystemNamed(s) ==
    /\ Starts /\ cache' = NoRecs
    /\ IF \E t \in TGs : SysOf[t] = s /\ tgs[t] # Absent
         THEN suspect' = Unhealed /\ UNCHANGED systems
         ELSE /\ systems' = systems \ {s}
              /\ suspect' = Unhealed \cup (IF \E o \in Ops : HoldsSys(o, s) THEN {s} ELSE {})
    /\ UNCHANGED <<tgs, names, filters, op, faults, behind, learned>>

\* The cache is cleared first; a system with talkgroups is not deleted.
DeleteSystem(s) ==
    /\ Starts /\ Cleared
    /\ IF \E t \in TGs : SysOf[t] = s /\ tgs[t] # Absent
         THEN suspect' = Unhealed /\ UNCHANGED systems
         ELSE /\ systems' = systems \ {s}
              /\ suspect' = Unhealed \cup (IF \E o \in Ops : HoldsSys(o, s) THEN {s} ELSE {})
    /\ UNCHANGED <<tgs, filters, op, faults, behind, learned>>

-----------------------------------------------------------------------------
(* Filters.                                                                *)

LockFilters(o) ==
    /\ op[o].pc = "filters" /\ filtMtx = None
    /\ filtMtx' = o /\ Become(o, [op[o] EXCEPT !.pc = "recompile", !.flts = registered])
    /\ UNCHANGED <<tables, caches, compiled, registered, using, started, faults, history>>

\* Recompile of one filter, whose lock it holds from the query on.
Recompile(o) ==
    /\ op[o].pc = "recompile"
    /\ \E f \in op[o].flts :
         /\ compiled' = [compiled EXCEPT ![f] = Tagged]
         /\ Become(o, [op[o] EXCEPT !.flts = op[o].flts \ {f}])
         /\ behind' = behind \ ({f} \X TGs)
    /\ UNCHANGED <<tables, caches, registered, using, filtMtx, started, faults, suspect, learned>>

\* It begins with an empty map.  The filters after it are left alone.
RecompileFails(o) ==
    /\ op[o].pc = "recompile" /\ Fault("query")
    /\ \E f \in op[o].flts : compiled' = [compiled EXCEPT ![f] = {}]
    /\ filtMtx' = None /\ Become(o, Idle) /\ behind' = behind \cup op[o].flts \X TGs
    /\ UNCHANGED <<tables, caches, registered, using, started, suspect, learned>>

UnlockFilters(o) ==
    /\ op[o].pc = "recompile" /\ op[o].flts = {}
    /\ filtMtx' = None /\ Become(o, Idle)
    /\ UNCHANGED <<tables, caches, compiled, registered, using, started, faults, history>>

\* The client's lock is free.
ClientFree == \A p \in Ops : op[p].pc # "register"

\* The command Live with a filter.  One that cannot be compiled is dropped.
Live(o, f) ==
    /\ op[o].pc = "idle" /\ Starts /\ compiled[f] = None /\ ClientFree
    /\ compiled' = [compiled EXCEPT ![f] = Tagged]
    /\ op' = [op EXCEPT ![o] = [Idle EXCEPT !.what = "Live", !.pc = "register", !.flts = {f}]]
    /\ UNCHANGED <<tables, caches, registered, using, filtMtx, faults, history>>

\* RegisterFilter.  The filter the client had stays registered.
Register(o) ==
    /\ op[o].pc = "register" /\ filtMtx = None
    /\ registered' = registered \cup op[o].flts /\ using' \in op[o].flts
    /\ Become(o, Idle)
    /\ UNCHANGED <<tables, caches, compiled, filtMtx, started, faults, history>>

\* The command Live without a filter.
LiveUnfiltered ==
    /\ using # None /\ ClientFree /\ using' = None
    /\ UNCHANGED <<tables, caches, compiled, registered, filtMtx, op, started, faults, history>>

\* The client goes: UnregisterFilter.
Unregister ==
    /\ using # None /\ filtMtx = None
    /\ registered' = registered \ {using} /\ using' = None
    /\ UNCHANGED <<tables, caches, compiled, filtMtx, op, started, faults, history>>

\* ensureCompiled, when a filter nobody registered is used first.
FirstUse(f) ==
    /\ Starts /\ compiled[f] = None /\ compiled' = [compiled EXCEPT ![f] = Tagged]
    /\ UNCHANGED <<tables, caches, registered, using, filtMtx, op, faults, history>>

-----------------------------------------------------------------------------
Step(o) ==
    \/ Look(o) \/ HintLooks(o) \/ Query(o) \/ QueryFails(o) \/ Add(o)
    \/ SystemName(o) \/ AskSystem(o) \/ PutSystem(o) \/ LearnSystem(o)
    \/ Tags(o) \/ Tx(o) \/ TxFails(o) \/ Put(o)
    \/ LockFilters(o) \/ Recompile(o) \/ RecompileFails(o) \/ UnlockFilters(o) \/ Register(o)

Next ==
    \/ \E o \in Ops : Call(o) \/ Step(o) \/ \E f \in Filters : Live(o, f)
    \/ \E t \in TGs : DeleteTG(t)
    \/ \E s \in Systems : CreateSystem(s) \/ DeleteSystem(s)
    \/ Invalidate \/ LiveUnfiltered \/ Unregister
    \/ \E f \in Unheard : FirstUse(f)

Spec == Init /\ [][Next]_vars

-----------------------------------------------------------------------------
(* Correctness.                                                            *)

Records == [TGs -> Rows \cup {Absent}]

Operations ==
    [pc : {"idle", "look", "hint", "query", "add", "system", "asksys", "putsys", "learnsys",
           "tags", "tx", "put", "filters", "recompile", "register"},
     what : {"none", "TG", "Load", "TGs", "UpdateTG", "UpsertTGs", "LearnTG", "SystemName", "Live"},
     ids : SUBSET TGs, todo : SUBSET TGs, miss : SUBSET TGs, recs : Records,
     name : {"none", "name", "blank"}, tag : Inputs, affected : BOOLEAN, saw : Records,
     flts : SUBSET Filters]

TypeOK ==
    /\ tgs \in Records /\ systems \subseteq Systems
    /\ cache \in Records /\ names \in [Systems -> {"none", "name", "blank"}]
    /\ compiled \in [Filters \cup Unheard -> (SUBSET TGs) \cup {None}]
    /\ registered \subseteq Filters /\ using \in Filters \cup {None}
    /\ filtMtx \in Ops \cup {None} /\ op \in [Ops -> Operations]
    /\ \A o \in Ops : op[o].pc = "recompile" <=> filtMtx = o
    /\ started \in 0..MaxOps /\ faults \in 0..MaxFaults
    /\ suspect \subseteq TGs \cup Systems /\ behind \subseteq Filters \X TGs
    /\ learned \subseteq Systems

\* A writer that has committed, and has not put its record into the cache.
Putting(t) == \E o \in Ops : op[o].pc = "put" /\ t \in op[o].todo

\* The cache has what the table has, but while its writer is about to tell
\* it, and after writes that overlapped with another operation's query and
\* add, or were not known to have happened.  HUP heals the latter, unless
\* such an operation is still under way.
CacheAgrees ==
    \A t \in TGs : cache[t] \in {Absent, tgs[t]} \/ t \in suspect \/ Putting(t)

\* No system is named that is not there, with the same exception, and a
\* system has its name, if a call of an unknown talkgroup has not learned it.
NamesAgree ==
    \A s \in Systems :
      /\ names[s] # "none" => s \in systems \cup suspect
      /\ names[s] = "blank" => s \in learned

\* An operation that will recompile filter f because of t.
Recompiling(f, t) ==
    \E o \in Ops :
      /\ t \in op[o].ids /\ op[o].affected
      /\ op[o].pc \in {"put", "filters"} \/ (op[o].pc = "recompile" /\ f \in op[o].flts)

\* A registered filter passes the talkgroups with its tag, once those who
\* changed tags have recompiled it: however updates, their recompilations and
\* the commands of clients interleave, a filter is behind only where a change
\* came between its compilation and its registration, where the updater did
\* not see the tag it took away, or after a delete or a failure; and it is
\* not after the next recompilation.
FiltersAgree ==
    \A f \in registered, t \in TGs :
      (t \in compiled[f] <=> tgs[t] = "tagged") \/ <<f, t>> \in behind \/ Recompiling(f, t)

\* "FilterCache allows tgstore to track tag changes to keep filters updated"
\* (store.go:97): when nothing is under way, a filter passes the talkgroups
\* with its tag.
FiltersUpdated ==
    (\A o \in Ops : op[o].pc = "idle") =>
      \A f \in Filters \cup Unheard : compiled[f] \in {None, Tagged}

\* "SystemName retrieves a system name from the store" (store.go:71).
NameIsRight == \A s \in Systems : names[s] # "blank"
=============================================================================
