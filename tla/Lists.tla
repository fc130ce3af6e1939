------------------------------- MODULE Lists -------------------------------
(***************************************************************************)
(* The paginated lists of calls, incidents, talkgroups and shares: what    *)
(* their queries select, count and order, and the pages a client puts      *)
(* together.  Each request is a pure function of the tables it reads; the  *)
(* order of rows with the same key is left to the database, and may be     *)
(* another one for every page.                                             *)
(*                                                                         *)
(* A parameter that is not given is 0 when it is a number, a time or an    *)
(* identifier, "" when it is a text, and the empty set of tags (NULL).     *)
(***************************************************************************)
EXTENDS Integers, Sequences, FiniteSets, SequencesExt, Functions

CONSTANT Word      \* the bits of an int32
ASSUME WordAssumption == Word \in Nat \ {0}

\* int32 arithmetic.
Int32(n) == ((n + 2^(Word - 1)) % 2^Word) - 2^(Word - 1)

\* A text, as its words, matches a filter.
Matches(text, word) == word \in text
\* The members of ks in ascending order.
Ascending(ks) == SetToSortSeq(ks, <)
\* The orders the database may return rows in, when it sorts them by key[row],
\* ascending or descending, and the key decides no further.
Orders(rows, key, dir) ==
    {s \in [1..Cardinality(rows) -> rows] :
        /\ Range(s) = rows
        /\ \A m, n \in DOMAIN s : m < n =>
              IF dir = "desc" THEN key[s[m]] >= key[s[n]] ELSE key[s[m]] <= key[s[n]]}

(***************************************************************************)
(* Pagination.                                                             *)
(***************************************************************************)
DefaultIfNilOrZero(n, default) == IF n = 0 THEN default ELSE n
OffsetPerPage(p, default) ==
    LET perPage == DefaultIfNilOrZero(p.perPage, default)
    IN [offset |-> Int32((DefaultIfNilOrZero(p.page, 1) - 1) * perPage), perPage |-> perPage]
\* OFFSET ... FETCH NEXT ...: an error of the database when one is negative.
Fetch(s, o) ==
    SubSeq(s, o.offset + 1, IF o.offset + o.perPage < Len(s) THEN o.offset + o.perPage
                            ELSE Len(s))
Negative(o) == o.offset < 0 \/ o.perPage < 0

DirString(dir) == IF dir = "" THEN "asc" ELSE dir

\* SortDir of the incidents and of the talkgroups: a column and a direction.
IncidentOrders == {"start", "numcalls"}
TGOrders == {"id", "tgid", "group", "name", "alpha"}
SortDir(p) ==
    IF p.orderBy \notin IncidentOrders \cup {""} THEN [err |-> "bad order"]
    ELSE IF p.dir \notin {"asc", "desc", ""} THEN [err |-> "bad direction"]
    ELSE [err |-> "", by |-> IF p.orderBy = "" THEN "start" ELSE p.orderBy,
          dir |-> DirString(p.dir)]
TGSortDir(p) ==
    IF p.orderBy \notin TGOrders \cup {""} THEN [err |-> "bad order"]
    ELSE IF p.dir \notin {"asc", "desc", ""} THEN [err |-> "bad direction"]
    ELSE [err |-> "", by |-> IF p.orderBy = "" THEN "tgid" ELSE p.orderBy,
          dir |-> DirString(p.dir)]

Error(e) == {[err |-> e]}
\* The answers a request may get: a page of any order, with the count.
Pages(orders, o, count) ==
    {[err |-> "", rows |-> Fetch(s, o), count |-> count] : s \in orders}

(***************************************************************************)
(* Calls.  A call is joined with the row of its talkgroup, which has tags, *)
(* texts, and no identifier when it is not known: an inner join finds no   *)
(* such row.                                                               *)
(***************************************************************************)
Joined(calls, tgs) == {c \in calls : \E t \in tgs : t.id = c.tg}
TGOf(c, tgs) == CHOOSE t \in tgs : t.id = c.tg
CallWhere(c, t, p) ==
    /\ p.start # 0 => c.at >= p.start
    /\ p.end # 0 => c.at <= p.end
    /\ p.tagsAny # {} => t.tags \cap p.tagsAny # {}
    /\ p.tagsNot # {} => t.tags \cap p.tagsNot = {}
    /\ p.tgFilter # "" => Matches(t.text, p.tgFilter)
    /\ p.sourceFilter # "" => Matches(c.alias, p.sourceFilter)
    /\ p.longerThan # 0 => c.duration > p.longerThan
    /\ p.unknownTG => t.id = 0
    /\ p.transcriptSearch # "" => Matches(c.transcript, p.transcriptSearch)
    /\ p.dangling => c.dangling
ListCallsCount(calls, tgs, p) ==
    Cardinality({c \in Joined(calls, tgs) : CallWhere(c, TGOf(c, tgs), p)})
ListCallsP(calls, tgs, p) ==
    LET rows == {c \in Joined(calls, tgs) : CallWhere(c, TGOf(c, tgs), p)}
    IN Orders(rows, [c \in rows |-> c.at], DirString(p.dir))
ListCalls(calls, tgs, p) ==
    LET o == OffsetPerPage(p, 100)
        count == ListCallsCount(calls, tgs, p)
    IN IF o.offset > count THEN Error("page out of range")
       ELSE IF Negative(o) THEN Error("database")
       ELSE Pages(ListCallsP(calls, tgs, p), o, count)

(***************************************************************************)
(* Incidents: filtered by the start that was entered, ordered by it or     *)
(* else by the first call, or by the number of calls.  The name of a row   *)
(* stands for its owner's name and its own, which decide ties.             *)
(***************************************************************************)
IncidentWhere(i, p) ==
    /\ p.start # 0 => i.start # 0 /\ i.start >= p.start
    /\ p.end # 0 => i.start # 0 /\ i.start <= p.end
    /\ p.filter # "" => Matches(i.text, p.filter)
ListIncidentsCount(incs, p) == Cardinality({i \in incs : IncidentWhere(i, p)})
\* NULL sorts after every date.
Null == 2^Word
FirstCall(i) == IF i.calls = {} THEN Null ELSE Ascending(i.calls)[1]
ListIncidentsP(incs, p, sort) ==
    LET rows == {i \in incs : IncidentWhere(i, p)}
        key(i) == IF sort.by = "numcalls" THEN Cardinality(i.calls)
                  ELSE IF i.start # 0 THEN i.start ELSE FirstCall(i)
        before(i, j) ==
            \/ IF sort.dir = "desc" THEN key(i) > key(j) ELSE key(i) < key(j)
            \/ key(i) = key(j) /\ i.name < j.name
    IN {SetToSortSeq(rows, before)}
ListIncidents(incs, p) ==
    LET sort == SortDir(p)
        o == OffsetPerPage(p, 100)
        count == ListIncidentsCount(incs, p)
    IN IF sort.err # "" THEN Error(sort.err)
       ELSE IF o.offset > count THEN Error("page out of range")
       ELSE IF Negative(o) THEN Error("database")
       ELSE Pages(ListIncidentsP(incs, p, sort), o, count)

(***************************************************************************)
(* Talkgroups: those of a system, without the ignored ones, that match.    *)
(***************************************************************************)
GetTalkgroups(tgs, system, filter) ==
    {t \in tgs : /\ system # 0 => t.system = system
                 /\ ~t.ignored
                 /\ filter # "" => Matches(t.text, filter) \/ filter \in t.tags}
GetTalkgroupsCount(tgs, system, filter) ==
    Cardinality({t \in tgs : /\ system # 0 => t.system = system
                             /\ ~t.ignored
                             /\ filter # "" => Matches(t.text, filter) \/ filter \in t.tags})
GetTalkgroupsP(tgs, system, p, sort) ==
    LET rows == GetTalkgroups(tgs, system, p.filter)
    IN Orders(rows, [t \in rows |-> t[sort.by]], sort.dir)
ListTGs(tgs, system, p, default) ==
    LET sort == TGSortDir(p)
        o == OffsetPerPage(p, default)
    IN IF sort.err # "" THEN Error(sort.err)
       ELSE IF Negative(o) THEN Error("database")
       ELSE Pages(GetTalkgroupsP(tgs, system, p, sort), o,
                  GetTalkgroupsCount(tgs, system, p.filter))

(***************************************************************************)
(* Shares: an administrator and a service see all of them, a user his own, *)
(* others none.                                                            *)
(***************************************************************************)
GetSharesPCount(tab, owner) ==
    Cardinality({s \in tab : owner # 0 => s.owner = owner})
GetSharesP(tab, owner, dir) ==
    LET rows == {s \in tab : owner # 0 => s.owner = owner}
    IN Orders(rows, [s \in rows |-> s.at], dir)
ListShares(tab, subject, p) ==
    LET owner == IF subject.kind = "user" /\ ~subject.admin THEN subject.id ELSE 0
        o == OffsetPerPage(p, 100)
    IN IF subject.kind \notin {"user", "service"} THEN Error("denied")
       ELSE IF Negative(o) THEN Error("database")
       ELSE Pages(GetSharesP(tab, owner, DirString(p.dir)), o,
                  GetSharesPCount(tab, owner))

(***************************************************************************)
(* What a client puts together of the answers to pages 1, 2, ... as many   *)
(* as the count of the first one asks for.                                 *)
(***************************************************************************)
NumPages(count, perPage) == (count + perPage - 1) \div perPage
\* ask[n] is the set of the answers to a request for page n.
Joinings(ask, n) ==
    {FlattenSeq([m \in 1..n |-> pick[m].rows]) :
        pick \in {f \in [1..n -> UNION {ask[m] : m \in 1..n}] :
                     \A m \in 1..n : f[m] \in ask[m]}}
\* Every way to put the pages together gives all of the rows, each once.
PagesCover(ask, rows, perPage) ==
    \A s \in Joinings(ask, NumPages(Cardinality(rows), perPage)) :
        Len(s) = Cardinality(rows) /\ Range(s) = rows
\* The count that comes with a page is that of the rows, and no page is longer
\* than asked for.
CountsAgree(answers, rows, perPage) ==
    \A a \in answers : a.err = "" => a.count = Cardinality(rows) /\ Len(a.rows) <= perPage
=============================================================================
