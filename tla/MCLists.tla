------------------------------ MODULE MCLists ------------------------------
(***************************************************************************)
(* Checks of Lists over small tables, evaluated with every run whose       *)
(* module extends this one.                                                *)
(***************************************************************************)
EXTENDS Lists

TGTable == {[id |-> 1, system |-> 1, tgid |-> 1, group |-> 1, name |-> 3, alpha |-> 1,
             tags |-> {"fire"}, text |-> {"engine"}, ignored |-> FALSE],
            [id |-> 2, system |-> 1, tgid |-> 2, group |-> 1, name |-> 2, alpha |-> 2,
             tags |-> {"fire", "ems"}, text |-> {}, ignored |-> FALSE],
            [id |-> 3, system |-> 2, tgid |-> 3, group |-> 1, name |-> 1, alpha |-> 3,
             tags |-> {}, text |-> {"engine"}, ignored |-> TRUE]}

CallTable(at) ==
    {[id |-> 1, tg |-> 1, at |-> at[1], alias |-> {"x"}, duration |-> 5,
      transcript |-> {"smoke"}, dangling |-> FALSE],
     [id |-> 2, tg |-> 2, at |-> at[2], alias |-> {}, duration |-> 2,
      transcript |-> {}, dangling |-> TRUE],
     [id |-> 3, tg |-> 1, at |-> at[3], alias |-> {"x"}, duration |-> 1,
      transcript |-> {"smoke"}, dangling |-> FALSE],
     [id |-> 4, tg |-> 2, at |-> at[4], alias |-> {"x"}, duration |-> 9,
      transcript |-> {}, dangling |-> FALSE]}

NoFilter == [page |-> 1, perPage |-> 0, dir |-> "", start |-> 0, end |-> 0, tagsAny |-> {},
             tagsNot |-> {}, tgFilter |-> "", sourceFilter |-> "", longerThan |-> 0,
             unknownTG |-> FALSE, transcriptSearch |-> "", dangling |-> FALSE]
CallFilters ==
    {[NoFilter EXCEPT !.start = s, !.end = e, !.tagsAny = any, !.tagsNot = not, !.dangling = d] :
        s \in {0, 2}, e \in {0, 3}, any \in {{}, {"fire"}}, not \in {{}, {"ems"}},
        d \in BOOLEAN}
    \cup {[NoFilter EXCEPT !.tgFilter = "engine", !.sourceFilter = s, !.longerThan = l,
                           !.transcriptSearch = t] :
             s \in {"", "x"}, l \in {0, 4}, t \in {"", "smoke"}}
Distinct == CallTable(<<3, 1, 4, 2>>)
Tied == CallTable(<<1, 1, 1, 1>>)
SelectedCalls(p) == {c \in Distinct : CallWhere(c, TGOf(c, TGTable), p)}
AskCalls(table, p, n, dir) ==
    [m \in 1..4 |-> ListCalls(table, TGTable, [p EXCEPT !.page = m, !.perPage = n, !.dir = dir])]

\* Calls: the pages of a filter are the calls it selects, once each, and the
\* count says how many, when no two of the calls have the same date.
ASSUME CallPagesCover ==
    \A p \in CallFilters, n \in 1..3, dir \in {"", "asc", "desc"} :
        /\ PagesCover(AskCalls(Distinct, p, n, dir), SelectedCalls(p), n)
        /\ \A m \in 1..4 : CountsAgree(AskCalls(Distinct, p, n, dir)[m], SelectedCalls(p), n)
\* With calls of one date the pages need not have them all: call_date is all
\* that ListCallsP orders by.
ASSUME TiesMaySkip == ~PagesCover(AskCalls(Tied, NoFilter, 2, ""), Tied, 2)
\* Calls of an unknown talkgroup are never found: the join has dropped them.
ASSUME UnknownTGFindsNothing ==
    \A tgs \in SUBSET TGTable :
        ListCallsCount(Distinct, tgs, [NoFilter EXCEPT !.unknownTG = TRUE]) = 0

IncTable == {[name |-> 1, start |-> 0, calls |-> {3}, text |-> {"fire"}],
             [name |-> 2, start |-> 2, calls |-> {}, text |-> {}],
             [name |-> 3, start |-> 4, calls |-> {1, 2}, text |-> {"fire"}],
             [name |-> 4, start |-> 2, calls |-> {1}, text |-> {"fire"}],
             [name |-> 5, start |-> 0, calls |-> {}, text |-> {}]}
IncParams == [page : {1}, perPage : 1..3, orderBy : {"", "start", "numcalls", "tgid"},
              dir : {"", "asc", "desc", "up"}, start : {0, 2}, end : {0, 3},
              filter : {"", "fire"}]
\* Incidents: the same, and with ties too: their names decide.
ASSUME IncidentPagesCover ==
    \A p \in IncParams :
        LET ask == [m \in 1..5 |-> ListIncidents(IncTable, [p EXCEPT !.page = m])]
            rows == {i \in IncTable : IncidentWhere(i, p)}
        IN IF SortDir(p).err = "" THEN PagesCover(ask, rows, p.perPage)
           ELSE \A m \in 1..5 : ask[m] = Error(SortDir(p).err)

TGParams == [page : {1}, perPage : 1..2, orderBy : {"", "id", "group", "name", "alpha"},
             dir : {"", "desc"}, filter : {"", "fire", "engine"}]
\* Talkgroups: the pages in an order that decides (the group does not).
ASSUME TGPagesCover ==
    \A p \in TGParams, system \in {0, 1} :
        LET ask == [m \in 1..3 |-> ListTGs(TGTable, system, [p EXCEPT !.page = m], 25)]
            rows == GetTalkgroups(TGTable, system, p.filter)
        IN /\ p.orderBy # "group" => PagesCover(ask, rows, p.perPage)
           /\ \A m \in 1..3 : CountsAgree(ask[m], rows, p.perPage)

ShareTable == {[owner |-> o, at |-> 2 * o + k] : o \in 1..2, k \in 0..1}
\* Shares: a user finds all of his own and no other, an administrator and a
\* service all of them, a guest none.
ASSUME SharePagesCover ==
    \A n \in 1..3, dir \in {"", "desc"}, who \in [kind : {"user", "service", "guest"},
                                                  admin : BOOLEAN, id : 1..2] :
        LET ask == [m \in 1..4 |-> ListShares(ShareTable, who, [page |-> m, perPage |-> n,
                                                            dir |-> dir])]
            rows == {s \in ShareTable :
                        who.kind = "service" \/ who.admin \/ s.owner = who.id}
        IN IF who.kind = "guest" THEN \A m \in 1..4 : ask[m] = Error("denied")
           ELSE PagesCover(ask, rows, n)

\* The offset of a page that is far enough away is negative (an int32 of 16
\* bits here), and the
\* request is refused by the database and not by its range.
ASSUME FarPagesFail ==
    /\ OffsetPerPage([page |-> 400, perPage |-> 0], 100).offset < 0
    /\ ListCalls(Distinct, TGTable, [NoFilter EXCEPT !.page = 400]) = Error("database")
    /\ ListCalls(Distinct, TGTable, [NoFilter EXCEPT !.page = 9]) = Error("page out of range")
=============================================================================
