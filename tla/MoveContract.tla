---------------------------- MODULE MoveContract ----------------------------
(***************************************************************************)
(* What MoveCallAudio promises to whoever reads the calls table: the rows  *)
(* change in one step or not at all.  While a move runs every reader sees  *)
(* the rows as they were; a success carries, all at once, rows that could  *)
(* be moved, a failure or a restart carries none.  Which of them a success *)
(* carries is not for this module: see SuccessMovesAll of AudioMove.       *)
(***************************************************************************)
CONSTANTS Calls, Backends, Requests, DB, AnyBackend, None

VARIABLES
    row,     \* Calls -> [refs, blob]: the rows of the table, as a reader sees them
    active,  \* the request that is being served, or None
    outcome  \* what the last request came to

vars == <<row, active, outcome>>

\* The rows r can be about, whatever its dates and tags.  A request for the
\* swept calls only is for none of this table.
Movable(r) ==
    {c \in Calls :
        /\ r.swept # "only"
        /\ r.has # AnyBackend => r.has \in row[c].refs
        /\ IF r.dest = DB THEN row[c].blob = "none"
                          ELSE r.dest \notin row[c].refs}

\* new is an acceptable row for a call that r moved from row old.
Carried(r, old, new) ==
    IF r.dest = DB
      THEN new.blob = "audio" /\ new.refs \subseteq old.refs
      ELSE /\ r.dest \in new.refs
           /\ new.refs \subseteq old.refs \cup {r.dest}
           /\ new.blob \in {"none", old.blob}

Init == active = None /\ outcome = "none"

Accept == /\ active = None
          /\ active' \in Requests /\ outcome' = "none"
          /\ UNCHANGED row

Refuse == active = None /\ outcome' = "err" /\ UNCHANGED <<row, active>>

Succeed ==
    /\ active # None
    /\ \A c \in Calls :
          \/ row'[c] = row[c]
          \/ /\ c \in Movable(active) /\ ~active.dry
             /\ Carried(active, row[c], row'[c])
    /\ active' = None /\ outcome' = "ok"

Fail == active # None /\ active' = None /\ outcome' = "err" /\ UNCHANGED row

\* The server stops: before the outcome nothing has changed, after it
\* nothing changes any more.
Restart == active' = None /\ outcome' = "crash" /\ UNCHANGED row

Next == Accept \/ Refuse \/ Succeed \/ Fail \/ Restart

Spec == Init /\ [][Next]_vars
=============================================================================
