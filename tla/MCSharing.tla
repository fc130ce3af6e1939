----------------------------- MODULE MCSharing -----------------------------
(***************************************************************************)
(* A small instance of Sharing: an owner who may share, an administrator,  *)
(* one incident, two calls and two requests at a time.                     *)
(***************************************************************************)
EXTENDS Sharing, MCLists, TLC

CONSTANTS ann, adm, c1, c2, i1, s1, r1, r2

TwoUsers == {ann, adm}
GivenTwo == [u \in TwoUsers |-> IF u = ann THEN {"Sharer"} ELSE {"Admin"}]
TwoCalls == {c1, c2}
OneIncident == {i1}
OneShare == {s1}
TwoRequests == {r1, r2}

\* What is asked of an incident: to take one call away and add the other.
OneExchange == {<<{c1}, {c2}>>}

\* An answer is taken at once: the properties look at it in the state it is given in.
AnswersAtOnce ==
    \A r \in Requests : req[r].pc = "done" => \E q \in Requests : /\ req[q].pc = "done"
                                                               /\ req'[q].pc = "idle"
\* Guests change nothing that another guest is served by: one of them at a time.
OneGuest == Cardinality({r \in Requests : Asks(req[r])}) <= 1
=============================================================================
