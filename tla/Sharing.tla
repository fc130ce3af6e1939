------------------------------ MODULE Sharing ------------------------------
(***************************************************************************)
(* Incidents, shares, and what a guest with a share link is served:        *)
(* pkg/incidents/incstore, pkg/shares, the reading operations of           *)
(* pkg/calls/callstore/store.go and their REST handlers.                   *)
(*                                                                         *)
(* Every request runs in a goroutine of its own and reads, checks and      *)
(* writes in separate statements; the policy is module Policy.  The        *)
(* partition manager sweeps and drops calls meanwhile (one partition is    *)
(* one call here, and its transaction one step; its own steps are module   *)
(* PartitionPrune), shares expire, and the share service prunes them.      *)
(*                                                                         *)
(* Identifiers are never used twice (uuid.New, NanoID), and the owner of   *)
(* an incident, the owner and the entity of a share never change: a        *)
(* request that has read such a row is left with its identifier.           *)
(***************************************************************************)
EXTENDS Policy, Integers

CONSTANTS
    Users,          \* users that make requests
    ExtraRoles,     \* [Users -> SUBSET Roles]: what their records grant them
    Calls,          \* calls that ingest has stored
    Incidents,      \* identifiers for incidents
    ShareIDs,       \* identifiers for shares
    Requests,       \* requests that may be under way at a time
    AddRemoves,     \* the (calls to add, calls to remove) users ask for
    Nobody          \* the owner of what does not exist

ASSUME SharingAssumption ==
    /\ ExtraRoles \in [Users -> SUBSET Roles]
    /\ AddRemoves \subseteq (SUBSET Calls) \X (SUBSET Calls)
    /\ Calls \cap Incidents = {}
    /\ Nobody \notin Users \cup Calls \cup Incidents \cup ShareIDs

VARIABLES
    callAt,     \* the table that holds a call: calls, swept_calls, or none
    inc,        \* incidents: st, owner and rev (the text, by its version)
    links,      \* incidents_calls: <<incident, call>>
    shares,     \* shares: st, owner, entity, and whether it is past its expiration
    req,        \* the requests
    seen,       \* history: the calls the entity of a guest's share has held
                \* since the guest asked
    kept        \* history: the calls it has held all the time, under a share
                \* that nobody deleted and that did not expire

vars == <<callAt, inc, links, shares, req, seen, kept>>
history == <<seen, kept>>

Entities == Calls \cup Incidents
NoIncident == [st |-> "none", owner |-> Nobody, rev |-> 0]
NoShare == [st |-> "none", owner |-> Nobody, ent |-> Nobody, expired |-> FALSE]

\* A request: pc, the user (Nobody is a guest), what it asks for, of what, and
\* the answer: the reply and the calls that are in it.
Idle == [pc |-> "idle", user |-> Nobody, op |-> "none", inc |-> Nobody,
         share |-> Nobody, call |-> Nobody, add |-> {}, remove |-> {},
         reply |-> "none", served |-> {}]

GuestOps == {"audio", "info", "incident", "calls", "talkgroups", "m3u"}
UserOps == {"addRemove", "update", "delete", "newShare", "deleteShare"}

IncidentSet == [st : {"none", "live", "gone"}, owner : Users \cup {Nobody}, rev : 0..1]
ShareSet == [st : {"none", "live", "deleted", "pruned"}, owner : Users \cup {Nobody},
             ent : Entities \cup {Nobody}, expired : BOOLEAN]
RequestSet ==
    [pc : {"idle", "checked", "loaded", "allowed", "found", "done"},
     user : Users \cup {Nobody}, op : GuestOps \cup UserOps \cup {"none"},
     inc : Incidents \cup {Nobody}, share : ShareIDs \cup {Nobody},
     call : Calls \cup {Nobody}, add : SUBSET Calls, remove : SUBSET Calls,
     reply : {"none", "ok", "denied", "notfound"}, served : SUBSET Calls]

TypeOK ==
    /\ callAt \in [Calls -> {"calls", "swept_calls", "gone"}]
    /\ inc \in [Incidents -> IncidentSet]
    /\ links \subseteq Incidents \X Calls
    /\ \A l \in links : inc[l[1]].st = "live"
    /\ shares \in [ShareIDs -> ShareSet]
    /\ req \in [Requests -> RequestSet]
    /\ seen \in [Requests -> SUBSET Calls]
    /\ kept \in [Requests -> SUBSET Calls]

Init ==
    /\ callAt = [c \in Calls |-> "calls"]
    /\ inc = [i \in Incidents |-> NoIncident]
    /\ links = {}
    /\ shares = [s \in ShareIDs |-> NoShare]
    /\ req = [r \in Requests |-> Idle]
    /\ seen = [r \in Requests |-> {}]
    /\ kept = [r \in Requests |-> {}]

(***************************************************************************)
(* Queries, under the names sqlc gives them.                               *)
(***************************************************************************)
CreateIncidentRow(u) == [st |-> "live", owner |-> u, rev |-> 0]
UpdateIncidentRow(row) == IF row.st = "live" THEN [row EXCEPT !.rev = 1 - @] ELSE row
DeleteIncidentRow(row) == [row EXCEPT !.st = "gone", !.rev = 0]
GetIncidentOwner(i) == inc[i].owner
GetIncidentRow(i) == inc[i].st = "live"
\* AddToIncident joins the calls to add with the table calls: one that is not
\* there, and one that is in the incident already, is passed over in silence.
AddToIncident(i, calls) == {<<i, c>> : c \in {d \in calls : callAt[d] = "calls"}}
RemoveFromIncident(i, calls) == {<<i, c>> : c \in calls}
CallInIncident(i, c) == <<i, c>> \in links
\* The rows of incidents_calls, joined with either table of calls.
GetIncidentCalls(i) == {c \in Calls : <<i, c>> \in links /\ callAt[c] # "gone"}
\* The talkgroups of an incident are those of its calls in the table calls (a
\* talkgroup is known here by its calls).
GetIncidentTalkgroups(i) == {c \in Calls : <<i, c>> \in links /\ callAt[c] = "calls"}
\* The audio is read from both tables, the call from the one.
\* Variant: only the table calls is read.
GetCallAudioByIDOneTable(c) == callAt[c] = "calls"
GetCallAudioByID(c) == callAt[c] \in {"calls", "swept_calls"}
GetCall(c) == callAt[c] = "calls"
GetShare(s) == shares[s].st = "live"
CreateShareRow(u, ent) == [st |-> "live", owner |-> u, ent |-> ent, expired |-> FALSE]
DeleteShareRow(row) == [row EXCEPT !.st = IF @ = "live" THEN "deleted" ELSE @]
\* What PruneShares selects: the expired ones, and those whose entity is gone.
\* A call that was swept is not gone.
\* Variant: only the expired shares are selected.
PrunableExpired(s) == shares[s].expired
Prunable(s) ==
    \/ shares[s].ent \in Calls /\ callAt[shares[s].ent] = "gone"
    \/ shares[s].ent \in Incidents /\ inc[shares[s].ent].st = "gone"
    \/ shares[s].expired

(***************************************************************************)
(* The conditions of the policy, for a user and a row he may own, and for  *)
(* a guest with share s.                                                   *)
(***************************************************************************)
UserMay(u, resource, action, owner) ==
    May(UserRoles(ExtraRoles[u]), resource, action,
        IF owner = u THEN {"isOwner"} ELSE {})

CallInIncidentCondition(s, c) == shares[s].ent \in Incidents /\ CallInIncident(shares[s].ent, c)
\* Variant: the call may be in any incident.
GuestMayReadAnyIncidents(s, resource, id) ==
    May(ShareRoles, resource, "read",
        (IF id = shares[s].ent THEN {"readShared"} ELSE {})
        \cup (IF resource = "Call" /\ \E i \in Incidents : CallInIncident(i, id)
              THEN {"callInIncident"} ELSE {}))
GuestMayRead(s, resource, id) ==
    May(ShareRoles, resource, "read",
        (IF id = shares[s].ent THEN {"readShared"} ELSE {})
        \cup (IF resource = "Call" /\ CallInIncidentCondition(s, id)
              THEN {"callInIncident"} ELSE {}))

(***************************************************************************)
(* The calls an entity holds: itself, or those of the incident; a share    *)
(* works when nobody deleted it and it has not expired.                    *)
(***************************************************************************)
CallsOf(ent, rows) == {c \in Calls : c = ent \/ <<ent, c>> \in rows}
Works(share) == share.st \in {"live", "pruned"} /\ ~share.expired

\* The history of the guests' requests, told after each step.
Asks(q) == q.user = Nobody /\ q.share # Nobody
Watch ==
    /\ seen' = [r \in Requests |->
                  IF ~Asks(req'[r]) THEN {}
                  ELSE IF req[r].pc = "done" THEN seen[r]
                  ELSE seen[r] \cup CallsOf(shares'[req'[r].share].ent, links')]
    /\ kept' = [r \in Requests |->
                  IF ~Asks(req'[r]) THEN {}
                  ELSE LET sh == shares'[req'[r].share]
                           now == {c \in CallsOf(sh.ent, links') :
                                      Works(sh) /\ callAt'[c] # "gone"}
                       IN IF req[r].pc = "idle" THEN now ELSE kept[r] \cap now]

(***************************************************************************)
(* Answers.  What a guest asked is kept with the answer, for the history;  *)
(* a user's request ends.  One that is refused at its first check changes  *)
(* nothing and is no step of the model.                                    *)
(***************************************************************************)
Answer(r, reply, served) ==
    req' = [req EXCEPT ![r] = [@ EXCEPT !.pc = "done", !.reply = reply, !.served = served]]
Goto(r, pc) == req' = [req EXCEPT ![r].pc = pc]
End(r) == req' = [req EXCEPT ![r] = Idle]

\* The guest has his answer.
Finish(r) ==
    /\ req[r].pc = "done"
    /\ End(r)
    /\ UNCHANGED <<callAt, inc, links, shares>>

\* A new request of a user, whose first statement found the row and whose check
\* allowed it.
Begin(r, record) ==
    /\ req[r].pc = "idle"
    /\ req' = [req EXCEPT ![r] = [record EXCEPT !.pc = "checked"]]

(***************************************************************************)
(* Incidents.  The operations that change one read its owner, check, and   *)
(* write; creating one with its calls is a single transaction.             *)
(***************************************************************************)
CreateIncident(u, i, calls) ==
    /\ inc[i].st = "none"
    /\ UserMay(u, "Incident", "create", u)
    /\ inc' = [inc EXCEPT ![i] = CreateIncidentRow(u)]
    /\ links' = links \cup AddToIncident(i, calls)
    /\ UNCHANGED <<callAt, shares, req>>

\* Owner, and the check of AddRemoveIncidentCalls, UpdateIncident and
\* DeleteIncident.
CheckOwner(r, u, op, i, add, remove) ==
    /\ inc[i].st = "live"
    /\ UserMay(u, "Incident", IF op = "delete" THEN "delete" ELSE "update",
               GetIncidentOwner(i))
    /\ Begin(r, [Idle EXCEPT !.user = u, !.op = op, !.inc = i, !.add = add,
                             !.remove = remove])
    /\ UNCHANGED <<callAt, inc, links, shares>>

\* The transaction of AddRemoveIncidentCalls.  Rows cannot be added to an
\* incident that is gone (the foreign key): the transaction fails.
AddRemoveIncidentCalls(r) ==
    LET i == req[r].inc
        rows == AddToIncident(i, req[r].add) \ links
    IN /\ req[r].pc = "checked" /\ req[r].op = "addRemove"
       /\ IF rows # {} /\ inc[i].st # "live" THEN UNCHANGED links
          ELSE links' = (links \cup rows) \ RemoveFromIncident(i, req[r].remove)
       /\ End(r)
       /\ UNCHANGED <<callAt, inc, shares>>

\* UpdateIncident: there is no row to change when the incident is gone.
UpdateIncident(r) ==
    /\ req[r].pc = "checked" /\ req[r].op = "update"
    /\ inc' = [inc EXCEPT ![req[r].inc] = UpdateIncidentRow(@)]
    /\ End(r)
    /\ UNCHANGED <<callAt, links, shares>>

\* DeleteIncident: its rows of incidents_calls go with it (ON DELETE CASCADE),
\* its shares stay.
DeleteIncident(r) ==
    LET i == req[r].inc
    IN /\ req[r].pc = "checked" /\ req[r].op = "delete"
       /\ inc' = [inc EXCEPT ![i] = DeleteIncidentRow(@)]
       /\ links' = {l \in links : l[1] # i}
       /\ End(r)
       /\ UNCHANGED <<callAt, shares>>

(***************************************************************************)
(* Shares.  NewShare checks the entity, then creates the row: sharing a    *)
(* call takes no more than reading it, sharing an incident is for its      *)
(* owner, and creating any share is for sharers.                           *)
(***************************************************************************)
CheckEntity(r, u, s, ent) ==
    /\ shares[s].st = "none"
    /\ \A q \in Requests : req[q].share # s       \* NanoID: an identifier of its own
    /\ \/ /\ ent \in Calls /\ GetCall(ent)
          /\ UserMay(u, "Call", "read", Nobody)
          /\ Begin(r, [Idle EXCEPT !.user = u, !.op = "newShare", !.share = s, !.call = ent])
       \/ /\ ent \in Incidents /\ GetIncidentRow(ent)
          /\ UserMay(u, "Incident", "share", GetIncidentOwner(ent))
          /\ Begin(r, [Idle EXCEPT !.user = u, !.op = "newShare", !.share = s, !.inc = ent])
    /\ UNCHANGED <<callAt, inc, links, shares>>

CreateShare(r) ==
    LET ent == IF req[r].call # Nobody THEN req[r].call ELSE req[r].inc
    IN /\ req[r].pc = "checked" /\ req[r].op = "newShare"
       /\ IF UserMay(req[r].user, "Share", "create", Nobody)
          THEN shares' = [shares EXCEPT ![req[r].share] = CreateShareRow(req[r].user, ent)]
          ELSE UNCHANGED shares
       /\ End(r)
       /\ UNCHANGED <<callAt, inc, links>>

\* Delete: GetShare and the check, then the row.
CheckShare(r, u, s) ==
    /\ GetShare(s)
    /\ UserMay(u, "Share", "read", shares[s].owner)
    /\ UserMay(u, "Share", "delete", shares[s].owner)
    /\ Begin(r, [Idle EXCEPT !.user = u, !.op = "deleteShare", !.share = s])
    /\ UNCHANGED <<callAt, inc, links, shares>>

DeleteShare(r) ==
    /\ req[r].pc = "checked" /\ req[r].op = "deleteShare"
    /\ shares' = [shares EXCEPT ![req[r].share] = DeleteShareRow(@)]
    /\ End(r)
    /\ UNCHANGED <<callAt, inc, links>>

\* The ticker of the share service.
PruneShares ==
    LET dead == {s \in ShareIDs : shares[s].st = "live" /\ Prunable(s)}
    IN /\ dead # {}
       /\ shares' = [s \in ShareIDs |->
                       IF s \in dead THEN [shares[s] EXCEPT !.st = "pruned"]
                       ELSE shares[s]]
       /\ UNCHANGED <<callAt, inc, links, req>>

(***************************************************************************)
(* A guest.  routeShare reads the share and refuses what its type does not *)
(* offer and what is past its expiration; from then on the share itself is *)
(* the subject of the request, and the handler checks and queries.         *)
(***************************************************************************)
\* The request types a share of this entity offers.
Offers(ent, op) == ent \in Incidents \/ op \in {"audio", "info"}

RouteShare(r, s, op, c) ==
    /\ op \in {"audio", "info"} <=> c # Nobody
    /\ GetShare(s) /\ ~shares[s].expired /\ Offers(shares[s].ent, op)
    /\ May(PublicRoles, "Share", "read", {})
    /\ req[r].pc = "idle"
    /\ req' = [req EXCEPT ![r] = [Idle EXCEPT !.pc = "loaded", !.op = op, !.share = s,
                                              !.call = c]]
    /\ UNCHANGED <<callAt, inc, links, shares>>

\* authz.Check of the handler, with the share as the subject.
Authorize(r) ==
    LET may == IF req[r].op \in {"audio", "info"}
               THEN GuestMayRead(req[r].share, "Call", req[r].call)
               ELSE GuestMayRead(req[r].share, "Incident", shares[req[r].share].ent)
    IN /\ req[r].pc = "loaded"
       /\ IF may THEN Goto(r, "allowed") ELSE Answer(r, "denied", {})
       /\ UNCHANGED <<callAt, inc, links, shares>>

\* CallAudio, which getAudio sends, and Call, which getCallInfo does.
ServeAudio(r) ==
    LET c == req[r].call
    IN /\ req[r].pc = "allowed" /\ req[r].op = "audio"
       /\ IF GetCallAudioByID(c) THEN Answer(r, "ok", {c}) ELSE Answer(r, "notfound", {})
       /\ UNCHANGED <<callAt, inc, links, shares>>

ServeInfo(r) ==
    LET c == req[r].call
    IN /\ req[r].pc = "allowed" /\ req[r].op = "info"
       /\ IF GetCall(c) THEN Answer(r, "ok", {c}) ELSE Answer(r, "notfound", {})
       /\ UNCHANGED <<callAt, inc, links, shares>>

\* Incident: the row first; the playlist then reads the calls.
GetIncident(r) ==
    /\ req[r].pc = "allowed" /\ req[r].op \in {"incident", "m3u"}
    /\ IF ~GetIncidentRow(shares[req[r].share].ent) THEN Answer(r, "notfound", {})
       ELSE IF req[r].op = "m3u" THEN Goto(r, "found") ELSE Answer(r, "ok", {})
    /\ UNCHANGED <<callAt, inc, links, shares>>

\* IncidentCalls, and the second statement of Incident.
ServeCalls(r) ==
    /\ req[r].pc = "allowed" /\ req[r].op = "calls"
    /\ Answer(r, "ok", GetIncidentCalls(shares[req[r].share].ent))
    /\ UNCHANGED <<callAt, inc, links, shares>>

\* TGsIn, for the list of talkgroups.
ServeTalkgroups(r) ==
    /\ req[r].pc = "allowed" /\ req[r].op = "talkgroups"
    /\ Answer(r, "ok", GetIncidentTalkgroups(shares[req[r].share].ent))
    /\ UNCHANGED <<callAt, inc, links, shares>>

ServePlaylist(r) ==
    /\ req[r].pc = "found"
    /\ Answer(r, "ok", GetIncidentCalls(shares[req[r].share].ent))
    /\ UNCHANGED <<callAt, inc, links, shares>>

(***************************************************************************)
(* Around the requests.                                                    *)
(***************************************************************************)
\* The partition of a call is pruned: a call of an incident is swept, any other
\* is dropped.
PrunePartition(c) ==
    /\ callAt[c] = "calls"
    /\ callAt' = [callAt EXCEPT ![c] = IF \E i \in Incidents : CallInIncident(i, c)
                                       THEN "swept_calls" ELSE "gone"]
    /\ UNCHANGED <<inc, links, shares, req>>

\* The expiration of a share passes (not every share has one).
Expire(s) ==
    /\ shares[s].st = "live" /\ ~shares[s].expired
    /\ shares' = [shares EXCEPT ![s].expired = TRUE]
    /\ UNCHANGED <<callAt, inc, links, req>>

\* The routes of the REST API that end in the operations above.
patchCalls(r) ==
    \/ \E u \in Users, i \in Incidents, ar \in AddRemoves :
          CheckOwner(r, u, "addRemove", i, ar[1], ar[2])
    \/ AddRemoveIncidentCalls(r)
updateIncident(r) ==
    \/ \E u \in Users, i \in Incidents : CheckOwner(r, u, "update", i, {}, {})
    \/ UpdateIncident(r)
deleteIncident(r) ==
    \/ \E u \in Users, i \in Incidents : CheckOwner(r, u, "delete", i, {}, {})
    \/ DeleteIncident(r)
createShare(r) ==
    \/ \E u \in Users, s \in ShareIDs, ent \in Entities : CheckEntity(r, u, s, ent)
    \/ CreateShare(r)
deleteShare(r) ==
    \/ \E u \in Users, s \in ShareIDs : CheckShare(r, u, s)
    \/ DeleteShare(r)

UserRequest(r) ==
    patchCalls(r) \/ updateIncident(r) \/ deleteIncident(r) \/ createShare(r) \/ deleteShare(r)

GuestRequest(r) ==
    \/ \E s \in ShareIDs, op \in GuestOps, c \in Calls \cup {Nobody} : RouteShare(r, s, op, c)
    \/ Authorize(r)
    \/ ServeAudio(r) \/ ServeInfo(r)
    \/ GetIncident(r)
    \/ ServeCalls(r) \/ ServeTalkgroups(r) \/ ServePlaylist(r)

Step ==
    \/ \E u \in Users, i \in Incidents, calls \in SUBSET Calls : CreateIncident(u, i, calls)
    \/ \E r \in Requests : UserRequest(r) \/ GuestRequest(r) \/ Finish(r)
    \/ PruneShares
    \/ \E c \in Calls : PrunePartition(c)
    \/ \E s \in ShareIDs : Expire(s)

Next == Step /\ Watch

Spec == Init /\ [][Next]_vars

\* The ticker of the share service comes round.
FairSpec == Spec /\ WF_vars(PruneShares /\ Watch)

(***************************************************************************)
(* Properties.                                                             *)
(***************************************************************************)
\* What a guest is served was, at some moment since he asked, in the entity of
\* the share he asked with: no order of removals, deletions, sweeps and checks
\* serves him another call.
GuestServedOnlyShared == \A r \in Requests : req[r].served \subseteq seen[r]

\* A guest whose share works, and who asks for the audio of a call that stays
\* in the shared entity, is served it; a list of the calls has all of them.
\* Neither a sweep of the call nor a prune of the shares may come in between.
SharedCallsAreServed ==
    \A r \in Requests :
       /\ req[r].pc = "done" /\ req[r].op = "audio" /\ req[r].call \in kept[r]
             => req[r].reply = "ok"
       /\ req[r].pc = "done" /\ req[r].op \in {"calls", "m3u"} /\ req[r].reply = "ok"
             => kept[r] \subseteq req[r].served
\* The same of the information on a call.
SharedInfoIsServed ==
    \A r \in Requests :
       req[r].pc = "done" /\ req[r].op = "info" /\ req[r].call \in kept[r]
          => req[r].reply = "ok"

\* And of the talkgroups of an incident: those of its calls.
SharedTalkgroupsAreServed ==
    \A r \in Requests :
       req[r].pc = "done" /\ req[r].op = "talkgroups" /\ req[r].reply = "ok"
          => kept[r] \subseteq req[r].served

\* An incident, its text, its calls and its existence, is changed only by a
\* request of its owner or of an administrator, whatever happened between the
\* check and the write; a share is deleted by its owner or an administrator.
IsAdmin(u) == ExtraRoles[u] \cap {"Admin", "System"} # {}
MayChange(u, owner) == u = owner \/ IsAdmin(u)
CallsIn(i) == {c \in Calls : CallInIncident(i, c)}
IncidentsByOwners ==
    \A i \in Incidents :
       inc[i].st = "live" /\ (inc'[i] # inc[i] \/ CallsIn(i)' # CallsIn(i))
          => \E r \in Requests : /\ req[r].pc = "checked" /\ req[r].inc = i
                                 /\ req'[r].pc = "idle" /\ MayChange(req[r].user, inc[i].owner)
SharesByOwners ==
    \A s \in ShareIDs :
       shares'[s].st = "deleted" /\ shares[s].st # "deleted"
          => \E r \in Requests : /\ req[r].pc = "checked" /\ req[r].share = s
                                 /\ req'[r].pc = "idle" /\ MayChange(req[r].user, shares[s].owner)
ChangesAreOwners == [][IncidentsByOwners /\ SharesByOwners]_vars

\* What may be deleted of a share is deleted in the end: one that has expired,
\* and one whose entity is gone, even when it went while the share was created.
DeadSharesGo ==
    \A s \in ShareIDs :
        shares[s].st = "live" /\ (\/ shares[s].expired
                                 \/ /\ shares[s].ent \in Calls
                                    /\ callAt[shares[s].ent] = "gone"
                                 \/ /\ shares[s].ent \in Incidents
                                    /\ inc[shares[s].ent].st = "gone")
            ~> shares[s].st # "live"

\* What a request asked to add is in the incident when the answer is that it is.
AddedCallsAreIn ==
    [][\A r \in Requests :
          /\ req[r].pc = "checked" /\ req[r].op = "addRemove" /\ req'[r].pc = "idle"
          /\ inc[req[r].inc].st = "live"
          => \A c \in req[r].add \ req[r].remove : CallInIncident(req[r].inc, c)']_vars

(***************************************************************************)
(* What makes the safety properties inductive.                             *)
(***************************************************************************)
\* Who asks with a share has one that exists; its audio or information was
\* allowed for a call the entity has held since; nothing is served before the end.
GuestOK(r) ==
    /\ req[r].pc # "done" => req[r].served = {}
    /\ req[r].served \subseteq seen[r]
    /\ req[r].pc \in {"loaded", "allowed", "found", "done"}
          => /\ req[r].user = Nobody /\ req[r].share \in ShareIDs
             /\ shares[req[r].share].st # "none"
             /\ req[r].op \in {"audio", "info"} => req[r].call \in Calls
    /\ req[r].pc = "allowed" /\ req[r].op \in {"audio", "info"} => req[r].call \in seen[r]

\* The identifier of a share that is being created is nobody else's.
FreshOK(r) ==
    req[r].pc = "checked" /\ req[r].op = "newShare"
       => /\ req[r].share \in ShareIDs /\ shares[req[r].share].st = "none"
          /\ \A q \in Requests \ {r} : req[q].share # req[r].share

\* What a user's request is about to change is his, or he is an administrator.
OwnerOK(r) ==
    req[r].pc = "checked"
       => /\ req[r].op \in UserOps
          /\ req[r].op \in {"addRemove", "update", "delete"}
               => /\ req[r].inc \in Incidents /\ inc[req[r].inc].st # "none"
                  /\ MayChange(req[r].user, inc[req[r].inc].owner)
          /\ req[r].op = "deleteShare"
               => /\ req[r].share \in ShareIDs /\ shares[req[r].share].st # "none"
                  /\ MayChange(req[r].user, shares[req[r].share].owner)

IInv == TypeOK /\ \A r \in Requests : GuestOK(r) /\ FreshOK(r) /\ OwnerOK(r)

\* Until he is answered, what is kept for a guest is in the entity and is there;
\* who asks for a list has the share of an incident.
KeptOK(r) ==
    /\ req[r].pc \in {"loaded", "allowed", "found"}
          => \A c \in kept[r] : /\ c \in CallsOf(shares[req[r].share].ent, links)
                               /\ callAt[c] # "gone"
    /\ req[r].pc \in {"loaded", "allowed", "found", "done"}
         /\ req[r].op \in {"incident", "calls", "talkgroups", "m3u"}
          => shares[req[r].share].ent \in Incidents
    /\ req[r].pc = "found" => req[r].op = "m3u"
    /\ req[r].pc = "done" /\ req[r].op = "audio" /\ req[r].call \in kept[r]
          => req[r].reply = "ok"
    /\ req[r].pc = "done" /\ req[r].op \in {"calls", "m3u"} /\ req[r].reply = "ok"
          => kept[r] \subseteq req[r].served
KInv == \A r \in Requests : KeptOK(r)
=============================================================================
