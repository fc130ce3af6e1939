--------------------------- MODULE SharingProofs ---------------------------
(***************************************************************************)
(* Theorems about Sharing, for every set of users with any roles, and any  *)
(* calls, incidents, shares and requests.                                  *)
(***************************************************************************)
EXTENDS Sharing, TLAPS

(***************************************************************************)
(* The policy.                                                             *)
(***************************************************************************)
\* A share lets its holder read a call that it shares or that is in the incident
\* it shares, and no other.
LEMMA GuestReads ==
    ASSUME NEW s, NEW c, GuestMayRead(s, "Call", c)
    PROVE  c = shares[s].ent \/ CallInIncidentCondition(s, c)
<1> DEFINE holding == (IF c = shares[s].ent THEN {"readShared"} ELSE {})
                      \cup (IF "Call" = "Call" /\ CallInIncidentCondition(s, c)
                            THEN {"callInIncident"} ELSE {})
<1>1. PICK role \in WithParents(ShareRoles), cond \in holding \cup {"none"} :
         <<"Call", "read", cond>> \in GrantsOf(role)
  BY DEF GuestMayRead, May
<1>2. role = "ShareGuest"
  BY <1>1 DEF WithParents, ShareRoles
<1>3. GrantsOf(role) = GuestGrants
  BY <1>2 DEF GrantsOf, RoleGrants
<1>4. cond # "none"
  BY <1>1, <1>3 DEF GuestGrants, Free
<1>. QED  BY <1>1, <1>4

\* Of the roles that are not an administrator's none has an unconditional right
\* to change an incident or to delete a share.
LEMMA OnlyConditional ==
    ASSUME NEW role \in Roles \ {"Admin"}
    PROVE  /\ <<"Incident", "update", "none">> \notin GrantsOf(role)
           /\ <<"Incident", "delete", "none">> \notin GrantsOf(role)
           /\ <<"Share", "delete", "none">> \notin GrantsOf(role)
<1>1. CASE role = "User"
  <2>1. GrantsOf(role) = UserGrants
    BY <1>1 DEF GrantsOf, RoleGrants
  <2>. QED  BY <2>1 DEF UserGrants, Free, Own, OfSubmitter, OwnPresets, SubmitterPresets,
                        TranscribePreset, SelfPresets
<1>2. CASE role = "Submitter"
  <2>1. GrantsOf(role) = SubmitterGrants
    BY <1>2 DEF GrantsOf, RoleGrants
  <2>. QED  BY <2>1 DEF SubmitterGrants, Free
<1>3. CASE role = "Sharer"
  <2>1. GrantsOf(role) = SharerGrants
    BY <1>3 DEF GrantsOf, RoleGrants
  <2>. QED  BY <2>1 DEF SharerGrants, Free
<1>4. CASE role = "ShareGuest"
  <2>1. GrantsOf(role) = GuestGrants
    BY <1>4 DEF GrantsOf, RoleGrants
  <2>. QED  BY <2>1 DEF GuestGrants, Free
<1>5. CASE role = "Public"
  <2>1. GrantsOf(role) = PublicGrants
    BY <1>5 DEF GrantsOf, RoleGrants
  <2>. QED  BY <2>1 DEF PublicGrants, Free
<1>6. CASE role = "Transcriber"
  <2>1. GrantsOf(role) = TranscriberGrants
    BY <1>6 DEF GrantsOf, RoleGrants
  <2>. QED  BY <2>1 DEF TranscriberGrants, Free
<1>7. CASE role = "System"
  BY <1>7 DEF GrantsOf, RoleGrants
<1>. QED  BY <1>1, <1>2, <1>3, <1>4, <1>5, <1>6, <1>7 DEF Roles

\* A user may change what he owns; an administrator anything.
LEMMA UsersChange ==
    ASSUME NEW u \in Users, NEW resource, NEW action, NEW owner,
           <<resource, action>> \in {<<"Incident", "update">>, <<"Incident", "delete">>,
                                     <<"Share", "delete">>},
           UserMay(u, resource, action, owner)
    PROVE  MayChange(u, owner)
<1> SUFFICES ASSUME owner # u, ~IsAdmin(u)
             PROVE  FALSE
  BY DEF MayChange
<1>1. ExtraRoles[u] \subseteq Roles
  BY SharingAssumption
<1>2. WithParents(UserRoles(ExtraRoles[u])) = ExtraRoles[u] \cup {"User"}
  BY DEF WithParents, UserRoles, IsAdmin
<1>3. PICK role \in ExtraRoles[u] \cup {"User"} : <<resource, action, "none">> \in GrantsOf(role)
  BY <1>2 DEF UserMay, May
<1>4. role \in Roles \ {"Admin"}
  BY <1>1 DEF Roles, IsAdmin
<1>. QED  BY <1>3, <1>4, OnlyConditional

(***************************************************************************)
(* Types.  The tables grow: what a row of them has been given stays.       *)
(***************************************************************************)
Tables ==
    /\ callAt \in [Calls -> {"calls", "swept_calls", "gone"}]
    /\ inc \in [Incidents -> IncidentSet]
    /\ links \subseteq Incidents \X Calls
    /\ \A l \in links : inc[l[1]].st = "live"
    /\ shares \in [ShareIDs -> ShareSet]
    /\ req \in [Requests -> RequestSet]

SharesGrow ==
    \A s \in ShareIDs : shares[s].st # "none" =>
       /\ shares'[s].st # "none"
       /\ shares'[s].ent = shares[s].ent /\ shares'[s].owner = shares[s].owner
IncidentsGrow ==
    \A i \in Incidents : inc[i].st # "none" =>
       inc'[i].st # "none" /\ inc'[i].owner = inc[i].owner
\* A step of one request, which becomes the record x.
Becomes(r, x) ==
    /\ req'[r] = x
    /\ \A q \in Requests \ {r} : req'[q] = req[q]

LEMMA OneRequest ==
    ASSUME NEW r \in Requests, NEW x \in RequestSet, Tables, req' = [req EXCEPT ![r] = x]
    PROVE  req' \in [Requests -> RequestSet] /\ Becomes(r, x)
<1>. HIDE DEF RequestSet
<1>. QED  BY DEF Tables, Becomes

LEMMA IdleType == Idle \in RequestSet
BY DEF Idle, RequestSet

\* Steps that leave the requests alone.
LEMMA TablesCreateIncident ==
    ASSUME Tables, NEW u \in Users, NEW i \in Incidents, NEW calls \in SUBSET Calls,
           CreateIncident(u, i, calls)
    PROVE  Tables' /\ SharesGrow /\ IncidentsGrow
<1>1. CreateIncidentRow(u) \in IncidentSet /\ CreateIncidentRow(u).st = "live"
  BY DEF CreateIncidentRow, IncidentSet
<1>2. inc' \in [Incidents -> IncidentSet] /\ inc'[i].st = "live"
      /\ \A j \in Incidents \ {i} : inc'[j] = inc[j]
  BY <1>1 DEF CreateIncident, Tables
<1>3. AddToIncident(i, calls) \subseteq Incidents \X Calls
      /\ \A l \in AddToIncident(i, calls) : l[1] = i
  BY DEF AddToIncident
<1>4. links' \subseteq Incidents \X Calls /\ \A l \in links' : inc'[l[1]].st = "live"
  BY <1>2, <1>3 DEF CreateIncident, Tables
<1>. QED  BY <1>2, <1>4 DEF CreateIncident, Tables, SharesGrow, IncidentsGrow

LEMMA TablesPruneShares ==
    ASSUME Tables, PruneShares
    PROVE  Tables' /\ SharesGrow /\ IncidentsGrow
<1>1. \A s \in ShareIDs : [shares[s] EXCEPT !.st = "pruned"] \in ShareSet
  BY DEF Tables, ShareSet
<1>2. shares' \in [ShareIDs -> ShareSet]
  BY <1>1 DEF PruneShares, Tables
<1>3. SharesGrow
  BY DEF PruneShares, Tables, SharesGrow, ShareSet
<1>. QED  BY <1>2, <1>3 DEF PruneShares, Tables, IncidentsGrow

LEMMA TablesPrunePartition ==
    ASSUME Tables, NEW c \in Calls, PrunePartition(c)
    PROVE  Tables' /\ SharesGrow /\ IncidentsGrow
BY DEF PrunePartition, Tables, SharesGrow, IncidentsGrow

LEMMA TablesExpire ==
    ASSUME Tables, NEW s \in ShareIDs, Expire(s)
    PROVE  Tables' /\ SharesGrow /\ IncidentsGrow
<1>1. [shares[s] EXCEPT !.expired = TRUE] \in ShareSet
  <2>1. shares[s] \in ShareSet
    BY DEF Tables
  <2>. QED  BY <2>1 DEF ShareSet
<1>2. shares' = [shares EXCEPT ![s] = [shares[s] EXCEPT !.expired = TRUE]]
  BY DEF Expire
<1>3. shares' \in [ShareIDs -> ShareSet]
  BY <1>1, <1>2 DEF Tables
<1>4. SharesGrow
  BY <1>2 DEF Tables, SharesGrow, ShareSet
<1>. QED  BY <1>3, <1>4 DEF Expire, Tables, IncidentsGrow

\* Steps that end a user's request.
LEMMA TablesAddRemove ==
    ASSUME Tables, NEW r \in Requests, OwnerOK(r), AddRemoveIncidentCalls(r)
    PROVE  Tables' /\ SharesGrow /\ IncidentsGrow /\ Becomes(r, Idle)
<1>1. req' \in [Requests -> RequestSet] /\ Becomes(r, Idle)
  BY OneRequest, IdleType DEF AddRemoveIncidentCalls, End
<1>. DEFINE i == req[r].inc
            rows == AddToIncident(i, req[r].add) \ links
<1>2. i \in Incidents
  BY DEF OwnerOK, AddRemoveIncidentCalls
<1>3. req[r].add \subseteq Calls
  BY DEF Tables, RequestSet
<1>4. rows \subseteq Incidents \X Calls /\ \A l \in rows : l[1] = i
  BY <1>2, <1>3 DEF AddToIncident
<1>5. links' \subseteq links \cup rows /\ (rows = {} \/ inc[i].st = "live" \/ links' = links)
  BY DEF AddRemoveIncidentCalls
<1>. HIDE DEF rows, i
<1>6. links' \subseteq Incidents \X Calls /\ \A l \in links' : inc[l[1]].st = "live"
  BY <1>4, <1>5 DEF Tables
<1>7. UNCHANGED <<callAt, inc, shares>>
  BY DEF AddRemoveIncidentCalls
<1>. QED  BY <1>1, <1>6, <1>7 DEF Tables, SharesGrow, IncidentsGrow

LEMMA TablesUpdateIncident ==
    ASSUME Tables, NEW r \in Requests, OwnerOK(r), UpdateIncident(r)
    PROVE  Tables' /\ SharesGrow /\ IncidentsGrow /\ Becomes(r, Idle)
<1>1. req' \in [Requests -> RequestSet] /\ Becomes(r, Idle)
  BY OneRequest, IdleType DEF UpdateIncident, End
<1>. DEFINE i == req[r].inc
            row == UpdateIncidentRow(inc[i])
<1>2. i \in Incidents
  BY DEF OwnerOK, UpdateIncident
<1>3. inc[i] \in IncidentSet
  BY <1>2 DEF Tables
<1>4. row \in IncidentSet /\ row.st = inc[i].st /\ row.owner = inc[i].owner
  BY <1>3 DEF UpdateIncidentRow, IncidentSet
<1>5. inc' = [inc EXCEPT ![i] = row]
  BY DEF UpdateIncident
<1>6. UNCHANGED <<callAt, links, shares>>
  BY DEF UpdateIncident
<1>. HIDE DEF i, row
<1>7. inc' \in [Incidents -> IncidentSet]
      /\ \A j \in Incidents : inc'[j].st = inc[j].st /\ inc'[j].owner = inc[j].owner
  BY <1>2, <1>4, <1>5 DEF Tables
<1>8. \A l \in links' : inc'[l[1]].st = "live"
  BY <1>6, <1>7 DEF Tables
<1>. QED  BY <1>1, <1>6, <1>7, <1>8 DEF Tables, SharesGrow, IncidentsGrow

LEMMA TablesDeleteIncident ==
    ASSUME Tables, NEW r \in Requests, OwnerOK(r), DeleteIncident(r)
    PROVE  Tables' /\ SharesGrow /\ IncidentsGrow /\ Becomes(r, Idle)
<1>1. req' \in [Requests -> RequestSet] /\ Becomes(r, Idle)
  BY OneRequest, IdleType DEF DeleteIncident, End
<1>. DEFINE i == req[r].inc
            row == DeleteIncidentRow(inc[i])
<1>2. i \in Incidents
  BY DEF OwnerOK, DeleteIncident
<1>3. inc[i] \in IncidentSet
  BY <1>2 DEF Tables
<1>4. row \in IncidentSet /\ row.st = "gone" /\ row.owner = inc[i].owner
  <2>1. 0 \in 0..1
    OBVIOUS
  <2>. QED  BY <1>3, <2>1 DEF DeleteIncidentRow, IncidentSet
<1>5. inc' = [inc EXCEPT ![i] = row] /\ links' = {l \in links : l[1] # i}
  BY DEF DeleteIncident
<1>6. UNCHANGED <<callAt, shares>>
  BY DEF DeleteIncident
<1>. HIDE DEF i, row
<1>7. inc' \in [Incidents -> IncidentSet] /\ IncidentsGrow
      /\ \A j \in Incidents \ {i} : inc'[j] = inc[j]
  BY <1>2, <1>4, <1>5 DEF Tables, IncidentsGrow
<1>8. links' \subseteq Incidents \X Calls /\ \A l \in links' : inc'[l[1]].st = "live"
  BY <1>5, <1>7 DEF Tables
<1>. QED  BY <1>1, <1>6, <1>7, <1>8 DEF Tables, SharesGrow

LEMMA TablesCreateShare ==
    ASSUME Tables, NEW r \in Requests, FreshOK(r), CreateShare(r)
    PROVE  /\ Tables' /\ SharesGrow /\ IncidentsGrow /\ Becomes(r, Idle)
           /\ \A s \in ShareIDs \ {req[r].share} : shares'[s] = shares[s]
<1>1. req' \in [Requests -> RequestSet] /\ Becomes(r, Idle)
  BY OneRequest, IdleType DEF CreateShare, End
<1>. DEFINE s == req[r].share
            ent == IF req[r].call # Nobody THEN req[r].call ELSE req[r].inc
            row == CreateShareRow(req[r].user, ent)
<1>2. s \in ShareIDs /\ shares[s].st = "none"
  BY DEF FreshOK, CreateShare
<1>3. req[r].user \in Users \cup {Nobody} /\ ent \in Entities \cup {Nobody}
  BY DEF Tables, RequestSet, Entities
<1>4. row \in ShareSet
  BY <1>3 DEF CreateShareRow, ShareSet
<1>5. shares' = [shares EXCEPT ![s] = row] \/ shares' = shares
  BY DEF CreateShare
<1>6. UNCHANGED <<callAt, inc, links>>
  BY DEF CreateShare
<1>. HIDE DEF s, row
<1>7. shares' \in [ShareIDs -> ShareSet] /\ \A t \in ShareIDs \ {s} : shares'[t] = shares[t]
  BY <1>2, <1>4, <1>5 DEF Tables
<1>8. SharesGrow
  BY <1>2, <1>7 DEF SharesGrow
<1>. QED  BY <1>1, <1>6, <1>7, <1>8 DEF Tables, IncidentsGrow, s

LEMMA TablesDeleteShare ==
    ASSUME Tables, NEW r \in Requests, OwnerOK(r), DeleteShare(r)
    PROVE  /\ Tables' /\ SharesGrow /\ IncidentsGrow /\ Becomes(r, Idle)
           /\ \A t \in ShareIDs : shares[t].st = "none" => shares'[t] = shares[t]
<1>1. req' \in [Requests -> RequestSet] /\ Becomes(r, Idle)
  BY OneRequest, IdleType DEF DeleteShare, End
<1>. DEFINE s == req[r].share
            row == DeleteShareRow(shares[s])
<1>2. s \in ShareIDs /\ shares[s].st # "none"
  BY DEF OwnerOK, DeleteShare
<1>3. shares[s] \in ShareSet
  BY <1>2 DEF Tables
<1>4. row \in ShareSet /\ row.st # "none" /\ row.owner = shares[s].owner /\ row.ent = shares[s].ent
  BY <1>2, <1>3 DEF DeleteShareRow, ShareSet
<1>5. shares' = [shares EXCEPT ![s] = row]
  BY DEF DeleteShare
<1>6. UNCHANGED <<callAt, inc, links>>
  BY DEF DeleteShare
<1>. HIDE DEF s, row
<1>7. shares' \in [ShareIDs -> ShareSet] /\ shares'[s] = row
      /\ \A t \in ShareIDs \ {s} : shares'[t] = shares[t]
  BY <1>2, <1>4, <1>5 DEF Tables
<1>8. SharesGrow
  BY <1>4, <1>7 DEF SharesGrow
<1>. QED  BY <1>1, <1>2, <1>6, <1>7, <1>8 DEF Tables, IncidentsGrow

LEMMA TablesFinish ==
    ASSUME Tables, NEW r \in Requests, Finish(r)
    PROVE  Tables' /\ Becomes(r, Idle) /\ UNCHANGED <<callAt, inc, links, shares>>
<1>1. req' \in [Requests -> RequestSet] /\ Becomes(r, Idle)
  BY OneRequest, IdleType DEF Finish, End
<1>. QED  BY <1>1 DEF Finish, Tables

\* Steps that begin a request.
LEMMA TablesCheckEntity ==
    ASSUME Tables, NEW r \in Requests, NEW u \in Users, NEW s \in ShareIDs, NEW ent \in Entities,
           CheckEntity(r, u, s, ent)
    PROVE  /\ Tables' /\ UNCHANGED <<callAt, inc, links, shares>>
           /\ Becomes(r, req'[r])
           /\ req'[r].pc = "checked" /\ req'[r].user = u /\ req'[r].op = "newShare"
           /\ req'[r].share = s /\ req'[r].served = {}
<1>. DEFINE x == [Idle EXCEPT !.user = u, !.op = "newShare", !.share = s, !.call = ent,
                              !.pc = "checked"]
            y == [Idle EXCEPT !.user = u, !.op = "newShare", !.share = s, !.inc = ent,
                              !.pc = "checked"]
<1>1. ent \in Calls => x \in RequestSet
  BY DEF Idle, RequestSet, UserOps
<1>2. ent \in Incidents => y \in RequestSet
  BY DEF Idle, RequestSet, UserOps
<1>3. x.pc = "checked" /\ x.user = u /\ x.op = "newShare" /\ x.share = s /\ x.served = {}
  BY DEF Idle
<1>4. y.pc = "checked" /\ y.user = u /\ y.op = "newShare" /\ y.share = s /\ y.served = {}
  BY DEF Idle
<1>5. \/ ent \in Calls /\ req' = [req EXCEPT ![r] = x]
      \/ ent \in Incidents /\ req' = [req EXCEPT ![r] = y]
  BY DEF CheckEntity, Begin, Idle
<1>6. UNCHANGED <<callAt, inc, links, shares>>
  BY DEF CheckEntity
<1>. HIDE DEF x, y
<1>7. \/ req' \in [Requests -> RequestSet] /\ Becomes(r, x)
      \/ req' \in [Requests -> RequestSet] /\ Becomes(r, y)
  BY <1>1, <1>2, <1>5, OneRequest
<1>. QED  BY <1>3, <1>4, <1>6, <1>7 DEF Tables, Becomes

LEMMA TablesCheckShare ==
    ASSUME Tables, NEW r \in Requests, NEW u \in Users, NEW s \in ShareIDs, CheckShare(r, u, s)
    PROVE  /\ Tables' /\ UNCHANGED <<callAt, inc, links, shares>>
           /\ Becomes(r, [Idle EXCEPT !.user = u, !.op = "deleteShare", !.share = s,
                                      !.pc = "checked"])
<1>. DEFINE x == [Idle EXCEPT !.user = u, !.op = "deleteShare", !.share = s, !.pc = "checked"]
<1>1. x \in RequestSet
  BY DEF Idle, RequestSet, UserOps
<1>2. req' = [req EXCEPT ![r] = x]
  BY DEF CheckShare, Begin, Idle
<1>3. UNCHANGED <<callAt, inc, links, shares>>
  BY DEF CheckShare
<1>. HIDE DEF x
<1>4. req' \in [Requests -> RequestSet] /\ Becomes(r, x)
  BY <1>1, <1>2, OneRequest
<1>. QED  BY <1>3, <1>4 DEF Tables, x

LEMMA TablesRouteShare ==
    ASSUME Tables, NEW r \in Requests, NEW s \in ShareIDs, NEW op \in GuestOps,
           NEW c \in Calls \cup {Nobody}, RouteShare(r, s, op, c)
    PROVE  /\ Tables' /\ UNCHANGED <<callAt, inc, links, shares>>
           /\ Becomes(r, [Idle EXCEPT !.pc = "loaded", !.op = op, !.share = s, !.call = c])
<1>. DEFINE x == [Idle EXCEPT !.pc = "loaded", !.op = op, !.share = s, !.call = c]
<1>1. x \in RequestSet
  BY DEF Idle, RequestSet
<1>2. req' = [req EXCEPT ![r] = x] /\ UNCHANGED <<callAt, inc, links, shares>>
  BY DEF RouteShare
<1>. HIDE DEF x
<1>3. req' \in [Requests -> RequestSet] /\ Becomes(r, x)
  BY <1>1, <1>2, OneRequest
<1>. QED  BY <1>2, <1>3 DEF Tables, x

\* Steps that answer a guest.
SameQuestion(r) ==
    /\ req'[r].user = req[r].user /\ req'[r].op = req[r].op
    /\ req'[r].share = req[r].share /\ req'[r].call = req[r].call

LEMMA Answered ==
    ASSUME Tables, NEW r \in Requests, NEW reply \in {"ok", "denied", "notfound"},
           NEW served \in SUBSET Calls, Answer(r, reply, served),
           UNCHANGED <<callAt, inc, links, shares>>
    PROVE  /\ Tables' /\ Becomes(r, req'[r]) /\ SameQuestion(r)
           /\ req'[r].pc = "done" /\ req'[r].served = served
<1>. DEFINE x == [req[r] EXCEPT !.pc = "done", !.reply = reply, !.served = served]
<1>1. req[r] \in RequestSet
  BY DEF Tables
<1>2. x \in RequestSet
  BY <1>1 DEF RequestSet
<1>3. /\ x.user = req[r].user /\ x.op = req[r].op /\ x.share = req[r].share
      /\ x.call = req[r].call /\ x.pc = "done" /\ x.served = served
  BY <1>1 DEF RequestSet
<1>4. req' = [req EXCEPT ![r] = x]
  BY DEF Answer
<1>. HIDE DEF x
<1>5. req' \in [Requests -> RequestSet] /\ Becomes(r, x)
  BY <1>2, <1>4, OneRequest
<1>. QED  BY <1>3, <1>5 DEF Tables, Becomes, SameQuestion

LEMMA Advanced ==
    ASSUME Tables, NEW r \in Requests, NEW pc \in {"allowed", "found"}, Goto(r, pc),
           UNCHANGED <<callAt, inc, links, shares>>
    PROVE  /\ Tables' /\ Becomes(r, req'[r]) /\ SameQuestion(r)
           /\ req'[r].pc = pc /\ req'[r].served = req[r].served
<1>. DEFINE x == [req[r] EXCEPT !.pc = pc]
<1>1. req[r] \in RequestSet
  BY DEF Tables
<1>2. x \in RequestSet
  BY <1>1 DEF RequestSet
<1>3. /\ x.user = req[r].user /\ x.op = req[r].op /\ x.share = req[r].share
      /\ x.call = req[r].call /\ x.pc = pc /\ x.served = req[r].served
  BY <1>1 DEF RequestSet
<1>4. req' = [req EXCEPT ![r] = x]
  BY DEF Goto
<1>. HIDE DEF x
<1>5. req' \in [Requests -> RequestSet] /\ Becomes(r, x)
  BY <1>2, <1>4, OneRequest
<1>. QED  BY <1>3, <1>5 DEF Tables, Becomes, SameQuestion
GuestStep(r) ==
    Authorize(r) \/ ServeAudio(r) \/ ServeInfo(r) \/ GetIncident(r)
    \/ ServeCalls(r) \/ ServeTalkgroups(r) \/ ServePlaylist(r)

\* A guest is allowed a call that the entity holds now, and served one he was
\* allowed or one that the entity holds now.
LEMMA GuestSteps ==
    ASSUME Tables, NEW r \in Requests, GuestOK(r), GuestStep(r)
    PROVE  /\ Tables' /\ UNCHANGED <<callAt, inc, links, shares>>
           /\ Becomes(r, req'[r]) /\ SameQuestion(r)
           /\ req[r].pc \in {"loaded", "allowed", "found"}
           /\ req'[r].pc \in {"allowed", "found", "done"}
           /\ req'[r].pc # "done" => req'[r].served = {}
           /\ req'[r].served \subseteq seen[r] \cup CallsOf(shares[req[r].share].ent, links)
           /\ req'[r].pc = "allowed" /\ req'[r].op \in {"audio", "info"}
                 => req'[r].call \in CallsOf(shares[req[r].share].ent, links)
<1>. DEFINE ent == shares[req[r].share].ent
            c == req[r].call
<1>1. CASE Authorize(r)
  <2>1. req[r].pc = "loaded" /\ UNCHANGED <<callAt, inc, links, shares>>
    BY <1>1 DEF Authorize
  <2>2. req[r].served = {} /\ (req[r].op \in {"audio", "info"} => c \in Calls)
    BY <2>1 DEF GuestOK
  <2>3. CASE Answer(r, "denied", {})
    <3>1. Tables' /\ Becomes(r, req'[r]) /\ SameQuestion(r)
          /\ req'[r].pc = "done" /\ req'[r].served = {}
      BY <2>1, <2>3, Answered
    <3>. QED  BY <2>1, <3>1
  <2>4. CASE /\ Goto(r, "allowed")
             /\ req[r].op \in {"audio", "info"} => GuestMayRead(req[r].share, "Call", c)
    <3>1. Tables' /\ Becomes(r, req'[r]) /\ SameQuestion(r)
          /\ req'[r].pc = "allowed" /\ req'[r].served = {}
      BY <2>1, <2>2, <2>4, Advanced
    <3>2. ASSUME req[r].op \in {"audio", "info"}
          PROVE  c \in CallsOf(ent, links)
      <4>1. c = ent \/ CallInIncidentCondition(req[r].share, c)
        BY <2>4, <3>2, GuestReads
      <4>2. c \in Calls
        BY <2>2, <3>2
      <4>. QED  BY <4>1, <4>2 DEF CallsOf, CallInIncidentCondition, CallInIncident
    <3>. QED  BY <2>1, <3>1, <3>2 DEF SameQuestion
  <2>. QED  BY <1>1, <2>3, <2>4 DEF Authorize
<1>2. CASE ServeAudio(r) \/ ServeInfo(r)
  <2>1. /\ req[r].pc = "allowed" /\ req[r].op \in {"audio", "info"}
        /\ UNCHANGED <<callAt, inc, links, shares>>
        /\ Answer(r, "ok", {c}) \/ Answer(r, "notfound", {})
    BY <1>2 DEF ServeAudio, ServeInfo
  <2>2. c \in Calls /\ c \in seen[r]
    BY <2>1 DEF GuestOK
  <2>3. /\ Tables' /\ Becomes(r, req'[r]) /\ SameQuestion(r)
        /\ req'[r].pc = "done" /\ (req'[r].served = {c} \/ req'[r].served = {})
    <3>1. CASE Answer(r, "ok", {c})
      BY <2>1, <2>2, <3>1, Answered
    <3>2. CASE Answer(r, "notfound", {})
      BY <2>1, <3>2, Answered
    <3>. QED  BY <2>1, <3>1, <3>2
  <2>. QED  BY <2>1, <2>2, <2>3
<1>3. CASE GetIncident(r)
  <2>1. /\ req[r].pc = "allowed" /\ req[r].op \in {"incident", "m3u"}
        /\ UNCHANGED <<callAt, inc, links, shares>>
        /\ Answer(r, "notfound", {}) \/ Goto(r, "found") \/ Answer(r, "ok", {})
    BY <1>3 DEF GetIncident
  <2>2. req[r].served = {}
    BY <2>1 DEF GuestOK
  <2>3. /\ Tables' /\ Becomes(r, req'[r]) /\ SameQuestion(r)
        /\ req'[r].pc \in {"found", "done"} /\ req'[r].served = {}
    <3>1. CASE Answer(r, "ok", {}) \/ Answer(r, "notfound", {})
      BY <2>1, <3>1, Answered
    <3>2. CASE Goto(r, "found")
      BY <2>1, <2>2, <3>2, Advanced
    <3>. QED  BY <2>1, <3>1, <3>2
  <2>. QED  BY <2>1, <2>3
<1>4. CASE ServeCalls(r) \/ ServeTalkgroups(r) \/ ServePlaylist(r)
  <2>1. PICK calls \in {GetIncidentCalls(ent), GetIncidentTalkgroups(ent)} :
           /\ req[r].pc \in {"allowed", "found"} /\ Answer(r, "ok", calls)
           /\ UNCHANGED <<callAt, inc, links, shares>>
    BY <1>4 DEF ServeCalls, ServeTalkgroups, ServePlaylist
  <2>2. calls \subseteq CallsOf(ent, links) /\ calls \in SUBSET Calls
    BY DEF GetIncidentCalls, GetIncidentTalkgroups, CallsOf
  <2>3. /\ Tables' /\ Becomes(r, req'[r]) /\ SameQuestion(r)
        /\ req'[r].pc = "done" /\ req'[r].served = calls
    BY <2>1, <2>2, Answered
  <2>. QED  BY <2>1, <2>2, <2>3
<1>. QED  BY <1>1, <1>2, <1>3, <1>4 DEF GuestStep

(***************************************************************************)
(* The history.                                                            *)
(***************************************************************************)
LEMMA Watched ==
    ASSUME Tables', seen \in [Requests -> SUBSET Calls], kept \in [Requests -> SUBSET Calls],
           Watch
    PROVE  seen' \in [Requests -> SUBSET Calls] /\ kept' \in [Requests -> SUBSET Calls]
<1>1. ASSUME NEW r \in Requests
      PROVE  CallsOf(shares'[req'[r].share].ent, links') \subseteq Calls
  BY DEF CallsOf
<1>2. seen' \in [Requests -> SUBSET Calls]
  BY <1>1 DEF Watch
<1>3. kept' \in [Requests -> SUBSET Calls]
  BY DEF Watch, CallsOf
<1>. QED  BY <1>2, <1>3

LEMMA WatchGrows ==
    ASSUME NEW r \in Requests, Watch, req'[r].user = Nobody, req'[r].share \in ShareIDs
    PROVE  /\ req[r].pc = "done" => seen'[r] = seen[r]
           /\ req[r].pc # "done"
                 => seen'[r] = seen[r] \cup CallsOf(shares'[req'[r].share].ent, links')
<1>1. Asks(req'[r])
  BY SharingAssumption DEF Asks
<1>. QED  BY <1>1 DEF Watch
(***************************************************************************)
(* What a step leaves of the invariant of a request, by what it does to it.*)
(***************************************************************************)
\* A request the step does not touch.
LEMMA Untouched ==
    ASSUME Tables, NEW r \in Requests, GuestOK(r), OwnerOK(r), req'[r] = req[r],
           Tables', SharesGrow, IncidentsGrow, Watch
    PROVE  GuestOK(r)' /\ OwnerOK(r)'
<1>1. GuestOK(r)'
  <2>1. CASE req[r].pc \in {"loaded", "allowed", "found", "done"}
    <3>1. /\ req[r].user = Nobody /\ req[r].share \in ShareIDs
          /\ shares[req[r].share].st # "none"
      BY <2>1 DEF GuestOK
    <3>2. seen[r] \subseteq seen'[r]
      BY <3>1, WatchGrows
    <3>3. shares'[req[r].share].st # "none"
      BY <3>1 DEF SharesGrow
    <3>. QED  BY <3>1, <3>2, <3>3 DEF GuestOK
  <2>2. CASE req[r].pc \in {"idle", "checked"}
    <3>1. req[r].served = {}
      BY <2>2 DEF GuestOK
    <3>. QED  BY <2>2, <3>1 DEF GuestOK
  <2>3. req[r].pc \in {"idle", "checked", "loaded", "allowed", "found", "done"}
    BY DEF Tables, RequestSet
  <2>. QED  BY <2>1, <2>2, <2>3
<1>2. OwnerOK(r)'
  <2>. SUFFICES ASSUME req[r].pc = "checked"
                PROVE  OwnerOK(r)'
    BY DEF OwnerOK
  <2>1. req[r].op \in UserOps
    BY DEF OwnerOK
  <2>2. ASSUME req[r].op \in {"addRemove", "update", "delete"}
        PROVE  /\ req[r].inc \in Incidents /\ inc'[req[r].inc].st # "none"
               /\ MayChange(req[r].user, inc'[req[r].inc].owner)
    BY <2>2 DEF OwnerOK, IncidentsGrow
  <2>3. ASSUME req[r].op = "deleteShare"
        PROVE  /\ req[r].share \in ShareIDs /\ shares'[req[r].share].st # "none"
               /\ MayChange(req[r].user, shares'[req[r].share].owner)
    BY <2>3 DEF OwnerOK, SharesGrow
  <2>. QED  BY <2>1, <2>2, <2>3 DEF OwnerOK
<1>. QED  BY <1>1, <1>2

\* A request that ends.
LEMMA Ended ==
    ASSUME NEW r \in Requests, req'[r] = Idle
    PROVE  GuestOK(r)' /\ OwnerOK(r)' /\ FreshOK(r)'
BY DEF GuestOK, OwnerOK, FreshOK, Idle

\* IInv, step by step.
RequestInv == \A r \in Requests : GuestOK(r) /\ FreshOK(r) /\ OwnerOK(r)

LEMMA InvCreateIncident ==
    ASSUME Tables, RequestInv, Watch, NEW u \in Users, NEW i \in Incidents,
           NEW calls \in SUBSET Calls, CreateIncident(u, i, calls)
    PROVE  Tables' /\ RequestInv'
<1>1. Tables' /\ SharesGrow /\ IncidentsGrow
  BY TablesCreateIncident
<1>2. UNCHANGED <<shares, req>>
  BY DEF CreateIncident
<1>3. ASSUME NEW r \in Requests
      PROVE  GuestOK(r)' /\ OwnerOK(r)' /\ FreshOK(r)'
  <2>1. GuestOK(r)' /\ OwnerOK(r)'
    BY <1>1, <1>2, Untouched DEF RequestInv
  <2>2. FreshOK(r)'
    BY <1>2 DEF RequestInv, FreshOK
  <2>. QED  BY <2>1, <2>2
<1>. QED  BY <1>1, <1>3 DEF RequestInv

LEMMA InvPruneShares ==
    ASSUME Tables, RequestInv, Watch, PruneShares
    PROVE  Tables' /\ RequestInv'
<1>1. Tables' /\ SharesGrow /\ IncidentsGrow
  BY TablesPruneShares
<1>2. UNCHANGED req /\ \A s \in ShareIDs : shares[s].st = "none" => shares'[s].st = "none"
  BY DEF PruneShares
<1>3. ASSUME NEW r \in Requests
      PROVE  GuestOK(r)' /\ OwnerOK(r)' /\ FreshOK(r)'
  <2>1. GuestOK(r)' /\ OwnerOK(r)'
    BY <1>1, <1>2, Untouched DEF RequestInv
  <2>2. FreshOK(r)'
    BY <1>2 DEF RequestInv, FreshOK
  <2>. QED  BY <2>1, <2>2
<1>. QED  BY <1>1, <1>3 DEF RequestInv

LEMMA InvPrunePartition ==
    ASSUME Tables, RequestInv, Watch, NEW c \in Calls, PrunePartition(c)
    PROVE  Tables' /\ RequestInv'
<1>1. Tables' /\ SharesGrow /\ IncidentsGrow
  BY TablesPrunePartition
<1>2. UNCHANGED <<shares, req>>
  BY DEF PrunePartition
<1>3. ASSUME NEW r \in Requests
      PROVE  GuestOK(r)' /\ OwnerOK(r)' /\ FreshOK(r)'
  <2>1. GuestOK(r)' /\ OwnerOK(r)'
    BY <1>1, <1>2, Untouched DEF RequestInv
  <2>2. FreshOK(r)'
    BY <1>2 DEF RequestInv, FreshOK
  <2>. QED  BY <2>1, <2>2
<1>. QED  BY <1>1, <1>3 DEF RequestInv

LEMMA InvExpire ==
    ASSUME Tables, RequestInv, Watch, NEW s \in ShareIDs, Expire(s)
    PROVE  Tables' /\ RequestInv'
<1>1. Tables' /\ SharesGrow /\ IncidentsGrow
  BY TablesExpire
<1>2. UNCHANGED req /\ \A t \in ShareIDs : shares[t].st = "none" => shares'[t].st = "none"
  BY DEF Expire, Tables
<1>3. ASSUME NEW r \in Requests
      PROVE  GuestOK(r)' /\ OwnerOK(r)' /\ FreshOK(r)'
  <2>1. GuestOK(r)' /\ OwnerOK(r)'
    BY <1>1, <1>2, Untouched DEF RequestInv
  <2>2. FreshOK(r)'
    BY <1>2 DEF RequestInv, FreshOK
  <2>. QED  BY <2>1, <2>2
<1>. QED  BY <1>1, <1>3 DEF RequestInv

\* A user's request that ends; only CreateShare gives a share without a row one.
LEMMA InvEnds ==
    ASSUME Tables, RequestInv, Watch, NEW r \in Requests, Becomes(r, Idle),
           Tables', SharesGrow, IncidentsGrow,
           \A q \in Requests \ {r} : FreshOK(q) =>
              \A s \in ShareIDs : shares[s].st = "none" /\ s = req[q].share
                 /\ req[q].pc = "checked" /\ req[q].op = "newShare" => shares'[s].st = "none"
    PROVE  RequestInv'
<1>1. ASSUME NEW q \in Requests
      PROVE  GuestOK(q)' /\ OwnerOK(q)' /\ FreshOK(q)'
  <2>1. CASE q = r
    BY <2>1, Ended DEF Becomes
  <2>2. CASE q # r
    <3>1. req'[q] = req[q]
      BY <2>2 DEF Becomes
    <3>2. GuestOK(q)' /\ OwnerOK(q)'
      BY <3>1, Untouched DEF RequestInv
    <3>3. FreshOK(q)
      BY DEF RequestInv
    <3>4. \A p \in Requests : req'[p].share = req[p].share \/ req'[p].share = Nobody
      BY DEF Becomes, Idle
    <3>5. FreshOK(q)'
      BY <2>2, <3>1, <3>3, <3>4, SharingAssumption DEF FreshOK
    <3>. QED  BY <3>2, <3>5
  <2>. QED  BY <2>1, <2>2
<1>. QED  BY <1>1 DEF RequestInv
LEMMA InvUserEnds ==
    ASSUME Tables, RequestInv, Watch, NEW r \in Requests,
           \/ AddRemoveIncidentCalls(r) \/ UpdateIncident(r) \/ DeleteIncident(r)
           \/ CreateShare(r) \/ DeleteShare(r) \/ Finish(r)
    PROVE  Tables' /\ RequestInv'
<1>1. OwnerOK(r) /\ FreshOK(r)
  BY DEF RequestInv
<1>2. CASE AddRemoveIncidentCalls(r) \/ UpdateIncident(r) \/ DeleteIncident(r)
  <2>1. Tables' /\ SharesGrow /\ IncidentsGrow /\ Becomes(r, Idle)
    BY <1>1, <1>2, TablesAddRemove, TablesUpdateIncident, TablesDeleteIncident
  <2>2. UNCHANGED shares
    BY <1>2 DEF AddRemoveIncidentCalls, UpdateIncident, DeleteIncident
  <2>. QED  BY <2>1, <2>2, InvEnds
<1>3. CASE CreateShare(r)
  <2>1. /\ Tables' /\ SharesGrow /\ IncidentsGrow /\ Becomes(r, Idle)
        /\ \A s \in ShareIDs \ {req[r].share} : shares'[s] = shares[s]
    BY <1>1, <1>3, TablesCreateShare
  <2>2. ASSUME NEW q \in Requests \ {r}, FreshOK(q), req[q].pc = "checked",
               req[q].op = "newShare"
        PROVE  req[q].share # req[r].share
    BY <2>2 DEF FreshOK
  <2>. QED  BY <2>1, <2>2, InvEnds
<1>4. CASE DeleteShare(r)
  <2>1. /\ Tables' /\ SharesGrow /\ IncidentsGrow /\ Becomes(r, Idle)
        /\ \A t \in ShareIDs : shares[t].st = "none" => shares'[t] = shares[t]
    BY <1>1, <1>4, TablesDeleteShare
  <2>. QED  BY <2>1, InvEnds
<1>5. CASE Finish(r)
  <2>1. Tables' /\ Becomes(r, Idle) /\ UNCHANGED <<callAt, inc, links, shares>>
    BY <1>5, TablesFinish
  <2>2. SharesGrow /\ IncidentsGrow
    BY <2>1 DEF SharesGrow, IncidentsGrow
  <2>. QED  BY <2>1, <2>2, InvEnds
<1>. QED  BY <1>2, <1>3, <1>4, <1>5

\* A step of one request that writes no table: the others keep their parts, and
\* a new share's identifier stays nobody else's when the request keeps its own
\* or takes one that no request creates.
LEMMA InvOthers ==
    ASSUME Tables, RequestInv, Watch, NEW r \in Requests, Becomes(r, req'[r]), Tables',
           UNCHANGED <<callAt, inc, links, shares>>,
           GuestOK(r)', OwnerOK(r)', FreshOK(r)',
           \A q \in Requests \ {r} :
              req[q].pc = "checked" /\ req[q].op = "newShare" => req'[r].share # req[q].share
    PROVE  RequestInv'
<1>1. SharesGrow /\ IncidentsGrow
  BY DEF SharesGrow, IncidentsGrow
<1>2. ASSUME NEW q \in Requests \ {r}
      PROVE  GuestOK(q)' /\ OwnerOK(q)' /\ FreshOK(q)'
  <2>1. req'[q] = req[q]
    BY DEF Becomes
  <2>2. GuestOK(q)' /\ OwnerOK(q)'
    BY <1>1, <2>1, Untouched DEF RequestInv
  <2>3. FreshOK(q)
    BY DEF RequestInv
  <2>4. \A p \in Requests \ {r} : req'[p] = req[p]
    BY DEF Becomes
  <2>5. FreshOK(q)'
    BY <2>1, <2>3, <2>4 DEF FreshOK
  <2>. QED  BY <2>2, <2>5
<1>. QED  BY <1>2 DEF RequestInv

LEMMA InvCheckOwner ==
    ASSUME Tables, RequestInv, Watch, NEW r \in Requests, NEW u \in Users,
           NEW op \in {"addRemove", "update", "delete"}, NEW i \in Incidents,
           NEW add \in SUBSET Calls, NEW remove \in SUBSET Calls,
           CheckOwner(r, u, op, i, add, remove)
    PROVE  Tables' /\ RequestInv'
<1>. DEFINE x == [Idle EXCEPT !.user = u, !.op = op, !.inc = i, !.add = add,
                              !.remove = remove, !.pc = "checked"]
<1>1. /\ x \in RequestSet /\ x.pc = "checked" /\ x.user = u /\ x.op = op /\ x.inc = i
      /\ x.share = Nobody /\ x.served = {}
  BY DEF Idle, RequestSet, UserOps
<1>2. /\ Tables' /\ UNCHANGED <<callAt, inc, links, shares>>
      /\ Becomes(r, req'[r]) /\ req'[r].pc = "checked" /\ req'[r].user = u
      /\ req'[r].op = op /\ req'[r].inc = i /\ req'[r].share = Nobody /\ req'[r].served = {}
  <2>1. req' = [req EXCEPT ![r] = x]
    BY DEF CheckOwner, Begin, Idle
  <2>2. UNCHANGED <<callAt, inc, links, shares>>
    BY DEF CheckOwner
  <2>. HIDE DEF x
  <2>3. req' \in [Requests -> RequestSet] /\ Becomes(r, x)
    BY <1>1, <2>1, OneRequest
  <2>. QED  BY <1>1, <2>2, <2>3 DEF Tables, Becomes
<1>3. inc[i].st # "none" /\ MayChange(u, inc[i].owner)
  <2>1. /\ inc[i].st = "live"
        /\ UserMay(u, "Incident", IF op = "delete" THEN "delete" ELSE "update", inc[i].owner)
    BY DEF CheckOwner, GetIncidentOwner
  <2>2. \/ UserMay(u, "Incident", "delete", inc[i].owner)
        \/ UserMay(u, "Incident", "update", inc[i].owner)
    BY <2>1
  <2>3. MayChange(u, inc[i].owner)
    BY <2>2, UsersChange
  <2>. QED  BY <2>1, <2>3
<1>4. GuestOK(r)'
  BY <1>2 DEF GuestOK
<1>5. OwnerOK(r)'
  BY <1>2, <1>3 DEF OwnerOK, UserOps
<1>6. FreshOK(r)'
  BY <1>2 DEF FreshOK
<1>7. \A q \in Requests : req[q].pc = "checked" /\ req[q].op = "newShare"
                             => req[q].share \in ShareIDs
  BY DEF RequestInv, FreshOK
<1>. QED  BY <1>2, <1>4, <1>5, <1>6, <1>7, InvOthers, SharingAssumption

LEMMA InvCheckShare ==
    ASSUME Tables, RequestInv, Watch, NEW r \in Requests, NEW u \in Users,
           NEW s \in ShareIDs, CheckShare(r, u, s)
    PROVE  Tables' /\ RequestInv'
<1>1. /\ Tables' /\ UNCHANGED <<callAt, inc, links, shares>>
      /\ Becomes(r, [Idle EXCEPT !.user = u, !.op = "deleteShare", !.share = s,
                                 !.pc = "checked"])
  BY TablesCheckShare
<1>2. /\ Becomes(r, req'[r]) /\ req'[r].pc = "checked" /\ req'[r].user = u
      /\ req'[r].op = "deleteShare" /\ req'[r].share = s /\ req'[r].served = {}
  BY <1>1 DEF Becomes, Idle
<1>3. shares[s].st = "live" /\ UserMay(u, "Share", "delete", shares[s].owner)
  BY DEF CheckShare, GetShare
<1>4. MayChange(u, shares[s].owner)
  BY <1>3, UsersChange
<1>5. GuestOK(r)'
  BY <1>2 DEF GuestOK
<1>6. OwnerOK(r)'
  BY <1>1, <1>2, <1>3, <1>4 DEF OwnerOK, UserOps
<1>7. FreshOK(r)'
  BY <1>2 DEF FreshOK
<1>8. \A q \in Requests : req[q].pc = "checked" /\ req[q].op = "newShare"
                             => shares[req[q].share].st = "none"
  BY DEF RequestInv, FreshOK
<1>. QED  BY <1>1, <1>2, <1>3, <1>5, <1>6, <1>7, <1>8, InvOthers

LEMMA InvCheckEntity ==
    ASSUME Tables, RequestInv, Watch, NEW r \in Requests, NEW u \in Users,
           NEW s \in ShareIDs, NEW ent \in Entities, CheckEntity(r, u, s, ent)
    PROVE  Tables' /\ RequestInv'
<1>1. /\ Tables' /\ UNCHANGED <<callAt, inc, links, shares>>
      /\ Becomes(r, req'[r])
      /\ req'[r].pc = "checked" /\ req'[r].user = u /\ req'[r].op = "newShare"
      /\ req'[r].share = s /\ req'[r].served = {}
  BY TablesCheckEntity
<1>2. shares[s].st = "none" /\ \A q \in Requests : req[q].share # s
  BY DEF CheckEntity
<1>3. GuestOK(r)'
  BY <1>1 DEF GuestOK
<1>4. OwnerOK(r)'
  BY <1>1 DEF OwnerOK, UserOps
<1>5. FreshOK(r)'
  BY <1>1, <1>2 DEF FreshOK, Becomes
<1>. QED  BY <1>1, <1>2, <1>3, <1>4, <1>5, InvOthers

LEMMA InvRouteShare ==
    ASSUME Tables, RequestInv, Watch, NEW r \in Requests, NEW s \in ShareIDs,
           NEW op \in GuestOps, NEW c \in Calls \cup {Nobody}, RouteShare(r, s, op, c)
    PROVE  Tables' /\ RequestInv'
<1>1. /\ Tables' /\ UNCHANGED <<callAt, inc, links, shares>>
      /\ Becomes(r, [Idle EXCEPT !.pc = "loaded", !.op = op, !.share = s, !.call = c])
  BY TablesRouteShare
<1>2. /\ Becomes(r, req'[r]) /\ req'[r].pc = "loaded" /\ req'[r].user = Nobody
      /\ req'[r].op = op /\ req'[r].share = s /\ req'[r].call = c /\ req'[r].served = {}
  BY <1>1 DEF Becomes, Idle
<1>3. shares[s].st = "live" /\ (op \in {"audio", "info"} => c # Nobody)
  BY DEF RouteShare, GetShare
<1>4. GuestOK(r)'
  BY <1>1, <1>2, <1>3 DEF GuestOK
<1>5. OwnerOK(r)' /\ FreshOK(r)'
  BY <1>2 DEF OwnerOK, FreshOK
<1>6. \A q \in Requests : req[q].pc = "checked" /\ req[q].op = "newShare"
                             => shares[req[q].share].st = "none"
  BY DEF RequestInv, FreshOK
<1>. QED  BY <1>1, <1>2, <1>3, <1>4, <1>5, <1>6, InvOthers

LEMMA InvGuestStep ==
    ASSUME Tables, RequestInv, Watch, NEW r \in Requests, GuestStep(r)
    PROVE  Tables' /\ RequestInv'
<1>1. GuestOK(r)
  BY DEF RequestInv
<1>. DEFINE held == CallsOf(shares[req[r].share].ent, links)
<1>2. /\ Tables' /\ UNCHANGED <<callAt, inc, links, shares>>
      /\ Becomes(r, req'[r]) /\ SameQuestion(r)
      /\ req[r].pc \in {"loaded", "allowed", "found"}
      /\ req'[r].pc \in {"allowed", "found", "done"}
      /\ req'[r].pc # "done" => req'[r].served = {}
      /\ req'[r].served \subseteq seen[r] \cup held
      /\ req'[r].pc = "allowed" /\ req'[r].op \in {"audio", "info"} => req'[r].call \in held
  BY <1>1, GuestSteps
<1>3. /\ req[r].user = Nobody /\ req[r].share \in ShareIDs
      /\ shares[req[r].share].st # "none"
      /\ req[r].op \in {"audio", "info"} => req[r].call \in Calls
  BY <1>1, <1>2 DEF GuestOK
<1>4. seen'[r] = seen[r] \cup held
  <2>1. req'[r].user = Nobody /\ req'[r].share \in ShareIDs /\ req[r].pc # "done"
    BY <1>2, <1>3 DEF SameQuestion
  <2>2. CallsOf(shares'[req'[r].share].ent, links') = held
    BY <1>2 DEF SameQuestion
  <2>. QED  BY <2>1, <2>2, WatchGrows
<1>. HIDE DEF held
<1>5. GuestOK(r)'
  BY <1>2, <1>3, <1>4 DEF GuestOK, SameQuestion
<1>6. OwnerOK(r)' /\ FreshOK(r)'
  BY <1>2 DEF OwnerOK, FreshOK
<1>7. \A q \in Requests : req[q].pc = "checked" /\ req[q].op = "newShare"
                             => shares[req[q].share].st = "none"
  BY DEF RequestInv, FreshOK
<1>. QED  BY <1>2, <1>3, <1>5, <1>6, <1>7, InvOthers DEF SameQuestion

(***************************************************************************)
(* The invariant.                                                          *)
(***************************************************************************)
LEMMA InvInit == Init => IInv
<1>. SUFFICES ASSUME Init
              PROVE  IInv
  OBVIOUS
<1>1. NoIncident \in IncidentSet /\ NoShare \in ShareSet
  <2>1. 0 \in 0..1
    OBVIOUS
  <2>. QED  BY <2>1 DEF NoIncident, NoShare, IncidentSet, ShareSet
<1>2. TypeOK
  BY <1>1, IdleType DEF Init, TypeOK
<1>3. \A r \in Requests : GuestOK(r) /\ FreshOK(r) /\ OwnerOK(r)
  BY DEF Init, GuestOK, FreshOK, OwnerOK, Idle
<1>. QED  BY <1>2, <1>3 DEF IInv

LEMMA InvStep ==
    ASSUME Tables, RequestInv, Step, Watch,
           \A ar \in AddRemoves : ar[1] \in SUBSET Calls /\ ar[2] \in SUBSET Calls
    PROVE  Tables' /\ RequestInv'
<1>1. CASE \E u \in Users, i \in Incidents, calls \in SUBSET Calls : CreateIncident(u, i, calls)
  BY <1>1, InvCreateIncident
<1>2. CASE PruneShares
  BY <1>2, InvPruneShares
<1>3. CASE \E c \in Calls : PrunePartition(c)
  BY <1>3, InvPrunePartition
<1>4. CASE \E s \in ShareIDs : Expire(s)
  BY <1>4, InvExpire
<1>5. ASSUME NEW r \in Requests, UserRequest(r)
      PROVE  Tables' /\ RequestInv'
  <2>1. CASE patchCalls(r)
    <3>1. CASE \E u \in Users, i \in Incidents, ar \in AddRemoves :
                  CheckOwner(r, u, "addRemove", i, ar[1], ar[2])
      BY <3>1, InvCheckOwner
    <3>2. CASE AddRemoveIncidentCalls(r)
      BY <3>2, InvUserEnds
    <3>. QED  BY <2>1, <3>1, <3>2 DEF patchCalls
  <2>2. CASE updateIncident(r)
    BY <2>2, InvCheckOwner, InvUserEnds DEF updateIncident
  <2>3. CASE deleteIncident(r)
    BY <2>3, InvCheckOwner, InvUserEnds DEF deleteIncident
  <2>4. CASE createShare(r)
    BY <2>4, InvCheckEntity, InvUserEnds DEF createShare
  <2>5. CASE deleteShare(r)
    BY <2>5, InvCheckShare, InvUserEnds DEF deleteShare
  <2>. QED  BY <1>5, <2>1, <2>2, <2>3, <2>4, <2>5 DEF UserRequest
<1>6. ASSUME NEW r \in Requests, GuestRequest(r)
      PROVE  Tables' /\ RequestInv'
  <2>1. CASE \E s \in ShareIDs, op \in GuestOps, c \in Calls \cup {Nobody} : RouteShare(r, s, op, c)
    BY <2>1, InvRouteShare
  <2>2. CASE GuestStep(r)
    BY <2>2, InvGuestStep
  <2>. QED  BY <1>6, <2>1, <2>2 DEF GuestRequest, GuestStep
<1>7. ASSUME NEW r \in Requests, Finish(r)
      PROVE  Tables' /\ RequestInv'
  BY <1>7, InvUserEnds
<1>. QED  BY <1>1, <1>2, <1>3, <1>4, <1>5, <1>6, <1>7 DEF Step

\* IInv holds of every state.
LEMMA Invariant == Spec => []IInv
<1>1. IInv /\ [Next]_vars => IInv'
  <2>. SUFFICES ASSUME IInv, [Next]_vars
                PROVE  IInv'
    OBVIOUS
  <2>1. Tables /\ RequestInv
    BY DEF IInv, TypeOK, Tables, RequestInv
  <2>2. CASE Next
    <3>1. \A ar \in AddRemoves : ar[1] \in SUBSET Calls /\ ar[2] \in SUBSET Calls
      BY SharingAssumption
    <3>2. Tables' /\ RequestInv'
      BY <2>1, <2>2, <3>1, InvStep DEF Next
    <3>3. seen' \in [Requests -> SUBSET Calls] /\ kept' \in [Requests -> SUBSET Calls]
      BY <2>2, <3>2, Watched DEF IInv, TypeOK, Next
    <3>. QED  BY <3>2, <3>3 DEF IInv, TypeOK, Tables, RequestInv
  <2>3. CASE UNCHANGED vars
    BY <2>3 DEF vars, IInv, TypeOK, GuestOK, FreshOK, OwnerOK, IncidentSet, ShareSet,
                RequestSet, Entities, GuestOps, UserOps
  <2>. QED  BY <2>2, <2>3
<1>. QED  BY <1>1, InvInit, PTL DEF Spec

\* Every state has values of the types.
THEOREM TypeCorrect == Spec => []TypeOK
<1>1. IInv => TypeOK
  BY DEF IInv
<1>. QED  BY <1>1, Invariant, PTL

\* A guest is served nothing but calls that the entity of his share has held
\* since he asked, however requests, sweeps and deletions interleave.
THEOREM GuestsAreServedSharedCalls == Spec => []GuestServedOnlyShared
<1>1. IInv => GuestServedOnlyShared
  BY DEF IInv, GuestOK, GuestServedOnlyShared
<1>. QED  BY <1>1, Invariant, PTL
(***************************************************************************)
(* Changes are their owners'.                                              *)
(***************************************************************************)
LEMMA NoChange ==
    ASSUME UNCHANGED <<inc, links>>, \A s \in ShareIDs : shares'[s].st = "deleted"
                                                           => shares[s].st = "deleted"
    PROVE  IncidentsByOwners /\ SharesByOwners
<1>1. \A i \in Incidents : CallsIn(i)' = CallsIn(i)
  BY DEF CallsIn, CallInIncident
<1>. QED  BY <1>1 DEF IncidentsByOwners, SharesByOwners

LEMMA ChangeCreateIncident ==
    ASSUME Tables, NEW u \in Users, NEW j \in Incidents, NEW calls \in SUBSET Calls,
           CreateIncident(u, j, calls)
    PROVE  IncidentsByOwners /\ SharesByOwners
<1>1. ASSUME NEW i \in Incidents, inc[i].st = "live"
      PROVE  inc'[i] = inc[i] /\ CallsIn(i)' = CallsIn(i)
  <2>1. i # j
    BY <1>1 DEF CreateIncident
  <2>2. \A l \in AddToIncident(j, calls) : l[1] = j
    BY DEF AddToIncident
  <2>3. \A c \in Calls : <<i, c>> \in links' <=> <<i, c>> \in links
    BY <2>1, <2>2 DEF CreateIncident
  <2>. QED  BY <2>1, <2>3 DEF CreateIncident, Tables, CallsIn, CallInIncident
<1>2. UNCHANGED shares
  BY DEF CreateIncident
<1>. QED  BY <1>1, <1>2 DEF IncidentsByOwners, SharesByOwners

\* An operation on an incident changes no other.
LEMMA ChangeIncident ==
    ASSUME Tables, NEW r \in Requests, OwnerOK(r), UNCHANGED shares, req'[r].pc = "idle",
           req[r].pc = "checked", req[r].op \in {"addRemove", "update", "delete"},
           \A i \in Incidents \ {req[r].inc} : inc'[i] = inc[i],
           \A l \in Incidents \X Calls : l[1] # req[r].inc => (l \in links' <=> l \in links)
    PROVE  IncidentsByOwners /\ SharesByOwners
<1>1. MayChange(req[r].user, inc[req[r].inc].owner)
  BY DEF OwnerOK
<1>2. ASSUME NEW i \in Incidents, i # req[r].inc
      PROVE  inc'[i] = inc[i] /\ CallsIn(i)' = CallsIn(i)
  <2>1. \A c \in Calls : <<i, c>> \in links' <=> <<i, c>> \in links
    BY <1>2
  <2>. QED  BY <1>2, <2>1 DEF CallsIn, CallInIncident
<1>. QED  BY <1>1, <1>2 DEF IncidentsByOwners, SharesByOwners

LEMMA ChangeUserEnds ==
    ASSUME Tables, RequestInv, NEW r \in Requests,
           \/ AddRemoveIncidentCalls(r) \/ UpdateIncident(r) \/ DeleteIncident(r)
           \/ CreateShare(r) \/ DeleteShare(r)
    PROVE  IncidentsByOwners /\ SharesByOwners
<1>1. OwnerOK(r) /\ FreshOK(r)
  BY DEF RequestInv
<1>2. req' = [req EXCEPT ![r] = Idle]
  BY DEF AddRemoveIncidentCalls, UpdateIncident, DeleteIncident, CreateShare, DeleteShare, End
<1>3. req'[r].pc = "idle"
  BY <1>2 DEF Idle, Tables
<1>4. CASE AddRemoveIncidentCalls(r)
  <2>1. /\ req[r].pc = "checked" /\ req[r].op = "addRemove" /\ UNCHANGED <<inc, shares>>
        /\ \/ links' = links
           \/ links' = (links \cup (AddToIncident(req[r].inc, req[r].add) \ links))
                       \ RemoveFromIncident(req[r].inc, req[r].remove)
    BY <1>4 DEF AddRemoveIncidentCalls
  <2>2. \A l \in AddToIncident(req[r].inc, req[r].add)
               \cup RemoveFromIncident(req[r].inc, req[r].remove) : l[1] = req[r].inc
    BY DEF AddToIncident, RemoveFromIncident
  <2>3. \A l \in Incidents \X Calls : l[1] # req[r].inc => (l \in links' <=> l \in links)
    BY <2>1, <2>2
  <2>. QED  BY <1>1, <1>3, <2>1, <2>3, ChangeIncident
<1>5. CASE UpdateIncident(r)
  <2>1. /\ req[r].pc = "checked" /\ req[r].op = "update" /\ UNCHANGED <<links, shares>>
        /\ \A i \in Incidents \ {req[r].inc} : inc'[i] = inc[i]
    BY <1>5 DEF UpdateIncident, Tables
  <2>. QED  BY <1>1, <1>3, <2>1, ChangeIncident
<1>6. CASE DeleteIncident(r)
  <2>1. /\ req[r].pc = "checked" /\ req[r].op = "delete" /\ UNCHANGED shares
        /\ links' = {l \in links : l[1] # req[r].inc}
        /\ \A i \in Incidents \ {req[r].inc} : inc'[i] = inc[i]
    BY <1>6 DEF DeleteIncident, Tables
  <2>2. \A l \in Incidents \X Calls : l[1] # req[r].inc => (l \in links' <=> l \in links)
    BY <2>1
  <2>. QED  BY <1>1, <1>3, <2>1, <2>2, ChangeIncident
<1>7. CASE CreateShare(r)
  <2>1. UNCHANGED <<inc, links>>
    BY <1>7 DEF CreateShare
  <2>2. ASSUME NEW s \in ShareIDs, shares'[s].st = "deleted"
        PROVE  shares[s].st = "deleted"
    BY <1>7, <2>2 DEF CreateShare, CreateShareRow, Tables
  <2>. QED  BY <2>1, <2>2, NoChange
<1>8. CASE DeleteShare(r)
  <2>1. /\ req[r].pc = "checked" /\ req[r].op = "deleteShare" /\ UNCHANGED <<inc, links>>
        /\ \A s \in ShareIDs \ {req[r].share} : shares'[s] = shares[s]
    BY <1>8 DEF DeleteShare, Tables
  <2>2. MayChange(req[r].user, shares[req[r].share].owner)
    BY <1>1, <2>1 DEF OwnerOK
  <2>3. \A i \in Incidents : CallsIn(i)' = CallsIn(i)
    BY <2>1 DEF CallsIn, CallInIncident
  <2>. QED  BY <1>3, <2>1, <2>2, <2>3 DEF IncidentsByOwners, SharesByOwners
<1>. QED  BY <1>4, <1>5, <1>6, <1>7, <1>8

\* The rest of the steps change no incident and delete no share.
LEMMA ChangeStep ==
    ASSUME Tables, RequestInv, Step
    PROVE  IncidentsByOwners /\ SharesByOwners
<1>1. CASE \E u \in Users, i \in Incidents, calls \in SUBSET Calls : CreateIncident(u, i, calls)
  BY <1>1, ChangeCreateIncident
<1>2. CASE PruneShares
  <2>1. UNCHANGED <<inc, links>> /\ \A s \in ShareIDs : shares'[s].st = "deleted"
                                                          => shares[s].st = "deleted"
    BY <1>2 DEF PruneShares, Tables, ShareSet
  <2>. QED  BY <2>1, NoChange
<1>3. CASE \E c \in Calls : PrunePartition(c)
  <2>1. UNCHANGED <<inc, links, shares>>
    BY <1>3 DEF PrunePartition
  <2>. QED  BY <2>1, NoChange
<1>4. CASE \E s \in ShareIDs : Expire(s)
  <2>1. UNCHANGED <<inc, links>> /\ \A s \in ShareIDs : shares'[s].st = "deleted"
                                                          => shares[s].st = "deleted"
    BY <1>4 DEF Expire, Tables, ShareSet
  <2>. QED  BY <2>1, NoChange
<1>5. ASSUME NEW r \in Requests, UserRequest(r) \/ GuestRequest(r) \/ Finish(r)
      PROVE  IncidentsByOwners /\ SharesByOwners
  <2>1. CASE \/ AddRemoveIncidentCalls(r) \/ UpdateIncident(r) \/ DeleteIncident(r)
             \/ CreateShare(r) \/ DeleteShare(r)
    BY <2>1, ChangeUserEnds
  <2>2. CASE ~(\/ AddRemoveIncidentCalls(r) \/ UpdateIncident(r) \/ DeleteIncident(r)
               \/ CreateShare(r) \/ DeleteShare(r))
    <3>1. CASE UserRequest(r)
      <4>1. UNCHANGED <<inc, links, shares>>
        BY <2>2, <3>1 DEF UserRequest, patchCalls, updateIncident, deleteIncident,
              createShare, deleteShare, CheckOwner, CheckEntity, CheckShare
      <4>. QED  BY <4>1, NoChange
    <3>2. CASE GuestRequest(r) \/ Finish(r)
      <4>1. UNCHANGED <<inc, links, shares>>
        BY <3>2 DEF GuestRequest, RouteShare, Authorize, ServeAudio, ServeInfo, GetIncident,
              ServeCalls, ServeTalkgroups, ServePlaylist, Finish
      <4>. QED  BY <4>1, NoChange
    <3>. QED  BY <1>5, <3>1, <3>2
  <2>. QED  BY <2>1, <2>2
<1>. QED  BY <1>1, <1>2, <1>3, <1>4, <1>5 DEF Step

\* An incident is changed by a request of its owner or of an administrator that
\* ends with the change, and a share is deleted by one, for any number of requests
\* between whose checks and writes anything may happen.
THEOREM OwnersChange == Spec => ChangesAreOwners
<1>1. IInv /\ [Next]_vars => [IncidentsByOwners /\ SharesByOwners]_vars
  <2>. SUFFICES ASSUME IInv, Next
                PROVE  IncidentsByOwners /\ SharesByOwners
    OBVIOUS
  <2>1. Tables /\ RequestInv
    BY DEF IInv, TypeOK, Tables, RequestInv
  <2>. QED  BY <2>1, ChangeStep DEF Next
<1>. QED  BY <1>1, Invariant, PTL DEF Spec, ChangesAreOwners

(***************************************************************************)
(* What stays shared is served.                                            *)
(***************************************************************************)
\* A share lets its holder read what it shares, and a call of the incident it shares.
LEMMA GuestMay ==
    ASSUME NEW s, NEW c, c = shares[s].ent \/ CallInIncidentCondition(s, c)
    PROVE  GuestMayRead(s, "Call", c)
<1>1. GrantsOf("ShareGuest") = GuestGrants
  BY DEF GrantsOf, RoleGrants
<1>2. "ShareGuest" \in WithParents(ShareRoles)
  BY DEF WithParents, ShareRoles
<1>3. {<<"Call", "read", "readShared">>, <<"Call", "read", "callInIncident">>} \subseteq GuestGrants
  BY DEF GuestGrants
<1>4. PICK cond \in (IF c = shares[s].ent THEN {"readShared"} ELSE {})
                    \cup (IF "Call" = "Call" /\ CallInIncidentCondition(s, c)
                          THEN {"callInIncident"} ELSE {}) :
         cond \in {"readShared", "callInIncident"}
  OBVIOUS
<1>5. <<"Call", "read", cond>> \in GrantsOf("ShareGuest")
  BY <1>1, <1>3, <1>4
<1>. QED  BY <1>2, <1>4, <1>5 DEF GuestMayRead, May

LEMMA WatchKept ==
    ASSUME NEW r \in Requests, Watch, req'[r].user = Nobody, req'[r].share \in ShareIDs
    PROVE  /\ \A c \in kept'[r] : /\ c \in CallsOf(shares'[req'[r].share].ent, links')
                                  /\ callAt'[c] # "gone"
           /\ req[r].pc # "idle" => kept'[r] \subseteq kept[r]
<1>1. Asks(req'[r])
  BY SharingAssumption DEF Asks
<1>. DEFINE sh == shares'[req'[r].share]
            now == {c \in CallsOf(sh.ent, links') : Works(sh) /\ callAt'[c] # "gone"}
<1>2. kept'[r] = IF req[r].pc = "idle" THEN now ELSE kept[r] \cap now
  BY <1>1 DEF Watch
<1>. QED  BY <1>2

\* A request the step does not touch, or that is not a guest's.
LEMMA KeptUntouched ==
    ASSUME NEW r \in Requests, Tables, GuestOK(r), KeptOK(r), Watch, SharesGrow,
           req'[r] = req[r]
    PROVE  KeptOK(r)'
<1>1. CASE req[r].pc \in {"loaded", "allowed", "found", "done"}
  <2>1. /\ req[r].user = Nobody /\ req[r].share \in ShareIDs
        /\ shares[req[r].share].st # "none"
    BY <1>1 DEF GuestOK
  <2>2. /\ \A c \in kept'[r] : /\ c \in CallsOf(shares'[req'[r].share].ent, links')
                               /\ callAt'[c] # "gone"
        /\ kept'[r] \subseteq kept[r]
    BY <1>1, <2>1, WatchKept
  <2>3. shares'[req[r].share].ent = shares[req[r].share].ent
    BY <2>1 DEF SharesGrow
  <2>. QED  BY <2>2, <2>3 DEF KeptOK
<1>2. CASE req[r].pc \notin {"loaded", "allowed", "found", "done"}
  BY <1>2 DEF KeptOK
<1>. QED  BY <1>1, <1>2

LEMMA KeptRouted ==
    ASSUME NEW r \in Requests, Tables, Watch, NEW s \in ShareIDs, NEW op \in GuestOps,
           NEW c \in Calls \cup {Nobody}, RouteShare(r, s, op, c)
    PROVE  KeptOK(r)'
<1>1. /\ UNCHANGED <<callAt, inc, links, shares>>
      /\ Becomes(r, [Idle EXCEPT !.pc = "loaded", !.op = op, !.share = s, !.call = c])
  BY TablesRouteShare
<1>2. /\ req'[r].pc = "loaded" /\ req'[r].user = Nobody /\ req'[r].op = op
      /\ req'[r].share = s
  BY <1>1 DEF Becomes, Idle
<1>3. \A d \in kept'[r] : /\ d \in CallsOf(shares'[s].ent, links')
                          /\ callAt'[d] # "gone"
  BY <1>2, WatchKept
<1>4. op \notin {"audio", "info"} => shares'[s].ent \in Incidents
  BY <1>1 DEF RouteShare, Offers
<1>. QED  BY <1>2, <1>3, <1>4 DEF KeptOK

LEMMA KeptAnswered ==
    ASSUME NEW r \in Requests, Tables, GuestOK(r), KeptOK(r), Watch, GuestStep(r)
    PROVE  KeptOK(r)'
<1>. DEFINE ent == shares[req[r].share].ent
            c == req[r].call
<1>1. /\ UNCHANGED <<callAt, inc, links, shares>> /\ SameQuestion(r)
      /\ req[r].pc \in {"loaded", "allowed", "found"}
      /\ req'[r].pc \in {"allowed", "found", "done"}
  BY GuestSteps
<1>2. req[r].user = Nobody /\ req[r].share \in ShareIDs
  BY <1>1 DEF GuestOK
<1>3. \A d \in kept[r] : d \in CallsOf(ent, links) /\ callAt[d] # "gone"
  BY <1>1 DEF KeptOK
<1>4. kept'[r] \subseteq kept[r]
  BY <1>1, <1>2, WatchKept DEF SameQuestion
<1>5. req[r].op \in {"incident", "calls", "talkgroups", "m3u"} => ent \in Incidents
  BY <1>1 DEF KeptOK
<1>6. req[r] \in RequestSet
  BY DEF Tables
\* How it ends.
<1>7. ASSUME NEW reply, NEW served, Answer(r, reply, served)
      PROVE  req'[r].pc = "done" /\ req'[r].reply = reply /\ req'[r].served = served
  <2>1. req' = [req EXCEPT ![r] = [req[r] EXCEPT !.pc = "done", !.reply = reply,
                                                 !.served = served]]
    BY <1>7 DEF Answer
  <2>. QED  BY <1>6, <2>1 DEF Tables, RequestSet
<1>8. ASSUME NEW pc, Goto(r, pc)
      PROVE  req'[r].pc = pc
  <2>1. req' = [req EXCEPT ![r] = [req[r] EXCEPT !.pc = pc]]
    BY <1>8 DEF Goto
  <2>. QED  BY <1>6, <2>1 DEF Tables, RequestSet
<1>9. req'[r].pc = "found" => req'[r].op = "m3u"
  <2>. SUFFICES ASSUME req'[r].pc = "found"
                PROVE  req[r].op = "m3u"
    BY <1>1 DEF SameQuestion
  <2>1. \A reply, served : ~Answer(r, reply, served)
    BY <1>7
  <2>2. ~Goto(r, "allowed")
    BY <1>8
  <2>3. GetIncident(r)
    BY <2>1, <2>2 DEF GuestStep, Authorize, ServeAudio, ServeInfo, ServeCalls,
          ServeTalkgroups, ServePlaylist
  <2>. QED  BY <2>1, <2>3 DEF GetIncident
<1>10. ASSUME req'[r].pc = "done", req[r].op = "audio", c \in kept[r]
       PROVE  req'[r].reply = "ok"
  <2>1. c \in CallsOf(ent, links) /\ callAt[c] \in {"calls", "swept_calls"}
    BY <1>3, <1>10 DEF Tables, CallsOf
  <2>2. CASE Authorize(r)
    <3>1. c = ent \/ CallInIncidentCondition(req[r].share, c)
      BY <2>1 DEF CallsOf, CallInIncidentCondition, CallInIncident, Tables
    <3>2. GuestMayRead(req[r].share, "Call", c)
      BY <3>1, GuestMay
    <3>3. Goto(r, "allowed")
      BY <1>10, <2>2, <3>2 DEF Authorize
    <3>. QED  BY <1>8, <1>10, <3>3
  <2>3. CASE ServeAudio(r)
    <3>1. Answer(r, "ok", {c})
      BY <2>1, <2>3 DEF ServeAudio, GetCallAudioByID
    <3>. QED  BY <1>7, <3>1
  <2>4. CASE ~Authorize(r) /\ ~ServeAudio(r)
    <3>1. req[r].pc # "found"
      BY <1>10 DEF KeptOK
    <3>. QED  BY <1>10, <2>4, <3>1 DEF GuestStep, ServeInfo, GetIncident, ServeCalls,
                 ServeTalkgroups, ServePlaylist
  <2>. QED  BY <2>2, <2>3, <2>4
<1>11. ASSUME req'[r].pc = "done", req[r].op \in {"calls", "m3u"}, req'[r].reply = "ok"
       PROVE  kept[r] \subseteq req'[r].served
  <2>1. kept[r] \subseteq GetIncidentCalls(ent)
    <3>1. ent \in Incidents
      BY <1>5, <1>11
    <3>2. ent \notin Calls
      BY <3>1, SharingAssumption
    <3>. QED  BY <1>3, <3>2 DEF CallsOf, GetIncidentCalls
  <2>2. CASE ServeCalls(r) \/ ServePlaylist(r)
    <3>1. Answer(r, "ok", GetIncidentCalls(ent))
      BY <2>2 DEF ServeCalls, ServePlaylist
    <3>. QED  BY <1>7, <2>1, <3>1
  <2>3. CASE Authorize(r)
    <3>1. Goto(r, "allowed") \/ Answer(r, "denied", {})
      BY <2>3 DEF Authorize
    <3>. QED  BY <1>7, <1>8, <1>11, <3>1
  <2>4. CASE GetIncident(r)
    <3>1. req[r].op = "m3u"
      BY <1>11, <2>4 DEF GetIncident
    <3>2. Goto(r, "found") \/ Answer(r, "notfound", {})
      BY <2>4, <3>1 DEF GetIncident
    <3>. QED  BY <1>7, <1>8, <1>11, <3>2
  <2>. QED  BY <1>11, <2>2, <2>3, <2>4 DEF GuestStep, ServeAudio, ServeInfo, ServeTalkgroups
<1>. HIDE DEF ent, c
<1>12. /\ req'[r].pc \in {"allowed", "found"}
             => \A d \in kept'[r] : /\ d \in CallsOf(shares'[req'[r].share].ent, links')
                                    /\ callAt'[d] # "gone"
       /\ req'[r].op \in {"incident", "calls", "talkgroups", "m3u"}
             => shares'[req'[r].share].ent \in Incidents
  BY <1>1, <1>3, <1>4, <1>5 DEF SameQuestion, ent
<1>13. /\ req'[r].pc = "done" /\ req'[r].op = "audio" /\ req'[r].call \in kept'[r]
             => req'[r].reply = "ok"
       /\ req'[r].pc = "done" /\ req'[r].op \in {"calls", "m3u"} /\ req'[r].reply = "ok"
             => kept'[r] \subseteq req'[r].served
  BY <1>1, <1>4, <1>10, <1>11 DEF SameQuestion, c
<1>. QED  BY <1>1, <1>9, <1>12, <1>13 DEF KeptOK

\* A user's request has nothing kept.
LEMMA KeptNone ==
    ASSUME NEW r \in Requests, req'[r].pc \in {"idle", "checked"}
    PROVE  KeptOK(r)'
BY DEF KeptOK

\* A step of one request leaves the others theirs.
LEMMA KeptOthers ==
    ASSUME Tables, RequestInv, KInv, Watch, SharesGrow, NEW r \in Requests,
           \A q \in Requests \ {r} : req'[q] = req[q], KeptOK(r)'
    PROVE  KInv'
<1>1. ASSUME NEW q \in Requests \ {r}
      PROVE  KeptOK(q)'
  BY KeptUntouched DEF RequestInv, KInv
<1>. QED  BY <1>1 DEF KInv

LEMMA KeptAll ==
    ASSUME Tables, RequestInv, KInv, Watch, SharesGrow, UNCHANGED req
    PROVE  KInv'
<1>1. ASSUME NEW q \in Requests
      PROVE  KeptOK(q)'
  BY KeptUntouched DEF RequestInv, KInv
<1>. QED  BY <1>1 DEF KInv

LEMMA KeptUser ==
    ASSUME Tables, RequestInv, KInv, Watch, NEW r \in Requests, UserRequest(r) \/ Finish(r)
    PROVE  KInv'
<1>1. OwnerOK(r) /\ FreshOK(r)
  BY DEF RequestInv
<1>2. CASE \/ AddRemoveIncidentCalls(r) \/ UpdateIncident(r) \/ DeleteIncident(r)
           \/ CreateShare(r) \/ DeleteShare(r)
  <2>1. SharesGrow /\ Becomes(r, Idle)
    BY <1>1, <1>2, TablesAddRemove, TablesUpdateIncident, TablesDeleteIncident,
       TablesCreateShare, TablesDeleteShare
  <2>2. KeptOK(r)'
    BY <2>1, KeptNone DEF Becomes, Idle
  <2>. QED  BY <2>1, <2>2, KeptOthers DEF Becomes
<1>3. CASE Finish(r)
  <2>1. UNCHANGED shares /\ Becomes(r, Idle)
    BY <1>3, TablesFinish
  <2>2. KeptOK(r)'
    BY <2>1, KeptNone DEF Becomes, Idle
  <2>. QED  BY <2>1, <2>2, KeptOthers DEF Becomes, SharesGrow
<1>4. CASE \/ \E u \in Users : \E op, i, add, remove : CheckOwner(r, u, op, i, add, remove)
           \/ \E u \in Users, s \in ShareIDs, ent \in Entities : CheckEntity(r, u, s, ent)
           \/ \E u \in Users, s \in ShareIDs : CheckShare(r, u, s)
  <2>1. UNCHANGED shares
    BY <1>4 DEF CheckOwner, CheckEntity, CheckShare
  <2>2. req'[r].pc = "checked" /\ \A q \in Requests \ {r} : req'[q] = req[q]
    <3>1. ASSUME NEW u \in Users, NEW op, NEW i, NEW add, NEW remove,
                 CheckOwner(r, u, op, i, add, remove)
          PROVE  req'[r].pc = "checked" /\ \A q \in Requests \ {r} : req'[q] = req[q]
      <4>1. req' = [req EXCEPT ![r] = [Idle EXCEPT !.user = u, !.op = op, !.inc = i,
                                       !.add = add, !.remove = remove, !.pc = "checked"]]
        BY <3>1 DEF CheckOwner, Begin, Idle
      <4>. QED  BY <4>1 DEF Tables, Idle
    <3>2. ASSUME NEW u \in Users, NEW s \in ShareIDs, NEW ent \in Entities,
                 CheckEntity(r, u, s, ent)
          PROVE  req'[r].pc = "checked" /\ \A q \in Requests \ {r} : req'[q] = req[q]
      BY <3>2, TablesCheckEntity DEF Becomes
    <3>3. ASSUME NEW u \in Users, NEW s \in ShareIDs, CheckShare(r, u, s)
          PROVE  req'[r].pc = "checked" /\ \A q \in Requests \ {r} : req'[q] = req[q]
      <4>1. Becomes(r, [Idle EXCEPT !.user = u, !.op = "deleteShare", !.share = s,
                                    !.pc = "checked"])
        BY <3>3, TablesCheckShare
      <4>. QED  BY <4>1 DEF Becomes, Idle
    <3>. QED  BY <1>4, <3>1, <3>2, <3>3
  <2>3. SharesGrow
    BY <2>1 DEF SharesGrow
  <2>. QED  BY <2>2, <2>3, KeptNone, KeptOthers
<1>. QED  BY <1>2, <1>3, <1>4 DEF UserRequest, patchCalls, updateIncident, deleteIncident,
             createShare, deleteShare

LEMMA KeptStep ==
    ASSUME Tables, RequestInv, KInv, Step, Watch
    PROVE  KInv'
<1>1. CASE \E u \in Users, i \in Incidents, calls \in SUBSET Calls : CreateIncident(u, i, calls)
  <2>1. SharesGrow /\ UNCHANGED req
    BY <1>1 DEF CreateIncident, SharesGrow
  <2>. QED  BY <2>1, KeptAll
<1>2. CASE PruneShares
  <2>1. SharesGrow /\ UNCHANGED req
    BY <1>2, TablesPruneShares DEF PruneShares
  <2>. QED  BY <2>1, KeptAll
<1>3. CASE \E c \in Calls : PrunePartition(c)
  <2>1. SharesGrow /\ UNCHANGED req
    BY <1>3 DEF PrunePartition, SharesGrow
  <2>. QED  BY <2>1, KeptAll
<1>4. CASE \E s \in ShareIDs : Expire(s)
  <2>1. SharesGrow /\ UNCHANGED req
    BY <1>4, TablesExpire DEF Expire
  <2>. QED  BY <2>1, KeptAll
<1>5. ASSUME NEW r \in Requests, UserRequest(r) \/ Finish(r)
      PROVE  KInv'
  BY <1>5, KeptUser
<1>6. ASSUME NEW r \in Requests, GuestRequest(r)
      PROVE  KInv'
  <2>1. ASSUME NEW s \in ShareIDs, NEW op \in GuestOps, NEW c \in Calls \cup {Nobody},
               RouteShare(r, s, op, c)
        PROVE  KInv'
    <3>1. KeptOK(r)'
      BY <2>1, KeptRouted
    <3>2. UNCHANGED shares /\ \A q \in Requests \ {r} : req'[q] = req[q]
      BY <2>1, TablesRouteShare DEF Becomes
    <3>3. SharesGrow
      BY <3>2 DEF SharesGrow
    <3>. QED  BY <3>1, <3>2, <3>3, KeptOthers
  <2>2. CASE GuestStep(r)
    <3>1. GuestOK(r) /\ KeptOK(r)
      BY DEF RequestInv, KInv
    <3>2. KeptOK(r)'
      BY <2>2, <3>1, KeptAnswered
    <3>3. UNCHANGED shares /\ \A q \in Requests \ {r} : req'[q] = req[q]
      BY <2>2, <3>1, GuestSteps DEF Becomes
    <3>4. SharesGrow
      BY <3>3 DEF SharesGrow
    <3>. QED  BY <3>2, <3>3, <3>4, KeptOthers
  <2>. QED  BY <1>6, <2>1, <2>2 DEF GuestRequest, GuestStep
<1>. QED  BY <1>1, <1>2, <1>3, <1>4, <1>5, <1>6 DEF Step

\* A guest whose share works is served the audio of a call that stays in the
\* shared entity, and a list with all such calls, however sweeps, prunes,
\* deletions and requests interleave.
THEOREM SharedCallsServed == Spec => []SharedCallsAreServed
<1>1. Init => KInv
  BY DEF Init, KInv, KeptOK, Idle
<1>2. IInv /\ KInv /\ [Next]_vars => KInv'
  <2>. SUFFICES ASSUME IInv, KInv, [Next]_vars
                PROVE  KInv'
    OBVIOUS
  <2>1. Tables /\ RequestInv
    BY DEF IInv, TypeOK, Tables, RequestInv
  <2>2. CASE Next
    BY <2>1, <2>2, KeptStep DEF Next
  <2>3. CASE UNCHANGED vars
    BY <2>3 DEF vars, KInv, KeptOK, CallsOf
  <2>. QED  BY <2>2, <2>3
<1>3. KInv => SharedCallsAreServed
  BY DEF KInv, KeptOK, SharedCallsAreServed
<1>. QED  BY <1>1, <1>2, <1>3, Invariant, PTL DEF Spec
=============================================================================
