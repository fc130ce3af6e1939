------------------------------- MODULE Policy -------------------------------
(***************************************************************************)
(* The authorization policy (pkg/authz/policy) and its evaluation          *)
(* (pkg/authz/rbac.go over the library el-mike/restrict).                  *)
(*                                                                         *)
(* A grant is a triple <<resource, action, condition>>.  What a condition  *)
(* reads from the request (an owner, a submitter, the entity of a share,   *)
(* the rows that put a call into an incident) is evaluated by the modules  *)
(* that use the policy: they pass the set of the conditions that hold.     *)
(***************************************************************************)
EXTENDS FiniteSets

\* Permissions of the policy without a condition.
Free(resource, actions) == {<<resource, a, "none">> : a \in actions}

\* The presets: what an action has to satisfy when it is granted by one.
OwnPresets == [createOwn |-> "create", readOwn |-> "read", updateOwn |-> "update",
               deleteOwn |-> "delete", shareOwn |-> "share"]
SubmitterPresets == [updateSubmitter |-> "update", deleteSubmitter |-> "delete",
                     shareSubmitter |-> "share"]
TranscribePreset == [transcribeSubmitter |-> "updateTranscription"]
SelfPresets == [readPrivileged |-> "readPrivileged", updateSelf |-> "update"]

\* Variant: the condition is forgotten.
OwnUnconditional(resource, presets) ==
    {<<resource, OwnPresets[p], "none">> : p \in presets}
Own(resource, presets) == {<<resource, OwnPresets[p], "isOwner">> : p \in presets}
OfSubmitter(presets) ==
    {<<"Call", SubmitterPresets[p], "isSubmitter">> : p \in presets}

\* RoleUser: an authenticated user.
UserGrants ==
    Free("Incident", {"read", "create"})
    \cup Own("Incident", {"updateOwn", "deleteOwn", "shareOwn"})
    \cup Free("Call", {"read", "create", "share"})
    \cup OfSubmitter({"updateSubmitter", "deleteSubmitter"})
    \cup {<<"Call", TranscribePreset.transcribeSubmitter, "isSubmitter">>}
    \cup Free("Talkgroup", {"read"})
    \cup Free("Share", {"read"}) \cup Own("Share", {"updateOwn", "deleteOwn"})
    \cup Free("CallStats", {"read"}) \cup Free("Setting", {"read"})
    \cup Free("User", {"read"})
    \cup {<<"User", SelfPresets[p], "userSelf">> : p \in DOMAIN SelfPresets}
    \cup Own("APIKey", {"createOwn", "deleteOwn", "readOwn"})
    \cup Free("Alert", {"read"}) \cup Free("Nexus", {"connect"})
    \cup Free("PushSubscription", {"create", "read", "delete"})
    \cup Free("WebPushSubscription", {"create", "delete"})

\* RoleSubmitter: an API key of scope submit.
SubmitterGrants ==
    Free("Call", {"create"}) \cup Free("Talkgroup", {"create", "update"})
    \cup Free("Nexus", {"connect"})

\* RoleSharer.
SharerGrants == Free("Share", {"create"})

\* RoleShareGuest: whoever holds a share link.
GuestGrants ==
    {<<"Call", "read", "readShared">>, <<"Call", "read", "callInIncident">>,
     <<"Incident", "read", "readShared">>}
    \cup Free("Talkgroup", {"read"})

\* RoleAdmin, whose parent is RoleUser.
AdminGrants ==
    Free("Incident", {"read", "update", "delete", "share"})
    \cup Free("Call", {"read", "update", "delete", "share", "updateTranscription",
                       "moveCallAudio"})
    \cup Free("Talkgroup", {"read", "update", "create", "delete"})
    \cup Free("Share", {"read", "update", "create", "delete"})
    \cup Free("Setting", {"read", "create", "update", "delete"})
    \cup Free("User", {"readPrivileged", "updatePrivileged", "create", "update", "delete"})
    \cup Free("Alert", {"read", "create", "delete", "simulate", "testNotify"})
    \cup Free("APIKey", {"read", "create", "update", "delete"})
    \cup Free("System", {"read", "create", "update", "delete"})
    \cup Free("PushSubscription", {"delete", "read"})

\* RolePublic, RoleTranscriber.
PublicGrants == Free("Share", {"read"})
TranscriberGrants == Free("Call", {"updateTranscription"})

Roles == {"User", "Submitter", "Sharer", "ShareGuest", "Admin", "System", "Public",
          "Transcriber"}

\* Parents: System inherits from Admin, Admin from User.
WithParents(roles) ==
    roles \cup (IF roles \cap {"Admin", "System"} # {} THEN {"Admin", "User"} ELSE {})

RoleGrants ==
    [User |-> UserGrants, Submitter |-> SubmitterGrants, Sharer |-> SharerGrants,
     ShareGuest |-> GuestGrants, Admin |-> AdminGrants, Public |-> PublicGrants,
     Transcriber |-> TranscriberGrants, System |-> {}]
GrantsOf(role) == RoleGrants[role]

(***************************************************************************)
(* rbac.Check: the subject may do the action to the resource when one of   *)
(* its roles, or of their parents, has a grant whose condition holds.      *)
(***************************************************************************)
May(roles, resource, action, holding) ==
    \E role \in WithParents(roles) :
        \E cond \in holding \cup {"none"} : <<resource, action, cond>> \in GrantsOf(role)

\* GetRoles of the subjects: a user, an API key of a user, a share, nobody, a
\* service of the server.
UserRoles(extra) == extra \cup {"User"}
ScopeRole == [submit |-> "Submitter", transcribe |-> "Transcriber"]
KeyRoles(scopes) == {ScopeRole[s] : s \in scopes \cap DOMAIN ScopeRole}
ShareRoles == {"ShareGuest"}
PublicRoles == {"Public"}
ServiceRoles == {"System"}
=============================================================================
