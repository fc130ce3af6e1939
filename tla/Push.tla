-------------------------------- MODULE Push --------------------------------
(***************************************************************************)
(* Subscriptions to alerts and their dispatch to the devices of the        *)
(* subscribers: pkg/notify, pkg/notify/push and pkg/database/notify.sql.go.*)
(*                                                                         *)
(* Who sends alerts (the goroutines of module Alerter) renders the batch,  *)
(* queries the devices of each alert in turn, and sends to one after the   *)
(* other, while users subscribe and unsubscribe; a device whose push       *)
(* service refuses the message loses its row.  The other backends come     *)
(* after the push backend and are one webhook here.                        *)
(*                                                                         *)
(* A batch comes from an evaluation of Alerter.  What the two modules both *)
(* have is named apart here, so that one module may extend both.           *)
(***************************************************************************)
EXTENDS Integers, Sequences, Policy

CONSTANTS
    Talkgroups,     \* talkgroups
    SystemOf,       \* [Talkgroups -> systems]
    Subscribers,    \* users that subscribe
    Devices,        \* their browsers, as the JSON each one subscribes with
    SubSets,        \* the subscription sets they post: [talkgroups, systems, all]
    Dispatchers,    \* goroutines that send alerts
    Batches,        \* the batches of alerts they send, by talkgroup
    MaxRows         \* bound: subscriptions of devices that are ever made

Systems == {SystemOf[t] : t \in Talkgroups}
ASSUME PushAssumption ==
    /\ SubSets \subseteq [talkgroups : SUBSET Talkgroups, systems : SUBSET Systems, all : BOOLEAN]
    /\ Batches \subseteq Seq(Talkgroups) \ {<<>>}
    /\ MaxRows \in Nat

VARIABLES
    tgSubs,     \* talkgroup_notification_subscriptions: <<user, talkgroup>>
    sysSubs,    \* system_notification_subscriptions: <<user, system>>
    rows,       \* webpush_subscriptions: id, user and device
    nextID,
    out,        \* what each sender is doing with its batch
    told,       \* history: the rows the alert being dispatched was delivered to
    failed,     \* history: the rows its delivery to failed
    ever,       \* history: the rows that were subscribed since it was to be dispatched
    always      \* history: the rows that have been so all the time

pushVars == <<tgSubs, sysSubs, rows, nextID, out, told, failed, ever, always>>
subVars == <<tgSubs, sysSubs, rows, nextID>>

\* One sender: pc, the alerts (by talkgroup) that are not dispatched yet, and the
\* rows of the query that are left to send to.
Quiet == [pc |-> "none", batch |-> <<>>, left |-> {}]

Row == [id : 1..MaxRows, user : Subscribers, dev : Devices]

PushTypeOK ==
    /\ tgSubs \subseteq Subscribers \X Talkgroups
    /\ sysSubs \subseteq Subscribers \X Systems
    /\ rows \subseteq Row
    /\ \A r, q \in rows : r.id = q.id \/ r.dev = q.dev => r = q
    /\ nextID \in 1..(MaxRows + 1)
    /\ out \in [Dispatchers -> [pc : {"none", "query", "send", "sent"},
                                 batch : Seq(Talkgroups), left : SUBSET Row]]
    /\ told \in [Dispatchers -> SUBSET Row] /\ failed \in [Dispatchers -> SUBSET Row]
    /\ ever \in [Dispatchers -> SUBSET Row] /\ always \in [Dispatchers -> SUBSET Row]

PushInit ==
    /\ tgSubs = {} /\ sysSubs = {} /\ rows = {} /\ nextID = 1
    /\ out = [s \in Dispatchers |-> Quiet]
    /\ told = [s \in Dispatchers |-> {}] /\ failed = [s \in Dispatchers |-> {}]
    /\ ever = [s \in Dispatchers |-> {}] /\ always = [s \in Dispatchers |-> {}]

(***************************************************************************)
(* Queries.                                                                *)
(***************************************************************************)
GetTalkgroupSubscriptions(u) == {t \in Talkgroups : <<u, t>> \in tgSubs}
GetSystemSubscriptions(u) == {s \in Systems : <<u, s>> \in sysSubs}
SubscribeTalkgroups(u, tgs) == tgSubs \cup ({u} \X tgs)
SubscribeSystems(u, systems) == sysSubs \cup ({u} \X systems)
UnsubscribeAllSystems(u) == {x \in sysSubs : x[1] # u}
UnsubscribeAllTalkgroups(u) == {x \in tgSubs : x[1] # u}
UnsubscribeSystems(u, systems) == sysSubs \ ({u} \X systems)
UnsubscribeTalkgroups(u, tgs) == tgSubs \ ({u} \X tgs)
UnsubscribeTGsInSystems(u, systems) ==
    {x \in tgSubs : ~(x[1] = u /\ SystemOf[x[2]] \in systems)}
CreateWebPushSubscription(u, d) == rows \cup {[id |-> nextID, user |-> u, dev |-> d]}
\* Variant: by what the device subscribed with.
DeletePushSubscriptionByIDBySub(row) == {r \in rows : r.dev # row.dev}
DeletePushSubscriptionByID(row) == {r \in rows : r.id # row.id}
GetWebPushSubscriptionsSubscribed(t) ==
    {r \in rows : <<r.user, t>> \in tgSubs \/ <<r.user, SystemOf[t]>> \in sysSubs}

(***************************************************************************)
(* The history of the alerts being dispatched, told after each step: whose *)
(* subscriptions, as they are listed for him, cover the first one of each  *)
(* batch.                                                                  *)
(***************************************************************************)
Dispatching(o) == o.pc # "none"
Subscriptions(u) ==
    [talkgroups |-> GetTalkgroupSubscriptions(u), systems |-> GetSystemSubscriptions(u)]
Covers(sub, t) == t \in sub.talkgroups \/ SystemOf[t] \in sub.systems
Watch ==
    LET now(s) == {r \in rows' : Covers(Subscriptions(r.user)', Head(out'[s].batch))}
        same(s) == out[s].batch = out'[s].batch /\ Dispatching(out[s])
    IN /\ ever' = [s \in Dispatchers |-> IF ~Dispatching(out'[s]) THEN {}
                                         ELSE IF same(s) THEN ever[s] \cup now(s)
                                         ELSE now(s)]
       /\ always' = [s \in Dispatchers |-> IF ~Dispatching(out'[s]) THEN {}
                                           ELSE IF same(s) THEN always[s] \cap now(s)
                                           ELSE now(s)]

(***************************************************************************)
(* What users do, each in one transaction.                                 *)
(***************************************************************************)
Subscribe(u, sub) ==
    /\ May(UserRoles({}), "PushSubscription", "create", {})
    /\ tgSubs' = SubscribeTalkgroups(u, sub.talkgroups)
    /\ sysSubs' = SubscribeSystems(u, sub.systems)
    /\ UNCHANGED <<rows, nextID, out, told, failed>>

\* All of them when no system is named; the talkgroups of the systems too when
\* some are.  An empty request asks for all.
Unsubscribe(u, sub) ==
    /\ May(UserRoles({}), "PushSubscription", "delete", {})
    /\ IF sub.all /\ sub.systems = {}
       THEN /\ sysSubs' = UnsubscribeAllSystems(u)
            /\ tgSubs' = UnsubscribeAllTalkgroups(u)
       ELSE /\ sysSubs' = UnsubscribeSystems(u, sub.systems)
            /\ tgSubs' = UnsubscribeTalkgroups(u, sub.talkgroups)
                         \cap (IF sub.all THEN UnsubscribeTGsInSystems(u, sub.systems)
                               ELSE tgSubs)
    /\ UNCHANGED <<rows, nextID, out, told, failed>>

\* A device subscribes; its JSON is unique in the table.
\* Variant: it is not.
WebPushSubscribeTwice(u, d) ==
    /\ May(UserRoles({}), "WebPushSubscription", "create", {})
    /\ nextID <= MaxRows
    /\ rows' = CreateWebPushSubscription(u, d)
    /\ nextID' = nextID + 1
    /\ UNCHANGED <<tgSubs, sysSubs, out, told, failed>>
WebPushSubscribe(u, d) ==
    /\ May(UserRoles({}), "WebPushSubscription", "create", {})
    /\ nextID <= MaxRows
    /\ \A r \in rows : r.dev # d
    /\ rows' = CreateWebPushSubscription(u, d)
    /\ nextID' = nextID + 1
    /\ UNCHANGED <<tgSubs, sysSubs, out, told, failed>>

(***************************************************************************)
(* DispatchAlerts: the push backend of the notifier.  It never fails: a    *)
(* query that does skips its alert.                                        *)
(***************************************************************************)
NotifierSend(s, batch) ==
    /\ out[s] = Quiet
    /\ out' = [out EXCEPT ![s] = [Quiet EXCEPT !.pc = "query", !.batch = batch]]
    /\ UNCHANGED <<subVars, told, failed>>

\* The next alert of the batch, or no more.
NextAlert(o) == IF Len(o.batch) = 1 THEN Quiet
                ELSE [Quiet EXCEPT !.pc = "query", !.batch = Tail(o.batch)]
Forget(s) ==
    told' = [told EXCEPT ![s] = {}] /\ failed' = [failed EXCEPT ![s] = {}]

QueryDevices(s) ==
    /\ out[s].pc = "query"
    /\ \/ out' = [out EXCEPT ![s].pc = "send",
                     ![s].left = GetWebPushSubscriptionsSubscribed(Head(out[s].batch))]
       \/ out' = [out EXCEPT ![s] = NextAlert(@)]
    /\ UNCHANGED <<subVars, told, failed>>

\* SendAlertToSubscribers, one row: it is delivered; or the request fails, and
\* the next one is tried; or the push service refuses it, and the row is deleted.
\* Variant: the first failure ends it.
SendAlertToSubscriberStops(s) ==
    /\ out[s].pc = "send" /\ out[s].left # {}
    /\ \E r \in out[s].left :
          \/ /\ told' = [told EXCEPT ![s] = @ \cup {r}]
             /\ out' = [out EXCEPT ![s].left = @ \ {r}]
             /\ UNCHANGED <<rows, failed>>
          \/ /\ failed' = [failed EXCEPT ![s] = @ \cup {r}]
             /\ rows' \in {rows, DeletePushSubscriptionByID(r)}
             /\ out' = [out EXCEPT ![s].left = {}]
             /\ UNCHANGED told
    /\ UNCHANGED <<tgSubs, sysSubs, nextID>>
SendAlertToSubscriber(s) ==
    /\ out[s].pc = "send" /\ out[s].left # {}
    /\ \E r \in out[s].left :
          /\ out' = [out EXCEPT ![s].left = @ \ {r}]
          /\ \/ told' = [told EXCEPT ![s] = @ \cup {r}] /\ UNCHANGED <<rows, failed>>
             \/ /\ failed' = [failed EXCEPT ![s] = @ \cup {r}]
                /\ rows' \in {rows, DeletePushSubscriptionByID(r)}
                /\ UNCHANGED told
    /\ UNCHANGED <<tgSubs, sysSubs, nextID>>

AllSent(s) ==
    /\ out[s].pc = "send" /\ out[s].left = {}
    /\ out' = [out EXCEPT ![s].pc = "sent"]
    /\ UNCHANGED <<subVars, told, failed>>

DispatchNext(s) ==
    /\ out[s].pc = "sent"
    /\ out' = [out EXCEPT ![s] = NextAlert(@)]
    /\ Forget(s)
    /\ UNCHANGED subVars

UserStep ==
    \/ \E u \in Subscribers, sub \in SubSets : Subscribe(u, sub) \/ Unsubscribe(u, sub)
    \/ \E u \in Subscribers, d \in Devices : WebPushSubscribe(u, d)

DispatchAlerts(s) ==
    QueryDevices(s) \/ SendAlertToSubscriber(s) \/ AllSent(s) \/ DispatchNext(s)

Step ==
    \/ UserStep
    \/ \E s \in Dispatchers :
          (\E batch \in Batches : NotifierSend(s, batch)) \/ DispatchAlerts(s)

PushNext == Step /\ Watch
PushSpec == PushInit /\ [][PushNext]_pushVars

(***************************************************************************)
(* Properties.                                                             *)
(***************************************************************************)
\* When an alert has been dispatched, every device whose user's subscriptions, as
\* they are listed, covered its talkgroup all the time was sent it, unless its own
\* delivery failed: a failing device keeps nobody else from being told.  And nobody
\* was told whose subscriptions covered it at no time.
SubscribersTold ==
    \A s \in Dispatchers :
        /\ told[s] \subseteq ever[s]
        /\ out[s].pc = "sent" => always[s] \subseteq told[s] \cup failed[s]

\* The row of a device goes only when a delivery to that very row has failed: a
\* device that came back with the same subscription keeps its new one, whatever
\* senders still know of the old.
OnlyRefusedGo ==
    [][\A r \in rows \ rows' :
          \E s \in Dispatchers : r \in failed'[s] \ failed[s]]_pushVars
=============================================================================
