------------------------------- MODULE Nexus -------------------------------
(***************************************************************************)
(* The broadcaster of pkg/nexus with the transcription workers of          *)
(* pkg/workers.  A client is a websocket connection: a read pump that      *)
(* starts one goroutine per command, a write pump that empties the         *)
(* client's queue, and a place in n.clients.  One goroutine, nexus.Go,     *)
(* takes the broadcasts one at a time, puts each into the queue of every   *)
(* client that wants it, and hands each call to one worker of the round    *)
(* robin.  A client whose queue is full is let go.  Calls come from the    *)
(* ingest pipeline, which waits for nexus with the lock of its sinks held, *)
(* transcripts from commands, and single calls are dispatched by an HTTP   *)
(* request without any lock.                                               *)
(*                                                                         *)
(* Talkgroup filters are part of what a client wants; their registration   *)
(* with the talkgroup store is left out.                                   *)
(*                                                                         *)
(* What CallIngest has too, the other half of the pipeline, is named apart *)
(* here, so that one module may extend both.                               *)
(***************************************************************************)
EXTENDS Integers, Sequences, FiniteSets, SequencesExt

CONSTANTS
    Clients,     \* the connections; none is used twice
    Goroutines,  \* the command goroutines; bounds the commands sent
    Sends,       \* Goroutines -> the commands it may run: <<client, kind>>
    Wants,       \* the sets of types clients subscribe to
    Breakable,   \* the connections whose reads may fail; bounds the faults
    QSize,       \* qSize, the length of a client's queue
    MaxCalls,    \* bound on the calls ingested
    MaxRequests, \* bound on the calls dispatched by HTTP requests
    Nobody

Types == {"call", "transcript"}
CommandKinds == {"live", "register", "tg", "transcript"}

\* A call on its way to a worker, and the worker that was asked last.
Dispatch == [pc : {"next", "send"}, call : Nat, last : Clients \cup {Nobody}]

ASSUME NexusAssumption ==
    /\ QSize \in Nat \ {0} /\ MaxCalls \in Nat /\ MaxRequests \in Nat
    /\ Sends \in [Goroutines -> SUBSET (Clients \X CommandKinds)]
    /\ Wants \subseteq SUBSET Types /\ Breakable \subseteq Clients
    /\ Nobody \notin Clients \cup Dispatch

\* Who dispatches calls to workers: each numbers its calls, nexus by the log.
Dispatchers == {"nexus", "http"}

\* What goes through a queue: a broadcast, by its place in the log, a work
\* item, by its dispatcher and number, or the answer to a command.
Entry == ({"bcast", "reply"} \cup Dispatchers) \X Nat

VARIABLES
    srv,       \* the server: "up", "stopping" (ctx is cancelled), "gone",
               \* or "panicked" in a goroutine nobody recovers
    conn,      \* Clients -> where the read pump is
    clients,   \* n.clients
    hello,     \* the connections that serveWS has yet to send Hello
    out,       \* Clients -> conn.out
    heard,     \* Clients -> what was written to the socket, without replies
    subs,      \* Clients -> subscriptions
    isWorker,  \* the clients with isTranscriptWorker
    items,     \* the round: its workers
    turn,      \* the round: the index i
    log,       \* the broadcasts received so far
    nx,        \* nexus.Go: "recv", "bcast" and "hunt" (with the lock), "down"
    todo,      \* clients the broadcast has not come to
    hunt,      \* Dispatchers -> the dispatch of a call to a worker
    pipe,      \* the call EmitCall waits to broadcast, with the sinks' lock
    emitted,   \* calls ingested
    requests,  \* calls dispatched by HTTP requests
    cmds,      \* Goroutines -> a command
    since      \* Clients -> the broadcasts from before each subscription

nexus == <<clients, hello, log, nx, todo>>
round == <<items, turn>>
queues == <<out, heard>>
wishes == <<subs, since>>
source == <<pipe, emitted>>
nexusVars == <<srv, conn, nexus, queues, wishes, isWorker, round, hunt,
               source, requests, cmds>>

Idle == [pc |-> "idle", of |-> Nobody, kind |-> Nobody]

NexusInit ==
    /\ srv = "up" /\ conn = [c \in Clients |-> "new"]
    /\ clients = {} /\ hello = {}
    /\ out = [c \in Clients |-> <<>>] /\ heard = [c \in Clients |-> <<>>]
    /\ subs = [c \in Clients |-> {}] /\ isWorker = {}
    /\ items = <<>> /\ turn = 0
    /\ log = <<>> /\ nx = "recv" /\ todo = {}
    /\ hunt = [d \in Dispatchers |-> Nobody]
    /\ pipe = Nobody /\ emitted = 0 /\ requests = 0
    /\ cmds = [g \in Goroutines |-> Idle]
    /\ since = [c \in Clients |-> [t \in Types |-> 0]]

Running == srv \in {"up", "stopping"}
LockFree == nx \in {"recv", "down"}

-----------------------------------------------------------------------------
(* Send: a select with a default.  Closed says that it panics instead.     *)

Closed(c) == conn[c] = "closed"
\* Variant: one more than the queue has room for.
HasRoomForOneMore(c) == Len(out[c]) <= QSize
HasRoom(c) == Len(out[c]) < QSize

Enqueue(c, e) == out' = [out EXCEPT ![c] = Append(@, e)]

\* Send where the caller ignores the error.
TrySend(c, e) ==
    IF HasRoom(c) THEN Enqueue(c, e) ELSE UNCHANGED out

-----------------------------------------------------------------------------
(* The round robin.                                                        *)

Upcoming == IF items = <<>> THEN Nobody ELSE items[(turn % Len(items)) + 1]

\* Variant: the last worker goes instead of the one named.
WithoutLast(s, c) == IF c \in Range(s) THEN Front(s) ELSE s

\* Delete: the last worker takes the place of the one that goes.
Without(s, c) ==
    LET at == CHOOSE i \in DOMAIN s : s[i] = c
    IN  IF c \in Range(s) THEN Front([s EXCEPT ![at] = Last(s)]) ELSE s

-----------------------------------------------------------------------------
(* Connections.                                                            *)

\* n.unregister, under the lock.
Forget(c) ==
    /\ clients' = clients \ {c}
    /\ items' = IF c \in isWorker THEN Without(items, c) ELSE items

\* serveWS.
ServeWS(c) ==
    /\ Running /\ LockFree /\ conn[c] = "new"
    /\ conn' = [conn EXCEPT ![c] = "open"]
    /\ clients' = clients \cup {c} /\ hello' = hello \cup {c}
    /\ UNCHANGED <<srv, log, nx, todo, queues, wishes, isWorker, round, hunt,
                   source, requests, cmds>>

\* The end of serveWS, after a query and while the pumps run; an HTTP handler
\* recovers from the panic.
Hello(c) ==
    /\ Running /\ c \in hello
    /\ hello' = hello \ {c}
    /\ IF Closed(c) THEN UNCHANGED out ELSE TrySend(c, <<"reply", 0>>)
    /\ UNCHANGED <<srv, conn, clients, log, nx, todo, heard, wishes, isWorker,
                   round, hunt, source, requests, cmds>>

\* readPump reads a command and starts a goroutine for it.  A worker
\* registers once per connection.
ReadMessage(g, c, k) ==
    /\ <<c, k>> \in Sends[g]
    /\ Running /\ conn[c] = "open" /\ cmds[g].pc = "idle"
    /\ k = "register" => \A h \in Goroutines :
                           ~(cmds[h].of = c /\ cmds[h].kind = "register")
    /\ cmds' = [cmds EXCEPT ![g] =
                  [pc |-> IF k = "tg" THEN "reply" ELSE "start",
                   of |-> c, kind |-> k]]
    /\ UNCHANGED <<srv, conn, nexus, queues, wishes, isWorker, round, hunt,
                   source, requests>>

\* The peer hangs up, times out, or the write pump has closed the socket.
ReadFails(c) ==
    /\ c \in Breakable /\ Running /\ conn[c] = "open"
    /\ conn' = [conn EXCEPT ![c] = "ended"]
    /\ UNCHANGED <<srv, nexus, queues, wishes, isWorker, round,
                   hunt, source, requests, cmds>>

\* readPump's deferred call, first half.
Unregister(c) ==
    /\ Running /\ LockFree /\ conn[c] = "ended"
    /\ conn' = [conn EXCEPT ![c] = "unregistered"]
    /\ Forget(c)
    /\ UNCHANGED <<srv, hello, log, nx, todo, queues, wishes, isWorker,
                   turn, hunt, source, requests, cmds>>

\* readPump's deferred call, second half.
CloseCh(c) ==
    /\ Running /\ conn[c] = "unregistered"
    /\ conn' = [conn EXCEPT ![c] = "closed"]
    /\ UNCHANGED <<srv, nexus, queues, wishes, isWorker, round,
                   hunt, source, requests, cmds>>

\* writePump and writeToClient take the messages off the queue one by one.
\* A pump that has ended, or waits for its peer, takes no step: what is in the
\* queue is then never heard.
WritePump(c) ==
    /\ Running /\ out[c] # <<>>
    /\ heard' = [heard EXCEPT ![c] =
                   IF Head(out[c])[1] = "reply" THEN @ ELSE Append(@, Head(out[c]))]
    /\ out' = [out EXCEPT ![c] = Tail(@)]
    /\ UNCHANGED <<srv, conn, nexus, wishes, isWorker, round, hunt, source,
                   requests, cmds>>

-----------------------------------------------------------------------------
(* Commands.  Each runs in a goroutine of its own, whatever becomes of its *)
(* client.                                                                 *)

Goto(g, pc) == cmds' = [cmds EXCEPT ![g].pc = pc]

\* Live, under the client's lock; the filter may not compile.
Live(g) ==
    LET c == cmds[g].of IN
    /\ Running /\ cmds[g].pc = "start" /\ cmds[g].kind = "live"
    /\ \/ /\ \E want \in Wants :
               /\ subs' = [subs EXCEPT ![c] = want]
               /\ since' = [since EXCEPT ![c] = [t \in Types |->
                              IF t \in subs[c] THEN @[t] ELSE Len(log)]]
          /\ Goto(g, "done")
       \/ Goto(g, "reply") /\ UNCHANGED wishes
    /\ UNCHANGED <<srv, conn, nexus, queues, isWorker, round, hunt, source,
                   requests>>

\* Register, first half: workers.Add.
RegisterWorker(g) ==
    LET c == cmds[g].of IN
    /\ Running /\ cmds[g].pc = "start" /\ cmds[g].kind = "register"
    /\ IF c \in Range(items) THEN Goto(g, "reply") /\ UNCHANGED items
                             ELSE Goto(g, "mark") /\ items' = Append(items, c)
    /\ UNCHANGED <<srv, conn, nexus, queues, wishes, isWorker, turn, hunt,
                   source, requests>>

\* Register, second half.
MarkWorker(g) ==
    /\ Running /\ cmds[g].pc = "mark"
    /\ isWorker' = isWorker \cup {cmds[g].of}
    /\ Goto(g, "done")
    /\ UNCHANGED <<srv, conn, nexus, queues, wishes, round, hunt, source,
                   requests>>

\* SetTranscript stores the transcript; then it waits for nexus, or fails.
SetTranscript(g) ==
    /\ Running /\ cmds[g].pc = "start" /\ cmds[g].kind = "transcript"
    /\ \E pc \in {"bcast", "reply"} : Goto(g, pc)
    /\ UNCHANGED <<srv, conn, nexus, queues, wishes, isWorker, round, hunt,
                   source, requests>>

\* The answer to a talkgroup request, or SendError.
Reply(g) ==
    LET c == cmds[g].of IN
    /\ Running /\ cmds[g].pc = "reply"
    /\ IF Closed(c) THEN srv' = "panicked" /\ UNCHANGED out
                    ELSE TrySend(c, <<"reply", 0>>) /\ UNCHANGED srv
    /\ Goto(g, "done")
    /\ UNCHANGED <<conn, nexus, heard, wishes, isWorker, round, hunt, source,
                   requests>>

-----------------------------------------------------------------------------
(* nexus.Go.                                                               *)

\* Broadcast's rendezvous, and the lock.
Receive(m) ==
    /\ Running /\ nx = "recv"
    /\ log' = Append(log, m)
    /\ nx' = "bcast" /\ todo' = clients
    /\ UNCHANGED <<srv, conn, clients, hello, queues, wishes, isWorker, round,
                   hunt,
                   emitted, requests>>

ReceiveCall == pipe # Nobody /\ Receive(pipe) /\ pipe' = Nobody /\ UNCHANGED cmds

ReceiveTranscript(g) ==
    /\ cmds[g].pc = "bcast" /\ Goto(g, "done")
    /\ Receive("transcript") /\ UNCHANGED pipe

\* Variants of the loop's body: the message is dropped and the client kept,
\* and the send waits for room.
BroadcastDropping(c) ==
    /\ Running /\ nx = "bcast" /\ c \in todo
    /\ todo' = todo \ {c}
    /\ IF Last(log) \in subs[c] THEN TrySend(c, <<"bcast", Len(log)>>)
                                     ELSE UNCHANGED out
    /\ UNCHANGED <<srv, conn, clients, hello, log, nx, heard, wishes, isWorker,
                   round, hunt, source, requests, cmds>>
BroadcastWaiting(c) ==
    /\ Running /\ nx = "bcast" /\ c \in todo
    /\ todo' = todo \ {c}
    /\ IF Last(log) \in subs[c] THEN HasRoom(c) /\ Enqueue(c, <<"bcast", Len(log)>>)
                                     ELSE UNCHANGED out
    /\ UNCHANGED <<srv, conn, clients, hello, log, nx, heard, wishes, isWorker,
                   round, hunt, source, requests, cmds>>

\* broadcastToClients, the loop's body; clients are visited in any order.
\* The client is registered and the lock is held: its queue is not closed.
BroadcastTo(c) ==
    /\ Running /\ nx = "bcast" /\ c \in todo
    /\ todo' = todo \ {c}
    /\ \/ /\ Last(log) \notin subs[c]
          /\ UNCHANGED <<out, clients, items>>
       \/ /\ Last(log) \in subs[c] /\ HasRoom(c)
          /\ Enqueue(c, <<"bcast", Len(log)>>) /\ UNCHANGED <<clients, items>>
       \/ /\ Last(log) \in subs[c] /\ ~HasRoom(c)
          /\ Forget(c) /\ UNCHANGED out
    /\ UNCHANGED <<srv, conn, hello, log, nx, heard, wishes, isWorker, turn,
                   hunt,
                   source, requests, cmds>>

\* The end of the loop: Dispatch, for a call that is stored, long enough and
\* passes the filter of the workers.
BroadcastDone ==
    /\ Running /\ nx = "bcast" /\ todo = {}
    /\ \/ /\ Last(log) = "call" /\ nx' = "hunt"
          /\ hunt' = [hunt EXCEPT !["nexus"] =
                         [pc |-> "next", call |-> Len(log), last |-> Nobody]]
       \/ nx' = "recv" /\ UNCHANGED hunt
    /\ UNCHANGED <<srv, conn, clients, hello, log, todo, queues, wishes,
                   isWorker,
                   round, source, requests, cmds>>

\* ctx is done: Shutdown writes a close frame to every client.
GoEnds ==
    /\ srv = "stopping" /\ nx = "recv" /\ nx' = "down"
    /\ UNCHANGED <<srv, conn, clients, hello, log, todo, queues, wishes,
                   isWorker,
                   round, hunt, source, requests, cmds>>

-----------------------------------------------------------------------------
(* workers.dispatch, for nexus and for an HTTP request.                    *)

\* DispatchUnfiltered.
HttpDispatch ==
    /\ Running /\ hunt["http"] = Nobody /\ requests < MaxRequests
    /\ requests' = requests + 1
    /\ hunt' = [hunt EXCEPT !["http"] =
                  [pc |-> "next", call |-> requests + 1, last |-> Nobody]]
    /\ UNCHANGED <<srv, conn, nexus, queues, wishes, isWorker, round, source,
                   cmds>>

EndHunt(d) ==
    /\ hunt' = [hunt EXCEPT ![d] = Nobody]
    /\ nx' = IF d = "nexus" THEN "recv" ELSE nx

\* The next worker's turn; ErrNoWorkers if there is none, or the same again.
NextWorker(d) ==
    /\ Running /\ hunt[d] # Nobody /\ hunt[d].pc = "next"
    /\ turn' = IF items = <<>> THEN turn ELSE turn + 1
    /\ IF Upcoming \in {Nobody, hunt[d].last}
       THEN EndHunt(d)
       ELSE /\ hunt' = [hunt EXCEPT ![d].pc = "send", ![d].last = Upcoming]
            /\ UNCHANGED nx
    /\ UNCHANGED <<srv, conn, clients, hello, log, todo, queues, wishes,
                   isWorker,
                   items, source, requests, cmds>>

\* The call is sent to the worker; one with a full queue leaves the round.
\* An HTTP request recovers from the panic, nexus does not.
SendWork(d) ==
    LET c == hunt[d].last IN
    /\ Running /\ hunt[d] # Nobody /\ hunt[d].pc = "send"
    /\ \/ /\ Closed(c)
          /\ EndHunt(d) /\ UNCHANGED <<out, items>>
          /\ srv' = IF d = "nexus" THEN "panicked" ELSE srv
       \/ /\ ~Closed(c) /\ HasRoom(c)
          /\ Enqueue(c, <<d, hunt[d].call>>) /\ EndHunt(d)
          /\ UNCHANGED <<srv, items>>
       \/ /\ ~Closed(c) /\ ~HasRoom(c)
          /\ items' = Without(items, c)
          /\ hunt' = [hunt EXCEPT ![d].pc = "next"]
          /\ UNCHANGED <<srv, out, nx>>
    /\ UNCHANGED <<conn, clients, hello, log, todo, heard, wishes, isWorker,
                   turn,
                   source, requests, cmds>>

-----------------------------------------------------------------------------
(* The pipeline and the server.                                            *)

\* EmitCall takes the lock of the sinks; the sinks but the one that broadcasts
\* are left out.
BroadcastCall ==
    /\ Running /\ pipe = Nobody /\ emitted < MaxCalls
    /\ pipe' = "call" /\ emitted' = emitted + 1
    /\ UNCHANGED <<srv, conn, nexus, queues, wishes, isWorker, round, hunt,
                   requests, cmds>>

\* A signal: ctx is cancelled.
Stop ==
    /\ srv = "up" /\ srv' = "stopping"
    /\ UNCHANGED <<conn, nexus, queues, wishes, isWorker, round, hunt, source,
                   requests, cmds>>

\* Server.Go: the pipeline's Shutdown takes the lock of the sinks; then the
\* HTTP servers end within their timeout, and the process exits.
Exit ==
    /\ srv = "stopping" /\ pipe = Nobody /\ srv' = "gone"
    /\ UNCHANGED <<conn, nexus, queues, wishes, isWorker, round, hunt, source,
                   requests, cmds>>

Connection(c) ==
    \/ ServeWS(c) \/ Hello(c) \/ ReadFails(c) \/ Unregister(c) \/ CloseCh(c)
    \/ WritePump(c)
    \/ \E g \in Goroutines, k \in CommandKinds : ReadMessage(g, c, k)

Command(g) ==
    \/ Live(g) \/ RegisterWorker(g) \/ MarkWorker(g) \/ SetTranscript(g)
    \/ Reply(g)

Hunt(d) == NextWorker(d) \/ SendWork(d)

NexusGo ==
    \/ ReceiveCall \/ \E g \in Goroutines : ReceiveTranscript(g)
    \/ \E c \in Clients : BroadcastTo(c)
    \/ BroadcastDone \/ GoEnds \/ Hunt("nexus")

NexusNext ==
    \/ \E c \in Clients : Connection(c)
    \/ \E g \in Goroutines : Command(g)
    \/ NexusGo \/ HttpDispatch \/ Hunt("http")
    \/ BroadcastCall
    \/ Stop \/ Exit

NexusSpec == NexusInit /\ [][NexusNext]_nexusVars

\* The goroutine of nexus runs, and the server's once it has the lock.
\* Nothing is owed by peers, by the pumps, by the commands or by the sources
\* of calls.
NexusFairSpec == NexusSpec /\ WF_nexusVars(NexusGo) /\ WF_nexusVars(Exit)

-----------------------------------------------------------------------------
(* Properties.                                                             *)

\* Types, and the bound of the queues.
NexusTypeOK ==
    /\ srv \in {"up", "stopping", "gone", "panicked"}
    /\ conn \in [Clients -> {"new", "open", "ended", "unregistered", "closed"}]
    /\ hello \subseteq Clients
    /\ clients \subseteq Clients /\ isWorker \subseteq Clients
    /\ out \in [Clients -> Seq(Entry)] /\ heard \in [Clients -> Seq(Entry)]
    /\ \A c \in Clients : Len(out[c]) <= QSize
    /\ subs \in [Clients -> SUBSET Types]
    /\ since \in [Clients -> [Types -> Nat]]
    /\ items \in Seq(Clients) /\ IsInjective(items) /\ turn \in Nat
    /\ log \in Seq(Types) /\ nx \in {"recv", "bcast", "hunt", "down"}
    /\ todo \subseteq Clients
    /\ hunt \in [Dispatchers -> Dispatch \cup {Nobody}]
    /\ pipe \in {"call", Nobody} /\ emitted \in Nat /\ requests \in Nat
    /\ cmds \in [Goroutines ->
                   [pc : {"idle", "start", "mark", "reply", "bcast", "done"},
                    of : Clients \cup {Nobody}, kind : CommandKinds \cup {Nobody}]]

\* What a client was sent: what it has heard, and what waits in its queue.
Stream(c) == heard[c] \o out[c]

\* The broadcasts whose loop has come past client c.
Past(c) == IF nx = "bcast" /\ c \in todo THEN Len(log) - 1 ELSE Len(log)

\* A client that nexus still knows has been sent every broadcast of a type it
\* subscribed to since it did, and no client ever gets two in the wrong
\* order or one of them twice (broadcastToClients, Send, writePump).
StreamIsWhole ==
    \A c \in Clients :
      LET stream == Stream(c) IN
      /\ \A i, j \in DOMAIN stream :
            i < j /\ stream[i][1] = "bcast" /\ stream[j][1] = "bcast"
              => stream[i][2] < stream[j][2]
      /\ c \in clients =>
           \A n \in 1..Past(c) :
             log[n] \in subs[c] /\ since[c][log[n]] < n
               => \E i \in DOMAIN stream : stream[i] = <<"bcast", n>>

\* dispatch gives a call to one worker at most, and gives up only when no
\* worker is left in the round: one that is busy does not hide another.
WorkFindsWorker ==
    /\ [](\A c, d \in Clients :
            \A i \in DOMAIN Stream(c), j \in DOMAIN Stream(d) :
              Stream(c)[i][1] \in Dispatchers /\ Stream(c)[i] = Stream(d)[j]
                => c = d /\ i = j)
    /\ [][\A d \in Dispatchers :
            (hunt[d] # Nobody /\ hunt[d].pc = "next" /\ hunt'[d] = Nobody)
              => items = <<>>]_nexusVars

\* The pipeline gets rid of its call while the server is up, however slow a
\* client is (Send never blocks, and nexus gives its lock back).
NobodyWaits == (pipe # Nobody) ~> (pipe = Nobody \/ srv # "up")

\* A server that is told to stop does (Server.Go).
ShutdownEnds == (srv = "stopping") ~> (srv # "stopping")

\* A send to a connection that is gone is an error the caller handles
\* (nxerrors.ErrSentToClosed), not the end of the server.
SendsReturn == srv # "panicked"
=============================================================================
