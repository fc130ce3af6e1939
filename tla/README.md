# Stillbox: a TLA+ model of the call store and the services around it

Stillbox is a server for radio scanner calls.  Sources upload calls; the server
stores them (a row in PostgreSQL, the audio in the row or in an audio backend),
learns talkgroups from them, broadcasts them to connected clients and to
transcription workers, scores talkgroups for alerts, and in the background moves
audio between backends, rotates the partitions of the calls table and deletes the
audio of what fell out of them.  Users gather calls in incidents and share both with
guests who have nothing but a link.

The modules here model the parts in which several goroutines, the database, a cache
or a second store must agree.  TLC checks them on small instances; what matters most
is proved for every instance with TLAPS.

## Inventory

| component (code) | state it keeps | operations | how it is driven, what is hard | correct when | modelled in |
|---|---|---|---|---|---|
| Call audio move (`callstore/move.go`, `reftracker.go`) | rows, objects, the open transaction, `refTracker`, `maintInProgress` | `MoveCallAudio`, `do`, the workers, `Commit`, `Rollback` | an HTTP or CLI call starts a producer, a pool of workers and a goroutine with the transaction, over unbuffered channels; failures and cancellation on each side, cleanup after the outcome | no committed row names an object that is not there; rows as asked, at once, or none; a failed move leaves nothing behind; the lock is given back | `AudioMove`, `MoveContract`, `AudioMoveProofs` |
| Call store (`callstore/store.go`, `audio.go`, `fs.go`, `s3.go`) | `calls`, `swept_calls`, objects | `AddCall`, `Call`, `CallAudio`, `Calls`, sweeping | one ingest at a time, in parallel with everything else; backends with their own policy on failure; a second transaction that learns the talkgroup | a stored call can be played; a call that was refused leaves no object; pages of calls cover them | `CallIngest`, `CallIngestProofs`; reads in `Sharing`, lists in `Lists`, sweeping in `PartitionPrune`, objects also in `AudioMove` |
| Fsck (`callstore/fsck.go`) | `dangling_at` of the rows | `Fsck`, `FsckRefs` | lists a backend, then marks rows: whatever happens between | a row is marked only if its object is missing | `CallIngest`, `CallIngestProofs` |
| Ref journal and GC (`callstore/journal.go`, `PruneBackendRefs`) | the journal table, the lifecycle rules of the bucket | `AddDelete`, `Prune`, `GC` | the hourly GC and the partition manager prune at the same time; the lifecycle configuration is read, changed and written without a lock | every object to be deleted has a journal entry or a rule until it is gone | `RefJournal`, `DeleteContract`, `RefJournalProofs` |
| Partition manager (`database/partman`, `internal/isoweek`, `common/intervals.go`) | the partitions of `calls`, their names and ranges | `Check`, prune, detach, drop, create | one transaction that also touches the backends; a calendar | calls of incidents survive a prune with their audio; every day has its partition | `PartitionPrune`, `PartitionPruneProofs`; the calendar in `Partitions` |
| Nexus (`pkg/nexus`) | the clients, their subscriptions, filters and send queues | `Register`, `Unregister`, `Broadcast`, commands, `Shutdown` | read pump, write pump and one goroutine per command of every client, one broadcaster, a shutdown | a client gets every message it subscribed to, in order, or is disconnected; nothing is sent on a closed channel | `Nexus`, `CallIngestProofs` |
| Transcription workers (`pkg/workers`, `internal/robin`) | the round of workers, the filter | `Register`, `Dispatch`, `HUP` | dispatch runs under the lock of nexus while clients come and go | a call goes to one live worker; a worker that is alive gets its turn | `Nexus`, `CallIngestProofs` |
| Talkgroup store (`tgstore/store.go`, `internal/cache`) | talkgroup cache, system cache, filters | `TG`, `Hint`, `LearnTG`, `UpdateTG`, `UpsertTGs`, `DeleteTG`, `DeleteSystem`, `Invalidate`, `RecompileFilters` | reads fill the cache after a query that may be older than an update | the cache agrees with the table but where operations overlapped; a filter follows its tags | `TGCache`, `TGCacheProofs`; the list in `Lists` |
| Incidents and shares (`pkg/incidents`, `pkg/shares`, `rest/share.go`) | incidents, their calls, shares | create, update, delete, add and remove calls; share, expire, prune; what a guest may ask for | every request reads, checks and writes in statements of its own, while calls are swept and dropped | a guest is served what is shared, all of it and nothing else; changes are their owners'; shares of what is gone go | `Sharing`, `SharingProofs`; the lists in `Lists` |
| Authorization (`pkg/authz`) | the policy | `Check` | conditions that query the database | as the modules above and below need it | `Policy` |
| Users, authentication (`pkg/users`, `pkg/authn`) | users, their cache, tokens, API keys | login, refresh, change of passwords, updates, keys; commands of the administrator | a cache that is filled without a lock, one writer that holds it, and another process | the cache agrees with the rows; a token from before a password change is refused | `Accounts`, `AccountsProofs` |
| Settings (`pkg/settings`) | a cache over a table | `Get`, `GetPrefs`, `Set`, `Delete` | database and cache are written one after the other by concurrent requests | the cache agrees with the table but where operations overlapped | `Accounts`, `AccountsProofs` |
| Alerter (`pkg/alerting`) | scores, `alertCache`, `ignoreList` | `Call`, `score`, `eval`, `notify`, `cleanCache`, test notification, `HUP` | the sink, a ticker and HTTP handlers share one lock, which is let go in between | a hot talkgroup is notified once per renotify interval | `Alerter`, `AlerterProofs` |
| Scores and rule times (`internal/trending`, `timeseries`, `slidingwindow`, `ruletime`) | the event counts | `Increase`, `Range`, `Query`, `Covers` | ring buffers that turn with the clock | every event counts once, in its interval | `Trending`, `RuleTime` |
| Notifications (`pkg/notify`, `notify/push`) | subscriptions, devices | subscribe, register, dispatch | two senders query and send, device by device, while users change their minds and devices refuse | who is subscribed is told, nobody else is, and one device does not spoil it for the others | `Push`, `AlerterProofs` |
| Ingest pipeline (`pkg/pipeline`) | the list of sinks | `Ingest`, `EmitCall`, HTTP source, relay | sinks in turn, required or not, some asynchronous | a call accepted from a source is stored once | `CallIngest`, `CallIngestProofs`; its lock against nexus in `Nexus` |
| Server (`pkg/server`) | services and their contexts | start, `HUP`, shutdown | signals while everything runs | shutdown ends | its stop in `Nexus`, its restart in `AudioMove` and `RefJournal`, `HUP` in `Accounts`, `Alerter` and `TGCache` |
| REST (`pkg/rest`) | none | routes | begins the requests of the above | | where a request begins, in `Sharing`, `Push`, `Accounts` |
| Call statistics, forms, client, CLI, UI | none, or a cache that expires | conversions | | | not modelled: no writer, or pure input and output |

### Behaviours that are hard

* **Two stores, no common transaction.** Rows live in PostgreSQL, audio in files
  or in s3.  A move, an ingest and a prune each change both, and either side can
  fail or the server can stop between them.
* **Work that is asked for and done later.** The lifecycle rules of s3 delete
  objects days after a prune; the journal remembers what is left to do, and is
  itself written next to the rules, not with them.
* **Goroutines over unbuffered channels.** The workers of a move, the broadcaster
  and the pipeline wait for each other; each may fail, be cancelled or have gone.
* **Goroutines that outlive what they work for.** Every command of a websocket
  client runs on its own, whatever has become of the client.
* **Caches filled from reads that are older than a write**, for talkgroups, users
  and settings.
* **Read, check, write, each for itself.**  A request reads the row, asks the policy,
  and writes or answers in statements of its own; the row, the membership of a call
  and the share may be others by then.
* **One lock that is let go in between.**  The alerter notifies without the lock under
  which it scored, and caches an alert before it is stored and sent.
* **Calendars and rings.**  Which week a Sunday is in, and which bucket an event.

`PROJECT.json` lists these hazards at their lines, with the property that covers
each.

## The modules

| module | what it is | note |
|---|---|---|
| `AudioMove` | `MoveCallAudio` with producer, workers, transaction and cleanup | |
| `MoveContract` | what a reader of the table `calls` sees of a move | abstract specification of `AudioMove` |
| `AudioMoveProofs` | `TypeCorrect`, `NoDangling`, `MovesAreAtomic`, `SuccessIsComplete`, `CountIsExact`, `RollbackIsComplete` | |
| `RefJournal` | the journal, `GC`, `PruneBackendRefs`, the lifecycle rules | |
| `DeleteContract` | what the journal promises to those who ask for a delete | abstract specification of `RefJournal`, environment of `PartitionPrune` |
| `RefJournalProofs` | `TypeCorrect`, `KeepsTheContract` | |
| `PartitionPrune` | `Check` of the partition manager with sweeping and detaching | |
| `PartitionPruneProofs` | `TypeCorrect`, `RetainedKept`, `AlwaysStorable`, `AudioOfDetachedAsked`, `IncidentsPlayable` | |
| `CallIngest` | `EmitCall`, `AddCall`, a relay, `LearnTG`, and `Fsck` beside them | |
| `CallIngestProofs` | `TypeCorrect`, `OnlyInDoubt`, `NoDangling`, `OkKept`, `NoOtherOrphans`, `PlacedAsConfigured`, `ClearsSound`, `FindsMissing`; of `Nexus`: `NexusTypeCorrect`, `StreamsAreWhole`, `WorkIsHandedOut` | extends both |
| `TGCache` | the talkgroup store: its cache, its writers, the filters that follow tags | |
| `TGCacheProofs` | `TypeCorrect`, `CacheCoherent`, `FiltersFollow`, `NamesCoherent` | |
| `Nexus` | websocket clients, broadcaster, workers, the pipeline's wait for them, shutdown | |
| `Policy` | the roles, their grants, and `Check` | used by `Sharing`, `Accounts`, `Push`, `Alerter` |
| `Sharing` | incidents, shares, what users change and guests are served, sweeps beside them | |
| `SharingProofs` | `TypeCorrect`, `GuestsAreServedSharedCalls`, `OwnersChange`, `SharedCallsServed` | |
| `Accounts` | users, tokens, keys and settings with their caches | |
| `AccountsProofs` | `TypeCorrect`, `UsersCacheAgrees`, `OldTokensAreRefused`, `SettingsCacheAgrees` | |
| `Alerter` | scoring, renotify, the test notification, around one lock | |
| `AlerterProofs` | `TypeCorrect`, `NeverTooOften`; of `Push`: `PushTypeCorrect`, `EveryoneIsTold`, `OnlyRefusedLeave` | extends both |
| `Push` | subscriptions and the dispatch of alerts to devices | |
| `Lists` | the paginated lists of calls, incidents, talkgroups and shares | operators, checked by `MCLists` |
| `Trending`, `RuleTime` | time series, scores, sliding window; rule times | operators, checked by `MCTrending` |
| `Partitions` | calendar, names and bounds of partitions, `Check` at a date | operators, checked by `MCPartitions` |
| `MC*` | small instances of each for TLC, and the checks of the operators | |

How they compose: a move and a prune touch the same objects through the backends.
`PartitionPrune` does not repeat the journal: its `Delete` removes objects as
`DeleteContract` allows, and `RefJournal` is checked and proved to implement that
contract.  `Nexus` holds the transcription workers, the lock of the pipeline and the
stop of the server, because the hazards are in how these wait for one another.
The maintenance lock that keeps a move and an fsck apart is a variable of
`AudioMove`; the fsck itself is in `CallIngest`, where the rows and objects it checks
come from.  An object in `CallIngest` is one that `AddCall` stored; that moves and
prunes of the same call do not disturb one another follows from the lock and from
the rows they select, and is not composed.

`Alerter` makes batches of alerts and `Push` takes them: what one promises of when a
batch is made and the other of what becomes of it meets in `Send`.  `Trending` is what
gives `Alerter` its scores, which it chooses freely; `Partitions` is what makes a day a
period of `PartitionPrune`.  `Sharing` has the sweep of `PartitionPrune` as one step: a
partition is a call there, and the transaction of a check is atomic to its readers.
`Policy` has no state; each module that authorizes passes the conditions that hold.

`CallIngest` and `Nexus` are the two halves of the pipeline, `Alerter` and `Push` those of an
alert.  What both of a pair have is named apart in the second (`NexusSpec`, `PushSpec`), so
that one module extends and proves both; neither reads the other's variables.

### AudioMove

The rows are `row[c]`: the set of backends `audio_ref` names, and what `audio_blob`
holds (nothing, the audio, or something else).  `object[c, b]` is what backend `b`
has for call `c`.  The content of audio is abstracted to "it is the call's audio" or
not, which is what a truncated write or an empty read turns on.

| code | model |
|---|---|
| `MoveCallAudio` | `Begin`, `Refuse`, `Finish`, `Unlock`; `pc` is where it is |
| `mover.do`, producer | `NothingToDo`, `StartPool`, `CloseWork`, `Join` |
| the loop over the batches | `NextBatch` (the query of `GetCallAudioCb`), `SendRow` (its callback); `batch`, `count`, `start` |
| `moveWorker`, `moveCallAudio` | `GetAudio`, `StoreAudio`, `SendUpdate`, `WorkerExit`; `wpc`, `wtry` (the retry loop), `werr` |
| the goroutine in `InTx` | `TxBegin`, `TxReceives`, `TxDrains`, `TxEnd`; `pend` holds updates not committed |
| `refTracker` | `cre`, `del` count how often a reference was recorded; `DeleteBulk` deletes backend by backend |
| cancellation, restart | `Cancel` and the crash of the server; `ctxDone`, `egErr` |

A rendezvous on an unbuffered channel is one action of both ends.

The loop over the batches is the code's: `count` is the number of rows counted beforehand,
less the rows sent; a query returns the first `BatchSize` matching rows by date (`DateOf`, any
order among calls of one instant), from `start` on, which is the date of the last row sent,
inclusively, or nothing if the query before returned none.  It reads what is committed, and the
rows of the batch before are not: so a row at the border is sent, stored, recorded and counted
again, and the loop may be over before the last rows were sent.  `Retag` is a user who changes
tags, so that rows that were counted no longer match, and others begin to.  The progress
channel is left out: its reader (`connWorker` in rest/sse.go) takes whatever comes, also
after the connection has ended.

### RefJournal

`journal` holds the rows of `audio_ref_journal`, `rules` the lifecycle rules of each
bucket, `objects` what exists.  A goroutine that runs `GC` or `PruneBackendRefs`
has a place `pc`, the row in hand `cur`, the rows of its query `todo`, and an open
`PruneJob` in `job`: the configuration as it was read, and the rules to add and to
delete.  Time is abstracted to whether a row's `prune_after` is null, ahead or past;
`Elapse` makes it past at any moment, `Expire` is the service that deletes objects
under a rule.  Everything between two calls to the database or the service is one
action, so passes interleave wherever they do in the code.

### PartitionPrune

Time is a counter of periods.  `Check` is a transaction: `wAttached` and `wSwept` are
what it has written, `attached` and `swept` what is committed.  Its steps are
`NextPartition`, `SweepCalls`, `CleanupSweptCalls`, `DerefSweptCallAudios`,
`PruneAudioPrefix`, `DetachPartition`, `CreatePartitions`, `EndCheck`.
`AddToIncident` and `RemoveFromIncident` are users, at any moment.  Asking for a
delete adds to `pending` at once: it is not part of the transaction.

### CallIngest

`rows[c]` is where the row says the audio is: a backend, the row itself, or no row.
`objects` are the objects of the backends, `tgs` the talkgroups table, `told[c]` what the
uploader heard.  A row is inserted by a transaction of one statement, so a
transaction is one action; what COMMIT did and what it reported may differ.

| code | model |
|---|---|
| `EmitCall`, `Ingest` | `EmitCall`, `Answer`, `RelayDone`; `pc`, `call` (one at a time: the lock of the sinks), `Cancelled` (the context of the errgroup) |
| `AddCall` | `Insert`, `LearnTG`, `InsertAgain` (the second transaction), `Rollback` |
| `audioBackends.Store` | `Store`, one round of its loop an action; `at` its place, `Stored`, `StoreFails` with the dispositions of `config` |
| `refTracker` | `created` |
| `Fsck` | `FsckBegin`, `FsckList` (a directory each), `FsckClear` and `FsckMark` (the statements of `FsckRefs`), `FsckCommit`, `FsckFails` |

`lost`, `doubted`, `refused`, `kept`, `inRows`, `there`, `absent` and `skipped` are history
variables: no guard reads them.

### Nexus

A client is a connection with the stages `new`, `open`, `ended` (the read pump has
failed), `unregistered`, `closed` (its channel).  `out` is its queue, `heard` what was
written to the socket.  Each command is a goroutine `g` with its own place in
`cmds[g]`.  `nexus.Go` is `nx`: receiving, in the loop over the clients (with the
lock, `todo` left), or dispatching (`hunt`).  `log` numbers the broadcasts; `since`
remembers which came before a subscription.  A work item is its dispatcher (nexus or
an HTTP request) and that one's number for the call; `BroadcastCall` is the `EmitCall` of the
sink that waits for nexus.  A send that the code makes on a closed
channel is a panic: `srv` becomes `panicked` where no one recovers (the goroutines
of nexus and of a command); an HTTP handler is recovered by `net/http`.

### TGCache

A talkgroup is abstracted to whether it has the tag that the filters select.  `tgs` and
`systems` are the tables, `cache` and `names` the two maps of the store.  Each call is
a goroutine `o` with its place `op[o].pc`; the lock of the cache is held for one look or
one add, so every look, query, transaction and add is an action of its own.

| code | model |
|---|---|
| `TG`, `TGs`, `SystemTGs`, `Hint`, `Load` | `Look` or `HintLooks`, `Query`, `QueryFails`, `Add` |
| `SystemName` | `SystemName`, `AskSystem`, `PutSystem` |
| `UpdateTG`, `UpsertTGs`, `LearnTG` | `SystemName`, the reads above, `Tags`, `Tx`, `TxFails`, `Put`; `LearnSystem` |
| `DeleteTG`, `DeleteSystem`, `CreateSystem`, `Invalidate` | one action each: they hold the lock of the cache all the time |
| `RecompileFilters` | `LockFilters`, `Recompile` (a filter each), `RecompileFails`, `UnlockFilters` |
| `Live`, `RegisterFilter`, `UnregisterFilter`, `ensureCompiled` | `Live`, `Register`, `LiveUnfiltered`, `Unregister`, `FirstUse` |

`suspect`, `behind`, `learned` and the field `saw` are history: no guard reads them.
`suspect` grows when a write overlaps with an operation that has the talkgroup in hand,
or is reported as failed, and shrinks on HUP; `behind` holds the changes of tags that no
recompilation follows.  They are what makes the agreement exact: TLC shows that no
other way to a stale entry exists.

### Sharing

`callAt[c]` is the table that has the call (`calls`, `swept_calls`, or none: it was
dropped), `inc` the incidents, `links` the rows of `incidents_calls`, `shares` the shares;
identifiers are never used twice.  A request `r` has its place in `req[r].pc`.

| code | model |
|---|---|
| `CreateIncident` | `CreateIncident`: one transaction |
| `AddRemoveIncidentCalls`, `UpdateIncident`, `DeleteIncident` | `CheckOwner` (owner and policy), then the write |
| `NewShare`, `Delete` of a share | `CheckEntity` and `CreateShare`; `CheckShare` and `DeleteShare` |
| `PruneShares` | `PruneShares` |
| `routeShare` | `RouteShare`: the share, its expiry, what its type offers |
| `CallAudio`, `Call`, `Incident`, `IncidentCalls`, `TGsIn`, the playlist of a guest | `Authorize`, then `ServeAudio`, `ServeInfo`, `GetIncident`, `ServeCalls`, `ServeTalkgroups`, `ServePlaylist` |
| the partition manager, the clock | `PrunePartition`, `Expire` |

`seen` and `kept` are history: the calls the shared entity has held at some moment since
the guest asked, and those it has held all the time under a share that works.  A
request that is refused at its first check changes nothing and is no step.

### Accounts

One user, one API key and one setting, because the caches treat every key alike.  `row`
and `cache` are the user's row and the record in the cache, `lock` the lock of the cache
that `ChangePassword` holds from the delete to the write, `tokens` the refresh tokens with
the second they claim (`iat`) and the tick they were given out (`at`), `srow` and `scache`
the setting.  A request is `op[p]`, its places named for what comes next: `get`, `query`
and `put` are `GetUser`, `find` and `write` the two queries of `UpdateUser`, `sget`,
`squery` and `sput` the reads of a setting, `swrite`, `sdelete` and `sdrop` its writes.  The
commands of the administrator are processes of their own that write the row and leave
the server's cache alone; `HUP` empties it.  `suspect`, `ssuspect` and `since` are history.
`NewPlainPassword` is modelled as it is written: it returns its zero value.

### Alerter and Push

`Alerter` keeps ages, not times: `alertCache[t]` is how long ago the alert in the cache
was made.  The ticker and a test notification are two goroutines with the same steps:
`Score`, `Hint`, `Lock`, `EvalTG` (one talkgroup a step; `IgnoreTG`, `SkipTG`, `MakeAlert`),
`Evaluated`, `Send`, `CleanCache`; `lag` is how long a goroutine has been waiting since it
read the clock.  `Call`, `HUP` and `EditTG` go on beside them.  Scores are chosen when they
are computed.

`Push` has the three tables of subscriptions; `NotifierSend` is the notifier's
`Send`.  `Subscribe`, `Unsubscribe` and
`WebPushSubscribe` are requests; a sender goes through its batch with `QueryDevices`,
`SendAlertToSubscriber` (delivered, failed, or refused, when the row is deleted by its
id) and `AllSent`.  `told`, `failed`, `ever` and `always` are history.

### Lists, Trending, RuleTime, Partitions

What these modules have is pure: operators on records, with the names of the code, and
no variables.  `MCLists`, `MCTrending` and `MCPartitions` state what they stand for as
assumptions over every input of a small domain, which TLC evaluates in the runs
`sharing`, `alerter` and `prune_safe`, whose modules extend them.

* `Lists`: pages that are asked for one after the other contain every selected row once
  and the count agrees (`CallPagesCover`, `IncidentPagesCover`, `TGPagesCover`,
  `SharePagesCover`), for every filter, order and size of page over tables with distinct
  keys; with calls of one date one may be missed (`TiesMaySkip`); a page that is far enough
  away overflows an int32 and is refused by the database (`FarPagesFail`; `Word` = 16 bits
  stand for 32).
* `Trending`: two events in a row, late ones too, count once in every level they are in
  time for (`EventsCountOnce`); an interval on the borders of buckets counts exactly its
  events (`RangeIsExact`); the recent count is at most the total (`RecentIsPartOfAll`); the
  window has the greatest score of its duration (`MaxOfWindow`).
* `RuleTime`: a rule covers exactly the intervals it stands for when the moment and the
  rule are of one zone (`CoversItsTimes`); parsing refuses what is out of range and keeps
  what came before (`ParseChecks`); multipliers apply once each, in any order (`ApplyOnce`).
* `Partitions`: the ISO week of `isoweek` is the one of the `time` package over three years
  (`ISOWeeksAgree`); bounds hold their day and names verify against bounds over a leap
  year (`BoundsHold`, `NamesVerify`); what a check expects is a row of periods without gap
  (`ExpectedInARow`); seventeen daily checks leave every day its partition
  (`EveryDayHasItsPartition`); a call's prefix is the name of its partition
  (`PrefixIsThePartitions`).  Each leaves out the days on which it fails, which have an
  assumption of their own that shows it: see Findings.

## What is checked

Every run is small on purpose; the bounds and why they suffice:

| run | bounds | states | what it shows |
|---|---|---|---|
| `move_safe` | 2 calls of one instant in batches of one, s3 and fs, 2 workers, 2 moves in a row, all kinds of request, failures of the database, of deletes, cancellation, restarts, tags that change | 1 112 458 | `NoDanglingRefs`, and `MoveContract` is implemented (`MoveIsAtomic`) |
| `move_clean` | 3 calls in batches of two, two fs backends, with a start date and without, one try and two, failures of the database only | 111 423 | what a failed move leaves behind, and what a successful one carries and counts, in one batch and in two |
| `move_live` | one move of 2 calls in batches of one, every fault that lets the server live | 83 569 | `MoveEnds`: whatever fails the move ends and gives the lock back |
| `journal_live` | ticker and partition manager, a third backend that is no longer configured, 2 prunes, any two failures | 62 499 | `DeleteContract` is implemented; `DeletesHappen`, `JournalDrains` |
| `prune_safe` | 3 periods, 3 calls (audio in one backend, two, or the row), users all along, one failure before deletes are asked for | 45 253 | six properties of retention |
| `ingest_safe` | 2 calls, one of an unknown talkgroup; s3 (ends with the context) before fs (its filter passes one call by); two configurations with `next`, `db`, `fail` between them; 2 directories; 2 fscks; a required relay; users that add and delete talkgroups; any two of eleven kinds of failure | 1 999 131 | where the audio is, what may be left over, what the uploader was told, and what an fsck clears and marks |
| `tg_safe` | any 3 operations on 2 goroutines, 2 talkgroups of one system that may be unknown at first, a client with one filter, a filter of a backend, any one failure | 1 463 799 | `CacheAgrees`, `NamesAgree`, `FiltersAgree` |
| `nexus_safe` | 2 clients with queues of one message, one of which may break; a call, a transcript and a call dispatched over HTTP | 888 400 | `StreamIsWhole`, `WorkFindsWorker`, `NobodyWaits` |
| `sharing` | an owner who may share, an administrator, a guest; one incident, two calls, one share; 2 requests at a time | 754 094 | `GuestServedOnlyShared`, `SharedCallsAreServed`, `ChangesAreOwners`, `DeadSharesGo`; the lists |
| `push` | 2 users with a device each, 2 talkgroups of a system, sets with one talkgroup or the system, 2 senders of one batch, 2 registrations | 514 269 | `SubscribersTold`, `OnlyRefusedGo` |
| `alerter` | one talkgroup, renotify of 0 or 1 unit, a lag of 1, tests of what is hot or of a list, one failure | 171 558 | `NotMoreOften`, `HotIsToldAgain`; scores and rule times |
| `accounts` | any 3 requests on 2 goroutines, a good and a short password, an administrator and the user, two values, one tick, one failure | 2 068 272 | `UsersAgree`, `SettingsAgree`, `OldTokensEnd` |

*Why these sizes.*  A move's races need two workers, so that one fails while the
other's row is in the transaction, and two calls, so that "all or none" is a
question; a second move meets what the first left.  Three calls in batches of two are a
selection that fits a batch or does not, by how many of them match; with batches of one every
row is at a border.  The journal's races need two
passes that hold the same row, and a prefix that is pruned a second time while its
old row is being dropped.  A partition must be retained, expire and go, and the next
be created: three periods with one kept and one provided.  A queue of one message
is full after Hello, so the next broadcast already lets a client go; two workers
are needed for the turn to pass from a busy one to the other.  An ingest may fail
with a first reason and be cleaned up with a second, which two failures allow; a
call that is stored while a listing is between its directories needs two
directories, and the mark that must go again two fscks.  A stale cache entry takes a
reader that has queried and a writer that overtakes it; the third operation is the HUP
or the recompilation that puts things right, or the change that comes after it.  (Four
operations without `keep`, 7.7 million states, showed nothing else.)  What a guest is
served depends on one request of his and on one that changes things in between, and a
second call is what must not be served; guests change nothing, so one at a time
(`OneGuest`) is every case there is.  `AnswersAtOnce` drops the states in which a given
answer waits while others go on: the properties look at the state in which it is given.
The claim of a token counts whole seconds, two ticks each: the one tick falls within
a second, where a claim is older than the token.  A talkgroup is due, or not, by its own
entry; one is enough, and the interval of zero units lets a renotify come in the very
unit in which the first was delayed.

`MaxMoves`, `MaxTries`, `MaxPrunes`, `MaxFaults`, `Ids`, `LastPeriod`, `PerPeriod`, `MaxCalls`,
`MaxRequests`, `Goroutines`, `Breakable`, `MaxFscks`, `MaxOps`, `MaxRows`, `MaxClock`,
`MaxLag` and, in `CallIngest`, that each call is uploaded once bound how often callers call and how much
fails.  They are in the guards of the actions that start something; nothing that is
under way is cut short by a bound.  `CHECK_DEADLOCK FALSE` stands in the runs of
`AudioMove`, `RefJournal`, `CallIngest`, `TGCache`, `Nexus`, `Sharing` and `Push`, whose callers may
have no call left.  `MaxAge` is the age of what is long ago: an age is not counted further,
and an assumption says that nothing compares with more.

The type invariant is in the runs `prune_safe`, `nexus_safe` and `push`; it is proved of every
module with a state.

Eight configurations are kept beside the runs.  Each finds a violation (with `-continue`
all that it names):

* `MCAudioMove_faults.cfg`: a worker's write fails, and `NoDanglingRefs` is violated; tags change,
  and a query of the loop finds no row (`QueryFindsRows`) and the loop starts over without the
  start date (`OlderAreLeft`);
* `MCAudioMove_doubts.cfg`: three calls in batches of two violate `BorderLosesNoRow`,
  `BorderCountsOnce` and `BorderIsRolledBack`; a second try violates `TryCountsOnce`; a move of swept
  calls violates `SweptAreMoved`, one that is not a copy `OldAudioCleared`;
* `MCRefJournal_rules.cfg`: two passes and no failure violate `NoRuleLeft`;
* `MCPartitionPrune_race.cfg`: a DETACH that fails violates `IncidentAudioKept`;
* `MCPartitionPrune_start.cfg`: a call of the first instant violates `NoAudioLeft`;
* `MCCallIngest_fsck.cfg`: a call that is stored meanwhile violates `MarksAreDangling`, a COMMIT
  whose answer is lost violates `NoDanglingRow`;
* `MCNexus_doubts.cfg`: `SendsReturn` and `ShutdownEnds` are violated;
* `MCTGCache_doubts.cfg`: one operation leaves a backend's filter behind
  (`FiltersUpdated`), and one blanks the name of a system (`NameIsRight`).

`SharedInfoIsServed`, `SharedTalkgroupsAreServed` and `AddedCallsAreIn` of `Sharing` are stated
and do not hold (see Findings): they may be given to the run `sharing` in place of its
properties.

### Fairness

* `AudioMove!FairSpec`: weak fairness of `MoveStep`, the steps of goroutines that were
  started.  Go schedules every runnable goroutine.  Calls of `MoveCallAudio`,
  failures, cancellation and restarts are owed by nobody.
* `RefJournal!FairSpec`: weak fairness of each goroutine's steps, of `Collect` (the
  ticker fires every hour) and of `Expire` (what a lifecycle rule promises); strong
  fairness of `Elapse`, per row: five days pass, although a pass that writes the row
  again starts them anew.
* `PartitionPrune!FairSpec`: weak fairness of `Check` (the hourly ticker), of its
  steps and of `Delete` (`DeletesHappen` of the journal); strong fairness of a
  cleanup that no user spoils: an incident that gains a call in the very moment of
  every hourly check is not assumed.
* `Nexus!FairSpec`: weak fairness of the goroutine of nexus and of `Exit`.  Peers, pumps,
  commands and sources owe nothing: a client that never reads must not hold up the
  pipeline, which is what `NobodyWaits` says.

* `Sharing!FairSpec`: weak fairness of `PruneShares`, the ticker of the share service.
* `Alerter!FairSpec`: time passes; the ticker fires and goes on, and a test that was begun
  goes on, with strong fairness because they wait for a lock that others take and give
  back: a mutex of Go wakes one who has waited for more than a millisecond first.  Calls,
  requests and reloads are owed by nobody.

## What is proved

Proofs are for every value of the constants that satisfies the named assumptions
(`AudioMoveAssumption`, `RefJournalAssumption`, `PartitionPruneAssumption`,
`CallIngestAssumption`, `NexusAssumption`, `TGCacheAssumption`, `SharingAssumption`,
`AccountsAssumption`, `AlerterAssumption`, `PushAssumption`), which TLC evaluates on each run.
Where a theorem has a hypothesis besides, it is named with it: each is a kind of failure or a
setting without which the property does not hold, and shown to be needed by a configuration
above or a line under Findings.

* `AudioMoveProofs!TypeCorrect`: `Spec => []TypeOK`, whatever fails.
* `AudioMoveProofs!NoDangling`: `Spec => []NoDanglingRefs` under `TxFaultsOnly`: the
  database may fail (but not lose the answer to a COMMIT), bulk deletes may fail
  part of the way, callers may cancel and the server may stop.  The other faults
  break the property (see Findings), so the assumption is needed.
  *Argument* (`IInv`): with those faults, a move whose transaction can still commit has
  not been cancelled, and no worker has failed (`CancelledInv`); a worker that is not
  cancelled has the audio in its hand, and in the destination when it sends the
  update (`WorkersInv`); so each update of an open transaction is sound
  (`PendingInv`); and what the tracker would roll back is named by no committed row
  (`TrackerInv`), because the destination of a selected row is never among the
  references it has.
* `AudioMoveProofs!MovesAreAtomic`: `Spec => MoveIsAtomic`, that is `MoveContract!Spec`, under
  `TxFaultsOnly`.
  *Argument* (`CarryInv`): every row in the transaction is of a call that could be moved, and is the
  row it should have, and until the transaction has ended the committed rows are those it found;
  so what a COMMIT makes visible is rows as asked, whichever the loop sent, and how often.
  Which these are is the next theorem's.
* `AudioMoveProofs!SuccessIsComplete`: `Spec => []SuccessMovesAll`, under `TxFaultsOnly`, `NoneSwept`
  (no request names swept calls, whose rows no move updates) and `SteadyTags` (`"retag"` is not
  among the faults).
  *Argument* (`QueryInv`, `OrderInv`, `SuccessInv`): a query asks for no row that was not counted, and
  its batch is the oldest rows from the last one on, so no row that was not sent is older than one that
  was (`OrderInv`).  If the selection fits a batch the first query returns all of it, `count` is what
  is left of it (`QueryInv`), and the loop ends when it is sent.
* `AudioMoveProofs!CountIsExact`: `Spec => []CountIsRowsMoved` under the same hypotheses.
  *Argument* (`TallyInv`, `CountInv`): the counter, the rows in hand and the rows still to be sent add
  up to at least the number that was counted, since the loop works that off; and to just that
  number if the selection fits a batch and each row has one try.
* `AudioMoveProofs!RollbackIsComplete`: `Spec => []RollbackDeletesCreated`, under `TxFaultsOnly`,
  `SteadyTags` and `ToFiles` (no destination heeds the context, which may be cancelled in the middle
  of a store, and bulk deletes do not fail by themselves).  The property itself says that the selection
  fits a batch and is tried once: otherwise a row may be taken twice.
  *Argument* (`OnceInv`, `TakenInv`): then a call is with the producer or with one worker, so what the
  tracker recorded was created once and is there until its backend is cleaned, and no other object
  differs from what the move found.
* `RefJournalProofs!TypeCorrect`: `Spec => []TypeOK`.
* `RefJournalProofs!KeepsTheContract`: `Spec => DeleteContract!Spec` under the mapping that
  takes the targets of the journal's rows for `pending`.
  *Argument* (`IInv`): a target is *safe* when the journal has it or none of its objects
  is left.  Every rule in a bucket, every rule in the copy of a configuration some
  pass has read, and every row some pass has in hand is of a safe target (`RuleInv`,
  `HandInv`).  Safe targets stay safe, because objects only go and a row is dropped
  only when nothing is left under its prefix; the latter needs that an id names one
  target for ever, also in stale copies (`IdInv`), and that a pass with an s3 row has
  a job open (`JobInv`).

* `PartitionPruneProofs!TypeCorrect`: `Spec => []TypeOK`.
* `PartitionPruneProofs!RetainedKept`: `Spec => []RetainedUntouched`, whatever fails and whatever users
  do.
  *Argument* (`CheckInv`): what a transaction has in hand, what it detached and what has been asked
  for is older than the retention of the period it began in, and the clock only goes on.
* `PartitionPruneProofs!AlwaysStorable`: `Spec => []CallsCanBeStored` if `PerPeriod > MaxFaults`: in each
  period a check succeeds.
  *Argument* (`AheadInv`): of the checks that ended no more than the faults failed, and one that
  did not has made the partition of the next period.
* `PartitionPruneProofs!AudioOfDetachedAsked`: `Spec => []NoAudioLeft` if no call is dated the first
  instant of its period (`AtStart = {}`).
  *Argument* (`AskedInv`): a partition that the transaction detaches has all its objects asked for,
  backend by backend; what is asked for stays so when it is rolled back.
* `PartitionPruneProofs!IncidentsPlayable`: `Spec => []IncidentAudioKept` under `Careful`: no user adds a
  call of the partition in hand in the middle of its sweep, and nothing fails between the first
  request to delete and the commit.
  *Argument*: a call's partition is attached until no check expects it (`KeptInv`); the audio of
  what a transaction leaves attached is untouched, but for the partition in hand
  (`UntouchedInv`); a call that is linked as swept is in that table with what its row said
  (`LinksInv`); and once deletes are asked for no link to the partition in hand has been missed
  (`NoWayBackInv`).

* `CallIngestProofs!TypeCorrect`: `Spec => []TypeOK`, whatever fails.  It needs `Creates`: what
  the tracker has is nothing or the one object of the call in hand.
* `CallIngestProofs!OnlyInDoubt`: `Spec => []OnlyLostCommitsDangle` with all eleven kinds of failure;
  and `CallIngestProofs!NoDangling`: `Spec => []NoDanglingRow` if `"commitlost"` is not among them,
  without which it does not hold (see Findings).
  *Argument* (`Sound`): the call in hand has no row before its last transaction
  (`NoRowYet`), unless a COMMIT that worked was reported as failed; until then its object
  is there or has vanished by itself (`CreatedIsThere`).  So a row that is inserted
  names an object that is there, and an object that is removed is of a call that has
  no row and gets none, for the call is answered after that and never taken again; or of one
  whose COMMIT was in doubt, which is answered with an error (`Doubts`).
* `CallIngestProofs!OkKept`: `Spec => []OkIsKept`.
  *Argument* (`Kept`): a row's talkgroup is there, since the insert demands it and a
  talkgroup with rows is not deleted (`RowsHaveTG`); `AddCall` has no error before it is
  done, and is done with an error or with a row (`ErrorOrRow`).
* `CallIngestProofs!NoOtherOrphans`: `Spec => []OrphansExplained`, whatever fails.
  *Argument* (`Accounted`): a call that nobody has taken has no object, an object is stored under its
  own call, and one that is created is the row's, the tracker's, or on one of the lists of
  what could not be removed.
* `CallIngestProofs!PlacedAsConfigured`: `Spec => []PlaceIsConfigured`.
  *Argument* (`OnItsWay`): the backends before the one that is tried have passed the call by, each for
  a reason that its filter or its disposition allows; the row is put where the loop ended.
* `CallIngestProofs!ClearsSound`, `FindsMissing`: `Spec => FsckClearsSound` and
  `Spec => FsckFindsMissing`, with anything ingested, lost or failing meanwhile.
  *Argument* (`Checked`): of the directories that have been listed, what was there all the time is
  in the list unless a directory could not be read, and what was missing all the time is not;
  the rows that were there at the beginning are among those read at the end, because a row's
  reference never changes.

* `CallIngestProofs!NexusTypeCorrect`: `NexusSpec => []NexusTypeOK`: no queue is longer than its size and
  nobody is in the round twice.
* `CallIngestProofs!WorkIsHandedOut`: `NexusSpec => WorkFindsWorker`.
  *Argument* (`HubInv`): a connection registers once, and whoever is in the round or has been asked
  has registered (`RegisterOnce`); so a worker that a dispatch dropped is not in the round again
  (`DroppedIsOut`), and a dispatch that meets the worker it asked last has emptied it.  Dispatchers
  number their calls upward (`Counting`, `Numbered`); a number that is being dispatched is in no
  queue, hence no work item is in two (`WorkOnce`).
* `CallIngestProofs!StreamsAreWhole`: `NexusSpec => []StreamIsWhole`.
  *Argument* (`StreamInv`): a queue behind what was heard only loses answers and only grows at its
  end, by the number of the broadcast in hand, which is above all others (`Ordered`); a client that
  is passed with a full queue is forgotten in the same step (`Whole`); and what is new has no
  subscription yet.

* `TGCacheProofs!TypeCorrect`: `Spec => []TypeOK`, in which the lock of the filters is
  held by the goroutine that recompiles them, and by nobody else.  It needs `Asks`: who
  asks for a system has talkgroups of that one.
* `TGCacheProofs!CacheCoherent`: `Spec => []CacheAgrees`.
  *Argument* (`CoherentInv`): a record on its way into the cache, from a query or from a
  transaction, is the row, or its talkgroup is suspect (`HeldAgrees`).  A write makes
  every such record of another goroutine suspect and is followed by its own; HUP and
  deletes clear a suspicion only when nobody has the record in hand.
* `TGCacheProofs!FiltersFollow`: `Spec => []FiltersAgree`.
  *Argument* (`GoodInv`, `FollowInv`): a writer is concerned with one system and recompiles
  the filters of a tag it has seen or is given.  A filter that is compiled and not yet
  registered is behind with every change since (`UnawareBehind`); a registered one
  agrees, or is behind, or whoever changed the tag has yet to recompile it
  (`RegisteredAgree`), because the map of filters cannot change while it is locked.

* `TGCacheProofs!NamesCoherent`: `Spec => []NamesAgree`.
  *Argument* (`NamesInv`): a row refers to a system that is there (`Referential`); the system that an
  operation is about to name is there, or was deleted under it (`HeldSystems`); and who goes on
  with the empty name has learned the system, or met somebody who had (`BlankLearned`).

* `SharingProofs!TypeCorrect`: `Spec => []TypeOK`; in particular only incidents that are there
  have calls.
* `SharingProofs!GuestsAreServedSharedCalls`: `Spec => []GuestServedOnlyShared`, for any users with
  any roles, and any number of guests, requests, incidents, calls and shares.
  *Argument* (`GuestOK`, `FreshOK`): a guest's role gives him the two conditions and nothing
  without them (`GuestReads`), so a call he is allowed is at that moment in the entity of his
  share and enters `seen`; the lists are read from the entity itself.  That the entity is
  the same at the end needs that no share that exists is created again: the identifier
  of one that is being created is nobody else's.
* `SharingProofs!OwnersChange`: `Spec => ChangesAreOwners`.
  *Argument* (`OwnerOK`): no role but the administrator's changes an incident or deletes a
  share without being its owner (`UsersChange`, from the policy), and owners of rows that
  exist do not change, so what was checked is true at the write.
* `SharingProofs!SharedCallsServed`: `Spec => []SharedCallsAreServed`.
  *Argument* (`KeptOK`): until the answer, what is kept for a guest is in the entity of his
  share and in one of the tables of calls.  So the policy allows him the call
  (`GuestMay`), and the statement that serves him finds it; `kept` can only lose calls, and
  the entity is still the one he was routed to.

* `AccountsProofs!TypeCorrect`: `Spec => []TypeOK`.  It needs what each kind of request may be
  doing (`KindAt`).
* `AccountsProofs!UsersCacheAgrees`: `Spec => []UsersAgree`, and `OldTokensAreRefused`:
  `Spec => OldTokensEnd`.
  *Argument* (`UsersInv`): who is to write a password holds the lock over an empty cache
  (`LockHeld`); what is about to be cached is the row, or the cache is suspect (`PutsAgree`);
  passwords are set at rising times, and the record a request has was set no earlier than
  the row's when it began (`SinceAgrees`).  A claim is no later than its token, so one that
  passes the comparison is of a token that is no older than the password.
* `AccountsProofs!SettingsCacheAgrees`: `Spec => []SettingsAgree`, along the same lines.

* `AlerterProofs!TypeCorrect`: `Spec => []TypeOK`.
* `AlerterProofs!NeverTooOften`: `Spec => NotMoreOften`.
  *Argument* (`StoredIsCached`): while an alert that was stored is not older than the shortest
  interval, the cache has an entry of the talkgroup that is no older: it is made with the
  alert, and cleaned only when it has expired, which a reload cannot make happen sooner
  than the shortest interval and a late goroutine, whose clock is behind, only later.

* `AlerterProofs!PushTypeCorrect`: `PushSpec => []PushTypeOK`; `EveryoneIsTold`:
  `PushSpec => []SubscribersTold`; `OnlyRefusedLeave`: `PushSpec => OnlyRefusedGo`.
  *Argument* (`SenderInv`, `IdInv`): what a sender has left to send to was wanted at some moment, and a
  row that has been wanted all the time is left, told or failed; identifiers are given out
  once, so the row a sender read is the row it deletes, or is gone.

Only model-checked are

* liveness, which with fairness and ENABLED is out of the prover's reach: `MoveEnds`,
  `DeletesHappen`, `JournalDrains`, `RetentionHappens`, `NobodyWaits`, `DeadSharesGo`, `HotIsToldAgain`;
* the operators of `Lists`, `Trending`, `RuleTime` and `Partitions`: what a recursive function over
  data computes for every input needs induction over that data, which is out of reach too.

Every other invariant and action property of the runs is a theorem.  No module declares a
RECURSIVE operator.

## Findings

With a configuration, or an assumption that a run evaluates, which shows it:

* **A failed worker does not stop the commit** (`MCAudioMove_faults.cfg`, move.go:265).  `do`
  closes the channel to the transaction as usual, so the rows sent so far are
  committed; `MoveCallAudio` then rolls the new objects back, and the rows dangle.
* **Rows at the border of a batch are moved again, and the last ones are not**
  (`MCAudioMove_doubts.cfg`, move.go:320).  The next batch starts at the date of the last row,
  inclusively, and sees it as it was, for it is not committed.  It is sent, stored and counted again,
  and uses up the count that ends the loop: the move reports success although as many of the last rows
  were never sent (`BorderLosesNoRow`), with a number that is not theirs (`BorderCountsOnce`).  Its
  object is recorded twice, and the rollback of a failure stops there in an fs backend
  (`BorderIsRolledBack`, fs.go:163).
* **A move that starts over** (`MCAudioMove_faults.cfg`, move.go:320).  When rows that were counted no
  longer match, a query returns none and the next one has no start date: the move carries calls older than
  was asked for (`OlderAreLeft`).  If none match it asks for ever, with the maintenance lock held.
* **A COMMIT whose answer is lost** (`MCCallIngest_fsck.cfg`, database.go:84) is taken for one that failed:
  `AddCall` deletes the object that the committed row names.  The uploader is told of an error, and
  the row dangles until an fsck marks it.  A move does the same with all it moved (the fault
  `ack` of `AudioMove`).
* **A rule that nothing removes** (`MCRefJournal_rules.cfg`, s3.go:413).  A pass that read its rows
  before another dropped one gives the row's rule again.
* **Audio of incidents is lost when DETACH fails** (`MCPartitionPrune_race.cfg`, partman.go:283).  The
  deletes are asked for inside the transaction that sweeps; a rollback undoes the
  sweep only.
* **A call dated the first instant of its partition** (`MCPartitionPrune_start.cfg`, calls.sql:457) does
  not count when the backends are asked: its audio stays.
* **An fsck marks a call that was just stored** (`MCCallIngest_fsck.cfg`, fsck.go:67).  The listing
  comes first and the rows are read last; a call stored between is not in the one
  and is in the other.  The next fsck clears the mark.
* **A registration after its connection ended stops the server** (`MCNexus_doubts.cfg`,
  websocket.go:134).  The round keeps a worker whose channel is closed; nexus panics
  when it sends to it.

* **A Check on a Sunday stops all later ones** with weekly partitions (`SundayStopsChecks`,
  common/intervals.go:80): the Sunday is given the bounds of the next week and the name of
  its own, which the next Check refuses.
* **The last day of March stops them** with quarterly ones (`MarchEndsStopChecks`,
  partman_intervals.go:22): three months later is 31 June, that is July.
* **A zone with minutes stops them** (`MinutesStopChecks`, partitions.go:141): the bounds of the
  catalogue cannot be read.
* **A prefix of another partition** (`OtherClockOtherPrefix`, partman.go:471): the week or quarter is
  that of the zone the call's time is in.
* **A probability of 1/0** (`SecondReadMayCountMore`, trending/item.go:74): the clock is read again
  between the two counts of a score.
* **A window of one step panics** (`OneStepOutOfBounds`, slidingwindow.go:85).
* **One day of lookback counts nothing of it** (`OneDayCountsNothing`, alerting.go:446); with none the
  series cannot be made and the error is ignored.
* **One score too few** (`TakeLosesOne`, trending/score.go:32).
* **A rule time in another zone** misses times it covers (`OtherZoneMayMiss`, ruletime.go:53).

Seen while modelling, without a run of its own:

* `ListCalls` of the fs backend ignores the error of a directory it cannot read, so an
  fsck marks every call in it and reports success (fs.go:177; `skipped` in `CallIngest`);
* `AddCall` rolls back with the context that a failed relay has cancelled, although
  `Rollback` asks for one that cannot be: an s3 object stays (store.go:276; `kept`);
* learning a talkgroup of a system that is itself new caches the empty string as the
  name of the system (tgstore/store.go:741, `MCTGCache_doubts.cfg`);
* the filters of audio backends and of ingest are compiled once and never follow the
  tags: `MakeBackends` does not use the filter cache it is given (audio.go:539,
  pipeline/ingest.go:105, `MCTGCache_doubts.cfg`);
* `Live` does not unregister the filter it replaces, so the store keeps and recompiles
  it for ever (nexus/commands.go:146; `registered` in `TGCache`);
* a talkgroup that is read while it is updated may be cached as it was, until HUP
  (tgstore/store.go:519; `suspect`);
* `DeleteTG` waits for a database connection with the lock of the cache, while the
  transaction of `UpsertTGs` has a connection and waits for that lock: with the pool
  used up nobody goes on (store.go:661, 784; the pool is not modelled);
* the retry loop of a worker does not stop after success: with `Tries > 0` every row
  is moved and counted again (move.go:260, `TryCountsOnce` in `MCAudioMove_doubts.cfg`), and recorded
  again, as at the border of a batch;
* a move of swept calls updates no row, because `SetCallAudio` knows the table `calls`
  only (calls.sql:144, `MCAudioMove_doubts.cfg`);
* a move that is not a copy never removes the old object: the caller's map of
  references stays empty (audio.go:253, `MCAudioMove_doubts.cfg`);
* a refused move keeps the maintenance lock (move.go:364); with no workers at all the
  producer waits for ever (move.go:306);
* a journal row whose `UpdatePruneAfter` was lost after its rule was given stays stuck:
  `addRmRule` refuses it at every pass (`Stuck` in `RefJournal`, journal.go:220);
* one swept call whose object is gone for good makes every later `Check` fail
  (audio.go:663);
* a client with a full queue is unregistered but its connection stays open and is
  pinged: it hears nothing more; when it closes, `unregister` runs a second time and
  the gauge of connections goes down twice (nexus.go:122, 163);
* a worker with a full queue leaves the round for good while its connection stays
  (workers.go:208);
* after the signal nexus stops receiving; a call that is being emitted then waits for
  ever with the lock of the sinks, and so does the shutdown (sinks.go:76,
  server.go:326, `MCNexus_doubts.cfg`);
* a sink with `AsyncFlag` is never run: `go sink.callEmitter(ctx, call)` only builds the
  function (sinks.go:82);
* `NewPlainPassword` returns a result it never assigned: every password that is set is the
  empty one (users/user.go:88; `NewPlainPassword` in `Accounts`);
* an API key for Rdio is made and not stored (authn/apikey.go:166; `CreateAPIKey`);
* `GetPrefs` caches the empty answer of a query that failed, and prefixes the name of its
  default twice (settings.go:157, 164; `FetchSetting`);
* `RecordLogin` leaves the cache alone, and the settings' cache has no HUP: a setting that
  was cached from an older read stays until it is written again (`ssuspect`);
* a token that is given out in the second in which the password is set, and after it, is
  refused by the first refresh (`IssuedAt`);
* a guest hears a swept call and is refused its information; the talkgroups of an incident
  lose those of its swept calls; a call that is added after it was swept is passed over
  (`SharedInfoIsServed`, `SharedTalkgroupsAreServed`, `AddedCallsAreIn`);
* the playlist of an incident joins "/api/call" and the identifier of the call without
  a slash (rest/incidents.go:246);
* `TGInIncidentCondition` is in no grant; the filter for calls of unknown talkgroups finds
  none, because the list joins them away (`UnknownTGFindsNothing`);
* `GetAlert` checks the right to create an alert and not that to read it; a test
  notification silences a talkgroup for the whole interval; when one alert of a batch cannot be
  stored those before it are not sent; the list of talkgroups that are ignored is
  never reset (`Alerter`);
* any answer of a push service but success deletes the row of the device, and the
  expiration of a subscription is read by nobody (`SendAlertToSubscriber` in `Push`).

## What is not modelled

* The filters that ingest backends use are a set of calls they accept.
* Filters in `Nexus`: a client wants a type of message or not.  Which talkgroups its
  filter passes is in `TGCache`.  The pool of database connections is nowhere.
* The decay and the logarithms of scores (there are no reals to check them with), the
  simulation of alert rules, the rendering of alerts, the pruning of stored ones.
* The hashing of passwords and the signing of tokens, which are taken to work; more than
  one user, key or setting, which the caches keep apart.
* The conflict of two requests that change one incident's text (the later one wins), and
  statements that fail in `Sharing`: they end the request.
* Call statistics: a cache that is filled and expires, with no writer.
* The retries of the relay and the reload of the pipeline's configuration, metrics,
  logging, decoding and encoding of requests, the client library, the command line beyond
  the commands above, the user interface; code that sqlc and protoc generate, except
  the queries the modules name.
* In a move: the end date and the least duration a caller may ask for, which select like the start date
  and the tags; a write to a selected row by somebody else (an ingest adds rows, a check sweeps them).
  In `move_live` no tags change: a move then need not end (see Findings).

## Plan

What is left, in this order:

1. Proofs: `SuccessMovesAll` and `RollbackDeletesCreated` without the hypothesis on the kinds of
   failure where they hold (a move that reports success has had none); lemmas about the pure
   operators of `Lists` and `Trending` that need no induction.
2. The relay of the pipeline with its retries, and its reload.
3. A composition of a move with an ingest and a prune of the same call.

Runs are few on purpose: a configuration whose finding is recorded above is kept beside
them and gives its place to a question that is open.
