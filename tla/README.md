# BeddyBytes in TLA+

BeddyBytes is a baby monitor: a device runs a *baby station*, others run *parent
stations*. They meet over an MQTT broker and then talk WebRTC. A Go backend keeps
an event log and projections of it; a TypeScript frontend keeps state machines
over MQTT, authorization, wake locks and peer connections.

This directory models the parts where the order of things matters, checks them
with TLC on small instances, and proves with TLAPS what must hold for any size.

    tlc -workers 2 -config MCEventLog.cfg MCEventLog     # a run
    tlapm EventLogProofs.tla                             # the proofs of a module

Three modules carry the weight of the system and have runs of their own: the event
log, presence, the MQTT service. The other eighteen share no state with each other
and are checked in one run, `services`, one at a time.

## Inventory

| Component | State | Operations | What is hard | What makes it correct |
|---|---|---|---|---|
| **Event log** `golang/internal/eventlog` | `events.jsonl`, `metadata.json`; cursor, `waitC`, cached events; each follower's iterator and channel | Append, start-up, Follow/Next, Project | crash between line and cursor; append between iterator and channel; clock used as index | acknowledged is durable, nothing skipped, nobody sleeps while behind |
| **Connection store** `connectionstore/Decider.go` | keys of connected and disconnected events | Put, Delete (each catches up first) | duplicates after redelivery, reconnect, restart | one event per status that matters |
| **Registry, reconnect timers, status handlers** `backendmqtt` | two maps to the current connection; a timer per client | Put, Delete, Get; Cancel, Schedule, expiry; three message handlers | late statuses with old requests; expiry racing cancellation; QoS, redelivery | the maps agree; timers armed only for clients that are gone |
| **Baby station list** `babystationlist` | four maps per account | apply per event, List | drops and reconnects | one entry per client, online stations listed |
| **HTTP sessions, pending starts** `cmd/backend/sessions.go`, `backendmqtt/State.go` | starts waiting for a connection | StartSession, EndSession, the connected handler | look-up and put are not atomic, nor are announcement and delete | every start is announced |
| **Session list, session store** `sessionlist`, `sessionstore` | sorted sessions, capped disconnected ones | apply per event, List, the projection of HTTP sessions | eviction, late ends, replaced sessions | what is listed was started and not ended |
| **Usage statistics** `cmd/backend/UsageStats.go`, `cmd/analyze-usage-stats` | totals, active and disconnected sessions | apply per event, in three variants | a session that comes back, or replaces another | a session counts once; the variants agree |
| **Accounts, reset tokens** `accounts`, `resetpassword` | accounts by id and email, tokens | register, login, reset, delete, projection | two requests at once; deletion is not logged; replay is fatal on a conflict | the store is what the log says |
| **Authorization** `AuthorizationService`, `tokens` | token and login states per tab, one cookie for all | refresh, retries, login, logout | a retry of a one-use refresh token, two tabs at once | a session survives network faults |
| **HTTP and MQTT authorizer** `cmd/backend`, `cmd/iot-authorizer` | claims, used anonymous tokens, policies | the two token checks, one-use tokens, policy | addresses that change, tabs that change the account | what the frontend does is allowed, what only others may do is not |
| **Legacy websockets** `cmd/backend/Connection.go`, `server.go` | a socket and a channel per client; one route per inbox | messages between clients; announce, keep alive, goodbye | sockets of one client that overlap; sends on closed channels | a client with one socket is served, a gone one is said to be gone |
| **Event stream** `cmd/backend/events.go` | follower and writer goroutines | read, hand over, write, end | whichever ends first | the account's events in order; both end |
| **Frontend MQTT service** `services/MQTTService` | ten states, commands, pending filters, reference counts, subscriptions | connect, publish, subscribe, close, disconnect; client events; callbacks; dispatch | late events of an ended client, callbacks that answer an older call, callbacks that subscribe | nothing lost, reordered, or left waiting |
| **Baby and parent station services** `services/BabyStation`, `services/ParentStation` | sessions, list of stations, joined session | start, end, announcements, snapshot, statuses, join, leave | nested listeners, links lost on either side | a listed station is reachable, the parent follows it |
| **Peer connection** `services/Connection*.ts`, `RTCConnection` | offer/answer state, early candidates | descriptions, candidates, close, reconnect | promises settling after a change, signals of an earlier exchange | the two ends belong together, candidates arrive |
| **Recording** `RecordingService.ts`, track monitor | state, recorder, chunks | start, stop, tracks that come and go | the last chunk comes after the stop | every chunk in the file of its recording |
| **Wake lock** `WakeLockService.ts` | five states, sentinel | lock, unlock, promises | unlock while a request is pending | the sentinel of a request alone is given back |
| **Screen saver** `ScreenSaverService` | canvas, full screen | start, stop, browser events | `fullscreenchange` says only that something changed | the page is given back |
| **Media devices** `MediaDeviceService`, permission service | permission, stream, chosen ids | query, prompt, start, choose | answers in any order | the camera is on only for what is shown |
| **Zoom** `ViewportService`, gestures, renderer | viewport, gesture, renderer's copy | pan, pinch, new frame size | a gesture over a change of camera | the picture lies in the frame and is drawn |
| **Event store** `frontend/src/eventstore` | followers and their queues | put, get_events | put during replay | each event in order, none missed |
| Stores, mailers, logging, UI, deployment | – | – | I/O, or no state of their own | not modelled |

How they interact: frontend services call `MQTTService` and hear of its
`state_changed` events; `MQTTService` publishes statuses and announcements to the
broker and leaves a will there; the broker delivers them, in order per link and at
least once for QoS 1, to the backend's handlers; these cancel timers, update the
registry and append to the event log; projections follow the log; parent stations
are sent what the projection lists.

## Modules

| Module | What it models |
|---|---|
| `EventLog` | `FileEventLog` under `CachingDecorator` under `ThreadSafeDecorator`, and `Project` over `Follow` |
| `BabyStationList` | the projection as a function from snapshot and event to snapshot |
| `Presence` | baby stations, broker, status handlers, `Decider`, `ConnectionRegistry`, `ReconnectTimeoutScheduler`, restarts; EXTENDS `BabyStationList` |
| `MQTTService` | the frontend's connection state machine with its MQTT.js clients |
| `Outbox` | the abstract specification that `MQTTService` implements |
| `Subscriptions` | the dispatch of a message to subscriptions whose callbacks open and close others |
| `Stations` | baby stations and a parent station: sessions, announcements, list, joined session, `ParentStation` |
| `Signalling` | descriptions and candidates of successive peer connections |
| `Recording` | `RecordingService` with session, tracks and the browser's recorder |
| `WakeLock`, `ScreenSaver`, `MediaDevices`, `Zoom` | the services of those names against the browser |
| `Followers` | `FollowingDecorator` over `InMemoryEventStore` |
| `Accounts` | account handlers, reset tokens, projection and store |
| `Authorization` | tabs with one cookie and the refresh token grant |
| `Access` | token checks and MQTT policies against what the frontend asks for |
| `SessionStarts` | HTTP `StartSession` against the connected handler |
| `SessionList` | `SessionList` and the session store over the log |
| `UsageStats` | `UsageStats`, `lowmemory` and `fullstate` side by side |
| `Clients`, `Connections` | the two forms of the websocket API |
| `EventStream` | `GetEvents` |
| `Component`, `MCFrontend`, `MCBackend`, `MCServices` | the eighteen above in one run: in a behaviour one component moves, the others rest in an initial state |
| `MCEventLog`, `MCPresence`, `MCPresenceFaults`, `MCMQTTService` | the other instances TLC checks |
| `EventLogProofs`, `PresenceProofs`, `MQTTServiceProofs` | the proofs about the three modules with runs of their own (`PresenceProofs` holds those about `BabyStationList` too) |
| `ResourceProofs` | about `WakeLock`, `ScreenSaver`, `MediaDevices`, `Access` |
| `DeliveryProofs` | about `Followers`, `Connections`, `EventStream`, `Subscriptions`, `Stations` |
| `BackendProofs` | about `Clients`, `SessionStarts`, `Accounts`, `SessionList`, `UsageStats` |
| `FrontendProofs` | about `Recording`, `Signalling`, `Authorization`, `Zoom` |
| `ServicesProofs` | composes those four: the safety properties of the run `services`, its types among them |

### EventLog

A line of `events.jsonl` is the logical clock it carries, or `TornLine`; an event is
the number of its line. `Append` is five steps, one per effect a crash can fall
between: `WriteEvent`, `SyncEvent`, `TruncateMetadata`, `WriteMetadata`,
`FinishAppend` (which closes `waitC`, appends to the cache and returns). They run
under the mutex, so `FollowOpen`, `FollowWait`, `NextWakes` and `NextReopens` need
`MutexFree`, while `NextEvent` works on the slice a reader already holds. `waitC` is
counted by its closes: a reader sleeps while the number it took is the current one.

`ProcessDies` loses memory and keeps the files. `synced` counts the lines known to be on
disk: `PowerFailure` may also lose any suffix of those after it, which an earlier
process may have left too, and tear the first it loses; it may bring back any earlier
`metadata.json`, or half of one, since nothing ever syncs that file. Start-up is `NewFileEventLog`, which a
`Torn` metadata file makes impossible (`fatal.OnError`), then one `LoadLine` per line.
A torn line is fatal too: `LoadLine` is not enabled on it. A tear is taken to cost
the line more than its newline, and disk errors, which are fatal in the code, are
process deaths.

### BabyStationList

Each Go map is a function to a value or `None`; `Apply` has one operator per
`apply...` method. One account is modelled, as the events of an account touch its
snapshot only. Go's random map order in `deleteSessionsAndConnectionsForClient` does
not show because a client has one entry at most, which is what `ApplyCorrect` proves.

### Presence

A `station` is what a baby station's `SessionService` and `MQTTService` amount to
for those who listen: its link, connection id, request id, the request id its will
holds, and whether its session runs. `PublishConnected` is what goes out when
`MQTTService` gets as far as its connected status; a starting session subscribes once
more before `PublishAnnouncement`. `Stop` is `end_session`: what it publishes depends
on how far the service has come (`Farewells`). Uuids are pairs of their owner and a
number. An announcement still queued when a link drops is sent again with the next
one: the projection does not tell two equal ones apart, so one is modelled.

`queue` is what the broker holds for the backend. A handler is one or two steps
(`handling`), split where a timer's goroutine can come between: first the timer is
cancelled or the registry and log are updated, then the rest; the message leaves the
queue when the handler returns. `connectedKeys` and `disconnectedKeys` are the keys of
the whole log, which is what `Decider.catchUp` makes of its own sets before each
decision. `expired` are goroutines of the scheduler past their wait.

The broker publishes a lost link's will some time after the loss (`undetected`). It
may (`WillBeforeReconnect = FALSE`) let a client back in before it does: nothing in the
repository excludes it. Frontend statuses have QoS 0, so `LoseMessage` may drop them;
wills have QoS 1, so `Redeliver` may repeat one until its acknowledgement got through.
`Restart` loses all but the log and the broker's queue; `booting` is the window in
which handlers already run but `server.started` is not yet appended.

### MQTTService and Outbox

`state` is a record: the state's name and its fields. A method of the service is an
action, with a disjunct per state that answers it; states that ignore or throw change
nothing. `client[n]` is the n-th MQTT.js client: its link, the subscribe calls it
still owes a callback, in order, and the filters asked for on this link. A callback
carries filters only and runs as a microtask in whatever state the service is then in
(`HandleSubscribeCallback`); an ended client still closes late (`HandleClose`).
Listeners of `state_changed` that call back into the service do so as actions of their
own after the step. Subscribe commands in the queue are left out, as
`replay_publish_commands` skips them. So is the resubscription MQTT.js does itself on
reconnect: it asks again for filters of that client, perhaps for one that was closed
while offline, and nothing in the service waits for its answer.

`Outbox` knows open, waiting and sent. `IsOutbox` maps `open` to the states that
accept messages, `waiting` to the commands, `sent` to what was handed to
`client.publish`.

### Services of the frontend

Where a service is a set of state classes (`WakeLock`, `ScreenSaver`), an action is a
class and a disjunct a handler of it that does something; the browser's answers are
disjuncts too, enabled while the promise or event is owed. An answer goes to the state
of the moment it arrives, as in the code. `MediaDevices` numbers the calls of
`getUserMedia`, each pending, open, stopped or rejected; `get_user_media` writes back
the state its caller read, so `overlap` records, for the properties, that two were
unanswered at once. History variables of this kind (`overlap`, `overlapped`, `crossed`,
`missed`, `rejoined`, `late`, `overtaken`, `reasons`, `switched`) only ever weaken a
property to what the code can keep, and the comment of the property says what each
excuses. What is excused is not covered: PROJECT.json lists the hazards behind them as
such, or with the run that shows them.

`Stations` reduces `MQTTService` to its link: what is published goes to whoever is
connected, in order, and is lost to the rest, as with clean sessions at QoS 0. A lost
link leaves a will (`wills`), which the broker sends some time later, perhaps when the
client is back and has announced itself. Baby stations answer an arriving parent, parents keep a list from announcements and
statuses, and `ParentStation` reacts to the list, the link, visibility and the failure
of its connection. Listeners that call each other within one event are one step.
`Signalling` takes one parent and one baby station and numbers connections on either
side; messages carry no number, which is what its properties are about. In `Recording`
a `MediaRecorder` is told to stop, or stops by itself when a track ends, and gives its
last chunk then. `Zoom` treats one axis: fingers become gestures (`GestureHandler`),
gestures move the viewport (`ViewportService`), React's state brings the viewport to
the renderer one step later. `Subscriptions` walks the live map in the order of
insertion; `present` is what was open throughout; a callback that throws ends the
dispatch (`CallbackThrows`). `Followers` splits a put into its two
effects, storing and pushing.

### Services of the backend

`Accounts` splits each handler at its look-ups and appends, and the projection's two
writes of an account; the log survives a process, the store does not.
`Authorization` has tabs that refresh on their own, each with one request under way
that may be lost before or after the backend took it; tokens are numbers. A login may
fail after its cookie is set (`LoginFails`). `Access`
writes a token as its claims, a topic as the tuple of its segments, and takes every
publish and subscribe of the frontend against the policy the authorizer computes.
`SessionList` and `UsageStats` apply each event of a log that only handlers could have
written; the properties then compare the state with the log. `SessionStarts` splits
`StartSession` at its look-up, put and announcement, beside the one MQTT router; a
direct announcement that fails is an error for the caller (`rejected`).
`Clients` and `Connections` number sockets and handlers and give each goroutine its
program counter; a send on a closed channel sets `crashed`. `EventStream` has the
follower's goroutine, the handler that writes, and a client that may go at any time.

## Runs

| Run | Configuration | Checks | Shows |
|---|---|---|---|
| `event_log` | `MCEventLog.cfg` | types, `AcknowledgedIsDurable`, `ReaderNeverSkips`, `LoadedClocksAreDense`, `WokenReaderSleepsOnlyWhenCaughtUp`, `WokenReaderCatchesUp` | the log survives three crashes at any step; followers miss nothing once woken |
| `event_log_clock` | `EventLogClock.cfg` | `ClockIsPosition`, violated | a crash before the cursor is saved makes a clock repeat |
| `event_log_follow` | `EventLogFollow.cfg` | `SleepsOnlyWhenCaughtUp`, violated | `Follow` can miss its first wake-up |
| `presence` | `MCPresence.cfg` | `OneStationPerClient`, `ArmedOnlyInSilence`, `RegistryMapsAgree`, `ListedIsRegistered` | registry, timers, log and list agree under late and repeated wills |
| `presence_faults` | `MCPresenceFaults.cfg` | types, `GoneStationLeavesList`, `OnlineStationIsListed` | with a restart and lost or repeated messages a gone station leaves the list; undisturbed by them, a connected one stays listed |
| `presence_repeated_will` | `PresenceRepeatedWill.cfg` | `DisconnectedIsNotListed`, violated | a second will is taken for a duplicate |
| `mqtt_service` | `MCMQTTService.cfg` | types, `StatusComesFirst`, `IsOutbox`; `StateFollowsLink`, `OnlyCurrentClientIsLive`, `SubscribingWaitsForAnswer`, `FiltersInUseAreAsked`, `PendingSettles` | messages leave once and in order, after the status of their link; the subscription bookkeeping over changing links and clients |
| `mqtt_status` | `MQTTStatus.cfg` | `ConnectedStatusWaitsForSubscribe`, violated | with one client and two filters, a callback settles a later call for the same filter |
| `services` | `MCServices.cfg` | the properties of the eighteen services, below | each through every interleaving of its callers, promises, messages and restarts |
| `stations_late_will` | `StationsLateWill.cfg` | `ListIsConnectable`, violated | the late will of a station that is back takes it off the parent's list |
| `authorization_sleep` | `AuthorizationSleep.cfg` | `OnlySleepSignsOut`, violated | a lost answer to a refresh signs an awake tab out |
| `accounts_replay` | `AccountsReplay.cfg` | `ProjectionNeverFails`, violated | two registrations of one email are both logged, and the log cannot be replayed any more |

In `services` (280 299 distinct states; in brackets, those of each component):

| Property | Of | Says |
|---|---|---|
| `ResourcesAreKnown` | `WakeLock` (392), `ScreenSaver` (49), `MediaDevices` (25 352) | what the browser holds for the page, the service knows and gives back |
| `PeersAgree`, `Connects` | `Signalling` (39 995) | an answer is to its own offer, candidates arrive, an undisturbed connection is made |
| `ListIsTrue`, `FailedIsRetried`, `Follows` | `Stations`, one baby (23 544) and two (30 400) | at rest the list is true, but for a station whose will came after its return; a failed connection is retried; the parent follows its station |
| `ChunksAreDownloaded` | `Recording` (1 536) | no chunk lost or in the wrong file |
| `ViewIsInFrame` | `Zoom`, one camera (4 988) and two (21 689) | the viewport lies in the frame |
| `DeliveryIsComplete` | `Subscriptions` (4 666), `Followers` (307), `EventStream` (1 200) | readers get everything at least once, in order; subscriptions only while no callback throws |
| `StoreIsReplay`, `FailsForReason` | `Accounts` (13 993) | the store is what the log says; the projection fails for two reasons only |
| `SignedOutForReason` | `Authorization` (17 880) | a refresh signs a tab out for three reasons only |
| `AccessIsTrue` | `Access`, one tab (7 709) and two (1 345) | tokens are good once; the policy fits the frontend's topics |
| `SessionListIsTrue` | `SessionList` (6 757) | what is listed is current, what is current is listed |
| `StartIsAnnounced` | `SessionStarts` (51 562) | a start is announced, answered with an error, replaced or still pending, unless a handler overtook it |
| `UsageIsTrue` | `UsageStats` (4 826) | a session counts once, and the three ways agree |
| `SocketsAreServed` | `Clients` (1 591), `Connections` (20 518) | a client with one connection is served |
| `Settles` | seven of them | whatever waits for an answer gets out of waiting |
| `TypeOK` | all | types |

### Disagreements found

1. **`Follow` can lose its first wake-up** (`eventlog/Follow.go:13-19`). The iterator
   is taken before the channel; an event appended between is in neither. `Next` does
   it the right way round (lines 44-45), which `WokenReaderSleepsOnlyWhenCaughtUp`
   and `WokenReaderCatchesUp` show. The reader wakes with the next event, so on a
   busy log this is a delay.
2. **A logical clock may repeat** (`eventlog/FileEventLog.go:56-63`). After it, clocks
   lag behind positions; readers pass clocks as positions, so they are given events
   again (`ReaderNeverSkips`: never fewer), and the next start drops the second event
   with the same clock.
3. **A second will is a duplicate** (`MQTTService/index.ts:245`). The will keeps the
   first request id, so `Decider.Delete` logs the disconnected event only once per
   connection, and the station stays listed until the four-hour timeout that is
   scheduled all the same (`GoneStationLeavesList`).
4. **The connected status may go out before a subscribe is answered**
   (`MQTTService/index.ts:904`), when a filter is closed and opened again while another
   is pending: the callback of the first call settles the second. The run has one client
   and three calls; with several, the late callback of an ended client does the same to
   the next one.
5. **An email can be registered twice** (`accounts/Projection.go:28`).
   `CreateAccount` checks the email in a store that the projection fills later; two
   requests can both pass and both append. The projection is fatal on the second
   event, at every start from then on. Registering an email again after its account
   was deleted does the same, as deletion is not logged.
6. **A late will hides a connected station** (`BabyStationListService/index.ts:103`).
   `mqtt-topics.md:142` has the list represent the stations that are connectable. The
   handler compares no request: the will of a lost link that comes after the station's
   announcement removes it until it announces itself again, and a parent that left it
   cannot join it.
7. **A tab is signed out without any sleep** (`AuthorizationService/index.ts:142`). The
   comment names a long sleep as the only cause. A lost answer is one too: the retry
   sends a token that was used. With other constants TLC finds two more: two tabs that
   refresh at once, and a refresh while the backend replays its log.

Three more definitions state what a comment or a document says and do not hold; no run
is kept for them, but TLC refutes each in seconds as an invariant or property of its
module. `DisconnectedIsUnlisted` (`SessionList`): after `mqtt-topics.md:138`, a goodbye
unlists the sessions of its connection; a session that is announced after a restart, on
a connection from before it, is listed with the request `TODO` (`SessionList.go:182`),
which no goodbye has. `Restores` (`Stations`): after `ParentStation/index.ts:110`, a
link that comes back just after the page was shown again restores the connection of the
joined session; it does not when the session was rejoined meanwhile.
`ZoomedOutShowsFrame` (`Zoom`): after `frontend/README.md:11`, pinching in zooms out to 100 %; the viewport
stays cropped at a scale below 1, as `ViewportService.ts:53` resets it only for
another frame.

Late wills, sign-outs and forgotten connections are excuses of `ListIsTrue`,
`SignedOutForReason` and `SessionListIsTrue`; findings 6 and 7 and
`DisconnectedIsUnlisted` are what they contradict.
The other excuses contradict no text that we know, but are weak spots all the same, which
no property covers: lock, unlock, lock while a wake lock is pending forgets a
sentinel; two unanswered `getUserMedia` calls leave a camera on; an answer of an
earlier exchange is taken by the next connection; a session joined inside the event of
leaving another has nobody listening for its failure; of two sockets of one client the
earlier one removes the later one's entry or route; a tab that was open while another
switched accounts is refused by the policy; a session start that meets the connected
status between look-up and put waits for the next connection, and one put between the
announcement and the delete of another is deleted.

### Bounds

`EventLog`: one follower, as followers do not touch each other; four lines so that a
repeated clock is followed by more events and another start; three crashes so that a
power failure may find what a dead process left unsynced, and a start what both left. `Presence`: one client, as clients share only the
queue and their state is disjoint (the theorems hold for any number; two clients with
one connection each were also explored); two connections, so that an old one's will
meets a new one; three requests, so that there is a reconnect within a connection and
across; one retry, redelivery, loss and restart each. `presence_faults` has a constraint
(`InBounds`): everything may go wrong on two requests, and a station that nothing has
disturbed so far may have the third and the retry. `OnlineStationIsListed` has
`Undisturbed` as its assumption. `MQTTService`: two clients for an old one to close
late, three requests for a reconnect beside the two connects, two filters with two
references for pending sets that shrink and grow, two messages (and `MaxMessages`) to be
queued over a reconnect in order. `mqtt_service` has a constraint too: messages are
published beside at most one subscription of one filter, and the two filters are
subscribed twice where nothing but statuses is published, as what is queued and what is
pending meet only when the last pending filter settles.

`services`: in each component every hazard needs two of something and is there with
two, seldom three: two unanswered requests of the browser, two connections that may
cross, two sessions that replace each other, two tabs, two overlapping sockets, two
registrations in parallel, one restart between any two steps, one kept session so that
the second one evicts it. `Stations` lets links drop with one baby station and takes
two without drops; `Zoom` takes two gestures on one camera or one gesture on each of
two cameras. Larger instances of single modules were explored apart from the run, with
the same result:

| Module | Instance | Distinct states |
|---|---|---|
| `SessionList` | three sessions | 1.85 million |
| `UsageStats` | three sessions, seven units of time | 968 000 |
| `Zoom` | three gestures over two cameras | 5.6 million |
| `Signalling` | three connections of the parent; two candidates and two renewals | 2.1 and 1.5 million |
| `MediaDevices` | four calls of `getUserMedia` | 829 000 |
| `Stations` | three sessions and two drops; two babies, two sessions and a drop | 603 000 and 1.16 million |
| `Connections` | three connections; two clients | 618 000 and 73 000 |
| `Accounts` | four events, two tokens | 133 000 |
| `Authorization` | two losses and two restarts | 134 000 |
| `Access` | two clients, accounts and addresses, three tokens | 125 000 |
| `Subscriptions` | four subscriptions | 185 000 |
| `Clients` | three sockets | 111 000 |
| `SessionStarts` | three connected statuses | 250 000 |
| `EventStream` | six events | 67 000 |
| `Recording` | three sessions, recorders and chunks | 32 000 |
| `ScreenSaver` | five canvases | 727 |

The runs set `CHECK_DEADLOCK FALSE`, where they do, because bounded systems stop at
their bounds (and a torn file stops the log for good).

### Fairness

`EventLog`: goroutines run, an `Append` under way ends, start-up goes on; weak, as each
stays enabled until it is taken. Nobody has to append and crashes need not happen.
`Presence`: the broker's keep-alive finds a lost link (`DeliverWill`), handlers run,
timers expire and publish, `main` appends `server.started`. Stations owe nothing.
`MQTTService`: MQTT.js calls back a subscribe call while its link is up. It need not
keep the link: losing it resets what is pending.
`services`: the browser settles a request for a wake lock, fires the full screen event
it owes, stops a recorder that was told to and runs React's effects; descriptions and
messages under way arrive while the link is up; a refresh is retried until the backend
answers, as `AuthorizationClientHTTP` does without end, and network losses are bounded;
goroutines that can run do. Users, stations, restarts and losses owe nothing. All of it
is weak, as each of these stays enabled until it happens, and each is a disjunction of
the answers to one component, which is less than fairness to each.

## Proofs

For every value of the constants:

- `EventLogProofs`: `TypeCorrect`, `Durability`, `DenseLoading`, `NoGaps`,
  `NoLostWakeUp`. The invariant `IInv` adds to the types: every clock up to one on a
  line, and up to the cursor on disk, is on an earlier line, for the cursor on a synced
  one (`DiskInv`, with `Reached`); how memory and disk differ at each step of Append
  (`AppendInv`); acknowledged lines are synced and whole (`AckInv`); cached clocks equal positions while loading and never
  exceed them after (`CacheInv`); a reader has applied everything up to where it reads
  from (`ReaderInv`). `NoGaps` needs all of them: a reader reopens at a *clock*, and
  skips nothing only because a clock never exceeds the position, which in turn needs the
  cursor never to run ahead of the lines on disk.
- `PresenceProofs`: `ApplyCorrect`, one entry per client is kept by every event of the
  list. `TypeCorrect`, `OneEntry`, `ArmedInSilence`, `RegistryAgrees`, for any number of
  clients and either broker order: `IInv` adds that messages carry connection ids drawn
  by their client, that a handler half-way holds a message of its kind, and that a
  client's registry entry is for a connection of its own; without it two clients could
  overwrite one connection. `ListedRegistered` adds `FreshInv`: a station draws a
  request for each connected status, so a status in the queue is the duplicate neither
  of another nor of a logged one, and registry and log take it together.
- `MQTTServiceProofs`: `TypeCorrect`, `LinkFollowed`, `OneClientLive`, `FiltersAsked`,
  `WaitsAreAnswered`, `StatusLeads`, `ImplementsOutbox`, for any filters and messages.
  `IInv` joins the properties themselves with which fields a state uses (`FieldsInv`:
  nothing is queued in a state that does not queue, so a transition that drops the queue
  drops nothing), that the client of a state is never an ended one (`LinkInv`), and how
  far the state's own request is (`SentInv`: until its status is published nothing
  carries its id, and after that the status is there). The refinement maps the states
  that accept messages to an open outbox, the commands to the waiting messages, and what
  was published, without its ids, to what was sent: settling the last pending filter and
  connecting without filters flush, disconnect and a lost login close, and every other
  step accepts, sends at once or stutters.

The modules of the services first have theorems about their own specifications, then
`ServicesProofs` proves the properties of the run `services` from them.

- `ResourceProofs`. Wake lock, canvas and camera: what the browser holds is what the
  state holds, because nothing else is pending; the invariants count, for each state,
  the unanswered requests it allows while none overlap (at most the one it waits for),
  for the wake lock of every request that was alone (`OneRequestInv`).
  `AccessInv`: a token the backend issued is of one of two kinds, and a tab's token and
  link were granted to it for the account it shows, unless another tab of the browser
  switched account. That a policy allows the topics of its account and no other's rests
  on `MatchIs`, which says segment by segment when a topic matches.
- `DeliveryProofs`. `Followers`: what a follower was given, has still to replay and has
  in its queue are, joined, in order without gaps; the replay ends at what was stored,
  the queue begins at what was not pushed, when it began, and the two overlap rather
  than leave a gap. `Connections`: the route of a client is that of its last handler, so
  that the only one that runs has it. `EventStream`: what was written is a property of
  the event's place in the log. `Subscriptions`: what was open throughout a dispatch and
  is behind its cursor was called. `Stations`: what the parent was told last of a baby,
  on its way or else in the list (`HeardIs`), is the session it runs while it is connected, unless its answer to the
  parent is still to come or its will came late; nothing missed, it is that session or none; the session joined is one whose failure somebody listens
  for (`Sound`), also half-way through an event.
- `BackendProofs`. `Clients`: a socket counts as alone only while no other socket of its
  client is written to, so that a handler that returns removes its own entry or that of
  a socket the property excuses. `SessionStarts`: a start is pending, about to be,
  announced, answered with an error, or replaced by a later one of its connection, and
  who was overtaken takes nobody else's place. `Accounts`:
  `StoppedForReason` for what the projection was fatal on; `StoreReplays`, that what is
  stored or being written is what the log says so far. `SessionList`: what the list
  shows or keeps was started and neither ended nor replaced since, what was started and
  not disturbed is shown, and the shown request is that of the last connected event;
  `InPlace` keeps its maps and slices together. There is a lemma for each operation of
  the list, and a restart of the server, which tracks every active session, is done by
  induction over how many it has tracked. `UsageStats`: `UsageAddsUp`, that a session
  counts once and the three ways to add up durations agree until something is evicted.
  The property compares totals only; `UsageInv` says what each way knows of the sessions
  that began: the slice of disconnected sessions has exactly what its index has
  (`Holds`), a connection has one session at most, active or kept (`Linked`), starts and
  departures are those of the log (`Dated`), and, while nothing was evicted, `fullstate`
  has the active sessions and those away, with the time each was left (`FullKnows`).
  Totals then agree by a few lemmas about sums over sets: of a union, of a set less one,
  of terms that are moved from one set to another.
- `FrontendProofs`. `Recording`: only the last recorder runs, and what it gave is what
  is kept. `Signalling`: what is under way is of the last offer, unless an exchange was
  crossed; a candidate is added, kept for later, or under way behind its description.
  `Authorization`: the cookie is good or the answer that brings the next is under way,
  and no two requests hold one token, unless a reason is on record. `Zoom`: in integers,
  so scales are closed under halving and doubling within their range, frames are
  multiples of 12, and the viewport of either camera and of the renderer lies in its
  frame at every intermediate gesture.
- `ServicesProofs`: in a behaviour of `services` one component moves by its own
  next-state relation and the others keep their variables, so each invariant above holds
  of each instance; the constants of `MCServices` stay parameters where they are bounds.
  `TypeCorrect` joins the types of all of them. Types with tight bounds follow from the
  invariants where a plain type invariant is not inductive, as for `Access` and `Zoom`;
  how many gestures and frames one camera, or two, can take is an invariant of the run
  itself (`CameraBounds`), as the proofs of `Zoom` are about one pair of bounds that
  covers both.

The assumptions are the ASSUMEs of the modules and, where a module is used as an
instance and can have none, named conditions of the theorems, which `ServicesProofs`
discharges: bounds are naturals (one kept session at least: the code's number is a
constant above zero), ids are distinct from `None` or `"none"`, session ids in
`SessionList` and `UsageStats` are positive, `"*"` is no client id. Nothing is assumed of
a state. `ServicesAssumption` has all of it for `services`.

Induction over the naturals is done with a lemma about *sets* of naturals
(`SetInduction`: a set that holds zero and successors holds them all, since otherwise
there is a smallest one that it lacks), as the library's theorem takes an operator. It
carries the few recursive functions, and the library's folds over finite sets, of which
a lemma first shows that one function describes the sum over every subset.

Proof attempts changed the models. `StopReplaced` of `MediaDevices` was a CASE whose
guards overlapped: TLC takes the first that is true, TLA+ any, and the invariant did not
follow. `SelectSeq` and folds over sequences, recursive operators, gave way to functions
and sets in every module with theorems; what a restart tracks of the usage statistics
became a recursive function over the order in which the map is read.

Only model-checked:

- `Settles`, `PendingSettles`, `Connects`, `Follows`, `WokenReaderCatchesUp`,
  `GoneStationLeavesList`, `OnlineStationIsListed`: liveness under fairness, which the
  prover cannot do.

## Not modelled

- Stores, S3, encryption and mail (`store`, `mailer`): one Get and Put, and messages
  that are sent and forgotten; no ordering of theirs is relied on.
- `connectionstoresync`: an older form of `backendmqtt/Sync.go` that nothing imports.
- `GetSnapshot`, `List` and the memory stores reached from several goroutines without
  a mutex: what unsynchronised writers of a Go map leave is undefined, beyond any
  interleaving of the statements, so catching up is one reader's in the models.
- Logging, error and base services: `set_state` and its event dispatch are part of
  the actions; they keep nothing else.
- Routing, cookies, JSON, signatures, hashes, media and the browser's own WebRTC
  negotiation; rendering, styles, the marketing site and deployment.
- `FollowingDecorator` and `InMemoryEventStore` are modelled although only their tests
  import them; the parent station's sound, volume and picture in picture are not.
- The connected handler's look at pending session starts is left out of `Presence` and
  is the subject of `SessionStarts`. The handler of parent station announcements
  changes no state of the backend.

## What is left

1. `Stations` with the backend's list (`Presence`) in place of the broker's answers, so
   that snapshots come from a projection that may lag.
2. `Authorization` and `MQTTService` together: a link that waits for a token while the
   tab is signed out.
3. The projections and memory stores under unsynchronised access, once the code says
   which goroutines may reach them.
