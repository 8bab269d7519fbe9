------------------------------ MODULE Presence ------------------------------
(***************************************************************************)
(* Who is online, as the backend sees it: baby stations that connect, drop *)
(* and come back, the MQTT broker that relays their status messages and    *)
(* publishes their wills, and golang/internal/backendmqtt, whose handlers  *)
(* keep the connection registry, the log of connection events and the      *)
(* reconnect timers.  BabyStationList is the projection of that log.       *)
(*                                                                         *)
(* The paho client calls the handlers one at a time; what runs beside them *)
(* is the timers' goroutines.  The frontend publishes its status at QoS 0  *)
(* (client.publish without options), so such a message may be lost; a will *)
(* has QoS 1 and may be delivered again when its acknowledgement is lost.  *)
(* The event log is the one of module EventLog without its crashes: of it  *)
(* only what its readers compute is kept.                                  *)
(***************************************************************************)
EXTENDS Naturals, Sequences, BabyStationList

CONSTANTS
  WillBeforeReconnect,  \* does the broker publish a lost link's will before it
                        \* lets the same client id connect again?
  MaxConnections,       \* bound: connect_mqtt calls per client
  MaxRequests,          \* bound: connects and reconnects per client
  MaxRetries,           \* bound: reconnects before the first connected status
  MaxRestarts,          \* bound: restarts of the backend
  MaxRedeliveries,      \* bound: wills delivered again
  MaxLosses             \* bound: QoS 0 messages lost on the way

\* A uuid is the client that drew it and how many it had drawn.
Ids(n) == [owner : Clients, number : 1..n]

ASSUME PresenceAssumption ==
  /\ WillBeforeReconnect \in BOOLEAN
  /\ {MaxConnections, MaxRequests, MaxRetries, MaxRestarts, MaxRedeliveries, MaxLosses}
       \subseteq Nat
  /\ Connections = Ids(MaxConnections)
  /\ Sessions = Ids(MaxConnections)
  /\ Requests = Ids(MaxRequests)
  /\ None \notin Connections \cup Sessions
  /\ None \notin [client : Clients, request : Requests]
  /\ None \notin [client : Clients, session : Sessions]
  /\ None \notin [client : Clients, connection : Connections, request : Requests]

VARIABLES
  station,       \* each baby station: its MQTT and session state
  undetected,    \* wills of links the broker does not yet know to be lost
  queue,         \* what the broker has for the backend, in order
  unacknowledged,\* wills handled, their acknowledgement not yet at the broker
  booting,       \* has main still to append server.started?
  handling,      \* what the handler of Head(queue) does next
  byConnection,  \* ConnectionRegistry.connectionByAccountAndID
  byClient,      \* ConnectionRegistry.connectionByAccountClient
  connectedKeys, \* keys of the log's client.connected events
  disconnectedKeys,
  list,          \* BabyStationList.GetSnapshot of the log so far
  timer,         \* ReconnectTimeoutScheduler.timerByClientKey
  expired,       \* goroutines past their wait, not yet in the mutex
  heard,         \* history: the last the handlers heard of each client
  bounds         \* what is used up of the bounds

registry     == <<byConnection, byClient>>
log          == <<connectedKeys, disconnectedKeys, list>>
timers       == <<timer, expired>>
frontendVars == <<station, undetected>>
backendVars  == <<registry, log, timers, heard>>
vars == <<frontendVars, queue, unacknowledged, booting, handling, backendVars, bounds>>

-----------------------------------------------------------------------------

\* An accepted link has its CONNACK on the way, or its filters to subscribe:
\* the connected status is still to come.
Links == {"off", "accepted", "subscribing_after_connected", "connected", "offline"}

\* `running` is SessionRunning; the will carries the first request for ever.
Station == [
  link       : Links,
  connection : 0..MaxConnections,
  request    : 0..MaxRequests,
  will       : 0..MaxRequests,
  running    : BOOLEAN]

Id(c, n) == [owner |-> c, number |-> n]

Connected(c, k, r) ==
  [type |-> "connected", client |-> c, connection |-> k, request |-> r]
CleanDisconnect(c, k, r) ==
  [type |-> "clean", client |-> c, connection |-> k, request |-> r]
Will(c, k, r) ==
  [type |-> "unexpected", client |-> c, connection |-> k, request |-> r]
Announcement(c, k, id) ==
  [type |-> "announcement", client |-> c, connection |-> k, session |-> id]

StatusMessage ==
  [type : {"connected", "clean", "unexpected"}, client : Clients,
   connection : Connections, request : Requests]
Message == StatusMessage \cup
  [type : {"announcement"}, client : Clients, connection : Connections,
   session : Sessions]

ConnectionInfo == [client : Clients, connection : Connections, request : Requests]

InfoOf(m) == [client |-> m.client, connection |-> m.connection, request |-> m.request]

Bounds == [retries : 0..MaxRetries, restarts : 0..MaxRestarts, redeliveries : 0..MaxRedeliveries,
           losses : 0..MaxLosses]

Init ==
  /\ station = [c \in Clients |-> [link |-> "off", connection |-> 0, request |-> 0,
                                   will |-> 0, running |-> FALSE]]
  /\ undetected = {}
  /\ queue = <<>>
  /\ unacknowledged = {}
  /\ booting = FALSE
  /\ handling = "idle"
  /\ byConnection = [k \in Connections |-> None]
  /\ byClient = [c \in Clients |-> None]
  /\ connectedKeys = {}
  /\ disconnectedKeys = {}
  /\ list = EmptySnapshot
  /\ timer = [c \in Clients |-> None]
  /\ expired = {}
  /\ heard = [c \in Clients |-> "nothing"]
  /\ bounds = [retries |-> 0, restarts |-> 0, redeliveries |-> 0, losses |-> 0]

-----------------------------------------------------------------------------
(* The baby station: MQTTService and BabyStation/SessionService.           *)

ConnectionOf(c) == Id(c, station[c].connection)
RequestOf(c)    == Id(c, station[c].request)
WillOf(c)       == Will(c, ConnectionOf(c), Id(c, station[c].will))
\* A session lives on one connect_mqtt: ending it ends the connection.
SessionOf(c)    == Id(c, station[c].connection)

BackendUnchanged == UNCHANGED <<unacknowledged, booting, handling, backendVars, bounds>>

\* The broker lets the client in: before or after the wills it left behind.
Accept(c) == WillBeforeReconnect => \A w \in undetected : w.client # c

\* start_session: connect_mqtt, up to the broker's CONNACK.
Connect(c) ==
  /\ station[c].link = "off"
  /\ Accept(c)
  /\ station[c].connection < MaxConnections
  /\ station[c].request < MaxRequests
  /\ station' = [station EXCEPT ![c].link = "accepted",
                                ![c].connection = @ + 1,
                                ![c].request = @ + 1,
                                ![c].will = station[c].request + 1]
  /\ UNCHANGED <<undetected, queue>> /\ BackendUnchanged

\* Offline and OfflineAndReconnecting: the same connection, a new request.
Reconnect(c) ==
  /\ station[c].link = "offline"
  /\ station[c].running
  /\ station[c].request < MaxRequests
  /\ Accept(c)
  /\ station' = [station EXCEPT ![c].link = "accepted", ![c].request = @ + 1]
  /\ UNCHANGED <<undetected, queue>> /\ BackendUnchanged

\* Connecting, which no status has left yet, keeps its first request.
ConnectAgain(c) ==
  /\ station[c].link = "offline"
  /\ ~station[c].running
  /\ bounds.retries < MaxRetries
  /\ Accept(c)
  /\ bounds' = [bounds EXCEPT !.retries = @ + 1]
  /\ station' = [station EXCEPT ![c].link = "accepted"]
  /\ UNCHANGED <<undetected, queue, unacknowledged, booting, handling, backendVars>>

StatusOf(c) == Connected(c, ConnectionOf(c), RequestOf(c))
AnnouncementOf(c) == Announcement(c, ConnectionOf(c), SessionOf(c))

\* A starting session subscribes once more before it announces itself; a
\* running one announces itself again.  An announcement still queued from
\* before is sent too: the same event twice, the second without effect.
PublishConnected(c) ==
  /\ station[c].link = "accepted"
  /\ IF station[c].running
     THEN /\ station' = [station EXCEPT ![c].link = "connected"]
          /\ queue' = queue \o <<StatusOf(c), AnnouncementOf(c)>>
     ELSE /\ station' = [station EXCEPT ![c].link = "subscribing_after_connected",
                                        ![c].running = TRUE]
          /\ queue' = Append(queue, StatusOf(c))
  /\ UNCHANGED undetected /\ BackendUnchanged

PublishAnnouncement(c) ==
  /\ station[c].link = "subscribing_after_connected"
  /\ station' = [station EXCEPT ![c].link = "connected"]
  /\ queue' = Append(queue, AnnouncementOf(c))
  /\ UNCHANGED undetected /\ BackendUnchanged

LinkUp(c) == station[c].link \notin {"off", "offline"}

\* The link breaks.  Two wills of one connection are equal: undetected at the
\* same time they count as one.
Drop(c) ==
  /\ LinkUp(c)
  /\ station' = [station EXCEPT ![c].link = "offline"]
  /\ undetected' = undetected \cup {WillOf(c)}
  /\ UNCHANGED queue /\ BackendUnchanged

\* What end_session publishes.  Its unsubscribe of the parent stations topic
\* ends the wait for subscriptions when no other filter is pending, and the
\* disconnect then finds the service Connected; else it just ends the client.
Farewells(c) ==
  LET clean == CleanDisconnect(c, ConnectionOf(c), RequestOf(c))
  IN  CASE station[c].link = "connected" -> {<<clean>>}
        [] station[c].link = "subscribing_after_connected" ->
             {<<>>, <<AnnouncementOf(c), clean>>}
        [] station[c].link = "accepted" ->
             {<<>>, <<StatusOf(c), AnnouncementOf(c), clean>>}
        [] station[c].link = "offline" -> {<<>>}

\* end_session, ignored before the session runs.  An MQTT client that is ended
\* while its link is up leaves no will.
Stop(c) ==
  /\ station[c].link # "off"
  /\ station[c].running
  /\ station' = [station EXCEPT ![c].link = "off", ![c].running = FALSE]
  /\ queue' \in {queue \o farewell : farewell \in Farewells(c)}
  /\ UNCHANGED undetected /\ BackendUnchanged

-----------------------------------------------------------------------------
(* The broker.                                                             *)

\* Keep-alive runs out, or the client id connects again.
PublishWill(w) ==
  /\ undetected' = undetected \ {w}
  /\ queue' = Append(queue, w)
  /\ UNCHANGED station /\ BackendUnchanged

\* Mutant of IsQoS1: every status is published with a quality of service.
EveryMessageIsQoS1(m) == TRUE

\* The frontend publishes with no options; the will and the backend ask for 1.
IsQoS1(m) == m.type = "unexpected"

LoseMessage ==
  /\ handling = "idle"
  /\ queue # <<>>
  /\ ~IsQoS1(Head(queue))
  /\ bounds.losses < MaxLosses
  /\ bounds' = [bounds EXCEPT !.losses = @ + 1]
  /\ queue' = Tail(queue)
  /\ UNCHANGED <<frontendVars, unacknowledged, booting, handling, backendVars>>

ReceiveAcknowledgement(w) ==
  /\ unacknowledged' = unacknowledged \ {w}
  /\ UNCHANGED <<frontendVars, queue, handling, backendVars, booting, bounds>>

\* The link to the backend was lost before the acknowledgement got through.
Redeliver(w) ==
  /\ handling = "idle"
  /\ bounds.redeliveries < MaxRedeliveries
  /\ bounds' = [bounds EXCEPT !.redeliveries = @ + 1]
  /\ unacknowledged' = unacknowledged \ {w}
  /\ queue' = <<w>> \o queue
  /\ UNCHANGED <<frontendVars, booting, handling, backendVars>>

-----------------------------------------------------------------------------
(* ConnectionRegistry, Decider and ReconnectTimeoutScheduler.              *)

\* Mutant of RegistryPut: an entry of the first map is never overwritten.
RegistryPutOnce(m) ==
  /\ byConnection' = IF byConnection[m.connection] = None
                     THEN [byConnection EXCEPT ![m.connection] = InfoOf(m)]
                     ELSE byConnection
  /\ byClient' = [byClient EXCEPT ![m.client] = InfoOf(m)]

RegistryPut(m) ==
  /\ byConnection' = [byConnection EXCEPT ![m.connection] = InfoOf(m)]
  /\ byClient' = [byClient EXCEPT ![m.client] = InfoOf(m)]

\* Mutant of Forget: the request is not compared.
ForgetAnyRequest(f, x, r) == [f EXCEPT ![x] = None]

Forget(f, x, r) == IF f[x] # None /\ f[x].request = r THEN [f EXCEPT ![x] = None] ELSE f

RegistryDelete(m) ==
  /\ byConnection' = Forget(byConnection, m.connection, m.request)
  /\ byClient' = Forget(byClient, m.client, m.request)

\* Decider.Put: catching up makes connectedKeySet the keys of the whole log.
DeciderPut(m) ==
  IF InfoOf(m) \in connectedKeys
  THEN UNCHANGED log
  ELSE /\ connectedKeys' = connectedKeys \cup {InfoOf(m)}
       /\ list' = Apply(list, ClientConnected(m.client, m.connection, m.request))
       /\ UNCHANGED disconnectedKeys

DeciderDelete(m) ==
  IF InfoOf(m) \in disconnectedKeys
  THEN UNCHANGED log
  ELSE /\ disconnectedKeys' = disconnectedKeys \cup {InfoOf(m)}
       /\ list' = Apply(list,
                    ClientDisconnected(m.client, m.connection, m.request, m.type))
       /\ UNCHANGED connectedKeys

AppendToLog(e) ==
  /\ list' = Apply(list, e)
  /\ UNCHANGED <<connectedKeys, disconnectedKeys>>

\* Mutant of CancelClient: the entry stays and its goroutine sleeps on.
CancelNothing(c) == UNCHANGED timers

\* A goroutine still asleep ends with its context; one past its wait does not.
CancelClient(c) ==
  /\ timer' = [timer EXCEPT ![c] = None]
  /\ UNCHANGED expired

\* Mutant of Schedule: a disconnect that the registry did not match is ignored.
ScheduleWhenForgotten(m) ==
  /\ timer' = IF byClient[m.client] = None
              THEN [timer EXCEPT ![m.client] = InfoOf(m)] ELSE timer
  /\ UNCHANGED expired

Schedule(m) ==
  /\ timer' = [timer EXCEPT ![m.client] = InfoOf(m)]
  /\ UNCHANGED expired

-----------------------------------------------------------------------------
(* The message handlers.  A message leaves the queue when its handler      *)
(* returns.                                                                *)

HandlerReturns ==
  /\ handling' = "idle"
  /\ queue' = Tail(queue)
  /\ unacknowledged' = IF IsQoS1(Head(queue))
                       THEN unacknowledged \cup {Head(queue)} ELSE unacknowledged

Hear(m) == heard' = [heard EXCEPT ![m.client] = m.type]

Handle(m) ==
  /\ handling = "idle"
  /\ queue # <<>>
  /\ m = Head(queue)

\* handleClientStatusMessage, ClientStatusTypeConnected
ConnectedCancelsTimer ==
  \E m \in Message :
    /\ Handle(m)
    /\ m.type = "connected"
    /\ CancelClient(m.client)
    /\ Hear(m)
    /\ handling' = "put"
    /\ UNCHANGED <<frontendVars, queue, unacknowledged, registry, log, booting, bounds>>

ConnectedIsPut ==
  /\ handling = "put"
  /\ RegistryPut(Head(queue))
  /\ DeciderPut(Head(queue))
  /\ HandlerReturns
  /\ UNCHANGED <<frontendVars, timers, heard, booting, bounds>>

\* handleClientStatusMessage, ClientStatusTypeDisconnected.  ErrDuplicate does
\* not keep the timer from being scheduled.
DisconnectedIsDeleted ==
  \E m \in Message :
    /\ Handle(m)
    /\ m.type \in {"clean", "unexpected"}
    /\ RegistryDelete(m)
    /\ DeciderDelete(m)
    /\ Hear(m)
    /\ IF m.type = "clean"
       THEN HandlerReturns
       ELSE handling' = "schedule" /\ UNCHANGED <<queue, unacknowledged>>
    /\ UNCHANGED <<frontendVars, timers, booting, bounds>>

DisconnectedSchedulesTimer ==
  /\ handling = "schedule"
  /\ Schedule(Head(queue))
  /\ HandlerReturns
  /\ UNCHANGED <<frontendVars, registry, log, heard, booting, bounds>>

\* handleBabyStationAnnouncementMessage
AnnouncementCancelsTimer ==
  \E m \in Message :
    /\ Handle(m)
    /\ m.type = "announcement"
    /\ CancelClient(m.client)
    /\ Hear(m)
    /\ handling' = "append"
    /\ UNCHANGED <<frontendVars, queue, unacknowledged, registry, log, booting, bounds>>

AnnouncementIsAppended ==
  /\ handling = "append"
  /\ AppendToLog(SessionStarted(Head(queue).session, Head(queue).connection))
  /\ HandlerReturns
  /\ UNCHANGED <<frontendVars, registry, timers, heard, booting, bounds>>

-----------------------------------------------------------------------------
(* publishReconnectTimeout: the wait, then the rest under the mutex.       *)

TimerExpires(c) ==
  /\ timer[c] # None
  /\ timer[c] \notin expired
  /\ expired' = expired \cup {timer[c]}
  /\ UNCHANGED <<frontendVars, queue, unacknowledged, handling, registry, log,
                 timer, heard, booting, bounds>>

\* The registered timer need not be the goroutine's own, only carry its ids.
PublishReconnectTimeout(t) ==
  /\ expired' = expired \ {t}
  /\ IF timer[t.client] = t
     THEN /\ timer' = [timer EXCEPT ![t.client] = None]
          /\ AppendToLog(ReconnectTimeout(t.client))
     ELSE UNCHANGED <<timer, log>>
  /\ UNCHANGED <<frontendVars, queue, unacknowledged, handling, registry, heard, booting, bounds>>

-----------------------------------------------------------------------------
(* The backend dies and starts again: all but the log is lost.  Its MQTT   *)
(* session is not clean, so the broker keeps what it has for it; what it   *)
(* drops of QoS 0 meanwhile are LoseMessage steps, and one that was being  *)
(* handled is lost.                                                        *)

Restart ==
  /\ bounds.restarts < MaxRestarts
  /\ bounds' = [bounds EXCEPT !.restarts = @ + 1]
  /\ booting' = TRUE
  /\ handling' = "idle"
  /\ queue' = IF handling # "idle" /\ ~IsQoS1(Head(queue)) THEN Tail(queue) ELSE queue
  /\ byConnection' = [k \in Connections |-> None]
  /\ byClient' = [c \in Clients |-> None]
  /\ timer' = [c \in Clients |-> None]
  /\ expired' = {}
  /\ heard' = [c \in Clients |-> "nothing"]
  /\ UNCHANGED <<frontendVars, unacknowledged, log>>

\* appendServerStartedEvent: main starts the handlers' goroutines before it.
AppendServerStarted ==
  /\ booting
  /\ booting' = FALSE
  /\ AppendToLog(ServerStarted)
  /\ UNCHANGED <<frontendVars, queue, unacknowledged, handling, registry, timers,
                 heard, bounds>>

-----------------------------------------------------------------------------

StationStep(c) ==
  \/ Connect(c) \/ Reconnect(c) \/ ConnectAgain(c) \/ PublishConnected(c) \/ PublishAnnouncement(c)
  \/ Drop(c) \/ Stop(c)

HandlerStep ==
  \/ ConnectedCancelsTimer \/ ConnectedIsPut
  \/ DisconnectedIsDeleted \/ DisconnectedSchedulesTimer
  \/ AnnouncementCancelsTimer \/ AnnouncementIsAppended

DeliverWill == \E w \in undetected : PublishWill(w)
TimerStep ==
  \/ \E c \in Clients : TimerExpires(c)
  \/ \E t \in expired : PublishReconnectTimeout(t)

Next ==
  \/ \E c \in Clients : StationStep(c)
  \/ DeliverWill
  \/ LoseMessage
  \/ \E w \in unacknowledged : ReceiveAcknowledgement(w) \/ Redeliver(w)
  \/ HandlerStep
  \/ TimerStep
  \/ Restart \/ AppendServerStarted

\* The broker notices a lost link in the end, handlers and timers run; a
\* station need not do anything and nothing need be lost.
Fairness ==
  /\ WF_vars(DeliverWill) /\ WF_vars(HandlerStep) /\ WF_vars(TimerStep)
  /\ WF_vars(AppendServerStarted)

Spec == Init /\ [][Next]_vars
FairSpec == Spec /\ Fairness

-----------------------------------------------------------------------------

TypeOK ==
  /\ station \in [Clients -> Station]
  /\ undetected \subseteq StatusMessage
  /\ queue \in Seq(Message)
  /\ unacknowledged \subseteq StatusMessage
  /\ booting \in BOOLEAN
  /\ handling \in {"idle", "put", "schedule", "append"}
  /\ byConnection \in [Connections -> ConnectionInfo \cup {None}]
  /\ byClient \in [Clients -> ConnectionInfo \cup {None}]
  /\ connectedKeys \subseteq ConnectionInfo
  /\ disconnectedKeys \subseteq ConnectionInfo
  /\ list \in Snapshot
  /\ timer \in [Clients -> ConnectionInfo \cup {None}]
  /\ expired \subseteq ConnectionInfo
  /\ heard \in [Clients -> {"nothing", "connected", "announcement", "clean", "unexpected"}]
  /\ bounds \in Bounds

\* Whatever the order of statuses, timeouts and restarts, a client has one
\* entry at most in the list that parent stations are sent.
OneStationPerClient == OneEntryPerClient(list)

\* A timer is armed only while the last the backend heard of the client is a
\* disconnect: connecting and announcing both cancel it, under one mutex.
ArmedOnlyInSilence ==
  \A c \in Clients : timer[c] # None => heard[c] \in {"clean", "unexpected"}

KeyOf(k) == [client |-> list.active[k].client, connection |-> k,
             request |-> list.active[k].request]

\* A connection parents are told of is in the registry under the same
\* request, unless a disconnect of that very request was logged before it
\* connected: the registry forgets it only for a status that names that
\* request, and the first such status is logged.
ListedIsRegistered ==
  ~booting /\ handling # "schedule" =>
    \A k \in Connections :
      list.active[k] # None /\ KeyOf(k) \notin disconnectedKeys
        => byConnection[k] = KeyOf(k)

\* The registry's two maps agree: the client's entry is also the entry of the
\* connection it names.
RegistryMapsAgree ==
  \A c \in Clients : byClient[c] # None =>
    byClient[c].client = c /\ byConnection[byClient[c].connection] = byClient[c]

ListedStation(c) == ConnectionOf(c) \in Listed(list)

\* A station that drops and stays away leaves the list: by the event of its
\* will or, when that will repeats an earlier one and logs nothing, by the
\* reconnect timeout that is scheduled all the same.
GoneStationLeavesList ==
  \A c \in Clients :
    <>[](station[c].link = "offline") => <>[]~ListedStation(c)

\* The broker published the will of a lost link before it let the client back
\* in, delivered it once and lost nothing, and the backend stayed up.
Undisturbed ==
  /\ \A c \in Clients : LinkUp(c) => \A w \in undetected : w.client # c
  /\ bounds.restarts + bounds.redeliveries + bounds.losses = 0

\* A station that stays connected is listed for good, however often its link
\* dropped before: its status and its announcement cancel what the wills armed.
\* It takes an undisturbed system, as nobody announces a station again while
\* its link holds.
OnlineStationIsListed ==
  []Undisturbed =>
    \A c \in Clients :
      <>[](station[c].link = "connected") => <>[]ListedStation(c)

\* mqtt-topics.md, disconnected payload: the backend emits client.disconnected
\* and projections remove the sessions hosted by the connection.  So once the
\* last the backend heard of a station is a disconnect it is not listed.
DisconnectedIsNotListed ==
  handling = "idle" =>
    \A c \in Clients :
      heard[c] \in {"clean", "unexpected"} => ActiveOf(list, c) = {}

=============================================================================
