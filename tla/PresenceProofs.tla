--------------------------- MODULE PresenceProofs ---------------------------
(***************************************************************************)
(* What TLAPS shows of Presence for any number of clients and any bounds,  *)
(* whichever way the broker orders a will and a reconnect: types, one list *)
(* entry per client, a registry whose maps agree, and timers that are only *)
(* armed for clients last heard to be gone.                                *)
(***************************************************************************)
EXTENDS Presence, TLAPS, SequenceTheorems

-----------------------------------------------------------------------------
(***************************************************************************)
(* The projection, for any sets of ids and whatever event is applied to    *)
(* whatever snapshot: the shape of the snapshot, and that a client with    *)
(* one entry at most never gets a second.                                  *)
(***************************************************************************)

\* The maps keep their shape when entries go.
LEMMA DeleteSessionsTyped ==
  ASSUME NEW s \in Snapshot, NEW ids
  PROVE  DeleteSessions(s, ids) \in Snapshot
  BY DEF Snapshot, DeleteSessions, Without

\* Deleting sessions takes entries away and moves none.
LEMMA DeleteSessionsShrinks ==
  ASSUME NEW s \in Snapshot, NEW ids, NEW c
  PROVE  /\ ActiveOf(DeleteSessions(s, ids), c) \subseteq ActiveOf(s, c)
         /\ ParkedOf(DeleteSessions(s, ids), c) \subseteq ParkedOf(s, c)
  BY DEF Snapshot, DeleteSessions, Without, ActiveOf, ParkedOf

\* deleteSessionsAndConnectionsForClient leaves nothing of the client and adds
\* nothing to the others.
LEMMA DeleteClientForgets ==
  ASSUME NEW s \in Snapshot, NEW c
  PROVE  /\ DeleteClient(s, c) \in Snapshot
         /\ ActiveOf(DeleteClient(s, c), c) = {}
         /\ ParkedOf(DeleteClient(s, c), c) = {}
         /\ \A d : /\ ActiveOf(DeleteClient(s, c), d) \subseteq ActiveOf(s, d)
                   /\ ParkedOf(DeleteClient(s, c), d) \subseteq ParkedOf(s, d)
<1> DEFINE ids == {s.sessionOn[k] : k \in ActiveOf(s, c)}
                    \cup {s.parked[k].session : k \in ParkedOf(s, c)}
           t == DeleteSessions(s, ids)
           u == [t EXCEPT !.active = Without(@, ActiveOf(s, c)),
                          !.parked = Without(@, ParkedOf(s, c))]
<1>1. DeleteClient(s, c) = u
  BY DEF DeleteClient
<1>2. t \in Snapshot /\ \A d : /\ ActiveOf(t, d) \subseteq ActiveOf(s, d)
                               /\ ParkedOf(t, d) \subseteq ParkedOf(s, d)
  BY DeleteSessionsTyped, DeleteSessionsShrinks
<1> HIDE DEF t
<1>3. u \in Snapshot
      /\ u.active = Without(t.active, ActiveOf(s, c))
      /\ u.parked = Without(t.parked, ParkedOf(s, c))
  BY <1>2 DEF Snapshot, Without
<1> HIDE DEF u
<1>4. \A d : /\ ActiveOf(u, d) \subseteq ActiveOf(t, d) \ ActiveOf(s, c)
             /\ ParkedOf(u, d) \subseteq ParkedOf(t, d) \ ParkedOf(s, c)
  BY <1>2, <1>3 DEF Snapshot, Without, ActiveOf, ParkedOf
<1> QED
  BY <1>1, <1>2, <1>3, <1>4

\* What each type of event carries.
LEMMA EventFields ==
  ASSUME NEW e \in Event
  PROVE  /\ e.type \in {"session.started", "session.ended", "client.connected",
                        "client.disconnected", "client.reconnect_timeout",
                        "server.started"}
         /\ e.type = "session.started" =>
              e.session \in Sessions /\ e.connection \in Connections
         /\ e.type = "client.connected" =>
              /\ e.client \in Clients /\ e.connection \in Connections
              /\ e.request \in Requests
         /\ e.type = "client.disconnected" => e.connection \in Connections
  BY DEF Event, SessionStarted, SessionEnded, ClientConnected, ClientDisconnected,
     ReconnectTimeout, ServerStarted

\* A connection that returns to the session it left takes the parked entry; any
\* other entry of the client is gone before the new one is made.
LEMMA ApplyConnectedCorrect ==
  ASSUME NEW s \in Snapshot, NEW c \in Clients, NEW k \in Connections,
         NEW r \in Requests
  PROVE  /\ ApplyConnected(s, c, k, r) \in Snapshot
         /\ OneEntryPerClient(s) => OneEntryPerClient(ApplyConnected(s, c, k, r))
<1> DEFINE same == s.parked[k] # None /\ s.parked[k].client = c
           t == IF same THEN [s EXCEPT !.parked[k] = None] ELSE DeleteClient(s, c)
           u == [t EXCEPT !.active[k] = [client |-> c, request |-> r]]
<1>1. ApplyConnected(s, c, k, r) = u
  BY DEF ApplyConnected
<1>2. /\ t \in Snapshot
      /\ \A d : ActiveOf(t, d) \subseteq ActiveOf(s, d) /\ ParkedOf(t, d) \subseteq ParkedOf(s, d)
      /\ OneEntryPerClient(s) => ActiveOf(t, c) \cup ParkedOf(t, c) \subseteq {k}
  <2>1. CASE same
    <3>1. t \in Snapshot /\ t.active = s.active /\ t.parked = [s.parked EXCEPT ![k] = None]
      BY <2>1 DEF Snapshot
    <3>2. k \in ParkedOf(s, c)
      BY <2>1 DEF ParkedOf
    <3>3. \A d : ActiveOf(t, d) \subseteq ActiveOf(s, d) /\ ParkedOf(t, d) \subseteq ParkedOf(s, d)
      BY <3>1 DEF Snapshot, ActiveOf, ParkedOf
    <3>4. OneEntryPerClient(s) => ActiveOf(s, c) \cup ParkedOf(s, c) \subseteq {k}
      BY <3>2 DEF OneEntryPerClient
    <3> QED
      BY <3>1, <3>3, <3>4
  <2>2. CASE ~same
    BY <2>2, DeleteClientForgets
  <2> QED
    BY <2>1, <2>2
<1> HIDE DEF t
<1>3. /\ u \in Snapshot /\ u.parked = t.parked
      /\ u.active = [t.active EXCEPT ![k] = [client |-> c, request |-> r]]
  BY <1>2 DEF Snapshot
<1> HIDE DEF u
<1>4. \A d : /\ ParkedOf(u, d) = ParkedOf(t, d)
             /\ ActiveOf(u, d) \subseteq ActiveOf(t, d) \cup {k}
             /\ d # c => ActiveOf(u, d) \subseteq ActiveOf(t, d)
  BY <1>2, <1>3 DEF Snapshot, ActiveOf, ParkedOf
<1>5. ASSUME OneEntryPerClient(s), NEW d \in Clients,
             NEW i \in ActiveOf(u, d) \cup ParkedOf(u, d),
             NEW j \in ActiveOf(u, d) \cup ParkedOf(u, d)
      PROVE  i = j
  <2>1. CASE d = c
    <3>1. i \in {k} /\ j \in {k}
      BY <1>2, <1>4, <1>5, <2>1
    <3> QED
      BY <3>1
  <2>2. CASE d # c
    <3>1. {i, j} \subseteq ActiveOf(s, d) \cup ParkedOf(s, d)
      BY <1>2, <1>4, <1>5, <2>2
    <3> QED
      BY <1>5, <3>1 DEF OneEntryPerClient
  <2> QED
    BY <2>1, <2>2
<1> QED
  BY <1>1, <1>3, <1>5 DEF OneEntryPerClient

\* A disconnect turns at most one entry of a client into its parked entry.
LEMMA ApplyDisconnectedCorrect ==
  ASSUME NEW s \in Snapshot, NEW k \in Connections, NEW r, NEW why
  PROVE  /\ ApplyDisconnected(s, k, r, why) \in Snapshot
         /\ OneEntryPerClient(s) => OneEntryPerClient(ApplyDisconnected(s, k, r, why))
<1> DEFINE id == s.sessionOn[k]
           matches == s.active[k] # None /\ s.active[k].request = r /\ id # None
           t == IF matches /\ why = "clean" THEN DeleteSessions(s, {id})
                ELSE IF matches
                THEN [s EXCEPT !.parked[k] = [client |-> s.active[k].client, session |-> id]]
                ELSE s
           u == [t EXCEPT !.active[k] = None]
<1>1. ApplyDisconnected(s, k, r, why) = u
  BY DEF ApplyDisconnected
<1>2. /\ t \in Snapshot
      /\ \A d : ActiveOf(t, d) \subseteq ActiveOf(s, d)
      /\ \A d : ParkedOf(t, d) \subseteq ActiveOf(s, d) \cup ParkedOf(s, d)
  <2>1. CASE matches /\ why = "clean"
    BY <2>1, DeleteSessionsTyped, DeleteSessionsShrinks
  <2>2. CASE matches /\ why # "clean"
    <3> DEFINE entry == [client |-> s.active[k].client, session |-> id]
    <3>1. s.active[k].client \in Clients /\ id \in Sessions /\ k \in ActiveOf(s, s.active[k].client)
      BY <2>2 DEF Snapshot, ActiveOf
    <3>2. t.parked = [s.parked EXCEPT ![k] = entry] /\ t.active = s.active /\ t \in Snapshot
      BY <2>2, <3>1 DEF Snapshot
    <3> HIDE DEF t
    <3>3. \A d : ParkedOf(t, d) \subseteq ActiveOf(s, d) \cup ParkedOf(s, d)
      BY <3>1, <3>2 DEF Snapshot, ActiveOf, ParkedOf
    <3> QED
      BY <3>2, <3>3 DEF ActiveOf
  <2>3. CASE ~matches
    BY <2>3
  <2> QED
    BY <2>1, <2>2, <2>3
<1> HIDE DEF t
<1>3. u \in Snapshot /\ u.parked = t.parked /\ u.active = [t.active EXCEPT ![k] = None]
  BY <1>2 DEF Snapshot
<1> HIDE DEF u
<1>4. \A d : ActiveOf(u, d) \cup ParkedOf(u, d) \subseteq ActiveOf(s, d) \cup ParkedOf(s, d)
  <2>1. \A d : ActiveOf(u, d) \subseteq ActiveOf(t, d) /\ ParkedOf(u, d) = ParkedOf(t, d)
    BY <1>2, <1>3 DEF Snapshot, ActiveOf, ParkedOf
  <2> QED
    BY <1>2, <2>1
<1> QED
  BY <1>1, <1>3, <1>4 DEF OneEntryPerClient

\* The projection of golang/internal/babystationlist keeps its shape, and a
\* client with one entry at most has one at most after any event: connections
\* come and go in any order, and their ids need not even differ between clients.
THEOREM ApplyCorrect ==
  ASSUME NEW s \in Snapshot, NEW e \in Event
  PROVE  /\ Apply(s, e) \in Snapshot
         /\ OneEntryPerClient(s) => OneEntryPerClient(Apply(s, e))
<1>1. CASE e.type = "session.started"
  <2>1. /\ Apply(s, e) \in Snapshot
        /\ Apply(s, e).active = s.active /\ Apply(s, e).parked = s.parked
    BY <1>1, EventFields DEF Apply, ApplySessionStarted, Snapshot
  <2> QED
    BY <2>1 DEF OneEntryPerClient, ActiveOf, ParkedOf
<1>2. CASE e.type = "session.ended"
  <2>1. Apply(s, e) = DeleteSessions(s, {e.session})
    BY <1>2 DEF Apply
  <2> QED
    BY <2>1, DeleteSessionsTyped, DeleteSessionsShrinks DEF OneEntryPerClient
<1>3. CASE e.type = "client.connected"
  BY <1>3, EventFields, ApplyConnectedCorrect DEF Apply
<1>4. CASE e.type = "client.disconnected"
  BY <1>4, EventFields, ApplyDisconnectedCorrect DEF Apply
<1>5. CASE e.type = "client.reconnect_timeout"
  <2>1. Apply(s, e) = DeleteClient(s, e.client)
    BY <1>5 DEF Apply
  <2> QED
    BY <2>1, DeleteClientForgets DEF OneEntryPerClient
<1>6. CASE e.type = "server.started"
  <2>1. Apply(s, e) = EmptySnapshot
    BY <1>6 DEF Apply
  <2> QED
    BY <2>1 DEF EmptySnapshot, Snapshot, OneEntryPerClient, ActiveOf, ParkedOf
<1> QED
  BY <1>1, <1>2, <1>3, <1>4, <1>5, <1>6, EventFields

\* Which connections an event leaves active: a client.connected activates its
\* own, server.started leaves none, and nothing else activates one.
LEMMA ApplyActive ==
  ASSUME NEW s \in Snapshot, NEW e \in Event
  PROVE  /\ e.type # "client.connected" =>
              \A j \in Connections : Apply(s, e).active[j] \in {None, s.active[j]}
         /\ e.type = "client.connected" =>
              \A j \in Connections :
                IF j = e.connection
                THEN Apply(s, e).active[j] = [client |-> e.client, request |-> e.request]
                ELSE Apply(s, e).active[j] \in {None, s.active[j]}
         /\ e.type = "server.started" => \A j \in Connections : Apply(s, e).active[j] = None
<1>1. \A ids : \A j \in Connections :
        DeleteSessions(s, ids).active[j] \in {None, s.active[j]}
  BY DEF Snapshot, DeleteSessions, Without
<1>2. \A c : \A j \in Connections : DeleteClient(s, c).active[j] \in {None, s.active[j]}
  <2> TAKE c
  <2> DEFINE t == DeleteSessions(s, {s.sessionOn[k] : k \in ActiveOf(s, c)}
                                      \cup {s.parked[k].session : k \in ParkedOf(s, c)})
  <2>1. t \in Snapshot /\ \A j \in Connections : t.active[j] \in {None, s.active[j]}
    BY <1>1, DeleteSessionsTyped
  <2>2. DeleteClient(s, c) = [t EXCEPT !.active = Without(@, ActiveOf(s, c)),
                                       !.parked = Without(@, ParkedOf(s, c))]
    BY DEF DeleteClient
  <2> HIDE DEF t
  <2>3. DeleteClient(s, c).active = Without(t.active, ActiveOf(s, c))
    BY <2>1, <2>2 DEF Snapshot
  <2> QED
    BY <2>1, <2>3 DEF Snapshot, Without
<1>3. CASE e.type = "session.started"
  <2>1. Apply(s, e).active = s.active
    BY <1>3, EventFields DEF Apply, ApplySessionStarted, Snapshot
  <2> QED
    BY <1>3, <2>1
<1>4. CASE e.type = "session.ended"
  BY <1>1, <1>4 DEF Apply
<1>5. CASE e.type = "client.connected"
  <2> DEFINE k == e.connection
             same == s.parked[k] # None /\ s.parked[k].client = e.client
             t == IF same THEN [s EXCEPT !.parked[k] = None] ELSE DeleteClient(s, e.client)
             entry == [client |-> e.client, request |-> e.request]
  <2>1. Apply(s, e) = [t EXCEPT !.active[k] = entry]
    BY <1>5 DEF Apply, ApplyConnected
  <2>2. t \in Snapshot /\ \A j \in Connections : t.active[j] \in {None, s.active[j]}
    <3>1. CASE same
      BY <3>1 DEF Snapshot
    <3>2. CASE ~same
      BY <1>2, <3>2, DeleteClientForgets
    <3> QED
      BY <3>1, <3>2
  <2> HIDE DEF t, entry
  <2>3. Apply(s, e).active = [t.active EXCEPT ![k] = entry]
    BY <2>1, <2>2 DEF Snapshot
  <2>4. \A j \in Connections : Apply(s, e).active[j] = IF j = k THEN entry ELSE t.active[j]
    BY <2>2, <2>3 DEF Snapshot
  <2> QED
    BY <1>5, <2>2, <2>4 DEF entry
<1>6. CASE e.type = "client.disconnected"
  <2> DEFINE k == e.connection
             id == s.sessionOn[k]
             matches == s.active[k] # None /\ s.active[k].request = e.request /\ id # None
             t == IF matches /\ e.reason = "clean" THEN DeleteSessions(s, {id})
                  ELSE IF matches
                  THEN [s EXCEPT !.parked[k] = [client |-> s.active[k].client, session |-> id]]
                  ELSE s
  <2>1. Apply(s, e) = [t EXCEPT !.active[k] = None]
    BY <1>6 DEF Apply, ApplyDisconnected
  <2>2. /\ t.active \in [Connections -> [client : Clients, request : Requests] \cup {None}]
        /\ \A j \in Connections : t.active[j] \in {None, s.active[j]}
        /\ "active" \in DOMAIN t
    <3>1. CASE matches /\ e.reason = "clean"
      <4>1. t = DeleteSessions(s, {id})
        BY <3>1
      <4> HIDE DEF t
      <4> QED
        BY <1>1, <4>1, DeleteSessionsTyped DEF Snapshot
    <3>2. CASE matches /\ e.reason # "clean"
      BY <3>2 DEF Snapshot
    <3>3. CASE ~matches
      BY <3>3 DEF Snapshot
    <3> QED
      BY <3>1, <3>2, <3>3
  <2> HIDE DEF t
  <2>3. Apply(s, e).active = [t.active EXCEPT ![k] = None]
    BY <2>1, <2>2
  <2> QED
    BY <1>6, <2>2, <2>3
<1>7. CASE e.type = "client.reconnect_timeout"
  BY <1>2, <1>7 DEF Apply
<1>8. CASE e.type = "server.started"
  BY <1>8 DEF Apply, EmptySnapshot
<1> QED
  BY <1>3, <1>4, <1>5, <1>6, <1>7, <1>8, EventFields

-----------------------------------------------------------------------------
(***************************************************************************)
(* The registry, its messages and its log                                  *)
(***************************************************************************)

\* Messages as stations send them: a connection id is drawn by its client.
OwnMessage == {m \in Message : m.connection.owner = m.client}
OwnWill    == {m \in OwnMessage : m.type = "unexpected"}

MessagesInv ==
  /\ queue \in Seq(OwnMessage)
  /\ undetected \subseteq OwnWill
  /\ unacknowledged \subseteq OwnWill

\* A station has ids once it has tried to connect.
StationInv ==
  \A c \in Clients : station[c].link # "off" =>
    station[c].connection > 0 /\ station[c].request > 0 /\ station[c].will > 0

\* A handler that is half-way handles the message at the head of the queue.
HandlingInv ==
  /\ handling # "idle" => queue # <<>>
  /\ handling = "put" => Head(queue).type = "connected"
  /\ handling = "append" => Head(queue).type = "announcement"
  /\ handling = "schedule" =>
       Head(queue).type = "unexpected" /\ heard[Head(queue).client] = "unexpected"

RegistryInv ==
  /\ RegistryMapsAgree
  /\ \A c \in Clients : byClient[c] # None => byClient[c].connection.owner = c

IInv ==
  /\ TypeOK /\ MessagesInv /\ StationInv /\ HandlingInv
  /\ RegistryInv /\ ArmedOnlyInSilence /\ OneStationPerClient

-----------------------------------------------------------------------------

\* What the types of messages say of their fields.
LEMMA MessageFields ==
  ASSUME NEW m \in OwnMessage
  PROVE  /\ m \in Message /\ m.client \in Clients /\ m.connection \in Connections
         /\ m.connection.owner = m.client
         /\ m.type \in {"connected", "clean", "unexpected", "announcement"}
         /\ m.type = "announcement" => m.session \in Sessions
         /\ m.type # "announcement" =>
              /\ m \in StatusMessage /\ m.request \in Requests
              /\ InfoOf(m) \in ConnectionInfo
  BY DEF OwnMessage, Message, StatusMessage, InfoOf, ConnectionInfo

\* An entry made from a status carries that status' ids, and is not None.
LEMMA InfoFields ==
  ASSUME NEW m \in OwnMessage
  PROVE  /\ InfoOf(m).client = m.client /\ InfoOf(m).connection = m.connection
         /\ InfoOf(m).request = m.request
         /\ None \notin ConnectionInfo
  BY PresenceAssumption DEF InfoOf, ConnectionInfo

\* A queue of messages from their stations is a queue of messages.
LEMMA OwnQueue ==
  ASSUME NEW q \in Seq(OwnMessage)
  PROVE  q \in Seq(Message)
  BY DEF OwnMessage

\* The events that handlers and timers append are events of the projection.
LEMMA EventsTyped ==
  /\ \A id \in Sessions, k \in Connections : SessionStarted(id, k) \in Event
  /\ \A c \in Clients, k \in Connections, r \in Requests :
       /\ ClientConnected(c, k, r) \in Event
       /\ \A why \in {"clean", "unexpected"} : ClientDisconnected(c, k, r, why) \in Event
  /\ \A c \in Clients : ReconnectTimeout(c) \in Event
  /\ ServerStarted \in Event
  BY DEF Event

\* So whatever is appended, the list keeps its shape and one entry per client.
LEMMA AppendedKeepsList ==
  ASSUME list \in Snapshot, OneStationPerClient, NEW e \in Event, list' = Apply(list, e)
  PROVE  list' \in Snapshot /\ OneStationPerClient'
  BY ApplyCorrect DEF OneStationPerClient

\* Before any station connects.
LEMMA InitIInv == Init => IInv
<1> SUFFICES ASSUME Init PROVE IInv
  OBVIOUS
<1>1. EmptySnapshot \in Snapshot /\ OneEntryPerClient(EmptySnapshot)
  BY DEF EmptySnapshot, Snapshot, OneEntryPerClient, ActiveOf, ParkedOf
<1>2. TypeOK
  <2>1. bounds \in Bounds
    <3>1. /\ 0 \in 0..MaxRetries /\ 0 \in 0..MaxRestarts
          /\ 0 \in 0..MaxRedeliveries /\ 0 \in 0..MaxLosses
      BY PresenceAssumption
    <3>2. bounds = [retries |-> 0, restarts |-> 0, redeliveries |-> 0, losses |-> 0]
      BY DEF Init
    <3> QED
      BY <3>1, <3>2 DEF Bounds
  <2>2. station \in [Clients -> Station]
    <3>1. 0 \in 0..MaxConnections /\ 0 \in 0..MaxRequests
      BY PresenceAssumption
    <3> QED
      BY <3>1 DEF Init, Station, Links
  <2>3. booting \in BOOLEAN
    BY Zenon DEF Init
  <2> QED
    BY <1>1, <2>1, <2>2, <2>3 DEF Init, TypeOK
<1>3. MessagesInv /\ StationInv /\ HandlingInv
  BY DEF Init, MessagesInv, StationInv, HandlingInv
<1>4. RegistryInv /\ ArmedOnlyInSilence /\ OneStationPerClient
  BY <1>1 DEF Init, RegistryInv, RegistryMapsAgree, ArmedOnlyInSilence, OneStationPerClient
<1> QED
  BY <1>2, <1>3, <1>4 DEF IInv

-----------------------------------------------------------------------------
(* Steps outside the backend.                                              *)

\* They leave the backend alone and never change the message it is handling.
LEMMA OutsideIInv ==
  ASSUME IInv, UNCHANGED <<booting, handling, backendVars>>,
         station' \in [Clients -> Station], StationInv', bounds' \in Bounds,
         undetected' \subseteq OwnWill, unacknowledged' \subseteq OwnWill,
         queue' \in Seq(OwnMessage),
         handling # "idle" => queue' # <<>> /\ Head(queue') = Head(queue)
  PROVE  IInv'
<1> USE DEF IInv, backendVars, registry, log, timers
<1>1. queue' \in Seq(Message)
  BY OwnQueue
<1>2. OwnWill \subseteq StatusMessage
  BY MessageFields DEF OwnWill
<1>3. TypeOK'
  BY <1>1, <1>2 DEF TypeOK
<1>4. MessagesInv' /\ HandlingInv'
  BY DEF MessagesInv, HandlingInv
<1>5. RegistryInv' /\ ArmedOnlyInSilence' /\ OneStationPerClient'
  BY DEF RegistryInv, RegistryMapsAgree, ArmedOnlyInSilence, OneStationPerClient
<1> QED
  BY <1>3, <1>4, <1>5

\* Adding messages behind the others.
LEMMA QueueGrows ==
  ASSUME queue \in Seq(OwnMessage), HandlingInv, NEW more \in Seq(OwnMessage)
  PROVE  /\ queue \o more \in Seq(OwnMessage)
         /\ handling # "idle" =>
              queue \o more # <<>> /\ Head(queue \o more) = Head(queue)
<1>1. queue \o more \in Seq(OwnMessage) /\ Len(queue \o more) = Len(queue) + Len(more)
      /\ \A i \in 1..Len(queue) : (queue \o more)[i] = queue[i]
  OBVIOUS
<1>2. ASSUME handling # "idle"
      PROVE  queue \o more # <<>> /\ Head(queue \o more) = Head(queue)
  <2>1. queue # <<>> /\ Len(queue) > 0 /\ 1 \in 1..Len(queue)
    BY <1>2 DEF HandlingInv
  <2> QED
    BY <1>1, <2>1
<1> QED
  BY <1>1, <1>2

\* The messages of a station that has connected are its own.
LEMMA OwnMessages ==
  ASSUME IInv, NEW c \in Clients, station[c].link # "off"
  PROVE  /\ Connected(c, ConnectionOf(c), RequestOf(c)) \in OwnMessage
         /\ CleanDisconnect(c, ConnectionOf(c), RequestOf(c)) \in OwnMessage
         /\ Announcement(c, ConnectionOf(c), SessionOf(c)) \in OwnMessage
         /\ WillOf(c) \in OwnWill
<1>1. /\ station[c].connection \in 1..MaxConnections
      /\ station[c].request \in 1..MaxRequests
      /\ station[c].will \in 1..MaxRequests
  BY PresenceAssumption DEF IInv, TypeOK, StationInv, Station
<1>2. /\ ConnectionOf(c) \in Connections /\ ConnectionOf(c).owner = c
      /\ SessionOf(c) \in Sessions /\ RequestOf(c) \in Requests
      /\ Id(c, station[c].will) \in Requests
  BY <1>1, PresenceAssumption DEF ConnectionOf, SessionOf, RequestOf, Id, Ids
<1> QED
  BY <1>2 DEF OwnMessage, OwnWill, Message, StatusMessage, WillOf, Connected,
     CleanDisconnect, Announcement, Will

\* A station's own steps.
LEMMA StationStepIInv ==
  ASSUME IInv, NEW c \in Clients, StationStep(c)
  PROVE  IInv'
<1>1. /\ station \in [Clients -> Station] /\ StationInv /\ MessagesInv /\ HandlingInv
      /\ bounds \in Bounds
  BY DEF IInv, TypeOK
<1>2. UNCHANGED <<unacknowledged, booting, handling, backendVars>> /\ bounds' \in Bounds
  <2>1. CASE ConnectAgain(c)
    BY <1>1, <2>1, PresenceAssumption DEF ConnectAgain, Bounds
  <2>2. CASE ~ConnectAgain(c)
    BY <1>1, <2>2 DEF StationStep, Connect, Reconnect, PublishConnected,
       PublishAnnouncement, Drop, Stop, BackendUnchanged
  <2> QED
    BY <2>1, <2>2
<1>3. station' \in [Clients -> Station] /\ StationInv'
  <2>1. CASE Connect(c)
    <3>1. station[c].connection + 1 \in 1..MaxConnections
          /\ station[c].request + 1 \in 1..MaxRequests
      BY <1>1, <2>1, PresenceAssumption DEF Connect, Station
    <3> QED
      BY <1>1, <2>1, <3>1, PresenceAssumption DEF Connect, Station, StationInv, Links
  <2>2. CASE Reconnect(c)
    <3>1. station[c].request + 1 \in 1..MaxRequests
      BY <1>1, <2>2, PresenceAssumption DEF Reconnect, Station
    <3> QED
      BY <1>1, <2>2, <3>1, PresenceAssumption DEF Reconnect, Station, StationInv, Links
  <2>3. CASE ConnectAgain(c) \/ PublishConnected(c) \/ PublishAnnouncement(c) \/ Drop(c)
    <3>1. /\ station[c].link # "off" /\ station[c] \in Station
          /\ station[c].connection > 0 /\ station[c].request > 0 /\ station[c].will > 0
      BY <1>1, <2>3 DEF ConnectAgain, PublishConnected, PublishAnnouncement, Drop, LinkUp,
         StationInv
    <3>2. PICK link \in Links, running \in BOOLEAN :
            station' = [station EXCEPT ![c].link = link, ![c].running = running]
      <4>1. CASE PublishConnected(c) /\ ~station[c].running
        BY <4>1 DEF PublishConnected, Links
      <4>2. CASE \/ PublishConnected(c) /\ station[c].running
                 \/ ConnectAgain(c) \/ PublishAnnouncement(c) \/ Drop(c)
        <5>1. PICK link \in Links : station' = [station EXCEPT ![c].link = link]
          BY <4>2 DEF ConnectAgain, PublishConnected, PublishAnnouncement, Drop, Links
        <5>2. station[c].running \in BOOLEAN
          BY <3>1 DEF Station
        <5>3. station' = [station EXCEPT ![c].link = link, ![c].running = station[c].running]
          BY <1>1, <3>1, <5>1, <5>2 DEF Station
        <5> QED
          BY <5>2, <5>3
      <4> QED
        BY <2>3, <4>1, <4>2
    <3> QED
      BY <1>1, <3>1, <3>2 DEF Station, StationInv
  <2>4. CASE Stop(c)
    BY <1>1, <2>4 DEF Stop, Station, StationInv, Links
  <2> QED
    BY <2>1, <2>2, <2>3, <2>4 DEF StationStep
<1>4. undetected' \subseteq OwnWill
  BY <1>1, OwnMessages DEF MessagesInv, StationStep, Connect, Reconnect, ConnectAgain,
     PublishConnected, PublishAnnouncement, Drop, LinkUp, Stop
<1>5. \E more \in Seq(OwnMessage) : queue' = queue \o more
  <2>1. CASE queue' = queue
    <3>1. queue' = queue \o <<>> /\ <<>> \in Seq(OwnMessage)
      BY <1>1, <2>1 DEF MessagesInv
    <3> QED
      BY <3>1
  <2>2. ASSUME NEW m \in OwnMessage, queue' = Append(queue, m)
        PROVE  \E more \in Seq(OwnMessage) : queue' = queue \o more
    <3>1. Append(queue, m) = queue \o <<m>> /\ <<m>> \in Seq(OwnMessage)
      BY <1>1, AppendIsConcat DEF MessagesInv
    <3> QED
      BY <2>2, <3>1
  <2>3. ASSUME NEW m \in OwnMessage, NEW n \in OwnMessage, queue' = queue \o <<m, n>>
        PROVE  \E more \in Seq(OwnMessage) : queue' = queue \o more
    <3>1. <<m, n>> \in Seq(OwnMessage)
      OBVIOUS
    <3> QED
      BY <2>3, <3>1
  <2>4. CASE PublishConnected(c)
    BY <2>2, <2>3, <2>4, OwnMessages DEF PublishConnected, StatusOf, AnnouncementOf
  <2>5. CASE PublishAnnouncement(c)
    BY <2>2, <2>5, OwnMessages DEF PublishAnnouncement, AnnouncementOf
  <2>6. CASE Stop(c)
    <3>1. Farewells(c) \subseteq Seq(OwnMessage)
      <4> DEFINE clean == CleanDisconnect(c, ConnectionOf(c), RequestOf(c))
      <4>1. station[c].link \in Links \ {"off"}
        BY <1>1, <2>6 DEF Stop, Station
      <4>2. clean \in OwnMessage /\ StatusOf(c) \in OwnMessage
            /\ AnnouncementOf(c) \in OwnMessage
        BY <2>6, OwnMessages DEF Stop, StatusOf, AnnouncementOf
      <4> HIDE DEF clean
      <4>3. /\ <<>> \in Seq(OwnMessage) /\ <<clean>> \in Seq(OwnMessage)
            /\ <<AnnouncementOf(c), clean>> \in Seq(OwnMessage)
            /\ <<StatusOf(c), AnnouncementOf(c), clean>> \in Seq(OwnMessage)
        BY <4>2
      <4>4. Farewells(c) \in
              {{<<clean>>}, {<<>>, <<AnnouncementOf(c), clean>>},
               {<<>>, <<StatusOf(c), AnnouncementOf(c), clean>>}, {<<>>}}
        BY <4>1, Zenon DEF Farewells, Links, clean
      <4> QED
        BY <4>3, <4>4
    <3> QED
      BY <2>6, <3>1 DEF Stop
  <2> QED
    BY <2>1, <2>4, <2>5, <2>6 DEF StationStep, Connect, Reconnect, ConnectAgain, Drop
<1>6. queue' \in Seq(OwnMessage)
      /\ (handling # "idle" => queue' # <<>> /\ Head(queue') = Head(queue))
  BY <1>1, <1>5, QueueGrows DEF MessagesInv
<1> QED
  BY <1>1, <1>2, <1>3, <1>4, <1>6, OutsideIInv DEF MessagesInv

\* The broker's own steps.
LEMMA BrokerStepIInv ==
  ASSUME IInv,
         \/ DeliverWill
         \/ LoseMessage
         \/ \E w \in unacknowledged : ReceiveAcknowledgement(w) \/ Redeliver(w)
  PROVE  IInv'
<1>1. /\ station \in [Clients -> Station] /\ StationInv /\ MessagesInv /\ HandlingInv
      /\ bounds \in Bounds
  BY DEF IInv, TypeOK
<1>2. UNCHANGED <<station, booting, handling, backendVars>> /\ StationInv'
  BY <1>1 DEF DeliverWill, PublishWill, LoseMessage, ReceiveAcknowledgement, Redeliver,
     BackendUnchanged, frontendVars, StationInv
<1>3. bounds' \in Bounds
  <2>1. \/ bounds' = bounds
        \/ bounds.losses < MaxLosses /\ bounds' = [bounds EXCEPT !.losses = @ + 1]
        \/ /\ bounds.redeliveries < MaxRedeliveries
           /\ bounds' = [bounds EXCEPT !.redeliveries = @ + 1]
    BY DEF DeliverWill, PublishWill, LoseMessage, ReceiveAcknowledgement, Redeliver,
       BackendUnchanged
  <2> QED
    BY <1>1, <2>1, PresenceAssumption DEF Bounds
<1>4. undetected' \subseteq OwnWill /\ unacknowledged' \subseteq OwnWill
  BY <1>1 DEF DeliverWill, PublishWill, LoseMessage, ReceiveAcknowledgement, Redeliver,
     BackendUnchanged, frontendVars, MessagesInv
<1>5. queue' \in Seq(OwnMessage)
      /\ (handling # "idle" => queue' # <<>> /\ Head(queue') = Head(queue))
  <2>1. CASE DeliverWill
    <3>1. PICK w \in OwnMessage : queue' = Append(queue, w)
      BY <1>1, <2>1 DEF DeliverWill, PublishWill, MessagesInv, OwnWill
    <3>2. Append(queue, w) = queue \o <<w>> /\ <<w>> \in Seq(OwnMessage)
      BY <1>1, AppendIsConcat DEF MessagesInv
    <3> QED
      BY <1>1, <3>1, <3>2, QueueGrows DEF MessagesInv
  <2>2. CASE LoseMessage
    BY <1>1, <2>2, HeadTailProperties DEF LoseMessage, MessagesInv
  <2>3. ASSUME NEW w \in unacknowledged, ReceiveAcknowledgement(w)
        PROVE  queue' = queue
    BY <2>3 DEF ReceiveAcknowledgement
  <2>4. ASSUME NEW w \in unacknowledged, Redeliver(w)
        PROVE  queue' \in Seq(OwnMessage) /\ handling = "idle"
    <3>1. w \in OwnMessage
      BY <1>1 DEF MessagesInv, OwnWill
    <3> QED
      BY <1>1, <2>4, <3>1 DEF Redeliver, MessagesInv
  <2> QED
    BY <1>1, <2>1, <2>2, <2>3, <2>4 DEF MessagesInv, HandlingInv
<1> QED
  BY <1>1, <1>2, <1>3, <1>4, <1>5, OutsideIInv

-----------------------------------------------------------------------------
(* Steps of the handlers, the timers and the process.                      *)

\* When a handler returns, its message leaves the queue; a will waits for its
\* acknowledgement.
LEMMA HandlerReturnsTyped ==
  ASSUME MessagesInv, queue # <<>>, HandlerReturns, undetected' = undetected
  PROVE  MessagesInv' /\ Head(queue) \in OwnMessage
<1>1. Head(queue) \in OwnMessage /\ Tail(queue) \in Seq(OwnMessage)
  BY HeadTailProperties DEF MessagesInv
<1>2. unacknowledged' \subseteq OwnWill
  BY <1>1 DEF MessagesInv, HandlerReturns, IsQoS1, OwnWill
<1> QED
  BY <1>1, <1>2 DEF MessagesInv, HandlerReturns

\* The types that do not depend on what is handled.
LEMMA InsideTyped ==
  ASSUME TypeOK, UNCHANGED frontendVars, booting' \in BOOLEAN, bounds' \in Bounds,
         MessagesInv',
         handling' \in {"idle", "put", "schedule", "append"},
         byConnection' \in [Connections -> ConnectionInfo \cup {None}],
         byClient' \in [Clients -> ConnectionInfo \cup {None}],
         connectedKeys' \subseteq ConnectionInfo,
         disconnectedKeys' \subseteq ConnectionInfo,
         list' \in Snapshot,
         timer' \in [Clients -> ConnectionInfo \cup {None}],
         expired' \subseteq ConnectionInfo,
         heard' \in [Clients -> {"nothing", "connected", "announcement", "clean", "unexpected"}]
  PROVE  TypeOK'
<1>1. queue' \in Seq(Message)
  BY OwnQueue DEF MessagesInv
<1>2. unacknowledged' \subseteq StatusMessage
  BY MessageFields DEF MessagesInv, OwnWill
<1> QED
  BY <1>1, <1>2 DEF TypeOK, frontendVars

\* The two steps of a connected status: the timer goes first, then the registry
\* and the log take the connection.
LEMMA ConnectedIInv ==
  ASSUME IInv, ConnectedCancelsTimer \/ ConnectedIsPut
  PROVE  IInv'
<1> USE DEF IInv, frontendVars
<1>1. CASE ConnectedCancelsTimer
  <2>1. PICK m \in Message : /\ Handle(m) /\ m.type = "connected" /\ CancelClient(m.client)
                             /\ Hear(m) /\ handling' = "put"
    BY <1>1 DEF ConnectedCancelsTimer
  <2>2. UNCHANGED <<frontendVars, queue, unacknowledged, registry, log, booting, bounds>>
    BY <1>1 DEF ConnectedCancelsTimer
  <2>3. m \in OwnMessage /\ m = Head(queue) /\ queue # <<>>
    BY <2>1, HeadTailProperties DEF Handle, MessagesInv
  <2>4. MessagesInv' /\ StationInv'
    BY <2>2 DEF MessagesInv, StationInv
  <2>5. TypeOK'
    BY <2>1, <2>2, <2>4, InsideTyped DEF TypeOK, registry, log, CancelClient, Hear
  <2>6. HandlingInv' /\ RegistryInv' /\ ArmedOnlyInSilence' /\ OneStationPerClient'
    BY <2>1, <2>2, <2>3 DEF HandlingInv, RegistryInv, RegistryMapsAgree,
       ArmedOnlyInSilence, OneStationPerClient, registry, log, CancelClient, Hear, TypeOK
  <2> QED
    BY <2>4, <2>5, <2>6
<1>2. CASE ConnectedIsPut
  <2> DEFINE m == Head(queue)
  <2>1. queue # <<>> /\ m.type = "connected"
    BY <1>2 DEF ConnectedIsPut, HandlingInv
  <2>2. /\ RegistryPut(m) /\ DeciderPut(m) /\ HandlerReturns
        /\ UNCHANGED <<frontendVars, timers, heard, booting, bounds>>
    BY <1>2 DEF ConnectedIsPut
  <2>3. MessagesInv' /\ m \in OwnMessage /\ StationInv'
    BY <2>1, <2>2, HandlerReturnsTyped DEF StationInv
  <2> HIDE DEF m
  <2>4. /\ m.client \in Clients /\ m.connection \in Connections /\ m.request \in Requests
        /\ m.connection.owner = m.client /\ InfoOf(m) \in ConnectionInfo
        /\ InfoOf(m).client = m.client /\ InfoOf(m).connection = m.connection
        /\ InfoOf(m) # None
    BY <2>1, <2>3, MessageFields, InfoFields DEF m
  <2>5. list' \in Snapshot /\ OneStationPerClient'
        /\ connectedKeys' \subseteq ConnectionInfo /\ disconnectedKeys' \subseteq ConnectionInfo
    <3>1. ClientConnected(m.client, m.connection, m.request) \in Event
      BY <2>4, EventsTyped
    <3> QED
      BY <2>2, <2>4, <3>1, AppendedKeepsList DEF DeciderPut, log, TypeOK, OneStationPerClient
  <2>6. /\ byConnection' = [byConnection EXCEPT ![m.connection] = InfoOf(m)]
        /\ byClient' = [byClient EXCEPT ![m.client] = InfoOf(m)]
        /\ handling' = "idle"
    BY <2>2 DEF RegistryPut, HandlerReturns
  <2>7. TypeOK'
    BY <2>2, <2>3, <2>4, <2>5, <2>6, InsideTyped DEF TypeOK, timers
  <2>8. RegistryInv'
    BY <2>4, <2>6 DEF RegistryInv, RegistryMapsAgree, TypeOK
  <2>9. HandlingInv' /\ ArmedOnlyInSilence'
    BY <2>2, <2>6 DEF HandlingInv, ArmedOnlyInSilence, timers
  <2> QED
    BY <2>3, <2>5, <2>7, <2>8, <2>9
<1> QED
  BY <1>1, <1>2

\* The two steps of a disconnected status: the registry and the log let the
\* connection go, and then the timer of an unexpected one is armed.
LEMMA DisconnectedIInv ==
  ASSUME IInv, DisconnectedIsDeleted \/ DisconnectedSchedulesTimer
  PROVE  IInv'
<1> USE DEF IInv, frontendVars
<1>1. CASE DisconnectedIsDeleted
  <2>1. PICK m \in Message :
          /\ Handle(m) /\ m.type \in {"clean", "unexpected"}
          /\ RegistryDelete(m) /\ DeciderDelete(m) /\ Hear(m)
          /\ IF m.type = "clean" THEN HandlerReturns
             ELSE handling' = "schedule" /\ UNCHANGED <<queue, unacknowledged>>
    BY <1>1 DEF DisconnectedIsDeleted
  <2>2. UNCHANGED <<frontendVars, timers, booting, bounds>>
    BY <1>1 DEF DisconnectedIsDeleted
  <2>3. m \in OwnMessage /\ m = Head(queue) /\ queue # <<>>
    BY <2>1, HeadTailProperties DEF Handle, MessagesInv
  <2>4. /\ m.client \in Clients /\ m.connection \in Connections /\ m.request \in Requests
        /\ m.connection.owner = m.client /\ InfoOf(m) \in ConnectionInfo
    BY <2>1, <2>3, MessageFields
  <2>5. MessagesInv' /\ StationInv'
    BY <2>1, <2>2, <2>3, HandlerReturnsTyped DEF MessagesInv, StationInv
  <2>6. list' \in Snapshot /\ OneStationPerClient'
        /\ connectedKeys' \subseteq ConnectionInfo /\ disconnectedKeys' \subseteq ConnectionInfo
    <3>1. ClientDisconnected(m.client, m.connection, m.request, m.type) \in Event
      BY <2>1, <2>4, EventsTyped
    <3> QED
      BY <2>1, <2>4, <3>1, AppendedKeepsList DEF DeciderDelete, log, TypeOK, OneStationPerClient
  <2>7. /\ byConnection' = Forget(byConnection, m.connection, m.request)
        /\ byClient' = Forget(byClient, m.client, m.request)
        /\ heard' = [heard EXCEPT ![m.client] = m.type]
    BY <2>1 DEF RegistryDelete, Hear
  <2>8. TypeOK'
    BY <2>1, <2>2, <2>5, <2>6, <2>7, InsideTyped DEF TypeOK, timers, Forget, HandlerReturns
  <2>9. RegistryInv'
    <3> SUFFICES ASSUME NEW c \in Clients, byClient'[c] # None
                 PROVE  /\ byClient'[c].client = c /\ byClient'[c].connection.owner = c
                        /\ byConnection'[byClient'[c].connection] = byClient'[c]
      BY DEF RegistryInv, RegistryMapsAgree
    <3>1. byClient'[c] = byClient[c] /\ byClient[c] \in ConnectionInfo
          /\ byClient[c].client = c /\ byClient[c].connection.owner = c
          /\ byConnection[byClient[c].connection] = byClient[c]
      BY <2>4, <2>7 DEF Forget, TypeOK, RegistryInv, RegistryMapsAgree
    <3>2. byConnection'[byClient[c].connection] = byConnection[byClient[c].connection]
      <4>1. CASE c = m.client
        BY <2>4, <2>7, <3>1, <4>1, PresenceAssumption DEF Forget, TypeOK, ConnectionInfo
      <4>2. CASE c # m.client
        BY <2>4, <2>7, <3>1, <4>2 DEF Forget, TypeOK, ConnectionInfo
      <4> QED
        BY <4>1, <4>2
    <3> QED
      BY <3>1, <3>2
  <2>10. HandlingInv' /\ ArmedOnlyInSilence'
    BY <2>1, <2>2, <2>3, <2>4, <2>7 DEF HandlingInv, HandlerReturns, ArmedOnlyInSilence,
       timers, TypeOK
  <2> QED
    BY <2>5, <2>6, <2>8, <2>9, <2>10
<1>2. CASE DisconnectedSchedulesTimer
  <2> DEFINE m == Head(queue)
  <2>1. queue # <<>> /\ m.type = "unexpected" /\ heard[m.client] = "unexpected"
    BY <1>2 DEF DisconnectedSchedulesTimer, HandlingInv
  <2>2. /\ Schedule(m) /\ HandlerReturns
        /\ UNCHANGED <<frontendVars, registry, log, heard, booting, bounds>>
    BY <1>2 DEF DisconnectedSchedulesTimer
  <2>3. MessagesInv' /\ m \in OwnMessage /\ StationInv'
    BY <2>1, <2>2, HandlerReturnsTyped DEF StationInv
  <2> HIDE DEF m
  <2>4. m.client \in Clients /\ InfoOf(m) \in ConnectionInfo
    BY <2>1, <2>3, MessageFields
  <2>5. /\ timer' = [timer EXCEPT ![m.client] = InfoOf(m)] /\ expired' = expired
        /\ handling' = "idle"
    BY <2>2 DEF Schedule, HandlerReturns
  <2>6. TypeOK'
    BY <2>2, <2>3, <2>4, <2>5, InsideTyped DEF TypeOK, registry, log
  <2>7. HandlingInv' /\ RegistryInv' /\ ArmedOnlyInSilence' /\ OneStationPerClient'
    BY <2>1, <2>2, <2>5 DEF HandlingInv, RegistryInv, RegistryMapsAgree,
       ArmedOnlyInSilence, OneStationPerClient, registry, log, TypeOK
  <2> QED
    BY <2>3, <2>6, <2>7
<1> QED
  BY <1>1, <1>2

\* The two steps of an announcement: the timer goes, then the session is logged.
LEMMA AnnouncementIInv ==
  ASSUME IInv, AnnouncementCancelsTimer \/ AnnouncementIsAppended
  PROVE  IInv'
<1> USE DEF IInv, frontendVars
<1>1. CASE AnnouncementCancelsTimer
  <2>1. PICK m \in Message :
          /\ Handle(m) /\ m.type = "announcement" /\ CancelClient(m.client)
          /\ Hear(m) /\ handling' = "append"
    BY <1>1 DEF AnnouncementCancelsTimer
  <2>2. UNCHANGED <<frontendVars, queue, unacknowledged, registry, log, booting, bounds>>
    BY <1>1 DEF AnnouncementCancelsTimer
  <2>3. m \in OwnMessage /\ m = Head(queue) /\ queue # <<>>
    BY <2>1, HeadTailProperties DEF Handle, MessagesInv
  <2>4. MessagesInv' /\ StationInv'
    BY <2>2 DEF MessagesInv, StationInv
  <2>5. TypeOK'
    BY <2>1, <2>2, <2>4, InsideTyped DEF TypeOK, registry, log, CancelClient, Hear
  <2>6. HandlingInv' /\ RegistryInv' /\ ArmedOnlyInSilence' /\ OneStationPerClient'
    BY <2>1, <2>2, <2>3 DEF HandlingInv, RegistryInv, RegistryMapsAgree,
       ArmedOnlyInSilence, OneStationPerClient, registry, log, CancelClient, Hear, TypeOK
  <2> QED
    BY <2>4, <2>5, <2>6
<1>2. CASE AnnouncementIsAppended
  <2> DEFINE m == Head(queue)
  <2>1. queue # <<>> /\ m.type = "announcement"
    BY <1>2 DEF AnnouncementIsAppended, HandlingInv
  <2>2. /\ AppendToLog(SessionStarted(m.session, m.connection)) /\ HandlerReturns
        /\ UNCHANGED <<frontendVars, registry, timers, heard, booting, bounds>>
    BY <1>2 DEF AnnouncementIsAppended
  <2>3. MessagesInv' /\ m \in OwnMessage /\ StationInv'
    BY <2>1, <2>2, HandlerReturnsTyped DEF StationInv
  <2> HIDE DEF m
  <2>4. SessionStarted(m.session, m.connection) \in Event
    BY <2>1, <2>3, MessageFields, EventsTyped
  <2>5. list' \in Snapshot /\ OneStationPerClient'
        /\ UNCHANGED <<connectedKeys, disconnectedKeys>>
    BY <2>2, <2>4, AppendedKeepsList DEF AppendToLog, TypeOK
  <2>6. handling' = "idle"
    BY <2>2 DEF HandlerReturns
  <2>7. TypeOK'
    BY <2>2, <2>3, <2>5, <2>6, InsideTyped DEF TypeOK, registry, timers
  <2>8. HandlingInv' /\ RegistryInv' /\ ArmedOnlyInSilence'
    BY <2>2, <2>6 DEF HandlingInv, RegistryInv, RegistryMapsAgree, ArmedOnlyInSilence,
       registry, timers
  <2> QED
    BY <2>3, <2>5, <2>7, <2>8
<1> QED
  BY <1>1, <1>2

\* A timer's goroutine only ever disarms.
LEMMA TimerStepIInv ==
  ASSUME IInv, TimerStep
  PROVE  IInv'
<1> USE DEF IInv, frontendVars
<1>1. ASSUME NEW c \in Clients, TimerExpires(c)
      PROVE  IInv'
  <2>1. MessagesInv' /\ StationInv' /\ expired' \subseteq ConnectionInfo
    BY <1>1 DEF TimerExpires, MessagesInv, StationInv, TypeOK
  <2>2. TypeOK'
    BY <1>1, <2>1, InsideTyped DEF TimerExpires, TypeOK, registry, log
  <2>3. HandlingInv' /\ RegistryInv' /\ ArmedOnlyInSilence' /\ OneStationPerClient'
    BY <1>1 DEF TimerExpires, HandlingInv, RegistryInv, RegistryMapsAgree,
       ArmedOnlyInSilence, OneStationPerClient, registry, log
  <2> QED
    BY <2>1, <2>2, <2>3
<1>2. ASSUME NEW t \in expired, PublishReconnectTimeout(t)
      PROVE  IInv'
  <2>1. t.client \in Clients /\ expired' \subseteq ConnectionInfo
    BY <1>2 DEF TypeOK, ConnectionInfo, PublishReconnectTimeout
  <2>2. UNCHANGED <<frontendVars, queue, unacknowledged, handling, registry, heard, booting, bounds>>
    BY <1>2 DEF PublishReconnectTimeout
  <2>3. /\ timer' \in [Clients -> ConnectionInfo \cup {None}]
        /\ \A c \in Clients : timer'[c] # None => timer[c] # None
    BY <1>2, <2>1 DEF PublishReconnectTimeout, TypeOK
  <2>4. list' \in Snapshot /\ OneStationPerClient'
        /\ UNCHANGED <<connectedKeys, disconnectedKeys>>
    <3>1. ReconnectTimeout(t.client) \in Event
      BY <2>1, EventsTyped
    <3> QED
      BY <1>2, <3>1, AppendedKeepsList DEF PublishReconnectTimeout, AppendToLog, log,
         TypeOK, OneStationPerClient
  <2>5. MessagesInv' /\ StationInv' /\ HandlingInv' /\ RegistryInv' /\ ArmedOnlyInSilence'
    BY <2>2, <2>3 DEF MessagesInv, StationInv, HandlingInv, RegistryInv,
       RegistryMapsAgree, ArmedOnlyInSilence, registry
  <2>6. TypeOK'
    BY <2>1, <2>2, <2>3, <2>4, <2>5, InsideTyped DEF TypeOK, registry
  <2> QED
    BY <2>4, <2>5, <2>6
<1> QED
  BY <1>1, <1>2 DEF TimerStep

\* A restart empties what the backend remembers; of QoS 0 it loses the message
\* it was handling.
LEMMA RestartIInv ==
  ASSUME IInv, Restart
  PROVE  IInv'
<1> USE DEF IInv, Restart, frontendVars
<1>1. bounds' \in Bounds
  <2>1. bounds \in Bounds
    BY DEF TypeOK
  <2>2. bounds.restarts < MaxRestarts /\ bounds' = [bounds EXCEPT !.restarts = @ + 1]
    OBVIOUS
  <2>3. bounds.restarts \in Nat /\ MaxRestarts \in Nat
    BY <2>1, PresenceAssumption DEF Bounds
  <2>4. bounds.restarts + 1 \in 0..MaxRestarts
    BY <2>2, <2>3
  <2> HIDE DEF IInv, Restart
  <2> QED
    BY <2>1, <2>2, <2>4 DEF Bounds
<1>2. queue' \in Seq(OwnMessage)
  BY HeadTailProperties DEF HandlingInv, MessagesInv
<1>3. MessagesInv' /\ StationInv' /\ HandlingInv' /\ RegistryInv' /\ ArmedOnlyInSilence'
      /\ OneStationPerClient'
  BY <1>2 DEF MessagesInv, StationInv, HandlingInv, RegistryInv, RegistryMapsAgree,
     ArmedOnlyInSilence, OneStationPerClient, log
<1>4. TypeOK'
  BY <1>1, <1>3, InsideTyped DEF TypeOK, log
<1> QED
  BY <1>3, <1>4

\* The server.started of a new process empties the list.
LEMMA AppendServerStartedIInv ==
  ASSUME IInv, AppendServerStarted
  PROVE  IInv'
<1> USE DEF IInv, AppendServerStarted, frontendVars, registry, timers
<1>1. list' \in Snapshot /\ OneStationPerClient'
      /\ UNCHANGED <<connectedKeys, disconnectedKeys>>
  BY EventsTyped, AppendedKeepsList DEF AppendToLog, TypeOK
<1>2. MessagesInv' /\ StationInv' /\ HandlingInv' /\ RegistryInv' /\ ArmedOnlyInSilence'
  BY DEF MessagesInv, StationInv, HandlingInv, RegistryInv, RegistryMapsAgree,
     ArmedOnlyInSilence
<1>3. TypeOK'
  BY <1>1, <1>2, InsideTyped DEF TypeOK
<1> QED
  BY <1>1, <1>2, <1>3

-----------------------------------------------------------------------------

\* Every step of stations, broker, handlers, timers and restarts keeps IInv.
LEMMA NextIInv == IInv /\ [Next]_vars => IInv'
<1> SUFFICES ASSUME IInv, [Next]_vars PROVE IInv'
  OBVIOUS
<1>1. CASE UNCHANGED vars
  BY <1>1 DEF vars, frontendVars, backendVars, registry, log, timers, IInv, TypeOK,
     MessagesInv, StationInv, HandlingInv, RegistryInv, RegistryMapsAgree,
     ArmedOnlyInSilence, OneStationPerClient
<1>2. CASE \E c \in Clients : StationStep(c)
  BY <1>2, StationStepIInv
<1>3. CASE \/ DeliverWill \/ LoseMessage
           \/ \E w \in unacknowledged : ReceiveAcknowledgement(w) \/ Redeliver(w)
  BY <1>3, BrokerStepIInv
<1>4. CASE HandlerStep
  BY <1>4, ConnectedIInv, DisconnectedIInv, AnnouncementIInv DEF HandlerStep
<1>5. CASE TimerStep
  BY <1>5, TimerStepIInv
<1>6. CASE Restart \/ AppendServerStarted
  BY <1>6, RestartIInv, AppendServerStartedIInv
<1> QED
  BY <1>1, <1>2, <1>3, <1>4, <1>5, <1>6 DEF Next

\* The inductive invariant is an invariant.
THEOREM Invariance == Spec => []IInv
  BY InitIInv, NextIInv, PTL DEF Spec

\* Every variable keeps to its type.
THEOREM TypeCorrect == Spec => []TypeOK
<1>1. IInv => TypeOK
  BY DEF IInv
<1> QED
  BY <1>1, Invariance, PTL

\* Parents never see a client twice, in whatever order the statuses, timeouts and
\* restarts of any number of clients reach the log.
THEOREM OneEntry == Spec => []OneStationPerClient
<1>1. IInv => OneStationPerClient
  BY DEF IInv
<1> QED
  BY <1>1, Invariance, PTL

\* ReconnectTimeoutScheduler never has a timer for a client whose last message
\* was a sign of life.
THEOREM ArmedInSilence == Spec => []ArmedOnlyInSilence
<1>1. IInv => ArmedOnlyInSilence
  BY DEF IInv
<1> QED
  BY <1>1, Invariance, PTL

\* The two maps of ConnectionRegistry agree, although Delete treats each alone.
THEOREM RegistryAgrees == Spec => []RegistryMapsAgree
<1>1. IInv => RegistryMapsAgree
  BY DEF IInv, RegistryInv
<1> QED
  BY <1>1, Invariance, PTL

-----------------------------------------------------------------------------
(***************************************************************************)
(* What parents are told of is registered.  A station draws a request for  *)
(* each connected status, so that a status in the queue is never the       *)
(* duplicate of a logged one: the registry and the log take it together.   *)
(***************************************************************************)

StatusesOf(q) == {InfoOf(q[i]) : i \in {j \in 1..Len(q) : q[j].type = "connected"}}

\* Two statuses of a queue never carry one request.
Distinct(q) ==
  \A i, j \in 1..Len(q) :
    q[i].type = "connected" /\ q[j].type = "connected" /\ i # j => q[i].request # q[j].request

\* The status of the station's last request is still to come.
Unpublished(c) ==
  \/ station[c].link = "accepted"
  \/ station[c].link = "offline" /\ ~station[c].running

Published(key) ==
  /\ key.connection.owner = key.client /\ key.request.owner = key.client
  /\ key.request.number <= station[key.client].request
  /\ Unpublished(key.client) => key.request.number # station[key.client].request

RunningInv ==
  \A c \in Clients :
    station[c].link \in {"subscribing_after_connected", "connected"} => station[c].running

FreshInv ==
  /\ RunningInv
  /\ \A key \in connectedKeys \cup StatusesOf(queue) : Published(key)
  /\ StatusesOf(queue) \cap connectedKeys = {}
  /\ Distinct(queue)

ListedInv ==
  \A k \in Connections : list.active[k] # None =>
    /\ KeyOf(k) \in connectedKeys
    /\ ~booting /\ KeyOf(k) \notin disconnectedKeys => byConnection[k] = KeyOf(k)

\* What a queue of statuses gains and loses at its ends.
LEMMA StatusAppended ==
  ASSUME NEW q \in Seq(OwnMessage), Distinct(q), NEW m \in OwnMessage,
         m.type = "connected" => \A key \in StatusesOf(q) : key.request # m.request
  PROVE  /\ Append(q, m) \in Seq(OwnMessage)
         /\ StatusesOf(Append(q, m)) \subseteq
              IF m.type = "connected" THEN StatusesOf(q) \cup {InfoOf(m)} ELSE StatusesOf(q)
         /\ Distinct(Append(q, m))
<1> DEFINE p == Append(q, m)
           n == Len(q)
<1>1. /\ p \in Seq(OwnMessage) /\ Len(p) = n + 1 /\ p[n + 1] = m /\ n \in Nat
      /\ \A i \in 1..n : p[i] = q[i]
  OBVIOUS
<1> HIDE DEF p, n
<1>2. \A i \in 1..n + 1 : i \in 1..n \/ i = n + 1
  BY <1>1
<1>3. StatusesOf(p) \subseteq
        IF m.type = "connected" THEN StatusesOf(q) \cup {InfoOf(m)} ELSE StatusesOf(q)
  BY <1>1, <1>2 DEF StatusesOf, n
<1>4. \A i \in 1..n : q[i].type = "connected" /\ m.type = "connected" => q[i].request # m.request
  <2> SUFFICES ASSUME NEW i \in 1..n, q[i].type = "connected", m.type = "connected"
               PROVE  q[i].request # m.request
    OBVIOUS
  <2>1. InfoOf(q[i]) \in StatusesOf(q)
    BY DEF StatusesOf, n
  <2> QED
    BY <2>1 DEF InfoOf
<1>5. Distinct(p)
  <2> SUFFICES ASSUME NEW i \in 1..n + 1, NEW j \in 1..n + 1,
                      p[i].type = "connected", p[j].type = "connected", i # j
               PROVE  p[i].request # p[j].request
    BY <1>1 DEF Distinct
  <2>1. CASE i \in 1..n /\ j \in 1..n
    BY <1>1, <2>1 DEF Distinct, n
  <2>2. CASE i = n + 1 /\ j \in 1..n
    BY <1>1, <1>4, <2>2
  <2>3. CASE i \in 1..n /\ j = n + 1
    BY <1>1, <1>4, <2>3
  <2> QED
    BY <1>2, <2>1, <2>2, <2>3
<1> QED
  BY <1>1, <1>3, <1>5 DEF p

LEMMA StatusTaken ==
  ASSUME NEW q \in Seq(OwnMessage), q # <<>>, Distinct(q)
  PROVE  /\ Head(q) \in OwnMessage /\ Tail(q) \in Seq(OwnMessage)
         /\ StatusesOf(Tail(q)) \subseteq StatusesOf(q)
         /\ Distinct(Tail(q))
         /\ Head(q).type = "connected" =>
              /\ InfoOf(Head(q)) \in StatusesOf(q)
              /\ \A key \in StatusesOf(Tail(q)) : key.request # Head(q).request
<1> DEFINE p == Tail(q)
           n == Len(p)
<1>1. /\ p \in Seq(OwnMessage) /\ Len(q) = n + 1 /\ n \in Nat
      /\ \A i \in 1..n : p[i] = q[i + 1]
      /\ Head(q) = q[1] /\ Head(q) \in OwnMessage
  BY HeadTailProperties
<1> HIDE DEF p, n
<1>2. \A i \in 1..n : i + 1 \in 1..Len(q) /\ i + 1 # 1 /\ 1 \in 1..Len(q)
  BY <1>1
<1>3. 1 \in 1..Len(q)
  BY <1>1
<1>4. StatusesOf(p) \subseteq StatusesOf(q)
  BY <1>1, <1>2 DEF StatusesOf, n
<1>5. Distinct(p)
  <2> SUFFICES ASSUME NEW i \in 1..n, NEW j \in 1..n,
                      p[i].type = "connected", p[j].type = "connected", i # j
               PROVE  p[i].request # p[j].request
    BY DEF Distinct, n
  <2>1. i + 1 # j + 1
    BY <1>1
  <2> QED
    BY <1>1, <1>2, <2>1 DEF Distinct
<1>6. ASSUME Head(q).type = "connected", NEW key \in StatusesOf(p)
      PROVE  key.request # Head(q).request
  <2>1. PICK i \in 1..n : key = InfoOf(p[i]) /\ p[i].type = "connected"
    BY DEF StatusesOf, n
  <2> QED
    BY <1>1, <1>2, <1>6, <2>1 DEF Distinct, InfoOf
<1>7. Head(q).type = "connected" => InfoOf(Head(q)) \in StatusesOf(q)
  BY <1>1, <1>3 DEF StatusesOf
<1> QED
  BY <1>1, <1>4, <1>5, <1>6, <1>7 DEF p

LEMMA WillPrepended ==
  ASSUME NEW q \in Seq(OwnMessage), Distinct(q), NEW w \in OwnMessage, w.type # "connected"
  PROVE  StatusesOf(<<w>> \o q) \subseteq StatusesOf(q) /\ Distinct(<<w>> \o q)
<1> DEFINE p == <<w>> \o q
           n == Len(q)
<1>1. /\ Len(p) = n + 1 /\ n \in Nat /\ p[1] = w /\ \A i \in 1..n + 1 : i # 1 => p[i] = q[i - 1]
  <2>1. /\ p \in Seq(OwnMessage) /\ Len(p) = Len(<<w>>) + n /\ Len(<<w>>) = 1
        /\ \A i \in 1..Len(p) : p[i] = IF i <= 1 THEN <<w>>[i] ELSE q[i - 1]
    OBVIOUS
  <2> QED
    BY <2>1
<1> HIDE DEF p, n
<1>2. \A i \in 1..n + 1 : i # 1 => i - 1 \in 1..n
  BY <1>1
<1>3. StatusesOf(p) \subseteq StatusesOf(q)
  BY <1>1, <1>2 DEF StatusesOf, n
<1>4. Distinct(p)
  <2> SUFFICES ASSUME NEW i \in 1..n + 1, NEW j \in 1..n + 1,
                      p[i].type = "connected", p[j].type = "connected", i # j
               PROVE  p[i].request # p[j].request
    BY <1>1 DEF Distinct
  <2>1. i # 1 /\ j # 1 /\ i - 1 # j - 1
    BY <1>1
  <2> QED
    BY <1>1, <1>2, <2>1 DEF Distinct, n
<1> QED
  BY <1>3, <1>4 DEF p

-----------------------------------------------------------------------------

LEMMA InitListed == Init => FreshInv /\ ListedInv
<1> SUFFICES ASSUME Init PROVE FreshInv /\ ListedInv
  OBVIOUS
<1>1. StatusesOf(queue) = {} /\ Distinct(queue)
  BY DEF Init, StatusesOf, Distinct
<1>2. connectedKeys = {} /\ RunningInv
  BY DEF Init, RunningInv
<1>3. \A k \in Connections : list.active[k] = None
  BY DEF Init, EmptySnapshot
<1> QED
  BY <1>1, <1>2, <1>3 DEF FreshInv, ListedInv

\* A station that publishes a status has never published its request before.
LEMMA RequestIsFresh ==
  ASSUME IInv, FreshInv, NEW c \in Clients, Unpublished(c),
         NEW key \in connectedKeys \cup StatusesOf(queue)
  PROVE  key.request # RequestOf(c) /\ key # InfoOf(StatusOf(c))
<1>1. Published(key)
  BY DEF FreshInv
<1> QED
  BY <1>1 DEF Published, RequestOf, Id, InfoOf, StatusOf, Connected

\* A published status stays so: requests are only drawn, never given back.
LEMMA PublishedStays ==
  ASSUME IInv, FreshInv, NEW c \in Clients, StationStep(c), NEW key \in ConnectionInfo,
         Published(key)
  PROVE  Published(key)'
<1>1. station \in [Clients -> Station]
  BY DEF IInv, TypeOK
<1>2. key.client # c => station'[key.client] = station[key.client]
  <2>1. key.client \in Clients
    BY DEF ConnectionInfo
  <2>2. CASE Connect(c) \/ Reconnect(c) \/ ConnectAgain(c)
    BY <1>1, <2>1, <2>2 DEF Connect, Reconnect, ConnectAgain
  <2>3. CASE PublishConnected(c) \/ PublishAnnouncement(c)
    BY <1>1, <2>1, <2>3 DEF PublishConnected, PublishAnnouncement
  <2>4. CASE Drop(c) \/ Stop(c)
    BY <1>1, <2>1, <2>4 DEF Drop, Stop
  <2> QED
    BY <2>2, <2>3, <2>4 DEF StationStep
<1>3. CASE key.client # c
  BY <1>2, <1>3 DEF Published, Unpublished
<1>4. CASE key.client = c
  <2> DEFINE n == station[c].request
             x == key.request.number
  <2>1. n \in Nat /\ x \in Nat
    BY <1>1, PresenceAssumption DEF Station, ConnectionInfo, Ids
  <2>2. x <= n /\ (Unpublished(c) => x # n)
    BY <1>4 DEF Published
  <2>3. CASE Connect(c) \/ Reconnect(c)
    <3>1. station'[c].request = n + 1
      BY <1>1, <2>3 DEF Connect, Reconnect, Station
    <3> HIDE DEF n, x
    <3>2. x <= n + 1 /\ x # n + 1
      BY <2>1, <2>2
    <3> QED
      BY <1>4, <3>1, <3>2 DEF Published, Unpublished, x
  <2>4. CASE ConnectAgain(c) \/ PublishConnected(c) \/ PublishAnnouncement(c) \/ Drop(c) \/ Stop(c)
    <3>1. station'[c].request = n
      BY <1>1, <2>4 DEF ConnectAgain, PublishConnected, PublishAnnouncement, Drop, Stop, Station
    <3>2. Unpublished(c)' => Unpublished(c)
      <4>1. station[c] \in Station /\ RunningInv
        BY <1>1 DEF FreshInv
      <4>2. CASE Drop(c)
        BY <1>1, <4>1, <4>2 DEF Drop, LinkUp, Unpublished, RunningInv, Station, Links
      <4>3. CASE ConnectAgain(c)
        BY <1>1, <4>3 DEF ConnectAgain, Unpublished
      <4>4. CASE PublishConnected(c)
        BY <1>1, <4>1, <4>4 DEF PublishConnected, Unpublished, Station
      <4>5. CASE PublishAnnouncement(c) \/ Stop(c)
        BY <1>1, <4>1, <4>5 DEF PublishAnnouncement, Stop, Unpublished, Station
      <4> QED
        BY <2>4, <4>2, <4>3, <4>4, <4>5
    <3> QED
      BY <1>4, <2>2, <3>1, <3>2 DEF Published
  <2> QED
    BY <2>3, <2>4 DEF StationStep
<1> QED
  BY <1>3, <1>4

\* What a station's step adds to the queue: at most its status, which is fresh.
LEMMA StationStepQueue ==
  ASSUME IInv, FreshInv, NEW c \in Clients, StationStep(c)
  PROVE  /\ Distinct(queue')
         /\ \/ StatusesOf(queue') \subseteq StatusesOf(queue)
            \/ /\ station[c].link = "accepted"
               /\ ~Unpublished(c)'
               /\ StatusesOf(queue') \subseteq StatusesOf(queue) \cup {InfoOf(StatusOf(c))}
<1> DEFINE s == StatusOf(c)
           a == AnnouncementOf(c)
           g == CleanDisconnect(c, ConnectionOf(c), RequestOf(c))
<1>1. queue \in Seq(OwnMessage) /\ Distinct(queue) /\ station \in [Clients -> Station]
  BY DEF IInv, MessagesInv, FreshInv, TypeOK
<1>2. station[c].link # "off" => s \in OwnMessage /\ a \in OwnMessage /\ g \in OwnMessage
  BY OwnMessages DEF StatusOf, AnnouncementOf
<1>3. s.type = "connected" /\ a.type # "connected" /\ g.type # "connected"
      /\ s.request = RequestOf(c)
  BY DEF StatusOf, AnnouncementOf, Connected, Announcement, CleanDisconnect
<1>4. Unpublished(c) => \A key \in StatusesOf(queue) : key.request # s.request
  BY <1>3, RequestIsFresh
<1> HIDE DEF s, a, g
<1> DEFINE Calm(q) == /\ q \in Seq(OwnMessage) /\ Distinct(q)
                      /\ StatusesOf(q) \subseteq StatusesOf(queue)
           Told(q) == /\ q \in Seq(OwnMessage) /\ Distinct(q)
                      /\ StatusesOf(q) \subseteq StatusesOf(queue) \cup {InfoOf(s)}
<1>5. Calm(queue)
  BY <1>1
<1>6. ASSUME NEW m \in OwnMessage, m.type # "connected", NEW q
      PROVE  (Calm(q) => Calm(Append(q, m))) /\ (Told(q) => Told(Append(q, m)))
  <2>1. ASSUME q \in Seq(OwnMessage), Distinct(q)
        PROVE  /\ Append(q, m) \in Seq(OwnMessage) /\ Distinct(Append(q, m))
               /\ StatusesOf(Append(q, m)) \subseteq StatusesOf(q)
    BY <1>6, <2>1, StatusAppended
  <2> QED
    BY <2>1
<1>7. station[c].link = "accepted" => Told(Append(queue, s))
  BY <1>1, <1>2, <1>3, <1>4, StatusAppended DEF Unpublished
<1>8. /\ queue \o <<>> = queue
      /\ \A m1, m2 \in OwnMessage :
           /\ queue \o <<m1>> = Append(queue, m1)
           /\ queue \o <<m1, m2>> = Append(Append(queue, m1), m2)
           /\ \A m3 \in OwnMessage :
                queue \o <<m1, m2, m3>> = Append(Append(Append(queue, m1), m2), m3)
  BY <1>1
<1> HIDE DEF Calm, Told
<1>9. CASE queue' = queue
  BY <1>5, <1>9 DEF Calm
<1>10. CASE PublishConnected(c)
  <2>1. queue' \in {Append(queue, s), queue \o <<s, a>>} /\ station[c].link = "accepted"
    BY <1>10 DEF PublishConnected, s, a
  <2>2. Told(queue')
    <3>1. s \in OwnMessage /\ a \in OwnMessage
      BY <1>2, <2>1
    <3>2. Told(Append(queue, s)) /\ Told(Append(Append(queue, s), a))
      BY <1>3, <1>6, <1>7, <2>1, <3>1
    <3> QED
      BY <1>8, <2>1, <3>1, <3>2
  <2>3. ~Unpublished(c)'
    <3>1. station'[c].link \in {"connected", "subscribing_after_connected"}
      BY <1>1, <1>10 DEF PublishConnected, Station
    <3> QED
      BY <3>1 DEF Unpublished
  <2> QED
    BY <2>1, <2>2, <2>3 DEF Told, s
<1>11. CASE PublishAnnouncement(c)
  <2>1. queue' = Append(queue, a) /\ station[c].link # "off"
    BY <1>11 DEF PublishAnnouncement, a
  <2> QED
    BY <1>2, <1>3, <1>5, <1>6, <2>1 DEF Calm
<1>12. CASE Stop(c)
  <2>1. station[c].link \in Links \ {"off"}
    BY <1>1, <1>12 DEF Stop, Station
  <2>2. ~Unpublished(c)'
    BY <1>1, <1>12 DEF Stop, Unpublished
  <2>3. CASE station[c].link = "connected"
    <3>1. queue' = queue \o <<g>>
      BY <1>12, <2>3 DEF Stop, Farewells, g
    <3>2. g \in OwnMessage
      BY <1>2, <2>1
    <3>3. Calm(Append(queue, g))
      BY <1>3, <1>5, <1>6, <3>2
    <3> QED
      BY <1>8, <3>1, <3>2, <3>3 DEF Calm
  <2>4. CASE station[c].link = "subscribing_after_connected"
    <3>1. queue' \in {queue \o <<>>, queue \o <<a, g>>}
      BY <1>12, <2>4 DEF Stop, Farewells, g, a
    <3>2. Calm(queue')
      <4>1. a \in OwnMessage /\ g \in OwnMessage
        BY <1>2, <2>1
      <4>2. Calm(Append(queue, a))
        BY <1>3, <1>5, <1>6, <4>1
      <4>3. Calm(Append(Append(queue, a), g))
        BY <1>3, <1>6, <4>1, <4>2
      <4> QED
        BY <1>5, <1>8, <3>1, <4>1, <4>3
    <3> QED
      BY <3>2 DEF Calm
  <2>5. CASE station[c].link = "offline"
    <3>1. queue' = queue \o <<>>
      BY <1>12, <2>5 DEF Stop, Farewells
    <3> QED
      BY <1>5, <1>1, <3>1 DEF Calm
  <2>6. CASE station[c].link = "accepted"
    <3>1. queue' \in {queue \o <<>>, queue \o <<s, a, g>>}
      BY <1>12, <2>6 DEF Stop, Farewells, g, a, s
    <3>2. Told(queue \o <<s, a, g>>)
      <4>1. s \in OwnMessage /\ a \in OwnMessage /\ g \in OwnMessage
        BY <1>2, <2>1
      <4>2. Told(Append(Append(queue, s), a))
        BY <1>3, <1>6, <1>7, <2>6, <4>1
      <4>3. Told(Append(Append(Append(queue, s), a), g))
        BY <1>3, <1>6, <4>1, <4>2
      <4> QED
        BY <1>8, <4>1, <4>3
    <3>3. CASE queue' = queue
      BY <1>5, <3>3 DEF Calm
    <3>4. CASE queue' = queue \o <<s, a, g>>
      BY <2>2, <2>6, <3>2, <3>4 DEF Told, s
    <3> QED
      BY <1>8, <3>1, <3>3, <3>4
  <2> QED
    BY <2>1, <2>3, <2>4, <2>5, <2>6 DEF Links
<1> QED
  BY <1>9, <1>10, <1>11, <1>12 DEF StationStep, Connect, Reconnect, ConnectAgain, Drop

\* A station's steps leave what the backend has alone.
LEMMA StationStepListed ==
  ASSUME IInv, FreshInv, ListedInv, NEW c \in Clients, StationStep(c)
  PROVE  FreshInv' /\ ListedInv'
<1>1. /\ station \in [Clients -> Station] /\ connectedKeys \subseteq ConnectionInfo
      /\ queue \in Seq(OwnMessage) /\ RunningInv
  BY DEF IInv, TypeOK, MessagesInv, FreshInv
<1>2. UNCHANGED <<booting, byConnection, connectedKeys, disconnectedKeys, list>>
  BY DEF StationStep, Connect, Reconnect, ConnectAgain, PublishConnected, PublishAnnouncement,
     Drop, Stop, BackendUnchanged, backendVars, registry, log
<1>3. StatusesOf(queue) \subseteq ConnectionInfo
  BY <1>1, MessageFields DEF StatusesOf
<1>4. \A key \in connectedKeys \cup StatusesOf(queue) : Published(key) /\ Published(key)'
  BY <1>1, <1>3, PublishedStays DEF FreshInv
<1>5. RunningInv'
  <2> SUFFICES ASSUME NEW d \in Clients,
                      station'[d].link \in {"subscribing_after_connected", "connected"}
               PROVE  station'[d].running
    BY DEF RunningInv
  <2>1. CASE Connect(c) \/ Reconnect(c) \/ ConnectAgain(c)
    <3>1. station'[c].link = "accepted"
      BY <1>1, <2>1 DEF Connect, Reconnect, ConnectAgain, Station
    <3>2. d # c => station'[d] = station[d]
      BY <1>1, <2>1 DEF Connect, Reconnect, ConnectAgain
    <3> QED
      BY <1>1, <3>1, <3>2 DEF RunningInv
  <2>2. CASE PublishConnected(c)
    BY <1>1, <2>2 DEF PublishConnected, RunningInv, Station
  <2>3. CASE PublishAnnouncement(c)
    BY <1>1, <2>3 DEF PublishAnnouncement, RunningInv, Station
  <2>4. CASE Drop(c) \/ Stop(c)
    BY <1>1, <2>4 DEF Drop, Stop, RunningInv, Station
  <2> QED
    BY <2>1, <2>2, <2>3, <2>4 DEF StationStep
<1>6. FreshInv'
  <2>1. CASE StatusesOf(queue') \subseteq StatusesOf(queue)
    BY <1>2, <1>4, <1>5, <2>1, StationStepQueue DEF FreshInv
  <2>2. CASE /\ station[c].link = "accepted" /\ ~Unpublished(c)'
             /\ StatusesOf(queue') \subseteq StatusesOf(queue) \cup {InfoOf(StatusOf(c))}
    <3>0. PICK key : key = InfoOf(StatusOf(c))
      OBVIOUS
    <3>1. Unpublished(c)
      BY <2>2 DEF Unpublished
    <3>2. key \notin connectedKeys
      BY <3>0, <3>1, RequestIsFresh
    <3>3. /\ key.client = c /\ key.connection.owner = c
          /\ key.request.owner = c /\ key.request.number = station[c].request
      BY <3>0 DEF InfoOf, StatusOf, Connected, RequestOf, ConnectionOf, Id
    <3>4. station'[c].request = station[c].request /\ station[c].request \in Nat
      <4>1. PublishConnected(c) \/ Drop(c) \/ Stop(c)
        BY <2>2, Zenon DEF StationStep, Connect, Reconnect, ConnectAgain, PublishAnnouncement
      <4>2. station[c].request \in Nat
        BY <1>1, PresenceAssumption DEF Station
      <4> QED
        BY <1>1, <4>1, <4>2 DEF PublishConnected, Drop, Stop, Station
    <3>5. Published(key)'
      <4>1. /\ key.connection.owner = key.client /\ key.request.owner = key.client
            /\ key.request.number <= station'[key.client].request
        BY <3>3, <3>4
      <4>2. ~Unpublished(key.client)'
        BY <2>2, <3>3 DEF Unpublished
      <4> QED
        BY <4>1, <4>2 DEF Published, Unpublished
    <3>6. StatusesOf(queue') \cap connectedKeys = {}
      BY <2>2, <3>0, <3>2 DEF FreshInv
    <3>7. \A x \in connectedKeys' \cup StatusesOf(queue') : Published(x)'
      <4>1. connectedKeys' \cup StatusesOf(queue')
              \subseteq connectedKeys \cup StatusesOf(queue) \cup {key}
        BY <1>2, <2>2, <3>0
      <4> QED
        BY <1>4, <3>5, <4>1 DEF Published, Unpublished
    <3> QED
      BY <1>2, <1>5, <3>6, <3>7, StationStepQueue DEF FreshInv
  <2> QED
    BY <2>1, <2>2, StationStepQueue
<1>7. ListedInv'
  BY <1>2 DEF ListedInv, KeyOf
<1> QED
  BY <1>6, <1>7

\* What the broker, the handlers and the process do leaves the stations alone.
LEMMA QueueShrinks ==
  ASSUME FreshInv, UNCHANGED <<station, connectedKeys>>,
         StatusesOf(queue') \subseteq StatusesOf(queue), Distinct(queue')
  PROVE  FreshInv'
  BY DEF FreshInv, RunningInv, Published, Unpublished

\* The broker's steps add no status, and keep the others.
LEMMA BrokerStepListed ==
  ASSUME IInv, FreshInv, ListedInv,
         \/ DeliverWill
         \/ LoseMessage
         \/ \E w \in unacknowledged : ReceiveAcknowledgement(w) \/ Redeliver(w)
  PROVE  FreshInv' /\ ListedInv'
<1>1. queue \in Seq(OwnMessage) /\ Distinct(queue)
      /\ undetected \subseteq OwnWill /\ unacknowledged \subseteq OwnWill
  BY DEF IInv, MessagesInv, FreshInv
<1>2. UNCHANGED <<station, booting, byConnection, connectedKeys, disconnectedKeys, list>>
  BY DEF DeliverWill, PublishWill, LoseMessage, ReceiveAcknowledgement, Redeliver,
     BackendUnchanged, frontendVars, backendVars, registry, log
<1>3. StatusesOf(queue') \subseteq StatusesOf(queue) /\ Distinct(queue')
  <2>1. CASE DeliverWill
    <3>1. PICK w \in OwnWill : queue' = Append(queue, w)
      BY <1>1, <2>1 DEF DeliverWill, PublishWill
    <3> QED
      BY <1>1, <3>1, StatusAppended DEF OwnWill
  <2>2. CASE LoseMessage
    BY <1>1, <2>2, StatusTaken DEF LoseMessage
  <2>3. CASE \E w \in unacknowledged : ReceiveAcknowledgement(w) \/ Redeliver(w)
    <3>1. PICK w \in OwnWill : queue' = queue \/ queue' = <<w>> \o queue
      BY <1>1, <2>3 DEF ReceiveAcknowledgement, Redeliver
    <3> QED
      BY <1>1, <3>1, WillPrepended DEF OwnWill
  <2> QED
    BY <2>1, <2>2, <2>3
<1>4. ListedInv'
  BY <1>2 DEF ListedInv, KeyOf
<1> QED
  BY <1>2, <1>3, <1>4, QueueShrinks

\* An event that is not a connected status only takes connections off the list.
LEMMA ListShrinks ==
  ASSUME ListedInv, list \in Snapshot, booting' = booting, byConnection' = byConnection,
         connectedKeys' = connectedKeys, disconnectedKeys \subseteq disconnectedKeys',
         \A k \in Connections : list'.active[k] \in {None, list.active[k]}
  PROVE  ListedInv'
  BY DEF ListedInv, KeyOf

\* A connected status enters the registry and the log in one step, under a key
\* that neither has had.
LEMMA ConnectedIsPutListed ==
  ASSUME IInv, FreshInv, ListedInv, ConnectedIsPut
  PROVE  FreshInv' /\ ListedInv'
<1> DEFINE m == Head(queue)
<1>1. /\ queue \in Seq(OwnMessage) /\ Distinct(queue) /\ queue # <<>> /\ m.type = "connected"
      /\ byConnection \in [Connections -> ConnectionInfo \cup {None}] /\ list \in Snapshot
  BY DEF IInv, MessagesInv, FreshInv, HandlingInv, ConnectedIsPut, TypeOK
<1>2. /\ RegistryPut(m) /\ DeciderPut(m) /\ queue' = Tail(queue)
      /\ UNCHANGED <<station, booting>>
  BY DEF ConnectedIsPut, HandlerReturns, frontendVars
<1>3. /\ m \in OwnMessage /\ InfoOf(m) \in StatusesOf(queue)
      /\ StatusesOf(queue') \subseteq StatusesOf(queue) /\ Distinct(queue')
      /\ \A key \in StatusesOf(queue') : key.request # m.request
  BY <1>1, <1>2, StatusTaken
<1> HIDE DEF m
<1>4. /\ InfoOf(m).client = m.client /\ InfoOf(m).connection = m.connection
      /\ InfoOf(m).request = m.request /\ m.client \in Clients
      /\ m.connection \in Connections /\ m.request \in Requests
  BY <1>1, <1>3, MessageFields, InfoFields
<1>5. InfoOf(m) \notin connectedKeys
  BY <1>3 DEF FreshInv
<1>6. /\ connectedKeys' = connectedKeys \cup {InfoOf(m)} /\ disconnectedKeys' = disconnectedKeys
      /\ list' = Apply(list, ClientConnected(m.client, m.connection, m.request))
      /\ byConnection' = [byConnection EXCEPT ![m.connection] = InfoOf(m)]
  BY <1>2, <1>5 DEF DeciderPut, RegistryPut
<1>7. FreshInv'
  <2>1. InfoOf(m) \notin StatusesOf(queue')
    BY <1>3, <1>4
  <2>2. StatusesOf(queue') \cap connectedKeys' = {}
    BY <1>3, <1>6, <2>1 DEF FreshInv
  <2>3. \A key \in connectedKeys' \cup StatusesOf(queue') : Published(key)'
    BY <1>2, <1>3, <1>6 DEF FreshInv, Published, Unpublished
  <2> QED
    BY <1>2, <1>3, <2>2, <2>3 DEF FreshInv, RunningInv
<1>8. \A k \in Connections :
        IF k = m.connection
        THEN list'.active[k] = [client |-> m.client, request |-> m.request]
        ELSE list'.active[k] \in {None, list.active[k]}
  <2> DEFINE e == ClientConnected(m.client, m.connection, m.request)
  <2>1. e \in Event
    BY <1>4, EventsTyped
  <2>2. /\ e.type = "client.connected" /\ e.connection = m.connection
        /\ e.client = m.client /\ e.request = m.request
    BY DEF ClientConnected
  <2> HIDE DEF e
  <2> QED
    BY <1>1, <1>6, <2>1, <2>2, ApplyActive DEF e
<1>9. ListedInv'
  <2> SUFFICES ASSUME NEW k \in Connections, list'.active[k] # None
               PROVE  /\ KeyOf(k)' \in connectedKeys'
                      /\ ~booting' /\ KeyOf(k)' \notin disconnectedKeys'
                           => byConnection'[k] = KeyOf(k)'
    BY DEF ListedInv
  <2>1. CASE k = m.connection
    <3>1. KeyOf(k)' = InfoOf(m)
      BY <1>8, <2>1 DEF KeyOf, InfoOf
    <3> QED
      BY <1>1, <1>4, <1>6, <2>1, <3>1
  <2>2. CASE k # m.connection
    <3>1. list'.active[k] = list.active[k] /\ byConnection'[k] = byConnection[k]
      BY <1>1, <1>6, <1>8, <2>2
    <3>2. KeyOf(k)' = KeyOf(k)
      BY <3>1 DEF KeyOf
    <3> QED
      BY <1>2, <1>6, <2>2, <3>1, <3>2 DEF ListedInv
  <2> QED
    BY <2>1, <2>2
<1> QED
  BY <1>7, <1>9

\* The registry forgets the entry of a disconnected status and of nothing else,
\* and that status is logged by then.
LEMMA DisconnectedIsDeletedListed ==
  ASSUME IInv, FreshInv, ListedInv, DisconnectedIsDeleted
  PROVE  FreshInv' /\ ListedInv'
<1>1. PICK m \in Message :
        /\ Handle(m) /\ m.type \in {"clean", "unexpected"}
        /\ RegistryDelete(m) /\ DeciderDelete(m)
        /\ queue' \in {queue, Tail(queue)} /\ UNCHANGED <<station, booting>>
  BY DEF DisconnectedIsDeleted, HandlerReturns, frontendVars
<1>2. /\ queue \in Seq(OwnMessage) /\ Distinct(queue) /\ list \in Snapshot
      /\ byConnection \in [Connections -> ConnectionInfo \cup {None}]
      /\ connectedKeys \subseteq ConnectionInfo
  BY DEF IInv, MessagesInv, FreshInv, TypeOK
<1>3. queue # <<>> /\ m \in OwnMessage
  BY <1>1, <1>2, HeadTailProperties DEF Handle
<1>4. /\ m.client \in Clients /\ m.connection \in Connections /\ m.request \in Requests
      /\ m.connection.owner = m.client
  BY <1>1, <1>3, MessageFields
<1>5. /\ connectedKeys' = connectedKeys /\ InfoOf(m) \in disconnectedKeys'
      /\ disconnectedKeys \subseteq disconnectedKeys'
      /\ list' \in {list, Apply(list, ClientDisconnected(m.client, m.connection, m.request, m.type))}
  BY <1>1 DEF DeciderDelete, log
<1>6. \A k \in Connections : list'.active[k] \in {None, list.active[k]}
  <2> DEFINE e == ClientDisconnected(m.client, m.connection, m.request, m.type)
  <2>1. e \in Event /\ e.type # "client.connected"
    BY <1>1, <1>4, EventsTyped DEF ClientDisconnected
  <2> HIDE DEF e
  <2> QED
    BY <1>2, <1>5, <2>1, ApplyActive DEF e
<1>7. FreshInv'
  BY <1>1, <1>2, <1>3, <1>5, StatusTaken, QueueShrinks
<1>8. ListedInv'
  <2> SUFFICES ASSUME NEW k \in Connections, list'.active[k] # None
               PROVE  /\ KeyOf(k)' \in connectedKeys'
                      /\ ~booting' /\ KeyOf(k)' \notin disconnectedKeys'
                           => byConnection'[k] = KeyOf(k)'
    BY DEF ListedInv
  <2>1. list'.active[k] = list.active[k] /\ KeyOf(k)' = KeyOf(k) /\ KeyOf(k) \in connectedKeys
    BY <1>6 DEF KeyOf, ListedInv
  <2>2. ASSUME ~booting, KeyOf(k) \notin disconnectedKeys'
        PROVE  byConnection'[k] = KeyOf(k)
    <3>1. byConnection[k] = KeyOf(k)
      BY <1>5, <2>1, <2>2 DEF ListedInv
    <3>2. CASE byConnection'[k] = byConnection[k]
      BY <3>1, <3>2
    <3>3. CASE byConnection'[k] # byConnection[k]
      <4>1. k = m.connection /\ byConnection[k].request = m.request
        BY <1>1, <1>2, <1>4, <3>3 DEF RegistryDelete, Forget
      <4>2. Published(KeyOf(k))
        BY <2>1 DEF FreshInv
      <4>3. KeyOf(k).client = m.client
        BY <1>4, <4>1, <4>2 DEF Published, KeyOf
      <4>4. KeyOf(k) = InfoOf(m)
        BY <3>1, <4>1, <4>3 DEF KeyOf, InfoOf
      <4> QED
        BY <1>5, <2>2, <4>4
    <3> QED
      BY <3>2, <3>3
  <2> QED
    BY <1>1, <1>5, <2>1, <2>2
<1> QED
  BY <1>7, <1>8

\* The other steps of handlers and timers register nothing and list nothing new.
LEMMA OtherStepListed ==
  ASSUME IInv, FreshInv, ListedInv,
         \/ ConnectedCancelsTimer \/ DisconnectedSchedulesTimer
         \/ AnnouncementCancelsTimer \/ AnnouncementIsAppended \/ TimerStep
  PROVE  FreshInv' /\ ListedInv'
<1>1. /\ queue \in Seq(OwnMessage) /\ Distinct(queue) /\ list \in Snapshot
      /\ HandlingInv /\ expired \subseteq ConnectionInfo
  BY DEF IInv, MessagesInv, FreshInv, TypeOK
<1>2. /\ UNCHANGED <<station, booting, byConnection, connectedKeys, disconnectedKeys>>
      /\ queue' = queue \/ (queue # <<>> /\ queue' = Tail(queue))
  <2>1. CASE ConnectedCancelsTimer \/ AnnouncementCancelsTimer
    BY <2>1 DEF ConnectedCancelsTimer, AnnouncementCancelsTimer, frontendVars, registry, log
  <2>2. CASE DisconnectedSchedulesTimer \/ AnnouncementIsAppended
    BY <1>1, <2>2 DEF DisconnectedSchedulesTimer, AnnouncementIsAppended, AppendToLog,
       HandlerReturns, HandlingInv, frontendVars, registry, log
  <2>3. CASE TimerStep
    BY <2>3 DEF TimerStep, TimerExpires, PublishReconnectTimeout, AppendToLog, frontendVars,
       registry, log
  <2> QED
    BY <2>1, <2>2, <2>3
<1>3. \A k \in Connections : list'.active[k] \in {None, list.active[k]}
  <2>1. CASE list' = list
    BY <2>1
  <2>2. ASSUME NEW e \in Event, e.type # "client.connected", list' = Apply(list, e)
        PROVE  \A k \in Connections : list'.active[k] \in {None, list.active[k]}
    BY <1>1, <2>2, ApplyActive
  <2>3. CASE AnnouncementIsAppended
    <3>1. Head(queue) \in OwnMessage /\ Head(queue).type = "announcement"
      BY <1>1, <2>3, HeadTailProperties DEF AnnouncementIsAppended, HandlingInv
    <3>2. SessionStarted(Head(queue).session, Head(queue).connection) \in Event
      BY <3>1, MessageFields, EventsTyped
    <3> QED
      BY <2>2, <2>3, <3>2 DEF AnnouncementIsAppended, AppendToLog, SessionStarted
  <2>4. CASE TimerStep
    <3>1. \A t \in expired : ReconnectTimeout(t.client) \in Event
      BY <1>1, EventsTyped DEF ConnectionInfo
    <3> QED
      BY <2>1, <2>2, <2>4, <3>1 DEF TimerStep, TimerExpires, PublishReconnectTimeout,
         AppendToLog, ReconnectTimeout, log
  <2> QED
    BY <2>1, <2>3, <2>4 DEF ConnectedCancelsTimer, DisconnectedSchedulesTimer,
       AnnouncementCancelsTimer, log
<1>4. FreshInv'
  BY <1>1, <1>2, StatusTaken, QueueShrinks
<1>5. ListedInv'
  BY <1>1, <1>2, <1>3, ListShrinks
<1> QED
  BY <1>4, <1>5

\* A new process knows no connection until its server.started empties the list.
LEMMA RebootListed ==
  ASSUME IInv, FreshInv, ListedInv, Restart \/ AppendServerStarted
  PROVE  FreshInv' /\ ListedInv'
<1>1. queue \in Seq(OwnMessage) /\ Distinct(queue) /\ list \in Snapshot /\ HandlingInv
  BY DEF IInv, MessagesInv, FreshInv, TypeOK
<1>2. CASE Restart
  <2>1. UNCHANGED <<station, connectedKeys, disconnectedKeys, list>> /\ booting'
    BY <1>2 DEF Restart, frontendVars, log
  <2>3. queue' = queue \/ (queue # <<>> /\ queue' = Tail(queue))
    BY <1>1, <1>2 DEF Restart, HandlingInv
  <2>2. ListedInv'
    BY <2>1 DEF ListedInv, KeyOf
  <2> QED
    BY <1>1, <2>1, <2>2, <2>3, StatusTaken, QueueShrinks
<1>3. CASE AppendServerStarted
  <2>1. /\ UNCHANGED <<station, connectedKeys, queue>> /\ list' = Apply(list, ServerStarted)
    BY <1>3 DEF AppendServerStarted, AppendToLog, frontendVars
  <2>2. \A k \in Connections : list'.active[k] = None
    <3>1. ServerStarted \in Event /\ ServerStarted.type = "server.started"
      BY EventsTyped DEF ServerStarted
    <3>2. \A k \in Connections : Apply(list, ServerStarted).active[k] = None
      BY <1>1, <3>1, ApplyActive
    <3> QED
      BY <2>1, <3>2
  <2>3. ListedInv'
    BY <2>2 DEF ListedInv
  <2> QED
    BY <1>1, <2>1, <2>3, QueueShrinks
<1> QED
  BY <1>2, <1>3

LEMMA NextListed == IInv /\ FreshInv /\ ListedInv /\ [Next]_vars => FreshInv' /\ ListedInv'
<1> SUFFICES ASSUME IInv, FreshInv, ListedInv, [Next]_vars PROVE FreshInv' /\ ListedInv'
  OBVIOUS
<1>1. CASE UNCHANGED vars
  <2>1. UNCHANGED <<station, queue, booting, byConnection, connectedKeys, disconnectedKeys, list>>
    BY <1>1 DEF vars, frontendVars, backendVars, registry, log
  <2>2. ListedInv'
    BY <2>1 DEF ListedInv, KeyOf
  <2> QED
    BY <2>1, <2>2, QueueShrinks DEF FreshInv
<1>2. CASE \E c \in Clients : StationStep(c)
  BY <1>2, StationStepListed
<1>3. CASE \/ DeliverWill \/ LoseMessage
           \/ \E w \in unacknowledged : ReceiveAcknowledgement(w) \/ Redeliver(w)
  BY <1>3, BrokerStepListed
<1>4. CASE HandlerStep
  BY <1>4, ConnectedIsPutListed, DisconnectedIsDeletedListed, OtherStepListed DEF HandlerStep
<1>5. CASE TimerStep
  BY <1>5, OtherStepListed
<1>6. CASE Restart \/ AppendServerStarted
  BY <1>6, RebootListed
<1> QED
  BY <1>1, <1>2, <1>3, <1>4, <1>5, <1>6 DEF Next

\* What BabyStationList tells parents of, ConnectionRegistry knows under the
\* request it was listed with, for any number of clients, restarts, lost and
\* repeated messages.
THEOREM ListedRegistered == Spec => []ListedIsRegistered
<1>1. FreshInv /\ ListedInv => ListedIsRegistered
  BY DEF ListedInv, ListedIsRegistered
<1> QED
  BY <1>1, InitListed, NextListed, Invariance, PTL DEF Spec
=============================================================================
