--------------------------- MODULE BabyStationList ---------------------------
(***************************************************************************)
(* The projection golang/internal/babystationlist of the event log onto    *)
(* the baby stations that can be reached now, for one account: events of   *)
(* an account touch that account's snapshot only.                          *)
(*                                                                         *)
(* Each of the snapshot's four Go maps is a function to the key's value or *)
(* None.  A session keeps the one field the projection reads again, the    *)
(* connection that hosts it; names and start times are left out.           *)
(***************************************************************************)

CONSTANTS
  Clients, Connections, Requests, Sessions,   \* the opaque ids of the payloads
  None                                        \* no entry in a map

Snapshot == [
  hostOf    : [Sessions -> Connections \cup {None}],   \* SessionByID
  sessionOn : [Connections -> Sessions \cup {None}],   \* SessionIDByConnectionID
  active    : [Connections -> [client : Clients, request : Requests] \cup {None}],
                                                       \* ConnectionByID
  parked    : [Connections -> [client : Clients, session : Sessions] \cup {None}]]
                                            \* DisconnectedSessionByConnectionID

EmptySnapshot == [
  hostOf    |-> [id \in Sessions |-> None],
  sessionOn |-> [k \in Connections |-> None],
  active    |-> [k \in Connections |-> None],
  parked    |-> [k \in Connections |-> None]]

-----------------------------------------------------------------------------
(* The events the projection applies.                                      *)

SessionStarted(id, k) == [type |-> "session.started", session |-> id, connection |-> k]
SessionEnded(id) == [type |-> "session.ended", session |-> id]
ClientConnected(c, k, r) ==
  [type |-> "client.connected", client |-> c, connection |-> k, request |-> r]
ClientDisconnected(c, k, r, why) ==
  [type |-> "client.disconnected", client |-> c, connection |-> k, request |-> r,
   reason |-> why]
ReconnectTimeout(c) == [type |-> "client.reconnect_timeout", client |-> c]
ServerStarted == [type |-> "server.started"]

Event ==
  {SessionStarted(id, k) : id \in Sessions, k \in Connections}
    \cup {SessionEnded(id) : id \in Sessions}
    \cup {ClientConnected(c, k, r) : c \in Clients, k \in Connections, r \in Requests}
    \cup {ClientDisconnected(c, k, r, why) :
            c \in Clients, k \in Connections, r \in Requests,
            why \in {"clean", "unexpected"}}
    \cup {ReconnectTimeout(c) : c \in Clients}
    \cup {ServerStarted}

-----------------------------------------------------------------------------

ActiveOf(s, c) == {k \in Connections : s.active[k] # None /\ s.active[k].client = c}
ParkedOf(s, c) == {k \in Connections : s.parked[k] # None /\ s.parked[k].client = c}

Without(f, keys) == [x \in DOMAIN f |-> IF x \in keys THEN None ELSE f[x]]

\* Snapshot.deleteSession for each of ids that SessionByID knows.
DeleteSessions(s, ids) ==
  LET hosts == {s.hostOf[id] : id \in ids \ {None}}
  IN  [hostOf    |-> Without(s.hostOf, ids),
       sessionOn |-> Without(s.sessionOn, hosts),
       active    |-> Without(s.active, hosts),
       parked    |-> Without(s.parked, hosts)]

\* Mutant of DeleteClient: its second loop, over the parked sessions, is missing.
DeleteConnectedClient(s, c) ==
  LET t == DeleteSessions(s, {s.sessionOn[k] : k \in ActiveOf(s, c)})
  IN  [t EXCEPT !.active = Without(@, ActiveOf(s, c))]

\* The loops of deleteSessionsAndConnectionsForClient visit a map in any order;
\* OneEntryPerClient below says that they meet one entry at most.
DeleteClient(s, c) ==
  LET ids == {s.sessionOn[k] : k \in ActiveOf(s, c)}
               \cup {s.parked[k].session : k \in ParkedOf(s, c)}
      t   == DeleteSessions(s, ids)
  IN  [t EXCEPT !.active = Without(@, ActiveOf(s, c)),
                !.parked = Without(@, ParkedOf(s, c))]

ApplySessionStarted(s, id, k) ==
  [s EXCEPT !.hostOf[id] = k, !.sessionOn[k] = id]

\* A connection that returns before its session is given up keeps it; any
\* other connection of the client begins from nothing.
ApplyConnected(s, c, k, r) ==
  LET same == s.parked[k] # None /\ s.parked[k].client = c
      t    == IF same THEN [s EXCEPT !.parked[k] = None] ELSE DeleteClient(s, c)
  IN  [t EXCEPT !.active[k] = [client |-> c, request |-> r]]

\* The connection goes whatever its request; its session only goes, or is
\* parked, when the request is the one that connected.
ApplyDisconnected(s, k, r, why) ==
  LET id      == s.sessionOn[k]
      matches == s.active[k] # None /\ s.active[k].request = r /\ id # None
      t == IF matches /\ why = "clean" THEN DeleteSessions(s, {id})
           ELSE IF matches
           THEN [s EXCEPT !.parked[k] = [client |-> s.active[k].client, session |-> id]]
           ELSE s
  IN  [t EXCEPT !.active[k] = None]

Apply(s, e) ==
  CASE e.type = "session.started"     -> ApplySessionStarted(s, e.session, e.connection)
    [] e.type = "session.ended"       -> DeleteSessions(s, {e.session})
    [] e.type = "client.connected"    ->
         ApplyConnected(s, e.client, e.connection, e.request)
    [] e.type = "client.disconnected" ->
         ApplyDisconnected(s, e.connection, e.request, e.reason)
    [] e.type = "client.reconnect_timeout" -> DeleteClient(s, e.client)
    [] e.type = "server.started"      -> EmptySnapshot

\* Snapshot.List: the connections a parent station is told of.
Listed(s) ==
  {k \in Connections : /\ s.active[k] # None
                       /\ s.sessionOn[k] # None
                       /\ s.hostOf[s.sessionOn[k]] # None}

-----------------------------------------------------------------------------

\* A client has at most one entry, connected or waiting to come back: what
\* makes the order of the two map loops of deleteSessionsAndConnectionsForClient
\* immaterial, and a station appear once in a parent's list.
OneEntryPerClient(s) ==
  \A c \in Clients : \A j, k \in ActiveOf(s, c) \cup ParkedOf(s, c) : j = k
=============================================================================
