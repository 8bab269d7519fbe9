------------------------------ MODULE Connections ------------------------------
(***************************************************************************)
(* HandleConnection of the backend: a client of the websocket API is       *)
(* bridged to the broker.  Its handler subscribes to the inbox of the      *)
(* client, announces it, reads its messages and pings it, and says that it *)
(* is gone.  All handlers share the one MQTT client of the backend, which  *)
(* has one route for each topic.  Handlers are numbered as they start.     *)
(***************************************************************************)
EXTENDS Naturals, Sequences

CONSTANTS
  ClientIds,
  MaxServed,  \* bound: connections opened
  MaxFailures \* bound: MQTT requests that end with an error

VARIABLES
  served,  \* per handler: its client, where it is, its peer, reader and pings, the
           \* last status it told, and, as history, if no other overlapped it
  inbox,   \* the handler that the inbox topic of each client is routed to, or 0
  failures

connectionVars == <<served, inbox, failures>>

ConnectionsInit ==
  served = <<>> /\ inbox = [i \in ClientIds |-> 0] /\ failures = 0

At(k, where) == served[k].at = where

\* The request succeeds, or it fails, at most MaxFailures times in all.
Succeed == UNCHANGED failures
Fail == failures < MaxFailures /\ failures' = failures + 1

-----------------------------------------------------------------------------
(* HandleConnection *)

\* Subscribe replaces the route of an earlier handler of the client.
HandleConnection(i) ==
  LET before == {k \in DOMAIN served : served[k].client = i /\ ~At(k, "gone")} IN
  /\ Len(served) < MaxServed
  /\ served' = Append([k \in DOMAIN served |->
                         IF k \in before THEN [served[k] EXCEPT !.alone = FALSE] ELSE served[k]],
                      [client |-> i, at |-> "subscribing", peer |-> "alive",
                       reader |-> "reading", ping |-> "idle", pong |-> FALSE,
                       told |-> "nothing", alone |-> before = {}])
  /\ inbox' = [inbox EXCEPT ![i] = Len(served')]
  /\ UNCHANGED failures

\* A handler that fails before it has announced its client leaves the route.
Subscribed(k) ==
  /\ At(k, "subscribing")
  /\ \/ Succeed /\ served' = [served EXCEPT ![k].at = "announcing"]
     \/ Fail /\ served' = [served EXCEPT ![k].at = "gone"]
  /\ UNCHANGED inbox

\* The broker may have taken a publication that ends with an error.
Announced(k) ==
  /\ At(k, "announcing")
  /\ \/ Succeed /\ served' = [served EXCEPT ![k].at = "serving", ![k].told = "connected"]
     \/ Fail /\ \E told \in {"nothing", "connected"} :
                  served' = [served EXCEPT ![k].at = "gone", ![k].told = told]
  /\ UNCHANGED inbox

\* The deferred function: the client is gone, for whatever reason, "clean".
SendDisconnected(k) ==
  /\ At(k, "leaving")
  /\ \/ Succeed /\ served' = [served EXCEPT ![k].at = "unsubscribing", ![k].told = "disconnected"]
     \/ Fail /\ served' = [served EXCEPT ![k].at = "unsubscribing"]
  /\ UNCHANGED inbox

\* Unsubscribe removes the route of the topic, of whichever handler it is.
Unrouted(k) == [inbox EXCEPT ![served[k].client] = 0]

Unsubscribe(k) ==
  /\ At(k, "unsubscribing")
  /\ served' = [served EXCEPT ![k].at = "gone"]
  /\ inbox' = Unrouted(k)
  /\ UNCHANGED failures

-----------------------------------------------------------------------------
(* The connection *)

\* A step of the connection that is served, which leaves the inboxes alone.
Serving(k, connection) ==
  /\ At(k, "serving")
  /\ served' = [served EXCEPT ![k] = connection]
  /\ UNCHANGED <<inbox, failures>>

Leaving(k) == [served[k] EXCEPT !.at = "leaving"]

PeerEnds(k) ==
  /\ served[k].peer = "alive"
  /\ \E peer \in {"silent", "closed"} : Serving(k, [served[k] EXCEPT !.peer = peer])

\* A close frame, or an error of the connection.
ReadFails(k) ==
  /\ served[k].peer = "closed" /\ served[k].reader = "reading"
  /\ Serving(k, Leaving(k))

\* handleSignal publishes, and nothing is read until the broker has answered.
HandleSignal(k) ==
  /\ served[k].peer = "alive" /\ served[k].reader = "reading"
  /\ Serving(k, [served[k] EXCEPT !.reader = "publishing"])

Published(k) ==
  /\ At(k, "serving") /\ served[k].reader = "publishing"
  /\ \/ Succeed /\ served' = [served EXCEPT ![k].reader = "reading"]
     \/ Fail /\ served' = [served EXCEPT ![k] = Leaving(k)]
  /\ UNCHANGED inbox

\* A peer that is alive answers; a ping to a closed one fails.
SendPing(k) ==
  /\ served[k].ping = "idle"
  /\ Serving(k, IF served[k].peer = "closed" THEN Leaving(k)
                ELSE [served[k] EXCEPT !.ping = "sent", !.pong = served[k].peer = "alive"])

WaitForPong(k) ==
  /\ served[k].ping = "sent"
  /\ Serving(k, [served[k] EXCEPT !.ping = "waiting"])

\* The reader calls handlePong, which drops a pong that nobody waits for yet.
HandlePong(k) ==
  /\ served[k].pong /\ served[k].reader = "reading"
  /\ Serving(k, [served[k] EXCEPT !.pong = FALSE,
                                  !.ping = IF @ = "waiting" THEN "idle" ELSE @])

\* A pong that can be read is read in time.
PongTimeout(k) ==
  /\ served[k].ping = "waiting" /\ ~(served[k].pong /\ served[k].reader = "reading")
  /\ Serving(k, Leaving(k))

ConnectionSteps(k) ==
  \/ Subscribed(k) \/ Announced(k) \/ SendDisconnected(k) \/ Unsubscribe(k)
  \/ ReadFails(k) \/ Published(k) \/ SendPing(k) \/ WaitForPong(k) \/ HandlePong(k)
  \/ PongTimeout(k)

ConnectionsNext ==
  \/ \E i \in ClientIds : HandleConnection(i)
  \/ \E k \in DOMAIN served :
       ConnectionSteps(k) \/ PeerEnds(k) \/ HandleSignal(k)

ConnectionsSpec == ConnectionsInit /\ [][ConnectionsNext]_connectionVars

Accepted(k) == k \in DOMAIN served
Told(k, status) == Accepted(k) /\ served[k].told = status
PeerGone(k) == Accepted(k) /\ At(k, "serving") /\ served[k].peer # "alive"

-----------------------------------------------------------------------------
ConnectionsTypeOK ==
  /\ \A k \in DOMAIN served :
       /\ served[k].client \in ClientIds /\ served[k].alone \in BOOLEAN
       /\ served[k].at \in {"subscribing", "announcing", "serving", "leaving",
                            "unsubscribing", "gone"}
       /\ served[k].peer \in {"alive", "silent", "closed"}
       /\ served[k].reader \in {"reading", "publishing"}
       /\ served[k].ping \in {"idle", "sent", "waiting"} /\ served[k].pong \in BOOLEAN
       /\ served[k].told \in {"nothing", "connected", "disconnected"}
  /\ inbox \in [ClientIds -> 0..Len(served)]
  /\ failures \in 0..MaxFailures

(***************************************************************************)
(* What arrives for a client goes to its last connection or to none, and   *)
(* it goes to a connection that is being served, unless that one shares    *)
(* some of its time with another one of the client: the earlier of the two *)
(* takes the route of the later one along.                                 *)
(***************************************************************************)
ConnectionsAreServed ==
  \A k \in DOMAIN served :
    /\ \A j \in 1..k - 1 : served[j].client = served[k].client => inbox[served[k].client] # j
    /\ At(k, "serving") /\ served[k].alone => inbox[served[k].client] = k

\* A client that was announced and whose peer is gone is said to be gone, even
\* if its peer never closed the connection, unless the broker failed.
EndWaits == [k \in 1..MaxServed |->
               PeerGone(k) /\ failures = 0 /\ ~Told(k, "disconnected")]

EndIsTold == \A k \in 1..MaxServed : EndWaits[k] ~> ~EndWaits[k]
=============================================================================
