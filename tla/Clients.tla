-------------------------------- MODULE Clients --------------------------------
(***************************************************************************)
(* HandleWebsocket of the backend: a websocket passes messages from client *)
(* to client through channels without a buffer.  One goroutine writes what *)
(* the channel brings, another one reads, puts each message into the       *)
(* channel of the peer, and closes its own channel when it ends.  Sockets  *)
(* are numbered in the order they are opened.                              *)
(***************************************************************************)
EXTENDS Naturals, Sequences

CONSTANTS
  ClientIds,
  MaxSockets \* bound: sockets opened

VARIABLES
  sockets, \* per socket: its client, connection, writer and reader, the socket
           \* the reader sends to, and, as history, if no other overlapped it
  clients, \* ClientStore: the socket of each client, 0 for none
  crashed  \* a send on a closed channel panics, and with it the process

clientVars == <<sockets, clients, crashed>>

ClientsInit ==
  sockets = <<>> /\ clients = [i \in ClientIds |-> 0] /\ crashed = FALSE

Up == ~crashed /\ UNCHANGED crashed

\* ClientStore.Put replaces the entry of an earlier socket.
Open(i) ==
  LET before == {k \in DOMAIN sockets : sockets[k].id = i /\ sockets[k].writer # "gone"} IN
  /\ Up /\ Len(sockets) < MaxSockets
  /\ sockets' = Append([k \in DOMAIN sockets |->
                          IF k \in before THEN [sockets[k] EXCEPT !.alone = FALSE] ELSE sockets[k]],
                       [id |-> i, connected |-> TRUE, writer |-> "waiting",
                        reader |-> "reading", to |-> 0, alone |-> before = {}])
  /\ clients' = [clients EXCEPT ![i] = Len(sockets')]

Disconnect(k) ==
  /\ Up /\ sockets[k].connected
  /\ sockets' = [sockets EXCEPT ![k].connected = FALSE]
  /\ UNCHANGED clients

-----------------------------------------------------------------------------
(* processIncomingMessages *)

\* A message for a client that is not there ends the reader.
ReadMessage(k, i) ==
  /\ Up /\ sockets[k].reader = "reading" /\ sockets[k].connected
  /\ sockets' = IF clients[i] = 0 THEN [sockets EXCEPT ![k].reader = "gone"]
                ELSE [sockets EXCEPT ![k].reader = "sending", ![k].to = clients[i]]
  /\ UNCHANGED clients

ReadFails(k) ==
  /\ Up /\ sockets[k].reader = "reading" /\ ~sockets[k].connected
  /\ sockets' = [sockets EXCEPT ![k].reader = "gone"]
  /\ UNCHANGED clients

\* The writer of the peer takes the message.
Send(k) ==
  LET peer == sockets[k].to IN
  /\ Up /\ sockets[k].reader = "sending"
  /\ sockets[peer].reader # "gone" /\ sockets[peer].writer = "waiting"
  /\ sockets' = [sockets EXCEPT ![peer].writer = "writing", ![k].reader = "reading", ![k].to = 0]
  /\ UNCHANGED clients

\* Or the reader of the peer has ended, and closed the channel.
SendOnClosed(k) ==
  /\ ~crashed /\ sockets[k].reader = "sending"
  /\ sockets[sockets[k].to].reader = "gone"
  /\ crashed' = TRUE
  /\ UNCHANGED <<sockets, clients>>

-----------------------------------------------------------------------------
(* HandleWebsocket *)

\* Mutant of Removed: only the socket that is in the store is removed, and a
\* replaced one leaves the entry of the one before it.
RemovedReplaced(k) == [clients EXCEPT ![sockets[k].id] = IF @ = k THEN @ ELSE 0]

\* The entry of the client, whichever socket it is of.
Removed(k) == [clients EXCEPT ![sockets[k].id] = 0]

Leave(k) ==
  /\ sockets' = [sockets EXCEPT ![k].writer = "gone", ![k].connected = FALSE]
  /\ clients' = Removed(k)

Write(k) ==
  /\ Up /\ sockets[k].writer = "writing"
  /\ \/ sockets' = [sockets EXCEPT ![k].writer = "waiting"] /\ UNCHANGED clients
     \/ ~sockets[k].connected /\ Leave(k)

ChannelClosed(k) ==
  /\ Up /\ sockets[k].writer = "waiting" /\ sockets[k].reader = "gone"
  /\ Leave(k)

ClientsNext ==
  \/ \E i \in ClientIds : Open(i) \/ \E k \in DOMAIN sockets : ReadMessage(k, i)
  \/ \E k \in DOMAIN sockets :
       Disconnect(k) \/ ReadFails(k) \/ Send(k) \/ SendOnClosed(k) \/ Write(k) \/ ChannelClosed(k)

ClientsSpec == ClientsInit /\ [][ClientsNext]_clientVars

-----------------------------------------------------------------------------
ClientsTypeOK ==
  /\ \A k \in DOMAIN sockets :
       /\ sockets[k].id \in ClientIds
       /\ sockets[k].connected \in BOOLEAN /\ sockets[k].alone \in BOOLEAN
       /\ sockets[k].writer \in {"waiting", "writing", "gone"}
       /\ sockets[k].reader \in {"reading", "sending", "gone"}
       /\ sockets[k].to \in 0..Len(sockets)
       /\ sockets[k].to # 0 <=> sockets[k].reader = "sending"
  /\ clients \in [ClientIds -> 0..Len(sockets)]
  /\ crashed \in BOOLEAN

(***************************************************************************)
(* Whoever the store holds has a writer, and the last socket of a client;  *)
(* and a socket is in the store while it is written to, unless it shares   *)
(* some of its time with another one of its client: the earlier of the two *)
(* removes the entry of the later one.                                     *)
(***************************************************************************)
ClientsAreServed ==
  /\ \A i \in ClientIds : clients[i] # 0 =>
       /\ sockets[clients[i]].id = i /\ sockets[clients[i]].writer # "gone"
       /\ \A k \in DOMAIN sockets : sockets[k].id = i => k <= clients[i]
  /\ \A k \in DOMAIN sockets :
       sockets[k].writer # "gone" /\ sockets[k].alone => clients[sockets[k].id] = k
=============================================================================
