----------------------------- MODULE BackendProofs -----------------------------
(***************************************************************************)
(* What TLAPS shows of parts of the backend, for any clients and any       *)
(* number of calls: the store of websocket clients serves whoever has one  *)
(* socket, no start of a session is forgotten, the account store is what   *)
(* its log says and stops for a reason alone, the session list is true of  *)
(* its log, and the usage statistics add up.                               *)
(***************************************************************************)
EXTENDS Clients, SessionStarts, Accounts, SessionList, UsageStats,
        TLAPS, SequenceTheorems, FiniteSetTheorems, WellFoundedInduction

-----------------------------------------------------------------------------
(***************************************************************************)
(* The websockets                                                          *)
(***************************************************************************)

Socket == [id : ClientIds, connected : BOOLEAN, writer : {"waiting", "writing", "gone"},
           reader : {"reading", "sending", "gone"}, to : Nat, alone : BOOLEAN]

SocketsInv ==
  /\ sockets \in Seq(Socket)
  /\ \A k \in 1..Len(sockets) :
       /\ sockets[k].to <= Len(sockets)
       /\ sockets[k].to # 0 <=> sockets[k].reader = "sending"
  /\ clients \in [ClientIds -> 0..Len(sockets)]
  /\ crashed \in BOOLEAN

Alive(k) == sockets[k].writer # "gone"

\* The two halves of ClientsAreServed.
HeldInv ==
  \A i \in ClientIds : clients[i] # 0 =>
    /\ sockets[clients[i]].id = i /\ Alive(clients[i])
    /\ \A k \in 1..Len(sockets) : sockets[k].id = i => k <= clients[i]
ServedInv ==
  \A k \in 1..Len(sockets) : Alive(k) /\ sockets[k].alone => clients[sockets[k].id] = k

\* A socket is alone only while no other one of its client is written to.
AloneInv ==
  \A j, k \in 1..Len(sockets) :
    j # k /\ Alive(j) /\ Alive(k) /\ sockets[j].id = sockets[k].id => ~sockets[j].alone

ClientsInv == SocketsInv /\ HeldInv /\ ServedInv /\ AloneInv

-----------------------------------------------------------------------------
LEMMA SocketsDomain ==
  ASSUME SocketsInv
  PROVE  /\ Len(sockets) \in Nat /\ DOMAIN sockets = 1..Len(sockets)
         /\ \A k \in 1..Len(sockets) : sockets[k] \in Socket
BY LenProperties, ElementOfSeq DEF SocketsInv

LEMMA SocketAims ==
  ASSUME SocketsInv
  PROVE  \A k \in 1..Len(sockets) :
           /\ sockets[k].to \in 0..Len(sockets)
           /\ sockets[k].to # 0 <=> sockets[k].reader = "sending"
<1> SUFFICES ASSUME NEW k \in 1..Len(sockets)
             PROVE  /\ sockets[k].to \in 0..Len(sockets)
                    /\ sockets[k].to # 0 <=> sockets[k].reader = "sending"
  OBVIOUS
<1>1. /\ sockets[k].to <= Len(sockets)
      /\ sockets[k].to # 0 <=> sockets[k].reader = "sending"
  BY DEF SocketsInv
<1>2. sockets[k].to \in Nat
  BY SocketsDomain DEF Socket
<1>3. \A n \in Nat : n <= Len(sockets) => n \in 0..Len(sockets)
  BY SocketsDomain
<1> QED BY <1>1, <1>2, <1>3

LEMMA ClientsInitInv == ClientsInit => ClientsInv
<1> SUFFICES ASSUME ClientsInit PROVE ClientsInv
  OBVIOUS
<1>1. sockets \in Seq(Socket) /\ Len(sockets) = 0
  BY EmptySeq DEF ClientsInit
<1>2. crashed \in BOOLEAN /\ clients = [i \in ClientIds |-> 0]
  BY DEF ClientsInit
<1>3. clients \in [ClientIds -> 0..Len(sockets)]
  <2>1. 0 \in 0..Len(sockets)
    BY <1>1
  <2> QED BY <1>2, <2>1
<1>4. SocketsInv
  BY <1>1, <1>2, <1>3 DEF SocketsInv
<1>5. \A i \in ClientIds : clients[i] = 0
  BY <1>2
<1> QED BY <1>1, <1>4, <1>5 DEF ClientsInv, HeldInv, ServedInv, AloneInv

\* What a step may change of a socket without consequences: anything but its
\* client and whether it is written to, and is alone.
Resembles(v, w) ==
  v.id = w.id /\ v.alone = w.alone /\ (v.writer = "gone" <=> w.writer = "gone")
Aims(v) == v.to \in 0..Len(sockets) /\ (v.to # 0 <=> v.reader = "sending")

LEMMA ResemblingInv ==
  ASSUME ClientsInv, NEW s \in Seq(Socket), sockets' = s, Len(s) = Len(sockets),
         \A k \in 1..Len(sockets) : Resembles(s[k], sockets[k]) /\ Aims(s[k]),
         UNCHANGED <<clients, crashed>>
  PROVE  ClientsInv'
<1>1. SocketsInv'
  BY SocketsDomain DEF ClientsInv, SocketsInv, Aims
<1>2. \A k \in 1..Len(sockets) : /\ sockets'[k].id = sockets[k].id
                                 /\ sockets'[k].alone = sockets[k].alone
                                 /\ Alive(k)' <=> Alive(k)
  BY DEF Resembles, Alive
<1>3. \A i \in ClientIds : clients[i] # 0 => clients[i] \in 1..Len(sockets)
  BY SocketsDomain DEF ClientsInv, SocketsInv
<1>4. HeldInv'
  BY <1>2, <1>3 DEF ClientsInv, HeldInv
<1>5. ServedInv'
  BY <1>2 DEF ClientsInv, ServedInv
<1>6. AloneInv'
  BY <1>2 DEF ClientsInv, AloneInv
<1> QED BY <1>1, <1>4, <1>5, <1>6 DEF ClientsInv

\* A step that changes one socket.
LEMMA OneResemblingInv ==
  ASSUME ClientsInv, NEW k \in 1..Len(sockets), NEW v \in Socket,
         sockets' = [sockets EXCEPT ![k] = v],
         Resembles(v, sockets[k]), Aims(v), UNCHANGED <<clients, crashed>>
  PROVE  ClientsInv'
<1>1. sockets \in Seq(Socket)
  BY DEF ClientsInv, SocketsInv
<1> DEFINE s == [sockets EXCEPT ![k] = v]
<1>2. /\ s \in Seq(Socket) /\ Len(s) = Len(sockets)
      /\ \A j \in 1..Len(sockets) : s[j] = IF j = k THEN v ELSE sockets[j]
  BY <1>1, ExceptSeq
<1> HIDE DEF s
<1>3. \A j \in 1..Len(sockets) : Resembles(sockets[j], sockets[j]) /\ Aims(sockets[j])
  BY SMTT(30), SocketsDomain DEF ClientsInv, SocketsInv, Resembles, Aims, Socket
<1>4. sockets' = s
  BY DEF s
<1> QED BY <1>2, <1>3, <1>4, ResemblingInv

-----------------------------------------------------------------------------
(* The actions.                                                            *)

LEMMA DisconnectInv ==
  ASSUME ClientsInv, NEW k \in DOMAIN sockets, Disconnect(k)
  PROVE  ClientsInv'
<1> DEFINE v == [sockets[k] EXCEPT !.connected = FALSE]
<1>1. k \in 1..Len(sockets) /\ sockets[k] \in Socket /\ Aims(sockets[k])
  BY SocketsDomain DEF ClientsInv, SocketsInv, Aims, Socket
<1>2. v \in Socket /\ Resembles(v, sockets[k]) /\ Aims(v)
  BY <1>1 DEF Socket, Resembles, Aims
<1>3. sockets' = [sockets EXCEPT ![k] = v] /\ UNCHANGED <<clients, crashed>>
  BY DEF Disconnect, Up
<1> HIDE DEF v
<1> QED BY <1>1, <1>2, <1>3, OneResemblingInv

LEMMA ReadMessageInv ==
  ASSUME ClientsInv, NEW k \in DOMAIN sockets, NEW i \in ClientIds, ReadMessage(k, i)
  PROVE  ClientsInv'
<1> DEFINE v == IF clients[i] = 0 THEN [sockets[k] EXCEPT !.reader = "gone"]
                ELSE [sockets[k] EXCEPT !.reader = "sending", !.to = clients[i]]
<1>1. k \in 1..Len(sockets) /\ sockets[k] \in Socket /\ Aims(sockets[k])
  BY SocketsDomain, SocketAims DEF ClientsInv, Aims
<1>2. clients[i] \in 0..Len(sockets) /\ clients[i] \in Nat
  BY SocketsDomain DEF ClientsInv, SocketsInv
<1>3. v \in Socket /\ Resembles(v, sockets[k]) /\ Aims(v)
  <2>1. CASE clients[i] = 0
    BY <1>1, <2>1 DEF Socket, Resembles, Aims, ReadMessage
  <2>2. CASE clients[i] # 0
    BY <1>1, <1>2, <2>2 DEF Socket, Resembles, Aims
  <2> QED BY <2>1, <2>2
<1>4. sockets' = [sockets EXCEPT ![k] = v] /\ UNCHANGED <<clients, crashed>>
  BY DEF ReadMessage, Up
<1> HIDE DEF v
<1> QED BY <1>1, <1>3, <1>4, OneResemblingInv

LEMMA ReadFailsInv ==
  ASSUME ClientsInv, NEW k \in DOMAIN sockets, ReadFails(k)
  PROVE  ClientsInv'
<1> DEFINE v == [sockets[k] EXCEPT !.reader = "gone"]
<1>1. k \in 1..Len(sockets) /\ sockets[k] \in Socket /\ Aims(sockets[k])
  BY SocketsDomain DEF ClientsInv, SocketsInv, Aims, Socket
<1>2. v \in Socket /\ Resembles(v, sockets[k]) /\ Aims(v)
  BY <1>1 DEF Socket, Resembles, Aims, ReadFails
<1>3. sockets' = [sockets EXCEPT ![k] = v] /\ UNCHANGED <<clients, crashed>>
  BY DEF ReadFails, Up
<1> HIDE DEF v
<1> QED BY <1>1, <1>2, <1>3, OneResemblingInv

\* The peer's writer takes the message; a client may send to itself.
LEMMA SendInv ==
  ASSUME ClientsInv, NEW k \in DOMAIN sockets, Send(k)
  PROVE  ClientsInv'
<1> DEFINE peer == sockets[k].to
           s1 == [sockets EXCEPT ![peer] = [sockets[peer] EXCEPT !.writer = "writing"]]
           s2 == [s1 EXCEPT ![k] = [s1[k] EXCEPT !.reader = "reading", !.to = 0]]
<1>1. /\ k \in 1..Len(sockets) /\ sockets \in Seq(Socket)
      /\ \A j \in 1..Len(sockets) : sockets[j] \in Socket /\ Aims(sockets[j])
  BY SocketsDomain, SocketAims DEF ClientsInv, SocketsInv, Aims
<1>2. peer \in 1..Len(sockets) /\ sockets[peer].writer = "waiting"
  BY <1>1, SocketsDomain DEF Send, Aims, ClientsInv
<1>3. /\ s1 \in Seq(Socket) /\ Len(s1) = Len(sockets)
      /\ \A j \in 1..Len(sockets) :
           s1[j] = IF j = peer THEN [sockets[peer] EXCEPT !.writer = "writing"] ELSE sockets[j]
  <2>1. [sockets[peer] EXCEPT !.writer = "writing"] \in Socket
    <3>1. \A v \in Socket : [v EXCEPT !.writer = "writing"] \in Socket
      BY DEF Socket
    <3> QED BY <1>1, <1>2, <3>1
  <2> QED BY <1>1, <1>2, <2>1, ExceptSeq
<1>4. \A j \in 1..Len(sockets) :
        s1[j] \in Socket /\ Resembles(s1[j], sockets[j]) /\ Aims(s1[j])
  BY <1>1, <1>2, <1>3 DEF Resembles, Aims, Socket
<1>5. sockets' = s2 /\ UNCHANGED <<clients, crashed>>
  BY DEF Send, Up
<1> HIDE DEF s1
<1>6. /\ s2 \in Seq(Socket) /\ Len(s2) = Len(sockets)
      /\ \A j \in 1..Len(sockets) :
           s2[j] = IF j = k THEN [s1[k] EXCEPT !.reader = "reading", !.to = 0] ELSE s1[j]
  <2>1. [s1[k] EXCEPT !.reader = "reading", !.to = 0] \in Socket
    BY <1>1, <1>4 DEF Socket
  <2> QED BY <1>1, <1>3, <2>1, ExceptSeq
<1> HIDE DEF s2
<1>7. \A j \in 1..Len(sockets) : Resembles(s2[j], sockets[j]) /\ Aims(s2[j])
  <2>1. LET v == [s1[k] EXCEPT !.reader = "reading", !.to = 0]
        IN  Resembles(v, sockets[k]) /\ Aims(v)
    BY <1>1, <1>4, SocketsDomain DEF Resembles, Aims, Socket, ClientsInv
  <2> QED BY <1>4, <1>6, <2>1
<1> QED BY <1>5, <1>6, <1>7, ResemblingInv

\* The handler of a socket returns: its client has no entry any more.
LEMMA LeaveInv ==
  ASSUME ClientsInv, NEW k \in DOMAIN sockets, Alive(k), Leave(k), UNCHANGED crashed
  PROVE  ClientsInv'
<1> DEFINE v == [sockets[k] EXCEPT !.writer = "gone", !.connected = FALSE]
           s == [sockets EXCEPT ![k] = v]
<1>1. /\ k \in 1..Len(sockets) /\ sockets[k] \in Socket /\ sockets \in Seq(Socket)
      /\ Len(sockets) \in Nat /\ clients \in [ClientIds -> 0..Len(sockets)]
      /\ sockets[k].id \in ClientIds
  BY SocketsDomain DEF ClientsInv, SocketsInv, Socket
<1>2. /\ v \in Socket /\ v.id = sockets[k].id /\ v.alone = sockets[k].alone
      /\ v.to = sockets[k].to /\ v.reader = sockets[k].reader /\ v.writer = "gone"
  BY <1>1 DEF Socket
<1>3. sockets' = s /\ clients' = [clients EXCEPT ![sockets[k].id] = 0]
  BY DEF Leave, Removed
<1> HIDE DEF v
<1>4. /\ s \in Seq(Socket) /\ Len(s) = Len(sockets)
      /\ \A j \in 1..Len(sockets) : s[j] = IF j = k THEN v ELSE sockets[j]
  BY <1>1, <1>2, ExceptSeq
<1> HIDE DEF s
<1>5. /\ clients' \in [ClientIds -> 0..Len(sockets)]
      /\ \A i \in ClientIds : clients'[i] = IF i = sockets[k].id THEN 0 ELSE clients[i]
  BY <1>1, <1>3
<1>6. \A j \in 1..Len(sockets) :
        /\ sockets'[j].id = sockets[j].id /\ sockets'[j].alone = sockets[j].alone
        /\ sockets'[j].to = sockets[j].to /\ sockets'[j].reader = sockets[j].reader
        /\ Alive(j)' <=> (Alive(j) /\ j # k)
  BY <1>2, <1>3, <1>4 DEF Alive
<1>7. SocketsInv'
  BY <1>3, <1>4, <1>5, <1>6 DEF ClientsInv, SocketsInv
<1>8. HeldInv'
  <2> SUFFICES ASSUME NEW i \in ClientIds, clients'[i] # 0
               PROVE  /\ sockets'[clients'[i]].id = i /\ sockets'[clients'[i]].writer # "gone"
                      /\ \A j \in 1..Len(sockets) : sockets'[j].id = i => j <= clients'[i]
    BY <1>3, <1>4 DEF HeldInv, Alive
  <2>1. i # sockets[k].id /\ clients'[i] = clients[i] /\ clients[i] \in 1..Len(sockets)
    BY <1>1, <1>5
  <2>2. /\ sockets[clients[i]].id = i /\ Alive(clients[i])
        /\ \A j \in 1..Len(sockets) : sockets[j].id = i => j <= clients[i]
    BY <2>1 DEF ClientsInv, HeldInv
  <2>3. clients[i] # k
    BY <2>1, <2>2
  <2> QED BY <1>6, <2>1, <2>2, <2>3 DEF Alive
<1>9. ServedInv'
  <2> SUFFICES ASSUME NEW j \in 1..Len(sockets), Alive(j)', sockets'[j].alone
               PROVE  clients'[sockets'[j].id] = j
    BY <1>3, <1>4 DEF ServedInv
  <2>1. Alive(j) /\ j # k /\ sockets[j].alone /\ sockets[j] \in Socket
    BY <1>6, SocketsDomain DEF ClientsInv
  <2>2. sockets[j].id # sockets[k].id
    BY <1>1, <2>1 DEF ClientsInv, AloneInv
  <2>3. clients[sockets[j].id] = j /\ sockets[j].id \in ClientIds
    BY <2>1 DEF ClientsInv, ServedInv, Socket
  <2> QED BY <1>5, <1>6, <2>2, <2>3
<1>10. AloneInv'
  BY <1>3, <1>4, <1>6 DEF ClientsInv, AloneInv
<1> QED BY <1>7, <1>8, <1>9, <1>10 DEF ClientsInv

LEMMA WriteInv ==
  ASSUME ClientsInv, NEW k \in DOMAIN sockets, Write(k)
  PROVE  ClientsInv'
<1> DEFINE v == [sockets[k] EXCEPT !.writer = "waiting"]
<1>1. CASE sockets' = [sockets EXCEPT ![k].writer = "waiting"] /\ UNCHANGED clients
  <2>1. k \in 1..Len(sockets) /\ sockets[k] \in Socket /\ Aims(sockets[k])
    BY SocketsDomain DEF ClientsInv, SocketsInv, Aims, Socket
  <2>2. v \in Socket /\ Resembles(v, sockets[k]) /\ Aims(v)
    BY <2>1 DEF Socket, Resembles, Aims, Write
  <2>3. sockets' = [sockets EXCEPT ![k] = v] /\ UNCHANGED <<clients, crashed>>
    BY <1>1 DEF Write, Up
  <2> HIDE DEF v
  <2> QED BY <2>1, <2>2, <2>3, OneResemblingInv
<1>2. CASE Leave(k)
  <2>1. Alive(k) /\ UNCHANGED crashed
    BY DEF Write, Alive, Up
  <2> QED BY <1>2, <2>1, LeaveInv
<1> QED BY <1>1, <1>2 DEF Write

LEMMA ChannelClosedInv ==
  ASSUME ClientsInv, NEW k \in DOMAIN sockets, ChannelClosed(k)
  PROVE  ClientsInv'
<1>1. Alive(k) /\ UNCHANGED crashed /\ Leave(k)
  BY DEF ChannelClosed, Alive, Up
<1> QED BY <1>1, LeaveInv

LEMMA SendOnClosedInv ==
  ASSUME ClientsInv, NEW k \in DOMAIN sockets, SendOnClosed(k)
  PROVE  ClientsInv'
BY DEF SendOnClosed, ClientsInv, SocketsInv, HeldInv, ServedInv, AloneInv, Alive

\* A new socket replaces whatever entry its client had.
LEMMA OpenInv ==
  ASSUME ClientsInv, NEW i \in ClientIds, Open(i)
  PROVE  ClientsInv'
<1> DEFINE before == {k \in DOMAIN sockets : sockets[k].id = i /\ sockets[k].writer # "gone"}
           old == [k \in DOMAIN sockets |->
                     IF k \in before THEN [sockets[k] EXCEPT !.alone = FALSE] ELSE sockets[k]]
           new == [id |-> i, connected |-> TRUE, writer |-> "waiting",
                   reader |-> "reading", to |-> 0, alone |-> before = {}]
           n == Len(sockets)
<1>1. /\ n \in Nat /\ DOMAIN sockets = 1..n /\ \A k \in 1..n : sockets[k] \in Socket
      /\ clients \in [ClientIds -> 0..n]
  BY SocketsDomain DEF ClientsInv, SocketsInv
<1>2. /\ old \in Seq(Socket) /\ Len(old) = n
      /\ \A k \in 1..n : old[k] = IF k \in before THEN [sockets[k] EXCEPT !.alone = FALSE]
                                  ELSE sockets[k]
  <2>1. \A k \in 1..n : (IF k \in before THEN [sockets[k] EXCEPT !.alone = FALSE]
                         ELSE sockets[k]) \in Socket
    BY <1>1 DEF Socket
  <2> HIDE DEF before, n
  <2> QED BY <1>1, <2>1
<1>3. new \in Socket
  BY DEF Socket
<1>4. /\ sockets' = Append(old, new) /\ clients' = [clients EXCEPT ![i] = Len(sockets')]
      /\ crashed' = crashed
  BY DEF Open, Up
<1>5. \A k \in 1..n : k \in before <=> (sockets[k].id = i /\ Alive(k))
  BY <1>1 DEF Alive
<1>6. new.id = i /\ new.writer = "waiting" /\ new.reader = "reading" /\ new.to = 0
      /\ (new.alone <=> before = {})
  OBVIOUS
<1> HIDE DEF old, new
<1>7. /\ sockets' \in Seq(Socket) /\ Len(sockets') = n + 1 /\ sockets'[n + 1] = new
      /\ \A k \in 1..n : sockets'[k] = old[k]
  BY <1>2, <1>3, <1>4, AppendProperties
<1>8. \A k \in 1..n :
        /\ sockets'[k].id = sockets[k].id
        /\ sockets'[k].to = sockets[k].to /\ sockets'[k].reader = sockets[k].reader
        /\ Alive(k)' <=> Alive(k)
        /\ sockets'[k].alone => sockets[k].alone /\ ~(sockets[k].id = i /\ Alive(k))
  <2> SUFFICES ASSUME NEW k \in 1..n
               PROVE  /\ sockets'[k].id = sockets[k].id
                      /\ sockets'[k].to = sockets[k].to /\ sockets'[k].reader = sockets[k].reader
                      /\ Alive(k)' <=> Alive(k)
                      /\ sockets'[k].alone => sockets[k].alone /\ ~(sockets[k].id = i /\ Alive(k))
    OBVIOUS
  <2> HIDE DEF before, n
  <2>1. CASE k \in before
    <3>1. sockets'[k] = [sockets[k] EXCEPT !.alone = FALSE] /\ sockets[k] \in Socket
      BY <1>1, <1>2, <1>7, <2>1
    <3> QED BY <3>1 DEF Alive, Socket
  <2>2. CASE k \notin before
    <3>1. sockets'[k] = sockets[k]
      BY <1>2, <1>7, <2>2
    <3> QED BY <1>5, <2>2, <3>1 DEF Alive
  <2> QED BY <2>1, <2>2
<1>9. clients' \in [ClientIds -> 0..n + 1] /\ clients'[i] = n + 1
      /\ \A j \in ClientIds : j # i => clients'[j] = clients[j]
  BY <1>1, <1>4, <1>7
<1>10. sockets'[n + 1].id = i /\ sockets'[n + 1].writer # "gone" /\ sockets'[n + 1].to = 0
       /\ sockets'[n + 1].reader = "reading" /\ (sockets'[n + 1].alone <=> before = {})
  <2> HIDE DEF before, n
  <2> QED BY <1>6, <1>7
<1>11. \A k \in 1..n + 1 : k \in 1..n \/ k = n + 1
  BY <1>1
<1>12. \A k \in 1..n : /\ sockets[k].to <= n /\ sockets[k].to \in Nat
                       /\ sockets[k].to # 0 <=> sockets[k].reader = "sending"
  BY <1>1 DEF ClientsInv, SocketsInv, Socket
<1>13. /\ \A j \in ClientIds : clients[j] # 0 =>
            /\ clients[j] \in 1..n /\ sockets[clients[j]].id = j /\ Alive(clients[j])
            /\ \A k \in 1..n : sockets[k].id = j => k <= clients[j]
       /\ \A k \in 1..n : Alive(k) /\ sockets[k].alone => clients[sockets[k].id] = k
       /\ \A j, k \in 1..n :
            j # k /\ Alive(j) /\ Alive(k) /\ sockets[j].id = sockets[k].id => ~sockets[j].alone
  BY <1>1 DEF ClientsInv, HeldInv, ServedInv, AloneInv
<1>14. \A k \in 1..n : sockets[k].id \in ClientIds
  BY <1>1 DEF Socket
<1> HIDE DEF n, before
<1>15. SocketsInv'
  <2>1. \A k \in 1..n + 1 : /\ sockets'[k].to <= n + 1
                            /\ sockets'[k].to # 0 <=> sockets'[k].reader = "sending"
    BY SMTT(30), <1>1, <1>8, <1>10, <1>11, <1>12
  <2>2. crashed' \in BOOLEAN
    BY <1>4 DEF ClientsInv, SocketsInv
  <2> QED BY <1>7, <1>9, <2>1, <2>2 DEF SocketsInv
<1>16. HeldInv'
  <2> SUFFICES ASSUME NEW j \in ClientIds, clients'[j] # 0
               PROVE  /\ sockets'[clients'[j]].id = j /\ sockets'[clients'[j]].writer # "gone"
                      /\ \A k \in 1..n + 1 : sockets'[k].id = j => k <= clients'[j]
    BY <1>7 DEF HeldInv, Alive
  <2>1. CASE j = i
    <3>1. \A k \in 1..n + 1 : k <= clients'[j]
      BY <1>1, <1>9, <2>1
    <3> QED BY <1>9, <1>10, <2>1, <3>1 DEF Alive
  <2>2. CASE j # i
    BY <1>8, <1>9, <1>10, <1>11, <1>13, <2>2 DEF Alive
  <2> QED BY <2>1, <2>2
<1>17. ServedInv'
  <2> SUFFICES ASSUME NEW k \in 1..n + 1, Alive(k)', sockets'[k].alone
               PROVE  clients'[sockets'[k].id] = k
    BY <1>7 DEF ServedInv
  <2> QED BY <1>8, <1>9, <1>10, <1>11, <1>13, <1>14
<1>18. AloneInv'
  <2> SUFFICES ASSUME NEW j \in 1..n + 1, NEW k \in 1..n + 1, j # k, Alive(j)', Alive(k)',
                      sockets'[j].id = sockets'[k].id, sockets'[j].alone
               PROVE  FALSE
    BY <1>7 DEF AloneInv
  <2>1. CASE j \in 1..n /\ k \in 1..n
    BY <1>8, <1>13, <2>1
  <2>2. CASE j = n + 1 /\ k \in 1..n
    BY <1>5, <1>8, <1>10, <2>2
  <2>3. CASE j \in 1..n /\ k = n + 1
    BY <1>8, <1>10, <2>3
  <2> QED BY <1>11, <2>1, <2>2, <2>3
<1> QED BY <1>15, <1>16, <1>17, <1>18 DEF ClientsInv

-----------------------------------------------------------------------------
(***************************************************************************)
(* The invariant holds always, for any clients and sockets.                *)
(***************************************************************************)
THEOREM ClientsInvariance == ClientsSpec => []ClientsInv
<1>1. ClientsInv /\ [ClientsNext]_clientVars => ClientsInv'
  <2> SUFFICES ASSUME ClientsInv, [ClientsNext]_clientVars PROVE ClientsInv'
    OBVIOUS
  <2>1. CASE ClientsNext
    BY <2>1, OpenInv, ReadMessageInv, DisconnectInv, ReadFailsInv, SendInv, SendOnClosedInv,
       WriteInv, ChannelClosedInv DEF ClientsNext
  <2>2. CASE UNCHANGED clientVars
    BY <2>2 DEF clientVars, ClientsInv, SocketsInv, HeldInv, ServedInv, AloneInv, Alive
  <2> QED BY <2>1, <2>2
<1> QED BY ClientsInitInv, <1>1, PTL DEF ClientsSpec

(***************************************************************************)
(* The sockets, the store and the process keep their types.                *)
(***************************************************************************)
THEOREM ClientsTypeCorrect == ClientsSpec => []ClientsTypeOK
<1>1. ClientsInv => ClientsTypeOK
  BY SocketsDomain DEF ClientsInv, SocketsInv, ClientsTypeOK, Socket
<1> QED BY ClientsInvariance, <1>1, PTL

(***************************************************************************)
(* HandleWebsocket: the store holds the last socket of a client and one    *)
(* that is written to, and a client's only socket is in the store.         *)
(***************************************************************************)
THEOREM OnlySocketIsServed == ClientsSpec => []ClientsAreServed
<1>1. ClientsInv => ClientsAreServed
  BY SocketsDomain DEF ClientsInv, HeldInv, ServedInv, Alive, ClientsAreServed
<1> QED BY ClientsInvariance, <1>1, PTL
-----------------------------------------------------------------------------
(***************************************************************************)
(* The starts of sessions                                                  *)
(***************************************************************************)

StartsInv ==
  /\ hosts \in Seq(Hosts) /\ statuses \in Seq(Hosts)
  /\ registry \in [Hosts -> 0..Len(statuses)]
  /\ pending \in [Hosts -> 0..Len(hosts)] /\ starting \in [Hosts -> 0..Len(hosts)]
  /\ handler \in [at : {"idle", "registered", "published"}, host : Hosts \cup {"none"}]
  /\ announced \subseteq 1..Len(hosts)
  /\ rejected \subseteq 1..Len(hosts) /\ overtaken \subseteq 1..Len(hosts)
  /\ reboots \in 0..MaxReboots /\ failed \in BOOLEAN

\* What waits for a connection is a session of it, and what is about to be put
\* is later than what it replaces.
WaitingInv ==
  \A c \in Hosts :
    /\ pending[c] # 0 => hosts[pending[c]] = c
    /\ starting[c] # 0 => hosts[starting[c]] = c /\ pending[c] < starting[c]

\* While the handler is busy its connection stays registered, so that only a
\* start that was overtaken replaces the one it announced.
HandlingInv ==
  /\ handler.at # "idle" => handler.host \in Hosts /\ registry[handler.host] # 0
  /\ handler.at = "published" => pending[handler.host] \in announced \cup overtaken

\* The two halves of StartIsAnnounced.
Accounted(n) ==
  \/ n = pending[hosts[n]] \/ n = starting[hosts[n]] \/ n \in announced \cup rejected
  \/ \E m \in n + 1..Len(hosts) : hosts[m] = hosts[n]
AccountedInv == reboots = 0 => \A n \in 1..Len(hosts) \ overtaken : Accounted(n)
PromptlyInv ==
  reboots = 0 =>
    \A c \in Hosts : pending[c] \notin {0} \cup overtaken /\ registry[c] # 0 =>
      (handler.at # "idle" /\ handler.host = c) \/ failed

AnnouncingInv == StartsInv /\ WaitingInv /\ HandlingInv /\ AccountedInv /\ PromptlyInv

LEMMA HostsDomain ==
  ASSUME StartsInv
  PROVE  /\ Len(hosts) \in Nat /\ DOMAIN hosts = 1..Len(hosts)
         /\ Len(statuses) \in Nat /\ DOMAIN statuses = 1..Len(statuses)
         /\ \A n \in 1..Len(hosts) : hosts[n] \in Hosts
         /\ \A r \in 1..Len(statuses) : statuses[r] \in Hosts
BY LenProperties, ElementOfSeq DEF StartsInv

LEMMA StartsInitInv == ASSUME MaxReboots \in Nat, StartsInit PROVE AnnouncingInv
<1>1. hosts \in Seq(Hosts) /\ Len(hosts) = 0 /\ statuses \in Seq(Hosts) /\ Len(statuses) = 0
  BY EmptySeq DEF StartsInit
<1>2. /\ registry \in [Hosts -> 0..Len(statuses)]
      /\ pending \in [Hosts -> 0..Len(hosts)] /\ starting \in [Hosts -> 0..Len(hosts)]
      /\ \A c \in Hosts : registry[c] = 0 /\ pending[c] = 0 /\ starting[c] = 0
  <2>1. 0 \in 0..Len(hosts) /\ 0 \in 0..Len(statuses)
    BY <1>1
  <2> QED BY <2>1 DEF StartsInit, Empty
<1>3. handler \in [at : {"idle", "registered", "published"}, host : Hosts \cup {"none"}]
      /\ handler.at = "idle"
  BY DEF StartsInit, Idle
<1>4. /\ announced \subseteq 1..Len(hosts) /\ rejected \subseteq 1..Len(hosts)
      /\ overtaken \subseteq 1..Len(hosts)
      /\ reboots \in 0..MaxReboots /\ failed \in BOOLEAN
  <2>1. announced = {} /\ rejected = {} /\ overtaken = {} /\ reboots = 0 /\ failed = FALSE
    BY DEF StartsInit
  <2>2. 0 \in 0..MaxReboots
    OBVIOUS
  <2> QED BY <2>1, <2>2
<1>5. StartsInv
  BY <1>1, <1>2, <1>3, <1>4 DEF StartsInv
<1> QED BY <1>1, <1>2, <1>3, <1>5
        DEF AnnouncingInv, WaitingInv, HandlingInv, AccountedInv, PromptlyInv

\* A session more: everything said of the earlier ones goes on.
LEMMA StartSessionInv ==
  ASSUME AnnouncingInv, NEW c \in Hosts, StartSession(c)
  PROVE  AnnouncingInv'
<1> DEFINE n == Len(hosts)
<1>1. StartsInv
  BY DEF AnnouncingInv
<1>2. /\ n \in Nat /\ hosts \in Seq(Hosts)
      /\ hosts' = Append(hosts, c) /\ starting[c] = 0
      /\ UNCHANGED <<statuses, registry, pending, handler, reboots, failed, overtaken>>
  BY <1>1, HostsDomain DEF StartSession, StartsInv
<1>3. /\ hosts' \in Seq(Hosts) /\ Len(hosts') = n + 1 /\ hosts'[n + 1] = c
      /\ \A k \in 1..n : hosts'[k] = hosts[k] /\ hosts[k] \in Hosts
  BY <1>1, <1>2, AppendProperties, HostsDomain
<1>4. /\ starting' \in [Hosts -> 0..n + 1]
      /\ announced' \subseteq 1..n + 1 /\ rejected' \subseteq 1..n + 1
      /\ announced \subseteq announced' /\ rejected \subseteq rejected'
      /\ starting'[c] = n + 1 \/ (starting'[c] = 0 /\ n + 1 \in announced' \cup rejected')
      /\ \A d \in Hosts : d # c => starting'[d] = starting[d]
  <2>1. /\ starting \in [Hosts -> 0..n + 1] /\ n + 1 \in 0..n + 1
        /\ announced \subseteq 1..n + 1 /\ rejected \subseteq 1..n + 1
    BY <1>1, <1>2 DEF StartsInv
  <2>2. CASE registry[c] # 0
    <3>1. /\ \/ announced' = announced \cup {n + 1} /\ rejected' = rejected
             \/ rejected' = rejected \cup {n + 1} /\ announced' = announced
          /\ starting' = starting
      BY <1>3, <2>2 DEF StartSession
    <3>2. n + 1 \in 1..n + 1 /\ n + 1 \in announced' \cup rejected' /\ starting'[c] = 0
      BY <1>2, <3>1
    <3> QED BY <2>1, <3>1, <3>2
  <2>3. CASE registry[c] = 0
    <3>1. /\ announced' = announced /\ rejected' = rejected
          /\ starting' = [starting EXCEPT ![c] = n + 1]
      BY <1>3, <2>3 DEF StartSession
    <3> QED BY <2>1, <3>1
  <2> QED BY <2>2, <2>3
<1>5. \A d \in Hosts : pending[d] \in 0..n /\ starting[d] \in 0..n /\ registry[d] \in Nat
  BY <1>1, HostsDomain DEF StartsInv
<1>6. /\ \A d \in Hosts :
           /\ pending[d] # 0 => hosts[pending[d]] = d
           /\ starting[d] # 0 => hosts[starting[d]] = d /\ pending[d] < starting[d]
      /\ HandlingInv /\ AccountedInv /\ PromptlyInv
  BY DEF AnnouncingInv, WaitingInv
<1>7. StartsInv'
  <2>1. pending' \in [Hosts -> 0..n + 1]
    BY <1>1, <1>2 DEF StartsInv
  <2>2. overtaken' \subseteq 1..n + 1
    BY <1>1, <1>2 DEF StartsInv
  <2> QED BY <1>1, <1>2, <1>3, <1>4, <2>1, <2>2 DEF StartsInv
<1>8. \A k \in 1..n + 1 : k \in 1..n \/ k = n + 1
  BY <1>2
<1> HIDE DEF n
<1>9. WaitingInv'
  <2> SUFFICES ASSUME NEW d \in Hosts
               PROVE  /\ pending[d] # 0 => hosts'[pending[d]] = d
                      /\ starting'[d] # 0 => hosts'[starting'[d]] = d /\ pending[d] < starting'[d]
    BY <1>2 DEF WaitingInv
  <2>1. pending[d] # 0 => hosts'[pending[d]] = d
    BY <1>2, <1>3, <1>5, <1>6
  <2>2. CASE d = c
    BY <1>2, <1>3, <1>4, <1>5, <2>1, <2>2
  <2>3. CASE d # c
    BY <1>2, <1>3, <1>4, <1>5, <1>6, <2>1, <2>3
  <2> QED BY <2>2, <2>3
<1>10. HandlingInv' /\ PromptlyInv'
  BY <1>2, <1>4, <1>6 DEF HandlingInv, PromptlyInv
<1>11. AccountedInv'
  <2> SUFFICES ASSUME reboots = 0, NEW k \in 1..n + 1, k \notin overtaken
               PROVE  Accounted(k)'
    BY <1>2, <1>3 DEF AccountedInv
  <2>1. CASE k = n + 1
    BY <1>3, <1>4, <2>1 DEF Accounted
  <2>2. CASE k \in 1..n
    <3>1. k # 0 /\ hosts'[k] = hosts[k] /\ hosts[k] \in Hosts /\ Accounted(k)
      BY <1>3, <1>6, <2>2 DEF AccountedInv, n
    <3>2. CASE \E m \in k + 1..n : hosts[m] = hosts[k]
      BY <1>2, <1>3, <2>2, <3>1, <3>2 DEF Accounted
    <3>3. CASE k = pending[hosts[k]] \/ k \in announced \cup rejected
      BY <1>2, <1>4, <3>1, <3>3 DEF Accounted
    <3>4. CASE k = starting[hosts[k]]
      BY <1>2, <1>4, <3>1, <3>4 DEF Accounted
    <3> QED BY <3>1, <3>2, <3>3, <3>4 DEF Accounted, n
  <2> QED BY <1>8, <2>1, <2>2
<1> QED BY <1>7, <1>9, <1>10, <1>11 DEF AnnouncingInv

\* What it replaces is an earlier session of the same connection.
LEMMA PutPendingInv ==
  ASSUME AnnouncingInv, NEW c \in Hosts, PutPending(c)
  PROVE  AnnouncingInv'
<1>1. /\ StartsInv /\ HandlingInv /\ AccountedInv /\ PromptlyInv
      /\ \A d \in Hosts :
           /\ pending[d] # 0 => hosts[pending[d]] = d
           /\ starting[d] # 0 => hosts[starting[d]] = d /\ pending[d] < starting[d]
  BY DEF AnnouncingInv, WaitingInv
<1>2. /\ starting[c] # 0
      /\ overtaken' = IF registry[c] # 0 THEN overtaken \cup {starting[c]} ELSE overtaken
      /\ UNCHANGED <<hosts, statuses, registry, handler, announced, rejected, reboots, failed>>
  BY DEF PutPending
<1>3. /\ pending \in [Hosts -> 0..Len(hosts)] /\ starting \in [Hosts -> 0..Len(hosts)]
      /\ pending' = [pending EXCEPT ![c] = starting[c]]
      /\ starting' = [starting EXCEPT ![c] = 0]
  BY <1>1 DEF StartsInv, PutPending
<1>4. /\ pending' \in [Hosts -> 0..Len(hosts)] /\ starting' \in [Hosts -> 0..Len(hosts)]
      /\ pending'[c] = starting[c] /\ starting'[c] = 0
      /\ \A d \in Hosts : d # c => pending'[d] = pending[d] /\ starting'[d] = starting[d]
  <2>1. 0 \in 0..Len(hosts)
    BY <1>1, HostsDomain
  <2> QED BY <1>3, <2>1
<1>5. StartsInv'
  <2>1. starting[c] \in 1..Len(hosts)
    BY <1>2, <1>3, <1>1, HostsDomain
  <2>2. overtaken' \subseteq 1..Len(hosts)
    BY <1>1, <1>2, <2>1 DEF StartsInv
  <2> QED BY <1>1, <1>2, <1>4, <2>2 DEF StartsInv
<1>6. WaitingInv'
  BY <1>1, <1>2, <1>4 DEF WaitingInv
<1>7. HandlingInv'
  <2>1. overtaken \subseteq overtaken' /\ (registry[c] # 0 => pending'[c] \in overtaken')
    BY <1>2, <1>4
  <2> QED BY <1>1, <1>2, <1>4, <2>1 DEF HandlingInv
<1>8. PromptlyInv'
  BY <1>1, <1>2, <1>4 DEF PromptlyInv, StartsInv
<1>9. AccountedInv'
  <2> SUFFICES ASSUME reboots = 0, NEW n \in 1..Len(hosts), n \notin overtaken'
               PROVE  Accounted(n)'
    BY <1>2 DEF AccountedInv
  <2>1. Accounted(n) /\ hosts[n] \in Hosts
    BY <1>1, <1>2, HostsDomain DEF AccountedInv
  <2>2. CASE n = pending[c] /\ hosts[n] = c
    <3>1. starting[c] \in n + 1..Len(hosts) /\ hosts[starting[c]] = c
      BY <1>1, <1>2, <1>3, <2>2, HostsDomain
    <3> QED BY <1>2, <2>2, <3>1 DEF Accounted
  <2>3. CASE n = starting[c] /\ hosts[n] = c
    BY <1>2, <1>4, <2>3 DEF Accounted
  <2>4. CASE hosts[n] # c \/ (n # pending[c] /\ n # starting[c])
    BY <1>2, <1>4, <2>1, <2>4 DEF Accounted
  <2> QED BY <2>2, <2>3, <2>4
<1> QED BY <1>5, <1>6, <1>7, <1>8, <1>9 DEF AnnouncingInv

LEMMA ConnectedInv ==
  ASSUME AnnouncingInv, NEW c \in Hosts, Connected(c)
  PROVE  AnnouncingInv'
<1> DEFINE n == Len(statuses)
<1>1. StartsInv /\ WaitingInv /\ HandlingInv /\ AccountedInv /\ PromptlyInv
  BY DEF AnnouncingInv
<1>2. /\ UNCHANGED <<hosts, pending, starting, announced, rejected, reboots, failed, overtaken>>
      /\ handler' = [at |-> "registered", host |-> c]
      /\ statuses' = Append(statuses, c) /\ registry' = [registry EXCEPT ![c] = Len(statuses')]
  BY DEF Connected
<1>3. n \in Nat /\ statuses' \in Seq(Hosts) /\ Len(statuses') = n + 1
  BY <1>1, <1>2, AppendProperties, HostsDomain DEF StartsInv
<1>4. /\ registry' \in [Hosts -> 0..n + 1] /\ registry'[c] # 0
      /\ \A d \in Hosts : d # c => registry'[d] = registry[d]
  <2>1. registry \in [Hosts -> 0..n]
    BY Zenon, <1>1 DEF StartsInv
  <2>2. 0..n \subseteq 0..n + 1 /\ n + 1 \in 0..n + 1 /\ n + 1 # 0
    BY <1>3
  <2> QED BY <1>2, <1>3, <2>1, <2>2
<1>5. StartsInv'
  BY <1>1, <1>2, <1>3, <1>4 DEF StartsInv
<1>6. HandlingInv'
  BY <1>2, <1>4 DEF HandlingInv
<1>7. PromptlyInv'
  <2> SUFFICES ASSUME reboots = 0, NEW d \in Hosts, d # c,
                      pending[d] \notin {0} \cup overtaken, registry[d] # 0
               PROVE  failed
    BY <1>2, <1>4 DEF PromptlyInv
  <2>1. handler = Idle
    BY DEF Connected
  <2>2. handler.at # "idle" \/ failed
    BY <1>1 DEF PromptlyInv
  <2> QED BY <2>1, <2>2 DEF Idle
<1>8. WaitingInv' /\ AccountedInv'
  BY <1>1, <1>2 DEF WaitingInv, AccountedInv, Accounted
<1> QED BY <1>5, <1>6, <1>7, <1>8 DEF AnnouncingInv

LEMMA AnnouncePendingInv ==
  ASSUME AnnouncingInv, AnnouncePending
  PROVE  AnnouncingInv'
<1> DEFINE h == handler.host
<1>1. StartsInv /\ WaitingInv /\ HandlingInv /\ AccountedInv /\ PromptlyInv
  BY DEF AnnouncingInv
<1>2. /\ h \in Hosts /\ registry[h] # 0 /\ pending[h] \in 0..Len(hosts)
      /\ UNCHANGED <<hosts, statuses, registry, pending, starting, rejected, reboots, overtaken>>
  BY <1>1 DEF AnnouncePending, HandlingInv, StartsInv
<1>3. \A s \in {"idle", "registered", "published"}, d \in Hosts \cup {"none"} :
        [at |-> s, host |-> d] \in
          [at : {"idle", "registered", "published"}, host : Hosts \cup {"none"}]
  OBVIOUS
<1>4. Idle \in [at : {"idle", "registered", "published"}, host : Hosts \cup {"none"}]
  BY DEF Idle
<1>5. /\ failed' \in BOOLEAN /\ (failed => failed')
      /\ announced \subseteq announced' /\ announced' \subseteq 1..Len(hosts)
      /\ \/ handler' = Idle /\ (pending[h] = 0 \/ failed')
         \/ handler' = [handler EXCEPT !.at = "published"] /\ pending[h] \in announced'
  <2>1. announced \subseteq 1..Len(hosts) /\ failed \in BOOLEAN
    BY <1>1 DEF StartsInv
  <2>2. pending[h] # 0 => pending[h] \in 1..Len(hosts)
    BY <1>1, <1>2, HostsDomain
  <2>3. \/ pending[h] = 0 /\ handler' = Idle /\ UNCHANGED <<announced, failed>>
        \/ /\ pending[h] # 0 /\ announced' = announced \cup {pending[h]}
           /\ handler' = [handler EXCEPT !.at = "published"] /\ UNCHANGED failed
        \/ handler' = Idle /\ failed' = TRUE /\ UNCHANGED announced
    BY DEF AnnouncePending
  <2> HIDE DEF h
  <2> QED BY <2>1, <2>2, <2>3
<1> HIDE DEF h
<1>6. handler' \in [at : {"idle", "registered", "published"}, host : Hosts \cup {"none"}]
  BY <1>1, <1>4, <1>5 DEF StartsInv
<1>7. StartsInv'
  <2>1. failed' \in BOOLEAN /\ announced' \subseteq 1..Len(hosts)
    BY <1>5
  <2> QED BY <1>1, <1>2, <1>6, <2>1 DEF StartsInv
<1>8. WaitingInv'
  BY <1>1, <1>2 DEF WaitingInv
<1>9. AccountedInv'
  BY <1>1, <1>2, <1>5 DEF AccountedInv, Accounted
<1>10. CASE handler' = Idle /\ (pending[h] = 0 \/ failed')
  <2>1. handler'.at = "idle"
    BY <1>10 DEF Idle
  <2>2. HandlingInv'
    BY <2>1 DEF HandlingInv
  <2>3. PromptlyInv'
    <3> SUFFICES ASSUME reboots = 0, NEW d \in Hosts,
                        pending[d] \notin {0} \cup overtaken, registry[d] # 0
                 PROVE  failed'
      BY <1>2 DEF PromptlyInv
    <3>1. handler.host = d \/ failed
      BY <1>1 DEF PromptlyInv
    <3> QED BY <1>5, <1>10, <3>1 DEF h
  <2> QED BY <1>7, <1>8, <1>9, <2>2, <2>3 DEF AnnouncingInv
<1>11. CASE handler' = [handler EXCEPT !.at = "published"] /\ pending[h] \in announced'
  <2>1. handler'.at = "published" /\ handler'.host = h
    BY <1>1, <1>11 DEF StartsInv, h
  <2>2. HandlingInv'
    BY <1>2, <1>11, <2>1 DEF HandlingInv
  <2>3. PromptlyInv'
    <3> SUFFICES ASSUME reboots = 0, NEW d \in Hosts,
                        pending[d] \notin {0} \cup overtaken, registry[d] # 0
                 PROVE  handler'.host = d \/ failed'
      BY <1>2, <2>1 DEF PromptlyInv
    <3>1. handler.host = d \/ failed
      BY <1>1 DEF PromptlyInv
    <3> QED BY <1>5, <2>1, <3>1 DEF h
  <2> QED BY <1>7, <1>8, <1>9, <2>2, <2>3 DEF AnnouncingInv
<1> QED BY <1>5, <1>10, <1>11

LEMMA DeletePendingInv ==
  ASSUME AnnouncingInv, DeletePending
  PROVE  AnnouncingInv'
<1> DEFINE h == handler.host
<1>1. StartsInv /\ WaitingInv /\ HandlingInv /\ AccountedInv /\ PromptlyInv
  BY DEF AnnouncingInv
<1>2. /\ h \in Hosts /\ pending[h] \in announced \cup overtaken
      /\ pending' = [pending EXCEPT ![h] = 0] /\ handler' = Idle
      /\ UNCHANGED <<hosts, statuses, registry, starting, announced, rejected, reboots, failed,
                     overtaken>>
  BY <1>1 DEF DeletePending, HandlingInv
<1> HIDE DEF h
<1>3. /\ pending' \in [Hosts -> 0..Len(hosts)] /\ pending'[h] = 0
      /\ \A d \in Hosts : d # h => pending'[d] = pending[d]
  <2>1. pending \in [Hosts -> 0..Len(hosts)]
    BY Zenon, <1>1 DEF StartsInv
  <2>2. 0 \in 0..Len(hosts)
    BY <1>1, HostsDomain
  <2> QED BY <1>2, <2>1, <2>2
<1>4. handler'.at = "idle"
      /\ handler' \in [at : {"idle", "registered", "published"}, host : Hosts \cup {"none"}]
  BY <1>2 DEF Idle
<1>5. StartsInv'
  BY <1>1, <1>2, <1>3, <1>4 DEF StartsInv
<1>6. WaitingInv'
  <2> SUFFICES ASSUME NEW d \in Hosts
               PROVE  /\ pending'[d] # 0 => hosts[pending'[d]] = d
                      /\ starting[d] # 0 => hosts[starting[d]] = d /\ pending'[d] < starting[d]
    BY <1>2 DEF WaitingInv
  <2>1. starting[d] \in Nat
    BY <1>1, HostsDomain DEF StartsInv
  <2> QED BY <1>1, <1>3, <2>1 DEF WaitingInv
<1>7. HandlingInv'
  BY <1>4 DEF HandlingInv
<1>8. PromptlyInv'
  BY <1>1, <1>2, <1>3 DEF PromptlyInv, h
<1>9. AccountedInv'
  <2> SUFFICES ASSUME reboots = 0, NEW n \in 1..Len(hosts), n \notin overtaken
               PROVE  Accounted(n)'
    BY <1>2 DEF AccountedInv
  <2>1. Accounted(n) /\ hosts[n] \in Hosts
    BY <1>1, HostsDomain DEF AccountedInv
  <2>2. n = pending[h] => n \in announced
    BY <1>2
  <2> QED BY <1>2, <1>3, <2>1, <2>2 DEF Accounted
<1> QED BY <1>5, <1>6, <1>7, <1>8, <1>9 DEF AnnouncingInv

LEMMA DisconnectedInv ==
  ASSUME AnnouncingInv, NEW r \in DOMAIN statuses, Disconnected(r)
  PROVE  AnnouncingInv'
<1>1. StartsInv /\ WaitingInv /\ HandlingInv /\ AccountedInv /\ PromptlyInv
  BY DEF AnnouncingInv
<1>2. /\ UNCHANGED <<hosts, statuses, pending, starting, handler, announced, rejected, reboots,
                     failed, overtaken>>
      /\ handler = Idle
  BY DEF Disconnected
<1>3. /\ registry' \in [Hosts -> 0..Len(statuses)]
      /\ \A d \in Hosts : registry'[d] # 0 => registry[d] # 0
  <2>1. registry \in [Hosts -> 0..Len(statuses)]
    BY Zenon, <1>1 DEF StartsInv
  <2>2. 0 \in 0..Len(statuses) /\ statuses[r] \in Hosts
    BY <1>1, HostsDomain
  <2>3. registry' = [registry EXCEPT ![statuses[r]] = IF registry[statuses[r]] = r THEN 0
                                                      ELSE registry[statuses[r]]]
    BY DEF Disconnected
  <2> QED BY <2>1, <2>2, <2>3
<1>4. StartsInv'
  BY <1>1, <1>2, <1>3 DEF StartsInv
<1>5. HandlingInv'
  BY <1>2 DEF HandlingInv, Idle
<1>6. PromptlyInv'
  BY <1>1, <1>2, <1>3 DEF PromptlyInv
<1>7. WaitingInv' /\ AccountedInv'
  BY <1>1, <1>2 DEF WaitingInv, AccountedInv, Accounted
<1> QED BY <1>4, <1>5, <1>6, <1>7 DEF AnnouncingInv

LEMMA RebootInv ==
  ASSUME AnnouncingInv, MaxReboots \in Nat, Reboot
  PROVE  AnnouncingInv'
<1>1. StartsInv
  BY DEF AnnouncingInv
<1>2. /\ UNCHANGED <<hosts, statuses, announced, rejected, failed, overtaken>>
      /\ reboots' \in 0..MaxReboots /\ reboots' # 0 /\ handler'.at = "idle"
      /\ handler' \in [at : {"idle", "registered", "published"}, host : Hosts \cup {"none"}]
  BY <1>1 DEF Reboot, StartsInv, Idle
<1>3. /\ registry' \in [Hosts -> 0..Len(statuses)]
      /\ pending' \in [Hosts -> 0..Len(hosts)] /\ starting' \in [Hosts -> 0..Len(hosts)]
      /\ \A c \in Hosts : pending'[c] = 0 /\ starting'[c] = 0
  <2>1. 0 \in 0..Len(hosts) /\ 0 \in 0..Len(statuses)
    BY <1>1, HostsDomain
  <2> QED BY <2>1 DEF Reboot, Empty
<1>4. StartsInv'
  BY <1>1, <1>2, <1>3 DEF StartsInv
<1> QED BY <1>2, <1>3, <1>4
        DEF AnnouncingInv, WaitingInv, HandlingInv, AccountedInv, PromptlyInv

LEMMA StartsNextInv ==
  ASSUME AnnouncingInv, MaxReboots \in Nat, [StartsNext]_startVars
  PROVE  AnnouncingInv'
<1>1. CASE StartsNext
  BY <1>1, StartSessionInv, PutPendingInv, ConnectedInv, AnnouncePendingInv, DeletePendingInv,
     DisconnectedInv, RebootInv DEF StartsNext
<1>2. CASE UNCHANGED startVars
  BY <1>2 DEF startVars, AnnouncingInv, StartsInv, WaitingInv, HandlingInv, AccountedInv,
     Accounted, PromptlyInv
<1> QED BY <1>1, <1>2

(***************************************************************************)
(* The registry, the pending starts and the handler of statuses keep their *)
(* types: what they hold are statuses and sessions there have been.        *)
(***************************************************************************)
THEOREM StartsTypeCorrect == ASSUME MaxReboots \in Nat PROVE StartsSpec => []StartsTypeOK
<1>1. AnnouncingInv => StartsTypeOK
  BY HostsDomain DEF AnnouncingInv, StartsInv, StartsTypeOK
<1> QED BY StartsInitInv, StartsNextInv, <1>1, PTL DEF StartsSpec

(***************************************************************************)
(* StartSession and handleConnected: a session that was started is         *)
(* announced, or answered with an error, or is pending for a connection    *)
(* that has still to come, or a later one of the same connection took its  *)
(* place; unless the backend was restarted.  It is not said of a start     *)
(* that is put after its connection registered: the handler may delete it  *)
(* unannounced.  Such a start harms no other.                              *)
(***************************************************************************)
THEOREM NoStartForgotten == ASSUME MaxReboots \in Nat PROVE StartsSpec => []StartIsAnnounced
<1>1. AnnouncingInv => StartIsAnnounced
  BY HostsDomain DEF AnnouncingInv, StartsInv, AccountedInv, Accounted, PromptlyInv,
     StartIsAnnounced
<1> QED BY StartsInitInv, StartsNextInv, <1>1, PTL DEF StartsSpec

-----------------------------------------------------------------------------
(***************************************************************************)
(* The accounts                                                            *)
(***************************************************************************)

LogLine == [type : {"created", "reset"}, email : Emails]
Account == [id : Ids, email : Emails, password : Ids]
Token == [email : Emails, kept : BOOLEAN]

\* The bounds are numbers, and no account is none.
AccountBounds ==
  /\ MaxEvents \in Nat /\ MaxTokens \in Nat /\ MaxParallel \in Nat /\ MaxRestarts \in Nat
  /\ None \notin [id : Nat, email : Emails, password : Nat]

LogInv ==
  /\ log \in Seq(LogLine) /\ Len(log) \in 0..MaxEvents
  /\ process \in {"running", "crashed", "failed"}
  /\ cursor \in 0..Len(log) /\ writing \in Account \cup {None}
  /\ half \in BOOLEAN /\ (half => writing # None)
  /\ everDeleted \in BOOLEAN /\ restarts \in 0..MaxRestarts

MemoryInv ==
  /\ byId \in [Ids -> Account \cup {None}] /\ byEmail \in [Emails -> Account \cup {None}]
  /\ creating \in [Emails -> 0..MaxParallel]
  /\ tokens \in Seq(Token) /\ Len(tokens) \in 0..MaxTokens
  /\ resetting \in [1..MaxTokens -> 0..MaxParallel]
  /\ deleting \in [Emails -> 0..MaxParallel]
  /\ deleted \subseteq Ids

\* The first n events of the log register the email.
Created(e, n) == \E i \in 1..n : log[i].type = "created" /\ log[i].email = e

\* What is stored or written was registered in what was applied, and what is
\* reset or about to be was registered before.
OriginInv ==
  /\ \A e \in Emails : byEmail[e] # None => byEmail[e].email = e /\ Created(e, cursor)
  /\ writing # None => Created(writing.email, cursor)
  /\ \A t \in 1..Len(tokens) : Created(tokens[t].email, Len(log))
  /\ \A k \in 1..Len(log) : log[k].type = "reset" => Created(log[k].email, k - 1)

\* As long as no account is deleted, what was applied is stored.
StoredInv ==
  /\ \A e \in Emails : deleting[e] > 0 => everDeleted
  /\ ~everDeleted =>
       \A i \in 1..cursor : log[i].type = "created" =>
         byEmail[log[i].email] # None \/ (writing # None /\ writing.email = log[i].email)

\* What stopped the projection.
Twice == \E i, j \in 1..Len(log) : i < j /\ log[i] = log[j] /\ log[i].type = "created"
StoppedInv == process = "failed" => everDeleted \/ Twice

AccountsInv == LogInv /\ MemoryInv /\ OriginInv /\ StoredInv /\ StoppedInv

-----------------------------------------------------------------------------
LEMMA LogDomain ==
  ASSUME AccountsInv
  PROVE  /\ Len(log) \in Nat /\ DOMAIN log = 1..Len(log)
         /\ \A i \in 1..Len(log) : log[i] \in LogLine /\ log[i].email \in Emails
                                   /\ log[i].type \in {"created", "reset"}
         /\ Len(tokens) \in Nat /\ DOMAIN tokens = 1..Len(tokens)
         /\ \A t \in 1..Len(tokens) : tokens[t] \in Token /\ tokens[t].email \in Emails
<1>1. log \in Seq(LogLine) /\ tokens \in Seq(Token)
  BY DEF AccountsInv, LogInv, MemoryInv
<1>2. /\ \A l \in LogLine : l.email \in Emails /\ l.type \in {"created", "reset"}
      /\ \A t \in Token : t.email \in Emails
  BY DEF LogLine, Token
<1>3. Len(log) \in Nat /\ DOMAIN log = 1..Len(log) /\ \A i \in 1..Len(log) : log[i] \in LogLine
  BY <1>1, LenProperties, ElementOfSeq
<1>4. /\ Len(tokens) \in Nat /\ DOMAIN tokens = 1..Len(tokens)
      /\ \A t \in 1..Len(tokens) : tokens[t] \in Token
  BY <1>1, LenProperties, ElementOfSeq
<1> QED BY <1>2, <1>3, <1>4

LEMMA AccountsStart ==
  ASSUME AccountBounds, AccountsInit
  PROVE  AccountsInv
<1>1. /\ log = <<>> /\ process = "running" /\ cursor = 0 /\ writing = None /\ half = FALSE
      /\ tokens = <<>> /\ deleted = {} /\ everDeleted = FALSE /\ restarts = 0
      /\ byId = [i \in Ids |-> None] /\ byEmail = [e \in Emails |-> None]
      /\ creating = [e \in Emails |-> 0] /\ resetting = [t \in 1..MaxTokens |-> 0]
      /\ deleting = [e \in Emails |-> 0]
  BY DEF AccountsInit, EmptyStore
<1>2. /\ <<>> \in Seq(LogLine) /\ <<>> \in Seq(Token) /\ Len(<<>>) = 0
      /\ 0 \in 0..MaxEvents /\ 0 \in 0..MaxTokens /\ 0 \in 0..MaxParallel
      /\ 0 \in 0..MaxRestarts
  BY EmptySeq DEF AccountBounds
<1>3. LogInv
  <2>1. log \in Seq(LogLine) /\ Len(log) = 0
    BY <1>1, <1>2
  <2>2. Len(log) \in 0..MaxEvents /\ cursor \in 0..Len(log) /\ restarts \in 0..MaxRestarts
    BY <1>1, <1>2, <2>1
  <2>3. process \in {"running", "crashed", "failed"} /\ half \in BOOLEAN /\ ~half
    BY <1>1
  <2>4. writing \in Account \cup {None} /\ everDeleted \in BOOLEAN
    BY <1>1
  <2> QED BY <2>1, <2>2, <2>3, <2>4 DEF LogInv
<1>4. MemoryInv
  <2>1. /\ byId \in [Ids -> Account \cup {None}] /\ byEmail \in [Emails -> Account \cup {None}]
    BY <1>1
  <2>2. /\ creating \in [Emails -> 0..MaxParallel] /\ deleting \in [Emails -> 0..MaxParallel]
        /\ resetting \in [1..MaxTokens -> 0..MaxParallel]
    BY <1>1, <1>2
  <2>3. tokens \in Seq(Token) /\ Len(tokens) \in 0..MaxTokens
    BY <1>1, <1>2
  <2> QED BY <1>1, <2>1, <2>2, <2>3 DEF MemoryInv
<1>5. 1..0 = {}
  OBVIOUS
<1>6. OriginInv /\ StoredInv /\ StoppedInv
  BY <1>1, <1>2, <1>5 DEF OriginInv, StoredInv, StoppedInv
<1> QED BY <1>3, <1>4, <1>6 DEF AccountsInv

-----------------------------------------------------------------------------
(* The handlers *)


LEMMA CreatedLater ==
  ASSUME NEW e, NEW m \in Nat, NEW n \in Nat, m <= n, Created(e, m)
  PROVE  Created(e, n)
BY DEF Created

\* What the log says up to a line does not change when others follow it.
LEMMA CreatedStays ==
  ASSUME NEW e, NEW n \in Nat, NEW m \in 0..n, \A i \in 1..n : log'[i] = log[i], Created(e, m)
  PROVE  Created(e, m)'
BY DEF Created

\* A handler that leaves the log, the projection and the emails as they are.
LEMMA SameOrigin ==
  ASSUME AccountsInv, UNCHANGED <<log, cursor, writing, byEmail>>,
         \A t \in 1..Len(tokens') : Created(tokens'[t].email, Len(log))
  PROVE  OriginInv'
<1>1. \A e, n : Created(e, n)' <=> Created(e, n)
  BY DEF Created
<1> QED BY <1>1 DEF AccountsInv, OriginInv

LEMMA SameStored ==
  ASSUME AccountsInv,
         UNCHANGED <<log, process, cursor, writing, byEmail, deleting, everDeleted>>
  PROVE  StoredInv' /\ StoppedInv'
BY DEF AccountsInv, StoredInv, StoppedInv, Twice

LEMMA SameTokens ==
  ASSUME AccountsInv, UNCHANGED log, Len(tokens') = Len(tokens),
         \A t \in 1..Len(tokens) : tokens'[t].email = tokens[t].email
  PROVE  \A t \in 1..Len(tokens') : Created(tokens'[t].email, Len(log))
BY DEF AccountsInv, OriginInv

\* The log gets a line: a reset only of what was created.
LEMMA LineAdded ==
  ASSUME AccountBounds, AccountsInv, NEW l \in LogLine, AppendEvent(l), process = "running",
         l.type = "reset" => Created(l.email, Len(log)),
         UNCHANGED <<process, cursor, writing, half, byEmail, deleting, everDeleted, restarts>>,
         Len(tokens') = Len(tokens),
         \A t \in 1..Len(tokens) : tokens'[t].email = tokens[t].email
  PROVE  LogInv' /\ OriginInv' /\ StoredInv' /\ StoppedInv'
<1>1. PICK n \in Nat : n = Len(log)
  BY LogDomain
<1>2. /\ log' \in Seq(LogLine) /\ Len(log') = n + 1 /\ n + 1 \in 0..MaxEvents
      /\ log'[n + 1] = l /\ \A i \in 1..n : log'[i] = log[i]
  <2>1. n < MaxEvents /\ log' = Append(log, l) /\ log \in Seq(LogLine)
    BY <1>1 DEF AppendEvent, AccountsInv, LogInv
  <2>2. n + 1 \in 0..MaxEvents
    BY <2>1 DEF AccountBounds
  <2> QED BY <1>1, <2>1, <2>2, AppendProperties
<1>3. cursor \in 0..n /\ 0..n \subseteq 0..(n + 1) /\ 1..(n + 1) = 1..n \cup {n + 1}
  BY <1>1 DEF AccountsInv, LogInv
<1>4. LogInv'
  BY <1>2, <1>3 DEF AccountsInv, LogInv
<1>5. \A e : \A m \in 0..n : Created(e, m) => Created(e, m)'
  BY <1>2, CreatedStays
<1>6. \A e : Created(e, n) => Created(e, n + 1)'
  <2> SUFFICES ASSUME NEW e, Created(e, n) PROVE Created(e, n + 1)'
    OBVIOUS
  <2>1. PICK i \in 1..n : log[i].type = "created" /\ log[i].email = e
    BY DEF Created
  <2>2. i \in 1..(n + 1) /\ log'[i] = log[i]
    BY <1>2, <1>3
  <2> QED BY <2>1, <2>2 DEF Created
<1>7. OriginInv'
  <2>1. \A e \in Emails : byEmail'[e] # None => byEmail'[e].email = e /\ Created(e, cursor)'
    BY <1>3, <1>5 DEF AccountsInv, OriginInv
  <2>2. (writing # None => Created(writing.email, cursor))'
    BY <1>3, <1>5 DEF AccountsInv, OriginInv
  <2>3. (\A t \in 1..Len(tokens) : Created(tokens[t].email, Len(log)))'
    BY <1>1, <1>2, <1>6 DEF AccountsInv, OriginInv
  <2>4. (\A k \in 1..Len(log) : log[k].type = "reset" => Created(log[k].email, k - 1))'
    <3>1. ASSUME NEW k \in 1..n, log'[k].type = "reset" PROVE (Created(log[k].email, k - 1))'
      <4>1. k - 1 \in 0..n
        OBVIOUS
      <4>2. Created(log[k].email, k - 1) /\ log'[k] = log[k]
        BY <1>1, <1>2, <3>1 DEF AccountsInv, OriginInv
      <4> QED BY <1>5, <4>1, <4>2
    <3>2. l.type = "reset" => (Created(l.email, (n + 1) - 1))'
      <4>1. (n + 1) - 1 = n /\ n \in 0..n
        OBVIOUS
      <4> QED BY <1>1, <1>5, <4>1
    <3> QED BY <1>2, <1>3, <3>1, <3>2
  <2> QED BY <2>1, <2>2, <2>3, <2>4 DEF OriginInv
<1>8. StoredInv'
  <2>1. \A i \in 1..cursor : log'[i] = log[i]
    BY <1>2, <1>3
  <2> QED BY <2>1 DEF AccountsInv, StoredInv
<1> QED BY <1>4, <1>7, <1>8 DEF StoppedInv

-----------------------------------------------------------------------------
(* The handlers *)

\* A counter of requests stays within its bound.
LEMMA CountInv ==
  ASSUME AccountBounds, NEW S, NEW f \in [S -> 0..MaxParallel], NEW x \in S
  PROVE  /\ f[x] < MaxParallel => [f EXCEPT ![x] = @ + 1] \in [S -> 0..MaxParallel]
         /\ f[x] > 0 => [f EXCEPT ![x] = @ - 1] \in [S -> 0..MaxParallel]
<1>1. f[x] \in 0..MaxParallel
  OBVIOUS
<1>2. /\ f[x] < MaxParallel => f[x] + 1 \in 0..MaxParallel
      /\ f[x] > 0 => f[x] - 1 \in 0..MaxParallel
  BY <1>1 DEF AccountBounds
<1> QED BY <1>2

LEMMA CheckEmailInv ==
  ASSUME AccountBounds, AccountsInv, NEW e \in Emails, CheckEmail(e)
  PROVE  AccountsInv'
<1> USE DEF CheckEmail, Running, projectionVars, storeVars, historyVars
<1>1. MemoryInv'
  BY CountInv DEF AccountsInv, MemoryInv
<1>2. LogInv'
  BY DEF AccountsInv, LogInv
<1>3. OriginInv'
  BY SameOrigin, SameTokens
<1>4. StoredInv' /\ StoppedInv'
  BY SameStored
<1> QED BY <1>1, <1>2, <1>3, <1>4 DEF AccountsInv

LEMMA CreateAccountInv ==
  ASSUME AccountBounds, AccountsInv, NEW e \in Emails, CreateAccount(e)
  PROVE  AccountsInv'
<1> USE DEF CreateAccount, Running, projectionVars, storeVars, historyVars
<1>1. MemoryInv'
  BY CountInv DEF AccountsInv, MemoryInv
<1>2. Event("created", e) \in LogLine /\ Event("created", e).type = "created"
  BY DEF Event, LogLine
<1>3. LogInv' /\ OriginInv' /\ StoredInv' /\ StoppedInv'
  BY <1>2, LineAdded
<1> QED BY <1>1, <1>3 DEF AccountsInv

LEMMA RequestResetInv ==
  ASSUME AccountBounds, AccountsInv, NEW e \in Emails, RequestPasswordReset(e)
  PROVE  AccountsInv'
<1> USE DEF RequestPasswordReset, Running, projectionVars, storeVars, historyVars
<1>1. PICK n \in Nat : n = Len(tokens)
  BY LogDomain
<1>2. DEFINE t == [email |-> e, kept |-> TRUE]
<1>3. t \in Token /\ t.email = e
  BY DEF Token
<1>4. /\ tokens' \in Seq(Token) /\ Len(tokens') = n + 1
      /\ tokens'[n + 1] = t /\ \A i \in 1..n : tokens'[i] = tokens[i]
  BY <1>1, <1>3, AppendProperties DEF AccountsInv, MemoryInv
<1>5. Len(tokens') \in 0..MaxTokens
  BY <1>1, <1>4 DEF AccountBounds
<1>6. MemoryInv'
  BY <1>4, <1>5 DEF AccountsInv, MemoryInv
<1>7. LogInv'
  BY DEF AccountsInv, LogInv
<1>8. Created(e, Len(log))
  <2>1. Created(e, cursor) /\ cursor \in Nat /\ Len(log) \in Nat /\ cursor <= Len(log)
    BY LogDomain DEF Known, AccountsInv, OriginInv, LogInv
  <2> QED BY <2>1, CreatedLater
<1>9. OriginInv'
  <2>1. \A i \in 1..n : Created(tokens'[i].email, Len(log))
    BY <1>1, <1>4 DEF AccountsInv, OriginInv
  <2>2. 1..(n + 1) = 1..n \cup {n + 1}
    OBVIOUS
  <2>3. \A i \in 1..Len(tokens') : Created(tokens'[i].email, Len(log))
    BY <1>3, <1>4, <1>8, <2>1, <2>2
  <2> QED BY <2>3, SameOrigin
<1>10. StoredInv' /\ StoppedInv'
  BY SameStored
<1> QED BY <1>6, <1>7, <1>9, <1>10 DEF AccountsInv

\* A token that is dropped keeps its email.
LEMMA DroppedToken ==
  ASSUME AccountsInv, NEW t \in DOMAIN tokens, tokens' = [tokens EXCEPT ![t].kept = FALSE]
  PROVE  /\ tokens' \in Seq(Token) /\ Len(tokens') = Len(tokens)
         /\ \A i \in 1..Len(tokens) : tokens'[i].email = tokens[i].email
<1>1. tokens \in Seq(Token) /\ t \in 1..Len(tokens)
  BY LogDomain DEF AccountsInv, MemoryInv
<1>2. /\ [tokens[t] EXCEPT !.kept = FALSE] \in Token
      /\ [tokens[t] EXCEPT !.kept = FALSE].email = tokens[t].email
  BY LogDomain DEF Token
<1>3. tokens' = [tokens EXCEPT ![t] = [tokens[t] EXCEPT !.kept = FALSE]]
  OBVIOUS
<1>4. tokens' \in Seq(Token) /\ Len(tokens') = Len(tokens)
  BY <1>1, <1>2, <1>3, ExceptSeq
<1>5. \A i \in 1..Len(tokens) :
        tokens'[i] = IF i = t THEN [tokens[t] EXCEPT !.kept = FALSE] ELSE tokens[i]
  BY <1>3, LogDomain
<1> QED BY <1>2, <1>4, <1>5

LEMMA TokenExpiresInv ==
  ASSUME AccountBounds, AccountsInv, NEW t \in DOMAIN tokens, TokenExpires(t)
  PROVE  AccountsInv'
<1> USE DEF TokenExpires, Running, projectionVars, storeVars, historyVars
<1>1. MemoryInv'
  BY DroppedToken DEF AccountsInv, MemoryInv
<1>2. LogInv'
  BY DEF AccountsInv, LogInv
<1>3. OriginInv'
  BY DroppedToken, SameOrigin, SameTokens
<1>4. StoredInv' /\ StoppedInv'
  BY SameStored
<1> QED BY <1>1, <1>2, <1>3, <1>4 DEF AccountsInv

LEMMA LoadTokenInv ==
  ASSUME AccountBounds, AccountsInv, NEW t \in DOMAIN tokens, LoadToken(t)
  PROVE  AccountsInv'
<1> USE DEF LoadToken, Running, projectionVars, storeVars, historyVars
<1>1. t \in 1..MaxTokens
  BY LogDomain DEF AccountsInv, MemoryInv, AccountBounds
<1>2. MemoryInv'
  BY <1>1, CountInv DEF AccountsInv, MemoryInv
<1>3. LogInv'
  BY DEF AccountsInv, LogInv
<1>4. OriginInv'
  BY SameOrigin, SameTokens
<1>5. StoredInv' /\ StoppedInv'
  BY SameStored
<1> QED BY <1>2, <1>3, <1>4, <1>5 DEF AccountsInv

LEMMA ResetPasswordInv ==
  ASSUME AccountBounds, AccountsInv, NEW t \in DOMAIN tokens, ResetPassword(t)
  PROVE  AccountsInv'
<1> USE DEF ResetPassword, Running, projectionVars, storeVars, historyVars
<1>1. t \in 1..MaxTokens /\ t \in 1..Len(tokens) /\ tokens[t].email \in Emails
  BY LogDomain DEF AccountsInv, MemoryInv, AccountBounds
<1>2. /\ tokens' \in Seq(Token) /\ Len(tokens') = Len(tokens)
      /\ \A i \in 1..Len(tokens) : tokens'[i].email = tokens[i].email
  BY DroppedToken
<1>3. resetting' \in [1..MaxTokens -> 0..MaxParallel]
  BY <1>1, CountInv DEF AccountsInv, MemoryInv
<1>4. MemoryInv'
  BY <1>2, <1>3 DEF AccountsInv, MemoryInv
<1>5. DEFINE l == Event("reset", tokens[t].email)
<1>6. l \in LogLine /\ l.type = "reset" /\ l.email = tokens[t].email
  BY <1>1 DEF Event, LogLine
<1>7. Created(l.email, Len(log))
  BY <1>1, <1>6 DEF AccountsInv, OriginInv
<1>8. AppendEvent(l)
  OBVIOUS
<1>9. LogInv' /\ OriginInv' /\ StoredInv' /\ StoppedInv'
  <2> HIDE DEF l
  <2> QED BY <1>2, <1>6, <1>7, <1>8, LineAdded
<1> QED BY <1>4, <1>9 DEF AccountsInv

LEMMA DeleteAccountInv ==
  ASSUME AccountBounds, AccountsInv, NEW i \in Ids, DeleteAccount(i)
  PROVE  AccountsInv'
<1> USE DEF DeleteAccount, Running, projectionVars
<1>1. byId[i] \in Account /\ byId[i].email \in Emails
  BY DEF AccountsInv, MemoryInv, Account
<1>2. /\ byId' \in [Ids -> Account \cup {None}] /\ deleted' \subseteq Ids
      /\ deleting' \in [Emails -> 0..MaxParallel]
  BY <1>1, CountInv DEF AccountsInv, MemoryInv
<1>3. MemoryInv'
  BY <1>2 DEF AccountsInv, MemoryInv
<1>4. LogInv'
  BY DEF AccountsInv, LogInv
<1>5. OriginInv'
  BY SameOrigin, SameTokens
<1>6. StoredInv' /\ StoppedInv'
  BY DEF StoredInv, StoppedInv
<1> QED BY <1>3, <1>4, <1>5, <1>6 DEF AccountsInv

LEMMA DeleteEmailInv ==
  ASSUME AccountBounds, AccountsInv, NEW e \in Emails, DeleteEmail(e)
  PROVE  AccountsInv'
<1> USE DEF DeleteEmail, Running, projectionVars, historyVars
<1>1. byEmail' \in [Emails -> Account \cup {None}] /\ deleting' \in [Emails -> 0..MaxParallel]
  BY CountInv DEF AccountsInv, MemoryInv
<1>2. MemoryInv'
  BY <1>1 DEF AccountsInv, MemoryInv
<1>3. LogInv'
  BY DEF AccountsInv, LogInv
<1>4. OriginInv'
  <2>1. \A x, n : Created(x, n)' <=> Created(x, n)
    BY DEF Created
  <2>2. \A x \in Emails : byEmail'[x] # None => byEmail'[x] = byEmail[x]
    BY DEF AccountsInv, MemoryInv
  <2> QED BY <2>1, <2>2 DEF AccountsInv, OriginInv
<1>5. everDeleted
  BY DEF AccountsInv, StoredInv
<1>6. StoredInv' /\ StoppedInv'
  BY <1>5 DEF StoredInv, StoppedInv
<1> QED BY <1>2, <1>3, <1>4, <1>6 DEF AccountsInv

-----------------------------------------------------------------------------
(* The projection *)

\* It stops for a reason: what it finds stored was created before, and what it
\* does not find was.
LEMMA Stops ==
  ASSUME AccountBounds, AccountsInv, writing = None, cursor < Len(log), ~everDeleted,
         NEW l \in LogLine, l = log[cursor + 1],
         l.type = "created" => byEmail[l.email] # None,
         l.type # "created" => byEmail[l.email] = None
  PROVE  Twice
<1>1. PICK n \in Nat, c \in Nat : n = Len(log) /\ c = cursor /\ c < n
  BY LogDomain DEF AccountsInv, LogInv
<1>2. l.email \in Emails /\ l.type \in {"created", "reset"}
  BY DEF LogLine
<1>3. Created(l.email, c)
  <2>1. CASE l.type = "created"
    BY <1>1, <1>2, <2>1 DEF AccountsInv, OriginInv
  <2>2. CASE l.type # "created"
    <3>1. l.type = "reset" /\ c + 1 \in 1..n /\ (c + 1) - 1 = c
      BY <1>1, <1>2, <2>2
    <3> QED BY <1>1, <3>1 DEF AccountsInv, OriginInv
  <2> QED BY <2>1, <2>2
<1>4. PICK i \in 1..c : log[i].type = "created" /\ log[i].email = l.email
  BY <1>3 DEF Created
<1>5. byEmail[l.email] # None
  BY <1>1, <1>4 DEF AccountsInv, StoredInv
<1>6. l.type = "created"
  BY <1>5
<1>7. i \in 1..n /\ c + 1 \in 1..n /\ i < c + 1
  BY <1>1
<1>8. log[i] = log[c + 1]
  <2>1. log[i] \in LogLine
    BY <1>1, <1>7, LogDomain
  <2> QED BY <1>1, <1>4, <1>6, <2>1 DEF LogLine
<1> QED BY <1>1, <1>4, <1>7, <1>8 DEF Twice

\* What it makes of an event is an account of the event's email, or none.
LEMMA Applied ==
  ASSUME AccountBounds, AccountsInv, NEW e \in Emails, NEW p \in Ids
  PROVE  /\ ApplyAccountCreated(e, p) \in Account \cup {None}
         /\ ApplyAccountPasswordReset(e, p) \in Account \cup {None}
         /\ ApplyAccountCreated(e, p) # None => ApplyAccountCreated(e, p).email = e
         /\ ApplyAccountPasswordReset(e, p) # None => ApplyAccountPasswordReset(e, p).email = e
         /\ ApplyAccountCreated(e, p) = None <=> byEmail[e] # None
         /\ ApplyAccountPasswordReset(e, p) = None <=> byEmail[e] = None
<1>1. None \notin Account
  BY DEF Account, AccountBounds, Ids
<1>2. byEmail[e] \in Account \cup {None} /\ (byEmail[e] # None => byEmail[e].email = e)
  BY DEF AccountsInv, MemoryInv, OriginInv
<1>3. [id |-> p, email |-> e, password |-> p] \in Account
  BY DEF Account
<1>4. CASE byEmail[e] = None
  BY <1>1, <1>3, <1>4 DEF ApplyAccountCreated, ApplyAccountPasswordReset
<1>5. CASE byEmail[e] # None
  <2>1. byEmail[e] \in Account /\ byEmail[e].email = e
    BY <1>2, <1>5
  <2>2. /\ [byEmail[e] EXCEPT !.password = p] \in Account
        /\ [byEmail[e] EXCEPT !.password = p].email = e
    BY <2>1 DEF Account
  <2> QED BY <1>1, <1>5, <2>2 DEF ApplyAccountCreated, ApplyAccountPasswordReset
<1> QED BY <1>4, <1>5

LEMMA ApplyEventInv ==
  ASSUME AccountBounds, AccountsInv, ApplyEvent
  PROVE  AccountsInv'
<1>1. PICK n \in Nat, c \in Nat : n = Len(log) /\ c = cursor /\ c < n
  BY LogDomain DEF AccountsInv, LogInv, ApplyEvent
<1>2. c + 1 \in 1..n /\ c + 1 \in 0..n /\ c + 1 \in Ids /\ 1..(c + 1) = 1..c \cup {c + 1}
  BY <1>1 DEF AccountsInv, LogInv, Ids, AccountBounds
<1>3. PICK l \in LogLine : l = log[c + 1]
  BY <1>1, <1>2, LogDomain
<1>4. l.email \in Emails /\ l.type \in {"created", "reset"}
  BY <1>3 DEF LogLine
<1>5. PICK a : a = IF l.type = "created" THEN ApplyAccountCreated(l.email, c + 1)
                                         ELSE ApplyAccountPasswordReset(l.email, c + 1)
  OBVIOUS
<1>6. /\ a \in Account \cup {None} /\ (a # None => a.email = l.email)
      /\ a = None => /\ l.type = "created" => byEmail[l.email] # None
                     /\ l.type # "created" => byEmail[l.email] = None
  BY <1>2, <1>4, <1>5, Applied
<1>7. /\ process = "running" /\ writing = None /\ ~half
      /\ UNCHANGED <<log, half, byId, byEmail, creating, tokens, resetting, deleting,
                     deleted, everDeleted, restarts>>
      /\ IF a = None THEN process' = "failed" /\ UNCHANGED <<cursor, writing>>
                     ELSE writing' = a /\ cursor' = c + 1 /\ UNCHANGED process
  BY <1>1, <1>3, <1>5 DEF ApplyEvent, Running, storeVars, requestVars, historyVars,
     AccountsInv, LogInv
<1>8. MemoryInv'
  BY <1>7 DEF AccountsInv, MemoryInv
<1>9. CASE a = None
  <2>1. LogInv'
    BY <1>7, <1>9 DEF AccountsInv, LogInv
  <2>2. OriginInv'
    <3>1. UNCHANGED <<log, cursor, writing, byEmail, tokens>>
      BY <1>7, <1>9
    <3> QED BY <3>1, SameOrigin, SameTokens
  <2>3. StoredInv'
    BY <1>7, <1>9 DEF AccountsInv, StoredInv
  <2>4. StoppedInv'
    <3>1. ~everDeleted => Twice
      BY <1>1, <1>3, <1>6, <1>7, <1>9, Stops
    <3> QED BY <1>7, <3>1 DEF StoppedInv, Twice
  <2> QED BY <1>8, <2>1, <2>2, <2>3, <2>4 DEF AccountsInv
<1>10. CASE a # None
  <2>1. writing' = a /\ cursor' = c + 1 /\ UNCHANGED process
    BY <1>7, <1>10
  <2>2. LogInv'
    BY <1>1, <1>2, <1>6, <1>7, <2>1 DEF AccountsInv, LogInv
  <2>3. \A e : \A m : Created(e, m)' <=> Created(e, m)
    BY <1>7 DEF Created
  <2>4. \A e : Created(e, c) => Created(e, c + 1)
    BY <1>2 DEF Created
  <2>5. Created(l.email, c + 1)
    <3>1. CASE l.type = "created"
      BY <1>2, <1>3, <3>1 DEF Created
    <3>2. CASE l.type # "created"
      <4>1. ApplyAccountPasswordReset(l.email, c + 1) # None
        BY <1>5, <1>10, <3>2
      <4>2. byEmail[l.email] # None
        BY <1>2, <1>4, <4>1, Applied
      <4> QED BY <1>1, <1>4, <2>4, <4>2 DEF AccountsInv, OriginInv
    <3> QED BY <3>1, <3>2
  <2>6. OriginInv'
    <3>1. \A e \in Emails : byEmail'[e] # None => byEmail'[e].email = e /\ Created(e, cursor)'
      BY <1>1, <1>7, <2>1, <2>3, <2>4 DEF AccountsInv, OriginInv
    <3>2. (writing # None => Created(writing.email, cursor))'
      BY <1>6, <1>10, <2>1, <2>3, <2>5
    <3> QED BY <1>7, <2>3, <3>1, <3>2 DEF AccountsInv, OriginInv
  <2>7. StoredInv'
    <3>1. \A e \in Emails : deleting'[e] > 0 => everDeleted'
      BY <1>7 DEF AccountsInv, StoredInv
    <3>2. ASSUME ~everDeleted, NEW i \in 1..c, log[i].type = "created"
          PROVE  byEmail[log[i].email] # None
      BY <1>1, <1>7, <3>2 DEF AccountsInv, StoredInv
    <3>3. a # None /\ a.email = log[c + 1].email
      BY <1>3, <1>6, <1>10
    <3> QED BY <1>2, <1>7, <2>1, <3>1, <3>2, <3>3 DEF StoredInv
  <2>8. StoppedInv'
    BY <1>7, <2>1 DEF StoppedInv
  <2> QED BY <1>8, <2>2, <2>6, <2>7, <2>8 DEF AccountsInv
<1> QED BY <1>9, <1>10

LEMMA WriteByIdInv ==
  ASSUME AccountBounds, AccountsInv, WriteById
  PROVE  AccountsInv'
<1> USE DEF WriteById, Running, requestVars, historyVars
<1>1. writing \in Account /\ writing.id \in Ids
  BY DEF AccountsInv, LogInv, Account
<1>2. MemoryInv'
  BY <1>1 DEF AccountsInv, MemoryInv
<1>3. LogInv'
  BY DEF AccountsInv, LogInv
<1>4. OriginInv'
  BY SameOrigin, SameTokens
<1>5. StoredInv' /\ StoppedInv'
  BY SameStored
<1> QED BY <1>2, <1>3, <1>4, <1>5 DEF AccountsInv

LEMMA WriteByEmailInv ==
  ASSUME AccountBounds, AccountsInv, WriteByEmail
  PROVE  AccountsInv'
<1> USE DEF WriteByEmail, Running, requestVars, historyVars
<1>1. writing \in Account /\ writing # None /\ writing.email \in Emails
  BY DEF AccountsInv, LogInv, Account
<1>2. byEmail \in [Emails -> Account \cup {None}]
  BY DEF AccountsInv, MemoryInv
<1>3. MemoryInv'
  BY <1>1, <1>2 DEF AccountsInv, MemoryInv
<1>4. LogInv'
  BY DEF AccountsInv, LogInv
<1>5. \A e \in Emails : byEmail'[e] = IF e = writing.email THEN writing ELSE byEmail[e]
  BY <1>2
<1>6. OriginInv'
  <2>1. \A e, n : Created(e, n)' <=> Created(e, n)
    BY DEF Created
  <2> QED BY <1>1, <1>5, <2>1 DEF AccountsInv, OriginInv
<1>7. StoredInv'
  <2>1. \A e \in Emails : deleting'[e] > 0 => everDeleted'
    BY DEF AccountsInv, StoredInv
  <2>2. ASSUME ~everDeleted, NEW i \in 1..cursor, log[i].type = "created"
        PROVE  byEmail'[log[i].email] # None
    <3>1. log[i].email \in Emails
      BY LogDomain DEF AccountsInv, LogInv
    <3> QED BY <1>1, <1>5, <2>2, <3>1 DEF AccountsInv, StoredInv
  <2> QED BY <2>1, <2>2 DEF StoredInv
<1>8. StoppedInv'
  BY DEF StoppedInv
<1> QED BY <1>3, <1>4, <1>6, <1>7, <1>8 DEF AccountsInv

-----------------------------------------------------------------------------
(* Deaths and starts *)

LEMMA AccountsCrashInv ==
  ASSUME AccountBounds, AccountsInv, Crash
  PROVE  AccountsInv'
<1> USE DEF Crash, projectionVars, storeVars, requestVars, historyVars
<1>1. MemoryInv'
  BY DEF AccountsInv, MemoryInv
<1>2. LogInv'
  BY DEF AccountsInv, LogInv
<1>3. OriginInv'
  BY SameOrigin, SameTokens
<1>4. StoredInv' /\ StoppedInv'
  BY DEF AccountsInv, StoredInv, StoppedInv
<1> QED BY <1>1, <1>2, <1>3, <1>4 DEF AccountsInv

LEMMA AccountsRestartInv ==
  ASSUME AccountBounds, AccountsInv, Restart
  PROVE  AccountsInv'
<1>1. /\ process' = "running" /\ cursor' = 0 /\ writing' = None /\ half' = FALSE
      /\ restarts < MaxRestarts /\ restarts' = restarts + 1
      /\ byId' = [i \in Ids |-> None] /\ byEmail' = [e \in Emails |-> None]
      /\ creating' = [e \in Emails |-> 0] /\ resetting' = [t \in 1..MaxTokens |-> 0]
      /\ deleting' = [e \in Emails |-> 0] /\ deleted' = {}
      /\ UNCHANGED <<log, everDeleted>>
      /\ tokens' = [t \in 1..Len(tokens) |-> [tokens[t] EXCEPT !.kept = FALSE]]
  BY LogDomain DEF Restart, EmptyStore
<1>2. 0 \in 0..Len(log) /\ 0 \in 0..MaxParallel /\ restarts + 1 \in 0..MaxRestarts /\ 1..0 = {}
  BY <1>1, LogDomain DEF AccountBounds, AccountsInv, LogInv
<1>3. LogInv'
  BY <1>1, <1>2 DEF AccountsInv, LogInv
<1>4. /\ tokens' \in Seq(Token) /\ Len(tokens') = Len(tokens)
      /\ \A t \in 1..Len(tokens) : tokens'[t].email = tokens[t].email
  <2>1. \A t \in 1..Len(tokens) : /\ [tokens[t] EXCEPT !.kept = FALSE] \in Token
                                  /\ [tokens[t] EXCEPT !.kept = FALSE].email = tokens[t].email
    BY LogDomain DEF Token
  <2>2. PICK m \in Nat : m = Len(tokens)
    BY LogDomain
  <2>3. tokens' \in [1..m -> Token]
    BY <1>1, <2>1, <2>2
  <2>4. tokens' \in Seq(Token) /\ DOMAIN tokens' = 1..m /\ Len(tokens') = m
    BY <2>2, <2>3, SeqDef, LenProperties, SMT
  <2> QED BY <1>1, <2>1, <2>2, <2>4
<1>5. /\ byId' \in [Ids -> Account \cup {None}] /\ byEmail' \in [Emails -> Account \cup {None}]
      /\ creating' \in [Emails -> 0..MaxParallel] /\ deleting' \in [Emails -> 0..MaxParallel]
      /\ resetting' \in [1..MaxTokens -> 0..MaxParallel]
  BY <1>1, <1>2
<1>6. MemoryInv'
  BY <1>1, <1>4, <1>5 DEF AccountsInv, MemoryInv
<1>7. OriginInv'
  <2>1. \A e, n : Created(e, n)' <=> Created(e, n)
    BY <1>1 DEF Created
  <2> QED BY <1>1, <1>4, <2>1 DEF AccountsInv, OriginInv
<1>8. StoredInv' /\ StoppedInv'
  BY <1>1, <1>2 DEF StoredInv, StoppedInv
<1> QED BY <1>3, <1>6, <1>7, <1>8 DEF AccountsInv

-----------------------------------------------------------------------------
(***************************************************************************)
(* The accounts: their inductive invariant holds in every state that is    *)
(* reached, for any emails and bounds.                                     *)
(***************************************************************************)
THEOREM AccountsInvariance ==
  ASSUME AccountBounds PROVE AccountsSpec => []AccountsInv
<1>1. AccountsInit => AccountsInv
  BY AccountsStart
<1>2. AccountsInv /\ [AccountsNext]_accountVars => AccountsInv'
  <2> SUFFICES ASSUME AccountsInv, [AccountsNext]_accountVars PROVE AccountsInv'
    OBVIOUS
  <2>1. CASE \E e \in Emails :
               CheckEmail(e) \/ CreateAccount(e) \/ RequestPasswordReset(e) \/ DeleteEmail(e)
    BY <2>1, CheckEmailInv, CreateAccountInv, RequestResetInv, DeleteEmailInv
  <2>2. CASE \E t \in DOMAIN tokens : TokenExpires(t) \/ LoadToken(t) \/ ResetPassword(t)
    BY <2>2, TokenExpiresInv, LoadTokenInv, ResetPasswordInv
  <2>3. CASE (\E i \in Ids : DeleteAccount(i)) \/ Crash \/ Restart
    BY <2>3, DeleteAccountInv, AccountsCrashInv, AccountsRestartInv
  <2>4. CASE ApplyEvent \/ WriteById \/ WriteByEmail
    BY <2>4, ApplyEventInv, WriteByIdInv, WriteByEmailInv
  <2>5. CASE UNCHANGED accountVars
    <3>1. UNCHANGED <<log, process, cursor, writing, half, byId, byEmail, creating, tokens,
                      resetting, deleting, deleted, everDeleted, restarts>>
      BY <2>5 DEF accountVars, projectionVars, storeVars, requestVars, historyVars
    <3>2. LogInv' /\ MemoryInv'
      BY <3>1 DEF AccountsInv, LogInv, MemoryInv
    <3>3. OriginInv' /\ StoredInv' /\ StoppedInv'
      BY <3>1, SameOrigin, SameTokens, SameStored
    <3> QED BY <3>2, <3>3 DEF AccountsInv
  <2> QED BY <2>1, <2>2, <2>3, <2>4, <2>5 DEF AccountsNext
<1> QED BY <1>1, <1>2, PTL DEF AccountsSpec

\* Every variable of the accounts keeps its type.
THEOREM AccountsTypeCorrect ==
  ASSUME AccountBounds PROVE AccountsSpec => []AccountsTypeOK
<1>1. AccountsInv => AccountsTypeOK
  <2> SUFFICES ASSUME AccountsInv PROVE AccountsTypeOK
    OBVIOUS
  <2>1. \A i \in DOMAIN log : log[i] \in [type : {"created", "reset"}, email : Emails]
    BY LogDomain DEF LogLine
  <2>2. \A t \in DOMAIN tokens : tokens[t] \in [email : Emails, kept : BOOLEAN]
    BY LogDomain DEF Token
  <2> QED BY <2>1, <2>2 DEF AccountsInv, LogInv, MemoryInv, AccountsTypeOK, Account
<1> QED BY <1>1, AccountsInvariance, PTL

(***************************************************************************)
(* CreateAccount, ResetPassword and the projection: the projection fails   *)
(* only on an email that was registered twice, or once an account was      *)
(* deleted, however often the process starts again.                        *)
(***************************************************************************)
THEOREM StoppedForReason ==
  ASSUME AccountBounds PROVE AccountsSpec => []FailsForReason
<1>1. AccountsInv => FailsForReason
  BY LogDomain DEF AccountsInv, StoppedInv, Twice, FailsForReason
<1> QED BY <1>1, AccountsInvariance, PTL

-----------------------------------------------------------------------------
(***************************************************************************)
(* The store is what the log says                                          *)
(***************************************************************************)

\* What is stored under an id was created by that event, and so was what is
\* deleted.
IdsInv ==
  /\ \A i \in Ids : byId[i] # None =>
       byId[i].id = i /\ i \in 1..cursor /\ log[i].email = byId[i].email
  /\ deleted \subseteq 1..cursor
  /\ \A e \in Emails : deleting[e] > 0 => OneWasDeleted(e)

\* The store has what the log says of one email.
Replayed(e) ==
  /\ Logged(byEmail[e], e, cursor) \/ (byEmail[e] = None /\ OneWasDeleted(e))
  /\ \A i \in Ids :
       /\ byId[i] # None /\ byId[i].email = e => Logged(byId[i], e, cursor) \/ OneWasDeleted(e)
       /\ LastCreated(i, e, cursor) /\ i \notin deleted => Logged(byId[i], e, cursor)

\* What is being written is what the log makes, and of its email nothing else
\* is stored unless one was deleted.
WritingInv ==
  writing # None =>
    /\ Logged(writing, writing.email, cursor)
    /\ \A i \in Ids : i # writing.id /\ byId[i] # None /\ byId[i].email = writing.email =>
         OneWasDeleted(writing.email)
    /\ half => \/ byId[writing.id] = writing
               \/ byId[writing.id] = None /\ writing.id \in deleted

ReplayInv ==
  /\ IdsInv
  /\ \A e \in Emails : writing = None \/ writing.email # e => Replayed(e)
  /\ WritingInv

-----------------------------------------------------------------------------
\* What the log makes of an email, event by event.

LEMMA LoggedNothing ==
  ASSUME NEW e
  PROVE  Logged(None, e, 0)
BY DEF Logged

LEMMA LoggedOther ==
  ASSUME NEW e, NEW n \in Nat, NEW a, log[n + 1].email # e,
         a # None => a.password \in Nat
  PROVE  /\ Logged(a, e, n) => Logged(a, e, n + 1)
         /\ \A i : LastCreated(i, e, n + 1) => LastCreated(i, e, n)
<1>1. log[n + 1] # Event("created", e)
  BY DEF Event
<1>2. 1..(n + 1) = 1..n \cup {n + 1}
  OBVIOUS
<1>3. \A i \in 1..n : i + 1 \in Nat /\ (i + 1)..(n + 1) = (i + 1)..n \cup {n + 1}
  OBVIOUS
<1>4. \A i : LastCreated(i, e, n) => LastCreated(i, e, n + 1)
  BY <1>1, <1>2, <1>3 DEF LastCreated
<1>5. \A i : LastCreated(i, e, n + 1) => LastCreated(i, e, n)
  BY <1>1, <1>2, <1>3 DEF LastCreated
<1>6. ASSUME Logged(a, e, n) PROVE Logged(a, e, n + 1)
  <2>1. CASE a = None
    BY <1>1, <1>2, <1>6, <2>1 DEF Logged
  <2>2. CASE a # None
    <3>1. /\ a.email = e /\ LastCreated(a.id, e, n)
          /\ a.password \in a.id..n /\ log[a.password].email = e
          /\ \A i \in (a.password + 1)..n : log[i].email # e
      BY <1>6, <2>2 DEF Logged
    <3>2. a.id \in 1..n
      BY <3>1 DEF LastCreated
    <3>3. PICK p \in Nat, d \in Nat : p = a.password /\ d = a.id
      BY <2>2, <3>2
    <3>4. p \in d..(n + 1) /\ \A i \in (p + 1)..(n + 1) : i \in (p + 1)..n \/ i = n + 1
      BY <3>1, <3>3
    <3> QED BY <1>4, <2>2, <3>1, <3>3, <3>4 DEF Logged
  <2> QED BY <2>1, <2>2
<1> QED BY <1>5, <1>6

LEMMA LoggedCreated ==
  ASSUME NEW e, NEW n \in Nat, NEW a, log[n + 1] = Event("created", e),
         a # None, a.id = n + 1, a.email = e, a.password = n + 1
  PROVE  Logged(a, e, n + 1)
<1>1. log[n + 1].email = e
  BY DEF Event
<1>2. n + 1 \in 1..(n + 1) /\ ((n + 1) + 1)..(n + 1) = {} /\ n + 1 \in (n + 1)..(n + 1)
  OBVIOUS
<1> QED BY <1>1, <1>2 DEF Logged, LastCreated

LEMMA LoggedReset ==
  ASSUME NEW e, NEW n \in Nat, NEW a, NEW b, log[n + 1].email = e,
         log[n + 1].type = "reset", Logged(a, e, n), a # None,
         b # None, b.id = a.id, b.email = e, b.password = n + 1
  PROVE  Logged(b, e, n + 1)
<1>1. log[n + 1] # Event("created", e)
  BY DEF Event
<1>2. LastCreated(a.id, e, n)
  BY DEF Logged
<1>3. PICK d \in 1..n : d = a.id
  BY <1>2 DEF LastCreated
<1>4. /\ d \in 1..(n + 1) /\ n + 1 \in d..(n + 1) /\ ((n + 1) + 1)..(n + 1) = {}
      /\ \A i \in (d + 1)..(n + 1) : i \in (d + 1)..n \/ i = n + 1
  OBVIOUS
<1>5. LastCreated(d, e, n + 1)
  BY <1>1, <1>2, <1>3, <1>4 DEF LastCreated
<1> QED BY <1>3, <1>4, <1>5 DEF Logged

\* What the log says up to a line does not change when others follow it.
LEMMA LoggedStays ==
  ASSUME NEW n \in Nat, \A i \in 1..n : log'[i] = log[i], NEW e, NEW a
  PROVE  /\ Logged(a, e, n)' <=> Logged(a, e, n)
         /\ \A i : LastCreated(i, e, n)' <=> LastCreated(i, e, n)
<1>1. \A i : LastCreated(i, e, n)' <=> LastCreated(i, e, n)
  <2>1. \A i \in 1..n : \A j \in (i + 1)..n : j \in 1..n
    OBVIOUS
  <2> QED BY <2>1 DEF LastCreated, Event
<1>2. (\A i \in 1..n : log[i] # Event("created", e))' <=> \A i \in 1..n : log[i] # Event("created", e)
  BY DEF Event
<1>3. ASSUME NEW d \in 1..n, NEW p \in d..n
      PROVE  /\ log'[p] = log[p] /\ \A i \in (p + 1)..n : log'[i] = log[i]
  <2>1. p \in 1..n /\ \A i \in (p + 1)..n : i \in 1..n
    OBVIOUS
  <2> QED BY <2>1
<1>4. /\ LastCreated(a.id, e, n) => a.id \in 1..n
      /\ LastCreated(a.id, e, n)' => a.id \in 1..n
  BY DEF LastCreated
<1>5. CASE a = None
  BY <1>1, <1>2, <1>5 DEF Logged
<1>6. CASE a # None
  BY <1>1, <1>3, <1>4, <1>6 DEF Logged
<1> QED BY <1>1, <1>5, <1>6

-----------------------------------------------------------------------------
\* The handlers that append or only remember.
LEMMA SameReplay ==
  ASSUME AccountsInv, ReplayInv, \A i \in 1..cursor : log'[i] = log[i],
         UNCHANGED <<cursor, writing, half, byId, byEmail, deleting, deleted>>
  PROVE  ReplayInv'
<1>1. PICK c \in Nat : c = cursor
  BY LogDomain DEF AccountsInv, LogInv
<1>2. \A e : OneWasDeleted(e)' <=> OneWasDeleted(e)
  BY DEF ReplayInv, IdsInv, OneWasDeleted
<1>3. IdsInv'
  BY <1>2 DEF ReplayInv, IdsInv
<1>4. \A e, a : (Logged(a, e, c)' <=> Logged(a, e, c))
  BY <1>1, LoggedStays
<1>5. \A e, i : (LastCreated(i, e, c)' <=> LastCreated(i, e, c))
  BY <1>1, LoggedStays
<1>6. ASSUME NEW e \in Emails, Replayed(e) PROVE Replayed(e)'
  BY <1>1, <1>2, <1>4, <1>5, <1>6 DEF Replayed
<1>7. WritingInv'
  BY <1>1, <1>2, <1>4 DEF ReplayInv, WritingInv
<1> QED BY <1>3, <1>6, <1>7 DEF ReplayInv

LEMMA AppendedReplay ==
  ASSUME AccountsInv, ReplayInv, NEW l, AppendEvent(l),
         UNCHANGED <<cursor, writing, half, byId, byEmail, deleting, deleted>>
  PROVE  ReplayInv'
<1>1. log \in Seq(LogLine) /\ log' = Append(log, l) /\ cursor \in 0..Len(log) /\ Len(log) \in Nat
  BY LogDomain DEF AccountsInv, LogInv, AppendEvent
<1>2. log \in Seq(LogLine \cup {l})
  BY <1>1, SeqDef
<1>3. \A i \in 1..Len(log) : log'[i] = log[i]
  BY <1>1, <1>2, AppendProperties
<1> QED BY <1>1, <1>3, SameReplay

LEMMA DeleteAccountReplay ==
  ASSUME AccountBounds, AccountsInv, ReplayInv, NEW i \in Ids, DeleteAccount(i)
  PROVE  ReplayInv'
<1>1. PICK d \in Emails : d = byId[i].email
  BY DEF DeleteAccount, AccountsInv, MemoryInv, Account
<1>2. /\ byId[i] # None /\ byId' = [byId EXCEPT ![i] = None]
      /\ deleting' = [deleting EXCEPT ![d] = @ + 1] /\ deleted' = deleted \cup {i}
      /\ UNCHANGED <<log, cursor, writing, half, byEmail>>
  BY <1>1 DEF DeleteAccount, projectionVars
<1>3. i \in 1..cursor /\ log[i].email = d
  BY <1>1, <1>2 DEF ReplayInv, IdsInv
<1>4. /\ byId' \in [Ids -> Account \cup {None}]
      /\ \A j \in Ids : byId'[j] = IF j = i THEN None ELSE byId[j]
      /\ \A e \in Emails : e # d => deleting'[e] = deleting[e]
  BY <1>2 DEF AccountsInv, MemoryInv
<1>5. OneWasDeleted(d)' /\ \A e : OneWasDeleted(e) => OneWasDeleted(e)'
  BY <1>2, <1>3 DEF OneWasDeleted
<1>6. IdsInv'
  <2>1. (\A j \in Ids : byId[j] # None =>
           byId[j].id = j /\ j \in 1..cursor /\ log[j].email = byId[j].email)'
    BY <1>2, <1>4 DEF ReplayInv, IdsInv
  <2>2. (deleted \subseteq 1..cursor)'
    BY <1>2, <1>3 DEF ReplayInv, IdsInv
  <2>3. (\A e \in Emails : deleting[e] > 0 => OneWasDeleted(e))'
    BY <1>4, <1>5 DEF ReplayInv, IdsInv
  <2> QED BY <2>1, <2>2, <2>3 DEF IdsInv
<1>7. \A a, e, n : /\ Logged(a, e, n)' <=> Logged(a, e, n)
                   /\ LastCreated(a, e, n)' <=> LastCreated(a, e, n)
  BY <1>2 DEF Logged, LastCreated, Event
<1>8. ASSUME NEW e \in Emails, Replayed(e) PROVE Replayed(e)'
  BY <1>2, <1>4, <1>5, <1>7, <1>8 DEF Replayed
<1>9. WritingInv'
  <2> SUFFICES ASSUME writing' # None PROVE WritingInv'
    BY DEF WritingInv
  <2>1. writing = writing' /\ writing \in Account /\ writing.id \in Ids
    BY <1>2 DEF AccountsInv, LogInv, Account
  <2>2. Logged(writing, writing.email, cursor)'
    BY <1>2, <1>7, <2>1 DEF ReplayInv, WritingInv
  <2>3. (\A j \in Ids : j # writing.id /\ byId[j] # None /\ byId[j].email = writing.email =>
           OneWasDeleted(writing.email))'
    BY <1>4, <1>5, <2>1 DEF ReplayInv, WritingInv
  <2>4. (half => \/ byId[writing.id] = writing
                 \/ byId[writing.id] = None /\ writing.id \in deleted)'
    BY <1>2, <1>4, <2>1 DEF ReplayInv, WritingInv
  <2> QED BY <2>2, <2>3, <2>4 DEF WritingInv
<1> QED BY <1>2, <1>6, <1>8, <1>9 DEF ReplayInv

LEMMA DeleteEmailReplay ==
  ASSUME AccountBounds, AccountsInv, ReplayInv, NEW e \in Emails, DeleteEmail(e)
  PROVE  ReplayInv'
<1>1. /\ deleting[e] > 0 /\ byEmail' = [byEmail EXCEPT ![e] = None]
      /\ deleting' = [deleting EXCEPT ![e] = @ - 1]
      /\ UNCHANGED <<log, cursor, writing, half, byId, deleted>>
  BY DEF DeleteEmail, projectionVars, historyVars
<1>2. /\ \A x \in Emails : byEmail'[x] = IF x = e THEN None ELSE byEmail[x]
      /\ \A x \in Emails : x # e => deleting'[x] = deleting[x]
  BY <1>1 DEF AccountsInv, MemoryInv
<1>3. OneWasDeleted(e) /\ \A x : OneWasDeleted(x)' <=> OneWasDeleted(x)
  BY <1>1 DEF ReplayInv, IdsInv, OneWasDeleted
<1>4. IdsInv'
  BY <1>1, <1>2, <1>3 DEF ReplayInv, IdsInv
<1>5. \A a, x, n : /\ Logged(a, x, n)' <=> Logged(a, x, n)
                   /\ LastCreated(a, x, n)' <=> LastCreated(a, x, n)
  BY <1>1 DEF Logged, LastCreated, Event
<1>6. ASSUME NEW x \in Emails, Replayed(x) PROVE Replayed(x)'
  BY <1>1, <1>2, <1>3, <1>5, <1>6 DEF Replayed
<1>7. WritingInv'
  BY <1>1, <1>3, <1>5 DEF ReplayInv, WritingInv
<1> QED BY <1>1, <1>4, <1>6, <1>7 DEF ReplayInv

LEMMA LastIsUnique ==
  ASSUME NEW n \in Nat, NEW e, NEW i, NEW j, LastCreated(i, e, n), LastCreated(j, e, n)
  PROVE  i = j
<1>1. i \in 1..n /\ j \in 1..n
  BY DEF LastCreated
<1>2. j \notin (i + 1)..n /\ i \notin (j + 1)..n
  BY DEF LastCreated
<1> QED BY <1>1, <1>2

\* What the projection makes of an event is what the log says then.
LEMMA AppliedIsLogged ==
  ASSUME AccountBounds, AccountsInv, NEW e \in Emails, Replayed(e), NEW a, a # None,
         NEW c \in Nat, c = cursor, c + 1 \in Ids, log[c + 1] \in LogLine, log[c + 1].email = e,
         a = IF log[c + 1].type = "created" THEN ApplyAccountCreated(e, c + 1)
                                            ELSE ApplyAccountPasswordReset(e, c + 1)
  PROVE  /\ Logged(a, e, c + 1)
         /\ \A i \in Ids : byId[i] # None /\ byId[i].email = e /\ byId[i].id = i /\ i # a.id =>
              OneWasDeleted(e)
<1>1. byEmail[e] \in Account \cup {None}
  BY DEF AccountsInv, MemoryInv
<1>2. CASE log[c + 1].type = "created"
  <2>1. byEmail[e] = None /\ a = [id |-> c + 1, email |-> e, password |-> c + 1]
    BY <1>2 DEF ApplyAccountCreated
  <2>2. log[c + 1] = Event("created", e)
    BY <1>2 DEF LogLine, Event
  <2>3. Logged(a, e, c + 1)
    <3>1. a.id = c + 1 /\ a.email = e /\ a.password = c + 1
      BY <2>1
    <3> QED BY <2>2, <3>1, LoggedCreated
  <2>4. ASSUME NEW i \in Ids, byId[i] # None, byId[i].email = e, ~OneWasDeleted(e) PROVE FALSE
    <3>1. Logged(None, e, c) /\ Logged(byId[i], e, c)
      BY <2>1, <2>4 DEF Replayed
    <3>2. \A j \in 1..c : log[j] # Event("created", e)
      BY <3>1 DEF Logged
    <3> QED BY <2>4, <3>1, <3>2 DEF Logged, LastCreated
  <2> QED BY <2>3, <2>4
<1>3. CASE log[c + 1].type # "created"
  <2>1. byEmail[e] # None /\ a = [byEmail[e] EXCEPT !.password = c + 1]
    BY <1>3 DEF ApplyAccountPasswordReset
  <2>2. Logged(byEmail[e], e, c)
    BY <2>1 DEF Replayed
  <2>3. PICK b \in Account : b = byEmail[e]
    BY <1>1, <2>1
  <2>4. a.id = b.id /\ a.email = b.email /\ a.password = c + 1 /\ b.email = e
    <3>1. b.email = e
      BY <2>1, <2>2, <2>3 DEF Logged
    <3> QED BY <2>1, <2>3, <3>1 DEF Account
  <2>5. log[c + 1].type = "reset"
    BY <1>3 DEF LogLine
  <2>6. Logged(a, e, c + 1)
    BY <2>1, <2>2, <2>3, <2>4, <2>5, LoggedReset
  <2>7. ASSUME NEW i \in Ids, byId[i] # None, byId[i].email = e, byId[i].id = i, i # a.id,
               ~OneWasDeleted(e)
        PROVE  FALSE
    <3>1. Logged(byId[i], e, c)
      BY <2>7 DEF Replayed
    <3>2. LastCreated(i, e, c) /\ LastCreated(b.id, e, c)
      BY <2>1, <2>2, <2>3, <2>7, <3>1 DEF Logged
    <3> QED BY <2>4, <2>7, <3>2, LastIsUnique
  <2> QED BY <2>6, <2>7
<1> QED BY <1>2, <1>3

LEMMA ApplyEventReplay ==
  ASSUME AccountBounds, AccountsInv, ReplayInv, ApplyEvent
  PROVE  ReplayInv'
<1>1. PICK n \in Nat, c \in Nat : n = Len(log) /\ c = cursor /\ c < n
  BY LogDomain DEF AccountsInv, LogInv, ApplyEvent
<1>2. c + 1 \in 1..n /\ c + 1 \in Ids /\ 1..c \subseteq 1..(c + 1)
  BY <1>1 DEF AccountsInv, LogInv, Ids, AccountBounds
<1>3. PICK l \in LogLine : l = log[c + 1]
  BY <1>1, <1>2, LogDomain
<1>4. l.email \in Emails
  BY <1>3 DEF LogLine
<1>5. PICK a : a = IF l.type = "created" THEN ApplyAccountCreated(l.email, c + 1)
                                         ELSE ApplyAccountPasswordReset(l.email, c + 1)
  OBVIOUS
<1>6. /\ writing = None /\ ~half
      /\ UNCHANGED <<log, half, byId, byEmail, deleting, deleted>>
      /\ IF a = None THEN UNCHANGED <<cursor, writing>> ELSE writing' = a /\ cursor' = c + 1
  BY <1>1, <1>3, <1>5 DEF ApplyEvent, storeVars, requestVars, historyVars, AccountsInv, LogInv
<1>7. CASE a = None
  BY <1>6, <1>7, SameReplay
<1>8. CASE a # None
  <2>1. writing' = a /\ cursor' = c + 1 /\ ~half'
    BY <1>6, <1>8
  <2>2. \A e : OneWasDeleted(e)' <=> OneWasDeleted(e)
    BY <1>6 DEF OneWasDeleted
  <2>3. \A b, e, m : /\ Logged(b, e, m)' <=> Logged(b, e, m)
                     /\ LastCreated(b, e, m)' <=> LastCreated(b, e, m)
    BY <1>6 DEF Logged, LastCreated, Event
  <2>4. \A e \in Emails : Replayed(e)
    BY <1>6 DEF ReplayInv
  <2>5. a.email = l.email
    BY <1>2, <1>4, <1>5, <1>8, Applied
  <2>6. IdsInv'
    BY <1>1, <1>2, <1>6, <2>1, <2>2 DEF ReplayInv, IdsInv
  <2>7. /\ Logged(a, l.email, c + 1)
        /\ \A i \in Ids : byId[i] # None /\ byId[i].email = l.email /\ byId[i].id = i /\ i # a.id =>
             OneWasDeleted(l.email)
    BY <1>1, <1>2, <1>3, <1>4, <1>5, <1>8, <2>4, AppliedIsLogged
  <2>8. WritingInv'
    <3>1. \A i \in Ids : byId[i] # None => byId[i].id = i
      BY DEF ReplayInv, IdsInv
    <3> QED BY <1>6, <2>1, <2>2, <2>3, <2>5, <2>7, <3>1 DEF WritingInv
  <2>9. ASSUME NEW e \in Emails, e # l.email PROVE Replayed(e)'
    <3>1. log[c + 1].email # e
      BY <1>3, <2>9
    <3>2. \A b : (b # None => b.password \in Nat) => (Logged(b, e, c) => Logged(b, e, c + 1))
      BY <3>1, LoggedOther
    <3>3. \A i : LastCreated(i, e, c + 1) => LastCreated(i, e, c)
      <4>1. None # None => None.password \in Nat
        OBVIOUS
      <4> QED BY <3>1, <4>1, LoggedOther
    <3>4. /\ byEmail[e] # None => byEmail[e].password \in Nat
          /\ \A i \in Ids : byId[i] # None => byId[i].password \in Nat
      <4>1. \A b \in Account : b.password \in Nat
        BY DEF Account, Ids, AccountBounds
      <4>2. byEmail[e] \in Account \cup {None} /\ \A i \in Ids : byId[i] \in Account \cup {None}
        BY DEF AccountsInv, MemoryInv
      <4> QED BY <4>1, <4>2
    <3>5. Replayed(e)
      BY <2>4
    <3>6. Logged(byEmail[e], e, c + 1) \/ (byEmail[e] = None /\ OneWasDeleted(e))
      BY <1>1, <3>2, <3>4, <3>5 DEF Replayed
    <3>7. \A i \in Ids :
            /\ byId[i] # None /\ byId[i].email = e => Logged(byId[i], e, c + 1) \/ OneWasDeleted(e)
            /\ LastCreated(i, e, c + 1) /\ i \notin deleted => Logged(byId[i], e, c + 1)
      <4>1. \A i \in Ids :
              /\ byId[i] # None /\ byId[i].email = e => Logged(byId[i], e, c) \/ OneWasDeleted(e)
              /\ LastCreated(i, e, c) /\ i \notin deleted => Logged(byId[i], e, c)
        BY <1>1, <3>5 DEF Replayed
      <4> QED BY <3>2, <3>3, <3>4, <4>1
    <3> QED BY <1>6, <2>1, <2>2, <2>3, <3>6, <3>7 DEF Replayed
  <2> QED BY <1>8, <2>1, <2>5, <2>6, <2>8, <2>9 DEF ReplayInv
<1> QED BY <1>7, <1>8

LEMMA WriteByIdReplay ==
  ASSUME AccountBounds, AccountsInv, ReplayInv, WriteById
  PROVE  ReplayInv'
<1>1. /\ writing # None /\ byId' = [byId EXCEPT ![writing.id] = writing] /\ half'
      /\ UNCHANGED <<log, cursor, writing, byEmail, deleting, deleted>>
  BY DEF WriteById, requestVars, historyVars
<1>2. writing \in Account /\ writing.id \in Ids /\ writing.email \in Emails
  BY <1>1 DEF AccountsInv, LogInv, Account
<1>3. \A j \in Ids : byId'[j] = IF j = writing.id THEN writing ELSE byId[j]
  BY <1>1, <1>2 DEF AccountsInv, MemoryInv
<1>4. /\ Logged(writing, writing.email, cursor) /\ writing.id \in 1..cursor
      /\ log[writing.id].email = writing.email
  BY <1>1 DEF ReplayInv, WritingInv, Logged, LastCreated, Event
<1>5. \A e : OneWasDeleted(e)' <=> OneWasDeleted(e)
  BY <1>1 DEF OneWasDeleted
<1>6. \A a, e, m : /\ Logged(a, e, m)' <=> Logged(a, e, m)
                   /\ LastCreated(a, e, m)' <=> LastCreated(a, e, m)
  BY <1>1 DEF Logged, LastCreated, Event
<1>7. IdsInv'
  BY <1>1, <1>3, <1>4, <1>5 DEF ReplayInv, IdsInv
<1>8. ASSUME NEW e \in Emails, e # writing.email PROVE Replayed(e)'
  <2>1. Replayed(e)
    BY <1>8 DEF ReplayInv
  <2>2. \A j \in Ids : LastCreated(j, e, cursor) => j # writing.id
    BY <1>4, <1>8 DEF LastCreated, Event
  <2> QED BY <1>1, <1>3, <1>5, <1>6, <1>8, <2>1, <2>2 DEF Replayed
<1>9. WritingInv'
  BY <1>1, <1>2, <1>3, <1>4, <1>5, <1>6 DEF ReplayInv, WritingInv
<1> QED BY <1>1, <1>7, <1>8, <1>9 DEF ReplayInv

LEMMA WriteByEmailReplay ==
  ASSUME AccountBounds, AccountsInv, ReplayInv, WriteByEmail
  PROVE  ReplayInv'
<1>1. /\ half /\ writing # None /\ writing' = None
      /\ byEmail' = [byEmail EXCEPT ![writing.email] = writing]
      /\ UNCHANGED <<log, cursor, byId, deleting, deleted>>
  BY DEF WriteByEmail, requestVars, historyVars, AccountsInv, LogInv
<1>2. PICK w \in Account, e \in Emails : w = writing /\ e = writing.email
  BY <1>1 DEF AccountsInv, LogInv, Account
<1>3. \A x \in Emails : byEmail'[x] = IF x = e THEN w ELSE byEmail[x]
  BY <1>1, <1>2 DEF AccountsInv, MemoryInv
<1>4. /\ Logged(w, e, cursor)
      /\ \A i \in Ids : i # w.id /\ byId[i] # None /\ byId[i].email = e => OneWasDeleted(e)
      /\ byId[w.id] = w \/ (byId[w.id] = None /\ w.id \in deleted)
      /\ \A x \in Emails : x # e => Replayed(x)
  BY <1>1, <1>2 DEF ReplayInv, WritingInv
<1>5. \A x : OneWasDeleted(x)' <=> OneWasDeleted(x)
  BY <1>1 DEF OneWasDeleted
<1>6. \A a, x, m : /\ Logged(a, x, m)' <=> Logged(a, x, m)
                   /\ LastCreated(a, x, m)' <=> LastCreated(a, x, m)
  BY <1>1 DEF Logged, LastCreated, Event
<1>7. IdsInv'
  BY <1>1, <1>5 DEF ReplayInv, IdsInv
<1>8. PICK c \in Nat : c = cursor
  BY LogDomain DEF AccountsInv, LogInv
<1>9. w # None /\ LastCreated(w.id, e, c)
  BY <1>1, <1>2, <1>4, <1>8 DEF Logged
<1>10. \A i : LastCreated(i, e, c) => i = w.id
  BY <1>9, LastIsUnique
<1>11. Replayed(e)'
  <2>1. \A i \in Ids : byId'[i] # None /\ byId'[i].email = e =>
          Logged(byId'[i], e, c) \/ OneWasDeleted(e)
    BY <1>1, <1>4, <1>8
  <2>2. \A i \in Ids : LastCreated(i, e, c) /\ i \notin deleted => Logged(byId'[i], e, c)
    BY <1>1, <1>4, <1>8, <1>10
  <2>3. Logged(byEmail'[e], e, c)
    BY <1>3, <1>4, <1>8
  <2> QED BY <1>1, <1>5, <1>6, <1>8, <2>1, <2>2, <2>3 DEF Replayed
<1>12. ASSUME NEW x \in Emails, x # e PROVE Replayed(x)'
  BY <1>1, <1>3, <1>4, <1>5, <1>6, <1>12 DEF Replayed
<1>13. WritingInv'
  BY <1>1 DEF WritingInv
<1> QED BY <1>7, <1>11, <1>12, <1>13 DEF ReplayInv

\* A store that is empty is what no events say.
LEMMA EmptyReplay ==
  ASSUME cursor = 0, writing = None, deleted = {},
         byId = [i \in Ids |-> None], byEmail = [e \in Emails |-> None],
         deleting = [e \in Emails |-> 0]
  PROVE  ReplayInv
<1>1. 1..0 = {}
  OBVIOUS
<1>2. IdsInv
  BY <1>1 DEF IdsInv
<1>3. \A e \in Emails : Replayed(e)
  BY <1>1, LoggedNothing DEF Replayed, LastCreated
<1> QED BY <1>2, <1>3 DEF ReplayInv, WritingInv

(***************************************************************************)
(* The accounts: what the store has of an email is what the log says, or   *)
(* is being written, in every state that is reached.                       *)
(***************************************************************************)
THEOREM ReplayInvariance ==
  ASSUME AccountBounds PROVE AccountsSpec => []ReplayInv
<1>1. AccountsInit => ReplayInv
  BY EmptyReplay DEF AccountsInit, EmptyStore
<1>2. AccountsInv /\ ReplayInv /\ [AccountsNext]_accountVars => ReplayInv'
  <2> SUFFICES ASSUME AccountsInv, ReplayInv, [AccountsNext]_accountVars PROVE ReplayInv'
    OBVIOUS
  <2>1. ASSUME NEW e \in Emails, CheckEmail(e) \/ RequestPasswordReset(e) PROVE ReplayInv'
    BY <2>1, SameReplay DEF CheckEmail, RequestPasswordReset, projectionVars, storeVars, historyVars
  <2>2. ASSUME NEW e \in Emails, CreateAccount(e) PROVE ReplayInv'
    BY <2>2, AppendedReplay DEF CreateAccount, projectionVars, storeVars, historyVars
  <2>3. ASSUME NEW t \in DOMAIN tokens, TokenExpires(t) \/ LoadToken(t) PROVE ReplayInv'
    BY <2>3, SameReplay DEF TokenExpires, LoadToken, projectionVars, storeVars, historyVars
  <2>4. ASSUME NEW t \in DOMAIN tokens, ResetPassword(t) PROVE ReplayInv'
    BY <2>4, AppendedReplay DEF ResetPassword, projectionVars, storeVars, historyVars
  <2>5. CASE Crash
    BY <2>5, SameReplay DEF Crash, projectionVars, storeVars, requestVars, historyVars
  <2>6. CASE Restart
    <3>1. (/\ cursor = 0 /\ writing = None /\ deleted = {}
           /\ byId = [i \in Ids |-> None] /\ byEmail = [e \in Emails |-> None]
           /\ deleting = [e \in Emails |-> 0])'
      BY <2>6 DEF Restart, EmptyStore
    <3> QED BY <3>1, EmptyReplay, PTL
  <2>7. CASE UNCHANGED accountVars
    BY <2>7, SameReplay DEF accountVars, projectionVars, storeVars, requestVars, historyVars
  <2> QED BY <2>1, <2>2, <2>3, <2>4, <2>5, <2>6, <2>7, DeleteAccountReplay, DeleteEmailReplay,
             ApplyEventReplay, WriteByIdReplay, WriteByEmailReplay DEF AccountsNext
<1> QED BY <1>1, <1>2, AccountsInvariance, PTL DEF AccountsSpec

(***************************************************************************)
(* The projection and DeleteAccount: between two events the store is what  *)
(* the log says, but for emails of which an account was deleted.           *)
(***************************************************************************)
THEOREM StoreReplays ==
  ASSUME AccountBounds PROVE AccountsSpec => []StoreIsReplay
<1>1. ReplayInv => StoreIsReplay
  BY DEF ReplayInv, IdsInv, Replayed, StoreIsReplay
<1> QED BY <1>1, ReplayInvariance, PTL


-----------------------------------------------------------------------------
(***************************************************************************)
(* The session list                                                        *)
(***************************************************************************)

\* Sessions have positive numbers, and at least one is kept.
ListBounds ==
  /\ SessionIds \subseteq Nat \ {0} /\ MaxKept \in Nat \ {0}
  /\ "none" \notin ConnectionIds

\* Natural numbers have a smallest one, in any set of them that is not empty.
Below == {ss \in Nat \X Nat : ss[1] < ss[2]}
LEMMA BelowIsWellFounded == IsWellFoundedOn(Below, Nat)
<1>1. OpToRel(<, Nat) = Below
  BY Zenon DEF OpToRel, Below
<1> QED BY <1>1, NatLessThanWellFounded
LEMMA Smallest ==
  ASSUME NEW S \in SUBSET Nat, S # {}
  PROVE  \E x \in S : \A y \in S : x <= y
<1>1. PICK x \in S : \A y \in S : ~ (<<y, x>> \in Below)
  BY BelowIsWellFounded, WFMin
<1>2. ASSUME NEW y \in S PROVE x <= y
  <2>1. x \in Nat /\ y \in Nat
    OBVIOUS
  <2>2. y < x => <<y, x>> \in Below
    BY <2>1 DEF Below
  <2> QED BY <1>1, <2>1, <2>2
<1> QED BY <1>2
LEMMA MinIs ==
  ASSUME NEW S \in SUBSET Nat, S # {}
  PROVE  Min(S) \in S /\ \A y \in S : Min(S) <= y
BY Smallest DEF Min
LEMMA RemoveAtIs ==
  ASSUME NEW T, NEW s \in Seq(T), NEW i \in 1..Len(s)
  PROVE  /\ RemoveAt(s, i) \in Seq(T) /\ Len(RemoveAt(s, i)) = Len(s) - 1
         /\ \A k \in 1..(Len(s) - 1) : RemoveAt(s, i)[k] = IF k < i THEN s[k] ELSE s[k + 1]
<1>1. PICK n \in Nat : n = Len(s)
  BY LenProperties
<1>2. \A k \in 1..n : s[k] \in T
  BY <1>1, ElementOfSeq
<1>3. PICK a : a = SubSeq(s, 1, i - 1)
  OBVIOUS
<1>4. a \in Seq(T) /\ Len(a) = i - 1 /\ \A k \in 1..(i - 1) : a[k] = s[k]
  <2>1. 1 \in Int /\ i - 1 \in Int /\ \A k \in 1..(i - 1) : s[k] \in T
    BY <1>1, <1>2
  <2>2. /\ a \in Seq(T) /\ Len(a) = IF 1 <= i - 1 THEN (i - 1) - 1 + 1 ELSE 0
        /\ \A k \in 1..((i - 1) - 1 + 1) : a[k] = s[1 + k - 1]
    BY <1>3, <2>1, SubSeqProperties
  <2> QED BY <1>1, <2>2
<1>5. PICK b : b = SubSeq(s, i + 1, n)
  OBVIOUS
<1>6. b \in Seq(T) /\ Len(b) = n - i /\ \A k \in 1..(n - i) : b[k] = s[i + k]
  <2>1. i + 1 \in Int /\ n \in Int /\ \A k \in (i + 1)..n : s[k] \in T
    BY <1>1, <1>2
  <2>2. /\ b \in Seq(T) /\ Len(b) = IF i + 1 <= n THEN n - (i + 1) + 1 ELSE 0
        /\ \A k \in 1..(n - (i + 1) + 1) : b[k] = s[(i + 1) + k - 1]
    BY <1>5, <2>1, SubSeqProperties
  <2>3. /\ (IF i + 1 <= n THEN n - (i + 1) + 1 ELSE 0) = n - i
        /\ n - (i + 1) + 1 = n - i /\ \A k \in 1..(n - i) : (i + 1) + k - 1 = i + k
    BY <1>1
  <2> QED BY <2>2, <2>3
<1>7. PICK r : r = a \o b
  OBVIOUS
<1>8. /\ r \in Seq(T) /\ Len(r) = Len(a) + Len(b)
      /\ \A k \in 1..(Len(a) + Len(b)) : r[k] = IF k <= Len(a) THEN a[k] ELSE b[k - Len(a)]
  <2>1. a \in Seq(T) /\ b \in Seq(T)
    BY <1>4, <1>6
  <2> QED BY <1>7, <2>1, ConcatProperties
<1>9. Len(r) = n - 1 /\ \A k \in 1..(n - 1) : r[k] = IF k < i THEN s[k] ELSE s[k + 1]
  <2>1. PICK m \in Nat : m = i - 1
    BY <1>1
  <2>2. Len(a) = m /\ Len(b) = n - i /\ Len(r) = n - 1
    BY <1>1, <1>4, <1>6, <1>8, <2>1
  <2>3. \A k \in 1..(n - 1) : r[k] = IF k <= m THEN a[k] ELSE b[k - m]
    BY <1>1, <1>8, <2>1, <2>2
  <2>4. ASSUME NEW k \in 1..(n - 1) PROVE r[k] = IF k < i THEN s[k] ELSE s[k + 1]
    <3>1. CASE k < i
      BY <1>1, <1>4, <2>1, <2>3, <3>1
    <3>2. CASE ~(k < i)
      <4>1. PICK j \in 1..(n - i) : j = k - m /\ i + j = k + 1
        BY <1>1, <2>1, <3>2
      <4>2. ~(k <= m)
        BY <1>1, <2>1, <3>2
      <4>3. r[k] = b[j]
        BY <2>3, <4>1, <4>2
      <4> QED BY <1>6, <3>2, <4>1, <4>3
    <3> QED BY <3>1, <3>2
  <2> QED BY <2>2, <2>4
<1>10. RemoveAt(s, i) = r
  BY <1>1, <1>3, <1>5, <1>7 DEF RemoveAt
<1> QED BY <1>1, <1>8, <1>9, <1>10

LEMMA SelectIs ==
  ASSUME NEW T, NEW s \in Seq(T), NEW P, P \subseteq 1..Len(s)
  PROVE  P # {} => Min(P) \in P /\ \A i \in P : Min(P) <= i
BY LenProperties, MinIs

Session == [id : SessionIds, host : ConnectionIds, request : Nat]
KeptSession == [id : SessionIds, host : ConnectionIds]
ListEvent ==
  [type : {"server.started", "session.started", "session.ended", "client.connected",
           "client.disconnected"},
   host : ConnectionIds \cup {"none"}, id : Nat]
IsList(l) ==
  /\ l \in [sessions : SUBSET Session, active : [ConnectionIds -> Nat],
            kept : Seq(KeptSession), keptByKey : [ConnectionIds -> SessionIds \cup {0}]]
  /\ IsFiniteSet(l.sessions)
InPlace(l) ==
  /\ \A s, t \in l.sessions : s.host = t.host => s = t
  /\ \A s \in l.sessions : l.keptByKey[s.host] = 0
  /\ Len(l.kept) <= MaxKept
  /\ \A i \in 1..Len(l.kept) : l.keptByKey[l.kept[i].host] = l.kept[i].id
  /\ \A i, j \in 1..Len(l.kept) : l.kept[i].host = l.kept[j].host => i = j
  /\ \A c \in ConnectionIds :
       l.keptByKey[c] # 0 => \E i \in 1..Len(l.kept) : l.kept[i].host = c
Good(l) == IsList(l) /\ InPlace(l)
Knows(l, n, c) ==
  (\E s \in l.sessions : s.id = n /\ s.host = c) \/ l.keptByKey[c] = n
Stands(i, n, c) ==
  /\ i \in 1..Len(events)
  /\ events[i].type = "session.started" /\ events[i].id = n /\ events[i].host = c
  /\ \A j \in (i + 1)..Len(events) :
       /\ ~(events[j].type = "session.ended" /\ events[j].id = n)
       /\ ~(events[j].type = "session.started" /\ events[j].host = c)
Undisturbed(i) ==
  /\ events[i].type = "session.started"
  /\ \A j \in (i + 1)..Len(events) :
       /\ events[j].type # "server.started"
       /\ events[j].type = "session.ended" => events[j].id # events[i].id
       /\ events[j].host = events[i].host => events[j].type = "client.connected"
Hello(p) ==
  /\ events[p].type = "client.connected"
  /\ \A j \in (p + 1)..Len(events) :
       events[j].type # "server.started" /\ ~IsStatus(j, events[p].host)
Goodbye(p, d) ==
  /\ p < d
  /\ events[p].type = "client.connected" /\ events[d].type = "client.disconnected"
  /\ events[p].host = events[d].host /\ events[p].id = events[d].id
  /\ \A j \in (p + 1)..Len(events) :
       j # d => events[j].type # "server.started" /\ ~IsStatus(j, events[p].host)
  /\ \A j \in (d + 1)..Len(events) :
       ~(events[j].type = "session.started" /\ events[j].host = events[p].host)
EventsInv ==
  /\ events \in Seq(ListEvent)
  /\ \A i \in 1..Len(events) :
      /\ events[i].type = "session.started" => events[i].id \in SessionIds /\ events[i].host \in ConnectionIds
      /\ events[i].type = "client.connected" => events[i].host \in ConnectionIds
  /\ \A i, j \in 1..Len(events) :
       events[i].type = "session.started" /\ events[j].type = "session.started"
       /\ events[i].id = events[j].id => events[i].host = events[j].host
ListInv ==
  /\ EventsInv /\ Good(list)
  /\ \A n \in SessionIds, c \in ConnectionIds :
       Knows(list, n, c) => n \in store /\ \E i \in 1..Len(events) : Stands(i, n, c)
  /\ \A i \in 1..Len(events) : Undisturbed(i) =>
       \E s \in list.sessions : s.id = events[i].id /\ s.host = events[i].host
  /\ \A p \in 1..Len(events) : Hello(p) =>
       /\ list.active[events[p].host] = events[p].id
       /\ \A s \in OnHost(list, events[p].host) : s.request = events[p].id
  /\ \A p, d \in 1..Len(events) : Goodbye(p, d) => OnHost(list, events[p].host) = {}

-----------------------------------------------------------------------------
(* What the operations of the list do to it *)

LEMMA ListFields ==
  ASSUME NEW l, IsList(l)
  PROVE  /\ l.sessions \subseteq Session /\ IsFiniteSet(l.sessions)
         /\ l.active \in [ConnectionIds -> Nat]
         /\ l.kept \in Seq(KeptSession) /\ Len(l.kept) \in Nat
         /\ l.keptByKey \in [ConnectionIds -> SessionIds \cup {0}]
         /\ \A i \in 1..Len(l.kept) : /\ l.kept[i] \in KeptSession
                                      /\ l.kept[i].host \in ConnectionIds
                                      /\ l.kept[i].id \in SessionIds
<1>1. /\ l.sessions \subseteq Session /\ IsFiniteSet(l.sessions)
      /\ l.active \in [ConnectionIds -> Nat] /\ l.kept \in Seq(KeptSession)
      /\ l.keptByKey \in [ConnectionIds -> SessionIds \cup {0}]
  BY DEF IsList
<1>2. Len(l.kept) \in Nat /\ \A i \in 1..Len(l.kept) : l.kept[i] \in KeptSession
  BY <1>1, LenProperties, ElementOfSeq
<1> QED BY <1>1, <1>2 DEF KeptSession

\* A list without one of its kept sessions, nor its key.
LEMMA Forgets ==
  ASSUME ListBounds, NEW l, Good(l), NEW i \in 1..Len(l.kept), NEW r, IsList(r),
         r.sessions = l.sessions, r.kept = RemoveAt(l.kept, i),
         \A c \in ConnectionIds :
           r.keptByKey[c] = IF c = l.kept[i].host THEN 0 ELSE l.keptByKey[c]
  PROVE  InPlace(r) /\ Len(r.kept) <= Len(l.kept)
<1>1. PICK n \in Nat : n = Len(l.kept)
  BY ListFields DEF Good
<1>2. PICK k : k = r.kept
  OBVIOUS
<1>3. /\ Len(k) = n - 1
      /\ \A j \in 1..(n - 1) : k[j] = IF j < i THEN l.kept[j] ELSE l.kept[j + 1]
  <2>1. l.kept \in Seq(KeptSession)
    BY ListFields DEF Good
  <2> QED BY <1>1, <1>2, <2>1, RemoveAtIs
<1>4. PICK h \in ConnectionIds : h = l.kept[i].host
  BY ListFields DEF Good
<1>5. PICK f : f = r.keptByKey
  OBVIOUS
<1>6. \A c \in ConnectionIds : f[c] = IF c = h THEN 0 ELSE l.keptByKey[c]
  BY <1>4, <1>5
<1>8. r.sessions = l.sessions /\ r.keptByKey = f /\ r.kept = k
  BY <1>2, <1>5
<1>9. \A j \in 1..(n - 1) : \E m \in 1..n : m # i /\ k[j] = l.kept[m] /\ m = IF j < i THEN j ELSE j + 1
  <2> TAKE j \in 1..(n - 1)
  <2>1. PICK m : m = IF j < i THEN j ELSE j + 1
    OBVIOUS
  <2>2. m \in 1..n /\ m # i
    BY <1>1, <2>1
  <2> QED BY <1>3, <2>1, <2>2
<1>10. \A m \in 1..n : m # i => \E j \in 1..(n - 1) : k[j] = l.kept[m]
  <2> SUFFICES ASSUME NEW m \in 1..n, m # i PROVE \E j \in 1..(n - 1) : k[j] = l.kept[m]
    OBVIOUS
  <2>1. CASE m < i
    <3>1. m \in 1..(n - 1)
      BY <1>1, <2>1
    <3> QED BY <1>3, <2>1, <3>1
  <2>2. CASE ~(m < i)
    <3>1. m - 1 \in 1..(n - 1) /\ ~(m - 1 < i) /\ (m - 1) + 1 = m
      BY <1>1, <2>2
    <3> QED BY <1>3, <3>1
  <2> QED BY <2>1, <2>2
<1>11. InPlace(l)
  BY DEF Good
<1>12. InPlace(r)
  <2>1. (\A s, t \in r.sessions : s.host = t.host => s = t)
        /\ \A s \in r.sessions : r.keptByKey[s.host] = 0
    <3>1. \A s \in l.sessions : s.host \in ConnectionIds
      BY ListFields DEF Good, Session
    <3> QED BY <1>6, <1>8, <1>11, <3>1 DEF InPlace
  <2>2. Len(r.kept) <= MaxKept
    BY <1>1, <1>3, <1>8, <1>11 DEF InPlace, ListBounds
  <2>3. \A j \in 1..Len(r.kept) : r.keptByKey[r.kept[j].host] = r.kept[j].id
    <3> SUFFICES ASSUME NEW j \in 1..(n - 1) PROVE f[k[j].host] = k[j].id
      BY <1>3, <1>8
    <3>1. PICK m \in 1..n : m # i /\ k[j] = l.kept[m]
      BY <1>9
    <3>2. l.kept[m].host # h /\ l.kept[m].host \in ConnectionIds
      BY <1>1, <1>4, <1>11, <3>1, ListFields DEF InPlace, Good
    <3> QED BY <1>1, <1>6, <1>11, <3>1, <3>2 DEF InPlace
  <2>4. \A a, b \in 1..Len(r.kept) : r.kept[a].host = r.kept[b].host => a = b
    <3> SUFFICES ASSUME NEW a \in 1..(n - 1), NEW b \in 1..(n - 1), k[a].host = k[b].host
                 PROVE  a = b
      BY <1>3, <1>8
    <3>1. PICK x \in 1..n : k[a] = l.kept[x] /\ x = IF a < i THEN a ELSE a + 1
      BY <1>9
    <3>2. PICK y \in 1..n : k[b] = l.kept[y] /\ y = IF b < i THEN b ELSE b + 1
      BY <1>9
    <3>3. x = y
      BY <1>1, <1>11, <3>1, <3>2 DEF InPlace
    <3> QED BY <1>1, <3>1, <3>2, <3>3
  <2>5. \A c \in ConnectionIds :
          r.keptByKey[c] # 0 => \E j \in 1..Len(r.kept) : r.kept[j].host = c
    <3> SUFFICES ASSUME NEW c \in ConnectionIds, f[c] # 0
                 PROVE  \E j \in 1..(n - 1) : k[j].host = c
      BY <1>3, <1>8
    <3>1. c # h /\ l.keptByKey[c] # 0
      BY <1>6
    <3>2. PICK m \in 1..n : l.kept[m].host = c
      BY <1>1, <1>11, <3>1 DEF InPlace
    <3> QED BY <1>4, <1>10, <3>1, <3>2
  <2> QED BY <2>1, <2>2, <2>3, <2>4, <2>5 DEF InPlace
<1>13. Len(r.kept) <= Len(l.kept)
  BY <1>1, <1>3, <1>8
<1> QED BY <1>12, <1>13

LEMMA RemoveKeptDoes ==
  ASSUME ListBounds, NEW l, Good(l), NEW c \in ConnectionIds, NEW r, r = RemoveKept(l, c)
  PROVE  /\ Good(r) /\ r.sessions = l.sessions /\ r.active = l.active
         /\ Len(r.kept) <= Len(l.kept)
         /\ \A d \in ConnectionIds : r.keptByKey[d] = IF d = c THEN 0 ELSE l.keptByKey[d]
<1>1. CASE l.keptByKey[c] = 0
  <2>1. r = l /\ Len(l.kept) \in Nat
    BY <1>1, ListFields DEF RemoveKept, Good
  <2> QED BY <1>1, <2>1
<1>2. CASE l.keptByKey[c] # 0
  <2>1. PICK P : P = {i \in 1..Len(l.kept) : l.kept[i].host = c}
    OBVIOUS
  <2>2. P # {} /\ P \subseteq 1..Len(l.kept)
    BY <1>2, <2>1 DEF Good, InPlace
  <2>3. PICK i : i = Min(P)
    OBVIOUS
  <2>4. i \in 1..Len(l.kept) /\ l.kept[i].host = c
    <3>1. l.kept \in Seq(KeptSession)
      BY ListFields DEF Good
    <3>2. i \in P
      BY <2>2, <2>3, <3>1, SelectIs
    <3> QED BY <2>1, <3>2
  <2>5. RemoveFirstMatch(l.kept, LAMBDA s : s.host = c) = RemoveAt(l.kept, i)
    BY <2>1, <2>2, <2>3 DEF RemoveFirstMatch, SelectInSeq
  <2>6. PICK f, k : f = [l.keptByKey EXCEPT ![l.kept[i].host] = 0] /\ k = RemoveAt(l.kept, i)
    OBVIOUS
  <2>7. /\ f \in [ConnectionIds -> SessionIds \cup {0}]
        /\ \A d \in ConnectionIds : f[d] = IF d = l.kept[i].host THEN 0 ELSE l.keptByKey[d]
    BY <2>6, ListFields DEF Good
  <2>8. k \in Seq(KeptSession)
    BY <2>4, <2>6, ListFields, RemoveAtIs DEF Good
  <2>9. /\ r.sessions = l.sessions /\ r.active = l.active /\ r.keptByKey = f /\ r.kept = k
        /\ IsList(r)
    <3>1. l \in [sessions : SUBSET Session, active : [ConnectionIds -> Nat],
                 kept : Seq(KeptSession), keptByKey : [ConnectionIds -> SessionIds \cup {0}]]
      BY DEF Good, IsList
    <3>2. r = [l EXCEPT !.keptByKey = f, !.kept = k]
      BY <1>2, <2>4, <2>5, <2>6, <3>1 DEF RemoveKept
    <3>3. /\ r.sessions = l.sessions /\ r.active = l.active /\ r.keptByKey = f /\ r.kept = k
          /\ r \in [sessions : SUBSET Session, active : [ConnectionIds -> Nat],
                    kept : Seq(KeptSession), keptByKey : [ConnectionIds -> SessionIds \cup {0}]]
      BY <2>7, <2>8, <3>1, <3>2
    <3> QED BY <3>3 DEF Good, IsList
  <2>10. InPlace(r) /\ Len(r.kept) <= Len(l.kept)
    BY <2>4, <2>6, <2>7, <2>9, Forgets
  <2> QED BY <2>4, <2>7, <2>9, <2>10 DEF Good
<1> QED BY <1>1, <1>2

LEMMA RemoveKeptIdDoes ==
  ASSUME ListBounds, NEW l, Good(l), NEW n \in SessionIds, NEW r, r = RemoveKeptId(l, n),
         \A c, d \in ConnectionIds : l.keptByKey[c] = n /\ l.keptByKey[d] = n => c = d
  PROVE  /\ Good(r) /\ r.sessions = l.sessions /\ r.active = l.active
         /\ \A d \in ConnectionIds : r.keptByKey[d] = IF l.keptByKey[d] = n THEN 0 ELSE l.keptByKey[d]
<1>1. PICK P : P = {i \in 1..Len(l.kept) : l.kept[i].id = n}
  OBVIOUS
<1>2. PICK i : i = IF P # {} THEN Min(P) ELSE 0
  OBVIOUS
<1>3. SelectInSeq(l.kept, LAMBDA s : s.id = n) = i
  BY <1>1, <1>2 DEF SelectInSeq
<1>4. r = IF i = 0 THEN l
          ELSE [l EXCEPT !.keptByKey[l.kept[i].host] = 0, !.kept = RemoveAt(@, i)]
  BY <1>3 DEF RemoveKeptId
<1>5. P \subseteq 1..Len(l.kept)
  BY <1>1
<1>6. n # 0
  BY DEF ListBounds
<1>7. CASE P = {}
  <2>1. \A d \in ConnectionIds : l.keptByKey[d] # n
    BY <1>1, <1>6, <1>7 DEF Good, InPlace
  <2>2. r = l
    BY <1>2, <1>4, <1>7
  <2> QED BY <2>1, <2>2
<1>8. CASE P # {}
  <2>1. i \in 1..Len(l.kept) /\ l.kept[i].id = n
    <3>1. l.kept \in Seq(KeptSession)
      BY ListFields DEF Good
    <3>2. i \in P
      BY <1>2, <1>5, <1>8, <3>1, SelectIs
    <3> QED BY <1>1, <3>2
  <2>3. l.kept[i].host \in ConnectionIds /\ l.keptByKey[l.kept[i].host] = n
    BY <2>1, ListFields DEF Good, InPlace
  <2>6. PICK f, k : f = [l.keptByKey EXCEPT ![l.kept[i].host] = 0] /\ k = RemoveAt(l.kept, i)
    OBVIOUS
  <2>7. /\ f \in [ConnectionIds -> SessionIds \cup {0}]
        /\ \A d \in ConnectionIds : f[d] = IF d = l.kept[i].host THEN 0 ELSE l.keptByKey[d]
    BY <2>6, <2>3, ListFields DEF Good
  <2>8. k \in Seq(KeptSession)
    BY <2>1, <2>6, ListFields, RemoveAtIs DEF Good
  <2>9. /\ r.sessions = l.sessions /\ r.active = l.active /\ r.keptByKey = f /\ r.kept = k
        /\ IsList(r)
    <3>1. l \in [sessions : SUBSET Session, active : [ConnectionIds -> Nat],
                 kept : Seq(KeptSession), keptByKey : [ConnectionIds -> SessionIds \cup {0}]]
      BY DEF Good, IsList
    <3>2. r = [l EXCEPT !.keptByKey = f, !.kept = k]
      BY <1>4, <2>1, <2>6, <3>1 DEF RemoveKept
    <3>3. /\ r.sessions = l.sessions /\ r.active = l.active /\ r.keptByKey = f /\ r.kept = k
          /\ r \in [sessions : SUBSET Session, active : [ConnectionIds -> Nat],
                    kept : Seq(KeptSession), keptByKey : [ConnectionIds -> SessionIds \cup {0}]]
      BY <2>7, <2>8, <3>1, <3>2
    <3> QED BY <3>3 DEF Good, IsList
  <2>10. InPlace(r) /\ Len(r.kept) <= Len(l.kept)
    BY <2>1, <2>6, <2>7, <2>9, Forgets
  <2>11. \A d \in ConnectionIds : d = l.kept[i].host <=> l.keptByKey[d] = n
    BY <2>3
  <2> QED BY <2>7, <2>9, <2>10, <2>11 DEF Good
<1> QED BY <1>7, <1>8

\* A list with other sessions, or other active connections.
LEMMA WithSessions ==
  ASSUME NEW l, IsList(l), NEW S \in SUBSET Session, IsFiniteSet(S)
  PROVE  /\ IsList([l EXCEPT !.sessions = S]) /\ [l EXCEPT !.sessions = S].sessions = S
         /\ [l EXCEPT !.sessions = S].active = l.active
         /\ [l EXCEPT !.sessions = S].kept = l.kept
         /\ [l EXCEPT !.sessions = S].keptByKey = l.keptByKey
<1>1. l \in [sessions : SUBSET Session, active : [ConnectionIds -> Nat],
             kept : Seq(KeptSession), keptByKey : [ConnectionIds -> SessionIds \cup {0}]]
  BY DEF IsList
<1>2. PICK r : r = [l EXCEPT !.sessions = S]
  OBVIOUS
<1>3. /\ r \in [sessions : SUBSET Session, active : [ConnectionIds -> Nat],
                kept : Seq(KeptSession), keptByKey : [ConnectionIds -> SessionIds \cup {0}]]
      /\ r.sessions = S /\ r.active = l.active /\ r.kept = l.kept /\ r.keptByKey = l.keptByKey
  BY <1>1, <1>2
<1> QED BY <1>2, <1>3 DEF IsList

LEMMA WithActive ==
  ASSUME NEW l, IsList(l), NEW A \in [ConnectionIds -> Nat]
  PROVE  /\ IsList([l EXCEPT !.active = A]) /\ [l EXCEPT !.active = A].active = A
         /\ [l EXCEPT !.active = A].sessions = l.sessions
         /\ [l EXCEPT !.active = A].kept = l.kept
         /\ [l EXCEPT !.active = A].keptByKey = l.keptByKey
<1>1. l \in [sessions : SUBSET Session, active : [ConnectionIds -> Nat],
             kept : Seq(KeptSession), keptByKey : [ConnectionIds -> SessionIds \cup {0}]]
  BY DEF IsList
<1>2. PICK r : r = [l EXCEPT !.active = A]
  OBVIOUS
<1>3. /\ r \in [sessions : SUBSET Session, active : [ConnectionIds -> Nat],
                kept : Seq(KeptSession), keptByKey : [ConnectionIds -> SessionIds \cup {0}]]
      /\ r.active = A /\ r.sessions = l.sessions /\ r.kept = l.kept /\ r.keptByKey = l.keptByKey
  BY <1>1, <1>2
<1> QED BY <1>2, <1>3 DEF IsList

LEMMA FewerInPlace ==
  ASSUME NEW l, InPlace(l), NEW r, r.sessions \subseteq l.sessions,
         r.kept = l.kept, r.keptByKey = l.keptByKey
  PROVE  InPlace(r)
BY DEF InPlace

\* What the log lists or keeps a session of.
LEMMA EndedDoes ==
  ASSUME ListBounds, NEW l, Good(l), NEW n \in SessionIds, NEW e, e.id = n,
         NEW r, r = ApplySessionEnded(l, e),
         \A c, d \in ConnectionIds : l.keptByKey[c] = n /\ l.keptByKey[d] = n => c = d
  PROVE  /\ Good(r) /\ r.active = l.active
         /\ r.sessions = {s \in l.sessions : s.id # n}
         /\ \A d \in ConnectionIds : r.keptByKey[d] = IF l.keptByKey[d] = n THEN 0 ELSE l.keptByKey[d]
<1>1. PICK S : S = {s \in l.sessions : s.id # n}
  OBVIOUS
<1>2. S \in SUBSET Session /\ IsFiniteSet(S) /\ S \subseteq l.sessions
  <2>1. S \subseteq l.sessions
    BY <1>1
  <2> QED BY <2>1, ListFields, FS_Subset DEF Good
<1>3. PICK m : m = [l EXCEPT !.sessions = S]
  OBVIOUS
<1>4. /\ IsList(m) /\ m.sessions = S /\ m.active = l.active /\ m.kept = l.kept
      /\ m.keptByKey = l.keptByKey
  <2>1. IsList(l)
    BY DEF Good
  <2> QED BY <1>2, <1>3, <2>1, WithSessions, Zenon
<1>5. Good(m)
  BY <1>2, <1>4, FewerInPlace DEF Good
<1>6. r = RemoveKeptId(m, n)
  BY <1>1, <1>3 DEF ApplySessionEnded
<1> QED BY <1>1, <1>4, <1>5, <1>6, RemoveKeptIdDoes

LEMMA StartedDoes ==
  ASSUME ListBounds, NEW l, Good(l), NEW n \in SessionIds, NEW c \in ConnectionIds,
         NEW e, e.id = n, e.host = c, NEW r, r = ApplySessionStarted(l, e)
  PROVE  /\ Good(r) /\ r.active = l.active
         /\ r.sessions = {s \in l.sessions : s.host # c /\ s.id # n}
                           \cup {[id |-> n, host |-> c, request |-> l.active[c]]}
         /\ \A d \in ConnectionIds : r.keptByKey[d] = IF d = c THEN 0 ELSE l.keptByKey[d]
<1> USE DEF Good
<1>1. PICK S : S = l.sessions \ OnHost(l, c)
  OBVIOUS
<1>2. S \in SUBSET Session /\ IsFiniteSet(S) /\ S \subseteq l.sessions
  <2>1. S \subseteq l.sessions
    BY <1>1
  <2> QED BY <2>1, ListFields, FS_Subset
<1>3. PICK m : m = [l EXCEPT !.sessions = S]
  OBVIOUS
<1>4. /\ IsList(m) /\ m.sessions = S /\ m.active = l.active /\ m.kept = l.kept
      /\ m.keptByKey = l.keptByKey
  BY <1>2, <1>3, WithSessions, Zenon
<1>5. Good(m)
  BY <1>2, <1>4, FewerInPlace
<1>6. PICK q : q = RemoveKept(m, c)
  OBVIOUS
<1>7. /\ Good(q) /\ q.sessions = S /\ q.active = l.active
      /\ \A d \in ConnectionIds : q.keptByKey[d] = IF d = c THEN 0 ELSE l.keptByKey[d]
  BY <1>4, <1>5, <1>6, RemoveKeptDoes
<1>8. PICK new : new = [id |-> n, host |-> c, request |-> l.active[c]]
  OBVIOUS
<1>9. new \in Session /\ new.host = c
  BY <1>8, ListFields DEF Session
<1>10. PICK R : R = {s \in S : s.id # n} \cup {new}
  OBVIOUS
<1>11. R \in SUBSET Session /\ IsFiniteSet(R)
  <2>1. {s \in S : s.id # n} \subseteq S
    OBVIOUS
  <2>2. IsFiniteSet({s \in S : s.id # n})
    BY <1>2, <2>1, FS_Subset
  <2> QED BY <1>2, <1>9, <1>10, <2>2, FS_AddElement
<1>12. r = [q EXCEPT !.sessions = R]
  <2>1. m = [l EXCEPT !.sessions = l.sessions \ OnHost(l, e.host)]
    BY <1>1, <1>3
  <2>2. r = [q EXCEPT !.sessions = {s \in q.sessions : s.id # e.id}
                \cup {[id |-> e.id, host |-> e.host, request |-> q.active[e.host]]}]
    BY <1>6, <2>1, Zenon DEF ApplySessionStarted
  <2> QED BY <1>7, <1>8, <1>10, <2>2
<1>13. /\ IsList(r) /\ r.sessions = R /\ r.active = q.active /\ r.kept = q.kept
       /\ r.keptByKey = q.keptByKey
  <2>1. IsList(q)
    BY <1>7
  <2>2. PICK v : v = [q EXCEPT !.sessions = R]
    OBVIOUS
  <2>3. /\ IsList(v) /\ v.sessions = R /\ v.active = q.active /\ v.kept = q.kept
        /\ v.keptByKey = q.keptByKey
    BY <1>11, <2>1, <2>2, WithSessions, Zenon
  <2> QED BY <1>12, <2>2, <2>3
<1>14. InPlace(r)
  <2>1. \A s \in S : s \in l.sessions /\ s.host # c
    BY <1>1 DEF OnHost
  <2>2. \A s \in R : s = new \/ (s \in S /\ s.host # c)
    BY <1>10, <2>1
  <2>3. \A s, t \in R : s.host = t.host => s = t
    BY <1>9, <2>1, <2>2 DEF InPlace
  <2>4. \A s \in R : q.keptByKey[s.host] = 0
    BY <1>7, <1>9, <2>2 DEF InPlace
  <2> QED BY <1>7, <1>13, <2>3, <2>4 DEF InPlace
<1>15. R = {s \in l.sessions : s.host # c /\ s.id # n} \cup {new}
  BY <1>1, <1>10 DEF OnHost
<1> QED BY <1>7, <1>8, <1>13, <1>14, <1>15

LEMMA TrackDoes ==
  ASSUME ListBounds, NEW l, Good(l), NEW s \in l.sessions, NEW r, r = Track(l, s)
  PROVE  /\ Good(r) /\ r.active = l.active /\ r.sessions = l.sessions \ {s}
         /\ \A d \in ConnectionIds : \/ d = s.host /\ r.keptByKey[d] = s.id
                                     \/ r.keptByKey[d] \in {0, l.keptByKey[d]}
<1> USE DEF Good
<1>1. PICK n \in Nat, c \in ConnectionIds, i \in SessionIds :
        n = Len(l.kept) /\ c = s.host /\ i = s.id
  BY ListFields DEF Session
<1>2. PICK S : S = l.sessions \ {s}
  OBVIOUS
<1>3. S \in SUBSET Session /\ IsFiniteSet(S) /\ S \subseteq l.sessions
  <2>1. S \subseteq l.sessions
    BY <1>2
  <2> QED BY <2>1, ListFields, FS_Subset
<1>4. PICK m : m = [l EXCEPT !.sessions = S]
  OBVIOUS
<1>5. /\ IsList(m) /\ m.sessions = S /\ m.active = l.active /\ m.kept = l.kept
      /\ m.keptByKey = l.keptByKey
  BY <1>3, <1>4, WithSessions, Zenon
<1>6. RemoveKept(m, s.host) = m
  BY <1>5 DEF RemoveKept, InPlace
<1>7. PICK x \in KeptSession : x = [id |-> i, host |-> c]
  BY DEF KeptSession
<1>8. PICK k : k = Append(l.kept, x)
  OBVIOUS
<1>9. /\ k \in Seq(KeptSession) /\ Len(k) = n + 1 /\ k[n + 1] = x
      /\ \A j \in 1..n : k[j] = l.kept[j]
  BY <1>1, <1>8, AppendProperties, ListFields
<1>10. \A j \in 1..n : /\ l.kept[j].host \in ConnectionIds /\ l.kept[j].host # c
                       /\ l.keptByKey[l.kept[j].host] = l.kept[j].id
  BY <1>1, ListFields DEF InPlace, ListBounds
<1>11. PICK off \in 0..1 : off = IF n + 1 > MaxKept THEN 1 ELSE 0
  OBVIOUS
<1>12. n <= MaxKept /\ n + 1 - off <= MaxKept /\ (off = 1 => 1 \in 1..n /\ k[1] = l.kept[1])
  <2>1. n <= MaxKept
    BY <1>1 DEF InPlace
  <2> QED BY <1>9, <1>11, <2>1 DEF ListBounds
<1>13. PICK h : h = k[1].host
  OBVIOUS
<1>14. PICK f : f = IF off = 1 THEN [[l.keptByKey EXCEPT ![h] = 0] EXCEPT ![c] = i]
                               ELSE [l.keptByKey EXCEPT ![c] = i]
  OBVIOUS
<1>15. off = 1 => h \in ConnectionIds /\ h = l.kept[1].host /\ h # c
  BY <1>10, <1>12, <1>13
<1>16. /\ f \in [ConnectionIds -> SessionIds \cup {0}]
       /\ \A d \in ConnectionIds :
            f[d] = IF d = c THEN i ELSE IF off = 1 /\ d = h THEN 0 ELSE l.keptByKey[d]
  <2>1. l.keptByKey \in [ConnectionIds -> SessionIds \cup {0}]
    BY ListFields
  <2>2. CASE off = 1
    BY <1>14, <1>15, <2>1, <2>2
  <2>3. CASE off # 1
    BY <1>14, <2>1, <2>3
  <2> QED BY <2>2, <2>3
<1>17. PICK kk : kk = IF off = 1 THEN Tail(k) ELSE k
  OBVIOUS
<1>18. /\ kk \in Seq(KeptSession) /\ Len(kk) = n + 1 - off
       /\ \A j \in 1..(n + 1 - off) : kk[j] = k[j + off]
  <2>1. CASE off = 1
    <3>1. k # <<>>
      BY <1>9, EmptySeq
    <3>2. /\ Tail(k) \in Seq(KeptSession) /\ Len(Tail(k)) = n
          /\ \A j \in 1..n : Tail(k)[j] = k[j + 1]
      BY <1>9, <3>1, HeadTailProperties
    <3> QED BY <1>17, <2>1, <3>2
  <2>2. CASE off # 1
    BY <1>9, <1>11, <1>17, <2>2
  <2> QED BY <2>1, <2>2
<1>19. /\ IsList(r) /\ r.sessions = S /\ r.active = l.active /\ r.kept = kk /\ r.keptByKey = f
  <2>1. m \in [sessions : SUBSET Session, active : [ConnectionIds -> Nat],
               kept : Seq(KeptSession), keptByKey : [ConnectionIds -> SessionIds \cup {0}]]
    BY <1>5 DEF IsList
  <2>2. r = IF n + 1 > MaxKept
            THEN [[m EXCEPT !.keptByKey[h] = 0, !.kept = Tail(k)] EXCEPT !.keptByKey[c] = i]
            ELSE [[m EXCEPT !.kept = k] EXCEPT !.keptByKey[c] = i]
    <3>1. [l EXCEPT !.sessions = @ \ {s}] = m
      BY <1>2, <1>4
    <3>2. RemoveKept([l EXCEPT !.sessions = @ \ {s}], s.host) = m
      BY <1>6, <3>1
    <3>3. Append(m.kept, [id |-> s.id, host |-> s.host]) = k
      BY <1>1, <1>5, <1>7, <1>8
    <3>4. r = [IF Len(k) > MaxKept
               THEN [m EXCEPT !.keptByKey[k[1].host] = 0, !.kept = Tail(k)]
               ELSE [m EXCEPT !.kept = k]
                 EXCEPT !.keptByKey[s.host] = s.id]
      BY <3>2, <3>3 DEF Track, Oldest
    <3> QED BY <1>1, <1>9, <1>13, <3>4
  <2>3. r = [m EXCEPT !.keptByKey = f, !.kept = kk]
    <3>1. CASE n + 1 > MaxKept
      BY <1>5, <1>11, <1>14, <1>17, <2>1, <2>2, <3>1
    <3>2. CASE ~(n + 1 > MaxKept)
      <4>1. f = [m.keptByKey EXCEPT ![c] = i] /\ kk = k
        BY <1>5, <1>11, <1>14, <1>17, <3>2
      <4>2. r = [[m EXCEPT !.kept = k] EXCEPT !.keptByKey[c] = i]
        BY <2>2, <3>2
      <4> QED BY <2>1, <4>1, <4>2
    <3> QED BY <3>1, <3>2
  <2>4. /\ r.sessions = m.sessions /\ r.active = m.active /\ r.keptByKey = f /\ r.kept = kk
        /\ r \in [sessions : SUBSET Session, active : [ConnectionIds -> Nat],
                  kept : Seq(KeptSession), keptByKey : [ConnectionIds -> SessionIds \cup {0}]]
    BY <1>16, <1>18, <2>1, <2>3
  <2> QED BY <1>5, <2>4 DEF IsList
<1>20. InPlace(r)
  <2>1. (\A a, b \in S : a.host = b.host => a = b) /\ \A a \in S : f[a.host] = 0
    <3>1. \A a \in S : a \in l.sessions /\ a.host \in ConnectionIds /\ a.host # c
      BY <1>1, <1>2, <1>3 DEF InPlace, Session
    <3> QED BY <1>16, <3>1 DEF InPlace
  <2>2. \A j \in 1..(n + 1 - off) : f[kk[j].host] = kk[j].id
    <3> TAKE j \in 1..(n + 1 - off)
    <3>1. PICK a \in 1..(n + 1) : a = j + off /\ kk[j] = k[a]
      BY <1>18
    <3>2. CASE a = n + 1
      BY <1>7, <1>9, <1>16, <3>1, <3>2
    <3>3. CASE a # n + 1
      <4>1. a \in 1..n /\ kk[j] = l.kept[a] /\ (off = 1 => a # 1)
        BY <1>9, <3>1, <3>3
      <4>2. ASSUME off = 1, l.kept[a].host = h PROVE FALSE
        <5>1. 1 \in 1..n /\ a \in 1..n /\ a # 1 /\ l.kept[a].host = l.kept[1].host
          BY <1>12, <1>15, <4>1, <4>2
        <5>2. \A p, q \in 1..n : l.kept[p].host = l.kept[q].host => p = q
          BY <1>1 DEF InPlace
        <5> QED BY Zenon, <5>1, <5>2
      <4> QED BY <1>10, <1>16, <4>1, <4>2
    <3> QED BY <3>2, <3>3
  <2>3. \A a, b \in 1..(n + 1 - off) : kk[a].host = kk[b].host => a = b
    <3>1. \A a, b \in 1..(n + 1) : k[a].host = k[b].host => a = b
      <4> SUFFICES ASSUME NEW a \in 1..(n + 1), NEW b \in 1..(n + 1), k[a].host = k[b].host
                   PROVE  a = b
        OBVIOUS
      <4>1. \A j \in 1..n : k[j].host # c
        BY <1>9, <1>10
      <4>2. k[n + 1].host = c
        BY <1>7, <1>9
      <4>3. a \in 1..n \/ a = n + 1
        OBVIOUS
      <4>4. b \in 1..n \/ b = n + 1
        OBVIOUS
      <4>5. a \in 1..n /\ b \in 1..n => a = b
        BY <1>1, <1>9 DEF InPlace
      <4> QED BY <4>1, <4>2, <4>3, <4>4, <4>5
    <3>2. \A a \in 1..(n + 1 - off) : a + off \in 1..(n + 1)
      OBVIOUS
    <3>3. \A a, b \in 1..(n + 1 - off) : kk[a].host = kk[b].host => a + off = b + off
      BY <1>18, <3>1, <3>2
    <3> QED BY <3>3
  <2>4. \A d \in ConnectionIds : f[d] # 0 => \E j \in 1..(n + 1 - off) : kk[j].host = d
    <3> SUFFICES ASSUME NEW d \in ConnectionIds, f[d] # 0
                 PROVE  \E j \in 1..(n + 1 - off) : kk[j].host = d
      OBVIOUS
    <3>1. CASE d = c
      <4>1. PICK j \in 1..(n + 1 - off) : j + off = n + 1
        BY <1>11, <1>12
      <4> QED BY <1>7, <1>9, <1>18, <3>1, <4>1
    <3>2. CASE d # c
      <4>1. l.keptByKey[d] # 0 /\ ~(off = 1 /\ d = h)
        BY <1>16, <3>2
      <4>2. PICK a \in 1..n : l.kept[a].host = d
        BY <1>1, <4>1 DEF InPlace
      <4>3. ~(off = 1 /\ a = 1)
        BY <1>15, <4>1, <4>2
      <4>4. PICK j \in 1..(n + 1 - off) : j + off = a
        BY <1>11, <4>3
      <4> QED BY <1>9, <1>18, <4>2, <4>4
    <3> QED BY <3>1, <3>2
  <2>5. 1..Len(kk) = 1..(n + 1 - off) /\ Len(kk) <= MaxKept
    BY <1>12, <1>18
  <2>6. /\ \A j \in 1..Len(kk) : f[kk[j].host] = kk[j].id
        /\ \A a, b \in 1..Len(kk) : kk[a].host = kk[b].host => a = b
        /\ \A d \in ConnectionIds : f[d] # 0 => \E j \in 1..Len(kk) : kk[j].host = d
    BY <2>2, <2>3, <2>4, <2>5
  <2>7. /\ \A a, b \in r.sessions : a.host = b.host => a = b
        /\ \A a \in r.sessions : r.keptByKey[a.host] = 0
    BY Zenon, <1>19, <2>1
  <2>8. /\ Len(r.kept) <= MaxKept
        /\ \A j \in 1..Len(r.kept) : r.keptByKey[r.kept[j].host] = r.kept[j].id
        /\ \A a, b \in 1..Len(r.kept) : r.kept[a].host = r.kept[b].host => a = b
        /\ \A d \in ConnectionIds :
             r.keptByKey[d] # 0 => \E j \in 1..Len(r.kept) : r.kept[j].host = d
    <3>1. r.kept = kk /\ r.keptByKey = f
      BY <1>19
    <3> QED BY <2>5, <2>6, <3>1
  <2> QED BY Zenon, <2>7, <2>8 DEF InPlace
<1> QED BY <1>1, <1>2, <1>16, <1>19, <1>20

LEMMA DisconnectedDoes ==
  ASSUME ListBounds, NEW l, Good(l), NEW c \in ConnectionIds, NEW e, e.host = c,
         NEW r, r = ApplyClientDisconnected(l, e)
  PROVE  /\ Good(r) /\ \A d \in ConnectionIds : r.active[d] = IF d = c THEN 0 ELSE l.active[d]
         /\ r.sessions = {s \in l.sessions : ~(s.host = c /\ s.request = e.id)}
         /\ \A d \in ConnectionIds :
              \/ r.keptByKey[d] \in {0, l.keptByKey[d]}
              \/ \E s \in l.sessions : s.host = d /\ r.keptByKey[d] = s.id
<1> USE DEF Good
<1>1. PICK A : A = [l.active EXCEPT ![c] = 0]
  OBVIOUS
<1>2. A \in [ConnectionIds -> Nat] /\ \A d \in ConnectionIds : A[d] = IF d = c THEN 0 ELSE l.active[d]
  BY <1>1, ListFields
<1>3. PICK m : m = [l EXCEPT !.active = A]
  OBVIOUS
<1>4. /\ IsList(m) /\ m.active = A /\ m.sessions = l.sessions /\ m.kept = l.kept
      /\ m.keptByKey = l.keptByKey
  BY <1>2, <1>3, WithActive, Zenon
<1>5. Good(m)
  BY <1>4, FewerInPlace
<1>6. PICK M : M = {s \in l.sessions : s.host = c /\ s.request = e.id}
  OBVIOUS
<1>7. r = IF M = {} THEN m ELSE Track(m, CHOOSE t \in M : TRUE)
  <2>1. {s \in OnHost(l, e.host) : s.request = e.id} = M
    BY <1>6 DEF OnHost
  <2>2. [l EXCEPT !.active[e.host] = 0] = m
    BY <1>1, <1>3 DEF IsList
  <2>3. r = IF {s \in OnHost(l, e.host) : s.request = e.id} = {} THEN [l EXCEPT !.active[e.host] = 0]
            ELSE Track([l EXCEPT !.active[e.host] = 0],
                       CHOOSE t \in {s \in OnHost(l, e.host) : s.request = e.id} : TRUE)
    BY Zenon DEF ApplyClientDisconnected
  <2> QED BY <2>1, <2>2, <2>3
<1>8. CASE M = {}
  <2>1. r = m /\ l.sessions = {s \in l.sessions : ~(s.host = c /\ s.request = e.id)}
    BY <1>6, <1>7, <1>8
  <2> QED BY <1>2, <1>4, <1>5, <2>1
<1>9. CASE M # {}
  <2>1. PICK s \in M : s = CHOOSE t \in M : TRUE
    BY <1>9
  <2>2. s \in m.sessions /\ r = Track(m, s)
    BY <1>4, <1>6, <1>7, <1>9, <2>1
  <2>3. /\ Good(r) /\ r.active = m.active /\ r.sessions = m.sessions \ {s}
        /\ \A d \in ConnectionIds : \/ d = s.host /\ r.keptByKey[d] = s.id
                                    \/ r.keptByKey[d] \in {0, m.keptByKey[d]}
    BY <1>5, <2>2, TrackDoes
  <2>4. M = {s}
    BY <1>6, <2>1 DEF InPlace
  <2>5. r.sessions = {t \in l.sessions : ~(t.host = c /\ t.request = e.id)}
    BY <1>4, <1>6, <2>3, <2>4
  <2> QED BY <1>2, <1>4, <2>2, <2>3, <2>5
<1> QED BY <1>8, <1>9

LEMMA ConnectedDoes ==
  ASSUME ListBounds, NEW l, Good(l), NEW c \in ConnectionIds, NEW k \in Nat,
         NEW e, e.host = c, e.id = k, NEW r, r = ApplyClientConnected(l, e)
  PROVE  /\ Good(r) /\ \A d \in ConnectionIds : r.active[d] = IF d = c THEN k ELSE l.active[d]
         /\ \A s \in r.sessions : IF s.host = c THEN s.request = k ELSE s \in l.sessions
         /\ \A s \in l.sessions : \E t \in r.sessions : t.id = s.id /\ t.host = s.host
         /\ \A n \in SessionIds, d \in ConnectionIds : Knows(r, n, d) => Knows(l, n, d)
<1> USE DEF Good
<1>1. PICK A : A = [l.active EXCEPT ![c] = k]
  OBVIOUS
<1>2. A \in [ConnectionIds -> Nat] /\ \A d \in ConnectionIds : A[d] = IF d = c THEN k ELSE l.active[d]
  BY <1>1, ListFields
<1>3. PICK m : m = [l EXCEPT !.active = A]
  OBVIOUS
<1>4. /\ IsList(m) /\ m.active = A /\ m.sessions = l.sessions /\ m.kept = l.kept
      /\ m.keptByKey = l.keptByKey
  BY <1>2, <1>3, WithActive, Zenon
<1>5. Good(m)
  BY <1>4, FewerInPlace
<1>6. m = [l EXCEPT !.active[e.host] = e.id]
  BY <1>1, <1>3 DEF IsList
<1>7. CASE OnHost(l, c) # {}
  <2>1. PICK s \in l.sessions : s.host = c
    BY <1>7 DEF OnHost
  <2>2. OnHost(l, c) = {s} /\ s.id \in SessionIds
    BY <2>1, ListFields DEF OnHost, InPlace, Session
  <2>3. PICK t : t = [id |-> s.id, host |-> c, request |-> k]
    OBVIOUS
  <2>4. t \in Session /\ t.id = s.id /\ t.host = c /\ t.request = k
    BY <2>2, <2>3 DEF Session
  <2>5. PICK R : R = (l.sessions \ {s}) \cup {t}
    OBVIOUS
  <2>6. R \in SUBSET Session /\ IsFiniteSet(R)
    <3>1. IsFiniteSet(l.sessions \ {s})
      <4>1. l.sessions \ {s} \subseteq l.sessions
        OBVIOUS
      <4> QED BY <4>1, ListFields, FS_Subset
    <3>2. IsFiniteSet(R)
      BY <2>5, <3>1, FS_AddElement
    <3> QED BY <2>4, <2>5, <3>2, ListFields
  <2>7. r = [m EXCEPT !.sessions = R]
    <3>1. {[id |-> x.id, host |-> e.host, request |-> e.id] : x \in OnHost(l, e.host)} = {t}
      BY <2>2, <2>3
    <3>2. (m.sessions \ OnHost(l, e.host)) \cup
            {[id |-> x.id, host |-> e.host, request |-> e.id] : x \in OnHost(l, e.host)} = R
      BY <1>4, <2>2, <2>5, <3>1
    <3> QED BY <1>6, <1>7, <3>2 DEF ApplyClientConnected
  <2>8. PICK v : v = [m EXCEPT !.sessions = R]
    OBVIOUS
  <2>9. /\ IsList(v) /\ v.sessions = R /\ v.active = m.active /\ v.kept = m.kept
        /\ v.keptByKey = m.keptByKey
    BY <1>4, <2>6, <2>8, WithSessions, Zenon
  <2>10. r = v
    BY <2>7, <2>8
  <2>11. \A x \in R : (x = t \/ (x \in l.sessions /\ x # s)) /\ (x.host = c <=> x = t)
    BY <2>1, <2>4, <2>5 DEF InPlace
  <2>12. InPlace(v)
    <3>1. \A x, y \in R : x.host = y.host => x = y
      BY <2>1, <2>11 DEF InPlace
    <3>2. \A x \in R : l.keptByKey[x.host] = 0
      BY <2>1, <2>4, <2>11 DEF InPlace
    <3> QED BY <1>4, <2>9, <3>1, <3>2 DEF InPlace
  <2>13. \A x \in l.sessions : \E y \in R : y.id = x.id /\ y.host = x.host
    BY <2>1, <2>4, <2>5
  <2>14. \A n \in SessionIds, d \in ConnectionIds : Knows(v, n, d) => Knows(l, n, d)
    BY <1>4, <2>1, <2>4, <2>9, <2>11 DEF Knows
  <2> QED BY <1>2, <1>4, <2>4, <2>9, <2>10, <2>11, <2>12, <2>13, <2>14
<1>8. CASE OnHost(l, c) = {} /\ l.keptByKey[c] # 0
  <2>1. PICK i \in SessionIds : i = l.keptByKey[c]
    BY <1>8, ListFields
  <2>2. PICK q : q = RemoveKept(m, c)
    OBVIOUS
  <2>3. /\ Good(q) /\ q.sessions = l.sessions /\ q.active = A
        /\ \A d \in ConnectionIds : q.keptByKey[d] = IF d = c THEN 0 ELSE l.keptByKey[d]
    BY <1>4, <1>5, <2>2, RemoveKeptDoes
  <2>4. PICK t : t = [id |-> i, host |-> c, request |-> k]
    OBVIOUS
  <2>5. t \in Session /\ t.id = i /\ t.host = c /\ t.request = k
    BY <2>4 DEF Session
  <2>6. PICK R : R = l.sessions \cup {t}
    OBVIOUS
  <2>7. R \in SUBSET Session /\ IsFiniteSet(R)
    <3>1. IsFiniteSet(R)
      BY <2>6, FS_AddElement, ListFields
    <3> QED BY <2>5, <2>6, <3>1, ListFields
  <2>8. PICK v : v = [q EXCEPT !.sessions = R]
    OBVIOUS
  <2>9. /\ IsList(v) /\ v.sessions = R /\ v.active = q.active /\ v.kept = q.kept
        /\ v.keptByKey = q.keptByKey
    <3>1. IsList(q)
      BY <2>3
    <3> QED BY <2>7, <2>8, <3>1, WithSessions, Zenon
  <2>10. r = v
    <3>1. [RemoveKept(m, e.host) EXCEPT !.sessions =
             @ \cup {[id |-> l.keptByKey[e.host], host |-> e.host, request |-> e.id]}] = v
      BY <2>1, <2>2, <2>3, <2>4, <2>6, <2>8
    <3> QED BY <1>6, <1>8, <3>1 DEF ApplyClientConnected
  <2>11. \A x \in R : (x = t \/ x \in l.sessions) /\ (x.host = c <=> x = t)
    BY <1>8, <2>5, <2>6 DEF OnHost
  <2>12. InPlace(v)
    <3>1. \A x, y \in R : x.host = y.host => x = y
      BY <2>11 DEF InPlace
    <3>2. \A x \in R : q.keptByKey[x.host] = 0
      <4>1. \A x \in R : x.host \in ConnectionIds
        BY <2>7 DEF Session
      <4> QED BY <2>3, <2>11, <4>1 DEF InPlace
    <3> QED BY <2>3, <2>9, <3>1, <3>2 DEF InPlace
  <2>13. \A n \in SessionIds, d \in ConnectionIds : Knows(v, n, d) => Knows(l, n, d)
    <3>1. \A n \in SessionIds : n # 0
      BY DEF ListBounds
    <3> QED BY <2>1, <2>3, <2>5, <2>9, <2>11, <3>1 DEF Knows
  <2>14. \A x \in l.sessions : \E y \in R : y.id = x.id /\ y.host = x.host
    BY <2>6
  <2> QED BY <1>2, <2>3, <2>5, <2>9, <2>10, <2>11, <2>12, <2>13, <2>14
<1>9. CASE OnHost(l, c) = {} /\ l.keptByKey[c] = 0
  <2>1. r = m
    BY <1>6, <1>9 DEF ApplyClientConnected
  <2>2. \A s \in l.sessions : s.host # c
    BY <1>9 DEF OnHost
  <2>3. \A n \in SessionIds, d \in ConnectionIds : Knows(m, n, d) => Knows(l, n, d)
    BY <1>4 DEF Knows
  <2> QED BY <1>2, <1>4, <1>5, <2>1, <2>2, <2>3
<1> QED BY <1>7, <1>8, <1>9

-----------------------------------------------------------------------------
(* The start of the server tracks them all *)

\* Induction over the natural numbers, for a set of them.
LEMMA SetInduction ==
  ASSUME NEW S, 0 \in S, \A n \in Nat : n \in S => n + 1 \in S
  PROVE  Nat \subseteq S
<1> SUFFICES ASSUME Nat \ S # {} PROVE FALSE
  OBVIOUS
<1>1. Nat \ S \in SUBSET Nat
  OBVIOUS
<1>2. PICK x \in Nat \ S : \A y \in Nat \ S : x <= y
  BY <1>1, Smallest
<1>3. x - 1 \in Nat /\ ~(x <= x - 1) /\ (x - 1) + 1 = x
  BY <1>2
<1>4. x - 1 \in S
  BY <1>2, <1>3
<1> QED BY <1>2, <1>3, <1>4

LEMMA TrackingExists ==
  ASSUME NEW N \in Nat, NEW g
  PROVE  \E f : f = [n \in 0..N |-> IF n = 0 THEN g ELSE TrackFirst(f[n - 1])]
<1> DEFINE T == {m \in Nat : \E f : f = [n \in 0..m |-> IF n = 0 THEN g ELSE TrackFirst(f[n - 1])]}
<1>1. 0 \in T
  <2>1. PICK f : f = [n \in 0..0 |-> g]
    OBVIOUS
  <2>2. f = [n \in 0..0 |-> IF n = 0 THEN g ELSE TrackFirst(f[n - 1])]
    BY <2>1
  <2> QED BY <2>2
<1>2. ASSUME NEW m \in Nat, m \in T PROVE m + 1 \in T
  <2>1. PICK f : f = [n \in 0..m |-> IF n = 0 THEN g ELSE TrackFirst(f[n - 1])]
    BY <1>2
  <2>2. PICK h : h = [n \in 0..(m + 1) |-> IF n = m + 1 THEN TrackFirst(f[m]) ELSE f[n]]
    OBVIOUS
  <2>3. \A n \in 0..(m + 1) : h[n] = IF n = 0 THEN g ELSE TrackFirst(h[n - 1])
    <3> TAKE n \in 0..(m + 1)
    <3>1. CASE n = 0
      BY <2>1, <2>2, <3>1
    <3>2. CASE n = m + 1
      <4>1. n - 1 \in 0..(m + 1) /\ n - 1 = m /\ m # m + 1 /\ n # 0
        BY <3>2
      <4> QED BY <2>2, <3>2, <4>1
    <3>3. CASE n # 0 /\ n # m + 1
      <4>1. n \in 0..m /\ n - 1 \in 0..(m + 1) /\ n - 1 # m + 1
        BY <3>3
      <4> QED BY <2>1, <2>2, <3>3, <4>1
    <3> QED BY <3>1, <3>2, <3>3
  <2>4. h = [n \in 0..(m + 1) |-> IF n = 0 THEN g ELSE TrackFirst(h[n - 1])]
    BY <2>2, <2>3
  <2> QED BY <2>4
<1>3. Nat \subseteq T
  <2> HIDE DEF T
  <2> QED BY <1>1, <1>2, SetInduction
<1> QED BY <1>3

LEMMA TrackFirstDoes ==
  ASSUME ListBounds, NEW l, Good(l), l.sessions # {}, NEW r, r = TrackFirst(l)
  PROVE  /\ Good(r) /\ Cardinality(r.sessions) = Cardinality(l.sessions) - 1
         /\ r.sessions \subseteq l.sessions /\ r.active = l.active
         /\ \A n \in SessionIds, d \in ConnectionIds : Knows(r, n, d) => Knows(l, n, d)
<1>1. PICK I : I = {s.id : s \in l.sessions}
  OBVIOUS
<1>2. I \in SUBSET Nat /\ I # {}
  <2>1. l.sessions \subseteq Session
    BY ListFields DEF Good
  <2>2. \A s \in Session : s.id \in Nat
    BY DEF Session, ListBounds
  <2> QED BY <1>1, <2>1, <2>2
<1>3. PICK i \in I : \A j \in I : i <= j
  BY <1>2, Smallest
<1>4. \E s \in l.sessions : \A t \in l.sessions : s.id <= t.id
  BY <1>1, <1>3
<1>5. PICK s \in l.sessions :
        s = CHOOSE x \in l.sessions : \A t \in l.sessions : x.id <= t.id
  BY <1>4
<1>6. r = Track(l, s)
  BY <1>5 DEF TrackFirst
<1>7. /\ Good(r) /\ r.active = l.active /\ r.sessions = l.sessions \ {s}
      /\ \A d \in ConnectionIds : \/ d = s.host /\ r.keptByKey[d] = s.id
                                  \/ r.keptByKey[d] \in {0, l.keptByKey[d]}
  BY <1>6, TrackDoes
<1>8. Cardinality(r.sessions) = Cardinality(l.sessions) - 1
  <2>1. r.sessions = l.sessions \ {s} /\ IsFiniteSet(l.sessions)
    BY <1>7, ListFields DEF Good
  <2> QED BY <2>1, FS_RemoveElement
<1>9. \A n \in SessionIds : n # 0
  BY DEF ListBounds
<1> QED BY <1>7, <1>8, <1>9 DEF Knows

LEMMA ServerStartedDoes ==
  ASSUME ListBounds, NEW l, Good(l), NEW e, NEW r, r = ApplyServerStarted(l, e)
  PROVE  /\ Good(r)
         /\ \A n \in SessionIds, d \in ConnectionIds : Knows(r, n, d) => Knows(l, n, d)
         /\ r.sessions \subseteq l.sessions /\ \A d \in ConnectionIds : r.active[d] = 0
<1>1. PICK N \in Nat : N = Cardinality(l.sessions)
  BY ListFields, FS_CardinalityType DEF Good
<1>2. PICK A : A = [c \in ConnectionIds |-> 0]
  OBVIOUS
<1>3. PICK g : g = [l EXCEPT !.active = A]
  OBVIOUS
<1>4. /\ IsList(g) /\ g.sessions = l.sessions /\ g.kept = l.kept /\ g.keptByKey = l.keptByKey
      /\ g.active = A
  <2>1. A \in [ConnectionIds -> Nat] /\ IsList(l)
    BY <1>2 DEF Good
  <2> QED BY <1>3, <2>1, WithActive, Zenon
<1>5. Good(g) /\ \A n \in SessionIds, d \in ConnectionIds : Knows(g, n, d) => Knows(l, n, d)
  BY <1>4, FewerInPlace DEF Good, Knows
<1>6. PICK f : /\ f = [n \in 0..N |-> IF n = 0 THEN g ELSE TrackFirst(f[n - 1])]
               /\ r = f[N]
  <2>1. PICK f : f = CHOOSE h : h = [n \in 0..N |-> IF n = 0 THEN g ELSE TrackFirst(h[n - 1])]
    OBVIOUS
  <2>2. f = [n \in 0..N |-> IF n = 0 THEN g ELSE TrackFirst(f[n - 1])]
    BY <2>1, TrackingExists
  <2>3. r = f[N]
    BY <1>1, <1>2, <1>3, <2>1 DEF ApplyServerStarted
  <2> QED BY <2>2, <2>3
<1> DEFINE T == {n \in Nat : n <= N =>
                   /\ Good(f[n]) /\ Cardinality(f[n].sessions) = N - n
                   /\ f[n].sessions \subseteq l.sessions /\ f[n].active = A
                   /\ \A k \in SessionIds, d \in ConnectionIds : Knows(f[n], k, d) => Knows(l, k, d)}
<1>7. 0 \in T
  BY <1>1, <1>4, <1>5, <1>6
<1>8. ASSUME NEW n \in Nat, n \in T PROVE n + 1 \in T
  <2> SUFFICES ASSUME n + 1 <= N PROVE n + 1 \in T
    OBVIOUS
  <2>1. /\ Good(f[n]) /\ Cardinality(f[n].sessions) = N - n
        /\ f[n].sessions \subseteq l.sessions /\ f[n].active = A
        /\ \A k \in SessionIds, d \in ConnectionIds : Knows(f[n], k, d) => Knows(l, k, d)
    BY <1>8
  <2>2. f[n + 1] = TrackFirst(f[n])
    BY <1>6
  <2>3. f[n].sessions # {}
    BY <2>1, FS_EmptySet
  <2>4. /\ Good(f[n + 1]) /\ Cardinality(f[n + 1].sessions) = Cardinality(f[n].sessions) - 1
        /\ f[n + 1].sessions \subseteq f[n].sessions /\ f[n + 1].active = f[n].active
        /\ \A k \in SessionIds, d \in ConnectionIds : Knows(f[n + 1], k, d) => Knows(f[n], k, d)
    BY <2>1, <2>2, <2>3, TrackFirstDoes
  <2> QED BY <2>1, <2>4
<1>9. N \in T
  <2> HIDE DEF T
  <2>1. Nat \subseteq T
    BY <1>7, <1>8, SetInduction
  <2> QED BY <2>1
<1> QED BY <1>2, <1>6, <1>9

-----------------------------------------------------------------------------
(* What one more event does to what the log says *)

LEMMA Longer ==
  ASSUME EventsInv, NEW e \in ListEvent, events' = Append(events, e), NEW N, N = Len(events)
  PROVE  /\ N \in Nat /\ events' \in Seq(ListEvent)
         /\ Len(events') = N + 1 /\ events'[N + 1] = e
         /\ \A i \in 1..N : i \in 1..(N + 1) /\ events'[i] = events[i]
         /\ N + 1 \in 1..(N + 1) /\ \A i \in 1..(N + 1) : i \in 1..N \/ i = N + 1
<1>1. events \in Seq(ListEvent)
  BY DEF EventsInv
<1>2. N \in Nat
  BY <1>1, LenProperties
<1>3. /\ events' \in Seq(ListEvent) /\ Len(events') = N + 1 /\ events'[N + 1] = e
      /\ \A i \in 1..N : events'[i] = events[i]
  BY <1>1, AppendProperties
<1>4. /\ N + 1 \in 1..(N + 1) /\ \A i \in 1..(N + 1) : i \in 1..N \/ i = N + 1
      /\ \A i \in 1..N : i \in 1..(N + 1)
  BY <1>2
<1> QED BY <1>2, <1>3, <1>4

\* A session that stands goes on to, unless it is ended or replaced.
LEMMA StandsOn ==
  ASSUME EventsInv, NEW e \in ListEvent, events' = Append(events, e), NEW N, N = Len(events),
         NEW n, NEW c
  PROVE  /\ \A i \in 1..N :
              /\ Stands(i, n, c)
              /\ ~(e.type = "session.ended" /\ e.id = n)
              /\ ~(e.type = "session.started" /\ e.host = c)
              => Stands(i, n, c)'
         /\ e.type = "session.started" /\ e.id = n /\ e.host = c => Stands(N + 1, n, c)'
<1> USE Longer
<1>1. ASSUME NEW i \in 1..N, Stands(i, n, c),
             ~(e.type = "session.ended" /\ e.id = n), ~(e.type = "session.started" /\ e.host = c)
      PROVE  Stands(i, n, c)'
  <2>1. \A j \in (i + 1)..(N + 1) : j \in (i + 1)..N \/ j = N + 1
    BY <1>1
  <2>2. \A j \in (i + 1)..N : j \in 1..N
    BY <1>1
  <2>3. \A j \in (i + 1)..(N + 1) :
          /\ ~(events'[j].type = "session.ended" /\ events'[j].id = n)
          /\ ~(events'[j].type = "session.started" /\ events'[j].host = c)
    BY <1>1, <2>1, <2>2 DEF Stands
  <2> QED BY <1>1, <2>3 DEF Stands
<1>2. ASSUME e.type = "session.started", e.id = n, e.host = c PROVE Stands(N + 1, n, c)'
  <2>1. (N + 1 + 1)..(N + 1) = {}
    OBVIOUS
  <2> QED BY <1>2, <2>1 DEF Stands
<1> QED BY <1>1, <1>2

LEMMA WasUndisturbed ==
  ASSUME EventsInv, NEW e \in ListEvent, events' = Append(events, e), NEW N, N = Len(events)
  PROVE  /\ \A i \in 1..N : Undisturbed(i)' =>
              /\ Undisturbed(i) /\ e.type # "server.started"
              /\ e.type = "session.ended" => e.id # events[i].id
              /\ e.host = events[i].host => e.type = "client.connected"
         /\ Undisturbed(N + 1)' => e.type = "session.started"
<1> USE Longer
<1>1. ASSUME NEW i \in 1..N, Undisturbed(i)'
      PROVE  /\ Undisturbed(i) /\ e.type # "server.started"
             /\ e.type = "session.ended" => e.id # events[i].id
             /\ e.host = events[i].host => e.type = "client.connected"
  <2>1. N + 1 \in (i + 1)..(N + 1) /\ \A j \in (i + 1)..N : j \in (i + 1)..(N + 1) /\ j \in 1..N
    OBVIOUS
  <2>2. /\ events[i].type = "session.started"
        /\ \A j \in (i + 1)..(N + 1) :
             /\ events'[j].type # "server.started"
             /\ events'[j].type = "session.ended" => events'[j].id # events[i].id
             /\ events'[j].host = events[i].host => events'[j].type = "client.connected"
    BY <1>1 DEF Undisturbed
  <2> QED BY <2>1, <2>2 DEF Undisturbed
<1>2. Undisturbed(N + 1)' => e.type = "session.started"
  BY DEF Undisturbed
<1> QED BY <1>1, <1>2

\* The last word of a connection stays one, unless the new event is another.
LEMMA WasHello ==
  ASSUME EventsInv, NEW e \in ListEvent, events' = Append(events, e), NEW N, N = Len(events)
  PROVE  /\ \A p \in 1..N : Hello(p)' =>
              /\ Hello(p) /\ e.type # "server.started"
              /\ ~(e.type \in {"client.connected", "client.disconnected"}
                   /\ e.host = events[p].host)
         /\ Hello(N + 1)' => e.type = "client.connected"
<1> USE Longer
<1>1. ASSUME NEW p \in 1..N, Hello(p)'
      PROVE  /\ Hello(p) /\ e.type # "server.started"
             /\ ~(e.type \in {"client.connected", "client.disconnected"}
                  /\ e.host = events[p].host)
  <2>1. N + 1 \in (p + 1)..(N + 1) /\ \A j \in (p + 1)..N : j \in (p + 1)..(N + 1) /\ j \in 1..N
    OBVIOUS
  <2>2. /\ events[p].type = "client.connected"
        /\ \A j \in (p + 1)..(N + 1) :
             /\ events'[j].type # "server.started"
             /\ ~(events'[j].type \in {"client.connected", "client.disconnected"}
                  /\ events'[j].host = events[p].host)
    BY <1>1 DEF Hello, IsStatus
  <2> QED BY <2>1, <2>2 DEF Hello, IsStatus
<1>2. Hello(N + 1)' => e.type = "client.connected"
  BY DEF Hello
<1> QED BY <1>1, <1>2

LEMMA WasGoodbye ==
  ASSUME EventsInv, NEW e \in ListEvent, events' = Append(events, e), NEW N, N = Len(events)
  PROVE  /\ \A p, d \in 1..N : Goodbye(p, d)' =>
              /\ Goodbye(p, d) /\ e.type # "server.started"
              /\ ~(e.type \in {"session.started", "client.connected", "client.disconnected"}
                   /\ e.host = events[p].host)
         /\ \A p \in 1..N : Goodbye(p, N + 1)' =>
              /\ Hello(p) /\ e.type = "client.disconnected"
              /\ e.host = events[p].host /\ e.id = events[p].id
         /\ \A d \in 1..(N + 1) : ~Goodbye(N + 1, d)'
<1> USE Longer
<1>1. ASSUME NEW p \in 1..N, NEW d \in 1..N, Goodbye(p, d)'
      PROVE  /\ Goodbye(p, d) /\ e.type # "server.started"
             /\ ~(e.type \in {"session.started", "client.connected", "client.disconnected"}
                  /\ e.host = events[p].host)
  <2>1. /\ N + 1 \in (p + 1)..(N + 1) /\ N + 1 # d /\ N + 1 \in (d + 1)..(N + 1)
        /\ \A j \in (p + 1)..N : j \in (p + 1)..(N + 1) /\ j \in 1..N
        /\ \A j \in (d + 1)..N : j \in (d + 1)..(N + 1) /\ j \in 1..N
    OBVIOUS
  <2>2. /\ p < d
        /\ events[p].type = "client.connected" /\ events[d].type = "client.disconnected"
        /\ events[p].host = events[d].host /\ events[p].id = events[d].id
        /\ \A j \in (p + 1)..(N + 1) : j # d =>
             /\ events'[j].type # "server.started"
             /\ ~(events'[j].type \in {"client.connected", "client.disconnected"}
                  /\ events'[j].host = events[p].host)
        /\ \A j \in (d + 1)..(N + 1) :
             ~(events'[j].type = "session.started" /\ events'[j].host = events[p].host)
    BY <1>1 DEF Goodbye, IsStatus
  <2> QED BY <2>1, <2>2 DEF Goodbye, IsStatus
<1>2. ASSUME NEW p \in 1..N, Goodbye(p, N + 1)'
      PROVE  /\ Hello(p) /\ e.type = "client.disconnected"
             /\ e.host = events[p].host /\ e.id = events[p].id
  <2>1. \A j \in (p + 1)..N : j \in (p + 1)..(N + 1) /\ j \in 1..N /\ j # N + 1
    OBVIOUS
  <2>2. /\ events[p].type = "client.connected" /\ e.type = "client.disconnected"
        /\ events[p].host = e.host /\ events[p].id = e.id
        /\ \A j \in (p + 1)..(N + 1) : j # N + 1 =>
             /\ events'[j].type # "server.started"
             /\ ~(events'[j].type \in {"client.connected", "client.disconnected"}
                  /\ events'[j].host = events[p].host)
    BY <1>2 DEF Goodbye, IsStatus
  <2> QED BY <2>1, <2>2 DEF Hello, IsStatus
<1>3. ASSUME NEW d \in 1..(N + 1) PROVE ~Goodbye(N + 1, d)'
  BY DEF Goodbye
<1> QED BY <1>1, <1>2, <1>3

-----------------------------------------------------------------------------
(* The list is true of the log *)

LEMMA LogStays ==
  ASSUME EventsInv, NEW e \in ListEvent, events' = Append(events, e),
         e.type \in {"session.started", "client.connected"} => e.host \in ConnectionIds,
         e.type = "session.started" =>
           /\ e.id \in SessionIds
           /\ \A i \in 1..Len(events) :
                events[i].type = "session.started" /\ events[i].id = e.id => events[i].host = e.host
  PROVE  EventsInv'
<1>1. PICK N : N = Len(events)
  OBVIOUS
<1>2. /\ N \in Nat /\ events' \in Seq(ListEvent)
      /\ Len(events') = N + 1 /\ events'[N + 1] = e
      /\ \A i \in 1..N : i \in 1..(N + 1) /\ events'[i] = events[i]
      /\ N + 1 \in 1..(N + 1) /\ \A i \in 1..(N + 1) : i \in 1..N \/ i = N + 1
  BY <1>1, Longer
<1>3. \A i \in 1..(N + 1) :
        /\ events'[i].type = "session.started" =>
             events'[i].id \in SessionIds /\ events'[i].host \in ConnectionIds
        /\ events'[i].type = "client.connected" => events'[i].host \in ConnectionIds
  BY <1>1, <1>2 DEF EventsInv
<1>4. \A i, j \in 1..(N + 1) :
        events'[i].type = "session.started" /\ events'[j].type = "session.started"
        /\ events'[i].id = events'[j].id => events'[i].host = events'[j].host
  BY <1>1, <1>2 DEF EventsInv
<1> QED BY <1>2, <1>3, <1>4 DEF EventsInv

\* What the five kinds of events have to show of the list they leave.
LEMMA TruthStays ==
  ASSUME EventsInv', Good(list)', NEW N \in Nat, Len(events') = N + 1,
         \A n \in SessionIds, c \in ConnectionIds :
           Knows(list, n, c)' => n \in store' /\ \E i \in 1..(N + 1) : Stands(i, n, c)',
         \A i \in 1..(N + 1) : Undisturbed(i)' =>
           \E s \in list'.sessions : s.id = events'[i].id /\ s.host = events'[i].host,
         \A p \in 1..(N + 1) : Hello(p)' =>
           /\ list'.active[events'[p].host] = events'[p].id
           /\ \A s \in list'.sessions : s.host = events'[p].host => s.request = events'[p].id,
         \A p, d \in 1..(N + 1) : Goodbye(p, d)' =>
           \A s \in list'.sessions : s.host # events'[p].host
  PROVE  ListInv'
BY DEF ListInv, OnHost

\* What is known of the list, with the sets it speaks of.
LEMMA Truth ==
  ASSUME ListInv, NEW N, N = Len(events)
  PROVE  /\ EventsInv /\ Good(list)
         /\ \A i \in 1..N : Undisturbed(i) =>
              \E s \in list.sessions : s.id = events[i].id /\ s.host = events[i].host
         /\ \A p \in 1..N : Hello(p) =>
              /\ list.active[events[p].host] = events[p].id
              /\ \A s \in list.sessions : s.host = events[p].host => s.request = events[p].id
         /\ \A p, d \in 1..N : Goodbye(p, d) => \A s \in list.sessions : s.host # events[p].host
         /\ \A n \in SessionIds, c \in ConnectionIds :
              Knows(list, n, c) => n \in store /\ \E i \in 1..N : Stands(i, n, c)
         /\ \A i \in 1..N : Undisturbed(i) => events[i].type = "session.started"
         /\ \A p \in 1..N : Hello(p) => events[p].host \in ConnectionIds
BY DEF ListInv, OnHost, Undisturbed, Hello, EventsInv

\* A session is known on one connection.
LEMMA KnownOnOne ==
  ASSUME ListInv, NEW n \in SessionIds, NEW c \in ConnectionIds, NEW d \in ConnectionIds,
         Knows(list, n, c), Knows(list, n, d)
  PROVE  c = d
<1>1. PICK i \in 1..Len(events) : Stands(i, n, c)
  BY DEF ListInv
<1>2. PICK j \in 1..Len(events) : Stands(j, n, d)
  BY DEF ListInv
<1> QED BY <1>1, <1>2 DEF Stands, ListInv, EventsInv

LEMMA StartIsTrue ==
  ASSUME ListBounds, ListInv, NEW n \in SessionIds, NEW c \in ConnectionIds, SessionStarted(n, c)
  PROVE  ListInv'
<1>1. PICK N, e : N = Len(events) /\ e = [type |-> "session.started", host |-> c, id |-> n]
  OBVIOUS
<1>2. e \in ListEvent /\ e.type = "session.started" /\ e.host = c /\ e.id = n
  BY <1>1 DEF ListEvent, ListBounds
<1>3. events' = Append(events, e) /\ list' = ApplySessionStarted(list, e) /\ store' = store \cup {n}
  BY <1>1, <1>2 DEF SessionStarted, LogEvent, Apply, ApplyToStore
<1>4. \A i \in 1..N : events[i].type = "session.started" /\ events[i].id = n => events[i].host = c
  <2>1. DOMAIN events = 1..N
    BY <1>1, LenProperties DEF ListInv, EventsInv
  <2> QED BY <2>1 DEF SessionStarted
<1>5. EventsInv /\ Good(list)
  BY DEF ListInv
<1>6. EventsInv'
  BY <1>1, <1>2, <1>3, <1>4, <1>5, LogStays
<1>7. /\ N \in Nat /\ Len(events') = N + 1 /\ events'[N + 1] = e
      /\ \A i \in 1..N : i \in 1..(N + 1) /\ events'[i] = events[i]
      /\ N + 1 \in 1..(N + 1) /\ \A i \in 1..(N + 1) : i \in 1..N \/ i = N + 1
  BY <1>1, <1>2, <1>3, <1>5, Longer
<1>8. PICK new : new = [id |-> n, host |-> c, request |-> list.active[c]]
  OBVIOUS
<1>9. /\ Good(list') /\ list'.active = list.active
      /\ list'.sessions = {s \in list.sessions : s.host # c /\ s.id # n} \cup {new}
      /\ \A d \in ConnectionIds : list'.keptByKey[d] = IF d = c THEN 0 ELSE list.keptByKey[d]
  BY <1>2, <1>3, <1>5, <1>8, StartedDoes
<1>10. ASSUME NEW m \in SessionIds, NEW d \in ConnectionIds, Knows(list', m, d)
       PROVE  m \in store' /\ \E i \in 1..(N + 1) : Stands(i, m, d)'
  <2>1. (m = n /\ d = c) \/ (d # c /\ Knows(list, m, d))
    <3>1. m # 0
      BY DEF ListBounds
    <3> QED BY <1>8, <1>9, <1>10, <3>1 DEF Knows
  <2>2. CASE m = n /\ d = c
    BY <1>1, <1>2, <1>3, <1>5, <1>7, <2>2, StandsOn
  <2>3. CASE d # c /\ Knows(list, m, d)
    <3>1. PICK i \in 1..N : Stands(i, m, d)
      BY <1>1, <2>3, Truth
    <3>2. Stands(i, m, d)'
      BY <1>1, <1>2, <1>3, <1>5, <2>3, <3>1, StandsOn
    <3>3. m \in store
      BY <2>3, Truth
    <3> QED BY <1>3, <1>7, <3>2, <3>3
  <2> QED BY <2>1, <2>2, <2>3
<1>11. ASSUME NEW i \in 1..(N + 1), Undisturbed(i)'
       PROVE  \E s \in list'.sessions : s.id = events'[i].id /\ s.host = events'[i].host
  <2>1. CASE i \in 1..N
    <3>1. Undisturbed(i) /\ e.host # events[i].host
      BY <1>1, <1>2, <1>3, <1>5, <1>11, <2>1, WasUndisturbed
    <3>2. PICK s \in list.sessions : s.id = events[i].id /\ s.host = events[i].host
      BY <1>1, <2>1, <3>1, Truth
    <3>3. s.host # c /\ s.id # n
      BY <1>1, <1>2, <1>4, <2>1, <3>1, <3>2, Truth
    <3> QED BY <1>7, <1>9, <2>1, <3>2, <3>3
  <2>2. CASE i = N + 1
    BY <1>2, <1>7, <1>8, <1>9, <2>2
  <2> QED BY <1>7, <2>1, <2>2
<1>12. ASSUME NEW p \in 1..(N + 1), Hello(p)'
       PROVE  /\ list'.active[events'[p].host] = events'[p].id
              /\ \A s \in list'.sessions : s.host = events'[p].host => s.request = events'[p].id
  <2>1. p \in 1..N /\ Hello(p)
    BY <1>1, <1>2, <1>3, <1>5, <1>7, <1>12, WasHello
  <2>2. /\ list.active[events[p].host] = events[p].id
        /\ \A s \in list.sessions : s.host = events[p].host => s.request = events[p].id
    BY <1>1, <2>1, Truth
  <2> QED BY <1>7, <1>8, <1>9, <2>1, <2>2
<1>13. ASSUME NEW p \in 1..(N + 1), NEW d \in 1..(N + 1), Goodbye(p, d)'
       PROVE  \A s \in list'.sessions : s.host # events'[p].host
  <2>1. p \in 1..N /\ d \in 1..N
    BY <1>1, <1>2, <1>3, <1>5, <1>7, <1>13, WasGoodbye
  <2>2. Goodbye(p, d) /\ events[p].host # c
    BY <1>1, <1>2, <1>3, <1>5, <1>13, <2>1, WasGoodbye
  <2>3. \A s \in list.sessions : s.host # events[p].host
    BY <1>1, <2>1, <2>2, Truth
  <2> QED BY <1>7, <1>8, <1>9, <2>1, <2>2, <2>3
<1> QED BY <1>6, <1>7, <1>9, <1>10, <1>11, <1>12, <1>13, TruthStays

LEMMA EndIsTrue ==
  ASSUME ListBounds, ListInv, NEW n \in SessionIds, EndSession(n)
  PROVE  ListInv'
<1>1. PICK N, e : N = Len(events) /\ e = [type |-> "session.ended", host |-> "none", id |-> n]
  OBVIOUS
<1>2. e \in ListEvent /\ e.type = "session.ended" /\ e.id = n
  BY <1>1 DEF ListEvent, ListBounds
<1>3. events' = Append(events, e) /\ list' = ApplySessionEnded(list, e) /\ store' = store \ {n}
  BY <1>1, <1>2 DEF EndSession, LogEvent, Apply, ApplyToStore
<1>5. EventsInv /\ Good(list)
  BY DEF ListInv
<1>6. EventsInv'
  BY <1>1, <1>2, <1>3, <1>5, LogStays
<1>7. /\ N \in Nat /\ Len(events') = N + 1 /\ events'[N + 1] = e
      /\ \A i \in 1..N : i \in 1..(N + 1) /\ events'[i] = events[i]
      /\ N + 1 \in 1..(N + 1) /\ \A i \in 1..(N + 1) : i \in 1..N \/ i = N + 1
  BY <1>1, <1>2, <1>3, <1>5, Longer
<1>8. \A c, d \in ConnectionIds : list.keptByKey[c] = n /\ list.keptByKey[d] = n => c = d
  BY KnownOnOne DEF Knows
<1>9. /\ Good(list') /\ list'.active = list.active
      /\ list'.sessions = {s \in list.sessions : s.id # n}
      /\ \A d \in ConnectionIds :
           list'.keptByKey[d] = IF list.keptByKey[d] = n THEN 0 ELSE list.keptByKey[d]
  BY <1>2, <1>3, <1>5, <1>8, EndedDoes
<1>10. ASSUME NEW m \in SessionIds, NEW d \in ConnectionIds, Knows(list', m, d)
       PROVE  m \in store' /\ \E i \in 1..(N + 1) : Stands(i, m, d)'
  <2>1. m # n /\ Knows(list, m, d)
    <3>1. m # 0
      BY DEF ListBounds
    <3> QED BY <1>9, <1>10, <3>1 DEF Knows
  <2>2. PICK i \in 1..N : Stands(i, m, d)
    BY <1>1, <2>1, Truth
  <2>3. Stands(i, m, d)'
    BY <1>1, <1>2, <1>3, <1>5, <2>1, <2>2, StandsOn
  <2>4. m \in store
    BY <2>1, Truth
  <2> QED BY <1>3, <1>7, <2>1, <2>3, <2>4
<1>11. ASSUME NEW i \in 1..(N + 1), Undisturbed(i)'
       PROVE  \E s \in list'.sessions : s.id = events'[i].id /\ s.host = events'[i].host
  <2>1. i \in 1..N /\ Undisturbed(i) /\ events[i].id # n
    BY <1>1, <1>2, <1>3, <1>5, <1>7, <1>11, WasUndisturbed
  <2>2. PICK s \in list.sessions : s.id = events[i].id /\ s.host = events[i].host
    BY <1>1, <2>1, Truth
  <2> QED BY <1>7, <1>9, <2>1, <2>2
<1>12. ASSUME NEW p \in 1..(N + 1), Hello(p)'
       PROVE  /\ list'.active[events'[p].host] = events'[p].id
              /\ \A s \in list'.sessions : s.host = events'[p].host => s.request = events'[p].id
  <2>1. p \in 1..N /\ Hello(p)
    BY <1>1, <1>2, <1>3, <1>5, <1>7, <1>12, WasHello
  <2>2. /\ list.active[events[p].host] = events[p].id
        /\ \A s \in list.sessions : s.host = events[p].host => s.request = events[p].id
    BY <1>1, <2>1, Truth
  <2> QED BY <1>7, <1>9, <2>1, <2>2
<1>13. ASSUME NEW p \in 1..(N + 1), NEW d \in 1..(N + 1), Goodbye(p, d)'
       PROVE  \A s \in list'.sessions : s.host # events'[p].host
  <2>1. p \in 1..N /\ d \in 1..N
    BY <1>1, <1>2, <1>3, <1>5, <1>7, <1>13, WasGoodbye
  <2>2. Goodbye(p, d)
    BY <1>1, <1>2, <1>3, <1>5, <1>13, <2>1, WasGoodbye
  <2>3. \A s \in list.sessions : s.host # events[p].host
    BY <1>1, <2>1, <2>2, Truth
  <2> QED BY <1>7, <1>9, <2>1, <2>3
<1> QED BY <1>6, <1>7, <1>9, <1>10, <1>11, <1>12, <1>13, TruthStays

\* What is logged has a request that is a number.
LEMMA RequestsAreNumbers ==
  ASSUME ListInv
  PROVE  Requests \subseteq Nat /\ Cardinality(Requests) + 1 \in Nat
<1>1. PICK N : N = Len(events)
  OBVIOUS
<1>2. events \in Seq(ListEvent) /\ N \in Nat /\ DOMAIN events = 1..N
  BY <1>1, LenProperties DEF ListInv, EventsInv
<1>3. \A i \in 1..N : events[i].id \in Nat
  <2>1. \A i \in 1..N : events[i] \in ListEvent
    BY <1>1, <1>2, ElementOfSeq
  <2> QED BY <2>1 DEF ListEvent
<1>4. PICK I : I = {j \in 1..N : events[j].type = "client.connected"}
  OBVIOUS
<1>5. IsFiniteSet(I)
  <2>1. I \subseteq 1..N /\ IsFiniteSet(1..N)
    BY <1>2, <1>4, FS_Interval
  <2> QED BY <2>1, FS_Subset
<1>6. Requests = {events[i].id : i \in I}
  BY <1>2, <1>4 DEF Requests
<1>7. IsFiniteSet(Requests)
  <2>1. IsFiniteSet({events[i].id : i \in I})
    <3>1. PICK f, R : f = [i \in I |-> events[i].id] /\ R = {events[i].id : i \in I}
      OBVIOUS
    <3>2. f \in Surjection(I, R)
      BY <3>1 DEF Surjection
    <3> QED BY <1>5, <3>1, <3>2, FS_Surjection
  <2> QED BY <1>6, <2>1
<1>8. Cardinality(Requests) \in Nat
  BY <1>7, FS_CardinalityType
<1>9. Requests \subseteq Nat
  BY <1>3, <1>4, <1>6
<1> QED BY <1>8, <1>9

LEMMA HelloIsTrue ==
  ASSUME ListBounds, ListInv, NEW c \in ConnectionIds, ClientConnected(c)
  PROVE  ListInv'
<1>0. PICK k \in Nat : k = Cardinality(Requests) + 1
  BY RequestsAreNumbers
<1>1. PICK N, e : N = Len(events) /\ e = [type |-> "client.connected", host |-> c, id |-> k]
  OBVIOUS
<1>2. e \in ListEvent /\ e.type = "client.connected" /\ e.host = c /\ e.id = k
  BY <1>1 DEF ListEvent, ListBounds
<1>3. events' = Append(events, e) /\ list' = ApplyClientConnected(list, e) /\ store' = store
  BY <1>0, <1>1, <1>2 DEF ClientConnected, LogEvent, Apply, ApplyToStore
<1>4. EventsInv /\ Good(list)
  BY DEF ListInv
<1>5. EventsInv'
  BY <1>1, <1>2, <1>3, <1>4, LogStays
<1>6. /\ N \in Nat /\ Len(events') = N + 1 /\ events'[N + 1] = e
      /\ \A i \in 1..N : i \in 1..(N + 1) /\ events'[i] = events[i]
      /\ N + 1 \in 1..(N + 1) /\ \A i \in 1..(N + 1) : i \in 1..N \/ i = N + 1
  BY <1>1, <1>2, <1>3, <1>4, Longer
<1>7. /\ Good(list')
      /\ \A d \in ConnectionIds : list'.active[d] = IF d = c THEN k ELSE list.active[d]
      /\ \A s \in list'.sessions : IF s.host = c THEN s.request = k ELSE s \in list.sessions
      /\ \A s \in list.sessions : \E t \in list'.sessions : t.id = s.id /\ t.host = s.host
      /\ \A m \in SessionIds, d \in ConnectionIds : Knows(list', m, d) => Knows(list, m, d)
  BY <1>2, <1>3, <1>4, ConnectedDoes
<1>8. ASSUME NEW m \in SessionIds, NEW d \in ConnectionIds, Knows(list', m, d)
      PROVE  m \in store' /\ \E i \in 1..(N + 1) : Stands(i, m, d)'
  <2>1. Knows(list, m, d)
    BY <1>7, <1>8
  <2>2. m \in store /\ \E i \in 1..N : Stands(i, m, d)
    BY <1>1, <2>1, Truth
  <2>3. PICK i \in 1..N : Stands(i, m, d)
    BY <2>2
  <2>4. Stands(i, m, d)'
    BY <1>1, <1>2, <1>3, <1>4, <2>3, StandsOn
  <2> QED BY <1>3, <1>6, <2>2, <2>4
<1>9. ASSUME NEW i \in 1..(N + 1), Undisturbed(i)'
      PROVE  \E s \in list'.sessions : s.id = events'[i].id /\ s.host = events'[i].host
  <2>1. i \in 1..N /\ Undisturbed(i)
    BY <1>1, <1>2, <1>3, <1>4, <1>6, <1>9, WasUndisturbed
  <2>2. PICK s \in list.sessions : s.id = events[i].id /\ s.host = events[i].host
    BY <1>1, <2>1, Truth
  <2> QED BY <1>6, <1>7, <2>1, <2>2
<1>10. ASSUME NEW p \in 1..(N + 1), Hello(p)'
       PROVE  /\ list'.active[events'[p].host] = events'[p].id
              /\ \A s \in list'.sessions : s.host = events'[p].host => s.request = events'[p].id
  <2>1. CASE p \in 1..N
    <3>1. Hello(p) /\ events[p].host # c
      BY <1>1, <1>2, <1>3, <1>4, <1>10, <2>1, WasHello
    <3>2. /\ list.active[events[p].host] = events[p].id /\ events[p].host \in ConnectionIds
          /\ \A s \in list.sessions : s.host = events[p].host => s.request = events[p].id
      BY <1>1, <2>1, <3>1, Truth
    <3> QED BY <1>6, <1>7, <2>1, <3>1, <3>2
  <2>2. CASE p = N + 1
    BY <1>2, <1>6, <1>7, <2>2
  <2> QED BY <1>6, <2>1, <2>2
<1>11. ASSUME NEW p \in 1..(N + 1), NEW d \in 1..(N + 1), Goodbye(p, d)'
       PROVE  \A s \in list'.sessions : s.host # events'[p].host
  <2>1. p \in 1..N /\ d \in 1..N
    BY SMTT(30), <1>1, <1>2, <1>3, <1>4, <1>6, <1>11, WasGoodbye
  <2>2. Goodbye(p, d) /\ events[p].host # c
    BY <1>1, <1>2, <1>3, <1>4, <1>11, <2>1, WasGoodbye
  <2>3. \A s \in list.sessions : s.host # events[p].host
    BY <1>1, <2>1, <2>2, Truth
  <2> QED BY <1>6, <1>7, <2>1, <2>2, <2>3
<1> QED BY <1>5, <1>6, <1>7, <1>8, <1>9, <1>10, <1>11, TruthStays

LEMMA GoodbyeIsTrue ==
  ASSUME ListBounds, ListInv, NEW c \in ConnectionIds, NEW r \in Requests,
         ClientDisconnected(r, c)
  PROVE  ListInv'
<1>0. r \in Nat
  BY RequestsAreNumbers
<1>1. PICK N, e : N = Len(events) /\ e = [type |-> "client.disconnected", host |-> c, id |-> r]
  OBVIOUS
<1>2. e \in ListEvent /\ e.type = "client.disconnected" /\ e.host = c /\ e.id = r
  BY <1>1, <1>0 DEF ListEvent, ListBounds
<1>3. events' = Append(events, e) /\ list' = ApplyClientDisconnected(list, e) /\ store' = store
  BY <1>1, <1>2 DEF ClientDisconnected, LogEvent, Apply, ApplyToStore
<1>4. EventsInv /\ Good(list)
  BY DEF ListInv
<1>5. EventsInv'
  BY <1>1, <1>2, <1>3, <1>4, LogStays
<1>6. /\ N \in Nat /\ Len(events') = N + 1 /\ events'[N + 1] = e
      /\ \A i \in 1..N : i \in 1..(N + 1) /\ events'[i] = events[i]
      /\ N + 1 \in 1..(N + 1) /\ \A i \in 1..(N + 1) : i \in 1..N \/ i = N + 1
  BY <1>1, <1>2, <1>3, <1>4, Longer
<1>7. /\ Good(list')
      /\ \A d \in ConnectionIds : list'.active[d] = IF d = c THEN 0 ELSE list.active[d]
      /\ list'.sessions = {s \in list.sessions : ~(s.host = c /\ s.request = r)}
      /\ \A d \in ConnectionIds :
           \/ list'.keptByKey[d] \in {0, list.keptByKey[d]}
           \/ \E s \in list.sessions : s.host = d /\ list'.keptByKey[d] = s.id
  BY <1>2, <1>3, <1>4, DisconnectedDoes
<1>8. ASSUME NEW m \in SessionIds, NEW d \in ConnectionIds, Knows(list', m, d)
      PROVE  m \in store' /\ \E i \in 1..(N + 1) : Stands(i, m, d)'
  <2>1. Knows(list, m, d)
    <3>1. m # 0
      BY DEF ListBounds
    <3> QED BY <1>7, <1>8, <3>1 DEF Knows
  <2>2. m \in store /\ \E i \in 1..N : Stands(i, m, d)
    BY <1>1, <2>1, Truth
  <2>3. PICK i \in 1..N : Stands(i, m, d)
    BY <2>2
  <2>4. Stands(i, m, d)'
    BY <1>1, <1>2, <1>3, <1>4, <2>3, StandsOn
  <2> QED BY <1>3, <1>6, <2>2, <2>4
<1>9. ASSUME NEW i \in 1..(N + 1), Undisturbed(i)'
      PROVE  \E s \in list'.sessions : s.id = events'[i].id /\ s.host = events'[i].host
  <2>1. i \in 1..N
    BY <1>1, <1>2, <1>3, <1>4, <1>6, <1>9, WasUndisturbed
  <2>2. Undisturbed(i) /\ events[i].host # c
    BY <1>1, <1>2, <1>3, <1>4, <1>9, <2>1, WasUndisturbed
  <2>3. PICK s \in list.sessions : s.id = events[i].id /\ s.host = events[i].host
    BY <1>1, <2>1, <2>2, Truth
  <2> QED BY <1>6, <1>7, <2>1, <2>2, <2>3
<1>10. ASSUME NEW p \in 1..(N + 1), Hello(p)'
       PROVE  /\ list'.active[events'[p].host] = events'[p].id
              /\ \A s \in list'.sessions : s.host = events'[p].host => s.request = events'[p].id
  <2>1. p \in 1..N
    BY <1>1, <1>2, <1>3, <1>4, <1>6, <1>10, WasHello
  <2>2. Hello(p) /\ events[p].host # c
    BY <1>1, <1>2, <1>3, <1>4, <1>10, <2>1, WasHello
  <2>3. /\ list.active[events[p].host] = events[p].id /\ events[p].host \in ConnectionIds
        /\ \A s \in list.sessions : s.host = events[p].host => s.request = events[p].id
    BY <1>1, <2>1, <2>2, Truth
  <2> QED BY <1>6, <1>7, <2>1, <2>2, <2>3
<1>11. ASSUME NEW p \in 1..(N + 1), NEW d \in 1..(N + 1), Goodbye(p, d)'
       PROVE  \A s \in list'.sessions : s.host # events'[p].host
  <2>1. p \in 1..N
    BY <1>1, <1>2, <1>3, <1>4, <1>6, <1>11, WasGoodbye
  <2>2. CASE d \in 1..N
    <3>1. Goodbye(p, d)
      BY <1>1, <1>2, <1>3, <1>4, <1>11, <2>1, <2>2, WasGoodbye
    <3>2. \A s \in list.sessions : s.host # events[p].host
      BY <1>1, <2>1, <2>2, <3>1, Truth
    <3> QED BY <1>6, <1>7, <2>1, <3>2
  <2>3. CASE d = N + 1
    <3>1. Hello(p) /\ e.host = events[p].host /\ e.id = events[p].id
      BY <1>1, <1>2, <1>3, <1>4, <1>11, <2>1, <2>3, WasGoodbye
    <3>2. \A s \in list.sessions : s.host = events[p].host => s.request = events[p].id
      BY <1>1, <2>1, <3>1, Truth
    <3> QED BY <1>2, <1>6, <1>7, <2>1, <3>1, <3>2
  <2> QED BY <1>6, <2>2, <2>3
<1> QED BY <1>5, <1>6, <1>7, <1>8, <1>9, <1>10, <1>11, TruthStays

LEMMA RestartIsTrue ==
  ASSUME ListBounds, ListInv, ServerStarted
  PROVE  ListInv'
<1>1. PICK N, e : N = Len(events) /\ e = [type |-> "server.started", host |-> "none", id |-> 0]
  OBVIOUS
<1>2. e \in ListEvent /\ e.type = "server.started" /\ e.host = "none" /\ e.id = 0
  BY <1>1 DEF ListEvent, ListBounds
<1>3. events' = Append(events, e) /\ list' = ApplyServerStarted(list, e) /\ store' = store
  BY <1>1, <1>2 DEF ServerStarted, LogEvent, Apply, ApplyToStore
<1>4. EventsInv /\ Good(list)
  BY DEF ListInv
<1>5. EventsInv'
  BY <1>1, <1>2, <1>3, <1>4, LogStays
<1>6. /\ N \in Nat /\ Len(events') = N + 1 /\ events'[N + 1] = e
      /\ \A i \in 1..N : i \in 1..(N + 1) /\ events'[i] = events[i]
      /\ N + 1 \in 1..(N + 1) /\ \A i \in 1..(N + 1) : i \in 1..N \/ i = N + 1
  BY <1>1, <1>2, <1>3, <1>4, Longer
<1>7. /\ Good(list')
      /\ \A m \in SessionIds, d \in ConnectionIds : Knows(list', m, d) => Knows(list, m, d)
  BY <1>3, <1>4, ServerStartedDoes
<1>8. ASSUME NEW m \in SessionIds, NEW d \in ConnectionIds, Knows(list', m, d)
      PROVE  m \in store' /\ \E i \in 1..(N + 1) : Stands(i, m, d)'
  <2>1. Knows(list, m, d)
    BY <1>7, <1>8
  <2>2. m \in store /\ \E i \in 1..N : Stands(i, m, d)
    BY <1>1, <2>1, Truth
  <2>3. PICK i \in 1..N : Stands(i, m, d)
    BY <2>2
  <2>4. Stands(i, m, d)'
    BY <1>1, <1>2, <1>3, <1>4, <2>3, StandsOn
  <2> QED BY <1>3, <1>6, <2>2, <2>4
<1>9. \A i \in 1..(N + 1) : ~Undisturbed(i)'
  BY <1>1, <1>2, <1>3, <1>4, <1>6, WasUndisturbed
<1>10. \A p \in 1..(N + 1) : ~Hello(p)'
  BY <1>1, <1>2, <1>3, <1>4, <1>6, WasHello
<1>11. \A p, d \in 1..(N + 1) : ~Goodbye(p, d)'
  BY <1>1, <1>2, <1>3, <1>4, <1>6, WasGoodbye
<1> QED BY <1>5, <1>6, <1>7, <1>8, <1>9, <1>10, <1>11, TruthStays

LEMMA ListInitInv ==
  ASSUME ListBounds, ListInit
  PROVE  ListInv
<1>1. events = <<>> /\ Len(events) = 0 /\ 1..Len(events) = {}
  BY DEF ListInit
<1>2. EventsInv
  BY <1>1 DEF EventsInv
<1>3. PICK A, K : A = [c \in ConnectionIds |-> 0] /\ K = [c \in ConnectionIds |-> 0]
  OBVIOUS
<1>4. /\ list.sessions = {} /\ list.active = A /\ list.kept = <<>> /\ list.keptByKey = K
      /\ list \in [sessions : SUBSET Session, active : [ConnectionIds -> Nat],
                   kept : Seq(KeptSession), keptByKey : [ConnectionIds -> SessionIds \cup {0}]]
  <2>1. list = [sessions |-> {}, active |-> A, kept |-> <<>>, keptByKey |-> K]
    BY <1>3 DEF ListInit, EmptyList
  <2>2. <<>> \in Seq(KeptSession)
    OBVIOUS
  <2>3. A \in [ConnectionIds -> Nat] /\ K \in [ConnectionIds -> SessionIds \cup {0}]
    BY <1>3
  <2> QED BY <2>1, <2>2, <2>3
<1>5. Good(list)
  BY <1>3, <1>4, FS_EmptySet DEF Good, IsList, InPlace, ListBounds
<1>6. \A n \in SessionIds, c \in ConnectionIds : ~Knows(list, n, c)
  BY <1>3, <1>4 DEF Knows, ListBounds
<1> QED BY <1>1, <1>2, <1>5, <1>6 DEF ListInv

\* The inductive invariant: what the list keeps of each event of the log.
THEOREM ListInvariance ==
  ASSUME ListBounds
  PROVE  ListSpec => []ListInv
<1>1. ListInit => ListInv
  BY ListInitInv
<1>2. ListInv /\ [ListNext]_listVars => ListInv'
  <2> SUFFICES ASSUME ListInv, [ListNext]_listVars PROVE ListInv'
    OBVIOUS
  <2>1. CASE \E c \in ConnectionIds : ClientConnected(c)
    BY <2>1, HelloIsTrue
  <2>2. CASE \E c \in ConnectionIds, n \in SessionIds : SessionStarted(n, c)
    BY <2>2, StartIsTrue
  <2>3. CASE \E c \in ConnectionIds, r \in Requests : ClientDisconnected(r, c)
    BY <2>3, GoodbyeIsTrue
  <2>4. CASE \E n \in SessionIds : EndSession(n)
    BY <2>4, EndIsTrue
  <2>5. CASE ServerStarted
    BY <2>5, RestartIsTrue
  <2>6. CASE UNCHANGED listVars
    BY <2>6 DEF listVars, ListInv, EventsInv, Stands, Undisturbed, Hello, Goodbye, IsStatus, OnHost
  <2> QED BY <2>1, <2>2, <2>3, <2>4, <2>5, <2>6 DEF ListNext
<1> QED BY <1>1, <1>2, PTL DEF ListSpec

LEMMA TrueOfLog ==
  ASSUME ListBounds, ListInv
  PROVE  SessionListIsTrue
<1>1. PICK N \in Nat : N = Len(events) /\ DOMAIN events = 1..N
  BY LenProperties DEF ListInv, EventsInv
<1>2. /\ Good(list) /\ list.kept \in Seq(KeptSession)
      /\ Len(list.kept) \in Nat /\ DOMAIN list.kept = 1..Len(list.kept)
  BY ListFields, LenProperties DEF ListInv, Good
<1>3. EachInOnePlace
  BY <1>2 DEF EachInOnePlace, Good, InPlace
<1>4. ASSUME NEW n \in KnownSessions
      PROVE  n \in SessionIds /\ \E c \in ConnectionIds : Knows(list, n, c)
  <2>1. CASE \E s \in list.sessions : s.id = n
    BY <1>2, <2>1, ListFields DEF Good, Session, Knows
  <2>2. CASE \E i \in 1..Len(list.kept) : list.kept[i].id = n
    <3>1. PICK i \in 1..Len(list.kept) : list.kept[i].id = n
      BY <2>2
    <3> QED BY <1>2, <3>1, ListFields DEF Good, InPlace, Knows
  <2> QED BY <1>2, <1>4, <2>1, <2>2 DEF KnownSessions, ToSet
<1>5. KnownSessions \subseteq store
  BY <1>4, Truth
<1>6. KnownIsCurrent
  <2> SUFFICES ASSUME NEW n \in KnownSessions
               PROVE  \E i \in DOMAIN events :
                        /\ events[i].type = "session.started" /\ events[i].id = n
                        /\ \A j \in i + 1..Len(events) :
                             /\ ~(events[j].type = "session.ended" /\ events[j].id = n)
                             /\ ~(events[j].type = "session.started"
                                  /\ events[j].host = events[i].host)
    BY DEF KnownIsCurrent
  <2>1. PICK c \in ConnectionIds : n \in SessionIds /\ Knows(list, n, c)
    BY <1>4
  <2>2. PICK i \in 1..N : Stands(i, n, c)
    BY <1>1, <2>1, Truth
  <2> QED BY <1>1, <2>2 DEF Stands
<1>7. OnlineIsListed
  <2> SUFFICES ASSUME NEW i \in DOMAIN events,
                      events[i].type = "session.started",
                      \A j \in i + 1..Len(events) :
                        /\ events[j].type # "server.started"
                        /\ events[j].type = "session.ended" => events[j].id # events[i].id
                        /\ events[j].host = events[i].host => events[j].type = "client.connected"
               PROVE  events[i].id \in {s.id : s \in list.sessions}
    BY DEF OnlineIsListed
  <2>1. Undisturbed(i)
    BY DEF Undisturbed
  <2>2. PICK s \in list.sessions : s.id = events[i].id
    BY <1>1, <2>1, Truth
  <2> QED BY <2>2
<1>8. OfflineIsNotListed
  <2>1. \A p, d \in 1..N : Goodbye(p, d) => OnHost(list, events[p].host) = {}
    BY <1>1 DEF ListInv
  <2> QED BY <1>1, <2>1 DEF OfflineIsNotListed, Goodbye
<1> QED BY <1>3, <1>5, <1>6, <1>7, <1>8 DEF SessionListIsTrue

\* SessionList and the session store say what the log says, however the
\* statuses, starts and ends of any connections and sessions interleave.
THEOREM ListTrueOfLog ==
  ASSUME ListBounds
  PROVE  ListSpec => []SessionListIsTrue
BY ListInvariance, TrueOfLog, PTL

-----------------------------------------------------------------------------
(* The types of the list *)

\* A session was put online, and a connection is active, by a request of the log.
LoggedInv ==
  /\ Len(events) <= MaxLogged /\ store \subseteq SessionIds
  /\ \A s \in list.sessions : s.request \in Requests \cup {0}
  /\ \A c \in ConnectionIds : list.active[c] \in Requests \cup {0}

LEMMA RequestsGrow ==
  ASSUME EventsInv, NEW e \in ListEvent, events' = Append(events, e)
  PROVE  /\ Requests \subseteq Requests'
         /\ e.type = "client.connected" => e.id \in Requests'
         /\ Len(events') = Len(events) + 1
<1>1. PICK N : N = Len(events)
  OBVIOUS
<1>2. /\ N \in Nat /\ events' \in Seq(ListEvent)
      /\ Len(events') = N + 1 /\ events'[N + 1] = e
      /\ \A i \in 1..N : i \in 1..(N + 1) /\ events'[i] = events[i]
      /\ N + 1 \in 1..(N + 1) /\ \A i \in 1..(N + 1) : i \in 1..N \/ i = N + 1
  BY <1>1, Longer
<1>3. DOMAIN events = 1..N /\ DOMAIN events' = 1..(N + 1)
  BY <1>1, <1>2, LenProperties DEF EventsInv
<1> QED BY <1>1, <1>2, <1>3 DEF Requests

\* An event whose request is the only new one in the list.
LEMMA LoggedMore ==
  ASSUME MaxLogged \in Nat, EventsInv, LoggedInv, Len(events) < MaxLogged,
         NEW e \in ListEvent, events' = Append(events, e), store' \subseteq SessionIds,
         NEW R, R = IF e.type = "client.connected" THEN {e.id} ELSE {},
         \A s \in list'.sessions : s.request \in Requests \cup {0} \cup R,
         \A c \in ConnectionIds : list'.active[c] \in Requests \cup {0} \cup R
  PROVE  LoggedInv'
<1>1. /\ Requests \cup {0} \cup R \subseteq Requests' \cup {0}
      /\ Len(events') = Len(events) + 1
  BY RequestsGrow
<1>2. Len(events) \in Nat
  BY LenProperties DEF EventsInv
<1>3. Len(events') <= MaxLogged
  BY <1>1, <1>2
<1> QED BY <1>1, <1>3 DEF LoggedInv

LEMMA StartLogged ==
  ASSUME ListBounds, MaxLogged \in Nat, ListInv, LoggedInv,
         NEW n \in SessionIds, NEW c \in ConnectionIds, SessionStarted(n, c)
  PROVE  LoggedInv'
<1>1. PICK e : e = [type |-> "session.started", host |-> c, id |-> n]
  OBVIOUS
<1>2. e \in ListEvent /\ e.type = "session.started" /\ e.host = c /\ e.id = n
  BY <1>1 DEF ListEvent, ListBounds
<1>3. /\ events' = Append(events, e) /\ list' = ApplySessionStarted(list, e)
      /\ store' = store \cup {n} /\ Len(events) < MaxLogged
  BY <1>1, <1>2 DEF SessionStarted, LogEvent, Apply, ApplyToStore
<1>4. EventsInv /\ Good(list)
  BY DEF ListInv
<1>5. /\ list'.active = list.active
      /\ list'.sessions = {s \in list.sessions : s.host # c /\ s.id # n}
                            \cup {[id |-> n, host |-> c, request |-> list.active[c]]}
  BY <1>2, <1>3, <1>4, StartedDoes
<1>6. store' \subseteq SessionIds
  BY <1>3 DEF LoggedInv
<1>7. \A s \in list'.sessions : s.request \in Requests \cup {0}
  BY <1>5 DEF LoggedInv
<1>8. \A d \in ConnectionIds : list'.active[d] \in Requests \cup {0}
  BY <1>5 DEF LoggedInv
<1> QED BY <1>2, <1>3, <1>4, <1>6, <1>7, <1>8, LoggedMore

LEMMA EndLogged ==
  ASSUME ListBounds, MaxLogged \in Nat, ListInv, LoggedInv, NEW n \in SessionIds, EndSession(n)
  PROVE  LoggedInv'
<1>1. PICK e : e = [type |-> "session.ended", host |-> "none", id |-> n]
  OBVIOUS
<1>2. e \in ListEvent /\ e.type = "session.ended" /\ e.id = n
  BY <1>1 DEF ListEvent, ListBounds
<1>3. /\ events' = Append(events, e) /\ list' = ApplySessionEnded(list, e)
      /\ store' = store \ {n} /\ Len(events) < MaxLogged
  BY <1>1, <1>2 DEF EndSession, LogEvent, Apply, ApplyToStore
<1>4. EventsInv /\ Good(list)
  BY DEF ListInv
<1>5. \A c, d \in ConnectionIds : list.keptByKey[c] = n /\ list.keptByKey[d] = n => c = d
  BY KnownOnOne DEF Knows
<1>6. list'.active = list.active /\ list'.sessions = {s \in list.sessions : s.id # n}
  BY <1>2, <1>3, <1>4, <1>5, EndedDoes
<1>7. store' \subseteq SessionIds
  BY <1>3 DEF LoggedInv
<1>8. /\ \A s \in list'.sessions : s.request \in Requests \cup {0}
      /\ \A d \in ConnectionIds : list'.active[d] \in Requests \cup {0}
  BY <1>6 DEF LoggedInv
<1> QED BY <1>2, <1>3, <1>4, <1>7, <1>8, LoggedMore

LEMMA HelloLogged ==
  ASSUME ListBounds, MaxLogged \in Nat, ListInv, LoggedInv, NEW c \in ConnectionIds,
         ClientConnected(c)
  PROVE  LoggedInv'
<1>0. PICK k \in Nat : k = Cardinality(Requests) + 1
  BY RequestsAreNumbers
<1>1. PICK e : e = [type |-> "client.connected", host |-> c, id |-> k]
  OBVIOUS
<1>2. e \in ListEvent /\ e.type = "client.connected" /\ e.host = c /\ e.id = k
  BY <1>1 DEF ListEvent, ListBounds
<1>3. /\ events' = Append(events, e) /\ list' = ApplyClientConnected(list, e)
      /\ store' = store /\ Len(events) < MaxLogged
  BY <1>0, <1>1, <1>2 DEF ClientConnected, LogEvent, Apply, ApplyToStore
<1>4. EventsInv /\ Good(list)
  BY DEF ListInv
<1>5. /\ Good(list')
      /\ \A d \in ConnectionIds : list'.active[d] = IF d = c THEN k ELSE list.active[d]
      /\ \A s \in list'.sessions : IF s.host = c THEN s.request = k ELSE s \in list.sessions
      /\ \A s \in list.sessions : \E t \in list'.sessions : t.id = s.id /\ t.host = s.host
      /\ \A m \in SessionIds, d \in ConnectionIds : Knows(list', m, d) => Knows(list, m, d)
  <2>1. /\ ListBounds /\ Good(list) /\ c \in ConnectionIds /\ k \in Nat
        /\ e.host = c /\ e.id = k /\ list' = ApplyClientConnected(list, e)
    BY <1>2, <1>3, <1>4
  <2> QED BY <2>1, ConnectedDoes
<1>6. /\ \A s \in list'.sessions : s.request \in Requests \cup {0} \cup {k}
      /\ \A d \in ConnectionIds : list'.active[d] \in Requests \cup {0} \cup {k}
  BY <1>5 DEF LoggedInv
<1>7. store' \subseteq SessionIds
  BY <1>3 DEF LoggedInv
<1> QED BY <1>2, <1>3, <1>4, <1>6, <1>7, LoggedMore

LEMMA GoodbyeLogged ==
  ASSUME ListBounds, MaxLogged \in Nat, ListInv, LoggedInv,
         NEW c \in ConnectionIds, NEW r \in Requests, ClientDisconnected(r, c)
  PROVE  LoggedInv'
<1>0. r \in Nat
  BY RequestsAreNumbers
<1>1. PICK e : e = [type |-> "client.disconnected", host |-> c, id |-> r]
  OBVIOUS
<1>2. e \in ListEvent /\ e.type = "client.disconnected" /\ e.host = c /\ e.id = r
  BY <1>0, <1>1 DEF ListEvent, ListBounds
<1>3. /\ events' = Append(events, e) /\ list' = ApplyClientDisconnected(list, e)
      /\ store' = store /\ Len(events) < MaxLogged
  BY <1>1, <1>2 DEF ClientDisconnected, LogEvent, Apply, ApplyToStore
<1>4. EventsInv /\ Good(list)
  BY DEF ListInv
<1>5. /\ \A d \in ConnectionIds : list'.active[d] = IF d = c THEN 0 ELSE list.active[d]
      /\ list'.sessions = {s \in list.sessions : ~(s.host = c /\ s.request = e.id)}
  BY <1>2, <1>3, <1>4, DisconnectedDoes
<1>6. /\ \A s \in list'.sessions : s.request \in Requests \cup {0}
      /\ \A d \in ConnectionIds : list'.active[d] \in Requests \cup {0}
  BY <1>5 DEF LoggedInv
<1>7. store' \subseteq SessionIds
  BY <1>3 DEF LoggedInv
<1> QED BY <1>2, <1>3, <1>4, <1>6, <1>7, LoggedMore

LEMMA RestartLogged ==
  ASSUME ListBounds, MaxLogged \in Nat, ListInv, LoggedInv, ServerStarted
  PROVE  LoggedInv'
<1>1. PICK e : e = [type |-> "server.started", host |-> "none", id |-> 0]
  OBVIOUS
<1>2. e \in ListEvent /\ e.type = "server.started" /\ e.host = "none" /\ e.id = 0
  BY <1>1 DEF ListEvent, ListBounds
<1>3. /\ events' = Append(events, e) /\ list' = ApplyServerStarted(list, e)
      /\ store' = store /\ Len(events) < MaxLogged
  BY <1>1, <1>2 DEF ServerStarted, LogEvent, Apply, ApplyToStore
<1>4. EventsInv /\ Good(list)
  BY DEF ListInv
<1>5. list'.sessions \subseteq list.sessions /\ \A d \in ConnectionIds : list'.active[d] = 0
  BY <1>3, <1>4, ServerStartedDoes
<1>6. /\ \A s \in list'.sessions : s.request \in Requests \cup {0}
      /\ \A d \in ConnectionIds : list'.active[d] \in Requests \cup {0}
  BY <1>5 DEF LoggedInv
<1>7. store' \subseteq SessionIds
  BY <1>3 DEF LoggedInv
<1> QED BY <1>2, <1>3, <1>4, <1>6, <1>7, LoggedMore

\* Types: SessionList lists sessions of known connections, put online by
\* requests that were logged.
THEOREM ListTypeCorrect ==
  ASSUME ListBounds, MaxLogged \in Nat
  PROVE  ListSpec => []ListTypeOK
<1>1. ListInit => LoggedInv
  <2> SUFFICES ASSUME ListInit PROVE LoggedInv
    OBVIOUS
  <2>1. /\ events = <<>> /\ Len(events) = 0 /\ store = {} /\ list.sessions = {}
        /\ \A c \in ConnectionIds : list.active[c] = 0
    BY DEF ListInit, EmptyList
  <2> QED BY <2>1 DEF LoggedInv
<1>2. ListInv /\ LoggedInv /\ [ListNext]_listVars => LoggedInv'
  <2> SUFFICES ASSUME ListInv, LoggedInv, [ListNext]_listVars PROVE LoggedInv'
    OBVIOUS
  <2>1. CASE \E c \in ConnectionIds : ClientConnected(c)
    BY <2>1, HelloLogged
  <2>2. CASE \E c \in ConnectionIds, n \in SessionIds : SessionStarted(n, c)
    BY <2>2, StartLogged
  <2>3. CASE \E c \in ConnectionIds, r \in Requests : ClientDisconnected(r, c)
    BY <2>3, GoodbyeLogged
  <2>4. CASE \E n \in SessionIds : EndSession(n)
    BY <2>4, EndLogged
  <2>5. CASE ServerStarted
    BY <2>5, RestartLogged
  <2>6. CASE UNCHANGED listVars
    BY <2>6 DEF listVars, LoggedInv, Requests
  <2> QED BY <2>1, <2>2, <2>3, <2>4, <2>5, <2>6 DEF ListNext
<1>3. ListInv /\ LoggedInv => ListTypeOK
  <2> SUFFICES ASSUME ListInv, LoggedInv PROVE ListTypeOK
    OBVIOUS
  <2>1. /\ list.sessions \subseteq Session /\ list.active \in [ConnectionIds -> Nat]
        /\ list.keptByKey \in [ConnectionIds -> SessionIds \cup {0}]
    BY ListFields DEF ListInv, Good
  <2>2. \A s \in list.sessions : s.host \in ConnectionIds /\ s.id \in SessionIds
    BY <2>1 DEF Session
  <2>3. list.active \in [ConnectionIds -> Requests \cup {0}]
    BY <2>1 DEF LoggedInv
  <2> QED BY <2>1, <2>2, <2>3 DEF LoggedInv, ListTypeOK
<1> QED BY <1>1, <1>2, <1>3, ListInvariance, PTL DEF ListSpec


-----------------------------------------------------------------------------
(***************************************************************************)
(* Usage statistics: sums over finite sets                                 *)
(***************************************************************************)

\* The element SumFunction takes first, and the function it defines.
First(S) == CHOOSE x \in S : TRUE
Summing(f, S, g) ==
  g = [s \in SUBSET S |-> IF s = {} THEN 0 ELSE f[First(s)] + g[s \ {First(s)}]]

LEMMA FirstIsIn ==
  ASSUME NEW S, S # {}
  PROVE  First(S) \in S
BY Zenon DEF First

LEMMA SumIsOf ==
  ASSUME NEW f, NEW S
  PROVE  SumFunctionOnSet(f, S) = (CHOOSE g : Summing(f, S, g))[S]
BY DEF SumFunctionOnSet, FoldFunctionOnSet, MapThenFoldSet, Summing, First

LEMMA FewerWithout ==
  ASSUME NEW S, IsFiniteSet(S), NEW m \in Nat, Cardinality(S) = m + 1, NEW x \in S
  PROVE  IsFiniteSet(S \ {x}) /\ Cardinality(S \ {x}) = m
<1>1. PICK k \in Nat : k = Cardinality(S \ {x}) /\ IsFiniteSet(S \ {x})
  BY FS_RemoveElement, FS_CardinalityType
<1>2. k = Cardinality(S) - 1
  BY <1>1, FS_RemoveElement
<1>3. k = m
  BY <1>1, <1>2
<1> QED BY <1>1, <1>3

\* Induction over finite sets by their size.
LEMMA EmptyIsNone ==
  ASSUME NEW S, IsFiniteSet(S)
  PROVE  Cardinality(S) \in Nat /\ (Cardinality(S) = 0 <=> S = {})
BY FS_CardinalityType, FS_EmptySet

LEMMA SumUnique ==
  ASSUME NEW f, NEW S, NEW R, NEW g, NEW h, Summing(f, S, g), Summing(f, R, h),
         NEW T, T \subseteq S, T \subseteq R, IsFiniteSet(T)
  PROVE  g[T] = h[T]
<1> DEFINE N == {m \in Nat : \A U : U \subseteq S /\ U \subseteq R /\ IsFiniteSet(U)
                                    /\ Cardinality(U) = m => g[U] = h[U]}
<1>1. g[{}] = 0 /\ h[{}] = 0
  <2>1. {} \in SUBSET S /\ {} \in SUBSET R
    OBVIOUS
  <2> QED BY <2>1 DEF Summing
<1>2. 0 \in N
  BY <1>1, EmptyIsNone
<1>3. ASSUME NEW m \in Nat, m \in N PROVE m + 1 \in N
  <2> SUFFICES ASSUME NEW U, U \subseteq S, U \subseteq R, IsFiniteSet(U), Cardinality(U) = m + 1
               PROVE  g[U] = h[U]
    OBVIOUS
  <2>1. U # {}
    BY EmptyIsNone
  <2>2. PICK x : x = First(U)
    OBVIOUS
  <2>3. x \in U
    BY <2>1, <2>2, FirstIsIn
  <2>4. IsFiniteSet(U \ {x}) /\ Cardinality(U \ {x}) = m
    BY <2>3, FewerWithout
  <2>5. g[U \ {x}] = h[U \ {x}]
    BY <1>3, <2>4
  <2>6. g[U] = f[x] + g[U \ {x}] /\ h[U] = f[x] + h[U \ {x}]
    BY <2>1, <2>2 DEF Summing
  <2> QED BY <2>5, <2>6
<1>4. Nat \subseteq N
  <2> HIDE DEF N
  <2> QED BY <1>2, <1>3, SetInduction
<1> QED BY <1>4, EmptyIsNone

LEMMA SumExists ==
  ASSUME NEW f, NEW S, IsFiniteSet(S)
  PROVE  \E g : Summing(f, S, g)
<1> DEFINE Small(m) == {s \in SUBSET S : Cardinality(s) <= m}
           N == {m \in Nat : \E g : g = [s \in Small(m) |->
                   IF s = {} THEN 0 ELSE f[First(s)] + g[s \ {First(s)}]]}
<1>0. \A s \in SUBSET S : IsFiniteSet(s) /\ Cardinality(s) \in Nat
  BY FS_Subset, FS_CardinalityType
<1>1. 0 \in N
  <2>1. \A s \in Small(0) : s = {}
    BY <1>0, EmptyIsNone
  <2>2. PICK g : g = [s \in Small(0) |-> 0]
    OBVIOUS
  <2>3. g = [s \in Small(0) |-> IF s = {} THEN 0 ELSE f[First(s)] + g[s \ {First(s)}]]
    BY <2>1, <2>2
  <2> QED BY <2>3
<1>2. ASSUME NEW m \in Nat, m \in N PROVE m + 1 \in N
  <2>1. PICK g : g = [s \in Small(m) |-> IF s = {} THEN 0 ELSE f[First(s)] + g[s \ {First(s)}]]
    BY <1>2
  <2>2. PICK h : h = [s \in Small(m + 1) |->
                        IF s \in Small(m) THEN g[s] ELSE f[First(s)] + g[s \ {First(s)}]]
    OBVIOUS
  <2>3. ASSUME NEW s \in Small(m + 1), s # {}
        PROVE  s \ {First(s)} \in Small(m) /\ s \ {First(s)} \in Small(m + 1)
    <3>1. PICK x : x = First(s) /\ x \in s
      BY <2>3, FirstIsIn
    <3>2. PICK k \in Nat : Cardinality(s) = k + 1
      <4>1. Cardinality(s) \in Nat /\ Cardinality(s) # 0
        BY <1>0, <2>3, EmptyIsNone
      <4>2. Cardinality(s) - 1 \in Nat /\ (Cardinality(s) - 1) + 1 = Cardinality(s)
        BY <4>1
      <4> QED BY <4>2
    <3>3. IsFiniteSet(s)
      BY <1>0
    <3>4. Cardinality(s \ {x}) = k
      BY <3>1, <3>2, <3>3, FewerWithout
    <3>5. k <= m /\ k <= m + 1
      BY <2>3, <3>2
    <3> QED BY <3>1, <3>4, <3>5
  <2>4. \A s \in Small(m + 1) : h[s] = IF s = {} THEN 0 ELSE f[First(s)] + h[s \ {First(s)}]
    <3> TAKE s \in Small(m + 1)
    <3>1. CASE s = {}
      <4>1. s \in Small(m)
        BY <3>1, EmptyIsNone, FS_EmptySet
      <4> QED BY <2>1, <2>2, <3>1, <4>1
    <3>2. CASE s # {}
      <4>1. h[s \ {First(s)}] = g[s \ {First(s)}]
        BY <2>2, <2>3, <3>2
      <4>2. h[s] = f[First(s)] + g[s \ {First(s)}]
        BY <2>1, <2>2, <3>2
      <4> QED BY <3>2, <4>1, <4>2
    <3> QED BY <3>1, <3>2
  <2>5. h = [s \in Small(m + 1) |-> IF s = {} THEN 0 ELSE f[First(s)] + h[s \ {First(s)}]]
    BY <2>2, <2>4
  <2>6. \E e : e = [s \in Small(m + 1) |-> IF s = {} THEN 0 ELSE f[First(s)] + e[s \ {First(s)}]]
    <3> HIDE DEF Small
    <3> QED BY Zenon, <2>5
  <2>7. m + 1 \in Nat
    OBVIOUS
  <2> HIDE DEF Small
  <2> QED BY Zenon, <2>6, <2>7
<1>3. Cardinality(S) \in N
  <2> HIDE DEF N
  <2>1. Nat \subseteq N
    BY <1>1, <1>2, SetInduction
  <2> QED BY <2>1, FS_CardinalityType
<1>4. Small(Cardinality(S)) = SUBSET S
  BY FS_Subset
<1> QED BY <1>3, <1>4 DEF Summing

\* The sum as a recursive definition gives it ...
LEMMA SumStep ==
  ASSUME NEW f, NEW S, IsFiniteSet(S)
  PROVE  SumFunctionOnSet(f, S) =
           IF S = {} THEN 0 ELSE f[First(S)] + SumFunctionOnSet(f, S \ {First(S)})
<1>1. PICK g : g = CHOOSE h : Summing(f, S, h)
  OBVIOUS
<1>2. Summing(f, S, g)
  BY <1>1, SumExists
<1>3. PICK R : R = S \ {First(S)}
  OBVIOUS
<1>4. IsFiniteSet(R) /\ R \subseteq S
  BY <1>3, FS_Subset
<1>5. PICK r : r = CHOOSE h : Summing(f, R, h)
  OBVIOUS
<1>6. Summing(f, R, r)
  BY <1>4, <1>5, SumExists
<1>7. g[R] = r[R]
  BY <1>2, <1>4, <1>6, SumUnique
<1>8. SumFunctionOnSet(f, S) = g[S] /\ SumFunctionOnSet(f, R) = r[R]
  BY <1>1, <1>5, SumIsOf
<1>9. g[S] = IF S = {} THEN 0 ELSE f[First(S)] + g[R]
  <2>1. S \in SUBSET S
    OBVIOUS
  <2> QED BY <1>2, <1>3, <2>1 DEF Summing
<1> QED BY <1>3, <1>7, <1>8, <1>9

\* ... is an integer, and any element may be the first.
LEMMA SumAdds ==
  ASSUME NEW S, IsFiniteSet(S), NEW f, \A x \in S : f[x] \in Nat
  PROVE  /\ SumFunctionOnSet(f, S) \in Nat
         /\ \A x \in S : SumFunctionOnSet(f, S) = f[x] + SumFunctionOnSet(f, S \ {x})
<1> DEFINE Ok(U) == /\ SumFunctionOnSet(f, U) \in Nat
                    /\ \A x \in U : SumFunctionOnSet(f, U) = f[x] + SumFunctionOnSet(f, U \ {x})
           N == {m \in Nat : \A U : U \subseteq S /\ IsFiniteSet(U) /\ Cardinality(U) <= m => Ok(U)}
<1>1. 0 \in N
  <2>1. SumFunctionOnSet(f, {}) = 0
    BY SumStep, FS_EmptySet
  <2>2. \A U : IsFiniteSet(U) /\ Cardinality(U) <= 0 => U = {}
    BY EmptyIsNone
  <2>3. Ok({})
    BY <2>1
  <2> HIDE DEF Ok
  <2> QED BY <2>2, <2>3
<1>2. ASSUME NEW m \in Nat, m \in N PROVE m + 1 \in N
  <2> SUFFICES ASSUME NEW U, U \subseteq S, IsFiniteSet(U), Cardinality(U) <= m + 1 PROVE Ok(U)
    OBVIOUS
  <2>1. CASE Cardinality(U) <= m
    BY <1>2, <2>1
  <2>2. CASE Cardinality(U) = m + 1
    <3>1. PICK y : y = First(U) /\ y \in U
      BY <2>2, EmptyIsNone, FirstIsIn
    <3>2. SumFunctionOnSet(f, U) = f[y] + SumFunctionOnSet(f, U \ {y})
      BY <3>1, SumStep
    <3>3. \A x \in U : U \ {x} \subseteq S /\ IsFiniteSet(U \ {x}) /\ Cardinality(U \ {x}) = m
      BY <2>2, FewerWithout
    <3>4. \A x \in U : Ok(U \ {x})
      BY <1>2, <3>3
    <3>5. SumFunctionOnSet(f, U) \in Nat
      BY <3>1, <3>2, <3>4
    <3>6. ASSUME NEW x \in U, x # y
          PROVE  SumFunctionOnSet(f, U) = f[x] + SumFunctionOnSet(f, U \ {x})
      <4>1. PICK W : W = (U \ {x}) \ {y}
        OBVIOUS
      <4>2. W = (U \ {y}) \ {x} /\ x \in U \ {y} /\ y \in U \ {x}
        BY <3>1, <3>6, <4>1
      <4>3. /\ SumFunctionOnSet(f, U \ {y}) = f[x] + SumFunctionOnSet(f, W)
            /\ SumFunctionOnSet(f, U \ {x}) = f[y] + SumFunctionOnSet(f, W)
        BY <3>1, <3>4, <4>1, <4>2
      <4>4. SumFunctionOnSet(f, W) \in Nat
        <5>1. W \subseteq S /\ IsFiniteSet(W) /\ Cardinality(W) <= Cardinality(U \ {x})
          BY <3>3, <4>1, FS_Subset
        <5>2. Cardinality(W) <= m
          BY <3>3, <5>1
        <5> QED BY <1>2, <5>1, <5>2
      <4>5. PICK a \in Nat, b \in Nat, c \in Nat : a = f[x] /\ b = f[y] /\ c = SumFunctionOnSet(f, W)
        BY <3>1, <4>4
      <4>6. SumFunctionOnSet(f, U) = b + (a + c) /\ f[x] + SumFunctionOnSet(f, U \ {x}) = a + (b + c)
        BY <3>2, <4>3, <4>5
      <4> QED BY <4>5, <4>6
    <3> QED BY <3>1, <3>2, <3>5, <3>6
  <2>3. Cardinality(U) <= m \/ Cardinality(U) = m + 1
    <3>1. Cardinality(U) \in Nat
      BY EmptyIsNone
    <3> QED BY <3>1
  <2> HIDE DEF Ok
  <2> QED BY <2>1, <2>2, <2>3
<1>3. Nat \subseteq N
  <2> HIDE DEF N
  <2> QED BY <1>1, <1>2, SetInduction
<1>4. Cardinality(S) \in N /\ Cardinality(S) \in Nat
  BY <1>3, FS_CardinalityType
<1>5. Cardinality(S) <= Cardinality(S)
  BY <1>4
<1> QED BY <1>4, <1>5

\* Sums over a set and over another whose elements stand for its own.
LEMMA SumMatches ==
  ASSUME NEW S, IsFiniteSet(S), NEW f, \A x \in S : f[x] \in Nat,
         NEW b, NEW h, \A x \in S : h[b[x]] = f[x],
         \A x, y \in S : b[x] = b[y] => x = y
  PROVE  SumFunctionOnSet(h, {b[x] : x \in S}) = SumFunctionOnSet(f, S)
<1> DEFINE To(U) == {b[x] : x \in U}
           N == {m \in Nat : \A U : U \subseteq S /\ IsFiniteSet(U) /\ Cardinality(U) = m =>
                                SumFunctionOnSet(h, To(U)) = SumFunctionOnSet(f, U)}
<1>1. 0 \in N
  <2>1. SumFunctionOnSet(f, {}) = 0 /\ SumFunctionOnSet(h, {}) = 0 /\ To({}) = {}
    BY SumStep, FS_EmptySet
  <2>2. \A U : IsFiniteSet(U) /\ Cardinality(U) = 0 => U = {}
    BY EmptyIsNone
  <2> QED BY <2>1, <2>2
<1>2. ASSUME NEW m \in Nat, m \in N PROVE m + 1 \in N
  <2> SUFFICES ASSUME NEW U, U \subseteq S, IsFiniteSet(U), Cardinality(U) = m + 1
               PROVE  SumFunctionOnSet(h, To(U)) = SumFunctionOnSet(f, U)
    OBVIOUS
  <2>1. PICK x : x \in U
    BY EmptyIsNone
  <2>2. PICK V : V = U \ {x}
    OBVIOUS
  <2>3. V \subseteq S /\ IsFiniteSet(V) /\ Cardinality(V) = m
    BY <2>1, <2>2, FewerWithout
  <2>4. SumFunctionOnSet(h, To(V)) = SumFunctionOnSet(f, V)
    BY <1>2, <2>3
  <2>5. SumFunctionOnSet(f, U) = f[x] + SumFunctionOnSet(f, V)
    <3>1. \A z \in U : f[z] \in Nat
      OBVIOUS
    <3> QED BY <2>1, <2>2, <3>1, SumAdds
  <2>6. SumFunctionOnSet(h, To(U)) = h[b[x]] + SumFunctionOnSet(h, To(V))
    <3>1. PICK T, R, z : T = To(U) /\ R = To(V) /\ z = b[x]
      OBVIOUS
    <3>2. IsFiniteSet(T)
      <4>1. [u \in U |-> b[u]] \in Surjection(U, T)
        BY <3>1 DEF Surjection
      <4> QED BY <4>1, FS_Surjection
    <3>3. \A e \in T : h[e] \in Nat
      BY <3>1
    <3>4. z \in T /\ T \ {z} = R
      BY <2>1, <2>2, <3>1
    <3>5. SumFunctionOnSet(h, T) = h[z] + SumFunctionOnSet(h, T \ {z})
      BY <3>2, <3>3, <3>4, SumAdds
    <3> QED BY <3>1, <3>4, <3>5
  <2>7. h[b[x]] = f[x]
    BY <2>1
  <2> QED BY <2>4, <2>5, <2>6, <2>7
<1>3. Nat \subseteq N
  <2> HIDE DEF N
  <2> QED BY <1>1, <1>2, SetInduction
<1>4. Cardinality(S) \in N
  BY <1>3, FS_CardinalityType
<1> QED BY <1>4

LEMMA SumSplits ==
  ASSUME NEW A, IsFiniteSet(A), NEW B, IsFiniteSet(B), A \cap B = {},
         NEW f, \A x \in A \cup B : f[x] \in Nat
  PROVE  SumFunctionOnSet(f, A \cup B) = SumFunctionOnSet(f, A) + SumFunctionOnSet(f, B)
<1> DEFINE N == {m \in Nat : \A U : U \subseteq A /\ IsFiniteSet(U) /\ Cardinality(U) = m =>
                   SumFunctionOnSet(f, U \cup B) = SumFunctionOnSet(f, U) + SumFunctionOnSet(f, B)}
<1>0. SumFunctionOnSet(f, B) \in Nat
  BY SumAdds
<1>1. 0 \in N
  <2>1. SumFunctionOnSet(f, {}) = 0
    BY SumStep, FS_EmptySet
  <2>2. \A U : IsFiniteSet(U) /\ Cardinality(U) = 0 => U = {} /\ U \cup B = B
    BY EmptyIsNone
  <2> QED BY <1>0, <2>1, <2>2
<1>2. ASSUME NEW m \in Nat, m \in N PROVE m + 1 \in N
  <2> SUFFICES ASSUME NEW U, U \subseteq A, IsFiniteSet(U), Cardinality(U) = m + 1
               PROVE  SumFunctionOnSet(f, U \cup B) = SumFunctionOnSet(f, U) + SumFunctionOnSet(f, B)
    OBVIOUS
  <2>1. PICK x : x \in U
    BY EmptyIsNone
  <2>2. PICK V : V = U \ {x}
    OBVIOUS
  <2>3. V \subseteq A /\ IsFiniteSet(V) /\ Cardinality(V) = m
    BY <2>1, <2>2, FewerWithout
  <2>4. SumFunctionOnSet(f, V \cup B) = SumFunctionOnSet(f, V) + SumFunctionOnSet(f, B)
    BY <1>2, <2>3
  <2>5. SumFunctionOnSet(f, U) = f[x] + SumFunctionOnSet(f, V) /\ SumFunctionOnSet(f, V) \in Nat
    <3>1. (\A z \in U : f[z] \in Nat) /\ (\A z \in V : f[z] \in Nat)
      BY <2>2
    <3> QED BY <2>1, <2>2, <2>3, <3>1, SumAdds
  <2>6. SumFunctionOnSet(f, U \cup B) = f[x] + SumFunctionOnSet(f, V \cup B)
    <3>1. PICK T : T = U \cup B
      OBVIOUS
    <3>2. IsFiniteSet(T) /\ (\A z \in T : f[z] \in Nat) /\ x \in T
      BY <2>1, <3>1, FS_Union
    <3>3. SumFunctionOnSet(f, T) = f[x] + SumFunctionOnSet(f, T \ {x})
      BY <3>2, SumAdds
    <3>4. T \ {x} = V \cup B
      BY <2>1, <2>2, <3>1
    <3> QED BY <3>1, <3>3, <3>4
  <2>7. PICK a \in Nat, c \in Nat, d \in Nat :
          a = f[x] /\ c = SumFunctionOnSet(f, V) /\ d = SumFunctionOnSet(f, B)
    BY <1>0, <2>1, <2>5
  <2>8. SumFunctionOnSet(f, U \cup B) = a + (c + d) /\ SumFunctionOnSet(f, U) = a + c
    BY <2>4, <2>5, <2>6, <2>7
  <2> QED BY <2>7, <2>8
<1>3. Nat \subseteq N
  <2> HIDE DEF N
  <2> QED BY <1>1, <1>2, SetInduction
<1>4. Cardinality(A) \in N
  BY <1>3, FS_CardinalityType
<1> QED BY <1>4

-----------------------------------------------------------------------------
(***************************************************************************)
(* Usage statistics: the invariant                                         *)
(***************************************************************************)

\* Sessions have positive numbers, one at least is kept, and no connection is
\* called none.
UsageBounds ==
  /\ SessionNos \subseteq Nat \ {0} /\ KeptMax \in Nat \ {0} /\ MaxTime \in Nat
  /\ "none" \notin Conns

UsageSession == [id : SessionNos, host : Conns, start : Nat]
LeftSession == [id : SessionNos, host : Conns, start : Nat, left : Nat]
Index == [Conns -> LeftSession \cup {NotKept}]
Stats == [settled : Nat, active : SUBSET UsageSession, away : SUBSET LeftSession,
          kept : Seq(LeftSession), index : Index]
FullStats == [settled : Nat, sessions : SUBSET UsageSession, downs : [Conns -> Nat]]

\* The slice has what the index has.
Holds(q, x) ==
  /\ \A i \in 1..Len(q) : x[q[i].host] = q[i]
  /\ \A i, j \in 1..Len(q) : q[i].host = q[j].host => i = j
  /\ \A c \in Conns : x[c] # NotKept => \E i \in 1..Len(q) : q[i] = x[c] /\ q[i].host = c
Shaped(u) ==
  /\ u \in Stats /\ IsFiniteSet(u.active) /\ IsFiniteSet(u.away)
  /\ Holds(u.kept, u.index) /\ Len(u.kept) <= KeptMax

\* A connection has one session at most, active or kept; what is kept is away.
\* A: the active sessions, W: those that are away, X: the index.
Linked(A, W, X) ==
  /\ \A s, t \in A : s.host = t.host => s = t
  /\ \A s \in A : X[s.host] = NotKept
  /\ \A c \in Conns : X[c] # NotKept => X[c] \in W /\ X[c].host = c

\* It is a session that began.
Began(b, s) == b[s.id].host = s.host /\ b[s.id].start = s.start
Dated(A, W, b, time) ==
  /\ \A s \in A : Began(b, s) /\ s.start \in 1..time
  /\ \A s \in W : Began(b, s) /\ s.start \in 1..s.left /\ s.left \in 1..time

Sound(A, W, X, b, time) ==
  /\ A \subseteq UsageSession /\ W \subseteq LeftSession /\ X \in Index
  /\ Linked(A, W, X) /\ Dated(A, W, b, time)

Fine(u, b, time) == Shaped(u) /\ Sound(u.active, u.away, u.index, b, time)

CountsOnce(A, W) == \A s \in A : WithId(W, s.id) = {}

\* Nothing that is away was evicted.
AllKept(W, X) == \A s \in W : X[s.host] = s

SameStats(u, v) ==
  /\ u.settled = v.settled /\ u.active = v.active /\ u.away = v.away /\ u.index = v.index
  /\ Len(u.kept) = Len(v.kept)

\* fullstate knows the same sessions, and when those that are away were left.
Bare(s) == [id |-> s.id, host |-> s.host, start |-> s.start]
LeftAt(s, time) == [id |-> s.id, host |-> s.host, start |-> s.start, left |-> time]
FullKnows(f, settled, A, W) ==
  /\ f.settled = settled
  /\ f.sessions = A \cup {Bare(s) : s \in W}
  /\ \A s \in A : f.downs[s.host] = 0
  /\ \A s \in W : f.downs[s.host] = s.left

FullSound(f, b, time) ==
  /\ f \in FullStats /\ IsFiniteSet(f.sessions)
  /\ \A s \in f.sessions : Began(b, s) /\ s.start \in 1..time

LowSound(l, b, time) ==
  /\ l = [stats |-> l.stats, evicted |-> l.evicted, evictions |-> l.evictions]
  /\ l.evicted \in Index /\ l.evictions \in Nat
  /\ \A c \in Conns : l.evicted[c] # NotKept =>
       /\ l.evicted[c].host = c /\ Began(b, l.evicted[c]) /\ l.evicted[c].start \in 1..time

BegunInv ==
  /\ clock \in 0..MaxTime
  /\ begun \in [SessionNos -> [host : Conns \cup {"none"}, start : Nat]]
  /\ \A n \in SessionNos : begun[n] = NotBegun \/ (begun[n].host \in Conns /\ begun[n].start \in 1..clock)

Excused(l, ir) == "started again" \in ir /\ l.evictions # 0

Unevicted(u, l, f, ir) ==
  /\ AllKept(u.away, u.index) /\ SameStats(l.stats, u)
  /\ \A c \in Conns : l.evicted[c] = NotKept
  /\ "started while away" \in ir \/ FullKnows(f, u.settled, u.active, u.away)

BothCount(u, l) == CountsOnce(u.active, u.away) /\ CountsOnce(l.stats.active, l.stats.away)

\* u: UsageStats, l: lowmemory, f: fullstate, ir: what was irregular.
Consistent(b, t, u, l, f, ir) ==
  /\ LowSound(l, b, t) /\ FullSound(f, b, t) /\ Fine(u, b, t) /\ Fine(l.stats, b, t)
  /\ Excused(l, ir) \/ BothCount(u, l)
  /\ l.evictions = 0 => Unevicted(u, l, f, ir)

UsageInv == BegunInv /\ Consistent(begun, clock, usage, low, full, irregular)

-----------------------------------------------------------------------------
(* The sessions that are kept *)

LEMMA StatsFields ==
  ASSUME UsageBounds, NEW u, u \in Stats
  PROVE  /\ u.settled \in Nat /\ u.active \subseteq UsageSession /\ u.away \subseteq LeftSession
         /\ u.kept \in Seq(LeftSession) /\ u.index \in Index /\ Len(u.kept) \in Nat
         /\ \A c \in Conns : u.index[c] \in LeftSession \cup {NotKept}
         /\ \A i \in 1..Len(u.kept) : u.kept[i] \in LeftSession /\ u.kept[i].host \in Conns
<1>1. /\ u.settled \in Nat /\ u.active \subseteq UsageSession /\ u.away \subseteq LeftSession
      /\ u.kept \in Seq(LeftSession) /\ u.index \in Index
  BY DEF Stats
<1>2. Len(u.kept) \in Nat /\ \A i \in 1..Len(u.kept) : u.kept[i] \in LeftSession
  BY <1>1, LenProperties, ElementOfSeq
<1>3. \A s \in LeftSession : s.host \in Conns
  BY DEF LeftSession
<1> QED BY <1>1, <1>2, <1>3 DEF Index

LEMMA NotKeptIsNone == ASSUME UsageBounds PROVE \A s \in LeftSession : s # NotKept /\ s.id # 0
BY DEF UsageBounds, LeftSession, NotKept

\* A slice without one of its sessions, and the index without it.
Dropped(q, i, r) ==
  /\ r \in Seq(LeftSession) /\ Len(r) = Len(q) - 1
  /\ \A k \in 1..(Len(q) - 1) : r[k] = IF k < i THEN q[k] ELSE q[k + 1]
Cleared(x, h, y) == \A c \in Conns : y[c] = IF c = h THEN NotKept ELSE x[c]

LEMMA WithoutOne ==
  ASSUME NEW q, q \in Seq(LeftSession), NEW x, x \in Index, Holds(q, x), NEW i, i \in 1..Len(q),
         NEW r, Dropped(q, i, r), NEW y, y \in Index, NEW h, h = q[i].host, Cleared(x, h, y)
  PROVE  Holds(r, y)
<1>0. /\ Len(r) = Len(q) - 1
      /\ \A k \in 1..(Len(q) - 1) : r[k] = IF k < i THEN q[k] ELSE q[k + 1]
      /\ \A c \in Conns : y[c] = IF c = h THEN NotKept ELSE x[c]
  BY DEF Dropped, Cleared
<1>1. PICK n \in Nat : n = Len(q)
  BY LenProperties
<1>2. \A j \in 1..n : q[j] \in LeftSession /\ q[j].host \in Conns
  <2>1. \A j \in 1..n : q[j] \in LeftSession
    BY <1>1, ElementOfSeq
  <2>2. \A s \in LeftSession : s.host \in Conns
    BY DEF LeftSession
  <2> QED BY <2>1, <2>2
<1>3. \A j \in 1..(n - 1) : \E m \in 1..n : m # i /\ r[j] = q[m] /\ m = IF j < i THEN j ELSE j + 1
  <2> TAKE j \in 1..(n - 1)
  <2>1. PICK m : m = IF j < i THEN j ELSE j + 1
    OBVIOUS
  <2>2. m \in 1..n /\ m # i
    BY <1>1, <2>1
  <2> QED BY <1>0, <1>1, <2>1, <2>2
<1>4. \A m \in 1..n : m # i => \E j \in 1..(n - 1) : r[j] = q[m]
  <2> SUFFICES ASSUME NEW m \in 1..n, m # i PROVE \E j \in 1..(n - 1) : r[j] = q[m]
    OBVIOUS
  <2>1. CASE m < i
    <3>1. m \in 1..(n - 1)
      BY <1>1, <2>1
    <3> QED BY <1>0, <1>1, <2>1, <3>1
  <2>2. CASE ~(m < i)
    <3>1. m - 1 \in 1..(n - 1) /\ ~(m - 1 < i) /\ (m - 1) + 1 = m
      BY <1>1, <2>2
    <3> QED BY <1>0, <1>1, <3>1
  <2> QED BY <2>1, <2>2
<1>5. /\ \A j \in 1..n : x[q[j].host] = q[j]
      /\ \A j, k \in 1..n : q[j].host = q[k].host => j = k
      /\ \A c \in Conns : x[c] # NotKept => \E j \in 1..n : q[j] = x[c] /\ q[j].host = c
  BY <1>1 DEF Holds
<1>6. h \in Conns /\ h = q[i].host
  BY <1>1, <1>2
<1>7. \A j \in 1..(n - 1) : y[r[j].host] = r[j]
  <2> TAKE j \in 1..(n - 1)
  <2>1. PICK m \in 1..n : m # i /\ r[j] = q[m]
    BY <1>3
  <2>2. q[m].host # h /\ q[m].host \in Conns
    BY <1>1, <1>2, <1>5, <1>6, <2>1
  <2> QED BY <1>0, <1>5, <1>6, <2>1, <2>2
<1>8. \A j, k \in 1..(n - 1) : r[j].host = r[k].host => j = k
  <2> SUFFICES ASSUME NEW j \in 1..(n - 1), NEW k \in 1..(n - 1), r[j].host = r[k].host PROVE j = k
    OBVIOUS
  <2>1. PICK a \in 1..n : r[j] = q[a] /\ a = IF j < i THEN j ELSE j + 1
    BY <1>3
  <2>2. PICK b \in 1..n : r[k] = q[b] /\ b = IF k < i THEN k ELSE k + 1
    BY <1>3
  <2>3. a = b
    BY <1>5, <2>1, <2>2
  <2> QED BY <1>1, <2>1, <2>2, <2>3
<1>9. \A c \in Conns : y[c] # NotKept => \E j \in 1..(n - 1) : r[j] = y[c] /\ r[j].host = c
  <2> SUFFICES ASSUME NEW c \in Conns, y[c] # NotKept
               PROVE  \E j \in 1..(n - 1) : r[j] = y[c] /\ r[j].host = c
    OBVIOUS
  <2>1. c # h /\ y[c] = x[c]
    BY <1>0, <1>6
  <2>2. PICK m \in 1..n : q[m] = x[c] /\ q[m].host = c
    BY <1>5, <2>1
  <2>3. m # i
    BY <1>6, <2>1, <2>2
  <2> QED BY <1>4, <2>1, <2>2, <2>3
<1>10. Len(r) = n - 1
  BY <1>0, <1>1
<1> QED BY <1>7, <1>8, <1>9, <1>10 DEF Holds

\* Statistics without one of the sessions kept.
Unkept(u, i, r) ==
  \E p, y : /\ p = RemoveAt(u.kept, i) /\ y = [u.index EXCEPT ![u.kept[i].host] = NotKept]
           /\ r = [u EXCEPT !.index = y, !.kept = p]

LEMMA WithoutItHolds ==
  ASSUME UsageBounds, NEW u, u \in Stats, Holds(u.kept, u.index), NEW i, i \in 1..Len(u.kept),
         NEW h, h = u.kept[i].host, NEW r, Unkept(u, i, r)
  PROVE  /\ r \in Stats /\ Holds(r.kept, r.index) /\ Len(r.kept) = Len(u.kept) - 1
         /\ r.settled = u.settled /\ r.active = u.active /\ r.away = u.away
         /\ Cleared(u.index, h, r.index)
<1>1. PICK q, x : q = u.kept /\ x = u.index
  OBVIOUS
<1>2. q \in Seq(LeftSession) /\ x \in Index /\ q[i] \in LeftSession /\ q[i].host \in Conns
  BY <1>1, StatsFields
<1>3. PICK p, y : /\ p = RemoveAt(q, i) /\ y = [x EXCEPT ![q[i].host] = NotKept]
                  /\ r = [u EXCEPT !.index = y, !.kept = p]
  BY <1>1 DEF Unkept
<1>4. i \in 1..Len(q)
  BY <1>1
<1>5. /\ p \in Seq(LeftSession) /\ Len(p) = Len(q) - 1
      /\ \A k \in 1..(Len(q) - 1) : p[k] = IF k < i THEN q[k] ELSE q[k + 1]
  BY <1>2, <1>3, <1>4, RemoveAtIs
<1>6. y \in Index /\ \A d \in Conns : y[d] = IF d = q[i].host THEN NotKept ELSE x[d]
  BY <1>2, <1>3 DEF Index
<1>7. Holds(p, y)
  <2>1. Holds(q, x)
    BY <1>1
  <2>2. Dropped(q, i, p) /\ Cleared(x, h, y) /\ h = q[i].host
    BY <1>1, <1>5, <1>6 DEF Dropped, Cleared
  <2> QED BY <1>2, <1>4, <1>6, <2>1, <2>2, WithoutOne
<1>9. /\ r \in Stats /\ r.settled = u.settled /\ r.active = u.active /\ r.away = u.away
      /\ r.index = y /\ r.kept = p
  BY <1>3, <1>5, <1>6 DEF Stats
<1> QED BY <1>1, <1>5, <1>6, <1>7, <1>9 DEF Cleared

Without(X, c) == [X EXCEPT ![c] = NotKept]
WithoutId(X, n) == [d \in Conns |-> IF X[d].id = n THEN NotKept ELSE X[d]]
Fewer(X, c, k) == IF X[c] = NotKept THEN k ELSE k - 1
FewerId(X, n, k) == IF \E d \in Conns : X[d].id = n THEN k - 1 ELSE k

\* What an operation makes of statistics.
Turned(r, settled, A, W, X, k) ==
  /\ r \in Stats /\ Holds(r.kept, r.index) /\ Len(r.kept) = k
  /\ r.settled = settled /\ r.active = A /\ r.away = W /\ r.index = X

LEMMA IndexFields ==
  ASSUME NEW x, x \in Index
  PROVE  x = [d \in Conns |-> x[d]]
BY DEF Index

LEMMA ClearedIs ==
  ASSUME NEW x, x \in Index, NEW c, NEW y, y \in Index, Cleared(x, c, y)
  PROVE  y = Without(x, c)
BY DEF Index, Cleared, Without

LEMMA RemoveDisconnectedDoes ==
  ASSUME UsageBounds, NEW u, u \in Stats, Holds(u.kept, u.index), NEW c \in Conns,
         NEW r, r = RemoveDisconnected(u, c)
  PROVE  Turned(r, u.settled, u.active, u.away, Without(u.index, c),
                Fewer(u.index, c, Len(u.kept)))
<1>0. Len(u.kept) \in Nat /\ u.index \in Index
  BY StatsFields
<1>1. CASE u.index[c] = NotKept
  <2>1. u.index = Without(u.index, c)
    BY <1>0, <1>1 DEF Without, Index
  <2>2. r = u
    BY <1>1 DEF RemoveDisconnected
  <2> QED BY <1>1, <2>1, <2>2 DEF Turned, Fewer
<1>2. CASE u.index[c] # NotKept
  <2>1. PICK P : P = {i \in 1..Len(u.kept) : u.kept[i].host = c}
    OBVIOUS
  <2>2. P # {} /\ P \subseteq 1..Len(u.kept)
    BY <1>2, <2>1 DEF Holds
  <2>3. PICK i : i = Min(P)
    OBVIOUS
  <2>4. i \in 1..Len(u.kept) /\ u.kept[i].host = c
    <3>1. u.kept \in Seq(LeftSession)
      BY StatsFields
    <3>2. i \in P
      BY <2>2, <2>3, <3>1, SelectIs
    <3> QED BY <2>1, <3>2
  <2>5. RemoveFirstMatch(u.kept, LAMBDA s : s.host = c) = RemoveAt(u.kept, i)
    BY <2>1, <2>2, <2>3 DEF RemoveFirstMatch, SelectInSeq
  <2>6. PICK p, y : p = RemoveAt(u.kept, i) /\ y = [u.index EXCEPT ![c] = NotKept]
    OBVIOUS
  <2>8. r = [u EXCEPT !.index = y, !.kept = p]
    BY <1>2, <2>5, <2>6 DEF RemoveDisconnected, Stats
  <2>7. /\ r \in Stats /\ Holds(r.kept, r.index) /\ Len(r.kept) = Len(u.kept) - 1
        /\ r.settled = u.settled /\ r.active = u.active /\ r.away = u.away
        /\ Cleared(u.index, c, r.index)
    <3>1. Unkept(u, i, r)
      BY <2>4, <2>6, <2>8 DEF Unkept
    <3> QED BY <2>4, <3>1, WithoutItHolds
  <2>9. r.index = Without(u.index, c)
    <3>1. r.index \in Index
      BY <2>7, StatsFields
    <3> QED BY <1>0, <2>7, <3>1, ClearedIs
  <2> QED BY <1>2, <2>7, <2>9 DEF Turned, Fewer
<1> QED BY <1>1, <1>2

LEMMA RemoveDisconnectedIdDoes ==
  ASSUME UsageBounds, NEW u, u \in Stats, Holds(u.kept, u.index), NEW n \in SessionNos,
         NEW r, r = RemoveDisconnectedId(u, n),
         \A c, d \in Conns : u.index[c].id = n /\ u.index[d].id = n => c = d
  PROVE  Turned(r, u.settled, u.active, u.away, WithoutId(u.index, n),
                FewerId(u.index, n, Len(u.kept)))
<1>0. Len(u.kept) \in Nat /\ u.kept \in Seq(LeftSession) /\ u.index \in Index
  BY StatsFields
<1>1. PICK P : P = {i \in 1..Len(u.kept) : u.kept[i].id = n}
  OBVIOUS
<1>2. PICK i : i = IF P # {} THEN Min(P) ELSE 0
  OBVIOUS
<1>3. SelectInSeq(u.kept, LAMBDA s : s.id = n) = i
  BY <1>1, <1>2 DEF SelectInSeq
<1>4. r = IF i = 0 THEN u
          ELSE [u EXCEPT !.index[u.kept[i].host] = NotKept, !.kept = RemoveAt(@, i)]
  BY <1>3 DEF RemoveDisconnectedId
<1>5. n # 0 /\ NotKept.id = 0
  BY DEF UsageBounds, NotKept
<1>6. CASE P = {}
  <2>1. \A d \in Conns : u.index[d].id # n
    BY <1>1, <1>5, <1>6 DEF Holds
  <2>2. u.index = WithoutId(u.index, n)
    BY <1>0, <2>1 DEF Index, WithoutId
  <2>3. r = u
    BY <1>2, <1>4, <1>6
  <2> QED BY <2>1, <2>2, <2>3 DEF Turned, FewerId
<1>7. CASE P # {}
  <2>1. i \in P
    <3>1. P \subseteq 1..Len(u.kept)
      BY <1>1
    <3> QED BY <1>0, <1>2, <1>7, <3>1, SelectIs
  <2>2. i \in 1..Len(u.kept) /\ u.kept[i].id = n /\ i # 0
    BY <1>0, <1>1, <2>1
  <2>3. u.kept[i].host \in Conns /\ u.index[u.kept[i].host].id = n
    BY <2>2, StatsFields DEF Holds
  <2>4. PICK h, p, y : h = u.kept[i].host /\ p = RemoveAt(u.kept, i) /\ y = [u.index EXCEPT ![h] = NotKept]
    OBVIOUS
  <2>8. r = [u EXCEPT !.index = y, !.kept = p]
    BY <1>4, <2>2, <2>4 DEF Stats
  <2>5. /\ r \in Stats /\ Holds(r.kept, r.index) /\ Len(r.kept) = Len(u.kept) - 1
        /\ r.settled = u.settled /\ r.active = u.active /\ r.away = u.away
        /\ Cleared(u.index, h, r.index)
    <3>1. Unkept(u, i, r)
      BY <2>4, <2>8 DEF Unkept
    <3> QED BY <2>2, <2>4, <3>1, WithoutItHolds
  <2>6. \A d \in Conns : d = h <=> u.index[d].id = n
    BY <2>3, <2>4
  <2>7. r.index = WithoutId(u.index, n)
    <3>1. r.index \in Index /\ \A d \in Conns : r.index[d] = IF u.index[d].id = n THEN NotKept ELSE u.index[d]
      BY <2>5, <2>6, StatsFields DEF Cleared
    <3> QED BY <3>1 DEF Index, WithoutId
  <2> QED BY <2>3, <2>5, <2>7 DEF Turned, FewerId
<1> QED BY <1>6, <1>7

LEMMA HoldsAdded ==
  ASSUME UsageBounds, NEW q, q \in Seq(LeftSession), NEW x, x \in Index, Holds(q, x),
         NEW l, l \in LeftSession, x[l.host] = NotKept,
         NEW r, r = Append(q, l), NEW y, y = [x EXCEPT ![l.host] = l]
  PROVE  r \in Seq(LeftSession) /\ y \in Index /\ Holds(r, y) /\ Len(r) = Len(q) + 1
<1>1. PICK n \in Nat : n = Len(q)
  BY LenProperties
<1>2. /\ r \in Seq(LeftSession) /\ Len(r) = n + 1
      /\ (\A i \in 1..n : r[i] = q[i]) /\ r[n + 1] = l
  BY <1>1, AppendProperties
<1>3. \A j \in 1..n : q[j] \in LeftSession /\ q[j].host \in Conns
  <2>1. \A j \in 1..n : q[j] \in LeftSession
    BY <1>1, ElementOfSeq
  <2>2. \A s \in LeftSession : s.host \in Conns
    BY DEF LeftSession
  <2> QED BY <2>1, <2>2
<1>4. PICK h \in Conns : h = l.host
  BY DEF LeftSession
<1>5. y \in Index /\ \A d \in Conns : y[d] = IF d = h THEN l ELSE x[d]
  BY <1>4 DEF Index
<1>6. /\ \A j \in 1..n : x[q[j].host] = q[j]
      /\ \A j, k \in 1..n : q[j].host = q[k].host => j = k
      /\ \A c \in Conns : x[c] # NotKept => \E j \in 1..n : q[j] = x[c] /\ q[j].host = c
  BY <1>1 DEF Holds
<1>7. \A j \in 1..(n + 1) : j \in 1..n \/ j = n + 1
  BY <1>1
<1>8. \A j \in 1..n : q[j].host # h
  <2> SUFFICES ASSUME NEW j \in 1..n, q[j].host = h PROVE FALSE
    OBVIOUS
  <2>1. q[j] = NotKept
    BY <1>4, <1>6
  <2> QED BY <1>3, <2>1, NotKeptIsNone
<1>9. \A j \in 1..(n + 1) : y[r[j].host] = r[j]
  <2> TAKE j \in 1..(n + 1)
  <2>1. CASE j \in 1..n
    BY <1>2, <1>3, <1>5, <1>6, <1>8, <2>1
  <2>2. CASE j = n + 1
    BY <1>2, <1>4, <1>5, <2>2
  <2> QED BY <1>7, <2>1, <2>2
<1>10. \A j, k \in 1..(n + 1) : r[j].host = r[k].host => j = k
  <2> SUFFICES ASSUME NEW j \in 1..(n + 1), NEW k \in 1..(n + 1), r[j].host = r[k].host PROVE j = k
    OBVIOUS
  <2>1. CASE j \in 1..n /\ k \in 1..n
    BY <1>2, <1>6, <2>1
  <2>2. CASE j \in 1..n /\ k = n + 1
    BY <1>2, <1>4, <1>8, <2>2
  <2>3. CASE j = n + 1 /\ k \in 1..n
    BY <1>2, <1>4, <1>8, <2>3
  <2> QED BY <1>7, <2>1, <2>2, <2>3
<1>11. \A c \in Conns : y[c] # NotKept => \E j \in 1..(n + 1) : r[j] = y[c] /\ r[j].host = c
  <2> SUFFICES ASSUME NEW c \in Conns, y[c] # NotKept
               PROVE  \E j \in 1..(n + 1) : r[j] = y[c] /\ r[j].host = c
    OBVIOUS
  <2>1. CASE c = h
    <3>1. n + 1 \in 1..(n + 1)
      BY <1>1
    <3> QED BY <1>2, <1>4, <1>5, <2>1, <3>1
  <2>2. CASE c # h
    <3>1. PICK j \in 1..n : q[j] = x[c] /\ q[j].host = c
      BY <1>5, <1>6, <2>2
    <3>2. j \in 1..(n + 1)
      BY <1>1
    <3> QED BY <1>2, <1>5, <2>2, <3>1, <3>2
  <2> QED BY <2>1, <2>2
<1>12. Len(r) = n + 1
  BY <1>2
<1> QED BY <1>1, <1>2, <1>5, <1>9, <1>10, <1>11, <1>12 DEF Holds

\* The session that is away the longest is given up.
LEMMA HoldsTail ==
  ASSUME NEW q, q \in Seq(LeftSession), NEW x, x \in Index, Holds(q, x), Len(q) >= 1,
         NEW r, r = Tail(q), NEW y, y = Without(x, q[1].host)
  PROVE  r \in Seq(LeftSession) /\ y \in Index /\ Holds(r, y) /\ Len(r) = Len(q) - 1
<1>1. PICK n \in Nat : n = Len(q) /\ n >= 1
  BY LenProperties
<1>2. q # << >> /\ 1 \in 1..Len(q)
  BY <1>1, EmptySeq
<1>3. r \in Seq(LeftSession) /\ Len(r) = n - 1 /\ \A j \in 1..(n - 1) : r[j] = q[j + 1]
  BY <1>1, <1>2, HeadTailProperties
<1>4. Dropped(q, 1, r)
  <2>1. \A j \in 1..(n - 1) : ~(j < 1)
    OBVIOUS
  <2> QED BY <1>1, <1>3, <2>1 DEF Dropped
<1>5. PICK h \in Conns : h = q[1].host
  <2>1. q[1] \in LeftSession
    BY <1>2, ElementOfSeq
  <2> QED BY <2>1 DEF LeftSession
<1>6. y \in Index /\ Cleared(x, h, y)
  BY <1>5 DEF Index, Without, Cleared
<1>7. Holds(r, y)
  BY <1>2, <1>4, <1>5, <1>6, WithoutOne
<1> QED BY <1>1, <1>3, <1>6, <1>7

With(X, l) == [X EXCEPT ![l.host] = l]
LeftIn(W, l) == (W \ WithId(W, l.id)) \cup {l}
Cut(X, q) == IF Len(q) < KeptMax THEN X ELSE Without(X, q[1].host)
AndOne(k) == IF k < KeptMax THEN k + 1 ELSE k

LEMMA UsageTrackDoes ==
  ASSUME UsageBounds, NEW u, Shaped(u), NEW s, s \in u.active, u.index[s.host] = NotKept,
         NEW t \in Nat, NEW l, l = LeftAt(s, t), NEW r, r = TrackDisconnected(u, s, t)
  PROVE  /\ l \in LeftSession
         /\ Turned(r, u.settled, u.active \ {s}, LeftIn(u.away, l),
                   With(Cut(u.index, u.kept), l), AndOne(Len(u.kept)))
<1>1. u \in Stats /\ Holds(u.kept, u.index) /\ Len(u.kept) <= KeptMax
  BY DEF Shaped
<1>2. PICK q, x, A, W : q = u.kept /\ x = u.index /\ A = u.active \ {s} /\ W = LeftIn(u.away, l)
  OBVIOUS
<1>3. q \in Seq(LeftSession) /\ x \in Index /\ Len(q) \in Nat /\ Len(q) <= KeptMax /\ Holds(q, x)
  BY <1>1, <1>2, StatsFields
<1>4. s \in UsageSession /\ s.host \in Conns
  BY <1>1, StatsFields DEF UsageSession
<1>5. l \in LeftSession /\ l.host = s.host /\ l.id = s.id
  BY <1>4 DEF LeftAt, LeftSession, UsageSession
<1>6. A \subseteq UsageSession /\ W \subseteq LeftSession
  BY <1>1, <1>2, <1>5, StatsFields DEF LeftIn
<1>7. PICK v : v = [u EXCEPT !.active = @ \ {s}]
  OBVIOUS
<1>8. /\ v = [settled |-> u.settled, active |-> A, away |-> u.away, kept |-> q, index |-> x]
      /\ v.settled = u.settled /\ v.active = A /\ v.away = u.away /\ v.kept = q /\ v.index = x
  BY <1>1, <1>2, <1>7 DEF Stats
<1>9. RemoveDisconnected(v, s.host) = v
  BY <1>2, <1>8 DEF RemoveDisconnected
<1>10. PICK p, y : p = Append(q, l) /\ y = With(x, l)
  OBVIOUS
<1>11. p \in Seq(LeftSession) /\ y \in Index /\ Holds(p, y) /\ Len(p) = Len(q) + 1
  <2>1. y = [x EXCEPT ![l.host] = l] /\ x[l.host] = NotKept
    BY <1>2, <1>5, <1>10 DEF With
  <2> QED BY <1>3, <1>5, <1>10, <2>1, HoldsAdded
<1>12. r = LET evicted == IF Len(p) > KeptMax THEN [v EXCEPT !.index[p[1].host] = NotKept] ELSE v
           IN  [evicted EXCEPT !.away = (@ \ WithId(@, s.id)) \cup {l},
                               !.kept = IF Len(p) > KeptMax THEN Tail(p) ELSE p,
                               !.index[s.host] = l]
  <2>1. p = Append(v.kept, l)
    BY <1>8, <1>10
  <2>2. r = LET kept == Append(v.kept, l)
                evicted == IF Len(kept) > KeptMax THEN [v EXCEPT !.index[kept[1].host] = NotKept] ELSE v
            IN  [evicted EXCEPT !.away = (@ \ WithId(@, s.id)) \cup {l},
                                !.kept = IF Len(kept) > KeptMax THEN Tail(kept) ELSE kept,
                                !.index[s.host] = l]
    BY Zenon, <1>7, <1>9 DEF TrackDisconnected, LeftAt
  <2> QED BY Zenon, <2>1, <2>2
<1>13. CASE Len(q) < KeptMax
  <2>1. ~(Len(p) > KeptMax)
    BY <1>3, <1>11, <1>13 DEF UsageBounds
  <2>2. r = [v EXCEPT !.away = (@ \ WithId(@, s.id)) \cup {l}, !.kept = p, !.index[s.host] = l]
    BY <1>12, <2>1
  <2>5. (u.away \ WithId(u.away, s.id)) \cup {l} = W /\ [x EXCEPT ![s.host] = l] = y
    BY <1>2, <1>5, <1>10 DEF LeftIn, With
  <2>3. r = [settled |-> u.settled, active |-> A, away |-> W, kept |-> p, index |-> y]
    BY <1>8, <2>2, <2>5
  <2>4. /\ r \in Stats /\ r.settled = u.settled /\ r.active = A /\ r.away = W
        /\ r.kept = p /\ r.index = y
    BY <1>1, <1>6, <1>11, <2>3, StatsFields DEF Stats
  <2> QED BY <1>2, <1>5, <1>10, <1>11, <1>13, <2>4 DEF Turned, Cut, AndOne
<1>14. CASE ~(Len(q) < KeptMax)
  <2>1. Len(p) > KeptMax /\ Len(q) >= 1 /\ Len(p) >= 1 /\ Len(p) - 1 = Len(q)
    BY <1>3, <1>11, <1>14 DEF UsageBounds
  <2>2. PICK h : h = q[1].host
    OBVIOUS
  <2>3. h \in Conns /\ x[h] # NotKept /\ p[1] = q[1]
    <3>1. 1 \in 1..Len(q) /\ q[1] \in LeftSession
      BY <1>3, <2>1, ElementOfSeq
    <3>2. p[1] = q[1]
      BY <1>3, <1>5, <1>10, <3>1, AppendProperties
    <3>3. x[q[1].host] = q[1]
      BY <1>3, <3>1 DEF Holds
    <3>4. q[1].host \in Conns
      BY <3>1 DEF LeftSession
    <3> QED BY <2>2, <3>1, <3>2, <3>3, <3>4, NotKeptIsNone
  <2>4. h # s.host
    BY <1>2, <2>3
  <2>5. PICK o, z : o = Tail(p) /\ z = Without(y, h)
    OBVIOUS
  <2>6. o \in Seq(LeftSession) /\ z \in Index /\ Holds(o, z) /\ Len(o) = Len(q)
    <3>1. z = Without(y, p[1].host)
      BY <2>2, <2>3, <2>5
    <3> QED BY <1>11, <2>1, <2>5, <3>1, HoldsTail
  <2>7. z = With(Without(x, h), l)
    BY <1>3, <1>5, <1>10, <2>3, <2>4, <2>5 DEF With, Without, Index
  <2>8. r = [[v EXCEPT !.index[h] = NotKept] EXCEPT !.away = (@ \ WithId(@, s.id)) \cup {l},
                                                    !.kept = o, !.index[s.host] = l]
    BY <1>12, <2>1, <2>2, <2>3, <2>5
  <2>11. /\ (u.away \ WithId(u.away, s.id)) \cup {l} = W
         /\ [[x EXCEPT ![h] = NotKept] EXCEPT ![s.host] = l] = z
    BY <1>2, <1>5, <2>7 DEF LeftIn, With, Without
  <2>9. r = [settled |-> u.settled, active |-> A, away |-> W, kept |-> o, index |-> z]
    <3>1. PICK i, w : /\ i = [x EXCEPT ![h] = NotKept]
                      /\ w = [settled |-> u.settled, active |-> A, away |-> u.away,
                              kept |-> q, index |-> i]
      OBVIOUS
    <3>2. [v EXCEPT !.index[h] = NotKept] = w
      BY <1>8, <3>1
    <3>3. r = [w EXCEPT !.away = (@ \ WithId(@, s.id)) \cup {l}, !.kept = o, !.index[s.host] = l]
      BY Zenon, <2>8, <3>2
    <3>4. [i EXCEPT ![s.host] = l] = z
      BY Zenon, <2>11, <3>1
    <3> QED BY <2>11, <3>1, <3>3, <3>4
  <2>10. /\ r \in Stats /\ r.settled = u.settled /\ r.active = A /\ r.away = W
         /\ r.kept = o /\ r.index = z
    BY <1>1, <1>6, <2>6, <2>9, StatsFields DEF Stats
  <2> QED BY <1>2, <1>5, <1>14, <2>2, <2>6, <2>7, <2>10 DEF Turned, Cut, AndOne
<1> QED BY <1>13, <1>14

\* How long sessions have lasted is a number of units.
LEMMA DurationIs ==
  ASSUME NEW S, IsFiniteSet(S), NEW t \in Nat, \A s \in S : s.start \in Nat /\ s.start <= t
  PROVE  Duration(S, t) \in Nat
<1>1. PICK f : f = [s \in S |-> t - s.start]
  OBVIOUS
<1>2. \A s \in S : f[s] \in Nat
  BY <1>1
<1>3. SumFunctionOnSet(f, S) \in Nat
  BY <1>2, SumAdds
<1>4. Duration(S, t) = SumFunctionOnSet(f, S)
  BY <1>1 DEF Duration, SumFunction
<1> QED BY <1>3, <1>4

StartedActive(A, s) == (A \ (HostedBy(A, s.host) \cup WithId(A, s.id))) \cup {s}

LEMMA UsageStartedDoes ==
  ASSUME UsageBounds, NEW u, Shaped(u), NEW s, s \in UsageSession,
         NEW r, r = UsageSessionStarted(u, s)
  PROVE  Turned(r, u.settled, StartedActive(u.active, s),
                u.away \ WithId(u.away, u.index[s.host].id),
                Without(u.index, s.host), Fewer(u.index, s.host, Len(u.kept)))
<1>1. u \in Stats /\ Holds(u.kept, u.index)
  BY DEF Shaped
<1>2. PICK W, A : W = u.away \ WithId(u.away, u.index[s.host].id) /\ A = StartedActive(u.active, s)
  OBVIOUS
<1>3. s.host \in Conns
  BY DEF UsageSession
<1>4. W \subseteq LeftSession /\ A \subseteq UsageSession
  BY <1>1, <1>2, StatsFields DEF StartedActive
<1>5. PICK v : v = [u EXCEPT !.away = W]
  OBVIOUS
<1>6. v \in Stats /\ v.settled = u.settled /\ v.active = u.active /\ v.away = W
      /\ v.kept = u.kept /\ v.index = u.index
  BY <1>1, <1>4, <1>5 DEF Stats
<1>7. PICK g : g = RemoveDisconnected(v, s.host)
  OBVIOUS
<1>8. Turned(g, u.settled, u.active, W, Without(u.index, s.host), Fewer(u.index, s.host, Len(u.kept)))
  <2>1. Holds(v.kept, v.index)
    BY <1>1, <1>6
  <2>2. Turned(g, v.settled, v.active, v.away, Without(v.index, s.host), Fewer(v.index, s.host, Len(v.kept)))
    BY <1>3, <1>6, <1>7, <2>1, RemoveDisconnectedDoes
  <2> QED BY <1>6, <2>2
<1>9. r = [g EXCEPT !.active = A]
  <2>1. v = [u EXCEPT !.away = @ \ WithId(@, u.index[s.host].id)]
    BY <1>1, <1>2, <1>5 DEF Stats
  <2>2. r = [g EXCEPT !.active = (@ \ (HostedBy(@, s.host) \cup WithId(@, s.id))) \cup {s}]
    BY Zenon, <1>7, <2>1 DEF UsageSessionStarted
  <2>3. g.active = u.active /\ g \in Stats
    BY <1>8 DEF Turned
  <2> QED BY <1>2, <2>2, <2>3 DEF StartedActive
<1>10. /\ r \in Stats /\ r.settled = g.settled /\ r.active = A /\ r.away = g.away
       /\ r.kept = g.kept /\ r.index = g.index
  <2>1. g \in Stats
    BY <1>8 DEF Turned
  <2> QED BY <1>4, <1>9, <2>1 DEF Stats
<1> QED BY <1>2, <1>8, <1>10 DEF Turned

EndedSettled(u, n, t) ==
  u.settled + Duration(IF WithId(u.active, n) # {} THEN WithId(u.active, n) ELSE WithId(u.away, n), t)
EndedAway(u, n) == IF WithId(u.active, n) # {} THEN u.away ELSE u.away \ WithId(u.away, n)
EndedIndex(u, n) == IF WithId(u.active, n) # {} THEN u.index ELSE WithoutId(u.index, n)
EndedLen(u, n) == IF WithId(u.active, n) # {} THEN Len(u.kept) ELSE FewerId(u.index, n, Len(u.kept))

LEMMA UsageEndedDoes ==
  ASSUME UsageBounds, NEW u, Shaped(u), NEW n, n \in SessionNos,
         NEW b, NEW t0, Linked(u.active, u.away, u.index), Dated(u.active, u.away, b, t0),
         t0 \in Nat, NEW t, t = t0 + 1, NEW r, r = UsageSessionEnded(u, n, t)
  PROVE  Turned(r, EndedSettled(u, n, t), u.active \ WithId(u.active, n), EndedAway(u, n),
                EndedIndex(u, n), EndedLen(u, n))
<1>1. u \in Stats /\ Holds(u.kept, u.index) /\ IsFiniteSet(u.active) /\ IsFiniteSet(u.away)
  BY DEF Shaped
<1>2. /\ u.settled \in Nat /\ u.active \subseteq UsageSession /\ u.away \subseteq LeftSession
      /\ u.index \in Index /\ t \in Nat
  BY <1>1, StatsFields
<1>3. \A s \in u.active \cup u.away : s.start \in Nat /\ s.start <= t
  <2>1. \A s \in u.active : s.start \in 1..t0
    BY DEF Dated
  <2>2. \A s \in u.away : s.start \in 1..s.left /\ s.left \in 1..t0
    BY DEF Dated
  <2> QED BY <2>1, <2>2
<1>4. CASE WithId(u.active, n) # {}
  <2>1. PICK S : S = WithId(u.active, n)
    OBVIOUS
  <2>2. S \subseteq u.active /\ IsFiniteSet(S)
    BY <1>1, <2>1, FS_Subset DEF WithId
  <2>3. PICK d, A : d = u.settled + Duration(S, t) /\ A = u.active \ S
    OBVIOUS
  <2>4. d \in Nat /\ A \subseteq UsageSession
    <3>1. Duration(S, t) \in Nat
      BY <1>2, <1>3, <2>2, DurationIs
    <3> QED BY <1>2, <2>3, <3>1
  <2>5. r = [u EXCEPT !.settled = d, !.active = A]
    BY <1>4, <2>1, <2>3 DEF UsageSessionEnded
  <2>6. /\ r \in Stats /\ r.settled = d /\ r.active = A /\ r.away = u.away
        /\ r.kept = u.kept /\ r.index = u.index
    BY <1>1, <2>4, <2>5 DEF Stats
  <2>7. EndedSettled(u, n, t) = d /\ EndedAway(u, n) = u.away /\ EndedIndex(u, n) = u.index
        /\ EndedLen(u, n) = Len(u.kept)
    BY <1>4, <2>1, <2>3 DEF EndedSettled, EndedAway, EndedIndex, EndedLen
  <2> QED BY <1>1, <2>1, <2>3, <2>6, <2>7 DEF Turned
<1>5. CASE WithId(u.active, n) = {}
  <2>1. PICK S : S = WithId(u.away, n)
    OBVIOUS
  <2>2. S \subseteq u.away /\ IsFiniteSet(S)
    BY <1>1, <2>1, FS_Subset DEF WithId
  <2>3. PICK d, W : d = u.settled + Duration(S, t) /\ W = u.away \ S
    OBVIOUS
  <2>4. d \in Nat /\ W \subseteq LeftSession
    <3>1. Duration(S, t) \in Nat
      BY <1>2, <1>3, <2>2, DurationIs
    <3> QED BY <1>2, <2>3, <3>1
  <2>5. PICK v : v = [u EXCEPT !.settled = d, !.away = W]
    OBVIOUS
  <2>6. /\ v \in Stats /\ v.settled = d /\ v.active = u.active /\ v.away = W
        /\ v.kept = u.kept /\ v.index = u.index
    BY <1>1, <2>4, <2>5 DEF Stats
  <2>7. EndedSettled(u, n, t) = d /\ EndedAway(u, n) = W /\ EndedIndex(u, n) = WithoutId(u.index, n)
        /\ EndedLen(u, n) = FewerId(u.index, n, Len(u.kept))
    BY <1>5, <2>1, <2>3 DEF EndedSettled, EndedAway, EndedIndex, EndedLen
  <2>8. u.active \ WithId(u.active, n) = u.active
    BY <1>5
  <2>9. \A c \in Conns : u.index[c].id = n => u.index[c] \in S /\ u.index[c].host = c /\ b[n].host = c
    <3> TAKE c \in Conns
    <3> HAVE u.index[c].id = n
    <3>1. u.index[c] # NotKept
      BY DEF NotKept, UsageBounds
    <3>2. u.index[c] \in u.away /\ u.index[c].host = c
      BY <3>1 DEF Linked
    <3> QED BY <2>1, <3>2 DEF WithId, Dated, Began
  <2>10. CASE S = {}
    <3>1. r = u
      BY <1>5, <2>1, <2>10 DEF UsageSessionEnded
    <3>2. Duration({}, t) = 0
      <4>1. PICK f : f = [s \in {} |-> t - s.start]
        OBVIOUS
      <4>2. SumFunctionOnSet(f, {}) = 0
        BY SumStep, FS_EmptySet
      <4> QED BY <4>1, <4>2 DEF Duration, SumFunction
    <3>3. d = u.settled /\ W = u.away
      BY <1>2, <2>3, <2>10, <3>2
    <3>4. u.index = WithoutId(u.index, n) /\ FewerId(u.index, n, Len(u.kept)) = Len(u.kept)
      BY <1>2, <2>9, <2>10 DEF WithoutId, FewerId, Index
    <3> QED BY <1>1, <2>7, <2>8, <3>1, <3>3, <3>4 DEF Turned
  <2>11. CASE S # {}
    <3>1. r = RemoveDisconnectedId(v, n)
      BY <1>5, <2>1, <2>3, <2>5, <2>11 DEF UsageSessionEnded
    <3>2. \A c, d2 \in Conns : v.index[c].id = n /\ v.index[d2].id = n => c = d2
      BY <2>6, <2>9
    <3>3. Holds(v.kept, v.index)
      BY <1>1, <2>6
    <3>4. Turned(r, v.settled, v.active, v.away, WithoutId(v.index, n), FewerId(v.index, n, Len(v.kept)))
      BY <2>6, <3>1, <3>2, <3>3, RemoveDisconnectedIdDoes
    <3> QED BY <2>6, <2>7, <2>8, <3>4
  <2> QED BY <2>10, <2>11
<1> QED BY <1>4, <1>5

LEMMA UsageConnectedDoes ==
  ASSUME UsageBounds, NEW u, Shaped(u), NEW c, c \in Conns, NEW x, x = u.index[c], x # NotKept,
         NEW r, r = UsageClientConnected(u, c), x.host = c
  PROVE  Turned(r, u.settled, u.active \cup {Bare(x)}, u.away \ WithId(u.away, x.id),
                Without(u.index, c), Fewer(u.index, c, Len(u.kept)))
<1>1. u \in Stats /\ Holds(u.kept, u.index)
  BY DEF Shaped
<1>2. PICK A, W : A = u.active \cup {Bare(x)} /\ W = u.away \ WithId(u.away, x.id)
  OBVIOUS
<1>3. x \in LeftSession /\ Bare(x) \in UsageSession
  <2>1. x \in LeftSession
    BY <1>1, StatsFields
  <2> QED BY <2>1 DEF Bare, LeftSession, UsageSession
<1>4. A \subseteq UsageSession /\ W \subseteq LeftSession
  BY <1>1, <1>2, <1>3, StatsFields
<1>5. PICK g : g = RemoveDisconnected(u, c)
  OBVIOUS
<1>6. Turned(g, u.settled, u.active, u.away, Without(u.index, c), Fewer(u.index, c, Len(u.kept)))
  BY <1>1, <1>5, RemoveDisconnectedDoes
<1>7. g \in Stats /\ g.active = u.active /\ g.away = u.away /\ g.settled = u.settled
  BY <1>6 DEF Turned
<1>8. r = [g EXCEPT !.away = W, !.active = A]
  <2>1. r = [g EXCEPT !.away = @ \ WithId(@, x.id),
                      !.active = @ \cup {[id |-> x.id, host |-> c, start |-> x.start]}]
    BY <1>5 DEF UsageClientConnected
  <2>2. Bare(x) = [id |-> x.id, host |-> c, start |-> x.start]
    BY DEF Bare
  <2> QED BY <1>2, <1>7, <2>1, <2>2
<1>9. /\ r \in Stats /\ r.settled = g.settled /\ r.active = A /\ r.away = W
      /\ r.kept = g.kept /\ r.index = g.index
  BY <1>4, <1>7, <1>8 DEF Stats
<1> QED BY <1>2, <1>6, <1>9 DEF Turned

LEMMA CleanDoes ==
  ASSUME UsageBounds, NEW u, Shaped(u), NEW c, c \in Conns, NEW S, S = HostedBy(u.active, c),
         S # {}, NEW b, NEW t0, Dated(u.active, u.away, b, t0), t0 \in Nat, NEW t, t = t0 + 1,
         NEW r, r = UsageClientDisconnected(u, c, TRUE, t)
  PROVE  Turned(r, u.settled + Duration(S, t), u.active \ S, u.away, u.index, Len(u.kept))
<1>1. u \in Stats /\ Holds(u.kept, u.index) /\ IsFiniteSet(u.active)
  BY DEF Shaped
<1>2. PICK d, A : d = u.settled + Duration(S, t) /\ A = u.active \ S
  OBVIOUS
<1>3. d \in Nat /\ A \subseteq UsageSession
  <2>1. S \subseteq u.active /\ IsFiniteSet(S)
    BY <1>1, FS_Subset DEF HostedBy
  <2>2. t \in Nat /\ \A s \in S : s.start \in Nat /\ s.start <= t
    <3>1. \A s \in u.active : s.start \in 1..t0
      BY DEF Dated
    <3> QED BY <2>1, <3>1
  <2>3. Duration(S, t) \in Nat
    BY <2>1, <2>2, DurationIs
  <2> QED BY <1>1, <1>2, <2>3, StatsFields
<1>4. r = [u EXCEPT !.settled = d, !.active = A]
  BY <1>2 DEF UsageClientDisconnected
<1>5. /\ r \in Stats /\ r.settled = d /\ r.active = A /\ r.away = u.away
      /\ r.kept = u.kept /\ r.index = u.index
  BY <1>1, <1>3, <1>4 DEF Stats
<1> QED BY <1>1, <1>2, <1>5 DEF Turned

\* What the invariant says of sets of sessions, from operation to operation.
LEMMA SoundFields ==
  ASSUME UsageBounds, NEW A, NEW W, NEW X, NEW b, NEW t, Sound(A, W, X, b, t)
  PROVE  /\ \A s \in A : /\ s \in UsageSession /\ s.id \in SessionNos /\ s.host \in Conns
                         /\ s.id # 0 /\ X[s.host] = NotKept
                         /\ b[s.id].host = s.host /\ b[s.id].start = s.start /\ s.start \in 1..t
         /\ \A s \in W : /\ s \in LeftSession /\ s.id \in SessionNos /\ s.host \in Conns
                         /\ s.id # 0 /\ s # NotKept
                         /\ b[s.id].host = s.host /\ b[s.id].start = s.start
                         /\ s.start \in 1..s.left /\ s.left \in 1..t
         /\ \A s, r \in A : s.host = r.host => s = r
         /\ \A s, r \in A : s.id = r.id => s = r
         /\ \A c \in Conns : X[c] # NotKept => X[c] \in W /\ X[c].host = c
<1>1. \A s \in A : s \in UsageSession /\ s.id \in SessionNos /\ s.host \in Conns /\ s.id # 0
  BY DEF Sound, UsageSession, UsageBounds
<1>2. \A s \in W : s \in LeftSession /\ s.id \in SessionNos /\ s.host \in Conns
  BY DEF Sound, LeftSession
<1>3. \A s \in W : s # NotKept /\ s.id # 0
  BY <1>2, NotKeptIsNone
<1>4. /\ \A s \in A : b[s.id].host = s.host /\ b[s.id].start = s.start /\ s.start \in 1..t
      /\ \A s \in W : b[s.id].host = s.host /\ b[s.id].start = s.start
                      /\ s.start \in 1..s.left /\ s.left \in 1..t
  BY DEF Sound, Dated, Began
<1>5. /\ \A s, r \in A : s.host = r.host => s = r
      /\ \A s \in A : X[s.host] = NotKept
      /\ \A c \in Conns : X[c] # NotKept => X[c] \in W /\ X[c].host = c
  BY DEF Sound, Linked
<1>6. \A s, r \in A : s.id = r.id => s = r
  BY <1>4, <1>5
<1> QED BY <1>1, <1>2, <1>3, <1>4, <1>5, <1>6

LEMMA SoundLater ==
  ASSUME NEW A, NEW W, NEW X, NEW b, NEW t \in Nat, Sound(A, W, X, b, t), NEW c,
         \A s \in UsageSession \cup LeftSession : Began(b, s) => Began(c, s)
  PROVE  Sound(A, W, X, c, t + 1)
<1>1. \A s \in A : Began(c, s) /\ s.start \in 1..(t + 1)
  BY DEF Sound, Dated
<1>2. \A s \in W : Began(c, s) /\ s.start \in 1..s.left /\ s.left \in 1..(t + 1)
  BY DEF Sound, Dated
<1> QED BY <1>1, <1>2 DEF Sound, Dated

LEMMA FewerSound ==
  ASSUME NEW A, NEW W, NEW X, NEW b, NEW t, Sound(A, W, X, b, t), NEW B, B \subseteq A
  PROVE  Sound(B, W, X, b, t) /\ (CountsOnce(A, W) => CountsOnce(B, W))
<1>1. Linked(B, W, X) /\ Dated(B, W, b, t)
  BY DEF Sound, Linked, Dated
<1>2. B \subseteq UsageSession
  BY DEF Sound
<1>3. CountsOnce(A, W) => CountsOnce(B, W)
  BY DEF CountsOnce
<1> QED BY <1>1, <1>2, <1>3 DEF Sound

LEMMA TrackSound ==
  ASSUME UsageBounds, NEW A, NEW W, NEW X, NEW b, NEW t \in Nat, Sound(A, W, X, b, t),
         NEW s, s \in A, NEW l, l = LeftAt(s, t),
         NEW Y, Y \in Index, \A d \in Conns : Y[d] = X[d] \/ Y[d] = NotKept,
         NEW V, V = LeftIn(W, l), NEW Z, Z = With(Y, l)
  PROVE  /\ Sound(A \ {s}, V, Z, b, t)
         /\ CountsOnce(A, W) => CountsOnce(A \ {s}, V) /\ V = W \cup {l}
         /\ AllKept(W, X) /\ Y = X => AllKept(V, Z)
<1>1. /\ s \in UsageSession /\ s.id \in SessionNos /\ s.host \in Conns /\ X[s.host] = NotKept
      /\ s.start \in 1..t /\ b[s.id].host = s.host /\ b[s.id].start = s.start
  BY SoundFields
<1>2. /\ l.id = s.id /\ l.host = s.host /\ l.start = s.start /\ l.left = t /\ l \in LeftSession
  BY <1>1 DEF LeftAt, LeftSession
<1>3. Z \in Index /\ \A d \in Conns : Z[d] = IF d = s.host THEN l ELSE Y[d]
  BY <1>1, <1>2 DEF With, Index
<1>4. \A w : w \in V <=> (w \in W /\ w.id # s.id) \/ w = l
  BY <1>2 DEF LeftIn, WithId
<1>5. Linked(A \ {s}, V, Z)
  <2>1. \A r \in A \ {s} : Z[r.host] = NotKept
    BY <1>3, SoundFields
  <2>2. ASSUME NEW c \in Conns, Z[c] # NotKept PROVE Z[c] \in V /\ Z[c].host = c
    <3>1. CASE c = s.host
      BY <1>2, <1>3, <1>4, <3>1
    <3>2. CASE c # s.host
      <4>1. Z[c] = X[c] /\ X[c] \in W /\ X[c].host = c
        BY <1>3, <2>2, <3>2, SoundFields
      <4>2. X[c].id # s.id
        BY <1>1, <3>2, <4>1, SoundFields
      <4> QED BY <1>4, <4>1, <4>2
    <3> QED BY <3>1, <3>2
  <2>3. \A r, q \in A \ {s} : r.host = q.host => r = q
    BY SoundFields
  <2> QED BY <2>1, <2>2, <2>3 DEF Linked
<1>6. Dated(A \ {s}, V, b, t)
  <2>1. Began(b, l) /\ l.start \in 1..l.left /\ l.left \in 1..t
    BY <1>1, <1>2 DEF Began
  <2>2. \A w \in W : Began(b, w) /\ w.start \in 1..w.left /\ w.left \in 1..t
    BY DEF Sound, Dated
  <2>3. \A r \in A \ {s} : Began(b, r) /\ r.start \in 1..t
    BY DEF Sound, Dated
  <2> QED BY <1>4, <2>1, <2>2, <2>3 DEF Dated
<1>7. ASSUME CountsOnce(A, W) PROVE CountsOnce(A \ {s}, V) /\ V = W \cup {l}
  <2>1. \A w \in W : w.id # s.id
    BY <1>7 DEF CountsOnce, WithId
  <2>2. \A r \in A \ {s} : \A w \in V : w.id # r.id
    <3>1. \A r \in A \ {s} : r.id # s.id
      BY SoundFields
    <3>2. \A r \in A \ {s} : \A w \in W : w.id # r.id
      BY <1>7 DEF CountsOnce, WithId
    <3> QED BY <1>2, <1>4, <3>1, <3>2
  <2> QED BY <1>4, <2>1, <2>2 DEF CountsOnce, WithId
<1>8. ASSUME AllKept(W, X), Y = X PROVE AllKept(V, Z)
  <2>1. \A w \in W : w.host # s.host /\ w.host \in Conns /\ X[w.host] = w
    BY <1>1, <1>8, SoundFields DEF AllKept
  <2> QED BY <1>1, <1>2, <1>3, <1>4, <1>8, <2>1 DEF AllKept
<1>9. V \subseteq LeftSession /\ A \ {s} \subseteq UsageSession
  BY <1>2, <1>4 DEF Sound
<1> QED BY <1>3, <1>5, <1>6, <1>7, <1>8, <1>9 DEF Sound

\* V: what stays away when a session starts.
LEMMA StartSound ==
  ASSUME UsageBounds, NEW A, NEW W, NEW X, NEW b, NEW t \in Nat, Sound(A, W, X, b, t),
         NEW s, s \in UsageSession, Began(b, s), s.start \in 1..t,
         NEW B, B = StartedActive(A, s), NEW V, V \subseteq W,
         \A w \in W : w.host # s.host => w \in V,
         NEW Z, Z = Without(X, s.host)
  PROVE  /\ Sound(B, V, Z, b, t)
         /\ CountsOnce(A, W) /\ (\A w \in V : w.id # s.id) => CountsOnce(B, V)
         /\ AllKept(W, X) /\ X[s.host] \notin V => AllKept(V, Z)
<1>1. s.host \in Conns
  BY DEF UsageSession
<1>2. Z \in Index /\ \A d \in Conns : Z[d] = IF d = s.host THEN NotKept ELSE X[d]
  BY <1>1 DEF Sound, Without, Index
<1>3. \A r : r \in B <=> (r \in A /\ r.host # s.host /\ r.id # s.id) \/ r = s
  BY DEF StartedActive, HostedBy, WithId
<1>4. Linked(B, V, Z)
  <2>1. \A r, q \in B : r.host = q.host => r = q
    BY <1>3, SoundFields
  <2>2. \A r \in B : Z[r.host] = NotKept
    BY <1>1, <1>2, <1>3, SoundFields
  <2>3. \A c \in Conns : Z[c] # NotKept => Z[c] \in V /\ Z[c].host = c
    <3> TAKE c \in Conns
    <3> HAVE Z[c] # NotKept
    <3>1. c # s.host /\ Z[c] = X[c] /\ X[c] # NotKept
      BY <1>2
    <3>2. X[c] \in W /\ X[c].host = c
      BY <3>1, SoundFields
    <3> QED BY <3>1, <3>2
  <2> QED BY <2>1, <2>2, <2>3 DEF Linked
<1>5. Dated(B, V, b, t)
  BY <1>3 DEF Sound, Dated
<1>6. CountsOnce(A, W) /\ (\A w \in V : w.id # s.id) => CountsOnce(B, V)
  BY <1>3 DEF CountsOnce, WithId
<1>7. ASSUME AllKept(W, X), X[s.host] \notin V PROVE AllKept(V, Z)
  <2>1. \A w \in V : w \in W /\ X[w.host] = w /\ w.host \in Conns
    BY <1>7, SoundFields DEF AllKept
  <2> QED BY <1>2, <1>7, <2>1 DEF AllKept
<1>8. B \subseteq UsageSession /\ V \subseteq LeftSession
  BY <1>3 DEF Sound
<1> QED BY <1>2, <1>4, <1>5, <1>6, <1>7, <1>8 DEF Sound

LEMMA EndSound ==
  ASSUME UsageBounds, NEW A, NEW W, NEW X, NEW b, NEW t, Sound(A, W, X, b, t),
         NEW n, n \in SessionNos, NEW V, V = W \ WithId(W, n), NEW Z, Z = WithoutId(X, n)
  PROVE  /\ Sound(A, V, Z, b, t)
         /\ CountsOnce(A, W) => CountsOnce(A, V)
         /\ AllKept(W, X) => AllKept(V, Z)
<1>0. X \in Index /\ NotKept \in LeftSession \cup {NotKept}
  BY DEF Sound
<1>1. Z \in Index /\ \A d \in Conns : Z[d] = IF X[d].id = n THEN NotKept ELSE X[d]
  BY <1>0 DEF WithoutId, Index
<1>2. \A w : w \in V <=> w \in W /\ w.id # n
  BY DEF WithId
<1>3. Linked(A, V, Z)
  <2>1. \A r \in A : Z[r.host] = NotKept
    BY <1>1, SoundFields
  <2>2. \A c \in Conns : Z[c] # NotKept => Z[c] \in V /\ Z[c].host = c
    BY <1>1, <1>2, SoundFields
  <2> QED BY <2>1, <2>2, SoundFields DEF Linked
<1>4. Dated(A, V, b, t)
  BY <1>2 DEF Sound, Dated
<1>5. CountsOnce(A, W) => CountsOnce(A, V)
  BY <1>2 DEF CountsOnce, WithId
<1>6. AllKept(W, X) => AllKept(V, Z)
  <2> HAVE AllKept(W, X)
  <2>1. \A w \in V : w \in W /\ X[w.host] = w /\ w.host \in Conns /\ w.id # n
    BY <1>2, SoundFields DEF AllKept
  <2> QED BY <1>1, <2>1 DEF AllKept
<1>7. V \subseteq LeftSession
  BY <1>2 DEF Sound
<1> QED BY <1>1, <1>3, <1>4, <1>5, <1>6, <1>7 DEF Sound

\* The session x of connection c comes back: A, W and X become B, V and Z.
ComesBack(A, W, X, c, x, B, V, Z) ==
  /\ c \in Conns /\ x = X[c] /\ x # NotKept
  /\ B = A \cup {Bare(x)} /\ V = W \ WithId(W, x.id) /\ Z = Without(X, c)

LEMMA ConnectSound ==
  ASSUME UsageBounds, NEW A, NEW W, NEW X, NEW b, NEW t \in Nat, Sound(A, W, X, b, t),
         NEW c, NEW x, NEW B, NEW V, NEW Z, ComesBack(A, W, X, c, x, B, V, Z)
  PROVE  /\ Sound(B, V, Z, b, t)
         /\ CountsOnce(A, W) => CountsOnce(B, V)
         /\ AllKept(W, X) => AllKept(V, Z) /\ W = V \cup {x}
<1> USE DEF ComesBack
<1>0. x \in W /\ x.host = c /\ b[x.id].host = c /\ b[x.id].start = x.start
      /\ x.start \in 1..x.left /\ x.left \in 1..t /\ x \in LeftSession
  BY SoundFields
<1>1. Bare(x) \in UsageSession /\ Bare(x).id = x.id /\ Bare(x).host = c /\ Bare(x).start = x.start
  BY <1>0 DEF Bare, LeftSession, UsageSession
<1>2. Z \in Index /\ \A d \in Conns : Z[d] = IF d = c THEN NotKept ELSE X[d]
  BY DEF Sound, Without, Index
<1>3. \A w : w \in V <=> w \in W /\ w.id # x.id
  BY DEF WithId
<1>4. Linked(B, V, Z)
  <2>1. \A r \in A : r.host # c /\ r.host \in Conns
    BY SoundFields
  <2>2. \A r, q \in B : r.host = q.host => r = q
    BY <1>1, <2>1, SoundFields
  <2>3. \A r \in B : Z[r.host] = NotKept
    BY <1>1, <1>2, <2>1, SoundFields
  <2>4. \A d \in Conns : Z[d] # NotKept => Z[d] \in V /\ Z[d].host = d
    <3> TAKE d \in Conns
    <3> HAVE Z[d] # NotKept
    <3>1. d # c /\ Z[d] = X[d] /\ X[d] \in W /\ X[d].host = d
      BY <1>2, SoundFields
    <3>2. b[X[d].id].host = d
      BY <3>1, SoundFields
    <3>3. X[d].id # x.id
      BY <1>0, <3>1, <3>2
    <3> QED BY <1>3, <3>1, <3>3
  <2> QED BY <2>2, <2>3, <2>4 DEF Linked
<1>5. Dated(B, V, b, t)
  <2>1. Began(b, Bare(x)) /\ Bare(x).start \in 1..t
    BY <1>0, <1>1 DEF Began
  <2> QED BY <1>3, <2>1 DEF Sound, Dated
<1>6. CountsOnce(A, W) => CountsOnce(B, V)
  BY <1>1, <1>3 DEF CountsOnce, WithId
<1>7. ASSUME AllKept(W, X) PROVE AllKept(V, Z) /\ W = V \cup {x}
  <2>1. \A w \in W : X[w.host] = w /\ w.host \in Conns /\ b[w.id].host = w.host
    BY <1>7, SoundFields DEF AllKept
  <2>2. \A w \in W : w.id = x.id => w = x
    BY <1>0, <2>1
  <2>3. \A w \in V : w.host # c
    BY <1>3, <2>1
  <2>4. AllKept(V, Z)
    BY <1>2, <1>3, <2>1, <2>3 DEF AllKept
  <2>5. W = V \cup {x}
    BY <1>0, <1>3, <2>2
  <2> QED BY <2>4, <2>5
<1>8. B \subseteq UsageSession /\ V \subseteq LeftSession
  BY <1>1, <1>3 DEF Sound
<1> QED BY <1>2, <1>4, <1>5, <1>6, <1>7, <1>8 DEF Sound

\* What fullstate knows, from operation to operation.

LEMMA FullFields ==
  ASSUME NEW f, f \in FullStats
  PROVE  /\ f = [settled |-> f.settled, sessions |-> f.sessions, downs |-> f.downs]
         /\ f.settled \in Nat /\ f.sessions \subseteq UsageSession /\ f.downs \in [Conns -> Nat]
BY DEF FullStats

LEMMA KnowsFields ==
  ASSUME UsageBounds, NEW A, NEW W, NEW X, NEW b, NEW t, Sound(A, W, X, b, t),
         AllKept(W, X), NEW f, NEW z, FullKnows(f, z, A, W)
  PROVE  /\ f.settled = z
         /\ \A s : s \in f.sessions <=> s \in A \/ \E w \in W : s = Bare(w)
         /\ \A s \in A : f.downs[s.host] = 0
         /\ \A w \in W : /\ f.downs[w.host] = w.left /\ w.left # 0 /\ X[w.host] = w
                         /\ Bare(w).id = w.id /\ Bare(w).host = w.host /\ Bare(w).start = w.start
         /\ \A s \in A : \A w \in W : s.host # w.host
         /\ \A w, v \in W : Bare(w) = Bare(v) => w = v
<1>1. \A w \in W : Bare(w).id = w.id /\ Bare(w).host = w.host /\ Bare(w).start = w.start
  BY DEF Bare
<1>2. \A w \in W : f.downs[w.host] = w.left /\ w.left # 0 /\ X[w.host] = w
  BY SoundFields DEF FullKnows, AllKept
<1>3. \A s \in A : \A w \in W : s.host # w.host
  BY <1>2, SoundFields
<1>4. \A w, v \in W : Bare(w) = Bare(v) => w = v
  BY <1>1, <1>2
<1>5. f.settled = z /\ (\A s \in A : f.downs[s.host] = 0)
      /\ \A s : s \in f.sessions <=> s \in A \/ \E w \in W : s = Bare(w)
  BY DEF FullKnows
<1> QED BY <1>1, <1>2, <1>3, <1>4, <1>5

LEMMA KnowsIs ==
  ASSUME NEW f, NEW z, NEW A, NEW W, f.settled = z,
         \A s : s \in f.sessions <=> s \in A \/ \E w \in W : s = Bare(w),
         \A s \in A : f.downs[s.host] = 0, \A w \in W : f.downs[w.host] = w.left
  PROVE  FullKnows(f, z, A, W)
<1>1. f.sessions = A \cup {Bare(s) : s \in W}
  OBVIOUS
<1> QED BY <1>1 DEF FullKnows

LEMMA KnowsStarted ==
  ASSUME UsageBounds, NEW A, NEW W, NEW X, NEW b, NEW t, Sound(A, W, X, b, t),
         AllKept(W, X), NEW f, f \in FullStats, NEW z, FullKnows(f, z, A, W),
         NEW s, s \in UsageSession, f.downs[s.host] = 0, b[s.id].host \in {s.host, "none"},
         NEW g, g = FullSessionStarted(f, s)
  PROVE  /\ \A w \in W : w.host # s.host /\ w.id # s.id
         /\ FullKnows(g, z, StartedActive(A, s), W)
<1>1. \A w \in W : w.host # s.host
  BY KnowsFields
<1>2. \A w \in W : w.id # s.id
  BY <1>1, SoundFields DEF UsageBounds
<1>3. \A r : r \in StartedActive(A, s) <=> (r \in A /\ r.host # s.host /\ r.id # s.id) \/ r = s
  BY DEF StartedActive, HostedBy, WithId
<1>4. /\ g.settled = f.settled /\ g.downs = f.downs
      /\ g.sessions = (f.sessions \ (HostedBy(f.sessions, s.host) \cup WithId(f.sessions, s.id))) \cup {s}
  BY FullFields DEF FullSessionStarted
<1>5. \A r : r \in g.sessions <=> (r \in f.sessions /\ r.host # s.host /\ r.id # s.id) \/ r = s
  BY <1>4 DEF HostedBy, WithId
<1>6. \A r : r \in g.sessions <=> r \in StartedActive(A, s) \/ \E w \in W : r = Bare(w)
  <2> TAKE r
  <2>1. \A w \in W : r = Bare(w) => r.host = w.host /\ r.id = w.id
    BY KnowsFields
  <2>2. r \in f.sessions <=> r \in A \/ \E w \in W : r = Bare(w)
    BY KnowsFields
  <2> QED BY <1>1, <1>2, <1>3, <1>5, <2>1, <2>2
<1>7. \A r \in StartedActive(A, s) : g.downs[r.host] = 0
  BY <1>3, <1>4, KnowsFields
<1>8. (\A w \in W : g.downs[w.host] = w.left) /\ g.settled = z
  BY <1>4, KnowsFields
<1> QED BY <1>1, <1>2, <1>6, <1>7, <1>8, KnowsIs

LEMMA KnowsConnected ==
  ASSUME UsageBounds, NEW A, NEW W, NEW X, NEW b, NEW t \in Nat, Sound(A, W, X, b, t),
         AllKept(W, X), NEW f, f \in FullStats, NEW z, FullKnows(f, z, A, W),
         NEW c, c \in Conns, NEW x, x = X[c], NEW g, g = FullClientConnected(f, c)
  PROVE  /\ x = NotKept => FullKnows(g, z, A, W)
         /\ x # NotKept => FullKnows(g, z, A \cup {Bare(x)}, W \ WithId(W, x.id))
<1>1. g.settled = z /\ g.sessions = f.sessions /\ \A d \in Conns : g.downs[d] = IF d = c THEN 0 ELSE f.downs[d]
  BY FullFields, KnowsFields DEF FullClientConnected
<1>2. /\ \A s \in A : s.host \in Conns /\ f.downs[s.host] = 0
      /\ \A w \in W : w.host \in Conns /\ f.downs[w.host] = w.left /\ X[w.host] = w /\ w # NotKept
  BY KnowsFields, SoundFields
<1>3. \A s : s \in f.sessions <=> s \in A \/ \E w \in W : s = Bare(w)
  BY KnowsFields
<1>4. ASSUME x = NotKept PROVE FullKnows(g, z, A, W)
  <2>1. ASSUME NEW w \in W PROVE g.downs[w.host] = w.left
    <3>1. w.host \in Conns /\ f.downs[w.host] = w.left /\ X[w.host] = w /\ w # NotKept
      BY <1>2
    <3>2. w.host # c
      BY <1>4, <3>1
    <3> QED BY <1>1, <3>1, <3>2
  <2>2. \A s \in A : g.downs[s.host] = 0
    BY <1>1, <1>2
  <2> QED BY <1>1, <1>3, <2>1, <2>2, KnowsIs
<1>5. ASSUME x # NotKept PROVE FullKnows(g, z, A \cup {Bare(x)}, W \ WithId(W, x.id))
  <2>1. PICK B, V : B = A \cup {Bare(x)} /\ V = W \ WithId(W, x.id)
    OBVIOUS
  <2>2. W = V \cup {x} /\ x \in W /\ x.host = c /\ x \notin V
    <3>1. PICK Z : Z = Without(X, c)
      OBVIOUS
    <3>2. ComesBack(A, W, X, c, x, B, V, Z)
      BY <1>5, <2>1, <3>1 DEF ComesBack
    <3>3. W = V \cup {x}
      BY <3>2, ConnectSound
    <3> QED BY <1>5, <2>1, <3>3, SoundFields DEF WithId
  <2>3. \A s : s \in g.sessions <=> s \in B \/ \E w \in V : s = Bare(w)
    BY <1>1, <1>3, <2>1, <2>2
  <2>4. \A s \in B : g.downs[s.host] = 0
    <3>1. Bare(x).host = c
      BY <2>2 DEF Bare
    <3> QED BY <1>1, <1>2, <2>1, <3>1
  <2>5. \A w \in V : g.downs[w.host] = w.left
    <3>1. \A w \in V : w \in W /\ w.host # c
      BY <1>2, <2>2
    <3> QED BY <1>1, <1>2, <3>1
  <2>6. FullKnows(g, z, B, V)
    BY <1>1, <2>3, <2>4, <2>5, KnowsIs
  <2> QED BY <2>1, <2>6
<1> QED BY <1>4, <1>5

\* The sessions S are left at the time r.
AllLeft(f, g, S, r, W, V) ==
  /\ g.settled = f.settled /\ g.sessions = f.sessions
  /\ \A c \in Conns : g.downs[c] = IF HostedBy(S, c) # {} THEN r ELSE f.downs[c]
  /\ V = W \cup {LeftAt(s, r) : s \in S}

LEMMA KnowsTracked ==
  ASSUME UsageBounds, NEW A, NEW W, NEW X, NEW b, NEW t \in Nat, Sound(A, W, X, b, t),
         AllKept(W, X), NEW f, f \in FullStats, NEW z, FullKnows(f, z, A, W),
         NEW S, S \subseteq A, NEW r \in Nat, NEW g, NEW V, AllLeft(f, g, S, r, W, V)
  PROVE  FullKnows(g, z, A \ S, V)
<1>0. /\ g.settled = f.settled /\ g.sessions = f.sessions
      /\ \A c \in Conns : g.downs[c] = IF HostedBy(S, c) # {} THEN r ELSE f.downs[c]
      /\ V = W \cup {LeftAt(s, r) : s \in S}
  BY DEF AllLeft
<1>1. \A s \in A : Bare(LeftAt(s, r)) = s /\ LeftAt(s, r).host = s.host /\ LeftAt(s, r).left = r
  BY DEF Sound, Bare, LeftAt, UsageSession
<1>2. PICK B : B = A \ S
  OBVIOUS
<1>3. \A s : s \in g.sessions <=> s \in B \/ \E w \in V : s = Bare(w)
  <2> TAKE s
  <2>1. s \in g.sessions <=> s \in A \/ \E w \in W : s = Bare(w)
    BY <1>0, KnowsFields
  <2>2. s \in S => \E w \in V : s = Bare(w)
    BY <1>0, <1>1
  <2>3. \A w \in V : s = Bare(w) => s \in S \/ \E v \in W : s = Bare(v)
    BY <1>0, <1>1
  <2>4. \A v \in W : v \in V
    BY <1>0
  <2> QED BY <1>2, <2>1, <2>2, <2>3, <2>4
<1>4. \A s \in B : g.downs[s.host] = 0
  <2> TAKE s \in B
  <2>1. s \in A /\ s \notin S /\ s.host \in Conns /\ f.downs[s.host] = 0
    BY <1>2, SoundFields, KnowsFields
  <2>2. HostedBy(S, s.host) = {}
    <3>1. \A q \in S : q.host # s.host
      BY <2>1, SoundFields
    <3> QED BY <3>1 DEF HostedBy
  <2> QED BY <1>0, <2>1, <2>2
<1>5. \A w \in V : g.downs[w.host] = w.left
  <2> TAKE w \in V
  <2>1. CASE w \in W
    <3>1. w.host \in Conns /\ f.downs[w.host] = w.left
      BY <2>1, SoundFields, KnowsFields
    <3>2. \A q \in S : q.host # w.host
      BY <2>1, KnowsFields
    <3>3. HostedBy(S, w.host) = {}
      BY <3>2 DEF HostedBy
    <3> QED BY <1>0, <3>1, <3>3
  <2>2. CASE w \notin W
    <3>1. PICK s \in S : w = LeftAt(s, r)
      BY <1>0, <2>2
    <3>2. w.host = s.host /\ w.left = r /\ s.host \in Conns
      BY <1>1, <3>1, SoundFields
    <3>3. s \in HostedBy(S, s.host)
      BY DEF HostedBy
    <3> QED BY <1>0, <3>2, <3>3
  <2> QED BY <2>1, <2>2
<1>6. g.settled = z
  BY <1>0, KnowsFields
<1> QED BY <1>2, <1>3, <1>4, <1>5, <1>6, KnowsIs

LEMMA KnowsServer ==
  ASSUME UsageBounds, NEW A, NEW W, NEW X, NEW b, NEW t \in Nat, Sound(A, W, X, b, t),
         AllKept(W, X), NEW f, f \in FullStats, NEW z, FullKnows(f, z, A, W),
         NEW r \in Nat, NEW g, g = FullServerStarted(f, r),
         NEW V, V = W \cup {LeftAt(s, r) : s \in A}
  PROVE  FullKnows(g, z, {}, V)
<1>1. /\ g.settled = f.settled /\ g.sessions = f.sessions
      /\ \A c \in Conns : g.downs[c] = IF HostedBy(f.sessions, c) # {} /\ f.downs[c] = 0 THEN r ELSE f.downs[c]
  BY FullFields DEF FullServerStarted
<1>2. \A c \in Conns : HostedBy(f.sessions, c) # {} /\ f.downs[c] = 0 <=> HostedBy(A, c) # {}
  <2> TAKE c \in Conns
  <2>1. \A s : s \in f.sessions <=> s \in A \/ \E w \in W : s = Bare(w)
    BY KnowsFields
  <2>2. \A w \in W : Bare(w).host = w.host /\ f.downs[w.host] # 0
    BY KnowsFields
  <2>3. \A s \in A : f.downs[s.host] = 0
    BY KnowsFields
  <2> QED BY <2>1, <2>2, <2>3 DEF HostedBy
<1>3. \A c \in Conns : g.downs[c] = IF HostedBy(A, c) # {} THEN r ELSE f.downs[c]
  BY <1>1, <1>2
<1>4. AllLeft(f, g, A, r, W, V)
  BY <1>1, <1>3 DEF AllLeft
<1>5. FullKnows(g, z, A \ A, V)
  BY <1>4, KnowsTracked
<1> QED BY <1>5

LEMMA BareDuration ==
  ASSUME NEW S, IsFiniteSet(S), NEW t \in Nat, \A s \in S : s.start \in Nat /\ s.start <= t,
         \A w, v \in S : Bare(w) = Bare(v) => w = v, NEW T, T = {Bare(w) : w \in S}
  PROVE  Duration(T, t) = Duration(S, t)
<1>1. PICK f, h, b : /\ f = [s \in S |-> t - s.start] /\ h = [s \in T |-> t - s.start]
                     /\ b = [s \in S |-> Bare(s)]
  OBVIOUS
<1>2. \A s \in S : f[s] \in Nat /\ b[s] \in T /\ h[b[s]] = f[s]
  <2>1. \A s \in S : b[s] = Bare(s) /\ Bare(s) \in T /\ Bare(s).start = s.start
    BY <1>1 DEF Bare
  <2> QED BY <1>1, <2>1
<1>3. \A x, y \in S : b[x] = b[y] => x = y
  BY <1>1
<1>4. {b[x] : x \in S} = T
  BY <1>1
<1>5. SumFunctionOnSet(h, {b[x] : x \in S}) = SumFunctionOnSet(f, S)
  BY <1>2, <1>3, SumMatches
<1>6. SumFunctionOnSet(h, T) = SumFunctionOnSet(f, S)
  BY <1>4, <1>5
<1>7. Duration(T, t) = SumFunctionOnSet(h, T) /\ Duration(S, t) = SumFunctionOnSet(f, S)
  BY <1>1 DEF Duration, SumFunction
<1> QED BY <1>6, <1>7

LEMMA KnowsEnded ==
  ASSUME UsageBounds, NEW A, NEW W, NEW X, NEW b, NEW t \in Nat, Sound(A, W, X, b, t),
         IsFiniteSet(W), CountsOnce(A, W),
         AllKept(W, X), NEW f, f \in FullStats, NEW z, FullKnows(f, z, A, W),
         NEW n, n \in SessionNos, NEW r, r = t + 1, NEW g, g = FullSessionEnded(f, n, r)
  PROVE  /\ WithId(A, n) # {} => FullKnows(g, z + Duration(WithId(A, n), r), A \ WithId(A, n), W)
         /\ WithId(A, n) = {} => FullKnows(g, z + Duration(WithId(W, n), r), A, W \ WithId(W, n))
<1>1. PICK E : E = WithId(f.sessions, n)
  OBVIOUS
<1>2. /\ g.settled = z + Duration(E, r) /\ g.sessions = f.sessions \ E
      /\ \A c \in Conns : g.downs[c] = IF HostedBy(E, c) # {} THEN 0 ELSE f.downs[c]
  BY <1>1, FullFields, KnowsFields DEF FullSessionEnded
<1>3. \A s : s \in f.sessions <=> s \in A \/ \E w \in W : s = Bare(w)
  BY KnowsFields
<1>4. /\ \A w \in W : Bare(w).id = w.id /\ Bare(w).host = w.host
      /\ \A w \in W : f.downs[w.host] = w.left /\ w.host \in Conns /\ X[w.host] = w
      /\ \A s \in A : f.downs[s.host] = 0 /\ s.host \in Conns
      /\ \A s \in A : \A w \in W : s.host # w.host
  BY KnowsFields, SoundFields
<1>5. ASSUME WithId(A, n) # {}
      PROVE  FullKnows(g, z + Duration(WithId(A, n), r), A \ WithId(A, n), W)
  <2>1. PICK S, B : S = WithId(A, n) /\ B = A \ S
    OBVIOUS
  <2>2. \A w \in W : w.id # n
    BY <1>5 DEF CountsOnce, WithId
  <2>3. E = S
    <3>1. \A s : s \in E <=> s \in f.sessions /\ s.id = n
      BY <1>1 DEF WithId
    <3>2. \A s : s \in S <=> s \in A /\ s.id = n
      BY <2>1 DEF WithId
    <3>3. \A s : s \in E <=> s \in S
      BY <1>3, <1>4, <2>2, <3>1, <3>2
    <3> QED BY <3>3
  <2>4. \A s : s \in g.sessions <=> s \in B \/ \E w \in W : s = Bare(w)
    <3>1. \A s \in S : s.id = n
      BY <2>1 DEF WithId
    <3>2. \A w \in W : Bare(w) \notin S
      BY <1>4, <2>2, <3>1
    <3> QED BY <1>2, <1>3, <2>1, <2>3, <3>2
  <2>5. \A s \in B : g.downs[s.host] = 0
    BY <1>2, <1>4, <2>1
  <2>6. \A w \in W : g.downs[w.host] = w.left
    <3>1. \A w \in W : HostedBy(S, w.host) = {}
      BY <1>4, <2>1 DEF HostedBy, WithId
    <3> QED BY <1>2, <1>4, <2>3, <3>1
  <2>7. g.settled = z + Duration(S, r)
    BY <1>2, <2>3
  <2>8. FullKnows(g, z + Duration(S, r), B, W)
    BY <2>4, <2>5, <2>6, <2>7, KnowsIs
  <2> QED BY <2>1, <2>8
<1>6. ASSUME WithId(A, n) = {}
      PROVE  FullKnows(g, z + Duration(WithId(W, n), r), A, W \ WithId(W, n))
  <2>1. PICK S, V : S = WithId(W, n) /\ V = W \ S
    OBVIOUS
  <2>2. \A s \in A : s.id # n
    BY <1>6 DEF WithId
  <2>3. E = {Bare(w) : w \in S}
    <3>1. \A s : s \in E <=> s \in f.sessions /\ s.id = n
      BY <1>1 DEF WithId
    <3>2. \A w : w \in S <=> w \in W /\ w.id = n
      BY <2>1 DEF WithId
    <3>3. \A s : s \in E <=> \E w \in S : s = Bare(w)
      BY <1>3, <1>4, <2>2, <3>1, <3>2
    <3> QED BY <3>3
  <2>4. Duration(E, r) = Duration(S, r)
    <3>1. S \subseteq W /\ IsFiniteSet(S)
      BY <2>1, FS_Subset DEF WithId
    <3>2. \A w \in S : w.start \in Nat /\ w.start <= r
      BY <3>1, SoundFields
    <3>3. \A w, v \in S : Bare(w) = Bare(v) => w = v
      BY <3>1, KnowsFields
    <3>4. r \in Nat
      OBVIOUS
    <3> QED BY <2>3, <3>1, <3>2, <3>3, <3>4, BareDuration
  <2>5. \A s : s \in g.sessions <=> s \in A \/ \E w \in V : s = Bare(w)
    <3>1. \A s \in E : s.id = n
      BY <1>1 DEF WithId
    <3>2. \A w \in V : w \in W /\ w.id # n
      BY <2>1 DEF WithId
    <3>3. \A w \in W : w \in V \/ Bare(w) \in E
      BY <2>1, <2>3
    <3>4. \A s : s \in g.sessions <=> s \in f.sessions /\ s \notin E
      BY <1>2
    <3>5. \A s \in A : s \notin E
      BY <2>2, <3>1
    <3>6. \A w \in V : Bare(w) \notin E
      BY <1>4, <3>1, <3>2
    <3> QED BY <1>3, <3>2, <3>3, <3>4, <3>5, <3>6
  <2>6. \A s \in A : g.downs[s.host] = 0
    BY <1>2, <1>4
  <2>7. \A w \in V : g.downs[w.host] = w.left
    <3> TAKE w \in V
    <3>1. w \in W /\ w \notin S
      BY <2>1
    <3>2. HostedBy(E, w.host) = {}
      <4>1. ASSUME NEW e \in E PROVE e.host # w.host
        <5>1. PICK v \in S : e = Bare(v)
          BY <2>3
        <5>2. v \in W /\ v # w
          BY <2>1, <3>1 DEF WithId
        <5> QED BY <1>4, <3>1, <5>1, <5>2
      <4> QED BY <4>1 DEF HostedBy
    <3> QED BY <1>2, <1>4, <3>1, <3>2
  <2>8. g.settled = z + Duration(S, r)
    BY <1>2, <2>4
  <2>9. FullKnows(g, z + Duration(S, r), A, V)
    BY <2>5, <2>6, <2>7, <2>8, KnowsIs
  <2> QED BY <2>1, <2>9
<1> QED BY <1>5, <1>6

\* What fullstate knows after the connection c of the sessions S is lost.
KnowsWithout(f, g, A, W, z, S, clean, r) ==
  /\ S = {} => g = f
  /\ S # {} /\ clean => FullKnows(g, z + Duration(S, r), A \ S, W)
  /\ \A s \in S : ~clean => FullKnows(g, z, A \ {s}, W \cup {LeftAt(s, r)})

LEMMA KnowsDisconnected ==
  ASSUME UsageBounds, NEW A, NEW W, NEW X, NEW b, NEW t \in Nat, Sound(A, W, X, b, t),
         AllKept(W, X), NEW f, f \in FullStats, NEW z, FullKnows(f, z, A, W),
         NEW c, c \in Conns, NEW clean, NEW r \in Nat,
         NEW g, g = FullClientDisconnected(f, c, clean, r)
  PROVE  KnowsWithout(f, g, A, W, z, HostedBy(A, c), clean, r)
<1>0. PICK S : S = HostedBy(A, c)
  OBVIOUS
<1>1. \A s : s \in f.sessions <=> s \in A \/ \E w \in W : s = Bare(w)
  BY KnowsFields
<1>2. /\ \A w \in W : Bare(w).id = w.id /\ Bare(w).host = w.host
      /\ \A w \in W : f.downs[w.host] = w.left /\ w.host \in Conns /\ w.left # 0
      /\ \A s \in A : f.downs[s.host] = 0 /\ s.host \in Conns
      /\ \A s \in A : \A w \in W : s.host # w.host
  BY KnowsFields, SoundFields
<1>3. \A s : s \in S <=> s \in A /\ s.host = c
  BY <1>0 DEF HostedBy
<1>4. PICK E : E = HostedBy(f.sessions, c)
  OBVIOUS
<1>5. \A s : s \in E <=> s \in f.sessions /\ s.host = c
  BY <1>4 DEF HostedBy
<1>6. ASSUME S = {} PROVE g = f
  <2>1. E = {} \/ f.downs[c] # 0
    BY <1>1, <1>2, <1>3, <1>5, <1>6
  <2> QED BY <1>4, <2>1 DEF FullClientDisconnected
<1>7. ASSUME S # {} PROVE f.downs[c] = 0 /\ E = S
  <2>1. PICK s : s \in A /\ s.host = c
    BY <1>3, <1>7
  <2>2. \A w \in W : w.host # c
    BY <1>2, <2>1
  <2>3. \A q : q \in E <=> q \in S
    BY <1>1, <1>2, <1>3, <1>5, <2>2
  <2>4. E = S
    BY <2>3
  <2> QED BY <1>2, <2>1, <2>4
<1>8. ASSUME S # {}, clean PROVE FullKnows(g, z + Duration(S, r), A \ S, W)
  <2>1. /\ g.settled = z + Duration(S, r) /\ g.sessions = f.sessions \ S /\ g.downs = f.downs
    BY <1>4, <1>7, <1>8, FullFields, KnowsFields DEF FullClientDisconnected
  <2>2. PICK B : B = A \ S
    OBVIOUS
  <2>3. PICK s : s \in A /\ s.host = c
    BY <1>3, <1>8
  <2>4. \A w \in W : Bare(w) \notin S
    BY <1>2, <1>3, <2>3
  <2>5. \A q : q \in g.sessions <=> q \in B \/ \E w \in W : q = Bare(w)
    BY <1>1, <2>1, <2>2, <2>4
  <2>6. (\A q \in B : g.downs[q.host] = 0) /\ \A w \in W : g.downs[w.host] = w.left
    BY <1>2, <2>1, <2>2
  <2>7. FullKnows(g, z + Duration(S, r), B, W)
    BY <2>1, <2>5, <2>6, KnowsIs
  <2> QED BY <2>2, <2>7
<1>9. ASSUME NEW s \in S, ~clean PROVE FullKnows(g, z, A \ {s}, W \cup {LeftAt(s, r)})
  <2>1. S # {} /\ s \in A /\ s.host = c
    BY <1>3
  <2>2. g = [f EXCEPT !.downs[c] = r]
    BY <1>4, <1>7, <1>9, <2>1 DEF FullClientDisconnected
  <2>3. /\ g.settled = f.settled /\ g.sessions = f.sessions
        /\ \A d \in Conns : g.downs[d] = IF d = c THEN r ELSE f.downs[d]
    BY <2>2, FullFields
  <2>4. \A d \in Conns : HostedBy({s}, d) # {} <=> d = c
    BY <2>1 DEF HostedBy
  <2>5. PICK T, V : T = {s} /\ V = W \cup {LeftAt(s, r)}
    OBVIOUS
  <2>6. T \subseteq A /\ V = W \cup {LeftAt(q, r) : q \in T}
    BY <2>1, <2>5
  <2>7. \A d \in Conns : g.downs[d] = IF HostedBy(T, d) # {} THEN r ELSE f.downs[d]
    BY <2>3, <2>4, <2>5
  <2>8. FullKnows(g, z, A \ T, V)
    <3>1. AllLeft(f, g, T, r, W, V)
      BY <2>3, <2>6, <2>7 DEF AllLeft
    <3> QED BY <2>6, <3>1, KnowsTracked
  <2> QED BY <2>5, <2>8
<1> QED BY <1>0, <1>6, <1>8, <1>9 DEF KnowsWithout

\* Both totals are the same: what settled, what is active and what is away.
LEMMA KnowsTotal ==
  ASSUME UsageBounds, NEW u, Shaped(u), NEW b, NEW t \in Nat,
         Sound(u.active, u.away, u.index, b, t), CountsOnce(u.active, u.away),
         AllKept(u.away, u.index), NEW f, f \in FullStats,
         FullKnows(f, u.settled, u.active, u.away)
  PROVE  FullTotalDuration(f, t) = TotalDuration(u, t)
<1>1. PICK A, W, X, z : A = u.active /\ W = u.away /\ X = u.index /\ z = u.settled
  OBVIOUS
<1>2. /\ Sound(A, W, X, b, t) /\ AllKept(W, X) /\ FullKnows(f, z, A, W)
      /\ IsFiniteSet(A) /\ IsFiniteSet(W) /\ z \in Nat
  BY <1>1, StatsFields DEF Shaped
<1>3. PICK T : T = {Bare(w) : w \in W}
  OBVIOUS
<1>4. PICK h : h = [s \in f.sessions |->
                      (IF f.downs[s.host] # 0 THEN f.downs[s.host] ELSE t) - s.start]
  OBVIOUS
<1>5. f.sessions = A \cup T /\ f.settled = z
  BY <1>2, <1>3 DEF FullKnows
<1>6. PICK p, q, m : /\ p = [s \in A |-> t - s.start] /\ q = [s \in W |-> s.left - s.start]
                     /\ m = [s \in W |-> Bare(s)]
  OBVIOUS
<1>7. \A s \in A : h[s] = p[s] /\ p[s] \in Nat
  BY <1>2, <1>4, <1>5, <1>6, SoundFields, KnowsFields
<1>8. \A w \in W : h[m[w]] = q[w] /\ q[w] \in Nat /\ m[w] = Bare(w) /\ m[w] \in T
  <2> TAKE w \in W
  <2>1. m[w] = Bare(w) /\ m[w] \in T /\ q[w] = w.left - w.start
    BY <1>3, <1>6
  <2>2. /\ w.start \in 1..w.left /\ w.left \in 1..t
        /\ f.downs[w.host] = w.left /\ w.left # 0
        /\ Bare(w).host = w.host /\ Bare(w).start = w.start
    BY <1>2, SoundFields, KnowsFields
  <2>3. h[m[w]] = w.left - w.start
    BY <1>4, <1>5, <2>1, <2>2
  <2>4. w.left - w.start \in Nat
    BY <2>2
  <2> QED BY <2>1, <2>3, <2>4
<1>9. \A x, y \in W : m[x] = m[y] => x = y
  BY <1>2, <1>8, KnowsFields
<1>10. {m[w] : w \in W} = T
  BY <1>3, <1>6
<1>11. SumFunctionOnSet(h, T) = SumFunctionOnSet(q, W)
  <2>1. SumFunctionOnSet(h, {m[w] : w \in W}) = SumFunctionOnSet(q, W)
    BY <1>2, <1>8, <1>9, SumMatches
  <2> QED BY <1>10, <2>1
<1>12. SumFunctionOnSet(h, A) = SumFunctionOnSet(p, A)
  <2>1. PICK i : i = [s \in A |-> s]
    OBVIOUS
  <2>2. (\A s \in A : h[i[s]] = p[s] /\ p[s] \in Nat) /\ (\A x, y \in A : i[x] = i[y] => x = y)
    BY <1>7, <2>1
  <2>3. {i[s] : s \in A} = A
    BY <2>1
  <2>4. SumFunctionOnSet(h, {i[s] : s \in A}) = SumFunctionOnSet(p, A)
    BY <1>2, <2>2, SumMatches
  <2> QED BY <2>3, <2>4
<1>13. IsFiniteSet(T)
  <2>1. m \in Surjection(W, T)
    BY <1>3, <1>6 DEF Surjection
  <2> QED BY <1>2, <2>1, FS_Surjection
<1>14. A \cap T = {}
  BY <1>2, <1>3, KnowsFields
<1>15. \A x \in A \cup T : h[x] \in Nat
  BY <1>7, <1>8, <1>10
<1>16. SumFunctionOnSet(h, A \cup T) = SumFunctionOnSet(h, A) + SumFunctionOnSet(h, T)
  BY <1>2, <1>13, <1>14, <1>15, SumSplits
<1>17. /\ FullTotalDuration(f, t) = f.settled + SumFunctionOnSet(h, f.sessions)
       /\ TotalDuration(u, t) = u.settled + SumFunctionOnSet(p, A) + SumFunctionOnSet(q, W)
  <2>1. DOMAIN h = f.sessions /\ DOMAIN p = A /\ DOMAIN q = W
    BY <1>4, <1>6
  <2>2. FullTotalDuration(f, t) = f.settled + SumFunctionOnSet(h, f.sessions)
    BY <1>4, <2>1 DEF FullTotalDuration, SumFunction
  <2>3. TotalDuration(u, t) = u.settled + SumFunctionOnSet(p, A) + SumFunctionOnSet(q, W)
    BY <1>1, <1>6, <2>1 DEF TotalDuration, Duration, SumFunction
  <2> QED BY <2>2, <2>3
<1>18. PICK a, c : a = SumFunctionOnSet(h, A) /\ c = SumFunctionOnSet(h, T) /\ a \in Nat /\ c \in Nat
  <2>1. (\A x \in A : h[x] \in Nat) /\ \A x \in T : h[x] \in Nat
    BY <1>15
  <2> QED BY <1>2, <1>13, <2>1, SumAdds
<1>19. FullTotalDuration(f, t) = z + (a + c) /\ TotalDuration(u, t) = z + a + c
  BY <1>1, <1>5, <1>11, <1>12, <1>16, <1>17, <1>18
<1> QED BY <1>2, <1>18, <1>19

LEMMA FineTurned ==
  ASSUME UsageBounds, NEW r, NEW z, NEW A, NEW W, NEW X, NEW k, Turned(r, z, A, W, X, k),
         NEW b, NEW t, Sound(A, W, X, b, t), IsFiniteSet(A), IsFiniteSet(W), k <= KeptMax
  PROVE  Fine(r, b, t)
BY DEF Turned, Fine, Shaped

LEMMA TrackFine ==
  ASSUME UsageBounds, NEW u, NEW b, NEW t \in Nat, Fine(u, b, t), NEW s, s \in u.active,
         NEW l, l = LeftAt(s, t), NEW r, r = TrackDisconnected(u, s, t)
  PROVE  /\ Fine(r, b, t) /\ r.settled = u.settled /\ r.active = u.active \ {s}
         /\ Len(r.kept) = AndOne(Len(u.kept)) /\ Len(u.kept) \in Nat /\ Len(u.kept) <= KeptMax
         /\ CountsOnce(u.active, u.away) =>
              CountsOnce(r.active, r.away) /\ r.away = LeftIn(u.away, l) /\ r.away = u.away \cup {l}
         /\ Len(u.kept) < KeptMax => r.index = With(u.index, l)
         /\ Len(u.kept) < KeptMax /\ AllKept(u.away, u.index) => AllKept(r.away, r.index)
<1>1. PICK A, W, X, k : A = u.active /\ W = u.away /\ X = u.index /\ k = Len(u.kept)
  OBVIOUS
<1>2. /\ Shaped(u) /\ Sound(A, W, X, b, t) /\ X[s.host] = NotKept /\ s \in A
      /\ k \in Nat /\ k <= KeptMax /\ IsFiniteSet(A) /\ IsFiniteSet(W)
  BY <1>1, StatsFields, SoundFields DEF Fine, Shaped
<1>3. PICK Y, V, Z : Y = Cut(X, u.kept) /\ V = LeftIn(W, l) /\ Z = With(Y, l)
  OBVIOUS
<1>4. /\ l \in LeftSession /\ Turned(r, u.settled, A \ {s}, V, Z, AndOne(k))
  BY <1>1, <1>2, <1>3, UsageTrackDoes
<1>5. Y \in Index /\ (\A d \in Conns : Y[d] = X[d] \/ Y[d] = NotKept) /\ (k < KeptMax => Y = X)
  <2>1. X \in Index
    BY <1>2 DEF Sound
  <2>2. CASE k < KeptMax
    BY <1>1, <1>3, <2>1, <2>2 DEF Cut
  <2>3. CASE ~(k < KeptMax)
    <3>1. PICK h : h = u.kept[1].host
      OBVIOUS
    <3>2. Y = Without(X, h)
      BY <1>1, <1>3, <2>3, <3>1 DEF Cut
    <3> QED BY <2>1, <2>3, <3>2 DEF Without, Index
  <2> QED BY <2>2, <2>3
<1>6. /\ Sound(A \ {s}, V, Z, b, t)
      /\ CountsOnce(A, W) => CountsOnce(A \ {s}, V) /\ V = W \cup {l}
      /\ AllKept(W, X) /\ Y = X => AllKept(V, Z)
  <2>1. UsageBounds /\ t \in Nat /\ Sound(A, W, X, b, t) /\ s \in A /\ l = LeftAt(s, t)
    BY <1>2
  <2>2. Y \in Index /\ \A d \in Conns : Y[d] = X[d] \/ Y[d] = NotKept
    BY <1>5
  <2>3. V = LeftIn(W, l) /\ Z = With(Y, l)
    BY <1>3
  <2> QED BY <2>1, <2>2, <2>3, TrackSound
<1>7. Fine(r, b, t)
  <2>1. IsFiniteSet(A \ {s})
    BY <1>2, FS_Subset
  <2>2. IsFiniteSet(V)
    <3>1. IsFiniteSet(W \ WithId(W, l.id))
      BY <1>2, FS_Subset
    <3>2. IsFiniteSet((W \ WithId(W, l.id)) \cup {l})
      BY <3>1, FS_AddElement
    <3> QED BY <1>3, <3>2 DEF LeftIn
  <2>3. AndOne(k) <= KeptMax
    BY <1>2 DEF AndOne, UsageBounds
  <2> QED BY <1>4, <1>6, <2>1, <2>2, <2>3, FineTurned
<1>8. r.settled = u.settled /\ r.active = A \ {s} /\ r.away = V /\ r.index = Z /\ Len(r.kept) = AndOne(k)
  BY <1>4 DEF Turned
<1> QED BY <1>1, <1>2, <1>3, <1>5, <1>6, <1>7, <1>8

\* One session after the other is left, when the server starts.
After(u, order, t, k, g) ==
  g = [n \in 0..k |-> IF n = 0 THEN u ELSE TrackDisconnected(g[n - 1], order[n], t)]

LEMMA AfterExists ==
  ASSUME NEW u, NEW order, NEW t, NEW k \in Nat
  PROVE  \E g : After(u, order, t, k, g)
<1> DEFINE N == {m \in Nat : \E g : After(u, order, t, m, g)}
<1>1. 0 \in N
  <2>1. PICK g : g = [n \in 0..0 |-> u]
    OBVIOUS
  <2>2. \A n \in 0..0 : n = 0
    OBVIOUS
  <2>3. g = [n \in 0..0 |-> IF n = 0 THEN u ELSE TrackDisconnected(g[n - 1], order[n], t)]
    BY <2>1, <2>2
  <2> QED BY <2>3 DEF After
<1>2. ASSUME NEW m \in Nat, m \in N PROVE m + 1 \in N
  <2>1. PICK g : After(u, order, t, m, g)
    BY <1>2
  <2>2. g = [n \in 0..m |-> IF n = 0 THEN u ELSE TrackDisconnected(g[n - 1], order[n], t)]
    BY <2>1 DEF After
  <2>3. PICK h : h = [n \in 0..(m + 1) |->
                        IF n \in 0..m THEN g[n] ELSE TrackDisconnected(g[m], order[n], t)]
    OBVIOUS
  <2>4. \A n \in 0..(m + 1) : h[n] = IF n = 0 THEN u ELSE TrackDisconnected(h[n - 1], order[n], t)
    <3> TAKE n \in 0..(m + 1)
    <3>1. CASE n = 0
      BY <2>2, <2>3, <3>1
    <3>2. CASE n # 0 /\ n \in 0..m
      <4>1. n - 1 \in 0..m /\ n - 1 \in 0..(m + 1)
        BY <3>2
      <4>2. h[n] = g[n] /\ h[n - 1] = g[n - 1]
        BY <2>3, <3>2, <4>1
      <4>3. g[n] = TrackDisconnected(g[n - 1], order[n], t)
        BY <2>2, <3>2
      <4> QED BY <3>2, <4>2, <4>3
    <3>3. CASE n = m + 1
      <4>1. n - 1 = m /\ m \in 0..m /\ m \in 0..(m + 1) /\ n \notin 0..m /\ n # 0
        BY <3>3
      <4>2. h[n] = TrackDisconnected(g[m], order[n], t) /\ h[m] = g[m]
        BY <2>3, <4>1
      <4> QED BY <4>1, <4>2
    <3> QED BY <3>1, <3>2, <3>3
  <2>5. h = [n \in 0..(m + 1) |-> IF n = 0 THEN u ELSE TrackDisconnected(h[n - 1], order[n], t)]
    BY <2>3, <2>4
  <2>6. After(u, order, t, m + 1, h)
    BY <2>5 DEF After
  <2>7. m + 1 \in Nat
    OBVIOUS
  <2> QED BY Zenon, <2>6, <2>7
<1> QED BY <1>1, <1>2, SetInduction

LEMMA ServerAfter ==
  ASSUME NEW u, NEW order, NEW t, Len(order) \in Nat
  PROVE  \E g : /\ After(u, order, t, Len(order), g)
                /\ UsageServerStarted(u, order, t) = g[Len(order)]
<1>1. PICK g : g = CHOOSE h : After(u, order, t, Len(order), h)
  OBVIOUS
<1>2. After(u, order, t, Len(order), g)
  BY <1>1, AfterExists
<1>3. UsageServerStarted(u, order, t) = g[Len(order)]
  BY <1>1 DEF UsageServerStarted, After
<1> QED BY <1>2, <1>3

LEMMA OrderIs ==
  ASSUME NEW A, IsFiniteSet(A), NEW order, order \in SetToSeqs(A)
  PROVE  /\ Len(order) = Cardinality(A) /\ Len(order) \in Nat
         /\ \A n \in 1..Len(order) : order[n] \in A
         /\ \A n, m \in 1..Len(order) : order[n] = order[m] => n = m
<1>1. PICK k \in Nat : k = Cardinality(A)
  BY FS_CardinalityType
<1>2. order \in [1..k -> A] /\ \A n, m \in 1..k : order[n] = order[m] => n = m
  BY <1>1 DEF SetToSeqs
<1>3. Len(order) = k
  <2>1. order \in Seq(A)
    BY <1>2, SeqDef
  <2> QED BY <1>2, <2>1, LenProperties
<1> QED BY <1>1, <1>2, <1>3

\* Where the loop is when all but the sessions of r are left.
Leaving(u, r, b, t) ==
  /\ Fine(r, b, t) /\ r.settled = u.settled /\ r.active \subseteq u.active
  /\ Len(r.kept) <= KeptMax
  /\ CountsOnce(u.active, u.away) =>
       /\ CountsOnce(r.active, r.away)
       /\ r.away = u.away \cup {LeftAt(s, t) : s \in u.active \ r.active}
  
\* Nothing was evicted.
LeavingAll(u, r, n, t) ==
  /\ Len(r.kept) = Len(u.kept) + n
  /\ \A d \in Conns : (\A s \in u.active \ r.active : s.host # d) => r.index[d] = u.index[d]
  /\ \A s \in u.active \ r.active : r.index[s.host] = LeftAt(s, t)
  /\ AllKept(u.away, u.index) => AllKept(r.away, r.index)

LEMMA LeavingStep ==
  ASSUME UsageBounds, NEW u, NEW b, NEW t \in Nat, Fine(u, b, t), NEW r, Leaving(u, r, b, t),
         NEW s, s \in r.active, NEW q, q = TrackDisconnected(r, s, t)
  PROVE  /\ Leaving(u, q, b, t) /\ q.active = r.active \ {s}
         /\ \A n \in Nat : LeavingAll(u, r, n, t) /\ Len(r.kept) < KeptMax => LeavingAll(u, q, n + 1, t)
<1>1. PICK l : l = LeftAt(s, t)
  OBVIOUS
<1>2. Fine(r, b, t) /\ r.settled = u.settled /\ r.active \subseteq u.active
  BY DEF Leaving
<1>3. /\ Fine(q, b, t) /\ q.settled = r.settled /\ q.active = r.active \ {s}
      /\ Len(q.kept) = AndOne(Len(r.kept)) /\ Len(r.kept) \in Nat /\ Len(r.kept) <= KeptMax
      /\ CountsOnce(r.active, r.away) => CountsOnce(q.active, q.away) /\ q.away = r.away \cup {l}
      /\ Len(r.kept) < KeptMax => q.index = With(r.index, l)
      /\ Len(r.kept) < KeptMax /\ AllKept(r.away, r.index) => AllKept(q.away, q.index)
  BY <1>1, <1>2, TrackFine
<1>4. PICK D, E : D = u.active \ r.active /\ E = u.active \ q.active
  OBVIOUS
<1>5. E = D \cup {s} /\ s \notin D
  BY <1>2, <1>3, <1>4
<1>6. Leaving(u, q, b, t)
  <2>1. ASSUME CountsOnce(u.active, u.away)
        PROVE  CountsOnce(q.active, q.away) /\ q.away = u.away \cup {LeftAt(z, t) : z \in E}
    <3>1. CountsOnce(r.active, r.away) /\ r.away = u.away \cup {LeftAt(z, t) : z \in D}
      BY <1>4, <2>1 DEF Leaving
    <3>2. q.away = r.away \cup {LeftAt(s, t)}
      BY <1>1, <1>3, <3>1
    <3> QED BY <1>3, <1>5, <3>1, <3>2
  <2>2. Len(q.kept) <= KeptMax
    BY <1>3 DEF AndOne, UsageBounds
  <2>3. q.active \subseteq u.active
    BY <1>2, <1>3
  <2> QED BY <1>2, <1>3, <1>4, <2>1, <2>2, <2>3 DEF Leaving
<1>7. ASSUME NEW n \in Nat, LeavingAll(u, r, n, t), Len(r.kept) < KeptMax
      PROVE  LeavingAll(u, q, n + 1, t)
  <2>1. /\ Len(r.kept) = Len(u.kept) + n
        /\ \A d \in Conns : (\A z \in D : z.host # d) => r.index[d] = u.index[d]
        /\ \A z \in D : r.index[z.host] = LeftAt(z, t)
        /\ AllKept(u.away, u.index) => AllKept(r.away, r.index)
    BY <1>4, <1>7 DEF LeavingAll
  <2>2. s.host \in Conns /\ \A z \in D : z.host # s.host /\ z.host \in Conns
    <3>1. \A z \in u.active : z.host \in Conns
      BY SoundFields DEF Fine
    <3>2. \A z, y \in u.active : z.host = y.host => z = y
      BY SoundFields DEF Fine
    <3> QED BY <1>2, <1>4, <1>5, <3>1, <3>2
  <2>3. \A d \in Conns : q.index[d] = IF d = s.host THEN l ELSE r.index[d]
    <3>1. r.index \in Index
      BY <1>2 DEF Fine, Sound
    <3>2. l.host = s.host
      BY <1>1 DEF LeftAt
    <3> QED BY <1>3, <1>7, <3>1, <3>2 DEF With, Index
  <2>4. \A d \in Conns : (\A z \in E : z.host # d) => q.index[d] = u.index[d]
    BY <1>5, <2>1, <2>3
  <2>5. \A z \in E : q.index[z.host] = LeftAt(z, t)
    BY <1>1, <1>5, <2>1, <2>2, <2>3
  <2>6. Len(q.kept) = Len(u.kept) + (n + 1)
    <3>1. PICK k \in Nat, m \in Nat : k = Len(r.kept) /\ m = Len(u.kept)
      BY <1>3, StatsFields DEF Fine, Shaped
    <3>2. Len(q.kept) = k + 1 /\ k = m + n
      BY <1>3, <1>7, <2>1, <3>1 DEF AndOne
    <3>3. k + 1 = m + (n + 1)
      BY <3>2
    <3> QED BY <3>1, <3>2, <3>3
  <2> QED BY <1>3, <1>4, <1>7, <2>1, <2>4, <2>5, <2>6 DEF LeavingAll
<1> QED BY <1>3, <1>6, <1>7

LEMMA LeavingStarts ==
  ASSUME UsageBounds, NEW u, NEW b, NEW t, Fine(u, b, t)
  PROVE  Leaving(u, u, b, t) /\ LeavingAll(u, u, 0, t)
<1>1. Len(u.kept) \in Nat /\ Len(u.kept) <= KeptMax
  BY StatsFields DEF Fine, Shaped
<1>2. {LeftAt(s, t) : s \in u.active \ u.active} = {}
  OBVIOUS
<1>3. u.away = u.away \cup {LeftAt(s, t) : s \in u.active \ u.active}
  BY <1>2
<1>4. Leaving(u, u, b, t)
  BY <1>1, <1>3 DEF Leaving
<1>5. LeavingAll(u, u, 0, t)
  BY <1>1 DEF LeavingAll
<1> QED BY <1>4, <1>5

LEMMA OneFewer ==
  ASSUME NEW m \in Nat, NEW n \in Nat, NEW k \in Nat, m + (n + 1) <= k
  PROVE  m + n < k /\ m + n <= k
OBVIOUS

LEMMA AfterDoes ==
  ASSUME UsageBounds, NEW u, NEW b, NEW t \in Nat, Fine(u, b, t),
         NEW order, order \in SetToSeqs(u.active), NEW g, After(u, order, t, Len(order), g)
  PROVE  \A n \in 0..Len(order) :
           /\ Leaving(u, g[n], b, t) /\ Cardinality(g[n].active) = Len(order) - n
           /\ \A m \in 1..Len(order) : order[m] \in g[n].active <=> m > n
           /\ n > 0 => g[n] = TrackDisconnected(g[n - 1], order[n], t)
           /\ Len(u.kept) + n <= KeptMax => LeavingAll(u, g[n], n, t)
<1>1. IsFiniteSet(u.active) /\ Len(u.kept) \in Nat
  BY StatsFields DEF Fine, Shaped
<1>2. PICK k \in Nat : k = Len(order)
  BY <1>1, OrderIs
<1>3. /\ k = Cardinality(u.active) /\ (\A n \in 1..k : order[n] \in u.active)
      /\ \A n, m \in 1..k : order[n] = order[m] => n = m
  BY <1>1, <1>2, OrderIs
<1>4. g = [n \in 0..k |-> IF n = 0 THEN u ELSE TrackDisconnected(g[n - 1], order[n], t)]
  BY <1>2 DEF After
<1> DEFINE Ok(n) == /\ Leaving(u, g[n], b, t) /\ Cardinality(g[n].active) = k - n
                    /\ \A m \in 1..k : order[m] \in g[n].active <=> m > n
                    /\ Len(u.kept) + n <= KeptMax => LeavingAll(u, g[n], n, t)
           N == {n \in Nat : n <= k => Ok(n)}
<1>5. 0 \in N
  <2>1. g[0] = u
    BY <1>4
  <2>2. Cardinality(g[0].active) = k - 0 /\ \A m \in 1..k : order[m] \in g[0].active <=> m > 0
    BY <1>3, <2>1
  <2>3. Leaving(u, g[0], b, t) /\ LeavingAll(u, g[0], 0, t)
    BY <2>1, LeavingStarts
  <2> QED BY <2>2, <2>3
<1>6. ASSUME NEW n \in Nat, n \in N PROVE n + 1 \in N
  <2> SUFFICES ASSUME n + 1 <= k PROVE Ok(n + 1)
    OBVIOUS
  <2>1. Ok(n) /\ n + 1 \in 1..k /\ n + 1 \in 0..k /\ n + 1 # 0 /\ (n + 1) - 1 = n /\ n + 1 > n
    BY <1>2, <1>6
  <2>2. g[n + 1] = TrackDisconnected(g[n], order[n + 1], t)
    BY <1>4, <2>1
  <2>3. PICK s : s = order[n + 1] /\ s \in g[n].active
    BY <2>1
  <2>4. /\ Leaving(u, g[n + 1], b, t) /\ g[n + 1].active = g[n].active \ {s}
        /\ LeavingAll(u, g[n], n, t) /\ Len(g[n].kept) < KeptMax => LeavingAll(u, g[n + 1], n + 1, t)
    <3>1. Leaving(u, g[n], b, t)
      BY <2>1
    <3>2. PICK r, q : r = g[n] /\ q = g[n + 1]
      OBVIOUS
    <3>3. /\ Leaving(u, q, b, t) /\ q.active = r.active \ {s}
          /\ \A m \in Nat : LeavingAll(u, r, m, t) /\ Len(r.kept) < KeptMax => LeavingAll(u, q, m + 1, t)
      <4>1. Leaving(u, r, b, t) /\ s \in r.active /\ q = TrackDisconnected(r, s, t)
        BY <2>2, <2>3, <3>1, <3>2
      <4> QED BY <4>1, LeavingStep
    <3> QED BY <3>2, <3>3
  <2>5. Cardinality(g[n + 1].active) = k - (n + 1)
    <3>1. IsFiniteSet(g[n].active)
      BY <2>1 DEF Leaving, Fine, Shaped
    <3>2. k - n = (k - (n + 1)) + 1 /\ k - (n + 1) \in Nat
      BY <1>2, <2>1
    <3> QED BY <2>1, <2>3, <2>4, <3>1, <3>2, FewerWithout
  <2>6. \A m \in 1..k : order[m] \in g[n + 1].active <=> m > n + 1
    <3> TAKE m \in 1..k
    <3>1. order[m] \in g[n].active <=> m > n
      BY <2>1
    <3>2. order[m] = s <=> m = n + 1
      BY <1>3, <2>1, <2>3
    <3>3. m > n + 1 <=> m > n /\ m # n + 1
      OBVIOUS
    <3> QED BY <2>4, <3>1, <3>2, <3>3
  <2>7. Len(u.kept) + (n + 1) <= KeptMax => LeavingAll(u, g[n + 1], n + 1, t)
    <3> HAVE Len(u.kept) + (n + 1) <= KeptMax
    <3>0. PICK m \in Nat : m = Len(u.kept) /\ m + (n + 1) <= KeptMax
      BY <1>1
    <3>4. KeptMax \in Nat
      BY DEF UsageBounds
    <3>5. m + n < KeptMax /\ m + n <= KeptMax
      BY <3>0, <3>4, OneFewer
    <3>1. Len(u.kept) + n < KeptMax /\ Len(u.kept) + n <= KeptMax
      BY <3>0, <3>5
    <3>2. LeavingAll(u, g[n], n, t)
      BY <2>1, <3>1
    <3>3. Len(g[n].kept) < KeptMax
      BY <3>1, <3>2 DEF LeavingAll
    <3> QED BY <2>4, <3>2, <3>3
  <2> HIDE DEF N
  <2> QED BY <2>4, <2>5, <2>6, <2>7
<1>7. Nat \subseteq N
  <2> HIDE DEF N
  <2> QED BY <1>5, <1>6, SetInduction
<1>8. \A n \in 0..k : Ok(n)
  <2> HIDE DEF Ok
  <2>1. \A n \in 0..k : n \in Nat /\ n <= k /\ n \in N
    BY <1>2, <1>7
  <2> QED BY <2>1
<1>9. \A n \in 0..k : n > 0 => g[n] = TrackDisconnected(g[n - 1], order[n], t)
  BY <1>4
<1> QED BY <1>2, <1>8, <1>9

LEMMA ServerDoes ==
  ASSUME UsageBounds, NEW u, NEW b, NEW t \in Nat, Fine(u, b, t),
         NEW order, order \in SetToSeqs(u.active), NEW r, r = UsageServerStarted(u, order, t)
  PROVE  /\ Leaving(u, r, b, t) /\ r.active = {} /\ Cardinality(u.active) \in Nat
         /\ Len(u.kept) + Cardinality(u.active) <= KeptMax => LeavingAll(u, r, Cardinality(u.active), t)
<1>1. IsFiniteSet(u.active)
  BY DEF Fine, Shaped
<1>2. PICK k \in Nat : k = Len(order) /\ k = Cardinality(u.active)
  BY <1>1, OrderIs
<1>3. PICK g : After(u, order, t, k, g) /\ r = g[k]
  BY <1>2, ServerAfter
<1>4. k \in 0..k /\ k - k = 0
  BY <1>2
<1>5. /\ Leaving(u, r, b, t) /\ Cardinality(r.active) = k - k
      /\ Len(u.kept) + k <= KeptMax => LeavingAll(u, r, k, t)
  <2>1. After(u, order, t, Len(order), g)
    BY <1>2, <1>3
  <2>2. \A n \in 0..Len(order) :
          /\ Leaving(u, g[n], b, t) /\ Cardinality(g[n].active) = Len(order) - n
          /\ Len(u.kept) + n <= KeptMax => LeavingAll(u, g[n], n, t)
    BY <2>1, AfterDoes
  <2> QED BY <1>2, <1>3, <1>4, <2>2
<1>6. r.active = {}
  <2>1. IsFiniteSet(r.active) /\ Cardinality(r.active) = 0
    BY <1>4, <1>5 DEF Leaving, Fine, Shaped
  <2> QED BY <2>1, EmptyIsNone
<1> QED BY <1>2, <1>5, <1>6

Preserves(b, c) == \A s \in UsageSession \cup LeftSession : Began(b, s) => Began(c, s)

LEMMA FineLater ==
  ASSUME NEW u, NEW b, NEW t \in Nat, Fine(u, b, t), NEW c, Preserves(b, c)
  PROVE  Fine(u, c, t + 1)
BY SoundLater DEF Fine, Preserves

LEMMA SameTurned ==
  ASSUME NEW r, NEW q, NEW z, NEW A, NEW W, NEW X, NEW k,
         Turned(r, z, A, W, X, k), Turned(q, z, A, W, X, k)
  PROVE  SameStats(r, q)
BY DEF Turned, SameStats

LEMMA NothingHasIdZero ==
  ASSUME UsageBounds, NEW W, W \subseteq LeftSession
  PROVE  WithId(W, NotKept.id) = {} /\ W \ WithId(W, NotKept.id) = W
<1>1. NotKept.id = 0
  BY DEF NotKept
<1>2. \A w \in W : w.id # 0
  BY NotKeptIsNone
<1> QED BY <1>1, <1>2 DEF WithId

Starts(b, t, s) == s \in UsageSession /\ Began(b, s) /\ s.start \in 1..t

\* e: what is known to be evicted of the connection.
StartedWithout(u, s, e) == [UsageSessionStarted(u, s) EXCEPT !.away = @ \ WithId(@, e.id)]

LEMMA StartedFine ==
  ASSUME UsageBounds, NEW u, NEW b, NEW t \in Nat, Fine(u, b, t),
         NEW s, Starts(b, t, s), NEW e, e # NotKept => e.host = s.host /\ Began(b, e),
         NEW r, r = StartedWithout(u, s, e)
  PROVE  /\ Fine(r, b, t)
         /\ CountsOnce(u.active, u.away) /\ (\A w \in u.away : w.id # s.id) => CountsOnce(r.active, r.away)
         /\ CountsOnce(u.active, u.away) /\ AllKept(u.away, u.index) => CountsOnce(r.active, r.away)
         /\ AllKept(u.away, u.index) => AllKept(r.away, r.index)
<1>0. s \in UsageSession /\ Began(b, s) /\ s.start \in 1..t
  BY DEF Starts
<1>1. PICK A, W, X, c : A = u.active /\ W = u.away /\ X = u.index /\ c = s.host
  OBVIOUS
<1>2. /\ Shaped(u) /\ Sound(A, W, X, b, t) /\ IsFiniteSet(A) /\ IsFiniteSet(W) /\ c \in Conns
      /\ Len(u.kept) \in Nat /\ Len(u.kept) <= KeptMax /\ W \subseteq LeftSession
      /\ b[s.id].host = c
  BY <1>0, <1>1, StatsFields DEF Fine, Shaped, UsageSession, Began, Sound
<1>3. PICK B, U, V, Z, k : /\ B = StartedActive(A, s) /\ U = W \ WithId(W, X[c].id)
                           /\ V = U \ WithId(U, e.id) /\ Z = Without(X, c)
                           /\ k = Fewer(X, c, Len(u.kept))
  OBVIOUS
<1>4. PICK g : g = UsageSessionStarted(u, s)
  OBVIOUS
<1>5. Turned(g, u.settled, B, U, Z, k)
  BY <1>0, <1>1, <1>2, <1>3, <1>4, UsageStartedDoes
<1>6. V \subseteq W /\ U \subseteq W /\ \A w \in W : w.host # c => w \in V
  <2>1. \A w \in W : b[w.id].host = w.host
    BY <1>2, SoundFields
  <2>2. X[c] # NotKept => b[X[c].id].host = c
    BY <1>2, SoundFields
  <2>3. e # NotKept => b[e.id].host = c
    BY <1>1 DEF Began
  <2>4. \A w \in W : w.id # NotKept.id
    BY <1>2, NotKeptIsNone DEF NotKept
  <2>5. \A w \in W : w.host # c => w.id # X[c].id /\ w.id # e.id
    BY <2>1, <2>2, <2>3, <2>4
  <2> QED BY <1>3, <2>5 DEF WithId
<1>7. Turned(r, u.settled, B, V, Z, k)
  <2>1. g \in Stats /\ g.away = U /\ V \subseteq LeftSession
    BY <1>2, <1>5, <1>6 DEF Turned
  <2>2. r = [g EXCEPT !.away = V]
    BY <1>3, <1>4, <2>1 DEF StartedWithout
  <2>3. /\ r \in Stats /\ r.settled = g.settled /\ r.active = g.active /\ r.away = V
        /\ r.kept = g.kept /\ r.index = g.index
    BY <2>1, <2>2 DEF Stats
  <2> QED BY <1>5, <2>3 DEF Turned
<1>8. X[c] # NotKept => X[c] \notin V
  <2>1. X[c] # NotKept => X[c] \in WithId(W, X[c].id)
    BY <1>2, SoundFields DEF WithId
  <2> QED BY <1>3, <2>1
<1>9. X[c] \notin V
  <2>1. NotKept \notin W
    BY <1>2, NotKeptIsNone
  <2> QED BY <1>6, <1>8, <2>1
<1>10. /\ Sound(B, V, Z, b, t)
       /\ CountsOnce(A, W) /\ (\A w \in V : w.id # s.id) => CountsOnce(B, V)
       /\ AllKept(W, X) /\ X[s.host] \notin V => AllKept(V, Z)
  <2>1. /\ Sound(A, W, X, b, t) /\ B = StartedActive(A, s) /\ V \subseteq W
        /\ Z = Without(X, s.host) /\ \A w \in W : w.host # s.host => w \in V
    BY <1>1, <1>2, <1>3, <1>6
  <2> QED BY <1>0, <2>1, StartSound
<1>11. Fine(r, b, t)
  <2>1. IsFiniteSet(V)
    BY <1>2, <1>6, FS_Subset
  <2>2. IsFiniteSet(B)
    <3>1. IsFiniteSet(A \ (HostedBy(A, s.host) \cup WithId(A, s.id)))
      BY <1>2, FS_Subset
    <3> QED BY <1>3, <3>1, FS_AddElement DEF StartedActive
  <2>3. k <= KeptMax
    BY <1>2, <1>3 DEF Fewer, UsageBounds
  <2> QED BY <1>7, <1>10, <2>1, <2>2, <2>3, FineTurned
<1>12. AllKept(W, X) => \A w \in V : w.id # s.id
  <2>1. \A w \in W : b[w.id].host = w.host
    BY <1>2, SoundFields
  <2>2. AllKept(W, X) => \A w \in W : X[w.host] = w
    BY DEF AllKept
  <2> QED BY <1>2, <1>6, <1>9, <2>1, <2>2
<1>13. r.active = B /\ r.away = V /\ r.index = Z
  BY <1>7 DEF Turned
<1> QED BY <1>1, <1>6, <1>9, <1>10, <1>11, <1>12, <1>13

LEMMA EndedFine ==
  ASSUME UsageBounds, NEW u, NEW b, NEW t \in Nat, Fine(u, b, t), NEW n, n \in SessionNos,
         NEW p, p = t + 1, NEW r, r = UsageSessionEnded(u, n, p)
  PROVE  /\ Fine(r, b, p)
         /\ CountsOnce(u.active, u.away) => CountsOnce(r.active, r.away)
         /\ AllKept(u.away, u.index) => AllKept(r.away, r.index)
         /\ Turned(r, EndedSettled(u, n, p), u.active \ WithId(u.active, n), EndedAway(u, n),
                   EndedIndex(u, n), EndedLen(u, n))
<1>1. PICK A, W, X : A = u.active /\ W = u.away /\ X = u.index
  OBVIOUS
<1>2. /\ Shaped(u) /\ Sound(A, W, X, b, t) /\ IsFiniteSet(A) /\ IsFiniteSet(W)
      /\ Len(u.kept) \in Nat /\ Len(u.kept) <= KeptMax
  BY <1>1, StatsFields DEF Fine, Shaped
<1>3. PICK B, V, Z, k : /\ B = A \ WithId(A, n) /\ V = EndedAway(u, n) /\ Z = EndedIndex(u, n)
                        /\ k = EndedLen(u, n)
  OBVIOUS
<1>4. Turned(r, EndedSettled(u, n, p), B, V, Z, k)
  <2>1. Linked(A, W, X) /\ Dated(A, W, b, t)
    BY <1>2 DEF Sound
  <2> QED BY <1>1, <1>2, <1>3, <2>1, UsageEndedDoes
<1>5. /\ Sound(B, V, Z, b, t)
      /\ CountsOnce(A, W) => CountsOnce(B, V)
      /\ AllKept(W, X) => AllKept(V, Z)
  <2>1. CASE WithId(A, n) # {}
    <3>1. V = W /\ Z = X
      BY <1>1, <1>3, <2>1 DEF EndedAway, EndedIndex
    <3>2. B \subseteq A
      BY <1>3
    <3> QED BY <1>2, <3>1, <3>2, FewerSound
  <2>2. CASE WithId(A, n) = {}
    <3>1. V = W \ WithId(W, n) /\ Z = WithoutId(X, n) /\ B = A
      BY <1>1, <1>3, <2>2 DEF EndedAway, EndedIndex
    <3> QED BY <1>2, <3>1, EndSound
  <2> QED BY <2>1, <2>2
<1>6. Sound(B, V, Z, b, p)
  BY <1>5, SoundLater
<1>7. Fine(r, b, p)
  <2>1. V \subseteq W /\ B \subseteq A
    BY <1>1, <1>3 DEF EndedAway
  <2>2. IsFiniteSet(V) /\ IsFiniteSet(B)
    BY <1>2, <2>1, FS_Subset
  <2>3. k <= KeptMax
    BY <1>2, <1>3 DEF EndedLen, FewerId, UsageBounds
  <2> QED BY <1>4, <1>6, <2>2, <2>3, FineTurned
<1>8. r.active = B /\ r.away = V /\ r.index = Z
  BY <1>4 DEF Turned
<1> QED BY <1>1, <1>3, <1>4, <1>5, <1>7, <1>8

LEMMA ConnectedTurned ==
  ASSUME UsageBounds, NEW u, NEW b, NEW t \in Nat, Fine(u, b, t), NEW c, c \in Conns,
         NEW x, x = u.index[c], NEW r, r = UsageClientConnected(u, c)
  PROVE  /\ x = NotKept => r = u
         /\ x # NotKept => Turned(r, u.settled, u.active \cup {Bare(x)}, u.away \ WithId(u.away, x.id),
                                  Without(u.index, c), Fewer(u.index, c, Len(u.kept)))
<1>1. ASSUME x = NotKept PROVE r = u
  BY <1>1 DEF UsageClientConnected
<1>2. ASSUME x # NotKept
      PROVE  Turned(r, u.settled, u.active \cup {Bare(x)}, u.away \ WithId(u.away, x.id),
                    Without(u.index, c), Fewer(u.index, c, Len(u.kept)))
  <2>1. Shaped(u) /\ x.host = c
    BY <1>2, SoundFields DEF Fine
  <2> QED BY <1>2, <2>1, UsageConnectedDoes
<1> QED BY <1>1, <1>2

LEMMA ConnectedFine ==
  ASSUME UsageBounds, NEW u, NEW b, NEW t \in Nat, Fine(u, b, t), NEW c, c \in Conns,
         NEW p, p = t + 1, NEW r, r = UsageClientConnected(u, c)
  PROVE  /\ Fine(r, b, p)
         /\ CountsOnce(u.active, u.away) => CountsOnce(r.active, r.away)
         /\ AllKept(u.away, u.index) => AllKept(r.away, r.index)
<1>0. PICK x : x = u.index[c]
  OBVIOUS
<1>1. CASE x = NotKept
  <2>1. r = u
    BY <1>0, <1>1, ConnectedTurned
  <2>2. Fine(u, b, t + 1)
    BY FineLater DEF Preserves
  <2>3. p = t + 1
    OBVIOUS
  <2> QED BY <1>1, <2>1, <2>2, <2>3
<1>2. CASE x # NotKept
  <2>1. PICK A, W, X : A = u.active /\ W = u.away /\ X = u.index
    OBVIOUS
  <2>2. /\ Shaped(u) /\ Sound(A, W, X, b, t) /\ IsFiniteSet(A) /\ IsFiniteSet(W)
        /\ Len(u.kept) \in Nat /\ Len(u.kept) <= KeptMax
    BY <2>1, StatsFields DEF Fine, Shaped
  <2>3. PICK B, V, Z, k : /\ B = A \cup {Bare(x)} /\ V = W \ WithId(W, x.id)
                          /\ Z = Without(X, c) /\ k = Fewer(X, c, Len(u.kept))
    OBVIOUS
  <2>4. Turned(r, u.settled, B, V, Z, k)
    BY <1>0, <1>2, <2>1, <2>3, ConnectedTurned
  <2>5. /\ Sound(B, V, Z, b, t)
        /\ CountsOnce(A, W) => CountsOnce(B, V)
        /\ AllKept(W, X) => AllKept(V, Z) /\ W = V \cup {x}
    <3>1. Sound(A, W, X, b, t) /\ ComesBack(A, W, X, c, x, B, V, Z)
      BY <1>0, <1>2, <2>1, <2>2, <2>3 DEF ComesBack
    <3> QED BY <3>1, ConnectSound
  <2>6. Sound(B, V, Z, b, t + 1)
    BY <2>5, SoundLater
  <2>7. Fine(r, b, t + 1)
    <3>1. IsFiniteSet(V) /\ IsFiniteSet(B)
      BY <2>2, <2>3, FS_Subset, FS_AddElement
    <3>2. k <= KeptMax
      BY <2>2, <2>3 DEF Fewer, UsageBounds
    <3> QED BY <2>4, <2>6, <3>1, <3>2, FineTurned
  <2>8. r.active = B /\ r.away = V /\ r.index = Z
    BY <2>4 DEF Turned
  <2>9. Fine(r, b, p)
    BY <2>7
  <2> QED BY <2>1, <2>5, <2>8, <2>9
<1> QED BY <1>1, <1>2

LEMMA DisconnectedFine ==
  ASSUME UsageBounds, NEW u, NEW b, NEW t \in Nat, Fine(u, b, t), NEW c, c \in Conns,
         NEW clean \in BOOLEAN, NEW S, S = HostedBy(u.active, c),
         NEW p, p = t + 1, NEW r, r = UsageClientDisconnected(u, c, clean, p)
  PROVE  /\ Fine(r, b, p)
         /\ CountsOnce(u.active, u.away) => CountsOnce(r.active, r.away)
         /\ AllKept(u.away, u.index) /\ (S # {} /\ ~clean => Len(u.kept) < KeptMax) =>
              AllKept(r.away, r.index)
<1>0. Fine(u, b, p) /\ p \in Nat /\ Len(u.kept) \in Nat /\ Len(u.kept) <= KeptMax
      /\ Sound(u.active, u.away, u.index, b, t) /\ IsFiniteSet(u.active) /\ IsFiniteSet(u.away)
  <2>1. Preserves(b, b)
    BY DEF Preserves
  <2>2. Fine(u, b, p)
    BY <2>1, FineLater
  <2>3. Shaped(u) /\ Sound(u.active, u.away, u.index, b, t) /\ u \in Stats
        /\ Len(u.kept) <= KeptMax /\ IsFiniteSet(u.active) /\ IsFiniteSet(u.away)
    BY DEF Fine, Shaped
  <2>4. Len(u.kept) \in Nat
    BY <2>3, StatsFields
  <2> QED BY <2>2, <2>3, <2>4
<1>1. CASE S = {}
  <2>1. r = u
    BY <1>1 DEF UsageClientDisconnected
  <2> QED BY <1>0, <1>1, <2>1
<1>2. CASE S # {} /\ clean
  <2>1. PICK A, W, X, B : A = u.active /\ W = u.away /\ X = u.index /\ B = A \ S
    OBVIOUS
  <2>2. Turned(r, u.settled + Duration(S, p), B, W, X, Len(u.kept))
    <3>1. Dated(A, W, b, t) /\ Shaped(u)
      BY <1>0, <2>1 DEF Sound, Fine
    <3>2. r = UsageClientDisconnected(u, c, TRUE, p)
      BY <1>2
    <3> QED BY <1>2, <2>1, <3>1, <3>2, CleanDoes
  <2>3. Sound(B, W, X, b, p) /\ (CountsOnce(A, W) => CountsOnce(B, W))
    <3>1. Sound(A, W, X, b, p) /\ B \subseteq A
      BY <1>0, <2>1 DEF Fine
    <3> QED BY <3>1, FewerSound
  <2>4. Fine(r, b, p)
    <3>1. IsFiniteSet(B) /\ IsFiniteSet(W)
      BY <1>0, <2>1, FS_Subset
    <3> QED BY <1>0, <2>2, <2>3, <3>1, FineTurned
  <2>5. r.active = B /\ r.away = W /\ r.index = X
    BY <2>2 DEF Turned
  <2> QED BY <1>2, <2>1, <2>2, <2>3, <2>4, <2>5
<1>3. CASE S # {} /\ ~clean
  <2>1. PICK s : s = CHOOSE q \in S : TRUE
    OBVIOUS
  <2>2. s \in u.active
    BY <1>3, <2>1 DEF HostedBy
  <2>3. r = TrackDisconnected(u, s, p)
    BY <1>3, <2>1 DEF UsageClientDisconnected
  <2>4. /\ Fine(r, b, p)
        /\ CountsOnce(u.active, u.away) => CountsOnce(r.active, r.away)
        /\ Len(u.kept) < KeptMax /\ AllKept(u.away, u.index) => AllKept(r.away, r.index)
    BY <1>0, <2>2, <2>3, TrackFine
  <2> QED BY <1>3, <2>4
<1> QED BY <1>1, <1>2, <1>3

\* lowmemory evicted nothing, if it still has not.
LowStays(l, m) ==
  m.evictions = 0 =>
    /\ l.evictions = 0
    /\ \A c \in Conns : l.evicted[c] = NotKept => m.evicted[c] = NotKept

LEMMA LowFields ==
  ASSUME UsageBounds, NEW l, NEW b, NEW t, LowSound(l, b, t)
  PROVE  /\ l = [stats |-> l.stats, evicted |-> l.evicted, evictions |-> l.evictions]
         /\ l.evicted \in Index /\ l.evictions \in Nat
         /\ \A c \in Conns : l.evicted[c] \in LeftSession \cup {NotKept}
         /\ \A c \in Conns : l.evicted[c] # NotKept =>
              /\ l.evicted[c].host = c /\ Began(b, l.evicted[c])
              /\ l.evicted[c].start \in 1..t /\ l.evicted[c] \in LeftSession
BY DEF LowSound, Index

\* The evicted sessions are those of before, without some, and with z for one.
LEMMA LowChanged ==
  ASSUME UsageBounds, NEW l, NEW b, NEW t \in Nat, LowSound(l, b, t),
         NEW m, NEW u, NEW y, NEW n \in Nat, m = [stats |-> u, evicted |-> y, evictions |-> n],
         y \in Index,
         \A c \in Conns : \/ y[c] = l.evicted[c] \/ y[c] = NotKept
                          \/ y[c].host = c /\ Began(b, y[c]) /\ y[c].start \in 1..t
  PROVE  LowSound(m, b, t)
<1>1. m.stats = u /\ m.evicted = y /\ m.evictions = n
  OBVIOUS
<1>2. \A c \in Conns : y[c] # NotKept => y[c].host = c /\ Began(b, y[c]) /\ y[c].start \in 1..t
  BY LowFields
<1> QED BY <1>1, <1>2 DEF LowSound

LEMMA LowLater ==
  ASSUME UsageBounds, NEW l, NEW b, NEW t \in Nat, LowSound(l, b, t), NEW c, Preserves(b, c)
  PROVE  LowSound(l, c, t + 1)
<1>1. /\ l = [stats |-> l.stats, evicted |-> l.evicted, evictions |-> l.evictions]
      /\ l.evicted \in Index /\ l.evictions \in Nat
  BY LowFields
<1>2. ASSUME NEW d \in Conns, l.evicted[d] # NotKept
      PROVE  l.evicted[d].host = d /\ Began(c, l.evicted[d]) /\ l.evicted[d].start \in 1..(t + 1)
  <2>1. /\ l.evicted[d].host = d /\ Began(b, l.evicted[d])
        /\ l.evicted[d].start \in 1..t /\ l.evicted[d] \in LeftSession
    BY <1>2, LowFields
  <2>2. Began(c, l.evicted[d])
    BY <2>1 DEF Preserves
  <2>3. l.evicted[d].start \in 1..(t + 1)
    BY <2>1
  <2> QED BY <2>1, <2>2, <2>3
<1> QED BY <1>1, <1>2 DEF LowSound

LEMMA LowStartedDoes ==
  ASSUME UsageBounds, NEW l, NEW b, NEW t \in Nat, LowSound(l, b, t), NEW s, s \in UsageSession,
         NEW e, e = l.evicted[s.host], NEW m, m = LowSessionStarted(l, s)
  PROVE  /\ m.stats = StartedWithout(l.stats, s, e)
         /\ LowSound(m, b, t) /\ LowStays(l, m) /\ m.evictions = l.evictions
         /\ e # NotKept => e.host = s.host /\ Began(b, e)
<1>1. s.host \in Conns
  BY DEF UsageSession
<1>2. PICK u, y : /\ u = StartedWithout(l.stats, s, e)
                  /\ y = [l.evicted EXCEPT ![s.host] = NotKept]
  OBVIOUS
<1>3. m = [stats |-> u, evicted |-> y, evictions |-> l.evictions]
  <2>1. PICK v, ev, k : /\ v = l.stats /\ ev = l.evicted /\ k = l.evictions
                        /\ l = [stats |-> v, evicted |-> ev, evictions |-> k]
    BY LowFields
  <2>2. m = [l EXCEPT !.stats = u, !.evicted[s.host] = NotKept]
    <3>1. PICK g, a : g = UsageSessionStarted(l.stats, s) /\ a = g.away \ WithId(g.away, e.id)
      OBVIOUS
    <3>2. u = [g EXCEPT !.away = a]
      BY <1>2, <3>1 DEF StartedWithout
    <3>3. m = [l EXCEPT !.stats = [g EXCEPT !.away = a], !.evicted[s.host] = NotKept]
      BY <3>1 DEF LowSessionStarted
    <3> QED BY Zenon, <3>2, <3>3
  <2>3. y = [ev EXCEPT ![s.host] = NotKept]
    BY <1>2, <2>1
  <2>4. m = [stats |-> u, evicted |-> y, evictions |-> k]
    BY <2>1, <2>2, <2>3
  <2> QED BY <2>1, <2>4
<1>4. y \in Index /\ \A c \in Conns : y[c] = IF c = s.host THEN NotKept ELSE l.evicted[c]
  BY <1>1, <1>2, LowFields DEF Index
<1>5. LowSound(m, b, t)
  <2>1. \A c \in Conns : y[c] = l.evicted[c] \/ y[c] = NotKept
    BY <1>4
  <2>2. l.evictions \in Nat
    BY LowFields
  <2> QED BY <1>3, <1>4, <2>1, <2>2, LowChanged
<1>6. m.stats = u /\ m.evicted = y /\ m.evictions = l.evictions
  BY <1>3
<1>7. LowStays(l, m)
  BY <1>4, <1>6 DEF LowStays
<1>8. e # NotKept => e.host = s.host /\ Began(b, e)
  BY <1>1, LowFields
<1> QED BY <1>2, <1>5, <1>6, <1>7, <1>8

LEMMA LowConnectedDoes ==
  ASSUME UsageBounds, NEW l, NEW b, NEW t \in Nat, LowSound(l, b, t), NEW c, c \in Conns,
         NEW m, m = LowClientConnected(l, c)
  PROVE  /\ m.stats = UsageClientConnected(l.stats, c)
         /\ LowSound(m, b, t) /\ LowStays(l, m) /\ m.evictions = l.evictions
<1>1. PICK u, y : /\ u = UsageClientConnected(l.stats, c)
                  /\ y = [l.evicted EXCEPT ![c] = IF l.stats.index[c] # NotKept THEN @ ELSE NotKept]
  OBVIOUS
<1>2. m = [stats |-> u, evicted |-> y, evictions |-> l.evictions]
  <2>1. PICK v, ev, k : /\ v = l.stats /\ ev = l.evicted /\ k = l.evictions
                        /\ l = [stats |-> v, evicted |-> ev, evictions |-> k]
    BY LowFields
  <2>2. m = [l EXCEPT !.stats = u,
                      !.evicted[c] = IF l.stats.index[c] # NotKept THEN @ ELSE NotKept]
    BY <1>1, <2>1 DEF LowClientConnected
  <2>3. y = [ev EXCEPT ![c] = IF v.index[c] # NotKept THEN @ ELSE NotKept]
    BY <1>1, <2>1
  <2>4. m = [stats |-> u, evicted |-> y, evictions |-> k]
    BY <2>1, <2>2, <2>3
  <2> QED BY <2>1, <2>4
<1>3. y \in Index /\ \A d \in Conns : y[d] = l.evicted[d] \/ y[d] = NotKept
  BY <1>1, LowFields DEF Index
<1>4. LowSound(m, b, t)
  <2>1. l.evictions \in Nat
    BY LowFields
  <2> QED BY <1>2, <1>3, <2>1, LowChanged
<1>5. m.stats = u /\ m.evicted = y /\ m.evictions = l.evictions
  BY <1>2
<1>6. LowStays(l, m)
  BY <1>3, <1>5 DEF LowStays
<1> QED BY <1>1, <1>4, <1>5, <1>6

\* The oldest of those that are kept is evicted, if none is to spare.
LEMMA LowTrackDoes ==
  ASSUME UsageBounds, NEW l, NEW b, NEW t \in Nat, LowSound(l, b, t), Fine(l.stats, b, t),
         NEW s, s \in l.stats.active, NEW m, m = LowTrack(l, s, t)
  PROVE  /\ m.stats = TrackDisconnected(l.stats, s, t)
         /\ LowSound(m, b, t)
         /\ Len(l.stats.kept) < KeptMax => m.evictions = l.evictions /\ m.evicted = l.evicted
         /\ ~(Len(l.stats.kept) < KeptMax) => m.evictions = l.evictions + 1
<1>1. PICK u, q, x : u = l.stats /\ q = u.kept /\ x = u.index
  OBVIOUS
<1>2. /\ Shaped(u) /\ Sound(u.active, u.away, x, b, t) /\ s \in u.active /\ x[s.host] = NotKept
      /\ q \in Seq(LeftSession) /\ Len(q) \in Nat /\ Holds(q, x) /\ u \in Stats
  BY <1>1, StatsFields, SoundFields DEF Fine, Shaped
<1>3. RemoveDisconnected(u, s.host).kept = q
  BY <1>1, <1>2 DEF RemoveDisconnected
<1>4. PICK v : v = TrackDisconnected(u, s, t)
  OBVIOUS
<1>5. l = [stats |-> u, evicted |-> l.evicted, evictions |-> l.evictions] /\ l.evictions \in Nat
  BY <1>1, LowFields
<1>6. CASE Len(q) < KeptMax
  <2>1. m = [l EXCEPT !.stats = v]
    BY <1>1, <1>3, <1>4, <1>5, <1>6 DEF LowTrack
  <2>2. m = [stats |-> v, evicted |-> l.evicted, evictions |-> l.evictions]
    BY <1>5, <2>1
  <2>3. l.evicted \in Index
    BY LowFields
  <2>4. LowSound(m, b, t)
    BY <1>5, <2>2, <2>3, LowChanged
  <2> QED BY <1>1, <1>4, <1>6, <2>2, <2>4
<1>7. CASE ~(Len(q) < KeptMax)
  <2>1. PICK e, y : e = q[1] /\ y = [l.evicted EXCEPT ![e.host] = e]
    OBVIOUS
  <2>2. m = [l EXCEPT !.stats = v, !.evicted = y, !.evictions = l.evictions + 1]
    BY <1>1, <1>3, <1>4, <1>5, <1>7, <2>1 DEF LowTrack
  <2>3. m = [stats |-> v, evicted |-> y, evictions |-> l.evictions + 1]
    BY <1>5, <2>2
  <2>4. 1 \in 1..Len(q)
    BY <1>2, <1>7 DEF UsageBounds
  <2>5. e \in LeftSession /\ x[e.host] = e /\ e.host \in Conns /\ e # NotKept
    <3>1. e \in LeftSession /\ x[e.host] = e
      BY <1>2, <2>1, <2>4, ElementOfSeq DEF Holds
    <3> QED BY <3>1, NotKeptIsNone DEF LeftSession
  <2>6. Began(b, e) /\ e.start \in 1..t
    <3>1. e \in u.away
      BY <1>2, <2>5, SoundFields
    <3> QED BY <1>2, <3>1, SoundFields DEF Began
  <2>7. y \in Index /\ \A c \in Conns : y[c] = IF c = e.host THEN e ELSE l.evicted[c]
    BY <2>1, <2>5, LowFields DEF Index
  <2>8. LowSound(m, b, t)
    <3>1. \A c \in Conns : \/ y[c] = l.evicted[c] \/ y[c] = NotKept
                           \/ y[c].host = c /\ Began(b, y[c]) /\ y[c].start \in 1..t
      BY <2>6, <2>7
    <3>2. l.evictions + 1 \in Nat
      BY <1>5
    <3> QED BY <2>3, <2>7, <3>1, <3>2, LowChanged
  <2> QED BY <1>1, <1>4, <1>7, <2>3, <2>8
<1> QED BY <1>6, <1>7

LEMMA LowDisconnectedDoes ==
  ASSUME UsageBounds, NEW l, NEW b, NEW t \in Nat, LowSound(l, b, t), Fine(l.stats, b, t),
         NEW c, c \in Conns, NEW clean \in BOOLEAN, NEW S, S = HostedBy(l.stats.active, c),
         NEW m, m = LowClientDisconnected(l, c, clean, t)
  PROVE  /\ m.stats = UsageClientDisconnected(l.stats, c, clean, t)
         /\ LowSound(m, b, t) /\ LowStays(l, m)
         /\ m.evictions = 0 /\ S # {} /\ ~clean => Len(l.stats.kept) < KeptMax
<1>1. l = [stats |-> l.stats, evicted |-> l.evicted, evictions |-> l.evictions]
      /\ l.evictions \in Nat /\ l.evicted \in Index
  BY LowFields
<1>2. CASE S = {} \/ clean
  <2>1. PICK v : v = UsageClientDisconnected(l.stats, c, clean, t)
    OBVIOUS
  <2>2. m = [l EXCEPT !.stats = v]
    BY <1>1, <1>2, <2>1 DEF LowClientDisconnected
  <2>3. m = [stats |-> v, evicted |-> l.evicted, evictions |-> l.evictions]
    BY <1>1, <2>2
  <2>4. LowSound(m, b, t)
    BY <1>1, <2>3, LowChanged
  <2>5. LowStays(l, m)
    BY <2>3 DEF LowStays
  <2> QED BY <1>2, <2>1, <2>3, <2>4, <2>5
<1>3. CASE S # {} /\ ~clean
  <2>1. PICK s : s = CHOOSE q \in S : TRUE
    OBVIOUS
  <2>2. s \in l.stats.active
    BY <1>3, <2>1 DEF HostedBy
  <2>3. m = LowTrack(l, s, t)
    BY <1>3, <2>1 DEF LowClientDisconnected
  <2>4. UsageClientDisconnected(l.stats, c, clean, t) = TrackDisconnected(l.stats, s, t)
    BY <1>3, <2>1 DEF UsageClientDisconnected
  <2>5. /\ m.stats = TrackDisconnected(l.stats, s, t)
        /\ LowSound(m, b, t)
        /\ Len(l.stats.kept) < KeptMax => m.evictions = l.evictions /\ m.evicted = l.evicted
        /\ ~(Len(l.stats.kept) < KeptMax) => m.evictions = l.evictions + 1
    BY <2>2, <2>3, LowTrackDoes
  <2>6. m.evictions = 0 => Len(l.stats.kept) < KeptMax
    BY <1>1, <2>5
  <2>7. LowStays(l, m)
    BY <2>5, <2>6 DEF LowStays
  <2> QED BY <2>4, <2>5, <2>6, <2>7
<1> QED BY <1>2, <1>3

LEMMA LowEndedDoes ==
  ASSUME UsageBounds, NEW l, NEW b, NEW t \in Nat, LowSound(l, b, t), Fine(l.stats, b, t),
         NEW n, n \in SessionNos, NEW m, m = LowSessionEnded(l, n, t + 1)
  PROVE  /\ Fine(m.stats, b, t + 1)
         /\ CountsOnce(l.stats.active, l.stats.away) => CountsOnce(m.stats.active, m.stats.away)
         /\ LowSound(m, b, t + 1) /\ LowStays(l, m) /\ m.evictions = l.evictions
         /\ (\A c \in Conns : l.evicted[c] = NotKept) => m.stats = UsageSessionEnded(l.stats, n, t + 1)
<1>1. l = [stats |-> l.stats, evicted |-> l.evicted, evictions |-> l.evictions]
      /\ l.evictions \in Nat /\ l.evicted \in Index
  BY LowFields
<1>2. PICK late : late = {l.evicted[c] : c \in {d \in Conns : l.evicted[d].id = n}}
  OBVIOUS
<1>3. n # 0 /\ NotKept.id = 0
  BY DEF UsageBounds, NotKept
<1>4. (\A c \in Conns : l.evicted[c] = NotKept) => late = {}
  BY <1>2, <1>3
<1>5. Preserves(b, b)
  BY DEF Preserves
<1>6. CASE WithId(l.stats.active \cup l.stats.away, n) # {} \/ late = {}
  <2>1. PICK v : v = UsageSessionEnded(l.stats, n, t + 1)
    OBVIOUS
  <2>2. m = [l EXCEPT !.stats = v]
    BY <1>1, <1>2, <1>6, <2>1 DEF LowSessionEnded
  <2>3. m = [stats |-> v, evicted |-> l.evicted, evictions |-> l.evictions]
    BY <1>1, <2>2
  <2>4. LowSound(m, b, t)
    BY <1>1, <2>3, LowChanged
  <2>5. LowSound(m, b, t + 1)
    BY <1>5, <2>4, LowLater
  <2>6. LowStays(l, m)
    BY <2>3 DEF LowStays
  <2>7. Fine(v, b, t + 1) /\ (CountsOnce(l.stats.active, l.stats.away) => CountsOnce(v.active, v.away))
    <3>1. PICK u : u = l.stats
      OBVIOUS
    <3>2. Fine(u, b, t) /\ v = UsageSessionEnded(u, n, t + 1)
      BY <2>1, <3>1
    <3>4. PICK q : q = t + 1
      OBVIOUS
    <3>5. v = UsageSessionEnded(u, n, q)
      BY <3>2, <3>4
    <3>3. Fine(v, b, q) /\ (CountsOnce(u.active, u.away) => CountsOnce(v.active, v.away))
      BY <3>2, <3>4, <3>5, EndedFine
    <3> QED BY <3>1, <3>3, <3>4
  <2>8. m.stats = v /\ m.evictions = l.evictions
    BY <2>3
  <2> QED BY <2>1, <2>5, <2>6, <2>7, <2>8
<1>7. CASE ~(WithId(l.stats.active \cup l.stats.away, n) # {} \/ late = {})
  <2>1. PICK e : e = CHOOSE s \in late : TRUE
    OBVIOUS
  <2>2. e \in late
    BY <1>7, <2>1
  <2>3. PICK c \in Conns : e = l.evicted[c] /\ e.id = n
    BY <1>2, <2>2
  <2>4. e # NotKept /\ e.host = c /\ e.start \in 1..t
    BY <1>3, <2>3, LowFields
  <2>5. m = [l EXCEPT !.stats.settled = @ + (t + 1) - e.start, !.evicted[e.host] = NotKept]
    BY <1>2, <1>7, <2>1 DEF LowSessionEnded
  <2>6. PICK u, d : u = l.stats /\ d = u.settled + (t + 1) - e.start
    OBVIOUS
  <2>7. /\ Shaped(u) /\ Sound(u.active, u.away, u.index, b, t) /\ u \in Stats /\ u.settled \in Nat
    BY <2>6, StatsFields DEF Fine, Shaped
  <2>8. d \in Nat
    <3>1. PICK z \in Nat : z = u.settled
      BY <2>7
    <3> QED BY <2>4, <2>6, <3>1
  <2>9. PICK v, y : v = [u EXCEPT !.settled = d] /\ y = [l.evicted EXCEPT ![c] = NotKept]
    OBVIOUS
  <2>10. m = [stats |-> v, evicted |-> y, evictions |-> l.evictions]
    <3>1. m = [l EXCEPT !.stats = v, !.evicted = y]
      BY <1>1, <2>4, <2>5, <2>6, <2>9
    <3> QED BY <1>1, <3>1
  <2>11. /\ v \in Stats /\ v.active = u.active /\ v.away = u.away /\ v.index = u.index
         /\ v.kept = u.kept
    BY <2>7, <2>8, <2>9 DEF Stats
  <2>12. Fine(v, b, t + 1)
    <3>1. Fine(v, b, t)
      BY <2>7, <2>11 DEF Fine, Shaped
    <3> QED BY <1>5, <3>1, FineLater
  <2>13. y \in Index /\ \A h \in Conns : y[h] = l.evicted[h] \/ y[h] = NotKept
    BY <1>1, <2>9 DEF Index
  <2>14. LowSound(m, b, t)
    BY <1>1, <2>10, <2>13, LowChanged
  <2>15. LowSound(m, b, t + 1)
    BY <1>5, <2>14, LowLater
  <2>16. LowStays(l, m)
    BY <2>10, <2>13 DEF LowStays
  <2>17. m.stats = v /\ m.evictions = l.evictions
    BY <2>10
  <2> QED BY <1>4, <1>7, <2>6, <2>11, <2>12, <2>15, <2>16, <2>17
<1> QED BY <1>6, <1>7

LowAfter(l, order, t, k, g) ==
  g = [n \in 0..k |-> IF n = 0 THEN l ELSE LowTrack(g[n - 1], order[n], t)]

LEMMA LowAfterExists ==
  ASSUME NEW l, NEW order, NEW t, NEW k \in Nat
  PROVE  \E g : LowAfter(l, order, t, k, g)
<1> DEFINE N == {m \in Nat : \E g : LowAfter(l, order, t, m, g)}
<1>1. 0 \in N
  <2>1. PICK g : g = [n \in 0..0 |-> l]
    OBVIOUS
  <2>2. \A n \in 0..0 : n = 0
    OBVIOUS
  <2>3. g = [n \in 0..0 |-> IF n = 0 THEN l ELSE LowTrack(g[n - 1], order[n], t)]
    BY <2>1, <2>2
  <2> QED BY <2>3 DEF LowAfter
<1>2. ASSUME NEW m \in Nat, m \in N PROVE m + 1 \in N
  <2>1. PICK g : LowAfter(l, order, t, m, g)
    BY <1>2
  <2>2. g = [n \in 0..m |-> IF n = 0 THEN l ELSE LowTrack(g[n - 1], order[n], t)]
    BY <2>1 DEF LowAfter
  <2>3. PICK h : h = [n \in 0..(m + 1) |-> IF n \in 0..m THEN g[n] ELSE LowTrack(g[m], order[n], t)]
    OBVIOUS
  <2>4. \A n \in 0..(m + 1) : h[n] = IF n = 0 THEN l ELSE LowTrack(h[n - 1], order[n], t)
    <3> TAKE n \in 0..(m + 1)
    <3>1. CASE n = 0
      BY <2>2, <2>3, <3>1
    <3>2. CASE n # 0 /\ n \in 0..m
      <4>1. n - 1 \in 0..m /\ n - 1 \in 0..(m + 1)
        BY <3>2
      <4>2. h[n] = g[n] /\ h[n - 1] = g[n - 1]
        BY <2>3, <3>2, <4>1
      <4>3. g[n] = LowTrack(g[n - 1], order[n], t)
        BY <2>2, <3>2
      <4> QED BY <3>2, <4>2, <4>3
    <3>3. CASE n = m + 1
      <4>1. n - 1 = m /\ m \in 0..m /\ m \in 0..(m + 1) /\ n \notin 0..m /\ n # 0
        BY <3>3
      <4>2. h[n] = LowTrack(g[m], order[n], t) /\ h[m] = g[m]
        BY <2>3, <4>1
      <4> QED BY <4>1, <4>2
    <3> QED BY <3>1, <3>2, <3>3
  <2>5. h = [n \in 0..(m + 1) |-> IF n = 0 THEN l ELSE LowTrack(h[n - 1], order[n], t)]
    BY <2>3, <2>4
  <2>6. LowAfter(l, order, t, m + 1, h)
    BY <2>5 DEF LowAfter
  <2>7. m + 1 \in Nat
    OBVIOUS
  <2> QED BY Zenon, <2>6, <2>7
<1> QED BY <1>1, <1>2, SetInduction

LEMMA LowServerAfter ==
  ASSUME NEW l, NEW order, NEW t, Len(order) \in Nat
  PROVE  \E g : /\ LowAfter(l, order, t, Len(order), g)
                /\ LowServerStarted(l, order, t) = g[Len(order)]
<1>1. PICK g : g = CHOOSE h : LowAfter(l, order, t, Len(order), h)
  OBVIOUS
<1>2. LowAfter(l, order, t, Len(order), g)
  BY <1>1, LowAfterExists
<1>3. LowServerStarted(l, order, t) = g[Len(order)]
  BY <1>1 DEF LowServerStarted, LowAfter
<1> QED BY <1>2, <1>3

\* As far as the loop is, lowmemory has left what UsageStats would have left.
LowLeaving(l, m, u, b, t, n) ==
  /\ m.stats = u /\ LowSound(m, b, t) /\ m.evictions >= l.evictions
  /\ m.evictions = 0 => /\ l.evictions = 0 /\ m.evicted = l.evicted
                        /\ Len(l.stats.kept) + n <= KeptMax

LEMMA LowLeavingStep ==
  ASSUME UsageBounds, NEW l, NEW b, NEW t \in Nat, LowSound(l, b, t), Fine(l.stats, b, t),
         NEW n \in Nat, NEW u, Leaving(l.stats, u, b, t),
         Len(l.stats.kept) + n <= KeptMax => LeavingAll(l.stats, u, n, t),
         NEW m, LowLeaving(l, m, u, b, t, n), NEW s, s \in u.active,
         NEW v, v = TrackDisconnected(u, s, t), NEW p, p = LowTrack(m, s, t)
  PROVE  LowLeaving(l, p, v, b, t, n + 1)
<1>1. m.stats = u /\ LowSound(m, b, t) /\ m.evictions \in Nat /\ l.evictions \in Nat /\ m.evictions >= l.evictions
  BY LowFields DEF LowLeaving
<1>2. Fine(u, b, t)
  BY DEF Leaving
<1>3. /\ p.stats = v /\ LowSound(p, b, t)
      /\ Len(u.kept) < KeptMax => p.evictions = m.evictions /\ p.evicted = m.evicted
      /\ ~(Len(u.kept) < KeptMax) => p.evictions = m.evictions + 1
  <2>1. Fine(m.stats, b, t) /\ s \in m.stats.active
    BY <1>1, <1>2
  <2>2. /\ p.stats = TrackDisconnected(m.stats, s, t) /\ LowSound(p, b, t)
        /\ Len(m.stats.kept) < KeptMax => p.evictions = m.evictions /\ p.evicted = m.evicted
        /\ ~(Len(m.stats.kept) < KeptMax) => p.evictions = m.evictions + 1
    BY <1>1, <2>1, LowTrackDoes
  <2> QED BY <1>1, <2>2
<1>4. p.evictions >= l.evictions
  BY <1>1, <1>3
<1>5. ASSUME p.evictions = 0
      PROVE  l.evictions = 0 /\ p.evicted = l.evicted /\ Len(l.stats.kept) + (n + 1) <= KeptMax
  <2>1. Len(u.kept) < KeptMax /\ m.evictions = 0 /\ p.evicted = m.evicted
    BY <1>1, <1>3, <1>5
  <2>2. l.evictions = 0 /\ m.evicted = l.evicted /\ Len(l.stats.kept) + n <= KeptMax
    BY <2>1 DEF LowLeaving
  <2>3. Len(u.kept) = Len(l.stats.kept) + n
    BY <2>2 DEF LeavingAll
  <2>4. PICK k \in Nat, j \in Nat : k = Len(l.stats.kept) /\ j = KeptMax
    BY StatsFields DEF Fine, Shaped, UsageBounds
  <2>5. k + n < j
    BY <2>1, <2>3, <2>4
  <2>6. k + (n + 1) <= j
    BY <2>5
  <2> QED BY <2>1, <2>2, <2>4, <2>6
<1> QED BY <1>3, <1>4, <1>5 DEF LowLeaving

LEMMA LowAfterDoes ==
  ASSUME UsageBounds, NEW l, NEW b, NEW t \in Nat, LowSound(l, b, t), Fine(l.stats, b, t),
         NEW order, order \in SetToSeqs(l.stats.active),
         NEW g, After(l.stats, order, t, Len(order), g),
         NEW h, LowAfter(l, order, t, Len(order), h)
  PROVE  \A n \in 0..Len(order) : LowLeaving(l, h[n], g[n], b, t, n)
<1>1. IsFiniteSet(l.stats.active) /\ Len(l.stats.kept) \in Nat /\ Len(l.stats.kept) <= KeptMax
  BY StatsFields DEF Fine, Shaped
<1>2. PICK k \in Nat : k = Len(order)
  BY <1>1, OrderIs
<1>3. /\ g = [n \in 0..k |-> IF n = 0 THEN l.stats ELSE TrackDisconnected(g[n - 1], order[n], t)]
      /\ h = [n \in 0..k |-> IF n = 0 THEN l ELSE LowTrack(h[n - 1], order[n], t)]
  BY <1>2 DEF After, LowAfter
<1>4. \A n \in 0..k :
        /\ Leaving(l.stats, g[n], b, t)
        /\ \A m \in 1..k : order[m] \in g[n].active <=> m > n
        /\ Len(l.stats.kept) + n <= KeptMax => LeavingAll(l.stats, g[n], n, t)
  <2>1. PICK u : u = l.stats
    OBVIOUS
  <2>2. Fine(u, b, t) /\ order \in SetToSeqs(u.active) /\ After(u, order, t, Len(order), g)
    BY <2>1
  <2>3. \A n \in 0..Len(order) :
          /\ Leaving(u, g[n], b, t) /\ Cardinality(g[n].active) = Len(order) - n
          /\ \A m \in 1..Len(order) : order[m] \in g[n].active <=> m > n
          /\ n > 0 => g[n] = TrackDisconnected(g[n - 1], order[n], t)
          /\ Len(u.kept) + n <= KeptMax => LeavingAll(u, g[n], n, t)
    BY <2>2, AfterDoes
  <2> QED BY <1>2, <2>1, <2>3
<1> DEFINE N == {n \in Nat : n <= k => LowLeaving(l, h[n], g[n], b, t, n)}
<1>5. 0 \in N
  <2>1. g[0] = l.stats /\ h[0] = l
    BY <1>3
  <2>2. Len(l.stats.kept) + 0 <= KeptMax /\ l.evictions >= l.evictions
    <3>1. l.evictions \in Nat
      BY LowFields
    <3>2. Len(l.stats.kept) + 0 = Len(l.stats.kept)
      BY <1>1
    <3> QED BY <1>1, <3>1, <3>2
  <2>3. LowLeaving(l, l, l.stats, b, t, 0)
    BY <2>2 DEF LowLeaving
  <2> QED BY <2>1, <2>3
<1>6. ASSUME NEW n \in Nat, n \in N PROVE n + 1 \in N
  <2> SUFFICES ASSUME n + 1 <= k PROVE LowLeaving(l, h[n + 1], g[n + 1], b, t, n + 1)
    OBVIOUS
  <2>1. /\ n \in 0..k /\ n + 1 \in 1..k /\ n + 1 \in 0..k /\ n + 1 # 0 /\ (n + 1) - 1 = n /\ n + 1 > n
        /\ LowLeaving(l, h[n], g[n], b, t, n)
    BY <1>2, <1>6
  <2>2. PICK s, u, m, v, p : /\ s = order[n + 1] /\ u = g[n] /\ m = h[n]
                             /\ v = g[n + 1] /\ p = h[n + 1]
    OBVIOUS
  <2>3. v = TrackDisconnected(u, s, t) /\ p = LowTrack(m, s, t)
    BY <1>3, <2>1, <2>2
  <2>4. /\ s \in u.active /\ Leaving(l.stats, u, b, t) /\ LowLeaving(l, m, u, b, t, n)
        /\ Len(l.stats.kept) + n <= KeptMax => LeavingAll(l.stats, u, n, t)
    BY <1>4, <2>1, <2>2
  <2>5. LowLeaving(l, p, v, b, t, n + 1)
    BY <2>3, <2>4, LowLeavingStep
  <2> QED BY <2>2, <2>5
<1>7. Nat \subseteq N
  <2> HIDE DEF N
  <2> QED BY <1>5, <1>6, SetInduction
<1>8. \A n \in 0..k : LowLeaving(l, h[n], g[n], b, t, n)
  <2>1. \A n \in 0..k : n \in Nat /\ n <= k
    BY <1>2
  <2> QED BY <1>7, <2>1
<1> QED BY <1>2, <1>8

LEMMA LowServerDoes ==
  ASSUME UsageBounds, NEW l, NEW b, NEW t \in Nat, LowSound(l, b, t), Fine(l.stats, b, t),
         NEW order, order \in SetToSeqs(l.stats.active), NEW m, m = LowServerStarted(l, order, t)
  PROVE  /\ m.stats = UsageServerStarted(l.stats, order, t)
         /\ LowSound(m, b, t) /\ LowStays(l, m)
         /\ m.evictions = 0 => Len(l.stats.kept) + Cardinality(l.stats.active) <= KeptMax
<1>1. IsFiniteSet(l.stats.active)
  BY DEF Fine, Shaped
<1>2. PICK k \in Nat : k = Len(order) /\ k = Cardinality(l.stats.active)
  BY <1>1, OrderIs
<1>3. PICK g : After(l.stats, order, t, Len(order), g)
               /\ UsageServerStarted(l.stats, order, t) = g[Len(order)]
  BY <1>2, ServerAfter
<1>4. PICK h : LowAfter(l, order, t, Len(order), h) /\ m = h[Len(order)]
  BY <1>2, LowServerAfter
<1>5. \A n \in 0..Len(order) : LowLeaving(l, h[n], g[n], b, t, n)
  BY <1>3, <1>4, LowAfterDoes
<1>6. Len(order) \in 0..Len(order)
  BY <1>2
<1>7. LowLeaving(l, m, UsageServerStarted(l.stats, order, t), b, t, k)
  BY <1>2, <1>3, <1>4, <1>5, <1>6
<1> QED BY <1>2, <1>7 DEF LowLeaving, LowStays

\* What fullstate holds is of its types, and began.
LEMMA FullIs ==
  ASSUME NEW f, NEW b, NEW t, FullSound(f, b, t)
  PROVE  /\ f \in FullStats /\ IsFiniteSet(f.sessions) /\ f.sessions \subseteq UsageSession
         /\ f.settled \in Nat /\ f.downs \in [Conns -> Nat]
         /\ f = [settled |-> f.settled, sessions |-> f.sessions, downs |-> f.downs]
         /\ \A s \in f.sessions : Began(b, s) /\ s.start \in 1..t
BY FullFields DEF FullSound

LEMMA FullChanged ==
  ASSUME NEW b, NEW t, NEW z \in Nat, NEW S, S \subseteq UsageSession, IsFiniteSet(S),
         NEW d, d \in [Conns -> Nat], \A s \in S : Began(b, s) /\ s.start \in 1..t,
         NEW g, g = [settled |-> z, sessions |-> S, downs |-> d]
  PROVE  FullSound(g, b, t)
BY DEF FullSound, FullStats

LEMMA FullLater ==
  ASSUME NEW f, NEW b, NEW t \in Nat, FullSound(f, b, t), NEW c, Preserves(b, c)
  PROVE  FullSound(f, c, t + 1)
<1>1. \A s \in f.sessions : Began(c, s) /\ s.start \in 1..(t + 1)
  BY FullIs DEF Preserves
<1> QED BY <1>1, FullIs DEF FullSound

LEMMA FullServerSound ==
  ASSUME NEW f, NEW b, NEW t \in Nat, FullSound(f, b, t), NEW g, g = FullServerStarted(f, t)
  PROVE  FullSound(g, b, t)
<1>1. PICK d : d = [c \in Conns |-> IF HostedBy(f.sessions, c) # {} /\ f.downs[c] = 0 THEN t ELSE f.downs[c]]
  OBVIOUS
<1>2. d \in [Conns -> Nat]
  BY <1>1, FullIs
<1>3. g = [settled |-> f.settled, sessions |-> f.sessions, downs |-> d]
  BY <1>1, FullIs DEF FullServerStarted
<1> QED BY <1>2, <1>3, FullIs, FullChanged

LEMMA FullStartedSound ==
  ASSUME NEW f, NEW b, NEW t \in Nat, FullSound(f, b, t),
         NEW s, Starts(b, t, s), NEW g, g = FullSessionStarted(f, s)
  PROVE  FullSound(g, b, t)
<1>0. s \in UsageSession /\ Began(b, s) /\ s.start \in 1..t
  BY DEF Starts
<1>1. PICK R : R = f.sessions \ (HostedBy(f.sessions, s.host) \cup WithId(f.sessions, s.id))
  OBVIOUS
<1>2. PICK S : S = R \cup {s}
  OBVIOUS
<1>3. g = [settled |-> f.settled, sessions |-> S, downs |-> f.downs]
  <2>1. PICK st, se, dn : st = f.settled /\ se = f.sessions /\ dn = f.downs
    OBVIOUS
  <2>2. f = [settled |-> st, sessions |-> se, downs |-> dn]
    BY <2>1, FullIs
  <2>3. g = [f EXCEPT !.sessions = S]
    BY <1>1, <1>2 DEF FullSessionStarted
  <2> QED BY <2>1, <2>2, <2>3
<1>4. IsFiniteSet(S) /\ S \subseteq UsageSession
  <2>1. R \subseteq f.sessions
    BY <1>1
  <2>2. IsFiniteSet(R)
    BY <2>1, FullIs, FS_Subset
  <2> QED BY <1>0, <1>2, <2>1, <2>2, FullIs, FS_AddElement
<1>5. \A r \in S : Began(b, r) /\ r.start \in 1..t
  BY <1>0, <1>1, <1>2, FullIs
<1> QED BY <1>3, <1>4, <1>5, FullIs, FullChanged

LEMMA FullEndedSound ==
  ASSUME NEW f, NEW b, NEW t \in Nat, FullSound(f, b, t), NEW n, NEW g, g = FullSessionEnded(f, n, t)
  PROVE  FullSound(g, b, t)
<1>1. PICK E, S, z, d : /\ E = WithId(f.sessions, n) /\ S = f.sessions \ E
                        /\ z = f.settled + Duration(E, t)
                        /\ d = [c \in Conns |-> IF HostedBy(E, c) # {} THEN 0 ELSE f.downs[c]]
  OBVIOUS
<1>2. g = [settled |-> z, sessions |-> S, downs |-> d]
  <2>1. PICK st, se, dn : st = f.settled /\ se = f.sessions /\ dn = f.downs
    OBVIOUS
  <2>2. f = [settled |-> st, sessions |-> se, downs |-> dn]
    BY <2>1, FullIs
  <2>3. g = [f EXCEPT !.settled = z, !.sessions = S, !.downs = d]
    BY <1>1 DEF FullSessionEnded
  <2> QED BY <2>1, <2>2, <2>3
<1>3. E \subseteq f.sessions /\ S \subseteq f.sessions
  BY <1>1 DEF WithId
<1>4. IsFiniteSet(E) /\ IsFiniteSet(S)
  BY <1>3, FullIs, FS_Subset
<1>5. z \in Nat
  <2>1. \A s \in E : s.start \in Nat /\ s.start <= t
    BY <1>3, FullIs
  <2>2. Duration(E, t) \in Nat
    BY <1>4, <2>1, DurationIs
  <2> QED BY <1>1, <2>2, FullIs
<1>6. d \in [Conns -> Nat]
  BY <1>1, FullIs
<1>7. S \subseteq UsageSession /\ \A s \in S : Began(b, s) /\ s.start \in 1..t
  BY <1>3, FullIs
<1> QED BY <1>2, <1>4, <1>5, <1>6, <1>7, FullChanged

LEMMA FullConnectedSound ==
  ASSUME NEW f, NEW b, NEW t \in Nat, FullSound(f, b, t), NEW c, c \in Conns,
         NEW g, g = FullClientConnected(f, c)
  PROVE  FullSound(g, b, t)
<1>1. PICK d : d = [f.downs EXCEPT ![c] = 0]
  OBVIOUS
<1>2. d \in [Conns -> Nat]
  BY <1>1, FullIs
<1>3. g = [settled |-> f.settled, sessions |-> f.sessions, downs |-> d]
  BY <1>1, FullIs DEF FullClientConnected
<1> QED BY <1>2, <1>3, FullIs, FullChanged

LEMMA FullDisconnectedSound ==
  ASSUME NEW f, NEW b, NEW t \in Nat, FullSound(f, b, t), NEW c, c \in Conns, NEW clean \in BOOLEAN,
         NEW g, g = FullClientDisconnected(f, c, clean, t)
  PROVE  FullSound(g, b, t)
<1>1. PICK E : E = HostedBy(f.sessions, c)
  OBVIOUS
<1>2. CASE E = {} \/ f.downs[c] # 0
  <2>1. g = f
    BY <1>1, <1>2 DEF FullClientDisconnected
  <2> QED BY <2>1
<1>3. CASE E # {} /\ f.downs[c] = 0 /\ clean
  <2>1. PICK S, z : S = f.sessions \ E /\ z = f.settled + Duration(E, t)
    OBVIOUS
  <2>2. g = [settled |-> z, sessions |-> S, downs |-> f.downs]
    <3>1. PICK st, se, dn : st = f.settled /\ se = f.sessions /\ dn = f.downs
      OBVIOUS
    <3>2. f = [settled |-> st, sessions |-> se, downs |-> dn]
      BY <3>1, FullIs
    <3>3. g = [f EXCEPT !.settled = z, !.sessions = S]
      BY <1>1, <1>3, <2>1 DEF FullClientDisconnected
    <3> QED BY <3>1, <3>2, <3>3
  <2>3. E \subseteq f.sessions /\ S \subseteq f.sessions
    BY <1>1, <2>1 DEF HostedBy
  <2>4. IsFiniteSet(E) /\ IsFiniteSet(S)
    BY <2>3, FullIs, FS_Subset
  <2>5. z \in Nat
    <3>1. \A s \in E : s.start \in Nat /\ s.start <= t
      BY <2>3, FullIs
    <3>2. Duration(E, t) \in Nat
      BY <2>4, <3>1, DurationIs
    <3> QED BY <2>1, <3>2, FullIs
  <2>6. S \subseteq UsageSession /\ \A s \in S : Began(b, s) /\ s.start \in 1..t
    BY <2>3, FullIs
  <2> QED BY <2>2, <2>4, <2>5, <2>6, FullIs, FullChanged
<1>4. CASE E # {} /\ f.downs[c] = 0 /\ ~clean
  <2>1. PICK d : d = [f.downs EXCEPT ![c] = t]
    OBVIOUS
  <2>2. d \in [Conns -> Nat]
    BY <2>1, FullIs
  <2>3. g = [settled |-> f.settled, sessions |-> f.sessions, downs |-> d]
    BY <1>1, <1>4, <2>1, FullIs DEF FullClientDisconnected
  <2> QED BY <2>2, <2>3, FullIs, FullChanged
<1> QED BY <1>2, <1>3, <1>4

LEMMA ConsistentIs ==
  ASSUME UsageBounds, NEW b, NEW t \in Nat, NEW u, NEW l, NEW f, NEW ir, Consistent(b, t, u, l, f, ir)
  PROVE  /\ LowSound(l, b, t) /\ FullSound(f, b, t) /\ Fine(u, b, t) /\ Fine(l.stats, b, t)
         /\ l.evictions \in Nat
<1>1. LowSound(l, b, t) /\ FullSound(f, b, t) /\ Fine(u, b, t) /\ Fine(l.stats, b, t)
  BY DEF Consistent
<1>2. l.evictions \in Nat
  BY <1>1, LowFields
<1> QED BY <1>1, <1>2

LEMMA WhileUnevicted ==
  ASSUME UsageBounds, NEW b, NEW t \in Nat, NEW u, NEW l, NEW f, NEW ir,
         Consistent(b, t, u, l, f, ir), l.evictions = 0
  PROVE  /\ CountsOnce(u.active, u.away) /\ CountsOnce(l.stats.active, l.stats.away)
         /\ AllKept(u.away, u.index) /\ AllKept(l.stats.away, l.stats.index)
         /\ SameStats(l.stats, u)
         /\ \A c \in Conns : l.evicted[c] = NotKept
         /\ "started while away" \in ir \/ FullKnows(f, u.settled, u.active, u.away)
<1>1. (Excused(l, ir) \/ BothCount(u, l)) /\ Unevicted(u, l, f, ir)
  BY DEF Consistent
<1>2. ~Excused(l, ir)
  BY DEF Excused
<1> QED BY <1>1, <1>2 DEF Unevicted, SameStats, BothCount

LEMMA StillUnevicted ==
  ASSUME UsageBounds, NEW b, NEW t \in Nat, NEW u, NEW l, NEW f, NEW ir,
         Consistent(b, t, u, l, f, ir), NEW m, LowStays(l, m), m.evictions = 0
  PROVE  l.evictions = 0 /\ \A c \in Conns : m.evicted[c] = NotKept
<1>1. l.evictions = 0 /\ \A c \in Conns : l.evicted[c] = NotKept => m.evicted[c] = NotKept
  BY DEF LowStays
<1>2. \A c \in Conns : l.evicted[c] = NotKept
  BY <1>1, WhileUnevicted
<1> QED BY <1>1, <1>2

LEMMA StillExcused ==
  ASSUME UsageBounds, NEW b, NEW t \in Nat, NEW u, NEW l, NEW f, NEW ir,
         Consistent(b, t, u, l, f, ir), NEW m, LowStays(l, m)
  PROVE  Excused(m, ir) \/ BothCount(u, l)
BY DEF Consistent, Excused, LowStays

LEMMA PreservesItself == ASSUME NEW b PROVE Preserves(b, b)
BY DEF Preserves

LEMMA EndedKeeps ==
  ASSUME UsageBounds, NEW b, NEW t \in Nat, NEW u, NEW l, NEW f, NEW ir,
         Consistent(b, t, u, l, f, ir), NEW n, n \in SessionNos, NEW p, p = t + 1,
         NEW v, v = UsageSessionEnded(u, n, p), NEW m, m = LowSessionEnded(l, n, p),
         NEW g, g = FullSessionEnded(f, n, p)
  PROVE  Consistent(b, p, v, m, g, ir)
<1>1. /\ LowSound(l, b, t) /\ FullSound(f, b, t) /\ Fine(u, b, t) /\ Fine(l.stats, b, t)
      /\ p \in Nat
  BY ConsistentIs
<1>2. /\ Fine(v, b, p)
      /\ CountsOnce(u.active, u.away) => CountsOnce(v.active, v.away)
      /\ AllKept(u.away, u.index) => AllKept(v.away, v.index)
      /\ Turned(v, EndedSettled(u, n, p), u.active \ WithId(u.active, n), EndedAway(u, n),
                EndedIndex(u, n), EndedLen(u, n))
  BY <1>1, EndedFine
<1>3. /\ Fine(m.stats, b, p) /\ LowSound(m, b, p) /\ LowStays(l, m)
      /\ CountsOnce(l.stats.active, l.stats.away) => CountsOnce(m.stats.active, m.stats.away)
      /\ (\A c \in Conns : l.evicted[c] = NotKept) => m.stats = UsageSessionEnded(l.stats, n, p)
  BY <1>1, LowEndedDoes
<1>4. FullSound(g, b, p)
  <2>1. FullSound(f, b, p)
    BY <1>1, PreservesItself, FullLater
  <2> QED BY <1>1, <2>1, FullEndedSound
<1>5. Excused(m, ir) \/ BothCount(u, l)
  <2>1. LowStays(l, m)
    BY <1>3
  <2> QED BY <2>1, StillExcused
<1>6. ASSUME l.evictions = 0
      PROVE  /\ AllKept(v.away, v.index) /\ SameStats(m.stats, v)
             /\ "started while away" \in ir \/ FullKnows(g, v.settled, v.active, v.away)
  <2>1. /\ CountsOnce(u.active, u.away) /\ AllKept(u.away, u.index)
        /\ Len(l.stats.kept) = Len(u.kept)
        /\ l.stats.settled = u.settled /\ l.stats.active = u.active
        /\ l.stats.away = u.away /\ l.stats.index = u.index
        /\ \A c \in Conns : l.evicted[c] = NotKept
        /\ "started while away" \in ir \/ FullKnows(f, u.settled, u.active, u.away)
    <3>1. /\ CountsOnce(u.active, u.away) /\ AllKept(u.away, u.index) /\ SameStats(l.stats, u)
          /\ \A c \in Conns : l.evicted[c] = NotKept
          /\ "started while away" \in ir \/ FullKnows(f, u.settled, u.active, u.away)
      BY <1>6, WhileUnevicted
    <3> QED BY <3>1 DEF SameStats
  <2>2. PICK x, w : x = l.stats /\ w = m.stats
    OBVIOUS
  <2>3. Fine(x, b, t) /\ w = UsageSessionEnded(x, n, p)
    BY <1>1, <1>3, <2>1, <2>2
  <2>4. Turned(w, EndedSettled(x, n, p), x.active \ WithId(x.active, n), EndedAway(x, n),
               EndedIndex(x, n), EndedLen(x, n))
    BY <2>3, EndedFine
  <2>5. /\ EndedSettled(x, n, p) = EndedSettled(u, n, p) /\ EndedAway(x, n) = EndedAway(u, n)
        /\ EndedIndex(x, n) = EndedIndex(u, n) /\ EndedLen(x, n) = EndedLen(u, n)
        /\ x.active = u.active
    BY <2>1, <2>2 DEF EndedSettled, EndedAway, EndedIndex, EndedLen
  <2>6. PICK z, A, W, X, k : /\ z = EndedSettled(u, n, p) /\ A = u.active \ WithId(u.active, n)
                             /\ W = EndedAway(u, n) /\ X = EndedIndex(u, n) /\ k = EndedLen(u, n)
    OBVIOUS
  <2>7. Turned(w, z, A, W, X, k) /\ Turned(v, z, A, W, X, k)
    BY <1>2, <2>4, <2>5, <2>6
  <2>8. SameStats(w, v)
    BY <2>7, SameTurned
  <2>9. ASSUME FullKnows(f, u.settled, u.active, u.away)
        PROVE  FullKnows(g, v.settled, v.active, v.away)
    <3>1. PICK B, V, Y, y : B = u.active /\ V = u.away /\ Y = u.index /\ y = u.settled
      OBVIOUS
    <3>2. /\ Sound(B, V, Y, b, t) /\ IsFiniteSet(V) /\ CountsOnce(B, V) /\ AllKept(V, Y)
          /\ f \in FullStats /\ FullKnows(f, y, B, V)
      BY <1>1, <2>1, <2>9, <3>1 DEF Fine, Shaped, FullSound
    <3>3. /\ WithId(B, n) # {} => FullKnows(g, y + Duration(WithId(B, n), p), B \ WithId(B, n), V)
          /\ WithId(B, n) = {} => FullKnows(g, y + Duration(WithId(V, n), p), B, V \ WithId(V, n))
      BY <3>2, KnowsEnded
    <3>4. v.settled = z /\ v.active = A /\ v.away = W
      BY <2>7 DEF Turned
    <3>5. CASE WithId(B, n) # {}
      <4>1. z = y + Duration(WithId(B, n), p) /\ A = B \ WithId(B, n) /\ W = V
        BY <2>6, <3>1, <3>5 DEF EndedSettled, EndedAway
      <4> QED BY <3>3, <3>4, <3>5, <4>1
    <3>6. CASE WithId(B, n) = {}
      <4>1. z = y + Duration(WithId(V, n), p) /\ A = B /\ W = V \ WithId(V, n)
        BY <2>6, <3>1, <3>6 DEF EndedSettled, EndedAway
      <4> QED BY <3>3, <3>4, <3>6, <4>1
    <3> QED BY <3>5, <3>6
  <2> QED BY <1>2, <2>1, <2>2, <2>8, <2>9
<1>7. ASSUME m.evictions = 0 PROVE Unevicted(v, m, g, ir)
  <2>1. l.evictions = 0 /\ \A c \in Conns : m.evicted[c] = NotKept
    <3>1. LowStays(l, m)
      BY <1>3
    <3> QED BY <1>7, <3>1, StillUnevicted
  <2> QED BY <1>6, <2>1 DEF Unevicted
<1>8. BothCount(u, l) => BothCount(v, m)
  BY <1>2, <1>3 DEF BothCount
<1> QED BY <1>2, <1>3, <1>4, <1>5, <1>7, <1>8 DEF Consistent

LEMMA ConnectedKeeps ==
  ASSUME UsageBounds, NEW b, NEW t \in Nat, NEW u, NEW l, NEW f, NEW ir,
         Consistent(b, t, u, l, f, ir), NEW h, h \in Conns, NEW p, p = t + 1,
         NEW v, v = UsageClientConnected(u, h), NEW m, m = LowClientConnected(l, h),
         NEW g, g = FullClientConnected(f, h)
  PROVE  Consistent(b, p, v, m, g, ir)
<1>1. /\ LowSound(l, b, t) /\ FullSound(f, b, t) /\ Fine(u, b, t) /\ Fine(l.stats, b, t)
      /\ p \in Nat
  BY ConsistentIs
<1>2. PICK x : x = u.index[h]
  OBVIOUS
<1>3. /\ Fine(v, b, p)
      /\ CountsOnce(u.active, u.away) => CountsOnce(v.active, v.away)
      /\ AllKept(u.away, u.index) => AllKept(v.away, v.index)
      /\ x = NotKept => v = u
      /\ x # NotKept => Turned(v, u.settled, u.active \cup {Bare(x)}, u.away \ WithId(u.away, x.id),
                               Without(u.index, h), Fewer(u.index, h, Len(u.kept)))
  <2>1. Fine(u, b, t) /\ x = u.index[h] /\ p = t + 1 /\ v = UsageClientConnected(u, h)
    BY <1>1, <1>2
  <2> QED BY <2>1, ConnectedFine, ConnectedTurned
<1>4. m.stats = UsageClientConnected(l.stats, h) /\ LowStays(l, m) /\ LowSound(m, b, p)
  <2>1. m.stats = UsageClientConnected(l.stats, h) /\ LowStays(l, m) /\ LowSound(m, b, t)
    BY <1>1, LowConnectedDoes
  <2>2. LowSound(m, b, t + 1)
    BY <2>1, PreservesItself, LowLater
  <2> QED BY <2>1, <2>2
<1>5. PICK y, w, e : y = l.stats /\ w = m.stats /\ e = y.index[h]
  OBVIOUS
<1>6. /\ Fine(w, b, p)
      /\ CountsOnce(y.active, y.away) => CountsOnce(w.active, w.away)
      /\ e = NotKept => w = y
      /\ e # NotKept => Turned(w, y.settled, y.active \cup {Bare(e)}, y.away \ WithId(y.away, e.id),
                               Without(y.index, h), Fewer(y.index, h, Len(y.kept)))
  <2>1. Fine(y, b, t) /\ e = y.index[h] /\ p = t + 1 /\ w = UsageClientConnected(y, h)
    BY <1>1, <1>4, <1>5
  <2> QED BY <2>1, ConnectedFine, ConnectedTurned
<1>7. FullSound(g, b, p)
  <2>1. FullSound(f, b, p)
    BY <1>1, PreservesItself, FullLater
  <2> QED BY <1>1, <2>1, FullConnectedSound
<1>8. Excused(m, ir) \/ BothCount(u, l)
  <2>1. LowStays(l, m)
    BY <1>4
  <2> QED BY <2>1, StillExcused
<1>9. ASSUME l.evictions = 0
      PROVE  /\ AllKept(v.away, v.index) /\ SameStats(m.stats, v)
             /\ "started while away" \in ir \/ FullKnows(g, v.settled, v.active, v.away)
  <2>1. /\ CountsOnce(u.active, u.away) /\ AllKept(u.away, u.index)
        /\ SameStats(y, u) /\ Len(y.kept) = Len(u.kept)
        /\ y.settled = u.settled /\ y.active = u.active
        /\ y.away = u.away /\ y.index = u.index /\ e = x
        /\ "started while away" \in ir \/ FullKnows(f, u.settled, u.active, u.away)
    <3>1. /\ CountsOnce(u.active, u.away) /\ AllKept(u.away, u.index) /\ SameStats(l.stats, u)
          /\ "started while away" \in ir \/ FullKnows(f, u.settled, u.active, u.away)
      BY <1>9, WhileUnevicted
    <3>2. SameStats(y, u)
      BY <1>5, <3>1
    <3> QED BY <1>2, <1>5, <3>1, <3>2 DEF SameStats
  <2>2. SameStats(w, v)
    <3>1. CASE x = NotKept
      BY <1>3, <1>6, <2>1, <3>1
    <3>2. CASE x # NotKept
      <4>1. PICK z, A, W, X, k : /\ z = u.settled /\ A = u.active \cup {Bare(x)}
                                 /\ W = u.away \ WithId(u.away, x.id)
                                 /\ X = Without(u.index, h) /\ k = Fewer(u.index, h, Len(u.kept))
        OBVIOUS
      <4>2. Turned(w, z, A, W, X, k) /\ Turned(v, z, A, W, X, k)
        BY <1>3, <1>6, <2>1, <3>2, <4>1
      <4> QED BY <4>2, SameTurned
    <3> QED BY <3>1, <3>2
  <2>3. ASSUME FullKnows(f, u.settled, u.active, u.away)
        PROVE  FullKnows(g, v.settled, v.active, v.away)
    <3>1. PICK B, V, Y, z : B = u.active /\ V = u.away /\ Y = u.index /\ z = u.settled
      OBVIOUS
    <3>2. /\ Sound(B, V, Y, b, t) /\ AllKept(V, Y) /\ x = Y[h]
          /\ f \in FullStats /\ FullKnows(f, z, B, V)
      BY <1>1, <1>2, <2>1, <2>3, <3>1 DEF Fine, FullSound
    <3>3. /\ x = NotKept => FullKnows(g, z, B, V)
          /\ x # NotKept => FullKnows(g, z, B \cup {Bare(x)}, V \ WithId(V, x.id))
      BY <3>2, KnowsConnected
    <3>4. CASE x = NotKept
      BY <1>3, <3>1, <3>3, <3>4
    <3>5. CASE x # NotKept
      <4>1. v.settled = z /\ v.active = B \cup {Bare(x)} /\ v.away = V \ WithId(V, x.id)
        BY <1>3, <3>1, <3>5 DEF Turned
      <4> QED BY <3>3, <3>5, <4>1
    <3> QED BY <3>4, <3>5
  <2> QED BY <1>3, <1>5, <2>1, <2>2, <2>3
<1>10. Fine(m.stats, b, p)
  BY <1>5, <1>6
<1>11. ASSUME m.evictions = 0 PROVE Unevicted(v, m, g, ir)
  <2>1. l.evictions = 0 /\ \A c \in Conns : m.evicted[c] = NotKept
    <3>1. LowStays(l, m)
      BY <1>4
    <3> QED BY <1>11, <3>1, StillUnevicted
  <2> QED BY <1>9, <2>1 DEF Unevicted
<1>12. BothCount(u, l) => BothCount(v, m)
  BY <1>3, <1>5, <1>6 DEF BothCount
<1> QED BY <1>3, <1>4, <1>7, <1>8, <1>10, <1>11, <1>12 DEF Consistent

LEMMA DisconnectedSame ==
  ASSUME UsageBounds, NEW b, NEW t \in Nat, NEW u, NEW x, Fine(u, b, t), Fine(x, b, t),
         SameStats(x, u), CountsOnce(u.active, u.away), NEW c, c \in Conns, NEW clean \in BOOLEAN,
         NEW S, S = HostedBy(u.active, c), S # {} /\ ~clean => Len(u.kept) < KeptMax,
         NEW p, p = t + 1,
         NEW v, v = UsageClientDisconnected(u, c, clean, p),
         NEW w, w = UsageClientDisconnected(x, c, clean, p)
  PROVE  SameStats(w, v)
<1>1. /\ x.settled = u.settled /\ x.active = u.active /\ x.away = u.away /\ x.index = u.index
      /\ Len(x.kept) = Len(u.kept)
  BY DEF SameStats
<1>2. CASE S = {}
  BY <1>1, <1>2 DEF UsageClientDisconnected
<1>3. CASE S # {} /\ clean
  <2>1. PICK z, A, W, X, k : /\ z = u.settled + Duration(S, p) /\ A = u.active \ S
                             /\ W = u.away /\ X = u.index /\ k = Len(u.kept)
    OBVIOUS
  <2>2. Turned(v, z, A, W, X, k)
    <3>1. v = UsageClientDisconnected(u, c, TRUE, p) /\ Shaped(u) /\ Dated(u.active, u.away, b, t)
      BY <1>3 DEF Fine, Sound
    <3> QED BY <1>3, <2>1, <3>1, CleanDoes
  <2>3. PICK T : T = HostedBy(x.active, c) /\ T = S
    BY <1>1
  <2>4. Turned(w, x.settled + Duration(T, p), x.active \ T, x.away, x.index, Len(x.kept))
    <3>1. w = UsageClientDisconnected(x, c, TRUE, p) /\ Shaped(x) /\ Dated(x.active, x.away, b, t)
      BY <1>3 DEF Fine, Sound
    <3> QED BY <1>3, <2>3, <3>1, CleanDoes
  <2>5. Turned(w, z, A, W, X, k)
    BY <1>1, <2>1, <2>3, <2>4
  <2> QED BY <2>2, <2>5, SameTurned
<1>4. CASE S # {} /\ ~clean
  <2>1. PICK s : s = CHOOSE q \in S : TRUE
    OBVIOUS
  <2>2. v = TrackDisconnected(u, s, p) /\ s \in u.active
    <3>1. v = TrackDisconnected(u, s, p)
      BY <1>4, <2>1 DEF UsageClientDisconnected
    <3>2. s \in S
      BY <1>4, <2>1
    <3> QED BY <3>1, <3>2 DEF HostedBy
  <2>3. w = TrackDisconnected(x, s, p) /\ s \in x.active
    <3>1. S = HostedBy(x.active, c)
      BY <1>1
    <3>2. w = TrackDisconnected(x, s, p)
      BY <1>4, <2>1, <3>1 DEF UsageClientDisconnected
    <3> QED BY <1>1, <2>2, <3>2
  <2>4. Fine(u, b, p) /\ Fine(x, b, p) /\ p \in Nat
    BY PreservesItself, FineLater
  <2>5. PICK l : l = LeftAt(s, p)
    OBVIOUS
  <2>6. /\ v.settled = u.settled /\ v.active = u.active \ {s}
        /\ Len(v.kept) = AndOne(Len(u.kept))
        /\ v.away = u.away \cup {l} /\ v.index = With(u.index, l)
    BY <1>4, <2>2, <2>4, <2>5, TrackFine
  <2>7. CountsOnce(x.active, x.away) /\ Len(x.kept) < KeptMax
    BY <1>1, <1>4
  <2>8. /\ w.settled = x.settled /\ w.active = x.active \ {s}
        /\ Len(w.kept) = AndOne(Len(x.kept))
        /\ w.away = x.away \cup {l} /\ w.index = With(x.index, l)
    BY <2>3, <2>4, <2>5, <2>7, TrackFine
  <2> QED BY <1>1, <2>6, <2>8 DEF SameStats
<1> QED BY <1>2, <1>3, <1>4

LEMMA DisconnectedKnown ==
  ASSUME UsageBounds, NEW b, NEW t \in Nat, NEW u, Fine(u, b, t),
         CountsOnce(u.active, u.away), AllKept(u.away, u.index), NEW c, c \in Conns, NEW clean \in BOOLEAN,
         NEW p, p = t + 1, NEW v, v = UsageClientDisconnected(u, c, clean, p),
         NEW f, f \in FullStats, FullKnows(f, u.settled, u.active, u.away),
         NEW g, g = FullClientDisconnected(f, c, clean, p)
  PROVE  FullKnows(g, v.settled, v.active, v.away)
<1>1. PICK A, W, X, z, S : /\ A = u.active /\ W = u.away /\ X = u.index /\ z = u.settled
                           /\ S = HostedBy(u.active, c)
  OBVIOUS
<1>2. /\ Sound(A, W, X, b, t) /\ AllKept(W, X) /\ FullKnows(f, z, A, W) /\ p \in Nat
      /\ S = HostedBy(A, c)
  BY <1>1 DEF Fine
<1>3. /\ S = {} => g = f
      /\ S # {} /\ clean => FullKnows(g, z + Duration(S, p), A \ S, W)
      /\ \A s \in S : ~clean => FullKnows(g, z, A \ {s}, W \cup {LeftAt(s, p)})
  <2>1. KnowsWithout(f, g, A, W, z, HostedBy(A, c), clean, p)
    BY <1>2, KnowsDisconnected
  <2> QED BY <1>2, <2>1 DEF KnowsWithout
<1>4. CASE S = {}
  <2>1. v = u
    BY <1>1, <1>4 DEF UsageClientDisconnected
  <2> QED BY <1>3, <1>4, <2>1
<1>5. CASE S # {} /\ clean
  <2>1. Turned(v, u.settled + Duration(S, p), u.active \ S, u.away, u.index, Len(u.kept))
    <3>1. v = UsageClientDisconnected(u, c, TRUE, p) /\ Shaped(u) /\ Dated(u.active, u.away, b, t)
      BY <1>5 DEF Fine, Sound
    <3> QED BY <1>1, <1>5, <3>1, CleanDoes
  <2>2. v.settled = z + Duration(S, p) /\ v.active = A \ S /\ v.away = W
    BY <1>1, <2>1 DEF Turned
  <2> QED BY <1>3, <1>5, <2>2
<1>6. CASE S # {} /\ ~clean
  <2>1. PICK s : s = CHOOSE q \in S : TRUE
    OBVIOUS
  <2>2. v = TrackDisconnected(u, s, p) /\ s \in S /\ s \in u.active
    <3>1. v = TrackDisconnected(u, s, p)
      BY <1>1, <1>6, <2>1 DEF UsageClientDisconnected
    <3>2. s \in S
      BY <1>6, <2>1
    <3> QED BY <1>1, <3>1, <3>2 DEF HostedBy
  <2>3. Fine(u, b, p)
    BY PreservesItself, FineLater
  <2>4. PICK l : l = LeftAt(s, p)
    OBVIOUS
  <2>5. v.settled = z /\ v.active = A \ {s} /\ v.away = W \cup {l}
    BY <1>1, <1>2, <2>2, <2>3, <2>4, TrackFine
  <2> QED BY <1>3, <1>6, <2>2, <2>4, <2>5
<1> QED BY <1>4, <1>5, <1>6

LEMMA DisconnectedKeeps ==
  ASSUME UsageBounds, NEW b, NEW t \in Nat, NEW u, NEW l, NEW f, NEW ir,
         Consistent(b, t, u, l, f, ir), NEW h, h \in Conns, NEW clean \in BOOLEAN, NEW p, p = t + 1,
         NEW v, v = UsageClientDisconnected(u, h, clean, p),
         NEW m, m = LowClientDisconnected(l, h, clean, p),
         NEW g, g = FullClientDisconnected(f, h, clean, p)
  PROVE  Consistent(b, p, v, m, g, ir)
<1>1. /\ LowSound(l, b, t) /\ FullSound(f, b, t) /\ Fine(u, b, t) /\ Fine(l.stats, b, t)
      /\ p \in Nat
  BY ConsistentIs
<1>2. PICK S, x, w, T : S = HostedBy(u.active, h) /\ x = l.stats /\ w = m.stats /\ T = HostedBy(x.active, h)
  OBVIOUS
<1>3. /\ Fine(v, b, p)
      /\ CountsOnce(u.active, u.away) => CountsOnce(v.active, v.away)
      /\ AllKept(u.away, u.index) /\ (S # {} /\ ~clean => Len(u.kept) < KeptMax) =>
           AllKept(v.away, v.index)
  BY <1>1, <1>2, DisconnectedFine
<1>4. /\ w = UsageClientDisconnected(x, h, clean, p)
      /\ LowSound(m, b, p) /\ LowStays(l, m)
      /\ m.evictions = 0 /\ T # {} /\ ~clean => Len(x.kept) < KeptMax
  <2>1. LowSound(l, b, t + 1) /\ Fine(l.stats, b, t + 1)
    BY <1>1, PreservesItself, LowLater, FineLater
  <2>2. LowSound(l, b, p) /\ Fine(l.stats, b, p) /\ T = HostedBy(l.stats.active, h)
    BY <1>2, <2>1
  <2>3. /\ m.stats = UsageClientDisconnected(l.stats, h, clean, p)
        /\ LowSound(m, b, p) /\ LowStays(l, m)
        /\ m.evictions = 0 /\ T # {} /\ ~clean => Len(l.stats.kept) < KeptMax
    BY SMTT(30), <1>1, <2>2, LowDisconnectedDoes
  <2> QED BY <1>2, <2>3
<1>5. /\ Fine(w, b, p)
      /\ CountsOnce(x.active, x.away) => CountsOnce(w.active, w.away)
  <2>1. Fine(x, b, t) /\ w = UsageClientDisconnected(x, h, clean, p) /\ T = HostedBy(x.active, h)
    BY <1>1, <1>2, <1>4
  <2> QED BY <2>1, DisconnectedFine
<1>6. FullSound(g, b, p)
  <2>1. FullSound(f, b, p)
    BY <1>1, PreservesItself, FullLater
  <2> QED BY <1>1, <2>1, FullDisconnectedSound
<1>7. LowStays(l, m)
  BY <1>4
<1>8. Excused(m, ir) \/ BothCount(u, l)
  BY <1>7, StillExcused
<1>9. ASSUME m.evictions = 0 PROVE Unevicted(v, m, g, ir)
  <2>1. l.evictions = 0 /\ \A c \in Conns : m.evicted[c] = NotKept
    BY <1>7, <1>9, StillUnevicted
  <2>2. /\ CountsOnce(u.active, u.away) /\ AllKept(u.away, u.index) /\ SameStats(l.stats, u)
        /\ "started while away" \in ir \/ FullKnows(f, u.settled, u.active, u.away)
    BY <2>1, WhileUnevicted
  <2>3. SameStats(x, u) /\ Fine(x, b, t) /\ T = S /\ Len(x.kept) = Len(u.kept)
    BY <1>1, <1>2, <2>2 DEF SameStats
  <2>4. S # {} /\ ~clean => Len(u.kept) < KeptMax
    BY <1>4, <1>9, <2>3
  <2>5. SameStats(w, v)
    BY <1>1, <1>2, <1>4, <2>2, <2>3, <2>4, DisconnectedSame
  <2>6. AllKept(v.away, v.index)
    BY <1>3, <2>2, <2>4
  <2>7. FullKnows(f, u.settled, u.active, u.away) => FullKnows(g, v.settled, v.active, v.away)
    <3>1. f \in FullStats
      BY <1>1 DEF FullSound
    <3> QED BY <1>1, <2>2, <3>1, DisconnectedKnown
  <2> QED BY <1>2, <2>1, <2>2, <2>5, <2>6, <2>7 DEF Unevicted
<1>10. BothCount(u, l) => BothCount(v, m)
  BY <1>2, <1>3, <1>5 DEF BothCount
<1> QED BY <1>2, <1>3, <1>4, <1>5, <1>6, <1>8, <1>9, <1>10 DEF Consistent

LEMMA ServerSame ==
  ASSUME UsageBounds, NEW b, NEW p \in Nat, NEW u, NEW x, Fine(u, b, p), Fine(x, b, p),
         SameStats(x, u), CountsOnce(u.active, u.away),
         NEW v, NEW w, v.active = {}, w.active = {}, Leaving(u, v, b, p), Leaving(x, w, b, p),
         NEW n \in Nat, LeavingAll(u, v, n, p), LeavingAll(x, w, n, p)
  PROVE  SameStats(w, v)
<1>1. /\ x.settled = u.settled /\ x.active = u.active /\ x.away = u.away /\ x.index = u.index
      /\ Len(x.kept) = Len(u.kept)
  BY DEF SameStats
<1>2. v.settled = u.settled /\ v.away = u.away \cup {LeftAt(s, p) : s \in u.active \ v.active}
  BY DEF Leaving
<1>3. w.settled = x.settled /\ w.away = x.away \cup {LeftAt(s, p) : s \in x.active \ w.active}
  BY <1>1 DEF Leaving
<1>4. w.settled = v.settled /\ w.active = v.active /\ w.away = v.away
  BY <1>1, <1>2, <1>3
<1>5. Len(w.kept) = Len(v.kept)
  BY <1>1 DEF LeavingAll
<1>6. v.index \in Index /\ w.index \in Index
  BY DEF Leaving, Fine, Sound
<1>7. \A d \in Conns : w.index[d] = v.index[d]
  <2> TAKE d \in Conns
  <2>1. CASE \E s \in u.active : s.host = d
    <3>1. PICK s \in u.active : s.host = d
      BY <2>1
    <3>2. v.index[s.host] = LeftAt(s, p) /\ w.index[s.host] = LeftAt(s, p)
      BY <1>1 DEF LeavingAll
    <3> QED BY <3>1, <3>2
  <2>2. CASE \A s \in u.active : s.host # d
    <3>1. v.index[d] = u.index[d]
      BY <2>2 DEF LeavingAll
    <3>2. w.index[d] = x.index[d]
      BY <1>1, <2>2 DEF LeavingAll
    <3> QED BY <1>1, <3>1, <3>2
  <2> QED BY <2>1, <2>2
<1>8. w.index = v.index
  BY <1>6, <1>7 DEF Index
<1> QED BY <1>4, <1>5, <1>8 DEF SameStats

LEMMA ServerKeeps ==
  ASSUME UsageBounds, NEW b, NEW t \in Nat, NEW u, NEW l, NEW f, NEW ir,
         Consistent(b, t, u, l, f, ir), NEW p, p = t + 1,
         NEW o, o \in SetToSeqs(u.active), NEW v, v = UsageServerStarted(u, o, p),
         NEW q, q \in SetToSeqs(l.stats.active), NEW m, m = LowServerStarted(l, q, p),
         NEW g, g = FullServerStarted(f, p)
  PROVE  Consistent(b, p, v, m, g, ir)
<1>1. /\ LowSound(l, b, t) /\ FullSound(f, b, t) /\ Fine(u, b, t) /\ Fine(l.stats, b, t)
      /\ p \in Nat
  BY ConsistentIs
<1>2. PICK x, w, k, n : x = l.stats /\ w = m.stats /\ n = Cardinality(u.active) /\ k = Cardinality(x.active)
  OBVIOUS
<1>3. LowSound(l, b, p) /\ FullSound(f, b, p) /\ Fine(u, b, p) /\ Fine(x, b, p)
  <2>1. LowSound(l, b, t + 1) /\ FullSound(f, b, t + 1) /\ Fine(u, b, t + 1) /\ Fine(l.stats, b, t + 1)
    BY <1>1, PreservesItself, LowLater, FineLater, FullLater
  <2> QED BY <1>2, <2>1
<1>4. /\ Leaving(u, v, b, p) /\ v.active = {} /\ n \in Nat
      /\ Len(u.kept) + n <= KeptMax => LeavingAll(u, v, n, p)
  BY <1>1, <1>2, <1>3, ServerDoes
<1>5. /\ w = UsageServerStarted(x, q, p) /\ LowSound(m, b, p) /\ LowStays(l, m)
      /\ m.evictions = 0 => Len(x.kept) + k <= KeptMax
  <2>1. Fine(l.stats, b, p)
    BY <1>2, <1>3
  <2>2. /\ m.stats = UsageServerStarted(l.stats, q, p) /\ LowSound(m, b, p) /\ LowStays(l, m)
        /\ m.evictions = 0 => Len(l.stats.kept) + Cardinality(l.stats.active) <= KeptMax
    BY <1>1, <1>3, <2>1, LowServerDoes
  <2> QED BY <1>2, <2>2
<1>6. /\ Leaving(x, w, b, p) /\ w.active = {}
      /\ Len(x.kept) + k <= KeptMax => LeavingAll(x, w, k, p)
  <2>1. Fine(x, b, p) /\ q \in SetToSeqs(x.active) /\ w = UsageServerStarted(x, q, p)
    BY <1>2, <1>3, <1>5
  <2> QED BY <1>1, <1>2, <2>1, ServerDoes
<1>7. FullSound(g, b, p)
  BY <1>1, <1>3, FullServerSound
<1>8. LowStays(l, m)
  BY <1>5
<1>9. Excused(m, ir) \/ BothCount(u, l)
  BY <1>8, StillExcused
<1>10. BothCount(u, l) => BothCount(v, m)
  BY <1>2, <1>4, <1>6 DEF BothCount, Leaving
<1>11. ASSUME m.evictions = 0 PROVE Unevicted(v, m, g, ir)
  <2>1. l.evictions = 0 /\ \A c \in Conns : m.evicted[c] = NotKept
    BY <1>8, <1>11, StillUnevicted
  <2>2. /\ CountsOnce(u.active, u.away) /\ AllKept(u.away, u.index) /\ SameStats(l.stats, u)
        /\ "started while away" \in ir \/ FullKnows(f, u.settled, u.active, u.away)
    BY <2>1, WhileUnevicted
  <2>3. SameStats(x, u) /\ x.active = u.active /\ Len(x.kept) = Len(u.kept) /\ k = n
    BY <1>2, <2>2 DEF SameStats
  <2>4. LeavingAll(u, v, n, p) /\ LeavingAll(x, w, n, p)
    BY <1>4, <1>5, <1>6, <1>11, <2>3
  <2>5. SameStats(w, v)
    BY <1>1, <1>3, <1>4, <1>6, <2>2, <2>3, <2>4, ServerSame
  <2>6. AllKept(v.away, v.index)
    BY <2>2, <2>4 DEF LeavingAll
  <2>7. ASSUME FullKnows(f, u.settled, u.active, u.away)
        PROVE  FullKnows(g, v.settled, v.active, v.away)
    <3>1. PICK A, W, X, z, V : /\ A = u.active /\ W = u.away /\ X = u.index /\ z = u.settled
                               /\ V = v.away
      OBVIOUS
    <3>2. /\ Sound(A, W, X, b, t) /\ AllKept(W, X) /\ f \in FullStats /\ FullKnows(f, z, A, W)
      BY <1>1, <2>2, <2>7, <3>1 DEF Fine, FullSound
    <3>3. V = W \cup {LeftAt(s, p) : s \in A}
      <4>1. v.away = u.away \cup {LeftAt(s, p) : s \in u.active \ v.active}
        BY <1>4, <2>2 DEF Leaving
      <4>2. u.active \ v.active = A
        BY <1>4, <3>1
      <4> QED BY <3>1, <4>1, <4>2
    <3>4. FullKnows(g, z, {}, V)
      BY <1>1, <3>2, <3>3, KnowsServer
    <3> QED BY <1>4, <3>1, <3>4 DEF Leaving
  <2> QED BY <1>2, <2>1, <2>2, <2>5, <2>6, <2>7 DEF Unevicted
<1> QED BY <1>2, <1>4, <1>5, <1>6, <1>7, <1>9, <1>10, <1>11 DEF Consistent, Leaving

\* Nothing evicted of the connection: a start is that of UsageStats.
LEMMA StartedAlone ==
  ASSUME UsageBounds, NEW u, Shaped(u), NEW s, s \in UsageSession
  PROVE  UsageSessionStarted(u, s) = StartedWithout(u, s, NotKept)
<1>1. PICK r : r = UsageSessionStarted(u, s)
  OBVIOUS
<1>2. PICK z, A, W, X, k : Turned(r, z, A, W, X, k)
  BY <1>1, UsageStartedDoes
<1>3. r \in Stats /\ r.away \subseteq LeftSession
  BY <1>2, StatsFields DEF Turned
<1>4. r.away \ WithId(r.away, NotKept.id) = r.away
  BY <1>3, NothingHasIdZero
<1>5. [r EXCEPT !.away = @ \ WithId(@, NotKept.id)] = r
  BY <1>3, <1>4 DEF Stats
<1> QED BY <1>1, <1>5 DEF StartedWithout

LEMMA StartedSame ==
  ASSUME UsageBounds, NEW u, NEW x, Shaped(u), Shaped(x), SameStats(x, u),
         NEW s, s \in UsageSession,
         NEW v, v = UsageSessionStarted(u, s), NEW w, w = UsageSessionStarted(x, s)
  PROVE  SameStats(w, v)
<1>1. /\ x.settled = u.settled /\ x.active = u.active /\ x.away = u.away /\ x.index = u.index
      /\ Len(x.kept) = Len(u.kept)
  BY DEF SameStats
<1>2. Turned(v, u.settled, StartedActive(u.active, s), u.away \ WithId(u.away, u.index[s.host].id),
             Without(u.index, s.host), Fewer(u.index, s.host, Len(u.kept)))
  BY UsageStartedDoes
<1>3. Turned(w, x.settled, StartedActive(x.active, s), x.away \ WithId(x.away, x.index[s.host].id),
             Without(x.index, s.host), Fewer(x.index, s.host, Len(x.kept)))
  BY UsageStartedDoes
<1>4. PICK z, A, W, X, k : /\ z = u.settled /\ A = StartedActive(u.active, s)
                           /\ W = u.away \ WithId(u.away, u.index[s.host].id)
                           /\ X = Without(u.index, s.host)
                           /\ k = Fewer(u.index, s.host, Len(u.kept))
  OBVIOUS
<1>5. Turned(v, z, A, W, X, k)
  BY <1>2, <1>4
<1>6. Turned(w, z, A, W, X, k)
  BY <1>1, <1>3, <1>4
<1> QED BY <1>5, <1>6, SameTurned

LEMMA StartedKnown ==
  ASSUME UsageBounds, NEW b, NEW t \in Nat, NEW u, Fine(u, b, t), AllKept(u.away, u.index),
         NEW s, s \in UsageSession, b[s.id].host \in {s.host, "none"},
         NEW v, v = UsageSessionStarted(u, s),
         NEW f, f \in FullStats, f.downs[s.host] = 0, FullKnows(f, u.settled, u.active, u.away),
         NEW g, g = FullSessionStarted(f, s)
  PROVE  FullKnows(g, v.settled, v.active, v.away)
<1>1. PICK A, W, X, z : A = u.active /\ W = u.away /\ X = u.index /\ z = u.settled
  OBVIOUS
<1>2. /\ Sound(A, W, X, b, t) /\ AllKept(W, X) /\ FullKnows(f, z, A, W) /\ W \subseteq LeftSession
      /\ s.host \in Conns /\ Shaped(u)
  BY <1>1 DEF Fine, UsageSession, Sound
<1>3. FullKnows(g, z, StartedActive(A, s), W) /\ \A w \in W : w.host # s.host
  BY <1>2, KnowsStarted
<1>4. X[s.host] = NotKept
  <2>1. X[s.host] # NotKept => X[s.host] \in W /\ X[s.host].host = s.host
    BY <1>2, SoundFields
  <2> QED BY <1>3, <2>1
<1>5. W \ WithId(W, X[s.host].id) = W
  BY <1>2, <1>4, NothingHasIdZero
<1>6. Turned(v, u.settled, StartedActive(u.active, s), u.away \ WithId(u.away, u.index[s.host].id),
             Without(u.index, s.host), Fewer(u.index, s.host, Len(u.kept)))
  BY <1>2, UsageStartedDoes
<1>7. v.settled = z /\ v.active = StartedActive(A, s) /\ v.away = W
  BY <1>1, <1>5, <1>6 DEF Turned
<1> QED BY <1>3, <1>7

\* A session that is new is not away.
LEMMA NewIsNotAway ==
  ASSUME UsageBounds, NEW b, NEW t \in Nat, NEW u, Fine(u, b, t), NEW n, b[n].host = "none"
  PROVE  \A w \in u.away : w.id # n
<1>1. \A w \in u.away : b[w.id].host = w.host /\ w.host \in Conns
  BY SoundFields DEF Fine
<1> QED BY <1>1 DEF UsageBounds

Noted(b, f, s, ir, jr) ==
  /\ ir \subseteq jr
  /\ f.downs[s.host] # 0 => "started while away" \in jr
  /\ b[s.id].host # "none" => "started again" \in jr

LEMMA StartedKeeps ==
  ASSUME UsageBounds, NEW b, NEW t \in Nat, NEW u, NEW l, NEW f, NEW ir,
         Consistent(b, t, u, l, f, ir), NEW p \in Nat, p = t + 1, NEW d, Preserves(b, d),
         NEW s, Starts(d, p, s), b[s.id].host \in {s.host, "none"},
         NEW jr, Noted(b, f, s, ir, jr),
         NEW v, v = UsageSessionStarted(u, s), NEW m, m = LowSessionStarted(l, s),
         NEW g, g = FullSessionStarted(f, s)
  PROVE  Consistent(d, p, v, m, g, jr)
<1>0. s \in UsageSession /\ s.host \in Conns
  BY DEF Starts, UsageSession
<1>1. /\ LowSound(l, b, t) /\ FullSound(f, b, t) /\ Fine(u, b, t) /\ Fine(l.stats, b, t)
      /\ p \in Nat
  <2>1. p \in Nat
    OBVIOUS
  <2>2. LowSound(l, b, t) /\ FullSound(f, b, t) /\ Fine(u, b, t) /\ Fine(l.stats, b, t)
    BY ConsistentIs
  <2> QED BY <2>1, <2>2
<1>2. PICK x, w, e : x = l.stats /\ w = m.stats /\ e = l.evicted[s.host]
  OBVIOUS
<1>3. LowSound(l, d, p) /\ FullSound(f, d, p) /\ Fine(u, d, p) /\ Fine(x, d, p)
  <2>1. LowSound(l, d, t + 1) /\ FullSound(f, d, t + 1) /\ Fine(u, d, t + 1) /\ Fine(l.stats, d, t + 1)
    BY <1>1, LowLater, FineLater, FullLater
  <2> QED BY <1>2, <2>1
<1>4. /\ w = StartedWithout(x, s, e)
      /\ LowSound(m, d, p) /\ LowStays(l, m) /\ m.evictions = l.evictions
      /\ e # NotKept => e.host = s.host /\ Began(d, e)
  <2>1. /\ m.stats = StartedWithout(l.stats, s, e)
        /\ LowSound(m, d, p) /\ LowStays(l, m) /\ m.evictions = l.evictions
        /\ e # NotKept => e.host = s.host /\ Began(d, e)
    BY <1>0, <1>1, <1>2, <1>3, LowStartedDoes
  <2> QED BY <1>2, <2>1
<1>5. FullSound(g, d, p)
  BY <1>1, <1>3, FullStartedSound
<1>6. /\ Fine(v, d, p)
      /\ CountsOnce(u.active, u.away) /\ (\A y \in u.away : y.id # s.id) => CountsOnce(v.active, v.away)
      /\ CountsOnce(u.active, u.away) /\ AllKept(u.away, u.index) => CountsOnce(v.active, v.away)
      /\ AllKept(u.away, u.index) => AllKept(v.away, v.index)
  <2>1. Shaped(u)
    BY <1>3 DEF Fine
  <2>2. PICK z : z = NotKept
    OBVIOUS
  <2>3. v = StartedWithout(u, s, z)
    BY <1>0, <2>1, <2>2, StartedAlone
  <2>4. z # NotKept => z.host = s.host /\ Began(d, z)
    BY <2>2
  <2> QED BY <1>1, <1>3, <2>3, <2>4, StartedFine
<1>7. /\ Fine(w, d, p)
      /\ CountsOnce(x.active, x.away) /\ (\A y \in x.away : y.id # s.id) => CountsOnce(w.active, w.away)
      /\ CountsOnce(x.active, x.away) /\ AllKept(x.away, x.index) => CountsOnce(w.active, w.away)
  BY <1>1, <1>3, <1>4, StartedFine
<1>8. LowStays(l, m)
  BY <1>4
<1>11. ASSUME l.evictions = 0
       PROVE  /\ CountsOnce(u.active, u.away) /\ CountsOnce(l.stats.active, l.stats.away)
              /\ AllKept(u.away, u.index) /\ AllKept(l.stats.away, l.stats.index)
              /\ SameStats(l.stats, u)
              /\ \A c \in Conns : l.evicted[c] = NotKept
              /\ "started while away" \in ir \/ FullKnows(f, u.settled, u.active, u.away)
  BY <1>11, WhileUnevicted
<1>9. Excused(m, jr) \/ BothCount(v, m)
  <2>1. CASE l.evictions = 0
    <3>1. /\ CountsOnce(u.active, u.away) /\ CountsOnce(l.stats.active, l.stats.away)
          /\ AllKept(u.away, u.index) /\ AllKept(l.stats.away, l.stats.index)
      BY <1>11, <2>1
    <3> QED BY <1>2, <1>6, <1>7, <3>1 DEF BothCount
  <2>2. CASE l.evictions # 0 /\ "started again" \in jr
    BY <1>4, <2>2 DEF Excused
  <2>3. CASE "started again" \notin jr
    <3>1. BothCount(u, l)
      <4>1. ~Excused(l, ir)
        BY <2>3 DEF Noted, Excused
      <4> QED BY <4>1 DEF Consistent
    <3>2. PICK n : n = s.id
      OBVIOUS
    <3>3. b[n].host = "none"
      BY <2>3, <3>2 DEF Noted
    <3>4. Fine(x, b, t)
      BY <1>1, <1>2
    <3>5. (\A y \in u.away : y.id # n) /\ \A y \in x.away : y.id # n
      BY <1>1, <3>3, <3>4, NewIsNotAway
    <3> QED BY <1>2, <1>6, <1>7, <3>1, <3>2, <3>5 DEF BothCount
  <2> QED BY <2>1, <2>2, <2>3
<1>10. ASSUME m.evictions = 0 PROVE Unevicted(v, m, g, jr)
  <2>0. l.evictions = 0
    BY <1>8, <1>10 DEF LowStays
  <2>1. \A c \in Conns : m.evicted[c] = NotKept
    <3>1. \A c \in Conns : l.evicted[c] = NotKept
      BY <1>11, <2>0
    <3> QED BY <1>8, <1>10, <3>1 DEF LowStays
  <2>2. /\ CountsOnce(u.active, u.away) /\ AllKept(u.away, u.index) /\ SameStats(l.stats, u)
        /\ \A c \in Conns : l.evicted[c] = NotKept
        /\ "started while away" \in ir \/ FullKnows(f, u.settled, u.active, u.away)
    BY <1>11, <2>0
  <2>3. w = UsageSessionStarted(x, s) /\ Shaped(x) /\ Shaped(u)
    <3>1. e = NotKept
      BY <1>0, <1>2, <2>2
    <3>2. Shaped(x) /\ Shaped(u)
      BY <1>3 DEF Fine
    <3>3. UsageSessionStarted(x, s) = StartedWithout(x, s, NotKept)
      BY <1>0, <3>2, StartedAlone
    <3> QED BY <1>4, <3>1, <3>2, <3>3
  <2>4. SameStats(x, u)
    BY <1>2, <2>2
  <2>5. SameStats(w, v)
    BY <1>0, <2>3, <2>4, StartedSame
  <2>6. ASSUME "started while away" \notin jr PROVE FullKnows(g, v.settled, v.active, v.away)
    <3>1. f.downs[s.host] = 0 /\ FullKnows(f, u.settled, u.active, u.away) /\ f \in FullStats
      BY <1>1, <2>2, <2>6 DEF FullSound, Noted
    <3> QED BY <1>0, <1>1, <2>2, <3>1, StartedKnown
  <2> QED BY <1>2, <1>6, <2>1, <2>2, <2>5, <2>6 DEF Unevicted
<1> QED BY <1>2, <1>4, <1>5, <1>6, <1>7, <1>9, <1>10 DEF Consistent

LEMMA EmptyHolds ==
  ASSUME UsageBounds
  PROVE  Fine(NewUsageStats, [n \in SessionNos |-> NotBegun], 0)
<1>1. PICK X : X = [c \in Conns |-> NotKept]
  OBVIOUS
<1>2. X \in Index /\ \A c \in Conns : X[c] = NotKept
  BY <1>1 DEF Index
<1>3. PICK q : q = << >> /\ q \in Seq(LeftSession) /\ Len(q) = 0
  <2>1. << >> \in Seq(LeftSession) /\ Len(<< >>) = 0
    OBVIOUS
  <2> QED BY <2>1
<1>4. PICK u : u = [settled |-> 0, active |-> {}, away |-> {}, kept |-> q, index |-> X]
  OBVIOUS
<1>5. u = NewUsageStats
  BY <1>1, <1>3, <1>4 DEF NewUsageStats
<1>6. u \in Stats
  BY <1>2, <1>3, <1>4 DEF Stats
<1>7. Holds(q, X)
  BY <1>2, <1>3 DEF Holds
<1>8. /\ u.active = {} /\ u.away = {} /\ u.kept = q /\ u.index = X
  BY <1>4
<1>9. Shaped(u)
  <2>1. IsFiniteSet({}) /\ Len(q) <= KeptMax
    BY <1>3, FS_EmptySet DEF UsageBounds
  <2> QED BY <1>6, <1>7, <1>8, <2>1 DEF Shaped
<1>10. PICK b : b = [n \in SessionNos |-> NotBegun]
  OBVIOUS
<1>11. Sound({}, {}, X, b, 0)
  BY <1>2 DEF Sound, Linked, Dated
<1> QED BY <1>5, <1>8, <1>9, <1>10, <1>11 DEF Fine

LEMMA UsageStarts == ASSUME UsageBounds, UsageInit PROVE UsageInv
<1>1. PICK b, t, u, l, f, ir : /\ b = begun /\ t = clock /\ u = usage /\ l = low /\ f = full
                               /\ ir = irregular
  OBVIOUS
<1>2. /\ b = [n \in SessionNos |-> NotBegun] /\ t = 0 /\ u = NewUsageStats
      /\ l = NewLow /\ f = NewFull
  BY <1>1 DEF UsageInit
<1>3. BegunInv
  <2>1. begun = [n \in SessionNos |-> NotBegun] /\ clock = 0
    BY DEF UsageInit
  <2> QED BY <2>1 DEF BegunInv, NotBegun, UsageBounds
<1>4. Fine(u, b, t) /\ l.stats = u
  BY <1>2, EmptyHolds DEF NewLow
<1>5. LowSound(l, b, t) /\ l.evictions = 0 /\ \A c \in Conns : l.evicted[c] = NotKept
  BY <1>2 DEF NewLow, LowSound, Index
<1>6. f.settled = 0 /\ f.sessions = {} /\ f.downs = [c \in Conns |-> 0]
  BY <1>2 DEF NewFull
<1>7. FullSound(f, b, t)
  <2>1. f = [settled |-> 0, sessions |-> {}, downs |-> [c \in Conns |-> 0]]
    BY <1>2 DEF NewFull
  <2> QED BY <1>6, <2>1, FS_EmptySet DEF FullSound, FullStats
<1>8. u.active = {} /\ u.away = {} /\ u.settled = 0
  BY <1>2 DEF NewUsageStats
<1>9. FullKnows(f, u.settled, u.active, u.away)
  BY <1>6, <1>8, KnowsIs
<1>10. Unevicted(u, l, f, ir)
  BY <1>4, <1>5, <1>8, <1>9 DEF Unevicted, AllKept, SameStats
<1>11. BothCount(u, l)
  BY <1>4, <1>8 DEF BothCount, CountsOnce
<1>12. Consistent(b, t, u, l, f, ir)
  BY <1>4, <1>5, <1>7, <1>10, <1>11 DEF Consistent
<1> QED BY <1>1, <1>3, <1>12 DEF UsageInv

LEMMA BegunStays ==
  ASSUME UsageBounds, BegunInv, Tick, UNCHANGED begun
  PROVE  BegunInv' /\ clock \in Nat /\ clock' = clock + 1
<1>1. clock \in Nat /\ clock' = clock + 1 /\ clock' \in 0..MaxTime
  BY DEF BegunInv, Tick, UsageBounds
<1>2. 1..clock \subseteq 1..clock'
  BY <1>1
<1>3. begun' = begun
  OBVIOUS
<1> QED BY <1>1, <1>2, <1>3 DEF BegunInv

LEMMA UsageEnded ==
  ASSUME UsageBounds, UsageInv, NEW n \in SessionNos, LogSessionEnded(n)
  PROVE  UsageInv'
<1>1. BegunInv' /\ clock \in Nat /\ clock' = clock + 1
  BY BegunStays DEF UsageInv, LogSessionEnded
<1>2. PICK b, t, u, l, f, ir : /\ t \in Nat /\ b = begun /\ t = clock /\ u = usage /\ l = low /\ f = full
                               /\ ir = irregular
  BY <1>1
<1>3. PICK p, v, m, g : p = clock' /\ v = usage' /\ m = low' /\ g = full'
  OBVIOUS
<1>4. /\ p = t + 1 /\ v = UsageSessionEnded(u, n, p) /\ m = LowSessionEnded(l, n, p)
      /\ g = FullSessionEnded(f, n, p)
  BY <1>1, <1>2, <1>3 DEF LogSessionEnded
<1>5. t \in Nat /\ Consistent(b, t, u, l, f, ir)
  BY <1>2 DEF UsageInv
<1>6. Consistent(b, p, v, m, g, ir)
  BY <1>4, <1>5, EndedKeeps
<1>7. begun' = b /\ irregular' = ir
  BY <1>2 DEF LogSessionEnded
<1>8. Consistent(begun, clock, usage, low, full, irregular)'
  BY <1>3, <1>6, <1>7
<1> QED BY <1>1, <1>8 DEF UsageInv

LEMMA UsageConnected ==
  ASSUME UsageBounds, UsageInv, NEW c \in Conns, LogClientConnected(c)
  PROVE  UsageInv'
<1>1. BegunInv' /\ clock \in Nat /\ clock' = clock + 1
  BY BegunStays DEF UsageInv, LogClientConnected
<1>2. PICK b, t, u, l, f, ir : /\ t \in Nat /\ b = begun /\ t = clock /\ u = usage /\ l = low /\ f = full
                               /\ ir = irregular
  BY <1>1
<1>3. PICK p, v, m, g : p = clock' /\ v = usage' /\ m = low' /\ g = full'
  OBVIOUS
<1>4. /\ p = t + 1 /\ v = UsageClientConnected(u, c) /\ m = LowClientConnected(l, c)
      /\ g = FullClientConnected(f, c)
  BY <1>1, <1>2, <1>3 DEF LogClientConnected
<1>5. t \in Nat /\ Consistent(b, t, u, l, f, ir)
  BY <1>2 DEF UsageInv
<1>6. Consistent(b, p, v, m, g, ir)
  BY <1>4, <1>5, ConnectedKeeps
<1>7. begun' = b /\ irregular' = ir
  BY <1>2 DEF LogClientConnected
<1>8. Consistent(begun, clock, usage, low, full, irregular)'
  BY <1>3, <1>6, <1>7
<1> QED BY <1>1, <1>8 DEF UsageInv

LEMMA UsageDisconnected ==
  ASSUME UsageBounds, UsageInv, NEW c \in Conns, NEW clean \in BOOLEAN,
         LogClientDisconnected(c, clean)
  PROVE  UsageInv'
<1>1. BegunInv' /\ clock \in Nat /\ clock' = clock + 1
  BY BegunStays DEF UsageInv, LogClientDisconnected
<1>2. PICK b, t, u, l, f, ir : /\ t \in Nat /\ b = begun /\ t = clock /\ u = usage /\ l = low /\ f = full
                               /\ ir = irregular
  BY <1>1
<1>3. PICK p, v, m, g : p = clock' /\ v = usage' /\ m = low' /\ g = full'
  OBVIOUS
<1>4. /\ p = t + 1 /\ v = UsageClientDisconnected(u, c, clean, p)
      /\ m = LowClientDisconnected(l, c, clean, p) /\ g = FullClientDisconnected(f, c, clean, p)
  BY <1>1, <1>2, <1>3 DEF LogClientDisconnected
<1>5. t \in Nat /\ Consistent(b, t, u, l, f, ir)
  BY <1>2 DEF UsageInv
<1>6. Consistent(b, p, v, m, g, ir)
  BY <1>4, <1>5, DisconnectedKeeps
<1>7. begun' = b /\ irregular' = ir
  BY <1>2 DEF LogClientDisconnected
<1>8. Consistent(begun, clock, usage, low, full, irregular)'
  BY <1>3, <1>6, <1>7
<1> QED BY <1>1, <1>8 DEF UsageInv

LEMMA UsageServer ==
  ASSUME UsageBounds, UsageInv, LogServerStarted
  PROVE  UsageInv'
<1>1. BegunInv' /\ clock \in Nat /\ clock' = clock + 1
  BY BegunStays DEF UsageInv, LogServerStarted
<1>2. PICK b, t, u, l, f, ir : /\ t \in Nat /\ b = begun /\ t = clock /\ u = usage /\ l = low /\ f = full
                               /\ ir = irregular
  BY <1>1
<1>3. PICK p, v, m, g : p = clock' /\ v = usage' /\ m = low' /\ g = full'
  OBVIOUS
<1>4. /\ p = t + 1 /\ g = FullServerStarted(f, p)
      /\ \E o \in SetToSeqs(u.active) : v = UsageServerStarted(u, o, p)
      /\ \E q \in SetToSeqs(l.stats.active) : m = LowServerStarted(l, q, p)
  BY <1>1, <1>2, <1>3 DEF LogServerStarted
<1>5. t \in Nat /\ Consistent(b, t, u, l, f, ir)
  BY <1>2 DEF UsageInv
<1>6. PICK o : o \in SetToSeqs(u.active) /\ v = UsageServerStarted(u, o, p)
  BY <1>4
<1>7. PICK q : q \in SetToSeqs(l.stats.active) /\ m = LowServerStarted(l, q, p)
  BY <1>4
<1>8. Consistent(b, p, v, m, g, ir)
  BY <1>4, <1>5, <1>6, <1>7, ServerKeeps
<1>9. begun' = b /\ irregular' = ir
  BY <1>2 DEF LogServerStarted
<1>10. Consistent(begun, clock, usage, low, full, irregular)'
  BY <1>3, <1>8, <1>9
<1> QED BY <1>1, <1>10 DEF UsageInv

LEMMA UsageStarted ==
  ASSUME UsageBounds, UsageInv, NEW n \in SessionNos, NEW c \in Conns, LogSessionStarted(n, c)
  PROVE  UsageInv'
<1>1. clock \in Nat /\ clock' \in Nat /\ clock' = clock + 1 /\ clock' \in 1..MaxTime
  <2>1. clock \in 0..MaxTime /\ MaxTime \in Nat
    BY DEF UsageInv, BegunInv, UsageBounds
  <2>2. clock < MaxTime /\ clock' = clock + 1
    BY DEF LogSessionStarted, Tick
  <2> QED BY <2>1, <2>2
<1>2. PICK b, t, u, l, f, ir : /\ t \in Nat /\ b = begun /\ t = clock /\ u = usage /\ l = low /\ f = full
                               /\ ir = irregular
  BY <1>1
<1>3. PICK d, p, v, m, g, jr, s : /\ p \in Nat /\ d = begun' /\ p = clock' /\ v = usage' /\ m = low' /\ g = full'
                                 /\ jr = irregular'
                                 /\ s = [id |-> n, host |-> c, start |-> d[n].start]
  BY <1>1
<1>4. /\ p \in Nat /\ p = t + 1 /\ v = UsageSessionStarted(u, s) /\ m = LowSessionStarted(l, s)
      /\ g = FullSessionStarted(f, s)
  BY <1>1, <1>2, <1>3 DEF LogSessionStarted
<1>5. t \in Nat /\ Consistent(b, t, u, l, f, ir)
  BY <1>2 DEF UsageInv
<1>6. /\ b \in [SessionNos -> [host : Conns \cup {"none"}, start : Nat]]
      /\ \A k \in SessionNos : b[k] = NotBegun \/ (b[k].host \in Conns /\ b[k].start \in 1..t)
      /\ b[n].host \in {"none", c}
      /\ d = [b EXCEPT ![n] = IF @ = NotBegun THEN [host |-> c, start |-> p] ELSE @]
  BY <1>2, <1>3 DEF UsageInv, BegunInv, LogSessionStarted
<1>7. NotBegun.host = "none" /\ "none" \notin Conns
  BY DEF NotBegun, UsageBounds
<1>8. \A k \in SessionNos : b[k].host \in Conns => d[k] = b[k]
  BY <1>6, <1>7
<1>9. d[n].host = c /\ d[n].start \in 1..p
  <2>1. CASE b[n] = NotBegun
    <3>1. d[n] = [host |-> c, start |-> p]
      BY <1>6, <2>1
    <3>2. p \in 1..p
      BY <1>4, <1>5
    <3> QED BY <3>1, <3>2
  <2>2. CASE b[n] # NotBegun
    <3>1. d[n] = b[n] /\ b[n].host \in Conns /\ b[n].start \in 1..t
      BY <1>6, <2>2
    <3>2. b[n].start \in 1..p
      <4>1. PICK k \in Nat : k = b[n].start /\ k \in 1..t
        BY <3>1
      <4>2. k \in 1..p
        BY <1>4, <1>5, <4>1
      <4> QED BY <4>1, <4>2
    <3> QED BY <1>6, <1>7, <3>1, <3>2
  <2> QED BY <2>1, <2>2
<1>10. Preserves(b, d)
  BY <1>8 DEF Preserves, Began, UsageSession, LeftSession
<1>11. Starts(d, p, s)
  <2>1. s.id = n /\ s.host = c /\ s.start = d[n].start
    BY <1>3
  <2>2. s \in UsageSession
    BY <1>3, <1>9 DEF UsageSession
  <2> QED BY <1>9, <2>1, <2>2 DEF Starts, Began
<1>12. s.id = n /\ s.host = c
  BY <1>3
<1>13. Noted(b, f, s, ir, jr)
  <2>1. jr = ir \cup (IF f.downs[c] # 0 THEN {"started while away"} ELSE {})
               \cup (IF b[n] # NotBegun THEN {"started again"} ELSE {})
    BY <1>2, <1>3 DEF LogSessionStarted
  <2> QED BY <1>7, <1>12, <2>1 DEF Noted
<1>14. Consistent(d, p, v, m, g, jr)
  <2>1. b[s.id].host \in {s.host, "none"}
    BY <1>6, <1>12
  <2> QED BY <1>4, <1>5, <1>10, <1>11, <1>13, <2>1, StartedKeeps
<1>15. BegunInv'
  <2>1. d \in [SessionNos -> [host : Conns \cup {"none"}, start : Nat]]
    BY <1>4, <1>6
  <2>2. \A k \in SessionNos : d[k] = NotBegun \/ (d[k].host \in Conns /\ d[k].start \in 1..p)
    <3> TAKE k \in SessionNos
    <3>1. CASE k = n
      BY <1>9, <3>1
    <3>2. CASE k # n
      <4>1. d[k] = b[k]
        BY <1>6, <3>2
      <4>2. b[k].start \in 1..t => b[k].start \in 1..p
        <5> HAVE b[k].start \in 1..t
        <5>1. PICK j \in Nat : j = b[k].start /\ j \in 1..t
          OBVIOUS
        <5>2. j \in 1..p
          BY <1>4, <1>5, <5>1
        <5> QED BY <5>1, <5>2
      <4> QED BY <1>6, <4>1, <4>2
    <3> QED BY <3>1, <3>2
  <2>3. clock' \in 0..MaxTime
    BY <1>1
  <2> QED BY <1>3, <2>1, <2>2, <2>3 DEF BegunInv
<1>16. Consistent(begun, clock, usage, low, full, irregular)'
  BY <1>3, <1>14
<1> QED BY <1>15, <1>16 DEF UsageInv

LEMMA UsageStays ==
  ASSUME UsageInv, UNCHANGED usageVars
  PROVE  UsageInv'
<1>1. /\ clock' = clock /\ begun' = begun /\ usage' = usage /\ low' = low /\ full' = full
      /\ irregular' = irregular
  BY DEF usageVars
<1>2. BegunInv'
  BY <1>1 DEF UsageInv, BegunInv
<1>3. Consistent(begun, clock, usage, low, full, irregular)'
  BY <1>1 DEF UsageInv
<1> QED BY <1>2, <1>3 DEF UsageInv

\* The inductive invariant: what UsageStats, lowmemory and fullstate each know
\* of the sessions that began, and what of it they have in common.
THEOREM UsageInvariance ==
  ASSUME UsageBounds
  PROVE  UsageSpec => []UsageInv
<1>1. UsageInit => UsageInv
  BY UsageStarts
<1>2. UsageInv /\ [UsageNext]_usageVars => UsageInv'
  <2> SUFFICES ASSUME UsageInv, [UsageNext]_usageVars PROVE UsageInv'
    OBVIOUS
  <2>1. CASE \E n \in SessionNos : LogSessionEnded(n)
    BY <2>1, UsageEnded
  <2>2. CASE \E n \in SessionNos : \E c \in Conns : LogSessionStarted(n, c)
    BY <2>2, UsageStarted
  <2>3. CASE \E c \in Conns : LogClientConnected(c)
    BY <2>3, UsageConnected
  <2>4. CASE \E c \in Conns : \E clean \in BOOLEAN : LogClientDisconnected(c, clean)
    BY <2>4, UsageDisconnected
  <2>5. CASE LogServerStarted
    BY <2>5, UsageServer
  <2>6. CASE UNCHANGED usageVars
    BY <2>6, UsageStays
  <2> QED BY <2>1, <2>2, <2>3, <2>4, <2>5, <2>6 DEF UsageNext
<1> QED BY <1>1, <1>2, PTL DEF UsageSpec

\* What is kept is what the index has, in whatever order.
LEMMA KeptIs ==
  ASSUME UsageBounds, NEW u, Shaped(u)
  PROVE  ToSet(u.kept) = {u.index[c] : c \in {d \in Conns : u.index[d] # NotKept}}
<1>1. PICK q, X, N : q = u.kept /\ X = u.index /\ N = Len(q)
  OBVIOUS
<1>2. /\ q \in Seq(LeftSession) /\ N \in Nat /\ Holds(q, X)
      /\ \A i \in 1..N : q[i] \in LeftSession /\ q[i].host \in Conns
  BY <1>1, StatsFields DEF Shaped
<1>3. DOMAIN q = 1..N
  BY <1>1, <1>2, LenProperties
<1>4. \A i \in 1..N : q[i] # NotKept /\ X[q[i].host] = q[i]
  BY <1>1, <1>2, NotKeptIsNone DEF Holds
<1>5. \A c \in Conns : X[c] # NotKept => \E i \in 1..N : q[i] = X[c]
  BY <1>1, <1>2 DEF Holds
<1>6. ToSet(q) = {X[c] : c \in {d \in Conns : X[d] # NotKept}}
  <2>1. ToSet(q) = {q[i] : i \in 1..N}
    BY <1>3 DEF ToSet
  <2>2. ASSUME NEW i \in 1..N PROVE \E c \in {d \in Conns : X[d] # NotKept} : q[i] = X[c]
    <3>1. q[i].host \in {d \in Conns : X[d] # NotKept}
      BY <1>2, <1>4
    <3> QED BY <1>4, <3>1
  <2>3. ASSUME NEW c \in {d \in Conns : X[d] # NotKept} PROVE \E i \in 1..N : q[i] = X[c]
    BY <1>5
  <2> QED BY <2>1, <2>2, <2>3
<1> QED BY <1>1, <1>6

\* A session that can come back is one that counts as away.
LEMMA KeptIsAway ==
  ASSUME UsageBounds, NEW b, NEW t \in Nat, NEW u, Fine(u, b, t)
  PROVE  \A c \in Conns : u.index[c] # NotKept =>
           u.index[c] \in u.away /\ u.index[c] \in ToSet(u.kept)
<1>1. ToSet(u.kept) = {u.index[c] : c \in {d \in Conns : u.index[d] # NotKept}}
  BY KeptIs DEF Fine
<1>2. Sound(u.active, u.away, u.index, b, t)
  BY DEF Fine
<1>3. \A c \in Conns : u.index[c] # NotKept => u.index[c] \in u.away
  BY <1>2 DEF Sound, Linked
<1> QED BY <1>1, <1>3

LEMMA SameButOrder ==
  ASSUME UsageBounds, NEW u, NEW v, Shaped(u), Shaped(v), SameStats(v, u)
  PROVE  [v EXCEPT !.kept = ToSet(@)] = [u EXCEPT !.kept = ToSet(@)]
<1>1. v.settled = u.settled /\ v.active = u.active /\ v.away = u.away /\ v.index = u.index
  BY DEF SameStats
<1>2. PICK X : X = u.index /\ X = v.index
  BY <1>1
<1>3. ToSet(u.kept) = {X[c] : c \in {d \in Conns : X[d] # NotKept}}
  <2>1. ToSet(u.kept) = {u.index[c] : c \in {d \in Conns : u.index[d] # NotKept}}
    BY KeptIs
  <2> QED BY <1>2, <2>1
<1>4. ToSet(v.kept) = {X[c] : c \in {d \in Conns : X[d] # NotKept}}
  <2>1. ToSet(v.kept) = {v.index[c] : c \in {d \in Conns : v.index[d] # NotKept}}
    BY KeptIs
  <2> QED BY <1>2, <2>1
<1>5. PICK K : K = ToSet(u.kept) /\ K = ToSet(v.kept)
  BY <1>3, <1>4
<1>6. u \in Stats /\ v \in Stats
  BY DEF Shaped
<1>7. [u EXCEPT !.kept = K]
        = [settled |-> u.settled, active |-> u.active, away |-> u.away, kept |-> K, index |-> u.index]
  BY <1>6 DEF Stats
<1>8. [v EXCEPT !.kept = K]
        = [settled |-> v.settled, active |-> v.active, away |-> v.away, kept |-> K, index |-> v.index]
  BY <1>6 DEF Stats
<1>9. [u EXCEPT !.kept = K] = [v EXCEPT !.kept = K]
  BY <1>1, <1>7, <1>8
<1> QED BY <1>5, <1>9

LEMMA UsageTrue == ASSUME UsageBounds, UsageInv PROVE UsageIsTrue
<1>1. PICK b, t, u, l, f, ir : /\ t \in Nat /\ b = begun /\ t = clock /\ u = usage /\ l = low
                               /\ f = full /\ ir = irregular
  BY DEF UsageInv, BegunInv
<1>2. t \in Nat /\ Consistent(b, t, u, l, f, ir)
  BY <1>1 DEF UsageInv
<1>3. PICK v : v = l.stats
  OBVIOUS
<1>4. Fine(u, b, t) /\ Fine(v, b, t) /\ FullSound(f, b, t) /\ l.evictions \in Nat
  BY <1>2, <1>3, ConsistentIs
<1>5. \A w \in {u, v} : \A c \in Conns : w.index[c] # NotKept =>
        w.index[c] \in w.away /\ w.index[c] \in ToSet(w.kept)
  <2>1. \A c \in Conns : u.index[c] # NotKept =>
          u.index[c] \in u.away /\ u.index[c] \in ToSet(u.kept)
    BY <1>2, <1>4, KeptIsAway
  <2>2. \A c \in Conns : v.index[c] # NotKept =>
          v.index[c] \in v.away /\ v.index[c] \in ToSet(v.kept)
    BY <1>2, <1>4, KeptIsAway
  <2> QED BY <2>1, <2>2
<1>6. \A w \in {u, v} : \/ "started again" \in ir /\ l.evictions > 0
                        \/ \A s \in w.active : WithId(w.away, s.id) = {}
  <2>1. CASE Excused(l, ir)
    <3>1. "started again" \in ir /\ l.evictions # 0
      BY <2>1 DEF Excused
    <3>2. PICK k : k = l.evictions
      OBVIOUS
    <3>3. k \in Nat /\ k # 0
      BY <1>4, <3>1, <3>2
    <3>4. k > 0
      BY <3>3
    <3> QED BY <3>1, <3>2, <3>4
  <2>2. CASE BothCount(u, l)
    BY <1>3, <2>2 DEF BothCount, CountsOnce
  <2> QED BY <1>2, <2>1, <2>2 DEF Consistent
<1>7. ASSUME l.evictions = 0
      PROVE  /\ [v EXCEPT !.kept = ToSet(@)] = [u EXCEPT !.kept = ToSet(@)]
             /\ \/ "started while away" \in ir
                \/ FullTotalDuration(f, t) = TotalDuration(u, t)
  <2>1. /\ CountsOnce(u.active, u.away) /\ AllKept(u.away, u.index) /\ SameStats(v, u)
        /\ "started while away" \in ir \/ FullKnows(f, u.settled, u.active, u.away)
    BY <1>2, <1>3, <1>7, WhileUnevicted
  <2>2. Shaped(u) /\ Shaped(v) /\ Sound(u.active, u.away, u.index, b, t) /\ f \in FullStats
    BY <1>4 DEF Fine, FullSound
  <2>3. [v EXCEPT !.kept = ToSet(@)] = [u EXCEPT !.kept = ToSet(@)]
    BY <2>1, <2>2, SameButOrder
  <2>4. CASE FullKnows(f, u.settled, u.active, u.away)
    <3>1. FullTotalDuration(f, t) = TotalDuration(u, t)
      BY <1>2, <2>1, <2>2, <2>4, KnowsTotal
    <3> QED BY <2>3, <3>1
  <2> QED BY <2>1, <2>3, <2>4
<1> QED BY <1>1, <1>3, <1>5, <1>6, <1>7 DEF UsageIsTrue

LEMMA UsageTyped == ASSUME UsageBounds, UsageInv PROVE UsageTypeOK
<1>1. PICK b, t, u, l, f, ir : /\ t \in Nat /\ b = begun /\ t = clock /\ u = usage /\ l = low
                               /\ f = full /\ ir = irregular
  BY DEF UsageInv, BegunInv
<1>2. t \in Nat /\ Consistent(b, t, u, l, f, ir)
  BY <1>1 DEF UsageInv
<1>3. PICK v : v = l.stats
  OBVIOUS
<1>4. Fine(u, b, t) /\ Fine(v, b, t) /\ FullSound(f, b, t) /\ l.evictions \in Nat
  BY <1>2, <1>3, ConsistentIs
<1>5. ASSUME NEW w, Fine(w, b, t)
      PROVE  /\ w.settled \in Nat /\ Len(w.kept) <= KeptMax
             /\ \A s \in w.active \cup w.away : s.host \in Conns /\ s.start \in 1..t
  <2>1. w.settled \in Nat /\ Len(w.kept) <= KeptMax /\ Sound(w.active, w.away, w.index, b, t)
    BY <1>5, StatsFields DEF Fine, Shaped
  <2>2. \A s \in w.active : s.host \in Conns /\ s.start \in 1..t
    BY <2>1, SoundFields
  <2>3. ASSUME NEW s \in w.away PROVE s.host \in Conns /\ s.start \in 1..t
    <3>1. s.host \in Conns /\ s.start \in 1..s.left /\ s.left \in 1..t
      BY <2>1, SoundFields
    <3>2. PICK i \in Nat, j \in Nat : i = s.start /\ j = s.left /\ i \in 1..j /\ j \in 1..t
      BY <3>1
    <3>3. i \in 1..t
      BY <1>2, <3>2
    <3> QED BY <3>1, <3>2, <3>3
  <2> QED BY <2>1, <2>2, <2>3
<1>6. f.settled \in Int
  BY <1>4 DEF FullSound, FullStats
<1>7. b \in [SessionNos -> [host : Conns \cup {"none"}, start : 0..MaxTime]] /\ t \in 0..MaxTime
  <2>1. /\ t \in 0..MaxTime /\ b \in [SessionNos -> [host : Conns \cup {"none"}, start : Nat]]
        /\ \A n \in SessionNos : b[n] = NotBegun \/ b[n].start \in 1..t
    BY <1>1 DEF UsageInv, BegunInv
  <2>2. MaxTime \in Nat
    BY DEF UsageBounds
  <2>3. \A i \in 1..t : i \in 0..MaxTime
    BY <2>1, <2>2
  <2>4. NotBegun.start \in 0..MaxTime
    BY <2>2 DEF NotBegun
  <2>5. \A n \in SessionNos : b[n].start \in 0..MaxTime
    BY <2>1, <2>3, <2>4
  <2> QED BY <2>1, <2>5
<1>8. \A w \in {u, v} : /\ w.settled \in Nat /\ Len(w.kept) <= KeptMax
                        /\ \A s \in w.active \cup w.away : s.host \in Conns /\ s.start \in 1..t
  BY <1>4, <1>5
<1> QED BY <1>1, <1>3, <1>4, <1>6, <1>7, <1>8 DEF UsageTypeOK

\* The statistics have their types, in any log.
THEOREM UsageTypeCorrect ==
  ASSUME UsageBounds
  PROVE  UsageSpec => []UsageTypeOK
BY UsageInvariance, UsageTyped, PTL

\* A session counts once, and as long as nothing was evicted the three ways to
\* add up durations agree, for any connections, sessions, cache size and log.
THEOREM UsageAddsUp ==
  ASSUME UsageBounds
  PROVE  UsageSpec => []UsageIsTrue
BY UsageInvariance, UsageTrue, PTL
=============================================================================
