-------------------------- MODULE MQTTServiceProofs --------------------------
(***************************************************************************)
(* What TLAPS shows of MQTTService for any filters, messages and bounds:   *)
(* types, a state that follows the link of its own client, subscription    *)
(* bookkeeping that neither forgets a filter nor waits for nothing, the    *)
(* connected status first on every link, and that the service implements   *)
(* Outbox.                                                                 *)
(***************************************************************************)
EXTENDS MQTTService, TLAPS, SequenceTheorems

Live == {"connecting", "up", "down"}

\* Which fields a state uses.
FieldsInv ==
  /\ state.name \in OnClient => state.client \in 1..Len(client)
  /\ state.name \notin Subscribing => state.pending = {}
  /\ state.name \notin Queueing => state.commands = <<>>

LinkInv ==
  /\ StateFollowsLink
  /\ OnlyCurrentClientIsLive
  /\ state.name \in OnClient => client[state.client].link \in Live

\* What is asked for and waited for on the link of the state's client.
WaitInv == SubscribingWaitsForAnswer /\ FiltersInUseAreAsked

\* StatusComesFirst of any sequence, at one place and at all.
FirstAt(q, i) ==
  q[i].what = "connected" <=>
    ~\E j \in 1..(i - 1) : q[j] = [q[i] EXCEPT !.what = "connected"]

ComesFirst(q) == \A i \in 1..Len(q) : FirstAt(q, i)

\* A history that is typed, starts with the status and has no request after r.
Orderly(q, r) ==
  /\ q \in Seq(Published)
  /\ ComesFirst(q)
  /\ \A i \in 1..Len(q) : q[i].request <= r

IsNew(q, r) == \A i \in 1..Len(q) : q[i].request # r
HasStatus(q, s) == \E i \in 1..Len(q) : q[i] = From(s, "connected")

SentInv ==
  /\ Orderly(sent, requests)
  /\ state.request <= requests
  /\ state.name \in {"Connecting", "OfflineAndReconnecting", "SubscribingOnConnect"}
       => IsNew(sent, state.request)
  /\ state.name \in {"SubscribingAfterConnected", "Connected"} => HasStatus(sent, state)

IInv == TypeOK /\ FieldsInv /\ LinkInv /\ WaitInv /\ SentInv

-----------------------------------------------------------------------------
(* Sequences of publications.                                              *)

\* Publishing some whats in the name of one state.
LEMMA AllFromTyped ==
  ASSUME NEW s \in State, NEW whats \in Seq(Messages \cup {"connected", "clean"})
  PROVE  /\ AllFrom(s, whats) \in Seq(Published)
         /\ Len(AllFrom(s, whats)) = Len(whats)
         /\ \A i \in 1..Len(whats) : AllFrom(s, whats)[i] = From(s, whats[i])
<1>1. \A i \in 1..Len(whats) : From(s, whats[i]) \in Published
  BY DEF From, Published, State
<1> QED
  BY <1>1 DEF AllFrom

\* A status alone.
LEMMA StatusFrom ==
  ASSUME NEW s \in State
  PROVE  /\ AllFrom(s, <<"connected">>) \in Seq(Published)
         /\ Len(AllFrom(s, <<"connected">>)) = 1
         /\ AllFrom(s, <<"connected">>)[1] = From(s, "connected")
<1> DEFINE whats == <<"connected">>
<1>1. whats \in Seq(Messages \cup {"connected", "clean"}) /\ Len(whats) = 1
      /\ whats[1] = "connected"
  OBVIOUS
<1> HIDE DEF whats
<1>2. /\ AllFrom(s, whats) \in Seq(Published)
      /\ Len(AllFrom(s, whats)) = 1
      /\ \A i \in 1..1 : AllFrom(s, whats)[i] = From(s, whats[i])
  BY <1>1, AllFromTyped
<1> QED
  BY <1>1, <1>2 DEF whats

\* The status of a request nothing was published under may be next.
LEMMA StatusIsNext ==
  ASSUME NEW q, NEW r \in Nat, NEW s \in State,
         Orderly(q, r), s.request <= r, IsNew(q, s.request)
  PROVE  /\ Orderly(q \o AllFrom(s, <<"connected">>), r)
         /\ HasStatus(q \o AllFrom(s, <<"connected">>), s)
<1> DEFINE more == AllFrom(s, <<"connected">>)
           t == q \o more
<1>1. more \in Seq(Published) /\ Len(more) = 1 /\ more[1] = From(s, "connected")
  BY StatusFrom
<1> HIDE DEF more
<1>2. q \in Seq(Published)
  BY DEF Orderly
<1>3. /\ t \in Seq(Published) /\ Len(t) = Len(q) + 1
      /\ \A i \in 1..Len(q) : t[i] = q[i]
      /\ t[Len(q) + 1] = From(s, "connected")
  <2>1. /\ t \in Seq(Published) /\ Len(t) = Len(q) + Len(more)
        /\ \A i \in 1..(Len(q) + Len(more)) :
             t[i] = IF i <= Len(q) THEN q[i] ELSE more[i - Len(q)]
    BY <1>2, <1>1, ConcatProperties
  <2> QED
    BY <1>2, <1>1, <2>1
<1> HIDE DEF t
<1>4. HasStatus(t, s)
  BY <1>2, <1>3 DEF HasStatus
<1>5. ComesFirst(t)
  <2> SUFFICES ASSUME NEW i \in 1..Len(t)
               PROVE  FirstAt(t, i)
    BY DEF ComesFirst
  <2>1. CASE i \in 1..Len(q)
    <3>1. t[i] = q[i] /\ \A j \in 1..(i - 1) : t[j] = q[j]
      BY <1>2, <1>3, <2>1
    <3>2. FirstAt(q, i)
      BY <2>1 DEF ComesFirst, Orderly
    <3> QED
      BY <3>1, <3>2 DEF FirstAt
  <2>2. CASE i = Len(q) + 1
    <3>1. t[i].what = "connected" /\ [t[i] EXCEPT !.what = "connected"] = From(s, "connected")
      BY <1>3, <2>2 DEF From
    <3>2. \A j \in 1..(i - 1) : t[j] # From(s, "connected")
      BY <1>2, <1>3, <2>2 DEF IsNew, From
    <3> QED
      BY <3>1, <3>2 DEF FirstAt
  <2> QED
    BY <1>2, <1>3, <2>1, <2>2
<1>6. \A i \in 1..Len(t) : t[i].request <= r
  BY <1>2, <1>3 DEF Orderly, From
<1> QED
  BY <1>3, <1>4, <1>5, <1>6 DEF t, more, Orderly

\* Anything but a status may follow the status of the same request.
LEMMA OthersAreNext ==
  ASSUME NEW q, NEW r \in Nat, NEW s \in State,
         Orderly(q, r), s.request <= r, HasStatus(q, s),
         NEW whats \in Seq(Messages \cup {"clean"})
  PROVE  Orderly(q \o AllFrom(s, whats), r) /\ HasStatus(q \o AllFrom(s, whats), s)
<1> DEFINE more == AllFrom(s, whats)
           t == q \o more
<1>1. q \in Seq(Published)
  BY DEF Orderly
<1>2. whats \in Seq(Messages \cup {"connected", "clean"})
  OBVIOUS
<1>3. more \in Seq(Published) /\ Len(more) = Len(whats)
      /\ \A i \in 1..Len(whats) : more[i] = From(s, whats[i]) /\ whats[i] # "connected"
  BY <1>2, AllFromTyped, ServiceAssumption
<1> HIDE DEF more
<1>4. /\ t \in Seq(Published) /\ Len(t) = Len(q) + Len(whats)
      /\ \A i \in 1..Len(q) : t[i] = q[i]
      /\ \A i \in 1..Len(t) : i > Len(q) => t[i] = more[i - Len(q)]
  BY <1>3, <1>1
<1> HIDE DEF t
<1>5. PICK k \in 1..Len(q) : q[k] = From(s, "connected")
  BY DEF HasStatus
<1>6. HasStatus(t, s)
  BY <1>1, <1>4, <1>5 DEF HasStatus
<1>7. \A i \in 1..Len(t) : i > Len(q) =>
        t[i].what # "connected" /\ t[i].request = s.request
          /\ [t[i] EXCEPT !.what = "connected"] = From(s, "connected")
  <2> SUFFICES ASSUME NEW i \in 1..Len(t), i > Len(q)
               PROVE  t[i].what # "connected" /\ t[i].request = s.request
                        /\ [t[i] EXCEPT !.what = "connected"] = From(s, "connected")
    OBVIOUS
  <2>1. i - Len(q) \in 1..Len(whats) /\ t[i] = more[i - Len(q)]
    BY <1>1, <1>4
  <2>2. t[i] = From(s, whats[i - Len(q)]) /\ whats[i - Len(q)] # "connected"
    BY <1>3, <2>1
  <2> QED
    BY <2>2 DEF From
<1>8. ComesFirst(t)
  <2> SUFFICES ASSUME NEW i \in 1..Len(t)
               PROVE  FirstAt(t, i)
    BY DEF ComesFirst
  <2>1. CASE i \in 1..Len(q)
    <3>1. t[i] = q[i] /\ \A j \in 1..(i - 1) : t[j] = q[j]
      BY <1>1, <1>4, <2>1
    <3>2. FirstAt(q, i)
      BY <2>1 DEF ComesFirst, Orderly
    <3> QED
      BY <3>1, <3>2 DEF FirstAt
  <2>2. CASE i > Len(q)
    <3>1. k \in 1..(i - 1) /\ t[k] = From(s, "connected")
      BY <1>1, <1>4, <1>5, <2>2
    <3> QED
      BY <1>7, <3>1, <2>2 DEF FirstAt
  <2> QED
    BY <1>1, <1>4, <2>1, <2>2
<1>9. \A i \in 1..Len(t) : t[i].request <= r
  BY <1>1, <1>4, <1>7 DEF Orderly
<1> QED
  BY <1>4, <1>6, <1>8, <1>9 DEF t, more, Orderly

\* Nothing was published under the next request id.
LEMMA NextRequestIsNew ==
  ASSUME requests \in Nat, Orderly(sent, requests)
  PROVE  Orderly(sent, requests + 1) /\ IsNew(sent, requests + 1)
<1>1. /\ sent \in Seq(Published) /\ ComesFirst(sent)
      /\ \A i \in 1..Len(sent) : sent[i].request <= requests
  BY DEF Orderly
<1>2. \A i \in 1..Len(sent) : sent[i] \in Published
  BY <1>1
<1>3. \A i \in 1..Len(sent) : sent[i].request \in Nat
  BY <1>2 DEF Published
<1> QED
  BY <1>1, <1>3 DEF Orderly, IsNew

\* Of a single publication.
LEMMA AppendedIsNext ==
  ASSUME NEW q, NEW r \in Nat, NEW s \in State,
         Orderly(q, r), s.request <= r, HasStatus(q, s), NEW what \in Messages \cup {"clean"}
  PROVE  Orderly(Append(q, From(s, what)), r) /\ HasStatus(Append(q, From(s, what)), s)
<1> DEFINE whats == <<what>>
<1>1. whats \in Seq(Messages \cup {"clean"}) /\ Len(whats) = 1 /\ whats[1] = what
  OBVIOUS
<1> HIDE DEF whats
<1>2. AllFrom(s, whats) = <<From(s, what)>>
  BY <1>1 DEF AllFrom
<1>3. From(s, what) \in Published /\ q \in Seq(Published)
  BY DEF From, Published, State, Orderly
<1>4. Append(q, From(s, what)) = q \o AllFrom(s, whats)
  BY <1>2, <1>3, AppendIsConcat
<1> QED
  BY <1>1, <1>4, OthersAreNext

\* The queue leaves behind the status, whichever of the two is sent first.
LEMMA Connects ==
  ASSUME NEW s \in State, NEW notices \in {<<>>, <<"connected">>},
         requests \in Nat, Orderly(sent, requests), s.request <= requests,
         IF notices = <<>> THEN HasStatus(sent, s) ELSE IsNew(sent, s.request),
         BecomeConnected(s, notices)
  PROVE  /\ state' \in State /\ state'.name = "Connected"
         /\ state'.client = s.client /\ state'.request = s.request
         /\ state'.commands = <<>> /\ state'.pending = {}
         /\ Orderly(sent', requests) /\ HasStatus(sent', state')
<1> DEFINE mid == sent \o AllFrom(s, notices)
<1>1. state' = [s EXCEPT !.name = "Connected", !.pending = {}, !.commands = <<>>]
      /\ sent' = mid \o AllFrom(s, s.commands)
  BY DEF BecomeConnected
<1>2. /\ state' \in State /\ state'.name = "Connected"
      /\ state'.client = s.client /\ state'.request = s.request
      /\ state'.commands = <<>> /\ state'.pending = {}
  <2>1. <<>> \in Seq(Messages)
    OBVIOUS
  <2> QED
    BY <1>1, <2>1 DEF State, Active
<1>3. Orderly(mid, requests) /\ HasStatus(mid, s)
  <2>1. CASE notices = <<>>
    <3>1. <<>> \in Seq(Messages \cup {"clean"})
      OBVIOUS
    <3> QED
      BY <2>1, <3>1, OthersAreNext
  <2>2. CASE notices = <<"connected">>
    <3>1. notices # <<>>
      BY <2>2
    <3> QED
      BY <2>2, <3>1, StatusIsNext
  <2> QED
    BY <2>1, <2>2
<1> HIDE DEF mid
<1>4. s.commands \in Seq(Messages \cup {"clean"})
  BY DEF State
<1>5. Orderly(sent', requests) /\ HasStatus(sent', s)
  BY <1>1, <1>3, <1>4, OthersAreNext
<1>6. HasStatus(sent', state')
  BY <1>2, <1>5 DEF HasStatus, From
<1> QED
  BY <1>2, <1>5, <1>6

-----------------------------------------------------------------------------
(* Clients.                                                                *)

\* One client changes and the others stay.
LEMMA ClientChanges ==
  ASSUME client \in Seq(Client), NEW n \in 1..Len(client), NEW c \in Client,
         client' = [client EXCEPT ![n] = c]
  PROVE  /\ client' \in Seq(Client) /\ Len(client') = Len(client)
         /\ \A m \in 1..Len(client) : client'[m] = IF m = n THEN c ELSE client[m]
<1>1. client \in [1..Len(client) -> Client]
  OBVIOUS
<1>2. client' \in [1..Len(client) -> Client]
  BY <1>1
<1> QED
  BY <1>1, <1>2

\* A client that subscribed owes the callback and has asked.
LEMMA SubscribedIsOwed ==
  ASSUME NEW cl \in Client, NEW filters \in SUBSET Filters
  PROVE  /\ Subscribed(cl, filters) \in Client
         /\ Subscribed(cl, filters).link = cl.link
         /\ Subscribed(cl, filters).asked = cl.asked \cup filters
         /\ \A f : Owes(cl, f) \/ f \in filters => Owes(Subscribed(cl, filters), f)
<1> DEFINE more == Append(cl.outstanding, filters)
<1>1. cl.outstanding \in Seq(SUBSET Filters)
  BY DEF Client
<1>2. /\ more \in Seq(SUBSET Filters) /\ Len(more) = Len(cl.outstanding) + 1
      /\ \A i \in 1..Len(cl.outstanding) : more[i] = cl.outstanding[i]
      /\ more[Len(cl.outstanding) + 1] = filters
  BY <1>1, AppendProperties
<1>3. Subscribed(cl, filters) = [cl EXCEPT !.outstanding = more, !.asked = @ \cup filters]
  BY DEF Subscribed
<1> HIDE DEF more
<1>4. /\ Subscribed(cl, filters) \in Client
      /\ Subscribed(cl, filters).link = cl.link
      /\ Subscribed(cl, filters).outstanding = more
      /\ Subscribed(cl, filters).asked = cl.asked \cup filters
  BY <1>2, <1>3 DEF Client
<1>5. ASSUME NEW f, Owes(cl, f) \/ f \in filters
      PROVE  Owes(Subscribed(cl, filters), f)
  BY <1>1, <1>2, <1>4, <1>5 DEF Owes
<1> QED
  BY <1>4, <1>5

\* A client whose link changes owes nothing and has asked for nothing.
Fresh(link) == [link |-> link, outstanding |-> <<>>, asked |-> {}]

LEMMA LinkChanges ==
  ASSUME client \in Seq(Client), NEW n \in 1..Len(client),
         NEW link \in {"connecting", "up", "down", "closed"}, LinkIs(n, link)
  PROVE  /\ Fresh(link) \in Client /\ Fresh(link).link = link
         /\ client' \in Seq(Client) /\ Len(client') = Len(client)
         /\ \A m \in 1..Len(client) : client'[m] = IF m = n THEN Fresh(link) ELSE client[m]
<1>1. Fresh(link) \in Client /\ Fresh(link).link = link
  BY DEF Fresh, Client
<1>2. client' = [client EXCEPT ![n] = Fresh(link)]
  BY DEF LinkIs, Fresh
<1> QED
  BY <1>1, <1>2, ClientChanges

-----------------------------------------------------------------------------
(* Steps, by what they do to the state.                                    *)

\* A step to a state that has no client, from one that has none.
LEMMA IdleStep ==
  ASSUME IInv, state.name \notin OnClient,
         NEW name \in Waiting \cup {"WaitingForAccessTokenToConnect"},
         state' = Idle(name), authorization' \in Tokens,
         UNCHANGED <<refCounts, client, requests, sent>>
  PROVE  IInv'
<1> USE DEF Waiting, OnClient, Offlines, Subscribing, Active, Queueing
<1>1. /\ state' \in State /\ state'.name \notin OnClient /\ state'.request = 0
      /\ state'.commands = <<>> /\ state'.pending = {}
  BY DEF Idle, State
<1>2. TypeOK'
  BY <1>1 DEF IInv, TypeOK
<1>3. FieldsInv'
  BY <1>1 DEF FieldsInv
<1>4. LinkInv'
  BY <1>1 DEF IInv, LinkInv, StateFollowsLink, OnlyCurrentClientIsLive, IsCurrent
<1>5. WaitInv'
  BY <1>1 DEF WaitInv, SubscribingWaitsForAnswer, FiltersInUseAreAsked
<1>6. SentInv'
  BY <1>1 DEF IInv, TypeOK, SentInv
<1> QED
  BY <1>2, <1>3, <1>4, <1>5, <1>6 DEF IInv

\* A new client gets a new request id.
LEMMA MakeClientStep ==
  ASSUME IInv, state.name \notin OnClient, NEW commands \in Seq(Messages),
         MakeClient(commands), authorization' \in Tokens, UNCHANGED refCounts
  PROVE  IInv'
<1> USE DEF OnClient, Offlines, Subscribing, Active, Queueing
<1> DEFINE new == [link |-> "connecting", outstanding |-> <<>>, asked |-> {}]
<1>1. /\ state' \in State /\ state'.name = "Connecting"
      /\ state'.client = Len(client) + 1 /\ state'.request = requests + 1
      /\ state'.pending = {} /\ requests \in Nat
  BY DEF MakeClient, State, IInv, TypeOK
<1>2. new \in Client
  BY DEF Client
<1>3. /\ client' \in Seq(Client) /\ Len(client') = Len(client) + 1
      /\ \A m \in 1..Len(client) : client'[m] = client[m]
      /\ client'[Len(client) + 1] = new
  BY <1>2, AppendProperties DEF MakeClient, IInv, TypeOK
<1>4. sent' = sent /\ requests' = requests + 1
  BY DEF MakeClient
<1>5. TypeOK'
  BY <1>1, <1>3, <1>4 DEF IInv, TypeOK
<1>6. FieldsInv'
  BY <1>1, <1>3 DEF IInv, TypeOK, FieldsInv
<1>7. LinkInv'
  <2>1. \A m \in 1..Len(client) : client[m].link \in {"ended", "closed"}
    BY DEF IInv, LinkInv, OnlyCurrentClientIsLive, IsCurrent
  <2>2. OnlyCurrentClientIsLive'
    BY <1>1, <1>3, <2>1 DEF IInv, TypeOK, OnlyCurrentClientIsLive, IsCurrent
  <2> QED
    BY <1>1, <1>3, <2>2 DEF LinkInv, StateFollowsLink, Live
<1>8. WaitInv'
  BY <1>1 DEF WaitInv, SubscribingWaitsForAnswer, FiltersInUseAreAsked
<1>9. SentInv'
  <2>1. Orderly(sent, requests + 1) /\ IsNew(sent, requests + 1)
    BY NextRequestIsNew DEF IInv, TypeOK, SentInv
  <2> QED
    BY <1>1, <1>4, <2>1 DEF SentInv
<1> QED
  BY <1>5, <1>6, <1>7, <1>8, <1>9 DEF IInv

\* The parts of the invariant that every step uses.
LEMMA Facts ==
  ASSUME IInv
  PROVE  /\ authorization \in Tokens /\ state \in State /\ requests \in Nat
         /\ refCounts \in [Filters -> Nat] /\ client \in Seq(Client)
         /\ sent \in Seq(Published) /\ Orderly(sent, requests) /\ state.request <= requests
         /\ state.name \in OnClient =>
              /\ state.client \in 1..Len(client)
              /\ client[state.client] \in Client
              /\ client[state.client].link \in Live
BY DEF IInv, TypeOK, FieldsInv, LinkInv, SentInv

\* publish
LEMMA PublishStep ==
  ASSUME IInv, NEW m \in Messages, Publish(m)
  PROVE  IInv'
<1> USE Facts
<1>1. CASE state.name \in Queueing /\ state' = [state EXCEPT !.commands = Append(@, m)]
           /\ UNCHANGED sent
  <2>1. Append(state.commands, m) \in Seq(Messages)
    BY DEF State
  <2>2. /\ state' \in State /\ state'.name = state.name /\ state'.client = state.client
        /\ state'.request = state.request /\ state'.pending = state.pending
    BY <1>1, <2>1 DEF State
  <2>3. UNCHANGED <<authorization, refCounts, client, requests, sent>>
    BY <1>1 DEF Publish
  <2>4. TypeOK' /\ FieldsInv'
    BY <1>1, <2>2, <2>3 DEF IInv, TypeOK, FieldsInv
  <2>5. LinkInv'
    BY <2>2, <2>3 DEF IInv, LinkInv, StateFollowsLink, OnlyCurrentClientIsLive, IsCurrent
  <2>6. WaitInv'
    BY <2>2, <2>3 DEF IInv, WaitInv, SubscribingWaitsForAnswer, FiltersInUseAreAsked, InUse
  <2>7. SentInv'
    BY <2>2, <2>3 DEF IInv, SentInv, HasStatus, From
  <2> QED
    BY <2>4, <2>5, <2>6, <2>7 DEF IInv
<1>2. CASE state.name = "Connected" /\ sent' = Append(sent, From(state, m)) /\ UNCHANGED state
  <2>1. UNCHANGED <<authorization, refCounts, client, requests, state>>
    BY <1>2 DEF Publish
  <2>2. Orderly(sent', requests) /\ HasStatus(sent', state)
    <3>1. HasStatus(sent, state)
      BY <1>2 DEF IInv, SentInv
    <3> QED
      BY <1>2, <3>1, AppendedIsNext
  <2>3. SentInv'
    BY <1>2, <2>1, <2>2 DEF SentInv, HasStatus
  <2>4. TypeOK'
    BY <2>1, <2>2 DEF IInv, TypeOK, Orderly
  <2>5. FieldsInv' /\ LinkInv' /\ WaitInv'
    BY <2>1 DEF IInv, FieldsInv, LinkInv, StateFollowsLink, OnlyCurrentClientIsLive,
                IsCurrent, WaitInv, SubscribingWaitsForAnswer, FiltersInUseAreAsked, InUse
  <2> QED
    BY <2>3, <2>4, <2>5 DEF IInv
<1> QED
  BY <1>1, <1>2 DEF Publish

\* Connect
LEMMA ConnectStep ==
  ASSUME IInv, Connect
  PROVE  IInv'
<1> USE DEF OnClient, Offlines, Subscribing
<1>1. authorization' \in Tokens /\ UNCHANGED refCounts
  BY Facts DEF Connect
<1>2. CASE state.name = "WaitingForAccessTokenToBeReady"
  BY <1>1, <1>2, IdleStep DEF Connect
<1>3. CASE state.name = "Ready"
  <2>1. <<>> \in Seq(Messages)
    OBVIOUS
  <2>2. MakeClient(<<>>) /\ state.name \notin OnClient
    BY <1>3 DEF Connect
  <2> QED
    BY <1>1, <2>1, <2>2, MakeClientStep
<1> QED
  BY <1>2, <1>3 DEF Connect

\* Disconnect
LEMMA DisconnectStep ==
  ASSUME IInv, Disconnect
  PROVE  IInv'
<1> USE Facts
<1> DEFINE n == state.client
           ended == [client[n] EXCEPT !.link = "ended"]
<1>1. /\ n \in 1..Len(client) /\ client[n] \in Client
      /\ UNCHANGED <<authorization, refCounts, requests>>
  BY DEF Disconnect
<1>2. ended \in Client /\ ended.link = "ended"
  BY <1>1 DEF Client
<1>3. client' = [client EXCEPT ![n] = ended]
  BY DEF Disconnect, EndClient
<1>4. /\ client' \in Seq(Client) /\ Len(client') = Len(client)
      /\ \A m \in 1..Len(client) : client'[m] = IF m = n THEN ended ELSE client[m]
  BY <1>1, <1>2, <1>3, ClientChanges
<1> HIDE DEF ended
<1>5. /\ state' \in State /\ state'.name = "Ready" /\ state'.request = 0
      /\ state'.commands = <<>> /\ state'.pending = {}
  BY DEF Disconnect, Idle, State, Waiting
<1>6. Orderly(sent', requests)
  <2>1. CASE state.name = "Connected"
    <3>1. HasStatus(sent, state)
      BY <2>1 DEF IInv, SentInv
    <3> QED
      BY <2>1, <3>1, AppendedIsNext DEF Disconnect
  <2>2. CASE state.name # "Connected"
    BY <2>2 DEF Disconnect
  <2> QED
    BY <2>1, <2>2
<1>7. TypeOK'
  BY <1>1, <1>4, <1>5, <1>6 DEF TypeOK, Orderly
<1>8. FieldsInv' /\ WaitInv'
  BY <1>5 DEF FieldsInv, OnClient, Offlines, Subscribing, WaitInv, SubscribingWaitsForAnswer,
              FiltersInUseAreAsked
<1>9. LinkInv'
  BY <1>1, <1>2, <1>4, <1>5 DEF IInv, LinkInv, StateFollowsLink, OnlyCurrentClientIsLive, IsCurrent,
              OnClient, Offlines, Subscribing
<1>10. SentInv'
  BY <1>1, <1>5, <1>6 DEF SentInv
<1> QED
  BY <1>7, <1>8, <1>9, <1>10 DEF IInv

\* The authorization tells of a token, or of its loss.
LEMMA AuthorizationStep ==
  ASSUME IInv, NEW a \in Tokens, AuthorizationChanges(a)
  PROVE  IInv'
<1> USE DEF OnClient, Offlines, Subscribing
<1>1. authorization' \in Tokens /\ UNCHANGED refCounts
  BY DEF AuthorizationChanges
<1>2. CASE state.name \in {"AwaitingLogin", "WaitingForAccessTokenToBeReady"}
  <2>1. state' = Idle(StateFor(a)) /\ UNCHANGED <<client, requests, sent>>
    BY <1>2 DEF AuthorizationChanges
  <2>2. StateFor(a) \in Waiting
    BY DEF StateFor, Waiting, Tokens
  <2> QED
    BY <1>1, <1>2, <2>1, <2>2, IdleStep
<1>3. CASE state.name = "WaitingForAccessTokenToConnect" /\ a = "login_required"
  <2>1. state' = Idle("AwaitingLogin") /\ UNCHANGED <<client, requests, sent>>
    BY <1>3 DEF AuthorizationChanges
  <2>2. "AwaitingLogin" \in Waiting
    BY DEF Waiting
  <2> QED
    BY <1>1, <1>3, <2>1, <2>2, IdleStep
<1>4. CASE state.name = "WaitingForAccessTokenToConnect" /\ a = "available"
  <2>1. MakeClient(state.commands)
    BY <1>4 DEF AuthorizationChanges
  <2>2. state.commands \in Seq(Messages)
    BY Facts DEF State
  <2> QED
    BY <1>1, <1>4, <2>1, <2>2, MakeClientStep
<1>5. CASE /\ state.name \notin {"AwaitingLogin", "WaitingForAccessTokenToBeReady"}
           /\ ~(state.name = "WaitingForAccessTokenToConnect" /\ a \in {"login_required", "available"})
  <2>1. UNCHANGED <<refCounts, state, client, requests, sent>>
    BY <1>5 DEF AuthorizationChanges
  <2> QED
    BY <1>1, <2>1 DEF IInv, TypeOK, FieldsInv, LinkInv, StateFollowsLink, OnlyCurrentClientIsLive,
          IsCurrent, WaitInv, SubscribingWaitsForAnswer, FiltersInUseAreAsked, InUse, SentInv,
          HasStatus
<1> QED
  BY <1>2, <1>3, <1>4, <1>5

\* handle_connect
LEMMA HandleConnectStep ==
  ASSUME IInv, NEW n \in 1..Len(client), HandleConnect(n)
  PROVE  IInv'
<1> USE Facts
<1> USE DEF OnClient, Offlines, Subscribing, Queueing, Active
<1>1. /\ state.client = n /\ state.name \in {"Connecting", "OfflineAndReconnecting"}
      /\ UNCHANGED <<authorization, refCounts, requests>>
  BY DEF HandleConnect, IsCurrent
<1>2. IsNew(sent, state.request)
  BY <1>1 DEF IInv, SentInv
<1>3. CASE InUse = {}
  <2>1. BecomeConnected(state, <<"connected">>) /\ LinkIs(n, "up")
    BY <1>3 DEF HandleConnect
  <2>2. /\ state' \in State /\ state'.name = "Connected"
        /\ state'.client = n /\ state'.request = state.request
        /\ state'.commands = <<>> /\ state'.pending = {}
        /\ Orderly(sent', requests) /\ HasStatus(sent', state')
    <3>1. <<"connected">> # <<>>
      OBVIOUS
    <3> QED
      BY <1>1, <1>2, <2>1, <3>1, Connects
  <2>3. /\ client' \in Seq(Client) /\ Len(client') = Len(client)
        /\ \A m \in 1..Len(client) : client'[m] = IF m = n THEN Fresh("up") ELSE client[m]
        /\ Fresh("up").link = "up"
    BY <2>1, LinkChanges
  <2>4. TypeOK'
    BY <1>1, <2>2, <2>3 DEF TypeOK, Orderly
  <2>5. FieldsInv'
    BY <2>2, <2>3 DEF FieldsInv
  <2>6. LinkInv'
    BY <1>1, <2>2, <2>3 DEF IInv, LinkInv, StateFollowsLink, OnlyCurrentClientIsLive, IsCurrent, Live
  <2>7. WaitInv'
    BY <1>1, <1>3, <2>2 DEF WaitInv, SubscribingWaitsForAnswer, FiltersInUseAreAsked, InUse
  <2>8. SentInv'
    BY <1>1, <2>2 DEF SentInv
  <2> QED
    BY <2>4, <2>5, <2>6, <2>7, <2>8 DEF IInv
<1>4. CASE InUse # {}
  <2> DEFINE asking == Subscribed(Fresh("up"), InUse)
  <2>1. /\ state' = [state EXCEPT !.name = "SubscribingOnConnect", !.pending = InUse]
        /\ client' = [client EXCEPT ![n] = asking] /\ UNCHANGED sent
    BY <1>4 DEF HandleConnect, Fresh
  <2>2. InUse \in SUBSET Filters
    BY DEF InUse
  <2>3. /\ state' \in State /\ state'.name = "SubscribingOnConnect" /\ state'.client = n
        /\ state'.request = state.request /\ state'.pending = InUse
    BY <1>1, <2>1, <2>2 DEF State
  <2>4. /\ asking \in Client /\ asking.link = "up" /\ asking.asked = InUse
        /\ \A f \in InUse : Owes(asking, f)
    <3>1. Fresh("up") \in Client /\ Fresh("up").link = "up" /\ Fresh("up").asked = {}
      BY DEF Fresh, Client
    <3>2. /\ asking \in Client /\ asking.link = Fresh("up").link
          /\ asking.asked = Fresh("up").asked \cup InUse
          /\ \A f : f \in InUse => Owes(asking, f)
      BY <2>2, <3>1, SubscribedIsOwed
    <3> QED
      BY <3>1, <3>2
  <2>5. /\ client' \in Seq(Client) /\ Len(client') = Len(client)
        /\ \A m \in 1..Len(client) : client'[m] = IF m = n THEN asking ELSE client[m]
    BY <2>1, <2>4, ClientChanges
  <2> HIDE DEF asking
  <2>6. TypeOK' /\ FieldsInv'
    BY <1>1, <2>1, <2>3, <2>5 DEF TypeOK, FieldsInv
  <2>7. LinkInv'
    BY <1>1, <2>3, <2>4, <2>5 DEF IInv, LinkInv, StateFollowsLink, OnlyCurrentClientIsLive, IsCurrent, Live
  <2>8. WaitInv'
    <3>1. InUse' = InUse
      BY <1>1 DEF InUse
    <3>2. client'[state'.client] = asking
      BY <2>3, <2>5
    <3> QED
      BY <1>4, <2>3, <2>4, <3>1, <3>2 DEF WaitInv, SubscribingWaitsForAnswer, FiltersInUseAreAsked
  <2>9. SentInv'
    BY <1>1, <1>2, <2>1, <2>3 DEF SentInv
  <2> QED
    BY <2>6, <2>7, <2>8, <2>9 DEF IInv
<1> QED
  BY <1>3, <1>4

\* handle_close, which the link of an older client may be late for
LEMMA HandleCloseStep ==
  ASSUME IInv, NEW n \in 1..Len(client), HandleClose(n)
  PROVE  IInv'
<1> USE Facts
<1> USE DEF OnClient, Offlines, Subscribing, Queueing, Active
<1>1. UNCHANGED <<authorization, refCounts, requests, sent>>
  BY DEF HandleClose
<1>2. PICK link \in {"down", "closed"} :
        LinkIs(n, link) /\ (link = "down" => client[n].link \in {"connecting", "up"})
                       /\ (link = "closed" => client[n].link = "ended")
  BY DEF HandleClose
<1>3. /\ client' \in Seq(Client) /\ Len(client') = Len(client)
      /\ \A m \in 1..Len(client) : client'[m] = IF m = n THEN Fresh(link) ELSE client[m]
      /\ Fresh(link).link = link
  BY <1>2, LinkChanges
<1>4. link = "down" <=> IsCurrent(n)
  BY <1>2 DEF IInv, LinkInv, OnlyCurrentClientIsLive, IsCurrent, Live
<1>5. CASE IsCurrent(n)
  <2>1. /\ state' \in State /\ state'.name \in {"Connecting", "Offline"} /\ state'.client = n
        /\ state'.request = state.request /\ state'.commands = state.commands
        /\ state'.pending = {}
        /\ state'.name = "Connecting" => state.name = "Connecting"
    <3>1. CASE state.name = "Connecting"
      BY <1>5, <3>1 DEF HandleClose, IsCurrent, IInv, FieldsInv
    <3>2. CASE state.name # "Connecting"
      <4>1. state' = [state EXCEPT !.name = "Offline", !.pending = {}]
        BY <1>5, <3>2 DEF HandleClose
      <4> QED
        BY <1>5, <4>1 DEF State, IsCurrent
    <3> QED
      BY <3>1, <3>2
  <2>2. TypeOK' /\ FieldsInv'
    BY <1>1, <1>3, <2>1 DEF TypeOK, FieldsInv
  <2>3. LinkInv'
    BY <1>3, <1>4, <1>5, <2>1 DEF IInv, LinkInv, StateFollowsLink, OnlyCurrentClientIsLive, IsCurrent, Live
  <2>4. WaitInv'
    BY <2>1 DEF WaitInv, SubscribingWaitsForAnswer, FiltersInUseAreAsked
  <2>5. SentInv'
    BY <1>1, <2>1 DEF IInv, SentInv
  <2> QED
    BY <2>2, <2>3, <2>4, <2>5 DEF IInv
<1>6. CASE ~IsCurrent(n)
  <2>1. state' = state
    BY <1>6 DEF HandleClose
  <2>2. state.name \in OnClient => client'[state.client] = client[state.client]
    BY <1>3, <1>6 DEF IsCurrent
  <2>3. TypeOK' /\ FieldsInv'
    BY <1>1, <1>3, <2>1 DEF IInv, TypeOK, FieldsInv
  <2>4. LinkInv'
    BY <1>3, <1>4, <1>6, <2>1, <2>2
       DEF IInv, LinkInv, StateFollowsLink, OnlyCurrentClientIsLive, IsCurrent
  <2>5. WaitInv'
    BY <1>1, <2>1, <2>2 DEF IInv, WaitInv, SubscribingWaitsForAnswer, FiltersInUseAreAsked, InUse
  <2>6. SentInv'
    BY <1>1, <2>1 DEF IInv, SentInv, HasStatus
  <2> QED
    BY <2>3, <2>4, <2>5, <2>6 DEF IInv
<1> QED
  BY <1>5, <1>6

\* handle_reconnect
LEMMA HandleReconnectStep ==
  ASSUME IInv, NEW n \in 1..Len(client), HandleReconnect(n)
  PROVE  IInv'
<1> USE Facts
<1> USE DEF OnClient, Offlines, Subscribing, Queueing, Active
<1>1. /\ state.name \in OnClient /\ state.client = n /\ LinkIs(n, "connecting")
      /\ UNCHANGED <<authorization, refCounts, sent>>
  BY DEF HandleReconnect, IsCurrent
<1>2. /\ client' \in Seq(Client) /\ Len(client') = Len(client)
      /\ \A m \in 1..Len(client) : client'[m] = IF m = n THEN Fresh("connecting") ELSE client[m]
      /\ Fresh("connecting").link = "connecting"
  BY <1>1, LinkChanges
<1>3. /\ state' \in State /\ state'.name \in {"Connecting", "OfflineAndReconnecting"}
      /\ state'.client = n /\ state'.pending = {}
      /\ requests' \in Nat /\ state'.request <= requests' /\ Orderly(sent, requests')
      /\ IsNew(sent, state'.request)
  <2>1. CASE state.name = "Connecting"
    BY <1>1, <2>1 DEF HandleReconnect, IInv, FieldsInv, SentInv
  <2>2. CASE state.name # "Connecting"
    <3>1. /\ requests' = requests + 1
          /\ state' = [state EXCEPT !.name = "OfflineAndReconnecting",
                                    !.request = requests + 1, !.pending = {}]
      BY <2>2 DEF HandleReconnect
    <3>2. /\ state' \in State /\ state'.name = "OfflineAndReconnecting" /\ state'.client = n
          /\ state'.pending = {} /\ state'.request = requests + 1
      <4>1. requests + 1 \in Nat /\ "OfflineAndReconnecting" \in Waiting \cup Active
        OBVIOUS
      <4> QED
        BY <1>1, <3>1, <4>1 DEF State
    <3> QED
      BY <3>1, <3>2, NextRequestIsNew
  <2> QED
    BY <2>1, <2>2
<1>4. TypeOK' /\ FieldsInv'
  BY <1>1, <1>2, <1>3 DEF TypeOK, FieldsInv
<1>5. LinkInv'
  BY <1>1, <1>2, <1>3 DEF IInv, LinkInv, StateFollowsLink, OnlyCurrentClientIsLive, IsCurrent, Live
<1>6. WaitInv'
  BY <1>3 DEF WaitInv, SubscribingWaitsForAnswer, FiltersInUseAreAsked
<1>7. SentInv'
  BY <1>1, <1>3 DEF SentInv
<1> QED
  BY <1>4, <1>5, <1>6, <1>7 DEF IInv

-----------------------------------------------------------------------------
(* Steps while the link is up.                                             *)

Up == Subscribing \cup {"Connected"}

\* The links stay when only subscribe calls come and go.
LEMMA LinkKept ==
  ASSUME IInv, Len(client') = Len(client),
         \A m \in 1..Len(client) : client'[m].link = client[m].link,
         state'.client = state.client,
         state'.name \in OnClient <=> state.name \in OnClient,
         state'.name \in Up <=> state.name \in Up
  PROVE  LinkInv'
BY DEF IInv, FieldsInv, LinkInv, StateFollowsLink, OnlyCurrentClientIsLive, IsCurrent, Up, OnClient

\* Waiting goes on, or the queue leaves and the state is Connected.
LEMMA Settles ==
  ASSUME IInv, NEW s \in State, state.name \in Subscribing,
         s.name = state.name, s.client = state.client, s.request = state.request,
         requests' = requests, SettlePending(s)
  PROVE  /\ state' \in State /\ state'.client = state.client /\ state'.pending = s.pending
         /\ state'.name = IF s.pending # {} THEN state.name ELSE "Connected"
         /\ state'.name \notin Queueing => state'.commands = <<>>
         /\ SentInv'
<1> USE Facts
<1> USE DEF Subscribing, Queueing, Offlines
<1>1. CASE s.pending # {}
  <2>1. state' = s /\ sent' = sent
    BY <1>1 DEF SettlePending
  <2>2. SentInv'
    BY <2>1 DEF IInv, SentInv, HasStatus, From
  <2> QED
    BY <1>1, <2>1, <2>2
<1>2. CASE s.pending = {}
  <2>1. BecomeConnected(s, NoticesOf(s))
    BY <1>2 DEF SettlePending
  <2>2. CASE state.name = "SubscribingOnConnect"
    <3>1. NoticesOf(s) = <<"connected">> /\ NoticesOf(s) # <<>>
      BY <2>2 DEF NoticesOf
    <3>2. IsNew(sent, s.request)
      BY <2>2 DEF IInv, SentInv
    <3>3. /\ state' \in State /\ state'.name = "Connected"
          /\ state'.client = s.client /\ state'.request = s.request
          /\ state'.commands = <<>> /\ state'.pending = {}
          /\ Orderly(sent', requests) /\ HasStatus(sent', state')
      BY <2>1, <3>1, <3>2, Connects
    <3>4. SentInv'
      BY <3>3 DEF SentInv
    <3> QED
      BY <1>2, <3>3, <3>4
  <2>3. CASE state.name = "SubscribingAfterConnected"
    <3>1. NoticesOf(s) = <<>>
      BY <2>3 DEF NoticesOf
    <3>2. HasStatus(sent, s)
      BY <2>3 DEF IInv, SentInv, HasStatus, From
    <3>3. /\ state' \in State /\ state'.name = "Connected"
          /\ state'.client = s.client /\ state'.request = s.request
          /\ state'.commands = <<>> /\ state'.pending = {}
          /\ Orderly(sent', requests) /\ HasStatus(sent', state')
      BY <2>1, <3>1, <3>2, Connects
    <3>4. SentInv'
      BY <3>3 DEF SentInv
    <3> QED
      BY <1>2, <3>3, <3>4
  <2> QED
    BY <2>2, <2>3
<1> QED
  BY <1>1, <1>2

\* handle_subscribe_callback, whichever client owed it
LEMMA CallbackStep ==
  ASSUME IInv, NEW n \in 1..Len(client), HandleSubscribeCallback(n)
  PROVE  IInv'
<1> USE Facts
<1> DEFINE done == Head(client[n].outstanding)
           told == [client[n] EXCEPT !.outstanding = Tail(@)]
<1>1. /\ client[n].outstanding \in Seq(SUBSET Filters) /\ client[n].outstanding # <<>>
      /\ UNCHANGED <<authorization, refCounts, requests>>
  <2>1. client[n] \in Client
    OBVIOUS
  <2> QED
    BY <2>1 DEF HandleSubscribeCallback, Client
<1>2. /\ told \in Client /\ told.link = client[n].link /\ told.asked = client[n].asked
      /\ told.outstanding = Tail(client[n].outstanding)
  <2>1. client[n] \in Client /\ Tail(client[n].outstanding) \in Seq(SUBSET Filters)
    BY <1>1
  <2> QED
    BY <2>1 DEF Client
<1>3. client' = [client EXCEPT ![n] = told]
  BY DEF HandleSubscribeCallback
<1>4. \A f : Owes(client[n], f) /\ f \notin done => Owes(told, f)
  <2> SUFFICES ASSUME NEW f, Owes(client[n], f), f \notin done
               PROVE  Owes(told, f)
    OBVIOUS
  <2>1. PICK i \in 1..Len(client[n].outstanding) : f \in client[n].outstanding[i]
    BY DEF Owes
  <2>2. i # 1
    BY <1>1, <2>1
  <2>3. i - 1 \in 1..Len(told.outstanding) /\ told.outstanding[i - 1] = client[n].outstanding[i]
    BY <1>1, <1>2, <2>1, <2>2
  <2> QED
    BY <2>1, <2>3 DEF Owes
<1>5. done \in SUBSET Filters
  BY <1>1
<1>6. /\ client' \in Seq(Client) /\ Len(client') = Len(client)
      /\ \A m \in 1..Len(client) : client'[m] = IF m = n THEN told ELSE client[m]
  BY <1>2, <1>3, ClientChanges
<1>7. \/ state.name \in Subscribing /\ SettlePending([state EXCEPT !.pending = @ \ done])
      \/ /\ state.name \in Subscribing => state.pending \cap done = {}
         /\ UNCHANGED <<state, sent>>
  BY DEF HandleSubscribeCallback
<1> HIDE DEF done, told
<1>8. /\ \A m \in 1..Len(client) : client'[m].link = client[m].link /\ client'[m].asked = client[m].asked
      /\ \A m \in 1..Len(client) : \A f : Owes(client[m], f) /\ f \notin done => Owes(client'[m], f)
  BY <1>2, <1>4, <1>6
<1>9. CASE state.name \in Subscribing /\ SettlePending([state EXCEPT !.pending = @ \ done])
  <2> DEFINE s == [state EXCEPT !.pending = @ \ done]
  <2>1. /\ s \in State /\ s.name = state.name /\ s.client = state.client
        /\ s.request = state.request /\ s.pending = state.pending \ done
    BY DEF State
  <2> HIDE DEF s
  <2>2. /\ state' \in State /\ state'.client = state.client /\ state'.pending = s.pending
        /\ state'.name = IF s.pending # {} THEN state.name ELSE "Connected"
        /\ state'.name \notin Queueing => state'.commands = <<>>
        /\ SentInv'
    BY <1>1, <1>9, <2>1, Settles DEF s
  <2>3. /\ state.name \in OnClient /\ state'.name \in OnClient
        /\ state.name \in Up /\ state'.name \in Up
        /\ state'.name \in Subscribing <=> s.pending # {}
    BY <1>9, <2>2 DEF Up, OnClient, Subscribing
  <2>4. TypeOK' /\ FieldsInv'
    BY <1>1, <1>6, <2>2, <2>3 DEF TypeOK, FieldsInv, SentInv, Orderly
  <2>5. LinkInv'
    BY <1>6, <1>8, <2>2, <2>3, LinkKept
  <2>6. WaitInv'
    BY <1>1, <1>8, <1>9, <2>1, <2>2, <2>3
       DEF IInv, WaitInv, SubscribingWaitsForAnswer, FiltersInUseAreAsked, InUse, Up
  <2> QED
    BY <2>2, <2>4, <2>5, <2>6 DEF IInv
<1>10. CASE /\ state.name \in Subscribing => state.pending \cap done = {}
            /\ UNCHANGED <<state, sent>>
  <2>1. TypeOK' /\ FieldsInv'
    BY <1>1, <1>6, <1>10 DEF IInv, TypeOK, FieldsInv
  <2>2. LinkInv'
    BY <1>6, <1>8, <1>10, LinkKept
  <2>3. WaitInv'
    BY <1>1, <1>8, <1>10
       DEF IInv, WaitInv, SubscribingWaitsForAnswer, FiltersInUseAreAsked, InUse, OnClient
  <2>4. SentInv'
    BY <1>1, <1>10 DEF IInv, SentInv, HasStatus
  <2> QED
    BY <2>1, <2>2, <2>3, <2>4 DEF IInv
<1> QED
  BY <1>7, <1>9, <1>10

\* subscribe
LEMMA SubscribeStep ==
  ASSUME IInv, NEW f \in Filters, Subscribe(f)
  PROVE  IInv'
<1> USE Facts
<1>1. /\ refCounts' \in [Filters -> Nat] /\ InUse' = InUse \cup {f}
      /\ f \in InUse <=> refCounts[f] # 0
      /\ UNCHANGED <<authorization, requests, sent>>
  BY DEF Subscribe, InUse
<1>2. \/ /\ UNCHANGED <<state, client>>
         /\ state.name \in Up => f \in InUse
      \/ /\ f \notin InUse /\ state.name \in Up
         /\ client' = [client EXCEPT ![state.client] = Subscribed(@, {f})]
         /\ state' = [state EXCEPT !.name = IF @ = "Connected" THEN "SubscribingAfterConnected" ELSE @,
                                   !.pending = @ \cup {f}]
  <2>1. CASE refCounts[f] # 0
    BY <1>1, <2>1 DEF Subscribe
  <2>2. CASE refCounts[f] = 0
    <3>1. StateSubscribes(f)
      BY <2>2 DEF Subscribe
    <3>2. CASE state.name \in Offlines \cup {"Connecting", "WaitingForAccessTokenToConnect"}
      BY <3>1, <3>2 DEF StateSubscribes, Up, Offlines, Subscribing
    <3>3. CASE state.name \in Subscribing /\ f \in state.pending
      BY <1>1, <2>2, <3>3 DEF IInv, WaitInv, SubscribingWaitsForAnswer
    <3>4. CASE state.name \in Subscribing /\ f \notin state.pending
      <4>1. /\ state' = [state EXCEPT !.pending = @ \cup {f}]
            /\ client' = [client EXCEPT ![state.client] = Subscribed(@, {f})]
        BY <3>1, <3>4 DEF StateSubscribes, Offlines, Subscribing
      <4>2. state.name # "Connected"
        BY <3>4 DEF Subscribing
      <4>3. state' = [state EXCEPT !.name = @, !.pending = @ \cup {f}]
        BY <4>1 DEF State
      <4> QED
        BY <1>1, <2>2, <3>4, <4>1, <4>2, <4>3 DEF Up
    <3>5. CASE state.name = "Connected"
      <4>1. /\ state' = [state EXCEPT !.name = "SubscribingAfterConnected", !.pending = {f}]
            /\ client' = [client EXCEPT ![state.client] = Subscribed(@, {f})]
        BY <3>1, <3>5 DEF StateSubscribes, Offlines, Subscribing
      <4>2. state.pending = {}
        BY <3>5 DEF IInv, FieldsInv, Subscribing
      <4> QED
        BY <1>1, <2>2, <3>5, <4>1, <4>2 DEF Up
    <3> QED
      BY <3>1, <3>2, <3>3, <3>4, <3>5 DEF StateSubscribes
  <2> QED
    BY <2>1, <2>2
<1>3. CASE UNCHANGED <<state, client>> /\ (state.name \in Up => f \in InUse)
  <2>1. TypeOK' /\ FieldsInv' /\ LinkInv'
    BY <1>1, <1>3 DEF IInv, TypeOK, FieldsInv, LinkInv, StateFollowsLink, OnlyCurrentClientIsLive, IsCurrent
  <2>2. WaitInv'
    BY <1>1, <1>3 DEF IInv, WaitInv, SubscribingWaitsForAnswer, FiltersInUseAreAsked, Up
  <2>3. SentInv'
    BY <1>1, <1>3 DEF IInv, SentInv, HasStatus
  <2> QED
    BY <2>1, <2>2, <2>3 DEF IInv
<1>4. CASE /\ f \notin InUse /\ state.name \in Up
           /\ client' = [client EXCEPT ![state.client] = Subscribed(@, {f})]
           /\ state' = [state EXCEPT !.name = IF @ = "Connected" THEN "SubscribingAfterConnected" ELSE @,
                                     !.pending = @ \cup {f}]
  <2> DEFINE n == state.client
             asking == Subscribed(client[n], {f})
  <2>1. n \in 1..Len(client) /\ client[n] \in Client /\ state.name \in OnClient
    BY <1>4 DEF Up, OnClient
  <2>2. /\ asking \in Client /\ asking.link = client[n].link
        /\ asking.asked = client[n].asked \cup {f}
        /\ \A g : Owes(client[n], g) \/ g \in {f} => Owes(asking, g)
    BY <2>1, SubscribedIsOwed
  <2>3. /\ client' \in Seq(Client) /\ Len(client') = Len(client)
        /\ \A m \in 1..Len(client) : client'[m] = IF m = n THEN asking ELSE client[m]
    BY <1>4, <2>1, <2>2, ClientChanges
  <2>4. /\ state' \in State /\ state'.client = n /\ state'.request = state.request
        /\ state'.pending = state.pending \cup {f}
        /\ state'.name = IF state.name = "Connected" THEN "SubscribingAfterConnected" ELSE state.name
    BY <1>4 DEF State, Active, Queueing, Subscribing
  <2>5. state'.name \in Subscribing /\ state'.name \in Up /\ state'.name \in OnClient
        /\ state'.name \in Queueing
    BY <1>4, <2>4 DEF Up, OnClient, Subscribing, Queueing
  <2> HIDE DEF asking
  <2>6. TypeOK' /\ FieldsInv'
    BY <1>1, <2>1, <2>3, <2>4, <2>5 DEF TypeOK, FieldsInv
  <2>7. LinkInv'
    BY <1>4, <2>1, <2>2, <2>3, <2>4, <2>5, LinkKept
  <2>8. WaitInv'
    <3>1. state.name \in Subscribing \/ state.pending = {}
      BY DEF IInv, FieldsInv
    <3>2. client'[state'.client] = asking
      BY <2>1, <2>3, <2>4
    <3> QED
      BY <1>1, <1>4, <2>2, <2>4, <2>5, <3>1, <3>2
         DEF IInv, WaitInv, SubscribingWaitsForAnswer, FiltersInUseAreAsked, Up
  <2>9. SentInv'
    BY <1>1, <1>4, <2>4 DEF IInv, SentInv, HasStatus, From, Up, Subscribing
  <2> QED
    BY <2>6, <2>7, <2>8, <2>9 DEF IInv
<1> QED
  BY <1>2, <1>3, <1>4

\* unsubscribe
LEMMA UnsubscribeStep ==
  ASSUME IInv, NEW f \in Filters, Unsubscribe(f)
  PROVE  IInv'
<1> USE Facts
<1>1. /\ refCounts' \in [Filters -> Nat] /\ f \in InUse
      /\ InUse' = IF LastReference(f) THEN InUse \ {f} ELSE InUse
      /\ UNCHANGED <<authorization, requests>>
  BY DEF Unsubscribe, InUse, LastReference
<1>2. \/ /\ UNCHANGED <<state, client, sent>>
         /\ state.name \in Up => ~LastReference(f)
      \/ /\ LastReference(f) /\ state.name \in Up /\ ClientUnsubscribes(f)
         /\ \/ state.name \in Subscribing /\ SettlePending([state EXCEPT !.pending = @ \ {f}])
            \/ state.name = "Connected" /\ UNCHANGED <<state, sent>>
  BY DEF Unsubscribe, StateUnsubscribes, Up
<1>3. CASE UNCHANGED <<state, client, sent>> /\ (state.name \in Up => ~LastReference(f))
  <2>1. TypeOK' /\ FieldsInv' /\ LinkInv'
    BY <1>1, <1>3 DEF IInv, TypeOK, FieldsInv, LinkInv, StateFollowsLink, OnlyCurrentClientIsLive, IsCurrent
  <2>2. WaitInv'
    BY <1>1, <1>3 DEF IInv, WaitInv, SubscribingWaitsForAnswer, FiltersInUseAreAsked, Up
  <2>3. SentInv'
    BY <1>1, <1>3 DEF IInv, SentInv, HasStatus
  <2> QED
    BY <2>1, <2>2, <2>3 DEF IInv
<1>4. CASE /\ LastReference(f) /\ state.name \in Up /\ ClientUnsubscribes(f)
           /\ \/ state.name \in Subscribing /\ SettlePending([state EXCEPT !.pending = @ \ {f}])
              \/ state.name = "Connected" /\ UNCHANGED <<state, sent>>
  <2> DEFINE n == state.client
             without == [client[n] EXCEPT !.asked = @ \ {f}]
             s == [state EXCEPT !.pending = @ \ {f}]
  <2>1. n \in 1..Len(client) /\ client[n] \in Client /\ state.name \in OnClient
    BY <1>4 DEF Up, OnClient
  <2>2. /\ without \in Client /\ without.link = client[n].link
        /\ without.asked = client[n].asked \ {f} /\ without.outstanding = client[n].outstanding
    BY <2>1 DEF Client
  <2>3. \A g : Owes(client[n], g) => Owes(without, g)
    BY <2>2 DEF Owes
  <2>4. /\ client' \in Seq(Client) /\ Len(client') = Len(client)
        /\ \A m \in 1..Len(client) : client'[m] = IF m = n THEN without ELSE client[m]
    BY <1>4, <2>1, <2>2, ClientChanges DEF ClientUnsubscribes
  <2> HIDE DEF without
  <2>5. /\ s \in State /\ s.name = state.name /\ s.client = state.client
        /\ s.request = state.request /\ s.pending = state.pending \ {f}
    BY DEF State
  <2>6. /\ state' \in State /\ state'.client = n /\ state'.pending = state.pending \ {f}
        /\ state'.name \in Up /\ state'.name \in OnClient
        /\ state'.name \in Subscribing <=> state'.pending # {}
        /\ state'.name \notin Queueing => state'.commands = <<>>
        /\ SentInv'
    <3>1. CASE state.name \in Subscribing /\ SettlePending(s)
      <4> HIDE DEF s
      <4>1. /\ state' \in State /\ state'.client = state.client /\ state'.pending = s.pending
            /\ state'.name = IF s.pending # {} THEN state.name ELSE "Connected"
            /\ state'.name \notin Queueing => state'.commands = <<>>
            /\ SentInv'
        BY <1>1, <2>5, <3>1, Settles
      <4> QED
        BY <2>5, <3>1, <4>1 DEF Up, OnClient, Subscribing
    <3>2. CASE state.name = "Connected" /\ UNCHANGED <<state, sent>>
      <4>1. state.pending = {} /\ state.commands = <<>>
        BY <3>2 DEF IInv, FieldsInv, Subscribing, Queueing, Offlines
      <4>2. SentInv'
        BY <1>1, <3>2 DEF IInv, SentInv, HasStatus
      <4> QED
        BY <3>2, <4>1, <4>2 DEF Up, OnClient, Subscribing
    <3> QED
      BY <1>4, <3>1, <3>2
  <2> HIDE DEF s
  <2>7. TypeOK' /\ FieldsInv'
    BY <1>1, <2>1, <2>4, <2>6 DEF TypeOK, FieldsInv, SentInv, Orderly
  <2>8. LinkInv'
    BY <1>4, <2>1, <2>2, <2>4, <2>6, LinkKept
  <2>9. WaitInv'
    <3>1. state.name \in Subscribing \/ state.pending = {}
      BY DEF IInv, FieldsInv
    <3>2. client'[state'.client] = without
      BY <2>1, <2>4, <2>6
    <3> QED
      BY <1>1, <1>4, <2>2, <2>3, <2>6, <3>1, <3>2
         DEF IInv, WaitInv, SubscribingWaitsForAnswer, FiltersInUseAreAsked, Up
  <2> QED
    BY <2>6, <2>7, <2>8, <2>9 DEF IInv
<1> QED
  BY <1>2, <1>3, <1>4

-----------------------------------------------------------------------------
(* The invariant, and the properties that follow from it.                  *)

\* The service starts with the invariant.
LEMMA InitEstablishes == Init => IInv
<1> SUFFICES ASSUME Init PROVE IInv
  OBVIOUS
<1>1. /\ state = Idle(StateFor(authorization)) /\ StateFor(authorization) \in Waiting
      /\ authorization \in Tokens
  BY DEF Init, StateFor, Tokens, Waiting
<1>2. /\ state \in State /\ state.name \in Waiting /\ state.request = 0
      /\ state.commands = <<>> /\ state.pending = {}
  BY <1>1 DEF Idle, State
<1>3. state.name \notin OnClient /\ state.name \notin Subscribing \cup {"Connected"}
  BY <1>2 DEF Waiting, OnClient, Offlines, Subscribing
<1>4. client = <<>> /\ sent = <<>> /\ requests = 0 /\ refCounts \in [Filters -> Nat]
  BY DEF Init
<1>5. TypeOK
  BY <1>1, <1>2, <1>4 DEF TypeOK
<1>6. FieldsInv /\ LinkInv /\ WaitInv
  BY <1>2, <1>3, <1>4 DEF FieldsInv, LinkInv, StateFollowsLink, OnlyCurrentClientIsLive, WaitInv,
        SubscribingWaitsForAnswer, FiltersInUseAreAsked
<1>7. SentInv
  BY <1>2, <1>4 DEF SentInv, Orderly, ComesFirst, IsNew, Waiting
<1> QED
  BY <1>5, <1>6, <1>7 DEF IInv

\* Every call, event and callback preserves it.
LEMMA NextPreserves == IInv /\ [Next]_vars => IInv'
<1> SUFFICES ASSUME IInv, [Next]_vars PROVE IInv'
  OBVIOUS
<1>1. CASE Call
  BY <1>1, ConnectStep, DisconnectStep, PublishStep, SubscribeStep, UnsubscribeStep DEF Call
<1>2. CASE \E a \in Tokens : AuthorizationChanges(a)
  BY <1>2, AuthorizationStep
<1>3. CASE ClientEvent
  BY <1>3, HandleConnectStep, HandleCloseStep, HandleReconnectStep, CallbackStep DEF ClientEvent
<1>4. CASE UNCHANGED vars
  BY <1>4 DEF vars, IInv, TypeOK, FieldsInv, LinkInv, StateFollowsLink, OnlyCurrentClientIsLive,
        IsCurrent, WaitInv, SubscribingWaitsForAnswer, FiltersInUseAreAsked, InUse, SentInv, HasStatus
<1> QED
  BY <1>1, <1>2, <1>3, <1>4 DEF Next

\* The conjunction of the parts is inductive under every handler and callback.
THEOREM Invariance == Spec => []IInv
BY InitEstablishes, NextPreserves, PTL DEF Spec

\* Every variable keeps its type: no handler mixes up the fields of two states.
THEOREM TypeCorrect == Spec => []TypeOK
<1>1. IInv => TypeOK
  BY DEF IInv
<1> QED
  BY <1>1, Invariance, PTL

\* A late event of an ended client never moves the state away from the link of
\* the client it is for.
THEOREM LinkFollowed == Spec => []StateFollowsLink
<1>1. IInv => StateFollowsLink
  BY DEF IInv, LinkInv
<1> QED
  BY <1>1, Invariance, PTL

\* No client is left running but the one the state is for.
THEOREM OneClientLive == Spec => []OnlyCurrentClientIsLive
<1>1. IInv => OnlyCurrentClientIsLive
  BY DEF IInv, LinkInv
<1> QED
  BY <1>1, Invariance, PTL

\* However subscriptions open and close while the link comes and goes, each one
\* in use is asked for on the link.
THEOREM FiltersAsked == Spec => []FiltersInUseAreAsked
<1>1. IInv => FiltersInUseAreAsked
  BY DEF IInv, WaitInv
<1> QED
  BY <1>1, Invariance, PTL

\* A subscribing state waits for a callback that its client still owes.
THEOREM WaitsAreAnswered == Spec => []SubscribingWaitsForAnswer
<1>1. IInv => SubscribingWaitsForAnswer
  BY DEF IInv, WaitInv
<1> QED
  BY <1>1, Invariance, PTL

\* The connected status precedes, once, all that is published on a link.
THEOREM StatusLeads == Spec => []StatusComesFirst
<1>1. IInv => StatusComesFirst
  BY DEF IInv, SentInv, Orderly, ComesFirst, FirstAt, StatusComesFirst
<1> QED
  BY <1>1, Invariance, PTL

-----------------------------------------------------------------------------
(* The service is an outbox.                                               *)

\* A history without the ids.
Whats(q) == [i \in 1..Len(q) |-> q[i].what]

\* What was published, one by one.
LEMMA WhatsTyped ==
  ASSUME NEW q \in Seq(Published)
  PROVE  /\ Whats(q) \in Seq(Messages \cup {"connected", "clean"}) /\ Len(Whats(q)) = Len(q)
         /\ \A i \in 1..Len(q) : Whats(q)[i] = q[i].what
<1> DEFINE All == Messages \cup {"connected", "clean"}
<1>1. \A i \in 1..Len(q) : q[i] \in Published
  OBVIOUS
<1>2. \A i \in 1..Len(q) : q[i].what \in All
  BY <1>1 DEF Published
<1> HIDE DEF All
<1>3. Whats(q) \in Seq(All) /\ Len(Whats(q)) = Len(q) /\ \A i \in 1..Len(q) : Whats(q)[i] = q[i].what
  BY <1>2 DEF Whats
<1> QED
  BY <1>3 DEF All

\* Publishing several whats appends them.
LEMMA WhatsOfMore ==
  ASSUME NEW q \in Seq(Published), NEW s \in State,
         NEW whats \in Seq(Messages \cup {"connected", "clean"})
  PROVE  Whats(q \o AllFrom(s, whats)) = Whats(q) \o whats
<1> DEFINE more == AllFrom(s, whats)
           t == q \o more
<1>1. /\ more \in Seq(Published) /\ Len(more) = Len(whats)
      /\ \A i \in 1..Len(whats) : more[i] = From(s, whats[i])
  BY AllFromTyped
<1> HIDE DEF more
<1>2. /\ t \in Seq(Published) /\ Len(t) = Len(q) + Len(whats)
      /\ \A i \in 1..(Len(q) + Len(whats)) : t[i] = IF i <= Len(q) THEN q[i] ELSE more[i - Len(q)]
  <2>1. /\ t \in Seq(Published) /\ Len(t) = Len(q) + Len(more)
        /\ \A i \in 1..(Len(q) + Len(more)) : t[i] = IF i <= Len(q) THEN q[i] ELSE more[i - Len(q)]
    BY <1>1, ConcatProperties
  <2> QED
    BY <1>1, <2>1
<1> HIDE DEF t
<1> DEFINE All == Messages \cup {"connected", "clean"}
           x == Whats(q)
           u == x \o whats
<1>3. x \in Seq(All) /\ Len(x) = Len(q) /\ \A i \in 1..Len(q) : x[i] = q[i].what
  BY WhatsTyped
<1>4. /\ u \in Seq(All) /\ Len(u) = Len(q) + Len(whats)
      /\ \A i \in 1..(Len(q) + Len(whats)) : u[i] = IF i <= Len(q) THEN x[i] ELSE whats[i - Len(q)]
  <2>1. whats \in Seq(All)
    OBVIOUS
  <2> HIDE DEF All, x
  <2>2. /\ u \in Seq(All) /\ Len(u) = Len(x) + Len(whats)
        /\ \A i \in 1..(Len(x) + Len(whats)) : u[i] = IF i <= Len(x) THEN x[i] ELSE whats[i - Len(x)]
    BY <1>3, <2>1, ConcatProperties
  <2> QED
    BY <1>3, <2>2
<1> HIDE DEF u, x
<1>5. \A i \in 1..(Len(q) + Len(whats)) : t[i].what = u[i]
  <2> SUFFICES ASSUME NEW i \in 1..(Len(q) + Len(whats)) PROVE t[i].what = u[i]
    OBVIOUS
  <2>1. CASE i <= Len(q)
    <3>1. i \in 1..Len(q) /\ t[i] = q[i] /\ u[i] = x[i]
      BY <1>2, <1>4, <2>1
    <3> QED
      BY <1>3, <3>1
  <2>2. CASE i > Len(q)
    <3>1. i - Len(q) \in 1..Len(whats) /\ t[i] = more[i - Len(q)] /\ u[i] = whats[i - Len(q)]
      BY <1>2, <1>4, <2>2
    <3>2. t[i] = From(s, whats[i - Len(q)])
      BY <1>1, <3>1
    <3> QED
      BY <3>1, <3>2 DEF From
  <2> QED
    BY <2>1, <2>2
<1>6. Whats(t) = u
  BY <1>2, <1>4, <1>5 DEF Whats
<1> QED
  BY <1>6 DEF t, u, x, more

\* The two kinds of publishing, as the outbox sees them.
LEMMA WhatsOfOne ==
  ASSUME NEW q \in Seq(Published), NEW s \in State, NEW what \in Messages \cup {"clean"}
  PROVE  Whats(Append(q, From(s, what))) = Append(Whats(q), what)
<1>1. From(s, what) \in Published /\ From(s, what).what = what
  BY DEF From, Published, State
<1>2. /\ Append(q, From(s, what)) \in Seq(Published)
      /\ Len(Append(q, From(s, what))) = Len(q) + 1
      /\ \A i \in 1..Len(q) : Append(q, From(s, what))[i] = q[i]
      /\ Append(q, From(s, what))[Len(q) + 1] = From(s, what)
  BY <1>1, AppendProperties
<1>3. Append(Whats(q), what) = [i \in 1..(Len(q) + 1) |-> IF i = Len(q) + 1 THEN what ELSE q[i].what]
  BY DEF Whats
<1> QED
  BY <1>1, <1>2, <1>3 DEF Whats

\* transition_to_connected appends the notices and then the queue.
LEMMA WhatsOfQueue ==
  ASSUME NEW s \in State, NEW notices \in {<<>>, <<"connected">>},
         sent \in Seq(Published), BecomeConnected(s, notices)
  PROVE  Whats(sent') = (Whats(sent) \o notices) \o s.commands
<1> DEFINE mid == sent \o AllFrom(s, notices)
<1>1. notices \in Seq(Messages \cup {"connected", "clean"})
  <2>1. <<>> \in Seq(Messages \cup {"connected", "clean"})
    OBVIOUS
  <2>2. <<"connected">> \in Seq(Messages \cup {"connected", "clean"})
    OBVIOUS
  <2> QED
    BY <2>1, <2>2
<1>2. s.commands \in Seq(Messages \cup {"connected", "clean"})
  BY DEF State
<1>3. sent' = mid \o AllFrom(s, s.commands)
  BY DEF BecomeConnected
<1>4. mid \in Seq(Published) /\ Whats(mid) = Whats(sent) \o notices
  <2>1. AllFrom(s, notices) \in Seq(Published)
    BY <1>1, AllFromTyped
  <2> QED
    BY <1>1, <2>1, WhatsOfMore
<1> HIDE DEF mid
<1> QED
  BY <1>2, <1>3, <1>4, WhatsOfMore

\* The service starts as an empty, closed outbox.
LEMMA BoxInit == Init => Box!Init
<1> SUFFICES ASSUME Init PROVE Box!Init
  OBVIOUS
<1>1. state = Idle(StateFor(authorization)) /\ StateFor(authorization) \in Waiting /\ sent = <<>>
  BY DEF Init, StateFor, Tokens, Waiting
<1>2. state.name \notin Active /\ state.commands = <<>>
  BY <1>1 DEF Idle, Waiting, Active, Queueing, Offlines, Subscribing
<1>3. [i \in 1..Len(sent) |-> sent[i].what] = <<>>
  BY <1>1
<1> QED
  BY <1>2, <1>3 DEF Box!Init

\* Whoever is published for sees nothing of most steps.
LEMMA BoxStutters ==
  ASSUME state'.name \in Active <=> state.name \in Active,
         state'.commands = state.commands, sent' = sent
  PROVE  UNCHANGED Box!vars
BY DEF Box!vars

\* connect opens the outbox.
LEMMA BoxOpens ==
  ASSUME state.name \notin Active, state'.name \in Active,
         state'.commands = state.commands, sent' = sent
  PROVE  Box!Next
BY DEF Box!Next, Box!Open

\* transition_to_connected flushes it.
LEMMA BoxFlushes ==
  ASSUME NEW s \in State, s.commands = state.commands, state.name \in Active,
         NEW notices \in {<<>>, <<"connected">>}, sent \in Seq(Published),
         BecomeConnected(s, notices)
  PROVE  Box!Next
<1>1. Whats(sent') = (Whats(sent) \o notices) \o s.commands
  BY WhatsOfQueue
<1>2. state'.name \in Active /\ state'.commands = <<>>
  BY DEF BecomeConnected, State, Active
<1>3. notices \in Box!OptionalNotice
  BY DEF Box!OptionalNotice
<1>4. Box!Flush(notices)
  BY <1>1, <1>2 DEF Box!Flush, Whats
<1> QED
  BY <1>3, <1>4 DEF Box!Next

\* disconnect closes it.
LEMMA BoxCloses ==
  ASSUME IInv, Disconnect
  PROVE  Box!Next
<1> USE Facts
<1>1. state.name \in Active /\ state'.name \notin Active /\ state'.commands = <<>>
  BY DEF Disconnect, Idle, OnClient, Active, Queueing, Offlines, Subscribing
<1>2. PICK notice \in Box!OptionalNotice : Whats(sent') = Whats(sent) \o notice
  <2>1. Whats(sent) \in Seq(Messages \cup {"connected", "clean"})
    BY WhatsTyped
  <2>2. CASE state.name = "Connected"
    <3>1. Whats(sent') = Append(Whats(sent), "clean")
      BY <2>2, WhatsOfOne DEF Disconnect
    <3>2. Append(Whats(sent), "clean") = Whats(sent) \o <<"clean">>
      BY <2>1, AppendIsConcat
    <3>3. <<"clean">> \in Box!OptionalNotice
      BY DEF Box!OptionalNotice
    <3> QED
      BY <3>1, <3>2, <3>3
  <2>3. CASE state.name # "Connected"
    <3>1. Whats(sent') = Whats(sent) \o <<>>
      BY <2>1, <2>3, ConcatEmptySeq DEF Disconnect, Whats
    <3>2. <<>> \in Box!OptionalNotice
      BY DEF Box!OptionalNotice
    <3> QED
      BY <3>1, <3>2
  <2> QED
    BY <2>2, <2>3
<1>3. Box!Close(notice)
  <2>1. [i \in 1..Len(sent') |-> sent'[i].what] = [i \in 1..Len(sent) |-> sent[i].what] \o notice
    BY <1>2 DEF Whats
  <2>2. (state'.name \in Active) = FALSE
    BY <1>1
  <2> QED
    BY <1>1, <2>1, <2>2 DEF Box!Close
<1> QED
  BY <1>2, <1>3 DEF Box!Next

\* publish is accepted, or sent at once.
LEMMA BoxPublishes ==
  ASSUME IInv, NEW m \in Messages, Publish(m)
  PROVE  Box!Next
<1> USE Facts
<1>1. CASE state.name \in Queueing /\ state' = [state EXCEPT !.commands = Append(@, m)]
           /\ UNCHANGED sent
  <2>1. state'.name = state.name /\ state'.commands = Append(state.commands, m)
    BY <1>1 DEF State
  <2>2. Box!Accept(m)
    BY <1>1, <2>1 DEF Box!Accept, Active
  <2> QED
    BY <2>2 DEF Box!Next
<1>2. CASE state.name = "Connected" /\ sent' = Append(sent, From(state, m)) /\ UNCHANGED state
  <2>1. Whats(sent') = Append(Whats(sent), m)
    BY <1>2, WhatsOfOne
  <2>2. state.commands = <<>>
    BY <1>2 DEF IInv, FieldsInv, Queueing, Offlines, Subscribing
  <2>3. Box!SendAtOnce(m)
    BY <1>2, <2>1, <2>2 DEF Box!SendAtOnce, Whats, Active
  <2> QED
    BY <2>3 DEF Box!Next
<1> QED
  BY <1>1, <1>2 DEF Publish

\* Settling filters flushes the queue when the last one is settled.
LEMMA BoxSettles ==
  ASSUME IInv, state.name \in Subscribing, NEW done \in SUBSET Filters,
         SettlePending([state EXCEPT !.pending = @ \ done])
  PROVE  Box!Next \/ UNCHANGED Box!vars
<1> USE Facts
<1> DEFINE s == [state EXCEPT !.pending = @ \ done]
<1>1. s \in State /\ s.name = state.name /\ s.commands = state.commands
  BY DEF State
<1> HIDE DEF s
<1>2. SettlePending(s)
  BY DEF s
<1>3. CASE s.pending # {}
  BY <1>1, <1>2, <1>3, BoxStutters DEF SettlePending
<1>4. CASE s.pending = {}
  <2>1. NoticesOf(s) \in {<<>>, <<"connected">>}
    BY DEF NoticesOf
  <2>2. BecomeConnected(s, NoticesOf(s))
    BY <1>2, <1>4 DEF SettlePending
  <2>3. state.name \in Active
    BY DEF Active, Queueing
  <2> QED
    BY <1>1, <2>1, <2>2, <2>3, BoxFlushes
<1> QED
  BY <1>3, <1>4

\* Losing the login closes the outbox; a token does not show in it.
LEMMA BoxFollowsAuthorization ==
  ASSUME IInv, NEW a \in Tokens, AuthorizationChanges(a)
  PROVE  Box!Next \/ UNCHANGED Box!vars
<1> USE DEF Active, Queueing, Offlines, Subscribing
<1>1. CASE state.name \in {"AwaitingLogin", "WaitingForAccessTokenToBeReady"}
  <2>1. state' = Idle(StateFor(a)) /\ sent' = sent
    BY <1>1 DEF AuthorizationChanges
  <2>2. state'.name \notin Active /\ state'.commands = <<>>
    BY <2>1 DEF StateFor, Idle, Tokens
  <2>3. state.commands = <<>>
    BY <1>1 DEF IInv, FieldsInv
  <2> QED
    BY <1>1, <2>1, <2>2, <2>3, BoxStutters
<1>2. CASE state.name = "WaitingForAccessTokenToConnect" /\ a = "login_required"
  <2>1. state' = Idle("AwaitingLogin") /\ sent' = sent
    BY <1>2 DEF AuthorizationChanges
  <2>2. state'.name \notin Active /\ state'.commands = <<>> /\ state.name \in Active
    BY <1>2, <2>1 DEF Idle
  <2>3. Whats(sent) \o <<>> = Whats(sent)
    BY Facts, WhatsTyped, ConcatEmptySeq
  <2>4. Box!Close(<<>>)
    BY <2>1, <2>2, <2>3 DEF Box!Close, Whats
  <2>5. <<>> \in Box!OptionalNotice
    BY DEF Box!OptionalNotice
  <2> QED
    BY <2>4, <2>5 DEF Box!Next
<1>3. CASE state.name = "WaitingForAccessTokenToConnect" /\ a = "available"
  <2>1. /\ state'.name = "Connecting" /\ state'.commands = state.commands /\ sent' = sent
    BY <1>3 DEF AuthorizationChanges, MakeClient
  <2> QED
    BY <1>3, <2>1, BoxStutters
<1>4. CASE /\ state.name \notin {"AwaitingLogin", "WaitingForAccessTokenToBeReady"}
           /\ ~(state.name = "WaitingForAccessTokenToConnect" /\ a \in {"login_required", "available"})
  <2>1. state' = state /\ sent' = sent
    BY <1>4 DEF AuthorizationChanges
  <2> QED
    BY <2>1, BoxStutters
<1> QED
  BY <1>1, <1>2, <1>3, <1>4

\* Every step of the service is a step of the outbox, or none.
LEMMA BoxStep == IInv /\ [Next]_vars => [Box!Next]_(Box!vars)
<1> SUFFICES ASSUME IInv, [Next]_vars PROVE Box!Next \/ UNCHANGED Box!vars
  OBVIOUS
<1> USE DEF Active, Queueing, Offlines, Subscribing
<1>1. CASE Connect
  <2>1. state.name \in Waiting /\ state.name \notin Active /\ state.commands = <<>>
    BY <1>1 DEF Connect, Waiting, IInv, FieldsInv
  <2>2. state'.name \in Active /\ state'.commands = <<>> /\ sent' = sent
    BY <1>1 DEF Connect, Idle, MakeClient
  <2> QED
    BY <2>1, <2>2, BoxOpens
<1>2. CASE Disconnect
  BY <1>2, BoxCloses
<1>3. ASSUME NEW m \in Messages, Publish(m) PROVE Box!Next
  BY <1>3, BoxPublishes
<1>4. ASSUME NEW f \in Filters, Subscribe(f) PROVE UNCHANGED Box!vars
  <2>1. /\ state'.name \in Active <=> state.name \in Active
        /\ state'.commands = state.commands /\ sent' = sent
    BY <1>4, Facts DEF Subscribe, StateSubscribes, State
  <2> QED
    BY <2>1, BoxStutters
<1>5. ASSUME NEW f \in Filters, Unsubscribe(f) PROVE Box!Next \/ UNCHANGED Box!vars
  <2>1. \/ UNCHANGED <<state, sent>>
        \/ state.name \in Subscribing /\ SettlePending([state EXCEPT !.pending = @ \ {f}])
    BY <1>5 DEF Unsubscribe, StateUnsubscribes
  <2> QED
    BY <2>1, BoxStutters, BoxSettles
<1>6. ASSUME NEW a \in Tokens, AuthorizationChanges(a) PROVE Box!Next \/ UNCHANGED Box!vars
  BY <1>6, BoxFollowsAuthorization
<1>7. ASSUME NEW n \in 1..Len(client), HandleConnect(n) PROVE Box!Next \/ UNCHANGED Box!vars
  <2>1. CASE InUse = {}
    <3>1. BecomeConnected(state, <<"connected">>) /\ state.name \in Active
      BY <1>7, <2>1 DEF HandleConnect
    <3> QED
      BY <3>1, Facts, BoxFlushes
  <2>2. CASE InUse # {}
    <3>1. /\ state' = [state EXCEPT !.name = "SubscribingOnConnect", !.pending = InUse]
          /\ state.name \in Active /\ sent' = sent
      BY <1>7, <2>2 DEF HandleConnect
    <3>2. state'.name \in Active /\ state'.commands = state.commands
      BY <3>1, Facts DEF State
    <3> QED
      BY <3>1, <3>2, BoxStutters
  <2> QED
    BY <2>1, <2>2
<1>8. ASSUME NEW n \in 1..Len(client), HandleClose(n) PROVE UNCHANGED Box!vars
  <2>1. /\ state'.name \in Active <=> state.name \in Active
        /\ state'.commands = state.commands /\ sent' = sent
    BY <1>8, Facts DEF HandleClose, IsCurrent, OnClient, State
  <2> QED
    BY <2>1, BoxStutters
<1>9. ASSUME NEW n \in 1..Len(client), HandleReconnect(n) PROVE UNCHANGED Box!vars
  <2>1. /\ state'.name \in Active <=> state.name \in Active
        /\ state'.commands = state.commands /\ sent' = sent
    BY <1>9, Facts DEF HandleReconnect, IsCurrent, OnClient, State
  <2> QED
    BY <2>1, BoxStutters
<1>10. ASSUME NEW n \in 1..Len(client), HandleSubscribeCallback(n)
       PROVE  Box!Next \/ UNCHANGED Box!vars
  <2> DEFINE done == Head(client[n].outstanding)
  <2>1. \/ UNCHANGED <<state, sent>>
        \/ state.name \in Subscribing /\ SettlePending([state EXCEPT !.pending = @ \ done])
    BY <1>10 DEF HandleSubscribeCallback
  <2>2. done \in SUBSET Filters
    <3>1. client[n] \in Client /\ client[n].outstanding # <<>>
      BY <1>10, Facts DEF HandleSubscribeCallback
    <3>2. client[n].outstanding \in Seq(SUBSET Filters)
      BY <3>1 DEF Client
    <3> QED
      BY <3>1, <3>2
  <2> HIDE DEF done
  <2> QED
    BY <2>1, <2>2, BoxStutters, BoxSettles
<1>11. CASE UNCHANGED vars
  BY <1>11, BoxStutters DEF vars
<1> QED
  BY <1>1, <1>2, <1>3, <1>4, <1>5, <1>6, <1>7, <1>8, <1>9, <1>10, <1>11
     DEF Next, Call, ClientEvent

\* What is accepted while the service connects, is offline or subscribes is
\* sent once and in order, through any reconnects, unless the service is closed.
THEOREM ImplementsOutbox == Spec => IsOutbox
<1>1. Spec => []IInv
  BY Invariance
<1> QED
  BY <1>1, BoxInit, BoxStep, PTL DEF Spec, IsOutbox, Box!Spec
=============================================================================
