---------------------------- MODULE MQTTService ----------------------------
(***************************************************************************)
(* The frontend's MQTTService: the state machine that every other service  *)
(* publishes and subscribes through.  A state of the machine is a record;  *)
(* a method of the service is an action, with one disjunct per state that  *)
(* answers it.  Calls that a state ignores, or that throw, change nothing  *)
(* and are left out.                                                       *)
(*                                                                         *)
(* The n-th MQTT.js client that connect_mqtt makes is client n; a client   *)
(* is known here by its events and by the callbacks it still owes.  Its    *)
(* own resubscription after a reconnect is left out: it may ask again for  *)
(* a filter that was closed while offline, and nothing here waits for its  *)
(* answer.  A uuid is a number.                                            *)
(***************************************************************************)
EXTENDS Naturals, Sequences

CONSTANTS
  Filters,         \* topic filters
  Messages,        \* what is published: payloads, the parent station announcement
  MaxRefs,         \* bound: open subscriptions of one filter
  MaxClients,      \* bound: connect_mqtt calls
  MaxRequests,     \* bound: request ids drawn
  MaxOutstanding,  \* bound: subscribe calls a client has not yet called back
  MaxMessages      \* bound: messages published

ASSUME ServiceAssumption ==
  /\ {MaxRefs, MaxClients, MaxRequests, MaxOutstanding, MaxMessages} \subseteq Nat
  /\ Messages \cap {"connected", "clean"} = {}

VARIABLES
  authorization,   \* what AuthorizationService tells
  state,           \* the current MQTTServiceState and its fields
  refCounts,       \* topic_filter_ref_counts
  client,          \* each MQTT.js client
  requests,        \* how many request ids were drawn
  sent             \* history: what was handed to client.publish, in order

vars == <<authorization, state, refCounts, client, requests, sent>>

-----------------------------------------------------------------------------

Tokens == {"login_required", "none", "available"}

Waiting     == {"AwaitingLogin", "WaitingForAccessTokenToBeReady", "Ready"}
Offlines    == {"Offline", "OfflineAndReconnecting"}
Subscribing == {"SubscribingOnConnect", "SubscribingAfterConnected"}
OnClient    == {"Connecting", "Connected"} \cup Offlines \cup Subscribing
Queueing    == {"WaitingForAccessTokenToConnect", "Connecting"} \cup Offlines \cup Subscribing
Active      == Queueing \cup {"Connected"}

\* The fields a state does not have are 0 or empty.  A command is the message
\* it publishes: replay_publish_commands skips the subscribe commands.
State == [
  name     : Waiting \cup Active,
  client   : Nat,              \* client and connectionID
  request  : Nat,              \* requestID
  commands : Seq(Messages),
  pending  : SUBSET Filters]   \* pending_topic_filters

Idle(name) == [name |-> name, client |-> 0, request |-> 0, commands |-> <<>>,
               pending |-> {}]

Client == [
  link        : {"connecting", "up", "down", "ended", "closed"},
  outstanding : Seq(SUBSET Filters),  \* subscribe calls not called back, in order
  asked       : SUBSET Filters]       \* filters subscribed on this link, less
                                      \* those unsubscribed

Published == [client : Nat, request : Nat, what : Messages \cup {"connected", "clean"}]

From(s, what) == [client |-> s.client, request |-> s.request, what |-> what]
AllFrom(s, whats) == [n \in 1..Len(whats) |-> From(s, whats[n])]

InUse == {f \in Filters : refCounts[f] > 0}

\* The access token decides which of the first three states it starts in.
StateFor(a) ==
  CASE a = "login_required" -> "AwaitingLogin"
    [] a = "none"           -> "WaitingForAccessTokenToBeReady"
    [] a = "available"      -> "Ready"

Init ==
  /\ authorization \in Tokens
  /\ state = Idle(StateFor(authorization))
  /\ refCounts = [f \in Filters |-> 0]
  /\ client = <<>>
  /\ requests = 0
  /\ sent = <<>>

-----------------------------------------------------------------------------
(* Steps that several states share.                                        *)

MakeClient(commands) ==
  /\ Len(client) < MaxClients
  /\ requests < MaxRequests
  /\ requests' = requests + 1
  /\ client' = Append(client, [link |-> "connecting", outstanding |-> <<>>, asked |-> {}])
  /\ state' = [name |-> "Connecting", client |-> Len(client) + 1, request |-> requests + 1,
               commands |-> commands, pending |-> {}]
  /\ UNCHANGED sent

\* Mutant of Subscribed: the subscribe call has no callback.
SubscribedSilently(cl, filters) == [cl EXCEPT !.asked = @ \cup filters]

\* client.subscribe(filters), with a callback for the filters
Subscribed(cl, filters) ==
  [cl EXCEPT !.outstanding = Append(@, filters), !.asked = @ \cup filters]

\* Mutant of BecomeConnected: the queue is kept after it was replayed.
BecomeConnectedWithQueue(s, notices) ==
  /\ sent' = (sent \o AllFrom(s, notices)) \o AllFrom(s, s.commands)
  /\ state' = [s EXCEPT !.name = "Connected", !.pending = {}]

\* transition_to_connected: the notices, the queue, then the state.
BecomeConnected(s, notices) ==
  /\ sent' = (sent \o AllFrom(s, notices)) \o AllFrom(s, s.commands)
  /\ state' = [s EXCEPT !.name = "Connected", !.pending = {}, !.commands = <<>>]

\* Mutant of NoticesOf: only a connection without filters is announced.
NoNoticesOf(s) == <<>>

\* Only SubscribingOnConnect publishes the connected status.
NoticesOf(s) == IF s.name = "SubscribingOnConnect" THEN <<"connected">> ELSE <<>>

\* The rest of handle_subscribe_callback and of unsubscribe.
SettlePending(s) ==
  IF s.pending # {}
  THEN state' = s /\ UNCHANGED sent
  ELSE BecomeConnected(s, NoticesOf(s))

-----------------------------------------------------------------------------
(* Calls on the service.                                                   *)

Connect ==
  /\ \/ /\ state.name = "WaitingForAccessTokenToBeReady"
        /\ state' = Idle("WaitingForAccessTokenToConnect")
        /\ UNCHANGED <<client, requests, sent>>
     \/ /\ state.name = "Ready"
        /\ MakeClient(<<>>)
  /\ UNCHANGED <<authorization, refCounts>>

Publish(m) ==
  /\ Len(sent) + Len(state.commands) < MaxMessages
  /\ \/ /\ state.name \in Queueing
        /\ state' = [state EXCEPT !.commands = Append(@, m)]
        /\ UNCHANGED sent
     \/ /\ state.name = "Connected"
        /\ sent' = Append(sent, From(state, m))
        /\ UNCHANGED state
  /\ UNCHANGED <<authorization, refCounts, client, requests>>

\* The state's subscribe, for the first subscription of a filter.
StateSubscribes(f) ==
  LET n == state.client
  IN  \/ /\ state.name \in Offlines \cup {"Connecting", "WaitingForAccessTokenToConnect"}
         /\ UNCHANGED <<state, client>>
      \/ /\ state.name \in Subscribing
         /\ f \in state.pending
         /\ UNCHANGED <<state, client>>
      \/ /\ state.name \in Subscribing
         /\ f \notin state.pending
         /\ Len(client[n].outstanding) < MaxOutstanding
         /\ state' = [state EXCEPT !.pending = @ \cup {f}]
         /\ client' = [client EXCEPT ![n] = Subscribed(@, {f})]
      \/ /\ state.name = "Connected"
         /\ Len(client[n].outstanding) < MaxOutstanding
         /\ state' = [state EXCEPT !.name = "SubscribingAfterConnected", !.pending = {f}]
         /\ client' = [client EXCEPT ![n] = Subscribed(@, {f})]

\* A state that throws leaves the count as it was.
Subscribe(f) ==
  /\ refCounts[f] < MaxRefs
  /\ refCounts' = [refCounts EXCEPT ![f] = @ + 1]
  /\ IF refCounts[f] = 0 THEN StateSubscribes(f) ELSE UNCHANGED <<state, client>>
  /\ UNCHANGED <<authorization, requests, sent>>

ClientUnsubscribes(f) ==
  client' = [client EXCEPT ![state.client].asked = @ \ {f}]

\* Mutant of StateUnsubscribes: a filter that is still pending stays so.
StateUnsubscribesLater(f) ==
  IF state.name \in Subscribing \cup {"Connected"}
  THEN ClientUnsubscribes(f) /\ UNCHANGED <<state, sent>>
  ELSE UNCHANGED <<state, client, sent>>

\* The state's unsubscribe, for the last subscription of a filter.
StateUnsubscribes(f) ==
  \/ /\ state.name \in Subscribing
     /\ ClientUnsubscribes(f)
     /\ SettlePending([state EXCEPT !.pending = @ \ {f}])
  \/ /\ state.name = "Connected"
     /\ ClientUnsubscribes(f)
     /\ UNCHANGED <<state, sent>>
  \/ /\ state.name \notin Subscribing \cup {"Connected"}
     /\ UNCHANGED <<state, client, sent>>

\* Mutant of LastReference: the count is not looked at.
AnyReference(f) == TRUE

LastReference(f) == refCounts[f] = 1

\* Mutant of Unsubscribe: a subscription may be closed again.
UnsubscribeAgain(f) ==
  /\ refCounts' = [refCounts EXCEPT ![f] = @ - 1]
  /\ IF LastReference(f) THEN StateUnsubscribes(f) ELSE UNCHANGED <<state, client, sent>>
  /\ UNCHANGED <<authorization, requests>>

\* Subscription.close, for one of the filter's open subscriptions.
Unsubscribe(f) ==
  /\ refCounts[f] > 0
  /\ refCounts' = [refCounts EXCEPT ![f] = @ - 1]
  /\ IF LastReference(f) THEN StateUnsubscribes(f) ELSE UNCHANGED <<state, client, sent>>
  /\ UNCHANGED <<authorization, requests>>

\* Mutant of EndClient: the client is forgotten, not ended.
ForgetClient == UNCHANGED client

EndClient == client' = [client EXCEPT ![state.client].link = "ended"]

\* Only Connected says goodbye; WaitingForAccessTokenToConnect ignores it.
Disconnect ==
  /\ state.name \in OnClient
  /\ sent' = IF state.name = "Connected"
             THEN Append(sent, From(state, "clean")) ELSE sent
  /\ EndClient
  /\ state' = Idle("Ready")
  /\ UNCHANGED <<authorization, refCounts, requests>>

-----------------------------------------------------------------------------
(* AuthorizationService changes its state.                                 *)

AuthorizationChanges(a) ==
  /\ a # authorization
  /\ authorization' = a
  /\ CASE state.name \in {"AwaitingLogin", "WaitingForAccessTokenToBeReady"} ->
            /\ state' = Idle(StateFor(a))
            /\ UNCHANGED <<client, requests, sent>>
       [] state.name = "WaitingForAccessTokenToConnect" /\ a = "login_required" ->
            /\ state' = Idle("AwaitingLogin")
            /\ UNCHANGED <<client, requests, sent>>
       [] state.name = "WaitingForAccessTokenToConnect" /\ a = "available" ->
            MakeClient(state.commands)
       [] OTHER -> UNCHANGED <<state, client, requests, sent>>
  /\ UNCHANGED refCounts

-----------------------------------------------------------------------------
(* Events and callbacks of the MQTT.js clients.  A client that loses its   *)
(* link first calls back what it owes, with an error: the microtasks run   *)
(* after its close event, in a state that ignores them.                    *)

LinkIs(n, link) ==
  client' = [client EXCEPT ![n] = [link |-> link, outstanding |-> <<>>, asked |-> {}]]

\* Mutant of IsCurrent: the event's connection_id is not compared.
HasSomeClient(n) == state.name \in OnClient

IsCurrent(n) == state.name \in OnClient /\ state.client = n

HandleConnect(n) ==
  /\ client[n].link = "connecting"
  /\ IsCurrent(n)
  /\ state.name \in {"Connecting", "OfflineAndReconnecting"}
  /\ IF InUse = {}
     THEN /\ BecomeConnected(state, <<"connected">>)
          /\ LinkIs(n, "up")
     ELSE /\ state' = [state EXCEPT !.name = "SubscribingOnConnect", !.pending = InUse]
          /\ client' = [client EXCEPT ![n] =
                         Subscribed([link |-> "up", outstanding |-> <<>>, asked |-> {}], InUse)]
          /\ UNCHANGED sent
  /\ UNCHANGED <<authorization, refCounts, requests>>

\* A link, or the attempt to make one, is lost: offline and close together.
\* Before its first link a client is Connecting still.
HandleClose(n) ==
  /\ \/ /\ client[n].link \in {"connecting", "up"}
        /\ LinkIs(n, "down")
     \/ /\ client[n].link = "ended"
        /\ client[n].outstanding = <<>>
        /\ LinkIs(n, "closed")
  /\ state' = IF IsCurrent(n) /\ state.name # "Connecting"
              THEN [state EXCEPT !.name = "Offline", !.pending = {}]
              ELSE state
  /\ UNCHANGED <<authorization, refCounts, requests, sent>>

\* The client tries again; also when it gave up a link without closing it.
HandleReconnect(n) ==
  /\ client[n].link \in {"up", "down"}
  /\ IsCurrent(n)
  /\ LinkIs(n, "connecting")
  /\ IF state.name = "Connecting"
     THEN UNCHANGED <<state, requests>>
     ELSE /\ requests < MaxRequests
          /\ requests' = requests + 1
          /\ state' = [state EXCEPT !.name = "OfflineAndReconnecting",
                                    !.request = requests + 1, !.pending = {}]
  /\ UNCHANGED <<authorization, refCounts, sent>>

\* With or without an error, and whichever client owed the callback:
\* handle_subscribe_callback is told the filters only.
HandleSubscribeCallback(n) ==
  /\ client[n].link \in {"up", "ended"}
  /\ client[n].outstanding # <<>>
  /\ client' = [client EXCEPT ![n].outstanding = Tail(@)]
  /\ LET done == Head(client[n].outstanding)
     IN  IF state.name \in Subscribing /\ state.pending \cap done # {}
         THEN SettlePending([state EXCEPT !.pending = @ \ done])
         ELSE UNCHANGED <<state, sent>>
  /\ UNCHANGED <<authorization, refCounts, requests>>

-----------------------------------------------------------------------------

Call ==
  \/ Connect \/ Disconnect
  \/ \E m \in Messages : Publish(m)
  \/ \E f \in Filters : Subscribe(f) \/ Unsubscribe(f)

ClientEvent ==
  \E n \in 1..Len(client) :
    HandleConnect(n) \/ HandleClose(n) \/ HandleReconnect(n) \/ HandleSubscribeCallback(n)

Next ==
  \/ Call
  \/ \E a \in Tokens : AuthorizationChanges(a)
  \/ ClientEvent

Spec == Init /\ [][Next]_vars

\* A client calls back every subscribe call while it has its link; whether the
\* link lasts, and what the callers do, is up to them.
Fairness == \A n \in 1..MaxClients : WF_vars(n <= Len(client) /\ HandleSubscribeCallback(n))

FairSpec == Spec /\ Fairness

-----------------------------------------------------------------------------

TypeOK ==
  /\ authorization \in Tokens
  /\ state \in State
  /\ refCounts \in [Filters -> Nat]
  /\ client \in Seq(Client)
  /\ requests \in Nat
  /\ sent \in Seq(Published)

\* The state goes with the link of its own client, whatever closes late: the
\* handlers compare the connection_id of an event with their own.
StateFollowsLink ==
  state.name \in OnClient =>
    (client[state.client].link = "up" <=> state.name \in Subscribing \cup {"Connected"})

\* No client is left behind: one that is not the state's has been ended, so
\* two connections never contend for the one MQTT client id.
OnlyCurrentClientIsLive ==
  \A n \in 1..Len(client) : client[n].link \notin {"ended", "closed"} => IsCurrent(n)

\* Has a client still to call back a subscribe call for f?
Owes(cl, f) == \E i \in 1..Len(cl.outstanding) : f \in cl.outstanding[i]

\* What a subscribing state waits for is something in use that its client
\* has still to call back, so it is never left waiting for nothing.
SubscribingWaitsForAnswer ==
  state.name \in Subscribing =>
    /\ state.pending # {}
    /\ \A f \in state.pending : f \in InUse /\ Owes(client[state.client], f)

\* While the link is up every filter with an open subscription has been
\* subscribed on it, and not been unsubscribed after, through any number of
\* reconnects and of subscriptions opened and closed meanwhile.
FiltersInUseAreAsked ==
  state.name \in Subscribing \cup {"Connected"} => InUse \subseteq client[state.client].asked

\* Nothing leaves on a link before its connected status, which is published
\* once, and with the ids that everything after it carries.
StatusComesFirst ==
  \A i \in 1..Len(sent) :
    sent[i].what = "connected" <=>
      ~\E j \in 1..(i - 1) : sent[j] = [sent[i] EXCEPT !.what = "connected"]

\* A filter is not waited for for ever.
PendingSettles ==
  \A f \in Filters : (f \in state.pending) ~> (f \notin state.pending)

Box == INSTANCE Outbox WITH
  Notices <- {"connected", "clean"},
  open    <- state.name \in Active,
  waiting <- state.commands,
  sent    <- [i \in 1..Len(sent) |-> sent[i].what]

\* The service is an outbox to those who publish through it: accepted while
\* connecting, offline or subscribing, a message is sent once and in order,
\* unless disconnect or a lost login comes first.
IsOutbox == Box!Spec

\* index.test.ts, "does not publish connected status until subscribe callback
\* while connecting": each filter in use has been called back by then.
ConnectedStatusWaitsForSubscribe ==
  [][\A i \in (Len(sent) + 1)..Len(sent') :
       sent'[i].what = "connected" =>
         \A f \in Filters : refCounts'[f] > 0 => ~Owes(client'[state'.client], f)]_vars
=============================================================================
