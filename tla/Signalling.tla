------------------------------ MODULE Signalling ------------------------------
(***************************************************************************)
(* How a parent station and a baby station agree on a WebRTC connection.   *)
(* The parent's RTCConnection initiates a Connection, and closes it for a  *)
(* new one when it reconnects; the baby's Connections accepts an offer and *)
(* closes the connection the same peer had.  Descriptions and candidates   *)
(* go through MQTT at QoS 0: in order, at most once, lost with the link.   *)
(* The payload names the client only, never the connection it belongs to.  *)
(***************************************************************************)
EXTENDS Naturals, Sequences

CONSTANTS
  MaxInitiated,  \* bound: connections the parent initiates
  MaxRecreated,  \* bound: times the baby's page renews its Connections
  MaxCandidates  \* bound: candidates gathered by a connection

VARIABLES
  initiated,  \* the parent's Connections, oldest first; only the last may be open
  accepted,   \* the baby's Connections for this parent, the same
  toBaby,     \* the baby's webrtc_inbox: what was published and not delivered
  toParent,   \* the parent's webrtc_inbox
  recreated,  \* how often the baby's page renewed its Connections
  lost,       \* history: was a signal lost?
  crossed     \* history: was a connection initiated before the last exchange ended?

signalVars == <<initiated, accepted, toBaby, toParent, recreated, lost, crossed>>

Description(n) == [type |-> "description", from |-> n]
Candidate(n, c) == [type |-> "candidate", from |-> n, candidate |-> c]

\* A Connection: its state, whether its own description is set and published,
\* the remote description it is given, the candidates its state keeps, those
\* its peer_connection has, and how many it gathered itself.
NewConnection(state, remote) ==
  [state |-> state, open |-> TRUE, described |-> FALSE, remote |-> remote,
   kept |-> {}, added |-> {}, gathered |-> 0]

SignalInit ==
  /\ initiated = <<>> /\ accepted = <<>>
  /\ toBaby = <<>> /\ toParent = <<>>
  /\ recreated = 0 /\ lost = FALSE /\ crossed = FALSE

HasOpen(connections) == connections # <<>> /\ connections[Len(connections)].open
Last(connections)    == connections[Len(connections)]
UpdateLast(connections, c) == [connections EXCEPT ![Len(connections)] = c]

\* close: unsubscribe, remove the listener, close the peer connection.
Closed(connections) ==
  IF connections = <<>> THEN connections
  ELSE [connections EXCEPT ![Len(connections)].open = FALSE]

\* Mutant of DescriptionAccepted: the candidates are passed on, the state stays.
DescriptionKept(c) == [c EXCEPT !.added = @ \cup c.kept, !.kept = {}]

\* handle_description_accepted of AcceptingDescription.
DescriptionAccepted(c) ==
  [c EXCEPT !.state = "active", !.added = @ \cup c.kept, !.kept = {}]

\* Mutant of CandidateReceived: a candidate that comes early is dropped.
CandidateDropped(c, candidate) ==
  IF c.state = "active" THEN [c EXCEPT !.added = @ \cup {candidate}] ELSE c

\* handle_incoming_candidate: kept until the description is accepted.
CandidateReceived(c, candidate) ==
  IF c.state = "active" THEN [c EXCEPT !.added = @ \cup {candidate}]
  ELSE [c EXCEPT !.kept = @ \cup {candidate}]

\* handle_icecandidate.
Gathered(connections) ==
  /\ HasOpen(connections) /\ Last(connections).described
  /\ Last(connections).gathered < MaxCandidates

Gather(connections) ==
  UpdateLast(connections, [Last(connections) EXCEPT !.gathered = @ + 1])

-----------------------------------------------------------------------------
(* The parent station *)

\* Join or reconnect: close_connection, then Connection.initiate.
Initiate ==
  /\ Len(initiated) < MaxInitiated
  /\ initiated' = Append(Closed(initiated), NewConnection("awaiting_answer", 0))
  /\ crossed' = (crossed \/ toBaby # <<>> \/ toParent # <<>>
                   \/ (HasOpen(accepted) /\ ~Last(accepted).described))
  /\ UNCHANGED <<accepted, toBaby, toParent, recreated, lost>>

Leave ==
  /\ HasOpen(initiated)
  /\ initiated' = Closed(initiated)
  /\ UNCHANGED <<accepted, toBaby, toParent, recreated, lost, crossed>>

\* setLocalDescription has resolved: the offer is published.
Offer ==
  /\ HasOpen(initiated) /\ ~Last(initiated).described
  /\ initiated' = UpdateLast(initiated, [Last(initiated) EXCEPT !.described = TRUE])
  /\ toBaby' = Append(toBaby, Description(Len(initiated)))
  /\ UNCHANGED <<accepted, toParent, recreated, lost, crossed>>

ParentGathers ==
  /\ Gathered(initiated)
  /\ initiated' = Gather(initiated)
  /\ toBaby' = Append(toBaby, Candidate(Len(initiated), Last(initiated').gathered))
  /\ UNCHANGED <<accepted, toParent, recreated, lost, crossed>>

\* handle_incoming_description: only AwaitingAnswer takes it.
AnswerReceived(c, k) ==
  IF c.state = "awaiting_answer"
  THEN [c EXCEPT !.state = "accepting_description", !.remote = k] ELSE c

\* Whoever is open takes the signal; with no subscription it is dropped.
ParentReceives ==
  /\ toParent # <<>>
  /\ toParent' = Tail(toParent)
  /\ LET s == Head(toParent) IN
       initiated' =
         IF ~HasOpen(initiated) THEN initiated
         ELSE UpdateLast(initiated,
                IF s.type = "description" THEN AnswerReceived(Last(initiated), s.from)
                ELSE CandidateReceived(Last(initiated), <<s.from, s.candidate>>))
  /\ UNCHANGED <<accepted, toBaby, recreated, lost, crossed>>

\* setRemoteDescription has resolved.
AnswerAccepted ==
  /\ HasOpen(initiated) /\ Last(initiated).state = "accepting_description"
  /\ initiated' = UpdateLast(initiated, DescriptionAccepted(Last(initiated)))
  /\ UNCHANGED <<accepted, toBaby, toParent, recreated, lost, crossed>>

-----------------------------------------------------------------------------
(* The baby station *)

\* Mutant of AcceptOffer: the peer's open connection answers the new offer.
AnswerAgain(n) ==
  IF HasOpen(accepted)
  THEN UpdateLast(accepted, [Last(accepted) EXCEPT !.described = FALSE])
  ELSE Append(accepted, NewConnection("accepting_description", n))

\* handle_offer closes the peer's connection and accepts the new offer.
AcceptOffer(n) ==
  Append(Closed(accepted), NewConnection("accepting_description", n))

BabyReceives ==
  /\ toBaby # <<>>
  /\ toBaby' = Tail(toBaby)
  /\ LET s == Head(toBaby) IN
       accepted' =
         CASE s.type = "description" -> AcceptOffer(s.from)
           [] s.type = "candidate" /\ HasOpen(accepted) ->
                UpdateLast(accepted, CandidateReceived(Last(accepted), <<s.from, s.candidate>>))
           [] OTHER -> accepted
  /\ UNCHANGED <<initiated, toParent, recreated, lost, crossed>>

\* setRemoteDescription, createAnswer and setLocalDescription have resolved:
\* the answer is published and the description accepted.
Answer ==
  /\ HasOpen(accepted) /\ ~Last(accepted).described
  /\ accepted' = UpdateLast(accepted,
                   DescriptionAccepted([Last(accepted) EXCEPT !.described = TRUE]))
  /\ toParent' = Append(toParent, Description(Len(accepted)))
  /\ UNCHANGED <<initiated, toBaby, recreated, lost, crossed>>

BabyGathers ==
  /\ Gathered(accepted)
  /\ accepted' = Gather(accepted)
  /\ toParent' = Append(toParent, Candidate(Len(accepted), Last(accepted').gathered))
  /\ UNCHANGED <<initiated, toBaby, recreated, lost, crossed>>

\* The camera changed, or the session ended: every connection is closed.
CloseConnections ==
  /\ HasOpen(accepted) /\ recreated < MaxRecreated
  /\ accepted' = Closed(accepted)
  /\ recreated' = recreated + 1
  /\ UNCHANGED <<initiated, toBaby, toParent, lost, crossed>>

-----------------------------------------------------------------------------
\* A link that drops takes with it what was on its way to that station.
Lose ==
  /\ ~lost
  /\ lost' = TRUE
  /\ \/ toBaby # <<>> /\ toBaby' = <<>> /\ UNCHANGED toParent
     \/ toParent # <<>> /\ toParent' = <<>> /\ UNCHANGED toBaby
  /\ UNCHANGED <<initiated, accepted, recreated, crossed>>

SignalNext ==
  \/ Initiate \/ Leave \/ Offer \/ ParentGathers \/ ParentReceives \/ AnswerAccepted
  \/ BabyReceives \/ Answer \/ BabyGathers \/ CloseConnections \/ Lose

SignalSpec == SignalInit /\ [][SignalNext]_signalVars

-----------------------------------------------------------------------------
ConnectionOK(c) ==
  /\ c.state \in {"awaiting_answer", "accepting_description", "active"}
  /\ c.open \in BOOLEAN /\ c.described \in BOOLEAN
  /\ c.gathered \in 0..MaxCandidates

SignalTypeOK ==
  /\ \A n \in DOMAIN initiated : ConnectionOK(initiated[n]) /\ initiated[n].remote <= Len(accepted)
  /\ \A k \in DOMAIN accepted : ConnectionOK(accepted[k]) /\ accepted[k].remote \in DOMAIN initiated
  /\ recreated \in 0..MaxRecreated /\ lost \in BOOLEAN /\ crossed \in BOOLEAN

(***************************************************************************)
(* The two ends belong together: the answer a parent's connection takes is *)
(* the answer to its own offer.  Answers do not name the offer, so it      *)
(* takes an exchange that ended before the next connection was initiated.  *)
(***************************************************************************)
AnswerIsOwn ==
  \A n \in DOMAIN initiated :
    initiated[n].remote # 0 /\ ~crossed => accepted[initiated[n].remote].remote = n

(***************************************************************************)
(* No candidate is lost on the way into the peer connection: when nothing  *)
(* was lost or crossed and all is delivered, the two ends that belong      *)
(* together have every candidate the other one gathered, also those that   *)
(* overtook the acceptance of the description.                             *)
(***************************************************************************)
Settled ==
  /\ ~lost /\ ~crossed /\ toBaby = <<>> /\ toParent = <<>>
  /\ HasOpen(initiated) /\ Last(initiated).state = "active"
  /\ HasOpen(accepted) /\ Last(accepted).state = "active"
  /\ Last(accepted).remote = Len(initiated) /\ Last(initiated).remote = Len(accepted)

CandidatesArrive ==
  Settled =>
    /\ {<<Len(accepted), c>> : c \in 1..Last(accepted).gathered} \subseteq Last(initiated).added
    /\ {<<Len(initiated), c>> : c \in 1..Last(initiated).gathered} \subseteq Last(accepted).added

(***************************************************************************)
(* A connection that nobody disturbs is made: the last one the parent      *)
(* initiates is closed or becomes active, if no signal is lost and the     *)
(* baby's page keeps its Connections.  (Nobody retries a lost signal.)     *)
(***************************************************************************)
Connects ==
  (HasOpen(initiated) /\ Last(initiated).described)
    ~> (lost \/ recreated > 0 \/ ~HasOpen(initiated) \/ ~Last(initiated).described
        \/ Last(initiated).state = "active")
=============================================================================
