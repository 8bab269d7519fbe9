----------------------------- MODULE Subscriptions -----------------------------
(***************************************************************************)
(* The subscriptions of the frontend's MQTTService and how a message is    *)
(* dispatched to them.  A callback may close subscriptions and open new    *)
(* ones while the dispatch is under way: Map.forEach goes by the order of  *)
(* insertion, leaves out what is deleted before its turn and comes to what *)
(* is added.  MQTTService models the same calls by their filters alone,    *)
(* with what the states do with them.                                      *)
(***************************************************************************)
EXTENDS Naturals, Sequences, FiniteSets

CONSTANTS
  TopicFilters,     \* topic filters
  Matching,         \* the filters that the topic of a message matches, by topic
  MaxSubscriptions  \* bound: subscriptions ever made

VARIABLES
  accepts,  \* does the state accept subscribe calls, or throw?
  opened,   \* the filter of each subscription made, in order of their ids
  entries,  \* the ids in the map, which are the subscriptions not removed
  counts,   \* topic_filter_ref_counts, 0 for no entry
  dispatch, \* the message under way: its topic and the last id it came to
  present,  \* history: the ids in the map throughout the dispatch
  called,   \* history: the ids called for it, in order
  stray     \* history: was one called that is not in the map?

subscriptionVars == <<accepts, opened, entries, counts, dispatch, present, called, stray>>

Idle == [topic |-> "", at |-> 0]

SubscriptionsInit ==
  /\ accepts \in BOOLEAN
  /\ opened = <<>> /\ entries = {}
  /\ counts = [f \in TopicFilters |-> 0]
  /\ dispatch = Idle /\ present = {} /\ called = <<>> /\ stray = FALSE

\* The service changes its state.
StateChanges ==
  /\ accepts' = ~accepts
  /\ UNCHANGED <<opened, entries, counts, dispatch, present, called, stray>>

\* increment_topic_filter_ref_count and, for the first, the state's subscribe;
\* when that throws, the count and the map are as they were.
SubscribeWithCallback(f) ==
  /\ Len(opened) < MaxSubscriptions
  /\ opened' = Append(opened, f)
  /\ IF accepts \/ counts[f] > 0
     THEN /\ counts' = [counts EXCEPT ![f] = @ + 1]
          /\ entries' = entries \cup {Len(opened')}
     ELSE UNCHANGED <<counts, entries>>
  /\ UNCHANGED <<accepts, dispatch, present, called, stray>>

DecrementRefCount(f) == counts' = [counts EXCEPT ![f] = @ - 1]

\* close, of an open subscription: a second one finds it closed.
CloseSubscription(s) ==
  /\ s \in entries
  /\ entries' = entries \ {s}
  /\ DecrementRefCount(opened[s])
  /\ present' = present \ {s}
  /\ UNCHANGED <<accepts, opened, dispatch, called, stray>>

\* handle_message, in a state that passes messages on.
HandleMessage(topic) ==
  /\ dispatch = Idle
  /\ dispatch' = [topic |-> topic, at |-> 0]
  /\ present' = entries
  /\ UNCHANGED <<accepts, opened, entries, counts, called, stray>>

Listens(s) == s > dispatch.at /\ opened[s] \in Matching[dispatch.topic]

\* Mutant of Listening: the dispatch goes by the subscriptions it began with.
ListeningAtStart == {s \in 1..Len(opened) : Listens(s)}

Listening == {s \in entries : Listens(s)}

\* call_subscriptions comes to the next one that passes the test.
CallSubscription ==
  /\ dispatch # Idle
  /\ \E s \in Listening :
       /\ \A t \in Listening : s <= t
       /\ dispatch' = [dispatch EXCEPT !.at = s]
       /\ called' = Append(called, s)
       /\ stray' = (stray \/ s \notin entries)
  /\ UNCHANGED <<accepts, opened, entries, counts, present>>

DispatchEnds ==
  /\ dispatch # Idle /\ Listening = {}
  /\ dispatch' = Idle /\ present' = {} /\ called' = <<>>
  /\ UNCHANGED <<accepts, opened, entries, counts, stray>>

\* The callback that was called last throws, as one whose JSON.parse fails:
\* forEach ends, and whoever comes after it misses the message.
CallbackThrows ==
  /\ dispatch.at > 0
  /\ dispatch' = Idle /\ present' = {} /\ called' = <<>>
  /\ UNCHANGED <<accepts, opened, entries, counts, stray>>

\* Calls are made between two messages, or by the callback of one.
MayCall == dispatch = Idle \/ dispatch.at > 0

SubscriptionsNext ==
  \/ MayCall /\ \/ StateChanges
                \/ \E f \in TopicFilters : SubscribeWithCallback(f)
                \/ \E s \in entries : CloseSubscription(s)
  \/ \E topic \in DOMAIN Matching : HandleMessage(topic)
  \/ CallSubscription \/ CallbackThrows \/ DispatchEnds

SubscriptionsSpec == SubscriptionsInit /\ [][SubscriptionsNext]_subscriptionVars

-----------------------------------------------------------------------------
SubscriptionsTypeOK ==
  /\ opened \in Seq(TopicFilters) /\ entries \subseteq 1..Len(opened)
  /\ counts \in [TopicFilters -> Nat]
  /\ present \subseteq entries

(***************************************************************************)
(* Whatever callbacks open and close: a subscription is not called once it *)
(* is closed, nor twice for a message, and one that is open throughout the *)
(* dispatch is called if its filter matches, when the dispatch comes to    *)
(* it, which it does not once a callback has thrown; a filter's count is   *)
(* that of its open subscriptions, so none is unsubscribed under one.      *)
(***************************************************************************)
OpenAreCalled ==
  /\ ~stray
  /\ \A j, k \in 1..Len(called) : j < k => called[j] < called[k]
  /\ dispatch # Idle =>
       \A s \in present : s <= dispatch.at /\ opened[s] \in Matching[dispatch.topic] =>
         \E k \in 1..Len(called) : called[k] = s
  /\ \A f \in TopicFilters : counts[f] = Cardinality({s \in entries : opened[s] = f})
=============================================================================
