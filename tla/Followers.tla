------------------------------- MODULE Followers -------------------------------
(***************************************************************************)
(* FollowingDecorator over InMemoryEventStore: a follower first replays    *)
(* what the store held when it began, then takes from its queue what was   *)
(* put since.  The n-th event put has logical clock n.                     *)
(***************************************************************************)
EXTENDS Naturals, Sequences

CONSTANT MaxPut   \* bound: events put

VARIABLES
  stored,    \* events in the decorated store
  pushed,    \* events pushed to the followers
  follower,  \* its phase, its queue and what it has still to replay
  delivered  \* history: what it yielded, in order

followerVars == <<stored, pushed, follower, delivered>>

FollowersInit ==
  /\ stored = 0 /\ pushed = 0 /\ delivered = <<>>
  /\ \E from \in 0..1 :
       follower = [phase |-> "new", from |-> from, begun |-> 0, replay |-> <<>>, queue |-> <<>>]

\* The first half of put.
StoreEvent ==
  /\ stored < MaxPut
  /\ stored' = stored + 1
  /\ UNCHANGED <<pushed, follower, delivered>>

\* Its second half, after the await: calls of put may overlap, but end in order.
PushEvent ==
  /\ pushed < stored
  /\ pushed' = pushed + 1
  /\ follower' = IF follower.phase = "new" THEN follower
                 ELSE [follower EXCEPT !.queue = Append(@, pushed')]
  /\ UNCHANGED <<stored, delivered>>

\* InMemoryEventStore.get_events: a slice of the events after the cursor.
Slice(from) == [n \in 1..(IF stored > from THEN stored - from ELSE 0) |-> from + n]

\* Mutant of Begin: the replay begins with what has been pushed.
BeginPushed ==
  /\ follower.phase = "new"
  /\ follower' = [follower EXCEPT !.phase = "replaying", !.begun = stored,
                                  !.replay = SubSeq(Slice(follower.from), 1, 0)]
  /\ UNCHANGED <<stored, pushed, delivered>>

\* The first call of next: the follower is registered and the slice is taken.
Begin ==
  /\ follower.phase = "new"
  /\ follower' = [follower EXCEPT !.phase = "replaying", !.begun = pushed,
                                  !.replay = Slice(follower.from)]
  /\ UNCHANGED <<stored, pushed, delivered>>

Replay ==
  /\ follower.phase = "replaying" /\ follower.replay # <<>>
  /\ delivered' = Append(delivered, Head(follower.replay))
  /\ follower' = [follower EXCEPT !.replay = Tail(@)]
  /\ UNCHANGED <<stored, pushed>>

\* Follower.get_events: shift, and await the promise of the next push when the
\* queue is empty.
Follow ==
  /\ follower.phase # "new" /\ follower.replay = <<>> /\ follower.queue # <<>>
  /\ delivered' = Append(delivered, Head(follower.queue))
  /\ follower' = [follower EXCEPT !.phase = "following", !.queue = Tail(@)]
  /\ UNCHANGED <<stored, pushed>>

FollowersNext == StoreEvent \/ PushEvent \/ Begin \/ Replay \/ Follow

FollowersSpec == FollowersInit /\ [][FollowersNext]_followerVars

-----------------------------------------------------------------------------
FollowersTypeOK ==
  /\ pushed <= stored /\ stored \in 0..MaxPut
  /\ follower.phase \in {"new", "replaying", "following"}

Yielded(k) == {delivered[n] : n \in 1..k}

(***************************************************************************)
(* A follower yields no event before every earlier one after its cursor,   *)
(* and has yielded all that was pushed once it waits for the next.  That   *)
(* is at least once: an event that was stored, and not yet pushed, when it *)
(* began comes twice, from the replay and from the queue.                  *)
(***************************************************************************)
FollowerMissesNothing ==
  /\ \A k \in 1..Len(delivered) :
       (follower.from + 1)..(delivered[k] - 1) \subseteq Yielded(k - 1)
  /\ follower.phase # "new" /\ follower.replay = <<>> /\ follower.queue = <<>> =>
       (follower.from + 1)..pushed \subseteq Yielded(Len(delivered))
  /\ \A j, k \in 1..Len(delivered) :
       j < k /\ delivered[j] = delivered[k] => delivered[j] > follower.begun
=============================================================================
