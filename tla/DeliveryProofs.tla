---------------------------- MODULE DeliveryProofs ----------------------------
(***************************************************************************)
(* What TLAPS shows of those that pass events and messages on, for any     *)
(* number of them: a follower of the event store misses no event, a        *)
(* connection of the websocket API gets what is routed to its client, an   *)
(* event stream holds its own client's events, a subscription is called    *)
(* for every message, and a parent's list is true of its baby stations.    *)
(***************************************************************************)
EXTENDS Followers, Connections, EventStream, Subscriptions, Stations, TLAPS, SequenceTheorems,
        FiniteSetTheorems

-----------------------------------------------------------------------------
(***************************************************************************)
(* The followers of the event store                                        *)
(***************************************************************************)

Follower == [phase : {"new", "replaying", "following"}, from : Nat, begun : Nat,
             replay : Seq(Nat), queue : Seq(Nat)]

FollowerInv ==
  /\ stored \in Nat /\ pushed \in 0..stored
  /\ follower \in Follower /\ delivered \in Seq(Nat)

\* How many events the follower yielded, has still to replay, and has queued.
Done == Len(delivered)
Waiting == Len(follower.replay)
Queued == Len(follower.queue)

\* Of a store that held s events when a follower with cursor f began, and b
\* had been pushed: how many of them are after the cursor, and what the
\* follower yields as its k-th event.
Replayed(s, f) == IF s > f THEN s - f ELSE 0
Yield(s, f, b, k) == IF k <= Replayed(s, f) THEN f + k ELSE b + (k - Replayed(s, f))

\* What was yielded, what is to be replayed and what is queued are together
\* the events of Yield, up to the last one pushed.
Began(f, b) == f = follower.from /\ b = follower.begun
Counted(s, f, b) ==
  /\ b <= s /\ b <= pushed
  /\ Done + Waiting + Queued = Replayed(s, f) + (pushed - b)
Placed(s, f, b) ==
  /\ \A k \in 1..Done : delivered[k] = Yield(s, f, b, k)
  /\ \A k \in 1..Waiting : follower.replay[k] = Yield(s, f, b, Done + k)
  /\ \A k \in 1..Queued : follower.queue[k] = Yield(s, f, b, Done + Waiting + k)

InOrder(s, f, b) == Began(f, b) /\ Counted(s, f, b) /\ Placed(s, f, b)

OrderInv ==
  IF follower.phase = "new" THEN delivered = <<>> /\ follower.queue = <<>>
  ELSE \E s, f, b \in Nat : InOrder(s, f, b)

FollowersInv == FollowerInv /\ OrderInv

-----------------------------------------------------------------------------
LEMMA FollowersInitInv == FollowersInit => FollowersInv
BY EmptySeq DEF FollowersInit, FollowersInv, FollowerInv, OrderInv, Follower

LEMMA Lengths ==
  ASSUME FollowerInv
  PROVE  Done \in Nat /\ Waiting \in Nat /\ Queued \in Nat /\ pushed \in Nat
<1>1. follower.replay \in Seq(Nat) /\ follower.queue \in Seq(Nat) /\ delivered \in Seq(Nat)
  BY DEF FollowerInv, Follower
<1>2. Done \in Nat
  BY <1>1, LenProperties DEF Done
<1>3. Waiting \in Nat
  BY <1>1, LenProperties DEF Waiting
<1>4. Queued \in Nat
  BY <1>1, LenProperties DEF Queued
<1> QED BY <1>2, <1>3, <1>4 DEF FollowerInv

LEMMA ReplayedType ==
  ASSUME NEW s \in Nat, NEW f \in Nat
  PROVE  Replayed(s, f) \in Nat
BY DEF Replayed

\* Only these variables matter.
LEMMA SameOrder ==
  ASSUME OrderInv, UNCHANGED <<pushed, follower, delivered>>
  PROVE  OrderInv'
<1>1. UNCHANGED <<Done, Waiting, Queued>>
  BY DEF Done, Waiting, Queued
<1>2. \A s, f, b : InOrder(s, f, b) => InOrder(s, f, b)'
  BY <1>1 DEF InOrder, Began, Counted, Placed
<1> QED BY <1>2 DEF OrderInv

LEMMA StoreEventInv == ASSUME FollowersInv, StoreEvent PROVE FollowersInv'
<1>1. FollowerInv'
  BY DEF StoreEvent, FollowersInv, FollowerInv
<1>2. OrderInv'
  BY SameOrder DEF StoreEvent, FollowersInv
<1> QED BY <1>1, <1>2 DEF FollowersInv

LEMMA PushEventInv == ASSUME FollowersInv, PushEvent PROVE FollowersInv'
<1>0. FollowerInv /\ OrderInv
  BY DEF FollowersInv
<1>1. CASE follower.phase = "new"
  BY <1>0, <1>1 DEF PushEvent, FollowersInv, FollowerInv, OrderInv
<1>2. CASE follower.phase # "new"
  <2> DEFINE q == Append(follower.queue, pushed + 1)
  <2>1. /\ follower' = [follower EXCEPT !.queue = q]
        /\ pushed' = pushed + 1 /\ pushed + 1 \in Nat /\ follower.queue \in Seq(Nat)
        /\ UNCHANGED <<stored, delivered>> /\ pushed < stored
    BY <1>0, <1>2 DEF PushEvent, FollowerInv, Follower
  <2>2. /\ q \in Seq(Nat) /\ Len(q) = Queued + 1 /\ q[Queued + 1] = pushed + 1
        /\ \A k \in 1..Queued : q[k] = follower.queue[k]
    BY <2>1, AppendProperties DEF Queued
  <2> HIDE DEF q
  <2>3. /\ follower' \in Follower /\ follower'.queue = q
        /\ follower'.phase = follower.phase /\ follower'.from = follower.from
        /\ follower'.begun = follower.begun /\ follower'.replay = follower.replay
    BY <1>0, <2>1, <2>2 DEF FollowerInv, Follower
  <2>4. FollowerInv'
    BY <1>0, <2>1, <2>3 DEF FollowerInv
  <2>5. PICK s, f, b \in Nat : InOrder(s, f, b)
    BY <1>0, <1>2 DEF OrderInv
  <2>6. Done' = Done /\ Waiting' = Waiting /\ Queued' = Queued + 1
    BY <2>1, <2>2, <2>3 DEF Done, Waiting, Queued
  <2>7. /\ Done \in Nat /\ Waiting \in Nat /\ Queued \in Nat /\ pushed \in Nat
        /\ Replayed(s, f) \in Nat
    BY <1>0, Lengths, ReplayedType
  <2>8. Done + Waiting + Queued = Replayed(s, f) + (pushed - b) /\ b <= pushed /\ b <= s
    BY <2>5 DEF InOrder, Began, Counted, Placed
  <2>9. Yield(s, f, b, Done + Waiting + (Queued + 1)) = pushed + 1
    BY <2>7, <2>8 DEF Yield
  <2>10. ASSUME NEW k \in 1..Queued + 1
         PROVE  q[k] = Yield(s, f, b, Done + Waiting + k)
    <3>1. k \in 1..Queued \/ k = Queued + 1
      BY <2>7
    <3> QED BY <2>2, <2>5, <2>9, <3>1 DEF InOrder, Began, Counted, Placed
  <2>11. /\ b <= pushed + 1
         /\ Done + Waiting + (Queued + 1) = Replayed(s, f) + (pushed + 1 - b)
    BY <2>7, <2>8
  <2>12. InOrder(s, f, b)'
    <3>1. /\ f = follower'.from /\ b = follower'.begun
          /\ \A k \in 1..Done : delivered'[k] = Yield(s, f, b, k)
          /\ \A k \in 1..Waiting : follower'.replay[k] = Yield(s, f, b, Done + k)
      BY <2>1, <2>3, <2>5 DEF InOrder, Began, Counted, Placed
    <3>2. \A k \in 1..Queued + 1 : follower'.queue[k] = Yield(s, f, b, Done + Waiting + k)
      BY <2>3, <2>10
    <3>3. Placed(s, f, b)'
      BY <2>6, <3>1, <3>2 DEF Placed
    <3>4. Counted(s, f, b)'
      <4>1. pushed' = pushed + 1
        BY <2>1
      <4>2. b <= s /\ b <= pushed'
        BY <2>8, <2>11, <4>1
      <4>3. Done' + Waiting' + Queued' = Replayed(s, f) + (pushed' - b)
        BY <2>6, <2>7, <2>8, <4>1
      <4> QED BY <4>2, <4>3 DEF Counted
    <3> QED BY <3>1, <3>3, <3>4 DEF InOrder, Began
  <2> QED BY <1>2, <2>3, <2>4, <2>12 DEF FollowersInv, OrderInv
<1> QED BY <1>1, <1>2

LEMMA BeginInv == ASSUME FollowersInv, Begin PROVE FollowersInv'
<1> DEFINE slice == Slice(follower.from)
           f == follower.from
           n == Replayed(stored, f)
<1>1. /\ follower \in Follower /\ follower.phase = "new" /\ follower.queue = <<>>
      /\ delivered = <<>> /\ UNCHANGED <<stored, pushed, delivered>>
      /\ follower' = [follower EXCEPT !.phase = "replaying", !.begun = pushed, !.replay = slice]
      /\ stored \in Nat /\ pushed \in 0..stored
  BY DEF Begin, FollowersInv, FollowerInv, OrderInv
<1>2. f \in Nat /\ n \in Nat /\ pushed \in Nat /\ pushed <= stored
  BY <1>1, ReplayedType DEF Follower
<1>3. slice \in Seq(Nat) /\ Len(slice) = n /\ \A k \in 1..n : slice[k] = f + k
  <2>1. \A k \in 1..n : f + k \in Nat
    BY <1>2
  <2>2. slice = [k \in 1..n |-> f + k]
    BY DEF Slice, Replayed
  <2> HIDE DEF n, f, slice
  <2> QED BY <1>2, <2>1, <2>2
<1> HIDE DEF slice
<1>4. /\ follower' \in Follower /\ follower'.phase = "replaying" /\ follower'.from = f
      /\ follower'.begun = pushed /\ follower'.replay = slice /\ follower'.queue = <<>>
  BY <1>1, <1>2, <1>3 DEF Follower
<1>5. FollowerInv'
  BY <1>1, <1>4 DEF FollowerInv
<1>6. Done' = 0 /\ Waiting' = n /\ Queued' = 0
  BY <1>1, <1>3, <1>4, EmptySeq DEF Done, Waiting, Queued
<1> HIDE DEF f
<1>7. ASSUME NEW k \in 1..n PROVE Yield(stored, f, pushed, 0 + k) = f + k
  BY <1>2 DEF Yield
<1>8. 0 + n + 0 = Replayed(stored, f) + (pushed - pushed)
  BY <1>2
<1> HIDE DEF n
<1>9. PICK t, g, b \in Nat : t = stored /\ g = f /\ b = pushed
  BY <1>1, <1>2
<1>10. b <= t /\ b <= pushed' /\ 0 + n + 0 = Replayed(t, g) + (pushed' - b)
  BY <1>1, <1>2, <1>8, <1>9
<1>11. \A k \in 1..n : follower'.replay[k] = Yield(t, g, b, 0 + k)
  BY <1>3, <1>4, <1>7, <1>9
<1>12. InOrder(t, g, b)'
  <2>1. (\A k \in 1..0 : FALSE) /\ g = follower'.from /\ b = follower'.begun
    BY <1>4, <1>9
  <2>2. Placed(t, g, b)'
    BY <1>6, <1>11, <2>1 DEF Placed
  <2>3. Counted(t, g, b)'
    BY <1>6, <1>10 DEF Counted
  <2> QED BY <2>1, <2>2, <2>3 DEF InOrder, Began
<1> QED BY <1>2, <1>4, <1>5, <1>9, <1>12 DEF FollowersInv, OrderInv

\* Replay and Follow: the first element of a sequence q is yielded.
FromReplay(q) ==
  q = follower.replay /\ follower'.replay = Tail(q) /\ follower'.queue = follower.queue
FromQueue(q) ==
  /\ q = follower.queue /\ follower'.queue = Tail(q)
  /\ follower.replay = <<>> /\ follower'.replay = <<>>

Yields(q) ==
  /\ q # <<>>
  /\ delivered' = Append(delivered, Head(q)) /\ UNCHANGED <<stored, pushed>>
  /\ follower' \in Follower
  /\ follower'.from = follower.from /\ follower'.begun = follower.begun

LEMMA YieldingInv ==
  ASSUME FollowerInv, NEW s \in Nat, NEW f \in Nat, NEW b \in Nat, InOrder(s, f, b),
         NEW q \in Seq(Nat), Yields(q), FromReplay(q) \/ FromQueue(q)
  PROVE  FollowerInv' /\ InOrder(s, f, b)'
<1>1. /\ Head(q) \in Nat /\ Tail(q) \in Seq(Nat) /\ Len(Tail(q)) = Len(q) - 1
      /\ Len(q) \in Nat \ {0} /\ Head(q) = q[1]
      /\ \A k \in 1..Len(Tail(q)) : Tail(q)[k] = q[k + 1]
  BY HeadTailProperties, EmptySeq DEF Yields
<1>2. /\ delivered' \in Seq(Nat) /\ Done' = Done + 1 /\ delivered'[Done + 1] = q[1]
      /\ \A k \in 1..Done : delivered'[k] = delivered[k]
  BY <1>1, AppendProperties DEF Done, FollowerInv, Yields
<1>3. FollowerInv'
  BY <1>2 DEF FollowerInv, Yields
<1>4. /\ b <= s /\ b <= pushed' /\ f = follower'.from /\ b = follower'.begun
      /\ Done + Waiting + Queued = Replayed(s, f) + (pushed' - b)
  BY DEF InOrder, Began, Counted, Placed, Yields
<1>5. q[1] = Yield(s, f, b, Done + 1) =>
        \A k \in 1..Done + 1 : delivered'[k] = Yield(s, f, b, k)
  <2> SUFFICES ASSUME q[1] = Yield(s, f, b, Done + 1), NEW k \in 1..Done + 1
               PROVE  delivered'[k] = Yield(s, f, b, k)
    OBVIOUS
  <2>1. k \in 1..Done \/ k = Done + 1
    BY Lengths
  <2> QED BY <1>2, <2>1 DEF InOrder, Began, Counted, Placed
<1>6. CASE FromReplay(q)
  <2>1. Len(q) = Waiting /\ Waiting' = Waiting - 1 /\ Queued' = Queued
    BY <1>1, <1>6 DEF FromReplay, Waiting, Queued
  <2>2. q[1] = Yield(s, f, b, Done + 1)
    BY <1>1, <1>6, <2>1, Lengths DEF FromReplay, InOrder, Began, Counted, Placed
  <2>3. ASSUME NEW k \in 1..Waiting - 1
        PROVE  follower'.replay[k] = Yield(s, f, b, Done + 1 + k)
    <3>1. k + 1 \in 1..Waiting /\ Done + (k + 1) = Done + 1 + k
      BY Lengths
    <3>2. follower'.replay[k] = follower.replay[k + 1]
      BY <1>1, <1>6, <2>1 DEF FromReplay
    <3> QED BY <3>1, <3>2 DEF InOrder, Began, Counted, Placed
  <2>4. Done + 1 + (Waiting - 1) = Done + Waiting
    BY Lengths
  <2>5. \A k \in 1..Queued : follower'.queue[k] = Yield(s, f, b, Done + 1 + (Waiting - 1) + k)
    BY <1>6, <2>4 DEF FromReplay, InOrder, Began, Counted, Placed
  <2> QED BY <1>2, <1>3, <1>4, <1>5, <2>1, <2>2, <2>3, <2>4, <2>5 DEF InOrder, Began, Counted, Placed
<1>7. CASE FromQueue(q)
  <2>1. Len(q) = Queued /\ Queued' = Queued - 1 /\ Waiting = 0 /\ Waiting' = 0
    BY <1>1, <1>7, EmptySeq DEF FromQueue, Waiting, Queued
  <2>2. q[1] = Yield(s, f, b, Done + 1)
    <3>1. 1 \in 1..Queued /\ Done + Waiting + 1 = Done + 1
      BY <1>1, <2>1, Lengths
    <3> QED BY <1>7, <3>1 DEF FromQueue, InOrder, Began, Counted, Placed
  <2>3. ASSUME NEW k \in 1..Queued - 1
        PROVE  follower'.queue[k] = Yield(s, f, b, Done + 1 + 0 + k)
    <3>1. k + 1 \in 1..Queued /\ Done + 0 + (k + 1) = Done + 1 + 0 + k
      BY Lengths
    <3>2. follower'.queue[k] = follower.queue[k + 1]
      BY <1>1, <1>7, <2>1 DEF FromQueue
    <3> QED BY <2>1, <3>1, <3>2 DEF InOrder, Began, Counted, Placed
  <2>4. Done + 1 + 0 + (Queued - 1) = Done + 0 + Queued
    BY Lengths
  <2>5. \A k \in 1..0 : FALSE
    OBVIOUS
  <2> QED BY <1>2, <1>3, <1>4, <1>5, <2>1, <2>2, <2>3, <2>4, <2>5 DEF InOrder, Began, Counted, Placed
<1> QED BY <1>6, <1>7

LEMMA ReplayInv == ASSUME FollowersInv, Replay PROVE FollowersInv'
<1>1. PICK s, f, b \in Nat : InOrder(s, f, b)
  BY DEF FollowersInv, OrderInv, Replay
<1>2. follower \in Follower /\ follower.replay \in Seq(Nat) /\ follower.replay # <<>>
  BY DEF FollowersInv, FollowerInv, Replay, Follower
<1>3. Tail(follower.replay) \in Seq(Nat)
  BY <1>2, HeadTailProperties
<1>4. /\ follower' \in Follower /\ follower'.replay = Tail(follower.replay)
      /\ follower'.queue = follower.queue /\ follower'.phase = "replaying"
      /\ follower'.from = follower.from /\ follower'.begun = follower.begun
  BY <1>2, <1>3 DEF Replay, Follower
<1>5. FollowerInv' /\ InOrder(s, f, b)'
  BY <1>1, <1>2, <1>4, YieldingInv DEF FollowersInv, Replay, Yields, FromReplay
<1> QED BY <1>4, <1>5 DEF FollowersInv, OrderInv

LEMMA FollowInv == ASSUME FollowersInv, Follow PROVE FollowersInv'
<1>1. PICK s, f, b \in Nat : InOrder(s, f, b)
  BY DEF FollowersInv, OrderInv, Follow
<1>2. follower \in Follower /\ follower.queue \in Seq(Nat) /\ follower.queue # <<>>
  BY DEF FollowersInv, FollowerInv, Follow, Follower
<1>3. Tail(follower.queue) \in Seq(Nat)
  BY <1>2, HeadTailProperties
<1>4. /\ follower' \in Follower /\ follower'.queue = Tail(follower.queue)
      /\ follower'.replay = follower.replay /\ follower'.phase = "following"
      /\ follower'.from = follower.from /\ follower'.begun = follower.begun
  BY <1>2, <1>3 DEF Follow, Follower
<1>5. FollowerInv' /\ InOrder(s, f, b)'
  BY <1>1, <1>2, <1>4, YieldingInv DEF FollowersInv, Follow, Yields, FromQueue
<1> QED BY <1>4, <1>5 DEF FollowersInv, OrderInv

(***************************************************************************)
(* The invariant holds always, however many events are put.                *)
(***************************************************************************)
THEOREM FollowersInvariance == FollowersSpec => []FollowersInv
<1>1. FollowersInv /\ [FollowersNext]_followerVars => FollowersInv'
  <2> SUFFICES ASSUME FollowersInv, [FollowersNext]_followerVars PROVE FollowersInv'
    OBVIOUS
  <2>1. CASE UNCHANGED followerVars
    BY <2>1, SameOrder DEF followerVars, FollowersInv, FollowerInv
  <2> QED BY <2>1, StoreEventInv, PushEventInv, BeginInv, ReplayInv, FollowInv
          DEF FollowersNext
<1> QED BY FollowersInitInv, <1>1, PTL DEF FollowersSpec

-----------------------------------------------------------------------------
\* The place of an event that was pushed after the follower began.
LEMMA Position ==
  ASSUME NEW v \in Nat, NEW b \in Nat, NEW r \in Nat, NEW n \in Nat, NEW d \in Nat,
         v > b, v - b + r <= n, n <= d
  PROVE  LET k == v - b + r IN k \in 1..n /\ k \in 1..d /\ ~(k <= r) /\ b + (k - r) = v
OBVIOUS

\* What the order of the events says of those yielded.
LEMMA OrderSuffices == FollowersInv => FollowerMissesNothing
<1> SUFFICES ASSUME FollowersInv PROVE FollowerMissesNothing
  OBVIOUS
<1> DEFINE d == Len(delivered)
<1>1. pushed \in Nat /\ d \in Nat
  BY Lengths DEF FollowersInv, Done
<1>0. delivered \in Seq(Nat)
  BY DEF FollowersInv, FollowerInv
<1>2. CASE follower.phase = "new"
  BY <1>2, EmptySeq DEF FollowersInv, OrderInv, FollowerMissesNothing
<1>3. CASE follower.phase # "new"
  <2>1. PICK s, f, b \in Nat : InOrder(s, f, b)
    BY <1>3 DEF FollowersInv, OrderInv
  <2> DEFINE r == Replayed(s, f)
  <2>2. r \in Nat /\ (s <= f => r = 0) /\ (s > f => r = s - f)
    BY DEF Replayed
  <2>3. \A k \in 1..d : delivered[k] = Yield(s, f, b, k)
    BY <2>1 DEF InOrder, Began, Counted, Placed, Done
  <2>0. f = follower.from /\ b = follower.begun
    BY <2>1 DEF InOrder, Began, Counted, Placed
  <2> HIDE DEF r, d
  <2>4. ASSUME NEW n \in Nat, n <= d, NEW v \in Nat, v > f,
               v <= s \/ (v > b /\ v - b + r <= n),
               v <= s => v - f <= n
        PROVE  v \in Yielded(n)
    <3>1. CASE v <= s
      <4> DEFINE k == v - f
      <4>1. k \in 1..n /\ k \in 1..d /\ k <= r /\ f + k = v
        BY <1>1, <2>2, <2>4, <3>1
      <4>2. delivered[k] = v
        BY <2>3, <4>1 DEF Yield, r
      <4> QED BY <4>1, <4>2 DEF Yielded
    <3>2. CASE ~(v <= s)
      <4> DEFINE k == v - b + r
      <4>1. k \in 1..n /\ k \in 1..d /\ ~(k <= r) /\ b + (k - r) = v
        <5>1. v > b /\ k <= n /\ n <= d
          BY <2>4, <3>2
        <5> QED BY <1>1, <2>2, <5>1, Position
      <4>2. delivered[k] = v
        BY <2>3, <4>1 DEF Yield, r
      <4> QED BY <4>1, <4>2 DEF Yielded
    <3> QED BY <3>1, <3>2
  <2>5. ASSUME NEW k \in 1..d, NEW v \in (f + 1)..(delivered[k] - 1)
        PROVE  v \in Yielded(k - 1)
    <3>1. delivered[k] \in Nat /\ delivered[k] = Yield(s, f, b, k)
      BY <1>0, <2>3, ElementOfSeq DEF d
    <3>2. v \in Nat /\ k - 1 \in Nat /\ k - 1 <= d /\ v > f
      BY <1>1, <3>1
    <3>3. b <= s
      BY <2>1 DEF InOrder, Began, Counted, Placed
    <3>4. CASE k <= r
      <4>1. delivered[k] = f + k
        BY <3>1, <3>4 DEF Yield, r
      <4>2. v <= s /\ v - f <= k - 1
        BY <1>1, <2>2, <3>2, <3>4, <4>1
      <4> QED BY <2>4, <3>2, <4>2
    <3>5. CASE ~(k <= r)
      <4>1. delivered[k] = b + (k - r)
        BY <3>1, <3>5 DEF Yield, r
      <4>2. v <= s => v - f <= k - 1
        BY <1>1, <2>2, <3>2, <3>5
      <4>3. v <= s \/ (v > b /\ v - b + r <= k - 1)
        BY <1>1, <2>2, <3>2, <3>3, <4>1
      <4> QED BY <2>4, <3>2, <4>2, <4>3
    <3> QED BY <3>4, <3>5
  <2>6. ASSUME follower.replay = <<>>, follower.queue = <<>>,
               NEW v \in (f + 1)..pushed
        PROVE  v \in Yielded(d)
    <3>1. d = r + (pushed - b) /\ b <= s
      <4>1. Waiting = 0 /\ Queued = 0
        BY <2>6, EmptySeq DEF Waiting, Queued
      <4> QED BY <1>1, <2>1, <2>2, <4>1 DEF InOrder, Began, Counted, Placed, Done, r, d
    <3>2. v \in Nat /\ v > f /\ v <= pushed
      BY <1>1
    <3>3. b <= pushed
      BY <2>1 DEF InOrder, Began, Counted, Placed
    <3>4. v <= s => v - f <= d
      BY <1>1, <2>2, <3>1, <3>2, <3>3
    <3>5. v <= s \/ (v > b /\ v - b + r <= d)
      BY <1>1, <2>2, <3>1, <3>2
    <3> QED BY <1>1, <2>4, <3>2, <3>4, <3>5
  <2>7. ASSUME NEW j \in 1..d, NEW k \in 1..d, j < k, delivered[j] = delivered[k]
        PROVE  delivered[j] > b
    <3>1. Yield(s, f, b, j) = Yield(s, f, b, k)
      BY <2>3, <2>7
    <3>2. ~(k <= r)
      BY <1>1, <2>2, <2>7, <3>1 DEF Yield, r
    <3>3. Yield(s, f, b, k) = b + (k - r) /\ k - r > 0
      BY <1>1, <2>2, <3>2 DEF Yield, r
    <3>4. b + (k - r) > b
      BY <1>1, <2>2, <3>3
    <3> QED BY <2>3, <2>7, <3>3, <3>4
  <2> QED BY <2>0, <2>5, <2>6, <2>7 DEF d, FollowerMissesNothing
<1> QED BY <1>2, <1>3

(***************************************************************************)
(* FollowingDecorator: a follower yields an event only after all earlier   *)
(* ones beyond its cursor, and has yielded what was pushed by the time it  *)
(* waits for the next.  That is at least once: an event may come from the  *)
(* replay and from the queue, but none that was pushed when it began.      *)
(***************************************************************************)
THEOREM NothingIsMissed == FollowersSpec => []FollowerMissesNothing
BY FollowersInvariance, OrderSuffices, PTL

(***************************************************************************)
(* Types: no more events are pushed to the followers than are stored.      *)
(***************************************************************************)
THEOREM FollowersTypeCorrect ==
  ASSUME MaxPut \in Nat
  PROVE  FollowersSpec => []FollowersTypeOK
<1>1. FollowersInit => stored \in 0..MaxPut
  BY DEF FollowersInit
<1>2. stored \in 0..MaxPut /\ [FollowersNext]_followerVars => (stored \in 0..MaxPut)'
  BY DEF FollowersNext, StoreEvent, PushEvent, Begin, Replay, Follow, followerVars
<1>3. stored \in 0..MaxPut /\ FollowersInv => FollowersTypeOK
  BY DEF FollowersInv, FollowerInv, Follower, FollowersTypeOK
<1> QED BY <1>1, <1>2, <1>3, FollowersInvariance, PTL DEF FollowersSpec

-----------------------------------------------------------------------------
(***************************************************************************)
(* The connections of the websocket API                                    *)
(***************************************************************************)

Handler == [client : ClientIds,
            at : {"subscribing", "announcing", "serving", "leaving", "unsubscribing", "gone"},
            peer : {"alive", "silent", "closed"}, reader : {"reading", "publishing"},
            ping : {"idle", "sent", "waiting"}, pong : BOOLEAN,
            told : {"nothing", "connected", "disconnected"}, alone : BOOLEAN]

HandlersInv ==
  /\ served \in Seq(Handler)
  /\ inbox \in [ClientIds -> Nat] /\ \A i \in ClientIds : inbox[i] <= Len(served)
  /\ failures \in 0..MaxFailures

Runs(k) == served[k].at # "gone"

\* A route is that of the last handler of its client.
RouteInv ==
  \A i \in ClientIds : inbox[i] # 0 =>
    /\ served[inbox[i]].client = i
    /\ \A k \in 1..Len(served) : served[k].client = i => k <= inbox[i]

\* A handler that runs alone has the route, also before it is subscribed.
RoutedInv ==
  \A k \in 1..Len(served) : Runs(k) /\ served[k].alone => inbox[served[k].client] = k

\* No other handler of its client runs meanwhile.
AloneInv ==
  \A j, k \in 1..Len(served) :
    j # k /\ Runs(j) /\ Runs(k) /\ served[j].client = served[k].client => ~served[j].alone

ConnectionsInv == HandlersInv /\ RouteInv /\ RoutedInv /\ AloneInv

LEMMA HandlersDomain ==
  ASSUME HandlersInv
  PROVE  /\ Len(served) \in Nat /\ DOMAIN served = 1..Len(served) /\ served \in Seq(Handler)
         /\ \A k \in 1..Len(served) : served[k] \in Handler
BY LenProperties, ElementOfSeq DEF HandlersInv

LEMMA ConnectionsInitInv ==
  ASSUME MaxFailures \in Nat, ConnectionsInit PROVE ConnectionsInv
<1>1. served \in Seq(Handler) /\ Len(served) = 0
  BY EmptySeq DEF ConnectionsInit
<1>2. inbox \in [ClientIds -> Nat] /\ \A i \in ClientIds : inbox[i] = 0
  BY DEF ConnectionsInit
<1>3. failures \in 0..MaxFailures
  BY DEF ConnectionsInit
<1> QED BY <1>1, <1>2, <1>3 DEF ConnectionsInv, HandlersInv, RouteInv, RoutedInv, AloneInv

\* A step of one handler that leaves the routes, and starts nothing.
LEMMA OneHandlerInv ==
  ASSUME ConnectionsInv, NEW k \in 1..Len(served), NEW v \in Handler,
         served' = [served EXCEPT ![k] = v],
         v.client = served[k].client, v.alone = served[k].alone, v.at # "gone" => Runs(k),
         inbox' = inbox, failures' \in 0..MaxFailures
  PROVE  ConnectionsInv'
<1>1. served \in Seq(Handler) /\ Len(served) \in Nat
  BY HandlersDomain DEF ConnectionsInv
<1>2. /\ served' \in Seq(Handler) /\ Len(served') = Len(served)
      /\ \A j \in 1..Len(served) : served'[j] = IF j = k THEN v ELSE served[j]
  BY <1>1, ExceptSeq
<1>3. \A j \in 1..Len(served) :
        /\ served'[j].client = served[j].client /\ served'[j].alone = served[j].alone
        /\ served'[j].at # "gone" => Runs(j)
  BY <1>2 DEF Runs
<1>4. HandlersInv'
  BY <1>2 DEF ConnectionsInv, HandlersInv
<1>5. \A i \in ClientIds : inbox[i] # 0 => inbox[i] \in 1..Len(served)
  BY <1>1 DEF ConnectionsInv, HandlersInv
<1>6. RouteInv'
  BY <1>2, <1>3, <1>5 DEF ConnectionsInv, RouteInv
<1>7. RoutedInv'
  BY <1>2, <1>3 DEF ConnectionsInv, RoutedInv, Runs
<1>8. AloneInv'
  BY <1>2, <1>3 DEF ConnectionsInv, AloneInv, Runs
<1> QED BY <1>4, <1>6, <1>7, <1>8 DEF ConnectionsInv

\* The route goes, and with it the handler: another one of the client that
\* still runs was never alone.
LEMMA UnsubscribeInv ==
  ASSUME ConnectionsInv, NEW k \in 1..Len(served), Unsubscribe(k)
  PROVE  ConnectionsInv'
<1> DEFINE v == [served[k] EXCEPT !.at = "gone"]
           c == served[k].client
<1>1. served \in Seq(Handler) /\ Len(served) \in Nat /\ served[k] \in Handler
  BY HandlersDomain DEF ConnectionsInv
<1>2. v \in Handler /\ v.client = c /\ v.alone = served[k].alone /\ v.at = "gone"
      /\ c \in ClientIds
  BY <1>1 DEF Handler
<1>3. served' = [served EXCEPT ![k] = v] /\ inbox' = [inbox EXCEPT ![c] = 0]
      /\ failures' = failures /\ Runs(k)
  BY DEF Unsubscribe, Unrouted, At, Runs
<1> HIDE DEF v, c
<1>4. /\ served' \in Seq(Handler) /\ Len(served') = Len(served)
      /\ \A j \in 1..Len(served) : served'[j] = IF j = k THEN v ELSE served[j]
  BY <1>1, <1>2, <1>3, ExceptSeq
<1>5. /\ \A j \in 1..Len(served) :
           served'[j].client = served[j].client /\ served'[j].alone = served[j].alone
      /\ \A j \in 1..Len(served) : Runs(j)' => Runs(j) /\ j # k
  BY <1>2, <1>4 DEF Runs, c
<1>6. inbox \in [ClientIds -> Nat] /\ \A i \in ClientIds : inbox[i] <= Len(served)
  BY DEF ConnectionsInv, HandlersInv
<1>7. /\ inbox' \in [ClientIds -> Nat] /\ inbox'[c] = 0
      /\ \A i \in ClientIds : i # c => inbox'[i] = inbox[i]
  BY <1>2, <1>3, <1>6
<1>8. HandlersInv'
  BY <1>1, <1>3, <1>4, <1>6, <1>7 DEF ConnectionsInv, HandlersInv
<1>9. RouteInv'
  <2>1. \A i \in ClientIds : inbox'[i] # 0 => inbox'[i] = inbox[i] /\ inbox[i] \in 1..Len(served)
    BY <1>1, <1>6, <1>7
  <2> QED BY <1>4, <1>5, <2>1 DEF ConnectionsInv, RouteInv
<1>10. RoutedInv'
  <2> SUFFICES ASSUME NEW j \in 1..Len(served), Runs(j)', served'[j].alone
               PROVE  inbox'[served'[j].client] = j
    BY <1>4 DEF RoutedInv
  <2>1. Runs(j) /\ j # k /\ served[j].alone /\ served[j].client \in ClientIds
    BY <1>5, HandlersDomain DEF ConnectionsInv, Handler
  <2>2. served[j].client # c
    BY <1>3, <2>1 DEF ConnectionsInv, AloneInv, c
  <2>3. inbox[served[j].client] = j
    BY <2>1 DEF ConnectionsInv, RoutedInv
  <2> QED BY <1>5, <1>7, <2>1, <2>2, <2>3
<1>11. AloneInv'
  BY <1>4, <1>5 DEF ConnectionsInv, AloneInv
<1> QED BY <1>8, <1>9, <1>10, <1>11 DEF ConnectionsInv

\* A new handler takes the route of whatever handler its client had.
LEMMA HandleConnectionInv ==
  ASSUME ConnectionsInv, NEW i \in ClientIds, HandleConnection(i)
  PROVE  ConnectionsInv'
<1> DEFINE before == {k \in DOMAIN served : served[k].client = i /\ ~At(k, "gone")}
           old == [k \in DOMAIN served |->
                     IF k \in before THEN [served[k] EXCEPT !.alone = FALSE] ELSE served[k]]
           new == [client |-> i, at |-> "subscribing", peer |-> "alive",
                   reader |-> "reading", ping |-> "idle", pong |-> FALSE,
                   told |-> "nothing", alone |-> before = {}]
           n == Len(served)
<1>1. /\ n \in Nat /\ DOMAIN served = 1..n /\ \A k \in 1..n : served[k] \in Handler
      /\ inbox \in [ClientIds -> Nat] /\ \A j \in ClientIds : inbox[j] <= n
  BY HandlersDomain DEF ConnectionsInv, HandlersInv
<1>2. /\ old \in Seq(Handler) /\ Len(old) = n
      /\ \A k \in 1..n : old[k] = IF k \in before THEN [served[k] EXCEPT !.alone = FALSE]
                                  ELSE served[k]
  <2>1. \A k \in 1..n : (IF k \in before THEN [served[k] EXCEPT !.alone = FALSE]
                         ELSE served[k]) \in Handler
    BY <1>1 DEF Handler
  <2> HIDE DEF before, n
  <2> QED BY <1>1, <2>1
<1>3. new \in Handler
  BY DEF Handler
<1>4. /\ served' = Append(old, new) /\ inbox' = [inbox EXCEPT ![i] = Len(served')]
      /\ failures' = failures
  BY DEF HandleConnection
<1>5. \A k \in 1..n : k \in before <=> (served[k].client = i /\ Runs(k))
  BY <1>1 DEF Runs, At
<1>6. new.client = i /\ new.at = "subscribing" /\ (new.alone <=> before = {})
  OBVIOUS
<1> HIDE DEF old, new
<1>7. /\ served' \in Seq(Handler) /\ Len(served') = n + 1 /\ served'[n + 1] = new
      /\ \A k \in 1..n : served'[k] = old[k]
  BY <1>2, <1>3, <1>4, AppendProperties
<1>8. \A k \in 1..n :
        /\ served'[k].client = served[k].client
        /\ Runs(k)' <=> Runs(k)
        /\ served'[k].alone => served[k].alone /\ ~(served[k].client = i /\ Runs(k))
  <2> SUFFICES ASSUME NEW k \in 1..n
               PROVE  /\ served'[k].client = served[k].client
                      /\ Runs(k)' <=> Runs(k)
                      /\ served'[k].alone => served[k].alone /\ ~(served[k].client = i /\ Runs(k))
    OBVIOUS
  <2> HIDE DEF before, n
  <2>1. CASE k \in before
    <3>1. served'[k] = [served[k] EXCEPT !.alone = FALSE] /\ served[k] \in Handler
      BY <1>1, <1>2, <1>7, <2>1
    <3> QED BY <3>1 DEF Runs, Handler
  <2>2. CASE k \notin before
    <3>1. served'[k] = served[k]
      BY <1>2, <1>7, <2>2
    <3> QED BY <1>5, <2>2, <3>1 DEF Runs
  <2> QED BY <2>1, <2>2
<1>9. /\ inbox' \in [ClientIds -> Nat] /\ inbox'[i] = n + 1
      /\ \A j \in ClientIds : j # i => inbox'[j] = inbox[j]
  BY <1>1, <1>4, <1>7
<1>10. /\ served'[n + 1].client = i /\ served'[n + 1].at # "gone"
       /\ served'[n + 1].alone <=> before = {}
  <2> HIDE DEF before, n
  <2> QED BY <1>6, <1>7
<1>11. \A k \in 1..n + 1 : k \in 1..n \/ k = n + 1
  BY <1>1
<1>12. /\ \A j \in ClientIds : inbox[j] # 0 =>
            /\ inbox[j] \in 1..n /\ served[inbox[j]].client = j
            /\ \A k \in 1..n : served[k].client = j => k <= inbox[j]
       /\ \A k \in 1..n : Runs(k) /\ served[k].alone => inbox[served[k].client] = k
       /\ \A j, k \in 1..n :
            j # k /\ Runs(j) /\ Runs(k) /\ served[j].client = served[k].client => ~served[j].alone
  BY <1>1 DEF ConnectionsInv, RouteInv, RoutedInv, AloneInv
<1>13. \A k \in 1..n : served[k].client \in ClientIds
  BY <1>1 DEF Handler
<1> HIDE DEF n, before
<1>14. HandlersInv'
  <2>1. \A j \in ClientIds : inbox'[j] <= n + 1
    BY <1>1, <1>9
  <2> QED BY <1>4, <1>7, <1>9, <2>1 DEF ConnectionsInv, HandlersInv
<1>15. RouteInv'
  <2> SUFFICES ASSUME NEW j \in ClientIds, inbox'[j] # 0
               PROVE  /\ served'[inbox'[j]].client = j
                      /\ \A k \in 1..n + 1 : served'[k].client = j => k <= inbox'[j]
    BY <1>7 DEF RouteInv
  <2>1. CASE j = i
    <3>1. \A k \in 1..n + 1 : k <= inbox'[j]
      BY <1>1, <1>9, <2>1
    <3> QED BY <1>9, <1>10, <2>1, <3>1
  <2>2. CASE j # i
    BY <1>8, <1>9, <1>10, <1>11, <1>12, <2>2
  <2> QED BY <2>1, <2>2
<1>16. RoutedInv'
  <2> SUFFICES ASSUME NEW k \in 1..n + 1, Runs(k)', served'[k].alone
               PROVE  inbox'[served'[k].client] = k
    BY <1>7 DEF RoutedInv
  <2> QED BY <1>8, <1>9, <1>10, <1>11, <1>12, <1>13
<1>17. AloneInv'
  <2> SUFFICES ASSUME NEW j \in 1..n + 1, NEW k \in 1..n + 1, j # k, Runs(j)', Runs(k)',
                      served'[j].client = served'[k].client, served'[j].alone
               PROVE  FALSE
    BY <1>7 DEF AloneInv
  <2>1. CASE j \in 1..n /\ k \in 1..n
    BY <1>8, <1>12, <2>1
  <2>2. CASE j = n + 1 /\ k \in 1..n
    BY <1>5, <1>8, <1>10, <2>2
  <2>3. CASE j \in 1..n /\ k = n + 1
    BY <1>8, <1>10, <2>3
  <2> QED BY <1>11, <2>1, <2>2, <2>3
<1> QED BY <1>14, <1>15, <1>16, <1>17 DEF ConnectionsInv

\* Requests of the broker, which end well or not.
LEMMA RequestInv ==
  ASSUME ConnectionsInv, MaxFailures \in Nat, NEW k \in 1..Len(served),
         Subscribed(k) \/ Announced(k) \/ SendDisconnected(k) \/ Published(k)
  PROVE  ConnectionsInv'
<1>1. served[k] \in Handler /\ Runs(k) /\ inbox' = inbox
  BY HandlersDomain DEF ConnectionsInv, Subscribed, Announced, SendDisconnected, Published,
     At, Runs
<1>2. failures' \in 0..MaxFailures
  BY DEF ConnectionsInv, HandlersInv, Subscribed, Announced, SendDisconnected, Published,
     Succeed, Fail
<1>3. \E at \in {"subscribing", "announcing", "serving", "leaving", "unsubscribing", "gone"},
         told \in {"nothing", "connected", "disconnected"}, reader_ \in {"reading", "publishing"} :
        served' = [served EXCEPT ![k] = [served[k] EXCEPT !.at = at, !.told = told,
                                                          !.reader = reader_]]
  <2> DEFINE Turns(at, told, reader_) ==
        served' = [served EXCEPT ![k] = [served[k] EXCEPT !.at = at, !.told = told,
                                                          !.reader = reader_]]
  <2>1. served[k].told \in {"nothing", "connected", "disconnected"}
        /\ served[k].reader \in {"reading", "publishing"} /\ served \in Seq(Handler)
    BY <1>1, HandlersDomain DEF Handler, ConnectionsInv
  <2>2. CASE Subscribed(k)
    <3>1. Turns("announcing", served[k].told, served[k].reader)
          \/ Turns("gone", served[k].told, served[k].reader)
      BY <1>1, <2>2 DEF Subscribed, Handler
    <3> QED BY <2>1, <3>1
  <2>3. CASE Announced(k)
    <3>1. CASE served' = [served EXCEPT ![k].at = "serving", ![k].told = "connected"]
      <4>1. Turns("serving", "connected", served[k].reader)
        BY <1>1, <2>1, <3>1 DEF Handler
      <4> QED BY <2>1, <4>1
    <3>2. CASE \E told \in {"nothing", "connected"} :
                 served' = [served EXCEPT ![k].at = "gone", ![k].told = told]
      <4>1. PICK told \in {"nothing", "connected"} :
              served' = [served EXCEPT ![k].at = "gone", ![k].told = told]
        BY <3>2
      <4>2. Turns("gone", told, served[k].reader)
        BY <1>1, <2>1, <4>1 DEF Handler
      <4> QED BY <2>1, <4>2
    <3> QED BY <2>3, <3>1, <3>2 DEF Announced
  <2>4. CASE SendDisconnected(k)
    <3>1. Turns("unsubscribing", "disconnected", served[k].reader)
          \/ Turns("unsubscribing", served[k].told, served[k].reader)
      BY <1>1, <2>4 DEF SendDisconnected, Handler
    <3> QED BY <2>1, <3>1
  <2>5. CASE Published(k)
    <3>1. CASE served' = [served EXCEPT ![k].reader = "reading"]
      <4>1. Turns("serving", served[k].told, "reading")
        BY <1>1, <2>1, <2>5, <3>1 DEF Published, Handler, At
      <4> QED BY <2>1, <4>1
    <3>2. CASE served' = [served EXCEPT ![k] = Leaving(k)]
      <4>1. Turns("leaving", served[k].told, served[k].reader)
        BY <1>1, <2>1, <3>2 DEF Handler, Leaving
      <4> QED BY <2>1, <4>1
    <3> QED BY <2>5, <3>1, <3>2 DEF Published
  <2> QED BY <2>2, <2>3, <2>4, <2>5
<1>4. PICK at \in {"subscribing", "announcing", "serving", "leaving", "unsubscribing", "gone"},
           told \in {"nothing", "connected", "disconnected"},
           reader_ \in {"reading", "publishing"} :
        served' = [served EXCEPT ![k] = [served[k] EXCEPT !.at = at, !.told = told,
                                                          !.reader = reader_]]
  BY <1>3
<1> DEFINE v == [served[k] EXCEPT !.at = at, !.told = told, !.reader = reader_]
<1>5. v \in Handler /\ v.client = served[k].client /\ v.alone = served[k].alone
  BY <1>1 DEF Handler
<1>6. served' = [served EXCEPT ![k] = v]
  BY <1>4
<1> HIDE DEF v
<1> QED BY <1>1, <1>2, <1>5, <1>6, OneHandlerInv

\* What happens to a connection while it is served.
LEMMA ServingInv ==
  ASSUME ConnectionsInv, NEW k \in 1..Len(served), NEW v \in Handler, Serving(k, v),
         v.client = served[k].client, v.alone = served[k].alone
  PROVE  ConnectionsInv'
<1>1. Runs(k) /\ served' = [served EXCEPT ![k] = v] /\ inbox' = inbox
      /\ failures' \in 0..MaxFailures
  BY DEF Serving, At, Runs, ConnectionsInv, HandlersInv
<1> QED BY <1>1, OneHandlerInv

LEMMA ConnectedInv ==
  ASSUME ConnectionsInv, NEW k \in 1..Len(served),
         \/ ReadFails(k) \/ SendPing(k) \/ WaitForPong(k) \/ HandlePong(k) \/ PongTimeout(k)
         \/ PeerEnds(k) \/ HandleSignal(k)
  PROVE  ConnectionsInv'
<1>1. served[k] \in Handler
  BY HandlersDomain DEF ConnectionsInv
<1>2. \A at \in {"serving", "leaving"} : 
        LET v == [served[k] EXCEPT !.at = at] IN
        v \in Handler /\ v.client = served[k].client /\ v.alone = served[k].alone
  BY <1>1 DEF Handler
<1>3. CASE ReadFails(k) \/ PongTimeout(k)
  <2>1. Serving(k, Leaving(k))
    BY <1>3 DEF ReadFails, PongTimeout
  <2> QED BY <1>2, <2>1, ServingInv DEF Leaving
<1>4. CASE PeerEnds(k)
  <2>1. PICK p \in {"silent", "closed"} : Serving(k, [served[k] EXCEPT !.peer = p])
    BY <1>4 DEF PeerEnds
  <2> DEFINE v == [served[k] EXCEPT !.peer = p]
  <2>2. v \in Handler /\ v.client = served[k].client /\ v.alone = served[k].alone
    BY <1>1 DEF Handler
  <2> QED BY <2>1, <2>2, ServingInv
<1>5. CASE HandleSignal(k)
  <2> DEFINE v == [served[k] EXCEPT !.reader = "publishing"]
  <2>1. v \in Handler /\ v.client = served[k].client /\ v.alone = served[k].alone
    BY <1>1 DEF Handler
  <2> QED BY <1>5, <2>1, ServingInv DEF HandleSignal
<1>6. CASE SendPing(k)
  <2> DEFINE v == [served[k] EXCEPT !.ping = "sent", !.pong = served[k].peer = "alive"]
  <2>1. v \in Handler /\ v.client = served[k].client /\ v.alone = served[k].alone
    BY <1>1 DEF Handler
  <2>2. CASE served[k].peer = "closed"
    <3>1. Serving(k, Leaving(k))
      BY <1>6, <2>2 DEF SendPing
    <3> QED BY <1>2, <3>1, ServingInv DEF Leaving
  <2>3. CASE served[k].peer # "closed"
    <3>1. Serving(k, v)
      BY <1>6, <2>3 DEF SendPing
    <3> QED BY <2>1, <3>1, ServingInv
  <2> QED BY <2>2, <2>3
<1>7. CASE WaitForPong(k)
  <2> DEFINE v == [served[k] EXCEPT !.ping = "waiting"]
  <2>1. v \in Handler /\ v.client = served[k].client /\ v.alone = served[k].alone
    BY <1>1 DEF Handler
  <2> QED BY <1>7, <2>1, ServingInv DEF WaitForPong
<1>8. CASE HandlePong(k)
  <2> DEFINE v == [served[k] EXCEPT !.pong = FALSE,
                                    !.ping = IF @ = "waiting" THEN "idle" ELSE @]
  <2>1. v \in Handler /\ v.client = served[k].client /\ v.alone = served[k].alone
    BY <1>1 DEF Handler
  <2> QED BY <1>8, <2>1, ServingInv DEF HandlePong
<1> QED BY <1>3, <1>4, <1>5, <1>6, <1>7, <1>8

(***************************************************************************)
(* The handlers, the routes and the failures, always.                      *)
(***************************************************************************)
THEOREM ConnectionsInvariance ==
  ASSUME MaxFailures \in Nat PROVE ConnectionsSpec => []ConnectionsInv
<1>1. ConnectionsInv /\ [ConnectionsNext]_connectionVars => ConnectionsInv'
  <2> SUFFICES ASSUME ConnectionsInv, [ConnectionsNext]_connectionVars PROVE ConnectionsInv'
    OBVIOUS
  <2>1. DOMAIN served = 1..Len(served)
    BY HandlersDomain DEF ConnectionsInv
  <2>2. CASE ConnectionsNext
    BY <2>1, <2>2, HandleConnectionInv, RequestInv, UnsubscribeInv, ConnectedInv
       DEF ConnectionsNext, ConnectionSteps
  <2>3. CASE UNCHANGED connectionVars
    BY <2>3 DEF connectionVars, ConnectionsInv, HandlersInv, RouteInv, RoutedInv, AloneInv, Runs
  <2> QED BY <2>2, <2>3
<1> QED BY ConnectionsInitInv, <1>1, PTL DEF ConnectionsSpec

(***************************************************************************)
(* HandleConnection keeps its types: a route is that of a handler, and the *)
(* broker fails no more often than the bound says.                         *)
(***************************************************************************)
THEOREM ConnectionsTypeCorrect ==
  ASSUME MaxFailures \in Nat PROVE ConnectionsSpec => []ConnectionsTypeOK
<1>1. ConnectionsInv => ConnectionsTypeOK
  <2> SUFFICES ASSUME ConnectionsInv PROVE ConnectionsTypeOK
    OBVIOUS
  <2>1. inbox \in [ClientIds -> 0..Len(served)]
    BY HandlersDomain DEF ConnectionsInv, HandlersInv
  <2>2. DOMAIN served = 1..Len(served) /\ \A k \in 1..Len(served) : served[k] \in Handler
    BY HandlersDomain DEF ConnectionsInv
  <2> QED BY <2>1, <2>2 DEF ConnectionsInv, HandlersInv, ConnectionsTypeOK, Handler
<1> QED BY ConnectionsInvariance, <1>1, PTL

(***************************************************************************)
(* HandleConnection: what arrives for a client goes to its last connection *)
(* or to none, and a client that has one connection is served.             *)
(***************************************************************************)
THEOREM OnlyConnectionIsServed ==
  ASSUME MaxFailures \in Nat PROVE ConnectionsSpec => []ConnectionsAreServed
<1>1. ConnectionsInv => ConnectionsAreServed
  <2> SUFFICES ASSUME ConnectionsInv, NEW k \in 1..Len(served)
               PROVE  /\ \A j \in 1..k - 1 : served[j].client = served[k].client
                                               => inbox[served[k].client] # j
                      /\ At(k, "serving") /\ served[k].alone => inbox[served[k].client] = k
    BY HandlersDomain DEF ConnectionsInv, ConnectionsAreServed
  <2>1. served[k].client \in ClientIds /\ inbox[served[k].client] \in Nat
    BY HandlersDomain DEF ConnectionsInv, HandlersInv, Handler
  <2>2. inbox[served[k].client] # 0 => k <= inbox[served[k].client]
    BY <2>1 DEF ConnectionsInv, RouteInv
  <2>3. At(k, "serving") /\ served[k].alone => inbox[served[k].client] = k
    BY DEF ConnectionsInv, RoutedInv, Runs, At
  <2>4. \A j \in 1..k - 1 : j # 0 /\ ~(k <= j)
    OBVIOUS
  <2> QED BY <2>2, <2>3, <2>4
<1> QED BY ConnectionsInvariance, <1>1, PTL

-----------------------------------------------------------------------------
(***************************************************************************)
(* The stream of events of an account                                      *)
(***************************************************************************)

Whose == {"own", "other", "server"}

StreamInv ==
  /\ appended \in Seq(Whose) /\ Len(appended) <= MaxAppended
  /\ fromCursor \in 0..1
  /\ reader \in [pc : {"reading", "sending", "ended"}, at : Nat] /\ fromCursor <= reader.at
  /\ reader.at = fromCursor \/ reader.at <= Len(appended)
  /\ handler \in {"serving", "returned"} /\ open \in BOOLEAN
  /\ written \in Seq(Nat)

OwnInv == StreamInv /\ StreamIsOwn

LEMMA StreamInitInv == ASSUME MaxAppended \in Nat, StreamInit PROVE OwnInv
<1>1. appended \in Seq(Whose) /\ Len(appended) = 0 /\ written \in Seq(Nat) /\ Len(written) = 0
  BY EmptySeq DEF StreamInit
<1>2. /\ fromCursor \in 0..1 /\ reader = [pc |-> "reading", at |-> fromCursor]
      /\ handler = "serving" /\ open = TRUE
  BY DEF StreamInit
<1>3. StreamInv
  BY <1>1, <1>2 DEF StreamInv
<1>4. Len(Given) = 0
  BY <1>1, <1>2 DEF Given
<1>5. \A n \in 1..reader.at : ~IsOwn(n)
  BY <1>2 DEF IsOwn
<1>6. StreamIsOwn
  BY <1>4, <1>5 DEF StreamIsOwn
<1> QED BY <1>3, <1>6 DEF OwnInv

\* What was there stays as it was read.
LEMMA AppendEventInv == ASSUME MaxAppended \in Nat, OwnInv, AppendEvent PROVE OwnInv'
<1>1. PICK w \in Whose : appended' = Append(appended, w)
  BY DEF AppendEvent, Whose
<1>2. /\ appended \in Seq(Whose) /\ Len(appended) \in Nat /\ Len(appended) < MaxAppended
      /\ UNCHANGED <<fromCursor, reader, handler, open, written>>
  BY LenProperties DEF OwnInv, StreamInv, AppendEvent
<1>3. /\ appended' \in Seq(Whose) /\ Len(appended') = Len(appended) + 1
      /\ \A n \in 1..Len(appended) : appended'[n] = appended[n]
  BY <1>1, <1>2, AppendProperties
<1>4. Len(appended) + 1 <= MaxAppended
  BY <1>2
<1>5. \A n \in 1..reader.at : n > fromCursor => n \in 1..Len(appended)
  BY <1>2 DEF OwnInv, StreamInv
<1>6. \A n \in 1..reader.at : IsOwn(n)' <=> IsOwn(n)
  BY <1>2, <1>3, <1>5 DEF IsOwn
<1>7. Given' = Given
  BY <1>2 DEF Given
<1>8. StreamIsOwn'
  BY <1>2, <1>6, <1>7 DEF OwnInv, StreamIsOwn
<1>9. StreamInv'
  BY <1>2, <1>3, <1>4 DEF OwnInv, StreamInv
<1> QED BY <1>8, <1>9 DEF OwnInv

\* The event that is read comes last, if it is the account's.
LEMMA ReadEventInv == ASSUME OwnInv, ReadEvent PROVE OwnInv'
<1> DEFINE at == reader.at
           own == appended[at + 1] # "other"
<1>1. /\ appended \in Seq(Whose) /\ at \in Nat /\ fromCursor \in 0..1 /\ fromCursor <= at
      /\ written \in Seq(Nat) /\ Len(written) \in Nat /\ Len(appended) \in Nat
  BY LenProperties DEF OwnInv, StreamInv
<1>2. /\ reader.pc = "reading" /\ at < Len(appended)
      /\ reader' = [pc |-> IF own THEN "sending" ELSE "reading", at |-> at + 1]
      /\ UNCHANGED <<appended, fromCursor, handler, open, written>>
  BY DEF ReadEvent, ShouldSkipEvent
<1>3. Given = written
  BY <1>2 DEF Given
<1>4. Given' = IF own THEN Append(written, at + 1) ELSE written
  BY <1>2 DEF Given
<1>5. /\ \A j, k \in 1..Len(written) : j < k => written[j] < written[k]
      /\ {written[k] : k \in 1..Len(written)} = {n \in 1..at : IsOwn(n)}
  BY <1>3 DEF OwnInv, StreamIsOwn
<1>6. \A n \in 1..at + 1 : IsOwn(n)' <=> IsOwn(n)
  BY <1>2 DEF IsOwn
<1>7. IsOwn(at + 1) <=> own
  BY <1>1 DEF IsOwn
<1>8. reader' \in [pc : {"reading", "sending", "ended"}, at : Nat] /\ reader'.at = at + 1
      /\ fromCursor <= at + 1 /\ at + 1 <= Len(appended)
  BY <1>1, <1>2
<1>9. StreamInv'
  BY <1>1, <1>2, <1>8 DEF OwnInv, StreamInv
<1> HIDE DEF at, own
<1>10. {n \in 1..at + 1 : IsOwn(n)} = {n \in 1..at : IsOwn(n)} \cup {n \in {at + 1} : IsOwn(n)}
  BY <1>1
<1>11. CASE own
  <2>1. /\ Len(Given') = Len(written) + 1 /\ Given'[Len(written) + 1] = at + 1
        /\ \A k \in 1..Len(written) : Given'[k] = written[k]
    BY <1>1, <1>4, <1>11, AppendProperties
  <2>2. \A k \in 1..Len(written) : written[k] \in 1..at
    BY <1>5
  <2>3. \A j, k \in 1..Len(written) + 1 : j < k => Given'[j] < Given'[k]
    <3>1. PICK m \in Nat : m = Len(written)
      BY <1>1
    <3>2. PICK c \in Nat : c = at
      BY <1>1
    <3> SUFFICES ASSUME NEW j \in 1..m + 1, NEW k \in 1..m + 1, j < k PROVE Given'[j] < Given'[k]
      BY <3>1
    <3>3. j \in 1..m /\ Given'[j] = written[j] /\ written[j] \in 1..c
      BY <2>1, <2>2, <3>1, <3>2
    <3>4. CASE k = m + 1
      BY <2>1, <3>1, <3>2, <3>3, <3>4
    <3>5. CASE k # m + 1
      <4>1. k \in 1..m /\ Given'[k] = written[k]
        BY <2>1, <3>1, <3>5
      <4> QED BY <1>5, <3>1, <3>3, <4>1
    <3> QED BY <3>4, <3>5
  <2>4. {Given'[k] : k \in 1..Len(written) + 1} = {written[k] : k \in 1..Len(written)} \cup {at + 1}
    BY <1>1, <2>1
  <2>5. {Given'[k] : k \in 1..Len(written) + 1} = {n \in 1..at + 1 : IsOwn(n)}
    BY <1>5, <1>7, <1>10, <1>11, <2>4
  <2>6. {n \in 1..at + 1 : IsOwn(n)} = {n \in 1..reader'.at : IsOwn(n)'}
    BY <1>6, <1>8
  <2> QED BY <1>9, <2>1, <2>3, <2>5, <2>6 DEF OwnInv, StreamIsOwn
<1>12. CASE ~own
  <2>1. {n \in 1..at + 1 : IsOwn(n)} = {n \in 1..at : IsOwn(n)}
    BY <1>7, <1>10, <1>12
  <2>2. {n \in 1..at + 1 : IsOwn(n)} = {n \in 1..reader'.at : IsOwn(n)'}
    BY <1>6, <1>8
  <2>3. Given' = written
    BY <1>4, <1>12
  <2> QED BY <1>5, <1>9, <2>1, <2>2, <2>3 DEF OwnInv, StreamIsOwn
<1> QED BY <1>11, <1>12

\* The others give the client neither more nor less.
LEMMA SameGiven ==
  ASSUME OwnInv, StreamInv', Given' = Given, reader'.at = reader.at,
         UNCHANGED <<appended, fromCursor>>
  PROVE  OwnInv'
<1>1. \A n \in 1..reader.at : IsOwn(n)' <=> IsOwn(n)
  BY DEF IsOwn
<1> QED BY <1>1 DEF OwnInv, StreamIsOwn

LEMMA WriteEventInv == ASSUME OwnInv, WriteEvent PROVE OwnInv'
<1>1. /\ reader \in [pc : {"reading", "sending", "ended"}, at : Nat] /\ reader.pc = "sending"
      /\ written \in Seq(Nat) /\ written' = Append(written, reader.at)
      /\ reader' = [reader EXCEPT !.pc = "reading"]
      /\ UNCHANGED <<appended, fromCursor, handler, open>>
  BY DEF OwnInv, StreamInv, WriteEvent
<1>2. /\ reader' \in [pc : {"reading", "sending", "ended"}, at : Nat]
      /\ reader'.at = reader.at /\ reader'.pc = "reading"
  BY <1>1
<1>3. written' \in Seq(Nat)
  BY <1>1, <1>2, AppendProperties
<1>4. Given' = Given
  BY <1>1, <1>2 DEF Given
<1>5. StreamInv'
  BY <1>1, <1>2, <1>3 DEF OwnInv, StreamInv
<1> QED BY <1>1, <1>2, <1>4, <1>5, SameGiven

LEMMA StreamEndsInv ==
  ASSUME OwnInv, ReaderEnds \/ HandlerReturns \/ CloseRequest
  PROVE  OwnInv'
<1>1. reader \in [pc : {"reading", "sending", "ended"}, at : Nat]
  BY DEF OwnInv, StreamInv
<1>2. /\ reader' = reader \/ (reader.pc = "reading" /\ reader' = [reader EXCEPT !.pc = "ended"])
      /\ handler' \in {"serving", "returned"} /\ open' \in BOOLEAN
      /\ UNCHANGED <<appended, fromCursor, written>>
  BY DEF OwnInv, StreamInv, ReaderEnds, HandlerReturns, CloseRequest
<1>3. /\ reader' \in [pc : {"reading", "sending", "ended"}, at : Nat]
      /\ reader'.at = reader.at /\ (reader'.pc = "sending" <=> reader.pc = "sending")
  BY <1>1, <1>2
<1>4. Given' = Given
  BY <1>2, <1>3 DEF Given
<1>5. StreamInv'
  BY <1>2, <1>3 DEF OwnInv, StreamInv
<1> QED BY <1>2, <1>3, <1>4, <1>5, SameGiven

LEMMA StreamNextInv ==
  ASSUME MaxAppended \in Nat, OwnInv, [StreamNext]_streamVars
  PROVE  OwnInv'
<1>1. CASE StreamNext
  BY <1>1, AppendEventInv, ReadEventInv, WriteEventInv, StreamEndsInv DEF StreamNext, Goroutines
<1>2. CASE UNCHANGED streamVars
  <2>1. StreamInv' /\ Given' = Given
    BY <1>2 DEF streamVars, OwnInv, StreamInv, Given
  <2> QED BY <1>2, <2>1, SameGiven DEF streamVars
<1> QED BY <1>1, <1>2

(***************************************************************************)
(* GetEvents keeps its types: the goroutine is never beyond the log,       *)
(* unless the cursor it was given is.                                      *)
(***************************************************************************)
THEOREM StreamTypeCorrect == ASSUME MaxAppended \in Nat PROVE StreamSpec => []StreamTypeOK
<1>1. OwnInv => StreamTypeOK
  <2> SUFFICES ASSUME OwnInv PROVE StreamTypeOK
    OBVIOUS
  <2>1. Len(appended) \in Nat
    BY LenProperties DEF OwnInv, StreamInv
  <2>2. reader.at \in fromCursor..MaxAppended + 1
    BY <2>1 DEF OwnInv, StreamInv
  <2> QED BY <2>2 DEF OwnInv, StreamInv, StreamTypeOK, Whose
<1> QED BY StreamInitInv, StreamNextInv, <1>1, PTL DEF StreamSpec

(***************************************************************************)
(* GetEvents: the client is sent the events of its account and the starts  *)
(* of the server after its cursor, in order, none twice and none left out. *)
(***************************************************************************)
THEOREM StreamOwn == ASSUME MaxAppended \in Nat PROVE StreamSpec => []StreamIsOwn
<1>1. OwnInv => StreamIsOwn
  BY DEF OwnInv
<1> QED BY StreamInitInv, StreamNextInv, <1>1, PTL DEF StreamSpec

-----------------------------------------------------------------------------
(***************************************************************************)
(* The subscriptions of the frontend                                       *)
(***************************************************************************)

\* The open subscriptions of a filter.
OpenOf(f) == {s \in entries : opened[s] = f}

EntriesInv ==
  /\ opened \in Seq(TopicFilters) /\ entries \subseteq 1..Len(opened)
  /\ counts \in [TopicFilters -> Nat]
  /\ \A f \in TopicFilters : counts[f] = Cardinality(OpenOf(f))

\* Where the dispatch is: behind the last one that it called.
DispatchInv ==
  /\ dispatch = [topic |-> dispatch.topic, at |-> dispatch.at]
  /\ dispatch.at \in 0..Len(opened)
  /\ called \in Seq(Nat) /\ present \subseteq entries /\ stray = FALSE
  /\ \A k \in 1..Len(called) : called[k] <= dispatch.at
  /\ dispatch = Idle => called = <<>>

\* The two parts of OpenAreCalled that are about the message under way.
CalledInOrder == \A j, k \in 1..Len(called) : j < k => called[j] < called[k]
Passed(s) == s <= dispatch.at /\ opened[s] \in Matching[dispatch.topic]
NoneLeftOut ==
  dispatch # Idle => \A s \in present : Passed(s) => \E k \in 1..Len(called) : called[k] = s

SubscriptionsInv == EntriesInv /\ DispatchInv /\ CalledInOrder /\ NoneLeftOut

LEMMA OpenedDomain ==
  ASSUME EntriesInv
  PROVE  /\ Len(opened) \in Nat /\ opened \in Seq(TopicFilters)
         /\ \A s \in 1..Len(opened) : opened[s] \in TopicFilters
         /\ IsFiniteSet(entries) /\ \A f : IsFiniteSet(OpenOf(f))
<1>1. Len(opened) \in Nat /\ opened \in Seq(TopicFilters)
      /\ \A s \in 1..Len(opened) : opened[s] \in TopicFilters
  BY LenProperties, ElementOfSeq DEF EntriesInv
<1>2. IsFiniteSet(1..Len(opened))
  BY <1>1, FS_Interval
<1>3. IsFiniteSet(entries)
  BY <1>2, FS_Subset DEF EntriesInv
<1>4. ASSUME NEW f PROVE IsFiniteSet(OpenOf(f))
  <2>1. OpenOf(f) \subseteq entries
    BY DEF OpenOf
  <2> QED BY <1>3, <2>1, FS_Subset
<1> QED BY <1>1, <1>3, <1>4

LEMMA IdleIsAtZero == Idle.at = 0 /\ Idle = [topic |-> Idle.topic, at |-> 0]
<1>1. Idle.at = 0
  BY Zenon DEF Idle
<1>2. Idle.topic = ""
  BY Zenon DEF Idle
<1>3. Idle = [topic |-> Idle.topic, at |-> 0]
  BY Zenon, <1>2 DEF Idle
<1> QED BY <1>1, <1>3

LEMMA SubscriptionsInitInv == SubscriptionsInit => SubscriptionsInv
<1> SUFFICES ASSUME SubscriptionsInit PROVE SubscriptionsInv
  OBVIOUS
<1>1. /\ opened \in Seq(TopicFilters) /\ Len(opened) = 0 /\ entries = {} /\ present = {}
      /\ called \in Seq(Nat) /\ Len(called) = 0 /\ called = <<>>
      /\ counts = [f \in TopicFilters |-> 0] /\ dispatch = Idle /\ stray = FALSE
  BY EmptySeq DEF SubscriptionsInit
<1>2. \A f \in TopicFilters : OpenOf(f) = {}
  BY <1>1 DEF OpenOf
<1>3. \A f \in TopicFilters : counts[f] = Cardinality(OpenOf(f))
  BY <1>1, <1>2, FS_EmptySet
<1>4. EntriesInv
  BY <1>1, <1>3 DEF EntriesInv
<1>5. DispatchInv
  BY <1>1, IdleIsAtZero DEF DispatchInv
<1>6. CalledInOrder /\ NoneLeftOut
  BY <1>1 DEF CalledInOrder, NoneLeftOut
<1> QED BY <1>4, <1>5, <1>6 DEF SubscriptionsInv

\* A new one is counted, or changes neither the counts nor the map.
LEMMA SubscribeInv ==
  ASSUME SubscriptionsInv, NEW f \in TopicFilters, SubscribeWithCallback(f)
  PROVE  SubscriptionsInv'
<1> DEFINE n == Len(opened)
<1>1. EntriesInv /\ DispatchInv /\ CalledInOrder /\ NoneLeftOut
  BY DEF SubscriptionsInv
<1>2. /\ opened' = Append(opened, f) /\ n \in Nat /\ opened \in Seq(TopicFilters)
      /\ UNCHANGED <<dispatch, present, called, stray>>
  BY <1>1, OpenedDomain DEF SubscribeWithCallback
<1>3. /\ opened' \in Seq(TopicFilters) /\ Len(opened') = n + 1 /\ opened'[n + 1] = f
      /\ \A s \in 1..n : opened'[s] = opened[s]
  BY <1>2, AppendProperties
<1>4. /\ entries \subseteq 1..n /\ counts \in [TopicFilters -> Nat]
      /\ \A g \in TopicFilters : counts[g] = Cardinality(OpenOf(g)) /\ IsFiniteSet(OpenOf(g))
  BY <1>1, OpenedDomain DEF EntriesInv
<1>5. \/ UNCHANGED <<counts, entries>>
      \/ counts' = [counts EXCEPT ![f] = counts[f] + 1] /\ entries' = entries \cup {n + 1}
  BY <1>3 DEF SubscribeWithCallback
<1> HIDE DEF n
<1>6. EntriesInv'
  <2>1. CASE UNCHANGED <<counts, entries>>
    <3>1. \A g \in TopicFilters : OpenOf(g)' = OpenOf(g)
      BY <1>3, <1>4, <2>1 DEF OpenOf
    <3>2. entries' \subseteq 1..n + 1
      BY <1>2, <1>4, <2>1
    <3> QED BY <1>3, <1>4, <2>1, <3>1, <3>2 DEF EntriesInv
  <2>2. CASE counts' = [counts EXCEPT ![f] = counts[f] + 1] /\ entries' = entries \cup {n + 1}
    <3>1. n + 1 \notin entries /\ entries' \subseteq 1..n + 1
      BY <1>2, <1>4, <2>2
    <3>2. OpenOf(f)' = OpenOf(f) \cup {n + 1} /\ n + 1 \notin OpenOf(f)
      BY <1>3, <1>4, <2>2, <3>1 DEF OpenOf
    <3>3. \A g \in TopicFilters : g # f => OpenOf(g)' = OpenOf(g)
      BY <1>3, <1>4, <2>2, <3>1 DEF OpenOf
    <3>4. Cardinality(OpenOf(f)') = Cardinality(OpenOf(f)) + 1
      BY <1>4, <3>2, FS_AddElement
    <3>5. counts' \in [TopicFilters -> Nat] /\ counts'[f] = counts[f] + 1
          /\ \A g \in TopicFilters : g # f => counts'[g] = counts[g]
      BY <1>4, <2>2
    <3>6. \A g \in TopicFilters : counts'[g] = Cardinality(OpenOf(g)')
      BY <1>4, <3>3, <3>4, <3>5
    <3> QED BY <1>3, <3>1, <3>5, <3>6 DEF EntriesInv
  <2> QED BY <1>5, <2>1, <2>2
<1>7. DispatchInv'
  <2>1. dispatch.at \in 0..n + 1
    BY <1>1, <1>2 DEF DispatchInv, n
  <2>2. present \subseteq entries'
    BY <1>1, <1>5 DEF DispatchInv
  <2> QED BY <1>1, <1>2, <1>3, <2>1, <2>2 DEF DispatchInv
<1>8. CalledInOrder'
  BY <1>1, <1>2 DEF CalledInOrder
<1>9. NoneLeftOut'
  <2>1. \A s \in present : opened'[s] = opened[s]
    BY <1>1, <1>3, <1>4 DEF DispatchInv
  <2> QED BY <1>1, <1>2, <2>1 DEF NoneLeftOut, Passed
<1> QED BY <1>6, <1>7, <1>8, <1>9 DEF SubscriptionsInv

LEMMA CloseInv ==
  ASSUME SubscriptionsInv, NEW c \in entries, CloseSubscription(c)
  PROVE  SubscriptionsInv'
<1>1. EntriesInv /\ DispatchInv /\ CalledInOrder /\ NoneLeftOut
  BY DEF SubscriptionsInv
<1> PICK f : f = opened[c]
  OBVIOUS
<1>2. /\ entries' = entries \ {c} /\ counts' = [counts EXCEPT ![f] = counts[f] - 1]
      /\ present' = present \ {c} /\ UNCHANGED <<opened, dispatch, called, stray>>
  BY DEF CloseSubscription, DecrementRefCount
<1>3. /\ entries \subseteq 1..Len(opened) /\ counts \in [TopicFilters -> Nat]
      /\ \A g \in TopicFilters : counts[g] = Cardinality(OpenOf(g)) /\ IsFiniteSet(OpenOf(g))
  BY <1>1, OpenedDomain DEF EntriesInv
<1>4. f \in TopicFilters /\ c \in OpenOf(f)
  BY <1>1, <1>3, OpenedDomain DEF OpenOf
<1>5. OpenOf(f)' = OpenOf(f) \ {c} /\ \A g \in TopicFilters : g # f => OpenOf(g)' = OpenOf(g)
  BY <1>2 DEF OpenOf
<1>6. Cardinality(OpenOf(f)') = Cardinality(OpenOf(f)) - 1
      /\ Cardinality(OpenOf(f)') \in Nat
  <2>1. IsFiniteSet(OpenOf(f)) /\ IsFiniteSet(OpenOf(f)')
    BY <1>3, <1>4, <1>5, FS_Subset
  <2>2. Cardinality(OpenOf(f)') = Cardinality(OpenOf(f)) - 1
    BY <1>4, <1>5, <2>1, FS_RemoveElement
  <2> QED BY <2>1, <2>2, FS_CardinalityType
<1>7. counts'[f] = counts[f] - 1
      /\ \A g \in TopicFilters : g # f => counts'[g] = counts[g]
  BY <1>2, <1>3, <1>4
<1>8. counts' \in [TopicFilters -> Nat]
  <2>1. counts[f] - 1 \in Nat
    BY <1>3, <1>4, <1>6
  <2> QED BY <1>2, <1>3, <2>1
<1>9. \A g \in TopicFilters : counts'[g] = Cardinality(OpenOf(g)')
  <2>1. counts'[f] = Cardinality(OpenOf(f)')
    BY <1>3, <1>4, <1>6, <1>7
  <2>2. \A g \in TopicFilters : g # f => counts'[g] = Cardinality(OpenOf(g)')
    BY <1>3, <1>5, <1>7
  <2> QED BY <2>1, <2>2
<1>10. EntriesInv'
  BY <1>1, <1>2, <1>8, <1>9 DEF EntriesInv
<1>11. DispatchInv'
  BY <1>1, <1>2 DEF DispatchInv
<1>12. CalledInOrder' /\ NoneLeftOut'
  BY <1>1, <1>2 DEF CalledInOrder, NoneLeftOut, Passed
<1> QED BY <1>10, <1>11, <1>12 DEF SubscriptionsInv

LEMMA HandleMessageInv ==
  ASSUME SubscriptionsInv, NEW topic \in DOMAIN Matching, HandleMessage(topic)
  PROVE  SubscriptionsInv'
<1>1. EntriesInv /\ DispatchInv /\ CalledInOrder /\ NoneLeftOut
  BY DEF SubscriptionsInv
<1>2. /\ dispatch' = [topic |-> topic, at |-> 0] /\ present' = entries /\ called = <<>>
      /\ UNCHANGED <<opened, entries, counts, called, stray>>
  BY <1>1 DEF HandleMessage, DispatchInv
<1>3. called \in Seq(Nat) /\ Len(called) = 0 /\ Len(opened) \in Nat
      /\ entries \subseteq 1..Len(opened)
  BY <1>1, <1>2, EmptySeq, OpenedDomain DEF EntriesInv
<1>4. dispatch'.at = 0 /\ dispatch'.topic = topic /\ 0 \in 0..Len(opened)
  BY <1>2, <1>3
<1>5. EntriesInv'
  BY <1>1, <1>2 DEF EntriesInv, OpenOf
<1>6. DispatchInv'
  BY <1>1, <1>2, <1>3, <1>4 DEF DispatchInv
<1>7. CalledInOrder'
  BY <1>2, <1>3 DEF CalledInOrder
<1>8. NoneLeftOut'
  <2>1. \A s \in entries : ~(s <= 0)
    BY <1>3
  <2> QED BY <1>2, <1>4, <2>1 DEF NoneLeftOut, Passed
<1> QED BY <1>5, <1>6, <1>7, <1>8 DEF SubscriptionsInv

\* Whatever is between the last one called and this one does not listen.
LEMMA CallInv ==
  ASSUME SubscriptionsInv, CallSubscription
  PROVE  SubscriptionsInv'
<1>1. EntriesInv /\ DispatchInv /\ CalledInOrder /\ NoneLeftOut
  BY DEF SubscriptionsInv
<1>2. PICK s \in Listening :
        /\ \A t \in Listening : s <= t
        /\ dispatch' = [dispatch EXCEPT !.at = s]
        /\ called' = Append(called, s) /\ stray' = (stray \/ s \notin entries)
        /\ dispatch # Idle /\ UNCHANGED <<accepts, opened, entries, counts, present>>
  BY DEF CallSubscription
<1> DEFINE n == Len(called)
           topic == dispatch.topic
           at == dispatch.at
<1>3. /\ s \in entries /\ s > at /\ entries \subseteq 1..Len(opened) /\ Len(opened) \in Nat
      /\ at \in Nat /\ called \in Seq(Nat) /\ n \in Nat
  BY <1>1, OpenedDomain, LenProperties DEF Listening, Listens, EntriesInv, DispatchInv
<1>4. /\ called' \in Seq(Nat) /\ Len(called') = n + 1 /\ called'[n + 1] = s
      /\ \A k \in 1..n : called'[k] = called[k] /\ called[k] \in Nat
  BY <1>2, <1>3, AppendProperties, ElementOfSeq
<1>5. dispatch = [topic |-> topic, at |-> at]
  BY <1>1 DEF DispatchInv
<1> HIDE DEF n, topic, at
<1>6. dispatch' = [topic |-> topic, at |-> s] /\ dispatch'.topic = topic /\ dispatch'.at = s
  BY <1>2, <1>5
<1>7. dispatch' # Idle
  BY <1>3, <1>6, IdleIsAtZero
<1>8. \A k \in 1..n : called[k] <= at
  BY <1>1 DEF DispatchInv, n, at
<1>9. \A k \in 1..n + 1 : k \in 1..n \/ k = n + 1
  BY <1>3
<1>10. EntriesInv'
  BY <1>1, <1>2 DEF EntriesInv, OpenOf
<1>11. DispatchInv'
  <2>1. \A k \in 1..n + 1 : called'[k] <= s
    <3>1. s \in Nat
      BY <1>3
    <3>2. at \in Nat /\ at < s
      BY <1>3
    <3>3. ASSUME NEW k \in 1..n PROVE called'[k] <= s
      <4>1. called'[k] = called[k] /\ called[k] \in Nat /\ called[k] <= at
        BY <1>4, <1>8
      <4>2. PICK c \in Nat : called[k] = c /\ c <= at
        BY <4>1
      <4>3. c <= s
        BY <3>1, <3>2, <4>2
      <4> QED BY <4>1, <4>2, <4>3
    <3> QED BY <1>4, <1>9, <3>1, <3>3
  <2>2. s \in 0..Len(opened)
    BY <1>3
  <2>3. stray' = FALSE /\ present' \subseteq entries'
    BY <1>1, <1>2, <1>3 DEF DispatchInv
  <2> QED BY <1>2, <1>4, <1>6, <1>7, <2>1, <2>2, <2>3 DEF DispatchInv
<1>12. CalledInOrder'
  <2> SUFFICES ASSUME NEW j \in 1..n + 1, NEW k \in 1..n + 1, j < k
               PROVE  called'[j] < called'[k]
    BY <1>4 DEF CalledInOrder
  <2>1. j \in 1..n
    BY <1>3
  <2>2. CASE k \in 1..n
    BY <1>1, <1>4, <2>1, <2>2 DEF CalledInOrder, n
  <2>3. CASE k = n + 1
    BY <1>3, <1>4, <1>8, <2>1, <2>3
  <2> QED BY <1>9, <2>2, <2>3
<1>13. NoneLeftOut'
  <2> SUFFICES ASSUME NEW t \in present, t <= s, opened[t] \in Matching[topic]
               PROVE  \E k \in 1..n + 1 : called'[k] = t
    BY <1>2, <1>4, <1>6 DEF NoneLeftOut, Passed
  <2>1. t \in entries /\ t \in Nat
    BY <1>1, <1>3 DEF DispatchInv
  <2>2. CASE t <= at
    <3>1. \E k \in 1..n : called[k] = t
      BY <1>1, <1>2, <2>2 DEF NoneLeftOut, Passed, n, topic, at
    <3> QED BY <1>3, <1>4, <3>1
  <2>3. CASE t > at
    <3>1. t \in Listening
      BY <2>1, <2>3 DEF Listening, Listens, topic, at
    <3>2. t = s
      BY <1>2, <1>3, <2>1, <3>1
    <3> QED BY <1>3, <1>4, <3>2
  <2> QED BY <1>3, <2>1, <2>2, <2>3
<1> QED BY <1>10, <1>11, <1>12, <1>13 DEF SubscriptionsInv

LEMMA DispatchEndsInv ==
  ASSUME SubscriptionsInv, DispatchEnds \/ CallbackThrows
  PROVE  SubscriptionsInv'
<1>1. EntriesInv /\ DispatchInv
  BY DEF SubscriptionsInv
<1>2. /\ dispatch' = Idle /\ present' = {} /\ called' = <<>>
      /\ UNCHANGED <<opened, entries, counts, stray>>
  BY DEF DispatchEnds, CallbackThrows
<1>3. called' \in Seq(Nat) /\ Len(called') = 0 /\ Len(opened) \in Nat
  BY <1>1, <1>2, EmptySeq, OpenedDomain
<1>4. EntriesInv'
  BY <1>1, <1>2 DEF EntriesInv, OpenOf
<1>5. DispatchInv'
  BY <1>1, <1>2, <1>3, IdleIsAtZero DEF DispatchInv
<1>6. CalledInOrder' /\ NoneLeftOut'
  BY <1>2, <1>3 DEF CalledInOrder, NoneLeftOut
<1> QED BY <1>4, <1>5, <1>6 DEF SubscriptionsInv

LEMMA SubscriptionsNextInv ==
  ASSUME SubscriptionsInv, [SubscriptionsNext]_subscriptionVars
  PROVE  SubscriptionsInv'
<1>1. CASE UNCHANGED <<opened, entries, counts, dispatch, present, called, stray>>
  BY <1>1 DEF SubscriptionsInv, EntriesInv, OpenOf, DispatchInv, CalledInOrder, NoneLeftOut, Passed
<1>2. CASE UNCHANGED subscriptionVars
  BY <1>1, <1>2 DEF subscriptionVars
<1>3. CASE StateChanges
  BY <1>1, <1>3 DEF StateChanges
<1> QED BY <1>2, <1>3, SubscribeInv, CloseInv, HandleMessageInv, CallInv, DispatchEndsInv
        DEF SubscriptionsNext

(***************************************************************************)
(* MQTTService.ts: the map holds subscriptions that were made, and a count *)
(* is never negative.                                                      *)
(***************************************************************************)
THEOREM SubscriptionsTypeCorrect == SubscriptionsSpec => []SubscriptionsTypeOK
<1>1. SubscriptionsInv => SubscriptionsTypeOK
  BY DEF SubscriptionsInv, EntriesInv, DispatchInv, SubscriptionsTypeOK
<1> QED BY SubscriptionsInitInv, SubscriptionsNextInv, <1>1, PTL DEF SubscriptionsSpec

(***************************************************************************)
(* MQTTService.ts: whatever the callbacks of a message open and close, a   *)
(* subscription that is open throughout is called once, when the dispatch  *)
(* comes to it and no callback threw before; a closed one is not called,   *)
(* and the count of a filter is that of its open subscriptions.            *)
(***************************************************************************)
THEOREM OpenCalled == SubscriptionsSpec => []OpenAreCalled
<1>1. SubscriptionsInv => OpenAreCalled
  BY DEF SubscriptionsInv, EntriesInv, OpenOf, DispatchInv, CalledInOrder, NoneLeftOut, Passed,
     OpenAreCalled
<1> QED BY SubscriptionsInitInv, SubscriptionsNextInv, <1>1, PTL DEF SubscriptionsSpec

-----------------------------------------------------------------------------
(***************************************************************************)
(* The baby stations and their parent.  What the parent heard last of a    *)
(* baby station is the last of its messages on their way, or else what the *)
(* list holds: that, and not the list, is what each step keeps true.       *)
(***************************************************************************)
States == {"Ready", "SessionStarting", "SessionRunning"}
Rtcs == {"new", "connecting", "connected", "disconnected", "failed", "unable_to_connect", "closed"}
Message == [type : {"announcement", "clean", "unexpected"}, from : Babies, id : Nat]
BabyState == [state : States, session : Nat, link : Links, wills : Nat]
Session == {NotJoined} \cup [baby : Babies, id : Nat]
App == [session : Session, connection : Nat, rtc : Rtcs, listened : SUBSET Nat, remover : Nat]

HeardIs(b, v) ==
  \/ \E i \in DOMAIN toParent :
       /\ toParent[i].from = b /\ toParent[i].id = v
       /\ \A j \in DOMAIN toParent : toParent[j].from = b => j <= i
  \/ /\ \A i \in DOMAIN toParent : toParent[i].from # b
     /\ list[b] = v

Up(b) == running /\ link = "Connected" /\ baby[b].state = "SessionRunning" /\ baby[b].link = "Connected"

\* A baby station on a live link was heard, unless its will came late; one
\* without a live link has said goodbye, or its will is due.
HeardOf(b) ==
  /\ Up(b) => toBaby[b] # <<>> \/ HeardIs(b, baby[b].session) \/ b \in late
  /\ ~missed /\ baby[b].wills = 0 => HeardIs(b, 0) \/ HeardIs(b, baby[b].session)
  /\ ~missed /\ baby[b].wills = 0 /\ baby[b].link = "OfflineAndReconnecting" => HeardIs(b, 0)

RecordOK(r) ==
  /\ r.state = "SessionRunning" => r.link \in {"Connected", "OfflineAndReconnecting"}
  /\ r.state = "SessionStarting" => r.link = "Connecting" /\ r.session = 0
  /\ r.state = "Ready" => r.link = "Ready" /\ r.session = 0

\* The numbers of the sessions that have been started.
Started == \A b \in Babies : baby[b].session <= sessions /\ list[b] <= sessions

\* A goodbye carries no session.
MessageOK(m) == m.type # "announcement" => m.id = 0

MessagesOK ==
  /\ toParent \in Seq(Message)
  /\ \A i \in DOMAIN toParent : MessageOK(toParent[i]) /\ toParent[i].id <= sessions

BabiesInv ==
  /\ sessions \in Nat
  /\ baby \in [Babies -> BabyState] /\ list \in [Babies -> Nat]
  /\ toBaby \in [Babies -> Seq({"announcement"})]
  /\ MessagesOK
  /\ \A b \in Babies : RecordOK(baby[b])
  /\ Started
  /\ running \in BOOLEAN /\ link \in Links /\ missed \in BOOLEAN

\* Whoever is joined in the course of an event is listened to, unless a
\* session was left or replaced on the way.
Sound(c) ==
  /\ c \in App
  /\ c.connection >= app.connection
  /\ c.remover <= c.connection /\ c.listened \subseteq 1..c.connection
  /\ c.session # NotJoined =>
       \/ c.connection \in c.listened
       \/ app.session # NotJoined /\ c.connection # app.connection
       \/ rejoined

AppInv ==
  /\ Sound(app) /\ FailedIsRetried
  /\ visible \in BOOLEAN /\ recent \in BOOLEAN /\ rejoined \in BOOLEAN /\ drops \in 0..MaxDrops

StationsInv == BabiesInv /\ AppInv /\ late \subseteq Babies /\ \A b \in Babies : HeardOf(b)

\* Nobody is called none.
NoneIsNobody == "none" \notin Babies

(* What is heard *)

LEMMA HeardFromIt ==
  ASSUME toParent \in Seq(Message), NEW m \in Message, toParent' = Append(toParent, m)
  PROVE  (HeardIs(m.from, m.id))'
<1>1. /\ Len(toParent) \in Nat /\ DOMAIN toParent' = 1..Len(toParent) + 1
      /\ toParent'[Len(toParent) + 1] = m
  BY AppendProperties
<1> DEFINE i == Len(toParent) + 1
<1>2. i \in DOMAIN toParent' /\ \A j \in DOMAIN toParent' : j <= i
  BY <1>1
<1>3. toParent'[i] = m
  BY <1>1
<1> HIDE DEF i
<1> QED BY <1>2, <1>3 DEF HeardIs

LEMMA HeardFromOthers ==
  ASSUME toParent \in Seq(Message), NEW m \in Message, toParent' = Append(toParent, m),
         list' = list, NEW b \in Babies, b # m.from, NEW v, HeardIs(b, v)
  PROVE  (HeardIs(b, v))'
<1>1. /\ Len(toParent) \in Nat /\ DOMAIN toParent' = 1..Len(toParent) + 1
      /\ DOMAIN toParent = 1..Len(toParent) /\ toParent'[Len(toParent) + 1] = m
      /\ \A i \in 1..Len(toParent) : toParent'[i] = toParent[i]
  BY AppendProperties
<1> DEFINE n == Len(toParent)
<1>2. n \in Nat /\ \A i \in 1..n + 1 : i \in 1..n \/ i = n + 1
  BY <1>1
<1>3. 1..n \subseteq 1..n + 1
  BY <1>1
<1>4. DOMAIN toParent = 1..n /\ DOMAIN toParent' = 1..n + 1 /\ toParent'[n + 1] = m
      /\ \A i \in 1..n : toParent'[i] = toParent[i]
  BY <1>1
<1> HIDE DEF n
<1>5. CASE \E i \in DOMAIN toParent :
             /\ toParent[i].from = b /\ toParent[i].id = v
             /\ \A j \in DOMAIN toParent : toParent[j].from = b => j <= i
  <2>1. PICK i \in 1..n : /\ toParent[i].from = b /\ toParent[i].id = v
                          /\ \A j \in 1..n : toParent[j].from = b => j <= i
    BY <1>4, <1>5
  <2>2. toParent'[i].from = b /\ toParent'[i].id = v
    BY <1>4, <2>1
  <2>3. \A j \in 1..n + 1 : toParent'[j].from = b => j <= i
    BY <1>2, <1>4, <2>1
  <2> QED BY <1>3, <1>4, <2>2, <2>3 DEF HeardIs
<1>6. CASE (\A i \in DOMAIN toParent : toParent[i].from # b) /\ list[b] = v
  <2>1. \A i \in 1..n + 1 : toParent'[i].from # b
    BY <1>2, <1>4, <1>6
  <2> QED BY <1>4, <1>6, <2>1 DEF HeardIs
<1> QED BY <1>5, <1>6 DEF HeardIs

\* What arrives was heard before: it only changes its place.
LEMMA HeardArrives ==
  ASSUME toParent \in Seq(Message), toParent # <<>>, toParent' = Tail(toParent),
         list \in [Babies -> Nat],
         list' = [list EXCEPT ![Head(toParent).from] = Head(toParent).id],
         NEW b \in Babies, NEW v, HeardIs(b, v)
  PROVE  (HeardIs(b, v))'
<1> DEFINE n == Len(toParent)
           m == toParent[1]
<1>1. /\ n \in Nat \ {0} /\ DOMAIN toParent = 1..n /\ Head(toParent) = m /\ m \in Message
  BY HeadTailProperties, EmptySeq
<1>2. /\ DOMAIN toParent' = 1..n - 1
      /\ \A i \in 1..n - 1 : toParent'[i] = toParent[i + 1]
  BY <1>1, HeadTailProperties
<1>3. list'[b] = (IF m.from = b THEN m.id ELSE list[b])
  BY <1>1
<1>4. \A i \in 1..n : i = 1 \/ (i - 1 \in 1..n - 1 /\ i = (i - 1) + 1)
  BY <1>1
<1>5. \A i \in 1..n - 1 : i + 1 \in 1..n
  BY <1>1
<1> HIDE DEF n, m
<1>6. CASE \E i \in DOMAIN toParent :
             /\ toParent[i].from = b /\ toParent[i].id = v
             /\ \A j \in DOMAIN toParent : toParent[j].from = b => j <= i
  <2>1. PICK i \in 1..n : /\ toParent[i].from = b /\ toParent[i].id = v
                          /\ \A j \in 1..n : toParent[j].from = b => j <= i
    BY <1>1, <1>6
  <2>2. CASE i = 1
    <3>1. toParent[i] = m
      BY <2>2 DEF m
    <3>2. \A j \in 1..n - 1 : toParent'[j].from # b
      <4> TAKE j \in 1..n - 1
      <4>1. j + 1 \in 1..n /\ ~(j + 1 <= i)
        BY <1>1, <1>5, <2>2
      <4> QED BY <1>2, <2>1, <4>1
    <3> QED BY <1>2, <1>3, <2>1, <3>1, <3>2 DEF HeardIs
  <2>3. CASE i # 1
    <3> DEFINE k == i - 1
    <3>1. k \in 1..n - 1 /\ k + 1 = i /\ k \in Int
      BY <1>1, <1>4, <2>1, <2>3
    <3>2. \A j \in 1..n - 1 : toParent'[j].from = b => j <= k
      <4> TAKE j \in 1..n - 1
      <4>1. toParent'[j].from = b => j + 1 <= i
        BY <1>2, <1>5, <2>1
      <4>2. j + 1 <= i => j <= k
        BY <3>1
      <4> QED BY <4>1, <4>2
    <3>3. toParent'[k] = toParent[i]
      BY <1>2, <3>1
    <3> HIDE DEF k
    <3> QED BY <1>2, <2>1, <3>1, <3>2, <3>3 DEF HeardIs
  <2> QED BY <2>2, <2>3
<1>7. CASE (\A i \in DOMAIN toParent : toParent[i].from # b) /\ list[b] = v
  <2>1. m.from # b
    BY <1>1, <1>7 DEF m
  <2>2. \A i \in 1..n - 1 : toParent'[i].from # b
    BY <1>1, <1>2, <1>5, <1>7
  <2> QED BY <1>2, <1>3, <1>7, <2>1, <2>2 DEF HeardIs
<1> QED BY <1>6, <1>7 DEF HeardIs

\* What a station sends is heard last, or missed.
LEMMA Sending ==
  ASSUME MessagesOK, sessions \in Nat, sessions' \in Nat, sessions <= sessions', list' = list,
         NEW m \in Message, SendToParent(m), MessageOK(m), m.id <= sessions', missed \in BOOLEAN
  PROVE  /\ MessagesOK'
         /\ missed' \in BOOLEAN /\ (missed => missed')
         /\ link = "Connected" => (HeardIs(m.from, m.id))' /\ missed' = missed
         /\ link # "Connected" => missed' = TRUE
         /\ \A b \in Babies, v \in Nat : b # m.from /\ HeardIs(b, v) => (HeardIs(b, v))'
<1>1. CASE link = "Connected"
  <2>1. toParent' = Append(toParent, m) /\ missed' = missed
    BY <1>1 DEF SendToParent
  <2>2. (HeardIs(m.from, m.id))'
    BY <2>1, HeardFromIt DEF MessagesOK
  <2>3. \A b \in Babies, v \in Nat : b # m.from /\ HeardIs(b, v) => (HeardIs(b, v))'
    <3> SUFFICES ASSUME NEW b \in Babies, NEW v \in Nat, b # m.from, HeardIs(b, v)
                 PROVE  (HeardIs(b, v))'
      OBVIOUS
    <3> QED BY <2>1, HeardFromOthers DEF MessagesOK
  <2>4. MessagesOK'
    <3> DEFINE n == Len(toParent)
    <3>1. /\ toParent' \in Seq(Message) /\ n \in Nat /\ DOMAIN toParent' = 1..n + 1
          /\ DOMAIN toParent = 1..n /\ toParent'[n + 1] = m
          /\ \A i \in 1..n : toParent'[i] = toParent[i] /\ toParent[i] \in Message
      BY <2>1, AppendProperties, ElementOfSeq DEF MessagesOK
    <3>2. \A i \in 1..n + 1 : i \in 1..n \/ i = n + 1
      BY <3>1
    <3> HIDE DEF n
    <3>3. ASSUME NEW i \in 1..n
          PROVE  MessageOK(toParent'[i]) /\ toParent'[i].id <= sessions'
      <4>1. toParent[i].id \in Nat /\ toParent[i].id <= sessions /\ MessageOK(toParent[i])
        BY <3>1 DEF MessagesOK, Message
      <4>2. PICK k \in Nat : toParent[i].id = k
        BY <4>1
      <4>3. k <= sessions
        BY <4>1, <4>2
      <4>4. k <= sessions'
        BY <4>3
      <4> QED BY <3>1, <4>1, <4>2, <4>4
    <3> QED BY <3>1, <3>2, <3>3 DEF MessagesOK
  <2>5. missed' \in BOOLEAN /\ (missed => missed')
    BY <2>1
  <2> QED BY <1>1, <2>1, <2>2, <2>3, <2>4, <2>5
<1>2. CASE link # "Connected"
  <2>1. missed' = TRUE /\ toParent' = toParent
    BY <1>2 DEF SendToParent
  <2>2. \A b \in Babies, v \in Nat : HeardIs(b, v) => (HeardIs(b, v))'
    BY <2>1 DEF HeardIs
  <2>3. MessagesOK'
    <3> SUFFICES ASSUME NEW i \in DOMAIN toParent
                 PROVE  toParent[i].id <= sessions'
      BY <2>1 DEF MessagesOK
    <3>0. toParent[i] \in Message
      BY DEF MessagesOK
    <3>1. toParent[i].id \in Nat /\ toParent[i].id <= sessions
      BY <3>0 DEF MessagesOK, Message
    <3>2. PICK k \in Nat : toParent[i].id = k
      BY <3>1
    <3>3. k <= sessions
      BY <3>1, <3>2
    <3>4. k <= sessions'
      BY <3>3
    <3> QED BY <3>2, <3>4
  <2>4. missed' \in BOOLEAN /\ (missed => missed')
    BY <2>1
  <2> QED BY <1>2, <2>1, <2>2, <2>3, <2>4
<1> QED BY <1>1, <1>2

\* Nothing changes for a baby station that does not move.
LEMMA HeardStays ==
  ASSUME NEW b \in Babies, HeardOf(b), baby'[b] = baby[b], baby[b] \in BabyState,
         toBaby'[b] = toBaby[b], UNCHANGED <<running, link>>, b \in late => b \in late',
         missed \in BOOLEAN, missed' \in BOOLEAN, missed => missed',
         \A v \in Nat : HeardIs(b, v) => (HeardIs(b, v))'
  PROVE  (HeardOf(b))'
<1>1. baby[b].session \in Nat /\ 0 \in Nat
  BY DEF BabyState
<1> QED BY <1>1 DEF HeardOf, Up

\* A baby station moves, the parent does not.
LEMMA BabyMoves ==
  ASSUME BabiesInv, NEW b \in Babies, NEW r \in BabyState,
         baby' = [baby EXCEPT ![b] = r], RecordOK(r),
         sessions' \in Nat, sessions <= sessions', r.session <= sessions',
         toBaby' \in [Babies -> Seq({"announcement"})], MessagesOK', missed' \in BOOLEAN,
         UNCHANGED <<list, running, link>>
  PROVE  BabiesInv' /\ baby'[b] = r /\ \A c \in Babies : c # b => baby'[c] = baby[c]
<1>1. /\ baby' \in [Babies -> BabyState] /\ baby'[b] = r
      /\ \A c \in Babies : c # b => baby'[c] = baby[c]
  BY DEF BabiesInv
<1>2. \A c \in Babies : RecordOK(baby'[c])
  BY <1>1 DEF BabiesInv
<1>3. ASSUME NEW c \in Babies
      PROVE  baby'[c].session <= sessions' /\ list'[c] <= sessions'
  <2>1. /\ baby[c].session \in Nat /\ list[c] \in Nat /\ list'[c] = list[c]
        /\ baby[c].session <= sessions /\ list[c] <= sessions
    BY DEF BabiesInv, BabyState, Started
  <2>2. PICK k \in Nat, l \in Nat : baby[c].session = k /\ list[c] = l
    BY <2>1
  <2>3. k <= sessions /\ l <= sessions /\ sessions \in Nat
    BY <2>1, <2>2 DEF BabiesInv
  <2>4. k <= sessions' /\ l <= sessions'
    BY <2>3
  <2>5. baby'[c].session = r.session \/ baby'[c].session = k
    BY <1>1, <2>2
  <2> QED BY <2>1, <2>2, <2>4, <2>5
<1> QED BY <1>1, <1>2, <1>3 DEF BabiesInv, Started

(* The baby stations *)

LEMMA StartSessionHeard ==
  ASSUME BabiesInv, \A c \in Babies : HeardOf(c), NEW b \in Babies, StartSession(b)
  PROVE  BabiesInv' /\ \A c \in Babies : (HeardOf(c))'
<1> DEFINE r == [[baby[b] EXCEPT !.state = "SessionStarting"] EXCEPT !.link = "Connecting"]
<1>1. /\ baby[b] \in BabyState /\ RecordOK(baby[b]) /\ sessions \in Nat /\ missed \in BOOLEAN
      /\ baby[b].session <= sessions
  BY DEF BabiesInv, Started
<1>2. /\ baby[b].state = "Ready" /\ baby' = [baby EXCEPT ![b] = r]
      /\ UNCHANGED <<sessions, toBaby, toParent, list, running, link, missed, late>>
  <2>1. baby' = [baby EXCEPT ![b].state = "SessionStarting", ![b].link = "Connecting"]
    BY DEF StartSession
  <2>2. baby' = [baby EXCEPT ![b] = r]
    BY <2>1, Zenon DEF BabiesInv
  <2> HIDE DEF r
  <2> QED BY <2>2 DEF StartSession, parentVars
<1>3. /\ r \in BabyState /\ r.session = baby[b].session /\ r.wills = baby[b].wills
      /\ r.state = "SessionStarting" /\ r.link = "Connecting"
  BY <1>1 DEF BabyState, States, Links
<1> HIDE DEF r
<1>4. RecordOK(r) /\ r.session = 0 /\ baby[b].session = 0
  BY <1>1, <1>2, <1>3 DEF RecordOK
<1>5. MessagesOK' /\ toBaby' \in [Babies -> Seq({"announcement"})]
  BY <1>2 DEF MessagesOK, BabiesInv
<1>6. BabiesInv' /\ baby'[b] = r /\ \A c \in Babies : c # b => baby'[c] = baby[c]
  <2>1. r.session <= sessions'
    BY <1>1, <1>2, <1>3
  <2>2. sessions' \in Nat /\ sessions <= sessions' /\ missed' \in BOOLEAN
    BY <1>1, <1>2
  <2> QED BY <1>2, <1>3, <1>4, <1>5, <2>1, <2>2, BabyMoves
<1>7. \A c \in Babies, v \in Nat : HeardIs(c, v) => (HeardIs(c, v))'
  BY <1>2 DEF HeardIs
<1>8. ASSUME NEW c \in Babies
      PROVE  (HeardOf(c))'
  <2>1. CASE c = b
    <3>1. HeardOf(b) /\ 0 \in Nat
      OBVIOUS
    <3> QED BY <1>2, <1>3, <1>4, <1>6, <1>7, <2>1, <3>1 DEF HeardOf, Up
  <2>2. CASE c # b
    <3>1. baby[c] \in BabyState
      BY DEF BabiesInv
    <3> QED BY <1>1, <1>2, <1>6, <1>7, <2>2, <3>1, HeardStays
  <2> QED BY <2>1, <2>2
<1> QED BY <1>6, <1>8

LEMMA BabyConnectedHeard ==
  ASSUME BabiesInv, \A c \in Babies : HeardOf(c), NEW b \in Babies, BabyConnected(b)
  PROVE  BabiesInv' /\ \A c \in Babies : (HeardOf(c))'
<1>1. /\ baby[b] \in BabyState /\ RecordOK(baby[b]) /\ sessions \in Nat /\ missed \in BOOLEAN
      /\ baby[b].session <= sessions /\ baby[b].session \in Nat
  BY DEF BabiesInv, Started, BabyState
<1>2. PICK r \in BabyState :
        /\ baby' = [baby EXCEPT ![b] = r] /\ r.state = "SessionRunning" /\ r.link = "Connected"
        /\ r.session <= sessions' /\ sessions' \in Nat /\ sessions <= sessions'
  <2>1. baby[b].link \in {"Connecting", "OfflineAndReconnecting"}
    BY DEF BabyConnected
  <2>2. CASE baby[b].state = "SessionStarting"
    <3> DEFINE r == [state |-> "SessionRunning", session |-> sessions + 1,
                     link |-> "Connected", wills |-> baby[b].wills]
    <3>1. sessions' = sessions + 1 /\ baby' = [baby EXCEPT ![b] = r]
      BY <2>2 DEF BabyConnected
    <3>2. sessions + 1 \in Nat /\ sessions + 1 <= sessions'
      BY <1>1, <3>1
    <3>3. r \in BabyState
      BY <1>1, <3>2 DEF BabyState, States, Links
    <3>4. r.session <= sessions' /\ sessions' \in Nat /\ sessions <= sessions'
      BY <1>1, <3>1
    <3>5. r.state = "SessionRunning" /\ r.link = "Connected"
      OBVIOUS
    <3> HIDE DEF r
    <3> QED BY <3>1, <3>3, <3>4, <3>5
  <2>3. CASE baby[b].state # "SessionStarting"
    <3> DEFINE r == [state |-> baby[b].state, session |-> baby[b].session,
                     link |-> "Connected", wills |-> baby[b].wills]
    <3>1. sessions' = sessions /\ baby' = [baby EXCEPT ![b] = r]
      BY <1>1, <2>3 DEF BabyConnected, BabyState, BabiesInv
    <3>2. r \in BabyState /\ r.session = baby[b].session
      BY <1>1 DEF BabyState, States, Links
    <3>4. r.state = "SessionRunning"
      BY <1>1, <2>1, <2>3 DEF RecordOK, BabyState, States
    <3>5. r.session <= sessions' /\ sessions <= sessions' /\ sessions' \in Nat
      BY <1>1, <3>1, <3>2
    <3> QED BY <3>1, <3>2, <3>4, <3>5
  <2> QED BY <2>2, <2>3
<1>3. UNCHANGED <<toBaby, running, link, list>> /\ late' = late \ {b}
  BY DEF BabyConnected, parentVars
<1>4. PICK m \in Message :
        MessageOK(m) /\ m.from = b /\ m.id = r.session /\ m.id <= sessions' /\ SendToParent(m)
  <2> DEFINE m == [type |-> "announcement", from |-> b, id |-> r.session]
  <2>1. Announcement(b) = m /\ r.session \in Nat
    BY <1>2 DEF Announcement, BabiesInv, BabyState
  <2>2. SendToParent(m)
    BY <2>1 DEF BabyConnected
  <2>3. m \in Message /\ MessageOK(m) /\ m.from = b /\ m.id = r.session
    BY <2>1 DEF Message, MessageOK
  <2> HIDE DEF m
  <2> QED BY <1>2, <2>2, <2>3
<1>5. /\ MessagesOK' /\ missed' \in BOOLEAN /\ (missed => missed')
      /\ link = "Connected" => (HeardIs(b, r.session))' /\ missed' = missed
      /\ link # "Connected" => missed' = TRUE
      /\ \A c \in Babies, v \in Nat : c # b /\ HeardIs(c, v) => (HeardIs(c, v))'
  <2>1. MessagesOK
    BY DEF BabiesInv
  <2>2. (HeardIs(m.from, m.id))' <=> (HeardIs(b, r.session))'
    BY <1>4 DEF HeardIs
  <2> QED BY <1>1, <1>2, <1>3, <1>4, <2>1, <2>2, Sending
<1>6. BabiesInv' /\ baby'[b] = r /\ \A c \in Babies : c # b => baby'[c] = baby[c]
  <2>1. RecordOK(r)
    BY <1>2 DEF RecordOK
  <2>2. toBaby' \in [Babies -> Seq({"announcement"})] /\ missed' \in BOOLEAN
    BY <1>1, <1>3, <1>5 DEF BabiesInv
  <2> QED BY <1>2, <1>3, <1>5, <2>1, <2>2, BabyMoves
<1>7. ASSUME NEW c \in Babies
      PROVE  (HeardOf(c))'
  <2>1. CASE c = b
    <3>1. r.link # "OfflineAndReconnecting"
      BY <1>2
    <3>2. (baby[b].session)' = r.session /\ (baby[b].link)' = r.link
      BY <1>6
    <3> QED BY <1>3, <1>5, <2>1, <3>1, <3>2 DEF HeardOf, Up, HeardIs
  <2>2. CASE c # b
    <3>1. baby[c] \in BabyState
      BY DEF BabiesInv
    <3> QED BY <1>1, <1>3, <1>5, <1>6, <2>2, <3>1, HeardStays
  <2> QED BY <2>1, <2>2
<1> QED BY <1>6, <1>7

LEMMA EndSessionHeard ==
  ASSUME BabiesInv, \A c \in Babies : HeardOf(c), NEW b \in Babies, EndSession(b)
  PROVE  BabiesInv' /\ \A c \in Babies : (HeardOf(c))'
<1> DEFINE r == [state |-> "Ready", session |-> 0, link |-> "Ready", wills |-> baby[b].wills]
<1>1. /\ baby[b] \in BabyState /\ RecordOK(baby[b]) /\ sessions \in Nat /\ missed \in BOOLEAN
      /\ baby[b].wills \in Nat /\ MessagesOK
  BY DEF BabiesInv, BabyState
<1>2. /\ baby[b].state = "SessionRunning" /\ baby' = [baby EXCEPT ![b] = r]
      /\ toBaby' = [toBaby EXCEPT ![b] = <<>>]
      /\ UNCHANGED <<sessions, list, running, link, late>>
  BY DEF EndSession, parentVars
<1>3. r \in BabyState /\ RecordOK(r) /\ r.session = 0 /\ r.wills = baby[b].wills
      /\ r.state = "Ready" /\ r.link = "Ready"
  BY <1>1 DEF BabyState, States, Links, RecordOK
<1> HIDE DEF r
<1>4. /\ toBaby' \in [Babies -> Seq({"announcement"})]
      /\ \A c \in Babies : c # b => toBaby'[c] = toBaby[c]
  <2>1. <<>> \in Seq({"announcement"})
    BY EmptySeq
  <2> QED BY <1>2, <2>1 DEF BabiesInv
<1>5. /\ MessagesOK' /\ missed' \in BOOLEAN /\ (missed => missed')
      /\ \A c \in Babies, v \in Nat : c # b /\ HeardIs(c, v) => (HeardIs(c, v))'
      /\ ~missed' /\ baby[b].wills = 0 => (HeardIs(b, 0))'
  <2>1. CASE baby[b].link = "Connected"
    <3>1. PICK m \in Message : /\ MessageOK(m) /\ m.from = b /\ m.id = 0 /\ SendToParent(m)
      <4> DEFINE m == [type |-> "clean", from |-> b, id |-> 0]
      <4>1. SendToParent(m)
        BY <2>1 DEF EndSession, Disconnected
      <4>2. m \in Message /\ MessageOK(m) /\ m.from = b /\ m.id = 0
        BY DEF Message, MessageOK
      <4> HIDE DEF m
      <4> QED BY <4>1, <4>2
    <3>2. sessions' \in Nat /\ sessions <= sessions' /\ m.id <= sessions'
      BY <1>1, <1>2, <3>1
    <3> QED BY <1>1, <1>2, <3>1, <3>2, Sending
  <2>2. CASE baby[b].link # "Connected"
    <3>1. UNCHANGED <<toParent, missed>>
      BY <2>2 DEF EndSession
    <3>2. \A c \in Babies, v \in Nat : HeardIs(c, v) <=> (HeardIs(c, v))'
      BY <1>2, <3>1 DEF HeardIs
    <3>3. baby[b].link = "OfflineAndReconnecting"
      BY <1>1, <1>2, <2>2 DEF RecordOK
    <3>4. ~missed /\ baby[b].wills = 0 => HeardIs(b, 0)
      BY <3>3 DEF HeardOf
    <3> QED BY <1>1, <1>2, <3>1, <3>2, <3>4 DEF MessagesOK
  <2> QED BY <2>1, <2>2
<1>6. BabiesInv' /\ baby'[b] = r /\ \A c \in Babies : c # b => baby'[c] = baby[c]
  <2>1. sessions' \in Nat /\ sessions <= sessions' /\ r.session <= sessions'
    BY <1>1, <1>2, <1>3
  <2> QED BY <1>2, <1>3, <1>4, <1>5, <2>1, BabyMoves
<1>7. ASSUME NEW c \in Babies
      PROVE  (HeardOf(c))'
  <2>1. CASE c = b
    BY <1>3, <1>5, <1>6, <2>1 DEF HeardOf, Up
  <2>2. CASE c # b
    <3>1. baby[c] \in BabyState
      BY DEF BabiesInv
    <3> QED BY <1>1, <1>2, <1>4, <1>5, <1>6, <2>2, <3>1, HeardStays
  <2> QED BY <2>1, <2>2
<1> QED BY <1>6, <1>7

\* The messages are the only thing that moves.
LEMMA InboxMoves ==
  ASSUME BabiesInv, toBaby' \in [Babies -> Seq({"announcement"})], MessagesOK',
         missed' \in BOOLEAN, UNCHANGED <<baby, sessions, list, running, link>>
  PROVE  BabiesInv'
BY DEF BabiesInv, Started

LEMMA BabyReceivesHeard ==
  ASSUME BabiesInv, \A c \in Babies : HeardOf(c), NEW b \in Babies, BabyReceives(b)
  PROVE  BabiesInv' /\ \A c \in Babies : (HeardOf(c))'
<1>1. /\ baby[b] \in BabyState /\ sessions \in Nat /\ missed \in BOOLEAN
      /\ baby[b].session \in Nat /\ baby[b].session <= sessions /\ MessagesOK
  BY DEF BabiesInv, BabyState, Started
<1>2. /\ toBaby[b] # <<>> /\ toBaby' = [toBaby EXCEPT ![b] = Tail(@)]
      /\ UNCHANGED <<baby, sessions, list, running, link>>
  BY DEF BabyReceives, parentVars
<1>3. /\ toBaby' \in [Babies -> Seq({"announcement"})]
      /\ \A c \in Babies : c # b => toBaby'[c] = toBaby[c]
  <2>1. toBaby[b] \in Seq({"announcement"})
    BY DEF BabiesInv
  <2>2. Tail(toBaby[b]) \in Seq({"announcement"})
    BY <1>2, <2>1, HeadTailProperties
  <2> QED BY <1>2, <2>2 DEF BabiesInv
<1>4. CASE baby[b].state = "SessionRunning" /\ baby[b].link = "Connected"
  <2>1. PICK m \in Message :
          MessageOK(m) /\ m.from = b /\ m.id = baby[b].session /\ SendToParent(m)
    <3> DEFINE m == [type |-> "announcement", from |-> b, id |-> baby[b].session]
    <3>1. SendToParent(m)
      BY <1>2, <1>4 DEF BabyReceives, Announcement
    <3>2. m \in Message /\ MessageOK(m) /\ m.from = b /\ m.id = baby[b].session
      BY <1>1 DEF Message, MessageOK
    <3> HIDE DEF m
    <3> QED BY <3>1, <3>2
  <2>0. late' = late \ {b}
    BY <1>4 DEF BabyReceives
  <2>2. sessions' \in Nat /\ sessions <= sessions' /\ m.id <= sessions'
    BY <1>1, <1>2, <2>1
  <2>3. /\ MessagesOK' /\ missed' \in BOOLEAN /\ (missed => missed')
        /\ link = "Connected" => (HeardIs(m.from, m.id))'
        /\ link # "Connected" => missed'
        /\ \A c \in Babies, v \in Nat : c # b /\ HeardIs(c, v) => (HeardIs(c, v))'
    BY <1>1, <1>2, <2>1, <2>2, Sending
  <2>4. BabiesInv'
    BY <1>2, <1>3, <2>3, InboxMoves
  <2>5. ASSUME NEW c \in Babies
        PROVE  (HeardOf(c))'
    <3>1. CASE c = b
      <4>1. link = "Connected" => (HeardIs(b, baby[b].session))'
        BY <1>2, <2>1, <2>3 DEF HeardIs
      <4> QED BY <1>2, <1>4, <2>3, <3>1, <4>1 DEF HeardOf, Up, HeardIs
    <3>2. CASE c # b
      <4>1. baby[c] \in BabyState
        BY DEF BabiesInv
      <4> QED BY <1>1, <1>2, <1>3, <2>0, <2>3, <3>2, <4>1, HeardStays
    <3> QED BY <3>1, <3>2
  <2> QED BY <2>4, <2>5
<1>5. CASE ~(baby[b].state = "SessionRunning" /\ baby[b].link = "Connected")
  <2>1. UNCHANGED <<toParent, missed, late>>
    BY <1>5 DEF BabyReceives
  <2>2. \A c \in Babies, v \in Nat : HeardIs(c, v) => (HeardIs(c, v))'
    BY <1>2, <2>1 DEF HeardIs
  <2>3. BabiesInv'
    <3>1. MessagesOK'
      BY <1>1, <1>2, <2>1 DEF MessagesOK
    <3> QED BY <1>1, <1>2, <1>3, <2>1, <3>1, InboxMoves
  <2>4. ASSUME NEW c \in Babies
        PROVE  (HeardOf(c))'
    <3>1. CASE c = b
      BY <1>1, <1>2, <1>5, <2>1, <2>2, <3>1 DEF HeardOf, Up
    <3>2. CASE c # b
      <4>1. baby[c] \in BabyState
        BY DEF BabiesInv
      <4> QED BY <1>1, <1>2, <1>3, <2>1, <2>2, <3>2, <4>1, HeardStays
    <3> QED BY <3>1, <3>2
  <2> QED BY <2>3, <2>4
<1> QED BY <1>4, <1>5

LEMMA BabyDropsHeard ==
  ASSUME BabiesInv, \A c \in Babies : HeardOf(c), NEW b \in Babies, BabyDrops(b)
  PROVE  BabiesInv' /\ \A c \in Babies : (HeardOf(c))'
<1> DEFINE r == [[baby[b] EXCEPT !.link = "OfflineAndReconnecting"] EXCEPT !.wills = @ + 1]
<1>1. /\ baby[b] \in BabyState /\ RecordOK(baby[b]) /\ sessions \in Nat /\ missed \in BOOLEAN
      /\ baby[b].session <= sessions /\ MessagesOK
  BY DEF BabiesInv, Started
<1>2. /\ baby[b].link = "Connected" /\ baby' = [baby EXCEPT ![b] = r]
      /\ toBaby' = [toBaby EXCEPT ![b] = <<>>]
      /\ UNCHANGED <<sessions, toParent, list, running, link, missed, late>>
  <2>1. baby' = [baby EXCEPT ![b].link = "OfflineAndReconnecting", ![b].wills = @ + 1]
    BY DEF BabyDrops
  <2>2. baby' = [baby EXCEPT ![b] = r]
    BY <2>1, Zenon DEF BabiesInv
  <2> HIDE DEF r
  <2> QED BY <2>2 DEF BabyDrops, parentVars
<1>3. /\ r \in BabyState /\ r.session = baby[b].session /\ r.wills # 0
      /\ r.link = "OfflineAndReconnecting" /\ r.state = baby[b].state
  <2>1. PICK n \in Nat : n = baby[b].wills
    BY <1>1 DEF BabyState
  <2>2. n + 1 \in Nat /\ n + 1 # 0
    OBVIOUS
  <2>3. r = [[baby[b] EXCEPT !.link = "OfflineAndReconnecting"] EXCEPT !.wills = n + 1]
    BY <1>1, <2>1 DEF BabyState
  <2> HIDE DEF r
  <2> QED BY <1>1, <2>2, <2>3 DEF BabyState, Links
<1>4. RecordOK(r)
  <2> HIDE DEF r
  <2> QED BY <1>1, <1>2, <1>3 DEF RecordOK
<1> HIDE DEF r
<1>5. /\ toBaby' \in [Babies -> Seq({"announcement"})]
      /\ \A c \in Babies : c # b => toBaby'[c] = toBaby[c]
  <2>1. <<>> \in Seq({"announcement"})
    BY EmptySeq
  <2> QED BY <1>2, <2>1 DEF BabiesInv
<1>6. MessagesOK' /\ \A c \in Babies, v \in Nat : HeardIs(c, v) => (HeardIs(c, v))'
  BY <1>1, <1>2 DEF HeardIs, MessagesOK
<1>7. BabiesInv' /\ baby'[b] = r /\ \A c \in Babies : c # b => baby'[c] = baby[c]
  <2>1. sessions' \in Nat /\ sessions <= sessions' /\ r.session <= sessions' /\ missed' \in BOOLEAN
    BY <1>1, <1>2, <1>3
  <2> QED BY <1>2, <1>3, <1>4, <1>5, <1>6, <2>1, BabyMoves
<1>8. ASSUME NEW c \in Babies
      PROVE  (HeardOf(c))'
  <2>1. CASE c = b
    BY <1>3, <1>7, <2>1 DEF HeardOf, Up
  <2>2. CASE c # b
    <3>1. baby[c] \in BabyState
      BY DEF BabiesInv
    <3> QED BY <1>1, <1>2, <1>5, <1>6, <1>7, <2>2, <3>1, HeardStays
  <2> QED BY <2>1, <2>2
<1> QED BY <1>7, <1>8

LEMMA WillHeard ==
  ASSUME BabiesInv, \A c \in Babies : HeardOf(c), NEW b \in Babies, Will(b)
  PROVE  BabiesInv' /\ \A c \in Babies : (HeardOf(c))'
<1> DEFINE r == [baby[b] EXCEPT !.wills = @ - 1]
<1>1. /\ baby[b] \in BabyState /\ RecordOK(baby[b]) /\ sessions \in Nat /\ missed \in BOOLEAN
      /\ baby[b].session <= sessions /\ MessagesOK
  BY DEF BabiesInv, Started
<1>2. /\ baby[b].wills > 0 /\ baby' = [baby EXCEPT ![b] = r]
      /\ UNCHANGED <<sessions, toBaby, list, running, link>>
      /\ \A c \in late : c \in late'
      /\ baby[b].link = "Connected" => b \in late'
  <2>1. baby' = [baby EXCEPT ![b].wills = @ - 1]
    BY DEF Will
  <2>2. baby' = [baby EXCEPT ![b] = r]
    BY <2>1, Zenon
  <2> HIDE DEF r
  <2> QED BY <2>2 DEF Will, parentVars
<1>3. /\ r \in BabyState /\ r.session = baby[b].session /\ r.link = baby[b].link
      /\ r.state = baby[b].state
  BY <1>1, <1>2 DEF BabyState
<1>4. RecordOK(r)
  <2> HIDE DEF r
  <2> QED BY <1>1, <1>2, <1>3 DEF RecordOK
<1> HIDE DEF r
<1>5. PICK m \in Message : /\ MessageOK(m) /\ m.from = b /\ m.id = 0 /\ SendToParent(m)
  <2> DEFINE m == [type |-> "unexpected", from |-> b, id |-> 0]
  <2>1. SendToParent(m)
    BY DEF Will, Disconnected
  <2>2. m \in Message /\ MessageOK(m) /\ m.from = b /\ m.id = 0
    BY DEF Message, MessageOK
  <2> HIDE DEF m
  <2> QED BY <2>1, <2>2
<1>6. /\ MessagesOK' /\ missed' \in BOOLEAN /\ (missed => missed')
      /\ \A c \in Babies, v \in Nat : c # b /\ HeardIs(c, v) => (HeardIs(c, v))'
      /\ link = "Connected" => (HeardIs(m.from, m.id))'
      /\ link # "Connected" => missed'
  <2>1. sessions' \in Nat /\ sessions <= sessions' /\ m.id <= sessions'
    BY <1>1, <1>2, <1>5
  <2> QED BY <1>1, <1>2, <1>5, <2>1, Sending
<1>7. BabiesInv' /\ baby'[b] = r /\ \A c \in Babies : c # b => baby'[c] = baby[c]
  <2>1. sessions' \in Nat /\ sessions <= sessions' /\ r.session <= sessions'
    BY <1>1, <1>2, <1>3
  <2>2. toBaby' \in [Babies -> Seq({"announcement"})]
    BY <1>2 DEF BabiesInv
  <2> QED BY <1>2, <1>3, <1>4, <1>6, <2>1, <2>2, BabyMoves
<1>8. ASSUME NEW c \in Babies
      PROVE  (HeardOf(c))'
  <2>1. CASE c = b
    <3>1. link = "Connected" => (HeardIs(b, 0))'
      BY <1>5, <1>6 DEF HeardIs
    <3> QED BY <1>2, <1>3, <1>6, <1>7, <2>1, <3>1 DEF HeardOf, Up
  <2>2. CASE c # b
    <3>1. baby[c] \in BabyState
      BY DEF BabiesInv
    <3> QED BY <1>1, <1>2, <1>6, <1>7, <2>2, <3>1, HeardStays
  <2> QED BY <2>1, <2>2
<1> QED BY <1>7, <1>8

(* The parent's link *)

LEMMA StartHeard ==
  ASSUME BabiesInv, \A c \in Babies : HeardOf(c), Start
  PROVE  BabiesInv' /\ \A c \in Babies : (HeardOf(c))'
<1>1. /\ running' = TRUE /\ link' = "Connecting"
      /\ UNCHANGED <<baby, sessions, toBaby, toParent, list, missed, late>>
  BY DEF Start, babyVars
<1>2. BabiesInv'
  BY <1>1 DEF BabiesInv, MessagesOK, Started, Links
<1>3. ASSUME NEW c \in Babies
      PROVE  (HeardOf(c))'
  <2>1. HeardOf(c) /\ \A v : HeardIs(c, v) <=> (HeardIs(c, v))'
    BY <1>1 DEF HeardIs
  <2> QED BY <1>1, <2>1 DEF HeardOf, Up
<1> QED BY <1>2, <1>3

LEMMA StopHeard ==
  ASSUME BabiesInv, \A c \in Babies : HeardOf(c), Stop
  PROVE  BabiesInv' /\ \A c \in Babies : (HeardOf(c))'
<1>1. /\ running' = FALSE /\ link' = "Ready" /\ list' = [b \in Babies |-> 0]
      /\ toParent' = <<>> /\ missed' = TRUE /\ UNCHANGED <<baby, sessions, toBaby>>
  BY DEF Stop, babyVars
<1>2. MessagesOK'
  BY <1>1, EmptySeq DEF MessagesOK
<1>3. BabiesInv'
  <2>1. \A b \in Babies : list'[b] = 0 /\ 0 <= sessions
    BY <1>1 DEF BabiesInv
  <2>2. list' \in [Babies -> Nat]
    BY <1>1
  <2> QED BY <1>1, <1>2, <2>1, <2>2 DEF BabiesInv, Started, Links
<1> QED BY <1>1, <1>3 DEF HeardOf, Up

LEMMA ParentConnectedHeard ==
  ASSUME BabiesInv, \A c \in Babies : HeardOf(c), ParentConnected
  PROVE  BabiesInv' /\ \A c \in Babies : (HeardOf(c))'
<1>1. /\ link' = "Connected"
      /\ UNCHANGED <<baby, sessions, toParent, list, running, missed, late>>
  BY DEF ParentConnected, babyVars
<1>2. ASSUME NEW b \in Babies
      PROVE  /\ toBaby'[b] \in Seq({"announcement"})
             /\ baby[b].state = "SessionRunning" /\ baby[b].link = "Connected" => toBaby'[b] # <<>>
  <2>1. toBaby[b] \in Seq({"announcement"})
    BY DEF BabiesInv
  <2>2. Append(toBaby[b], "announcement") \in Seq({"announcement"})
        /\ Append(toBaby[b], "announcement") # <<>>
    BY <2>1, AppendProperties, EmptySeq
  <2> QED BY <2>1, <2>2 DEF ParentConnected
<1>3. toBaby' \in [Babies -> Seq({"announcement"})]
  BY <1>2 DEF ParentConnected
<1>4. BabiesInv'
  BY <1>1, <1>3 DEF BabiesInv, MessagesOK, Started, Links
<1>5. ASSUME NEW c \in Babies
      PROVE  (HeardOf(c))'
  <2>1. HeardOf(c) /\ \A v : HeardIs(c, v) <=> (HeardIs(c, v))'
    BY <1>1 DEF HeardIs
  <2> QED BY <1>1, <1>2, <2>1 DEF HeardOf, Up
<1> QED BY <1>4, <1>5

LEMMA ParentDropsHeard ==
  ASSUME BabiesInv, \A c \in Babies : HeardOf(c), ParentDrops
  PROVE  BabiesInv' /\ \A c \in Babies : (HeardOf(c))'
<1>1. /\ link' = "OfflineAndReconnecting" /\ missed' = (missed \/ toParent # <<>>)
      /\ toParent' = <<>> /\ UNCHANGED <<baby, sessions, toBaby, list, running, late>>
  BY DEF ParentDrops, babyVars
<1>2. MessagesOK' /\ missed' \in BOOLEAN
  BY <1>1, EmptySeq DEF MessagesOK
<1>3. BabiesInv'
  BY <1>1, <1>2 DEF BabiesInv, Started, Links
<1>4. ASSUME NEW c \in Babies
      PROVE  (HeardOf(c))'
  <2>1. CASE toParent = <<>>
    <3>1. HeardOf(c) /\ (missed <=> missed') /\ \A v : HeardIs(c, v) <=> (HeardIs(c, v))'
      BY <1>1, <2>1 DEF HeardIs
    <3> QED BY <1>1, <3>1 DEF HeardOf, Up
  <2>2. CASE toParent # <<>>
    BY <1>1, <2>2 DEF HeardOf, Up
  <2> QED BY <2>1, <2>2
<1> QED BY <1>3, <1>4

LEMMA ParentReceivesHeard ==
  ASSUME BabiesInv, \A c \in Babies : HeardOf(c), ParentReceives
  PROVE  BabiesInv' /\ \A c \in Babies : (HeardOf(c))'
<1> DEFINE m == Head(toParent)
<1>1. /\ toParent # <<>> /\ toParent' = Tail(toParent)
      /\ UNCHANGED <<baby, sessions, toBaby, running, link, missed, late>>
      /\ ReceiveAnnouncement(m) \/ ReceiveDisconnected(m)
  BY DEF ParentReceives, babyVars
<1>2. /\ m = toParent[1] /\ 1 \in DOMAIN toParent /\ Len(toParent) \in Nat \ {0}
      /\ DOMAIN toParent = 1..Len(toParent)
  BY <1>1, HeadTailProperties, EmptySeq DEF BabiesInv, MessagesOK
<1>3. m \in Message /\ MessageOK(m) /\ m.id <= sessions
  BY <1>2 DEF BabiesInv, MessagesOK
<1> HIDE DEF m
<1>4. list' = [list EXCEPT ![m.from] = m.id]
  <2>1. CASE ReceiveAnnouncement(m)
    BY <2>1 DEF ReceiveAnnouncement
  <2>2. CASE ReceiveDisconnected(m)
    <3>1. list' = [list EXCEPT ![m.from] = 0] /\ m.type \in {"clean", "unexpected"}
      BY <2>2 DEF ReceiveDisconnected
    <3> QED BY <1>3, <3>1 DEF MessageOK
  <2> QED BY <1>1, <2>1, <2>2
<1>5. \A c \in Babies, v \in Nat : HeardIs(c, v) => (HeardIs(c, v))'
  <2> SUFFICES ASSUME NEW c \in Babies, NEW v \in Nat, HeardIs(c, v)
               PROVE  (HeardIs(c, v))'
    OBVIOUS
  <2>1. list' = [list EXCEPT ![Head(toParent).from] = Head(toParent).id]
    BY <1>4 DEF m
  <2> QED BY <1>1, <2>1, HeardArrives DEF BabiesInv, MessagesOK
<1>6. MessagesOK'
  <2> DEFINE n == Len(toParent)
  <2>1. /\ toParent' \in Seq(Message) /\ DOMAIN toParent' = 1..n - 1
        /\ \A i \in 1..n - 1 : toParent'[i] = toParent[i + 1]
    BY <1>1, HeadTailProperties DEF BabiesInv, MessagesOK
  <2>2. \A i \in 1..n - 1 : i + 1 \in DOMAIN toParent
    BY <1>2
  <2> HIDE DEF n
  <2> QED BY <1>1, <2>1, <2>2 DEF BabiesInv, MessagesOK
<1>7. BabiesInv'
  <2>1. m.from \in Babies /\ m.id \in Nat
    BY <1>3 DEF Message
  <2>2. \A c \in Babies : list'[c] = m.id \/ list'[c] = list[c]
    BY <1>4, <2>1 DEF BabiesInv
  <2>3. list' \in [Babies -> Nat]
    BY <1>4, <2>1 DEF BabiesInv
  <2>4. \A c \in Babies : list'[c] <= sessions
    BY <1>3, <2>2 DEF BabiesInv, Started
  <2> QED BY <1>1, <1>6, <2>3, <2>4 DEF BabiesInv, Started
<1>8. ASSUME NEW c \in Babies
      PROVE  (HeardOf(c))'
  <2>1. baby[c] \in BabyState /\ missed \in BOOLEAN
    BY DEF BabiesInv
  <2> QED BY <1>1, <1>5, <2>1, HeardStays
<1> QED BY <1>7, <1>8

\* The rest leaves all of this alone.
LEMMA RestHeard ==
  ASSUME BabiesInv, \A c \in Babies : HeardOf(c),
         UNCHANGED <<baby, sessions, toBaby, toParent, running, link, list, missed, late>>
  PROVE  BabiesInv' /\ \A c \in Babies : (HeardOf(c))'
<1>1. BabiesInv'
  BY DEF BabiesInv, MessagesOK, Started
<1>2. ASSUME NEW c \in Babies
      PROVE  (HeardOf(c))'
  <2>1. HeardOf(c) /\ \A v : HeardIs(c, v) <=> (HeardIs(c, v))'
    BY DEF HeardIs
  <2> QED BY <2>1 DEF HeardOf, Up
<1> QED BY <1>1, <1>2

(* The parent's session and its connection *)

\* What a failed connection waits for.
Retriable(c, l) == c.rtc = "failed" /\ link = "Connected" /\ Exists(c, l)

LEMMA JoinSound ==
  ASSUME NEW a, Sound(a), NEW l \in [Babies -> Nat], NEW b \in Babies, NoneIsNobody,
         app.connection \in Nat
  PROVE  LET c == JoinSession(a, b, l) IN
           /\ Sound(c) /\ c.session = [baby |-> b, id |-> l[b]] /\ c.session # NotJoined
           /\ c.rtc = "new" /\ c.connection = a.connection + 1 /\ c.connection # app.connection
<1> DEFINE c == JoinSession(a, b, l)
<1>1. PICK n \in Nat : n = a.connection /\ n >= app.connection
  BY DEF Sound, App
<1>2. /\ c.session = [baby |-> b, id |-> l[b]] /\ c.connection = n + 1 /\ c.rtc = "new"
      /\ c.listened = a.listened \cup {n + 1} /\ c.remover = n + 1
      /\ c = [session |-> [baby |-> b, id |-> l[b]], connection |-> n + 1, rtc |-> "new",
              listened |-> a.listened \cup {n + 1}, remover |-> n + 1]
  BY <1>1 DEF JoinSession
<1>3. a.listened \subseteq 1..n /\ n + 1 \in Nat /\ n + 1 >= app.connection /\ n + 1 # app.connection
  BY <1>1 DEF Sound
<1>4. [baby |-> b, id |-> l[b]] \in Session /\ [baby |-> b, id |-> l[b]] # NotJoined
  BY DEF Session, NotJoined, NoneIsNobody
<1>5. a.listened \cup {n + 1} \subseteq 1..n + 1
  BY <1>1, <1>3
<1>6. a.listened \cup {n + 1} \subseteq Nat
  BY <1>1, <1>3
<1>7. c \in App
  BY <1>2, <1>3, <1>4, <1>6 DEF App, Rtcs
<1> HIDE DEF c
<1>8. c.remover <= c.connection
  BY <1>2, <1>3
<1>9. Sound(c)
  BY <1>2, <1>3, <1>5, <1>7, <1>8 DEF Sound
<1>10. /\ Sound(c) /\ c.session = [baby |-> b, id |-> l[b]] /\ c.session # NotJoined
       /\ c.rtc = "new" /\ c.connection = a.connection + 1 /\ c.connection # app.connection
  BY <1>1, <1>2, <1>3, <1>4, <1>9
<1> QED BY <1>10 DEF c

LEMMA AutoSound ==
  ASSUME NEW a, Sound(a), NEW l \in [Babies -> Nat], NEW v \in BOOLEAN, NoneIsNobody,
         app.connection \in Nat, NEW c \in AutoConnect(a, l, v)
  PROVE  /\ Sound(c)
         /\ c = a \/ (/\ a.session = NotJoined /\ c.session # NotJoined
                      /\ c.session.baby \in Babies /\ l[c.session.baby] # 0
                      /\ c.rtc = "new" /\ c.connection # app.connection)
<1>1. CASE a.session = NotJoined /\ Joinable(l, v) # {}
  <2>1. PICK b \in Joinable(l, v) : c = JoinSession(a, b, l)
    BY <1>1 DEF AutoConnect
  <2>2. b \in Babies /\ l[b] # 0
    BY <2>1 DEF Joinable
  <2>3. /\ Sound(c) /\ c.session = [baby |-> b, id |-> l[b]] /\ c.session # NotJoined
        /\ c.rtc = "new" /\ c.connection # app.connection
    BY <2>1, <2>2, JoinSound
  <2> QED BY <1>1, <2>2, <2>3
<1>2. CASE ~(a.session = NotJoined /\ Joinable(l, v) # {})
  <2>1. c = a
    BY <1>2 DEF AutoConnect
  <2> QED BY <2>1
<1> QED BY <1>1, <1>2

LEMMA LeaveSound ==
  ASSUME NEW a, Sound(a), NEW l \in [Babies -> Nat], NEW v \in BOOLEAN, NoneIsNobody,
         app.connection \in Nat, app.session # NotJoined, NEW c \in LeaveSession(a, l, v)
  PROVE  Sound(c) /\ c.rtc # "failed"
<1> DEFINE left == [a EXCEPT !.session = NotJoined, !.rtc = "closed"]
<1>1. PICK d \in AutoConnect(left, l, v) :
        c = [d EXCEPT !.listened = @ \ {d.remover}, !.remover = 0]
  BY DEF LeaveSession
<1>2. /\ left \in App /\ left.session = NotJoined /\ left.rtc = "closed"
      /\ left.connection = a.connection /\ left.listened = a.listened /\ left.remover = a.remover
  BY DEF Sound, App, Session, Rtcs
<1>3. Sound(left)
  <2> HIDE DEF left
  <2> QED BY <1>2 DEF Sound
<1> HIDE DEF left
<1>4. Sound(d) /\ (d = left \/ (d.rtc = "new" /\ d.connection # app.connection))
  BY <1>1, <1>2, <1>3, AutoSound
<1>5. /\ c \in App /\ c.session = d.session /\ c.rtc = d.rtc /\ c.connection = d.connection
      /\ c.remover = 0 /\ c.listened \subseteq d.listened
  BY <1>1, <1>4 DEF Sound, App
<1>6. c.connection \in Nat /\ c.remover <= c.connection
  BY <1>5 DEF App
<1> QED BY <1>2, <1>4, <1>5, <1>6 DEF Sound

LEMMA ReconnectSound ==
  ASSUME NEW a, Sound(a), NEW l
  PROVE  LET c == ReconnectIfNeeded(a, l, link) IN
           /\ Sound(c) /\ ~Retriable(c, l) /\ c.session = a.session
           /\ c.connection = a.connection
<1>1. CASE a.rtc = "failed" /\ link = "Connected" /\ Exists(a, l)
  <2> DEFINE c == [a EXCEPT !.rtc = "new"]
  <2>1. /\ c \in App /\ c.session = a.session /\ c.rtc = "new" /\ c.connection = a.connection
        /\ c.listened = a.listened /\ c.remover = a.remover
    BY DEF Sound, App, Rtcs
  <2>2. ReconnectIfNeeded(a, l, link) = c
    BY <1>1 DEF ReconnectIfNeeded
  <2> HIDE DEF c
  <2> QED BY <2>1, <2>2 DEF Sound, Retriable
<1>2. CASE ~(a.rtc = "failed" /\ link = "Connected" /\ Exists(a, l))
  BY <1>2 DEF ReconnectIfNeeded, Retriable
<1> QED BY <1>1, <1>2

LEMMA ChangedSound ==
  ASSUME Sound(app), NEW l \in [Babies -> Nat], visible \in BOOLEAN, NoneIsNobody,
         app.connection \in Nat, NEW c \in ListChanged(app, l)
  PROVE  /\ Sound(c) /\ ~Retriable(c, l)
         /\ app.session = NotJoined /\ c.session # NotJoined => l[c.session.baby] # 0
<1>1. PICK a \in LeaveReplaced(app, l, visible) :
        \E e \in AutoConnect(a, l, visible) : c = ReconnectIfNeeded(e, l, link)
  BY DEF ListChanged
<1>2. PICK e \in AutoConnect(a, l, visible) : c = ReconnectIfNeeded(e, l, link)
  BY <1>1
<1>3. Sound(a) /\ (app.session = NotJoined => a = app)
  <2>1. CASE app.session # NotJoined /\ l[app.session.baby] \notin {0, app.session.id}
    <3>1. a \in LeaveSession(app, l, visible)
      BY <1>1, <2>1 DEF LeaveReplaced
    <3> QED BY <2>1, <3>1, LeaveSound
  <2>2. CASE ~(app.session # NotJoined /\ l[app.session.baby] \notin {0, app.session.id})
    <3>1. a = app
      BY <1>1, <2>2 DEF LeaveReplaced
    <3> QED BY <3>1
  <2> QED BY <2>1, <2>2
<1>4. Sound(e) /\ (e = a \/ (e.session # NotJoined /\ l[e.session.baby] # 0))
  BY <1>2, <1>3, AutoSound
<1>5. Sound(c) /\ ~Retriable(c, l) /\ c.session = e.session
  BY <1>2, <1>4, ReconnectSound
<1> QED BY <1>3, <1>4, <1>5

\* Whoever is sound when its event ends keeps the invariant.
LEMMA BecomesSound ==
  ASSUME AppInv, NEW candidates, Becomes(candidates), \A c \in candidates : Sound(c)
  PROVE  (Sound(app))' /\ rejoined' \in BOOLEAN /\ app' \in candidates
<1>1. app' \in candidates /\ Sound(app') /\ rejoined \in BOOLEAN
  BY DEF Becomes, AppInv
<1>2. rejoined' = (rejoined \/ (app.session # NotJoined /\ app'.connection # app.connection))
  BY DEF Becomes
<1>3. rejoined' \in BOOLEAN
  BY <1>1, <1>2
<1>4. app'.session # NotJoined => app'.connection \in app'.listened \/ rejoined'
  BY <1>1, <1>2 DEF Sound
<1>5. app'.connection \in Nat
  BY <1>1 DEF Sound, App
<1> QED BY <1>1, <1>3, <1>4, <1>5 DEF Sound

\* Nothing happens to the session, and nothing that makes a retry possible.
LEMMA AppRests ==
  ASSUME AppInv, UNCHANGED <<app, rejoined>>, visible' \in BOOLEAN, recent' \in BOOLEAN,
         drops' \in 0..MaxDrops, link' = "Connected" => link = "Connected" /\ list' = list
  PROVE  AppInv'
<1>1. (Sound(app))' /\ rejoined' \in BOOLEAN
  BY DEF AppInv, Sound
<1>2. FailedIsRetried'
  BY DEF AppInv, FailedIsRetried, Exists
<1> QED BY <1>1, <1>2 DEF AppInv

LEMMA ParentConnectedRetries ==
  ASSUME BabiesInv, AppInv, ParentConnected
  PROVE  AppInv'
<1>1. /\ link' = "Connected" /\ app' = RestoreIfNeeded(ReconnectIfNeeded(app, list, link'))
      /\ UNCHANGED <<visible, recent, list, drops, rejoined>>
  BY DEF ParentConnected
<1>2. /\ app' \in App /\ app'.session = app.session /\ app'.connection = app.connection
      /\ app'.listened = app.listened /\ app'.remover = app.remover
      /\ ~(app'.rtc = "failed" /\ Exists(app', list))
  <2> DEFINE c == ReconnectIfNeeded(app, list, "Connected")
             d == [c EXCEPT !.rtc = "new"]
  <2>1. app \in App
    BY DEF AppInv, Sound
  <2>2. /\ c \in App /\ c.session = app.session /\ c.connection = app.connection
        /\ c.listened = app.listened /\ c.remover = app.remover
        /\ ~(c.rtc = "failed" /\ Exists(app, list))
    BY <2>1 DEF ReconnectIfNeeded, App, Rtcs
  <2>3. app' = c \/ app' = d
    BY <1>1 DEF RestoreIfNeeded
  <2> HIDE DEF c
  <2>4. /\ d \in App /\ d.session = app.session /\ d.connection = app.connection
        /\ d.listened = app.listened /\ d.remover = app.remover /\ d.rtc = "new"
    BY <2>2 DEF App, Rtcs
  <2> HIDE DEF d
  <2> QED BY <2>2, <2>3, <2>4 DEF Exists
<1>3. (Sound(app))'
  BY <1>1, <1>2 DEF AppInv, Sound, App
<1>4. FailedIsRetried'
  BY <1>1, <1>2 DEF FailedIsRetried, Exists
<1> QED BY <1>1, <1>3, <1>4 DEF AppInv

LEMMA ParentReceivesRetries ==
  ASSUME BabiesInv, BabiesInv', AppInv, ParentReceives, NoneIsNobody
  PROVE  AppInv'
<1> DEFINE m == Head(toParent)
<1>1. /\ ReceiveAnnouncement(m) \/ ReceiveDisconnected(m)
      /\ UNCHANGED <<running, link, visible, recent, drops>>
      /\ toParent # <<>>
  BY DEF ParentReceives
<1>2. m.from \in Babies
  <2>1. m \in Message
    BY <1>1, HeadTailProperties, EmptySeq DEF BabiesInv, MessagesOK
  <2> HIDE DEF m
  <2> QED BY <2>1 DEF Message
<1> HIDE DEF m
<1>3. /\ Sound(app) /\ visible \in BOOLEAN /\ list' \in [Babies -> Nat] /\ list \in [Babies -> Nat]
      /\ app.connection \in Nat /\ FailedIsRetried
  BY DEF AppInv, BabiesInv, Sound, App
<1> DEFINE changed == IF list' = list THEN {app} ELSE ListChanged(app, list')
\* A failed connection that is left alone was not retriable before either.
<1>4. ASSUME NEW c, c \in changed
      PROVE  /\ Sound(c) /\ (~Retriable(c, list') \/ (c = app /\ list' = list))
             /\ app.session = NotJoined /\ c.session # NotJoined => list'[c.session.baby] # 0
  <2>1. CASE list' = list
    <3>1. c = app
      BY <1>4, <2>1
    <3> QED BY <1>3, <2>1, <3>1
  <2>2. CASE list' # list
    <3>1. c \in ListChanged(app, list')
      BY <1>4, <2>2
    <3> QED BY <1>3, <3>1, ChangedSound
  <2> QED BY <2>1, <2>2
<1> HIDE DEF changed
<1>5. CASE ReceiveAnnouncement(m)
  <2>1. Becomes(changed)
    BY <1>5 DEF ReceiveAnnouncement, changed
  <2>2. (Sound(app))' /\ rejoined' \in BOOLEAN /\ app' \in changed /\ (rejoined => rejoined')
    BY <1>4, <2>1, BecomesSound DEF Becomes
  <2>3. FailedIsRetried'
    BY <1>1, <1>3, <1>4, <2>2 DEF FailedIsRetried, Retriable, Exists
  <2> QED BY <1>1, <2>2, <2>3 DEF AppInv
<1>6. CASE ReceiveDisconnected(m)
  <2> DEFINE Leaves(a) == m.type = "clean" /\ a.session.baby = m.from
             candidates == UNION {IF Leaves(a) THEN LeaveSession(a, list', visible) ELSE {a} :
                                    a \in changed}
  <2>1. Becomes(candidates) /\ list' = [list EXCEPT ![m.from] = 0]
    BY <1>6 DEF ReceiveDisconnected, changed
  <2>2. list'[m.from] = 0
    BY <1>2, <1>3, <2>1
  <2>3. ASSUME NEW c \in candidates
        PROVE  Sound(c) /\ (~Retriable(c, list') \/ (c = app /\ list' = list))
    <3>1. PICK a \in changed : c \in (IF Leaves(a) THEN LeaveSession(a, list', visible) ELSE {a})
      OBVIOUS
    <3>2. CASE Leaves(a)
      <4>1. c \in LeaveSession(a, list', visible) /\ Sound(a) /\ a.session.baby = m.from
        BY <1>4, <3>1, <3>2
      <4>2. app.session # NotJoined
        <5>1. a.session # NotJoined
          BY <1>2, <4>1 DEF NotJoined, NoneIsNobody
        <5> QED BY <1>4, <2>2, <4>1, <5>1
      <4>3. Sound(c) /\ c.rtc # "failed"
        BY <1>3, <4>1, <4>2, LeaveSound
      <4> QED BY <4>3 DEF Retriable
    <3>3. CASE ~Leaves(a)
      <4>1. c = a
        BY <3>1, <3>3
      <4> QED BY <1>4, <4>1
    <3> QED BY <3>2, <3>3
  <2> HIDE DEF candidates
  <2>4. (Sound(app))' /\ rejoined' \in BOOLEAN /\ app' \in candidates /\ (rejoined => rejoined')
    BY <2>1, <2>3, BecomesSound DEF Becomes
  <2>5. FailedIsRetried'
    BY <1>1, <1>3, <2>3, <2>4 DEF FailedIsRetried, Retriable, Exists
  <2> QED BY <1>1, <2>4, <2>5 DEF AppInv
<1> QED BY <1>1, <1>5, <1>6

LEMMA VisibilityRetries ==
  ASSUME BabiesInv, AppInv, HandleVisibilitychange, NoneIsNobody
  PROVE  AppInv'
<1> DEFINE candidates == {ReconnectIfNeeded(a, list, link) : a \in AutoConnect(app, list, visible')}
<1>1. /\ Becomes(candidates) /\ visible' \in BOOLEAN /\ recent' = TRUE
      /\ UNCHANGED <<link, list, drops>>
  BY DEF HandleVisibilitychange
<1>2. Sound(app) /\ list \in [Babies -> Nat] /\ app.connection \in Nat
  BY DEF AppInv, BabiesInv, Sound, App
<1>3. ASSUME NEW c \in candidates
      PROVE  Sound(c) /\ ~Retriable(c, list)
  <2>1. PICK a \in AutoConnect(app, list, visible') : c = ReconnectIfNeeded(a, list, link)
    OBVIOUS
  <2>2. Sound(a)
    BY <1>1, <1>2, <2>1, AutoSound
  <2> QED BY <2>1, <2>2, ReconnectSound
<1> HIDE DEF candidates
<1>4. (Sound(app))' /\ rejoined' \in BOOLEAN /\ app' \in candidates
  BY <1>1, <1>3, BecomesSound
<1>5. FailedIsRetried'
  BY <1>1, <1>3, <1>4 DEF FailedIsRetried, Retriable, Exists
<1> QED BY <1>1, <1>4, <1>5 DEF AppInv

LEMMA PickSessionRetries ==
  ASSUME BabiesInv, AppInv, PickSession, NoneIsNobody
  PROVE  AppInv'
<1>1. Sound(app) /\ list \in [Babies -> Nat] /\ app.connection \in Nat /\ rejoined \in BOOLEAN
  BY DEF AppInv, BabiesInv, Sound, App
<1>2. UNCHANGED <<link, list, visible, recent, drops>>
  BY DEF PickSession
<1>3. PICK b \in Babies :
        Becomes({IF app.session = NotJoined THEN JoinSession(app, b, list)
                 ELSE [JoinSession(app, b, list) EXCEPT !.listened = app.listened,
                                                        !.remover = app.remover]})
  BY DEF PickSession
<1> DEFINE j == JoinSession(app, b, list)
           c == [j EXCEPT !.listened = app.listened, !.remover = app.remover]
<1>4. Sound(j) /\ j.rtc = "new" /\ j.connection = app.connection + 1 /\ j.connection # app.connection
  BY <1>1, JoinSound
<1> HIDE DEF j
<1>5. app.session # NotJoined => Sound(c)
  <2>1. /\ c \in App /\ c.connection = j.connection /\ c.session = j.session
        /\ c.listened = app.listened /\ c.remover = app.remover
    BY <1>1, <1>4 DEF Sound, App
  <2>2. PICK n \in Nat : n = app.connection /\ c.connection = n + 1
    BY <1>1, <1>4, <2>1
  <2>3. app.listened \subseteq 1..n /\ app.remover <= n /\ app.remover \in Nat
    BY <1>1, <2>2 DEF Sound, App
  <2>4. app.listened \subseteq 1..n + 1 /\ app.remover <= n + 1 /\ n + 1 >= n
    BY <2>3
  <2> HIDE DEF c
  <2> QED BY <1>4, <2>1, <2>2, <2>4 DEF Sound
<1>6. c.rtc = "new"
  BY <1>4 DEF Sound, App
<1> DEFINE k == IF app.session = NotJoined THEN j ELSE c
<1>7. Sound(k) /\ k.rtc = "new" /\ Becomes({k})
  BY <1>3, <1>4, <1>5, <1>6 DEF j
<1> HIDE DEF c, k
<1>8. (Sound(app))' /\ rejoined' \in BOOLEAN /\ app' = k
  BY <1>7, BecomesSound
<1>9. FailedIsRetried'
  BY <1>7, <1>8 DEF FailedIsRetried
<1> QED BY <1>2, <1>8, <1>9 DEF AppInv

LEMMA PickNoneRetries ==
  ASSUME BabiesInv, AppInv, PickNone, NoneIsNobody
  PROVE  AppInv'
<1>1. /\ Sound(app) /\ list \in [Babies -> Nat] /\ app.connection \in Nat /\ visible \in BOOLEAN
  BY DEF AppInv, BabiesInv, Sound, App
<1>2. /\ UNCHANGED <<link, list, visible, recent, drops>> /\ app.session # NotJoined
      /\ Becomes(LeaveSession(app, list, visible))
  BY DEF PickNone
<1>3. \A c \in LeaveSession(app, list, visible) : Sound(c) /\ c.rtc # "failed"
  BY <1>1, <1>2, LeaveSound
<1>4. (Sound(app))' /\ rejoined' \in BOOLEAN /\ app' \in LeaveSession(app, list, visible)
  BY <1>2, <1>3, BecomesSound
<1>5. FailedIsRetried'
  BY <1>3, <1>4 DEF FailedIsRetried
<1> QED BY <1>2, <1>4, <1>5 DEF AppInv

LEMMA ConnectionRetries ==
  ASSUME BabiesInv, AppInv, ConnectionStateChanges
  PROVE  AppInv'
<1>1. Sound(app) /\ FailedIsRetried /\ UNCHANGED <<link, list, visible, recent, drops, rejoined>>
  BY DEF AppInv, ConnectionStateChanges
<1>2. PICK s \in NextRtc[app.rtc] :
        app' = IF app.connection \in app.listened
               THEN ReconnectIfNeeded([app EXCEPT !.rtc = s], list, link)
               ELSE [app EXCEPT !.rtc = s]
  BY DEF ConnectionStateChanges
<1>3. s \in Rtcs
  <2>1. app.rtc \in Rtcs
    BY <1>1 DEF Sound, App
  <2> QED BY <1>2, <2>1 DEF NextRtc, Rtcs
<1> DEFINE c == [app EXCEPT !.rtc = s]
<1>4. /\ Sound(c) /\ c.session = app.session /\ c.connection = app.connection
  <2>1. /\ c \in App /\ c.session = app.session /\ c.connection = app.connection
        /\ c.listened = app.listened /\ c.remover = app.remover
    BY <1>1, <1>3 DEF Sound, App
  <2> HIDE DEF c
  <2> QED BY <1>1, <2>1 DEF Sound
<1> HIDE DEF c
<1> DEFINE d == ReconnectIfNeeded(c, list, link)
<1>5. Sound(d) /\ ~Retriable(d, list)
  BY <1>4, ReconnectSound
<1>6. app' = (IF app.connection \in app.listened THEN d ELSE c)
  BY <1>2 DEF c
<1> HIDE DEF d
<1>7. (Sound(app))'
  <2>1. Sound(app') /\ app'.connection = app.connection /\ app'.session = app.session
        /\ app'.connection \in Nat
    <3>1. d.connection = app.connection /\ d.session = app.session
      BY <1>4, ReconnectSound DEF d
    <3>2. app.connection \in Nat
      BY <1>1 DEF Sound, App
    <3> QED BY <1>4, <1>5, <1>6, <3>1, <3>2
  <2> QED BY <1>1, <2>1 DEF Sound
<1>8. FailedIsRetried'
  <2>1. CASE app.connection \in app.listened
    BY <1>1, <1>5, <1>6, <2>1 DEF FailedIsRetried, Retriable, Exists
  <2>2. CASE app.connection \notin app.listened
    <3>1. app.session # NotJoined => rejoined
      BY <1>1, <2>2 DEF Sound
    <3>2. app'.session = app.session
      BY <1>4, <1>6, <2>2
    <3> QED BY <1>1, <3>1, <3>2 DEF FailedIsRetried, Exists
  <2> QED BY <2>1, <2>2
<1> QED BY <1>1, <1>7, <1>8 DEF AppInv

(* The invariant and what it shows *)

LEMMA StationsInitInv ==
  ASSUME StationsInit, MaxDrops \in Nat
  PROVE  StationsInv
<1> USE DEF StationsInit
<1>1. /\ baby \in [Babies -> BabyState] /\ list \in [Babies -> Nat] /\ sessions = 0
      /\ \A b \in Babies : /\ baby[b].session = 0 /\ list[b] = 0 /\ RecordOK(baby[b])
                           /\ baby[b].state = "Ready" /\ baby[b].link = "Ready"
  BY DEF BabyState, States, Links, RecordOK
<1>2. toParent = <<>> /\ MessagesOK
  BY EmptySeq DEF MessagesOK
<1>3. toBaby \in [Babies -> Seq({"announcement"})]
  BY EmptySeq
<1>4. BabiesInv
  <2>1. Started
    BY <1>1 DEF Started
  <2>2. running = FALSE /\ link = "Ready" /\ missed = FALSE
    BY Zenon
  <2> HIDE DEF StationsInit
  <2>3. running \in BOOLEAN /\ link \in Links /\ missed \in BOOLEAN /\ sessions \in Nat
    BY <1>1, <2>2 DEF Links
  <2>4. \A i \in DOMAIN toParent : MessageOK(toParent[i])
    BY <1>2 DEF MessagesOK
  <2> QED BY <1>1, <1>2, <1>3, <2>1, <2>3, <2>4 DEF BabiesInv
<1>5. \A b \in Babies : HeardOf(b)
  BY <1>1, <1>2 DEF HeardOf, Up, HeardIs
<1>6. Sound(app)
  <2>1. app \in App
    BY DEF App, Session, Rtcs
  <2>2. app.session = NotJoined /\ app.connection = 0 /\ app.listened = {} /\ app.remover = 0
    OBVIOUS
  <2> QED BY <2>1, <2>2 DEF Sound
<1>7. 0 \in 0..MaxDrops /\ late = {}
  OBVIOUS
<1>8. AppInv
  BY <1>6, <1>7 DEF AppInv, FailedIsRetried
<1> QED BY <1>4, <1>5, <1>7, <1>8 DEF StationsInv

LEMMA StationsStepInv ==
  ASSUME StationsInv, StationsNext, NoneIsNobody, MaxDrops \in Nat
  PROVE  StationsInv'
<1> USE DEF StationsInv
<1>1. /\ BabiesInv /\ AppInv /\ \A c \in Babies : HeardOf(c)
      /\ drops \in 0..MaxDrops /\ visible \in BOOLEAN /\ recent \in BOOLEAN
  BY DEF AppInv
<1>2. late' \subseteq Babies
  <2>1. CASE UNCHANGED late
    BY <2>1
  <2>2. ASSUME NEW b \in Babies, BabyConnected(b) \/ BabyReceives(b) \/ Will(b)
        PROVE  late' \subseteq Babies
    <3>1. late' \subseteq late \cup {b}
      BY <2>2 DEF BabyConnected, BabyReceives, Will
    <3> QED BY <3>1
  <2> QED BY <2>1, <2>2 DEF StationsNext, StartSession, EndSession, BabyDrops, Start, Stop,
         ParentConnected, ParentDrops, ParentReceives, HandleVisibilitychange, TimePasses,
         PickSession, PickNone, ConnectionStateChanges
<1>3. ASSUME NEW b \in Babies,
             \/ StartSession(b) \/ BabyConnected(b) \/ EndSession(b)
             \/ BabyReceives(b) \/ BabyDrops(b) \/ Will(b)
      PROVE  StationsInv'
  <2>1. BabiesInv' /\ \A c \in Babies : (HeardOf(c))'
    BY <1>1, <1>3, StartSessionHeard, BabyConnectedHeard, EndSessionHeard,
       BabyReceivesHeard, BabyDropsHeard, WillHeard
  <2>2. UNCHANGED <<app, rejoined, visible, recent, link, list>>
    BY <1>3 DEF StartSession, BabyConnected, EndSession, BabyReceives, BabyDrops, Will, parentVars
  <2>3. drops' \in 0..MaxDrops
    <3>1. drops' = drops \/ (drops < MaxDrops /\ drops' = drops + 1)
      BY <1>3 DEF StartSession, BabyConnected, EndSession, BabyReceives, BabyDrops, Will
    <3> QED BY <1>1, <3>1
  <2> QED BY <1>1, <1>2, <2>1, <2>2, <2>3, AppRests
<1>4. CASE Start
  <2>1. UNCHANGED <<app, rejoined, visible, recent, drops>> /\ link' # "Connected"
    BY <1>4 DEF Start
  <2> QED BY <1>1, <1>2, <1>4, <2>1, AppRests, StartHeard
<1>5. CASE Stop
  <2>1. /\ UNCHANGED <<app, rejoined, visible, recent>> /\ link' # "Connected"
        /\ drops < MaxDrops /\ drops' = drops + 1
    BY <1>5 DEF Stop
  <2>2. drops' \in 0..MaxDrops
    BY <1>1, <2>1
  <2> QED BY <1>1, <1>2, <1>5, <2>1, <2>2, AppRests, StopHeard
<1>6. CASE ParentConnected
  BY <1>1, <1>2, <1>6, ParentConnectedHeard, ParentConnectedRetries
<1>7. CASE ParentDrops
  <2>1. /\ UNCHANGED <<app, rejoined, visible, recent>> /\ link' # "Connected"
        /\ drops < MaxDrops /\ drops' = drops + 1
    BY <1>7 DEF ParentDrops
  <2>2. drops' \in 0..MaxDrops
    BY <1>1, <2>1
  <2> QED BY <1>1, <1>2, <1>7, <2>1, <2>2, AppRests, ParentDropsHeard
<1>8. CASE ParentReceives
  BY <1>1, <1>2, <1>8, ParentReceivesHeard, ParentReceivesRetries
<1>9. ASSUME HandleVisibilitychange \/ PickSession \/ PickNone \/ ConnectionStateChanges
      PROVE  StationsInv'
  <2>1. UNCHANGED <<baby, sessions, toBaby, toParent, running, link, list, missed, late>>
    BY <1>9 DEF HandleVisibilitychange, PickSession, PickNone, ConnectionStateChanges, babyVars
  <2>2. AppInv'
    BY <1>1, <1>9, VisibilityRetries, PickSessionRetries, PickNoneRetries, ConnectionRetries
  <2> QED BY <1>1, <1>2, <2>1, <2>2, RestHeard
<1>10. CASE TimePasses
  <2>1. /\ UNCHANGED <<baby, sessions, toBaby, toParent, running, link, list, missed, late>>
        /\ UNCHANGED <<app, rejoined, visible, drops>> /\ recent' = FALSE
    BY <1>10 DEF TimePasses, babyVars
  <2> QED BY <1>1, <1>2, <2>1, AppRests, RestHeard
<1> QED BY <1>3, <1>4, <1>5, <1>6, <1>7, <1>8, <1>9, <1>10 DEF StationsNext

\* Whatever the stations and their links do, in whatever order, keeps the invariant.
LEMMA StationsKept ==
  ASSUME NoneIsNobody, MaxDrops \in Nat, StationsInv, [StationsNext]_stationVars
  PROVE  StationsInv'
<1>1. CASE StationsNext
  BY <1>1, StationsStepInv
<1>2. CASE UNCHANGED stationVars
  <2>1. UNCHANGED <<baby, sessions, toBaby, toParent, running, link, list, missed, app,
                    rejoined, visible, recent, drops, late>>
    BY <1>2 DEF stationVars, babyVars, parentVars
  <2>2. AppInv'
    BY <2>1, AppRests DEF StationsInv, AppInv
  <2> QED BY <2>1, <2>2, RestHeard DEF StationsInv
<1> QED BY <1>1, <1>2

(***************************************************************************)
(* Stations: the invariant behind the theorems that follow.                *)
(***************************************************************************)
THEOREM StationsInvariance ==
  ASSUME NoneIsNobody, MaxDrops \in Nat
  PROVE  StationsSpec => []StationsInv
<1>1. StationsInit => StationsInv
  BY StationsInitInv
<1>2. StationsInv /\ [StationsNext]_stationVars => StationsInv'
  BY StationsKept
<1> QED BY <1>1, <1>2, PTL DEF StationsSpec

LEMMA StationsInvTypes ==
  ASSUME StationsInv
  PROVE  StationsTypeOK
<1>1. ASSUME NEW b \in Babies
      PROVE  /\ baby[b].state \in {"Ready", "SessionStarting", "SessionRunning"}
             /\ baby[b].session \in 0..sessions /\ list[b] \in 0..sessions
             /\ baby[b].link \in Links /\ baby[b].wills \in Nat
             /\ \A i \in DOMAIN toBaby[b] : toBaby[b][i] = "announcement"
  <2>1. baby[b] \in BabyState /\ list[b] \in Nat /\ toBaby[b] \in Seq({"announcement"})
    BY DEF StationsInv, BabiesInv
  <2>2. baby[b].session <= sessions /\ list[b] <= sessions /\ sessions \in Nat
    BY DEF StationsInv, BabiesInv, Started
  <2>3. baby[b].session \in 0..sessions /\ list[b] \in 0..sessions
    <3>1. baby[b].session \in Nat
      BY <2>1 DEF BabyState
    <3> QED BY <2>1, <2>2, <3>1
  <2>4. \A i \in DOMAIN toBaby[b] : toBaby[b][i] = "announcement"
    BY <2>1
  <2> QED BY <2>1, <2>3, <2>4 DEF BabyState, States
<1>2. \A i \in DOMAIN toParent :
        toParent[i].type \in {"announcement", "clean", "unexpected"} /\ toParent[i].from \in Babies
  <2>1. \A i \in DOMAIN toParent : toParent[i] \in Message
    BY DEF StationsInv, BabiesInv, MessagesOK
  <2> QED BY <2>1 DEF Message
<1>3. /\ app.rtc \in DOMAIN NextRtc /\ app.remover \in 0..app.connection
      /\ app.listened \subseteq 1..app.connection
  <2>1. Sound(app)
    BY DEF StationsInv, AppInv
  <2>2. app.rtc \in Rtcs /\ app.remover \in Nat /\ app.connection \in Nat
    BY <2>1 DEF Sound, App
  <2>3. app.rtc \in DOMAIN NextRtc
    BY <2>2 DEF NextRtc, Rtcs
  <2>4. app.remover \in 0..app.connection
    BY <2>1, <2>2 DEF Sound
  <2> QED BY <2>1, <2>3, <2>4 DEF Sound
<1> QED BY <1>1, <1>2, <1>3 DEF StationsTypeOK, StationsInv, BabiesInv, AppInv

LEMMA StationsInvList ==
  ASSUME StationsInv
  PROVE  ListIsTrue
<1> SUFFICES ASSUME Quiet, NEW b \in Babies
             PROVE  /\ baby[b].state = "SessionRunning" /\ baby[b].link = "Connected" /\ b \notin late
                         => list[b] = baby[b].session
                    /\ ~missed => list[b] \in {0, baby[b].session}
  BY DEF ListIsTrue
<1>1. /\ running /\ link = "Connected" /\ toParent = <<>> /\ toBaby[b] = <<>> /\ baby[b].wills = 0
      /\ HeardOf(b)
  BY DEF Quiet, StationsInv
<1>2. \A v : HeardIs(b, v) => list[b] = v
  BY <1>1, EmptySeq DEF HeardIs
<1> QED BY <1>1, <1>2 DEF HeardOf, Up

LEMMA StationsInvRetries ==
  ASSUME StationsInv
  PROVE  FailedIsRetried
BY DEF StationsInv, AppInv

(***************************************************************************)
(* Stations: sessions, lists and messages stay well formed, a listed       *)
(* session has been started, and no connection is listened to that was     *)
(* never made.                                                             *)
(***************************************************************************)
THEOREM StationsTypeCorrect ==
  ASSUME NoneIsNobody, MaxDrops \in Nat
  PROVE  StationsSpec => []StationsTypeOK
<1>1. StationsInv => StationsTypeOK
  BY StationsInvTypes
<1> QED BY <1>1, StationsInvariance, PTL

(***************************************************************************)
(* BabyStationListService and the announcements: at rest the parent's list *)
(* holds the session that each connected baby station runs, unless a late  *)
(* will took it off and the station has not announced itself since; and it *)
(* holds nothing else unless a message was missed.                         *)
(***************************************************************************)
THEOREM ListTrue ==
  ASSUME NoneIsNobody, MaxDrops \in Nat
  PROVE  StationsSpec => []ListIsTrue
<1>1. StationsInv => ListIsTrue
  BY StationsInvList
<1> QED BY <1>1, StationsInvariance, PTL

(***************************************************************************)
(* ParentStation's reconnect_if_needed: a failed connection of a listed    *)
(* session does not stay failed while the link is up, unless its session   *)
(* was joined inside the event of leaving another.                         *)
(***************************************************************************)
THEOREM FailureRetried ==
  ASSUME NoneIsNobody, MaxDrops \in Nat
  PROVE  StationsSpec => []FailedIsRetried
<1>1. StationsInv => FailedIsRetried
  BY StationsInvRetries
<1> QED BY <1>1, StationsInvariance, PTL
=============================================================================
