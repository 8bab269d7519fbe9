------------------------------ MODULE UsageStats ------------------------------
(***************************************************************************)
(* Three ways to add up how long the sessions of an account lasted, from   *)
(* one event log: UsageStats of the backend, which keeps a few of the      *)
(* disconnected sessions ready to come back; lowmemory, the model of it in *)
(* analyze-usage-stats; and fullstate, which forgets nothing and is there  *)
(* to be compared with.  A unit of time passes from event to event.  Any   *)
(* event may follow any other: a start is announced again, an end is       *)
(* logged twice or before its start, a connection is lost while it is      *)
(* away.  Only the connection of a session stays the same.                 *)
(***************************************************************************)
EXTENDS Naturals, Integers, Sequences, FiniteSets, SequencesExt

CONSTANTS
  Conns,        \* connection ids of the baby stations
  SessionNos,   \* ids of the sessions
  KeptMax,      \* maxDisconnectedSessionsPerAccount, the sessions that are kept
  MaxTime       \* bound: events in the log

VARIABLES
  clock,     \* events in the log
  begun,     \* per session: its host and start, or NotBegun
  usage,     \* UsageStats
  low,       \* lowmemory.Stats
  full,      \* fullstate.Stats
  irregular  \* history: what the log held that the three take differently

usageVars == <<clock, begun, usage, low, full, irregular>>

NotBegun == [host |-> "none", start |-> 0]
NotKept  == [id |-> 0, host |-> "none", start |-> 0, left |-> 0]

\* settled: the time of the sessions that ended.  active, away: sessionInfoByID
\* and disconnectedSessionByID.  kept, index: disconnectedSessionsByAccountID and
\* disconnectedSessionByConnectionID.
NewUsageStats ==
  [settled |-> 0, active |-> {}, away |-> {},
   kept |-> <<>>, index |-> [c \in Conns |-> NotKept]]

NewLow == [stats |-> NewUsageStats, evicted |-> [c \in Conns |-> NotKept], evictions |-> 0]

NewFull == [settled |-> 0, sessions |-> {}, downs |-> [c \in Conns |-> 0]]

UsageInit ==
  /\ clock = 0 /\ begun = [n \in SessionNos |-> NotBegun]
  /\ usage = NewUsageStats /\ low = NewLow /\ full = NewFull
  /\ irregular = {}

HostedBy(sessions, c) == {s \in sessions : s.host = c}
WithId(sessions, n) == {s \in sessions : s.id = n}
Duration(sessions, time) == SumFunction([s \in sessions |-> time - s.start])

-----------------------------------------------------------------------------
(* UsageStats *)

\* removeDisconnectedSessionByConnectionID.
RemoveDisconnected(u, c) ==
  IF u.index[c] = NotKept THEN u
  ELSE [u EXCEPT !.index[c] = NotKept, !.kept = RemoveFirstMatch(@, LAMBDA s : s.host = c)]

\* removeDisconnectedSessionByID.
RemoveDisconnectedId(u, n) ==
  LET i == SelectInSeq(u.kept, LAMBDA s : s.id = n) IN
  IF i = 0 THEN u
  ELSE [u EXCEPT !.index[u.kept[i].host] = NotKept, !.kept = RemoveAt(@, i)]

\* trackDisconnectedSession, with the eviction of the oldest.
TrackDisconnected(u, s, time) ==
  LET gone == RemoveDisconnected([u EXCEPT !.active = @ \ {s}], s.host)
      left == [id |-> s.id, host |-> s.host, start |-> s.start, left |-> time]
      kept == Append(gone.kept, left)
      full0 == Len(kept) > KeptMax
      evicted == IF full0 THEN [gone EXCEPT !.index[kept[1].host] = NotKept] ELSE gone
  IN  [evicted EXCEPT !.away = (@ \ WithId(@, s.id)) \cup {left},
                      !.kept = IF full0 THEN Tail(kept) ELSE kept,
                      !.index[s.host] = left]

UsageSessionStarted(u, s) ==
  LET gone == RemoveDisconnected([u EXCEPT !.away = @ \ WithId(@, u.index[s.host].id)], s.host) IN
  [gone EXCEPT !.active = (@ \ (HostedBy(@, s.host) \cup WithId(@, s.id))) \cup {s}]

UsageSessionEnded(u, n, time) ==
  IF WithId(u.active, n) # {}
  THEN [u EXCEPT !.settled = @ + Duration(WithId(u.active, n), time),
                 !.active = @ \ WithId(@, n)]
  ELSE LET left == WithId(u.away, n) IN
       IF left = {} THEN u
       ELSE RemoveDisconnectedId([u EXCEPT !.settled = @ + Duration(left, time),
                                           !.away = @ \ left], n)

\* Mutant of UsageClientConnected: the session that is back is still away.
CountTwice(u, c) ==
  LET back == u.index[c] IN
  IF back = NotKept THEN u
  ELSE [RemoveDisconnected(u, c) EXCEPT
          !.active = @ \cup {[id |-> back.id, host |-> c, start |-> back.start]}]

UsageClientConnected(u, c) ==
  LET back == u.index[c] IN
  IF back = NotKept THEN u
  ELSE [RemoveDisconnected(u, c) EXCEPT
          !.away = @ \ WithId(@, back.id),
          !.active = @ \cup {[id |-> back.id, host |-> c, start |-> back.start]}]

UsageClientDisconnected(u, c, clean, time) ==
  LET there == HostedBy(u.active, c) IN
  CASE there = {} -> u
    [] there # {} /\ clean ->
         [u EXCEPT !.settled = @ + Duration(there, time), !.active = @ \ there]
    [] OTHER -> TrackDisconnected(u, CHOOSE s \in there : TRUE, time)

\* The sessions are taken in the order of a map, which is any.
UsageServerStarted(u, order, time) ==
  LET after[n \in 0..Len(order)] ==
        IF n = 0 THEN u ELSE TrackDisconnected(after[n - 1], order[n], time)
  IN  after[Len(order)]

TotalDuration(u, time) ==
  u.settled + Duration(u.active, time) + SumFunction([s \in u.away |-> s.left - s.start])

-----------------------------------------------------------------------------
(* lowmemory: the same, but it remembers what it evicted.                  *)

LowTrack(l, s, time) ==
  LET others == RemoveDisconnected(l.stats, s.host).kept
      tracked == [l EXCEPT !.stats = TrackDisconnected(@, s, time)]
  IN  IF Len(others) < KeptMax THEN tracked
      ELSE [tracked EXCEPT !.evicted[others[1].host] = others[1], !.evictions = @ + 1]

LowSessionStarted(l, s) ==
  LET started == UsageSessionStarted(l.stats, s)
      away == started.away \ WithId(started.away, l.evicted[s.host].id)
  IN  [l EXCEPT !.stats = [started EXCEPT !.away = away], !.evicted[s.host] = NotKept]

\* A session that is neither active nor away may still be among the evicted.
LowSessionEnded(l, n, time) ==
  LET late == {l.evicted[c] : c \in {d \in Conns : l.evicted[d].id = n}} IN
  IF WithId(l.stats.active \cup l.stats.away, n) # {} \/ late = {}
  THEN [l EXCEPT !.stats = UsageSessionEnded(@, n, time)]
  ELSE LET e == CHOOSE s \in late : TRUE IN
       [l EXCEPT !.stats.settled = @ + time - e.start, !.evicted[e.host] = NotKept]

LowClientConnected(l, c) ==
  [l EXCEPT !.stats = UsageClientConnected(@, c),
            !.evicted[c] = IF l.stats.index[c] # NotKept THEN @ ELSE NotKept]

LowClientDisconnected(l, c, clean, time) ==
  LET there == HostedBy(l.stats.active, c) IN
  IF there = {} \/ clean
  THEN [l EXCEPT !.stats = UsageClientDisconnected(@, c, clean, time)]
  ELSE LowTrack(l, CHOOSE s \in there : TRUE, time)

LowServerStarted(l, order, time) ==
  LET after[n \in 0..Len(order)] ==
        IF n = 0 THEN l ELSE LowTrack(after[n - 1], order[n], time)
  IN  after[Len(order)]

-----------------------------------------------------------------------------
(* fullstate: every session, and when each connection was lost.            *)

FullServerStarted(f, time) ==
  [f EXCEPT !.downs = [c \in Conns |->
     IF HostedBy(f.sessions, c) # {} /\ @[c] = 0 THEN time ELSE @[c]]]

FullSessionStarted(f, s) ==
  [f EXCEPT !.sessions = (@ \ (HostedBy(@, s.host) \cup WithId(@, s.id))) \cup {s}]

FullSessionEnded(f, n, time) ==
  LET ending == WithId(f.sessions, n) IN
  [f EXCEPT !.settled = @ + Duration(ending, time),
            !.sessions = @ \ ending,
            !.downs = [c \in Conns |-> IF HostedBy(ending, c) # {} THEN 0 ELSE @[c]]]

FullClientConnected(f, c) == [f EXCEPT !.downs[c] = 0]

FullClientDisconnected(f, c, clean, time) ==
  LET there == HostedBy(f.sessions, c) IN
  CASE there = {} \/ f.downs[c] # 0 -> f
    [] there # {} /\ f.downs[c] = 0 /\ clean ->
         [f EXCEPT !.settled = @ + Duration(there, time), !.sessions = @ \ there]
    [] OTHER -> [f EXCEPT !.downs[c] = time]

FullTotalDuration(f, time) ==
  f.settled + SumFunction([s \in f.sessions |->
                             (IF f.downs[s.host] # 0 THEN f.downs[s.host] ELSE time) - s.start])

-----------------------------------------------------------------------------
(* The log *)

Tick == clock < MaxTime /\ clock' = clock + 1

LogSessionStarted(n, c) ==
  /\ Tick /\ begun[n].host \in {"none", c}
  /\ begun' = [begun EXCEPT ![n] = IF @ = NotBegun THEN [host |-> c, start |-> clock'] ELSE @]
  /\ LET s == [id |-> n, host |-> c, start |-> begun'[n].start] IN
       /\ usage' = UsageSessionStarted(usage, s)
       /\ low' = LowSessionStarted(low, s)
       /\ full' = FullSessionStarted(full, s)
  /\ irregular' = irregular
       \cup (IF full.downs[c] # 0 THEN {"started while away"} ELSE {})
       \cup (IF begun[n] # NotBegun THEN {"started again"} ELSE {})

LogSessionEnded(n) ==
  /\ Tick
  /\ usage' = UsageSessionEnded(usage, n, clock')
  /\ low' = LowSessionEnded(low, n, clock')
  /\ full' = FullSessionEnded(full, n, clock')
  /\ UNCHANGED <<begun, irregular>>

LogClientConnected(c) ==
  /\ Tick
  /\ usage' = UsageClientConnected(usage, c)
  /\ low' = LowClientConnected(low, c)
  /\ full' = FullClientConnected(full, c)
  /\ UNCHANGED <<begun, irregular>>

LogClientDisconnected(c, clean) ==
  /\ Tick
  /\ usage' = UsageClientDisconnected(usage, c, clean, clock')
  /\ low' = LowClientDisconnected(low, c, clean, clock')
  /\ full' = FullClientDisconnected(full, c, clean, clock')
  /\ UNCHANGED <<begun, irregular>>

LogServerStarted ==
  /\ Tick
  /\ \E order \in SetToSeqs(usage.active) : usage' = UsageServerStarted(usage, order, clock')
  /\ \E order \in SetToSeqs(low.stats.active) : low' = LowServerStarted(low, order, clock')
  /\ full' = FullServerStarted(full, clock')
  /\ UNCHANGED <<begun, irregular>>

UsageNext ==
  \/ \E n \in SessionNos : LogSessionEnded(n) \/ \E c \in Conns : LogSessionStarted(n, c)
  \/ \E c \in Conns :
       LogClientConnected(c) \/ \E clean \in BOOLEAN : LogClientDisconnected(c, clean)
  \/ LogServerStarted

UsageSpec == UsageInit /\ [][UsageNext]_usageVars

-----------------------------------------------------------------------------
UsageTypeOK ==
  /\ clock \in 0..MaxTime
  /\ begun \in [SessionNos -> [host : Conns \cup {"none"}, start : 0..MaxTime]]
  /\ \A u \in {usage, low.stats} :
       /\ u.settled \in Nat /\ Len(u.kept) <= KeptMax
       /\ \A s \in u.active \cup u.away : s.host \in Conns /\ s.start \in 1..clock
  /\ low.evictions \in Nat /\ full.settled \in Int

(***************************************************************************)
(* A session counts once, as active or as away, unless it was evicted and  *)
(* then announced again; a session that can come back is one that counts   *)
(* as away.  As long as nothing was evicted, lowmemory is the UsageStats   *)
(* it stands for, and both add up to what fullstate says, unless a session *)
(* started on a connection that was away, which fullstate takes to be away *)
(* from before its start.                                                  *)
(***************************************************************************)
UsageIsTrue ==
  /\ \A u \in {usage, low.stats} :
       /\ \A c \in Conns : u.index[c] # NotKept =>
            u.index[c] \in u.away /\ u.index[c] \in ToSet(u.kept)
       /\ \/ "started again" \in irregular /\ low.evictions > 0
          \/ \A s \in u.active : WithId(u.away, s.id) = {}
  /\ low.evictions = 0 =>
       /\ [low.stats EXCEPT !.kept = ToSet(@)] = [usage EXCEPT !.kept = ToSet(@)]
       /\ \/ "started while away" \in irregular
          \/ FullTotalDuration(full, clock) = TotalDuration(usage, clock)
=============================================================================
