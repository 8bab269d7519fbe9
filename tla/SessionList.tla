------------------------------ MODULE SessionList ------------------------------
(***************************************************************************)
(* SessionList and the session store, two projections of the event log, on *)
(* the events of one account.  Both are functions of the log: each event   *)
(* is applied when it is logged, as by a request that follows it.  The log *)
(* is any that the handlers write: a session starts on one connection,     *)
(* perhaps more than once, as it is announced again; an end may be logged  *)
(* again, or before a start, which goes through the broker; each connected *)
(* status has a new request, which is disconnected at most once, even      *)
(* after a later one has connected.                                        *)
(***************************************************************************)
EXTENDS Naturals, Sequences, FiniteSets, SequencesExt

CONSTANTS
  ConnectionIds, \* of the baby stations
  SessionIds,    \* numbers, in the order of the list
  MaxKept,       \* maxDisconnectedSessionsPerAccount
  MaxLogged      \* bound: events in the log

VARIABLES
  events, \* the event log
  list,   \* SessionList
  store   \* the ids in the session store

listVars == <<events, list, store>>

EmptyList == [sessions |-> {}, active |-> [c \in ConnectionIds |-> 0],
              kept |-> <<>>, keptByKey |-> [c \in ConnectionIds |-> 0]]

ListInit ==
  events = <<>> /\ list = EmptyList /\ store = {}

-----------------------------------------------------------------------------
(* SessionList: its sessions, the connections it knows to be active with   *)
(* their requests, and the last sessions that were disconnected, in order  *)
(* and by connection.  A listed session is a connected one.                *)

\* removeDisconnectedSessionByConnectionID.
RemoveKept(l, c) ==
  IF l.keptByKey[c] = 0 THEN l
  ELSE [l EXCEPT !.keptByKey[c] = 0, !.kept = RemoveFirstMatch(@, LAMBDA s : s.host = c)]

\* removeDisconnectedSessionByID.
RemoveKeptId(l, n) ==
  LET i == SelectInSeq(l.kept, LAMBDA s : s.id = n) IN
  IF i = 0 THEN l
  ELSE [l EXCEPT !.keptByKey[l.kept[i].host] = 0, !.kept = RemoveAt(@, i)]

\* Mutant of Oldest: the newest of too many disconnected sessions is dropped
\* from the index.
Newest(kept) == kept[Len(kept)]

Oldest(kept) == kept[1]

\* trackDisconnectedSession, with the eviction of the oldest.
Track(l, s) ==
  LET removed == RemoveKept([l EXCEPT !.sessions = @ \ {s}], s.host)
      kept == Append(removed.kept, [id |-> s.id, host |-> s.host])
      evicted == IF Len(kept) > MaxKept
                 THEN [removed EXCEPT !.keptByKey[Oldest(kept).host] = 0, !.kept = Tail(kept)]
                 ELSE [removed EXCEPT !.kept = kept]
  IN  [evicted EXCEPT !.keptByKey[s.host] = s.id]

OnHost(l, c) == {s \in l.sessions : s.host = c}

\* The request of the connection that is active, 0 when it is not known.
ApplySessionStarted(l, e) ==
  LET cleared == RemoveKept([l EXCEPT !.sessions = @ \ OnHost(l, e.host)], e.host)
      others == {s \in cleared.sessions : s.id # e.id}
  IN  [cleared EXCEPT !.sessions =
         others \cup {[id |-> e.id, host |-> e.host, request |-> cleared.active[e.host]]}]

ApplySessionEnded(l, e) ==
  RemoveKeptId([l EXCEPT !.sessions = {s \in @ : s.id # e.id}], e.id)

ApplyClientDisconnected(l, e) ==
  LET inactive == [l EXCEPT !.active[e.host] = 0]
      matching == {s \in OnHost(l, e.host) : s.request = e.id}
  IN  IF matching = {} THEN inactive ELSE Track(inactive, CHOOSE s \in matching : TRUE)

ApplyClientConnected(l, e) ==
  LET active == [l EXCEPT !.active[e.host] = e.id]
      Online(id) == [id |-> id, host |-> e.host, request |-> e.id]
  IN  IF OnHost(l, e.host) # {}
      THEN [active EXCEPT !.sessions =
              (@ \ OnHost(l, e.host)) \cup {Online(s.id) : s \in OnHost(l, e.host)}]
      ELSE IF l.keptByKey[e.host] # 0
      THEN [RemoveKept(active, e.host) EXCEPT !.sessions = @ \cup {Online(l.keptByKey[e.host])}]
      ELSE active

\* All listed sessions are disconnected, in the order of the list.
TrackFirst(l) == Track(l, CHOOSE s \in l.sessions : \A t \in l.sessions : s.id <= t.id)

ApplyServerStarted(l, e) ==
  LET after[n \in 0..Cardinality(l.sessions)] ==
        IF n = 0 THEN [l EXCEPT !.active = [c \in ConnectionIds |-> 0]]
        ELSE TrackFirst(after[n - 1])
  IN  after[Cardinality(l.sessions)]

Apply(l, e) ==
  CASE e.type = "server.started"      -> ApplyServerStarted(l, e)
    [] e.type = "session.started"     -> ApplySessionStarted(l, e)
    [] e.type = "session.ended"       -> ApplySessionEnded(l, e)
    [] e.type = "client.connected"    -> ApplyClientConnected(l, e)
    [] e.type = "client.disconnected" -> ApplyClientDisconnected(l, e)

\* The session store knows starts and ends alone.
ApplyToStore(ids, e) ==
  CASE e.type = "session.started" -> ids \cup {e.id}
    [] e.type = "session.ended" -> ids \ {e.id}
    [] OTHER -> ids

-----------------------------------------------------------------------------
(* The log.  id is the session of a session event, the request of a client *)
(* event, whose host is its connection.                                    *)

IsLogged(type, n) == \E i \in DOMAIN events : events[i].type = type /\ events[i].id = n
Requests == {events[i].id : i \in {j \in DOMAIN events : events[j].type = "client.connected"}}

LogEvent(type, c, n) ==
  LET e == [type |-> type, host |-> c, id |-> n] IN
  /\ Len(events) < MaxLogged
  /\ events' = Append(events, e)
  /\ list' = Apply(list, e)
  /\ store' = ApplyToStore(store, e)

SessionStarted(n, c) ==
  /\ \A i \in DOMAIN events :
       events[i].type = "session.started" /\ events[i].id = n => events[i].host = c
  /\ LogEvent("session.started", c, n)

EndSession(n) == LogEvent("session.ended", "none", n)

ClientConnected(c) == LogEvent("client.connected", c, Cardinality(Requests) + 1)

ClientDisconnected(r, c) ==
  /\ \E i \in DOMAIN events : events[i] = [type |-> "client.connected", host |-> c, id |-> r]
  /\ ~IsLogged("client.disconnected", r)
  /\ LogEvent("client.disconnected", c, r)

ServerStarted == LogEvent("server.started", "none", 0)

ListNext ==
  \/ \E c \in ConnectionIds :
       \/ ClientConnected(c)
       \/ \E n \in SessionIds : SessionStarted(n, c)
       \/ \E r \in Requests : ClientDisconnected(r, c)
  \/ \E n \in SessionIds : EndSession(n)
  \/ ServerStarted

ListSpec == ListInit /\ [][ListNext]_listVars

-----------------------------------------------------------------------------
ListTypeOK ==
  /\ Len(events) <= MaxLogged
  /\ \A s \in list.sessions :
       s.host \in ConnectionIds /\ s.id \in SessionIds /\ s.request \in Requests \cup {0}
  /\ list.active \in [ConnectionIds -> Requests \cup {0}]
  /\ list.keptByKey \in [ConnectionIds -> SessionIds \cup {0}]
  /\ store \subseteq SessionIds

KnownSessions == {s.id : s \in list.sessions} \cup {s.id : s \in ToSet(list.kept)}

\* Each session is in one place, and both indexes of the kept ones agree.
EachInOnePlace ==
  /\ \A s, t \in list.sessions : s.host = t.host => s = t
  /\ \A s \in list.sessions : list.keptByKey[s.host] = 0
  /\ Len(list.kept) <= MaxKept
  /\ \A i \in DOMAIN list.kept : list.keptByKey[list.kept[i].host] = list.kept[i].id
  /\ \A i, j \in DOMAIN list.kept : list.kept[i].host = list.kept[j].host => i = j
  /\ \A c \in ConnectionIds :
       list.keptByKey[c] # 0 => \E i \in DOMAIN list.kept : list.kept[i].host = c

\* What is known was started, was not ended since, and was not replaced.
KnownIsCurrent ==
  \A n \in KnownSessions : \E i \in DOMAIN events :
    /\ events[i].type = "session.started" /\ events[i].id = n
    /\ \A j \in i + 1..Len(events) :
         /\ ~(events[j].type = "session.ended" /\ events[j].id = n)
         /\ ~(events[j].type = "session.started" /\ events[j].host = events[i].host)

\* A session is listed from its start until something happens to it.
OnlineIsListed ==
  \A i \in DOMAIN events :
    (/\ events[i].type = "session.started"
     /\ \A j \in i + 1..Len(events) :
          /\ events[j].type # "server.started"
          /\ events[j].type = "session.ended" => events[j].id # events[i].id
          /\ events[j].host = events[i].host => events[j].type = "client.connected")
    => events[i].id \in {s.id : s \in list.sessions}

IsStatus(i, c) ==
  events[i].type \in {"client.connected", "client.disconnected"} /\ events[i].host = c

\* No session is listed when the last word of its connection is the goodbye to
\* its last hello, with nothing but session events between the two.
OfflineIsNotListed ==
  \A p, d \in DOMAIN events :
    (/\ p < d
     /\ events[p].type = "client.connected" /\ events[d].type = "client.disconnected"
     /\ events[p].host = events[d].host /\ events[p].id = events[d].id
     /\ \A j \in p + 1..Len(events) :
          j # d => events[j].type # "server.started" /\ ~IsStatus(j, events[p].host)
     /\ \A j \in d + 1..Len(events) :
          ~(events[j].type = "session.started" /\ events[j].host = events[p].host))
    => OnHost(list, events[p].host) = {}

(***************************************************************************)
(* DisconnectedIsUnlisted: once a connection said goodbye to its last      *)
(* hello and nothing was logged of it since, no session of it is listed.   *)
(* So says src/documentation/mqtt-topics.md:138: "Session projections      *)
(* remove sessions hosted by the disconnected connection."  The code does  *)
(* not: a session that starts on a connection the list forgot when the     *)
(* server started is listed with the request "TODO", which no goodbye has. *)
(***************************************************************************)
DisconnectedIsUnlisted ==
  \A c \in ConnectionIds, p, d \in DOMAIN events :
    (/\ p < d
     /\ events[p] = [type |-> "client.connected", host |-> c, id |-> events[d].id]
     /\ events[d].type = "client.disconnected" /\ events[d].host = c
     /\ \A j \in p + 1..Len(events) : j # d => ~IsStatus(j, c)
     /\ \A j \in d + 1..Len(events) : events[j].host # c)
    => OnHost(list, c) = {}

(***************************************************************************)
(* SessionList says what its log says, and the session store knows every   *)
(* session that SessionList does.                                          *)
(***************************************************************************)
SessionListIsTrue ==
  /\ EachInOnePlace
  /\ KnownIsCurrent
  /\ OnlineIsListed
  /\ OfflineIsNotListed
  /\ KnownSessions \subseteq store
=============================================================================
