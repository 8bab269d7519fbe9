------------------------------- MODULE Stations -------------------------------
(***************************************************************************)
(* Baby stations and one parent station, which finds and follows them by   *)
(* messages alone: the baby's SessionService announces its session, the    *)
(* parent's BabyStationListService keeps what it heard, its SessionService *)
(* joins one session, and ParentStation ties them together with listeners  *)
(* that call each other inside one event.  MQTTService is reduced to its   *)
(* link: with clean sessions at QoS 0, a station that is not connected     *)
(* misses what is published meanwhile.                                     *)
(***************************************************************************)
EXTENDS Naturals, Sequences, FiniteSets

CONSTANTS
  Babies,        \* client ids of the baby stations
  MaxSessions,   \* bound: sessions started, over all baby stations
  MaxDrops,      \* bound: links that drop or are stopped by the parent
  MaxConnections \* bound: RTCConnections made

VARIABLES
  baby,       \* per baby station: its SessionService, its link and the wills it left
  sessions,   \* sessions started so far: their numbers are their ids
  toBaby,     \* per baby station: parent announcements on their way to it
  toParent,   \* messages on their way to the parent
  running,    \* ParentStation.running
  link,       \* the parent's link
  visible,    \* document.visibilityState
  recent,     \* was the last visibilitychange less than two seconds ago?
  list,       \* the list service's session of each client, 0 for none
  app,        \* the parent's session, its connection, and who listens to it
  drops,      \* links dropped or stopped so far
  missed,     \* history: did a message not reach the parent?
  rejoined,   \* history: was a session joined inside the event of leaving one,
              \* or instead of another?
  late        \* history: whose will reached the broker's subscribers when it
              \* was back already, and who has not announced itself since

babyVars   == <<baby, sessions>>
parentVars == <<running, link, visible, recent, list, app>>
stationVars == <<babyVars, toBaby, toParent, parentVars, drops, missed, rejoined, late>>

Links == {"Ready", "Connecting", "Connected", "OfflineAndReconnecting"}
NotJoined == [baby |-> "none", id |-> 0]

StationsInit ==
  /\ baby = [b \in Babies |-> [state |-> "Ready", session |-> 0, link |-> "Ready", wills |-> 0]]
  /\ sessions = 0
  /\ toBaby = [b \in Babies |-> <<>>] /\ toParent = <<>>
  /\ running = FALSE /\ link = "Ready" /\ visible = TRUE /\ recent = FALSE
  /\ list = [b \in Babies |-> 0]
  /\ app = [session |-> NotJoined, connection |-> 0, rtc |-> "closed",
            listened |-> {}, remover |-> 0]
  /\ drops = 0 /\ missed = FALSE /\ rejoined = FALSE /\ late = {}

\* The broker hands a message to the parent only while it is subscribed.
SendToParent(m) ==
  IF link = "Connected" THEN toParent' = Append(toParent, m) /\ UNCHANGED missed
  ELSE missed' = TRUE /\ UNCHANGED toParent

Announcement(b) == [type |-> "announcement", from |-> b, id |-> baby'[b].session]
Disconnected(b, reason) == [type |-> reason, from |-> b, id |-> 0]

-----------------------------------------------------------------------------
(* The baby station's SessionService *)

StartSession(b) ==
  /\ baby[b].state = "Ready" /\ baby[b].link = "Ready" /\ sessions < MaxSessions
  /\ baby' = [baby EXCEPT ![b].state = "SessionStarting", ![b].link = "Connecting"]
  /\ UNCHANGED <<sessions, toBaby, toParent, parentVars, drops, missed, rejoined, late>>

\* Connected: SessionStarting makes the session, SessionRunning announces its
\* own again (its subscription makes the link pass SubscribingOnConnect).
\* Nothing makes it wait for the will of its last link.
BabyConnected(b) ==
  /\ baby[b].link \in {"Connecting", "OfflineAndReconnecting"}
  /\ IF baby[b].state = "SessionStarting"
     THEN /\ sessions' = sessions + 1
          /\ baby' = [baby EXCEPT ![b] = [state |-> "SessionRunning", session |-> sessions',
                                          link |-> "Connected", wills |-> baby[b].wills]]
     ELSE baby' = [baby EXCEPT ![b].link = "Connected"] /\ UNCHANGED sessions
  /\ SendToParent(Announcement(b))
  /\ late' = late \ {b}
  /\ UNCHANGED <<toBaby, parentVars, drops, rejoined>>

\* end_session: unsubscribe, disconnect cleanly.
EndSession(b) ==
  /\ baby[b].state = "SessionRunning"
  /\ baby' = [baby EXCEPT ![b] = [state |-> "Ready", session |-> 0, link |-> "Ready",
                                  wills |-> baby[b].wills]]
  /\ IF baby[b].link = "Connected" THEN SendToParent(Disconnected(b, "clean"))
     ELSE UNCHANGED <<toParent, missed>>
  /\ toBaby' = [toBaby EXCEPT ![b] = <<>>]
  /\ UNCHANGED <<sessions, parentVars, drops, rejoined, late>>

\* handle_parent_station_announcement: answer on the parent's control inbox.
BabyReceives(b) ==
  /\ toBaby[b] # <<>>
  /\ toBaby' = [toBaby EXCEPT ![b] = Tail(@)]
  /\ UNCHANGED baby
  /\ IF baby[b].state = "SessionRunning" /\ baby[b].link = "Connected"
     THEN SendToParent(Announcement(b)) /\ late' = late \ {b}
     ELSE UNCHANGED <<toParent, missed, late>>
  /\ UNCHANGED <<sessions, parentVars, drops, rejoined>>

BabyDrops(b) ==
  /\ baby[b].link = "Connected" /\ drops < MaxDrops
  /\ drops' = drops + 1
  /\ baby' = [baby EXCEPT ![b].link = "OfflineAndReconnecting", ![b].wills = @ + 1]
  /\ toBaby' = [toBaby EXCEPT ![b] = <<>>]
  /\ UNCHANGED <<sessions, toParent, parentVars, missed, rejoined, late>>

\* The broker publishes the will some time after the loss: no sooner, and
\* perhaps only when the client is back.
Will(b) ==
  /\ baby[b].wills > 0
  /\ baby' = [baby EXCEPT ![b].wills = @ - 1]
  /\ SendToParent(Disconnected(b, "unexpected"))
  /\ late' = IF baby[b].link = "Connected" THEN late \cup {b} ELSE late
  /\ UNCHANGED <<sessions, toBaby, parentVars, drops, rejoined>>

-----------------------------------------------------------------------------
(* The parent's SessionService and the listeners of ParentStation, as      *)
(* functions of app: one event runs them all, nested ones included.        *)

Exists(a, l) == a.session # NotJoined /\ l[a.session.baby] = a.session.id

\* reconnect_if_needed: only a failed connection, a connected link and a
\* session that is still listed.
ReconnectIfNeeded(a, l, k) ==
  IF a.rtc = "failed" /\ k = "Connected" /\ Exists(a, l) THEN [a EXCEPT !.rtc = "new"] ELSE a

\* join_session of NotJoined and its event: the connection is new, and
\* handle_session_state_changed listens to it.
JoinSession(a, b, l) ==
  [session |-> [baby |-> b, id |-> l[b]], connection |-> a.connection + 1, rtc |-> "new",
   listened |-> a.listened \cup {a.connection + 1}, remover |-> a.connection + 1]

\* The sessions auto_connect_if_needed may find first.
Joinable(l, v) == IF v THEN {b \in Babies : l[b] # 0} ELSE {}

AutoConnect(a, l, v) ==
  IF a.session = NotJoined /\ Joinable(l, v) # {}
  THEN {JoinSession(a, b, l) : b \in Joinable(l, v)} ELSE {a}

\* leave_session and its event: auto_connect_if_needed comes first, and what
\* is removed afterwards is the listener of whoever was joined last.
LeaveSession(a, l, v) ==
  {[c EXCEPT !.listened = @ \ {c.remover}, !.remover = 0] :
     c \in AutoConnect([a EXCEPT !.session = NotJoined, !.rtc = "closed"], l, v)}

\* Mutant of LeaveReplaced: a replaced session stays joined.
StayJoined(a, l, v) == {a}

\* leave_replaced_session_if_needed.
LeaveReplaced(a, l, v) ==
  IF a.session # NotJoined /\ l[a.session.baby] \notin {0, a.session.id}
  THEN LeaveSession(a, l, v) ELSE {a}

\* Mutant of ListChanged: a failed connection is left alone.
ListChangedOnly(a, l) ==
  UNION {AutoConnect(c, l, visible) : c \in LeaveReplaced(a, l, visible)}

\* handle_baby_station_list_changed.
ListChanged(a, l) ==
  UNION {{ReconnectIfNeeded(d, l, link) : d \in AutoConnect(c, l, visible)} :
           c \in LeaveReplaced(a, l, visible)}

\* Whoever is joined when the event ends was not joined before it began.
Becomes(candidates) ==
  /\ app' \in candidates
  /\ app'.connection <= MaxConnections
  /\ rejoined' = (rejoined \/ (app.session # NotJoined /\ app'.connection # app.connection))

-----------------------------------------------------------------------------
(* The parent station *)

Start ==
  /\ ~running /\ link = "Ready"
  /\ running' = TRUE
  /\ link' = "Connecting"
  /\ UNCHANGED <<babyVars, toBaby, toParent, visible, recent, list, app, drops, missed, rejoined, late>>

\* stop: the list is cleared, the link is closed, the session stays joined.
Stop ==
  /\ running /\ drops < MaxDrops
  /\ drops' = drops + 1
  /\ running' = FALSE /\ link' = "Ready"
  /\ list' = [b \in Babies |-> 0]
  /\ toParent' = <<>> /\ missed' = TRUE
  /\ UNCHANGED <<babyVars, toBaby, visible, recent, app, rejoined, late>>

\* restore_session_service_connection_if_needed.  The list service keeps its
\* subscriptions while the station runs, so that a reconnecting link always
\* becomes Connected from SubscribingOnConnect.
PreviousState == IF running THEN "SubscribingOnConnect" ELSE link

RestoreIfNeeded(a) ==
  IF PreviousState = "OfflineAndReconnecting" /\ recent /\ visible /\ a.session # NotJoined
  THEN [a EXCEPT !.rtc = "new"] ELSE a

\* handle_mqtt_state_changed with the state Connected: announce, then reconnect.
ParentConnected ==
  /\ link \in {"Connecting", "OfflineAndReconnecting"}
  /\ link' = "Connected"
  /\ toBaby' = [b \in Babies |->
       IF baby[b].state = "SessionRunning" /\ baby[b].link = "Connected"
       THEN Append(toBaby[b], "announcement") ELSE toBaby[b]]
  /\ app' = RestoreIfNeeded(ReconnectIfNeeded(app, list, link'))
  /\ UNCHANGED <<babyVars, toParent, running, visible, recent, list, drops, missed, rejoined, late>>

ParentDrops ==
  /\ link = "Connected" /\ drops < MaxDrops
  /\ drops' = drops + 1
  /\ link' = "OfflineAndReconnecting"
  /\ missed' = (missed \/ toParent # <<>>)
  /\ toParent' = <<>>
  /\ UNCHANGED <<babyVars, toBaby, running, visible, recent, list, app, rejoined, late>>

\* Mutant of ReceiveAnnouncement: a client that is listed keeps its session.
KeepListed(m) ==
  /\ m.type = "announcement"
  /\ list' = [list EXCEPT ![m.from] = IF @ = 0 THEN m.id ELSE @]
  /\ Becomes(IF list' = list THEN {app} ELSE ListChanged(app, list'))

\* The list service, and then the listener of its state.
ReceiveAnnouncement(m) ==
  /\ m.type = "announcement"
  /\ list' = [list EXCEPT ![m.from] = m.id]
  /\ Becomes(IF list' = list THEN {app} ELSE ListChanged(app, list'))

\* A clean goodbye reaches the list service first, then the session that
\* subscribed to this client; an unexpected one only the list.
ReceiveDisconnected(m) ==
  /\ m.type \in {"clean", "unexpected"}
  /\ list' = [list EXCEPT ![m.from] = 0]
  /\ Becomes(LET changed == IF list' = list THEN {app} ELSE ListChanged(app, list')
             IN  UNION {IF m.type = "clean" /\ a.session.baby = m.from
                        THEN LeaveSession(a, list', visible) ELSE {a} : a \in changed})

ParentReceives ==
  /\ toParent # <<>> /\ link = "Connected"
  /\ toParent' = Tail(toParent)
  /\ ReceiveAnnouncement(Head(toParent)) \/ ReceiveDisconnected(Head(toParent))
  /\ UNCHANGED <<babyVars, toBaby, running, link, visible, recent, drops, missed, late>>

HandleVisibilitychange ==
  /\ visible' = ~visible
  /\ recent' = TRUE
  /\ Becomes({ReconnectIfNeeded(a, list, link) : a \in AutoConnect(app, list, visible')})
  /\ UNCHANGED <<babyVars, toBaby, toParent, running, link, list, drops, missed, late>>

TimePasses ==
  /\ recent
  /\ recent' = FALSE
  /\ UNCHANGED <<babyVars, toBaby, toParent, running, link, visible, list, app, drops, missed, rejoined, late>>

\* The user picks a session, or leaves the joined one.  Joined.join_session
\* replaces the connection; its event neither leaves nor joins.
PickSession ==
  /\ \E b \in Babies :
       /\ list[b] # 0
       /\ [baby |-> b, id |-> list[b]] # app.session
       /\ Becomes({IF app.session = NotJoined THEN JoinSession(app, b, list)
                   ELSE [JoinSession(app, b, list) EXCEPT !.listened = app.listened,
                                                          !.remover = app.remover]})
  /\ UNCHANGED <<babyVars, toBaby, toParent, running, link, visible, recent, list, drops, missed, late>>

PickNone ==
  /\ app.session # NotJoined
  /\ Becomes(LeaveSession(app, list, visible))
  /\ UNCHANGED <<babyVars, toBaby, toParent, running, link, visible, recent, list, drops, missed, late>>

\* handle_connectionstatechange_event, and the listener when there is one.
NextRtc == [new |-> {"connecting"}, connecting |-> {"connected", "unable_to_connect"},
            connected |-> {"disconnected"}, disconnected |-> {"connected", "failed"},
            failed |-> {}, unable_to_connect |-> {}, closed |-> {}]

ConnectionStateChanges ==
  /\ \E s \in NextRtc[app.rtc] :
       LET changed == [app EXCEPT !.rtc = s] IN
         app' = IF app.connection \in app.listened
                THEN ReconnectIfNeeded(changed, list, link) ELSE changed
  /\ UNCHANGED <<babyVars, toBaby, toParent, running, link, visible, recent, list, drops, missed, rejoined, late>>

StationsNext ==
  \/ \E b \in Babies :
       StartSession(b) \/ BabyConnected(b) \/ EndSession(b) \/ BabyReceives(b)
         \/ BabyDrops(b) \/ Will(b)
  \/ Start \/ Stop \/ ParentConnected \/ ParentDrops \/ ParentReceives
  \/ HandleVisibilitychange \/ TimePasses \/ PickSession \/ PickNone
  \/ ConnectionStateChanges

StationsSpec == StationsInit /\ [][StationsNext]_stationVars

-----------------------------------------------------------------------------
StationsTypeOK ==
  /\ \A b \in Babies :
       /\ baby[b].state \in {"Ready", "SessionStarting", "SessionRunning"}
       /\ baby[b].session \in 0..sessions /\ list[b] \in 0..sessions
       /\ baby[b].link \in Links /\ baby[b].wills \in Nat
       /\ \A i \in DOMAIN toBaby[b] : toBaby[b][i] = "announcement"
  /\ \A i \in DOMAIN toParent :
       toParent[i].type \in {"announcement", "clean", "unexpected"} /\ toParent[i].from \in Babies
  /\ running \in BOOLEAN /\ visible \in BOOLEAN /\ recent \in BOOLEAN /\ link \in Links
  /\ app.rtc \in DOMAIN NextRtc /\ app.remover \in 0..app.connection
  /\ app.listened \subseteq 1..app.connection
  /\ drops \in 0..MaxDrops /\ missed \in BOOLEAN /\ rejoined \in BOOLEAN
  /\ late \subseteq Babies

Quiet ==
  /\ running /\ link = "Connected" /\ toParent = <<>>
  /\ \A b \in Babies : toBaby[b] = <<>> /\ baby[b].wills = 0

(***************************************************************************)
(* The list is true at rest: a baby station that runs a session on a live  *)
(* link is listed with it, as each side announces itself when its link     *)
(* comes back and the other one answers; and what is listed runs, unless a *)
(* message missed the parent.  (A goodbye that was missed is never made up *)
(* for: the list keeps the ended session until its client starts another   *)
(* one.)  Two words of the first part are assumptions: no will is due, and *)
(* none came after the station was back, for such a will takes the         *)
(* returned station off the list until it announces itself once more: see  *)
(* ListIsConnectable.                                                      *)
(***************************************************************************)
ListIsTrue ==
  Quiet => \A b \in Babies :
             /\ baby[b].state = "SessionRunning" /\ baby[b].link = "Connected" /\ b \notin late
                  => list[b] = baby[b].session
             /\ ~missed => list[b] \in {0, baby[b].session}

(***************************************************************************)
(* What src/documentation/mqtt-topics.md:142-143 says of the parent's      *)
(* list: it represents the baby stations that are currently connectable.   *)
(* The list service takes every status for one of the present link         *)
(* (BabyStationListService/index.ts:103 compares no request), so that a    *)
(* late will of the last link removes a station that is back.              *)
(***************************************************************************)
ListIsConnectable ==
  Quiet => \A b \in Babies :
             baby[b].state = "SessionRunning" /\ baby[b].link = "Connected"
               => list[b] = baby[b].session

(***************************************************************************)
(* A failed connection is retried by whatever makes the retry possible:    *)
(* the failure itself, the link, the list.  It takes a connection that     *)
(* ParentStation listens to, which a session joined inside the event of    *)
(* leaving another (or instead of it) has not.                             *)
(***************************************************************************)
FailedIsRetried ==
  app.rtc = "failed" /\ link = "Connected" /\ Exists(app, list) => rejoined

(***************************************************************************)
(* The parent follows: with the page visible and both links up for good,   *)
(* it is never left joined to a session that its baby station has          *)
(* replaced, whatever was missed before; and it is in the end joined,      *)
(* unless a late will has taken the station off the list meanwhile.        *)
(***************************************************************************)
Watched(b) ==
  /\ running /\ visible /\ link = "Connected" /\ app.connection < MaxConnections
  /\ baby[b].state = "SessionRunning" /\ baby[b].link = "Connected"

Follows ==
  \A b \in Babies :
    /\ <>[]Watched(b) => <>[](app.session.baby = b => app.session.id = baby[b].session)
    /\ <>[](Watched(b) /\ b \notin late) => <>[](app.session # NotJoined)

(***************************************************************************)
(* The comment at ParentStation/index.ts:110, and the test that goes with  *)
(* it: a link that comes back just after the page was shown again restores *)
(* the connection of the joined session.                                   *)
(***************************************************************************)
Restores ==
  [][link = "OfflineAndReconnecting" /\ link' = "Connected" /\ recent /\ visible
       /\ app.session # NotJoined /\ app'.session = app.session => app'.rtc = "new"]_stationVars
=============================================================================
