----------------------------- MODULE SessionStarts -----------------------------
(***************************************************************************)
(* How StartSession and the status handler share the connection registry   *)
(* and the pending starts: a start for a connection that is registered is  *)
(* announced at once, any other is left pending for the handler of its     *)
(* connected status.  The handlers of HTTP requests run beside the one     *)
(* router that handles MQTT messages.  Sessions, and the requests of       *)
(* connected statuses, are numbered in the order they are made.            *)
(***************************************************************************)
EXTENDS Naturals, Sequences, FiniteSets

CONSTANTS
  Hosts,       \* connection ids of the baby stations
  MaxStarts,   \* bound: sessions started
  MaxStatuses, \* bound: connected statuses
  MaxReboots   \* bound: restarts of the backend

VARIABLES
  hosts,      \* the sessions started: the connection of each
  statuses,   \* the connected statuses: the connection of each
  registry,   \* ConnectionRegistry: the request of each connection, 0 for none
  pending,    \* PendingSessionStarts: a session for each connection, 0 for none
  starting,   \* per connection: a start that found it unregistered, 0 for none
  handler,    \* the status handler: where it is, and for which connection
  announced,  \* the sessions announced
  reboots,
  rejected,   \* the sessions whose start was answered with an error
  failed,     \* history: did the announcement of a pending start fail?
  overtaken   \* history: the starts left pending after their connection registered

startVars == <<hosts, statuses, registry, pending, starting, handler, announced, rejected, reboots, failed, overtaken>>

Idle == [at |-> "idle", host |-> "none"]
Empty == [c \in Hosts |-> 0]

StartsInit ==
  /\ hosts = <<>> /\ statuses = <<>>
  /\ registry = Empty /\ pending = Empty /\ starting = Empty
  /\ handler = Idle /\ announced = {}
  /\ reboots = 0 /\ rejected = {} /\ failed = FALSE /\ overtaken = {}

\* StartSession looks the connection up; what it cannot publish is an error, ...
StartSession(c) ==
  /\ starting[c] = 0 /\ Len(hosts) < MaxStarts
  /\ hosts' = Append(hosts, c)
  /\ IF registry[c] # 0
     THEN /\ \/ announced' = announced \cup {Len(hosts')} /\ UNCHANGED rejected
             \/ rejected' = rejected \cup {Len(hosts')} /\ UNCHANGED announced
          /\ UNCHANGED starting
     ELSE starting' = [starting EXCEPT ![c] = Len(hosts')] /\ UNCHANGED <<announced, rejected>>
  /\ UNCHANGED <<statuses, registry, pending, handler, reboots, failed, overtaken>>

\* ... and leaves the start pending, whether or not it registered meanwhile.
PutPending(c) ==
  /\ starting[c] # 0
  /\ pending' = [pending EXCEPT ![c] = starting[c]]
  /\ starting' = [starting EXCEPT ![c] = 0]
  /\ overtaken' = IF registry[c] # 0 THEN overtaken \cup {starting[c]} ELSE overtaken
  /\ UNCHANGED <<hosts, statuses, registry, handler, announced, rejected, reboots, failed>>

\* A connected status: the connection is registered first, ...
Connected(c) ==
  /\ handler = Idle /\ Len(statuses) < MaxStatuses
  /\ statuses' = Append(statuses, c)
  /\ registry' = [registry EXCEPT ![c] = Len(statuses')]
  /\ handler' = [at |-> "registered", host |-> c]
  /\ UNCHANGED <<hosts, pending, starting, announced, rejected, reboots, failed, overtaken>>

\* Mutant of AnnouncePending: the pending start is taken and not announced.
TakePending ==
  /\ handler.at = "registered"
  /\ pending' = [pending EXCEPT ![handler.host] = 0]
  /\ handler' = Idle
  /\ UNCHANGED <<hosts, statuses, registry, starting, announced, rejected, reboots, failed, overtaken>>

\* ... the start that is pending for it by then is announced, or stays pending
\* when that fails, ...
AnnouncePending ==
  /\ handler.at = "registered"
  /\ \/ /\ pending[handler.host] = 0
        /\ handler' = Idle /\ UNCHANGED <<announced, failed>>
     \/ /\ pending[handler.host] # 0
        /\ announced' = announced \cup {pending[handler.host]}
        /\ handler' = [handler EXCEPT !.at = "published"] /\ UNCHANGED failed
     \/ /\ pending[handler.host] # 0
        /\ handler' = Idle /\ failed' = TRUE /\ UNCHANGED announced
  /\ UNCHANGED <<hosts, statuses, registry, pending, starting, rejected, reboots, overtaken>>

\* ... and what is pending when that is done is deleted.
DeletePending ==
  /\ handler.at = "published"
  /\ pending' = [pending EXCEPT ![handler.host] = 0]
  /\ handler' = Idle
  /\ UNCHANGED <<hosts, statuses, registry, starting, announced, rejected, reboots, failed, overtaken>>

\* A disconnected status, perhaps of an earlier request than the registered one.
Disconnected(r) ==
  /\ handler = Idle
  /\ registry' = [registry EXCEPT ![statuses[r]] = IF @ = r THEN 0 ELSE @]
  /\ UNCHANGED <<hosts, statuses, pending, starting, handler, announced, rejected, reboots, failed, overtaken>>

Reboot ==
  /\ reboots < MaxReboots
  /\ reboots' = reboots + 1
  /\ registry' = Empty /\ pending' = Empty /\ starting' = Empty
  /\ handler' = Idle
  /\ UNCHANGED <<hosts, statuses, announced, rejected, failed, overtaken>>

StartsNext ==
  \/ \E c \in Hosts : StartSession(c) \/ PutPending(c) \/ Connected(c)
  \/ \E r \in DOMAIN statuses : Disconnected(r)
  \/ AnnouncePending \/ DeletePending \/ Reboot

StartsSpec == StartsInit /\ [][StartsNext]_startVars

-----------------------------------------------------------------------------
StartsTypeOK ==
  /\ \A n \in DOMAIN hosts : hosts[n] \in Hosts
  /\ \A r \in DOMAIN statuses : statuses[r] \in Hosts
  /\ registry \in [Hosts -> 0..Len(statuses)]
  /\ pending \in [Hosts -> 0..Len(hosts)] /\ starting \in [Hosts -> 0..Len(hosts)]
  /\ handler.at \in {"idle", "registered", "published"}
  /\ announced \cup rejected \cup overtaken \subseteq DOMAIN hosts
  /\ reboots \in 0..MaxReboots /\ failed \in BOOLEAN

(***************************************************************************)
(* A start is announced, or answered with an error, or pending for a       *)
(* connection that is not there yet, unless a later start of the same      *)
(* connection took its place; or its announcement failed, and it waits for *)
(* the next connected status.  It takes a backend that stays up: pending   *)
(* starts are in memory.  And a start that was overtaken is excused: its   *)
(* connection registered between its lookup and its put, so that it waits  *)
(* for the connection after this one, or is deleted in the place of the    *)
(* one just announced.  No other start pays for it.                        *)
(***************************************************************************)
StartIsAnnounced ==
  reboots = 0 =>
    /\ \A n \in DOMAIN hosts \ overtaken :
         \/ n \in {pending[hosts[n]], starting[hosts[n]]} \cup announced \cup rejected
         \/ \E m \in n + 1..Len(hosts) : hosts[m] = hosts[n]
    /\ \A c \in Hosts : pending[c] \notin {0} \cup overtaken /\ registry[c] # 0 =>
                         handler.host = c \/ failed
=============================================================================
