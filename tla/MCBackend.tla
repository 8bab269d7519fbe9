------------------------------- MODULE MCBackend -------------------------------
(***************************************************************************)
(* The parts of the backend that share no state with each other, and the   *)
(* authorization service of the frontend with its backend, for TLC.        *)
(***************************************************************************)
EXTENDS Naturals, Sequences, Component

CONSTANTS
  e1, t1, t2, None,                                       \* emails, tabs
  MaxEvents, MaxTokens, MaxParallel, MaxRestarts,         \* the bounds of the components
  MaxIssued, MaxLosses, MaxKept, MaxLogged, MaxStarts, MaxStatuses, MaxReboots, MaxTime,
  MaxSockets, MaxServed, MaxFailures, MaxAppended, MaxGranted

VARIABLES
  log, process, cursor, writing, half, byId, byEmail, creating, tokens, resetting,
  deleting, deleted, everDeleted, restarts,
  tab, request, account, cookie, issued, used, projected, losses, authRestarts, reasons,
  events, sessionList, store,
  hosts, statuses, registry, pending, starting, handler, announced, rejected, reboots, failed,
  overtaken,
  clock, begun, usage, low, full, irregular,
  sockets, clients, crashed,
  served, inbox, failures,
  appended, fromCursor, reader, streamHandler, open, written,
  granted, expired, usedTokens, saved, tabAccount, held, policyOf, passed, refusals, switched

Accounts      == INSTANCE Accounts WITH Emails <- {e1}
Authorization == INSTANCE Authorization WITH Tabs <- {t1, t2}, restarts <- authRestarts
SessionList   == INSTANCE SessionList WITH ConnectionIds <- {"c1", "c2"}, SessionIds <- {1, 2},
                                           list <- sessionList
SessionStarts == INSTANCE SessionStarts WITH Hosts <- {"c1", "c2"}
UsageStats    == INSTANCE UsageStats WITH Conns <- {"c1", "c2"}, SessionNos <- {1, 2},
                                          KeptMax <- MaxKept
Clients       == INSTANCE Clients WITH ClientIds <- {"p1", "p2"}
Connections   == INSTANCE Connections WITH ClientIds <- {"p1"}
EventStream   == INSTANCE EventStream WITH handler <- streamHandler
OneTab        == INSTANCE Access WITH TabIds <- {"c1"}, AccountIds <- {"a1"},
                   Addresses <- {"d1", "d2"}, MaxAsked <- 2, MaxGranted <- 1, issued <- granted,
                   account <- tabAccount, link <- policyOf
TwoTabs       == INSTANCE Access WITH TabIds <- {"c1", "c2"}, AccountIds <- {"a1", "a2"},
                   Addresses <- {}, MaxAsked <- 0, issued <- granted,
                   account <- tabAccount, link <- policyOf

accountVars       == <<log, process, cursor, writing, half, byId, byEmail, creating,
                       tokens, resetting, deleting, deleted, everDeleted, restarts>>
authorizationVars == <<tab, request, account, cookie, issued, used, projected, losses,
                       authRestarts, reasons>>
listVars          == <<events, sessionList, store>>
startVars         == <<hosts, statuses, registry, pending, starting, handler, announced,
                       rejected, reboots, failed, overtaken>>
usageVars         == <<clock, begun, usage, low, full, irregular>>
clientVars        == <<sockets, clients, crashed>>
connectionVars    == <<served, inbox, failures>>
streamVars        == <<appended, fromCursor, reader, streamHandler, open, written>>
accessVars        == <<granted, expired, usedTokens, saved, tabAccount, held, policyOf, passed,
                       refusals, switched>>

backendVars == <<accountVars, authorizationVars, listVars, startVars, usageVars, clientVars,
                 connectionVars, streamVars, accessVars>>

BackendComponents == {"accounts", "authorization", "session list", "session starts",
                      "usage stats", "clients", "connections", "event stream", "one tab",
                      "two tabs"}

BackendInit ==
  /\ Accounts!AccountsInit
  /\ Authorization!AuthorizationInit
  /\ SessionList!ListInit
  /\ SessionStarts!StartsInit
  /\ UsageStats!UsageInit
  /\ Clients!ClientsInit
  /\ Connections!ConnectionsInit
  /\ EventStream!StreamInit
  /\ IF Is("two tabs") THEN TwoTabs!AccessInit ELSE OneTab!AccessInit
  /\ ~Is("event stream") => fromCursor = 0

BackendNext ==
  /\ IF Is("accounts") THEN Accounts!AccountsNext ELSE UNCHANGED accountVars
  /\ IF Is("authorization") THEN Authorization!AuthorizationNext
                            ELSE UNCHANGED authorizationVars
  /\ IF Is("session list") THEN SessionList!ListNext ELSE UNCHANGED listVars
  /\ IF Is("session starts") THEN SessionStarts!StartsNext ELSE UNCHANGED startVars
  /\ IF Is("usage stats") THEN UsageStats!UsageNext ELSE UNCHANGED usageVars
  /\ IF Is("clients") THEN Clients!ClientsNext ELSE UNCHANGED clientVars
  /\ IF Is("connections") THEN Connections!ConnectionsNext ELSE UNCHANGED connectionVars
  /\ IF Is("event stream") THEN EventStream!StreamNext ELSE UNCHANGED streamVars
  /\ CASE Is("one tab")  -> OneTab!AccessNext
       [] Is("two tabs") -> TwoTabs!AccessNext
       [] OTHER -> UNCHANGED accessVars

\* A refresh goes on until it is answered, and the goroutines of a connection run.
BackendFairness ==
  /\ WF_authorizationVars(Is("authorization")
                          /\ \E t \in {t1, t2} :
                               \/ Authorization!Retry(t)
                               \/ Authorization!GetTokenUsingRefreshTokenGrant(t)
                               \/ Authorization!Answered(t))
  /\ \A k \in 1..MaxServed :
       WF_connectionVars(Connections!Accepted(k) /\ Connections!ConnectionSteps(k))
  /\ WF_streamVars(Is("event stream") /\ EventStream!Goroutines)

-----------------------------------------------------------------------------
(* The components' properties, each of its own module. *)

BackendTypeOK ==
  /\ Accounts!AccountsTypeOK
  /\ Authorization!AuthorizationTypeOK
  /\ SessionList!ListTypeOK
  /\ SessionStarts!StartsTypeOK
  /\ UsageStats!UsageTypeOK
  /\ Clients!ClientsTypeOK
  /\ Connections!ConnectionsTypeOK
  /\ EventStream!StreamTypeOK
  /\ IF Is("two tabs") THEN TwoTabs!AccessTypeOK ELSE OneTab!AccessTypeOK

StoreIsReplay      == Accounts!StoreIsReplay
FailsForReason     == Accounts!FailsForReason
SignedOutForReason == Authorization!SignedOutForReason
SessionListIsTrue  == SessionList!SessionListIsTrue
StartIsAnnounced   == SessionStarts!StartIsAnnounced
UsageIsTrue        == UsageStats!UsageIsTrue
AccessIsTrue       == IF Is("two tabs") THEN TwoTabs!AccessIsTrue ELSE OneTab!AccessIsTrue

\* Of the two websocket services, a client that has one connection is served:
\* see ClientsAreServed and ConnectionsAreServed.
SocketsAreServed == Clients!ClientsAreServed /\ Connections!ConnectionsAreServed

\* What the component that moves waits for: two things at most.
BackendWaits ==
  CASE Is("authorization") -> <<Authorization!TabWaits[t1], Authorization!TabWaits[t2]>>
    [] Is("connections")   -> <<Connections!EndWaits[1], Connections!EndWaits[MaxServed]>>
    [] Is("event stream")  -> <<EventStream!Lingers, FALSE>>
    [] OTHER -> <<FALSE, FALSE>>
=============================================================================
