----------------------------- MODULE Authorization ----------------------------
(***************************************************************************)
(* AuthorizationService in the tabs of one browser, which share its cookie *)
(* jar and its local storage, and the refresh token grant of the backend,  *)
(* which takes each refresh token once.  The service asks again until the  *)
(* backend answers; an answer 4xx signs the tab out.  Refresh tokens are   *)
(* numbered in the order they are issued, 0 is no cookie.  They and the    *)
(* access tokens are only as old as the model needs: an access token may   *)
(* expire at any time, a refresh token never does.                         *)
(***************************************************************************)
EXTENDS Naturals, FiniteSets

CONSTANTS
  Tabs,
  MaxIssued,   \* bound: refresh tokens issued
  MaxLosses,   \* bound: requests and answers lost, pages loaded again
  MaxRestarts  \* bound: restarts of the backend

VARIABLES
  tab,         \* per tab: the state of its AuthorizationService, or "closed"
  request,     \* per tab: its refresh request
  account,     \* is there an account in local storage?
  cookie,      \* the refresh token in the cookie jar
  issued,      \* refresh tokens issued so far
  used,        \* UsedTokens, in the memory of the backend
  projected,   \* has the account projection caught up with the log?
  losses, restarts,
  reasons      \* history: what may have gone wrong with a refresh token

backendVars == <<issued, used, projected, restarts>>
authorizationVars == <<tab, request, account, cookie, backendVars, losses, reasons>>

Refreshing == {"RefreshingForNewSession", "RefreshingToContinueSession"}
AuthorizationStates == {"Unauthorized", "Authorized"} \cup Refreshing
NoRequest == [at |-> "none", token |-> 0, answer |-> 0]
InFlight(t) == request[t].at \in {"sent", "answered"}

AuthorizationInit ==
  /\ tab = [t \in Tabs |-> "closed"]
  /\ request = [t \in Tabs |-> NoRequest]
  /\ account = FALSE /\ cookie = 0
  /\ issued = 0 /\ used = {} /\ projected = TRUE
  /\ losses = 0 /\ restarts = 0 /\ reasons = {}

\* What may go wrong when t sends the cookie of the moment: another tab's
\* request with the same one is under way.
Shared(t) ==
  IF \E u \in Tabs \ {t} : InFlight(u) /\ request[u].token = cookie THEN {"shared"} ELSE {}

SendRequest(t) ==
  request' = [request EXCEPT ![t] = [at |-> "sent", token |-> cookie, answer |-> 0]]

\* Nobody waits for the answer any more; the backend may take the request yet.
\* more are other reasons of this step.
Abandon(t, more) ==
  /\ losses < MaxLosses
  /\ losses' = losses + 1
  /\ used' \in {used} \cup (IF request[t].at = "sent" THEN {used \cup {request[t].token}} ELSE {})
  /\ reasons' = reasons \cup more
       \cup (IF used' # used \/ request[t].at = "answered" THEN {"lost"} ELSE {})

-----------------------------------------------------------------------------
(* The tabs *)

\* A page is loaded, perhaps again: get_initial_state and the constructor.
LoadPage(t) ==
  /\ LET more == IF account THEN Shared(t) ELSE {} IN
       IF tab[t] = "closed" THEN reasons' = reasons \cup more /\ UNCHANGED <<used, losses>>
       ELSE Abandon(t, more)
  /\ IF account
     THEN tab' = [tab EXCEPT ![t] = "RefreshingForNewSession"] /\ SendRequest(t)
     ELSE /\ tab' = [tab EXCEPT ![t] = "Unauthorized"]
          /\ request' = [request EXCEPT ![t] = NoRequest]
  /\ UNCHANGED <<account, cookie, issued, projected, restarts>>

\* The answer to the password grant sets the cookie.
PasswordGrant(t) ==
  /\ tab[t] = "Unauthorized" /\ projected /\ issued < MaxIssued
  /\ issued' = issued + 1 /\ cookie' = issued'
  /\ UNCHANGED <<request, used, projected, losses, restarts, reasons>>

\* login: then the account is fetched and saved, and the token applied.
Login(t) ==
  /\ PasswordGrant(t)
  /\ account' = TRUE
  /\ tab' = [tab EXCEPT ![t] = "Authorized"]

\* Or the account cannot be fetched: only the cookie is new.
LoginFails(t) == PasswordGrant(t) /\ UNCHANGED <<tab, account>>

\* The interval, or a focus, online or visibilitychange event, after the
\* access token expired: only Authorized acts on it.
RefreshTokenIfNeeded(t) ==
  /\ tab[t] = "Authorized" /\ issued < MaxIssued
  /\ tab' = [tab EXCEPT ![t] = "RefreshingToContinueSession"]
  /\ SendRequest(t) /\ reasons' = reasons \cup Shared(t)
  /\ UNCHANGED <<account, cookie, backendVars, losses>>

\* refresh_token_with_retry: anything but an answer 4xx is asked again, later
\* and with the cookie of that time.
LoseRequest(t) ==
  /\ InFlight(t)
  /\ Abandon(t, {})
  /\ request' = [request EXCEPT ![t] = [NoRequest EXCEPT !.at = "retry"]]
  /\ UNCHANGED <<tab, account, cookie, issued, projected, restarts>>

\* Mutant of Retry: a request that failed is not sent again.
GiveUp(t) == request[t].at = "retry" /\ UNCHANGED authorizationVars

Retry(t) ==
  /\ request[t].at = "retry"
  /\ SendRequest(t) /\ reasons' = reasons \cup Shared(t)
  /\ UNCHANGED <<tab, account, cookie, backendVars, losses>>

\* handle_refresh_token_success, or _failure: the tab is signed out and the
\* account removed for all of them.
Answered(t) ==
  /\ request[t].at = "answered"
  /\ request' = [request EXCEPT ![t] = NoRequest]
  /\ IF request[t].answer # 0
     THEN /\ cookie' = request[t].answer
          /\ tab' = [tab EXCEPT ![t] = "Authorized"]
          /\ UNCHANGED account
     ELSE /\ tab' = [tab EXCEPT ![t] = "Unauthorized"]
          /\ account' = FALSE
          /\ UNCHANGED cookie
  /\ UNCHANGED <<backendVars, losses, reasons>>

-----------------------------------------------------------------------------
(* The backend *)

\* Mutant of Granted: the answer sets the cookie it came with.
Unchanged(token) == token

Granted(token) == issued + 1

\* GetTokenUsingRefreshTokenGrant: the token counts as used before the account
\* is looked up in a store that may not hold it yet.
GetTokenUsingRefreshTokenGrant(t) ==
  LET token == request[t].token
      fresh == token # 0 /\ token \notin used IN
  /\ request[t].at = "sent"
  /\ used' = IF fresh THEN used \cup {token} ELSE used
  /\ IF fresh /\ projected
     THEN /\ issued' = issued + 1
          /\ request' = [request EXCEPT ![t].at = "answered", ![t].answer = Granted(token)]
     ELSE /\ request' = [request EXCEPT ![t].at = "answered"]
          /\ UNCHANGED issued
  /\ reasons' = IF projected THEN reasons ELSE reasons \cup {"early"}
  /\ UNCHANGED <<tab, account, cookie, projected, losses, restarts>>

\* Used tokens and accounts are in memory; the requests that the backend has
\* not taken fail.
RestartBackend ==
  /\ restarts < MaxRestarts
  /\ restarts' = restarts + 1
  /\ used' = {} /\ projected' = FALSE
  /\ request' = [t \in Tabs |-> IF request[t].at = "sent"
                                THEN [NoRequest EXCEPT !.at = "retry"] ELSE request[t]]
  /\ UNCHANGED <<tab, account, cookie, issued, losses, reasons>>

Projected ==
  /\ ~projected
  /\ projected' = TRUE
  /\ UNCHANGED <<tab, request, account, cookie, issued, used, losses, restarts, reasons>>

AuthorizationNext ==
  \/ \E t \in Tabs :
       \/ LoadPage(t) \/ Login(t) \/ LoginFails(t) \/ RefreshTokenIfNeeded(t)
       \/ LoseRequest(t) \/ Retry(t) \/ Answered(t)
       \/ GetTokenUsingRefreshTokenGrant(t)
  \/ RestartBackend \/ Projected

AuthorizationSpec == AuthorizationInit /\ [][AuthorizationNext]_authorizationVars

-----------------------------------------------------------------------------
AuthorizationTypeOK ==
  /\ tab \in [Tabs -> {"closed", "Unauthorized", "Authorized"} \cup Refreshing]
  /\ \A t \in Tabs :
       /\ request[t].at \in {"none", "sent", "answered", "retry"}
       /\ request[t].token \in 0..issued /\ request[t].answer \in 0..issued
       /\ request[t].at # "none" <=> tab[t] \in Refreshing
  /\ account \in BOOLEAN /\ cookie \in 0..issued
  /\ used \subseteq 0..issued /\ projected \in BOOLEAN
  /\ losses \in 0..MaxLosses /\ restarts \in 0..MaxRestarts
  /\ reasons \subseteq {"shared", "lost", "early"}

(***************************************************************************)
(* A refresh signs a tab out for one of three reasons only: two tabs sent  *)
(* the same token at once, the backend took a token whose answer got lost, *)
(* or it took one before its projection had the account.  Without them the *)
(* cookie always holds a token that is still good, whatever requests were  *)
(* lost before the backend took them, and through its restarts.  None of   *)
(* the three is the one that the code knows of: see OnlySleepSignsOut.     *)
(***************************************************************************)
SignedOutForReason ==
  [][\A t \in Tabs : tab[t] \in Refreshing /\ tab'[t] = "Unauthorized" =>
       reasons' # {}]_authorizationVars

(***************************************************************************)
(* The comment at AuthorizationService/index.ts:142-143: a token that was  *)
(* good is refreshed, and "the only way this should" fail "is if the app   *)
(* is put to sleep for a long time".  Nothing sleeps here, and no refresh  *)
(* token expires.                                                          *)
(***************************************************************************)
OnlySleepSignsOut ==
  [][\A t \in Tabs :
       tab[t] = "RefreshingToContinueSession" => tab'[t] # "Unauthorized"]_authorizationVars

\* A refresh ends, as the backend answers in the end.
TabWaits == [t \in Tabs |-> tab[t] \in Refreshing]

RefreshEnds == \A t \in Tabs : TabWaits[t] ~> ~TabWaits[t]
=============================================================================
