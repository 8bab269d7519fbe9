-------------------------------- MODULE Access --------------------------------
(***************************************************************************)
(* Who may do what: the tokens of the backend, its two checks of them, and *)
(* the authorizer that gives each MQTT client its policy, with the tabs of *)
(* one browser.  A token is its claims; ids are positions in issued.  A    *)
(* tab asks for an anonymous token for one operation and presents it once, *)
(* perhaps from another address by then, perhaps repeated by the network.  *)
(* A topic is the tuple of its segments.                                   *)
(***************************************************************************)
EXTENDS Naturals, Sequences, FiniteSets

CONSTANTS
  AccountIds,
  TabIds,      \* the tabs, by the client id of each
  Addresses,   \* X-Forwarded-For
  MaxAsked,    \* bound: anonymous tokens issued
  MaxGranted   \* bound: access tokens issued

VARIABLES
  issued,      \* claims of the tokens issued, and the operation asked for
  expired,     \* tokens past their expiry
  usedTokens,  \* UsedTokens, in the memory of the backend
  saved,       \* the account in local storage, or Missing
  account,     \* per tab: the account of its MQTT service, or Missing
  held,        \* per tab: its access token, or 0
  link,        \* per tab: the token its policy was made for, or 0
  passed,      \* history: times each token was let through since the backend started
  refusals,    \* history: reasons of refusals that nothing the tab knows of explains
  switched     \* history: tabs open while another logged in to another account

tabVars == <<saved, account, held, link, switched>>
accessVars == <<issued, expired, usedTokens, tabVars, passed, refusals>>

\* What a claim, an account or a path has when it has none.
Missing == ""

Operations == {"create_account", "request_password_reset", "reset_password"}

\* What the frontend asks a token for, and what the handler behind expects.
ScopeAsked == [create_account         |-> "iam:CreateAccount",
               request_password_reset |-> "iam:RequestPasswordReset",
               reset_password         |-> "iam:ResetPassword"]

\* Mutant of ScopeExpected: both handlers of ResetPassword.go expect one scope.
ScopeConfused(operation) ==
  IF operation = "create_account" THEN "iam:CreateAccount" ELSE "iam:ResetPassword"

ScopeExpected(operation) ==
  CASE operation = "create_account"         -> "iam:CreateAccount"
    [] operation = "request_password_reset" -> "iam:RequestPasswordReset"
    [] operation = "reset_password"         -> "iam:ResetPassword"

AllowedAnonymousScope == {"iam:CreateAccount", "iam:RequestPasswordReset", "iam:ResetPassword"}

AnonymousClaims(address, scope) ==
  [service |-> Missing, account |-> Missing, type |-> "remote_address", id |-> address,
   scope |-> scope]
AccessClaims(a) ==
  [service |-> "iam", account |-> a, type |-> "user", id |-> a, scope |-> Missing]

OfType(type) == {n \in DOMAIN issued : issued[n].claims.type = type}
Bounded(type, bound) == Cardinality(OfType(type)) < bound

Issue(claims, operation) ==
  issued' = Append(issued, [claims |-> claims, operation |-> operation])
NextToken == Len(issued) + 1
Tokens == 1 .. MaxAsked + MaxGranted
Claims(n) == issued[n].claims

\* The reasons to refuse, each a condition and its name, and the refusals that
\* the expiry of a token, a new address, a repetition or a login elsewhere
\* explain.
Explained == {"expired", "moved", "used"}
If(condition, reason) == IF condition THEN {reason} ELSE {}
Expired(n) == If(n \in expired, "expired")
NotAUser(n) == If(Claims(n).service # "iam", "service") \cup If(Claims(n).type # "user", "type")

-----------------------------------------------------------------------------
(* The broker's policy.  "*" stands for anything, "/" included; each pattern *)
(* has at most one. *)

Matches(pattern, topic) ==
  \/ pattern = topic
  \/ \E k \in DOMAIN pattern :
       LET rest == Len(pattern) - k IN
       /\ pattern[k] = "*" /\ Len(topic) >= Len(pattern)
       /\ SubSeq(topic, 1, k - 1) = SubSeq(pattern, 1, k - 1)
       /\ SubSeq(topic, Len(topic) - rest + 1, Len(topic)) = SubSeq(pattern, k + 1, Len(pattern))

In(a, topics) == {<<"accounts", a>> \o topic : topic \in topics}
Of(c, what) == <<"clients", c, what>>
Stations == {<<"baby_stations">>, <<"parent_stations">>}

\* Mutant of Policy: any client's inboxes and status.
PolicyOfAll(a, c) ==
  [connect   |-> {<<c>>},
   subscribe |-> In(a, {<<"clients", "*">>} \cup Stations),
   publish   |-> In(a, {<<"clients", "*">>} \cup Stations),
   receive   |-> In(a, {<<"*">>})]

\* newPolicyDocument, for the account of the token and the client id.
Policy(a, c) ==
  [connect   |-> {<<c>>},
   subscribe |-> In(a, {Of(c, "webrtc_inbox"), Of(c, "control_inbox"),
                        Of("*", "status"), Of("+", "status")} \cup Stations),
   publish   |-> In(a, {Of(c, "status"), Of("*", "webrtc_inbox"), Of("*", "control_inbox")}
                         \cup Stations),
   receive   |-> In(a, {<<"*">>})]

Granted(c) == Policy(Claims(link[c]).account, c)
May(c, action, topic) == \E pattern \in Granted(c)[action] : Matches(pattern, topic)

\* What the MQTT services of the frontend subscribe to and publish on.
Subscribed(c) == {Of(c, "webrtc_inbox"), Of(c, "control_inbox"), Of("+", "status")}
                 \cup {Of(d, "status") : d \in TabIds} \cup Stations
Published(c) == {Of(c, "status")} \cup {Of(d, "webrtc_inbox") : d \in TabIds}
                \cup {Of(d, "control_inbox") : d \in TabIds} \cup Stations

-----------------------------------------------------------------------------
AccessInit ==
  /\ issued = <<>> /\ expired = {} /\ usedTokens = {}
  /\ saved = Missing /\ switched = {}
  /\ account = [c \in TabIds |-> Missing]
  /\ held = [c \in TabIds |-> 0]
  /\ link = [c \in TabIds |-> 0]
  /\ passed = [n \in Tokens |-> 0] /\ refusals = {}

\* get_anonymous_token and its handler.
AnonymousToken(address, operation) ==
  LET scope == ScopeAsked[operation] IN
  /\ Bounded("remote_address", MaxAsked)
  /\ IF scope \in AllowedAnonymousScope
     THEN Issue(AnonymousClaims(address, scope), operation) /\ UNCHANGED refusals
     ELSE refusals' = refusals \cup {"scope"} /\ UNCHANGED issued
  /\ UNCHANGED <<expired, usedTokens, tabVars, passed>>

\* The token counts as used only when everything else about it is right.
CheckAnonymousAuthorization(n, address) ==
  LET claims == Claims(n)
      why == Expired(n) \cup If(claims.type # "remote_address", "type")
             \cup If(claims.id # address, "moved")
             \cup If(claims.scope # ScopeExpected(issued[n].operation), "scope")
             \cup If(n \in usedTokens, "used") IN
  /\ issued[n].operation \in Operations
  /\ IF why = {}
     THEN /\ usedTokens' = usedTokens \cup {n} /\ passed' = [passed EXCEPT ![n] = @ + 1]
          /\ UNCHANGED refusals
     ELSE refusals' = refusals \cup (why \ Explained) /\ UNCHANGED <<usedTokens, passed>>
  /\ UNCHANGED <<issued, expired, tabVars>>

ExpireToken(n) ==
  /\ n \notin expired
  /\ expired' = expired \cup {n}
  /\ UNCHANGED <<issued, usedTokens, tabVars, passed, refusals>>

\* login: the account is saved and the token applied; the MQTT service of a
\* tab that had none takes the account saved.
Login(c, a) ==
  /\ held[c] = 0 /\ Bounded("user", MaxGranted)
  /\ Issue(AccessClaims(a), Missing)
  /\ saved' = a
  /\ held' = [held EXCEPT ![c] = NextToken] /\ account' = [account EXCEPT ![c] = a]
  /\ switched' = switched \cup {d \in TabIds : account[d] \notin {Missing, a}}
  /\ UNCHANGED <<expired, usedTokens, link, passed, refusals>>

\* The refresh token grant, for the cookie of the last login: a tab that has
\* an account keeps it.
Refresh(c) ==
  /\ saved # Missing /\ Bounded("user", MaxGranted)
  /\ Issue(AccessClaims(saved), Missing)
  /\ held' = [held EXCEPT ![c] = NextToken]
  /\ account' = [account EXCEPT ![c] = IF @ = Missing THEN saved ELSE @]
  /\ UNCHANGED <<expired, usedTokens, saved, link, switched, passed, refusals>>

\* AuthorizationMiddleware, in front of a path that names path.
AuthorizationMiddleware(c, path) ==
  LET own == Claims(held[c]).account
      why == Expired(held[c]) \cup NotAUser(held[c])
             \cup If(path \notin {Missing, "current", own}, "foreign") IN
  /\ held[c] # 0
  /\ refusals' = refusals \cup ((why \ Explained) \ If(c \in switched, "foreign"))
  /\ UNCHANGED <<issued, expired, usedTokens, tabVars, passed>>

\* connect_mqtt sends the token of the moment, as every attempt to reconnect
\* does; the authorizer lets the link be made.
Authorize(c) ==
  LET why == Expired(held[c]) \cup NotAUser(held[c])
             \cup If(Claims(held[c]).account = Missing, "account") IN
  /\ held[c] # 0 /\ link[c] = 0
  /\ IF why = {} THEN link' = [link EXCEPT ![c] = held[c]] /\ UNCHANGED refusals
                 ELSE refusals' = refusals \cup (why \ Explained) /\ UNCHANGED link
  /\ UNCHANGED <<issued, expired, usedTokens, saved, account, held, switched, passed>>

\* A link ends, for any reason or when the broker asks the authorizer again,
\* refreshAfterSeconds later, about the token it began with.
LinkEnds(c) ==
  /\ link[c] # 0
  /\ link' = [link EXCEPT ![c] = 0]
  /\ UNCHANGED <<issued, expired, usedTokens, saved, account, held, switched, passed, refusals>>

RestartBackend ==
  /\ usedTokens # {}
  /\ usedTokens' = {} /\ passed' = [n \in DOMAIN passed |-> 0]
  /\ UNCHANGED <<issued, expired, tabVars, refusals>>

AccessNext ==
  \/ \E address \in Addresses, operation \in Operations : AnonymousToken(address, operation)
  \/ \E n \in DOMAIN issued, address \in Addresses : CheckAnonymousAuthorization(n, address)
  \/ \E n \in DOMAIN issued : ExpireToken(n)
  \/ \E c \in TabIds : Refresh(c) \/ Authorize(c) \/ LinkEnds(c)
  \/ \E c \in TabIds, a \in AccountIds : Login(c, a)
  \/ \E c \in TabIds : \E path \in {"current", account[c]} : AuthorizationMiddleware(c, path)
  \/ RestartBackend

AccessSpec == AccessInit /\ [][AccessNext]_accessVars

-----------------------------------------------------------------------------
AccessTypeOK ==
  /\ expired \subseteq DOMAIN issued /\ usedTokens \subseteq DOMAIN issued
  /\ saved \in AccountIds \cup {Missing}
  /\ account \in [TabIds -> AccountIds \cup {Missing}]
  /\ held \in [TabIds -> {0} \cup Tokens] /\ link \in [TabIds -> {0} \cup Tokens]

(***************************************************************************)
(* A token lets one request through while the backend runs; what the       *)
(* frontend does with a token in time, once and from the address it was    *)
(* asked from is never refused, nor is what a tab asks of its own account, *)
(* unless another tab logged in to another one.                            *)
(***************************************************************************)
TokensAreTrue ==
  /\ \A n \in DOMAIN passed : passed[n] <= 1
  /\ refusals = {}

(***************************************************************************)
(* The authorizer's policy and the topics of the frontend agree: unless    *)
(* another tab logged in to another account, a linked tab may do all that  *)
(* its services do, and never what only another client may, in its own     *)
(* account or another.                                                     *)
(***************************************************************************)
PolicyFits ==
  \A c \in TabIds : link[c] # 0 =>
    LET own == Claims(link[c]).account IN
    /\ c \in switched \/ own = account[c]
    /\ \A topic \in In(own, Subscribed(c)) : May(c, "subscribe", topic)
    /\ \A topic \in In(own, Published(c)) : May(c, "publish", topic)
    /\ \A d \in TabIds :
         /\ \A topic \in In(own, Published(d)) : May(c, "receive", topic)
         /\ d # c => /\ ~May(c, "publish", <<"accounts", own>> \o Of(d, "status"))
                     /\ ~May(c, "subscribe", <<"accounts", own>> \o Of(d, "webrtc_inbox"))
    /\ \A a \in AccountIds \ {own} :
         \A topic \in In(a, Subscribed(c) \cup Published(c)) :
           ~May(c, "subscribe", topic) /\ ~May(c, "publish", topic) /\ ~May(c, "receive", topic)

AccessIsTrue == TokensAreTrue /\ PolicyFits
=============================================================================
