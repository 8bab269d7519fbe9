------------------------------- MODULE Accounts -------------------------------
(***************************************************************************)
(* The account handlers, the projection that fills their store, and the    *)
(* reset tokens.  Registering and resetting a password only append to the  *)
(* event log; the projection applies the log to the memory store from its  *)
(* start, a step behind the handlers, and takes any failure as fatal.      *)
(* Deleting an account goes to the memory store alone.                     *)
(*                                                                         *)
(* An account's id is the position of its account.created event, and its   *)
(* password the position of the event that set it.  Requests are those     *)
(* with a valid, unused anonymous token and a well-formed body.            *)
(***************************************************************************)
EXTENDS Naturals, Sequences, FiniteSets

CONSTANTS
  Emails,
  None,        \* no account
  MaxEvents,   \* bound: events in the log
  MaxTokens,   \* bound: reset tokens created
  MaxParallel, \* bound: registrations of one email, or uses of one token, under way
  MaxRestarts  \* bound: starts after the first

VARIABLES
  log,         \* the event log, the only thing that survives the process
  process,     \* "running", "crashed", or "failed": the projection was fatal
  cursor,      \* events applied by the projection
  writing,     \* the account it has made or read and not yet stored under both keys
  half,        \* is it stored under its id?
  byId,        \* the memory store under account ids
  byEmail,     \* the memory store under emails
  creating,    \* per email: registrations between checkEmail and their append
  tokens,      \* the reset tokens created, in order: their email, are they in memory?
  resetting,   \* per token: uses between their lookup and their append
  deleting,    \* per email: deletions that have removed the id and not yet the email
  deleted,     \* history: accounts deleted since the process started
  everDeleted, \* history: was an account ever deleted?
  restarts

storeVars   == <<byId, byEmail>>
projectionVars == <<cursor, writing, half>>
requestVars == <<creating, tokens, resetting, deleting>>
historyVars == <<deleted, everDeleted>>
accountVars == <<log, process, projectionVars, storeVars, requestVars, historyVars, restarts>>

Ids == 1..MaxEvents

EmptyStore ==
  [ids |-> [i \in Ids |-> None], emails |-> [e \in Emails |-> None]]

AccountsInit ==
  /\ log = <<>> /\ process = "running"
  /\ cursor = 0 /\ writing = None /\ half = FALSE
  /\ byId = EmptyStore.ids /\ byEmail = EmptyStore.emails
  /\ creating = [e \in Emails |-> 0]
  /\ tokens = <<>> /\ resetting = [t \in 1..MaxTokens |-> 0]
  /\ deleting = [e \in Emails |-> 0]
  /\ deleted = {} /\ everDeleted = FALSE /\ restarts = 0

Running == process = "running" /\ UNCHANGED restarts
Event(type, e) == [type |-> type, email |-> e]
AppendEvent(event) == Len(log) < MaxEvents /\ log' = Append(log, event)

-----------------------------------------------------------------------------
(* The handlers *)

\* CreateAccount checks the email in the store, ...
CheckEmail(e) ==
  /\ Running
  /\ byEmail[e] = None /\ creating[e] < MaxParallel
  /\ creating' = [creating EXCEPT ![e] = @ + 1]
  /\ UNCHANGED <<log, process, projectionVars, storeVars, tokens, resetting, deleting, historyVars>>

\* ... and appends account.created, whatever was appended or applied meanwhile.
CreateAccount(e) ==
  /\ Running
  /\ creating[e] > 0 /\ AppendEvent(Event("created", e))
  /\ creating' = [creating EXCEPT ![e] = @ - 1]
  /\ UNCHANGED <<process, projectionVars, storeVars, tokens, resetting, deleting, historyVars>>

\* Mutant of Known: any email gets a token.
Anyone(e) == e \in Emails

Known(e) == byEmail[e] # None

RequestPasswordReset(e) ==
  /\ Running
  /\ Known(e) /\ Len(tokens) < MaxTokens
  /\ tokens' = Append(tokens, [email |-> e, kept |-> TRUE])
  /\ UNCHANGED <<log, process, projectionVars, storeVars, creating, resetting, deleting, historyVars>>

TokenExpires(t) ==
  /\ Running
  /\ tokens[t].kept
  /\ tokens' = [tokens EXCEPT ![t].kept = FALSE]
  /\ UNCHANGED <<log, process, projectionVars, storeVars, creating, resetting, deleting, historyVars>>

\* Consume looks the token up, runs the append, and deletes the token last.
LoadToken(t) ==
  /\ Running
  /\ tokens[t].kept /\ resetting[t] < MaxParallel
  /\ resetting' = [resetting EXCEPT ![t] = @ + 1]
  /\ UNCHANGED <<log, process, projectionVars, storeVars, creating, tokens, deleting, historyVars>>

ResetPassword(t) ==
  /\ Running
  /\ resetting[t] > 0 /\ AppendEvent(Event("reset", tokens[t].email))
  /\ tokens' = [tokens EXCEPT ![t].kept = FALSE]
  /\ resetting' = [resetting EXCEPT ![t] = @ - 1]
  /\ UNCHANGED <<process, projectionVars, storeVars, creating, deleting, historyVars>>

\* DeleteAccount removes the account under its id, ...
DeleteAccount(i) ==
  /\ Running
  /\ byId[i] # None /\ deleting[byId[i].email] < MaxParallel
  /\ byId' = [byId EXCEPT ![i] = None]
  /\ deleting' = [deleting EXCEPT ![byId[i].email] = @ + 1]
  /\ deleted' = deleted \cup {i} /\ everDeleted' = TRUE
  /\ UNCHANGED <<log, process, projectionVars, byEmail, creating, tokens, resetting>>

\* ... and then whatever is there under its email, and appends nothing.
DeleteEmail(e) ==
  /\ Running
  /\ deleting[e] > 0
  /\ byEmail' = [byEmail EXCEPT ![e] = None]
  /\ deleting' = [deleting EXCEPT ![e] = @ - 1]
  /\ UNCHANGED <<log, process, projectionVars, byId, creating, tokens, resetting, historyVars>>

-----------------------------------------------------------------------------
(* The projection: one event at a time, read and written in separate steps. *)

ApplyAccountCreated(e, position) ==
  IF byEmail[e] # None THEN None ELSE [id |-> position, email |-> e, password |-> position]

ApplyAccountPasswordReset(e, position) ==
  IF byEmail[e] = None THEN None ELSE [byEmail[e] EXCEPT !.password = position]

ApplyEvent ==
  /\ Running
  /\ writing = None /\ cursor < Len(log)
  /\ LET event   == log[cursor + 1]
         account == IF event.type = "created"
                    THEN ApplyAccountCreated(event.email, cursor + 1)
                    ELSE ApplyAccountPasswordReset(event.email, cursor + 1)
     IN  IF account = None
         THEN process' = "failed" /\ UNCHANGED <<cursor, writing>>
         ELSE writing' = account /\ cursor' = cursor + 1 /\ UNCHANGED process
  /\ UNCHANGED <<log, half, storeVars, requestVars, historyVars>>

\* Mutant of WriteById: an account that is there under its id is left as it is.
WriteAbsent ==
  /\ Running
  /\ writing # None /\ ~half
  /\ byId' = [byId EXCEPT ![writing.id] = IF @ = None THEN writing ELSE @] /\ half' = TRUE
  /\ UNCHANGED <<log, process, cursor, writing, byEmail, requestVars, historyVars>>

WriteById ==
  /\ Running
  /\ writing # None /\ ~half
  /\ byId' = [byId EXCEPT ![writing.id] = writing] /\ half' = TRUE
  /\ UNCHANGED <<log, process, cursor, writing, byEmail, requestVars, historyVars>>

WriteByEmail ==
  /\ Running
  /\ half
  /\ byEmail' = [byEmail EXCEPT ![writing.email] = writing]
  /\ half' = FALSE /\ writing' = None
  /\ UNCHANGED <<log, process, cursor, byId, requestVars, historyVars>>

-----------------------------------------------------------------------------
(* The process dies with its memory; the map it shares between the         *)
(* projection and the handlers without a lock is one reason to.            *)

Crash ==
  /\ process = "running" /\ restarts < MaxRestarts
  /\ process' = "crashed"
  /\ UNCHANGED <<log, projectionVars, storeVars, requestVars, historyVars, restarts>>

Restart ==
  /\ process # "running" /\ restarts < MaxRestarts
  /\ restarts' = restarts + 1
  /\ process' = "running"
  /\ cursor' = 0 /\ writing' = None /\ half' = FALSE
  /\ byId' = EmptyStore.ids /\ byEmail' = EmptyStore.emails
  /\ creating' = [e \in Emails |-> 0]
  /\ tokens' = [t \in DOMAIN tokens |-> [tokens[t] EXCEPT !.kept = FALSE]]
  /\ resetting' = [t \in 1..MaxTokens |-> 0]
  /\ deleting' = [e \in Emails |-> 0]
  /\ deleted' = {}
  /\ UNCHANGED <<log, everDeleted>>

AccountsNext ==
  \/ \E e \in Emails : CheckEmail(e) \/ CreateAccount(e) \/ RequestPasswordReset(e) \/ DeleteEmail(e)
  \/ \E t \in DOMAIN tokens : TokenExpires(t) \/ LoadToken(t) \/ ResetPassword(t)
  \/ \E i \in Ids : DeleteAccount(i)
  \/ ApplyEvent \/ WriteById \/ WriteByEmail
  \/ Crash \/ Restart

AccountsSpec == AccountsInit /\ [][AccountsNext]_accountVars

-----------------------------------------------------------------------------
AccountsTypeOK ==
  LET Accounts == [id : Ids, email : Emails, password : Ids] \cup {None} IN
  /\ \A i \in DOMAIN log : log[i] \in [type : {"created", "reset"}, email : Emails]
  /\ process \in {"running", "crashed", "failed"}
  /\ cursor \in 0..Len(log) /\ writing \in Accounts
  /\ half \in BOOLEAN /\ (half => writing # None)
  /\ byId \in [Ids -> Accounts] /\ byEmail \in [Emails -> Accounts]
  /\ creating \in [Emails -> 0..MaxParallel]
  /\ \A t \in DOMAIN tokens : tokens[t] \in [email : Emails, kept : BOOLEAN]
  /\ resetting \in [1..MaxTokens -> 0..MaxParallel]
  /\ deleting \in [Emails -> 0..MaxParallel]
  /\ deleted \subseteq Ids /\ everDeleted \in BOOLEAN /\ restarts \in 0..MaxRestarts

\* Of the first n events of the log, the i-th is the last that creates e's account.
LastCreated(i, e, n) ==
  i \in 1..n /\ log[i] = Event("created", e) /\ \A j \in (i + 1)..n : log[j] # Event("created", e)

\* The account that they make of email e: the last created, with the password
\* of its last event.
Logged(account, e, n) ==
  \/ account = None /\ \A i \in 1..n : log[i] # Event("created", e)
  \/ /\ account # None /\ account.email = e /\ LastCreated(account.id, e, n)
     /\ account.password \in account.id..n /\ log[account.password].email = e
     /\ \A i \in (account.password + 1)..n : log[i].email # e

OneWasDeleted(e) == \E i \in deleted : log[i].email = e

(***************************************************************************)
(* Between two events the store is what the log says: each account has the *)
(* password of its last reset, under both keys.  An email without the      *)
(* account that the log gives it has had one deleted since the start, and  *)
(* so has one that two accounts are left of (a reset that was read before  *)
(* the deletion may be written in the middle of it, and what is deleted    *)
(* last may be the email of an account registered meanwhile).              *)
(***************************************************************************)
StoreIsReplay ==
  process = "running" /\ writing = None =>
    \A e \in Emails :
      /\ Logged(byEmail[e], e, cursor) \/ (byEmail[e] = None /\ OneWasDeleted(e))
      /\ \A i \in Ids :
           /\ byId[i] # None /\ byId[i].email = e =>
                byId[i].id = i /\ (Logged(byId[i], e, cursor) \/ OneWasDeleted(e))
           /\ LastCreated(i, e, cursor) /\ i \notin deleted => Logged(byId[i], e, cursor)

(***************************************************************************)
(* What stops the projection, in this process or at a later start, is an   *)
(* email that was registered twice (by requests that checked it before the *)
(* first of them was applied, or after its account was deleted), or the    *)
(* reset of a deleted account, and nothing else: a reset never comes       *)
(* before the account it is for, crashes and restarts included.            *)
(***************************************************************************)
FailsForReason ==
  process = "failed" =>
    \/ everDeleted
    \/ \E i, j \in DOMAIN log : i < j /\ log[i] = log[j] /\ log[i].type = "created"

\* fatal.OnError in ApplyAccountCreatedEvent and ApplyAccountPasswordResetEvent
\* asserts that applying the log does not fail.
ProjectionNeverFails == process # "failed"
=============================================================================
