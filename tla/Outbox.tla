------------------------------- MODULE Outbox -------------------------------
(***************************************************************************)
(* What MQTTService promises to those who publish through it, without its  *)
(* states: messages accepted while the link is not ready wait in order and *)
(* leave in order, each once; only closing the outbox forgets the ones     *)
(* still waiting.  The service's own notices (connected, disconnected) may *)
(* stand before them, never between them.                                  *)
(***************************************************************************)
EXTENDS Sequences

CONSTANTS Messages, Notices

VARIABLES
  open,     \* are messages accepted?
  waiting,  \* accepted and not yet sent
  sent      \* sent, notices included

vars == <<open, waiting, sent>>

OptionalNotice == {<<>>} \cup {<<n>> : n \in Notices}

Init ==
  /\ open = FALSE
  /\ waiting = <<>>
  /\ sent = <<>>

Open ==
  /\ ~open
  /\ open' = TRUE
  /\ UNCHANGED <<waiting, sent>>

Accept(m) ==
  /\ open
  /\ waiting' = Append(waiting, m)
  /\ UNCHANGED <<open, sent>>

SendAtOnce(m) ==
  /\ open
  /\ waiting = <<>>
  /\ sent' = Append(sent, m)
  /\ UNCHANGED <<open, waiting>>

Flush(notice) ==
  /\ open
  /\ waiting' = <<>>
  /\ sent' = (sent \o notice) \o waiting
  /\ UNCHANGED open

Close(notice) ==
  /\ open
  /\ open' = FALSE
  /\ waiting' = <<>>
  /\ sent' = sent \o notice

Next ==
  \/ Open
  \/ \E m \in Messages : Accept(m) \/ SendAtOnce(m)
  \/ \E notice \in OptionalNotice : Flush(notice) \/ Close(notice)

Spec == Init /\ [][Next]_vars
=============================================================================
