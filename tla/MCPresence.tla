----------------------------- MODULE MCPresence -----------------------------
(* Presence for TLC: the ids that the bounds leave room for.               *)
EXTENDS Presence

MCConnections == Ids(MaxConnections)
MCRequests    == Ids(MaxRequests)
=============================================================================
