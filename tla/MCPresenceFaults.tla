-------------------------- MODULE MCPresenceFaults --------------------------
(***************************************************************************)
(* Presence for TLC where everything may go wrong, on few requests, beside *)
(* behaviours that nothing disturbs so far, in which a station has more of *)
(* them and may try to connect again.                                      *)
(***************************************************************************)
EXTENDS MCPresence

CONSTANT FewRequests

InBounds ==
  \/ Undisturbed
  \/ bounds.retries = 0 /\ \A c \in Clients : station[c].request <= FewRequests
=============================================================================
