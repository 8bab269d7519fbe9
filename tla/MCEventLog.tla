----------------------------- MODULE MCEventLog -----------------------------
(* EventLog for TLC: one crash-prone log, one follower per model value.    *)
EXTENDS EventLog
=============================================================================
