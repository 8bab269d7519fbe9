------------------------------ MODULE MCServices ------------------------------
(***************************************************************************)
(* The services of the frontend and the backend that share no state with   *)
(* each other, in one run.                                                 *)
(***************************************************************************)
EXTENDS MCFrontend, MCBackend

\* The bounds are numbers, no account is none, and no baby station is called none.
ASSUME ServicesAssumption ==
  /\ {MaxCanvases, MaxRecreated, MaxCandidates, MaxJoined, MaxChunks, MaxReboots, MaxFailures,
      MaxAppended, MaxLogged, MaxPut, MaxTime, MaxEvents, MaxTokens, MaxParallel, MaxRestarts,
      MaxLosses, MaxGranted} \subseteq Nat
  /\ MaxKept \in Nat \ {0}
  /\ None \notin [id : Nat, email : {e1}, password : Nat]
  /\ "none" \notin {b1, b2}

vars == <<component, frontendVars, backendVars>>

Init ==
  /\ component \in FrontendComponents \cup BackendComponents
  /\ FrontendInit
  /\ BackendInit

Next == UNCHANGED component /\ FrontendNext /\ BackendNext

Spec == Init /\ [][Next]_vars /\ FrontendFairness /\ BackendFairness

-----------------------------------------------------------------------------
TypeOK == FrontendTypeOK /\ BackendTypeOK

(***************************************************************************)
(* Whoever reads events or subscribes to messages gets all of them, and    *)
(* none before an earlier one, however reads, writes, closes and replays   *)
(* interleave: see StreamIsOwn, FollowerMissesNothing (which lets some     *)
(* events come twice) and OpenAreCalled (where no callback throws).        *)
(***************************************************************************)
DeliveryIsComplete ==
  /\ EventStream!StreamIsOwn
  /\ Followers!FollowerMissesNothing
  /\ Subscriptions!OpenAreCalled

(***************************************************************************)
(* No service waits for ever: once the browser and the broker answer, the  *)
(* wake lock is locked or unlocked, the screen saver has come or gone, a   *)
(* recording that was told to stop has ended, a token is refreshed or the  *)
(* tab signed out, a connection whose peer is gone is said to be gone, an  *)
(* event stream whose client is gone has ended, and the canvas draws the   *)
(* viewport.  One component moves, so that this is the conjunction of      *)
(* LockSettles, SaverSettles, RecordingEnds, DrawnFollows, RefreshEnds,    *)
(* EndIsTold and StreamEnds.                                               *)
(***************************************************************************)
Waits(n) == FrontendWaits[n] \/ BackendWaits[n]

Settles == \A n \in 1..2 : Waits(n) ~> ~Waits(n)
=============================================================================
