------------------------------- MODULE WakeLock -------------------------------
(***************************************************************************)
(* WakeLockService keeps the screen of a parent station awake.  One class  *)
(* per state answers lock, unlock, the two outcomes of a request, the end  *)
(* of a release and the browser's own release; there is one action per     *)
(* class here, with a disjunct per handler that does something.  Requests  *)
(* are promises: pending, then rejected or a sentinel, which the browser   *)
(* holds until somebody releases it.                                       *)
(***************************************************************************)
EXTENDS Naturals, Sequences

CONSTANT MaxRequests   \* bound: requests for a wake lock

VARIABLES
  lockState,    \* the name of the service's state
  lockRequests, \* what became of each navigator.wakeLock.request
  sentinel,     \* the request whose sentinel Locked keeps, 0 when there is none
  overlapped    \* history: the requests that were unanswered beside another

lockVars == <<lockState, lockRequests, sentinel, overlapped>>

LockStates  == {"unavailable", "available", "lock_lost", "locking", "locked",
                "unlocking", "preparing_to_lock_after_unlocking"}
Outcomes    == {"pending", "rejected", "held", "releasing", "released"}

With(s) == {n \in DOMAIN lockRequests : lockRequests[n] = s}
Settle(n, s) == lockRequests' = [lockRequests EXCEPT ![n] = s]

LockInit ==
  /\ lockState \in {"unavailable", "available"}
  /\ lockRequests = <<>>
  /\ sentinel = 0
  /\ overlapped = {}

MayRequest == Len(lockRequests) < MaxRequests

\* set_state(new Locking()), then navigator.wakeLock.request('screen').
Request(requests) ==
  /\ lockState' = "locking"
  /\ lockRequests' = Append(requests, "pending")
  /\ overlapped' = IF With("pending") = {} THEN overlapped
                   ELSE overlapped \cup With("pending") \cup {Len(lockRequests')}
  /\ UNCHANGED sentinel

\* Mutant of ReleaseAtOnce: the sentinel is dropped without a release.
DropSentinel(n) ==
  /\ Settle(n, "held")
  /\ UNCHANGED <<lockState, sentinel, overlapped>>

\* handle_request_resolved of the states that no longer want the lock.
ReleaseAtOnce(n) ==
  /\ Settle(n, "released")
  /\ UNCHANGED <<lockState, sentinel, overlapped>>

\* handle_request_resolved or handle_request_rejected of a state that only logs.
Ignore(n, s) ==
  /\ Settle(n, s)
  /\ UNCHANGED <<lockState, sentinel, overlapped>>

\* Mutant of GiveUp: the rejection is only logged.
LogRejection(n) == Ignore(n, "rejected")

\* handle_request_rejected of Locking.
GiveUp(n) ==
  /\ lockState' = "available"
  /\ Settle(n, "rejected")
  /\ UNCHANGED <<sentinel, overlapped>>

Available ==
  /\ lockState = "available"
  /\ \/ MayRequest /\ Request(lockRequests)
     \/ \E n \in With("pending") : ReleaseAtOnce(n) \/ Ignore(n, "rejected")

LockLost ==
  /\ lockState = "lock_lost"
  /\ \/ MayRequest /\ Request(lockRequests)
     \/ /\ lockState' = "available"
        /\ UNCHANGED <<lockRequests, sentinel, overlapped>>
     \/ \E n \in With("pending") : ReleaseAtOnce(n) \/ Ignore(n, "rejected")

\* Whichever request is answered first decides, also one made before an unlock.
Locking ==
  /\ lockState = "locking"
  /\ \/ /\ lockState' = "available"
        /\ UNCHANGED <<lockRequests, sentinel, overlapped>>
     \/ \E n \in With("pending") :
          /\ lockState' = "locked"
          /\ sentinel' = n
          /\ Settle(n, "held")
          /\ UNCHANGED overlapped
     \/ \E n \in With("pending") : GiveUp(n)

\* unlock releases and waits; the browser may release first.
Locked ==
  /\ lockState = "locked"
  /\ \/ /\ lockState' = "unlocking"
        /\ Settle(sentinel, "releasing")
        /\ sentinel' = 0
        /\ UNCHANGED overlapped
     \/ /\ lockState' = "lock_lost"
        /\ Settle(sentinel, "released")
        /\ sentinel' = 0
        /\ UNCHANGED overlapped
     \/ \E n \in With("pending") : Ignore(n, "held") \/ Ignore(n, "rejected")

Unlocking ==
  /\ lockState = "unlocking"
  /\ \/ /\ MayRequest
        /\ lockState' = "preparing_to_lock_after_unlocking"
        /\ UNCHANGED <<lockRequests, sentinel, overlapped>>
     \/ \E n \in With("releasing") :
          /\ lockState' = "available"
          /\ Settle(n, "released")
          /\ UNCHANGED <<sentinel, overlapped>>
     \/ \E n \in With("pending") : Ignore(n, "held") \/ Ignore(n, "rejected")

PreparingToLockAfterUnlocking ==
  /\ lockState = "preparing_to_lock_after_unlocking"
  /\ \/ /\ lockState' = "unlocking"
        /\ UNCHANGED <<lockRequests, sentinel, overlapped>>
     \/ \E n \in With("releasing") :
          Request([lockRequests EXCEPT ![n] = "released"])
     \/ \E n \in With("pending") : Ignore(n, "held") \/ Ignore(n, "rejected")

\* A sentinel that no state listens to is released by the browser unnoticed
\* (the page is hidden).
ReleasedUnnoticed ==
  /\ \E n \in With("held") \ {sentinel} : Settle(n, "released")
  /\ UNCHANGED <<lockState, sentinel, overlapped>>

LockNext ==
  \/ Available \/ LockLost \/ Locking \/ Locked \/ Unlocking
  \/ PreparingToLockAfterUnlocking \/ ReleasedUnnoticed

LockSpec == LockInit /\ [][LockNext]_lockVars

\* The browser settles a request, and a release, at some time.
Answered ==
  /\ LockNext
  /\ \E n \in With("pending") \cup With("releasing") :
        lockRequests'[n] # lockRequests[n]

-----------------------------------------------------------------------------
LockTypeOK ==
  /\ lockState \in LockStates
  /\ lockRequests \in Seq(Outcomes)
  /\ sentinel \in 0..Len(lockRequests)
  /\ overlapped \subseteq DOMAIN lockRequests

(***************************************************************************)
(* No sentinel is forgotten: Locked has one that the browser still holds,  *)
(* and one that the browser holds is the one that Locked will release.     *)
(* The second is not said of requests that were unanswered side by side:   *)
(* after lock, unlock, lock the second answer meets Locked, which only     *)
(* logs it, and its sentinel is forgotten.  No other sentinel is.          *)
(***************************************************************************)
HeldIsKnown ==
  /\ (lockState = "locked") <=> (sentinel # 0)
  /\ sentinel # 0 => lockRequests[sentinel] = "held"
  /\ With("held") \subseteq {sentinel} \cup overlapped

(***************************************************************************)
(* The service never stays in a waiting state once the browser answers.    *)
(***************************************************************************)
LockWaits == <<lockState = "locking", With("releasing") # {}>>

LockSettles == \A n \in 1..2 : LockWaits[n] ~> ~LockWaits[n]
=============================================================================
