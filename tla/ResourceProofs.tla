---------------------------- MODULE ResourceProofs ----------------------------
(***************************************************************************)
(* What TLAPS shows of what a browser holds, however often it is asked     *)
(* for: WakeLock, ScreenSaver and MediaDevices keep their types, and       *)
(* forget nothing that they hold; and the tokens of its tabs let them do   *)
(* what is theirs to do, and nothing else.                                 *)
(***************************************************************************)
EXTENDS WakeLock, ScreenSaver, MediaDevices, Access,
        TLAPS, SequenceTheorems, FiniteSetTheorems

-----------------------------------------------------------------------------
(***************************************************************************)
(* The wake lock                                                           *)
(***************************************************************************)

\* An unanswered request that did not overlap another is the only one, and was
\* made since the lock was last had: else its sentinel would be forgotten.
OneRequestInv ==
  \A n \in With("pending") \ overlapped :
    /\ With("pending") = {n}
    /\ lockState \notin {"locked", "unlocking", "preparing_to_lock_after_unlocking"}

LockInv == LockTypeOK /\ HeldIsKnown /\ OneRequestInv

-----------------------------------------------------------------------------
(* A request that is settled, and one that is made. *)

LEMMA RequestSettled ==
  ASSUME LockTypeOK, NEW n \in DOMAIN lockRequests, NEW s \in Outcomes, Settle(n, s)
  PROVE  /\ lockRequests' \in Seq(Outcomes)
         /\ Len(lockRequests') = Len(lockRequests)
         /\ lockRequests'[n] = s
         /\ \A m \in DOMAIN lockRequests : m # n => lockRequests'[m] = lockRequests[m]
         /\ \A t : With(t)' = (With(t) \ {n}) \cup (IF t = s THEN {n} ELSE {})
<1>1. /\ lockRequests \in Seq(Outcomes) /\ n \in 1..Len(lockRequests)
      /\ DOMAIN lockRequests = 1..Len(lockRequests)
  BY LenProperties DEF LockTypeOK
<1>2. /\ lockRequests' \in Seq(Outcomes)
      /\ Len(lockRequests') = Len(lockRequests)
      /\ \A m \in 1..Len(lockRequests) :
           lockRequests'[m] = IF m = n THEN s ELSE lockRequests[m]
  BY <1>1, ExceptSeq DEF Settle
<1>3. DOMAIN lockRequests' = 1..Len(lockRequests)
  BY <1>2, LenProperties
<1> QED BY <1>1, <1>2, <1>3 DEF With

LEMMA RequestMade ==
  ASSUME NEW q \in Seq(Outcomes), Request(q)
  PROVE  /\ lockRequests' \in Seq(Outcomes)
         /\ Len(lockRequests') = Len(q) + 1
         /\ \A m \in 1..Len(q) : lockRequests'[m] = q[m]
         /\ With("pending")' = {m \in 1..Len(q) : q[m] = "pending"} \cup {Len(q) + 1}
         /\ With("held")' = {m \in 1..Len(q) : q[m] = "held"}
<1>1. "pending" \in Outcomes
  BY DEF Outcomes
<1>2. /\ lockRequests' \in Seq(Outcomes)
      /\ Len(lockRequests') = Len(q) + 1
      /\ \A m \in 1..Len(q) : lockRequests'[m] = q[m]
      /\ lockRequests'[Len(q) + 1] = "pending"
  BY <1>1, AppendProperties DEF Request
<1>3. DOMAIN lockRequests' = 1..(Len(q) + 1) /\ Len(q) \in Nat
  BY <1>2, LenProperties
<1> QED BY <1>2, <1>3 DEF With

-----------------------------------------------------------------------------
LEMMA LockInitInv == LockInit => LockInv
<1> SUFFICES ASSUME LockInit PROVE LockInv
  OBVIOUS
<1>1. lockRequests \in Seq(Outcomes) /\ DOMAIN lockRequests = {} /\ Len(lockRequests) = 0
  BY EmptySeq DEF LockInit
<1>2. LockTypeOK
  <2>1. lockState \in LockStates /\ sentinel = 0 /\ overlapped = {}
    BY DEF LockInit, LockStates
  <2> QED BY <1>1, <2>1 DEF LockTypeOK
<1>3. HeldIsKnown /\ OneRequestInv
  BY <1>1 DEF LockInit, HeldIsKnown, OneRequestInv, With
<1> QED BY <1>2, <1>3 DEF LockInv

\* A state that neither has nor wants the lock settles a request or a release.
LEMMA SettlingInv ==
  ASSUME LockInv, NEW n \in DOMAIN lockRequests, NEW s \in Outcomes \ {"pending"}, Settle(n, s),
         lockState' = lockState \/ (lockState # "locked" /\ lockState' = "available"),
         UNCHANGED <<sentinel, overlapped>>,
         n # sentinel, s # "held" \/ n \in overlapped
  PROVE  LockInv'
<1> USE DEF LockInv
<1>1. LockTypeOK'
  BY RequestSettled DEF LockTypeOK, LockStates
<1>2. HeldIsKnown'
  <2>1. sentinel # 0 => sentinel \in DOMAIN lockRequests
    BY LenProperties DEF LockTypeOK
  <2>2. sentinel # 0 => lockRequests'[sentinel] = lockRequests[sentinel]
    BY <2>1, RequestSettled
  <2>3. With("held")' \subseteq With("held") \cup overlapped
    BY RequestSettled
  <2> QED BY <2>2, <2>3 DEF HeldIsKnown
<1>3. OneRequestInv'
  <2>1. With("pending")' \subseteq With("pending")
    BY RequestSettled
  <2> QED BY <2>1 DEF OneRequestInv
<1> QED BY <1>1, <1>2, <1>3

\* A request is made in a state without a sentinel.
LEMMA RequestingInv ==
  ASSUME LockInv, NEW q \in Seq(Outcomes), Request(q), Len(q) = Len(lockRequests),
         sentinel = 0,
         {m \in 1..Len(q) : q[m] = "pending"} = With("pending"),
         {m \in 1..Len(q) : q[m] = "held"} = With("held")
  PROVE  LockInv'
<1> USE DEF LockInv
<1>1. LockTypeOK'
  BY RequestMade, LenProperties DEF LockTypeOK, LockStates, Request
<1>2. HeldIsKnown'
  BY RequestMade DEF HeldIsKnown, Request
<1>3. OneRequestInv'
  BY RequestMade DEF OneRequestInv, Request
<1> QED BY <1>1, <1>2, <1>3

\* A step that only changes the state, to one without the lock, or from it.
LEMMA MovingInv ==
  ASSUME LockInv, lockState' \in LockStates \ {"locked"}, lockState # "locked",
         lockState' \in {"unlocking", "preparing_to_lock_after_unlocking"} =>
           lockState \in {"unlocking", "preparing_to_lock_after_unlocking"},
         UNCHANGED <<lockRequests, sentinel, overlapped>>
  PROVE  LockInv'
BY DEF LockInv, LockTypeOK, HeldIsKnown, OneRequestInv, With

-----------------------------------------------------------------------------
(* The actions, one per state of the service.                              *)

LEMMA AnswerDomain ==
  ASSUME LockInv, NEW s, NEW n \in With(s)
  PROVE  n \in DOMAIN lockRequests /\ lockRequests[n] = s
BY DEF With

LEMMA SameRequests ==
  ASSUME LockInv, sentinel = 0, Request(lockRequests)
  PROVE  LockInv'
<1>1. lockRequests \in Seq(Outcomes) /\ DOMAIN lockRequests = 1..Len(lockRequests)
  BY LenProperties DEF LockInv, LockTypeOK
<1> QED BY <1>1, RequestingInv DEF With

LEMMA AvailableInv == ASSUME LockInv, Available PROVE LockInv'
<1>1. sentinel = 0 /\ lockState \in LockStates
  BY DEF Available, LockInv, HeldIsKnown, LockTypeOK
<1>2. CASE Request(lockRequests)
  BY <1>1, <1>2, SameRequests
<1>3. ASSUME NEW n \in With("pending"), ReleaseAtOnce(n) \/ Ignore(n, "rejected")
      PROVE  LockInv'
  <2>1. PICK s \in {"released", "rejected"} :
          Settle(n, s) /\ UNCHANGED <<lockState, sentinel, overlapped>>
    BY <1>3 DEF ReleaseAtOnce, Ignore
  <2>2. n \in DOMAIN lockRequests /\ n # 0 /\ s \in Outcomes \ {"pending"}
    BY <1>3, LenProperties DEF With, Outcomes, LockInv, LockTypeOK
  <2> QED BY <1>1, <2>1, <2>2, SettlingInv
<1> QED BY <1>2, <1>3 DEF Available

LEMMA LockLostInv == ASSUME LockInv, LockLost PROVE LockInv'
<1>1. sentinel = 0 /\ lockState = "lock_lost"
  BY DEF LockLost, LockInv, HeldIsKnown
<1>2. CASE Request(lockRequests)
  BY <1>1, <1>2, SameRequests
<1>3. CASE lockState' = "available" /\ UNCHANGED <<lockRequests, sentinel, overlapped>>
  BY <1>1, <1>3, MovingInv DEF LockStates
<1>4. ASSUME NEW n \in With("pending"), ReleaseAtOnce(n) \/ Ignore(n, "rejected")
      PROVE  LockInv'
  <2>1. PICK s \in {"released", "rejected"} :
          Settle(n, s) /\ UNCHANGED <<lockState, sentinel, overlapped>>
    BY <1>4 DEF ReleaseAtOnce, Ignore
  <2>2. n \in DOMAIN lockRequests /\ n # 0 /\ s \in Outcomes \ {"pending"}
    BY <1>4, LenProperties DEF With, Outcomes, LockInv, LockTypeOK
  <2>3. lockState' \in LockStates
    BY <1>1, <2>1 DEF LockStates
  <2> QED BY <1>1, <2>1, <2>2, <2>3, SettlingInv
<1> QED BY <1>2, <1>3, <1>4 DEF LockLost

LEMMA LockingInv == ASSUME LockInv, Locking PROVE LockInv'
<1>1. sentinel = 0 /\ lockState = "locking"
  BY DEF Locking, LockInv, HeldIsKnown
<1>2. CASE lockState' = "available" /\ UNCHANGED <<lockRequests, sentinel, overlapped>>
  BY <1>1, <1>2, MovingInv DEF LockStates
<1>3. ASSUME NEW n \in With("pending"), lockState' = "locked", sentinel' = n,
             Settle(n, "held"), UNCHANGED overlapped
      PROVE  LockInv'
  <2>1. /\ n \in DOMAIN lockRequests /\ n \in 1..Len(lockRequests) /\ n # 0
        /\ 0 \notin With("held") /\ "held" \in Outcomes
    BY <1>3, LenProperties DEF With, Outcomes, LockInv, LockTypeOK
  <2>2. LockTypeOK'
    BY <1>3, <2>1, RequestSettled DEF LockInv, LockTypeOK, LockStates
  <2>3. HeldIsKnown'
    BY <1>1, <1>3, <2>1, RequestSettled DEF LockInv, HeldIsKnown
  <2>4. OneRequestInv'
    BY <1>3, <2>1, RequestSettled DEF LockInv, OneRequestInv
  <2> QED BY <2>2, <2>3, <2>4 DEF LockInv
<1>4. ASSUME NEW n \in With("pending"), GiveUp(n)
      PROVE  LockInv'
  <2>1. n \in DOMAIN lockRequests /\ n # 0 /\ "rejected" \in Outcomes \ {"pending"}
    BY <1>4, LenProperties DEF With, Outcomes, LockInv, LockTypeOK
  <2>2. lockState' = "available" /\ lockState' \in LockStates
    BY <1>4 DEF GiveUp, LockStates
  <2> QED BY <1>1, <1>4, <2>1, <2>2, SettlingInv DEF GiveUp
<1> QED BY <1>2, <1>3, <1>4 DEF Locking

\* Locked lets its sentinel go, on unlock or because the browser released it.
LEMMA LettingGo ==
  ASSUME LockInv, lockState = "locked", sentinel' = 0, UNCHANGED overlapped,
         NEW s \in {"releasing", "released"}, Settle(sentinel, s),
         lockState' \in {"unlocking", "lock_lost"}
  PROVE  LockInv'
<1>1. sentinel \in DOMAIN lockRequests /\ s \in Outcomes
  BY LenProperties DEF LockInv, LockTypeOK, HeldIsKnown, Outcomes
<1>2. LockTypeOK'
  BY <1>1, RequestSettled DEF LockInv, LockTypeOK, LockStates
<1>3. HeldIsKnown'
  BY <1>1, RequestSettled DEF LockInv, HeldIsKnown
<1>4. OneRequestInv'
  BY <1>1, RequestSettled DEF LockInv, OneRequestInv
<1> QED BY <1>2, <1>3, <1>4 DEF LockInv

\* An answer that meets a state which only logs it is that of a request that
\* overlapped another.
LEMMA IgnoringInv ==
  ASSUME LockInv, NEW n \in With("pending"), Ignore(n, "held") \/ Ignore(n, "rejected"),
         lockState \in {"locked", "unlocking", "preparing_to_lock_after_unlocking"}
  PROVE  LockInv'
<1>1. PICK s \in {"held", "rejected"} :
        Settle(n, s) /\ UNCHANGED <<lockState, sentinel, overlapped>>
  BY DEF Ignore
<1>2. n \in DOMAIN lockRequests /\ s \in Outcomes \ {"pending"} /\ n # sentinel
  BY <1>1, LenProperties DEF With, Outcomes, LockInv, LockTypeOK, HeldIsKnown
<1>3. n \in overlapped
  BY DEF LockInv, OneRequestInv
<1> QED BY <1>1, <1>2, <1>3, SettlingInv DEF LockInv, LockTypeOK

LEMMA LockedInv == ASSUME LockInv, Locked PROVE LockInv'
BY LettingGo, IgnoringInv DEF Locked

LEMMA UnlockingInv == ASSUME LockInv, Unlocking PROVE LockInv'
<1>1. sentinel = 0 /\ lockState = "unlocking"
  BY DEF Unlocking, LockInv, HeldIsKnown
<1>2. CASE /\ lockState' = "preparing_to_lock_after_unlocking"
           /\ UNCHANGED <<lockRequests, sentinel, overlapped>>
  BY <1>1, <1>2, MovingInv DEF LockStates
<1>3. ASSUME NEW n \in With("releasing"), lockState' = "available", Settle(n, "released"),
             UNCHANGED <<sentinel, overlapped>>
      PROVE  LockInv'
  <2>1. n \in DOMAIN lockRequests /\ n # 0 /\ "released" \in Outcomes \ {"pending"}
    BY <1>3, LenProperties DEF With, Outcomes, LockInv, LockTypeOK
  <2>2. lockState' \in LockStates
    BY <1>3 DEF LockStates
  <2> QED BY <1>1, <1>3, <2>1, <2>2, SettlingInv
<1>4. ASSUME NEW n \in With("pending"), Ignore(n, "held") \/ Ignore(n, "rejected")
      PROVE  LockInv'
  BY <1>1, <1>4, IgnoringInv
<1> QED BY <1>2, <1>3, <1>4 DEF Unlocking

LEMMA PreparingInv == ASSUME LockInv, PreparingToLockAfterUnlocking PROVE LockInv'
<1>1. sentinel = 0 /\ lockState = "preparing_to_lock_after_unlocking"
  BY DEF PreparingToLockAfterUnlocking, LockInv, HeldIsKnown
<1>2. CASE lockState' = "unlocking" /\ UNCHANGED <<lockRequests, sentinel, overlapped>>
  BY <1>1, <1>2, MovingInv DEF LockStates
<1>3. ASSUME NEW n \in With("releasing"),
             Request([lockRequests EXCEPT ![n] = "released"])
      PROVE  LockInv'
  <2> DEFINE q == [lockRequests EXCEPT ![n] = "released"]
  <2>1. /\ n \in 1..Len(lockRequests) /\ lockRequests[n] = "releasing"
        /\ DOMAIN lockRequests = 1..Len(lockRequests) /\ lockRequests \in Seq(Outcomes)
    BY <1>3, LenProperties DEF With, LockInv, LockTypeOK
  <2>2. /\ q \in Seq(Outcomes) /\ Len(q) = Len(lockRequests)
        /\ \A m \in 1..Len(lockRequests) :
             q[m] = IF m = n THEN "released" ELSE lockRequests[m]
    BY <2>1, ExceptSeq DEF Outcomes
  <2>3. /\ {m \in 1..Len(q) : q[m] = "pending"} = With("pending")
        /\ {m \in 1..Len(q) : q[m] = "held"} = With("held")
    BY <2>1, <2>2 DEF With
  <2> QED BY <1>1, <1>3, <2>2, <2>3, RequestingInv
<1>4. ASSUME NEW n \in With("pending"), Ignore(n, "held") \/ Ignore(n, "rejected")
      PROVE  LockInv'
  BY <1>1, <1>4, IgnoringInv
<1> QED BY <1>2, <1>3, <1>4 DEF PreparingToLockAfterUnlocking

LEMMA ReleasedUnnoticedInv == ASSUME LockInv, ReleasedUnnoticed PROVE LockInv'
<1>1. PICK n \in With("held") \ {sentinel} :
        Settle(n, "released") /\ UNCHANGED <<lockState, sentinel, overlapped>>
  BY DEF ReleasedUnnoticed
<1>2. n \in DOMAIN lockRequests /\ "released" \in Outcomes \ {"pending"}
  BY <1>1 DEF With, Outcomes
<1> QED BY <1>1, <1>2, SettlingInv DEF LockInv, LockTypeOK

-----------------------------------------------------------------------------
(***************************************************************************)
(* The invariant holds always, however many requests are made.             *)
(***************************************************************************)
THEOREM LockInvariance == LockSpec => []LockInv
<1>1. LockInv /\ [LockNext]_lockVars => LockInv'
  <2> SUFFICES ASSUME LockInv, [LockNext]_lockVars PROVE LockInv'
    OBVIOUS
  <2>1. CASE LockNext
    BY <2>1, AvailableInv, LockLostInv, LockingInv, LockedInv, UnlockingInv, PreparingInv,
       ReleasedUnnoticedInv DEF LockNext
  <2>2. CASE UNCHANGED lockVars
    BY <2>2 DEF lockVars, LockInv, LockTypeOK, HeldIsKnown, OneRequestInv, With
  <2> QED BY <2>1, <2>2
<1> QED BY LockInitInv, <1>1, PTL DEF LockSpec

(***************************************************************************)
(* Each variable of the wake lock service keeps its type.                  *)
(***************************************************************************)
THEOREM LockTypeCorrect == LockSpec => []LockTypeOK
<1>1. LockInv => LockTypeOK
  BY DEF LockInv
<1> QED BY LockInvariance, <1>1, PTL

(***************************************************************************)
(* WakeLockService.ts: what Locked has, the browser holds, and of what the *)
(* browser holds the service knows every sentinel whose request was the    *)
(* only one unanswered.  Of requests that overlapped it may forget one.    *)
(***************************************************************************)
THEOREM NoSentinelForgotten == LockSpec => []HeldIsKnown
<1>1. LockInv => HeldIsKnown
  BY DEF LockInv
<1> QED BY LockInvariance, <1>1, PTL
-----------------------------------------------------------------------------
(***************************************************************************)
(* The screen saver                                                        *)
(***************************************************************************)

\* A state that does not run has no canvas.
IdleInv == saver \in {"not_running", "fallback_not_running"} => canvas = 0

\* Each canvas enters full screen once, and leaves it once: two events.
One(condition) == IF condition THEN 1 ELSE 0

EventsInv ==
  changes + One(element # 0) + 2 * One(saver = "entering_fullscreen") <= 2 * made

SaverInv == SaverTypeOK /\ CanvasIsKnown /\ IdleInv /\ EventsInv

LEMMA SaverInitInv == ASSUME MaxCanvases \in Nat, SaverInit PROVE SaverInv
BY DEF SaverInit, SaverInv, SaverTypeOK, SaverStates, CanvasIsKnown, IdleInv, EventsInv, One

\* The types, and the count of events, in numbers.
LEMMA SaverNumbers ==
  ASSUME MaxCanvases \in Nat, SaverInv
  PROVE  /\ made \in Nat /\ made <= MaxCanvases /\ changes \in Nat
         /\ canvas \in Nat /\ canvas <= made /\ element \in Nat /\ element <= made
         /\ attached \subseteq 1..made /\ asked \subseteq 1..made /\ refused \subseteq 1..made
BY DEF SaverInv, SaverTypeOK

\* A canvas is put into the page where none was.
LEMMA NewCanvasInv ==
  ASSUME MaxCanvases \in Nat, SaverInv,
         \/ /\ saver = "not_running" /\ NewCanvas("entering_fullscreen")
            /\ asked' = asked \cup {canvas'} /\ UNCHANGED <<refused, element, changes>>
         \/ FallbackNotRunning
  PROVE  SaverInv'
<1>1. /\ made' = made + 1 /\ canvas' = made + 1 /\ attached' = attached \cup {made + 1}
      /\ made < MaxCanvases /\ canvas = 0 /\ element = 0
      /\ asked' \subseteq asked \cup {made + 1} /\ UNCHANGED <<refused, element, changes>>
  BY DEF NewCanvas, FallbackNotRunning, page, SaverInv, IdleInv, CanvasIsKnown
<1>2. \/ saver = "not_running" /\ saver' = "entering_fullscreen"
      \/ saver = "fallback_not_running" /\ saver' = "fallback_running"
  BY DEF NewCanvas, FallbackNotRunning
<1>3. SaverTypeOK'
  <2>1. 1..made \subseteq 1..made + 1 /\ made + 1 \in 1..made + 1
    BY SaverNumbers
  <2>2. made + 1 \in 0..MaxCanvases /\ 0 \in 0..made + 1 /\ made + 1 \in 0..made + 1
    BY <1>1, SaverNumbers
  <2> QED BY <1>1, <1>2, <2>1, <2>2, SaverNumbers DEF SaverInv, SaverTypeOK, SaverStates
<1>4. CanvasIsKnown'
  <2>1. attached \subseteq {canvas} \cup refused
    BY DEF SaverInv, CanvasIsKnown
  <2>2. canvas \notin attached
    BY <1>1, SaverNumbers
  <2>3. attached' \subseteq {canvas'} \cup refused'
    BY <1>1, <2>1, <2>2
  <2> QED BY <1>1, <2>3 DEF CanvasIsKnown
<1>5. IdleInv' /\ EventsInv'
  BY <1>1, <1>2, SaverNumbers DEF SaverInv, IdleInv, EventsInv, One
<1> QED BY <1>3, <1>4, <1>5 DEF SaverInv

\* The browser answers the request for full screen.
LEMMA EnteringInv ==
  ASSUME MaxCanvases \in Nat, SaverInv, EnteringFullScreen, UNCHANGED made
  PROVE  SaverInv'
<1>1. saver = "entering_fullscreen" /\ element = 0 /\ UNCHANGED attached
  BY DEF EnteringFullScreen, SaverInv, CanvasIsKnown
<1>2. asked \subseteq 1..made
  BY SaverNumbers
<1>3. EventsInv' /\ changes' \in Nat
  BY <1>1, <1>2, SaverNumbers DEF EnteringFullScreen, Fire, SaverInv, EventsInv, One
<1>4. changes' \in 0..2 * MaxCanvases
  BY <1>3, SaverNumbers DEF EventsInv, One
<1>5. SaverTypeOK' /\ CanvasIsKnown' /\ IdleInv'
  BY <1>1, <1>2, <1>4 DEF EnteringFullScreen, Fire, SaverInv, SaverTypeOK, SaverStates,
     CanvasIsKnown, IdleInv
<1> QED BY <1>3, <1>5 DEF SaverInv

\* What changes of full screen and clicks do to a canvas in the page.
LEMMA LeavingInv ==
  ASSUME MaxCanvases \in Nat, SaverInv,
         \/ saver = "not_running" /\ Fire
              /\ UNCHANGED <<saver, canvas, made, attached, asked, refused, element>>
         \/ Running \/ ExitingFullScreen \/ FallbackRunning \/ LeaveFullScreen
  PROVE  SaverInv'
<1>1. /\ UNCHANGED <<made, asked, refused>>
      /\ \/ UNCHANGED <<canvas, attached>>
         \/ canvas' = 0 /\ attached' = attached \ {canvas} /\ element' = 0
      /\ element' \in {element, 0}
      /\ element' # 0 => saver' \in {"running", "exiting_fullscreen"}
      /\ saver' \in SaverStates \ {"entering_fullscreen"} \/ saver' = saver
      /\ saver' \in {"not_running", "fallback_not_running"} => canvas' = 0
  BY DEF Running, ExitingFullScreen, FallbackRunning, LeaveFullScreen, Changed, Remove, Fire, page,
     SaverInv, CanvasIsKnown, IdleInv, SaverStates
<1>2. \/ changes' = changes
      \/ changes > 0 /\ changes' = changes - 1
      \/ element # 0 /\ element' = 0 /\ changes' = changes + 1
  BY DEF Running, ExitingFullScreen, FallbackRunning, LeaveFullScreen, Changed, Fire, page
<1>3. EventsInv' /\ changes' \in Nat
  BY <1>1, <1>2, SaverNumbers DEF SaverInv, EventsInv, One
<1>4. changes' \in 0..2 * MaxCanvases
  BY <1>1, <1>3, SaverNumbers DEF EventsInv, One
<1>5. SaverTypeOK'
  BY <1>1, <1>4 DEF SaverInv, SaverTypeOK
<1>6. CanvasIsKnown' /\ IdleInv'
  BY <1>1, SaverNumbers DEF SaverInv, CanvasIsKnown, IdleInv
<1> QED BY <1>3, <1>5, <1>6 DEF SaverInv

LEMMA SaverNextInv ==
  ASSUME MaxCanvases \in Nat, SaverInv, [SaverNext]_saverVars
  PROVE  SaverInv'
<1>1. CASE NotRunning
  BY <1>1, NewCanvasInv, LeavingInv DEF NotRunning
<1>2. CASE EnteringFullScreen
  BY <1>2, EnteringInv DEF EnteringFullScreen
<1>3. CASE FallbackNotRunning
  BY <1>3, NewCanvasInv
<1>4. CASE Running \/ ExitingFullScreen \/ FallbackRunning \/ LeaveFullScreen
  BY <1>4, LeavingInv
<1>5. CASE UNCHANGED saverVars
  BY <1>5 DEF saverVars, SaverInv, SaverTypeOK, CanvasIsKnown, IdleInv, EventsInv
<1> QED BY <1>1, <1>2, <1>3, <1>4, <1>5 DEF SaverNext

(***************************************************************************)
(* ScreenSaverService.ts keeps its types, and no more events are to come   *)
(* than two for each canvas.                                               *)
(***************************************************************************)
THEOREM SaverTypeCorrect == ASSUME MaxCanvases \in Nat PROVE SaverSpec => []SaverTypeOK
<1>1. SaverInv => SaverTypeOK
  BY DEF SaverInv
<1> QED BY SaverInitInv, SaverNextInv, <1>1, PTL DEF SaverSpec

(***************************************************************************)
(* ScreenSaverService.ts gives the page back: a canvas in it is the one of *)
(* the state or was refused, and the one that covers the screen is the     *)
(* one that answers clicks.                                                *)
(***************************************************************************)
THEOREM NoCanvasForgotten == ASSUME MaxCanvases \in Nat PROVE SaverSpec => []CanvasIsKnown
<1>1. SaverInv => CanvasIsKnown
  BY DEF SaverInv
<1> QED BY SaverInitInv, SaverNextInv, <1>1, PTL DEF SaverSpec

-----------------------------------------------------------------------------
(***************************************************************************)
(* The camera and the microphone.  "" is the id of the default device.     *)
(***************************************************************************)

Thens == [do : {"nothing"}] \cup [do : {"store"}, key : Kinds, value : Devices]
MediaOutcomes == {"pending", "open", "stopped", "rejected"}
Calls == [outcome : MediaOutcomes, stop : BOOLEAN, then : Thens]

\* At most one prompt is open before the query of the constructor is answered,
\* and one more after it found that the browser cannot tell.
PromptInv ==
  /\ permission = "prompt" => prompts = 0
  /\ permission = "unknown" => queried /\ prompts <= 1
  /\ ~queried => prompts <= 1

CallsInv ==
  /\ calls \in Seq(Calls)
  /\ stream \in [kind : {"not_available", "loading", "available", "rejected"}, call : Nat]

\* What storing its ids would make of the stored ones.
Then(then) ==
  IF then.do = "store" THEN [stored EXCEPT ![then.key] = then.value] ELSE stored

\* While calls do not overlap one at most is unanswered; while it is, none is
\* open, and what it stores are the ids in use.
OneCallInv ==
  ~overlap =>
    /\ \A m, n \in Unanswered : m = n
    /\ \A n \in Unanswered :
         /\ \A m \in DOMAIN calls : calls[m].outcome # "open"
         /\ deviceId = Then(calls[n].then)

MediaInv == MediaTypeOK /\ PromptInv /\ CallsInv /\ OneCallInv /\ DevicesAreKnown

\* The default device is one.
HasDefault == "" \in Devices

LEMMA MediaInitInv == ASSUME HasDefault, MediaInit PROVE MediaInv
<1>1. /\ permission = "prompt" /\ queried = FALSE /\ prompts = 0 /\ supported \in BOOLEAN
      /\ active = FALSE /\ calls = <<>> /\ overlap = FALSE /\ stored = deviceId
      /\ stream = [kind |-> "not_available", call |-> 0]
  BY Zenon DEF MediaInit
<1>2. deviceId \in [Kinds -> Devices]
  BY Zenon DEF MediaInit, HasDefault
<1>3. calls \in Seq(Calls) /\ DOMAIN calls = {} /\ Len(calls) = 0
  <2>1. <<>> \in Seq(Calls) /\ Len(<<>>) = 0 /\ DOMAIN <<>> = {}
    OBVIOUS
  <2> QED BY <1>1, <2>1
<1>4. Unanswered = {}
  BY <1>3 DEF Unanswered
<1>5. MediaTypeOK
  <2>1. stream.kind = "not_available" /\ stream.call \in 0..Len(calls) /\ prompts \in 0..2
    BY <1>1, <1>3
  <2> QED BY <1>1, <1>2, <1>3, <2>1 DEF MediaTypeOK
<1>6. PromptInv /\ CallsInv
  BY <1>1, <1>3 DEF PromptInv, CallsInv
<1>7. OneCallInv /\ DevicesAreKnown
  BY <1>1, <1>3, <1>4 DEF OneCallInv, DevicesAreKnown
<1> QED BY <1>5, <1>6, <1>7 DEF MediaInv

\* The permission service leaves the devices alone.
LEMMA PermissionInv ==
  ASSUME MediaInv, QueryPermissionState \/ RequestVideoAndAudioPermission
  PROVE  MediaInv'
<1>1. /\ permission \in {"prompt", "prompted", "granted", "denied", "unknown"}
      /\ supported \in BOOLEAN /\ queried \in BOOLEAN /\ prompts \in Nat /\ prompts <= 2
      /\ PromptInv
  BY DEF MediaInv, MediaTypeOK
<1>2. UNCHANGED <<active, deviceId, stored, calls, stream, overlap>>
  BY DEF QueryPermissionState, RequestVideoAndAudioPermission, streamVars
<1>3. /\ permission' \in {"prompt", "prompted", "granted", "denied", "unknown"}
      /\ supported' \in BOOLEAN /\ queried' \in BOOLEAN /\ prompts' \in Nat /\ prompts' <= 2
      /\ PromptInv'
  <2>1. CASE QueryPermissionState
    BY <1>1, <2>1 DEF QueryPermissionState, PromptInv
  <2>2. CASE RequestVideoAndAudioPermission
    <3>1. CASE MayAsk /\ permission' = "prompted" /\ prompts' = prompts + 1
               /\ UNCHANGED <<supported, queried>>
      BY <1>1, <3>1 DEF MayAsk, PromptInv
    <3>2. CASE prompts > 0 /\ prompts' = prompts - 1 /\ permission' \in {"granted", "denied"}
               /\ UNCHANGED <<supported, queried>>
      BY <1>1, <3>2 DEF PromptInv
    <3> QED BY <2>2, <3>1, <3>2 DEF RequestVideoAndAudioPermission
  <2> QED BY <2>1, <2>2
<1>4. prompts' \in 0..2
  BY <1>3
<1>5. MediaTypeOK'
  BY <1>2, <1>3, <1>4 DEF MediaInv, MediaTypeOK
<1>6. CallsInv' /\ OneCallInv' /\ DevicesAreKnown'
  BY <1>2 DEF MediaInv, CallsInv, OneCallInv, DevicesAreKnown, Unanswered, Then
<1> QED BY <1>3, <1>5, <1>6 DEF MediaInv

LEMMA CallsDomain ==
  ASSUME CallsInv
  PROVE  /\ DOMAIN calls = 1..Len(calls) /\ Len(calls) \in Nat
         /\ \A n \in 1..Len(calls) :
              /\ calls[n] \in Calls /\ calls[n].outcome \in MediaOutcomes
              /\ calls[n].stop \in BOOLEAN /\ calls[n].then \in Thens
<1>1. calls \in Seq(Calls)
  BY DEF CallsInv
<1>2. DOMAIN calls = 1..Len(calls) /\ Len(calls) \in Nat
  BY <1>1, LenProperties
<1>3. \A n \in 1..Len(calls) : calls[n] \in Calls
  BY <1>1, ElementOfSeq
<1>4. \A c \in Calls : c.outcome \in MediaOutcomes /\ c.stop \in BOOLEAN /\ c.then \in Thens
  BY DEF Calls
<1> QED BY <1>2, <1>3, <1>4

\* The calls with the stream that is being replaced: it is stopped, or will be.
LEMMA ReplacedCalls ==
  ASSUME CallsInv
  PROVE  /\ StopReplaced \in Seq(Calls) /\ Len(StopReplaced) = Len(calls)
         /\ \A n \in 1..Len(calls) :
              /\ StopReplaced[n].then = calls[n].then
              /\ StopReplaced[n].outcome =
                   IF n = stream.call /\ stream.kind = "available" THEN "stopped"
                   ELSE calls[n].outcome
<1> DEFINE v(n) == IF n # stream.call THEN calls[n]
                   ELSE IF stream.kind = "loading" THEN [calls[n] EXCEPT !.stop = TRUE]
                   ELSE IF stream.kind = "available" THEN [calls[n] EXCEPT !.outcome = "stopped"]
                   ELSE calls[n]
<1>1. ASSUME NEW n \in 1..Len(calls)
      PROVE  /\ v(n) \in Calls /\ v(n).then = calls[n].then
             /\ v(n).outcome = IF n = stream.call /\ stream.kind = "available" THEN "stopped"
                               ELSE calls[n].outcome
  <2>1. calls[n] \in Calls
    BY CallsDomain
  <2>2. CASE n # stream.call
    <3>1. v(n) = calls[n]
      BY <2>2
    <3> QED BY <2>1, <2>2, <3>1
  <2>3. CASE n = stream.call /\ stream.kind = "loading"
    <3>1. v(n) = [calls[n] EXCEPT !.stop = TRUE]
      BY <2>3
    <3> QED BY <2>1, <2>3, <3>1 DEF Calls
  <2>4. CASE n = stream.call /\ stream.kind = "available"
    <3>1. v(n) = [calls[n] EXCEPT !.outcome = "stopped"]
      BY <2>4
    <3> QED BY <2>1, <2>4, <3>1 DEF Calls, MediaOutcomes
  <2>5. CASE n = stream.call /\ stream.kind \notin {"loading", "available"}
    <3>1. v(n) = calls[n]
      BY <2>5
    <3> QED BY <2>1, <2>5, <3>1
  <2> QED BY <2>2, <2>3, <2>4, <2>5
<1>2. StopReplaced = [n \in 1..Len(calls) |-> v(n)]
  <2>1. ASSUME NEW n \in 1..Len(calls)
        PROVE  (IF n # stream.call THEN calls[n]
                ELSE CASE stream.kind = "loading"   -> [calls[n] EXCEPT !.stop = TRUE]
                       [] stream.kind = "available" -> [calls[n] EXCEPT !.outcome = "stopped"]
                       [] OTHER -> calls[n]) = v(n)
    <3>1. CASE n # stream.call
      BY Zenon, <3>1
    <3>2. CASE n = stream.call /\ stream.kind = "loading"
      BY Zenon, <3>2, "loading" # "available"
    <3>3. CASE n = stream.call /\ stream.kind = "available"
      BY Zenon, <3>3, "loading" # "available"
    <3>4. CASE n = stream.call /\ stream.kind # "loading" /\ stream.kind # "available"
      BY Zenon, <3>4
    <3> QED BY <3>1, <3>2, <3>3, <3>4
  <2> QED BY <2>1, CallsDomain DEF StopReplaced
<1> HIDE DEF v
<1>3. Len(calls) \in Nat
  BY CallsDomain
<1>4. StopReplaced \in Seq(Calls) /\ Len(StopReplaced) = Len(calls)
  BY <1>1, <1>2, <1>3
<1> QED BY <1>1, <1>2, <1>4

\* Calling getUserMedia while the ids in use are those that the call stores.
LEMMA CallingInv ==
  ASSUME MediaInv, NEW then \in Thens, GetUserMedia(then),
         UNCHANGED <<stored, permission, supported, queried, prompts>>,
         active' \in BOOLEAN, deviceId' \in [Kinds -> Devices],
         stored = deviceId => deviceId' = Then(then),
         \/ stream' = [kind |-> "loading", call |-> Len(calls')]
         \/ UNCHANGED stream
  PROVE  MediaInv'
<1> DEFINE n == Len(calls)
           old == StopReplaced
<1>1. CallsInv /\ MediaTypeOK /\ OneCallInv /\ DevicesAreKnown /\ PromptInv
  BY DEF MediaInv
<1>2. /\ n \in Nat /\ DOMAIN calls = 1..n /\ old \in Seq(Calls) /\ Len(old) = n
      /\ \A i \in 1..n : /\ old[i].then = calls[i].then
                         /\ old[i].outcome = IF i = stream.call /\ stream.kind = "available"
                                             THEN "stopped" ELSE calls[i].outcome
  BY <1>1, CallsDomain, ReplacedCalls
<1>3. Call(then) \in Calls /\ Call(then).outcome = "pending" /\ Call(then).then = then
  BY DEF Call, Calls, MediaOutcomes
<1>4. calls' = Append(old, Call(then)) /\ overlap' = (overlap \/ Unanswered # {})
  BY DEF GetUserMedia
<1> HIDE DEF n, old
<1>5. /\ calls' \in Seq(Calls) /\ Len(calls') = n + 1 /\ calls'[n + 1] = Call(then)
      /\ \A i \in 1..n : calls'[i] = old[i]
  BY <1>2, <1>3, <1>4, AppendProperties
<1>6. DOMAIN calls' = 1..n + 1 /\ \A i \in 1..n + 1 : i \in 1..n \/ i = n + 1
  BY <1>2, <1>5, LenProperties
<1>7. stream' \in [kind : {"not_available", "loading", "available", "rejected"}, call : Nat]
  BY <1>1, <1>2, <1>5 DEF CallsInv
<1>8. CallsInv'
  BY <1>5, <1>7 DEF CallsInv
<1>9. MediaTypeOK'
  <2>1. stream'.call \in 0..Len(calls') /\ stream'.kind \in {"not_available", "loading", "available", "rejected"}
    <3>1. stream.call \in Nat /\ stream.call <= n
      BY <1>1, <1>2 DEF MediaTypeOK, CallsInv, n
    <3>2. stream'.call \in {stream.call, n + 1}
      BY <1>5
    <3>3. stream'.call \in 0..n + 1
      BY <1>2, <3>1, <3>2
    <3> QED BY <1>5, <1>7, <3>3
  <2>2. \A i \in DOMAIN calls' : calls'[i].outcome \in {"pending", "open", "stopped", "rejected"}
    <3>1. \A i \in 1..Len(calls') : calls'[i] \in Calls
      BY <1>5, ElementOfSeq
    <3>2. \A c \in Calls : c.outcome \in {"pending", "open", "stopped", "rejected"}
      BY DEF Calls, MediaOutcomes
    <3> QED BY <1>5, <1>6, <3>1, <3>2
  <2>3. overlap' \in BOOLEAN
    BY <1>1, <1>4 DEF MediaTypeOK
  <2> QED BY <1>1, <2>1, <2>2, <2>3 DEF MediaTypeOK
<1>10. Unanswered' = {i \in 1..n + 1 : calls'[i].outcome = "pending"}
  BY <1>6 DEF Unanswered
<1>11. n + 1 \in Unanswered' /\ n + 1 \in 1..n + 1
  BY <1>2, <1>3, <1>5, <1>10
<1>12. \A i \in 1..n : i \in Unanswered /\ stream.kind # "available" => i \in Unanswered'
  BY <1>2, <1>5, <1>6, <1>10 DEF Unanswered
<1>13. ASSUME ~overlap'
       PROVE  /\ ~overlap /\ Unanswered = {} /\ stored = deviceId
              /\ Unanswered' = {n + 1}
              /\ \A i \in 1..n + 1 : calls'[i].outcome # "open"
  <2>1. ~overlap /\ Unanswered = {}
    BY <1>1, <1>4, <1>13 DEF MediaTypeOK
  <2>2. stored = deviceId
    BY <1>1, <2>1 DEF DevicesAreKnown
  <2>3. \A i \in 1..n : calls'[i].outcome # "pending" /\ calls'[i].outcome # "open"
    <3>1. \A i \in 1..n : calls[i].outcome # "pending"
                       /\ (calls[i].outcome = "open" => i = stream.call /\ stream.kind = "available")
      BY <1>1, <1>2, <2>1 DEF DevicesAreKnown, Unanswered
    <3> QED BY <1>2, <1>5, <3>1
  <2> QED BY <1>3, <1>5, <1>6, <1>10, <1>11, <2>1, <2>2, <2>3
<1>14. OneCallInv'
  <2>1. ASSUME ~overlap'
        PROVE  \A i \in Unanswered' : i = n + 1
               /\ deviceId' = IF calls'[i].then.do = "store"
                              THEN [stored' EXCEPT ![calls'[i].then.key] = calls'[i].then.value]
                              ELSE stored'
    <3>1. calls'[n + 1].then = then /\ deviceId' = Then(then) /\ stored' = stored
      BY <1>3, <1>5, <1>13, <2>1
    <3> QED BY <1>13, <2>1, <3>1 DEF Then
  <2> QED BY <1>6, <1>13, <2>1 DEF OneCallInv, Then
<1>15. DevicesAreKnown'
  <2>1. stream'.kind = "loading" => stream'.call \in Unanswered'
    <3>1. CASE stream' = [kind |-> "loading", call |-> Len(calls')]
      BY <1>5, <1>11, <3>1
    <3>2. CASE UNCHANGED stream
      <4>1. stream.kind = "loading" => stream.call \in Unanswered /\ stream.call \in 1..n
        BY <1>1, <1>2 DEF DevicesAreKnown, Unanswered
      <4> QED BY <1>12, <3>2, <4>1
    <3> QED BY <3>1, <3>2
  <2> QED BY <1>6, <1>11, <1>13, <2>1 DEF DevicesAreKnown
<1> QED BY <1>1, <1>8, <1>9, <1>14, <1>15 DEF MediaInv, PromptInv

\* Whichever call is answered becomes the state, and its caller goes on.
LEMMA SettledInv ==
  ASSUME MediaInv, NEW n \in Unanswered, NEW kind \in {"available", "rejected"}, Settled(n, kind)
  PROVE  MediaInv'
<1> DEFINE s == IF kind = "rejected" THEN "rejected"
                ELSE IF calls[n].stop THEN "stopped" ELSE "open"
           v == [calls[n] EXCEPT !.outcome = s]
<1>1. CallsInv /\ MediaTypeOK /\ OneCallInv /\ DevicesAreKnown /\ PromptInv
  BY DEF MediaInv
<1>2. /\ n \in 1..Len(calls) /\ calls[n].outcome = "pending" /\ calls[n] \in Calls
      /\ calls[n].then \in Thens /\ Len(calls) \in Nat
      /\ DOMAIN calls = 1..Len(calls) /\ calls \in Seq(Calls)
  BY <1>1, CallsDomain DEF Unanswered, CallsInv
<1>3. s \in MediaOutcomes /\ s # "pending" /\ (s = "open" => kind = "available")
  BY DEF MediaOutcomes
<1>4. /\ stream' = [kind |-> kind, call |-> n] /\ calls' = [calls EXCEPT ![n].outcome = s]
      /\ stored' = Then(calls[n].then)
      /\ UNCHANGED <<active, deviceId, overlap, permission, supported, queried, prompts>>
  BY DEF Settled, Then, permissionVars
<1> HIDE DEF s
<1>5. v \in Calls /\ v.outcome = s /\ v.then = calls[n].then /\ calls' = [calls EXCEPT ![n] = v]
  BY <1>2, <1>3, <1>4 DEF Calls
<1> HIDE DEF v
<1>6. /\ calls' \in Seq(Calls) /\ Len(calls') = Len(calls)
      /\ \A i \in 1..Len(calls) : calls'[i] = IF i = n THEN v ELSE calls[i]
  BY <1>2, <1>5, ExceptSeq
<1>7. DOMAIN calls' = 1..Len(calls)
  BY <1>2, <1>6, LenProperties
<1>8. CallsInv'
  BY <1>2, <1>4, <1>6 DEF CallsInv
<1>9. stored' \in [Kinds -> Devices]
  BY <1>1, <1>2, <1>4 DEF MediaTypeOK, Then, Thens
<1>10. MediaTypeOK'
  <2>1. stream'.call \in 0..Len(calls')
        /\ stream'.kind \in {"not_available", "loading", "available", "rejected"}
    BY <1>2, <1>4, <1>6
  <2>2. \A i \in DOMAIN calls' : calls'[i].outcome \in {"pending", "open", "stopped", "rejected"}
    BY <1>1, <1>2, <1>3, <1>5, <1>6, <1>7 DEF MediaTypeOK, MediaOutcomes
  <2> QED BY <1>1, <1>4, <1>9, <2>1, <2>2 DEF MediaTypeOK
<1>11. Unanswered' = Unanswered \ {n}
  BY <1>2, <1>3, <1>5, <1>6, <1>7 DEF Unanswered
<1>12. ASSUME ~overlap'
       PROVE  /\ Unanswered' = {} /\ stored' = deviceId'
              /\ \A i \in 1..Len(calls) :
                   calls'[i].outcome = "open" => stream' = [kind |-> "available", call |-> i]
  <2>1. /\ ~overlap /\ \A m \in Unanswered : m = n
        /\ \A m \in DOMAIN calls : calls[m].outcome # "open"
        /\ deviceId = Then(calls[n].then)
    BY <1>1, <1>4, <1>12 DEF OneCallInv
  <2>2. Unanswered' = {} /\ stored' = deviceId'
    BY <1>4, <1>11, <2>1
  <2> QED BY <1>2, <1>3, <1>4, <1>5, <1>6, <2>1, <2>2
<1>13. OneCallInv' /\ DevicesAreKnown'
  BY <1>4, <1>7, <1>12 DEF OneCallInv, DevicesAreKnown
<1>14. PromptInv'
  BY <1>1, <1>4 DEF PromptInv
<1> QED BY <1>8, <1>10, <1>13, <1>14 DEF MediaInv

LEMMA MediaNextInv == ASSUME MediaInv, [MediaNext]_mediaVars PROVE MediaInv'
<1>1. CASE QueryPermissionState \/ RequestVideoAndAudioPermission
  BY <1>1, PermissionInv
<1>2. CASE Start \/ RetryGetUserMedia
  <2>1. [do |-> "nothing"] \in Thens /\ Then([do |-> "nothing"]) = stored
    BY DEF Thens, Then
  <2> QED BY <1>2, <2>1, CallingInv DEF Start, RetryGetUserMedia, Loading, permissionVars,
             MediaInv, MediaTypeOK
<1>3. CASE SetDeviceId
  <2>1. PICK k \in Kinds, d \in Devices :
          /\ GetUserMedia([do |-> "store", key |-> k, value |-> d])
          /\ Loading([deviceId EXCEPT ![k] = d])
    BY <1>3 DEF SetDeviceId
  <2> DEFINE then == [do |-> "store", key |-> k, value |-> d]
  <2>2. then \in Thens /\ Then(then) = [stored EXCEPT ![k] = d]
    BY DEF Thens, Then
  <2>3. [deviceId EXCEPT ![k] = d] \in [Kinds -> Devices]
    BY DEF MediaInv, MediaTypeOK
  <2>4. active' \in BOOLEAN /\ UNCHANGED <<stored, permission, supported, queried, prompts>>
    BY <1>3 DEF SetDeviceId, MediaInv, MediaTypeOK, permissionVars
  <2> HIDE DEF then
  <2> QED BY <2>1, <2>2, <2>3, <2>4, CallingInv DEF Loading, then
<1>4. CASE AnswerUserMedia
  BY <1>4, SettledInv DEF AnswerUserMedia
<1>5. CASE UNCHANGED mediaVars
  BY <1>5 DEF mediaVars, permissionVars, streamVars, MediaInv, MediaTypeOK, PromptInv, CallsInv,
     OneCallInv, DevicesAreKnown, Unanswered, Then
<1> QED BY <1>1, <1>2, <1>3, <1>4, <1>5 DEF MediaNext

(***************************************************************************)
(* MediaDevicePermissionService.ts and MediaDeviceService.ts keep their    *)
(* types: two prompts are open at most, and only devices are stored.       *)
(***************************************************************************)
THEOREM MediaTypeCorrect == ASSUME HasDefault PROVE MediaSpec => []MediaTypeOK
<1>1. MediaInv => MediaTypeOK
  BY DEF MediaInv
<1> QED BY MediaInitInv, MediaNextInv, <1>1, PTL DEF MediaSpec

(***************************************************************************)
(* MediaDeviceService.ts: a camera that is on is the one that is shown, a  *)
(* stream that is loading will be answered, and the ids that are stored    *)
(* are those in use, however many streams are opened one after another.    *)
(***************************************************************************)
THEOREM NoStreamForgotten == ASSUME HasDefault PROVE MediaSpec => []DevicesAreKnown
<1>1. MediaInv => DevicesAreKnown
  BY DEF MediaInv
<1> QED BY MediaInitInv, MediaNextInv, <1>1, PTL DEF MediaSpec


-----------------------------------------------------------------------------
(***************************************************************************)
(* Tokens and policies                                                     *)
(***************************************************************************)

\* Accounts and tabs have ids that are no wildcard, and an account has one.
AccessBounds ==
  /\ "*" \notin AccountIds \cup TabIds /\ Missing \notin AccountIds
  /\ MaxAsked \in Nat /\ MaxGranted \in Nat

AnonymousTokens ==
  {[claims |-> AnonymousClaims(address, ScopeAsked[operation]), operation |-> operation] :
     address \in Addresses, operation \in Operations}
AccessTokens == {[claims |-> AccessClaims(a), operation |-> Missing] : a \in AccountIds}

\* Token n was granted to tab c, for its account unless another tab switched.
GrantedTo(n, c) ==
  /\ n \in 1..Len(issued) /\ issued[n] \in AccessTokens
  /\ c \in switched \/ account[c] = issued[n].claims.account

IssuedInv ==
  /\ issued \in Seq(AnonymousTokens \cup AccessTokens)
  /\ refusals = {}
  /\ \A n \in DOMAIN passed : passed[n] = IF n \in usedTokens THEN 1 ELSE 0

TabInv(c) ==
  /\ saved # Missing => c \in switched \/ account[c] \in {Missing, saved}
  /\ held[c] = 0 => account[c] = Missing /\ link[c] = 0
  /\ held[c] # 0 => account[c] # Missing /\ GrantedTo(held[c], c)
  /\ link[c] # 0 => GrantedTo(link[c], c)

TabsInv ==
  /\ saved \in AccountIds \cup {Missing}
  /\ account \in [TabIds -> AccountIds \cup {Missing}]
  /\ held \in [TabIds -> Nat] /\ link \in [TabIds -> Nat]
  /\ \A c \in TabIds : TabInv(c)

\* As many tokens as the bounds allow.
IssuedCount ==
  /\ Len(issued) = Cardinality(OfType("remote_address")) + Cardinality(OfType("user"))
  /\ IsFiniteSet(OfType("remote_address")) /\ Cardinality(OfType("remote_address")) <= MaxAsked
  /\ IsFiniteSet(OfType("user")) /\ Cardinality(OfType("user")) <= MaxGranted
  /\ expired \subseteq 1..Len(issued) /\ usedTokens \subseteq 1..Len(issued)

AccessInv == IssuedInv /\ TabsInv /\ IssuedCount

\* What the tokens say, of either kind.
LEMMA MissingIsNoOperation == Missing \notin Operations
BY Zenon DEF Missing, Operations
LEMMA AnonymousTokenSays ==
  ASSUME NEW t \in AnonymousTokens
  PROVE  /\ t.operation \in Operations /\ t.claims.type = "remote_address"
         /\ t.claims.scope = ScopeExpected(t.operation)
<1>1. PICK address \in Addresses, operation \in Operations :
        t = [claims |-> AnonymousClaims(address, ScopeAsked[operation]), operation |-> operation]
  BY DEF AnonymousTokens
<1>2. ScopeAsked[operation] = ScopeExpected(operation)
  BY DEF Operations, ScopeAsked, ScopeExpected
<1> QED BY <1>1, <1>2 DEF AnonymousClaims
LEMMA AccessTokenSays ==
  ASSUME NEW t \in AccessTokens
  PROVE  /\ t.operation = Missing /\ t.claims.type = "user" /\ t.claims.service = "iam"
         /\ t.claims.account \in AccountIds
BY DEF AccessTokens, AccessClaims
LEMMA IssuedAre ==
  ASSUME IssuedInv
  PROVE  /\ Len(issued) \in Nat /\ DOMAIN issued = 1..Len(issued)
         /\ \A n \in 1..Len(issued) : issued[n] \in AnonymousTokens \cup AccessTokens
BY LenProperties, ElementOfSeq DEF IssuedInv

\* A token more.
LEMMA IssuedMore ==
  ASSUME IssuedInv, NEW t \in AnonymousTokens \cup AccessTokens, issued' = Append(issued, t)
  PROVE  /\ issued' \in Seq(AnonymousTokens \cup AccessTokens)
         /\ Len(issued') = NextToken /\ issued'[NextToken] = t /\ NextToken \in 1..Len(issued')
         /\ NextToken \in Nat \ {0}
         /\ \A n \in 1..Len(issued) : n \in 1..Len(issued') /\ issued'[n] = issued[n]
<1>1. issued \in Seq(AnonymousTokens \cup AccessTokens) /\ Len(issued) \in Nat
  BY IssuedAre DEF IssuedInv
<1>2. /\ issued' \in Seq(AnonymousTokens \cup AccessTokens) /\ Len(issued') = Len(issued) + 1
      /\ issued'[Len(issued) + 1] = t /\ \A n \in 1..Len(issued) : issued'[n] = issued[n]
  BY <1>1, AppendProperties
<1> QED BY <1>1, <1>2 DEF NextToken

LEMMA CountMore ==
  ASSUME AccessBounds, IssuedInv, IssuedCount, NEW t, issued' = Append(issued, t),
         UNCHANGED <<expired, usedTokens>>,
         \/ t \in AnonymousTokens /\ Bounded("remote_address", MaxAsked)
         \/ t \in AccessTokens /\ Bounded("user", MaxGranted)
  PROVE  IssuedCount'
<1>1. PICK N, A, U : N = Len(issued) /\ A = OfType("remote_address") /\ U = OfType("user")
  OBVIOUS
<1>2. /\ N \in Nat /\ IsFiniteSet(A) /\ IsFiniteSet(U) /\ N = Cardinality(A) + Cardinality(U)
      /\ Cardinality(A) \in Nat /\ Cardinality(U) \in Nat
      /\ A \subseteq 1..N /\ U \subseteq 1..N
      /\ Cardinality(A) <= MaxAsked /\ Cardinality(U) <= MaxGranted
      /\ expired \subseteq 1..N /\ usedTokens \subseteq 1..N
  BY <1>1, IssuedAre, FS_CardinalityType DEF IssuedCount, OfType
<1>3. N + 1 \notin A /\ N + 1 \notin U /\ 1..N \subseteq 1..(N + 1)
  BY <1>2
<1>4. \A n \in 1..(N + 1) : n \in 1..N \/ n = N + 1
  BY <1>2
<1>5. t \in AnonymousTokens \cup AccessTokens
  OBVIOUS
<1>6. /\ Len(issued') = N + 1 /\ issued'[N + 1] = t /\ N + 1 \in 1..(N + 1)
      /\ \A n \in 1..N : issued'[n] = issued[n]
      /\ DOMAIN issued' = 1..(N + 1)
  BY <1>1, <1>5, IssuedMore, LenProperties DEF NextToken
<1>7. \A type : OfType(type)' = {n \in 1..N : issued[n].claims.type = type}
                                  \cup {n \in {N + 1} : t.claims.type = type}
  BY <1>3, <1>4, <1>6 DEF OfType
<1>8. A = {n \in 1..N : issued[n].claims.type = "remote_address"}
      /\ U = {n \in 1..N : issued[n].claims.type = "user"}
  BY <1>1, IssuedAre DEF OfType
<1>9. /\ expired' \subseteq 1..Len(issued') /\ usedTokens' \subseteq 1..Len(issued')
  BY <1>2, <1>3, <1>6
<1>10. CASE t \in AnonymousTokens /\ Bounded("remote_address", MaxAsked)
  <2>1. OfType("remote_address")' = A \cup {N + 1} /\ OfType("user")' = U
    <3>1. t.claims.type = "remote_address"
      BY <1>10, AnonymousTokenSays
    <3> QED BY <1>7, <1>8, <3>1
  <2>2. IsFiniteSet(A \cup {N + 1}) /\ Cardinality(A \cup {N + 1}) = Cardinality(A) + 1
    BY <1>2, <1>3, FS_AddElement
  <2>3. Cardinality(A) < MaxAsked
    BY <1>1, <1>10 DEF Bounded
  <2>4. Cardinality(A) + 1 <= MaxAsked /\ N + 1 = Cardinality(A) + 1 + Cardinality(U)
    BY <1>2, <2>3 DEF AccessBounds
  <2> QED BY <1>2, <1>6, <1>9, <2>1, <2>2, <2>4 DEF IssuedCount
<1>11. CASE t \in AccessTokens /\ Bounded("user", MaxGranted)
  <2>1. OfType("user")' = U \cup {N + 1} /\ OfType("remote_address")' = A
    <3>1. t.claims.type = "user"
      BY <1>11, AccessTokenSays
    <3> QED BY <1>7, <1>8, <3>1
  <2>2. IsFiniteSet(U \cup {N + 1}) /\ Cardinality(U \cup {N + 1}) = Cardinality(U) + 1
    BY <1>2, <1>3, FS_AddElement
  <2>3. Cardinality(U) < MaxGranted
    BY <1>1, <1>11 DEF Bounded
  <2>4. Cardinality(U) + 1 <= MaxGranted /\ N + 1 = Cardinality(A) + (Cardinality(U) + 1)
    BY <1>2, <2>3 DEF AccessBounds
  <2> QED BY <1>2, <1>6, <1>9, <2>1, <2>2, <2>4 DEF IssuedCount
<1> QED BY <1>10, <1>11

LEMMA AccessStarts ==
  ASSUME AccessBounds, AccessInit
  PROVE  AccessInv
<1>1. issued = <<>> /\ Len(issued) = 0 /\ expired = {} /\ usedTokens = {} /\ DOMAIN issued = {}
  BY DEF AccessInit
<1>2. IssuedInv
  <2>1. issued \in Seq(AnonymousTokens \cup AccessTokens)
    BY <1>1
  <2> QED BY <1>1, <2>1 DEF IssuedInv, AccessInit
<1>3. TabsInv
  BY DEF TabsInv, TabInv, AccessInit
<1>4. IssuedCount
  <2>1. OfType("remote_address") = {} /\ OfType("user") = {}
    BY <1>1 DEF OfType
  <2>2. IsFiniteSet({}) /\ Cardinality({}) = 0 /\ 0 = 0 + 0 /\ 0 <= MaxAsked /\ 0 <= MaxGranted
    BY FS_EmptySet DEF AccessBounds
  <2> QED BY <1>1, <2>1, <2>2 DEF IssuedCount
<1> QED BY <1>2, <1>3, <1>4 DEF AccessInv

\* What tabs hold stays as it is, as long as tokens are only added.
LEMMA TabsKeep ==
  ASSUME TabsInv, UNCHANGED tabVars,
         \A n \in 1..Len(issued) : n \in 1..Len(issued') /\ issued'[n] = issued[n]
  PROVE  TabsInv'
BY DEF TabsInv, TabInv, tabVars, GrantedTo

LEMMA CountKeeps ==
  ASSUME IssuedCount, UNCHANGED issued, expired' \subseteq 1..Len(issued),
         usedTokens' \subseteq 1..Len(issued)
  PROVE  IssuedCount'
<1>1. \A type : OfType(type)' = OfType(type)
  BY DEF OfType
<1> QED BY <1>1 DEF IssuedCount

LEMMA AskStep ==
  ASSUME AccessBounds, AccessInv, NEW address \in Addresses, NEW operation \in Operations,
         AnonymousToken(address, operation)
  PROVE  AccessInv'
<1>1. ScopeAsked[operation] \in AllowedAnonymousScope
  BY DEF Operations, ScopeAsked, AllowedAnonymousScope
<1>2. PICK t : t = [claims |-> AnonymousClaims(address, ScopeAsked[operation]),
                    operation |-> operation]
  OBVIOUS
<1>3. /\ t \in AnonymousTokens /\ issued' = Append(issued, t) /\ UNCHANGED refusals
      /\ Bounded("remote_address", MaxAsked)
      /\ UNCHANGED <<expired, usedTokens, tabVars, passed>>
  BY <1>1, <1>2 DEF AnonymousToken, Issue, AnonymousTokens
<1>4. IssuedInv /\ TabsInv /\ IssuedCount
  BY DEF AccessInv
<1>5. /\ issued' \in Seq(AnonymousTokens \cup AccessTokens)
      /\ \A n \in 1..Len(issued) : n \in 1..Len(issued') /\ issued'[n] = issued[n]
  BY <1>3, <1>4, IssuedMore
<1>6. IssuedInv'
  BY <1>3, <1>4, <1>5 DEF IssuedInv
<1>7. TabsInv'
  BY <1>3, <1>4, <1>5, TabsKeep
<1>8. IssuedCount'
  BY <1>3, <1>4, CountMore
<1> QED BY <1>6, <1>7, <1>8 DEF AccessInv

LEMMA CheckStep ==
  ASSUME AccessBounds, AccessInv, NEW n \in DOMAIN issued, NEW address,
         CheckAnonymousAuthorization(n, address)
  PROVE  AccessInv'
<1>1. /\ IssuedInv /\ TabsInv /\ IssuedCount
      /\ n \in 1..Len(issued) /\ issued[n] \in AnonymousTokens \cup AccessTokens
  BY IssuedAre DEF AccessInv
<1>2. PICK why : why = Expired(n) \cup If(Claims(n).type # "remote_address", "type")
                       \cup If(Claims(n).id # address, "moved")
                       \cup If(Claims(n).scope # ScopeExpected(issued[n].operation), "scope")
                       \cup If(n \in usedTokens, "used")
  OBVIOUS
<1>3. /\ issued[n].operation \in Operations
      /\ IF why = {}
         THEN /\ usedTokens' = usedTokens \cup {n} /\ passed' = [passed EXCEPT ![n] = @ + 1]
              /\ UNCHANGED refusals
         ELSE refusals' = refusals \cup (why \ Explained) /\ UNCHANGED <<usedTokens, passed>>
      /\ UNCHANGED <<issued, expired, tabVars>>
  BY <1>2 DEF CheckAnonymousAuthorization
<1>4. issued[n] \in AnonymousTokens
  BY <1>1, <1>3, AccessTokenSays, MissingIsNoOperation
<1>5. why \subseteq Explained /\ (why = {} => n \notin usedTokens)
  <2>1. Claims(n).type = "remote_address" /\ Claims(n).scope = ScopeExpected(issued[n].operation)
    BY <1>4, AnonymousTokenSays DEF Claims
  <2> QED BY <1>2, <2>1 DEF Expired, If, Explained
<1>6. IssuedInv'
  <2>1. refusals' = {} /\ issued' \in Seq(AnonymousTokens \cup AccessTokens)
    BY <1>1, <1>3, <1>5 DEF IssuedInv
  <2>2. \A k \in DOMAIN passed' : passed'[k] = IF k \in usedTokens' THEN 1 ELSE 0
    <3>1. CASE why = {}
      <4>1. /\ \A k \in DOMAIN passed : passed[k] = IF k \in usedTokens THEN 1 ELSE 0
            /\ n \notin usedTokens /\ usedTokens' = usedTokens \cup {n}
            /\ passed' = [passed EXCEPT ![n] = @ + 1]
        BY <1>1, <1>3, <1>5, <3>1 DEF IssuedInv
      <4>2. DOMAIN passed' = DOMAIN passed
        BY <4>1
      <4>3. ASSUME NEW k \in DOMAIN passed
            PROVE  passed'[k] = IF k \in usedTokens' THEN 1 ELSE 0
        <5>1. CASE k = n
          BY <4>1, <5>1
        <5>2. CASE k # n
          BY <4>1, <5>2
        <5> QED BY <5>1, <5>2
      <4> QED BY <4>2, <4>3
    <3>2. CASE why # {}
      BY <1>1, <1>3, <3>2 DEF IssuedInv
    <3> QED BY <3>1, <3>2
  <2> QED BY <2>1, <2>2 DEF IssuedInv
<1>7. TabsInv'
  BY <1>1, <1>3, TabsKeep
<1>8. IssuedCount'
  BY <1>1, <1>3, CountKeeps DEF IssuedCount
<1> QED BY <1>6, <1>7, <1>8 DEF AccessInv

LEMMA ExpiryStep ==
  ASSUME AccessInv, NEW n \in DOMAIN issued, ExpireToken(n)
  PROVE  AccessInv'
<1>1. IssuedInv /\ TabsInv /\ IssuedCount /\ n \in 1..Len(issued)
  BY IssuedAre DEF AccessInv
<1>2. /\ expired' = expired \cup {n}
      /\ UNCHANGED <<issued, usedTokens, tabVars, passed, refusals>>
  BY DEF ExpireToken
<1>3. IssuedInv'
  BY <1>1, <1>2 DEF IssuedInv
<1>4. TabsInv'
  BY <1>1, <1>2, TabsKeep
<1>5. IssuedCount'
  BY <1>1, <1>2, CountKeeps DEF IssuedCount
<1> QED BY <1>3, <1>4, <1>5 DEF AccessInv

LEMMA LoginStep ==
  ASSUME AccessBounds, AccessInv, NEW c \in TabIds, NEW a \in AccountIds, Login(c, a)
  PROVE  AccessInv'
<1>1. IssuedInv /\ TabsInv /\ IssuedCount
  BY DEF AccessInv
<1>2. PICK t : t = [claims |-> AccessClaims(a), operation |-> Missing]
  OBVIOUS
<1>3. /\ t \in AccessTokens /\ t.claims.account = a /\ issued' = Append(issued, t)
      /\ Bounded("user", MaxGranted) /\ held[c] = 0
      /\ saved' = a /\ held' = [held EXCEPT ![c] = NextToken]
      /\ account' = [account EXCEPT ![c] = a]
      /\ switched' = switched \cup {d \in TabIds : account[d] \notin {Missing, a}}
      /\ UNCHANGED <<expired, usedTokens, link, passed, refusals>>
  BY <1>2 DEF Login, Issue, AccessTokens, AccessClaims
<1>4. /\ issued' \in Seq(AnonymousTokens \cup AccessTokens)
      /\ NextToken \in 1..Len(issued') /\ issued'[NextToken] = t /\ NextToken \in Nat \ {0}
      /\ \A n \in 1..Len(issued) : n \in 1..Len(issued') /\ issued'[n] = issued[n]
  BY <1>1, <1>3, IssuedMore
<1>5. IssuedInv'
  BY <1>1, <1>3, <1>4 DEF IssuedInv
<1>6. IssuedCount'
  BY <1>1, <1>3, CountMore
<1>7. TabsInv'
  <2>1. /\ saved' \in AccountIds \cup {Missing} /\ a # Missing
        /\ account' \in [TabIds -> AccountIds \cup {Missing}]
        /\ held' \in [TabIds -> Nat] /\ link' \in [TabIds -> Nat]
    BY <1>1, <1>3, <1>4 DEF TabsInv, AccessBounds
  <2>2. ASSUME NEW d \in TabIds PROVE  TabInv(d)'
    <3>1. CASE d = c
      <4>1. account'[d] = a /\ held'[d] = NextToken /\ link'[d] = 0
        BY <1>1, <1>3, <3>1 DEF TabsInv, TabInv
      <4>2. GrantedTo(held[d], d)'
        BY <1>3, <1>4, <4>1 DEF GrantedTo
      <4> QED BY <1>3, <1>4, <2>1, <4>1, <4>2 DEF TabInv
    <3>2. CASE d # c
      <4>1. /\ account'[d] = account[d] /\ held'[d] = held[d] /\ link'[d] = link[d]
            /\ d \in switched => d \in switched'
        BY <1>1, <1>3, <3>2 DEF TabsInv
      <4> QED BY <1>1, <1>3, <1>4, <4>1 DEF TabsInv, TabInv, GrantedTo
    <3> QED BY <3>1, <3>2
  <2> QED BY <2>1, <2>2 DEF TabsInv
<1> QED BY <1>5, <1>6, <1>7 DEF AccessInv

LEMMA RefreshStep ==
  ASSUME AccessBounds, AccessInv, NEW c \in TabIds, Refresh(c)
  PROVE  AccessInv'
<1>1. IssuedInv /\ TabsInv /\ IssuedCount
  BY DEF AccessInv
<1>2. PICK t : t = [claims |-> AccessClaims(saved), operation |-> Missing]
  OBVIOUS
<1>3. saved \in AccountIds /\ saved # Missing
  BY <1>1 DEF TabsInv, Refresh
<1>4. /\ t \in AccessTokens /\ t.claims.account = saved /\ issued' = Append(issued, t)
      /\ Bounded("user", MaxGranted)
      /\ held' = [held EXCEPT ![c] = NextToken]
      /\ account' = [account EXCEPT ![c] = IF @ = Missing THEN saved ELSE @]
      /\ UNCHANGED <<expired, usedTokens, saved, link, switched, passed, refusals>>
  BY <1>2, <1>3 DEF Refresh, Issue, AccessTokens, AccessClaims
<1>5. /\ issued' \in Seq(AnonymousTokens \cup AccessTokens)
      /\ NextToken \in 1..Len(issued') /\ issued'[NextToken] = t /\ NextToken \in Nat \ {0}
      /\ \A n \in 1..Len(issued) : n \in 1..Len(issued') /\ issued'[n] = issued[n]
  BY <1>1, <1>4, IssuedMore
<1>6. IssuedInv'
  BY <1>1, <1>4, <1>5 DEF IssuedInv
<1>7. IssuedCount'
  BY <1>1, <1>4, CountMore
<1>8. TabsInv'
  <2>1. /\ account' \in [TabIds -> AccountIds \cup {Missing}]
        /\ held' \in [TabIds -> Nat] /\ link' \in [TabIds -> Nat]
    BY <1>1, <1>3, <1>4, <1>5 DEF TabsInv
  <2>2. ASSUME NEW d \in TabIds PROVE  TabInv(d)'
    <3>1. CASE d = c
      <4>1. /\ account'[d] = IF account[d] = Missing THEN saved ELSE account[d]
            /\ held'[d] = NextToken /\ link'[d] = link[d]
        BY <1>1, <1>4, <3>1 DEF TabsInv
      <4>2. d \in switched \/ account'[d] = saved
        BY <1>1, <1>3, <4>1 DEF TabsInv, TabInv
      <4>3. account'[d] # Missing /\ GrantedTo(held[d], d)'
        BY <1>3, <1>4, <1>5, <4>1, <4>2 DEF GrantedTo
      <4>4. ASSUME link[d] # 0 PROVE GrantedTo(link[d], d)'
        <5>1. GrantedTo(link[d], d) /\ account[d] # Missing
          BY <1>1, <4>4 DEF TabsInv, TabInv
        <5> QED BY <1>4, <1>5, <4>1, <5>1 DEF GrantedTo
      <4> QED BY <1>4, <1>5, <4>1, <4>2, <4>3, <4>4 DEF TabInv
    <3>2. CASE d # c
      <4>1. account'[d] = account[d] /\ held'[d] = held[d] /\ link'[d] = link[d]
        BY <1>1, <1>4, <3>2 DEF TabsInv
      <4> QED BY <1>1, <1>4, <1>5, <4>1 DEF TabsInv, TabInv, GrantedTo
    <3> QED BY <3>1, <3>2
  <2> QED BY <1>1, <1>4, <2>1, <2>2 DEF TabsInv
<1> QED BY <1>6, <1>7, <1>8 DEF AccessInv

\* What a tab holds is a user's token for an account.
LEMMA HeldIsGranted ==
  ASSUME AccessInv, NEW c \in TabIds, held[c] # 0
  PROVE  /\ GrantedTo(held[c], c) /\ account[c] # Missing /\ NotAUser(held[c]) = {}
         /\ Claims(held[c]).account \in AccountIds
         /\ c \in switched \/ account[c] = Claims(held[c]).account
<1>1. GrantedTo(held[c], c) /\ account[c] # Missing
  BY DEF AccessInv, TabsInv, TabInv
<1> QED BY <1>1, AccessTokenSays DEF GrantedTo, NotAUser, Claims, If

LEMMA MiddlewareStep ==
  ASSUME AccessInv, NEW c \in TabIds, NEW path \in {"current", account[c]},
         AuthorizationMiddleware(c, path)
  PROVE  AccessInv'
<1>1. IssuedInv /\ TabsInv /\ IssuedCount /\ held[c] # 0
  BY DEF AccessInv, AuthorizationMiddleware
<1>2. UNCHANGED <<issued, expired, usedTokens, tabVars, passed>>
  BY DEF AuthorizationMiddleware
<1>3. refusals' = {}
  <2>1. PICK own, why : /\ own = Claims(held[c]).account
                        /\ why = Expired(held[c]) \cup NotAUser(held[c])
                                 \cup If(path \notin {Missing, "current", own}, "foreign")
    OBVIOUS
  <2>2. refusals' = refusals \cup ((why \ Explained) \ If(c \in switched, "foreign"))
    BY <2>1 DEF AuthorizationMiddleware
  <2>3. why \subseteq Explained \cup If(c \in switched, "foreign")
    BY <1>1, <2>1, HeldIsGranted DEF Expired, Explained, If
  <2> QED BY <1>1, <2>2, <2>3 DEF IssuedInv
<1>4. IssuedInv'
  BY <1>1, <1>2, <1>3 DEF IssuedInv
<1>5. TabsInv'
  BY <1>1, <1>2, TabsKeep
<1>6. IssuedCount'
  BY <1>1, <1>2, CountKeeps DEF IssuedCount
<1> QED BY <1>4, <1>5, <1>6 DEF AccessInv

LEMMA AuthorizeStep ==
  ASSUME AccessBounds, AccessInv, NEW c \in TabIds, Authorize(c)
  PROVE  AccessInv'
<1>1. IssuedInv /\ TabsInv /\ IssuedCount /\ held[c] # 0
  BY DEF AccessInv, Authorize
<1>2. PICK why : why = Expired(held[c]) \cup NotAUser(held[c])
                       \cup If(Claims(held[c]).account = Missing, "account")
  OBVIOUS
<1>3. /\ IF why = {} THEN link' = [link EXCEPT ![c] = held[c]] /\ UNCHANGED refusals
                     ELSE refusals' = refusals \cup (why \ Explained) /\ UNCHANGED link
      /\ UNCHANGED <<issued, expired, usedTokens, saved, account, held, switched, passed>>
  BY <1>2 DEF Authorize
<1>4. GrantedTo(held[c], c) /\ NotAUser(held[c]) = {} /\ Claims(held[c]).account # Missing
  BY <1>1, HeldIsGranted DEF AccessBounds
<1>5. why \subseteq Explained
  BY <1>2, <1>4 DEF Expired, Explained, If
<1>6. IssuedInv'
  BY <1>1, <1>3, <1>5 DEF IssuedInv
<1>7. TabsInv'
  <2>1. link' \in [TabIds -> Nat]
        /\ \A d \in TabIds : link'[d] = link[d] \/ (d = c /\ link'[d] = held[c])
    BY <1>1, <1>3 DEF TabsInv
  <2>2. \A d \in TabIds : link'[d] # 0 => held[d] # 0 /\ GrantedTo(link'[d], d)
    BY <1>1, <1>4, <2>1 DEF TabsInv, TabInv
  <2> QED BY <1>1, <1>3, <2>1, <2>2 DEF TabsInv, TabInv, GrantedTo
<1>8. IssuedCount'
  BY <1>1, <1>3, CountKeeps DEF IssuedCount
<1> QED BY <1>6, <1>7, <1>8 DEF AccessInv

LEMMA LinkEndStep ==
  ASSUME AccessInv, NEW c \in TabIds, LinkEnds(c)
  PROVE  AccessInv'
<1>1. IssuedInv /\ TabsInv /\ IssuedCount
  BY DEF AccessInv
<1>2. /\ link' = [link EXCEPT ![c] = 0]
      /\ UNCHANGED <<issued, expired, usedTokens, saved, account, held, switched, passed, refusals>>
  BY DEF LinkEnds
<1>3. IssuedInv'
  BY <1>1, <1>2 DEF IssuedInv
<1>4. TabsInv'
  <2>1. link' \in [TabIds -> Nat] /\ \A d \in TabIds : link'[d] = link[d] \/ link'[d] = 0
    BY <1>1, <1>2 DEF TabsInv
  <2> QED BY <1>1, <1>2, <2>1 DEF TabsInv, TabInv, GrantedTo
<1>5. IssuedCount'
  BY <1>1, <1>2, CountKeeps DEF IssuedCount
<1> QED BY <1>3, <1>4, <1>5 DEF AccessInv

LEMMA RestartStep ==
  ASSUME AccessInv, RestartBackend
  PROVE  AccessInv'
<1>1. IssuedInv /\ TabsInv /\ IssuedCount
  BY DEF AccessInv
<1>2. /\ usedTokens' = {} /\ passed' = [n \in DOMAIN passed |-> 0]
      /\ UNCHANGED <<issued, expired, tabVars, refusals>>
  BY DEF RestartBackend
<1>3. IssuedInv'
  BY <1>1, <1>2 DEF IssuedInv
<1>4. TabsInv'
  BY <1>1, <1>2, TabsKeep
<1>5. IssuedCount'
  BY <1>1, <1>2, CountKeeps DEF IssuedCount
<1> QED BY <1>3, <1>4, <1>5 DEF AccessInv

LEMMA AccessKept ==
  ASSUME AccessBounds
  PROVE  AccessInv /\ [AccessNext]_accessVars => AccessInv'
<1> SUFFICES ASSUME AccessInv, [AccessNext]_accessVars PROVE AccessInv'
  OBVIOUS
<1>1. CASE \E address \in Addresses, operation \in Operations : AnonymousToken(address, operation)
  BY <1>1, AskStep
<1>2. CASE \E n \in DOMAIN issued, address \in Addresses : CheckAnonymousAuthorization(n, address)
  BY <1>2, CheckStep
<1>3. CASE \E n \in DOMAIN issued : ExpireToken(n)
  BY <1>3, ExpiryStep
<1>4. CASE \E c \in TabIds : Refresh(c) \/ Authorize(c) \/ LinkEnds(c)
  BY <1>4, RefreshStep, AuthorizeStep, LinkEndStep
<1>5. CASE \E c \in TabIds, a \in AccountIds : Login(c, a)
  BY <1>5, LoginStep
<1>6. CASE \E c \in TabIds : \E path \in {"current", account[c]} : AuthorizationMiddleware(c, path)
  BY <1>6, MiddlewareStep
<1>7. CASE RestartBackend
  BY <1>7, RestartStep
<1>8. CASE UNCHANGED accessVars
  BY <1>8 DEF accessVars, tabVars, AccessInv, IssuedInv, TabsInv, TabInv, IssuedCount, GrantedTo, OfType
<1> QED BY <1>1, <1>2, <1>3, <1>4, <1>5, <1>6, <1>7, <1>8 DEF AccessNext

\* The inductive invariant of tokens, tabs and links.
THEOREM AccessInvariance ==
  ASSUME AccessBounds
  PROVE  AccessSpec => []AccessInv
<1>1. AccessInit => AccessInv
  BY AccessStarts
<1>2. AccessInv /\ [AccessNext]_accessVars => AccessInv'
  BY AccessKept
<1> QED BY <1>1, <1>2, PTL DEF AccessSpec

LEMMA AccessInvTypes ==
  ASSUME AccessBounds
  PROVE  AccessInv => AccessTypeOK
<1> SUFFICES ASSUME AccessInv PROVE AccessTypeOK
  OBVIOUS
<1>1. IssuedInv /\ TabsInv /\ IssuedCount
  BY DEF AccessInv
<1>2. DOMAIN issued = 1..Len(issued)
  BY <1>1, IssuedAre
<1>3. PICK m : m = MaxAsked + MaxGranted
  OBVIOUS
<1>4. PICK l : l = Len(issued)
  OBVIOUS
<1>5. PICK a, u : /\ a = Cardinality(OfType("remote_address"))
                  /\ u = Cardinality(OfType("user"))
  OBVIOUS
<1>6. a \in Nat /\ u \in Nat
  BY <1>1, <1>5, FS_CardinalityType DEF IssuedCount
<1>7. a <= MaxAsked /\ u <= MaxGranted /\ l = a + u
  BY <1>1, <1>4, <1>5 DEF IssuedCount
<1>8. l \in Nat /\ m \in Nat /\ l <= m
  BY <1>3, <1>6, <1>7 DEF AccessBounds
<1>9. 1..l \subseteq 1..m
  BY <1>8
<1>10. 1..Len(issued) \subseteq Tokens
  BY <1>3, <1>4, <1>9 DEF Tokens
<1>11. expired \subseteq DOMAIN issued /\ usedTokens \subseteq DOMAIN issued
  BY <1>1, <1>2 DEF IssuedCount
<1>12. \A c \in TabIds : held[c] \in {0} \cup Tokens /\ link[c] \in {0} \cup Tokens
  BY <1>1, <1>10 DEF TabsInv, TabInv, GrantedTo
<1> QED BY <1>1, <1>11, <1>12 DEF TabsInv, AccessTypeOK

(***************************************************************************)
(* Types: a tab holds and is linked by tokens that were issued, and no     *)
(* more are issued than asked for and granted.                             *)
(***************************************************************************)
THEOREM AccessTypeCorrect ==
  ASSUME AccessBounds
  PROVE  AccessSpec => []AccessTypeOK
BY AccessInvTypes, AccessInvariance, PTL

-----------------------------------------------------------------------------
(* The policy of a tab and the topics of the frontend *)

Names == AccountIds \cup TabIds \cup
         {"accounts", "clients", "status", "webrtc_inbox", "control_inbox",
          "baby_stations", "parent_stations", "*", "+"}
Tails == {Of(d, what) : d \in TabIds \cup {"*", "+"},
                        what \in {"status", "webrtc_inbox", "control_inbox"}}
         \cup Stations \cup {<<"*">>}
Full(a, tail) == <<"accounts", a>> \o tail

LEMMA ClientTail ==
  ASSUME NEW d \in Names, NEW what \in Names
  PROVE  /\ Of(d, what) \in Seq(Names) /\ Len(Of(d, what)) = 3
         /\ Of(d, what)[1] = "clients" /\ Of(d, what)[2] = d /\ Of(d, what)[3] = what
<1>1. "clients" \in Names
  BY DEF Names
<1> QED BY <1>1 DEF Of
LEMMA ShortTail ==
  ASSUME NEW s \in Names
  PROVE  <<s>> \in Seq(Names) /\ Len(<<s>>) = 1 /\ <<s>>[1] = s
OBVIOUS
LEMMA TailsAre ==
  ASSUME NEW tail \in Tails
  PROVE  tail \in Seq(Names) /\ Len(tail) >= 1
<1>1. CASE \E d \in TabIds \cup {"*", "+"}, what \in {"status", "webrtc_inbox", "control_inbox"} :
             tail = Of(d, what)
  <2>1. PICK d \in TabIds \cup {"*", "+"}, what \in {"status", "webrtc_inbox", "control_inbox"} :
          tail = Of(d, what)
    BY <1>1
  <2>2. d \in Names /\ what \in Names
    BY DEF Names
  <2> QED BY <2>1, <2>2, ClientTail
<1>2. CASE tail \in {<<"baby_stations">>, <<"parent_stations">>, <<"*">>}
  <2>1. "baby_stations" \in Names /\ "parent_stations" \in Names /\ "*" \in Names
    BY DEF Names
  <2>2. CASE tail = <<"baby_stations">>
    BY <2>1, <2>2, ShortTail
  <2>3. CASE tail = <<"parent_stations">>
    BY <2>1, <2>3, ShortTail
  <2>4. CASE tail = <<"*">>
    BY <2>1, <2>4, ShortTail
  <2> QED BY <1>2, <2>2, <2>3, <2>4
<1> QED BY <1>1, <1>2 DEF Tails, Stations

LEMMA FullIs ==
  ASSUME NEW a \in AccountIds, NEW tail \in Seq(Names)
  PROVE  /\ Full(a, tail) \in Seq(Names) /\ Len(tail) \in Nat
         /\ Len(Full(a, tail)) = Len(tail) + 2
         /\ Full(a, tail)[1] = "accounts" /\ Full(a, tail)[2] = a
         /\ \A k \in 1..Len(tail) : Full(a, tail)[k + 2] = tail[k]
<1>1. PICK h : h = <<"accounts", a>>
  OBVIOUS
<1>2. h \in Seq(Names) /\ Len(h) = 2 /\ h[1] = "accounts" /\ h[2] = a
  <2>1. "accounts" \in Names /\ a \in Names
    BY DEF Names
  <2> QED BY <1>1, <2>1
<1>3. PICK n \in Nat : n = Len(tail)
  BY LenProperties
<1>4. PICK f : f = h \o tail
  OBVIOUS
<1>5. /\ f \in Seq(Names) /\ Len(f) = Len(h) + Len(tail)
      /\ \A k \in 1..(Len(h) + Len(tail)) :
           f[k] = IF k <= Len(h) THEN h[k] ELSE tail[k - Len(h)]
  BY <1>2, <1>4, ConcatProperties
<1>6. \A k \in 1..(n + 2) : f[k] = IF k <= 2 THEN h[k] ELSE tail[k - 2]
  BY <1>2, <1>3, <1>5
<1>7. f[1] = h[1] /\ f[2] = h[2]
  BY <1>3, <1>6
<1>8. ASSUME NEW k \in 1..n PROVE f[k + 2] = tail[k]
  <2>1. k + 2 \in 1..(n + 2) /\ ~(k + 2 <= 2) /\ (k + 2) - 2 = k
    BY <1>3
  <2> QED BY <1>6, <2>1
<1>9. Len(f) = n + 2
  BY <1>2, <1>3, <1>5
<1> QED BY <1>1, <1>2, <1>3, <1>4, <1>5, <1>7, <1>8, <1>9 DEF Full

\* What it takes to match, segment by segment.
LEMMA PartsOf ==
  ASSUME NEW s \in Seq(Names), NEW m \in Nat, NEW n \in Nat, m >= 1, n <= Len(s)
  PROVE  /\ SubSeq(s, m, n) \in Seq(Names)
         /\ Len(SubSeq(s, m, n)) = IF m <= n THEN n - m + 1 ELSE 0
         /\ \A i \in 1..(n - m + 1) : SubSeq(s, m, n)[i] = s[m + i - 1]
<1>1. Len(s) \in Nat /\ \A i \in 1..Len(s) : s[i] \in Names
  BY LenProperties, ElementOfSeq
<1>2. \A i \in m..n : s[i] \in Names
  <2>1. \A i \in m..n : i \in 1..Len(s)
    BY <1>1
  <2> QED BY <1>1, <2>1
<1>3. m \in Int /\ n \in Int
  OBVIOUS
<1> QED BY <1>2, <1>3, SubSeqProperties

Agree(s, m, t, x, len) == \A i \in 1..len : s[m + i - 1] = t[x + i - 1]

LEMMA SamePart ==
  ASSUME NEW s \in Seq(Names), NEW t \in Seq(Names),
         NEW m \in Nat, NEW n \in Nat, m >= 1, n <= Len(s),
         NEW x \in Nat, NEW y \in Nat, x >= 1, y <= Len(t), n - m = y - x
  PROVE  SubSeq(s, m, n) = SubSeq(t, x, y) <=> Agree(s, m, t, x, n - m + 1)
<1>1. PICK a, b : a = SubSeq(s, m, n) /\ b = SubSeq(t, x, y)
  OBVIOUS
<1>2. PICK k \in Nat : k = IF m <= n THEN n - m + 1 ELSE 0
  <2>1. CASE m <= n
    <3>1. n - m + 1 \in Nat
      BY <2>1
    <3> QED BY <2>1, <3>1
  <2>2. CASE ~(m <= n)
    BY <2>2
  <2> QED BY <2>1, <2>2
<1>3. /\ a \in Seq(Names) /\ Len(a) = k /\ \A i \in 1..k : a[i] = s[m + i - 1]
  <2>1. 1..k \subseteq 1..(n - m + 1)
    BY <1>2
  <2> QED BY <1>1, <1>2, <2>1, PartsOf
<1>4. /\ b \in Seq(Names) /\ Len(b) = k /\ \A i \in 1..k : b[i] = t[x + i - 1]
  <2>1. 1..k \subseteq 1..(y - x + 1) /\ k = IF x <= y THEN y - x + 1 ELSE 0
    BY <1>2
  <2> QED BY <1>1, <2>1, PartsOf
<1>5. a = b <=> \A i \in 1..k : a[i] = b[i]
  <2>1. (\A i \in 1..k : a[i] = b[i]) => a = b
    BY <1>3, <1>4, SeqEqual
  <2> QED BY <2>1
<1>6. 1..k = 1..(n - m + 1)
  BY <1>2
<1> QED BY <1>1, <1>3, <1>4, <1>5, <1>6 DEF Agree

LEMMA MatchIs ==
  ASSUME NEW p \in Seq(Names), NEW t \in Seq(Names)
  PROVE  Matches(p, t) <=>
           \/ p = t
           \/ \E k \in 1..Len(p) :
                /\ p[k] = "*" /\ Len(t) >= Len(p)
                /\ \A j \in 1..(k - 1) : t[j] = p[j]
                /\ \A j \in 1..(Len(p) - k) : t[Len(t) - (Len(p) - k) + j] = p[k + j]
<1>1. PICK m \in Nat, n \in Nat : m = Len(p) /\ n = Len(t)
  BY LenProperties
<1>2. DOMAIN p = 1..m
  BY <1>1, LenProperties
<1>3. Matches(p, t) <=>
        \/ p = t
        \/ \E k \in 1..m : /\ p[k] = "*" /\ n >= m
                           /\ SubSeq(t, 1, k - 1) = SubSeq(p, 1, k - 1)
                           /\ SubSeq(t, n - (m - k) + 1, n) = SubSeq(p, k + 1, m)
  BY <1>1, <1>2 DEF Matches
<1>4. ASSUME NEW k \in 1..m, n >= m
      PROVE  /\ SubSeq(t, 1, k - 1) = SubSeq(p, 1, k - 1) <=> \A j \in 1..(k - 1) : t[j] = p[j]
             /\ SubSeq(t, n - (m - k) + 1, n) = SubSeq(p, k + 1, m) <=>
                  \A j \in 1..(m - k) : t[n - (m - k) + j] = p[k + j]
  <2>1. /\ 1 \in Nat /\ k - 1 \in Nat /\ k - 1 <= Len(t) /\ k - 1 <= Len(p)
        /\ (k - 1) - 1 + 1 = k - 1 /\ \A j \in 1..(k - 1) : 1 + j - 1 = j
    BY <1>1, <1>4
  <2>2. SubSeq(t, 1, k - 1) = SubSeq(p, 1, k - 1) <=> \A j \in 1..(k - 1) : t[j] = p[j]
    <3>1. PICK a \in Nat : a = k - 1
      BY <2>1
    <3>2. PICK b \in Nat : b = 1 /\ b >= 1 /\ a - b = a - b
      OBVIOUS
    <3>3. SubSeq(t, b, a) = SubSeq(p, b, a) <=> Agree(t, b, p, b, a - b + 1)
      <4>1. a <= Len(t) /\ a <= Len(p)
        BY <2>1, <3>1
      <4> QED BY <3>2, <4>1, SamePart
    <3> QED BY <2>1, <3>1, <3>2, <3>3 DEF Agree
  <2>3. PICK a \in Nat : a = n - (m - k) + 1 /\ a >= 1 /\ n - a + 1 = m - k /\ n - a = m - (k + 1)
    BY <1>4
  <2>4. SubSeq(t, a, n) = SubSeq(p, k + 1, m) <=>
          \A j \in 1..(n - a + 1) : t[a + j - 1] = p[(k + 1) + j - 1]
    <3>1. PICK b \in Nat : b = k + 1 /\ b >= 1 /\ n - a = m - b
      BY <2>3
    <3>2. n <= Len(t) /\ m <= Len(p)
      BY <1>1
    <3>3. SubSeq(t, a, n) = SubSeq(p, b, m) <=> Agree(t, a, p, b, n - a + 1)
      <4>1. a >= 1 /\ b >= 1 /\ n - a = m - b
        BY <2>3, <3>1
      <4> QED BY <3>2, <4>1, SamePart
    <3> QED BY <3>1, <3>3 DEF Agree
  <2>5. \A j \in 1..(m - k) : a + j - 1 = n - (m - k) + j /\ (k + 1) + j - 1 = k + j
    BY <2>3
  <2> QED BY <2>1, <2>2, <2>3, <2>4, <2>5
<1> QED BY <1>1, <1>3, <1>4

LEMMA NamesOf ==
  /\ \A d \in TabIds : d \in Names
  /\ \A a \in AccountIds : a \in Names
  /\ {"accounts", "clients", "status", "webrtc_inbox", "control_inbox",
      "baby_stations", "parent_stations", "*", "+"} \subseteq Names
BY DEF Names

\* A pattern without a wildcard matches itself alone.
LEMMA PlainMatch ==
  ASSUME NEW p \in Seq(Names), NEW t \in Seq(Names), \A k \in 1..Len(p) : p[k] # "*"
  PROVE  Matches(p, t) <=> p = t
BY MatchIs

LEMMA FullOf ==
  ASSUME NEW a \in AccountIds, NEW d \in Names, NEW what \in Names
  PROVE  /\ Full(a, Of(d, what)) \in Seq(Names)
         /\ Len(Full(a, Of(d, what))) = 5
         /\ Full(a, Of(d, what))[1] = "accounts" /\ Full(a, Of(d, what))[2] = a
         /\ Full(a, Of(d, what))[3] = "clients" /\ Full(a, Of(d, what))[4] = d
         /\ Full(a, Of(d, what))[5] = what
<1>1. PICK tail : tail = Of(d, what)
  OBVIOUS
<1>2. tail \in Seq(Names) /\ Len(tail) = 3 /\ tail[1] = "clients" /\ tail[2] = d /\ tail[3] = what
  BY <1>1, ClientTail
<1>3. PICK f : f = Full(a, tail)
  OBVIOUS
<1>4. f \in Seq(Names) /\ Len(f) = 3 + 2 /\ f[1] = "accounts" /\ f[2] = a
      /\ \A k \in 1..3 : f[k + 2] = tail[k]
  <2>1. /\ f \in Seq(Names) /\ Len(f) = Len(tail) + 2 /\ f[1] = "accounts" /\ f[2] = a
        /\ \A k \in 1..Len(tail) : f[k + 2] = tail[k]
    <3>1. tail \in Seq(Names)
      BY <1>2
    <3> QED BY Zenon, <1>3, <3>1, FullIs
  <2> QED BY <1>2, <2>1
<1>5. f[3] = tail[1] /\ f[4] = tail[2] /\ f[5] = tail[3]
  <2>1. f[1 + 2] = tail[1] /\ f[2 + 2] = tail[2] /\ f[3 + 2] = tail[3]
    BY <1>4
  <2> QED BY <2>1
<1> QED BY <1>1, <1>2, <1>3, <1>4, <1>5

LEMMA FullShort ==
  ASSUME NEW a \in AccountIds, NEW s \in Names
  PROVE  /\ Full(a, <<s>>) \in Seq(Names) /\ Len(Full(a, <<s>>)) = 3
         /\ Full(a, <<s>>)[1] = "accounts" /\ Full(a, <<s>>)[2] = a /\ Full(a, <<s>>)[3] = s
<1>1. PICK tail : tail = <<s>>
  OBVIOUS
<1>2. tail \in Seq(Names) /\ Len(tail) = 1 /\ tail[1] = s
  BY <1>1, ShortTail
<1>3. PICK f : f = Full(a, tail)
  OBVIOUS
<1>4. f \in Seq(Names) /\ Len(f) = 1 + 2 /\ f[1] = "accounts" /\ f[2] = a
      /\ \A k \in 1..1 : f[k + 2] = tail[k]
  <2>1. /\ f \in Seq(Names) /\ Len(f) = Len(tail) + 2 /\ f[1] = "accounts" /\ f[2] = a
        /\ \A k \in 1..Len(tail) : f[k + 2] = tail[k]
    <3>1. tail \in Seq(Names)
      BY <1>2
    <3> QED BY Zenon, <1>3, <3>1, FullIs
  <2> QED BY <1>2, <2>1
<1>5. f[3] = tail[1]
  <2>1. f[1 + 2] = tail[1]
    BY <1>4
  <2> QED BY <2>1
<1> QED BY <1>1, <1>2, <1>3, <1>4, <1>5

\* What the patterns of a policy let through.
LEMMA AnythingOfAccount ==
  ASSUME NEW a \in AccountIds, NEW tail \in Tails
  PROVE  Matches(Full(a, <<"*">>), Full(a, tail))
<1>1. PICK p : p = Full(a, <<"*">>)
  OBVIOUS
<1>2. PICK t : t = Full(a, tail)
  OBVIOUS
<1>3. p \in Seq(Names) /\ Len(p) = 3 /\ p[1] = "accounts" /\ p[2] = a /\ p[3] = "*"
  <2>1. PICK any : any \in Names /\ any = "*"
    BY NamesOf
  <2>2. p = Full(a, <<any>>)
    BY Zenon, <1>1, <2>1
  <2>3. any \in Names
    BY <2>1
  <2>4. p \in Seq(Names) /\ Len(p) = 3 /\ p[1] = "accounts" /\ p[2] = a /\ p[3] = any
    BY <2>2, <2>3, FullShort
  <2> QED BY Zenon, <2>1, <2>4
<1>4. t \in Seq(Names) /\ t[1] = "accounts" /\ t[2] = a
      /\ Len(tail) \in Nat /\ Len(tail) >= 1 /\ Len(t) = Len(tail) + 2
  BY <1>2, TailsAre, FullIs
<1>5. PICK n \in Nat : n = Len(t) /\ n >= 3
  BY <1>4
<1>6. 3 \in 1..Len(p) /\ Len(t) >= Len(p)
  BY <1>3, <1>5
<1>7. \A j \in 1..(3 - 1) : t[j] = p[j]
  BY <1>3, <1>4
<1>8. \A j \in 1..(Len(p) - 3) : t[Len(t) - (Len(p) - 3) + j] = p[3 + j]
  BY <1>3
<1>9. Matches(p, t)
  BY <1>3, <1>4, <1>6, <1>7, <1>8, MatchIs
<1> QED BY <1>1, <1>2, <1>9

LEMMA AnyClient ==
  ASSUME NEW a \in AccountIds, NEW d \in Names, NEW what \in Names
  PROVE  Matches(Full(a, Of("*", what)), Full(a, Of(d, what)))
<1>1. PICK p : p = Full(a, Of("*", what))
  OBVIOUS
<1>2. PICK t : t = Full(a, Of(d, what))
  OBVIOUS
<1>3. p \in Seq(Names) /\ Len(p) = 5 /\ p[1] = "accounts" /\ p[2] = a
      /\ p[3] = "clients" /\ p[4] = "*" /\ p[5] = what
  <2>1. PICK any : any \in Names /\ any = "*"
    BY NamesOf
  <2>2. p = Full(a, Of(any, what))
    BY Zenon, <1>1, <2>1
  <2>3. any \in Names
    BY <2>1
  <2>4. /\ p \in Seq(Names) /\ Len(p) = 5 /\ p[1] = "accounts" /\ p[2] = a
        /\ p[3] = "clients" /\ p[4] = any /\ p[5] = what
    BY <2>2, <2>3, FullOf
  <2> QED BY Zenon, <2>1, <2>4
<1>4. t \in Seq(Names) /\ Len(t) = 5 /\ t[1] = "accounts" /\ t[2] = a
      /\ t[3] = "clients" /\ t[5] = what
  BY <1>2, FullOf
<1>5. 4 \in 1..Len(p) /\ Len(t) >= Len(p)
  BY <1>3, <1>4
<1>6. \A j \in 1..(4 - 1) : t[j] = p[j]
  BY <1>3, <1>4
<1>7. \A j \in 1..(Len(p) - 4) : t[Len(t) - (Len(p) - 4) + j] = p[4 + j]
  <2>1. ASSUME NEW j \in 1..(Len(p) - 4) PROVE t[Len(t) - (Len(p) - 4) + j] = p[4 + j]
    <3>1. j = 1 /\ Len(t) - (Len(p) - 4) + j = 5 /\ 4 + j = 5
      BY <1>3, <1>4
    <3> QED BY <1>3, <1>4, <3>1
  <2> QED BY <2>1
<1>8. Matches(p, t)
  BY <1>3, <1>4, <1>5, <1>6, <1>7, MatchIs
<1> QED BY <1>1, <1>2, <1>8

\* What they do not let through: what is of another account ...
LEMMA OtherAccount ==
  ASSUME AccessBounds, NEW a \in AccountIds, NEW b \in AccountIds, a # b,
         NEW tail \in Tails, NEW topic \in Tails
  PROVE  ~Matches(Full(a, tail), Full(b, topic))
<1>1. PICK p : p = Full(a, tail)
  OBVIOUS
<1>2. PICK t : t = Full(b, topic)
  OBVIOUS
<1>3. p \in Seq(Names) /\ p[1] = "accounts" /\ p[2] = a
  BY <1>1, TailsAre, FullIs
<1>4. t \in Seq(Names) /\ t[2] = b
  BY <1>2, TailsAre, FullIs
<1>5. p # t
  BY <1>3, <1>4
<1>6. a # "*" /\ "accounts" # "*"
  BY DEF AccessBounds
<1>7. ASSUME NEW k \in 1..Len(p), p[k] = "*", \A j \in 1..(k - 1) : t[j] = p[j]
      PROVE  FALSE
  <2>1. k \in Nat
    BY LenProperties, <1>3
  <2>2. k >= 1 /\ k # 1 /\ k # 2
    BY <1>3, <1>6, <1>7
  <2>3. 2 \in 1..(k - 1)
    BY <2>1, <2>2
  <2> QED BY <1>3, <1>4, <1>7, <2>3
<1> QED BY <1>1, <1>2, <1>3, <1>4, <1>5, <1>7, MatchIs

\* ... or is another thing of a client ...
LEMMA OtherThing ==
  ASSUME NEW a \in AccountIds, NEW c \in Names, NEW d \in Names,
         NEW what \in Names, NEW other \in Names, what # other, what # "*"
  PROVE  ~Matches(Full(a, Of(c, what)), Full(a, Of(d, other)))
<1>1. PICK p : p = Full(a, Of(c, what))
  OBVIOUS
<1>2. PICK t : t = Full(a, Of(d, other))
  OBVIOUS
<1>3. p \in Seq(Names) /\ Len(p) = 5 /\ p[5] = what
  BY <1>1, FullOf
<1>4. t \in Seq(Names) /\ Len(t) = 5 /\ t[5] = other
  BY <1>2, FullOf
<1>5. ASSUME NEW k \in 1..Len(p), p[k] = "*",
             \A j \in 1..(Len(p) - k) : t[Len(t) - (Len(p) - k) + j] = p[k + j]
      PROVE  FALSE
  <2>1. k \in 1..5 /\ k # 5
    BY <1>3, <1>5
  <2>2. PICK j \in 1..(5 - k) : j = 5 - k
    BY <2>1
  <2>3. 5 - (5 - k) + j = 5 /\ k + j = 5
    BY <2>1, <2>2
  <2>4. t[5 - (5 - k) + j] = p[k + j]
    BY <1>3, <1>4, <1>5, <2>2
  <2> QED BY <1>3, <1>4, <2>3, <2>4
<1> QED BY <1>1, <1>2, <1>3, <1>4, <1>5, MatchIs

\* ... or of another client, or longer.
LEMMA OtherClient ==
  ASSUME NEW a \in AccountIds, NEW c \in Names, NEW d \in Names, c # d, c # "*",
         a # "*", NEW what \in Names, NEW other \in Names, what # "*"
  PROVE  ~Matches(Full(a, Of(c, what)), Full(a, Of(d, other)))
<1>1. PICK p : p = Full(a, Of(c, what))
  OBVIOUS
<1>2. PICK t : t = Full(a, Of(d, other))
  OBVIOUS
<1>3. p \in Seq(Names) /\ Len(p) = 5 /\ p[1] = "accounts" /\ p[2] = a
      /\ p[3] = "clients" /\ p[4] = c /\ p[5] = what
  BY <1>1, FullOf
<1>4. t \in Seq(Names) /\ t[4] = d
  BY <1>2, FullOf
<1>5. \A k \in 1..Len(p) : p[k] # "*"
  <2>1. "accounts" # "*" /\ "clients" # "*"
    OBVIOUS
  <2> QED BY <1>3, <2>1
<1>6. p # t
  BY <1>3, <1>4
<1>7. p \in Seq(Names) /\ t \in Seq(Names)
  BY <1>3, <1>4
<1>8. Matches(p, t) <=> p = t
  BY Zenon, <1>5, <1>7, PlainMatch
<1> QED BY <1>1, <1>2, <1>6, <1>8

LEMMA StationsTopic ==
  ASSUME NEW a \in AccountIds, NEW s \in Names, s # "*", a # "*",
         NEW d \in Names, NEW other \in Names
  PROVE  ~Matches(Full(a, <<s>>), Full(a, Of(d, other)))
<1>1. PICK p : p = Full(a, <<s>>)
  OBVIOUS
<1>2. PICK t : t = Full(a, Of(d, other))
  OBVIOUS
<1>3. p \in Seq(Names) /\ Len(p) = 3 /\ p[1] = "accounts" /\ p[2] = a /\ p[3] = s
  BY <1>1, FullShort
<1>4. t \in Seq(Names) /\ Len(t) = 5
  BY <1>2, FullOf
<1>5. \A k \in 1..Len(p) : p[k] # "*"
  <2>1. "accounts" # "*"
    OBVIOUS
  <2> QED BY <1>3, <2>1
<1>6. p # t
  <2>1. Len(p) = 3 /\ Len(t) = 5
    BY <1>3, <1>4
  <2> QED BY <2>1
<1>7. p \in Seq(Names) /\ t \in Seq(Names)
  BY <1>3, <1>4
<1>8. Matches(p, t) <=> p = t
  BY Zenon, <1>5, <1>7, PlainMatch
<1> QED BY <1>1, <1>2, <1>6, <1>8

LEMMA FullIn ==
  ASSUME NEW a, NEW topics
  PROVE  /\ \A tail \in topics : Full(a, tail) \in In(a, topics)
         /\ \A topic \in In(a, topics) : \E tail \in topics : topic = Full(a, tail)
BY DEF In, Full

LEMMA TopicTails ==
  ASSUME NEW c \in TabIds
  PROVE  Subscribed(c) \subseteq Tails /\ Published(c) \subseteq Tails
<1>1. \A d \in TabIds \cup {"*", "+"}, what \in {"status", "webrtc_inbox", "control_inbox"} :
        Of(d, what) \in Tails
  BY DEF Tails
<1>2. Stations \subseteq Tails
  BY DEF Tails
<1>3. ASSUME NEW t \in Subscribed(c) PROVE t \in Tails
  <2>1. \/ t = Of(c, "webrtc_inbox") \/ t = Of(c, "control_inbox") \/ t = Of("+", "status")
        \/ (\E d \in TabIds : t = Of(d, "status")) \/ t \in Stations
    BY Zenon DEF Subscribed
  <2> QED BY <1>1, <1>2, <2>1
<1>4. ASSUME NEW t \in Published(c) PROVE t \in Tails
  <2>1. \/ t = Of(c, "status") \/ (\E d \in TabIds : t = Of(d, "webrtc_inbox"))
        \/ (\E d \in TabIds : t = Of(d, "control_inbox")) \/ t \in Stations
    BY Zenon DEF Published
  <2> QED BY <1>1, <1>2, <2>1
<1> QED BY <1>3, <1>4

LEMMA PolicyTails ==
  ASSUME NEW a, NEW c \in TabIds
  PROVE  /\ \A p \in Policy(a, c)["subscribe"] : \E tail \in Tails : p = Full(a, tail)
         /\ \A p \in Policy(a, c)["publish"] : \E tail \in Tails : p = Full(a, tail)
         /\ \A p \in Policy(a, c)["receive"] : p = Full(a, <<"*">>)
         /\ <<"*">> \in Tails
<1>1. \A d \in TabIds \cup {"*", "+"}, what \in {"status", "webrtc_inbox", "control_inbox"} :
        Of(d, what) \in Tails
  BY DEF Tails
<1>2. Stations \subseteq Tails /\ <<"*">> \in Tails
  BY DEF Tails
<1>3. PICK mine : mine = {Of(c, "webrtc_inbox"), Of(c, "control_inbox"),
                          Of("*", "status"), Of("+", "status")} \cup Stations
  OBVIOUS
<1>4. PICK yours : yours = {Of(c, "status"), Of("*", "webrtc_inbox"), Of("*", "control_inbox")}
                           \cup Stations
  OBVIOUS
<1>5. PICK all : all = {<<"*">>}
  OBVIOUS
<1>6. mine \subseteq Tails /\ yours \subseteq Tails
  BY <1>1, <1>2, <1>3, <1>4
<1>7. /\ Policy(a, c)["subscribe"] = In(a, mine) /\ Policy(a, c)["publish"] = In(a, yours)
      /\ Policy(a, c)["receive"] = In(a, all)
  BY <1>3, <1>4, <1>5 DEF Policy
<1>8. /\ \A p \in In(a, mine) : \E tail \in mine : p = Full(a, tail)
      /\ \A p \in In(a, yours) : \E tail \in yours : p = Full(a, tail)
      /\ \A p \in In(a, all) : \E tail \in all : p = Full(a, tail)
  BY FullIn
<1>9. \A p \in In(a, all) : p = Full(a, <<"*">>)
  BY <1>5, <1>8
<1> QED BY <1>2, <1>6, <1>7, <1>8, <1>9

\* A tab may do all that its services do.
LEMMA OwnAllowed ==
  ASSUME NEW a \in AccountIds, NEW c \in TabIds
  PROVE  /\ \A topic \in In(a, Subscribed(c)) :
              \E p \in Policy(a, c)["subscribe"] : Matches(p, topic)
         /\ \A topic \in In(a, Published(c)) :
              \E p \in Policy(a, c)["publish"] : Matches(p, topic)
         /\ \A d \in TabIds : \A topic \in In(a, Published(d)) :
              \E p \in Policy(a, c)["receive"] : Matches(p, topic)
<1>1. \A p : Matches(p, p)
  BY DEF Matches
<1>2. ASSUME NEW topic \in In(a, Subscribed(c))
      PROVE  \E p \in Policy(a, c)["subscribe"] : Matches(p, topic)
  <2>1. PICK tail \in Subscribed(c) : topic = Full(a, tail)
    BY Zenon, <1>2, FullIn
  <2>0. PICK mine : mine = {Of(c, "webrtc_inbox"), Of(c, "control_inbox"), Of("*", "status"), Of("+", "status")}
                         \cup Stations
    OBVIOUS
  <2>2. \A t \in mine : Full(a, t) \in Policy(a, c)["subscribe"]
    <3>1. Policy(a, c)["subscribe"] = In(a, mine)
      BY <2>0 DEF Policy
    <3>2. \A t \in mine : Full(a, t) \in In(a, mine)
      BY FullIn
    <3> QED BY <3>1, <3>2
  <2>3. tail \in mine \/ \E d \in TabIds : tail = Of(d, "status")
    BY Zenon, <2>0 DEF Subscribed
  <2>4. CASE tail \in mine
    BY Zenon, <1>1, <2>1, <2>2, <2>4
  <2>5. ASSUME NEW d \in TabIds, tail = Of(d, "status")
        PROVE  \E p \in Policy(a, c)["subscribe"] : Matches(p, topic)
    <3>1. Of("*", "status") \in mine
      BY Zenon, <2>0
    <3>2. Matches(Full(a, Of("*", "status")), Full(a, Of(d, "status")))
      BY NamesOf, AnyClient
    <3> QED BY Zenon, <2>1, <2>2, <2>5, <3>1, <3>2
  <2> QED BY Zenon, <2>3, <2>4, <2>5
<1>3. ASSUME NEW topic \in In(a, Published(c))
      PROVE  \E p \in Policy(a, c)["publish"] : Matches(p, topic)
  <2>1. PICK tail \in Published(c) : topic = Full(a, tail)
    BY Zenon, <1>3, FullIn
  <2>0. PICK mine : mine = {Of(c, "status"), Of("*", "webrtc_inbox"), Of("*", "control_inbox")}
                         \cup Stations
    OBVIOUS
  <2>2. \A t \in mine : Full(a, t) \in Policy(a, c)["publish"]
    <3>1. Policy(a, c)["publish"] = In(a, mine)
      BY <2>0 DEF Policy
    <3>2. \A t \in mine : Full(a, t) \in In(a, mine)
      BY FullIn
    <3> QED BY <3>1, <3>2
  <2>3. tail \in mine
        \/ \E d \in TabIds : tail = Of(d, "webrtc_inbox") \/ tail = Of(d, "control_inbox")
    BY Zenon, <2>0 DEF Published
  <2>4. CASE tail \in mine
    BY Zenon, <1>1, <2>1, <2>2, <2>4
  <2>5. ASSUME NEW d \in TabIds, NEW what \in {"webrtc_inbox", "control_inbox"},
               tail = Of(d, what)
        PROVE  \E p \in Policy(a, c)["publish"] : Matches(p, topic)
    <3>1. Of("*", what) \in mine
      BY Zenon, <2>0
    <3>2. what \in Names /\ d \in Names
      BY NamesOf
    <3>3. Matches(Full(a, Of("*", what)), Full(a, Of(d, what)))
      BY Zenon, <3>2, AnyClient
    <3> QED BY Zenon, <2>1, <2>2, <2>5, <3>1, <3>3
  <2> QED BY Zenon, <2>3, <2>4, <2>5
<1>4. ASSUME NEW d \in TabIds, NEW topic \in In(a, Published(d))
      PROVE  \E p \in Policy(a, c)["receive"] : Matches(p, topic)
  <2>1. PICK tail \in Published(d) : topic = Full(a, tail)
    BY Zenon, <1>4, FullIn
  <2>2. tail \in Tails
    BY Zenon, TopicTails
  <2>3. Matches(Full(a, <<"*">>), Full(a, tail))
    BY Zenon, <2>2, AnythingOfAccount
  <2>4. Full(a, <<"*">>) \in Policy(a, c)["receive"]
    <3>1. Policy(a, c)["receive"] = In(a, {<<"*">>})
      BY DEF Policy
    <3> QED BY Zenon, <3>1, FullIn
  <2> QED BY Zenon, <2>1, <2>3, <2>4
<1> QED BY Zenon, <1>2, <1>3, <1>4

\* Nothing of another account.
LEMMA OthersRefused ==
  ASSUME AccessBounds, NEW a \in AccountIds, NEW c \in TabIds,
         NEW b \in AccountIds \ {a}, NEW topic \in In(b, Subscribed(c) \cup Published(c)),
         NEW action \in {"subscribe", "publish", "receive"}
  PROVE  \A p \in Policy(a, c)[action] : ~Matches(p, topic)
<1>1. PICK t \in Subscribed(c) \cup Published(c) : topic = Full(b, t)
  BY Zenon, FullIn
<1>2. t \in Tails
  BY TopicTails
<1>3. \A p \in Policy(a, c)[action] : \E tail \in Tails : p = Full(a, tail)
  <2>1. CASE action = "subscribe"
    BY Zenon, <2>1, PolicyTails
  <2>2. CASE action = "publish"
    BY Zenon, <2>2, PolicyTails
  <2>3. CASE action = "receive"
    BY Zenon, <2>3, PolicyTails
  <2> QED BY <2>1, <2>2, <2>3
<1>4. \A tail \in Tails : ~Matches(Full(a, tail), Full(b, t))
  <2>1. a # b
    OBVIOUS
  <2> QED BY Zenon, <1>2, <2>1, OtherAccount
<1> QED BY Zenon, <1>1, <1>3, <1>4

\* Nor the status or the inbox of another tab.
LEMMA OwnOnly ==
  ASSUME AccessBounds, NEW a \in AccountIds, NEW c \in TabIds, NEW d \in TabIds, d # c
  PROVE  /\ \A p \in Policy(a, c)["publish"] :
              ~Matches(p, <<"accounts", a>> \o Of(d, "status"))
         /\ \A p \in Policy(a, c)["subscribe"] :
              ~Matches(p, <<"accounts", a>> \o Of(d, "webrtc_inbox"))
<1>1. a # "*" /\ c # "*" /\ c \in Names /\ d \in Names
  BY NamesOf DEF AccessBounds
<1>2. /\ "status" \in Names /\ "webrtc_inbox" \in Names /\ "control_inbox" \in Names
      /\ "*" \in Names /\ "+" \in Names
      /\ "baby_stations" \in Names /\ "parent_stations" \in Names
      /\ "status" # "webrtc_inbox" /\ "status" # "control_inbox"
      /\ "status" # "*" /\ "webrtc_inbox" # "*" /\ "control_inbox" # "*"
      /\ "baby_stations" # "*" /\ "parent_stations" # "*"
  BY NamesOf
<1>3. \A s \in Stations, what \in Names : ~Matches(Full(a, s), Full(a, Of(d, what)))
  <2>1. \A s \in Stations : s = <<"baby_stations">> \/ s = <<"parent_stations">>
    BY Zenon DEF Stations
  <2> QED BY Zenon, <1>1, <1>2, <2>1, StationsTopic
<1>4. ASSUME NEW p \in Policy(a, c)["publish"] PROVE ~Matches(p, Full(a, Of(d, "status")))
  <2>0. PICK mine : mine = {Of(c, "status"), Of("*", "webrtc_inbox"), Of("*", "control_inbox")}
                         \cup Stations
    OBVIOUS
  <2>1. Policy(a, c)["publish"] = In(a, mine)
    BY <2>0 DEF Policy
  <2>2. PICK tail \in mine : p = Full(a, tail)
    <3>1. \A q \in In(a, mine) : \E t \in mine : q = Full(a, t)
      BY FullIn
    <3> QED BY <1>4, <2>1, <3>1
  <2>3. \/ tail = Of(c, "status") \/ tail \in Stations
        \/ tail = Of("*", "webrtc_inbox") \/ tail = Of("*", "control_inbox")
    BY Zenon, <2>0
  <2>4. CASE tail = Of(c, "status")
    BY Zenon, <1>1, <1>2, <2>2, <2>4, OtherClient
  <2>5. CASE tail \in Stations
    BY Zenon, <1>2, <1>3, <2>2, <2>5
  <2>6. CASE tail = Of("*", "webrtc_inbox")
    BY Zenon, <1>1, <1>2, <2>2, <2>6, OtherThing
  <2>7. CASE tail = Of("*", "control_inbox")
    BY Zenon, <1>1, <1>2, <2>2, <2>7, OtherThing
  <2> QED BY Zenon, <2>3, <2>4, <2>5, <2>6, <2>7
<1>5. ASSUME NEW p \in Policy(a, c)["subscribe"]
      PROVE  ~Matches(p, Full(a, Of(d, "webrtc_inbox")))
  <2>0. PICK mine : mine = {Of(c, "webrtc_inbox"), Of(c, "control_inbox"), Of("*", "status"), Of("+", "status")}
                         \cup Stations
    OBVIOUS
  <2>1. Policy(a, c)["subscribe"] = In(a, mine)
    BY <2>0 DEF Policy
  <2>2. PICK tail \in mine : p = Full(a, tail)
    <3>1. \A q \in In(a, mine) : \E t \in mine : q = Full(a, t)
      BY FullIn
    <3> QED BY <1>5, <2>1, <3>1
  <2>3. \/ tail = Of(c, "webrtc_inbox") \/ tail = Of(c, "control_inbox")
        \/ tail \in Stations \/ tail = Of("*", "status") \/ tail = Of("+", "status")
    BY Zenon, <2>0
  <2>4. CASE tail = Of(c, "webrtc_inbox") \/ tail = Of(c, "control_inbox")
    BY Zenon, <1>1, <1>2, <2>2, <2>4, OtherClient
  <2>5. CASE tail \in Stations
    BY Zenon, <1>2, <1>3, <2>2, <2>5
  <2>6. CASE tail = Of("*", "status") \/ tail = Of("+", "status")
    BY Zenon, <1>1, <1>2, <2>2, <2>6, OtherThing
  <2> QED BY Zenon, <2>3, <2>4, <2>5, <2>6
<1> QED BY Zenon, <1>4, <1>5 DEF Full

LEMMA AccessInvTrue ==
  ASSUME AccessBounds
  PROVE  AccessInv => AccessIsTrue
<1>1. ASSUME AccessInv PROVE TokensAreTrue
  BY <1>1 DEF AccessInv, IssuedInv, TokensAreTrue
<1>2. ASSUME AccessInv PROVE PolicyFits
  <2>1. ASSUME NEW c \in TabIds, link[c] # 0, NEW own, own = Claims(link[c]).account
        PROVE  /\ c \in switched \/ own = account[c]
               /\ \A topic \in In(own, Subscribed(c)) : May(c, "subscribe", topic)
               /\ \A topic \in In(own, Published(c)) : May(c, "publish", topic)
               /\ \A d \in TabIds :
                    /\ \A topic \in In(own, Published(d)) : May(c, "receive", topic)
                    /\ d # c => /\ ~May(c, "publish", <<"accounts", own>> \o Of(d, "status"))
                                /\ ~May(c, "subscribe", <<"accounts", own>> \o Of(d, "webrtc_inbox"))
               /\ \A a \in AccountIds \ {own} :
                    \A topic \in In(a, Subscribed(c) \cup Published(c)) :
                      ~May(c, "subscribe", topic) /\ ~May(c, "publish", topic) /\ ~May(c, "receive", topic)
    <3>1. GrantedTo(link[c], c)
      BY <1>2, <2>1 DEF AccessInv, TabsInv, TabInv
    <3>2. own \in AccountIds /\ (c \in switched \/ own = account[c])
      BY <2>1, <3>1, AccessTokenSays DEF GrantedTo, Claims
    <3>3. \A action, topic : May(c, action, topic) <=> \E p \in Policy(own, c)[action] : Matches(p, topic)
      BY Zenon, <2>1 DEF May, Granted
    <3>4. /\ \A topic \in In(own, Subscribed(c)) : May(c, "subscribe", topic)
          /\ \A topic \in In(own, Published(c)) : May(c, "publish", topic)
          /\ \A d \in TabIds : \A topic \in In(own, Published(d)) : May(c, "receive", topic)
      BY Zenon, <3>2, <3>3, OwnAllowed
    <3>5. ASSUME NEW d \in TabIds, d # c
          PROVE  /\ ~May(c, "publish", <<"accounts", own>> \o Of(d, "status"))
                 /\ ~May(c, "subscribe", <<"accounts", own>> \o Of(d, "webrtc_inbox"))
      BY Zenon, <3>2, <3>3, <3>5, OwnOnly
    <3>6. ASSUME NEW a \in AccountIds \ {own}, NEW topic \in In(a, Subscribed(c) \cup Published(c))
          PROVE  ~May(c, "subscribe", topic) /\ ~May(c, "publish", topic) /\ ~May(c, "receive", topic)
      BY Zenon, <3>2, <3>3, OthersRefused
    <3> QED BY Zenon, <3>2, <3>4, <3>5, <3>6
  <2> QED BY Zenon, <2>1 DEF PolicyFits
<1> QED BY <1>1, <1>2 DEF AccessIsTrue

(***************************************************************************)
(* Tokens let one request through, none the frontend uses well is refused, *)
(* and a linked tab may do what its services do and not what is another's. *)
(***************************************************************************)
THEOREM AccessTrue ==
  ASSUME AccessBounds
  PROVE  AccessSpec => []AccessIsTrue
<1>1. AccessInv => AccessIsTrue
  BY AccessInvTrue
<1> QED BY <1>1, AccessInvariance, PTL
=============================================================================
