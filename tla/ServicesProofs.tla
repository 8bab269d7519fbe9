---------------------------- MODULE ServicesProofs ----------------------------
(***************************************************************************)
(* What TLAPS shows of the services as they run side by side: each keeps,  *)
(* while the others move or rest, what its own module of proofs shows of   *)
(* it alone.  A lemma per service says that the steps of MCServices are    *)
(* its steps; the theorems name the properties of the run.                 *)
(***************************************************************************)
EXTENDS MCServices, TLAPS

Resources ==
  INSTANCE ResourceProofs WITH
    Devices <- {"", "d1"}, TabIds <- {"c1"}, AccountIds <- {"a1"}, Addresses <- {"d1", "d2"},
    MaxAsked <- 2, MaxGranted <- 1, issued <- granted, account <- tabAccount, link <- policyOf
TwoTabbed ==
  INSTANCE ResourceProofs WITH
    Devices <- {"", "d1"}, TabIds <- {"c1", "c2"}, AccountIds <- {"a1", "a2"}, Addresses <- {},
    MaxAsked <- 0, issued <- granted, account <- tabAccount, link <- policyOf
Delivery ==
  INSTANCE DeliveryProofs WITH
    stored <- kept, handler <- streamHandler, ClientIds <- {"p1"},
    TopicFilters <- {"one status", "all statuses", "inbox"},
    Matching <- [status |-> {"one status", "all statuses"}, signal |-> {"inbox"}],
    Babies <- {b1}, MaxDrops <- 1
TwoFollowed ==
  INSTANCE DeliveryProofs WITH
    stored <- kept, handler <- streamHandler, ClientIds <- {"p1"},
    TopicFilters <- {"one status", "all statuses", "inbox"},
    Matching <- [status |-> {"one status", "all statuses"}, signal |-> {"inbox"}],
    Babies <- {b1, b2}, MaxDrops <- 0
Backend ==
  INSTANCE BackendProofs WITH
    ClientIds <- {"p1", "p2"}, Hosts <- {"c1", "c2"}, Emails <- {e1},
    ConnectionIds <- {"c1", "c2"}, SessionIds <- {1, 2}, list <- sessionList,
    Conns <- {"c1", "c2"}, SessionNos <- {1, 2}, KeptMax <- MaxKept
Frontend ==
  INSTANCE FrontendProofs WITH
    toBaby <- toBabyInbox, toParent <- toParentInbox, Tabs <- {t1, t2}, restarts <- authRestarts,
    Frames <- {12, 24}, MaxGestures <- 2, MaxCameras <- 2, stream <- frame, streams <- frames

-----------------------------------------------------------------------------
(* The services that hold something of the browser *)

LEMMA LockRuns == Spec => []WakeLock!HeldIsKnown /\ []WakeLock!LockTypeOK
<1>1. Init => Resources!LockInit
  BY Zenon DEF Init, FrontendInit, WakeLock!LockInit, Resources!LockInit
<1>2. WakeLock!LockNext => Resources!LockNext
  BY Zenon DEF WakeLock!LockNext, WakeLock!Available, WakeLock!LockLost, WakeLock!Locking,
     WakeLock!Locked, WakeLock!Unlocking, WakeLock!PreparingToLockAfterUnlocking,
     WakeLock!ReleasedUnnoticed, WakeLock!MayRequest, WakeLock!Request,
     WakeLock!ReleaseAtOnce, WakeLock!Ignore, WakeLock!GiveUp, WakeLock!With,
     WakeLock!Settle, Resources!LockNext, Resources!Available, Resources!LockLost,
     Resources!Locking, Resources!Locked, Resources!Unlocking,
     Resources!PreparingToLockAfterUnlocking, Resources!ReleasedUnnoticed,
     Resources!MayRequest, Resources!Request, Resources!ReleaseAtOnce, Resources!Ignore,
     Resources!GiveUp, Resources!With, Resources!Settle
<1>3. [Next]_vars => [Resources!LockNext]_(Resources!lockVars)
  BY Zenon, <1>2 DEF Next, FrontendNext, vars, frontendVars, lockVars, Resources!lockVars
<1>4. Resources!LockSpec => []Resources!HeldIsKnown
  BY Resources!NoSentinelForgotten
<1>5. Resources!HeldIsKnown => WakeLock!HeldIsKnown
  BY Zenon DEF Resources!HeldIsKnown, WakeLock!HeldIsKnown, Resources!With, WakeLock!With
<1>6. Resources!LockSpec => []Resources!LockTypeOK
  BY Resources!LockTypeCorrect
<1>7. Resources!LockTypeOK => WakeLock!LockTypeOK
  BY Zenon DEF
     WakeLock!LockTypeOK, WakeLock!LockStates, WakeLock!Outcomes, Resources!LockTypeOK,
     Resources!LockStates, Resources!Outcomes
<1> QED BY <1>1, <1>3, <1>4, <1>5, <1>6, <1>7, PTL DEF Spec, Resources!LockSpec

LEMMA SaverRuns == Spec => []ScreenSaver!CanvasIsKnown /\ []ScreenSaver!SaverTypeOK
<1>1. Init => Resources!SaverInit
  BY Zenon DEF Init, FrontendInit, ScreenSaver!SaverInit, Resources!SaverInit
<1>2. ScreenSaver!SaverNext => Resources!SaverNext
  BY Zenon DEF ScreenSaver!SaverNext, ScreenSaver!NotRunning, ScreenSaver!EnteringFullScreen,
     ScreenSaver!Running, ScreenSaver!ExitingFullScreen, ScreenSaver!FallbackNotRunning,
     ScreenSaver!FallbackRunning, ScreenSaver!LeaveFullScreen, ScreenSaver!NewCanvas,
     ScreenSaver!Remove, ScreenSaver!Fire, ScreenSaver!Changed, ScreenSaver!page,
     Resources!SaverNext, Resources!NotRunning, Resources!EnteringFullScreen,
     Resources!Running, Resources!ExitingFullScreen, Resources!FallbackNotRunning,
     Resources!FallbackRunning, Resources!LeaveFullScreen, Resources!NewCanvas,
     Resources!Remove, Resources!Fire, Resources!Changed, Resources!page
<1>3. [Next]_vars => [Resources!SaverNext]_(Resources!saverVars)
  BY Zenon, <1>2 DEF Next, FrontendNext, vars, frontendVars, saverVars, Resources!saverVars
<1>4. Resources!SaverSpec => []Resources!CanvasIsKnown
  BY ServicesAssumption, Resources!NoCanvasForgotten
<1>5. Resources!CanvasIsKnown => ScreenSaver!CanvasIsKnown
  BY Zenon DEF Resources!CanvasIsKnown, ScreenSaver!CanvasIsKnown
<1>6. Resources!SaverSpec => []Resources!SaverTypeOK
  BY ServicesAssumption, Resources!SaverTypeCorrect
<1>7. Resources!SaverTypeOK => ScreenSaver!SaverTypeOK
  BY Zenon DEF
     ScreenSaver!SaverTypeOK, ScreenSaver!SaverStates, Resources!SaverTypeOK,
     Resources!SaverStates
<1> QED BY <1>1, <1>3, <1>4, <1>5, <1>6, <1>7, PTL DEF Spec, Resources!SaverSpec

LEMMA MediaRuns == Spec => []MediaDevices!DevicesAreKnown /\ []MediaDevices!MediaTypeOK
<1>1. Init => Resources!MediaInit
  BY Zenon DEF Init, FrontendInit, MediaDevices!MediaInit, Resources!MediaInit,
     MediaDevices!Kinds, Resources!Kinds
<1>2. MediaDevices!MediaNext => Resources!MediaNext
  BY Zenon DEF MediaDevices!MediaNext, MediaDevices!QueryPermissionState,
     MediaDevices!RequestVideoAndAudioPermission, MediaDevices!Start,
     MediaDevices!SetDeviceId, MediaDevices!RetryGetUserMedia,
     MediaDevices!AnswerUserMedia, MediaDevices!Settled, MediaDevices!Loading,
     MediaDevices!GetUserMedia, MediaDevices!Call, MediaDevices!StopReplaced,
     MediaDevices!Unanswered, MediaDevices!MayAsk, MediaDevices!Kinds,
     MediaDevices!permissionVars, MediaDevices!streamVars,
     Resources!MediaNext, Resources!QueryPermissionState,
     Resources!RequestVideoAndAudioPermission, Resources!Start,
     Resources!SetDeviceId, Resources!RetryGetUserMedia,
     Resources!AnswerUserMedia, Resources!Settled, Resources!Loading,
     Resources!GetUserMedia, Resources!Call, Resources!StopReplaced,
     Resources!Unanswered, Resources!MayAsk, Resources!Kinds,
     Resources!permissionVars, Resources!streamVars
<1>3. [Next]_vars => [Resources!MediaNext]_(Resources!mediaVars)
  <2>1. UNCHANGED mediaVars => UNCHANGED Resources!mediaVars
    BY Zenon DEF mediaVars, Resources!mediaVars, Resources!permissionVars, Resources!streamVars
  <2> QED BY Zenon, <1>2, <2>1 DEF Next, FrontendNext, vars, frontendVars
<1>4. Resources!HasDefault
  BY Zenon DEF Resources!HasDefault
<1>5. Resources!MediaSpec => []Resources!DevicesAreKnown
  BY <1>4, Resources!NoStreamForgotten
<1>6. Resources!DevicesAreKnown => MediaDevices!DevicesAreKnown
  BY Zenon DEF Resources!DevicesAreKnown, MediaDevices!DevicesAreKnown,
     Resources!Unanswered, MediaDevices!Unanswered
<1>7. Resources!MediaSpec => []Resources!MediaTypeOK
  BY <1>4, Resources!MediaTypeCorrect
<1>8. Resources!MediaTypeOK => MediaDevices!MediaTypeOK
  BY Zenon DEF
     MediaDevices!MediaTypeOK, MediaDevices!Kinds, Resources!MediaTypeOK,
     Resources!Kinds
<1> QED BY <1>1, <1>3, <1>5, <1>6, <1>7, <1>8, PTL DEF Spec, Resources!MediaSpec

(***************************************************************************)
(* WakeLockService, ScreenSaverService and MediaDeviceService: what the    *)
(* page holds of the browser, its service holds, however late the browser  *)
(* answers; but for what requests unanswered side by side leave, and the   *)
(* canvas of a full screen that was refused.                               *)
(***************************************************************************)
THEOREM ResourcesKnown == Spec => []ResourcesAreKnown
BY LockRuns, SaverRuns, MediaRuns, PTL DEF ResourcesAreKnown

-----------------------------------------------------------------------------
(* Those that pass events and messages on *)

LEMMA StreamRuns == Spec => []EventStream!StreamIsOwn /\ []EventStream!StreamTypeOK
<1>1. Init => Delivery!StreamInit
  BY Zenon DEF Init, BackendInit, EventStream!StreamInit, Delivery!StreamInit
<1>2. EventStream!StreamNext => Delivery!StreamNext
  BY Zenon DEF
     EventStream!StreamNext, EventStream!AppendEvent, EventStream!CloseRequest,
     EventStream!Goroutines, EventStream!ReadEvent, EventStream!ReaderEnds,
     EventStream!WriteEvent, EventStream!HandlerReturns, EventStream!ShouldSkipEvent,
     Delivery!StreamNext, Delivery!AppendEvent, Delivery!CloseRequest,
     Delivery!Goroutines, Delivery!ReadEvent, Delivery!ReaderEnds, Delivery!WriteEvent,
     Delivery!HandlerReturns, Delivery!ShouldSkipEvent
<1>3. [Next]_vars => [Delivery!StreamNext]_(Delivery!streamVars)
  BY Zenon, <1>2 DEF
     Next, BackendNext, vars, backendVars, streamVars, Delivery!streamVars
<1>4. Delivery!StreamSpec => []Delivery!StreamIsOwn
  BY ServicesAssumption, Delivery!StreamOwn
<1>5. Delivery!StreamIsOwn => EventStream!StreamIsOwn
  BY Zenon DEF
     EventStream!StreamIsOwn, EventStream!IsOwn, EventStream!Given,
     Delivery!StreamIsOwn, Delivery!IsOwn, Delivery!Given
<1>6. Delivery!StreamSpec => []Delivery!StreamTypeOK
  BY ServicesAssumption, Delivery!StreamTypeCorrect
<1>7. Delivery!StreamTypeOK => EventStream!StreamTypeOK
  BY Zenon DEF EventStream!StreamTypeOK, Delivery!StreamTypeOK
<1> QED BY <1>1, <1>3, <1>4, <1>5, <1>6, <1>7, PTL DEF Spec, Delivery!StreamSpec

LEMMA FollowersRun == Spec => []Followers!FollowerMissesNothing /\ []Followers!FollowersTypeOK
<1>1. Init => Delivery!FollowersInit
  BY Zenon DEF Init, FrontendInit, Followers!FollowersInit, Delivery!FollowersInit
<1>2. Followers!FollowersNext => Delivery!FollowersNext
  BY Zenon DEF
     Followers!FollowersNext, Followers!StoreEvent, Followers!PushEvent,
     Followers!Begin, Followers!Replay, Followers!Follow, Followers!Slice,
     Delivery!FollowersNext, Delivery!StoreEvent, Delivery!PushEvent, Delivery!Begin,
     Delivery!Replay, Delivery!Follow, Delivery!Slice
<1>3. [Next]_vars => [Delivery!FollowersNext]_(Delivery!followerVars)
  BY Zenon, <1>2 DEF
     Next, FrontendNext, vars, frontendVars, followerVars, Delivery!followerVars
<1>4. Delivery!FollowersSpec => []Delivery!FollowerMissesNothing
  BY Delivery!NothingIsMissed
<1>5. Delivery!FollowerMissesNothing => Followers!FollowerMissesNothing
  BY Zenon DEF
     Followers!FollowerMissesNothing, Followers!Yielded, Delivery!FollowerMissesNothing,
     Delivery!Yielded
<1>6. Delivery!FollowersSpec => []Delivery!FollowersTypeOK
  BY ServicesAssumption, Delivery!FollowersTypeCorrect
<1>7. Delivery!FollowersTypeOK => Followers!FollowersTypeOK
  BY Zenon DEF Followers!FollowersTypeOK, Delivery!FollowersTypeOK
<1> QED BY <1>1, <1>3, <1>4, <1>5, <1>6, <1>7, PTL DEF Spec, Delivery!FollowersSpec

LEMMA SubscriptionsRun ==
  Spec => []Subscriptions!OpenAreCalled /\ []Subscriptions!SubscriptionsTypeOK
<1>1. Init => Delivery!SubscriptionsInit
  BY Zenon DEF
     Init, FrontendInit, Subscriptions!SubscriptionsInit, Subscriptions!Idle,
     Delivery!SubscriptionsInit, Delivery!Idle
<1>2. Subscriptions!SubscriptionsNext => Delivery!SubscriptionsNext
  BY Zenon DEF
     Subscriptions!SubscriptionsNext, Subscriptions!StateChanges,
     Subscriptions!SubscribeWithCallback, Subscriptions!CloseSubscription,
     Subscriptions!HandleMessage, Subscriptions!CallSubscription,
     Subscriptions!DispatchEnds, Subscriptions!CallbackThrows, Subscriptions!MayCall,
     Subscriptions!DecrementRefCount, Subscriptions!Idle, Subscriptions!Listening,
     Subscriptions!Listens, Delivery!SubscriptionsNext, Delivery!StateChanges,
     Delivery!SubscribeWithCallback, Delivery!CloseSubscription, Delivery!HandleMessage,
     Delivery!CallSubscription, Delivery!DispatchEnds, Delivery!CallbackThrows,
     Delivery!MayCall, Delivery!DecrementRefCount, Delivery!Idle, Delivery!Listening,
     Delivery!Listens
<1>3. [Next]_vars => [Delivery!SubscriptionsNext]_(Delivery!subscriptionVars)
  BY Zenon, <1>2 DEF
     Next, FrontendNext, vars, frontendVars, subscriptionVars, Delivery!subscriptionVars
<1>4. Delivery!SubscriptionsSpec => []Delivery!OpenAreCalled
  BY Delivery!OpenCalled
<1>5. Delivery!OpenAreCalled => Subscriptions!OpenAreCalled
  BY Zenon DEF
     Subscriptions!OpenAreCalled, Subscriptions!Idle, Subscriptions!Cardinality,
     Delivery!OpenAreCalled, Delivery!Idle, Delivery!Cardinality
<1>6. Delivery!SubscriptionsSpec => []Delivery!SubscriptionsTypeOK
  BY Delivery!SubscriptionsTypeCorrect
<1>7. Delivery!SubscriptionsTypeOK => Subscriptions!SubscriptionsTypeOK
  BY Zenon DEF Subscriptions!SubscriptionsTypeOK, Delivery!SubscriptionsTypeOK
<1> QED BY <1>1, <1>3, <1>4, <1>5, <1>6, <1>7, PTL DEF Spec, Delivery!SubscriptionsSpec

(***************************************************************************)
(* The event stream of the backend, EventStoreFrontend and the routing of  *)
(* MQTTService: whoever reads or subscribes gets all of it, and nothing    *)
(* before what came earlier.  A replay may repeat an event, and a callback *)
(* that throws keeps its message from those after it.                      *)
(***************************************************************************)
THEOREM DeliveryComplete == Spec => []DeliveryIsComplete
BY StreamRuns, FollowersRun, SubscriptionsRun, PTL DEF DeliveryIsComplete

-----------------------------------------------------------------------------
(* The two websocket services of the backend, and the announcement of starts *)

LEMMA ClientsRun == Spec => []Clients!ClientsAreServed /\ []Clients!ClientsTypeOK
<1>1. Init => Backend!ClientsInit
  BY Zenon DEF Init, BackendInit, Clients!ClientsInit, Backend!ClientsInit
<1>2. Clients!ClientsNext => Backend!ClientsNext
  BY Zenon DEF
     Clients!ClientsNext, Clients!Open, Clients!Disconnect, Clients!ReadMessage,
     Clients!ReadFails, Clients!Send, Clients!SendOnClosed, Clients!Write,
     Clients!ChannelClosed, Clients!Up, Clients!Leave, Clients!Removed,
     Backend!ClientsNext, Backend!Open, Backend!Disconnect, Backend!ReadMessage,
     Backend!ReadFails, Backend!Send, Backend!SendOnClosed, Backend!Write,
     Backend!ChannelClosed, Backend!Up, Backend!Leave, Backend!Removed
<1>3. [Next]_vars => [Backend!ClientsNext]_(Backend!clientVars)
  BY Zenon, <1>2 DEF
     Next, BackendNext, vars, backendVars, clientVars, Backend!clientVars
<1>4. Backend!ClientsSpec => []Backend!ClientsAreServed
  BY Backend!OnlySocketIsServed
<1>5. Backend!ClientsAreServed => Clients!ClientsAreServed
  BY Zenon DEF Clients!ClientsAreServed, Backend!ClientsAreServed
<1>6. Backend!ClientsSpec => []Backend!ClientsTypeOK
  BY Backend!ClientsTypeCorrect
<1>7. Backend!ClientsTypeOK => Clients!ClientsTypeOK
  BY Zenon DEF Clients!ClientsTypeOK, Backend!ClientsTypeOK
<1> QED BY <1>1, <1>3, <1>4, <1>5, <1>6, <1>7, PTL DEF Spec, Backend!ClientsSpec

LEMMA ConnectionsRun ==
  Spec => []Connections!ConnectionsAreServed /\ []Connections!ConnectionsTypeOK
<1>1. Init => Delivery!ConnectionsInit
  BY Zenon DEF
     Init, BackendInit, Connections!ConnectionsInit, Delivery!ConnectionsInit
<1>2. Connections!ConnectionsNext => Delivery!ConnectionsNext
  BY Zenon DEF
     Connections!ConnectionsNext, Connections!HandleConnection, Connections!PeerEnds,
     Connections!HandleSignal, Connections!ConnectionSteps, Connections!At,
     Connections!Serving, Connections!Subscribed, Connections!Announced,
     Connections!SendDisconnected, Connections!Unsubscribe, Connections!ReadFails,
     Connections!Published, Connections!SendPing, Connections!WaitForPong,
     Connections!HandlePong, Connections!PongTimeout, Connections!Succeed,
     Connections!Fail, Connections!Unrouted, Connections!Leaving,
     Delivery!ConnectionsNext, Delivery!HandleConnection, Delivery!PeerEnds,
     Delivery!HandleSignal, Delivery!ConnectionSteps, Delivery!At, Delivery!Serving,
     Delivery!Subscribed, Delivery!Announced, Delivery!SendDisconnected,
     Delivery!Unsubscribe, Delivery!ReadFails, Delivery!Published, Delivery!SendPing,
     Delivery!WaitForPong, Delivery!HandlePong, Delivery!PongTimeout, Delivery!Succeed,
     Delivery!Fail, Delivery!Unrouted, Delivery!Leaving
<1>3. [Next]_vars => [Delivery!ConnectionsNext]_(Delivery!connectionVars)
  BY Zenon, <1>2 DEF
     Next, BackendNext, vars, backendVars, connectionVars, Delivery!connectionVars
<1>4. Delivery!ConnectionsSpec => []Delivery!ConnectionsAreServed
  BY ServicesAssumption, Delivery!OnlyConnectionIsServed
<1>5. Delivery!ConnectionsAreServed => Connections!ConnectionsAreServed
  BY Zenon DEF
     Connections!ConnectionsAreServed, Connections!At, Delivery!ConnectionsAreServed,
     Delivery!At
<1>6. Delivery!ConnectionsSpec => []Delivery!ConnectionsTypeOK
  BY ServicesAssumption, Delivery!ConnectionsTypeCorrect
<1>7. Delivery!ConnectionsTypeOK => Connections!ConnectionsTypeOK
  BY Zenon DEF Connections!ConnectionsTypeOK, Delivery!ConnectionsTypeOK
<1> QED BY <1>1, <1>3, <1>4, <1>5, <1>6, <1>7, PTL DEF Spec, Delivery!ConnectionsSpec

(***************************************************************************)
(* handle_clients and the connections of the event API: a client that has  *)
(* one connection is the one that is served, whatever became of the others.*)
(***************************************************************************)
THEOREM SocketsServed == Spec => []SocketsAreServed
BY ClientsRun, ConnectionsRun, PTL DEF SocketsAreServed

LEMMA StartsRun == Spec => []SessionStarts!StartIsAnnounced /\ []SessionStarts!StartsTypeOK
<1>1. Init => Backend!StartsInit
  BY Zenon DEF
     Init, BackendInit, SessionStarts!StartsInit, SessionStarts!Idle,
     SessionStarts!Empty, Backend!StartsInit, Backend!Idle, Backend!Empty
<1>2. SessionStarts!StartsNext => Backend!StartsNext
  BY Zenon DEF
     SessionStarts!StartsNext, SessionStarts!StartSession, SessionStarts!PutPending,
     SessionStarts!Connected, SessionStarts!AnnouncePending,
     SessionStarts!DeletePending, SessionStarts!Disconnected, SessionStarts!Reboot,
     SessionStarts!Idle, SessionStarts!Empty, Backend!StartsNext, Backend!StartSession,
     Backend!PutPending, Backend!Connected, Backend!AnnouncePending,
     Backend!DeletePending, Backend!Disconnected, Backend!Reboot, Backend!Idle,
     Backend!Empty
<1>3. [Next]_vars => [Backend!StartsNext]_(Backend!startVars)
  BY Zenon, <1>2 DEF
     Next, BackendNext, vars, backendVars, startVars, Backend!startVars
<1>4. Backend!StartsSpec => []Backend!StartIsAnnounced
  BY ServicesAssumption, Backend!NoStartForgotten
<1>5. Backend!StartIsAnnounced => SessionStarts!StartIsAnnounced
  BY Zenon DEF SessionStarts!StartIsAnnounced, Backend!StartIsAnnounced
<1>6. Backend!StartsSpec => []Backend!StartsTypeOK
  BY ServicesAssumption, Backend!StartsTypeCorrect
<1>7. Backend!StartsTypeOK => SessionStarts!StartsTypeOK
  BY Zenon DEF SessionStarts!StartsTypeOK, Backend!StartsTypeOK
<1> QED BY <1>1, <1>3, <1>4, <1>5, <1>6, <1>7, PTL DEF Spec, Backend!StartsSpec

(***************************************************************************)
(* BabyStationSessionService of the backend: a start that was asked for is *)
(* announced, or was answered with an error, or waits for its connection,  *)
(* or for the next one after a failure, or a later start took its place.   *)
(* It is not said once the backend was restarted, nor of a start that was  *)
(* put after its connection registered, which may be deleted unannounced.  *)
(***************************************************************************)
THEOREM StartsAnnounced == Spec => []StartIsAnnounced
BY StartsRun, PTL DEF StartIsAnnounced

-----------------------------------------------------------------------------
(* The accounts *)

LEMMA AccountsRun == Spec =>
  []Accounts!FailsForReason /\ []Accounts!StoreIsReplay /\ []Accounts!AccountsTypeOK
<1>1. Init => Backend!AccountsInit
  BY Zenon DEF
     Init, BackendInit, Accounts!AccountsInit, Accounts!EmptyStore, Accounts!Ids,
     Backend!AccountsInit, Backend!EmptyStore, Backend!Ids
<1>2. Accounts!AccountsNext => Backend!AccountsNext
  BY Zenon DEF
     Accounts!AccountsNext, Accounts!Ids, Accounts!CheckEmail, Accounts!CreateAccount,
     Accounts!RequestPasswordReset, Accounts!TokenExpires, Accounts!LoadToken,
     Accounts!ResetPassword, Accounts!DeleteAccount, Accounts!DeleteEmail,
     Accounts!ApplyEvent, Accounts!WriteById, Accounts!WriteByEmail, Accounts!Crash,
     Accounts!Restart, Accounts!storeVars, Accounts!projectionVars,
     Accounts!historyVars, Accounts!Running, Accounts!Event, Accounts!AppendEvent,
     Accounts!Known, Accounts!requestVars, Accounts!ApplyAccountCreated,
     Accounts!ApplyAccountPasswordReset, Accounts!EmptyStore, Backend!AccountsNext,
     Backend!Ids, Backend!CheckEmail, Backend!CreateAccount,
     Backend!RequestPasswordReset, Backend!TokenExpires, Backend!LoadToken,
     Backend!ResetPassword, Backend!DeleteAccount, Backend!DeleteEmail,
     Backend!ApplyEvent, Backend!WriteById, Backend!WriteByEmail, Backend!Crash,
     Backend!Restart, Backend!storeVars, Backend!projectionVars, Backend!historyVars,
     Backend!Running, Backend!Event, Backend!AppendEvent, Backend!Known,
     Backend!requestVars, Backend!ApplyAccountCreated,
     Backend!ApplyAccountPasswordReset, Backend!EmptyStore
<1>3. [Next]_vars => [Backend!AccountsNext]_(Backend!accountVars)
  BY Zenon, <1>2 DEF
     Next, BackendNext, vars, backendVars, accountVars, Backend!accountVars,
     Backend!projectionVars, Backend!storeVars, Backend!requestVars, Backend!historyVars
<1>4. Backend!AccountsSpec => []Backend!FailsForReason /\ []Backend!StoreIsReplay
  <2>1. Backend!AccountBounds
    BY ServicesAssumption DEF Backend!AccountBounds
  <2> QED BY <2>1, Backend!StoppedForReason, Backend!StoreReplays, PTL
<1>5. Backend!FailsForReason => Accounts!FailsForReason
  BY Zenon DEF Accounts!FailsForReason, Backend!FailsForReason
<1>6. Backend!AccountsSpec => []Backend!AccountsTypeOK
  <2>1. Backend!AccountBounds
    BY ServicesAssumption DEF Backend!AccountBounds
  <2> QED BY <2>1, Backend!AccountsTypeCorrect
<1>7. Backend!AccountsTypeOK => Accounts!AccountsTypeOK
  BY Zenon DEF
     Accounts!AccountsTypeOK, Accounts!Ids, Backend!AccountsTypeOK, Backend!Ids
<1>8. Backend!StoreIsReplay => Accounts!StoreIsReplay
  BY Zenon DEF
     Accounts!StoreIsReplay, Accounts!Logged, Accounts!LastCreated, Accounts!Event,
     Accounts!OneWasDeleted, Accounts!Ids, Backend!StoreIsReplay, Backend!Logged,
     Backend!LastCreated, Backend!Event, Backend!OneWasDeleted, Backend!Ids
<1> QED BY <1>1, <1>3, <1>4, <1>5, <1>6, <1>7, <1>8, PTL DEF Spec, Backend!AccountsSpec

(***************************************************************************)
(* The account handlers and their projection: it is fatal only on an email *)
(* that was registered twice, or once an account was deleted.              *)
(***************************************************************************)
THEOREM ProjectionFailsForReason == Spec => []FailsForReason
BY AccountsRun, PTL DEF FailsForReason

(***************************************************************************)
(* The projection of the accounts: between two events its store is what    *)
(* the log says, but for emails of which an account was deleted.           *)
(***************************************************************************)
THEOREM StoreReplaysLog == Spec => []StoreIsReplay
BY AccountsRun, PTL DEF StoreIsReplay

-----------------------------------------------------------------------------
(* The session list *)

\* The list that an event leaves is the same, event by event.
LEMMA SameLists ==
  ASSUME NEW l, NEW e
  PROVE  SessionList!Apply(l, e) = Backend!Apply(l, e)
<1>1. SessionList!ApplySessionStarted(l, e) = Backend!ApplySessionStarted(l, e)
  BY Zenon DEF
     SessionList!ApplySessionStarted, SessionList!OnHost, SessionList!RemoveKept,
     SessionList!RemoveFirstMatch, SessionList!RemoveAt, SessionList!SelectInSeq,
     SessionList!Min, Backend!ApplySessionStarted, Backend!OnHost, Backend!RemoveKept,
     Backend!RemoveFirstMatch, Backend!RemoveAt, Backend!SelectInSeq, Backend!Min
<1>2. SessionList!ApplySessionEnded(l, e) = Backend!ApplySessionEnded(l, e)
  BY Zenon DEF
     SessionList!ApplySessionEnded, SessionList!RemoveKeptId, SessionList!RemoveAt,
     SessionList!SelectInSeq, SessionList!Min, Backend!ApplySessionEnded,
     Backend!RemoveKeptId, Backend!RemoveAt, Backend!SelectInSeq, Backend!Min
<1>3. SessionList!ApplyClientDisconnected(l, e) = Backend!ApplyClientDisconnected(l, e)
  BY Zenon DEF
     SessionList!ApplyClientDisconnected, SessionList!OnHost, SessionList!Track,
     SessionList!Oldest, SessionList!RemoveKept, SessionList!RemoveFirstMatch,
     SessionList!RemoveAt, SessionList!SelectInSeq, SessionList!Min,
     Backend!ApplyClientDisconnected, Backend!OnHost, Backend!Track, Backend!Oldest,
     Backend!RemoveKept, Backend!RemoveFirstMatch, Backend!RemoveAt,
     Backend!SelectInSeq, Backend!Min
<1>4. SessionList!ApplyClientConnected(l, e) = Backend!ApplyClientConnected(l, e)
  BY Zenon DEF
     SessionList!ApplyClientConnected, SessionList!OnHost, SessionList!RemoveKept,
     SessionList!RemoveFirstMatch, SessionList!RemoveAt, SessionList!SelectInSeq,
     SessionList!Min, Backend!ApplyClientConnected, Backend!OnHost, Backend!RemoveKept,
     Backend!RemoveFirstMatch, Backend!RemoveAt, Backend!SelectInSeq, Backend!Min
<1>5. SessionList!ApplyServerStarted(l, e) = Backend!ApplyServerStarted(l, e)
  BY Zenon DEF
     SessionList!ApplyServerStarted, SessionList!TrackFirst, SessionList!Cardinality,
     SessionList!Track, SessionList!Oldest, SessionList!RemoveKept,
     SessionList!RemoveFirstMatch, SessionList!RemoveAt, SessionList!SelectInSeq,
     SessionList!Min, Backend!ApplyServerStarted, Backend!TrackFirst,
     Backend!Cardinality, Backend!Track, Backend!Oldest, Backend!RemoveKept,
     Backend!RemoveFirstMatch, Backend!RemoveAt, Backend!SelectInSeq, Backend!Min
<1> QED BY Zenon, <1>1, <1>2, <1>3, <1>4, <1>5 DEF SessionList!Apply, Backend!Apply

LEMMA ListRuns == Spec => []SessionList!SessionListIsTrue /\ []SessionList!ListTypeOK
<1>1. Init => Backend!ListInit
  BY Zenon DEF
     Init, BackendInit, SessionList!ListInit, SessionList!EmptyList, Backend!ListInit,
     Backend!EmptyList
<1>2. SessionList!ListNext => Backend!ListNext
  <2>1. \A type, c, n : SessionList!LogEvent(type, c, n) => Backend!LogEvent(type, c, n)
    BY Zenon, SameLists DEF
       SessionList!LogEvent, SessionList!ApplyToStore, Backend!LogEvent, Backend!ApplyToStore
  <2>2. \A c : SessionList!ClientConnected(c) => Backend!ClientConnected(c)
    BY Zenon, <2>1 DEF
       SessionList!ClientConnected, SessionList!Requests, SessionList!Cardinality,
       Backend!ClientConnected, Backend!Requests, Backend!Cardinality
  <2>3. \A n, c : SessionList!SessionStarted(n, c) => Backend!SessionStarted(n, c)
    BY Zenon, <2>1 DEF
       SessionList!SessionStarted, Backend!SessionStarted
  <2>4. \A r, c : SessionList!ClientDisconnected(r, c) => Backend!ClientDisconnected(r, c)
    BY Zenon, <2>1 DEF
       SessionList!ClientDisconnected, SessionList!IsLogged, Backend!ClientDisconnected,
       Backend!IsLogged
  <2>5. \A n : SessionList!EndSession(n) => Backend!EndSession(n)
    BY Zenon, <2>1 DEF
       SessionList!EndSession, Backend!EndSession
  <2>6. SessionList!ServerStarted => Backend!ServerStarted
    BY Zenon, <2>1 DEF
       SessionList!ServerStarted, Backend!ServerStarted
  <2>7. SessionList!Requests = Backend!Requests
    BY Zenon DEF SessionList!Requests, Backend!Requests
  <2> QED
    BY Zenon, <2>2, <2>3, <2>4, <2>5, <2>6, <2>7 DEF SessionList!ListNext, Backend!ListNext
<1>3. [Next]_vars => [Backend!ListNext]_(Backend!listVars)
  BY Zenon, <1>2 DEF Next, BackendNext, vars, backendVars, listVars, Backend!listVars
<1>4. Backend!ListSpec => []Backend!SessionListIsTrue
  <2>1. Backend!ListBounds
    BY ServicesAssumption DEF Backend!ListBounds
  <2> QED BY <2>1, Backend!ListTrueOfLog
<1>5. Backend!SessionListIsTrue => SessionList!SessionListIsTrue
  BY Zenon DEF
     SessionList!SessionListIsTrue, SessionList!KnownSessions,
     SessionList!EachInOnePlace, SessionList!KnownIsCurrent, SessionList!OnlineIsListed,
     SessionList!OfflineIsNotListed, SessionList!OnHost, SessionList!IsStatus,
     SessionList!ToSet, Backend!SessionListIsTrue, Backend!KnownSessions,
     Backend!EachInOnePlace, Backend!KnownIsCurrent, Backend!OnlineIsListed,
     Backend!OfflineIsNotListed, Backend!OnHost, Backend!IsStatus, Backend!ToSet
<1>6. Backend!ListSpec => []Backend!ListTypeOK
  <2>1. Backend!ListBounds /\ MaxLogged \in Nat
    BY ServicesAssumption DEF Backend!ListBounds
  <2> QED BY <2>1, Backend!ListTypeCorrect
<1>7. Backend!ListTypeOK => SessionList!ListTypeOK
  BY Zenon DEF
     SessionList!ListTypeOK, SessionList!Requests, Backend!ListTypeOK, Backend!Requests
<1> QED BY <1>1, <1>3, <1>4, <1>5, <1>6, <1>7, PTL DEF Spec, Backend!ListSpec

(***************************************************************************)
(* SessionList and the session store: they say what the log says, and the  *)
(* store knows every session the list does.                                *)
(***************************************************************************)
THEOREM ListTrueOfEvents == Spec => []SessionListIsTrue
BY ListRuns, PTL DEF SessionListIsTrue

-----------------------------------------------------------------------------
(* The usage statistics *)

LEMMA SameUsage ==
  ASSUME NEW u, NEW x, NEW y, NEW t
  PROVE  /\ UsageStats!UsageSessionStarted(u, x) = Backend!UsageSessionStarted(u, x)
         /\ UsageStats!UsageSessionEnded(u, x, t) = Backend!UsageSessionEnded(u, x, t)
         /\ UsageStats!UsageClientConnected(u, x) = Backend!UsageClientConnected(u, x)
         /\ UsageStats!UsageClientDisconnected(u, x, y, t) = Backend!UsageClientDisconnected(u, x, y, t)
         /\ UsageStats!UsageServerStarted(u, x, t) = Backend!UsageServerStarted(u, x, t)
         /\ UsageStats!LowSessionStarted(u, x) = Backend!LowSessionStarted(u, x)
         /\ UsageStats!LowSessionEnded(u, x, t) = Backend!LowSessionEnded(u, x, t)
         /\ UsageStats!LowClientConnected(u, x) = Backend!LowClientConnected(u, x)
         /\ UsageStats!LowClientDisconnected(u, x, y, t) = Backend!LowClientDisconnected(u, x, y, t)
         /\ UsageStats!LowServerStarted(u, x, t) = Backend!LowServerStarted(u, x, t)
         /\ UsageStats!FullSessionStarted(u, x) = Backend!FullSessionStarted(u, x)
         /\ UsageStats!FullSessionEnded(u, x, t) = Backend!FullSessionEnded(u, x, t)
         /\ UsageStats!FullClientConnected(u, x) = Backend!FullClientConnected(u, x)
         /\ UsageStats!FullClientDisconnected(u, x, y, t) = Backend!FullClientDisconnected(u, x, y, t)
         /\ UsageStats!FullServerStarted(u, t) = Backend!FullServerStarted(u, t)
         /\ UsageStats!TotalDuration(u, t) = Backend!TotalDuration(u, t)
         /\ UsageStats!FullTotalDuration(u, t) = Backend!FullTotalDuration(u, t)
         /\ UsageStats!SetToSeqs(u) = Backend!SetToSeqs(u)
         /\ UsageStats!ToSet(u) = Backend!ToSet(u)
<1>1. UsageStats!UsageSessionStarted(u, x) = Backend!UsageSessionStarted(u, x)
  BY ZenonT(60) DEF
     UsageStats!UsageSessionStarted, UsageStats!HostedBy, UsageStats!WithId,
     UsageStats!RemoveDisconnected, UsageStats!NotKept, UsageStats!RemoveFirstMatch,
     UsageStats!SelectInSeq, UsageStats!RemoveAt, UsageStats!Min,
     Backend!UsageSessionStarted, Backend!HostedBy, Backend!WithId,
     Backend!RemoveDisconnected, Backend!NotKept, Backend!RemoveFirstMatch,
     Backend!SelectInSeq, Backend!RemoveAt, Backend!Min
<1>2. UsageStats!UsageSessionEnded(u, x, t) = Backend!UsageSessionEnded(u, x, t)
  BY ZenonT(60) DEF
     UsageStats!UsageSessionEnded, UsageStats!WithId, UsageStats!Duration,
     UsageStats!RemoveDisconnectedId, UsageStats!SumFunction, UsageStats!NotKept,
     UsageStats!SelectInSeq, UsageStats!RemoveAt, UsageStats!SumFunctionOnSet,
     UsageStats!Min, UsageStats!FoldFunctionOnSet, UsageStats!MapThenFoldSet,
     Backend!UsageSessionEnded, Backend!WithId, Backend!Duration,
     Backend!RemoveDisconnectedId, Backend!SumFunction, Backend!NotKept,
     Backend!SelectInSeq, Backend!RemoveAt, Backend!SumFunctionOnSet, Backend!Min,
     Backend!FoldFunctionOnSet, Backend!MapThenFoldSet
<1>3. UsageStats!UsageClientConnected(u, x) = Backend!UsageClientConnected(u, x)
  BY ZenonT(60) DEF
     UsageStats!UsageClientConnected, UsageStats!NotKept, UsageStats!WithId,
     UsageStats!RemoveDisconnected, UsageStats!RemoveFirstMatch, UsageStats!SelectInSeq,
     UsageStats!RemoveAt, UsageStats!Min, Backend!UsageClientConnected, Backend!NotKept,
     Backend!WithId, Backend!RemoveDisconnected, Backend!RemoveFirstMatch,
     Backend!SelectInSeq, Backend!RemoveAt, Backend!Min
<1>4. UsageStats!UsageClientDisconnected(u, x, y, t) = Backend!UsageClientDisconnected(u, x, y, t)
  BY ZenonT(60) DEF
     UsageStats!UsageClientDisconnected, UsageStats!HostedBy, UsageStats!Duration,
     UsageStats!TrackDisconnected, UsageStats!SumFunction, UsageStats!NotKept,
     UsageStats!WithId, UsageStats!RemoveDisconnected, UsageStats!SumFunctionOnSet,
     UsageStats!RemoveFirstMatch, UsageStats!FoldFunctionOnSet, UsageStats!SelectInSeq,
     UsageStats!RemoveAt, UsageStats!MapThenFoldSet, UsageStats!Min,
     Backend!UsageClientDisconnected, Backend!HostedBy, Backend!Duration,
     Backend!TrackDisconnected, Backend!SumFunction, Backend!NotKept, Backend!WithId,
     Backend!RemoveDisconnected, Backend!SumFunctionOnSet, Backend!RemoveFirstMatch,
     Backend!FoldFunctionOnSet, Backend!SelectInSeq, Backend!RemoveAt,
     Backend!MapThenFoldSet, Backend!Min
<1>5. UsageStats!UsageServerStarted(u, x, t) = Backend!UsageServerStarted(u, x, t)
  BY ZenonT(60) DEF
     UsageStats!UsageServerStarted, UsageStats!TrackDisconnected, UsageStats!NotKept,
     UsageStats!WithId, UsageStats!RemoveDisconnected, UsageStats!RemoveFirstMatch,
     UsageStats!SelectInSeq, UsageStats!RemoveAt, UsageStats!Min,
     Backend!UsageServerStarted, Backend!TrackDisconnected, Backend!NotKept,
     Backend!WithId, Backend!RemoveDisconnected, Backend!RemoveFirstMatch,
     Backend!SelectInSeq, Backend!RemoveAt, Backend!Min
<1>6. UsageStats!LowSessionStarted(u, x) = Backend!LowSessionStarted(u, x)
  BY ZenonT(60) DEF
     UsageStats!LowSessionStarted, UsageStats!NotKept, UsageStats!WithId,
     UsageStats!UsageSessionStarted, UsageStats!HostedBy, UsageStats!RemoveDisconnected,
     UsageStats!RemoveFirstMatch, UsageStats!SelectInSeq, UsageStats!RemoveAt,
     UsageStats!Min, Backend!LowSessionStarted, Backend!NotKept, Backend!WithId,
     Backend!UsageSessionStarted, Backend!HostedBy, Backend!RemoveDisconnected,
     Backend!RemoveFirstMatch, Backend!SelectInSeq, Backend!RemoveAt, Backend!Min
<1>7. UsageStats!LowSessionEnded(u, x, t) = Backend!LowSessionEnded(u, x, t)
  BY ZenonT(60) DEF
     UsageStats!LowSessionEnded, UsageStats!NotKept, UsageStats!WithId,
     UsageStats!UsageSessionEnded, UsageStats!Duration, UsageStats!RemoveDisconnectedId,
     UsageStats!SumFunction, UsageStats!SelectInSeq, UsageStats!RemoveAt,
     UsageStats!SumFunctionOnSet, UsageStats!Min, UsageStats!FoldFunctionOnSet,
     UsageStats!MapThenFoldSet, Backend!LowSessionEnded, Backend!NotKept,
     Backend!WithId, Backend!UsageSessionEnded, Backend!Duration,
     Backend!RemoveDisconnectedId, Backend!SumFunction, Backend!SelectInSeq,
     Backend!RemoveAt, Backend!SumFunctionOnSet, Backend!Min, Backend!FoldFunctionOnSet,
     Backend!MapThenFoldSet
<1>8. UsageStats!LowClientConnected(u, x) = Backend!LowClientConnected(u, x)
  BY ZenonT(60) DEF
     UsageStats!LowClientConnected, UsageStats!NotKept, UsageStats!UsageClientConnected,
     UsageStats!WithId, UsageStats!RemoveDisconnected, UsageStats!RemoveFirstMatch,
     UsageStats!SelectInSeq, UsageStats!RemoveAt, UsageStats!Min,
     Backend!LowClientConnected, Backend!NotKept, Backend!UsageClientConnected,
     Backend!WithId, Backend!RemoveDisconnected, Backend!RemoveFirstMatch,
     Backend!SelectInSeq, Backend!RemoveAt, Backend!Min
<1>9. UsageStats!LowClientDisconnected(u, x, y, t) = Backend!LowClientDisconnected(u, x, y, t)
  <2>1. UsageStats!LowTrack(u, CHOOSE s \in UsageStats!HostedBy(u.stats.active, x) : TRUE, t)
          = Backend!LowTrack(u, CHOOSE s \in Backend!HostedBy(u.stats.active, x) : TRUE, t)
    BY ZenonT(60) DEF
       UsageStats!LowTrack, UsageStats!HostedBy, UsageStats!RemoveDisconnected,
       UsageStats!TrackDisconnected, UsageStats!NotKept, UsageStats!RemoveFirstMatch,
       UsageStats!WithId, UsageStats!SelectInSeq, UsageStats!RemoveAt, UsageStats!Min,
       Backend!LowTrack, Backend!HostedBy, Backend!RemoveDisconnected,
       Backend!TrackDisconnected, Backend!NotKept, Backend!RemoveFirstMatch,
       Backend!WithId, Backend!SelectInSeq, Backend!RemoveAt, Backend!Min
  <2>2. [u EXCEPT !.stats = UsageStats!UsageClientDisconnected(@, x, y, t)]
          = [u EXCEPT !.stats = Backend!UsageClientDisconnected(@, x, y, t)]
    BY ZenonT(60) DEF
       UsageStats!UsageClientDisconnected, UsageStats!HostedBy, UsageStats!Duration,
       UsageStats!TrackDisconnected, UsageStats!SumFunction, UsageStats!NotKept,
       UsageStats!WithId, UsageStats!RemoveDisconnected, UsageStats!SumFunctionOnSet,
       UsageStats!RemoveFirstMatch, UsageStats!FoldFunctionOnSet,
       UsageStats!SelectInSeq, UsageStats!RemoveAt, UsageStats!MapThenFoldSet,
       UsageStats!Min, Backend!UsageClientDisconnected, Backend!HostedBy,
       Backend!Duration, Backend!TrackDisconnected, Backend!SumFunction,
       Backend!NotKept, Backend!WithId, Backend!RemoveDisconnected,
       Backend!SumFunctionOnSet, Backend!RemoveFirstMatch, Backend!FoldFunctionOnSet,
       Backend!SelectInSeq, Backend!RemoveAt, Backend!MapThenFoldSet, Backend!Min
  <2>3. UsageStats!HostedBy(u.stats.active, x) = Backend!HostedBy(u.stats.active, x)
    BY Zenon DEF UsageStats!HostedBy, Backend!HostedBy
  <2> QED
    BY ZenonT(60), <2>1, <2>2, <2>3 DEF
       UsageStats!LowClientDisconnected, Backend!LowClientDisconnected
<1>10. UsageStats!LowServerStarted(u, x, t) = Backend!LowServerStarted(u, x, t)
  BY ZenonT(60) DEF
     UsageStats!LowServerStarted, UsageStats!LowTrack, UsageStats!RemoveDisconnected,
     UsageStats!TrackDisconnected, UsageStats!NotKept, UsageStats!RemoveFirstMatch,
     UsageStats!WithId, UsageStats!SelectInSeq, UsageStats!RemoveAt, UsageStats!Min,
     Backend!LowServerStarted, Backend!LowTrack, Backend!RemoveDisconnected,
     Backend!TrackDisconnected, Backend!NotKept, Backend!RemoveFirstMatch,
     Backend!WithId, Backend!SelectInSeq, Backend!RemoveAt, Backend!Min
<1>11. UsageStats!FullSessionStarted(u, x) = Backend!FullSessionStarted(u, x)
  BY Zenon DEF
     UsageStats!FullSessionStarted, UsageStats!HostedBy, UsageStats!WithId,
     Backend!FullSessionStarted, Backend!HostedBy, Backend!WithId
<1>12. UsageStats!FullSessionEnded(u, x, t) = Backend!FullSessionEnded(u, x, t)
  BY ZenonT(60) DEF
     UsageStats!FullSessionEnded, UsageStats!HostedBy, UsageStats!WithId,
     UsageStats!Duration, UsageStats!SumFunction, UsageStats!SumFunctionOnSet,
     UsageStats!FoldFunctionOnSet, UsageStats!MapThenFoldSet, Backend!FullSessionEnded,
     Backend!HostedBy, Backend!WithId, Backend!Duration, Backend!SumFunction,
     Backend!SumFunctionOnSet, Backend!FoldFunctionOnSet, Backend!MapThenFoldSet
<1>13. UsageStats!FullClientConnected(u, x) = Backend!FullClientConnected(u, x)
  BY Zenon DEF
     UsageStats!FullClientConnected, Backend!FullClientConnected
<1>14. UsageStats!FullClientDisconnected(u, x, y, t) = Backend!FullClientDisconnected(u, x, y, t)
  BY ZenonT(60) DEF
     UsageStats!FullClientDisconnected, UsageStats!HostedBy, UsageStats!Duration,
     UsageStats!SumFunction, UsageStats!SumFunctionOnSet, UsageStats!FoldFunctionOnSet,
     UsageStats!MapThenFoldSet, Backend!FullClientDisconnected, Backend!HostedBy,
     Backend!Duration, Backend!SumFunction, Backend!SumFunctionOnSet,
     Backend!FoldFunctionOnSet, Backend!MapThenFoldSet
<1>15. UsageStats!FullServerStarted(u, t) = Backend!FullServerStarted(u, t)
  BY Zenon DEF
     UsageStats!FullServerStarted, UsageStats!HostedBy, Backend!FullServerStarted,
     Backend!HostedBy
<1>16. UsageStats!TotalDuration(u, t) = Backend!TotalDuration(u, t)
  BY ZenonT(60) DEF
     UsageStats!TotalDuration, UsageStats!Duration, UsageStats!SumFunction,
     UsageStats!SumFunctionOnSet, UsageStats!FoldFunctionOnSet,
     UsageStats!MapThenFoldSet, Backend!TotalDuration, Backend!Duration,
     Backend!SumFunction, Backend!SumFunctionOnSet, Backend!FoldFunctionOnSet,
     Backend!MapThenFoldSet
<1>17. UsageStats!FullTotalDuration(u, t) = Backend!FullTotalDuration(u, t)
  BY Zenon DEF
     UsageStats!FullTotalDuration, UsageStats!SumFunction, UsageStats!SumFunctionOnSet,
     UsageStats!FoldFunctionOnSet, UsageStats!MapThenFoldSet, Backend!FullTotalDuration,
     Backend!SumFunction, Backend!SumFunctionOnSet, Backend!FoldFunctionOnSet,
     Backend!MapThenFoldSet
<1>18. UsageStats!SetToSeqs(u) = Backend!SetToSeqs(u)
  BY Zenon DEF
     UsageStats!SetToSeqs, UsageStats!Cardinality, Backend!SetToSeqs,
     Backend!Cardinality
<1>19. UsageStats!ToSet(u) = Backend!ToSet(u)
  BY Zenon DEF
     UsageStats!ToSet, Backend!ToSet
<1> QED BY Zenon, <1>1, <1>2, <1>3, <1>4, <1>5, <1>6, <1>7, <1>8, <1>9, <1>10, <1>11,
     <1>12, <1>13, <1>14, <1>15, <1>16, <1>17, <1>18, <1>19

LEMMA UsageRuns == Spec => []UsageIsTrue /\ []UsageStats!UsageTypeOK
<1>1. Init => Backend!UsageInit
  BY ZenonT(60) DEF
     Init, BackendInit, UsageStats!UsageInit, UsageStats!NotBegun,
     UsageStats!NewUsageStats, UsageStats!NewLow, UsageStats!NewFull,
     UsageStats!NotKept, Backend!UsageInit, Backend!NotBegun, Backend!NewUsageStats,
     Backend!NewLow, Backend!NewFull, Backend!NotKept
<1>2. UsageStats!UsageNext => Backend!UsageNext
  <2>1. \A n, c : UsageStats!LogSessionStarted(n, c) => Backend!LogSessionStarted(n, c)
    BY ZenonT(60), SameUsage DEF
       UsageStats!LogSessionStarted, UsageStats!NotBegun, UsageStats!Tick,
       Backend!LogSessionStarted, Backend!NotBegun, Backend!Tick
  <2>2. \A n : UsageStats!LogSessionEnded(n) => Backend!LogSessionEnded(n)
    BY ZenonT(60), SameUsage DEF
       UsageStats!LogSessionEnded, UsageStats!Tick, Backend!LogSessionEnded,
       Backend!Tick
  <2>3. \A c : UsageStats!LogClientConnected(c) => Backend!LogClientConnected(c)
    BY ZenonT(60), SameUsage DEF
       UsageStats!LogClientConnected, UsageStats!Tick, Backend!LogClientConnected,
       Backend!Tick
  <2>4. \A c, clean : UsageStats!LogClientDisconnected(c, clean) => Backend!LogClientDisconnected(c, clean)
    BY ZenonT(60), SameUsage DEF
       UsageStats!LogClientDisconnected, UsageStats!Tick, Backend!LogClientDisconnected,
       Backend!Tick
  <2>5. UsageStats!LogServerStarted => Backend!LogServerStarted
    BY ZenonT(60), SameUsage DEF
       UsageStats!LogServerStarted, UsageStats!Tick, Backend!LogServerStarted,
       Backend!Tick
  <2> QED
    BY Zenon, <2>1, <2>2, <2>3, <2>4, <2>5 DEF UsageStats!UsageNext, Backend!UsageNext
<1>3. [Next]_vars => [Backend!UsageNext]_(Backend!usageVars)
  BY Zenon, <1>2 DEF Next, BackendNext, vars, backendVars, usageVars, Backend!usageVars
<1>4. Backend!UsageSpec => []Backend!UsageIsTrue /\ []Backend!UsageTypeOK
  <2>1. Backend!UsageBounds
    BY ServicesAssumption DEF Backend!UsageBounds
  <2> QED BY <2>1, Backend!UsageAddsUp, Backend!UsageTypeCorrect, PTL
<1>5. Backend!UsageIsTrue => UsageIsTrue
  BY ZenonT(60) DEF
     UsageIsTrue, UsageStats!UsageIsTrue, UsageStats!NotKept, UsageStats!WithId,
     UsageStats!TotalDuration, UsageStats!FullTotalDuration, UsageStats!ToSet,
     UsageStats!Duration, UsageStats!SumFunction, UsageStats!SumFunctionOnSet,
     UsageStats!FoldFunctionOnSet, UsageStats!MapThenFoldSet, Backend!UsageIsTrue,
     Backend!NotKept, Backend!WithId, Backend!TotalDuration, Backend!FullTotalDuration,
     Backend!ToSet, Backend!Duration, Backend!SumFunction, Backend!SumFunctionOnSet,
     Backend!FoldFunctionOnSet, Backend!MapThenFoldSet
<1>6. Backend!UsageTypeOK => UsageStats!UsageTypeOK
  BY Zenon DEF
     UsageStats!UsageTypeOK, Backend!UsageTypeOK
<1> QED BY <1>1, <1>3, <1>4, <1>5, <1>6, PTL DEF Spec, Backend!UsageSpec

(***************************************************************************)
(* UsageStats and the two models analyze-usage-stats compares it with: a   *)
(* session counts once, and while nothing was evicted all three add up to  *)
(* the same.                                                               *)
(***************************************************************************)
THEOREM UsageAdded == Spec => []UsageIsTrue
BY UsageRuns, PTL

-----------------------------------------------------------------------------
(* A parent station and its baby station *)

LEMMA RecordingRuns == Spec => []Recording!ChunksAreDownloaded /\ []Recording!RecordingTypeOK
<1>1. Init => Frontend!RecordingInit
  BY Zenon DEF Init, FrontendInit, Recording!RecordingInit, Frontend!RecordingInit
<1>2. Recording!RecordingNext => Frontend!RecordingNext
  BY Zenon DEF
     Recording!RecordingNext, Recording!SessionChanges, Recording!TracksChange,
     Recording!StartRecording, Recording!StopRecording, Recording!HandleDataavailable,
     Recording!HandleStop, Recording!Reconsider, Recording!TrackState,
     Recording!CanTransitionToReady, Recording!Current, Frontend!RecordingNext,
     Frontend!SessionChanges, Frontend!TracksChange, Frontend!StartRecording,
     Frontend!StopRecording, Frontend!HandleDataavailable, Frontend!HandleStop,
     Frontend!Reconsider, Frontend!TrackState, Frontend!CanTransitionToReady,
     Frontend!Current
<1>3. [Next]_vars => [Frontend!RecordingNext]_(Frontend!recordingVars)
  BY Zenon, <1>2 DEF
     Next, FrontendNext, vars, frontendVars, recordingVars, Frontend!recordingVars
<1>4. Frontend!RecordingSpec => []Frontend!ChunksAreDownloaded
  BY ServicesAssumption, Frontend!NoChunkLost
<1>5. Frontend!ChunksAreDownloaded => Recording!ChunksAreDownloaded
  BY Zenon DEF
     Recording!ChunksAreDownloaded, Recording!CanTransitionToReady,
     Frontend!ChunksAreDownloaded, Frontend!CanTransitionToReady
<1>6. Frontend!RecordingSpec => []Frontend!RecordingTypeOK
  BY ServicesAssumption, Frontend!RecordingTypeCorrect
<1>7. Frontend!RecordingTypeOK => Recording!RecordingTypeOK
  BY Zenon DEF Recording!RecordingTypeOK, Frontend!RecordingTypeOK
<1> QED BY <1>1, <1>3, <1>4, <1>5, <1>6, <1>7, PTL DEF Spec, Frontend!RecordingSpec

LEMMA AnswerRuns == Spec => []Signalling!AnswerIsOwn /\ []Signalling!SignalTypeOK
<1>1. Init => Frontend!SignalInit
  BY Zenon DEF Init, FrontendInit, Signalling!SignalInit, Frontend!SignalInit
<1>2. Signalling!SignalNext => Frontend!SignalNext
  BY Zenon DEF
     Signalling!SignalNext, Signalling!Initiate, Signalling!Leave, Signalling!Offer,
     Signalling!ParentGathers, Signalling!ParentReceives, Signalling!AnswerAccepted,
     Signalling!BabyReceives, Signalling!Answer, Signalling!BabyGathers,
     Signalling!CloseConnections, Signalling!Lose, Signalling!NewConnection,
     Signalling!HasOpen, Signalling!Last, Signalling!Closed, Signalling!Description,
     Signalling!UpdateLast, Signalling!Candidate, Signalling!Gathered,
     Signalling!Gather, Signalling!CandidateReceived, Signalling!AnswerReceived,
     Signalling!DescriptionAccepted, Signalling!AcceptOffer, Frontend!SignalNext,
     Frontend!Initiate, Frontend!Leave, Frontend!Offer, Frontend!ParentGathers,
     Frontend!ParentReceives, Frontend!AnswerAccepted, Frontend!BabyReceives,
     Frontend!Answer, Frontend!BabyGathers, Frontend!CloseConnections, Frontend!Lose,
     Frontend!NewConnection, Frontend!HasOpen, Frontend!Last, Frontend!Closed,
     Frontend!Description, Frontend!UpdateLast, Frontend!Candidate, Frontend!Gathered,
     Frontend!Gather, Frontend!CandidateReceived, Frontend!AnswerReceived,
     Frontend!DescriptionAccepted, Frontend!AcceptOffer
<1>3. [Next]_vars => [Frontend!SignalNext]_(Frontend!signalVars)
  BY Zenon, <1>2 DEF
     Next, FrontendNext, vars, frontendVars, signalVars, Frontend!signalVars
<1>4. Frontend!SignalSpec => []Frontend!AnswerIsOwn
  BY ServicesAssumption, Frontend!AnswersAreOwn
<1>5. Frontend!AnswerIsOwn => Signalling!AnswerIsOwn
  BY Zenon DEF Signalling!AnswerIsOwn, Frontend!AnswerIsOwn
<1>6. Frontend!SignalSpec => []Frontend!SignalTypeOK
  BY ServicesAssumption, Frontend!SignalTypeCorrect
<1>7. Frontend!SignalTypeOK => Signalling!SignalTypeOK
  BY Zenon DEF
     Signalling!SignalTypeOK, Signalling!ConnectionOK, Frontend!SignalTypeOK,
     Frontend!ConnectionOK
<1> QED BY <1>1, <1>3, <1>4, <1>5, <1>6, <1>7, PTL DEF Spec, Frontend!SignalSpec

LEMMA CandidatesRun == Spec => []Signalling!CandidatesArrive
<1>1. Init => Frontend!SignalInit
  BY Zenon DEF Init, FrontendInit, Signalling!SignalInit, Frontend!SignalInit
<1>2. Signalling!SignalNext => Frontend!SignalNext
  BY Zenon DEF
     Signalling!SignalNext, Signalling!Initiate, Signalling!Leave, Signalling!Offer,
     Signalling!ParentGathers, Signalling!ParentReceives, Signalling!AnswerAccepted,
     Signalling!BabyReceives, Signalling!Answer, Signalling!BabyGathers,
     Signalling!CloseConnections, Signalling!Lose, Signalling!NewConnection,
     Signalling!HasOpen, Signalling!Last, Signalling!Closed, Signalling!Description,
     Signalling!UpdateLast, Signalling!Candidate, Signalling!Gathered,
     Signalling!Gather, Signalling!CandidateReceived, Signalling!AnswerReceived,
     Signalling!DescriptionAccepted, Signalling!AcceptOffer, Frontend!SignalNext,
     Frontend!Initiate, Frontend!Leave, Frontend!Offer, Frontend!ParentGathers,
     Frontend!ParentReceives, Frontend!AnswerAccepted, Frontend!BabyReceives,
     Frontend!Answer, Frontend!BabyGathers, Frontend!CloseConnections, Frontend!Lose,
     Frontend!NewConnection, Frontend!HasOpen, Frontend!Last, Frontend!Closed,
     Frontend!Description, Frontend!UpdateLast, Frontend!Candidate, Frontend!Gathered,
     Frontend!Gather, Frontend!CandidateReceived, Frontend!AnswerReceived,
     Frontend!DescriptionAccepted, Frontend!AcceptOffer
<1>3. [Next]_vars => [Frontend!SignalNext]_(Frontend!signalVars)
  BY Zenon, <1>2 DEF
     Next, FrontendNext, vars, frontendVars, signalVars, Frontend!signalVars
<1>4. Frontend!SignalSpec => []Frontend!CandidatesArrive
  BY ServicesAssumption, Frontend!CandidatesArrived
<1>5. Frontend!CandidatesArrive => Signalling!CandidatesArrive
  BY Zenon DEF
     Signalling!CandidatesArrive, Signalling!Last, Signalling!Settled,
     Signalling!HasOpen, Frontend!CandidatesArrive, Frontend!Last, Frontend!Settled,
     Frontend!HasOpen
<1> QED BY <1>1, <1>3, <1>4, <1>5, PTL DEF Spec, Frontend!SignalSpec

(***************************************************************************)
(* RecordingService: every chunk a recorder handed over is downloaded when *)
(* the recording ends.                                                     *)
(***************************************************************************)
THEOREM ChunksDownloaded == Spec => []ChunksAreDownloaded
BY RecordingRuns, PTL DEF ChunksAreDownloaded

(***************************************************************************)
(* RTCConnection and Connection: the answer a parent takes is the answer   *)
(* to its own offer, and the two ends have each other's candidates, unless *)
(* a signal was lost or an exchange was crossed by the next one.           *)
(***************************************************************************)
THEOREM PeersAgreed == Spec => []PeersAgree
BY AnswerRuns, CandidatesRun, PTL DEF PeersAgree

-----------------------------------------------------------------------------
(* The tabs of a browser, and its camera *)

LEMMA AuthorizationRuns == Spec => SignedOutForReason /\ []Authorization!AuthorizationTypeOK
<1>1. Init => Frontend!AuthorizationInit
  BY Zenon DEF
     Init, BackendInit, Authorization!AuthorizationInit, Authorization!NoRequest,
     Frontend!AuthorizationInit, Frontend!NoRequest
<1>2. Authorization!AuthorizationNext => Frontend!AuthorizationNext
  BY Zenon DEF
     Authorization!AuthorizationNext, Authorization!LoadPage, Authorization!Login,
     Authorization!LoginFails, Authorization!RefreshTokenIfNeeded,
     Authorization!LoseRequest, Authorization!Retry, Authorization!Answered,
     Authorization!GetTokenUsingRefreshTokenGrant, Authorization!RestartBackend,
     Authorization!Projected, Authorization!NoRequest, Authorization!Shared,
     Authorization!SendRequest, Authorization!Abandon, Authorization!PasswordGrant,
     Authorization!backendVars, Authorization!InFlight, Authorization!Granted,
     Frontend!AuthorizationNext, Frontend!LoadPage, Frontend!Login, Frontend!LoginFails,
     Frontend!RefreshTokenIfNeeded, Frontend!LoseRequest, Frontend!Retry,
     Frontend!Answered, Frontend!GetTokenUsingRefreshTokenGrant,
     Frontend!RestartBackend, Frontend!Projected, Frontend!NoRequest, Frontend!Shared,
     Frontend!SendRequest, Frontend!Abandon, Frontend!PasswordGrant,
     Frontend!backendVars, Frontend!InFlight, Frontend!Granted
<1>3. [Next]_vars => [Frontend!AuthorizationNext]_(Frontend!authorizationVars)
  BY Zenon, <1>2 DEF
     Next, BackendNext, vars, backendVars, authorizationVars, Frontend!authorizationVars,
     Frontend!backendVars
<1>4. Frontend!AuthorizationSpec => Frontend!SignedOutForReason
  BY ServicesAssumption, Frontend!OnlyForReason
<1>5. ASSUME [\A t \in {t1, t2} : tab[t] \in Frontend!Refreshing /\ tab'[t] = "Unauthorized" =>
                reasons' # {}]_(Frontend!authorizationVars)
      PROVE  [\A t \in {t1, t2} : tab[t] \in Authorization!Refreshing /\ tab'[t] = "Unauthorized"
                => reasons' # {}]_(Authorization!authorizationVars)
  BY Zenon, <1>5 DEF
     Frontend!Refreshing, Authorization!Refreshing, Frontend!authorizationVars,
     Frontend!backendVars, Authorization!authorizationVars, Authorization!backendVars
<1>6. Frontend!AuthorizationSpec => []Frontend!AuthorizationTypeOK
  BY ServicesAssumption, Frontend!AuthorizationTypeCorrect
<1>7. Frontend!AuthorizationTypeOK => Authorization!AuthorizationTypeOK
  BY Zenon DEF
     Authorization!AuthorizationTypeOK, Authorization!Refreshing,
     Frontend!AuthorizationTypeOK, Frontend!Refreshing
<1> QED
  BY <1>1, <1>3, <1>4, <1>5, <1>6, <1>7, PTL DEF
     Spec, Frontend!AuthorizationSpec, Frontend!SignedOutForReason, SignedOutForReason,
     Authorization!SignedOutForReason

(***************************************************************************)
(* AuthorizationService and the refresh token grant: a refresh signs a tab *)
(* out for one of three reasons only: a token that two tabs sent, a token  *)
(* that was taken and its answer lost, or an account that the restarted    *)
(* backend did not know yet.                                               *)
(***************************************************************************)
THEOREM OnlySignedOutForReason == Spec => SignedOutForReason
BY AuthorizationRuns, PTL

\* A step of either camera is one of the cameras that the proofs are about,
\* whose frames and bounds cover both.
LEMMA CameraSteps ==
  ASSUME identifier \in Nat, frames \in Nat, OneCamera!ZoomNext \/ TwoCameras!ZoomNext
  PROVE  Frontend!ZoomNext
<1>1. (identifier < 1 => identifier < 2) /\ (frames < 1 => frames < 2)
  OBVIOUS
<1>2. \A x : x \in {12} => x \in {12, 24}
  OBVIOUS
<1>3. OneCamera!ZoomNext => Frontend!ZoomNext
  <2>1. \A n : OneCamera!HandleTouches(n) => Frontend!HandleTouches(n)
    BY Zenon, <1>1 DEF OneCamera!HandleTouches, Frontend!HandleTouches
  <2>2. OneCamera!TouchStart \/ OneCamera!TouchEnd => Frontend!TouchStart \/ Frontend!TouchEnd
    BY Zenon, <2>1 DEF
       OneCamera!TouchStart, OneCamera!TouchEnd, OneCamera!Unrendered,
       Frontend!TouchStart, Frontend!TouchEnd, Frontend!Unrendered
  <2>3. OneCamera!GetStream => Frontend!GetStream
    BY Zenon, <1>1, <1>2 DEF OneCamera!GetStream, Frontend!GetStream
  <2> QED
    BY Zenon, <2>2, <2>3 DEF
       OneCamera!ZoomNext, Frontend!ZoomNext, OneCamera!TouchCancel,
       OneCamera!TouchElsewhere, OneCamera!Pan, OneCamera!Zoom, OneCamera!LoseStream,
       OneCamera!LoadMetadata, OneCamera!Rerender, OneCamera!Unrendered,
       OneCamera!HandlePan, OneCamera!HandleZoom, OneCamera!NoView, OneCamera!Reset,
       OneCamera!Viewport, OneCamera!ClampOffset, OneCamera!SetScale, OneCamera!NewView,
       OneCamera!One, OneCamera!MaxScale, Frontend!TouchCancel, Frontend!TouchElsewhere,
       Frontend!Pan, Frontend!Zoom, Frontend!LoseStream, Frontend!LoadMetadata,
       Frontend!Rerender, Frontend!Unrendered, Frontend!HandlePan, Frontend!HandleZoom,
       Frontend!NoView, Frontend!Reset, Frontend!Viewport, Frontend!ClampOffset,
       Frontend!SetScale, Frontend!NewView, Frontend!One, Frontend!MaxScale
<1>4. TwoCameras!ZoomNext => Frontend!ZoomNext
  <2>1. \A n : TwoCameras!HandleTouches(n) => Frontend!HandleTouches(n)
    BY Zenon, <1>1 DEF TwoCameras!HandleTouches, Frontend!HandleTouches
  <2>2. TwoCameras!TouchStart \/ TwoCameras!TouchEnd => Frontend!TouchStart \/ Frontend!TouchEnd
    BY Zenon, <2>1 DEF
       TwoCameras!TouchStart, TwoCameras!TouchEnd, TwoCameras!Unrendered,
       Frontend!TouchStart, Frontend!TouchEnd, Frontend!Unrendered
  <2>3. TwoCameras!GetStream => Frontend!GetStream
    BY Zenon, <1>1, <1>2 DEF TwoCameras!GetStream, Frontend!GetStream
  <2> QED
    BY Zenon, <2>2, <2>3 DEF
       TwoCameras!ZoomNext, Frontend!ZoomNext, TwoCameras!TouchCancel,
       TwoCameras!TouchElsewhere, TwoCameras!Pan, TwoCameras!Zoom,
       TwoCameras!LoseStream, TwoCameras!LoadMetadata, TwoCameras!Rerender,
       TwoCameras!Unrendered, TwoCameras!HandlePan, TwoCameras!HandleZoom,
       TwoCameras!NoView, TwoCameras!Reset, TwoCameras!Viewport, TwoCameras!ClampOffset,
       TwoCameras!SetScale, TwoCameras!NewView, TwoCameras!One, TwoCameras!MaxScale,
       Frontend!TouchCancel, Frontend!TouchElsewhere, Frontend!Pan, Frontend!Zoom,
       Frontend!LoseStream, Frontend!LoadMetadata, Frontend!Rerender,
       Frontend!Unrendered, Frontend!HandlePan, Frontend!HandleZoom, Frontend!NoView,
       Frontend!Reset, Frontend!Viewport, Frontend!ClampOffset, Frontend!SetScale,
       Frontend!NewView, Frontend!One, Frontend!MaxScale
<1> QED BY <1>3, <1>4

LEMMA ZoomRuns == Spec => []ViewIsInFrame /\ []Frontend!ZoomInv
<1>1. Init => Frontend!ZoomInit
  BY Zenon DEF
     Init, FrontendInit, OneCamera!ZoomInit, OneCamera!NoView, OneCamera!Viewport,
     OneCamera!NewView, OneCamera!One, Frontend!ZoomInit, Frontend!NoView,
     Frontend!Viewport, Frontend!NewView, Frontend!One
<1>2. Frontend!FramesAreDozens
  <2>1. 12 = 12 * 1 /\ 24 = 12 * 2
    OBVIOUS
  <2> QED BY <2>1 DEF Frontend!FramesAreDozens, Frontend!Dozens
<1>3. Frontend!ZoomInv /\ [Next]_vars => [Frontend!ZoomNext]_(Frontend!zoomVars)
  <2> SUFFICES ASSUME Frontend!ZoomInv, [Next]_vars PROVE [Frontend!ZoomNext]_(Frontend!zoomVars)
    OBVIOUS
  <2>1. \/ OneCamera!ZoomNext \/ TwoCameras!ZoomNext \/ UNCHANGED zoomVars
    <3>1. CASE Next
      <4>1. CASE Is("one camera")
        BY <3>1, <4>1 DEF Next, FrontendNext, Is
      <4>2. CASE Is("two cameras")
        BY <3>1, <4>2 DEF Next, FrontendNext, Is
      <4>3. CASE ~Is("one camera") /\ ~Is("two cameras")
        BY Zenon, <3>1, <4>3 DEF Next, FrontendNext
      <4> QED BY <4>1, <4>2, <4>3
    <3>2. CASE UNCHANGED vars
      BY Zenon, <3>2 DEF vars, frontendVars
    <3> QED BY <3>1, <3>2
  <2>2. UNCHANGED zoomVars => UNCHANGED Frontend!zoomVars
    BY Zenon DEF zoomVars, Frontend!zoomVars
  <2>3. identifier \in Nat /\ frames \in Nat
    BY DEF Frontend!ZoomInv, Frontend!PageInv
  <2> QED BY <2>1, <2>2, <2>3, CameraSteps
<1>4. Frontend!ZoomInv /\ [Frontend!ZoomNext]_(Frontend!zoomVars) => Frontend!ZoomInv'
  BY <1>2, Frontend!ZoomStep
<1>5. Frontend!ZoomInv => ViewIsInFrame
  <2>1. Frontend!ZoomInv => Frontend!ViewIsInFrame
    BY Frontend!ZoomInvSuffices
  <2> QED
    BY Zenon, <2>1 DEF
       ViewIsInFrame, OneCamera!ViewIsInFrame, OneCamera!One, OneCamera!MaxScale,
       Frontend!ViewIsInFrame, Frontend!One, Frontend!MaxScale
<1>6. Init => Frontend!ZoomInv
  BY <1>1, Frontend!ZoomStart
<1> QED BY <1>3, <1>4, <1>5, <1>6, PTL DEF Spec

(***************************************************************************)
(* ViewportService: the viewport lies within the frame, and a scale above  *)
(* 1.0 is the scale that is shown, with one camera or two.                 *)
(***************************************************************************)
THEOREM ViewInFrame == Spec => []ViewIsInFrame
BY ZoomRuns, PTL

-----------------------------------------------------------------------------
(* The baby stations and their parent: one of them, or two *)

LEMMA OneKept ==
  /\ Init /\ ~Is("two babies") => Delivery!StationsInv
  /\ Delivery!StationsInv /\ ~Is("two babies") /\ [Next]_vars => Delivery!StationsInv' /\ (~Is("two babies"))'
<1>1. Delivery!NoneIsNobody /\ 1 \in Nat
  BY ServicesAssumption DEF Delivery!NoneIsNobody
<1>2. OneBaby!StationsInit => Delivery!StationsInit
  BY Zenon DEF
     OneBaby!StationsInit, OneBaby!NotJoined, Delivery!StationsInit, Delivery!NotJoined
<1>3. OneBaby!StationsNext => Delivery!StationsNext
  BY Zenon DEF
     OneBaby!StationsNext, OneBaby!StartSession, OneBaby!BabyConnected,
     OneBaby!EndSession, OneBaby!BabyReceives, OneBaby!BabyDrops, OneBaby!Will,
     OneBaby!Start, OneBaby!Stop, OneBaby!ParentConnected, OneBaby!ParentDrops,
     OneBaby!ParentReceives, OneBaby!HandleVisibilitychange, OneBaby!TimePasses,
     OneBaby!PickSession, OneBaby!PickNone, OneBaby!ConnectionStateChanges,
     OneBaby!parentVars, OneBaby!SendToParent, OneBaby!Announcement,
     OneBaby!Disconnected, OneBaby!babyVars, OneBaby!ReconnectIfNeeded,
     OneBaby!RestoreIfNeeded, OneBaby!ReceiveAnnouncement, OneBaby!ReceiveDisconnected,
     OneBaby!AutoConnect, OneBaby!Becomes, OneBaby!NotJoined, OneBaby!JoinSession,
     OneBaby!LeaveSession, OneBaby!NextRtc, OneBaby!Exists, OneBaby!PreviousState,
     OneBaby!ListChanged, OneBaby!Joinable, OneBaby!LeaveReplaced,
     Delivery!StationsNext, Delivery!StartSession, Delivery!BabyConnected,
     Delivery!EndSession, Delivery!BabyReceives, Delivery!BabyDrops, Delivery!Will,
     Delivery!Start, Delivery!Stop, Delivery!ParentConnected, Delivery!ParentDrops,
     Delivery!ParentReceives, Delivery!HandleVisibilitychange, Delivery!TimePasses,
     Delivery!PickSession, Delivery!PickNone, Delivery!ConnectionStateChanges,
     Delivery!parentVars, Delivery!SendToParent, Delivery!Announcement,
     Delivery!Disconnected, Delivery!babyVars, Delivery!ReconnectIfNeeded,
     Delivery!RestoreIfNeeded, Delivery!ReceiveAnnouncement,
     Delivery!ReceiveDisconnected, Delivery!AutoConnect, Delivery!Becomes,
     Delivery!NotJoined, Delivery!JoinSession, Delivery!LeaveSession, Delivery!NextRtc,
     Delivery!Exists, Delivery!PreviousState, Delivery!ListChanged, Delivery!Joinable,
     Delivery!LeaveReplaced
<1>4. (~Is("two babies")) /\ [Next]_vars => [OneBaby!StationsNext]_stationVars
  BY DEF Next, FrontendNext, Is, vars, frontendVars
<1>5. UNCHANGED stationVars => UNCHANGED Delivery!stationVars
  BY Zenon DEF stationVars, Delivery!stationVars, Delivery!babyVars, Delivery!parentVars
<1>6. Init /\ ~Is("two babies") => OneBaby!StationsInit
  BY Zenon DEF Init, FrontendInit
<1>7. Delivery!StationsInit => Delivery!StationsInv
  BY <1>1, Delivery!StationsInitInv
<1>8. Delivery!StationsInv /\ [Delivery!StationsNext]_(Delivery!stationVars) => Delivery!StationsInv'
  BY <1>1, Delivery!StationsKept
<1>9. (~Is("two babies")) /\ [Next]_vars => (~Is("two babies"))'
  BY Zenon DEF Next, Is, vars
<1> QED BY <1>2, <1>3, <1>4, <1>5, <1>6, <1>7, <1>8, <1>9

LEMMA TwoKept ==
  /\ Init /\ Is("two babies") => TwoFollowed!StationsInv
  /\ TwoFollowed!StationsInv /\ Is("two babies") /\ [Next]_vars => TwoFollowed!StationsInv' /\ (Is("two babies"))'
<1>1. TwoFollowed!NoneIsNobody /\ 0 \in Nat
  BY ServicesAssumption DEF TwoFollowed!NoneIsNobody
<1>2. TwoBabies!StationsInit => TwoFollowed!StationsInit
  BY Zenon DEF
     TwoBabies!StationsInit, TwoBabies!NotJoined, TwoFollowed!StationsInit,
     TwoFollowed!NotJoined
<1>3. TwoBabies!StationsNext => TwoFollowed!StationsNext
  BY Zenon DEF
     TwoBabies!StationsNext, TwoBabies!StartSession, TwoBabies!BabyConnected,
     TwoBabies!EndSession, TwoBabies!BabyReceives, TwoBabies!BabyDrops, TwoBabies!Will,
     TwoBabies!Start, TwoBabies!Stop, TwoBabies!ParentConnected, TwoBabies!ParentDrops,
     TwoBabies!ParentReceives, TwoBabies!HandleVisibilitychange, TwoBabies!TimePasses,
     TwoBabies!PickSession, TwoBabies!PickNone, TwoBabies!ConnectionStateChanges,
     TwoBabies!parentVars, TwoBabies!SendToParent, TwoBabies!Announcement,
     TwoBabies!Disconnected, TwoBabies!babyVars, TwoBabies!ReconnectIfNeeded,
     TwoBabies!RestoreIfNeeded, TwoBabies!ReceiveAnnouncement,
     TwoBabies!ReceiveDisconnected, TwoBabies!AutoConnect, TwoBabies!Becomes,
     TwoBabies!NotJoined, TwoBabies!JoinSession, TwoBabies!LeaveSession,
     TwoBabies!NextRtc, TwoBabies!Exists, TwoBabies!PreviousState,
     TwoBabies!ListChanged, TwoBabies!Joinable, TwoBabies!LeaveReplaced,
     TwoFollowed!StationsNext, TwoFollowed!StartSession, TwoFollowed!BabyConnected,
     TwoFollowed!EndSession, TwoFollowed!BabyReceives, TwoFollowed!BabyDrops,
     TwoFollowed!Will, TwoFollowed!Start, TwoFollowed!Stop, TwoFollowed!ParentConnected,
     TwoFollowed!ParentDrops, TwoFollowed!ParentReceives,
     TwoFollowed!HandleVisibilitychange, TwoFollowed!TimePasses,
     TwoFollowed!PickSession, TwoFollowed!PickNone, TwoFollowed!ConnectionStateChanges,
     TwoFollowed!parentVars, TwoFollowed!SendToParent, TwoFollowed!Announcement,
     TwoFollowed!Disconnected, TwoFollowed!babyVars, TwoFollowed!ReconnectIfNeeded,
     TwoFollowed!RestoreIfNeeded, TwoFollowed!ReceiveAnnouncement,
     TwoFollowed!ReceiveDisconnected, TwoFollowed!AutoConnect, TwoFollowed!Becomes,
     TwoFollowed!NotJoined, TwoFollowed!JoinSession, TwoFollowed!LeaveSession,
     TwoFollowed!NextRtc, TwoFollowed!Exists, TwoFollowed!PreviousState,
     TwoFollowed!ListChanged, TwoFollowed!Joinable, TwoFollowed!LeaveReplaced
<1>4. (Is("two babies")) /\ [Next]_vars => [TwoBabies!StationsNext]_stationVars
  BY DEF Next, FrontendNext, Is, vars, frontendVars
<1>5. UNCHANGED stationVars => UNCHANGED TwoFollowed!stationVars
  BY Zenon DEF stationVars, TwoFollowed!stationVars, TwoFollowed!babyVars, TwoFollowed!parentVars
<1>6. Init /\ Is("two babies") => TwoBabies!StationsInit
  BY Zenon DEF Init, FrontendInit
<1>7. TwoFollowed!StationsInit => TwoFollowed!StationsInv
  BY <1>1, TwoFollowed!StationsInitInv
<1>8. TwoFollowed!StationsInv /\ [TwoFollowed!StationsNext]_(TwoFollowed!stationVars) => TwoFollowed!StationsInv'
  BY <1>1, TwoFollowed!StationsKept
<1>9. (Is("two babies")) /\ [Next]_vars => (Is("two babies"))'
  BY Zenon DEF Next, Is, vars
<1> QED BY <1>2, <1>3, <1>4, <1>5, <1>6, <1>7, <1>8, <1>9

\* What the stations keep, with one baby station or two.
StationsKeep == IF Is("two babies") THEN TwoFollowed!StationsInv ELSE Delivery!StationsInv

LEMMA StationsRun == Spec => []StationsKeep
<1>1. Init => StationsKeep
  BY OneKept, TwoKept DEF StationsKeep
<1>2. StationsKeep /\ [Next]_vars => StationsKeep'
  BY OneKept, TwoKept DEF StationsKeep
<1> QED BY <1>1, <1>2, PTL DEF Spec

(***************************************************************************)
(* BabyStationListService: at rest the parent's list is true of its baby   *)
(* stations, one of them or two, but for a station that was back before    *)
(* the will of its last link came, and has not announced itself since.     *)
(***************************************************************************)
THEOREM ListIsTrueOfBabies == Spec => []ListIsTrue
<1>1. Delivery!StationsInv => Delivery!ListIsTrue
  BY Delivery!StationsInvList
<1>2. TwoFollowed!StationsInv => TwoFollowed!ListIsTrue
  BY TwoFollowed!StationsInvList
<1>3. StationsKeep => ListIsTrue
  BY Zenon, <1>1, <1>2 DEF
     StationsKeep, ListIsTrue, OneBaby!ListIsTrue, OneBaby!Quiet, TwoBabies!ListIsTrue,
     TwoBabies!Quiet, Delivery!ListIsTrue, Delivery!Quiet, TwoFollowed!ListIsTrue,
     TwoFollowed!Quiet
<1> QED BY <1>3, StationsRun, PTL

(***************************************************************************)
(* ParentStation: a failed connection is retried by whatever makes the     *)
(* retry possible, with one baby station or two.                           *)
(***************************************************************************)
THEOREM FailedRetried == Spec => []FailedIsRetried
<1>1. Delivery!StationsInv => Delivery!FailedIsRetried
  BY Delivery!StationsInvRetries
<1>2. TwoFollowed!StationsInv => TwoFollowed!FailedIsRetried
  BY TwoFollowed!StationsInvRetries
<1>3. StationsKeep => FailedIsRetried
  BY Zenon, <1>1, <1>2 DEF
     StationsKeep, FailedIsRetried, OneBaby!FailedIsRetried, OneBaby!Exists,
     OneBaby!NotJoined, TwoBabies!FailedIsRetried, TwoBabies!Exists,
     TwoBabies!NotJoined, Delivery!FailedIsRetried, Delivery!Exists, Delivery!NotJoined,
     TwoFollowed!FailedIsRetried, TwoFollowed!Exists, TwoFollowed!NotJoined
<1> QED BY <1>3, StationsRun, PTL

-----------------------------------------------------------------------------
(* The tabs of a browser and the authorizer: one tab, or two of two accounts *)

LEMMA OneTabKept ==
  /\ Init /\ ~Is("two tabs") => Resources!AccessInv
  /\ Resources!AccessInv /\ ~Is("two tabs") /\ [Next]_vars => Resources!AccessInv' /\ (~Is("two tabs"))'
<1>1. Resources!AccessBounds
  BY ServicesAssumption DEF Resources!AccessBounds, Resources!Missing
<1>2. OneTab!AccessInit => Resources!AccessInit
  BY Zenon DEF
     OneTab!AccessInit, OneTab!Missing, OneTab!Tokens, Resources!AccessInit,
     Resources!Missing, Resources!Tokens
<1>3. OneTab!AccessNext => Resources!AccessNext
  BY Zenon DEF
     OneTab!AccessNext, OneTab!Operations, OneTab!AnonymousToken,
     OneTab!CheckAnonymousAuthorization, OneTab!ExpireToken, OneTab!Login,
     OneTab!Refresh, OneTab!AuthorizationMiddleware, OneTab!Authorize, OneTab!LinkEnds,
     OneTab!RestartBackend, OneTab!tabVars, OneTab!ScopeAsked,
     OneTab!AllowedAnonymousScope, OneTab!AnonymousClaims, OneTab!Bounded, OneTab!Issue,
     OneTab!ScopeExpected, OneTab!Claims, OneTab!Explained, OneTab!If, OneTab!Expired,
     OneTab!Missing, OneTab!AccessClaims, OneTab!NextToken, OneTab!NotAUser,
     OneTab!OfType, OneTab!Cardinality, Resources!AccessNext, Resources!Operations,
     Resources!AnonymousToken, Resources!CheckAnonymousAuthorization,
     Resources!ExpireToken, Resources!Login, Resources!Refresh,
     Resources!AuthorizationMiddleware, Resources!Authorize, Resources!LinkEnds,
     Resources!RestartBackend, Resources!tabVars, Resources!ScopeAsked,
     Resources!AllowedAnonymousScope, Resources!AnonymousClaims, Resources!Bounded,
     Resources!Issue, Resources!ScopeExpected, Resources!Claims, Resources!Explained,
     Resources!If, Resources!Expired, Resources!Missing, Resources!AccessClaims,
     Resources!NextToken, Resources!NotAUser, Resources!OfType, Resources!Cardinality
<1>4. (~Is("two tabs")) /\ [Next]_vars => OneTab!AccessNext \/ UNCHANGED accessVars
  BY DEF Next, BackendNext, Is, vars, backendVars, accessVars
<1>5. UNCHANGED accessVars => UNCHANGED Resources!accessVars
  BY Zenon DEF accessVars, Resources!accessVars, Resources!tabVars
<1>6. Init /\ ~Is("two tabs") => OneTab!AccessInit
  BY Zenon DEF Init, BackendInit
<1>7. Resources!AccessInit => Resources!AccessInv
  BY <1>1, Resources!AccessStarts
<1>8. Resources!AccessInv /\ [Resources!AccessNext]_(Resources!accessVars) => Resources!AccessInv'
  BY <1>1, Resources!AccessKept
<1>9. (~Is("two tabs")) /\ [Next]_vars => (~Is("two tabs"))'
  BY Zenon DEF Next, Is, vars
<1> QED BY <1>2, <1>3, <1>4, <1>5, <1>6, <1>7, <1>8, <1>9

LEMMA TwoTabsKept ==
  /\ Init /\ Is("two tabs") => TwoTabbed!AccessInv
  /\ TwoTabbed!AccessInv /\ Is("two tabs") /\ [Next]_vars => TwoTabbed!AccessInv' /\ (Is("two tabs"))'
<1>1. TwoTabbed!AccessBounds
  BY ServicesAssumption DEF TwoTabbed!AccessBounds, TwoTabbed!Missing
<1>2. TwoTabs!AccessInit => TwoTabbed!AccessInit
  BY Zenon DEF
     TwoTabs!AccessInit, TwoTabs!Missing, TwoTabs!Tokens, TwoTabbed!AccessInit,
     TwoTabbed!Missing, TwoTabbed!Tokens
<1>3. TwoTabs!AccessNext => TwoTabbed!AccessNext
  BY Zenon DEF
     TwoTabs!AccessNext, TwoTabs!Operations, TwoTabs!AnonymousToken,
     TwoTabs!CheckAnonymousAuthorization, TwoTabs!ExpireToken, TwoTabs!Login,
     TwoTabs!Refresh, TwoTabs!AuthorizationMiddleware, TwoTabs!Authorize,
     TwoTabs!LinkEnds, TwoTabs!RestartBackend, TwoTabs!tabVars, TwoTabs!ScopeAsked,
     TwoTabs!AllowedAnonymousScope, TwoTabs!AnonymousClaims, TwoTabs!Bounded,
     TwoTabs!Issue, TwoTabs!ScopeExpected, TwoTabs!Claims, TwoTabs!Explained,
     TwoTabs!If, TwoTabs!Expired, TwoTabs!Missing, TwoTabs!AccessClaims,
     TwoTabs!NextToken, TwoTabs!NotAUser, TwoTabs!OfType, TwoTabs!Cardinality,
     TwoTabbed!AccessNext, TwoTabbed!Operations, TwoTabbed!AnonymousToken,
     TwoTabbed!CheckAnonymousAuthorization, TwoTabbed!ExpireToken, TwoTabbed!Login,
     TwoTabbed!Refresh, TwoTabbed!AuthorizationMiddleware, TwoTabbed!Authorize,
     TwoTabbed!LinkEnds, TwoTabbed!RestartBackend, TwoTabbed!tabVars,
     TwoTabbed!ScopeAsked, TwoTabbed!AllowedAnonymousScope, TwoTabbed!AnonymousClaims,
     TwoTabbed!Bounded, TwoTabbed!Issue, TwoTabbed!ScopeExpected, TwoTabbed!Claims,
     TwoTabbed!Explained, TwoTabbed!If, TwoTabbed!Expired, TwoTabbed!Missing,
     TwoTabbed!AccessClaims, TwoTabbed!NextToken, TwoTabbed!NotAUser, TwoTabbed!OfType,
     TwoTabbed!Cardinality
<1>4. (Is("two tabs")) /\ [Next]_vars => TwoTabs!AccessNext \/ UNCHANGED accessVars
  BY DEF Next, BackendNext, Is, vars, backendVars, accessVars
<1>5. UNCHANGED accessVars => UNCHANGED TwoTabbed!accessVars
  BY Zenon DEF accessVars, TwoTabbed!accessVars, TwoTabbed!tabVars
<1>6. Init /\ Is("two tabs") => TwoTabs!AccessInit
  BY Zenon DEF Init, BackendInit
<1>7. TwoTabbed!AccessInit => TwoTabbed!AccessInv
  BY <1>1, TwoTabbed!AccessStarts
<1>8. TwoTabbed!AccessInv /\ [TwoTabbed!AccessNext]_(TwoTabbed!accessVars) => TwoTabbed!AccessInv'
  BY <1>1, TwoTabbed!AccessKept
<1>9. (Is("two tabs")) /\ [Next]_vars => (Is("two tabs"))'
  BY Zenon DEF Next, Is, vars
<1> QED BY <1>2, <1>3, <1>4, <1>5, <1>6, <1>7, <1>8, <1>9

\* What the tabs keep, one of them or two.
TabsKeep == IF Is("two tabs") THEN TwoTabbed!AccessInv ELSE Resources!AccessInv

LEMMA TabsRun == Spec => []TabsKeep
<1>1. Init => TabsKeep
  BY OneTabKept, TwoTabsKept DEF TabsKeep
<1>2. TabsKeep /\ [Next]_vars => TabsKeep'
  BY OneTabKept, TwoTabsKept DEF TabsKeep
<1> QED BY <1>1, <1>2, PTL DEF Spec

(***************************************************************************)
(* The tokens and the authorizer: a token lets one request through, what   *)
(* the frontend does well is never refused, and a linked tab may do what   *)
(* its services do and not what is another's.                              *)
(***************************************************************************)
THEOREM AccessAgreed == Spec => []AccessIsTrue
<1>1. Resources!AccessBounds /\ TwoTabbed!AccessBounds
  BY ServicesAssumption DEF
     Resources!AccessBounds, Resources!Missing, TwoTabbed!AccessBounds, TwoTabbed!Missing
<1>2. Resources!AccessInv => Resources!AccessIsTrue
  BY <1>1, Resources!AccessInvTrue
<1>3. TwoTabbed!AccessInv => TwoTabbed!AccessIsTrue
  BY <1>1, TwoTabbed!AccessInvTrue
<1>4. TabsKeep => AccessIsTrue
  BY Zenon, <1>2, <1>3 DEF
     TabsKeep, AccessIsTrue, OneTab!AccessIsTrue, OneTab!TokensAreTrue,
     OneTab!PolicyFits, OneTab!Claims, OneTab!In, OneTab!Of, OneTab!May,
     OneTab!Subscribed, OneTab!Published, OneTab!Matches, OneTab!Granted,
     OneTab!Stations, OneTab!Policy, TwoTabs!AccessIsTrue, TwoTabs!TokensAreTrue,
     TwoTabs!PolicyFits, TwoTabs!Claims, TwoTabs!In, TwoTabs!Of, TwoTabs!May,
     TwoTabs!Subscribed, TwoTabs!Published, TwoTabs!Matches, TwoTabs!Granted,
     TwoTabs!Stations, TwoTabs!Policy, Resources!AccessIsTrue, Resources!TokensAreTrue,
     Resources!PolicyFits, Resources!Claims, Resources!In, Resources!Of, Resources!May,
     Resources!Subscribed, Resources!Published, Resources!Matches, Resources!Granted,
     Resources!Stations, Resources!Policy, TwoTabbed!AccessIsTrue,
     TwoTabbed!TokensAreTrue, TwoTabbed!PolicyFits, TwoTabbed!Claims, TwoTabbed!In,
     TwoTabbed!Of, TwoTabbed!May, TwoTabbed!Subscribed, TwoTabbed!Published,
     TwoTabbed!Matches, TwoTabbed!Granted, TwoTabbed!Stations, TwoTabbed!Policy
<1> QED BY <1>4, TabsRun, PTL

-----------------------------------------------------------------------------
(* The types of them all *)

\* What the bounds of one camera, or of two, add to the zoom's own types.
CameraBounds ==
  IF Is("two cameras") THEN identifier \in 0..1
  ELSE frames \in 0..1 /\ frame \in {0, 12}

\* Pinches with two cameras, and streams with one.
LEMMA PinchesOfTwo ==
  TwoCameras!ZoomNext => identifier' = identifier \/ (identifier < 1 /\ identifier' = identifier + 1)
<1>1. \A n : TwoCameras!HandleTouches(n) =>
              identifier' = identifier \/ (identifier < 1 /\ identifier' = identifier + 1)
  BY DEF TwoCameras!HandleTouches
<1> QED
  BY Zenon, <1>1 DEF
     TwoCameras!ZoomNext, TwoCameras!TouchStart, TwoCameras!TouchEnd,
     TwoCameras!TouchCancel, TwoCameras!TouchElsewhere, TwoCameras!Pan, TwoCameras!Zoom,
     TwoCameras!LoseStream, TwoCameras!GetStream, TwoCameras!LoadMetadata,
     TwoCameras!Rerender

LEMMA StreamsOfOne ==
  OneCamera!ZoomNext =>
    \/ frames' = frames /\ frame' \in {0, frame}
    \/ frames < 1 /\ frames' = frames + 1 /\ frame' \in {12}
<1>1. OneCamera!Unrendered => frames' = frames /\ frame' \in {0, frame}
  BY Zenon DEF OneCamera!Unrendered
<1> QED
  BY Zenon, <1>1 DEF
     OneCamera!ZoomNext, OneCamera!TouchStart, OneCamera!TouchEnd,
     OneCamera!TouchCancel, OneCamera!TouchElsewhere, OneCamera!Pan, OneCamera!Zoom,
     OneCamera!LoseStream, OneCamera!GetStream, OneCamera!LoadMetadata,
     OneCamera!Rerender

LEMMA CamerasRun == Spec => []CameraBounds
<1>1. Init => CameraBounds
  <2> SUFFICES ASSUME Init PROVE CameraBounds
    OBVIOUS
  <2>1. identifier = 0 /\ frame = 0 /\ frames = 0
    BY Zenon DEF Init, FrontendInit, OneCamera!ZoomInit
  <2>2. 0 \in 0..1
    OBVIOUS
  <2> QED BY Zenon, <2>1, <2>2 DEF CameraBounds
<1>2. CameraBounds /\ [Next]_vars => CameraBounds'
  <2> SUFFICES ASSUME CameraBounds, [Next]_vars PROVE CameraBounds'
    OBVIOUS
  <2>1. Is("two cameras")' <=> Is("two cameras")
    BY Zenon DEF Next, vars, Is
  <2>2. CASE UNCHANGED zoomVars
    BY <2>1, <2>2 DEF zoomVars, CameraBounds
  <2>3. CASE Is("two cameras") /\ TwoCameras!ZoomNext
    <3>1. identifier' = identifier \/ (identifier < 1 /\ identifier' = identifier + 1)
      BY Zenon, <2>3, PinchesOfTwo
    <3>2. identifier \in 0..1
      BY Zenon, <2>3 DEF CameraBounds
    <3>3. identifier' \in 0..1
      BY <3>1, <3>2
    <3> QED BY Zenon, <2>1, <2>3, <3>3 DEF CameraBounds
  <2>4. CASE ~Is("two cameras") /\ OneCamera!ZoomNext
    <3>1. \/ frames' = frames /\ frame' \in {0, frame}
          \/ frames < 1 /\ frames' = frames + 1 /\ frame' \in {12}
      BY Zenon, <2>4, StreamsOfOne
    <3>2. frames \in 0..1 /\ frame \in {0, 12}
      BY Zenon, <2>4 DEF CameraBounds
    <3>3. frames' \in 0..1
      BY <3>1, <3>2
    <3>4. frame' \in {0, 12}
      BY Zenon, <3>1, <3>2
    <3> QED BY Zenon, <2>1, <2>4, <3>3, <3>4 DEF CameraBounds
  <2>5. \/ UNCHANGED zoomVars
        \/ Is("two cameras") /\ TwoCameras!ZoomNext
        \/ ~Is("two cameras") /\ OneCamera!ZoomNext
    <3>1. CASE UNCHANGED vars
      BY Zenon, <3>1 DEF vars, frontendVars
    <3>2. CASE Next /\ Is("two cameras")
      BY <3>2 DEF Next, FrontendNext, Is
    <3>3. CASE Next /\ ~Is("two cameras")
      BY Zenon, <3>3 DEF Next, FrontendNext
    <3> QED BY <3>1, <3>2, <3>3
  <2> QED BY <2>2, <2>3, <2>4, <2>5
<1> QED BY <1>1, <1>2, PTL DEF Spec

LEMMA ZoomTyped ==
  Frontend!ZoomInv /\ CameraBounds =>
    IF Is("two cameras") THEN TwoCameras!ZoomTypeOK ELSE OneCamera!ZoomTypeOK
<1> SUFFICES ASSUME Frontend!ZoomInv, CameraBounds
             PROVE  IF Is("two cameras") THEN TwoCameras!ZoomTypeOK ELSE OneCamera!ZoomTypeOK
  OBVIOUS
<1>1. Frontend!ZoomTypeOK
  BY Frontend!ZoomInvTypes
<1>2. loaded = (drawn # TwoCameras!NoView) /\ loaded = (drawn # OneCamera!NoView)
  BY Zenon, <1>1 DEF
     Frontend!ZoomTypeOK, Frontend!NoView, OneCamera!NoView, TwoCameras!NoView
<1>3. /\ fingers \in 0..2 /\ elsewhere \in Nat /\ gesture \in {"Ready", "Panning", "Zooming"}
      /\ identifier \in 0..2 /\ frame \in {12, 24} \cup {0} /\ frames \in 0..2
      /\ loaded => frame # 0
  BY <1>1 DEF Frontend!ZoomTypeOK
<1>4. CASE Is("two cameras")
  <2>1. identifier \in 0..1
    BY <1>4 DEF CameraBounds
  <2> QED BY Zenon, <1>2, <1>3, <1>4, <2>1 DEF TwoCameras!ZoomTypeOK
<1>5. CASE ~Is("two cameras")
  <2>1. frames \in 0..1 /\ frame \in {12} \cup {0}
    BY <1>5 DEF CameraBounds
  <2> QED BY Zenon, <1>2, <1>3, <1>5, <2>1 DEF OneCamera!ZoomTypeOK
<1> QED BY Zenon, <1>4, <1>5

LEMMA StationsTyped ==
  StationsKeep => IF Is("two babies") THEN TwoBabies!StationsTypeOK ELSE OneBaby!StationsTypeOK
<1>1. Delivery!StationsInv => Delivery!StationsTypeOK
  BY Delivery!StationsInvTypes
<1>2. TwoFollowed!StationsInv => TwoFollowed!StationsTypeOK
  BY TwoFollowed!StationsInvTypes
<1> QED
  BY ZenonT(60), <1>1, <1>2 DEF
     StationsKeep, OneBaby!StationsTypeOK, OneBaby!Links, OneBaby!NextRtc,
     TwoBabies!StationsTypeOK, TwoBabies!Links, TwoBabies!NextRtc,
     Delivery!StationsTypeOK, Delivery!Links, Delivery!NextRtc,
     TwoFollowed!StationsTypeOK, TwoFollowed!Links, TwoFollowed!NextRtc

LEMMA TabsTyped ==
  TabsKeep => IF Is("two tabs") THEN TwoTabs!AccessTypeOK ELSE OneTab!AccessTypeOK
<1>1. Resources!AccessInv => Resources!AccessTypeOK
  <2>1. Resources!AccessBounds
    BY ServicesAssumption DEF Resources!AccessBounds, Resources!Missing
  <2> QED BY <2>1, Resources!AccessInvTypes
<1>2. TwoTabbed!AccessInv => TwoTabbed!AccessTypeOK
  <2>1. TwoTabbed!AccessBounds
    BY ServicesAssumption DEF TwoTabbed!AccessBounds, TwoTabbed!Missing
  <2> QED BY <2>1, TwoTabbed!AccessInvTypes
<1> QED
  BY ZenonT(60), <1>1, <1>2 DEF
     TabsKeep, OneTab!AccessTypeOK, OneTab!Missing, OneTab!Tokens, TwoTabs!AccessTypeOK,
     TwoTabs!Missing, TwoTabs!Tokens, Resources!AccessTypeOK, Resources!Missing,
     Resources!Tokens, TwoTabbed!AccessTypeOK, TwoTabbed!Missing, TwoTabbed!Tokens

(***************************************************************************)
(* Types: every service keeps its own, whichever of them moves.            *)
(***************************************************************************)
THEOREM TypeCorrect == Spec => []TypeOK
<1>1. Spec => []FrontendTypeOK
  BY LockRuns, SaverRuns, MediaRuns, AnswerRuns, StationsRun, StationsTyped, RecordingRuns,
     ZoomRuns, CamerasRun, ZoomTyped, SubscriptionsRun, FollowersRun, PTL DEF FrontendTypeOK
<1>2. Spec => []BackendTypeOK
  BY AccountsRun, AuthorizationRuns, ListRuns, StartsRun, UsageRuns, ClientsRun, ConnectionsRun,
     StreamRuns, TabsRun, TabsTyped, PTL DEF BackendTypeOK
<1> QED BY <1>1, <1>2, PTL DEF TypeOK
=============================================================================
