------------------------------ MODULE MCFrontend ------------------------------
(***************************************************************************)
(* The services of the frontend that share no state with each other, for   *)
(* TLC.                                                                    *)
(***************************************************************************)
EXTENDS Naturals, Sequences, Component

CONSTANTS
  b1, b2,                                     \* baby stations
  MaxRequests, MaxCanvases, MaxStreams,       \* the bounds of the components
  MaxInitiated, MaxRecreated, MaxCandidates,
  MaxSessions, MaxConnections,
  MaxJoined, MaxRecorders, MaxChunks,
  MaxElsewhere, MaxSubscriptions, MaxPut

VARIABLES
  lockState, lockRequests, sentinel, overlapped,
  saver, canvas, made, attached, asked, refused, element, changes,
  permission, supported, queried, prompts, active, deviceId, stored, calls, stream, overlap,
  initiated, accepted, toBabyInbox, toParentInbox, recreated, lost, crossed,
  baby, sessions, toBaby, toParent, running, link, visible, recent, list, app,
  drops, missed, rejoined, late,
  joined, joins, listener, tracks, monitor, recording, recorders, chunks, downloads,
  fingers, elsewhere, gesture, identifier, view, frame, frames, loaded, shown, closure, drawn,
  accepts, opened, entries, counts, dispatch, present, called, stray,
  kept, pushed, follower, delivered

WakeLock     == INSTANCE WakeLock
ScreenSaver  == INSTANCE ScreenSaver
MediaDevices == INSTANCE MediaDevices WITH Devices <- {"", "d1"}
Signalling   == INSTANCE Signalling WITH toBaby <- toBabyInbox, toParent <- toParentInbox
OneBaby      == INSTANCE Stations WITH Babies <- {b1}, MaxDrops <- 1
TwoBabies    == INSTANCE Stations WITH Babies <- {b1, b2}, MaxDrops <- 0
Recording    == INSTANCE Recording
OneCamera    == INSTANCE Zoom WITH Frames <- {12}, MaxGestures <- 2, MaxCameras <- 1,
                                   stream <- frame, streams <- frames
TwoCameras   == INSTANCE Zoom WITH Frames <- {12, 24}, MaxGestures <- 1, MaxCameras <- 2,
                                   stream <- frame, streams <- frames
Subscriptions ==
  INSTANCE Subscriptions WITH
    TopicFilters <- {"one status", "all statuses", "inbox"},
    Matching <- [status |-> {"one status", "all statuses"}, signal |-> {"inbox"}]
Followers    == INSTANCE Followers WITH stored <- kept

lockVars      == <<lockState, lockRequests, sentinel, overlapped>>
saverVars     == <<saver, canvas, made, attached, asked, refused, element, changes>>
mediaVars     == <<permission, supported, queried, prompts, active, deviceId, stored, calls,
                   stream, overlap>>
signalVars    == <<initiated, accepted, toBabyInbox, toParentInbox, recreated, lost, crossed>>
stationVars   == <<baby, sessions, toBaby, toParent, running, link, visible, recent, list, app,
                   drops, missed, rejoined, late>>
recordingVars == <<joined, joins, listener, tracks, monitor, recording, recorders, chunks,
                   downloads>>
zoomVars      == <<fingers, elsewhere, gesture, identifier, view, frame, frames, loaded, shown,
                   closure, drawn>>
subscriptionVars == <<accepts, opened, entries, counts, dispatch, present, called, stray>>
followerVars  == <<kept, pushed, follower, delivered>>

frontendVars == <<lockVars, saverVars, mediaVars, signalVars, stationVars, recordingVars,
                  zoomVars, subscriptionVars, followerVars>>

FrontendComponents == {"wake lock", "screen saver", "media devices", "signalling",
                       "one baby", "two babies", "recording", "one camera",
                       "two cameras", "subscriptions", "followers"}

FrontendInit ==
  /\ WakeLock!LockInit
  /\ ScreenSaver!SaverInit
  /\ MediaDevices!MediaInit
  /\ Signalling!SignalInit
  /\ IF Is("two babies") THEN TwoBabies!StationsInit ELSE OneBaby!StationsInit
  /\ Recording!RecordingInit
  /\ OneCamera!ZoomInit
  /\ Subscriptions!SubscriptionsInit
  /\ Followers!FollowersInit
  /\ ~Is("wake lock") => lockState = "available"
  /\ ~Is("screen saver") => saver = "not_running"
  /\ ~Is("media devices") => supported
  /\ ~Is("subscriptions") => accepts
  /\ ~Is("followers") => follower.from = 0

FrontendNext ==
  /\ IF Is("wake lock") THEN WakeLock!LockNext ELSE UNCHANGED lockVars
  /\ IF Is("screen saver") THEN ScreenSaver!SaverNext ELSE UNCHANGED saverVars
  /\ IF Is("media devices") THEN MediaDevices!MediaNext ELSE UNCHANGED mediaVars
  /\ IF Is("signalling") THEN Signalling!SignalNext ELSE UNCHANGED signalVars
  /\ CASE Is("one baby")   -> OneBaby!StationsNext
       [] Is("two babies") -> TwoBabies!StationsNext
       [] OTHER -> UNCHANGED stationVars
  /\ IF Is("recording") THEN Recording!RecordingNext ELSE UNCHANGED recordingVars
  /\ CASE Is("one camera")  -> OneCamera!ZoomNext
       [] Is("two cameras") -> TwoCameras!ZoomNext
       [] OTHER -> UNCHANGED zoomVars
  /\ IF Is("subscriptions") THEN Subscriptions!SubscriptionsNext ELSE UNCHANGED subscriptionVars
  /\ IF Is("followers") THEN Followers!FollowersNext ELSE UNCHANGED followerVars

\* What the browser, the broker and the network owe each service: an answer.
FrontendFairness ==
  /\ WF_lockVars(Is("wake lock") /\ WakeLock!Answered)
  /\ WF_saverVars(Is("screen saver") /\ (\/ ScreenSaver!SaverAnswered
                                        \/ ScreenSaver!SaverLeft
                                        \/ ScreenSaver!SaverFired))
  /\ WF_signalVars(Is("signalling") /\ (\/ Signalling!Offer
                                       \/ Signalling!ParentReceives
                                       \/ Signalling!BabyReceives
                                       \/ Signalling!Answer
                                       \/ Signalling!AnswerAccepted))
  /\ WF_stationVars(Is("one baby") /\ (\/ OneBaby!ParentReceives
                                      \/ OneBaby!ParentConnected
                                      \/ OneBaby!BabyConnected(b1)
                                      \/ OneBaby!BabyReceives(b1)
                                      \/ OneBaby!Will(b1)))
  /\ WF_recordingVars(Is("recording") /\ Recording!StopTold)
  /\ WF_zoomVars((Is("one camera") \/ Is("two cameras")) /\ OneCamera!Rerender)

-----------------------------------------------------------------------------
(* The components' properties, each of its own module. *)

FrontendTypeOK ==
  /\ WakeLock!LockTypeOK
  /\ ScreenSaver!SaverTypeOK
  /\ MediaDevices!MediaTypeOK
  /\ Signalling!SignalTypeOK
  /\ IF Is("two babies") THEN TwoBabies!StationsTypeOK ELSE OneBaby!StationsTypeOK
  /\ Recording!RecordingTypeOK
  /\ IF Is("two cameras") THEN TwoCameras!ZoomTypeOK ELSE OneCamera!ZoomTypeOK
  /\ Subscriptions!SubscriptionsTypeOK
  /\ Followers!FollowersTypeOK

\* What the page holds of the browser, its service holds, but for what requests
\* unanswered side by side leave and the canvas of a refused full screen: see
\* HeldIsKnown, CanvasIsKnown and DevicesAreKnown.
ResourcesAreKnown ==
  WakeLock!HeldIsKnown /\ ScreenSaver!CanvasIsKnown /\ MediaDevices!DevicesAreKnown

ViewIsInFrame       == OneCamera!ViewIsInFrame
PeersAgree          == Signalling!AnswerIsOwn /\ Signalling!CandidatesArrive
Connects            == Signalling!Connects
ListIsTrue          == IF Is("two babies") THEN TwoBabies!ListIsTrue ELSE OneBaby!ListIsTrue
FailedIsRetried     == IF Is("two babies") THEN TwoBabies!FailedIsRetried ELSE OneBaby!FailedIsRetried
Follows             == Is("one baby") => OneBaby!Follows
ChunksAreDownloaded == Recording!ChunksAreDownloaded

\* What the component that moves waits for: two things at most.
FrontendWaits ==
  CASE Is("wake lock")    -> WakeLock!LockWaits
    [] Is("screen saver") -> ScreenSaver!SaverWaits
    [] Is("recording")    -> <<Recording!Stopping, FALSE>>
    [] Is("one camera") \/ Is("two cameras") -> <<OneCamera!Behind, FALSE>>
    [] OTHER -> <<FALSE, FALSE>>
=============================================================================
