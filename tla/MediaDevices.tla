----------------------------- MODULE MediaDevices -----------------------------
(***************************************************************************)
(* The baby station's camera and microphone: MediaDevicePermissionService, *)
(* which asks for the permission, and MediaDeviceService, which opens a    *)
(* stream from the chosen devices and stops the one it replaces.  Every    *)
(* answer of the browser comes later, and in any order; a stream is open   *)
(* (the camera light is on) from the moment the browser grants it.         *)
(***************************************************************************)
EXTENDS Naturals, Sequences

CONSTANTS
  Devices,     \* device ids, "" (the default) among them
  MaxStreams   \* bound: calls of getUserMedia

VARIABLES
  permission,  \* MediaDevicePermissionService's state
  supported,   \* does the browser support permissions.query?
  queried,     \* is the query of the constructor answered?
  prompts,     \* getUserMedia calls of request_video_and_audio_permission unanswered
  active,      \* MediaDeviceService: has it been started?
  deviceId,    \* state.audio_device_id and state.video_device_id
  stored,      \* the ids in localStorage
  calls,       \* per call of getUserMedia: its outcome, and what follows it
  stream,      \* media_stream_state: its kind, and the call it comes from
  overlap      \* history: was getUserMedia called while a call was unanswered?

permissionVars == <<permission, supported, queried, prompts>>
streamVars     == <<active, deviceId, stored, calls, stream, overlap>>
mediaVars      == <<permissionVars, streamVars>>

Kinds == {"audio", "video"}

MediaInit ==
  /\ permission = "prompt" /\ queried = FALSE /\ prompts = 0
  /\ supported \in BOOLEAN
  /\ active = FALSE
  /\ deviceId = [k \in Kinds |-> ""] /\ stored = deviceId
  /\ calls = <<>> /\ overlap = FALSE
  /\ stream = [kind |-> "not_available", call |-> 0]

-----------------------------------------------------------------------------
(* MediaDevicePermissionService *)

\* The user, or an earlier visit, decides what the query finds.
QueryPermissionState ==
  /\ ~queried
  /\ queried' = TRUE
  /\ permission' \in IF supported THEN {"denied", "granted", permission} ELSE {"unknown"}
  /\ UNCHANGED <<supported, prompts, streamVars>>

\* Mutant of MayAsk: an open prompt does not keep it from asking.
MayAskAgain == permission \in {"prompt", "unknown", "prompted"}

MayAsk == permission \in {"prompt", "unknown"}

RequestVideoAndAudioPermission ==
  \/ /\ MayAsk
     /\ permission' = "prompted"
     /\ prompts' = prompts + 1
     /\ UNCHANGED <<supported, queried, streamVars>>
  \/ /\ prompts > 0
     /\ prompts' = prompts - 1
     /\ permission' \in {"granted", "denied"}
     /\ UNCHANGED <<supported, queried, streamVars>>

-----------------------------------------------------------------------------
(* MediaDeviceService *)

Unanswered == {n \in DOMAIN calls : calls[n].outcome = "pending"}

\* Mutant of StopReplaced: the old stream is left to itself.
StopNothing == calls

\* The stream being replaced: stopped now, or when it is granted after all.
StopReplaced ==
  [n \in DOMAIN calls |->
     IF n # stream.call THEN calls[n]
     ELSE CASE stream.kind = "loading"   -> [calls[n] EXCEPT !.stop = TRUE]
            [] stream.kind = "available" -> [calls[n] EXCEPT !.outcome = "stopped"]
            [] OTHER -> calls[n]]

\* What the caller does when its call is answered.
Call(then) == [outcome |-> "pending", stop |-> FALSE, then |-> then]

GetUserMedia(then) ==
  /\ Len(calls) < MaxStreams
  /\ calls' = Append(StopReplaced, Call(then))
  /\ overlap' = (overlap \/ Unanswered # {})

Loading(ids) ==
  /\ stream' = [kind |-> "loading", call |-> Len(calls')]
  /\ deviceId' = ids

\* start writes back the state it read before get_user_media: not loading.
Start ==
  /\ permission = "granted" /\ ~active
  /\ GetUserMedia([do |-> "nothing"])
  /\ active' = TRUE
  /\ UNCHANGED <<deviceId, stored, stream, permissionVars>>

SetDeviceId ==
  /\ active
  /\ \E k \in Kinds, d \in Devices :
       /\ GetUserMedia([do |-> "store", key |-> k, value |-> d])
       /\ Loading([deviceId EXCEPT ![k] = d])
  /\ UNCHANGED <<active, stored, permissionVars>>

RetryGetUserMedia ==
  /\ stream.kind = "rejected"
  /\ GetUserMedia([do |-> "nothing"]) /\ Loading(deviceId)
  /\ UNCHANGED <<active, stored, permissionVars>>

\* await promise: whichever call is answered becomes the state; then its caller
\* goes on, and so does whoever waited to stop the stream.
Settled(n, kind) ==
  /\ stream' = [kind |-> kind, call |-> n]
  /\ calls' = [calls EXCEPT ![n].outcome =
                 IF kind = "rejected" THEN "rejected"
                 ELSE IF calls[n].stop THEN "stopped" ELSE "open"]
  /\ stored' = IF calls[n].then.do = "store"
               THEN [stored EXCEPT ![calls[n].then.key] = calls[n].then.value] ELSE stored
  /\ UNCHANGED <<active, deviceId, overlap, permissionVars>>

AnswerUserMedia == \E n \in Unanswered : Settled(n, "available") \/ Settled(n, "rejected")

MediaNext ==
  \/ QueryPermissionState \/ RequestVideoAndAudioPermission
  \/ Start \/ SetDeviceId \/ RetryGetUserMedia \/ AnswerUserMedia

MediaSpec == MediaInit /\ [][MediaNext]_mediaVars

-----------------------------------------------------------------------------
MediaTypeOK ==
  /\ permission \in {"prompt", "prompted", "granted", "denied", "unknown"}
  /\ supported \in BOOLEAN /\ queried \in BOOLEAN /\ prompts \in 0..2
  /\ active \in BOOLEAN /\ overlap \in BOOLEAN
  /\ deviceId \in [Kinds -> Devices] /\ stored \in [Kinds -> Devices]
  /\ \A n \in DOMAIN calls :
       calls[n].outcome \in {"pending", "open", "stopped", "rejected"}
  /\ stream.kind \in {"not_available", "loading", "available", "rejected"}
  /\ stream.call \in 0..Len(calls)

(***************************************************************************)
(* The camera is on only for the stream that is shown, what says loading   *)
(* will be answered, and the next visit opens the devices of this one.     *)
(* The first and the last take one unanswered getUserMedia at a time: with *)
(* several, an answer overwrites the state of a later call, the next       *)
(* replacement stops the wrong stream, and the ids are stored in the order *)
(* of the answers.                                                         *)
(***************************************************************************)
DevicesAreKnown ==
  /\ ~overlap => \A n \in DOMAIN calls :
                   calls[n].outcome = "open" => stream = [kind |-> "available", call |-> n]
  /\ stream.kind = "loading" => stream.call \in Unanswered
  /\ ~overlap /\ Unanswered = {} => stored = deviceId
=============================================================================
