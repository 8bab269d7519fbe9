------------------------------- MODULE Recording ------------------------------
(***************************************************************************)
(* RecordingService of the parent station, with what it watches: the       *)
(* joined session and its connection, and the tracks of the media stream,  *)
(* which RTCConnection adds and removes and MediaStreamTrackMonitor sums   *)
(* up.  A MediaRecorder gives its data in chunks and then stops, when told *)
(* to or by itself when a track goes.                                      *)
(***************************************************************************)
EXTENDS Naturals, Sequences

CONSTANTS
  MaxJoined,    \* bound: sessions joined
  MaxRecorders, \* bound: recordings started
  MaxChunks     \* bound: chunks per recording

VARIABLES
  joined,       \* the connection of the joined session, 0 when not joined
  joins,        \* sessions joined so far
  listener,     \* the connection the service listens to, 0 for none
  tracks,       \* the kinds of live tracks in the media stream
  monitor,      \* MediaStreamTrackMonitor's state
  recording,    \* RecordingService's state
  recorders,    \* per MediaRecorder: is it running, and the chunks it gave
  chunks,       \* the chunks that Recording keeps
  downloads     \* per MediaRecorder: the chunks of its download

recordingVars == <<joined, joins, listener, tracks, monitor, recording, recorders,
                   chunks, downloads>>

RecordingInit ==
  /\ joined = 0 /\ joins = 0 /\ listener = 0
  /\ tracks = {} /\ monitor = "no-tracks"
  /\ recording = "not_ready"
  /\ recorders = <<>> /\ chunks = 0 /\ downloads = <<>>

CanTransitionToReady(connection, stream) == connection # 0 /\ "video" \in stream

\* NotReady and Ready look again at every change; Recording waits for its stop.
Reconsider(connection, stream) ==
  recording' = IF recording = "recording" THEN recording
               ELSE IF CanTransitionToReady(connection, stream) THEN "ready" ELSE "not_ready"

\* handle_session_state_changed: sync_connection_event_listener comes first.
SessionChanges ==
  /\ \/ /\ joins < MaxJoined
        /\ joins' = joins + 1
        /\ joined' = joins'
     \/ /\ joined # 0
        /\ joined' = 0
        /\ UNCHANGED joins
  /\ listener' = joined'
  /\ Reconsider(joined', tracks)
  /\ UNCHANGED <<tracks, monitor, recorders, chunks, downloads>>

TrackState(stream) ==
  IF "audio" \notin stream THEN "no-tracks"
  ELSE IF "video" \notin stream THEN "audio-only" ELSE "audio-and-video"

\* The track event, and the ended event of a track: the stream's addtrack or
\* removetrack is dispatched at once.
TracksChange ==
  /\ \E k \in {"audio", "video"} :
       tracks' = IF k \in tracks THEN tracks \ {k} ELSE tracks \cup {k}
  /\ monitor' = TrackState(tracks')
  /\ Reconsider(joined, tracks')
  /\ UNCHANGED <<joined, joins, listener, recorders, chunks, downloads>>

\* start of Ready looks once more before it makes a recorder, whose
\* constructor or start may throw.
StartRecording ==
  /\ recording = "ready"
  /\ \/ /\ CanTransitionToReady(joined, tracks)
        /\ Len(recorders) < MaxRecorders
        /\ recorders' = Append(recorders, [running |-> TRUE, told |-> FALSE, gave |-> 0])
        /\ downloads' = Append(downloads, 0)
        /\ chunks' = 0
        /\ recording' = "recording"
     \/ /\ recording' = "not_ready"
        /\ UNCHANGED <<recorders, chunks, downloads>>
  /\ UNCHANGED <<joined, joins, listener, tracks, monitor>>

Current == Len(recorders)

StopRecording ==
  /\ recording = "recording" /\ ~recorders[Current].told
  /\ recorders' = [recorders EXCEPT ![Current].told = TRUE]
  /\ UNCHANGED <<joined, joins, listener, tracks, monitor, recording, chunks, downloads>>

\* Mutant of HandleDataavailable: what comes after stop is left out.
DataUntilTold ==
  /\ \E r \in DOMAIN recorders :
       /\ recorders[r].running /\ recorders[r].gave < MaxChunks
       /\ recorders' = [recorders EXCEPT ![r].gave = @ + 1]
  /\ chunks' = IF recording = "recording" /\ ~recorders[Current].told THEN chunks + 1 ELSE chunks
  /\ UNCHANGED <<joined, joins, listener, tracks, monitor, recording, downloads>>

\* The dataavailable event goes to whatever state the service is in.
HandleDataavailable ==
  /\ \E r \in DOMAIN recorders :
       /\ recorders[r].running /\ recorders[r].gave < MaxChunks
       /\ recorders' = [recorders EXCEPT ![r].gave = @ + 1]
  /\ chunks' = IF recording = "recording" THEN chunks + 1 ELSE chunks
  /\ UNCHANGED <<joined, joins, listener, tracks, monitor, recording, downloads>>

\* The stop event: the download has what the state kept.
HandleStop ==
  /\ recording = "recording"
  /\ recorders[Current].running
  /\ recorders' = [recorders EXCEPT ![Current].running = FALSE]
  /\ recording' = IF CanTransitionToReady(joined, tracks) THEN "ready" ELSE "not_ready"
  /\ downloads' = [downloads EXCEPT ![Current] = chunks]
  /\ chunks' = 0
  /\ UNCHANGED <<joined, joins, listener, tracks, monitor>>

RecordingNext ==
  \/ SessionChanges \/ TracksChange \/ StartRecording \/ StopRecording
  \/ HandleDataavailable \/ HandleStop

RecordingSpec == RecordingInit /\ [][RecordingNext]_recordingVars

StopTold == recording = "recording" /\ recorders[Current].told /\ HandleStop

-----------------------------------------------------------------------------
RecordingTypeOK ==
  /\ joined \in 0..joins /\ listener \in 0..joins /\ joins \in 0..MaxJoined
  /\ tracks \subseteq {"audio", "video"}
  /\ monitor \in {"no-tracks", "audio-only", "audio-and-video"}
  /\ recording \in {"not_ready", "ready", "recording"}
  /\ Len(downloads) = Len(recorders) /\ chunks \in 0..MaxChunks

(***************************************************************************)
(* No chunk is lost and none goes into the wrong file: what a recorder     *)
(* gave is in the download of its own recording, and nothing records       *)
(* outside the recording state, whatever sessions and tracks came and went *)
(* meanwhile.  After it the service offers to record only while there is a *)
(* session with a live picture.                                            *)
(***************************************************************************)
ChunksAreDownloaded ==
  /\ \A r \in DOMAIN recorders : ~recorders[r].running => downloads[r] = recorders[r].gave
  /\ recording # "recording" => \A r \in DOMAIN recorders : ~recorders[r].running
  /\ recording = "ready" => CanTransitionToReady(joined, tracks)

(***************************************************************************)
(* A recording that was told to stop ends.                                 *)
(***************************************************************************)
Stopping == recording = "recording" /\ recorders[Current].told

RecordingEnds == Stopping ~> ~Stopping
=============================================================================
