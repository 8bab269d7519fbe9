---------------------------- MODULE FrontendProofs ----------------------------
(***************************************************************************)
(* What TLAPS shows of services of the frontend, for any number of calls:  *)
(* the recording of a session, the peer connection of a parent station to  *)
(* a baby station, the tabs of a signed-in browser, and the camera zoom.   *)
(***************************************************************************)
EXTENDS Recording, Signalling, Authorization, Zoom, TLAPS, SequenceTheorems,
        FiniteSetTheorems

-----------------------------------------------------------------------------
(***************************************************************************)
(* The recordings                                                          *)
(***************************************************************************)

Recorder == [running : BOOLEAN, told : BOOLEAN, gave : 0..MaxChunks]

RecordersInv ==
  /\ joins \in 0..MaxJoined /\ joined \in 0..joins /\ listener \in 0..joins
  /\ tracks \subseteq {"audio", "video"}
  /\ monitor \in {"no-tracks", "audio-only", "audio-and-video"}
  /\ recording \in {"not_ready", "ready", "recording"}
  /\ recorders \in Seq(Recorder) /\ downloads \in Seq(Nat) /\ Len(downloads) = Len(recorders)
  /\ chunks \in Nat

\* A recorder that runs is the last one, the service is recording, and what it
\* gave so far is what is kept.
RunsLast(n) ==
  /\ n \in 1..Len(recorders) /\ recorders[n].running /\ chunks = recorders[n].gave
  /\ \A r \in 1..Len(recorders) : recorders[r].running => r = n
ChunksInv ==
  /\ recording = "recording" => RunsLast(Len(recorders))
  /\ recording # "recording" =>
       chunks = 0 /\ \A r \in 1..Len(recorders) : ~recorders[r].running
  /\ \A r \in 1..Len(recorders) : ~recorders[r].running => downloads[r] = recorders[r].gave
  /\ recording = "ready" => CanTransitionToReady(joined, tracks)

RecordingInv == RecordersInv /\ ChunksInv

LEMMA RecordersDomain ==
  ASSUME RecordersInv
  PROVE  /\ Len(recorders) \in Nat /\ DOMAIN recorders = 1..Len(recorders)
         /\ \A r \in 1..Len(recorders) : recorders[r] \in Recorder
BY LenProperties, ElementOfSeq DEF RecordersInv

LEMMA RecordingInitInv == ASSUME MaxJoined \in Nat, RecordingInit PROVE RecordingInv
<1>1. /\ recorders \in Seq(Recorder) /\ Len(recorders) = 0
      /\ downloads \in Seq(Nat) /\ Len(downloads) = 0
  BY EmptySeq DEF RecordingInit
<1>2. joins \in 0..MaxJoined /\ joined \in 0..joins /\ listener \in 0..joins
  BY DEF RecordingInit
<1>3. RecordersInv
  BY <1>1, <1>2 DEF RecordingInit, RecordersInv
<1>4. ChunksInv
  BY <1>1 DEF RecordingInit, ChunksInv
<1> QED BY <1>3, <1>4 DEF RecordingInv

\* What is recorded does not depend on the session and the tracks; what is
\* offered does.
LEMMA ReconsiderInv ==
  ASSUME RecordingInv, Reconsider(joined', tracks'), UNCHANGED <<recorders, chunks, downloads>>,
         joins' \in 0..MaxJoined, joined' \in 0..joins', listener' \in 0..joins',
         tracks' \subseteq {"audio", "video"},
         monitor' \in {"no-tracks", "audio-only", "audio-and-video"}
  PROVE  RecordingInv'
<1>1. /\ recording' \in {"not_ready", "ready", "recording"}
      /\ recording' = "recording" <=> recording = "recording"
      /\ recording' = "ready" => CanTransitionToReady(joined, tracks)'
  BY DEF RecordingInv, RecordersInv, Reconsider, CanTransitionToReady
<1>2. RecordersInv'
  BY <1>1 DEF RecordingInv, RecordersInv
<1>3. ChunksInv'
  BY <1>1 DEF RecordingInv, ChunksInv, RunsLast
<1> QED BY <1>2, <1>3 DEF RecordingInv

LEMMA SessionChangesInv == ASSUME MaxJoined \in Nat, RecordingInv, SessionChanges PROVE RecordingInv'
<1>1. joins \in 0..MaxJoined /\ tracks' = tracks /\ monitor' = monitor /\ listener' = joined'
      /\ UNCHANGED <<recorders, chunks, downloads>> /\ Reconsider(joined', tracks')
  BY DEF RecordingInv, RecordersInv, SessionChanges
<1>2. joins' \in 0..MaxJoined /\ joined' \in 0..joins'
  BY <1>1 DEF SessionChanges
<1> QED BY <1>1, <1>2, ReconsiderInv DEF RecordingInv, RecordersInv

LEMMA TracksChangeInv == ASSUME RecordingInv, TracksChange PROVE RecordingInv'
<1>1. tracks' \subseteq {"audio", "video"}
  BY DEF RecordingInv, RecordersInv, TracksChange
<1>2. monitor' \in {"no-tracks", "audio-only", "audio-and-video"}
  BY DEF TracksChange, TrackState
<1>3. UNCHANGED <<joined, joins, listener, recorders, chunks, downloads>>
      /\ Reconsider(joined', tracks')
  BY DEF TracksChange
<1> QED BY <1>1, <1>2, <1>3, ReconsiderInv DEF RecordingInv, RecordersInv

LEMMA StartRecordingInv == ASSUME MaxChunks \in Nat, RecordingInv, StartRecording PROVE RecordingInv'
<1> PICK n : n = Len(recorders)
  OBVIOUS
<1>1. RecordersInv /\ ChunksInv /\ recording = "ready"
      /\ UNCHANGED <<joined, joins, listener, tracks, monitor>>
  BY DEF RecordingInv, StartRecording
<1>2. n \in Nat /\ recorders \in Seq(Recorder) /\ downloads \in Seq(Nat) /\ Len(downloads) = n
  BY <1>1, RecordersDomain DEF RecordersInv
<1>3. /\ \A r \in 1..n : ~recorders[r].running /\ downloads[r] = recorders[r].gave
      /\ chunks = 0
  BY <1>1 DEF ChunksInv
<1>4. CASE /\ recorders' = Append(recorders, [running |-> TRUE, told |-> FALSE, gave |-> 0])
           /\ downloads' = Append(downloads, 0) /\ chunks' = 0 /\ recording' = "recording"
  <2>1. [running |-> TRUE, told |-> FALSE, gave |-> 0] \in Recorder
    BY DEF Recorder
  <2>2. /\ recorders' \in Seq(Recorder) /\ Len(recorders') = n + 1
        /\ recorders'[n + 1] = [running |-> TRUE, told |-> FALSE, gave |-> 0]
        /\ \A r \in 1..n : recorders'[r] = recorders[r]
    BY <1>2, <1>4, <2>1, AppendProperties
  <2>3. /\ downloads' \in Seq(Nat) /\ Len(downloads') = n + 1
        /\ \A r \in 1..n : downloads'[r] = downloads[r]
    BY <1>2, <1>4, AppendProperties
  <2>4. n + 1 \in 1..n + 1 /\ \A r \in 1..n + 1 : r \in 1..n \/ r = n + 1
    BY <1>2
  <2>5. RecordersInv'
    BY <1>1, <1>4, <2>2, <2>3 DEF RecordersInv
  <2>6. \A r \in 1..n + 1 : recorders'[r].running <=> r = n + 1
    BY <1>2, <1>3, <2>2, <2>4
  <2>7. \A r \in 1..n + 1 : ~recorders'[r].running => downloads'[r] = recorders'[r].gave
    BY <1>3, <2>2, <2>3, <2>4, <2>6
  <2>8. recorders'[n + 1].gave = 0 /\ chunks' = 0 /\ Len(recorders') = n + 1
    BY <1>4, <2>2
  <2>9. RunsLast(n + 1)'
    BY <2>4, <2>6, <2>8 DEF RunsLast
  <2>10. ChunksInv'
    BY <1>4, <2>6, <2>7, <2>8, <2>4 DEF ChunksInv, RunsLast
  <2> QED BY <2>5, <2>10 DEF RecordingInv
<1>5. CASE recording' = "not_ready" /\ UNCHANGED <<recorders, chunks, downloads>>
  BY <1>1, <1>3, <1>5 DEF RecordingInv, RecordersInv, ChunksInv
<1> QED BY <1>4, <1>5 DEF StartRecording

\* A step of one recorder: whether it was told, what it gave, whether it runs.
LEMMA RecorderChanges ==
  ASSUME RecordingInv, NEW n \in 1..Len(recorders), NEW v \in Recorder,
         recorders' = [recorders EXCEPT ![n] = v],
         UNCHANGED <<joined, joins, listener, tracks, monitor>>,
         recording' \in {"not_ready", "ready", "recording"}, chunks' \in Nat,
         downloads' \in Seq(Nat), Len(downloads') = Len(downloads)
  PROVE  /\ RecordersInv' /\ Len(recorders') = Len(recorders)
         /\ \A r \in 1..Len(recorders) : recorders'[r] = IF r = n THEN v ELSE recorders[r]
<1>1. recorders \in Seq(Recorder) /\ Len(downloads) = Len(recorders)
  BY DEF RecordingInv, RecordersInv
<1>2. /\ recorders' \in Seq(Recorder) /\ Len(recorders') = Len(recorders)
      /\ \A r \in 1..Len(recorders) : recorders'[r] = IF r = n THEN v ELSE recorders[r]
  BY <1>1, ExceptSeq
<1> QED BY <1>1, <1>2 DEF RecordingInv, RecordersInv

LEMMA StopRecordingInv == ASSUME RecordingInv, StopRecording PROVE RecordingInv'
<1> DEFINE n == Len(recorders)
           v == [recorders[n] EXCEPT !.told = TRUE]
<1>1. RecordersInv /\ ChunksInv
  BY DEF RecordingInv
<1>2. /\ recording = "recording" /\ recorders' = [recorders EXCEPT ![n] = v]
      /\ UNCHANGED <<joined, joins, listener, tracks, monitor, recording, chunks, downloads>>
  BY DEF StopRecording, Current
<1>3. RunsLast(n) /\ n \in 1..Len(recorders) /\ recorders[n] \in Recorder
  BY <1>1, <1>2, RecordersDomain DEF ChunksInv, RunsLast
<1>4. v \in Recorder /\ v.running /\ v.gave = recorders[n].gave
  BY <1>3 DEF Recorder, RunsLast
<1> HIDE DEF v, n
<1>5. /\ RecordersInv' /\ Len(recorders') = Len(recorders)
      /\ \A r \in 1..Len(recorders) : recorders'[r] = IF r = n THEN v ELSE recorders[r]
  BY <1>1, <1>2, <1>3, <1>4, RecorderChanges DEF RecordersInv
<1>6. ChunksInv'
  <2>1. \A r \in 1..Len(recorders) :
           /\ recorders'[r].gave = recorders[r].gave
           /\ recorders'[r].running <=> recorders[r].running
    BY <1>3, <1>4, <1>5 DEF RunsLast
  <2> QED BY <1>1, <1>2, <1>5, <2>1 DEF ChunksInv, RunsLast
<1> QED BY <1>5, <1>6 DEF RecordingInv

\* The recorder that gives data is the one whose chunks are kept.
LEMMA DataInv == ASSUME MaxChunks \in Nat, RecordingInv, HandleDataavailable PROVE RecordingInv'
<1>1. RecordersInv /\ ChunksInv
  BY DEF RecordingInv
<1>2. PICK n \in 1..Len(recorders) :
        /\ recorders[n].running /\ recorders[n].gave < MaxChunks
        /\ recorders' = [recorders EXCEPT ![n].gave = recorders[n].gave + 1]
  BY <1>1, RecordersDomain DEF HandleDataavailable
<1> DEFINE v == [recorders[n] EXCEPT !.gave = recorders[n].gave + 1]
<1>3. recorders[n] \in Recorder /\ recorders' = [recorders EXCEPT ![n] = v]
  BY <1>1, <1>2, RecordersDomain
<1>4. v \in Recorder /\ v.running /\ v.gave = recorders[n].gave + 1
  <2>1. recorders[n].gave + 1 \in 0..MaxChunks
    BY <1>2, <1>3 DEF Recorder
  <2> QED BY <1>2, <1>3, <2>1 DEF Recorder
<1>5. recording = "recording" /\ RunsLast(Len(recorders)) /\ n = Len(recorders)
  BY <1>1, <1>2 DEF ChunksInv, RunsLast
<1>6. /\ chunks' = chunks + 1 /\ chunks \in Nat
      /\ UNCHANGED <<joined, joins, listener, tracks, monitor, recording, downloads>>
  BY <1>1, <1>5 DEF HandleDataavailable, RecordersInv
<1> HIDE DEF v
<1>7. /\ RecordersInv' /\ Len(recorders') = Len(recorders)
      /\ \A r \in 1..Len(recorders) : recorders'[r] = IF r = n THEN v ELSE recorders[r]
  BY <1>1, <1>3, <1>4, <1>6, RecorderChanges DEF RecordersInv
<1>8. ChunksInv'
  <2>1. /\ \A r \in 1..Len(recorders) : recorders'[r].running <=> r = n
        /\ \A r \in 1..Len(recorders) : r # n => recorders'[r].gave = recorders[r].gave
        /\ recorders'[n].gave = chunks'
    BY <1>2, <1>4, <1>5, <1>6, <1>7 DEF RunsLast
  <2> QED BY <1>1, <1>5, <1>6, <1>7, <2>1 DEF ChunksInv, RunsLast
<1> QED BY <1>7, <1>8 DEF RecordingInv

\* What it gave becomes its download, and nothing runs any more.
LEMMA HandleStopInv == ASSUME RecordingInv, HandleStop PROVE RecordingInv'
<1> DEFINE n == Len(recorders)
           v == [recorders[n] EXCEPT !.running = FALSE]
<1>1. RecordersInv /\ ChunksInv
  BY DEF RecordingInv
<1>2. /\ recording = "recording" /\ recorders' = [recorders EXCEPT ![n] = v]
      /\ downloads' = [downloads EXCEPT ![n] = chunks] /\ chunks' = 0
      /\ UNCHANGED <<joined, joins, listener, tracks, monitor>>
  BY DEF HandleStop, Current
<1>3. RunsLast(n) /\ n \in 1..Len(recorders) /\ recorders[n] \in Recorder
  BY <1>1, <1>2, RecordersDomain DEF ChunksInv, RunsLast
<1>4. v \in Recorder /\ ~v.running /\ v.gave = recorders[n].gave
  BY <1>3 DEF Recorder
<1> HIDE DEF v, n
<1>5. /\ downloads' \in Seq(Nat) /\ Len(downloads') = Len(downloads)
      /\ \A r \in 1..Len(recorders) : downloads'[r] = IF r = n THEN chunks ELSE downloads[r]
  <2>1. downloads \in Seq(Nat) /\ chunks \in Nat /\ Len(downloads) = Len(recorders)
    BY <1>1 DEF RecordersInv
  <2> QED BY <1>2, <1>3, <2>1, ExceptSeq
<1>6. /\ recording' \in {"not_ready", "ready"}
      /\ recording' = "ready" => CanTransitionToReady(joined, tracks)'
  BY <1>2 DEF HandleStop, CanTransitionToReady
<1>7. /\ RecordersInv' /\ Len(recorders') = Len(recorders)
      /\ \A r \in 1..Len(recorders) : recorders'[r] = IF r = n THEN v ELSE recorders[r]
  BY <1>1, <1>2, <1>3, <1>4, <1>5, <1>6, RecorderChanges DEF RecordingInv
<1>8. ChunksInv'
  <2>1. \A r \in 1..Len(recorders) : ~recorders'[r].running
    BY <1>3, <1>4, <1>7 DEF RunsLast
  <2>2. \A r \in 1..Len(recorders) : downloads'[r] = recorders'[r].gave
    BY <1>1, <1>3, <1>4, <1>5, <1>7 DEF ChunksInv, RunsLast
  <2> QED BY <1>2, <1>6, <1>7, <2>1, <2>2 DEF ChunksInv
<1> QED BY <1>7, <1>8 DEF RecordingInv

LEMMA RecordingNextInv ==
  ASSUME MaxJoined \in Nat, MaxChunks \in Nat, RecordingInv, [RecordingNext]_recordingVars
  PROVE  RecordingInv'
<1>1. CASE RecordingNext
  BY <1>1, SessionChangesInv, TracksChangeInv, StartRecordingInv, StopRecordingInv, DataInv,
     HandleStopInv DEF RecordingNext
<1>2. CASE UNCHANGED recordingVars
  BY <1>2 DEF recordingVars, RecordingInv, RecordersInv, ChunksInv, RunsLast,
     CanTransitionToReady
<1> QED BY <1>1, <1>2

(***************************************************************************)
(* RecordingService.ts keeps its types, and no more chunks than one        *)
(* recorder gives.                                                         *)
(***************************************************************************)
THEOREM RecordingTypeCorrect ==
  ASSUME MaxJoined \in Nat, MaxChunks \in Nat PROVE RecordingSpec => []RecordingTypeOK
<1>1. RecordingInv => RecordingTypeOK
  <2> SUFFICES ASSUME RecordingInv PROVE RecordingTypeOK
    OBVIOUS
  <2>1. chunks \in 0..MaxChunks
    <3>1. CASE recording = "recording"
      <4>1. chunks = recorders[Len(recorders)].gave /\ recorders[Len(recorders)] \in Recorder
        BY <3>1, RecordersDomain DEF RecordingInv, ChunksInv, RunsLast
      <4> QED BY <4>1 DEF Recorder
    <3>2. CASE recording # "recording"
      BY <3>2 DEF RecordingInv, ChunksInv
    <3> QED BY <3>1, <3>2
  <2> QED BY <2>1 DEF RecordingInv, RecordersInv, RecordingTypeOK
<1> QED BY RecordingInitInv, RecordingNextInv, <1>1, PTL DEF RecordingSpec

(***************************************************************************)
(* RecordingService.ts: what a recorder gave is in the download of its own *)
(* recording, nothing records outside the recording state, and recording   *)
(* is offered only of a session with a live picture.                       *)
(***************************************************************************)
THEOREM NoChunkLost ==
  ASSUME MaxJoined \in Nat, MaxChunks \in Nat PROVE RecordingSpec => []ChunksAreDownloaded
<1>1. RecordingInv => ChunksAreDownloaded
  BY RecordersDomain DEF RecordingInv, ChunksInv, RunsLast, ChunksAreDownloaded
<1> QED BY RecordingInitInv, RecordingNextInv, <1>1, PTL DEF RecordingSpec

-----------------------------------------------------------------------------
(***************************************************************************)
(* The signalling                                                          *)
(***************************************************************************)

Candidates == SUBSET (Nat \X Nat)
Connection == [state : {"awaiting_answer", "accepting_description", "active"},
               open : BOOLEAN, described : BOOLEAN, remote : Nat,
               kept : Candidates, added : Candidates, gathered : 0..MaxCandidates]
Signal == [type : {"description"}, from : Nat]
          \cup [type : {"candidate"}, from : Nat, candidate : Nat]

SignalsInv ==
  /\ initiated \in Seq(Connection) /\ accepted \in Seq(Connection)
  /\ toBaby \in Seq(Signal) /\ toParent \in Seq(Signal)
  /\ recreated \in 0..MaxRecreated /\ lost \in BOOLEAN /\ crossed \in BOOLEAN

\* Whoever is named exists.
NamedInv ==
  /\ \A i \in 1..Len(toBaby) : toBaby[i].from \in 1..Len(initiated)
  /\ \A i \in 1..Len(toParent) : toParent[i].from \in 1..Len(accepted)
  /\ \A n \in 1..Len(initiated) : initiated[n].remote <= Len(accepted)
  /\ \A k \in 1..Len(accepted) : accepted[k].remote \in 1..Len(initiated)

\* A connection gathers after it is described, and keeps until it is active.
OrderlyInv ==
  /\ \A n \in 1..Len(initiated) :
       /\ ~initiated[n].described => initiated[n].gathered = 0
       /\ initiated[n].state = "active" => initiated[n].kept = {}
  /\ \A k \in 1..Len(accepted) :
       accepted[k].state = "active" => accepted[k].kept = {}

\* While no exchange is crossed, all that is under way is of the last offer.
CurrentInv ==
  ~crossed =>
    /\ \A i \in 1..Len(toBaby) : toBaby[i].from = Len(initiated)
    /\ \A i \in 1..Len(toParent) :
         toParent[i].type = "description" => accepted[toParent[i].from].remote = Len(initiated)
    /\ \A k \in 1..Len(accepted) :
         k = Len(accepted) /\ accepted[k].open /\ ~accepted[k].described
           => accepted[k].remote = Len(initiated)
    /\ \A n \in 1..Len(initiated) :
         initiated[n].remote # 0 => accepted[initiated[n].remote].remote = n

Has(connection, n, c) == <<n, c>> \in connection.kept \cup connection.added

\* A candidate of the parent follows its offer, and then the baby has it or will.
Covered(q, connections, n, c) ==
  /\ \A i \in 1..Len(q) : q[i].type = "description" =>
       \E j \in i + 1..Len(q) : q[j] = Candidate(n, c)
  /\ \A k \in 1..Len(connections) :
       k = Len(connections) /\ connections[k].open /\ connections[k].remote = n =>
         \/ Has(connections[k], n, c)
         \/ \E j \in 1..Len(q) : q[j] = Candidate(n, c)

ToBabyInv ==
  ~crossed /\ ~lost =>
    \A n \in 1..Len(initiated) : n = Len(initiated) =>
      \A c \in 1..initiated[n].gathered : Covered(toBaby, accepted, n, c)

\* A candidate of the baby: the parent has it, or will.
ToParentInv ==
  ~lost =>
    \A n \in 1..Len(initiated) : n = Len(initiated) /\ initiated[n].open =>
      \A k \in 1..Len(accepted) : k = Len(accepted) /\ accepted[k].remote = n =>
        \A c \in 1..accepted[k].gathered :
          \/ Has(initiated[n], k, c)
          \/ \E j \in 1..Len(toParent) : toParent[j] = Candidate(k, c)

SignalInv == /\ SignalsInv /\ NamedInv /\ OrderlyInv /\ CurrentInv
             /\ ToBabyInv /\ ToParentInv

-----------------------------------------------------------------------------
(* The operators on connections and signals. *)

LEMMA ConnectionsDomain ==
  ASSUME NEW s \in Seq(Connection)
  PROVE  /\ Len(s) \in Nat /\ DOMAIN s = 1..Len(s) /\ \A n \in 1..Len(s) : s[n] \in Connection
         /\ s # <<>> => Len(s) \in 1..Len(s) /\ Last(s) = s[Len(s)] /\ Last(s) \in Connection
         /\ HasOpen(s) <=> s # <<>> /\ s[Len(s)].open
<1>1. /\ Len(s) \in Nat /\ DOMAIN s = 1..Len(s) /\ \A n \in 1..Len(s) : s[n] \in Connection
  BY LenProperties, ElementOfSeq
<1>2. s # <<>> => Len(s) \in 1..Len(s)
  BY <1>1, EmptySeq
<1> QED BY <1>1, <1>2 DEF Last, HasOpen

LEMMA UpdatedLast ==
  ASSUME NEW s \in Seq(Connection), s # <<>>, NEW c \in Connection
  PROVE  /\ UpdateLast(s, c) \in Seq(Connection) /\ Len(UpdateLast(s, c)) = Len(s)
         /\ \A n \in 1..Len(s) : UpdateLast(s, c)[n] = IF n = Len(s) THEN c ELSE s[n]
<1>1. Len(s) \in 1..Len(s)
  BY ConnectionsDomain
<1> QED BY <1>1, ExceptSeq DEF UpdateLast

\* What a close leaves of a connection.
SameButOpen(c, d) ==
  /\ c.state = d.state /\ c.described = d.described /\ c.remote = d.remote
  /\ c.kept = d.kept /\ c.added = d.added /\ c.gathered = d.gathered

LEMMA ClosedConnections ==
  ASSUME NEW s \in Seq(Connection)
  PROVE  /\ Closed(s) \in Seq(Connection) /\ Len(Closed(s)) = Len(s)
         /\ \A n \in 1..Len(s) : /\ SameButOpen(Closed(s)[n], s[n])
                                 /\ Closed(s)[n].open => s[n].open
                                 /\ n = Len(s) => ~Closed(s)[n].open
<1>1. CASE s = <<>>
  BY <1>1, EmptySeq DEF Closed
<1>2. CASE s # <<>>
  <2> DEFINE v == [s[Len(s)] EXCEPT !.open = FALSE]
  <2>1. Len(s) \in 1..Len(s) /\ s[Len(s)] \in Connection
    BY <1>2, ConnectionsDomain
  <2>2. v \in Connection /\ SameButOpen(v, s[Len(s)]) /\ ~v.open
    BY <2>1 DEF Connection, SameButOpen
  <2>3. Closed(s) = [s EXCEPT ![Len(s)] = v]
    BY <1>2 DEF Closed
  <2> HIDE DEF v
  <2>4. /\ Closed(s) \in Seq(Connection) /\ Len(Closed(s)) = Len(s)
        /\ \A n \in 1..Len(s) : Closed(s)[n] = IF n = Len(s) THEN v ELSE s[n]
    BY <2>1, <2>2, <2>3, ExceptSeq
  <2>5. \A n \in 1..Len(s) : SameButOpen(s[n], s[n])
    BY DEF SameButOpen
  <2> QED BY <2>2, <2>4, <2>5
<1> QED BY <1>1, <1>2

LEMMA SignalOf ==
  ASSUME NEW n \in Nat, NEW c \in Nat
  PROVE  /\ Description(n) \in Signal /\ Description(n).type = "description"
         /\ Description(n).from = n
         /\ Candidate(n, c) \in Signal /\ Candidate(n, c).type = "candidate"
         /\ Candidate(n, c).from = n /\ Candidate(n, c).candidate = c
BY DEF Description, Candidate, Signal

LEMMA SignalCases ==
  ASSUME NEW s \in Signal
  PROVE  /\ s.from \in Nat /\ s.type \in {"description", "candidate"}
         /\ s.type = "candidate" => s = Candidate(s.from, s.candidate) /\ s.candidate \in Nat
BY DEF Signal, Candidate

\* A queue without its head.
LEMMA Received ==
  ASSUME NEW q \in Seq(Signal), q # <<>>
  PROVE  /\ Head(q) \in Signal /\ Head(q) = q[1] /\ 1 \in 1..Len(q)
         /\ Tail(q) \in Seq(Signal) /\ Len(q) \in Nat /\ Len(Tail(q)) = Len(q) - 1
         /\ \A i \in 1..Len(Tail(q)) : i + 1 \in 1..Len(q) /\ Tail(q)[i] = q[i + 1]
         /\ \A i \in 2..Len(q) : i - 1 \in 1..Len(Tail(q)) /\ Tail(q)[i - 1] = q[i]
         /\ \A i \in 1..Len(q) : i = 1 \/ i \in 2..Len(q)
<1>1. Len(q) \in Nat \ {0} /\ q[1] \in Signal
  BY EmptySeq, ElementOfSeq
<1>2. Head(q) = q[1] /\ Tail(q) \in Seq(Signal) /\ Len(Tail(q)) = Len(q) - 1
      /\ \A i \in 1..Len(Tail(q)) : Tail(q)[i] = q[i + 1]
  BY HeadTailProperties
<1> QED BY <1>1, <1>2

\* A queue with one signal more.
LEMMA Published ==
  ASSUME NEW q \in Seq(Signal), NEW s \in Signal
  PROVE  /\ Append(q, s) \in Seq(Signal) /\ Len(q) \in Nat /\ Len(Append(q, s)) = Len(q) + 1
         /\ Append(q, s)[Len(q) + 1] = s /\ Len(q) + 1 \in 1..Len(q) + 1
         /\ \A i \in 1..Len(q) : Append(q, s)[i] = q[i]
         /\ \A i \in 1..Len(q) + 1 : i \in 1..Len(q) \/ i = Len(q) + 1
BY AppendProperties, LenProperties

-----------------------------------------------------------------------------
(***************************************************************************)
(* Most steps leave each connection its peer, give it candidates and maybe *)
(* close it: what the invariant says then follows from what is published.  *)
(***************************************************************************)
Still(d, c) ==
  /\ d.remote = c.remote
  /\ d.open => c.open
  /\ d.open /\ ~d.described => ~c.described
  /\ d.state = "active" => d.kept = {}
  /\ c.kept \cup c.added \subseteq d.kept \cup d.added

LEMMA StillKept ==
  ASSUME NEW c \in Connection, NEW d \in Connection, SameButOpen(d, c), d.open => c.open,
         c.state = "active" => c.kept = {}
  PROVE  Still(d, c) /\ d.gathered = c.gathered /\ d.described = c.described
BY DEF SameButOpen, Still

LEMMA StillItself ==
  ASSUME NEW c \in Connection, c.state = "active" => c.kept = {}
  PROVE  Still(c, c)
BY DEF Still

StillThere(connections, before) ==
  /\ Len(connections) = Len(before)
  /\ \A n \in 1..Len(before) : Still(connections[n], before[n])

\* What is under way after a step is of the last offer, or of an answer to it.
OfOffer(q, before, P) ==
  \A i \in 1..Len(q) : q[i].from = P \/ \E j \in 1..Len(before) : q[i] = before[j]

OfAnswer(q, before, connections, P) ==
  \A i \in 1..Len(q) :
    \/ /\ q[i].from \in 1..Len(connections)
       /\ q[i].type = "description" /\ ~crossed => connections[q[i].from].remote = P
    \/ \E j \in 1..Len(before) : q[i] = before[j]

LEMMA StillNamed ==
  ASSUME SignalInv, SignalsInv', crossed' = crossed,
         StillThere(initiated', initiated), StillThere(accepted', accepted),
         \A n \in 1..Len(initiated) : ~initiated'[n].described => initiated'[n].gathered = 0,
         initiated # <<>> \/ toBaby' = toBaby, 
         OfOffer(toBaby', toBaby, Len(initiated)),
         OfAnswer(toParent', toParent, accepted, Len(initiated))
  PROVE  NamedInv' /\ OrderlyInv' /\ CurrentInv'
<1>1. PICK P \in Nat, B \in Nat : P = Len(initiated) /\ B = Len(accepted)
  BY LenProperties DEF SignalInv, SignalsInv
<1>2. Len(initiated') = P /\ Len(accepted') = B
  BY <1>1 DEF StillThere
<1>3. /\ \A n \in 1..P : /\ initiated'[n].remote = initiated[n].remote
                         /\ initiated'[n].state = "active" => initiated'[n].kept = {}
      /\ \A k \in 1..B : /\ accepted'[k].remote = accepted[k].remote
                         /\ accepted'[k].state = "active" => accepted'[k].kept = {}
                         /\ accepted'[k].open => accepted[k].open
                         /\ accepted'[k].open /\ ~accepted'[k].described
                              => ~accepted[k].described
  BY <1>1 DEF StillThere, Still
<1>4. initiated # <<>> => P \in 1..P
  BY <1>1, ConnectionsDomain DEF SignalInv, SignalsInv
<1>5. /\ \A n \in 1..P : initiated[n].remote <= B
      /\ \A k \in 1..B : accepted[k].remote \in 1..P
      /\ \A i \in 1..Len(toBaby) : toBaby[i].from \in 1..P
      /\ \A i \in 1..Len(toParent) : toParent[i].from \in 1..B
  BY <1>1 DEF SignalInv, NamedInv
<1>6. \A i \in 1..Len(toBaby') : toBaby'[i].from \in 1..P
  <2>1. CASE initiated # <<>>
    BY <2>1, <1>1, <1>4, <1>5 DEF OfOffer
  <2>2. CASE toBaby' = toBaby
    BY <2>2, <1>5
  <2> QED BY <2>1, <2>2
<1>7. \A i \in 1..Len(toParent') : toParent'[i].from \in 1..B
  BY <1>1, <1>5 DEF OfAnswer
<1>8. NamedInv'
  BY <1>2, <1>3, <1>5, <1>6, <1>7 DEF NamedInv
<1>9. OrderlyInv'
  BY <1>1, <1>2, <1>3 DEF OrderlyInv
<1>10. CurrentInv'
  <2> SUFFICES ASSUME ~crossed PROVE CurrentInv'
    BY DEF CurrentInv
  <2>1. /\ \A i \in 1..Len(toBaby) : toBaby[i].from = P
        /\ \A i \in 1..Len(toParent) :
             toParent[i].type = "description" => accepted[toParent[i].from].remote = P
        /\ \A k \in 1..B :
             k = B /\ accepted[k].open /\ ~accepted[k].described => accepted[k].remote = P
        /\ \A n \in 1..P :
             initiated[n].remote # 0 => accepted[initiated[n].remote].remote = n
    BY <1>1 DEF SignalInv, CurrentInv
  <2>2. \A i \in 1..Len(toBaby') : toBaby'[i].from = P
    BY <1>1, <2>1 DEF OfOffer
  <2>3. \A i \in 1..Len(toParent') :
          toParent'[i].type = "description" => accepted[toParent'[i].from].remote = P
    BY <1>1, <2>1 DEF OfAnswer
  <2>4. \A i \in 1..Len(toParent') :
          toParent'[i].type = "description" => accepted'[toParent'[i].from].remote = P
    BY <2>3, <1>3, <1>7
  <2>5. \A k \in 1..B :
          k = B /\ accepted'[k].open /\ ~accepted'[k].described => accepted'[k].remote = P
    BY <2>1, <1>3
  <2>6. \A n \in 1..P : initiated[n].remote # 0 => initiated[n].remote \in 1..B
    <3>1. \A n \in 1..P : initiated[n].remote \in Nat
      BY <1>1, ConnectionsDomain DEF SignalInv, SignalsInv, Connection
    <3> QED BY <3>1, <1>5
  <2>7. \A n \in 1..P :
          initiated'[n].remote # 0 => accepted'[initiated'[n].remote].remote = n
    BY <2>1, <2>6, <1>3
  <2> QED BY <1>2, <2>2, <2>4, <2>5, <2>7 DEF CurrentInv
<1> QED BY <1>8, <1>9, <1>10

\* What was published for the baby is still there, and nothing else came.
LEMMA StillForBaby ==
  ASSUME SignalInv, crossed' = crossed, lost' = lost, toBaby' = toBaby,
         Len(initiated') = Len(initiated), StillThere(accepted', accepted),
         \A n \in 1..Len(initiated) : initiated'[n].gathered = initiated[n].gathered
  PROVE  ToBabyInv'
<1> SUFFICES ASSUME ~crossed, ~lost,
                    NEW n \in 1..Len(initiated), n = Len(initiated),
                    NEW c \in 1..initiated[n].gathered
             PROVE  /\ \A i \in 1..Len(toBaby) : toBaby[i].type = "description" =>
                         \E j \in i + 1..Len(toBaby) : toBaby[j] = Candidate(n, c)
                    /\ \A k \in 1..Len(accepted) :
                         k = Len(accepted) /\ accepted'[k].open /\ accepted'[k].remote = n =>
                           \/ Has(accepted'[k], n, c)
                           \/ \E j \in 1..Len(toBaby) : toBaby[j] = Candidate(n, c)
  BY DEF ToBabyInv, Covered, StillThere
<1>1. /\ \A i \in 1..Len(toBaby) : toBaby[i].type = "description" =>
           \E j \in i + 1..Len(toBaby) : toBaby[j] = Candidate(n, c)
      /\ \A k \in 1..Len(accepted) :
           k = Len(accepted) /\ accepted[k].open /\ accepted[k].remote = n =>
             \/ Has(accepted[k], n, c)
             \/ \E j \in 1..Len(toBaby) : toBaby[j] = Candidate(n, c)
  BY DEF SignalInv, ToBabyInv, Covered
<1>2. \A k \in 1..Len(accepted) :
        /\ accepted'[k].open => accepted[k].open
        /\ accepted'[k].remote = accepted[k].remote
        /\ Has(accepted[k], n, c) => Has(accepted'[k], n, c)
  BY DEF StillThere, Still, Has
<1> QED BY <1>1, <1>2

\* What was published for the parent is still there.
LEMMA StillForParent ==
  ASSUME SignalInv, lost' = lost,
         \A j \in 1..Len(toParent) : j \in 1..Len(toParent') /\ toParent'[j] = toParent[j],
         StillThere(initiated', initiated), StillThere(accepted', accepted),
         \A k \in 1..Len(accepted) : accepted'[k].gathered = accepted[k].gathered
  PROVE  ToParentInv'
<1> SUFFICES ASSUME ~lost, NEW n \in 1..Len(initiated), n = Len(initiated),
                    initiated'[n].open,
                    NEW k \in 1..Len(accepted), k = Len(accepted), accepted'[k].remote = n,
                    NEW c \in 1..accepted[k].gathered
             PROVE  \/ Has(initiated'[n], k, c)
                    \/ \E j \in 1..Len(toParent') : toParent'[j] = Candidate(k, c)
  BY DEF ToParentInv, StillThere
<1>1. initiated[n].open /\ accepted[k].remote = n
      /\ (Has(initiated[n], k, c) => Has(initiated'[n], k, c))
  BY DEF StillThere, Still, Has
<1>2. \/ Has(initiated[n], k, c)
      \/ \E j \in 1..Len(toParent) : toParent[j] = Candidate(k, c)
  BY <1>1 DEF SignalInv, ToParentInv
<1> QED BY <1>1, <1>2


-----------------------------------------------------------------------------
(* What happens to a list whose last connection is replaced. *)

LEMMA StillUpdated ==
  ASSUME NEW s \in Seq(Connection), s # <<>>, NEW d \in Connection,
         \A n \in 1..Len(s) : s[n].state = "active" => s[n].kept = {},
         Still(d, s[Len(s)])
  PROVE  StillThere(UpdateLast(s, d), s)
<1>1. /\ Len(UpdateLast(s, d)) = Len(s)
      /\ \A n \in 1..Len(s) : UpdateLast(s, d)[n] = IF n = Len(s) THEN d ELSE s[n]
      /\ \A n \in 1..Len(s) : s[n] \in Connection
  BY UpdatedLast, ConnectionsDomain
<1>2. \A n \in 1..Len(s) : Still(s[n], s[n])
  BY <1>1, StillItself
<1> QED BY <1>1, <1>2 DEF StillThere

LEMMA StillUnchanged ==
  ASSUME NEW s \in Seq(Connection),
         \A n \in 1..Len(s) : s[n].state = "active" => s[n].kept = {}
  PROVE  StillThere(s, s)
BY ConnectionsDomain, StillItself DEF StillThere

LEMMA StillClosed ==
  ASSUME NEW s \in Seq(Connection),
         \A n \in 1..Len(s) : s[n].state = "active" => s[n].kept = {}
  PROVE  /\ StillThere(Closed(s), s)
         /\ \A n \in 1..Len(s) : /\ Closed(s)[n].gathered = s[n].gathered
                                 /\ Closed(s)[n].described = s[n].described
<1>1. /\ Closed(s) \in Seq(Connection) /\ Len(Closed(s)) = Len(s)
      /\ \A n \in 1..Len(s) : /\ SameButOpen(Closed(s)[n], s[n])
                              /\ Closed(s)[n].open => s[n].open
  BY ClosedConnections
<1>2. \A n \in 1..Len(s) : s[n] \in Connection /\ Closed(s)[n] \in Connection
  BY <1>1, ConnectionsDomain
<1>3. \A n \in 1..Len(s) : Still(Closed(s)[n], s[n])
                           /\ Closed(s)[n].gathered = s[n].gathered
                           /\ Closed(s)[n].described = s[n].described
  BY <1>1, <1>2, StillKept
<1> QED BY <1>1, <1>3 DEF StillThere

LEMMA SameQueues ==
  ASSUME NEW connections, NEW P
  PROVE  OfOffer(toBaby, toBaby, P) /\ OfAnswer(toParent, toParent, connections, P)
BY DEF OfOffer, OfAnswer

\* A candidate is kept until the description is accepted, and not lost then.
LEMMA CandidateKept ==
  ASSUME NEW c \in Connection, NEW n \in Nat, NEW k \in Nat,
         c.state = "active" => c.kept = {}
  PROVE  LET d == CandidateReceived(c, <<n, k>>) IN
           /\ d \in Connection /\ Still(d, c) /\ d.gathered = c.gathered
           /\ d.described = c.described /\ d.open = c.open /\ Has(d, n, k)
<1>1. <<n, k>> \in Nat \X Nat /\ c.added \in Candidates /\ c.kept \in Candidates
  BY DEF Connection
<1>2. c.added \cup {<<n, k>>} \in Candidates /\ c.kept \cup {<<n, k>>} \in Candidates
  BY <1>1 DEF Candidates
<1>3. CASE c.state = "active"
  BY <1>2, <1>3 DEF CandidateReceived, Connection, Still, Has
<1>4. CASE c.state # "active"
  BY <1>2, <1>4 DEF CandidateReceived, Connection, Still, Has
<1> QED BY <1>3, <1>4

LEMMA AcceptanceKeeps ==
  ASSUME NEW c \in Connection
  PROVE  LET d == DescriptionAccepted(c) IN
           /\ d \in Connection /\ Still(d, c) /\ d.gathered = c.gathered
           /\ d.described = c.described /\ d.open = c.open
<1>1. c.added \cup c.kept \in Candidates /\ {} \in Candidates
  BY DEF Connection, Candidates
<1> QED BY <1>1 DEF DescriptionAccepted, Connection, Still

-----------------------------------------------------------------------------
(* The parent's steps *)

LEMMA LeaveKeeps ==
  ASSUME SignalInv, Leave
  PROVE  SignalInv'
<1>1. /\ initiated' = Closed(initiated) /\ initiated \in Seq(Connection)
      /\ UNCHANGED <<accepted, toBaby, toParent, recreated, lost, crossed>>
      /\ \A n \in 1..Len(initiated) :
           /\ initiated[n].state = "active" => initiated[n].kept = {}
           /\ ~initiated[n].described => initiated[n].gathered = 0
      /\ accepted \in Seq(Connection)
      /\ \A k \in 1..Len(accepted) : accepted[k].state = "active" => accepted[k].kept = {}
  BY DEF Leave, SignalInv, SignalsInv, OrderlyInv
<1>2. /\ StillThere(initiated', initiated) /\ StillThere(accepted', accepted)
      /\ \A n \in 1..Len(initiated) : /\ initiated'[n].gathered = initiated[n].gathered
                                      /\ initiated'[n].described = initiated[n].described
  BY <1>1, StillClosed, StillUnchanged
<1>3. SignalsInv'
  BY <1>1, ClosedConnections DEF SignalInv, SignalsInv
<1>4. OfOffer(toBaby', toBaby, Len(initiated))
      /\ OfAnswer(toParent', toParent, accepted, Len(initiated))
  BY <1>1, SameQueues
<1>5. NamedInv' /\ OrderlyInv' /\ CurrentInv'
  BY <1>1, <1>2, <1>3, <1>4, StillNamed
<1>6. Len(initiated') = Len(initiated)
  BY <1>2 DEF StillThere
<1>7. ToBabyInv'
  BY <1>1, <1>2, <1>6, StillForBaby
<1>8. ToParentInv'
  BY <1>1, <1>2, StillForParent
<1> QED BY <1>3, <1>5, <1>7, <1>8 DEF SignalInv


LEMMA SignalFacts ==
  ASSUME SignalInv
  PROVE  /\ initiated \in Seq(Connection) /\ accepted \in Seq(Connection)
         /\ toBaby \in Seq(Signal) /\ toParent \in Seq(Signal)
         /\ \A n \in 1..Len(initiated) :
              /\ initiated[n].state = "active" => initiated[n].kept = {}
              /\ ~initiated[n].described => initiated[n].gathered = 0
         /\ \A k \in 1..Len(accepted) : accepted[k].state = "active" => accepted[k].kept = {}
         /\ StillThere(initiated, initiated) /\ StillThere(accepted, accepted)
<1>1. /\ initiated \in Seq(Connection) /\ accepted \in Seq(Connection)
      /\ toBaby \in Seq(Signal) /\ toParent \in Seq(Signal)
      /\ \A n \in 1..Len(initiated) :
           /\ initiated[n].state = "active" => initiated[n].kept = {}
           /\ ~initiated[n].described => initiated[n].gathered = 0
      /\ \A k \in 1..Len(accepted) : accepted[k].state = "active" => accepted[k].kept = {}
  BY DEF SignalInv, SignalsInv, OrderlyInv
<1> QED BY <1>1, StillUnchanged

\* The last connection of the parent is replaced by one that is still the same.
LEMMA ParentStill ==
  ASSUME SignalInv, initiated # <<>>, NEW d \in Connection,
         initiated' = UpdateLast(initiated, d),
         Still(d, initiated[Len(initiated)])
  PROVE  /\ StillThere(initiated', initiated) /\ initiated' \in Seq(Connection)
         /\ Len(initiated') = Len(initiated) /\ Len(initiated) \in 1..Len(initiated)
         /\ \A n \in 1..Len(initiated) :
              initiated'[n] = IF n = Len(initiated) THEN d ELSE initiated[n]
<1>1. /\ initiated \in Seq(Connection)
      /\ \A n \in 1..Len(initiated) : initiated[n].state = "active" => initiated[n].kept = {}
  BY SignalFacts
<1>2. StillThere(UpdateLast(initiated, d), initiated)
  BY <1>1, StillUpdated
<1>3. /\ UpdateLast(initiated, d) \in Seq(Connection)
      /\ Len(UpdateLast(initiated, d)) = Len(initiated)
      /\ \A n \in 1..Len(initiated) :
           UpdateLast(initiated, d)[n] = IF n = Len(initiated) THEN d ELSE initiated[n]
  BY <1>1, UpdatedLast
<1>4. Len(initiated) \in 1..Len(initiated)
  BY <1>1, ConnectionsDomain
<1> QED BY <1>2, <1>3, <1>4

LEMMA BabyStill ==
  ASSUME SignalInv, accepted # <<>>, NEW d \in Connection,
         accepted' = UpdateLast(accepted, d),
         Still(d, accepted[Len(accepted)])
  PROVE  /\ StillThere(accepted', accepted) /\ accepted' \in Seq(Connection)
         /\ Len(accepted') = Len(accepted) /\ Len(accepted) \in 1..Len(accepted)
         /\ \A k \in 1..Len(accepted) :
              accepted'[k] = IF k = Len(accepted) THEN d ELSE accepted[k]
<1>1. /\ accepted \in Seq(Connection)
      /\ \A n \in 1..Len(accepted) : accepted[n].state = "active" => accepted[n].kept = {}
  BY SignalFacts
<1>2. StillThere(UpdateLast(accepted, d), accepted)
  BY <1>1, StillUpdated
<1>3. /\ UpdateLast(accepted, d) \in Seq(Connection)
      /\ Len(UpdateLast(accepted, d)) = Len(accepted)
      /\ \A n \in 1..Len(accepted) :
           UpdateLast(accepted, d)[n] = IF n = Len(accepted) THEN d ELSE accepted[n]
  BY <1>1, UpdatedLast
<1>4. Len(accepted) \in 1..Len(accepted)
  BY <1>1, ConnectionsDomain
<1> QED BY <1>2, <1>3, <1>4

LEMMA AnswerAcceptedKeeps ==
  ASSUME SignalInv, AnswerAccepted
  PROVE  SignalInv'
<1> DEFINE c == initiated[Len(initiated)]
           d == DescriptionAccepted(c)
<1>1. /\ initiated # <<>> /\ initiated' = UpdateLast(initiated, d) /\ c \in Connection
      /\ UNCHANGED <<accepted, toBaby, toParent, recreated, lost, crossed>>
  BY SignalFacts, ConnectionsDomain DEF AnswerAccepted, HasOpen, Last
<1>2. /\ d \in Connection /\ Still(d, c) /\ d.gathered = c.gathered
      /\ d.described = c.described
  BY <1>1, AcceptanceKeeps
<1> HIDE DEF d
<1>3. /\ StillThere(initiated', initiated) /\ initiated' \in Seq(Connection)
      /\ Len(initiated') = Len(initiated)
      /\ \A n \in 1..Len(initiated) :
           initiated'[n] = IF n = Len(initiated) THEN d ELSE initiated[n]
  BY <1>1, <1>2, ParentStill
<1>4. \A n \in 1..Len(initiated) : /\ initiated'[n].gathered = initiated[n].gathered
                                   /\ initiated'[n].described = initiated[n].described
  BY <1>2, <1>3
<1>5. SignalsInv'
  BY <1>1, <1>3 DEF SignalInv, SignalsInv
<1>6. OfOffer(toBaby', toBaby, Len(initiated))
      /\ OfAnswer(toParent', toParent, accepted, Len(initiated))
  BY <1>1, SameQueues
<1>7. StillThere(accepted', accepted)
  BY <1>1, SignalFacts
<1>8. NamedInv' /\ OrderlyInv' /\ CurrentInv'
  BY <1>1, <1>3, <1>4, <1>5, <1>6, <1>7, SignalFacts, StillNamed
<1>9. ToBabyInv'
  BY <1>1, <1>3, <1>4, <1>7, StillForBaby
<1>10. ToParentInv'
  BY <1>1, <1>3, <1>7, StillForParent
<1> QED BY <1>5, <1>8, <1>9, <1>10 DEF SignalInv

\* setLocalDescription: nothing but described changes.
LEMMA DescribedStill ==
  ASSUME NEW c \in Connection, c.state = "active" => c.kept = {}
  PROVE  LET d == [c EXCEPT !.described = TRUE] IN
           d \in Connection /\ Still(d, c) /\ d.gathered = c.gathered /\ d.described
BY DEF Connection, Still

LEMMA OfferKeeps ==
  ASSUME SignalInv, Offer
  PROVE  SignalInv'
<1> DEFINE c == initiated[Len(initiated)]
           d == [c EXCEPT !.described = TRUE]
<1>1. /\ initiated # <<>> /\ initiated' = UpdateLast(initiated, d) /\ c \in Connection
      /\ toBaby' = Append(toBaby, Description(Len(initiated)))
      /\ UNCHANGED <<accepted, toParent, recreated, lost, crossed>>
      /\ Len(initiated) \in 1..Len(initiated)
  BY SignalFacts, ConnectionsDomain DEF Offer, HasOpen, Last
<1>2. c.gathered = 0 /\ (c.state = "active" => c.kept = {})
  BY <1>1, SignalFacts DEF Offer, Last
<1>3. d \in Connection /\ Still(d, c) /\ d.gathered = c.gathered /\ d.described
  BY <1>1, <1>2, DescribedStill
<1> HIDE DEF d
<1>4. /\ StillThere(initiated', initiated) /\ initiated' \in Seq(Connection)
      /\ Len(initiated') = Len(initiated)
      /\ \A n \in 1..Len(initiated) :
           initiated'[n] = IF n = Len(initiated) THEN d ELSE initiated[n]
  BY <1>1, <1>3, ParentStill
<1>5. \A n \in 1..Len(initiated) : ~initiated'[n].described => initiated'[n].gathered = 0
  BY <1>3, <1>4, SignalFacts
<1>6. PICK s \in Signal : s = Description(Len(initiated)) /\ s.from = Len(initiated)
  BY <1>1, SignalOf
<1>7. /\ toBaby' \in Seq(Signal) /\ Len(toBaby') = Len(toBaby) + 1 /\ Len(toBaby) \in Nat
      /\ toBaby'[Len(toBaby) + 1] = s
      /\ \A i \in 1..Len(toBaby) : toBaby'[i] = toBaby[i]
      /\ \A i \in 1..Len(toBaby) + 1 : i \in 1..Len(toBaby) \/ i = Len(toBaby) + 1
  BY <1>1, <1>6, SignalFacts, Published
<1>8. SignalsInv'
  BY <1>1, <1>4, <1>7 DEF SignalInv, SignalsInv
<1>9. OfOffer(toBaby', toBaby, Len(initiated))
  BY <1>6, <1>7 DEF OfOffer
<1>10. OfAnswer(toParent', toParent, accepted, Len(initiated)) /\ StillThere(accepted', accepted)
  BY <1>1, SameQueues, SignalFacts
<1>11. NamedInv' /\ OrderlyInv' /\ CurrentInv'
  BY <1>1, <1>4, <1>5, <1>8, <1>9, <1>10, StillNamed
<1>12. ToBabyInv'
  <2>1. initiated'[Len(initiated)].gathered = 0
    BY <1>1, <1>2, <1>3, <1>4
  <2>2. \A n \in 1..Len(initiated') : n = Len(initiated') => 1..initiated'[n].gathered = {}
    BY <2>1, <1>4
  <2> QED BY <2>2 DEF ToBabyInv, Covered
<1>13. ToParentInv'
  BY <1>1, <1>4, <1>10, StillForParent
<1> QED BY <1>8, <1>11, <1>12, <1>13 DEF SignalInv


LEMMA GatheredStill ==
  ASSUME MaxCandidates \in Nat, NEW c \in Connection, c.state = "active" => c.kept = {},
         c.described, c.gathered < MaxCandidates
  PROVE  LET d == [c EXCEPT !.gathered = @ + 1] IN
           /\ d \in Connection /\ Still(d, c) /\ d.described
           /\ c.gathered \in Nat /\ d.gathered = c.gathered + 1
<1> DEFINE d == [c EXCEPT !.gathered = @ + 1]
<1>1. c.gathered \in 0..MaxCandidates
  BY DEF Connection
<1>2. c.gathered + 1 \in 0..MaxCandidates /\ c.gathered \in Nat
  BY <1>1
<1>3. d \in Connection
  BY <1>2 DEF Connection
<1>4. Still(d, c) /\ d.described /\ d.gathered = c.gathered + 1
  BY DEF Connection, Still
<1> QED BY <1>2, <1>3, <1>4

LEMMA ParentGathersKeeps ==
  ASSUME SignalInv, ParentGathers, MaxCandidates \in Nat
  PROVE  SignalInv'
<1> DEFINE c == initiated[Len(initiated)]
           d == [c EXCEPT !.gathered = @ + 1]
<1>1. /\ initiated # <<>> /\ initiated' = UpdateLast(initiated, d) /\ c \in Connection
      /\ toBaby' = Append(toBaby, Candidate(Len(initiated), Last(initiated').gathered))
      /\ UNCHANGED <<accepted, toParent, recreated, lost, crossed>>
      /\ Len(initiated) \in 1..Len(initiated)
      /\ c.described /\ c.gathered < MaxCandidates
  BY SignalFacts, ConnectionsDomain DEF ParentGathers, Gathered, Gather, HasOpen, Last
<1>2. c.state = "active" => c.kept = {}
  BY <1>1, SignalFacts
<1>3. /\ d \in Connection /\ Still(d, c) /\ d.described
      /\ c.gathered \in Nat /\ d.gathered = c.gathered + 1
  BY <1>1, <1>2, GatheredStill
<1> HIDE DEF d
<1>4. /\ StillThere(initiated', initiated) /\ initiated' \in Seq(Connection)
      /\ Len(initiated') = Len(initiated)
      /\ \A n \in 1..Len(initiated) :
           initiated'[n] = IF n = Len(initiated) THEN d ELSE initiated[n]
  BY <1>1, <1>3, ParentStill
<1>5. \A n \in 1..Len(initiated) : ~initiated'[n].described => initiated'[n].gathered = 0
  BY <1>3, <1>4, SignalFacts
<1>6. PICK P \in Nat, g \in Nat : P = Len(initiated) /\ g = c.gathered + 1 /\ g = d.gathered
  BY <1>1, <1>3
<1>7. PICK s \in Signal : /\ s = Candidate(P, g) /\ s.from = P
                          /\ s.type = "candidate"
  BY <1>6, SignalOf
<1>8. Last(initiated') = d
  BY <1>1, <1>4 DEF Last
<1>9. /\ toBaby' \in Seq(Signal) /\ Len(toBaby') = Len(toBaby) + 1 /\ Len(toBaby) \in Nat
      /\ toBaby'[Len(toBaby) + 1] = s
      /\ \A i \in 1..Len(toBaby) : toBaby'[i] = toBaby[i]
      /\ \A i \in 1..Len(toBaby) + 1 : i \in 1..Len(toBaby) \/ i = Len(toBaby) + 1
  BY <1>1, <1>6, <1>7, <1>8, SignalFacts, Published
<1>10. SignalsInv'
  BY <1>1, <1>4, <1>9 DEF SignalInv, SignalsInv
<1>11. OfOffer(toBaby', toBaby, Len(initiated))
  BY <1>6, <1>7, <1>9 DEF OfOffer
<1>12. OfAnswer(toParent', toParent, accepted, Len(initiated)) /\ StillThere(accepted', accepted)
  BY <1>1, SameQueues, SignalFacts
<1>13. NamedInv' /\ OrderlyInv' /\ CurrentInv'
  BY <1>1, <1>4, <1>5, <1>10, <1>11, <1>12, StillNamed
<1>14. ToBabyInv'
  <2>1. /\ initiated'[P].gathered = g /\ Len(initiated') = P
        /\ accepted' = accepted /\ crossed' = crossed /\ lost' = lost
    BY <1>1, <1>4, <1>6
  <2>2. SUFFICES ASSUME ~crossed, ~lost, NEW b \in 1..g
                 PROVE  /\ \A i \in 1..Len(toBaby') : toBaby'[i].type = "description" =>
                             \E j \in i + 1..Len(toBaby') : toBaby'[j] = Candidate(P, b)
                        /\ \A k \in 1..Len(accepted) :
                             k = Len(accepted) /\ accepted[k].open /\ accepted[k].remote = P =>
                               \/ Has(accepted[k], P, b)
                               \/ \E j \in 1..Len(toBaby') : toBaby'[j] = Candidate(P, b)
    <3>1. SUFFICES ASSUME ~crossed, ~lost
                   PROVE  ToBabyInv'
      BY <2>1 DEF ToBabyInv, Covered
    <3> QED BY <2>1, <3>1 DEF ToBabyInv, Covered
  <2>3. PICK q \in Nat : q = Len(toBaby) /\ Len(toBaby') = q + 1
    BY <1>9
  <2>4. CASE b = g
    <3>1. /\ q + 1 \in 1..q + 1 /\ toBaby'[q + 1] = Candidate(P, b)
          /\ toBaby'[q + 1].type # "description"
      BY <1>7, <1>9, <2>3, <2>4
    <3>2. \A i \in 1..q + 1 : i # q + 1 => q + 1 \in i + 1..q + 1
      OBVIOUS
    <3> QED BY <2>3, <3>1, <3>2
  <2>5. CASE b \in 1..c.gathered
    <3>1. /\ \A i \in 1..q : toBaby[i].type = "description" =>
               \E j \in i + 1..q : toBaby[j] = Candidate(P, b)
          /\ \A k \in 1..Len(accepted) :
               k = Len(accepted) /\ accepted[k].open /\ accepted[k].remote = P =>
                 \/ Has(accepted[k], P, b)
                 \/ \E j \in 1..q : toBaby[j] = Candidate(P, b)
      BY <1>1, <1>6, <2>2, <2>3, <2>5 DEF SignalInv, ToBabyInv, Covered
    <3>2. \A j \in 1..q : j \in 1..q + 1 /\ toBaby'[j] = toBaby[j]
      BY <1>9, <2>3
    <3>3. \A i \in 1..q : \A j \in i + 1..q : j \in i + 1..q + 1 /\ toBaby'[j] = toBaby[j]
      BY <3>2
    <3>4. \A i \in 1..q + 1 : toBaby'[i].type = "description" => i \in 1..q
      BY <1>7, <1>9, <2>3
    <3>5. \A i \in 1..q + 1 : toBaby'[i].type = "description" =>
            \E j \in i + 1..q + 1 : toBaby'[j] = Candidate(P, b)
      BY <3>1, <3>2, <3>3, <3>4
    <3> QED BY <2>3, <3>1, <3>2, <3>5
  <2> QED BY <1>3, <1>6, <2>4, <2>5
<1>15. ToParentInv'
  BY <1>1, <1>4, <1>12, StillForParent
<1> QED BY <1>10, <1>13, <1>14, <1>15 DEF SignalInv


\* What the parent's queue still says of the baby's candidates after a signal
\* is taken, whatever else the signal does to the last connection.
LEMMA ParentTakes ==
  ASSUME SignalInv, toParent # <<>>, toParent' = Tail(toParent),
         UNCHANGED <<accepted, lost>>, Len(initiated') = Len(initiated),
         \A n \in 1..Len(initiated) : n = Len(initiated) /\ initiated'[n].open =>
           /\ initiated[n].open
           /\ initiated[n].kept \cup initiated[n].added
                \subseteq initiated'[n].kept \cup initiated'[n].added
           /\ Head(toParent).type = "candidate" =>
                Has(initiated'[n], Head(toParent).from, Head(toParent).candidate)
  PROVE  ToParentInv'
<1>1. /\ Head(toParent) \in Signal /\ Head(toParent) = toParent[1]
      /\ \A i \in 2..Len(toParent) : /\ i - 1 \in 1..Len(toParent')
                                     /\ toParent'[i - 1] = toParent[i]
      /\ \A i \in 1..Len(toParent) : i = 1 \/ i \in 2..Len(toParent)
  BY SignalFacts, Received
<1> SUFFICES ASSUME ~lost, NEW n \in 1..Len(initiated), n = Len(initiated),
                    initiated'[n].open,
                    NEW k \in 1..Len(accepted), k = Len(accepted), accepted[k].remote = n,
                    NEW c \in 1..accepted[k].gathered
             PROVE  \/ Has(initiated'[n], k, c)
                    \/ \E j \in 1..Len(toParent') : toParent'[j] = Candidate(k, c)
  BY DEF ToParentInv
<1>2. /\ initiated[n].open
      /\ Has(initiated[n], k, c) => Has(initiated'[n], k, c)
  BY DEF Has
<1>3. \/ Has(initiated[n], k, c)
      \/ \E j \in 1..Len(toParent) : toParent[j] = Candidate(k, c)
  BY <1>2 DEF SignalInv, ToParentInv
<1>4. CASE toParent[1] = Candidate(k, c)
  <2>1. k \in Nat /\ c \in Nat
    BY ConnectionsDomain, SignalFacts DEF Connection
  <2>2. /\ Head(toParent).type = "candidate" /\ Head(toParent).from = k
        /\ Head(toParent).candidate = c
    BY <1>1, <1>4, <2>1, SignalOf
  <2> QED BY <2>2
<1>5. ASSUME NEW j \in 2..Len(toParent), toParent[j] = Candidate(k, c)
      PROVE  \E i \in 1..Len(toParent') : toParent'[i] = Candidate(k, c)
  BY <1>1, <1>5
<1> QED BY <1>1, <1>2, <1>3, <1>4, <1>5

\* A signal that changes no connection's peer.
LEMMA ParentTakesStill ==
  ASSUME SignalInv, toParent # <<>>, toParent' = Tail(toParent),
         UNCHANGED <<accepted, toBaby, recreated, lost, crossed>>,
         initiated' \in Seq(Connection), StillThere(initiated', initiated),
         \A n \in 1..Len(initiated) :
           /\ initiated'[n].gathered = initiated[n].gathered
           /\ initiated'[n].described = initiated[n].described
           /\ n = Len(initiated) /\ initiated'[n].open /\ Head(toParent).type = "candidate" =>
                Has(initiated'[n], Head(toParent).from, Head(toParent).candidate)
  PROVE  SignalInv'
<1>1. /\ toParent' \in Seq(Signal)
      /\ \A i \in 1..Len(toParent') : i + 1 \in 1..Len(toParent)
                                      /\ toParent'[i] = toParent[i + 1]
  BY SignalFacts, Received
<1>2. Len(initiated') = Len(initiated)
      /\ \A n \in 1..Len(initiated) : Still(initiated'[n], initiated[n])
  BY DEF StillThere
<1>3. SignalsInv'
  BY <1>1 DEF SignalInv, SignalsInv
<1>4. OfOffer(toBaby', toBaby, Len(initiated)) /\ StillThere(accepted', accepted)
  BY SameQueues, SignalFacts
<1>5. OfAnswer(toParent', toParent, accepted, Len(initiated))
  BY <1>1 DEF OfAnswer
<1>6. NamedInv' /\ OrderlyInv' /\ CurrentInv'
  BY <1>3, <1>4, <1>5, SignalFacts, StillNamed
<1>7. ToBabyInv'
  BY <1>2, <1>4, StillForBaby
<1>8. \A n \in 1..Len(initiated) :
        /\ initiated'[n].open => initiated[n].open
        /\ initiated[n].kept \cup initiated[n].added
             \subseteq initiated'[n].kept \cup initiated'[n].added
  BY <1>2 DEF Still
<1>9. ToParentInv'
  BY <1>2, <1>8, ParentTakes
<1> QED BY <1>3, <1>6, <1>7, <1>9 DEF SignalInv

LEMMA AwaitedAnswer ==
  ASSUME NEW c \in Connection, NEW k \in Nat, c.state = "awaiting_answer"
  PROVE  LET d == AnswerReceived(c, k) IN
           /\ d \in Connection /\ d.remote = k /\ d.state # "active"
           /\ d.open = c.open /\ d.described = c.described /\ d.gathered = c.gathered
           /\ d.kept = c.kept /\ d.added = c.added
BY DEF AnswerReceived, Connection

\* The answer that is awaited names the peer.
LEMMA ParentTakesAnswer ==
  ASSUME SignalInv, ParentReceives, HasOpen(initiated),
         Head(toParent).type = "description", Last(initiated).state = "awaiting_answer"
  PROVE  SignalInv'
<1> DEFINE c == initiated[Len(initiated)]
           a == Head(toParent).from
           d == AnswerReceived(c, a)
<1>1. /\ initiated # <<>> /\ c.open /\ initiated' = UpdateLast(initiated, d)
      /\ c \in Connection /\ c.state = "awaiting_answer"
      /\ toParent # <<>> /\ toParent' = Tail(toParent)
      /\ UNCHANGED <<accepted, toBaby, recreated, lost, crossed>>
      /\ Len(initiated) \in 1..Len(initiated)
  BY SignalFacts, ConnectionsDomain DEF ParentReceives, HasOpen, Last
<1>2. /\ toParent' \in Seq(Signal)
      /\ \A i \in 1..Len(toParent') : i + 1 \in 1..Len(toParent)
                                      /\ toParent'[i] = toParent[i + 1]
      /\ Head(toParent) \in Signal /\ Head(toParent) = toParent[1] /\ 1 \in 1..Len(toParent)
  BY <1>1, SignalFacts, Received
<1>3. a \in Nat /\ a \in 1..Len(accepted)
  BY <1>2, SignalCases DEF SignalInv, NamedInv
<1>4. /\ d \in Connection /\ d.remote = a /\ d.state # "active"
      /\ d.open = c.open /\ d.described = c.described /\ d.gathered = c.gathered
      /\ d.kept = c.kept /\ d.added = c.added
  BY <1>1, <1>3, AwaitedAnswer
<1> HIDE DEF d
<1>5. /\ initiated' \in Seq(Connection) /\ Len(initiated') = Len(initiated)
      /\ \A n \in 1..Len(initiated) :
           initiated'[n] = IF n = Len(initiated) THEN d ELSE initiated[n]
  BY <1>1, <1>4, SignalFacts, UpdatedLast
<1>6. SignalsInv'
  BY <1>1, <1>2, <1>5 DEF SignalInv, SignalsInv
<1>7. PICK P \in Nat, B \in Nat : P = Len(initiated) /\ B = Len(accepted)
  BY SignalFacts, ConnectionsDomain
<1>8. NamedInv'
  <2>1. /\ \A i \in 1..Len(toBaby) : toBaby[i].from \in 1..P
        /\ \A i \in 1..Len(toParent) : toParent[i].from \in 1..B
        /\ \A n \in 1..P : initiated[n].remote <= B
        /\ \A k \in 1..B : accepted[k].remote \in 1..P
    BY <1>7 DEF SignalInv, NamedInv
  <2>2. \A i \in 1..Len(toParent') : toParent'[i].from \in 1..B
    BY <1>2, <2>1
  <2>3. a <= B
    BY <1>3, <1>7
  <2>4. \A n \in 1..P : initiated'[n].remote <= B
    BY <1>4, <1>5, <1>7, <2>1, <2>3
  <2>5. /\ toBaby' = toBaby /\ accepted' = accepted
        /\ Len(initiated') = P /\ Len(accepted') = B
    BY <1>1, <1>5, <1>7
  <2> QED BY <2>1, <2>2, <2>4, <2>5 DEF NamedInv
<1>9. OrderlyInv'
  <2>1. \A n \in 1..P : /\ ~initiated'[n].described => initiated'[n].gathered = 0
                        /\ initiated'[n].state = "active" => initiated'[n].kept = {}
    BY <1>1, <1>4, <1>5, <1>7, SignalFacts
  <2>2. accepted' = accepted /\ Len(initiated') = P
    BY <1>1, <1>5, <1>7
  <2> QED BY <2>1, <2>2, SignalFacts DEF OrderlyInv
<1>10. CurrentInv'
  <2> SUFFICES ASSUME ~crossed PROVE CurrentInv'
    BY <1>1 DEF CurrentInv
  <2>1. /\ \A i \in 1..Len(toBaby) : toBaby[i].from = P
        /\ \A i \in 1..Len(toParent) :
             toParent[i].type = "description" => accepted[toParent[i].from].remote = P
        /\ \A k \in 1..B :
             k = B /\ accepted[k].open /\ ~accepted[k].described => accepted[k].remote = P
        /\ \A n \in 1..P :
             initiated[n].remote # 0 => accepted[initiated[n].remote].remote = n
    BY <1>7 DEF SignalInv, CurrentInv
  <2>2. \A i \in 1..Len(toParent') :
          toParent'[i].type = "description" => accepted[toParent'[i].from].remote = P
    BY <1>2, <2>1
  <2>3. accepted[a].remote = P
    BY <1>2, <2>1
  <2>4. \A n \in 1..P : initiated'[n].remote # 0 => accepted[initiated'[n].remote].remote = n
    BY <1>4, <1>5, <1>7, <2>1, <2>3
  <2>5. /\ toBaby' = toBaby /\ accepted' = accepted
        /\ Len(initiated') = P /\ Len(accepted') = B
    BY <1>1, <1>5, <1>7
  <2> QED BY <2>1, <2>2, <2>4, <2>5 DEF CurrentInv
<1>11. ToBabyInv'
  <2>1. \A n \in 1..Len(initiated) : initiated'[n].gathered = initiated[n].gathered
    BY <1>4, <1>5
  <2> QED BY <1>1, <1>5, <2>1, SignalFacts, StillForBaby
<1>12. ToParentInv'
  <2>1. \A n \in 1..Len(initiated) : n = Len(initiated) =>
          /\ initiated[n].open
          /\ initiated[n].kept \cup initiated[n].added
               \subseteq initiated'[n].kept \cup initiated'[n].added
    BY <1>1, <1>4, <1>5
  <2> QED BY <1>1, <1>5, <2>1, ParentTakes
<1> QED BY <1>6, <1>8, <1>9, <1>10, <1>11, <1>12 DEF SignalInv


LEMMA ParentReceivesKeeps ==
  ASSUME SignalInv, ParentReceives
  PROVE  SignalInv'
<1> DEFINE c == initiated[Len(initiated)]
           h == Head(toParent)
<1>1. /\ toParent # <<>> /\ toParent' = Tail(toParent)
      /\ UNCHANGED <<accepted, toBaby, recreated, lost, crossed>>
      /\ h \in Signal
  BY SignalFacts, Received DEF ParentReceives
<1>2. /\ HasOpen(initiated) => initiated # <<>> /\ Len(initiated) \in 1..Len(initiated)
                               /\ c = Last(initiated) /\ c \in Connection
      /\ ~HasOpen(initiated) => ~\E n \in 1..Len(initiated) :
                                    n = Len(initiated) /\ initiated[n].open
  <2>1. initiated \in Seq(Connection)
    BY SignalFacts
  <2>2. initiated = <<>> => 1..Len(initiated) = {}
    BY EmptySeq
  <2> QED BY <2>1, <2>2, ConnectionsDomain
<1>3. CASE ~HasOpen(initiated)
  <2>1. initiated' = initiated
    BY <1>3 DEF ParentReceives
  <2> QED BY <1>1, <1>2, <1>3, <2>1, SignalFacts, ParentTakesStill
<1>4. CASE HasOpen(initiated) /\ h.type = "candidate"
  <2> DEFINE d == CandidateReceived(c, <<h.from, h.candidate>>)
  <2>1. initiated' = UpdateLast(initiated, d)
    BY <1>2, <1>4 DEF ParentReceives
  <2>2. h.from \in Nat /\ h.candidate \in Nat /\ (c.state = "active" => c.kept = {})
    BY <1>1, <1>2, <1>4, SignalCases, SignalFacts
  <2>3. /\ d \in Connection /\ Still(d, c) /\ d.gathered = c.gathered
        /\ d.described = c.described /\ Has(d, h.from, h.candidate)
    BY <1>2, <1>4, <2>2, CandidateKept
  <2> HIDE DEF d
  <2>4. /\ StillThere(initiated', initiated) /\ initiated' \in Seq(Connection)
        /\ \A n \in 1..Len(initiated) :
             initiated'[n] = IF n = Len(initiated) THEN d ELSE initiated[n]
    BY <1>2, <1>4, <2>1, <2>3, ParentStill
  <2>5. \A n \in 1..Len(initiated) :
          /\ initiated'[n].gathered = initiated[n].gathered
          /\ initiated'[n].described = initiated[n].described
          /\ n = Len(initiated) => Has(initiated'[n], h.from, h.candidate)
    BY <2>3, <2>4
  <2> QED BY <1>1, <2>4, <2>5, ParentTakesStill
<1>5. CASE /\ HasOpen(initiated) /\ h.type = "description"
           /\ c.state # "awaiting_answer"
  <2>1. initiated' = UpdateLast(initiated, c)
    BY <1>2, <1>5 DEF ParentReceives, AnswerReceived
  <2>2. c.state = "active" => c.kept = {}
    BY <1>2, <1>5, SignalFacts
  <2>3. Still(c, c) /\ c \in Connection
    BY <1>2, <1>5, <2>2, StillItself
  <2>4. /\ StillThere(initiated', initiated) /\ initiated' \in Seq(Connection)
        /\ \A n \in 1..Len(initiated) :
             initiated'[n] = IF n = Len(initiated) THEN c ELSE initiated[n]
    BY <1>2, <1>5, <2>1, <2>3, ParentStill
  <2>5. \A n \in 1..Len(initiated) :
          /\ initiated'[n].gathered = initiated[n].gathered
          /\ initiated'[n].described = initiated[n].described
    BY <2>4
  <2> QED BY <1>1, <1>5, <2>4, <2>5, ParentTakesStill
<1>6. CASE /\ HasOpen(initiated) /\ h.type = "description"
           /\ c.state = "awaiting_answer"
  BY <1>2, <1>6, ParentTakesAnswer
<1>7. h.type \in {"description", "candidate"}
  BY <1>1, SignalCases
<1> QED BY <1>3, <1>4, <1>5, <1>6, <1>7

-----------------------------------------------------------------------------
(* The baby's steps *)

LEMMA CloseConnectionsKeeps ==
  ASSUME SignalInv, CloseConnections, MaxRecreated \in Nat
  PROVE  SignalInv'
<1>1. /\ accepted' = Closed(accepted) /\ recreated' = recreated + 1
      /\ recreated < MaxRecreated
      /\ UNCHANGED <<initiated, toBaby, toParent, lost, crossed>>
  BY DEF CloseConnections
<1>2. /\ StillThere(initiated', initiated) /\ StillThere(accepted', accepted)
      /\ \A k \in 1..Len(accepted) : accepted'[k].gathered = accepted[k].gathered
  BY <1>1, SignalFacts, StillClosed
<1>3. recreated' \in 0..MaxRecreated
  BY <1>1 DEF SignalInv, SignalsInv
<1>4. SignalsInv'
  BY <1>1, <1>3, ClosedConnections DEF SignalInv, SignalsInv
<1>5. OfOffer(toBaby', toBaby, Len(initiated))
      /\ OfAnswer(toParent', toParent, accepted, Len(initiated))
  BY <1>1, SameQueues
<1>6. NamedInv' /\ OrderlyInv' /\ CurrentInv'
  BY <1>1, <1>2, <1>4, <1>5, SignalFacts, StillNamed
<1>7. ToBabyInv'
  BY <1>1, <1>2, StillForBaby
<1>8. ToParentInv'
  BY <1>1, <1>2, StillForParent
<1> QED BY <1>4, <1>6, <1>7, <1>8 DEF SignalInv

\* The answer: described, active, and what was kept is added.
LEMMA AnswerStill ==
  ASSUME NEW c \in Connection, c.state = "active" => c.kept = {}
  PROVE  LET d == DescriptionAccepted([c EXCEPT !.described = TRUE]) IN
           d \in Connection /\ Still(d, c) /\ d.gathered = c.gathered
<1> DEFINE e == [c EXCEPT !.described = TRUE]
           d == DescriptionAccepted(e)
<1>1. e \in Connection /\ Still(e, c) /\ e.gathered = c.gathered /\ e.described
  BY DescribedStill
<1> HIDE DEF e
<1>2. /\ d \in Connection /\ Still(d, e) /\ d.gathered = e.gathered
      /\ d.described = e.described /\ d.open = e.open
  BY <1>1, AcceptanceKeeps
<1>3. Still(d, c) /\ d.gathered = c.gathered
  BY <1>1, <1>2 DEF Still
<1> QED BY <1>2, <1>3 DEF e

LEMMA AnswerKeeps ==
  ASSUME SignalInv, Answer
  PROVE  SignalInv'
<1> DEFINE c == accepted[Len(accepted)]
           d == DescriptionAccepted([c EXCEPT !.described = TRUE])
<1>1. /\ accepted # <<>> /\ accepted' = UpdateLast(accepted, d) /\ c \in Connection
      /\ toParent' = Append(toParent, Description(Len(accepted)))
      /\ UNCHANGED <<initiated, toBaby, recreated, lost, crossed>>
      /\ Len(accepted) \in 1..Len(accepted) /\ c.open /\ ~c.described
  BY SignalFacts, ConnectionsDomain DEF Answer, HasOpen, Last
<1>2. c.state = "active" => c.kept = {}
  BY <1>1, SignalFacts
<1>3. d \in Connection /\ Still(d, c) /\ d.gathered = c.gathered
  BY <1>1, <1>2, AnswerStill
<1> HIDE DEF d
<1>4. /\ StillThere(accepted', accepted) /\ accepted' \in Seq(Connection)
      /\ \A k \in 1..Len(accepted) :
           accepted'[k] = IF k = Len(accepted) THEN d ELSE accepted[k]
  BY <1>1, <1>3, BabyStill
<1>5. PICK s \in Signal : s = Description(Len(accepted)) /\ s.from = Len(accepted)
  BY <1>1, SignalOf
<1>6. /\ toParent' \in Seq(Signal) /\ Len(toParent') = Len(toParent) + 1
      /\ Len(toParent) \in Nat /\ toParent'[Len(toParent) + 1] = s
      /\ \A i \in 1..Len(toParent) : toParent'[i] = toParent[i]
      /\ \A i \in 1..Len(toParent) + 1 : i \in 1..Len(toParent) \/ i = Len(toParent) + 1
      /\ \A i \in 1..Len(toParent) : i \in 1..Len(toParent')
  BY <1>1, <1>5, SignalFacts, Published
<1>7. SignalsInv'
  BY <1>1, <1>4, <1>6 DEF SignalInv, SignalsInv
<1>8. OfOffer(toBaby', toBaby, Len(initiated)) /\ StillThere(initiated', initiated)
  BY <1>1, SameQueues, SignalFacts
<1>9. ~crossed => accepted[Len(accepted)].remote = Len(initiated)
  BY <1>1 DEF SignalInv, CurrentInv
<1>10. OfAnswer(toParent', toParent, accepted, Len(initiated))
  BY <1>1, <1>5, <1>6, <1>9 DEF OfAnswer
<1>11. NamedInv' /\ OrderlyInv' /\ CurrentInv'
  BY <1>1, <1>4, <1>7, <1>8, <1>10, SignalFacts, StillNamed
<1>12. ToBabyInv'
  BY <1>1, <1>4, StillForBaby
<1>13. \A k \in 1..Len(accepted) : accepted'[k].gathered = accepted[k].gathered
  BY <1>3, <1>4
<1>14. ToParentInv'
  BY <1>1, <1>4, <1>6, <1>8, <1>13, StillForParent
<1> QED BY <1>7, <1>11, <1>12, <1>14 DEF SignalInv

LEMMA BabyGathersKeeps ==
  ASSUME SignalInv, BabyGathers, MaxCandidates \in Nat
  PROVE  SignalInv'
<1> DEFINE c == accepted[Len(accepted)]
           d == [c EXCEPT !.gathered = @ + 1]
<1>1. /\ accepted # <<>> /\ accepted' = UpdateLast(accepted, d) /\ c \in Connection
      /\ toParent' = Append(toParent, Candidate(Len(accepted), Last(accepted').gathered))
      /\ UNCHANGED <<initiated, toBaby, recreated, lost, crossed>>
      /\ Len(accepted) \in 1..Len(accepted)
      /\ c.described /\ c.gathered < MaxCandidates
  BY SignalFacts, ConnectionsDomain DEF BabyGathers, Gathered, Gather, HasOpen, Last
<1>2. c.state = "active" => c.kept = {}
  BY <1>1, SignalFacts
<1>3. /\ d \in Connection /\ Still(d, c) /\ d.described
      /\ c.gathered \in Nat /\ d.gathered = c.gathered + 1
  BY <1>1, <1>2, GatheredStill
<1> HIDE DEF d
<1>4. /\ StillThere(accepted', accepted) /\ accepted' \in Seq(Connection)
      /\ Len(accepted') = Len(accepted)
      /\ \A k \in 1..Len(accepted) :
           accepted'[k] = IF k = Len(accepted) THEN d ELSE accepted[k]
  BY <1>1, <1>3, BabyStill
<1>5. PICK B \in Nat, g \in Nat : B = Len(accepted) /\ g = c.gathered + 1 /\ g = d.gathered
  BY <1>1, <1>3
<1>6. PICK s \in Signal : /\ s = Candidate(B, g) /\ s.from = B
                          /\ s.type = "candidate"
  BY <1>5, SignalOf
<1>7. Last(accepted') = d
  BY <1>1, <1>4 DEF Last
<1>8. PICK q \in Nat : q = Len(toParent)
  BY SignalFacts, LenProperties
<1>9. /\ toParent' \in Seq(Signal) /\ Len(toParent') = q + 1
      /\ toParent'[q + 1] = s /\ q + 1 \in 1..q + 1
      /\ \A i \in 1..q : toParent'[i] = toParent[i]
      /\ \A i \in 1..q + 1 : i \in 1..q \/ i = q + 1
  BY <1>1, <1>5, <1>6, <1>7, <1>8, SignalFacts, Published
<1>10. SignalsInv'
  BY <1>1, <1>4, <1>9 DEF SignalInv, SignalsInv
<1>11. OfOffer(toBaby', toBaby, Len(initiated)) /\ StillThere(initiated', initiated)
  BY <1>1, SameQueues, SignalFacts
<1>12. OfAnswer(toParent', toParent, accepted, Len(initiated))
  BY <1>1, <1>5, <1>6, <1>8, <1>9 DEF OfAnswer
<1>13. NamedInv' /\ OrderlyInv' /\ CurrentInv'
  BY <1>1, <1>4, <1>10, <1>11, <1>12, SignalFacts, StillNamed
<1>14. ToBabyInv'
  BY <1>1, <1>4, StillForBaby
<1>15. ToParentInv'
  <2>1. /\ accepted'[B].gathered = g /\ Len(accepted') = B
        /\ accepted'[B].remote = accepted[B].remote
        /\ initiated' = initiated /\ lost' = lost
    BY <1>1, <1>3, <1>4, <1>5 DEF Still
  <2>2. SUFFICES ASSUME ~lost PROVE ToParentInv'
    BY <2>1 DEF ToParentInv
  <2>3. \A b \in 1..g : b = g \/ b \in 1..c.gathered
    BY <1>3, <1>5
  <2>4. \A n \in 1..Len(initiated) : n = Len(initiated) /\ initiated[n].open
          /\ B \in 1..Len(accepted) /\ accepted[B].remote = n =>
            \A b \in 1..c.gathered :
              \/ Has(initiated[n], B, b)
              \/ \E j \in 1..q : toParent[j] = Candidate(B, b)
    BY <1>5, <1>8, <2>2 DEF SignalInv, ToParentInv
  <2>5. \A b \in 1..c.gathered :
          (\E j \in 1..q : toParent[j] = Candidate(B, b)) =>
             \E j \in 1..q + 1 : toParent'[j] = Candidate(B, b)
    BY <1>9
  <2>6. \E j \in 1..q + 1 : toParent'[j] = Candidate(B, g)
    BY <1>6, <1>9
  <2>7. \A n \in 1..Len(initiated) : n = Len(initiated) /\ initiated[n].open
          /\ B \in 1..Len(accepted) /\ accepted[B].remote = n =>
            \A b \in 1..g :
              \/ Has(initiated[n], B, b)
              \/ \E j \in 1..q + 1 : toParent'[j] = Candidate(B, b)
    BY <2>3, <2>4, <2>5, <2>6
  <2> QED BY <1>5, <1>9, <2>1, <2>7 DEF ToParentInv
<1> QED BY <1>10, <1>13, <1>14, <1>15 DEF SignalInv


\* What the baby's queue still says of the parent's candidates after one is taken.
LEMMA BabyTakesStill ==
  ASSUME SignalInv, toBaby # <<>>, toBaby' = Tail(toBaby), Head(toBaby).type = "candidate",
         UNCHANGED <<initiated, toParent, recreated, lost, crossed>>,
         accepted' \in Seq(Connection), StillThere(accepted', accepted),
         \A k \in 1..Len(accepted) :
           /\ accepted'[k].gathered = accepted[k].gathered
           /\ k = Len(accepted) /\ accepted'[k].open =>
                Has(accepted'[k], Head(toBaby).from, Head(toBaby).candidate)
  PROVE  SignalInv'
<1>1. /\ toBaby' \in Seq(Signal) /\ Head(toBaby) \in Signal /\ Head(toBaby) = toBaby[1]
      /\ \A i \in 1..Len(toBaby') : i + 1 \in 1..Len(toBaby)
                                    /\ toBaby'[i] = toBaby[i + 1]
      /\ \A i \in 2..Len(toBaby) : i - 1 \in 1..Len(toBaby') /\ toBaby'[i - 1] = toBaby[i]
      /\ \A i \in 1..Len(toBaby) : i = 1 \/ i \in 2..Len(toBaby)
      /\ Len(toBaby) \in Nat /\ Len(toBaby') = Len(toBaby) - 1
  BY SignalFacts, Received
<1>2. /\ Len(accepted') = Len(accepted)
      /\ \A k \in 1..Len(accepted) : Still(accepted'[k], accepted[k])
  BY DEF StillThere
<1>3. SignalsInv'
  BY <1>1 DEF SignalInv, SignalsInv
<1>4. StillThere(initiated', initiated)
      /\ OfAnswer(toParent', toParent, accepted, Len(initiated))
  BY SameQueues, SignalFacts
<1>5. OfOffer(toBaby', toBaby, Len(initiated))
  BY <1>1 DEF OfOffer
<1>6. initiated # <<>>
  <2>1. 1 \in 1..Len(toBaby)
    BY SignalFacts, Received
  <2>2. toBaby[1].from \in 1..Len(initiated)
    BY <2>1 DEF SignalInv, NamedInv
  <2> QED BY <2>2, EmptySeq
<1>7. NamedInv' /\ OrderlyInv' /\ CurrentInv'
  BY <1>3, <1>4, <1>5, <1>6, SignalFacts, StillNamed
<1>8. ToParentInv'
  BY <1>4, StillForParent
<1>9. ToBabyInv'
  <2> SUFFICES ASSUME ~crossed, ~lost PROVE ToBabyInv'
    BY DEF ToBabyInv, Covered
  <2> SUFFICES ASSUME NEW n \in 1..Len(initiated), n = Len(initiated),
                      NEW c \in 1..initiated[n].gathered
               PROVE  Covered(toBaby', accepted', n, c)
    BY DEF ToBabyInv
  <2>1. /\ \A i \in 1..Len(toBaby) : toBaby[i].type = "description" =>
             \E j \in i + 1..Len(toBaby) : toBaby[j] = Candidate(n, c)
        /\ \A k \in 1..Len(accepted) :
             k = Len(accepted) /\ accepted[k].open /\ accepted[k].remote = n =>
               \/ Has(accepted[k], n, c)
               \/ \E j \in 1..Len(toBaby) : toBaby[j] = Candidate(n, c)
    BY DEF SignalInv, ToBabyInv, Covered
  <2>2. ASSUME NEW i \in 1..Len(toBaby'), toBaby'[i].type = "description"
        PROVE  \E j \in i + 1..Len(toBaby') : toBaby'[j] = Candidate(n, c)
    <3>1. i + 1 \in 1..Len(toBaby) /\ toBaby[i + 1].type = "description"
      BY <1>1, <2>2
    <3>2. PICK j \in i + 1 + 1..Len(toBaby) : toBaby[j] = Candidate(n, c)
      BY <2>1, <3>1
    <3>3. j \in 2..Len(toBaby) /\ j - 1 \in i + 1..Len(toBaby')
      BY <1>1, <3>1
    <3> QED BY <1>1, <3>2, <3>3
  <2>3. ASSUME NEW k \in 1..Len(accepted), k = Len(accepted),
               accepted'[k].open, accepted'[k].remote = n
        PROVE  \/ Has(accepted'[k], n, c)
               \/ \E j \in 1..Len(toBaby') : toBaby'[j] = Candidate(n, c)
    <3>1. /\ accepted[k].open /\ accepted[k].remote = n
          /\ Has(accepted[k], n, c) => Has(accepted'[k], n, c)
      BY <1>2, <2>3 DEF Still, Has
    <3>2. \/ Has(accepted[k], n, c)
          \/ \E j \in 1..Len(toBaby) : toBaby[j] = Candidate(n, c)
      BY <2>1, <2>3, <3>1
    <3>3. CASE toBaby[1] = Candidate(n, c)
      <4>1. n \in Nat /\ c \in Nat
        BY ConnectionsDomain, SignalFacts DEF Connection
      <4>2. Head(toBaby).from = n /\ Head(toBaby).candidate = c
        BY <1>1, <3>3, <4>1, SignalOf
      <4> QED BY <2>3, <4>2
    <3>4. ASSUME NEW j \in 2..Len(toBaby), toBaby[j] = Candidate(n, c)
          PROVE  \E i \in 1..Len(toBaby') : toBaby'[i] = Candidate(n, c)
      <4>1. j - 1 \in 1..Len(toBaby') /\ toBaby'[j - 1] = toBaby[j]
        BY <1>1
      <4> QED BY <3>4, <4>1
    <3> QED BY <1>1, <3>1, <3>2, <3>3, <3>4
  <2> QED BY <1>2, <2>2, <2>3 DEF Covered
<1> QED BY <1>3, <1>7, <1>8, <1>9 DEF SignalInv

\* A new connection takes the place of the last one.
LEMMA Appended ==
  ASSUME NEW s \in Seq(Connection), NEW c \in Connection
  PROVE  LET t == Append(Closed(s), c) IN
           /\ t \in Seq(Connection) /\ Len(s) \in Nat /\ Len(t) = Len(s) + 1
           /\ t[Len(s) + 1] = c
           /\ \A n \in 1..Len(s) : SameButOpen(t[n], s[n]) /\ ~(n = Len(s) + 1)
           /\ \A n \in 1..Len(s) + 1 : n \in 1..Len(s) \/ n = Len(s) + 1
           /\ \A n \in 1..Len(s) : n \in 1..Len(s) + 1
<1>1. /\ Closed(s) \in Seq(Connection) /\ Len(Closed(s)) = Len(s) /\ Len(s) \in Nat
      /\ \A n \in 1..Len(s) : SameButOpen(Closed(s)[n], s[n])
  BY ClosedConnections, LenProperties
<1>2. LET t == Append(Closed(s), c) IN
        /\ t \in Seq(Connection) /\ Len(t) = Len(s) + 1 /\ t[Len(s) + 1] = c
        /\ \A n \in 1..Len(s) : t[n] = Closed(s)[n]
  BY <1>1, AppendProperties
<1> QED BY <1>1, <1>2

LEMMA NewConnectionOf ==
  ASSUME NEW state \in {"awaiting_answer", "accepting_description"}, NEW remote \in Nat,
         MaxCandidates \in Nat
  PROVE  LET c == NewConnection(state, remote) IN
           /\ c \in Connection /\ c.state = state /\ c.state # "active" /\ c.remote = remote
           /\ c.open /\ ~c.described /\ c.gathered = 0
<1>1. {} \in Candidates /\ 0 \in 0..MaxCandidates
  BY DEF Candidates
<1> QED BY <1>1 DEF NewConnection, Connection

\* An offer: the peer's connection is closed, and a new one answers.
LEMMA BabyTakesOffer ==
  ASSUME SignalInv, toBaby # <<>>, toBaby' = Tail(toBaby), Head(toBaby).type = "description",
         accepted' = AcceptOffer(Head(toBaby).from),
         UNCHANGED <<initiated, toParent, recreated, lost, crossed>>, MaxCandidates \in Nat
  PROVE  SignalInv'
<1>1. /\ toBaby' \in Seq(Signal) /\ Head(toBaby) \in Signal /\ Head(toBaby) = toBaby[1]
      /\ \A i \in 1..Len(toBaby') : i + 1 \in 1..Len(toBaby)
                                    /\ toBaby'[i] = toBaby[i + 1]
      /\ 1 \in 1..Len(toBaby)
      /\ \A i \in 2..Len(toBaby) : i - 1 \in 1..Len(toBaby') /\ toBaby'[i - 1] = toBaby[i]
      /\ Len(toBaby) \in Nat /\ Len(toBaby') = Len(toBaby) - 1
  BY SignalFacts, Received
<1>2. PICK P \in Nat, B \in Nat, o \in Nat :
        P = Len(initiated) /\ B = Len(accepted) /\ o = Head(toBaby).from
  BY <1>1, SignalFacts, ConnectionsDomain, SignalCases
<1>3. o \in 1..P /\ (~crossed => o = P)
  BY <1>1, <1>2 DEF SignalInv, NamedInv, CurrentInv
<1>4. PICK c \in Connection : /\ c = NewConnection("accepting_description", o)
                              /\ c.state # "active" /\ c.remote = o
                              /\ c.open /\ ~c.described /\ c.gathered = 0
  BY NewConnectionOf
<1>5. /\ accepted' \in Seq(Connection) /\ Len(accepted') = B + 1 /\ accepted'[B + 1] = c
      /\ \A k \in 1..B : SameButOpen(accepted'[k], accepted[k]) /\ k # B + 1
      /\ \A k \in 1..B + 1 : k \in 1..B \/ k = B + 1
      /\ \A k \in 1..B : k \in 1..B + 1
  BY <1>2, <1>4, SignalFacts, Appended DEF AcceptOffer
<1>6. \A k \in 1..B : /\ accepted'[k].remote = accepted[k].remote
                      /\ accepted'[k].kept = accepted[k].kept
                      /\ accepted'[k].state = accepted[k].state
  BY <1>5 DEF SameButOpen
<1>7. SignalsInv'
  BY <1>1, <1>5 DEF SignalInv, SignalsInv
<1>8. /\ \A i \in 1..Len(toBaby) : toBaby[i].from \in 1..P
      /\ \A i \in 1..Len(toParent) : toParent[i].from \in 1..B
      /\ \A n \in 1..P : initiated[n].remote <= B /\ initiated[n].remote \in Nat
      /\ \A k \in 1..B : accepted[k].remote \in 1..P
  <2>1. \A n \in 1..P : initiated[n].remote \in Nat
    BY <1>2, SignalFacts, ConnectionsDomain DEF Connection
  <2> QED BY <1>2, <2>1 DEF SignalInv, NamedInv
<1>9. NamedInv'
  <2>1. \A i \in 1..Len(toBaby') : toBaby'[i].from \in 1..P
    BY <1>1, <1>8
  <2>2. \A i \in 1..Len(toParent) : toParent[i].from \in 1..B + 1
    BY <1>5, <1>8
  <2>3. \A n \in 1..P : initiated[n].remote <= B + 1
    BY <1>8
  <2>4. \A k \in 1..B + 1 : accepted'[k].remote \in 1..P
    BY <1>3, <1>4, <1>5, <1>6, <1>8
  <2> QED BY <1>2, <1>5, <2>1, <2>2, <2>3, <2>4 DEF NamedInv
<1>10. OrderlyInv'
  <2>1. \A k \in 1..B : accepted[k].state = "active" => accepted[k].kept = {}
    BY <1>2, SignalFacts
  <2>2. \A k \in 1..B + 1 : accepted'[k].state = "active" => accepted'[k].kept = {}
    BY <1>4, <1>5, <1>6, <2>1
  <2> QED BY <1>5, <2>2, SignalFacts DEF OrderlyInv
<1>11. CurrentInv'
  <2> SUFFICES ASSUME ~crossed PROVE CurrentInv'
    BY DEF CurrentInv
  <2>1. /\ \A i \in 1..Len(toBaby) : toBaby[i].from = P
        /\ \A i \in 1..Len(toParent) :
             toParent[i].type = "description" => accepted[toParent[i].from].remote = P
        /\ \A n \in 1..P :
             initiated[n].remote # 0 => accepted[initiated[n].remote].remote = n
    BY <1>2 DEF SignalInv, CurrentInv
  <2>2. \A i \in 1..Len(toBaby') : toBaby'[i].from = P
    BY <1>1, <2>1
  <2>3. \A i \in 1..Len(toParent) :
          toParent[i].type = "description" => accepted'[toParent[i].from].remote = P
    BY <1>6, <1>8, <2>1
  <2>4. \A n \in 1..P : initiated[n].remote # 0 => initiated[n].remote \in 1..B
    BY <1>8
  <2>5. \A n \in 1..P : initiated[n].remote # 0 => accepted'[initiated[n].remote].remote = n
    BY <1>6, <2>1, <2>4
  <2>6. \A k \in 1..B + 1 : k = B + 1 => accepted'[k].remote = P
    BY <1>3, <1>4, <1>5
  <2> QED BY <1>2, <1>5, <2>2, <2>3, <2>5, <2>6 DEF CurrentInv
<1>12. ToBabyInv'
  <2> SUFFICES ASSUME ~crossed, ~lost PROVE ToBabyInv'
    BY DEF ToBabyInv, Covered
  <2> SUFFICES ASSUME NEW b \in 1..initiated[P].gathered, P \in 1..P
               PROVE  Covered(toBaby', accepted', P, b)
    BY <1>2 DEF ToBabyInv
  <2>1. \A i \in 1..Len(toBaby) : toBaby[i].type = "description" =>
          \E j \in i + 1..Len(toBaby) : toBaby[j] = Candidate(P, b)
    BY <1>2 DEF SignalInv, ToBabyInv, Covered
  <2>2. ASSUME NEW i \in 1..Len(toBaby'), toBaby'[i].type = "description"
        PROVE  \E j \in i + 1..Len(toBaby') : toBaby'[j] = Candidate(P, b)
    <3>1. i + 1 \in 1..Len(toBaby) /\ toBaby[i + 1].type = "description"
      BY <1>1, <2>2
    <3>2. PICK j \in i + 1 + 1..Len(toBaby) : toBaby[j] = Candidate(P, b)
      BY <2>1, <3>1
    <3>3. j \in 2..Len(toBaby) /\ j - 1 \in i + 1..Len(toBaby')
      BY <1>1, <3>1
    <3> QED BY <1>1, <3>2, <3>3
  <2>3. PICK j \in 1 + 1..Len(toBaby) : toBaby[j] = Candidate(P, b)
    BY <1>1, <2>1
  <2>4. j \in 2..Len(toBaby)
    BY <1>1
  <2>5. \E i \in 1..Len(toBaby') : toBaby'[i] = Candidate(P, b)
    BY <1>1, <2>3, <2>4
  <2> QED BY <2>2, <2>5 DEF Covered
<1>13. ToParentInv'
  <2>1. \A k \in 1..Len(accepted') : k = Len(accepted') => 1..accepted'[k].gathered = {}
    BY <1>4, <1>5
  <2> QED BY <2>1 DEF ToParentInv
<1> QED BY <1>7, <1>9, <1>10, <1>11, <1>12, <1>13 DEF SignalInv

LEMMA BabyReceivesKeeps ==
  ASSUME SignalInv, BabyReceives, MaxCandidates \in Nat
  PROVE  SignalInv'
<1> DEFINE c == accepted[Len(accepted)]
           h == Head(toBaby)
<1>1. /\ toBaby # <<>> /\ toBaby' = Tail(toBaby)
      /\ UNCHANGED <<initiated, toParent, recreated, lost, crossed>>
      /\ h \in Signal
  BY SignalFacts, Received DEF BabyReceives
<1>2. CASE h.type = "description"
  <2>1. accepted' = AcceptOffer(h.from)
    BY <1>2 DEF BabyReceives
  <2> QED BY <1>1, <1>2, <2>1, BabyTakesOffer
<1>3. CASE h.type = "candidate" /\ ~HasOpen(accepted)
  <2>1. accepted' = accepted
    BY <1>3 DEF BabyReceives
  <2>2. \A k \in 1..Len(accepted) : k = Len(accepted) => ~accepted[k].open
    BY <1>3, SignalFacts, ConnectionsDomain, EmptySeq
  <2> QED BY <1>1, <1>3, <2>1, <2>2, SignalFacts, BabyTakesStill
<1>4. CASE h.type = "candidate" /\ HasOpen(accepted)
  <2> DEFINE d == CandidateReceived(c, <<h.from, h.candidate>>)
  <2>1. accepted' = UpdateLast(accepted, d)
    BY <1>4 DEF BabyReceives, Last
  <2>2. /\ accepted # <<>> /\ c \in Connection
        /\ c.state = "active" => c.kept = {}
    BY <1>4, ConnectionsDomain, SignalFacts
  <2>3. h.from \in Nat /\ h.candidate \in Nat
    BY <1>1, <1>4, SignalCases
  <2>4. /\ d \in Connection /\ Still(d, c) /\ d.gathered = c.gathered
        /\ Has(d, h.from, h.candidate)
    BY <2>2, <2>3, CandidateKept
  <2> HIDE DEF d
  <2>5. /\ StillThere(accepted', accepted) /\ accepted' \in Seq(Connection)
        /\ \A k \in 1..Len(accepted) :
             accepted'[k] = IF k = Len(accepted) THEN d ELSE accepted[k]
    BY <2>1, <2>2, <2>4, BabyStill
  <2>6. \A k \in 1..Len(accepted) :
          /\ accepted'[k].gathered = accepted[k].gathered
          /\ k = Len(accepted) => Has(accepted'[k], h.from, h.candidate)
    BY <2>4, <2>5
  <2> QED BY <1>1, <1>4, <2>5, <2>6, BabyTakesStill
<1>5. h.type \in {"description", "candidate"}
  BY <1>1, SignalCases
<1> QED BY <1>2, <1>3, <1>4, <1>5


-----------------------------------------------------------------------------
(* A link that drops, and a connection that is initiated *)

LEMMA LoseKeeps ==
  ASSUME SignalInv, Lose
  PROVE  SignalInv'
<1>1. /\ lost' = TRUE
      /\ UNCHANGED <<initiated, accepted, recreated, crossed>>
      /\ toBaby' = <<>> \/ toBaby' = toBaby
      /\ toParent' = <<>> \/ toParent' = toParent
  BY DEF Lose
<1>2. <<>> \in Seq(Signal) /\ 1..Len(<<>>) = {}
  BY EmptySeq
<1>3. SignalsInv'
  BY <1>1, <1>2 DEF SignalInv, SignalsInv
<1>4. /\ \A i \in 1..Len(toBaby') : i \in 1..Len(toBaby) /\ toBaby'[i] = toBaby[i]
      /\ \A i \in 1..Len(toParent') : i \in 1..Len(toParent) /\ toParent'[i] = toParent[i]
  BY <1>1, <1>2
<1>5. NamedInv'
  BY <1>1, <1>4 DEF SignalInv, NamedInv
<1>6. OrderlyInv'
  BY <1>1 DEF SignalInv, OrderlyInv
<1>7. CurrentInv'
  BY <1>1, <1>4 DEF SignalInv, CurrentInv
<1>8. ToBabyInv' /\ ToParentInv'
  BY <1>1 DEF ToBabyInv, ToParentInv
<1> QED BY <1>3, <1>5, <1>6, <1>7, <1>8 DEF SignalInv

LEMMA InitiateKeeps ==
  ASSUME SignalInv, Initiate, MaxCandidates \in Nat
  PROVE  SignalInv'
<1>1. /\ initiated' = Append(Closed(initiated), NewConnection("awaiting_answer", 0))
      /\ UNCHANGED <<accepted, toBaby, toParent, recreated, lost>>
      /\ crossed' \in BOOLEAN
      /\ ~crossed' => /\ ~crossed /\ toBaby = <<>> /\ toParent = <<>>
                      /\ HasOpen(accepted) => Last(accepted).described
  BY DEF Initiate, SignalInv, SignalsInv
<1>2. PICK P \in Nat, B \in Nat : P = Len(initiated) /\ B = Len(accepted)
  BY SignalFacts, ConnectionsDomain
<1>3. PICK c \in Connection : /\ c = NewConnection("awaiting_answer", 0)
                              /\ c.state # "active" /\ c.remote = 0
                              /\ c.open /\ ~c.described /\ c.gathered = 0
  BY NewConnectionOf
<1>4. /\ initiated' \in Seq(Connection) /\ Len(initiated') = P + 1 /\ initiated'[P + 1] = c
      /\ \A n \in 1..P : SameButOpen(initiated'[n], initiated[n]) /\ n # P + 1
      /\ \A n \in 1..P + 1 : n \in 1..P \/ n = P + 1
      /\ \A n \in 1..P : n \in 1..P + 1
  BY <1>1, <1>2, <1>3, SignalFacts, Appended
<1>5. \A n \in 1..P : /\ initiated'[n].remote = initiated[n].remote
                      /\ initiated'[n].kept = initiated[n].kept
                      /\ initiated'[n].state = initiated[n].state
                      /\ initiated'[n].described = initiated[n].described
                      /\ initiated'[n].gathered = initiated[n].gathered
  BY <1>4 DEF SameButOpen
<1>6. SignalsInv'
  BY <1>1, <1>4 DEF SignalInv, SignalsInv
<1>7. /\ \A i \in 1..Len(toBaby) : toBaby[i].from \in 1..P
      /\ \A i \in 1..Len(toParent) : toParent[i].from \in 1..B
      /\ \A n \in 1..P : initiated[n].remote <= B
      /\ \A k \in 1..B : accepted[k].remote \in 1..P
  BY <1>2 DEF SignalInv, NamedInv
<1>8. NamedInv'
  <2>1. \A n \in 1..P + 1 : initiated'[n].remote <= B
    BY <1>2, <1>3, <1>4, <1>5, <1>7
  <2>2. /\ \A i \in 1..Len(toBaby) : toBaby[i].from \in 1..P + 1
        /\ \A k \in 1..B : accepted[k].remote \in 1..P + 1
    BY <1>4, <1>7
  <2>3. /\ toBaby' = toBaby /\ toParent' = toParent /\ accepted' = accepted
        /\ Len(initiated') = P + 1
    BY <1>1, <1>4
  <2> QED BY <1>2, <1>7, <2>1, <2>2, <2>3 DEF NamedInv
<1>9. OrderlyInv'
  <2>1. \A n \in 1..P : /\ ~initiated[n].described => initiated[n].gathered = 0
                        /\ initiated[n].state = "active" => initiated[n].kept = {}
    BY <1>2, SignalFacts
  <2>2. \A n \in 1..P + 1 : /\ ~initiated'[n].described => initiated'[n].gathered = 0
                            /\ initiated'[n].state = "active" => initiated'[n].kept = {}
    BY <1>3, <1>4, <1>5, <2>1
  <2>3. accepted' = accepted /\ Len(initiated') = P + 1
    BY <1>1, <1>4
  <2> QED BY <2>2, <2>3, SignalFacts DEF OrderlyInv
<1>10. CurrentInv'
  <2> SUFFICES ASSUME ~crossed' PROVE CurrentInv'
    BY DEF CurrentInv
  <2>1. /\ toBaby = <<>> /\ toParent = <<>> /\ ~crossed
        /\ HasOpen(accepted) => Last(accepted).described
    BY <1>1
  <2>2. 1..Len(toBaby) = {} /\ 1..Len(toParent) = {}
    BY <2>1, EmptySeq
  <2>3. \A k \in 1..B : ~(k = B /\ accepted[k].open /\ ~accepted[k].described)
    <3>1. accepted \in Seq(Connection)
      BY SignalFacts
    <3>2. accepted = <<>> => 1..B = {}
      BY <1>2, EmptySeq
    <3> QED BY <1>2, <2>1, <3>1, <3>2, ConnectionsDomain
  <2>4. \A n \in 1..P : initiated[n].remote # 0 => accepted[initiated[n].remote].remote = n
    BY <1>2, <2>1 DEF SignalInv, CurrentInv
  <2>5. \A n \in 1..P + 1 :
          initiated'[n].remote # 0 => accepted[initiated'[n].remote].remote = n
    BY <1>3, <1>4, <1>5, <2>4
  <2>6. /\ toBaby' = toBaby /\ toParent' = toParent /\ accepted' = accepted
        /\ Len(initiated') = P + 1 /\ Len(accepted') = B
    BY <1>1, <1>2, <1>4
  <2> QED BY <2>2, <2>3, <2>5, <2>6 DEF CurrentInv
<1>11. ToBabyInv'
  <2>1. \A n \in 1..Len(initiated') : n = Len(initiated') => 1..initiated'[n].gathered = {}
    BY <1>3, <1>4
  <2> QED BY <2>1 DEF ToBabyInv
<1>12. ToParentInv'
  <2>1. \A k \in 1..B : accepted[k].remote # P + 1
    BY <1>4, <1>7
  <2>2. accepted' = accepted /\ Len(initiated') = P + 1
    BY <1>1, <1>4
  <2> QED BY <1>2, <2>1, <2>2 DEF ToParentInv
<1> QED BY <1>6, <1>8, <1>9, <1>10, <1>11, <1>12 DEF SignalInv

-----------------------------------------------------------------------------
LEMMA SignalStart ==
  ASSUME SignalInit, MaxRecreated \in Nat
  PROVE  SignalInv
<1>1. /\ initiated = <<>> /\ accepted = <<>> /\ toBaby = <<>> /\ toParent = <<>>
      /\ recreated = 0 /\ lost = FALSE /\ crossed = FALSE
  BY DEF SignalInit
<1>2. 1..Len(<<>>) = {} /\ <<>> \in Seq(Connection) /\ <<>> \in Seq(Signal)
  BY EmptySeq
<1>3. SignalsInv
  <2>1. recreated \in 0..MaxRecreated
    BY <1>1
  <2>2. <<>> \in Seq(Connection) /\ <<>> \in Seq(Signal)
    BY <1>2
  <2>3. /\ initiated \in Seq(Connection) /\ accepted \in Seq(Connection)
        /\ toBaby \in Seq(Signal) /\ toParent \in Seq(Signal)
        /\ lost \in BOOLEAN /\ crossed \in BOOLEAN
    BY <1>1, <2>2
  <2> QED BY <2>1, <2>3 DEF SignalsInv
<1>4. NamedInv /\ OrderlyInv /\ CurrentInv
  BY <1>1, <1>2 DEF NamedInv, OrderlyInv, CurrentInv
<1>5. ToBabyInv /\ ToParentInv
  BY <1>1, <1>2 DEF ToBabyInv, ToParentInv
<1> QED BY <1>3, <1>4, <1>5 DEF SignalInv

THEOREM SignalInvariance ==
  ASSUME MaxRecreated \in Nat, MaxCandidates \in Nat
  PROVE  SignalSpec => []SignalInv
<1>1. SignalInit => SignalInv
  BY SignalStart
<1>2. SignalInv /\ [SignalNext]_signalVars => SignalInv'
  <2> SUFFICES ASSUME SignalInv, [SignalNext]_signalVars PROVE SignalInv'
    OBVIOUS
  <2>1. CASE Initiate
    BY <2>1, InitiateKeeps
  <2>2. CASE Leave
    BY <2>2, LeaveKeeps
  <2>3. CASE Offer
    BY <2>3, OfferKeeps
  <2>4. CASE ParentGathers
    BY <2>4, ParentGathersKeeps
  <2>5. CASE ParentReceives
    BY <2>5, ParentReceivesKeeps
  <2>6. CASE AnswerAccepted
    BY <2>6, AnswerAcceptedKeeps
  <2>7. CASE BabyReceives
    BY <2>7, BabyReceivesKeeps
  <2>8. CASE Answer
    BY <2>8, AnswerKeeps
  <2>9. CASE BabyGathers
    BY <2>9, BabyGathersKeeps
  <2>10. CASE CloseConnections
    BY <2>10, CloseConnectionsKeeps
  <2>11. CASE Lose
    BY <2>11, LoseKeeps
  <2>12. CASE UNCHANGED signalVars
    BY <2>12 DEF SignalInv, SignalsInv, NamedInv, OrderlyInv, CurrentInv, ToBabyInv,
                 ToParentInv, signalVars
  <2> QED BY <2>1, <2>2, <2>3, <2>4, <2>5, <2>6, <2>7, <2>8, <2>9, <2>10, <2>11, <2>12
          DEF SignalNext
<1> QED BY <1>1, <1>2, PTL DEF SignalSpec

\* The lists, the queues and what each connection is given are as they should.
THEOREM SignalTypeCorrect ==
  ASSUME MaxRecreated \in Nat, MaxCandidates \in Nat
  PROVE  SignalSpec => []SignalTypeOK
<1>1. SignalInv => SignalTypeOK
  <2> SUFFICES ASSUME SignalInv PROVE SignalTypeOK
    OBVIOUS
  <2>1. DOMAIN initiated = 1..Len(initiated) /\ DOMAIN accepted = 1..Len(accepted)
    BY SignalFacts, ConnectionsDomain
  <2>2. /\ \A n \in 1..Len(initiated) : initiated[n] \in Connection
        /\ \A k \in 1..Len(accepted) : accepted[k] \in Connection
    BY SignalFacts, ConnectionsDomain
  <2>3. \A c \in Connection : ConnectionOK(c)
    BY DEF Connection, ConnectionOK
  <2>4. /\ \A n \in 1..Len(initiated) : initiated[n].remote <= Len(accepted)
        /\ \A k \in 1..Len(accepted) : accepted[k].remote \in 1..Len(initiated)
    BY DEF SignalInv, NamedInv
  <2> QED BY <2>1, <2>2, <2>3, <2>4 DEF SignalInv, SignalsInv, SignalTypeOK
<1> QED BY <1>1, SignalInvariance, PTL

LEMMA SignalInvSuffices == SignalInv => AnswerIsOwn /\ CandidatesArrive
<1> SUFFICES ASSUME SignalInv PROVE AnswerIsOwn /\ CandidatesArrive
  OBVIOUS
<1>1. AnswerIsOwn
  <2>1. DOMAIN initiated = 1..Len(initiated)
    BY SignalFacts, ConnectionsDomain
  <2> QED BY <2>1 DEF SignalInv, CurrentInv, AnswerIsOwn
<1>2. CandidatesArrive
  <2> SUFFICES ASSUME Settled PROVE CandidatesArrive
    BY DEF CandidatesArrive
  <2>1. /\ ~lost /\ ~crossed /\ toBaby = <<>> /\ toParent = <<>>
        /\ HasOpen(initiated) /\ HasOpen(accepted)
        /\ Last(initiated).state = "active" /\ Last(accepted).state = "active"
        /\ Last(accepted).remote = Len(initiated)
    BY DEF Settled
  <2>2. PICK n \in 1..Len(initiated), k \in 1..Len(accepted) :
          /\ n = Len(initiated) /\ k = Len(accepted)
          /\ Last(initiated) = initiated[n] /\ Last(accepted) = accepted[k]
          /\ initiated[n].open /\ accepted[k].open
    BY <2>1, SignalFacts, ConnectionsDomain
  <2>3. initiated[n].kept = {} /\ accepted[k].kept = {} /\ accepted[k].remote = n
    BY <2>1, <2>2, SignalFacts
  <2>4. 1..Len(toBaby) = {} /\ 1..Len(toParent) = {}
    BY <2>1, EmptySeq
  <2>5. ASSUME NEW c \in 1..initiated[n].gathered
        PROVE  <<n, c>> \in accepted[k].added
    BY <2>1, <2>2, <2>3, <2>4 DEF SignalInv, ToBabyInv, Covered, Has
  <2>6. ASSUME NEW c \in 1..accepted[k].gathered
        PROVE  <<k, c>> \in initiated[n].added
    BY <2>1, <2>2, <2>3, <2>4 DEF SignalInv, ToParentInv, Has
  <2>7. /\ {<<Len(accepted), c>> : c \in 1..Last(accepted).gathered}
             \subseteq Last(initiated).added
        /\ {<<Len(initiated), c>> : c \in 1..Last(initiated).gathered}
             \subseteq Last(accepted).added
    BY <2>2, <2>5, <2>6
  <2> QED BY <2>7 DEF CandidatesArrive
<1> QED BY <1>1, <1>2

\* If no exchange is crossed by the next, the answer that a connection of the
\* parent takes is the answer to its own offer.
THEOREM AnswersAreOwn ==
  ASSUME MaxRecreated \in Nat, MaxCandidates \in Nat
  PROVE  SignalSpec => []AnswerIsOwn
BY SignalInvSuffices, SignalInvariance, PTL

\* When no signal is lost either, and all are delivered, the two ends of an
\* active connection have each other's candidates.
THEOREM CandidatesArrived ==
  ASSUME MaxRecreated \in Nat, MaxCandidates \in Nat
  PROVE  SignalSpec => []CandidatesArrive
BY SignalInvSuffices, SignalInvariance, PTL


-----------------------------------------------------------------------------
(***************************************************************************)
(* The tabs and their refresh tokens                                       *)
(***************************************************************************)

Request == [at : {"none", "sent", "answered", "retry"}, token : Nat, answer : Nat]

TabsInv ==
  /\ tab \in [Tabs -> {"closed", "Unauthorized", "Authorized"} \cup Refreshing]
  /\ request \in [Tabs -> Request]
  /\ \A t \in Tabs : request[t].at # "none" <=> tab[t] \in Refreshing
  /\ account \in BOOLEAN /\ projected \in BOOLEAN
  /\ losses \in 0..MaxLosses /\ restarts \in 0..MaxRestarts
  /\ reasons \subseteq {"shared", "lost", "early"}

\* No token is used, sent or kept before it is issued.
IssuedInv ==
  /\ issued \in Nat /\ cookie \in Nat /\ cookie <= issued /\ used \subseteq Nat
  /\ \A n \in used : n <= issued
  /\ \A t \in Tabs : request[t].token <= issued /\ request[t].answer <= issued

Sent(t) == request[t].at = "sent"
Got(t) == request[t].at = "answered"

\* Who is signed in, or about to be again, has an account and a cookie.
SignedIn ==
  /\ \A t \in Tabs : tab[t] = "Authorized" \/ tab[t] \in Refreshing => account
  /\ account => cookie # 0

\* The cookie is good, or the answer to it, which brings the next, is on its way.
CookieIsGood ==
  cookie \in used => \E t \in Tabs : Got(t) /\ request[t].token = cookie

\* So is what was sent, and no two requests present the same token.
RequestsAreGood ==
  /\ \A t \in Tabs : InFlight(t) => request[t].token # 0
  /\ \A t \in Tabs : Sent(t) => request[t].token \notin used
  /\ \A t, u \in Tabs : t # u /\ InFlight(t) /\ InFlight(u) =>
                          request[t].token # request[u].token

\* An answer brings a token that nobody has seen.
AnswersAreGood ==
  /\ \A t \in Tabs : Got(t) =>
       request[t].answer # 0 /\ request[t].answer \notin used /\ request[t].answer # cookie
  /\ \A t, u \in Tabs : Got(t) /\ InFlight(u) => request[t].answer # request[u].token
  /\ \A t, u \in Tabs : t # u /\ Got(t) /\ Got(u) => request[t].answer # request[u].answer

Good == SignedIn /\ CookieIsGood /\ RequestsAreGood /\ AnswersAreGood

AuthorizationInv == TabsInv /\ IssuedInv /\ (reasons = {} => Good)

-----------------------------------------------------------------------------
LEMMA AuthorizationStart ==
  ASSUME MaxLosses \in Nat, MaxRestarts \in Nat, AuthorizationInit
  PROVE  AuthorizationInv
<1>1. /\ tab = [t \in Tabs |-> "closed"] /\ request = [t \in Tabs |-> NoRequest]
      /\ account = FALSE /\ cookie = 0 /\ issued = 0 /\ used = {} /\ projected = TRUE
      /\ losses = 0 /\ restarts = 0 /\ reasons = {}
  BY DEF AuthorizationInit
<1>2. /\ \A t \in Tabs : tab[t] = "closed" /\ request[t] = NoRequest
      /\ NoRequest \in Request /\ NoRequest.at = "none"
      /\ NoRequest.token = 0 /\ NoRequest.answer = 0
  BY <1>1 DEF NoRequest, Request
<1>3. TabsInv
  <2>1. tab \in [Tabs -> {"closed", "Unauthorized", "Authorized"} \cup Refreshing]
    BY <1>1
  <2>2. request \in [Tabs -> Request]
    BY <1>1, <1>2
  <2>3. \A t \in Tabs : request[t].at # "none" <=> tab[t] \in Refreshing
    BY <1>2 DEF Refreshing
  <2>4. 0 \in 0..MaxLosses /\ 0 \in 0..MaxRestarts
    OBVIOUS
  <2> QED BY <1>1, <2>1, <2>2, <2>3, <2>4 DEF TabsInv
<1>4. IssuedInv
  BY <1>1, <1>2 DEF IssuedInv
<1>5. Good
  BY <1>1, <1>2 DEF Good, SignedIn, CookieIsGood, RequestsAreGood, AnswersAreGood, Refreshing,
     Sent, Got, InFlight
<1> QED BY <1>3, <1>4, <1>5 DEF AuthorizationInv

\* One tab's request changes, to r.
LEMMA RequestOf ==
  ASSUME TabsInv, NEW t \in Tabs, NEW r \in Request, request' = [request EXCEPT ![t] = r]
  PROVE  /\ request' \in [Tabs -> Request] /\ request'[t] = r
         /\ \A u \in Tabs : u # t => request'[u] = request[u]
BY DEF TabsInv

\* It sends the cookie.
LEMMA SentRequest ==
  ASSUME TabsInv, IssuedInv, NEW t \in Tabs, SendRequest(t)
  PROVE  /\ request' \in [Tabs -> Request]
         /\ request'[t].at = "sent" /\ request'[t].token = cookie /\ request'[t].answer = 0
         /\ \A u \in Tabs : u # t => request'[u] = request[u]
<1>1. PICK r : r = [at |-> "sent", token |-> cookie, answer |-> 0]
  OBVIOUS
<1>2. r \in Request /\ r.at = "sent" /\ r.token = cookie /\ r.answer = 0
  BY <1>1 DEF Request, IssuedInv
<1>3. request' = [request EXCEPT ![t] = r]
  BY <1>1 DEF SendRequest
<1> QED BY <1>2, <1>3, RequestOf

\* What it sends is good when nobody else sends it and its own last answer,
\* if there was one, was taken.
LEMMA SendGood ==
  ASSUME TabsInv, IssuedInv, Good, NEW t \in Tabs, SendRequest(t), ~Got(t), cookie # 0,
         Shared(t) = {}, UNCHANGED <<cookie, used>>
  PROVE  CookieIsGood' /\ RequestsAreGood' /\ AnswersAreGood'
<1>1. /\ request'[t].at = "sent" /\ request'[t].token = cookie
      /\ \A u \in Tabs : u # t => request'[u] = request[u]
  BY SentRequest
<1>2. \A u \in Tabs : u # t /\ InFlight(u) => request[u].token # cookie
  BY DEF Shared
<1>3. cookie \notin used
  BY <1>2 DEF Good, CookieIsGood, Got, InFlight
<1>4. /\ Sent(t)' /\ ~Got(t)'
      /\ \A u \in Tabs : u # t => /\ Sent(u)' <=> Sent(u)
                                  /\ Got(u)' <=> Got(u)
                                  /\ InFlight(u)' <=> InFlight(u)
  BY <1>1 DEF Sent, Got, InFlight
<1>5. CookieIsGood'
  BY <1>3 DEF CookieIsGood
<1>6. RequestsAreGood'
  BY <1>1, <1>2, <1>3, <1>4 DEF Good, RequestsAreGood
<1>7. AnswersAreGood'
  <2>1. \A u \in Tabs : Got(u)' => u # t /\ Got(u) /\ request'[u] = request[u]
    BY <1>1, <1>4
  <2>2. \A u \in Tabs : InFlight(u)' => u = t \/ (InFlight(u) /\ request'[u] = request[u])
    BY <1>1, <1>4
  <2>3. \A u \in Tabs : Got(u)' => /\ request'[u].answer # 0 /\ request'[u].answer \notin used
                                   /\ request'[u].answer # cookie
    BY <2>1 DEF Good, AnswersAreGood
  <2> QED BY <1>1, <2>1, <2>2, <2>3 DEF Good, AnswersAreGood
<1> QED BY <1>5, <1>6, <1>7

\* Nothing gets worse when a request that was not answered is dropped.
LEMMA DropGood ==
  ASSUME TabsInv, Good, NEW t \in Tabs, ~Got(t), NEW r \in Request,
         r.at \in {"none", "retry"}, request' = [request EXCEPT ![t] = r],
         UNCHANGED <<cookie, used>>
  PROVE  CookieIsGood' /\ RequestsAreGood' /\ AnswersAreGood'
<1>1. request'[t] = r /\ \A u \in Tabs : u # t => request'[u] = request[u]
  BY RequestOf
<1>2. /\ ~Sent(t)' /\ ~Got(t)' /\ ~InFlight(t)'
      /\ \A u \in Tabs : u # t => /\ Sent(u)' <=> Sent(u)
                                  /\ Got(u)' <=> Got(u)
                                  /\ InFlight(u)' <=> InFlight(u)
  BY <1>1 DEF Sent, Got, InFlight
<1>3. CookieIsGood'
  BY <1>1, <1>2 DEF Good, CookieIsGood
<1>4. RequestsAreGood'
  BY <1>1, <1>2 DEF Good, RequestsAreGood
<1>5. AnswersAreGood'
  BY <1>1, <1>2 DEF Good, AnswersAreGood
<1> QED BY <1>3, <1>4, <1>5

\* What is abandoned without being taken by the backend.
LEMMA Abandoned ==
  ASSUME TabsInv, IssuedInv, NEW t \in Tabs, NEW more, more \subseteq {"shared", "lost", "early"},
         Abandon(t, more), MaxLosses \in Nat
  PROVE  /\ losses' \in 0..MaxLosses /\ reasons' \subseteq {"shared", "lost", "early"}
         /\ used' \subseteq Nat /\ \A n \in used' : n <= issued
         /\ reasons' = {} => reasons = {} /\ more = {} /\ used' = used /\ ~Got(t)
<1>1. losses' \in 0..MaxLosses
  BY DEF Abandon, TabsInv
<1>2. reasons' \subseteq {"shared", "lost", "early"}
  BY DEF Abandon, TabsInv
<1>3. used' = used \/ used' = used \cup {request[t].token}
  BY DEF Abandon
<1>4. request[t].token \in Nat /\ request[t].token <= issued
  BY DEF TabsInv, IssuedInv, Request
<1>5. reasons' = {} => reasons = {} /\ more = {} /\ used' = used /\ ~Got(t)
  BY DEF Abandon, Got
<1> QED BY <1>1, <1>2, <1>3, <1>4, <1>5 DEF IssuedInv

-----------------------------------------------------------------------------
(* The tabs *)

LEMMA LoadPageInv ==
  ASSUME MaxLosses \in Nat, AuthorizationInv, NEW t \in Tabs, LoadPage(t)
  PROVE  AuthorizationInv' /\ (tab[t] \in Refreshing /\ tab'[t] = "Unauthorized" => reasons' # {})
<1> USE DEF AuthorizationInv
<1>1. PICK more : more = IF account THEN Shared(t) ELSE {}
  OBVIOUS
<1>2. /\ IF tab[t] = "closed" THEN reasons' = reasons \cup more /\ UNCHANGED <<used, losses>>
         ELSE Abandon(t, more)
      /\ IF account
         THEN tab' = [tab EXCEPT ![t] = "RefreshingForNewSession"] /\ SendRequest(t)
         ELSE /\ tab' = [tab EXCEPT ![t] = "Unauthorized"]
              /\ request' = [request EXCEPT ![t] = NoRequest]
      /\ UNCHANGED <<account, cookie, issued, projected, restarts>>
  BY <1>1 DEF LoadPage
<1>3. more \subseteq {"shared", "lost", "early"}
  BY <1>1 DEF Shared
<1>4. /\ losses' \in 0..MaxLosses /\ reasons' \subseteq {"shared", "lost", "early"}
      /\ used' \subseteq Nat /\ \A n \in used' : n <= issued
      /\ reasons' = {} => reasons = {} /\ more = {} /\ used' = used /\ ~Got(t)
  <2>1. CASE tab[t] = "closed"
    <3>1. request[t].at = "none"
      BY <2>1 DEF TabsInv, Refreshing, Request
    <3> QED BY <1>2, <1>3, <2>1, <3>1 DEF TabsInv, IssuedInv, Got
  <2>2. CASE tab[t] # "closed"
    BY <1>2, <1>3, <2>2, Abandoned
  <2> QED BY <2>1, <2>2
<1>5. CASE account
  <2>1. /\ tab' = [tab EXCEPT ![t] = "RefreshingForNewSession"] /\ SendRequest(t)
        /\ more = Shared(t)
    BY <1>1, <1>2, <1>5
  <2>2. /\ request' \in [Tabs -> Request]
        /\ request'[t].at = "sent" /\ request'[t].token = cookie /\ request'[t].answer = 0
        /\ \A u \in Tabs : u # t => request'[u] = request[u]
    BY <2>1, SentRequest
  <2>3. TabsInv'
    BY <1>2, <1>4, <2>1, <2>2 DEF TabsInv, Refreshing
  <2>4. IssuedInv'
    BY <1>2, <1>4, <2>2 DEF IssuedInv
  <2>5. reasons' = {} => Good'
    <3> SUFFICES ASSUME reasons' = {} PROVE Good'
      OBVIOUS
    <3>1. Good /\ ~Got(t) /\ Shared(t) = {} /\ used' = used /\ cookie # 0
      BY <1>4, <1>5, <2>1 DEF Good, SignedIn
    <3>2. CookieIsGood' /\ RequestsAreGood' /\ AnswersAreGood'
      BY <1>2, <2>1, <3>1, SendGood
    <3>3. SignedIn'
      BY <1>2, <1>5, <3>1 DEF SignedIn
    <3> QED BY <3>2, <3>3 DEF Good
  <2>6. tab'[t] # "Unauthorized"
    BY <2>1 DEF TabsInv
  <2> QED BY <2>3, <2>4, <2>5, <2>6
<1>6. CASE ~account
  <2>1. /\ tab' = [tab EXCEPT ![t] = "Unauthorized"]
        /\ request' = [request EXCEPT ![t] = NoRequest]
    BY <1>2, <1>6
  <2>2. NoRequest \in Request /\ NoRequest.at = "none" /\ NoRequest.token = 0 /\ NoRequest.answer = 0
    BY DEF NoRequest, Request
  <2>3. /\ request' \in [Tabs -> Request] /\ request'[t] = NoRequest
        /\ \A u \in Tabs : u # t => request'[u] = request[u]
    BY <2>1, <2>2, RequestOf
  <2>4. TabsInv'
    BY <1>2, <1>4, <2>1, <2>2, <2>3 DEF TabsInv, Refreshing
  <2>5. IssuedInv'
    BY <1>2, <1>4, <2>2, <2>3 DEF IssuedInv
  <2>6. reasons' = {} => Good' /\ tab[t] \notin Refreshing
    <3> SUFFICES ASSUME reasons' = {} PROVE Good' /\ tab[t] \notin Refreshing
      OBVIOUS
    <3>1. Good /\ ~Got(t) /\ used' = used
      BY <1>4
    <3>2. CookieIsGood' /\ RequestsAreGood' /\ AnswersAreGood'
      BY <1>2, <2>1, <2>2, <3>1, DropGood
    <3>3. \A u \in Tabs : tab[u] # "Authorized" /\ tab[u] \notin Refreshing
      BY <1>6, <3>1 DEF Good, SignedIn
    <3>4. SignedIn'
      BY <1>2, <1>6, <2>1, <3>3 DEF SignedIn, TabsInv, Refreshing
    <3> QED BY <3>2, <3>3, <3>4 DEF Good
  <2> QED BY <2>4, <2>5, <2>6
<1> QED BY <1>5, <1>6

LEMMA LoginInv ==
  ASSUME AuthorizationInv, NEW t \in Tabs, Login(t) \/ LoginFails(t)
  PROVE  AuthorizationInv' /\ (tab' = tab \/ tab'[t] # "Unauthorized")
<1> USE DEF AuthorizationInv
<1>1. /\ tab[t] = "Unauthorized" /\ issued' = issued + 1 /\ cookie' = issued + 1
      /\ \/ account' = TRUE /\ tab' = [tab EXCEPT ![t] = "Authorized"]
         \/ account' = account /\ tab' = tab
      /\ UNCHANGED <<request, used, projected, losses, restarts, reasons>>
  BY DEF Login, LoginFails, PasswordGrant
<1>2. request[t].at = "none"
  BY <1>1 DEF TabsInv, Refreshing, Request
<1>3. TabsInv'
  BY <1>1, <1>2 DEF TabsInv, Refreshing
<1>4. /\ issued + 1 \in Nat /\ issued + 1 # 0 /\ issued + 1 \notin used
      /\ \A n \in Nat : n <= issued => n <= issued + 1 /\ n # issued + 1
  BY DEF IssuedInv
<1>5. \A u \in Tabs : request[u].token \in Nat /\ request[u].answer \in Nat
  BY DEF TabsInv, Request
<1>6. IssuedInv'
  BY <1>1, <1>4, <1>5 DEF IssuedInv
<1>7. reasons = {} => Good'
  <2> SUFFICES ASSUME reasons = {} PROVE Good'
    OBVIOUS
  <2>1. \A u \in Tabs : /\ Sent(u)' <=> Sent(u)
                        /\ Got(u)' <=> Got(u)
                        /\ InFlight(u)' <=> InFlight(u)
    BY <1>1 DEF Sent, Got, InFlight
  <2>2. SignedIn'
    <3>1. cookie' # 0
      BY <1>1, <1>4
    <3>2. CASE account' = TRUE
      BY <3>1, <3>2 DEF SignedIn
    <3>3. CASE account' = account /\ tab' = tab
      BY <3>1, <3>3 DEF Good, SignedIn
    <3> QED BY <1>1, <3>2, <3>3
  <2>3. CookieIsGood'
    BY <1>1, <1>4 DEF CookieIsGood
  <2>4. RequestsAreGood'
    BY <1>1, <2>1 DEF Good, RequestsAreGood
  <2>5. AnswersAreGood'
    BY <1>1, <1>4, <1>5, <2>1 DEF Good, AnswersAreGood, IssuedInv
  <2> QED BY <2>2, <2>3, <2>4, <2>5 DEF Good
<1>8. tab' = tab \/ tab'[t] = "Authorized"
  BY <1>1 DEF TabsInv
<1> QED BY <1>1, <1>3, <1>6, <1>7, <1>8

\* A tab that has an account sends the cookie, for the first time or again.
LEMMA SendInv ==
  ASSUME AuthorizationInv, NEW t \in Tabs, NEW s \in Refreshing, SendRequest(t),
         tab[t] = "Authorized" \/ tab[t] \in Refreshing, ~Got(t),
         tab' = [tab EXCEPT ![t] = s], reasons' = reasons \cup Shared(t),
         UNCHANGED <<account, cookie, issued, used, projected, losses, restarts>>
  PROVE  AuthorizationInv'
<1> USE DEF AuthorizationInv
<1>1. /\ request' \in [Tabs -> Request]
      /\ request'[t].at = "sent" /\ request'[t].token = cookie /\ request'[t].answer = 0
      /\ \A u \in Tabs : u # t => request'[u] = request[u]
  BY SentRequest
<1>2. Shared(t) \subseteq {"shared", "lost", "early"}
  BY DEF Shared
<1>3. /\ tab' \in [Tabs -> {"closed", "Unauthorized", "Authorized"} \cup Refreshing]
      /\ tab'[t] = s /\ \A u \in Tabs : u # t => tab'[u] = tab[u]
  BY DEF TabsInv
<1>4. TabsInv'
  BY <1>1, <1>2, <1>3 DEF TabsInv
<1>5. IssuedInv'
  BY <1>1 DEF IssuedInv
<1>6. reasons' = {} => Good'
  <2> SUFFICES ASSUME reasons' = {} PROVE Good'
    OBVIOUS
  <2>1. Good /\ Shared(t) = {}
    OBVIOUS
  <2>2. account /\ cookie # 0
    BY <2>1 DEF Good, SignedIn
  <2>3. CookieIsGood' /\ RequestsAreGood' /\ AnswersAreGood'
    BY <2>1, <2>2, SendGood
  <2> QED BY <2>2, <2>3 DEF Good, SignedIn
<1> QED BY <1>4, <1>5, <1>6

LEMMA RefreshInv ==
  ASSUME AuthorizationInv, NEW t \in Tabs, RefreshTokenIfNeeded(t)
  PROVE  AuthorizationInv' /\ tab'[t] # "Unauthorized"
<1>1. ~Got(t) /\ tab[t] = "Authorized"
  BY DEF RefreshTokenIfNeeded, AuthorizationInv, TabsInv, Refreshing, Got
<1>2. "RefreshingToContinueSession" \in Refreshing
  BY DEF Refreshing
<1>3. AuthorizationInv'
  BY <1>1, <1>2, SendInv DEF RefreshTokenIfNeeded, backendVars
<1> QED BY <1>3 DEF RefreshTokenIfNeeded, AuthorizationInv, TabsInv

LEMMA RetryInv ==
  ASSUME AuthorizationInv, NEW t \in Tabs, Retry(t)
  PROVE  AuthorizationInv' /\ tab' = tab
<1>1. ~Got(t) /\ tab[t] \in Refreshing
  BY DEF Retry, AuthorizationInv, TabsInv, Got
<1>2. tab' = tab /\ tab' = [tab EXCEPT ![t] = tab[t]]
  BY DEF Retry, AuthorizationInv, TabsInv
<1>3. AuthorizationInv'
  BY <1>1, <1>2, SendInv DEF Retry, backendVars
<1> QED BY <1>2, <1>3

LEMMA LoseRequestInv ==
  ASSUME MaxLosses \in Nat, AuthorizationInv, NEW t \in Tabs, LoseRequest(t)
  PROVE  AuthorizationInv' /\ tab' = tab
<1> USE DEF AuthorizationInv
<1>1. PICK r : r = [NoRequest EXCEPT !.at = "retry"]
  OBVIOUS
<1>2. r \in Request /\ r.at = "retry" /\ r.token = 0 /\ r.answer = 0
  BY <1>1 DEF NoRequest, Request
<1>3. /\ InFlight(t) /\ Abandon(t, {}) /\ request' = [request EXCEPT ![t] = r]
      /\ UNCHANGED <<tab, account, cookie, issued, projected, restarts>>
  BY <1>1 DEF LoseRequest
<1>4. /\ losses' \in 0..MaxLosses /\ reasons' \subseteq {"shared", "lost", "early"}
      /\ used' \subseteq Nat /\ \A n \in used' : n <= issued
      /\ reasons' = {} => reasons = {} /\ used' = used /\ ~Got(t)
  BY <1>3, Abandoned
<1>5. /\ request' \in [Tabs -> Request] /\ request'[t] = r
      /\ \A u \in Tabs : u # t => request'[u] = request[u]
  BY <1>2, <1>3, RequestOf
<1>6. tab[t] \in Refreshing
  BY <1>3 DEF TabsInv, InFlight
<1>7. TabsInv'
  BY <1>2, <1>3, <1>4, <1>5, <1>6 DEF TabsInv
<1>8. IssuedInv'
  BY <1>2, <1>3, <1>4, <1>5 DEF IssuedInv
<1>9. reasons' = {} => Good'
  <2> SUFFICES ASSUME reasons' = {} PROVE Good'
    OBVIOUS
  <2>1. Good /\ ~Got(t) /\ used' = used
    BY <1>4
  <2>2. CookieIsGood' /\ RequestsAreGood' /\ AnswersAreGood'
    BY <1>2, <1>3, <2>1, DropGood
  <2> QED BY <1>3, <2>1, <2>2 DEF Good, SignedIn
<1> QED BY <1>3, <1>7, <1>8, <1>9

LEMMA AnsweredInv ==
  ASSUME AuthorizationInv, NEW t \in Tabs, Answered(t)
  PROVE  AuthorizationInv' /\ (tab'[t] = "Unauthorized" => reasons' # {})
<1> USE DEF AuthorizationInv
<1>1. NoRequest \in Request /\ NoRequest.at = "none" /\ NoRequest.token = 0 /\ NoRequest.answer = 0
  BY DEF NoRequest, Request
<1>2. /\ Got(t) /\ request' = [request EXCEPT ![t] = NoRequest]
      /\ IF request[t].answer # 0
         THEN /\ cookie' = request[t].answer /\ tab' = [tab EXCEPT ![t] = "Authorized"]
              /\ UNCHANGED account
         ELSE /\ tab' = [tab EXCEPT ![t] = "Unauthorized"] /\ account' = FALSE
              /\ UNCHANGED cookie
      /\ UNCHANGED <<issued, used, projected, restarts, losses, reasons>>
  BY DEF Answered, Got, backendVars
<1>3. /\ request' \in [Tabs -> Request] /\ request'[t] = NoRequest
      /\ \A u \in Tabs : u # t => request'[u] = request[u]
  BY <1>1, <1>2, RequestOf
<1>4. PICK s \in {"Authorized", "Unauthorized"} :
        tab' = [tab EXCEPT ![t] = s] /\ (request[t].answer # 0 => s = "Authorized")
  BY <1>2
<1>5. /\ tab' \in [Tabs -> {"closed", "Unauthorized", "Authorized"} \cup Refreshing]
      /\ tab'[t] = s /\ tab'[t] \notin Refreshing /\ \A u \in Tabs : u # t => tab'[u] = tab[u]
  BY <1>4 DEF TabsInv, Refreshing
<1>6. account' \in BOOLEAN
  BY <1>2 DEF TabsInv
<1>7. TabsInv'
  BY <1>1, <1>2, <1>3, <1>5, <1>6 DEF TabsInv
<1>8. request[t].answer \in Nat /\ request[t].answer <= issued
  BY DEF TabsInv, IssuedInv, Request
<1>9. IssuedInv'
  BY <1>1, <1>2, <1>3, <1>8 DEF IssuedInv
<1>10. reasons = {} => Good' /\ s = "Authorized"
  <2> SUFFICES ASSUME reasons = {} PROVE Good' /\ s = "Authorized"
    OBVIOUS
  <2>1. request[t].answer # 0 /\ request[t].answer \notin used
    BY <1>2 DEF Good, AnswersAreGood
  <2>2. cookie' = request[t].answer /\ UNCHANGED account /\ s = "Authorized"
    BY <1>2, <1>4, <2>1
  <2>3. account
    BY <1>2 DEF Good, SignedIn, TabsInv, Got
  <2>4. /\ ~Sent(t)' /\ ~Got(t)' /\ ~InFlight(t)'
        /\ \A u \in Tabs : u # t => /\ Sent(u)' <=> Sent(u)
                                    /\ Got(u)' <=> Got(u)
                                    /\ InFlight(u)' <=> InFlight(u)
    BY <1>1, <1>3 DEF Sent, Got, InFlight
  <2>5. SignedIn'
    BY <2>1, <2>2, <2>3 DEF SignedIn
  <2>6. CookieIsGood'
    BY <1>2, <2>1, <2>2 DEF CookieIsGood
  <2>7. RequestsAreGood'
    BY <1>2, <1>3, <2>4 DEF Good, RequestsAreGood
  <2>8. AnswersAreGood'
    BY <1>2, <1>3, <2>2, <2>4 DEF Good, AnswersAreGood
  <2> QED BY <2>2, <2>5, <2>6, <2>7, <2>8 DEF Good
<1> QED BY <1>2, <1>5, <1>7, <1>9, <1>10

-----------------------------------------------------------------------------
(* The backend *)

LEMMA GrantInv ==
  ASSUME AuthorizationInv, NEW t \in Tabs, GetTokenUsingRefreshTokenGrant(t)
  PROVE  AuthorizationInv' /\ tab' = tab
<1> USE DEF AuthorizationInv
<1>1. PICK k \in Nat, n \in Nat : k = request[t].token /\ n = issued /\ k <= n
  BY DEF TabsInv, IssuedInv, Request
<1>2. PICK fresh \in BOOLEAN : fresh <=> (k # 0 /\ k \notin used)
  OBVIOUS
<1>3. /\ Sent(t) /\ used' = IF fresh THEN used \cup {k} ELSE used
      /\ IF fresh /\ projected
         THEN /\ issued' = n + 1
              /\ request' = [request EXCEPT ![t].at = "answered", ![t].answer = n + 1]
         ELSE request' = [request EXCEPT ![t].at = "answered"] /\ UNCHANGED issued
      /\ reasons' = IF projected THEN reasons ELSE reasons \cup {"early"}
      /\ UNCHANGED <<tab, account, cookie, projected, losses, restarts>>
  BY <1>1, <1>2 DEF GetTokenUsingRefreshTokenGrant, Granted, Sent
<1>4. PICK a \in Nat : a = IF fresh /\ projected THEN n + 1 ELSE request[t].answer
  BY DEF TabsInv, Request
<1>5. PICK r : r = [request[t] EXCEPT !.at = "answered", !.answer = a]
  OBVIOUS
<1>6. r \in Request /\ r.at = "answered" /\ r.token = k /\ r.answer = a
  BY <1>1, <1>5 DEF TabsInv, Request
<1>7. request' = [request EXCEPT ![t] = r]
  <2>1. request[t] \in Request
    BY DEF TabsInv
  <2>2. r = IF fresh /\ projected THEN [request[t] EXCEPT !.at = "answered", !.answer = n + 1]
            ELSE [request[t] EXCEPT !.at = "answered"]
    BY <1>4, <1>5, <2>1 DEF Request
  <2> QED BY <1>3, <2>2 DEF TabsInv
<1>8. /\ request' \in [Tabs -> Request] /\ request'[t] = r
      /\ \A u \in Tabs : u # t => request'[u] = request[u]
  BY <1>6, <1>7, RequestOf
<1>9. tab[t] \in Refreshing
  BY <1>3 DEF TabsInv, Sent
<1>10. TabsInv'
  BY <1>3, <1>6, <1>8, <1>9 DEF TabsInv
<1>11. issued' \in {n, n + 1} /\ n \in Nat /\ \A m \in Nat : m <= n => m <= issued'
  BY <1>1, <1>3
<1>12. \A u \in Tabs : request[u].token \in Nat /\ request[u].answer \in Nat
  BY DEF TabsInv, Request
<1>13. a <= issued'
  BY <1>1, <1>3, <1>4, <1>12 DEF IssuedInv
<1>14. IssuedInv'
  <2>1. used' \subseteq Nat /\ \A m \in used' : m <= n
    BY <1>1, <1>3 DEF IssuedInv
  <2>2. \A u \in Tabs : request'[u].token <= issued' /\ request'[u].answer <= issued'
    BY <1>1, <1>6, <1>8, <1>11, <1>12, <1>13 DEF IssuedInv
  <2>3. issued' \in Nat /\ cookie' \in Nat /\ cookie' <= issued'
    BY <1>1, <1>3, <1>11 DEF IssuedInv
  <2>4. \A m \in used' : m <= issued'
    BY <1>11, <2>1
  <2> QED BY <2>1, <2>2, <2>3, <2>4 DEF IssuedInv
<1>15. reasons' = {} => Good'
  <2> SUFFICES ASSUME reasons' = {} PROVE Good'
    OBVIOUS
  <2>1. Good /\ projected
    BY <1>3
  <2>2. fresh
    BY <1>1, <1>2, <1>3, <2>1 DEF Good, RequestsAreGood, Sent, InFlight
  <2>3. used' = used \cup {k} /\ a = n + 1 /\ k \notin used
    BY <1>2, <1>3, <1>4, <2>1, <2>2
  <2>4. /\ ~Sent(t)' /\ Got(t)' /\ InFlight(t)' /\ Sent(t) /\ InFlight(t) /\ ~Got(t)
        /\ \A u \in Tabs : u # t => /\ Sent(u)' <=> Sent(u)
                                    /\ Got(u)' <=> Got(u)
                                    /\ InFlight(u)' <=> InFlight(u)
    BY <1>3, <1>6, <1>8 DEF Sent, Got, InFlight
  <2>5. \A m \in Nat : m <= n => m # n + 1
    BY <1>1
  <2>6. SignedIn'
    BY <1>3, <2>1 DEF Good, SignedIn
  <2>7. CookieIsGood'
    <3>1. CASE cookie = k
      BY <1>3, <1>6, <1>8, <2>4, <3>1 DEF CookieIsGood
    <3>2. CASE cookie # k
      BY <1>3, <1>8, <2>1, <2>3, <2>4, <3>2 DEF Good, CookieIsGood
    <3> QED BY <3>1, <3>2
  <2>8. RequestsAreGood'
    <3>1. \A u \in Tabs : InFlight(u)' <=> InFlight(u)
      BY <2>4
    <3>2. \A u \in Tabs : request'[u].token = request[u].token
      BY <1>1, <1>6, <1>8
    <3>3. \A u \in Tabs : Sent(u)' => u # t /\ Sent(u) /\ request[u].token # k
      BY <1>1, <2>1, <2>4 DEF Good, RequestsAreGood, Sent, InFlight
    <3>4. /\ \A u \in Tabs : InFlight(u)' => request'[u].token # 0
          /\ \A u, v \in Tabs : u # v /\ InFlight(u)' /\ InFlight(v)' =>
                                  request'[u].token # request'[v].token
      BY <2>1, <3>1, <3>2 DEF Good, RequestsAreGood
    <3>5. \A u \in Tabs : Sent(u)' => request'[u].token \notin used'
      BY <2>1, <2>3, <3>2, <3>3 DEF Good, RequestsAreGood
    <3> QED BY <3>4, <3>5 DEF RequestsAreGood
  <2>9. AnswersAreGood'
    <3>1. a # 0 /\ a \notin used' /\ a # cookie'
      BY <1>1, <1>3, <2>3, <2>5 DEF IssuedInv
    <3>2. \A u \in Tabs : request'[u].token # a
      BY <1>1, <1>6, <1>8, <1>12, <2>3, <2>5 DEF IssuedInv
    <3>3. \A u \in Tabs : u # t => request'[u].answer # a
      BY <1>1, <1>8, <1>12, <2>3, <2>5 DEF IssuedInv
    <3>4. \A u \in Tabs : u # t /\ Got(u)' =>
            /\ request'[u].answer # 0 /\ request'[u].answer \notin used'
            /\ request'[u].answer # cookie'
      BY <1>1, <1>3, <1>8, <2>1, <2>3, <2>4 DEF Good, AnswersAreGood
    <3>5. \A u, v \in Tabs : u # t /\ Got(u)' /\ InFlight(v)' =>
            request'[u].answer # request'[v].token
      BY <1>1, <1>6, <1>8, <2>1, <2>4 DEF Good, AnswersAreGood
    <3>6. \A u, v \in Tabs : u # t /\ v # t /\ u # v /\ Got(u)' /\ Got(v)' =>
            request'[u].answer # request'[v].answer
      BY <1>8, <2>1, <2>4 DEF Good, AnswersAreGood
    <3> QED BY <1>6, <1>8, <3>1, <3>2, <3>3, <3>4, <3>5, <3>6 DEF AnswersAreGood
  <2> QED BY <2>6, <2>7, <2>8, <2>9 DEF Good
<1> QED BY <1>3, <1>10, <1>14, <1>15

LEMMA RestartBackendInv ==
  ASSUME MaxRestarts \in Nat, AuthorizationInv, RestartBackend
  PROVE  AuthorizationInv' /\ tab' = tab
<1> USE DEF AuthorizationInv
<1>1. PICK r : r = [NoRequest EXCEPT !.at = "retry"]
  OBVIOUS
<1>2. r \in Request /\ r.at = "retry" /\ r.token = 0 /\ r.answer = 0
  BY <1>1 DEF NoRequest, Request
<1>3. /\ restarts < MaxRestarts /\ restarts' = restarts + 1 /\ used' = {} /\ projected' = FALSE
      /\ request' = [t \in Tabs |-> IF request[t].at = "sent" THEN r ELSE request[t]]
      /\ UNCHANGED <<tab, account, cookie, issued, losses, reasons>>
  BY <1>1 DEF RestartBackend
<1>4. /\ request' \in [Tabs -> Request]
      /\ \A t \in Tabs : request'[t] = IF request[t].at = "sent" THEN r ELSE request[t]
  BY <1>2, <1>3 DEF TabsInv
<1>5. restarts' \in 0..MaxRestarts
  BY <1>3 DEF TabsInv
<1>6. \A t \in Tabs : request'[t].at # "none" <=> request[t].at # "none"
  BY <1>2, <1>4
<1>7. TabsInv'
  BY <1>3, <1>4, <1>5, <1>6 DEF TabsInv
<1>8. \A t \in Tabs : request'[t].token <= issued /\ request'[t].answer <= issued
  BY <1>2, <1>4 DEF IssuedInv
<1>9. IssuedInv'
  BY <1>3, <1>8 DEF IssuedInv
<1>10. reasons = {} => Good'
  <2> SUFFICES ASSUME reasons = {} PROVE Good'
    OBVIOUS
  <2>1. \A t \in Tabs : /\ ~Sent(t)'
                        /\ InFlight(t)' => Got(t) /\ InFlight(t) /\ request'[t] = request[t]
                        /\ Got(t)' => Got(t) /\ request'[t] = request[t]
    BY <1>2, <1>4 DEF Sent, Got, InFlight
  <2>2. SignedIn'
    BY <1>3 DEF Good, SignedIn
  <2>3. CookieIsGood'
    BY <1>3 DEF CookieIsGood
  <2>4. RequestsAreGood'
    BY <2>1 DEF Good, RequestsAreGood
  <2>5. AnswersAreGood'
    BY <1>3, <2>1 DEF Good, AnswersAreGood
  <2> QED BY <2>2, <2>3, <2>4, <2>5 DEF Good
<1> QED BY <1>3, <1>7, <1>9, <1>10

\* What leaves the tokens as they are keeps the invariant.
LEMMA SameTabs ==
  ASSUME AuthorizationInv, projected' \in BOOLEAN,
         UNCHANGED <<tab, request, account, cookie, issued, used, losses, restarts, reasons>>
  PROVE  AuthorizationInv'
<1>1. TabsInv' /\ IssuedInv'
  BY DEF AuthorizationInv, TabsInv, IssuedInv
<1>2. reasons = {} => Good'
  BY DEF AuthorizationInv, Good, SignedIn, CookieIsGood, RequestsAreGood, AnswersAreGood, Sent,
     Got, InFlight
<1> QED BY <1>1, <1>2 DEF AuthorizationInv

-----------------------------------------------------------------------------
\* A step keeps the invariant, and signs a tab out for a reason.
LEMMA AuthorizationStep ==
  ASSUME MaxLosses \in Nat, MaxRestarts \in Nat, AuthorizationInv,
         [AuthorizationNext]_authorizationVars
  PROVE  /\ AuthorizationInv'
         /\ \A t \in Tabs : tab[t] \in Refreshing /\ tab'[t] = "Unauthorized" => reasons' # {}
<1>1. \A s \in Refreshing : s # "Unauthorized"
  BY DEF Refreshing
<1>2. ASSUME NEW t \in Tabs,
             \/ LoadPage(t) \/ Login(t) \/ LoginFails(t) \/ RefreshTokenIfNeeded(t)
             \/ LoseRequest(t) \/ Retry(t) \/ Answered(t) \/ GetTokenUsingRefreshTokenGrant(t)
      PROVE  /\ AuthorizationInv'
             /\ tab[t] \in Refreshing /\ tab'[t] = "Unauthorized" => reasons' # {}
             /\ \A u \in Tabs : u # t => tab'[u] = tab[u]
  <2>1. tab[t] \in Refreshing /\ tab' = tab => tab'[t] # "Unauthorized"
    BY <1>1
  <2>2. /\ AuthorizationInv'
        /\ tab[t] \in Refreshing /\ tab'[t] = "Unauthorized" => reasons' # {}
    BY <1>2, <2>1, LoadPageInv, LoginInv, RefreshInv, LoseRequestInv, RetryInv, AnsweredInv,
       GrantInv
  <2>3. tab' = tab \/ \E s : tab' = [tab EXCEPT ![t] = s]
    BY <1>2 DEF LoadPage, Login, LoginFails, RefreshTokenIfNeeded, LoseRequest, Retry, Answered,
       GetTokenUsingRefreshTokenGrant
  <2> QED BY <2>2, <2>3 DEF AuthorizationInv, TabsInv
<1>3. CASE RestartBackend
  BY <1>1, <1>3, RestartBackendInv
<1>4. CASE Projected
  BY <1>1, <1>4, SameTabs DEF Projected
<1>5. CASE UNCHANGED authorizationVars
  <2>1. projected' \in BOOLEAN
    BY <1>5 DEF authorizationVars, backendVars, AuthorizationInv, TabsInv
  <2> QED BY <1>1, <1>5, <2>1, SameTabs DEF authorizationVars, backendVars
<1>6. CASE \E t \in Tabs :
             \/ LoadPage(t) \/ Login(t) \/ LoginFails(t) \/ RefreshTokenIfNeeded(t)
             \/ LoseRequest(t) \/ Retry(t) \/ Answered(t) \/ GetTokenUsingRefreshTokenGrant(t)
  BY <1>1, <1>2, <1>6
<1> QED BY <1>3, <1>4, <1>5, <1>6 DEF AuthorizationNext

(***************************************************************************)
(* The tabs, the cookie and the refresh tokens: their inductive invariant  *)
(* holds in every state that is reached, for any tabs.                     *)
(***************************************************************************)
THEOREM AuthorizationInvariance ==
  ASSUME MaxLosses \in Nat, MaxRestarts \in Nat
  PROVE  AuthorizationSpec => []AuthorizationInv
<1>1. AuthorizationInit => AuthorizationInv
  BY AuthorizationStart
<1>2. AuthorizationInv /\ [AuthorizationNext]_authorizationVars => AuthorizationInv'
  BY AuthorizationStep
<1> QED BY <1>1, <1>2, PTL DEF AuthorizationSpec

\* Every variable of the tabs and the backend keeps its type.
THEOREM AuthorizationTypeCorrect ==
  ASSUME MaxLosses \in Nat, MaxRestarts \in Nat
  PROVE  AuthorizationSpec => []AuthorizationTypeOK
<1>1. AuthorizationInv => AuthorizationTypeOK
  <2> SUFFICES ASSUME AuthorizationInv PROVE AuthorizationTypeOK
    OBVIOUS
  <2>1. \A t \in Tabs : /\ request[t].at \in {"none", "sent", "answered", "retry"}
                        /\ request[t].token \in 0..issued /\ request[t].answer \in 0..issued
    BY DEF AuthorizationInv, TabsInv, IssuedInv, Request
  <2>2. cookie \in 0..issued /\ used \subseteq 0..issued
    BY DEF AuthorizationInv, IssuedInv
  <2> QED BY <2>1, <2>2 DEF AuthorizationInv, TabsInv, AuthorizationTypeOK
<1> QED BY <1>1, AuthorizationInvariance, PTL

(***************************************************************************)
(* AuthorizationService and the refresh token grant: a refresh signs a tab *)
(* out only when two tabs sent one token at once, an answer got lost, or   *)
(* the backend took a token before it had caught up; however requests are  *)
(* lost and repeated, pages loaded again and the backend restarted.        *)
(***************************************************************************)
THEOREM OnlyForReason ==
  ASSUME MaxLosses \in Nat, MaxRestarts \in Nat
  PROVE  AuthorizationSpec => SignedOutForReason
<1>1. AuthorizationInv /\ [AuthorizationNext]_authorizationVars =>
        [\A t \in Tabs : tab[t] \in Refreshing /\ tab'[t] = "Unauthorized" =>
           reasons' # {}]_authorizationVars
  BY AuthorizationStep
<1> QED BY <1>1, AuthorizationInvariance, PTL DEF AuthorizationSpec, SignedOutForReason


-----------------------------------------------------------------------------
(***************************************************************************)
(* The camera zoom                                                         *)
(***************************************************************************)

\* The scales that doubling and halving come to, up to three, and the next.
Scales == {0, 1, 2, 3, 4, 6, 8, 12, 16, 24}
Pinched == Scales \cup {32, 48}

View == [max : Nat, width : Nat, offset : Int, scale : Scales, last : Scales, zoom : Nat]

\* The widths of the frames are multiples of 12, so that every scale fits.
Dozens == {12 * k : k \in Nat}
FramesAreDozens == Frames \subseteq Dozens

ScaleIsShown(v) == v.scale > One => v.width * v.scale = v.max * One

InFrame(v) ==
  /\ v \in View /\ v.max \in Dozens
  /\ 0 <= v.offset /\ v.offset + v.width <= v.max
  /\ ScaleIsShown(v)

PageInv ==
  /\ fingers \in 0..2 /\ elsewhere \in Nat /\ identifier \in 0..MaxGestures
  /\ gesture \in {"Ready", "Panning", "Zooming"}
  /\ stream \in Frames \cup {0} /\ streams \in 0..MaxCameras /\ loaded \in BOOLEAN

\* What a renderer is made with is a viewport, and the page has none only while
\* there is no stream, or none loaded.
DrawnInv ==
  /\ shown # NoView
  /\ stream # 0 /\ ~loaded => closure # NoView
  /\ loaded <=> drawn # NoView
  /\ loaded => stream # 0

ZoomInv == PageInv /\ DrawnInv /\ InFrame(view)

-----------------------------------------------------------------------------
(* The viewport *)

\* The fields of a view, as numbers.
LEMMA ViewFields ==
  ASSUME NEW v \in View
  PROVE  /\ v.max \in Nat /\ v.width \in Nat /\ v.offset \in Int /\ v.scale \in Scales
         /\ v.last \in Scales /\ v.zoom \in Nat
BY DEF View

\* Clamping moves the viewport into the frame, if it is not wider.
LEMMA Clamped ==
  ASSUME NEW v \in View, v.width <= v.max, v.max \in Dozens, ScaleIsShown(v)
  PROVE  InFrame(ClampOffset(v))
<1>1. PICK m \in Nat, w \in Nat, o \in Int : m = v.max /\ w = v.width /\ o = v.offset
  BY ViewFields
<1>2. PICK p : p = IF o < 0 THEN 0 ELSE IF o > m - w THEN m - w ELSE o
  OBVIOUS
<1>3. p \in Int /\ 0 <= p /\ p + w <= m
  BY <1>1, <1>2
<1>4. ClampOffset(v) = [v EXCEPT !.offset = p]
  BY <1>1, <1>2 DEF ClampOffset
<1>5. PICK c : c = [v EXCEPT !.offset = p]
  OBVIOUS
<1>6. /\ c \in View /\ c.max = m /\ c.width = w /\ c.offset = p /\ c.scale = v.scale
  BY <1>1, <1>3, <1>5 DEF View
<1>7. ScaleIsShown(c)
  BY <1>1, <1>6 DEF ScaleIsShown
<1> QED BY <1>1, <1>3, <1>4, <1>5, <1>6, <1>7 DEF InFrame

LEMMA Panned ==
  ASSUME NEW v, InFrame(v), NEW d \in Int
  PROVE  InFrame(HandlePan(v, d))
<1>1. PICK m \in Nat, w \in Nat, o \in Int : m = v.max /\ w = v.width /\ o = v.offset
  BY ViewFields DEF InFrame
<1>2. PICK c : c = [v EXCEPT !.offset = @ + d]
  OBVIOUS
<1>3. c \in View /\ c.max = m /\ c.width = w /\ c.scale = v.scale
  BY <1>1, <1>2 DEF InFrame, View
<1>4. w <= m
  BY <1>1 DEF InFrame
<1>5. ScaleIsShown(c)
  BY <1>1, <1>3 DEF InFrame, ScaleIsShown
<1>6. c.width <= c.max /\ c.max \in Dozens
  BY <1>1, <1>3, <1>4 DEF InFrame
<1> QED BY <1>2, <1>3, <1>5, <1>6, Clamped DEF HandlePan

\* A frame of the same width changes nothing, another one resets all but what
\* the pinch began with.
LEMMA WasReset ==
  ASSUME NEW v, InFrame(v), NEW max \in Dozens
  PROVE  InFrame(Reset(v, max))
<1>1. CASE v.max = max
  BY <1>1 DEF Reset
<1>2. CASE v.max # max
  <2>1. PICK m \in Nat : m = max
    BY DEF Dozens
  <2>2. PICK c : c = [NewView(max) EXCEPT !.last = v.last, !.zoom = v.zoom]
    OBVIOUS
  <2>3. One \in Scales /\ v.last \in Scales /\ v.zoom \in Nat
    BY ViewFields DEF InFrame, One, Scales
  <2>4. c = [max |-> m, width |-> m, offset |-> 0, scale |-> One, last |-> v.last, zoom |-> v.zoom]
    BY <2>1, <2>2 DEF NewView
  <2>5. c \in View /\ c.max = m /\ c.width = m /\ c.offset = 0 /\ c.scale = One
    BY <2>3, <2>4 DEF View
  <2>6. ScaleIsShown(c)
    BY <2>5 DEF ScaleIsShown, One
  <2>7. 0 <= c.offset /\ c.offset + c.width <= c.max
    BY <2>5
  <2>8. Reset(v, max) = c
    BY <1>2, <2>2 DEF Reset
  <2> QED BY <2>1, <2>5, <2>6, <2>7, <2>8 DEF InFrame
<1> QED BY <1>1, <1>2

\* The width for a scale above 1.0: what is shown is the scale, exactly.
LEMMA WidthOf ==
  ASSUME NEW m \in Dozens, NEW s \in {12, 16, 24}
  PROVE  /\ (m * One) \div s \in Nat /\ (m * One) \div s <= m
         /\ ((m * One) \div s) * s = m * One
<1>1. PICK k \in Nat : m = 12 * k
  BY DEF Dozens
<1>2. CASE s = 12
  <2>1. (m * 8) \div 12 = 8 * k
    BY <1>1
  <2> QED BY <1>1, <1>2, <2>1 DEF One
<1>3. CASE s = 16
  <2>1. (m * 8) \div 16 = 6 * k
    BY <1>1
  <2> QED BY <1>1, <1>3, <2>1 DEF One
<1>4. CASE s = 24
  <2>1. (m * 8) \div 24 = 4 * k
    BY <1>1
  <2> QED BY <1>1, <1>4, <2>1 DEF One
<1> QED BY <1>2, <1>3, <1>4

LEMMA Scaled ==
  ASSUME NEW v, InFrame(v), NEW s \in Pinched
  PROVE  InFrame(SetScale(v, s))
<1>1. PICK m \in Nat, w \in Nat, o \in Int : m = v.max /\ w = v.width /\ o = v.offset
  BY ViewFields DEF InFrame
<1>2. v \in View /\ m \in Dozens /\ 0 <= o /\ o + w <= m
  BY <1>1 DEF InFrame
<1>3. CASE s <= One
  <2>1. s \in Scales /\ ~(s > One)
    BY <1>3 DEF Pinched, Scales, One
  <2>2. PICK c : c = [v EXCEPT !.scale = s]
    OBVIOUS
  <2>3. c \in View /\ c.max = m /\ c.width = w /\ c.offset = o /\ c.scale = s
    BY <1>1, <1>2, <2>1, <2>2 DEF View
  <2>4. InFrame(c)
    BY <1>2, <2>1, <2>3 DEF InFrame, ScaleIsShown
  <2>5. SetScale(v, s) = c
    BY <1>1, <1>3, <2>2, <2>3 DEF SetScale, Reset
  <2> QED BY <2>4, <2>5
<1>4. CASE ~(s <= One)
  <2>1. PICK capped \in {12, 16, 24} : capped = IF s > MaxScale THEN MaxScale ELSE s
    BY <1>4 DEF Pinched, Scales, One, MaxScale
  <2>2. PICK width \in Nat : width = (m * One) \div capped
    BY <1>2, <2>1, WidthOf
  <2>3. width <= m /\ width * capped = m * One
    BY <1>2, <2>1, <2>2, WidthOf
  <2>4. PICK p \in Int : p = (o + w \div 2) - width \div 2
    OBVIOUS
  <2>5. PICK c : c = [v EXCEPT !.scale = capped, !.width = width, !.offset = p]
    OBVIOUS
  <2>6. capped \in Scales
    BY <2>1 DEF Scales
  <2>7. c \in View /\ c.max = m /\ c.width = width /\ c.scale = capped
    BY <1>1, <1>2, <2>4, <2>5, <2>6 DEF View
  <2>8. InFrame(ClampOffset(c))
    BY <1>2, <2>3, <2>7, Clamped DEF ScaleIsShown
  <2>9. SetScale(v, s) = ClampOffset(c)
    BY <1>1, <1>4, <2>1, <2>2, <2>4, <2>5 DEF SetScale
  <2> QED BY <2>8, <2>9
<1> QED BY <1>3, <1>4

LEMMA Zoomed ==
  ASSUME NEW v, InFrame(v), NEW id \in Nat, NEW halves \in {1, 4}
  PROVE  InFrame(HandleZoom(v, id, halves))
<1>1. PICK begun : begun = IF v.zoom = id THEN v ELSE [v EXCEPT !.zoom = id, !.last = v.scale]
  OBVIOUS
<1>2. /\ begun \in View /\ begun.max = v.max /\ begun.width = v.width /\ begun.offset = v.offset
      /\ begun.scale = v.scale
  BY <1>1 DEF InFrame, View
<1>3. InFrame(begun)
  <2>1. ScaleIsShown(begun)
    BY <1>2 DEF InFrame, ScaleIsShown
  <2> QED BY <1>2, <2>1 DEF InFrame
<1>4. PICK l \in Scales : l = begun.last
  BY <1>2, ViewFields
<1>5. (l * halves) \div 2 \in Pinched
  <2>1. CASE halves = 1
    <3>1. l \div 2 \in Pinched
      BY <1>4 DEF Scales, Pinched
    <3> QED BY <1>4, <2>1, <3>1 DEF Scales
  <2>2. CASE halves = 4
    <3>1. (l * 4) \div 2 \in Pinched
      BY <1>4 DEF Scales, Pinched
    <3> QED BY <2>2, <3>1
  <2> QED BY <2>1, <2>2
<1>6. HandleZoom(v, id, halves) = SetScale(begun, (l * halves) \div 2)
  BY <1>1, <1>4 DEF HandleZoom
<1> QED BY <1>3, <1>5, <1>6, Scaled

-----------------------------------------------------------------------------
LEMMA ZoomStart ==
  ASSUME MaxGestures \in Nat, MaxCameras \in Nat, ZoomInit
  PROVE  ZoomInv
<1>1. /\ fingers = 0 /\ elsewhere = 0 /\ gesture = "Ready" /\ identifier = 0
      /\ view = NewView(0) /\ stream = 0 /\ streams = 0 /\ loaded = FALSE
      /\ shown = Viewport(view) /\ closure = NoView /\ drawn = NoView
  BY DEF ZoomInit
<1>2. PageInv
  <2>1. 0 \in 0..2 /\ 0 \in 0..MaxGestures /\ 0 \in 0..MaxCameras
    OBVIOUS
  <2>2. gesture \in {"Ready", "Panning", "Zooming"}
    BY <1>1
  <2> QED BY <1>1, <2>1, <2>2 DEF PageInv
<1>3. view = [max |-> 0, width |-> 0, offset |-> 0, scale |-> 8, last |-> 8, zoom |-> 0]
  BY <1>1 DEF NewView, One
<1>4. view \in View /\ view.max = 0 /\ view.width = 0 /\ view.offset = 0 /\ view.scale = 8
  BY <1>3 DEF View, Scales
<1>5. 0 \in Dozens
  <2>1. 0 = 12 * 0
    OBVIOUS
  <2> QED BY <2>1 DEF Dozens
<1>6. InFrame(view)
  BY <1>4, <1>5 DEF InFrame, ScaleIsShown, One
<1>7. shown.width = 0 /\ NoView.width = -1
  BY <1>1, <1>4 DEF Viewport, NoView
<1>8. DrawnInv
  BY <1>1, <1>7 DEF DrawnInv
<1> QED BY <1>2, <1>6, <1>8 DEF ZoomInv

\* A viewport of the service is one.
LEMMA ViewIsShown ==
  ASSUME NEW v, InFrame(v)
  PROVE  Viewport(v) # NoView
<1>1. Viewport(v).width = v.width /\ v.width \in Nat /\ NoView.width = -1
  BY ViewFields DEF Viewport, NoView, InFrame
<1>2. v.width # -1
  BY <1>1
<1> QED BY <1>1, <1>2

LEMMA TouchesInv ==
  ASSUME PageInv, NEW touches \in Nat, HandleTouches(touches), MaxGestures \in Nat
  PROVE  gesture' \in {"Ready", "Panning", "Zooming"} /\ identifier' \in 0..MaxGestures
<1>1. gesture' \in {"Ready", "Panning", "Zooming"}
  <2>1. CASE touches = 1
    BY <2>1 DEF HandleTouches
  <2>2. CASE touches = 2
    BY <2>2 DEF HandleTouches
  <2>3. CASE touches # 1 /\ touches # 2
    BY <2>3 DEF HandleTouches
  <2> QED BY <2>1, <2>2, <2>3
<1>2. identifier' \in 0..MaxGestures
  BY DEF HandleTouches, PageInv
<1> QED BY <1>1, <1>2

\* The gestures.
LEMMA FingersInv ==
  ASSUME MaxGestures \in Nat, MaxCameras \in Nat, ZoomInv,
         TouchStart \/ TouchEnd \/ TouchCancel \/ TouchElsewhere
  PROVE  ZoomInv'
<1> USE DEF ZoomInv
<1>1. UNCHANGED <<view, stream, streams, loaded, shown, closure, drawn>>
  BY DEF TouchStart, TouchEnd, TouchCancel, TouchElsewhere, Unrendered
<1>2. DrawnInv' /\ InFrame(view)'
  BY <1>1 DEF DrawnInv
<1>3. PageInv'
  <2>1. CASE TouchStart
    <3>1. fingers' \in 0..2 /\ fingers' + elsewhere \in Nat
      BY <2>1 DEF TouchStart, PageInv
    <3>2. gesture' \in {"Ready", "Panning", "Zooming"} /\ identifier' \in 0..MaxGestures
      BY <2>1, <3>1, TouchesInv DEF TouchStart
    <3> QED BY <1>1, <2>1, <3>1, <3>2 DEF TouchStart, PageInv
  <2>2. CASE TouchEnd
    <3>1. fingers' \in 0..2 /\ fingers' + elsewhere \in Nat
      BY <2>2 DEF TouchEnd, PageInv
    <3>2. gesture' \in {"Ready", "Panning", "Zooming"} /\ identifier' \in 0..MaxGestures
      BY <2>2, <3>1, TouchesInv DEF TouchEnd
    <3> QED BY <1>1, <2>2, <3>1, <3>2 DEF TouchEnd, PageInv
  <2>3. CASE TouchCancel
    <3>1. fingers' \in 0..2 /\ gesture' = "Ready" /\ UNCHANGED <<elsewhere, identifier>>
      BY <2>3 DEF TouchCancel, PageInv
    <3> QED BY <1>1, <3>1 DEF PageInv
  <2>4. CASE TouchElsewhere
    <3>1. elsewhere' \in Nat /\ UNCHANGED <<fingers, gesture, identifier>>
      BY <2>4 DEF TouchElsewhere, PageInv
    <3> QED BY <1>1, <3>1 DEF PageInv
  <2> QED BY <2>1, <2>2, <2>3, <2>4
<1> QED BY <1>2, <1>3

LEMMA GesturesInv ==
  ASSUME ZoomInv, (\E d \in {-8, 8} : Pan(d)) \/ (\E halves \in {1, 4} : Zoom(halves))
  PROVE  ZoomInv'
<1> USE DEF ZoomInv
<1>1. UNCHANGED <<fingers, elsewhere, gesture, identifier, stream, streams, loaded, shown, closure,
                  drawn>>
  BY DEF Pan, Zoom, Unrendered
<1>2. PageInv' /\ DrawnInv'
  BY <1>1 DEF PageInv, DrawnInv
<1>3. InFrame(view)'
  <2>1. ASSUME NEW d \in {-8, 8}, Pan(d) PROVE InFrame(view')
    <3>1. d \in Int
      OBVIOUS
    <3> QED BY <2>1, <3>1, Panned DEF Pan
  <2>2. ASSUME NEW halves \in {1, 4}, Zoom(halves) PROVE InFrame(view')
    <3>1. identifier \in Nat
      BY DEF PageInv
    <3> QED BY <2>2, <3>1, Zoomed DEF Zoom
  <2> QED BY <2>1, <2>2 DEF InFrame, ScaleIsShown
<1> QED BY <1>2, <1>3

\* The page.
LEMMA RenderingInv ==
  ASSUME MaxCameras \in Nat, FramesAreDozens, ZoomInv,
         LoseStream \/ GetStream \/ LoadMetadata \/ Rerender
  PROVE  ZoomInv'
<1> USE DEF ZoomInv
<1>1. CASE LoseStream
  <2>1. fingers' \in 0..2 /\ elsewhere' \in Nat
    BY <1>1 DEF LoseStream, PageInv
  <2>2. /\ stream' = 0 /\ loaded' = FALSE /\ drawn' = NoView /\ closure' = NoView
        /\ UNCHANGED <<gesture, identifier, view, streams, shown>>
    BY <1>1 DEF LoseStream
  <2>3. PageInv'
    BY <2>1, <2>2 DEF PageInv
  <2>4. DrawnInv'
    BY <2>2 DEF DrawnInv
  <2> QED BY <2>2, <2>3, <2>4
<1>2. CASE GetStream
  <2>1. /\ stream = 0 /\ stream' \in Frames /\ closure' = shown
        /\ streams < MaxCameras /\ streams' = streams + 1
        /\ UNCHANGED <<fingers, elsewhere, gesture, identifier, view, loaded, shown, drawn>>
    BY <1>2 DEF GetStream
  <2>2. streams' \in 0..MaxCameras
    BY <2>1 DEF PageInv
  <2>3. PageInv'
    BY <2>1, <2>2 DEF PageInv
  <2>4. DrawnInv'
    BY <2>1 DEF DrawnInv
  <2> QED BY <2>1, <2>3, <2>4
<1>3. CASE LoadMetadata
  <2>1. /\ stream # 0 /\ ~loaded /\ loaded' = TRUE
        /\ view' = Reset(view, stream) /\ drawn' = closure
        /\ UNCHANGED <<fingers, elsewhere, gesture, identifier, stream, streams, shown>>
    BY <1>3 DEF LoadMetadata
  <2>2. stream \in Dozens
    BY <2>1 DEF PageInv, FramesAreDozens
  <2>3. InFrame(view')
    BY <2>1, <2>2, WasReset
  <2>4. PageInv'
    BY <2>1 DEF PageInv
  <2>5. DrawnInv'
    BY <2>1 DEF DrawnInv
  <2> QED BY <2>3, <2>4, <2>5
<1>4. CASE Rerender
  <2>1. /\ shown' = Viewport(view) /\ drawn' = IF drawn = NoView THEN NoView ELSE shown'
        /\ UNCHANGED <<fingers, elsewhere, gesture, identifier, view, stream, streams, loaded,
                       closure>>
    BY <1>4 DEF Rerender
  <2>2. Viewport(view) # NoView
    BY ViewIsShown
  <2>3. PageInv'
    BY <2>1 DEF PageInv
  <2>4. DrawnInv'
    BY <2>1, <2>2 DEF DrawnInv
  <2> QED BY <2>1, <2>3, <2>4
<1> QED BY <1>1, <1>2, <1>3, <1>4

-----------------------------------------------------------------------------
LEMMA ZoomStep ==
  ASSUME MaxGestures \in Nat, MaxCameras \in Nat, FramesAreDozens, ZoomInv, [ZoomNext]_zoomVars
  PROVE  ZoomInv'
<1>1. CASE UNCHANGED zoomVars
  BY <1>1 DEF ZoomInv, PageInv, DrawnInv, zoomVars
<1> QED BY <1>1, FingersInv, GesturesInv, RenderingInv DEF ZoomNext

LEMMA ZoomInvSuffices == ZoomInv => ViewIsInFrame
<1> SUFFICES ASSUME ZoomInv PROVE ViewIsInFrame
  OBVIOUS
<1>1. view.scale \in Scales
  BY ViewFields DEF ZoomInv, InFrame
<1>2. view.scale <= MaxScale
  BY <1>1 DEF Scales, MaxScale
<1> QED BY <1>2 DEF ZoomInv, InFrame, ScaleIsShown, ViewIsInFrame

(***************************************************************************)
(* The zoom: its inductive invariant holds in every state that is reached, *)
(* for any cameras whose frames can be zoomed without rounding.            *)
(***************************************************************************)
THEOREM ZoomInvariance ==
  ASSUME MaxGestures \in Nat, MaxCameras \in Nat, FramesAreDozens
  PROVE  ZoomSpec => []ZoomInv
<1>1. ZoomInit => ZoomInv
  BY ZoomStart
<1>2. ZoomInv /\ [ZoomNext]_zoomVars => ZoomInv'
  BY ZoomStep
<1> QED BY <1>1, <1>2, PTL DEF ZoomSpec

LEMMA ZoomInvTypes == ZoomInv => ZoomTypeOK
BY DEF ZoomInv, PageInv, DrawnInv, ZoomTypeOK

\* Every variable of the zoom keeps its type.
THEOREM ZoomTypeCorrect ==
  ASSUME MaxGestures \in Nat, MaxCameras \in Nat, FramesAreDozens
  PROVE  ZoomSpec => []ZoomTypeOK
BY ZoomInvTypes, ZoomInvariance, PTL

(***************************************************************************)
(* ViewportService: the viewport lies within the frame, and a scale above  *)
(* 1.0 is the scale that is shown, whatever pans, pinches and changes of   *)
(* camera came before.                                                     *)
(***************************************************************************)
THEOREM NothingBesideFrame ==
  ASSUME MaxGestures \in Nat, MaxCameras \in Nat, FramesAreDozens
  PROVE  ZoomSpec => []ViewIsInFrame
BY ZoomInvSuffices, ZoomInvariance, PTL

=============================================================================
