------------------------------ MODULE EventLog ------------------------------
(***************************************************************************)
(* The backend's event log as golang/cmd/backend assembles it: a           *)
(* FileEventLog under a CachingDecorator under a ThreadSafeDecorator, and  *)
(* the goroutines that follow it (eventlog.Project over eventlog.Follow).  *)
(*                                                                         *)
(* An event is abstracted to the number of its line in events.jsonl; what  *)
(* the line says is reduced to its logical clock, or TornLine when only a  *)
(* part of it reached the disk.  Append is one step per effect on disk, so *)
(* the process may die, or the machine lose power, between any two.        *)
(***************************************************************************)
EXTENDS Naturals, Sequences

CONSTANTS
  Readers,      \* goroutines in eventlog.Project
  Torn,         \* content of a metadata.json that does not decode
  MaxLines,     \* bound: lines ever written to events.jsonl
  MaxCrashes    \* bound: process deaths and power failures

ASSUME LogAssumption ==
  /\ Torn \notin Nat
  /\ MaxLines \in Nat
  /\ MaxCrashes \in Nat

VARIABLES
  lines,        \* events.jsonl: the logical clock on each line
  synced,       \* how many of them an fsync has brought to the disk
  metadata,     \* metadata.json: the cursor it holds, or Torn
  status,       \* the backend process: "down", "loading" or "running"
  cursor,       \* FileEventLog.cursor
  loaded,       \* lines NewCachingDecorator has read
  events,       \* CachingDecorator.events, as line numbers
  append,       \* how far the Append that holds the mutex has come
  waitC,        \* FileEventLog.waitC, as the number of closes before it
  acknowledged, \* lines whose Append returned to its caller
  reader,       \* each follower: its place in Follow and Next, and their variables
  crashes

fileVars   == <<lines, synced, metadata>>
logVars    == <<status, cursor, loaded, events, append, waitC>>
vars == <<fileVars, logVars, acknowledged, reader, crashes>>

TornLine == 0     \* real clocks start at 1

Statuses == {"down", "loading", "running"}
AppendSteps == {"idle", "written", "synced", "truncated", "saved"}
ReaderSteps == {"follow", "opened", "next", "blocked", "reopen"}

Clock(n) == lines[events[n]]   \* logical clock of the n-th cached event

-----------------------------------------------------------------------------

Reader == [
  pc        : ReaderSteps,
  slice     : Nat,                 \* length of the slice its iterator holds
  next      : Nat,                 \* events its iterator has passed
  from      : Nat,                 \* FollowingEventIterator.cursor
  waitingOn : Nat,                 \* FollowingEventIterator.waitC
  woken     : BOOLEAN,             \* has it been through the select's waitC case?
  seen      : SUBSET (Nat \ {0})]  \* positions of CachingDecorator.events applied

\* Project follows from cursor 0.
NewReader == [pc |-> "follow", slice |-> 0, next |-> 0, from |-> 0,
              waitingOn |-> 0, woken |-> FALSE, seen |-> {}]

Init ==
  /\ lines = <<>>
  /\ synced = 0
  /\ metadata = 0
  /\ status = "down"
  /\ cursor = 0
  /\ loaded = 0
  /\ events = <<>>
  /\ append = "idle"
  /\ waitC = 0
  /\ acknowledged = {}
  /\ reader = [r \in Readers |-> NewReader]
  /\ crashes = 0

-----------------------------------------------------------------------------
(* Start-up: NewFileEventLog, then the loop of NewCachingDecorator.        *)

\* Mutant of NewFileEventLog: a metadata file that does not decode is used.
NewFileEventLogUnchecked ==
  /\ status = "down"
  /\ cursor' = metadata
  /\ status' = "loading"
  /\ UNCHANGED <<fileVars, loaded, events, append, waitC, acknowledged,
                 reader, crashes>>

\* A metadata file that does not decode is fatal: no such step then.
NewFileEventLog ==
  /\ status = "down"
  /\ metadata # Torn
  /\ cursor' = metadata
  /\ status' = "loading"
  /\ UNCHANGED <<fileVars, loaded, events, append, waitC, acknowledged,
                 reader, crashes>>

LastLogicalClock == IF events = <<>> THEN 0 ELSE Clock(Len(events))

\* Mutant of KeepLine: off by one, a repeated clock is kept.
KeepLineTwice(l) == lines[l] >= LastLogicalClock

\* Lines whose clock does not exceed the last one kept are left out.
KeepLine(l) == lines[l] > LastLogicalClock

LoadLine ==
  /\ status = "loading"
  /\ loaded < Len(lines)
  /\ lines[loaded + 1] # TornLine
  /\ loaded' = loaded + 1
  /\ events' = IF KeepLine(loaded + 1) THEN Append(events, loaded + 1) ELSE events
  /\ UNCHANGED <<fileVars, status, cursor, append, waitC, acknowledged,
                 reader, crashes>>

FinishLoading ==
  /\ status = "loading"
  /\ loaded = Len(lines)
  /\ status' = "running"
  /\ UNCHANGED <<fileVars, cursor, loaded, events, append, waitC, acknowledged,
                 reader, crashes>>

-----------------------------------------------------------------------------
(* Append, under the ThreadSafeDecorator's mutex from its first step to    *)
(* its last.                                                               *)

\* Mutant of WriteEvent: the caller has its answer before the fsync.
WriteEventUnsynced ==
  /\ status = "running"
  /\ append = "idle"
  /\ Len(lines) < MaxLines
  /\ cursor' = cursor + 1
  /\ lines' = Append(lines, cursor + 1)
  /\ append' = "written"
  /\ acknowledged' = acknowledged \cup {Len(lines) + 1}
  /\ UNCHANGED <<synced, metadata, status, loaded, events, waitC, reader, crashes>>

WriteEvent ==
  /\ status = "running"
  /\ append = "idle"
  /\ Len(lines) < MaxLines
  /\ cursor' = cursor + 1
  /\ lines' = Append(lines, cursor + 1)
  /\ append' = "written"
  /\ UNCHANGED <<synced, metadata, status, loaded, events, waitC, acknowledged,
                 reader, crashes>>

\* The fsync covers every line of the file, whichever process wrote it.
SyncEvent ==
  /\ append = "written"
  /\ synced' = Len(lines)
  /\ append' = "synced"
  /\ UNCHANGED <<lines, metadata, status, cursor, loaded, events, waitC, acknowledged,
                 reader, crashes>>

TruncateMetadata ==
  /\ append = "synced"
  /\ metadata' = Torn
  /\ append' = "truncated"
  /\ UNCHANGED <<lines, synced, status, cursor, loaded, events, waitC, acknowledged,
                 reader, crashes>>

WriteMetadata ==
  /\ append = "truncated"
  /\ metadata' = cursor
  /\ append' = "saved"
  /\ UNCHANGED <<lines, synced, status, cursor, loaded, events, waitC, acknowledged,
                 reader, crashes>>

\* close(waitC), a new waitC, the decorator's own append, and the return.
FinishAppend ==
  /\ append = "saved"
  /\ append' = "idle"
  /\ waitC' = waitC + 1
  /\ events' = Append(events, Len(lines))
  /\ acknowledged' = acknowledged \cup {Len(lines)}
  /\ UNCHANGED <<fileVars, status, cursor, loaded, reader, crashes>>

-----------------------------------------------------------------------------
(* Followers.  Every call on the log takes the mutex; Next on the slice    *)
(* an iterator holds does not.                                             *)

MutexFree == status = "running" /\ append = "idle"

\* Mutant of Opened: off by one in the slice expression.
OpenedAfter(rd) == [rd EXCEPT !.slice = Len(events), !.next = rd.from + 1]

\* GetEventIterator(FromCursor)
Opened(rd) == [rd EXCEPT !.slice = Len(events), !.next = rd.from]

\* Taking the channel that the next FinishAppend closes.
Waiting(rd) == [rd EXCEPT !.waitingOn = waitC]

ReaderMoves(r, rd) ==
  /\ reader' = [reader EXCEPT ![r] = rd]
  /\ UNCHANGED <<fileVars, logVars, acknowledged, crashes>>

FollowOpen(r) ==
  /\ MutexFree
  /\ reader[r].pc = "follow"
  /\ ReaderMoves(r, [Opened(reader[r]) EXCEPT !.pc = "opened"])

FollowWait(r) ==
  /\ MutexFree
  /\ reader[r].pc = "opened"
  /\ ReaderMoves(r, [Waiting(reader[r]) EXCEPT !.pc = "next"])

\* Next returns true and Project applies the event.
NextEvent(r) ==
  LET position == reader[r].next + 1
  IN  /\ status = "running"
      /\ reader[r].pc = "next"
      /\ position <= reader[r].slice
      /\ ReaderMoves(r, [reader[r] EXCEPT !.next = position,
                                          !.from = Clock(position),
                                          !.seen = @ \cup {position}])

NextBlocks(r) ==
  /\ status = "running"
  /\ reader[r].pc = "next"
  /\ reader[r].next >= reader[r].slice
  /\ ReaderMoves(r, [reader[r] EXCEPT !.pc = "blocked"])

\* The channel it holds is closed: take the current one before reopening.
NextWakes(r) ==
  /\ MutexFree
  /\ reader[r].pc = "blocked"
  /\ reader[r].waitingOn # waitC
  /\ ReaderMoves(r, [Waiting(reader[r]) EXCEPT !.pc = "reopen", !.woken = TRUE])

\* Mutant of NextReopens: the channel is taken once more, the iterator never.
NextKeepsIterator(r) ==
  /\ MutexFree
  /\ reader[r].pc = "reopen"
  /\ ReaderMoves(r, [Waiting(reader[r]) EXCEPT !.pc = "next"])

NextReopens(r) ==
  /\ MutexFree
  /\ reader[r].pc = "reopen"
  /\ ReaderMoves(r, [Opened(reader[r]) EXCEPT !.pc = "next"])

-----------------------------------------------------------------------------
(* Crashes.  Memory is lost; a restart begins with NewFileEventLog.        *)

LoseMemory ==
  /\ status # "down"
  /\ crashes < MaxCrashes
  /\ crashes' = crashes + 1
  /\ status' = "down"
  /\ cursor' = 0
  /\ loaded' = 0
  /\ events' = <<>>
  /\ append' = "idle"
  /\ waitC' = 0
  /\ reader' = [r \in Readers |-> NewReader]
  /\ UNCHANGED acknowledged

\* The process dies: what it wrote stays in the page cache, synced or not.
ProcessDies ==
  /\ LoseMemory
  /\ UNCHANGED fileVars

\* The cursor metadata.json last held whole.
NewestCursor == IF metadata = Torn THEN cursor - 1 ELSE metadata

\* Of the lines not yet synced, also those that an earlier process left, the
\* last ones may be lost and the first of these torn; metadata.json, which
\* nothing ever syncs, may come back as any earlier version or half written.
PowerFailure ==
  /\ LoseMemory
  /\ metadata' \in {Torn} \cup 0..NewestCursor
  /\ \E kept \in synced..Len(lines) :
       \/ lines' = SubSeq(lines, 1, kept)
       \/ kept < Len(lines) /\ lines' = Append(SubSeq(lines, 1, kept), TornLine)
  /\ synced' = Len(lines')

-----------------------------------------------------------------------------

AppendStep ==
  WriteEvent \/ SyncEvent \/ TruncateMetadata \/ WriteMetadata \/ FinishAppend

ReaderStep(r) ==
  \/ FollowOpen(r) \/ FollowWait(r)
  \/ NextEvent(r) \/ NextBlocks(r) \/ NextWakes(r) \/ NextReopens(r)

Next ==
  \/ NewFileEventLog \/ LoadLine \/ FinishLoading
  \/ AppendStep
  \/ \E r \in Readers : ReaderStep(r)
  \/ ProcessDies \/ PowerFailure

\* Goroutines are scheduled, an Append under way runs to its end and the
\* supervisor restarts the process; nobody has to append and nothing has to crash.
Fairness ==
  /\ WF_vars(NewFileEventLog) /\ WF_vars(LoadLine) /\ WF_vars(FinishLoading)
  /\ WF_vars(SyncEvent \/ TruncateMetadata \/ WriteMetadata \/ FinishAppend)
  /\ \A r \in Readers : WF_vars(ReaderStep(r))

Spec == Init /\ [][Next]_vars

FairSpec == Spec /\ Fairness

-----------------------------------------------------------------------------

TypeOK ==
  /\ lines \in Seq(Nat)
  /\ synced \in Nat
  /\ metadata \in Nat \cup {Torn}
  /\ status \in Statuses
  /\ cursor \in Nat
  /\ loaded \in Nat
  /\ events \in Seq(Nat \ {0})
  /\ append \in AppendSteps
  /\ waitC \in Nat
  /\ acknowledged \subseteq Nat \ {0}
  /\ reader \in [Readers -> Reader]
  /\ crashes \in Nat

\* An event whose Append returned is a whole line of events.jsonl for ever,
\* whatever crash follows: the write and the fsync of FileEventLog.Append
\* come before its return.
AcknowledgedIsDurable ==
  \A l \in acknowledged : l \in 1..Len(lines) /\ lines[l] # TornLine

\* A follower applies the cached events without a gap, also when the clocks
\* on disk lag behind the positions after a crash between the two writes of
\* FileEventLog.Append: at-least-once, and in order the first time.
ReaderNeverSkips ==
  \A r \in Readers : \A p \in reader[r].seen : 1..p \subseteq reader[r].seen

\* Loading leaves out only what repeats a clock: the clocks NewCachingDecorator
\* keeps are 1, 2, 3, ... with none missing.
LoadedClocksAreDense ==
  status = "loading" => \A n \in 1..Len(events) : Clock(n) = n

CaughtUp(r) == 1..Len(events) \subseteq reader[r].seen

AsleepOnOpenChannel(r) ==
  MutexFree /\ reader[r].pc = "blocked" /\ reader[r].waitingOn = waitC

\* Once a follower has been through the wait loop of Next, it never sleeps on
\* an open channel while an event it has not applied is in the log: Next takes
\* the channel before it takes the iterator.
WokenReaderSleepsOnlyWhenCaughtUp ==
  \A r \in Readers :
    AsleepOnOpenChannel(r) /\ reader[r].woken => CaughtUp(r)

\* So after its first wake-up a follower applies every event, unless the
\* process dies first.
WokenReaderCatchesUp ==
  \A r \in Readers : \A p \in 1..MaxLines :
    (status = "running" /\ reader[r].woken /\ p <= Len(events))
      ~> (p \in reader[r].seen \/ status = "down")

\* EventLog_test.go, "append one": an iterator opened at LogicalClock - 1
\* starts with that very event, so the clock of an event is its position.
ClockIsPosition ==
  status = "running" => \A n \in 1..Len(events) : Clock(n) = n

\* Follow_test.go, "append": an event appended while a follower sits in Next
\* makes Next return it.
SleepsOnlyWhenCaughtUp ==
  \A r \in Readers :
    AsleepOnOpenChannel(r) => CaughtUp(r)
=============================================================================
