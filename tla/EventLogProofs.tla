--------------------------- MODULE EventLogProofs ---------------------------
(***************************************************************************)
(* What TLAPS shows of EventLog for any number of followers, lines and     *)
(* crashes: types, durability of what was acknowledged, gap-free clocks    *)
(* after a restart, and that followers neither skip an event nor, once     *)
(* through the wait loop, sleep on an open channel with events left.       *)
(***************************************************************************)
EXTENDS EventLog, TLAPS, SequenceTheorems

\* Every clock from 1 to c is on one of the first n lines.
Reached(n, c) == \A d \in 1..c : \E j \in 1..n : lines[j] = d

\* No clock appears on disk before those below it, and the cursor on disk is
\* never ahead of the lines that are synced.
DiskInv ==
  /\ \A l \in 1..Len(lines) : Reached(l, lines[l])
  /\ synced <= Len(lines)
  /\ metadata # Torn => Reached(synced, metadata)

\* Where the cursor in memory and the one on disk stand at each step of Append.
AppendInv ==
  /\ status # "running" => append = "idle"
  /\ status = "down" => events = <<>> /\ loaded = 0
  /\ status # "down" => Reached(Len(lines), cursor)
  /\ status # "down" /\ append \in {"idle", "saved"} => metadata = cursor
  /\ append \in {"written", "synced"} => metadata \in Nat /\ cursor = metadata + 1
  /\ append = "truncated" => metadata = Torn
  /\ append # "idle" => Len(lines) > 0 /\ lines[Len(lines)] = cursor /\ cursor > 0
  /\ append \in {"synced", "truncated", "saved"} => synced = Len(lines)

\* AcknowledgedIsDurable, and that the lines still unsynced are none of them.
AckInv ==
  \A l \in acknowledged : l \in 1..synced /\ lines[l] # TornLine

\* The cache is dense while it is loaded; later its clocks may only lag behind
\* their positions, because the cursor never exceeds the number of events.
CacheInv ==
  /\ \A n \in 1..Len(events) : events[n] \in 1..Len(lines)
  /\ status = "loading" =>
       /\ loaded <= Len(lines)
       /\ \A n \in 1..Len(events) : Clock(n) = n
       /\ \A l \in 1..loaded : lines[l] <= Len(events)
  /\ status = "running" =>
       /\ \A n \in 1..Len(events) : Clock(n) <= n
       /\ cursor <= Len(events) + 1
       /\ append = "idle" => cursor <= Len(events)

\* What a follower has applied reaches at least as far as the place it reads
\* from; an iterator taken after the channel is current while that is open.
ReaderOK(rd) ==
  /\ 1..rd.next \subseteq rd.seen
  /\ 1..rd.from \subseteq rd.seen
  /\ \A p \in rd.seen : 1..p \subseteq rd.seen
  /\ rd.slice <= Len(events)
  /\ rd.waitingOn <= waitC
  /\ rd.pc = "blocked" => rd.next >= rd.slice
  /\ rd.woken => rd.pc \in {"next", "blocked", "reopen"}
  /\ rd.woken /\ rd.pc # "reopen" /\ rd.waitingOn = waitC => rd.slice = Len(events)

ReaderInv ==
  \A r \in Readers :
    /\ ReaderOK(reader[r])
    /\ status # "running" => reader[r] = NewReader

IInv == TypeOK /\ DiskInv /\ AppendInv /\ AckInv /\ CacheInv /\ ReaderInv

-----------------------------------------------------------------------------

\* A follower that has not begun is as ReaderOK wants it.
LEMMA NewReaderOK ==
  ASSUME TypeOK
  PROVE  ReaderOK(NewReader) /\ NewReader \in Reader
  BY DEF TypeOK, ReaderOK, NewReader, Reader, ReaderSteps

\* The invariant holds when the backend has never run.
LEMMA InitIInv == Init => IInv
<1> SUFFICES ASSUME Init PROVE IInv
  OBVIOUS
<1>1. TypeOK
  BY LogAssumption DEF Init, TypeOK, Statuses, AppendSteps, NewReader, Reader, ReaderSteps
<1>2. DiskInv /\ AppendInv /\ AckInv /\ CacheInv
  BY DEF Init, DiskInv, AppendInv, AckInv, CacheInv, Reached
<1>3. ReaderInv
  BY <1>1, NewReaderOK DEF Init, ReaderInv
<1> QED
  BY <1>1, <1>2, <1>3 DEF IInv

\* A follower's step changes its own record only: what is left to show is that
\* the new record is a good one.
LEMMA OneReaderMoves ==
  ASSUME IInv, NEW r \in Readers, status = "running",
         reader' = [reader EXCEPT ![r] = reader'[r]],
         UNCHANGED <<fileVars, logVars, acknowledged, crashes>>,
         reader'[r] \in Reader, ReaderOK(reader[r])'
  PROVE  IInv'
<1> USE DEF IInv, fileVars, logVars
<1>1. TypeOK'
  BY DEF TypeOK
<1>2. DiskInv' /\ AppendInv' /\ AckInv' /\ CacheInv'
  BY DEF DiskInv, AppendInv, AckInv, CacheInv, Reached, Clock
<1>3. ReaderInv'
  <2> SUFFICES ASSUME NEW q \in Readers
               PROVE  ReaderOK(reader[q])'
    BY DEF ReaderInv
  <2>1. CASE q = r
    BY <2>1
  <2>2. CASE q # r
    <3>1. reader'[q] = reader[q] /\ ReaderOK(reader[q])
      BY <2>2 DEF TypeOK, ReaderInv
    <3> QED
      BY <3>1 DEF ReaderOK
  <2> QED
    BY <2>1, <2>2
<1> QED
  BY <1>1, <1>2, <1>3

\* Every step of a follower, in Follow or in Next, keeps the invariant.
LEMMA ReaderStepIInv ==
  ASSUME IInv, NEW r \in Readers, ReaderStep(r)
  PROVE  IInv'
<1> DEFINE rd == reader[r]
<1>1. /\ rd \in Reader /\ ReaderOK(rd) /\ waitC \in Nat /\ Len(events) \in Nat
      /\ reader \in [Readers -> Reader]
  BY DEF IInv, TypeOK, ReaderInv
<1>2. status = "running"
      /\ reader' = [reader EXCEPT ![r] = reader'[r]]
      /\ UNCHANGED <<fileVars, logVars, acknowledged, crashes>>
  BY <1>1 DEF ReaderStep, FollowOpen, FollowWait, NextEvent, NextBlocks, NextWakes,
     NextReopens, MutexFree, ReaderMoves
<1>3. events' = events /\ waitC' = waitC
  BY <1>2 DEF logVars
<1>4. CASE FollowOpen(r)
  <2>1. reader'[r] = [rd EXCEPT !.slice = Len(events), !.next = rd.from, !.pc = "opened"]
    BY <1>1, <1>4 DEF FollowOpen, ReaderMoves, Opened
  <2>2. reader'[r] \in Reader
    BY <1>1, <2>1 DEF Reader, ReaderSteps
  <2>3. ReaderOK(reader[r])'
    BY <1>1, <1>3, <1>4, <2>1 DEF FollowOpen, Reader, ReaderOK
  <2> QED
    BY <1>2, <2>2, <2>3, OneReaderMoves
<1>5. CASE FollowWait(r)
  <2>1. reader'[r] = [rd EXCEPT !.waitingOn = waitC, !.pc = "next"]
    BY <1>1, <1>5 DEF FollowWait, ReaderMoves, Waiting
  <2>2. reader'[r] \in Reader
    BY <1>1, <2>1 DEF Reader, ReaderSteps
  <2>3. ReaderOK(reader[r])'
    BY <1>1, <1>3, <1>5, <2>1 DEF FollowWait, Reader, ReaderOK
  <2> QED
    BY <1>2, <2>2, <2>3, OneReaderMoves
<1>6. CASE NextEvent(r)
  <2> DEFINE position == rd.next + 1
  <2>1. reader'[r] = [rd EXCEPT !.next = position, !.from = Clock(position),
                                !.seen = rd.seen \cup {position}]
    BY <1>1, <1>6 DEF NextEvent, ReaderMoves
  <2>2. position \in 1..rd.slice /\ position \in 1..Len(events) /\ rd.pc = "next"
    BY <1>1, <1>6 DEF NextEvent, Reader, ReaderOK
  <2>3. Clock(position) \in Nat /\ Clock(position) <= position
    BY <1>2, <2>2 DEF IInv, TypeOK, CacheInv, Clock
  <2>4. reader'[r] \in Reader
    <3>1. position \in Nat /\ rd.seen \cup {position} \in SUBSET (Nat \ {0})
      BY <1>1, <2>2 DEF Reader
    <3> QED
      BY <1>1, <2>1, <2>3, <3>1 DEF Reader
  <2>5. 1..position \subseteq rd.seen \cup {position}
    BY <1>1, <2>2 DEF Reader, ReaderOK
  <2>6. /\ reader'[r].next = position /\ reader'[r].from = Clock(position)
        /\ reader'[r].seen = rd.seen \cup {position}
        /\ reader'[r].slice = rd.slice /\ reader'[r].waitingOn = rd.waitingOn
        /\ reader'[r].woken = rd.woken /\ reader'[r].pc = "next"
    BY <1>1, <2>1, <2>2 DEF Reader
  <2>7. 1..Clock(position) \subseteq rd.seen \cup {position}
    BY <2>2, <2>3, <2>5
  <2>8. \A p \in rd.seen \cup {position} : 1..p \subseteq rd.seen \cup {position}
    BY <1>1, <2>5 DEF ReaderOK
  <2>9. ReaderOK(reader[r])'
    BY <1>1, <1>3, <2>2, <2>5, <2>6, <2>7, <2>8 DEF ReaderOK
  <2> QED
    BY <1>2, <2>4, <2>9, OneReaderMoves
<1>7. CASE NextBlocks(r)
  <2>1. reader'[r] = [rd EXCEPT !.pc = "blocked"]
    BY <1>1, <1>7 DEF NextBlocks, ReaderMoves
  <2>2. reader'[r] \in Reader
    BY <1>1, <2>1 DEF Reader, ReaderSteps
  <2>3. ReaderOK(reader[r])'
    BY <1>1, <1>3, <1>7, <2>1 DEF NextBlocks, Reader, ReaderOK
  <2> QED
    BY <1>2, <2>2, <2>3, OneReaderMoves
<1>8. CASE NextWakes(r)
  <2>1. reader'[r] = [rd EXCEPT !.waitingOn = waitC, !.pc = "reopen", !.woken = TRUE]
    BY <1>1, <1>8 DEF NextWakes, ReaderMoves, Waiting
  <2>2. reader'[r] \in Reader
    BY <1>1, <2>1 DEF Reader, ReaderSteps
  <2>3. ReaderOK(reader[r])'
    BY <1>1, <1>3, <1>8, <2>1 DEF NextWakes, Reader, ReaderOK
  <2> QED
    BY <1>2, <2>2, <2>3, OneReaderMoves
<1>9. CASE NextReopens(r)
  <2>1. reader'[r] = [rd EXCEPT !.slice = Len(events), !.next = rd.from, !.pc = "next"]
    BY <1>1, <1>9 DEF NextReopens, ReaderMoves, Opened
  <2>2. reader'[r] \in Reader
    BY <1>1, <2>1 DEF Reader, ReaderSteps
  <2>3. ReaderOK(reader[r])'
    BY <1>1, <1>3, <1>9, <2>1 DEF NextReopens, Reader, ReaderOK
  <2> QED
    BY <1>2, <2>2, <2>3, OneReaderMoves
<1> QED
  BY <1>4, <1>5, <1>6, <1>7, <1>8, <1>9 DEF ReaderStep

-----------------------------------------------------------------------------

\* Followers are untouched by a step that leaves the cache and the channel alone.
LEMMA ReaderInvStable ==
  ASSUME ReaderInv, UNCHANGED <<reader, events, waitC, status>>
  PROVE  ReaderInv'
  BY DEF ReaderInv, ReaderOK

\* Start-up: the cursor read is one that lines reach, the cache starts empty.
LEMMA NewFileEventLogIInv ==
  ASSUME IInv, NewFileEventLog
  PROVE  IInv'
<1> USE DEF IInv, NewFileEventLog, fileVars
<1>1. TypeOK'
  BY DEF TypeOK, Statuses
<1>2. DiskInv' /\ AckInv'
  BY DEF DiskInv, AckInv, Reached
<1>3. AppendInv'
  <2>1. ASSUME NEW d \in 1..metadata
        PROVE  \E j \in 1..Len(lines) : lines[j] = d
    <3>1. PICK j \in 1..synced : lines[j] = d
      BY DEF DiskInv, Reached
    <3>2. j \in 1..Len(lines)
      BY DEF TypeOK, DiskInv
    <3> QED
      BY <3>1, <3>2
  <2> QED
    BY <2>1 DEF AppendInv, Reached
<1>4. CacheInv'
  BY DEF TypeOK, AppendInv, CacheInv
<1>5. ReaderInv'
  BY DEF ReaderInv, ReaderOK
<1> QED
  BY <1>1, <1>2, <1>3, <1>4, <1>5

\* A loaded line repeats a clock or brings the very next one.
LEMMA LoadLineIInv ==
  ASSUME IInv, LoadLine
  PROVE  IInv'
<1> USE DEF IInv, LoadLine, fileVars
<1> DEFINE l == loaded + 1
<1>1. /\ l \in 1..Len(lines) /\ lines[l] \in Nat /\ lines[l] # 0
      /\ lines \in Seq(Nat) /\ events \in Seq(Nat \ {0})
      /\ \A n \in 1..Len(events) : events[n] \in 1..Len(lines) /\ lines[events[n]] = n
      /\ \A j \in 1..loaded : lines[j] <= Len(events)
  BY DEF TypeOK, CacheInv, TornLine, Clock
<1>2. LastLogicalClock = Len(events)
  BY <1>1 DEF LastLogicalClock, Clock
<1>3. TypeOK'
  BY <1>1 DEF TypeOK
<1>4. DiskInv' /\ AppendInv' /\ AckInv'
  BY DEF DiskInv, AppendInv, AckInv, Reached
<1>5. CacheInv'
  <2>1. CASE ~KeepLine(l)
    BY <1>1, <1>2, <2>1 DEF TypeOK, CacheInv, Clock, KeepLine
  <2>2. CASE KeepLine(l)
    <3>1. lines[l] > Len(events)
      BY <1>2, <2>2 DEF KeepLine
    <3>2. Reached(l, lines[l])
      BY <1>1 DEF DiskInv
    <3>3. PICK j \in 1..l : lines[j] = Len(events) + 1
      <4>1. Len(events) + 1 \in 1..lines[l]
        BY <1>1, <3>1
      <4> QED
        BY <3>2, <4>1 DEF Reached
    <3>4. lines[l] = Len(events) + 1
      BY <1>1, <3>3 DEF TypeOK
    <3>5. events' = Append(events, l) /\ lines' = lines /\ loaded' = l
      BY <2>2
    <3>6. /\ Len(events') = Len(events) + 1
          /\ \A n \in 1..Len(events) : events'[n] = events[n]
          /\ events'[Len(events) + 1] = l
      BY <1>1, <3>5
    <3>7. \A n \in 1..Len(events') : events'[n] \in 1..Len(lines) /\ lines[events'[n]] = n
      <4>1. \A n \in 1..Len(events') : n \in 1..Len(events) \/ n = Len(events) + 1
        BY <1>1, <3>6
      <4> QED
        BY <1>1, <3>4, <3>6, <4>1
    <3>8. \A i \in 1..l : lines[i] <= Len(events')
      BY <1>1, <3>4, <3>6 DEF TypeOK
    <3> QED
      BY <1>1, <3>5, <3>7, <3>8 DEF CacheInv, Clock
  <2> QED
    BY <2>1, <2>2
<1>6. ReaderInv'
  <2>1. \A r \in Readers : reader'[r] = NewReader
    BY DEF ReaderInv
  <2>2. waitC \in Nat /\ Len(events') \in Nat /\ waitC' = waitC
    BY <1>3 DEF TypeOK
  <2> QED
    BY <2>1, <2>2 DEF ReaderInv, ReaderOK, NewReader
<1> QED
  BY <1>3, <1>4, <1>5, <1>6

\* All lines read: the cursor is on one of them, so the cache is as long.
LEMMA FinishLoadingIInv ==
  ASSUME IInv, FinishLoading
  PROVE  IInv'
<1> USE DEF IInv, FinishLoading, fileVars
<1>1. TypeOK'
  BY DEF TypeOK, Statuses
<1>2. DiskInv' /\ AppendInv' /\ AckInv'
  BY DEF DiskInv, AppendInv, AckInv, Reached
<1>3. cursor <= Len(events)
  <2>1. CASE cursor = 0
    BY <2>1 DEF TypeOK
  <2>2. CASE cursor # 0
    <3>1. PICK j \in 1..Len(lines) : lines[j] = cursor
      BY <2>2 DEF TypeOK, AppendInv, Reached
    <3> QED
      BY <3>1 DEF CacheInv
  <2> QED
    BY <2>1, <2>2
<1>4. CacheInv'
  <2>1. \A n \in 1..Len(events) : Clock(n) <= n
    BY DEF CacheInv
  <2> QED
    BY <1>3, <2>1 DEF TypeOK, CacheInv, Clock
<1>5. ReaderInv'
  BY DEF ReaderInv, ReaderOK
<1> QED
  BY <1>1, <1>2, <1>4, <1>5

-----------------------------------------------------------------------------

\* The new line continues the clocks that are on disk already.
LEMMA WriteEventIInv ==
  ASSUME IInv, WriteEvent
  PROVE  IInv'
<1> USE DEF IInv, WriteEvent, fileVars
<1> DEFINE m == Len(lines) + 1
<1>1. /\ lines \in Seq(Nat) /\ cursor \in Nat /\ cursor' = cursor + 1
      /\ lines' = Append(lines, cursor + 1) /\ Len(lines') = m
      /\ \A l \in 1..Len(lines) : lines'[l] = lines[l]
      /\ lines'[m] = cursor + 1
      /\ metadata = cursor /\ metadata' = cursor
      /\ synced \in Nat /\ synced <= Len(lines) /\ synced' = synced
  BY DEF TypeOK, AppendInv, DiskInv
<1>2. TypeOK'
  BY <1>1 DEF TypeOK, AppendSteps
<1>3. \A d \in 1..cursor : \E j \in 1..Len(lines) : lines'[j] = d
  BY <1>1 DEF AppendInv, Reached
<1>4. \A d \in 1..(cursor + 1) : \E j \in 1..m : lines'[j] = d
  <2> SUFFICES ASSUME NEW d \in 1..(cursor + 1)
               PROVE  \E j \in 1..m : lines'[j] = d
    OBVIOUS
  <2>1. CASE d = cursor + 1
    <3>1. m \in 1..m
      BY <1>1
    <3> QED
      BY <1>1, <2>1, <3>1
  <2>2. CASE d # cursor + 1
    <3>1. PICK j \in 1..Len(lines) : lines'[j] = d
      BY <1>1, <1>3, <2>2
    <3>2. j \in 1..m
      BY <1>1
    <3> QED
      BY <3>1, <3>2
  <2> QED
    BY <2>1, <2>2
<1>5. DiskInv'
  <2>1. \A l \in 1..Len(lines) : \A d \in 1..lines[l] : \E j \in 1..l : lines'[j] = d
    BY <1>1 DEF DiskInv, Reached
  <2>2. ASSUME NEW l \in 1..m
        PROVE  \A d \in 1..lines'[l] : \E j \in 1..l : lines'[j] = d
    <3>1. CASE l = m
      BY <1>1, <1>4, <3>1
    <3>2. CASE l # m
      <4>1. l \in 1..Len(lines)
        BY <1>1, <3>2
      <4> QED
        BY <1>1, <2>1, <4>1
    <3> QED
      BY <3>1, <3>2
  <2>3. ASSUME metadata' # Torn, NEW d \in 1..cursor
        PROVE  \E j \in 1..synced : lines'[j] = d
    <3>1. PICK j \in 1..synced : lines[j] = d
      BY <1>1, <2>3 DEF DiskInv, Reached
    <3> QED
      BY <1>1, <3>1
  <2>4. synced' <= Len(lines')
    BY <1>1
  <2> QED
    BY <1>1, <2>2, <2>3, <2>4 DEF DiskInv, Reached
<1>6. AppendInv'
  <2>1. Reached(Len(lines), cursor)'
    BY <1>1, <1>4 DEF Reached
  <2> QED
    BY <1>1, <2>1 DEF AppendInv
<1>7. AckInv'
  BY <1>1 DEF AckInv, TornLine
<1>8. CacheInv'
  <2>1. \A n \in 1..Len(events) : events[n] \in 1..Len(lines) /\ lines'[events[n]] = lines[events[n]]
    BY <1>1 DEF CacheInv
  <2>2. \A n \in 1..Len(events) : events[n] \in 1..m
    BY <1>1, <2>1
  <2>3. cursor <= Len(events) /\ Len(events) \in Nat
    BY DEF CacheInv, TypeOK
  <2> QED
    BY <1>1, <2>1, <2>2, <2>3 DEF CacheInv, Clock
<1>9. ReaderInv'
  BY ReaderInvStable
<1> QED
  BY <1>2, <1>5, <1>6, <1>7, <1>8, <1>9

\* The three steps between the write and the return change nothing but what is
\* synced and metadata.json.
LEMMA SaveIInv ==
  ASSUME IInv, SyncEvent \/ TruncateMetadata \/ WriteMetadata
  PROVE  IInv'
<1> USE DEF IInv, SyncEvent, TruncateMetadata, WriteMetadata, fileVars
<1>1. TypeOK'
  <2>1. Len(lines) \in Nat
    BY DEF TypeOK
  <2> QED
    BY <2>1 DEF TypeOK, AppendSteps
<1>2. UNCHANGED <<lines, status, cursor, events, waitC, acknowledged, reader, loaded>>
      /\ status = "running"
  BY DEF AppendInv
<1>3. metadata' # Torn => metadata' = metadata \/ metadata' = cursor
  OBVIOUS
<1>4. /\ synced' \in Nat /\ synced <= synced' /\ synced' <= Len(lines)
      /\ append # "written" => synced' = Len(lines) /\ synced = Len(lines)
      /\ append = "written" => synced' = Len(lines) /\ UNCHANGED metadata
  BY <1>1, <1>2 DEF TypeOK, DiskInv, AppendInv
<1>5. DiskInv'
  <2>1. ASSUME metadata' # Torn, NEW d \in 1..metadata'
        PROVE  \E j \in 1..synced' : lines[j] = d
    BY <1>2, <1>3, <1>4, <2>1 DEF DiskInv, AppendInv, Reached
  <2> QED
    BY <1>2, <1>4, <2>1 DEF DiskInv, Reached
<1>6. AppendInv'
  BY <1>2, LogAssumption DEF TypeOK, AppendInv, Reached
<1>7. AckInv' /\ CacheInv'
  <2>1. AckInv'
    BY <1>1, <1>2, <1>4 DEF TypeOK, AckInv
  <2>2. CacheInv'
    BY <1>2 DEF CacheInv, Clock
  <2> QED
    BY <2>1, <2>2
<1>8. ReaderInv'
  BY <1>2, ReaderInvStable
<1> QED
  BY <1>1, <1>5, <1>6, <1>7, <1>8

\* The event enters the cache behind those it follows, and the channel every
\* follower may have taken is closed.
LEMMA FinishAppendIInv ==
  ASSUME IInv, FinishAppend
  PROVE  IInv'
<1> USE DEF IInv, FinishAppend, fileVars
<1>1. /\ status = "running" /\ lines \in Seq(Nat) /\ events \in Seq(Nat \ {0})
      /\ cursor \in Nat /\ lines[Len(lines)] = cursor /\ cursor > 0
      /\ Len(lines) \in 1..Len(lines) /\ metadata = cursor /\ synced = Len(lines)
  BY DEF TypeOK, AppendInv
<1>2. /\ Len(events') = Len(events) + 1
      /\ \A n \in 1..Len(events) : events'[n] = events[n]
      /\ events'[Len(events) + 1] = Len(lines)
  BY <1>1
<1>3. TypeOK'
  <2>1. Len(lines) \in Nat \ {0}
    BY <1>1
  <2>2. events' \in Seq(Nat \ {0})
    BY <1>1, <2>1
  <2>3. acknowledged' \subseteq Nat \ {0}
    BY <2>1 DEF TypeOK
  <2> QED
    BY <2>2, <2>3 DEF TypeOK, AppendSteps
<1>4. DiskInv' /\ AppendInv'
  BY <1>1 DEF DiskInv, AppendInv, Reached
<1>5. AckInv'
  BY <1>1 DEF AckInv, TornLine
<1>6. CacheInv'
  <2>1. cursor <= Len(events) + 1 /\ \A n \in 1..Len(events) : Clock(n) <= n
    BY <1>1 DEF CacheInv
  <2>2. \A n \in 1..Len(events') : events'[n] \in 1..Len(lines) /\ lines[events'[n]] <= n
    BY <1>1, <1>2, <2>1 DEF CacheInv, Clock
  <2> QED
    BY <1>1, <1>2, <2>1, <2>2 DEF CacheInv, Clock
<1>7. ReaderInv'
  <2> SUFFICES ASSUME NEW r \in Readers
               PROVE  ReaderOK(reader[r])'
    BY <1>1 DEF ReaderInv
  <2>1. ReaderOK(reader[r]) /\ reader[r] \in Reader /\ waitC \in Nat /\ Len(events) \in Nat
    BY <1>1 DEF ReaderInv, TypeOK
  <2> QED
    BY <1>2, <2>1 DEF ReaderOK, Reader
<1> QED
  BY <1>3, <1>4, <1>5, <1>6, <1>7

-----------------------------------------------------------------------------

\* After the loss of memory only the disk matters.
LEMMA LoseMemoryIInv ==
  ASSUME IInv, LoseMemory, lines' \in Seq(Nat), metadata' \in Nat \cup {Torn},
         synced' \in Nat, DiskInv',
         \A l \in acknowledged : l \in 1..synced' /\ lines'[l] # TornLine
  PROVE  IInv'
<1> USE DEF IInv, LoseMemory
<1>1. TypeOK'
  BY NewReaderOK DEF TypeOK, Statuses, AppendSteps
<1>2. AppendInv' /\ AckInv' /\ CacheInv'
  BY DEF AppendInv, AckInv, CacheInv
<1>3. ReaderInv'
  <2>1. \A r \in Readers : reader'[r] = NewReader
    OBVIOUS
  <2>2. Len(events') = 0 /\ waitC' = 0
    OBVIOUS
  <2> QED
    BY <2>1, <2>2 DEF ReaderInv, ReaderOK, NewReader
<1> QED
  BY <1>1, <1>2, <1>3

\* Whatever version of metadata.json a power failure brings back, synced lines
\* reach it.
LEMMA NewestCursorReached ==
  ASSUME IInv, status # "down"
  PROVE  NewestCursor \in Nat /\ Reached(synced, NewestCursor)
<1> USE DEF IInv
<1>1. CASE metadata = Torn
  <2>1. append = "truncated" /\ cursor \in Nat /\ cursor > 0
    BY <1>1, LogAssumption DEF TypeOK, AppendInv, AppendSteps
  <2>2. NewestCursor = cursor - 1
    BY <1>1 DEF NewestCursor
  <2> QED
    BY <1>1, <2>1, <2>2 DEF AppendInv, Reached
<1>2. CASE metadata # Torn
  BY <1>2 DEF NewestCursor, TypeOK, DiskInv, AppendInv
<1> QED
  BY <1>1, <1>2

\* The disk after a crash: a line that was not synced is not acknowledged, and
\* no clock below another is lost.
LEMMA CrashIInv ==
  ASSUME IInv, ProcessDies \/ PowerFailure
  PROVE  IInv'
<1>1. CASE ProcessDies
  BY <1>1, LoseMemoryIInv DEF ProcessDies, fileVars, IInv, TypeOK, DiskInv, Reached, AckInv
<1>2. CASE PowerFailure
  <2>1. /\ LoseMemory /\ status # "down"
        /\ NewestCursor \in Nat /\ Reached(synced, NewestCursor)
        /\ lines \in Seq(Nat) /\ synced \in Nat /\ metadata' \in Nat \cup {Torn}
        /\ metadata' # Torn => metadata' <= NewestCursor
        /\ \A l \in 1..Len(lines) : Reached(l, lines[l])
        /\ AckInv /\ synced' = Len(lines')
    BY <1>2, NewestCursorReached DEF PowerFailure, LoseMemory, IInv, TypeOK, DiskInv
  <2>2. PICK kept \in synced..Len(lines) :
          \/ lines' = SubSeq(lines, 1, kept)
          \/ lines' = Append(SubSeq(lines, 1, kept), TornLine)
    BY <1>2 DEF PowerFailure
  <2>3. kept \in Nat /\ synced <= kept /\ kept <= Len(lines)
    BY <2>1, <2>2
  <2>4. /\ lines' \in Seq(Nat) /\ Len(lines') \in {kept, kept + 1}
        /\ \A j \in 1..kept : lines'[j] = lines[j]
        /\ Len(lines') = kept + 1 => lines'[kept + 1] = 0
    <3> DEFINE whole == SubSeq(lines, 1, kept)
    <3>1. \A i \in 1..kept : lines[i] \in Nat
      BY <2>1, <2>3
    <3>2. whole \in Seq(Nat) /\ Len(whole) = kept /\ \A j \in 1..kept : whole[j] = lines[j]
      BY <2>3, <3>1, SubSeqProperties
    <3> HIDE DEF whole
    <3>3. CASE lines' = whole
      BY <2>3, <3>2, <3>3
    <3>4. CASE lines' = Append(whole, 0)
      BY <2>3, <3>2, <3>4, AppendProperties
    <3> QED
      BY <2>2, <3>3, <3>4 DEF whole, TornLine
  <2>5. ASSUME NEW l \in 1..Len(lines')
        PROVE  \A d \in 1..lines'[l] : \E j \in 1..l : lines'[j] = d
    <3>1. CASE l \in 1..kept
      <4>1. \A d \in 1..lines[l] : \E j \in 1..l : lines[j] = d
        BY <2>1, <2>3, <3>1 DEF Reached
      <4>2. \A j \in 1..l : lines'[j] = lines[j]
        BY <2>3, <2>4, <3>1
      <4>3. l \in 1..l
        BY <3>1
      <4> QED
        BY <4>1, <4>2, <4>3
    <3>2. CASE l \notin 1..kept
      BY <2>3, <2>4, <3>2
    <3> QED
      BY <3>1, <3>2
  <2>6. ASSUME metadata' # Torn, NEW d \in 1..metadata'
        PROVE  \E j \in 1..Len(lines') : lines'[j] = d
    <3>1. d \in 1..NewestCursor
      BY <2>1, <2>6
    <3>2. PICK j \in 1..synced : lines[j] = d
      BY <2>1, <3>1 DEF Reached
    <3>3. j \in 1..Len(lines') /\ lines'[j] = d
      BY <2>1, <2>3, <2>4, <3>2
    <3> QED
      BY <3>3
  <2>7. DiskInv'
    BY <2>1, <2>4, <2>5, <2>6 DEF DiskInv, Reached
  <2>8. ASSUME NEW l \in acknowledged
        PROVE  l \in 1..synced' /\ lines'[l] # TornLine
    <3>1. l \in 1..synced /\ lines[l] # TornLine
      BY <2>1 DEF AckInv
    <3> QED
      BY <2>1, <2>3, <2>4, <3>1
  <2> QED
    BY <2>1, <2>4, <2>7, <2>8, LoseMemoryIInv
<1> QED
  BY <1>1, <1>2

-----------------------------------------------------------------------------

\* Every step of the log, of its followers and of the crashes keeps IInv.
LEMMA NextIInv == IInv /\ [Next]_vars => IInv'
<1> SUFFICES ASSUME IInv, [Next]_vars PROVE IInv'
  OBVIOUS
<1>1. CASE UNCHANGED vars
  BY <1>1 DEF vars, fileVars, logVars, IInv, TypeOK, DiskInv, AppendInv, AckInv,
     CacheInv, ReaderInv, ReaderOK, Reached, Clock
<1>2. CASE NewFileEventLog
  BY <1>2, NewFileEventLogIInv
<1>3. CASE LoadLine
  BY <1>3, LoadLineIInv
<1>4. CASE FinishLoading
  BY <1>4, FinishLoadingIInv
<1>5. CASE AppendStep
  BY <1>5, WriteEventIInv, SaveIInv, FinishAppendIInv DEF AppendStep
<1>6. CASE \E r \in Readers : ReaderStep(r)
  BY <1>6, ReaderStepIInv
<1>7. CASE ProcessDies \/ PowerFailure
  BY <1>7, CrashIInv
<1> QED
  BY <1>1, <1>2, <1>3, <1>4, <1>5, <1>6, <1>7 DEF Next

\* The inductive invariant is an invariant.
THEOREM Invariance == Spec => []IInv
  BY InitIInv, NextIInv, PTL DEF Spec

\* Every variable keeps to its type, whatever is written, read or lost.
THEOREM TypeCorrect == Spec => []TypeOK
<1>1. IInv => TypeOK
  BY DEF IInv
<1> QED
  BY <1>1, Invariance, PTL

\* FileEventLog.Append answers only for lines that survive any number of process
\* deaths and power failures.
THEOREM Durability == Spec => []AcknowledgedIsDurable
<1>1. IInv => AcknowledgedIsDurable
  BY DEF IInv, TypeOK, DiskInv, AckInv, AcknowledgedIsDurable
<1> QED
  BY <1>1, Invariance, PTL

\* However often crashes made clocks repeat, NewCachingDecorator never drops a
\* line that is not a repeat.
THEOREM DenseLoading == Spec => []LoadedClocksAreDense
<1>1. IInv => LoadedClocksAreDense
  BY DEF IInv, CacheInv, LoadedClocksAreDense
<1> QED
  BY <1>1, Invariance, PTL

\* Iterators resume from a clock that may lag behind the position, never ahead of
\* it: what a follower applies has no gaps.
THEOREM NoGaps == Spec => []ReaderNeverSkips
<1>1. IInv => ReaderNeverSkips
  BY DEF IInv, ReaderInv, ReaderOK, ReaderNeverSkips
<1> QED
  BY <1>1, Invariance, PTL

\* After its first wake-up a follower is never asleep with events left.
THEOREM NoLostWakeUp == Spec => []WokenReaderSleepsOnlyWhenCaughtUp
<1>1. IInv => WokenReaderSleepsOnlyWhenCaughtUp
  <2> SUFFICES ASSUME IInv, NEW r \in Readers, AsleepOnOpenChannel(r), reader[r].woken
               PROVE  CaughtUp(r)
    BY DEF WokenReaderSleepsOnlyWhenCaughtUp
  <2>1. reader[r] \in Reader /\ ReaderOK(reader[r]) /\ Len(events) \in Nat
    BY DEF IInv, TypeOK, ReaderInv
  <2>2. reader[r].next >= Len(events) /\ 1..reader[r].next \subseteq reader[r].seen
    BY <2>1 DEF AsleepOnOpenChannel, ReaderOK
  <2> QED
    BY <2>1, <2>2 DEF CaughtUp, Reader
<1> QED
  BY <1>1, Invariance, PTL
=============================================================================
