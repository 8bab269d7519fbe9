------------------------------ MODULE EventStream ------------------------------
(***************************************************************************)
(* GetEvents of the backend: a goroutine follows the event log and hands   *)
(* the events of the account, one at a time, to the handler that writes    *)
(* them to the client.  Only the goroutine watches the request's context.  *)
(* The follower is taken as EventLog's: in order and without gaps.         *)
(***************************************************************************)
EXTENDS Naturals, Sequences

CONSTANT MaxAppended   \* bound: events in the log

VARIABLES
  appended,   \* whose each event is
  fromCursor, \* the form value from_cursor
  reader,     \* the goroutine: its program counter and the events it has read
  handler,    \* "serving" or "returned"
  open,       \* is the request's context alive?
  written     \* history: the positions of the events written to the client

streamVars == <<appended, fromCursor, reader, handler, open, written>>

StreamInit ==
  /\ appended = <<>>
  /\ fromCursor \in 0..1
  /\ reader = [pc |-> "reading", at |-> fromCursor]
  /\ handler = "serving" /\ open = TRUE /\ written = <<>>

AppendEvent ==
  /\ Len(appended) < MaxAppended
  /\ \E whose \in {"own", "other", "server"} : appended' = Append(appended, whose)
  /\ UNCHANGED <<fromCursor, reader, handler, open, written>>

\* Mutant of ShouldSkipEvent: server.started has no account either.
SkipServerStarted(whose) == whose # "own"

\* server.started is for everyone.
ShouldSkipEvent(whose) == whose = "other"

\* Next returns an event as long as there is one, whatever became of the request.
ReadEvent ==
  /\ reader.pc = "reading" /\ reader.at < Len(appended)
  /\ reader' = [pc |-> IF ShouldSkipEvent(appended[reader.at + 1]) THEN "reading" ELSE "sending",
                at |-> reader.at + 1]
  /\ UNCHANGED <<appended, fromCursor, handler, open, written>>

\* Next returns false: the context is done.  eventC is closed.
ReaderEnds ==
  /\ reader.pc = "reading" /\ reader.at >= Len(appended) /\ ~open
  /\ reader' = [reader EXCEPT !.pc = "ended"]
  /\ UNCHANGED <<appended, fromCursor, handler, open, written>>

\* The channel has no buffer: the event is handed over and written.
WriteEvent ==
  /\ reader.pc = "sending" /\ handler = "serving"
  /\ written' = Append(written, reader.at)
  /\ reader' = [reader EXCEPT !.pc = "reading"]
  /\ UNCHANGED <<appended, fromCursor, handler, open>>

\* eventC is closed.
HandlerReturns ==
  /\ reader.pc = "ended" /\ handler = "serving"
  /\ handler' = "returned"
  /\ UNCHANGED <<appended, fromCursor, reader, open, written>>

CloseRequest ==
  /\ open /\ open' = FALSE
  /\ UNCHANGED <<appended, fromCursor, reader, handler, written>>

Goroutines == ReadEvent \/ ReaderEnds \/ WriteEvent \/ HandlerReturns
StreamNext == AppendEvent \/ CloseRequest \/ Goroutines

StreamSpec == StreamInit /\ [][StreamNext]_streamVars

-----------------------------------------------------------------------------
StreamTypeOK ==
  /\ appended \in Seq({"own", "other", "server"})
  /\ reader.pc \in {"reading", "sending", "ended"} /\ reader.at \in fromCursor..(MaxAppended + 1)
  /\ handler \in {"serving", "returned"} /\ open \in BOOLEAN

\* A position of the stream: an event after the cursor that is for the account.
IsOwn(n) == n > fromCursor /\ appended[n] # "other"

\* What was written, and what has been read to be written next.
Given == IF reader.pc = "sending" THEN Append(written, reader.at) ELSE written

(***************************************************************************)
(* What the client is sent are its account's events and the starts of the  *)
(* server after its cursor, in order, none left out and none twice.        *)
(***************************************************************************)
StreamIsOwn ==
  /\ \A j, k \in 1..Len(Given) : j < k => Given[j] < Given[k]
  /\ {Given[k] : k \in 1..Len(Given)} = {n \in 1..reader.at : IsOwn(n)}

\* The handler returns once its client has gone, and the goroutine with it.
Lingers == ~open /\ ~(reader.pc = "ended" /\ handler = "returned")

StreamEnds == Lingers ~> ~Lingers
=============================================================================
