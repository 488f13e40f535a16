----------------------------- MODULE StreamInput -----------------------------
(***************************************************************************)
(* QueryRunner.RunMessageIterator: a stream of input messages is answered  *)
(* one run at a time.  Three goroutines and the consumer meet here: ingest *)
(* pulls the caller's iterator into a bounded inbox, the forwarder starts  *)
(* one run per input and copies the run's two channels to the pair it      *)
(* returned, and the run itself is whatever RunContract allows.            *)
(*                                                                         *)
(* The forwarder's deferred ingestWG.Wait() runs before its deferred       *)
(* closes, so the returned channels stay open for as long as ingest lives. *)
(* The session a message names is data and left out.                       *)
(***************************************************************************)
EXTENDS Integers

CONSTANTS
  Inputs,   \* how many messages the caller's iterator yields
  InCap,    \* capacity of inputCh (16 in the code)
  OutCap,   \* capacity of both message channels (64 in the code)
  ErrCap,   \* capacity of both error channels (8 in the code)
  MaxSay,   \* bound: messages of one run, its verdict included
  MaxWarn   \* bound: warnings of one run

ASSUME StreamInputAssumption ==
  /\ Inputs \in Nat /\ MaxSay \in Nat /\ MaxWarn \in Nat
  /\ InCap \in Nat \ {0} /\ OutCap \in Nat \ {0} /\ ErrCap \in Nat \ {0}

VARIABLES
  cancelled,        \* the context is done
  left,             \* the consumer stopped reading
  ingest,           \* "pull" (in the iterator), "offer" (to inputCh), "done"
  pulled, started,  \* inputs pulled from the iterator, inputs given a run
  inbox,            \* inputs waiting in inputCh
  fwd,              \* where the forwarder is
  msgsOpen, errsOpen, \* ~msgClosed, ~errClosed
  read, errsRead,   \* what the forwarder received from the current run
  shown, taken,     \* messages put on the returned channel, and received
  failures, failuresTaken, \* errors put on the returned channel, and received
  produced,         \* history variable: messages of all earlier runs
  phase, delivered, verdict, warnings, failed, stored \* the current run

run == <<phase, delivered, verdict, warnings, failed, stored>>
input == <<ingest, pulled, inbox>>
output == <<shown, taken, failures, failuresTaken>>
reading == <<msgsOpen, errsOpen, read, errsRead>>
vars == <<cancelled, left, input, started, fwd, reading, output, produced, run>>

Contract == INSTANCE RunContract

Init ==
  /\ cancelled = FALSE /\ left = FALSE
  /\ ingest = "pull" /\ pulled = 0 /\ inbox = 0 /\ started = 0
  /\ fwd = "next"
  /\ msgsOpen = FALSE /\ errsOpen = FALSE /\ read = 0 /\ errsRead = 0
  /\ shown = 0 /\ taken = 0 /\ failures = 0 /\ failuresTaken = 0
  /\ produced = 0
  /\ phase = "ended" /\ delivered = 0 /\ verdict = "none"
  /\ warnings = 0 /\ failed = FALSE /\ stored = "before"

-----------------------------------------------------------------------------
(* ingest: for in := range inputs { inputCh <- in }                        *)

PullInput ==
  /\ ingest = "pull" /\ pulled < Inputs
  /\ pulled' = pulled + 1
  /\ ingest' = "offer"
  /\ UNCHANGED <<cancelled, left, inbox, started, fwd, reading, output, produced, run>>

InputsEnd ==
  /\ ingest = "pull" /\ pulled = Inputs
  /\ ingest' = "done"
  /\ UNCHANGED <<cancelled, left, pulled, inbox, started, fwd, reading, output,
                 produced, run>>

OfferUnbuffered ==  \* mutant: inputCh without a buffer
  \/ inbox < InCap /\ fwd = "next" /\ inbox' = inbox + 1 /\ ingest' = "pull"
  \/ cancelled /\ ingest' = "done" /\ UNCHANGED inbox
Offer ==
  \/ inbox < InCap /\ inbox' = inbox + 1 /\ ingest' = "pull"
  \/ cancelled /\ ingest' = "done" /\ UNCHANGED inbox

OfferInput ==
  /\ ingest = "offer"
  /\ Offer
  /\ UNCHANGED <<cancelled, left, pulled, started, fwd, reading, output, produced, run>>

Ingest == InputsEnd \/ OfferInput

-----------------------------------------------------------------------------
(* The forwarder.                                                          *)

\* errs <- ctx.Err(); return.  The first error always finds room.
AbortWithError == cancelled /\ fwd' = "join" /\ failures' = failures + 1

StartRun ==
  /\ fwd = "next" /\ inbox > 0
  /\ inbox' = inbox - 1
  /\ started' = started + 1
  /\ fwd' = "forward"
  /\ msgsOpen' = TRUE /\ errsOpen' = TRUE /\ read' = 0 /\ errsRead' = 0
  /\ produced' = produced + delivered
  /\ phase' = "running" /\ delivered' = 0 /\ verdict' = "none"
  /\ warnings' = 0 /\ failed' = FALSE /\ stored' = "before"
  /\ UNCHANGED <<cancelled, left, ingest, pulled, output>>

\* The inbox is closed and empty: all inputs are answered, or ingest gave up.
NoMoreInputs ==
  /\ fwd = "next" /\ inbox = 0 /\ ingest = "done"
  /\ fwd' = "join"
  /\ UNCHANGED <<cancelled, left, input, started, reading, output, produced, run>>

\* for !msgClosed || !errClosed
RunOverAtResult(m, e) == verdict # "none" \/ ~(m \/ e)  \* mutant: stops at the result
RunOverAtErrsClosed(m, e) == ~e  \* mutant: && for ||
RunOver(m, e) == ~m /\ ~e

Loop(m, e) == fwd' = IF RunOver(m, e) THEN "next" ELSE "forward"

TakeRunMessage ==
  /\ fwd = "forward" /\ msgsOpen /\ read < delivered
  /\ read' = read + 1
  /\ fwd' = "send"
  /\ UNCHANGED <<cancelled, left, input, started, msgsOpen, errsOpen, errsRead,
                 output, produced, run>>

SeeMessagesClosed ==
  /\ fwd = "forward" /\ msgsOpen /\ read = delivered /\ phase = "ended"
  /\ msgsOpen' = FALSE
  /\ Loop(FALSE, errsOpen)
  /\ UNCHANGED <<cancelled, left, input, started, errsOpen, read, errsRead, output,
                 produced, run>>

ErrorsSaid == warnings + (IF failed THEN 1 ELSE 0)

\* Any error of the run, a mere warning included, ends the whole stream.
TakeRunError ==
  /\ fwd = "forward" /\ errsOpen /\ errsRead < ErrorsSaid
  /\ errsRead' = errsRead + 1
  /\ fwd' = "report"
  /\ UNCHANGED <<cancelled, left, input, started, msgsOpen, errsOpen, read, output,
                 produced, run>>

SeeErrorsClosed ==
  /\ fwd = "forward" /\ errsOpen /\ errsRead = ErrorsSaid /\ phase = "ended"
  /\ errsOpen' = FALSE
  /\ Loop(msgsOpen, FALSE)
  /\ UNCHANGED <<cancelled, left, input, started, msgsOpen, read, errsRead, output,
                 produced, run>>

ForwardMessage ==
  /\ fwd = "send" /\ shown - taken < OutCap
  /\ shown' = shown + 1
  /\ Loop(msgsOpen, errsOpen)
  /\ UNCHANGED <<cancelled, left, input, started, reading, taken, failures,
                 failuresTaken, produced, run>>

\* return after errs <- err, whatever the run still has to say.
CarryOn == fwd' = "forward"  \* mutant: the error is passed on like a message
GiveUp == fwd' = "join"

ReportError ==
  /\ fwd = "report"
  /\ failures' \in {failures + 1} \cup (IF cancelled THEN {failures} ELSE {})
  /\ GiveUp
  /\ UNCHANGED <<cancelled, left, input, started, reading, shown, taken,
                 failuresTaken, produced, run>>

SeeCancelled ==
  /\ fwd \in {"next", "forward", "send"}
  /\ AbortWithError
  /\ UNCHANGED <<cancelled, left, input, started, reading, shown, taken,
                 failuresTaken, produced, run>>

\* ingestWG.Wait(), then close(errs), close(out).
Join == ingest = "done"
CloseChannels ==
  /\ fwd = "join" /\ Join
  /\ fwd' = "closed"
  /\ UNCHANGED <<cancelled, left, input, started, reading, output, produced, run>>

Forward ==
  \/ StartRun \/ NoMoreInputs \/ TakeRunMessage \/ SeeMessagesClosed
  \/ TakeRunError \/ SeeErrorsClosed \/ ForwardMessage \/ ReportError
  \/ SeeCancelled \/ CloseChannels

-----------------------------------------------------------------------------
(* The run, its consumer and whoever cancels.                              *)

\* The run's own channels hold OutCap messages and ErrCap errors.
RunStep ==
  /\ Contract!Next
  /\ delivered' - read <= OutCap /\ delivered' <= MaxSay
  /\ warnings' <= MaxWarn
  /\ warnings' + (IF failed' THEN 1 ELSE 0) - errsRead <= ErrCap
  /\ UNCHANGED <<cancelled, left, input, started, fwd, reading, output, produced>>

TakeMessage ==
  /\ ~left /\ taken < shown
  /\ taken' = taken + 1
  /\ UNCHANGED <<cancelled, left, input, started, fwd, reading, shown, failures,
                 failuresTaken, produced, run>>

TakeError ==
  /\ ~left /\ failuresTaken < failures
  /\ failuresTaken' = failuresTaken + 1
  /\ UNCHANGED <<cancelled, left, input, started, fwd, reading, shown, taken,
                 failures, produced, run>>

Leave ==
  /\ ~left /\ fwd # "closed"
  /\ left' = TRUE
  /\ UNCHANGED <<cancelled, input, started, fwd, reading, output, produced, run>>

Cancel ==
  /\ ~cancelled /\ fwd # "closed"
  /\ cancelled' = TRUE
  /\ UNCHANGED <<left, input, started, fwd, reading, output, produced, run>>

Consume == TakeMessage \/ TakeError

Next ==
  \/ PullInput \/ Ingest \/ Forward \/ RunStep \/ Consume \/ Leave \/ Cancel

Spec == Init /\ [][Next]_vars

\* The SDK's goroutines are scheduled and runs are finite; the consumer reads
\* until it leaves; the caller's iterator may keep ingest waiting for ever.
FairSpec ==
  Spec /\ WF_vars(Ingest) /\ WF_vars(Forward) /\ WF_vars(RunStep) /\ WF_vars(Consume)

\* In addition the iterator always yields or ends.
YieldingSpec == FairSpec /\ WF_vars(PullInput)

-----------------------------------------------------------------------------
(* Properties.                                                             *)

\* Every counter within its channel, every location known.
TypeOK ==
  /\ cancelled \in BOOLEAN /\ left \in BOOLEAN
  /\ ingest \in {"pull", "offer", "done"}
  /\ pulled \in 0..Inputs /\ inbox \in 0..InCap /\ started \in 0..Inputs
  /\ fwd \in {"next", "forward", "send", "report", "join", "closed"}
  /\ msgsOpen \in BOOLEAN /\ errsOpen \in BOOLEAN
  /\ read \in 0..delivered /\ errsRead \in 0..ErrorsSaid
  /\ shown \in Nat /\ taken \in 0..shown /\ shown - taken <= OutCap
  /\ failures \in 0..1 /\ failuresTaken \in 0..failures
  /\ produced \in Nat
  /\ Contract!TypeOK /\ delivered <= MaxSay /\ warnings <= MaxWarn

\* The next input's run starts from the session its predecessor left behind:
\* no run is started while another may still store something (229-262).
RunsAreSerial == [][started' # started => phase = "ended"]_vars

\* When the channels are closed nobody is left inside the caller's iterator: it may
\* be reused or freed.  A stream that closes without an error, and was not cancelled,
\* has answered every input and forwarded every message of every run.
NothingLost ==
  fwd = "closed" => /\ ingest = "done"
                    /\ failures = 0 /\ ~cancelled
                       => started = Inputs /\ shown = produced + delivered

\* "use context cancellation to abort" (client.go:63), and "messages are yielded as
\* they arrive until EOF, an error occurs, or context is cancelled" (client.go:73):
\* a cancelled stream comes to an end, and so does, for a consumer that reads on,
\* one that reported an error, if the inbox has room for the inputs without a run.
\* With more of them the forwarder and ingest wait for each other.
StreamEnds ==
  /\ cancelled ~> fwd = "closed"
  /\ failures > 0 /\ Inputs - started <= InCap ~> left \/ fwd = "closed"
=============================================================================
