-------------------------- MODULE StreamInputProofs --------------------------
(***************************************************************************)
(* StreamInput keeps its types, starts one run at a time and loses nothing *)
(* of a stream that closes without an error, for every number of inputs,   *)
(* every capacity and every bound on a run.  The invariant is an account:  *)
(* every input pulled is in a run, in the inbox or in ingest's hand, and   *)
(* every message a run produced is shown, in the forwarder's hand or still *)
(* in the run's channel.                                                   *)
(***************************************************************************)
EXTENDS StreamInput, TLAPS

\* A channel seen closed belongs to a run that has ended, and is drained.
ClosedIsEnded ==
  /\ ~msgsOpen => phase = "ended" /\ read = delivered
  /\ ~errsOpen => phase = "ended"
  /\ fwd = "next" => ~msgsOpen /\ ~errsOpen

\* Where the inputs are that ingest pulled.
InputsAccount ==
  /\ ingest = "pull" => pulled = started + inbox
  /\ ingest = "offer" => pulled = started + inbox + 1
  /\ ingest = "done" =>
       /\ started + inbox <= pulled
       /\ ~cancelled => pulled = Inputs /\ pulled = started + inbox

\* Where the messages are that the forwarder received; it goes on only while
\* it has reported no error.
MessagesAccount ==
  /\ fwd \notin {"join", "closed"} => failures = 0
  /\ failures = 0 => produced + read = shown + (IF fwd = "send" THEN 1 ELSE 0)

\* The forwarder returned without an error: it was cancelled, or all is answered.
Returned ==
  /\ fwd \in {"join", "closed"} /\ failures = 0 /\ ~cancelled
       => ~msgsOpen /\ inbox = 0 /\ ingest = "done"
  /\ fwd = "closed" => ingest = "done"

StreamInv ==
  TypeOK /\ ClosedIsEnded /\ InputsAccount /\ MessagesAccount /\ Returned

-----------------------------------------------------------------------------
(* The stream starts with nothing pulled, no run and nothing shown.        *)
LEMMA InitStreamInv == Init => StreamInv
<1> SUFFICES ASSUME Init PROVE StreamInv
  OBVIOUS
<1>1. Contract!TypeOK
  BY Zenon DEF Init, Contract!TypeOK, Contract!Verdicts
<1>2. warnings = 0 /\ ~failed
  BY Zenon DEF Init
<1>3. ErrorsSaid = 0
  BY <1>2 DEF ErrorsSaid
<1>4. {cancelled, left, msgsOpen, errsOpen} \subseteq BOOLEAN
  BY Zenon DEF Init
<1>5. TypeOK
  BY <1>1, <1>3, <1>4, StreamInputAssumption DEF Init, TypeOK
<1>6. ClosedIsEnded /\ InputsAccount /\ MessagesAccount /\ Returned
  BY DEF Init, ClosedIsEnded, InputsAccount, MessagesAccount, Returned
<1> QED
  BY <1>5, <1>6 DEF StreamInv

(* A step of the run only adds to what it said, and never after it ended.  *)
LEMMA RunGrows ==
  ASSUME TypeOK, Contract!Next
  PROVE  /\ Contract!TypeOK' /\ phase = "running"
         /\ delivered' >= delivered
         /\ ErrorsSaid \in Nat /\ ErrorsSaid' \in Nat /\ ErrorsSaid' >= ErrorsSaid
<1> USE DEF TypeOK, Contract!TypeOK, Contract!Verdicts, ErrorsSaid, Contract!Open
<1>1. CASE Contract!Message
  BY <1>1 DEF Contract!Message
<1>2. CASE Contract!Warning
  BY <1>2 DEF Contract!Warning
<1>3. CASE Contract!Checkpoint
  BY <1>3 DEF Contract!Checkpoint
<1>4. ASSUME NEW v \in Contract!Verdicts, Contract!Result(v)
      PROVE  /\ Contract!TypeOK' /\ phase = "running" /\ delivered' >= delivered
             /\ ErrorsSaid \in Nat /\ ErrorsSaid' \in Nat /\ ErrorsSaid' >= ErrorsSaid
  BY <1>4 DEF Contract!Result
<1>5. CASE Contract!Commit
  BY <1>5 DEF Contract!Commit
<1>6. CASE Contract!Failure
  BY <1>6 DEF Contract!Failure
<1>7. CASE Contract!End
  BY <1>7 DEF Contract!End
<1> QED
  BY <1>1, <1>2, <1>3, <1>4, <1>5, <1>6, <1>7 DEF Contract!Next

(* Ingest moves an input from the iterator to its hand, to the inbox.      *)
LEMMA IngestStep == ASSUME StreamInv, PullInput \/ Ingest PROVE StreamInv'
<1> USE StreamInputAssumption
    DEF StreamInv, TypeOK, ClosedIsEnded, InputsAccount, MessagesAccount, Returned,
        Contract!TypeOK, ErrorsSaid, run, reading, output
<1>1. CASE PullInput
  BY <1>1 DEF PullInput
<1>2. CASE InputsEnd
  BY <1>2 DEF InputsEnd
<1>3. CASE OfferInput
  BY <1>3 DEF OfferInput, Offer
<1> QED
  BY <1>1, <1>2, <1>3 DEF Ingest

(* The forwarder moves an input into a run, and messages out of it.        *)
LEMMA ForwardStep == ASSUME StreamInv, Forward PROVE StreamInv'
<1>1. CASE StartRun
  <2>1. Contract!TypeOK' /\ {msgsOpen', errsOpen'} \subseteq BOOLEAN
    BY <1>1, Zenon DEF StartRun, Contract!TypeOK, Contract!Verdicts
  <2>2. warnings' = 0 /\ ~failed'
    BY <1>1, Zenon DEF StartRun
  <2>3. ErrorsSaid' = 0
    BY <2>2 DEF ErrorsSaid
  <2>4. started + inbox <= Inputs
    BY StreamInputAssumption DEF StreamInv, TypeOK, InputsAccount
  <2>5. TypeOK'
    BY <1>1, <2>1, <2>3, <2>4, StreamInputAssumption
       DEF StartRun, StreamInv, TypeOK, Contract!TypeOK, output
  <2>6. ClosedIsEnded' /\ InputsAccount' /\ MessagesAccount' /\ Returned'
    BY <1>1 DEF StartRun, StreamInv, TypeOK, ClosedIsEnded, InputsAccount, MessagesAccount,
                Returned, Contract!TypeOK, output
  <2> QED
    BY <2>5, <2>6 DEF StreamInv
<1> USE StreamInputAssumption
    DEF StreamInv, TypeOK, ClosedIsEnded, InputsAccount, MessagesAccount, Returned,
        Contract!TypeOK, ErrorsSaid, run, input, reading, output
<1>2. CASE NoMoreInputs
  BY <1>2 DEF NoMoreInputs
<1>3. CASE TakeRunMessage
  BY <1>3 DEF TakeRunMessage
<1>4. CASE SeeMessagesClosed
  <2>1. TypeOK' /\ ClosedIsEnded'
    BY <1>4 DEF SeeMessagesClosed, Loop, RunOver
  <2>2. InputsAccount' /\ MessagesAccount' /\ Returned'
    BY <1>4 DEF SeeMessagesClosed, Loop, RunOver
  <2> QED
    BY <2>1, <2>2
<1>5. CASE TakeRunError
  BY <1>5 DEF TakeRunError
<1>6. CASE SeeErrorsClosed
  <2>1. TypeOK' /\ ClosedIsEnded'
    BY <1>6 DEF SeeErrorsClosed, Loop, RunOver
  <2>2. InputsAccount' /\ MessagesAccount' /\ Returned'
    BY <1>6 DEF SeeErrorsClosed, Loop, RunOver
  <2> QED
    BY <2>1, <2>2
<1>7. CASE ForwardMessage
  BY <1>7 DEF ForwardMessage, Loop, RunOver
<1>8. CASE ReportError
  BY <1>8 DEF ReportError, GiveUp
<1>9. CASE SeeCancelled
  BY <1>9 DEF SeeCancelled, AbortWithError
<1>10. CASE CloseChannels
  BY <1>10 DEF CloseChannels, Join
<1> QED
  BY <1>1, <1>2, <1>3, <1>4, <1>5, <1>6, <1>7, <1>8, <1>9, <1>10 DEF Forward

(* The run speaks on its own channels only.                                *)
LEMMA RunStepStep == ASSUME StreamInv, RunStep PROVE StreamInv'
<1>1. /\ Contract!TypeOK' /\ phase = "running" /\ delivered' >= delivered
      /\ ErrorsSaid \in Nat /\ ErrorsSaid' \in Nat /\ ErrorsSaid' >= ErrorsSaid
  BY RunGrows DEF StreamInv, RunStep
<1>2. delivered' \in Nat /\ delivered \in Nat
  BY <1>1 DEF StreamInv, TypeOK, Contract!TypeOK
<1>3. TypeOK'
  BY <1>1, <1>2 DEF StreamInv, TypeOK, RunStep, input, reading, output
<1> QED
  BY <1>1, <1>3 DEF StreamInv, ClosedIsEnded, InputsAccount, MessagesAccount, Returned,
                    RunStep, input, reading, output

(* The consumer and whoever cancels take nothing away.                     *)
LEMMA ConsumerStep == ASSUME StreamInv, Consume \/ Leave \/ Cancel PROVE StreamInv'
<1> USE StreamInputAssumption
    DEF StreamInv, TypeOK, ClosedIsEnded, InputsAccount, MessagesAccount, Returned,
        Contract!TypeOK, ErrorsSaid, run, input, reading, output
<1>1. CASE TakeMessage
  BY <1>1 DEF TakeMessage
<1>2. CASE TakeError
  BY <1>2 DEF TakeError
<1>3. CASE Leave
  BY <1>3 DEF Leave
<1>4. CASE Cancel
  BY <1>4 DEF Cancel
<1> QED
  BY <1>1, <1>2, <1>3, <1>4 DEF Consume

(* Every step keeps the account.                                           *)
LEMMA StreamStep == StreamInv /\ [Next]_vars => StreamInv'
<1> SUFFICES ASSUME StreamInv, [Next]_vars PROVE StreamInv'
  OBVIOUS
<1>1. CASE Next
  BY <1>1, IngestStep, ForwardStep, RunStepStep, ConsumerStep DEF Next
<1>2. CASE UNCHANGED vars
  BY <1>2 DEF vars, run, input, reading, output, StreamInv, TypeOK, ClosedIsEnded,
              InputsAccount, MessagesAccount, Returned, Contract!TypeOK, ErrorsSaid
<1> QED
  BY <1>1, <1>2

(* The account holds throughout.                                           *)
LEMMA StreamInvariant == Spec => []StreamInv
BY InitStreamInv, StreamStep, PTL DEF Spec

-----------------------------------------------------------------------------
(* Every counter stays within its channel: no send of the forwarder or of  *)
(* ingest overfills a channel, at most one error is ever reported, and no  *)
(* more runs are started than inputs were pulled (207-296).                *)
THEOREM StreamTypesAreKept == Spec => []TypeOK
<1>1. StreamInv => TypeOK
  BY DEF StreamInv
<1> QED
  BY <1>1, StreamInvariant, PTL

(* Channels that close without an error, in a stream nobody cancelled, have *)
(* shown every message of a run for every input, and whenever they close    *)
(* the caller's iterator is no longer in use.                               *)
THEOREM ClosedMeansAnswered == Spec => []NothingLost
<1>1. StreamInv => NothingLost
  BY StreamInputAssumption
     DEF StreamInv, TypeOK, NothingLost, Returned, InputsAccount, MessagesAccount, ClosedIsEnded,
         Contract!TypeOK
<1> QED
  BY <1>1, StreamInvariant, PTL

(* No run is started while its predecessor may still store something: the  *)
(* forwarder drains both channels of a run before it takes the next input. *)
THEOREM OneRunAtATime == Spec => RunsAreSerial
<1>1. StreamInv /\ [Next]_vars => [started' # started => phase = "ended"]_vars
  <2> SUFFICES ASSUME StreamInv, Next, started' # started PROVE phase = "ended"
    OBVIOUS
  <2>1. StartRun
    BY DEF Next, PullInput, Ingest, InputsEnd, OfferInput, Forward, NoMoreInputs,
           TakeRunMessage, SeeMessagesClosed, TakeRunError, SeeErrorsClosed, ForwardMessage,
           ReportError, SeeCancelled, CloseChannels, RunStep, Consume, TakeMessage,
           TakeError, Leave, Cancel
  <2> QED
    BY <2>1 DEF StartRun, StreamInv, ClosedIsEnded
<1> QED
  BY <1>1, StreamInvariant, PTL DEF Spec, RunsAreSerial
=============================================================================
