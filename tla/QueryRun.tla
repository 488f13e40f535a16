------------------------------ MODULE QueryRun ------------------------------
(***************************************************************************)
(* One call of QueryRunner.RunMessages (internal/runtime/query_runner.go)  *)
(* with the goroutine it starts, the two bounded channels it returns, the  *)
(* transport stream it reads, the caller that may cancel its context and   *)
(* the consumer that reads the channels, or stops reading them.            *)
(*                                                                         *)
(* Both callers of RunMessages pass exactly one input message.  Messages   *)
(* are abstracted to their kind, the turn and model attempt they belong to *)
(* and the tool call they are about; the text they carry is dropped.       *)
(* `log' and `errs' are everything ever put on the two channels, `taken'   *)
(* and `errsTaken' how much the consumer has received: what is buffered is *)
(* the difference.                                                         *)
(***************************************************************************)
EXTENDS Integers, Sequences, FiniteSets

CONSTANTS
  OutCap,        \* capacity of the message channel (64 in the code)
  ErrCap,        \* capacity of the error channel (8 in the code)
  MaxTurns,      \* WithMaxTurns, defaulted to 8
  Models,        \* model candidates per turn: 1, or 2 with a FallbackModel
  Partial,       \* IncludePartialMessages
  Checkpointing, \* EnableFileCheckpointing
  SystemPrompt,  \* is there an effective system prompt?
  Budget,        \* MaxBudgetUSD, larger than any cost when it is not set
  Events,        \* the stream events the server may send
  MaxEvents,     \* bound: events of one stream
  Priors         \* histories the session may hold when the run starts

\* A cost event has no content and a charge n, which may be 0.
EventKinds == {"text", "call", "cost", "inline", "error"}
NoId == -1       \* the empty tool call ID ""

\* A history entry: the calls of an assistant turn, the call a tool answers.
Entry(role, calls, id) == [role |-> role, calls |-> calls, id |-> id]
Roles == {"system", "user", "assistant", "tool"}
HistoryEntry == [role : Roles, calls : Seq(Int), id : Int]

\* The calls of an assistant entry are answered by the entries right after it.
AnsweredAt(h, i) ==
  \A j \in 1..Len(h[i].calls) :
    /\ i + j <= Len(h)
    /\ h[i+j].role = "tool"
    /\ h[i+j].id = h[i].calls[j]
Answered(h) == \A i \in 1..Len(h) : AnsweredAt(h, i)

ASSUME QueryRunAssumption ==
  /\ OutCap \in Nat \ {0} /\ ErrCap \in Nat \ {0}
  /\ MaxTurns \in Nat \ {0}
  /\ Models \in {1, 2}
  /\ Partial \in BOOLEAN /\ Checkpointing \in BOOLEAN /\ SystemPrompt \in BOOLEAN
  /\ Budget \in Nat
  /\ IsFiniteSet(Events) /\ Events \subseteq [kind : EventKinds, n : Int]
  /\ \A e \in Events : e.kind \in {"cost", "inline"} => e.n \in Nat
  /\ MaxEvents \in Nat
  /\ Priors \subseteq Seq(HistoryEntry)
  /\ \A h \in Priors : Answered(h)

-----------------------------------------------------------------------------
VARIABLES
  pc,            \* where the run's goroutine is
  cancelled,     \* the context is done (Interrupt, Close, a newer query)
  left,          \* the consumer stopped reading
  log, taken,    \* the message channel
  errs, errsTaken, \* the error channel
  buf,           \* the transport's event channel (capacity 32, never full here)
  sent,          \* how many events this stream has carried
  netErrs,       \* errors waiting on the transport's error channel
  net,           \* "idle", "serving", or how the stream ended
  sOpen, eOpen,  \* runStream's streamCh and errCh are not yet nil
  turn, attempt, \* loop counters of the turn loop and the model loop
  emitted,       \* runStream has put something on the message channel
  visible,       \* the assistant produced text, reasoning or an image
  calls, inline, \* tool call indices seen; inline <tool_call> tags seen
  attemptCost, turnCost, spent, \* *turnCost, turnTotalCost, totalCost
  billed,        \* history variable: what the server charged in total
  todo, results, \* orderedCalls; tool entries collected so far
  outcome,       \* the ResultMessage about to be sent
  history,       \* the run's own copy of the conversation
  prior,         \* what the session held when the run started
  committed,     \* what the session holds now
  userTurns      \* user messages numbered by this run (s.UserTurns)

chans == <<log, taken, errs, errsTaken>>
netvars == <<buf, sent, netErrs, net>>
stream == <<sOpen, eOpen, emitted, visible, calls, inline, attemptCost, billed>>
loop == <<turn, attempt, turnCost, spent>>
tools == <<todo, results, outcome>>
session == <<history, prior, committed, userTurns>>
env == <<cancelled, left>>
vars == <<pc, env, chans, netvars, stream, loop, tools, session>>

Message(kind, id) == [kind |-> kind, turn |-> turn, attempt |-> attempt, id |-> id]

Room == Len(log) - taken < OutCap
Put(m) == Room /\ log' = Append(log, m) /\ UNCHANGED <<taken, errs, errsTaken>>

\* select { case out <- m: ...; case <-ctx.Done(): errs <- ctx.Err(); return }
\* The caller describes what the run does next once the message is accepted.
Emit(m, next) == Put(m) /\ pc' = next
GiveUp == cancelled /\ pc' = "fail" /\ UNCHANGED chans

Init ==
  /\ pc = "start"
  /\ cancelled = FALSE /\ left = FALSE
  /\ log = <<>> /\ taken = 0 /\ errs = <<>> /\ errsTaken = 0
  /\ buf = <<>> /\ sent = 0 /\ netErrs = 0 /\ net = "idle"
  /\ sOpen = FALSE /\ eOpen = FALSE
  /\ turn = 0 /\ attempt = 1
  /\ emitted = FALSE /\ visible = FALSE
  /\ calls = {} /\ inline = 0
  /\ attemptCost = 0 /\ turnCost = 0 /\ spent = 0 /\ billed = 0
  /\ todo = <<>> /\ results = <<>> /\ outcome = "success"
  /\ prior \in Priors /\ committed = prior /\ history = <<>>
  /\ userTurns = 0

-----------------------------------------------------------------------------
(* Before the first request.                                               *)

\* A missing or failing transport ends the run; else the history is cloned.
StartTransport ==
  /\ pc = "start"
  /\ \/ /\ pc' = "fail"
        /\ UNCHANGED history
     \/ /\ history' = committed
        /\ pc' = IF committed = <<>> /\ SystemPrompt THEN "system" ELSE "user"
  /\ UNCHANGED <<env, chans, netvars, stream, loop, tools, prior, committed, userTurns>>

SendSystem ==
  /\ pc = "system"
  /\ \/ /\ Emit(Message("system", NoId), "user")
        /\ history' = Append(history, Entry("system", <<>>, NoId))
     \/ GiveUp /\ UNCHANGED history
  /\ UNCHANGED <<env, netvars, stream, loop, tools, prior, committed, userTurns>>

\* s.UserTurns is advanced whether or not the message can be delivered.
SendUser ==
  /\ pc = "user"
  /\ userTurns' = userTurns + 1
  /\ Emit(Message("user", NoId), "userHook") \/ GiveUp
  /\ UNCHANGED <<env, netvars, stream, loop, tools, history, prior, committed>>

\* UserPromptSubmit: an error or an unsupported output ends the run.
UserHook ==
  /\ pc = "userHook"
  /\ \/ /\ pc' = "fail"
        /\ UNCHANGED history
     \/ /\ history' = Append(history, Entry("user", <<>>, NoId))
        /\ pc' = IF Checkpointing THEN "checkpoint" ELSE "open"
  /\ UNCHANGED <<env, chans, netvars, stream, loop, tools, prior, committed, userTurns>>

\* SetState and Snapshot take effect even when SnapshotFiles then fails.
TakeCheckpoint ==
  /\ pc = "checkpoint"
  /\ committed' = history
  /\ pc' \in {"open", "fail"}
  /\ UNCHANGED <<env, chans, netvars, stream, loop, tools, history, prior, userTurns>>

-----------------------------------------------------------------------------
(* One request: CreateStream and runStream.                                *)

OpenStream ==
  /\ pc = "open"
  /\ pc' = "poll"
  /\ buf' = <<>> /\ sent' = 0 /\ netErrs' = 0 /\ net' = "serving"
  /\ sOpen' = TRUE /\ eOpen' = TRUE
  /\ emitted' = FALSE /\ visible' = FALSE /\ calls' = {} /\ inline' = 0
  /\ attemptCost' = 0
  /\ UNCHANGED <<env, chans, billed, loop, tools, session>>

\* Fall back only when nothing was emitted and another model is left.
MayFallBackRegardless == attempt < Models  \* mutant: emitted is ignored
MayFallBack == ~emitted /\ attempt < Models

\* runStream returned an error.  A stream it abandons is not closed: its
\* transport goroutine lives on, unread, until the context is done.
StreamFailed ==
  /\ turnCost' = turnCost + attemptCost
  /\ IF MayFallBack
     THEN pc' = "open" /\ attempt' = attempt + 1
     ELSE pc' = "fail" /\ UNCHANGED attempt
  /\ UNCHANGED <<stream, turn, spent, tools, session, env>>

\* processEvent forwards the raw event first, then folds it into the turn.
Absorb(e) ==
  /\ visible' = (visible \/ e.kind \in {"text", "inline"})
  /\ calls' = IF e.kind = "call" THEN calls \cup {e.n} ELSE calls
  /\ inline' = IF e.kind = "inline" THEN inline + e.n ELSE inline
  /\ attemptCost' = IF e.kind = "cost" THEN e.n ELSE attemptCost
  /\ billed' = IF e.kind = "cost" THEN billed - attemptCost + e.n ELSE billed

AfterEvent(e) ==
  CASE e.kind = "error" -> "report"
    [] e.kind \in {"text", "inline"} /\ Partial -> "partial"
    [] OTHER -> "poll"

ReadEvent ==
  /\ pc \in {"poll", "wait"} /\ sOpen /\ buf # <<>>
  /\ buf' = Tail(buf)
  /\ UNCHANGED <<sent, netErrs, net>>
  /\ \/ /\ Emit(Message("event", NoId), AfterEvent(Head(buf)))
        /\ emitted' = TRUE
        /\ Absorb(Head(buf))
        /\ UNCHANGED <<sOpen, eOpen, loop, tools, session, env>>
     \/ cancelled /\ StreamFailed /\ UNCHANGED chans

\* The partial AssistantMessage of a visible delta.
SendPartial ==
  /\ pc = "partial"
  /\ UNCHANGED netvars
  /\ \/ /\ Emit(Message("partial", NoId), "poll")
        /\ UNCHANGED <<stream, loop, tools, session, env>>
     \/ cancelled /\ StreamFailed /\ UNCHANGED chans

\* A malformed or error event is reported and the stream goes on.
ReportBadEvent ==
  /\ pc = "report"
  /\ UNCHANGED netvars
  /\ \/ /\ Len(errs) - errsTaken < ErrCap
        /\ errs' = Append(errs, "warning")
        /\ pc' = "poll"
        /\ UNCHANGED <<log, taken, errsTaken, stream, loop, tools, session, env>>
     \/ cancelled /\ StreamFailed /\ UNCHANGED chans

\* The non-blocking look at the event channel found nothing.
NothingReady ==
  /\ pc = "poll" /\ (~sOpen \/ (buf = <<>> /\ net = "serving"))
  /\ pc' = "wait"
  /\ UNCHANGED <<env, chans, netvars, stream, loop, tools, session>>

\* for streamCh != nil || errCh != nil
DrainedStreamOnly(s, e) == ~s  \* mutant: the error channel is not awaited
Drained(s, e) == ~s /\ ~e

SeeStreamClosed ==
  /\ pc \in {"poll", "wait"} /\ sOpen /\ buf = <<>> /\ net # "serving"
  /\ sOpen' = FALSE
  /\ pc' = IF Drained(FALSE, eOpen) THEN "turnEnd" ELSE "poll"
  /\ UNCHANGED <<env, chans, netvars, eOpen, emitted, visible, calls, inline,
                 attemptCost, billed, loop, tools, session>>

SeeErrsClosed ==
  /\ pc = "wait" /\ eOpen /\ netErrs = 0 /\ net # "serving"
  /\ eOpen' = FALSE
  /\ pc' = IF Drained(sOpen, FALSE) THEN "turnEnd" ELSE "poll"
  /\ UNCHANGED <<env, chans, netvars, sOpen, emitted, visible, calls, inline,
                 attemptCost, billed, loop, tools, session>>

ReadNetError ==
  /\ pc = "wait" /\ eOpen /\ netErrs > 0
  /\ netErrs' = netErrs - 1
  /\ StreamFailed
  /\ UNCHANGED <<buf, sent, net, chans>>

NeverSeeCancelled == FALSE  \* mutant: the select without its ctx branch
SeeCancelled ==
  /\ pc = "wait" /\ cancelled
  /\ StreamFailed
  /\ UNCHANGED <<netvars, chans>>

-----------------------------------------------------------------------------
(* After the stream: budget, assistant message, tool loop, verdict.        *)

\* orderCalls: by index, negative indices dropped.
Orders(S) ==
  LET kept == S \cap Nat IN
  {s \in [1..Cardinality(kept) -> kept] :
     \A i, j \in 1..Cardinality(kept) : i < j => s[i] < s[j]}

\* Calls found only as text carry no ID (synthetic deltas leave it empty).
OrderedCalls ==
  IF calls = {} /\ inline > 0 THEN {[i \in 1..inline |-> NoId]} ELSE Orders(calls)

OverBudgetThisTurn == turnCost + attemptCost > Budget  \* mutant: no running total
OverBudget == spent + turnCost + attemptCost > Budget

CloseTurn ==
  /\ pc = "turnEnd"
  /\ spent' = spent + turnCost + attemptCost
  /\ turnCost' = 0 /\ attemptCost' = 0
  /\ IF OverBudget
     THEN pc' = "result" /\ outcome' = "budget" /\ UNCHANGED <<todo, results>>
     ELSE /\ todo' \in OrderedCalls
          /\ results' = <<>>
          /\ pc' = IF visible /\ ~Partial THEN "assistant" ELSE "tools"
          /\ UNCHANGED outcome
  /\ UNCHANGED <<env, chans, netvars, sOpen, eOpen, emitted, visible, calls,
                 inline, billed, turn, attempt, session>>

SendAssistant ==
  /\ pc = "assistant"
  /\ Emit(Message("assistant", NoId), "tools") \/ GiveUp
  /\ UNCHANGED <<env, netvars, stream, loop, tools, session>>

Current == todo[Len(results) + 1]

SendToolUse ==
  /\ pc = "tools" /\ Len(results) < Len(todo)
  /\ Emit(Message("tool_use", Current), "permission") \/ GiveUp
  /\ UNCHANGED <<env, netvars, stream, loop, tools, session>>

\* A denial with interrupt ends in a ResultMessage, another one in an error;
\* a rejected PostToolUseFailure output turns either into an error.
Deny ==
  \/ pc' = "fail" /\ UNCHANGED outcome
  \/ pc' = "result" /\ outcome' = "interrupted"

\* PermissionRequest hooks: failure, denial, or consent.
AskPermission ==
  /\ pc = "permission"
  /\ \/ pc' = "fail" /\ UNCHANGED outcome
     \/ Deny
     \/ pc' = "execute" /\ UNCHANGED outcome
  /\ UNCHANGED <<env, chans, netvars, stream, loop, todo, results, session>>

\* PreToolUse hooks, the executor, then PostToolUse hooks.  A failing tool is
\* answered to the model; a denial by the executor ends the run.
RunTool ==
  /\ pc = "execute"
  /\ \/ pc' = "fail" /\ UNCHANGED outcome
     \/ Deny
     \/ pc' = "answer" /\ UNCHANGED outcome
  /\ UNCHANGED <<env, chans, netvars, stream, loop, todo, results, session>>

SendToolResult ==
  /\ pc = "answer"
  /\ \/ /\ Emit(Message("tool_result", Current), "tools")
        /\ results' = Append(results, Entry("tool", <<>>, Current))
     \/ GiveUp /\ UNCHANGED results
  /\ UNCHANGED <<env, netvars, stream, loop, todo, outcome, session>>

\* What a turn with calls adds to the history.
ResultsFirst == results \o <<Entry("assistant", todo, NoId)>>  \* mutant: swapped
WithoutResults == <<Entry("assistant", todo, NoId)>>  \* mutant: answers forgotten
TurnEntries == <<Entry("assistant", todo, NoId)>> \o results

TurnsLeftOneMore == turn < MaxTurns  \* mutant: off by one
TurnsLeft == turn + 1 < MaxTurns

\* All calls answered: the turn joins the history and the next one starts.
NextTurn ==
  /\ pc = "tools" /\ todo # <<>> /\ Len(results) = Len(todo)
  /\ history' = history \o TurnEntries
  /\ IF TurnsLeft
     THEN pc' = "open" /\ turn' = turn + 1 /\ attempt' = 1
     ELSE pc' = "fail" /\ UNCHANGED <<turn, attempt>>
  /\ UNCHANGED <<env, chans, netvars, stream, turnCost, spent, tools, prior,
                 committed, userTurns>>

\* No calls: the assistant has answered.
Answer ==
  /\ pc = "tools" /\ todo = <<>>
  /\ history' = Append(history, Entry("assistant", <<>>, NoId))
  /\ pc' = "result" /\ outcome' = "success"
  /\ UNCHANGED <<env, chans, netvars, stream, loop, todo, results, prior,
                 committed, userTurns>>

AlwaysCommit(v) == "commit"  \* mutant: every verdict is stored
AfterResult(v) == IF v = "success" THEN "commit" ELSE "close"

SendResult ==
  /\ pc = "result"
  /\ \/ Emit(Message(outcome, NoId), AfterResult(outcome))
     \/ GiveUp
  /\ UNCHANGED <<env, netvars, stream, loop, tools, session>>

\* sessions.SetState, then the Stop hooks, whose outputs may be rejected.
CommitSession ==
  /\ pc = "commit"
  /\ committed' = history
  /\ pc' \in {"close", "fail"}
  /\ UNCHANGED <<env, chans, netvars, stream, loop, tools, history, prior, userTurns>>

\* errs <- err; return.  This send has no context branch.
Fail ==
  /\ pc = "fail"
  /\ Len(errs) - errsTaken < ErrCap
  /\ errs' = Append(errs, "final")
  /\ pc' = "close"
  /\ UNCHANGED <<env, log, taken, errsTaken, netvars, stream, loop, tools, session>>

NeverClose == FALSE  \* mutant: the deferred closes are missing
\* The deferred close(errs), close(out).
Close ==
  /\ pc = "close"
  /\ pc' = "done"
  /\ UNCHANGED <<env, chans, netvars, stream, loop, tools, session>>

Run ==
  \/ StartTransport \/ SendSystem \/ SendUser \/ UserHook \/ TakeCheckpoint
  \/ OpenStream \/ ReadEvent \/ SendPartial \/ ReportBadEvent \/ NothingReady
  \/ SeeStreamClosed \/ SeeErrsClosed \/ ReadNetError \/ SeeCancelled
  \/ CloseTurn \/ SendAssistant \/ SendToolUse \/ AskPermission \/ RunTool
  \/ SendToolResult \/ NextTurn \/ Answer \/ SendResult \/ CommitSession
  \/ Fail \/ Close

-----------------------------------------------------------------------------
(* The transport: CreateStream's goroutine and ParseSSE.                   *)

local == <<pc, env, chans, sOpen, eOpen, emitted, visible, calls, inline,
           attemptCost, billed, loop, tools, session>>

ServeEvent ==
  /\ net = "serving" /\ sent < MaxEvents
  /\ \E e \in Events : buf' = Append(buf, e)
  /\ sent' = sent + 1
  /\ UNCHANGED <<netErrs, net, local>>

\* An undecodable event does not stop the parser, a read error does.
\* Bound: one queued error, for runStream returns at the first.
ServeError ==
  /\ net = "serving" /\ netErrs = 0
  /\ netErrs' = 1
  /\ net' \in {"serving", "broken"}
  /\ UNCHANGED <<buf, sent, local>>

ServeEnd ==
  /\ net = "serving"
  /\ net' = "complete"
  /\ UNCHANGED <<buf, sent, netErrs, local>>

\* ParseSSE stops when the context is done, with or without an error.
ServeAborted ==
  /\ net = "serving" /\ cancelled
  /\ net' = "aborted"
  /\ netErrs' \in {netErrs, 1}
  /\ UNCHANGED <<buf, sent, local>>

Serve == ServeEvent \/ ServeError \/ ServeEnd \/ ServeAborted

-----------------------------------------------------------------------------
(* The consumer (ReceiveMessages) and whoever cancels.                     *)

TakeMessage ==
  /\ ~left /\ taken < Len(log)
  /\ taken' = taken + 1
  /\ UNCHANGED <<pc, env, log, errs, errsTaken, netvars, stream, loop, tools, session>>

TakeError ==
  /\ ~left /\ errsTaken < Len(errs)
  /\ errsTaken' = errsTaken + 1
  /\ UNCHANGED <<pc, env, log, taken, errs, netvars, stream, loop, tools, session>>

\* The caller's loop breaks, or its own context ends.
Leave ==
  /\ ~left /\ pc # "done"
  /\ left' = TRUE
  /\ UNCHANGED <<pc, cancelled, chans, netvars, stream, loop, tools, session>>

Cancel ==
  /\ ~cancelled /\ pc # "done"
  /\ cancelled' = TRUE
  /\ UNCHANGED <<pc, left, chans, netvars, stream, loop, tools, session>>

Consume == TakeMessage \/ TakeError

\* The run is over and nobody has anything left to do.
Finished == pc = "done" /\ net # "serving" /\ UNCHANGED vars

Next == Run \/ Serve \/ Consume \/ Leave \/ Cancel \/ Finished

Spec == Init /\ [][Next]_vars

\* Hooks, tools and the session store return; the consumer reads on until it
\* leaves; nothing is assumed of the server, the canceller or the leaver.
FairSpec == Spec /\ WF_vars(Run) /\ WF_vars(Consume)


-----------------------------------------------------------------------------
(* Properties.                                                             *)

Locations == {"start", "system", "user", "userHook", "checkpoint", "open",
  "poll", "wait", "partial", "report", "turnEnd", "assistant", "tools",
  "permission", "execute", "answer", "result", "commit", "fail", "close", "done"}
Kinds == {"system", "user", "event", "partial", "assistant", "tool_use",
          "tool_result", "success", "budget", "interrupted"}
Verdicts == {"success", "budget", "interrupted"}

MessageType == [kind : Kinds, turn : 0..MaxTurns-1, attempt : 1..Models, id : Int]

ControlOK == pc \in Locations /\ cancelled \in BOOLEAN /\ left \in BOOLEAN
ChannelsOK ==
  /\ log \in Seq(MessageType) /\ taken \in 0..Len(log) /\ Len(log) - taken <= OutCap
  /\ errs \in Seq({"warning", "final"})
  /\ errsTaken \in 0..Len(errs) /\ Len(errs) - errsTaken <= ErrCap
NetOK ==
  /\ buf \in Seq(Events) /\ sent \in 0..MaxEvents /\ netErrs \in {0, 1}
  /\ net \in {"idle", "serving", "complete", "broken", "aborted"}
StreamOK ==
  /\ sOpen \in BOOLEAN /\ eOpen \in BOOLEAN
  /\ emitted \in BOOLEAN /\ visible \in BOOLEAN
  /\ calls \subseteq Int /\ IsFiniteSet(calls) /\ inline \in Nat
LoopOK == turn \in 0..MaxTurns-1 /\ attempt \in 1..Models
CostOK == attemptCost \in Nat /\ turnCost \in Nat /\ spent \in Nat /\ billed \in Nat
ToolsOK == todo \in Seq(Int) /\ results \in Seq(HistoryEntry) /\ outcome \in Verdicts
SessionOK ==
  /\ history \in Seq(HistoryEntry) /\ prior \in Priors
  /\ committed \in Seq(HistoryEntry) /\ userTurns \in 0..1

\* Every variable keeps its type, no channel exceeds its capacity, and the two
\* loops of RunMessages stay within maxTurns and the model candidates.
TypeOK ==
  /\ ControlOK /\ ChannelsOK /\ NetOK /\ StreamOK
  /\ LoopOK /\ CostOK /\ ToolsOK /\ SessionOK

\* What a model says, and what the tools it calls answer.
ModelKinds == {"event", "partial", "assistant", "tool_use", "tool_result"}

\* The fallback model never continues an answer the consumer has begun to see:
\* everything delivered for one turn comes from one model (lines 485-491).
NoMixedAttempts ==
  \A i, j \in 1..Len(log) :
    log[i].kind \in ModelKinds /\ log[j].kind \in ModelKinds /\ log[i].turn = log[j].turn
    => log[i].attempt = log[j].attempt

\* Once the charges of the run exceed MaxBudgetUSD no further request is sent
\* and no further tool is run (lines 517-553).
BudgetRespected ==
  pc \in {"open", "tools", "permission", "execute", "answer"} => billed <= Budget

\* Both the history sent with each request and the one the session keeps answer
\* every tool call, in order, right after the turn that made it (595-851).
HistoryAnswered == Answered(history) /\ Answered(committed)

\* The identifiers at some places of a sequence of messages or entries, in order.
IdsOf(s, places) ==
  LET ids[n \in 0..Len(s)] ==
        IF n = 0 THEN <<>>
        ELSE IF n \in places THEN Append(ids[n-1], s[n].id) ELSE ids[n-1]
  IN  ids[Len(s)]
Shown == IdsOf(log, {i \in 1..Len(log) : log[i].kind \in {"user", "tool_result"}})
Kept(h) == IdsOf(h, {i \in Len(prior)+1..Len(h) : h[i].role \in {"user", "tool"}})
Answering == {"open", "poll", "wait", "turnEnd", "commit"}

\* What the consumer was shown (its own message and every tool result) is what
\* the next request and the committed session contain, no more and no less.
ShownIsStored == pc \in Answering => Kept(history) = Shown

\* Only cancellation can pass a cut-off stream off as a finished answer (it may:
\* the transport ends silently and the last send may win); a broken connection
\* or an undecodable event ends in an error (1607-1648).
Succeeded == log # <<>> /\ log[Len(log)].kind = "success"
BrokenStreamNeverSucceeds == Succeeded => net \in {"complete", "aborted"}

(* How a state of the run reads as a state of RunContract.                 *)
Phase == IF pc = "done" THEN "ended" ELSE "running"
Verdict ==
  IF log # <<>> /\ log[Len(log)].kind \in Verdicts THEN log[Len(log)].kind ELSE "none"
Reported == errs # <<>> /\ errs[Len(errs)] = "final"
Warned == IF Reported THEN Len(errs) - 1 ELSE Len(errs)
Stored ==
  IF committed = prior THEN "before"
  ELSE IF committed[Len(committed)].role = "assistant" THEN "answer" ELSE "question"

\* RunMessages keeps the promise made to whoever holds its channels: one verdict
\* or one final error, the answer stored only after it was delivered.
Contract == INSTANCE RunContract WITH phase <- Phase, delivered <- Len(log),
  verdict <- Verdict, warnings <- Warned, failed <- Reported, stored <- Stored
ImplementsContract == Contract!Spec

\* A cancelled run ends even when nobody reads its channels and the server
\* hangs, as long as the error channel has room for every error of the run.
CancelStops == cancelled ~> pc = "done"

\* A run whose consumer keeps reading ends, whatever the server sends, as long
\* as the server ends every stream it has begun.
DrainedRunEnds == WF_vars(ServeEnd) => <>left \/ <>(pc = "done")
=============================================================================
