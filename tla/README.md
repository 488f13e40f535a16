# A TLA+ development of lm-agent-sdk-go

The Go SDK in `src/` drives an agent loop against an LM Studio server: it sends a
conversation, streams the answer, runs the tools the model calls, and keeps the
conversation in sessions that can be checkpointed, rewound, forked and stored.
This directory specifies that behaviour in TLA+, checks it on small instances with
TLC, and proves the safety properties that matter most for every instance with
TLAPS.

## 1. The system

### Components, their state and their operations

| Component (source) | State | Operations | Module |
|---|---|---|---|
| Query run: `RunMessages`, `runStream` (`internal/runtime/query_runner.go`) | a copy of the history, turn, attempt, streamed tool calls and costs, two bounded channels (64 and 8) | one goroutine per query: prompt, question, checkpoint, then up to `maxTurns` turns, each of one or two model attempts, a stream, tools, results; one verdict or one error | `QueryRun`, `RunContract` |
| Streaming input: `RunMessageIterator` (same file) | an inbox of 16, the returned pair of channels | *ingest* pulls the caller's iterator; the *forwarder* runs one query per input and copies its channels | `StreamInput` |
| Client (`client_impl.go`) | `connected`, `closed`, active session, current run with its cancel function | `Start`, `Query`, `ReceiveMessages`, `ReceiveResponse`, `Interrupt`, `RewindFiles`, `Close` | `Conversation` |
| Control plane (`internal/controlplane`) | one flag for the MCP refresh; acts on the client | `Interrupt`, `RewindFiles`, `SetPermissionMode`, `GetMCPStatus`, `SetModel` | `Conversation`, `ToolPermissions`, `ToolServers` (all but `SetModel`) |
| Session manager and reading API (`internal/session`, `sessions.go`) | sessions (messages, turn count, checkpoints, file checkpoints), fork counters, store file | `GetOrCreate`, `Clone`, `NewForkID`, `SetState`, `Snapshot`, `SnapshotFiles`, `Rewind`, `RewindFiles`, load and save, `GetSessionMessages` | `Conversation` with `Workspace` (file checkpoints), `SessionStore`; `Transcript` (what a stored turn reads as) |
| HTTP transport (`internal/lmstudio/http_client.go`, `internal/util/sse.go`) | one response body, two channels (32 and 1) | build the request, `CreateStream`, `ParseSSE`, retries with backoff | `Requests`, `ModelStream`; the server side of `QueryRun` |
| Event mapper and stream assembly (`internal/runtime/event_mapper.go`, `runStream`) | the text, thoughts, images and call fragments of a turn | decode a chunk, split thoughts, merge fragments, find inline calls and the JSON value of an `OutputFormat` | `ModelStream` |
| Permissions (`internal/permission`, `internal/tools/executor.go`) | mode and rules in memory, three policy files | decide per call, update rules by hooks, callbacks and the control plane | `ToolPermissions`; a choice in `QueryRun` |
| Hooks (`internal/hook`, `internal/runtime/hook_*.go`) | registered hooks | dispatch, merge outputs | `ToolPermissions` (permission requests); choices in `QueryRun` |
| Tool registry, external MCP (`internal/tools`) | tools by public name, states of servers | list, filter, resolve a name, call, retry | `ToolServers`; retries in `ToolPermissions` |
| MCP servers and configuration (`mcp.go`, `internal/mcp`, `mcp_config_loader.go`) | server maps, in-process tools | register, merge, load | `ToolServers` |
| Native endpoints, model lifecycle and listing (`native.go`, `internal/lmstudio`) | none in the SDK; the server keeps instances, downloads and chats | load, unload, download, status, stateful chat, completion, list | `NativeEndpoints` |
| Messages (`internal/message`, `input.go`) | none | construct, encode, decode, read a session's messages | `Transcript` |
| Options (`options.go`), user input tool (`user_input_tool.go`) | the options of a client | applied in order when it starts | `ToolServers` (those that decide about tools), `Requests` (those that reach a request) |
| Observability, examples | metrics and spans | see `PROJECT.json` | not modelled |

### How they interact

A `Client` starts a run per query, remembers its channels and its cancel function
under a lock, and cancels the previous run when it installs a new one. The run copies
the session's history when it starts and writes it back, whole, when it has delivered
its answer; in between it may save its question and take a checkpoint. The run reads
two channels of the transport, whose goroutine reads HTTP. The consumer reads the run's
two channels; it may stop reading at any time and need not drain them.
`RunMessageIterator` puts a second stage between run and consumer. All session
operations take the manager's lock one by one and rewrite the store file before they
release it; several processes may share the file, without a lock.

A run asks the executor of its client whether a call may run. The executor has its
policy in memory and in files that other clients and processes rewrite too; hooks and
the `CanUseTool` callback answer and may change the policy on the way. It finds the tool
in a registry that was built once, when the client started, and calls whatever server
the client's server map holds by then. That map may be one the caller passed to several
clients.

The calls of the native endpoints stand beside all this: they share the options with a
query, keep nothing, and hand the server's identifiers (an instance, a job, a response) to
the application, which brings them back in a later call.

### What is hard

* **Channels that close in either order.** `runStream` waits on events, errors and its
  context; the forwarder on two channels and its context. Leaving at the first close
  loses what the other channel holds.
* **Cancellation** by `Interrupt`, `Close` or a newer query at any step, while a send may
  be blocked because nobody reads.
* **Fallback**: a second model may be tried only if nothing of the first was shown.
* **The history protocol**: every tool call must be answered, in order, directly after
  its turn, through denials, failures, interruptions, turn limits.
* **Copy, then write back**: a superseded run may still store its answer; a new run may
  start from a history that its predecessor has not yet extended.
* **Gaps between locks** in `Query`, `Interrupt`, `RewindFiles` and in the checkpoint.
* **Crashes and restarts** around files that are truncated and rewritten in place: the
  session store and the policy files.
* **Servers that differ**: deltas, snapshots of the whole text or Responses events,
  thoughts in tags or beside the text, fragments of several calls mixed, calls and JSON
  values written into prose; the code tells them apart by looking at what came.
* **One policy in two places**, changed by racing calls.
* **Two ways to one request**: a query and a native completion are each built option by
  option, through three tables, and should ask for the same.
* **Answers that lie**: errors with status 200, empty bodies, a server that is late or
  never answers, over calls that change something and are not repeated.
* **The same message in four shapes**: constructor, wire format, stored history, blocks read
  back.
* **Options in any order**, server maps held by reference, names that are equal only
  loosely, states of servers that are refreshed behind the caller's back.

The full list, each entry at its line with the properties that watch it, is
`hazards` in `PROJECT.json`.

### What makes each component correct

* Run: one verdict or one error; an answered history; what was shown is what is
  stored; no turn mixes two models; the budget is obeyed; a broken stream is no success;
  cancellation and a reading consumer both make it end.
* Streaming input: runs do not overlap, nothing is lost, the iterator is released,
  cancellation closes the channels.
* Client: sessions only grow unless rewound, at most one run is uncancelled, a closed
  client leaves nothing running.
* Session manager: a checkpoint is the conversation up to its question, is never
  replaced and can be rewound to with its files; a fork never lands on an existing session; what was saved survives.
* Stream assembly: the turn has the words, calls, images and the JSON value the server
  sent, and the session's reader gets back what was sent and answered.
* Native endpoints: a call without an error was carried out, once; a chat goes on from
  what the application said; both ways to a request agree; every call returns.
* Permissions: a tool runs exactly if nothing forbids it; memory and files agree.
* Tool servers: what the options configured is shown and nothing else; a call reaches the
  tool and the implementation that was meant; a server is "connecting" only while
  somebody refreshes it.

## 2. The modules

**`RunContract`** is the abstract specification of a run for whoever holds its two
channels: messages and warnings, at most one checkpoint of the question, then one
verdict or one final error, the answer stored only after success was delivered, then
the end. `QueryRun` is shown to implement it; `StreamInput` composes with it, and
`Conversation` is built on the same promise.

**`QueryRun`** is one call of `RunMessages` with its goroutine, transport, consumer and
canceller. `pc` follows the goroutine: `start`, `system`, `user`, `userHook`,
`checkpoint` before the first request; `open`, `poll`, `wait`, `partial`, `report` in
`runStream`; `turnEnd`, `assistant`, `tools`, `permission`, `execute`, `answer` in a turn;
`result`, `commit`, `fail`, `close`, `done` at the end. A channel is everything ever put
on it with a count of what was taken, so that properties can speak about the past. A
message is its kind, turn, attempt and tool call; an event of the server is one of six
kinds (text, no content, tool call with an index, cost, calls written as text in
`<tool_call>` tags, malformed). `poll` and `wait` are the two selects of `runStream`
(lines 1608-1628): the non-blocking look at events and the wait on everything.
Choices stand for hooks, permission decisions, tool outcomes and errors of the session
manager. Simplifications:

* `TakeCheckpoint` is `SetState`, `Snapshot` and `SnapshotFiles` in one step; they are
  separate in `Conversation` and `SessionStore`, where others can come in between.
* one partial message per visible event; texts, usage, request options, permission rule
  updates and observability are left out;
* the deferred closes of the two channels are one step; both are closed by
  the goroutine itself and nothing of the run happens between them;
* a stream the run walked away from is dropped: its transport goroutine stays blocked
  until the context is done, which the run no longer observes;
* the transport's error channel holds one error, as in `CreateStream`.

**`Conversation`** is a client, its control plane, its runs and their sessions. Each
lock-protected section is one action and each gap a location in `at`: `Query` is
`QueryCheck`, `QueryLaunch`, `QuerySetCurrent`; `Interrupt` reads the cancel function and
calls it later; `RewindFiles` rewinds messages and then files. A run moves through
`stage`. `RunNumber` and `RunCount` are the two halves of the unlocked use of
`s.UserTurns`; `RunTally`, `RunSave`, `RunSnapshot`, `RunSnapshotFiles` take the
checkpoint; `RunAnswer` delivers the result and `RunCommit` stores it. `RunFail` stands for
every run without an answer, also those that end with a budget or an interrupted verdict.
Questions and answers are named by their run. `Drains` says whether a talker reads a
response to its end before it goes on, as `ReceiveResponse` does.
The workspace is a tree that tools edit; **`Workspace`** has the operators that
capture and restore it. `RewindWorkspace` is a restore without an error and one step, since a
tool of a run that is still going may come before or after it; `RewindFails` stops anywhere in
between. Names of sessions are limited to the base and one fork.

**`StreamInput`** is `RunMessageIterator`: ingest, inbox, forwarder, the run it is
forwarding (an instance of `RunContract`), the consumer and cancellation. Channels are
counters. Which session an input names is data and left out. `NothingLost` also says that
the caller's iterator is let go when the channels close.

**`SessionStore`** is the session manager across processes: starting with or without a
store path, `resolveInitialSession` (resume and fork), the accesses of a run, rewinds,
and the file: every save truncates (`OpenStore`) and then writes (`WriteStore`), either
half may fail, other processes may come in between, and a process may die anywhere. A
history is named by its last question. A process runs one query at a time (racing runs
are `Conversation`'s subject), only the base session is forked, and callers
resume forks that exist (`Resolve`): resuming a name that does not exist creates it, and
`NewForkID` could later return the same name.

**`ModelStream`** is one answer on its way from the server to the turn: the request with
its three attempts (`Accepted`, `Refused`, `BackedOff`, `Rejected`, `JSONBody`), the lines
of the event stream (`Data...`, `BlankLine`, `BodyEnds`), what a decoded chunk adds
(`Absorb`, from `ContentChunk`, `normalizeAssistantContent`, `AddFragments`, `NewImages`)
and the end (`Finish`, `BreakOff`). The stages run one after the other; their
interleaving is `QueryRun`'s subject. A text is a sequence of tokens, as the header
explains; `Pick` takes some of its members in order. `server` is one of three kinds: `delta` sends new text, `cumulative` repeats
the text so far in each chunk, `responses` sends the events of the Responses API and the
whole text at the end. `sent`, `made` and `urls` are the server's side of the story, which
the properties compare with the result. `misled` remembers that a content came that the
code takes for something else (a delta that begins with the whole text so far, think tags
that do not close in their delta, think tags in snapshots or Responses events);
`TextExact` and `StructuredFound` make no claim then. `parseStructuredOutput` and what it
calls are operators; `Carries` is their reference: a JSON value alone, in a fence, or from
the first bracket of some prose on. JSON is brackets around literals.

**`Transcript`** goes on where `ModelStream` ends: the user's message from the constructors
of `input.go` to the request, and what `GetSessionMessages` makes of it and of the stored
answer. A piece of JSON is a record with the fields of the code; an image's URL
is nested in the wire format and flat in a block, which `imageURL` reads either way.

**`Requests`** holds operators only: what options (`With`, `ApplyDefaults`) make of the
request of a query's turn (`ChatRequest`, `buildRequestBody`) and of a native completion
(`NativeRequest`, `buildNativeBody`). A body is a function from parameters to values; an
unset option is not in its domain, so that "left out" and "zero" differ as they do in Go.

**`NativeEndpoints`** is the calls of `native.go` and of `ListModels` by several goroutines,
and the server they call. `Call` sends once; `Execute` and `Refuse` are the server, which
may do what it was asked and then answer nothing or nonsense, refuse with a status or with
an error document and status 200, or never answer. `Return`, `Fail` and `TimeOut` end a call,
and only a list of models falls back to its second endpoint. The timeouts are those of the
options, after `longTimeout` and `nativeHTTPClient`; the order of firing is left open.
Identifiers are the numbers of the calls that made them, 0 the empty one. The server is
assumed to carry out a request at most once and to mean "done" by an empty answer with
status 200. What callers do is one of `Uses`: the options and the kinds of calls that
belong together.

**`ToolPermissions`** is the way of a call through `ExecuteWithSuggestions`: the outputs of
the permission hooks, the update they ask for, the policy, the `CanUseTool` callback and
its update, then the call with the retries of an external server (`Attempt`). A
call is an interleaving of these steps (`call[c].pc`); an update locks the executor
(`holder`), changes its memory, truncates the policy file and writes it, and a `Restart`
may come in between. `mem` is the executor's memory, `file` the three
policy files, `base`, `said` and `granted` are histories the properties read.
Simplifications: a hook or callback returns one update at a time; directories and the
contents of rules are left out because nothing reads them; `SetPermissionMode` is one step.
An update may be a `setMode` without a mode, which leaves the executor without one.

**`ToolServers`** is what a client's options make of its tools. `heap` holds the server maps:
those callers share by reference and each client's own. `Start` applies a list of options
(`applyAgentOptions`, a fold of `Option`), merges an MCP configuration, registers the
user-input tool and builds the registry; `StartFails` leaves what the options already
wrote into a caller's map. `Call` looks a name up in the registry, or loosely
(`ResolveName`) if the model wrote it into prose, and reaches the server the map holds
now. `GetMCPStatus` and the refresh in the background take one step per use of a lock.
Simplifications: `Start` is atomic, for starting a client while another one reads the same
Go map is a data race the caller must avoid; an external server answers the listing or
does not; arguments, schemas and results are left out; clients are not closed. The
refresh finds something to do only if a client started with a map that another
one filled later. `Contents` and `Configs` are the maps a caller may pass and the files it may
name; nothing in them is implemented by a client of the SDK.

**`MC...`** modules hold the values TLC needs. **`QueryRunProofs`**,
**`StreamInputProofs`**, **`ConversationProofs`**, **`SessionStoreProofs`**,
**`ModelStreamProofs`**, **`ToolPermissionsProofs`**, **`ToolServersProofs`** and
**`NativeEndpointsProofs`** hold theorems (section 5).

Every mapped definition names its lines in `PROJECT.json` (`map`). Definitions marked
`mutant` in a comment are plausible bugs of the definition below them; each property is
known to fail when one of them takes its place.

## 3. The runs

| Run | What it asks | Bounds |
|---|---|---|
| `MCQueryRunTools` | `TypeOK`, `HistoryAnswered`, `ShownIsStored`, `ImplementsContract` | 2 turns, 2 events a stream, calls with indices -1, 0, 1 and two inline calls, checkpointing, system prompt, a fresh session or one with an answered call, channels of 2 |
| `MCQueryRunFallback` | `NoMixedAttempts`, `BudgetRespected`, `BrokenStreamNeverSucceeds`, `CancelStops`, `DrainedRunEnds` | 2 models, 2 turns, 2 events a stream, budget 1 with charges of 1, partial messages, channels of 1 and 5 |
| `MCConversationDraining` | `TypeOK`, `CheckpointIsQuestion`, `AnswersKept`, `CheckpointsKept` | 3 queries of one talker, 2 sessions, a file and a directory of the same name with 2 contents, another goroutine that closes |
| `MCConversationConcurrent` | `SupersededIsCancelled`, `HeldRunsEnd` | 2 queries of two talkers, one of them also interrupts and closes |
| `MCStreamInputAll` | `TypeOK`, `NothingLost`, `RunsAreSerial`, `StreamEnds` | 3 inputs, inbox of 1, 2 messages and 1 warning a run, channels of 2 |
| `MCSessionStoreShared` | `TypeOK`, `ForkIsNew`, `CheckpointIsNew` | 2 processes, 2 questions, 1 fork |
| `MCModelStream` | `TypeOK`, `TextExact`, `CallsFound`, `StructuredFound`, `ReadBack` | 4 data lines out of 6 texts, 3 thoughts, 2 calls with 2 pieces of arguments, 2 images; all three kinds of servers; 5 user messages |
| `MCToolPermissions` | `TypeOK`, `PolicyDecides`, `MemoryMatchesFiles` | 2 calls of one client, 2 registered tools and an unknown one, outputs of 2 hooks, 2 updates out of 7 (one of them a `setMode` without a mode), 2 modes |
| `MCToolServers` | `TypeOK`, `ConnectingIsRefreshing`, `ShownAsConfigured`, `OwnTools`, `RunsWhatWasMeant` | every list of up to 3 different options of 7, a second client with 3 lists, one shared map with 3 possible contents, 3 servers and 3 tools with a collision and loosely equal names, 2 calls of `GetMCPStatus` |
| `MCNativeEndpoints` | `TypeOK`, `SuccessIsTrue`, `ConversationContinues`, `RequestsAgree`, `CallsReturn` | 2 callers, 3 calls that load and unload, download and ask, or chat; 1 listing per base URL and timeout; 1 completion per option and value |
| `MCConversationCloseRace` | violates `ClosedRunsEnd` | 1 query, another goroutine closes |
| `MCSessionStoreCrash` | violates `SavedSurvives` | 1 process, 1 question, 1 fork |

**Why the bounds are enough.** Two turns give an earlier turn whose results, calls or
cost could leak into a later one, and a last turn. Two events fill a stream with one
that was seen and one that is waiting, and order two tool calls. Channels of two get full
and empty, so every send blocks somewhere; the code's capacities differ only in when. The
error channel of 5 has room for every error of the run in that
instance: one warning per event and attempt and the final one. Three queries are one
whose answer was stored, one that is rewound or fails and one that follows (an interrupt
changes nothing that this instance looks at); two
queries suffice for two talkers, since a third would only repeat the race. Three inputs are
one running, one in the inbox and one offered. Two processes and two questions
are one save that overtakes another; one fork and its restart show a
counter that is lost. Four data lines are a text in two pieces between or before two
pieces of something else, and two interleaved calls with two pieces each. Two calls and
two updates are one that is undone or overtaken by the other, with a restart before,
between or after. Three options are one that writes, one that replaces and one that hides.
Three calls of the native endpoints are one that made something, one that uses it, and one
of somebody else or a late one in between. The parameters of a request do not
influence each other beyond the pairs that `Uses` lists.
`MaxRuns`, `MaxSay`, `MaxWarn`, `MaxEvents`, `MaxForks`, `MaxAsked`, `MaxLines`, `MaxCalls`,
`MaxHooks` and `MaxUpdates` are bounds of the models and not of the program; the rest are
the program's own limits, made smaller. `RunLeft` guards queries with `MaxRuns`.

**Deadlock.** It is checked except in the runs of four modules. `StreamInput` simply stops
when its channels are closed or, without fairness for the iterator, waits for it: its
liveness properties ask the question instead. An answer of `ModelStream` is finished at
some point, and so are the calls that clients of `ToolServers` and `NativeEndpoints` may make. In
`QueryRun` and `Conversation` the steps `Finished` and `Quiet`
mark the states in which the system may rest, so every other stop is reported.

## 4. Fairness

* `QueryRun!FairSpec`: `WF(Run)` and `WF(Consume)`. The goroutine is scheduled; hooks,
  tools and the session manager return; the consumer reads while it is there. Nothing
  is assumed of the server, of the canceller or of a consumer that may leave.
  `DrainedRunEnds` adds, as its own premise, that the server ends each stream it began
  (`WF(ServeEnd)`), for `Leave` and `Cancel` are not forced.
* `Conversation!FairSpec`: a method once entered returns (`GoOn`), and a run goes on by
  itself (`Moving`) except that between question and answer it may wait for ever for its
  server or reader unless its context is done, which is what `CancelStops` of
  `QueryRun` provides. Nobody is forced to call a method.
* `StreamInput!FairSpec`: the SDK's two goroutines, the run and the consumer.
  `YieldingSpec` adds that the caller's iterator yields or ends; the code cannot
  guarantee that, and the cancellation part of `StreamEnds` needs it (see section 6).
* `NativeEndpoints!Spec`: a call takes the answer that is there, and its timer fires if it
  has one. The server is under no obligation, and connections need not fail.
* `RunContract`, `SessionStore`, `ModelStream`, `ToolPermissions` and `ToolServers` state
  safety only.

## 5. What is proved

For every value of the constants that satisfies the named assumptions of the modules:

| Theorem | States |
|---|---|
| `QueryRunProofs!TypeCorrect` | `Spec => []TypeOK` |
| `QueryRunProofs!BudgetKept` | `Spec => []BudgetRespected` |
| `QueryRunProofs!HistoryCorrect` | `Spec => []HistoryAnswered` |
| `QueryRunProofs!ShownIsKept` | `Spec => []ShownIsStored` |
| `QueryRunProofs!FallbackCorrect` | `Spec => []NoMixedAttempts` |
| `QueryRunProofs!BrokenStreamsFail` | `Spec => []BrokenStreamNeverSucceeds` |
| `QueryRunProofs!RunKeepsContract` | `Spec => ImplementsContract` |
| `StreamInputProofs!StreamTypesAreKept` | `Spec => []TypeOK` |
| `StreamInputProofs!ClosedMeansAnswered` | `Spec => []NothingLost` |
| `StreamInputProofs!OneRunAtATime` | `Spec => RunsAreSerial` |
| `ConversationProofs!ClientInvariant` | `Spec => []ClientInv` |
| `ConversationProofs!TypesAreKept` | `Spec => []TypeOK` |
| `ConversationProofs!ReplacedRunsAreCancelled` | `Spec => []SupersededIsCancelled` |
| `ConversationProofs!CheckpointsAreQuestions` | `OneReader`: `Spec => []CheckpointIsQuestion` |
| `ConversationProofs!AnswersAreKept` | `OneReader`: `Spec => AnswersKept` |
| `ConversationProofs!CheckpointsAreKept` | `OneReader`: `Spec => CheckpointsKept` |
| `SessionStoreProofs!TypeCorrect` | `Spec => []TypeOK` |
| `SessionStoreProofs!ForksAreNew` | `Spec => []ForkIsNew` |
| `SessionStoreProofs!CheckpointsAreNew` | `Spec => []CheckpointIsNew` |
| `ModelStreamProofs!StreamIsTyped` | `Spec => []TypeOK` |
| `ModelStreamProofs!WordsAreExact` | `Spec => []TextExact` |
| `ModelStreamProofs!CallsAreFound` | `Spec => []CallsFound` |
| `ModelStreamProofs!SessionsReadBack` | `Spec => []ReadBack` |
| `ToolPermissionsProofs!TypesAreKept` | `Spec => []TypeOK` |
| `ToolPermissionsProofs!DenialsHold` | `Spec => []PolicyDecides` |
| `ToolPermissionsProofs!FilesFollowMemory` | `Spec => []MemoryMatchesFiles` |
| `ToolServersProofs!ServersAreTyped` | `Spec => []TypeOK` |
| `ToolServersProofs!ConnectingMeansListing` | `Spec => []ConnectingIsRefreshing` |
| `ToolServersProofs!OptionsAreShown` | `Spec => []ShownAsConfigured` |
| `ToolServersProofs!ToolsAreOwn` | `Spec => []OwnTools` |
| `ToolServersProofs!CallsAreMeant` | `Spec => []RunsWhatWasMeant` |
| `NativeEndpointsProofs!CallsAreTyped` | `Spec => []TypeOK` |
| `NativeEndpointsProofs!SuccessMeansDone` | `Spec => []SuccessIsTrue` |
| `NativeEndpointsProofs!ConversationsContinue` | `Spec => []ConversationContinues` |

**The assumptions** say what the constants are, and TLC evaluates each of them on a run:

* `QueryRunAssumption`, `StreamInputAssumption`, `SessionStoreAssumption`: capacities are
  positive, limits are natural numbers, sets are finite, and a session a run starts with is
  answered.
* `ConversationAssumption`: the fork is one of the sessions and not the only one, callers and
  sessions are finitely many. `WorkspaceAssumption`: there is some content, the marks for
  a directory and a torn file are no contents, and a path is a sequence of names, not empty.
* `ModelStreamAssumption`: texts and thoughts are sequences of tokens; there are finitely many of
  them, and of images; a piece of arguments is a sequence of strings; limits are natural
  numbers. Nothing is assumed about what a text is made of.
* `ToolPermissionsAssumption`: each call belongs to an executor, there is a tool, registered
  tools are tools, updates are typed, and the marks "no mode", "nobody" and "torn" are no mode and
  no call.
* `ToolServersAssumption`: the names of clients, maps and the special values differ; what callers
  write into maps and configuration files is well formed, and not implemented by a client; the
  options of a client are a sequence of options.
* `NativeAssumption`: `Uses` speaks about kinds and numbers of calls there are, and the empty
  name is no model. `EnvAssumption`: at most the two variables the code reads are set.
* `OneReader` is a hypothesis of three theorems and not of the module: there is one talker, and it
  reads every response to its end. It is the setting of `MCConversationDraining`. Without it the
  three properties are false of the code: a caller that queries again before the last run stored
  its answer loses it (section 6).

**The run.** None of the properties is inductive by itself. `TypeInv` adds to `TypeOK` the
*accounts*: at each stage, what the server billed equals what the run has recorded
(`spent`, plus the attempt's cost while it streams), and an attempt that emitted nothing
has cost nothing; this is why a fallback cannot hide charges, and it gives
`BudgetRespected` at once. It also says that a call is at hand while it is
asked, run and answered, and that the input is numbered once. `HistoryInv` adds
to `HistoryAnswered` that the results collected so far answer the first calls of the turn,
so that appending the turn and its results (`TurnEntries`) keeps the history
answered (lemma `TurnAnswered`). `FallbackInv` adds that what was delivered for the current turn
carries the current attempt and that the stream has then emitted, which is the
guard of `MayFallBack`. `StreamInv` says that a broken connection left an error behind, in the
channel or already read, and that a turn does not end before it was read. `KeptInv` says that
what was shown is what `Kept` finds in the history, followed by what the current turn has
collected and not yet appended.

**The refinement.** `StageInv` says at each stage what the run has said (`Speaking`: no
verdict before `commit`, no error before `close`) and stored (`Storing`: the history
outgrows what the session held before, and ends with the question or the
answer when it is stored). With it each step of `QueryRun` is a step of
`RunContract` or a stutter (`ContractStep`), under the mapping `Contract` in
`QueryRun`: the phase from `pc`, delivered messages, warnings, verdict and
error from the two logs, what is stored from the committed history.

**Streaming input.** `StreamInv` is an account: the inputs pulled are those in the inbox, the one
ingest holds, and the runs started; the messages of all runs are those forwarded, those in
the run's channels and the one the forwarder holds. `Returned` says at which stages somebody is
inside the iterator. When the channels close without an error, the account has nothing left.

**The client.** `ClientInv` gives each method what it read under its last lock, and each run a
place: it is current, about to be (its `Query` has launched and not set it), cancelled or
over; that is `SupersededIsCancelled`. It also keeps each file checkpoint and the workspace a tree
(no file below a file), which capture and restore rely on. `SerialInv` adds, for one reader, that
only the last run moves: until its first save the history it copied is the session's
(`Fresh`, `HasRead`), its number is new (`HasNumber`), checkpoints lie before it
(`CheckpointsBehind`), and between the halves of a rewind the messages already are the checkpoint's
(`HalfRewound`).

**The store.** `StoreInv` is about any store, in memory or in the file: what is numbered
beyond a counter does not exist (`Counted`). Empty and torn files are stores too, so
crashes, lost writes and reloads keep it; `Placed` says what a process that stands
between numbering and using a number may rely on.

**The answer.** Both invariants look through the line that is read and not yet absorbed: with
it absorbed (`FullText`, `FullCalls`), the text has the words the server meant and the calls are
those it made, as long as nothing was lost (`TextInv`, `CallsInv`). For the text this rests on
three facts about sequences of any length: what is appended to a text whose thoughts are
closed adds its own words (`WordsConcat`), what `ContentChunk` leaves of a content has the
content's words and no tags (`SplitParts`), and a snapshot adds what the text lacks of it
(`NormalizeSnapshot`). For the calls it rests on what one fragment does to the pending calls
(`NewCallAdded`, `ArgumentsAdded`), and on the order in which the pending calls and those
written into the thoughts are read (`CallsOrdered`, `InlineOrdered`).

**What is read back.** `ReadBack` is proved in two halves. About the turn, `KeptInv` says that
what was shown is the text without the blanks before its first word (`Withheld`), that no image
is kept twice, that the images kept and those waiting to be flushed are the ones the server
sent as long as nothing was lost, and that pending calls are finitely many. About the
conversions, what the consumer got and what is read from the file are each cut into the same
five pieces (`Pieces`: thoughts, text, images, calls, results), and both have for each
kind exactly its piece (`DeliveredKinds`, `ReadKinds`), although the live message has calls and results
in pairs and the stored one all calls in the answer and each result in a message of its own.

**Permissions.** `PermInv` says what a call at each stage has been told (`Judged`: the histories
`said` and `granted` agree with the answers so far), that the lock has one holder and an update at
hand (`LockInv`), that memory is the option's policy changed by what was said (`Remembered`), and
that the file of a single writer agrees with its memory, or will when the update that holds the
lock has rewritten it (`Persisted`).

**Tools.** `ServerInv` follows the heap: what a client's map holds comes from its caller or from
its own options (`CallersMaps`, `OwnedBy`). Most of the work is `Prefix`, an invariant over the
first *k* options of a list: what they have put into the map, which tools are
allowed and disallowed, which `sdk` tools came last. It is proved by induction over *k*, so
`ShownAsConfigured` and `OwnTools` hold for option lists of any length. `StatusInv` says which
call of `GetMCPStatus` holds the refresh flag while a server is connecting.

**Native calls.** `NativeInv` relates a call to what the server did for it (`Honest`), once
(`OneAtATime`), what it keeps to who asked for it (`Kept`), and the response an application
goes on from to its answered chats (`Continues`).

**Induction.** The prover has no induction rule it can instantiate with a property. Where a proof
needs one over the natural numbers (options of a list, entries of a history) it takes the set of
counterexamples and its least element (`WFMin`), with a recursive function local to the proof. Sequences are taken the same way, by
their length (`SeqInduction`). `Pick` and `AddFragments` are therefore written with such a
function, as `FlattenSeq` of the community modules is (`FlattenIsFlat`), and `OfKind` with
`Pick`; definitions by the community modules' folds stay out of reach.

**Only model-checked:** all liveness (fairness and `ENABLED` are out of the prover's reach);
`StructuredFound`, whose decoder is folded over tokens, and which is false of some texts (a blank
between a fence and its language, for one), so that it belongs to the instance's texts; and
`RequestsAgree`, a table of what the two ways do with each parameter, which is evaluated.

## 6. Where the code and its words differ

Checked, each by a run whose property quotes the text (`findings`):

* `MCConversationCloseRace`: `Close` between `Query`'s check and `setCurrent` leaves a
  running run behind.
* `MCSessionStoreCrash`: a crash inside a save leaves an empty file, which the next start
  accepts as an empty store.

Observed, without a run of their own:

* After finding no event, `runStream` waits on events and errors together (line 1628),
  although line 1608 prefers events that are already there. `NoMixedAttempts` holds
  all the same, since the decision to fall back looks at what was emitted.
* `ParseSSE` ends silently when the context is done (`sse.go:51`), so a cut-off answer may
  be delivered as success when the last send wins over the context. This is
  why `BrokenStreamNeverSucceeds` allows an aborted stream.
* `client.go:63` tells callers to abort a stream by cancelling the context; an iterator that
  waits for input does not notice, and the channels stay open (`query_runner.go:209`).
* The answer is stored after the `ResultMessage` is delivered (`query_runner.go:887`, 893); a
  caller that stops there and queries again, as `examples/extended_thinking/main.go:210`
  does, may have the first answer overwritten. `AnswersKept` is about callers that drain.
* `RewindFiles` rewinds the messages before it finds that there is no checkpoint of the files
  or fails to restore them (`client_impl.go:480`): after an error the two differ, and
  files may be half restored, until the caller repeats it. Empty directories stay, and a
  directory where a file was makes every repetition fail.
* The last `errs <- err` of a run (`query_runner.go:489`) has no context branch; with 8
  warnings unread and the consumer gone, a cancelled run never ends. The instance of
  `CancelStops` has room for every error.
* After an error, a stream with more further inputs than the inbox has places never closes:
  the forwarder is gone and ingest waits. `StreamEnds` is about those that fit.
* A delta that begins with all of the text before it is taken for a snapshot and loses its
  beginning (`query_runner.go:1520`), although line 1529 wants every delta emitted verbatim.
  `misled` excludes it from `TextExact`.
* Thoughts whose tags span several deltas leak into the text (`event_mapper.go:64`), and
  Responses events with the whole arguments double them (`event_mapper.go:249`).
* `findBalancedJSON` looks only at the first opening bracket: prose with a bracket before
  the value hides it (`query_runner.go:1312`). `Carries` excludes it.
* A torn policy file makes `NewExecutor` ignore all policy files; two executors lose
  each other's updates of a file; a `setMode` without a mode clears the executor's mode and
  the file's, and a restart brings the option's mode back. `MemoryMatchesFiles`
  claims nothing for torn files or several writers, and allows for the missing mode.
* `WithMCPConfig`, and a later `WithMCPServers`, drop the server of `WithSDKTools` while
  `AllowedTools` keeps its tools' names and so hides all others (`options.go:267`,
  `client_impl.go:404`). `WithAllowedTools` is documented as pre-approval (`options.go:156`)
  and filters what the model sees. `ShownAsConfigured` excludes these lists.
* Clients that share a server map replace each other's `sdk` tools and user-input callback;
  `OwnTools` excludes that server.
* `WithCanUseTool` together with `WithOnUserInput` never starts, since the first sets
  `PermissionPromptToolName` (`client_impl.go:388`).
* Two tools with one public name: the order of a Go map decides which one is registered.
* A refresh can show a server ready whose tools the registry never gets; a server that was
  down at `Start` stays `error`; a late `SetInitial` can put `configured` back over `ready`.
* Thoughts, turns with a failed or denied tool and the name of the model are not in what a
  session's reader gets back; content blocks of an empty or unknown type come back as text
  (`message/content.go`), and `Blocks()` without a block as an empty text.
* An error document with status 200 in answer to `GET /api/v0/models` passes for an empty
  list, without the fallback to the base URL. A `RequestTimeout` that is not positive means no
  timeout there, and the default everywhere else.
* A base URL that ends in `/api/v1` becomes `/api/api/v0` and `/api/api/v1`
  (`native.go:209`, `lifecycle.go:224`): the case of `/v1` comes first.
* `LoadModel`, `DownloadModel` and `StatefulChat` succeed with an empty identifier on an empty
  answer with status 200; `UnloadModel` does not look at what was acknowledged;
  `DownloadStatusFor` takes an error document for a status. A load that timed
  out may still have happened, and nobody knows its instance. `SuccessIsTrue` and
  `ConversationContinues` allow for these.
* A native completion leaves out the user, the preset system prompt, reasoning, log
  probabilities and tools. `RequestsAgree` compares the rest.
* A `ForcedTool` that is not registered leaves all tools in the request and requires one of
  them; it holds for the first turn of every query, where its option says "next turn". A schema
  given as `type: json_schema` without its wrapper is sent as it is.

## 7. Not modelled, and the plan

Not modelled: wording and layout, options that only set a value nobody here reads, metrics
and spans, the fields of a listed model, log probabilities, the schema helper, error types,
examples and development scripts. They keep no state that interacts with the above.

Planned, in this order:

1. A proof of the part of `RequestsAgree` about parameters that both ways treat alike.
2. Usage and cost, the results of tools and their conversion.
3. The rest of the control plane (`SetModel`), which writes an option that runs read.
4. A composition of `ToolPermissions` with `QueryRun`'s permission choice, and of
   `ModelStream` with its events.
