---------------------------- MODULE Conversation ----------------------------
(***************************************************************************)
(* A Client (client_impl.go) with its control plane, the runs it launches  *)
(* and the sessions those runs read and write (internal/session).  Client  *)
(* methods are called by several goroutines; every lock-protected section  *)
(* is one step and every unlocked gap between two of them is a place where *)
(* other steps may happen.                                                 *)
(*                                                                         *)
(* A run is seen as RunContract promises it (module QueryRun shows that it *)
(* does): it copies the session's history, may checkpoint its question,    *)
(* delivers an answer and then stores it, or fails on the way.  A question *)
(* and an answer are identified by the run they belong to.                 *)
(***************************************************************************)
EXTENDS Workspace

CONSTANTS
  Sessions,      \* session identifiers
  ForkSession,   \* the one NewForkID returns
  Talkers,       \* goroutines that call Query and RewindFiles
  Interrupters,  \* goroutines that call Interrupt
  Closers,       \* goroutines that call Close
  Drains,        \* does a talker read each response to its end before going on?
  MaxRuns,       \* bound: queries of one client
  Checkpointing  \* EnableFileCheckpointing, with a working directory

ASSUME ConversationAssumption ==
  /\ ForkSession \in Sessions /\ Sessions # {ForkSession}
  /\ IsFiniteSet(Sessions) /\ IsFiniteSet(Talkers \cup Interrupters \cup Closers)
  /\ Drains \in BOOLEAN /\ Checkpointing \in BOOLEAN
  /\ MaxRuns \in Nat

Callers == Talkers \cup Interrupters \cup Closers
Runs == 1..MaxRuns
NoRun == 0
Uids == 1..MaxRuns+1  \* one question may be older than this client
NoFiles == {}  \* a file checkpoint is a set of one snapshot

VARIABLES
  connected, closed, \* clientImpl.connected, clientImpl.closed
  active,            \* activeSession
  current,           \* the run behind currentMsgs, currentErrs, currentCancel
  at,                \* where each caller is inside a method call
  aim,               \* the run a caller launched or is about to cancel
  goal,              \* the session and user message a caller rewinds to
  stage,             \* how far each run has come
  sess, base,        \* a run's session and the history it started from
  uid,               \* the number in a run's user message ID
  tally,             \* the UserTurns a run read to pass to SetState
  cancelled,         \* a run's context is done
  msgs, turns,       \* Session.Messages, Session.UserTurns
  snaps, fileSnaps,  \* Session.Checkpoints, Session.FileCheckpoints, by uid
  files              \* the workspace, a tree

clientVars == <<connected, closed, active, current>>
callVars == <<at, aim, goal>>
runVars == <<stage, sess, base, uid, tally, cancelled>>
storeVars == <<msgs, turns, snaps, fileSnaps>>
vars == <<clientVars, callVars, runVars, storeVars, files>>

Item(who, run) == [who |-> who, run |-> run]
Asked(r) == Append(base[r], Item("user", r))
Answered(r) == Append(Asked(r), Item("assistant", r))

\* A session left behind by an earlier process, or none.
OldSession == <<Item("user", NoRun), Item("assistant", NoRun)>>

Init ==
  /\ connected = FALSE /\ closed = FALSE
  /\ active = CHOOSE s \in Sessions : s # ForkSession
  /\ current = NoRun
  /\ at = [c \in Callers |-> "idle"]
  /\ aim = [c \in Callers |-> NoRun]
  /\ goal = [c \in Callers |-> <<ForkSession, 0>>]
  /\ stage = [r \in Runs |-> "unused"]
  /\ sess = [r \in Runs |-> ForkSession]
  /\ base = [r \in Runs |-> <<>>]
  /\ uid = [r \in Runs |-> 0] /\ tally = [r \in Runs |-> 0]
  /\ cancelled = [r \in Runs |-> FALSE]
  /\ \E old \in {<<>>, OldSession} :
       msgs = [s \in Sessions |-> IF s = ForkSession THEN <<>> ELSE old]
  /\ turns = [s \in Sessions |-> Len(msgs[s]) \div 2]
  /\ snaps = [s \in Sessions |-> [u \in Uids |-> <<>>]]
  /\ fileSnaps = [s \in Sessions |-> [u \in Uids |-> NoFiles]]
  /\ files = [p \in {q \in Paths : Len(q) = 1} |-> CHOOSE c \in Contents : TRUE]

-----------------------------------------------------------------------------
(* Client methods.                                                         *)

IsConnected == connected /\ ~closed

\* Start, resolving the initial session: "default" or Resume as it is, or a
\* clone of it under a fresh fork identifier.
Start(s, fork) ==
  /\ ~closed /\ ~connected
  /\ connected' = TRUE
  /\ active' = IF fork THEN ForkSession ELSE s
  /\ IF fork
     THEN /\ msgs' = [msgs EXCEPT ![ForkSession] = msgs[s]]
          /\ turns' = [turns EXCEPT ![ForkSession] = turns[s]]
          /\ snaps' = [snaps EXCEPT ![ForkSession] = snaps[s]]
          /\ fileSnaps' = [fileSnaps EXCEPT ![ForkSession] = fileSnaps[s]]
     ELSE UNCHANGED storeVars
  /\ UNCHANGED <<closed, current, callVars, runVars, files>>

\* ReceiveResponse goes on after the ResultMessage until both channels close.
ResponseEndsAtResult(r) == stage[r] \in {"answered", "done"}  \* mutant: no draining
ResponseOver(r) == stage[r] = "done"

\* A talker that drains asks again only when its last response is over.
Free(c) == at[c] = "idle" /\ (Drains /\ current # NoRun => ResponseOver(current))

\* Bound: a query begins only while there is a run left for it.
RunLeft ==
  Cardinality({c \in Callers : at[c] = "checked"})
    < Cardinality({r \in Runs : stage[r] = "unused"})

\* Query: the connection check under the lock ...
QueryCheck(c) ==
  /\ Free(c) /\ IsConnected /\ RunLeft
  /\ at' = [at EXCEPT ![c] = "checked"]
  /\ UNCHANGED <<clientVars, aim, goal, runVars, storeVars, files>>

\* ... then the run is started, on the active or on a named session ...
QueryLaunch(c, s) ==
  /\ at[c] = "checked"
  /\ \E r \in Runs :
       /\ stage[r] = "unused" /\ \A q \in 1..r-1 : stage[q] # "unused"
       /\ stage' = [stage EXCEPT ![r] = "launched"]
       /\ sess' = [sess EXCEPT ![r] = s]
       /\ aim' = [aim EXCEPT ![c] = r]
  /\ at' = [at EXCEPT ![c] = "launched"]
  /\ UNCHANGED <<clientVars, goal, base, uid, tally, cancelled, storeVars, files>>

\* ... and setCurrent, under the lock again, replaces and cancels the old run.
SupersedeQuietly(r) == UNCHANGED cancelled  \* mutant: the old run is not cancelled
Supersede(r) == cancelled' = [q \in Runs |-> cancelled[q] \/ q = r]

QuerySetCurrent(c) ==
  /\ at[c] = "launched"
  /\ Supersede(current)
  /\ current' = aim[c] /\ active' = sess[aim[c]]
  /\ at' = [at EXCEPT ![c] = "idle"]
  /\ UNCHANGED <<connected, closed, aim, goal, stage, sess, base, uid, tally, storeVars, files>>

\* Interrupt reads currentCancel under the lock and calls it outside.
InterruptRead(c) ==
  /\ at[c] = "idle" /\ IsConnected /\ current # NoRun
  /\ at' = [at EXCEPT ![c] = "interrupt"]
  /\ aim' = [aim EXCEPT ![c] = current]
  /\ UNCHANGED <<clientVars, goal, runVars, storeVars, files>>

InterruptCancel(c) ==
  /\ at[c] = "interrupt"
  /\ cancelled' = [cancelled EXCEPT ![aim[c]] = TRUE]
  /\ at' = [at EXCEPT ![c] = "idle"]
  /\ UNCHANGED <<clientVars, aim, goal, stage, sess, base, uid, tally, storeVars, files>>

CloseClient(c) ==
  /\ at[c] = "idle" /\ ~closed
  /\ Supersede(current)
  /\ closed' = TRUE /\ connected' = FALSE
  /\ UNCHANGED <<active, current, callVars, stage, sess, base, uid, tally, storeVars, files>>

\* RewindFiles: the control plane reads the active session; then the messages
\* are rewound under the manager's lock; then the files, under it again.
RewindChoose(c, u) ==
  /\ Free(c) /\ IsConnected /\ Checkpointing
  /\ snaps[active][u] # <<>>
  /\ goal' = [goal EXCEPT ![c] = <<active, u>>]
  /\ at' = [at EXCEPT ![c] = "rewindMessages"]
  /\ UNCHANGED <<clientVars, aim, runVars, storeVars, files>>

\* Rewind leaves UserTurns alone.
RewindMessages(c) ==
  LET s == goal[c][1] u == goal[c][2] IN
  /\ at[c] = "rewindMessages"
  /\ msgs' = [msgs EXCEPT ![s] = snaps[s][u]]
  /\ at' = [at EXCEPT ![c] = "rewindFiles"]
  /\ UNCHANGED <<clientVars, aim, goal, runVars, turns, snaps, fileSnaps, files>>

FileCheckpoint(c) == fileSnaps[goal[c][1]][goal[c][2]]
RewindWorkspace(c) ==
  /\ at[c] = "rewindFiles"
  /\ \E snapshot \in FileCheckpoint(c) :
       CanRestore(files, snapshot) /\ files' = restoreFiles(files, snapshot)
  /\ at' = [at EXCEPT ![c] = "idle"]
  /\ UNCHANGED <<clientVars, aim, goal, runVars, storeVars>>

\* There may be no file checkpoint, or restoring it may fail on the way: the
\* caller gets an error, the messages stay rewound.
RewindFails(c) ==
  /\ at[c] = "rewindFiles"
  /\ files' \in {files} \union UNION {Halfway(files, snapshot) : snapshot \in FileCheckpoint(c)}
  /\ at' = [at EXCEPT ![c] = "idle"]
  /\ UNCHANGED <<clientVars, aim, goal, runVars, storeVars>>

-----------------------------------------------------------------------------
(* Runs.                                                                   *)

Advance(r, from, to) == stage[r] = from /\ stage' = [stage EXCEPT ![r] = to]

\* GetOrCreate, then Clone(s.Messages) without the lock.
RunCopy(r) ==
  /\ Advance(r, "launched", "copied")
  /\ base' = [base EXCEPT ![r] = msgs[sess[r]]]
  /\ UNCHANGED <<clientVars, callVars, sess, uid, tally, cancelled, storeVars, files>>

\* userID is made from s.UserTurns+1, read without the lock ...
RunNumber(r) ==
  /\ Advance(r, "copied", "numbered")
  /\ uid' = [uid EXCEPT ![r] = turns[sess[r]] + 1]
  /\ UNCHANGED <<clientVars, callVars, sess, base, tally, cancelled, storeVars, files>>

\* ... and s.UserTurns++ follows, a data race: it starts from the value there
\* now or from the one read before.
RunCount(r) ==
  /\ Advance(r, "numbered", IF Checkpointing THEN "asked" ELSE "ready")
  /\ \E t \in {turns[sess[r]] + 1, uid[r]} : turns' = [turns EXCEPT ![sess[r]] = t]
  /\ UNCHANGED <<clientVars, callVars, sess, base, uid, tally, cancelled, msgs, snaps,
                 fileSnaps, files>>

\* SetState(sessionID, history, s.UserTurns) reads the counter before it takes
\* the manager's lock.
RunTally(r) ==
  /\ \/ Advance(r, "asked", "saving")
     \/ Advance(r, "answered", "storing")
  /\ tally' = [tally EXCEPT ![r] = turns[sess[r]]]
  /\ UNCHANGED <<clientVars, callVars, sess, base, uid, cancelled, storeVars, files>>

SetStateRecounting(r, h) ==  \* mutant: the question is counted a second time
  /\ msgs' = [msgs EXCEPT ![sess[r]] = h]
  /\ turns' = [turns EXCEPT ![sess[r]] = tally[r] + 1]
SetState(r, h) ==
  /\ msgs' = [msgs EXCEPT ![sess[r]] = h]
  /\ turns' = [turns EXCEPT ![sess[r]] = tally[r]]

\* SetState, Snapshot and SnapshotFiles take the manager's lock one by one.
RunSave(r) ==
  /\ Advance(r, "saving", "saved")
  /\ SetState(r, Asked(r))
  /\ UNCHANGED <<clientVars, callVars, sess, base, uid, tally, cancelled, snaps,
                 fileSnaps, files>>

\* What is snapshotted is the session, not the run's own copy.
SnapshotOfBase(r) == base[r]  \* mutant: the question is not in the snapshot
SnapshotOf(r) == msgs[sess[r]]
RunSnapshot(r) ==
  /\ Advance(r, "saved", "snapped")
  /\ snaps' = [snaps EXCEPT ![sess[r]][uid[r]] = SnapshotOf(r)]
  /\ UNCHANGED <<clientVars, callVars, sess, base, uid, tally, cancelled, msgs, turns,
                 fileSnaps, files>>

RunSnapshotFiles(r) ==
  /\ Advance(r, "snapped", "ready")
  /\ fileSnaps' = [fileSnaps EXCEPT ![sess[r]][uid[r]] = {captureFiles(files)}]
  /\ UNCHANGED <<clientVars, callVars, sess, base, uid, tally, cancelled, msgs, turns,
                 snaps, files>>

\* A tool of the run edits the workspace.
RunEdit(r) ==
  /\ stage[r] = "ready"
  /\ files' \in Edited(files) \ {files}
  /\ UNCHANGED <<clientVars, callVars, runVars, storeVars>>

\* The ResultMessage is delivered, even under a cancelled context: the select
\* of the send may pick either branch.
RunAnswer(r) ==
  /\ Advance(r, "ready", "answered")
  /\ UNCHANGED <<clientVars, callVars, sess, base, uid, tally, cancelled, storeVars, files>>

\* SetState with the run's own history; then both channels are closed.
RunCommit(r) ==
  /\ Advance(r, "storing", "done")
  /\ SetState(r, Answered(r))
  /\ UNCHANGED <<clientVars, callVars, sess, base, uid, tally, cancelled, snaps,
                 fileSnaps, files>>

\* Any error, a verdict other than success, or the context branch of a send.
RunFail(r) ==
  /\ stage[r] \in {"launched", "copied", "asked", "snapped", "ready"}
  /\ stage' = [stage EXCEPT ![r] = "done"]
  /\ UNCHANGED <<clientVars, callVars, sess, base, uid, tally, cancelled, storeVars,
                 files>>

RunProgress(r) ==
  \/ RunCopy(r) \/ RunNumber(r) \/ RunCount(r) \/ RunTally(r) \/ RunSave(r)
  \/ RunSnapshot(r) \/ RunSnapshotFiles(r) \/ RunAnswer(r) \/ RunCommit(r)
  \/ RunFail(r)

-----------------------------------------------------------------------------
Talk(c) ==
  \/ QueryCheck(c) \/ \E s \in Sessions : QueryLaunch(c, s)
  \/ QuerySetCurrent(c)
  \/ \E u \in Uids : RewindChoose(c, u)
  \/ RewindMessages(c) \/ RewindWorkspace(c) \/ RewindFails(c)

\* The caller is inside a method that only has local work left.
GoOn(c) ==
  \/ \E s \in Sessions : QueryLaunch(c, s)
  \/ QuerySetCurrent(c) \/ InterruptCancel(c)
  \/ RewindMessages(c) \/ RewindWorkspace(c) \/ RewindFails(c)

\* Nobody is inside a method and no run is left: the program may go elsewhere.
Quiet ==
  /\ \A c \in Callers : at[c] = "idle"
  /\ \A r \in Runs : stage[r] \in {"unused", "done"}
  /\ UNCHANGED vars

Next ==
  \/ \E s \in Sessions, fork \in BOOLEAN : Start(s, fork)
  \/ \E c \in Talkers : Talk(c)
  \/ \E c \in Interrupters : InterruptRead(c) \/ InterruptCancel(c)
  \/ \E c \in Closers : CloseClient(c)
  \/ \E r \in Runs : RunEdit(r) \/ RunProgress(r)
  \/ Quiet

Spec == Init /\ [][Next]_vars

\* A method once entered returns.  A run goes on by itself, except that between
\* its question and its answer it may wait for ever for its server or its reader
\* unless its context is done (CancelStops of QueryRun); it edits the workspace
\* only finitely often (MaxTurns).
Moving(r) == RunProgress(r) /\ (stage[r] = "ready" => cancelled[r])

FairSpec ==
  /\ Spec
  /\ \A c \in Callers : WF_vars(GoOn(c))
  /\ \A r \in Runs : WF_vars(Moving(r))

-----------------------------------------------------------------------------
(* Properties.                                                             *)

ItemType == [who : {"user", "assistant"}, run : Runs \cup {NoRun}]
Stages == {"unused", "launched", "copied", "numbered", "asked", "saving", "saved",
           "snapped", "ready", "answered", "storing", "done"}

\* Every variable keeps its type; a checkpoint's number never exceeds the
\* number of user messages the sessions can have seen.
TypeOK ==
  /\ connected \in BOOLEAN /\ closed \in BOOLEAN
  /\ active \in Sessions /\ current \in Runs \cup {NoRun}
  /\ at \in [Callers -> {"idle", "checked", "launched", "interrupt",
                         "rewindMessages", "rewindFiles"}]
  /\ aim \in [Callers -> Runs \cup {NoRun}]
  /\ goal \in [Callers -> Sessions \X (Uids \cup {0})]
  /\ stage \in [Runs -> Stages] /\ sess \in [Runs -> Sessions]
  /\ base \in [Runs -> Seq(ItemType)]
  /\ uid \in [Runs -> Uids \cup {0}] /\ tally \in [Runs -> Uids \cup {0}]
  /\ cancelled \in [Runs -> BOOLEAN]
  /\ msgs \in [Sessions -> Seq(ItemType)] /\ turns \in [Sessions -> Uids \cup {0}]
  /\ snaps \in [Sessions -> [Uids -> Seq(ItemType)]]
  /\ \A s \in Sessions, u \in Uids : Cardinality(fileSnaps[s][u]) <= 1
  /\ \A p \in DOMAIN files :
       files[p] \in Contents \union {Dir, Torn} /\ \A q \in Above(p) : q \in DOMAIN files /\ ~IsFile(files, q)

\* "Client maintains session state across multiple exchanges" (client.go:10):
\* what a session holds is only ever added to, except by a rewind.
Rewinding(s) == \E c \in Callers : at[c] = "rewindMessages" /\ goal[c][1] = s
AnswersKept ==
  [][\A s \in Sessions : IsPrefix(msgs[s], msgs'[s]) \/ Rewinding(s)]_vars

\* A user message ID names one checkpoint for ever: after failures, rewinds and
\* forks no later question takes a number already in use (lines 355-356).  A rewind
\* to it that returns without an error leaves the session's messages and the files
\* of the workspace as the checkpoint has them, also after one that failed halfway.
CheckpointsKept ==
  [][/\ \A s \in Sessions, u \in Uids :
          /\ snaps[s][u] # <<>> => snaps'[s][u] = snaps[s][u]
          /\ fileSnaps[s][u] # NoFiles => fileSnaps'[s][u] = fileSnaps[s][u]
     /\ \A c \in Talkers : RewindWorkspace(c) =>
          /\ msgs'[goal[c][1]] = snaps[goal[c][1]][goal[c][2]]
          /\ {captureFiles(files')} = FileCheckpoint(c)]_vars

\* The checkpoint taken under a run's user message ID is the conversation up to
\* and including that message, as rewinding to it needs (lines 394-396).
CheckpointIsQuestion ==
  \A r \in Runs :
    stage[r] \in {"snapped", "ready", "answered", "storing"} /\ Checkpointing
    => snaps[sess[r]][uid[r]] = Asked(r)

\* At most one run is left uncancelled behind the client: all that were started
\* are the current one, about to become it, cancelled, or over.
SupersededIsCancelled ==
  \A r \in Runs :
    \/ stage[r] \in {"unused", "done"} \/ r = current \/ cancelled[r]
    \/ \E c \in Callers : at[c] = "launched" /\ aim[c] = r

\* Close ends the run the client holds; those it held before were cancelled when
\* they were replaced (327-343): after Close none of them goes on for ever.
HeldRunsEnd ==
  \A r \in Runs :
    [](r = current /\ ~closed => [](closed => <>(stage[r] = "done")))

\* "Close terminates the session and cleans up resources" (client.go:127): after
\* it no run goes on.
ClosedRunsEnd == closed ~> \A r \in Runs : stage[r] \in {"unused", "done"}
=============================================================================
