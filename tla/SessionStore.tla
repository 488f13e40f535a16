---------------------------- MODULE SessionStore ----------------------------
(***************************************************************************)
(* The session manager (internal/session/manager.go) with its persistent   *)
(* store: one JSON file, read when a client starts and rewritten whole     *)
(* after every operation.  Processes come and go, share the file without   *)
(* any lock, and may die at any point; os.WriteFile truncates the file     *)
(* before it writes, and either half may fail.  A process runs one query   *)
(* at a time here: module Conversation has the runs that race.             *)
(*                                                                         *)
(* A history is identified with the last question in it, and questions are *)
(* numbered by `asked' over all processes.  A save that only refreshes     *)
(* UpdatedAt or a file snapshot rewrites the same state.                   *)
(***************************************************************************)
EXTENDS Integers, FiniteSets

CONSTANTS
  Procs,         \* processes that use the store
  MaxForks,      \* bound: forks of the base session
  MaxAsked,      \* bound: questions asked by all processes
  Checkpointing  \* EnableFileCheckpointing, with a working directory

ASSUME SessionStoreAssumption ==
  /\ IsFiniteSet(Procs)
  /\ MaxForks \in Nat /\ MaxAsked \in Nat /\ Checkpointing \in BOOLEAN

Base == 0
Sessions == 0..MaxForks  \* the base session and its forks "base#fork-n"
Uids == 1..MaxAsked      \* the n of a user message ID
NoQuestion == 0

\* Session.UserTurns, Messages and Checkpoints; `live' tells m.sessions has it.
Session(live, turns, said, snaps) ==
  [live |-> live, turns |-> turns, said |-> said, snaps |-> snaps]
NoSession == Session(FALSE, 0, NoQuestion, [u \in Uids |-> NoQuestion])
FreshSession == [NoSession EXCEPT !.live = TRUE]

\* persistedState: sessions and fork counters travel together.
Store(sess, forks) == [sess |-> sess, forks |-> forks]
EmptyStore == Store([s \in Sessions |-> NoSession], 0)

VARIABLES
  at,          \* where each process is
  mem,         \* its manager's sessions and fork counters
  persistent,  \* Manager.persistent, with storePath
  active,      \* activeSession
  uid, tag,    \* the number and the identity of the question being asked
  saving,      \* "no", "open" (about to truncate) or "write" (truncated)
  file, data,  \* the store file: "absent", "empty", "torn" or "whole"; its content
  asked,       \* questions asked so far
  kept         \* history variable: sessions some completed save contained

procVars == <<at, mem, persistent, active, uid, tag, saving>>
vars == <<procVars, file, data, asked, kept>>

Init ==
  /\ at = [p \in Procs |-> "down"]
  /\ mem = [p \in Procs |-> EmptyStore]
  /\ persistent = [p \in Procs |-> FALSE]
  /\ active = [p \in Procs |-> Base]
  /\ uid = [p \in Procs |-> 0] /\ tag = [p \in Procs |-> NoQuestion]
  /\ saving = [p \in Procs |-> "no"]
  /\ file = "absent" /\ data = EmptyStore
  /\ asked = 0 /\ kept = {}

\* Every operation holds the manager's lock until its save is over.
Idle(p, here) == at[p] = here /\ saving[p] = "no"
Go(p, there) == at' = [at EXCEPT ![p] = there]

\* saveLocked does nothing unless persistence is enabled.
Save(p) == saving' = [saving EXCEPT ![p] = IF persistent[p] THEN "open" ELSE "no"]

SetSession(p, s, new) == mem' = [mem EXCEPT ![p].sess[s] = new]
Held(p) == mem[p].sess[active[p]]

-----------------------------------------------------------------------------
(* Starting a client.                                                      *)

Boot(p) ==
  /\ at[p] = "down"
  /\ Go(p, "new")
  /\ UNCHANGED <<mem, persistent, active, uid, tag, saving, file, data, asked, kept>>

\* What loadLocked makes of a readable file.
LoadSessionsOnly(m) ==  \* mutant: the fork counters are not restored
  IF file = "whole" THEN Store(data.sess, 0) ELSE m
Load(m) == IF file = "whole" THEN data ELSE m

\* resolveInitialSession: the default session, which is not created yet, a
\* resumed one, or a fork of it.
\* Callers resume forks that are there: an unknown name is created on the spot
\* and may be one that NewForkID returns later.
Resolve(p, s, fork) ==
  /\ s = Base \/ mem'[p].sess[s].live
  /\ active' = [active EXCEPT ![p] = s]
  /\ \/ ~fork /\ Go(p, "create")
     \/ ~fork /\ s = Base /\ Go(p, "ready")
     \/ fork /\ s = Base /\ Go(p, "forkID")  \* bound: only the base is forked

\* Start with a store path; a torn file is an error, an empty one is not.
StartStored(p, s, fork) ==
  /\ at[p] = "new"
  /\ persistent' = [persistent EXCEPT ![p] = TRUE]
  /\ IF file = "torn"
     THEN UNCHANGED <<mem, at, active>>
     ELSE mem' = [mem EXCEPT ![p] = Load(mem[p])] /\ Resolve(p, s, fork)
  /\ UNCHANGED <<uid, tag, saving, file, data, asked, kept>>

\* Start without one leaves `persistent' as an earlier, failed Start set it.
StartUnstored(p, s, fork) ==
  /\ at[p] = "new"
  /\ UNCHANGED mem
  /\ Resolve(p, s, fork)
  /\ UNCHANGED <<persistent, uid, tag, saving, file, data, asked, kept>>

\* GetOrCreate saves only when it creates.
Create(p) ==
  /\ IF Held(p).live
     THEN UNCHANGED <<mem, saving>>
     ELSE SetSession(p, active[p], FreshSession) /\ Save(p)

CreateActive(p) ==
  /\ Idle(p, "create")
  /\ Create(p)
  /\ Go(p, "ready")
  /\ UNCHANGED <<persistent, active, uid, tag, file, data, asked, kept>>

NewForkID(p) ==
  /\ Idle(p, "forkID") /\ mem[p].forks < MaxForks
  /\ mem' = [mem EXCEPT ![p].forks = @ + 1]
  /\ Save(p)
  /\ Go(p, "clone")
  /\ UNCHANGED <<persistent, active, uid, tag, file, data, asked, kept>>

\* Clone fails when the base does not exist; the fork is then created empty.
Clone(p) ==
  LET fork == mem[p].forks IN
  /\ Idle(p, "clone")
  /\ active' = [active EXCEPT ![p] = fork]
  /\ IF mem[p].sess[Base].live
     THEN /\ SetSession(p, fork, mem[p].sess[Base])
          /\ Save(p)
          /\ Go(p, "ready")
     ELSE Go(p, "create") /\ UNCHANGED <<mem, saving>>
  /\ UNCHANGED <<persistent, uid, tag, file, data, asked, kept>>

-----------------------------------------------------------------------------
(* A run's accesses to its session.                                        *)

BeginRun(p) ==
  /\ Idle(p, "ready") /\ asked < MaxAsked
  /\ Create(p)
  /\ Go(p, "count")
  /\ UNCHANGED <<persistent, active, uid, tag, file, data, asked, kept>>

\* userID and s.UserTurns++, on the manager's own Session and without a save.
CountTurn(p) ==
  /\ Idle(p, "count") /\ asked < MaxAsked
  /\ asked' = asked + 1
  /\ tag' = [tag EXCEPT ![p] = asked + 1]
  /\ uid' = [uid EXCEPT ![p] = Held(p).turns + 1]
  /\ mem' = [mem EXCEPT ![p].sess[active[p]].turns = @ + 1]
  /\ at' \in {[at EXCEPT ![p] = IF Checkpointing THEN "save" ELSE "answer"],
              [at EXCEPT ![p] = "ready"]}
  /\ UNCHANGED <<persistent, active, saving, file, data, kept>>

\* SetState stores the history and, once more, the number of turns.
ForgetTurns(p) ==  \* mutant: the turns are those before the question
  SetSession(p, active[p], [Held(p) EXCEPT !.said = tag[p], !.turns = uid[p] - 1])
CountTwice(p) ==  \* mutant: the question is counted again
  SetSession(p, active[p], [Held(p) EXCEPT !.said = tag[p], !.turns = uid[p] + 1])
SetState(p) ==
  SetSession(p, active[p], [Held(p) EXCEPT !.said = tag[p], !.turns = uid[p]])

SaveQuestion(p) ==
  /\ Idle(p, "save")
  /\ SetState(p) /\ Save(p)
  /\ Go(p, "snapshot")
  /\ UNCHANGED <<persistent, active, uid, tag, file, data, asked, kept>>

Snapshot(p) ==
  /\ Idle(p, "snapshot")
  /\ SetSession(p, active[p], [Held(p) EXCEPT !.snaps[uid[p]] = Held(p).said])
  /\ Save(p)
  /\ Go(p, "files")
  /\ UNCHANGED <<persistent, active, uid, tag, file, data, asked, kept>>

\* SnapshotFiles may fail to read the workspace; it is the only operation that
\* reports a failing save, and both end the run.
SnapshotFiles(p) ==
  /\ Idle(p, "files")
  /\ \/ Go(p, "ready") /\ UNCHANGED saving
     \/ Go(p, "answer") /\ Save(p)
  /\ UNCHANGED <<mem, persistent, active, uid, tag, file, data, asked, kept>>

\* The run ends with an answer to store, or without one.
EndRun(p) ==
  /\ Idle(p, "answer")
  /\ \/ SetState(p) /\ Save(p)
     \/ UNCHANGED <<mem, saving>>
  /\ Go(p, "ready")
  /\ UNCHANGED <<persistent, active, uid, tag, file, data, asked, kept>>

\* Rewind restores the messages and leaves UserTurns.
Rewind(p, u) ==
  /\ Idle(p, "ready") /\ Checkpointing /\ Held(p).snaps[u] # NoQuestion
  /\ SetSession(p, active[p], [Held(p) EXCEPT !.said = Held(p).snaps[u]])
  /\ Save(p)
  /\ UNCHANGED <<at, persistent, active, uid, tag, file, data, asked, kept>>

-----------------------------------------------------------------------------
(* The file.                                                               *)

Saved(p) == saving' = [saving EXCEPT ![p] = "no"]

\* A failing save is ignored, except by SnapshotFiles.
SaveFailed(p) ==
  /\ Saved(p)
  /\ Go(p, IF at[p] = "answer" THEN "ready" ELSE at[p])

\* MkdirAll and the O_TRUNC open of os.WriteFile.
OpenStore(p) ==
  /\ saving[p] = "open"
  /\ \/ /\ file' = "empty" /\ data' = EmptyStore
        /\ saving' = [saving EXCEPT ![p] = "write"] /\ UNCHANGED at
     \/ SaveFailed(p) /\ UNCHANGED <<file, data>>
  /\ UNCHANGED <<mem, persistent, active, uid, tag, asked, kept>>

\* Another process may have written in between: what is longer of the two texts
\* then leaves its tail behind.
WriteStore(p) ==
  /\ saving[p] = "write"
  /\ \/ /\ file' = "whole" /\ data' = mem[p]
        /\ kept' = kept \cup {s \in Sessions : mem[p].sess[s].live}
        /\ Saved(p) /\ UNCHANGED at
     \/ /\ file = "whole"
        /\ file' = "torn" /\ data' = EmptyStore
        /\ Saved(p) /\ UNCHANGED <<at, kept>>
     \/ /\ file' \in {"empty", "torn"} /\ data' = EmptyStore
        /\ SaveFailed(p) /\ UNCHANGED kept
  /\ UNCHANGED <<mem, persistent, active, uid, tag, asked>>

\* A process exits or dies, in the middle of a write for all we know.
Crash(p) ==
  /\ at[p] # "down"
  /\ Go(p, "down")
  /\ Saved(p)
  /\ mem' = [mem EXCEPT ![p] = EmptyStore]
  /\ persistent' = [persistent EXCEPT ![p] = FALSE]
  /\ active' = [active EXCEPT ![p] = Base]
  /\ uid' = [uid EXCEPT ![p] = 0] /\ tag' = [tag EXCEPT ![p] = NoQuestion]
  /\ \/ UNCHANGED <<file, data>>
     \/ saving[p] = "write" /\ file' = "torn" /\ data' = EmptyStore
  /\ UNCHANGED <<asked, kept>>

Access(p) ==
  \/ CreateActive(p) \/ NewForkID(p) \/ Clone(p)
  \/ BeginRun(p) \/ CountTurn(p) \/ SaveQuestion(p) \/ Snapshot(p)
  \/ SnapshotFiles(p) \/ EndRun(p)
  \/ \E u \in Uids : Rewind(p, u)

Next ==
  \E p \in Procs :
    \/ Boot(p) \/ Crash(p)
    \/ \E s \in Sessions, fork \in BOOLEAN :
         StartStored(p, s, fork) \/ StartUnstored(p, s, fork)
    \/ Access(p)
    \/ OpenStore(p) \/ WriteStore(p)

Spec == Init /\ [][Next]_vars

-----------------------------------------------------------------------------
(* Properties.                                                             *)

SessionType ==
  [live : BOOLEAN, turns : 0..MaxAsked, said : 0..MaxAsked, snaps : [Uids -> 0..MaxAsked]]
StoreType == [sess : [Sessions -> SessionType], forks : 0..MaxForks]
Locations == {"down", "new", "forkID", "clone", "create", "ready", "count", "save",
              "snapshot", "files", "answer"}

\* Every variable keeps its type.
TypeOK ==
  /\ at \in [Procs -> Locations]
  /\ mem \in [Procs -> StoreType] /\ data \in StoreType
  /\ persistent \in [Procs -> BOOLEAN] /\ active \in [Procs -> Sessions]
  /\ uid \in [Procs -> 0..MaxAsked] /\ tag \in [Procs -> 0..MaxAsked]
  /\ saving \in [Procs -> {"no", "open", "write"}]
  /\ file \in {"absent", "empty", "torn", "whole"}
  /\ asked \in 0..MaxAsked /\ kept \subseteq Sessions

\* A fork never lands on a session that is already there, whatever was lost in
\* earlier processes: counters and sessions are saved and loaded together.
ForkIsNew ==
  \A p \in Procs :
    at[p] = "clone" /\ saving[p] = "no" => ~mem[p].sess[mem[p].forks].live

\* Over rewinds, failures and restarts, a new checkpoint never replaces one that
\* a user message ID already names.
CheckpointIsNew ==
  \A p \in Procs :
    at[p] = "snapshot" /\ saving[p] = "no" => Held(p).snaps[uid[p]] = NoQuestion

\* "When set, resume/fork state can survive process restarts" (options.go:201):
\* what a completed save contained is there when a client starts again.
SavedSurvives ==
  [][\A p \in Procs :
       (at[p] = "new" /\ at'[p] # "new" /\ persistent'[p])
       => \A s \in kept : mem'[p].sess[s].live \/ at'[p] = "down"]_vars
=============================================================================
