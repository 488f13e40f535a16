------------------------- MODULE SessionStoreProofs -------------------------
(***************************************************************************)
(* SessionStore keeps its types, forks land on new sessions and            *)
(* checkpoints get new user message IDs, for every number of processes and *)
(* every bound.  The invariant is about any store, in memory or in the     *)
(* file: what is numbered beyond a counter does not exist yet.             *)
(***************************************************************************)
EXTENDS SessionStore, TLAPS

\* No session beyond the fork counter, no checkpoint beyond the turn counter,
\* no more turns than questions asked.
Counted(m) ==
  /\ m \in StoreType
  /\ \A s \in Sessions : s > m.forks => ~m.sess[s].live
  /\ \A s \in Sessions : m.sess[s].turns <= asked
  /\ \A s \in Sessions, u \in Uids :
       u > m.sess[s].turns => m.sess[s].snaps[u] = NoQuestion

\* Where a process stands fixes what it is about to number.
Placed(p) ==
  /\ at[p] = "clone" => mem[p].forks > 0 /\ ~mem[p].sess[mem[p].forks].live
  /\ at[p] \in {"create", "ready", "count", "save", "snapshot", "files", "answer"}
     => active[p] <= mem[p].forks
  /\ at[p] \in {"save", "snapshot", "files", "answer"}
     => uid[p] \in Uids /\ Held(p).turns = uid[p]
  /\ at[p] \in {"save", "snapshot"} => Held(p).snaps[uid[p]] = NoQuestion

StoreInv ==
  /\ TypeOK
  /\ Counted(data)
  /\ \A p \in Procs : Counted(mem[p]) /\ Placed(p)

-----------------------------------------------------------------------------
(* Facts about stores.                                                     *)

(* The constants of the store have the types one expects.                  *)
LEMMA Constants ==
  /\ Base \in Sessions /\ MaxForks \in Nat /\ MaxAsked \in Nat
  /\ NoSession \in SessionType /\ FreshSession \in SessionType
  /\ EmptyStore \in StoreType /\ NoQuestion \in 0..MaxAsked
  /\ Sessions \subseteq Nat /\ Uids \subseteq Nat
<1>1. Base \in Sessions /\ MaxForks \in Nat /\ MaxAsked \in Nat /\ NoQuestion \in 0..MaxAsked
  BY SessionStoreAssumption DEF Base, Sessions, NoQuestion
<1>2. Sessions \subseteq Nat /\ Uids \subseteq Nat
  BY DEF Sessions, Uids
<1>3. [u \in Uids |-> NoQuestion] \in [Uids -> 0..MaxAsked]
  BY <1>1
<1>4. NoSession \in SessionType
  BY <1>1, <1>3 DEF NoSession, Session, SessionType
<1>5. FreshSession \in SessionType
  BY <1>4 DEF FreshSession, SessionType
<1>6. [s \in Sessions |-> NoSession] \in [Sessions -> SessionType]
  BY <1>4
<1>7. EmptyStore \in StoreType
  BY <1>1, <1>6 DEF EmptyStore, Store, StoreType
<1> QED
  BY <1>1, <1>2, <1>4, <1>5, <1>7

(* Nothing is numbered in an empty store.                                  *)
LEMMA EmptyCounted == ASSUME asked \in Nat PROVE Counted(EmptyStore)
BY Constants DEF Counted, EmptyStore, Store, NoSession, Session

(* A store stays well counted when a session within the counters changes.  *)
LEMMA ChangeSession ==
  ASSUME NEW m, Counted(m), asked \in Nat,
         NEW s \in Sessions, NEW new \in SessionType,
         s <= m.forks \/ ~new.live, new.turns <= asked,
         \A u \in Uids : u > new.turns => new.snaps[u] = NoQuestion
  PROVE  Counted([m EXCEPT !.sess[s] = new])
<1> DEFINE n == [m EXCEPT !.sess[s] = new]
<1>1. n.forks = m.forks /\ n.sess = [m.sess EXCEPT ![s] = new] /\ n \in StoreType
  BY DEF Counted, StoreType
<1>2. \A t \in Sessions : n.sess[t] = IF t = s THEN new ELSE m.sess[t]
  BY <1>1 DEF Counted, StoreType
<1> QED
  BY <1>1, <1>2, Constants DEF Counted, StoreType

(* More questions asked do not unsettle a store.                           *)
LEMMA AskedGrows ==
  ASSUME NEW m, Counted(m), asked \in Nat, asked' \in Nat, asked' >= asked
  PROVE  /\ m \in StoreType
         /\ \A s \in Sessions : s > m.forks => ~m.sess[s].live
         /\ \A s \in Sessions : m.sess[s].turns <= asked'
         /\ \A s \in Sessions, u \in Uids :
              u > m.sess[s].turns => m.sess[s].snaps[u] = NoQuestion
BY DEF Counted, StoreType, SessionType

(* The session at hand is a well-counted session.                          *)
LEMMA HeldSession ==
  ASSUME StoreInv, NEW p \in Procs
  PROVE  /\ Held(p) \in SessionType /\ active[p] \in Sessions
         /\ mem[p] \in StoreType /\ Held(p).turns <= asked
         /\ \A u \in Uids : u > Held(p).turns => Held(p).snaps[u] = NoQuestion
BY DEF StoreInv, TypeOK, Held, Counted, StoreType

(* A history and its number of turns are stored as the question's number.  *)
LEMMA StateSet ==
  ASSUME StoreInv, NEW p \in Procs, at[p] \in {"save", "answer"}, SetState(p)
  PROVE  \E new \in SessionType :
           /\ mem' = [mem EXCEPT ![p].sess[active[p]] = new]
           /\ new.turns = Held(p).turns /\ new.snaps = Held(p).snaps
<1> DEFINE new == [Held(p) EXCEPT !.said = tag[p], !.turns = uid[p]]
<1>1. uid[p] = Held(p).turns /\ uid[p] \in 0..MaxAsked /\ tag[p] \in 0..MaxAsked
  BY DEF StoreInv, TypeOK, Placed
<1>2. new \in SessionType /\ new.turns = Held(p).turns /\ new.snaps = Held(p).snaps
  BY <1>1, HeldSession DEF SessionType
<1>3. mem' = [mem EXCEPT ![p].sess[active[p]] = new]
  BY DEF SetState, SetSession
<1> QED
  BY <1>2, <1>3

-----------------------------------------------------------------------------
(* The invariant.                                                          *)

(* What a step of one process leaves alone.                                *)
Others(p) ==
  \A q \in Procs \ {p} :
    at'[q] = at[q] /\ active'[q] = active[q] /\ uid'[q] = uid[q] /\ mem'[q] = mem[q]

(* A step of p keeps the invariant of the others.                          *)
LEMMA OneMoves ==
  ASSUME StoreInv, NEW p \in Procs, Others(p), TypeOK', UNCHANGED asked,
         Counted(data)', Counted(mem[p])', Placed(p)'
  PROVE  StoreInv'
<1>1. \A q \in Procs \ {p} : Counted(mem[q])'
  BY DEF StoreInv, Counted, Others
<1>2. \A q \in Procs \ {p} : Placed(q)'
  BY DEF StoreInv, Placed, Others, Held
<1> QED
  BY <1>1, <1>2 DEF StoreInv

(* The session at hand changes, within what is counted.                    *)
LEMMA HeldChanges ==
  ASSUME StoreInv, NEW p \in Procs, NEW new \in SessionType,
         mem' = [mem EXCEPT ![p].sess[active[p]] = new],
         active[p] <= mem[p].forks, new.turns <= asked,
         \A u \in Uids : u > new.turns => new.snaps[u] = NoQuestion,
         UNCHANGED <<active, uid, asked, data>>
  PROVE  /\ Counted(mem[p])' /\ Counted(data)' /\ mem' \in [Procs -> StoreType]
         /\ Held(p)' = new /\ mem'[p].forks = mem[p].forks
         /\ \A q \in Procs \ {p} : mem'[q] = mem[q]
<1> DEFINE m == [mem[p] EXCEPT !.sess[active[p]] = new]
<1>1. Counted(m)
  BY ChangeSession, Constants DEF StoreInv, TypeOK
<1>2. m.forks = mem[p].forks /\ m.sess[active[p]] = new
  BY DEF StoreInv, TypeOK, StoreType
<1>3. mem' = [mem EXCEPT ![p] = m]
  OBVIOUS
<1>4. m \in StoreType
  BY <1>1 DEF Counted
<1>5. mem'[p] = m /\ mem' \in [Procs -> StoreType]
  BY <1>3, <1>4 DEF StoreInv, TypeOK
<1>6. Counted(mem[p])' /\ Counted(data)'
  BY <1>1, <1>5 DEF Counted, StoreInv
<1> QED
  BY <1>2, <1>3, <1>5, <1>6 DEF Held, StoreInv, TypeOK

(* GetOrCreate in the session at hand.                                     *)
LEMMA Created ==
  ASSUME StoreInv, NEW p \in Procs, Create(p), active[p] <= mem[p].forks,
         UNCHANGED <<active, uid, asked, data>>
  PROVE  /\ Counted(mem[p])' /\ Counted(data)' /\ mem' \in [Procs -> StoreType]
         /\ mem'[p].forks = mem[p].forks
         /\ \A q \in Procs \ {p} : mem'[q] = mem[q]
         /\ saving' \in [Procs -> {"no", "open", "write"}]
<1>1. saving' \in [Procs -> {"no", "open", "write"}]
  BY DEF Create, Save, StoreInv, TypeOK
<1>2. CASE Held(p).live
  BY <1>1, <1>2 DEF Create, StoreInv, TypeOK, Counted
<1>3. CASE ~Held(p).live
  <2>1. mem' = [mem EXCEPT ![p].sess[active[p]] = FreshSession]
    BY <1>3 DEF Create, SetSession
  <2>2. FreshSession.turns = 0 /\ \A u \in Uids : FreshSession.snaps[u] = NoQuestion
    BY DEF FreshSession, NoSession, Session
  <2>3. 0 <= asked
    BY Constants DEF StoreInv, TypeOK
  <2> HIDE DEF FreshSession
  <2> QED
    BY <1>1, <2>1, <2>2, <2>3, HeldChanges, Constants
<1> QED
  BY <1>2, <1>3

(* Every step of a client that starts.                                     *)
LEMMA StartStep ==
  ASSUME StoreInv, NEW p \in Procs,
         \/ Boot(p)
         \/ \E s \in Sessions, fork \in BOOLEAN : StartStored(p, s, fork) \/ StartUnstored(p, s, fork)
         \/ CreateActive(p) \/ NewForkID(p) \/ Clone(p)
  PROVE  StoreInv'
<1>1. CASE Boot(p)
  <2>1. TypeOK' /\ Others(p) /\ Placed(p)' /\ Counted(mem[p])' /\ Counted(data)'
    BY <1>1 DEF Boot, Go, StoreInv, TypeOK, Locations, Others, Placed, Counted
  <2> QED
    BY <1>1, <2>1, OneMoves DEF Boot
<1>2. ASSUME NEW s \in Sessions, NEW fork \in BOOLEAN, NEW m, Counted(m),
             mem' = [mem EXCEPT ![p] = m], Resolve(p, s, fork),
             persistent' \in [Procs -> BOOLEAN],
             UNCHANGED <<uid, tag, saving, file, data, asked, kept>>
      PROVE  StoreInv'
  <2>1. mem'[p] = m /\ m \in StoreType /\ mem' \in [Procs -> StoreType]
    BY <1>2 DEF Counted, StoreInv, TypeOK
  <2>2. active'[p] = s /\ at'[p] \in {"create", "ready", "forkID"}
    BY <1>2 DEF Resolve, Go, StoreInv, TypeOK
  <2>3. s <= m.forks
    BY <1>2, <2>1 DEF Resolve, Base, Sessions, Counted, StoreType
  <2>4. Counted(mem[p])' /\ Counted(data)'
    BY <1>2, <2>1 DEF Counted, StoreInv
  <2>5. TypeOK' /\ Others(p) /\ Placed(p)'
    BY <1>2, <2>1, <2>2, <2>3 DEF Resolve, Go, StoreInv, TypeOK, Locations, Others, Placed
  <2> QED
    BY <1>2, <2>4, <2>5, OneMoves
<1>3. ASSUME NEW s \in Sessions, NEW fork \in BOOLEAN, StartStored(p, s, fork)
      PROVE  StoreInv'
  <2>1. CASE file = "torn"
    <3>1. TypeOK' /\ Others(p) /\ Placed(p)' /\ Counted(mem[p])' /\ Counted(data)'
      BY <1>3, <2>1
      DEF StartStored, StoreInv, TypeOK, Others, Placed, Held, Counted
    <3> QED
      BY <1>3, <3>1, OneMoves DEF StartStored
  <2>2. CASE file # "torn"
    <3>1. Counted(Load(mem[p])) /\ mem' = [mem EXCEPT ![p] = Load(mem[p])]
      BY <1>3, <2>2 DEF StartStored, Load, StoreInv
    <3>2. persistent' \in [Procs -> BOOLEAN]
      BY <1>3 DEF StartStored, StoreInv, TypeOK
    <3> QED
      BY <1>2, <1>3, <2>2, <3>1, <3>2 DEF StartStored
  <2> QED
    BY <2>1, <2>2
<1>4. ASSUME NEW s \in Sessions, NEW fork \in BOOLEAN, StartUnstored(p, s, fork)
      PROVE  StoreInv'
  <2>1. mem' = [mem EXCEPT ![p] = mem[p]] /\ Counted(mem[p])
    BY <1>4 DEF StartUnstored, StoreInv, TypeOK
  <2> QED
    BY <1>2, <1>4, <2>1 DEF StartUnstored, StoreInv, TypeOK
<1>5. CASE CreateActive(p)
  <2>1. active[p] <= mem[p].forks /\ Create(p) /\ at' = [at EXCEPT ![p] = "ready"]
    BY <1>5 DEF CreateActive, Idle, StoreInv, Placed, Go
  <2>2. UNCHANGED <<persistent, active, uid, tag, file, data, asked, kept>>
    BY <1>5 DEF CreateActive
  <2>3. TypeOK' /\ Others(p) /\ Placed(p)'
    BY <2>1, <2>2, Created DEF StoreInv, TypeOK, Locations, Others, Placed
  <2> QED
    BY <2>1, <2>2, <2>3, Created, OneMoves
<1>6. CASE NewForkID(p)
  <2> DEFINE m == [mem[p] EXCEPT !.forks = @ + 1]
  <2>1. mem[p] \in StoreType /\ mem[p].forks + 1 \in 0..MaxForks
    BY <1>6, Constants DEF NewForkID, StoreInv, TypeOK, StoreType
  <2>2. mem' = [mem EXCEPT ![p] = m] /\ m \in StoreType
    <3>1. mem' = [mem EXCEPT ![p] = m]
      BY <1>6 DEF NewForkID
    <3>2. m \in StoreType
      BY <2>1 DEF StoreType
    <3> QED
      BY <3>1, <3>2
  <2>3. m.forks = mem[p].forks + 1 /\ m.sess = mem[p].sess /\ m.forks \in Sessions
    BY <2>1 DEF StoreType, Sessions
  <2>4. mem'[p] = m /\ mem' \in [Procs -> StoreType]
    BY <2>2 DEF StoreInv, TypeOK
  <2>5. Counted(mem[p])' /\ Counted(data)'
    <3>1. \A s \in Sessions : s > mem[p].forks + 1 => s > mem[p].forks
      BY <2>1, Constants DEF StoreType
    <3>2. Counted(m)
      <4> HIDE DEF m
      <4> QED
        BY <2>2, <2>3, <3>1 DEF StoreInv, Counted
    <3> HIDE DEF m
    <3> QED
      BY <1>6, <2>4, <3>2 DEF NewForkID, StoreInv, Counted
  <2>6. Placed(p)'
    BY <1>6, <2>3, <2>4, Constants
    DEF NewForkID, Go, StoreInv, TypeOK, StoreType, Counted, Placed
  <2>7. TypeOK' /\ Others(p)
    BY <1>6, <2>2, <2>4 DEF NewForkID, Go, Save, StoreInv, TypeOK, Locations, Others
  <2> QED
    BY <1>6, <2>5, <2>6, <2>7, OneMoves DEF NewForkID
<1>7. CASE Clone(p)
  <2> DEFINE fork == mem[p].forks
  <2>1. fork \in Sessions /\ active' = [active EXCEPT ![p] = fork]
    BY <1>7 DEF Clone, StoreInv, TypeOK, StoreType, Sessions
  <2>2. fork \in Nat /\ fork <= fork
    <3> HIDE DEF fork
    <3> QED
      BY <2>1, Constants
  <2>3. CASE mem[p].sess[Base].live
    <3> DEFINE m == [mem[p] EXCEPT !.sess[fork] = mem[p].sess[Base]]
    <3>1. mem' = [mem EXCEPT ![p] = m]
      BY <1>7, <2>3 DEF Clone, SetSession
    <3>2. mem[p].sess[Base] \in SessionType /\ mem[p].sess[Base].turns <= asked
          /\ \A u \in Uids : u > mem[p].sess[Base].turns
                => mem[p].sess[Base].snaps[u] = NoQuestion
      BY Constants DEF StoreInv, TypeOK, StoreType, Counted
    <3>3. Counted(m) /\ m \in StoreType /\ m.forks = fork
      <4>1. Counted(mem[p]) /\ asked \in Nat
        BY Constants DEF StoreInv, TypeOK
      <4>2. Counted(m)
        BY <2>2, <2>1, <3>2, <4>1, ChangeSession
      <4> QED
        BY <4>2 DEF Counted
    <3>4. mem'[p] = m /\ mem' \in [Procs -> StoreType]
      BY <3>1, <3>3 DEF StoreInv, TypeOK
    <3>5. Counted(mem[p])' /\ Counted(data)'
      BY <1>7, <3>3, <3>4 DEF Clone, Counted, StoreInv
    <3>6. at' = [at EXCEPT ![p] = "ready"] /\ saving' \in [Procs -> {"no", "open", "write"}]
      BY <1>7, <2>3 DEF Clone, Go, Save, StoreInv, TypeOK
    <3>7. TypeOK' /\ Others(p) /\ Placed(p)'
      <4> HIDE DEF m
      <4>1. UNCHANGED <<persistent, uid, tag, file, data, asked, kept>>
        BY <1>7 DEF Clone
      <4>2. TypeOK'
        BY <2>1, <3>4, <3>6, <4>1 DEF StoreInv, TypeOK, Locations
      <4>3. Others(p)
        BY <2>1, <3>1, <3>6, <4>1 DEF StoreInv, TypeOK, Others
      <4>4. active'[p] = fork /\ mem'[p].forks = fork /\ at'[p] = "ready"
        <5> HIDE DEF fork
        <5> QED
          BY <2>1, <3>3, <3>4, <3>6 DEF StoreInv, TypeOK
      <4>5. Placed(p)'
        BY <2>2, <4>4 DEF Placed
      <4> QED
        BY <4>2, <4>3, <4>5
    <3> QED
      BY <1>7, <3>5, <3>7, OneMoves DEF Clone
  <2>4. CASE ~mem[p].sess[Base].live
    <3>1. TypeOK' /\ Others(p)
      BY <1>7, <2>1, <2>4 DEF Clone, Go, StoreInv, TypeOK, Locations, Others
    <3>2. active'[p] = fork /\ mem'[p].forks = fork /\ at'[p] = "create"
      BY <1>7, <2>1, <2>4 DEF Clone, Go, StoreInv, TypeOK
    <3>3. Placed(p)'
      BY <2>2, <3>2 DEF Placed
    <3>4. Counted(mem[p])' /\ Counted(data)'
      BY <1>7, <2>4 DEF Clone, Counted, StoreInv
    <3> QED
      BY <1>7, <3>1, <3>3, <3>4, OneMoves DEF Clone
  <2> QED
    BY <2>3, <2>4
<1> QED
  BY <1>1, <1>3, <1>4, <1>5, <1>6, <1>7

(* Every step of a run.                                                    *)
LEMMA RunStep ==
  ASSUME StoreInv, NEW p \in Procs,
         \/ BeginRun(p) \/ CountTurn(p) \/ SaveQuestion(p) \/ Snapshot(p)
         \/ SnapshotFiles(p) \/ EndRun(p)
         \/ \E u \in Uids : Rewind(p, u)
  PROVE  StoreInv'
<1>1. CASE BeginRun(p)
  <2>1. active[p] <= mem[p].forks /\ Create(p) /\ at' = [at EXCEPT ![p] = "count"]
    BY <1>1 DEF BeginRun, Idle, StoreInv, Placed, Go
  <2>2. UNCHANGED <<persistent, active, uid, tag, file, data, asked, kept>>
    BY <1>1 DEF BeginRun
  <2>3. TypeOK' /\ Others(p) /\ Placed(p)'
    BY <2>1, <2>2, Created DEF StoreInv, TypeOK, Locations, Others, Placed
  <2> QED
    BY <2>1, <2>2, <2>3, Created, OneMoves
<1>2. CASE CountTurn(p)
  <2> DEFINE t == Held(p).turns + 1
             new == [Held(p) EXCEPT !.turns = t]
             m == [mem[p] EXCEPT !.sess[active[p]] = new]
  <2>1. t \in 1..asked+1 /\ asked + 1 \in 1..MaxAsked /\ asked \in Nat
    BY <1>2, HeldSession, Constants DEF CountTurn, StoreInv, TypeOK, SessionType
  <2>2. new \in SessionType /\ new.turns = t /\ new.snaps = Held(p).snaps
    BY <2>1, HeldSession, Constants DEF SessionType
  <2>3. mem' = [mem EXCEPT ![p] = m] /\ m = [mem[p] EXCEPT !.sess = [@ EXCEPT ![active[p]] = new]]
    BY <1>2 DEF CountTurn, Held
  <2>4. m \in StoreType /\ m.forks = mem[p].forks /\ m.sess = [mem[p].sess EXCEPT ![active[p]] = new]
    <3> HIDE DEF new
    <3> QED
      BY <2>2, HeldSession DEF StoreType
  <2>5. mem'[p] = m /\ mem' \in [Procs -> StoreType] /\ \A q \in Procs \ {p} : mem'[q] = mem[q]
    <3> HIDE DEF m
    <3> QED
      BY <2>3, <2>4 DEF StoreInv, TypeOK
  <2>6. Held(p)' = new
    <3> HIDE DEF m, new
    <3> QED
      BY <1>2, <2>4, <2>5, HeldSession DEF CountTurn, Held, StoreType
  <2>7. asked' = asked + 1 /\ uid' = [uid EXCEPT ![p] = t] /\ tag' = [tag EXCEPT ![p] = asked + 1]
        /\ UNCHANGED <<persistent, active, saving, file, data, kept>>
    BY <1>2 DEF CountTurn
  <2>8. at'[p] \in {"save", "answer", "ready"} /\ at' \in [Procs -> Locations]
        /\ \A q \in Procs \ {p} : at'[q] = at[q]
    BY <1>2 DEF CountTurn, StoreInv, TypeOK, Locations
  <2>9. active[p] <= mem[p].forks
    BY <1>2 DEF CountTurn, Idle, StoreInv, Placed
  <2>10. t \in Uids /\ t > Held(p).turns
    <3>1. Held(p).turns \in Nat /\ Held(p).turns <= asked
      BY HeldSession DEF SessionType
    <3> QED
      BY <2>1, <3>1, Constants DEF Uids
  <2>11. TypeOK'
    <3> HIDE DEF m, t
    <3> QED
      <4>1. t \in 0..MaxAsked /\ asked + 1 \in 0..MaxAsked
        BY <2>1, Constants
      <4> QED
        BY <2>5, <2>7, <2>8, <4>1 DEF StoreInv, TypeOK
  <2>12. \A q \in Procs \ {p} : Counted(mem[q])' /\ Placed(q)'
    <3>1. \A q \in Procs \ {p} : Counted(mem[q])'
      BY <2>1, <2>5, <2>7, AskedGrows DEF StoreInv, Counted
    <3>2. \A q \in Procs \ {p} : uid'[q] = uid[q] /\ active'[q] = active[q]
      BY <2>7 DEF StoreInv, TypeOK
    <3>3. \A q \in Procs \ {p} : Placed(q)'
      BY <2>5, <2>8, <3>2 DEF StoreInv, Placed, Held
    <3> QED
      BY <3>1, <3>3
  <2>13. Counted(data)'
    BY <2>1, <2>7, AskedGrows DEF StoreInv, Counted
  <2>14. Counted(mem[p])'
    <3>1. \A s \in Sessions : m.sess[s] = IF s = active[p] THEN new ELSE mem[p].sess[s]
      <4> HIDE DEF m, new
      <4> QED
        BY <2>4, HeldSession DEF StoreType
    <3>2. \A s \in Sessions : s > m.forks => ~m.sess[s].live
      <4> HIDE DEF m, new
      <4>1. active[p] \in Nat /\ mem[p].forks \in Nat
        <5>1. active[p] \in Nat
          BY HeldSession, Constants
        <5>2. mem[p].forks \in 0..MaxForks
          BY HeldSession DEF StoreType
        <5> QED
          BY <5>1, <5>2, Constants
      <4> QED
        BY <2>4, <2>9, <3>1, <4>1, Constants DEF StoreInv, Counted
    <3>3. \A s \in Sessions : m.sess[s].turns <= asked + 1
      <4>1. \A s \in Sessions : mem[p].sess[s].turns \in Nat /\ mem[p].sess[s].turns <= asked
        BY HeldSession DEF StoreInv, Counted, StoreType, SessionType
      <4> HIDE DEF m, new
      <4> QED
        BY <2>1, <2>2, <3>1, <4>1
    <3>4. \A u \in Uids : u > t => Held(p).snaps[u] = NoQuestion
      BY <2>10, HeldSession, Constants DEF SessionType
    <3>5. \A s \in Sessions, u \in Uids :
            u > m.sess[s].turns => m.sess[s].snaps[u] = NoQuestion
      <4> HIDE DEF m, new, t
      <4> QED
        BY <2>2, <3>1, <3>4 DEF StoreInv, Counted
    <3> HIDE DEF m
    <3> QED
      BY <2>4, <2>5, <2>7, <3>2, <3>3, <3>5 DEF Counted
  <2>15. Placed(p)'
    <3>1. uid'[p] = t /\ active'[p] = active[p] /\ mem'[p].forks = mem[p].forks
      <4> HIDE DEF m, t
      <4> QED
        BY <2>4, <2>5, <2>7 DEF StoreInv, TypeOK
    <3>2. new.snaps[t] = NoQuestion
      <4> HIDE DEF new, t
      <4> QED
        BY <2>2, <2>10, HeldSession
    <3> HIDE DEF new, t
    <3> QED
      BY <2>2, <2>6, <2>8, <2>9, <2>10, <3>1, <3>2 DEF Placed
  <2> QED
    BY <2>11, <2>12, <2>13, <2>14, <2>15 DEF StoreInv
<1>3. CASE SaveQuestion(p)
  <2>1. PICK new \in SessionType :
          /\ mem' = [mem EXCEPT ![p].sess[active[p]] = new]
          /\ new.turns = Held(p).turns /\ new.snaps = Held(p).snaps
    BY <1>3, StateSet DEF SaveQuestion, Idle
  <2>2. active[p] <= mem[p].forks /\ uid[p] \in Uids /\ Held(p).turns = uid[p]
        /\ Held(p).snaps[uid[p]] = NoQuestion
    BY <1>3 DEF SaveQuestion, Idle, StoreInv, Placed
  <2>3. UNCHANGED <<persistent, active, uid, tag, file, data, asked, kept>>
    BY <1>3 DEF SaveQuestion
  <2>4. /\ Counted(mem[p])' /\ Counted(data)' /\ mem' \in [Procs -> StoreType]
        /\ Held(p)' = new /\ mem'[p].forks = mem[p].forks
        /\ \A q \in Procs \ {p} : mem'[q] = mem[q]
    <3>1. new.turns <= asked /\ \A v \in Uids : v > new.turns => new.snaps[v] = NoQuestion
      BY <2>1, HeldSession
    <3>2. UNCHANGED <<active, uid, asked, data>>
      BY <2>3
    <3> QED
      BY <2>1, <2>2, <2>3, <3>1, <3>2, HeldChanges
  <2>5. TypeOK' /\ Others(p)
    BY <1>3, <2>3, <2>4 DEF SaveQuestion, Go, Save, StoreInv, TypeOK, Locations, Others
  <2>6. Placed(p)'
    BY <1>3, <2>1, <2>2, <2>3, <2>4 DEF SaveQuestion, Go, StoreInv, TypeOK, Placed
  <2> QED
    BY <2>3, <2>4, <2>5, <2>6, OneMoves
<1>4. CASE Snapshot(p)
  <2> DEFINE new == [Held(p) EXCEPT !.snaps[uid[p]] = Held(p).said]
  <2>1. active[p] <= mem[p].forks /\ uid[p] \in Uids /\ Held(p).turns = uid[p]
    BY <1>4 DEF Snapshot, Idle, StoreInv, Placed
  <2>2. new \in SessionType /\ new.turns = Held(p).turns
    BY HeldSession DEF SessionType
  <2>3. \A u \in Uids : u > new.turns => new.snaps[u] = NoQuestion
    BY <2>1, HeldSession, Constants DEF SessionType
  <2>4. UNCHANGED <<persistent, active, uid, tag, file, data, asked, kept>>
        /\ mem' = [mem EXCEPT ![p].sess[active[p]] = new]
    BY <1>4 DEF Snapshot, SetSession
  <2>5. /\ Counted(mem[p])' /\ Counted(data)' /\ mem' \in [Procs -> StoreType]
        /\ Held(p)' = new /\ mem'[p].forks = mem[p].forks
        /\ \A q \in Procs \ {p} : mem'[q] = mem[q]
    <3> HIDE DEF new
    <3> QED
      BY <2>1, <2>2, <2>3, <2>4, HeldSession, HeldChanges
  <2> HIDE DEF new
  <2>6. TypeOK' /\ Others(p)
    BY <1>4, <2>4, <2>5 DEF Snapshot, Go, Save, StoreInv, TypeOK, Locations, Others
  <2>7. Placed(p)'
    BY <1>4, <2>1, <2>2, <2>4, <2>5 DEF Snapshot, Go, StoreInv, TypeOK, Placed
  <2> QED
    BY <2>4, <2>5, <2>6, <2>7, OneMoves
<1>5. CASE SnapshotFiles(p)
  <2>1. Counted(mem[p])' /\ Counted(data)'
    BY <1>5 DEF SnapshotFiles, StoreInv, Counted
  <2>2. TypeOK' /\ Others(p)
    BY <1>5 DEF SnapshotFiles, Go, Save, StoreInv, TypeOK, Locations, Others
  <2>3. Placed(p)'
    BY <1>5 DEF SnapshotFiles, Idle, Go, StoreInv, TypeOK, Placed, Held
  <2> QED
    BY <1>5, <2>1, <2>2, <2>3, OneMoves DEF SnapshotFiles
<1>6. CASE EndRun(p)
  <2>1. active[p] <= mem[p].forks /\ at[p] = "answer" /\ at' = [at EXCEPT ![p] = "ready"]
    BY <1>6 DEF EndRun, Idle, Go, StoreInv, Placed
  <2>2. UNCHANGED <<persistent, active, uid, tag, file, data, asked, kept>>
    BY <1>6 DEF EndRun
  <2>3. CASE SetState(p) /\ Save(p)
    <3>1. PICK new \in SessionType :
            /\ mem' = [mem EXCEPT ![p].sess[active[p]] = new]
            /\ new.turns = Held(p).turns /\ new.snaps = Held(p).snaps
      BY <2>1, <2>3, StateSet
    <3>2. /\ Counted(mem[p])' /\ Counted(data)' /\ mem' \in [Procs -> StoreType]
          /\ mem'[p].forks = mem[p].forks
          /\ \A q \in Procs \ {p} : mem'[q] = mem[q]
      <4>1. new.turns <= asked /\ \A v \in Uids : v > new.turns => new.snaps[v] = NoQuestion
        BY <3>1, HeldSession
      <4>2. UNCHANGED <<active, uid, asked, data>>
        BY <2>2
      <4> QED
        BY <2>1, <2>2, <3>1, <4>1, <4>2, HeldChanges
    <3>3. TypeOK' /\ Others(p) /\ Placed(p)'
      BY <2>1, <2>2, <2>3, <3>2
      DEF Save, StoreInv, TypeOK, Locations, Others, Placed
    <3> QED
      BY <2>2, <3>2, <3>3, OneMoves
  <2>4. CASE UNCHANGED <<mem, saving>>
    <3>1. TypeOK' /\ Others(p) /\ Placed(p)'
      BY <2>1, <2>2, <2>4 DEF StoreInv, TypeOK, Locations, Others, Placed
    <3>2. Counted(mem[p])' /\ Counted(data)'
      BY <2>2, <2>4 DEF StoreInv, Counted
    <3> QED
      BY <2>2, <3>1, <3>2, OneMoves
  <2> QED
    BY <1>6, <2>3, <2>4 DEF EndRun
<1>7. ASSUME NEW u \in Uids, Rewind(p, u) PROVE StoreInv'
  <2> DEFINE new == [Held(p) EXCEPT !.said = Held(p).snaps[u]]
  <2>1. active[p] <= mem[p].forks /\ at[p] = "ready"
    BY <1>7 DEF Rewind, Idle, StoreInv, Placed
  <2>2. new \in SessionType /\ new.turns = Held(p).turns /\ new.snaps = Held(p).snaps
    BY HeldSession DEF SessionType
  <2>3. UNCHANGED <<at, persistent, active, uid, tag, file, data, asked, kept>>
        /\ mem' = [mem EXCEPT ![p].sess[active[p]] = new]
    BY <1>7 DEF Rewind, SetSession
  <2> HIDE DEF new
  <2>4. /\ Counted(mem[p])' /\ Counted(data)' /\ mem' \in [Procs -> StoreType]
        /\ mem'[p].forks = mem[p].forks
        /\ \A q \in Procs \ {p} : mem'[q] = mem[q]
    <3>1. new.turns <= asked /\ \A v \in Uids : v > new.turns => new.snaps[v] = NoQuestion
      BY <2>2, HeldSession
    <3>2. UNCHANGED <<active, uid, asked, data>>
      BY <2>3
    <3> QED
      BY <2>1, <2>2, <2>3, <3>1, <3>2, HeldChanges
  <2>5. TypeOK' /\ Others(p) /\ Placed(p)'
    BY <1>7, <2>1, <2>3, <2>4
    DEF Rewind, Save, StoreInv, TypeOK, Locations, Others, Placed
  <2> QED
    BY <2>3, <2>4, <2>5, OneMoves
<1> QED
  BY <1>1, <1>2, <1>3, <1>4, <1>5, <1>6, <1>7

(* Every step that writes the file or ends a process.                      *)
LEMMA FileStep ==
  ASSUME StoreInv, NEW p \in Procs, OpenStore(p) \/ WriteStore(p) \/ Crash(p)
  PROVE  StoreInv'
<1>1. Counted(EmptyStore) /\ EmptyStore \in StoreType
  BY EmptyCounted, Constants DEF StoreInv, TypeOK
<1>2. CASE OpenStore(p) \/ WriteStore(p)
  <2>1. UNCHANGED <<mem, persistent, active, uid, tag, asked>>
    BY <1>2 DEF OpenStore, WriteStore
  <2>2. at' = at \/ (at[p] = "answer" /\ at' = [at EXCEPT ![p] = "ready"])
    BY <1>2 DEF OpenStore, WriteStore, SaveFailed, Go, StoreInv, TypeOK
  <2>3. data' \in {data, EmptyStore, mem[p]} /\ saving' \in [Procs -> {"no", "open", "write"}]
    BY <1>2 DEF OpenStore, WriteStore, SaveFailed, Saved, StoreInv, TypeOK
  <2>4. file' \in {"absent", "empty", "torn", "whole"} /\ kept' \subseteq Sessions
    BY <1>2 DEF OpenStore, WriteStore, StoreInv, TypeOK
  <2>5. Counted(mem[p])' /\ Counted(data)'
    BY <1>1, <2>1, <2>3 DEF StoreInv, Counted
  <2>6. TypeOK' /\ Others(p)
    BY <1>1, <2>1, <2>2, <2>3, <2>4 DEF StoreInv, TypeOK, Locations, Others
  <2>7. Placed(p)'
    BY <2>1, <2>2 DEF StoreInv, TypeOK, Placed, Held
  <2> QED
    BY <2>1, <2>5, <2>6, <2>7, OneMoves
<1>3. CASE Crash(p)
  <2>1. mem'[p] = EmptyStore /\ data' \in {data, EmptyStore} /\ UNCHANGED asked
    BY <1>3 DEF Crash, StoreInv, TypeOK
  <2>2. Counted(mem[p])' /\ Counted(data)'
    BY <1>1, <2>1 DEF StoreInv, Counted
  <2>3. TypeOK' /\ Others(p)
    BY <1>1, <1>3, <2>1, Constants
    DEF Crash, Go, Saved, StoreInv, TypeOK, Locations, Others
  <2>4. Placed(p)'
    BY <1>3 DEF Crash, Go, StoreInv, TypeOK, Placed
  <2> QED
    BY <2>1, <2>2, <2>3, <2>4, OneMoves
<1> QED
  BY <1>2, <1>3

(* Every process starts without a store and away from any session.         *)
LEMMA InitStoreInv == Init => StoreInv
<1> SUFFICES ASSUME Init PROVE StoreInv
  OBVIOUS
<1>1. asked = 0 /\ 0 \in 0..MaxAsked /\ EmptyStore \in StoreType /\ Base \in Sessions
  BY Constants DEF Init
<1>2. Counted(EmptyStore)
  BY <1>1, EmptyCounted
<1>3. TypeOK
  BY <1>1, Constants DEF Init, TypeOK, Locations
<1>4. \A p \in Procs : Counted(mem[p]) /\ Placed(p)
  BY <1>2 DEF Init, Placed
<1> QED
  BY <1>2, <1>3, <1>4 DEF Init, StoreInv

(* Every step keeps the invariant.                                         *)
LEMMA StoreStep == StoreInv /\ [Next]_vars => StoreInv'
<1> SUFFICES ASSUME StoreInv, [Next]_vars PROVE StoreInv'
  OBVIOUS
<1>1. CASE Next
  BY <1>1, StartStep, RunStep, FileStep DEF Next, Access
<1>2. CASE UNCHANGED vars
  BY <1>2 DEF vars, procVars, StoreInv, TypeOK, Counted, Placed, Held
<1> QED
  BY <1>1, <1>2

-----------------------------------------------------------------------------
(* The theorems.                                                           *)

(* The invariant holds in every reachable state.                           *)
THEOREM StoreCorrect == Spec => []StoreInv
BY InitStoreInv, StoreStep, PTL DEF Spec

(* Every variable keeps its type whatever crashes, fails or is shared.     *)
THEOREM TypeCorrect == Spec => []TypeOK
<1>1. StoreInv => TypeOK
  BY DEF StoreInv
<1> QED
  BY <1>1, StoreCorrect, PTL

(* A fork never lands on a session that is already there: the counters are *)
(* saved and loaded with the sessions (NewForkID, Clone, loadLocked).      *)
THEOREM ForksAreNew == Spec => []ForkIsNew
<1>1. StoreInv => ForkIsNew
  BY DEF StoreInv, Placed, ForkIsNew
<1> QED
  BY <1>1, StoreCorrect, PTL

(* A checkpoint never replaces an earlier one of the same user message ID, *)
(* over rewinds, failures and restarts (SetState, Snapshot, Rewind).       *)
THEOREM CheckpointsAreNew == Spec => []CheckpointIsNew
<1>1. StoreInv => CheckpointIsNew
  BY DEF StoreInv, Placed, CheckpointIsNew
<1> QED
  BY <1>1, StoreCorrect, PTL
=============================================================================
