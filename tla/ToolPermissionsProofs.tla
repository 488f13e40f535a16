------------------------ MODULE ToolPermissionsProofs ------------------------
(***************************************************************************)
(* ToolPermissions keeps its types, lets nothing run that a hook, a rule   *)
(* or the callback denied, and keeps memory and policy file alike, for     *)
(* every number of executors, racing calls and updates.  The invariant     *)
(* says who holds the lock of an executor, what a call has been granted,   *)
(* that memory is what the updates so far say, and that a policy file      *)
(* with a single writer follows its memory.                                *)
(***************************************************************************)
EXTENDS ToolPermissions, WellFoundedInduction, TLAPS

Saving == {"truncate", "write"}
Applying == Saving \union {"update"}

\* A call that rewrites a file, and no other, holds the lock of its executor.
LockInv ==
  /\ \A c \in Calls : call[c].pc \in Saving <=> holder[Owner[c]] = c
  /\ \A e \in Executors : holder[e] # None => Owner[holder[e]] = e
  /\ \A c \in Calls :
       call[c].pc \in Saving =>
         call[c].update.to \in Files /\ <<Owner[c], call[c].update.to>> \in writers

\* Where a call stands says whether anything has denied it, and its tool is
\* executed only at the end of the way.
Judged(c) ==
  /\ call[c].pc \in {"hooks", "policy", "callback", "calling"} => granted[c]
  /\ call[c].pc \in Applying => /\ call[c].after \in {"denied", "policy", "calling"}
                                /\ granted[c] <=> call[c].after # "denied"
  /\ call[c].pc = "denied" => ~granted[c]
  /\ ran[c] > 0 => granted[c] /\ call[c].pc \in {"calling", "ok", "error"}
  /\ call[c].pc = "calling" => ran[c] <= call[c].tries
  /\ call[c].pc # "calling" => call[c].tries = 0

\* Memory is what the updates given so far say, the last one that matters first.
Remembered(e) ==
  /\ mem[e].mode = ModeSaid(e)
  /\ \A t \in Tools : mem[e].rules[t] = RuleSaid(e, t)

\* Memory m of an executor with option o decides as the policy p of its file.
Agree(m, p, o) ==
  /\ m.rules = p.rules
  /\ m.mode = Later(o, p.mode) \/ (m.mode = None /\ p.mode = None)

\* The file of its only writer agrees with memory, or will once it is rewritten.
Persisted(e, f) ==
  writers \subseteq {<<e, f>>} =>
    /\ \A g \in Files \ {f} : file[g] = Empty
    /\ holder[e] = None /\ file[f] # Torn => Agree(mem[e], file[f], option[e])
    /\ \A c \in Calls : holder[e] = c => Agree(mem[e], call[c].save, option[e])

PermInv ==
  /\ TypeOK
  /\ said \in [Executors -> Seq(Update)]
  /\ LockInv
  /\ \A c \in Calls : Judged(c)
  /\ \A e \in Executors : Remembered(e)
  /\ \A e \in Executors, f \in Files : Persisted(e, f)

-----------------------------------------------------------------------------
(* Facts about numbers, updates and policies.                              *)

(* A nonempty set of natural numbers has a least element.                  *)
LEMMA LeastOfSet ==
  ASSUME NEW S, S \subseteq Nat, S # {}
  PROVE  \E x \in S : \A y \in S : x <= y
<1>1. PICK x \in S : \A y \in S : ~(<<y, x>> \in OpToRel(<, Nat))
  BY NatLessThanWellFounded, WFMin
<1>2. \A y \in S : ~(y < x)
  BY <1>1 DEF OpToRel
<1> QED
  BY <1>2

(* LastOf is the last of some positions of a sequence.                     *)
LEMMA LastOfIsLast ==
  ASSUME NEW n \in Nat, NEW I, I \subseteq 1..n, I # {}
  PROVE  LastOf(I) \in I /\ \A j \in I : j <= LastOf(I)
<1> DEFINE above == {k \in Nat : \A i \in I : i <= k}
<1>1. n \in above
  OBVIOUS
<1>2. PICK x \in above : \A y \in above : x <= y
  BY <1>1, LeastOfSet
<1>3. x \in I
  <2> SUFFICES ASSUME x \notin I PROVE FALSE
    OBVIOUS
  <2>1. \A i \in I : i \in Nat /\ 1 <= i /\ i < x
    BY <1>2
  <2>2. x \in Nat /\ x > 0
    <3>1. PICK i \in I : TRUE
      OBVIOUS
    <3> QED
      BY <2>1, <3>1
  <2>3. x - 1 \in above
    BY <2>1, <2>2
  <2> QED
    BY <2>2, <2>3, <1>2
<1>4. \E i \in I : \A j \in I : j <= i
  BY <1>2, <1>3
<1> QED
  BY <1>4 DEF LastOf

(* A position after all others is the last.                                *)
LEMMA LastOfGrown ==
  ASSUME NEW n \in Nat, NEW I, I \subseteq 1..n
  PROVE  LastOf(I \union {n + 1}) = n + 1
<1> DEFINE J == I \union {n + 1}
<1>1. n + 1 \in Nat /\ J \subseteq 1..(n + 1) /\ n + 1 \in J
  OBVIOUS
<1> HIDE DEF J
<1>2. LastOf(J) \in J /\ \A j \in J : j <= LastOf(J)
  BY <1>1, LastOfIsLast
<1>3. LastOf(J) = n + 1
  <2> DEFINE last == LastOf(J)
  <2>1. last \in 1..(n + 1) /\ n + 1 <= last
    BY <1>1, <1>2
  <2> HIDE DEF last
  <2> QED
    BY <2>1 DEF last
<1> QED
  BY <1>3 DEF J

(* The constants and the helpers of the model have the types one expects.  *)
LEMMA Constants ==
  /\ NoUpdate \in Update /\ Updates \union {NoUpdate} \subseteq Update
  /\ Empty \in Policy /\ Torn \in Policy /\ Empty # Torn
  /\ (CHOOSE t \in Tools : TRUE) \in Tools
  /\ NoUpdate.type = "addRules" /\ NoUpdate.to = "session"
<1>1. NoUpdate \in Update /\ Updates \subseteq Update
  BY ToolPermissionsAssumption
     DEF NoUpdate, Update, UpdateTypes, Behaviors, Destinations, Files
<1>2. Empty \in Policy /\ Torn \in Policy /\ Empty # Torn
  BY DEF Empty, Torn, NoRules, Policy, None
<1> QED
  BY <1>1, <1>2, ToolPermissionsAssumption DEF NoUpdate

(* What an update makes of a policy.                                       *)
LEMMA Applied ==
  ASSUME NEW pol \in Policy, NEW up \in Update
  PROVE  /\ applyUpdate(pol, up) \in Policy
         /\ applyUpdate(pol, up).mode = IF up.type = "setMode" THEN up.mode ELSE pol.mode
         /\ \A t \in Tools : applyUpdate(pol, up).rules[t] =
              IF Touches(up, t)
              THEN IF t \in up.tools /\ up.type # "removeRules" THEN up.behavior ELSE None
              ELSE pol.rules[t]
<1> DEFINE new == applyUpdate(pol, up)
<1> USE DEF Policy, Update, Touches
<1>1. CASE up.type = "setMode"
  <2>1. new = [pol EXCEPT !.mode = up.mode]
    BY <1>1 DEF applyUpdate
  <2> QED
    BY <1>1, <2>1
<1>2. CASE up.type = "addRules"
  <2>1. new = [pol EXCEPT !.rules =
                 [t \in Tools |-> IF t \in up.tools THEN up.behavior ELSE pol.rules[t]]]
    BY <1>2 DEF applyUpdate
  <2> QED
    BY <1>2, <2>1
<1>3. CASE up.type = "replaceRules"
  <2>1. new = [pol EXCEPT !.rules =
                 [t \in Tools |-> IF t \in up.tools THEN up.behavior ELSE None]]
    BY <1>3 DEF applyUpdate
  <2> QED
    BY <1>3, <2>1
<1>4. CASE up.type = "removeRules"
  <2>1. new = [pol EXCEPT !.rules =
                 [t \in Tools |-> IF t \in up.tools THEN None ELSE pol.rules[t]]]
    BY <1>4 DEF applyUpdate
  <2> QED
    BY <1>4, <2>1
<1> QED
  BY <1>1, <1>2, <1>3, <1>4 DEF UpdateTypes

(* Two policies that agree still agree after the same update.              *)
LEMMA AgreeAfterUpdate ==
  ASSUME NEW m \in Policy, NEW p \in Policy, NEW o, NEW up \in Update, Agree(m, p, o)
  PROVE  Agree(applyUpdate(m, up), applyUpdate(p, up), o)
<1>1. m.rules = p.rules
  BY DEF Agree
<1>2. \A t \in Tools : applyUpdate(m, up).rules[t] = applyUpdate(p, up).rules[t]
  BY <1>1, Applied
<1>3. applyUpdate(m, up).rules = applyUpdate(p, up).rules
  BY <1>2, Applied DEF Policy
<1> QED
  BY <1>3, Applied DEF Agree, Later

(* A new executor is made from the only file that is not empty.            *)
LEMMA NewFromOneFile ==
  ASSUME file \in [Files -> Policy], NEW f \in Files, file[f] # Torn,
         \A g \in Files \ {f} : file[g] = Empty,
         NEW o \in Modes \union {None}
  PROVE  NewExecutor(file, o) = [mode |-> Later(o, file[f].mode), rules |-> file[f].rules]
<1>1. Torn \notin {file[g] : g \in Files}
  BY Constants
<1>2. LoadMerged(file).mode = file[f].mode
  BY DEF LoadMerged, Later, Empty, Files, None
<1>3. \A t \in Tools : LoadMerged(file).rules[t] = file[f].rules[t]
  BY DEF LoadMerged, Later, Empty, NoRules, Files, None
<1>4. LoadMerged(file) = [mode |-> file[f].mode, rules |-> file[f].rules]
  BY <1>2, <1>3 DEF LoadMerged, Policy
<1> QED
  BY <1>1, <1>4 DEF NewExecutor

(* A new executor has a policy, whatever is in the files.                  *)
LEMMA NewIsPolicy ==
  ASSUME file \in [Files -> Policy], NEW o \in Modes \union {None}
  PROVE  NewExecutor(file, o) \in Policy
<1>1. LoadMerged(file) \in Policy
  BY DEF LoadMerged, Later, Files, Policy
<1> QED
  BY <1>1, Constants DEF NewExecutor, Policy, Later

(* One more update decides the mode if it sets it, and a rule if it touches *)
(* it; otherwise what was said before it still holds.                      *)
LEMMA SaidGrows ==
  ASSUME said \in [Executors -> Seq(Update)], NEW e \in Executors, NEW up \in Update,
         said' = [said EXCEPT ![e] = Append(@, up)], base' = base
  PROVE  /\ said' \in [Executors -> Seq(Update)]
         /\ ModeSaid(e)' = IF up.type = "setMode" THEN up.mode ELSE ModeSaid(e)
         /\ \A t \in Tools : RuleSaid(e, t)' =
              IF Touches(up, t)
              THEN IF t \in up.tools /\ up.type # "removeRules" THEN up.behavior ELSE None
              ELSE RuleSaid(e, t)
         /\ \A d \in Executors \ {e} :
              ModeSaid(d)' = ModeSaid(d) /\ \A t \in Tools : RuleSaid(d, t)' = RuleSaid(d, t)
<1> DEFINE n == Len(said[e])
           Modal == {i \in DOMAIN said[e] : said[e][i].type = "setMode"}
           Touching(t) == {i \in DOMAIN said[e] : Touches(said[e][i], t)}
<1>1. /\ said' \in [Executors -> Seq(Update)]
      /\ \A d \in Executors \ {e} : said'[d] = said[d]
      /\ said'[e] = Append(said[e], up)
  OBVIOUS
<1>2. n \in Nat /\ DOMAIN said[e] = 1..n /\ DOMAIN said'[e] = 1..(n + 1)
  BY <1>1
<1>3. said'[e][n + 1] = up /\ \A i \in 1..n : said'[e][i] = said[e][i]
  BY <1>1, <1>2
<1>4. ModeSaid(e)' = IF up.type = "setMode" THEN up.mode ELSE ModeSaid(e)
  <2>1. Modal \subseteq 1..n
    BY <1>2
  <2>2. CASE up.type = "setMode"
    <3>1. Modal' = Modal \union {n + 1}
      BY <1>2, <1>3, <2>2
    <3>2. LastOf(Modal') = n + 1
      BY <3>1, <2>1, <1>2, LastOfGrown
    <3> QED
      BY <3>1, <3>2, <2>2, <1>3 DEF ModeSaid
  <2>3. CASE up.type # "setMode"
    <3>1. Modal' = Modal
      BY <1>2, <1>3, <2>3
    <3>2. Modal # {} => LastOf(Modal) \in 1..n
      BY <2>1, <1>2, LastOfIsLast
    <3> QED
      BY <3>1, <3>2, <2>3, <1>3 DEF ModeSaid
  <2> QED
    BY <2>2, <2>3
<1>5. ASSUME NEW t \in Tools
      PROVE  RuleSaid(e, t)' =
               IF Touches(up, t)
               THEN IF t \in up.tools /\ up.type # "removeRules" THEN up.behavior ELSE None
               ELSE RuleSaid(e, t)
  <2>1. Touching(t) \subseteq 1..n
    BY <1>2
  <2>2. CASE Touches(up, t)
    <3>1. Touching(t)' = Touching(t) \union {n + 1}
      BY <1>2, <1>3, <2>2
    <3>2. LastOf(Touching(t)') = n + 1
      BY <3>1, <2>1, <1>2, LastOfGrown
    <3> QED
      BY <3>1, <3>2, <2>2, <1>3 DEF RuleSaid
  <2>3. CASE ~Touches(up, t)
    <3>1. Touching(t)' = Touching(t)
      BY <1>2, <1>3, <2>3
    <3>2. Touching(t) # {} => LastOf(Touching(t)) \in 1..n
      BY <2>1, <1>2, LastOfIsLast
    <3> QED
      BY <3>1, <3>2, <2>3, <1>3 DEF RuleSaid
  <2> QED
    BY <2>2, <2>3
<1>6. \A d \in Executors \ {e} :
        ModeSaid(d)' = ModeSaid(d) /\ \A t \in Tools : RuleSaid(d, t)' = RuleSaid(d, t)
  BY <1>1 DEF ModeSaid, RuleSaid
<1> QED
  BY <1>1, <1>4, <1>5, <1>6

-----------------------------------------------------------------------------
(* Steps of a call that leave policies and files alone.                    *)

CallRecord == [pc : Final \union Pending, tool : Tools, update : Updates \union {NoUpdate},
               after : Final \union Pending, save : Policy, tries : 0..2]

\* Only call c may have moved.
OnlyMoves(c) ==
  \A d \in Calls \ {c} : call'[d] = call[d] /\ ran'[d] = ran[d] /\ granted'[d] = granted[d]

(* What the invariant says of one call.                                    *)
LEMMA CallFacts ==
  ASSUME PermInv, NEW c \in Calls
  PROVE  /\ call \in [Calls -> CallRecord] /\ call[c] \in CallRecord
         /\ ran[c] \in 0..3 /\ granted[c] \in BOOLEAN /\ Owner[c] \in Executors
         /\ Judged(c)
         /\ call[c].pc \notin {"calling", "ok", "error"} => ran[c] = 0
<1>1. call \in [Calls -> CallRecord] /\ ran \in [Calls -> 0..3] /\ granted \in [Calls -> BOOLEAN]
  BY DEF PermInv, TypeOK, CallRecord
<1>2. ran[c] \in 0..3 /\ granted[c] \in BOOLEAN /\ call[c] \in CallRecord
  BY <1>1
<1>3. Judged(c)
  BY DEF PermInv
<1>4. call[c].pc \notin {"calling", "ok", "error"} => ~(ran[c] > 0)
  BY <1>3 DEF Judged
<1> QED
  BY <1>1, <1>2, <1>3, <1>4, ToolPermissionsAssumption

(* A goroutine that goes on somewhere is there, with nothing to apply.     *)
LEMMA GoesOn ==
  ASSUME TypeOK, NEW c \in Calls, NEW pc \in Final \union Pending, Goes(c, pc)
  PROVE  /\ call' \in [Calls -> CallRecord]
         /\ call'[c].pc = pc /\ call'[c].tries = 0
         /\ \A d \in Calls \ {c} : call'[d] = call[d]
<1>1. call \in [Calls -> CallRecord] /\ call[c].tool \in Tools
  BY DEF TypeOK, CallRecord
<1>2. Idle \in CallRecord /\ Idle.tries = 0
  BY Constants DEF Idle, CallRecord, Final
<1>3. [Idle EXCEPT !.pc = pc, !.tool = call[c].tool] \in CallRecord
  BY <1>1, <1>2 DEF CallRecord
<1> QED
  BY <1>1, <1>2, <1>3 DEF Goes, CallRecord

(* A call before its tool either goes on or has an update to apply first.  *)
LEMMA GoesOnOrApplies ==
  ASSUME TypeOK, NEW c \in Calls, NEW up \in Updates \union {NoUpdate},
         NEW pc \in Final \union Pending, Applies(c, up, pc)
  PROVE  /\ call' \in [Calls -> CallRecord] /\ left' \in 0..MaxUpdates
         /\ \/ call'[c].pc = pc /\ call'[c].tries = 0
            \/ /\ call'[c].pc = "update" /\ call'[c].after = pc
               /\ call'[c].tries = call[c].tries
         /\ \A d \in Calls \ {c} : call'[d] = call[d]
<1>1. CASE up = NoUpdate /\ Goes(c, pc) /\ UNCHANGED left
  BY <1>1, GoesOn DEF TypeOK
<1>2. CASE /\ up # NoUpdate /\ left > 0
           /\ left' = left - 1
           /\ call' = [call EXCEPT ![c].pc = "update", ![c].update = up, ![c].after = pc]
  <2>1. left' \in 0..MaxUpdates
    BY <1>2, ToolPermissionsAssumption DEF TypeOK
  <2>2. call \in [Calls -> CallRecord]
    BY DEF TypeOK, CallRecord
  <2> QED
    <3>1. [call[c] EXCEPT !.pc = "update", !.update = up, !.after = pc] \in CallRecord
      BY <2>2 DEF CallRecord, Pending
    <3>2. /\ call'[c] = [call[c] EXCEPT !.pc = "update", !.update = up, !.after = pc]
          /\ \A d \in Calls \ {c} : call'[d] = call[d]
          /\ DOMAIN call' = Calls /\ call' = [d \in Calls |-> call'[d]]
      BY <1>2, <2>2
    <3>3. call' \in [Calls -> CallRecord]
      BY <2>2, <3>1, <3>2
    <3>4. call'[c].pc = "update" /\ call'[c].after = pc /\ call'[c].tries = call[c].tries
      BY <2>2, <3>2 DEF CallRecord
    <3> QED
      BY <2>1, <3>2, <3>3, <3>4
<1> QED
  BY <1>1, <1>2 DEF Applies

(* When a call that saves nothing moves, lock, memory and files stand.     *)
LEMMA CallMoves ==
  ASSUME PermInv, NEW c \in Calls, UNCHANGED <<policy, history>>, OnlyMoves(c),
         call[c].pc \notin Saving, call'[c].pc \notin Saving, TypeOK', Judged(c)'
  PROVE  PermInv'
<1>1. said' \in [Executors -> Seq(Update)]
  BY DEF PermInv, history
<1>2. \A d \in Calls : call'[d].pc \in Saving => call'[d] = call[d]
  BY DEF OnlyMoves
<1>3. \A d \in Calls : call[d].pc \in Saving => call'[d] = call[d]
  BY DEF OnlyMoves
<1>4. LockInv'
  BY <1>2, <1>3 DEF PermInv, LockInv, policy, history
<1>5. \A d \in Calls : Judged(d)'
  BY DEF PermInv, Judged, OnlyMoves
<1>6. ASSUME NEW e \in Executors PROVE Remembered(e)'
  <2>1. mem' = mem /\ said' = said /\ base' = base
    BY DEF policy, history
  <2>2. ModeSaid(e)' = ModeSaid(e) /\ \A t \in Tools : RuleSaid(e, t)' = RuleSaid(e, t)
    BY <2>1 DEF ModeSaid, RuleSaid
  <2> QED
    BY <2>1, <2>2 DEF PermInv, Remembered
<1>7. ASSUME NEW e \in Executors, NEW f \in Files PROVE Persisted(e, f)'
  <2>1. Persisted(e, f)
    BY DEF PermInv
  <2>2. \A d \in Calls : holder[e] = d => call'[d] = call[d]
    <3> SUFFICES ASSUME NEW d \in Calls, holder[e] = d PROVE call'[d] = call[d]
      OBVIOUS
    <3>1. Owner[d] = e
      BY ToolPermissionsAssumption DEF PermInv, LockInv
    <3> QED
      BY <3>1, <1>3 DEF PermInv, LockInv
  <2> QED
    BY <2>1, <2>2 DEF Persisted, policy, history
<1> QED
  BY <1>1, <1>4, <1>5, <1>6, <1>7 DEF PermInv

(* The update that hooks decide on together is one of those they returned. *)
LEMMA LastUpdateIsAnUpdate ==
  ASSUME NEW outs \in HookOutputs
  PROVE  /\ LastUpdate(outs) \in Updates \union {NoUpdate}
         /\ AnyDenial(outs) <=> ~(\A i \in DOMAIN outs : ~outs[i].deny)
<1>1. PICK n \in 0..MaxHooks :
        outs \in [1..n -> [deny : BOOLEAN, update : Updates \union {NoUpdate}]]
  BY DEF HookOutputs
<1> DEFINE given == {i \in DOMAIN outs : outs[i].update # NoUpdate}
<1>2. n \in Nat /\ given \subseteq 1..n
  BY <1>1, ToolPermissionsAssumption
<1>3. given # {} => LastOf(given) \in 1..n
  BY <1>2, LastOfIsLast
<1>4. LastUpdate(outs) = IF given = {} THEN NoUpdate ELSE outs[LastOf(given)].update
  BY DEF LastUpdate, LastOf
<1>5. LastUpdate(outs) \in Updates \union {NoUpdate}
  BY <1>1, <1>3, <1>4
<1> QED
  BY <1>5 DEF AnyDenial

-----------------------------------------------------------------------------
(* One lemma per action of a call.                                         *)

(* A request starts afresh, granted so far.                                *)
LEMMA RequestStep ==
  ASSUME PermInv, NEW c \in Calls, NEW t \in Tools, Request(c, t) PROVE PermInv'
<1>1. call' \in [Calls -> CallRecord] /\ call'[c].pc = "hooks" /\ call'[c].tries = 0
  <2>1. Idle \in CallRecord /\ Idle.tries = 0
    BY Constants DEF Idle, CallRecord, Final
  <2>2. call' = [call EXCEPT ![c] = [Idle EXCEPT !.pc = "hooks", !.tool = t]]
    BY DEF Request
  <2> QED
    BY <2>1, <2>2, CallFacts DEF CallRecord, Pending
<1>2. TypeOK'
  BY <1>1 DEF PermInv, TypeOK, Request, CallRecord, policy, history
<1>3. Judged(c)'
  BY <1>1 DEF PermInv, TypeOK, Request, Judged, Applying, Saving
<1>4. OnlyMoves(c)
  BY DEF PermInv, TypeOK, Request, OnlyMoves
<1> QED
  BY <1>1, <1>2, <1>3, <1>4, CallMoves DEF Request, Saving, Final

(* The hooks decide together whether the call goes on.                     *)
LEMMA HooksAnswerStep ==
  ASSUME PermInv, NEW c \in Calls, NEW outs \in HookOutputs, HooksAnswer(c, outs)
  PROVE  PermInv'
<1> DEFINE pc == IF AnyDenial(outs) THEN "denied" ELSE "policy"
<1>1. LastUpdate(outs) \in Updates \union {NoUpdate} /\ pc \in Final \union Pending
  BY LastUpdateIsAnUpdate DEF Final, Pending
<1>2. /\ call' \in [Calls -> CallRecord] /\ left' \in 0..MaxUpdates
      /\ \/ call'[c].pc = pc /\ call'[c].tries = 0
         \/ /\ call'[c].pc = "update" /\ call'[c].after = pc
            /\ call'[c].tries = call[c].tries
      /\ \A d \in Calls \ {c} : call'[d] = call[d]
  BY <1>1, GoesOnOrApplies DEF PermInv, HooksAnswer
<1>3. /\ call[c].pc = "hooks" /\ call[c].tries = 0 /\ ran'[c] = 0
      /\ granted'[c] <=> pc # "denied"
  <2>1. call[c].pc = "hooks" /\ ran' = ran
    BY DEF HooksAnswer
  <2>2. call[c].tries = 0 /\ ran[c] = 0
    BY <2>1, CallFacts DEF Judged
  <2>3. granted'[c] <=> \A i \in DOMAIN outs : ~outs[i].deny
    BY DEF PermInv, TypeOK, HooksAnswer
  <2>4. granted'[c] <=> pc # "denied"
    BY <2>3, LastUpdateIsAnUpdate
  <2> QED
    BY <2>1, <2>2, <2>4
<1>4. granted' \in [Calls -> BOOLEAN]
  BY DEF PermInv, HooksAnswer, TypeOK
<1>5. TypeOK'
  BY <1>2, <1>3, <1>4 DEF PermInv, TypeOK, HooksAnswer, CallRecord, policy, history
<1>6. Judged(c)'
  BY <1>2, <1>3 DEF Judged, Applying, Saving
<1>7. OnlyMoves(c)
  BY <1>2 DEF PermInv, TypeOK, HooksAnswer, OnlyMoves
<1> QED
  BY <1>2, <1>3, <1>5, <1>6, <1>7, CallMoves DEF HooksAnswer, Saving

(* A hook that fails ends the run.                                         *)
LEMMA HooksFailStep ==
  ASSUME PermInv, NEW c \in Calls, HooksFail(c) PROVE PermInv'
<1>1. /\ call' \in [Calls -> CallRecord] /\ call'[c].pc = "aborted" /\ call'[c].tries = 0
      /\ \A d \in Calls \ {c} : call'[d] = call[d]
  BY GoesOn DEF PermInv, HooksFail, Final
<1>2. ran[c] = 0
  BY CallFacts DEF HooksFail
<1>3. TypeOK'
  BY <1>1 DEF PermInv, TypeOK, HooksFail, CallRecord, policy, history
<1>4. Judged(c)'
  BY <1>1, <1>2 DEF HooksFail, Judged, Applying, Saving
<1>5. OnlyMoves(c)
  BY <1>1 DEF HooksFail, OnlyMoves
<1> QED
  BY <1>1, <1>3, <1>4, <1>5, CallMoves DEF HooksFail, Saving

(* The policy in memory decides exactly as what was said about tool and mode. *)
LEMMA EvaluateStep ==
  ASSUME PermInv, NEW c \in Calls, Evaluate(c) PROVE PermInv'
<1> DEFINE t == call[c].tool
           e == Owner[c]
           pc == CASE t \notin Registered -> "error"
                   [] t \in Registered /\ Denies(mem[e], t) -> "denied"
                   [] OTHER -> "callback"
<1>1. t \in Tools /\ e \in Executors
  BY ToolPermissionsAssumption DEF PermInv, TypeOK
<1>2. Denies(mem[e], t) <=> Forbidden(e, t)
  BY <1>1 DEF PermInv, Remembered, Denies, Forbidden
<1>3. /\ call' \in [Calls -> CallRecord] /\ call'[c].pc = pc /\ call'[c].tries = 0
      /\ \A d \in Calls \ {c} : call'[d] = call[d]
  BY GoesOn DEF PermInv, Evaluate, Final, Pending
<1>4. granted[c] /\ ran[c] = 0 /\ call[c].pc = "policy"
  BY CallFacts DEF Evaluate, Judged
<1>5. granted'[c] <=> t \in Registered /\ ~Forbidden(e, t)
  BY <1>4 DEF PermInv, TypeOK, Evaluate
<1>6. granted' \in [Calls -> BOOLEAN]
  BY <1>4 DEF PermInv, TypeOK, Evaluate
<1>7. TypeOK'
  BY <1>3, <1>4, <1>6 DEF PermInv, TypeOK, Evaluate, CallRecord, policy, history
<1>8. Judged(c)'
  BY <1>2, <1>3, <1>4, <1>5 DEF Evaluate, Judged, Applying, Saving
<1>9. OnlyMoves(c)
  BY <1>3 DEF PermInv, TypeOK, Evaluate, OnlyMoves
<1> QED
  BY <1>3, <1>4, <1>7, <1>8, <1>9, CallMoves DEF Evaluate, Saving

(* The callback allows the call, perhaps with an update to apply first.    *)
LEMMA CallbackAllowsStep ==
  ASSUME PermInv, NEW c \in Calls, NEW up \in Updates \union {NoUpdate}, CallbackAllows(c, up)
  PROVE  PermInv'
<1>1. /\ call' \in [Calls -> CallRecord] /\ left' \in 0..MaxUpdates
      /\ \/ call'[c].pc = "calling" /\ call'[c].tries = 0
         \/ /\ call'[c].pc = "update" /\ call'[c].after = "calling"
            /\ call'[c].tries = call[c].tries
      /\ \A d \in Calls \ {c} : call'[d] = call[d]
  BY GoesOnOrApplies DEF PermInv, CallbackAllows, Pending
<1>2. call[c].pc = "callback" /\ call[c].tries = 0 /\ ran[c] = 0 /\ granted[c]
  BY CallFacts DEF CallbackAllows, Judged
<1>3. TypeOK'
  BY <1>1, <1>2 DEF PermInv, TypeOK, CallbackAllows, CallRecord, policy, history
<1>4. Judged(c)'
  BY <1>1, <1>2 DEF CallbackAllows, Judged, Applying, Saving
<1>5. OnlyMoves(c)
  BY <1>1 DEF CallbackAllows, OnlyMoves
<1> QED
  BY <1>1, <1>2, <1>3, <1>4, <1>5, CallMoves DEF CallbackAllows, Saving

(* The callback fails or denies the call.                                  *)
LEMMA CallbackRefusesStep ==
  ASSUME PermInv, NEW c \in Calls, CallbackRefuses(c) PROVE PermInv'
<1>1. call[c].pc = "callback" /\ ran[c] = 0
  BY CallFacts DEF CallbackRefuses
<1>2. /\ call' \in [Calls -> CallRecord] /\ call'[c].tries = 0
      /\ call'[c].pc = "error" \/ (call'[c].pc = "denied" /\ ~granted'[c])
      /\ granted' \in [Calls -> BOOLEAN]
      /\ OnlyMoves(c)
  <2>1. CASE Goes(c, "error") /\ UNCHANGED granted
    BY <2>1, GoesOn DEF PermInv, TypeOK, CallbackRefuses, Final, OnlyMoves
  <2>2. CASE Goes(c, "denied") /\ granted' = [granted EXCEPT ![c] = FALSE]
    BY <2>2, GoesOn DEF PermInv, TypeOK, CallbackRefuses, Final, OnlyMoves
  <2> QED
    BY <2>1, <2>2 DEF CallbackRefuses
<1>3. TypeOK'
  <2>1. /\ mem' = mem /\ option' = option /\ holder' = holder /\ file' = file
        /\ base' = base /\ writers' = writers /\ ran' = ran /\ left' = left
    BY DEF CallbackRefuses, policy, history
  <2>2. \A d \in Calls : call'[d].pc = "ok" => ran'[d] > 0
    BY <1>2, <2>1 DEF PermInv, TypeOK, OnlyMoves
  <2> QED
    BY <1>2, <2>1, <2>2 DEF PermInv, TypeOK, CallRecord
<1>4. Judged(c)'
  BY <1>1, <1>2 DEF CallbackRefuses, Judged, Applying, Saving
<1> QED
  BY <1>1, <1>2, <1>3, <1>4, CallMoves DEF CallbackRefuses, Saving

(* Each attempt may execute the tool once; there are three at most.        *)
LEMMA AttemptStep ==
  ASSUME PermInv, NEW c \in Calls, Attempt(c) PROVE PermInv'
<1>1. /\ call[c].pc = "calling" /\ granted[c] /\ ran[c] \in Nat /\ call[c].tries \in 0..2
      /\ ran[c] <= call[c].tries /\ call \in [Calls -> CallRecord]
  <2>1. call[c].pc = "calling" /\ call[c].tries \in 0..2
    BY CallFacts DEF Attempt, CallRecord
  <2>2. granted[c] /\ ran[c] <= call[c].tries
    BY <2>1, CallFacts DEF Judged
  <2> QED
    BY <2>1, <2>2, CallFacts
<1>2. /\ ran' = ran \/ ran' = [ran EXCEPT ![c] = ran[c] + 1]
      /\ ran' \in [Calls -> 0..3] /\ ran'[c] <= call[c].tries + 1
      /\ \A d \in Calls \ {c} : ran'[d] = ran[d]
  <2>1. ran' = ran \/ ran' = [ran EXCEPT ![c] = ran[c] + 1]
    BY DEF Attempt
  <2>2. ran \in [Calls -> 0..3]
    BY DEF PermInv, TypeOK
  <2>3. ran[c] + 1 \in 0..3 /\ ran[c] + 1 <= call[c].tries + 1 /\ ran[c] <= call[c].tries + 1
    BY <1>1
  <2>4. CASE ran' = ran
    BY <2>2, <2>3, <2>4
  <2>5. CASE ran' = [ran EXCEPT ![c] = ran[c] + 1]
    BY <2>2, <2>3, <2>5
  <2> QED
    BY <2>1, <2>4, <2>5
<1>3. /\ call' \in [Calls -> CallRecord]
      /\ \/ call'[c].pc = "ok" /\ call'[c].tries = 0 /\ ran'[c] > 0
         \/ call'[c].pc = "error" /\ call'[c].tries = 0
         \/ call'[c].pc = "calling" /\ call'[c].tries = call[c].tries + 1
      /\ \A d \in Calls \ {c} : call'[d] = call[d]
  <2>1. CASE Goes(c, "ok") /\ ran' = [ran EXCEPT ![c] = @ + 1]
    <3>1. ran'[c] > 0
      BY <2>1, <1>1 DEF PermInv, TypeOK
    <3> QED
      BY <2>1, <3>1, GoesOn DEF PermInv, Final
  <2>2. CASE Goes(c, "error")
    BY <2>2, GoesOn DEF PermInv, Final
  <2>3. CASE MayRetry(call[c].tries) /\ call' = [call EXCEPT ![c].tries = @ + 1]
    BY <2>3, <1>1 DEF MayRetry, CallRecord
  <2> QED
    BY <2>1, <2>2, <2>3 DEF Attempt
<1>4. TypeOK'
  BY <1>2, <1>3 DEF PermInv, TypeOK, Attempt, CallRecord, policy, history
<1>5. Judged(c)'
  BY <1>1, <1>2, <1>3 DEF Attempt, Judged, Applying, Saving
<1>6. OnlyMoves(c)
  BY <1>2, <1>3 DEF Attempt, OnlyMoves
<1> QED
  BY <1>1, <1>3, <1>4, <1>5, <1>6, CallMoves DEF Attempt, Saving

-----------------------------------------------------------------------------
(* Updates: memory under the lock, then the file.                          *)

(* Memory takes the update, and if it is to be saved the lock is kept.     *)
LEMMA ApplyUpdateStep ==
  ASSUME PermInv, NEW c \in Calls, ApplyUpdate(c) PROVE PermInv'
<1> DEFINE e == Owner[c]
           up == call[c].update
           f == up.to
<1>1. /\ e \in Executors /\ up \in Update /\ call[c] \in CallRecord
      /\ call[c].pc = "update" /\ holder[e] = None /\ mem[e] \in Policy
      /\ call[c].after \in {"denied", "policy", "calling"}
      /\ granted[c] <=> call[c].after # "denied"
      /\ ran[c] = 0 /\ call[c].tries = 0
  <2>1. call[c].pc = "update" /\ holder[e] = None
    BY DEF ApplyUpdate, Free
  <2>2. e \in Executors /\ call[c] \in CallRecord /\ ran[c] = 0
    BY <2>1, CallFacts
  <2>3. up \in Update /\ mem[e] \in Policy
    BY <2>2, Constants DEF CallRecord, PermInv, TypeOK
  <2>4. /\ call[c].after \in {"denied", "policy", "calling"} /\ call[c].tries = 0
        /\ granted[c] <=> call[c].after # "denied"
    BY <2>1, CallFacts DEF Judged, Applying
  <2> QED
    BY <2>1, <2>2, <2>3, <2>4
<1>2. \A d \in Calls : d # None
  BY ToolPermissionsAssumption
<1>3. /\ mem' = [mem EXCEPT ![e] = applyUpdate(@, up)]
      /\ said' = [said EXCEPT ![e] = Append(@, up)] /\ base' = base
      /\ writers' = writers \union {<<e, f>>}
      /\ option' = option /\ file' = file /\ ran' = ran /\ granted' = granted /\ left' = left
  BY DEF ApplyUpdate, InMemory, Told
<1>4. Persists(up) => f \in Files /\ file[f] \in Policy /\ file[f] # Torn
  BY DEF Persists, PermInv, TypeOK
<1>5. /\ call' \in [Calls -> CallRecord] /\ call'[c].tries = 0
      /\ Persists(up) => /\ call'[c].pc = "truncate" /\ call'[c].after = call[c].after
                         /\ call'[c].update = up
                         /\ call'[c].save = applyUpdate(file[f], up)
                         /\ holder' = [holder EXCEPT ![e] = c]
      /\ ~Persists(up) => call'[c].pc = call[c].after /\ holder' = holder
      /\ \A d \in Calls \ {c} : call'[d] = call[d]
  <2>1. CASE Persists(up)
    <3>1. applyUpdate(file[f], up) \in Policy
      BY <1>1, <1>4, <2>1, Applied
    <3>2. call' = [call EXCEPT ![c].pc = "truncate", ![c].save = applyUpdate(file[f], up)]
      BY <2>1 DEF ApplyUpdate
    <3>3. holder' = [holder EXCEPT ![e] = c]
      BY <2>1 DEF ApplyUpdate, Locked
    <3>4. call \in [Calls -> CallRecord]
      BY DEF PermInv, TypeOK, CallRecord
    <3> QED
      BY <1>1, <2>1, <3>1, <3>2, <3>3, <3>4 DEF CallRecord, Pending
  <2>2. CASE ~Persists(up)
    <3>1. Goes(c, call[c].after) /\ holder' = holder
      BY <2>2 DEF ApplyUpdate
    <3> QED
      BY <1>1, <2>2, <3>1, GoesOn DEF PermInv, Final, Pending
  <2> QED
    BY <2>1, <2>2
<1>6. TypeOK'
  <2>1. mem' \in [Executors -> Policy]
    BY <1>1, <1>3, Applied DEF PermInv, TypeOK
  <2>2. holder' \in [Executors -> Calls \union {None}]
    <3>1. holder \in [Executors -> Calls \union {None}]
      BY DEF PermInv, TypeOK
    <3> QED
      BY <1>1, <1>5, <3>1
  <2>3. writers' \subseteq Executors \X Destinations
    BY <1>1, <1>3 DEF PermInv, TypeOK, Update
  <2>4. \A d \in Calls : call'[d].pc = "ok" => ran'[d] > 0
    BY <1>1, <1>3, <1>5 DEF PermInv, TypeOK
  <2> QED
    BY <1>3, <1>5, <2>1, <2>2, <2>3, <2>4 DEF PermInv, TypeOK, CallRecord
<1>7. LockInv'
  <2>1. /\ \A d \in Calls \ {c} : Owner[d] = e => call[d].pc \notin Saving
        /\ call[c].pc \notin Saving
    BY <1>1, <1>2 DEF PermInv, LockInv
  <2>2. CASE Persists(up)
    <3>1. holder'[e] = c /\ \A d \in Executors \ {e} : holder'[d] = holder[d]
      BY <1>1, <1>5, <2>2 DEF PermInv, TypeOK
    <3>2. \A d \in Calls : call'[d].pc \in Saving <=> holder'[Owner[d]] = d
      <4>1. call'[c].pc \in Saving
        BY <1>5, <2>2 DEF Saving
      <4>2. ASSUME NEW d \in Calls \ {c}, Owner[d] = e
            PROVE  call'[d].pc \in Saving <=> holder'[Owner[d]] = d
        BY <4>2, <1>5, <2>1, <3>1
      <4>3. ASSUME NEW d \in Calls, Owner[d] # e
            PROVE  call'[d].pc \in Saving <=> holder'[Owner[d]] = d
        BY <4>3, <1>5, <3>1, ToolPermissionsAssumption DEF PermInv, LockInv
      <4> QED
        BY <4>1, <4>2, <4>3, <3>1
    <3>3. \A d \in Executors : holder'[d] # None => Owner[holder'[d]] = d
      BY <3>1 DEF PermInv, LockInv
    <3>4. ASSUME NEW d \in Calls, call'[d].pc \in Saving
          PROVE  call'[d].update.to \in Files /\ <<Owner[d], call'[d].update.to>> \in writers'
      BY <3>4, <1>3, <1>4, <1>5, <2>2 DEF PermInv, LockInv
    <3> QED
      BY <3>2, <3>3, <3>4 DEF LockInv
  <2>3. CASE ~Persists(up)
    <3>1. holder' = holder /\ call'[c].pc \notin Saving
      BY <1>1, <1>5, <2>3 DEF Saving
    <3>2. \A d \in Calls : call'[d].pc \in Saving <=> holder'[Owner[d]] = d
      BY <1>5, <2>1, <3>1 DEF PermInv, LockInv
    <3>3. ASSUME NEW d \in Calls, call'[d].pc \in Saving
          PROVE  call'[d].update.to \in Files /\ <<Owner[d], call'[d].update.to>> \in writers'
      BY <3>3, <1>3, <1>5, <3>1 DEF PermInv, LockInv
    <3> QED
      BY <3>1, <3>2, <3>3 DEF PermInv, LockInv
  <2> QED
    BY <2>2, <2>3
<1>8. \A d \in Calls : Judged(d)'
  <2>1. Judged(c)'
    BY <1>1, <1>3, <1>5 DEF Judged, Applying, Saving
  <2>2. \A d \in Calls \ {c} : Judged(d)'
    BY <1>3, <1>5 DEF PermInv, Judged
  <2> QED
    BY <2>1, <2>2
<1>9. /\ said' \in [Executors -> Seq(Update)]
      /\ \A d \in Executors : Remembered(d)'
  <2>1. /\ said' \in [Executors -> Seq(Update)]
        /\ ModeSaid(e)' = IF up.type = "setMode" THEN up.mode ELSE ModeSaid(e)
        /\ \A t \in Tools : RuleSaid(e, t)' =
              IF Touches(up, t)
              THEN IF t \in up.tools /\ up.type # "removeRules" THEN up.behavior ELSE None
              ELSE RuleSaid(e, t)
        /\ \A d \in Executors \ {e} :
              ModeSaid(d)' = ModeSaid(d) /\ \A t \in Tools : RuleSaid(d, t)' = RuleSaid(d, t)
    BY <1>1, <1>3, SaidGrows DEF PermInv
  <2>2. mem'[e] = applyUpdate(mem[e], up) /\ \A d \in Executors \ {e} : mem'[d] = mem[d]
    BY <1>1, <1>3 DEF PermInv, TypeOK
  <2>3. Remembered(e)'
    <3>1. mem[e].mode = ModeSaid(e) /\ \A t \in Tools : mem[e].rules[t] = RuleSaid(e, t)
      BY <1>1 DEF PermInv, Remembered
    <3>2. mem'[e].mode = ModeSaid(e)'
      BY <1>1, <2>1, <2>2, <3>1, Applied
    <3>3. ASSUME NEW t \in Tools PROVE mem'[e].rules[t] = RuleSaid(e, t)'
      <4> DEFINE rule == IF t \in up.tools /\ up.type # "removeRules" THEN up.behavior ELSE None
      <4>1. RuleSaid(e, t)' = IF Touches(up, t) THEN rule ELSE RuleSaid(e, t)
        BY <2>1
      <4>2. mem'[e].rules[t] = IF Touches(up, t) THEN rule ELSE mem[e].rules[t]
        BY <1>1, <2>2, Applied
      <4>3. mem[e].rules[t] = RuleSaid(e, t)
        BY <3>1
      <4> HIDE DEF rule
      <4> QED
        BY <4>1, <4>2, <4>3
    <3> QED
      BY <3>2, <3>3 DEF Remembered
  <2>4. ASSUME NEW d \in Executors \ {e} PROVE Remembered(d)'
    <3>1. mem[d].mode = ModeSaid(d) /\ \A t \in Tools : mem[d].rules[t] = RuleSaid(d, t)
      BY DEF PermInv, Remembered
    <3>2. /\ mem'[d] = mem[d] /\ ModeSaid(d)' = ModeSaid(d)
          /\ \A t \in Tools : RuleSaid(d, t)' = RuleSaid(d, t)
      BY <2>1, <2>2
    <3> QED
      BY <3>1, <3>2 DEF Remembered
  <2> QED
    BY <2>1, <2>3, <2>4
<1>10. ASSUME NEW d \in Executors, NEW g \in Files, (writers \subseteq {<<d, g>>})'
       PROVE  Persisted(d, g)'
  <2>1. d = e /\ g = f /\ writers \subseteq {<<e, f>>}
    BY <1>3, <1>10
  <2>2. /\ \A h \in Files \ {f} : file[h] = Empty
        /\ file[f] # Torn => Agree(mem[e], file[f], option[e])
    BY <1>1, <1>10, <2>1 DEF PermInv, Persisted
  <2>3. mem'[e] = applyUpdate(mem[e], up) /\ option'[e] = option[e]
    BY <1>1, <1>3 DEF PermInv, TypeOK
  <2>4. CASE file[f] # Torn
    <3>1. Persists(up)
      BY <1>10, <2>1, <2>4 DEF Persists
    <3>2. Agree(applyUpdate(mem[e], up), applyUpdate(file[f], up), option[e])
      BY <1>1, <1>4, <2>2, <2>4, <3>1, AgreeAfterUpdate
    <3>3. holder'[e] = c /\ call'[c].save = applyUpdate(file[f], up)
      BY <1>1, <1>5, <3>1 DEF PermInv, TypeOK
    <3> QED
      BY <1>2, <1>3, <2>1, <2>2, <2>3, <3>2, <3>3 DEF Persisted
  <2>5. CASE file[f] = Torn
    <3>1. holder'[e] = None
      BY <1>1, <1>5, <2>5 DEF Persists
    <3> QED
      BY <1>2, <1>3, <2>1, <2>2, <2>5, <3>1 DEF Persisted
  <2> QED
    BY <2>4, <2>5
<1> QED
  BY <1>6, <1>7, <1>8, <1>9, <1>10 DEF PermInv, Persisted

(* The file of the update is truncated; the lock is still held.            *)
LEMMA TruncateStep ==
  ASSUME PermInv, NEW c \in Calls, Truncate(c) PROVE PermInv'
<1> DEFINE e == Owner[c]
           f == call[c].update.to
<1>1. /\ e \in Executors /\ f \in Files /\ <<e, f>> \in writers
      /\ call[c].pc = "truncate" /\ holder[e] = c /\ c # None
  BY ToolPermissionsAssumption DEF PermInv, LockInv, Truncate, Saving
<1>2. /\ file' = [file EXCEPT ![f] = Torn]
      /\ mem' = mem /\ option' = option /\ holder' = holder /\ ran' = ran
      /\ base' = base /\ said' = said /\ writers' = writers
      /\ granted' = granted /\ left' = left
  BY DEF Truncate, history
<1>3. /\ call' \in [Calls -> CallRecord] /\ call'[c].pc = "write"
      /\ \A d \in Calls : /\ call'[d].update = call[d].update /\ call'[d].save = call[d].save
                           /\ call'[d].after = call[d].after /\ call'[d].tries = call[d].tries
      /\ \A d \in Calls \ {c} : call'[d] = call[d]
  BY DEF PermInv, TypeOK, CallRecord, Pending, Truncate
<1>4. TypeOK'
  <2>1. file' \in [Files -> Policy]
    BY <1>2, Constants DEF PermInv, TypeOK
  <2>2. \A d \in Calls : call'[d].pc = "ok" => ran'[d] > 0
    BY <1>1, <1>2, <1>3 DEF PermInv, TypeOK
  <2> QED
    BY <1>2, <1>3, <2>1, <2>2 DEF PermInv, TypeOK, CallRecord
<1>5. LockInv'
  BY <1>1, <1>2, <1>3 DEF PermInv, LockInv, Saving
<1>6. \A d \in Calls : Judged(d)'
  BY <1>1, <1>2, <1>3 DEF PermInv, Judged, Applying, Saving
<1>7. ASSUME NEW d \in Executors PROVE Remembered(d)'
  <2>1. ModeSaid(d)' = ModeSaid(d) /\ \A t \in Tools : RuleSaid(d, t)' = RuleSaid(d, t)
    BY <1>2 DEF ModeSaid, RuleSaid
  <2> QED
    BY <1>2, <2>1 DEF PermInv, Remembered
<1>8. ASSUME NEW d \in Executors, NEW g \in Files PROVE Persisted(d, g)'
  <2> SUFFICES ASSUME writers \subseteq {<<d, g>>} PROVE Persisted(d, g)'
    BY <1>2 DEF Persisted
  <2>1. d = e /\ g = f
    BY <1>1
  <2>2. /\ \A h \in Files \ {f} : file'[h] = Empty
        /\ \A x \in Calls : holder[e] = x => Agree(mem[e], call[x].save, option[e])
    BY <1>1, <1>2, <2>1 DEF PermInv, TypeOK, Persisted
  <2> QED
    BY <1>1, <1>2, <1>3, <2>1, <2>2 DEF Persisted
<1>9. said' \in [Executors -> Seq(Update)]
  BY <1>2 DEF PermInv
<1> QED
  BY <1>4, <1>5, <1>6, <1>7, <1>8, <1>9 DEF PermInv

(* The file is written and the lock given back.                            *)
LEMMA WriteFileStep ==
  ASSUME PermInv, NEW c \in Calls, WriteFile(c) PROVE PermInv'
<1> DEFINE e == Owner[c]
           f == call[c].update.to
<1>1. /\ e \in Executors /\ f \in Files /\ <<e, f>> \in writers
      /\ call[c].pc = "write" /\ holder[e] = c /\ call[c].save \in Policy
      /\ call[c].after \in {"denied", "policy", "calling"}
      /\ granted[c] <=> call[c].after # "denied"
      /\ ran[c] = 0
  <2>1. call[c].pc = "write"
    BY DEF WriteFile
  <2>2. e \in Executors /\ call[c].save \in Policy /\ ran[c] = 0
    BY <2>1, CallFacts DEF CallRecord
  <2>3. holder[e] = c /\ f \in Files /\ <<e, f>> \in writers
    BY <2>1 DEF PermInv, LockInv, Saving
  <2>4. /\ call[c].after \in {"denied", "policy", "calling"}
        /\ granted[c] <=> call[c].after # "denied"
    BY <2>1, CallFacts DEF Judged, Applying, Saving
  <2> QED
    BY <2>1, <2>2, <2>3, <2>4
<1>2. \A d \in Calls : d # None
  BY ToolPermissionsAssumption
<1>3. /\ file' = [file EXCEPT ![f] = call[c].save]
      /\ holder' = [holder EXCEPT ![e] = None]
      /\ mem' = mem /\ option' = option /\ ran' = ran
      /\ base' = base /\ said' = said /\ writers' = writers
      /\ granted' = granted /\ left' = left
  BY DEF WriteFile, history
<1>4. /\ call' \in [Calls -> CallRecord] /\ call'[c].pc = call[c].after /\ call'[c].tries = 0
      /\ \A d \in Calls \ {c} : call'[d] = call[d]
  BY <1>1, GoesOn DEF PermInv, WriteFile, Final, Pending
<1>5. TypeOK'
  <2>1. file' \in [Files -> Policy] /\ holder' \in [Executors -> Calls \union {None}]
    BY <1>1, <1>3 DEF PermInv, TypeOK
  <2>2. \A d \in Calls : call'[d].pc = "ok" => ran'[d] > 0
    BY <1>1, <1>3, <1>4 DEF PermInv, TypeOK
  <2> QED
    BY <1>3, <1>4, <2>1, <2>2 DEF PermInv, TypeOK, CallRecord
<1>6. LockInv'
  <2>1. holder'[e] = None /\ \A d \in Executors \ {e} : holder'[d] = holder[d]
    BY <1>1, <1>3 DEF PermInv, TypeOK
  <2>2. call'[c].pc \notin Saving
    BY <1>1, <1>4 DEF Saving
  <2>3. \A d \in Calls : call'[d].pc \in Saving <=> holder'[Owner[d]] = d
    <3>1. ASSUME NEW d \in Calls \ {c}, Owner[d] = e
          PROVE  call'[d].pc \notin Saving /\ holder'[Owner[d]] # d
      BY <3>1, <1>1, <1>2, <1>4, <2>1 DEF PermInv, LockInv
    <3>2. ASSUME NEW d \in Calls, Owner[d] # e
          PROVE  call'[d].pc \in Saving <=> holder'[Owner[d]] = d
      BY <3>2, <1>4, <2>1, ToolPermissionsAssumption DEF PermInv, LockInv
    <3> QED
      BY <3>1, <3>2, <2>1, <2>2, <1>2
  <2>4. \A d \in Executors : holder'[d] # None => Owner[holder'[d]] = d
    BY <2>1 DEF PermInv, LockInv
  <2>5. ASSUME NEW d \in Calls, call'[d].pc \in Saving
        PROVE  call'[d].update.to \in Files /\ <<Owner[d], call'[d].update.to>> \in writers'
    BY <2>5, <1>3, <1>4, <2>2 DEF PermInv, LockInv
  <2> QED
    BY <2>3, <2>4, <2>5 DEF LockInv
<1>7. \A d \in Calls : Judged(d)'
  <2>1. Judged(c)'
    BY <1>1, <1>3, <1>4 DEF Judged, Applying, Saving
  <2>2. \A d \in Calls \ {c} : Judged(d)'
    BY <1>3, <1>4 DEF PermInv, Judged
  <2> QED
    BY <2>1, <2>2
<1>8. ASSUME NEW d \in Executors PROVE Remembered(d)'
  <2>1. ModeSaid(d)' = ModeSaid(d) /\ \A t \in Tools : RuleSaid(d, t)' = RuleSaid(d, t)
    BY <1>3 DEF ModeSaid, RuleSaid
  <2> QED
    BY <1>3, <2>1 DEF PermInv, Remembered
<1>9. ASSUME NEW d \in Executors, NEW g \in Files PROVE Persisted(d, g)'
  <2> SUFFICES ASSUME writers \subseteq {<<d, g>>} PROVE Persisted(d, g)'
    BY <1>3 DEF Persisted
  <2>1. d = e /\ g = f
    BY <1>1
  <2>2. Agree(mem[e], call[c].save, option[e]) /\ \A h \in Files \ {f} : file[h] = Empty
    BY <1>1, <2>1 DEF PermInv, Persisted
  <2>3. file'[f] = call[c].save /\ holder'[e] = None /\ \A h \in Files \ {f} : file'[h] = Empty
    BY <1>1, <1>3, <2>2 DEF PermInv, TypeOK
  <2> QED
    BY <1>2, <1>3, <2>1, <2>2, <2>3 DEF Persisted
<1>10. said' \in [Executors -> Seq(Update)]
  BY <1>3 DEF PermInv
<1> QED
  BY <1>5, <1>6, <1>7, <1>8, <1>9, <1>10 DEF PermInv

(* SetPermissionMode is an update of the session, remembered and not saved. *)
LEMMA SetModeStep ==
  ASSUME PermInv, NEW e \in Executors, NEW mode \in Modes, SetMode(e, mode) PROVE PermInv'
<1> DEFINE up == [NoUpdate EXCEPT !.type = "setMode", !.mode = mode]
<1>1. up \in Update /\ up.type = "setMode" /\ up.mode = mode /\ up.to = "session"
  BY Constants DEF Update, UpdateTypes
<1>2. /\ left' = left - 1 /\ left > 0
      /\ option' = [option EXCEPT ![e] = mode] /\ mem' = [mem EXCEPT ![e].mode = mode]
      /\ said' = [said EXCEPT ![e] = Append(@, up)] /\ base' = base
      /\ writers' = writers \union {<<e, "session">>}
      /\ holder' = holder /\ file' = file /\ call' = call /\ ran' = ran /\ granted' = granted
  BY <1>1 DEF SetMode, Told
<1>3. /\ mem' \in [Executors -> Policy] /\ mem'[e].mode = mode /\ mem'[e].rules = mem[e].rules
      /\ \A d \in Executors \ {e} : mem'[d] = mem[d]
  <2>1. mem \in [Executors -> Policy] /\ mem[e] \in Policy
    BY DEF PermInv, TypeOK
  <2>2. /\ [mem[e] EXCEPT !.mode = mode] \in Policy
        /\ [mem[e] EXCEPT !.mode = mode].mode = mode
        /\ [mem[e] EXCEPT !.mode = mode].rules = mem[e].rules
    BY <2>1 DEF Policy
  <2>3. mem' = [mem EXCEPT ![e] = [mem[e] EXCEPT !.mode = mode]]
    BY <1>2, <2>1
  <2> QED
    BY <2>1, <2>2, <2>3
<1>4. TypeOK'
  <2>1. left' \in 0..MaxUpdates
    BY <1>2, ToolPermissionsAssumption DEF PermInv, TypeOK
  <2>2. option' \in [Executors -> Modes \union {None}]
    BY <1>2 DEF PermInv, TypeOK
  <2>3. writers' \subseteq Executors \X Destinations
    BY <1>2 DEF PermInv, TypeOK, Destinations
  <2> QED
    BY <1>2, <1>3, <2>1, <2>2, <2>3 DEF PermInv, TypeOK
<1>5. LockInv'
  BY <1>2 DEF PermInv, LockInv
<1>6. \A c \in Calls : Judged(c)'
  BY <1>2 DEF PermInv, Judged
<1>7. said' \in [Executors -> Seq(Update)] /\ \A d \in Executors : Remembered(d)'
  <2>1. /\ said' \in [Executors -> Seq(Update)]
        /\ ModeSaid(e)' = mode
        /\ \A t \in Tools : RuleSaid(e, t)' = RuleSaid(e, t)
        /\ \A d \in Executors \ {e} :
              ModeSaid(d)' = ModeSaid(d) /\ \A t \in Tools : RuleSaid(d, t)' = RuleSaid(d, t)
    BY <1>1, <1>2, SaidGrows DEF PermInv, Touches
  <2>2. Remembered(e)'
    BY <1>3, <2>1 DEF PermInv, Remembered
  <2>3. \A d \in Executors \ {e} : Remembered(d)'
    BY <1>3, <2>1 DEF PermInv, Remembered
  <2> QED
    BY <2>1, <2>2, <2>3
<1>8. \A d \in Executors, g \in Files : ~(writers' \subseteq {<<d, g>>})
  BY <1>2 DEF Files
<1> QED
  BY <1>4, <1>5, <1>6, <1>7, <1>8 DEF PermInv, Persisted

(* An executor that has just started remembers what it started with.       *)
LEMMA NothingSaid ==
  ASSUME NEW e \in Executors, said[e] = <<>>, base[e] = mem[e] PROVE Remembered(e)
<1>1. {i \in DOMAIN said[e] : said[e][i].type = "setMode"} = {}
  OBVIOUS
<1>2. \A t \in Tools : {i \in DOMAIN said[e] : Touches(said[e][i], t)} = {}
  OBVIOUS
<1> QED
  BY <1>1, <1>2 DEF Remembered, ModeSaid, RuleSaid

(* A new process: its calls are gone, its lock is free, its policy is that  *)
(* of the files; a file it was about to write stays as it is.              *)
LEMMA RestartStep ==
  ASSUME PermInv, NEW e \in Executors, NEW mode \in Modes, Restart(e, mode) PROVE PermInv'
<1>1. /\ option' = [option EXCEPT ![e] = mode]
      /\ mem' = [mem EXCEPT ![e] = NewExecutor(file, mode)]
      /\ holder' = [holder EXCEPT ![e] = None]
      /\ base' = [base EXCEPT ![e] = mem'[e]] /\ said' = [said EXCEPT ![e] = <<>>]
      /\ file' = file /\ writers' = writers /\ granted' = granted /\ left' = left
  BY DEF Restart
<1>2. NewExecutor(file, mode) \in Policy
  BY NewIsPolicy DEF PermInv, TypeOK
<1>3. Idle \in CallRecord /\ Idle.pc = "idle" /\ Idle.tries = 0
  BY Constants DEF Idle, CallRecord, Final
<1>4. /\ call' \in [Calls -> CallRecord] /\ ran' \in [Calls -> 0..3]
      /\ \A c \in Calls : IF Owner[c] = e THEN call'[c] = Idle /\ ran'[c] = 0
                          ELSE call'[c] = call[c] /\ ran'[c] = ran[c]
  BY <1>3 DEF PermInv, TypeOK, CallRecord, Restart
<1>5. \A d \in Executors \ {e} :
        /\ mem'[d] = mem[d] /\ option'[d] = option[d] /\ holder'[d] = holder[d]
        /\ base'[d] = base[d] /\ said'[d] = said[d]
  BY <1>1 DEF PermInv, TypeOK
<1>6. /\ mem'[e] = NewExecutor(file, mode) /\ option'[e] = mode /\ holder'[e] = None
      /\ base'[e] = mem'[e] /\ said'[e] = <<>>
  BY <1>1 DEF PermInv, TypeOK
<1>7. TypeOK'
  <2>1. /\ mem' \in [Executors -> Policy] /\ base' \in [Executors -> Policy]
        /\ option' \in [Executors -> Modes \union {None}]
        /\ holder' \in [Executors -> Calls \union {None}]
    BY <1>1, <1>2, <1>6 DEF PermInv, TypeOK
  <2>2. \A c \in Calls : call'[c].pc = "ok" => ran'[c] > 0
    BY <1>3, <1>4 DEF PermInv, TypeOK
  <2> QED
    BY <1>1, <1>4, <2>1, <2>2 DEF PermInv, TypeOK, CallRecord
<1>8. LockInv'
  <2>1. \A c \in Calls : Owner[c] = e => call'[c].pc \notin Saving
    BY <1>3, <1>4 DEF Saving
  <2>2. \A c \in Calls : call'[c].pc \in Saving <=> holder'[Owner[c]] = c
    <3>1. ASSUME NEW c \in Calls, Owner[c] = e PROVE holder'[Owner[c]] # c
      BY <3>1, <1>6, ToolPermissionsAssumption
    <3>2. ASSUME NEW c \in Calls, Owner[c] # e
          PROVE  call'[c].pc \in Saving <=> holder'[Owner[c]] = c
      BY <3>2, <1>4, <1>5, ToolPermissionsAssumption DEF PermInv, LockInv
    <3> QED
      BY <3>1, <3>2, <2>1
  <2>3. \A d \in Executors : holder'[d] # None => Owner[holder'[d]] = d
    BY <1>5, <1>6 DEF PermInv, LockInv
  <2>4. ASSUME NEW c \in Calls, call'[c].pc \in Saving
        PROVE  call'[c].update.to \in Files /\ <<Owner[c], call'[c].update.to>> \in writers'
    BY <2>4, <1>1, <1>4, <2>1 DEF PermInv, LockInv
  <2> QED
    BY <2>2, <2>3, <2>4 DEF LockInv
<1>9. ASSUME NEW c \in Calls PROVE Judged(c)'
  <2>1. CASE Owner[c] = e
    BY <1>3, <1>4, <2>1 DEF Judged, Applying, Saving
  <2>2. CASE Owner[c] # e
    BY <1>1, <1>4, <2>2 DEF PermInv, Judged
  <2> QED
    BY <2>1, <2>2
<1>10. said' \in [Executors -> Seq(Update)]
  BY <1>1 DEF PermInv
<1>11. ASSUME NEW d \in Executors PROVE Remembered(d)'
  <2>1. CASE d = e
    <3>1. {i \in DOMAIN said'[d] : said'[d][i].type = "setMode"} = {}
      BY <1>6, <2>1
    <3>2. \A t \in Tools : {i \in DOMAIN said'[d] : Touches(said'[d][i], t)} = {}
      BY <1>6, <2>1
    <3> QED
      BY <1>6, <2>1, <3>1, <3>2 DEF Remembered, ModeSaid, RuleSaid
  <2>2. CASE d # e
    <3>1. ModeSaid(d)' = ModeSaid(d) /\ \A t \in Tools : RuleSaid(d, t)' = RuleSaid(d, t)
      BY <1>5, <2>2 DEF ModeSaid, RuleSaid
    <3> QED
      BY <1>5, <2>2, <3>1 DEF PermInv, Remembered
  <2> QED
    BY <2>1, <2>2
<1>12. ASSUME NEW d \in Executors, NEW g \in Files PROVE Persisted(d, g)'
  <2> SUFFICES ASSUME writers \subseteq {<<d, g>>} PROVE Persisted(d, g)'
    BY <1>1 DEF Persisted
  <2>1. \A h \in Files \ {g} : file[h] = Empty
    BY DEF PermInv, Persisted
  <2>2. CASE d = e
    <3>1. file[g] # Torn => Agree(mem'[e], file[g], option'[e])
      BY <1>6, <2>1, NewFromOneFile DEF PermInv, TypeOK, Agree
    <3> QED
      BY <1>1, <1>6, <2>1, <2>2, <3>1, ToolPermissionsAssumption DEF Persisted
  <2>3. CASE d # e
    <3>1. \A c \in Calls : holder[d] = c => call'[c] = call[c]
      BY <1>4, <2>3, ToolPermissionsAssumption DEF PermInv, LockInv
    <3> QED
      BY <1>1, <1>5, <2>1, <2>3, <3>1 DEF PermInv, Persisted
  <2> QED
    BY <2>2, <2>3
<1> QED
  BY <1>7, <1>8, <1>9, <1>10, <1>11, <1>12 DEF PermInv

-----------------------------------------------------------------------------
(* The invariant.                                                          *)

(* Everything is empty, free and idle at first.                            *)
LEMMA InitPermInv == Init => PermInv
<1> SUFFICES ASSUME Init PROVE PermInv
  OBVIOUS
<1>1. Idle \in CallRecord /\ Idle.pc = "idle" /\ Idle.tries = 0
  BY Constants DEF Idle, CallRecord, Final
<1>2. ASSUME NEW e \in Executors PROVE mem[e] \in Policy /\ mem[e] = [Empty EXCEPT !.mode = option[e]]
  BY Constants DEF Init, Policy
<1>3. TypeOK
  <2>1. mem \in [Executors -> Policy]
    BY <1>2 DEF Init
  <2>2. holder \in [Executors -> Calls \union {None}] /\ file \in [Files -> Policy]
    BY Constants DEF Init
  <2>3. call \in [Calls -> CallRecord] /\ \A c \in Calls : call[c].pc # "ok"
    BY <1>1 DEF Init
  <2>4. /\ ran \in [Calls -> 0..3] /\ granted \in [Calls -> BOOLEAN] /\ left \in 0..MaxUpdates
        /\ writers \subseteq Executors \X Destinations
    BY ToolPermissionsAssumption DEF Init
  <2>5. base \in [Executors -> Policy] /\ option \in [Executors -> Modes \union {None}]
    BY <2>1 DEF Init
  <2> QED
    BY <2>1, <2>2, <2>3, <2>4, <2>5 DEF TypeOK, CallRecord
<1>4. said \in [Executors -> Seq(Update)]
  BY DEF Init
<1>5. LockInv
  BY <1>1, ToolPermissionsAssumption DEF Init, LockInv, Saving
<1>6. \A c \in Calls : Judged(c)
  BY <1>1 DEF Init, Judged, Applying, Saving
<1>7. \A e \in Executors : Remembered(e)
  BY NothingSaid DEF Init
<1>8. ASSUME NEW e \in Executors, NEW f \in Files PROVE Persisted(e, f)
  BY <1>2, ToolPermissionsAssumption DEF Init, Persisted, Agree, Later, Empty, None
<1> QED
  BY <1>3, <1>4, <1>5, <1>6, <1>7, <1>8 DEF PermInv

(* Every step keeps it.                                                    *)
LEMMA PermStep == PermInv /\ [Next]_vars => PermInv'
<1> SUFFICES ASSUME PermInv, [Next]_vars PROVE PermInv'
  OBVIOUS
<1>1. ASSUME NEW c \in Calls, Step(c) PROVE PermInv'
  BY <1>1, HooksAnswerStep, CallbackAllowsStep, HooksFailStep, CallbackRefusesStep,
     ApplyUpdateStep, TruncateStep, WriteFileStep, EvaluateStep, AttemptStep DEF Step
<1>2. ASSUME NEW c \in Calls, NEW t \in Tools, Request(c, t) PROVE PermInv'
  BY <1>2, RequestStep
<1>3. ASSUME NEW e \in Executors, NEW mode \in Modes, SetMode(e, mode) \/ Restart(e, mode)
      PROVE  PermInv'
  BY <1>3, SetModeStep, RestartStep
<1>4. CASE UNCHANGED vars
  <2>1. /\ mem' = mem /\ option' = option /\ holder' = holder /\ file' = file /\ call' = call
        /\ ran' = ran /\ base' = base /\ said' = said /\ writers' = writers
        /\ granted' = granted /\ left' = left
    BY <1>4 DEF vars, policy, history
  <2>2. ASSUME NEW e \in Executors PROVE Remembered(e)'
    <3>1. ModeSaid(e)' = ModeSaid(e) /\ \A t \in Tools : RuleSaid(e, t)' = RuleSaid(e, t)
      BY <2>1 DEF ModeSaid, RuleSaid
    <3> QED
      BY <2>1, <3>1 DEF PermInv, Remembered
  <2>3. TypeOK' /\ LockInv'
    BY <2>1 DEF PermInv, TypeOK, LockInv
  <2>4. (\A c \in Calls : Judged(c)') /\ \A e \in Executors, f \in Files : Persisted(e, f)'
    BY <2>1 DEF PermInv, Judged, Persisted
  <2> QED
    BY <2>1, <2>2, <2>3, <2>4 DEF PermInv
<1> QED
  BY <1>1, <1>2, <1>3, <1>4 DEF Next

(* The invariant holds throughout.                                         *)
LEMMA PermInvariant == Spec => []PermInv
BY InitPermInv, PermStep, PTL DEF Spec

-----------------------------------------------------------------------------
(* Every policy, call and lock is what it should be; the tool of one call  *)
(* is executed at most three times, by withExternalRetry's attempts.       *)
THEOREM TypesAreKept == Spec => []TypeOK
<1>1. PermInv => TypeOK
  BY DEF PermInv
<1> QED
  BY <1>1, PermInvariant, PTL

(* A tool runs only if nothing denied the call: no hook, no callback, and  *)
(* not the policy, as the updates given so far state it.  And a call is    *)
(* denied for no other reason, however the calls of an executor race.      *)
THEOREM DenialsHold == Spec => []PolicyDecides
<1>1. PermInv => PolicyDecides
  BY DEF PermInv, PolicyDecides, Judged
<1> QED
  BY <1>1, PermInvariant, PTL

(* With a single writer of a single file, memory and file never part: the  *)
(* lock covers the change of memory and the rewriting of the file.         *)
THEOREM FilesFollowMemory == Spec => []MemoryMatchesFiles
<1>1. PermInv => MemoryMatchesFiles
  <2> SUFFICES ASSUME PermInv, NEW e \in Executors, NEW f \in Files,
                      writers \subseteq {<<e, f>>}, holder[e] = None, file[f] # Torn
               PROVE  /\ mem[e].rules = NewExecutor(file, option[e]).rules
                      /\ mem[e].mode \in {None, NewExecutor(file, option[e]).mode}
    BY DEF MemoryMatchesFiles
  <2>1. /\ \A g \in Files \ {f} : file[g] = Empty
        /\ Agree(mem[e], file[f], option[e])
    BY DEF PermInv, Persisted
  <2>2. NewExecutor(file, option[e]) =
          [mode |-> Later(option[e], file[f].mode), rules |-> file[f].rules]
    BY <2>1, NewFromOneFile DEF PermInv, TypeOK
  <2> QED
    BY <2>1, <2>2 DEF Agree
<1> QED
  BY <1>1, PermInvariant, PTL
=============================================================================
