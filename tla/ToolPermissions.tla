--------------------------- MODULE ToolPermissions ---------------------------
(***************************************************************************)
(* May this tool call run?  The permission hooks of a query run, the rules *)
(* and mode of its tools.Executor, the CanUseTool callback, and the policy *)
(* files (permission.Store) that executors of several clients or processes *)
(* share without a lock; then the call itself, which for an external MCP   *)
(* server is retried (withExternalRetry).                                  *)
(*                                                                         *)
(* A call belongs to the executor of its client; runs of one client race,  *)
(* so an executor may have several calls at once.  Of an Update the        *)
(* directories and rule contents are left out: nothing reads them.         *)
(***************************************************************************)
EXTENDS Integers, Sequences, FiniteSets

CONSTANTS
  Executors,
  Calls, Owner,   \* calls that may be under way, and the executor of each
  Tools,          \* the names models use
  Registered,     \* those in the executors' registry
  Updates,        \* the updates hooks and callbacks may return
  Modes,          \* the modes SetPermissionMode and the options may name
  MaxHooks,       \* bound: outputs of one PermissionRequest event
  MaxUpdates      \* bound: updates and mode changes of a behaviour

Behaviors == {"allow", "deny", "ask"}
Files == {"userSettings", "projectSettings", "localSettings"}
Destinations == Files \union {"session"}  \* a missing destination is a session's
UpdateTypes == {"setMode", "addRules", "replaceRules", "removeRules"}
None == "none"                            \* a nil mode, a tool without a rule

Update == [type : UpdateTypes, tools : SUBSET Tools, behavior : Behaviors,
           mode : Modes \union {None}, to : Destinations]
NoUpdate == [type |-> "addRules", tools |-> {}, behavior |-> "ask", mode |-> None,
             to |-> "session"]

ASSUME ToolPermissionsAssumption ==
  /\ Owner \in [Calls -> Executors]
  /\ Registered \subseteq Tools
  /\ Updates \subseteq Update
  /\ Tools # {}
  /\ None \notin Calls
  /\ Modes \intersect {None, "torn"} = {}
  /\ MaxHooks \in Nat /\ MaxUpdates \in Nat

VARIABLES
  mem,     \* per executor: its mode and rules
  option,  \* per executor: opts.PermissionMode
  holder,  \* per executor: the call that holds e.mu, or None
  file,    \* the policy files
  call,    \* the calls
  ran,     \* how often the tool of a call was executed
  base,    \* history: what an executor started with
  said,    \* history: the updates an executor was given since, in order
  writers, \* history: who updated which destination
  granted, \* history: nothing has denied the call so far
  left     \* how many of MaxUpdates are left

policy == <<mem, option, holder, file>>
history == <<base, said, writers>>
vars == <<policy, call, ran, history, granted, left>>

-----------------------------------------------------------------------------
(* Policies.                                                               *)

NoRules == [t \in Tools |-> None]
Empty == [mode |-> None, rules |-> NoRules]   \* also what a missing file loads as
Torn == [mode |-> "torn", rules |-> NoRules]  \* truncated: it does not decode

\* permission.applyUpdate.
applyUpdate(pol, up) ==
  CASE up.type = "setMode" -> [pol EXCEPT !.mode = up.mode]
    [] up.type = "addRules" ->
         [pol EXCEPT !.rules = [t \in Tools |-> IF t \in up.tools THEN up.behavior ELSE @[t]]]
    [] up.type = "replaceRules" ->
         [pol EXCEPT !.rules = [t \in Tools |-> IF t \in up.tools THEN up.behavior ELSE None]]
    [] up.type = "removeRules" ->
         [pol EXCEPT !.rules = [t \in Tools |-> IF t \in up.tools THEN None ELSE @[t]]]

\* The executor repeats these cases for its memory.
InMemory(pol, up) == applyUpdate(pol, up)

Later(a, b) == IF b = None THEN a ELSE b
LoadMerged(files) ==
  LET over(get(_)) == Later(Later(get(files["userSettings"]), get(files["projectSettings"])),
                            get(files["localSettings"]))
  IN  [mode |-> over(LAMBDA p : p.mode),
       rules |-> [t \in Tools |-> over(LAMBDA p : p.rules[t])]]

\* NewExecutor: one file that does not load, and none of them counts.
NewExecutor(files, mode) ==
  IF Torn \in {files[f] : f \in Files} THEN [Empty EXCEPT !.mode = mode]
  ELSE [LoadMerged(files) EXCEPT !.mode = Later(mode, @)]

Denies(pol, t) == pol.mode # "bypassPermissions" /\ pol.rules[t] = "deny"

-----------------------------------------------------------------------------
(* Calls.                                                                  *)

Final == {"idle", "ok", "error", "denied", "aborted"}
Pending == {"hooks", "update", "truncate", "write", "policy", "callback", "calling"}
Idle == [pc |-> "idle", tool |-> CHOOSE t \in Tools : TRUE, update |-> NoUpdate,
         after |-> "idle", save |-> Empty, tries |-> 0]
\* The goroutine goes on at pc and needs no more of the update it applied.
Goes(c, pc) == call' = [call EXCEPT ![c] = [Idle EXCEPT !.pc = pc, !.tool = call[c].tool]]
Free(c) == holder[Owner[c]] = None

\* The goroutine applies up, if there is one, and goes on at pc.
Applies(c, up, pc) ==
  \/ up = NoUpdate /\ Goes(c, pc) /\ UNCHANGED left
  \/ /\ up # NoUpdate /\ left > 0
     /\ left' = left - 1
     /\ call' = [call EXCEPT ![c].pc = "update", ![c].update = up, ![c].after = pc]

Init ==
  /\ option \in [Executors -> Modes \union {None}]
  /\ mem = [e \in Executors |-> [Empty EXCEPT !.mode = option[e]]]
  /\ holder = [e \in Executors |-> None]
  /\ file = [f \in Files |-> Empty]
  /\ call = [c \in Calls |-> Idle]
  /\ ran = [c \in Calls |-> 0]
  /\ base = mem
  /\ said = [e \in Executors |-> <<>>]
  /\ writers = {}
  /\ granted = [c \in Calls |-> FALSE]
  /\ left = MaxUpdates

Request(c, t) ==
  /\ call[c].pc \in Final
  /\ call' = [call EXCEPT ![c] = [Idle EXCEPT !.pc = "hooks", !.tool = t]]
  /\ ran' = [ran EXCEPT ![c] = 0]
  /\ granted' = [granted EXCEPT ![c] = TRUE]
  /\ UNCHANGED <<policy, history, left>>

\* What the outputs of the hooks decide together: one denial denies, of the
\* permission updates the last ones count.
LastAnswer(outs) == outs # <<>> /\ outs[Len(outs)].deny  \* mutant: the last one decides
AnyDenial(outs) == \E i \in DOMAIN outs : outs[i].deny
LastUpdate(outs) ==
  LET given == {i \in DOMAIN outs : outs[i].update # NoUpdate}
  IN  IF given = {} THEN NoUpdate
      ELSE outs[CHOOSE i \in given : \A j \in given : j <= i].update

HooksAnswer(c, outs) ==
  /\ call[c].pc = "hooks"
  /\ Applies(c, LastUpdate(outs), IF AnyDenial(outs) THEN "denied" ELSE "policy")
  /\ granted' = [granted EXCEPT ![c] = \A i \in DOMAIN outs : ~outs[i].deny]
  /\ UNCHANGED <<policy, ran, history>>

\* A hook, of this event or of PreToolUse, fails, exceeds its timeout or
\* returns what is not supported: the run ends with an error.
HooksFail(c) ==
  /\ call[c].pc \in {"hooks", "policy"}
  /\ Goes(c, "aborted")
  /\ UNCHANGED <<policy, ran, history, granted, left>>

-----------------------------------------------------------------------------
(* ApplyPermissionUpdates: under e.mu, memory first, then load, change and *)
(* rewrite the file.  Nothing keeps another executor out of the file.      *)

Told(e, up) ==
  /\ said' = [said EXCEPT ![e] = Append(@, up)]
  /\ writers' = writers \union {<<e, up.to>>}
  /\ UNCHANGED base

NotLocked(e, c) == UNCHANGED holder  \* mutant: saves without the lock
Locked(e, c) == holder' = [holder EXCEPT ![e] = c]

Persists(up) == up.to \in Files /\ file[up.to] # Torn
ApplyUpdate(c) ==
  LET e == Owner[c]
      up == call[c].update
  IN  /\ call[c].pc = "update" /\ Free(c)
      /\ mem' = [mem EXCEPT ![e] = InMemory(@, up)]
      /\ Told(e, up)
      /\ IF Persists(up)
         THEN /\ Locked(e, c)
              /\ call' = [call EXCEPT ![c].pc = "truncate",
                                      ![c].save = applyUpdate(file[up.to], up)]
         ELSE Goes(c, call[c].after) /\ UNCHANGED holder
      /\ UNCHANGED <<option, file, ran, granted, left>>

\* os.WriteFile truncates the file and then writes it.
Truncate(c) ==
  /\ call[c].pc = "truncate"
  /\ file' = [file EXCEPT ![call[c].update.to] = Torn]
  /\ call' = [call EXCEPT ![c].pc = "write"]
  /\ UNCHANGED <<mem, option, holder, ran, history, granted, left>>

WriteFile(c) ==
  /\ call[c].pc = "write"
  /\ file' = [file EXCEPT ![call[c].update.to] = call[c].save]
  /\ holder' = [holder EXCEPT ![Owner[c]] = None]
  /\ Goes(c, call[c].after)
  /\ UNCHANGED <<mem, option, ran, history, granted, left>>

\* SetPermissionMode changes the options and the executor, no file.
SetMode(e, mode) ==
  /\ holder[e] = None /\ left > 0
  /\ left' = left - 1
  /\ option' = [option EXCEPT ![e] = mode]
  /\ mem' = [mem EXCEPT ![e].mode = mode]
  /\ Told(e, [NoUpdate EXCEPT !.type = "setMode", !.mode = mode])
  /\ UNCHANGED <<holder, file, call, ran, granted>>

\* The client's process ends anywhere, and another takes its place.
Restart(e, mode) ==
  /\ option' = [option EXCEPT ![e] = mode]
  /\ mem' = [mem EXCEPT ![e] = NewExecutor(file, mode)]
  /\ holder' = [holder EXCEPT ![e] = None]
  /\ call' = [c \in Calls |-> IF Owner[c] = e THEN Idle ELSE call[c]]
  /\ ran' = [c \in Calls |-> IF Owner[c] = e THEN 0 ELSE ran[c]]
  /\ base' = [base EXCEPT ![e] = mem'[e]]
  /\ said' = [said EXCEPT ![e] = <<>>]
  /\ UNCHANGED <<file, writers, granted, left>>

-----------------------------------------------------------------------------
(* ExecuteWithSuggestions.                                                 *)

\* What the updates given to e since it started say about t: the last one that
\* concerns t decides, and the last mode that was set.
Touches(up, t) == \/ up.type \in {"addRules", "removeRules"} /\ t \in up.tools
                  \/ up.type = "replaceRules"
LastOf(I) == CHOOSE i \in I : \A j \in I : j <= i
RuleSaid(e, t) ==
  LET I == {i \in DOMAIN said[e] : Touches(said[e][i], t)}
      up == said[e][LastOf(I)]
  IN  IF I = {} THEN base[e].rules[t]
      ELSE IF t \in up.tools /\ up.type # "removeRules" THEN up.behavior ELSE None
ModeSaid(e) ==
  LET I == {i \in DOMAIN said[e] : said[e][i].type = "setMode"}
  IN  IF I = {} THEN base[e].mode ELSE said[e][LastOf(I)].mode
Forbidden(e, t) == ModeSaid(e) # "bypassPermissions" /\ RuleSaid(e, t) = "deny"

\* The registry, then evaluatePolicy.
Evaluate(c) ==
  LET t == call[c].tool
  IN  /\ call[c].pc = "policy" /\ Free(c)
      /\ Goes(c, CASE t \notin Registered -> "error"
                   [] t \in Registered /\ Denies(mem[Owner[c]], t) -> "denied"
                   [] OTHER -> "callback")
      /\ granted' = [granted EXCEPT ![c] = @ /\ t \in Registered /\ ~Forbidden(Owner[c], t)]
      /\ UNCHANGED <<policy, ran, history, left>>

\* CanUseTool, called without the lock.  Without one every call is allowed.
CallbackAllows(c, up) ==
  /\ call[c].pc = "callback"
  /\ Applies(c, up, "calling")
  /\ UNCHANGED <<policy, ran, history, granted>>

CallbackRefuses(c) ==
  /\ call[c].pc = "callback"
  /\ \/ Goes(c, "error") /\ UNCHANGED granted
     \/ Goes(c, "denied") /\ granted' = [granted EXCEPT ![c] = FALSE]
  /\ UNCHANGED <<policy, ran, history, left>>

\* withExternalRetry: a lost connection may hide an execution; it is retried,
\* while other errors, a cancelled context and the third failure are final.
RetriesForEver(tries) == tries < 3  \* mutant: one attempt too many
MayRetry(tries) == tries < 2
Attempt(c) ==
  /\ call[c].pc = "calling"
  /\ \/ Goes(c, "ok") /\ ran' = [ran EXCEPT ![c] = @ + 1]
     \/ /\ ran' \in {ran, [ran EXCEPT ![c] = @ + 1]}
        /\ \/ Goes(c, "error")
           \/ /\ MayRetry(call[c].tries)
              /\ call' = [call EXCEPT ![c].tries = @ + 1]
  /\ UNCHANGED <<policy, history, granted, left>>

-----------------------------------------------------------------------------
HookOutputs ==
  UNION {[1..n -> [deny : BOOLEAN, update : Updates \union {NoUpdate}]] : n \in 0..MaxHooks}

Step(c) ==
  \/ \E outs \in HookOutputs : HooksAnswer(c, outs)
  \/ \E up \in Updates \union {NoUpdate} : CallbackAllows(c, up)
  \/ HooksFail(c) \/ CallbackRefuses(c)
  \/ ApplyUpdate(c) \/ Truncate(c) \/ WriteFile(c)
  \/ Evaluate(c) \/ Attempt(c)

Next ==
  \/ \E c \in Calls : Step(c) \/ \E t \in Tools : Request(c, t)
  \/ \E e \in Executors, mode \in Modes : SetMode(e, mode) \/ Restart(e, mode)

Spec == Init /\ [][Next]_vars

-----------------------------------------------------------------------------
(* Correctness.                                                            *)

Policy == [mode : Modes \union {None, "torn"}, rules : [Tools -> Behaviors \union {None}]]

\* Types; a tool is executed at most three times for one call, and at least
\* once if the call succeeds.
TypeOK ==
  /\ mem \in [Executors -> Policy] /\ base \in [Executors -> Policy]
  /\ option \in [Executors -> Modes \union {None}]
  /\ holder \in [Executors -> Calls \union {None}]
  /\ file \in [Files -> Policy]
  /\ call \in [Calls -> [pc : Final \union Pending, tool : Tools,
                         update : Updates \union {NoUpdate}, after : Final \union Pending,
                         save : Policy, tries : 0..2]]
  /\ ran \in [Calls -> 0..3]
  /\ \A c \in Calls : call[c].pc = "ok" => ran[c] > 0
  /\ granted \in [Calls -> BOOLEAN] /\ left \in 0..MaxUpdates
  /\ writers \subseteq Executors \X Destinations

\* A tool runs only if no hook and no callback denied the call and, when the
\* policy was asked, neither the rule last given for the tool nor the mode last
\* set forbade it; and a call is denied only for one of these reasons.
PolicyDecides ==
  \A c \in Calls :
    /\ ran[c] > 0 => granted[c]
    /\ call[c].pc = "denied" => ~granted[c]

\* While one executor is the only one that updates the policies, and all its
\* updates go to one file, a new executor with its options would decide as it
\* does from memory: no update is lost or done twice by its racing calls, and
\* memory and file change alike.  Only an executor that was told to forget its mode
\* (setMode without one) has none, while a new one falls back on its options.
MemoryMatchesFiles ==
  \A e \in Executors, f \in Files :
    LET new == NewExecutor(file, option[e])
    IN  writers \subseteq {<<e, f>>} /\ holder[e] = None /\ file[f] # Torn
        => /\ mem[e].rules = new.rules
           /\ mem[e].mode \in {None, new.mode}
=============================================================================
