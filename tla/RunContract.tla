---------------------------- MODULE RunContract ----------------------------
(***************************************************************************)
(* What one call of QueryRunner.RunMessages promises to the holder of the  *)
(* two channels it returns, without any of its machinery: messages flow    *)
(* until a single verdict (the ResultMessage) or a single final error, the *)
(* session is overwritten by the answer only after a "success" verdict has *)
(* been delivered, and a run never ends without having said why.           *)
(***************************************************************************)
EXTENDS Naturals

VARIABLES
  phase,      \* "running" until both channels are closed, then "ended"
  delivered,  \* how many messages have been put on the message channel
  verdict,    \* the ResultMessage delivered, if any
  warnings,   \* errors reported while the run goes on (malformed events)
  failed,     \* has the final error been reported?
  stored      \* what the session holds: the state "before" the run, the
              \* "question" (a checkpoint), or the whole "answer"

Verdicts == {"success", "budget", "interrupted"}
contractVars == <<phase, delivered, verdict, warnings, failed, stored>>

TypeOK ==
  /\ phase \in {"running", "ended"}
  /\ delivered \in Nat
  /\ verdict \in Verdicts \cup {"none"}
  /\ warnings \in Nat
  /\ failed \in BOOLEAN
  /\ stored \in {"before", "question", "answer"}

Init ==
  /\ phase = "running"
  /\ delivered = 0
  /\ verdict = "none"
  /\ warnings = 0
  /\ failed = FALSE
  /\ stored = "before"

Open == phase = "running" /\ ~failed   \* the run may still speak

Message ==
  /\ Open /\ verdict = "none"
  /\ delivered' = delivered + 1
  /\ UNCHANGED <<phase, verdict, warnings, failed, stored>>

Warning ==
  /\ Open /\ verdict = "none"
  /\ warnings' = warnings + 1
  /\ UNCHANGED <<phase, delivered, verdict, failed, stored>>

Checkpoint ==
  /\ Open /\ verdict = "none" /\ stored = "before"
  /\ stored' = "question"
  /\ UNCHANGED <<phase, delivered, verdict, warnings, failed>>

Result(v) ==
  /\ Open /\ verdict = "none"
  /\ verdict' = v
  /\ delivered' = delivered + 1
  /\ UNCHANGED <<phase, warnings, failed, stored>>

Commit ==
  /\ Open /\ verdict = "success" /\ stored # "answer"
  /\ stored' = "answer"
  /\ UNCHANGED <<phase, delivered, verdict, warnings, failed>>

\* The final error: instead of a verdict, or after the answer was stored.
Failure ==
  /\ Open
  /\ verdict = "none" \/ stored = "answer"
  /\ failed' = TRUE
  /\ UNCHANGED <<phase, delivered, verdict, warnings, stored>>

End ==
  /\ phase = "running"
  /\ failed \/ verdict \in {"budget", "interrupted"} \/ stored = "answer"
  /\ phase' = "ended"
  /\ UNCHANGED <<delivered, verdict, warnings, failed, stored>>

Next ==
  \/ Message
  \/ Warning
  \/ Checkpoint
  \/ \E v \in Verdicts : Result(v)
  \/ Commit
  \/ Failure
  \/ End

Spec == Init /\ [][Next]_contractVars
=============================================================================
