----------------------------- MODULE MCQueryRun -----------------------------
(* Instances of QueryRun for TLC: server vocabularies and prior sessions.  *)
EXTENDS QueryRun

Ev(k, n) == [kind |-> k, n |-> n]
\* Text, tool calls in any order of their indices, one of them negative, and two
\* calls written as text.
ToolEvents ==
  {Ev("text", 0), Ev("call", 0), Ev("call", 1), Ev("call", -1), Ev("inline", 2)}
\* Text, costs, calls and malformed events, for fallback and budget.
CostEvents == {Ev("text", 0), Ev("cost", 1), Ev("call", 0), Ev("error", 0)}

\* A fresh session, or one that already holds an answered tool call.
OldTurn == <<Entry("user", <<>>, NoId), Entry("assistant", <<0>>, NoId),
             Entry("tool", <<>>, 0), Entry("assistant", <<>>, NoId)>>
FreshSession == {<<>>}
AnySession == {<<>>, OldTurn}
=============================================================================
