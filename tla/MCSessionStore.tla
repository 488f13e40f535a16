--------------------------- MODULE MCSessionStore ---------------------------
(* Instances of SessionStore for TLC: how many processes share the store.  *)
EXTENDS SessionStore

CONSTANTS p1, p2
OneProcess == {p1}
TwoProcesses == {p1, p2}
=============================================================================
