------------------------- MODULE MCToolPermissions -------------------------
(* Instances of ToolPermissions for TLC.                                   *)
EXTENDS ToolPermissions, TLC

CONSTANTS e1, c1, c2, t1, t2, t3
\* t3 is a name the registry does not know.
KnownTools == {t1, t2}
AllTools == {t1, t2, t3}
OneExecutor == {e1}
TwoCalls == {c1, c2}
\* Two calls of one client.
SameClient == (c1 :> e1) @@ (c2 :> e1)
Up(type, tools, behavior, mode, to) ==
  [type |-> type, tools |-> tools, behavior |-> behavior, mode |-> mode, to |-> to]
SomeUpdates ==
  {Up("addRules", {t1}, "deny", None, "localSettings"),
   Up("addRules", {t2}, "deny", None, "localSettings"),
   Up("replaceRules", {t2}, "allow", None, "localSettings"),
   Up("removeRules", {t1}, "ask", None, "userSettings"),
   Up("addRules", {t1}, "deny", None, "session"),
   Up("setMode", {}, "ask", "bypassPermissions", "localSettings"),
   Up("setMode", {}, "ask", None, "localSettings")}
=============================================================================
