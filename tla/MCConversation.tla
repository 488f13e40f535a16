--------------------------- MODULE MCConversation ---------------------------
(* Instances of Conversation for TLC: who calls which client methods.      *)
EXTENDS Conversation

CONSTANTS default, fork, owner, other
TwoSessions == {default, fork}
JustOwner == {owner}
OwnerAndOther == {owner, other}
JustOther == {other}
Nobody == {}
\* A file, and one in a directory of the same name.
FileOrDirectory == {<<"f">>, <<"f", "g">>}
NoPaths == {}
TwoContents == {"old", "new"}
=============================================================================
