------------------------------ MODULE Workspace ------------------------------
(***************************************************************************)
(* The files below a client's working directory, as file checkpoints       *)
(* capture and restore them (internal/session/manager.go).                 *)
(*                                                                         *)
(* A path is a sequence of names.  A tree maps every path that is there to *)
(* Dir or to the content of a regular file; what is neither, which both    *)
(* operations pass over, is left out.  A snapshot maps paths to contents:  *)
(* a null content, which captureFiles never writes, is left out too.       *)
(***************************************************************************)
EXTENDS Integers, FiniteSets, SequencesExt

CONSTANTS
  Paths,     \* where tools put files
  Contents   \* what they put there

Dir == "directory"
Torn == ""  \* what a write that fails leaves behind
ASSUME WorkspaceAssumption ==
  /\ Contents # {} /\ {Dir, Torn} \intersect Contents = {}
  /\ \A p \in Paths : p \in Seq(STRING) /\ p # <<>>

Above(p) == {SubSeq(p, 1, n) : n \in 1..Len(p) - 1}
IsFile(tree, p) == p \in DOMAIN tree /\ tree[p] # Dir

\* The paths of f, and those of g that f does not have.
f ++ g == [p \in DOMAIN f \union DOMAIN g |-> IF p \in DOMAIN f THEN f[p] ELSE g[p]]

\* os.MkdirAll of the directory and os.WriteFile, which fail if something is in
\* the way.
CanWrite(tree, p) ==
  (p \in DOMAIN tree => tree[p] # Dir) /\ \A q \in Above(p) : ~IsFile(tree, q)
WriteFile(tree, p, content) ==
  [q \in {p} |-> content] ++ tree ++ [q \in Above(p) |-> Dir]
Without(tree, ps) == Restrict(tree, DOMAIN tree \ ps)

-----------------------------------------------------------------------------
\* Regular files outside of .git.
captureFiles(tree) ==
  Restrict(tree, {p \in DOMAIN tree : tree[p] # Dir /\ Head(p) # ".git"})

\* restoreFiles removes the files that are not in the snapshot, then writes those
\* that are, both in the order of a Go map.
Added(tree, snapshot) == DOMAIN captureFiles(tree) \ DOMAIN snapshot
WriteAll(tree, snapshot) ==
  snapshot ++ tree ++ [q \in UNION {Above(p) : p \in DOMAIN snapshot} |-> Dir]

CanRestore(tree, snapshot) ==
  \A p \in DOMAIN snapshot : CanWrite(Without(tree, Added(tree, snapshot)), p)
OnlyWrite(tree, snapshot) ==  \* mutant: files that were added stay
  WriteAll(tree, snapshot)
restoreFiles(tree, snapshot) ==
  WriteAll(Without(tree, Added(tree, snapshot)), snapshot)

\* It stops at the first error: some files are removed; or all of them, and some
\* written, the last perhaps not to its end.
Halfway(tree, snapshot) ==
  LET added == Added(tree, snapshot)
      cleared == Without(tree, added)
      able == {p \in DOMAIN snapshot : CanWrite(cleared, p)}
      written(ps) == WriteAll(cleared, Restrict(snapshot, ps))
  IN  {Without(tree, ps) : ps \in SUBSET added}
      \union {written(ps) : ps \in SUBSET able}
      \union {WriteFile(written(ps \ {p}), p, Torn) : ps \in SUBSET able, p \in able}

-----------------------------------------------------------------------------
\* A tool writes a file, or removes what is there with all that is below.
Edited(tree) ==
  {WriteFile(tree, p, c) : p \in {q \in Paths : CanWrite(tree, q)}, c \in Contents}
  \union {Without(tree, {q \in DOMAIN tree : IsPrefix(p, q)}) : p \in Paths}
=============================================================================
