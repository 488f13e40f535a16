-------------------------- MODULE ConversationProofs --------------------------
(***************************************************************************)
(* Of a client used by any number of goroutines, no run is left behind     *)
(* uncancelled, a user message ID is never greater than the number of      *)
(* questions there were, and the workspace stays a tree.  Of a client that *)
(* one goroutine uses, reading each response to its end, a checkpoint is   *)
(* the conversation up to its question, nothing overwrites it, and what a  *)
(* session holds is only added to.                                         *)
(***************************************************************************)
EXTENDS Conversation, FiniteSetTheorems, TLAPS

PathNames == Seq(STRING) \ {<<>>}
Trees == UNION {[D -> Contents \union {Dir, Torn}] : D \in SUBSET PathNames}
Snapshots == UNION {[D -> Contents \union {Torn}] : D \in SUBSET PathNames}

\* Whatever is there is in a directory.
IsTree(tree) ==
  /\ tree \in Trees
  /\ \A p \in DOMAIN tree : \A q \in Above(p) : q \in DOMAIN tree /\ tree[q] = Dir

\* No file of a snapshot is in the way of another.
IsSnapshot(snapshot) ==
  /\ snapshot \in Snapshots
  /\ \A p \in DOMAIN snapshot : Head(p) # ".git" /\ \A q \in Above(p) : q \notin DOMAIN snapshot

-----------------------------------------------------------------------------
(* The workspace.                                                          *)

(* What is above a path.                                                   *)
LEMMA AbovePaths ==
  ASSUME NEW p \in PathNames
  PROVE  \A q \in Above(p) : q \in PathNames /\ q # p /\ Above(q) \subseteq Above(p) /\ p \notin Above(q)
<1>1. \A n \in 1..Len(p) - 1 :
        /\ SubSeq(p, 1, n) \in Seq(STRING) /\ Len(SubSeq(p, 1, n)) = n
        /\ \A k \in 1..n : SubSeq(p, 1, n)[k] = p[k]
  BY DEF PathNames
<1>2. \A n \in 1..Len(p) - 1 : \A m \in 1..n - 1 : SubSeq(SubSeq(p, 1, n), 1, m) = SubSeq(p, 1, m)
  <2> TAKE n \in 1..Len(p) - 1
  <2> TAKE m \in 1..n - 1
  <2> DEFINE q == SubSeq(p, 1, n)
  <2>1. q \in Seq(STRING) /\ Len(q) = n /\ \A k \in 1..n : q[k] = p[k]
    BY <1>1
  <2> HIDE DEF q
  <2>2. /\ Len(p) \in Nat /\ m \in 1..Len(p) - 1
        /\ SubSeq(q, 1, m) = [k \in 1..m |-> q[k]] /\ SubSeq(p, 1, m) = [k \in 1..m |-> p[k]]
    BY <2>1 DEF PathNames
  <2> QED
    BY <2>1, <2>2 DEF q
<1> SUFFICES ASSUME NEW n \in 1..Len(p) - 1
             PROVE  LET q == SubSeq(p, 1, n)
                    IN  q \in PathNames /\ q # p /\ Above(q) \subseteq Above(p) /\ p \notin Above(q)
  BY DEF Above
<1> DEFINE q == SubSeq(p, 1, n)
<1>3. q \in Seq(STRING) /\ Len(q) = n /\ Len(p) \in Nat /\ n < Len(p)
  BY <1>1 DEF PathNames
<1>4. q \in PathNames /\ q # p
  BY <1>3 DEF PathNames
<1>5. \A r \in Above(q) : r \in Above(p) /\ Len(r) < Len(p)
  <2>1. \A m \in 1..n - 1 : SubSeq(q, 1, m) = SubSeq(p, 1, m) /\ m \in 1..Len(p) - 1
    BY <1>2, <1>3
  <2> QED
    BY <1>1, <1>3, <2>1 DEF Above
<1> QED
  BY <1>3, <1>4, <1>5

(* What is captured is a snapshot.                                         *)
LEMMA CaptureIsSnapshot ==
  ASSUME NEW tree, IsTree(tree)
  PROVE  IsSnapshot(captureFiles(tree))
<1> DEFINE D == {p \in DOMAIN tree : tree[p] # Dir /\ Head(p) # ".git"}
<1>1. captureFiles(tree) = [p \in D |-> tree[p]]
  BY DEF captureFiles, Restrict
<1>2. D \in SUBSET PathNames /\ \A p \in D : tree[p] \in Contents \union {Torn}
  BY DEF IsTree, Trees
<1>3. [p \in D |-> tree[p]] \in [D -> Contents \union {Torn}]
  BY <1>2
<1>4. captureFiles(tree) \in Snapshots
  BY <1>1, <1>2, <1>3 DEF Snapshots
<1> QED
  BY <1>1, <1>4 DEF IsSnapshot, IsTree

(* What is restored from a snapshot is captured as that snapshot: nothing  *)
(* else is left outside of .git.                                           *)
LEMMA RestoredIsCaptured ==
  ASSUME NEW tree, NEW snapshot, IsSnapshot(snapshot)
  PROVE  captureFiles(restoreFiles(tree, snapshot)) = snapshot
<1> DEFINE cleared == Without(tree, Added(tree, snapshot))
           dirs == [q \in UNION {Above(p) : p \in DOMAIN snapshot} |-> Dir]
           new == restoreFiles(tree, snapshot)
           regular == {p \in DOMAIN new : new[p] # Dir /\ Head(p) # ".git"}
<1>1. new = snapshot ++ cleared ++ dirs
  BY DEF restoreFiles, WriteAll
<1>2. /\ DOMAIN snapshot \subseteq DOMAIN new
      /\ \A p \in DOMAIN snapshot : new[p] = snapshot[p]
  BY <1>1 DEF ++
<1>3. \A p \in DOMAIN new \ DOMAIN snapshot :
        \/ p \in DOMAIN cleared /\ new[p] = cleared[p]
        \/ new[p] = Dir
  BY <1>1 DEF ++
<1>4. \A p \in DOMAIN cleared : /\ p \in DOMAIN tree /\ cleared[p] = tree[p]
                                /\ p \notin Added(tree, snapshot)
  BY DEF Without, Restrict
<1>5. \A p \in DOMAIN tree : p \notin DOMAIN snapshot /\ p \notin Added(tree, snapshot)
                               => tree[p] = Dir \/ Head(p) = ".git"
  BY DEF Added, captureFiles, Restrict
<1> HIDE DEF new
<1>6. regular \subseteq DOMAIN snapshot
  BY <1>3, <1>4, <1>5
<1>7. \A p \in DOMAIN snapshot : snapshot[p] # Dir /\ Head(p) # ".git"
  <2>1. \A p \in DOMAIN snapshot : snapshot[p] \in Contents \union {Torn}
    BY DEF IsSnapshot, Snapshots
  <2> QED
    BY <2>1, WorkspaceAssumption DEF IsSnapshot, Dir, Torn
<1>8. regular = DOMAIN snapshot
  BY <1>2, <1>6, <1>7
<1>9. captureFiles(new) = [p \in regular |-> new[p]]
  BY DEF captureFiles, Restrict
<1>10. snapshot = [p \in DOMAIN snapshot |-> snapshot[p]]
  BY DEF IsSnapshot, Snapshots
<1> QED
  BY <1>2, <1>8, <1>9, <1>10 DEF new

(* Removing what nothing is left below of leaves a tree.                   *)
LEMMA RemovedIsTree ==
  ASSUME NEW tree, IsTree(tree), NEW ps,
         \A p \in DOMAIN tree \ ps : \A q \in Above(p) : q \notin ps
  PROVE  IsTree(Without(tree, ps))
<1> DEFINE D == DOMAIN tree \ ps
<1>1. Without(tree, ps) = [p \in D |-> tree[p]]
  BY DEF Without, Restrict
<1>2. D \in SUBSET PathNames /\ [p \in D |-> tree[p]] \in [D -> Contents \union {Dir, Torn}]
  BY DEF IsTree, Trees
<1>3. Without(tree, ps) \in Trees
  BY <1>1, <1>2 DEF Trees
<1> QED
  BY <1>1, <1>3 DEF IsTree

(* As when restoreFiles removes some of the files that were added.         *)
LEMMA FilesRemoved ==
  ASSUME NEW tree, IsTree(tree), NEW snapshot, NEW ps \in SUBSET Added(tree, snapshot)
  PROVE  IsTree(Without(tree, ps))
<1>1. \A p \in ps : p \in DOMAIN tree /\ tree[p] # Dir
  BY DEF Added, captureFiles, Restrict
<1> QED
  BY <1>1, RemovedIsTree DEF IsTree

(* As when a tool removes a file or a directory with all that is in it.    *)
LEMMA BelowRemoved ==
  ASSUME NEW tree, IsTree(tree), NEW p \in Paths
  PROVE  IsTree(Without(tree, {q \in DOMAIN tree : IsPrefix(p, q)}))
<1> DEFINE ps == {q \in DOMAIN tree : IsPrefix(p, q)}
<1>1. ASSUME NEW r \in DOMAIN tree, NEW q \in Above(r), q \in ps PROVE r \in ps
  <2>1. r \in Seq(STRING) /\ p \in Seq(STRING)
    BY WorkspaceAssumption DEF IsTree, Trees, PathNames
  <2>2. PICK n \in 1..Len(r) - 1 : q = SubSeq(r, 1, n)
    BY DEF Above
  <2>3. Len(p) \in Nat /\ Len(r) \in Nat /\ Len(q) = n /\ \A k \in 1..n : q[k] = r[k]
    BY <2>1, <2>2
  <2>4. Len(p) <= n /\ \A k \in 1..Len(p) : p[k] = q[k]
    <3>1. q \in Seq(STRING) /\ Len(p) <= Len(q) /\ SubSeq(p, 1, Len(p)) = SubSeq(q, 1, Len(p))
      <4>1. IsPrefix(p, q)
        BY <1>1
      <4>2. q \in Seq(STRING)
        BY <2>1, <2>2
      <4> QED
        BY <4>1, <4>2 DEF IsPrefix
    <3>2. /\ SubSeq(p, 1, Len(p)) = [k \in 1..Len(p) |-> p[k]]
          /\ SubSeq(q, 1, Len(p)) = [k \in 1..Len(p) |-> q[k]]
      BY <2>1, <2>3, <3>1
    <3> HIDE DEF ps
    <3> QED
      BY <2>3, <3>1, <3>2
  <2>5. Len(p) <= Len(r) /\ \A k \in 1..Len(p) : p[k] = r[k]
    BY <2>3, <2>4
  <2>6. IsPrefix(p, r)
    BY <2>1, <2>3, <2>5 DEF IsPrefix
  <2> QED
    BY <2>6
<1> QED
  BY <1>1, RemovedIsTree

(* Writing a snapshot where nothing is in its way leaves a tree.           *)
LEMMA AllWritten ==
  ASSUME NEW tree, IsTree(tree), NEW snapshot, IsSnapshot(snapshot),
         \A p \in DOMAIN snapshot : CanWrite(tree, p)
  PROVE  IsTree(WriteAll(tree, snapshot))
<1> DEFINE above == UNION {Above(p) : p \in DOMAIN snapshot}
           D == DOMAIN snapshot \union DOMAIN tree \union above
           new == WriteAll(tree, snapshot)
<1>1. new = [p \in D |-> IF p \in DOMAIN snapshot THEN snapshot[p]
                         ELSE IF p \in DOMAIN tree THEN tree[p] ELSE Dir]
  BY DEF WriteAll, ++
<1>2. /\ DOMAIN snapshot \subseteq PathNames
      /\ \A p \in DOMAIN snapshot : snapshot[p] \in Contents \union {Torn}
  BY DEF IsSnapshot, Snapshots
<1>3. DOMAIN tree \subseteq PathNames /\ \A p \in DOMAIN tree : tree[p] \in Contents \union {Dir, Torn}
  BY DEF IsTree, Trees
<1>4. above \subseteq PathNames
  BY <1>2, AbovePaths
<1>5. new \in Trees
  <2>1. D \in SUBSET PathNames
    BY <1>2, <1>3, <1>4
  <2>2. new \in [D -> Contents \union {Dir, Torn}]
    BY <1>1, <1>2, <1>3
  <2> QED
    BY <2>1, <2>2 DEF Trees
<1>6. \A q \in above : q \notin DOMAIN snapshot /\ (q \in DOMAIN tree => tree[q] = Dir)
  <2> SUFFICES ASSUME NEW p \in DOMAIN snapshot, NEW q \in Above(p)
               PROVE  q \notin DOMAIN snapshot /\ (q \in DOMAIN tree => tree[q] = Dir)
    OBVIOUS
  <2> QED
    BY DEF IsSnapshot, CanWrite, IsFile
<1>7. \A q \in above : q \in D /\ new[q] = Dir
  BY <1>1, <1>6
<1>8. \A r \in above : Above(r) \subseteq above
  BY <1>2, AbovePaths
<1>9. ASSUME NEW r \in DOMAIN tree, NEW q \in Above(r) PROVE q \in D /\ new[q] = Dir
  <2>1. q \in DOMAIN tree /\ tree[q] = Dir
    BY DEF IsTree
  <2>2. q \notin DOMAIN snapshot
    BY <2>1 DEF CanWrite
  <2> QED
    BY <1>1, <2>1, <2>2
<1> HIDE DEF new
<1>10. \A r \in D : \A q \in Above(r) : q \in D /\ new[q] = Dir
  BY <1>7, <1>8, <1>9
<1> QED
  BY <1>1, <1>5, <1>10 DEF IsTree, new

(* So does writing one file, whole or torn.                                *)
LEMMA FileWritten ==
  ASSUME NEW tree, IsTree(tree), NEW p \in PathNames, CanWrite(tree, p),
         NEW content \in Contents \union {Torn}
  PROVE  IsTree(WriteFile(tree, p, content))
<1> DEFINE D == {p} \union DOMAIN tree \union Above(p)
           new == WriteFile(tree, p, content)
<1>1. new = [q \in D |-> IF q = p THEN content ELSE IF q \in DOMAIN tree THEN tree[q] ELSE Dir]
  BY DEF WriteFile, ++
<1>2. DOMAIN tree \subseteq PathNames /\ \A q \in DOMAIN tree : tree[q] \in Contents \union {Dir, Torn}
  BY DEF IsTree, Trees
<1>3. \A q \in Above(p) : q \in PathNames /\ q # p /\ Above(q) \subseteq Above(p)
  BY AbovePaths
<1>4. new \in Trees
  <2>1. D \in SUBSET PathNames /\ new \in [D -> Contents \union {Dir, Torn}]
    BY <1>1, <1>2, <1>3
  <2> QED
    BY <2>1 DEF Trees
<1>5. \A q \in Above(p) : q \in D /\ new[q] = Dir
  BY <1>1, <1>3 DEF CanWrite, IsFile
<1>6. ASSUME NEW r \in DOMAIN tree, NEW q \in Above(r) PROVE q \in D /\ new[q] = Dir
  <2>1. q \in DOMAIN tree /\ tree[q] = Dir
    BY DEF IsTree
  <2>2. q # p
    BY <2>1 DEF CanWrite
  <2> QED
    BY <1>1, <2>1, <2>2
<1> HIDE DEF new
<1>7. \A r \in D : \A q \in Above(r) : q \in D /\ new[q] = Dir
  BY <1>3, <1>5, <1>6
<1> QED
  BY <1>1, <1>4, <1>7 DEF IsTree, new


(* Restoring a snapshot leaves a tree, wherever it stops.                  *)
LEMMA RestoringKeepsTree ==
  ASSUME NEW tree, IsTree(tree), NEW snapshot, IsSnapshot(snapshot)
  PROVE  /\ CanRestore(tree, snapshot) => IsTree(restoreFiles(tree, snapshot))
         /\ \A new \in Halfway(tree, snapshot) : IsTree(new)
<1> DEFINE added == Added(tree, snapshot)
           cleared == Without(tree, added)
           able == {p \in DOMAIN snapshot : CanWrite(cleared, p)}
           written(ps) == WriteAll(cleared, Restrict(snapshot, ps))
<1>1. IsTree(cleared)
  BY FilesRemoved
<1>2. CanRestore(tree, snapshot) => IsTree(restoreFiles(tree, snapshot))
  BY <1>1, AllWritten DEF CanRestore, restoreFiles
<1>3. ASSUME NEW ps \in SUBSET able
      PROVE  IsTree(written(ps)) /\ DOMAIN Restrict(snapshot, ps) = ps
  <2> DEFINE part == Restrict(snapshot, ps)
  <2>1. part = [p \in ps |-> snapshot[p]] /\ DOMAIN part = ps
    BY DEF Restrict
  <2>2. part \in Snapshots
    <3>1. ps \in SUBSET PathNames /\ \A p \in ps : snapshot[p] \in Contents \union {Torn}
      BY DEF IsSnapshot, Snapshots
    <3>2. part \in [ps -> Contents \union {Torn}]
      BY <2>1, <3>1
    <3> QED
      BY <3>1, <3>2 DEF Snapshots
  <2>3. IsSnapshot(part)
    <3> HIDE DEF part
    <3> QED
      BY <2>1, <2>2 DEF IsSnapshot
  <2> HIDE DEF part, cleared
  <2>4. \A p \in DOMAIN part : CanWrite(cleared, p)
    BY <2>1
  <2>5. IsTree(WriteAll(cleared, part))
    BY <1>1, <2>3, <2>4, AllWritten
  <2> QED
    BY <2>1, <2>5 DEF part
<1>4. ASSUME NEW ps \in SUBSET able, NEW p \in able
      PROVE  IsTree(WriteFile(written(ps \ {p}), p, Torn))
  <2> DEFINE new == written(ps \ {p})
             part == Restrict(snapshot, ps \ {p})
  <2>1. IsTree(new) /\ DOMAIN part = ps \ {p}
    BY <1>3
  <2>2. p \in PathNames /\ p \in DOMAIN snapshot /\ CanWrite(cleared, p)
    BY DEF IsSnapshot, Snapshots
  <2>3. \A q \in DOMAIN new :
          \/ q \in ps \ {p}
          \/ q \notin ps \ {p} /\ q \in DOMAIN cleared /\ new[q] = cleared[q]
          \/ q \notin DOMAIN cleared /\ new[q] = Dir /\ \E r \in ps \ {p} : q \in Above(r)
    BY <2>1 DEF WriteAll, ++
  <2> HIDE DEF new, cleared
  <2>4. p \in DOMAIN new => new[p] # Dir
    BY <2>2, <2>3 DEF CanWrite, IsSnapshot
  <2>5. \A q \in Above(p) : ~IsFile(new, q)
    BY <2>2, <2>3 DEF CanWrite, IsFile, IsSnapshot
  <2> QED
    BY <2>1, <2>2, <2>4, <2>5, FileWritten DEF CanWrite, new
<1>5. \A ps \in SUBSET added : IsTree(Without(tree, ps))
  BY FilesRemoved
<1>6. \A new \in Halfway(tree, snapshot) :
        \/ \E ps \in SUBSET added : new = Without(tree, ps)
        \/ \E ps \in SUBSET able : new = written(ps)
        \/ \E ps \in SUBSET able, p \in able : new = WriteFile(written(ps \ {p}), p, Torn)
  BY DEF Halfway
<1> HIDE DEF added, able, written
<1> QED
  BY <1>2, <1>3, <1>4, <1>5, <1>6

(* A tool leaves a tree.                                                   *)
LEMMA EditingKeepsTree ==
  ASSUME NEW tree, IsTree(tree), NEW new \in Edited(tree)
  PROVE  IsTree(new)
<1>1. CASE \E p \in {q \in Paths : CanWrite(tree, q)}, c \in Contents : new = WriteFile(tree, p, c)
  <2>1. PICK p \in Paths, c \in Contents : CanWrite(tree, p) /\ new = WriteFile(tree, p, c)
    BY <1>1
  <2>2. p \in PathNames
    BY WorkspaceAssumption DEF PathNames
  <2> QED
    BY <2>1, <2>2, FileWritten
<1>2. CASE \E p \in Paths : new = Without(tree, {q \in DOMAIN tree : IsPrefix(p, q)})
  BY <1>2, BelowRemoved
<1> QED
  BY <1>1, <1>2 DEF Edited


-----------------------------------------------------------------------------
(* Any number of goroutines.                                               *)

\* Bound by what happened: the runs that have numbered their questions.
Counted == {r \in Runs : stage[r] \notin {"unused", "launched", "copied", "numbered"}}
Questions == Cardinality(Counted)

ClientTyped ==
  /\ connected \in BOOLEAN /\ closed \in BOOLEAN
  /\ active \in Sessions /\ current \in Runs \cup {NoRun}
Places == {"idle", "checked", "launched", "interrupt", "rewindMessages", "rewindFiles"}
CallsTyped ==
  /\ at \in [Callers -> Places]
  /\ aim \in [Callers -> Runs \cup {NoRun}]
  /\ goal \in [Callers -> Sessions \X (Uids \cup {0})]
  /\ \A c \in Callers :
       /\ at[c] = "launched" => aim[c] \in Runs
       /\ at[c] \in {"rewindMessages", "rewindFiles"} => goal[c][2] \in Uids
RunsTyped ==
  /\ stage \in [Runs -> Stages] /\ sess \in [Runs -> Sessions]
  /\ base \in [Runs -> Seq(ItemType)] /\ cancelled \in [Runs -> BOOLEAN]
MessagesTyped ==
  /\ msgs \in [Sessions -> Seq(ItemType)]
  /\ snaps \in [Sessions -> [Uids -> Seq(ItemType)]]

OneSnapshot(checkpoint) ==
  \/ checkpoint = NoFiles
  \/ \E snapshot \in Snapshots : checkpoint = {snapshot} /\ IsSnapshot(snapshot)
FilesCheckpointed ==
  /\ fileSnaps \in [Sessions -> [Uids -> SUBSET Snapshots]]
  /\ \A s \in Sessions, u \in Uids : OneSnapshot(fileSnaps[s][u])

\* A counter may lose a question to a race, but never counts one twice.
Numbered ==
  /\ uid \in [Runs -> Nat] /\ tally \in [Runs -> Nat] /\ turns \in [Sessions -> Nat]
  /\ \A s \in Sessions : turns[s] <= 1 + Questions
  /\ \A r \in Runs : /\ tally[r] <= 1 + Questions
                     /\ uid[r] <= (IF stage[r] = "numbered" THEN 2 ELSE 1) + Questions

ClientInv ==
  /\ ClientTyped /\ CallsTyped /\ RunsTyped /\ MessagesTyped
  /\ FilesCheckpointed /\ IsTree(files) /\ Numbered /\ SupersededIsCancelled

(* The runs that have asked are never more than there may be, and fewer    *)
(* while one has not.                                                      *)
LEMMA QuestionsBounded ==
  /\ Questions \in Nat /\ Questions <= MaxRuns
  /\ \A r \in Runs : r \notin Counted => Questions < MaxRuns
<1>1. IsFiniteSet(Runs) /\ Cardinality(Runs) = MaxRuns
  <2>1. MaxRuns \in Nat /\ (1 > MaxRuns => MaxRuns = 0)
    BY ConversationAssumption
  <2>2. IsFiniteSet(1..MaxRuns) /\ Cardinality(1..MaxRuns) = IF 1 > MaxRuns THEN 0 ELSE MaxRuns - 1 + 1
    BY <2>1, FS_Interval
  <2> QED
    BY <2>1, <2>2 DEF Runs
<1>2. Counted \subseteq Runs
  BY DEF Counted
<1>3. Questions \in Nat /\ Questions <= MaxRuns
  BY <1>1, <1>2, FS_Subset, FS_CardinalityType DEF Questions
<1>4. ASSUME NEW r \in Runs, r \notin Counted PROVE Questions < MaxRuns
  <2>1. Counted # Runs
    BY <1>4
  <2>2. Questions # Cardinality(Runs)
    BY <1>1, <1>2, <2>1, FS_Subset DEF Questions
  <2> QED
    BY <1>1, <1>3, <2>2, ConversationAssumption
<1> QED
  BY <1>3, <1>4

(* What was counted stays counted.                                         *)
LEMMA MoreQuestions ==
  ASSUME Counted \subseteq Counted'
  PROVE  Questions' \in Nat /\ Questions <= Questions'
<1>1. IsFiniteSet(Runs)
  BY ConversationAssumption, FS_Interval DEF Runs
<1>2. Counted' \subseteq Runs
  BY DEF Counted
<1>3. IsFiniteSet(Counted')
  BY <1>1, <1>2, FS_Subset
<1> QED
  BY <1>3, FS_Subset, FS_CardinalityType DEF Questions

(* A run that asks is one more.                                            *)
LEMMA OneMoreQuestion ==
  ASSUME NEW r \in Runs, r \notin Counted, Counted' = Counted \cup {r}
  PROVE  Questions' = Questions + 1
<1>1. IsFiniteSet(Runs)
  BY ConversationAssumption, FS_Interval DEF Runs
<1>2. IsFiniteSet(Counted)
  BY <1>1, FS_Subset DEF Counted
<1> QED
  BY <1>2, FS_AddElement DEF Questions

(* The client a process starts with satisfies all of it.                   *)
LEMMA ClientInvInitially == Init => ClientInv
<1> SUFFICES ASSUME Init PROVE ClientInv
  OBVIOUS
<1>1. ClientTyped
  <2>1. \E s \in Sessions : s # ForkSession
    BY ConversationAssumption
  <2> QED
    BY <2>1 DEF Init, ClientTyped
<1>2. CallsTyped
  BY ConversationAssumption DEF Init, CallsTyped, Places
<1>3. RunsTyped
  BY ConversationAssumption DEF Init, RunsTyped, Stages
<1>4. MessagesTyped
  <2>1. OldSession \in Seq(ItemType) /\ <<>> \in Seq(ItemType)
    <3>1. Item("user", NoRun) \in ItemType /\ Item("assistant", NoRun) \in ItemType
      BY DEF Item, ItemType
    <3> QED
      BY <3>1 DEF OldSession
  <2> QED
    BY <2>1 DEF Init, MessagesTyped
<1>5. FilesCheckpointed
  BY DEF Init, FilesCheckpointed, OneSnapshot, NoFiles
<1>6. IsTree(files)
  <2> DEFINE D == {q \in Paths : Len(q) = 1}
             content == CHOOSE c \in Contents : TRUE
  <2>1. files = [p \in D |-> content] /\ content \in Contents
    BY WorkspaceAssumption DEF Init
  <2>2. D \in SUBSET PathNames
    BY WorkspaceAssumption DEF PathNames
  <2> HIDE DEF content
  <2>3. files \in [D -> Contents \union {Dir, Torn}]
    BY <2>1
  <2>4. files \in Trees
    BY <2>2, <2>3 DEF Trees
  <2>5. ASSUME NEW p \in D, NEW q \in Above(p) PROVE FALSE
    <3>1. \E n \in 1..Len(p) - 1 : q = SubSeq(p, 1, n)
      BY DEF Above
    <3> QED
      BY <3>1
  <2> QED
    BY <2>1, <2>4, <2>5 DEF IsTree
<1>7. Numbered
  <2>1. Len(<<>>) = 0 /\ Len(OldSession) = 2
    BY DEF OldSession
  <2>2. turns \in [Sessions -> {0, 1}]
    <3>1. PICK old \in {<<>>, OldSession} : msgs = [s \in Sessions |-> IF s = ForkSession THEN <<>> ELSE old]
      BY DEF Init
    <3>2. \A s \in Sessions : Len(msgs[s]) = 0 \/ Len(msgs[s]) = 2
      BY <2>1, <3>1
    <3>3. turns = [s \in Sessions |-> Len(msgs[s]) \div 2]
      BY DEF Init
    <3>4. 0 \div 2 = 0 /\ 2 \div 2 = 1
      OBVIOUS
    <3>5. \A s \in Sessions : turns[s] \in {0, 1}
      BY <3>2, <3>3, <3>4
    <3> QED
      BY <3>3, <3>5
  <2>3. uid = [r \in Runs |-> 0] /\ tally = [r \in Runs |-> 0]
    BY DEF Init
  <2> QED
    BY <2>2, <2>3, QuestionsBounded DEF Numbered
<1>8. SupersededIsCancelled
  BY DEF Init, SupersededIsCancelled
<1> QED
  BY <1>1, <1>2, <1>3, <1>4, <1>5, <1>6, <1>7, <1>8 DEF ClientInv

(* What a step does not touch keeps its type.                              *)
LEMMA Untouched ==
  /\ ClientTyped /\ UNCHANGED clientVars => ClientTyped'
  /\ CallsTyped /\ UNCHANGED callVars => CallsTyped'
  /\ RunsTyped /\ UNCHANGED <<stage, sess, base, cancelled>> => RunsTyped'
  /\ MessagesTyped /\ UNCHANGED <<msgs, snaps>> => MessagesTyped'
  /\ FilesCheckpointed /\ UNCHANGED fileSnaps => FilesCheckpointed'
  /\ IsTree(files) /\ UNCHANGED files => IsTree(files)'
<1>1. ClientTyped /\ UNCHANGED clientVars => ClientTyped'
  BY DEF ClientTyped, clientVars
<1>2. CallsTyped /\ UNCHANGED callVars => CallsTyped'
  BY DEF CallsTyped, callVars
<1>3. RunsTyped /\ UNCHANGED <<stage, sess, base, cancelled>> => RunsTyped'
  BY DEF RunsTyped
<1>4. MessagesTyped /\ UNCHANGED <<msgs, snaps>> => MessagesTyped'
  BY DEF MessagesTyped
<1>5. FilesCheckpointed /\ UNCHANGED fileSnaps => FilesCheckpointed'
  BY DEF FilesCheckpointed
<1>6. IsTree(files) /\ UNCHANGED files => IsTree(files)'
  BY DEF IsTree
<1> QED
  BY <1>1, <1>2, <1>3, <1>4, <1>5, <1>6

(* The counters keep their bound if no question was numbered or counted.   *)
LEMMA NumbersStand ==
  ASSUME Numbered, RunsTyped, Counted \subseteq Counted', UNCHANGED <<uid, tally>>,
         \A r \in Runs : stage[r] = "numbered" => stage'[r] = "numbered",
         turns' \in [Sessions -> Nat], \A s \in Sessions : turns'[s] <= 1 + Questions
  PROVE  Numbered'
<1>1. Questions \in Nat /\ Questions' \in Nat /\ Questions <= Questions'
  BY QuestionsBounded, MoreQuestions
<1>2. \A s \in Sessions : turns'[s] <= 1 + Questions'
  BY <1>1
<1>3. ASSUME NEW r \in Runs PROVE tally[r] <= 1 + Questions'
  BY <1>1 DEF Numbered
<1>4. ASSUME NEW r \in Runs
      PROVE  uid[r] <= (IF stage'[r] = "numbered" THEN 2 ELSE 1) + Questions'
  <2>1. uid[r] \in Nat /\ uid[r] <= (IF stage[r] = "numbered" THEN 2 ELSE 1) + Questions
    BY DEF Numbered
  <2> QED
    BY <1>1, <2>1
<1> QED
  BY <1>2, <1>3, <1>4 DEF Numbered

(* A run is held behind by no step that does not start or replace one.     *)
LEMMA StillSuperseded ==
  ASSUME SupersededIsCancelled, current' = current,
         \A r \in Runs : /\ cancelled[r] => cancelled'[r]
                         /\ stage[r] \in {"unused", "done"} => stage'[r] \in {"unused", "done"},
         \A c \in Callers : at[c] = "launched" => at'[c] = "launched" /\ aim'[c] = aim[c]
  PROVE  SupersededIsCancelled'
<1> SUFFICES ASSUME NEW r \in Runs
             PROVE  \/ stage'[r] \in {"unused", "done"} \/ r = current' \/ cancelled'[r]
                    \/ \E c \in Callers : at'[c] = "launched" /\ aim'[c] = r
  BY DEF SupersededIsCancelled
<1>1. \/ stage[r] \in {"unused", "done"} \/ r = current \/ cancelled[r]
      \/ \E c \in Callers : at[c] = "launched" /\ aim[c] = r
  BY DEF SupersededIsCancelled
<1>2. CASE stage[r] \in {"unused", "done"} \/ r = current \/ cancelled[r]
  BY <1>2
<1>3. CASE \E c \in Callers : at[c] = "launched" /\ aim[c] = r
  BY <1>3
<1> QED
  BY <1>1, <1>2, <1>3

(* Methods that neither start nor replace a run.                           *)
LEMMA MethodsKeep ==
  ASSUME ClientInv, NEW c \in Callers,
         \/ QueryCheck(c) \/ InterruptRead(c) \/ InterruptCancel(c) \/ CloseClient(c)
         \/ \E u \in Uids : RewindChoose(c, u)
         \/ RewindMessages(c) \/ RewindWorkspace(c) \/ RewindFails(c)
  PROVE  ClientInv'
<1> USE DEF ClientInv
<1>1. /\ UNCHANGED <<stage, sess, base, uid, tally, turns, snaps, fileSnaps, current>>
      /\ at[c] # "launched" /\ at'[c] # "launched"
      /\ \A d \in Callers \ {c} : at'[d] = at[d] /\ aim'[d] = aim[d]
  <2>1. UNCHANGED <<stage, sess, base, uid, tally, turns, snaps, fileSnaps, current>>
    BY DEF QueryCheck, InterruptRead, InterruptCancel, CloseClient, RewindChoose, RewindMessages,
           RewindWorkspace, RewindFails, clientVars, runVars, storeVars
  <2>2. at[c] # "launched"
    BY DEF QueryCheck, InterruptRead, InterruptCancel, CloseClient, RewindChoose, RewindMessages,
           RewindWorkspace, RewindFails, Free
  <2>3. \/ UNCHANGED at
        \/ \E where \in {"idle", "checked", "interrupt", "rewindMessages", "rewindFiles"} :
             at' = [at EXCEPT ![c] = where]
    BY DEF QueryCheck, InterruptRead, InterruptCancel, CloseClient, RewindChoose, RewindMessages,
           RewindWorkspace, RewindFails, callVars
  <2>4. UNCHANGED aim \/ aim' = [aim EXCEPT ![c] = current]
    BY DEF QueryCheck, InterruptRead, InterruptCancel, CloseClient, RewindChoose, RewindMessages,
           RewindWorkspace, RewindFails, callVars
  <2>5. at \in [Callers -> Places] /\ aim \in [Callers -> Runs \cup {NoRun}]
    BY DEF CallsTyped
  <2> QED
    BY <2>1, <2>2, <2>3, <2>4, <2>5
<1>2. cancelled' \in [Runs -> BOOLEAN] /\ \A r \in Runs : cancelled[r] => cancelled'[r]
  <2>1. CASE UNCHANGED cancelled
    BY <2>1 DEF RunsTyped
  <2>2. CASE InterruptCancel(c)
    BY <2>2 DEF InterruptCancel, RunsTyped
  <2>3. CASE CloseClient(c)
    <3>1. \A r \in Runs : (cancelled[r] \/ r = current) \in BOOLEAN
      OBVIOUS
    <3> QED
      BY <2>3, <3>1 DEF CloseClient, Supersede, RunsTyped
  <2> QED
    BY <2>1, <2>2, <2>3 DEF QueryCheck, InterruptRead, RewindChoose, RewindMessages,
       RewindWorkspace, RewindFails, runVars
<1>3. ClientTyped'
  BY DEF QueryCheck, InterruptRead, InterruptCancel, CloseClient, RewindChoose, RewindMessages,
         RewindWorkspace, RewindFails, clientVars, ClientTyped
<1>4. CallsTyped'
  <2>1. ASSUME NEW u \in Uids, RewindChoose(c, u) PROVE CallsTyped'
    BY <2>1 DEF RewindChoose, CallsTyped, Places, ClientTyped
  <2>2. CASE InterruptRead(c)
    BY <2>2 DEF InterruptRead, CallsTyped, Places, ClientTyped
  <2>3. CASE CloseClient(c)
    BY <2>3, Untouched DEF CloseClient
  <2>4. CASE QueryCheck(c)
    BY <2>4 DEF QueryCheck, CallsTyped, Places
  <2>5. CASE InterruptCancel(c)
    BY <2>5 DEF InterruptCancel, CallsTyped, Places
  <2>6. CASE RewindMessages(c)
    BY <2>6 DEF RewindMessages, CallsTyped, Places
  <2>7. CASE RewindWorkspace(c) \/ RewindFails(c)
    BY <2>7 DEF RewindWorkspace, RewindFails, CallsTyped, Places
  <2> QED
    BY <2>1, <2>2, <2>3, <2>4, <2>5, <2>6, <2>7
<1>5. RunsTyped'
  BY <1>1, <1>2 DEF RunsTyped
<1>6. MessagesTyped'
  <2>1. CASE UNCHANGED msgs
    BY <1>1, <2>1, Untouched
  <2>2. CASE RewindMessages(c)
    <3>1. goal[c][1] \in Sessions /\ goal[c][2] \in Uids
      BY <2>2 DEF RewindMessages, CallsTyped
    <3>2. snaps[goal[c][1]][goal[c][2]] \in Seq(ItemType)
      BY <3>1 DEF MessagesTyped
    <3> QED
      BY <1>1, <2>2, <3>1, <3>2 DEF RewindMessages, MessagesTyped
  <2> QED
    BY <2>1, <2>2 DEF QueryCheck, InterruptRead, InterruptCancel, CloseClient, RewindChoose,
       RewindWorkspace, RewindFails, storeVars
<1>7. FilesCheckpointed'
  BY <1>1, Untouched
<1>8. IsTree(files)'
  <2>1. CASE UNCHANGED files
    BY <2>1, Untouched
  <2>2. CASE RewindWorkspace(c) \/ RewindFails(c)
    <3>1. goal[c][1] \in Sessions /\ goal[c][2] \in Uids
      BY <2>2 DEF RewindWorkspace, RewindFails, CallsTyped
    <3>2. \A snapshot \in FileCheckpoint(c) : IsSnapshot(snapshot)
      BY <3>1 DEF FileCheckpoint, FilesCheckpointed, OneSnapshot, NoFiles
    <3>3. CASE RewindWorkspace(c)
      BY <3>2, <3>3, RestoringKeepsTree DEF RewindWorkspace
    <3>4. CASE RewindFails(c)
      <4>1. \/ files' = files
            \/ \E snapshot \in FileCheckpoint(c) : files' \in Halfway(files, snapshot)
        BY <3>4 DEF RewindFails
      <4> QED
        BY <3>2, <4>1, RestoringKeepsTree
    <3> QED
      BY <2>2, <3>3, <3>4
  <2> QED
    BY <2>1, <2>2 DEF QueryCheck, InterruptRead, InterruptCancel, CloseClient, RewindChoose,
       RewindMessages
<1>9. Numbered'
  BY <1>1, NumbersStand DEF Numbered, Counted
<1>10. SupersededIsCancelled'
  <2>1. \A d \in Callers : at[d] = "launched" => d # c
    BY <1>1
  <2> QED
    BY <1>1, <1>2, <2>1, StillSuperseded
<1> QED
  BY <1>3, <1>4, <1>5, <1>6, <1>7, <1>8, <1>9, <1>10

(* Start, on the session it is given or on a fork of it.                   *)
LEMMA StartKeeps ==
  ASSUME ClientInv, NEW s \in Sessions, NEW fork \in BOOLEAN, Start(s, fork)
  PROVE  ClientInv'
<1> USE DEF ClientInv
<1>1. UNCHANGED <<closed, current, callVars, runVars, files>>
  BY DEF Start
<1>2. ForkSession \in Sessions
  BY ConversationAssumption
<1>3. ClientTyped'
  BY <1>2 DEF Start, ClientTyped
<1>4. CallsTyped' /\ RunsTyped' /\ IsTree(files)'
  BY <1>1, Untouched DEF runVars
<1>5. MessagesTyped'
  BY <1>2 DEF Start, MessagesTyped, storeVars
<1>6. FilesCheckpointed'
  BY <1>2 DEF Start, FilesCheckpointed, storeVars
<1>7. Numbered'
  <2>1. turns' \in [Sessions -> Nat] /\ \A t \in Sessions : turns'[t] <= 1 + Questions
    BY <1>2 DEF Start, Numbered, storeVars
  <2> QED
    BY <1>1, <2>1, NumbersStand DEF runVars, Counted
<1>8. SupersededIsCancelled'
  BY <1>1, StillSuperseded DEF runVars, callVars
<1> QED
  BY <1>3, <1>4, <1>5, <1>6, <1>7, <1>8

(* A run is launched: the caller holds it until it is the current one.     *)
LEMMA LaunchKeeps ==
  ASSUME ClientInv, NEW c \in Callers, NEW s \in Sessions, QueryLaunch(c, s)
  PROVE  ClientInv'
<1> USE DEF ClientInv
<1>1. PICK r \in Runs : /\ stage[r] = "unused" /\ stage' = [stage EXCEPT ![r] = "launched"]
                        /\ sess' = [sess EXCEPT ![r] = s] /\ aim' = [aim EXCEPT ![c] = r]
  BY DEF QueryLaunch
<1>2. /\ at[c] = "checked" /\ at' = [at EXCEPT ![c] = "launched"]
      /\ UNCHANGED <<clientVars, goal, base, uid, tally, cancelled, storeVars, files>>
  BY DEF QueryLaunch
<1>3. stage \in [Runs -> Stages] /\ \A q \in Runs \ {r} : stage'[q] = stage[q]
  BY <1>1 DEF RunsTyped
<1>4. at \in [Callers -> Places] /\ aim \in [Callers -> Runs \cup {NoRun}] /\ stage'[r] = "launched"
  BY <1>1, <1>3 DEF CallsTyped
<1>5. ClientTyped' /\ MessagesTyped' /\ FilesCheckpointed' /\ IsTree(files)'
  BY <1>2, Untouched DEF storeVars
<1>6. CallsTyped'
  BY <1>1, <1>2 DEF CallsTyped, Places
<1>7. RunsTyped'
  BY <1>1, <1>2 DEF RunsTyped, Stages
<1>8. Numbered'
  <2>1. Counted' = Counted
    BY <1>1, <1>3, <1>4 DEF Counted
  <2>2. \A q \in Runs : stage[q] = "numbered" => stage'[q] = "numbered"
    BY <1>1, <1>3
  <2> QED
    BY <1>2, <2>1, <2>2, NumbersStand DEF Numbered, storeVars
<1>9. SupersededIsCancelled'
  <2> SUFFICES ASSUME NEW q \in Runs
               PROVE  \/ stage'[q] \in {"unused", "done"} \/ q = current' \/ cancelled'[q]
                      \/ \E d \in Callers : at'[d] = "launched" /\ aim'[d] = q
    BY DEF SupersededIsCancelled
  <2>1. at'[c] = "launched" /\ aim'[c] = r
    BY <1>1, <1>2, <1>4
  <2>2. CASE q = r
    BY <2>1, <2>2
  <2>3. CASE q # r
    <3>1. \A d \in Callers : at[d] = "launched" => at'[d] = "launched" /\ aim'[d] = aim[d]
      BY <1>1, <1>2, <1>4
    <3>2. \/ stage[q] \in {"unused", "done"} \/ q = current \/ cancelled[q]
          \/ \E d \in Callers : at[d] = "launched" /\ aim[d] = q
      BY DEF SupersededIsCancelled
    <3> QED
      BY <1>2, <1>3, <2>3, <3>1, <3>2 DEF clientVars
  <2> QED
    BY <2>2, <2>3
<1> QED
  BY <1>5, <1>6, <1>7, <1>8, <1>9

(* It becomes the current one, and the one before is cancelled.            *)
LEMMA SetCurrentKeeps ==
  ASSUME ClientInv, NEW c \in Callers, QuerySetCurrent(c)
  PROVE  ClientInv'
<1> USE DEF ClientInv
<1>1. /\ at[c] = "launched" /\ at' = [at EXCEPT ![c] = "idle"]
      /\ current' = aim[c] /\ active' = sess[aim[c]]
      /\ cancelled' = [q \in Runs |-> cancelled[q] \/ q = current]
      /\ UNCHANGED <<connected, closed, aim, goal, stage, sess, base, uid, tally, storeVars, files>>
  BY DEF QuerySetCurrent, Supersede
<1>2. aim[c] \in Runs /\ at \in [Callers -> Places]
  BY <1>1 DEF CallsTyped
<1>3. ClientTyped'
  BY <1>1, <1>2 DEF ClientTyped, RunsTyped
<1>4. CallsTyped'
  BY <1>1 DEF CallsTyped, Places
<1>5. RunsTyped'
  <2>1. \A q \in Runs : (cancelled[q] \/ q = current) \in BOOLEAN
    OBVIOUS
  <2> QED
    BY <1>1, <2>1 DEF RunsTyped
<1>6. MessagesTyped' /\ FilesCheckpointed' /\ IsTree(files)'
  BY <1>1, Untouched DEF storeVars
<1>7. Numbered'
  BY <1>1, NumbersStand DEF Numbered, Counted, storeVars
<1>8. SupersededIsCancelled'
  <2> SUFFICES ASSUME NEW q \in Runs
               PROVE  \/ stage'[q] \in {"unused", "done"} \/ q = current' \/ cancelled'[q]
                      \/ \E d \in Callers : at'[d] = "launched" /\ aim'[d] = q
    BY DEF SupersededIsCancelled
  <2>1. cancelled'[q] = (cancelled[q] \/ q = current)
    BY <1>1
  <2>2. \A d \in Callers : at[d] = "launched" => d = c \/ (at'[d] = "launched" /\ aim'[d] = aim[d])
    BY <1>1, <1>2
  <2>3. \/ stage[q] \in {"unused", "done"} \/ q = current \/ cancelled[q]
        \/ \E d \in Callers : at[d] = "launched" /\ aim[d] = q
    BY DEF SupersededIsCancelled
  <2>4. CASE stage[q] \in {"unused", "done"} \/ q = current \/ cancelled[q]
    BY <1>1, <2>1, <2>4
  <2>5. CASE \E d \in Callers : at[d] = "launched" /\ aim[d] = q
    BY <1>1, <2>2, <2>5
  <2> QED
    BY <2>3, <2>4, <2>5
<1> QED
  BY <1>3, <1>4, <1>5, <1>6, <1>7, <1>8

(* A run goes on: what its client and its callers see does not change.     *)
LEMMA RunMoves ==
  ASSUME ClientInv, NEW r \in Runs, NEW from \in Stages \ {"unused", "done"}, NEW to \in Stages,
         Advance(r, from, to), UNCHANGED <<clientVars, callVars, sess, cancelled>>
  PROVE  /\ ClientTyped' /\ CallsTyped' /\ SupersededIsCancelled'
         /\ base' \in [Runs -> Seq(ItemType)] => RunsTyped'
         /\ stage[r] = from /\ stage'[r] = to /\ \A q \in Runs \ {r} : stage'[q] = stage[q]
<1> USE DEF ClientInv
<1>1. stage[r] = from /\ stage'[r] = to /\ \A q \in Runs \ {r} : stage'[q] = stage[q]
  BY DEF Advance, RunsTyped
<1>2. ClientTyped' /\ CallsTyped'
  BY Untouched
<1>3. SupersededIsCancelled'
  <2>1. \A q \in Runs : stage[q] \in {"unused", "done"} => stage'[q] = stage[q]
    BY <1>1
  <2> QED
    BY <2>1, StillSuperseded DEF clientVars, callVars
<1>4. base' \in [Runs -> Seq(ItemType)] => RunsTyped'
  BY DEF Advance, RunsTyped
<1> QED
  BY <1>1, <1>2, <1>3, <1>4

(* What a run stores for its session is a conversation.                    *)
LEMMA RunMessages ==
  ASSUME RunsTyped, NEW r \in Runs
  PROVE  Asked(r) \in Seq(ItemType) /\ Answered(r) \in Seq(ItemType)
<1>1. Item("user", r) \in ItemType /\ Item("assistant", r) \in ItemType
  BY DEF Item, ItemType
<1>2. base[r] \in Seq(ItemType)
  BY DEF RunsTyped
<1>3. Asked(r) \in Seq(ItemType)
  BY <1>1, <1>2 DEF Asked
<1> QED
  BY <1>1, <1>3 DEF Answered

(* The steps of a run up to its question's number.                         *)
LEMMA NumberingKeeps ==
  ASSUME ClientInv, NEW r \in Runs, RunCopy(r) \/ RunNumber(r) \/ RunCount(r)
  PROVE  ClientInv'
<1> USE DEF ClientInv
<1>1. sess[r] \in Sessions
  BY DEF RunsTyped
<1>2. CASE RunCopy(r)
  <2>1. /\ Advance(r, "launched", "copied") /\ base' = [base EXCEPT ![r] = msgs[sess[r]]]
        /\ UNCHANGED <<clientVars, callVars, sess, uid, tally, cancelled, storeVars, files>>
    BY <1>2 DEF RunCopy
  <2>2. base' \in [Runs -> Seq(ItemType)]
    BY <1>1, <2>1 DEF RunsTyped, MessagesTyped
  <2>3. {"launched", "copied"} \subseteq Stages \ {"unused", "done"}
    BY DEF Stages
  <2>4. /\ ClientTyped' /\ CallsTyped' /\ SupersededIsCancelled' /\ RunsTyped'
        /\ stage[r] = "launched" /\ stage'[r] = "copied" /\ \A q \in Runs \ {r} : stage'[q] = stage[q]
    BY <2>1, <2>2, <2>3, RunMoves
  <2>5. MessagesTyped' /\ FilesCheckpointed' /\ IsTree(files)'
    BY <2>1, Untouched DEF storeVars
  <2>6. Numbered'
    <3>1. Counted' = Counted /\ \A q \in Runs : stage[q] = "numbered" => stage'[q] = "numbered"
      BY <2>4 DEF Counted
    <3> QED
      BY <2>1, <3>1, NumbersStand DEF Numbered, storeVars
  <2> QED
    BY <2>4, <2>5, <2>6
<1>3. CASE RunNumber(r)
  <2>1. /\ Advance(r, "copied", "numbered") /\ uid' = [uid EXCEPT ![r] = turns[sess[r]] + 1]
        /\ UNCHANGED <<clientVars, callVars, sess, base, tally, cancelled, storeVars, files>>
    BY <1>3 DEF RunNumber
  <2>2. base' \in [Runs -> Seq(ItemType)]
    BY <2>1 DEF RunsTyped
  <2>3. {"copied", "numbered"} \subseteq Stages \ {"unused", "done"}
    BY DEF Stages
  <2>4. /\ ClientTyped' /\ CallsTyped' /\ SupersededIsCancelled' /\ RunsTyped'
        /\ stage[r] = "copied" /\ stage'[r] = "numbered" /\ \A q \in Runs \ {r} : stage'[q] = stage[q]
    BY <2>1, <2>2, <2>3, RunMoves
  <2>5. MessagesTyped' /\ FilesCheckpointed' /\ IsTree(files)'
    BY <2>1, Untouched DEF storeVars
  <2>6. Numbered'
    <3>1. Counted' = Counted
      BY <2>4 DEF Counted
    <3>2. Questions' = Questions /\ Questions \in Nat
      BY <3>1, QuestionsBounded DEF Questions
    <3>3. turns[sess[r]] \in Nat /\ turns[sess[r]] <= 1 + Questions
      BY <1>1 DEF Numbered
    <3>4. /\ uid' \in [Runs -> Nat] /\ uid'[r] = turns[sess[r]] + 1
          /\ \A q \in Runs \ {r} : uid'[q] = uid[q]
      BY <2>1, <3>3 DEF Numbered
    <3>5. uid'[r] <= 2 + Questions
      BY <3>2, <3>3, <3>4
    <3>6. \A q \in Runs : uid'[q] <= (IF stage'[q] = "numbered" THEN 2 ELSE 1) + Questions
      BY <2>4, <3>4, <3>5 DEF Numbered
    <3> QED
      BY <2>1, <3>2, <3>4, <3>6 DEF Numbered, storeVars
  <2> QED
    BY <2>4, <2>5, <2>6
<1>4. CASE RunCount(r)
  <2> DEFINE to == IF Checkpointing THEN "asked" ELSE "ready"
  <2>1. /\ Advance(r, "numbered", to)
        /\ UNCHANGED <<clientVars, callVars, sess, base, uid, tally, cancelled, msgs, snaps, fileSnaps, files>>
    BY <1>4 DEF RunCount
  <2>2. PICK t \in {turns[sess[r]] + 1, uid[r]} : turns' = [turns EXCEPT ![sess[r]] = t]
    BY <1>4 DEF RunCount
  <2>3. base' \in [Runs -> Seq(ItemType)]
    BY <2>1 DEF RunsTyped
  <2>4. "numbered" \in Stages \ {"unused", "done"} /\ to \in Stages /\ to \in {"asked", "ready"}
    BY DEF Stages
  <2> HIDE DEF to
  <2>5. /\ ClientTyped' /\ CallsTyped' /\ SupersededIsCancelled' /\ RunsTyped'
        /\ stage[r] = "numbered" /\ stage'[r] = to /\ \A q \in Runs \ {r} : stage'[q] = stage[q]
    BY <2>1, <2>3, <2>4, RunMoves
  <2>6. MessagesTyped' /\ FilesCheckpointed' /\ IsTree(files)'
    BY <2>1, Untouched
  <2>7. Numbered'
    <3>1. r \notin Counted /\ Counted' = Counted \cup {r}
      BY <2>4, <2>5 DEF Counted
    <3>2. Questions' = Questions + 1 /\ Questions \in Nat
      BY <3>1, OneMoreQuestion, QuestionsBounded
    <3>3. t \in Nat /\ t <= 2 + Questions
      <4>1. turns[sess[r]] \in Nat /\ turns[sess[r]] <= 1 + Questions
        BY <1>1 DEF Numbered
      <4>2. uid[r] \in Nat /\ uid[r] <= 2 + Questions
        BY <2>5 DEF Numbered
      <4> QED
        BY <2>2, <3>2, <4>1, <4>2
    <3>4. turns' \in [Sessions -> Nat] /\ \A s \in Sessions : turns'[s] = t \/ turns'[s] = turns[s]
      BY <2>2, <3>3 DEF Numbered
    <3>5. \A s \in Sessions : turns'[s] <= 1 + Questions'
      <4> TAKE s \in Sessions
      <4>1. turns[s] \in Nat /\ turns[s] <= 1 + Questions
        BY DEF Numbered
      <4> QED
        BY <3>2, <3>3, <3>4, <4>1
    <3>6. \A q \in Runs : tally[q] <= 1 + Questions'
      BY <3>2 DEF Numbered
    <3>7. \A q \in Runs : uid[q] <= (IF stage'[q] = "numbered" THEN 2 ELSE 1) + Questions'
      <4> TAKE q \in Runs
      <4>1. uid[q] \in Nat /\ uid[q] <= 2 + Questions
        BY <3>2 DEF Numbered
      <4> QED
        BY <3>2, <4>1
    <3> QED
      BY <2>1, <3>4, <3>5, <3>6, <3>7 DEF Numbered
  <2> QED
    BY <2>5, <2>6, <2>7
<1> QED
  BY <1>2, <1>3, <1>4

(* The steps of a run from there to its end.                               *)
LEMMA RunsKeep ==
  ASSUME ClientInv, NEW r \in Runs,
         RunTally(r) \/ RunSave(r) \/ RunSnapshot(r) \/ RunSnapshotFiles(r)
           \/ RunAnswer(r) \/ RunCommit(r) \/ RunFail(r)
  PROVE  ClientInv'
<1> USE DEF ClientInv
<1> DEFINE late == {"asked", "saving", "saved", "snapped", "ready", "answered", "storing", "done"}
<1>1. sess[r] \in Sessions
  BY DEF RunsTyped
<1>2. PICK from \in (late \ {"done"}) \union {"launched", "copied"}, to \in late : Advance(r, from, to)
  <2>1. CASE RunTally(r)
    BY <2>1 DEF RunTally
  <2>2. CASE RunSave(r) \/ RunSnapshot(r) \/ RunSnapshotFiles(r)
    BY <2>2 DEF RunSave, RunSnapshot, RunSnapshotFiles
  <2>3. CASE RunAnswer(r) \/ RunCommit(r)
    BY <2>3 DEF RunAnswer, RunCommit
  <2>4. CASE RunFail(r)
    BY <2>4 DEF RunFail, Advance
  <2> QED
    BY <2>1, <2>2, <2>3, <2>4
<1>3. UNCHANGED <<clientVars, callVars, sess, base, uid, cancelled, files>>
  BY DEF RunTally, RunSave, RunSnapshot, RunSnapshotFiles, RunAnswer, RunCommit, RunFail
<1>4. from \in Stages \ {"unused", "done"} /\ to \in Stages /\ base' \in [Runs -> Seq(ItemType)]
  BY <1>2, <1>3 DEF Stages, RunsTyped
<1>5. /\ ClientTyped' /\ CallsTyped' /\ SupersededIsCancelled' /\ RunsTyped'
      /\ stage[r] = from /\ stage'[r] = to /\ \A q \in Runs \ {r} : stage'[q] = stage[q]
  BY <1>2, <1>3, <1>4, RunMoves
<1>6. IsTree(files)'
  BY <1>3, Untouched
<1>7. MessagesTyped'
  <2>1. CASE UNCHANGED <<msgs, snaps>>
    BY <2>1, Untouched
  <2>2. CASE RunSave(r) \/ RunCommit(r)
    BY <1>1, <2>2, RunMessages DEF RunSave, RunCommit, SetState, MessagesTyped
  <2>3. CASE RunSnapshot(r)
    BY <1>1, <2>3 DEF RunSnapshot, SnapshotOf, MessagesTyped
  <2> QED
    BY <2>1, <2>2, <2>3 DEF RunTally, RunSnapshotFiles, RunAnswer, RunFail, storeVars
<1>8. FilesCheckpointed'
  <2>1. CASE UNCHANGED fileSnaps
    BY <2>1, Untouched
  <2>2. CASE RunSnapshotFiles(r)
    <3> DEFINE snapshot == captureFiles(files)
    <3>1. IsSnapshot(snapshot) /\ snapshot \in Snapshots
      BY CaptureIsSnapshot DEF IsSnapshot
    <3>2. fileSnaps' = [fileSnaps EXCEPT ![sess[r]][uid[r]] = {snapshot}]
      BY <2>2 DEF RunSnapshotFiles
    <3> HIDE DEF snapshot
    <3>3. fileSnaps' \in [Sessions -> [Uids -> SUBSET Snapshots]]
      BY <1>1, <3>1, <3>2 DEF FilesCheckpointed
    <3>4. \A s \in Sessions, u \in Uids : fileSnaps'[s][u] \in {fileSnaps[s][u], {snapshot}}
      BY <1>1, <3>2 DEF FilesCheckpointed
    <3>5. OneSnapshot({snapshot})
      BY <3>1 DEF OneSnapshot
    <3>6. \A s \in Sessions, u \in Uids : OneSnapshot(fileSnaps'[s][u])
      BY <3>4, <3>5 DEF FilesCheckpointed
    <3> QED
      BY <3>3, <3>6 DEF FilesCheckpointed
  <2> QED
    BY <2>1, <2>2 DEF RunTally, RunSave, RunSnapshot, RunAnswer, RunCommit, RunFail, storeVars
<1>9. Numbered'
  <2>1. Counted \subseteq Counted' /\ \A q \in Runs : stage[q] = "numbered" => stage'[q] = "numbered"
    BY <1>2, <1>5 DEF Counted
  <2>2. turns' \in [Sessions -> Nat] /\ \A s \in Sessions : turns'[s] <= 1 + Questions
    <3>1. CASE UNCHANGED turns
      BY <3>1 DEF Numbered
    <3>2. CASE RunSave(r) \/ RunCommit(r)
      <4>1. turns' = [turns EXCEPT ![sess[r]] = tally[r]]
        BY <3>2 DEF RunSave, RunCommit, SetState
      <4> QED
        BY <4>1 DEF Numbered
    <3> QED
      BY <3>1, <3>2 DEF RunTally, RunSnapshot, RunSnapshotFiles, RunAnswer, RunFail, storeVars
  <2>3. CASE UNCHANGED tally
    BY <1>3, <2>1, <2>2, <2>3, NumbersStand
  <2>4. CASE RunTally(r)
    <3>1. tally' = [tally EXCEPT ![r] = turns[sess[r]]] /\ UNCHANGED turns
      BY <2>4 DEF RunTally, storeVars
    <3>2. /\ tally' \in [Runs -> Nat] /\ \A q \in Runs : tally'[q] <= 1 + Questions
      BY <1>1, <3>1 DEF Numbered
    <3>3. Questions \in Nat /\ Questions' \in Nat /\ Questions <= Questions'
      BY <2>1, QuestionsBounded, MoreQuestions
    <3>4. /\ \A q \in Runs : tally'[q] <= 1 + Questions'
          /\ \A s \in Sessions : turns'[s] <= 1 + Questions'
      <4>1. \A q \in Runs : tally'[q] \in Nat
        BY <3>2
      <4>2. \A s \in Sessions : turns'[s] \in Nat
        BY <2>2
      <4> QED
        BY <2>2, <3>2, <3>3, <4>1, <4>2
    <3>5. \A q \in Runs : uid[q] <= (IF stage'[q] = "numbered" THEN 2 ELSE 1) + Questions'
      <4> TAKE q \in Runs
      <4>1. uid[q] \in Nat /\ uid[q] <= (IF stage[q] = "numbered" THEN 2 ELSE 1) + Questions
        BY DEF Numbered
      <4> QED
        BY <2>1, <3>3, <4>1
    <3>6. uid' \in [Runs -> Nat]
      BY <1>3 DEF Numbered
    <3>7. uid' = uid
      BY <1>3
    <3> QED
      BY <2>2, <3>2, <3>4, <3>5, <3>6, <3>7 DEF Numbered
  <2> QED
    BY <2>3, <2>4 DEF RunSave, RunSnapshot, RunSnapshotFiles, RunAnswer, RunCommit, RunFail
<1> QED
  BY <1>5, <1>6, <1>7, <1>8, <1>9

(* No step of the client, a caller or a run breaks any of it.              *)
LEMMA ClientInvKept == ClientInv /\ [Next]_vars => ClientInv'
<1> SUFFICES ASSUME ClientInv, [Next]_vars PROVE ClientInv'
  OBVIOUS
<1>1. CASE \E s \in Sessions, fork \in BOOLEAN : Start(s, fork)
  BY <1>1, StartKeeps
<1>2. ASSUME NEW c \in Talkers, Talk(c) PROVE ClientInv'
  <2>1. c \in Callers
    BY DEF Callers
  <2>2. CASE \E s \in Sessions : QueryLaunch(c, s)
    BY <2>1, <2>2, LaunchKeeps
  <2>3. CASE QuerySetCurrent(c)
    BY <2>1, <2>3, SetCurrentKeeps
  <2>4. CASE \/ QueryCheck(c) \/ \E u \in Uids : RewindChoose(c, u)
             \/ RewindMessages(c) \/ RewindWorkspace(c) \/ RewindFails(c)
    BY <2>1, <2>4, MethodsKeep
  <2> QED
    BY <1>2, <2>2, <2>3, <2>4 DEF Talk
<1>3. CASE \E c \in Interrupters : InterruptRead(c) \/ InterruptCancel(c)
  BY <1>3, MethodsKeep DEF Callers
<1>4. CASE \E c \in Closers : CloseClient(c)
  BY <1>4, MethodsKeep DEF Callers
<1>5. ASSUME NEW r \in Runs, RunProgress(r) PROVE ClientInv'
  BY <1>5, NumberingKeeps, RunsKeep DEF RunProgress
<1>6. ASSUME NEW r \in Runs, RunEdit(r) PROVE ClientInv'
  <2>1. /\ files' \in Edited(files)
        /\ UNCHANGED <<clientVars, callVars, runVars, storeVars>>
    BY <1>6 DEF RunEdit
  <2>2. IsTree(files)'
    BY <2>1, EditingKeepsTree DEF ClientInv
  <2>3. Numbered'
    BY <2>1, NumbersStand DEF ClientInv, Numbered, Counted, runVars, storeVars
  <2>4. SupersededIsCancelled'
    BY <2>1, StillSuperseded DEF ClientInv, clientVars, callVars, runVars
  <2> QED
    BY <2>1, <2>2, <2>3, <2>4, Untouched DEF ClientInv, runVars, storeVars
<1>7. CASE UNCHANGED vars
  <2>1. UNCHANGED <<clientVars, callVars, runVars, storeVars, files>>
    BY <1>7 DEF vars
  <2>2. Numbered'
    BY <2>1, NumbersStand DEF ClientInv, Numbered, Counted, runVars, storeVars
  <2>3. SupersededIsCancelled'
    BY <2>1, StillSuperseded DEF ClientInv, clientVars, callVars, runVars
  <2> QED
    BY <2>1, <2>2, <2>3, Untouched DEF ClientInv, runVars, storeVars
<1> QED
  BY <1>1, <1>2, <1>3, <1>4, <1>5, <1>6, <1>7 DEF Next, Quiet

(* All of it holds of every client.                                        *)
THEOREM ClientInvariant == Spec => []ClientInv
<1> QED
  BY ClientInvInitially, ClientInvKept, PTL DEF Spec

(* Every variable keeps its type, and the number of a question is one      *)
(* there can be (query_runner.go:355-356), however the callers race.       *)
THEOREM TypesAreKept == Spec => []TypeOK
<1>1. ASSUME ClientInv PROVE TypeOK
  <2> USE <1>1 DEF ClientInv
  <2>1. \A n \in Nat : n <= 1 + Questions => n \in Uids \cup {0}
    BY ConversationAssumption, QuestionsBounded DEF Uids
  <2>2. uid \in [Runs -> Uids \cup {0}]
    <3>1. ASSUME NEW r \in Runs PROVE uid[r] \in Uids \cup {0}
      <4>1. uid[r] \in Nat /\ uid[r] <= (IF stage[r] = "numbered" THEN 2 ELSE 1) + Questions
        BY DEF Numbered
      <4>2. CASE stage[r] = "numbered"
        <5>1. r \notin Counted
          BY <4>2 DEF Counted
        <5>2. MaxRuns \in Nat /\ Questions \in Nat /\ Questions < MaxRuns
          BY <5>1, QuestionsBounded, ConversationAssumption
        <5> QED
          BY <4>1, <4>2, <5>2 DEF Uids
      <4> QED
        BY <2>1, <4>1, <4>2
    <3> QED
      BY <3>1 DEF Numbered
  <2>3. tally \in [Runs -> Uids \cup {0}] /\ turns \in [Sessions -> Uids \cup {0}]
    BY <2>1 DEF Numbered
  <2>4. \A s \in Sessions, u \in Uids : Cardinality(fileSnaps[s][u]) <= 1
    <3> TAKE s \in Sessions, u \in Uids
    <3>1. fileSnaps[s][u] = {} \/ \E snapshot : fileSnaps[s][u] = {snapshot}
      BY DEF FilesCheckpointed, OneSnapshot, NoFiles
    <3>2. Cardinality({}) = 0
      BY FS_EmptySet
    <3>3. \A snapshot : Cardinality({snapshot}) = 1
      BY FS_Singleton
    <3>4. Cardinality(fileSnaps[s][u]) = 0 \/ Cardinality(fileSnaps[s][u]) = 1
      BY <3>1, <3>2, <3>3
    <3> QED
      BY <3>4
  <2>5. \A p \in DOMAIN files :
          files[p] \in Contents \union {Dir, Torn} /\ \A q \in Above(p) : q \in DOMAIN files /\ ~IsFile(files, q)
    BY DEF IsTree, Trees, IsFile
  <2> QED
    BY <2>2, <2>3, <2>4, <2>5 DEF TypeOK, ClientTyped, CallsTyped, Places, RunsTyped, MessagesTyped
<1> QED
  BY <1>1, ClientInvariant, PTL

(* At most one run goes on uncancelled behind the client: setCurrent and   *)
(* Close (client_impl.go:327-343) miss none that was replaced, in whatever *)
(* order the queries, interrupts and closes of its callers take their      *)
(* turns.                                                                  *)
THEOREM ReplacedRunsAreCancelled == Spec => []SupersededIsCancelled
<1>1. ClientInv => SupersededIsCancelled
  BY DEF ClientInv
<1> QED
  BY <1>1, ClientInvariant, PTL

-----------------------------------------------------------------------------
(* One goroutine that asks and rewinds, and reads each response to its     *)
(* end; interrupts and closes may still come from others.                  *)
OneReader == Drains /\ \E owner : Talkers = {owner}

\* Inside a method that launches a run or rewinds.
Busy == {"checked", "launched", "rewindMessages", "rewindFiles"}
Active(r) == stage[r] \notin {"unused", "done"}
Over(r) == r # NoRun => stage[r] = "done"

\* Only the talker is, and then the last response is over.
OneTalker == \A c \in Callers : at[c] \in Busy => c \in Talkers /\ Over(current)

\* A run that is under way is the current one, or launched and about to be.
OneRun ==
  /\ current # NoRun => stage[current] # "unused"
  /\ \A c \in Callers : at[c] = "launched" => aim[c] \in Runs /\ stage[aim[c]] # "unused"
  /\ \A r \in Runs : Active(r) => r = current \/ \E c \in Talkers : at[c] = "launched" /\ aim[c] = r

\* Until it is started a client does nothing, so a fork overwrites nothing.
Fresh ==
  ~connected /\ ~closed =>
    /\ \A r \in Runs : stage[r] = "unused"
    /\ \A c \in Callers : at[c] = "idle"
    /\ msgs[ForkSession] = <<>>
    /\ \A s \in Sessions, u \in Uids : snaps[s][u] = <<>> /\ fileSnaps[s][u] = NoFiles

\* What a run has read of its session is still there.
Asking == {"asked", "saving", "saved", "snapped"}
Answering == {"ready", "answered", "storing"}
HasRead(r) ==
  LET s == sess[r] IN
  /\ stage[r] \in Asking => Checkpointing
  /\ stage[r] \in {"copied", "numbered", "asked", "saving"} => msgs[s] = base[r]
  /\ stage[r] \in {"saved", "snapped"} => msgs[s] = Asked(r)
  /\ stage[r] \in Answering => msgs[s] = (IF Checkpointing THEN Asked(r) ELSE base[r])
  /\ stage[r] \in {"snapped"} \union Answering /\ Checkpointing => snaps[s][uid[r]] = Asked(r)

\* Its number is the session's, and new to it.
HasNumber(r) ==
  LET s == sess[r] IN
  /\ stage[r] \in {"numbered"} \union Asking \union Answering => uid[r] \in Uids
  /\ stage[r] = "numbered" => uid[r] = turns[s] + 1
  /\ stage[r] \in Asking \union Answering => uid[r] = turns[s]
  /\ stage[r] \in {"saving", "storing"} => tally[r] = turns[s]
  /\ stage[r] \in {"asked", "saving", "saved"} => snaps[s][uid[r]] = <<>>
  /\ stage[r] \in Asking => fileSnaps[s][uid[r]] = NoFiles

\* No checkpoint is ahead of its session's counter.
CheckpointsBehind ==
  \A s \in Sessions, u \in Uids :
    snaps[s][u] # <<>> \/ fileSnaps[s][u] # NoFiles => u <= turns[s]

\* Between the two halves of a rewind the messages are the checkpoint's.
HalfRewound ==
  \A c \in Callers :
    at[c] = "rewindFiles" => msgs[goal[c][1]] = snaps[goal[c][1]][goal[c][2]]

SerialInv ==
  /\ OneTalker /\ OneRun /\ Fresh /\ HalfRewound /\ CheckpointsBehind
  /\ \A r \in Runs : HasRead(r) /\ HasNumber(r)

\* At first nobody reads.
LEMMA SerialInitially == Init => SerialInv
<1> SUFFICES ASSUME Init PROVE SerialInv
  OBVIOUS
<1>1. ForkSession \in Sessions /\ current = NoRun
  BY ConversationAssumption DEF Init
<1>2. (\A r \in Runs : stage[r] = "unused") /\ \A c \in Callers : at[c] = "idle"
  BY DEF Init
<1>3. \A s \in Sessions, u \in Uids : snaps[s][u] = <<>> /\ fileSnaps[s][u] = NoFiles
  BY DEF Init
<1>4. msgs[ForkSession] = <<>>
  BY <1>1 DEF Init
<1>5. OneTalker /\ HalfRewound
  BY <1>2 DEF OneTalker, HalfRewound, Busy
<1>6. OneRun
  BY <1>1, <1>2 DEF OneRun, Active
<1>7. Fresh /\ CheckpointsBehind
  BY <1>2, <1>3, <1>4 DEF Fresh, CheckpointsBehind
<1>8. \A r \in Runs : HasRead(r) /\ HasNumber(r)
  BY <1>2 DEF HasRead, HasNumber, Asking, Answering
<1> QED
  BY <1>5, <1>6, <1>7, <1>8 DEF SerialInv

(* While a run is under way no other is, and nobody rewinds.               *)
LEMMA Alone ==
  ASSUME OneReader, SerialInv, NEW r \in Runs, Active(r)
  PROVE  /\ \A q \in Runs : Active(q) => q = r
         /\ \A c \in Callers : at[c] \in Busy => at[c] = "launched" /\ current # r
         /\ connected \/ closed
<1> USE DEF SerialInv
<1>1. PICK owner : Talkers = {owner}
  BY DEF OneReader
<1>2. owner \in Callers
  BY <1>1 DEF Callers
<1>3. at[owner] \in Busy => ~(current \in Runs /\ Active(current))
  BY <1>2 DEF OneTalker, Over, Active, NoRun, Runs
<1>4. \A q \in Runs : Active(q) => \/ q = current /\ at[owner] \notin Busy
                                   \/ q = aim[owner] /\ at[owner] = "launched" /\ q # current
  BY <1>1, <1>2, <1>3 DEF OneRun, Busy
<1>5. \A q \in Runs : Active(q) => q = r
  BY <1>4 DEF Busy
<1>6. \A c \in Callers : at[c] \in Busy => at[c] = "launched" /\ current # r
  BY <1>1, <1>4 DEF OneTalker
<1>7. connected \/ closed
  BY DEF Fresh, Active
<1> QED
  BY <1>5, <1>6, <1>7

(* Nothing is under way inside these methods.                              *)
LEMMA NoneActive ==
  ASSUME OneReader, SerialInv, NEW c \in Callers, at[c] \in Busy \ {"launched"}
  PROVE  \A r \in Runs : ~Active(r)
<1> QED
  BY Alone

(* The part of it about one run is not disturbed while the run is over, or *)
(* nothing it has read or written changes.                                 *)
LEMMA RunsStand ==
  ASSUME SerialInv, NEW r \in Runs,
         \/ UNCHANGED <<stage, sess, base, uid, tally, msgs, turns, snaps, fileSnaps>>
         \/ stage'[r] \in {"unused", "launched", "done"}
  PROVE  HasRead(r)' /\ HasNumber(r)'
<1>1. HasRead(r) /\ HasNumber(r)
  BY DEF SerialInv
<1>2. CASE UNCHANGED <<stage, sess, base, uid, tally, msgs, turns, snaps, fileSnaps>>
  BY <1>1, <1>2 DEF HasRead, HasNumber, Asked
<1>3. CASE stage'[r] \in {"unused", "launched", "done"}
  BY <1>3 DEF HasRead, HasNumber, Asking, Answering
<1> QED
  BY <1>2, <1>3

(* A run goes on: the rest is as it was.                                   *)
LEMMA RunGoesOn ==
  ASSUME OneReader, ClientInv, SerialInv, NEW r \in Runs, Active(r),
         stage'[r] # "unused", \A q \in Runs \ {r} : stage'[q] = stage[q],
         UNCHANGED <<clientVars, callVars>>
  PROVE  /\ OneTalker' /\ OneRun' /\ Fresh' /\ HalfRewound'
         /\ \A q \in Runs \ {r} : HasRead(q)' /\ HasNumber(q)'
<1>1. /\ \A q \in Runs : Active(q) => q = r
      /\ \A c \in Callers : at[c] \in Busy => at[c] = "launched" /\ current # r
      /\ connected \/ closed
  BY Alone
<1>2. OneTalker /\ OneRun
  BY DEF SerialInv
<1>3. UNCHANGED <<connected, closed, current, at, aim>> /\ (current = NoRun \/ current \in Runs)
  BY DEF clientVars, callVars, ClientInv, ClientTyped
<1>4. OneTalker'
  <2> SUFFICES ASSUME NEW c \in Callers, at[c] \in Busy PROVE c \in Talkers /\ Over(current)'
    BY <1>3 DEF OneTalker
  <2>1. c \in Talkers /\ Over(current) /\ current # r
    BY <1>1, <1>2 DEF OneTalker
  <2> QED
    BY <1>3, <2>1 DEF Over
<1>5. OneRun'
  <2>1. current' # NoRun => stage'[current'] # "unused"
    BY <1>2, <1>3 DEF OneRun
  <2>2. \A c \in Callers : at'[c] = "launched" => aim'[c] \in Runs /\ stage'[aim'[c]] # "unused"
    BY <1>2, <1>3 DEF OneRun
  <2>3. \A q \in Runs : stage'[q] \notin {"unused", "done"} => Active(q)
    BY DEF Active
  <2>4. \A q \in Runs : stage'[q] \notin {"unused", "done"}
          => q = current' \/ \E c \in Talkers : at'[c] = "launched" /\ aim'[c] = q
    BY <1>2, <1>3, <2>3 DEF OneRun
  <2> QED
    BY <2>1, <2>2, <2>4 DEF OneRun, Active
<1>6. Fresh'
  BY <1>1, <1>3 DEF Fresh
<1>7. HalfRewound'
  BY <1>1, <1>3 DEF HalfRewound, Busy
<1>8. \A q \in Runs \ {r} : stage'[q] \in {"unused", "done"}
  BY <1>1 DEF Active
<1>9. \A q \in Runs \ {r} : HasRead(q)' /\ HasNumber(q)'
  BY <1>8, RunsStand
<1> QED
  BY <1>4, <1>5, <1>6, <1>7, <1>9

(* A caller that enters or leaves a method: interrupts, closes, rewinds.   *)
LEMMA SerialMethods ==
  ASSUME OneReader, ClientInv, SerialInv, NEW c \in Callers,
         \/ (c \in Talkers /\ QueryCheck(c)) \/ InterruptRead(c) \/ InterruptCancel(c) \/ CloseClient(c)
         \/ c \in Talkers /\ \E u \in Uids : RewindChoose(c, u)
         \/ RewindMessages(c) \/ RewindWorkspace(c) \/ RewindFails(c)
  PROVE  SerialInv'
<1> USE DEF SerialInv
<1>1. /\ at \in [Callers -> Places] /\ aim \in [Callers -> Runs \cup {NoRun}]
      /\ goal \in [Callers -> Sessions \X (Uids \cup {0})] /\ msgs \in [Sessions -> Seq(ItemType)]
  BY DEF ClientInv, CallsTyped, MessagesTyped
<1>2. UNCHANGED <<current, stage, sess, base, uid, tally, turns, snaps, fileSnaps>>
  BY DEF QueryCheck, InterruptRead, InterruptCancel, CloseClient, RewindChoose, RewindMessages,
         RewindWorkspace, RewindFails, clientVars, runVars, storeVars
<1>3. /\ at[c] # "launched" /\ at'[c] # "launched"
      /\ at'[c] \in Busy => c \in Talkers /\ Over(current)
      /\ \A d \in Callers \ {c} : at'[d] = at[d] /\ aim'[d] = aim[d] /\ goal'[d] = goal[d]
  <2>1. at[c] # "launched"
    BY DEF QueryCheck, InterruptRead, InterruptCancel, CloseClient, RewindChoose, RewindMessages,
           RewindWorkspace, RewindFails, Free
  <2>2. CASE InterruptRead(c) \/ InterruptCancel(c) \/ CloseClient(c) \/ RewindWorkspace(c) \/ RewindFails(c)
    <3>1. at' = [at EXCEPT ![c] = "idle"] \/ at' = [at EXCEPT ![c] = "interrupt"]
            \/ (at[c] = "idle" /\ at' = at)
      BY <2>2 DEF InterruptRead, InterruptCancel, CloseClient, RewindWorkspace, RewindFails, callVars
    <3>2. goal' = goal /\ (aim' = aim \/ aim' = [aim EXCEPT ![c] = current])
      BY <2>2 DEF InterruptRead, InterruptCancel, CloseClient, RewindWorkspace, RewindFails, callVars
    <3> QED
      BY <1>1, <2>1, <3>1, <3>2 DEF Busy
  <2>3. CASE (c \in Talkers /\ QueryCheck(c)) \/ (c \in Talkers /\ \E u \in Uids : RewindChoose(c, u))
    <3>1. c \in Talkers /\ Over(current)
      BY <2>3 DEF QueryCheck, RewindChoose, Free, Over, ResponseOver, OneReader
    <3>2. /\ at' = [at EXCEPT ![c] = "checked"] \/ at' = [at EXCEPT ![c] = "rewindMessages"]
          /\ aim' = aim
          /\ goal' = goal \/ \E u \in Uids : goal' = [goal EXCEPT ![c] = <<active, u>>]
      BY <2>3 DEF QueryCheck, RewindChoose
    <3> QED
      BY <1>1, <2>1, <3>1, <3>2
  <2>4. CASE RewindMessages(c)
    <3>1. at[c] = "rewindMessages" /\ at' = [at EXCEPT ![c] = "rewindFiles"] /\ aim' = aim /\ goal' = goal
      BY <2>4 DEF RewindMessages
    <3> QED
      BY <1>1, <3>1 DEF OneTalker, Busy
  <2> QED
    BY <2>2, <2>3, <2>4
<1>4. OneTalker'
  BY <1>2, <1>3 DEF OneTalker, Over
<1>5. OneRun'
  <2>1. \A d \in Callers : at[d] = "launched" => at'[d] = "launched" /\ aim'[d] = aim[d]
    BY <1>3
  <2>2. \A d \in Callers : at'[d] = "launched" => at[d] = "launched" /\ aim'[d] = aim[d]
    BY <1>3
  <2>3. Talkers \subseteq Callers
    BY DEF Callers
  <2> QED
    BY <1>2, <2>1, <2>2, <2>3 DEF OneRun, Active
<1>6. Fresh'
  <2>1. CASE CloseClient(c)
    BY <2>1 DEF CloseClient, Fresh
  <2>2. CASE connected \/ closed
    BY <2>2 DEF QueryCheck, InterruptRead, InterruptCancel, CloseClient, RewindChoose, RewindMessages,
           RewindWorkspace, RewindFails, clientVars, Fresh
  <2>3. connected \/ closed \/ at[c] = "idle"
    BY DEF Fresh
  <2>4. connected \/ closed \/ CloseClient(c)
    BY <2>3 DEF QueryCheck, InterruptRead, InterruptCancel, RewindChoose, RewindMessages,
           RewindWorkspace, RewindFails, IsConnected
  <2> QED
    BY <2>1, <2>2, <2>4
<1>7. CheckpointsBehind'
  BY <1>2 DEF CheckpointsBehind
<1>8. CASE RewindMessages(c)
  <2> DEFINE s == goal[c][1]
             u == goal[c][2]
  <2>1. /\ at[c] = "rewindMessages" /\ goal' = goal
        /\ msgs' = [msgs EXCEPT ![s] = snaps[s][u]]
    BY <1>8 DEF RewindMessages
  <2>2. s \in Sessions
    BY <1>1
  <2>3. \A r \in Runs : stage'[r] \in {"unused", "done"}
    BY <1>2, <2>1, NoneActive DEF Active, Busy
  <2>4. \A r \in Runs : HasRead(r)' /\ HasNumber(r)'
    BY <2>3, RunsStand
  <2>5. HalfRewound'
    <3> SUFFICES ASSUME NEW d \in Callers, at'[d] = "rewindFiles"
                 PROVE  msgs'[goal[d][1]] = snaps[goal[d][1]][goal[d][2]]
      BY <1>2, <2>1 DEF HalfRewound
    <3>1. d = c
      <4>1. PICK owner : Talkers = {owner}
        BY DEF OneReader
      <4>2. c = owner
        BY <2>1, <4>1 DEF OneTalker, Busy
      <4>3. d = owner
        BY <1>4, <4>1 DEF OneTalker, Busy
      <4> QED
        BY <4>2, <4>3
    <3> QED
      BY <1>1, <2>1, <2>2, <3>1
  <2> QED
    BY <1>4, <1>5, <1>6, <1>7, <2>4, <2>5
<1>9. CASE ~RewindMessages(c)
  <2>1. msgs' = msgs
    BY <1>9 DEF QueryCheck, InterruptRead, InterruptCancel, CloseClient, RewindChoose,
           RewindWorkspace, RewindFails, storeVars
  <2>2. \A r \in Runs : HasRead(r)' /\ HasNumber(r)'
    BY <1>2, <2>1, RunsStand
  <2>3. at'[c] # "rewindFiles"
    <3>1. at' = [at EXCEPT ![c] = "idle"] \/ at' = [at EXCEPT ![c] = "interrupt"]
            \/ at' = [at EXCEPT ![c] = "checked"] \/ at' = [at EXCEPT ![c] = "rewindMessages"]
            \/ (at[c] = "idle" /\ at' = at)
      BY <1>9 DEF QueryCheck, InterruptRead, InterruptCancel, CloseClient, RewindChoose,
             RewindWorkspace, RewindFails, callVars
    <3> QED
      BY <1>1, <3>1
  <2>4. HalfRewound'
    BY <1>2, <1>3, <2>1, <2>3 DEF HalfRewound
  <2> QED
    BY <1>4, <1>5, <1>6, <1>7, <2>2, <2>4
<1> QED
  BY <1>8, <1>9

(* The talker launches a run when none is under way.                       *)
LEMMA SerialLaunch ==
  ASSUME OneReader, ClientInv, SerialInv, NEW c \in Talkers, NEW s \in Sessions, QueryLaunch(c, s)
  PROVE  SerialInv'
<1> USE DEF SerialInv
<1>1. PICK r \in Runs : /\ stage[r] = "unused" /\ stage' = [stage EXCEPT ![r] = "launched"]
                        /\ aim' = [aim EXCEPT ![c] = r]
  BY DEF QueryLaunch
<1>2. /\ at[c] = "checked" /\ at' = [at EXCEPT ![c] = "launched"]
      /\ UNCHANGED <<connected, closed, current, goal, msgs, turns, snaps, fileSnaps>>
  BY DEF QueryLaunch, clientVars, storeVars
<1>3. c \in Callers /\ \A d \in Callers : at[d] \in Busy => d = c
  BY <1>2 DEF OneReader, OneTalker, Callers
<1>4. /\ stage \in [Runs -> Stages] /\ at \in [Callers -> Places]
      /\ aim \in [Callers -> Runs \cup {NoRun}]
  BY DEF ClientInv, RunsTyped, CallsTyped
<1>5. stage'[r] = "launched" /\ \A q \in Runs \ {r} : stage'[q] = stage[q]
  BY <1>1, <1>4
<1>6. at'[c] = "launched" /\ aim'[c] = r /\ \A d \in Callers \ {c} : at'[d] = at[d] /\ at[d] \notin Busy
  BY <1>1, <1>2, <1>3, <1>4
<1>7. \A q \in Runs : ~Active(q)
  BY <1>2, <1>3, NoneActive DEF Busy
<1>8. Over(current) /\ current # r /\ (current = NoRun \/ current \in Runs)
  BY <1>1, <1>2, <1>3 DEF OneTalker, Over, Busy, Runs, NoRun, ClientInv, ClientTyped
<1>9. OneTalker'
  <2>1. \A d \in Callers : at'[d] \in Busy => d = c
    BY <1>6
  <2>2. Over(current)'
    BY <1>2, <1>5, <1>8 DEF Over
  <2> QED
    BY <2>1, <2>2 DEF OneTalker
<1>10. OneRun'
  <2>1. current' # NoRun => stage'[current'] # "unused"
    BY <1>2, <1>5, <1>8 DEF Over
  <2>2. \A d \in Callers : at'[d] = "launched" => aim'[d] \in Runs /\ stage'[aim'[d]] # "unused"
    BY <1>5, <1>6 DEF Busy
  <2>3. \A q \in Runs : stage'[q] \notin {"unused", "done"} => q = r
    BY <1>5, <1>7 DEF Active
  <2> QED
    BY <1>6, <2>1, <2>2, <2>3 DEF OneRun, Active
<1>11. Fresh'
  BY <1>2, <1>3 DEF Fresh
<1>12. HalfRewound'
  BY <1>2, <1>6 DEF HalfRewound, Busy
<1>13. CheckpointsBehind'
  BY <1>2 DEF CheckpointsBehind
<1>14. \A q \in Runs : HasRead(q)' /\ HasNumber(q)'
  <2>1. \A q \in Runs : stage'[q] \in {"unused", "launched", "done"}
    BY <1>5, <1>7 DEF Active
  <2> QED
    BY <2>1, RunsStand
<1> QED
  BY <1>9, <1>10, <1>11, <1>12, <1>13, <1>14

(* It becomes the current one; the one before is over.                     *)
LEMMA SerialSetCurrent ==
  ASSUME OneReader, ClientInv, SerialInv, NEW c \in Talkers, QuerySetCurrent(c)
  PROVE  SerialInv'
<1> USE DEF SerialInv
<1>1. /\ at[c] = "launched" /\ at' = [at EXCEPT ![c] = "idle"] /\ current' = aim[c]
      /\ UNCHANGED <<connected, closed, aim, goal, stage, sess, base, uid, tally, msgs, turns, snaps, fileSnaps>>
  BY DEF QuerySetCurrent, storeVars
<1>2. c \in Callers /\ \A d \in Callers : at[d] \in Busy => d = c
  BY <1>1 DEF OneReader, OneTalker, Callers
<1>3. at \in [Callers -> Places] /\ (current = NoRun \/ current \in Runs)
  BY DEF ClientInv, CallsTyped, ClientTyped
<1>4. \A d \in Callers : at'[d] \notin Busy
  BY <1>1, <1>2, <1>3 DEF Busy
<1>5. aim[c] \in Runs /\ stage[aim[c]] # "unused" /\ Over(current)
  BY <1>1, <1>2 DEF OneRun, OneTalker, Busy
<1>6. OneTalker' /\ HalfRewound'
  BY <1>4 DEF OneTalker, HalfRewound, Busy
<1>7. OneRun'
  <2>1. \A q \in Runs : Active(q) => q = aim[c]
    <3>1. \A q \in Runs : Active(q) => q # current
      BY <1>5 DEF Over, Active, Runs, NoRun
    <3>2. \A d \in Talkers : d \in Callers
      BY DEF Callers
    <3> QED
      BY <1>2, <3>1, <3>2 DEF OneRun, Busy
  <2> QED
    BY <1>1, <1>4, <1>5, <2>1 DEF OneRun, Active, Busy
<1>8. Fresh'
  BY <1>1, <1>2 DEF Fresh
<1>9. CheckpointsBehind'
  BY <1>1 DEF CheckpointsBehind
<1>10. \A q \in Runs : HasRead(q)' /\ HasNumber(q)'
  BY <1>1, RunsStand
<1> QED
  BY <1>6, <1>7, <1>8, <1>9, <1>10

(* A client is started once, before anything else.                         *)
LEMMA SerialStart ==
  ASSUME SerialInv, ClientInv, NEW s \in Sessions, NEW fork \in BOOLEAN, Start(s, fork)
  PROVE  SerialInv'
<1> USE DEF SerialInv
<1>1. ~connected /\ ~closed /\ connected' = TRUE /\ UNCHANGED <<current, callVars, runVars>>
  BY DEF Start
<1>2. /\ \A r \in Runs : stage[r] = "unused"
      /\ \A c \in Callers : at[c] = "idle"
      /\ \A t \in Sessions, u \in Uids : snaps[t][u] = <<>> /\ fileSnaps[t][u] = NoFiles
  BY <1>1 DEF Fresh
<1>3. UNCHANGED <<at, aim, goal, stage>>
  BY <1>1 DEF callVars, runVars
<1>4. OneTalker' /\ HalfRewound'
  BY <1>2, <1>3 DEF OneTalker, HalfRewound, Busy
<1>5. OneRun'
  BY <1>1, <1>2, <1>3 DEF OneRun, Active
<1>6. Fresh'
  BY <1>1 DEF Fresh
<1>7. CheckpointsBehind'
  <2>1. ForkSession \in Sessions
    BY ConversationAssumption
  <2>2. snaps \in [Sessions -> [Uids -> Seq(ItemType)]] /\ fileSnaps \in [Sessions -> [Uids -> SUBSET Snapshots]]
    BY DEF ClientInv, MessagesTyped, FilesCheckpointed
  <2>3. \/ snaps' = snaps /\ fileSnaps' = fileSnaps
        \/ /\ snaps' = [snaps EXCEPT ![ForkSession] = snaps[s]]
           /\ fileSnaps' = [fileSnaps EXCEPT ![ForkSession] = fileSnaps[s]]
    BY DEF Start, storeVars
  <2>4. \A t \in Sessions, u \in Uids : snaps'[t][u] = <<>> /\ fileSnaps'[t][u] = NoFiles
    BY <1>2, <2>1, <2>2, <2>3
  <2> QED
    BY <2>4 DEF CheckpointsBehind
<1>8. \A r \in Runs : HasRead(r)' /\ HasNumber(r)'
  BY <1>2, <1>3, RunsStand
<1> QED
  BY <1>4, <1>5, <1>6, <1>7, <1>8

(* A run's steps up to its question's number, alone.                       *)
LEMMA SerialNumbering ==
  ASSUME OneReader, ClientInv, SerialInv, NEW r \in Runs, RunCopy(r) \/ RunNumber(r) \/ RunCount(r)
  PROVE  SerialInv'
<1> USE DEF SerialInv
<1> DEFINE s == sess[r]
<1>1. /\ stage \in [Runs -> Stages] /\ base \in [Runs -> Seq(ItemType)] /\ s \in Sessions
      /\ turns \in [Sessions -> Nat] /\ uid \in [Runs -> Nat]
  BY DEF ClientInv, RunsTyped, Numbered
<1>2. HasRead(r) /\ HasNumber(r)
  OBVIOUS
<1>3. CASE RunCopy(r)
  <2>1. /\ stage[r] = "launched" /\ stage' = [stage EXCEPT ![r] = "copied"]
        /\ base' = [base EXCEPT ![r] = msgs[s]]
        /\ UNCHANGED <<clientVars, callVars, sess, turns, msgs, snaps, fileSnaps>>
    BY <1>3 DEF RunCopy, Advance, storeVars
  <2>2. stage'[r] = "copied" /\ \A q \in Runs \ {r} : stage'[q] = stage[q]
    BY <1>1, <2>1
  <2>3. /\ OneTalker' /\ OneRun' /\ Fresh' /\ HalfRewound'
        /\ \A q \in Runs \ {r} : HasRead(q)' /\ HasNumber(q)'
    BY <2>1, <2>2, RunGoesOn DEF Active
  <2>4. HasRead(r)' /\ HasNumber(r)'
    BY <1>1, <2>1, <2>2 DEF HasRead, HasNumber, Asking, Answering
  <2>5. CheckpointsBehind'
    BY <2>1 DEF CheckpointsBehind
  <2> QED
    BY <2>3, <2>4, <2>5
<1>4. CASE RunNumber(r)
  <2>1. /\ stage[r] = "copied" /\ stage' = [stage EXCEPT ![r] = "numbered"]
        /\ uid' = [uid EXCEPT ![r] = turns[s] + 1]
        /\ UNCHANGED <<clientVars, callVars, sess, base, turns, msgs, snaps, fileSnaps>>
    BY <1>4 DEF RunNumber, Advance, storeVars
  <2>2. stage'[r] = "numbered" /\ \A q \in Runs \ {r} : stage'[q] = stage[q]
    BY <1>1, <2>1
  <2>3. /\ OneTalker' /\ OneRun' /\ Fresh' /\ HalfRewound'
        /\ \A q \in Runs \ {r} : HasRead(q)' /\ HasNumber(q)'
    BY <2>1, <2>2, RunGoesOn DEF Active
  <2>4. HasRead(r)'
    BY <1>2, <2>1, <2>2 DEF HasRead, Asking, Answering
  <2>5. uid'[r] = turns[s] + 1
    BY <1>1, <2>1
  <2>6. uid'[r] \in Uids
    <3>1. r \notin Counted
      BY <2>1 DEF Counted
    <3>2. Questions \in Nat /\ Questions < MaxRuns /\ MaxRuns \in Nat
      BY <3>1, QuestionsBounded, ConversationAssumption
    <3>3. turns[s] \in Nat /\ turns[s] <= 1 + Questions
      BY <1>1 DEF ClientInv, Numbered
    <3> QED
      BY <2>5, <3>2, <3>3 DEF Uids
  <2>7. HasNumber(r)'
    BY <2>1, <2>2, <2>5, <2>6 DEF HasNumber, Asking, Answering
  <2>8. CheckpointsBehind'
    BY <2>1 DEF CheckpointsBehind
  <2> QED
    BY <2>3, <2>4, <2>7, <2>8
<1>5. CASE RunCount(r)
  <2> DEFINE to == IF Checkpointing THEN "asked" ELSE "ready"
  <2>1. /\ stage[r] = "numbered" /\ stage' = [stage EXCEPT ![r] = to]
        /\ UNCHANGED <<clientVars, callVars, sess, base, uid, tally, msgs, snaps, fileSnaps>>
    BY <1>5 DEF RunCount, Advance
  <2>2. uid[r] \in Uids /\ uid[r] = turns[s] + 1 /\ msgs[s] = base[r]
    BY <1>2, <2>1 DEF HasRead, HasNumber
  <2>3. turns' = [turns EXCEPT ![s] = turns[s] + 1]
    BY <1>5, <2>2 DEF RunCount
  <2>4. stage'[r] = to /\ \A q \in Runs \ {r} : stage'[q] = stage[q]
    BY <1>1, <2>1
  <2>5. /\ OneTalker' /\ OneRun' /\ Fresh' /\ HalfRewound'
        /\ \A q \in Runs \ {r} : HasRead(q)' /\ HasNumber(q)'
    BY <2>1, <2>4, RunGoesOn DEF Active
  <2>6. HasRead(r)'
    BY <2>1, <2>2, <2>4 DEF HasRead, Asking, Answering
  <2>7. turns'[s] = uid[r] /\ turns[s] \in Nat /\ \A t \in Sessions : turns'[t] >= turns[t] /\ turns[t] \in Nat
    BY <1>1, <2>2, <2>3
  <2>8. snaps[s][uid[r]] = <<>> /\ fileSnaps[s][uid[r]] = NoFiles
    <3>1. ~(uid[r] <= turns[s])
      BY <2>2, <2>7
    <3> QED
      BY <1>1, <2>2, <3>1 DEF CheckpointsBehind
  <2>9. HasNumber(r)'
    BY <2>1, <2>2, <2>4, <2>7, <2>8 DEF HasNumber, Asking, Answering
  <2>10. CheckpointsBehind'
    <3> SUFFICES ASSUME NEW t \in Sessions, NEW u \in Uids, snaps[t][u] # <<>> \/ fileSnaps[t][u] # NoFiles
                 PROVE  u <= turns'[t]
      BY <2>1 DEF CheckpointsBehind
    <3>1. u <= turns[t] /\ u \in Nat
      BY DEF CheckpointsBehind, Uids
    <3>2. turns'[t] >= turns[t] /\ turns[t] \in Nat /\ turns'[t] \in Nat
      BY <1>1, <2>3, <2>7
    <3> QED
      BY <3>1, <3>2
  <2> QED
    BY <2>5, <2>6, <2>9, <2>10
<1> QED
  BY <1>3, <1>4, <1>5

(* From there to its answer: its counter stands.                           *)
LEMMA SerialRuns ==
  ASSUME OneReader, ClientInv, SerialInv, NEW r \in Runs,
         RunTally(r) \/ RunSave(r) \/ RunSnapshot(r) \/ RunSnapshotFiles(r)
           \/ RunAnswer(r) \/ RunCommit(r) \/ RunFail(r)
  PROVE  SerialInv'
<1> USE DEF SerialInv
<1> DEFINE s == sess[r]
<1>1. /\ stage \in [Runs -> Stages] /\ tally \in [Runs -> Nat] /\ s \in Sessions
      /\ turns \in [Sessions -> Nat] /\ msgs \in [Sessions -> Seq(ItemType)]
      /\ snaps \in [Sessions -> [Uids -> Seq(ItemType)]]
      /\ fileSnaps \in [Sessions -> [Uids -> SUBSET Snapshots]]
  BY DEF ClientInv, RunsTyped, Numbered, MessagesTyped, FilesCheckpointed
<1>2. HasRead(r) /\ HasNumber(r)
  OBVIOUS
<1>3. PICK to \in Stages \ {"unused"} : stage' = [stage EXCEPT ![r] = to]
  BY DEF RunTally, RunSave, RunSnapshot, RunSnapshotFiles, RunAnswer, RunCommit, RunFail, Advance, Stages
<1>4. stage'[r] = to /\ \A q \in Runs \ {r} : stage'[q] = stage[q]
  BY <1>1, <1>3
<1>5. Active(r) /\ UNCHANGED <<clientVars, callVars, sess, base, uid>>
  BY DEF RunTally, RunSave, RunSnapshot, RunSnapshotFiles, RunAnswer, RunCommit, RunFail, Advance, Active
<1>6. /\ OneTalker' /\ OneRun' /\ Fresh' /\ HalfRewound'
      /\ \A q \in Runs \ {r} : HasRead(q)' /\ HasNumber(q)'
  BY <1>3, <1>4, <1>5, RunGoesOn
<1>7. turns' = turns
  <2>1. CASE RunSave(r) \/ RunCommit(r)
    <3>1. turns' = [turns EXCEPT ![s] = tally[r]] /\ stage[r] \in {"saving", "storing"}
      BY <2>1 DEF RunSave, RunCommit, SetState, Advance
    <3>2. tally[r] = turns[s]
      BY <1>2, <3>1 DEF HasNumber
    <3> QED
      BY <1>1, <3>1, <3>2
  <2> QED
    BY <2>1 DEF RunTally, RunSnapshot, RunSnapshotFiles, RunAnswer, RunFail, storeVars
<1>8. CASE RunTally(r)
  <2>1. /\ (stage[r] = "asked" /\ to = "saving") \/ (stage[r] = "answered" /\ to = "storing")
        /\ tally' = [tally EXCEPT ![r] = turns[s]]
        /\ UNCHANGED <<msgs, snaps, fileSnaps>>
    BY <1>1, <1>4, <1>8 DEF RunTally, Advance, storeVars
  <2>2. tally'[r] = turns[s]
    BY <1>1, <2>1
  <2>3. HasRead(r)'
    BY <1>2, <1>4, <1>5, <2>1 DEF HasRead, Asking, Answering, Asked
  <2>4. HasNumber(r)'
    BY <1>2, <1>4, <1>5, <1>7, <2>1, <2>2 DEF HasNumber, Asking, Answering
  <2> QED
    BY <1>6, <1>7, <2>1, <2>3, <2>4 DEF CheckpointsBehind
<1>9. CASE RunSave(r)
  <2>1. /\ stage[r] = "saving" /\ to = "saved" /\ msgs' = [msgs EXCEPT ![s] = Asked(r)]
        /\ UNCHANGED <<tally, snaps, fileSnaps>>
    BY <1>1, <1>4, <1>9 DEF RunSave, SetState, Advance
  <2>2. msgs'[s] = Asked(r) /\ Asked(r)' = Asked(r)
    BY <1>1, <1>5, <2>1 DEF Asked
  <2>3. HasRead(r)'
    BY <1>2, <1>4, <1>5, <2>1, <2>2 DEF HasRead, Asking, Answering
  <2>4. HasNumber(r)'
    BY <1>2, <1>4, <1>5, <1>7, <2>1 DEF HasNumber, Asking, Answering
  <2> QED
    BY <1>6, <1>7, <2>1, <2>3, <2>4 DEF CheckpointsBehind
<1>10. CASE RunSnapshot(r)
  <2>1. /\ stage[r] = "saved" /\ to = "snapped" /\ snaps' = [snaps EXCEPT ![s][uid[r]] = msgs[s]]
        /\ UNCHANGED <<tally, msgs, fileSnaps>>
    BY <1>1, <1>4, <1>10 DEF RunSnapshot, SnapshotOf, Advance
  <2>2. uid[r] \in Uids /\ uid[r] = turns[s] /\ msgs[s] = Asked(r)
    BY <1>2, <2>1 DEF HasRead, HasNumber, Asking
  <2>3. /\ snaps'[s][uid[r]] = Asked(r) /\ Asked(r)' = Asked(r)
        /\ \A t \in Sessions, u \in Uids : ~(t = s /\ u = uid[r]) => snaps'[t][u] = snaps[t][u]
    BY <1>1, <1>5, <2>1, <2>2 DEF Asked
  <2>4. HasRead(r)'
    BY <1>2, <1>4, <1>5, <2>1, <2>2, <2>3 DEF HasRead, Asking, Answering
  <2>5. HasNumber(r)'
    BY <1>2, <1>4, <1>5, <1>7, <2>1 DEF HasNumber, Asking, Answering
  <2>6. CheckpointsBehind'
    <3> SUFFICES ASSUME NEW t \in Sessions, NEW u \in Uids, snaps'[t][u] # <<>> \/ fileSnaps[t][u] # NoFiles
                 PROVE  u <= turns[t]
      BY <1>7, <2>1 DEF CheckpointsBehind
    <3>1. CASE t = s /\ u = uid[r]
      BY <1>1, <2>2, <3>1
    <3>2. CASE ~(t = s /\ u = uid[r])
      BY <2>3, <3>2 DEF CheckpointsBehind
    <3> QED
      BY <3>1, <3>2
  <2> QED
    BY <1>6, <2>4, <2>5, <2>6
<1>11. CASE RunSnapshotFiles(r)
  <2>1. /\ stage[r] = "snapped" /\ to = "ready"
        /\ fileSnaps' = [fileSnaps EXCEPT ![s][uid[r]] = {captureFiles(files)}]
        /\ UNCHANGED <<tally, msgs, snaps>>
    BY <1>1, <1>4, <1>11 DEF RunSnapshotFiles, Advance
  <2>2. uid[r] \in Uids /\ uid[r] = turns[s]
    BY <1>2, <2>1 DEF HasNumber, Asking
  <2>3. \A t \in Sessions, u \in Uids : ~(t = s /\ u = uid[r]) => fileSnaps'[t][u] = fileSnaps[t][u]
    BY <1>1, <2>1, <2>2
  <2>4. Asked(r)' = Asked(r)
    BY <1>5 DEF Asked
  <2>5. HasRead(r)'
    BY <1>2, <1>4, <1>5, <2>1, <2>4 DEF HasRead, Asking, Answering
  <2>6. HasNumber(r)'
    BY <1>2, <1>4, <1>5, <1>7, <2>1 DEF HasNumber, Asking, Answering
  <2>7. CheckpointsBehind'
    <3> SUFFICES ASSUME NEW t \in Sessions, NEW u \in Uids, snaps[t][u] # <<>> \/ fileSnaps'[t][u] # NoFiles
                 PROVE  u <= turns[t]
      BY <1>7, <2>1 DEF CheckpointsBehind
    <3>1. CASE t = s /\ u = uid[r]
      BY <1>1, <2>2, <3>1
    <3>2. CASE ~(t = s /\ u = uid[r])
      BY <2>3, <3>2 DEF CheckpointsBehind
    <3> QED
      BY <3>1, <3>2
  <2> QED
    BY <1>6, <2>5, <2>6, <2>7
<1>12. CASE RunAnswer(r)
  <2>1. stage[r] = "ready" /\ to = "answered" /\ UNCHANGED <<tally, msgs, snaps, fileSnaps>>
    BY <1>1, <1>4, <1>12 DEF RunAnswer, Advance, storeVars
  <2>2. Asked(r)' = Asked(r)
    BY <1>5 DEF Asked
  <2>3. HasRead(r)'
    BY <1>2, <1>4, <1>5, <2>1, <2>2 DEF HasRead, Asking, Answering
  <2>4. HasNumber(r)'
    BY <1>2, <1>4, <1>5, <1>7, <2>1 DEF HasNumber, Asking, Answering
  <2> QED
    BY <1>6, <1>7, <2>1, <2>3, <2>4 DEF CheckpointsBehind
<1>13. CASE RunCommit(r) \/ RunFail(r)
  <2>1. to = "done" /\ UNCHANGED <<snaps, fileSnaps>>
    BY <1>1, <1>4, <1>13 DEF RunCommit, RunFail, Advance, storeVars
  <2>2. HasRead(r)' /\ HasNumber(r)'
    BY <1>4, <2>1, RunsStand
  <2> QED
    BY <1>6, <1>7, <2>1, <2>2 DEF CheckpointsBehind
<1> QED
  BY <1>8, <1>9, <1>10, <1>11, <1>12, <1>13

\* Every step keeps one reader at a time.
LEMMA SerialInvKept == OneReader /\ ClientInv /\ SerialInv /\ [Next]_vars => SerialInv'
<1> SUFFICES ASSUME OneReader, ClientInv, SerialInv, [Next]_vars PROVE SerialInv'
  OBVIOUS
<1>1. CASE \E s \in Sessions, fork \in BOOLEAN : Start(s, fork)
  BY <1>1, SerialStart
<1>2. ASSUME NEW c \in Talkers, Talk(c) PROVE SerialInv'
  <2>1. c \in Callers
    BY DEF Callers
  <2>2. CASE \E s \in Sessions : QueryLaunch(c, s)
    BY <2>2, SerialLaunch
  <2>3. CASE QuerySetCurrent(c)
    BY <2>3, SerialSetCurrent
  <2>4. CASE \/ QueryCheck(c) \/ \E u \in Uids : RewindChoose(c, u)
             \/ RewindMessages(c) \/ RewindWorkspace(c) \/ RewindFails(c)
    BY <2>1, <2>4, SerialMethods
  <2> QED
    BY <1>2, <2>2, <2>3, <2>4 DEF Talk
<1>3. CASE \E c \in Interrupters : InterruptRead(c) \/ InterruptCancel(c)
  BY <1>3, SerialMethods DEF Callers
<1>4. CASE \E c \in Closers : CloseClient(c)
  BY <1>4, SerialMethods DEF Callers
<1>5. ASSUME NEW r \in Runs, RunProgress(r) PROVE SerialInv'
  BY <1>5, SerialNumbering, SerialRuns DEF RunProgress
<1>6. CASE UNCHANGED <<clientVars, callVars, runVars, storeVars>>
  <2>1. UNCHANGED <<connected, closed, current, at, aim, goal, stage, sess, base, uid, tally,
                    msgs, turns, snaps, fileSnaps>>
    BY <1>6 DEF clientVars, callVars, runVars, storeVars
  <2>2. \A r \in Runs : HasRead(r)' /\ HasNumber(r)'
    BY <2>1, RunsStand
  <2>3. OneTalker' /\ HalfRewound' /\ CheckpointsBehind'
    BY <2>1 DEF SerialInv, OneTalker, Over, HalfRewound, CheckpointsBehind
  <2>4. OneRun' /\ Fresh'
    BY <2>1 DEF SerialInv, OneRun, Active, Fresh
  <2> QED
    BY <2>2, <2>3, <2>4 DEF SerialInv
<1>7. ASSUME NEW r \in Runs, RunEdit(r) PROVE UNCHANGED <<clientVars, callVars, runVars, storeVars>>
  BY <1>7 DEF RunEdit
<1>8. CASE UNCHANGED vars
  BY <1>6, <1>8 DEF vars
<1> QED
  BY <1>1, <1>2, <1>3, <1>4, <1>5, <1>6, <1>7, <1>8 DEF Next, Quiet

THEOREM SerialInvariant ==
  ASSUME OneReader
  PROVE  Spec => [](ClientInv /\ SerialInv)
<1>1. Init => ClientInv /\ SerialInv
  BY ClientInvInitially, SerialInitially
<1>2. (ClientInv /\ SerialInv) /\ [Next]_vars => (ClientInv /\ SerialInv)'
  BY ClientInvKept, SerialInvKept
<1> QED
  BY <1>1, <1>2, PTL DEF Spec

(* The checkpoint under a run's user message ID is the conversation up to  *)
(* that message (query_runner.go:394-396), whatever failed, was rewound or *)
(* interrupted before.                                                     *)
THEOREM CheckpointsAreQuestions ==
  ASSUME OneReader
  PROVE  Spec => []CheckpointIsQuestion
<1>1. SerialInv => CheckpointIsQuestion
  BY DEF SerialInv, HasRead, CheckpointIsQuestion, Answering
<1> QED
  BY <1>1, SerialInvariant, PTL

(* A message sequence begins with itself, and with what it was before more *)
(* was appended.                                                           *)
LEMMA MoreIsAppended ==
  ASSUME NEW S, NEW m \in Seq(S)
  PROVE  /\ IsPrefix(m, m) /\ IsPrefix(<<>>, m)
         /\ \A x \in S : IsPrefix(m, Append(m, x))
         /\ \A x, y \in S : IsPrefix(m, Append(Append(m, x), y))
<1>1. ASSUME NEW l \in Seq(S), Len(m) <= Len(l), \A i \in 1..Len(m) : l[i] = m[i]
      PROVE  IsPrefix(m, l)
  <2>1. /\ SubSeq(m, 1, Len(m)) = [i \in 1..Len(m) |-> m[i]]
        /\ SubSeq(l, 1, Len(m)) = [i \in 1..Len(m) |-> l[i]]
    BY <1>1
  <2> QED
    BY <1>1, <2>1 DEF IsPrefix
<1>2. IsPrefix(m, m)
  BY <1>1
<1>3. IsPrefix(<<>>, m)
  <2>1. SubSeq(<<>>, 1, 0) = <<>> /\ SubSeq(m, 1, 0) = <<>>
    OBVIOUS
  <2> QED
    BY <2>1 DEF IsPrefix
<1>4. ASSUME NEW x \in S PROVE IsPrefix(m, Append(m, x))
  <2> DEFINE l == Append(m, x)
  <2>1. l \in Seq(S) /\ Len(l) = Len(m) + 1 /\ \A i \in 1..Len(m) : l[i] = m[i]
    OBVIOUS
  <2> HIDE DEF l
  <2>2. IsPrefix(m, l)
    BY <1>1, <2>1
  <2> QED
    BY <2>2 DEF l
<1>5. ASSUME NEW x \in S, NEW y \in S PROVE IsPrefix(m, Append(Append(m, x), y))
  <2>1. /\ Append(m, x) \in Seq(S) /\ Len(Append(m, x)) = Len(m) + 1
        /\ \A i \in 1..Len(m) : Append(m, x)[i] = m[i]
    OBVIOUS
  <2> DEFINE l == Append(Append(m, x), y)
  <2>2. l \in Seq(S) /\ Len(l) = Len(m) + 2 /\ \A i \in 1..Len(m) : l[i] = m[i]
    BY <2>1
  <2> HIDE DEF l
  <2>3. IsPrefix(m, l)
    BY <1>1, <2>2
  <2> QED
    BY <2>3 DEF l
<1> QED
  BY <1>2, <1>3, <1>4, <1>5

(* What a session holds is only ever added to, except by a rewind          *)
(* (client.go:10): the copy a run answers from is never behind what        *)
(* SetState replaces.                                                      *)
THEOREM AnswersAreKept ==
  ASSUME OneReader
  PROVE  Spec => AnswersKept
<1> DEFINE Kept == \A s \in Sessions : IsPrefix(msgs[s], msgs'[s]) \/ Rewinding(s)
<1>1. ASSUME ClientInv, SerialInv, [Next]_vars PROVE Kept
  <2>1. msgs \in [Sessions -> Seq(ItemType)] /\ \A s \in Sessions : msgs[s] \in Seq(ItemType)
    BY <1>1 DEF ClientInv, MessagesTyped
  <2>2. CASE UNCHANGED msgs
    BY <2>1, <2>2, MoreIsAppended
  <2>3. ASSUME NEW t \in Sessions, NEW fork \in BOOLEAN, Start(t, fork) PROVE Kept
    <3>1. msgs[ForkSession] = <<>> /\ ForkSession \in Sessions
      BY <1>1, <2>3, ConversationAssumption DEF SerialInv, Fresh, Start
    <3>2. CASE msgs' = [msgs EXCEPT ![ForkSession] = msgs[t]]
      <4>1. \A s \in Sessions : msgs'[s] = msgs[s] \/ (s = ForkSession /\ msgs'[s] = msgs[t])
        BY <2>1, <3>1, <3>2
      <4> QED
        BY <2>1, <3>1, <4>1, MoreIsAppended
    <3> QED
      BY <2>2, <2>3, <3>2 DEF Start, storeVars
  <2>4. ASSUME NEW c \in Callers, RewindMessages(c) PROVE Kept
    <3>1. at[c] = "rewindMessages" /\ msgs' = [msgs EXCEPT ![goal[c][1]] = snaps[goal[c][1]][goal[c][2]]]
      BY <2>4 DEF RewindMessages
    <3>2. \A s \in Sessions : s = goal[c][1] \/ msgs'[s] = msgs[s]
      BY <2>1, <3>1
    <3> QED
      BY <2>1, <3>1, <3>2, MoreIsAppended DEF Rewinding
  <2>5. ASSUME NEW r \in Runs, RunSave(r) \/ RunCommit(r) PROVE Kept
    <3> DEFINE s == sess[r]
    <3>1. s \in Sessions /\ base[r] \in Seq(ItemType)
      BY <1>1 DEF ClientInv, RunsTyped
    <3>2. Item("user", r) \in ItemType /\ Item("assistant", r) \in ItemType
      BY DEF Item, ItemType
    <3>3. HasRead(r)
      BY <1>1 DEF SerialInv
    <3>4. CASE RunSave(r)
      <4>1. msgs' = [msgs EXCEPT ![s] = Asked(r)] /\ msgs[s] = base[r]
        BY <3>3, <3>4 DEF RunSave, SetState, Advance, HasRead
      <4>2. IsPrefix(base[r], Asked(r))
        BY <3>1, <3>2, MoreIsAppended DEF Asked
      <4>3. \A t \in Sessions : msgs'[t] = msgs[t] \/ (t = s /\ msgs'[t] = Asked(r))
        BY <2>1, <3>1, <4>1
      <4> QED
        BY <2>1, <4>1, <4>2, <4>3, MoreIsAppended
    <3>5. CASE RunCommit(r)
      <4>1. msgs' = [msgs EXCEPT ![s] = Answered(r)] /\ (msgs[s] = base[r] \/ msgs[s] = Asked(r))
        BY <3>3, <3>5 DEF RunCommit, SetState, Advance, HasRead, Answering
      <4>2. IsPrefix(base[r], Answered(r))
        BY <3>1, <3>2, MoreIsAppended DEF Answered, Asked
      <4>3. IsPrefix(Asked(r), Answered(r))
        <5>1. Asked(r) \in Seq(ItemType)
          BY <3>1, <3>2 DEF Asked
        <5> QED
          BY <3>2, <5>1, MoreIsAppended DEF Answered
      <4>4. \A t \in Sessions : msgs'[t] = msgs[t] \/ (t = s /\ msgs'[t] = Answered(r))
        BY <2>1, <3>1, <4>1
      <4> QED
        BY <2>1, <4>1, <4>2, <4>3, <4>4, MoreIsAppended
    <3> QED
      BY <2>5, <3>4, <3>5
  <2>6. ASSUME NEW c \in Talkers, Talk(c) PROVE RewindMessages(c) \/ UNCHANGED msgs
    BY <2>6 DEF Talk, QueryCheck, QueryLaunch, QuerySetCurrent, RewindChoose, RewindWorkspace,
       RewindFails, storeVars
  <2>7. ASSUME NEW c, InterruptRead(c) \/ InterruptCancel(c) \/ CloseClient(c) PROVE UNCHANGED msgs
    BY <2>7 DEF InterruptRead, InterruptCancel, CloseClient, storeVars
  <2>8. ASSUME NEW r \in Runs, RunEdit(r) \/ RunProgress(r)
        PROVE  RunSave(r) \/ RunCommit(r) \/ UNCHANGED msgs
    BY <2>8 DEF RunEdit, RunProgress, RunCopy, RunNumber, RunCount, RunTally, RunSnapshot,
       RunSnapshotFiles, RunAnswer, RunFail, storeVars
  <2>9. CASE UNCHANGED vars
    BY <2>2, <2>9 DEF vars, storeVars
  <2> HIDE DEF Kept
  <2> QED
    BY <1>1, <2>2, <2>3, <2>4, <2>5, <2>6, <2>7, <2>8, <2>9 DEF Next, Quiet, Callers
<1>2. (ClientInv /\ SerialInv) /\ [Next]_vars => [Kept]_vars
  BY <1>1
<1> QED
  BY <1>2, SerialInvariant, PTL DEF Spec, AnswersKept

(* Nothing replaces a checkpoint once taken, and a rewind that returns     *)
(* without an error leaves the messages and the files it holds.            *)
THEOREM CheckpointsAreKept ==
  ASSUME OneReader
  PROVE  Spec => CheckpointsKept
<1> DEFINE Stand == \A s \in Sessions, u \in Uids :
             /\ snaps[s][u] # <<>> => snaps'[s][u] = snaps[s][u]
             /\ fileSnaps[s][u] # NoFiles => fileSnaps'[s][u] = fileSnaps[s][u]
           Rewound == \A c \in Talkers : RewindWorkspace(c) =>
             /\ msgs'[goal[c][1]] = snaps[goal[c][1]][goal[c][2]]
             /\ {captureFiles(files')} = FileCheckpoint(c)
<1>1. ASSUME ClientInv, SerialInv, [Next]_vars PROVE Stand
  <2>1. /\ snaps \in [Sessions -> [Uids -> Seq(ItemType)]]
        /\ fileSnaps \in [Sessions -> [Uids -> SUBSET Snapshots]]
    BY <1>1 DEF ClientInv, MessagesTyped, FilesCheckpointed
  <2>2. CASE UNCHANGED <<snaps, fileSnaps>>
    BY <2>2
  <2>3. ASSUME NEW t \in Sessions, NEW fork \in BOOLEAN, Start(t, fork) PROVE Stand
    <3>1. \A s \in Sessions, u \in Uids : snaps[s][u] = <<>> /\ fileSnaps[s][u] = NoFiles
      BY <1>1, <2>3 DEF SerialInv, Fresh, Start
    <3> QED
      BY <3>1
  <2>4. ASSUME NEW r \in Runs, RunSnapshot(r) \/ RunSnapshotFiles(r) PROVE Stand
    <3> DEFINE s == sess[r]
    <3>1. s \in Sessions /\ HasNumber(r) /\ stage[r] \in {"saved", "snapped"}
      BY <1>1, <2>4 DEF ClientInv, RunsTyped, SerialInv, RunSnapshot, RunSnapshotFiles, Advance
    <3>2. uid[r] \in Uids
      BY <3>1 DEF HasNumber, Asking
    <3>3. CASE RunSnapshot(r)
      <4>1. snaps[s][uid[r]] = <<>>
        BY <3>1, <3>3 DEF HasNumber, RunSnapshot, Advance
      <4>2. \A t \in Sessions, u \in Uids : (t = s /\ u = uid[r]) \/ snaps'[t][u] = snaps[t][u]
        BY <2>1, <3>1, <3>2, <3>3 DEF RunSnapshot
      <4>3. fileSnaps' = fileSnaps
        BY <3>3 DEF RunSnapshot
      <4> QED
        BY <4>1, <4>2, <4>3
    <3>4. CASE RunSnapshotFiles(r)
      <4>1. fileSnaps[s][uid[r]] = NoFiles
        BY <3>1 DEF HasNumber, Asking
      <4>2. \A t \in Sessions, u \in Uids : (t = s /\ u = uid[r]) \/ fileSnaps'[t][u] = fileSnaps[t][u]
        BY <2>1, <3>1, <3>2, <3>4 DEF RunSnapshotFiles
      <4>3. snaps' = snaps
        BY <3>4 DEF RunSnapshotFiles
      <4> QED
        BY <4>1, <4>2, <4>3
    <3> QED
      BY <2>4, <3>3, <3>4
  <2>5. ASSUME NEW c, Talk(c) \/ InterruptRead(c) \/ InterruptCancel(c) \/ CloseClient(c)
        PROVE  UNCHANGED <<snaps, fileSnaps>>
    BY <2>5 DEF Talk, QueryCheck, QueryLaunch, QuerySetCurrent, RewindChoose, RewindMessages,
       RewindWorkspace, RewindFails, InterruptRead, InterruptCancel, CloseClient, storeVars
  <2>6. ASSUME NEW r \in Runs, RunEdit(r) \/ RunProgress(r)
        PROVE  RunSnapshot(r) \/ RunSnapshotFiles(r) \/ UNCHANGED <<snaps, fileSnaps>>
    BY <2>6 DEF RunEdit, RunProgress, RunCopy, RunNumber, RunCount, RunTally, RunSave,
       RunAnswer, RunCommit, RunFail, storeVars
  <2>7. CASE UNCHANGED vars
    BY <2>2, <2>7 DEF vars, storeVars
  <2> HIDE DEF Stand
  <2> QED
    BY <1>1, <2>2, <2>3, <2>4, <2>5, <2>6, <2>7 DEF Next, Quiet
<1>2. ASSUME ClientInv, SerialInv PROVE Rewound
  <2> SUFFICES ASSUME NEW c \in Talkers, RewindWorkspace(c)
               PROVE  /\ msgs'[goal[c][1]] = snaps[goal[c][1]][goal[c][2]]
                      /\ {captureFiles(files')} = FileCheckpoint(c)
    OBVIOUS
  <2>1. c \in Callers /\ at[c] = "rewindFiles" /\ msgs' = msgs
    BY DEF Callers, RewindWorkspace, storeVars
  <2>2. msgs[goal[c][1]] = snaps[goal[c][1]][goal[c][2]]
    BY <1>2, <2>1 DEF SerialInv, HalfRewound
  <2>3. goal[c][1] \in Sessions /\ goal[c][2] \in Uids
    BY <1>2, <2>1 DEF ClientInv, CallsTyped
  <2>4. PICK snapshot \in FileCheckpoint(c) : files' = restoreFiles(files, snapshot)
    BY DEF RewindWorkspace
  <2>5. FileCheckpoint(c) = {snapshot} /\ IsSnapshot(snapshot)
    BY <1>2, <2>3, <2>4 DEF ClientInv, FilesCheckpointed, OneSnapshot, NoFiles, FileCheckpoint
  <2>6. captureFiles(files') = snapshot
    BY <2>4, <2>5, RestoredIsCaptured
  <2> QED
    BY <2>1, <2>2, <2>5, <2>6
<1>3. (ClientInv /\ SerialInv) /\ [Next]_vars => [Stand /\ Rewound]_vars
  BY <1>1, <1>2
<1> QED
  BY <1>3, SerialInvariant, PTL DEF Spec, CheckpointsKept
=============================================================================
