------------------------- MODULE ModelStreamProofs -------------------------
(***************************************************************************)
(* Theorems about ModelStream, and Transcript, which adds what is left of  *)
(* its answer, for every set of texts, thoughts, images and arguments a    *)
(* server may send, and every number of lines and calls.                   *)
(***************************************************************************)
EXTENDS Transcript, SequenceTheorems, FiniteSetTheorems, WellFoundedInduction, TLAPS

-----------------------------------------------------------------------------
(***************************************************************************)
(* Induction.                                                              *)
(***************************************************************************)

(* What holds of 0, and of a number's successor when it holds of the       *)
(* number, holds of all.                                                   *)
LEMMA Induction ==
  ASSUME NEW S \in SUBSET Nat, 0 \in S, \A n \in S : n + 1 \in S
  PROVE  S = Nat
<1> SUFFICES ASSUME Nat \ S # {} PROVE FALSE
  OBVIOUS
<1>1. PICK x \in Nat \ S : \A y \in Nat \ S : ~(<<y, x>> \in OpToRel(<, Nat))
  BY NatLessThanWellFounded, WFMin
<1>2. x \in Nat /\ x # 0
  BY <1>1
<1>3. PICK y \in Nat : x = y + 1
  <2>1. x - 1 \in Nat /\ x = (x - 1) + 1
    BY <1>2
  <2> QED
    BY <2>1
<1>4. y \in S
  <2> SUFFICES ASSUME y \in Nat \ S PROVE FALSE
    BY <1>3
  <2>1. y < x
    BY <1>3
  <2>2. ~(<<y, x>> \in OpToRel(<, Nat))
    BY <1>1
  <2> QED
    BY <1>2, <1>3, <2>1, <2>2 DEF OpToRel
<1>5. x \in S
  BY <1>3, <1>4
<1> QED
  BY <1>1, <1>5

(* What holds of the empty sequence, and goes on holding when a member is  *)
(* appended, holds of every sequence.                                      *)
LEMMA SeqInduction ==
  ASSUME NEW T, NEW X \in SUBSET Seq(T), <<>> \in X,
         \A s \in X, e \in T : Append(s, e) \in X
  PROVE  X = Seq(T)
<1> DEFINE N == {n \in Nat : \A s \in Seq(T) : Len(s) = n => s \in X}
<1>1. 0 \in N
  BY EmptySeq
<1>2. ASSUME NEW n \in N PROVE n + 1 \in N
  <2> SUFFICES ASSUME NEW s \in Seq(T), Len(s) = n + 1 PROVE s \in X
    OBVIOUS
  <2>1. s # <<>>
    BY EmptySeq
  <2>2. PICK t \in Seq(T), e \in T : s = Append(t, e)
    BY <2>1, SequenceEmptyOrAppend
  <2>3. Len(t) = n
    BY <2>2, AppendProperties, LenProperties
  <2> QED
    BY <2>2, <2>3
<1> HIDE DEF N
<1>3. N = Nat
  <2>1. N \in SUBSET Nat
    BY DEF N
  <2> QED
    BY <1>1, <1>2, <2>1, Induction
<1> QED
  BY <1>3, LenProperties DEF N

-----------------------------------------------------------------------------
(***************************************************************************)
(* Pick, the operator most texts are made with.                            *)
(***************************************************************************)

\* The function that Pick evaluates at the end of the sequence.
IsUpto(f, s, P, n) ==
  f = [k \in 0..n |-> IF k = 0 THEN <<>>
                      ELSE IF k \in P THEN Append(f[k-1], s[k]) ELSE f[k-1]]

(* There is one, however long the sequence.                                *)
LEMMA UptoExists ==
  ASSUME NEW s, NEW P, NEW n \in Nat
  PROVE  \E f : IsUpto(f, s, P, n)
<1> DEFINE S == {m \in Nat : \E f : IsUpto(f, s, P, m)}
<1>1. 0 \in S
  <2> DEFINE f == [k \in 0..0 |-> <<>>]
  <2>1. IsUpto(f, s, P, 0)
    BY DEF IsUpto
  <2> QED
    BY <2>1
<1>2. ASSUME NEW m \in S PROVE m + 1 \in S
  <2>1. PICK f : IsUpto(f, s, P, m)
    OBVIOUS
  <2> DEFINE last == IF m + 1 \in P THEN Append(f[m], s[m+1]) ELSE f[m]
             g == [k \in 0..m+1 |-> IF k = m + 1 THEN last ELSE f[k]]
  <2>2. \A k \in 0..m : f[k] = IF k = 0 THEN <<>>
                               ELSE IF k \in P THEN Append(f[k-1], s[k]) ELSE f[k-1]
    BY <2>1 DEF IsUpto
  <2>3. m \in Nat /\ \A k \in 0..m : k # m + 1 /\ k \in 0..m+1 /\ (k # 0 => k - 1 \in 0..m)
    OBVIOUS
  <2>4. \A k \in 0..m : g[k] = f[k]
    BY <2>3
  <2>5. g[m+1] = last
    BY <2>3
  <2>6. \A k \in 0..m+1 : g[k] = IF k = 0 THEN <<>>
                                 ELSE IF k \in P THEN Append(g[k-1], s[k]) ELSE g[k-1]
    <3> TAKE k \in 0..m+1
    <3>1. CASE k = m + 1
      <4>1. k # 0 /\ k - 1 = m /\ m \in 0..m
        BY <2>3, <3>1
      <4>2. g[k-1] = f[m] /\ g[k] = last
        BY <2>4, <2>5, <3>1, <4>1
      <4> HIDE DEF g
      <4> QED
        BY <3>1, <4>1, <4>2
    <3>2. CASE k \in 0..m
      <4>1. g[k] = f[k] /\ (k # 0 => g[k-1] = f[k-1])
        BY <2>3, <2>4, <3>2
      <4> HIDE DEF g
      <4> QED
        BY <2>2, <3>2, <4>1
    <3> QED
      BY <2>3, <3>1, <3>2
  <2>7. g = [k \in 0..m+1 |-> g[k]]
    OBVIOUS
  <2> HIDE DEF g, last
  <2>8. g = [k \in 0..m+1 |-> IF k = 0 THEN <<>>
                              ELSE IF k \in P THEN Append(g[k-1], s[k]) ELSE g[k-1]]
    BY <2>6, <2>7
  <2>9. IsUpto(g, s, P, m + 1)
    BY <2>8 DEF IsUpto
  <2> QED
    BY <2>3, <2>9
<1> HIDE DEF S
<1>3. S = Nat
  <2>1. S \in SUBSET Nat
    BY DEF S
  <2> QED
    BY <1>1, <1>2, <2>1, Induction
<1> QED
  BY <1>3 DEF S

(* It depends on nothing beyond the place it is asked for.                 *)
LEMMA UptoAgrees ==
  ASSUME NEW n \in Nat, NEW m \in Nat, n <= m, NEW s, NEW t, NEW P, NEW Q,
         \A i \in 1..n : s[i] = t[i] /\ (i \in P <=> i \in Q),
         NEW f, NEW g, IsUpto(f, s, P, n), IsUpto(g, t, Q, m)
  PROVE  f[n] = g[n]
<1> DEFINE S == {k \in Nat : k <= n => f[k] = g[k]}
<1>1. 0 \in S
  BY DEF IsUpto
<1>2. ASSUME NEW k \in S PROVE k + 1 \in S
  <2> SUFFICES ASSUME k + 1 <= n PROVE f[k+1] = g[k+1]
    OBVIOUS
  <2>1. k \in Nat /\ k + 1 \in 0..n /\ k + 1 \in 0..m /\ k + 1 # 0 /\ (k + 1) - 1 = k /\ k + 1 \in 1..n
    OBVIOUS
  <2>2. f[k] = g[k]
    BY <2>1
  <2>3. f[k+1] = IF k + 1 \in P THEN Append(f[k], s[k+1]) ELSE f[k]
    BY <2>1 DEF IsUpto
  <2>4. g[k+1] = IF k + 1 \in Q THEN Append(g[k], t[k+1]) ELSE g[k]
    BY <2>1 DEF IsUpto
  <2> QED
    BY <2>1, <2>2, <2>3, <2>4
<1> HIDE DEF S
<1>3. S = Nat
  <2>1. S \in SUBSET Nat
    BY DEF S
  <2> QED
    BY <1>1, <1>2, <2>1, Induction
<1> QED
  BY <1>3 DEF S

(* Pick is the last value of that function.                                *)
LEMMA PickIsUpto ==
  ASSUME NEW s, NEW P, Len(s) \in Nat
  PROVE  \E f : IsUpto(f, s, P, Len(s)) /\ Pick(s, P) = f[Len(s)]
<1> DEFINE f == CHOOSE f : IsUpto(f, s, P, Len(s))
<1>1. IsUpto(f, s, P, Len(s))
  BY UptoExists
<1>2. Pick(s, P) = f[Len(s)]
  BY DEF Pick, IsUpto
<1> QED
  BY <1>1, <1>2

\* Nothing is picked from an empty sequence.
LEMMA PickEmpty == \A P : Pick(<<>>, P) = <<>>
<1> TAKE P
<1>1. Len(<<>>) = 0
  OBVIOUS
<1>2. PICK f : IsUpto(f, <<>>, P, 0) /\ Pick(<<>>, P) = f[0]
  BY <1>1, PickIsUpto
<1> QED
  BY <1>2 DEF IsUpto

(* Places beyond the end do not matter.                                    *)
LEMMA PickAgrees ==
  ASSUME NEW s, Len(s) \in Nat, NEW P, NEW Q, \A i \in 1..Len(s) : i \in P <=> i \in Q
  PROVE  Pick(s, P) = Pick(s, Q)
<1>1. PICK f : IsUpto(f, s, P, Len(s)) /\ Pick(s, P) = f[Len(s)]
  BY PickIsUpto
<1>2. PICK g : IsUpto(g, s, Q, Len(s)) /\ Pick(s, Q) = g[Len(s)]
  BY PickIsUpto
<1> QED
  BY <1>1, <1>2, UptoAgrees

\* A last member is picked or not, after what was picked before it.
LEMMA PickAppend ==
  ASSUME NEW T, NEW s \in Seq(T), NEW e \in T, NEW P
  PROVE  Pick(Append(s, e), P) = IF Len(s) + 1 \in P THEN Append(Pick(s, P), e) ELSE Pick(s, P)
<1> DEFINE t == Append(s, e)  n == Len(s)
<1>1. n \in Nat /\ Len(t) = n + 1 /\ t[n+1] = e /\ \A i \in 1..n : s[i] = t[i]
  BY LenProperties, AppendProperties
<1> HIDE DEF t, n
<1>2. PICK f : IsUpto(f, s, P, n) /\ Pick(s, P) = f[n]
  BY <1>1, PickIsUpto DEF n
<1>3. PICK g : IsUpto(g, t, P, n + 1) /\ Pick(t, P) = g[n+1]
  <2>1. Len(t) \in Nat
    BY <1>1
  <2> QED
    BY <1>1, <2>1, PickIsUpto
<1>4. f[n] = g[n]
  BY <1>1, <1>2, <1>3, UptoAgrees
<1>5. g[n+1] = IF n + 1 \in P THEN Append(g[n], t[n+1]) ELSE g[n]
  <2>1. n + 1 \in 0..n+1 /\ n + 1 # 0 /\ (n + 1) - 1 = n
    BY <1>1
  <2> QED
    BY <1>3, <2>1 DEF IsUpto
<1> QED
  BY <1>1, <1>2, <1>3, <1>4, <1>5 DEF t, n

\* What is picked from a sequence is a sequence of its members.
LEMMA PickType == \A T : \A s \in Seq(T) : \A P : Pick(s, P) \in Seq(T)
<1> TAKE T
<1> DEFINE X == {s \in Seq(T) : \A P : Pick(s, P) \in Seq(T)}
<1>1. <<>> \in X
  BY PickEmpty, EmptySeq
<1>2. ASSUME NEW s \in X, NEW e \in T PROVE Append(s, e) \in X
  <2>1. s \in Seq(T) /\ Append(s, e) \in Seq(T)
    BY AppendProperties
  <2>2. ASSUME NEW P PROVE Pick(Append(s, e), P) \in Seq(T)
    <3>1. Pick(s, P) \in Seq(T)
      BY <1>2
    <3> HIDE DEF X
    <3>2. Pick(Append(s, e), P) \in {Append(Pick(s, P), e), Pick(s, P)}
      BY <2>1, PickAppend
    <3> QED
      BY <3>1, <3>2, AppendProperties
  <2> QED
    BY <2>1, <2>2
<1>3. X = Seq(T)
  <2>1. X \in SUBSET Seq(T)
    OBVIOUS
  <2> HIDE DEF X
  <2> QED
    BY <1>1, <1>2, <2>1, SeqInduction
<1> QED
  BY <1>3

\* A last member goes to the second of two sequences.
LEMMA AppendToConcat ==
  ASSUME NEW T, NEW s \in Seq(T), NEW t \in Seq(T), NEW e \in T
  PROVE  s \o Append(t, e) = Append(s \o t, e)
<1>1. Append(t, e) = t \o <<e>> /\ <<e>> \in Seq(T)
  BY AppendIsConcat
<1>2. s \o t \in Seq(T) /\ Append(s \o t, e) = (s \o t) \o <<e>>
  BY ConcatProperties, AppendIsConcat
<1> QED
  BY <1>1, <1>2, ConcatAssociative

\* R has the places among the first n that P has m places later.
Shifts(P, R, m, n) == \A j \in 1..n : j \in R <=> m + j \in P
\* Two texts in a row, as one operator.
Joined(s, t) == s \o t

\* What is picked from two sequences in a row.
LEMMA PickConcat ==
  ASSUME NEW T, NEW s \in Seq(T), NEW t \in Seq(T), NEW P, NEW R,
         Shifts(P, R, Len(s), Len(t))
  PROVE  Pick(Joined(s, t), P) = Joined(Pick(s, P), Pick(t, R))
<1> DEFINE Q == {j \in Nat : Len(s) + j \in P}
           X == {u \in Seq(T) : Pick(s \o u, P) = Pick(s, P) \o Pick(u, Q)}
<1>1. <<>> \in X
  <2>1. Pick(s, P) \in Seq(T) /\ <<>> \in Seq(T)
    BY PickType, EmptySeq
  <2> QED
    BY <2>1, PickEmpty, ConcatEmptySeq
<1>2. ASSUME NEW u \in X, NEW e \in T PROVE Append(u, e) \in X
  <2>1. u \in Seq(T) /\ Append(u, e) \in Seq(T) /\ s \o u \in Seq(T) /\ Len(s \o u) = Len(s) + Len(u)
    BY AppendProperties, ConcatProperties
  <2> HIDE DEF X
  <2>2. Pick(s \o Append(u, e), P)
          = IF Len(s) + Len(u) + 1 \in P THEN Append(Pick(s \o u, P), e) ELSE Pick(s \o u, P)
    <3>1. s \o Append(u, e) = Append(s \o u, e)
      BY <2>1, AppendToConcat
    <3>2. Pick(Append(s \o u, e), P)
            = IF Len(s \o u) + 1 \in P THEN Append(Pick(s \o u, P), e) ELSE Pick(s \o u, P)
      <4>1. PICK v : v = s \o u
        OBVIOUS
      <4>2. v \in Seq(T)
        BY <2>1, <4>1
      <4>3. Pick(Append(v, e), P) = IF Len(v) + 1 \in P THEN Append(Pick(v, P), e) ELSE Pick(v, P)
        BY <4>2, PickAppend
      <4> QED
        BY <4>1, <4>3
    <3> QED
      BY <2>1, <3>1, <3>2
  <2>3. Pick(Append(u, e), Q) = IF Len(u) + 1 \in Q THEN Append(Pick(u, Q), e) ELSE Pick(u, Q)
    <3> HIDE DEF Q
    <3> QED
      BY <2>1, PickAppend
  <2>4. Len(u) + 1 \in Q <=> Len(s) + Len(u) + 1 \in P
    <3>1. Len(u) + 1 \in Nat /\ Len(s) + (Len(u) + 1) = Len(s) + Len(u) + 1
      BY <2>1, LenProperties
    <3> QED
      BY <3>1
  <2>5. Pick(s \o u, P) = Pick(s, P) \o Pick(u, Q)
    BY DEF X
  <2>6. Pick(s, P) \in Seq(T) /\ Pick(u, Q) \in Seq(T)
    BY <2>1, PickType
  <2> HIDE DEF Q
  <2>7. Pick(s, P) \o Append(Pick(u, Q), e) = Append(Pick(s, P) \o Pick(u, Q), e)
    BY <2>6, AppendToConcat
  <2> QED
    BY <2>1, <2>2, <2>3, <2>4, <2>5, <2>7 DEF X
<1>3. X = Seq(T)
  <2>1. X \in SUBSET Seq(T)
    OBVIOUS
  <2> HIDE DEF X
  <2> QED
    BY <1>1, <1>2, <2>1, SeqInduction
<1>4. Pick(s \o t, P) = Pick(s, P) \o Pick(t, Q)
  BY <1>3
<1>5. \A j \in 1..Len(t) : j \in Q <=> j \in R
  BY LenProperties DEF Shifts
<1> HIDE DEF Q
<1>6. Pick(t, Q) = Pick(t, R)
  BY <1>5, LenProperties, PickAgrees
<1> QED
  BY <1>4, <1>6 DEF Joined

\* No place picked, nothing picked.
LEMMA PickNone ==
  ASSUME NEW T, NEW s \in Seq(T), NEW P, \A i \in 1..Len(s) : i \notin P
  PROVE  Pick(s, P) = <<>>
<1> DEFINE X == {u \in Seq(T) : Pick(u, {}) = <<>>}
<1>1. <<>> \in X
  BY PickEmpty, EmptySeq
<1>2. ASSUME NEW u \in X, NEW e \in T PROVE Append(u, e) \in X
  BY PickAppend, AppendProperties
<1>3. X = Seq(T)
  <2>1. X \in SUBSET Seq(T)
    OBVIOUS
  <2> HIDE DEF X
  <2> QED
    BY <1>1, <1>2, <2>1, SeqInduction
<1>4. Pick(s, P) = Pick(s, {})
  BY LenProperties, PickAgrees
<1> QED
  BY <1>3, <1>4

\* Every place picked, all picked.
LEMMA PickAll ==
  ASSUME NEW T, NEW s \in Seq(T), NEW P, \A i \in 1..Len(s) : i \in P
  PROVE  Pick(s, P) = s
<1> DEFINE X == {u \in Seq(T) : Pick(u, Nat) = u}
<1>1. <<>> \in X
  BY PickEmpty, EmptySeq
<1>2. ASSUME NEW u \in X, NEW e \in T PROVE Append(u, e) \in X
  BY PickAppend, AppendProperties, LenProperties
<1>3. X = Seq(T)
  <2>1. X \in SUBSET Seq(T)
    OBVIOUS
  <2> HIDE DEF X
  <2> QED
    BY <1>1, <1>2, <2>1, SeqInduction
<1>4. Pick(s, P) = Pick(s, Nat)
  BY LenProperties, PickAgrees
<1> QED
  BY <1>3, <1>4

-----------------------------------------------------------------------------
(***************************************************************************)
(* Only, which picks by value.                                             *)
(***************************************************************************)
LEMMA OnlyEmpty == \A V : Only(<<>>, V) = <<>>
  BY PickEmpty DEF Only

\* A last member stays if it is one of those asked for.
LEMMA OnlyAppend ==
  ASSUME NEW T, NEW s \in Seq(T), NEW e \in T, NEW V
  PROVE  Only(Append(s, e), V) = IF e \in V THEN Append(Only(s, V), e) ELSE Only(s, V)
<1> DEFINE t == Append(s, e)
           P == {i \in DOMAIN t : t[i] \in V}
           Q == {i \in DOMAIN s : s[i] \in V}
<1>1. /\ Len(s) \in Nat /\ DOMAIN s = 1..Len(s) /\ DOMAIN t = 1..Len(s)+1
      /\ t[Len(s)+1] = e /\ \A i \in 1..Len(s) : t[i] = s[i]
  BY AppendProperties, LenProperties
<1> HIDE DEF t
<1>2. Len(s) + 1 \in P <=> e \in V
  BY <1>1
<1>3. \A i \in 1..Len(s) : i \in P <=> i \in Q
  BY <1>1
<1> HIDE DEF P, Q
<1>4. Pick(s, P) = Pick(s, Q)
  BY <1>1, <1>3, PickAgrees
<1>5. Pick(t, P) = IF Len(s) + 1 \in P THEN Append(Pick(s, P), e) ELSE Pick(s, P)
  BY PickAppend DEF t
<1>6. Only(t, V) = Pick(t, P) /\ Only(s, V) = Pick(s, Q)
  BY DEF Only, P, Q
<1> QED
  BY <1>2, <1>4, <1>5, <1>6 DEF t

\* The members asked for make a sequence.
LEMMA OnlyType ==
  ASSUME NEW T, NEW s \in Seq(T), NEW V
  PROVE  Only(s, V) \in Seq(T)
  BY PickType DEF Only

\* The members asked for of two sequences in a row.
LEMMA OnlyConcat ==
  ASSUME NEW T, NEW V
  PROVE  \A s, t \in Seq(T) : Only(s \o t, V) = Only(s, V) \o Only(t, V)
<1> TAKE s, t \in Seq(T)
<1> DEFINE X == {u \in Seq(T) : Only(s \o u, V) = Only(s, V) \o Only(u, V)}
<1>1. <<>> \in X
  BY OnlyEmpty, OnlyType, EmptySeq, ConcatEmptySeq
<1>2. ASSUME NEW u \in X, NEW e \in T PROVE Append(u, e) \in X
  <2>1. u \in Seq(T) /\ Append(u, e) \in Seq(T) /\ s \o u \in Seq(T)
    BY AppendProperties, ConcatProperties
  <2> HIDE DEF X
  <2>2. Only(s \o Append(u, e), V) = IF e \in V THEN Append(Only(s \o u, V), e) ELSE Only(s \o u, V)
    <3>1. s \o Append(u, e) = Append(s \o u, e)
      BY <2>1, AppendToConcat
    <3>2. Only(Append(s \o u, e), V) = IF e \in V THEN Append(Only(s \o u, V), e) ELSE Only(s \o u, V)
      BY <2>1, OnlyAppend
    <3> QED
      BY <3>1, <3>2
  <2>3. Only(Append(u, e), V) = IF e \in V THEN Append(Only(u, V), e) ELSE Only(u, V)
    BY <2>1, OnlyAppend
  <2>4. Only(s, V) \in Seq(T) /\ Only(u, V) \in Seq(T)
    BY <2>1, OnlyType
  <2>5. Only(s, V) \o Append(Only(u, V), e) = Append(Only(s, V) \o Only(u, V), e)
    BY <2>4, AppendToConcat
  <2> QED
    BY <2>1, <2>2, <2>3, <2>5 DEF X
<1>3. X = Seq(T)
  <2>1. X \in SUBSET Seq(T)
    OBVIOUS
  <2> HIDE DEF X
  <2> QED
    BY <1>1, <1>2, <2>1, SeqInduction
<1> QED
  BY <1>3

\* No member asked for, nothing left.
LEMMA OnlyNone ==
  ASSUME NEW T, NEW s \in Seq(T), NEW V, \A i \in 1..Len(s) : s[i] \notin V
  PROVE  Only(s, V) = <<>>
<1>1. \A i \in 1..Len(s) : i \notin {j \in DOMAIN s : s[j] \in V}
  OBVIOUS
<1> QED
  BY <1>1, PickNone DEF Only

(* Picking twice is picking what both allow.                               *)
LEMMA OnlyOnly ==
  ASSUME NEW T, NEW s \in Seq(T), NEW V, NEW W
  PROVE  Only(Only(s, V), W) = Only(s, V \cap W)
<1> DEFINE X == {u \in Seq(T) : Only(Only(u, V), W) = Only(u, V \cap W)}
<1>1. <<>> \in X
  BY OnlyEmpty, EmptySeq
<1>2. ASSUME NEW u \in X, NEW e \in T PROVE Append(u, e) \in X
  <2>1. u \in Seq(T) /\ Append(u, e) \in Seq(T) /\ Only(u, V) \in Seq(T)
    BY AppendProperties, OnlyType
  <2>2. Only(Only(u, V), W) = Only(u, V \cap W)
    OBVIOUS
  <2> HIDE DEF X
  <2>3. Only(Append(u, e), V) = IF e \in V THEN Append(Only(u, V), e) ELSE Only(u, V)
    BY <2>1, OnlyAppend
  <2>4. Only(Append(u, e), V \cap W)
          = IF e \in V \cap W THEN Append(Only(u, V \cap W), e) ELSE Only(u, V \cap W)
    BY <2>1, OnlyAppend
  <2>5. Only(Append(Only(u, V), e), W)
          = IF e \in W THEN Append(Only(Only(u, V), W), e) ELSE Only(Only(u, V), W)
    BY <2>1, OnlyAppend
  <2>6. Only(Only(Append(u, e), V), W) = Only(Append(u, e), V \cap W)
    <3>1. CASE e \in V /\ e \in W
      BY <2>2, <2>3, <2>4, <2>5, <3>1
    <3>2. CASE e \in V /\ e \notin W
      BY <2>2, <2>3, <2>4, <2>5, <3>2
    <3>3. CASE e \notin V
      BY <2>2, <2>3, <2>4, <3>3
    <3> QED
      BY <3>1, <3>2, <3>3
  <2> QED
    BY <2>1, <2>6 DEF X
<1>3. X = Seq(T)
  <2>1. X \in SUBSET Seq(T)
    OBVIOUS
  <2> HIDE DEF X
  <2> QED
    BY <1>1, <1>2, <2>1, SeqInduction
<1> QED
  BY <1>3

-----------------------------------------------------------------------------
(***************************************************************************)
(* Trimming.                                                               *)
(***************************************************************************)
LEMMA MinIsLeast ==
  ASSUME NEW S \in SUBSET Nat, S # {}
  PROVE  Min(S) \in S /\ \A y \in S : Min(S) <= y
<1>1. PICK x \in S : \A y \in S : ~(<<y, x>> \in OpToRel(<, Nat))
  BY NatLessThanWellFounded, WFMin
<1>2. \A y \in S : x <= y
  <2> TAKE y \in S
  <2>1. ~(y < x)
    BY <1>1 DEF OpToRel
  <2> QED
    BY <2>1
<1> QED
  BY <1>1, <1>2 DEF Min

\* A bounded set of numbers has a greatest.
LEMMA MaxIsGreatest ==
  ASSUME NEW n \in Nat, NEW S \in SUBSET (0..n), S # {}
  PROVE  Max(S) \in S /\ \A y \in S : Max(S) >= y
<1> DEFINE R == {n - i : i \in S}
<1>1. R \in SUBSET Nat /\ R # {}
  <2>1. \A i \in S : n - i \in Nat
    OBVIOUS
  <2> QED
    BY <2>1
<1> HIDE DEF R
<1>2. Min(R) \in R /\ \A y \in R : Min(R) <= y
  BY <1>1, MinIsLeast
<1>3. PICK x \in S : Min(R) = n - x
  BY <1>2 DEF R
<1>4. \A y \in S : x >= y
  <2> TAKE y \in S
  <2>1. n - x <= n - y
    BY <1>2, <1>3 DEF R
  <2> QED
    BY <2>1
<1> QED
  BY <1>4 DEF Max

(* A text is what trimming leaves of it, between blanks.                   *)
LEMMA TrimParts ==
  ASSUME NEW T, NEW s \in Seq(T)
  PROVE  /\ TrimSpace(s) \in Seq(T)
         /\ \E a, b \in Seq(T) : IsBlank(a) /\ IsBlank(b) /\ s = (a \o TrimSpace(s)) \o b
<1> DEFINE solid == {i \in DOMAIN s : s[i] # "_"}
<1>1. Len(s) \in Nat /\ DOMAIN s = 1..Len(s) /\ \A i \in 1..Len(s) : s[i] \in T
  BY LenProperties
<1>2. CASE solid = {}
  <2>1. TrimSpace(s) = <<>>
    BY <1>2 DEF TrimSpace
  <2>2. IsBlank(s)
    BY <1>2 DEF IsBlank
  <2>3. IsBlank(<<>>)
    <3>1. DOMAIN <<>> = {}
      OBVIOUS
    <3> QED
      BY <3>1 DEF IsBlank
  <2>4. <<>> \in Seq(T) /\ s = (s \o <<>>) \o <<>>
    BY EmptySeq, ConcatEmptySeq
  <2> QED
    BY <2>1, <2>4, <2>2, <2>3
<1>3. CASE solid # {}
  <2> DEFINE m == Min(solid)  n == Max(solid)
  <2>1. solid \in SUBSET Nat /\ solid \in SUBSET (0..Len(s))
    <3>1. solid \subseteq 1..Len(s)
      BY <1>1
    <3>2. 1..Len(s) \subseteq Nat /\ 1..Len(s) \subseteq 0..Len(s)
      BY <1>1
    <3> HIDE DEF solid
    <3> QED
      BY <3>1, <3>2
  <2>2. m \in solid /\ \A y \in solid : m <= y
    BY <1>3, <2>1, MinIsLeast
  <2>3. n \in solid /\ \A y \in solid : n >= y
    BY <1>1, <1>3, <2>1, MaxIsGreatest
  <2>4. TrimSpace(s) = SubSeq(s, m, n)
    BY <1>3 DEF TrimSpace
  <2>5. m \in 1..Len(s) /\ n \in 1..Len(s) /\ m <= n
    BY <1>1, <2>2, <2>3
  <2>6. \A i \in 1..Len(s) : s[i] # "_" => i \in solid
    BY <1>1
  <2> HIDE DEF m, n, solid
  <2>7. m \in Nat /\ n \in Nat /\ m >= 1 /\ n <= Len(s) /\ Len(s) \in Nat
    BY <1>1, <2>5
  <2>8. \A i \in 1..Len(s) : i < m \/ i > n => s[i] = "_"
    <3> TAKE i \in 1..Len(s)
    <3>1. i \in Nat
      BY <2>7
    <3>2. s[i] # "_" => m <= i /\ n >= i
      BY <2>2, <2>3, <2>6
    <3>3. m <= i /\ n >= i => ~(i < m) /\ ~(i > n)
      BY <2>7, <3>1
    <3> QED
      BY <3>2, <3>3
  <2> DEFINE a == SubSeq(s, 1, m - 1)  b == SubSeq(s, n + 1, Len(s))
  <2>9. a \in Seq(T) /\ Len(a) = m - 1 /\ \A i \in 1..m-1 : a[i] = s[i]
    <3>1. \A i \in 1..m-1 : s[i] \in T
      BY <1>1, <2>5
    <3> QED
      BY <2>5, <3>1, SubSeqProperties
  <2>10. b \in Seq(T) /\ Len(b) = Len(s) - n /\ \A i \in 1..Len(s)-n : b[i] = s[n+i]
    <3>1. \A i \in n+1..Len(s) : s[i] \in T
      BY <1>1, <2>5
    <3>2. /\ b \in Seq(T) /\ Len(b) = IF n + 1 <= Len(s) THEN Len(s) - (n + 1) + 1 ELSE 0
          /\ \A i \in 1..Len(s)-(n+1)+1 : b[i] = s[n+1+i-1]
      <4>1. n + 1 \in Int /\ Len(s) \in Int
        BY <1>1, <2>5
      <4> QED
        BY <3>1, <4>1, SubSeqProperties
    <3> HIDE DEF b
    <3>3. Len(s) - (n + 1) + 1 = Len(s) - n /\ \A i \in 1..Len(s)-n : n + 1 + i - 1 = n + i
      BY <1>1, <2>5
    <3>4. ~(n + 1 <= Len(s)) => Len(s) - n = 0
      BY <2>7
    <3> QED
      BY <3>2, <3>3, <3>4
  <2>11. IsBlank(a)
    <3> SUFFICES ASSUME NEW i \in DOMAIN a PROVE a[i] = "_"
      BY DEF IsBlank
    <3>1. DOMAIN a = 1..m-1
      BY <2>9, LenProperties
    <3>2. i \in 1..Len(s) /\ i < m /\ a[i] = s[i]
      BY <2>5, <2>9, <3>1
    <3> QED
      BY <2>8, <3>2
  <2>12. IsBlank(b)
    <3> SUFFICES ASSUME NEW i \in DOMAIN b PROVE b[i] = "_"
      BY DEF IsBlank
    <3>1. DOMAIN b = 1..Len(s)-n
      BY <2>10, LenProperties
    <3>2. n + i \in 1..Len(s) /\ n + i > n
      <4>1. i \in 1..Len(s)-n
        BY <3>1
      <4> QED
        BY <2>7, <4>1
    <3>3. b[i] = s[n+i]
      BY <2>10, <3>1
    <3> QED
      BY <2>8, <3>2, <3>3
  <2>13. SubSeq(s, m, n) \in Seq(T)
    <3>1. \A i \in m..n : s[i] \in T
      BY <1>1, <2>5
    <3> QED
      BY <2>5, <3>1, SubSeqProperties
  <2>14. a \o SubSeq(s, m, n) = SubSeq(s, 1, n)
    <3>1. 1 \in 1..Len(s)+1 /\ m - 1 \in 0..Len(s) /\ n \in m-1..Len(s) /\ (m - 1) + 1 = m /\ 0 = 1 - 1
      BY <1>1, <2>5
    <3>2. SubSeq(s, 1, m - 1) \o SubSeq(s, (m - 1) + 1, n) = SubSeq(s, 1, n)
      BY <3>1, ConcatAdjacentSubSeq
    <3> QED
      BY <3>1, <3>2
  <2>15. SubSeq(s, 1, n) \o b = s
    <3>1. 1 \in 1..Len(s)+1 /\ n \in 1-1..Len(s) /\ Len(s) \in n..Len(s)
      BY <1>1, <2>5
    <3>2. SubSeq(s, 1, n) \o SubSeq(s, n + 1, Len(s)) = SubSeq(s, 1, Len(s))
      BY <3>1, ConcatAdjacentSubSeq
    <3> QED
      BY <3>2, SubSeqFull
  <2> HIDE DEF a, b
  <2> QED
    BY <2>4, <2>9, <2>10, <2>11, <2>12, <2>13, <2>14, <2>15
<1> QED
  BY <1>2, <1>3

(* Trimming loses blanks only.                                             *)
LEMMA OnlyTrim ==
  ASSUME NEW T, NEW s \in Seq(T), NEW V, "_" \notin V
  PROVE  Only(TrimSpace(s), V) = Only(s, V)
<1>1. TrimSpace(s) \in Seq(T)
  BY TrimParts
<1>2. PICK a \in Seq(T), b \in Seq(T) : IsBlank(a) /\ IsBlank(b) /\ s = (a \o TrimSpace(s)) \o b
  BY TrimParts
<1>3. ASSUME NEW c \in Seq(T), IsBlank(c) PROVE Only(c, V) = <<>>
  <2>1. \A i \in 1..Len(c) : c[i] \notin V
    BY <1>3, LenProperties DEF IsBlank
  <2> QED
    BY <2>1, OnlyNone
<1>4. Only(a, V) = <<>> /\ Only(b, V) = <<>>
  BY <1>2, <1>3
<1>5. a \in Seq(T) /\ b \in Seq(T) /\ a \o TrimSpace(s) \in Seq(T)
  BY <1>1, <1>2, ConcatProperties
<1>6. Only(a \o TrimSpace(s), V) = Only(a, V) \o Only(TrimSpace(s), V)
  BY <1>1, <1>5, OnlyConcat
<1>7. Only((a \o TrimSpace(s)) \o b, V) = Only(a \o TrimSpace(s), V) \o Only(b, V)
  BY <1>1, <1>5, OnlyConcat
<1>8. Only(TrimSpace(s), V) \in Seq(T)
  BY <1>1, OnlyType
<1> QED
  BY <1>2, <1>4, <1>6, <1>7, <1>8, ConcatEmptySeq

-----------------------------------------------------------------------------
(***************************************************************************)
(* Thoughts within a text.                                                 *)
(***************************************************************************)
NoOpen(s) == \A i \in 1..Len(s) : s[i] # "O"
Closed(s) == ~Inside(s, Len(s) + 1)
WordPlaces(s) == {i \in DOMAIN s : s[i] \notin Tags \union {"_"} /\ ~Inside(s, i)}
Outside(s) == {i \in DOMAIN s : ~Inside(s, i) /\ s[i] # "O"}

(* Whether a place is within thoughts depends on what is before it.        *)
LEMMA InsideAgrees ==
  ASSUME NEW s, NEW t, NEW n \in Nat, \A i \in 1..n : s[i] = t[i], NEW j \in 1..n+1
  PROVE  Inside(s, j) <=> Inside(t, j)
<1>1. \A o \in 1..(j-1) : o \in 1..n /\ \A c \in o..(j-1) : c \in 1..n
  OBVIOUS
<1>2. ASSUME NEW o \in 1..(j-1)
      PROVE  s[o] = t[o] /\ \A c \in o..(j-1) : s[c] = t[c]
  BY <1>1
<1>3. \A o \in 1..(j-1) : (s[o] = "O" /\ \A c \in o..(j-1) : s[c] # "C")
                            <=> (t[o] = "O" /\ \A c \in o..(j-1) : t[c] # "C")
  BY <1>2
<1> QED
  BY <1>3 DEF Inside

\* After text that closes its tags a place is inside as it is alone.
LEMMA InsideAfterClosed ==
  ASSUME NEW T, NEW s \in Seq(T), NEW t \in Seq(T), Closed(s), NEW j \in 1..Len(t)+1
  PROVE  Inside(s \o t, Len(s) + j) <=> Inside(t, j)
<1>1. PICK u, m, n : u = s \o t /\ m = Len(s) /\ n = Len(t)
  OBVIOUS
<1>2. /\ m \in Nat /\ n \in Nat
      /\ \A i \in 1..m : u[i] = s[i]
      /\ \A i \in 1..n : u[m+i] = t[i]
  <2>1. m \in Nat /\ n \in Nat
    BY <1>1, LenProperties
  <2>2. \A i \in 1..m+n : u[i] = IF i <= m THEN s[i] ELSE t[i-m]
    BY <1>1, ConcatProperties
  <2>3. \A i \in 1..m : i \in 1..m+n /\ i <= m
    BY <2>1
  <2>4. \A i \in 1..n : m + i \in 1..m+n /\ ~(m + i <= m) /\ (m + i) - m = i
    BY <2>1
  <2>5. \A i \in 1..m : u[i] = s[i]
    BY <2>2, <2>3
  <2>6. \A i \in 1..n : u[m+i] = t[i]
    BY <2>2, <2>4
  <2> QED
    BY <2>1, <2>5, <2>6
<1>3. \A o \in 1..m : s[o] = "O" => \E c \in o..m : s[c] = "C"
  <2>1. (m + 1) - 1 = m
    BY <1>2
  <2> QED
    BY <1>1, <2>1 DEF Closed, Inside
<1>4. j \in 1..n+1
  BY <1>1
<1>5. ASSUME Inside(u, m + j) PROVE Inside(t, j)
  <2>1. PICK o \in 1..((m+j)-1) : u[o] = "O" /\ \A c \in o..((m+j)-1) : u[c] # "C"
    BY <1>5 DEF Inside
  <2>2. o > m
    <3> SUFFICES ASSUME o \in 1..m PROVE FALSE
      BY <1>2, <1>4, <2>1
    <3>1. s[o] = "O"
      BY <1>2, <2>1
    <3>2. PICK c \in o..m : s[c] = "C"
      BY <1>3, <3>1
    <3>3. c \in 1..m /\ c \in o..((m+j)-1)
      BY <1>2, <1>4, <2>1, <3>2
    <3> QED
      BY <1>2, <2>1, <3>2, <3>3
  <2> DEFINE p == o - m
  <2>3. p \in 1..(j-1) /\ o = m + p /\ p \in 1..n
    BY <1>2, <1>4, <2>1, <2>2
  <2> HIDE DEF p
  <2>4. t[p] = "O"
    BY <1>2, <2>1, <2>3
  <2>5. ASSUME NEW c \in p..(j-1) PROVE t[c] # "C"
    <3>1. c \in 1..n /\ m + c \in o..((m+j)-1)
      BY <1>2, <1>4, <2>3
    <3>2. u[m+c] = t[c] /\ u[m+c] # "C"
      BY <1>2, <2>1, <3>1
    <3> QED
      BY <3>2
  <2> QED
    BY <2>3, <2>4, <2>5 DEF Inside
<1>6. ASSUME Inside(t, j) PROVE Inside(u, m + j)
  <2>1. PICK o \in 1..(j-1) : t[o] = "O" /\ \A c \in o..(j-1) : t[c] # "C"
    BY <1>6 DEF Inside
  <2>2. m + o \in 1..((m+j)-1) /\ o \in 1..n
    BY <1>2, <1>4, <2>1
  <2>3. u[m+o] = "O"
    BY <1>2, <2>1, <2>2
  <2>4. ASSUME NEW c \in (m+o)..((m+j)-1) PROVE u[c] # "C"
    <3> DEFINE d == c - m
    <3>1. d \in o..(j-1) /\ d \in 1..n /\ c = m + d
      BY <1>2, <1>4, <2>1
    <3> HIDE DEF d
    <3>2. u[m+d] = t[d] /\ t[d] # "C"
      BY <1>2, <2>1, <3>1
    <3> QED
      BY <3>1, <3>2
  <2> QED
    BY <2>2, <2>3, <2>4 DEF Inside
<1> QED
  BY <1>1, <1>5, <1>6

\* Two texts that close their tags do so in a row.
LEMMA ClosedConcat ==
  ASSUME NEW T, NEW s \in Seq(T), NEW t \in Seq(T), Closed(s), Closed(t)
  PROVE  Closed(s \o t)
<1>1. Len(s) \in Nat /\ Len(t) \in Nat /\ Len(s \o t) = Len(s) + Len(t)
  BY LenProperties, ConcatProperties
<1>2. Len(t) + 1 \in 1..Len(t)+1 /\ Len(s) + (Len(t) + 1) = (Len(s) + Len(t)) + 1
  BY <1>1
<1>3. Inside(s \o t, Len(s) + (Len(t) + 1)) <=> Inside(t, Len(t) + 1)
  BY <1>2, InsideAfterClosed
<1> QED
  BY <1>1, <1>2, <1>3 DEF Closed

(* After a text whose thoughts have ended, words are counted anew.         *)
LEMMA WordsConcat ==
  ASSUME NEW T, NEW s \in Seq(T), NEW t \in Seq(T), Closed(s)
  PROVE  Words(s \o t) = Words(s) \o Words(t)
<1>1. PICK u, P, Q : u = s \o t /\ P = WordPlaces(u) /\ Q = {j \in Nat : Len(s) + j \in P}
  OBVIOUS
<1>2. u \in Seq(T) /\ Len(u) = Len(s) + Len(t) /\ Len(s) \in Nat /\ Len(t) \in Nat
  BY <1>1, ConcatProperties, LenProperties
<1>3. \A i \in 1..Len(s)+Len(t) : u[i] = IF i <= Len(s) THEN s[i] ELSE t[i-Len(s)]
  BY <1>1, ConcatProperties
<1>4. DOMAIN u = 1..Len(s)+Len(t) /\ DOMAIN s = 1..Len(s) /\ DOMAIN t = 1..Len(t)
  BY <1>2, LenProperties
<1>5. Pick(u, P) = Pick(s, P) \o Pick(t, Q)
  <2>1. Shifts(P, Q, Len(s), Len(t))
    BY <1>1, <1>2 DEF Shifts
  <2>2. Pick(Joined(s, t), P) = Joined(Pick(s, P), Pick(t, Q))
    BY <2>1, PickConcat
  <2> QED
    BY <1>1, <2>2 DEF Joined
<1>6. ASSUME NEW i \in 1..Len(s) PROVE i \in P <=> i \in WordPlaces(s)
  <2>1. i \in 1..Len(s)+Len(t) /\ i \in 1..Len(s)+1
    BY <1>2
  <2>2. \A k \in 1..Len(s) : u[k] = s[k]
    <3> TAKE k \in 1..Len(s)
    <3>1. k \in 1..Len(s)+Len(t) /\ k <= Len(s)
      BY <1>2
    <3> QED
      BY <1>3, <3>1
  <2>3. Inside(u, i) <=> Inside(s, i)
    BY <1>2, <2>1, <2>2, InsideAgrees
  <2> QED
    BY <1>1, <1>4, <2>1, <2>2, <2>3 DEF WordPlaces
<1>7. ASSUME NEW j \in 1..Len(t) PROVE j \in Q <=> j \in WordPlaces(t)
  <2>1. Len(s) + j \in 1..Len(s)+Len(t) /\ j \in 1..Len(t)+1 /\ j \in Nat
    BY <1>2
  <2>2. u[Len(s)+j] = t[j]
    <3>1. ~(Len(s) + j <= Len(s)) /\ (Len(s) + j) - Len(s) = j
      BY <1>2
    <3> QED
      BY <1>3, <2>1, <3>1
  <2>3. Inside(u, Len(s) + j) <=> Inside(t, j)
    BY <1>1, <2>1, InsideAfterClosed
  <2>4. Len(s) + j \in P <=> j \in WordPlaces(t)
    BY <1>1, <1>4, <2>1, <2>2, <2>3 DEF WordPlaces
  <2> QED
    BY <1>1, <2>1, <2>4
<1>8. Pick(s, P) = Pick(s, WordPlaces(s)) /\ Pick(t, Q) = Pick(t, WordPlaces(t))
  BY <1>2, <1>6, <1>7, PickAgrees
<1>9. Words(u) = Pick(u, P) /\ Words(s) = Pick(s, WordPlaces(s)) /\ Words(t) = Pick(t, WordPlaces(t))
  BY <1>1 DEF Words, WordPlaces
<1> QED
  BY <1>1, <1>5, <1>8, <1>9

(* What is picked from a text, or left of it by trimming, is of it.        *)
LEMMA PickMembers ==
  ASSUME NEW T, NEW s \in Seq(T), NEW P
  PROVE  \A k \in 1..Len(Pick(s, P)) : \E i \in 1..Len(s) : i \in P /\ Pick(s, P)[k] = s[i]
<1> DEFINE X == {u \in Seq(T) : \A k \in 1..Len(Pick(u, P)) :
                                  \E i \in 1..Len(u) : i \in P /\ Pick(u, P)[k] = u[i]}
<1>1. <<>> \in X
  <2>1. Pick(<<>>, P) = <<>> /\ Len(<<>>) = 0 /\ <<>> \in Seq(T)
    BY PickEmpty, EmptySeq
  <2> QED
    BY <2>1
<1>2. ASSUME NEW u \in X, NEW e \in T PROVE Append(u, e) \in X
  <2>1. u \in Seq(T) /\ Append(u, e) \in Seq(T) /\ Pick(u, P) \in Seq(T)
    BY AppendProperties, PickType
  <2>2. /\ Len(u) \in Nat /\ Len(Append(u, e)) = Len(u) + 1 /\ Append(u, e)[Len(u)+1] = e
        /\ \A i \in 1..Len(u) : Append(u, e)[i] = u[i]
    BY <2>1, AppendProperties, LenProperties
  <2>3. Pick(Append(u, e), P) = IF Len(u) + 1 \in P THEN Append(Pick(u, P), e) ELSE Pick(u, P)
    BY <2>1, PickAppend
  <2>4. /\ Len(Pick(u, P)) \in Nat /\ Len(Append(Pick(u, P), e)) = Len(Pick(u, P)) + 1
        /\ Append(Pick(u, P), e)[Len(Pick(u, P))+1] = e
        /\ \A i \in 1..Len(Pick(u, P)) : Append(Pick(u, P), e)[i] = Pick(u, P)[i]
    BY <2>1, AppendProperties, LenProperties
  <2>5. \A k \in 1..Len(Pick(u, P)) : \E i \in 1..Len(u) : i \in P /\ Pick(u, P)[k] = u[i]
    OBVIOUS
  <2> HIDE DEF X
  <2>6. \A k \in 1..Len(Pick(u, P)) :
          \E i \in 1..Len(Append(u, e)) : i \in P /\ Pick(u, P)[k] = Append(u, e)[i]
    <3> TAKE k \in 1..Len(Pick(u, P))
    <3>1. PICK i \in 1..Len(u) : i \in P /\ Pick(u, P)[k] = u[i]
      BY <2>5
    <3>2. i \in 1..Len(Append(u, e)) /\ Append(u, e)[i] = u[i]
      BY <2>2
    <3> QED
      BY <3>1, <3>2
  <2>7. ASSUME NEW k \in 1..Len(Pick(Append(u, e), P))
        PROVE  \E i \in 1..Len(Append(u, e)) : i \in P /\ Pick(Append(u, e), P)[k] = Append(u, e)[i]
    <3>1. CASE Len(u) + 1 \notin P
      BY <2>3, <2>6, <3>1
    <3>2. CASE Len(u) + 1 \in P /\ k \in 1..Len(Pick(u, P))
      <4>1. Pick(Append(u, e), P)[k] = Pick(u, P)[k]
        BY <2>3, <2>4, <3>2
      <4> QED
        BY <2>6, <3>2, <4>1
    <3>3. CASE Len(u) + 1 \in P /\ k = Len(Pick(u, P)) + 1
      <4>1. Pick(Append(u, e), P)[k] = e
        BY <2>3, <2>4, <3>3
      <4>2. Len(u) + 1 \in 1..Len(Append(u, e)) /\ Append(u, e)[Len(u)+1] = e
        BY <2>2
      <4> QED
        BY <3>3, <4>1, <4>2
    <3> QED
      <4>1. Len(u) + 1 \in P => k \in 1..Len(Pick(u, P)) + 1
        BY <2>3, <2>4
      <4> QED
        BY <2>4, <3>1, <3>2, <3>3, <4>1
  <2> QED
    BY <2>1, <2>7 DEF X
<1>3. X = Seq(T)
  <2>1. X \in SUBSET Seq(T)
    OBVIOUS
  <2> HIDE DEF X
  <2> QED
    BY <1>1, <1>2, <2>1, SeqInduction
<1> QED
  BY <1>3

\* Trimming opens no tag.
LEMMA TrimNoOpen ==
  ASSUME NEW T, NEW s \in Seq(T), NoOpen(s)
  PROVE  NoOpen(TrimSpace(s))
<1>1. PICK t : t = TrimSpace(s)
  OBVIOUS
<1>2. PICK a \in Seq(T), b \in Seq(T) : t \in Seq(T) /\ s = (a \o t) \o b
  <2>1. /\ TrimSpace(s) \in Seq(T)
        /\ \E a, b \in Seq(T) : IsBlank(a) /\ IsBlank(b) /\ s = (a \o TrimSpace(s)) \o b
    BY TrimParts
  <2> QED
    BY <1>1, <2>1
<1>3. Len(a) \in Nat /\ Len(t) \in Nat /\ Len(b) \in Nat
  BY <1>2, LenProperties
<1>4. /\ a \o t \in Seq(T) /\ Len(a \o t) = Len(a) + Len(t)
      /\ \A i \in 1..Len(a)+Len(t) : (a \o t)[i] = IF i <= Len(a) THEN a[i] ELSE t[i-Len(a)]
  BY <1>2, ConcatProperties
<1>5. PICK w : w = a \o t
  OBVIOUS
<1>6. /\ Len(s) = Len(w) + Len(b)
      /\ \A i \in 1..Len(w)+Len(b) : s[i] = IF i <= Len(w) THEN w[i] ELSE b[i-Len(w)]
  BY <1>2, <1>4, <1>5, ConcatProperties
<1>7. ASSUME NEW k \in 1..Len(t) PROVE t[k] # "O"
  <2>1. /\ Len(a) + k \in 1..Len(a)+Len(t) /\ ~(Len(a) + k <= Len(a)) /\ (Len(a) + k) - Len(a) = k
        /\ Len(a) + k \in 1..Len(w)+Len(b) /\ Len(a) + k <= Len(w) /\ Len(w) = Len(a) + Len(t)
    BY <1>3, <1>4, <1>5
  <2>2. w[Len(a)+k] = t[k]
    BY <1>4, <1>5, <2>1
  <2>3. s[Len(a)+k] = w[Len(a)+k]
    BY <1>6, <2>1
  <2>4. s[Len(a)+k] # "O"
    BY <1>6, <2>1 DEF NoOpen
  <2> QED
    BY <2>2, <2>3, <2>4
<1> QED
  BY <1>1, <1>7 DEF NoOpen

(* Without an opening tag there are no thoughts.                           *)
LEMMA NoOpenWords ==
  ASSUME NEW T, NEW s \in Seq(T), NoOpen(s)
  PROVE  Closed(s) /\ Words(s) = Only(s, T \ (Tags \union {"_"}))
<1>1. Len(s) \in Nat /\ DOMAIN s = 1..Len(s) /\ \A i \in 1..Len(s) : s[i] \in T
  BY LenProperties
<1>2. ASSUME NEW j \in 1..Len(s)+1 PROVE ~Inside(s, j)
  <2>1. \A o \in 1..(j-1) : o \in 1..Len(s)
    BY <1>1
  <2> QED
    BY <2>1 DEF NoOpen, Inside
<1>3. Closed(s)
  BY <1>1, <1>2 DEF Closed
<1>4. \A i \in 1..Len(s) :
        i \in WordPlaces(s) <=> i \in {k \in DOMAIN s : s[k] \in T \ (Tags \union {"_"})}
  <2> TAKE i \in 1..Len(s)
  <2>1. ~Inside(s, i)
    BY <1>1, <1>2
  <2> QED
    BY <1>1, <2>1 DEF WordPlaces
<1>5. Pick(s, WordPlaces(s)) = Pick(s, {k \in DOMAIN s : s[k] \in T \ (Tags \union {"_"})})
  BY <1>1, <1>4, PickAgrees
<1> QED
  BY <1>3, <1>5 DEF Words, WordPlaces, Only

(* Taking the thoughts out of a text leaves its words.                     *)
LEMMA OutsideWords ==
  ASSUME NEW T
  PROVE  \A s \in Seq(T) : Only(Pick(s, Outside(s)), T \ (Tags \union {"_"})) = Words(s)
<1> DEFINE V == T \ (Tags \union {"_"})
           X == {s \in Seq(T) : Only(Pick(s, Outside(s)), V) = Words(s)}
<1>1. <<>> \in X
  <2>1. Pick(<<>>, Outside(<<>>)) = <<>> /\ Words(<<>>) = <<>>
    BY PickEmpty DEF Words
  <2> QED
    BY <2>1, OnlyEmpty, EmptySeq
<1>2. ASSUME NEW s \in X, NEW e \in T PROVE Append(s, e) \in X
  <2>1. s \in Seq(T) /\ Append(s, e) \in Seq(T) /\ Pick(s, Outside(s)) \in Seq(T)
    BY AppendProperties, PickType
  <2>2. Only(Pick(s, Outside(s)), V) = Words(s)
    OBVIOUS
  <2> HIDE DEF X, V
  <2>3. PICK t : t = Append(s, e)
    OBVIOUS
  <2>4. /\ Len(s) \in Nat /\ Len(t) = Len(s) + 1 /\ t[Len(s)+1] = e
        /\ \A i \in 1..Len(s) : s[i] = t[i]
        /\ DOMAIN t = 1..Len(s)+1 /\ DOMAIN s = 1..Len(s)
    <3>1. s \in Seq(T) /\ e \in T
      BY <2>1
    <3>2. /\ Append(s, e) \in Seq(T) /\ Len(Append(s, e)) = Len(s) + 1
          /\ Append(s, e)[Len(s)+1] = e /\ \A i \in 1..Len(s) : Append(s, e)[i] = s[i]
      BY <3>1, AppendProperties
    <3>3. Len(s) \in Nat /\ DOMAIN s = 1..Len(s) /\ DOMAIN Append(s, e) = 1..Len(Append(s, e))
      BY <3>1, <3>2, LenProperties
    <3> QED
      BY <2>3, <3>2, <3>3
  <2>5. \A j \in 1..Len(s)+1 : Inside(s, j) <=> Inside(t, j)
    BY <2>4, InsideAgrees
  <2>6. \A i \in 1..Len(s) : i \in Outside(t) <=> i \in Outside(s)
    <3> TAKE i \in 1..Len(s)
    <3>1. i \in 1..Len(s)+1 /\ i \in DOMAIN t /\ i \in DOMAIN s /\ s[i] = t[i]
      BY <2>4
    <3> QED
      BY <2>5, <3>1 DEF Outside
  <2>7. \A i \in 1..Len(s) : i \in WordPlaces(t) <=> i \in WordPlaces(s)
    <3> TAKE i \in 1..Len(s)
    <3>1. i \in 1..Len(s)+1 /\ i \in DOMAIN t /\ i \in DOMAIN s /\ s[i] = t[i]
      BY <2>4
    <3> QED
      BY <2>5, <3>1 DEF WordPlaces
  <2>8. Pick(s, Outside(t)) = Pick(s, Outside(s)) /\ Pick(s, WordPlaces(t)) = Pick(s, WordPlaces(s))
    BY <2>4, <2>6, <2>7, PickAgrees
  <2>9. Pick(t, Outside(t)) = IF Len(s) + 1 \in Outside(t) THEN Append(Pick(s, Outside(s)), e)
                                                           ELSE Pick(s, Outside(s))
    <3>1. Pick(Append(s, e), Outside(t))
            = IF Len(s) + 1 \in Outside(t) THEN Append(Pick(s, Outside(t)), e) ELSE Pick(s, Outside(t))
      BY <2>1, PickAppend
    <3> QED
      BY <2>3, <2>8, <3>1
  <2>10. Words(t) = IF Len(s) + 1 \in WordPlaces(t) THEN Append(Words(s), e) ELSE Words(s)
    <3>1. Pick(Append(s, e), WordPlaces(t))
            = IF Len(s) + 1 \in WordPlaces(t) THEN Append(Pick(s, WordPlaces(t)), e)
                                              ELSE Pick(s, WordPlaces(t))
      BY <2>1, PickAppend
    <3>2. Words(t) = Pick(t, WordPlaces(t)) /\ Words(s) = Pick(s, WordPlaces(s))
      BY DEF Words, WordPlaces
    <3> QED
      BY <2>3, <2>8, <3>1, <3>2
  <2>11. Only(Append(Pick(s, Outside(s)), e), V)
           = IF e \in V THEN Append(Only(Pick(s, Outside(s)), V), e) ELSE Only(Pick(s, Outside(s)), V)
    BY <2>1, OnlyAppend
  <2>12. Len(s) + 1 \in WordPlaces(t) <=> Len(s) + 1 \in Outside(t) /\ e \in V
    <3>1. Len(s) + 1 \in DOMAIN t
      <4>1. Len(s) + 1 \in 1..Len(s)+1
        BY <2>4
      <4> QED
        BY <2>4, <4>1
    <3> QED
      BY <2>4, <3>1 DEF WordPlaces, Outside, Tags, V
  <2>13. Only(Pick(t, Outside(t)), V) = Words(t)
    <3>1. CASE Len(s) + 1 \in Outside(t) /\ e \in V
      BY <2>9, <2>10, <2>11, <2>12, <2>2, <3>1
    <3>2. CASE Len(s) + 1 \in Outside(t) /\ e \notin V
      BY <2>9, <2>10, <2>11, <2>12, <2>2, <3>2
    <3>3. CASE Len(s) + 1 \notin Outside(t)
      BY <2>9, <2>10, <2>12, <2>2, <3>3
    <3> QED
      BY <3>1, <3>2, <3>3
  <2> QED
    BY <2>1, <2>3, <2>13 DEF X
<1>3. X = Seq(T)
  <2>1. X \in SUBSET Seq(T)
    OBVIOUS
  <2> HIDE DEF X
  <2> QED
    BY <1>1, <1>2, <2>1, SeqInduction
<1> QED
  BY <1>3

(* What splitThinkTags makes of a text.                                    *)
LEMMA SplitParts ==
  ASSUME NEW T, NEW s \in Seq(T)
  PROVE  /\ splitThinkTags(s).clean \in Seq(T) /\ splitThinkTags(s).thought \in Seq(T)
         /\ NoOpen(splitThinkTags(s).clean) /\ Words(splitThinkTags(s).clean) = Words(s)
         /\ NoOpen(s) => splitThinkTags(s).clean = s
<1>1. CASE ~Contains(s, "O")
  <2>1. splitThinkTags(s).clean = s /\ splitThinkTags(s).thought = <<>>
    BY <1>1 DEF splitThinkTags
  <2>2. NoOpen(s)
    BY <1>1 DEF Contains, NoOpen
  <2> QED
    BY <2>1, <2>2, EmptySeq
<1>2. CASE Contains(s, "O")
  <2> DEFINE V == T \ (Tags \union {"_"})
  <2>1. ~NoOpen(s)
    BY <1>2 DEF Contains, NoOpen
  <2>2. PICK u, h : u = Pick(s, Outside(s)) /\ h = Pick(s, {i \in DOMAIN s : Inside(s, i) /\ s[i] # "C"})
    OBVIOUS
  <2>3. splitThinkTags(s).clean = TrimSpace(u) /\ splitThinkTags(s).thought = TrimSpace(h)
    BY <1>2, <2>2 DEF splitThinkTags, Outside
  <2>4. u \in Seq(T) /\ h \in Seq(T)
    BY <2>2, PickType
  <2>5. TrimSpace(u) \in Seq(T) /\ TrimSpace(h) \in Seq(T)
    BY <2>4, TrimParts
  <2>6. NoOpen(u)
    <3> SUFFICES ASSUME NEW k \in 1..Len(u) PROVE u[k] # "O"
      BY DEF NoOpen
    <3>1. PICK i \in 1..Len(s) : i \in Outside(s) /\ u[k] = s[i]
      BY <2>2, PickMembers
    <3> QED
      BY <3>1 DEF Outside
  <2>7. NoOpen(TrimSpace(u))
    BY <2>4, <2>6, TrimNoOpen
  <2>8. Words(TrimSpace(u)) = Only(TrimSpace(u), V)
    BY <2>5, <2>7, NoOpenWords
  <2>9. Only(TrimSpace(u), V) = Only(u, V)
    <3>1. "_" \notin V
      OBVIOUS
    <3> HIDE DEF V
    <3> QED
      BY <2>4, <3>1, OnlyTrim
  <2>10. Only(u, V) = Words(s)
    BY <2>2, OutsideWords
  <2> QED
    BY <2>1, <2>3, <2>5, <2>7, <2>8, <2>9, <2>10
<1> QED
  BY <1>1, <1>2

-----------------------------------------------------------------------------
(***************************************************************************)
(* The inductive invariant.                                                *)
(***************************************************************************)
CallType == [id : Nat, args : Seq(STRING)]
FragmentType == [index : Nat, id : Nat, args : Seq(STRING)]
PayloadType == [kind : {"chunk", "other", "[DONE]"}, chunk : ChunkType]

CallsTyped(c) == \A i \in DOMAIN c : i \in Nat /\ c[i].id \in Nat
Typed == TypeOK /\ made \in Seq(CallType)

\* Nothing has come of a request that was not accepted, a stream that ended
\* leaves nothing to flush, and an answer is done only without an error.
Stages ==
  /\ phase \in {"request", "backoff"} =>
       /\ sent = <<>> /\ made = <<>> /\ block = <<>> /\ ~broken /\ ~misled
       /\ text = <<>> /\ calls = <<>>
  /\ phase \in {"ended", "done"} => block = <<>>
  /\ phase = "done" => ~broken

\* Flush will absorb a chunk.
Pending == Len(block) = 1 /\ block[1].kind = "chunk"
\* Nothing was lost yet.
Sound == ~broken /\ Len(block) <= 1

\* What text and calls are when the pending chunk is absorbed.
FullText ==
  IF Pending THEN text \o normalizeAssistantContent(text, block[1].chunk.content) ELSE text
FullCalls ==
  IF Pending THEN AddFragments(calls, block[1].chunk.calls) ELSE calls

\* c has the calls of m at the indices from 0.
CallsAre(c, m) ==
  /\ DOMAIN c = 0..(Len(m)-1)
  /\ \A i \in DOMAIN c : c[i] = m[i+1]

\* The answer has the words meant, and from other servers than one of deltas
\* the very text.
Faithful(full, meant) ==
  /\ NoOpen(full) /\ Closed(meant) /\ Words(full) = Words(meant)
  /\ server # "delta" => full = meant
\* Chat calls are those made, and there are none if none were made.
Complete(full, m) ==
  /\ m = <<>> => full = <<>>
  /\ server # "responses" => CallsAre(full, m)

TextInv == Sound /\ ~misled => Faithful(FullText, sent)
CallsInv == Sound /\ phase # "done" => Complete(FullCalls, made)

-----------------------------------------------------------------------------
(***************************************************************************)
(* AddFragments.                                                           *)
(***************************************************************************)

\* The function that AddFragments evaluates at the end of the list.
IsAdded(f, pending, list, n) ==
  f = [k \in 0..n |-> IF k = 0 THEN pending ELSE AddFragment(f[k-1], list[k])]

\* Fragments can be added one after another.
LEMMA AddedExists ==
  ASSUME NEW pending, NEW list, NEW n \in Nat
  PROVE  \E f : IsAdded(f, pending, list, n)
<1> DEFINE S == {m \in Nat : \E f : IsAdded(f, pending, list, m)}
<1>1. 0 \in S
  <2> DEFINE f == [k \in 0..0 |-> pending]
  <2>1. IsAdded(f, pending, list, 0)
    BY DEF IsAdded
  <2> QED
    BY <2>1
<1>2. ASSUME NEW m \in S PROVE m + 1 \in S
  <2>1. PICK f : IsAdded(f, pending, list, m)
    OBVIOUS
  <2> DEFINE last == AddFragment(f[m], list[m+1])
             g == [k \in 0..m+1 |-> IF k = m + 1 THEN last ELSE f[k]]
  <2>2. \A k \in 0..m : f[k] = IF k = 0 THEN pending ELSE AddFragment(f[k-1], list[k])
    BY <2>1 DEF IsAdded
  <2>3. m \in Nat /\ \A k \in 0..m : k # m + 1 /\ k \in 0..m+1 /\ (k # 0 => k - 1 \in 0..m)
    OBVIOUS
  <2>4. \A k \in 0..m : g[k] = f[k]
    BY <2>3
  <2>5. g[m+1] = last
    BY <2>3
  <2>6. \A k \in 0..m+1 : g[k] = IF k = 0 THEN pending ELSE AddFragment(g[k-1], list[k])
    <3> TAKE k \in 0..m+1
    <3>1. CASE k = m + 1
      <4>1. k # 0 /\ k - 1 = m /\ m \in 0..m
        BY <2>3, <3>1
      <4>2. g[k-1] = f[m] /\ g[k] = last
        BY <2>4, <2>5, <3>1, <4>1
      <4> HIDE DEF g
      <4> QED
        BY <3>1, <4>1, <4>2
    <3>2. CASE k \in 0..m
      <4>1. g[k] = f[k] /\ (k # 0 => g[k-1] = f[k-1])
        BY <2>3, <2>4, <3>2
      <4> HIDE DEF g
      <4> QED
        BY <2>2, <3>2, <4>1
    <3> QED
      BY <2>3, <3>1, <3>2
  <2>7. g = [k \in 0..m+1 |-> g[k]]
    OBVIOUS
  <2> HIDE DEF g, last
  <2>8. g = [k \in 0..m+1 |-> IF k = 0 THEN pending ELSE AddFragment(g[k-1], list[k])]
    BY <2>6, <2>7
  <2>9. IsAdded(g, pending, list, m + 1)
    BY <2>8 DEF IsAdded
  <2> QED
    BY <2>3, <2>9
<1> HIDE DEF S
<1>3. S = Nat
  <2>1. S \in SUBSET Nat
    BY DEF S
  <2> QED
    BY <1>1, <1>2, <2>1, Induction
<1> QED
  BY <1>3 DEF S

(* The calls after each fragment.                                          *)
LEMMA AddFragmentsSteps ==
  ASSUME NEW pending, NEW list, Len(list) \in Nat
  PROVE  \E f : /\ f[0] = pending /\ f[Len(list)] = AddFragments(pending, list)
                /\ \A k \in 1..Len(list) : f[k] = AddFragment(f[k-1], list[k])
<1> DEFINE f == CHOOSE f : IsAdded(f, pending, list, Len(list))
<1>1. IsAdded(f, pending, list, Len(list))
  BY AddedExists
<1>2. AddFragments(pending, list) = f[Len(list)]
  BY DEF AddFragments, IsAdded
<1> HIDE DEF f
<1>3. \A k \in 0..Len(list) : f[k] = IF k = 0 THEN pending ELSE AddFragment(f[k-1], list[k])
  BY <1>1 DEF IsAdded
<1>4. 0 \in 0..Len(list) /\ \A k \in 1..Len(list) : k \in 0..Len(list) /\ k # 0
  OBVIOUS
<1> QED
  BY <1>2, <1>3, <1>4

\* Adding no fragments changes nothing.
LEMMA AddNoFragments ==
  ASSUME NEW pending
  PROVE  AddFragments(pending, <<>>) = pending
<1>1. Len(<<>>) = 0
  OBVIOUS
<1>2. PICK f : f[0] = pending /\ f[0] = AddFragments(pending, <<>>)
  BY <1>1, AddFragmentsSteps
<1> QED
  BY <1>2

\* Adding one fragment in a list is adding it.
LEMMA AddOneFragment ==
  ASSUME NEW pending, NEW f
  PROVE  AddFragments(pending, <<f>>) = AddFragment(pending, f)
<1>1. Len(<<f>>) = 1 /\ <<f>>[1] = f
  OBVIOUS
<1>2. PICK g : /\ g[0] = pending /\ g[1] = AddFragments(pending, <<f>>)
               /\ \A k \in 1..1 : g[k] = AddFragment(g[k-1], <<f>>[k])
  BY <1>1, AddFragmentsSteps
<1>3. 1 \in 1..1 /\ 1 - 1 = 0
  OBVIOUS
<1> QED
  BY <1>1, <1>2, <1>3

\* A fragment added keeps the calls typed.
LEMMA AddFragmentType ==
  ASSUME NEW c, CallsTyped(c), NEW f \in FragmentType
  PROVE  CallsTyped(AddFragment(c, f))
<1>1. f.index \in Nat /\ f.id \in Nat
  BY DEF FragmentType
<1>2. PICK old : old = IF f.index \in DOMAIN c THEN c[f.index] ELSE NoCall
  OBVIOUS
<1>3. old.id \in Nat
  BY <1>2 DEF CallsTyped, NoCall
<1>4. PICK new : new = [id |-> IF f.id # 0 THEN f.id ELSE old.id, args |-> old.args \o f.args]
  OBVIOUS
<1>5. new.id \in Nat
  BY <1>1, <1>3, <1>4
<1>6. AddFragment(c, f) = [i \in DOMAIN c \union {f.index} |-> IF i = f.index THEN new ELSE c[i]]
  BY <1>2, <1>4 DEF AddFragment
<1> QED
  BY <1>1, <1>5, <1>6 DEF CallsTyped

\* So do all the fragments of a chunk.
LEMMA AddFragmentsType ==
  ASSUME NEW c, CallsTyped(c), NEW list \in Seq(FragmentType)
  PROVE  CallsTyped(AddFragments(c, list))
<1>1. Len(list) \in Nat /\ \A k \in 1..Len(list) : list[k] \in FragmentType
  BY LenProperties
<1>2. PICK f : /\ f[0] = c /\ f[Len(list)] = AddFragments(c, list)
               /\ \A k \in 1..Len(list) : f[k] = AddFragment(f[k-1], list[k])
  BY <1>1, AddFragmentsSteps
<1> DEFINE S == {k \in Nat : k <= Len(list) => CallsTyped(f[k])}
<1>3. 0 \in S
  BY <1>2
<1>4. ASSUME NEW k \in S PROVE k + 1 \in S
  <2> SUFFICES ASSUME k + 1 <= Len(list) PROVE CallsTyped(f[k+1])
    OBVIOUS
  <2>1. k + 1 \in 1..Len(list) /\ (k + 1) - 1 = k /\ k <= Len(list)
    BY <1>1
  <2>2. CallsTyped(f[k])
    BY <2>1
  <2>3. f[k+1] = AddFragment(f[k], list[k+1])
    BY <1>2, <2>1
  <2> QED
    BY <1>1, <2>1, <2>2, <2>3, AddFragmentType
<1> HIDE DEF S
<1>5. S = Nat
  <2>1. S \in SUBSET Nat
    BY DEF S
  <2> QED
    BY <1>3, <1>4, <2>1, Induction
<1> QED
  BY <1>1, <1>2, <1>5 DEF S

-----------------------------------------------------------------------------
(***************************************************************************)
(* Types.                                                                  *)
(***************************************************************************)
LEMMA TextsTyped == \A s \in Texts \union Thoughts : s \in Seq(Tokens)
  BY ModelStreamAssumption

\* The empty chunk is a chunk.
LEMMA NoChunkType == NoChunk \in ChunkType
  BY EmptySeq DEF NoChunk, ChunkType

\* A content makes a chunk without calls.
LEMMA ContentChunkType ==
  ASSUME NEW s \in Seq(Tokens), NEW r \in Seq(Tokens)
  PROVE  /\ ContentChunk(s, r) \in ChunkType
         /\ ContentChunk(s, r).calls = <<>>
         /\ ContentChunk(s, r).content = IF server = "responses" THEN s ELSE splitThinkTags(s).clean
<1>1. PICK parts : parts = splitThinkTags(s)
  OBVIOUS
<1>2. parts.clean \in Seq(Tokens) /\ parts.thought \in Seq(Tokens)
  BY <1>1, SplitParts
<1>3. NoChunk = [content |-> <<>>, reasoning |-> <<>>, images |-> {}, calls |-> <<>>]
  BY DEF NoChunk
<1>4. CASE server = "responses"
  <2>1. ContentChunk(s, r) = [NoChunk EXCEPT !.content = s]
    BY <1>4 DEF ContentChunk
  <2>2. ContentChunk(s, r) = [content |-> s, reasoning |-> <<>>, images |-> {}, calls |-> <<>>]
    BY <1>3, <2>1
  <2> QED
    BY <1>4, <2>2, EmptySeq DEF ChunkType
<1>5. CASE server # "responses"
  <2>1. ContentChunk(s, r) = [NoChunk EXCEPT !.content = parts.clean,
                                             !.reasoning = IF r # <<>> THEN r ELSE parts.thought]
    BY <1>1, <1>5 DEF ContentChunk
  <2>2. ContentChunk(s, r) = [content |-> parts.clean,
                              reasoning |-> IF r # <<>> THEN r ELSE parts.thought,
                              images |-> {}, calls |-> <<>>]
    BY <1>3, <2>1
  <2> QED
    BY <1>1, <1>2, <1>5, <2>2, EmptySeq DEF ChunkType
<1> QED
  BY <1>4, <1>5

(* What is new in a content, and what it makes of the text.                *)
LEMMA NormalizeType ==
  ASSUME NEW T, NEW current \in Seq(T), NEW incoming \in Seq(T)
  PROVE  /\ normalizeAssistantContent(current, incoming) \in Seq(T)
         /\ normalizeAssistantContent(current, <<>>) = <<>>
<1>1. Len(current) \in Nat /\ Len(incoming) \in Nat /\ \A i \in 1..Len(incoming) : incoming[i] \in T
  BY LenProperties
<1>2. SubSeq(incoming, Len(current) + 1, Len(incoming)) \in Seq(T)
  <2>1. Len(current) + 1 \in Int /\ Len(incoming) \in Int
    BY <1>1
  <2>2. \A i \in Len(current)+1..Len(incoming) : incoming[i] \in T
    BY <1>1
  <2> QED
    BY <2>1, <2>2, SubSeqProperties
<1>3. current # <<>> => ~IsPrefix(current, <<>>)
  <2>1. Len(<<>>) = 0 /\ (current # <<>> => Len(current) \in Nat \ {0})
    BY EmptySeq
  <2> QED
    BY <2>1 DEF IsPrefix
<1> QED
  BY <1>2, <1>3 DEF normalizeAssistantContent

\* New images are a sequence of images.
LEMMA NewImagesType ==
  ASSUME NEW S \in SUBSET Urls, NEW order \in SetToSeqs(S), NEW have
  PROVE  NewImages(have, order) \in Seq(Urls)
<1>1. IsFiniteSet(S)
  BY ModelStreamAssumption, FS_Subset
<1>2. Cardinality(S) \in Nat
  BY <1>1, FS_CardinalityType
<1>3. order \in [1..Cardinality(S) -> S]
  BY DEF SetToSeqs
<1>4. order \in Seq(Urls)
  <2>1. \A i \in 1..Cardinality(S) : order[i] \in Urls
    BY <1>3
  <2>2. order = [i \in 1..Cardinality(S) |-> order[i]]
    BY <1>3
  <2>3. [i \in 1..Cardinality(S) |-> order[i]] \in Seq(Urls)
    BY <1>2, <2>1, IsASeq
  <2> QED
    BY <2>2, <2>3
<1> QED
  BY <1>4, PickType DEF NewImages

AssembledType(txt, emi, rea, img, cs) ==
  /\ {txt, emi, rea} \subseteq Seq(Tokens)
  /\ img \in Seq(Urls)
  /\ CallsTyped(cs)

\* Absorbing a chunk keeps what is assembled typed.
LEMMA AbsorbType ==
  ASSUME AssembledType(text, emitted, reasoning, images, calls), NEW ch \in ChunkType, Absorb(ch)
  PROVE  AssembledType(text', emitted', reasoning', images', calls')
<1>1. /\ text \in Seq(Tokens) /\ emitted \in Seq(Tokens) /\ reasoning \in Seq(Tokens)
      /\ images \in Seq(Urls) /\ CallsTyped(calls)
  BY DEF AssembledType
<1>2. /\ ch.content \in Seq(Tokens) /\ ch.reasoning \in Seq(Tokens)
      /\ ch.images \in SUBSET Urls /\ ch.calls \in Seq(FragmentType)
  BY DEF ChunkType, FragmentType
<1>3. PICK content : content = normalizeAssistantContent(text, ch.content)
  OBVIOUS
<1>4. content \in Seq(Tokens)
  BY <1>1, <1>2, <1>3, NormalizeType
<1>5. text' \in Seq(Tokens)
  <2>1. text' = text \o content
    BY <1>3 DEF Absorb
  <2> QED
    BY <1>1, <1>4, <2>1, ConcatProperties
<1>6. emitted' \in Seq(Tokens)
  <2>1. emitted' = emitted \o content \/ emitted' = emitted
    BY <1>3 DEF Absorb
  <2> QED
    BY <1>1, <1>4, <2>1, ConcatProperties
<1>7. reasoning' \in Seq(Tokens)
  <2>1. reasoning' = reasoning \o ch.reasoning
    BY DEF Absorb
  <2> QED
    BY <1>1, <1>2, <2>1, ConcatProperties
<1>8. images' \in Seq(Urls)
  <2>1. PICK order \in SetToSeqs(ch.images) : images' = images \o NewImages(images, order)
    BY DEF Absorb
  <2>2. NewImages(images, order) \in Seq(Urls)
    BY <1>2, <2>1, NewImagesType
  <2> QED
    BY <1>1, <2>1, <2>2, ConcatProperties
<1>9. CallsTyped(calls')
  <2>1. calls' = AddFragments(calls, ch.calls)
    BY DEF Absorb
  <2> QED
    BY <1>1, <1>2, <2>1, AddFragmentsType
<1> QED
  BY <1>5, <1>6, <1>7, <1>8, <1>9 DEF AssembledType

(* The calls written into a text are typed.                                *)
LEMMA InlineCallsType ==
  ASSUME NEW r \in Seq(Tokens)
  PROVE  CallsTyped(InlineCalls(r))
<1>1. PICK blocks, good : /\ blocks = Only(r, {"T", "V", "U"})
                          /\ good = {i \in DOMAIN blocks : blocks[i] # "U"}
  OBVIOUS
<1>2. blocks \in Seq(Tokens)
  BY <1>1, OnlyType
<1>3. DOMAIN blocks = 1..Len(blocks) /\ Len(blocks) \in Nat
  BY <1>2, LenProperties
<1>4. PICK c : c = InlineCalls(r)
  OBVIOUS
<1>5. c = [i \in {k - 1 : k \in good} |-> [id |-> 0, args |-> <<blocks[i+1]>>]]
  BY <1>1, <1>4 DEF InlineCalls
<1>6. ASSUME NEW i \in DOMAIN c PROVE i \in Nat /\ c[i].id \in Nat
  <2>1. PICK k \in good : i = k - 1
    BY <1>5, <1>6
  <2>2. i \in Nat
    BY <1>1, <1>3, <2>1
  <2>3. c[i] = [id |-> 0, args |-> <<blocks[i+1]>>]
    BY <1>5, <1>6
  <2> QED
    BY <2>2, <2>3
<1> QED
  BY <1>4, <1>6 DEF CallsTyped

(* A data line adds one payload to the block.                              *)
LEMMA DataLineType ==
  ASSUME Typed, NEW p \in PayloadType, DataLine(p),
         sent' \in Seq(Tokens), whole' \in BOOLEAN, misled' \in BOOLEAN, urls' \subseteq Urls,
         made' \in Seq(CallType), Len(made') <= MaxCalls
  PROVE  Typed'
<1>1. block' \in Seq(PayloadType)
  <2>1. block \in Seq(PayloadType) /\ block' = Append(block, p)
    BY DEF Typed, TypeOK, PayloadType, DataLine
  <2> QED
    BY <2>1, AppendProperties
<1>2. lines' \in 0..MaxLines
  <2>1. MaxLines \in Nat /\ lines \in 0..MaxLines
    BY ModelStreamAssumption DEF Typed, TypeOK
  <2>2. lines < MaxLines /\ lines' = lines + 1
    BY DEF DataLine
  <2> QED
    BY <2>1, <2>2
<1>3. UNCHANGED <<phase, attempt, server, broken, text, emitted, reasoning, images, calls>>
  BY DEF DataLine, assembled
<1> QED
  BY <1>1, <1>2, <1>3 DEF Typed, TypeOK, PayloadType

\* What the server said stays typed when nothing of it changes.
LEMMA SaidTyped ==
  ASSUME Typed, UNCHANGED <<sent, whole, misled, urls, made>>
  PROVE  /\ sent' \in Seq(Tokens) /\ whole' \in BOOLEAN /\ misled' \in BOOLEAN
         /\ urls' \subseteq Urls /\ made' \in Seq(CallType) /\ Len(made') <= MaxCalls
  BY DEF Typed, TypeOK

\* A line of data keeps the types.
LEMMA DataType ==
  ASSUME Typed, Data
  PROVE  Typed'
<1>1. /\ sent \in Seq(Tokens) /\ whole \in BOOLEAN /\ misled \in BOOLEAN /\ urls \subseteq Urls
      /\ made \in Seq(CallType) /\ Len(made) <= MaxCalls
  BY DEF Typed, TypeOK
<1>2. NoChunk \in ChunkType /\ NoChunk = [content |-> <<>>, reasoning |-> <<>>, images |-> {}, calls |-> <<>>]
  BY NoChunkType DEF NoChunk
<1>3. ASSUME NEW kind \in {"chunk", "other", "[DONE]"}, NEW ch \in ChunkType
      PROVE  Payload(kind, ch) \in PayloadType
  BY DEF Payload, PayloadType
<1>4. ASSUME NEW f \in FragmentType
      PROVE  [NoChunk EXCEPT !.calls = <<f>>] \in ChunkType
  <2>1. <<f>> \in Seq(FragmentType)
    OBVIOUS
  <2> QED
    BY <1>2, <2>1, EmptySeq DEF ChunkType, FragmentType
<1>5. \A k \in DOMAIN made : k \in Nat /\ k >= 1 /\ k - 1 \in Nat /\ made[k].id \in Nat
                             /\ made[k].args \in Seq(STRING)
  <2> TAKE k \in DOMAIN made
  <2>1. k \in 1..Len(made)
    BY <1>1, LenProperties
  <2>2. made[k] \in CallType /\ Len(made) \in Nat
    BY <1>1, <2>1, LenProperties
  <2> QED
    BY <2>1, <2>2 DEF CallType
<1>6. ASSUME NEW s \in Texts, DataContent(s) PROVE Typed'
  <2>1. s \in Seq(Tokens) /\ sent \o s \in Seq(Tokens) /\ <<>> \in Seq(Tokens)
    BY <1>1, TextsTyped, ConcatProperties, EmptySeq
  <2>2. PICK x : x = IF server = "cumulative" THEN sent \o s ELSE s
    OBVIOUS
  <2>3. x \in Seq(Tokens)
    BY <2>1, <2>2
  <2>4. ContentChunk(x, <<>>) \in ChunkType
    BY <2>1, <2>3, ContentChunkType
  <2>5. Payload("chunk", ContentChunk(x, <<>>)) \in PayloadType
    BY <1>3, <2>4
  <2>6. /\ DataLine(Payload("chunk", ContentChunk(x, <<>>)))
        /\ sent' = sent \o s /\ misled' = (misled \/ Misleading(s)) /\ UNCHANGED <<whole, made, urls>>
    BY <1>6, <2>2 DEF DataContent
  <2>7. misled' \in BOOLEAN
    BY <2>6
  <2> QED
    BY <1>1, <2>1, <2>5, <2>6, <2>7, DataLineType
<1>7. ASSUME NEW r \in Thoughts, DataReasoning(r) PROVE Typed'
  <2>1. r \in Seq(Tokens)
    BY TextsTyped
  <2>2. [NoChunk EXCEPT !.reasoning = r] \in ChunkType
    BY <1>2, <2>1, EmptySeq DEF ChunkType
  <2>3. Payload("chunk", [NoChunk EXCEPT !.reasoning = r]) \in PayloadType
    BY <1>3, <2>2
  <2> QED
    BY <1>7, <2>3, SaidTyped, DataLineType DEF DataReasoning
<1>8. ASSUME NEW a \in Args, DataNewCall(a) PROVE Typed'
  <2>1. a \in Seq(STRING) /\ Len(made) \in Nat /\ MaxCalls \in Nat
    BY <1>1, ModelStreamAssumption, LenProperties
  <2>2. Fragment(Len(made), Len(made) + 1, a) \in FragmentType
    BY <2>1 DEF Fragment, FragmentType
  <2>3. [NoChunk EXCEPT !.calls = <<Fragment(Len(made), Len(made) + 1, a)>>] \in ChunkType
    BY <1>4, <2>2
  <2>4. Payload("chunk", [NoChunk EXCEPT !.calls = <<Fragment(Len(made), Len(made) + 1, a)>>])
          \in PayloadType
    BY <1>3, <2>3
  <2>5. [id |-> Len(made) + 1, args |-> a] \in CallType
    BY <2>1 DEF CallType
  <2>6. made' \in Seq(CallType) /\ Len(made') = Len(made) + 1 /\ Len(made) < MaxCalls
    BY <1>1, <1>8, <2>5, AppendProperties DEF DataNewCall
  <2>7. Len(made') <= MaxCalls
    BY <2>1, <2>6
  <2>8. UNCHANGED <<sent, whole, urls, misled>>
    BY <1>8 DEF DataNewCall
  <2> QED
    BY <1>1, <1>8, <2>4, <2>6, <2>7, <2>8, DataLineType DEF DataNewCall
<1>9. ASSUME NEW k \in DOMAIN made, DataWholeCall(k) PROVE Typed'
  <2>1. Fragment(k - 1, made[k].id, made[k].args) \in FragmentType
    BY <1>5 DEF Fragment, FragmentType
  <2>2. [NoChunk EXCEPT !.calls = <<Fragment(k - 1, made[k].id, made[k].args)>>] \in ChunkType
    BY <1>4, <2>1
  <2>3. Payload("chunk", [NoChunk EXCEPT !.calls = <<Fragment(k - 1, made[k].id, made[k].args)>>])
          \in PayloadType
    BY <1>3, <2>2
  <2> QED
    BY <1>9, <2>3, SaidTyped, DataLineType DEF DataWholeCall
<1>10. ASSUME NEW k \in DOMAIN made, NEW a \in Args, DataArguments(k, a) PROVE Typed'
  <2>1. a \in Seq(STRING) /\ k \in 1..Len(made)
    BY <1>1, ModelStreamAssumption, LenProperties
  <2>2. Fragment(k - 1, 0, a) \in FragmentType
    BY <1>5, <2>1 DEF Fragment, FragmentType
  <2>3. [NoChunk EXCEPT !.calls = <<Fragment(k - 1, 0, a)>>] \in ChunkType
    BY <1>4, <2>2
  <2>4. Payload("chunk", [NoChunk EXCEPT !.calls = <<Fragment(k - 1, 0, a)>>]) \in PayloadType
    BY <1>3, <2>3
  <2>5. PICK e : e = [made[k] EXCEPT !.args = @ \o a]
    OBVIOUS
  <2>6. e \in CallType
    <3>1. made[k] \in CallType /\ made[k].args \o a \in Seq(STRING)
      BY <1>1, <1>5, <2>1, LenProperties, ConcatProperties
    <3> QED
      BY <2>5, <3>1 DEF CallType
  <2>7. made' = [made EXCEPT ![k] = e]
    BY <1>10, <2>5 DEF DataArguments
  <2>8. made' \in Seq(CallType) /\ Len(made') = Len(made)
    BY <1>1, <2>1, <2>6, <2>7, ExceptSeq
  <2>9. UNCHANGED <<sent, whole, urls, misled>>
    BY <1>10 DEF DataArguments
  <2> QED
    BY <1>1, <1>10, <2>4, <2>8, <2>9, DataLineType DEF DataArguments
<1>11. ASSUME NEW S \in SUBSET Urls, DataImages(S) PROVE Typed'
  <2>1. [NoChunk EXCEPT !.images = S] \in ChunkType
    BY <1>2, EmptySeq DEF ChunkType
  <2>2. Payload("chunk", [NoChunk EXCEPT !.images = S]) \in PayloadType
    BY <1>3, <2>1
  <2>3. urls' \subseteq Urls /\ UNCHANGED <<sent, whole, made, misled>>
    BY <1>1, <1>11 DEF DataImages
  <2> QED
    BY <1>1, <1>11, <2>2, <2>3, DataLineType DEF DataImages
<1>12. ASSUME DataWhole PROVE Typed'
  <2>1. ContentChunk(sent, <<>>) \in ChunkType
    BY <1>1, EmptySeq, ContentChunkType
  <2>2. Payload("chunk", ContentChunk(sent, <<>>)) \in PayloadType
    BY <1>3, <2>1
  <2>3. whole' \in BOOLEAN /\ UNCHANGED <<sent, made, urls, misled>>
    BY <1>12 DEF DataWhole
  <2> QED
    BY <1>1, <1>12, <2>2, <2>3, DataLineType DEF DataWhole
<1>13. ASSUME DataOther \/ DataEnd PROVE Typed'
  <2>1. Payload("other", NoChunk) \in PayloadType /\ Payload("[DONE]", NoChunk) \in PayloadType
    BY <1>2, <1>3
  <2>2. UNCHANGED <<sent, whole, misled, urls, made>>
    BY <1>13 DEF DataOther, DataEnd
  <2> QED
    BY <1>13, <2>1, <2>2, SaidTyped, DataLineType DEF DataOther, DataEnd
<1> QED
  BY <1>6, <1>7, <1>8, <1>9, <1>10, <1>11, <1>12, <1>13 DEF Data

(* Flushing absorbs at most one chunk.                                     *)
LEMMA FlushType ==
  ASSUME Typed, NEW cut \in BOOLEAN, Flush(cut), UNCHANGED <<attempt, server, said>>,
         phase' \in {"stream", "ended"}
  PROVE  Typed'
<1>1. /\ text \in Seq(Tokens) /\ emitted \in Seq(Tokens) /\ reasoning \in Seq(Tokens)
      /\ images \in Seq(Urls) /\ CallsTyped(calls) /\ block \in Seq(PayloadType)
  BY DEF Typed, TypeOK, PayloadType, CallsTyped
<1>2. AssembledType(text, emitted, reasoning, images, calls)
  BY <1>1 DEF AssembledType
<1>3. AssembledType(text', emitted', reasoning', images', calls')
  <2>1. CASE Decodes /\ block[1].kind = "chunk"
    <3>1. block[1] \in PayloadType
      <4>1. 1 \in 1..Len(block)
        BY <2>1 DEF Decodes
      <4> QED
        BY <1>1, <4>1, ElementOfSeq
    <3>2. block[1].chunk \in ChunkType
      BY <3>1 DEF PayloadType
    <3>3. Absorb(block[1].chunk)
      BY <2>1 DEF Flush
    <3> QED
      BY <1>2, <3>2, <3>3, AbsorbType
  <2>2. CASE ~(Decodes /\ block[1].kind = "chunk")
    <3>1. UNCHANGED <<text, emitted, reasoning, images, calls>>
      BY <2>2 DEF Flush, assembled
    <3> QED
      BY <1>2, <3>1
  <2> QED
    BY <2>1, <2>2
<1>4. block' = <<>> /\ block' \in Seq(PayloadType) /\ broken' \in BOOLEAN
  BY EmptySeq DEF Flush, Typed, TypeOK
<1>5. UNCHANGED <<attempt, server, lines, sent, whole, made, urls, misled>>
  BY DEF said
<1>6. /\ {sent', text', emitted', reasoning'} \subseteq Seq(Tokens)
      /\ images' \in Seq(Urls) /\ CallsTyped(calls') /\ made' \in Seq(CallType)
  BY <1>3, <1>5 DEF Typed, TypeOK, AssembledType
<1>7. /\ attempt' \in 0..3 /\ server' \in ServerKinds /\ lines' \in 0..MaxLines
      /\ whole' \in BOOLEAN /\ misled' \in BOOLEAN /\ urls' \subseteq Urls /\ Len(made') <= MaxCalls
  BY <1>5 DEF Typed, TypeOK
<1> QED
  BY <1>4, <1>6, <1>7 DEF Typed, TypeOK, PayloadType, CallsTyped

(* The message of a JSON body is one chunk.                                *)
JSONFragments(list) == [k \in DOMAIN list |-> Fragment(k - 1, list[k].id, list[k].args)]

\* The calls of such a message are n, with the arguments a.
IsJSONList(list, n, a) == list = [k \in 1..n |-> [id |-> k, args |-> a[k]]]

\* A list of calls given as JSON has its calls in order, as fragments too.
LEMMA JSONListType ==
  ASSUME NEW n \in 0..MaxCalls, NEW a \in [1..n -> Args],
         NEW list, IsJSONList(list, n, a)
  PROVE  /\ list \in Seq(CallType) /\ Len(list) = n /\ DOMAIN list = 1..n
         /\ \A k \in 1..n : list[k] = [id |-> k, args |-> a[k]]
         /\ JSONFragments(list) \in Seq(FragmentType) /\ Len(JSONFragments(list)) = n
         /\ \A k \in 1..n : JSONFragments(list)[k] = Fragment(k - 1, k, a[k])
<1> USE DEF IsJSONList
<1>1. n \in Nat
  BY ModelStreamAssumption
<1>2. ASSUME NEW k \in 1..n
      PROVE  [id |-> k, args |-> a[k]] \in CallType /\ Fragment(k - 1, k, a[k]) \in FragmentType
  <2>1. k \in Nat /\ k - 1 \in Nat /\ a[k] \in Seq(STRING)
    BY <1>1, ModelStreamAssumption
  <2> QED
    BY <2>1 DEF CallType, FragmentType, Fragment
<1>3. list \in Seq(CallType)
  BY <1>1, <1>2, IsASeq
<1>4. DOMAIN list = 1..n /\ \A k \in 1..n : list[k] = [id |-> k, args |-> a[k]]
  OBVIOUS
<1>5. Len(list) = n
  BY <1>1, <1>3, <1>4, LenProperties
<1>6. JSONFragments(list) = [k \in 1..n |-> Fragment(k - 1, k, a[k])]
  <2>1. \A k \in 1..n : list[k].id = k /\ list[k].args = a[k]
    BY <1>4
  <2> QED
    BY <1>4, <2>1 DEF JSONFragments
<1>7. JSONFragments(list) \in Seq(FragmentType)
  <2>1. [k \in 1..n |-> Fragment(k - 1, k, a[k])] \in Seq(FragmentType)
    BY <1>1, <1>2, IsASeq
  <2> QED
    BY <1>6, <2>1
<1>8. DOMAIN JSONFragments(list) = 1..n /\ \A k \in 1..n : JSONFragments(list)[k] = Fragment(k - 1, k, a[k])
  BY <1>6
<1>9. Len(JSONFragments(list)) = n
  BY <1>1, <1>7, <1>8, LenProperties
<1> QED
  BY <1>3, <1>4, <1>5, <1>7, <1>8, <1>9

\* A request, and an answer in one body, keep the types.
LEMMA RequestType ==
  ASSUME Typed, Request
  PROVE  Typed'
<1>1. ASSUME Accepted \/ Rejected \/ BackedOff PROVE Typed'
  BY <1>1 DEF Typed, TypeOK, CallsTyped, Accepted, Rejected, BackedOff, said, assembled
<1>2. ASSUME Refused PROVE Typed'
  <2>1. attempt \in 0..2 /\ attempt' = attempt + 1 /\ phase' = IF attempt < 2 THEN "backoff" ELSE "failed"
    BY <1>2 DEF Typed, TypeOK, Refused, Retries
  <2>2. attempt' \in 0..3 /\ (phase' = "backoff" => attempt' <= 2) /\ phase' \in {"backoff", "failed"}
    BY <2>1
  <2> QED
    BY <1>2, <2>2 DEF Typed, TypeOK, CallsTyped, Refused, said, assembled
<1>3. ASSUME NEW s \in Texts, NEW r \in Thoughts \union {<<>>}, NEW n \in 0..MaxCalls,
             NEW a \in [1..n -> Args], NEW list, IsJSONList(list, n, a),
             JSONBody(s, r, list)
      PROVE  Typed'
  <2>1. s \in Seq(Tokens) /\ r \in Seq(Tokens)
    BY TextsTyped, EmptySeq
  <2>2. list \in Seq(CallType) /\ Len(list) <= MaxCalls /\ JSONFragments(list) \in Seq(FragmentType)
    <3>1. list \in Seq(CallType) /\ Len(list) = n /\ JSONFragments(list) \in Seq(FragmentType)
      BY <1>3, JSONListType
    <3>2. n <= MaxCalls
      BY ModelStreamAssumption
    <3> QED
      BY <3>1, <3>2
  <2>3. PICK ch : ch = [ContentChunk(s, r) EXCEPT !.calls = JSONFragments(list)]
    OBVIOUS
  <2>4. ch \in ChunkType
    <3>1. ContentChunk(s, r) \in ChunkType
      BY <2>1, ContentChunkType
    <3> QED
      BY <2>2, <2>3, <3>1 DEF ChunkType, FragmentType
  <2>5. Absorb(ch)
    BY <1>3, <2>3 DEF JSONBody, JSONFragments
  <2>6. AssembledType(text, emitted, reasoning, images, calls)
    BY DEF Typed, TypeOK, AssembledType, CallsTyped
  <2>7. AssembledType(text', emitted', reasoning', images', calls')
    BY <2>4, <2>5, <2>6, AbsorbType
  <2>8. /\ phase' = "ended" /\ sent' = s /\ made' = list /\ misled' \in BOOLEAN
        /\ UNCHANGED <<attempt, server, lines, whole, urls, block, broken>>
    BY <1>3 DEF JSONBody
  <2>9. /\ {sent', text', emitted', reasoning'} \subseteq Seq(Tokens)
        /\ images' \in Seq(Urls) /\ CallsTyped(calls') /\ made' \in Seq(CallType)
        /\ Len(made') <= MaxCalls
    BY <2>1, <2>2, <2>7, <2>8 DEF AssembledType
  <2>10. /\ attempt' \in 0..3 /\ server' \in ServerKinds /\ lines' \in 0..MaxLines
         /\ whole' \in BOOLEAN /\ urls' \subseteq Urls /\ broken' \in BOOLEAN
         /\ block' \in Seq(PayloadType)
    BY <2>8 DEF Typed, TypeOK, PayloadType
  <2> QED
    BY <2>8, <2>9, <2>10 DEF Typed, TypeOK, PayloadType, CallsTyped
<1> QED
  BY <1>1, <1>2, <1>3 DEF Request, IsJSONList

\* The types hold at first.
LEMMA InitType ==
  ASSUME Init
  PROVE  Typed
<1>1. \A T : <<>> \in Seq(T)
  BY EmptySeq
<1>2. Len(<<>>) = 0 /\ DOMAIN <<>> = {}
  OBVIOUS
<1>3. {sent, text, emitted, reasoning} \subseteq Seq(Tokens) /\ images \in Seq(Urls)
  BY <1>1 DEF Init
<1>4. block \in Seq(PayloadType) /\ made \in Seq(CallType)
  BY <1>1 DEF Init
<1>5. /\ phase = "request" /\ attempt = 0 /\ server \in ServerKinds /\ lines = 0 /\ whole = FALSE
      /\ misled = FALSE /\ broken = FALSE /\ urls = {} /\ Len(made) = 0 /\ DOMAIN calls = {}
  BY <1>2 DEF Init
<1>6. attempt \in 0..3 /\ attempt <= 2 /\ lines \in 0..MaxLines /\ Len(made) <= MaxCalls
  BY <1>5, ModelStreamAssumption
<1> QED
  BY <1>3, <1>4, <1>5, <1>6 DEF Typed, TypeOK, PayloadType

\* Every step keeps them.
LEMMA NextType ==
  ASSUME Typed, [Next]_vars
  PROVE  Typed'
<1>1. CASE Request
  BY <1>1, RequestType
<1>2. CASE Data
  BY <1>2, DataType
<1>3. CASE BlankLine
  BY <1>3, FlushType DEF BlankLine
<1>4. CASE BodyEnds
  BY <1>4, FlushType DEF BodyEnds
<1>5. CASE BreakOff
  BY <1>5 DEF Typed, TypeOK, CallsTyped, BreakOff, said, assembled
<1>6. CASE Finish
  <2>1. reasoning \in Seq(Tokens) /\ TrimSpace(reasoning) \in Seq(Tokens)
    <3>1. reasoning \in Seq(Tokens)
      BY DEF Typed, TypeOK
    <3> QED
      BY <3>1, TrimParts
  <2>2. CallsTyped(calls) /\ CallsTyped(InlineCalls(TrimSpace(reasoning)))
    BY <2>1, InlineCallsType DEF Typed, TypeOK, CallsTyped
  <2>3. CallsTyped(calls')
    BY <1>6, <2>2 DEF Finish
  <2>4. phase' = "done" /\ UNCHANGED <<attempt, server, said, block, broken, text, emitted, reasoning, images>>
    BY <1>6 DEF Finish
  <2> QED
    BY <2>3, <2>4 DEF Typed, TypeOK, CallsTyped, said
<1>7. CASE UNCHANGED vars
  BY <1>7 DEF Typed, TypeOK, CallsTyped, vars, said, assembled
<1> QED
  BY <1>1, <1>2, <1>3, <1>4, <1>5, <1>6, <1>7 DEF Next

(* ModelStream's type invariant: whatever the server sends, the texts stay *)
(* texts, and after the third refusal no further request is made (the      *)
(* attempts of HTTPTransport.doRequest).                                   *)
THEOREM StreamIsTyped == Spec => []TypeOK
<1>1. Init => Typed
  BY InitType
<1>2. Typed /\ [Next]_vars => Typed'
  BY NextType
<1>3. Typed => TypeOK
  BY DEF Typed
<1> QED
  BY <1>1, <1>2, <1>3, PTL DEF Spec

-----------------------------------------------------------------------------
(***************************************************************************)
(* What the request and the end of the stream leave behind.                *)
(***************************************************************************)
LEMMA StagesInit ==
  ASSUME Init
  PROVE  Stages
  BY DEF Init, Stages

\* Every step keeps the stages apart.
LEMMA StagesNext ==
  ASSUME Stages, [Next]_vars
  PROVE  Stages'
<1>1. CASE Data
  <2>1. PICK p : DataLine(p)
    BY <1>1 DEF Data, DataContent, DataWhole, DataReasoning, DataNewCall, DataArguments,
                DataWholeCall, DataImages, DataOther, DataEnd
  <2> QED
    BY <2>1 DEF DataLine, Stages
<1>2. CASE Request
  <2>1. ASSUME NEW s, NEW r, NEW list, JSONBody(s, r, list) PROVE Stages'
    BY <2>1 DEF JSONBody, Stages
  <2>2. ASSUME Accepted \/ Refused \/ Rejected \/ BackedOff PROVE Stages'
    BY <2>2 DEF Accepted, Refused, Rejected, BackedOff, Stages, said, assembled
  <2> QED
    BY <1>2, <2>1, <2>2 DEF Request
<1>3. CASE BlankLine \/ BodyEnds
  <2>1. block' = <<>> /\ phase' \in {"stream", "ended"}
    BY <1>3 DEF BlankLine, BodyEnds, Flush
  <2> QED
    BY <2>1 DEF Stages
<1>4. CASE BreakOff
  BY <1>4 DEF BreakOff, Stages
<1>5. CASE Finish
  BY <1>5 DEF Finish, Stages
<1>6. CASE UNCHANGED vars
  BY <1>6 DEF Stages, vars, said, assembled
<1> QED
  BY <1>1, <1>2, <1>3, <1>4, <1>5, <1>6 DEF Next

(* A data line that keeps the stream sound is the block's only one.        *)
LEMMA OnlyLine ==
  ASSUME Typed, NEW p \in PayloadType, DataLine(p), Sound'
  PROVE  /\ Sound /\ ~Pending /\ Len(block') = 1 /\ block'[1] = p
         /\ Pending' <=> p.kind = "chunk"
         /\ FullText = text /\ FullCalls = calls
<1>1. block \in Seq(PayloadType) /\ block' = Append(block, p) /\ broken' = broken
  BY DEF Typed, TypeOK, PayloadType, DataLine
<1>2. Len(block) \in Nat /\ Len(block') = Len(block) + 1 /\ block'[Len(block)+1] = p
  BY <1>1, AppendProperties, LenProperties
<1>3. Len(block) = 0
  BY <1>2 DEF Sound
<1>4. Len(block') = 1 /\ block'[1] = p
  BY <1>2, <1>3
<1>5. ~Pending /\ Sound
  BY <1>1, <1>3 DEF Pending, Sound
<1> QED
  BY <1>4, <1>5 DEF Pending, FullText, FullCalls

-----------------------------------------------------------------------------
(***************************************************************************)
(* The text.                                                               *)
(***************************************************************************)
LEMMA NoOpenConcat ==
  ASSUME NEW T, NEW s \in Seq(T), NEW t \in Seq(T), NoOpen(s), NoOpen(t)
  PROVE  NoOpen(s \o t)
<1>1. PICK u, m, n : u = s \o t /\ m = Len(s) /\ n = Len(t)
  OBVIOUS
<1>2. /\ m \in Nat /\ n \in Nat /\ Len(u) = m + n
      /\ \A i \in 1..m+n : u[i] = IF i <= m THEN s[i] ELSE t[i-m]
  BY <1>1, ConcatProperties, LenProperties
<1>3. ASSUME NEW i \in 1..m+n PROVE u[i] # "O"
  <2>1. CASE i <= m
    <3>1. i \in 1..m
      BY <1>2, <2>1
    <3> QED
      BY <1>1, <1>2, <2>1, <3>1 DEF NoOpen
  <2>2. CASE ~(i <= m)
    <3>1. i - m \in 1..n
      BY <1>2, <2>2
    <3> QED
      BY <1>1, <1>2, <2>2, <3>1 DEF NoOpen
  <2> QED
    BY <2>1, <2>2
<1> QED
  BY <1>1, <1>2, <1>3 DEF NoOpen

\* A sequence is a prefix of itself with more.
LEMMA PrefixConcat ==
  ASSUME NEW T, NEW s \in Seq(T), NEW t \in Seq(T)
  PROVE  IsPrefix(s, s \o t)
<1>1. PICK u : u = s \o t
  OBVIOUS
<1>2. u \in Seq(T) /\ Len(u) = Len(s) + Len(t) /\ Len(s) \in Nat /\ Len(t) \in Nat
  BY <1>1, ConcatProperties, LenProperties
<1>3. \A i \in 1..Len(s)+Len(t) : u[i] = IF i <= Len(s) THEN s[i] ELSE t[i-Len(s)]
  BY <1>1, ConcatProperties
<1>4. \A i \in 1..Len(s) : u[i] = s[i] /\ s[i] \in T
  <2> TAKE i \in 1..Len(s)
  <2>1. i \in 1..Len(s)+Len(t) /\ i <= Len(s)
    BY <1>2
  <2> QED
    BY <1>3, <2>1, ElementOfSeq
<1>5. /\ SubSeq(u, 1, Len(s)) \in Seq(T)
      /\ Len(SubSeq(u, 1, Len(s))) = IF 1 <= Len(s) THEN Len(s) - 1 + 1 ELSE 0
      /\ \A i \in 1..Len(s)-1+1 : SubSeq(u, 1, Len(s))[i] = u[1+i-1]
  <2>1. 1 \in Int /\ Len(s) \in Int /\ \A i \in 1..Len(s) : u[i] \in T
    BY <1>2, <1>4
  <2> QED
    BY <2>1, SubSeqProperties
<1>6. PICK v : v = SubSeq(u, 1, Len(s))
  OBVIOUS
<1>7. v \in Seq(T) /\ Len(v) = Len(s) /\ \A i \in 1..Len(v) : v[i] = s[i]
  <2>1. Len(v) = Len(s)
    BY <1>2, <1>5, <1>6
  <2>2. \A i \in 1..Len(s) : i \in 1..Len(s)-1+1 /\ 1 + i - 1 = i
    BY <1>2
  <2> QED
    BY <1>4, <1>5, <1>6, <2>1, <2>2
<1>8. v = s
  BY <1>7, SeqEqual
<1>9. SubSeq(s, 1, Len(s)) = s
  BY SubSeqFull
<1>10. Len(s) <= Len(u)
  BY <1>2
<1> QED
  BY <1>1, <1>6, <1>8, <1>9, <1>10 DEF IsPrefix

(* A snapshot is what the text becomes.                                    *)
LEMMA NormalizeSnapshot ==
  ASSUME NEW T, NEW current \in Seq(T), NEW incoming \in Seq(T), IsPrefix(current, incoming)
  PROVE  current \o normalizeAssistantContent(current, incoming) = incoming
<1>1. CASE current = <<>>
  BY <1>1, ConcatEmptySeq DEF normalizeAssistantContent
<1>2. CASE current # <<>>
  <2>1. normalizeAssistantContent(current, incoming)
          = SubSeq(incoming, Len(current) + 1, Len(incoming))
    BY <1>2 DEF normalizeAssistantContent
  <2>2. current = SubSeq(incoming, 1, Len(current)) /\ Len(current) <= Len(incoming)
    BY SubSeqFull DEF IsPrefix
  <2>3. Len(current) \in Nat /\ Len(incoming) \in Nat
    BY LenProperties
  <2>4. PICK k, n : k = Len(current) /\ n = Len(incoming)
    OBVIOUS
  <2>5. 1 \in 1..n+1 /\ k \in 1-1..n /\ n \in k..n
    BY <2>2, <2>3, <2>4
  <2>6. SubSeq(incoming, 1, k) \o SubSeq(incoming, k + 1, n) = SubSeq(incoming, 1, n)
    BY <2>4, <2>5, ConcatAdjacentSubSeq
  <2>7. SubSeq(incoming, 1, n) = incoming
    BY <2>4, SubSeqFull
  <2> QED
    BY <2>1, <2>2, <2>4, <2>6, <2>7
<1> QED
  BY <1>1, <1>2

\* A text without tags is faithful to itself.
LEMMA SameIsFaithful ==
  ASSUME NEW s \in Seq(Tokens), NoOpen(s)
  PROVE  Faithful(s, s)
  BY NoOpenWords DEF Faithful

(* A content adds to the text what the server added to what it meant.      *)
LEMMA ContentIsFaithful ==
  ASSUME server \in ServerKinds, text \in Seq(Tokens), sent \in Seq(Tokens),
         Faithful(text, sent), NEW s \in Seq(Tokens), ~Misleading(s),
         NEW x, x = IF server = "cumulative" THEN sent \o s ELSE s,
         NEW c, c = ContentChunk(x, <<>>).content
  PROVE  Faithful(text \o normalizeAssistantContent(text, c), sent \o s)
<1>1. sent \o s \in Seq(Tokens) /\ x \in Seq(Tokens)
  BY ConcatProperties
<1>2. c = IF server = "responses" THEN x ELSE splitThinkTags(x).clean
  BY <1>1, EmptySeq, ContentChunkType
<1>3. CASE server = "delta"
  <2>1. c = splitThinkTags(s).clean
    BY <1>2, <1>3
  <2>2. Balanced(s) /\ ~(text # <<>> /\ IsPrefix(text, c))
    BY <1>3, <2>1 DEF Misleading
  <2>3. normalizeAssistantContent(text, c) = c
    BY <2>2 DEF normalizeAssistantContent
  <2>4. c \in Seq(Tokens) /\ NoOpen(c) /\ Words(c) = Words(s)
    BY <2>1, SplitParts
  <2>5. Closed(s)
    BY <2>2 DEF Balanced, Closed
  <2>6. NoOpen(text) /\ Closed(sent) /\ Words(text) = Words(sent)
    BY DEF Faithful
  <2>7. Closed(text)
    BY <2>6, NoOpenWords
  <2>8. NoOpen(text \o c)
    BY <2>4, <2>6, NoOpenConcat
  <2>9. Closed(sent \o s)
    BY <2>5, <2>6, ClosedConcat
  <2>10. Words(text \o c) = Words(text) \o Words(c)
    BY <2>4, <2>7, WordsConcat
  <2>11. Words(sent \o s) = Words(sent) \o Words(s)
    BY <2>6, WordsConcat
  <2> QED
    BY <1>3, <2>3, <2>4, <2>6, <2>8, <2>9, <2>10, <2>11 DEF Faithful
<1>4. ASSUME server # "delta" PROVE text = sent /\ NoOpen(sent) /\ NoOpen(s) /\ NoOpen(sent \o s)
  <2>1. text = sent /\ NoOpen(sent)
    BY <1>4 DEF Faithful
  <2>2. ~HasTag(s)
    BY <1>4 DEF Misleading, ServerKinds
  <2>3. NoOpen(s)
    BY <2>2, LenProperties DEF HasTag, NoOpen, Tags
  <2> QED
    BY <2>1, <2>3, NoOpenConcat
<1>5. CASE server = "cumulative"
  <2>1. NoOpen(x) /\ x = sent \o s
    BY <1>4, <1>5
  <2>2. c = sent \o s
    BY <1>1, <1>2, <1>5, <2>1, SplitParts
  <2>3. IsPrefix(text, c)
    BY <1>4, <1>5, <2>2, PrefixConcat
  <2>4. text \o normalizeAssistantContent(text, c) = c
    BY <1>1, <2>2, <2>3, NormalizeSnapshot
  <2> QED
    BY <1>1, <1>4, <1>5, <2>2, <2>4, SameIsFaithful
<1>6. CASE server = "responses"
  <2>1. c = s
    BY <1>2, <1>6
  <2>2. ~(text # <<>> /\ IsPrefix(text, c))
    BY <1>6, <2>1 DEF Misleading
  <2>3. normalizeAssistantContent(text, c) = s
    BY <2>1, <2>2 DEF normalizeAssistantContent
  <2> QED
    BY <1>1, <1>4, <1>6, <2>3, SameIsFaithful
<1> QED
  BY <1>3, <1>5, <1>6 DEF ServerKinds

(* A payload without content changes neither side.                         *)
LEMMA QuietLine ==
  ASSUME Typed, TextInv, NEW p \in PayloadType, DataLine(p), p.chunk.content = <<>>,
         UNCHANGED <<sent, misled>>
  PROVE  TextInv'
<1> SUFFICES ASSUME Sound', ~misled' PROVE Faithful(FullText, sent)'
  BY DEF TextInv
<1>1. Sound /\ FullText = text /\ Len(block') = 1 /\ block'[1] = p
  BY OnlyLine
<1>2. Faithful(text, sent)
  BY <1>1 DEF TextInv
<1>3. text' = text /\ server' = server /\ text \in Seq(Tokens)
  BY DEF DataLine, assembled, Typed, TypeOK
<1>4. FullText' = text
  <2>1. text \o normalizeAssistantContent(text, <<>>) = text
    BY <1>3, NormalizeType, ConcatEmptySeq
  <2>2. block'[1].chunk.content = <<>>
    BY <1>1
  <2> QED
    BY <1>3, <2>1, <2>2 DEF FullText
<1> QED
  BY <1>2, <1>3, <1>4 DEF Faithful

\* A line of data keeps the text faithful.
LEMMA DataText ==
  ASSUME Typed, TextInv, Data
  PROVE  TextInv'
<1>1. /\ sent \in Seq(Tokens) /\ text \in Seq(Tokens) /\ server \in ServerKinds
      /\ NoChunk = [content |-> <<>>, reasoning |-> <<>>, images |-> {}, calls |-> <<>>]
  BY DEF Typed, TypeOK, NoChunk
<1>2. ASSUME NEW p, DataLine(p) PROVE p \in PayloadType
  <2>1. Typed'
    BY <1>2, DataType
  <2>2. block' \in Seq(PayloadType) /\ block' = Append(block, p) /\ block \in Seq(PayloadType)
    BY <1>2, <2>1 DEF Typed, TypeOK, PayloadType, DataLine
  <2> QED
    BY <2>2, LenProperties
<1>3. ASSUME NEW s \in Texts, DataContent(s) PROVE TextInv'
  <2>1. s \in Seq(Tokens) /\ <<>> \in Seq(Tokens) /\ sent \o s \in Seq(Tokens)
    BY <1>1, TextsTyped, EmptySeq, ConcatProperties
  <2>2. PICK x, c : /\ x = IF server = "cumulative" THEN sent \o s ELSE s
                    /\ c = ContentChunk(x, <<>>).content
    OBVIOUS
  <2>3. PICK p : p = Payload("chunk", ContentChunk(x, <<>>))
    OBVIOUS
  <2>4. DataLine(p) /\ sent' = sent \o s /\ misled' = (misled \/ Misleading(s))
    BY <1>3, <2>2, <2>3 DEF DataContent
  <2>5. p.kind = "chunk" /\ p.chunk.content = c
    BY <2>2, <2>3 DEF Payload
  <2>6. p \in PayloadType
    BY <1>2, <2>4
  <2> SUFFICES ASSUME Sound', ~misled' PROVE Faithful(FullText, sent)'
    BY DEF TextInv
  <2>7. Sound /\ FullText = text /\ Len(block') = 1 /\ block'[1] = p /\ Pending'
    BY <2>4, <2>5, <2>6, OnlyLine
  <2>8. ~misled /\ ~Misleading(s)
    BY <2>4
  <2>9. Faithful(text, sent)
    BY <2>7, <2>8 DEF TextInv
  <2>10. Faithful(text \o normalizeAssistantContent(text, c), sent \o s)
    BY <1>1, <2>1, <2>2, <2>8, <2>9, ContentIsFaithful
  <2>11. text' = text /\ server' = server
    BY <2>4 DEF DataLine, assembled
  <2>12. FullText' = text \o normalizeAssistantContent(text, c)
    BY <2>5, <2>7, <2>11 DEF FullText
  <2> QED
    BY <2>4, <2>10, <2>11, <2>12 DEF Faithful
<1>4. ASSUME DataWhole PROVE TextInv'
  <2>1. PICK c : c = ContentChunk(sent, <<>>)
    OBVIOUS
  <2>2. PICK p : p = Payload("chunk", c)
    OBVIOUS
  <2>3. server = "responses" /\ DataLine(p) /\ UNCHANGED <<sent, misled>>
    BY <1>4, <2>1, <2>2 DEF DataWhole
  <2>4. p.kind = "chunk" /\ p.chunk.content = sent
    <3>1. c.content = sent
      BY <1>1, <2>1, <2>3, EmptySeq, ContentChunkType
    <3> QED
      BY <2>2, <3>1 DEF Payload
  <2>5. p \in PayloadType
    BY <1>2, <2>3
  <2> SUFFICES ASSUME Sound', ~misled' PROVE Faithful(FullText, sent)'
    BY DEF TextInv
  <2>6. Sound /\ FullText = text /\ Len(block') = 1 /\ block'[1] = p /\ Pending'
    BY <2>3, <2>4, <2>5, OnlyLine
  <2>7. Faithful(text, sent)
    BY <2>3, <2>6 DEF TextInv
  <2>8. text = sent
    BY <2>3, <2>7 DEF Faithful
  <2>9. text \o normalizeAssistantContent(text, sent) = sent
    <3>1. IsPrefix(sent, sent)
      BY <1>1, LenProperties DEF IsPrefix
    <3> QED
      BY <1>1, <2>8, <3>1, NormalizeSnapshot
  <2>10. text' = text /\ server' = server
    BY <2>3 DEF DataLine, assembled
  <2>11. FullText' = text \o normalizeAssistantContent(text, sent)
    BY <2>4, <2>6, <2>10 DEF FullText
  <2> QED
    BY <2>3, <2>7, <2>8, <2>9, <2>10, <2>11 DEF Faithful
<1>5. ASSUME NEW r, DataReasoning(r) PROVE TextInv'
  <2>1. PICK p : p = Payload("chunk", [NoChunk EXCEPT !.reasoning = r])
    OBVIOUS
  <2>2. DataLine(p) /\ UNCHANGED <<sent, misled>> /\ p.chunk.content = <<>>
    BY <1>1, <1>5, <2>1 DEF DataReasoning, Payload
  <2> QED
    BY <1>2, <2>2, QuietLine
<1>6. ASSUME NEW a, DataNewCall(a) PROVE TextInv'
  <2>1. PICK p : p = Payload("chunk", [NoChunk EXCEPT !.calls = <<Fragment(Len(made), Len(made) + 1, a)>>])
    OBVIOUS
  <2>2. DataLine(p) /\ UNCHANGED <<sent, misled>> /\ p.chunk.content = <<>>
    BY <1>1, <1>6, <2>1 DEF DataNewCall, Payload
  <2> QED
    BY <1>2, <2>2, QuietLine
<1>7. ASSUME NEW k, DataWholeCall(k) PROVE TextInv'
  <2>1. PICK p : p = Payload("chunk",
                       [NoChunk EXCEPT !.calls = <<Fragment(k - 1, made[k].id, made[k].args)>>])
    OBVIOUS
  <2>2. DataLine(p) /\ UNCHANGED <<sent, misled>> /\ p.chunk.content = <<>>
    BY <1>1, <1>7, <2>1 DEF DataWholeCall, Payload
  <2> QED
    BY <1>2, <2>2, QuietLine
<1>8. ASSUME NEW k, NEW a, DataArguments(k, a) PROVE TextInv'
  <2>1. PICK p : p = Payload("chunk", [NoChunk EXCEPT !.calls = <<Fragment(k - 1, 0, a)>>])
    OBVIOUS
  <2>2. DataLine(p) /\ UNCHANGED <<sent, misled>> /\ p.chunk.content = <<>>
    BY <1>1, <1>8, <2>1 DEF DataArguments, Payload
  <2> QED
    BY <1>2, <2>2, QuietLine
<1>9. ASSUME NEW S, DataImages(S) PROVE TextInv'
  <2>1. PICK p : p = Payload("chunk", [NoChunk EXCEPT !.images = S])
    OBVIOUS
  <2>2. DataLine(p) /\ UNCHANGED <<sent, misled>> /\ p.chunk.content = <<>>
    BY <1>1, <1>9, <2>1 DEF DataImages, Payload
  <2> QED
    BY <1>2, <2>2, QuietLine
<1>10. ASSUME DataOther \/ DataEnd PROVE TextInv'
  <2>1. PICK p : DataLine(p) /\ p.chunk.content = <<>> /\ UNCHANGED <<sent, misled>>
    <3>1. ASSUME NEW kind PROVE Payload(kind, NoChunk).chunk.content = <<>>
      BY <1>1 DEF Payload
    <3> QED
      BY <1>10, <3>1 DEF DataOther, DataEnd
  <2> QED
    BY <1>2, <2>1, QuietLine
<1> QED
  BY <1>3, <1>4, <1>5, <1>6, <1>7, <1>8, <1>9, <1>10 DEF Data

(* Flushing turns what the chunk promised into the text.                   *)
LEMMA FlushText ==
  ASSUME Typed, TextInv, NEW cut, Flush(cut), UNCHANGED <<server, said>>
  PROVE  TextInv'
<1> SUFFICES ASSUME Sound', ~misled' PROVE Faithful(FullText, sent)'
  BY DEF TextInv
<1>1. block' = <<>> /\ broken' = (broken \/ cut \/ Len(block) > 1)
  BY DEF Flush
<1>2. Len(block) \in Nat
  BY LenProperties DEF Typed, TypeOK
<1>3. Sound
  <2>1. ~broken'
    BY DEF Sound
  <2>2. ~broken /\ ~(Len(block) > 1)
    BY <1>1, <2>1, Zenon
  <2>3. Len(block) <= 1
    BY <1>2, <2>2
  <2> QED
    BY <2>2, <2>3 DEF Sound
<1>4. FullText' = text'
  BY <1>1 DEF FullText, Pending
<1>5. text' = FullText
  <2>1. CASE Pending
    <3>1. Absorb(block[1].chunk)
      BY <2>1 DEF Flush, Pending, Decodes
    <3> QED
      BY <2>1, <3>1 DEF Absorb, FullText
  <2>2. CASE ~Pending
    BY <2>2 DEF Flush, Pending, Decodes, FullText, assembled
  <2> QED
    BY <2>1, <2>2
<1>6. sent' = sent /\ misled' = misled /\ server' = server
  BY DEF said
<1>7. Faithful(FullText, sent)
  BY <1>3, <1>6 DEF TextInv
<1> QED
  BY <1>4, <1>5, <1>6, <1>7 DEF Faithful

\* A request, and an answer in one body, keep it so.
LEMMA RequestText ==
  ASSUME Typed, Stages, TextInv, Request
  PROVE  TextInv'
<1>1. ASSUME Accepted \/ Refused \/ Rejected \/ BackedOff PROVE TextInv'
  BY <1>1 DEF Accepted, Refused, Rejected, BackedOff, TextInv, Faithful, Sound, FullText, Pending, said, assembled
<1>2. ASSUME NEW s \in Texts, NEW r \in Thoughts \union {<<>>}, NEW list, JSONBody(s, r, list)
      PROVE  TextInv'
  <2>1. s \in Seq(Tokens) /\ r \in Seq(Tokens)
    BY TextsTyped, EmptySeq
  <2>2. text = <<>> /\ block = <<>> /\ block' = block /\ server = "delta" /\ server' = server
        /\ sent' = s /\ misled' = ~Balanced(s)
    BY <1>2 DEF JSONBody, Stages
  <2> SUFFICES ASSUME Sound', ~misled' PROVE Faithful(FullText, sent)'
    BY DEF TextInv
  <2>3. Closed(s)
    BY <2>2 DEF Balanced, Closed
  <2>4. PICK c : c = splitThinkTags(s).clean
    OBVIOUS
  <2>5. c \in Seq(Tokens) /\ NoOpen(c) /\ Words(c) = Words(s)
    BY <2>1, <2>4, SplitParts
  <2>6. PICK ch : ch = [ContentChunk(s, r) EXCEPT
                         !.calls = [k \in DOMAIN list |-> Fragment(k - 1, list[k].id, list[k].args)]]
    OBVIOUS
  <2>7. ch.content = c
    <3>1. ContentChunk(s, r) \in ChunkType /\ ContentChunk(s, r).content = c
      BY <2>1, <2>2, <2>4, ContentChunkType
    <3> QED
      BY <2>6, <3>1 DEF ChunkType
  <2>8. text' = text \o normalizeAssistantContent(text, ch.content)
    BY <1>2, <2>6 DEF JSONBody, Absorb
  <2>9. text' = c
    <3>1. normalizeAssistantContent(<<>>, c) = c
      BY DEF normalizeAssistantContent
    <3> QED
      BY <2>2, <2>5, <2>7, <2>8, <3>1, ConcatEmptySeq
  <2>10. FullText' = text'
    BY <2>2 DEF FullText, Pending
  <2> QED
    BY <2>2, <2>3, <2>5, <2>9, <2>10 DEF Faithful
<1> QED
  BY <1>1, <1>2 DEF Request

\* The text is faithful at first.
LEMMA InitText ==
  ASSUME Init
  PROVE  TextInv
<1>1. text = <<>> /\ sent = <<>> /\ block = <<>>
  BY DEF Init
<1>2. FullText = <<>>
  BY <1>1 DEF FullText, Pending
<1>3. <<>> \in Seq(Tokens) /\ NoOpen(<<>>)
  <2>1. Len(<<>>) = 0
    OBVIOUS
  <2> QED
    BY <2>1, EmptySeq DEF NoOpen
<1> QED
  BY <1>1, <1>2, <1>3, SameIsFaithful DEF TextInv

\* Every step keeps it so.
LEMMA NextText ==
  ASSUME Typed, Stages, TextInv, [Next]_vars
  PROVE  TextInv'
<1>1. CASE Request
  BY <1>1, RequestText
<1>2. CASE Data
  BY <1>2, DataText
<1>3. CASE BlankLine
  BY <1>3, FlushText DEF BlankLine
<1>4. CASE BodyEnds
  BY <1>4, FlushText DEF BodyEnds
<1>5. CASE BreakOff \/ Finish \/ UNCHANGED vars
  BY <1>5 DEF BreakOff, Finish, vars, said, assembled, TextInv, Faithful, Sound, FullText, Pending
<1> QED
  BY <1>1, <1>2, <1>3, <1>4, <1>5 DEF Next

(* Unless a content came that may be taken for another, the answer has the *)
(* words the server sent outside of its thoughts, whether it sends new     *)
(* text, snapshots or events that end with the whole text (processEvent,   *)
(* normalizeAssistantContent and splitThinkTags).                          *)
THEOREM WordsAreExact == Spec => []TextExact
<1>1. Init => Typed /\ Stages /\ TextInv
  BY InitType, StagesInit, InitText
<1>2. Typed /\ Stages /\ TextInv /\ [Next]_vars => (Typed /\ Stages /\ TextInv)'
  BY NextType, StagesNext, NextText
<1>3. Typed /\ Stages /\ TextInv => TextExact
  <2> SUFFICES ASSUME Stages, TextInv, phase = "done", ~misled PROVE Words(text) = Words(sent)
    BY DEF TextExact
  <2>1. block = <<>> /\ ~broken
    BY DEF Stages
  <2>2. Sound /\ FullText = text
    BY <2>1 DEF Sound, FullText, Pending
  <2> QED
    BY <2>2 DEF TextInv, Faithful
<1> QED
  BY <1>1, <1>2, <1>3, PTL DEF Spec

-----------------------------------------------------------------------------
(***************************************************************************)
(* The calls.                                                              *)
(***************************************************************************)
LEMMA EmptyTuple == DOMAIN <<>> = {} /\ Len(<<>>) = 0
  OBVIOUS

\* No calls are those of an empty list.
LEMMA NoCallsAre == CallsAre(<<>>, <<>>)
<1>1. 0..(0-1) = {}
  OBVIOUS
<1> QED
  BY <1>1, EmptyTuple DEF CallsAre

\* The calls c with e at index.
Merged(c, index, e) == [i \in DOMAIN c \union {index} |-> IF i = index THEN e ELSE c[i]]
\* The call old with what a fragment brings.
Continued(old, id, args) == [id |-> IF id # 0 THEN id ELSE old.id, args |-> old.args \o args]
CallAt(c, index) == IF index \in DOMAIN c THEN c[index] ELSE NoCall

\* Adding a fragment continues the call of its index.
LEMMA AddedFragment ==
  ASSUME NEW c, NEW index, NEW id, NEW args
  PROVE  AddFragment(c, Fragment(index, id, args)) = Merged(c, index, Continued(CallAt(c, index), id, args))
<1>1. PICK f : f = Fragment(index, id, args)
  OBVIOUS
<1>2. f.index = index /\ f.id = id /\ f.args = args
  BY <1>1 DEF Fragment
<1>3. AddFragment(c, f) = Merged(c, index, Continued(CallAt(c, index), id, args))
  BY <1>2 DEF AddFragment, Merged, Continued, CallAt
<1> QED
  BY <1>1, <1>3

(* The first fragment of a call opens it.                                  *)
LEMMA NewCallAdded ==
  ASSUME NEW m \in Seq(CallType), NEW c, CallsAre(c, m), NEW a \in Seq(STRING),
         NEW e, e = [id |-> Len(m) + 1, args |-> a]
  PROVE  CallsAre(AddFragment(c, Fragment(Len(m), Len(m) + 1, a)), Append(m, e))
<1>1. PICK n, d : n = Len(m) /\ d = AddFragment(c, Fragment(n, n + 1, a))
  OBVIOUS
<1>2. n \in Nat /\ n + 1 # 0 /\ DOMAIN c = 0..(n-1) /\ n \notin DOMAIN c
  BY <1>1, LenProperties DEF CallsAre
<1>3. PICK new : new = Continued(CallAt(c, n), n + 1, a)
  OBVIOUS
<1>4. new = e
  <2>1. NoCall.args \o a = a
    BY ConcatEmptySeq DEF NoCall
  <2>2. CallAt(c, n) = NoCall
    BY <1>2 DEF CallAt
  <2> QED
    BY <1>1, <1>2, <1>3, <2>1, <2>2 DEF Continued
<1>5. d = [i \in DOMAIN c \union {n} |-> IF i = n THEN new ELSE c[i]]
  <2>1. d = Merged(c, n, new)
    BY <1>1, <1>3, AddedFragment
  <2> QED
    BY <2>1 DEF Merged
<1>6. PICK t : t = Append(m, e)
  OBVIOUS
<1>7. Len(t) = n + 1 /\ t[n+1] = e /\ \A i \in 1..n : t[i] = m[i]
  <2>1. e \in CallType
    BY <1>1, <1>2 DEF CallType
  <2> QED
    BY <1>1, <1>6, <2>1, AppendProperties
<1>8. DOMAIN d = 0..(Len(t)-1)
  <2>1. 0..(n-1) \union {n} = 0..((n+1)-1)
    BY <1>2
  <2> QED
    BY <1>2, <1>5, <1>7, <2>1
<1>9. ASSUME NEW i \in DOMAIN d PROVE d[i] = t[i+1]
  <2>1. CASE i = n
    BY <1>4, <1>5, <1>7, <2>1
  <2>2. CASE i # n
    <3>1. i \in DOMAIN c /\ d[i] = c[i]
      BY <1>5, <1>9, <2>2
    <3>2. i + 1 \in 1..n
      BY <1>2, <3>1
    <3> QED
      BY <1>7, <3>1, <3>2 DEF CallsAre
  <2> QED
    BY <2>1, <2>2
<1> QED
  BY <1>1, <1>6, <1>8, <1>9 DEF CallsAre

(* Later fragments continue the call of their index only.                  *)
LEMMA ArgumentsAdded ==
  ASSUME NEW m \in Seq(CallType), NEW c, CallsAre(c, m), NEW a \in Seq(STRING),
         NEW k \in 1..Len(m), NEW e, e = [m[k] EXCEPT !.args = @ \o a]
  PROVE  CallsAre(AddFragment(c, Fragment(k - 1, 0, a)), [m EXCEPT ![k] = e])
<1>1. PICK n, d, t : n = Len(m) /\ d = AddFragment(c, Fragment(k - 1, 0, a)) /\ t = [m EXCEPT ![k] = e]
  OBVIOUS
<1>2. n \in Nat /\ DOMAIN c = 0..(n-1) /\ k - 1 \in DOMAIN c /\ (k - 1) + 1 = k /\ DOMAIN m = 1..n
  BY <1>1, LenProperties DEF CallsAre
<1>3. c[k-1] = m[k] /\ m[k] \in CallType
  BY <1>2, ElementOfSeq DEF CallsAre
<1>4. PICK new : new = Continued(CallAt(c, k - 1), 0, a)
  OBVIOUS
<1>5. new = e /\ new = [id |-> m[k].id, args |-> m[k].args \o a]
  <2>1. CallAt(c, k - 1) = m[k]
    BY <1>2, <1>3 DEF CallAt
  <2>2. new = [id |-> m[k].id, args |-> m[k].args \o a]
    BY <1>4, <2>1 DEF Continued
  <2> QED
    BY <1>3, <2>2 DEF CallType
<1>6. d = [i \in DOMAIN c \union {k - 1} |-> IF i = k - 1 THEN new ELSE c[i]]
  <2>1. d = Merged(c, k - 1, new)
    BY <1>1, <1>4, AddedFragment
  <2> QED
    BY <2>1 DEF Merged
<1>7. Len(t) = n /\ \A i \in 1..n : t[i] = IF i = k THEN e ELSE m[i]
  <2>1. e \in CallType
    <3>1. m[k].args \o a \in Seq(STRING)
      BY <1>3, ConcatProperties DEF CallType
    <3> QED
      BY <1>3, <1>5, <3>1 DEF CallType
  <2> QED
    BY <1>1, <2>1, ExceptSeq
<1>8. DOMAIN d = 0..(n-1)
  BY <1>2, <1>6
<1>9. ASSUME NEW i \in DOMAIN d PROVE d[i] = t[i+1]
  <2>1. i + 1 \in 1..n /\ i \in DOMAIN c
    BY <1>2, <1>8
  <2>2. CASE i = k - 1
    BY <1>2, <1>5, <1>6, <1>7, <2>1, <2>2
  <2>3. CASE i # k - 1
    <3>1. i + 1 # k
      BY <1>2, <2>1, <2>3
    <3>2. d[i] = c[i] /\ t[i+1] = m[i+1]
      BY <1>6, <1>7, <2>1, <2>3, <3>1
    <3> QED
      BY <2>1, <3>2 DEF CallsAre
  <2> QED
    BY <2>2, <2>3
<1> QED
  BY <1>1, <1>7, <1>8, <1>9 DEF CallsAre

(* One fragment per call makes the calls.                                  *)
LEMMA JSONCallsAdded ==
  ASSUME NEW n \in 0..MaxCalls, NEW a \in [1..n -> Args],
         NEW list, IsJSONList(list, n, a)
  PROVE  /\ CallsAre(AddFragments(<<>>, JSONFragments(list)), list)
         /\ list = <<>> => AddFragments(<<>>, JSONFragments(list)) = <<>>
<1>1. n \in Nat
  BY ModelStreamAssumption
<1>2. /\ Len(list) = n /\ \A k \in 1..n : list[k] = [id |-> k, args |-> a[k]]
      /\ Len(JSONFragments(list)) = n
      /\ \A k \in 1..n : JSONFragments(list)[k] = Fragment(k - 1, k, a[k])
  BY JSONListType
<1>3. PICK f : /\ f[0] = <<>> /\ f[n] = AddFragments(<<>>, JSONFragments(list))
               /\ \A k \in 1..n : f[k] = AddFragment(f[k-1], JSONFragments(list)[k])
  <2>1. PICK frags : frags = JSONFragments(list)
    OBVIOUS
  <2>2. Len(frags) \in Nat
    BY <1>1, <1>2, <2>1
  <2>3. PICK none : none = <<>>
    OBVIOUS
  <2>4. PICK f : /\ f[0] = none /\ f[Len(frags)] = AddFragments(none, frags)
                 /\ \A k \in 1..Len(frags) : f[k] = AddFragment(f[k-1], frags[k])
    BY <2>2, AddFragmentsSteps
  <2>5. Len(frags) = n
    BY <1>2, <2>1
  <2> QED
    BY <2>1, <2>3, <2>4, <2>5
<1> DEFINE S == {k \in Nat : k <= n =>
                   DOMAIN f[k] = 0..(k-1) /\ \A i \in 0..(k-1) : f[k][i] = list[i+1]}
<1>4. 0 \in S
  <2>1. 0..(0-1) = {}
    OBVIOUS
  <2> QED
    BY <1>3, <2>1, EmptyTuple
<1>5. ASSUME NEW k \in S PROVE k + 1 \in S
  <2>1. k \in Nat /\ (k <= n => DOMAIN f[k] = 0..(k-1) /\ \A i \in 0..(k-1) : f[k][i] = list[i+1])
    BY <1>5 DEF S
  <2> SUFFICES ASSUME k + 1 <= n
               PROVE  DOMAIN f[k+1] = 0..((k+1)-1) /\ \A i \in 0..((k+1)-1) : f[k+1][i] = list[i+1]
    <3>1. k + 1 \in Nat
      BY <2>1
    <3> QED
      BY <3>1 DEF S
  <2> HIDE DEF S
  <2>2. k + 1 \in 1..n /\ (k + 1) - 1 = k /\ k + 1 # 0 /\ k <= n
    BY <1>1, <2>1
  <2>3. k \in Nat /\ DOMAIN f[k] = 0..(k-1) /\ \A i \in 0..(k-1) : f[k][i] = list[i+1]
    BY <2>1, <2>2
  <2>4. PICK c : c = f[k]
    OBVIOUS
  <2>5. f[k+1] = AddFragment(c, Fragment(k, k + 1, a[k+1]))
    BY <1>2, <1>3, <2>2, <2>3, <2>4
  <2>6. k \notin DOMAIN c
    BY <2>3, <2>4
  <2>7. PICK new : new = Continued(CallAt(c, k), k + 1, a[k+1])
    OBVIOUS
  <2>8. f[k+1] = [i \in DOMAIN c \union {k} |-> IF i = k THEN new ELSE c[i]]
    <3>1. f[k+1] = Merged(c, k, new)
      BY <2>5, <2>7, AddedFragment
    <3> QED
      BY <3>1 DEF Merged
  <2>9. new = list[k+1]
    <3>1. a[k+1] \in Seq(STRING)
      BY <2>2, ModelStreamAssumption
    <3>2. NoCall.args \o a[k+1] = a[k+1]
      BY <3>1, ConcatEmptySeq DEF NoCall
    <3>3. CallAt(c, k) = NoCall
      BY <2>6 DEF CallAt
    <3> QED
      BY <1>2, <2>2, <2>7, <3>2, <3>3 DEF Continued
  <2>10. DOMAIN f[k+1] = 0..k
    <3>1. 0..(k-1) \union {k} = 0..k
      BY <2>3
    <3> QED
      BY <2>3, <2>4, <2>8, <3>1
  <2>11. ASSUME NEW i \in 0..k PROVE f[k+1][i] = list[i+1]
    <3>1. CASE i = k
      BY <2>8, <2>9, <3>1
    <3>2. CASE i # k
      <4>1. i \in 0..(k-1)
        BY <2>3, <3>2
      <4> QED
        BY <2>3, <2>4, <2>8, <3>2, <4>1
    <3> QED
      BY <3>1, <3>2
  <2> QED
    BY <2>2, <2>10, <2>11
<1> HIDE DEF S
<1>6. S = Nat
  <2>1. S \in SUBSET Nat
    BY DEF S
  <2> QED
    BY <1>4, <1>5, <2>1, Induction
<1>7. DOMAIN f[n] = 0..(n-1) /\ \A i \in 0..(n-1) : f[n][i] = list[i+1]
  <2>1. n \in S /\ n <= n
    BY <1>1, <1>6
  <2> QED
    BY <2>1 DEF S
<1>8. list = <<>> => n = 0
  BY <1>2, EmptyTuple
<1> QED
  BY <1>2, <1>3, <1>7, <1>8 DEF CallsAre

(* By their index, the calls are in the order they were made in.           *)
LEMMA CallsOrdered ==
  ASSUME NEW m \in Seq(CallType), m # <<>>, NEW c, CallsAre(c, m)
  PROVE  c # <<>> /\ orderCalls(c) = m
<1>1. PICK n : n = Len(m)
  OBVIOUS
<1>2. n \in Nat /\ n # 0 /\ DOMAIN m = 1..n
  BY <1>1, EmptySeq, LenProperties
<1>3. DOMAIN c = 0..(n-1) /\ \A i \in 0..(n-1) : c[i] = m[i+1]
  BY <1>1 DEF CallsAre
<1>4. c # <<>>
  <2>1. 0 \in DOMAIN c
    BY <1>2, <1>3
  <2> QED
    BY <2>1, EmptyTuple
<1>5. Max(DOMAIN c) = n - 1
  <2>1. DOMAIN c \in SUBSET (0..n) /\ DOMAIN c # {} /\ n - 1 \in DOMAIN c
    BY <1>2, <1>3
  <2>2. Max(DOMAIN c) \in DOMAIN c /\ \A y \in DOMAIN c : Max(DOMAIN c) >= y
    BY <1>2, <2>1, MaxIsGreatest
  <2>3. Max(DOMAIN c) >= n - 1
    BY <2>1, <2>2
  <2> QED
    BY <1>2, <1>3, <2>2, <2>3
<1>6. PICK slots, P : /\ slots = [k \in 1..(n-1)+1 |-> IF k - 1 \in DOMAIN c THEN c[k-1] ELSE NoCall]
                      /\ P = {k \in DOMAIN slots : k - 1 \in DOMAIN c}
  OBVIOUS
<1>7. orderCalls(c) = Pick(slots, P)
  BY <1>4, <1>5, <1>6 DEF orderCalls
<1>8. slots = m
  <2>1. (n - 1) + 1 = n /\ \A k \in 1..n : k - 1 \in 0..(n-1) /\ (k - 1) + 1 = k
    BY <1>2
  <2>2. slots = [k \in 1..n |-> m[k]]
    BY <1>3, <1>6, <2>1
  <2>3. m = [k \in 1..n |-> m[k]]
    BY <1>1, <1>2, LenProperties
  <2> QED
    BY <2>2, <2>3
<1>9. \A i \in 1..Len(m) : i \in P
  <2>1. \A k \in 1..n : k - 1 \in 0..(n-1)
    BY <1>2
  <2> QED
    BY <1>1, <1>2, <1>3, <1>6, <1>8, <2>1
<1>10. Pick(m, P) = m
  BY <1>9, PickAll
<1> QED
  BY <1>4, <1>7, <1>8, <1>10

(* Places after the last picked one do not matter.                         *)
LEMMA PickTruncate ==
  ASSUME NEW T, NEW s \in Seq(T), NEW m \in 0..Len(s), NEW P, \A i \in (m+1)..Len(s) : i \notin P
  PROVE  Pick(SubSeq(s, 1, m), P) = Pick(s, P)
<1>1. Len(s) \in Nat /\ \A i \in 1..Len(s) : s[i] \in T
  BY LenProperties
<1>2. PICK a, b : a = SubSeq(s, 1, m) /\ b = SubSeq(s, m + 1, Len(s))
  OBVIOUS
<1>3. a \in Seq(T) /\ Len(a) = m
  <2>1. 1 \in Int /\ m \in Int /\ \A i \in 1..m : s[i] \in T
    BY <1>1
  <2>2. a \in Seq(T) /\ Len(a) = IF 1 <= m THEN m - 1 + 1 ELSE 0
    BY <1>2, <2>1, SubSeqProperties
  <2> QED
    BY <1>1, <2>2
<1>4. b \in Seq(T) /\ Len(b) = Len(s) - m
  <2>1. m + 1 \in Int /\ Len(s) \in Int /\ \A i \in (m+1)..Len(s) : s[i] \in T
    BY <1>1
  <2>2. b \in Seq(T) /\ Len(b) = IF m + 1 <= Len(s) THEN Len(s) - (m + 1) + 1 ELSE 0
    BY <1>2, <2>1, SubSeqProperties
  <2> QED
    BY <1>1, <2>2
<1>5. a \o b = s
  <2>1. 1 \in 1..Len(s)+1 /\ m \in 1-1..Len(s) /\ Len(s) \in m..Len(s)
    BY <1>1
  <2>2. SubSeq(s, 1, m) \o SubSeq(s, m + 1, Len(s)) = SubSeq(s, 1, Len(s))
    BY <2>1, ConcatAdjacentSubSeq
  <2> QED
    BY <1>2, <2>2, SubSeqFull
<1>6. Shifts(P, {}, Len(a), Len(b))
  <2> SUFFICES ASSUME NEW j \in 1..Len(s)-m PROVE m + j \notin P
    BY <1>3, <1>4 DEF Shifts
  <2>1. m + j \in (m+1)..Len(s)
    BY <1>1
  <2> QED
    BY <2>1
<1>7. Pick(Joined(a, b), P) = Joined(Pick(a, P), Pick(b, {}))
  BY <1>3, <1>4, <1>6, PickConcat
<1>8. Pick(b, {}) = <<>>
  BY <1>4, PickNone
<1>9. Pick(a, P) \in Seq(T)
  BY <1>3, PickType
<1> QED
  BY <1>2, <1>5, <1>7, <1>8, <1>9, ConcatEmptySeq DEF Joined

-----------------------------------------------------------------------------
(***************************************************************************)
(* Calls written into the reasoning.                                       *)
(***************************************************************************)
Inline(x) == [id |-> 0, args |-> <<x>>]
Inlined(s) == [k \in DOMAIN s |-> Inline(s[k])]
\* A call at each place in P, nothing at the others.
Slots(s, P) == [k \in DOMAIN s |-> IF k \in P THEN Inline(s[k]) ELSE NoCall]
SlotType(T) == {Inline(x) : x \in T} \union {NoCall}

\* A last member adds one slot, filled or not.
LEMMA SlotsAppend ==
  ASSUME NEW T, NEW s \in Seq(T), NEW e \in T, NEW P,
         NEW x, x = IF Len(s) + 1 \in P THEN Inline(e) ELSE NoCall
  PROVE  /\ Slots(s, P) \in Seq(SlotType(T)) /\ Len(Slots(s, P)) = Len(s)
         /\ x \in SlotType(T)
         /\ Slots(Append(s, e), P) = Append(Slots(s, P), x)
<1>1. PICK t, n : t = Append(s, e) /\ n = Len(s)
  OBVIOUS
<1>2. /\ t \in Seq(T) /\ Len(t) = n + 1 /\ t[n+1] = e /\ n \in Nat
      /\ \A i \in 1..n : t[i] = s[i] /\ s[i] \in T
      /\ DOMAIN s = 1..n /\ DOMAIN t = 1..n+1
  <2>1. t \in Seq(T) /\ Len(t) = n + 1 /\ t[n+1] = e /\ \A i \in 1..n : t[i] = s[i]
    BY <1>1, AppendProperties
  <2>2. n \in Nat /\ DOMAIN s = 1..n /\ DOMAIN t = 1..n+1 /\ \A i \in 1..n : s[i] \in T
    BY <1>1, <2>1, LenProperties
  <2> QED
    BY <2>1, <2>2
<1>3. PICK u, v : u = Slots(s, P) /\ v = Slots(t, P)
  OBVIOUS
<1>4. /\ u \in Seq(SlotType(T)) /\ Len(u) = n
      /\ \A i \in 1..n : u[i] = IF i \in P THEN Inline(s[i]) ELSE NoCall
  <2>1. u = [k \in 1..n |-> IF k \in P THEN Inline(s[k]) ELSE NoCall]
    BY <1>2, <1>3 DEF Slots
  <2>2. [k \in 1..n |-> IF k \in P THEN Inline(s[k]) ELSE NoCall] \in Seq(SlotType(T))
    <3>1. \A k \in 1..n : (IF k \in P THEN Inline(s[k]) ELSE NoCall) \in SlotType(T)
      BY <1>2 DEF SlotType
    <3> QED
      BY <1>2, <3>1, IsASeq
  <2>3. u \in Seq(SlotType(T)) /\ DOMAIN u = 1..n
    BY <2>1, <2>2
  <2>4. Len(u) = n
    BY <1>2, <2>3, LenProperties
  <2> QED
    BY <2>1, <2>3, <2>4
<1>5. /\ v \in Seq(SlotType(T)) /\ Len(v) = n + 1
      /\ \A i \in 1..n+1 : v[i] = IF i \in P THEN Inline(t[i]) ELSE NoCall
  <2>1. v = [k \in 1..n+1 |-> IF k \in P THEN Inline(t[k]) ELSE NoCall]
    BY <1>2, <1>3 DEF Slots
  <2>2. [k \in 1..n+1 |-> IF k \in P THEN Inline(t[k]) ELSE NoCall] \in Seq(SlotType(T))
    <3>1. \A k \in 1..n+1 : t[k] \in T
      BY <1>2, LenProperties
    <3>2. \A k \in 1..n+1 : (IF k \in P THEN Inline(t[k]) ELSE NoCall) \in SlotType(T)
      BY <3>1 DEF SlotType
    <3> QED
      BY <1>2, <3>2, IsASeq
  <2>3. v \in Seq(SlotType(T)) /\ DOMAIN v = 1..n+1
    BY <2>1, <2>2
  <2>4. Len(v) = n + 1
    BY <1>2, <2>3, LenProperties
  <2> QED
    BY <2>1, <2>3, <2>4
<1>6. x \in SlotType(T)
  BY DEF SlotType
<1>7. PICK w : w = Append(u, x)
  OBVIOUS
<1>8. w \in Seq(SlotType(T)) /\ Len(w) = n + 1 /\ w[n+1] = x /\ \A i \in 1..n : w[i] = u[i]
  BY <1>4, <1>6, <1>7, AppendProperties
<1>9. \A i \in 1..Len(v) : v[i] = w[i]
  <2> TAKE i \in 1..Len(v)
  <2>1. CASE i = n + 1
    BY <1>1, <1>2, <1>5, <1>8, <2>1
  <2>2. CASE i # n + 1
    <3>1. i \in 1..n
      BY <1>2, <1>5, <2>2
    <3> QED
      BY <1>2, <1>4, <1>5, <1>8, <3>1
  <2> QED
    BY <2>1, <2>2
<1>10. v = w
  BY <1>5, <1>8, <1>9, SeqEqual
<1> QED
  BY <1>1, <1>3, <1>4, <1>6, <1>7, <1>10

\* An empty sequence has no slots.
LEMMA SlotsEmpty == \A P : Slots(<<>>, P) = <<>>
<1> TAKE P
<1>1. Slots(<<>>, P) \in [{} -> {}]
  BY EmptyTuple DEF Slots
<1>2. <<>> \in [{} -> {}]
  <2>1. <<>> \in Seq({}) /\ Len(<<>>) = 0 /\ 1..0 = {}
    BY EmptySeq
  <2> QED
    BY <2>1, LenProperties
<1> QED
  BY <1>1, <1>2

\* Calls written in the text fill every slot.
LEMMA InlinedIsSlots ==
  ASSUME NEW T, NEW s \in Seq(T)
  PROVE  Inlined(s) = Slots(s, Nat)
<1>1. \A k \in DOMAIN s : k \in Nat
  BY LenProperties
<1> QED
  BY <1>1 DEF Inlined, Slots

\* A last call is written last.
LEMMA InlinedAppend ==
  ASSUME NEW T, NEW s \in Seq(T), NEW e \in T
  PROVE  Inlined(Append(s, e)) = Append(Inlined(s), Inline(e))
<1>1. Len(s) + 1 \in Nat /\ Append(s, e) \in Seq(T)
  BY LenProperties, AppendProperties
<1>2. Inlined(s) = Slots(s, Nat) /\ Inlined(Append(s, e)) = Slots(Append(s, e), Nat)
  BY <1>1, InlinedIsSlots
<1>3. PICK x : x = IF Len(s) + 1 \in Nat THEN Inline(e) ELSE NoCall
  OBVIOUS
<1>4. Slots(Append(s, e), Nat) = Append(Slots(s, Nat), x)
  BY <1>3, SlotsAppend
<1> QED
  BY <1>1, <1>2, <1>3, <1>4

\* No calls, none written.
LEMMA InlinedEmpty == Inlined(<<>>) = <<>>
  BY EmptySeq, InlinedIsSlots, SlotsEmpty

(* The filled slots are the picked members, as calls.                      *)
LEMMA SlotsPicked ==
  ASSUME NEW T, NEW P
  PROVE  \A s \in Seq(T) : Pick(Slots(s, P), P) = Inlined(Pick(s, P))
<1> DEFINE X == {s \in Seq(T) : Pick(Slots(s, P), P) = Inlined(Pick(s, P))}
<1>1. <<>> \in X
  BY EmptySeq, SlotsEmpty, InlinedEmpty, PickEmpty
<1>2. ASSUME NEW s \in X, NEW e \in T PROVE Append(s, e) \in X
  <2>1. s \in Seq(T) /\ Append(s, e) \in Seq(T) /\ Pick(Slots(s, P), P) = Inlined(Pick(s, P))
    BY AppendProperties
  <2> HIDE DEF X
  <2>2. PICK x : x = IF Len(s) + 1 \in P THEN Inline(e) ELSE NoCall
    OBVIOUS
  <2>3. /\ Slots(s, P) \in Seq(SlotType(T)) /\ Len(Slots(s, P)) = Len(s) /\ x \in SlotType(T)
        /\ Slots(Append(s, e), P) = Append(Slots(s, P), x)
    BY <2>1, <2>2, SlotsAppend
  <2>4. Pick(Append(Slots(s, P), x), P)
          = IF Len(s) + 1 \in P THEN Append(Pick(Slots(s, P), P), x) ELSE Pick(Slots(s, P), P)
    <3>1. Pick(Append(Slots(s, P), x), P)
            = IF Len(Slots(s, P)) + 1 \in P THEN Append(Pick(Slots(s, P), P), x) ELSE Pick(Slots(s, P), P)
      BY <2>3, PickAppend
    <3> QED
      BY <2>3, <3>1
  <2>5. Pick(Append(s, e), P) = IF Len(s) + 1 \in P THEN Append(Pick(s, P), e) ELSE Pick(s, P)
    BY <2>1, PickAppend
  <2>6. Inlined(Append(Pick(s, P), e)) = Append(Inlined(Pick(s, P)), Inline(e))
    <3>1. Pick(s, P) \in Seq(T)
      BY <2>1, PickType
    <3> QED
      BY <3>1, InlinedAppend
  <2>7. CASE Len(s) + 1 \in P
    BY <2>1, <2>2, <2>3, <2>4, <2>5, <2>6, <2>7 DEF X
  <2>8. CASE Len(s) + 1 \notin P
    BY <2>1, <2>3, <2>4, <2>5, <2>8 DEF X
  <2> QED
    BY <2>7, <2>8
<1>3. X = Seq(T)
  <2>1. X \in SUBSET Seq(T)
    OBVIOUS
  <2> HIDE DEF X
  <2> QED
    BY <1>1, <1>2, <2>1, SeqInduction
<1> QED
  BY <1>3

(* The calls written into a text come in its order, without gaps.          *)
LEMMA InlineOrdered ==
  ASSUME NEW T, NEW r \in Seq(T)
  PROVE  orderCalls(InlineCalls(r)) = Inlined(Only(r, {"T", "V"}))
<1>1. PICK b, G, n, c : /\ b = Only(r, {"T", "V", "U"}) /\ n = Len(b)
                        /\ G = {i \in DOMAIN b : b[i] # "U"} /\ c = InlineCalls(r)
  OBVIOUS
<1>2. b \in Seq(T) /\ n \in Nat /\ DOMAIN b = 1..n /\ G \subseteq 1..n
  <2>1. b \in Seq(T)
    BY <1>1, OnlyType
  <2> QED
    BY <1>1, <2>1, LenProperties
<1>3. Only(r, {"T", "V"}) = Pick(b, G)
  <2>1. Only(b, {"T", "V"}) = Only(r, {"T", "V"})
    <3>1. {"T", "V", "U"} \cap {"T", "V"} = {"T", "V"}
      OBVIOUS
    <3> QED
      BY <1>1, <3>1, OnlyOnly
  <2>2. PICK P : P = {i \in DOMAIN r : r[i] \in {"T", "V", "U"}}
    OBVIOUS
  <2>3. PICK Q : Q = {i \in DOMAIN b : b[i] \in {"T", "V"}}
    OBVIOUS
  <2>4. ASSUME NEW i \in 1..Len(b) PROVE i \in Q <=> i \in G
    <3>1. b = Pick(r, P)
      BY <1>1, <2>2 DEF Only
    <3>2. PICK j \in 1..Len(r) : j \in P /\ b[i] = r[j]
      BY <3>1, PickMembers
    <3>3. b[i] \in {"T", "V", "U"}
      BY <2>2, <3>2
    <3>4. i \in DOMAIN b
      BY <1>1, <1>2
    <3> QED
      BY <1>1, <2>3, <3>3, <3>4
  <2>5. Pick(b, Q) = Pick(b, G)
    BY <1>1, <1>2, <2>4, PickAgrees
  <2> QED
    BY <2>1, <2>3, <2>5 DEF Only
<1>4. c = [i \in {k - 1 : k \in G} |-> Inline(b[i+1])]
  BY <1>1 DEF InlineCalls, Inline
<1>5. \A k \in Int : k - 1 \in DOMAIN c <=> k \in G
  <2> TAKE k \in Int
  <2>1. ASSUME k - 1 \in DOMAIN c PROVE k \in G
    <3>1. PICK j \in G : k - 1 = j - 1
      BY <1>4, <2>1
    <3>2. j \in Int
      BY <1>2
    <3> QED
      BY <3>1, <3>2
  <2> QED
    BY <1>4, <2>1
<1>6. PICK all : all = Slots(b, G)
  OBVIOUS
<1>7. /\ all \in Seq(SlotType(T)) /\ Len(all) = n
      /\ \A k \in 1..n : all[k] = IF k \in G THEN Inline(b[k]) ELSE NoCall
  <2>1. all = [k \in 1..n |-> IF k \in G THEN Inline(b[k]) ELSE NoCall]
    BY <1>2, <1>6 DEF Slots
  <2>2. [k \in 1..n |-> IF k \in G THEN Inline(b[k]) ELSE NoCall] \in Seq(SlotType(T))
    <3>1. \A k \in 1..n : b[k] \in T
      BY <1>1, <1>2, LenProperties
    <3>2. \A k \in 1..n : (IF k \in G THEN Inline(b[k]) ELSE NoCall) \in SlotType(T)
      BY <3>1 DEF SlotType
    <3> QED
      BY <1>2, <3>2, IsASeq
  <2>3. all \in Seq(SlotType(T)) /\ DOMAIN all = 1..n
    BY <2>1, <2>2
  <2>4. Len(all) = n
    BY <1>2, <2>3, LenProperties
  <2> QED
    BY <2>1, <2>3, <2>4
<1>8. Pick(all, G) = Inlined(Only(r, {"T", "V"}))
  <2>1. Pick(Slots(b, G), G) = Inlined(Pick(b, G))
    BY <1>2, SlotsPicked
  <2> QED
    BY <1>3, <1>6, <2>1
<1>9. PICK m : m = IF c = <<>> THEN 0 ELSE Max(DOMAIN c) + 1
  OBVIOUS
<1>10. m \in 0..n /\ \A i \in (m+1)..n : i \notin G
  <2>1. CASE c = <<>>
    <3>1. G = {}
      <4>1. \A k \in G : k \in Int /\ k - 1 \in DOMAIN c
        BY <1>2, <1>5
      <4> QED
        BY <2>1, <4>1, EmptyTuple
    <3> QED
      BY <1>2, <1>9, <2>1, <3>1
  <2>2. CASE c # <<>>
    <3>1. G # {}
      <4> SUFFICES ASSUME G = {} PROVE c = <<>>
        BY <2>2
      <4>1. c \in [{} -> {}]
        BY <1>4
      <4>2. <<>> \in [{} -> {}]
        <5>1. <<>> \in Seq({}) /\ Len(<<>>) = 0 /\ 1..0 = {}
          BY EmptySeq
        <5> QED
          BY <5>1, LenProperties
      <4> QED
        BY <4>1, <4>2
    <3>2. DOMAIN c \in SUBSET (0..n) /\ DOMAIN c # {}
      <4>1. \A i \in DOMAIN c : i \in 0..n
        <5> TAKE i \in DOMAIN c
        <5>1. PICK k \in G : i = k - 1
          BY <1>4
        <5>2. k \in 1..n
          BY <1>2
        <5> QED
          BY <1>2, <5>1, <5>2
      <4>2. \A k \in G : k \in Int /\ k - 1 \in DOMAIN c
        BY <1>2, <1>5
      <4> QED
        BY <3>1, <4>1, <4>2
    <3>3. Max(DOMAIN c) \in DOMAIN c /\ \A y \in DOMAIN c : Max(DOMAIN c) >= y
      BY <1>2, <3>2, MaxIsGreatest
    <3>4. m = Max(DOMAIN c) + 1 /\ Max(DOMAIN c) \in 0..n
      BY <1>9, <2>2, <3>2, <3>3
    <3>5. m \in Int /\ m - 1 \in DOMAIN c
      BY <1>2, <3>3, <3>4
    <3>6. m \in G
      BY <1>5, <3>5
    <3>7. ASSUME NEW i \in (m+1)..n PROVE i \notin G
      <4> SUFFICES ASSUME i \in G PROVE FALSE
        OBVIOUS
      <4>1. i \in Int /\ i - 1 \in DOMAIN c
        BY <1>2, <1>5, <3>5
      <4>2. Max(DOMAIN c) >= i - 1
        BY <3>3, <4>1
      <4> QED
        BY <1>2, <3>4, <4>1, <4>2
    <3> QED
      BY <1>2, <3>6, <3>7
  <2> QED
    BY <2>1, <2>2
<1>11. PICK slots, P : /\ slots = [k \in 1..m |-> IF k - 1 \in DOMAIN c THEN c[k-1] ELSE NoCall]
                       /\ P = {k \in DOMAIN slots : k - 1 \in DOMAIN c}
  OBVIOUS
<1>12. orderCalls(c) = Pick(slots, P)
  <2>1. PICK max : max = IF c = <<>> THEN -1 ELSE Max(DOMAIN c)
    OBVIOUS
  <2>2. max + 1 = m
    <3>1. -1 + 1 = 0
      OBVIOUS
    <3> QED
      BY <1>9, <2>1, <3>1
  <2> QED
    BY <1>11, <2>1, <2>2 DEF orderCalls
<1>13. slots = SubSeq(all, 1, m)
  <2>1. m \in Nat /\ 1 \in Int /\ m \in Int /\ \A i \in 1..m : i \in 1..n /\ i \in Int
    BY <1>2, <1>10
  <2>2. \A i \in 1..m : all[i] \in SlotType(T)
    BY <1>7, <2>1, LenProperties
  <2>3. PICK u : u = SubSeq(all, 1, m)
    OBVIOUS
  <2>4. /\ u \in Seq(SlotType(T)) /\ Len(u) = IF 1 <= m THEN m - 1 + 1 ELSE 0
        /\ \A i \in 1..m-1+1 : u[i] = all[1+i-1]
    BY <2>1, <2>2, <2>3, SubSeqProperties
  <2>5. Len(u) = m /\ \A i \in 1..m : u[i] = all[i]
    <3>1. m - 1 + 1 = m /\ \A i \in 1..m : i \in 1..m-1+1 /\ 1 + i - 1 = i
      BY <2>1
    <3>2. Len(u) = m
      BY <2>1, <2>4
    <3> QED
      BY <2>4, <3>1, <3>2
  <2>6. u = [i \in 1..m |-> all[i]]
    <3>1. u = [i \in 1..Len(u) |-> u[i]]
      BY <2>4, LenProperties
    <3> QED
      BY <2>5, <3>1
  <2>7. \A i \in 1..m : (IF i - 1 \in DOMAIN c THEN c[i-1] ELSE NoCall) = all[i]
    <3> TAKE i \in 1..m
    <3>1. i \in 1..n /\ i \in Int /\ (i - 1) + 1 = i
      BY <2>1
    <3>2. i - 1 \in DOMAIN c <=> i \in G
      BY <1>5, <3>1
    <3>3. i - 1 \in DOMAIN c => c[i-1] = Inline(b[i])
      BY <1>4, <3>1
    <3> QED
      BY <1>7, <3>1, <3>2, <3>3
  <2>8. slots = [i \in 1..m |-> all[i]]
    BY <1>11, <2>7
  <2> QED
    BY <2>3, <2>6, <2>8
<1>14. slots \in Seq(SlotType(T)) /\ Len(slots) = m
  <2>1. \A i \in 1..m : all[i] \in SlotType(T)
    BY <1>2, <1>7, <1>10, LenProperties
  <2>2. 1 \in Int /\ m \in Int /\ m \in Nat
    BY <1>2, <1>10
  <2>3. SubSeq(all, 1, m) \in Seq(SlotType(T)) /\ Len(SubSeq(all, 1, m)) = IF 1 <= m THEN m - 1 + 1 ELSE 0
    BY <2>1, <2>2, SubSeqProperties
  <2> QED
    BY <1>13, <2>2, <2>3
<1>15. Pick(slots, P) = Pick(slots, G)
  <2>1. \A i \in 1..Len(slots) : i \in P <=> i \in G
    <3> TAKE i \in 1..Len(slots)
    <3>1. i \in DOMAIN slots /\ i \in Int
      BY <1>14, LenProperties
    <3> QED
      BY <1>5, <1>11, <3>1
  <2> QED
    BY <1>14, <2>1, LenProperties, PickAgrees
<1>16. Pick(SubSeq(all, 1, m), G) = Pick(all, G)
  <2>1. m \in 0..Len(all) /\ \A i \in (m+1)..Len(all) : i \notin G
    BY <1>7, <1>10
  <2> QED
    BY <1>7, <2>1, PickTruncate
<1> QED
  BY <1>1, <1>8, <1>12, <1>13, <1>15, <1>16

-----------------------------------------------------------------------------
(* A payload without fragments changes neither side.                       *)
LEMMA QuietCalls ==
  ASSUME Typed, CallsInv, NEW p \in PayloadType, DataLine(p), p.chunk.calls = <<>>,
         UNCHANGED made
  PROVE  CallsInv'
<1> SUFFICES ASSUME Sound' PROVE Complete(FullCalls, made)'
  BY DEF CallsInv
<1>1. Sound /\ FullCalls = calls /\ Len(block') = 1 /\ block'[1] = p
  BY OnlyLine
<1>2. phase # "done" /\ calls' = calls /\ server' = server
  BY DEF DataLine, assembled
<1>3. Complete(calls, made)
  BY <1>1, <1>2 DEF CallsInv
<1>4. FullCalls' = calls
  <2>1. block'[1].chunk.calls = <<>>
    BY <1>1
  <2> QED
    BY <1>2, <2>1, AddNoFragments DEF FullCalls
<1> QED
  BY <1>2, <1>3, <1>4 DEF Complete

(* A fragment is added to the calls when it is flushed.                    *)
LEMMA LoudCalls ==
  ASSUME Typed, CallsInv, NEW p \in PayloadType, DataLine(p), p.kind = "chunk",
         NEW f, p.chunk.calls = <<f>>, made' # <<>>,
         CallsAre(calls, made) => CallsAre(AddFragment(calls, f), made')
  PROVE  CallsInv'
<1> SUFFICES ASSUME Sound' PROVE Complete(FullCalls, made)'
  BY DEF CallsInv
<1>1. Sound /\ FullCalls = calls /\ Len(block') = 1 /\ block'[1] = p /\ Pending'
  BY OnlyLine
<1>2. phase # "done" /\ calls' = calls /\ server' = server
  BY DEF DataLine, assembled
<1>3. Complete(calls, made)
  BY <1>1, <1>2 DEF CallsInv
<1>4. FullCalls' = AddFragment(calls, f)
  <2>1. block'[1].chunk.calls = <<f>>
    BY <1>1
  <2> QED
    BY <1>1, <1>2, <2>1, AddOneFragment DEF FullCalls
<1> QED
  BY <1>2, <1>3, <1>4 DEF Complete

\* A line of data keeps the calls those the server made.
LEMMA DataCalls ==
  ASSUME Typed, CallsInv, Data
  PROVE  CallsInv'
<1>1. /\ sent \in Seq(Tokens) /\ made \in Seq(CallType) /\ server \in ServerKinds
      /\ NoChunk = [content |-> <<>>, reasoning |-> <<>>, images |-> {}, calls |-> <<>>]
  BY DEF Typed, TypeOK, NoChunk
<1>2. ASSUME NEW p, DataLine(p) PROVE p \in PayloadType
  <2>1. Typed'
    BY <1>2, DataType
  <2>2. block' \in Seq(PayloadType) /\ block' = Append(block, p) /\ block \in Seq(PayloadType)
    BY <1>2, <2>1 DEF Typed, TypeOK, PayloadType, DataLine
  <2> QED
    BY <2>2, LenProperties
<1>3. ASSUME NEW s \in Texts, DataContent(s) PROVE CallsInv'
  <2>1. s \in Seq(Tokens) /\ <<>> \in Seq(Tokens) /\ sent \o s \in Seq(Tokens)
    BY <1>1, TextsTyped, EmptySeq, ConcatProperties
  <2>2. PICK x : x = IF server = "cumulative" THEN sent \o s ELSE s
    OBVIOUS
  <2>3. PICK p : p = Payload("chunk", ContentChunk(x, <<>>))
    OBVIOUS
  <2>4. DataLine(p) /\ UNCHANGED made
    BY <1>3, <2>2, <2>3 DEF DataContent
  <2>5. p.chunk.calls = <<>>
    <3>1. x \in Seq(Tokens)
      BY <2>1, <2>2
    <3>2. ContentChunk(x, <<>>).calls = <<>>
      BY <2>1, <3>1, ContentChunkType
    <3> QED
      BY <2>3, <3>2 DEF Payload
  <2> QED
    BY <1>2, <2>4, <2>5, QuietCalls
<1>4. ASSUME DataWhole PROVE CallsInv'
  <2>1. PICK p : p = Payload("chunk", ContentChunk(sent, <<>>))
    OBVIOUS
  <2>2. DataLine(p) /\ UNCHANGED made
    BY <1>4, <2>1 DEF DataWhole
  <2>3. p.chunk.calls = <<>>
    <3>1. ContentChunk(sent, <<>>).calls = <<>>
      BY <1>1, EmptySeq, ContentChunkType
    <3> QED
      BY <2>1, <3>1 DEF Payload
  <2> QED
    BY <1>2, <2>2, <2>3, QuietCalls
<1>5. ASSUME NEW r, DataReasoning(r) PROVE CallsInv'
  <2>1. PICK p : p = Payload("chunk", [NoChunk EXCEPT !.reasoning = r])
    OBVIOUS
  <2>2. DataLine(p) /\ UNCHANGED made /\ p.chunk.calls = <<>>
    BY <1>1, <1>5, <2>1 DEF DataReasoning, Payload
  <2> QED
    BY <1>2, <2>2, QuietCalls
<1>6. ASSUME NEW S, DataImages(S) PROVE CallsInv'
  <2>1. PICK p : p = Payload("chunk", [NoChunk EXCEPT !.images = S])
    OBVIOUS
  <2>2. DataLine(p) /\ UNCHANGED made /\ p.chunk.calls = <<>>
    BY <1>1, <1>6, <2>1 DEF DataImages, Payload
  <2> QED
    BY <1>2, <2>2, QuietCalls
<1>7. ASSUME DataOther \/ DataEnd PROVE CallsInv'
  <2>1. PICK p : DataLine(p) /\ p.chunk.calls = <<>> /\ UNCHANGED made
    <3>1. ASSUME NEW kind PROVE Payload(kind, NoChunk).chunk.calls = <<>>
      BY <1>1 DEF Payload
    <3> QED
      BY <1>7, <3>1 DEF DataOther, DataEnd
  <2> QED
    BY <1>2, <2>1, QuietCalls
<1>8. ASSUME NEW a \in Args, DataNewCall(a) PROVE CallsInv'
  <2>1. PICK f, e : f = Fragment(Len(made), Len(made) + 1, a) /\ e = [id |-> Len(made) + 1, args |-> a]
    OBVIOUS
  <2>2. PICK p : p = Payload("chunk", [NoChunk EXCEPT !.calls = <<f>>])
    OBVIOUS
  <2>3. DataLine(p) /\ made' = Append(made, e)
    BY <1>8, <2>1, <2>2 DEF DataNewCall
  <2>4. p.kind = "chunk" /\ p.chunk.calls = <<f>>
    BY <1>1, <2>2 DEF Payload
  <2>5. a \in Seq(STRING)
    BY ModelStreamAssumption
  <2>6. made' # <<>>
    <3>1. e \in CallType
      BY <1>1, <2>1, <2>5, LenProperties DEF CallType
    <3>2. Len(made') = Len(made) + 1 /\ Len(made) \in Nat
      BY <1>1, <2>3, <3>1, AppendProperties, LenProperties
    <3> QED
      BY <3>2, EmptyTuple
  <2>7. CallsAre(calls, made) => CallsAre(AddFragment(calls, f), made')
    BY <1>1, <2>1, <2>3, <2>5, NewCallAdded
  <2> QED
    BY <1>2, <2>3, <2>4, <2>6, <2>7, LoudCalls
<1>9. ASSUME NEW k \in DOMAIN made, NEW a \in Args, DataArguments(k, a) PROVE CallsInv'
  <2>1. PICK f, e : f = Fragment(k - 1, 0, a) /\ e = [made[k] EXCEPT !.args = @ \o a]
    OBVIOUS
  <2>2. PICK p : p = Payload("chunk", [NoChunk EXCEPT !.calls = <<f>>])
    OBVIOUS
  <2>3. DataLine(p) /\ made' = [made EXCEPT ![k] = e]
    BY <1>9, <2>1, <2>2 DEF DataArguments
  <2>4. p.kind = "chunk" /\ p.chunk.calls = <<f>>
    BY <1>1, <2>2 DEF Payload
  <2>5. a \in Seq(STRING) /\ k \in 1..Len(made)
    BY <1>1, ModelStreamAssumption, LenProperties
  <2>6. made' # <<>>
    <3>1. k \in DOMAIN made'
      BY <2>3
    <3> QED
      BY <3>1, EmptyTuple
  <2>7. CallsAre(calls, made) => CallsAre(AddFragment(calls, f), made')
    BY <1>1, <2>1, <2>3, <2>5, ArgumentsAdded
  <2> QED
    BY <1>2, <2>3, <2>4, <2>6, <2>7, LoudCalls
<1>10. ASSUME NEW k \in DOMAIN made, DataWholeCall(k) PROVE CallsInv'
  <2>1. PICK f : f = Fragment(k - 1, made[k].id, made[k].args)
    OBVIOUS
  <2>2. PICK p : p = Payload("chunk", [NoChunk EXCEPT !.calls = <<f>>])
    OBVIOUS
  <2>3. DataLine(p) /\ UNCHANGED made /\ server = "responses"
    BY <1>10, <2>1, <2>2 DEF DataWholeCall
  <2>4. made # <<>>
    BY EmptyTuple
  <2>5. server' = server
    BY <2>3 DEF DataLine
  <2> QED
    BY <2>3, <2>4, <2>5 DEF CallsInv, Complete
<1> QED
  BY <1>3, <1>4, <1>5, <1>6, <1>7, <1>8, <1>9, <1>10 DEF Data

\* Flushing pending images leaves the calls.
LEMMA FlushCalls ==
  ASSUME Typed, CallsInv, phase # "done", NEW cut, Flush(cut), UNCHANGED <<server, said>>
  PROVE  CallsInv'
<1> SUFFICES ASSUME Sound' PROVE Complete(FullCalls, made)'
  BY DEF CallsInv
<1>1. block' = <<>> /\ broken' = (broken \/ cut \/ Len(block) > 1)
  BY DEF Flush
<1>2. Len(block) \in Nat
  BY LenProperties DEF Typed, TypeOK
<1>3. Sound
  <2>1. ~broken'
    BY DEF Sound
  <2>2. ~broken /\ ~(Len(block) > 1)
    BY <1>1, <2>1, Zenon
  <2>3. Len(block) <= 1
    BY <1>2, <2>2
  <2> QED
    BY <2>2, <2>3 DEF Sound
<1>4. FullCalls' = calls'
  BY <1>1 DEF FullCalls, Pending
<1>5. calls' = FullCalls
  <2>1. CASE Pending
    <3>1. Absorb(block[1].chunk)
      BY <2>1 DEF Flush, Pending, Decodes
    <3> QED
      BY <2>1, <3>1 DEF Absorb, FullCalls
  <2>2. CASE ~Pending
    BY <2>2 DEF Flush, Pending, Decodes, FullCalls, assembled
  <2> QED
    BY <2>1, <2>2
<1>6. made' = made /\ server' = server
  BY DEF said
<1>7. Complete(FullCalls, made)
  BY <1>3 DEF CallsInv
<1> QED
  BY <1>4, <1>5, <1>6, <1>7 DEF Complete

\* A request, and an answer in one body, keep it so.
LEMMA RequestCalls ==
  ASSUME Typed, Stages, CallsInv, Request
  PROVE  CallsInv'
<1>1. ASSUME Accepted \/ Refused \/ Rejected \/ BackedOff PROVE CallsInv'
  BY <1>1 DEF Accepted, Refused, Rejected, BackedOff, CallsInv, Complete, Sound, FullCalls, Pending, said, assembled
<1>2. ASSUME NEW s \in Texts, NEW r \in Thoughts \union {<<>>}, NEW n \in 0..MaxCalls,
             NEW a \in [1..n -> Args], NEW list, IsJSONList(list, n, a),
             JSONBody(s, r, list)
      PROVE  CallsInv'
  <2>1. s \in Seq(Tokens) /\ r \in Seq(Tokens)
    BY TextsTyped, EmptySeq
  <2>2. calls = <<>> /\ block' = <<>> /\ made' = list
    BY <1>2 DEF JSONBody, Stages
  <2>3. PICK ch : ch = [ContentChunk(s, r) EXCEPT !.calls = JSONFragments(list)]
    OBVIOUS
  <2>4. ch.calls = JSONFragments(list)
    <3>1. ContentChunk(s, r) \in ChunkType
      BY <2>1, ContentChunkType
    <3> QED
      BY <2>3, <3>1 DEF ChunkType
  <2>5. Absorb(ch)
    BY <1>2, <2>3 DEF JSONBody, JSONFragments
  <2>6. calls' = AddFragments(<<>>, JSONFragments(list))
    BY <2>2, <2>4, <2>5 DEF Absorb
  <2>7. CallsAre(calls', list) /\ (list = <<>> => calls' = <<>>)
    BY <1>2, <2>6, JSONCallsAdded
  <2>8. FullCalls' = calls'
    BY <2>2 DEF FullCalls, Pending
  <2> QED
    BY <2>2, <2>7, <2>8 DEF CallsInv, Complete
<1> QED
  BY <1>1, <1>2 DEF Request, IsJSONList

\* The calls are the server's at first.
LEMMA InitCalls ==
  ASSUME Init
  PROVE  CallsInv
<1>1. calls = <<>> /\ made = <<>> /\ block = <<>>
  BY DEF Init
<1>2. FullCalls = <<>>
  BY <1>1 DEF FullCalls, Pending
<1> QED
  BY <1>1, <1>2, NoCallsAre DEF CallsInv, Complete

\* At the end the calls found are those made.
LEMMA FinishCalls ==
  ASSUME Typed, Stages, CallsInv, Finish
  PROVE  CallsFound'
<1>1. /\ reasoning \in Seq(Tokens) /\ made \in Seq(CallType)
      /\ phase = "ended" /\ ~broken /\ block = <<>>
  BY DEF Typed, TypeOK, Finish, Stages
<1>2. /\ made' = made /\ reasoning' = reasoning /\ server' = server
      /\ calls' = IF calls = <<>> THEN InlineCalls(TrimSpace(reasoning)) ELSE calls
  BY DEF Finish, said, NeedsInline
<1>3. Complete(calls, made)
  <2>1. Sound /\ FullCalls = calls
    BY <1>1 DEF Sound, FullCalls, Pending
  <2> QED
    BY <1>1, <2>1 DEF CallsInv
<1>4. ASSUME server # "responses", made # <<>> PROVE orderCalls(calls') = made
  <2>1. calls # <<>> /\ orderCalls(calls) = made
    BY <1>1, <1>3, <1>4, CallsOrdered DEF Complete
  <2> QED
    BY <1>2, <2>1
<1>5. ASSUME made = <<>>
      PROVE  orderCalls(calls') = Inlined(Only(reasoning, {"T", "V"}))
  <2>1. calls' = InlineCalls(TrimSpace(reasoning))
    BY <1>2, <1>3, <1>5 DEF Complete
  <2>2. PICK V : V = {"T", "V", "U"}
    OBVIOUS
  <2>3. Only(TrimSpace(reasoning), V) = Only(reasoning, V)
    <3>1. "_" \notin V
      BY <2>2
    <3> QED
      BY <1>1, <3>1, OnlyTrim
  <2>4. InlineCalls(TrimSpace(reasoning)) = InlineCalls(reasoning)
    BY <2>2, <2>3 DEF InlineCalls
  <2>5. orderCalls(InlineCalls(reasoning)) = Inlined(Only(reasoning, {"T", "V"}))
    BY <1>1, InlineOrdered
  <2> QED
    BY <2>1, <2>4, <2>5
<1> QED
  BY <1>2, <1>4, <1>5 DEF CallsFound, Inlined, Inline

\* Every step keeps both.
LEMMA NextCalls ==
  ASSUME Typed, Stages, CallsInv, CallsFound, [Next]_vars
  PROVE  CallsInv' /\ CallsFound'
<1>1. CASE Request
  <2>1. phase' # "done"
    BY <1>1 DEF Request, Accepted, Refused, Rejected, BackedOff, JSONBody
  <2> QED
    BY <1>1, <2>1, RequestCalls DEF CallsFound
<1>2. CASE Data
  <2>1. PICK p : DataLine(p)
    BY <1>2 DEF Data, DataContent, DataWhole, DataReasoning, DataNewCall, DataArguments,
                DataWholeCall, DataImages, DataOther, DataEnd
  <2>2. phase' # "done"
    BY <2>1 DEF DataLine
  <2> QED
    BY <1>2, <2>2, DataCalls DEF CallsFound
<1>3. CASE BlankLine \/ BodyEnds
  <2>1. phase # "done" /\ phase' # "done" /\ UNCHANGED <<server, said>>
    BY <1>3 DEF BlankLine, BodyEnds
  <2>2. PICK cut : Flush(cut)
    BY <1>3 DEF BlankLine, BodyEnds
  <2> QED
    BY <2>1, <2>2, FlushCalls DEF CallsFound
<1>4. CASE BreakOff
  <2>1. broken' /\ phase' = "failed"
    BY <1>4 DEF BreakOff
  <2> QED
    BY <2>1 DEF CallsInv, CallsFound, Sound
<1>5. CASE Finish
  <2>1. phase' = "done"
    BY <1>5 DEF Finish
  <2> QED
    BY <1>5, <2>1, FinishCalls DEF CallsInv
<1>6. CASE UNCHANGED vars
  BY <1>6 DEF vars, said, assembled, CallsInv, CallsFound, Complete, Sound, FullCalls, Pending
<1> QED
  BY <1>1, <1>2, <1>3, <1>4, <1>5, <1>6 DEF Next

(* A chat server's calls reach the tool loop with their IDs and all of     *)
(* their arguments, however their fragments were mixed, and without such   *)
(* calls those written into the thoughts do, in their order (processEvent, *)
(* extractInlineToolCalls and orderCalls).                                 *)
THEOREM CallsAreFound == Spec => []CallsFound
<1>1. Init => Typed /\ Stages /\ CallsInv /\ CallsFound
  <2>1. Init => CallsFound
    BY DEF Init, CallsFound
  <2> QED
    BY <2>1, InitType, StagesInit, InitCalls
<1>2. Typed /\ Stages /\ CallsInv /\ CallsFound /\ [Next]_vars
        => (Typed /\ Stages /\ CallsInv /\ CallsFound)'
  BY NextType, StagesNext, NextCalls
<1> QED
  BY <1>1, <1>2, PTL DEF Spec

-----------------------------------------------------------------------------
(***************************************************************************)
(* What was shown piece by piece.                                          *)
(***************************************************************************)

\* The text shown so far is the text without the blanks withheld before its
\* first word.
Withheld(shown, full) ==
  \E b \in Seq(Tokens) : IsBlank(b) /\ full = b \o shown /\ (IsBlank(shown) => shown = <<>>)

\* Two texts in a row are blank if both are.
LEMMA BlankConcat ==
  ASSUME NEW T, NEW s \in Seq(T), NEW t \in Seq(T)
  PROVE  IsBlank(s \o t) <=> IsBlank(s) /\ IsBlank(t)
<1>1. PICK u, m, n : u = s \o t /\ m = Len(s) /\ n = Len(t)
  OBVIOUS
<1>2. /\ m \in Nat /\ n \in Nat /\ DOMAIN s = 1..m /\ DOMAIN t = 1..n
      /\ DOMAIN u = 1..(m + n)
      /\ \A i \in 1..(m + n) : u[i] = IF i <= m THEN s[i] ELSE t[i - m]
  BY <1>1, LenProperties, ConcatProperties
<1>3. ASSUME IsBlank(u) PROVE IsBlank(s) /\ IsBlank(t)
  <2>1. ASSUME NEW i \in 1..m PROVE s[i] = "_"
    <3>1. i \in 1..(m + n) /\ i <= m
      BY <1>2
    <3> QED
      BY <1>2, <1>3, <3>1 DEF IsBlank
  <2>2. ASSUME NEW i \in 1..n PROVE t[i] = "_"
    <3>1. m + i \in 1..(m + n) /\ ~(m + i <= m) /\ (m + i) - m = i
      BY <1>2
    <3> QED
      BY <1>2, <1>3, <3>1 DEF IsBlank
  <2> QED
    BY <1>2, <2>1, <2>2 DEF IsBlank
<1>4. ASSUME IsBlank(s), IsBlank(t) PROVE IsBlank(u)
  <2>1. ASSUME NEW i \in 1..(m + n) PROVE u[i] = "_"
    <3>1. CASE i <= m
      <4>1. i \in 1..m /\ u[i] = s[i]
        BY <1>2, <3>1
      <4>2. \A j \in 1..m : s[j] = "_"
        BY <1>2, <1>4 DEF IsBlank
      <4> QED
        BY <4>1, <4>2
    <3>2. CASE ~(i <= m)
      <4>1. i - m \in 1..n
        BY <1>2, <3>2
      <4>2. u[i] = t[i - m]
        BY <1>2, <3>2
      <4>3. \A j \in 1..n : t[j] = "_"
        BY <1>2, <1>4 DEF IsBlank
      <4> QED
        BY <4>1, <4>2, <4>3
    <3> QED
      BY <3>1, <3>2
  <2> QED
    BY <1>2, <2>1 DEF IsBlank
<1> QED
  BY <1>1, <1>3, <1>4

(* Blanks before a text are trimmed.                                       *)
LEMMA TrimAfterBlank ==
  ASSUME NEW T, NEW b \in Seq(T), NEW e \in Seq(T), IsBlank(b)
  PROVE  TrimSpace(b \o e) = TrimSpace(e)
<1>1. PICK u, m, n : u = b \o e /\ m = Len(b) /\ n = Len(e)
  OBVIOUS
<1>2. /\ m \in Nat /\ n \in Nat /\ DOMAIN b = 1..m /\ DOMAIN e = 1..n /\ DOMAIN u = 1..(m + n)
      /\ \A i \in 1..(m + n) : u[i] = IF i <= m THEN b[i] ELSE e[i - m]
  BY <1>1, LenProperties, ConcatProperties
<1>3. m \in Nat /\ n \in Nat
  BY <1>2
<1> DEFINE R == {i \in DOMAIN u : u[i] # "_"}
           S == {i \in DOMAIN e : e[i] # "_"}
<1>4. /\ \A i : i \in R <=> i \in 1..(m + n) /\ u[i] # "_"
      /\ \A i : i \in S <=> i \in 1..n /\ e[i] # "_"
  BY <1>2
<1>5. TrimSpace(u) = IF R = {} THEN <<>> ELSE SubSeq(u, Min(R), Max(R))
  BY DEF TrimSpace
<1>6. TrimSpace(e) = IF S = {} THEN <<>> ELSE SubSeq(e, Min(S), Max(S))
  BY DEF TrimSpace
<1> HIDE DEF R, S
<1>7. ASSUME NEW i, i \in R PROVE i - m \in S
  <2>1. i \in 1..(m + n)
    BY <1>4, <1>7
  <2>2. u[i] # "_"
    BY <1>4, <1>7
  <2>3. ~(i <= m)
    <3> SUFFICES ASSUME i <= m PROVE FALSE
      OBVIOUS
    <3>1. i \in 1..m
      BY <1>3, <2>1
    <3>2. u[i] = b[i] /\ b[i] = "_"
      BY <1>2, <2>1, <3>1 DEF IsBlank
    <3> QED
      BY <2>2, <3>2
  <2>4. i - m \in 1..n
    BY <1>3, <2>1, <2>3
  <2>5. u[i] = e[i - m]
    BY <1>2, <2>1, <2>3
  <2> QED
    BY <1>4, <2>1, <2>2, <2>4, <2>5
<1>8. ASSUME NEW i, i \in S PROVE m + i \in R
  <2>1. i \in 1..n
    BY <1>4, <1>8
  <2>2. e[i] # "_"
    BY <1>4, <1>8
  <2>3. m + i \in 1..(m + n)
    BY <1>3, <2>1
  <2>4. ~(m + i <= m) /\ (m + i) - m = i
    BY <1>3, <2>1
  <2> QED
    BY <1>4, <1>2, <2>1, <2>2, <2>3, <2>4
<1>9. CASE S = {}
  BY <1>1, <1>7, <1>5, <1>6, <1>9
<1>10. CASE S # {}
  <2>1. R # {} /\ R \in SUBSET Nat /\ S \in SUBSET Nat /\ R \in SUBSET (0..(m + n)) /\ S \in SUBSET (0..n)
    <3>1. R # {}
      BY <1>8, <1>10
    <3>2. \A i \in 1..(m + n) : i \in Nat /\ i \in 0..(m + n)
      BY <1>2
    <3>3. \A i \in 1..n : i \in Nat /\ i \in 0..n
      BY <1>2
    <3> QED
      BY <1>4, <3>1, <3>2, <3>3
  <2>2. m + n \in Nat
    BY <1>2
  <2>3. PICK lo, hi : lo = Min(S) /\ hi = Max(S)
    OBVIOUS
  <2>4. lo \in S /\ hi \in S /\ \A y \in S : lo <= y /\ hi >= y
    BY <1>2, <1>10, <2>1, <2>3, MinIsLeast, MaxIsGreatest
  <2>5. PICK lu, hu : lu = Min(R) /\ hu = Max(R)
    OBVIOUS
  <2>6. lu \in R /\ hu \in R /\ \A y \in R : lu <= y /\ hu >= y
    BY <2>1, <2>2, <2>5, MinIsLeast, MaxIsGreatest
  <2>7. lu = m + lo /\ hu = m + hi
    <3>1. lu <= m + lo /\ hu >= m + hi
      BY <1>8, <2>4, <2>6
    <3>2. lo <= lu - m /\ hi >= hu - m
      BY <1>7, <2>4, <2>6
    <3>3. lo \in Nat /\ hi \in Nat /\ lu \in Nat /\ hu \in Nat
      BY <2>1, <2>4, <2>6
    <3> QED
      BY <1>2, <3>1, <3>2, <3>3
  <2>8. lo \in 1..n /\ hi \in 1..n
    BY <1>4, <2>4
  <2>9. lu \in m+1..m+n /\ hu \in m+1..m+n /\ lu - m = lo /\ hu - m = hi
    BY <1>2, <2>7, <2>8
  <2>10. SubSeq(u, lu, hu) = SubSeq(e, lo, hi)
    BY <1>1, <2>9, SubSeqOfConcat2
  <2> QED
    BY <1>1, <1>5, <1>6, <1>10, <2>1, <2>3, <2>5, <2>10
<1> QED
  BY <1>9, <1>10

\* What was shown, trimmed, is the text, trimmed.
LEMMA ShownTrims ==
  ASSUME NEW shown \in Seq(Tokens), NEW full, Withheld(shown, full)
  PROVE  TrimSpace(shown) = TrimSpace(full)
<1>1. PICK b \in Seq(Tokens) : IsBlank(b) /\ full = b \o shown
  BY DEF Withheld
<1> QED
  BY <1>1, TrimAfterBlank

\* A chunk's text is withheld, or shown with nothing lost but leading blanks.
LEMMA AbsorbShows ==
  ASSUME text \in Seq(Tokens), emitted \in Seq(Tokens), NEW ch \in ChunkType, Absorb(ch),
         IncludePartialMessages, Withheld(emitted, text)
  PROVE  Withheld(emitted', text')
<1>1. PICK c : c = normalizeAssistantContent(text, ch.content)
  OBVIOUS
<1>2. c \in Seq(Tokens)
  BY <1>1, NormalizeType DEF ChunkType
<1>3. /\ text' = text \o c
      /\ emitted' = IF IncludePartialMessages /\ c # <<>> /\ Shows(emitted, c) THEN emitted \o c ELSE emitted
  BY <1>1 DEF Absorb
<1>4. PICK b \in Seq(Tokens) : IsBlank(b) /\ text = b \o emitted /\ (IsBlank(emitted) => emitted = <<>>)
  BY DEF Withheld
<1>5. CASE c = <<>>
  <2>1. text' = text /\ emitted' = emitted
    BY <1>3, <1>5, ConcatEmptySeq
  <2> QED
    BY <2>1
<1>6. CASE Shows(emitted, c) /\ c # <<>>
  <2>1. emitted' = emitted \o c /\ ~IsBlank(emitted \o c)
    BY <1>2, <1>3, <1>6, BlankConcat DEF Shows
  <2>2. text' = b \o (emitted \o c)
    BY <1>2, <1>3, <1>4, ConcatAssociative
  <2> QED
    BY <1>4, <2>1, <2>2 DEF Withheld
<1>7. CASE ~Shows(emitted, c)
  <2>1. emitted = <<>> /\ IsBlank(c)
    BY <1>4, <1>7 DEF Shows
  <2>2. emitted' = <<>>
    BY <1>3, <1>7, <2>1
  <2>3. text' = (b \o c) \o <<>> /\ b \o c \in Seq(Tokens) /\ IsBlank(b \o c)
    <3>1. text = b
      BY <1>4, <2>1, ConcatEmptySeq
    <3>2. b \o c \in Seq(Tokens)
      BY <1>2, ConcatProperties
    <3> QED
      BY <1>2, <1>3, <1>4, <2>1, <3>1, <3>2, ConcatEmptySeq, BlankConcat
  <2> QED
    BY <2>2, <2>3 DEF Withheld
<1> QED
  BY <1>5, <1>6, <1>7

-----------------------------------------------------------------------------
(***************************************************************************)
(* Images.                                                                 *)
(***************************************************************************)

\* A new last member is had once, with those before.
LEMMA AppendSpread ==
  ASSUME NEW T, NEW s \in Seq(T), NEW x \in T
  PROVE  /\ Range(Append(s, x)) = Range(s) \union {x}
         /\ IsInjective(Append(s, x)) <=> IsInjective(s) /\ x \notin Range(s)
<1>1. PICK u, n : u = Append(s, x) /\ n = Len(s)
  OBVIOUS
<1>2. n \in Nat /\ DOMAIN s = 1..n /\ DOMAIN u = 1..(n + 1) /\ u[n + 1] = x /\ \A i \in 1..n : u[i] = s[i]
  BY <1>1, LenProperties, AppendProperties
<1>3. \A i : i \in 1..(n + 1) <=> i \in 1..n \/ i = n + 1
  BY <1>2
<1>4. n + 1 \notin 1..n
  BY <1>2
<1>5. Range(u) = Range(s) \union {x}
  BY <1>2, <1>3 DEF Range
<1>6. ASSUME IsInjective(u) PROVE IsInjective(s) /\ x \notin Range(s)
  <2>1. IsInjective(s)
    BY <1>2, <1>3, <1>6 DEF IsInjective
  <2>2. ASSUME NEW i \in 1..n, s[i] = x PROVE FALSE
    BY <1>2, <1>3, <1>4, <1>6, <2>2 DEF IsInjective
  <2> QED
    BY <1>2, <2>1, <2>2 DEF Range
<1>7. ASSUME IsInjective(s), x \notin Range(s) PROVE IsInjective(u)
  <2>1. \A i \in 1..n : s[i] # x
    BY <1>2, <1>7 DEF Range
  <2> SUFFICES ASSUME NEW a \in 1..(n + 1), NEW b \in 1..(n + 1), u[a] = u[b] PROVE a = b
    BY <1>2 DEF IsInjective
  <2>2. CASE a \in 1..n /\ b \in 1..n
    BY <1>2, <1>7, <2>2 DEF IsInjective
  <2>3. CASE a = n + 1 \/ b = n + 1
    BY <1>2, <1>3, <2>1, <2>3
  <2> QED
    BY <1>3, <2>2, <2>3
<1> QED
  BY <1>1, <1>5, <1>6, <1>7

(* What is picked from a sequence without repetitions is what it has at    *)
(* those places, each once.                                                *)
LEMMA PickSpread ==
  ASSUME NEW T, NEW P
  PROVE  \A s \in Seq(T) : IsInjective(s) =>
           /\ IsInjective(Pick(s, P))
           /\ \A x : x \in Range(Pick(s, P)) <=> \E i \in 1..Len(s) : i \in P /\ s[i] = x
<1> DEFINE Fine(u) == IsInjective(u) =>
             /\ IsInjective(Pick(u, P))
             /\ \A x : x \in Range(Pick(u, P)) <=> \E i \in 1..Len(u) : i \in P /\ u[i] = x
           X == {u \in Seq(T) : Fine(u)}
<1>1. <<>> \in X
  <2>1. Pick(<<>>, P) = <<>> /\ Len(<<>>) = 0 /\ DOMAIN <<>> = {} /\ <<>> \in Seq(T)
    BY PickEmpty, EmptySeq
  <2>2. IsInjective(<<>>) /\ Range(<<>>) = {} /\ 1..0 = {}
    BY <2>1 DEF IsInjective, Range
  <2> QED
    BY <2>1, <2>2
<1>2. ASSUME NEW u \in X, NEW x \in T PROVE Append(u, x) \in X
  <2>1. u \in Seq(T) /\ Fine(u)
    OBVIOUS
  <2> HIDE DEF X
  <2>2. PICK v, n : v = Append(u, x) /\ n = Len(u)
    OBVIOUS
  <2>3. /\ v \in Seq(T) /\ n \in Nat /\ Len(v) = n + 1 /\ v[n + 1] = x
        /\ \A i \in 1..n : v[i] = u[i]
    BY <2>1, <2>2, LenProperties, AppendProperties
  <2>4. \A i : i \in 1..(n + 1) <=> i \in 1..n \/ i = n + 1
    BY <2>3
  <2>5. PICK q : q = Pick(u, P)
    OBVIOUS
  <2>6. q \in Seq(T) /\ Pick(v, P) = IF n + 1 \in P THEN Append(q, x) ELSE q
    BY <2>1, <2>2, <2>5, PickType, PickAppend
  <2> SUFFICES ASSUME IsInjective(v)
               PROVE  /\ IsInjective(Pick(v, P))
                      /\ \A y : y \in Range(Pick(v, P)) <=> \E i \in 1..Len(v) : i \in P /\ v[i] = y
    BY <2>2, <2>3 DEF X
  <2>7. IsInjective(u) /\ x \notin Range(u)
    BY <2>1, <2>2, AppendSpread
  <2>8. IsInjective(q) /\ \A y : y \in Range(q) <=> \E i \in 1..n : i \in P /\ u[i] = y
    BY <2>1, <2>2, <2>5, <2>7
  <2> HIDE DEF Fine
  <2>9. x \notin Range(q)
    <3>1. DOMAIN u = 1..n
      BY <2>1, <2>2, LenProperties
    <3>2. \A i \in 1..n : u[i] # x
      BY <2>7, <3>1 DEF Range
    <3> QED
      BY <2>8, <3>2
  <2>10. CASE n + 1 \in P
    <3>1. IsInjective(Pick(v, P)) /\ Range(Pick(v, P)) = Range(q) \union {x}
      BY <2>6, <2>8, <2>9, <2>10, AppendSpread
    <3> QED
      BY <2>3, <2>4, <2>8, <2>10, <3>1
  <2>11. CASE n + 1 \notin P
    BY <2>3, <2>4, <2>6, <2>8, <2>11
  <2> QED
    BY <2>10, <2>11
<1>3. X = Seq(T)
  <2>1. X \in SUBSET Seq(T)
    OBVIOUS
  <2> HIDE DEF X
  <2> QED
    BY <1>1, <1>2, <2>1, SeqInduction
<1> QED
  BY <1>3

\* Two sequences without repetitions and apart, in a row, have none.
LEMMA ConcatSpread ==
  ASSUME NEW T, NEW s \in Seq(T), NEW t \in Seq(T), IsInjective(s), IsInjective(t),
         Range(s) \intersect Range(t) = {}
  PROVE  IsInjective(s \o t) /\ Range(s \o t) = Range(s) \union Range(t)
<1>1. PICK u, m, n : u = s \o t /\ m = Len(s) /\ n = Len(t)
  OBVIOUS
<1>2. m \in Nat /\ n \in Nat /\ DOMAIN s = 1..m /\ DOMAIN t = 1..n /\ DOMAIN u = 1..(m + n)
  BY <1>1, LenProperties, ConcatProperties
<1>3. \A i \in 1..(m + n) : u[i] = IF i <= m THEN s[i] ELSE t[i - m]
  BY <1>1, ConcatProperties
<1>4. \A i \in 1..m : i \in 1..(m + n) /\ u[i] = s[i]
  BY <1>2, <1>3
<1>5. \A i \in 1..n : m + i \in 1..(m + n) /\ u[m + i] = t[i]
  <2> TAKE i \in 1..n
  <2>1. m + i \in 1..(m + n) /\ ~(m + i <= m) /\ (m + i) - m = i
    BY <1>2
  <2> QED
    BY <1>3, <2>1
<1>6. \A i \in 1..(m + n) : i \in 1..m \/ \E j \in 1..n : i = m + j
  <2> TAKE i \in 1..(m + n)
  <2>1. i \in 1..m \/ (i - m \in 1..n /\ i = m + (i - m))
    BY <1>2
  <2> QED
    BY <2>1
<1>7. Range(u) = Range(s) \union Range(t)
  <2>1. ASSUME NEW i \in 1..(m + n) PROVE u[i] \in Range(s) \union Range(t)
    <3>1. CASE i \in 1..m
      BY <1>2, <1>4, <3>1 DEF Range
    <3>2. ASSUME NEW j \in 1..n, i = m + j PROVE u[i] \in Range(t)
      BY <1>2, <1>5, <3>2 DEF Range
    <3> QED
      BY <1>6, <3>1, <3>2
  <2>2. ASSUME NEW i \in 1..m PROVE s[i] \in Range(u)
    BY <1>2, <1>4 DEF Range
  <2>3. ASSUME NEW i \in 1..n PROVE t[i] \in Range(u)
    BY <1>2, <1>5 DEF Range
  <2>4. Range(u) \subseteq Range(s) \union Range(t)
    <3>1. \A x \in Range(u) : \E i \in 1..(m + n) : x = u[i]
      BY <1>2 DEF Range
    <3> QED
      BY <2>1, <3>1
  <2>5. Range(s) \subseteq Range(u) /\ Range(t) \subseteq Range(u)
    <3>1. \A x \in Range(s) : \E i \in 1..m : x = s[i]
      BY <1>2 DEF Range
    <3>2. \A x \in Range(t) : \E i \in 1..n : x = t[i]
      BY <1>2 DEF Range
    <3> QED
      BY <2>2, <2>3, <3>1, <3>2
  <2> QED
    BY <2>4, <2>5
<1>8. \A a \in 1..m, b \in 1..n : s[a] # t[b]
  BY <1>2 DEF Range
<1>9. ASSUME NEW a \in 1..(m + n), NEW b \in 1..(m + n), u[a] = u[b] PROVE a = b
  <2>1. CASE a \in 1..m /\ b \in 1..m
    BY <1>2, <1>4, <1>9, <2>1 DEF IsInjective
  <2>2. ASSUME NEW j \in 1..n, NEW k \in 1..n, a = m + j, b = m + k PROVE a = b
    BY <1>2, <1>5, <1>9, <2>2 DEF IsInjective
  <2>3. ASSUME NEW j \in 1..m, NEW k \in 1..n, u[j] = u[m + k] PROVE FALSE
    BY <1>4, <1>5, <1>8, <2>3
  <2> QED
    BY <1>6, <1>9, <2>1, <2>2, <2>3
<1> QED
  BY <1>1, <1>2, <1>7, <1>9 DEF IsInjective

(* New images are those not had yet, each once, whatever their order.      *)
LEMMA NewImagesSpread ==
  ASSUME NEW S \in SUBSET Urls, NEW order \in SetToSeqs(S), NEW have \in Seq(Urls)
  PROVE  IsInjective(NewImages(have, order)) /\ Range(NewImages(have, order)) = S \ Range(have)
<1>1. PICK n : n = Cardinality(S)
  OBVIOUS
<1>2. IsFiniteSet(S) /\ n \in Nat
  BY <1>1, ModelStreamAssumption, FS_Subset, FS_CardinalityType
<1>3. order \in [1..n -> S] /\ \A i, j \in 1..n : i # j => order[i] # order[j]
  BY <1>1 DEF SetToSeqs
<1>4. IsInjective(order) /\ order \in Injection(1..n, S)
  BY <1>3 DEF IsInjective, Injection
<1>5. Cardinality(1..n) = n
  <2>1. 0 \in Int /\ 1 \in Int /\ n \in Int
    BY <1>2
  <2> QED
    BY <1>2, <2>1, FS_Interval
<1>6. order \in Surjection(1..n, S)
  BY <1>1, <1>2, <1>4, <1>5, FS_Injection
<1>7. \A x \in S : \E i \in 1..n : order[i] = x
  BY <1>6 DEF Surjection
<1>8. order \in Seq(S) /\ Len(order) = n /\ DOMAIN order = 1..n
  <2>1. order = [i \in 1..n |-> order[i]] /\ \A i \in 1..n : order[i] \in S
    BY <1>3
  <2>2. [i \in 1..n |-> order[i]] \in Seq(S)
    BY <1>2, <2>1, IsASeq
  <2>3. order \in Seq(S)
    BY <2>1, <2>2
  <2>4. PICK k : k = Len(order)
    OBVIOUS
  <2>5. k \in Nat /\ 1..k = 1..n /\ DOMAIN order = 1..n
    BY <1>3, <2>3, <2>4, LenProperties
  <2>6. k = n
    BY <1>2, <2>5
  <2> QED
    BY <2>3, <2>4, <2>5, <2>6
<1>9. PICK P : P = {i \in DOMAIN order : ~Contains(have, order[i])}
  OBVIOUS
<1>10. \A x : Contains(have, x) <=> x \in Range(have)
  <2>1. DOMAIN have = 1..Len(have)
    BY LenProperties
  <2> QED
    BY <2>1 DEF Contains, Range
<1>11. \A i \in 1..n : i \in P <=> order[i] \notin Range(have)
  BY <1>8, <1>9, <1>10
<1>12. NewImages(have, order) = Pick(order, P)
  BY <1>9 DEF NewImages
<1>13. /\ IsInjective(Pick(order, P))
       /\ \A x : x \in Range(Pick(order, P)) <=> \E i \in 1..n : i \in P /\ order[i] = x
  BY <1>4, <1>8, PickSpread
<1>14. \A x : x \in Range(Pick(order, P)) <=> x \in S \ Range(have)
  BY <1>3, <1>7, <1>11, <1>13
<1> QED
  BY <1>12, <1>13, <1>14

\* Absorbing a chunk adds its images, each once.
LEMMA AbsorbSpread ==
  ASSUME images \in Seq(Urls), IsInjective(images), NEW ch \in ChunkType, Absorb(ch)
  PROVE  IsInjective(images') /\ Range(images') = Range(images) \union ch.images
<1>1. ch.images \in SUBSET Urls
  BY DEF ChunkType
<1>2. PICK order \in SetToSeqs(ch.images) : images' = images \o NewImages(images, order)
  BY DEF Absorb
<1>3. PICK new : new = NewImages(images, order)
  OBVIOUS
<1>4. new \in Seq(Urls) /\ IsInjective(new) /\ Range(new) = ch.images \ Range(images)
  BY <1>1, <1>2, <1>3, NewImagesType, NewImagesSpread
<1>5. IsInjective(images \o new) /\ Range(images \o new) = Range(images) \union Range(new)
  <2>1. Range(images) \intersect Range(new) = {}
    BY <1>4
  <2> QED
    BY <1>4, <2>1, ConcatSpread
<1> QED
  BY <1>2, <1>3, <1>4, <1>5

-----------------------------------------------------------------------------
(***************************************************************************)
(* What becomes of the pieces of an answer.                                *)
(***************************************************************************)

\* The pending calls are a function of finitely many indices.
Bounded(c) == c = [i \in DOMAIN c |-> c[i]] /\ \E n \in Nat : DOMAIN c \subseteq 0..n

\* A fragment added leaves the calls finitely many.
LEMMA FragmentBounded ==
  ASSUME NEW c, Bounded(c), NEW f \in FragmentType
  PROVE  Bounded(AddFragment(c, f))
<1>1. PICK n \in Nat : DOMAIN c \subseteq 0..n
  BY DEF Bounded
<1>2. PICK k : k = f.index
  OBVIOUS
<1>3. k \in Nat
  BY <1>2 DEF FragmentType
<1>4. PICK new : AddFragment(c, f) = [i \in DOMAIN c \union {k} |-> IF i = k THEN new ELSE c[i]]
  BY <1>2 DEF AddFragment
<1>5. PICK d : d = AddFragment(c, f)
  OBVIOUS
<1>6. DOMAIN d = DOMAIN c \union {k} /\ d = [i \in DOMAIN d |-> d[i]]
  BY <1>4, <1>5
<1>7. n + k \in Nat /\ 0..n \subseteq 0..(n + k) /\ k \in 0..(n + k)
  BY <1>3
<1> QED
  BY <1>1, <1>5, <1>6, <1>7 DEF Bounded

\* So do all the fragments of a chunk.
LEMMA FragmentsBounded ==
  ASSUME NEW c, Bounded(c), NEW list \in Seq(FragmentType)
  PROVE  Bounded(AddFragments(c, list))
<1>1. Len(list) \in Nat /\ \A k \in 1..Len(list) : list[k] \in FragmentType
  BY LenProperties
<1>2. PICK f : /\ f[0] = c /\ f[Len(list)] = AddFragments(c, list)
               /\ \A k \in 1..Len(list) : f[k] = AddFragment(f[k-1], list[k])
  BY <1>1, AddFragmentsSteps
<1> DEFINE S == {k \in Nat : k <= Len(list) => Bounded(f[k])}
<1>3. 0 \in S
  BY <1>2
<1>4. ASSUME NEW k \in S PROVE k + 1 \in S
  <2> SUFFICES ASSUME k + 1 <= Len(list) PROVE Bounded(f[k+1])
    OBVIOUS
  <2>1. k + 1 \in 1..Len(list) /\ (k + 1) - 1 = k /\ k <= Len(list)
    BY <1>1
  <2>2. Bounded(f[k])
    BY <2>1
  <2>3. f[k+1] = AddFragment(f[k], list[k+1])
    BY <1>2, <2>1
  <2> QED
    BY <1>1, <2>1, <2>2, <2>3, FragmentBounded
<1> HIDE DEF S
<1>5. S = Nat
  <2>1. S \in SUBSET Nat
    BY DEF S
  <2> QED
    BY <1>3, <1>4, <2>1, Induction
<1> QED
  BY <1>1, <1>2, <1>5 DEF S

\* Calls found in the text are finitely many.
LEMMA InlineBounded ==
  ASSUME NEW r \in Seq(Tokens)
  PROVE  Bounded(InlineCalls(r))
<1>1. PICK blocks, good : /\ blocks = Only(r, {"T", "V", "U"})
                          /\ good = {i \in DOMAIN blocks : blocks[i] # "U"}
  OBVIOUS
<1>2. blocks \in Seq(Tokens)
  BY <1>1, OnlyType
<1>3. PICK n : n = Len(blocks)
  OBVIOUS
<1>4. n \in Nat /\ good \subseteq 1..n
  BY <1>1, <1>2, <1>3, LenProperties
<1>5. PICK c : c = InlineCalls(r)
  OBVIOUS
<1>6. c = [i \in {k - 1 : k \in good} |-> [id |-> 0, args |-> <<blocks[i+1]>>]]
  BY <1>1, <1>5 DEF InlineCalls
<1>7. DOMAIN c = {k - 1 : k \in good} /\ c = [i \in DOMAIN c |-> c[i]]
  BY <1>6
<1>8. \A k \in 1..n : k - 1 \in 0..n
  BY <1>4
<1>9. DOMAIN c \subseteq 0..n
  BY <1>4, <1>7, <1>8
<1> QED
  BY <1>4, <1>5, <1>7, <1>9 DEF Bounded

\* The images of what waits to be flushed.
Arriving == IF block = <<>> THEN {} ELSE block[1].chunk.images

KeptInv ==
  /\ Bounded(calls)
  /\ IncludePartialMessages => Withheld(emitted, text)
  /\ IsInjective(images)
  /\ Sound => Range(images) \union Arriving = urls
  /\ \A i \in DOMAIN block : block[i].kind # "chunk" => block[i].chunk.images = {}

\* What is kept is what was sent at first.
LEMMA InitKept ==
  ASSUME Init
  PROVE  KeptInv
<1>1. /\ text = <<>> /\ emitted = <<>> /\ calls = <<>> /\ images = <<>> /\ block = <<>> /\ urls = {}
  BY DEF Init
<1>2. DOMAIN <<>> = {} /\ <<>> = [i \in {} |-> <<>>[i]] /\ <<>> \in Seq(Tokens)
  BY EmptySeq
<1>3. Bounded(<<>>)
  BY <1>2 DEF Bounded
<1>4. IsBlank(<<>>) /\ IsInjective(<<>>) /\ Range(<<>>) = {}
  BY <1>2 DEF IsBlank, IsInjective, Range
<1>5. Withheld(<<>>, <<>>)
  <2>1. <<>> = <<>> \o <<>>
    BY <1>2, ConcatEmptySeq
  <2> QED
    BY <1>2, <1>4, <2>1 DEF Withheld
<1> QED
  BY <1>1, <1>2, <1>3, <1>4, <1>5 DEF KeptInv, Arriving

(* A data line brings the images the server adds.                          *)
LEMMA LineKept ==
  ASSUME Typed, KeptInv, NEW p \in PayloadType, DataLine(p),
         p.kind # "chunk" => p.chunk.images = {}, urls' = urls \union p.chunk.images
  PROVE  KeptInv'
<1>1. block \in Seq(PayloadType) /\ block' = Append(block, p)
  BY DEF Typed, TypeOK, PayloadType, DataLine
<1>2. text' = text /\ emitted' = emitted /\ images' = images /\ calls' = calls
  BY DEF DataLine, assembled
<1>3. ASSUME Sound' PROVE Range(images') \union Arriving' = urls'
  <2>1. Sound /\ Len(block') = 1 /\ block'[1] = p
    BY <1>3, OnlyLine
  <2>2. Len(block) = 0
    BY <1>1, <2>1, AppendProperties, LenProperties
  <2>3. block = <<>>
    BY <1>1, <2>2, EmptySeq
  <2>4. block' # <<>>
    BY <2>1, EmptyTuple
  <2>5. Range(images) = urls
    BY <2>1, <2>3 DEF KeptInv, Arriving
  <2> QED
    BY <1>2, <2>1, <2>4, <2>5 DEF Arriving
<1>4. \A i \in DOMAIN block' : block'[i].kind # "chunk" => block'[i].chunk.images = {}
  <2>1. PICK n : n = Len(block)
    OBVIOUS
  <2>2. /\ n \in Nat /\ DOMAIN block = 1..n /\ DOMAIN block' = 1..(n + 1) /\ block'[n + 1] = p
        /\ \A i \in 1..n : block'[i] = block[i]
    BY <1>1, <2>1, LenProperties, AppendProperties
  <2>3. \A i : i \in 1..(n + 1) <=> i \in 1..n \/ i = n + 1
    BY <2>2
  <2> QED
    BY <2>2, <2>3 DEF KeptInv
<1> QED
  BY <1>2, <1>3, <1>4 DEF KeptInv

\* A content brings no images.
LEMMA ContentHasNoImages ==
  ASSUME NEW s, NEW r
  PROVE  ContentChunk(s, r).images = {}
  BY DEF ContentChunk, NoChunk

\* A line of data keeps it so, its images waiting to be absorbed or flushed.
LEMMA DataKept ==
  ASSUME Typed, KeptInv, Data
  PROVE  KeptInv'
<1>1. PICK p : /\ DataLine(p) /\ (p.kind # "chunk" => p.chunk.images = {})
               /\ urls' = urls \union p.chunk.images
  <2>1. NoChunk.images = {} /\ \A r : [NoChunk EXCEPT !.reasoning = r].images = {}
    BY DEF NoChunk
  <2>2. ASSUME NEW s, DataContent(s) PROVE \E p : /\ DataLine(p) /\ (p.kind # "chunk" => p.chunk.images = {})
                                                  /\ urls' = urls \union p.chunk.images
    <3>1. PICK p, x : /\ DataLine(p) /\ p = Payload("chunk", ContentChunk(x, <<>>)) /\ urls' = urls
      BY <2>2 DEF DataContent
    <3>2. p.chunk.images = {} /\ p.kind = "chunk"
      BY <3>1, ContentHasNoImages DEF Payload
    <3> QED
      BY <3>1, <3>2
  <2>3. ASSUME DataWhole PROVE \E p : /\ DataLine(p) /\ (p.kind # "chunk" => p.chunk.images = {})
                                      /\ urls' = urls \union p.chunk.images
    <3>1. PICK p : /\ DataLine(p) /\ p = Payload("chunk", ContentChunk(sent, <<>>)) /\ urls' = urls
      BY <2>3 DEF DataWhole
    <3>2. p.chunk.images = {} /\ p.kind = "chunk"
      BY <3>1, ContentHasNoImages DEF Payload
    <3> QED
      BY <3>1, <3>2
  <2>4. ASSUME NEW r, DataReasoning(r) PROVE \E p : /\ DataLine(p) /\ (p.kind # "chunk" => p.chunk.images = {})
                                                    /\ urls' = urls \union p.chunk.images
    BY <2>4 DEF DataReasoning, Payload, NoChunk
  <2>5. ASSUME NEW list, DataLine(Payload("chunk", [NoChunk EXCEPT !.calls = list])), urls' = urls
        PROVE  \E p : /\ DataLine(p) /\ (p.kind # "chunk" => p.chunk.images = {})
                      /\ urls' = urls \union p.chunk.images
    BY <2>5 DEF Payload, NoChunk
  <2>6. ASSUME NEW a, DataNewCall(a) PROVE \E list : DataLine(Payload("chunk", [NoChunk EXCEPT !.calls = list])) /\ urls' = urls
    BY <2>6 DEF DataNewCall
  <2>7. ASSUME NEW k, DataWholeCall(k) PROVE \E list : DataLine(Payload("chunk", [NoChunk EXCEPT !.calls = list])) /\ urls' = urls
    BY <2>7 DEF DataWholeCall
  <2>8. ASSUME NEW k, NEW a, DataArguments(k, a) PROVE \E list : DataLine(Payload("chunk", [NoChunk EXCEPT !.calls = list])) /\ urls' = urls
    BY <2>8 DEF DataArguments
  <2>9. ASSUME NEW S, DataImages(S) PROVE \E p : /\ DataLine(p) /\ (p.kind # "chunk" => p.chunk.images = {})
                                                 /\ urls' = urls \union p.chunk.images
    BY <2>9 DEF DataImages, Payload, NoChunk
  <2>10. ASSUME DataOther \/ DataEnd PROVE \E p : /\ DataLine(p) /\ (p.kind # "chunk" => p.chunk.images = {})
                                                 /\ urls' = urls \union p.chunk.images
    BY <2>10 DEF DataOther, DataEnd, Payload, NoChunk
  <2> QED
    BY <2>2, <2>3, <2>4, <2>5, <2>6, <2>7, <2>8, <2>9, <2>10 DEF Data
<1>2. p \in PayloadType
  <2>1. Typed'
    BY DataType
  <2>2. block' \in Seq(PayloadType) /\ block' = Append(block, p) /\ block \in Seq(PayloadType)
    BY <1>1, <2>1 DEF Typed, TypeOK, PayloadType, DataLine
  <2> QED
    BY <2>2, LenProperties
<1> QED
  BY <1>1, <1>2, LineKept

(* What absorbing a chunk keeps.                                           *)
LEMMA AbsorbKept ==
  ASSUME Typed, KeptInv, NEW ch \in ChunkType, Absorb(ch)
  PROVE  /\ Bounded(calls') /\ (IncludePartialMessages => Withheld(emitted', text'))
         /\ IsInjective(images') /\ Range(images') = Range(images) \union ch.images
<1>1. text \in Seq(Tokens) /\ emitted \in Seq(Tokens) /\ images \in Seq(Urls)
  BY DEF Typed, TypeOK
<1>2. Bounded(calls')
  <2>1. ch.calls \in Seq(FragmentType) /\ calls' = AddFragments(calls, ch.calls)
    BY DEF ChunkType, FragmentType, Absorb
  <2>2. Bounded(calls)
    BY DEF KeptInv
  <2> QED
    BY <2>1, <2>2, FragmentsBounded
<1>3. ASSUME IncludePartialMessages PROVE Withheld(emitted', text')
  BY <1>1, <1>3, AbsorbShows DEF KeptInv
<1>4. IsInjective(images)
  BY DEF KeptInv
<1> QED
  BY <1>1, <1>2, <1>3, <1>4, AbsorbSpread

\* Flushing takes in the images that waited.
LEMMA FlushKept ==
  ASSUME Typed, KeptInv, NEW cut, Flush(cut), UNCHANGED <<server, said>>
  PROVE  KeptInv'
<1>1. block' = <<>> /\ broken' = (broken \/ cut \/ Len(block) > 1) /\ urls' = urls
  BY DEF Flush, said
<1>2. block \in Seq(PayloadType) /\ Len(block) \in Nat
  BY LenProperties DEF Typed, TypeOK, PayloadType
<1>3. ASSUME Sound' PROVE Sound
  <2>1. ~broken'
    BY <1>3 DEF Sound
  <2>2. ~broken /\ ~(Len(block) > 1)
    BY <1>1, <2>1, Zenon
  <2>3. Len(block) <= 1
    BY <1>2, <2>2
  <2> QED
    BY <2>2, <2>3 DEF Sound
<1>4. /\ Arriving' = {} /\ DOMAIN block' = {}
  BY <1>1, EmptyTuple DEF Arriving
<1>5. CASE Pending
  <2>1. PICK ch : ch = block[1].chunk
    OBVIOUS
  <2>2. Absorb(ch) /\ Len(block) = 1
    BY <1>5, <2>1 DEF Flush, Pending, Decodes
  <2>3. ch \in ChunkType
    <3>1. 1 \in 1..Len(block)
      BY <2>2
    <3>2. block[1] \in PayloadType
      BY <1>2, <3>1, ElementOfSeq
    <3> QED
      BY <2>1, <3>2 DEF PayloadType
  <2>4. /\ Bounded(calls') /\ (IncludePartialMessages => Withheld(emitted', text'))
        /\ IsInjective(images') /\ Range(images') = Range(images) \union ch.images
    BY <2>2, <2>3, AbsorbKept
  <2>5. Arriving = ch.images
    <3>1. block # <<>>
      BY <2>2, EmptyTuple
    <3> QED
      BY <2>1, <3>1 DEF Arriving
  <2>6. Sound' => Range(images') \union Arriving' = urls'
    BY <1>1, <1>3, <1>4, <2>4, <2>5 DEF KeptInv
  <2> QED
    BY <1>4, <2>4, <2>6 DEF KeptInv
<1>6. CASE ~Pending
  <2>1. UNCHANGED <<text, emitted, images, calls>>
    BY <1>6 DEF Flush, Pending, Decodes, assembled
  <2>2. ASSUME Sound PROVE Arriving = {}
    <3>1. CASE Len(block) = 0
      <4>1. block = <<>>
        BY <1>2, <3>1, EmptySeq
      <4> QED
        BY <4>1 DEF Arriving
    <3>2. CASE Len(block) = 1
      <4>1. 1 \in DOMAIN block /\ block # <<>>
        BY <1>2, <3>2, LenProperties, EmptyTuple
      <4>2. block[1].kind # "chunk"
        BY <1>6, <3>2 DEF Pending
      <4> QED
        BY <4>1, <4>2 DEF KeptInv, Arriving
    <3>3. Len(block) <= 1
      BY <2>2 DEF Sound
    <3>4. PICK n \in Nat : n = Len(block)
      BY <1>2
    <3>5. n <= 1
      BY <3>3, <3>4
    <3>6. n = 0 \/ n = 1
      BY <3>5
    <3> QED
      BY <3>1, <3>2, <3>4, <3>6
  <2>3. Sound' => Range(images') \union Arriving' = urls'
    BY <1>1, <1>3, <1>4, <2>1, <2>2 DEF KeptInv
  <2> QED
    BY <1>4, <2>1, <2>3 DEF KeptInv
<1> QED
  BY <1>5, <1>6

\* A request, and an answer in one body, keep it so.
LEMMA RequestKept ==
  ASSUME Typed, Stages, KeptInv, Request
  PROVE  KeptInv'
<1>1. ASSUME Accepted \/ Refused \/ Rejected \/ BackedOff PROVE KeptInv'
  <2>1. UNCHANGED <<said, block, broken, assembled>>
    BY <1>1 DEF Accepted, Refused, Rejected, BackedOff
  <2> QED
    BY <2>1 DEF KeptInv, Sound, Arriving, said, assembled
<1>2. ASSUME NEW s \in Texts, NEW r \in Thoughts \union {<<>>}, NEW n \in 0..MaxCalls,
             NEW a \in [1..n -> Args], NEW list, IsJSONList(list, n, a),
             JSONBody(s, r, list)
      PROVE  KeptInv'
  <2>1. s \in Seq(Tokens) /\ r \in Seq(Tokens)
    BY TextsTyped, EmptySeq
  <2>2. JSONFragments(list) \in Seq(FragmentType)
    BY <1>2, JSONListType
  <2>3. PICK ch : ch = [ContentChunk(s, r) EXCEPT !.calls = JSONFragments(list)]
    OBVIOUS
  <2>4. ContentChunk(s, r) \in ChunkType /\ ContentChunk(s, r).images = {}
    BY <2>1, ContentChunkType, ContentHasNoImages
  <2>5. ch \in ChunkType /\ ch.images = {}
    BY <2>2, <2>3, <2>4 DEF ChunkType, FragmentType
  <2>6. Absorb(ch)
    BY <1>2, <2>3 DEF JSONBody, JSONFragments
  <2>7. block' = block /\ broken' = broken /\ urls' = urls
    BY <1>2 DEF JSONBody
  <2>8. /\ Bounded(calls') /\ (IncludePartialMessages => Withheld(emitted', text'))
        /\ IsInjective(images') /\ Range(images') = Range(images)
    BY <2>5, <2>6, AbsorbKept
  <2>9. Sound' = Sound /\ Arriving' = Arriving
    BY <2>7 DEF Sound, Arriving
  <2> QED
    BY <2>7, <2>8, <2>9 DEF KeptInv
<1> QED
  BY <1>1, <1>2 DEF Request, IsJSONList

\* Every step keeps it so.
LEMMA NextKept ==
  ASSUME Typed, Stages, KeptInv, [Next]_vars
  PROVE  KeptInv'
<1>1. CASE Request
  BY <1>1, RequestKept
<1>2. CASE Data
  BY <1>2, DataKept
<1>3. CASE BlankLine
  BY <1>3, FlushKept DEF BlankLine
<1>4. CASE BodyEnds
  BY <1>4, FlushKept DEF BodyEnds
<1>5. CASE BreakOff \/ UNCHANGED vars
  BY <1>5 DEF BreakOff, vars, said, assembled, KeptInv, Sound, Arriving
<1>6. CASE Finish
  <2>1. /\ UNCHANGED <<said, block, broken, text, emitted, images>>
        /\ calls' = IF calls = <<>> THEN InlineCalls(TrimSpace(reasoning)) ELSE calls
    BY <1>6 DEF Finish, NeedsInline
  <2>2. Bounded(calls')
    <3>1. reasoning \in Seq(Tokens)
      BY DEF Typed, TypeOK
    <3>2. TrimSpace(reasoning) \in Seq(Tokens)
      BY <3>1, TrimParts
    <3> QED
      BY <2>1, <3>2, InlineBounded DEF KeptInv
  <2> QED
    BY <2>1, <2>2 DEF KeptInv, Sound, Arriving, said
<1> QED
  BY <1>1, <1>2, <1>3, <1>4, <1>5, <1>6 DEF Next

-----------------------------------------------------------------------------
(***************************************************************************)
(* The user's content, to JSON and back.                                   *)
(***************************************************************************)

\* A block of the user's reads back as it was.
LEMMA InputReadBack ==
  ASSUME NEW b \in {Input(type, t) : type \in InputTypes, t \in UserTexts}
  PROVE  b.tag # "tool_result" /\ UnmarshalContentBlock(b) = b
<1>1. PICK type \in InputTypes, t \in UserTexts : b = [kind |-> type, tag |-> type, data |-> t]
  BY DEF Input, Block
<1>2. type \in BlockTypes /\ type # "tool_result"
  BY DEF InputTypes, BlockTypes
<1> QED
  BY <1>1, <1>2 DEF UnmarshalContentBlock

\* So does the result of a call.
LEMMA ResultReadBack ==
  ASSUME NEW t
  PROVE  LET b == ToolResult(1, t)
         IN  b.kind = "tool_result" /\ b.tag = b.kind /\ UnmarshalToolResult(b) = b
<1>1. PICK x : x = Block("text", t)
  OBVIOUS
<1>2. x = [kind |-> "text", tag |-> "text", data |-> t] /\ "text" \in BlockTypes
  BY <1>1 DEF Block, BlockTypes
<1>3. UnmarshalContentBlock(x) = x
  BY <1>2 DEF UnmarshalContentBlock
<1>4. PICK list : list = <<x>>
  OBVIOUS
<1>5. DOMAIN list = {1} /\ list[1] = x /\ list = [i \in {1} |-> list[i]]
  <2>1. DOMAIN list = 1..1 /\ 1..1 = {1} /\ list[1] = x
    BY <1>4
  <2>2. list = [i \in DOMAIN list |-> list[i]]
    BY <1>4
  <2> QED
    BY <2>1, <2>2
<1>6. [i \in DOMAIN list |-> UnmarshalContentBlock(list[i])] = list
  BY <1>3, <1>5
<1>7. PICK c : c = Blocks(list)
  OBVIOUS
<1>8. c = [is |-> "blocks", blocks |-> list]
  BY <1>7 DEF Blocks
<1>9. PICK b : b = ToolResult(1, t)
  OBVIOUS
<1>10. b = [kind |-> "tool_result", tag |-> "tool_result", data |-> [id |-> 1, content |-> c]]
  BY <1>1, <1>4, <1>7, <1>9 DEF ToolResult, Block
<1>11. c.is # "text" /\ Blocks([i \in DOMAIN c.blocks |-> UnmarshalContentBlock(c.blocks[i])]) = c
  <2>1. c.is = "blocks" /\ c.blocks = list
    BY <1>8
  <2>2. "blocks" # "text"
    OBVIOUS
  <2> QED
    BY <1>6, <1>7, <2>1, <2>2
<1>12. UnmarshalToolResult(b) = [b EXCEPT !.data.content = c]
  BY <1>10, <1>11 DEF UnmarshalToolResult
<1> QED
  BY <1>9, <1>10, <1>12

(* JSON keeps what the user said (historyUserContent, UnmarshalJSON and    *)
(* parseUserContentValue).                                                 *)
LEMMA ContentReadBack ==
  ASSUME NEW content \in UserContents
  PROVE  parseUserContentValue(historyUserContent(content)) = content
<1>1. CASE content \in {Text(t) : t \in UserTexts}
  <2>1. PICK t : content = [is |-> "text", text |-> t]
    BY <1>1 DEF Text
  <2>2. content # Blocks(<<>>)
    BY <2>1 DEF Blocks
  <2>3. historyUserContent(content) = content
    BY <2>2 DEF historyUserContent
  <2> QED
    BY <2>1, <2>3 DEF parseUserContentValue, Text
<1>2. CASE content \in {Blocks(list) : list \in UNION {[1..n -> SomeBlocks] : n \in 1..2}}
  <2>1. PICK n \in 1..2 : \E list \in [1..n -> SomeBlocks] :
                      content = [is |-> "blocks", blocks |-> list]
    BY <1>2 DEF Blocks
  <2>2. PICK list \in [1..n -> SomeBlocks] : content = [is |-> "blocks", blocks |-> list]
    BY <2>1
  <2>3. list # <<>>
    <3>1. 1 \in DOMAIN list
      BY <2>2
    <3> QED
      BY <3>1, EmptyTuple
  <2>4. content # Blocks(<<>>)
    BY <2>2, <2>3 DEF Blocks
  <2>5. historyUserContent(content) = content
    BY <2>4 DEF historyUserContent
  <2>6. parseUserContentValue(content) = UnmarshalJSON(content)
    BY <2>2 DEF parseUserContentValue
  <2>7. PICK new : new = [i \in 1..n |-> IF list[i].kind = "tool_result" /\ list[i].tag = list[i].kind
                                         THEN UnmarshalToolResult(list[i])
                                         ELSE UnmarshalContentBlock(list[i])]
    OBVIOUS
  <2>8. UnmarshalJSON(content) = Blocks(new)
    BY <2>2, <2>7 DEF UnmarshalJSON
  <2>9. \A i \in 1..n : new[i] = list[i]
    <3> TAKE i \in 1..n
    <3>1. PICK b : b = list[i]
      OBVIOUS
    <3>2. new[i] = IF b.kind = "tool_result" /\ b.tag = b.kind
                   THEN UnmarshalToolResult(b) ELSE UnmarshalContentBlock(b)
      BY <2>7, <3>1
    <3>3. b \in SomeBlocks
      BY <2>2, <3>1
    <3>4. CASE b \in {Input(type, t) : type \in InputTypes, t \in UserTexts}
      BY <3>1, <3>2, <3>4, InputReadBack
    <3>5. CASE b \in {ToolResult(1, t) : t \in UserTexts}
      BY <3>1, <3>2, <3>5, ResultReadBack
    <3> QED
      BY <3>3, <3>4, <3>5 DEF SomeBlocks
  <2>10. new = list
    BY <2>2, <2>7, <2>9
  <2> QED
    BY <2>2, <2>5, <2>6, <2>8, <2>10 DEF Blocks
<1> QED
  BY <1>1, <1>2 DEF UserContents

(* The calls of an answer are a sequence.                                  *)
LEMMA CallsListed ==
  ASSUME NEW c, Bounded(c)
  PROVE  \E T : orderCalls(c) \in Seq(T)
<1>1. PICK max, slots : /\ max = IF c = <<>> THEN -1 ELSE Max(DOMAIN c)
                        /\ slots = [k \in 1..max+1 |-> IF k - 1 \in DOMAIN c THEN c[k-1] ELSE NoCall]
  OBVIOUS
<1>2. orderCalls(c) = Pick(slots, {k \in DOMAIN slots : k - 1 \in DOMAIN c})
  BY <1>1 DEF orderCalls
<1>3. max + 1 \in Nat
  <2>1. CASE c = <<>>
    BY <1>1, <2>1
  <2>2. CASE c # <<>>
    <3>1. PICK n \in Nat : DOMAIN c \subseteq 0..n
      BY DEF Bounded
    <3>2. DOMAIN c # {}
      <4> SUFFICES ASSUME DOMAIN c = {} PROVE FALSE
        OBVIOUS
      <4>1. c = [i \in {} |-> c[i]]
        BY DEF Bounded
      <4>2. DOMAIN <<>> = {} /\ <<>> = [i \in {} |-> <<>>[i]]
        BY EmptySeq
      <4> QED
        BY <2>2, <4>1, <4>2
    <3>3. Max(DOMAIN c) \in 0..n
      BY <3>1, <3>2, MaxIsGreatest
    <3> QED
      BY <1>1, <2>2, <3>3
  <2> QED
    BY <2>1, <2>2
<1>4. PICK m : m = max + 1
  OBVIOUS
<1>5. PICK T : T = {slots[k] : k \in 1..m}
  OBVIOUS
<1>6. slots = [k \in 1..m |-> slots[k]] /\ \A k \in 1..m : slots[k] \in T
  BY <1>1, <1>4, <1>5
<1>7. [k \in 1..m |-> slots[k]] \in Seq(T)
  BY <1>3, <1>4, <1>6, IsASeq
<1>8. slots \in Seq(T)
  BY <1>6, <1>7
<1> QED
  BY <1>2, <1>8, PickType

-----------------------------------------------------------------------------
(***************************************************************************)
(* Blocks of one kind.                                                     *)
(***************************************************************************)

\* All of s are blocks of this kind that say something.
Uniform(s, kind) == \A i \in 1..Len(s) : Says(s[i], kind)

\* The blocks of a kind are some of the blocks.
LEMMA OfKindType ==
  ASSUME NEW T, NEW s \in Seq(T), NEW kind
  PROVE  OfKind(s, kind) \in Seq(T)
  BY PickType DEF OfKind

\* The blocks of a kind of two lists in a row.
LEMMA OfKindConcat ==
  ASSUME NEW T, NEW s \in Seq(T), NEW t \in Seq(T), NEW kind
  PROVE  OfKind(s \o t, kind) = OfKind(s, kind) \o OfKind(t, kind)
<1>1. PICK u, m, n : u = s \o t /\ m = Len(s) /\ n = Len(t)
  OBVIOUS
<1>2. m \in Nat /\ n \in Nat /\ DOMAIN s = 1..m /\ DOMAIN t = 1..n /\ DOMAIN u = 1..(m + n)
  BY <1>1, LenProperties, ConcatProperties
<1>3. \A i \in 1..(m + n) : u[i] = IF i <= m THEN s[i] ELSE t[i - m]
  BY <1>1, ConcatProperties
<1>4. PICK P, Q, R : /\ P = {i \in DOMAIN u : Says(u[i], kind)}
                     /\ Q = {i \in DOMAIN s : Says(s[i], kind)}
                     /\ R = {i \in DOMAIN t : Says(t[i], kind)}
  OBVIOUS
<1>5. \A i \in 1..m : i \in P <=> i \in Q
  <2> TAKE i \in 1..m
  <2>1. i \in 1..(m + n) /\ i <= m
    BY <1>2
  <2>2. u[i] = s[i]
    BY <1>3, <2>1
  <2> QED
    BY <1>2, <1>4, <2>1, <2>2
<1>6. \A i \in 1..n : m + i \in P <=> i \in R
  <2> TAKE i \in 1..n
  <2>1. m + i \in 1..(m + n) /\ ~(m + i <= m) /\ (m + i) - m = i
    BY <1>2
  <2>2. u[m + i] = t[i]
    BY <1>3, <2>1
  <2> QED
    BY <1>2, <1>4, <2>1, <2>2
<1>7. Pick(u, P) = Pick(s, P) \o Pick(t, R)
  <2>1. Shifts(P, R, m, n)
    BY <1>6 DEF Shifts
  <2> QED
    BY <1>1, <2>1, PickConcat DEF Joined
<1>8. Pick(s, P) = Pick(s, Q)
  BY <1>1, <1>2, <1>5, PickAgrees
<1> QED
  BY <1>1, <1>4, <1>7, <1>8 DEF OfKind

\* All blocks of a kind are the blocks of that kind.
LEMMA OfKindAll ==
  ASSUME NEW T, NEW s \in Seq(T), NEW kind, Uniform(s, kind)
  PROVE  OfKind(s, kind) = s
<1>1. DOMAIN s = 1..Len(s)
  BY LenProperties
<1>2. PICK P : P = {i \in DOMAIN s : Says(s[i], kind)}
  OBVIOUS
<1>3. \A i \in 1..Len(s) : i \in P
  BY <1>1, <1>2 DEF Uniform
<1>4. Pick(s, P) = s
  BY <1>3, PickAll
<1> QED
  BY <1>2, <1>4 DEF OfKind

\* No block says anything of the kind.
LEMMA OfKindNone ==
  ASSUME NEW T, NEW s \in Seq(T), NEW kind, \A i \in 1..Len(s) : ~Says(s[i], kind)
  PROVE  OfKind(s, kind) = <<>>
<1>1. DOMAIN s = 1..Len(s)
  BY LenProperties
<1>2. PICK P : P = {i \in DOMAIN s : Says(s[i], kind)}
  OBVIOUS
<1>3. \A i \in 1..Len(s) : i \notin P
  BY <1>1, <1>2
<1>4. Pick(s, P) = <<>>
  BY <1>3, PickNone
<1> QED
  BY <1>2, <1>4 DEF OfKind

\* Blocks of one kind have none of another.
LEMMA OfOtherKind ==
  ASSUME NEW T, NEW s \in Seq(T), NEW kind, NEW other, Uniform(s, other), kind # other
  PROVE  OfKind(s, kind) = <<>>
<1>1. \A i \in 1..Len(s) : ~Says(s[i], kind)
  BY DEF Uniform, Says
<1> QED
  BY <1>1, OfKindNone

(* The flattening of a sequence is built up by concatenation.              *)
IsFlat(f, s, n) == f = [i \in 1..n |-> IF i = 1 THEN s[i] ELSE f[i-1] \o s[i]]

\* Lists can be joined one after another.
LEMMA FlatExists ==
  ASSUME NEW s, NEW n \in Nat
  PROVE  \E f : IsFlat(f, s, n)
<1> DEFINE S == {m \in Nat : \E f : IsFlat(f, s, m)}
<1>1. 0 \in S
  <2> DEFINE f == [k \in 1..0 |-> <<>>]
  <2>1. f = [i \in 1..0 |-> IF i = 1 THEN s[i] ELSE f[i-1] \o s[i]]
    <3>1. 1..0 = {}
      OBVIOUS
    <3> QED
      BY <3>1
  <2> HIDE DEF f
  <2>2. IsFlat(f, s, 0)
    BY <2>1 DEF IsFlat
  <2> QED
    BY <2>2
<1>2. ASSUME NEW m \in S PROVE m + 1 \in S
  <2>1. PICK f : IsFlat(f, s, m)
    OBVIOUS
  <2> DEFINE last == IF m + 1 = 1 THEN s[m+1] ELSE f[m] \o s[m+1]
             g == [k \in 1..m+1 |-> IF k = m + 1 THEN last ELSE f[k]]
  <2>2. \A k \in 1..m : f[k] = IF k = 1 THEN s[k] ELSE f[k-1] \o s[k]
    BY <2>1 DEF IsFlat
  <2>3. m \in Nat /\ \A k \in 1..m : k # m + 1 /\ k \in 1..m+1 /\ (k # 1 => k - 1 \in 1..m)
    OBVIOUS
  <2>4. \A k \in 1..m : g[k] = f[k]
    BY <2>3
  <2>5. g[m+1] = last
    BY <2>3
  <2>6. \A k \in 1..m+1 : g[k] = IF k = 1 THEN s[k] ELSE g[k-1] \o s[k]
    <3> TAKE k \in 1..m+1
    <3>1. CASE k = m + 1
      <4>1. g[k] = last
        BY <2>5, <3>1
      <4>2. CASE m + 1 = 1
        <5>1. last = s[k] /\ k = 1
          BY <3>1, <4>2
        <5> HIDE DEF g, last
        <5> QED
          BY <4>1, <5>1
      <4>3. CASE m + 1 # 1
        <5>1. m \in 1..m /\ k - 1 = m /\ k # 1
          BY <2>3, <3>1, <4>3
        <5>2. g[k-1] = f[m]
          BY <2>4, <5>1
        <5>3. last = f[m] \o s[k]
          BY <3>1, <4>3
        <5> HIDE DEF g, last
        <5> QED
          BY <4>1, <5>1, <5>2, <5>3
      <4> QED
        BY <4>2, <4>3
    <3>2. CASE k \in 1..m
      <4>1. g[k] = f[k] /\ (k # 1 => g[k-1] = f[k-1])
        BY <2>3, <2>4, <3>2
      <4> HIDE DEF g
      <4> QED
        BY <2>2, <3>2, <4>1
    <3> QED
      BY <2>3, <3>1, <3>2
  <2>7. g = [k \in 1..m+1 |-> g[k]]
    OBVIOUS
  <2> HIDE DEF g, last
  <2>8. g = [i \in 1..m+1 |-> IF i = 1 THEN s[i] ELSE g[i-1] \o s[i]]
    BY <2>6, <2>7
  <2>9. IsFlat(g, s, m + 1)
    BY <2>8 DEF IsFlat
  <2> QED
    BY <2>3, <2>9
<1> HIDE DEF S
<1>3. S = Nat
  <2>1. S \in SUBSET Nat
    BY DEF S
  <2> QED
    BY <1>1, <1>2, <2>1, Induction
<1> QED
  BY <1>3 DEF S

\* Which is what flattening them is.
LEMMA FlattenIsFlat ==
  ASSUME NEW s, Len(s) \in Nat, Len(s) # 0
  PROVE  \E f : IsFlat(f, s, Len(s)) /\ FlattenSeq(s) = f[Len(s)]
<1> DEFINE f == CHOOSE f : IsFlat(f, s, Len(s))
<1>1. IsFlat(f, s, Len(s))
  BY FlatExists
<1>2. FlattenSeq(s) = f[Len(s)]
  BY DEF FlattenSeq, IsFlat
<1> QED
  BY <1>1, <1>2

\* Lists joined are a list of the same members.
LEMMA FlatType ==
  ASSUME NEW T, NEW P, NEW n \in Nat, \A k \in 1..n : P[k] \in Seq(T), NEW f, IsFlat(f, P, n)
  PROVE  \A k \in 1..n : f[k] \in Seq(T)
<1>1. \A k \in 1..n : f[k] = IF k = 1 THEN P[k] ELSE f[k-1] \o P[k]
  BY DEF IsFlat
<1> DEFINE S == {k \in Nat : k \in 1..n => f[k] \in Seq(T)}
<1>2. 0 \in S
  OBVIOUS
<1>3. ASSUME NEW k \in S PROVE k + 1 \in S
  <2> SUFFICES ASSUME k + 1 \in 1..n PROVE f[k+1] \in Seq(T)
    OBVIOUS
  <2>1. k \in Nat
    OBVIOUS
  <2>2. k \in 1..n => f[k] \in Seq(T)
    OBVIOUS
  <2> HIDE DEF S
  <2>3. CASE k = 0
    BY <1>1, <2>3
  <2>4. CASE k # 0
    <3>1. k \in 1..n /\ (k + 1) - 1 = k /\ k + 1 # 1
      BY <2>1, <2>4
    <3>2. f[k] \in Seq(T)
      BY <2>2, <3>1
    <3>3. f[k+1] = f[k] \o P[k+1]
      BY <1>1, <3>1
    <3> QED
      BY <3>2, <3>3, ConcatProperties
  <2> QED
    BY <2>3, <2>4
<1> HIDE DEF S
<1>4. S = Nat
  <2>1. S \in SUBSET Nat
    BY DEF S
  <2> QED
    BY <1>2, <1>3, <2>1, Induction
<1> QED
  BY <1>4 DEF S

\* So are lists flattened.
LEMMA FlattenType ==
  ASSUME NEW T, NEW P \in Seq(Seq(T))
  PROVE  FlattenSeq(P) \in Seq(T)
<1>1. PICK n : n = Len(P)
  OBVIOUS
<1>2. n \in Nat /\ \A k \in 1..n : P[k] \in Seq(T)
  BY <1>1, LenProperties
<1>3. CASE n = 0
  <2>1. P = <<>> /\ Len(P) = 0
    BY <1>1, <1>3, EmptySeq
  <2> QED
    BY <2>1, EmptySeq DEF FlattenSeq
<1>4. CASE n # 0
  <2>1. PICK f : IsFlat(f, P, n) /\ FlattenSeq(P) = f[n]
    BY <1>1, <1>2, <1>4, FlattenIsFlat
  <2>2. f[n] \in Seq(T)
    <3>1. n \in 1..n
      BY <1>2, <1>4
    <3> QED
      BY <1>2, <2>1, <3>1, FlatType
  <2> QED
    BY <2>1, <2>2
<1> QED
  BY <1>3, <1>4

(* So are its blocks of a kind.                                            *)
LEMMA FlatKind ==
  ASSUME NEW T, NEW P \in Seq(Seq(T)), NEW kind
  PROVE  \E h : /\ h[0] = <<>> /\ h[Len(P)] = OfKind(FlattenSeq(P), kind)
                /\ \A k \in 1..Len(P) : h[k] = h[k-1] \o OfKind(P[k], kind)
<1>1. PICK n : n = Len(P)
  OBVIOUS
<1>2. n \in Nat /\ \A k \in 1..n : P[k] \in Seq(T)
  BY <1>1, LenProperties
<1>3. OfKind(<<>>, kind) = <<>>
  <2>1. <<>> \in Seq(T) /\ 1..Len(<<>>) = {}
    BY EmptySeq
  <2> QED
    BY <2>1, OfKindNone
<1>4. CASE n = 0
  <2>1. FlattenSeq(P) = <<>>
    <3>1. P = <<>>
      BY <1>1, <1>4, EmptySeq
    <3> QED
      BY <1>1, <1>4, <3>1 DEF FlattenSeq
  <2>2. PICK h : h = [k \in {0} |-> <<>>]
    OBVIOUS
  <2>3. h[0] = <<>> /\ 1..n = {}
    BY <1>4, <2>2
  <2> QED
    BY <1>1, <1>3, <1>4, <2>1, <2>3
<1>5. CASE n # 0
  <2>1. PICK f : IsFlat(f, P, n) /\ FlattenSeq(P) = f[n]
    BY <1>1, <1>2, <1>5, FlattenIsFlat
  <2>2. \A k \in 1..n : f[k] = IF k = 1 THEN P[k] ELSE f[k-1] \o P[k]
    BY <2>1 DEF IsFlat
  <2>3. \A k \in 1..n : f[k] \in Seq(T)
    BY <1>2, <2>1, FlatType
  <2>4. PICK h : h = [k \in 0..n |-> IF k = 0 THEN <<>> ELSE OfKind(f[k], kind)]
    OBVIOUS
  <2>5. h[0] = <<>> /\ \A k \in 1..n : h[k] = OfKind(f[k], kind)
    <3>1. 0 \in 0..n /\ \A k \in 1..n : k \in 0..n /\ k # 0
      BY <1>2
    <3> QED
      BY <2>4, <3>1
  <2>6. ASSUME NEW k \in 1..n PROVE h[k] = h[k-1] \o OfKind(P[k], kind)
    <3>1. OfKind(P[k], kind) \in Seq(T)
      BY <1>2, OfKindType
    <3>2. CASE k = 1
      <4>1. h[k] = OfKind(P[k], kind) /\ h[k-1] = <<>>
        BY <2>2, <2>5, <3>2
      <4> QED
        BY <3>1, <4>1, ConcatEmptySeq
    <3>3. CASE k # 1
      <4>1. k - 1 \in 1..n
        BY <1>2, <3>3
      <4>2. f[k] = f[k-1] \o P[k] /\ f[k-1] \in Seq(T) /\ P[k] \in Seq(T)
        BY <1>2, <2>2, <2>3, <3>3, <4>1
      <4>3. OfKind(f[k], kind) = OfKind(f[k-1], kind) \o OfKind(P[k], kind)
        <5>1. PICK u, v : u = f[k-1] /\ v = P[k]
          OBVIOUS
        <5>2. u \in Seq(T) /\ v \in Seq(T)
          BY <4>2, <5>1
        <5>3. OfKind(u \o v, kind) = OfKind(u, kind) \o OfKind(v, kind)
          BY <5>2, OfKindConcat
        <5> QED
          BY <4>2, <5>1, <5>3
      <4> QED
        BY <2>5, <4>1, <4>3
    <3> QED
      BY <3>2, <3>3
  <2>7. n \in 1..n
    BY <1>2, <1>5
  <2> QED
    BY <1>1, <2>1, <2>5, <2>6, <2>7
<1> QED
  BY <1>4, <1>5

\* Only part a has blocks of this kind.
Alone(P, a, kind) ==
  a \in 1..Len(P) /\ \A k \in 1..Len(P) : k # a => OfKind(P[k], kind) = <<>>

\* When one list alone has blocks of a kind, they are those of all.
LEMMA FlatOne ==
  ASSUME NEW T, NEW P \in Seq(Seq(T)), NEW kind, NEW a, Alone(P, a, kind)
  PROVE  OfKind(FlattenSeq(P), kind) = OfKind(P[a], kind)
<1>1. PICK n, part : n = Len(P) /\ part = OfKind(P[a], kind)
  OBVIOUS
<1>2. n \in Nat /\ part \in Seq(T) /\ a \in 1..n
  <2>1. n \in Nat /\ a \in 1..n
    BY <1>1, LenProperties DEF Alone
  <2>2. P[a] \in Seq(T)
    BY <1>1, <2>1, LenProperties
  <2> QED
    BY <1>1, <2>1, <2>2, OfKindType
<1>3. PICK h : /\ h[0] = <<>> /\ h[n] = OfKind(FlattenSeq(P), kind)
               /\ \A k \in 1..n : h[k] = h[k-1] \o OfKind(P[k], kind)
  <2>1. PICK h : /\ h[0] = <<>> /\ h[Len(P)] = OfKind(FlattenSeq(P), kind)
                 /\ \A k \in 1..Len(P) : h[k] = h[k-1] \o OfKind(P[k], kind)
    BY FlatKind
  <2> QED
    BY <1>1, <2>1
<1>4. \A k \in 1..n : h[k] = h[k-1] \o (IF k = a THEN part ELSE <<>>)
  BY <1>1, <1>3 DEF Alone
<1> DEFINE S == {k \in Nat : k <= n => h[k] = IF k < a THEN <<>> ELSE part}
<1>5. 0 \in S
  BY <1>2, <1>3
<1>6. ASSUME NEW k \in S PROVE k + 1 \in S
  <2> SUFFICES ASSUME k + 1 <= n PROVE h[k+1] = IF k + 1 < a THEN <<>> ELSE part
    OBVIOUS
  <2>1. h[k] = IF k < a THEN <<>> ELSE part
    BY <1>2
  <2>2. k + 1 \in 1..n /\ (k + 1) - 1 = k
    BY <1>2
  <2>3. h[k+1] = h[k] \o (IF k + 1 = a THEN part ELSE <<>>)
    BY <1>4, <2>2
  <2>4. <<>> \o <<>> = <<>> /\ <<>> \o part = part /\ part \o <<>> = part
    BY <1>2, EmptySeq, ConcatEmptySeq
  <2>5. CASE k + 1 < a
    <3>1. k < a /\ k + 1 # a
      BY <1>2, <2>5
    <3> QED
      BY <2>1, <2>3, <2>4, <2>5, <3>1
  <2>6. CASE k + 1 = a
    <3>1. k < a /\ ~(k + 1 < a)
      BY <1>2, <2>6
    <3> QED
      BY <2>1, <2>3, <2>4, <2>6, <3>1
  <2>7. CASE k + 1 > a
    <3>1. ~(k < a) /\ ~(k + 1 < a) /\ k + 1 # a
      BY <1>2, <2>7
    <3> QED
      BY <2>1, <2>3, <2>4, <3>1
  <2>8. k + 1 < a \/ k + 1 = a \/ k + 1 > a
    BY <1>2
  <2> QED
    BY <2>5, <2>6, <2>7, <2>8
<1> HIDE DEF S
<1>7. S = Nat
  <2>1. S \in SUBSET Nat
    BY DEF S
  <2> QED
    BY <1>5, <1>6, <2>1, Induction
<1>8. h[n] = IF n < a THEN <<>> ELSE part
  <2>1. n \in S /\ n <= n
    BY <1>2, <1>7
  <2> QED
    BY <2>1 DEF S
<1>9. ~(n < a)
  BY <1>2
<1> QED
  BY <1>1, <1>3, <1>8, <1>9

(* No part has.                                                            *)
LEMMA FlatNone ==
  ASSUME NEW T, NEW P \in Seq(Seq(T)), NEW kind,
         \A k \in 1..Len(P) : OfKind(P[k], kind) = <<>>
  PROVE  OfKind(FlattenSeq(P), kind) = <<>>
<1>1. PICK n : n = Len(P)
  OBVIOUS
<1>2. n \in Nat
  BY <1>1, LenProperties
<1>3. CASE n = 0
  <2>1. P = <<>> /\ Len(P) = 0
    BY <1>1, <1>3, EmptySeq
  <2>2. FlattenSeq(P) = <<>> /\ <<>> \in Seq(T) /\ 1..Len(<<>>) = {}
    BY <2>1, EmptySeq DEF FlattenSeq
  <2> QED
    BY <2>2, OfKindNone
<1>4. CASE n # 0
  <2>1. Alone(P, 1, kind) /\ 1 \in 1..n
    BY <1>1, <1>2, <1>4 DEF Alone
  <2> QED
    BY <1>1, <2>1, FlatOne
<1> QED
  BY <1>3, <1>4

\* Every part after the m-th has one block of this kind.
Yields(P, m, kind, x) ==
  /\ Len(P) = m + Len(x)
  /\ \A k \in 1..m : OfKind(P[k], kind) = <<>>
  /\ \A k \in 1..Len(x) : OfKind(P[m+k], kind) = <<x[k]>>

\* When each list yields one block of a kind, these in order are those of all.
LEMMA FlatEach ==
  ASSUME NEW T, NEW P \in Seq(Seq(T)), NEW kind, NEW x \in Seq(T), NEW m \in Nat,
         Yields(P, m, kind, x)
  PROVE  OfKind(FlattenSeq(P), kind) = x
<1>1. PICK n : n = Len(x)
  OBVIOUS
<1>2. n \in Nat /\ Len(P) = m + n /\ DOMAIN x = 1..n /\ \A k \in 1..n : x[k] \in T
  BY <1>1, LenProperties DEF Yields
<1>3. PICK h : /\ h[0] = <<>> /\ h[m + n] = OfKind(FlattenSeq(P), kind)
               /\ \A k \in 1..(m + n) : h[k] = h[k-1] \o OfKind(P[k], kind)
  <2>1. PICK h : /\ h[0] = <<>> /\ h[Len(P)] = OfKind(FlattenSeq(P), kind)
                 /\ \A k \in 1..Len(P) : h[k] = h[k-1] \o OfKind(P[k], kind)
    BY FlatKind
  <2> QED
    BY <1>2, <2>1
<1> DEFINE S == {k \in Nat : k <= m => h[k] = <<>>}
           R == {k \in Nat : k <= n =>
                  h[m+k] \in Seq(T) /\ Len(h[m+k]) = k /\ \A i \in 1..k : h[m+k][i] = x[i]}
<1>4. 0 \in S
  BY <1>3
<1>5. ASSUME NEW k \in S PROVE k + 1 \in S
  <2> SUFFICES ASSUME k + 1 <= m PROVE h[k+1] = <<>>
    OBVIOUS
  <2>1. k + 1 \in 1..m /\ k + 1 \in 1..(m + n) /\ (k + 1) - 1 = k /\ k <= m
    BY <1>2
  <2>2. h[k] = <<>> /\ OfKind(P[k+1], kind) = <<>>
    BY <2>1 DEF Yields
  <2>3. h[k+1] = <<>> \o <<>>
    BY <1>3, <2>1, <2>2
  <2> QED
    BY <2>3, EmptySeq, ConcatEmptySeq
<1> HIDE DEF S
<1>6. S = Nat
  <2>1. S \in SUBSET Nat
    BY DEF S
  <2> QED
    BY <1>4, <1>5, <2>1, Induction
<1>7. h[m] = <<>>
  <2>1. m \in S /\ m <= m
    BY <1>6
  <2> QED
    BY <2>1 DEF S
<1>8. 0 \in R
  <2>1. m + 0 = m /\ <<>> \in Seq(T) /\ Len(<<>>) = 0 /\ 1..0 = {}
    BY EmptySeq
  <2> QED
    BY <1>7, <2>1
<1>9. ASSUME NEW k \in R PROVE k + 1 \in R
  <2> SUFFICES ASSUME k + 1 <= n
               PROVE  /\ h[m+(k+1)] \in Seq(T) /\ Len(h[m+(k+1)]) = k + 1
                      /\ \A i \in 1..(k+1) : h[m+(k+1)][i] = x[i]
    OBVIOUS
  <2>1. k \in Nat /\ k <= n /\ k + 1 \in 1..n /\ m + (k + 1) \in 1..(m + n) /\ (m + (k + 1)) - 1 = m + k
    BY <1>2
  <2>2. PICK y : y = h[m+k]
    OBVIOUS
  <2>3. y \in Seq(T) /\ Len(y) = k /\ \A i \in 1..k : y[i] = x[i]
    BY <2>1, <2>2
  <2>4. OfKind(P[m+(k+1)], kind) = <<x[k+1]>>
    BY <1>1, <2>1 DEF Yields
  <2>5. h[m+(k+1)] = y \o <<x[k+1]>>
    BY <1>3, <2>1, <2>2, <2>4
  <2>6. PICK z : z = Append(y, x[k+1])
    OBVIOUS
  <2>7. h[m+(k+1)] = z
    BY <1>2, <2>1, <2>3, <2>5, <2>6, AppendIsConcat
  <2>8. z \in Seq(T) /\ Len(z) = k + 1 /\ z[k+1] = x[k+1] /\ \A i \in 1..k : z[i] = y[i]
    BY <1>2, <2>1, <2>3, <2>6, AppendProperties
  <2>9. \A i \in 1..(k+1) : i \in 1..k \/ i = k + 1
    BY <2>1
  <2> QED
    BY <2>3, <2>7, <2>8, <2>9
<1> HIDE DEF R
<1>10. R = Nat
  <2>1. R \in SUBSET Nat
    BY DEF R
  <2> QED
    BY <1>8, <1>9, <2>1, Induction
<1>11. PICK y : y = h[m+n]
  OBVIOUS
<1>12. y \in Seq(T) /\ Len(y) = n /\ \A i \in 1..n : y[i] = x[i]
  <2>1. n \in R /\ n <= n
    BY <1>2, <1>10
  <2> QED
    BY <1>11, <2>1 DEF R
<1>13. y = x
  BY <1>1, <1>12, SeqEqual
<1> QED
  BY <1>3, <1>11, <1>13

-----------------------------------------------------------------------------
(***************************************************************************)
(* The turn as it is delivered and as it is read back.                     *)
(***************************************************************************)

Kinds == {"text", "image", "tool_use", "tool_result"}
CallPart(kind, us, rs) ==
  IF kind = "tool_use" THEN us ELSE IF kind = "tool_result" THEN rs ELSE <<>>
PartOf(kind, tx, im, us, rs) ==
  CASE kind = "text" -> tx [] kind = "image" -> im [] kind = "tool_use" -> us [] OTHER -> rs

\* The blocks of a kind of two lists joined.
LEMMA OfKindJoined ==
  ASSUME NEW T, NEW s \in Seq(T), NEW t \in Seq(T), NEW kind
  PROVE  Joined(s, t) \in Seq(T) /\ OfKind(Joined(s, t), kind) = Joined(OfKind(s, kind), OfKind(t, kind))
<1>1. PICK u : u = Joined(s, t)
  OBVIOUS
<1>2. u = s \o t
  BY <1>1 DEF Joined
<1>3. u \in Seq(T)
  BY <1>2, ConcatProperties
<1>4. OfKind(s \o t, kind) = OfKind(s, kind) \o OfKind(t, kind)
  BY OfKindConcat
<1> QED
  BY <1>1, <1>2, <1>3, <1>4 DEF Joined

\* The blocks of a kind of three lists joined.
LEMMA OfKindThree ==
  ASSUME NEW T, NEW a \in Seq(T), NEW b \in Seq(T), NEW c \in Seq(T), NEW kind
  PROVE  /\ Joined(Joined(a, b), c) \in Seq(T)
         /\ OfKind(Joined(Joined(a, b), c), kind)
              = Joined(Joined(OfKind(a, kind), OfKind(b, kind)), OfKind(c, kind))
<1>1. Joined(a, b) \in Seq(T) /\ OfKind(Joined(a, b), kind) = Joined(OfKind(a, kind), OfKind(b, kind))
  BY OfKindJoined
<1> QED
  BY <1>1, OfKindJoined

\* Joining an empty list changes nothing.
LEMMA JoinEmpty ==
  ASSUME NEW T, NEW s \in Seq(T)
  PROVE  Joined(s, <<>>) = s /\ Joined(<<>>, s) = s
  BY ConcatEmptySeq DEF Joined

\* A block alone is of the kind or not.
LEMMA OfKindSingle ==
  ASSUME NEW T, NEW u \in T, NEW kind
  PROVE  OfKind(<<u>>, kind) = IF Says(u, kind) THEN <<u>> ELSE <<>>
<1>1. PICK s : s = <<u>>
  OBVIOUS
<1>2. s \in Seq(T) /\ Len(s) = 1 /\ s[1] = u
  BY <1>1
<1>3. \A i \in 1..1 : i = 1
  OBVIOUS
<1>4. CASE Says(u, kind)
  <2>1. Uniform(s, kind)
    BY <1>2, <1>3, <1>4 DEF Uniform
  <2> QED
    BY <1>1, <1>2, <1>4, <2>1, OfKindAll
<1>5. CASE ~Says(u, kind)
  <2>1. \A i \in 1..Len(s) : ~Says(s[i], kind)
    BY <1>2, <1>3, <1>5
  <2> QED
    BY <1>1, <1>2, <1>5, <2>1, OfKindNone
<1> QED
  BY <1>4, <1>5

\* A call and its result give each kind its block.
LEMMA OfKindPair ==
  ASSUME NEW T, NEW u \in T, NEW v \in T, NEW kind,
         u.kind = "tool_use", v.kind = "tool_result"
  PROVE  OfKind(<<u, v>>, kind) = CallPart(kind, <<u>>, <<v>>)
<1>1. PICK s, t : s = <<u>> /\ t = <<v>>
  OBVIOUS
<1>2. s \in Seq(T) /\ t \in Seq(T) /\ <<>> \in Seq(T)
  BY <1>1, EmptySeq
<1>3. OfKind(Joined(s, t), kind) = Joined(OfKind(s, kind), OfKind(t, kind))
  BY <1>2, OfKindJoined
<1>4. Joined(s, t) = <<u, v>>
  <2>1. PICK p, q : p = <<u, v>> /\ q = s \o t
    OBVIOUS
  <2>2. p \in Seq(T) /\ Len(p) = 2 /\ p[1] = u /\ p[2] = v
    BY <2>1
  <2>3. Len(s) = 1 /\ Len(t) = 1 /\ s[1] = u /\ t[1] = v
    BY <1>1
  <2>4. q \in Seq(T) /\ Len(q) = 2 /\ q[1] = u /\ q[2] = v
    BY <1>2, <2>1, <2>3, ConcatProperties
  <2>5. \A i \in 1..2 : i = 1 \/ i = 2
    OBVIOUS
  <2>6. \A i \in 1..Len(p) : p[i] = q[i]
    BY <2>2, <2>4, <2>5
  <2>7. p = q
    BY <2>2, <2>4, <2>6, SeqEqual
  <2> QED
    BY <2>1, <2>7 DEF Joined
<1>5. OfKind(s, kind) = IF kind = "tool_use" THEN s ELSE <<>>
  BY <1>1, OfKindSingle DEF Says
<1>6. OfKind(t, kind) = IF kind = "tool_result" THEN t ELSE <<>>
  BY <1>1, OfKindSingle DEF Says
<1>7. Joined(s, <<>>) = s /\ Joined(<<>>, t) = t /\ Joined(<<>>, <<>>) = <<>>
  BY <1>2, JoinEmpty
<1> QED
  BY <1>1, <1>3, <1>4, <1>5, <1>6, <1>7 DEF CallPart

(* Each call with its result.                                              *)
LEMMA FlatPairs ==
  ASSUME NEW T, NEW us \in Seq(T), NEW rs \in Seq(T), NEW P \in Seq(Seq(T)),
         Uniform(us, "tool_use"), Uniform(rs, "tool_result"),
         Len(us) = Len(P), Len(rs) = Len(P), \A k \in 1..Len(P) : P[k] = <<us[k], rs[k]>>,
         NEW kind
  PROVE  OfKind(FlattenSeq(P), kind) = CallPart(kind, us, rs)
<1>1. PICK n : n = Len(P)
  OBVIOUS
<1>2. n \in Nat /\ \A k \in 1..n : us[k] \in T /\ rs[k] \in T
  BY <1>1, LenProperties
<1>3. \A k \in 1..n : us[k].kind = "tool_use" /\ rs[k].kind = "tool_result"
  BY <1>1 DEF Uniform, Says
<1>4. ASSUME NEW k \in 1..n PROVE OfKind(P[k], kind) = CallPart(kind, <<us[k]>>, <<rs[k]>>)
  <2>1. PICK u, v : u = us[k] /\ v = rs[k]
    OBVIOUS
  <2>2. u \in T /\ v \in T /\ u.kind = "tool_use" /\ v.kind = "tool_result"
    BY <1>2, <1>3, <2>1
  <2>3. P[k] = <<u, v>>
    BY <1>1, <2>1
  <2>4. OfKind(<<u, v>>, kind) = CallPart(kind, <<u>>, <<v>>)
    BY <2>2, OfKindPair
  <2> QED
    BY <2>1, <2>3, <2>4
<1>5. \A x \in Seq(T) : Len(x) = n /\ (\A k \in 1..Len(x) : OfKind(P[k], kind) = <<x[k]>>) => Yields(P, 0, kind, x)
  <2>1. 1..0 = {} /\ 0 + n = n /\ \A k \in 1..n : 0 + k = k
    BY <1>2
  <2> QED
    BY <1>1, <2>1 DEF Yields
<1>6. CASE kind = "tool_use"
  <2>1. \A k \in 1..Len(us) : OfKind(P[k], kind) = <<us[k]>>
    BY <1>1, <1>4, <1>6 DEF CallPart
  <2>2. OfKind(FlattenSeq(P), kind) = us
    BY <1>1, <1>5, <2>1, FlatEach
  <2> QED
    BY <1>6, <2>2 DEF CallPart
<1>7. CASE kind = "tool_result"
  <2>1. \A k \in 1..Len(rs) : OfKind(P[k], kind) = <<rs[k]>>
    BY <1>1, <1>4, <1>7 DEF CallPart
  <2>2. OfKind(FlattenSeq(P), kind) = rs
    BY <1>1, <1>5, <2>1, FlatEach
  <2> QED
    BY <1>7, <2>2 DEF CallPart
<1>8. CASE kind # "tool_use" /\ kind # "tool_result"
  <2>1. \A k \in 1..Len(P) : OfKind(P[k], kind) = <<>>
    BY <1>1, <1>4, <1>8 DEF CallPart
  <2>2. OfKind(FlattenSeq(P), kind) = <<>>
    BY <2>1, FlatNone
  <2> QED
    BY <1>8, <2>2 DEF CallPart
<1> QED
  BY <1>6, <1>7, <1>8

\* The pieces of an answer, and the calls f with their results.
Delivers(T, th, tx, im, us, rs, f, kind) ==
  /\ th \in Seq(T) /\ tx \in Seq(T) /\ im \in Seq(T)
  /\ us \in Seq(T) /\ rs \in Seq(T) /\ f \in Seq(T)
  /\ Uniform(th, "thinking") /\ Uniform(tx, "text") /\ Uniform(im, "image")
  /\ OfKind(f, kind) = CallPart(kind, us, rs)

(* One message after another: thoughts, text and images, then the calls.   *)
LEMMA DeliveredParts ==
  ASSUME NEW T, NEW th, NEW tx, NEW im, NEW us, NEW rs, NEW f, NEW kind \in Kinds,
         Delivers(T, th, tx, im, us, rs, f, kind)
  PROVE  OfKind(Joined(Joined(Joined(th, tx), im), f), kind) = PartOf(kind, tx, im, us, rs)
<1>1. /\ th \in Seq(T) /\ tx \in Seq(T) /\ im \in Seq(T)
      /\ us \in Seq(T) /\ rs \in Seq(T) /\ f \in Seq(T)
      /\ Uniform(th, "thinking") /\ Uniform(tx, "text") /\ Uniform(im, "image")
      /\ OfKind(f, kind) = CallPart(kind, us, rs)
  BY DEF Delivers
<1>2. PICK a : a = Joined(Joined(th, tx), im)
  OBVIOUS
<1>3. a \in Seq(T) /\ OfKind(a, kind) = Joined(Joined(OfKind(th, kind), OfKind(tx, kind)), OfKind(im, kind))
  BY <1>1, <1>2, OfKindThree
<1>4. OfKind(Joined(a, f), kind) = Joined(OfKind(a, kind), OfKind(f, kind))
  BY <1>1, <1>3, OfKindJoined
<1>5. OfKind(th, kind) = <<>>
  BY <1>1, OfOtherKind DEF Kinds
<1>6. OfKind(tx, kind) = IF kind = "text" THEN tx ELSE <<>>
  BY <1>1, OfKindAll, OfOtherKind
<1>7. OfKind(im, kind) = IF kind = "image" THEN im ELSE <<>>
  BY <1>1, OfKindAll, OfOtherKind
<1>8. <<>> \in Seq(T) /\ \A s \in Seq(T) : Joined(<<>>, s) = s /\ Joined(s, <<>>) = s
  BY EmptySeq, JoinEmpty
<1>9. OfKind(Joined(a, f), kind) = PartOf(kind, tx, im, us, rs)
  <2>1. CASE kind = "text"
    <3>1. OfKind(f, kind) = <<>>
      BY <1>1, <2>1 DEF CallPart
    <3>2. OfKind(tx, kind) = tx /\ OfKind(im, kind) = <<>>
      BY <1>6, <1>7, <2>1
    <3>3. OfKind(a, kind) = tx
      BY <1>1, <1>3, <1>5, <1>8, <3>2
    <3>4. OfKind(Joined(a, f), kind) = tx
      BY <1>1, <1>4, <1>8, <3>1, <3>3
    <3> QED
      BY <2>1, <3>4 DEF PartOf
  <2>2. CASE kind = "image"
    <3>1. OfKind(f, kind) = <<>>
      BY <1>1, <2>2 DEF CallPart
    <3>2. OfKind(tx, kind) = <<>> /\ OfKind(im, kind) = im
      BY <1>6, <1>7, <2>2
    <3>3. OfKind(a, kind) = im
      BY <1>1, <1>3, <1>5, <1>8, <3>2
    <3>4. OfKind(Joined(a, f), kind) = im
      BY <1>1, <1>4, <1>8, <3>1, <3>3
    <3> QED
      BY <2>2, <3>4 DEF PartOf
  <2>3. CASE kind = "tool_use"
    <3>1. OfKind(f, kind) = us
      BY <1>1, <2>3 DEF CallPart
    <3>2. OfKind(tx, kind) = <<>> /\ OfKind(im, kind) = <<>>
      BY <1>6, <1>7, <2>3
    <3>3. OfKind(a, kind) = <<>>
      BY <1>1, <1>3, <1>5, <1>8, <3>2
    <3>4. OfKind(Joined(a, f), kind) = us
      BY <1>1, <1>4, <1>8, <3>1, <3>3
    <3> QED
      BY <2>3, <3>4 DEF PartOf
  <2>4. CASE kind = "tool_result"
    <3>1. OfKind(f, kind) = rs
      BY <1>1, <2>4 DEF CallPart
    <3>2. OfKind(tx, kind) = <<>> /\ OfKind(im, kind) = <<>>
      BY <1>6, <1>7, <2>4
    <3>3. OfKind(a, kind) = <<>>
      BY <1>1, <1>3, <1>5, <1>8, <3>2
    <3>4. OfKind(Joined(a, f), kind) = rs
      BY <1>1, <1>4, <1>8, <3>1, <3>3
    <3> QED
      BY <2>4, <3>4 DEF PartOf
  <2> QED
    BY <2>1, <2>2, <2>3, <2>4 DEF Kinds
<1> QED
  BY <1>2, <1>9

(* The assistant's message alone.                                          *)
LEMMA AssistantParts ==
  ASSUME NEW T, NEW tx \in Seq(T), NEW im \in Seq(T), NEW us \in Seq(T), NEW kind,
         Uniform(tx, "text"), Uniform(im, "image"), Uniform(us, "tool_use")
  PROVE  OfKind(Joined(Joined(tx, im), us), kind)
           = IF kind = "text" THEN tx ELSE IF kind = "image" THEN im
             ELSE IF kind = "tool_use" THEN us ELSE <<>>
<1>1. PICK a : a = Joined(Joined(tx, im), us)
  OBVIOUS
<1>2. OfKind(a, kind) = Joined(Joined(OfKind(tx, kind), OfKind(im, kind)), OfKind(us, kind))
  BY <1>1, OfKindThree
<1>3. OfKind(tx, kind) = IF kind = "text" THEN tx ELSE <<>>
  BY OfKindAll, OfOtherKind
<1>4. OfKind(im, kind) = IF kind = "image" THEN im ELSE <<>>
  BY OfKindAll, OfOtherKind
<1>5. OfKind(us, kind) = IF kind = "tool_use" THEN us ELSE <<>>
  BY OfKindAll, OfOtherKind
<1>6. <<>> \in Seq(T) /\ \A s \in Seq(T) : Joined(<<>>, s) = s /\ Joined(s, <<>>) = s
  BY EmptySeq, JoinEmpty
<1>7. OfKind(a, kind) = IF kind = "text" THEN tx ELSE IF kind = "image" THEN im
                        ELSE IF kind = "tool_use" THEN us ELSE <<>>
  <2>1. CASE kind = "text"
    BY <1>2, <1>3, <1>4, <1>5, <1>6, <2>1
  <2>2. CASE kind = "image"
    BY <1>2, <1>3, <1>4, <1>5, <1>6, <2>2
  <2>3. CASE kind # "text" /\ kind # "image"
    BY <1>2, <1>3, <1>4, <1>5, <1>6, <2>3
  <2> QED
    BY <2>1, <2>2, <2>3
<1> QED
  BY <1>1, <1>7

\* What is left out, part a, and the results, each alone.
Laid(P, a, rs) ==
  /\ Len(P) = a + Len(rs)
  /\ \A k \in 1..a : k # a => P[k] = <<>>
  /\ \A k \in 1..Len(rs) : P[a+k] = <<rs[k]>>

\* The blocks of a kind in an answer and the results after it.
LEMMA LaidParts ==
  ASSUME NEW T, NEW P \in Seq(Seq(T)), NEW rs \in Seq(T), NEW a \in Nat \ {0}, NEW kind,
         Laid(P, a, rs)
  PROVE  /\ \A k \in 1..a : k # a => OfKind(P[k], kind) = <<>>
         /\ \A k \in 1..Len(rs) : OfKind(P[a+k], kind) = IF Says(rs[k], kind) THEN <<rs[k]>> ELSE <<>>
<1>1. OfKind(<<>>, kind) = <<>>
  <2>1. <<>> \in Seq(T) /\ 1..Len(<<>>) = {}
    BY EmptySeq
  <2> QED
    BY <2>1, OfKindNone
<1>2. \A k \in 1..a : k # a => OfKind(P[k], kind) = <<>>
  BY <1>1 DEF Laid
<1>3. ASSUME NEW k \in 1..Len(rs)
      PROVE  OfKind(P[a+k], kind) = IF Says(rs[k], kind) THEN <<rs[k]>> ELSE <<>>
  <2>1. rs[k] \in T
    BY LenProperties
  <2>2. P[a+k] = <<rs[k]>>
    BY DEF Laid
  <2> QED
    BY <2>1, <2>2, OfKindSingle
<1> QED
  BY <1>2, <1>3

\* All results are of one kind, which the answer has none of.
LEMMA LaidResults ==
  ASSUME NEW T, NEW P \in Seq(Seq(T)), NEW rs \in Seq(T), NEW a \in Nat \ {0}, NEW kind,
         Laid(P, a, rs), Uniform(rs, kind), OfKind(P[a], kind) = <<>>
  PROVE  OfKind(FlattenSeq(P), kind) = rs
<1>1. /\ \A k \in 1..a : k # a => OfKind(P[k], kind) = <<>>
      /\ \A k \in 1..Len(rs) : OfKind(P[a+k], kind) = IF Says(rs[k], kind) THEN <<rs[k]>> ELSE <<>>
  BY LaidParts
<1>2. \A k \in 1..a : OfKind(P[k], kind) = <<>>
  BY <1>1
<1>3. \A k \in 1..Len(rs) : OfKind(P[a+k], kind) = <<rs[k]>>
  BY <1>1 DEF Uniform
<1>4. Len(P) = a + Len(rs)
  BY DEF Laid
<1>5. Yields(P, a, kind, rs)
  BY <1>2, <1>3, <1>4 DEF Yields
<1> QED
  BY <1>5, FlatEach

\* The blocks of other kinds are the answer's.
LEMMA LaidOthers ==
  ASSUME NEW T, NEW P \in Seq(Seq(T)), NEW rs \in Seq(T), NEW a \in Nat \ {0}, NEW kind, NEW other,
         Laid(P, a, rs), Uniform(rs, other), other # kind
  PROVE  OfKind(FlattenSeq(P), kind) = OfKind(P[a], kind)
<1>1. PICK n \in Nat : n = Len(rs)
  BY LenProperties
<1>2. Len(P) = a + n /\ a \in 1..(a + n)
  BY <1>1 DEF Laid
<1>3. \A k \in 1..(a + n) : k \in 1..a \/ \E j \in 1..n : k = a + j
  <2> TAKE k \in 1..(a + n)
  <2>1. k \in 1..a \/ (k - a \in 1..n /\ k = a + (k - a))
    BY <1>1
  <2> QED
    BY <2>1
<1>4. \A k \in 1..n : ~Says(rs[k], kind)
  BY <1>1 DEF Uniform, Says
<1>5. /\ \A k \in 1..a : k # a => OfKind(P[k], kind) = <<>>
      /\ \A k \in 1..n : OfKind(P[a+k], kind) = <<>>
  BY <1>1, <1>4, LaidParts
<1>6. Alone(P, a, kind)
  BY <1>2, <1>3, <1>5 DEF Alone
<1> QED
  BY <1>6, FlatOne

\* Text, images, calls and results.
Pieces(T, tx, im, us, rs) ==
  /\ tx \in Seq(T) /\ im \in Seq(T) /\ us \in Seq(T) /\ rs \in Seq(T)
  /\ Uniform(tx, "text") /\ Uniform(im, "image")
  /\ Uniform(us, "tool_use") /\ Uniform(rs, "tool_result")
IsNoText(e, T) == e \in T /\ e.kind = "text" /\ IsBlank(e.data)
\* The assistant's message is never without blocks.
AnswerPart(tx, im, us, e) ==
  LET all == Joined(Joined(tx, im), us) IN IF all = <<>> THEN <<e>> ELSE all

(* The assistant's message after what is left out, then the results.       *)
LEMMA ReadParts ==
  ASSUME NEW T, NEW tx, NEW im, NEW us, NEW rs, Pieces(T, tx, im, us, rs), NEW e, IsNoText(e, T),
         NEW P \in Seq(Seq(T)), NEW a \in Nat \ {0}, Laid(P, a, rs),
         P[a] = AnswerPart(tx, im, us, e), NEW kind \in Kinds
  PROVE  OfKind(FlattenSeq(P), kind) = PartOf(kind, tx, im, us, rs)
<1>1. /\ tx \in Seq(T) /\ im \in Seq(T) /\ us \in Seq(T) /\ rs \in Seq(T)
      /\ Uniform(tx, "text") /\ Uniform(im, "image")
      /\ Uniform(us, "tool_use") /\ Uniform(rs, "tool_result")
  BY DEF Pieces
<1>2. PICK all : all = Joined(Joined(tx, im), us)
  OBVIOUS
<1>3. OfKind(<<>>, kind) = <<>>
  <2>1. <<>> \in Seq(T) /\ 1..Len(<<>>) = {}
    BY EmptySeq
  <2> QED
    BY <2>1, OfKindNone
<1>4. OfKind(all, kind) = IF kind = "text" THEN tx ELSE IF kind = "image" THEN im
                          ELSE IF kind = "tool_use" THEN us ELSE <<>>
  BY <1>1, <1>2, AssistantParts
<1>5. OfKind(P[a], kind) = OfKind(all, kind)
  <2>1. P[a] = IF all = <<>> THEN <<e>> ELSE all
    BY <1>2 DEF AnswerPart
  <2>2. ~Says(e, kind)
    BY DEF Says, IsNoText
  <2>3. OfKind(<<e>>, kind) = <<>>
    BY <2>2, OfKindSingle DEF IsNoText
  <2> QED
    BY <1>3, <2>1, <2>3
<1>6. CASE kind = "tool_result"
  <2>1. OfKind(P[a], kind) = <<>>
    BY <1>4, <1>5, <1>6
  <2>2. Uniform(rs, kind)
    BY <1>1, <1>6
  <2>3. OfKind(FlattenSeq(P), kind) = rs
    BY <1>1, <2>1, <2>2, LaidResults
  <2> QED
    BY <1>6, <2>3 DEF PartOf
<1>7. CASE kind # "tool_result"
  <2>1. PICK other : other = "tool_result"
    OBVIOUS
  <2>2. Uniform(rs, other) /\ other # kind
    BY <1>1, <1>7, <2>1
  <2>3. OfKind(FlattenSeq(P), kind) = OfKind(P[a], kind)
    BY <1>1, <2>2, LaidOthers
  <2> QED
    BY <1>4, <1>5, <1>7, <2>3 DEF PartOf, Kinds
<1> QED
  BY <1>6, <1>7

-----------------------------------------------------------------------------
(***************************************************************************)
(* A turn with this text, thoughts, images and calls.                      *)
(***************************************************************************)

ThinkingOf(r) == IF IsBlank(r) THEN <<>> ELSE <<Block("thinking", r)>>
TextOf(t) == IF IsBlank(t) THEN <<>> ELSE <<Block("text", t)>>
ImagesOf(pictures) == [i \in DOMAIN pictures |-> Block("image", pictures[i])]
UsesOf(list) == [k \in DOMAIN list |-> ToolUse(list[k].id, argsMap(list[k].args))]
ResultsOf(list) == [k \in DOMAIN list |-> ToolResult(list[k].id, ResultOf(k))]
NoText == Block("text", <<>>)

\* A function on 1..n is a sequence.
LEMMA MappedIsSeq ==
  ASSUME NEW n \in Nat, NEW s, NEW T, s = [i \in 1..n |-> s[i]], \A i \in 1..n : s[i] \in T
  PROVE  s \in Seq(T) /\ Len(s) = n
<1>1. [i \in 1..n |-> s[i]] \in Seq(T)
  BY IsASeq
<1>2. s \in Seq(T) /\ DOMAIN s = 1..n
  BY <1>1
<1>3. PICK m \in Nat : m = Len(s) /\ DOMAIN s = 1..m
  BY <1>2, LenProperties
<1>4. m = n
  BY <1>2, <1>3
<1> QED
  BY <1>2, <1>3, <1>4

\* What the pieces are sequences of.
PieceSet(t, r, pictures, list) ==
  {NoText, Block("text", t), Block("thinking", r)}
  \union {ImagesOf(pictures)[i] : i \in DOMAIN pictures}
  \union {UsesOf(list)[k] : k \in DOMAIN list} \union {ResultsOf(list)[k] : k \in DOMAIN list}

\* The pieces of an answer are blocks.
LEMMA PiecesTyped ==
  ASSUME NEW t, NEW r, NEW U, NEW pictures \in Seq(U), NEW V, NEW list \in Seq(V),
         NEW T, T = PieceSet(t, r, pictures, list)
  PROVE  /\ NoText \in T /\ ThinkingOf(r) \in Seq(T) /\ TextOf(t) \in Seq(T)
         /\ ImagesOf(pictures) \in Seq(T) /\ Len(ImagesOf(pictures)) = Len(pictures)
         /\ UsesOf(list) \in Seq(T) /\ Len(UsesOf(list)) = Len(list)
         /\ ResultsOf(list) \in Seq(T) /\ Len(ResultsOf(list)) = Len(list)
<1>1. NoText \in T /\ Block("text", t) \in T /\ Block("thinking", r) \in T
  BY DEF PieceSet
<1>2. \A i \in 1..Len(pictures) : ImagesOf(pictures)[i] \in T
  BY LenProperties DEF PieceSet
<1>3. \A k \in 1..Len(list) : UsesOf(list)[k] \in T /\ ResultsOf(list)[k] \in T
  BY LenProperties DEF PieceSet
<1>4. \A b \in T : <<b>> \in Seq(T)
  OBVIOUS
<1>5. ThinkingOf(r) \in Seq(T) /\ TextOf(t) \in Seq(T)
  BY <1>1, <1>4, EmptySeq DEF ThinkingOf, TextOf
<1>6. /\ ImagesOf(pictures) \in Seq(T) /\ Len(ImagesOf(pictures)) = Len(pictures)
      /\ UsesOf(list) \in Seq(T) /\ Len(UsesOf(list)) = Len(list)
      /\ ResultsOf(list) \in Seq(T) /\ Len(ResultsOf(list)) = Len(list)
  <2>1. PICK m \in Nat : m = Len(pictures) /\ DOMAIN pictures = 1..m
    BY LenProperties
  <2>2. PICK n \in Nat : n = Len(list) /\ DOMAIN list = 1..n
    BY LenProperties
  <2>3. PICK im, us, rs : im = ImagesOf(pictures) /\ us = UsesOf(list) /\ rs = ResultsOf(list)
    OBVIOUS
  <2>4. im = [i \in 1..m |-> im[i]]
    BY <2>1, <2>3 DEF ImagesOf
  <2>5. us = [i \in 1..n |-> us[i]]
    BY <2>2, <2>3 DEF UsesOf
  <2>6. rs = [i \in 1..n |-> rs[i]]
    BY <2>2, <2>3 DEF ResultsOf
  <2>7. im \in Seq(T) /\ Len(im) = m
    BY <1>2, <2>1, <2>3, <2>4, MappedIsSeq
  <2>8. us \in Seq(T) /\ Len(us) = n
    BY <1>3, <2>2, <2>3, <2>5, MappedIsSeq
  <2>9. rs \in Seq(T) /\ Len(rs) = n
    BY <1>3, <2>2, <2>3, <2>6, MappedIsSeq
  <2> QED
    BY <2>1, <2>2, <2>3, <2>7, <2>8, <2>9
<1> QED
  BY <1>1, <1>5, <1>6

\* Each piece has blocks of its kind only.
LEMMA PiecesUniform ==
  ASSUME NEW t, NEW r, NEW U, NEW pictures \in Seq(U), NEW V, NEW list \in Seq(V)
  PROVE  /\ Uniform(ThinkingOf(r), "thinking") /\ Uniform(TextOf(t), "text")
         /\ Uniform(ImagesOf(pictures), "image")
         /\ Uniform(UsesOf(list), "tool_use") /\ Uniform(ResultsOf(list), "tool_result")
<1>1. 1..Len(<<>>) = {}
  BY EmptySeq
<1>2. ASSUME NEW b, NEW kind, Says(b, kind) PROVE Uniform(<<b>>, kind)
  <2>1. Len(<<b>>) = 1 /\ <<b>>[1] = b /\ \A i \in 1..1 : i = 1
    OBVIOUS
  <2> QED
    BY <1>2, <2>1 DEF Uniform
<1>3. /\ Len(ImagesOf(pictures)) = Len(pictures)
      /\ Len(UsesOf(list)) = Len(list) /\ Len(ResultsOf(list)) = Len(list)
  <2>1. PICK T : T = PieceSet(t, r, pictures, list)
    OBVIOUS
  <2> QED
    BY <2>1, PiecesTyped
<1>4. \A kind : Uniform(<<>>, kind)
  BY <1>1 DEF Uniform
<1>5. Uniform(ThinkingOf(r), "thinking")
  <2>1. Says(Block("thinking", r), "thinking")
    BY DEF Says, Block
  <2> QED
    BY <1>2, <1>4, <2>1 DEF ThinkingOf
<1>6. Uniform(TextOf(t), "text")
  <2>1. ~IsBlank(t) => Says(Block("text", t), "text")
    BY DEF Says, Block
  <2> QED
    BY <1>2, <1>4, <2>1 DEF TextOf
<1>7. Uniform(ImagesOf(pictures), "image")
  <2>1. \A i \in DOMAIN pictures : ImagesOf(pictures)[i].kind = "image"
    BY DEF ImagesOf, Block
  <2>2. Len(ImagesOf(pictures)) = Len(pictures) /\ DOMAIN pictures = 1..Len(pictures)
    BY <1>3, LenProperties
  <2> QED
    BY <2>1, <2>2 DEF Uniform, Says
<1>8. Uniform(UsesOf(list), "tool_use")
  <2>1. \A i \in DOMAIN list : UsesOf(list)[i].kind = "tool_use"
    BY DEF UsesOf, ToolUse, Block
  <2>2. Len(UsesOf(list)) = Len(list) /\ DOMAIN list = 1..Len(list)
    BY <1>3, LenProperties
  <2> QED
    BY <2>1, <2>2 DEF Uniform, Says
<1>9. Uniform(ResultsOf(list), "tool_result")
  <2>1. \A i \in DOMAIN list : ResultsOf(list)[i].kind = "tool_result"
    BY DEF ResultsOf, ToolResult, Block
  <2>2. Len(ResultsOf(list)) = Len(list) /\ DOMAIN list = 1..Len(list)
    BY <1>3, LenProperties
  <2> QED
    BY <2>1, <2>2 DEF Uniform, Says
<1> QED
  BY <1>5, <1>6, <1>7, <1>8, <1>9

\* What the consumer got has each kind's piece.
LEMMA DeliveredKinds ==
  ASSUME NEW t, NEW r, NEW U, NEW pictures \in Seq(U), NEW V, NEW list \in Seq(V), NEW kind \in Kinds
  PROVE  OfKind(assistantContentBlocks(t, r, pictures) \o toolMessages(list), kind)
           = PartOf(kind, TextOf(t), ImagesOf(pictures), UsesOf(list), ResultsOf(list))
<1>1. PICK T : T = PieceSet(t, r, pictures, list)
  OBVIOUS
<1>2. PICK th, tx, im, us, rs : /\ th = ThinkingOf(r) /\ tx = TextOf(t) /\ im = ImagesOf(pictures)
                                /\ us = UsesOf(list) /\ rs = ResultsOf(list)
  OBVIOUS
<1>3. /\ th \in Seq(T) /\ tx \in Seq(T) /\ im \in Seq(T) /\ us \in Seq(T) /\ rs \in Seq(T)
      /\ Len(us) = Len(list) /\ Len(rs) = Len(list)
  BY <1>1, <1>2, PiecesTyped
<1>4. /\ Uniform(th, "thinking") /\ Uniform(tx, "text") /\ Uniform(im, "image")
      /\ Uniform(us, "tool_use") /\ Uniform(rs, "tool_result")
  BY <1>2, PiecesUniform
<1>5. assistantContentBlocks(t, r, pictures) = (th \o tx) \o im
  BY <1>2 DEF assistantContentBlocks, ThinkingOf, TextOf, ImagesOf
<1>6. PICK n \in Nat : n = Len(list) /\ DOMAIN list = 1..n
  BY LenProperties
<1>7. PICK P : P = [k \in 1..n |-> <<us[k], rs[k]>>]
  OBVIOUS
<1>8. toolMessages(list) = FlattenSeq(P)
  <2>1. \A k \in 1..n : /\ us[k] = ToolUse(list[k].id, argsMap(list[k].args))
                        /\ rs[k] = ToolResult(list[k].id, ResultOf(k))
    BY <1>2, <1>6 DEF UsesOf, ResultsOf
  <2>2. P = [k \in 1..n |-> <<ToolUse(list[k].id, argsMap(list[k].args)),
                              ToolResult(list[k].id, ResultOf(k))>>]
    BY <1>7, <2>1
  <2> QED
    BY <1>6, <2>2 DEF toolMessages
<1>9. P \in Seq(Seq(T)) /\ Len(P) = n
  <2>1. \A k \in 1..n : us[k] \in T /\ rs[k] \in T
    BY <1>3, <1>6, LenProperties
  <2>2. \A u \in T, v \in T : <<u, v>> \in Seq(T)
    OBVIOUS
  <2>3. P = [k \in 1..n |-> P[k]] /\ \A k \in 1..n : P[k] \in Seq(T)
    BY <1>7, <2>1, <2>2
  <2> QED
    BY <2>3, MappedIsSeq
<1>10. OfKind(FlattenSeq(P), kind) = CallPart(kind, us, rs)
  <2>1. Len(us) = Len(P) /\ Len(rs) = Len(P) /\ \A k \in 1..Len(P) : P[k] = <<us[k], rs[k]>>
    BY <1>3, <1>6, <1>7, <1>9
  <2> QED
    BY <1>3, <1>4, <1>9, <2>1, FlatPairs
<1>11. FlattenSeq(P) \in Seq(T)
  BY <1>9, FlattenType
<1>12. OfKind(((th \o tx) \o im) \o FlattenSeq(P), kind) = PartOf(kind, tx, im, us, rs)
  <2>1. PICK f : f = FlattenSeq(P)
    OBVIOUS
  <2>2. f \in Seq(T) /\ OfKind(f, kind) = CallPart(kind, us, rs)
    BY <1>10, <1>11, <2>1
  <2>3. Delivers(T, th, tx, im, us, rs, f, kind)
    BY <1>3, <1>4, <2>2 DEF Delivers
  <2>4. OfKind(Joined(Joined(Joined(th, tx), im), f), kind) = PartOf(kind, tx, im, us, rs)
    BY <2>3, DeliveredParts
  <2> QED
    BY <2>1, <2>4 DEF Joined
<1> QED
  BY <1>2, <1>5, <1>8, <1>12

(* A call's history has its ID and arguments, an image its URL.            *)
LEMMA AssistantReadBack ==
  ASSUME NEW t, NEW r, NEW pictures, NEW list, IsBlank(t) <=> t = <<>>
  PROVE  assistantBlocks(assistantHistory(t, r, pictures, list))
           = AnswerPart(TextOf(t), ImagesOf(pictures), UsesOf(list), NoText)
<1>1. PICK raw : raw = assistantHistory(t, r, pictures, list)
  OBVIOUS
<1>2. /\ raw.content = t
      /\ raw.images = [i \in DOMAIN pictures |-> [nested |-> TRUE, url |-> pictures[i]]]
      /\ raw.tool_calls = [k \in DOMAIN list |-> [id |-> list[k].id, arguments |-> list[k].args]]
  BY <1>1 DEF assistantHistory, encodeHistoryImages
<1>3. (IF raw.content = <<>> THEN <<>> ELSE <<Block("text", raw.content)>>) = TextOf(t)
  BY <1>2 DEF TextOf
<1>4. [i \in DOMAIN raw.images |-> Block("image", imageURL(raw.images[i]))] = ImagesOf(pictures)
  <2>1. DOMAIN raw.images = DOMAIN pictures /\ \A i \in DOMAIN pictures : raw.images[i].url = pictures[i]
    BY <1>2
  <2>2. \A i \in DOMAIN pictures : imageURL(raw.images[i]) = pictures[i]
    BY <2>1 DEF imageURL
  <2> QED
    BY <2>1, <2>2 DEF ImagesOf
<1>5. [k \in DOMAIN raw.tool_calls |->
         ToolUse(raw.tool_calls[k].id, parseArgumentsValue(raw.tool_calls[k].arguments))] = UsesOf(list)
  <2>1. /\ DOMAIN raw.tool_calls = DOMAIN list
        /\ \A k \in DOMAIN list : raw.tool_calls[k].id = list[k].id /\ raw.tool_calls[k].arguments = list[k].args
    BY <1>2
  <2>2. \A args : parseArgumentsValue(args) = argsMap(args)
    BY DEF parseArgumentsValue, argsMap
  <2> QED
    BY <2>1, <2>2 DEF UsesOf
<1> QED
  BY <1>1, <1>3, <1>4, <1>5 DEF assistantBlocks, AnswerPart, Joined, NoText

\* What a stored message adds to what is read back.
Reads(msg) ==
  LET p == persistedSessionMessage(msg) IN IF p.type = "assistant" THEN p.content.blocks ELSE <<>>

\* Only an answer and its results are read as blocks of the assistant.
LEMMA MessagesRead ==
  ASSUME NEW prompt, NEW content, NEW t, NEW r, NEW pictures, NEW V, NEW list \in Seq(V)
  PROVE  /\ Reads([role |-> "system", content |-> prompt]) = <<>>
         /\ Reads([role |-> "user", content |-> content]) = <<>>
         /\ Reads(assistantHistory(t, r, pictures, list))
              = assistantBlocks(assistantHistory(t, r, pictures, list))
         /\ \A k \in DOMAIN list : Reads(toolResultsHistory(list)[k]) = <<ResultsOf(list)[k]>>
<1>1. Reads([role |-> "system", content |-> prompt]) = <<>>
  <2>1. PICK x : x = [role |-> "system", content |-> prompt]
    OBVIOUS
  <2>2. persistedSessionMessage(x).type = "system"
    BY <2>1 DEF persistedSessionMessage
  <2> QED
    BY <2>1, <2>2 DEF Reads
<1>2. Reads([role |-> "user", content |-> content]) = <<>>
  <2>1. PICK x : x = [role |-> "user", content |-> content]
    OBVIOUS
  <2>2. persistedSessionMessage(x).type = "user"
    BY <2>1 DEF persistedSessionMessage
  <2> QED
    BY <2>1, <2>2 DEF Reads
<1>3. Reads(assistantHistory(t, r, pictures, list))
        = assistantBlocks(assistantHistory(t, r, pictures, list))
  <2>1. PICK x : x = assistantHistory(t, r, pictures, list)
    OBVIOUS
  <2>2. x.role = "assistant"
    BY <2>1 DEF assistantHistory
  <2>3. persistedSessionMessage(x) = [type |-> "assistant", content |-> [is |-> "blocks", blocks |-> assistantBlocks(x)]]
    BY <2>2 DEF persistedSessionMessage, Blocks
  <2> QED
    BY <2>1, <2>3 DEF Reads
<1>4. ASSUME NEW k \in DOMAIN list PROVE Reads(toolResultsHistory(list)[k]) = <<ResultsOf(list)[k]>>
  <2>1. PICK x : x = toolResultsHistory(list)[k]
    OBVIOUS
  <2>2. x = [role |-> "tool", tool_call_id |-> list[k].id, content |-> ResultOf(k)]
    BY <2>1 DEF toolResultsHistory
  <2>3. PICK res : res = ToolResult(list[k].id, ResultOf(k))
    OBVIOUS
  <2>4. ToolResult(x.tool_call_id, x.content) = res
    BY <2>2, <2>3
  <2>5. persistedSessionMessage(x) = [type |-> "assistant", content |-> [is |-> "blocks", blocks |-> <<res>>]]
    BY <2>2, <2>4 DEF persistedSessionMessage, Blocks
  <2>6. ResultsOf(list)[k] = res
    BY <2>3 DEF ResultsOf
  <2> QED
    BY <2>1, <2>5, <2>6 DEF Reads
<1> QED
  BY <1>1, <1>2, <1>3, <1>4

\* u has a, b and c one after another.
Threefold(u, T, a, b, c, l, m, n) ==
  /\ u \in Seq(T) /\ Len(u) = l + m + n
  /\ \A i \in 1..l : u[i] = a[i]
  /\ \A i \in 1..m : u[l + i] = b[i]
  /\ \A i \in 1..n : u[l + m + i] = c[i]

\* The members of three sequences in a row, by place.
LEMMA ThreeConcat ==
  ASSUME NEW T, NEW a \in Seq(T), NEW b \in Seq(T), NEW c \in Seq(T),
         NEW l \in Nat, NEW m \in Nat, NEW n \in Nat, l = Len(a), m = Len(b), n = Len(c),
         NEW u, u = Joined(Joined(a, b), c)
  PROVE  Threefold(u, T, a, b, c, l, m, n)
<1>1. PICK d : d = a \o b /\ u = d \o c
  BY DEF Joined
<1>2. /\ d \in Seq(T) /\ Len(d) = l + m
      /\ \A i \in 1..(l + m) : d[i] = IF i <= l THEN a[i] ELSE b[i - l]
  BY <1>1, ConcatProperties
<1>3. /\ u \in Seq(T) /\ Len(u) = (l + m) + n
      /\ \A i \in 1..((l + m) + n) : u[i] = IF i <= l + m THEN d[i] ELSE c[i - (l + m)]
  BY <1>1, <1>2, ConcatProperties
<1>4. \A i \in 1..l : u[i] = a[i]
  <2> TAKE i \in 1..l
  <2>1. i \in 1..(l + m) /\ i \in 1..((l + m) + n) /\ i <= l /\ i <= l + m
    OBVIOUS
  <2> QED
    BY <1>2, <1>3, <2>1
<1>5. \A i \in 1..m : u[l + i] = b[i]
  <2> TAKE i \in 1..m
  <2>1. /\ l + i \in 1..(l + m) /\ l + i \in 1..((l + m) + n) /\ ~(l + i <= l) /\ l + i <= l + m
        /\ (l + i) - l = i
    OBVIOUS
  <2> QED
    BY <1>2, <1>3, <2>1
<1>6. \A i \in 1..n : u[l + m + i] = c[i]
  <2> TAKE i \in 1..n
  <2>1. l + m + i \in 1..((l + m) + n) /\ ~(l + m + i <= l + m) /\ (l + m + i) - (l + m) = i
    OBVIOUS
  <2> QED
    BY <1>3, <2>1
<1> QED
  BY <1>3, <1>4, <1>5, <1>6 DEF Threefold

\* Parts that have nothing before one of them, which has these blocks, and a
\* result each after it.
LaidOut(parts, blocks, list) ==
  \E a \in Nat \ {0} :
    /\ parts = [i \in 1..(a + Len(list)) |-> parts[i]]
    /\ \A k \in 1..a : k # a => parts[k] = <<>>
    /\ parts[a] = blocks
    /\ \A k \in 1..Len(list) : parts[a+k] = <<ResultsOf(list)[k]>>

(* A stored turn is read back as the system's and the user's message, the  *)
(* assistant's, and one for each result.                                   *)
LEMMA StoredLaid ==
  ASSUME NEW prompt, NEW content, NEW t, NEW r, NEW pictures, NEW V, NEW list \in Seq(V),
         NEW messages, messages = stored(prompt, content, t, r, pictures, list),
         NEW parts, parts = [i \in DOMAIN messages |-> Reads(messages[i])]
  PROVE  LaidOut(parts, assistantBlocks(assistantHistory(t, r, pictures, list)), list)
<1>1. PICK s, sys, u, w, res : /\ s = [role |-> "system", content |-> prompt]
                            /\ sys = (IF prompt = <<>> THEN <<>> ELSE <<s>>)
                            /\ u = [role |-> "user", content |-> historyUserContent(content)]
                            /\ w = assistantHistory(t, r, pictures, list)
                            /\ res = toolResultsHistory(list)
  OBVIOUS
<1>2. PICK n \in Nat : n = Len(list) /\ DOMAIN list = 1..n
  BY LenProperties
<1>3. messages = Joined(Joined(sys, <<u, w>>), res)
  BY <1>1 DEF stored, Joined
<1>4. PICK T : T = {s, u, w} \union {res[k] : k \in 1..n}
  OBVIOUS
<1>5. res \in Seq(T) /\ Len(res) = n
  <2>1. res = [k \in 1..n |-> res[k]] /\ \A k \in 1..n : res[k] \in T
    BY <1>1, <1>2, <1>4 DEF toolResultsHistory
  <2> QED
    BY <2>1, MappedIsSeq
<1>6. PICK l \in Nat : l = Len(sys) /\ l \in {0, 1}
  <2>1. Len(<<>>) = 0 /\ Len(<<s>>) = 1
    OBVIOUS
  <2> QED
    BY <1>1, <2>1
<1>7. sys \in Seq(T) /\ \A i \in 1..l : sys[i] = s
  <2>1. s \in T
    BY <1>4
  <2>2. CASE prompt = <<>>
    <3>1. sys = <<>>
      BY <1>1, <2>2
    <3>2. 1..Len(<<>>) = {} /\ <<>> \in Seq(T)
      BY EmptySeq
    <3> QED
      BY <1>6, <3>1, <3>2
  <2>3. CASE prompt # <<>>
    <3>1. sys = <<s>>
      BY <1>1, <2>3
    <3>2. <<s>> \in Seq(T) /\ Len(<<s>>) = 1 /\ <<s>>[1] = s /\ \A i \in 1..1 : i = 1
      BY <2>1
    <3> QED
      BY <1>6, <3>1, <3>2
  <2> QED
    BY <2>2, <2>3
<1>8. <<u, w>> \in Seq(T) /\ Len(<<u, w>>) = 2 /\ <<u, w>>[1] = u /\ <<u, w>>[2] = w
  <2>1. u \in T /\ w \in T
    BY <1>4
  <2> QED
    BY <2>1
<1>9. PICK mid : mid = <<u, w>>
  OBVIOUS
<1>10. /\ messages \in Seq(T) /\ Len(messages) = l + 2 + n
       /\ \A i \in 1..l : messages[i] = s
       /\ \A i \in 1..2 : messages[l + i] = mid[i]
       /\ \A i \in 1..n : messages[l + 2 + i] = res[i]
  <2>1. PICK two \in Nat : two = 2
    OBVIOUS
  <2>2. mid \in Seq(T) /\ two = Len(mid)
    BY <1>8, <1>9, <2>1
  <2>3. messages = Joined(Joined(sys, mid), res)
    BY <1>3, <1>9
  <2>4. sys \in Seq(T) /\ l = Len(sys) /\ res \in Seq(T) /\ n = Len(res)
    BY <1>5, <1>6, <1>7
  <2>5. Threefold(messages, T, sys, mid, res, l, two, n)
    BY <2>2, <2>3, <2>4, ThreeConcat
  <2> QED
    BY <1>7, <2>1, <2>5 DEF Threefold
<1>11. messages[l + 1] = u /\ messages[l + 2] = w
  <2>1. 1 \in 1..2 /\ 2 \in 1..2
    OBVIOUS
  <2> QED
    BY <1>8, <1>9, <1>10, <2>1
<1>12. PICK a \in Nat \ {0} : a = l + 2
  BY <1>6
<1>13. DOMAIN messages = 1..(a + n)
  <2>1. DOMAIN messages = 1..Len(messages)
    BY <1>10, LenProperties
  <2> QED
    BY <1>10, <1>12, <2>1
<1>14. /\ Reads(s) = <<>> /\ Reads(u) = <<>> /\ Reads(w) = assistantBlocks(w)
       /\ \A k \in 1..n : Reads(res[k]) = <<ResultsOf(list)[k]>>
  BY <1>1, <1>2, MessagesRead
<1>15. \A i \in 1..(a + n) : parts[i] = Reads(messages[i])
  BY <1>13
<1>16. \A k \in 1..a : k # a => parts[k] = <<>>
  <2> SUFFICES ASSUME NEW k \in 1..a, k # a PROVE parts[k] = <<>>
    OBVIOUS
  <2>1. k \in 1..(a + n) /\ (k \in 1..l \/ k = l + 1)
    BY <1>6, <1>12
  <2>2. parts[k] = Reads(messages[k])
    BY <1>15, <2>1
  <2>3. messages[k] = s \/ messages[k] = u
    BY <1>10, <1>11, <2>1
  <2> QED
    BY <1>14, <2>2, <2>3
<1>17. parts[a] = assistantBlocks(w)
  <2>1. a \in 1..(a + n)
    BY <1>12
  <2>2. messages[a] = w
    BY <1>11, <1>12
  <2> QED
    BY <1>14, <1>15, <2>1, <2>2
<1>18. \A k \in 1..n : parts[a+k] = <<ResultsOf(list)[k]>>
  <2> TAKE k \in 1..n
  <2>1. a + k \in 1..(a + n)
    BY <1>12
  <2>2. messages[a + k] = res[k]
    BY <1>10, <1>12
  <2> QED
    BY <1>14, <1>15, <2>1, <2>2
<1>19. parts = [i \in 1..(a + n) |-> parts[i]]
  BY <1>13
<1> QED
  BY <1>1, <1>2, <1>16, <1>17, <1>18, <1>19 DEF LaidOut

\* What is read back has each kind's piece.
LEMMA ReadKinds ==
  ASSUME NEW prompt, NEW content, NEW t, NEW r, NEW U, NEW pictures \in Seq(U), NEW V, NEW list \in Seq(V),
         IsBlank(t) <=> t = <<>>,
         NEW messages, messages = stored(prompt, content, t, r, pictures, list),
         NEW parts, parts = [i \in DOMAIN messages |-> Reads(messages[i])],
         NEW kind \in Kinds
  PROVE  OfKind(FlattenSeq(parts), kind)
           = PartOf(kind, TextOf(t), ImagesOf(pictures), UsesOf(list), ResultsOf(list))
<1>1. PICK T : T = PieceSet(t, r, pictures, list)
  OBVIOUS
<1>2. PICK tx, im, us, rs : /\ tx = TextOf(t) /\ im = ImagesOf(pictures)
                            /\ us = UsesOf(list) /\ rs = ResultsOf(list)
  OBVIOUS
<1>3. /\ NoText \in T /\ tx \in Seq(T) /\ im \in Seq(T) /\ us \in Seq(T) /\ rs \in Seq(T)
      /\ Len(rs) = Len(list)
  BY <1>1, <1>2, PiecesTyped
<1>4. Uniform(tx, "text") /\ Uniform(im, "image") /\ Uniform(us, "tool_use") /\ Uniform(rs, "tool_result")
  BY <1>2, PiecesUniform
<1>5. PICK n \in Nat : n = Len(list)
  BY LenProperties
<1>6. PICK a \in Nat \ {0} :
        /\ parts = [i \in 1..(a + Len(list)) |-> parts[i]]
        /\ \A k \in 1..a : k # a => parts[k] = <<>>
        /\ parts[a] = assistantBlocks(assistantHistory(t, r, pictures, list))
        /\ \A k \in 1..Len(list) : parts[a+k] = <<ResultsOf(list)[k]>>
  <2>1. PICK b : b = assistantBlocks(assistantHistory(t, r, pictures, list))
    OBVIOUS
  <2>2. LaidOut(parts, b, list)
    BY <2>1, StoredLaid
  <2> QED
    BY <2>1, <2>2, Zenon DEF LaidOut
<1>7. parts[a] = AnswerPart(tx, im, us, NoText)
  BY <1>2, <1>6, AssistantReadBack
<1>8. parts = [i \in 1..(a + n) |-> parts[i]] /\ \A k \in 1..n : parts[a+k] = <<rs[k]>>
  BY <1>2, <1>5, <1>6
<1>9. parts \in Seq(Seq(T)) /\ Len(parts) = a + n
  <2>1. PICK all : all = Joined(Joined(tx, im), us)
    OBVIOUS
  <2>2. all \in Seq(T)
    BY <1>3, <2>1, OfKindThree
  <2>3. <<>> \in Seq(T) /\ \A b \in T : <<b>> \in Seq(T)
    BY EmptySeq
  <2>4. parts[a] \in Seq(T)
    BY <1>3, <1>7, <2>1, <2>2, <2>3 DEF AnswerPart
  <2>5. \A k \in 1..a : parts[k] \in Seq(T)
    BY <1>6, <2>3, <2>4
  <2>6. \A k \in 1..n : parts[a+k] \in Seq(T)
    <3>1. \A k \in 1..n : rs[k] \in T
      BY <1>3, <1>5, LenProperties
    <3> QED
      BY <1>8, <2>3, <3>1
  <2>7. \A k \in 1..(a + n) : parts[k] \in Seq(T)
    <3> TAKE k \in 1..(a + n)
    <3>1. k \in 1..a \/ (k - a \in 1..n /\ k = a + (k - a))
      OBVIOUS
    <3> QED
      BY <2>5, <2>6, <3>1
  <2>8. a + n \in Nat
    OBVIOUS
  <2> QED
    BY <1>8, <2>7, <2>8, MappedIsSeq
<1>10. Laid(parts, a, rs)
  BY <1>3, <1>5, <1>6, <1>8, <1>9 DEF Laid
<1>11. IsNoText(NoText, T)
  <2>1. NoText.kind = "text" /\ NoText.data = <<>>
    BY DEF NoText, Block
  <2> QED
    BY <1>3, <2>1, EmptyTuple DEF IsNoText, IsBlank
<1>12. Pieces(T, tx, im, us, rs)
  BY <1>3, <1>4 DEF Pieces
<1>13. OfKind(FlattenSeq(parts), kind) = PartOf(kind, tx, im, us, rs)
  <2>1. parts \in Seq(Seq(T))
    BY <1>9
  <2> QED
    BY <1>7, <1>10, <1>11, <1>12, <2>1, ReadParts
<1> QED
  BY <1>2, <1>13

(* Blocks of a kind are read back as they were delivered.                  *)
LEMMA KindsReadBack ==
  ASSUME NEW prompt, NEW content, NEW t, NEW r, NEW U, NEW pictures \in Seq(U), NEW V, NEW list \in Seq(V),
         IsBlank(t) <=> t = <<>>, NEW kind \in Kinds,
         NEW read, read = GetSessionMessages(stored(prompt, content, t, r, pictures, list)),
         NEW parts, parts = [i \in DOMAIN read |->
                              IF read[i].type = "assistant" THEN read[i].content.blocks ELSE <<>>]
  PROVE  OfKind(FlattenSeq(parts), kind)
           = OfKind(assistantContentBlocks(t, r, pictures) \o toolMessages(list), kind)
<1>1. PICK messages : messages = stored(prompt, content, t, r, pictures, list)
  OBVIOUS
<1>2. read = [i \in DOMAIN messages |-> persistedSessionMessage(messages[i])]
  BY <1>1 DEF GetSessionMessages
<1>3. DOMAIN read = DOMAIN messages
  BY <1>2
<1>4. \A i \in DOMAIN messages :
        Reads(messages[i]) = IF read[i].type = "assistant" THEN read[i].content.blocks ELSE <<>>
  BY <1>2 DEF Reads
<1>5. parts = [i \in DOMAIN messages |-> Reads(messages[i])]
  BY <1>3, <1>4
<1>6. OfKind(FlattenSeq(parts), kind)
        = PartOf(kind, TextOf(t), ImagesOf(pictures), UsesOf(list), ResultsOf(list))
  BY <1>1, <1>5, ReadKinds
<1>7. OfKind(assistantContentBlocks(t, r, pictures) \o toolMessages(list), kind)
        = PartOf(kind, TextOf(t), ImagesOf(pictures), UsesOf(list), ResultsOf(list))
  BY DeliveredKinds
<1> QED
  BY <1>6, <1>7

\* A trimmed text is blank only if it is empty.
LEMMA TrimmedSolid ==
  ASSUME NEW T, NEW s \in Seq(T)
  PROVE  IsBlank(TrimSpace(s)) <=> TrimSpace(s) = <<>>
<1>1. IsBlank(<<>>)
  BY EmptyTuple DEF IsBlank
<1>2. PICK S : S = {i \in DOMAIN s : s[i] # "_"}
  OBVIOUS
<1>3. TrimSpace(s) = IF S = {} THEN <<>> ELSE SubSeq(s, Min(S), Max(S))
  BY <1>2 DEF TrimSpace
<1>4. CASE S = {}
  BY <1>1, <1>3, <1>4
<1>5. CASE S # {}
  <2>1. PICK n \in Nat : n = Len(s) /\ DOMAIN s = 1..n
    BY LenProperties
  <2>2. S \in SUBSET Nat /\ S \in SUBSET (0..n) /\ S \subseteq 1..n
    <3>1. S \subseteq 1..n
      BY <1>2, <2>1
    <3>2. \A i \in 1..n : i \in Nat /\ i \in 0..n
      BY <2>1
    <3> QED
      BY <3>1, <3>2
  <2>3. PICK lo, hi : lo = Min(S) /\ hi = Max(S)
    OBVIOUS
  <2>4. lo \in S /\ hi \in S /\ lo <= hi
    BY <1>5, <2>2, <2>3, MinIsLeast, MaxIsGreatest
  <2>5. lo \in 1..n /\ hi \in 1..n
    BY <2>2, <2>4
  <2>6. PICK u : u = SubSeq(s, lo, hi)
    OBVIOUS
  <2>7. u \in Seq(T) /\ Len(u) = hi - lo + 1 /\ u[1] = s[lo]
    <3>1. \A i \in lo..hi : s[i] \in T
      BY <2>1, <2>5, LenProperties
    <3>2. u \in Seq(T) /\ Len(u) = IF lo <= hi THEN hi - lo + 1 ELSE 0
      BY <2>5, <2>6, <3>1, SubSeqProperties
    <3>3. u[1] = s[lo + 1 - 1]
      BY <2>4, <2>5, <2>6, <3>1, SubSeqProperties
    <3>4. lo + 1 - 1 = lo
      BY <2>5
    <3> QED
      BY <2>4, <3>2, <3>3, <3>4
  <2>8. 1 \in DOMAIN u
    <3>1. 1 \in 1..Len(u)
      BY <2>4, <2>5, <2>7
    <3> QED
      BY <2>7, <3>1, LenProperties
  <2>9. u[1] # "_"
    BY <1>2, <2>4, <2>7
  <2>10. ~IsBlank(u) /\ u # <<>>
    BY <2>8, <2>9, EmptyTuple DEF IsBlank
  <2> QED
    BY <1>3, <1>5, <2>3, <2>6, <2>10
<1> QED
  BY <1>4, <1>5

\* Once a turn is done what is read back is what was delivered, kind by kind.
LEMMA DoneReadBack ==
  ASSUME Typed, Stages, KeptInv, phase = "done", NEW kind \in Kinds
  PROVE  LET list == orderCalls(calls)
             delivered == assistantContentBlocks(answer, answerReasoning, images) \o toolMessages(list)
             read == GetSessionMessages(stored(answer, Text(answer), answer, answerReasoning, images, list))
             blocks == FlattenSeq([i \in DOMAIN read |->
                         IF read[i].type = "assistant" THEN read[i].content.blocks ELSE <<>>])
         IN  OfKind(blocks, kind) = OfKind(delivered, kind)
<1>1. PICK list : list = orderCalls(calls)
  OBVIOUS
<1>2. PICK V : list \in Seq(V)
  BY <1>1, CallsListed DEF KeptInv
<1>3. PICK t, r, pictures : t = answer /\ r = answerReasoning /\ pictures = images
  OBVIOUS
<1>4. pictures \in Seq(Urls)
  BY <1>3 DEF Typed, TypeOK
<1>5. IsBlank(t) <=> t = <<>>
  <2>1. text \in Seq(Tokens)
    BY DEF Typed, TypeOK
  <2> QED
    BY <1>3, <2>1, TrimmedSolid DEF answer
<1>6. PICK read : read = GetSessionMessages(stored(t, Text(t), t, r, pictures, list))
  OBVIOUS
<1>7. PICK parts : parts = [i \in DOMAIN read |->
                             IF read[i].type = "assistant" THEN read[i].content.blocks ELSE <<>>]
  OBVIOUS
<1>8. OfKind(FlattenSeq(parts), kind)
        = OfKind(assistantContentBlocks(t, r, pictures) \o toolMessages(list), kind)
  BY <1>2, <1>4, <1>5, <1>6, <1>7, KindsReadBack
<1> QED
  BY <1>1, <1>3, <1>6, <1>7, <1>8

\* What is kept reads back.
LEMMA KeptReadsBack ==
  ASSUME Typed, Stages, KeptInv
  PROVE  ReadBack
<1>1. \A content \in UserContents : parseUserContentValue(historyUserContent(content)) = content
  BY ContentReadBack
<1>2. ASSUME IncludePartialMessages PROVE TrimSpace(emitted) = answer
  <2>1. emitted \in Seq(Tokens) /\ Withheld(emitted, text)
    BY <1>2 DEF Typed, TypeOK, KeptInv
  <2> QED
    BY <2>1, ShownTrims DEF answer
<1>3. ASSUME phase = "done" PROVE IsInjective(images) /\ Range(images) = urls
  <2>1. block = <<>> /\ ~broken
    BY <1>3 DEF Stages
  <2>2. Sound /\ Arriving = {}
    BY <2>1, EmptyTuple DEF Sound, Arriving
  <2> QED
    BY <2>2 DEF KeptInv
<1>4. Kinds = {"text", "image", "tool_use", "tool_result"}
  BY DEF Kinds
<1> QED
  BY <1>1, <1>2, <1>3, <1>4, DoneReadBack DEF ReadBack

(* A session read back says what was said: the user's content as it was,   *)
(* the answer with its text, images, calls and results in their order,     *)
(* what was shown piece by piece is that text, and every image the server  *)
(* sent is there once (appendNewAssistantImages, assistantHistory,         *)
(* persistedSessionMessage, parseUserContentValue).                        *)
THEOREM SessionsReadBack == Spec => []ReadBack
<1>1. Init => Typed /\ Stages /\ KeptInv
  BY InitType, StagesInit, InitKept
<1>2. Typed /\ Stages /\ KeptInv /\ [Next]_vars => (Typed /\ Stages /\ KeptInv)'
  BY NextType, StagesNext, NextKept
<1>3. Typed /\ Stages /\ KeptInv => ReadBack
  BY KeptReadsBack
<1> QED
  BY <1>1, <1>2, <1>3, PTL DEF Spec
=============================================================================
