------------------------ MODULE NativeEndpointsProofs ------------------------
(***************************************************************************)
(* A call of LM Studio's own endpoints that returns without an error was   *)
(* carried out, once, and a conversation the server keeps consists of the  *)
(* inputs of the chats that returned, for every number of callers, calls   *)
(* and models and every list of options.  The invariant says what the      *)
(* server's answer tells of the call, and that a stored response stands    *)
(* for its own input after those of the chats before it.                   *)
(***************************************************************************)
EXTENDS NativeEndpoints, WellFoundedInduction, TLAPS

Fields == {"who", "kind", "to", "body", "sent", "ran", "reply", "result"}
Changing == {"load", "unload", "download", "chat"}
Replies == {"none", "answer", "empty", "garbage", "odd", "status", "errordoc"}

\* The calls are a sequence of records.
AreCalls ==
  /\ calls \in Seq({calls[i] : i \in DOMAIN calls})
  /\ \A i \in DOMAIN calls : DOMAIN calls[i] = Fields

\* A call is one request at a time, carried out once at most, and its result
\* is what the reply to it makes of it.
Honest(i) ==
  LET c == calls[i]
  IN  /\ c.who \in Callers /\ c.kind \in use.kinds /\ c.kind \in Kinds
      /\ c.sent \in 0..(IF c.kind = "list" THEN 2 ELSE 1)
      /\ c.ran \in 0..c.sent /\ c.reply \in Replies
      /\ c.result = Pending \/ c.result.is \in {"error", "ok"}
      /\ c.sent > 0 /\ c.reply = "none" => c.ran < c.sent
      /\ c.sent = 0 => c.reply = "none"
      /\ c.reply \in {"answer", "empty"} => c.ran > 0
      /\ c.result.is = "ok" => c.reply \in {"answer", "empty", "errordoc"}
      /\ c.kind \in Changing /\ c.result.is = "ok" =>
           /\ c.reply # "errordoc"
           /\ c.result.handle = IF c.reply = "answer" THEN i ELSE 0
      /\ c.kind = "list" /\ c.result.is = "ok" /\ c.reply # "errordoc" => c.result.names = Models

\* A caller waits for one call at a time.
OneAtATime ==
  \A i, j \in DOMAIN calls :
    j < i /\ calls[i].who = calls[j].who => calls[j].result.is # "pending"

\* The chats of the same caller that returned before chat i was made.
Before(i) == {j \in Done(calls[i].who, "chat") : j < i}
Previous(i) == Get(calls[i].body, "previous_response_id", 0)
Clean(I) == \A j \in I : calls[j].result.handle # 0 /\ calls[j].body.store
Turns(I) == {j \in I : "input" \in DOMAIN calls[j].body}
Increasing(s) == \A a, b \in DOMAIN s : a < b => s[a] < s[b]

\* What the server keeps was made by calls; a chat that was carried out is kept.
Kept ==
  /\ loaded \subseteq DOMAIN calls /\ jobs \subseteq DOMAIN calls
  /\ DOMAIN chats \subseteq DOMAIN calls
  /\ \A i \in DOMAIN calls :
       calls[i].kind = "chat" /\ calls[i].ran > 0 /\ calls[i].body.store => i \in DOMAIN chats

\* A chat goes on from the response before, and what the server keeps for it are
\* the inputs up to its own.
Continues(i) ==
  /\ calls[i].kind = "chat" =>
       Previous(i) = IF Before(i) = {} THEN 0 ELSE calls[Max(Before(i))].result.handle
  /\ i \in DOMAIN chats =>
       /\ calls[i].kind = "chat" /\ chats[i] \in Seq(DOMAIN calls)
       /\ Clean(Before(i)) =>
            Range(chats[i]) = Turns(Before(i) \union {i}) /\ Increasing(chats[i])

NativeInv ==
  /\ use \in Uses /\ AreCalls /\ Len(calls) <= use.calls
  /\ \A i \in DOMAIN calls : Honest(i)
  /\ OneAtATime
  /\ Kept
  /\ \A i \in DOMAIN calls : Continues(i)

-----------------------------------------------------------------------------
(* Facts about numbers, functions and sequences.                           *)

(* A nonempty set of natural numbers has a least element.                  *)
LEMMA LeastOfSet ==
  ASSUME NEW S, S \subseteq Nat, S # {}
  PROVE  \E x \in S : \A y \in S : x <= y
<1>1. PICK x \in S : \A y \in S : ~(<<y, x>> \in OpToRel(<, Nat))
  BY NatLessThanWellFounded, WFMin
<1>2. \A y \in S : ~(y < x)
  BY <1>1 DEF OpToRel
<1> QED
  BY <1>2

(* The greatest of some numbers up to n is one of them.                    *)
LEMMA MaxIsLast ==
  ASSUME NEW n \in Nat, NEW I, I \subseteq 1..n, I # {}
  PROVE  Max(I) \in I /\ \A j \in I : j <= Max(I)
<1> DEFINE above == {k \in Nat : \A i \in I : i <= k}
<1>1. n \in above
  OBVIOUS
<1>2. PICK x \in above : \A y \in above : x <= y
  BY <1>1, LeastOfSet
<1>3. x \in I
  <2> SUFFICES ASSUME x \notin I PROVE FALSE
    OBVIOUS
  <2>1. \A i \in I : i \in Nat /\ 1 <= i /\ i < x
    BY <1>2
  <2>2. x \in Nat /\ x > 0
    <3>1. PICK i \in I : TRUE
      OBVIOUS
    <3> QED
      BY <2>1, <3>1
  <2>3. x - 1 \in above
    BY <2>1, <2>2
  <2> QED
    BY <2>2, <2>3, <1>2
<1>4. \A j \in I : x >= j
  BY <1>2
<1>5. \E i \in I : \A j \in I : i >= j
  BY <1>3, <1>4
<1>6. Max(I) \in I /\ \A j \in I : Max(I) >= j
  BY <1>5 DEF Max
<1>7. I \subseteq Nat
  OBVIOUS
<1> QED
  BY <1>6, <1>7

\* Two bodies in one: the fields of both, those of the first first.
LEMMA MergeIs ==
  \A f, g : f ++ g = [n \in DOMAIN f \union DOMAIN g |-> IF n \in DOMAIN f THEN f[n] ELSE g[n]]
<1>1. \A f, g : f ++ g = Merged(f, g)
  BY DEF ++
<1>2. \A f, g : Merged(f, g)
                  = [n \in DOMAIN f \union DOMAIN g |-> IF n \in DOMAIN f THEN f[n] ELSE g[n]]
  BY DEF Merged
<1> QED
  BY <1>1, <1>2

(* What a field of a body is, next to other fields.                        *)
LEMMA LookUp ==
  /\ \A f, g : DOMAIN (f ++ g) = DOMAIN f \union DOMAIN g
  /\ \A f, g, name, otherwise :
       Get(f ++ g, name, otherwise) = IF name \in DOMAIN f THEN f[name] ELSE Get(g, name, otherwise)
  /\ \A set, name, value :
       /\ DOMAIN Field(set, name, value) = IF set THEN {name} ELSE {}
       /\ set => Field(set, name, value)[name] = value
<1>1. \A f, g : DOMAIN (f ++ g) = DOMAIN f \union DOMAIN g
  BY MergeIs
<1>2. ASSUME NEW f, NEW g, NEW name, NEW otherwise
      PROVE  Get(f ++ g, name, otherwise)
               = IF name \in DOMAIN f THEN f[name] ELSE Get(g, name, otherwise)
  <2> DEFINE h == f ++ g
  <2>1. h = [n \in DOMAIN f \union DOMAIN g |-> IF n \in DOMAIN f THEN f[n] ELSE g[n]]
    BY MergeIs
  <2> HIDE DEF h
  <2>2. /\ DOMAIN h = DOMAIN f \union DOMAIN g
        /\ name \in DOMAIN f => h[name] = f[name]
        /\ name \in DOMAIN g \ DOMAIN f => h[name] = g[name]
    BY SMT, <2>1
  <2>3. Get(h, name, otherwise) = IF name \in DOMAIN f THEN f[name] ELSE Get(g, name, otherwise)
    BY SMT, <2>2 DEF Get
  <2> QED
    BY <2>3 DEF h
<1>3. \A set, name, value :
        /\ DOMAIN Field(set, name, value) = IF set THEN {name} ELSE {}
        /\ set => Field(set, name, value)[name] = value
  BY DEF Field
<1> QED
  BY Zenon, <1>1, <1>2, <1>3

(* A sequence is one over what occurs in it.                               *)
LEMMA OwnRange ==
  ASSUME NEW S, NEW s \in Seq(S) PROVE s \in Seq({s[i] : i \in DOMAIN s})
OBVIOUS

(* A use has some number of calls.                                         *)
LEMMA CallsOfUse == \A u \in Uses : u.calls \in Nat
<1>1. \A u \in Uses : u.calls \in 1..MaxCalls
  BY NativeAssumption
<1>2. MaxCalls \in Nat
  BY NativeAssumption
<1> QED
  BY <1>1, <1>2

(* One more call: the others keep their numbers.                           *)
LEMMA Appended ==
  ASSUME AreCalls, NEW c, DOMAIN c = Fields, calls' = Append(calls, c)
  PROVE  /\ AreCalls' /\ Len(calls) \in Nat /\ Len(calls') = Len(calls) + 1
         /\ DOMAIN calls = 1..Len(calls) /\ DOMAIN calls' = 1..(Len(calls) + 1)
         /\ calls'[Len(calls) + 1] = c
         /\ \A i \in DOMAIN calls : calls'[i] = calls[i]
<1> DEFINE S == {calls[i] : i \in DOMAIN calls} \union {c}
<1>1. calls \in Seq(S)
  BY DEF AreCalls
<1>2. calls' \in Seq(S)
  BY <1>1
<1> HIDE DEF S
<1>3. /\ Len(calls) \in Nat /\ Len(calls') = Len(calls) + 1
      /\ DOMAIN calls = 1..Len(calls) /\ DOMAIN calls' = 1..(Len(calls) + 1)
      /\ calls'[Len(calls) + 1] = c
      /\ \A i \in DOMAIN calls : calls'[i] = calls[i]
  BY <1>1, <1>2
<1>4. AreCalls'
  BY <1>2, <1>3, OwnRange DEF AreCalls
<1> QED
  BY <1>3, <1>4

(* One call becomes another: all stay where they are.                      *)
LEMMA Replaced ==
  ASSUME AreCalls, NEW i \in DOMAIN calls, NEW c, DOMAIN c = Fields,
         calls' = [calls EXCEPT ![i] = c]
  PROVE  /\ AreCalls' /\ Len(calls) \in Nat /\ Len(calls') = Len(calls)
         /\ DOMAIN calls = 1..Len(calls) /\ DOMAIN calls' = DOMAIN calls
         /\ calls'[i] = c
         /\ \A j \in DOMAIN calls \ {i} : calls'[j] = calls[j]
<1> DEFINE S == {calls[j] : j \in DOMAIN calls} \union {c}
<1>1. calls \in Seq(S)
  BY DEF AreCalls
<1>2. calls' \in Seq(S)
  BY <1>1
<1> HIDE DEF S
<1>3. /\ Len(calls) \in Nat /\ Len(calls') = Len(calls)
      /\ DOMAIN calls = 1..Len(calls) /\ DOMAIN calls' = DOMAIN calls
      /\ calls'[i] = c
      /\ \A j \in DOMAIN calls \ {i} : calls'[j] = calls[j]
  BY <1>1, <1>2
<1>4. calls' \in Seq({calls'[j] : j \in DOMAIN calls'})
  <2> DEFINE s == calls'
             T == {s[j] : j \in DOMAIN s}
  <2>1. s \in Seq(S)
    BY <1>2
  <2> HIDE DEF s
  <2>2. Len(s) \in Nat /\ DOMAIN s = 1..Len(s) /\ \A j \in 1..Len(s) : s[j] \in T
    BY <2>1
  <2>3. s = [j \in 1..Len(s) |-> s[j]]
    BY <2>1
  <2> HIDE DEF T
  <2>4. s \in Seq(T)
    BY <2>2, <2>3
  <2> QED
    BY <2>4 DEF s, T
<1>5. \A j \in DOMAIN calls' : DOMAIN calls'[j] = Fields
  BY <1>3 DEF AreCalls
<1> QED
  BY <1>3, <1>4, <1>5 DEF AreCalls

(* A number above all others goes at the end.                              *)
LEMMA OneMoreTurn ==
  ASSUME NEW S, S \subseteq Nat, NEW s \in Seq(S), Increasing(s),
         NEW i \in Nat, \A x \in Range(s) : x < i
  PROVE  Range(s \o <<i>>) = Range(s) \union {i} /\ Increasing(s \o <<i>>)
<1> DEFINE t == s \o <<i>>
<1>1. /\ Len(s) \in Nat /\ DOMAIN s = 1..Len(s) /\ DOMAIN t = 1..(Len(s) + 1)
      /\ t[Len(s) + 1] = i /\ \A a \in DOMAIN s : t[a] = s[a]
  OBVIOUS
<1> HIDE DEF t
<1>2. Range(t) = Range(s) \union {i}
  BY <1>1 DEF Range
<1>3. Increasing(t)
  <2> SUFFICES ASSUME NEW a \in DOMAIN t, NEW b \in DOMAIN t, a < b PROVE t[a] < t[b]
    BY DEF Increasing
  <2>1. a \in DOMAIN s
    BY <1>1
  <2>2. CASE b \in DOMAIN s
    BY <1>1, <2>1, <2>2 DEF Increasing
  <2>3. CASE b = Len(s) + 1
    BY <1>1, <2>1, <2>3 DEF Range
  <2> QED
    BY <1>1, <2>2, <2>3
<1> QED
  BY <1>2, <1>3 DEF t

-----------------------------------------------------------------------------
(* What a call leaves alone.                                               *)

\* Calls are only added, and what has returned has returned.
Frame ==
  /\ AreCalls' /\ DOMAIN calls = 1..Len(calls) /\ DOMAIN calls' = 1..Len(calls')
  /\ Len(calls) \in Nat /\ Len(calls') \in Nat /\ Len(calls) <= Len(calls')
  /\ \A j \in DOMAIN calls :
       /\ calls'[j].who = calls[j].who /\ calls'[j].kind = calls[j].kind
       /\ calls'[j].body = calls[j].body
       /\ calls[j].result.is # "pending" => calls'[j].result = calls[j].result

(* What came before a call does not change any more.                       *)
LEMMA BeforeStays ==
  ASSUME OneAtATime, Frame, NEW i \in DOMAIN calls
  PROVE  /\ Before(i)' = Before(i) /\ Before(i) \subseteq DOMAIN calls
         /\ \A j \in Before(i) : calls'[j].result = calls[j].result /\ calls'[j].body = calls[j].body
<1>1. \A j \in DOMAIN calls :
        j < i /\ calls[i].who = calls[j].who => calls'[j].result = calls[j].result
  BY DEF OneAtATime, Frame
<1>2. Before(i)' \subseteq Before(i) /\ Before(i) \subseteq Before(i)'
  BY <1>1 DEF Before, Done, Frame
<1>3. \A j \in Before(i) : j \in DOMAIN calls /\ j < i /\ calls[i].who = calls[j].who
  BY DEF Before, Done
<1> QED
  BY <1>1, <1>2, <1>3 DEF Frame

(* A call whose stored response stays goes on from what it went on from.   *)
LEMMA ContinuesOn ==
  ASSUME NativeInv, Frame, NEW i \in DOMAIN calls,
         i \in DOMAIN chats' <=> i \in DOMAIN chats,
         i \in DOMAIN chats => chats'[i] = chats[i]
  PROVE  Continues(i)'
<1>1. /\ Before(i)' = Before(i) /\ Before(i) \subseteq DOMAIN calls
      /\ \A j \in Before(i) : calls'[j].result = calls[j].result /\ calls'[j].body = calls[j].body
  BY BeforeStays DEF NativeInv
<1>2. calls'[i].kind = calls[i].kind /\ Previous(i)' = Previous(i) /\ calls'[i].body = calls[i].body
  BY DEF Frame, Previous
<1>3. Continues(i)
  BY DEF NativeInv
<1>4. calls[i].kind = "chat" =>
        Previous(i)' = IF Before(i)' = {} THEN 0 ELSE calls'[Max(Before(i)')].result.handle
  <2>1. Before(i) # {} => Max(Before(i)) \in Before(i)
    BY <1>1, MaxIsLast DEF Frame
  <2> QED
    BY <1>1, <1>2, <1>3, <2>1 DEF Continues
<1>5. Clean(Before(i))' <=> Clean(Before(i))
  BY <1>1 DEF Clean
<1>6. Turns(Before(i) \union {i})' = Turns(Before(i) \union {i})
  BY <1>1, <1>2 DEF Turns
<1>7. chats[i] \in Seq(DOMAIN calls) => chats[i] \in Seq(DOMAIN calls')
  BY DEF Frame
<1>8. i \in DOMAIN chats =>
        /\ calls[i].kind = "chat" /\ chats[i] \in Seq(DOMAIN calls)
        /\ Clean(Before(i)) =>
             Range(chats[i]) = Turns(Before(i) \union {i}) /\ Increasing(chats[i])
  BY <1>3 DEF Continues
<1>9. i \in DOMAIN chats' =>
        /\ calls'[i].kind = "chat" /\ chats'[i] \in Seq(DOMAIN calls')
        /\ Clean(Before(i))' =>
             Range(chats'[i]) = Turns(Before(i) \union {i})' /\ Increasing(chats'[i])
  BY <1>2, <1>5, <1>6, <1>7, <1>8
<1> QED
  BY <1>2, <1>4, <1>9 DEF Continues, Increasing

-----------------------------------------------------------------------------
(* Making a call.                                                          *)

(* What a caller goes on from is what its last chat returned.              *)
LEMMA LastIsDone ==
  ASSUME AreCalls, NEW w
  PROVE  /\ Done(w, "chat") \subseteq DOMAIN calls
         /\ Done(w, "chat") # {} =>
              /\ Max(Done(w, "chat")) \in Done(w, "chat")
              /\ \A j \in Done(w, "chat") : j <= Max(Done(w, "chat"))
<1>1. Done(w, "chat") \subseteq DOMAIN calls
  BY DEF Done
<1>2. Len(calls) \in Nat /\ DOMAIN calls = 1..Len(calls)
  BY DEF AreCalls
<1> QED
  BY <1>1, <1>2, MaxIsLast

(* A call keeps the invariant, if a chat goes on from the last response.   *)
LEMMA CallStep ==
  ASSUME NativeInv, NEW w \in Callers, NEW kind \in Kinds, NEW valid, NEW to, NEW body,
         Call(w, kind, valid, to, body),
         kind = "chat" => Get(body, "previous_response_id", 0) = LastResponse(w)
  PROVE  NativeInv'
<1> DEFINE c == [who |-> w, kind |-> kind, to |-> to, body |-> body, sent |-> IF valid THEN 1 ELSE 0,
                 ran |-> 0, reply |-> "none", result |-> IF valid THEN Pending ELSE Error]
           n == Len(calls) + 1
<1>1. /\ kind \in use.kinds /\ Len(calls) < use.calls
      /\ \A j \in DOMAIN calls : calls[j].who = w => ~Waiting(j)
      /\ calls' = Append(calls, c)
      /\ use' = use /\ loaded' = loaded /\ jobs' = jobs /\ chats' = chats
  BY DEF Call, server
<1>2. /\ DOMAIN c = Fields /\ c.who = w /\ c.kind = kind /\ c.body = body
      /\ c.sent \in {0, 1} /\ c.ran = 0 /\ c.reply = "none"
      /\ c.result = Pending \/ c.result.is = "error"
      /\ c.result.is # "ok"
  BY DEF Fields, Pending, Error
<1> HIDE DEF c
<1>3. /\ AreCalls' /\ Len(calls) \in Nat /\ Len(calls') = Len(calls) + 1
      /\ DOMAIN calls = 1..Len(calls) /\ DOMAIN calls' = 1..(Len(calls) + 1)
      /\ calls'[n] = c
      /\ \A i \in DOMAIN calls : calls'[i] = calls[i]
  BY <1>1, <1>2, Appended DEF NativeInv
<1>4. Frame
  BY <1>3 DEF Frame
<1>5. use' \in Uses /\ Len(calls') <= use'.calls
  <2>1. use.calls \in Nat
    BY CallsOfUse DEF NativeInv
  <2> QED
    BY <1>1, <1>3, <2>1 DEF NativeInv
<1>6. \A j \in DOMAIN calls : calls[j].who = w => calls[j].result.is # "pending"
  <2> SUFFICES ASSUME NEW j \in DOMAIN calls, calls[j].who = w, calls[j].result.is = "pending"
               PROVE  FALSE
    OBVIOUS
  <2>1. calls[j].result # Pending
    BY <1>1 DEF Waiting
  <2>2. Honest(j)
    BY DEF NativeInv
  <2> QED
    BY <2>1, <2>2 DEF Honest
<1>7. ASSUME NEW i \in DOMAIN calls' PROVE Honest(i)'
  <2>1. CASE i \in DOMAIN calls
    <3>1. Honest(i) /\ calls'[i] = calls[i]
      BY <1>3, <2>1 DEF NativeInv
    <3> QED
      BY <1>1, <3>1 DEF Honest
  <2>2. CASE i = n
    BY <1>1, <1>2, <1>3, <2>2 DEF Honest, Replies, Changing
  <2> QED
    BY <1>3, <2>1, <2>2
<1>8. OneAtATime'
  <2> SUFFICES ASSUME NEW i \in DOMAIN calls', NEW j \in DOMAIN calls', j < i,
                      calls'[i].who = calls'[j].who
               PROVE  calls'[j].result.is # "pending"
    BY DEF OneAtATime
  <2>1. j \in DOMAIN calls
    BY <1>3
  <2>2. CASE i \in DOMAIN calls
    BY <1>3, <2>1, <2>2 DEF NativeInv, OneAtATime
  <2>3. CASE i = n
    BY <1>2, <1>3, <1>6, <2>1, <2>3
  <2> QED
    BY <1>3, <2>2, <2>3
<1>9. Kept'
  <2>1. \A i \in DOMAIN calls' :
          calls'[i].kind = "chat" /\ calls'[i].ran > 0 /\ calls'[i].body.store
            => i \in DOMAIN chats'
    BY <1>1, <1>2, <1>3 DEF NativeInv, Kept
  <2> QED
    BY <1>1, <1>3, <2>1 DEF NativeInv, Kept
<1>10. ASSUME NEW i \in DOMAIN calls' PROVE Continues(i)'
  <2>1. CASE i \in DOMAIN calls
    BY <1>1, <1>4, <2>1, ContinuesOn
  <2>2. CASE i = n
    <3>1. i \notin DOMAIN chats'
      BY <1>1, <1>3, <2>2 DEF NativeInv, Kept
    <3>2. Before(i)' = Done(w, "chat")
      <4>1. Done(w, "chat")' = Done(w, "chat")
        BY <1>2, <1>3 DEF Done
      <4>2. \A j \in Done(w, "chat") : j < i
        BY <1>3, <2>2, LastIsDone DEF NativeInv
      <4> QED
        BY <1>2, <1>3, <2>2, <4>1, <4>2 DEF Before
    <3>3. kind = "chat" =>
            Previous(i)' = IF Before(i)' = {} THEN 0 ELSE calls'[Max(Before(i)')].result.handle
      <4>1. Done(w, "chat") # {} => calls'[Max(Done(w, "chat"))] = calls[Max(Done(w, "chat"))]
        BY <1>3, LastIsDone DEF NativeInv
      <4> QED
        BY <1>2, <1>3, <2>2, <3>2, <4>1 DEF Previous, LastResponse
    <3> QED
      BY <1>2, <1>3, <2>2, <3>1, <3>3 DEF Continues
  <2> QED
    BY <1>3, <2>1, <2>2
<1> QED
  BY <1>3, <1>5, <1>7, <1>8, <1>9, <1>10 DEF NativeInv

(* Whatever a caller asks for keeps the invariant.                         *)
LEMMA IssueStep == NativeInv /\ Issue => NativeInv'
<1> SUFFICES ASSUME NativeInv, Issue PROVE NativeInv'
  OBVIOUS
<1>1. PICK w \in Callers :
        \/ \E name \in Names : LoadModel(w, name) \/ DownloadModel(w, name)
        \/ \E id \in Handles("load") : UnloadModel(w, id)
        \/ \E id \in Handles("download") : DownloadStatusFor(w, id)
        \/ \E name \in Names, input, store \in BOOLEAN : StatefulChat(w, name, input, store)
        \/ NativeChatCompletions(w)
        \/ ListModelsResponse(w)
  BY DEF Issue
<1> USE CallStep DEF Kinds
<1>2. ASSUME NEW name \in Names, LoadModel(w, name) \/ DownloadModel(w, name) PROVE NativeInv'
  BY <1>2 DEF LoadModel, DownloadModel
<1>3. ASSUME NEW id \in Handles("load"), UnloadModel(w, id) PROVE NativeInv'
  BY <1>3 DEF UnloadModel
<1>4. ASSUME NEW id \in Handles("download"), DownloadStatusFor(w, id) PROVE NativeInv'
  BY <1>4 DEF DownloadStatusFor
<1>5. ASSUME NEW name \in Names, NEW input \in BOOLEAN, NEW store \in BOOLEAN,
             StatefulChat(w, name, input, store)
      PROVE  NativeInv'
  <2> DEFINE previous == LastResponse(w)
             model == IF TrimSpace(name) = "" THEN pickModel(opts) ELSE name
             body == buildStatefulChatBody(model, input, previous, store)
  <2>1. Call(w, "chat", TrimSpace(model) # "" /\ (input \/ previous # 0), nativeURL(opts), body)
    BY <1>5 DEF StatefulChat
  <2>2. Get(body, "previous_response_id", 0) = previous
    <3>1. "previous_response_id" \notin DOMAIN [model |-> TrimSpace(model), store |-> store]
      OBVIOUS
    <3>2. "previous_response_id" \notin DOMAIN Field(input, "input", TRUE)
      BY DEF Field
    <3> DEFINE own == [model |-> TrimSpace(model), store |-> store] ++ Field(input, "input", TRUE)
               link == Field(previous # 0, "previous_response_id", previous)
    <3>3. "previous_response_id" \notin DOMAIN own
      <4>1. DOMAIN own = DOMAIN [model |-> TrimSpace(model), store |-> store]
                         \union DOMAIN Field(input, "input", TRUE)
        BY LookUp
      <4> QED
        BY <3>1, <3>2, <4>1
    <3>4. Get(link, "previous_response_id", 0) = previous
      BY DEF Field, Get
    <3>5. body = own ++ link
      BY DEF buildStatefulChatBody
    <3> HIDE DEF own, link, body
    <3> QED
      BY <3>3, <3>4, <3>5, LookUp
  <2> HIDE DEF body
  <2> QED
    BY <2>1, <2>2
<1>6. ASSUME NativeChatCompletions(w) PROVE NativeInv'
  BY <1>6 DEF NativeChatCompletions
<1>7. ASSUME ListModelsResponse(w) PROVE NativeInv'
  BY <1>7 DEF ListModelsResponse
<1> QED
  BY <1>1, <1>2, <1>3, <1>4, <1>5, <1>6, <1>7

-----------------------------------------------------------------------------
(* The server's answer.                                                    *)

(* An answer changes nothing but the reply and how often a call was run.   *)
LEMMA Answered ==
  ASSUME NativeInv, NEW i \in DOMAIN calls, NEW reply \in Replies \ {"none"}, NEW ran \in {0, 1},
         Open(i), Answer(i, reply, ran), reply \in {"answer", "empty"} => ran = 1, use' = use
  PROVE  /\ Frame /\ AreCalls' /\ use' \in Uses /\ Len(calls') <= use'.calls
         /\ DOMAIN calls' = DOMAIN calls
         /\ \A j \in DOMAIN calls \ {i} : calls'[j] = calls[j]
         /\ \A j \in DOMAIN calls' : Honest(j)'
         /\ OneAtATime'
         /\ calls'[i].ran = calls[i].ran + ran
<1> DEFINE c == [calls[i] EXCEPT !.reply = reply, !.ran = calls[i].ran + ran]
<1>1. DOMAIN calls[i] = Fields /\ Honest(i)
  BY DEF NativeInv, AreCalls
<1>2. /\ DOMAIN c = Fields /\ c.reply = reply /\ c.ran = calls[i].ran + ran
      /\ c.who = calls[i].who /\ c.kind = calls[i].kind /\ c.body = calls[i].body
      /\ c.sent = calls[i].sent /\ c.result = calls[i].result
  BY <1>1 DEF Fields
<1>3. calls' = [calls EXCEPT ![i] = c]
  BY DEF Answer
<1> HIDE DEF c
<1>4. /\ AreCalls' /\ Len(calls) \in Nat /\ Len(calls') = Len(calls)
      /\ DOMAIN calls = 1..Len(calls) /\ DOMAIN calls' = DOMAIN calls
      /\ calls'[i] = c
      /\ \A j \in DOMAIN calls \ {i} : calls'[j] = calls[j]
  BY <1>2, <1>3, Replaced DEF NativeInv
<1>5. Frame
  BY <1>2, <1>4 DEF Frame
<1>6. calls[i].reply = "none" /\ calls[i].sent > 0
  BY DEF Open
<1>7. Honest(i)'
  BY <1>1, <1>2, <1>4, <1>6 DEF Honest, Replies
<1>8. \A j \in DOMAIN calls \ {i} : Honest(j)'
  BY <1>4 DEF NativeInv, Honest
<1>9. OneAtATime'
  BY <1>2, <1>4 DEF NativeInv, OneAtATime
<1> QED
  BY <1>2, <1>4, <1>5, <1>7, <1>8, <1>9 DEF NativeInv

(* What the server stores for a chat are the inputs of the chats before it *)
(* and its own.                                                            *)
LEMMA StoredTurns ==
  ASSUME NativeInv, NEW i \in DOMAIN calls, calls[i].kind = "chat",
         Previous(i) \in DOMAIN chats \union {0}
  PROVE  LET before == Get(chats, Previous(i), <<>>)
             input == IF "input" \in DOMAIN calls[i].body THEN <<i>> ELSE <<>>
         IN  /\ before \o input \in Seq(DOMAIN calls)
             /\ Clean(Before(i)) => /\ Range(before \o input) = Turns(Before(i) \union {i})
                                   /\ Increasing(before \o input)
<1> DEFINE before == Get(chats, Previous(i), <<>>)
           input == IF "input" \in DOMAIN calls[i].body THEN <<i>> ELSE <<>>
           new == before \o input
<1>1. Len(calls) \in Nat /\ DOMAIN calls = 1..Len(calls) /\ 0 \notin DOMAIN chats /\ i \in Nat
  BY DEF NativeInv, AreCalls, Kept
<1>2. before \in Seq(DOMAIN calls)
  <2>1. CASE Previous(i) \in DOMAIN chats
    <3>1. before = chats[Previous(i)]
      BY <2>1 DEF Get
    <3>2. Previous(i) \in DOMAIN calls
      BY <2>1 DEF NativeInv, Kept
    <3> QED
      BY <2>1, <3>1, <3>2 DEF NativeInv, Continues
  <2>2. CASE Previous(i) = 0
    <3>1. before = <<>>
      BY <1>1, <2>2 DEF Get
    <3> HIDE DEF before
    <3> QED
      BY <3>1
  <2> QED
    BY <2>1, <2>2
<1>3. Before(i) \subseteq DOMAIN calls /\ \A j \in Before(i) : j < i /\ calls[j].who = calls[i].who
  BY DEF Before, Done
<1>4. Clean(Before(i)) => Range(before) = Turns(Before(i)) /\ Increasing(before)
  <2>1. CASE Before(i) = {}
    <3>1. Previous(i) = 0
      BY <2>1 DEF NativeInv, Continues
    <3>2. before = <<>>
      BY <1>1, <3>1 DEF Get
    <3> QED
      BY <2>1, <3>2 DEF Turns, Range, Increasing
  <2>2. CASE Before(i) # {} /\ Clean(Before(i))
    <3> DEFINE m == Max(Before(i))
    <3>1. m \in Before(i) /\ \A j \in Before(i) : j <= m
      BY <1>1, <1>3, <2>2, MaxIsLast
    <3>2. Previous(i) = calls[m].result.handle
      BY <2>2 DEF NativeInv, Continues
    <3> HIDE DEF m
    <3>3. /\ m \in DOMAIN calls /\ calls[m].kind = "chat" /\ calls[m].result.is = "ok"
          /\ calls[m].who = calls[i].who /\ m < i
      BY <3>1 DEF Before, Done
    <3>4. Previous(i) = m
      <4>1. calls[m].result.handle # 0
        BY <2>2, <3>1 DEF Clean
      <4> QED
        BY <3>2, <3>3, <4>1 DEF NativeInv, Honest, Changing
    <3>5. m \in DOMAIN chats /\ before = chats[m]
      BY <1>1, <3>3, <3>4 DEF Get
    <3>6. Before(m) \union {m} = Before(i)
      BY <1>1, <3>1, <3>3 DEF Before, Done
    <3>7. Clean(Before(m))
      BY <2>2, <3>6 DEF Clean
    <3> QED
      BY <3>3, <3>5, <3>6, <3>7 DEF NativeInv, Continues
  <2> QED
    BY <2>1, <2>2
<1>5. CASE "input" \in DOMAIN calls[i].body
  <2>1. new = before \o <<i>>
    BY <1>5
  <2>2. new \in Seq(DOMAIN calls)
    <3>1. <<i>> \in Seq(DOMAIN calls)
      OBVIOUS
    <3> HIDE DEF before
    <3> QED
      BY <1>2, <2>1, <3>1
  <2>3. Clean(Before(i)) => Range(new) = Turns(Before(i) \union {i}) /\ Increasing(new)
    <3> SUFFICES ASSUME Clean(Before(i))
                 PROVE  Range(new) = Turns(Before(i) \union {i}) /\ Increasing(new)
      OBVIOUS
    <3>1. \A x \in Range(before) : x < i
      BY <1>3, <1>4 DEF Turns
    <3>2. Range(new) = Range(before) \union {i} /\ Increasing(new)
      <4> HIDE DEF before, new
      <4>1. DOMAIN calls \subseteq Nat /\ i \in Nat /\ before \in Seq(DOMAIN calls)
        BY <1>1, <1>2
      <4>2. Range(before \o <<i>>) = Range(before) \union {i} /\ Increasing(before \o <<i>>)
        BY <1>4, <3>1, <4>1, OneMoreTurn
      <4> QED
        BY <2>1, <4>2
    <3>3. Turns(Before(i) \union {i}) = Turns(Before(i)) \union {i}
      BY <1>5 DEF Turns
    <3> QED
      BY <1>4, <3>2, <3>3
  <2> QED
    BY <2>2, <2>3
<1>6. CASE "input" \notin DOMAIN calls[i].body
  <2>1. new = before
    BY <1>2, <1>6
  <2>2. Turns(Before(i) \union {i}) = Turns(Before(i))
    BY <1>6 DEF Turns
  <2> QED
    BY <1>2, <1>4, <2>1, <2>2
<1> QED
  BY <1>5, <1>6

(* A call is carried out, once, and answered in some way.                  *)
LEMMA ExecuteStep ==
  ASSUME NativeInv, NEW i \in DOMAIN calls, Execute(i) PROVE NativeInv'
<1> DEFINE c == calls[i]
           before == Get(chats, Get(c.body, "previous_response_id", 0), <<>>)
           input == IF "input" \in DOMAIN c.body THEN <<i>> ELSE <<>>
           new == before \o input
<1>1. /\ Open(i) /\ Accepts(c) /\ use' = use
      /\ loaded' \subseteq loaded \union {i} /\ jobs' \subseteq jobs \union {i}
      /\ chats' = IF c.kind = "chat" /\ c.body.store THEN [j \in {i} |-> new] ++ chats ELSE chats
  BY DEF Execute
<1>2. PICK reply \in Replies \ {"none"} : Answer(i, reply, 1)
  BY DEF Execute, Replies
<1>3. /\ Frame /\ AreCalls' /\ use' \in Uses /\ Len(calls') <= use'.calls
      /\ DOMAIN calls' = DOMAIN calls
      /\ \A j \in DOMAIN calls \ {i} : calls'[j] = calls[j]
      /\ \A j \in DOMAIN calls' : Honest(j)'
      /\ OneAtATime'
  BY <1>1, <1>2, Answered
<1>4. c.kind = "chat" =>
        /\ new \in Seq(DOMAIN calls)
        /\ Clean(Before(i)) => Range(new) = Turns(Before(i) \union {i}) /\ Increasing(new)
  <2> SUFFICES ASSUME c.kind = "chat"
               PROVE  /\ new \in Seq(DOMAIN calls)
                      /\ Clean(Before(i)) =>
                           Range(new) = Turns(Before(i) \union {i}) /\ Increasing(new)
    OBVIOUS
  <2>1. Previous(i) \in DOMAIN chats \union {0}
    BY <1>1 DEF Accepts, Previous
  <2> QED
    BY <2>1, StoredTurns DEF Previous
<1> HIDE DEF new
<1>5. /\ \A j \in DOMAIN calls \ {i} :
            /\ j \in DOMAIN chats' <=> j \in DOMAIN chats
            /\ j \in DOMAIN chats => chats'[j] = chats[j]
      /\ DOMAIN chats' \subseteq DOMAIN chats \union {i}
      /\ c.kind = "chat" /\ c.body.store => i \in DOMAIN chats' /\ chats'[i] = new
      /\ ~(c.kind = "chat" /\ c.body.store) => chats' = chats
  <2>1. CASE c.kind = "chat" /\ c.body.store
    <3> DEFINE one == [j \in {i} |-> new]
    <3>1. DOMAIN one = {i} /\ one[i] = new
      OBVIOUS
    <3>2. chats' = one ++ chats
      BY <1>1, <2>1
    <3> HIDE DEF one
    <3>3. chats' = [n \in DOMAIN one \union DOMAIN chats |->
                      IF n \in DOMAIN one THEN one[n] ELSE chats[n]]
      BY <3>2, MergeIs
    <3>4. \A j \in DOMAIN calls \ {i} :
            /\ j \in DOMAIN chats' <=> j \in DOMAIN chats
            /\ j \in DOMAIN chats => chats'[j] = chats[j]
      BY <3>1, <3>3
    <3>5. DOMAIN chats' \subseteq DOMAIN chats \union {i} /\ i \in DOMAIN chats' /\ chats'[i] = new
      BY <3>1, <3>3
    <3> QED
      BY <2>1, <3>4, <3>5
  <2>2. CASE ~(c.kind = "chat" /\ c.body.store)
    BY <1>1, <2>2
  <2> QED
    BY <2>1, <2>2
<1>6. Kept'
  <2>1. \A j \in DOMAIN calls' :
          calls'[j].kind = "chat" /\ calls'[j].ran > 0 /\ calls'[j].body.store
            => j \in DOMAIN chats'
    BY <1>3, <1>5 DEF NativeInv, Kept, Frame
  <2> QED
    BY <1>1, <1>3, <1>5, <2>1 DEF NativeInv, Kept
<1>7. ASSUME NEW j \in DOMAIN calls' PROVE Continues(j)'
  <2>1. CASE j # i \/ ~(c.kind = "chat" /\ c.body.store)
    BY <1>3, <1>5, <2>1, ContinuesOn
  <2>2. CASE j = i /\ c.kind = "chat" /\ c.body.store
    <3>1. /\ Before(i)' = Before(i) /\ Before(i) \subseteq DOMAIN calls
          /\ \A k \in Before(i) :
               calls'[k].result = calls[k].result /\ calls'[k].body = calls[k].body
      BY <1>3, BeforeStays DEF NativeInv
    <3>2. calls'[i].kind = "chat" /\ calls'[i].body = calls[i].body /\ Previous(i)' = Previous(i)
      BY <1>3, <2>2 DEF Frame, Previous
    <3>3. Before(i) # {} => Max(Before(i)) \in Before(i)
      BY <1>3, <3>1, MaxIsLast DEF Frame
    <3>4. Previous(i)' = IF Before(i)' = {} THEN 0 ELSE calls'[Max(Before(i)')].result.handle
      BY <2>2, <3>1, <3>2, <3>3 DEF NativeInv, Continues
    <3>5. (Clean(Before(i))' <=> Clean(Before(i)))
          /\ Turns(Before(i) \union {i})' = Turns(Before(i) \union {i})
      BY <3>1, <3>2 DEF Clean, Turns
    <3>6. chats'[i] = new
      BY <1>5, <2>2
    <3>7. /\ chats'[i] \in Seq(DOMAIN calls')
          /\ Clean(Before(i))' =>
               Range(chats'[i]) = Turns(Before(i) \union {i})' /\ Increasing(chats'[i])
      BY <1>3, <1>4, <2>2, <3>5, <3>6
    <3> QED
      BY <2>2, <3>2, <3>4, <3>7 DEF Continues, Increasing
  <2> QED
    BY <2>1, <2>2
<1> QED
  BY <1>3, <1>6, <1>7 DEF NativeInv

(* A call is turned down.                                                  *)
LEMMA RefuseStep ==
  ASSUME NativeInv, NEW i \in DOMAIN calls, Refuse(i) PROVE NativeInv'
<1>1. /\ Open(i) /\ use' = use /\ loaded' = loaded /\ jobs' = jobs /\ chats' = chats
  BY DEF Refuse, server
<1>2. PICK reply \in {"status", "errordoc"} : Answer(i, reply, 0)
  BY DEF Refuse
<1>3. /\ Frame /\ AreCalls' /\ use' \in Uses /\ Len(calls') <= use'.calls
      /\ DOMAIN calls' = DOMAIN calls
      /\ \A j \in DOMAIN calls \ {i} : calls'[j] = calls[j]
      /\ \A j \in DOMAIN calls' : Honest(j)'
      /\ OneAtATime' /\ calls'[i].ran = calls[i].ran
  <2>1. reply \in Replies \ {"none"} /\ reply \notin {"answer", "empty"}
    BY DEF Replies
  <2>2. calls[i].ran + 0 = calls[i].ran
    BY DEF NativeInv, Honest
  <2> QED
    BY <1>1, <1>2, <2>1, <2>2, Answered
<1>4. Kept'
  BY <1>1, <1>3 DEF NativeInv, Kept, Frame
<1>5. ASSUME NEW j \in DOMAIN calls' PROVE Continues(j)'
  BY <1>1, <1>3, ContinuesOn
<1> QED
  BY <1>3, <1>4, <1>5 DEF NativeInv

-----------------------------------------------------------------------------
(* A call returns.                                                         *)

(* The list of models asks once more, any other call has its result.       *)
LEMMA EndsStep ==
  ASSUME NativeInv, NEW i \in DOMAIN calls, NEW result, NEW fails, Ends(i, result, fails),
         result.is \in {"error", "ok"},
         result.is = "ok" => calls[i].reply \in {"answer", "empty", "errordoc"},
         calls[i].kind \in Changing /\ result.is = "ok" =>
           /\ calls[i].reply # "errordoc"
           /\ result.handle = IF calls[i].reply = "answer" THEN i ELSE 0,
         calls[i].kind = "list" /\ result.is = "ok" /\ calls[i].reply # "errordoc" =>
           result.names = Models
  PROVE  NativeInv'
<1> DEFINE again == [calls[i] EXCEPT !.to = ResolveBaseURL(opts), !.reply = "none",
                                     !.sent = calls[i].sent + 1]
           over == [calls[i] EXCEPT !.result = result]
           c == IF fails /\ FallsBack(i) THEN again ELSE over
<1>1. /\ calls[i].result = Pending /\ calls' = [calls EXCEPT ![i] = c]
      /\ use' = use /\ loaded' = loaded /\ jobs' = jobs /\ chats' = chats
  <2>1. calls' = [calls EXCEPT ![i] = c]
    BY DEF Ends
  <2> QED
    BY <2>1 DEF Ends, Waiting, server
<1>2. DOMAIN calls[i] = Fields /\ Honest(i) /\ calls[i].result.is = "pending"
  BY <1>1 DEF NativeInv, AreCalls, Pending
<1>3. /\ DOMAIN c = Fields /\ c.who = calls[i].who /\ c.kind = calls[i].kind
      /\ c.body = calls[i].body /\ c.ran = calls[i].ran
      /\ \/ /\ calls[i].kind = "list" /\ calls[i].sent = 1
            /\ c.sent = 2 /\ c.reply = "none" /\ c.result = calls[i].result
         \/ c.sent = calls[i].sent /\ c.reply = calls[i].reply /\ c.result = result
  BY <1>2 DEF Fields, FallsBack
<1> HIDE DEF c
<1>4. /\ AreCalls' /\ Len(calls) \in Nat /\ Len(calls') = Len(calls)
      /\ DOMAIN calls = 1..Len(calls) /\ DOMAIN calls' = DOMAIN calls
      /\ calls'[i] = c
      /\ \A j \in DOMAIN calls \ {i} : calls'[j] = calls[j]
  BY <1>1, <1>3, Replaced DEF NativeInv
<1>5. Frame
  BY <1>2, <1>3, <1>4 DEF Frame
<1>6. Honest(i)'
  <2>1. CASE calls[i].kind = "list" /\ calls[i].sent = 1 /\ c.sent = 2 /\ c.reply = "none"
             /\ c.result = calls[i].result
    BY <1>1, <1>2, <1>3, <1>4, <2>1 DEF Honest, Replies, Changing
  <2>2. CASE c.sent = calls[i].sent /\ c.reply = calls[i].reply /\ c.result = result
    BY <1>1, <1>2, <1>3, <1>4, <2>2 DEF Honest
  <2> QED
    BY <1>3, <2>1, <2>2
<1>7. \A j \in DOMAIN calls \ {i} : Honest(j)'
  BY <1>1, <1>4 DEF NativeInv, Honest
<1>8. OneAtATime'
  BY <1>2, <1>3, <1>4 DEF NativeInv, OneAtATime
<1>9. Kept'
  BY <1>1, <1>3, <1>4 DEF NativeInv, Kept
<1>10. ASSUME NEW j \in DOMAIN calls' PROVE Continues(j)'
  BY <1>1, <1>4, <1>5, ContinuesOn
<1> QED
  BY <1>1, <1>4, <1>6, <1>7, <1>8, <1>9, <1>10 DEF NativeInv

(* What the SDK makes of an answer is true of the call.                    *)
LEMMA ReturnStep ==
  ASSUME NativeInv, NEW i \in DOMAIN calls, Return(i) PROVE NativeInv'
<1> DEFINE reply == calls[i].reply
           result == Result(i, reply)
           fails == reply \in {"status", "empty", "garbage"}
<1>1. reply \in Replies \ {"none"} /\ Ends(i, result, fails) /\ calls[i].kind \in Kinds
  BY DEF Return, NativeInv, Honest
<1>2. /\ result.is \in {"error", "ok"}
      /\ result.is = "ok" => reply \in {"answer", "empty", "errordoc"}
  BY <1>1 DEF Result, postJSON, downloadStatus, nativeResponse, fetchModels, Ok, Error, Replies, Kinds
<1>3. calls[i].kind \in Changing /\ result.is = "ok" =>
        reply # "errordoc" /\ result.handle = IF reply = "answer" THEN i ELSE 0
  BY <1>1 DEF Result, postJSON, Ok, Error, Replies, Changing
<1>4. calls[i].kind = "list" /\ result.is = "ok" /\ reply # "errordoc" => result.names = Models
  BY <1>1 DEF Result, fetchModels, Ok, Error, Replies
<1> HIDE DEF result, fails
<1> QED
  BY <1>1, <1>2, <1>3, <1>4, EndsStep

(* A call that fails or times out has no result to be true or false.       *)
LEMMA FailStep ==
  ASSUME NativeInv, NEW i \in DOMAIN calls, Fail(i) PROVE NativeInv'
<1>1. Error.is = "error" /\ Ends(i, Error, TRUE)
  BY DEF Error, Fail
<1> HIDE DEF Error
<1> QED
  BY <1>1, EndsStep

-----------------------------------------------------------------------------
(* The invariant.                                                          *)

(* At first nobody has called.                                             *)
LEMMA InitNativeInv == Init => NativeInv
<1> SUFFICES ASSUME Init PROVE NativeInv
  OBVIOUS
<1>1. use \in Uses /\ calls = <<>> /\ loaded = {} /\ jobs = {} /\ chats = <<>>
  BY DEF Init
<1>2. AreCalls /\ Len(calls) = 0 /\ DOMAIN calls = {} /\ DOMAIN chats = {}
  BY <1>1 DEF AreCalls
<1>3. use.calls \in Nat
  BY <1>1, CallsOfUse
<1> QED
  BY <1>1, <1>2, <1>3 DEF NativeInv, OneAtATime, Kept

(* Every step keeps it.                                                    *)
LEMMA NativeStep == NativeInv /\ [Next]_vars => NativeInv'
<1> SUFFICES ASSUME NativeInv, [Next]_vars PROVE NativeInv'
  OBVIOUS
<1>1. CASE Issue
  BY <1>1, IssueStep
<1>2. ASSUME NEW i \in DOMAIN calls, Execute(i) \/ Refuse(i) \/ Return(i) \/ Fail(i) \/ TimeOut(i)
      PROVE  NativeInv'
  BY <1>2, ExecuteStep, RefuseStep, ReturnStep, FailStep DEF TimeOut
<1>3. CASE UNCHANGED vars
  <2>1. /\ use' = use /\ calls' = calls /\ loaded' = loaded /\ jobs' = jobs /\ chats' = chats
    BY <1>3 DEF vars, server
  <2>2. AreCalls' /\ OneAtATime' /\ Kept'
    BY <2>1 DEF NativeInv, AreCalls, OneAtATime, Kept
  <2>3. Frame
    BY <2>1, <2>2 DEF Frame, NativeInv, AreCalls
  <2>4. \A i \in DOMAIN calls : Honest(i)'
    BY <2>1 DEF NativeInv, Honest
  <2>5. ASSUME NEW i \in DOMAIN calls PROVE Continues(i)'
    BY <2>1, <2>3, ContinuesOn
  <2> QED
    BY <2>1, <2>2, <2>4, <2>5 DEF NativeInv
<1> QED
  BY <1>1, <1>2, <1>3 DEF Next

(* The invariant holds throughout.                                         *)
LEMMA NativeInvariant == Spec => []NativeInv
BY InitNativeInv, NativeStep, PTL DEF Spec

-----------------------------------------------------------------------------
(* A call is one request, the list of models two at most, and the server   *)
(* keeps nothing that no call made.                                        *)
THEOREM CallsAreTyped == Spec => []TypeOK
<1>1. NativeInv => TypeOK
  <2> SUFFICES ASSUME NativeInv PROVE TypeOK
    OBVIOUS
  <2>1. ASSUME NEW i \in DOMAIN calls
        PROVE  /\ calls[i].who \in Callers /\ calls[i].kind \in use.kinds
               /\ calls[i].sent \in 0..(IF calls[i].kind = "list" THEN 2 ELSE 1)
               /\ calls[i].ran <= calls[i].sent /\ calls[i].reply \in Replies
               /\ calls[i].result.is \in {"pending", "error", "ok"}
    <3>1. Honest(i)
      BY DEF NativeInv
    <3> QED
      BY <3>1 DEF Honest, Pending
  <2> QED
    BY <2>1 DEF NativeInv, TypeOK, Kept, Replies
<1> QED
  BY <1>1, NativeInvariant, PTL

(* A load, unload, download or chat that returns without an error was      *)
(* carried out once and returned the ID of what it made, or none; no call  *)
(* is carried out twice, and a list is the server's or an error document.  *)
THEOREM SuccessMeansDone == Spec => []SuccessIsTrue
<1>1. NativeInv => SuccessIsTrue
  <2> SUFFICES ASSUME NativeInv, NEW i \in DOMAIN calls
               PROVE  LET c == calls[i]
                      IN  /\ c.kind \in {"load", "unload", "download", "chat"} =>
                               c.ran <= 1 /\ (c.result.is = "ok" => c.ran = 1 /\ c.result.handle \in {i, 0})
                          /\ c.kind = "list" /\ c.result.is = "ok" /\ c.reply # "errordoc"
                               => c.result.names = Models
    BY DEF SuccessIsTrue
  <2>1. Honest(i)
    BY DEF NativeInv
  <2> QED
    BY <2>1 DEF Honest, Changing
<1> QED
  BY <1>1, NativeInvariant, PTL

(* The response an application goes on from stands for the inputs of its   *)
(* own chats that returned without an error, in their order.               *)
THEOREM ConversationsContinue == Spec => []ConversationContinues
<1>1. NativeInv => ConversationContinues
  <2> SUFFICES ASSUME NativeInv, NEW w \in Callers, Done(w, "chat") # {}, Clean(Done(w, "chat"))
               PROVE  /\ LastResponse(w) \in DOMAIN chats
                      /\ Range(chats[LastResponse(w)]) = Turns(Done(w, "chat"))
                      /\ Increasing(chats[LastResponse(w)])
    BY DEF ConversationContinues, Clean, Turns, Increasing
  <2> DEFINE m == Max(Done(w, "chat"))
  <2>1. m \in Done(w, "chat") /\ \A j \in Done(w, "chat") : j <= m
    BY LastIsDone DEF NativeInv
  <2>2. LastResponse(w) = calls[m].result.handle
    BY DEF LastResponse
  <2> HIDE DEF m
  <2>3. /\ m \in DOMAIN calls /\ m \in Nat /\ calls[m].who = w /\ calls[m].kind = "chat"
        /\ calls[m].result.is = "ok" /\ calls[m].result.handle # 0 /\ calls[m].body.store
    BY <2>1 DEF Done, Clean, NativeInv, AreCalls
  <2>4. LastResponse(w) = m /\ calls[m].ran > 0
    BY <2>2, <2>3 DEF NativeInv, Honest, Changing
  <2>5. m \in DOMAIN chats
    BY <2>3, <2>4 DEF NativeInv, Kept
  <2>6. Before(m) \union {m} = Done(w, "chat")
    BY <2>1, <2>3 DEF Before, Done, NativeInv, AreCalls
  <2>7. Clean(Before(m))
    BY <2>6 DEF Clean
  <2> QED
    BY <2>3, <2>4, <2>5, <2>6, <2>7 DEF NativeInv, Continues
<1> QED
  BY <1>1, NativeInvariant, PTL
=============================================================================
