--------------------------- MODULE QueryRunProofs ---------------------------
(***************************************************************************)
(* Theorems about QueryRun for every capacity, number of turns, number of  *)
(* models, budget, server vocabulary and prior session.                    *)
(***************************************************************************)
EXTENDS QueryRun, SequenceTheorems, FiniteSetTheorems, WellFoundedInduction, TLAPS

Before == {"start", "system", "user", "userHook", "checkpoint"}
Streaming == {"poll", "wait", "partial", "report"}
Tooling == {"assistant", "tools", "permission", "execute", "answer"}

(***************************************************************************)
(* The accounts: what the server billed is what the run has recorded, at   *)
(* each stage of a turn.  An attempt that emitted nothing cost nothing, so *)
(* a fallback starts from a clean sheet.                                   *)
(***************************************************************************)
Accounts ==
  /\ pc \in Before \cup {"open"} \cup Streaming \cup {"turnEnd"} \cup Tooling => turnCost = 0
  /\ pc \in Before \cup {"open"} \cup Tooling => billed = spent
  /\ pc \in Streaming \cup {"turnEnd"} => billed = spent + attemptCost
  /\ pc \in Streaming /\ ~emitted => attemptCost = 0
  /\ pc \in Before \cup {"open"} \cup Streaming \cup Tooling => spent <= Budget

\* A call is at hand while its permission is asked, it is run and answered.
CallAtHand == pc \in {"permission", "execute", "answer"} => Len(results) < Len(todo)

\* The one input message is numbered once.
NumberedOnce == pc \in {"start", "system", "user"} => userTurns = 0

TypeInv == TypeOK /\ Accounts /\ CallAtHand /\ NumberedOnce

(* Building an entry from its parts gives a history entry.                 *)
LEMMA EntryType ==
  ASSUME NEW role \in Roles, NEW c \in Seq(Int), NEW id \in Int
  PROVE  Entry(role, c, id) \in HistoryEntry
BY DEF Entry, HistoryEntry

(* The entries of questions, answers and tool results have no calls.       *)
LEMMA PlainEntryType ==
  ASSUME NEW role \in Roles
  PROVE  Entry(role, <<>>, NoId) \in HistoryEntry
<1>1. <<>> \in Seq(Int) /\ NoId \in Int
  BY DEF NoId
<1> QED
  BY <1>1, EntryType

(* An entry has the fields it was built from.                              *)
LEMMA EntryFields ==
  ASSUME NEW role, NEW c, NEW id
  PROVE  /\ Entry(role, c, id).role = role
         /\ Entry(role, c, id).calls = c
         /\ Entry(role, c, id).id = id
BY DEF Entry

(* A run starts in a state of the type invariant.                          *)
LEMMA InitTypeInv == Init => TypeInv
<1> SUFFICES ASSUME Init PROVE TypeInv
  OBVIOUS
<1> USE QueryRunAssumption
<1>1. prior \in Seq(HistoryEntry)
  BY DEF Init
<1>2. IsFiniteSet({})
  BY FS_EmptySet
<1>3. ControlOK /\ NetOK /\ LoopOK /\ CostOK
  <2>1. ControlOK
    BY DEF Init, ControlOK, Locations
  <2>2. NetOK
    BY DEF Init, NetOK
  <2>3. LoopOK
    BY DEF Init, LoopOK
  <2>4. CostOK
    BY DEF Init, CostOK
  <2> QED
    BY <2>1, <2>2, <2>3, <2>4
<1>4. ChannelsOK
  BY DEF Init, ChannelsOK
<1>5. StreamOK /\ ToolsOK /\ SessionOK
  <2>1. StreamOK
    BY <1>2 DEF Init, StreamOK
  <2>2. ToolsOK
    BY DEF Init, ToolsOK, Verdicts
  <2>3. SessionOK
    BY <1>1 DEF Init, SessionOK
  <2> QED
    BY <2>1, <2>2, <2>3
<1>6. Accounts /\ CallAtHand /\ NumberedOnce
  BY DEF Init, Accounts, CallAtHand, NumberedOnce, Before, Streaming, Tooling
<1> QED
  BY <1>3, <1>5, <1>6, <1>4 DEF TypeInv, TypeOK

(* A group of variables that a step leaves alone keeps its type.           *)
LEMMA Untouched ==
  ASSUME TypeOK
  PROVE  /\ UNCHANGED chans => ChannelsOK'
         /\ UNCHANGED netvars => NetOK'
         /\ UNCHANGED <<sOpen, eOpen, emitted, visible, calls, inline>> => StreamOK'
         /\ UNCHANGED <<turn, attempt>> => LoopOK'
         /\ UNCHANGED <<attemptCost, turnCost, spent, billed>> => CostOK'
         /\ UNCHANGED tools => ToolsOK'
         /\ UNCHANGED session => SessionOK'
BY DEF TypeOK, ChannelsOK, NetOK, StreamOK, LoopOK, CostOK, ToolsOK, SessionOK,
       chans, netvars, tools, session

(* Sending on the message channel keeps it typed and within its capacity.  *)
LEMMA PutType ==
  ASSUME ChannelsOK, LoopOK, NEW kind \in Kinds, NEW id \in Int, Put(Message(kind, id))
  PROVE  ChannelsOK'
<1> USE QueryRunAssumption
<1> DEFINE m == Message(kind, id)
<1>1. m \in MessageType
  BY DEF LoopOK, Message, MessageType
<1>2. /\ log' \in Seq(MessageType)
      /\ Len(log') = Len(log) + 1
  BY <1>1, AppendProperties DEF ChannelsOK, Put
<1> QED
  BY <1>2 DEF ChannelsOK, Put, Room

(* Emitting a message is putting it on the channel and going on.           *)
LEMMA EmitType ==
  ASSUME ChannelsOK, LoopOK, NEW kind \in Kinds, NEW id \in Int, NEW next,
         Emit(Message(kind, id), next)
  PROVE  ChannelsOK' /\ pc' = next
BY PutType DEF Emit

(* A send that also watches the context: delivered, or on to the error.    *)
LEMMA EmitOrGiveUp ==
  ASSUME ChannelsOK, LoopOK, NEW kind \in Kinds, NEW id \in Int, NEW next,
         Emit(Message(kind, id), next) \/ GiveUp
  PROVE  ChannelsOK' /\ pc' \in {next, "fail"}
<1>1. CASE Emit(Message(kind, id), next)
  BY <1>1, EmitType
<1>2. CASE GiveUp
  BY <1>2 DEF GiveUp, chans, ChannelsOK
<1> QED
  BY <1>1, <1>2

(* Histories grow by well-formed entries.                                  *)
LEMMA AppendEntry ==
  ASSUME NEW h \in Seq(HistoryEntry), NEW role \in Roles, NEW c \in Seq(Int), NEW id \in Int
  PROVE  Append(h, Entry(role, c, id)) \in Seq(HistoryEntry)
BY EntryType, AppendProperties

(* A history grows by an entry without calls.                              *)
LEMMA AppendPlainEntry ==
  ASSUME NEW h \in Seq(HistoryEntry), NEW role \in Roles
  PROVE  Append(h, Entry(role, <<>>, NoId)) \in Seq(HistoryEntry)
<1>1. <<>> \in Seq(Int) /\ NoId \in Int
  BY DEF NoId
<1> QED
  BY <1>1, AppendEntry

(* What a turn adds to the history is a sequence of entries.               *)
LEMMA TurnEntriesType == ASSUME ToolsOK PROVE TurnEntries \in Seq(HistoryEntry)
<1> DEFINE e == Entry("assistant", todo, NoId)
<1>1. e \in HistoryEntry
  BY EntryType DEF ToolsOK, Roles, NoId
<1>2. <<e>> \in Seq(HistoryEntry)
  BY <1>1
<1> QED
  BY <1>2, ConcatProperties DEF TurnEntries, ToolsOK

(* A function into a set of integers is a function into the integers.      *)
LEMMA FunctionRange ==
  ASSUME NEW D, NEW K \in SUBSET Int, NEW s \in [D -> K]
  PROVE  s \in [D -> Int]
OBVIOUS

(* The order in which calls are executed is a sequence of their indices.   *)
LEMMA OrdersType == ASSUME NEW S, IsFiniteSet(S) PROVE Orders(S) \subseteq Seq(Int)
<1> DEFINE kept == S \cap Nat
<1>1. Cardinality(kept) \in Nat
  BY FS_Subset, FS_CardinalityType
<1>2. [1..Cardinality(kept) -> Int] \subseteq Seq(Int)
  BY <1>1, SeqDef
<1>3. ASSUME NEW s \in Orders(S) PROVE s \in [1..Cardinality(kept) -> Int]
  <2>1. s \in [1..Cardinality(kept) -> kept]
    BY DEF Orders
  <2>2. kept \in SUBSET Int
    OBVIOUS
  <2> HIDE DEF kept
  <2> QED
    BY <2>1, <2>2, FunctionRange
<1> QED
  BY <1>2, <1>3

(* The calls to execute are a sequence of identifiers.                     *)
LEMMA OrderedCallsType == ASSUME StreamOK PROVE OrderedCalls \subseteq Seq(Int)
<1>1. inline \in Nat => [i \in 1..inline |-> NoId] \in [1..inline -> Int]
  BY DEF NoId
<1>2. [i \in 1..inline |-> NoId] \in Seq(Int)
  BY <1>1, SeqDef DEF StreamOK
<1> QED
  BY <1>2, OrdersType DEF OrderedCalls, StreamOK

(* The error channel accepts an error only when it has room.               *)
LEMMA ReportType ==
  ASSUME ChannelsOK, NEW e \in {"warning", "final"}, Len(errs) - errsTaken < ErrCap,
         errs' = Append(errs, e), UNCHANGED <<log, taken, errsTaken>>
  PROVE  ChannelsOK'
<1> USE QueryRunAssumption
<1>1. errs' \in Seq({"warning", "final"}) /\ Len(errs') = Len(errs) + 1
  BY AppendProperties DEF ChannelsOK
<1> QED
  BY <1>1 DEF ChannelsOK

(* A failed attempt: another model is tried, or the run gives up.          *)
LEMMA StreamFailedType ==
  ASSUME TypeInv, StreamFailed, pc \in Streaming
  PROVE  ControlOK' /\ LoopOK' /\ CostOK' /\ StreamOK' /\ ToolsOK' /\ SessionOK'
         /\ Accounts' /\ CallAtHand' /\ NumberedOnce'
<1> USE QueryRunAssumption DEF TypeInv, TypeOK
<1>1. StreamOK' /\ ToolsOK' /\ SessionOK'
  BY Untouched DEF StreamFailed, stream, tools, session
<1>2. ControlOK' /\ LoopOK'
  BY DEF StreamFailed, MayFallBack, ControlOK, LoopOK, env, Locations, StreamOK
<1>3. CostOK'
  BY DEF StreamFailed, CostOK, stream
<1>4. Accounts'
  BY DEF StreamFailed, MayFallBack, Accounts, CostOK, stream, Before, Streaming,
    Tooling,
         ControlOK
<1>5. CallAtHand' /\ NumberedOnce'
  BY DEF StreamFailed, CallAtHand, NumberedOnce
<1> QED
  BY <1>1, <1>2, <1>3, <1>4, <1>5

(* The call at hand has an identifier.                                     *)
LEMMA CurrentType ==
  ASSUME ToolsOK, Len(results) < Len(todo)
  PROVE  Current \in Int
<1>1. Len(results) \in Nat /\ Len(todo) \in Nat
  BY LenProperties DEF ToolsOK
<1>2. Len(results) + 1 \in 1..Len(todo)
  BY <1>1
<1> QED
  BY <1>2, ElementOfSeq DEF ToolsOK, Current

(* No step of the run, the transport, the consumer or the canceller breaks *)
(* the type invariant.                                                     *)
LEMMA TypeStep == TypeInv /\ [Next]_vars => TypeInv'
<1> SUFFICES ASSUME TypeInv, [Next]_vars PROVE TypeInv'
  OBVIOUS
<1> USE QueryRunAssumption DEF TypeInv, TypeOK
<1>1. CASE StartTransport
  <2>1. ChannelsOK' /\ NetOK' /\ StreamOK' /\ LoopOK' /\ CostOK' /\ ToolsOK'
    BY <1>1, Untouched DEF StartTransport, chans, netvars, stream, loop, tools, session
  <2>2. SessionOK'
    BY <1>1 DEF StartTransport, SessionOK, chans, netvars, stream, loop, tools, session
  <2>3. ControlOK' /\ Accounts' /\ CallAtHand' /\ NumberedOnce'
    BY <1>1 DEF StartTransport, ControlOK, Locations, env, Accounts, Before, Streaming,
      Tooling, CallAtHand, NumberedOnce, chans, netvars, stream, loop, tools, session
  <2> QED
    BY <2>1, <2>2, <2>3
<1>2. CASE SendSystem
  <2>1. Emit(Message("system", NoId), "user") \/ GiveUp
    BY <1>2 DEF SendSystem
  <2>2. ChannelsOK' /\ pc' \in {"user", "fail"}
    BY <2>1, EmitOrGiveUp DEF NoId, Kinds
  <2>3. SessionOK'
    <3>1. Append(history, Entry("system", <<>>, NoId)) \in Seq(HistoryEntry)
      BY AppendPlainEntry DEF SessionOK, Roles
    <3> QED
      BY <1>2, <3>1 DEF SendSystem, SessionOK
  <2>4. NetOK' /\ StreamOK' /\ LoopOK' /\ CostOK' /\ ToolsOK'
    BY <1>2, Untouched DEF SendSystem, chans, netvars, stream, loop, tools, session
  <2>5. ControlOK' /\ Accounts' /\ CallAtHand' /\ NumberedOnce'
    BY <1>2, <2>2 DEF SendSystem, ControlOK, Locations, env, Accounts, Before,
      Streaming, Tooling, CallAtHand, NumberedOnce, stream, loop, tools
  <2> QED
    BY <2>2, <2>3, <2>4, <2>5
<1>3. CASE SendUser
  <2>1. ChannelsOK' /\ pc' \in {"userHook", "fail"}
    <3>1. Emit(Message("user", NoId), "userHook") \/ GiveUp
      BY <1>3 DEF SendUser
    <3> QED
      BY <3>1, EmitOrGiveUp DEF NoId, Kinds
  <2>2. SessionOK'
    BY <1>3 DEF SendUser, SessionOK, NumberedOnce
  <2>3. NetOK' /\ StreamOK' /\ LoopOK' /\ CostOK' /\ ToolsOK'
    BY <1>3, Untouched DEF SendUser, chans, netvars, stream, loop, tools, session
  <2>4. ControlOK' /\ Accounts' /\ CallAtHand' /\ NumberedOnce'
    BY <1>3, <2>1 DEF SendUser, ControlOK, Locations, env, Accounts, Before,
      Streaming, Tooling, CallAtHand, NumberedOnce, stream, loop, tools
  <2> QED
    BY <2>1, <2>2, <2>3, <2>4
<1>4. CASE UserHook
  <2>1. SessionOK'
    <3>1. Append(history, Entry("user", <<>>, NoId)) \in Seq(HistoryEntry)
      BY AppendPlainEntry DEF SessionOK, Roles
    <3> QED
      BY <1>4, <3>1 DEF UserHook, SessionOK
  <2>2. ChannelsOK' /\ NetOK' /\ StreamOK' /\ LoopOK' /\ CostOK' /\ ToolsOK'
    BY <1>4, Untouched DEF UserHook, stream, loop
  <2>3. ControlOK' /\ Accounts' /\ CallAtHand' /\ NumberedOnce'
    BY <1>4 DEF UserHook, ControlOK, Locations, env, Accounts, Before,
      Streaming, Tooling, CallAtHand, NumberedOnce, stream, loop, tools
  <2> QED
    BY <2>1, <2>2, <2>3
<1>5. CASE TakeCheckpoint
  <2>1. ChannelsOK' /\ NetOK' /\ StreamOK' /\ LoopOK' /\ CostOK' /\ ToolsOK'
    BY <1>5, Untouched DEF TakeCheckpoint, chans, netvars, stream, loop, tools, session
  <2>2. SessionOK'
    BY <1>5 DEF TakeCheckpoint, SessionOK, chans, netvars, stream, loop, tools, session
  <2>3. ControlOK' /\ Accounts' /\ CallAtHand' /\ NumberedOnce'
    BY <1>5 DEF TakeCheckpoint, ControlOK, Locations, env, Accounts, Before, Streaming,
      Tooling, CallAtHand, NumberedOnce, chans, netvars, stream, loop, tools, session
  <2> QED
    BY <2>1, <2>2, <2>3
<1>6. CASE OpenStream
  <2>1. ChannelsOK' /\ LoopOK' /\ ToolsOK' /\ SessionOK'
    BY <1>6, Untouched DEF OpenStream, chans, netvars, stream, loop, tools, session
  <2>2. NetOK'
    BY <1>6 DEF OpenStream, NetOK, chans, netvars, stream, loop, tools, session
  <2>3. StreamOK'
    BY <1>6, FS_EmptySet DEF OpenStream, StreamOK, chans, netvars, stream, loop, tools,
      session
  <2>4. CostOK'
    BY <1>6 DEF OpenStream, CostOK, chans, netvars, stream, loop, tools, session
  <2>5. ControlOK' /\ Accounts' /\ CallAtHand' /\ NumberedOnce'
    BY <1>6 DEF OpenStream, CostOK, ControlOK, Locations, env, Accounts, Before,
      Streaming, Tooling, CallAtHand, NumberedOnce, chans, netvars, stream, loop, tools,
      session
  <2> QED
    BY <2>1, <2>2, <2>3, <2>4, <2>5
<1>7. CASE ReadEvent
  <2> DEFINE e == Head(buf)
  <2>1. e \in Events /\ Tail(buf) \in Seq(Events)
    BY <1>7, HeadTailProperties DEF ReadEvent, NetOK
  <2>2. NetOK'
    BY <1>7, <2>1 DEF ReadEvent, NetOK
  <2>3. CASE cancelled /\ StreamFailed /\ UNCHANGED chans
    BY <1>7, <2>2, <2>3, StreamFailedType, Untouched DEF ReadEvent, Streaming
  <2>4. CASE /\ Emit(Message("event", NoId), AfterEvent(e))
             /\ emitted' = TRUE /\ Absorb(e)
             /\ UNCHANGED <<sOpen, eOpen, loop, tools, session, env>>
    <3>1. ChannelsOK' /\ pc' \in {"report", "partial", "poll"}
      BY <2>4, EmitType DEF Kinds, NoId, AfterEvent, Emit
    <3>2. e.kind \in EventKinds /\ e.n \in Int /\ (e.kind \in {"cost", "inline"} => e.n \in Nat)
      BY <2>1
    <3>3. StreamOK'
      <4>1. IsFiniteSet(calls \cup {e.n})
        BY FS_AddElement DEF StreamOK
      <4>2. calls' \subseteq Int /\ IsFiniteSet(calls')
        BY <2>4, <3>2, <4>1 DEF Absorb, StreamOK
      <4>3. inline' \in Nat /\ visible' \in BOOLEAN /\ emitted' \in BOOLEAN
        BY <2>4, <3>2 DEF Absorb, StreamOK
      <4> QED
        BY <2>4, <4>2, <4>3 DEF StreamOK
    <3>4. LoopOK' /\ ToolsOK' /\ SessionOK'
      BY <2>4, Untouched DEF loop
    <3>5. billed = spent + attemptCost /\ turnCost = 0 /\ spent <= Budget
      BY <1>7 DEF ReadEvent, Accounts, Streaming
    <3>6. CostOK'
      BY <2>4, <3>2, <3>5 DEF Absorb, CostOK, loop
    <3>7. ControlOK' /\ CallAtHand' /\ NumberedOnce'
      BY <2>4, <3>1 DEF ControlOK, Locations, env, CallAtHand, NumberedOnce
    <3>8. Accounts'
      BY <2>4, <3>1, <3>2, <3>5 DEF Absorb, Accounts, Before, Streaming, Tooling,
        CostOK, loop
    <3> QED
      BY <2>2, <3>1, <3>3, <3>4, <3>6, <3>7, <3>8
  <2> QED
    BY <1>7, <2>3, <2>4 DEF ReadEvent
<1>8. CASE SendPartial
  <2>1. NetOK'
    BY <1>8, Untouched DEF SendPartial
  <2>2. CASE cancelled /\ StreamFailed /\ UNCHANGED chans
    BY <1>8, <2>1, <2>2, StreamFailedType, Untouched DEF SendPartial, Streaming
  <2>3. CASE Emit(Message("partial", NoId), "poll") /\ UNCHANGED <<stream, loop, tools, session, env>>
    <3>1. ChannelsOK' /\ pc' = "poll"
      BY <2>3, EmitType DEF Kinds, NoId, Emit
    <3>2. StreamOK' /\ LoopOK' /\ CostOK' /\ ToolsOK' /\ SessionOK'
      BY <2>3, Untouched DEF stream, loop
    <3>3. ControlOK' /\ Accounts' /\ CallAtHand' /\ NumberedOnce'
      BY <1>8, <2>3, <3>1 DEF SendPartial, ControlOK, Locations, env, Accounts, Before,
        Streaming, Tooling, CallAtHand, NumberedOnce, stream, loop
    <3> QED
      BY <2>1, <3>1, <3>2, <3>3
  <2> QED
    BY <1>8, <2>2, <2>3 DEF SendPartial
<1>9. CASE ReportBadEvent
  <2>1. NetOK'
    BY <1>9, Untouched DEF ReportBadEvent
  <2>2. CASE cancelled /\ StreamFailed /\ UNCHANGED chans
    BY <1>9, <2>1, <2>2, StreamFailedType, Untouched DEF ReportBadEvent, Streaming
  <2>3. CASE /\ Len(errs) - errsTaken < ErrCap /\ errs' = Append(errs, "warning")
             /\ pc' = "poll"
             /\ UNCHANGED <<log, taken, errsTaken, stream, loop, tools, session, env>>
    <3>1. ChannelsOK'
      BY <2>3, ReportType
    <3>2. StreamOK' /\ LoopOK' /\ CostOK' /\ ToolsOK' /\ SessionOK'
      BY <2>3, Untouched DEF stream, loop
    <3>3. ControlOK' /\ Accounts' /\ CallAtHand' /\ NumberedOnce'
      BY <1>9, <2>3 DEF ReportBadEvent, ControlOK, Locations, env, Accounts, Before,
        Streaming, Tooling, CallAtHand, NumberedOnce, stream, loop
    <3> QED
      BY <2>1, <3>1, <3>2, <3>3
  <2> QED
    BY <1>9, <2>2, <2>3 DEF ReportBadEvent
<1>10. CASE NothingReady
  <2>1. ChannelsOK' /\ NetOK' /\ StreamOK' /\ LoopOK' /\ CostOK' /\ ToolsOK' /\ SessionOK'
    BY <1>10, Untouched DEF NothingReady, chans, netvars, stream, loop, tools, session
  <2>2. ControlOK' /\ Accounts' /\ CallAtHand' /\ NumberedOnce'
    BY <1>10 DEF NothingReady, ControlOK, Locations, env, Accounts, Before, Streaming,
      Tooling, CallAtHand, NumberedOnce, chans, netvars, stream, loop, tools, session
  <2> QED
    BY <2>1, <2>2
<1>11. CASE SeeStreamClosed
  <2>1. ChannelsOK' /\ NetOK' /\ LoopOK' /\ CostOK' /\ ToolsOK' /\ SessionOK'
    BY <1>11, Untouched DEF SeeStreamClosed, chans, netvars, stream, loop, tools,
      session
  <2>2. StreamOK'
    BY <1>11 DEF SeeStreamClosed, StreamOK, chans, netvars, stream, loop, tools, session
  <2>3. ControlOK' /\ Accounts' /\ CallAtHand' /\ NumberedOnce'
    BY <1>11 DEF SeeStreamClosed, Drained, ControlOK, Locations, env, Accounts, Before,
      Streaming, Tooling, CallAtHand, NumberedOnce, chans, netvars, stream, loop, tools,
      session
  <2> QED
    BY <2>1, <2>2, <2>3
<1>12. CASE SeeErrsClosed
  <2>1. ChannelsOK' /\ NetOK' /\ LoopOK' /\ CostOK' /\ ToolsOK' /\ SessionOK'
    BY <1>12, Untouched DEF SeeErrsClosed, chans, netvars, stream, loop, tools, session
  <2>2. StreamOK'
    BY <1>12 DEF SeeErrsClosed, StreamOK, chans, netvars, stream, loop, tools, session
  <2>3. ControlOK' /\ Accounts' /\ CallAtHand' /\ NumberedOnce'
    BY <1>12 DEF SeeErrsClosed, Drained, ControlOK, Locations, env, Accounts, Before,
      Streaming, Tooling, CallAtHand, NumberedOnce, chans, netvars, stream, loop, tools,
      session
  <2> QED
    BY <2>1, <2>2, <2>3
<1>13. CASE ReadNetError
  <2>1. NetOK'
    BY <1>13 DEF ReadNetError, NetOK
  <2>2. ChannelsOK'
    BY <1>13, Untouched DEF ReadNetError
  <2> QED
    BY <1>13, <2>1, <2>2, StreamFailedType DEF ReadNetError, Streaming
<1>14. CASE SeeCancelled
  <2>1. NetOK' /\ ChannelsOK'
    BY <1>14, Untouched DEF SeeCancelled
  <2> QED
    BY <1>14, <2>1, StreamFailedType DEF SeeCancelled, Streaming
<1>15. CASE CloseTurn
  <2>1. ChannelsOK' /\ NetOK' /\ StreamOK' /\ SessionOK'
    BY <1>15, Untouched DEF CloseTurn
  <2>2. LoopOK' /\ CostOK'
    BY <1>15 DEF CloseTurn, LoopOK, CostOK
  <2>3. ToolsOK'
    BY <1>15, OrderedCallsType, EmptySeq DEF CloseTurn, ToolsOK, Verdicts
  <2>4. Accounts'
    BY <1>15 DEF CloseTurn, Accounts, Before, Streaming, Tooling, CostOK, OverBudget
  <2>5. ControlOK' /\ CallAtHand' /\ NumberedOnce'
    BY <1>15 DEF CloseTurn, ControlOK, Locations, env, CallAtHand, NumberedOnce
  <2> QED
    BY <2>1, <2>2, <2>3, <2>4, <2>5
<1>16. CASE SendAssistant
  <2>1. ChannelsOK' /\ pc' \in {"tools", "fail"}
    BY <1>16, EmitOrGiveUp DEF SendAssistant, Kinds, NoId
  <2>2. NetOK' /\ StreamOK' /\ LoopOK' /\ CostOK' /\ ToolsOK' /\ SessionOK'
    BY <1>16, Untouched DEF SendAssistant, stream, loop
  <2>3. ControlOK' /\ Accounts' /\ CallAtHand' /\ NumberedOnce'
    BY <1>16, <2>1 DEF SendAssistant, ControlOK, Locations, env, Accounts, Before,
      Streaming, Tooling, CallAtHand, NumberedOnce, stream, loop, tools
  <2> QED
    BY <2>1, <2>2, <2>3
<1>17. CASE SendToolUse
  <2>1. Current \in Int
    BY <1>17, CurrentType DEF SendToolUse
  <2>2. ChannelsOK' /\ pc' \in {"permission", "fail"}
    BY <1>17, <2>1, EmitOrGiveUp DEF SendToolUse, Kinds
  <2>3. NetOK' /\ StreamOK' /\ LoopOK' /\ CostOK' /\ ToolsOK' /\ SessionOK'
    BY <1>17, Untouched DEF SendToolUse, stream, loop
  <2>4. ControlOK' /\ Accounts' /\ CallAtHand' /\ NumberedOnce'
    BY <1>17, <2>2 DEF SendToolUse, ControlOK, Locations, env, Accounts, Before,
      Streaming, Tooling, CallAtHand, NumberedOnce, stream, loop, tools
  <2> QED
    BY <2>2, <2>3, <2>4
<1>18. CASE AskPermission
  <2>1. ChannelsOK' /\ NetOK' /\ StreamOK' /\ LoopOK' /\ CostOK' /\ SessionOK'
    BY <1>18, Untouched DEF AskPermission, chans, netvars, stream, loop, tools, session
  <2>2. ToolsOK'
    BY <1>18 DEF AskPermission, ToolsOK, Deny, Verdicts, chans, netvars, stream, loop,
      tools, session
  <2>3. ControlOK' /\ Accounts' /\ CallAtHand' /\ NumberedOnce'
    BY <1>18 DEF AskPermission, Deny, ControlOK, Locations, env, Accounts, Before,
      Streaming, Tooling, CallAtHand, NumberedOnce, chans, netvars, stream, loop, tools,
      session
  <2> QED
    BY <2>1, <2>2, <2>3
<1>19. CASE RunTool
  <2>1. ChannelsOK' /\ NetOK' /\ StreamOK' /\ LoopOK' /\ CostOK' /\ SessionOK'
    BY <1>19, Untouched DEF RunTool, chans, netvars, stream, loop, tools, session
  <2>2. ToolsOK'
    BY <1>19 DEF RunTool, ToolsOK, Deny, Verdicts, chans, netvars, stream, loop, tools,
      session
  <2>3. ControlOK' /\ Accounts' /\ CallAtHand' /\ NumberedOnce'
    BY <1>19 DEF RunTool, Deny, ControlOK, Locations, env, Accounts, Before, Streaming,
      Tooling, CallAtHand, NumberedOnce, chans, netvars, stream, loop, tools, session
  <2> QED
    BY <2>1, <2>2, <2>3
<1>20. CASE SendToolResult
  <2>1. Current \in Int
    BY <1>20, CurrentType DEF SendToolResult, CallAtHand
  <2>2. Emit(Message("tool_result", Current), "tools") \/ GiveUp
    BY <1>20 DEF SendToolResult
  <2>3. ChannelsOK' /\ pc' \in {"tools", "fail"}
    BY <2>1, <2>2, EmitOrGiveUp DEF Kinds
  <2>4. Append(results, Entry("tool", <<>>, Current)) \in Seq(HistoryEntry)
    BY <2>1, EmptySeq, AppendEntry DEF ToolsOK, Roles
  <2>5. ToolsOK'
    BY <1>20, <2>4 DEF SendToolResult, ToolsOK
  <2>6. NetOK' /\ StreamOK' /\ LoopOK' /\ CostOK' /\ SessionOK'
    BY <1>20, Untouched DEF SendToolResult, stream, loop
  <2>7. ControlOK' /\ Accounts' /\ CallAtHand' /\ NumberedOnce'
    BY <1>20, <2>3 DEF SendToolResult, ControlOK, Locations, env, Accounts, Before,
      Streaming, Tooling, CallAtHand, NumberedOnce, stream, loop
  <2> QED
    BY <2>3, <2>5, <2>6, <2>7
<1>21. CASE NextTurn
  <2>1. TurnEntries \in Seq(HistoryEntry)
    BY TurnEntriesType
  <2>2. SessionOK'
    BY <1>21, <2>1, ConcatProperties DEF NextTurn, SessionOK
  <2>3. ChannelsOK' /\ NetOK' /\ StreamOK' /\ CostOK' /\ ToolsOK'
    BY <1>21, Untouched DEF NextTurn, stream
  <2>4. LoopOK'
    BY <1>21 DEF NextTurn, LoopOK, TurnsLeft
  <2>5. ControlOK' /\ Accounts' /\ CallAtHand' /\ NumberedOnce'
    BY <1>21 DEF NextTurn, ControlOK, Locations, env, Accounts, Before,
      Streaming, Tooling, CallAtHand, NumberedOnce, stream
  <2> QED
    BY <2>2, <2>3, <2>4, <2>5
<1>22. CASE Answer
  <2>1. ToolsOK'
    BY <1>22 DEF Answer, ToolsOK, Verdicts
  <2>2. SessionOK'
    <3>1. Append(history, Entry("assistant", <<>>, NoId)) \in Seq(HistoryEntry)
      BY AppendPlainEntry DEF SessionOK, Roles
    <3> QED
      BY <1>22, <3>1 DEF Answer, SessionOK
  <2>3. ChannelsOK' /\ NetOK' /\ StreamOK' /\ LoopOK' /\ CostOK'
    BY <1>22, Untouched DEF Answer, stream, loop
  <2>4. ControlOK' /\ Accounts' /\ CallAtHand' /\ NumberedOnce'
    BY <1>22 DEF Answer, ControlOK, Locations, env, Accounts, Before,
      Streaming, Tooling, CallAtHand, NumberedOnce, stream, loop
  <2> QED
    BY <2>1, <2>2, <2>3, <2>4
<1>23. CASE SendResult
  <2>1. outcome \in Kinds /\ NoId \in Int
    BY DEF ToolsOK, Verdicts, Kinds, NoId
  <2>2. ChannelsOK' /\ pc' \in {"commit", "close", "fail"}
    BY <1>23, <2>1, EmitOrGiveUp DEF SendResult, AfterResult
  <2>3. NetOK' /\ StreamOK' /\ LoopOK' /\ CostOK' /\ ToolsOK' /\ SessionOK'
    BY <1>23, Untouched DEF SendResult, stream, loop
  <2>4. ControlOK' /\ Accounts' /\ CallAtHand' /\ NumberedOnce'
    BY <1>23, <2>2 DEF SendResult, ControlOK, Locations, env, Accounts, Before,
      Streaming, Tooling, CallAtHand, NumberedOnce, stream, loop, tools
  <2> QED
    BY <2>2, <2>3, <2>4
<1>24. CASE CommitSession
  <2>1. ChannelsOK' /\ NetOK' /\ StreamOK' /\ LoopOK' /\ CostOK' /\ ToolsOK'
    BY <1>24, Untouched DEF CommitSession, chans, netvars, stream, loop, tools, session
  <2>2. SessionOK'
    BY <1>24 DEF CommitSession, SessionOK, chans, netvars, stream, loop, tools, session
  <2>3. ControlOK' /\ Accounts' /\ CallAtHand' /\ NumberedOnce'
    BY <1>24 DEF CommitSession, ControlOK, Locations, env, Accounts, Before, Streaming,
      Tooling, CallAtHand, NumberedOnce, chans, netvars, stream, loop, tools, session
  <2> QED
    BY <2>1, <2>2, <2>3
<1>25. CASE Fail
  <2>1. NetOK' /\ StreamOK' /\ LoopOK' /\ CostOK' /\ ToolsOK' /\ SessionOK'
    BY <1>25, Untouched DEF Fail, chans, netvars, stream, loop, tools, session
  <2>2. ChannelsOK'
    BY <1>25, ReportType DEF Fail, chans, netvars, stream, loop, tools, session
  <2>3. ControlOK' /\ Accounts' /\ CallAtHand' /\ NumberedOnce'
    BY <1>25 DEF Fail, ControlOK, Locations, env, Accounts, Before, Streaming, Tooling,
      CallAtHand, NumberedOnce, chans, netvars, stream, loop, tools, session
  <2> QED
    BY <2>1, <2>2, <2>3
<1>26. CASE Close
  <2>1. ChannelsOK' /\ NetOK' /\ StreamOK' /\ LoopOK' /\ CostOK' /\ ToolsOK' /\ SessionOK'
    BY <1>26, Untouched DEF Close, chans, netvars, stream, loop, tools, session
  <2>2. ControlOK' /\ Accounts' /\ CallAtHand' /\ NumberedOnce'
    BY <1>26 DEF Close, ControlOK, Locations, env, Accounts, Before, Streaming, Tooling,
      CallAtHand, NumberedOnce, chans, netvars, stream, loop, tools, session
  <2> QED
    BY <2>1, <2>2
<1>27. CASE ServeEvent
  <2>1. NetOK'
    BY <1>27, AppendProperties DEF ServeEvent, NetOK
  <2>2. ChannelsOK' /\ StreamOK' /\ LoopOK' /\ CostOK' /\ ToolsOK' /\ SessionOK'
    BY <1>27, Untouched DEF ServeEvent, local, loop
  <2>3. ControlOK' /\ Accounts' /\ CallAtHand' /\ NumberedOnce'
    BY <1>27 DEF ServeEvent, local, ControlOK, env, Accounts, CallAtHand, NumberedOnce,
      loop, tools, session
  <2> QED
    BY <2>1, <2>2, <2>3
<1>28. CASE ServeError
  <2>1. ChannelsOK' /\ StreamOK' /\ LoopOK' /\ CostOK' /\ ToolsOK' /\ SessionOK'
    BY <1>28, Untouched DEF ServeError, local, chans, netvars, stream, loop, tools,
      session
  <2>2. NetOK'
    BY <1>28 DEF ServeError, NetOK, local, chans, netvars, stream, loop, tools, session
  <2>3. ControlOK' /\ Accounts' /\ CallAtHand' /\ NumberedOnce'
    BY <1>28 DEF ServeError, ControlOK, Locations, env, Accounts, Before, Streaming,
      Tooling, CallAtHand, NumberedOnce, local, chans, netvars, stream, loop, tools,
      session
  <2> QED
    BY <2>1, <2>2, <2>3
<1>29. CASE ServeEnd
  <2>1. ChannelsOK' /\ StreamOK' /\ LoopOK' /\ CostOK' /\ ToolsOK' /\ SessionOK'
    BY <1>29, Untouched DEF ServeEnd, local, chans, netvars, stream, loop, tools,
      session
  <2>2. NetOK'
    BY <1>29 DEF ServeEnd, NetOK, local, chans, netvars, stream, loop, tools, session
  <2>3. ControlOK' /\ Accounts' /\ CallAtHand' /\ NumberedOnce'
    BY <1>29 DEF ServeEnd, ControlOK, Locations, env, Accounts, Before, Streaming,
      Tooling, CallAtHand, NumberedOnce, local, chans, netvars, stream, loop, tools,
      session
  <2> QED
    BY <2>1, <2>2, <2>3
<1>30. CASE ServeAborted
  <2>1. ChannelsOK' /\ StreamOK' /\ LoopOK' /\ CostOK' /\ ToolsOK' /\ SessionOK'
    BY <1>30, Untouched DEF ServeAborted, local, chans, netvars, stream, loop, tools,
      session
  <2>2. NetOK'
    BY <1>30 DEF ServeAborted, NetOK, local, chans, netvars, stream, loop, tools,
      session
  <2>3. ControlOK' /\ Accounts' /\ CallAtHand' /\ NumberedOnce'
    BY <1>30 DEF ServeAborted, ControlOK, Locations, env, Accounts, Before, Streaming,
      Tooling, CallAtHand, NumberedOnce, local, chans, netvars, stream, loop, tools,
      session
  <2> QED
    BY <2>1, <2>2, <2>3
<1>31. CASE TakeMessage
  <2>1. NetOK' /\ StreamOK' /\ LoopOK' /\ CostOK' /\ ToolsOK' /\ SessionOK'
    BY <1>31, Untouched DEF TakeMessage, chans, netvars, stream, loop, tools, session
  <2>2. ChannelsOK'
    BY <1>31 DEF TakeMessage, ChannelsOK, chans, netvars, stream, loop, tools, session
  <2>3. ControlOK' /\ Accounts' /\ CallAtHand' /\ NumberedOnce'
    BY <1>31 DEF TakeMessage, ControlOK, Locations, env, Accounts, Before, Streaming,
      Tooling, CallAtHand, NumberedOnce, chans, netvars, stream, loop, tools, session
  <2> QED
    BY <2>1, <2>2, <2>3
<1>32. CASE TakeError
  <2>1. NetOK' /\ StreamOK' /\ LoopOK' /\ CostOK' /\ ToolsOK' /\ SessionOK'
    BY <1>32, Untouched DEF TakeError, chans, netvars, stream, loop, tools, session
  <2>2. ChannelsOK'
    BY <1>32 DEF TakeError, ChannelsOK, chans, netvars, stream, loop, tools, session
  <2>3. ControlOK' /\ Accounts' /\ CallAtHand' /\ NumberedOnce'
    BY <1>32 DEF TakeError, ControlOK, Locations, env, Accounts, Before, Streaming,
      Tooling, CallAtHand, NumberedOnce, chans, netvars, stream, loop, tools, session
  <2> QED
    BY <2>1, <2>2, <2>3
<1>33. CASE Leave
  <2>1. ChannelsOK' /\ NetOK' /\ StreamOK' /\ LoopOK' /\ CostOK' /\ ToolsOK' /\ SessionOK'
    BY <1>33, Untouched DEF Leave, chans, netvars, stream, loop, tools, session
  <2>2. ControlOK' /\ Accounts' /\ CallAtHand' /\ NumberedOnce'
    BY <1>33 DEF Leave, ControlOK, Locations, env, Accounts, Before, Streaming, Tooling,
      CallAtHand, NumberedOnce, chans, netvars, stream, loop, tools, session
  <2> QED
    BY <2>1, <2>2
<1>34. CASE Cancel
  <2>1. ChannelsOK' /\ NetOK' /\ StreamOK' /\ LoopOK' /\ CostOK' /\ ToolsOK' /\ SessionOK'
    BY <1>34, Untouched DEF Cancel, chans, netvars, stream, loop, tools, session
  <2>2. ControlOK' /\ Accounts' /\ CallAtHand' /\ NumberedOnce'
    BY <1>34 DEF Cancel, ControlOK, Locations, env, Accounts, Before, Streaming,
      Tooling, CallAtHand, NumberedOnce, chans, netvars, stream, loop, tools, session
  <2> QED
    BY <2>1, <2>2
<1>35. CASE UNCHANGED vars
  BY <1>35, Untouched DEF vars, chans, netvars, stream, loop, tools, session, ControlOK,
    Locations, env, Accounts, Before, Streaming, Tooling, CallAtHand, NumberedOnce
<1> QED
  BY <1>1, <1>2, <1>3, <1>4, <1>5, <1>6, <1>7, <1>8, <1>9, <1>10, <1>11, <1>12, <1>13,
    <1>14, <1>15, <1>16, <1>17, <1>18, <1>19, <1>20, <1>21, <1>22, <1>23, <1>24, <1>25,
    <1>26, <1>27, <1>28, <1>29, <1>30, <1>31, <1>32, <1>33, <1>34, <1>35 DEF Next, Run,
    Serve, Consume, Finished

(* Every reachable state is well typed, every channel is within its        *)
(* capacity and the loops are within their limits.                         *)
THEOREM TypeCorrect == Spec => []TypeOK
<1>1. Spec => []TypeInv
  BY InitTypeInv, TypeStep, PTL DEF Spec
<1>2. TypeInv => TypeOK
  BY DEF TypeInv
<1> QED
  BY <1>1, <1>2, PTL

(* Once the charges exceed the budget no request is sent, no tool is run.  *)
THEOREM BudgetKept == Spec => []BudgetRespected
<1>1. Spec => []TypeInv
  BY InitTypeInv, TypeStep, PTL DEF Spec
<1>2. TypeInv => BudgetRespected
  BY DEF TypeInv, TypeOK, Accounts, Before, Tooling, BudgetRespected
<1> QED
  BY <1>1, <1>2, PTL

-----------------------------------------------------------------------------
(***************************************************************************)
(* Tool calls and their answers.  The tool entries collected so far answer *)
(* the first calls of the turn, in order; when all are answered the turn   *)
(* joins the history as a whole.                                           *)
(***************************************************************************)
ResultsAnswer ==
  /\ Len(results) <= Len(todo)
  /\ \A j \in 1..Len(results) : results[j] = Entry("tool", <<>>, todo[j])

HistoryInv == HistoryAnswered /\ ResultsAnswer

(* An entry without calls may follow any answered history.                 *)
LEMMA AppendAnswered ==
  ASSUME NEW h \in Seq(HistoryEntry), Answered(h), NEW role \in Roles
  PROVE  Answered(Append(h, Entry(role, <<>>, NoId)))
<1> DEFINE e == Entry(role, <<>>, NoId)
           g == Append(h, e)
<1>1. /\ g \in Seq(HistoryEntry) /\ Len(g) = Len(h) + 1 /\ Len(h) \in Nat
      /\ \A i \in 1..Len(h) : g[i] = h[i]
      /\ g[Len(h) + 1] = e
  <2>1. e \in HistoryEntry
    BY PlainEntryType
  <2> QED
    BY <2>1, AppendProperties, LenProperties
<1>2. Len(e.calls) = 0
  BY EntryFields
<1> HIDE DEF g, e
<1>3. ASSUME NEW i \in 1..Len(g), NEW j \in 1..Len(g[i].calls)
      PROVE  i + j <= Len(g) /\ g[i+j].role = "tool" /\ g[i+j].id = g[i].calls[j]
  <2>1. i \in 1..Len(h) /\ g[i] = h[i]
    BY <1>1, <1>2
  <2>2. j \in 1..Len(h[i].calls)
    BY <2>1
  <2>3. i + j <= Len(h) /\ h[i+j].role = "tool" /\ h[i+j].id = h[i].calls[j]
    BY <2>1, <2>2 DEF Answered, AnsweredAt
  <2>4. i + j \in 1..Len(h)
    <3>1. i \in Nat \ {0} /\ j \in Nat
      <4>1. h[i] \in HistoryEntry
        BY <2>1, ElementOfSeq
      <4>2. h[i].calls \in Seq(Int)
        BY <4>1 DEF HistoryEntry
      <4> QED
        BY <2>1, <2>2, <4>2, LenProperties
    <3> QED
      BY <1>1, <2>3, <3>1
  <2> QED
    BY <1>1, <2>1, <2>3, <2>4
<1> QED
  BY <1>3 DEF Answered, AnsweredAt, g, e

(* A turn whose calls are all answered may follow any answered history.    *)
LEMMA TurnAnswered ==
  ASSUME NEW h \in Seq(HistoryEntry), Answered(h), ToolsOK, ResultsAnswer,
         Len(results) = Len(todo)
  PROVE  Answered(h \o TurnEntries)
<1> DEFINE e == Entry("assistant", todo, NoId)
           t == TurnEntries
           g == h \o t
           n == Len(h)
<1>1. /\ n \in Nat /\ Len(todo) \in Nat /\ t \in Seq(HistoryEntry)
      /\ Len(t) = 1 + Len(todo) /\ t[1] = e
      /\ \A k \in 1..Len(todo) : t[k+1] = results[k]
  <2>1. e \in HistoryEntry
    BY EntryType DEF ToolsOK, Roles, NoId
  <2>2. <<e>> \in Seq(HistoryEntry) /\ Len(<<e>>) = 1 /\ <<e>>[1] = e
    BY <2>1
  <2>3. n \in Nat /\ Len(todo) \in Nat
    BY LenProperties DEF ToolsOK
  <2> QED
    BY <2>2, <2>3, ConcatProperties, TurnEntriesType DEF TurnEntries, ToolsOK
<1>2. /\ g \in Seq(HistoryEntry) /\ Len(g) = n + 1 + Len(todo)
      /\ \A i \in 1..n : g[i] = h[i]
      /\ g[n+1] = e
      /\ \A k \in 1..Len(todo) : g[n+1+k] = results[k]
  <2>1. /\ g \in Seq(HistoryEntry) /\ Len(g) = n + Len(t)
        /\ \A i \in 1..n + Len(t) : g[i] = IF i <= n THEN h[i] ELSE t[i - n]
    BY <1>1, ConcatProperties
  <2> HIDE DEF g, t, e, n
  <2> QED
    BY <1>1, <2>1
<1>3. e.calls = todo /\ \A k \in 1..Len(todo) : results[k].role = "tool"
                        /\ results[k].id = todo[k] /\ Len(results[k].calls) = 0
  <2>1. \A k \in 1..Len(todo) : results[k] = Entry("tool", <<>>, todo[k])
    BY DEF ResultsAnswer
  <2> QED
    BY <2>1, EntryFields
<1>4. n \in Nat /\ Len(todo) \in Nat
  BY <1>1
<1>5. \A i \in 1..n : \A j \in 1..Len(h[i].calls) :
        i + j <= n /\ h[i+j].role = "tool" /\ h[i+j].id = h[i].calls[j] /\ j \in Nat
  <2> TAKE i \in 1..n
  <2>1. h[i].calls \in Seq(Int)
    <3>1. h[i] \in HistoryEntry
      BY ElementOfSeq
    <3> QED
      BY <3>1 DEF HistoryEntry
  <2>2. Len(h[i].calls) \in Nat
    BY <2>1, LenProperties
  <2> QED
    BY <2>2 DEF Answered, AnsweredAt
<1> HIDE DEF g, t, e, n
<1>6. ASSUME NEW i \in 1..Len(g), NEW j \in 1..Len(g[i].calls)
      PROVE  i + j <= Len(g) /\ g[i+j].role = "tool" /\ g[i+j].id = g[i].calls[j]
  <2>1. CASE i \in 1..n
    <3>1. g[i] = h[i] /\ j \in 1..Len(h[i].calls)
      BY <1>2, <2>1
    <3>2. i + j <= n /\ h[i+j].role = "tool" /\ h[i+j].id = h[i].calls[j] /\ j \in Nat
      BY <1>5, <2>1, <3>1
    <3>3. j >= 1
      BY <3>1, <3>2
    <3>4. i + j \in 1..n
      BY <1>4, <2>1, <3>2, <3>3
    <3> QED
      BY <1>2, <1>4, <3>1, <3>2, <3>4
  <2>2. CASE i = n + 1
    <3>1. j \in 1..Len(todo)
      BY <1>2, <1>3, <2>2
    <3> QED
      BY <1>2, <1>3, <1>4, <2>2, <3>1
  <2>3. CASE i \in n+2..Len(g)
    <3>1. PICK k \in 1..Len(todo) : i = n + 1 + k
      <4>1. i - n - 1 \in 1..Len(todo) /\ i = n + 1 + (i - n - 1)
        BY <1>2, <1>4, <2>3
      <4> QED
        BY <4>1
    <3> QED
      BY <1>2, <1>3, <3>1
  <2> QED
    BY <1>2, <1>4, <2>1, <2>2, <2>3
<1> QED
  BY <1>6 DEF Answered, AnsweredAt, g, t

(* Steps that touch neither the histories nor the tool entries.            *)
LEMMA HistoryUntouched ==
  ASSUME HistoryInv, UNCHANGED <<history, committed, todo, results>>
  PROVE  HistoryInv'
BY DEF HistoryInv, HistoryAnswered, ResultsAnswer

(* A run starts from an answered history and no tool results.              *)
LEMMA InitHistoryInv == Init => HistoryInv
<1> SUFFICES ASSUME Init PROVE HistoryInv
  OBVIOUS
<1>1. Answered(<<>>)
  BY DEF Answered
<1>2. Answered(prior)
  BY QueryRunAssumption DEF Init
<1> QED
  BY <1>1, <1>2 DEF Init, HistoryInv, HistoryAnswered, ResultsAnswer

(* Steps that write a history or collect a tool entry; the others are      *)
(* HistoryUntouched.                                                       *)
LEMMA HistoryStep == TypeInv /\ HistoryInv /\ [Next]_vars => HistoryInv'
<1> SUFFICES ASSUME TypeInv, HistoryInv, [Next]_vars PROVE HistoryInv'
  OBVIOUS
<1> USE DEF tools, session
<1>1. CASE StartTransport
  BY <1>1 DEF StartTransport, HistoryInv, HistoryAnswered, ResultsAnswer
<1>2. CASE SendSystem
  <2>1. Answered(Append(history, Entry("system", <<>>, NoId)))
    BY AppendAnswered DEF HistoryInv, HistoryAnswered, TypeInv, TypeOK, SessionOK, Roles
  <2> QED
    BY <1>2, <2>1 DEF SendSystem, HistoryInv, HistoryAnswered, ResultsAnswer
<1>3. CASE UserHook
  <2>1. Answered(Append(history, Entry("user", <<>>, NoId)))
    BY AppendAnswered DEF HistoryInv, HistoryAnswered, TypeInv, TypeOK, SessionOK, Roles
  <2> QED
    BY <1>3, <2>1 DEF UserHook, HistoryInv, HistoryAnswered, ResultsAnswer
<1>4. CASE TakeCheckpoint
  BY <1>4 DEF TakeCheckpoint, HistoryInv, HistoryAnswered, ResultsAnswer
<1>5. CASE CloseTurn
  <2>1. HistoryAnswered'
    BY <1>5 DEF CloseTurn, HistoryInv, HistoryAnswered
  <2>2. CASE UNCHANGED <<todo, results>>
    BY <2>1, <2>2 DEF HistoryInv, ResultsAnswer
  <2>3. CASE todo' \in OrderedCalls /\ results' = <<>>
    <3>1. Len(todo') \in Nat
      BY <2>3, OrderedCallsType, LenProperties DEF TypeInv, TypeOK
    <3>2. Len(results') = 0
      BY <2>3
    <3> QED
      BY <2>1, <3>1, <3>2 DEF HistoryInv, ResultsAnswer
  <2> QED
    BY <1>5, <2>2, <2>3 DEF CloseTurn
<1>6. CASE SendToolResult
  <2>1. CASE UNCHANGED results
    BY <1>6, <2>1, HistoryUntouched DEF SendToolResult
  <2>2. CASE results' = Append(results, Entry("tool", <<>>, Current))
    <3> DEFINE e == Entry("tool", <<>>, Current)
    <3>1. Len(results) < Len(todo) /\ Len(results) \in Nat /\ Len(todo) \in Nat
      BY <1>6, LenProperties DEF SendToolResult, TypeInv, TypeOK, CallAtHand, ToolsOK
    <3>2. e \in HistoryEntry
      <4>1. Current \in Int
        BY <3>1, CurrentType DEF TypeInv, TypeOK
      <4>2. <<>> \in Seq(Int)
        OBVIOUS
      <4> QED
        BY <4>1, <4>2, EntryType DEF Roles
    <3>3. /\ Len(results') = Len(results) + 1
          /\ \A j \in 1..Len(results) : results'[j] = results[j]
          /\ results'[Len(results) + 1] = e
      BY <2>2, <3>2, AppendProperties DEF TypeInv, TypeOK, ToolsOK
    <3>4. todo' = todo /\ UNCHANGED <<history, committed>>
      BY <1>6 DEF SendToolResult
    <3>5. \A j \in 1..Len(results') : results'[j] = Entry("tool", <<>>, todo[j])
      BY <3>1, <3>3 DEF HistoryInv, ResultsAnswer, Current
    <3> QED
      BY <3>1, <3>3, <3>4, <3>5 DEF HistoryInv, HistoryAnswered, ResultsAnswer
  <2> QED
    BY <1>6, <2>1, <2>2 DEF SendToolResult
<1>7. CASE NextTurn
  <2>1. Answered(history \o TurnEntries)
    BY <1>7, TurnAnswered DEF NextTurn, HistoryInv, HistoryAnswered, TypeInv, TypeOK,
      SessionOK
  <2> QED
    BY <1>7, <2>1 DEF NextTurn, HistoryInv, HistoryAnswered, ResultsAnswer
<1>8. CASE Answer
  <2>1. Answered(Append(history, Entry("assistant", <<>>, NoId)))
    BY AppendAnswered DEF HistoryInv, HistoryAnswered, TypeInv, TypeOK, SessionOK, Roles
  <2> QED
    BY <1>8, <2>1 DEF Answer, HistoryInv, HistoryAnswered, ResultsAnswer
<1>9. CASE CommitSession
  BY <1>9 DEF CommitSession, HistoryInv, HistoryAnswered, ResultsAnswer
<1>10. CASE UNCHANGED <<history, committed, todo, results>>
  BY <1>10, HistoryUntouched
<1>11. CASE SendUser \/ OpenStream \/ ReadEvent \/ SendPartial \/ ReportBadEvent \/ NothingReady
            \/ SeeStreamClosed \/ SeeErrsClosed \/ ReadNetError \/ SeeCancelled
  BY <1>11, <1>10 DEF SendUser, OpenStream, ReadEvent, SendPartial, ReportBadEvent,
    NothingReady, SeeStreamClosed, SeeErrsClosed, ReadNetError, SeeCancelled, StreamFailed
<1>12. CASE SendAssistant \/ SendToolUse \/ AskPermission \/ RunTool \/ SendResult \/ Fail \/ Close
  BY <1>12, <1>10 DEF SendAssistant, SendToolUse, AskPermission, RunTool, SendResult,
    Fail, Close
<1>13. CASE Serve \/ Consume \/ Leave \/ Cancel \/ UNCHANGED vars
  BY <1>13, <1>10 DEF Serve, ServeEvent, ServeError, ServeEnd, ServeAborted, local,
    Consume,
    TakeMessage, TakeError, Leave, Cancel, vars
<1> QED
  BY <1>1, <1>2, <1>3, <1>4, <1>5, <1>6, <1>7, <1>8, <1>9, <1>11, <1>12, <1>13
  DEF Next, Run, Finished

(* Every history sent to the model and every history stored answers each   *)
(* tool call, in order, right after the turn that made it.                 *)
THEOREM HistoryCorrect == Spec => []HistoryAnswered
<1>1. Init => TypeInv /\ HistoryInv
  BY InitTypeInv, InitHistoryInv
<1>2. TypeInv /\ HistoryInv /\ [Next]_vars => TypeInv' /\ HistoryInv'
  BY TypeStep, HistoryStep
<1>3. TypeInv /\ HistoryInv => HistoryAnswered
  BY DEF HistoryInv
<1> QED
  BY <1>1, <1>2, <1>3, PTL DEF Spec

-----------------------------------------------------------------------------
(***************************************************************************)
(* Fallback.  Before a request is sent nothing of its turn has been        *)
(* delivered; while its stream is read, something has only if `emitted'    *)
(* says so; so when another model is tried the turn is still unseen.       *)
(***************************************************************************)
FromModel(i) == log[i].kind \in ModelKinds
OfTurn(i) == log[i].turn = turn

FallbackInv ==
  /\ \A i \in 1..Len(log) : FromModel(i) => log[i].turn <= turn
  /\ \A i \in 1..Len(log) : FromModel(i) /\ OfTurn(i) =>
       /\ log[i].attempt = attempt
       /\ pc \notin Before \cup {"open"}
       /\ pc \in Streaming => emitted
  /\ pc \in {"partial", "report"} => emitted
  /\ NoMixedAttempts

(* Steps that deliver nothing and stay within the attempt.                 *)
LEMMA NothingDelivered ==
  ASSUME FallbackInv, UNCHANGED <<log, turn, attempt>>,
         pc' \in Before \cup {"open"} => pc \in Before \cup {"open"},
         pc' \in Streaming => emitted' \/ pc \in Before \cup {"open"}
                             \/ (pc \in Streaming /\ UNCHANGED emitted),
         pc' \in {"partial", "report"} => emitted'
  PROVE  FallbackInv'
BY DEF FallbackInv, NoMixedAttempts, FromModel, OfTurn

(* Delivering what is not from a model: the prompt, the question, verdicts.*)
LEMMA OtherDelivered ==
  ASSUME TypeInv, FallbackInv, NEW kind \in Kinds \ ModelKinds, NEW id \in Int,
         Put(Message(kind, id)), UNCHANGED <<turn, attempt>>,
         pc' \in Before \cup {"open"} => pc \in Before \cup {"open"},
         pc' \notin Streaming
  PROVE  FallbackInv'
<1> DEFINE m == Message(kind, id)
<1>1. m \in MessageType /\ m.kind \notin ModelKinds
  BY DEF TypeInv, TypeOK, LoopOK, Message, MessageType
<1>2. /\ Len(log') = Len(log) + 1 /\ Len(log) \in Nat
      /\ \A i \in 1..Len(log) : log'[i] = log[i]
      /\ log'[Len(log) + 1] = m
  BY <1>1, AppendProperties, LenProperties DEF Put, TypeInv, TypeOK, ChannelsOK
<1> HIDE DEF m
<1>3. \A i \in 1..Len(log') : log'[i].kind \in ModelKinds => i \in 1..Len(log)
  BY <1>1, <1>2
<1> QED
  BY <1>2, <1>3 DEF FallbackInv, NoMixedAttempts, FromModel, OfTurn, Streaming

(* Delivering what a model said, or a tool answered, in the current turn.  *)
LEMMA ModelDelivered ==
  ASSUME TypeInv, FallbackInv, NEW kind \in ModelKinds, NEW id \in Int,
         Put(Message(kind, id)), UNCHANGED <<turn, attempt>>,
         pc' \notin Before \cup {"open"}, pc' \in Streaming => emitted'
  PROVE  FallbackInv'
<1> DEFINE m == Message(kind, id)
           n == Len(log) + 1
<1>1. m \in MessageType /\ m.turn = turn /\ m.attempt = attempt
  BY DEF TypeInv, TypeOK, LoopOK, Message, MessageType, Kinds, ModelKinds
<1>2. /\ Len(log') = n /\ Len(log) \in Nat
      /\ \A i \in 1..Len(log) : log'[i] = log[i]
      /\ log'[n] = m
  BY <1>1, AppendProperties, LenProperties DEF Put, TypeInv, TypeOK, ChannelsOK
<1>3. turn \in Int
  BY QueryRunAssumption DEF TypeInv, TypeOK, LoopOK
<1>4. \A i \in 1..Len(log') : i \in 1..Len(log) \/ i = n
  BY <1>2
<1> HIDE DEF m, n
<1>5. /\ \A i \in 1..Len(log') : FromModel(i)' => log'[i].turn <= turn
      /\ \A i \in 1..Len(log') : FromModel(i)' /\ log'[i].turn = turn => log'[i].attempt = attempt
  BY <1>1, <1>2, <1>3, <1>4 DEF FallbackInv, FromModel, OfTurn
<1>6. NoMixedAttempts'
  <2> SUFFICES ASSUME NEW i \in 1..Len(log'), NEW j \in 1..Len(log'),
                      FromModel(i)', FromModel(j)', log'[i].turn = log'[j].turn
               PROVE  log'[i].attempt = log'[j].attempt
    BY DEF NoMixedAttempts, FromModel
  <2>1. CASE i = n \/ j = n
    BY <1>1, <1>2, <1>5, <2>1
  <2>2. CASE i \in 1..Len(log) /\ j \in 1..Len(log)
    BY <1>2, <2>2 DEF FallbackInv, NoMixedAttempts, FromModel
  <2> QED
    BY <1>4, <2>1, <2>2
<1> QED
  BY <1>5, <1>6 DEF FallbackInv, FromModel, OfTurn, Streaming

(* A failed attempt delivers nothing; the next one starts unseen.          *)
LEMMA AttemptFailed ==
  ASSUME FallbackInv, pc \in Streaming, StreamFailed, UNCHANGED log
  PROVE  FallbackInv'
<1>1. turn' = turn
  BY DEF StreamFailed
<1>2. CASE MayFallBack
  <2>1. ~emitted /\ pc' = "open"
    BY <1>2 DEF MayFallBack, StreamFailed
  <2>2. \A i \in 1..Len(log) : ~(FromModel(i) /\ OfTurn(i))
    BY <2>1 DEF FallbackInv
  <2> QED
    BY <1>1, <2>1, <2>2 DEF FallbackInv, NoMixedAttempts, FromModel, OfTurn
<1>3. CASE ~MayFallBack
  <2>1. pc' = "fail" /\ attempt' = attempt
    BY <1>3 DEF StreamFailed
  <2> QED
    BY <1>1, <2>1, NothingDelivered DEF Before, Streaming
<1> QED
  BY <1>2, <1>3

(* Nothing has been delivered when a run starts.                           *)
LEMMA InitFallbackInv == Init => FallbackInv
<1> SUFFICES ASSUME Init PROVE FallbackInv
  OBVIOUS
<1>1. Len(log) = 0
  BY DEF Init
<1> QED
  BY <1>1 DEF Init, FallbackInv, NoMixedAttempts

(* Every step keeps each turn to one model attempt.                        *)
LEMMA FallbackStep == TypeInv /\ FallbackInv /\ [Next]_vars => FallbackInv'
<1> SUFFICES ASSUME TypeInv, FallbackInv, [Next]_vars PROVE FallbackInv'
  OBVIOUS
<1> USE DEF Before, Streaming, loop, chans
<1>1. CASE StartTransport \/ UserHook \/ TakeCheckpoint
  BY <1>1, NothingDelivered DEF StartTransport, UserHook, TakeCheckpoint
<1>2. CASE SendSystem \/ SendUser
  <2>1. NoId \in Int /\ {"system", "user"} \subseteq Kinds \ ModelKinds
    BY DEF NoId, Kinds, ModelKinds
  <2>2. CASE GiveUp
    BY <1>2, <2>2, NothingDelivered DEF SendSystem, SendUser, GiveUp
  <2>3. CASE SendSystem /\ Emit(Message("system", NoId), "user")
    BY <2>1, <2>3, OtherDelivered DEF SendSystem, Emit
  <2>4. CASE SendUser /\ Emit(Message("user", NoId), "userHook")
    BY <2>1, <2>4, OtherDelivered DEF SendUser, Emit
  <2> QED
    BY <1>2, <2>2, <2>3, <2>4 DEF SendSystem, SendUser
<1>3. CASE OpenStream
  BY <1>3, NothingDelivered DEF OpenStream
<1>4. CASE ReadEvent
  <2>1. CASE StreamFailed /\ UNCHANGED chans
    BY <1>4, <2>1, AttemptFailed DEF ReadEvent
  <2>2. CASE Emit(Message("event", NoId), AfterEvent(Head(buf))) /\ emitted' = TRUE /\ UNCHANGED loop
    <3>1. NoId \in Int /\ "event" \in ModelKinds
      BY DEF NoId, ModelKinds
    <3>2. pc' \in {"report", "partial", "poll"}
      BY <2>2 DEF Emit, AfterEvent
    <3> QED
      BY <2>2, <3>1, <3>2, ModelDelivered DEF Emit
  <2> QED
    BY <1>4, <2>1, <2>2 DEF ReadEvent
<1>5. CASE SendPartial
  <2>1. CASE StreamFailed /\ UNCHANGED chans
    BY <1>5, <2>1, AttemptFailed DEF SendPartial
  <2>2. CASE Emit(Message("partial", NoId), "poll") /\ UNCHANGED <<stream, loop>>
    <3>1. NoId \in Int /\ "partial" \in ModelKinds
      BY DEF NoId, ModelKinds
    <3>2. emitted'
      BY <1>5, <2>2 DEF SendPartial, FallbackInv, stream
    <3> QED
      BY <2>2, <3>1, <3>2, ModelDelivered DEF Emit
  <2> QED
    BY <1>5, <2>1, <2>2 DEF SendPartial
<1>6. CASE ReportBadEvent
  <2>1. CASE StreamFailed /\ UNCHANGED chans
    BY <1>6, <2>1, AttemptFailed DEF ReportBadEvent
  <2>2. CASE pc' = "poll" /\ UNCHANGED <<log, stream, loop>>
    BY <1>6, <2>2, NothingDelivered DEF ReportBadEvent, stream
  <2> QED
    BY <1>6, <2>1, <2>2 DEF ReportBadEvent
<1>7. CASE ReadNetError \/ SeeCancelled
  BY <1>7, AttemptFailed DEF ReadNetError, SeeCancelled
<1>8. CASE NothingReady \/ SeeStreamClosed \/ SeeErrsClosed
  BY <1>8, NothingDelivered DEF NothingReady, SeeStreamClosed, SeeErrsClosed, stream
<1>9. CASE CloseTurn \/ AskPermission \/ RunTool \/ Answer \/ CommitSession \/ Fail \/ Close
  BY <1>9, NothingDelivered DEF CloseTurn, AskPermission, RunTool, Deny, Answer,
    CommitSession,
    Fail, Close
<1>10. CASE SendAssistant \/ SendToolUse \/ SendToolResult
  <2>1. NoId \in Int /\ {"assistant", "tool_use", "tool_result"} \subseteq ModelKinds
    BY DEF NoId, ModelKinds
  <2>2. CASE GiveUp
    BY <1>10, <2>2, NothingDelivered DEF SendAssistant, SendToolUse, SendToolResult,
      GiveUp
  <2>3. CASE SendAssistant /\ Emit(Message("assistant", NoId), "tools")
    BY <2>1, <2>3, ModelDelivered DEF SendAssistant, Emit
  <2>4. SendToolUse \/ SendToolResult => Current \in Int
    BY CurrentType DEF SendToolUse, SendToolResult, TypeInv, TypeOK, CallAtHand
  <2>5. CASE SendToolUse /\ Emit(Message("tool_use", Current), "permission")
    BY <2>1, <2>4, <2>5, ModelDelivered DEF SendToolUse, Emit
  <2>6. CASE SendToolResult /\ Emit(Message("tool_result", Current), "tools")
    BY <2>1, <2>4, <2>6, ModelDelivered DEF SendToolResult, Emit
  <2> QED
    BY <1>10, <2>2, <2>3, <2>5, <2>6 DEF SendAssistant, SendToolUse, SendToolResult
<1>11. CASE NextTurn
  <2>1. CASE pc' = "open" /\ turn' = turn + 1
    <3>1. turn \in Int /\ UNCHANGED log
      BY <1>11 DEF NextTurn, TypeInv, TypeOK, LoopOK
    <3>2. \A i \in 1..Len(log) : FromModel(i) => log[i].turn \in Int /\ log[i].turn < turn'
      <4>1. \A i \in 1..Len(log) : log[i] \in MessageType
        BY ElementOfSeq DEF TypeInv, TypeOK, ChannelsOK
      <4>2. \A i \in 1..Len(log) : log[i].turn \in Int
        BY <4>1, QueryRunAssumption DEF MessageType
      <4> QED
        BY <2>1, <3>1, <4>2 DEF FallbackInv
    <3> QED
      BY <2>1, <3>1, <3>2 DEF FallbackInv, NoMixedAttempts, FromModel, OfTurn
  <2>2. CASE pc' = "fail" /\ UNCHANGED <<turn, attempt>>
    BY <1>11, <2>2, NothingDelivered DEF NextTurn
  <2> QED
    BY <1>11, <2>1, <2>2 DEF NextTurn
<1>12. CASE SendResult
  <2>1. NoId \in Int /\ outcome \in Kinds \ ModelKinds
    BY DEF NoId, Kinds, ModelKinds, TypeInv, TypeOK, ToolsOK, Verdicts
  <2>2. CASE GiveUp
    BY <1>12, <2>2, NothingDelivered DEF SendResult, GiveUp
  <2>3. CASE Emit(Message(outcome, NoId), AfterResult(outcome))
    BY <1>12, <2>1, <2>3, OtherDelivered DEF SendResult, Emit, AfterResult
  <2> QED
    BY <1>12, <2>2, <2>3 DEF SendResult
<1>13. CASE Serve \/ Consume \/ Leave \/ Cancel \/ UNCHANGED vars
  <2>1. UNCHANGED <<pc, log, turn, attempt, emitted>>
    BY <1>13 DEF Serve, ServeEvent, ServeError, ServeEnd, ServeAborted, local,
      Consume, TakeMessage, TakeError, Leave, Cancel, vars, stream
  <2> QED
    BY <2>1 DEF FallbackInv, NoMixedAttempts, FromModel, OfTurn
<1> QED
  BY <1>1, <1>2, <1>3, <1>4, <1>5, <1>6, <1>7, <1>8, <1>9, <1>10, <1>11, <1>12, <1>13
  DEF Next, Run, Finished

(* What is delivered for one turn comes from one model, for any number of  *)
(* turns and however the transport fails.                                  *)
THEOREM FallbackCorrect == Spec => []NoMixedAttempts
<1>1. Init => TypeInv /\ FallbackInv
  BY InitTypeInv, InitFallbackInv
<1>2. TypeInv /\ FallbackInv /\ [Next]_vars => TypeInv' /\ FallbackInv'
  BY TypeStep, FallbackStep
<1>3. TypeInv /\ FallbackInv => NoMixedAttempts
  BY DEF FallbackInv
<1> QED
  BY <1>1, <1>2, <1>3, PTL DEF Spec


-----------------------------------------------------------------------------
(***************************************************************************)
(* Broken streams.  A connection that broke left an error behind, and      *)
(* runStream does not end without an error before it has read it; so a     *)
(* turn ends only with a stream that was complete or aborted, and success  *)
(* is the last thing that is delivered.                                    *)
(***************************************************************************)
StreamEnded == net \in {"complete", "aborted"}

StreamInv ==
  /\ pc \in Streaming => net # "idle"
  /\ pc \in Streaming /\ net = "broken" => eOpen /\ netErrs > 0
  /\ pc \in Streaming /\ ~eOpen => StreamEnded
  /\ pc \in {"turnEnd", "result", "commit"} \cup Tooling => StreamEnded
  /\ Succeeded => StreamEnded /\ pc \in {"commit", "close", "fail", "done"}

(* Steps of the run that deliver nothing and leave the transport alone.    *)
LEMMA NothingSaid ==
  ASSUME StreamInv, UNCHANGED <<log, net>>,
         Succeeded => pc' \in {"commit", "close", "fail", "done"},
         pc' \in Streaming => pc \in Streaming /\ UNCHANGED netErrs /\ (eOpen' = eOpen \/ StreamEnded),
         pc' \in {"turnEnd", "result", "commit"} \cup Tooling => StreamEnded
  PROVE  StreamInv'
BY DEF StreamInv, Succeeded, StreamEnded

(* Delivering anything but a success.                                      *)
LEMMA NoSuccessSaid ==
  ASSUME TypeInv, StreamInv, NEW kind \in Kinds \ {"success"}, NEW id \in Int,
         Put(Message(kind, id)), UNCHANGED net,
         pc' \in Streaming => pc \in Streaming /\ UNCHANGED <<netErrs, eOpen>>,
         pc' \in {"turnEnd", "result", "commit"} \cup Tooling => StreamEnded
  PROVE  StreamInv'
<1> DEFINE m == Message(kind, id)
<1>1. m \in MessageType /\ m.kind # "success"
  BY DEF TypeInv, TypeOK, LoopOK, Message, MessageType
<1>2. Len(log') = Len(log) + 1 /\ log'[Len(log) + 1] = m
  BY <1>1, AppendProperties DEF Put, TypeInv, TypeOK, ChannelsOK
<1> HIDE DEF m
<1>3. ~Succeeded'
  BY <1>1, <1>2 DEF Succeeded
<1> QED
  BY <1>3 DEF StreamInv, StreamEnded

(* A failed attempt ends in another request or in an error.                *)
LEMMA AttemptEnds ==
  ASSUME StreamInv, pc \in Streaming, StreamFailed, UNCHANGED <<log, net>>
  PROVE  StreamInv'
<1>1. ~Succeeded
  BY DEF StreamInv, Streaming
<1>2. pc' \in {"open", "fail"}
  BY DEF StreamFailed
<1> QED
  BY <1>1, <1>2, NothingSaid DEF Streaming, Tooling

(* Nothing has been said, and nothing asked, when a run starts.            *)
LEMMA InitStreamInv == Init => StreamInv
BY DEF Init, StreamInv, Succeeded, Streaming, Tooling

(* No step lets a broken stream pass for an answer.                        *)
LEMMA StreamStep == TypeInv /\ StreamInv /\ [Next]_vars => StreamInv'
<1> SUFFICES ASSUME TypeInv, StreamInv, [Next]_vars PROVE StreamInv'
  OBVIOUS
<1> USE DEF Before, Streaming, Tooling
<1>1. pc \notin {"commit", "close", "fail", "done"} => ~Succeeded
  BY DEF StreamInv
<1>2. CASE StartTransport \/ UserHook \/ TakeCheckpoint
  <2>1. UNCHANGED <<log, net>> /\ pc' \in {"fail", "system", "user", "checkpoint", "open"}
          /\ pc \in {"start", "userHook", "checkpoint"}
    BY <1>2 DEF StartTransport, UserHook, TakeCheckpoint, chans, netvars
  <2> QED
    BY <1>1, <2>1, NothingSaid
<1>3. CASE SendSystem \/ SendUser
  <2>1. NoId \in Int /\ {"system", "user"} \subseteq Kinds \ {"success"}
    BY DEF NoId, Kinds
  <2>2. net' = net /\ pc \in {"system", "user"}
    BY <1>3 DEF SendSystem, SendUser, netvars
  <2>3. CASE GiveUp
    BY <1>1, <2>2, <2>3, NothingSaid DEF GiveUp, chans
  <2>4. CASE SendSystem /\ Emit(Message("system", NoId), "user")
    BY <2>1, <2>2, <2>4, NoSuccessSaid DEF Emit
  <2>5. CASE SendUser /\ Emit(Message("user", NoId), "userHook")
    BY <2>1, <2>2, <2>5, NoSuccessSaid DEF Emit
  <2> QED
    BY <1>3, <2>3, <2>4, <2>5 DEF SendSystem, SendUser
<1>4. CASE OpenStream
  <2>1. /\ pc = "open" /\ pc' = "poll" /\ net' = "serving" /\ eOpen' = TRUE /\ log' = log
    BY <1>4 DEF OpenStream, chans
  <2> QED
    BY <1>1, <2>1 DEF StreamInv, Succeeded
<1>5. CASE ReadEvent
  <2>1. pc \in {"poll", "wait"} /\ UNCHANGED <<netErrs, net>>
    BY <1>5 DEF ReadEvent
  <2>2. CASE StreamFailed /\ UNCHANGED chans
    BY <2>1, <2>2, AttemptEnds DEF chans
  <2>3. CASE Emit(Message("event", NoId), AfterEvent(Head(buf))) /\ UNCHANGED eOpen
    <3>1. NoId \in Int /\ "event" \in Kinds \ {"success"}
      BY DEF NoId, Kinds
    <3>2. pc' \in {"report", "partial", "poll"}
      BY <2>3 DEF Emit, AfterEvent
    <3> QED
      BY <2>1, <2>3, <3>1, <3>2, NoSuccessSaid DEF Emit
  <2> QED
    BY <1>5, <2>2, <2>3 DEF ReadEvent
<1>6. CASE SendPartial
  <2>1. pc = "partial" /\ UNCHANGED <<netErrs, net>>
    BY <1>6 DEF SendPartial, netvars
  <2>2. CASE StreamFailed /\ UNCHANGED chans
    BY <2>1, <2>2, AttemptEnds DEF chans
  <2>3. CASE Emit(Message("partial", NoId), "poll") /\ UNCHANGED stream
    <3>1. NoId \in Int /\ "partial" \in Kinds \ {"success"}
      BY DEF NoId, Kinds
    <3> QED
      BY <2>1, <2>3, <3>1, NoSuccessSaid DEF Emit, stream
  <2> QED
    BY <1>6, <2>2, <2>3 DEF SendPartial
<1>7. CASE ReportBadEvent
  <2>1. pc = "report" /\ UNCHANGED <<netErrs, net>>
    BY <1>7 DEF ReportBadEvent, netvars
  <2>2. CASE StreamFailed /\ UNCHANGED chans
    BY <2>1, <2>2, AttemptEnds DEF chans
  <2>3. CASE pc' = "poll" /\ UNCHANGED <<log, stream>>
    BY <1>1, <2>1, <2>3, NothingSaid DEF stream
  <2> QED
    BY <1>7, <2>2, <2>3 DEF ReportBadEvent
<1>8. CASE NothingReady
  BY <1>1, <1>8, NothingSaid DEF NothingReady, chans, netvars, stream
<1>9. CASE SeeStreamClosed
  <2>1. /\ pc \in {"poll", "wait"} /\ pc' = (IF eOpen THEN "poll" ELSE "turnEnd")
        /\ UNCHANGED <<log, netErrs, net, eOpen>> /\ eOpen \in BOOLEAN
    BY <1>9 DEF SeeStreamClosed, Drained, chans, netvars, TypeInv, TypeOK, StreamOK
  <2>2. pc' = "turnEnd" => StreamEnded
    BY <2>1 DEF StreamInv
  <2> QED
    BY <1>1, <2>1, <2>2, NothingSaid
<1>10. CASE SeeErrsClosed
  <2>1. /\ pc = "wait" /\ pc' \in {"poll", "turnEnd"}
        /\ UNCHANGED <<log, netErrs, net>> /\ netErrs = 0 /\ net # "serving"
    BY <1>10 DEF SeeErrsClosed, chans, netvars
  <2>2. StreamEnded
    BY <2>1 DEF StreamInv, StreamEnded, TypeInv, TypeOK, NetOK
  <2> QED
    BY <1>1, <2>1, <2>2, NothingSaid
<1>11. CASE ReadNetError \/ SeeCancelled
  BY <1>11, AttemptEnds DEF ReadNetError, SeeCancelled, chans, netvars
<1>12. CASE CloseTurn \/ AskPermission \/ RunTool \/ Answer \/ NextTurn
  <2>1. /\ pc \in {"turnEnd"} \cup Tooling /\ UNCHANGED <<log, net>>
        /\ pc' \in {"open", "fail", "result"} \cup Tooling
    BY <1>12 DEF CloseTurn, AskPermission, RunTool, Deny, Answer, NextTurn, chans, netvars
  <2>2. StreamEnded
    BY <2>1 DEF StreamInv
  <2> QED
    BY <1>1, <2>1, <2>2, NothingSaid
<1>13. CASE SendAssistant \/ SendToolUse \/ SendToolResult
  <2>1. NoId \in Int /\ {"assistant", "tool_use", "tool_result"} \subseteq Kinds \ {"success"}
    BY DEF NoId, Kinds
  <2>2. pc \in Tooling /\ net' = net
    BY <1>13 DEF SendAssistant, SendToolUse, SendToolResult, netvars
  <2>3. StreamEnded
    BY <2>2 DEF StreamInv
  <2>4. CASE GiveUp
    BY <1>1, <2>2, <2>4, NothingSaid DEF GiveUp, chans
  <2>5. CASE SendAssistant /\ Emit(Message("assistant", NoId), "tools")
    BY <2>1, <2>2, <2>3, <2>5, NoSuccessSaid DEF Emit
  <2>6. SendToolUse \/ SendToolResult => Current \in Int
    BY CurrentType DEF SendToolUse, SendToolResult, TypeInv, TypeOK, CallAtHand
  <2>7. CASE SendToolUse /\ Emit(Message("tool_use", Current), "permission")
    BY <2>1, <2>2, <2>3, <2>6, <2>7, NoSuccessSaid DEF Emit
  <2>8. CASE SendToolResult /\ Emit(Message("tool_result", Current), "tools")
    BY <2>1, <2>2, <2>3, <2>6, <2>8, NoSuccessSaid DEF Emit
  <2> QED
    BY <1>13, <2>4, <2>5, <2>7, <2>8 DEF SendAssistant, SendToolUse, SendToolResult
<1>14. CASE SendResult
  <2>1. pc = "result" /\ net' = net
    BY <1>14 DEF SendResult, netvars
  <2>2. StreamEnded /\ StreamEnded'
    BY <2>1 DEF StreamInv, StreamEnded
  <2>3. CASE GiveUp
    BY <1>1, <2>1, <2>3, NothingSaid DEF GiveUp, chans
  <2>4. CASE Emit(Message(outcome, NoId), AfterResult(outcome))
    <3>1. pc' \in {"commit", "close"}
      BY <2>4 DEF Emit, AfterResult
    <3> QED
      BY <2>2, <3>1 DEF StreamInv
  <2> QED
    BY <1>14, <2>3, <2>4 DEF SendResult
<1>15. CASE CommitSession \/ Fail \/ Close
  BY <1>15, NothingSaid DEF CommitSession, Fail, Close, chans, netvars
<1>16. CASE Serve
  <2>1. net = "serving" /\ UNCHANGED <<pc, log, eOpen>>
    BY <1>16 DEF Serve, ServeEvent, ServeError, ServeEnd, ServeAborted, local, chans
  <2>2. ~StreamEnded
    BY <2>1 DEF StreamEnded
  <2>3. ~Succeeded' /\ (pc \in Streaming => eOpen)
    BY <2>1, <2>2 DEF StreamInv, Succeeded
  <2>4. pc \notin {"turnEnd", "result", "commit"} \cup Tooling
    BY <2>2 DEF StreamInv
  <2>5. net' \in {"serving", "broken", "complete", "aborted"} /\ (net' = "broken" => netErrs' = 1)
    BY <1>16, <2>1 DEF Serve, ServeEvent, ServeError, ServeEnd, ServeAborted
  <2> QED
    BY <2>1, <2>3, <2>4, <2>5 DEF StreamInv
<1>17. CASE Consume \/ Leave \/ Cancel \/ UNCHANGED vars
  <2>1. UNCHANGED <<pc, log, net, netErrs, eOpen>>
    BY <1>17 DEF Consume, TakeMessage, TakeError, Leave, Cancel, vars, chans, netvars, stream
  <2> QED
    BY <2>1 DEF StreamInv, Succeeded, StreamEnded
<1> QED
  BY <1>2, <1>3, <1>4, <1>5, <1>6, <1>7, <1>8, <1>9, <1>10, <1>11, <1>12, <1>13, <1>14,
     <1>15, <1>16, <1>17
  DEF Next, Run, Finished

(* Whatever the transport does to a stream, a success is never the answer  *)
(* to one that broke or had an event that could not be read.               *)
THEOREM BrokenStreamsFail == Spec => []BrokenStreamNeverSucceeds
<1>1. Init => TypeInv /\ StreamInv
  BY InitTypeInv, InitStreamInv
<1>2. TypeInv /\ StreamInv /\ [Next]_vars => TypeInv' /\ StreamInv'
  BY TypeStep, StreamStep
<1>3. TypeInv /\ StreamInv => BrokenStreamNeverSucceeds
  BY DEF StreamInv, StreamEnded, BrokenStreamNeverSucceeds
<1> QED
  BY <1>1, <1>2, <1>3, PTL DEF Spec

-----------------------------------------------------------------------------
(***************************************************************************)
(* What was shown.  The history, together with the answers that have not   *)
(* joined it yet, holds the question and every tool result delivered.      *)
(***************************************************************************)

(* What holds of 0, and of a number's successor when it holds of the       *)
(* number, holds of all.                                                   *)
LEMMA Induction ==
  ASSUME NEW S \in SUBSET Nat, 0 \in S, \A n \in S : n + 1 \in S
  PROVE  S = Nat
<1> SUFFICES ASSUME Nat \ S # {} PROVE FALSE
  OBVIOUS
<1>1. PICK x \in Nat \ S : \A y \in Nat \ S : ~(<<y, x>> \in OpToRel(<, Nat))
  BY NatLessThanWellFounded, WFMin
<1>2. x \in Nat /\ x # 0
  BY <1>1
<1>3. PICK y \in Nat : x = y + 1
  <2>1. x - 1 \in Nat /\ x = (x - 1) + 1
    BY <1>2
  <2> QED
    BY <2>1
<1>4. y \in S
  <2> SUFFICES ASSUME y \in Nat \ S PROVE FALSE
    BY <1>3
  <2>1. y < x
    BY <1>3
  <2>2. ~(<<y, x>> \in OpToRel(<, Nat))
    BY <1>1
  <2> QED
    BY <1>2, <1>3, <2>1, <2>2 DEF OpToRel
<1>5. x \in S
  BY <1>3, <1>4
<1> QED
  BY <1>1, <1>5

\* The function that IdsOf evaluates at the end of the sequence.
IsIds(f, s, places, n) ==
  f = [k \in 0..n |-> IF k = 0 THEN <<>>
                      ELSE IF k \in places THEN Append(f[k-1], s[k].id) ELSE f[k-1]]

(* There is one, however long the sequence.                                *)
LEMMA IdsExist ==
  ASSUME NEW s, NEW places, NEW n \in Nat
  PROVE  \E f : IsIds(f, s, places, n)
<1> DEFINE S == {m \in Nat : \E f : IsIds(f, s, places, m)}
<1>1. 0 \in S
  <2> DEFINE f == [k \in 0..0 |-> <<>>]
  <2>1. IsIds(f, s, places, 0)
    BY DEF IsIds
  <2> QED
    BY <2>1
<1>2. ASSUME NEW m \in S PROVE m + 1 \in S
  <2>1. PICK f : IsIds(f, s, places, m)
    OBVIOUS
  <2> DEFINE last == IF m + 1 \in places THEN Append(f[m], s[m+1].id) ELSE f[m]
             g == [k \in 0..m+1 |-> IF k = m + 1 THEN last ELSE f[k]]
  <2>2. \A k \in 0..m : f[k] = IF k = 0 THEN <<>>
                               ELSE IF k \in places THEN Append(f[k-1], s[k].id) ELSE f[k-1]
    BY <2>1 DEF IsIds
  <2>3. m \in Nat /\ \A k \in 0..m : k # m + 1 /\ k \in 0..m+1 /\ (k # 0 => k - 1 \in 0..m)
    OBVIOUS
  <2>4. \A k \in 0..m : g[k] = f[k]
    BY <2>3
  <2>5. g[m+1] = last
    BY <2>3
  <2>6. \A k \in 0..m+1 : g[k] = IF k = 0 THEN <<>>
                                 ELSE IF k \in places THEN Append(g[k-1], s[k].id) ELSE g[k-1]
    <3> TAKE k \in 0..m+1
    <3>1. CASE k = m + 1
      <4>1. k # 0 /\ k - 1 = m /\ m \in 0..m
        BY <2>3, <3>1
      <4>2. g[k-1] = f[m] /\ g[k] = last
        BY <2>4, <2>5, <3>1, <4>1
      <4> HIDE DEF g
      <4> QED
        BY <3>1, <4>1, <4>2
    <3>2. CASE k \in 0..m
      <4>1. g[k] = f[k] /\ (k # 0 => g[k-1] = f[k-1])
        BY <2>3, <2>4, <3>2
      <4> HIDE DEF g
      <4> QED
        BY <2>2, <3>2, <4>1
    <3> QED
      BY <2>3, <3>1, <3>2
  <2>7. g = [k \in 0..m+1 |-> g[k]]
    OBVIOUS
  <2> HIDE DEF g, last
  <2>8. g = [k \in 0..m+1 |-> IF k = 0 THEN <<>>
                              ELSE IF k \in places THEN Append(g[k-1], s[k].id) ELSE g[k-1]]
    BY <2>6, <2>7
  <2>9. IsIds(g, s, places, m + 1)
    BY <2>8 DEF IsIds
  <2> QED
    BY <2>3, <2>9
<1> HIDE DEF S
<1>3. S = Nat
  <2>1. S \in SUBSET Nat
    BY DEF S
  <2> QED
    BY <1>1, <1>2, <2>1, Induction
<1> QED
  BY <1>3 DEF S

(* How it goes on.                                                         *)
LEMMA NextId ==
  ASSUME NEW n \in Nat, NEW f, NEW s, NEW p, IsIds(f, s, p, n), NEW i \in 1..n
  PROVE  f[i] = IF i \in p THEN Append(f[i-1], s[i].id) ELSE f[i-1]
<1>1. \A k \in 0..n : f[k] = IF k = 0 THEN <<>>
                             ELSE IF k \in p THEN Append(f[k-1], s[k].id) ELSE f[k-1]
  BY DEF IsIds
<1>2. i \in 0..n /\ i # 0
  OBVIOUS
<1> QED
  BY <1>1, <1>2

(* Two of them agree as far as their sequences and places do.              *)
LEMMA IdsAgree ==
  ASSUME NEW n \in Nat, NEW m \in Nat, n <= m, NEW f, NEW g, NEW s, NEW t, NEW p, NEW q,
         IsIds(f, s, p, n), IsIds(g, t, q, m),
         \A k \in 1..n : s[k].id = t[k].id /\ (k \in p <=> k \in q)
  PROVE  \A k \in 0..n : f[k] = g[k]
<1> DEFINE S == {k \in Nat : k <= n => f[k] = g[k]}
<1>1. 0 \in S
  BY DEF IsIds
<1>2. ASSUME NEW k \in S PROVE k + 1 \in S
  <2> SUFFICES ASSUME k + 1 <= n PROVE f[k+1] = g[k+1]
    OBVIOUS
  <2>1. PICK i : i = k + 1
    OBVIOUS
  <2>2. i \in 1..n /\ i \in 1..m /\ i - 1 = k
    BY <2>1
  <2>3. f[k] = g[k]
    BY <2>1
  <2>4. f[i] = IF i \in p THEN Append(f[i-1], s[i].id) ELSE f[i-1]
    BY <2>2, NextId
  <2>5. g[i] = IF i \in q THEN Append(g[i-1], t[i].id) ELSE g[i-1]
    BY <2>2, NextId
  <2> QED
    BY <2>1, <2>2, <2>3, <2>4, <2>5
<1> HIDE DEF S
<1>3. S = Nat
  <2>1. S \in SUBSET Nat
    BY DEF S
  <2> QED
    BY <1>1, <1>2, <2>1, Induction
<1> QED
  BY <1>3 DEF S

(* IdsOf evaluates one of them.                                            *)
LEMMA IdsOfIsLast ==
  ASSUME NEW s, Len(s) \in Nat, NEW places
  PROVE  \E f : IsIds(f, s, places, Len(s)) /\ IdsOf(s, places) = f[Len(s)]
<1> DEFINE f == CHOOSE f : IsIds(f, s, places, Len(s))
<1>1. IsIds(f, s, places, Len(s))
  BY IdsExist
<1>2. IdsOf(s, places) = f[Len(s)]
  BY DEF IdsOf, IsIds
<1> QED
  BY <1>1, <1>2

(* No place, no identifier.                                                *)
LEMMA IdsOfNothing ==
  ASSUME NEW s, Len(s) \in Nat
  PROVE  IdsOf(s, {}) = <<>>
<1>1. PICK f : IsIds(f, s, {}, Len(s)) /\ IdsOf(s, {}) = f[Len(s)]
  BY IdsOfIsLast
<1> DEFINE g == [k \in 0..Len(s) |-> <<>>]
<1>2. IsIds(g, s, {}, Len(s))
  BY DEF IsIds
<1>3. g[Len(s)] = <<>>
  OBVIOUS
<1> HIDE DEF g
<1>4. f[Len(s)] = g[Len(s)]
  BY <1>1, <1>2, IdsAgree
<1> QED
  BY <1>1, <1>3, <1>4

(* A sequence that is one longer has one identifier more, or none.         *)
LEMMA IdsOfLonger ==
  ASSUME NEW n \in Nat, NEW s, NEW t, Len(s) = n, Len(t) = n + 1, NEW p, NEW q,
         \A k \in 1..n : s[k] = t[k] /\ (k \in p <=> k \in q)
  PROVE  IdsOf(t, q) = IF n + 1 \in q THEN Append(IdsOf(s, p), t[n+1].id) ELSE IdsOf(s, p)
<1>1. PICK f : IsIds(f, s, p, n) /\ IdsOf(s, p) = f[n]
  BY IdsOfIsLast
<1>2. PICK g : IsIds(g, t, q, n + 1) /\ IdsOf(t, q) = g[n+1]
  BY IdsOfIsLast
<1>3. n \in 0..n /\ n + 1 \in Nat /\ n <= n + 1
  OBVIOUS
<1>4. f[n] = g[n]
  BY <1>1, <1>2, <1>3, IdsAgree
<1>5. PICK i : i = n + 1
  OBVIOUS
<1>6. i \in 1..n+1 /\ i - 1 = n
  BY <1>5
<1>7. g[i] = IF i \in q THEN Append(g[i-1], t[i].id) ELSE g[i-1]
  BY <1>2, <1>3, <1>6, NextId
<1> QED
  BY <1>1, <1>2, <1>4, <1>5, <1>6, <1>7

(* A history that is one entry longer, and a log that is one message       *)
(* longer.                                                                 *)
LEMMA KeptAppended ==
  ASSUME NEW h \in Seq(HistoryEntry), NEW e \in HistoryEntry, Len(prior) \in Nat, Len(prior) <= Len(h)
  PROVE  Kept(Append(h, e)) = IF e.role \in {"user", "tool"} THEN Append(Kept(h), e.id) ELSE Kept(h)
<1> DEFINE n == Len(h)
           t == Append(h, e)
           p == {i \in Len(prior)+1..Len(h) : h[i].role \in {"user", "tool"}}
           q == {i \in Len(prior)+1..Len(t) : t[i].role \in {"user", "tool"}}
<1>1. n \in Nat /\ Len(t) = n + 1 /\ t[n+1] = e /\ \A k \in 1..n : h[k] = t[k]
  BY AppendProperties, LenProperties
<1> HIDE DEF t
<1>2. \A k \in 1..n : k \in p <=> k \in q
  BY <1>1
<1>3. n + 1 \in q <=> e.role \in {"user", "tool"}
  BY <1>1
<1> HIDE DEF p, q, n
<1>4. IdsOf(t, q) = IF n + 1 \in q THEN Append(IdsOf(h, p), t[n+1].id) ELSE IdsOf(h, p)
  BY <1>1, <1>2, IdsOfLonger DEF n
<1>5. Kept(t) = IdsOf(t, q) /\ Kept(h) = IdsOf(h, p)
  BY DEF Kept, p, q
<1> QED
  BY <1>1, <1>3, <1>4, <1>5 DEF t

\* A message added shows if it is the user's or a result.
LEMMA ShownAppended ==
  ASSUME ChannelsOK, NEW m \in MessageType, log' = Append(log, m)
  PROVE  Shown' = IF m.kind \in {"user", "tool_result"} THEN Append(Shown, m.id) ELSE Shown
<1> DEFINE n == Len(log)
           t == Append(log, m)
           p == {i \in 1..Len(log) : log[i].kind \in {"user", "tool_result"}}
           q == {i \in 1..Len(t) : t[i].kind \in {"user", "tool_result"}}
<1>1. n \in Nat /\ Len(t) = n + 1 /\ t[n+1] = m /\ \A k \in 1..n : log[k] = t[k]
  BY AppendProperties, LenProperties DEF ChannelsOK
<1>2. Shown' = IdsOf(t, q) /\ Shown = IdsOf(log, p)
  BY DEF Shown
<1> HIDE DEF t
<1>3. \A k \in 1..n : k \in p <=> k \in q
  BY <1>1
<1>4. n + 1 \in q <=> m.kind \in {"user", "tool_result"}
  BY <1>1
<1> HIDE DEF p, q, n
<1>5. IdsOf(t, q) = IF n + 1 \in q THEN Append(IdsOf(log, p), t[n+1].id) ELSE IdsOf(log, p)
  BY <1>1, <1>3, IdsOfLonger DEF n
<1> QED
  BY <1>1, <1>2, <1>4, <1>5

Opened == {"checkpoint", "open", "turnEnd", "commit"} \cup Streaming
Afoot == {"system", "user", "userHook", "result"} \cup Opened \cup Tooling
Pending == IF pc \in Tooling THEN history \o TurnEntries ELSE history

KeptInv ==
  /\ pc = "start" => Shown = <<>> /\ committed = prior
  /\ pc \in {"system", "user"} => Shown = <<>> /\ Kept(history) = <<>>
  /\ pc = "userHook" => Shown = <<NoId>> /\ Kept(history) = <<>>
  /\ pc \in Opened \cup Tooling => Kept(Pending) = Shown
  /\ pc = "result" /\ outcome = "success" => Kept(history) = Shown
  /\ pc \in Afoot => Len(prior) <= Len(history)
  /\ pc = "assistant" => results = <<>>

(* Delivering a question or a tool result, and anything else.              *)
LEMMA SomethingShown ==
  ASSUME TypeInv, NEW kind \in Kinds, NEW id \in Int, Put(Message(kind, id))
  PROVE  Shown' = IF kind \in {"user", "tool_result"} THEN Append(Shown, id) ELSE Shown
<1> DEFINE m == Message(kind, id)
<1>1. m \in MessageType /\ m.kind = kind /\ m.id = id
  BY DEF TypeInv, TypeOK, LoopOK, Message, MessageType
<1>2. ChannelsOK /\ log' = Append(log, m)
  BY DEF TypeInv, TypeOK, Put
<1> HIDE DEF m
<1> QED
  BY <1>1, <1>2, ShownAppended

(* Steps that show nothing and keep nothing.                               *)
LEMMA KeptUntouched ==
  ASSUME UNCHANGED <<history, prior>>
  PROVE  Kept(history)' = Kept(history)
BY DEF Kept

\* What is pending stays when neither history nor results change.
LEMMA PendingUntouched ==
  ASSUME KeptInv, pc \in Opened \cup Tooling, Shown' = Shown, UNCHANGED <<history, prior, todo, results>>,
         \/ pc \in Tooling /\ pc' \in (Tooling \ {"assistant"}) \cup {"fail"}
         \/ pc = "assistant" /\ pc' = "assistant"
         \/ pc \in Opened /\ pc' \in Opened \cup {"fail", "close"}
         \/ pc \in Tooling /\ pc' = "result" /\ outcome' # "success"
  PROVE  KeptInv'
<1> USE DEF Opened, Tooling, Streaming, Afoot
<1>1. Len(prior) <= Len(history) /\ Kept(Pending) = Shown
  BY DEF KeptInv
<1>2. pc' \in Opened \cup Tooling => Pending' = Pending
  BY DEF Pending, TurnEntries
<1>3. pc' \in Opened \cup Tooling => Kept(Pending)' = Kept(Pending)
  BY <1>2 DEF Kept
<1>4. pc' = "assistant" => results' = <<>>
  BY DEF KeptInv
<1> QED
  BY <1>1, <1>3, <1>4 DEF KeptInv

(* A failed attempt ends in another request or in an error.                *)
LEMMA AttemptKeeps ==
  ASSUME KeptInv, pc \in Streaming, StreamFailed, UNCHANGED log
  PROVE  KeptInv'
<1>1. pc' \in {"open", "fail"} /\ UNCHANGED <<history, prior, todo, results>>
  BY DEF StreamFailed, tools, session
<1>2. Shown' = Shown
  BY DEF Shown
<1> QED
  BY <1>1, <1>2, PendingUntouched DEF Opened

(* What a turn adds to the history when no call is answered yet, and when  *)
(* another one is.                                                         *)
LEMMA TurnBegins ==
  ASSUME NEW h \in Seq(HistoryEntry), NEW c \in Seq(Int)
  PROVE  h \o (<<Entry("assistant", c, NoId)>> \o <<>>) = Append(h, Entry("assistant", c, NoId))
<1> DEFINE e == Entry("assistant", c, NoId)
<1>1. e \in HistoryEntry
  BY EntryType DEF Roles, NoId
<1> HIDE DEF e
<1>2. <<e>> \o <<>> = <<e>>
  BY <1>1
<1>3. h \o <<e>> = Append(h, e)
  BY <1>1
<1> QED
  BY <1>2, <1>3 DEF e

\* A result more is an entry more of the turn.
LEMMA TurnGoesOn ==
  ASSUME TypeInv, NEW h \in Seq(HistoryEntry), NEW e \in HistoryEntry,
         results' = Append(results, e), todo' = todo
  PROVE  h \o TurnEntries' = Append(h \o TurnEntries, e)
<1> DEFINE a == Entry("assistant", todo, NoId)
           r == results
<1>1. a \in HistoryEntry /\ r \in Seq(HistoryEntry)
  BY EntryType DEF TypeInv, TypeOK, ToolsOK, Roles, NoId
<1>2. TurnEntries = <<a>> \o r /\ TurnEntries' = <<a>> \o Append(r, e)
  BY DEF TurnEntries, Entry, NoId
<1> HIDE DEF a, r
<1>3. h \o (<<a>> \o Append(r, e)) = Append(h \o (<<a>> \o r), e)
  BY <1>1
<1> QED
  BY <1>2, <1>3

(* The history grows by an entry.                                          *)
LEMMA KeptGrows ==
  ASSUME TypeInv, NEW e \in HistoryEntry, history' = Append(history, e), prior' = prior,
         Len(prior) <= Len(history)
  PROVE  /\ Kept(history)' = IF e.role \in {"user", "tool"} THEN Append(Kept(history), e.id)
                             ELSE Kept(history)
         /\ Len(prior)' <= Len(history)'
<1>1. prior \in Seq(HistoryEntry) /\ history \in Seq(HistoryEntry)
  BY QueryRunAssumption DEF TypeInv, TypeOK, SessionOK
<1>2. Len(prior) \in Nat /\ Len(history) \in Nat /\ Len(Append(history, e)) = Len(history) + 1
  BY <1>1, AppendProperties, LenProperties
<1> DEFINE g == Append(history, e)
<1>3. Kept(g) = IF e.role \in {"user", "tool"} THEN Append(Kept(history), e.id) ELSE Kept(history)
  BY <1>1, <1>2, KeptAppended
<1>4. history' = g
  OBVIOUS
<1> HIDE DEF g
<1>5. Kept(history)' = Kept(g)
  BY <1>4 DEF Kept
<1> QED
  BY <1>2, <1>3, <1>5

(* Nothing was shown, and nothing kept, when a run starts.                 *)
LEMMA InitKeptInv == Init => KeptInv
<1> SUFFICES ASSUME Init PROVE KeptInv
  OBVIOUS
<1>1. log = <<>> /\ Len(<<>>) = 0 /\ pc = "start" /\ committed = prior
  BY DEF Init
<1>2. {i \in 1..Len(log) : log[i].kind \in {"user", "tool_result"}} = {}
  BY <1>1
<1>3. Len(log) \in Nat
  BY <1>1
<1>4. Shown = <<>>
  BY <1>2, <1>3, IdsOfNothing DEF Shown
<1> QED
  BY <1>1, <1>4 DEF KeptInv, Opened, Afoot, Tooling, Streaming

(* No step shows what it does not keep, or keeps what it does not show.    *)
LEMMA KeptStep == TypeInv /\ HistoryInv /\ KeptInv /\ [Next]_vars => KeptInv'
<1> SUFFICES ASSUME TypeInv, HistoryInv, KeptInv, [Next]_vars PROVE KeptInv'
  OBVIOUS
<1> USE DEF Opened, Afoot, Tooling, Streaming
<1>1. /\ prior \in Seq(HistoryEntry) /\ history \in Seq(HistoryEntry) /\ NoId \in Int
      /\ todo \in Seq(Int) /\ results \in Seq(HistoryEntry) /\ TurnEntries \in Seq(HistoryEntry)
  BY QueryRunAssumption, TurnEntriesType DEF TypeInv, TypeOK, SessionOK, ToolsOK, NoId
<1>2. UNCHANGED log => Shown' = Shown
  BY DEF Shown
<1>3. pc \in Afoot => Len(prior) <= Len(history)
  BY DEF KeptInv
<1>4. CASE pc' \in {"fail", "close", "done"}
  BY <1>4 DEF KeptInv
<1>5. CASE StartTransport /\ pc' # "fail"
  <2>1. /\ pc = "start" /\ pc' \in {"system", "user"} /\ UNCHANGED <<log, prior>>
        /\ history' = prior
    BY <1>5 DEF StartTransport, chans, KeptInv
  <2>2. {i \in Len(prior)+1..Len(prior) : prior[i].role \in {"user", "tool"}} = {} /\ Len(prior) \in Nat
    BY <1>1, LenProperties
  <2>3. Kept(prior) = <<>>
    BY <2>2, IdsOfNothing DEF Kept
  <2>4. Kept(history)' = Kept(prior)
    BY <2>1 DEF Kept
  <2> QED
    BY <1>2, <2>1, <2>2, <2>3, <2>4 DEF KeptInv
<1>6. CASE SendSystem /\ pc' # "fail"
  <2> DEFINE e == Entry("system", <<>>, NoId)
  <2>1. e \in HistoryEntry /\ e.role = "system"
    BY PlainEntryType, EntryFields DEF Roles
  <2> HIDE DEF e
  <2>2. /\ pc = "system" /\ pc' = "user" /\ Put(Message("system", NoId)) /\ prior' = prior
        /\ history' = Append(history, e)
    BY <1>6 DEF SendSystem, Emit, GiveUp, e
  <2>3. Shown' = Shown
    BY <1>1, <2>2, SomethingShown DEF Kinds
  <2>4. Kept(history)' = Kept(history) /\ Len(prior)' <= Len(history)'
    BY <1>3, <2>1, <2>2, KeptGrows
  <2> QED
    BY <2>2, <2>3, <2>4 DEF KeptInv
<1>7. CASE SendUser /\ pc' # "fail"
  <2>1. /\ pc = "user" /\ pc' = "userHook" /\ Put(Message("user", NoId))
        /\ UNCHANGED <<history, prior>>
    BY <1>7 DEF SendUser, Emit, GiveUp
  <2>2. Shown' = Append(Shown, NoId) /\ Shown = <<>>
    BY <1>1, <2>1, SomethingShown DEF Kinds, KeptInv
  <2>3. Kept(history)' = Kept(history)
    BY <2>1, KeptUntouched
  <2> QED
    BY <1>3, <2>1, <2>2, <2>3 DEF KeptInv
<1>8. CASE UserHook /\ pc' # "fail"
  <2> DEFINE e == Entry("user", <<>>, NoId)
  <2>1. e \in HistoryEntry /\ e.role = "user" /\ e.id = NoId
    BY PlainEntryType, EntryFields DEF Roles
  <2> HIDE DEF e
  <2>2. /\ pc = "userHook" /\ pc' \in {"checkpoint", "open"} /\ UNCHANGED <<log, prior>>
        /\ history' = Append(history, e)
    BY <1>8 DEF UserHook, chans, e
  <2>3. Kept(history)' = Append(Kept(history), NoId) /\ Len(prior)' <= Len(history)'
    BY <1>3, <2>1, <2>2, KeptGrows
  <2>4. Pending' = history'
    BY <2>2 DEF Pending
  <2>5. Kept(Pending)' = Kept(history)'
    BY <2>4 DEF Kept
  <2> QED
    BY <1>2, <2>2, <2>3, <2>5 DEF KeptInv
<1>9. CASE TakeCheckpoint \/ OpenStream \/ NothingReady \/ SeeStreamClosed \/ SeeErrsClosed
  <2>1. /\ pc \in Opened /\ pc' \in {"fail"} \cup Opened
        /\ UNCHANGED <<log, history, prior, todo, results>>
    BY <1>9 DEF TakeCheckpoint, OpenStream, NothingReady, SeeStreamClosed, SeeErrsClosed,
      chans, tools, session
  <2> QED
    BY <1>2, <2>1, PendingUntouched
<1>10. CASE ReadEvent \/ SendPartial \/ ReportBadEvent \/ ReadNetError \/ SeeCancelled
  <2>1. pc \in Streaming
    BY <1>10 DEF ReadEvent, SendPartial, ReportBadEvent, ReadNetError, SeeCancelled
  <2>2. CASE StreamFailed /\ UNCHANGED chans
    BY <2>1, <2>2, AttemptKeeps DEF chans
  <2>3. CASE /\ \E kind \in {"event", "partial"} : Put(Message(kind, NoId))
             /\ pc' \in Streaming /\ UNCHANGED <<tools, session>>
    <3>1. Shown' = Shown
      BY <1>1, <2>3, SomethingShown DEF Kinds
    <3> QED
      BY <2>1, <2>3, <3>1, PendingUntouched DEF tools, session
  <2>4. CASE pc' = "poll" /\ UNCHANGED <<log, tools, session>>
    BY <1>2, <2>1, <2>4, PendingUntouched DEF tools, session
  <2>5. CASE ReadEvent
    BY <2>2, <2>3, <2>5 DEF ReadEvent, Emit, AfterEvent
  <2>6. CASE SendPartial
    BY <2>2, <2>3, <2>6 DEF SendPartial, Emit
  <2>7. CASE ReportBadEvent
    BY <2>2, <2>4, <2>7 DEF ReportBadEvent
  <2>8. CASE ReadNetError \/ SeeCancelled
    BY <2>2, <2>8 DEF ReadNetError, SeeCancelled
  <2> QED
    BY <1>10, <2>5, <2>6, <2>7, <2>8
<1>11. CASE CloseTurn
  <2>1. pc = "turnEnd" /\ UNCHANGED <<log, history, prior>>
    BY <1>11 DEF CloseTurn, chans, session
  <2>2. CASE pc' = "result" /\ outcome' = "budget"
    BY <1>3, <2>1, <2>2 DEF KeptInv
  <2>3. CASE /\ todo' \in OrderedCalls /\ results' = <<>> /\ pc' \in {"assistant", "tools"}
    <3>1. todo' \in Seq(Int)
      BY <2>3, OrderedCallsType DEF TypeInv, TypeOK
    <3> DEFINE e == Entry("assistant", todo', NoId)
    <3>2. e \in HistoryEntry /\ e.role = "assistant"
      BY <1>1, <3>1, EntryType, EntryFields DEF Roles
    <3>3. history \o (<<e>> \o <<>>) = Append(history, e)
      BY <1>1, <3>1, TurnBegins
    <3>4. Pending' = history' \o TurnEntries'
      BY <2>3 DEF Pending
    <3>5. TurnEntries' = <<e>> \o <<>>
      BY <2>3 DEF TurnEntries, Entry, NoId
    <3> HIDE DEF e
    <3>6. Len(prior) \in Nat /\ Len(prior) <= Len(history)
      BY <1>1, <1>3, <2>1, LenProperties
    <3>7. Pending' = Append(history, e)
      BY <2>1, <3>3, <3>4, <3>5
    <3>8. Kept(Pending)' = Kept(Append(history, e))
      BY <2>1, <3>7 DEF Kept
    <3>9. Kept(Append(history, e)) = Kept(history)
      BY <1>1, <3>2, <3>6, KeptAppended
    <3>10. Kept(history) = Shown
      BY <2>1 DEF KeptInv, Pending
    <3> QED
      BY <1>2, <2>1, <2>3, <3>6, <3>8, <3>9, <3>10 DEF KeptInv
  <2> QED
    BY <1>11, <2>2, <2>3 DEF CloseTurn
<1>12. CASE (SendAssistant \/ SendToolUse) /\ pc' # "fail"
  <2>1. pc \in {"assistant", "tools"} /\ pc' \in {"tools", "permission"}
          /\ UNCHANGED <<history, prior, todo, results>>
    BY <1>12 DEF SendAssistant, SendToolUse, Emit, GiveUp, tools, session
  <2>2. SendToolUse => Current \in Int
    BY CurrentType DEF SendToolUse, TypeInv, TypeOK
  <2>3. SendAssistant => Shown' = Shown
    BY <1>1, <1>12, SomethingShown DEF SendAssistant, Emit, GiveUp, Kinds
  <2>4. SendToolUse => Shown' = Shown
    BY <1>12, <2>2, SomethingShown DEF SendToolUse, Emit, GiveUp, Kinds
  <2> QED
    BY <1>12, <2>1, <2>3, <2>4, PendingUntouched
<1>13. CASE AskPermission \/ RunTool
  <2>1. /\ pc \in {"permission", "execute"} /\ UNCHANGED <<log, history, prior, todo, results>>
        /\ \/ pc' \in {"fail", "execute", "answer"}
           \/ pc' = "result" /\ outcome' = "interrupted"
    BY <1>13 DEF AskPermission, RunTool, Deny, chans, session
  <2> QED
    BY <1>2, <2>1, PendingUntouched
<1>14. CASE SendToolResult /\ pc' # "fail"
  <2> DEFINE e == Entry("tool", <<>>, Current)
  <2>1. Current \in Int
    BY <1>14, CurrentType DEF SendToolResult, TypeInv, TypeOK, CallAtHand
  <2>2. e \in HistoryEntry /\ e.role = "tool" /\ e.id = Current
    <3>1. <<>> \in Seq(Int)
      OBVIOUS
    <3>2. e \in HistoryEntry
      BY <2>1, <3>1, EntryType DEF Roles
    <3> QED
      BY <3>2, EntryFields
  <2>3. /\ pc = "answer" /\ pc' = "tools" /\ Put(Message("tool_result", Current))
        /\ results' = Append(results, e) /\ UNCHANGED <<history, prior, todo>>
    BY <1>14 DEF SendToolResult, Emit, GiveUp, session
  <2> HIDE DEF e
  <2>4. Shown' = Append(Shown, Current)
    BY <2>1, <2>3, SomethingShown DEF Kinds
  <2>5. history \o TurnEntries' = Append(history \o TurnEntries, e)
    BY <1>1, <2>2, <2>3, TurnGoesOn
  <2>6. Pending = history \o TurnEntries /\ Pending' = Append(Pending, e)
    BY <2>3, <2>5 DEF Pending
  <2>7. Pending \in Seq(HistoryEntry) /\ Len(prior) \in Nat /\ Len(prior) <= Len(Pending)
    <3>1. Len(history \o TurnEntries) = Len(history) + Len(TurnEntries)
      BY <1>1, ConcatProperties
    <3> QED
      BY <1>1, <1>3, <2>3, <2>6, <3>1, ConcatProperties, LenProperties
  <2>8. Kept(Append(Pending, e)) = Append(Kept(Pending), Current)
    BY <2>2, <2>7, KeptAppended
  <2>9. Kept(Pending)' = Kept(Append(Pending, e))
    BY <2>3, <2>6 DEF Kept
  <2>10. Kept(Pending) = Shown
    BY <2>3 DEF KeptInv
  <2> QED
    BY <1>3, <2>3, <2>4, <2>8, <2>9, <2>10 DEF KeptInv
<1>15. CASE NextTurn /\ pc' # "fail"
  <2>1. /\ pc = "tools" /\ pc' = "open" /\ history' = history \o TurnEntries
        /\ UNCHANGED <<log, prior>>
    BY <1>15 DEF NextTurn, chans
  <2>2. Pending' = Pending
    BY <2>1 DEF Pending
  <2>3. Kept(Pending)' = Kept(Pending)
    BY <2>1, <2>2 DEF Kept
  <2>4. Len(history') = Len(history) + Len(TurnEntries) /\ Len(TurnEntries) \in Nat /\ Len(history) \in Nat
          /\ Len(prior) \in Nat
    BY <1>1, <2>1, ConcatProperties, LenProperties
  <2> QED
    BY <1>2, <1>3, <2>1, <2>3, <2>4 DEF KeptInv
<1>16. CASE Answer
  <2> DEFINE e == Entry("assistant", <<>>, NoId)
  <2>1. /\ pc = "tools" /\ pc' = "result" /\ todo = <<>> /\ history' = Append(history, e)
        /\ UNCHANGED <<log, prior>>
    BY <1>16 DEF Answer, chans
  <2>2. results = <<>>
    <3>1. Len(results) \in Nat /\ Len(todo) = 0 /\ Len(results) <= Len(todo)
      BY <1>1, <2>1, LenProperties DEF HistoryInv, ResultsAnswer
    <3> QED
      BY <1>1, <3>1, EmptySeq
  <2>3. history \o (<<e>> \o <<>>) = Append(history, e)
    BY <1>1, EmptySeq, TurnBegins
  <2>4. TurnEntries = <<e>> \o <<>>
    BY <2>1, <2>2 DEF TurnEntries
  <2>5. e \in HistoryEntry
    BY PlainEntryType DEF Roles
  <2> HIDE DEF e
  <2>6. Pending = history'
    BY <2>1, <2>3, <2>4 DEF Pending
  <2>7. Kept(history)' = Kept(Pending)
    BY <2>1, <2>6 DEF Kept
  <2>8. Len(history') = Len(history) + 1 /\ Len(history) \in Nat /\ Len(prior) \in Nat
    BY <1>1, <2>1, <2>5, AppendProperties, LenProperties
  <2>9. Kept(Pending) = Shown
    BY <2>1 DEF KeptInv
  <2> QED
    BY <1>2, <1>3, <2>1, <2>7, <2>8, <2>9 DEF KeptInv
<1>17. CASE SendResult /\ pc' \notin {"fail", "close"}
  <2>1. /\ pc = "result" /\ outcome = "success" /\ pc' = "commit"
        /\ Put(Message("success", NoId)) /\ UNCHANGED <<history, prior>>
    BY <1>17 DEF SendResult, Emit, GiveUp, AfterResult, session
  <2>2. Shown' = Shown
    BY <1>1, <2>1, SomethingShown DEF Kinds
  <2>3. Pending' = history
    BY <2>1 DEF Pending
  <2>4. Kept(Pending)' = Kept(history)
    BY <2>1, <2>3 DEF Kept
  <2> QED
    BY <1>3, <2>1, <2>2, <2>4 DEF KeptInv
<1>18. CASE Serve \/ Consume \/ Leave \/ Cancel \/ UNCHANGED vars
  <2>1. UNCHANGED <<pc, log, history, prior, committed, todo, results, outcome>>
    BY <1>18 DEF Serve, ServeEvent, ServeError, ServeEnd, ServeAborted, local, Consume,
      TakeMessage, TakeError, Leave, Cancel, vars, chans, tools, session
  <2>2. Kept(Pending)' = Kept(Pending) /\ Kept(history)' = Kept(history)
    BY <2>1 DEF Kept, Pending, TurnEntries
  <2> QED
    BY <1>2, <2>1, <2>2 DEF KeptInv
<1>19. CASE CommitSession \/ Fail \/ Close
  BY <1>4, <1>19 DEF CommitSession, Fail, Close
<1> QED
  BY <1>4, <1>5, <1>6, <1>7, <1>8, <1>9, <1>10, <1>11, <1>12, <1>13, <1>14, <1>15, <1>16,
     <1>17, <1>18, <1>19
  DEF Next, Run, Finished

(* What the consumer was shown of the exchange is what the next request    *)
(* and the committed session hold, however long the run.                   *)
THEOREM ShownIsKept == Spec => []ShownIsStored
<1>1. Init => TypeInv /\ HistoryInv /\ KeptInv
  BY InitTypeInv, InitHistoryInv, InitKeptInv
<1>2. TypeInv /\ HistoryInv /\ KeptInv /\ [Next]_vars => TypeInv' /\ HistoryInv' /\ KeptInv'
  BY TypeStep, HistoryStep, KeptStep
<1>3. KeptInv => ShownIsStored
  BY DEF KeptInv, ShownIsStored, Answering, Pending, Opened, Tooling, Streaming
<1> QED
  BY <1>1, <1>2, <1>3, PTL DEF Spec
-----------------------------------------------------------------------------
(***************************************************************************)
(* QueryRun implements RunContract: whoever holds the two channels of a    *)
(* run sees only what the contract allows.  First, what each stage of the  *)
(* run has said and stored so far.                                         *)
(***************************************************************************)
Asking == {"checkpoint", "open", "turnEnd", "result", "commit"} \cup Streaming \cup Tooling

Speaking ==
  /\ pc \notin {"commit", "fail", "close", "done"} => Verdict = "none"
  /\ pc \notin {"close", "done"} => ~Reported
  /\ pc = "commit" => Verdict = "success"
  /\ pc = "fail" => Verdict = "none" \/ Stored = "answer"
  /\ pc = "close" => Reported \/ Verdict \in {"budget", "interrupted"} \/ Stored = "answer"

Storing ==
  /\ pc \in {"system", "user", "userHook"} => Len(history) >= Len(prior)
  /\ pc \in Asking => Len(history) > Len(prior)
  /\ pc \in Before => committed = prior
  /\ pc = "checkpoint" => history[Len(history)].role = "user"
  /\ pc = "commit" \/ (pc = "result" /\ outcome = "success")
       => history[Len(history)].role = "assistant"
  /\ pc \notin {"fail", "close", "done"} => Stored # "answer"

StageInv == Speaking /\ Storing

(* What is known of the log after a message was put on it.                 *)
LEMMA LogAfterPut ==
  ASSUME TypeInv, NEW kind \in Kinds, NEW id \in Int, Put(Message(kind, id))
  PROVE  /\ Len(log) \in Nat /\ Len(log') = Len(log) + 1
         /\ Verdict' = IF kind \in Verdicts THEN kind ELSE "none"
<1> DEFINE m == Message(kind, id)
<1>1. m \in MessageType /\ m.kind = kind
  BY DEF TypeInv, TypeOK, LoopOK, Message, MessageType
<1>2. /\ Len(log) \in Nat /\ Len(log') = Len(log) + 1 /\ log' # <<>>
      /\ log'[Len(log')] = m
  BY <1>1, AppendProperties, LenProperties DEF Put, TypeInv, TypeOK, ChannelsOK
<1> QED
  BY <1>1, <1>2 DEF Verdict

(* What is known of the error channel after an error was put on it.        *)
LEMMA ErrsAfterPut ==
  ASSUME TypeInv, NEW e \in {"warning", "final"}, errs' = Append(errs, e), ~Reported
  PROVE  /\ Reported' <=> e = "final"
         /\ Warned' = IF e = "final" THEN Warned ELSE Warned + 1
<1>1. /\ Len(errs) \in Nat /\ Len(errs') = Len(errs) + 1 /\ errs' # <<>>
      /\ errs'[Len(errs')] = e
  BY AppendProperties, LenProperties DEF TypeInv, TypeOK, ChannelsOK
<1> QED
  BY <1>1 DEF Reported, Warned

(* A history longer than the prior one, stored, reads by its last entry.   *)
LEMMA StoredAfter ==
  ASSUME TypeInv, committed' = history, prior' = prior, Len(history) > Len(prior)
  PROVE  Stored' = IF history[Len(history)].role = "assistant" THEN "answer" ELSE "question"
BY DEF Stored

(* A run starts having said and stored nothing.                            *)
LEMMA InitStageInv == Init => StageInv
<1> SUFFICES ASSUME Init PROVE StageInv
  OBVIOUS
<1> QED
  BY DEF Init, StageInv, Speaking, Storing, Verdict, Reported, Stored, Asking, Before,
    Streaming, Tooling

(* A step that says and stores nothing leaves what was said and stored.    *)
LEMMA Silent ==
  ASSUME UNCHANGED <<log, errs, committed, prior>>
  PROVE  /\ Verdict' = Verdict /\ Reported' = Reported /\ Warned' = Warned /\ Stored' = Stored
         /\ Len(log') = Len(log)
BY DEF Verdict, Reported, Warned, Stored

(* A message of any kind but a verdict, or the context branch of its send. *)
LEMMA SaidOrGaveUp ==
  ASSUME TypeInv, Speaking, pc \notin {"commit", "fail", "close", "done"},
         NEW kind \in Kinds \ Verdicts, NEW id \in Int, NEW next,
         next \notin {"commit", "fail", "close", "done"},
         Emit(Message(kind, id), next) \/ GiveUp
  PROVE  Speaking'
<1>1. errs' = errs /\ (pc' = next \/ pc' = "fail") /\ Verdict = "none" /\ ~Reported
  BY DEF Emit, GiveUp, chans, Put, Speaking
<1>2. Verdict' = "none"
  <2>1. CASE Emit(Message(kind, id), next)
    BY <2>1, LogAfterPut DEF Emit
  <2>2. CASE GiveUp
    BY <1>1, <2>2 DEF GiveUp, chans, Verdict
  <2> QED
    BY <2>1, <2>2
<1> QED
  BY <1>1, <1>2 DEF Speaking, Reported

(* A silent step among the stages that have not reached a verdict.         *)
LEMMA SpeakingSilent ==
  ASSUME Speaking, pc \notin {"commit", "fail", "close", "done"}, UNCHANGED <<log, errs>>,
         pc' \notin {"commit", "close", "done"}
  PROVE  Speaking'
BY DEF Speaking, Verdict, Reported

(* A silent step among the stages after a success verdict.                 *)
LEMMA StoringSilent ==
  ASSUME Storing, UNCHANGED <<history, committed, prior>>,
         pc \notin {"close", "done", "fail"},
         pc' \in {"system", "user", "userHook"} => pc \in {"system", "user", "userHook"},
         pc' \in Asking => pc \in Asking,
         pc' \in Before => pc \in Before,
         pc' # "checkpoint",
         pc' = "commit" => (pc = "result" /\ outcome = "success"),
         (pc' = "result" /\ outcome' = "success") => (pc = "result" /\ outcome = "success")
  PROVE  Storing'
BY DEF Storing, Stored

(* The stages up to the first request.                                     *)
LEMMA StageBegin ==
  ASSUME TypeInv, StageInv,
         StartTransport \/ SendSystem \/ SendUser \/ UserHook \/ TakeCheckpoint
  PROVE  StageInv'
<1> USE DEF StageInv, session, chans
<1>1. prior \in Seq(HistoryEntry) /\ history \in Seq(HistoryEntry) /\ Len(prior) \in Nat
      /\ Len(history) \in Nat
  BY QueryRunAssumption, LenProperties DEF TypeInv, TypeOK, SessionOK
<1>2. ASSUME NEW role \in Roles
      PROVE  LET h == Append(history, Entry(role, <<>>, NoId)) IN
             Len(h) = Len(history) + 1 /\ h[Len(h)].role = role
  BY <1>1, PlainEntryType, AppendProperties, EntryFields
<1>3. CASE StartTransport
  <2>1. Speaking'
    BY <1>3, SpeakingSilent DEF StartTransport
  <2>2. Storing'
    BY <1>1, <1>3 DEF StartTransport, Storing, Stored, Asking, Before, Streaming,
      Tooling
  <2> QED
    BY <2>1, <2>2
<1>4. CASE SendSystem
  <2>1. Speaking'
    <3>1. NoId \in Int /\ "system" \in Kinds \ Verdicts
      BY DEF NoId, Kinds, Verdicts
    <3>2. pc = "system" /\ (Emit(Message("system", NoId), "user") \/ GiveUp)
      BY <1>4 DEF SendSystem
    <3> QED
      BY <3>1, <3>2, SaidOrGaveUp
  <2>2. Storing'
    <3>1. pc' \in {"user", "fail"} /\ Len(history') >= Len(history)
      BY <1>1, <1>2, <1>4 DEF SendSystem, Emit, GiveUp, Roles
    <3> QED
      BY <1>1, <1>4, <3>1 DEF SendSystem, Storing, Stored, Asking, Before, Streaming,
        Tooling
  <2> QED
    BY <2>1, <2>2
<1>5. CASE SendUser
  <2>1. Speaking'
    <3>1. NoId \in Int /\ "user" \in Kinds \ Verdicts
      BY DEF NoId, Kinds, Verdicts
    <3> QED
      BY <1>5, <3>1, SaidOrGaveUp DEF SendUser
  <2>2. Storing'
    BY <1>5 DEF SendUser, Emit, GiveUp, Storing, Stored, Asking, Before, Streaming,
      Tooling
  <2> QED
    BY <2>1, <2>2
<1>6. CASE UserHook
  <2>1. Speaking'
    BY <1>6, SpeakingSilent DEF UserHook
  <2>2. pc' = "fail" \/ (/\ Len(history') = Len(history) + 1
                         /\ history'[Len(history')].role = "user"
                         /\ pc' \in {"checkpoint", "open"})
    BY <1>2, <1>6 DEF UserHook, Roles
  <2>3. Storing'
    BY <1>1, <1>6, <2>2 DEF UserHook, Storing, Stored, Asking, Before, Streaming,
      Tooling
  <2> QED
    BY <2>1, <2>3
<1>7. CASE TakeCheckpoint
  <2>1. Speaking'
    BY <1>7, SpeakingSilent DEF TakeCheckpoint
  <2>2. Stored' = "question"
    BY <1>7, StoredAfter DEF TakeCheckpoint, Storing, Asking
  <2>3. Storing'
    BY <1>7, <2>2 DEF TakeCheckpoint, Storing, Asking, Before, Streaming, Tooling
  <2> QED
    BY <2>1, <2>3
<1> QED
  BY <1>3, <1>4, <1>5, <1>6, <1>7

(* The stages of one request and of the tool calls it leads to.            *)
LEMMA StageTurn ==
  ASSUME TypeInv, StageInv,
         \/ OpenStream \/ ReadEvent \/ SendPartial \/ ReportBadEvent \/ NothingReady
         \/ SeeStreamClosed \/ SeeErrsClosed \/ ReadNetError \/ SeeCancelled
         \/ CloseTurn \/ SendAssistant \/ SendToolUse \/ AskPermission \/ RunTool
         \/ SendToolResult
  PROVE  StageInv'
<1> USE DEF StageInv, session, chans
<1>1. ASSUME StreamFailed, pc \in Streaming, UNCHANGED <<log, errs>>
      PROVE  StageInv'
  <2>1. pc' \in {"open", "fail"}
    BY <1>1 DEF StreamFailed
  <2> QED
    BY <1>1, <2>1, SpeakingSilent, StoringSilent
    DEF StreamFailed, Streaming, Tooling, Asking, Before
<1>2. NoId \in Int /\ {"event", "partial", "assistant", "tool_use", "tool_result"} \subseteq Kinds \ Verdicts
  BY DEF NoId, Kinds, Verdicts
<1>3. CASE OpenStream
  BY <1>3, SpeakingSilent, StoringSilent DEF OpenStream, Streaming, Tooling, Asking,
    Before
<1>4. CASE ReadEvent
  <2>1. CASE StreamFailed /\ UNCHANGED chans
    BY <1>1, <1>4, <2>1 DEF ReadEvent, Streaming
  <2>2. CASE Emit(Message("event", NoId), AfterEvent(Head(buf))) /\ UNCHANGED <<session, tools>>
    <3>1. pc' \in {"report", "partial", "poll"}
      BY <2>2 DEF Emit, AfterEvent
    <3>2. Speaking'
      BY <1>2, <1>4, <2>2, <3>1, SaidOrGaveUp DEF ReadEvent, AfterEvent
    <3>3. Storing'
      BY <1>4, <2>2, <3>1, StoringSilent DEF ReadEvent, Streaming, Tooling, Asking,
        Before
    <3> QED
      BY <3>2, <3>3
  <2> QED
    BY <1>4, <2>1, <2>2 DEF ReadEvent
<1>5. CASE SendPartial
  <2>1. CASE StreamFailed /\ UNCHANGED chans
    BY <1>1, <1>5, <2>1 DEF SendPartial, Streaming
  <2>2. CASE Emit(Message("partial", NoId), "poll") /\ UNCHANGED <<session, tools>>
    <3>1. Speaking'
      BY <1>2, <1>5, <2>2, SaidOrGaveUp DEF SendPartial
    <3>2. Storing'
      BY <1>5, <2>2, StoringSilent DEF SendPartial, Emit, Streaming, Tooling, Asking,
        Before
    <3> QED
      BY <3>1, <3>2
  <2> QED
    BY <1>5, <2>1, <2>2 DEF SendPartial
<1>6. CASE ReportBadEvent
  <2>1. CASE StreamFailed /\ UNCHANGED chans
    BY <1>1, <1>6, <2>1 DEF ReportBadEvent, Streaming
  <2>2. CASE errs' = Append(errs, "warning") /\ pc' = "poll" /\ UNCHANGED <<log, session, tools>>
    <3>1. ~Reported /\ Verdict = "none"
      BY <1>6 DEF ReportBadEvent, Speaking
    <3>2. ~Reported' /\ Verdict' = "none"
      BY <2>2, <3>1, ErrsAfterPut DEF Verdict
    <3>3. Speaking'
      BY <2>2, <3>2 DEF Speaking
    <3>4. Storing'
      BY <1>6, <2>2, StoringSilent DEF ReportBadEvent, Streaming, Tooling, Asking,
        Before
    <3> QED
      BY <3>3, <3>4
  <2> QED
    BY <1>6, <2>1, <2>2 DEF ReportBadEvent
<1>7. CASE NothingReady \/ SeeStreamClosed \/ SeeErrsClosed
  <2>1. pc \in Streaming /\ pc' \in Streaming \cup {"turnEnd"} /\ UNCHANGED <<chans, session, tools>>
    BY <1>7 DEF NothingReady, SeeStreamClosed, SeeErrsClosed, Streaming
  <2> QED
    BY <2>1, SpeakingSilent, StoringSilent DEF Streaming, Tooling, Asking, Before
<1>8. CASE ReadNetError \/ SeeCancelled
  BY <1>1, <1>8 DEF ReadNetError, SeeCancelled, Streaming
<1>9. CASE CloseTurn
  <2>1. /\ pc = "turnEnd" /\ UNCHANGED <<chans, session>>
        /\ pc' \in {"assistant", "tools"} \/ (pc' = "result" /\ outcome' = "budget")
    BY <1>9 DEF CloseTurn
  <2> QED
    BY <2>1, SpeakingSilent, StoringSilent DEF Streaming, Tooling, Asking, Before
<1>10. CASE SendAssistant
  <2>1. Speaking'
    BY <1>2, <1>10, SaidOrGaveUp DEF SendAssistant
  <2>2. Storing'
    BY <1>10, StoringSilent DEF SendAssistant, Emit, GiveUp, Streaming, Tooling, Asking,
      Before
  <2> QED
    BY <2>1, <2>2
<1>11. CASE SendToolUse
  <2>1. Current \in Int
    BY <1>11, CurrentType DEF SendToolUse, TypeInv, TypeOK
  <2>2. Speaking'
    BY <1>2, <1>11, <2>1, SaidOrGaveUp DEF SendToolUse
  <2>3. Storing'
    BY <1>11, StoringSilent DEF SendToolUse, Emit, GiveUp, Streaming, Tooling, Asking,
      Before
  <2> QED
    BY <2>2, <2>3
<1>12. CASE AskPermission \/ RunTool
  <2>1. /\ pc \in {"permission", "execute"} /\ UNCHANGED <<chans, session>>
        /\ pc' \in {"fail", "execute", "answer"} \/ (pc' = "result" /\ outcome' = "interrupted")
    BY <1>12 DEF AskPermission, RunTool, Deny
  <2> QED
    BY <2>1, SpeakingSilent, StoringSilent DEF Streaming, Tooling, Asking, Before
<1>13. CASE SendToolResult
  <2>1. Current \in Int
    BY <1>13, CurrentType DEF SendToolResult, CallAtHand, TypeInv, TypeOK
  <2>2. pc = "answer" /\ (Emit(Message("tool_result", Current), "tools") \/ GiveUp)
        /\ UNCHANGED session
    BY <1>13 DEF SendToolResult
  <2>3. Speaking'
    BY <1>2, <2>1, <2>2, SaidOrGaveUp
  <2>4. Storing'
    BY <2>2, StoringSilent DEF Emit, GiveUp, Streaming, Tooling, Asking, Before
  <2> QED
    BY <2>3, <2>4
<1> QED
  BY <1>3, <1>4, <1>5, <1>6, <1>7, <1>8, <1>9, <1>10, <1>11, <1>12, <1>13

(* The stages that end a turn or the run.                                  *)
LEMMA StageEnd ==
  ASSUME TypeInv, StageInv,
         NextTurn \/ Answer \/ SendResult \/ CommitSession \/ Fail \/ Close
  PROVE  StageInv'
<1> USE DEF StageInv, session, chans
<1>1. prior \in Seq(HistoryEntry) /\ history \in Seq(HistoryEntry) /\ Len(prior) \in Nat
      /\ Len(history) \in Nat
  BY QueryRunAssumption, LenProperties DEF TypeInv, TypeOK, SessionOK
<1>2. CASE NextTurn
  <2>1. Len(history') >= Len(history)
    <3>1. TurnEntries \in Seq(HistoryEntry)
      BY TurnEntriesType DEF TypeInv, TypeOK
    <3>2. Len(history') = Len(history) + Len(TurnEntries) /\ Len(TurnEntries) \in Nat
      BY <1>1, <1>2, <3>1, ConcatProperties, LenProperties DEF NextTurn
    <3> QED
      BY <1>1, <3>2
  <2>2. pc = "tools" /\ pc' \in {"open", "fail"} /\ UNCHANGED <<chans, prior, committed>>
    BY <1>2 DEF NextTurn
  <2>3. Speaking'
    BY <2>2, SpeakingSilent
  <2>4. Storing'
    BY <1>1, <2>1, <2>2 DEF Storing, Stored, Streaming, Tooling, Asking, Before
  <2> QED
    BY <2>3, <2>4
<1>3. CASE Answer
  <2>1. Len(history') = Len(history) + 1 /\ history'[Len(history')].role = "assistant"
    BY <1>1, <1>3, PlainEntryType, AppendProperties, EntryFields DEF Answer, Roles
  <2>2. pc = "tools" /\ pc' = "result" /\ UNCHANGED <<chans, prior, committed>>
    BY <1>3 DEF Answer
  <2>3. Speaking'
    BY <2>2, SpeakingSilent
  <2>4. Storing'
    BY <1>1, <2>1, <2>2 DEF Storing, Stored, Streaming, Tooling, Asking, Before
  <2> QED
    BY <2>3, <2>4
<1>4. CASE SendResult
  <2>1. outcome \in Kinds /\ outcome \in Verdicts /\ NoId \in Int
    BY DEF TypeInv, TypeOK, ToolsOK, Kinds, Verdicts, NoId
  <2>2. CASE GiveUp
    BY <1>4, <2>2, SpeakingSilent, StoringSilent
    DEF SendResult, GiveUp, Streaming, Tooling, Asking, Before
  <2>3. CASE Emit(Message(outcome, NoId), AfterResult(outcome))
    <3>1. Verdict' = outcome /\ ~Reported'
      BY <1>4, <2>1, <2>3, LogAfterPut DEF SendResult, Emit, Put, Speaking, Reported
    <3>2. (outcome = "success" /\ pc' = "commit") \/ (outcome \in {"budget", "interrupted"} /\ pc' = "close")
      BY <2>1, <2>3 DEF Emit, AfterResult, Verdicts
    <3>3. Speaking'
      BY <3>1, <3>2 DEF Speaking
    <3>4. Storing'
      BY <1>4, <3>2 DEF SendResult, Storing, Stored, Streaming, Tooling, Asking, Before
    <3> QED
      BY <3>3, <3>4
  <2> QED
    BY <1>4, <2>2, <2>3 DEF SendResult
<1>5. CASE CommitSession
  <2>1. Stored' = "answer"
    BY <1>5, StoredAfter DEF CommitSession, Storing, Asking
  <2> QED
    BY <1>5, <2>1 DEF CommitSession, Speaking, Storing, Verdict, Reported, Streaming,
      Tooling,
      Asking, Before
<1>6. CASE Fail
  <2>1. Reported'
    BY <1>6, ErrsAfterPut DEF Fail, Speaking
  <2> QED
    BY <1>6, <2>1 DEF Fail, Speaking, Storing, Streaming, Tooling, Asking, Before
<1>7. CASE Close
  BY <1>7 DEF Close, Speaking, Storing, Streaming, Tooling, Asking, Before
<1> QED
  BY <1>2, <1>3, <1>4, <1>5, <1>6, <1>7

(* Every step keeps what was said and stored in line with the stage.       *)
LEMMA StageStep == TypeInv /\ StageInv /\ [Next]_vars => StageInv'
<1> SUFFICES ASSUME TypeInv, StageInv, [Next]_vars PROVE StageInv'
  OBVIOUS
<1>1. CASE Serve \/ Consume \/ Leave \/ Cancel \/ UNCHANGED vars
  <2>1. UNCHANGED <<pc, log, errs, outcome, history, prior, committed>>
    BY <1>1 DEF Serve, ServeEvent, ServeError, ServeEnd, ServeAborted, local, Consume,
      TakeMessage, TakeError, Leave, Cancel, vars, tools, session, chans
  <2> QED
    BY <2>1 DEF StageInv, Speaking, Storing, Verdict, Reported, Stored
<1> QED
  BY <1>1, StageBegin, StageTurn, StageEnd DEF Next, Run, Finished

-----------------------------------------------------------------------------
(***************************************************************************)
(* Every step is a step of the contract or changes nothing it speaks of.   *)
(***************************************************************************)
ContractView == <<Phase, Len(log), Verdict, Warned, Reported, Stored>>

(* An initial state of the run is one of the contract.                     *)
LEMMA InitContract == Init => Contract!Init
<1> SUFFICES ASSUME Init PROVE Contract!Init
  OBVIOUS
<1>1. Len(log) = 0 /\ Len(errs) = 0 /\ log = <<>> /\ errs = <<>>
  BY DEF Init
<1> QED
  BY <1>1 DEF Init, Contract!Init, Phase, Verdict, Warned, Reported, Stored

(* Delivering anything but a verdict is the contract's Message.            *)
LEMMA MessageStep ==
  ASSUME TypeInv, StageInv, pc \notin {"commit", "fail", "close", "done"}, pc' # "done",
         NEW kind \in Kinds \ Verdicts, NEW id \in Int, Put(Message(kind, id)),
         UNCHANGED <<committed, prior>>
  PROVE  Contract!Message
<1>1. Verdict = "none" /\ ~Reported /\ Verdict' = "none" /\ Len(log') = Len(log) + 1
  BY LogAfterPut DEF StageInv, Speaking
<1>2. UNCHANGED <<Reported, Warned, Stored>>
  BY DEF Put, Reported, Warned, Stored
<1> QED
  BY <1>1, <1>2 DEF Contract!Message, Contract!Open, Phase

(* Every step of the run is a step of the contract, or none.               *)
LEMMA ContractStep == TypeInv /\ StageInv /\ [Next]_vars => [Contract!Next]_ContractView
<1> SUFFICES ASSUME TypeInv, StageInv, [Next]_vars
             PROVE  Contract!Next \/ UNCHANGED ContractView
  OBVIOUS
<1> USE DEF session, chans, ContractView
<1>1. ASSUME UNCHANGED <<log, errs, committed, prior>>, pc # "done", pc' # "done"
      PROVE  UNCHANGED ContractView
  BY <1>1, Silent DEF Phase
<1>2. NoId \in Int /\ Kinds \ Verdicts = {"system", "user", "event", "partial", "assistant",
                                       "tool_use", "tool_result"}
  BY DEF NoId, Kinds, Verdicts
<1>3. CASE StartTransport \/ UserHook \/ OpenStream \/ NothingReady \/ SeeStreamClosed
           \/ SeeErrsClosed \/ CloseTurn \/ AskPermission \/ RunTool \/ NextTurn \/ Answer
  <2>1. UNCHANGED <<log, errs, committed, prior>> /\ pc # "done" /\ pc' # "done"
    BY <1>3 DEF StartTransport, UserHook, OpenStream, NothingReady, SeeStreamClosed,
      SeeErrsClosed, CloseTurn, AskPermission, RunTool, Deny, NextTurn, Answer
  <2> QED
    BY <1>1, <2>1
<1>4. ASSUME GiveUp, pc # "done", UNCHANGED <<committed, prior>> PROVE UNCHANGED ContractView
  BY <1>1, <1>4 DEF GiveUp
<1>5. ASSUME StreamFailed, pc # "done", UNCHANGED chans PROVE UNCHANGED ContractView
  BY <1>1, <1>5 DEF StreamFailed
<1>6. CASE SendSystem
  BY <1>2, <1>4, <1>6, MessageStep DEF SendSystem, Emit, Contract!Next
<1>7. CASE SendUser
  BY <1>2, <1>4, <1>7, MessageStep DEF SendUser, Emit, Contract!Next
<1>8. CASE TakeCheckpoint
  <2>1. Stored = "before" /\ Verdict = "none" /\ ~Reported
    BY <1>8 DEF TakeCheckpoint, StageInv, Speaking, Storing, Before, Stored
  <2>2. Stored' = "question"
    BY <1>8, StoredAfter DEF TakeCheckpoint, StageInv, Storing, Asking
  <2>3. UNCHANGED <<Phase, Verdict, Warned, Reported>> /\ Len(log') = Len(log) /\ Phase = "running"
    BY <1>8 DEF TakeCheckpoint, Phase, Verdict, Warned, Reported
  <2> QED
    BY <2>1, <2>2, <2>3 DEF Contract!Next, Contract!Checkpoint, Contract!Open
<1>9. CASE ReadEvent
  <2>1. CASE StreamFailed /\ UNCHANGED chans
    BY <1>5, <1>9, <2>1 DEF ReadEvent
  <2>2. CASE Emit(Message("event", NoId), AfterEvent(Head(buf))) /\ UNCHANGED session
    BY <1>2, <1>9, <2>2, MessageStep DEF ReadEvent, Emit, AfterEvent, Contract!Next
  <2> QED
    BY <1>9, <2>1, <2>2 DEF ReadEvent
<1>10. CASE SendPartial
  <2>1. CASE StreamFailed /\ UNCHANGED chans
    BY <1>5, <1>10, <2>1 DEF SendPartial
  <2>2. CASE Emit(Message("partial", NoId), "poll") /\ UNCHANGED session
    BY <1>2, <1>10, <2>2, MessageStep DEF SendPartial, Emit, Contract!Next
  <2> QED
    BY <1>10, <2>1, <2>2 DEF SendPartial
<1>11. CASE ReportBadEvent
  <2>1. CASE StreamFailed /\ UNCHANGED chans
    BY <1>5, <1>11, <2>1 DEF ReportBadEvent
  <2>2. CASE errs' = Append(errs, "warning") /\ pc' = "poll" /\ UNCHANGED <<log, session>>
    <3>1. Verdict = "none" /\ ~Reported
      BY <1>11 DEF ReportBadEvent, StageInv, Speaking
    <3>2. Warned' = Warned + 1 /\ ~Reported'
      BY <2>2, <3>1, ErrsAfterPut
    <3>3. UNCHANGED <<Phase, Verdict, Stored>> /\ Phase = "running" /\ Len(log') = Len(log)
      BY <1>11, <2>2 DEF ReportBadEvent, Phase, Verdict, Stored
    <3>4. Reported' = Reported
      BY <3>1, <3>2 DEF Reported
    <3> QED
      BY <3>1, <3>2, <3>3, <3>4 DEF Contract!Next, Contract!Warning, Contract!Open
  <2> QED
    BY <1>11, <2>1, <2>2 DEF ReportBadEvent
<1>12. CASE ReadNetError \/ SeeCancelled
  BY <1>5, <1>12 DEF ReadNetError, SeeCancelled
<1>13. CASE SendAssistant
  BY <1>2, <1>4, <1>13, MessageStep DEF SendAssistant, Emit, Contract!Next
<1>14. CASE SendToolUse
  <2>1. Current \in Int
    BY <1>14, CurrentType DEF SendToolUse, TypeInv, TypeOK
  <2> QED
    BY <1>2, <1>4, <1>14, <2>1, MessageStep DEF SendToolUse, Emit, Contract!Next
<1>15. CASE SendToolResult
  <2>1. Current \in Int
    BY <1>15, CurrentType DEF SendToolResult, CallAtHand, TypeInv, TypeOK
  <2>2. /\ pc = "answer" /\ UNCHANGED session
        /\ Emit(Message("tool_result", Current), "tools") \/ GiveUp
    BY <1>15 DEF SendToolResult
  <2> QED
    BY <1>2, <1>4, <2>1, <2>2, MessageStep DEF Emit, Contract!Next
<1>16. CASE SendResult
  <2>1. CASE GiveUp
    BY <1>4, <1>16, <2>1 DEF SendResult
  <2>2. CASE Emit(Message(outcome, NoId), AfterResult(outcome))
    <3>1. outcome \in Kinds /\ outcome \in Verdicts
      BY DEF TypeInv, TypeOK, ToolsOK, Kinds, Verdicts
    <3>2. Verdict = "none" /\ ~Reported /\ Phase = "running"
      BY <1>16 DEF SendResult, StageInv, Speaking, Phase
    <3>3. Verdict' = outcome /\ Len(log') = Len(log) + 1
      BY <1>2, <2>2, <3>1, LogAfterPut DEF Emit
    <3>4. UNCHANGED <<Phase, Warned, Reported, Stored>>
      BY <1>16, <2>2 DEF SendResult, Emit, Put, AfterResult, Phase, Warned, Reported,
        Stored
    <3> QED
      BY <3>1, <3>2, <3>3, <3>4
      DEF Contract!Next, Contract!Result, Contract!Open, Contract!Verdicts, Verdicts
  <2> QED
    BY <1>16, <2>1, <2>2 DEF SendResult
<1>17. CASE CommitSession
  <2>1. Stored' = "answer"
    BY <1>17, StoredAfter DEF CommitSession, StageInv, Storing, Asking
  <2>2. Verdict = "success" /\ ~Reported /\ Stored # "answer" /\ Phase = "running"
    BY <1>17 DEF CommitSession, StageInv, Speaking, Storing, Phase
  <2>3. UNCHANGED <<Phase, Verdict, Warned, Reported>> /\ Len(log') = Len(log)
    BY <1>17 DEF CommitSession, Phase, Verdict, Warned, Reported
  <2> QED
    BY <2>1, <2>2, <2>3 DEF Contract!Next, Contract!Commit, Contract!Open
<1>18. CASE Fail
  <2>1. ~Reported /\ (Verdict = "none" \/ Stored = "answer") /\ Phase = "running"
    BY <1>18 DEF Fail, StageInv, Speaking, Phase
  <2>2. Reported' /\ Warned' = Warned
    BY <1>18, <2>1, ErrsAfterPut DEF Fail
  <2>3. UNCHANGED <<Phase, Verdict, Stored>> /\ Len(log') = Len(log)
    BY <1>18 DEF Fail, Phase, Verdict, Stored
  <2>4. Reported' = TRUE
    BY <2>2 DEF Reported
  <2> QED
    BY <2>1, <2>2, <2>3, <2>4 DEF Contract!Next, Contract!Failure, Contract!Open
<1>19. CASE Close
  <2>1. UNCHANGED <<log, errs, committed, prior>> /\ Phase = "running" /\ Phase' = "ended"
    BY <1>19 DEF Close, Phase
  <2>2. Reported \/ Verdict \in {"budget", "interrupted"} \/ Stored = "answer"
    BY <1>19 DEF Close, StageInv, Speaking
  <2> QED
    BY <2>1, <2>2, Silent DEF Contract!Next, Contract!End
<1>20. CASE Serve \/ Consume \/ Leave \/ Cancel \/ UNCHANGED vars
  <2>1. UNCHANGED <<pc, log, errs, committed, prior>>
    BY <1>20 DEF Serve, ServeEvent, ServeError, ServeEnd, ServeAborted, local, Consume,
      TakeMessage, TakeError, Leave, Cancel, vars
  <2> QED
    BY <2>1, Silent DEF Phase
<1> QED
  BY <1>3, <1>6, <1>7, <1>8, <1>9, <1>10, <1>12, <1>11, <1>13, <1>14, <1>15, <1>16,
    <1>17,
     <1>18, <1>19, <1>20 DEF Next, Run, Finished

(* The specification of a run implements the contract.                     *)
THEOREM RunKeepsContract == Spec => ImplementsContract
<1>1. Init => TypeInv /\ StageInv /\ Contract!Init
  BY InitTypeInv, InitStageInv, InitContract
<1>2. TypeInv /\ StageInv /\ [Next]_vars => TypeInv' /\ StageInv' /\ [Contract!Next]_ContractView
  BY TypeStep, StageStep, ContractStep
<1>3. [Contract!Next]_ContractView <=> [Contract!Next]_(Contract!contractVars)
  BY DEF ContractView, Contract!contractVars
<1> QED
  BY <1>1, <1>2, <1>3, PTL DEF Spec, ImplementsContract, Contract!Spec
=============================================================================
