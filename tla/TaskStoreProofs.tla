--------------------------- MODULE TaskStoreProofs ---------------------------
(***************************************************************************)
(* Proofs about TaskStore for any number of threads, requests and ids.     *)
(* Typing is inductive by itself; memory safety and the lock discipline    *)
(* need the conjuncts SendersOwn, StoredUnderId and HandlerOwns of         *)
(* Inductive, which TLC checks too.                                        *)
(***************************************************************************)
EXTENDS TaskStore, TLAPS

\* The counter stays a uint32_t.
LEMMA IncrementedType == ASSUME NEW id \in Ids PROVE Incremented(id) \in Ids
BY ConstantsAssumption DEF Ids, Incremented

\* A handler finds nothing, or the entry of the id it looks up.
LEMMA LookupFinds ==
  ASSUME NEW id, NEW found \in Lookup(id)
  PROVE  found = NoCtx \/ found = taskId2TaskCtx[id]
BY DEF Lookup

\* Telling a listener appends one callback to what it has heard.
LEMMA TellType ==
  ASSUME TypeOK, NEW c \in Ctx, NEW callback \in Callbacks, Tell(c, callback)
  PROVE  heard' \in [Ctx -> Seq(Callbacks)]
<1>1. Append(heard[c], callback) \in Seq(Callbacks)
  BY DEF TypeOK
<1> QED  BY <1>1 DEF TypeOK, Tell

\* What a handler is busy with is typed.
LEMMA BusyType ==
  ASSUME NEW pc \in NetPcs, NEW c \in CtxPtr, NEW found \in CtxPtr, Busy(pc, c, found)
  PROVE  net' \in Handler
BY DEF Busy, Handler

\* So is the network thread between two handlers.
LEMMA IdleType == Idle => net' \in Handler
BY BusyType DEF Idle, NetPcs, CtxPtr

\* One field of one request's objects, or of one activation, changes at a time.
LEMMA HeapType ==
  ASSUME TypeOK, NEW c, NEW s \in HeapStates
  PROVE  /\ [heap EXCEPT ![c].ctx = s] \in [Ctx -> Objects]
         /\ [heap EXCEPT ![c].msg = s] \in [Ctx -> Objects]
         /\ \A l \in BOOLEAN : [heap EXCEPT ![c].msg = s, ![c].listener = l] \in [Ctx -> Objects]
         /\ \A id \in Ids : [heap EXCEPT ![c].ctx = s, ![c].id = id] \in [Ctx -> Objects]
BY DEF TypeOK, Objects

\* A thread's activation of sendMessage is typed when one of its fields changes.
LEMMA SendType ==
  ASSUME TypeOK, NEW t \in Threads, NEW pc \in SendPcs, NEW c \in CtxPtr, NEW id \in Ids
  PROVE  /\ [send EXCEPT ![t].pc = pc] \in [Threads -> Activation]
         /\ [send EXCEPT ![t].id = id] \in [Threads -> Activation]
         /\ [send EXCEPT ![t].pc = pc, ![t].ctx = c] \in [Threads -> Activation]
         /\ [send EXCEPT ![t] = [pc |-> pc, ctx |-> c, id |-> id]] \in [Threads -> Activation]
BY DEF TypeOK, Activation

\* Every step keeps the types.
LEMMA TypeStep ==
  ASSUME TypeOK, HandlerHasTask, [Next]_vars PROVE TypeOK'
<1>0. /\ messageId \in Ids /\ NetThread \in Threads
      /\ \A c \in Ctx : heap[c].id \in Ids /\ taskId2TaskCtx[heap[c].id] \in CtxPtr
      /\ \A t \in Threads : send[t].id \in Ids /\ send[t].ctx \in CtxPtr
      /\ net.task \in CtxPtr /\ net.ctx \in CtxPtr
      /\ NoCtx \in CtxPtr /\ Ctx \subseteq CtxPtr
  BY DEF TypeOK, Objects, Activation, Handler, CtxPtr, Threads
<1>1. ASSUME NEW t \in Threads, NEW c \in Ctx, NEW l \in BOOLEAN, BeginSend(t, c, l)
      PROVE  TypeOK'
  <2>1. heap' \in [Ctx -> Objects]
    BY <1>1, HeapType DEF BeginSend, HeapStates
  <2>2. "increment" \in SendPcs /\ c \in CtxPtr
    BY <1>0 DEF SendPcs
  <2>3. send' \in [Threads -> Activation]
    BY <1>0, <1>1, <2>2, SendType DEF BeginSend
  <2> QED  BY <1>1, <2>1, <2>3 DEF BeginSend, shared, TypeOK
<1>2. ASSUME NEW t \in Threads, FillContext(t) PROVE TypeOK'
  <2>1. messageId' \in Ids
    BY <1>0, <1>2, IncrementedType DEF FillContext
  <2>2. heap' \in [Ctx -> Objects]
    BY <1>0, <1>2, HeapType DEF FillContext, HeapStates
  <2>3. send' \in [Threads -> Activation]
    BY <1>2 DEF FillContext, SendPcs, TypeOK, Activation
  <2> QED  BY <1>2, <2>1, <2>2, <2>3 DEF FillContext, TypeOK
<1>3. ASSUME NEW t \in Threads, StoreLock(t) PROVE TypeOK'
  <2>1. send' \in [Threads -> Activation]
    BY <1>3 DEF StoreLock, SendPcs, TypeOK, Activation
  <2> QED  BY <1>3, <2>1 DEF StoreLock, TypeOK
<1>4. ASSUME NEW t \in Threads, StoreContext(t) PROVE TypeOK'
  <2>1. send' \in [Threads -> Activation]
    BY <1>4 DEF StoreContext, SendPcs, TypeOK, Activation
  <2>2. taskId2TaskCtx' \in [Ids -> CtxPtr]
    BY <1>0, <1>4 DEF StoreContext, TypeOK
  <2> QED  BY <1>4, <2>1, <2>2 DEF StoreContext, TypeOK
<1>5. ASSUME NEW t \in Threads, StartTask(t) PROVE TypeOK'
  <2>1. send' \in [Threads -> Activation]
    BY <1>0, <1>5 DEF StartTask, SendPcs, TypeOK, Activation
  <2>2. task' \in [Ctx -> TaskStates]
    BY <1>5 DEF StartTask, TaskStates, TypeOK
  <2> QED  BY <1>5, <2>1, <2>2 DEF StartTask, shared, TypeOK
<1>6. ASSUME NEW c \in Ctx, Req2Buf(c) PROVE TypeOK'
  <2>1. PICK found \in Lookup(heap[c].id) :
          IF found = NoCtx THEN task' = [task EXCEPT ![c] = "failed"] /\ UNCHANGED net
                           ELSE Busy("build", c, found) /\ UNCHANGED task
    BY <1>6 DEF Req2Buf
  <2>2. found \in CtxPtr /\ c \in CtxPtr
    BY <1>0, <2>1, LookupFinds
  <2>3. net' \in Handler
    BY <2>1, <2>2, BusyType DEF TypeOK, NetPcs
  <2>4. task' \in [Ctx -> TaskStates]
    BY <2>1 DEF TypeOK, TaskStates
  <2> QED  BY <1>6, <2>3, <2>4 DEF Req2Buf, shared, TypeOK
<1>7. CASE BuildEchatTcpMsg
  <2>1. mars' \in Library
    <3>1. mars.replies \in [Ctx -> Nat]
      BY DEF TypeOK, Library
    <3>2. [mars.replies EXCEPT ![net.ctx] = @ + 1] \in [Ctx -> Nat]
      <4>1. CASE net.ctx \in Ctx
        BY <3>1, <4>1
      <4>2. CASE net.ctx \notin Ctx
        BY <3>1, <4>2
      <4> QED  BY <4>1, <4>2
    <3> QED  BY <1>7, <3>2 DEF BuildEchatTcpMsg, TypeOK, Library
  <2>2. task' \in [Ctx -> TaskStates]
    BY <1>7 DEF BuildEchatTcpMsg, TaskStates, TypeOK
  <2> QED  BY <1>7, <2>1, <2>2, IdleType DEF BuildEchatTcpMsg, shared, TypeOK
<1>8. ASSUME NEW c \in Ctx, NEW m \in Ctx, Buf2Resp(c, m) PROVE TypeOK'
  <2>1. PICK found \in Lookup(heap[c].id) :
          IF found # NoCtx /\ heap[found].listener
          THEN /\ Tell(found, IF found = m THEN "response" ELSE "foreign")
               /\ Busy("onResponse", c, found)
               /\ mars' = [mars EXCEPT !.replies[m] = @ - 1]
               /\ UNCHANGED task
          ELSE /\ task' = [task EXCEPT ![c] = NextTry(c)]
               /\ mars' = [mars EXCEPT !.replies[m] = @ - 1, !.tries[c] = TriesLeft(c)]
               /\ UNCHANGED <<net, heard>>
    BY <1>8 DEF Buf2Resp
  <2>2. found \in CtxPtr /\ c \in CtxPtr
    BY <1>0, <2>1, LookupFinds
  <2>3. net' \in Handler
    BY <2>1, <2>2, BusyType DEF TypeOK, NetPcs
  <2>4. task' \in [Ctx -> TaskStates]
    BY <2>1 DEF TypeOK, TaskStates, NextTry
  <2>5. heard' \in [Ctx -> Seq(Callbacks)]
    <3>1. CASE found # NoCtx /\ heap[found].listener
      <4>1. found \in Ctx /\ (IF found = m THEN "response" ELSE "foreign") \in Callbacks
        BY <2>2, <3>1 DEF CtxPtr, Callbacks
      <4> QED  BY <2>1, <3>1, <4>1, TellType
    <3> QED  BY <2>1, <3>1 DEF TypeOK
  <2>6. mars' \in Library
    <3>1. mars.replies[m] - 1 \in Nat /\ mars.replies \in [Ctx -> Nat]
      BY <1>8 DEF Buf2Resp, TypeOK, Library
    <3>2. TriesLeft(c) \in 0 .. MaxTries
      BY ConstantsAssumption DEF TriesLeft, TypeOK, Library
    <3>3. [mars.replies EXCEPT ![m] = @ - 1] \in [Ctx -> Nat]
      BY <3>1
    <3>4. [mars.tries EXCEPT ![c] = TriesLeft(c)] \in [Ctx -> 0 .. MaxTries]
      BY <3>2 DEF TypeOK, Library
    <3> QED  BY <2>1, <3>3, <3>4 DEF TypeOK, Library
  <2> QED  BY <1>8, <2>3, <2>4, <2>5, <2>6 DEF Buf2Resp, shared, TypeOK
<1>9. CASE Buf2RespReturn
  <2>1. task' \in [Ctx -> TaskStates]
    BY <1>9 DEF Buf2RespReturn, TaskStates, TypeOK
  <2> QED  BY <1>9, <2>1, IdleType DEF Buf2RespReturn, shared, TypeOK
<1>10. ASSUME NEW c \in Ctx, OnTaskEnd(c) PROVE TypeOK'
  <2>1. PICK found \in Lookup(heap[c].id) :
          IF found = NoCtx
          THEN Ended(c) /\ UNCHANGED <<net, heard>>
          ELSE /\ Tell(found, IF task[c] = "ok" THEN "success" ELSE "error")
               /\ Busy(IF heap[found].listener THEN "onFinal" ELSE "remove", c, NoCtx)
               /\ UNCHANGED task
    BY <1>10 DEF OnTaskEnd
  <2>2. found \in CtxPtr /\ c \in CtxPtr
    BY <1>0, <2>1, LookupFinds
  <2>3. task' \in [Ctx -> TaskStates]
    BY <2>1 DEF TypeOK, TaskStates, Ended
  <2>4. net' \in Handler
    BY <1>0, <2>1, <2>2, BusyType DEF TypeOK, NetPcs
  <2>5. heard' \in [Ctx -> Seq(Callbacks)]
    <3>1. CASE found # NoCtx
      <4>1. found \in Ctx /\ (IF task[c] = "ok" THEN "success" ELSE "error") \in Callbacks
        BY <2>2, <3>1 DEF CtxPtr, Callbacks
      <4> QED  BY <2>1, <3>1, <4>1, TellType
    <3> QED  BY <2>1, <3>1 DEF TypeOK
  <2> QED  BY <1>10, <2>3, <2>4, <2>5 DEF OnTaskEnd, shared, TypeOK
<1>11. CASE FinalReturn
  <2>1. net' \in Handler
    BY <1>0, <1>11, BusyType DEF FinalReturn, NetPcs
  <2> QED  BY <1>11, <2>1 DEF FinalReturn, shared, TypeOK
<1>12. CASE RemoveLookup
  <2>1. PICK found \in Lookup(heap[net.task].id) :
          IF found = NoCtx
          THEN Ended(net.task) /\ Idle /\ UNCHANGED heap
          ELSE /\ heap' = [heap EXCEPT ![found].msg = "deleted"]
               /\ Busy("lock", net.task, found)
               /\ UNCHANGED task
    BY <1>12 DEF RemoveLookup
  <2>2. heap' \in [Ctx -> Objects]
    <3>1. CASE found = NoCtx
      BY <2>1, <3>1 DEF TypeOK
    <3>2. CASE found # NoCtx
      <4>1. heap' = [heap EXCEPT ![found].msg = "deleted"]
        BY <2>1, <3>2
      <4> QED  BY <4>1, HeapType DEF HeapStates
    <3> QED  BY <3>1, <3>2
  <2>3. task' \in [Ctx -> TaskStates]
    BY <2>1 DEF TypeOK, TaskStates, Ended
  <2>4. found \in CtxPtr
    BY <1>0, <1>12, <2>1, LookupFinds DEF RemoveLookup, HandlerHasTask
  <2>5. net' \in Handler
    <3>1. CASE found = NoCtx
      BY <2>1, <3>1, IdleType
    <3>2. CASE found # NoCtx
      BY <1>0, <2>1, <2>4, <3>2, BusyType DEF NetPcs
    <3> QED  BY <3>1, <3>2
  <2> QED  BY <1>12, <2>2, <2>3, <2>5 DEF RemoveLookup, shared, TypeOK
<1>13. CASE EraseLock
  <2>1. net' \in Handler
    BY <1>0, <1>13, BusyType DEF EraseLock, NetPcs
  <2> QED  BY <1>0, <1>13, <2>1 DEF EraseLock, TypeOK
<1>14. CASE EraseContext
  <2>1. net' \in Handler
    BY <1>0, <1>14, BusyType DEF EraseContext, NetPcs
  <2>2. taskId2TaskCtx' \in [Ids -> CtxPtr]
    BY <1>0, <1>14 DEF EraseContext, TypeOK
  <2> QED  BY <1>14, <2>1, <2>2 DEF EraseContext, TypeOK
<1>15. CASE DeleteContext
  <2>1. heap' \in [Ctx -> Objects]
    BY <1>15, HeapType DEF DeleteContext, HeapStates
  <2>2. task' \in [Ctx -> TaskStates]
    BY <1>15 DEF DeleteContext, Ended, TaskStates, TypeOK
  <2> QED  BY <1>15, <2>1, <2>2, IdleType DEF DeleteContext, shared, TypeOK
<1>16. CASE OnPush
  <2>1. net' \in Handler
    BY <1>0, <1>16, BusyType DEF OnPush, NetPcs
  <2>2. send' \in [Threads -> Activation]
    BY <1>0, <1>16 DEF OnPush, TypeOK, Activation
  <2>3. mars' \in Library
    <3>1. mars.pushes + 1 \in 0 .. MaxPushes
      BY <1>16, ConstantsAssumption DEF OnPush, TypeOK, Library
    <3> QED  BY <1>16, <3>1 DEF OnPush, TypeOK, Library
  <2> QED  BY <1>16, <2>1, <2>2, <2>3 DEF OnPush, shared, TypeOK
<1>17. CASE OnPushListener
  <2>1. net' \in Handler
    BY <1>0, <1>17, BusyType DEF OnPushListener, NetPcs
  <2> QED  BY <1>0, <1>17, <2>1, IncrementedType DEF OnPushListener, TypeOK
<1>18. CASE OnPushReturn
  BY <1>18, IdleType DEF OnPushReturn, shared, TypeOK
<1>19. ASSUME NEW c \in Ctx, TaskRetry(c) PROVE TypeOK'
  <2>1. TriesLeft(c) \in 0 .. MaxTries
    BY ConstantsAssumption DEF TriesLeft, TypeOK, Library
  <2>2. mars' \in Library
    BY <1>19, <2>1 DEF TaskRetry, TypeOK, Library
  <2> QED  BY <1>19, <2>2 DEF TaskRetry, shared, TaskStates, TypeOK
<1>20. ASSUME NEW c \in Ctx, TaskFail(c) PROVE TypeOK'
  BY <1>20 DEF TaskFail, shared, TaskStates, TypeOK
<1>21. ASSUME NEW c \in Ctx, DropReply(c) PROVE TypeOK'
  <2>1. mars.replies \in [Ctx -> Nat] /\ mars.replies[c] - 1 \in Nat
    BY <1>21 DEF DropReply, TypeOK, Library
  <2>2. [mars.replies EXCEPT ![c] = @ - 1] \in [Ctx -> Nat]
    BY <2>1
  <2>3. mars' \in Library
    BY <1>21, <2>2 DEF DropReply, TypeOK, Library
  <2> QED  BY <1>21, <2>3 DEF DropReply, shared, TypeOK
<1>22. ASSUME NEW from, NEW to \in TaskStates, Control(from, to) PROVE TypeOK'
  <2>1. mars' \in Library
    <3>1. mars.controls + 1 \in 0 .. MaxControls
      BY <1>22, ConstantsAssumption DEF Control, TypeOK, Library
    <3> QED  BY <1>22, <3>1 DEF Control, TypeOK, Library
  <2> QED  BY <1>22, <2>1 DEF Control, shared, TypeOK
<1>23. CASE UNCHANGED vars
  BY <1>23 DEF vars, shared, TypeOK
<1>24. CASE Reset \/ RedoTasks
  <2>1. "failed" \in TaskStates /\ "queued" \in TaskStates
    BY DEF TaskStates
  <2> QED  BY <1>22, <1>24, <2>1 DEF Reset, RedoTasks
<1> QED
  BY <1>1, <1>2, <1>3, <1>4, <1>5, <1>6, <1>7, <1>8, <1>9, <1>10, <1>11, <1>12, <1>13,
     <1>14, <1>15, <1>16, <1>17, <1>18, <1>19, <1>20, <1>21, <1>23, <1>24
  DEF Next, SendStep, NetStep, MarsStep, AllQuiet

\* A handler keeps the task it runs for until it is idle.
LEMMA HasTaskStep ==
  ASSUME TypeOK, HandlerHasTask, [Next]_vars PROVE HandlerHasTask'
<1>1. ASSUME NEW pc, NEW c, NEW found, Busy(pc, c, found),
             c \in Ctx \/ pc \in {"idle", "increment", "onPush"}
      PROVE  HandlerHasTask'
  BY <1>1 DEF Busy, HandlerHasTask
<1>2. ASSUME net' = net PROVE HandlerHasTask'
  BY <1>2 DEF HandlerHasTask
<1>3. CASE \E t \in Threads : SendStep(t) \/ \E c \in Ctx, l \in BOOLEAN : BeginSend(t, c, l)
  BY <1>2, <1>3 DEF SendStep, BeginSend, FillContext, StoreLock, StoreContext, StartTask
<1>4. CASE MarsStep \/ UNCHANGED vars
  BY <1>2, <1>4 DEF MarsStep, TaskRetry, TaskFail, DropReply, Reset, RedoTasks, Control, vars
<1>5. CASE NetStep
  <2>1. ASSUME NEW c \in Ctx, Req2Buf(c) PROVE HandlerHasTask'
    BY <1>1, <1>2, <2>1 DEF Req2Buf
  <2>2. ASSUME NEW c \in Ctx, NEW m \in Ctx, Buf2Resp(c, m) PROVE HandlerHasTask'
    BY <1>1, <1>2, <2>2 DEF Buf2Resp
  <2>3. ASSUME NEW c \in Ctx, OnTaskEnd(c) PROVE HandlerHasTask'
    BY <1>1, <1>2, <2>3 DEF OnTaskEnd
  <2>4. CASE FinalReturn \/ RemoveLookup \/ EraseLock \/ EraseContext
    BY <1>1, <2>4 DEF FinalReturn, RemoveLookup, EraseLock, EraseContext, Idle, HandlerHasTask
  <2>5. CASE BuildEchatTcpMsg \/ Buf2RespReturn \/ DeleteContext
             \/ OnPush \/ OnPushListener \/ OnPushReturn
    BY <1>1, <2>5 DEF BuildEchatTcpMsg, Buf2RespReturn, DeleteContext, OnPush, OnPushListener,
       OnPushReturn, Idle
  <2> QED  BY <1>5, <2>1, <2>2, <2>3, <2>4, <2>5 DEF NetStep
<1> QED  BY <1>3, <1>4, <1>5 DEF Next, AllQuiet

\* The initial state is typed.
LEMMA InitType == Init => TypeOK /\ HandlerHasTask
BY ConstantsAssumption DEF Init, TypeOK, HeapStates, SendPcs, NetPcs, TaskStates, Threads,
   Ids, Objects, Activation, Handler, Library, CtxPtr, HandlerHasTask

\* Every variable keeps its type: the counter wraps within uint32_t, the map
\* holds contexts of the program only.
THEOREM TypeCorrect == Spec => []TypeOK
<1>1. Init => TypeOK /\ HandlerHasTask
  BY InitType
<1>2. TypeOK /\ HandlerHasTask /\ [Next]_vars => TypeOK' /\ HandlerHasTask'
  BY TypeStep, HasTaskStep
<1> QED  BY <1>1, <1>2, PTL DEF Spec

-----------------------------------------------------------------------------
(* Memory safety and the lock.                                              *)

Core == MemorySafe /\ LockDiscipline /\ SendersOwn /\ StoredUnderId /\ HandlerOwns

USE DEF Core

\* The entry a handler finds is live, stored under its id, and owned by no
\* activation of sendMessage.
LEMMA FoundIsLive ==
  ASSUME TypeOK, Core, NEW id \in Ids, NEW found \in Lookup(id), found # NoCtx,
         net.pc \notin {"lock", "erase"}
  PROVE  /\ found \in Ctx
         /\ heap[found].ctx = "live" /\ heap[found].msg = "live" /\ heap[found].id = id
BY LookupFinds DEF TypeOK, CtxPtr, MemorySafe, EntriesLive, StoredUnderId, Removing

\* A handler that only reads the store, and moves on as HandlerLive and
\* HandlerOwns ask, disturbs nothing else.
LEMMA ReadingHandler ==
  ASSUME TypeOK, Core, UNCHANGED <<taskId2TaskCtx, mutex, heap>>,
         \A t \in Threads : send'[t].pc = send[t].pc /\ send'[t].ctx = send[t].ctx,
         \A t \in Threads : send[t].pc # "idle" => send'[t].id = send[t].id,
         \A c \in Ctx : task'[c] # "none" => heap[c].ctx # "unborn",
         net.pc \notin {"lock", "erase"}, net'.pc \notin {"lock", "erase"},
         HandlerLive', HandlerOwns'
  PROVE  Core'
<1>1. (mutex # NoThread => mutex \in Threads) /\ NetThread \in Threads
  BY DEF TypeOK, Threads
<1>2. EntriesLive' /\ SenderLive'
  BY DEF MemorySafe, EntriesLive, SenderLive, Removing
<1>3. LockDiscipline'
  BY <1>1 DEF LockDiscipline, HandlerOwns, InCallback
<1>4. SendersOwn'
  BY DEF SendersOwn, Unmapped, Storing
<1>5. StoredUnderId'
  BY DEF StoredUnderId
<1> QED  BY <1>2, <1>3, <1>4, <1>5 DEF MemorySafe

\* sendMessage, step by step.
LEMMA SenderStep ==
  ASSUME TypeOK, Core, TypeOK',
         NEW t \in Threads,
         SendStep(t) \/ \E c \in Ctx, l \in BOOLEAN : BeginSend(t, c, l)
  PROVE  Core'
<1> NetThread \in Threads /\ NoThread \notin Threads /\ NoCtx \notin Ctx
  BY ConstantsAssumption DEF Threads
<1>1. ASSUME NEW c \in Ctx, NEW l \in BOOLEAN, BeginSend(t, c, l) PROVE Core'
  <2>1. /\ heap'[c].msg = "live" /\ heap[c].msg = "unborn"
        /\ \A d \in Ctx : heap'[d].ctx = heap[d].ctx /\ heap'[d].id = heap[d].id
        /\ \A d \in Ctx : d # c => heap'[d].msg = heap[d].msg
    BY <1>1 DEF BeginSend, TypeOK, Objects
  <2>2. /\ send[t].pc = "idle" /\ send'[t].pc = "increment" /\ send'[t].ctx = c
        /\ \A u \in Threads : u # t => send'[u] = send[u]
    BY <1>1 DEF BeginSend, TypeOK
  <2>3. UNCHANGED <<taskId2TaskCtx, mutex, net, task>> /\ (t = NetThread => InCallback)
    BY <1>1 DEF BeginSend, shared, MaySend
  <2>4. heap[c].ctx = "unborn" /\ Unmapped(c)
    <3>1. heap[c].ctx = "unborn"
      BY <2>1 DEF StoredUnderId
    <3>2. ASSUME NEW i \in Ids, taskId2TaskCtx[i] = c PROVE FALSE
      BY <3>1, <3>2 DEF MemorySafe, EntriesLive
    <3> QED  BY <3>1, <3>2 DEF Unmapped
  <2>5. EntriesLive'
    BY <2>1, <2>3 DEF MemorySafe, EntriesLive, Removing, TypeOK, CtxPtr
  <2>6. HandlerLive'
    BY <2>1, <2>3 DEF MemorySafe, HandlerLive, HandlerOwns
  <2>7. SenderLive'
    BY <2>1, <2>2 DEF MemorySafe, SenderLive, SendersOwn
  <2>8. LockDiscipline'
    BY <2>2, <2>3 DEF LockDiscipline, InCallback, TypeOK
  <2>9. SendersOwn'
    BY <2>1, <2>2, <2>3, <2>4 DEF SendersOwn, Unmapped, Storing, MemorySafe, SenderLive
  <2>10. StoredUnderId'
    <3>1. \A i \in Ids : taskId2TaskCtx[i] # NoCtx => taskId2TaskCtx[i] \in Ctx
      BY DEF TypeOK, CtxPtr
    <3>2. \A u \in Threads : send'[u].pc = "start" => send[u].pc = "start" /\ send'[u] = send[u]
      BY <2>2
    <3> QED  BY <2>1, <2>3, <3>1, <3>2 DEF StoredUnderId, SendersOwn
  <2>11. HandlerOwns'
    BY <2>1, <2>2, <2>3 DEF HandlerOwns, HandlerHasTask, Unmapped, InCallback
  <2> QED  BY <2>5, <2>6, <2>7, <2>8, <2>9, <2>10, <2>11 DEF MemorySafe
<1>2. CASE FillContext(t)
  <2> DEFINE c == send[t].ctx
  <2>1. c \in Ctx /\ heap[c].ctx = "unborn" /\ heap[c].msg = "live" /\ send[t].pc = "increment"
    BY <1>2 DEF FillContext, SendersOwn
  <2>2. /\ heap'[c].ctx = "live" /\ heap'[c].id = send[t].id
        /\ \A d \in Ctx : heap'[d].msg = heap[d].msg
        /\ \A d \in Ctx : d # c => heap'[d].ctx = heap[d].ctx /\ heap'[d].id = heap[d].id
    BY <1>2, <2>1 DEF FillContext, TypeOK, Objects
  <2>3. /\ send'[t].pc = "lock" /\ send'[t].ctx = c /\ send'[t].id = send[t].id
        /\ \A u \in Threads : u # t => send'[u] = send[u]
    BY <1>2 DEF FillContext, TypeOK, Activation
  <2>4. UNCHANGED <<taskId2TaskCtx, mutex, net, task>>
    BY <1>2 DEF FillContext
  <2>5. \A i \in Ids : taskId2TaskCtx[i] # c
    BY <2>1 DEF MemorySafe, EntriesLive
  <2>6. \A u \in Threads : u # t /\ Storing(u) => send[u].ctx # c
    BY <2>1 DEF SendersOwn, Storing
  <2> HIDE DEF c
  <2>7. EntriesLive'
    BY <2>2, <2>4, <2>5 DEF MemorySafe, EntriesLive, Removing, TypeOK, CtxPtr
  <2>8. HandlerLive'
    BY <2>2, <2>4 DEF MemorySafe, HandlerLive, HandlerOwns
  <2>9. SenderLive'
    BY <2>1, <2>2, <2>3 DEF MemorySafe, SenderLive, SendersOwn
  <2>10. LockDiscipline'
    BY <2>1, <2>3, <2>4 DEF LockDiscipline, TypeOK
  <2>11. SendersOwn'
    BY <2>1, <2>2, <2>3, <2>4, <2>5, <2>6 DEF SendersOwn, Unmapped, Storing
  <2>12. StoredUnderId'
    <3>1. \A i \in Ids : taskId2TaskCtx[i] # NoCtx => taskId2TaskCtx[i] \in Ctx
      BY DEF TypeOK, CtxPtr
    <3>2. \A u \in Threads : send'[u].pc = "start" => send[u].pc = "start" /\ send'[u] = send[u]
      BY <2>3
    <3> QED  BY <2>1, <2>2, <2>4, <2>5, <3>1, <3>2 DEF StoredUnderId, SendersOwn
  <2>13. HandlerOwns'
    <3>1. net.task \in Ctx => net.task # c
      BY <2>1 DEF HandlerOwns
    <3>2. net.pc \in {"lock", "erase", "delete"} => net.ctx # c /\ net.task \in Ctx
      BY <2>1 DEF HandlerOwns, HandlerHasTask
    <3> QED  BY <2>1, <2>2, <2>3, <2>4, <3>1, <3>2
             DEF HandlerOwns, HandlerHasTask, Unmapped, InCallback
  <2> QED  BY <2>7, <2>8, <2>9, <2>10, <2>11, <2>12, <2>13 DEF MemorySafe
<1>3. CASE StoreLock(t)
  <2>1. /\ send[t].pc = "lock" /\ send'[t].pc = "insert"
        /\ send'[t].ctx = send[t].ctx /\ send'[t].id = send[t].id
        /\ \A u \in Threads : u # t => send'[u] = send[u]
    BY <1>3 DEF StoreLock, TypeOK, Activation
  <2>2. UNCHANGED <<taskId2TaskCtx, heap, net, task>> /\ mutex = NoThread /\ mutex' = t
    BY <1>3 DEF StoreLock
  <2>3. EntriesLive' /\ HandlerLive' /\ SenderLive'
    BY <2>1, <2>2 DEF MemorySafe, EntriesLive, HandlerLive, SenderLive, Removing
  <2>4. LockDiscipline'
    BY <2>1, <2>2 DEF LockDiscipline
  <2>5. SendersOwn'
    BY <2>1, <2>2 DEF SendersOwn, Unmapped, Storing
  <2>6. StoredUnderId'
    BY <2>1, <2>2 DEF StoredUnderId
  <2>7. HandlerOwns'
    BY <2>1, <2>2 DEF HandlerOwns, HandlerHasTask, Unmapped, InCallback
  <2> QED  BY <2>3, <2>4, <2>5, <2>6, <2>7 DEF MemorySafe
<1>4. CASE StoreContext(t)
  <2> DEFINE c == send[t].ctx
  <2>1. /\ send[t].pc = "insert" /\ send'[t].pc = "start" /\ send'[t].ctx = c
        /\ \A u \in Threads : u # t => send'[u] = send[u]
    BY <1>4 DEF StoreContext, TypeOK, Activation
  <2>2. UNCHANGED <<heap, net, task>> /\ mutex = t /\ mutex' = NoThread
    BY <1>4 DEF StoreContext, LockDiscipline
  <2>3. /\ taskId2TaskCtx'[send[t].id] = c /\ send[t].id \in Ids
        /\ \A i \in Ids : i # send[t].id => taskId2TaskCtx'[i] = taskId2TaskCtx[i]
    BY <1>4 DEF StoreContext, TypeOK, Activation
  <2>4. c \in Ctx /\ heap[c].ctx = "live" /\ heap[c].msg = "live" /\ heap[c].id = send[t].id
    BY <2>1 DEF MemorySafe, SenderLive, SendersOwn
  <2>5. \A u \in Threads : u # t /\ Storing(u) => send[u].ctx # c
    BY <2>1 DEF SendersOwn, Storing
  <2> HIDE DEF c
  <2>6. EntriesLive' /\ HandlerLive' /\ SenderLive'
    BY <2>1, <2>2, <2>3, <2>4 DEF MemorySafe, EntriesLive, HandlerLive, SenderLive, Removing
  <2>7. LockDiscipline'
    BY <2>1, <2>2 DEF LockDiscipline, HandlerOwns, InCallback
  <2>8. SendersOwn'
    BY <2>1, <2>2, <2>3, <2>4, <2>5 DEF SendersOwn, Unmapped, Storing
  <2>9. StoredUnderId'
    BY <2>1, <2>2, <2>3, <2>4 DEF StoredUnderId
  <2>10. HandlerOwns'
    <3>1. net.pc = "delete" => net.ctx # c
      BY <2>4 DEF HandlerOwns
    <3> QED  BY <2>1, <2>2, <2>3, <3>1 DEF HandlerOwns, HandlerHasTask, Unmapped, InCallback
  <2> QED  BY <2>6, <2>7, <2>8, <2>9, <2>10 DEF MemorySafe
<1>5. CASE StartTask(t)
  <2>1. /\ send[t].pc = "start" /\ send'[t].pc = "idle"
        /\ \A u \in Threads : u # t => send'[u] = send[u]
    BY <1>5 DEF StartTask, TypeOK, Activation
  <2>2. UNCHANGED <<taskId2TaskCtx, mutex, heap, net>>
    BY <1>5 DEF StartTask, shared
  <2>3. \A c \in Ctx : task'[c] # "none" => task[c] # "none" \/ c = send[t].ctx
    BY <1>5 DEF StartTask, TypeOK
  <2>4. EntriesLive' /\ HandlerLive' /\ SenderLive'
    BY <2>1, <2>2 DEF MemorySafe, EntriesLive, HandlerLive, SenderLive, Removing
  <2>5. LockDiscipline'
    BY <2>1, <2>2 DEF LockDiscipline, TypeOK
  <2>6. SendersOwn'
    BY <2>1, <2>2 DEF SendersOwn, Unmapped, Storing
  <2>7. StoredUnderId'
    BY <2>1, <2>2, <2>3 DEF StoredUnderId
  <2>8. HandlerOwns'
    BY <2>1, <2>2 DEF HandlerOwns, HandlerHasTask, Unmapped, InCallback
  <2> QED  BY <2>4, <2>5, <2>6, <2>7, <2>8 DEF MemorySafe
<1> QED  BY <1>1, <1>2, <1>3, <1>4, <1>5 DEF SendStep

\* The handlers, step by step.
LEMMA HandlerStep == ASSUME TypeOK, Core, TypeOK', NetStep PROVE Core'
<1> NetThread \in Threads /\ NoThread \notin Threads /\ NoCtx \notin Ctx
  BY ConstantsAssumption DEF Threads
<1>0. /\ \A c \in Ctx : heap[c].id \in Ids
      /\ net.pc \notin {"idle", "increment", "onPush"} => net.task \in Ctx
      /\ \A c \in Ctx : task[c] # "none" => heap[c].ctx # "unborn"
      /\ net.task \in Ctx => heap[net.task].ctx # "unborn"
  BY DEF TypeOK, Objects, HandlerOwns, HandlerHasTask, StoredUnderId
<1>1. ASSUME NEW c \in Ctx, Req2Buf(c) PROVE Core'
  <2>1. PICK found \in Lookup(heap[c].id) :
          IF found = NoCtx THEN task' = [task EXCEPT ![c] = "failed"] /\ UNCHANGED net
                           ELSE Busy("build", c, found) /\ UNCHANGED task
    BY <1>1 DEF Req2Buf
  <2>2. net.pc = "idle" /\ task[c] = "queued" /\ UNCHANGED <<taskId2TaskCtx, mutex, heap, send>>
    BY <1>1 DEF Req2Buf, shared
  <2>3. \A d \in Ctx : task'[d] # "none" => heap[d].ctx # "unborn"
    BY <1>0, <2>1, <2>2 DEF TypeOK
  <2>4. CASE found = NoCtx
    <3>1. net' = net
      BY <2>1, <2>4
    <3>2. HandlerLive' /\ HandlerOwns'
      BY <2>2, <3>1 DEF HandlerLive, HandlerOwns, HandlerHasTask, InCallback
    <3> QED  BY <2>2, <2>3, <3>1, <3>2, ReadingHandler
  <2>5. CASE found # NoCtx
    <3>1. found \in Ctx /\ heap[found].ctx = "live" /\ heap[found].msg = "live"
      BY <1>0, <2>2, <2>5, FoundIsLive
    <3>2. net'.pc = "build" /\ net'.task = c /\ net'.ctx = found
      BY <2>1, <2>5 DEF Busy
    <3>3. HandlerLive' /\ HandlerOwns'
      BY <1>0, <2>2, <3>1, <3>2 DEF HandlerLive, HandlerOwns, HandlerHasTask, InCallback
    <3> QED  BY <2>2, <2>3, <3>2, <3>3, ReadingHandler
  <2> QED  BY <2>4, <2>5
<1>2. CASE BuildEchatTcpMsg
  <2>1. /\ net.pc = "build" /\ UNCHANGED <<taskId2TaskCtx, mutex, heap, send>>
        /\ net'.pc = "idle" /\ net'.task = NoCtx
    BY <1>2 DEF BuildEchatTcpMsg, shared, Idle, Busy
  <2>2. \A d \in Ctx : task'[d] # "none" => heap[d].ctx # "unborn"
    BY <1>0, <1>2, <2>1 DEF BuildEchatTcpMsg, TypeOK
  <2>3. HandlerLive' /\ HandlerOwns'
    BY <2>1 DEF HandlerLive, HandlerOwns, HandlerHasTask, InCallback
  <2> QED  BY <2>1, <2>2, <2>3, ReadingHandler
<1>3. ASSUME NEW c \in Ctx, NEW m \in Ctx, Buf2Resp(c, m) PROVE Core'
  <2>1. PICK found \in Lookup(heap[c].id) :
          IF found # NoCtx /\ heap[found].listener
          THEN Busy("onResponse", c, found) /\ UNCHANGED task
          ELSE task' = [task EXCEPT ![c] = NextTry(c)] /\ UNCHANGED net
    BY <1>3 DEF Buf2Resp
  <2>2. net.pc = "idle" /\ task[c] = "sent" /\ UNCHANGED <<taskId2TaskCtx, mutex, heap, send>>
    BY <1>3 DEF Buf2Resp, shared
  <2>3. \A d \in Ctx : task'[d] # "none" => heap[d].ctx # "unborn"
    BY <1>0, <2>1, <2>2 DEF TypeOK
  <2>4. CASE ~(found # NoCtx /\ heap[found].listener)
    <3>1. net' = net
      BY <2>1, <2>4
    <3>2. HandlerLive' /\ HandlerOwns'
      BY <2>2, <3>1 DEF HandlerLive, HandlerOwns, HandlerHasTask, InCallback
    <3> QED  BY <2>2, <2>3, <3>1, <3>2, ReadingHandler
  <2>5. CASE found # NoCtx /\ heap[found].listener
    <3>1. found \in Ctx /\ heap[found].ctx = "live"
      BY <1>0, <2>2, <2>5, FoundIsLive
    <3>2. net'.pc = "onResponse" /\ net'.task = c /\ net'.ctx = found
      BY <2>1, <2>5 DEF Busy
    <3>3. HandlerLive' /\ HandlerOwns'
      BY <1>0, <2>2, <3>1, <3>2 DEF HandlerLive, HandlerOwns, HandlerHasTask, InCallback
    <3> QED  BY <2>2, <2>3, <3>2, <3>3, ReadingHandler
  <2> QED  BY <2>4, <2>5
<1>4. CASE Buf2RespReturn
  <2>1. /\ net.pc = "onResponse" /\ UNCHANGED <<taskId2TaskCtx, mutex, heap, send>>
        /\ send[NetThread].pc = "idle" /\ net'.pc = "idle" /\ net'.task = NoCtx
    BY <1>4 DEF Buf2RespReturn, Returned, shared, Idle, Busy
  <2>2. \A d \in Ctx : task'[d] # "none" => heap[d].ctx # "unborn"
    BY <1>0, <1>4, <2>1 DEF Buf2RespReturn, TypeOK
  <2>3. HandlerLive' /\ HandlerOwns'
    BY <2>1 DEF HandlerLive, HandlerOwns, HandlerHasTask, InCallback
  <2> QED  BY <2>1, <2>2, <2>3, ReadingHandler
<1>5. ASSUME NEW c \in Ctx, OnTaskEnd(c) PROVE Core'
  <2>1. PICK found \in Lookup(heap[c].id) :
          IF found = NoCtx THEN Ended(c) /\ UNCHANGED net
          ELSE Busy(IF heap[found].listener THEN "onFinal" ELSE "remove", c, NoCtx) /\ UNCHANGED task
    BY <1>5 DEF OnTaskEnd
  <2>2. /\ net.pc = "idle" /\ task[c] \in {"ok", "failed"}
        /\ UNCHANGED <<taskId2TaskCtx, mutex, heap, send>>
    BY <1>5 DEF OnTaskEnd, shared
  <2>3. \A d \in Ctx : task'[d] # "none" => heap[d].ctx # "unborn"
    BY <1>0, <2>1, <2>2 DEF Ended, TypeOK
  <2>4. \/ net' = net
        \/ net'.pc \in {"onFinal", "remove"} /\ net'.task = c
    BY <2>1 DEF Busy
  <2>5. HandlerLive' /\ HandlerOwns' /\ net'.pc \notin {"lock", "erase"}
    BY <1>0, <2>2, <2>4 DEF HandlerLive, HandlerOwns, HandlerHasTask, InCallback
  <2> QED  BY <2>2, <2>3, <2>5, ReadingHandler
<1>6. CASE FinalReturn
  <2>1. /\ net.pc = "onFinal" /\ UNCHANGED <<taskId2TaskCtx, mutex, heap, send, task>>
        /\ send[NetThread].pc = "idle" /\ net'.pc = "remove" /\ net'.task = net.task
    BY <1>6 DEF FinalReturn, Returned, shared, Busy
  <2>2. HandlerLive' /\ HandlerOwns'
    BY <1>0, <2>1 DEF HandlerLive, HandlerOwns, HandlerHasTask, InCallback
  <2> QED  BY <1>0, <2>1, <2>2, ReadingHandler
<1>7. CASE RemoveLookup
  <2>1. PICK found \in Lookup(heap[net.task].id) :
          IF found = NoCtx
          THEN Ended(net.task) /\ Idle /\ UNCHANGED heap
          ELSE /\ heap' = [heap EXCEPT ![found].msg = "deleted"]
               /\ Busy("lock", net.task, found)
               /\ UNCHANGED task
    BY <1>7 DEF RemoveLookup
  <2>2. /\ net.pc = "remove" /\ net.task \in Ctx
        /\ UNCHANGED <<taskId2TaskCtx, mutex, send>>
    BY <1>0, <1>7 DEF RemoveLookup, shared
  <2>3. CASE found = NoCtx
    <3>1. net'.pc = "idle" /\ net'.task = NoCtx /\ UNCHANGED heap
      BY <2>1, <2>3 DEF Idle, Busy
    <3>2. \A d \in Ctx : task'[d] # "none" => heap[d].ctx # "unborn"
      BY <1>0, <2>1, <2>2, <2>3 DEF Ended, TypeOK
    <3>3. HandlerLive' /\ HandlerOwns'
      BY <2>2, <3>1 DEF HandlerLive, HandlerOwns, HandlerHasTask, InCallback
    <3> QED  BY <2>2, <3>1, <3>2, <3>3, ReadingHandler
  <2>4. CASE found # NoCtx
    <3>1. /\ found \in Ctx
          /\ heap[found].ctx = "live" /\ heap[found].msg = "live"
          /\ heap[found].id = heap[net.task].id /\ taskId2TaskCtx[heap[found].id] = found
      BY <1>0, <2>2, <2>4, FoundIsLive, LookupFinds
    <3>2. /\ heap'[found].msg = "deleted"
          /\ \A d \in Ctx : heap'[d].ctx = heap[d].ctx /\ heap'[d].id = heap[d].id
          /\ \A d \in Ctx : d # found => heap'[d].msg = heap[d].msg
      <4>1. heap' = [heap EXCEPT ![found].msg = "deleted"]
        BY <2>1, <2>4
      <4> QED  BY <3>1, <4>1 DEF TypeOK, Objects
    <3>3. /\ net'.pc = "lock" /\ net'.task = net.task /\ net'.ctx = found /\ task' = task
      BY <2>1, <2>4 DEF Busy
    <3>4. \A t \in Threads : Storing(t) => send[t].ctx # found
      BY <1>0, <3>1 DEF SendersOwn, Storing, Unmapped
    <3>5. EntriesLive' /\ HandlerLive' /\ SenderLive'
      <4>1. EntriesLive'
        <5>1. \A i \in Ids : taskId2TaskCtx[i] # NoCtx => taskId2TaskCtx[i] \in Ctx
          BY DEF TypeOK, CtxPtr
        <5> QED  BY <2>2, <3>2, <3>3, <5>1 DEF MemorySafe, EntriesLive, Removing
      <4>2. HandlerLive'
        BY <3>1, <3>2, <3>3 DEF HandlerLive
      <4>3. SenderLive'
        BY <2>2, <3>2, <3>4 DEF MemorySafe, SenderLive, SendersOwn, Storing
      <4> QED  BY <4>1, <4>2, <4>3
    <3>6. LockDiscipline'
      BY <2>2, <3>3 DEF LockDiscipline
    <3>7. SendersOwn'
      BY <2>2, <3>2, <3>4 DEF SendersOwn, Unmapped, Storing
    <3>8. StoredUnderId'
      <4>1. \A i \in Ids : taskId2TaskCtx[i] # NoCtx => taskId2TaskCtx[i] \in Ctx
        BY DEF TypeOK, CtxPtr
      <4> QED  BY <2>2, <3>1, <3>2, <3>3, <4>1 DEF StoredUnderId, SendersOwn
    <3>9. HandlerOwns'
      BY <1>0, <2>2, <3>1, <3>2, <3>3 DEF HandlerOwns, HandlerHasTask, InCallback
    <3> QED  BY <3>5, <3>6, <3>7, <3>8, <3>9 DEF MemorySafe
  <2> QED  BY <2>3, <2>4
<1>8. CASE EraseLock
  <2>1. /\ net.pc = "lock" /\ net'.pc = "erase" /\ net'.task = net.task /\ net'.ctx = net.ctx
        /\ mutex = NoThread /\ mutex' = NetThread
        /\ UNCHANGED <<taskId2TaskCtx, heap, send, task>>
    BY <1>8 DEF EraseLock, Busy
  <2>2. EntriesLive' /\ HandlerLive' /\ SenderLive'
    BY <2>1 DEF MemorySafe, EntriesLive, HandlerLive, SenderLive, Removing
  <2>3. LockDiscipline'
    BY <2>1 DEF LockDiscipline
  <2>4. SendersOwn' /\ StoredUnderId'
    BY <2>1 DEF SendersOwn, StoredUnderId, Unmapped, Storing
  <2>5. HandlerOwns'
    BY <2>1 DEF HandlerOwns, HandlerHasTask, InCallback
  <2> QED  BY <2>2, <2>3, <2>4, <2>5 DEF MemorySafe
<1>9. CASE EraseContext
  <2> DEFINE id == heap[net.task].id
  <2>1. /\ net.pc = "erase" /\ net'.pc = "delete" /\ net'.task = net.task /\ net'.ctx = net.ctx
        /\ mutex' = NoThread /\ UNCHANGED <<heap, send, task>>
    BY <1>9 DEF EraseContext, Busy
  <2>2. /\ id \in Ids /\ taskId2TaskCtx'[id] = NoCtx
        /\ \A i \in Ids : i # id => taskId2TaskCtx'[i] = taskId2TaskCtx[i]
    BY <1>0, <1>9, <2>1 DEF EraseContext, TypeOK
  <2>3. net.ctx \in Ctx /\ heap[net.ctx].id = id
    BY <2>1 DEF HandlerOwns
  <2> HIDE DEF id
  <2>4. Unmapped(net.ctx)'
    BY <2>1, <2>2, <2>3 DEF Unmapped, StoredUnderId
  <2>5. EntriesLive' /\ HandlerLive' /\ SenderLive'
    BY <2>1, <2>2, <2>4 DEF MemorySafe, EntriesLive, HandlerLive, SenderLive, Removing, Unmapped
  <2>6. LockDiscipline'
    BY <2>1 DEF LockDiscipline, HandlerOwns, InCallback
  <2>7. SendersOwn'
    BY <2>1, <2>2 DEF SendersOwn, Unmapped, Storing
  <2>8. StoredUnderId'
    BY <2>1, <2>2 DEF StoredUnderId
  <2>9. HandlerOwns'
    BY <2>1, <2>4 DEF HandlerOwns, HandlerHasTask, InCallback, Unmapped
  <2> QED  BY <2>5, <2>6, <2>7, <2>8, <2>9 DEF MemorySafe
<1>10. CASE DeleteContext
  <2> DEFINE c == net.ctx
  <2>1. /\ net.pc = "delete" /\ net'.pc = "idle" /\ net'.task = NoCtx
        /\ UNCHANGED <<taskId2TaskCtx, mutex, send>>
    BY <1>10 DEF DeleteContext, shared, Idle, Busy
  <2>2. c \in Ctx /\ heap[c].msg = "deleted" /\ Unmapped(c) /\ heap[c].ctx = "live"
    BY <2>1 DEF HandlerOwns, MemorySafe, HandlerLive
  <2>3. /\ heap'[c].ctx = "deleted"
        /\ \A d \in Ctx : heap'[d].msg = heap[d].msg /\ heap'[d].id = heap[d].id
        /\ \A d \in Ctx : d # c => heap'[d].ctx = heap[d].ctx
    BY <1>10, <2>2 DEF DeleteContext, TypeOK, Objects
  <2>4. \A d \in Ctx : task'[d] # "none" => heap[d].ctx # "unborn"
    BY <1>0, <1>10, <2>1 DEF DeleteContext, Ended, TypeOK
  <2>5. \A t \in Threads : Storing(t) => send[t].ctx # c
    BY <2>2 DEF SendersOwn, MemorySafe, SenderLive, Storing
  <2> HIDE DEF c
  <2>6. \A i \in Ids : taskId2TaskCtx[i] # NoCtx => taskId2TaskCtx[i] \in Ctx
    BY DEF TypeOK, CtxPtr
  <2>7. EntriesLive'
    BY <2>1, <2>2, <2>3, <2>6 DEF MemorySafe, EntriesLive, Removing, Unmapped
  <2>8. HandlerLive' /\ SenderLive'
    BY <2>1, <2>2, <2>3, <2>5 DEF MemorySafe, HandlerLive, SenderLive, SendersOwn, Storing
  <2>9. LockDiscipline'
    BY <2>1 DEF LockDiscipline
  <2>10. SendersOwn'
    BY <2>1, <2>3, <2>5 DEF SendersOwn, Unmapped, Storing
  <2>11. StoredUnderId'
    BY <2>1, <2>2, <2>3, <2>4, <2>6 DEF StoredUnderId, SendersOwn
  <2>12. HandlerOwns'
    BY <2>1 DEF HandlerOwns, HandlerHasTask, InCallback
  <2> QED  BY <2>7, <2>8, <2>9, <2>10, <2>11, <2>12 DEF MemorySafe
<1>11. CASE OnPush \/ OnPushListener \/ OnPushReturn
  <2>1. /\ net.pc \in {"idle", "increment", "onPush"} /\ net'.pc \in {"idle", "increment", "onPush"}
        /\ net'.task = NoCtx /\ (net'.pc = "onPush" \/ send[NetThread].pc = "idle")
        /\ UNCHANGED <<taskId2TaskCtx, mutex, heap, task>>
    BY <1>11 DEF OnPush, OnPushListener, OnPushReturn, Returned, shared, Idle, Busy,
       HandlerOwns, InCallback
  <2>2. /\ \A t \in Threads : send'[t].pc = send[t].pc /\ send'[t].ctx = send[t].ctx
        /\ \A t \in Threads : send[t].pc # "idle" => send'[t].id = send[t].id
    <3>1. CASE OnPush
      <4>1. send[NetThread].pc = "idle"
        BY <3>1 DEF OnPush, HandlerOwns, InCallback
      <4>2. /\ send'[NetThread].pc = "idle" /\ send'[NetThread].ctx = send[NetThread].ctx
            /\ \A t \in Threads : t # NetThread => send'[t] = send[t]
        BY <3>1, <4>1 DEF OnPush, TypeOK, Activation
      <4> QED  BY <4>1, <4>2
    <3>2. CASE OnPushListener \/ OnPushReturn
      BY <3>2 DEF OnPushListener, OnPushReturn, shared
    <3> QED  BY <1>11, <3>1, <3>2
  <2>3. HandlerLive' /\ HandlerOwns'
    BY <2>1, <2>2 DEF HandlerLive, HandlerOwns, HandlerHasTask, InCallback
  <2> QED  BY <1>0, <2>1, <2>2, <2>3, ReadingHandler
<1> QED
  BY <1>1, <1>2, <1>3, <1>4, <1>5, <1>6, <1>7, <1>8, <1>9, <1>10, <1>11 DEF NetStep

\* What the mars library does between two handlers.
LEMMA LibraryStep == ASSUME TypeOK, Core, MarsStep \/ UNCHANGED vars PROVE Core'
<1>1. UNCHANGED <<taskId2TaskCtx, mutex, heap, send, net>>
  BY DEF MarsStep, TaskRetry, TaskFail, DropReply, Reset, RedoTasks, Control, vars, shared
<1>2. \A c \in Ctx : task'[c] # "none" => task[c] # "none"
  BY DEF MarsStep, TaskRetry, TaskFail, DropReply, Reset, RedoTasks, Control, vars, TypeOK
<1> QED
  BY <1>1, <1>2 DEF MemorySafe, EntriesLive, HandlerLive, SenderLive, LockDiscipline, SendersOwn,
     StoredUnderId, HandlerOwns, HandlerHasTask, Removing, Unmapped, Storing, InCallback

\* Inductive holds in every reachable state: it is inductive.
THEOREM InductiveHolds == Spec => []Inductive
<1>1. Init => Inductive
  <2> SUFFICES ASSUME Init PROVE Inductive
    OBVIOUS
  <2>1. TypeOK /\ HandlerHasTask
    BY InitType
  <2>2. /\ \A i \in Ids : taskId2TaskCtx[i] = NoCtx
        /\ \A c \in Ctx : heap[c].ctx = "unborn" /\ task[c] = "none"
        /\ \A t \in Threads : send[t].pc = "idle"
        /\ mutex = NoThread /\ net.pc = "idle" /\ net.task = NoCtx /\ NoCtx \notin Ctx
        /\ NetThread \in Threads /\ NoThread \notin Threads
    BY ConstantsAssumption DEF Init, Threads
  <2>3. MemorySafe
    BY <2>2 DEF MemorySafe, EntriesLive, HandlerLive, SenderLive
  <2>4. LockDiscipline
    BY <2>2 DEF LockDiscipline
  <2>5. SendersOwn /\ StoredUnderId
    BY <2>2 DEF SendersOwn, StoredUnderId, Storing
  <2>6. HandlerOwns
    BY <2>1, <2>2 DEF HandlerOwns
  <2> QED  BY <2>1, <2>3, <2>4, <2>5, <2>6 DEF Inductive
<1>2. Inductive /\ [Next]_vars => Inductive'
  <2> SUFFICES ASSUME Inductive, [Next]_vars PROVE Inductive'
    OBVIOUS
  <2>1. TypeOK /\ Core /\ TypeOK'
    BY TypeStep DEF Inductive, HandlerOwns
  <2>2. Core'
    BY <2>1, SenderStep, HandlerStep, LibraryStep DEF Next, AllQuiet
  <2> QED  BY <2>1, <2>2 DEF Inductive
<1> QED  BY <1>1, <1>2, PTL DEF Spec

\* However sendMessage and the handlers interleave, and whatever ids the racing
\* counter hands out, no handler and no sender touches a TaskContext or an
\* ImMessage that removeTaskContext has deleted.
THEOREM MemorySafety == Spec => []MemorySafe
BY InductiveHolds, PTL DEF Inductive

\* taskId2TaskCtxMutex is held exactly inside storeContext and the erase of
\* removeTaskContext, by the thread that is there.
THEOREM LockSafety == Spec => []LockDiscipline
BY InductiveHolds, PTL DEF Inductive
=============================================================================
