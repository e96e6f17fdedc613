------------------------------ MODULE TaskStore ------------------------------
(***************************************************************************)
(* The life of a request, from marsPlus::sendMessage on an application     *)
(* thread to the StnCallBack handlers that the mars library runs on its    *)
(* own network thread.  The two sides share the ImMessage id counter, the  *)
(* map of MarsTaskProxy, which is written under a mutex and read without   *)
(* it, and the heap objects the map points to.                             *)
(*                                                                         *)
(* A call of sendMessage is named after the TaskContext it allocates: a    *)
(* member of Ctx stands for the request, its context and its message.  The *)
(* mars library is not part of the repository; its tasks, retries and      *)
(* timeouts follow what stn.h and stn_logic.h declare, as permissively as  *)
(* the wrapper has to expect.                                              *)
(***************************************************************************)
EXTENDS Naturals, Sequences

CONSTANTS
  AppThreads,   \* application threads that call sendMessage
  NetThread,    \* the one thread on which mars calls StnCallBack
  NoThread,     \* holder of a free mutex
  Ctx,          \* TaskContext objects, one per call of sendMessage
  NoCtx,        \* the NULL TaskContext pointer
  FirstId,      \* initial ImMessage::messageId (10000 in the code)
  IdSpace,      \* number of uint32_t values (2^32 in the code)
  MaxTries,     \* bound: how often mars retries one task
  MaxPushes,    \* bound: packets the server pushes
  MaxControls,  \* bound: calls of MarsTaskProxy::reset and redoTasks
  Quiet,        \* TRUE: the application sends only when nothing is pending,
                \* or from a callback of a request; FALSE: at any time
  Nested        \* TRUE: a listener's method may call sendMessage

Threads == AppThreads \cup {NetThread}
Ids     == 0 .. IdSpace - 1

ASSUME ConstantsAssumption ==
  /\ NetThread \notin AppThreads
  /\ NoThread \notin Threads
  /\ NoCtx \notin Ctx
  /\ IdSpace \in Nat /\ FirstId \in Ids
  /\ MaxTries \in Nat /\ MaxPushes \in Nat /\ MaxControls \in Nat
  /\ Quiet \in BOOLEAN /\ Nested \in BOOLEAN

VARIABLES
  messageId,       \* ImMessage::messageId
  taskId2TaskCtx,  \* id -> TaskContext*, NoCtx where the map has no entry
  mutex,           \* holder of taskId2TaskCtxMutex
  heap,            \* per request: state of its TaskContext and ImMessage, the
                   \* id in the message header, whether respCallback is set
  send,            \* per thread: its activation of sendMessage
  net,             \* the StnCallBack handler on the network thread
  task,            \* per request: the state of its mars task (external)
  mars,            \* tries left, answers under way, packets and calls so far
  heard            \* history: the calls each ResponseListener received

shared == <<messageId, taskId2TaskCtx, mutex>>
vars   == <<shared, heap, send, net, task, mars, heard>>

HeapStates == {"unborn", "live", "deleted"}
SendPcs    == {"idle", "increment", "lock", "insert", "start"}
NetPcs     == {"idle", "build", "onResponse", "onFinal", "remove", "lock",
               "erase", "delete", "increment", "onPush"}
TaskStates == {"none", "queued", "sent", "ok", "failed", "ended"}
Callbacks  == {"response", "foreign", "success", "error"}

Init ==
  /\ messageId = FirstId
  /\ taskId2TaskCtx = [i \in Ids |-> NoCtx]
  /\ mutex = NoThread
  /\ heap = [c \in Ctx |->
              [ctx |-> "unborn", msg |-> "unborn", id |-> 0, listener |-> FALSE]]
  /\ send = [t \in Threads |-> [pc |-> "idle", ctx |-> NoCtx, id |-> 0]]
  /\ net = [pc |-> "idle", task |-> NoCtx, ctx |-> NoCtx]
  /\ task = [c \in Ctx |-> "none"]
  /\ mars = [tries |-> [c \in Ctx |-> MaxTries], replies |-> [c \in Ctx |-> 0],
             pushes |-> 0, controls |-> 0]
  /\ heard = [c \in Ctx |-> <<>>]

-----------------------------------------------------------------------------
(* marsPlus::sendMessage, on an application thread or, called by a          *)
(* listener, on the network thread.                                         *)

\* The network thread is inside a listener's method.
InCallback == net.pc \in {"onResponse", "onFinal", "onPush"}

NothingPending ==
  /\ \A c \in Ctx : heap[c].ctx # "live"
  /\ \A t \in Threads : send[t].pc = "idle"

MaySend(t) ==
  /\ t = NetThread => InCallback /\ Nested
  /\ Quiet => NothingPending \/ (t = NetThread /\ net.pc # "onPush")

FaultyIncremented(id) == id + 1         \* wider than the uint32_t it goes into
FaultyNotIncremented(id) == id

\* newMessageId is "messageId++" on an unprotected int: a read, then a write.
Incremented(id) == (id + 1) % IdSpace

\* new ImMessage(body, size), up to the read of the counter.
BeginSend(t, c, hasListener) ==
  /\ send[t].pc = "idle" /\ MaySend(t)
  /\ heap[c].msg = "unborn"
  /\ heap' = [heap EXCEPT ![c].msg = "live", ![c].listener = hasListener]
  /\ send' = [send EXCEPT ![t] = [pc |-> "increment", ctx |-> c, id |-> messageId]]
  /\ UNCHANGED <<shared, net, task, mars, heard>>

\* The write of the counter; the id goes into the header and the TaskContext
\* is allocated and filled in.
FillContext(t) ==
  /\ send[t].pc = "increment"
  /\ messageId' = Incremented(send[t].id)
  /\ heap' = [heap EXCEPT ![send[t].ctx].ctx = "live",
                          ![send[t].ctx].id = send[t].id]
  /\ send' = [send EXCEPT ![t].pc = "lock"]
  /\ UNCHANGED <<taskId2TaskCtx, mutex, net, task, mars, heard>>

StoreLock(t) ==
  /\ send[t].pc = "lock"
  /\ mutex = NoThread /\ mutex' = t
  /\ send' = [send EXCEPT ![t].pc = "insert"]
  /\ UNCHANGED <<messageId, taskId2TaskCtx, heap, net, task, mars, heard>>

\* Faulty: returns without unlock().
FaultyStoreContext(t) ==
  /\ send[t].pc = "insert"
  /\ taskId2TaskCtx' = [taskId2TaskCtx EXCEPT ![send[t].id] = send[t].ctx]
  /\ send' = [send EXCEPT ![t].pc = "start"]
  /\ UNCHANGED <<messageId, mutex, heap, net, task, mars, heard>>

\* taskId2TaskCtx[taskId] = ctx, whatever the id mapped to; then unlock.
StoreContext(t) ==
  /\ send[t].pc = "insert"
  /\ taskId2TaskCtx' = [taskId2TaskCtx EXCEPT ![send[t].id] = send[t].ctx]
  /\ mutex' = NoThread
  /\ send' = [send EXCEPT ![t].pc = "start"]
  /\ UNCHANGED <<messageId, heap, net, task, mars, heard>>

\* mars::stn::StartTask queues the task and returns.
StartTask(t) ==
  /\ send[t].pc = "start"
  /\ task' = [task EXCEPT ![send[t].ctx] = "queued"]
  /\ send' = [send EXCEPT ![t].pc = "idle", ![t].ctx = NoCtx]
  /\ UNCHANGED <<shared, heap, net, mars, heard>>

SendStep(t) ==
  FillContext(t) \/ StoreLock(t) \/ StoreContext(t) \/ StartTask(t)

-----------------------------------------------------------------------------
(* What the handlers share.                                                 *)

\* getTaskConext walks the map without the mutex: while an application thread
\* links a node in, the walk may miss an entry that is there.
Lookup(id) ==
  {taskId2TaskCtx[id]} \cup
    IF \E t \in AppThreads : send[t].pc = "insert" THEN {NoCtx} ELSE {}

\* The listener's method, and a sendMessage it called, has returned.
Returned == send[NetThread].pc = "idle"

\* Faulty: nobody calls onError.
FaultyTell(c, callback) ==
  heard' = IF heap[c].listener /\ callback # "error"
           THEN [heard EXCEPT ![c] = Append(@, callback)] ELSE heard

Tell(c, callback) ==
  heard' = IF heap[c].listener THEN [heard EXCEPT ![c] = Append(@, callback)]
                               ELSE heard

Busy(pc, c, found) == net' = [pc |-> pc, task |-> c, ctx |-> found]
Idle == Busy("idle", NoCtx, NoCtx)

-----------------------------------------------------------------------------
(* StnCallBack::Req2Buf and Buf2Resp                                        *)

\* mars asks for the bytes of a queued task; false ends the task.
Req2Buf(c) ==
  /\ net.pc = "idle" /\ task[c] = "queued"
  /\ \E found \in Lookup(heap[c].id) :
       IF found = NoCtx
       THEN task' = [task EXCEPT ![c] = "failed"] /\ UNCHANGED net
       ELSE Busy("build", c, found) /\ UNCHANGED task
  /\ UNCHANGED <<shared, heap, send, mars, heard>>

\* buildEchatTcpMsg copies the message of the context that was found; the
\* server will answer that message.
BuildEchatTcpMsg ==
  /\ net.pc = "build"
  /\ task' = [task EXCEPT ![net.task] = "sent"]
  /\ mars' = [mars EXCEPT !.replies[net.ctx] = @ + 1]
  /\ Idle
  /\ UNCHANGED <<shared, heap, send, heard>>

\* What mars does with a -1 (kTaskFailHandleDefault) or a response timeout:
\* one more try while the task has any.
NextTry(c)   == IF mars.tries[c] > 0 THEN "queued" ELSE "failed"
TriesLeft(c) == IF mars.tries[c] > 0 THEN mars.tries[c] - 1 ELSE 0

\* The answer to message m reaches a sent task c of the same id.  The handler
\* returns -1 when there is no context, and when the context has no listener.
Buf2Resp(c, m) ==
  /\ net.pc = "idle" /\ task[c] = "sent"
  /\ mars.replies[m] > 0 /\ heap[m].id = heap[c].id
  /\ \E found \in Lookup(heap[c].id) :
       IF found # NoCtx /\ heap[found].listener
       THEN /\ Tell(found, IF found = m THEN "response" ELSE "foreign")
            /\ Busy("onResponse", c, found)
            /\ mars' = [mars EXCEPT !.replies[m] = @ - 1]
            /\ UNCHANGED task
       ELSE /\ task' = [task EXCEPT ![c] = NextTry(c)]
            /\ mars' = [mars EXCEPT !.replies[m] = @ - 1, !.tries[c] = TriesLeft(c)]
            /\ UNCHANGED <<net, heard>>
  /\ UNCHANGED <<shared, heap, send>>

\* Faulty: returns -1 after it called the listener.
FaultyBuf2RespReturn ==
  /\ net.pc = "onResponse" /\ Returned
  /\ task' = [task EXCEPT ![net.task] = NextTry(net.task)]
  /\ mars' = [mars EXCEPT !.tries[net.task] = TriesLeft(net.task)]
  /\ Idle
  /\ UNCHANGED <<shared, heap, send, heard>>

\* The handler returns 0: mars will end the task with kEctOK.
Buf2RespReturn ==
  /\ net.pc = "onResponse" /\ Returned
  /\ task' = [task EXCEPT ![net.task] = "ok"]
  /\ Idle
  /\ UNCHANGED <<shared, heap, send, mars, heard>>

-----------------------------------------------------------------------------
(* StnCallBack::OnTaskEnd and MarsTaskProxy::removeTaskContext              *)

Ended(c) == task' = [task EXCEPT ![c] = "ended"]

OnTaskEnd(c) ==
  /\ net.pc = "idle" /\ task[c] \in {"ok", "failed"}
  /\ \E found \in Lookup(heap[c].id) :
       IF found = NoCtx
       THEN Ended(c) /\ UNCHANGED <<net, heard>>
       ELSE /\ Tell(found, IF task[c] = "ok" THEN "success" ELSE "error")
            /\ Busy(IF heap[found].listener THEN "onFinal" ELSE "remove", c, NoCtx)
            /\ UNCHANGED task
  /\ UNCHANGED <<shared, heap, send, mars>>

\* Faulty: returns before removeTaskContext.
FaultyFinalReturn ==
  /\ net.pc = "onFinal" /\ Returned
  /\ Ended(net.task) /\ Idle
  /\ UNCHANGED <<shared, heap, send, mars, heard>>

FinalReturn ==
  /\ net.pc = "onFinal" /\ Returned
  /\ Busy("remove", net.task, NoCtx)
  /\ UNCHANGED <<shared, heap, send, task, mars, heard>>

\* removeTaskContext looks the id up again, and deletes the message first.
RemoveLookup ==
  /\ net.pc = "remove"
  /\ \E found \in Lookup(heap[net.task].id) :
       IF found = NoCtx
       THEN Ended(net.task) /\ Idle /\ UNCHANGED heap
       ELSE /\ heap' = [heap EXCEPT ![found].msg = "deleted"]
            /\ Busy("lock", net.task, found)
            /\ UNCHANGED task
  /\ UNCHANGED <<shared, send, mars, heard>>

\* Faulty: deletes the context before it is erased.
FaultyEraseLock ==
  /\ net.pc = "lock"
  /\ mutex = NoThread /\ mutex' = NetThread
  /\ heap' = [heap EXCEPT ![net.ctx].ctx = "deleted"]
  /\ Busy("erase", net.task, net.ctx)
  /\ UNCHANGED <<messageId, taskId2TaskCtx, send, task, mars, heard>>

EraseLock ==
  /\ net.pc = "lock"
  /\ mutex = NoThread /\ mutex' = NetThread
  /\ Busy("erase", net.task, net.ctx)
  /\ UNCHANGED <<messageId, taskId2TaskCtx, heap, send, task, mars, heard>>

\* erase(msgId) erases whatever the id maps to by now; then unlock.
EraseContext ==
  /\ net.pc = "erase"
  /\ taskId2TaskCtx' = [taskId2TaskCtx EXCEPT ![heap[net.task].id] = NoCtx]
  /\ mutex' = NoThread
  /\ Busy("delete", net.task, net.ctx)
  /\ UNCHANGED <<messageId, heap, send, task, mars, heard>>

\* Faulty: erases the entry and keeps the context.
FaultyDeleteContext ==
  /\ net.pc = "delete"
  /\ Ended(net.task) /\ Idle
  /\ UNCHANGED <<shared, heap, send, mars, heard>>

DeleteContext ==
  /\ net.pc = "delete"
  /\ heap' = [heap EXCEPT ![net.ctx].ctx = "deleted"]
  /\ Ended(net.task)
  /\ Idle
  /\ UNCHANGED <<shared, send, mars, heard>>

-----------------------------------------------------------------------------
(* StnCallBack::OnPush wraps the packet in an outgoing ImMessage, which     *)
(* takes an id from the same counter.                                       *)

OnPush ==
  /\ net.pc = "idle" /\ mars.pushes < MaxPushes
  /\ mars' = [mars EXCEPT !.pushes = @ + 1]
  /\ send' = [send EXCEPT ![NetThread].id = messageId]
  /\ Busy("increment", NoCtx, NoCtx)
  /\ UNCHANGED <<shared, heap, task, heard>>

OnPushListener ==
  /\ net.pc = "increment"
  /\ messageId' = Incremented(send[NetThread].id)
  /\ Busy("onPush", NoCtx, NoCtx)
  /\ UNCHANGED <<taskId2TaskCtx, mutex, heap, send, task, mars, heard>>

OnPushReturn ==
  /\ net.pc = "onPush" /\ Returned
  /\ Idle
  /\ UNCHANGED <<shared, heap, send, task, mars, heard>>

-----------------------------------------------------------------------------
(* The mars library between two handlers (external).                        *)

\* A response timeout.
TaskRetry(c) ==
  /\ net.pc = "idle" /\ task[c] = "sent" /\ mars.tries[c] > 0
  /\ task' = [task EXCEPT ![c] = "queued"]
  /\ mars' = [mars EXCEPT !.tries[c] = TriesLeft(c)]
  /\ UNCHANGED <<shared, heap, send, net, heard>>

\* The task's total timeout, or a failure mars does not retry.
TaskFail(c) ==
  /\ net.pc = "idle" /\ task[c] \in {"queued", "sent"}
  /\ task' = [task EXCEPT ![c] = "failed"]
  /\ UNCHANGED <<shared, heap, send, net, mars, heard>>

\* An answer is lost with its connection, or comes after its task.
DropReply(m) ==
  /\ mars.replies[m] > 0
  /\ mars' = [mars EXCEPT !.replies[m] = @ - 1]
  /\ UNCHANGED <<shared, heap, send, net, task, heard>>

\* MarsTaskProxy::reset ends every task mars holds, redoTasks sends them again.
Control(from, to) ==
  /\ net.pc = "idle" /\ mars.controls < MaxControls
  /\ task' = [c \in Ctx |-> IF task[c] \in from THEN to ELSE task[c]]
  /\ mars' = [mars EXCEPT !.controls = @ + 1]
  /\ UNCHANGED <<shared, heap, send, net, heard>>

Reset     == Control({"queued", "sent"}, "failed")
RedoTasks == Control({"sent"}, "queued")

-----------------------------------------------------------------------------
NetStep ==
  \/ \E c \in Ctx : Req2Buf(c) \/ OnTaskEnd(c)
  \/ \E c, m \in Ctx : Buf2Resp(c, m)
  \/ BuildEchatTcpMsg \/ Buf2RespReturn \/ FinalReturn
  \/ RemoveLookup \/ EraseLock \/ EraseContext \/ DeleteContext
  \/ OnPush \/ OnPushListener \/ OnPushReturn

MarsStep ==
  \/ \E c \in Ctx : TaskRetry(c) \/ TaskFail(c) \/ DropReply(c)
  \/ Reset \/ RedoTasks

\* Every request was made and its task is over: nothing is left to happen.
AllQuiet ==
  /\ net.pc = "idle"
  /\ \A t \in Threads : send[t].pc = "idle"
  /\ \A c \in Ctx : task[c] = "ended"
  /\ UNCHANGED vars

Next ==
  \/ \E t \in Threads, c \in Ctx, l \in BOOLEAN : BeginSend(t, c, l)
  \/ \E t \in Threads : SendStep(t)
  \/ NetStep
  \/ MarsStep
  \/ AllQuiet

Spec == Init /\ [][Next]_vars

\* A thread that runs keeps running; mars times every task out in the end.
Fairness ==
  /\ \A t \in Threads : WF_vars(SendStep(t))
  /\ WF_vars(NetStep)
  /\ \A c \in Ctx : SF_vars(TaskFail(c))

FairSpec == Spec /\ Fairness

-----------------------------------------------------------------------------
CtxPtr     == Ctx \cup {NoCtx}
Objects    == [ctx : HeapStates, msg : HeapStates, id : Ids, listener : BOOLEAN]
Activation == [pc : SendPcs, ctx : CtxPtr, id : Ids]
Handler    == [pc : NetPcs, task : CtxPtr, ctx : CtxPtr]
Library    == [tries : [Ctx -> 0 .. MaxTries], replies : [Ctx -> Nat],
               pushes : 0 .. MaxPushes, controls : 0 .. MaxControls]

TypeOK ==
  /\ messageId \in Ids
  /\ taskId2TaskCtx \in [Ids -> CtxPtr]
  /\ mutex \in Threads \cup {NoThread}
  /\ heap \in [Ctx -> Objects]
  /\ send \in [Threads -> Activation]
  /\ net \in Handler
  /\ task \in [Ctx -> TaskStates]
  /\ mars \in Library
  /\ heard \in [Ctx -> Seq(Callbacks)]

-----------------------------------------------------------------------------
(* Properties.                                                              *)

InMap(c)    == \E i \in Ids : taskId2TaskCtx[i] = c
Final(c)    == \E k \in DOMAIN heard[c] : heard[c][k] \in {"success", "error"}
Removing(c) == net.pc \in {"lock", "erase"} /\ net.ctx = c

\* An entry of the map points to a context that is not freed and whose message
\* is not freed, except while removeTaskContext, which frees the message
\* first, is on its way to erase that entry.
EntriesLive ==
  \A i \in Ids : taskId2TaskCtx[i] # NoCtx =>
    LET c == taskId2TaskCtx[i]
    IN heap[c].ctx = "live" /\ (heap[c].msg = "live" \/ Removing(c))

\* What the handler on the network thread still holds is not freed under it.
HandlerLive ==
  /\ net.pc = "build" => heap[net.ctx].ctx = "live" /\ heap[net.ctx].msg = "live"
  /\ net.pc = "onResponse" => heap[net.ctx].ctx = "live"
  /\ net.pc \in {"lock", "erase", "delete"} => heap[net.ctx].ctx = "live"

\* What sendMessage is about to store is not freed before it is stored.
SenderLive ==
  \A t \in Threads : send[t].pc \in {"lock", "insert"} =>
    heap[send[t].ctx].ctx = "live" /\ heap[send[t].ctx].msg = "live"

\* No interleaving of sendMessage, which writes the map under the mutex, with
\* the handlers, which read it without, makes one of them touch a TaskContext
\* or an ImMessage that removeTaskContext has deleted, not even when two
\* requests have the same id.
MemorySafe == EntriesLive /\ HandlerLive /\ SenderLive

\* taskId2TaskCtxMutex is held exactly between lock() and unlock() of
\* storeContext and of removeTaskContext: at most one thread changes the map,
\* and no listener's method, which may call sendMessage and lock the same
\* mutex, is called with it held.
LockDiscipline ==
  /\ \A t \in Threads : send[t].pc = "insert" => mutex = t
  /\ net.pc = "erase" => mutex = NetThread
  /\ mutex # NoThread =>
       send[mutex].pc = "insert" \/ (mutex = NetThread /\ net.pc = "erase")

\* Why memory and lock stay safe, step by step (the inductive invariant of
\* TaskStoreProofs).
Unmapped(c) == \A i \in Ids : taskId2TaskCtx[i] # c

Storing(t) == send[t].pc \in {"increment", "lock", "insert"}

\* A context belongs to one activation of sendMessage until it is stored.
SendersOwn ==
  /\ \A t \in Threads : send[t].pc # "idle" => send[t].ctx \in Ctx
  /\ \A t \in Threads : send[t].pc = "increment" =>
       heap[send[t].ctx].ctx = "unborn" /\ heap[send[t].ctx].msg = "live"
  /\ \A t \in Threads : send[t].pc \in {"lock", "insert"} =>
       Unmapped(send[t].ctx) /\ heap[send[t].ctx].id = send[t].id
  /\ \A t, u \in Threads : Storing(t) /\ Storing(u) /\ send[t].ctx = send[u].ctx => t = u

\* A context is stored under its id, and has one before mars knows the task.
StoredUnderId ==
  /\ \A i \in Ids : taskId2TaskCtx[i] # NoCtx => heap[taskId2TaskCtx[i]].id = i
  /\ \A c \in Ctx : heap[c].msg = "unborn" => heap[c].ctx = "unborn"
  /\ \A c \in Ctx : task[c] # "none" => heap[c].ctx # "unborn"
  /\ \A t \in Threads : send[t].pc = "start" => heap[send[t].ctx].ctx # "unborn"

\* Every handler but OnPush runs for a task.
HandlerHasTask == net.pc \notin {"idle", "increment", "onPush"} => net.task \in Ctx

\* What the handler removes is the context its own task's id led to.
HandlerOwns ==
  /\ HandlerHasTask
  /\ net.task \in Ctx => heap[net.task].ctx # "unborn"
  /\ net.pc \in {"build", "onResponse", "lock", "erase", "delete"} => net.ctx \in Ctx
  /\ net.pc \in {"lock", "erase", "delete"} =>
       heap[net.ctx].msg = "deleted" /\ heap[net.ctx].id = heap[net.task].id
  /\ net.pc = "delete" => Unmapped(net.ctx)
  /\ send[NetThread].pc # "idle" => InCallback

Inductive ==
  /\ TypeOK /\ MemorySafe /\ LockDiscipline
  /\ SendersOwn /\ StoredUnderId /\ HandlerOwns

\* Two requests that are both in the store have different ids: "unique message
\* identification", as im_message.h says of newMessageId.
UniqueIds ==
  \A c, d \in Ctx :
    heap[c].ctx = "live" /\ heap[d].ctx = "live" /\ heap[c].id = heap[d].id => c = d

\* A listener is called as ResponseListener promises: the response and then
\* success, or only an error, each at most once, whatever is retried, comes
\* late or is looked up while another thread stores a context.
CallbackOrder ==
  \A c \in Ctx : heard[c] \in {<<>>, <<"response">>, <<"response", "success">>,
                              <<"error">>}

\* removeTaskContext frees the context of a request only when its own listener
\* was told how the request ended.
ReleasedWhenTold ==
  \A c \in Ctx : heap[c].ctx = "deleted" /\ heap[c].listener => Final(c)

\* OnTaskEnd is "the final status callback of the send task": when mars is done
\* with a task, its listener has heard so.
EndedIsTold ==
  \A c \in Ctx : task[c] = "ended" /\ heap[c].listener => Final(c)

\* What sendMessage allocates is "to be released in removeTaskConext": when
\* mars is done with a task, nothing of its request is left on the heap.
EndedIsReleased ==
  \A c \in Ctx : task[c] = "ended" => heap[c].ctx = "deleted" /\ heap[c].msg = "deleted"

\* What a request is to TaskContract: its storage is held from the moment
\* sendMessage allocates the message until its context is deleted.
Storage(c) == CASE heap[c].msg = "unborn"  -> "none"
                [] heap[c].ctx = "deleted" -> "released"
                [] OTHER                   -> "held"

Contract == INSTANCE TaskContract WITH
  Requests <- Ctx,
  storage  <- [c \in Ctx |-> Storage(c)],
  listener <- [c \in Ctx |-> heap[c].listener],
  heard    <- heard

\* Through ids, map, mutex, mars tasks, retries and callbacks that send again,
\* sendMessage and the handlers keep the contract of every request: the
\* listener hears the outcome once, in order, then the request is released,
\* and all of this does happen.
KeepsContract == Contract!FairSpec
=============================================================================
