-------------------------- MODULE TaskContractProofs --------------------------
(***************************************************************************)
(* When sendMessage keeps its contract, for any number of requests.  The   *)
(* counter of ids is not protected, and the map is read without its mutex: *)
(* what ResponseListener promises holds while one step of sendMessage runs *)
(* at a time (Serial).  Then ids are unique, which is all that the order   *)
(* of the callbacks and the release of the context need; and if no lookup  *)
(* runs during an insertion either (Quiet), TaskContract is implemented.   *)
(***************************************************************************)
EXTENDS TaskStoreProofs, FiniteSets, FiniteSetTheorems, SequenceTheorems

USE DEF Core

\* One application thread sends, and nobody else takes an id.
OneSender == (\A t, u \in AppThreads : t = u) /\ ~ Nested /\ MaxPushes = 0

\* The counter does not come round to where it started.
NoWrap == IsFiniteSet(Ctx) /\ Cardinality(Ctx) + MaxPushes < IdSpace

Serial == NoWrap /\ (Quiet \/ OneSender)

\* One activation of sendMessage at a time, inside a listener only if Nested.
Single ==
  /\ \A t, u \in Threads : send[t].pc # "idle" /\ send[u].pc # "idle" => t = u
  /\ send[NetThread].pc # "idle" => Nested

-----------------------------------------------------------------------------
(* The counter of ids.                                                      *)

\* How many ids the counter had given when it stood at id.
Rank(id) == IF id >= FirstId THEN id - FirstId ELSE (id + IdSpace) - FirstId

Allocated == {c \in Ctx : heap[c].ctx # "unborn"}
Reserved  == Cardinality(Allocated) + mars.pushes

\* Whoever is between the read and the write of messageId read an id that no
\* request has, and the write does not bring back one that a request has.
IdsInv ==
  /\ \A c \in Allocated : Rank(heap[c].id) < Rank(messageId)
  /\ \A c, d \in Allocated : heap[c].id = heap[d].id => c = d
  /\ Rank(messageId) <= Reserved
  /\ \A t \in Threads : send[t].pc = "increment" =>
       /\ \A c \in Allocated : Rank(heap[c].id) < Rank(send[t].id)
       /\ Rank(send[t].id) <= Rank(messageId)
  /\ net.pc = "increment" =>
       /\ \A c \in Allocated : Rank(heap[c].id) <= Rank(send[NetThread].id)
       /\ \A t \in AppThreads :
            send[t].pc = "increment" => Rank(send[t].id) <= Rank(send[NetThread].id)
       /\ Rank(send[NetThread].id) + 1 <= Reserved
       /\ Rank(messageId) <= Rank(send[NetThread].id) \/ \E c \in Ctx : heap[c].ctx = "live"
  /\ net.pc \in {"increment", "onPush"} => mars.pushes > 0

\* Ranks are numbers below IdSpace, one for each id.
LEMMA RankType ==
  ASSUME NEW id \in Ids
  PROVE  /\ Rank(id) \in Nat /\ Rank(id) < IdSpace
         /\ \A other \in Ids : Rank(other) = Rank(id) => other = id
BY ConstantsAssumption DEF Ids, Rank

\* newMessageId goes one up, past the end of uint32_t too.
LEMMA NextRank ==
  ASSUME NEW id \in Ids, Rank(id) + 1 < IdSpace
  PROVE  Incremented(id) \in Ids /\ Rank(Incremented(id)) = Rank(id) + 1
<1>1. /\ id \in Nat /\ IdSpace \in Nat /\ FirstId \in Nat /\ FirstId < IdSpace /\ id < IdSpace
      /\ IdSpace > 0
  BY ConstantsAssumption DEF Ids
<1>2. CASE id + 1 < IdSpace
  <2>1. (id + 1) % IdSpace = id + 1
    BY <1>1, <1>2
  <2> QED  BY <1>1, <1>2, <2>1 DEF Incremented, Rank, Ids
<1>3. CASE id + 1 = IdSpace
  <2>1. (id + 1) % IdSpace = 0
    BY <1>1, <1>3
  <2> QED  BY <1>1, <1>3, <2>1 DEF Incremented, Rank, Ids
<1> QED  BY <1>1, <1>2, <1>3

\* Contexts are allocated out of a finite number.
LEMMA CountType ==
  ASSUME IsFiniteSet(Ctx), NEW A \in SUBSET Ctx
  PROVE  /\ Cardinality(A) \in Nat /\ Cardinality(A) <= Cardinality(Ctx)
         /\ \A c \in Ctx \ A : /\ Cardinality(A \cup {c}) = Cardinality(A) + 1
                               /\ Cardinality(A) + 1 <= Cardinality(Ctx)
<1>1. IsFiniteSet(A) /\ Cardinality(A) \in Nat /\ Cardinality(A) <= Cardinality(Ctx)
  BY FS_Subset, FS_CardinalityType
<1>2. ASSUME NEW c \in Ctx \ A
      PROVE  Cardinality(A \cup {c}) = Cardinality(A) + 1 /\ Cardinality(A) + 1 <= Cardinality(Ctx)
  <2>1. Cardinality(A \cup {c}) = Cardinality(A) + 1
    BY <1>1, FS_AddElement
  <2>2. A \cup {c} \subseteq Ctx
    OBVIOUS
  <2>3. Cardinality(A \cup {c}) <= Cardinality(Ctx)
    BY <2>2, FS_Subset
  <2> QED  BY <2>1, <2>3
<1> QED  BY <1>1, <1>2

\* Numbers that the steps below compare.
LEMMA IdsType ==
  ASSUME TypeOK, NoWrap
  PROVE  /\ messageId \in Ids /\ Rank(messageId) \in Nat
         /\ \A c \in Ctx : heap[c].id \in Ids /\ Rank(heap[c].id) \in Nat
         /\ \A t \in Threads : send[t].id \in Ids /\ Rank(send[t].id) \in Nat
         /\ Reserved \in Nat /\ Reserved < IdSpace /\ IdSpace \in Nat
         /\ mars.pushes \in Nat /\ mars.pushes <= MaxPushes
         /\ Allocated \subseteq Ctx /\ Cardinality(Allocated) \in Nat
<1>1. /\ messageId \in Ids
      /\ \A c \in Ctx : heap[c].id \in Ids
      /\ \A t \in Threads : send[t].id \in Ids
      /\ mars.pushes \in Nat /\ mars.pushes <= MaxPushes /\ MaxPushes \in Nat /\ IdSpace \in Nat
  BY ConstantsAssumption DEF TypeOK, Objects, Activation, Library
<1>2. Cardinality(Allocated) \in Nat /\ Cardinality(Allocated) <= Cardinality(Ctx)
  BY CountType DEF NoWrap, Allocated
<1>3. Cardinality(Ctx) \in Nat
  BY FS_CardinalityType DEF NoWrap
<1> QED  BY <1>1, <1>2, <1>3, RankType DEF Reserved, NoWrap, Allocated

\* Steps that take no id.
TakesNoId ==
  /\ messageId' = messageId /\ mars'.pushes = mars.pushes
  /\ \A c \in Ctx : heap'[c].id = heap[c].id
  /\ \A c \in Ctx : \/ heap'[c].ctx = heap[c].ctx
                    \/ heap[c].ctx = "live" /\ heap'[c].ctx = "deleted" /\ net.pc = "delete"
  /\ \A t \in Threads : send'[t].pc = "increment" =>
       send[t].pc = "increment" /\ send'[t].id = send[t].id
  /\ net'.pc = "increment" => net.pc = "increment" /\ send'[NetThread].id = send[NetThread].id
  /\ net'.pc = "onPush" => net.pc \in {"increment", "onPush"}

\* A step that draws and gives no id leaves ids distinct.
LEMMA IdsFrame == ASSUME TypeOK, IdsInv, TakesNoId PROVE IdsInv'
<1>1. Allocated' = Allocated /\ Reserved' = Reserved /\ Allocated \subseteq Ctx
  BY DEF TakesNoId, Allocated, Reserved
<1>2. AppThreads \subseteq Threads /\ NetThread \in Threads
  BY DEF Threads
<1>3. net.pc = "increment" => \A c \in Ctx : heap'[c].ctx = heap[c].ctx
  BY DEF TakesNoId
<1> QED  BY <1>1, <1>2, <1>3 DEF TakesNoId, IdsInv, Rank

\* messageId is read where nobody between a read and a write of it gave an id
\* to a request that is still there.
LEMMA IdsBegin ==
  ASSUME TypeOK, Core, IdsInv, Serial, NEW t \in Threads, NEW c \in Ctx, NEW l \in BOOLEAN,
         BeginSend(t, c, l)
  PROVE  IdsInv'
<1>1. /\ UNCHANGED <<messageId, net, mars>>
      /\ \A d \in Ctx : heap'[d].ctx = heap[d].ctx /\ heap'[d].id = heap[d].id
      /\ send'[t].pc = "increment" /\ send'[t].id = messageId
      /\ \A u \in Threads : u # t => send'[u] = send[u]
  BY DEF BeginSend, shared, TypeOK, Objects
<1>2. Allocated' = Allocated /\ Reserved' = Reserved /\ Allocated \subseteq Ctx
  BY <1>1 DEF Allocated, Reserved
<1>3. AppThreads \subseteq Threads /\ NetThread \in Threads /\ NetThread \notin AppThreads
  BY ConstantsAssumption DEF Threads
<1>4. Rank(messageId) \in Nat
  BY IdsType DEF Serial
<1>5. ASSUME net.pc = "increment"
      PROVE  t # NetThread /\ Rank(messageId) <= Rank(send[NetThread].id)
  <2>1. mars.pushes > 0
    BY <1>5 DEF IdsInv
  <2>2. Quiet
    BY <2>1 DEF Serial, OneSender, TypeOK, Library
  <2>3. t # NetThread /\ NothingPending
    BY <1>5, <2>2 DEF BeginSend, MaySend, InCallback
  <2> QED  BY <1>5, <2>3 DEF IdsInv, NothingPending
<1>6. \A u \in Threads : send'[u].pc = "increment" =>
        /\ \A d \in Allocated : Rank(heap[d].id) < Rank(send'[u].id)
        /\ Rank(send'[u].id) <= Rank(messageId)
  BY <1>1, <1>4 DEF IdsInv
<1>7. net.pc = "increment" =>
        /\ send'[NetThread].id = send[NetThread].id
        /\ \A u \in AppThreads :
             send'[u].pc = "increment" => Rank(send'[u].id) <= Rank(send[NetThread].id)
  BY <1>1, <1>3, <1>5 DEF IdsInv
<1> QED  BY <1>1, <1>2, <1>6, <1>7 DEF IdsInv, Rank

\* The id goes to a request, and messageId past it.
LEMMA IdsFill ==
  ASSUME TypeOK, Core, IdsInv, NoWrap, Single, NEW t \in Threads, FillContext(t)
  PROVE  IdsInv'
<1> DEFINE c == send[t].ctx
           id == send[t].id
<1>1. /\ send[t].pc = "increment" /\ c \in Ctx /\ heap[c].ctx = "unborn"
      /\ messageId' = Incremented(id) /\ UNCHANGED <<net, mars>>
  BY DEF FillContext, SendersOwn
<1>2. /\ heap'[c].ctx = "live" /\ heap'[c].id = id
      /\ \A d \in Ctx : d # c => heap'[d].ctx = heap[d].ctx /\ heap'[d].id = heap[d].id
  BY <1>1 DEF FillContext, TypeOK, Objects
<1>3. /\ send'[t].pc = "lock" /\ \A u \in Threads : send'[u].id = send[u].id
      /\ \A u \in Threads : send'[u].pc # "increment"
  BY <1>1 DEF FillContext, TypeOK, Activation, Single
<1>4. c \notin Allocated /\ Allocated' = Allocated \cup {c} /\ Allocated \subseteq Ctx
  BY <1>1, <1>2 DEF Allocated
<1>5. Reserved' = Reserved + 1 /\ Reserved + 1 < IdSpace
  <2>1. /\ Cardinality(Allocated \cup {c}) = Cardinality(Allocated) + 1
        /\ Cardinality(Allocated) + 1 <= Cardinality(Ctx)
    BY <1>1, <1>4, CountType DEF NoWrap
  <2>2. Cardinality(Ctx) \in Nat
    BY FS_CardinalityType DEF NoWrap
  <2> QED  BY <1>1, <1>4, <2>1, <2>2, IdsType, ConstantsAssumption DEF Reserved, NoWrap
<1>6. /\ \A d \in Allocated : Rank(heap[d].id) < Rank(id)
      /\ Rank(id) <= Rank(messageId) /\ Rank(messageId) <= Reserved
  BY <1>1 DEF IdsInv
<1>7. NetThread \in Threads /\ AppThreads \subseteq Threads
  BY DEF Threads
<1>8. net.pc = "increment" =>
        /\ \A d \in Allocated : Rank(heap[d].id) <= Rank(send[NetThread].id)
        /\ Rank(id) <= Rank(send[NetThread].id)
        /\ Rank(send[NetThread].id) + 1 <= Reserved
  <2>1. net.pc = "increment" => t \in AppThreads
    BY <1>1 DEF HandlerOwns, InCallback, Threads
  <2> QED  BY <1>1, <2>1 DEF IdsInv
<1>9. /\ id \in Ids /\ Rank(id) \in Nat /\ Rank(messageId) \in Nat
      /\ Reserved \in Nat /\ IdSpace \in Nat
      /\ Rank(send[NetThread].id) \in Nat /\ \A d \in Ctx : Rank(heap[d].id) \in Nat
  BY <1>7, IdsType
<1>10. Rank(messageId') = Rank(id) + 1
  BY <1>1, <1>5, <1>6, <1>9, NextRank
<1> HIDE DEF c, id
<1>11. /\ \A d \in Allocated' : Rank(heap'[d].id) < Rank(messageId')
       /\ \A d, e \in Allocated' : heap'[d].id = heap'[e].id => d = e
  <2>1. \A d \in Allocated : heap'[d].id = heap[d].id /\ heap[d].id # id
    BY <1>2, <1>4, <1>6, <1>9
  <2> QED  BY <1>2, <1>4, <1>6, <1>9, <1>10, <2>1 DEF IdsInv
<1>12. net'.pc = "increment" =>
         /\ \A d \in Allocated' : Rank(heap'[d].id) <= Rank(send'[NetThread].id)
         /\ Rank(send'[NetThread].id) + 1 <= Reserved'
         /\ \E d \in Ctx : heap'[d].ctx = "live"
  BY <1>1, <1>2, <1>3, <1>4, <1>5, <1>7, <1>8, <1>9
<1>13. Rank(messageId') <= Reserved'
  BY <1>5, <1>6, <1>9, <1>10
<1> QED  BY <1>1, <1>3, <1>7, <1>11, <1>12, <1>13 DEF IdsInv, Rank

\* A push reserves one more id, and reads the counter like a request does.
LEMMA IdsOnPush == ASSUME TypeOK, Core, IdsInv, NoWrap, OnPush PROVE IdsInv'
<1>1. /\ net.pc = "idle" /\ net'.pc = "increment" /\ UNCHANGED <<messageId, heap>>
      /\ send[NetThread].pc = "idle"
  BY DEF OnPush, Busy, shared, HandlerOwns, InCallback
<1>2. NetThread \in Threads /\ AppThreads \subseteq Threads
  BY DEF Threads
<1>3. /\ send'[NetThread].id = messageId /\ send'[NetThread].pc = "idle"
      /\ \A t \in Threads : t # NetThread => send'[t] = send[t]
  BY <1>1, <1>2 DEF OnPush, TypeOK, Activation
<1>4. mars'.pushes = mars.pushes + 1 /\ mars.pushes \in Nat
  BY IdsType DEF OnPush, TypeOK, Library
<1>5. Reserved' = Reserved + 1 /\ Allocated' = Allocated /\ Allocated \subseteq Ctx
  BY <1>1, <1>4, IdsType DEF Reserved, Allocated
<1>6. /\ Rank(messageId) \in Nat /\ Reserved \in Nat
      /\ \A c \in Ctx : Rank(heap[c].id) \in Nat
      /\ \A t \in Threads : Rank(send[t].id) \in Nat
  BY IdsType
<1>7. \A t \in Threads : send'[t].pc = "increment" => send[t].pc = "increment" /\ send'[t] = send[t]
  BY <1>3
<1> QED  BY <1>1, <1>2, <1>3, <1>4, <1>5, <1>6, <1>7 DEF IdsInv, Rank

\* messageId may go back to where a thread read it, but not below an id in use.
LEMMA IdsOnPushListener == ASSUME TypeOK, Core, IdsInv, NoWrap, OnPushListener PROVE IdsInv'
<1> DEFINE id == send[NetThread].id
<1>1. /\ net.pc = "increment" /\ net'.pc = "onPush" /\ UNCHANGED <<heap, send, mars>>
      /\ messageId' = Incremented(id) /\ send[NetThread].pc = "idle"
  BY DEF OnPushListener, Busy, HandlerOwns, InCallback
<1>2. Reserved' = Reserved /\ Allocated' = Allocated /\ Allocated \subseteq Ctx
  BY <1>1 DEF Reserved, Allocated
<1>3. /\ Reserved \in Nat /\ Reserved < IdSpace /\ IdSpace \in Nat
      /\ id \in Ids /\ Rank(id) \in Nat
      /\ \A c \in Ctx : Rank(heap[c].id) \in Nat
      /\ \A t \in Threads : Rank(send[t].id) \in Nat
  BY IdsType DEF Threads
<1>4. /\ \A c \in Allocated : Rank(heap[c].id) <= Rank(id)
      /\ \A t \in AppThreads : send[t].pc = "increment" => Rank(send[t].id) <= Rank(id)
      /\ Rank(id) + 1 <= Reserved /\ mars.pushes > 0
  BY <1>1 DEF IdsInv
<1>5. Rank(messageId') = Rank(id) + 1
  BY <1>1, <1>3, <1>4, NextRank
<1> HIDE DEF id
<1>6. \A t \in Threads : send[t].pc = "increment" => t \in AppThreads
  BY <1>1 DEF Threads
<1> QED  BY <1>1, <1>2, <1>3, <1>4, <1>5, <1>6 DEF IdsInv, Rank

\* Ids stay unique while one activation of sendMessage runs at a time.
LEMMA IdsStep ==
  ASSUME TypeOK, Core, IdsInv, Serial, Single, [Next]_vars
  PROVE  IdsInv'
<1>1. ASSUME NEW t \in Threads, StoreLock(t) \/ StoreContext(t) \/ StartTask(t) PROVE IdsInv'
  <2>1. UNCHANGED <<messageId, heap, net, mars>>
    BY <1>1 DEF StoreLock, StoreContext, StartTask, shared
  <2>2. /\ \A u \in Threads : send'[u].id = send[u].id
        /\ \A u \in Threads : send'[u].pc = "increment" => send[u].pc = "increment"
    <3>1. CASE StoreLock(t)
      BY <3>1 DEF StoreLock, TypeOK, Activation
    <3>2. CASE StoreContext(t)
      BY <3>2 DEF StoreContext, TypeOK, Activation
    <3>3. CASE StartTask(t)
      BY <3>3 DEF StartTask, TypeOK, Activation
    <3> QED  BY <1>1, <3>1, <3>2, <3>3
  <2>3. NetThread \in Threads
    BY DEF Threads
  <2>4. TakesNoId
    BY <2>1, <2>2, <2>3 DEF TakesNoId
  <2> QED  BY <2>4, IdsFrame
<1>2. ASSUME UNCHANGED <<messageId, heap, send>>, mars'.pushes = mars.pushes,
             net'.pc \notin {"increment", "onPush"}
      PROVE  IdsInv'
  <2>1. TakesNoId
    BY <1>2 DEF TakesNoId
  <2> QED  BY <2>1, IdsFrame
<1>3. CASE \/ \E c \in Ctx : Req2Buf(c) \/ OnTaskEnd(c)
           \/ FinalReturn \/ EraseLock \/ EraseContext
           \/ BuildEchatTcpMsg \/ Buf2RespReturn \/ OnPushReturn
  <2>1. UNCHANGED <<messageId, heap, send>> /\ mars'.pushes = mars.pushes
    BY <1>3 DEF Req2Buf, OnTaskEnd, FinalReturn, EraseLock, EraseContext, BuildEchatTcpMsg,
       Buf2RespReturn, OnPushReturn, shared, TypeOK, Library
  <2>2. net'.pc \notin {"increment", "onPush"}
    BY <1>3 DEF Req2Buf, OnTaskEnd, FinalReturn, EraseLock, EraseContext, BuildEchatTcpMsg,
       Buf2RespReturn, OnPushReturn, Busy, Idle
  <2> QED  BY <1>2, <2>1, <2>2
<1>4. ASSUME NEW c \in Ctx, NEW m \in Ctx, Buf2Resp(c, m) PROVE IdsInv'
  <2>1. UNCHANGED <<messageId, heap, send>> /\ mars'.pushes = mars.pushes
    BY <1>4 DEF Buf2Resp, shared, TypeOK, Library
  <2>2. net'.pc \notin {"increment", "onPush"}
    BY <1>4 DEF Buf2Resp, Busy
  <2> QED  BY <1>2, <2>1, <2>2
<1>5. CASE RemoveLookup \/ DeleteContext
  <2>1. /\ UNCHANGED <<messageId, send, mars>> /\ net'.pc \notin {"increment", "onPush"}
        /\ net.pc \in {"remove", "delete"}
    BY <1>5 DEF RemoveLookup, DeleteContext, shared, Busy, Idle
  <2>2. CASE RemoveLookup
    <3>1. PICK found : \/ UNCHANGED heap
                       \/ heap' = [heap EXCEPT ![found].msg = "deleted"]
      BY <2>2 DEF RemoveLookup
    <3>2. \A c \in Ctx : heap'[c].ctx = heap[c].ctx /\ heap'[c].id = heap[c].id
      <4>1. heap \in [Ctx -> Objects]
        BY DEF TypeOK
      <4>2. ASSUME NEW c \in Ctx
            PROVE  heap'[c] = heap[c] \/ heap'[c] = [heap[c] EXCEPT !.msg = "deleted"]
        BY <3>1, <4>1
      <4> QED  BY <4>1, <4>2 DEF Objects
    <3>3. TakesNoId
      BY <2>1, <3>2 DEF TakesNoId
    <3> QED  BY <3>3, IdsFrame
  <2>3. CASE DeleteContext
    <3>1. \A c \in Ctx : heap'[c].id = heap[c].id
      BY <2>3 DEF DeleteContext, TypeOK, Objects
    <3>2. \A c \in Ctx : \/ heap'[c].ctx = heap[c].ctx
                         \/ heap[c].ctx = "live" /\ heap'[c].ctx = "deleted" /\ net.pc = "delete"
      BY <2>3 DEF DeleteContext, TypeOK, Objects, MemorySafe, HandlerLive
    <3>3. TakesNoId
      BY <2>1, <3>1, <3>2 DEF TakesNoId
    <3> QED  BY <3>3, IdsFrame
  <2> QED  BY <1>5, <2>2, <2>3
<1>6. CASE MarsStep \/ UNCHANGED vars
  <2>1. UNCHANGED <<messageId, heap, send, net>> /\ mars'.pushes = mars.pushes
    BY <1>6 DEF MarsStep, TaskRetry, TaskFail, DropReply, Reset, RedoTasks, Control, vars, shared,
       TypeOK, Library
  <2>2. TakesNoId
    BY <2>1 DEF TakesNoId
  <2> QED  BY <2>2, IdsFrame
<1> QED
  BY <1>1, <1>3, <1>4, <1>5, <1>6, IdsBegin, IdsFill, IdsOnPush, IdsOnPushListener
  DEF Next, SendStep, NetStep, AllQuiet, Serial

\* Unique ids are a part of it.
LEMMA IdsUnique == IdsInv => UniqueIds
BY DEF IdsInv, UniqueIds, Allocated

-----------------------------------------------------------------------------
(* What a listener has heard.                                               *)

Building(c)   == net.task = c /\ net.pc = "build"
Responding(c) == net.task = c /\ net.pc = "onResponse"
Finishing(c)  == net.task = c /\ net.pc \in {"onFinal", "remove", "lock", "erase", "delete"}

Outcomes == {<<"error">>, <<"response", "success">>}

\* The state of its task says what the listener of c was told.
StoryOf(c) ==
  /\ heard[c] # <<>> => heap[c].listener
  /\ task[c] \in {"none", "queued", "sent"} =>
       heard[c] = IF Responding(c) THEN <<"response">> ELSE <<>>
  /\ task[c] = "ok" =>
       heard[c] = IF Finishing(c) THEN <<"response", "success">> ELSE <<"response">>
  /\ task[c] = "failed" =>
       heard[c] = IF Finishing(c) /\ heap[c].listener THEN <<"error">> ELSE <<>>
  /\ task[c] = "ended" => heard[c] \in {<<>>, <<"response">>} \cup Outcomes
  /\ heap[c].ctx = "deleted" /\ heap[c].listener => heard[c] \in Outcomes
  /\ mars.replies[c] > 0 => heap[c].ctx # "unborn"
  /\ Building(c) => task[c] = "queued"
  /\ Responding(c) => task[c] = "sent"
  /\ Finishing(c) => task[c] \in {"ok", "failed"}

\* mars hears of a request last.
Unsent == \A t \in Threads : send[t].pc # "idle" => task[send[t].ctx] = "none"

\* Req2Buf hands out the bytes of its own task's message.
BuildsItsOwn == net.pc = "build" => net.ctx = net.task

Story == Unsent /\ BuildsItsOwn /\ \A c \in Ctx : StoryOf(c)

\* A step that is not about c.
SameStory(c) ==
  /\ heard'[c] = heard[c] /\ task'[c] = task[c]
  /\ heap'[c].listener = heap[c].listener
  /\ heap'[c].ctx = heap[c].ctx \/ heap'[c].ctx = "live"
  /\ mars'.replies[c] > 0 => mars.replies[c] > 0
  /\ Building(c)' = Building(c) /\ Responding(c)' = Responding(c) /\ Finishing(c)' = Finishing(c)

\* A step that leaves a request and its handlers alone leaves its story true.
LEMMA StoryFrame == ASSUME NEW c \in Ctx, StoryOf(c), SameStory(c) PROVE StoryOf(c)'
BY DEF StoryOf, SameStory

\* Its listener is told at most twice.
LEMMA AppendPair == ASSUME NEW x, NEW y PROVE Append(<<x>>, y) = <<x, y>>
<1> DEFINE S == {x, y}
<1>1. <<x>> \in Seq(S) /\ <<x, y>> \in Seq(S)
  OBVIOUS
<1>2. /\ Append(<<x>>, y) \in Seq(S) /\ Len(Append(<<x>>, y)) = 2
      /\ Append(<<x>>, y)[1] = x /\ Append(<<x>>, y)[2] = y
  BY <1>1, AppendProperties
<1>3. Len(<<x, y>>) = 2 /\ <<x, y>>[1] = x /\ <<x, y>>[2] = y
  OBVIOUS
<1>4. \A i \in 1 .. 2 : Append(<<x>>, y)[i] = <<x, y>>[i]
  BY <1>2, <1>3
<1> HIDE DEF S
<1> QED  BY <1>1, <1>2, <1>3, <1>4, SeqEqual, Zenon

\* What a listener has heard after its first call and after its second.
LEMMA Said ==
  /\ Append(<<>>, "response") = <<"response">>
  /\ Append(<<>>, "error") = <<"error">>
  /\ Append(<<"response">>, "success") = <<"response", "success">>
<1>1. \A x : Append(<<>>, x) = <<x>>
  OBVIOUS
<1> QED  BY <1>1, AppendPair, Zenon

\* The handlers find the context of their own task or none.
LEMMA FindsItsOwn ==
  ASSUME TypeOK, Core, IdsInv, NEW c \in Ctx, heap[c].ctx # "unborn",
         NEW found \in Lookup(heap[c].id), found # NoCtx, net.pc \notin {"lock", "erase"}
  PROVE  found = c /\ heap[c].ctx = "live" /\ heap[c].msg = "live"
<1>1. heap[c].id \in Ids
  BY DEF TypeOK, Objects
<1>2. /\ found \in Ctx /\ heap[found].ctx = "live" /\ heap[found].msg = "live"
      /\ heap[found].id = heap[c].id
  BY <1>1, FoundIsLive
<1> QED  BY <1>2 DEF IdsInv, Allocated

\* What removeTaskContext removes is its own task's context.
LEMMA RemovesItsOwn ==
  ASSUME TypeOK, Core, IdsInv, net.pc \in {"lock", "erase", "delete"}
  PROVE  net.task \in Ctx /\ net.ctx = net.task
<1>1. net.task \in Ctx /\ heap[net.task].ctx # "unborn" /\ net.ctx \in Ctx
  BY DEF HandlerOwns, HandlerHasTask
<1>2. heap[net.ctx].ctx # "unborn" /\ heap[net.ctx].id = heap[net.task].id
  BY DEF HandlerOwns, MemorySafe, HandlerLive
<1> QED  BY <1>1, <1>2 DEF IdsInv, Allocated

\* sendMessage tells nobody anything.
LEMMA StorySend ==
  ASSUME TypeOK, Core, Single, Story, NEW t \in Threads,
         SendStep(t) \/ \E c \in Ctx, l \in BOOLEAN : BeginSend(t, c, l)
  PROVE  Story'
<1>1. UNCHANGED <<net, mars, heard>>
  BY DEF SendStep, BeginSend, FillContext, StoreLock, StoreContext, StartTask, shared
<1>2. \A c \in Ctx : Building(c)' = Building(c) /\ Responding(c)' = Responding(c)
                    /\ Finishing(c)' = Finishing(c)
  BY <1>1 DEF Building, Responding, Finishing
<1> BuildsItsOwn'
  BY <1>1 DEF Story, BuildsItsOwn
<1>3. ASSUME NEW c \in Ctx, NEW l \in BOOLEAN, BeginSend(t, c, l) PROVE Story'
  <2>1. /\ heap'[c].listener = l /\ heap[c].msg = "unborn" /\ task' = task
        /\ \A d \in Ctx : heap'[d].ctx = heap[d].ctx
        /\ \A d \in Ctx : d # c => heap'[d].listener = heap[d].listener
    BY <1>3 DEF BeginSend, TypeOK, Objects
  <2>2. heap[c].ctx = "unborn" /\ task[c] = "none"
    BY <2>1 DEF StoredUnderId
  <2>3. heard[c] = <<>> /\ StoryOf(c)'
    BY <1>1, <1>2, <2>1, <2>2 DEF Story, StoryOf
  <2>4. \A d \in Ctx : d # c => SameStory(d)
    BY <1>1, <1>2, <2>1 DEF SameStory
  <2>5. /\ send'[t].ctx = c
        /\ \A u \in Threads : u # t => send'[u] = send[u]
    BY <1>3 DEF BeginSend, TypeOK
  <2>6. Unsent'
    BY <2>1, <2>2, <2>5 DEF Unsent, Story
  <2> QED  BY <2>3, <2>4, <2>6, StoryFrame DEF Story
<1>4. CASE FillContext(t)
  <2>1. /\ \A d \in Ctx : heap'[d].listener = heap[d].listener
        /\ \A d \in Ctx : heap'[d].ctx = heap[d].ctx \/ heap'[d].ctx = "live"
        /\ task' = task
    BY <1>4 DEF FillContext, TypeOK, Objects
  <2>2. \A d \in Ctx : SameStory(d)
    BY <1>1, <1>2, <2>1 DEF SameStory
  <2>3. \A u \in Threads : send'[u].pc # "idle" => send[u].pc # "idle" /\ send'[u].ctx = send[u].ctx
    BY <1>4 DEF FillContext, TypeOK, Activation
  <2>4. Unsent'
    BY <2>1, <2>3 DEF Unsent, Story
  <2> QED  BY <2>2, <2>4, StoryFrame DEF Story
<1>5. CASE StoreLock(t) \/ StoreContext(t)
  <2>1. UNCHANGED <<heap, task>>
    BY <1>5 DEF StoreLock, StoreContext
  <2>2. \A d \in Ctx : SameStory(d)
    BY <1>1, <1>2, <2>1 DEF SameStory
  <2>3. \A u \in Threads : send'[u].pc # "idle" => send[u].pc # "idle" /\ send'[u].ctx = send[u].ctx
    <3>1. CASE StoreLock(t)
      BY <3>1 DEF StoreLock, TypeOK, Activation
    <3>2. CASE StoreContext(t)
      BY <3>2 DEF StoreContext, TypeOK, Activation
    <3> QED  BY <1>5, <3>1, <3>2
  <2>4. Unsent'
    BY <2>1, <2>3 DEF Unsent, Story
  <2> QED  BY <2>2, <2>4, StoryFrame DEF Story
<1>6. CASE StartTask(t)
  <2>0. PICK c : c = send[t].ctx
    OBVIOUS
  <2>1. /\ send[t].pc = "start" /\ c \in Ctx /\ heap' = heap
        /\ heap[c].ctx # "unborn" /\ task[c] = "none"
    BY <1>6, <2>0 DEF StartTask, SendersOwn, StoredUnderId, Story, Unsent
  <2>2. task'[c] = "queued" /\ \A d \in Ctx : d # c => task'[d] = task[d]
    BY <1>6, <2>0, <2>1 DEF StartTask, TypeOK
  <2>3. \A u \in Threads : send'[u].pc = "idle"
    BY <1>6, <2>1 DEF StartTask, TypeOK, Activation, Single
  <2>4. StoryOf(c)'
    BY <1>1, <1>2, <2>1, <2>2 DEF Story, StoryOf
  <2>5. \A d \in Ctx : d # c => SameStory(d)
    BY <1>1, <1>2, <2>1, <2>2 DEF SameStory
  <2>6. Unsent'
    BY <2>3 DEF Unsent
  <2> QED  BY <2>4, <2>5, <2>6, StoryFrame DEF Story
<1> QED  BY <1>3, <1>4, <1>5, <1>6 DEF SendStep

\* Nor does mars between two handlers.
LEMMA StoryMars ==
  ASSUME TypeOK, Core, Story, MarsStep \/ UNCHANGED vars
  PROVE  Story'
<1>1. UNCHANGED <<heap, send, net, heard>>
  BY DEF MarsStep, TaskRetry, TaskFail, DropReply, Reset, RedoTasks, Control, vars, shared
<1>2. \A c \in Ctx : Building(c)' = Building(c) /\ Responding(c)' = Responding(c)
                    /\ Finishing(c)' = Finishing(c)
  BY <1>1 DEF Building, Responding, Finishing
<1>3. \A c \in Ctx : mars'.replies[c] > 0 => mars.replies[c] > 0
  <2>1. mars \in Library
    BY DEF TypeOK
  <2>2. ASSUME NEW m \in Ctx, DropReply(m)
        PROVE  \A c \in Ctx : mars'.replies[c] > 0 => mars.replies[c] > 0
    BY <2>1, <2>2 DEF DropReply, Library
  <2>3. ASSUME mars'.replies = mars.replies
        PROVE  \A c \in Ctx : mars'.replies[c] > 0 => mars.replies[c] > 0
    BY <2>3
  <2>4. (\E m \in Ctx : DropReply(m)) \/ mars'.replies = mars.replies
    BY <2>1 DEF MarsStep, TaskRetry, TaskFail, Reset, RedoTasks, Control, vars, Library
  <2> QED  BY <2>2, <2>3, <2>4
<1>4. ASSUME NEW c \in Ctx
      PROVE  \/ task'[c] = task[c]
             \/ /\ net.pc = "idle" /\ task[c] \in {"queued", "sent"}
                /\ task'[c] \in {"queued", "failed"}
  BY DEF MarsStep, TaskRetry, TaskFail, DropReply, Reset, RedoTasks, Control, vars, TypeOK
<1>5. Unsent'
  BY <1>1, <1>4 DEF Unsent, Story, SendersOwn
<1> BuildsItsOwn'
  BY <1>1 DEF Story, BuildsItsOwn
<1>6. ASSUME NEW c \in Ctx PROVE StoryOf(c)'
  <2>1. CASE task'[c] = task[c]
    <3>1. SameStory(c)
      BY <1>1, <1>2, <1>3, <2>1 DEF SameStory
    <3> QED  BY <3>1, StoryFrame DEF Story
  <2>2. CASE /\ net.pc = "idle" /\ task[c] \in {"queued", "sent"}
             /\ task'[c] \in {"queued", "failed"}
    <3>1. ~ Building(c) /\ ~ Responding(c) /\ ~ Finishing(c)
      BY <2>2 DEF Building, Responding, Finishing
    <3>2. StoryOf(c)
      BY DEF Story
    <3>3. heard[c] = <<>>
      BY <2>2, <3>1, <3>2 DEF StoryOf
    <3> QED  BY <1>1, <1>2, <1>3, <2>2, <3>1, <3>2, <3>3 DEF StoryOf
  <2> QED  BY <1>4, <2>1, <2>2
<1> QED  BY <1>5, <1>6 DEF Story

\* While no handler runs, or one for c, a handler that goes on for c says
\* nothing to the others.
LEMMA OthersStory ==
  ASSUME NEW c \in Ctx, net.pc = "idle" \/ net.task = c, net'.pc = "idle" \/ net'.task = c,
         \A d \in Ctx : d # c =>
           /\ heard'[d] = heard[d] /\ task'[d] = task[d]
           /\ heap'[d].listener = heap[d].listener /\ heap'[d].ctx = heap[d].ctx
           /\ mars'.replies[d] = mars.replies[d]
  PROVE  \A d \in Ctx : d # c => SameStory(d)
BY DEF SameStory, Building, Responding, Finishing

\* The handlers tell what they are to tell.
LEMMA StoryNet ==
  ASSUME TypeOK, Core, IdsInv, Story, NetStep
  PROVE  Story'
<1>0. /\ heap \in [Ctx -> Objects] /\ task \in [Ctx -> TaskStates] /\ mars \in Library
      /\ heard \in [Ctx -> Seq(Callbacks)]
      /\ net.pc \notin {"idle", "increment", "onPush"} => net.task \in Ctx
      /\ \A c \in Ctx : task[c] # "none" => heap[c].ctx # "unborn"
      /\ NoCtx \notin Ctx
  BY ConstantsAssumption DEF TypeOK, HandlerOwns, HandlerHasTask, StoredUnderId
<1>1. ASSUME NEW c \in Ctx, task[c] # "none", StoryOf(c)', send' = send, BuildsItsOwn',
             net.pc = "idle" \/ net.task = c, net'.pc = "idle" \/ net'.task = c,
             \A d \in Ctx : d # c =>
               /\ heard'[d] = heard[d] /\ task'[d] = task[d]
               /\ heap'[d].listener = heap[d].listener /\ heap'[d].ctx = heap[d].ctx
               /\ mars'.replies[d] = mars.replies[d]
      PROVE  Story'
  <2>1. \A d \in Ctx : d # c => SameStory(d)
    BY <1>1, OthersStory
  <2>2. \A d \in Ctx : d # c => StoryOf(d)'
    BY <2>1, StoryFrame DEF Story
  <2>3. Unsent'
    BY <1>1 DEF Unsent, Story, SendersOwn
  <2> QED  BY <1>1, <2>2, <2>3 DEF Story
<1>2. ASSUME NEW c \in Ctx, Req2Buf(c) PROVE Story'
  <2>1. /\ net.pc = "idle" /\ task[c] = "queued" /\ UNCHANGED <<heap, send, mars, heard>>
        /\ StoryOf(c) /\ heap[c].ctx # "unborn"
    BY <1>0, <1>2 DEF Req2Buf, Story, shared
  <2>2. /\ \A d \in Ctx : d # c => task'[d] = task[d]
        /\ \/ task'[c] = "failed" /\ net' = net
           \/ task'[c] = "queued" /\ net'.pc = "build" /\ net'.task = c /\ net'.ctx = c
    <3>1. PICK found \in Lookup(heap[c].id) :
            IF found = NoCtx THEN task' = [task EXCEPT ![c] = "failed"] /\ UNCHANGED net
                             ELSE Busy("build", c, found) /\ UNCHANGED task
      BY <1>2 DEF Req2Buf
    <3>2. found # NoCtx => found = c
      BY <2>1, FindsItsOwn
    <3> QED  BY <1>0, <2>1, <3>1, <3>2 DEF Busy
  <2>3. heard[c] = <<>>
    BY <2>1 DEF StoryOf, Responding
  <2>4. StoryOf(c)' /\ BuildsItsOwn'
    BY <2>1, <2>2, <2>3 DEF StoryOf, Building, Responding, Finishing, BuildsItsOwn
  <2> QED  BY <1>1, <2>1, <2>2, <2>4
<1>3. CASE BuildEchatTcpMsg
  <2>1. PICK c \in Ctx : c = net.task
    BY <1>0, <1>3 DEF BuildEchatTcpMsg
  <2>2. /\ net.pc = "build" /\ net'.pc = "idle" /\ UNCHANGED <<heap, send, heard>>
        /\ StoryOf(c) /\ task[c] = "queued" /\ net.ctx = c
    BY <1>3, <2>1 DEF BuildEchatTcpMsg, Idle, Busy, Story, StoryOf, Building, BuildsItsOwn, shared
  <2>3. task'[c] = "sent" /\ \A d \in Ctx : d # c => task'[d] = task[d]
    BY <1>0, <1>3, <2>1 DEF BuildEchatTcpMsg
  <2>4. heard[c] = <<>>
    BY <2>2 DEF StoryOf, Responding
  <2>5. \A d \in Ctx : d # c => mars'.replies[d] = mars.replies[d]
    BY <1>0, <1>3, <2>2 DEF BuildEchatTcpMsg, Library
  <2>6. StoryOf(c)' /\ BuildsItsOwn'
    BY <1>0, <2>2, <2>3, <2>4 DEF StoryOf, Building, Responding, Finishing, BuildsItsOwn
  <2> QED  BY <1>1, <2>1, <2>2, <2>3, <2>5, <2>6
<1>4. ASSUME NEW c \in Ctx, NEW m \in Ctx, Buf2Resp(c, m) PROVE Story'
  <2>1. /\ net.pc = "idle" /\ task[c] = "sent" /\ UNCHANGED <<heap, send>>
        /\ StoryOf(c) /\ heap[c].ctx # "unborn"
    BY <1>0, <1>4 DEF Buf2Resp, Story, shared
  <2>2. m = c
    BY <1>4, <2>1 DEF Buf2Resp, Story, StoryOf, IdsInv, Allocated
  <2>3. heard[c] = <<>>
    BY <2>1 DEF StoryOf, Responding
  <2>4. PICK found \in Lookup(heap[c].id) :
          IF found # NoCtx /\ heap[found].listener
          THEN /\ Tell(found, IF found = m THEN "response" ELSE "foreign")
               /\ Busy("onResponse", c, found)
               /\ mars' = [mars EXCEPT !.replies[m] = @ - 1]
               /\ UNCHANGED task
          ELSE /\ task' = [task EXCEPT ![c] = NextTry(c)]
               /\ mars' = [mars EXCEPT !.replies[m] = @ - 1, !.tries[c] = TriesLeft(c)]
               /\ UNCHANGED <<net, heard>>
    BY <1>4 DEF Buf2Resp
  <2>5. found # NoCtx => found = c /\ heap[c].ctx = "live"
    BY <2>1, <2>4, FindsItsOwn
  <2>6. \A d \in Ctx : d # c => mars'.replies[d] = mars.replies[d]
    <3>1. mars'.replies = [mars.replies EXCEPT ![c] = @ - 1]
      BY <1>0, <2>2, <2>4 DEF Library
    <3> QED  BY <1>0, <3>1 DEF Library
  <2>7. CASE found # NoCtx /\ heap[found].listener
    <3>1. /\ heap[c].listener /\ task' = task /\ heap[c].ctx = "live"
          /\ net'.pc = "onResponse" /\ net'.task = c /\ Tell(c, "response")
      BY <2>2, <2>4, <2>5, <2>7 DEF Busy
    <3>2. heard'[c] = <<"response">> /\ \A d \in Ctx : d # c => heard'[d] = heard[d]
      BY <1>0, <2>3, <3>1, Said DEF Tell
    <3>3. StoryOf(c)' /\ BuildsItsOwn'
      BY <2>1, <3>1, <3>2 DEF StoryOf, Building, Responding, Finishing, BuildsItsOwn
    <3> QED  BY <1>1, <2>1, <2>6, <3>1, <3>2, <3>3
  <2>8. CASE ~(found # NoCtx /\ heap[found].listener)
    <3>1. /\ net' = net /\ heard' = heard /\ task'[c] \in {"queued", "failed"}
          /\ \A d \in Ctx : d # c => task'[d] = task[d]
      BY <1>0, <2>4, <2>8 DEF NextTry
    <3>2. StoryOf(c)' /\ BuildsItsOwn'
      BY <2>1, <2>3, <3>1 DEF StoryOf, Building, Responding, Finishing, BuildsItsOwn
    <3> QED  BY <1>1, <2>1, <2>6, <3>1, <3>2
  <2> QED  BY <2>7, <2>8
<1>5. CASE Buf2RespReturn
  <2>1. PICK c \in Ctx : c = net.task
    BY <1>0, <1>5 DEF Buf2RespReturn
  <2>2. /\ net.pc = "onResponse" /\ net'.pc = "idle" /\ UNCHANGED <<heap, send, mars, heard>>
        /\ StoryOf(c) /\ task[c] = "sent"
    BY <1>5, <2>1 DEF Buf2RespReturn, Idle, Busy, Story, StoryOf, Responding, shared
  <2>3. task'[c] = "ok" /\ \A d \in Ctx : d # c => task'[d] = task[d]
    BY <1>0, <1>5, <2>1 DEF Buf2RespReturn
  <2>4. heard[c] = <<"response">>
    BY <2>1, <2>2 DEF StoryOf, Responding
  <2>5. StoryOf(c)' /\ BuildsItsOwn'
    BY <2>2, <2>3, <2>4 DEF StoryOf, Building, Responding, Finishing, BuildsItsOwn
  <2> QED  BY <1>1, <2>1, <2>2, <2>3, <2>5
<1>6. ASSUME NEW c \in Ctx, OnTaskEnd(c) PROVE Story'
  <2>1. /\ net.pc = "idle" /\ task[c] \in {"ok", "failed"} /\ UNCHANGED <<heap, send, mars>>
        /\ StoryOf(c) /\ heap[c].ctx # "unborn"
    BY <1>0, <1>6 DEF OnTaskEnd, Story, shared
  <2>2. heard[c] = IF task[c] = "ok" THEN <<"response">> ELSE <<>>
    BY <2>1 DEF StoryOf, Finishing
  <2>3. PICK found \in Lookup(heap[c].id) :
          IF found = NoCtx
          THEN Ended(c) /\ UNCHANGED <<net, heard>>
          ELSE /\ Tell(found, IF task[c] = "ok" THEN "success" ELSE "error")
               /\ Busy(IF heap[found].listener THEN "onFinal" ELSE "remove", c, NoCtx)
               /\ UNCHANGED task
    BY <1>6 DEF OnTaskEnd
  <2>4. found # NoCtx => found = c /\ heap[c].ctx = "live"
    BY <2>1, <2>3, FindsItsOwn
  <2>5. CASE found = NoCtx
    <3>1. /\ net' = net /\ heard' = heard /\ task'[c] = "ended"
          /\ \A d \in Ctx : d # c => task'[d] = task[d]
      BY <1>0, <2>3, <2>5 DEF Ended
    <3>2. StoryOf(c)' /\ BuildsItsOwn'
      BY <2>1, <2>2, <3>1 DEF StoryOf, Building, Responding, Finishing, BuildsItsOwn, Outcomes
    <3> QED  BY <1>1, <2>1, <3>1, <3>2
  <2>6. CASE found # NoCtx
    <3>1. /\ task' = task /\ heap[c].ctx = "live"
          /\ net'.pc \in {"onFinal", "remove"} /\ net'.task = c
          /\ Tell(c, IF task[c] = "ok" THEN "success" ELSE "error")
      BY <2>3, <2>4, <2>6 DEF Busy
    <3>2. /\ task[c] = "ok" => heap[c].listener /\ heard'[c] = <<"response", "success">>
          /\ task[c] = "failed" => heard'[c] = IF heap[c].listener THEN <<"error">> ELSE <<>>
          /\ \A d \in Ctx : d # c => heard'[d] = heard[d]
      <4>1. task[c] = "ok" => heap[c].listener
        BY <2>1, <2>2 DEF StoryOf
      <4> QED  BY <1>0, <2>1, <2>2, <3>1, <4>1, Said DEF Tell
    <3>3. StoryOf(c)' /\ BuildsItsOwn'
      BY <2>1, <3>1, <3>2 DEF StoryOf, Building, Responding, Finishing, BuildsItsOwn
    <3> QED  BY <1>1, <2>1, <3>1, <3>2, <3>3
  <2> QED  BY <2>5, <2>6
<1>7. CASE FinalReturn \/ EraseLock \/ EraseContext
  <2>1. PICK c \in Ctx : c = net.task
    BY <1>0, <1>7 DEF FinalReturn, EraseLock, EraseContext
  <2>2. /\ UNCHANGED <<heap, send, task, mars, heard>> /\ StoryOf(c)
        /\ net.pc \in {"onFinal", "lock", "erase"} /\ net'.pc \in {"remove", "erase", "delete"}
        /\ net'.task = c
    BY <1>7, <2>1 DEF FinalReturn, EraseLock, EraseContext, Busy, Story, shared
  <2>3. StoryOf(c)' /\ BuildsItsOwn' /\ task[c] # "none"
    BY <2>1, <2>2 DEF StoryOf, Building, Responding, Finishing, BuildsItsOwn
  <2> QED  BY <1>1, <2>1, <2>2, <2>3
<1>8. CASE RemoveLookup
  <2>1. PICK c \in Ctx : c = net.task
    BY <1>0, <1>8 DEF RemoveLookup
  <2>2. /\ net.pc = "remove" /\ UNCHANGED <<send, mars, heard>>
        /\ StoryOf(c) /\ task[c] \in {"ok", "failed"}
    BY <1>8, <2>1 DEF RemoveLookup, Story, StoryOf, Finishing, shared
  <2>3. PICK found \in Lookup(heap[c].id) :
          IF found = NoCtx
          THEN Ended(c) /\ Idle /\ UNCHANGED heap
          ELSE /\ heap' = [heap EXCEPT ![found].msg = "deleted"]
               /\ Busy("lock", c, found)
               /\ UNCHANGED task
    BY <1>8, <2>1 DEF RemoveLookup
  <2>4. found # NoCtx => found = c /\ heap[c].ctx = "live"
    BY <1>0, <2>2, <2>3, FindsItsOwn
  <2>5. \A d \in Ctx : heap'[d].listener = heap[d].listener /\ heap'[d].ctx = heap[d].ctx
    BY <1>0, <2>3, <2>4 DEF Objects
  <2>6. CASE found = NoCtx
    <3>1. /\ task'[c] = "ended" /\ net'.pc = "idle"
          /\ \A d \in Ctx : d # c => task'[d] = task[d]
      BY <1>0, <2>3, <2>6 DEF Ended, Idle, Busy
    <3>2. StoryOf(c)' /\ BuildsItsOwn'
      BY <2>1, <2>2, <2>5, <3>1 DEF StoryOf, Building, Responding, Finishing, BuildsItsOwn, Outcomes
    <3> QED  BY <1>1, <2>1, <2>2, <2>5, <3>1, <3>2
  <2>7. CASE found # NoCtx
    <3>1. task' = task /\ net'.pc = "lock" /\ net'.task = c
      BY <2>3, <2>7 DEF Busy
    <3>2. StoryOf(c)' /\ BuildsItsOwn'
      BY <2>1, <2>2, <2>5, <3>1 DEF StoryOf, Building, Responding, Finishing, BuildsItsOwn
    <3> QED  BY <1>1, <2>1, <2>2, <2>5, <3>1, <3>2
  <2> QED  BY <2>6, <2>7
<1>9. CASE DeleteContext
  <2>1. PICK c \in Ctx : c = net.task /\ c = net.ctx
    BY <1>9, RemovesItsOwn DEF DeleteContext
  <2>2. /\ net.pc = "delete" /\ UNCHANGED <<send, mars, heard>> /\ net'.pc = "idle"
        /\ StoryOf(c) /\ task[c] \in {"ok", "failed"}
    BY <1>9, <2>1 DEF DeleteContext, Story, StoryOf, Finishing, shared, Idle, Busy
  <2>3. task'[c] = "ended" /\ \A d \in Ctx : d # c => task'[d] = task[d]
    BY <1>0, <1>9, <2>1 DEF DeleteContext, Ended
  <2>4. /\ heap'[c].ctx = "deleted" /\ heap'[c].listener = heap[c].listener
        /\ \A d \in Ctx : d # c => heap'[d] = heap[d]
    BY <1>0, <1>9, <2>1 DEF DeleteContext, Objects
  <2>5. heard[c] \in {<<>>, <<"response">>} \cup Outcomes
        /\ (heap[c].listener => heard[c] \in Outcomes)
    BY <2>1, <2>2 DEF StoryOf, Finishing, Outcomes
  <2>6. StoryOf(c)' /\ BuildsItsOwn'
    BY <2>1, <2>2, <2>3, <2>4, <2>5 DEF StoryOf, Building, Responding, Finishing, BuildsItsOwn
  <2> QED  BY <1>1, <2>1, <2>2, <2>3, <2>4, <2>6
<1>10. CASE OnPush \/ OnPushListener \/ OnPushReturn
  <2>1. /\ net.pc \in {"idle", "increment", "onPush"} /\ net'.pc \in {"idle", "increment", "onPush"}
        /\ UNCHANGED <<heap, task, heard>> /\ mars'.replies = mars.replies
    BY <1>0, <1>10 DEF OnPush, OnPushListener, OnPushReturn, Idle, Busy, shared, Library
  <2>2. \A d \in Ctx : SameStory(d)
    BY <2>1 DEF SameStory, Building, Responding, Finishing
  <2>3. \A t \in Threads : send'[t].pc = send[t].pc /\ send'[t].ctx = send[t].ctx
    <3>1. CASE OnPush
      BY <3>1 DEF OnPush, TypeOK, Activation
    <3>2. CASE OnPushListener \/ OnPushReturn
      BY <3>2 DEF OnPushListener, OnPushReturn, shared
    <3> QED  BY <1>10, <3>1, <3>2
  <2>4. Unsent' /\ BuildsItsOwn'
    BY <2>1, <2>3 DEF Unsent, Story, BuildsItsOwn
  <2> QED  BY <2>2, <2>4, StoryFrame DEF Story
<1> QED
  BY <1>2, <1>3, <1>4, <1>5, <1>6, <1>7, <1>8, <1>9, <1>10 DEF NetStep

-----------------------------------------------------------------------------
(* An application that sends when nothing is pending.                       *)

\* mars has the task and is not done with it.
Pending(c) == task[c] \notin {"none", "ended"}

InStore(c) == heap[c].ctx = "live" /\ taskId2TaskCtx[heap[c].id] = c

\* A task that mars has is in the store until removeTaskContext erases it, and
\* nothing is inserted meanwhile: no lookup misses.
QuietInv ==
  /\ \A t \in AppThreads : send[t].pc # "idle" =>
       net.pc \in {"idle", "increment", "onPush"} /\ \A c \in Ctx : ~ Pending(c)
  /\ \A c \in Ctx : Pending(c) =>
       heap[c].ctx = "live" /\ (InStore(c) \/ (net.pc = "delete" /\ net.task = c))
  /\ \A t \in Threads : send[t].pc = "start" => InStore(send[t].ctx)
  /\ \A c \in Ctx : heap[c].ctx = "deleted" => task[c] = "ended"
  /\ EndedIsReleased

\* One activation of sendMessage at a time stays one.
LEMMA SingleStep ==
  ASSUME TypeOK, Core, Single, Quiet => QuietInv, Serial, [Next]_vars
  PROVE  Single'
<1>0. NetThread \in Threads
  BY DEF Threads
<1>1. ASSUME \A t \in Threads : send'[t].pc # "idle" => send[t].pc # "idle"
      PROVE  Single'
  BY <1>0, <1>1 DEF Single
<1>2. ASSUME NEW t \in Threads, NEW c \in Ctx, NEW l \in BOOLEAN, BeginSend(t, c, l)
      PROVE  Single'
  <2>1. /\ \A u \in Threads : u # t => send'[u] = send[u]
        /\ t = NetThread => Nested
    BY <1>2 DEF BeginSend, MaySend, TypeOK
  <2>2. \A u \in Threads : send[u].pc = "idle"
    <3>1. CASE NothingPending
      BY <3>1 DEF NothingPending
    <3>2. CASE Quiet /\ ~ NothingPending
      BY <1>2, <3>2 DEF BeginSend, MaySend, InCallback, QuietInv, Threads
    <3>3. CASE OneSender
      <4>1. t # NetThread /\ send[t].pc = "idle" /\ send[NetThread].pc = "idle"
        BY <1>2, <2>1, <3>3 DEF BeginSend, OneSender, Single
      <4> QED  BY <3>3, <4>1 DEF OneSender, Threads
    <3> QED  BY <3>1, <3>2, <3>3 DEF Serial
  <2> QED  BY <1>0, <2>1, <2>2 DEF Single
<1>3. CASE \E t \in Threads : SendStep(t)
  BY <1>1, <1>3 DEF SendStep, FillContext, StoreLock, StoreContext, StartTask, TypeOK, Activation
<1>4. CASE OnPush
  BY <1>1, <1>4 DEF OnPush, TypeOK, Activation
<1>5. CASE (NetStep /\ ~ OnPush) \/ MarsStep \/ UNCHANGED vars
  <2>1. send' = send
    BY <1>5 DEF NetStep, Req2Buf, OnTaskEnd, Buf2Resp, BuildEchatTcpMsg, Buf2RespReturn,
       FinalReturn, RemoveLookup, EraseLock, EraseContext, DeleteContext, OnPushListener,
       OnPushReturn, MarsStep, TaskRetry, TaskFail, DropReply, Reset, RedoTasks, Control, vars,
       shared
  <2> QED  BY <1>1, <2>1
<1> QED  BY <1>2, <1>3, <1>4, <1>5 DEF Next, AllQuiet

\* No lookup misses a task that mars has.
LEMMA QuietFinds ==
  ASSUME TypeOK, Core, QuietInv, NEW c \in Ctx, Pending(c), net.pc # "delete",
         NEW found \in Lookup(heap[c].id)
  PROVE  found = c /\ found # NoCtx
<1>1. \A t \in AppThreads : send[t].pc = "idle"
  BY DEF QuietInv
<1>2. Lookup(heap[c].id) = {taskId2TaskCtx[heap[c].id]}
  BY <1>1 DEF Lookup
<1> QED  BY <1>2, ConstantsAssumption DEF QuietInv, InStore

\* A task that has a handler is one that mars has.
LEMMA HandledIsPending ==
  ASSUME TypeOK, HandlerOwns, Story, net.pc \notin {"idle", "increment", "onPush"}
  PROVE  net.task \in Ctx /\ Pending(net.task)
<1>1. net.task \in Ctx /\ net.pc \in NetPcs
  BY DEF HandlerOwns, HandlerHasTask, TypeOK, Handler
<1>2. Building(net.task) \/ Responding(net.task) \/ Finishing(net.task)
  BY <1>1 DEF Building, Responding, Finishing, NetPcs
<1> QED  BY <1>1, <1>2 DEF Story, StoryOf, Pending

\* Steps that neither store nor remove, nor end a task.
QuietKept ==
  /\ UNCHANGED <<taskId2TaskCtx, heap>>
  /\ \A t \in Threads : send'[t].pc # "idle" => send[t].pc # "idle"
  /\ \A t \in Threads : send'[t].pc = "start" => send[t].pc = "start" /\ send'[t].ctx = send[t].ctx
  /\ \A c \in Ctx : (Pending(c)' = Pending(c)) /\ ((task'[c] = "ended") = (task[c] = "ended"))
  /\ net'.pc \in {"idle", "increment", "onPush"} \/ \E c \in Ctx : Pending(c)
  /\ net.pc = "delete" => net' = net

\* A step that no rule of the quiet application is about keeps it quiet.
LEMMA QuietFrame == ASSUME TypeOK, Core, QuietInv, QuietKept PROVE QuietInv'
<1>1. AppThreads \subseteq Threads
  BY DEF Threads
<1>2. \A c \in Ctx : InStore(c)' = InStore(c)
  BY DEF QuietKept, InStore
<1>3. \A t \in Threads : send[t].pc # "idle" => send[t].ctx \in Ctx
  BY DEF SendersOwn
<1>4. \A t \in AppThreads : send'[t].pc # "idle" =>
        net'.pc \in {"idle", "increment", "onPush"} /\ \A c \in Ctx : ~ Pending(c)'
  BY <1>1 DEF QuietKept, QuietInv
<1>5. \A c \in Ctx : Pending(c)' =>
        heap'[c].ctx = "live" /\ (InStore(c)' \/ (net'.pc = "delete" /\ net'.task = c))
  BY <1>2 DEF QuietKept, QuietInv
<1>6. \A t \in Threads : send'[t].pc = "start" =>
        /\ heap'[send'[t].ctx].ctx = "live"
        /\ taskId2TaskCtx'[heap'[send'[t].ctx].id] = send'[t].ctx
  BY <1>2, <1>3 DEF QuietKept, QuietInv, InStore
<1>7. /\ \A c \in Ctx : heap'[c].ctx = "deleted" => task'[c] = "ended"
      /\ EndedIsReleased'
  BY DEF QuietKept, QuietInv, EndedIsReleased
<1> QED  BY <1>4, <1>5, <1>6, <1>7 DEF QuietInv, InStore

\* sendMessage of an application that waits.
LEMMA QuietSend ==
  ASSUME TypeOK, Core, IdsInv, Story, Single, QuietInv, Quiet, NEW t \in Threads,
         SendStep(t) \/ \E c \in Ctx, l \in BOOLEAN : BeginSend(t, c, l)
  PROVE  QuietInv'
<1>0. /\ AppThreads \subseteq Threads
      /\ \A u \in Threads : send[u].pc # "idle" => send[u].ctx \in Ctx
      /\ send[t].pc # "idle" => \A u \in Threads : u # t => send[u].pc = "idle"
      /\ net' = net
      /\ \A c \in Ctx : heap[c].id \in Ids
  BY DEF Threads, SendersOwn, Single, SendStep, BeginSend, FillContext, StoreLock, StoreContext,
     StartTask, TypeOK, Objects
<1>1. ASSUME NEW c \in Ctx, NEW l \in BOOLEAN, BeginSend(t, c, l) PROVE QuietInv'
  <2>1. /\ UNCHANGED <<taskId2TaskCtx, task>>
        /\ \A u \in Threads : u # t => send'[u] = send[u]
        /\ send'[t].pc = "increment"
    BY <1>1 DEF BeginSend, shared, TypeOK
  <2>2. /\ \A d \in Ctx : heap'[d].ctx = heap[d].ctx /\ heap'[d].id = heap[d].id
        /\ \A d \in Ctx : d # c => heap'[d].msg = heap[d].msg
        /\ heap[c].msg = "unborn"
    BY <1>1 DEF BeginSend, TypeOK, Objects
  <2>3. \A d \in Ctx : Pending(d)' = Pending(d) /\ InStore(d)' = InStore(d)
    BY <2>1, <2>2 DEF Pending, InStore
  <2>4. t \in AppThreads =>
          net.pc \in {"idle", "increment", "onPush"} /\ \A d \in Ctx : ~ Pending(d)
    <3>1. t \in AppThreads => NothingPending
      BY <1>1, ConstantsAssumption DEF BeginSend, MaySend
    <3>2. NothingPending => \A d \in Ctx : ~ Pending(d)
      BY DEF NothingPending, QuietInv
    <3> QED  BY <3>1, <3>2, HandledIsPending
  <2>5. EndedIsReleased' /\ \A d \in Ctx : heap'[d].ctx = "deleted" => task'[d] = "ended"
    BY <2>1, <2>2 DEF QuietInv, EndedIsReleased
  <2>6. \A u \in Threads : send'[u].pc = "start" => InStore(send[u].ctx)' /\ send'[u] = send[u]
    BY <1>0, <2>1, <2>3 DEF QuietInv
  <2> QED  BY <1>0, <2>1, <2>2, <2>3, <2>4, <2>5, <2>6 DEF QuietInv, InStore
<1>2. CASE FillContext(t)
  <2>0. PICK c : c = send[t].ctx
    OBVIOUS
  <2>1. /\ UNCHANGED <<taskId2TaskCtx, task>> /\ c \in Ctx
        /\ heap[c].ctx = "unborn" /\ send[t].pc = "increment"
        /\ \A u \in Threads : u # t => send'[u] = send[u]
        /\ send'[t].pc = "lock"
    BY <1>2, <2>0 DEF FillContext, SendersOwn, TypeOK, Activation
  <2>2. /\ \A d \in Ctx : heap'[d].msg = heap[d].msg
        /\ \A d \in Ctx : d # c => heap'[d] = heap[d]
        /\ heap'[c].ctx = "live"
    BY <1>2, <2>0, <2>1 DEF FillContext, TypeOK, Objects
  <2>3. task[c] = "none"
    BY <2>1 DEF StoredUnderId
  <2>4. \A d \in Ctx : d # c => Pending(d)' = Pending(d) /\ InStore(d)' = InStore(d)
    BY <2>1, <2>2 DEF Pending, InStore
  <2>5. ~ Pending(c)'
    BY <2>1, <2>3 DEF Pending
  <2>6. EndedIsReleased' /\ \A d \in Ctx : heap'[d].ctx = "deleted" => task'[d] = "ended"
    BY <2>1, <2>2, <2>3 DEF QuietInv, EndedIsReleased
  <2>7. \A u \in Threads : send'[u].pc # "start"
    BY <1>0, <2>1
  <2>8. t \in AppThreads =>
          net'.pc \in {"idle", "increment", "onPush"} /\ \A d \in Ctx : ~ Pending(d)'
    BY <1>0, <2>1, <2>4, <2>5 DEF QuietInv
  <2>9. \A d \in Ctx : Pending(d)' =>
          heap'[d].ctx = "live" /\ (InStore(d)' \/ (net'.pc = "delete" /\ net'.task = d))
    BY <1>0, <2>2, <2>4, <2>5 DEF QuietInv
  <2> QED  BY <1>0, <2>1, <2>6, <2>7, <2>8, <2>9 DEF QuietInv
<1>3. CASE StoreLock(t)
  <2>1. UNCHANGED <<taskId2TaskCtx, heap, task>>
    BY <1>3 DEF StoreLock
  <2>2. /\ \A u \in Threads : send'[u].pc # "idle" => send[u].pc # "idle"
        /\ \A u \in Threads : send'[u].pc = "start" => send[u].pc = "start" /\ send'[u].ctx = send[u].ctx
    BY <1>3 DEF StoreLock, TypeOK, Activation
  <2>3. net'.pc \in {"idle", "increment", "onPush"} \/ \E c \in Ctx : Pending(c)
    BY <1>0, HandledIsPending
  <2>4. QuietKept
    BY <1>0, <2>1, <2>2, <2>3 DEF QuietKept, Pending
  <2> QED  BY <2>4, QuietFrame
<1>4. CASE StoreContext(t)
  <2>0. PICK c : c = send[t].ctx
    OBVIOUS
  <2>1. /\ UNCHANGED <<heap, task>> /\ c \in Ctx /\ send[t].pc = "insert"
        /\ heap[c].ctx = "live" /\ heap[c].id = send[t].id /\ task[c] = "none"
    BY <1>0, <1>4, <2>0 DEF StoreContext, SendersOwn, MemorySafe, SenderLive, Story, Unsent
  <2>2. /\ taskId2TaskCtx'[heap[c].id] = c
        /\ \A i \in Ids : i # heap[c].id => taskId2TaskCtx'[i] = taskId2TaskCtx[i]
    BY <1>0, <1>4, <2>0, <2>1 DEF StoreContext, TypeOK
  <2>3. /\ \A u \in Threads : u # t => send'[u] = send[u]
        /\ send'[t].pc = "start" /\ send'[t].ctx = c
    BY <1>4, <2>0 DEF StoreContext, TypeOK, Activation
  <2>4. \A d \in Ctx : InStore(d) /\ d # c => InStore(d)'
    BY <1>0, <2>1, <2>2 DEF InStore, IdsInv, Allocated
  <2>5. InStore(c)' /\ \A d \in Ctx : Pending(d)' = Pending(d)
    BY <2>1, <2>2 DEF InStore, Pending
  <2>6. EndedIsReleased' /\ \A d \in Ctx : heap'[d].ctx = "deleted" => task'[d] = "ended"
    BY <2>1 DEF QuietInv, EndedIsReleased
  <2>7. \A u \in Threads : send'[u].pc = "start" => u = t
    BY <1>0, <2>1, <2>3
  <2>8. t \in AppThreads =>
          net'.pc \in {"idle", "increment", "onPush"} /\ \A d \in Ctx : ~ Pending(d)'
    BY <1>0, <2>1, <2>5 DEF QuietInv
  <2>9. \A d \in Ctx : Pending(d)' =>
          heap'[d].ctx = "live" /\ (InStore(d)' \/ (net'.pc = "delete" /\ net'.task = d))
    BY <1>0, <2>1, <2>4, <2>5 DEF QuietInv
  <2> QED  BY <1>0, <2>1, <2>3, <2>5, <2>6, <2>7, <2>8, <2>9 DEF QuietInv, InStore
<1>5. CASE StartTask(t)
  <2>0. PICK c : c = send[t].ctx
    OBVIOUS
  <2>1. /\ UNCHANGED <<taskId2TaskCtx, heap>> /\ c \in Ctx /\ send[t].pc = "start"
        /\ InStore(c) /\ task[c] = "none"
    BY <1>0, <1>5, <2>0 DEF StartTask, shared, QuietInv, Story, Unsent
  <2>2. task'[c] = "queued" /\ \A d \in Ctx : d # c => task'[d] = task[d]
    BY <1>5, <2>0, <2>1 DEF StartTask, TypeOK
  <2>3. \A u \in Threads : send'[u].pc = "idle"
    BY <1>0, <1>5, <2>1 DEF StartTask, TypeOK, Activation
  <2>4. \A d \in Ctx : InStore(d)' = InStore(d) /\ (d # c => Pending(d)' = Pending(d))
    BY <2>1, <2>2 DEF InStore, Pending
  <2>5. EndedIsReleased' /\ \A d \in Ctx : heap'[d].ctx = "deleted" => task'[d] = "ended"
    BY <2>1, <2>2 DEF QuietInv, EndedIsReleased, InStore
  <2>6. \A d \in Ctx : Pending(d)' =>
          heap'[d].ctx = "live" /\ (InStore(d)' \/ (net'.pc = "delete" /\ net'.task = d))
    BY <1>0, <2>1, <2>4 DEF QuietInv, InStore
  <2> QED  BY <1>0, <2>3, <2>5, <2>6 DEF QuietInv
<1> QED  BY <1>1, <1>2, <1>3, <1>4, <1>5 DEF SendStep

\* mars between two handlers.
LEMMA QuietMars ==
  ASSUME TypeOK, Core, Story, QuietInv, MarsStep \/ UNCHANGED vars
  PROVE  QuietInv'
<1>1. UNCHANGED <<taskId2TaskCtx, heap, send, net>>
  BY DEF MarsStep, TaskRetry, TaskFail, DropReply, Reset, RedoTasks, Control, vars, shared
<1>2. \A c \in Ctx : \/ task'[c] = task[c]
                     \/ task[c] \in {"queued", "sent"} /\ task'[c] \in {"queued", "failed"}
  BY DEF MarsStep, TaskRetry, TaskFail, DropReply, Reset, RedoTasks, Control, vars, TypeOK
<1>3. net'.pc \in {"idle", "increment", "onPush"} \/ \E c \in Ctx : Pending(c)
  BY <1>1, HandledIsPending
<1>4. QuietKept
  BY <1>1, <1>2, <1>3 DEF QuietKept, Pending
<1> QED  BY <1>4, QuietFrame

\* The handlers of an application that waits.
LEMMA QuietNet ==
  ASSUME TypeOK, Core, IdsInv, Story, QuietInv, NetStep
  PROVE  QuietInv'
<1>0. /\ heap \in [Ctx -> Objects] /\ task \in [Ctx -> TaskStates] /\ NoCtx \notin Ctx
      /\ net.pc \notin {"idle", "increment", "onPush"} => net.task \in Ctx /\ Pending(net.task)
      /\ \A c \in Ctx : heap[c].id \in Ids /\ (Pending(c) => heap[c].ctx # "unborn")
      /\ AppThreads \subseteq Threads /\ NetThread \in Threads
  BY ConstantsAssumption, HandledIsPending DEF TypeOK, Objects, Threads, StoredUnderId, Pending
<1>1. ASSUME NEW c \in Ctx, Pending(c), UNCHANGED <<taskId2TaskCtx, heap, send>>,
             task'[c] \notin {"none", "ended"}, \A d \in Ctx : d # c => task'[d] = task[d],
             net.pc # "delete"
      PROVE  QuietInv'
  <2>1. QuietKept
    BY <1>1 DEF QuietKept, Pending
  <2> QED  BY <2>1, QuietFrame
<1>2. ASSUME NEW c \in Ctx, Req2Buf(c) PROVE QuietInv'
  <2>1. /\ net.pc = "idle" /\ task[c] = "queued" /\ UNCHANGED <<taskId2TaskCtx, heap, send>>
        /\ task'[c] \in {"queued", "failed"} /\ \A d \in Ctx : d # c => task'[d] = task[d]
    BY <1>0, <1>2 DEF Req2Buf, shared
  <2> QED  BY <1>1, <2>1 DEF Pending
<1>3. ASSUME NEW c \in Ctx, NEW m \in Ctx, Buf2Resp(c, m) PROVE QuietInv'
  <2>1. /\ net.pc = "idle" /\ task[c] = "sent" /\ UNCHANGED <<taskId2TaskCtx, heap, send>>
        /\ task'[c] \in {"sent", "queued", "failed"} /\ \A d \in Ctx : d # c => task'[d] = task[d]
    BY <1>0, <1>3 DEF Buf2Resp, shared, NextTry
  <2> QED  BY <1>1, <2>1 DEF Pending
<1>4. CASE BuildEchatTcpMsg \/ Buf2RespReturn
  <2>1. PICK c \in Ctx : c = net.task /\ Pending(c)
    BY <1>0, <1>4 DEF BuildEchatTcpMsg, Buf2RespReturn
  <2>2. /\ net.pc # "delete" /\ UNCHANGED <<taskId2TaskCtx, heap, send>>
        /\ task'[c] \in {"sent", "ok"} /\ \A d \in Ctx : d # c => task'[d] = task[d]
    BY <1>0, <1>4, <2>1 DEF BuildEchatTcpMsg, Buf2RespReturn, shared
  <2> QED  BY <1>1, <2>1, <2>2
<1>5. ASSUME NEW c \in Ctx, OnTaskEnd(c) PROVE QuietInv'
  <2>1. /\ net.pc = "idle" /\ task[c] \in {"ok", "failed"} /\ Pending(c)
        /\ UNCHANGED <<taskId2TaskCtx, heap, send>>
    BY <1>5 DEF OnTaskEnd, shared, Pending
  <2>2. \A found \in Lookup(heap[c].id) : found # NoCtx
    BY <2>1, QuietFinds
  <2>3. task' = task
    BY <1>5, <2>2 DEF OnTaskEnd
  <2> QED  BY <1>1, <2>1, <2>3 DEF Pending
<1>6. CASE FinalReturn \/ EraseLock
  <2>1. PICK c \in Ctx : c = net.task /\ Pending(c)
    BY <1>0, <1>6 DEF FinalReturn, EraseLock
  <2>2. UNCHANGED <<taskId2TaskCtx, heap, send, task>> /\ net.pc # "delete"
    BY <1>6 DEF FinalReturn, EraseLock, shared
  <2> QED  BY <1>1, <2>1, <2>2 DEF Pending
<1>7. ASSUME net.pc \in {"remove", "erase", "delete"}
      PROVE  \A t \in Threads : send[t].pc = "idle"
  BY <1>0, <1>7 DEF QuietInv, HandlerOwns, InCallback, Threads
<1>8. CASE RemoveLookup
  <2>1. PICK c \in Ctx : c = net.task /\ Pending(c)
    BY <1>0, <1>8 DEF RemoveLookup
  <2>2. net.pc = "remove" /\ UNCHANGED <<taskId2TaskCtx, send>>
    BY <1>8 DEF RemoveLookup, shared
  <2>3. \A found \in Lookup(heap[c].id) : found = c /\ found # NoCtx
    BY <2>1, <2>2, QuietFinds
  <2>4. heap' = [heap EXCEPT ![c].msg = "deleted"] /\ UNCHANGED task
    BY <1>8, <2>1, <2>3 DEF RemoveLookup
  <2>5. /\ \A d \in Ctx : heap'[d].ctx = heap[d].ctx /\ heap'[d].id = heap[d].id
        /\ \A d \in Ctx : heap[d].msg = "deleted" => heap'[d].msg = "deleted"
    BY <1>0, <2>4 DEF Objects
  <2>6. \A d \in Ctx : Pending(d)' = Pending(d) /\ InStore(d)' = InStore(d)
    BY <2>2, <2>4, <2>5 DEF Pending, InStore
  <2>7. EndedIsReleased' /\ \A d \in Ctx : heap'[d].ctx = "deleted" => task'[d] = "ended"
    BY <2>4, <2>5 DEF QuietInv, EndedIsReleased
  <2>8. \A d \in Ctx : Pending(d)' => heap'[d].ctx = "live" /\ InStore(d)'
    BY <2>2, <2>5, <2>6 DEF QuietInv
  <2>9. \A u \in Threads : send'[u].pc = "idle"
    BY <1>7, <2>2
  <2> QED  BY <1>0, <2>7, <2>8, <2>9 DEF QuietInv
<1>9. CASE EraseContext
  <2>1. PICK c \in Ctx : c = net.task /\ c = net.ctx /\ Pending(c)
    BY <1>0, <1>9, RemovesItsOwn DEF EraseContext
  <2>2. /\ net.pc = "erase" /\ net'.pc = "delete" /\ net'.task = c /\ UNCHANGED <<heap, send, task>>
        /\ \A i \in Ids : i # heap[c].id => taskId2TaskCtx'[i] = taskId2TaskCtx[i]
    BY <1>0, <1>9, <2>1 DEF EraseContext, Busy, TypeOK
  <2>3. heap[c].ctx = "live"
    BY <2>1 DEF QuietInv
  <2>4. \A d \in Ctx : d # c /\ InStore(d) => InStore(d)'
    BY <1>0, <2>2, <2>3 DEF InStore, IdsInv, Allocated
  <2>5. \A d \in Ctx : Pending(d)' =>
          heap'[d].ctx = "live" /\ (InStore(d)' \/ (net'.pc = "delete" /\ net'.task = d))
    BY <2>2, <2>4 DEF QuietInv, Pending
  <2>6. EndedIsReleased' /\ \A d \in Ctx : heap'[d].ctx = "deleted" => task'[d] = "ended"
    BY <2>2 DEF QuietInv, EndedIsReleased
  <2>7. \A u \in Threads : send'[u].pc = "idle"
    BY <1>7, <2>2
  <2> QED  BY <1>0, <2>5, <2>6, <2>7 DEF QuietInv
<1>10. CASE DeleteContext
  <2>1. PICK c \in Ctx : c = net.task /\ c = net.ctx
    BY <1>10, RemovesItsOwn DEF DeleteContext
  <2>2. /\ net.pc = "delete" /\ net'.pc = "idle" /\ UNCHANGED <<taskId2TaskCtx, send>>
        /\ heap[c].msg = "deleted"
    BY <1>10, <2>1 DEF DeleteContext, Busy, Idle, shared, HandlerOwns
  <2>3. /\ \A d \in Ctx : heap'[d].msg = heap[d].msg /\ heap'[d].id = heap[d].id
        /\ \A d \in Ctx : d # c => heap'[d].ctx = heap[d].ctx
        /\ heap'[c].ctx = "deleted"
    BY <1>0, <1>10, <2>1 DEF DeleteContext, Objects
  <2>4. task'[c] = "ended" /\ \A d \in Ctx : d # c => task'[d] = task[d]
    BY <1>0, <1>10, <2>1 DEF DeleteContext, Ended
  <2>5. \A d \in Ctx : d # c => InStore(d)' = InStore(d) /\ Pending(d)' = Pending(d)
    BY <2>2, <2>3, <2>4 DEF InStore, Pending
  <2>6. \A d \in Ctx : Pending(d)' => heap'[d].ctx = "live" /\ InStore(d)'
    BY <2>1, <2>2, <2>3, <2>4, <2>5 DEF QuietInv, Pending
  <2>7. EndedIsReleased' /\ \A d \in Ctx : heap'[d].ctx = "deleted" => task'[d] = "ended"
    BY <2>2, <2>3, <2>4 DEF QuietInv, EndedIsReleased
  <2>8. \A u \in Threads : send'[u].pc = "idle"
    BY <1>7, <2>2
  <2> QED  BY <1>0, <2>6, <2>7, <2>8 DEF QuietInv
<1>11. CASE OnPush \/ OnPushListener \/ OnPushReturn
  <2>1. /\ net.pc \in {"idle", "increment", "onPush"} /\ net'.pc \in {"idle", "increment", "onPush"}
        /\ UNCHANGED <<taskId2TaskCtx, heap, task>>
    BY <1>11 DEF OnPush, OnPushListener, OnPushReturn, Idle, Busy, shared
  <2>2. \A t \in Threads : send'[t].pc = send[t].pc /\ send'[t].ctx = send[t].ctx
    <3>1. CASE OnPush
      BY <3>1 DEF OnPush, TypeOK, Activation
    <3>2. CASE OnPushListener \/ OnPushReturn
      BY <3>2 DEF OnPushListener, OnPushReturn, shared
    <3> QED  BY <1>11, <3>1, <3>2
  <2>3. QuietKept
    BY <2>1, <2>2 DEF QuietKept, Pending
  <2> QED  BY <2>3, QuietFrame
<1> QED
  BY <1>2, <1>3, <1>4, <1>5, <1>6, <1>8, <1>9, <1>10, <1>11 DEF NetStep

-----------------------------------------------------------------------------
(* The theorems.                                                            *)

SerialInv == Inductive /\ Single /\ IdsInv /\ Story /\ (Quiet => QuietInv)

\* All of it holds before the first request.
LEMMA SerialInit == ASSUME Serial, Init PROVE Single /\ IdsInv /\ Story /\ QuietInv
<1>1. /\ messageId = FirstId /\ FirstId \in Nat /\ NoCtx \notin Ctx
      /\ \A c \in Ctx : /\ heap[c].ctx = "unborn" /\ task[c] = "none" /\ heard[c] = <<>>
                       /\ mars.replies[c] = 0
      /\ mars.pushes = 0 /\ net.pc = "idle" /\ net.task = NoCtx
      /\ \A t \in Threads : send[t].pc = "idle"
      /\ NetThread \in Threads /\ AppThreads \subseteq Threads
  BY ConstantsAssumption DEF Init, Threads, Ids
<1>2. Single
  BY <1>1 DEF Single
<1>3. Allocated = {}
  BY <1>1 DEF Allocated
<1>4. Rank(messageId) = 0 /\ Reserved = 0
  BY <1>1, <1>3, FS_EmptySet DEF Rank, Reserved
<1>5. IdsInv
  BY <1>1, <1>3, <1>4 DEF IdsInv
<1>6. Story
  BY <1>1 DEF Story, StoryOf, Unsent, BuildsItsOwn, Building, Responding, Finishing
<1>7. QuietInv
  BY <1>1 DEF QuietInv, Pending, EndedIsReleased
<1> QED  BY <1>2, <1>5, <1>6, <1>7

\* Every step keeps all of it, where ids are drawn one at a time.
LEMMA SerialStep ==
  ASSUME Serial, SerialInv, [Next]_vars
  PROVE  Single' /\ IdsInv' /\ Story' /\ (Quiet => QuietInv')
<1>1. TypeOK /\ Core /\ Single /\ IdsInv /\ Story /\ (Quiet => QuietInv)
  BY DEF SerialInv, Inductive
<1>2. Single' /\ IdsInv'
  BY <1>1, SingleStep, IdsStep
<1>3. Story'
  BY <1>1, StorySend, StoryNet, StoryMars DEF Next, AllQuiet
<1>4. Quiet => QuietInv'
  BY <1>1, QuietSend, QuietNet, QuietMars DEF Next, AllQuiet
<1> QED  BY <1>2, <1>3, <1>4

\* One step of sendMessage at a time: SerialInv is inductive.
THEOREM SerialHolds == ASSUME Serial PROVE Spec => []SerialInv
<1>1. Init => Single /\ IdsInv /\ Story /\ QuietInv
  BY SerialInit
<1>2. Inductive /\ Single /\ IdsInv /\ Story /\ (Quiet => QuietInv) /\ [Next]_vars
        => Single' /\ IdsInv' /\ Story' /\ (Quiet => QuietInv)'
  BY SerialStep DEF SerialInv
<1> DEFINE Rest == Single /\ IdsInv /\ Story /\ (Quiet => QuietInv)
<1>3. Init => Rest
  BY <1>1
<1>4. Inductive /\ Rest /\ [Next]_vars => Rest'
  BY <1>2
<1>5. SerialInv <=> Inductive /\ Rest
  BY DEF SerialInv
<1> HIDE DEF Rest
<1> QED  BY <1>3, <1>4, <1>5, InductiveHolds, PTL DEF Spec

\* "unique message identification" (im_message.h) holds for as many requests
\* and pushes as there are ids, if newMessageId is not interrupted by another
\* thread's.
THEOREM UniqueIdsAlways == ASSUME Serial PROVE Spec => []UniqueIds
<1>1. SerialInv => UniqueIds
  BY IdsUnique DEF SerialInv
<1> QED  BY <1>1, SerialHolds, PTL

\* A listener hears its own response and then success, or only an error, each
\* at most once, also when lookups of the map miss.
THEOREM CallbackOrderAlways == ASSUME Serial PROVE Spec => []CallbackOrder
<1>1. SerialInv => CallbackOrder
  <2> SUFFICES ASSUME SerialInv, NEW c \in Ctx
               PROVE  heard[c] \in {<<>>, <<"response">>, <<"response", "success">>, <<"error">>}
    BY DEF CallbackOrder
  <2>1. StoryOf(c) /\ task[c] \in TaskStates
    BY DEF SerialInv, Story, Inductive, TypeOK
  <2> QED  BY <2>1 DEF StoryOf, Outcomes, TaskStates
<1> QED  BY <1>1, SerialHolds, PTL

\* A context is deleted only when its own listener has heard how it ended.
THEOREM ReleasedWhenToldAlways == ASSUME Serial PROVE Spec => []ReleasedWhenTold
<1>1. SerialInv => ReleasedWhenTold
  <2> SUFFICES ASSUME SerialInv, NEW c \in Ctx, heap[c].ctx = "deleted", heap[c].listener
               PROVE  Final(c)
    BY DEF ReleasedWhenTold
  <2>1. heard[c] \in Outcomes
    BY DEF SerialInv, Story, StoryOf
  <2>2. CASE heard[c] = <<"error">>
    <3>1. 1 \in DOMAIN heard[c] /\ heard[c][1] = "error"
      BY <2>2
    <3> QED  BY <3>1 DEF Final
  <2>3. CASE heard[c] = <<"response", "success">>
    <3>1. 2 \in DOMAIN heard[c] /\ heard[c][2] = "success"
      BY <2>3
    <3> QED  BY <3>1 DEF Final
  <2> QED  BY <2>1, <2>2, <2>3 DEF Outcomes
<1> QED  BY <1>1, SerialHolds, PTL

\* If nobody sends while a request is pending, every task that mars is done
\* with left nothing on the heap.
THEOREM EndedIsReleasedAlways == ASSUME NoWrap, Quiet PROVE Spec => []EndedIsReleased
<1>1. Serial
  BY DEF Serial
<1>2. SerialInv => EndedIsReleased
  BY DEF SerialInv, QuietInv
<1> QED  BY <1>1, <1>2, SerialHolds, PTL

\* The storage of a request, case by case, before and after a step.
StorageFacts(c) ==
  /\ heap[c].msg = "unborn" /\ heap[c].ctx # "deleted" => Storage(c) = "none"
  /\ heap[c].msg # "unborn" /\ heap[c].ctx = "deleted" => Storage(c) = "released"
  /\ heap[c].msg # "unborn" /\ heap[c].ctx # "deleted" => Storage(c) = "held"

\* What is left of a request, before a step and after it.
LEMMA StorageIs == ASSUME NEW c \in Ctx PROVE StorageFacts(c) /\ StorageFacts(c)'
<1>1. StorageFacts(c)
  BY DEF StorageFacts, Storage
<1>2. StorageFacts(c)'
  BY DEF StorageFacts, Storage
<1> QED  BY <1>1, <1>2

\* Before any request is made.
LEMMA InitImplements == Init => Contract!Init
<1> SUFFICES ASSUME Init PROVE Contract!Init
  OBVIOUS
<1>1. \A c \in Ctx : heap[c].msg = "unborn" /\ heap[c].ctx # "deleted" /\ heap[c].listener = FALSE
  BY DEF Init
<1>2. \A c \in Ctx : Storage(c) = "none"
  BY <1>1, StorageIs DEF StorageFacts
<1>3. [c \in Ctx |-> Storage(c)] = [c \in Ctx |-> "none"]
  BY <1>2
<1>4. [c \in Ctx |-> heap[c].listener] = [c \in Ctx |-> FALSE]
  BY <1>1
<1> QED  BY <1>3, <1>4 DEF Contract!Init, Init

\* Steps that no request notices.
LEMMA Unnoticed ==
  ASSUME \A c \in Ctx : Storage(c)' = Storage(c) /\ heap'[c].listener = heap[c].listener,
         heard' = heard
  PROVE  UNCHANGED Contract!vars
<1>1. [c \in Ctx |-> Storage(c)]' = [c \in Ctx |-> Storage(c)]
  OBVIOUS
<1>2. [c \in Ctx |-> heap[c].listener]' = [c \in Ctx |-> heap[c].listener]
  OBVIOUS
<1> QED  BY <1>1, <1>2 DEF Contract!vars

\* sendMessage makes its request with the message, and changes nothing for it
\* afterwards.
LEMMA SendImplements ==
  ASSUME TypeOK, Core, NEW t \in Threads,
         SendStep(t) \/ \E c \in Ctx, l \in BOOLEAN : BeginSend(t, c, l)
  PROVE  [Contract!Next]_Contract!vars
<1>1. heard' = heard
  BY DEF SendStep, BeginSend, FillContext, StoreLock, StoreContext, StartTask
<1>2. ASSUME NEW c \in Ctx, NEW l \in BOOLEAN, BeginSend(t, c, l) PROVE Contract!Make(c, l)
  <2>1. /\ heap[c].msg = "unborn" /\ heap[c].ctx = "unborn"
        /\ heap'[c].msg = "live" /\ heap'[c].ctx = "unborn" /\ heap'[c].listener = l
        /\ \A d \in Ctx : d # c => heap'[d] = heap[d]
    BY <1>2 DEF BeginSend, TypeOK, Objects, StoredUnderId
  <2>2. /\ Storage(c) = "none" /\ Storage(c)' = "held"
        /\ \A d \in Ctx : d # c => Storage(d)' = Storage(d)
    <3>1. Storage(c) = "none" /\ Storage(c)' = "held"
      BY <2>1, StorageIs DEF StorageFacts
    <3>2. \A d \in Ctx : d # c => Storage(d)' = Storage(d)
      BY <2>1 DEF Storage
    <3> QED  BY <3>1, <3>2
  <2>3. [d \in Ctx |-> Storage(d)]' = [[d \in Ctx |-> Storage(d)] EXCEPT ![c] = "held"]
    BY <2>2
  <2>4. [d \in Ctx |-> heap[d].listener]' = [[d \in Ctx |-> heap[d].listener] EXCEPT ![c] = l]
    BY <2>1
  <2> QED  BY <1>1, <2>2, <2>3, <2>4 DEF Contract!Make
<1>3. CASE SendStep(t)
  <2>1. \A c \in Ctx : /\ heap'[c].msg = heap[c].msg /\ heap'[c].listener = heap[c].listener
                       /\ \/ heap'[c].ctx = heap[c].ctx
                          \/ heap[c].ctx = "unborn" /\ heap'[c].ctx = "live" /\ heap[c].msg = "live"
    <3>1. CASE FillContext(t)
      BY <3>1 DEF FillContext, TypeOK, Objects, SendersOwn
    <3>2. CASE StoreLock(t) \/ StoreContext(t) \/ StartTask(t)
      BY <3>2 DEF StoreLock, StoreContext, StartTask
    <3> QED  BY <1>3, <3>1, <3>2 DEF SendStep
  <2>2. ASSUME NEW c \in Ctx PROVE Storage(c)' = Storage(c)
    <3>1. CASE heap'[c].ctx = heap[c].ctx
      BY <2>1, <3>1 DEF Storage
    <3>2. CASE heap[c].ctx = "unborn" /\ heap'[c].ctx = "live" /\ heap[c].msg = "live"
      BY <2>1, <3>2, StorageIs DEF StorageFacts
    <3> QED  BY <2>1, <3>1, <3>2
  <2> QED  BY <1>1, <2>1, <2>2, Unnoticed
<1> QED  BY <1>2, <1>3 DEF Contract!Next

\* The handlers answer, finish and release a request, each in its turn.
LEMMA NetImplements ==
  ASSUME TypeOK, Core, IdsInv, Story, NetStep
  PROVE  [Contract!Next]_Contract!vars
<1>0. /\ heap \in [Ctx -> Objects] /\ heard \in [Ctx -> Seq(Callbacks)] /\ NoCtx \notin Ctx
      /\ \A c \in Ctx : task[c] # "none" => heap[c].ctx # "unborn"
      /\ \A c \in Ctx : heap[c].msg = "unborn" => heap[c].ctx = "unborn"
  BY ConstantsAssumption DEF TypeOK, StoredUnderId
<1>1. ASSUME UNCHANGED <<heap, heard>> PROVE UNCHANGED Contract!vars
  <2>1. \A c \in Ctx : Storage(c)' = Storage(c)
    BY <1>1 DEF Storage
  <2> QED  BY <1>1, <2>1, Unnoticed
<1>2. ASSUME NEW c \in Ctx, heap[c].ctx = "live", heap[c].listener,
             NEW callback, heard' = [heard EXCEPT ![c] = Append(@, callback)], heap' = heap
      PROVE  Contract!Hear(c, callback)
  <2>1. Storage(c) = "held" /\ \A d \in Ctx : Storage(d)' = Storage(d)
    <3>1. Storage(c) = "held"
      BY <1>0, <1>2, StorageIs DEF StorageFacts
    <3>2. \A d \in Ctx : Storage(d)' = Storage(d)
      BY <1>2 DEF Storage
    <3> QED  BY <3>1, <3>2
  <2>2. [d \in Ctx |-> Storage(d)]' = [d \in Ctx |-> Storage(d)]
    BY <2>1
  <2>3. [d \in Ctx |-> heap[d].listener]' = [d \in Ctx |-> heap[d].listener]
    BY <1>2
  <2> QED  BY <1>2, <2>1, <2>2, <2>3 DEF Contract!Hear
<1>3. ASSUME NEW c \in Ctx, NEW m \in Ctx, Buf2Resp(c, m) PROVE [Contract!Next]_Contract!vars
  <2>1. /\ net.pc = "idle" /\ task[c] = "sent" /\ heap' = heap
        /\ StoryOf(c) /\ heap[c].ctx # "unborn"
    BY <1>0, <1>3 DEF Buf2Resp, Story, shared
  <2>2. m = c
    BY <1>3, <2>1 DEF Buf2Resp, Story, StoryOf, IdsInv, Allocated
  <2>3. heard[c] = <<>>
    BY <2>1 DEF StoryOf, Responding
  <2>4. PICK found \in Lookup(heap[c].id) :
          IF found # NoCtx /\ heap[found].listener
          THEN Tell(found, IF found = m THEN "response" ELSE "foreign") ELSE UNCHANGED heard
    BY <1>3 DEF Buf2Resp
  <2>5. found # NoCtx => found = c /\ heap[c].ctx = "live"
    BY <2>1, <2>4, FindsItsOwn
  <2>6. CASE found # NoCtx /\ heap[found].listener
    <3>1. /\ heap[c].listener /\ heap[c].ctx = "live"
          /\ heard' = [heard EXCEPT ![c] = Append(@, "response")]
      BY <2>2, <2>4, <2>5, <2>6 DEF Tell
    <3>2. Contract!Hear(c, "response")
      BY <1>2, <2>1, <3>1
    <3>3. Contract!Answer(c)
      BY <2>3, <3>2 DEF Contract!Answer
    <3> QED  BY <3>3 DEF Contract!Next
  <2>7. CASE ~(found # NoCtx /\ heap[found].listener)
    BY <1>1, <2>1, <2>4, <2>7
  <2> QED  BY <2>6, <2>7
<1>4. ASSUME NEW c \in Ctx, OnTaskEnd(c) PROVE [Contract!Next]_Contract!vars
  <2>1. /\ net.pc = "idle" /\ task[c] \in {"ok", "failed"} /\ heap' = heap
        /\ StoryOf(c) /\ heap[c].ctx # "unborn"
    BY <1>0, <1>4 DEF OnTaskEnd, Story, shared
  <2>2. heard[c] = IF task[c] = "ok" THEN <<"response">> ELSE <<>>
    BY <2>1 DEF StoryOf, Finishing
  <2>3. PICK found \in Lookup(heap[c].id) :
          IF found = NoCtx THEN UNCHANGED heard
          ELSE Tell(found, IF task[c] = "ok" THEN "success" ELSE "error")
    BY <1>4 DEF OnTaskEnd
  <2>4. found # NoCtx => found = c /\ heap[c].ctx = "live"
    BY <2>1, <2>3, FindsItsOwn
  <2>5. CASE found # NoCtx /\ heap[c].listener
    <3>1. heard' = [heard EXCEPT ![c] = Append(@, IF task[c] = "ok" THEN "success" ELSE "error")]
      BY <2>3, <2>4, <2>5 DEF Tell
    <3>2. Contract!Hear(c, IF task[c] = "ok" THEN "success" ELSE "error")
      BY <1>2, <2>1, <2>4, <2>5, <3>1
    <3>3. Contract!Finish(c)
      <4>1. CASE task[c] = "ok"
        BY <2>2, <3>2, <4>1 DEF Contract!Finish
      <4>2. CASE task[c] = "failed"
        BY <2>2, <3>2, <4>2 DEF Contract!Finish
      <4> QED  BY <2>1, <4>1, <4>2
    <3> QED  BY <3>3 DEF Contract!Next
  <2>6. CASE found = NoCtx \/ ~ heap[c].listener
    <3>1. heard' = heard
      BY <2>3, <2>4, <2>6 DEF Tell
    <3> QED  BY <1>1, <2>1, <3>1
  <2> QED  BY <2>5, <2>6
<1>5. CASE RemoveLookup
  <2>1. PICK c \in Ctx : c = net.task /\ StoryOf(c) /\ heap[c].ctx # "unborn"
    BY <1>0, <1>5 DEF RemoveLookup, HandlerOwns, HandlerHasTask, Story
  <2>2. net.pc = "remove" /\ heard' = heard
    BY <1>5 DEF RemoveLookup
  <2>3. PICK found \in Lookup(heap[c].id) :
          IF found = NoCtx THEN UNCHANGED heap ELSE heap' = [heap EXCEPT ![found].msg = "deleted"]
    BY <1>5, <2>1 DEF RemoveLookup
  <2>4. found # NoCtx => found = c /\ heap[c].msg = "live"
    BY <2>1, <2>2, <2>3, FindsItsOwn
  <2>5. CASE found = NoCtx
    BY <1>1, <2>2, <2>3, <2>5
  <2>6. CASE found # NoCtx
    <3>1. /\ heap'[c].msg = "deleted" /\ heap[c].msg = "live" /\ heap'[c].ctx = heap[c].ctx
          /\ heap'[c].listener = heap[c].listener /\ \A d \in Ctx : d # c => heap'[d] = heap[d]
      BY <1>0, <2>3, <2>4, <2>6 DEF Objects
    <3>2. Storage(c)' = Storage(c)
      BY <3>1 DEF Storage
    <3>3. \A d \in Ctx : d # c => Storage(d)' = Storage(d)
      BY <3>1 DEF Storage
    <3> QED  BY <2>2, <3>1, <3>2, <3>3, Unnoticed
  <2> QED  BY <2>5, <2>6
<1>6. CASE DeleteContext
  <2>1. PICK c \in Ctx : c = net.task /\ c = net.ctx
    BY <1>6, RemovesItsOwn DEF DeleteContext
  <2>2. /\ net.pc = "delete" /\ heard' = heard /\ StoryOf(c)
        /\ heap[c].msg = "deleted" /\ heap[c].ctx = "live"
    BY <1>6, <2>1 DEF DeleteContext, Story, HandlerOwns, MemorySafe, HandlerLive
  <2>3. heap[c].listener => heard[c] \in Outcomes
    BY <2>1, <2>2 DEF StoryOf, Finishing, Outcomes
  <2>4. /\ heap'[c].msg = "deleted" /\ heap'[c].ctx = "deleted"
        /\ heap'[c].listener = heap[c].listener /\ \A d \in Ctx : d # c => heap'[d] = heap[d]
    BY <1>0, <1>6, <2>1, <2>2 DEF DeleteContext, Objects
  <2>5. Storage(c) = "held" /\ Storage(c)' = "released"
    BY <2>2, <2>4, StorageIs DEF StorageFacts
  <2>6. \A d \in Ctx : d # c => Storage(d)' = Storage(d)
    BY <2>4 DEF Storage
  <2>7. [d \in Ctx |-> Storage(d)]' = [[d \in Ctx |-> Storage(d)] EXCEPT ![c] = "released"]
    BY <2>5, <2>6
  <2>8. [d \in Ctx |-> heap[d].listener]' = [d \in Ctx |-> heap[d].listener]
    BY <2>4
  <2>9. Contract!Release(c)
    BY <2>2, <2>3, <2>5, <2>7, <2>8 DEF Contract!Release, Outcomes
  <2> QED  BY <2>9 DEF Contract!Next
<1>7. CASE \/ \E c \in Ctx : Req2Buf(c)
           \/ BuildEchatTcpMsg \/ Buf2RespReturn \/ FinalReturn \/ EraseLock \/ EraseContext
           \/ OnPush \/ OnPushListener \/ OnPushReturn
  <2>1. UNCHANGED <<heap, heard>>
    BY <1>7 DEF Req2Buf, BuildEchatTcpMsg, Buf2RespReturn, FinalReturn, EraseLock, EraseContext,
       OnPush, OnPushListener, OnPushReturn
  <2> QED  BY <1>1, <2>1
<1> QED  BY <1>3, <1>4, <1>5, <1>6, <1>7 DEF NetStep

\* One step of sendMessage at a time is enough for TaskContract: each step makes
\* a request, tells its listener, releases it, or is none of its concern.
THEOREM ContractImplemented == ASSUME Serial PROVE Spec => Contract!Spec
<1>1. SerialInv /\ [Next]_vars => [Contract!Next]_Contract!vars
  <2> SUFFICES ASSUME SerialInv, [Next]_vars PROVE [Contract!Next]_Contract!vars
    OBVIOUS
  <2>1. TypeOK /\ Core /\ IdsInv /\ Story
    BY DEF SerialInv, Inductive
  <2>2. ASSUME UNCHANGED <<heap, heard>> PROVE UNCHANGED Contract!vars
    <3>1. \A c \in Ctx : Storage(c)' = Storage(c)
      BY <2>2 DEF Storage
    <3> QED  BY <2>2, <3>1, Unnoticed
  <2>3. CASE MarsStep \/ UNCHANGED vars
    BY <2>2, <2>3 DEF MarsStep, TaskRetry, TaskFail, DropReply, Reset, RedoTasks, Control, vars
  <2> QED  BY <2>1, <2>3, SendImplements, NetImplements DEF Next, AllQuiet
<1> QED  BY <1>1, InitImplements, SerialHolds, PTL DEF Spec, Contract!Spec
=============================================================================
