------------------------------ MODULE PartsProofs ------------------------------
(***************************************************************************)
(* Theorems about parts that keep their state to themselves: the listeners,*)
(* the tokenizer, the short link packer and the casts.  Each part is a     *)
(* specification of its own, as it is in a behaviour of MCParts, where the *)
(* others rest.                                                            *)
(***************************************************************************)
EXTENDS Listeners, StringCast, Tokenizer, ShortLink, Induction, SequenceTheorems,
        FiniteSetTheorems

TokenSpec == TokenInit /\ [][TokenNext]_<<tokenizer, cuts>>
ShortSpec == ShortInit /\ [][PackRequest]_shortVars

-----------------------------------------------------------------------------
(* Listeners, for any number of application threads and listeners.  StartInv*)
(* is about init: a thread has the steps before its own behind it, so a     *)
(* step that was taken has its predecessors taken.  CallInv is about a      *)
(* handler: its local is a value the global had, its message is valid       *)
(* whatever was received, and no deleted listener comes within its reach    *)
(* again.                                                                   *)

Last == 11

StartType ==
  /\ at \in [Apps -> 0 .. Last] /\ sawNull \in [Apps -> BOOLEAN]
  /\ mine \in [Apps -> Apps \cup {NULL}]
  /\ instance \in [Callbacks -> Apps \cup {NULL}]
  /\ held \in [Callbacks -> Apps \cup {NULL}]

Behind ==
  \A a \in Apps, k \in 1 .. Last : k < at[a] => InitSteps[k] \in done
InOrder ==
  \A j, k \in 1 .. Last : j < k /\ InitSteps[k] \in done => InitSteps[j] \in done
HasObject ==
  \A a \in Apps, c \in Callbacks :
    AtStep(a, SetCallbackStep(c)) => mine[a] \in Apps /\ instance[c] \in Apps
Holds ==
  \A c \in Callbacks :
    SetCallbackStep(c) \in done => held[c] \in Apps /\ instance[c] \in Apps

StartInv == StartType /\ Behind /\ InOrder /\ HasObject /\ Holds

CallType ==
  /\ registered \in [Handlers -> AppListeners \cup {NULL}]
  /\ freed \subseteq AppListeners /\ seen \subseteq AppListeners \cup {NULL}
  /\ net \in [pc : {"idle", "read", "call", "listener", "skipped"}, handler : Handlers,
              message : {NULL} \cup {ImMessage(packet) : packet \in Magics},
              local : AppListeners \cup {NULL}]

\* A listener that is deleted was deleted under someone's eyes, or is out of reach.
Watched == \A listener \in freed : Reachable(listener) => listener \in exposed

CallInv ==
  /\ CallType
  /\ net.pc # "idle" => "OnCreate" \in done
  /\ Watched
  /\ net.pc # "idle" => MayPass
  /\ net.pc = "read" => registered[net.handler] \in seen
  /\ net.pc = "call" => net.local \in seen
  /\ net.pc = "listener" => net.local \in seen \ {NULL}
  /\ net.pc = "skipped" => NULL \in seen

-----------------------------------------------------------------------------
(* The program of init.                                                     *)

\* Where the steps that matter are.
LEMMA StepsAre ==
  /\ DOMAIN InitSteps = 1 .. Last /\ Len(InitSteps) = Last
  /\ \A k \in 1 .. Last :
       /\ InitSteps[k] = "StnInstance"    <=> k = 5
       /\ InitSteps[k] = "StnSetCallback" <=> k = 6
       /\ InitSteps[k] = "AppInstance"    <=> k = 7
       /\ InitSteps[k] = "AppSetCallback" <=> k = 8
       /\ InitSteps[k] = "OnCreate"       <=> k = 9
  /\ InitSteps[1] = "appender_open" /\ InitSteps[2] = "xlogger_SetLevel"
  /\ InitSteps[3] = "SetLonglinkSvrAddr" /\ InitSteps[4] = "SetBackupIPs"
<1>1. DOMAIN InitSteps = 1 .. Last /\ Len(InitSteps) = Last
  BY DEF InitSteps, Last
<1>2. ASSUME NEW k \in 1 .. Last
      PROVE  k = 1 \/ k = 2 \/ k = 3 \/ k = 4 \/ k = 5 \/ k = 6 \/ k = 7 \/ k = 8
               \/ k = 9 \/ k = 10 \/ k = 11
  BY DEF Last
<1>3. /\ InitSteps[1] = "appender_open" /\ InitSteps[2] = "xlogger_SetLevel"
      /\ InitSteps[3] = "SetLonglinkSvrAddr" /\ InitSteps[4] = "SetBackupIPs"
      /\ InitSteps[5] = "StnInstance" /\ InitSteps[6] = "StnSetCallback"
      /\ InitSteps[7] = "AppInstance" /\ InitSteps[8] = "AppSetCallback"
      /\ InitSteps[9] = "OnCreate" /\ InitSteps[10] = "OnForeground"
      /\ InitSteps[11] = "MakesureLonglinkConnected"
  BY DEF InitSteps
<1> QED  BY <1>1, <1>2, <1>3

\* The next step of a thread, by number.
InstanceIndex(c) == IF c = "stn" THEN 5 ELSE 7

\* A thread at a named step has taken as many as stand before it.
LEMMA StepIndex ==
  ASSUME NEW a \in Apps, NEW c \in Callbacks, at \in [Apps -> 0 .. Last]
  PROVE  /\ AtStep(a, InstanceStep(c)) <=> at[a] = InstanceIndex(c)
         /\ AtStep(a, SetCallbackStep(c)) <=> at[a] = InstanceIndex(c) + 1
  BY StepsAre DEF AtStep, InstanceStep, SetCallbackStep, InstanceIndex, Callbacks, Last

-----------------------------------------------------------------------------
(* init.                                                                    *)

\* A thread goes to its next step, or out of init after the last.
LEMMA StepForward ==
  ASSUME NEW a \in Apps, StartType, Behind, InOrder, at[a] \in 1 .. Last, StepDone(a)
  PROVE  at' \in [Apps -> 0 .. Last] /\ Behind' /\ InOrder'
<1> USE StepsAre DEF StartType, Last
<1>1. /\ at' = [at EXCEPT ![a] = IF at[a] = 11 THEN 0 ELSE at[a] + 1]
      /\ done' = done \cup {InitSteps[at[a]]}
  BY DEF StepDone
<1>2. at' \in [Apps -> 0 .. Last]
  BY <1>1
<1>3. Behind'
  <2> SUFFICES ASSUME NEW b \in Apps, NEW k \in 1 .. Last, k < at'[b]
               PROVE  InitSteps[k] \in done'
    BY DEF Behind
  <2>1. CASE b = a
    <3>1. k = at[a] \/ k < at[a]
      BY <1>1, <2>1
    <3> QED  BY <1>1, <3>1 DEF Behind
  <2>2. CASE b # a
    BY <1>1, <2>2 DEF Behind
  <2> QED  BY <2>1, <2>2
<1>4. InOrder'
  <2> SUFFICES ASSUME NEW j \in 1 .. Last, NEW k \in 1 .. Last, j < k, InitSteps[k] \in done'
               PROVE  InitSteps[j] \in done'
    BY DEF InOrder
  <2>1. CASE InitSteps[k] \in done
    BY <1>1, <2>1 DEF InOrder
  <2>2. CASE InitSteps[k] = InitSteps[at[a]]
    <3>1. k = at[a]
      BY <2>2 DEF InitSteps
    <3> QED  BY <1>1, <3>1 DEF Behind
  <2> QED  BY <1>1, <2>1, <2>2
<1> QED  BY <1>2, <1>3, <1>4

\* What a step of init keeps when it touches the objects of no callback.
LEMMA PlainKeeps ==
  ASSUME NEW a \in Apps, StartInv, PlainStep(a)
  PROVE  StartInv'
<1> USE DEF StartInv
<1>1. StepDone(a) /\ at[a] \in 1 .. Last /\ UNCHANGED <<sawNull, mine, instance, held>>
  BY StepsAre DEF PlainStep
<1>2. at' \in [Apps -> 0 .. Last] /\ Behind' /\ InOrder'
  BY <1>1, StepForward
<1>3. StartType'
  BY <1>1, <1>2 DEF StartType
<1>4. \A c \in Callbacks : at[a] # InstanceIndex(c) /\ at[a] # InstanceIndex(c) + 1
  BY StepIndex DEF PlainStep, StartType
<1>5. HasObject'
  <2> SUFFICES ASSUME NEW b \in Apps, NEW c \in Callbacks, AtStep(b, SetCallbackStep(c))'
               PROVE  mine[b] \in Apps /\ instance[c] \in Apps
    BY <1>1 DEF HasObject
  <2>1. at'[b] = InstanceIndex(c) + 1
    BY <1>2, StepsAre DEF AtStep, SetCallbackStep, InstanceIndex, Callbacks, Last
  <2>2. at[b] = InstanceIndex(c) + 1
    BY <1>1, <1>4, <2>1, StepsAre DEF StepDone, StartType, InstanceIndex, Last
  <2> QED  BY <2>2, StepIndex DEF HasObject, StartType
<1>6. Holds'
  <2> SUFFICES ASSUME NEW c \in Callbacks, SetCallbackStep(c) \in done'
               PROVE  held[c] \in Apps /\ instance[c] \in Apps
    BY <1>1 DEF Holds
  <2>1. SetCallbackStep(c) # InitSteps[at[a]]
    BY <1>1, <1>4, StepIndex, StepsAre DEF AtStep, StartType
  <2> QED  BY <1>1, <2>1 DEF StepDone, Holds
<1> QED  BY <1>2, <1>3, <1>5, <1>6

\* Instance() makes or finds an object, and none ever goes.
LEMMA InstanceKeeps ==
  ASSUME NEW a \in Apps, NEW c \in Callbacks, StartInv, ListenAssumption,
         CheckInstance(a, c) \/ NewInstance(a, c)
  PROVE  StartInv'
<1> USE DEF StartInv
<1>1. CASE CheckInstance(a, c) /\ instance[c] = NULL
  <2>1. UNCHANGED <<at, mine, done, instance, held>> /\ sawNull' \in [Apps -> BOOLEAN]
    BY <1>1 DEF CheckInstance, StartType
  <2> QED  BY <2>1 DEF StartType, Behind, InOrder, HasObject, Holds, AtStep
<1>2. CASE NewInstance(a, c) \/ (CheckInstance(a, c) /\ instance[c] # NULL)
  <2>1. /\ StepDone(a) /\ at[a] = InstanceIndex(c) /\ at[a] \in 1 .. Last
        /\ UNCHANGED held /\ sawNull' \in [Apps -> BOOLEAN]
    <3>1. AtStep(a, InstanceStep(c)) /\ StepDone(a) /\ UNCHANGED held
      BY <1>2 DEF NewInstance, CheckInstance
    <3>2. sawNull' \in [Apps -> BOOLEAN]
      BY <1>2 DEF NewInstance, CheckInstance, StartType
    <3>3. at[a] = InstanceIndex(c)
      BY <3>1, StepIndex DEF StartType
    <3> QED  BY <3>1, <3>2, <3>3 DEF InstanceIndex, Last
  <2>2. at' \in [Apps -> 0 .. Last] /\ Behind' /\ InOrder'
    BY <2>1, StepForward
  <2>3. \E object \in Apps :
          /\ mine' = [mine EXCEPT ![a] = object]
          /\ \/ instance' = [instance EXCEPT ![c] = object]
             \/ instance' = instance /\ instance[c] = object
    BY <1>2 DEF NewInstance, CheckInstance, StartType
  <2>4. PICK object \in Apps :
          /\ mine' = [mine EXCEPT ![a] = object]
          /\ \/ instance' = [instance EXCEPT ![c] = object]
             \/ instance' = instance /\ instance[c] = object
    BY <2>3
  <2>5. /\ mine'[a] \in Apps /\ instance'[c] \in Apps
        /\ \A b \in Apps : mine[b] \in Apps => mine'[b] \in Apps
        /\ \A d \in Callbacks : instance[d] \in Apps => instance'[d] \in Apps
    BY <2>4 DEF StartType
  <2>6. StartType'
    BY <2>1, <2>2, <2>4 DEF StartType
  <2>7. HasObject'
    <3> SUFFICES ASSUME NEW b \in Apps, NEW d \in Callbacks, AtStep(b, SetCallbackStep(d))'
                 PROVE  mine'[b] \in Apps /\ instance'[d] \in Apps
      BY DEF HasObject
    <3>1. at'[b] = InstanceIndex(d) + 1
      BY <2>2, StepsAre DEF AtStep, SetCallbackStep, InstanceIndex, Callbacks, Last
    <3>2. CASE b = a
      BY <2>1, <2>5, <3>1, <3>2, StepsAre DEF StepDone, StartType, InstanceIndex, Callbacks, Last
    <3>3. CASE b # a
      <4>1. at[b] = InstanceIndex(d) + 1
        BY <2>1, <3>1, <3>3 DEF StepDone, StartType
      <4> QED  BY <2>5, <4>1, StepIndex DEF HasObject, StartType
    <3> QED  BY <3>2, <3>3
  <2>8. Holds'
    <3> SUFFICES ASSUME NEW d \in Callbacks, SetCallbackStep(d) \in done'
                 PROVE  held[d] \in Apps /\ instance'[d] \in Apps
      BY <2>1 DEF Holds
    <3>1. SetCallbackStep(d) # InitSteps[at[a]]
      BY <2>1, StepsAre DEF SetCallbackStep, InstanceIndex, Last
    <3> QED  BY <2>1, <2>5, <3>1 DEF StepDone, Holds
  <2> QED  BY <2>2, <2>6, <2>7, <2>8
<1>3. \/ CheckInstance(a, c) /\ instance[c] = NULL
      \/ NewInstance(a, c)
      \/ CheckInstance(a, c) /\ instance[c] # NULL
  OBVIOUS
<1> QED  BY <1>1, <1>2, <1>3

\* What SetCallback hands to mars is the object this thread came back with or
\* the one another put in its place.
LEMMA SetCallbackKeeps ==
  ASSUME NEW a \in Apps, NEW c \in Callbacks, StartInv, ListenAssumption, SetCallback(a, c)
  PROVE  StartInv'
<1> USE DEF StartInv
<1>1. /\ StepDone(a) /\ at[a] = InstanceIndex(c) + 1 /\ at[a] \in 1 .. Last
      /\ AtStep(a, SetCallbackStep(c))
      /\ UNCHANGED <<sawNull, instance>> /\ mine' = [mine EXCEPT ![a] = NULL]
  BY StepIndex DEF SetCallback, StartType, InstanceIndex, Last
<1>2. at' \in [Apps -> 0 .. Last] /\ Behind' /\ InOrder'
  BY <1>1, StepForward
<1>3. PICK object \in {mine[a], instance[c]} : held' = [held EXCEPT ![c] = object]
  BY DEF SetCallback
<1>4. object \in Apps /\ instance[c] \in Apps
  BY <1>1, <1>3 DEF HasObject
<1>5. StartType'
  BY <1>1, <1>2, <1>3, <1>4 DEF StartType
<1>6. HasObject'
  <2> SUFFICES ASSUME NEW b \in Apps, NEW d \in Callbacks, AtStep(b, SetCallbackStep(d))'
               PROVE  mine'[b] \in Apps /\ instance[d] \in Apps
    BY <1>1 DEF HasObject
  <2>1. at'[b] = InstanceIndex(d) + 1
    BY <1>2, StepsAre DEF AtStep, SetCallbackStep, InstanceIndex, Callbacks, Last
  <2>2. b # a
    BY <1>1, <2>1, StepsAre DEF StepDone, StartType, InstanceIndex, Last
  <2>3. at[b] = InstanceIndex(d) + 1 /\ mine'[b] = mine[b]
    BY <1>1, <2>1, <2>2 DEF StepDone, StartType
  <2> QED  BY <2>3, StepIndex DEF HasObject, StartType
<1>7. Holds'
  <2> SUFFICES ASSUME NEW d \in Callbacks, SetCallbackStep(d) \in done'
               PROVE  held'[d] \in Apps /\ instance[d] \in Apps
    BY <1>1 DEF Holds
  <2>1. CASE d = c
    BY <1>3, <1>4, <2>1 DEF StartType
  <2>2. CASE d # c
    <3>1. SetCallbackStep(d) # InitSteps[at[a]]
      BY <1>1, <2>2 DEF AtStep, SetCallbackStep, Callbacks
    <3> QED  BY <1>1, <1>3, <2>2, <3>1 DEF StepDone, Holds, StartType
  <2> QED  BY <2>1, <2>2
<1> QED  BY <1>2, <1>5, <1>6, <1>7

\* Nothing but init touches what StartInv is about.
THEOREM StartInvariant == ListenSpec => []StartInv
<1>1. ListenInit => StartInv
  <2> SUFFICES ASSUME ListenInit PROVE StartInv
    OBVIOUS
  <2>1. StartType /\ Behind
    BY DEF ListenInit, StartType, Behind, Last
  <2>2. InOrder /\ Holds
    BY DEF ListenInit, InOrder, Holds
  <2>3. HasObject
    BY <2>1, StepIndex DEF ListenInit, HasObject, StartType, InstanceIndex
  <2> QED  BY <2>1, <2>2, <2>3 DEF StartInv
<1>2. StartInv /\ [ListenNext]_listenVars => StartInv'
  <2> SUFFICES ASSUME StartInv, [ListenNext]_listenVars PROVE StartInv'
    OBVIOUS
  <2>1. ASSUME UNCHANGED starting PROVE StartInv'
    BY <2>1 DEF starting, StartInv, StartType, Behind, InOrder, HasObject, Holds, AtStep
  <2>2. ASSUME NEW a \in Apps, EnterInit(a) PROVE StartInv'
    <3>1. /\ at[a] = 0 /\ at' = [at EXCEPT ![a] = 1]
          /\ UNCHANGED <<sawNull, mine, done, instance, held>>
      BY <2>2 DEF EnterInit
    <3>2. StartType' /\ Behind' /\ InOrder' /\ Holds'
      BY <3>1 DEF StartInv, StartType, Behind, InOrder, Holds, Last
    <3>3. HasObject'
      <4> SUFFICES ASSUME NEW b \in Apps, NEW c \in Callbacks, AtStep(b, SetCallbackStep(c))'
                   PROVE  mine[b] \in Apps /\ instance[c] \in Apps
        BY <3>1 DEF HasObject
      <4>1. at'[b] = InstanceIndex(c) + 1
        BY <3>2, StepsAre
        DEF StartType, AtStep, SetCallbackStep, InstanceIndex, Callbacks, Last
      <4>2. at[b] = InstanceIndex(c) + 1
        BY <3>1, <4>1 DEF StartInv, StartType, InstanceIndex
      <4> QED  BY <4>2, StepIndex DEF StartInv, HasObject, StartType
    <3> QED  BY <3>2, <3>3 DEF StartInv
  <2>3. ASSUME NEW a \in Apps, NEW c \in Callbacks,
               CheckInstance(a, c) \/ NewInstance(a, c) \/ SetCallback(a, c)
        PROVE  StartInv'
    BY <2>3, ListenAssumption, InstanceKeeps, SetCallbackKeeps
  <2>4. CASE UNCHANGED listenVars
    BY <2>1, <2>4 DEF listenVars, starting
  <2>5. CASE ListenNext
    BY <2>1, <2>2, <2>3, <2>5, PlainKeeps
    DEF ListenNext, Register, OnPush, ReportConnectStatus, Called, FreeListener, ReadListener,
        CallListener, ReturnToMars
  <2> QED  BY <2>4, <2>5
<1> QED  BY <1>1, <1>2, PTL DEF ListenSpec

-----------------------------------------------------------------------------
(* Handlers.                                                                *)

\* A step of init undoes no step.
LEMMA DoneGrows ==
  ASSUME NEW a \in Apps, NEW c \in Callbacks,
         \/ EnterInit(a) \/ PlainStep(a) \/ CheckInstance(a, c)
         \/ NewInstance(a, c) \/ SetCallback(a, c)
  PROVE  done \subseteq done' /\ UNCHANGED calling
  BY DEF EnterInit, PlainStep, CheckInstance, NewInstance, SetCallback, StepDone, calling

\* The constructor's message is valid, whatever it was made of.
LEMMA AlwaysValid == \A packet \in Magics : IsValid(ImMessage(packet))
  BY DEF IsValid, ImMessage

\* What a handler has copied was registered while it ran: CallInv holds at any
\* time, whoever registers and deletes meanwhile.
THEOREM CallInvariant == ListenSpec => []CallInv
<1>1. ListenInit => CallInv
  BY DEF ListenInit, CallInv, CallType, Idle, Handlers, Watched
<1>2. CallInv /\ [ListenNext]_listenVars => CallInv'
  <2> SUFFICES ASSUME CallInv, [ListenNext]_listenVars PROVE CallInv'
    OBVIOUS
  <2> USE DEF CallInv, CallType
  <2>1. ASSUME done \subseteq done', UNCHANGED calling PROVE CallInv'
    BY <2>1 DEF calling, Watched, Reachable, MayPass
  <2>2. ASSUME NEW a \in Apps, EnterInit(a) \/ PlainStep(a) PROVE CallInv'
    <3>1. \E c \in Callbacks : TRUE
      BY DEF Callbacks
    <3> QED  BY <2>1, <2>2, <3>1, DoneGrows
  <2>3. ASSUME NEW a \in Apps, NEW c \in Callbacks,
               CheckInstance(a, c) \/ NewInstance(a, c) \/ SetCallback(a, c)
        PROVE  CallInv'
    BY <2>1, <2>3, DoneGrows
  <2>4. ASSUME NEW h \in Handlers, NEW listener \in AppListeners \cup {NULL},
               Register(h, listener)
        PROVE  CallInv'
    BY <2>4 DEF Register, starting, Watched, Reachable, MayPass
  <2>5. ASSUME NEW h \in Handlers, NEW message, Called(h, message),
               message \in {NULL} \cup {ImMessage(packet) : packet \in Magics},
               h = "push" => IsValid(message)
        PROVE  CallInv'
    BY <2>5 DEF Called, starting, Watched, Reachable, MayPass
  <2>6. ASSUME NEW listener \in AppListeners, FreeListener(listener) PROVE CallInv'
    BY <2>6 DEF FreeListener, starting, Watched, Reachable, MayPass
  <2>7. CASE ReadListener
    BY <2>7 DEF ReadListener, starting, Watched, Reachable, MayPass
  <2>8. CASE CallListener
    BY <2>8 DEF CallListener, starting, Watched, Reachable, MayPass
  <2>9. CASE ReturnToMars
    BY <2>9 DEF ReturnToMars, Idle, Handlers, starting, Watched, Reachable, MayPass
  <2>9a. CASE \E packet \in Magics : OnPush(packet)
    <3>1. "push" \in Handlers
      BY DEF Handlers
    <3> QED  BY <2>5, <2>9a, <3>1, AlwaysValid DEF OnPush
  <2>9b. CASE ReportConnectStatus
    <3>1. "channel" \in Handlers /\ "channel" # "push"
      BY DEF Handlers
    <3> QED  BY <2>5, <2>9b, <3>1 DEF ReportConnectStatus
  <2>10. CASE UNCHANGED listenVars
    BY <2>1, <2>10 DEF listenVars, calling
  <2>11. CASE ListenNext
    BY <2>2, <2>3, <2>4, <2>6, <2>7, <2>8, <2>9, <2>9a, <2>9b, <2>11 DEF ListenNext
  <2> QED  BY <2>10, <2>11
<1> QED  BY <1>1, <1>2, PTL DEF ListenSpec

\* The listener called was registered while the handler ran; it is a deleted one
\* only if it was deleted while registered, or while that handler had it in hand.
THEOREM CalledIsRegisteredAlways == ListenSpec => []CalledIsRegistered
<1>1. CallInv => CalledIsRegistered
  BY DEF CallInv, CalledIsRegistered, Watched, Reachable
<1> QED  BY <1>1, CallInvariant, PTL

\* A push is passed over only for want of a listener, never for what was received.
THEOREM PushDeliveredAlways == ListenSpec => []PushDelivered
<1>1. CallInv => PushDelivered
  BY DEF CallInv, PushDelivered
<1> QED  BY <1>1, CallInvariant, PTL

\* A handler runs only in a wrapper that is started.  OnCreate is behind it, so
\* everything that precedes OnCreate is.
THEOREM StartedBeforeCalledAlways == ListenSpec => []StartedBeforeCalled
<1>1. StartInv /\ CallInv => StartedBeforeCalled
  <2> SUFFICES ASSUME StartInv, CallInv, net.pc # "idle"
               PROVE  /\ {InitSteps[1], InitSteps[2], InitSteps[3], InitSteps[4]} \subseteq done
                      /\ \A c \in Callbacks : held[c] \in Apps /\ instance[c] # NULL
    BY StepsAre DEF StartedBeforeCalled
  <2>1. InitSteps[9] \in done
    BY StepsAre DEF CallInv, Last
  <2>2. \A j \in 1 .. Last : j < 9 => InitSteps[j] \in done
    BY <2>1 DEF StartInv, InOrder, Last
  <2>3. \A c \in Callbacks : SetCallbackStep(c) \in done
    BY <2>2, StepsAre DEF SetCallbackStep, Callbacks, Last
  <2> QED  BY <2>2, <2>3, ListenAssumption DEF StartInv, Holds, Last
<1> QED  BY <1>1, StartInvariant, CallInvariant, PTL

-----------------------------------------------------------------------------
(* Tokenizer.                                                               *)

\* find_first_of passes over what is not looked for, and stops at what is.
LEMMA FindFirstStops ==
  ASSUME NEW string \in Seq(Symbols), NEW offset \in 0 .. Len(string), NEW symbols
  PROVE  LET stop == FindFirst(string, offset, symbols)
         IN /\ stop \in offset .. Len(string)
            /\ \A p \in offset + 1 .. stop : string[p] \notin symbols
            /\ stop < Len(string) => string[stop + 1] \in symbols
<1> DEFINE n == Len(string)
           hits == {k \in offset + 1 .. n : string[k] \in symbols}
<1>1. n \in Nat
  OBVIOUS
<1> HIDE DEF n
<1>2. CASE hits = {}
  <2>1. FindFirst(string, offset, symbols) = n
    BY <1>2 DEF FindFirst, n
  <2> QED  BY <1>1, <1>2, <2>1 DEF n
<1>3. CASE hits # {}
  <2>1. hits \in SUBSET Nat
    BY <1>1 DEF n
  <2>2. \E k \in hits : \A h \in hits : k <= h
    <3> HIDE DEF hits
    <3> QED  BY <1>3, <2>1, LeastNumber
  <2> DEFINE first == CHOOSE k \in hits : \A h \in hits : k <= h
  <2>3. first \in hits /\ \A h \in hits : first <= h
    <3> HIDE DEF hits
    <3> QED  BY <2>2
  <2>4. FindFirst(string, offset, symbols) = first - 1
    BY <1>3 DEF FindFirst, n
  <2> HIDE DEF first
  <2>5. first \in offset + 1 .. n /\ string[first] \in symbols
    BY <2>3
  <2>6. ASSUME NEW p \in offset + 1 .. first - 1 PROVE string[p] \notin symbols
    BY <2>3, <2>5, <1>1
  <2> QED  BY <2>4, <2>5, <2>6, <1>1 DEF n
<1> QED  BY <1>2, <1>3

Ended == IF cuts = << >> THEN 0 ELSE cuts[Len(cuts)].to

\* The offset is where the last token ended, or a call found nothing and left
\* it at the end of the string, where no other call finds anything.
TokenInv ==
  /\ tokenizer \in [string : Strings, offset : Nat, token : Seq(Symbols)]
  /\ cuts \in Seq([from : Nat, to : Nat, before : Nat, by : Delimiters])
  /\ tokenizer.offset <= Len(tokenizer.string)
  /\ tokenizer.offset \in {Ended, Len(tokenizer.string)}
  /\ NothingSkipped

\* The object the constructor makes satisfies the invariant.
LEMMA TokenInitially == TokenInit => TokenInv
<1> SUFFICES ASSUME TokenInit PROVE TokenInv
  OBVIOUS
<1>1. PICK string \in Strings : tokenizer = [string |-> string, offset |-> 0, token |-> << >>]
  BY DEF TokenInit
<1>2. cuts = << >>
  BY DEF TokenInit
<1>3. Len(string) \in Nat
  BY TokenizerAssumption DEF Strings
<1> QED  BY <1>1, <1>2, <1>3 DEF TokenInv, Ended, NothingSkipped

\* One call of NextToken: what it passes over is delimiters, what it takes is
\* none, and it stops at one or at the end.
LEMMA NextTokenCuts ==
  ASSUME NEW string \in Seq(Symbols), NEW offset \in 0 .. Len(string), NEW d \in Delimiters
  PROVE  LET call == NextToken(string, offset, d)
         IN IF call.found
            THEN /\ call.from \in Nat /\ call.offset \in Nat /\ call.token \in Seq(Symbols)
                 /\ offset <= call.from /\ call.from < call.offset /\ call.offset <= Len(string)
                 /\ offset < Len(string)
                 /\ \A p \in offset + 1 .. call.from : string[p] \in d
                 /\ \A p \in call.from + 1 .. call.offset : string[p] \notin d
                 /\ call.offset < Len(string) => string[call.offset + 1] \in d
                 /\ call.token = SubSeq(string, call.from + 1, call.offset)
            ELSE call.offset = Len(string)
<1> DEFINE n == Len(string)
           i == FindFirst(string, offset, Symbols \ d)
           j == FindFirst(string, i, d)
<1>1. n \in Nat /\ string \in Seq(Symbols) /\ \A p \in 1 .. n : string[p] \in Symbols
  OBVIOUS
<1>2. /\ i \in offset .. n
      /\ \A p \in offset + 1 .. i : string[p] \notin Symbols \ d
      /\ i < n => string[i + 1] \in Symbols \ d
  BY FindFirstStops
<1>3. i \in 0 .. n
  BY <1>1, <1>2
<1>4. /\ j \in i .. n
      /\ \A p \in i + 1 .. j : string[p] \notin d
      /\ j < n => string[j + 1] \in d
  <2> HIDE DEF i
  <2> QED  BY <1>3, FindFirstStops
<1>5. NextToken(string, offset, d) =
        IF i = n THEN [found |-> FALSE, offset |-> i, token |-> << >>, from |-> i]
        ELSE [found |-> TRUE, offset |-> j, token |-> SubSeq(string, i + 1, j), from |-> i]
  BY DEF NextToken
<1> HIDE DEF i, j, n
<1>6. CASE i = n
  BY <1>5, <1>6 DEF n
<1>7. CASE i # n
  <2>1. i < n /\ i # j /\ i < j /\ offset < n
    BY <1>1, <1>2, <1>4, <1>7 DEF n
  <2>2. SubSeq(string, i + 1, j) \in Seq(Symbols)
    BY <1>1, <1>3, <1>4, <2>1, SubSeqProperties DEF n
  <2>3. ASSUME NEW p \in offset + 1 .. i PROVE string[p] \in d
    BY <1>1, <1>2 DEF n
  <2>4. NextToken(string, offset, d) =
          [found |-> TRUE, offset |-> j, token |-> SubSeq(string, i + 1, j), from |-> i]
    BY <1>5, <1>7
  <2>5. /\ i \in Nat /\ j \in Nat /\ offset <= i /\ i < j /\ j <= n /\ offset < n
        /\ j < n => string[j + 1] \in d
    BY <1>1, <1>2, <1>4, <2>1 DEF n
  <2> DEFINE c == NextToken(string, offset, d)
  <2>6. /\ c.found /\ c.from = i /\ c.offset = j
        /\ c.token = SubSeq(string, i + 1, j)
    <3>1. c = [found |-> TRUE, offset |-> j, token |-> SubSeq(string, i + 1, j), from |-> i]
      BY <2>4
    <3> HIDE DEF c
    <3> QED  BY <3>1
  <2> HIDE DEF c
  <2>7. /\ c.from \in Nat /\ c.offset \in Nat /\ c.token \in Seq(Symbols)
        /\ offset <= c.from /\ c.from < c.offset /\ c.offset <= Len(string)
        /\ offset < Len(string) /\ (c.offset < Len(string) => string[c.offset + 1] \in d)
        /\ c.token = SubSeq(string, c.from + 1, c.offset)
    BY <2>2, <2>5, <2>6, Zenon DEF n
  <2>8. /\ \A p \in offset + 1 .. c.from : string[p] \in d
        /\ \A p \in c.from + 1 .. c.offset : string[p] \notin d
    BY <1>4, <2>3, <2>6, Zenon
  <2> QED  BY <2>6, <2>7, <2>8, Zenon DEF c
<1> QED  BY <1>6, <1>7

\* A call of NextToken, whatever it finds, keeps the invariant.
LEMMA CutKeeps ==
  ASSUME TokenInv, NEW d \in Delimiters, Cut(d)
  PROVE  TokenInv'
<1> DEFINE string == tokenizer.string
           offset == tokenizer.offset
           call   == NextToken(string, offset, d)
           n      == Len(string)
           new    == [from |-> call.from, to |-> call.offset, before |-> offset, by |-> d]
           CutSet == [from : Nat, to : Nat, before : Nat, by : Delimiters]
<1>1. string \in Strings /\ string \in Seq(Symbols) /\ n \in Nat /\ offset \in 0 .. n
  BY TokenizerAssumption DEF TokenInv, Strings
<1>2. /\ tokenizer' = [tokenizer EXCEPT
             !.offset = call.offset, !.token = IF call.found THEN call.token ELSE @]
      /\ cuts' = IF call.found THEN Append(cuts, new) ELSE cuts
  BY DEF Cut
<1>3. tokenizer \in [string : Strings, offset : Nat, token : Seq(Symbols)] /\ cuts \in Seq(CutSet)
  BY DEF TokenInv
<1>4. tokenizer'.string = string /\ tokenizer'.offset = call.offset
      /\ tokenizer'.token = IF call.found THEN call.token ELSE tokenizer.token
  BY <1>2, <1>3
<1>5. IF call.found
      THEN /\ call.from \in Nat /\ call.offset \in Nat /\ call.token \in Seq(Symbols)
           /\ offset <= call.from /\ call.from < call.offset /\ call.offset <= Len(string)
           /\ offset < Len(string)
           /\ \A p \in offset + 1 .. call.from : string[p] \in d
           /\ \A p \in call.from + 1 .. call.offset : string[p] \notin d
           /\ call.offset < Len(string) => string[call.offset + 1] \in d
           /\ call.token = SubSeq(string, call.from + 1, call.offset)
      ELSE call.offset = Len(string)
  <2> HIDE DEF string, offset
  <2> QED  BY <1>1, NextTokenCuts DEF n
<1> HIDE DEF call
<1>6. CASE ~ call.found
  <2>1. cuts' = cuts /\ tokenizer'.offset = n /\ tokenizer'.token = tokenizer.token
    BY <1>2, <1>4, <1>5, <1>6
  <2>2. tokenizer' \in [string : Strings, offset : Nat, token : Seq(Symbols)]
    BY <1>1, <1>2, <1>3, <1>5, <1>6
  <2>3. NothingSkipped'
    BY <1>4, <2>1 DEF TokenInv, NothingSkipped, CutOut
  <2> QED  BY <1>1, <1>3, <1>4, <2>1, <2>2, <2>3 DEF TokenInv
<1>7. CASE call.found
  <2>1. cuts' = Append(cuts, new) /\ new \in CutSet /\ call.offset <= n
    BY <1>1, <1>2, <1>5, <1>7
  <2>2. tokenizer' \in [string : Strings, offset : Nat, token : Seq(Symbols)]
    BY <1>1, <1>2, <1>3, <1>5, <1>7
  <2>3. offset = Ended
    BY <1>1, <1>5, <1>7 DEF TokenInv
  <2>4. /\ cuts' \in Seq(CutSet) /\ Len(cuts) \in Nat /\ Len(cuts') = Len(cuts) + 1
        /\ DOMAIN cuts' = 1 .. Len(cuts) + 1
        /\ \A k \in 1 .. Len(cuts) : cuts'[k] = cuts[k]
        /\ cuts'[Len(cuts) + 1] = new
        /\ cuts' # << >> /\ DOMAIN cuts = 1 .. Len(cuts) /\ (cuts = << >> <=> Len(cuts) = 0)
    <3> HIDE DEF new, CutSet
    <3> QED  BY <1>3, <2>1, AppendProperties
  <2> DEFINE Right(c, k) ==
               LET cut == c[k]
               IN /\ cut.before = (IF k = 1 THEN 0 ELSE c[k - 1].to)
                  /\ cut.before <= cut.from /\ cut.from < cut.to
                  /\ \A p \in cut.before + 1 .. cut.from : string[p] \in cut.by
                  /\ \A p \in cut.from + 1 .. cut.to : string[p] \notin cut.by
                  /\ cut.to < Len(string) => string[cut.to + 1] \in cut.by
  <2>5. ASSUME NEW k \in 1 .. Len(cuts) PROVE Right(cuts', k)
    <3>1. Right(cuts, k)
      BY <2>4 DEF TokenInv, NothingSkipped
    <3> HIDE DEF string, new, CutSet, Right
    <3>2. k # 1 => k - 1 \in 1 .. Len(cuts)
      BY <2>4
    <3>3. cuts'[k] = cuts[k] /\ (k # 1 => cuts'[k - 1] = cuts[k - 1])
      BY <2>4, <3>2
    <3> QED  BY <3>1, <3>3 DEF Right
  <2>6. Right(cuts', Len(cuts) + 1)
    <3>1. new.before = IF Len(cuts) + 1 = 1 THEN 0 ELSE cuts'[Len(cuts) + 1 - 1].to
      BY <2>3, <2>4 DEF Ended
    <3> HIDE DEF string
    <3>2. new.from = call.from /\ new.to = call.offset /\ new.before = offset /\ new.by = d
      OBVIOUS
    <3> HIDE DEF new, offset
    <3> DEFINE cut == cuts'[Len(cuts) + 1]
    <3>3. /\ cut.from = call.from /\ cut.to = call.offset /\ cut.before = offset /\ cut.by = d
          /\ cut.before = IF Len(cuts) + 1 = 1 THEN 0 ELSE cuts'[Len(cuts) + 1 - 1].to
      BY <2>4, <3>1, <3>2, Zenon
    <3> HIDE DEF cut
    <3>4. /\ cut.before <= cut.from /\ cut.from < cut.to
          /\ \A p \in cut.before + 1 .. cut.from : string[p] \in cut.by
          /\ \A p \in cut.from + 1 .. cut.to : string[p] \notin cut.by
          /\ cut.to < Len(string) => string[cut.to + 1] \in cut.by
      BY <1>5, <1>7, <3>3, Zenon
    <3> QED  BY <3>3, <3>4 DEF cut
  <2>7. tokenizer'.token = SubSeq(string, new.from + 1, new.to)
    BY <1>4, <1>5, <1>7
  <2>8. NothingSkipped'
    <3>1. \A k \in DOMAIN cuts' : Right(cuts', k)
      <4> HIDE DEF Right, new, CutSet
      <4>1. \A k \in 1 .. Len(cuts) + 1 : k \in 1 .. Len(cuts) \/ k = Len(cuts) + 1
        BY <2>4
      <4> QED  BY <2>4, <2>5, <2>6, <4>1, Zenon
    <3>2. tokenizer'.token = CutOut(cuts[Len(cuts)])'
      BY <1>4, <2>4, <2>7 DEF CutOut
    <3> QED  BY <1>4, <3>1, <3>2 DEF NothingSkipped
  <2>9. Ended' = call.offset
    <3>1. Ended' = cuts'[Len(cuts')].to
      BY <2>4 DEF Ended
    <3> QED  BY <2>4, <3>1
  <2> QED  BY <1>4, <2>1, <2>2, <2>4, <2>8, <2>9 DEF TokenInv
<1> QED  BY <1>6, <1>7

\* Reset forgets the offset and the tokens, which keeps the invariant.
LEMMA ResetKeeps ==
  ASSUME TokenInv, Reset
  PROVE  TokenInv'
<1>1. tokenizer.string \in Strings /\ Len(tokenizer.string) \in Nat
  BY TokenizerAssumption DEF TokenInv, Strings
<1>2. /\ tokenizer \in [string : Strings, offset : Nat, token : Seq(Symbols)]
      /\ tokenizer' = [tokenizer EXCEPT !.offset = 0] /\ cuts' = << >>
  BY DEF TokenInv, Reset
<1>3. /\ tokenizer'.string = tokenizer.string /\ tokenizer'.offset = 0
      /\ tokenizer' \in [string : Strings, offset : Nat, token : Seq(Symbols)]
  BY <1>2
<1>4. NothingSkipped' /\ Ended' = 0
  BY <1>2 DEF NothingSkipped, Ended
<1> QED  BY <1>1, <1>2, <1>3, <1>4 DEF TokenInv

\* Every step of the tokenizer keeps the invariant.
LEMMA TokenStep == TokenInv /\ [TokenNext]_<<tokenizer, cuts>> => TokenInv'
<1> SUFFICES ASSUME TokenInv, [TokenNext]_<<tokenizer, cuts>> PROVE TokenInv'
  OBVIOUS
<1>1. CASE Reset
  BY <1>1, ResetKeeps
<1>2. ASSUME NEW d \in Delimiters, Cut(d) PROVE TokenInv'
  BY <1>2, CutKeeps
<1>3. CASE UNCHANGED <<tokenizer, cuts>>
  BY <1>3 DEF TokenInv, Ended, NothingSkipped, CutOut
<1> QED  BY <1>1, <1>2, <1>3 DEF TokenNext

\* NextToken leaves out nothing but delimiters of the call that skips them, for
\* every string and every order of delimiters, also after calls that found
\* nothing and after Reset.
THEOREM NothingSkippedAlways == TokenSpec => []NothingSkipped
<1>1. TokenInv => NothingSkipped
  BY DEF TokenInv
<1> QED  BY <1>1, TokenInitially, TokenStep, PTL DEF TokenSpec

-----------------------------------------------------------------------------
(* Tokenizer: all tokens of a string, and back.                             *)

\* What tokens can be under some delimiters.
Words(d) == {w \in Seq(Symbols \ d) : w # << >>}

\* The loop of SplitToken: where it stands and what it has found.
Standing(string, d) == [offset : 0 .. Len(string), tokens : Seq(Words(d))]
AtStart == [offset |-> 0, tokens |-> << >>]
NextStanding(string, d, s) ==
  LET call == NextToken(string, s.offset, d)
  IN [offset |-> call.offset,
      tokens |-> IF call.found THEN Append(s.tokens, call.token) ELSE s.tokens]

\* A token that is found is a word.
LEMMA StandingStays ==
  ASSUME NEW string \in Seq(Symbols), NEW d \in Delimiters, NEW s \in Standing(string, d)
  PROVE  NextStanding(string, d, s) \in Standing(string, d)
<1> DEFINE call == NextToken(string, s.offset, d)
           n    == Len(string)
           W    == Words(d)
<1>1. s.offset \in 0 .. n /\ s.tokens \in Seq(W) /\ n \in Nat
  BY DEF Standing
<1>2. IF call.found
      THEN /\ call.from \in Nat /\ call.offset \in Nat /\ call.token \in Seq(Symbols)
           /\ s.offset <= call.from /\ call.from < call.offset /\ call.offset <= n
           /\ \A p \in call.from + 1 .. call.offset : string[p] \notin d
           /\ call.token = SubSeq(string, call.from + 1, call.offset)
      ELSE call.offset = n
  <2> DEFINE o == s.offset
  <2> HIDE DEF o
  <2>1. o \in 0 .. Len(string)
    BY <1>1 DEF o
  <2>2. LET c == NextToken(string, o, d)
        IN IF c.found
           THEN /\ c.from \in Nat /\ c.offset \in Nat /\ c.token \in Seq(Symbols)
                /\ o <= c.from /\ c.from < c.offset /\ c.offset <= Len(string)
                /\ o < Len(string)
                /\ \A p \in o + 1 .. c.from : string[p] \in d
                /\ \A p \in c.from + 1 .. c.offset : string[p] \notin d
                /\ c.offset < Len(string) => string[c.offset + 1] \in d
                /\ c.token = SubSeq(string, c.from + 1, c.offset)
           ELSE c.offset = Len(string)
    BY <2>1, NextTokenCuts
  <2> QED  BY <2>2, Zenon DEF o
<1> HIDE DEF call
<1>3. NextStanding(string, d, s) =
        [offset |-> call.offset,
         tokens |-> IF call.found THEN Append(s.tokens, call.token) ELSE s.tokens]
  BY DEF NextStanding, call
<1>4. CASE call.found
  <2> DEFINE t == call.token
             i == call.from
             j == call.offset
  <2>1. i \in Nat /\ j \in Nat /\ i < j /\ j <= n
    BY <1>2, <1>4
  <2>2. /\ t = SubSeq(string, i + 1, j)
        /\ \A p \in i + 1 .. j : string[p] \notin d
    BY <1>2, <1>4
  <2> HIDE DEF t, i, j
  <2>3. t = [k \in 1 .. j - i |-> string[i + k]]
    <3> DEFINE u == SubSeq(string, i + 1, j)
    <3>1. i + 1 \in Int /\ j \in Int /\ \A p \in i + 1 .. j : string[p] \in Symbols
      BY <2>1
    <3>2. /\ u \in Seq(Symbols) /\ Len(u) = IF i + 1 <= j THEN j - (i + 1) + 1 ELSE 0
          /\ \A k \in 1 .. j - (i + 1) + 1 : u[k] = string[(i + 1) + k - 1]
      BY <3>1, SubSeqProperties
    <3> HIDE DEF u
    <3>3. i + 1 <= j /\ j - (i + 1) + 1 = j - i /\ \A k \in 1 .. j - i : (i + 1) + k - 1 = i + k
      BY <2>1
    <3>4. u = [k \in 1 .. j - i |-> u[k]]
      BY <3>2, <3>3
    <3>5. \A k \in 1 .. j - i : u[k] = string[i + k]
      BY <3>2, <3>3
    <3>6. u = [k \in 1 .. j - i |-> string[i + k]]
      BY <3>4, <3>5
    <3> QED  BY <2>2, <3>6 DEF u
  <2>4. ASSUME NEW k \in 1 .. j - i PROVE string[i + k] \in Symbols \ d
    <3>1. i + k \in i + 1 .. j /\ i + k \in 1 .. Len(string)
      BY <2>1
    <3> QED  BY <2>2, <3>1
  <2>5. t \in Seq(Symbols \ d) /\ t # << >>
    <3>1. j - i \in Nat \ {0}
      BY <2>1
    <3> QED  BY <2>3, <2>4, <3>1
  <2>6. t \in W
    BY <2>5 DEF Words
  <2> HIDE DEF W
  <2>7. Append(s.tokens, t) \in Seq(W)
    BY <1>1, <2>6
  <2>8. j \in 0 .. Len(string)
    BY <2>1
  <2> QED  BY <1>3, <1>4, <2>7, <2>8 DEF Standing, W, t, j
<1>5. CASE ~ call.found
  <2>1. call.offset \in 0 .. Len(string)
    BY <1>1, <1>2, <1>5
  <2> QED  BY <1>1, <1>3, <1>5, <2>1 DEF Standing
<1> QED  BY <1>4, <1>5

\* The rounds of SplitToken over a string.
Splits(string, d, rest) ==
  /\ rest \in [0 .. Len(string) -> Standing(string, d)]
  /\ rest[0] = AtStart
  /\ \A k \in 1 .. Len(string) : rest[k] = NextStanding(string, d, rest[k - 1])
  /\ Tokens(string, d) = rest[Len(string)].tokens

\* SplitToken goes its rounds.
LEMMA SplitsExist ==
  ASSUME NEW string \in Seq(Symbols), NEW d \in Delimiters
  PROVE  \E rest : Splits(string, d, rest)
<1> DEFINE n     == Len(string)
           All   == Standing(string, d)
           first == AtStart
           After(s) == NextStanding(string, d, s)
           step  == [s \in All |-> After(s)]
           rest[k \in 0 .. n] == IF k = 0 THEN first ELSE After(rest[k - 1])
<1>1. n \in Nat /\ first \in All
  BY EmptySeq DEF Standing, AtStart
<1>2. \A s \in All : After(s) \in All
  BY StandingStays
<1> HIDE DEF n, All, first, After
<1>3. Steps(n, All, first, step) /\ \A s \in All : step[s] = After(s)
  BY <1>1, <1>2 DEF Steps
<1> HIDE DEF step
<1>4. PICK f \in [0 .. n -> All] : f[0] = first /\ \A k \in 1 .. n : f[k] = step[f[k - 1]]
  BY <1>3, StepsExist
<1>5. ASSUME NEW k \in 1 .. n PROVE f[k] = After(f[k - 1])
  <2>1. f[k - 1] \in All
    BY <1>1
  <2> QED  BY <1>3, <1>4, <2>1
<1>6. rest = [k \in 0 .. n |-> IF k = 0 THEN first ELSE After(rest[k - 1])]
  <2>1. ASSUME NEW k \in 0 .. n PROVE f[k] = IF k = 0 THEN first ELSE After(f[k - 1])
    BY <1>1, <1>4, <1>5
  <2>2. f = [k \in 0 .. n |-> f[k]]
    OBVIOUS
  <2>3. f = [k \in 0 .. n |-> IF k = 0 THEN first ELSE After(f[k - 1])]
    BY <2>1, <2>2
  <2> QED  BY <2>3, Zenon
<1>7. Tokens(string, d) = rest[n].tokens
  BY Zenon DEF Tokens, n, first, After, AtStart, NextStanding
<1> HIDE DEF rest
<1>8. rest[0] = first /\ \A k \in 1 .. n : rest[k] = After(rest[k - 1])
  BY <1>1, <1>6
<1>9. rest \in [0 .. n -> All]
  <2>1. Alike(n, rest, f)
    BY <1>1, <1>4, <1>5, <1>8 DEF Alike
  <2>2. \A k \in 0 .. n : rest[k] = f[k]
    BY <2>1, AlikeIsSame
  <2> QED  BY <1>6, <2>2
<1>10. Splits(string, d, rest)
  BY <1>7, <1>8, <1>9, Zenon DEF Splits, n, All, first, After
<1> QED  BY <1>10

\* What SplitToken returns are words.
LEMMA TokensAreWords ==
  ASSUME NEW string \in Seq(Symbols), NEW d \in Delimiters
  PROVE  Tokens(string, d) \in Seq(Words(d))
<1>1. PICK rest : Splits(string, d, rest)
  BY SplitsExist
<1>2. rest[Len(string)] \in Standing(string, d)
  BY <1>1 DEF Splits
<1>3. rest[Len(string)].tokens \in Seq(Words(d))
  BY <1>2 DEF Standing
<1> QED  BY <1>1, <1>3 DEF Splits

\* Where a string is found to go on: after the first words that are given.
LEMMA FindFirstIs ==
  ASSUME NEW string \in Seq(Symbols), NEW offset \in 0 .. Len(string), NEW symbols,
         NEW stop \in offset .. Len(string),
         \A p \in offset + 1 .. stop : string[p] \notin symbols,
         stop < Len(string) => string[stop + 1] \in symbols
  PROVE  FindFirst(string, offset, symbols) = stop
<1> DEFINE found == FindFirst(string, offset, symbols)
<1>1. /\ found \in offset .. Len(string)
      /\ \A p \in offset + 1 .. found : string[p] \notin symbols
      /\ found < Len(string) => string[found + 1] \in symbols
  BY FindFirstStops
<1> HIDE DEF found
<1>2. CASE found < stop
  <2>1. found + 1 \in offset + 1 .. stop /\ found < Len(string)
    BY <1>1, <1>2
  <2> QED  BY <1>1, <2>1
<1>3. CASE stop < found
  <2>1. stop + 1 \in offset + 1 .. found /\ stop < Len(string)
    BY <1>1, <1>3
  <2> QED  BY <1>1, <2>1
<1>4. CASE found = stop
  BY <1>4 DEF found
<1> QED  BY <1>1, <1>2, <1>3, <1>4

\* From o on, a word after delimiters and before one or the end: it is a to e.
WordAt(string, d, o, a, e) ==
  /\ string \in Seq(Symbols) /\ d \in Delimiters
  /\ o \in Nat /\ a \in Nat /\ e \in Nat
  /\ o <= a /\ a < e /\ e <= Len(string)
  /\ \A p \in o + 1 .. a : string[p] \in d
  /\ \A p \in a + 1 .. e : string[p] \notin d
  /\ e < Len(string) => string[e + 1] \in d

\* A word between delimiters is what NextToken returns.
LEMMA NextWord ==
  ASSUME NEW string, NEW d, NEW o, NEW a, NEW e, WordAt(string, d, o, a, e)
  PROVE  NextToken(string, o, d) =
           [found |-> TRUE, offset |-> e, token |-> SubSeq(string, a + 1, e), from |-> a]
<1>0. /\ string \in Seq(Symbols) /\ d \in Delimiters
      /\ o \in Nat /\ a \in Nat /\ e \in Nat /\ o <= a /\ a < e /\ e <= Len(string)
      /\ \A p \in o + 1 .. a : string[p] \in d
      /\ \A p \in a + 1 .. e : string[p] \notin d
      /\ e < Len(string) => string[e + 1] \in d
  BY DEF WordAt
<1>1. FindFirst(string, o, Symbols \ d) = a
  <2> DEFINE symbols == Symbols \ d
  <2>1. o \in 0 .. Len(string) /\ a \in o .. Len(string)
    BY <1>0
  <2>2. \A p \in o + 1 .. a : string[p] \notin symbols
    BY <1>0
  <2>3. a < Len(string) => string[a + 1] \in symbols
    <3>1. a + 1 \in 1 .. Len(string) /\ a + 1 \in a + 1 .. e
      BY <1>0
    <3> QED  BY <1>0, <3>1
  <2> HIDE DEF symbols
  <2>4. FindFirst(string, o, symbols) = a
    BY <1>0, <2>1, <2>2, <2>3, FindFirstIs
  <2> QED  BY <2>4 DEF symbols
<1>2. FindFirst(string, a, d) = e
  <2>1. a \in 0 .. Len(string) /\ e \in a .. Len(string)
    BY <1>0
  <2> QED  BY <1>0, <2>1, FindFirstIs
<1>3. a # Len(string)
  BY <1>0
<1> QED  BY <1>1, <1>2, <1>3, Zenon DEF NextToken

\* At the end there is no token.
LEMMA NoMoreWord ==
  ASSUME NEW string \in Seq(Symbols), NEW d \in Delimiters
  PROVE  LET call == NextToken(string, Len(string), d)
         IN call.found = FALSE /\ call.offset = Len(string)
<1> DEFINE n == Len(string)
           none == [found |-> FALSE, offset |-> n, token |-> << >>, from |-> n]
           call == NextToken(string, n, d)
<1>1. FindFirst(string, n, Symbols \ d) = n
  <2> DEFINE symbols == Symbols \ d
  <2>1. n \in 0 .. Len(string) /\ n \in n .. Len(string)
    OBVIOUS
  <2>2. \A p \in n + 1 .. n : string[p] \notin symbols
    OBVIOUS
  <2>3. ~ n < Len(string)
    OBVIOUS
  <2> HIDE DEF symbols
  <2>4. FindFirst(string, n, symbols) = n
    BY <2>1, <2>2, <2>3, FindFirstIs
  <2> QED  BY <2>4 DEF symbols
<1>2. call = none
  BY <1>1, Zenon DEF NextToken
<1> HIDE DEF call, n
<1>3. call.found = FALSE /\ call.offset = n
  BY <1>2
<1> QED  BY <1>3 DEF call, n

\* Words to join by a delimiter that can be in none of them.
Merging(ts, c, d) == d \in Delimiters /\ c \in d /\ ts \in Seq(Words(d))

\* The words one by one.
LEMMA MergingIs ==
  ASSUME NEW ts, NEW c, NEW d, Merging(ts, c, d)
  PROVE  /\ c \in Symbols /\ c \in d /\ Len(ts) \in Nat /\ d \in Delimiters
         /\ \A k \in 1 .. Len(ts) :
              /\ ts[k] \in Seq(Symbols) /\ Len(ts[k]) \in Nat \ {0}
              /\ \A p \in 1 .. Len(ts[k]) : ts[k][p] \notin d
<1>1. d \in Delimiters /\ c \in d /\ ts \in Seq(Words(d))
  BY DEF Merging
<1>2. c \in Symbols
  BY <1>1, TokenizerAssumption
<1>3. ASSUME NEW k \in 1 .. Len(ts)
      PROVE  /\ ts[k] \in Seq(Symbols) /\ Len(ts[k]) \in Nat \ {0}
             /\ \A p \in 1 .. Len(ts[k]) : ts[k][p] \notin d
  <2> DEFINE w == ts[k]
  <2>1. w \in Words(d)
    BY <1>1
  <2> HIDE DEF w
  <2>2. w \in Seq(Symbols \ d) /\ w # << >>
    BY <2>1 DEF Words
  <2>3. w \in Seq(Symbols) /\ Len(w) \in Nat \ {0} /\ \A p \in 1 .. Len(w) : w[p] \notin d
    BY <2>2
  <2> QED  BY <2>3 DEF w
<1>4. Len(ts) \in Nat
  BY <1>1
<1> QED  BY <1>1, <1>2, <1>3, <1>4

\* The loop of MergeToken.
Between(last, c) == IF last THEN << >> ELSE <<c>>
Merges(ts, c, f) ==
  /\ f \in [0 .. Len(ts) -> Seq(Symbols)] /\ f[0] = << >>
  /\ \A k \in 1 .. Len(ts) : f[k] = (f[k - 1] \o ts[k]) \o Between(k = Len(ts), c)
  /\ MergeToken(ts, <<c>>) = f[Len(ts)]

\* MergeToken goes its rounds.
LEMMA MergesExist ==
  ASSUME NEW ts, NEW c, NEW d, Merging(ts, c, d)
  PROVE  \E f : Merges(ts, c, f)
<1> DEFINE n     == Len(ts)
           All   == Seq(Symbols)
           none  == << >>
           one   == <<c>>
           After(x, k) == x \o ts[k] \o (IF k = n THEN none ELSE one)
           next  == [k \in 1 .. n |-> [x \in All |-> After(x, k)]]
           merged[k \in 0 .. n] ==
             IF k = 0 \/ one = none THEN none ELSE After(merged[k - 1], k)
<1>1. n \in Nat /\ none \in All /\ one \in All /\ one # none
  BY MergingIs, EmptySeq
<1>2. ASSUME NEW k \in 1 .. n, NEW x \in All PROVE After(x, k) \in All
  <2>1. ts[k] \in All
    BY MergingIs
  <2> HIDE DEF none, one
  <2>2. x \o ts[k] \in All
    BY <2>1
  <2> QED  BY <1>1, <2>2
<1> HIDE DEF After, one, none, n
<1>3. Rounds(n, All, none, next) /\ \A k \in 1 .. n, x \in All : next[k][x] = After(x, k)
  <2> HIDE DEF All
  <2> QED  BY <1>1, <1>2 DEF Rounds
<1> HIDE DEF next, All
<1>4. PICK f \in [0 .. n -> All] : f[0] = none /\ \A k \in 1 .. n : f[k] = next[k][f[k - 1]]
  BY <1>3, RoundsExist
<1>5. ASSUME NEW k \in 1 .. n PROVE f[k] = After(f[k - 1], k)
  <2>1. f[k - 1] \in All
    BY <1>1
  <2> QED  BY <1>3, <1>4, <2>1
<1>6. merged = [k \in 0 .. n |-> IF k = 0 \/ one = none THEN none ELSE After(merged[k - 1], k)]
  <2>1. ASSUME NEW k \in 0 .. n
        PROVE  f[k] = IF k = 0 \/ one = none THEN none ELSE After(f[k - 1], k)
    BY <1>1, <1>4, <1>5
  <2>2. f = [k \in 0 .. n |-> f[k]]
    OBVIOUS
  <2>3. f = [k \in 0 .. n |-> IF k = 0 \/ one = none THEN none ELSE After(f[k - 1], k)]
    BY <2>1, <2>2
  <2> QED  BY <2>3, Zenon
<1>7. MergeToken(ts, one) = merged[n]
  BY Zenon DEF MergeToken, n, none, After
<1> HIDE DEF merged
<1>8. merged[0] = none /\ \A k \in 1 .. n : merged[k] = After(merged[k - 1], k)
  BY <1>1, <1>6
<1>9. merged \in [0 .. n -> All]
  <2>1. Alike(n, merged, f)
    BY <1>1, <1>4, <1>5, <1>8 DEF Alike
  <2>2. \A k \in 0 .. n : merged[k] = f[k]
    BY <2>1, AlikeIsSame
  <2> QED  BY <1>6, <2>2
<1>10. \A k \in 1 .. n : merged[k] = (merged[k - 1] \o ts[k]) \o Between(k = n, c)
  BY <1>8, Zenon DEF After, Between, none, one
<1>11. Merges(ts, c, merged)
  BY <1>7, <1>8, <1>9, <1>10, Zenon DEF Merges, n, All, none, one
<1> QED  BY <1>11

\* One round of MergeToken: a word, and what comes after it.
MergeRound(x, w, c, last, y) ==
  /\ x \in Seq(Symbols) /\ w \in Seq(Symbols) /\ c \in Symbols /\ last \in BOOLEAN
  /\ y = (x \o w) \o Between(last, c)

\* One round of MergeToken, position by position.
LEMMA OneMerge ==
  ASSUME NEW x, NEW w, NEW c, NEW last, NEW y, MergeRound(x, w, c, last, y)
  PROVE  /\ Len(y) = Len(x) + Len(w) + (IF last THEN 0 ELSE 1)
         /\ \A p \in 1 .. Len(x) : y[p] = x[p]
         /\ \A p \in 1 .. Len(w) : y[Len(x) + p] = w[p]
         /\ ~ last => y[Len(x) + Len(w) + 1] = c
<1> DEFINE z == x \o w
           t == Between(last, c)
<1>0. /\ x \in Seq(Symbols) /\ w \in Seq(Symbols) /\ c \in Symbols /\ last \in BOOLEAN
      /\ y = z \o t
  BY DEF MergeRound
<1>1. t \in Seq(Symbols) /\ Len(t) = (IF last THEN 0 ELSE 1) /\ (~ last => t[1] = c)
  BY <1>0 DEF Between
<1>2. /\ z \in Seq(Symbols) /\ Len(z) = Len(x) + Len(w)
      /\ \A p \in 1 .. Len(x) + Len(w) : z[p] = IF p <= Len(x) THEN x[p] ELSE w[p - Len(x)]
  BY <1>0, ConcatProperties
<1>3. Len(x) \in Nat /\ Len(w) \in Nat
  BY <1>0
<1>4. ASSUME NEW p \in 1 .. Len(x) PROVE z[p] = x[p]
  BY <1>2, <1>3
<1>5. ASSUME NEW p \in 1 .. Len(w) PROVE z[Len(x) + p] = w[p]
  <2> DEFINE q == Len(x) + p
  <2>1. q \in 1 .. Len(x) + Len(w) /\ ~ q <= Len(x) /\ q - Len(x) = p
    BY <1>3
  <2> HIDE DEF q
  <2>2. z[q] = w[p]
    BY <1>2, <2>1
  <2> QED  BY <2>2 DEF q
<1> HIDE DEF z, t
<1>6. /\ Len(y) = Len(z) + Len(t)
      /\ \A p \in 1 .. Len(z) + Len(t) : y[p] = IF p <= Len(z) THEN z[p] ELSE t[p - Len(z)]
  <2>1. z \in Seq(Symbols)
    BY <1>2
  <2>2. t \in Seq(Symbols)
    BY <1>1
  <2>3. /\ Len(z \o t) = Len(z) + Len(t)
        /\ \A p \in 1 .. Len(z) + Len(t) :
             (z \o t)[p] = IF p <= Len(z) THEN z[p] ELSE t[p - Len(z)]
    BY <2>1, <2>2, ConcatProperties
  <2> QED  BY <1>0, <2>3
<1>7. \A p \in 1 .. Len(z) : y[p] = z[p]
  BY <1>1, <1>2, <1>3, <1>6
<1>8. \A p \in 1 .. Len(x) : y[p] = x[p]
  <2>1. \A p \in 1 .. Len(x) : p \in 1 .. Len(z)
    BY <1>2, <1>3
  <2> QED  BY <1>4, <1>7, <2>1
<1>9. \A p \in 1 .. Len(w) : y[Len(x) + p] = w[p]
  <2>1. \A p \in 1 .. Len(w) : Len(x) + p \in 1 .. Len(z)
    BY <1>2, <1>3
  <2> QED  BY <1>5, <1>7, <2>1
<1>10. ~ last => y[Len(x) + Len(w) + 1] = c
  <2> SUFFICES ASSUME ~ last PROVE y[Len(x) + Len(w) + 1] = c
    OBVIOUS
  <2> DEFINE q == Len(x) + Len(w) + 1
  <2>1. q \in 1 .. Len(z) + Len(t) /\ ~ q <= Len(z) /\ q - Len(z) = 1
    BY <1>1, <1>2, <1>3
  <2> HIDE DEF q
  <2>2. y[q] = t[1]
    BY <1>6, <2>1
  <2> QED  BY <1>1, <2>2 DEF q
<1>11. Len(y) = Len(x) + Len(w) + (IF last THEN 0 ELSE 1)
  BY <1>1, <1>2, <1>3, <1>6
<1> QED  BY <1>8, <1>9, <1>10, <1>11

\* What was merged stays where it is, and the merged string is as long as it has words.
LEMMA MergedStays ==
  ASSUME NEW ts, NEW c, NEW d, NEW f, Merging(ts, c, d), Merges(ts, c, f)
  PROVE  \A j \in 0 .. Len(ts) :
           /\ Len(f[j]) \in Nat /\ j <= Len(f[j])
           /\ \A i \in j .. Len(ts) :
                /\ Len(f[j]) <= Len(f[i])
                /\ \A p \in 1 .. Len(f[j]) : f[i][p] = f[j][p]
<1> DEFINE n == Len(ts)
<1>1. n \in Nat
  BY MergingIs
<1>2. \A k \in 0 .. n : f[k] \in Seq(Symbols) /\ Len(f[k]) \in Nat
  BY DEF Merges
<1>3. ASSUME NEW k \in 1 .. n
      PROVE  /\ Len(f[k - 1]) + 1 <= Len(f[k])
             /\ \A p \in 1 .. Len(f[k - 1]) : f[k][p] = f[k - 1][p]
  <2> DEFINE x == f[k - 1]
             y == f[k]
             w == ts[k]
             last == (k = n)
  <2>1. /\ x \in Seq(Symbols) /\ w \in Seq(Symbols) /\ c \in Symbols /\ last \in BOOLEAN
        /\ Len(w) \in Nat \ {0} /\ Len(x) \in Nat
    BY <1>1, <1>2, MergingIs
  <2>2. MergeRound(x, w, c, last, y)
    BY <2>1 DEF Merges, MergeRound
  <2> HIDE DEF x, y, w, last
  <2>3. /\ Len(y) = Len(x) + Len(w) + (IF last THEN 0 ELSE 1)
        /\ \A p \in 1 .. Len(x) : y[p] = x[p]
    BY <2>2, OneMerge
  <2>4. Len(x) + 1 <= Len(y)
    BY <2>1, <2>3
  <2> QED  BY <2>3, <2>4 DEF x, y
<1>4. \A j \in 0 .. n : j <= Len(f[j])
  <2> DEFINE S == {j \in Nat : j <= n => j <= Len(f[j])}
  <2>1. 0 \in S
    BY <1>1, <1>2
  <2>2. ASSUME NEW j \in Nat, j \in S PROVE j + 1 \in S
    <3> SUFFICES ASSUME j + 1 <= n PROVE j + 1 <= Len(f[j + 1])
      OBVIOUS
    <3> DEFINE k == j + 1
    <3>1. k \in 1 .. n /\ k - 1 = j /\ j \in 0 .. n /\ j <= Len(f[j])
      BY <1>1, <2>2
    <3> HIDE DEF k
    <3>2. Len(f[k - 1]) + 1 <= Len(f[k]) /\ Len(f[k]) \in Nat /\ Len(f[j]) \in Nat
      BY <1>2, <1>3, <3>1
    <3> QED  BY <3>1, <3>2 DEF k
  <2>3. Nat \subseteq S
    <3> HIDE DEF S
    <3> QED  BY <2>1, <2>2, NatInductionOnSet
  <2> QED  BY <2>3
<1>5. ASSUME NEW j \in 0 .. n, NEW i \in j .. n
      PROVE  Len(f[j]) <= Len(f[i]) /\ \A p \in 1 .. Len(f[j]) : f[i][p] = f[j][p]
  <2> DEFINE Good(h) == Len(f[j]) <= Len(f[h]) /\ \A p \in 1 .. Len(f[j]) : f[h][p] = f[j][p]
             S == {t \in Nat : j + t <= n => Good(j + t)}
  <2>1. 0 \in S
    BY <1>1, <1>2
  <2>2. ASSUME NEW t \in Nat, t \in S PROVE t + 1 \in S
    <3> SUFFICES ASSUME j + (t + 1) <= n PROVE Good(j + (t + 1))
      OBVIOUS
    <3> DEFINE k == j + (t + 1)
    <3>1. k \in 1 .. n /\ k - 1 = j + t /\ k - 1 \in 0 .. n /\ k \in 0 .. n
      BY <1>1
    <3>2. Good(k - 1)
      BY <1>1, <2>2, <3>1
    <3> HIDE DEF k
    <3>3. /\ Len(f[k - 1]) + 1 <= Len(f[k])
          /\ \A p \in 1 .. Len(f[k - 1]) : f[k][p] = f[k - 1][p]
          /\ Len(f[k]) \in Nat /\ Len(f[k - 1]) \in Nat /\ Len(f[j]) \in Nat
      BY <1>2, <1>3, <3>1
    <3>4. Good(k)
      <4>1. \A p \in 1 .. Len(f[j]) : p \in 1 .. Len(f[k - 1])
        BY <3>2, <3>3
      <4> QED  BY <3>2, <3>3, <4>1
    <3> QED  BY <3>4 DEF k
  <2>3. Nat \subseteq S
    <3> HIDE DEF S
    <3> QED  BY <2>1, <2>2, NatInductionOnSet
  <2>4. i - j \in S
    <3>1. i - j \in Nat
      BY <1>1
    <3> HIDE DEF S
    <3> QED  BY <2>3, <3>1
  <2>5. j + (i - j) = i
    BY <1>1
  <2> HIDE DEF Good
  <2>6. Good(i)
    BY <1>1, <2>4, <2>5
  <2> QED  BY <2>6 DEF Good
<1> QED  BY <1>2, <1>4, <1>5

\* Words in a string, each after delimiters and before one or the end: the k-th
\* is from[k] to to[k].
Laid(string, ts, d, from, to) ==
  /\ string \in Seq(Symbols) /\ d \in Delimiters /\ ts \in Seq(Words(d))
  /\ Len(ts) <= Len(string)
  /\ to[0] = 0 /\ to[Len(ts)] = Len(string)
  /\ \A k \in 1 .. Len(ts) :
       /\ WordAt(string, d, to[k - 1], from[k], to[k])
       /\ SubSeq(string, from[k] + 1, to[k]) = ts[k]

\* A sequence of the first words, and one more.
LEMMA OneMoreWord ==
  ASSUME NEW T, NEW ts \in Seq(T), NEW k \in 1 .. Len(ts)
  PROVE  Append([j \in 1 .. k - 1 |-> ts[j]], ts[k]) = [j \in 1 .. k |-> ts[j]]
<1> DEFINE s == [j \in 1 .. k - 1 |-> ts[j]]
           e == ts[k]
           a == Append(s, e)
<1>1. k \in Nat \ {0} /\ k - 1 \in Nat /\ \A j \in 1 .. k : j \in 1 .. Len(ts) /\ ts[j] \in T
  OBVIOUS
<1>2. s \in Seq(T) /\ Len(s) = k - 1 /\ e \in T
  BY <1>1
<1>3. \A j \in 1 .. k - 1 : s[j] = ts[j]
  OBVIOUS
<1> HIDE DEF s
<1>4. a \in Seq(T) /\ Len(a) = k /\ a[k] = e /\ \A j \in 1 .. k - 1 : a[j] = s[j]
  <2> HIDE DEF e
  <2> QED  BY <1>1, <1>2
<1>5. a = [j \in 1 .. k |-> a[j]]
  <2> HIDE DEF a
  <2> QED  BY <1>4
<1> HIDE DEF a
<1>6. ASSUME NEW j \in 1 .. k PROVE a[j] = ts[j]
  <2>1. CASE j \in 1 .. k - 1
    BY <1>3, <1>4, <2>1
  <2>2. CASE j = k
    BY <1>4, <2>2
  <2> QED  BY <1>1, <2>1, <2>2
<1>7. a = [j \in 1 .. k |-> ts[j]]
  BY <1>5, <1>6
<1> QED  BY <1>7 DEF a, s, e

\* SplitToken finds the words where they are.
LEMMA WordsAreFound ==
  ASSUME NEW string, NEW ts, NEW d, NEW from, NEW to, Laid(string, ts, d, from, to)
  PROVE  Tokens(string, d) = ts
<1> DEFINE n == Len(string)
           K == Len(ts)
           Least(k) == IF k <= K THEN k ELSE K
           Here(k) == [offset |-> IF k <= K THEN to[k] ELSE n,
                       tokens |-> [j \in 1 .. Least(k) |-> ts[j]]]
           g == [k \in 0 .. n |-> Here(k)]
<1>1. /\ string \in Seq(Symbols) /\ d \in Delimiters /\ ts \in Seq(Words(d))
      /\ n \in Nat /\ K \in Nat /\ K <= n /\ to[0] = 0 /\ to[K] = n
  BY DEF Laid
<1>2. PICK rest : Splits(string, d, rest)
  BY <1>1, SplitsExist
<1>3. rest[0] = AtStart /\ \A k \in 1 .. n : rest[k] = NextStanding(string, d, rest[k - 1])
  BY <1>2, Zenon DEF Splits
<1>4. Here(0) = AtStart
  <2>1. Least(0) = 0 /\ 0 <= K
    BY <1>1
  <2>2. [j \in 1 .. 0 |-> ts[j]] = << >>
    OBVIOUS
  <2> QED  BY <1>1, <2>1, <2>2 DEF AtStart
<1>5. ASSUME NEW k \in 1 .. n, k <= K PROVE Here(k) = NextStanding(string, d, Here(k - 1))
  <2> DEFINE o == to[k - 1]
             a == from[k]
             e == to[k]
             before == [j \in 1 .. k - 1 |-> ts[j]]
  <2>1. WordAt(string, d, o, a, e) /\ SubSeq(string, a + 1, e) = ts[k]
    <3>1. k \in 1 .. Len(ts)
      BY <1>1, <1>5
    <3> QED  BY <3>1 DEF Laid
  <2>2. k - 1 <= K /\ Least(k) = k /\ Least(k - 1) = k - 1
    BY <1>1, <1>5
  <2>3. Here(k - 1) = [offset |-> o, tokens |-> before]
    BY <2>2
  <2>4. Here(k) = [offset |-> e, tokens |-> [j \in 1 .. k |-> ts[j]]]
    BY <1>5, <2>2
  <2> HIDE DEF o, a, e
  <2>5. NextToken(string, o, d) = [found |-> TRUE, offset |-> e, token |-> ts[k], from |-> a]
    <3>1. NextToken(string, o, d) =
            [found |-> TRUE, offset |-> e, token |-> SubSeq(string, a + 1, e), from |-> a]
      BY <2>1, NextWord
    <3> QED  BY <2>1, <3>1
  <2>6. Append(before, ts[k]) = [j \in 1 .. k |-> ts[j]]
    <3>1. k \in 1 .. Len(ts)
      BY <1>1, <1>5
    <3> QED  BY <1>1, <3>1, OneMoreWord
  <2> HIDE DEF before, Here
  <2>7. NextStanding(string, d, [offset |-> o, tokens |-> before]) =
          [offset |-> e, tokens |-> Append(before, ts[k])]
    BY <2>5 DEF NextStanding
  <2> QED  BY <2>3, <2>4, <2>6, <2>7
<1>6. ASSUME NEW k \in 1 .. n, ~ k <= K PROVE Here(k) = NextStanding(string, d, Here(k - 1))
  <2> DEFINE all == [j \in 1 .. K |-> ts[j]]
             call == NextToken(string, n, d)
  <2>1. Here(k) = [offset |-> n, tokens |-> all]
    BY <1>6
  <2>2. Here(k - 1) = [offset |-> n, tokens |-> all]
    <3>1. CASE k - 1 = K
      BY <1>1, <3>1
    <3>2. CASE k - 1 # K
      <4>1. ~ k - 1 <= K
        BY <1>1, <1>6, <3>2
      <4> QED  BY <4>1
    <3> QED  BY <3>1, <3>2
  <2>3. call.found = FALSE /\ call.offset = n
    BY <1>1, NoMoreWord
  <2> HIDE DEF Here, all
  <2>4. NextStanding(string, d, [offset |-> n, tokens |-> all]) =
          [offset |-> call.offset,
           tokens |-> IF call.found THEN Append(all, call.token) ELSE all]
    BY DEF NextStanding
  <2> HIDE DEF call
  <2> QED  BY <2>1, <2>2, <2>3, <2>4
<1> HIDE DEF Here
<1>7. Alike(n, rest, g)
  <2>1. g[0] = AtStart
    BY <1>1, <1>4
  <2>2. ASSUME NEW k \in 1 .. n, rest[k - 1] = g[k - 1] PROVE rest[k] = g[k]
    <3>1. g[k] = Here(k) /\ g[k - 1] = Here(k - 1)
      BY <1>1
    <3>2. Here(k) = NextStanding(string, d, Here(k - 1))
      BY <1>5, <1>6
    <3> HIDE DEF g
    <3> QED  BY <1>3, <2>2, <3>1, <3>2
  <2> HIDE DEF g, n
  <2> QED  BY <1>1, <1>3, <2>1, <2>2 DEF Alike
<1>8. rest[n] = Here(n)
  <2>1. \A k \in 0 .. n : rest[k] = g[k]
    BY <1>7, AlikeIsSame
  <2> QED  BY <1>1, <2>1
<1>9. Here(n).tokens = ts
  <2>1. Least(n) = K
    BY <1>1
  <2>2. ts = [j \in 1 .. K |-> ts[j]]
    BY <1>1
  <2> QED  BY <2>1, <2>2 DEF Here
<1>10. Tokens(string, d) = rest[n].tokens
  BY <1>2 DEF Splits
<1> QED  BY <1>8, <1>9, <1>10

\* Where the k-th word is in the string that MergeToken makes, and the delimiter
\* after it.
Placed(ts, c, f, k) ==
  LET m == f[Len(ts)]
      a == Len(f[k - 1])
      w == ts[k]
  IN /\ m \in Seq(Symbols) /\ a \in Nat
     /\ a + Len(w) <= Len(m)
     /\ \A p \in 1 .. Len(w) : m[a + p] = w[p]
     /\ IF k = Len(ts) THEN Len(m) = a + Len(w)
        ELSE /\ Len(f[k]) = a + Len(w) + 1 /\ a + Len(w) + 1 <= Len(m)
             /\ m[a + Len(w) + 1] = c

\* Where MergeToken leaves the words.
LEMMA WordsMerged ==
  ASSUME NEW ts, NEW c, NEW d, NEW f, Merging(ts, c, d), Merges(ts, c, f)
  PROVE  \A k \in 1 .. Len(ts) : Placed(ts, c, f, k)
<1> SUFFICES ASSUME NEW k \in 1 .. Len(ts) PROVE Placed(ts, c, f, k)
  OBVIOUS
<1> DEFINE n == Len(ts)
           m == f[n]
           x == f[k - 1]
           y == f[k]
           w == ts[k]
           last == (k = n)
<1>1. n \in Nat /\ k \in 1 .. n /\ k - 1 \in 0 .. n /\ k \in 0 .. n /\ n \in 0 .. n /\ n \in k .. n
  BY MergingIs
<1>2. \A j \in 0 .. n : f[j] \in Seq(Symbols)
  BY DEF Merges
<1>3. /\ x \in Seq(Symbols) /\ w \in Seq(Symbols) /\ c \in Symbols /\ last \in BOOLEAN
      /\ m \in Seq(Symbols)
      /\ Len(w) \in Nat \ {0} /\ Len(x) \in Nat /\ Len(y) \in Nat /\ Len(m) \in Nat
  BY <1>1, <1>2, MergingIs
<1>4. MergeRound(x, w, c, last, y)
  BY <1>3 DEF Merges, MergeRound
<1>5. Len(y) <= Len(m) /\ \A p \in 1 .. Len(y) : m[p] = y[p]
  BY <1>1, MergedStays
<1>6. last => m = y
  OBVIOUS
<1> HIDE DEF x, y, w, last, m
<1>7. /\ Len(y) = Len(x) + Len(w) + (IF last THEN 0 ELSE 1)
      /\ \A p \in 1 .. Len(w) : y[Len(x) + p] = w[p]
      /\ ~ last => y[Len(x) + Len(w) + 1] = c
  BY <1>4, OneMerge
<1>8. Len(x) + Len(w) <= Len(m)
  BY <1>3, <1>5, <1>7
<1>9. ASSUME NEW p \in 1 .. Len(w) PROVE m[Len(x) + p] = w[p]
  <2>1. Len(x) + p \in 1 .. Len(y)
    BY <1>3, <1>7
  <2> QED  BY <1>5, <1>7, <2>1
<1>10. CASE last
  <2>1. Len(m) = Len(x) + Len(w)
    BY <1>3, <1>6, <1>7, <1>10
  <2> QED  BY <1>3, <1>8, <1>9, <1>10, <2>1, Zenon DEF last, m, x, w, Placed
<1>11. CASE ~ last
  <2>1. Len(y) = Len(x) + Len(w) + 1 /\ Len(x) + Len(w) + 1 <= Len(m)
    BY <1>3, <1>5, <1>7, <1>11
  <2>2. Len(x) + Len(w) + 1 \in 1 .. Len(y)
    BY <1>3, <2>1
  <2>3. m[Len(x) + Len(w) + 1] = c
    BY <1>5, <1>7, <1>11, <2>2
  <2> QED  BY <1>3, <1>8, <1>9, <1>11, <2>1, <2>3, Zenon DEF last, m, x, y, w, Placed
<1> QED  BY <1>10, <1>11

\* A joined string has the words it was joined from.
LEMMA MergedIsLaid ==
  ASSUME NEW ts, NEW c, NEW d, Merging(ts, c, d)
  PROVE  \E from, to : Laid(MergeToken(ts, <<c>>), ts, d, from, to)
<1>1. PICK f : Merges(ts, c, f)
  BY MergesExist
<1> DEFINE n == Len(ts)
           m == f[n]
           from == [k \in 1 .. n |-> Len(f[k - 1])]
           to == [k \in 0 .. n |-> IF k = 0 THEN 0 ELSE Len(f[k - 1]) + Len(ts[k])]
<1>2. n \in Nat /\ n \in 0 .. n /\ c \in d /\ d \in Delimiters /\ ts \in Seq(Words(d))
  BY MergingIs DEF Merging
<1>3. /\ m \in Seq(Symbols) /\ Len(m) \in Nat /\ Len(f[0]) = 0 /\ f[0] = << >>
      /\ MergeToken(ts, <<c>>) = m
  BY <1>1, <1>2 DEF Merges
<1>4. n <= Len(m)
  BY <1>1, <1>2, MergedStays
<1>5. ASSUME NEW k \in 1 .. n
      PROVE  /\ WordAt(m, d, to[k - 1], from[k], to[k])
             /\ SubSeq(m, from[k] + 1, to[k]) = ts[k]
  <2> DEFINE a == Len(f[k - 1])
             w == ts[k]
             e == a + Len(w)
             o == to[k - 1]
  <2>1. /\ a \in Nat /\ e <= Len(m)
        /\ \A p \in 1 .. Len(w) : m[a + p] = w[p]
        /\ IF k = n THEN Len(m) = e ELSE e + 1 <= Len(m) /\ m[e + 1] = c
    <3>1. Placed(ts, c, f, k)
      BY <1>1, WordsMerged
    <3> QED  BY <3>1, Zenon DEF Placed
  <2>2. /\ w \in Seq(Symbols) /\ Len(w) \in Nat \ {0}
        /\ \A p \in 1 .. Len(w) : w[p] \notin d
    BY MergingIs
  <2>3. from[k] = a /\ to[k] = e
    BY <1>2
  <2>4. o \in Nat /\ o <= a /\ \A p \in o + 1 .. a : m[p] = c
    <3>1. CASE k = 1
      <4>1. o = 0 /\ a = 0
        BY <1>2, <1>3, <3>1
      <4> HIDE DEF o, a, m
      <4> QED  BY <4>1
    <3>2. CASE k # 1
      <4> DEFINE h == k - 1
                 b == Len(f[h - 1])
                 v == ts[h]
      <4>1. h \in 1 .. n /\ h # n /\ h # 0
        BY <1>2, <3>2
      <4>2. o = b + Len(v)
        BY <1>2, <4>1
      <4> HIDE DEF h, m
      <4>3. b \in Nat /\ Len(f[h]) = b + Len(v) + 1 /\ m[b + Len(v) + 1] = c
        <5>1. Placed(ts, c, f, h)
          BY <1>1, <4>1, WordsMerged
        <5> QED  BY <4>1, <5>1, Zenon DEF Placed, m
      <4>4. Len(v) \in Nat
        BY <4>1, MergingIs
      <4>5. a = o + 1
        BY <4>2, <4>3 DEF h
      <4> HIDE DEF a, o, b, v
      <4>6. \A p \in o + 1 .. a : p = b + Len(v) + 1
        BY <4>2, <4>3, <4>4, <4>5
      <4> QED  BY <4>2, <4>3, <4>4, <4>5, <4>6
    <3> HIDE DEF a, o, m
    <3> QED  BY <3>1, <3>2
  <2> HIDE DEF a, w, o, m, from, to
  <2>5. \A p \in a + 1 .. e : m[p] \notin d
    <3> SUFFICES ASSUME NEW p \in a + 1 .. e PROVE m[p] \notin d
      OBVIOUS
    <3> DEFINE q == p - a
    <3>1. q \in 1 .. Len(w) /\ a + q = p
      BY <2>1, <2>2
    <3> HIDE DEF q
    <3> QED  BY <2>1, <2>2, <3>1
  <2>6. e < Len(m) => m[e + 1] \in d
    BY <1>2, <1>3, <2>1, <2>2
  <2>7. WordAt(m, d, o, a, e)
    <3>1. e \in Nat /\ a < e
      BY <2>1, <2>2
    <3>2. \A p \in o + 1 .. a : m[p] \in d
      BY <1>2, <2>4
    <3> HIDE DEF e
    <3> QED  BY <1>2, <1>3, <2>1, <2>4, <2>5, <2>6, <3>1, <3>2 DEF WordAt
  <2>8. SubSeq(m, a + 1, e) = w
    <3> DEFINE u == SubSeq(m, a + 1, e)
    <3>1. a + 1 \in Int /\ e \in Int /\ \A p \in a + 1 .. e : m[p] \in Symbols
      BY <1>3, <2>1, <2>2
    <3>2. /\ u \in Seq(Symbols) /\ Len(u) = IF a + 1 <= e THEN e - (a + 1) + 1 ELSE 0
          /\ \A p \in 1 .. e - (a + 1) + 1 : u[p] = m[(a + 1) + p - 1]
      <4> HIDE DEF e
      <4> QED  BY <3>1, SubSeqProperties
    <3> HIDE DEF u
    <3>3. /\ a + 1 <= e /\ e - (a + 1) + 1 = Len(w)
          /\ \A p \in 1 .. Len(w) : (a + 1) + p - 1 = a + p
      BY <2>1, <2>2
    <3> HIDE DEF e
    <3>4. Len(u) = Len(w) /\ \A p \in 1 .. Len(w) : u[p] = w[p]
      BY <2>1, <3>2, <3>3
    <3>5. u = [p \in 1 .. Len(w) |-> u[p]] /\ w = [p \in 1 .. Len(w) |-> w[p]]
      BY <2>2, <3>2, <3>4
    <3>6. u = w
      BY <3>4, <3>5
    <3> QED  BY <3>6 DEF u
  <2> QED  BY <2>3, <2>7, <2>8 DEF o, w
<1>6. to[0] = 0 /\ to[n] = Len(m)
  <2>1. CASE n = 0
    BY <1>2, <1>3, <2>1
  <2>2. CASE n # 0
    <3>1. n \in 1 .. n
      BY <1>2, <2>2
    <3>2. Len(m) = Len(f[n - 1]) + Len(ts[n])
      <4>1. Placed(ts, c, f, n)
        BY <1>1, <3>1, WordsMerged
      <4> QED  BY <4>1, Zenon DEF Placed
    <3> QED  BY <1>2, <2>2, <3>2
  <2> QED  BY <2>1, <2>2
<1> HIDE DEF from, to, m
<1>7. Laid(m, ts, d, from, to)
  BY <1>2, <1>3, <1>4, <1>5, <1>6 DEF Laid
<1> QED  BY <1>3, <1>7

\* Joined and cut again, words are themselves.
LEMMA MergedAndCut ==
  ASSUME NEW ts, NEW c, NEW d, Merging(ts, c, d)
  PROVE  Tokens(MergeToken(ts, <<c>>), d) = ts
<1>1. PICK from, to : Laid(MergeToken(ts, <<c>>), ts, d, from, to)
  BY MergedIsLaid
<1> DEFINE m == MergeToken(ts, <<c>>)
<1> HIDE DEF m
<1>2. Laid(m, ts, d, from, to)
  BY <1>1 DEF m
<1>3. Tokens(m, d) = ts
  BY <1>2, WordsAreFound
<1> QED  BY <1>3 DEF m

\* Under the invariant, joining and cutting undo each other, and what the text
\* says does not change.
LEMMA MergeInverseHolds == TokenInv => MergeInverse
<1> SUFFICES ASSUME TokenInv PROVE MergeInverse
  OBVIOUS
<1> DEFINE string == tokenizer.string
<1>1. string \in Seq(Symbols)
  BY TokenizerAssumption DEF TokenInv, Strings
<1> HIDE DEF string
<1>2. ASSUME NEW d \in Delimiters, NEW c \in d
      PROVE  LET tokens == Tokens(string, d)
                 merged == MergeToken(tokens, <<c>>)
             IN /\ Tokens(merged, d) = tokens
                /\ number_cast_bool(merged, d) = number_cast_bool(string, d)
  <2> DEFINE tokens == Tokens(string, d)
             merged == MergeToken(tokens, <<c>>)
  <2>1. tokens \in Seq(Words(d))
    BY <1>1, TokensAreWords
  <2> HIDE DEF tokens
  <2>2. Merging(tokens, c, d)
    BY <2>1 DEF Merging
  <2>3. Tokens(merged, d) = tokens
    BY <2>2, MergedAndCut
  <2> HIDE DEF merged
  <2>4. number_cast_bool(merged, d) = number_cast_bool(string, d)
    BY <2>3, Zenon DEF number_cast_bool, tokens
  <2> QED  BY <2>3, <2>4 DEF tokens, merged
<1> QED  BY <1>2, Zenon DEF MergeInverse, string

\* The tokens of a string, joined by a delimiter and cut again, are the same
\* tokens, for every string, every set of delimiters and every one of them.
THEOREM MergeInverseAlways == TokenSpec => []MergeInverse
<1> QED  BY TokenInitially, TokenStep, MergeInverseHolds, PTL DEF TokenSpec

-----------------------------------------------------------------------------
(* Short link packer.                                                       *)

LengthField == "Content-Length"

ShortInv ==
  /\ request \in [query : BOOLEAN, body : 0 .. MaxBody, replaces : BOOLEAN,
                  given : UNION {[1 .. n -> HeaderNames] : n \in 0 .. MaxHeaders}]
  /\ packed \in {Nothing,
       shortlink_pack(request.query, request.given, request.body, request.replaces)}

\* The message is the one the packer makes of the request, or none.
LEMMA ShortInductive == ShortSpec => []ShortInv
<1>1. ShortInit => ShortInv
  BY DEF ShortInit, ShortInv
<1>2. ShortInv /\ [PackRequest]_shortVars => ShortInv'
  <2> SUFFICES ASSUME ShortInv, [PackRequest]_shortVars PROVE ShortInv'
    OBVIOUS
  <2>1. request' = request
    BY DEF PackRequest, shortVars
  <2>2. packed' \in {packed,
          shortlink_pack(request.query, request.given, request.body, request.replaces)}
    BY DEF PackRequest, shortVars
  <2> QED  BY <2>1, <2>2 DEF ShortInv
<1> QED  BY <1>1, <1>2, PTL DEF ShortSpec

\* A power of two is as many as the subsets of what it is the power of.
LEMMA PowerIsNumber == ASSUME NEW n \in Nat PROVE 2 ^ n \in Nat
<1>1. IsFiniteSet(1 .. n) /\ Cardinality(1 .. n) = n
  BY FS_Interval
<1>2. IsFiniteSet(SUBSET (1 .. n)) /\ Cardinality(SUBSET (1 .. n)) = 2 ^ n
  BY <1>1, FS_SUBSET
<1> QED  BY <1>2, FS_CardinalityType

\* A length that fits is printed as it is.
LEMMA PrintedFits ==
  ASSUME NEW length \in Nat, ~ length >= 2 ^ LengthBits
  PROVE  Printed(length) = length
<1> DEFINE M == 2 ^ LengthBits
<1>1. M \in Nat
  BY ShortLinkAssumption, PowerIsNumber
<1>2. Printed(length) = length % M
  BY DEF Printed
<1>3. ~ length >= M
  OBVIOUS
<1> HIDE DEF M
<1> QED  BY <1>1, <1>2, <1>3

HeaderList(given, n) == given \in [1 .. n -> HeaderNames]
NamesLength(given)   == \E k \in DOMAIN given : Field(given[k]) = LengthField

\* The loop over the caller's headers sets a length only if one of them is it.
LEMMA NoLengthFiled ==
  ASSUME NEW n \in Nat, NEW given, HeaderList(given, n),
         NEW replaces, ~ NamesLength(given)
  PROVE  LengthField \notin DOMAIN Headers(given, replaces)
<1> DEFINE Names == DOMAIN FixedFields \cup {Field(given[k]) : k \in 1 .. n}
           FieldSets == UNION {[S -> {"fixed", Given}] : S \in SUBSET Names}
           After(fields, k) == HeaderFiled(fields, given[k], Given, replaces)
           set[k \in 0 .. n] == IF k = 0 THEN FixedFields ELSE After(set[k - 1], k)
           base == FixedFields
           next == [k \in 1 .. n |-> [fields \in FieldSets |-> After(fields, k)]]
<1>1. LengthField \notin Names
  BY DEF FixedFields, LengthField, NamesLength, HeaderList
<1>2. Len(given) = n
  BY DEF HeaderList
<1>3. base \in FieldSets
  <2>1. base \in [DOMAIN FixedFields -> {"fixed", Given}]
    BY DEF FixedFields
  <2> QED  BY <2>1
<1>4. ASSUME NEW fields \in FieldSets, NEW k \in 1 .. n PROVE After(fields, k) \in FieldSets
  <2>1. PICK S \in SUBSET Names : fields \in [S -> {"fixed", Given}]
    OBVIOUS
  <2>2. Field(given[k]) \in Names
    OBVIOUS
  <2> HIDE DEF Names
  <2>3. \/ After(fields, k) \in [S -> {"fixed", Given}]
        \/ After(fields, k) \in [S \cup {Field(given[k])} -> {"fixed", Given}]
    BY <2>1 DEF HeaderFiled
  <2> QED  BY <2>2, <2>3
<1>5. next \in [1 .. n -> [FieldSets -> FieldSets]] /\ \A k \in 1 .. n, fields \in FieldSets : next[k][fields] = After(fields, k)
  <2> HIDE DEF FieldSets, After
  <2> QED  BY <1>4
<1>6. set = [k \in 0 .. n |-> IF k = 0 THEN base ELSE After(set[k - 1], k)]
  <2> HIDE DEF next, After, FieldSets, base
  <2>0. Rounds(n, FieldSets, base, next)
    BY <1>3, <1>5 DEF Rounds
  <2>1. PICK f \in [0 .. n -> FieldSets] : f[0] = base /\ \A k \in 1 .. n : f[k] = next[k][f[k - 1]]
    BY <2>0, RoundsExist
  <2>2. ASSUME NEW k \in 0 .. n
        PROVE  f[k] = IF k = 0 THEN base ELSE After(f[k - 1], k)
    BY <1>5, <2>1
  <2>3. f = [k \in 0 .. n |-> IF k = 0 THEN base ELSE After(f[k - 1], k)]
    BY <2>2
  <2> QED  BY <2>3, Zenon DEF base
<1>7. Headers(given, replaces) = set[n]
  BY <1>2, Zenon DEF Headers
<1>8. set[n] \in FieldSets
  <2> HIDE DEF set, FieldSets, After, base
  <2>1. set[0] \in FieldSets
    BY <1>3, <1>6
  <2>2. ASSUME NEW k \in 1 .. n, set[k - 1] \in FieldSets PROVE set[k] \in FieldSets
    <3>1. set[k] = After(set[k - 1], k)
      BY <1>6
    <3> QED  BY <1>4, <2>2, <3>1
  <2>3. \A k \in 0 .. n : set[k] \in FieldSets
    BY <2>1, <2>2, LoopStays
  <2> QED  BY <2>3
<1>9. \A fields \in FieldSets : DOMAIN fields \subseteq Names
  OBVIOUS
<1> HIDE DEF set, FieldSets, Names
<1> QED  BY <1>1, <1>7, <1>8, <1>9

\* HeaderFields has what was set last, or, if the first value stands, what was
\* set first.
LEMMA FiledStands ==
  ASSUME NEW fields, NEW value, NEW replaces \in BOOLEAN,
         replaces \/ LengthField \notin DOMAIN fields
  PROVE  LET filed == HeaderFiled(fields, LengthField, value, replaces)
         IN LengthField \in DOMAIN filed /\ filed[LengthField] = value
<1>1. Field(LengthField) = LengthField
  BY DEF Field, LengthField
<1> HIDE DEF LengthField
<1> QED  BY <1>1 DEF HeaderFiled

\* What the packer makes of a request declares the length of its body.
LEMMA LengthFollows == ShortInv => LengthHonest
<1> SUFFICES ASSUME ShortInv, packed # Nothing, ~ request.body >= 2 ^ LengthBits,
                    ~ (GivesLength /\ (packed.method = "GET" \/ ~ request.replaces))
             PROVE  LET declared == IF LengthField \in DOMAIN packed.fields
                                    THEN packed.fields[LengthField] ELSE 0
                    IN declared = packed.body
  BY Zenon DEF LengthHonest, LengthField
<1> DEFINE given    == request.given
           replaces == request.replaces
           body     == request.body
           fields   == Headers(given, replaces)
           typed    == HeaderFiled(fields, "Content-Type", "application/json", replaces)
           sized    == HeaderFiled(typed, LengthField, Printed(body), replaces)
<1>1. packed = IF request.query THEN [method |-> "GET", fields |-> fields, body |-> 0]
               ELSE [method |-> "POST", fields |-> sized, body |-> body]
  BY DEF ShortInv, shortlink_pack, LengthField
<1>2. body \in Nat /\ replaces \in BOOLEAN /\ request.query \in BOOLEAN
  BY ShortLinkAssumption DEF ShortInv
<1>3. PICK n \in 0 .. MaxHeaders : given \in [1 .. n -> HeaderNames]
  BY DEF ShortInv
<1>4. ~ GivesLength => LengthField \notin DOMAIN fields
  <2> HIDE DEF given, replaces
  <2>1. ~ GivesLength => ~ NamesLength(given)
    BY DEF GivesLength, NamesLength, given, LengthField
  <2>2. n \in Nat /\ HeaderList(given, n)
    BY <1>3, ShortLinkAssumption DEF HeaderList
  <2> QED  BY <1>2, <2>1, <2>2, NoLengthFiled
<1> HIDE DEF fields
<1>5. CASE request.query
  <2>1. packed.method = "GET" /\ packed.fields = fields /\ packed.body = 0
    BY <1>1, <1>5
  <2> QED  BY <1>4, <2>1
<1>6. CASE ~ request.query
  <2>1. packed.fields = sized /\ packed.body = body
    BY <1>1, <1>6
  <2>2. LengthField \in DOMAIN typed => LengthField \in DOMAIN fields
    BY DEF HeaderFiled, Field, LengthField
  <2>3. replaces \/ LengthField \notin DOMAIN typed
    BY <1>4, <2>2
  <2>4. LengthField \in DOMAIN sized /\ sized[LengthField] = Printed(body)
    <3> HIDE DEF typed, replaces
    <3> QED  BY <1>2, <2>3, FiledStands
  <2>5. Printed(body) = body
    BY <1>2, PrintedFits
  <2> QED  BY <2>1, <2>4, <2>5
<1> QED  BY <1>5, <1>6

\* A server that reads Content-Length reads the body that was packed, for any
\* number of headers of the caller, outside of the three cases LengthHonest names.
THEOREM LengthHonestAlways == ShortSpec => []LengthHonest
<1> QED  BY ShortInductive, LengthFollows, PTL
-----------------------------------------------------------------------------
(* Casts: how long a loop that divides a number of some bits can run.       *)

\* One bit more is twice the numbers.
LEMMA PowerDoubles == ASSUME NEW n \in Nat PROVE 2 ^ (n + 1) = 2 * 2 ^ n
<1> DEFINE A    == SUBSET (1 .. n)
           all  == SUBSET (1 .. n + 1)
           B    == {P \in all : n + 1 \in P}
           f    == [P \in A |-> P \cup {n + 1}]
<1>1. /\ IsFiniteSet(A) /\ Cardinality(A) = 2 ^ n
      /\ IsFiniteSet(all) /\ Cardinality(all) = 2 ^ (n + 1)
  <2>1. IsFiniteSet(1 .. n) /\ Cardinality(1 .. n) = n
    BY FS_Interval
  <2>2. IsFiniteSet(1 .. n + 1) /\ Cardinality(1 .. n + 1) = n + 1
    BY FS_Interval
  <2>3. IsFiniteSet(A) /\ Cardinality(A) = 2 ^ n
    BY <2>1, FS_SUBSET
  <2>4. IsFiniteSet(all) /\ Cardinality(all) = 2 ^ (n + 1)
    BY <2>2, FS_SUBSET
  <2> QED  BY <2>3, <2>4
<1>2. f \in Bijection(A, B)
  <2>1. f \in [A -> B]
    OBVIOUS
  <2>2. ASSUME NEW P \in A, NEW Q \in A, f[P] = f[Q] PROVE P = Q
    <3>1. n + 1 \notin P /\ n + 1 \notin Q
      OBVIOUS
    <3> QED  BY <2>2, <3>1
  <2>3. ASSUME NEW Q \in B PROVE \E P \in A : f[P] = Q
    <3>1. Q \ {n + 1} \in A
      OBVIOUS
    <3>2. f[Q \ {n + 1}] = Q
      BY <3>1
    <3> QED  BY <3>1, <3>2
  <2> HIDE DEF A, B, f
  <2> QED  BY <2>1, <2>2, <2>3 DEF Bijection, Injection, Surjection, IsInjective
<1>3. IsFiniteSet(B) /\ Cardinality(B) = 2 ^ n
  <2>1. ExistsBijection(A, B)
    BY <1>2, Zenon DEF ExistsBijection
  <2> HIDE DEF A, B
  <2> QED  BY <1>1, <2>1, FS_Bijection
<1>4. all = A \cup B /\ A \cap B = {}
  <2>1. ASSUME NEW P \in all, n + 1 \notin P PROVE P \in A
    BY <2>1
  <2> QED  BY <2>1
<1>5. Cardinality(A \cup B) = Cardinality(A) + Cardinality(B) - Cardinality(A \cap B)
  <2> HIDE DEF A, B
  <2> QED  BY <1>1, <1>3, FS_Union
<1>6. 2 ^ n \in Nat
  BY PowerIsNumber
<1>7. Cardinality(A \cap B) = 0
  BY <1>4, FS_EmptySet
<1> DEFINE one == 2 ^ n
           two == 2 ^ (n + 1)
<1>8. two = one + one - 0 /\ one \in Nat
  BY <1>1, <1>3, <1>4, <1>5, <1>6, <1>7
<1> HIDE DEF one, two
<1>9. two = 2 * one
  BY <1>8
<1> QED  BY <1>9 DEF one, two

\* Fewer bits hold no more numbers, and at least one.
LEMMA PowerGrows ==
  ASSUME NEW m \in Nat, NEW n \in Nat, m <= n
  PROVE  2 ^ m <= 2 ^ n /\ 1 <= 2 ^ m
<1> DEFINE S == SUBSET (1 .. m)
           T == SUBSET (1 .. n)
<1>1. /\ IsFiniteSet(S) /\ Cardinality(S) = 2 ^ m
      /\ IsFiniteSet(T) /\ Cardinality(T) = 2 ^ n
  <2>1. IsFiniteSet(1 .. m) /\ Cardinality(1 .. m) = m /\ IsFiniteSet(1 .. n) /\ Cardinality(1 .. n) = n
    BY FS_Interval
  <2>2. IsFiniteSet(S) /\ Cardinality(S) = 2 ^ m
    BY <2>1, FS_SUBSET
  <2>3. IsFiniteSet(T) /\ Cardinality(T) = 2 ^ n
    BY <2>1, FS_SUBSET
  <2> QED  BY <2>2, <2>3
<1>2. S \in SUBSET T
  OBVIOUS
<1>3. Cardinality(S) <= Cardinality(T)
  <2> HIDE DEF S, T
  <2> QED  BY <1>1, <1>2, FS_Subset
<1>4. {} \in S
  OBVIOUS
<1>5. Cardinality(S) # 0 /\ Cardinality(S) \in Nat
  <2> HIDE DEF S
  <2> QED  BY <1>1, <1>4, FS_EmptySet, FS_CardinalityType
<1> HIDE DEF S, T
<1>6. Cardinality(S) <= Cardinality(T) /\ 1 <= Cardinality(S)
  BY <1>3, <1>5
<1> QED  BY <1>1, <1>6

-----------------------------------------------------------------------------
(* Casts: the digits of a number.                                           *)

\* What is left of a number after each division, until nothing is.
Halving(left, n, m, b) ==
  /\ n \in Nat \ {0} /\ left \in [0 .. n -> Nat] /\ left[0] = m /\ left[n] = 0
  /\ \A k \in 1 .. n : left[k] = left[k - 1] \div b
  /\ \A k \in 1 .. n - 1 : left[k] # 0

LowestFirst(left, n, b)  == [k \in 1 .. n |-> left[k - 1] - left[k] * b]
HighestFirst(left, n, b) == [k \in 1 .. n |-> left[n - k] - left[n + 1 - k] * b]

\* One division leaves at most the half, and a digit as remainder.
LEMMA OneDivision ==
  ASSUME NEW m \in Nat, NEW b \in Bases
  PROVE  /\ m \div b \in Nat /\ m - (m \div b) * b \in 0 .. b - 1
         /\ 2 * (m \div b) <= m
         /\ 3 <= b => 3 * (m \div b) <= m
         /\ b = 16 => 8 * (m \div b) <= m
<1>1. m \div b \in Nat /\ m - (m \div b) * b \in 0 .. b - 1
  BY DEF Bases
<1>2. 2 * (m \div b) <= m
  BY DEF Bases
<1>3. 3 <= b => 3 * (m \div b) <= m
  BY DEF Bases
<1>4. b = 16 => 8 * (m \div b) <= m
  OBVIOUS
<1> QED  BY <1>1, <1>2, <1>3, <1>4

\* Half of what is less than a power of two is less than the power before.
LEMMA HalfOfPower ==
  ASSUME NEW e \in Nat, NEW x \in Nat, NEW y \in Nat, 2 * y <= x, x < 2 ^ (e + 1)
  PROVE  y < 2 ^ e
<1> DEFINE p == 2 ^ e
           q == 2 ^ (e + 1)
<1>1. q = 2 * p
  BY PowerDoubles
<1>2. p \in Nat /\ x < q
  BY PowerIsNumber
<1> HIDE DEF p, q
<1>3. y < p
  BY <1>1, <1>2
<1> QED  BY <1>3 DEF p

\* From where less than a power of two is left, no more divisions follow than
\* the exponent.
LEMMA HalvingFast ==
  ASSUME NEW left, NEW n, NEW m, NEW b \in Bases, Halving(left, n, m, b),
         NEW j \in 0 .. n, NEW e \in Nat, left[j] < 2 ^ e, 1 <= j + e
  PROVE  n <= j + e
<1> DEFINE Small(i) == i <= e /\ j + i <= n => left[j + i] < 2 ^ (e - i)
           S == {i \in Nat : Small(i)}
<1>1. n \in Nat /\ \A k \in 0 .. n : left[k] \in Nat
  BY DEF Halving
<1>2. 0 \in S
  OBVIOUS
<1>3. ASSUME NEW i \in Nat, i \in S PROVE i + 1 \in S
  <2> SUFFICES ASSUME i + 1 <= e, j + (i + 1) <= n PROVE left[j + (i + 1)] < 2 ^ (e - (i + 1))
    OBVIOUS
  <2> DEFINE d == e - (i + 1)
             x == left[j + i]
             y == left[j + (i + 1)]
  <2>1. x < 2 ^ (e - i)
    BY <1>1, <1>3
  <2>2. d \in Nat /\ e - i = d + 1
    OBVIOUS
  <2>3. x < 2 ^ (d + 1)
    BY <2>1, <2>2
  <2>4. x \in Nat /\ y \in Nat
    BY <1>1
  <2>5. y = x \div b
    <3> DEFINE k == j + (i + 1)
    <3>1. k \in 1 .. n /\ k - 1 = j + i
      BY <1>1
    <3> HIDE DEF k
    <3>2. left[k] = left[k - 1] \div b
      BY <3>1 DEF Halving
    <3> QED  BY <3>1, <3>2 DEF k
  <2> HIDE DEF d, x, y
  <2>6. 2 * y <= x
    BY <2>4, <2>5, OneDivision
  <2>7. y < 2 ^ d
    BY <2>2, <2>3, <2>4, <2>6, HalfOfPower
  <2> QED  BY <2>7 DEF d, y
<1>4. Nat \subseteq S
  <2> HIDE DEF S
  <2> QED  BY <1>2, <1>3, NatInductionOnSet
<1>5. CASE j + e < n
  <2>1. left[j + e] < 2 ^ (e - e)
    <3>1. e \in S
      BY <1>4
    <3>2. Small(e)
      BY <3>1
    <3> QED  BY <1>1, <1>5, <3>2
  <2>2. 2 ^ (e - e) = 1
    <3>1. e - e = 0
      OBVIOUS
    <3>2. 2 ^ 0 = 1
      OBVIOUS
    <3> QED  BY <3>1, <3>2
  <2> DEFINE k == j + e
  <2>3. k \in 1 .. n - 1 /\ left[k] \in Nat /\ left[k] < 1
    BY <1>1, <1>5, <2>1, <2>2
  <2> HIDE DEF k
  <2>4. left[k] # 0
    BY <2>3 DEF Halving
  <2> QED  BY <2>3, <2>4
<1> QED  BY <1>1, <1>5

\* A number can be divided as often as one likes.
LEMMA DivisionsExist ==
  ASSUME NEW m \in Nat, NEW bits \in Nat, NEW b \in Bases
  PROVE  \E f \in [0 .. bits -> Nat] : f[0] = m /\ \A k \in 1 .. bits : f[k] = f[k - 1] \div b
<1> DEFINE divided == [x \in Nat |-> x \div b]
<1>1. divided \in [Nat -> Nat] /\ \A x \in Nat : divided[x] = x \div b
  <2>1. \A x \in Nat : x \div b \in Nat
    BY OneDivision
  <2> QED  BY <2>1
<1> HIDE DEF divided
<1> DEFINE N == Nat
<1>2. Steps(bits, N, m, divided)
  BY <1>1 DEF Steps
<1>3. PICK f \in [0 .. bits -> Nat] : f[0] = m /\ \A k \in 1 .. bits : f[k] = divided[f[k - 1]]
  <2> HIDE DEF N
  <2>1. \E f \in [0 .. bits -> N] : f[0] = m /\ \A k \in 1 .. bits : f[k] = divided[f[k - 1]]
    BY <1>2, StepsExist
  <2> QED  BY <2>1 DEF N
<1>4. ASSUME NEW k \in 1 .. bits PROVE f[k] = f[k - 1] \div b
  <2>1. f[k - 1] \in Nat
    OBVIOUS
  <2> QED  BY <1>1, <1>3, <2>1
<1> QED  BY <1>3, <1>4

\* Every number of so many bits is halved to nothing in so many divisions.
LEMMA HalvingEnds ==
  ASSUME NEW m \in Nat, NEW bits \in Nat \ {0}, m < 2 ^ bits, NEW b \in Bases
  PROVE  \E n \in 1 .. bits : \E left : Halving(left, n, m, b)
<1>1. bits \in Nat
  OBVIOUS
<1>2. PICK f \in [0 .. bits -> Nat] : f[0] = m /\ \A k \in 1 .. bits : f[k] = f[k - 1] \div b
  BY <1>1, DivisionsExist
<1>3. \A k \in 1 .. bits : f[k] = f[k - 1] \div b
  BY <1>2
<1>4. PICK z \in 1 .. bits : f[z] = 0 /\ \A h \in 1 .. bits : f[h] = 0 => z <= h
  <2> DEFINE Zeros == {k \in 1 .. bits : f[k] = 0}
  <2>1. Zeros # {}
    <3> SUFFICES ASSUME Zeros = {} PROVE FALSE
      OBVIOUS
    <3>1. \A k \in 1 .. bits : f[k] # 0
      OBVIOUS
    <3> DEFINE Small(i) == i <= bits => f[i] < 2 ^ (bits - i)
               S == {i \in Nat : Small(i)}
    <3>2. 0 \in S
      BY <1>2
    <3>3. ASSUME NEW i \in Nat, i \in S PROVE i + 1 \in S
      <4> SUFFICES ASSUME i + 1 <= bits PROVE f[i + 1] < 2 ^ (bits - (i + 1))
        OBVIOUS
      <4> DEFINE e == bits - (i + 1)
                 x == f[i]
                 y == f[i + 1]
      <4>1. e \in Nat /\ bits - i = e + 1 /\ i \in 0 .. bits /\ i + 1 \in 1 .. bits
        OBVIOUS
      <4>2. x < 2 ^ (e + 1)
        BY <3>3, <4>1
      <4>3. x \in Nat /\ y \in Nat
        BY <4>1
      <4>4. y = x \div b
        <5> DEFINE k == i + 1
        <5>1. k \in 1 .. bits /\ k - 1 = i
          BY <4>1
        <5> HIDE DEF k
        <5>2. f[k] = f[k - 1] \div b
          BY <1>3, <5>1
        <5> QED  BY <5>1, <5>2 DEF k
      <4> HIDE DEF e, x, y
      <4>5. 2 * y <= x
        BY <4>3, <4>4, OneDivision
      <4>6. y < 2 ^ e
        BY <4>1, <4>2, <4>3, <4>5, HalfOfPower
      <4> QED  BY <4>6 DEF e, y
    <3>4. Nat \subseteq S
      <4> HIDE DEF S
      <4> QED  BY <3>2, <3>3, NatInductionOnSet
    <3>5. Small(bits)
      <4>1. bits \in S
        BY <3>4
      <4> QED  BY <4>1
    <3>6. 2 ^ (bits - bits) = 1
      <4>1. bits - bits = 0
        OBVIOUS
      <4>2. 2 ^ 0 = 1
        OBVIOUS
      <4> QED  BY <4>1, <4>2
    <3>7. f[bits] < 1 /\ f[bits] \in Nat
      BY <3>5, <3>6
    <3> QED  BY <3>1, <3>7
  <2>2. Zeros \in SUBSET Nat
    OBVIOUS
  <2>3. PICK z \in Zeros : \A h \in Zeros : z <= h
    <3> HIDE DEF Zeros
    <3> QED  BY <2>1, <2>2, LeastNumber
  <2> QED  BY <2>3
<1> DEFINE left == [k \in 0 .. z |-> f[k]]
<1>5. Halving(left, z, m, b)
  <2>1. \A k \in 0 .. z : k \in 0 .. bits /\ left[k] = f[k]
    OBVIOUS
  <2>2. left \in [0 .. z -> Nat]
    BY <2>1
  <2>3. ASSUME NEW k \in 1 .. z PROVE left[k] = left[k - 1] \div b
    <3>1. k \in 1 .. bits /\ k \in 0 .. z /\ k - 1 \in 0 .. z
      OBVIOUS
    <3> HIDE DEF left
    <3> QED  BY <1>3, <2>1, <3>1
  <2>4. ASSUME NEW k \in 1 .. z - 1 PROVE left[k] # 0
    <3>1. k \in 1 .. bits /\ ~ z <= k
      OBVIOUS
    <3> QED  BY <1>4, <3>1
  <2>5. left[0] = m /\ left[z] = 0 /\ z \in Nat \ {0}
    BY <1>2, <1>4
  <2> HIDE DEF left
  <2> QED  BY <2>2, <2>3, <2>4, <2>5 DEF Halving
<1> QED  BY <1>5

\* Before the last division something is left, unless nothing was from the start.
LEMMA LeftBefore ==
  ASSUME NEW left, NEW n, NEW m, NEW b \in Bases, Halving(left, n, m, b)
  PROVE  n # 1 => left[n - 1] # 0
<1>1. n \in Nat \ {0}
  BY DEF Halving
<1>2. n # 1 => n - 1 \in 1 .. n - 1
  BY <1>1
<1> QED  BY <1>2 DEF Halving

\* Nothing has no sign.
LEMMA MinusNothing == \A x \in Int : x = 0 => -x = 0
<1>1. ASSUME NEW x \in Int, x <= 0, 0 <= x PROVE -x = 0
  BY <1>1
<1>2. \A x \in Int : x = 0 => x <= 0 /\ 0 <= x
  OBVIOUS
<1> QED  BY <1>1, <1>2, Zenon

\* One round of the do-while loop on a value of which the magnitude is m: what is
\* left keeps the sign, and the digit has none.
LEMMA RoundOfDigits ==
  ASSUME NEW m \in Nat, NEW b \in Bases, NEW negative \in BOOLEAN,
         NEW v, v = IF negative THEN -m ELSE m
  PROVE  /\ Quotient(v, b) = IF negative THEN -(m \div b) ELSE m \div b
         /\ Digit(v - Quotient(v, b) * b) = m - (m \div b) * b
<1> DEFINE q == m \div b
<1>1. q \in Nat /\ m - q * b \in 0 .. b - 1 /\ b \in Nat
  BY OneDivision DEF Bases
<1>2. m = 0 => q = 0
  BY <1>1, OneDivision
<1>3. Quotient(v, b) = IF negative THEN -q ELSE q
  <2>1. CASE ~ negative
    BY <2>1 DEF Quotient
  <2>2. CASE negative /\ m = 0
    <3>1. v = -m
      BY <2>2
    <3>2. v = 0
      <4>1. m \in Int /\ m = 0
        BY <2>2
      <4> QED  BY <3>1, <4>1, MinusNothing, Zenon
    <3> QED  BY <1>2, <2>2, <3>2 DEF Quotient
  <2>3. CASE negative /\ m # 0
    <3>1. v < 0 /\ -v = m
      BY <2>3
    <3>2. Magnitude(v) = m
      BY <3>1 DEF Magnitude
    <3> QED  BY <2>3, <3>1, <3>2 DEF Quotient
  <2> QED  BY <2>1, <2>2, <2>3
<1> HIDE DEF q
<1>4. Digit(v - Quotient(v, b) * b) = m - q * b
  <2> DEFINE p == q * b
  <2>1. p \in Int /\ m - p \in 0 .. b - 1
    BY <1>1
  <2>2. (-q) * b = -p
    BY <1>1
  <2>3. v - Quotient(v, b) * b = IF negative THEN -(m - p) ELSE m - p
    <3>1. CASE negative
      <4>1. v - Quotient(v, b) * b = -m - (-q) * b
        BY <1>3, <3>1
      <4> HIDE DEF p
      <4> QED  BY <2>1, <2>2, <3>1, <4>1
    <3>2. CASE ~ negative
      BY <1>3, <3>2
    <3> QED  BY <3>1, <3>2
  <2> HIDE DEF p
  <2>4. m - p \in Nat /\ (v - Quotient(v, b) * b) \in {-(m - p), m - p}
    BY <1>1, <2>1, <2>3
  <2>5. Digit(v - Quotient(v, b) * b) = m - p
    BY <2>4 DEF Digit, Magnitude
  <2> QED  BY <2>5 DEF p
<1> QED  BY <1>3, <1>4 DEF q

\* The do-while loop writes the digits of the halving, lowest first.
LEMMA DigitsAre ==
  ASSUME NEW v \in Int, NEW b \in Bases, NEW left, NEW n, n <= WideBits,
         Halving(left, n, Magnitude(v), b)
  PROVE  DigitsOf(v, b) = LowestFirst(left, n, b)
<1> DEFINE first == [left |-> v, text |-> << >>]
           After(s, k) ==
             IF k > 1 /\ s.left = 0 THEN s
             ELSE [left |-> Quotient(s.left, b),
                   text |-> Append(s.text, Digit(s.left - Quotient(s.left, b) * b))]
           digits[k \in 0 .. WideBits] == IF k = 0 THEN first ELSE After(digits[k - 1], k)
           Signed(x) == IF v < 0 THEN -x ELSE x
           Taken(k) == IF k <= n THEN k ELSE n
           Text(k) == [j \in 1 .. k |-> left[j - 1] - left[j] * b]
           g == [k \in 0 .. WideBits |-> [left |-> Signed(left[Taken(k)]), text |-> Text(Taken(k))]]
<1>1. /\ n \in Nat \ {0} /\ WideBits \in Nat /\ left \in [0 .. n -> Nat]
      /\ left[0] = Magnitude(v) /\ left[n] = 0
      /\ \A k \in 1 .. n : left[k] = left[k - 1] \div b
      /\ \A k \in 1 .. n - 1 : left[k] # 0
  BY WidthAssumption DEF Halving
<1>2. \A k \in 0 .. WideBits : Taken(k) \in 0 .. n
  BY <1>1
<1>3. g[0] = first
  <2>1. Taken(0) = 0 /\ 0 \in 0 .. WideBits
    BY <1>1
  <2>2. Signed(left[0]) = v
    BY <1>1 DEF Magnitude
  <2>3. Text(0) = << >>
    OBVIOUS
  <2> HIDE DEF Signed, Taken, Text
  <2> QED  BY <2>1, <2>2, <2>3
<1>4. ASSUME NEW k \in 1 .. WideBits PROVE g[k] = After(g[k - 1], k)
  <2>0. k \in 0 .. WideBits /\ k - 1 \in 0 .. WideBits
    BY <1>1
  <2>1. /\ g[k] = [left |-> Signed(left[Taken(k)]), text |-> Text(Taken(k))]
        /\ g[k - 1] = [left |-> Signed(left[Taken(k - 1)]), text |-> Text(Taken(k - 1))]
    <3> HIDE DEF Signed, Taken, Text
    <3> QED  BY <2>0
  <2>2. CASE k <= n
    <3> DEFINE m == left[k - 1]
    <3>1. Taken(k) = k /\ Taken(k - 1) = k - 1 /\ k \in 1 .. n /\ k - 1 \in 0 .. n
      BY <1>1, <2>2
    <3>2. m \in Nat /\ left[k] = m \div b /\ (k > 1 => m # 0)
      BY <1>1, <3>1
    <3>3. k > 1 => Signed(m) # 0
      BY <3>2
    <3>4. /\ Quotient(Signed(m), b) = Signed(left[k])
          /\ Digit(Signed(m) - Quotient(Signed(m), b) * b) = m - left[k] * b
      <4> DEFINE negative == v < 0
      <4>1. negative \in BOOLEAN /\ Signed(m) = IF negative THEN -m ELSE m
        OBVIOUS
      <4> HIDE DEF negative, m
      <4>2. /\ Quotient(Signed(m), b) = IF negative THEN -(m \div b) ELSE m \div b
            /\ Digit(Signed(m) - Quotient(Signed(m), b) * b) = m - (m \div b) * b
        <5> DEFINE w == Signed(m)
        <5>1. m \in Nat /\ negative \in BOOLEAN /\ w = IF negative THEN -m ELSE m
          BY <3>2, <4>1
        <5> HIDE DEF w
        <5>2. /\ Quotient(w, b) = IF negative THEN -(m \div b) ELSE m \div b
              /\ Digit(w - Quotient(w, b) * b) = m - (m \div b) * b
          BY <5>1, RoundOfDigits
        <5> QED  BY <5>2 DEF w
      <4> QED  BY <3>2, <4>2 DEF negative
    <3>5. Append(Text(k - 1), m - left[k] * b) = Text(k)
      <4> DEFINE d == [j \in 1 .. n |-> left[j - 1] - left[j] * b]
      <4>1. Text(k) = [j \in 1 .. k |-> d[j]] /\ Text(k - 1) = [j \in 1 .. k - 1 |-> d[j]]
        <5>1. \A j \in 1 .. k : d[j] = left[j - 1] - left[j] * b
          <6>1. \A j \in 1 .. k : j \in 1 .. n
            BY <1>1, <3>1
          <6> QED  BY <6>1, Zenon
        <5>2. \A j \in 1 .. k - 1 : j \in 1 .. k
          BY <3>1
        <5> HIDE DEF d
        <5> QED  BY <5>1, <5>2
      <4>2. m - left[k] * b = d[k]
        BY <3>1
      <4> HIDE DEF d, Text, m
      <4>3. Append([j \in 1 .. k - 1 |-> d[j]], d[k]) = [j \in 1 .. k |-> d[j]]
        BY <3>1
      <4> QED  BY <4>1, <4>2, <4>3
    <3> HIDE DEF g, Signed, Text, Taken, m
    <3>6. g[k - 1].left = Signed(m) /\ g[k - 1].text = Text(k - 1)
      BY <2>1, <3>1 DEF m
    <3>7. After(g[k - 1], k) = [left |-> Signed(left[k]), text |-> Text(k)]
      BY <3>3, <3>4, <3>5, <3>6
    <3> QED  BY <2>1, <3>1, <3>7
  <2>3. CASE ~ k <= n
    <3>1. Taken(k) = n /\ Taken(k - 1) = n /\ k > 1
      BY <1>1, <2>3
    <3>2. Signed(left[n]) = 0
      <4>1. left[n] \in Int /\ left[n] = 0
        BY <1>1
      <4> QED  BY <4>1, MinusNothing, Zenon
    <3> HIDE DEF g, Signed, Text, Taken
    <3>3. g[k - 1].left = 0 /\ g[k] = g[k - 1]
      BY <2>1, <3>1, <3>2
    <3> QED  BY <3>1, <3>3
  <2> QED  BY <1>1, <2>2, <2>3
<1>5. digits = [k \in 0 .. WideBits |-> IF k = 0 THEN first ELSE After(digits[k - 1], k)]
  <2>1. ASSUME NEW k \in 0 .. WideBits
        PROVE  g[k] = IF k = 0 THEN first ELSE After(g[k - 1], k)
    <3> HIDE DEF g, After, first
    <3> QED  BY <1>1, <1>3, <1>4
  <2>2. g = [k \in 0 .. WideBits |-> g[k]]
    OBVIOUS
  <2> HIDE DEF g, After, first
  <2>3. g = [k \in 0 .. WideBits |-> IF k = 0 THEN first ELSE After(g[k - 1], k)]
    BY <2>1, <2>2
  <2> QED  BY <2>3, Zenon DEF first
<1>6. DigitsOf(v, b) = digits[WideBits].text
  BY Zenon DEF DigitsOf
<1>7. digits[WideBits] = g[WideBits]
  <2> HIDE DEF digits, g, After, first
  <2>1. WideBits \in Nat /\ digits[0] = g[0]
    BY <1>1, <1>3, <1>5
  <2>2. \A k \in 1 .. WideBits : digits[k - 1] = g[k - 1] => digits[k] = g[k]
    <3>1. \A k \in 1 .. WideBits : digits[k] = After(digits[k - 1], k)
      BY <1>1, <1>5
    <3> QED  BY <1>4, <3>1
  <2>3. Alike(WideBits, digits, g)
    BY <2>1, <2>2 DEF Alike
  <2>4. \A k \in 0 .. WideBits : digits[k] = g[k]
    BY <2>3, AlikeIsSame
  <2> QED  BY <1>1, <2>4
<1>8. g[WideBits].text = LowestFirst(left, n, b)
  <2>1. Taken(WideBits) = n /\ WideBits \in 0 .. WideBits
    BY <1>1
  <2> HIDE DEF Taken, Signed
  <2> QED  BY <2>1 DEF LowestFirst
<1> HIDE DEF g, digits
<1> QED  BY <1>6, <1>7, <1>8

\* The digits of a halving are digits of its base, and none leads in vain.
LEMMA DigitsFit ==
  ASSUME NEW left, NEW n, NEW m, NEW b \in Bases, Halving(left, n, m, b)
  PROVE  LET digits == HighestFirst(left, n, b)
         IN /\ n \in Nat \ {0} /\ digits \in [1 .. n -> 0 .. b - 1] /\ Len(digits) = n
            /\ n # 1 => digits[1] # 0
            /\ \A k \in 1 .. n : digits[k] = LowestFirst(left, n, b)[n + 1 - k]
<1> DEFINE digits == HighestFirst(left, n, b)
<1>1. /\ n \in Nat \ {0} /\ left \in [0 .. n -> Nat] /\ left[n] = 0
      /\ \A k \in 1 .. n : left[k] = left[k - 1] \div b
  BY DEF Halving
<1>2. ASSUME NEW k \in 1 .. n PROVE left[k - 1] - left[k] * b \in 0 .. b - 1
  <2> DEFINE x == left[k - 1]
  <2>1. x \in Nat /\ left[k] = x \div b
    BY <1>1
  <2> HIDE DEF x
  <2>2. x - (x \div b) * b \in 0 .. b - 1
    BY <2>1, OneDivision
  <2> QED  BY <2>1, <2>2 DEF x
<1>3. ASSUME NEW k \in 1 .. n
      PROVE  /\ digits[k] = LowestFirst(left, n, b)[n + 1 - k]
             /\ digits[k] \in 0 .. b - 1
  <2> DEFINE j == n + 1 - k
  <2>1. j \in 1 .. n /\ j - 1 = n - k
    BY <1>1
  <2>2. digits[k] = left[j - 1] - left[j] * b
    BY <2>1 DEF HighestFirst
  <2> HIDE DEF j, digits
  <2>3. LowestFirst(left, n, b)[j] = left[j - 1] - left[j] * b
    BY <2>1 DEF LowestFirst
  <2>4. left[j - 1] - left[j] * b \in 0 .. b - 1
    BY <1>2, <2>1
  <2> QED  BY <2>2, <2>3, <2>4 DEF j
<1>4. digits = [k \in 1 .. n |-> digits[k]]
  BY DEF HighestFirst
<1>5. n # 1 => digits[1] # 0
  <2> SUFFICES ASSUME n # 1 PROVE digits[1] # 0
    OBVIOUS
  <2>1. digits[1] = left[n - 1] - left[n] * b /\ n + 1 - 1 = n /\ b \in Nat
    BY <1>1 DEF HighestFirst, Bases
  <2>2. left[n] * b = 0
    BY <1>1, <2>1
  <2>3. left[n - 1] # 0 /\ left[n - 1] \in Nat
    BY <1>1, LeftBefore
  <2> QED  BY <2>1, <2>2, <2>3
<1> HIDE DEF digits
<1>6. digits \in [1 .. n -> 0 .. b - 1]
  BY <1>3, <1>4
<1>7. Len(digits) = n
  BY <1>1, <1>6
<1> QED  BY <1>1, <1>3, <1>5, <1>6, <1>7 DEF digits

\* What a text of a number is: a minus sign if there is one, and the digits.
Spells(text, v, left, n, b) ==
  /\ text \in Seq(Nat) /\ Len(text) = (IF v < 0 THEN n + 1 ELSE n)
  /\ Negative(text) <=> v < 0
  /\ Unsigned(text) = HighestFirst(left, n, b)
  /\ text # ItoaErr

\* string_cast writes the sign and the digits, highest first.
LEMMA ItoaSpells ==
  ASSUME NEW v \in Int, NEW b \in Bases, NEW left, NEW n, n <= WideBits,
         Halving(left, n, Magnitude(v), b)
  PROVE  Spells(string_cast_itoa(v, b), v, left, n, b)
<1> DEFINE low  == LowestFirst(left, n, b)
           high == HighestFirst(left, n, b)
           text == string_cast_itoa(v, b)
<1>1. /\ n \in Nat \ {0} /\ high \in [1 .. n -> 0 .. b - 1] /\ Len(high) = n
      /\ \A k \in 1 .. n : high[k] = low[n + 1 - k]
  BY DigitsFit
<1>2. b \in 2 .. 36
  BY DEF Bases
<1>3. \A k \in 1 .. n : high[k] \in Nat /\ high[k] < 36
  BY <1>1, <1>2
<1>4. text = Reversed(low \o (IF v < 0 THEN <<Minus>> ELSE << >>))
  BY DigitsAre DEF string_cast_itoa
<1>5. low = [k \in 1 .. n |-> low[k]] /\ Len(low) = n
  BY <1>1 DEF LowestFirst
<1> HIDE DEF low, high, text
<1>6. low \in Seq(Nat)
  <2>1. ASSUME NEW k \in 1 .. n PROVE low[k] \in Nat
    <3> DEFINE j == n + 1 - k
    <3>1. j \in 1 .. n /\ n + 1 - j = k
      BY <1>1
    <3> HIDE DEF j
    <3>2. high[j] = low[n + 1 - j]
      BY <1>1, <3>1
    <3> QED  BY <1>3, <3>1, <3>2
  <2> QED  BY <1>1, <1>5, <2>1
<1>7. CASE ~ v < 0
  <2>1. low \o << >> = low
    BY <1>6, ConcatEmptySeq
  <2>2. text = [k \in 1 .. n |-> low[n + 1 - k]]
    BY <1>4, <1>5, <1>7, <2>1 DEF Reversed
  <2>3. text = high
    BY <1>1, <2>2
  <2>4. text \in Seq(Nat) /\ Len(text) = n /\ text[1] \in Nat /\ text[1] < 36 /\ text # << >>
    BY <1>1, <1>3, <2>3
  <2>5. ~ Negative(text)
    BY <2>4 DEF Negative, Minus
  <2>6. text # ItoaErr
    BY <2>4 DEF ItoaErr
  <2> QED  BY <1>7, <2>3, <2>4, <2>5, <2>6 DEF Spells, Unsigned, high, text
<1>8. CASE v < 0
  <2> DEFINE all == low \o <<Minus>>
  <2>1. /\ Len(all) = n + 1 /\ all[n + 1] = Minus
        /\ \A k \in 1 .. n : all[k] = low[k]
    BY <1>1, <1>5, <1>6 DEF Minus
  <2> HIDE DEF all
  <2>2. text = [k \in 1 .. n + 1 |-> all[n + 2 - k]]
    <3>1. text = Reversed(all)
      BY <1>4, <1>8 DEF all
    <3>2. \A k \in 1 .. n + 1 : n + 1 + 1 - k = n + 2 - k
      BY <1>1
    <3> QED  BY <2>1, <3>1, <3>2 DEF Reversed
  <2>3. text[1] = Minus /\ Len(text) = n + 1 /\ DOMAIN text = 1 .. n + 1
    <3>1. 1 \in 1 .. n + 1 /\ n + 2 - 1 = n + 1 /\ n + 1 \in Nat
      BY <1>1
    <3> QED  BY <2>1, <2>2, <3>1
  <2>4. ASSUME NEW k \in 1 .. n PROVE text[k + 1] = high[k]
    <3>1. k + 1 \in 1 .. n + 1 /\ n + 2 - (k + 1) = n + 1 - k /\ n + 1 - k \in 1 .. n
      BY <1>1
    <3>2. text[k + 1] = all[n + 2 - (k + 1)]
      BY <2>2, <3>1
    <3>3. text[k + 1] = low[n + 1 - k]
      BY <2>1, <3>1, <3>2
    <3> QED  BY <1>1, <3>3
  <2>5. text \in Seq(Nat)
    <3>1. ASSUME NEW k \in 1 .. n + 1 PROVE text[k] \in Nat
      <4>1. CASE k = 1
        BY <2>3, <4>1 DEF Minus
      <4>2. CASE k # 1
        <5> DEFINE j == k - 1
        <5>1. j \in 1 .. n /\ j + 1 = k
          BY <1>1, <4>2
        <5> HIDE DEF j
        <5> QED  BY <1>3, <2>4, <5>1
      <4> QED  BY <4>1, <4>2
    <3>2. text = [k \in 1 .. n + 1 |-> text[k]]
      BY <2>2
    <3> QED  BY <1>1, <3>1, <3>2
  <2>6. Negative(text) /\ text # ItoaErr
    <3>1. text # << >> /\ text[1] = 36
      BY <1>1, <2>3 DEF Minus
    <3> QED  BY <3>1 DEF Negative, ItoaErr, Minus
  <2>7. Unsigned(text) = high
    <3> DEFINE rest == Tail(text)
    <3>1. text # << >> /\ Len(text) - 1 = n
      BY <1>1, <2>3
    <3>2. /\ rest \in Seq(Nat) /\ Len(rest) = Len(text) - 1
          /\ \A k \in 1 .. Len(rest) : rest[k] = text[k + 1]
      BY <2>5, <3>1, HeadTailProperties
    <3> HIDE DEF rest
    <3>3. rest = high
      <4>1. rest \in [1 .. n -> Nat]
        BY <1>1, <3>1, <3>2
      <4>2. rest = [k \in 1 .. n |-> rest[k]]
        BY <4>1
      <4>3. high = [k \in 1 .. n |-> high[k]]
        BY <1>1
      <4>4. \A k \in 1 .. n : rest[k] = high[k]
        BY <2>4, <3>1, <3>2
      <4> QED  BY <4>2, <4>3, <4>4
    <3> QED  BY <2>6, <3>3 DEF Unsigned, rest
  <2> QED  BY <1>8, <2>3, <2>5, <2>6, <2>7 DEF Spells, high, text
<1> QED  BY <1>7, <1>8

-----------------------------------------------------------------------------
(* Casts: the number read back from its digits.                             *)

HornerValue(digits, b) ==
  LET value[k \in 0 .. Len(digits)] ==
        IF k = 0 THEN 0 ELSE value[k - 1] * b + digits[k]
  IN value[Len(digits)]

\* The loop of strtoimax over digits.
Scanned(digits, b) ==
  LET value[k \in 0 .. Len(digits)] ==
        IF k = 0 THEN [number |-> 0, used |-> 0]
        ELSE LET before == value[k - 1]
             IN IF before.used = k - 1 /\ digits[k] < b
                THEN [number |-> before.number * b + digits[k], used |-> k] ELSE before
  IN value[Len(digits)]

\* What was left before a division is what is left after it and the digit.
LEMMA DigitAddsUp ==
  ASSUME NEW left, NEW n, NEW m, NEW b \in Bases, Halving(left, n, m, b), NEW k \in 1 .. n
  PROVE  /\ left[n - (k - 1)] * b + HighestFirst(left, n, b)[k] = left[n - k]
         /\ HighestFirst(left, n, b)[k] < b
<1>1. n \in Nat \ {0} /\ left \in [0 .. n -> Nat] /\ b \in Nat
  BY DEF Halving, Bases
<1> DEFINE x == left[n - k]
           y == left[n + 1 - k]
<1>2. n - k \in 0 .. n /\ n + 1 - k \in 0 .. n /\ n - (k - 1) = n + 1 - k
  BY <1>1
<1>3. x \in Nat /\ y \in Nat /\ left[n - (k - 1)] = y
  BY <1>1, <1>2
<1>4. HighestFirst(left, n, b)[k] = x - y * b
  BY DEF HighestFirst
<1> HIDE DEF x, y
<1>5. y * b + (x - y * b) = x
  <2> DEFINE z == y * b
  <2>1. z \in Int
    BY <1>1, <1>3
  <2> HIDE DEF z
  <2>2. z + (x - z) = x
    BY <1>3, <2>1
  <2> QED  BY <2>2 DEF z
<1>6. HighestFirst(left, n, b)[k] < b
  <2> DEFINE d == HighestFirst(left, n, b)
  <2>1. d \in [1 .. n -> 0 .. b - 1]
    BY DigitsFit
  <2>2. d[k] \in 0 .. b - 1
    BY <2>1
  <2> QED  BY <1>1, <2>2
<1> QED  BY <1>3, <1>4, <1>5, <1>6 DEF x

\* The digits of a halving add up to the number.
LEMMA HornerAddsUp ==
  ASSUME NEW left, NEW n, NEW m, NEW b \in Bases, Halving(left, n, m, b),
         NEW digits, digits = HighestFirst(left, n, b)
  PROVE  HornerValue(digits, b) = m
<1> DEFINE After(x, k) == x * b + digits[k]
           value[k \in 0 .. n] == IF k = 0 THEN 0 ELSE After(value[k - 1], k)
           g == [k \in 0 .. n |-> left[n - k]]
<1>1. /\ n \in Nat \ {0} /\ left \in [0 .. n -> Nat] /\ left[0] = m /\ left[n] = 0
      /\ Len(digits) = n
  BY DigitsFit DEF Halving
<1>2. g[0] = 0 /\ g[n] = m
  BY <1>1
<1>3. ASSUME NEW k \in 1 .. n PROVE g[k] = After(g[k - 1], k)
  <2>1. k \in 0 .. n /\ k - 1 \in 0 .. n
    BY <1>1
  <2>2. g[k] = left[n - k] /\ g[k - 1] = left[n - (k - 1)]
    BY <2>1
  <2> HIDE DEF g
  <2> QED  BY <2>2, DigitAddsUp
<1>4. value = [k \in 0 .. n |-> IF k = 0 THEN 0 ELSE After(value[k - 1], k)]
  <2>1. ASSUME NEW k \in 0 .. n
        PROVE  g[k] = IF k = 0 THEN 0 ELSE After(g[k - 1], k)
    <3> HIDE DEF g, After
    <3> QED  BY <1>1, <1>2, <1>3
  <2>2. g = [k \in 0 .. n |-> g[k]]
    OBVIOUS
  <2> HIDE DEF g, After
  <2>3. g = [k \in 0 .. n |-> IF k = 0 THEN 0 ELSE After(g[k - 1], k)]
    BY <2>1, <2>2
  <2> QED  BY <2>3, Zenon
<1>5. HornerValue(digits, b) = value[n]
  BY <1>1, Zenon DEF HornerValue
<1>6. value[n] = g[n]
  <2> HIDE DEF value, g, After
  <2>1. n \in Nat /\ value[0] = g[0]
    BY <1>1, <1>2, <1>4
  <2>2. \A k \in 1 .. n : value[k - 1] = g[k - 1] => value[k] = g[k]
    <3>1. \A k \in 1 .. n : value[k] = After(value[k - 1], k)
      BY <1>1, <1>4
    <3> QED  BY <1>3, <3>1
  <2>3. Alike(n, value, g)
    BY <2>1, <2>2 DEF Alike
  <2>4. \A k \in 0 .. n : value[k] = g[k]
    BY <2>3, AlikeIsSame
  <2> QED  BY <1>1, <2>4
<1> HIDE DEF value, g
<1> QED  BY <1>2, <1>5, <1>6

\* strtoimax reads all digits of a halving, and the number they are.
LEMMA ScanAddsUp ==
  ASSUME NEW left, NEW n, NEW m, NEW b \in Bases, Halving(left, n, m, b),
         NEW digits, digits = HighestFirst(left, n, b)
  PROVE  Scanned(digits, b) = [number |-> m, used |-> n]
<1> DEFINE first == [number |-> 0, used |-> 0]
           After(s, k) ==
             IF s.used = k - 1 /\ digits[k] < b
             THEN [number |-> s.number * b + digits[k], used |-> k] ELSE s
           value[k \in 0 .. n] == IF k = 0 THEN first ELSE After(value[k - 1], k)
           g == [k \in 0 .. n |-> [number |-> left[n - k], used |-> k]]
<1>1. /\ n \in Nat \ {0} /\ left \in [0 .. n -> Nat] /\ left[0] = m /\ left[n] = 0
      /\ Len(digits) = n
  BY DigitsFit DEF Halving
<1>2. g[0] = first /\ g[n] = [number |-> m, used |-> n]
  BY <1>1
<1>3. ASSUME NEW k \in 1 .. n PROVE g[k] = After(g[k - 1], k)
  <2>1. k \in 0 .. n /\ k - 1 \in 0 .. n
    BY <1>1
  <2>2. /\ g[k] = [number |-> left[n - k], used |-> k]
        /\ g[k - 1] = [number |-> left[n - (k - 1)], used |-> k - 1]
    BY <2>1
  <2>3. left[n - (k - 1)] * b + digits[k] = left[n - k] /\ digits[k] < b
    BY DigitAddsUp
  <2>4. g[k - 1].used = k - 1 /\ g[k - 1].number = left[n - (k - 1)]
    BY <2>2
  <2> HIDE DEF g
  <2> QED  BY <2>2, <2>3, <2>4
<1>4. value = [k \in 0 .. n |-> IF k = 0 THEN first ELSE After(value[k - 1], k)]
  <2>1. ASSUME NEW k \in 0 .. n
        PROVE  g[k] = IF k = 0 THEN first ELSE After(g[k - 1], k)
    <3> HIDE DEF g, After, first
    <3> QED  BY <1>1, <1>2, <1>3
  <2>2. g = [k \in 0 .. n |-> g[k]]
    OBVIOUS
  <2> HIDE DEF g, After, first
  <2>3. g = [k \in 0 .. n |-> IF k = 0 THEN first ELSE After(g[k - 1], k)]
    BY <2>1, <2>2
  <2> QED  BY <2>3, Zenon DEF first
<1>5. Scanned(digits, b) = value[n]
  BY <1>1, Zenon DEF Scanned
<1>6. value[n] = g[n]
  <2> HIDE DEF value, g, After, first
  <2>1. n \in Nat /\ value[0] = g[0]
    BY <1>1, <1>2, <1>4
  <2>2. \A k \in 1 .. n : value[k - 1] = g[k - 1] => value[k] = g[k]
    <3>1. \A k \in 1 .. n : value[k] = After(value[k - 1], k)
      BY <1>1, <1>4
    <3> QED  BY <1>3, <3>1
  <2>3. Alike(n, value, g)
    BY <2>1, <2>2 DEF Alike
  <2>4. \A k \in 0 .. n : value[k] = g[k]
    BY <2>3, AlikeIsSame
  <2> QED  BY <1>1, <2>4
<1> HIDE DEF value, g
<1> QED  BY <1>2, <1>5, <1>6

-----------------------------------------------------------------------------
(* Casts, for integer types of any two widths and every number of them.     *)
(* CastInv says where a text on its way comes from; what it is follows from *)
(* the digits, so the three properties do.                                  *)

CastSpec == CastInit /\ [][CastNext]_cast

CastType ==
  cast \in [pc : {"format", "read", "done"}, width : {NarrowBits, WideBits},
            signed : BOOLEAN, value : Int,
            base : {1, 2, 8, 10, 16, 36, 37}, text : {cast.text},
            bits : {NarrowBits, WideBits}, reader : BOOLEAN, read : {cast.read}]

IsItoa  == cast.text = string_cast_itoa(cast.value, cast.base)
IsSpoilt ==
  Undefined /\ cast.text = Spoilt(string_cast_itoa(cast.value, cast.base))
IsAddress ==
  cast.text = string_cast_pointer(cast.value) /\ cast.base = 16 /\ ~ cast.signed
IsNull  == cast.text = NoText /\ cast.value = 0

CastInv ==
  /\ CastType
  /\ cast.value \in Lowest(WideBits, cast.signed) .. Highest(WideBits, cast.signed)
  /\ cast.pc # "format" => IsItoa \/ IsSpoilt \/ IsAddress \/ IsNull
  /\ cast.pc = "done" => cast.read = <<number_cast(cast.text, cast.bits, cast.reader)>>

\* What a width bounds, a larger one does.
LEMMA WidthsNest ==
  ASSUME NEW width \in Widths, NEW signed \in BOOLEAN, NEW value \in Int,
         value \in Lowest(width, signed) .. Highest(width, signed)
  PROVE  value \in Lowest(WideBits, signed) .. Highest(WideBits, signed)
<1> DEFINE p == width - 1
           q == WideBits - 1
<1>1. width \in Nat /\ WideBits \in Nat /\ p \in Nat /\ q \in Nat /\ p <= q /\ width <= WideBits
  BY WidthAssumption DEF Widths
<1> HIDE DEF p, q
<1>2. /\ 2 ^ p \in Nat /\ 2 ^ q \in Nat /\ 2 ^ p <= 2 ^ q
      /\ 2 ^ width \in Nat /\ 2 ^ WideBits \in Nat /\ 2 ^ width <= 2 ^ WideBits
  BY <1>1, PowerIsNumber, PowerGrows
<1>3. CASE signed
  <2>1. /\ Lowest(width, signed) = -(2 ^ p) /\ Highest(width, signed) = 2 ^ p - 1
        /\ Lowest(WideBits, signed) = -(2 ^ q) /\ Highest(WideBits, signed) = 2 ^ q - 1
    BY <1>3 DEF Lowest, Highest, p, q
  <2> QED  BY <1>2, <2>1
<1>4. CASE ~ signed
  <2>1. /\ Lowest(width, signed) = 0 /\ Highest(width, signed) = 2 ^ width - 1
        /\ Lowest(WideBits, signed) = 0 /\ Highest(WideBits, signed) = 2 ^ WideBits - 1
    BY <1>4 DEF Lowest, Highest
  <2> QED  BY <1>2, <2>1
<1> QED  BY <1>3, <1>4

\* The sum of num_mapping's index overflows before the first division only: what
\* one division leaves of a number is too small, in a type of eight bits or more.
LEMMA LaterSumsFit ==
  ASSUME NEW width \in Widths, NEW base \in Bases, NEW value \in Int,
         value \in Lowest(width, TRUE) .. Highest(width, TRUE)
  PROVE  ~ SumOverflows(Quotient(value, base), base, width, TRUE)
<1> DEFINE p == width - 1
           q == 2 ^ p
<1>1. p \in Nat /\ 7 <= p
  BY WidthAssumption DEF Widths
<1>2. Highest(width, TRUE) = q - 1
  BY Zenon DEF Highest
<1>3. q \in Nat /\ 128 <= q
  <2> HIDE DEF p
  <2>1. 2 ^ 7 <= 2 ^ p /\ 2 ^ p \in Nat
    BY <1>1, PowerGrows, PowerIsNumber
  <2>2. 16 <= 2 ^ 4 /\ 2 ^ 4 \in Nat
    <3>1. 2 ^ (0 + 1) = 2 * 2 ^ 0 /\ 2 ^ (1 + 1) = 2 * 2 ^ 1
          /\ 2 ^ (2 + 1) = 2 * 2 ^ 2 /\ 2 ^ (3 + 1) = 2 * 2 ^ 3
      BY PowerDoubles
    <3>2. 1 <= 2 ^ 0 /\ 2 ^ 0 \in Nat /\ 2 ^ 1 \in Nat /\ 2 ^ 2 \in Nat
          /\ 2 ^ 3 \in Nat /\ 2 ^ 4 \in Nat
      BY PowerGrows, PowerIsNumber
    <3>3. 2 ^ 1 = 2 * 2 ^ 0 /\ 2 ^ 2 = 2 * 2 ^ 1 /\ 2 ^ 3 = 2 * 2 ^ 2 /\ 2 ^ 4 = 2 * 2 ^ 3
      BY <3>1
    <3> QED  BY <3>2, <3>3
  <2>3. 2 ^ 5 = 2 * 2 ^ 4 /\ 2 ^ 6 = 2 * 2 ^ 5 /\ 2 ^ 7 = 2 * 2 ^ 6
    <3>1. 2 ^ (4 + 1) = 2 * 2 ^ 4 /\ 2 ^ (5 + 1) = 2 * 2 ^ 5 /\ 2 ^ (6 + 1) = 2 * 2 ^ 6
      BY PowerDoubles
    <3> QED  BY <3>1
  <2>4. 2 ^ 5 \in Nat /\ 2 ^ 6 \in Nat /\ 2 ^ 7 \in Nat
    BY PowerIsNumber
  <2> QED  BY <2>1, <2>2, <2>3, <2>4
<1> HIDE DEF q
<1>4. value <= q - 1
  <2>1. Lowest(width, TRUE) = -q
    BY Zenon DEF Lowest, q
  <2>2. value \in -q .. q - 1
    BY <1>2, <2>1, Zenon
  <2> QED  BY <1>3, <2>2
<1>5. 2 * Quotient(value, base) <= q - 1
  <2>1. CASE value < 0
    <3>1. -value \in Nat /\ Magnitude(value) = -value
      BY <2>1 DEF Magnitude
    <3> DEFINE m == Magnitude(value)
               d == m \div base
    <3>2. Quotient(value, base) = -d
      BY <2>1, Zenon DEF Quotient
    <3>3. m \in Nat
      BY <3>1
    <3> HIDE DEF m
    <3>4. d \in Nat
      BY <3>3, OneDivision
    <3> HIDE DEF d
    <3> QED  BY <1>3, <3>2, <3>4
  <2>2. CASE ~ value < 0
    <3>1. value \in Nat /\ Quotient(value, base) = value \div base
      BY <2>2 DEF Quotient
    <3>2. value \div base \in Nat /\ 2 * (value \div base) <= value
      BY <3>1, OneDivision
    <3> DEFINE d == value \div base
    <3> HIDE DEF d
    <3>3. d \in Nat /\ Quotient(value, base) = d /\ 2 * d <= value
      BY <3>1, <3>2 DEF d
    <3>4. value <= q - 1 /\ value \in Nat
      BY <1>4, <3>1
    <3> QED  BY <1>3, <3>3, <3>4
  <2> QED  BY <2>1, <2>2
<1>6. Quotient(value, base) \in Int
  <2>1. Magnitude(value) \in Nat
    BY DEF Magnitude
  <2>2. Magnitude(value) \div base \in Nat
    BY <2>1, OneDivision
  <2>3. CASE value < 0
    <3> DEFINE d == Magnitude(value) \div base
    <3>1. Quotient(value, base) = -d
      BY <2>3 DEF Quotient
    <3> HIDE DEF d
    <3>2. d \in Nat
      BY <2>2 DEF d
    <3> QED  BY <3>1, <3>2
  <2>4. CASE ~ value < 0
    <3>1. Magnitude(value) = value /\ Quotient(value, base) = value \div base
      BY <2>4 DEF Magnitude, Quotient
    <3> QED  BY <2>2, <3>1
  <2> QED  BY <2>3, <2>4
<1> DEFINE r == Quotient(value, base)
<1> HIDE DEF r
<1>7. r \in Int /\ 2 * r <= q - 1
  BY <1>5, <1>6 DEF r
<1>8. ~ 35 + r > q - 1
  BY <1>3, <1>7
<1> QED  BY <1>2, <1>8 DEF SumOverflows, Middle, r

\* A number is formatted from its value and base, and read from that text.
THEOREM CastInductive == CastSpec => []CastInv
<1>1. CastInit => CastInv
  <2> SUFFICES ASSUME CastInit PROVE CastInv
    OBVIOUS
  <2>1. PICK width \in Widths, signed \in BOOLEAN :
          \E value \in Lowest(width, signed) .. Highest(width, signed),
             base \in {1, 2, 8, 10, 16, 36, 37} :
            cast = [castFields EXCEPT !.width = width, !.signed = signed,
                                      !.value = value, !.base = base]
    BY DEF CastInit
  <2>2. PICK value \in Lowest(width, signed) .. Highest(width, signed),
             base \in {1, 2, 8, 10, 16, 36, 37} :
          cast = [castFields EXCEPT !.width = width, !.signed = signed,
                                    !.value = value, !.base = base]
    BY <2>1
  <2>3. cast = [pc |-> "format", width |-> width, signed |-> signed, value |-> value,
                base |-> base, text |-> << >>, bits |-> WideBits, reader |-> TRUE,
                read |-> << >>]
    BY <2>2 DEF castFields
  <2>4. value \in Int
    OBVIOUS
  <2>5. CastType
    BY <2>3, <2>4 DEF CastType, Widths
  <2>6. value \in Lowest(WideBits, signed) .. Highest(WideBits, signed)
    BY <2>4, WidthsNest
  <2> QED  BY <2>3, <2>5, <2>6 DEF CastInv
<1>2. CastInv /\ [CastNext]_cast => CastInv'
  <2> SUFFICES ASSUME CastInv, CastNext PROVE CastInv'
    BY DEF CastInv, CastType, IsItoa, IsSpoilt, Undefined, IsAddress, IsNull
  <2> DEFINE text(t) == cast' = [cast EXCEPT !.pc = "read", !.text = t]
  <2>1. ASSUME NEW t, text(t), cast.pc = "format",
               \/ t = string_cast_itoa(cast.value, cast.base)
               \/ Undefined /\ t = Spoilt(string_cast_itoa(cast.value, cast.base))
               \/ t = string_cast_pointer(cast.value) /\ cast.base = 16 /\ ~ cast.signed
               \/ t = NoText /\ cast.value = 0
        PROVE  CastInv'
    <3>1. /\ cast'.pc = "read" /\ cast'.text = t /\ cast'.signed = cast.signed
          /\ cast'.value = cast.value /\ cast'.base = cast.base /\ cast'.width = cast.width
      BY <2>1 DEF CastInv, CastType
    <3>2. CastType'
      BY <2>1 DEF CastInv, CastType
    <3> QED  BY <2>1, <3>1, <3>2 DEF CastInv, IsItoa, IsSpoilt, Undefined, IsAddress, IsNull
  <2>2. CASE Format
    <3>1. PICK t \in ItoaTexts(cast.value, cast.base, cast.width, cast.signed) : text(t)
      BY <2>2 DEF Format
    <3>2. \/ t = string_cast_itoa(cast.value, cast.base)
          \/ Undefined /\ t = Spoilt(string_cast_itoa(cast.value, cast.base))
      BY <3>1, Zenon DEF ItoaTexts, Undefined
    <3> QED  BY <2>1, <2>2, <3>1, <3>2 DEF Format
  <2>3. CASE FormatPointer
    BY <2>1, <2>3 DEF FormatPointer
  <2>4. CASE FromNull
    BY <2>1, <2>4 DEF FromNull
  <2>5. CASE Read
    <3>1. PICK bits \in {NarrowBits, WideBits}, signed \in BOOLEAN :
            cast' = [cast EXCEPT !.pc = "done", !.bits = bits, !.reader = signed,
                                 !.read = <<number_cast(cast.text, bits, signed)>>]
      BY <2>5 DEF Read, Widths
    <3> DEFINE r == <<number_cast(cast.text, bits, signed)>>
    <3>2. cast' = [cast EXCEPT !.pc = "done", !.bits = bits, !.reader = signed, !.read = r]
      BY <3>1
    <3> HIDE DEF r
    <3>3. /\ cast'.pc = "done" /\ cast'.text = cast.text /\ cast'.signed = cast.signed
          /\ cast'.value = cast.value /\ cast'.base = cast.base /\ cast'.width = cast.width
          /\ cast'.bits = bits /\ cast'.reader = signed /\ cast'.read = r
      BY <3>2 DEF CastInv, CastType
    <3>4. CastType'
      BY <3>2 DEF CastInv, CastType
    <3>5. cast'.read = <<number_cast(cast'.text, cast'.bits, cast'.reader)>>
      BY <3>3, Zenon DEF r
    <3>6. cast.pc # "format"
      BY <2>5 DEF Read
    <3> QED  BY <3>3, <3>4, <3>5, <3>6
             DEF CastInv, IsItoa, IsSpoilt, Undefined, IsAddress, IsNull
  <2> QED  BY <2>2, <2>3, <2>4, <2>5 DEF CastNext
<1> QED  BY <1>1, <1>2, PTL DEF CastSpec

Half  == 2 ^ (WideBits - 1)
Whole == 2 ^ WideBits

\* The numbers of the wide types, by the two powers of two that bound them.
LEMMA WideNumbers ==
  /\ Half \in Nat /\ 1 <= Half /\ Whole = 2 * Half /\ Whole \in Nat
  /\ WideBits - 1 \in Nat \ {0}
  /\ Lowest(WideBits, TRUE) = -Half /\ Highest(WideBits, TRUE) = Half - 1
  /\ Lowest(WideBits, FALSE) = 0 /\ Highest(WideBits, FALSE) = Whole - 1
<1> DEFINE n == WideBits - 1
<1>1. n \in Nat \ {0} /\ WideBits = n + 1
  BY WidthAssumption
<1> HIDE DEF n
<1>2. 2 ^ n \in Nat /\ 1 <= 2 ^ n /\ 2 ^ (n + 1) = 2 * 2 ^ n
  BY <1>1, PowerIsNumber, PowerGrows, PowerDoubles
<1>3. Half \in Nat /\ 1 <= Half /\ Whole = 2 * Half /\ Whole \in Nat
  <2>1. Half = 2 ^ n /\ Whole = 2 ^ (n + 1)
    BY <1>1 DEF Half, Whole, n
  <2>2. Half \in Nat /\ 1 <= Half /\ Whole = 2 * Half
    BY <1>2, <2>1
  <2> QED  BY <2>2
<1>4. WideBits - 1 \in Nat \ {0}
  BY <1>1 DEF n
<1>5. /\ Lowest(WideBits, TRUE) = -Half /\ Highest(WideBits, TRUE) = Half - 1
      /\ Lowest(WideBits, FALSE) = 0 /\ Highest(WideBits, FALSE) = Whole - 1
  BY Zenon DEF Lowest, Highest, Half, Whole
<1> QED  BY <1>3, <1>4, <1>5

\* How large the number of a cast is.
LEMMA ValueBounds ==
  ASSUME CastInv
  PROVE  /\ cast.value \in Int /\ Magnitude(cast.value) \in Nat
         /\ Magnitude(cast.value) < Whole
         /\ cast.value < 0 => cast.signed /\ Magnitude(cast.value) <= Half
         /\ cast.signed => cast.value \in -Half .. Half - 1
         /\ ~ cast.signed => cast.value \in 0 .. Whole - 1
<1> DEFINE v == cast.value
<1>1. v \in Int /\ cast.signed \in BOOLEAN
  BY DEF CastInv, CastType
<1>2. CASE cast.signed
  <2>1. v \in -Half .. Half - 1
    <3>1. v \in Lowest(WideBits, TRUE) .. Highest(WideBits, TRUE)
      BY <1>1, <1>2 DEF CastInv
    <3> QED  BY <3>1, WideNumbers
  <2> HIDE DEF v
  <2> QED  BY <1>1, <1>2, <2>1, WideNumbers DEF Magnitude, v
<1>3. CASE ~ cast.signed
  <2>1. v \in 0 .. Whole - 1
    <3>1. v \in Lowest(WideBits, FALSE) .. Highest(WideBits, FALSE)
      BY <1>1, <1>3 DEF CastInv
    <3> QED  BY <3>1, WideNumbers
  <2> HIDE DEF v
  <2> QED  BY <1>1, <1>3, <2>1, WideNumbers DEF Magnitude, v
<1> QED  BY <1>1, <1>2, <1>3

\* Behind the text of a number stands a halving of its magnitude.
LEMMA CastSpells ==
  ASSUME CastInv, cast.base \in Bases
  PROVE  \E n \in 1 .. WideBits : \E left :
           /\ Halving(left, n, Magnitude(cast.value), cast.base)
           /\ Spells(string_cast_itoa(cast.value, cast.base), cast.value, left, n, cast.base)
<1> DEFINE v == cast.value
           b == cast.base
           m == Magnitude(v)
<1>1. v \in Int /\ b \in Bases /\ m \in Nat /\ m < 2 ^ WideBits /\ WideBits \in Nat \ {0}
  BY ValueBounds, WidthAssumption DEF Whole
<1> HIDE DEF v, b, m
<1>2a. PICK n \in 1 .. WideBits : \E left : Halving(left, n, m, b)
  BY <1>1, HalvingEnds
<1>2. PICK left : Halving(left, n, m, b)
  BY <1>2a
<1>3. Halving(left, n, Magnitude(v), b) /\ n <= WideBits
  BY <1>2 DEF m
<1>4. Spells(string_cast_itoa(v, b), v, left, n, b)
  BY <1>1, <1>3, ItoaSpells
<1> QED  BY <1>3, <1>4 DEF v, b

\* No number is written like an address.
LEMMA NumberIsNoPointer ==
  ASSUME NEW text, NEW v \in Int, NEW b \in Bases, NEW left, NEW n,
         Halving(left, n, Magnitude(v), b), Spells(text, v, left, n, b)
  PROVE  /\ ~ (Len(text) > 2 /\ text[1] = 0 /\ text[2] = X)
         /\ ~ v < 0 => text = HighestFirst(left, n, b)
<1> DEFINE digits == HighestFirst(left, n, b)
<1>1. n \in Nat \ {0} /\ Len(digits) = n /\ (n # 1 => digits[1] # 0)
  BY DigitsFit
<1>2. /\ Len(text) = (IF v < 0 THEN n + 1 ELSE n)
      /\ Negative(text) <=> v < 0
      /\ Unsigned(text) = digits
  BY DEF Spells
<1> HIDE DEF digits
<1>3. CASE v < 0
  <2>1. text[1] = Minus
    BY <1>2, <1>3 DEF Negative
  <2> QED  BY <1>3, <2>1 DEF Minus
<1>4. CASE ~ v < 0
  <2>1. text = digits
    BY <1>2, <1>4 DEF Unsigned
  <2> QED  BY <1>1, <1>4, <2>1 DEF digits
<1> QED  BY <1>3, <1>4

\* The text of an address is read as one.
LEMMA AddressIsPointer ==
  ASSUME CastInv, IsAddress
  PROVE  /\ IsPointer
         /\ \E n \in 1 .. WideBits : \E left :
              /\ Halving(left, n, cast.value, 16)
              /\ cast.text = <<0, X>> \o HighestFirst(left, n, 16)
<1> DEFINE v == cast.value
<1>1. cast.base = 16 /\ ~ cast.signed
  BY DEF IsAddress
<1>2. cast.base \in Bases
  BY <1>1 DEF Bases
<1>3a. PICK n \in 1 .. WideBits : \E left :
        /\ Halving(left, n, Magnitude(v), 16)
        /\ Spells(string_cast_itoa(v, 16), v, left, n, 16)
  BY <1>1, <1>2, CastSpells, Zenon
<1>3. PICK left :
        /\ Halving(left, n, Magnitude(v), 16)
        /\ Spells(string_cast_itoa(v, 16), v, left, n, 16)
  BY <1>3a
<1>4. v \in Nat /\ Magnitude(v) = v /\ ~ v < 0
  BY <1>1, ValueBounds, WideNumbers DEF Magnitude
<1> DEFINE digits == HighestFirst(left, n, 16)
<1>5. string_cast_itoa(v, 16) = digits
  <2> DEFINE text == string_cast_itoa(v, 16)
             b    == 16
  <2>1. v \in Int /\ b \in Bases /\ Halving(left, n, Magnitude(v), b) /\ Spells(text, v, left, n, b)
    BY <1>1, <1>2, <1>3, <1>4
  <2> HIDE DEF text, b, v
  <2>2. ~ v < 0 => text = HighestFirst(left, n, b)
    BY <2>1, NumberIsNoPointer
  <2> QED  BY <1>4, <2>2 DEF text, b
<1>6. n \in Nat \ {0} /\ digits \in [1 .. n -> 0 .. 16 - 1] /\ Len(digits) = n
  <2> DEFINE b == 16
             d == HighestFirst(left, n, b)
  <2>1. b \in Bases /\ Halving(left, n, Magnitude(v), b)
    BY <1>1, <1>2, <1>3
  <2> HIDE DEF b
  <2>2. n \in Nat \ {0} /\ d \in [1 .. n -> 0 .. b - 1] /\ Len(d) = n
    BY <2>1, DigitsFit
  <2> QED  BY <2>2 DEF b
<1> HIDE DEF digits
<1>7. cast.text = <<0, X>> \o digits
  BY <1>5 DEF IsAddress, string_cast_pointer
<1>8. IsPointer
  <2>1. <<0, X>> \in Seq(Nat) /\ digits \in Seq(Nat) /\ Len(<<0, X>>) = 2
    BY <1>6 DEF X
  <2> DEFINE t == <<0, X>> \o digits
  <2>2. Len(t) = 2 + n /\ t[1] = 0 /\ t[2] = X
    BY <1>6, <2>1
  <2> HIDE DEF t
  <2>3. Len(t) > 2
    BY <1>6, <2>2
  <2> QED  BY <1>7, <2>2, <2>3, Zenon DEF IsPointer, t
<1>9. Halving(left, n, v, 16)
  BY <1>3, <1>4
<1> QED  BY <1>7, <1>8, <1>9 DEF digits

\* What the text of a number in a base says of it.
ExactText(text, v, b) ==
  LET digits == Unsigned(text)
  IN /\ digits # << >> /\ (Len(digits) > 1 => digits[1] # 0)
     /\ \A k \in DOMAIN digits : digits[k] < b
     /\ HornerValue(digits, b) = Magnitude(v)
     /\ Negative(text) <=> v < 0

\* The digits of a halving are the number, exactly.
LEMMA SpellsExactly ==
  ASSUME NEW text, NEW v \in Int, NEW b \in Bases, NEW left, NEW n,
         Halving(left, n, Magnitude(v), b), Spells(text, v, left, n, b)
  PROVE  ExactText(text, v, b)
<1> DEFINE digits == HighestFirst(left, n, b)
<1>1. /\ n \in Nat \ {0} /\ digits \in [1 .. n -> 0 .. b - 1] /\ Len(digits) = n
      /\ (n # 1 => digits[1] # 0)
  BY DigitsFit
<1>2. (Negative(text) <=> v < 0) /\ Unsigned(text) = digits
  BY DEF Spells
<1>3. HornerValue(digits, b) = Magnitude(v)
  BY HornerAddsUp
<1> HIDE DEF digits
<1>4. digits # << >> /\ (Len(digits) > 1 => digits[1] # 0)
  BY <1>1
<1>5. \A k \in DOMAIN digits : digits[k] < b
  BY <1>1 DEF Bases
<1> QED  BY <1>2, <1>3, <1>4, <1>5 DEF ExactText

\* The text of a number is the number in its base, written in one way, for all
\* integer types and every number of them, the lowest included; another base than
\* 2 to 36 writes none.
LEMMA ItoaFollows == CastInv => ItoaExact
<1> SUFFICES ASSUME CastInv, cast.pc # "format", ~ IsPointer, cast.text # NoText, ~ Undefined
             PROVE  /\ (cast.text = ItoaErr) <=> cast.base \notin Bases
                    /\ cast.text # ItoaErr => ExactText(cast.text, cast.value, cast.base)
  BY Zenon DEF ItoaExact, ExactText, HornerValue
<1>1. ~ IsAddress
  BY AddressIsPointer
<1>2. IsItoa
  BY <1>1 DEF CastInv, IsNull, IsSpoilt
<1>3. CASE cast.base \notin Bases
  BY <1>2, <1>3 DEF IsItoa, string_cast_itoa
<1>4. CASE cast.base \in Bases
  <2> DEFINE text == string_cast_itoa(cast.value, cast.base)
  <2>1a. PICK n \in 1 .. WideBits : \E left :
          /\ Halving(left, n, Magnitude(cast.value), cast.base)
          /\ Spells(text, cast.value, left, n, cast.base)
    BY <1>4, CastSpells, Zenon
  <2>1. PICK left :
          /\ Halving(left, n, Magnitude(cast.value), cast.base)
          /\ Spells(text, cast.value, left, n, cast.base)
    BY <2>1a
  <2>2. cast.value \in Int
    BY ValueBounds
  <2>3. cast.text = text
    BY <1>2 DEF IsItoa
  <2> HIDE DEF text
  <2>4. text # ItoaErr
    BY <2>1 DEF Spells
  <2>5. ExactText(text, cast.value, cast.base)
    <3> DEFINE v == cast.value
               b == cast.base
    <3>1. v \in Int /\ b \in Bases /\ Halving(left, n, Magnitude(v), b) /\ Spells(text, v, left, n, b)
      BY <1>4, <2>1, <2>2
    <3> HIDE DEF v, b
    <3>2. ExactText(text, v, b)
      BY <3>1, SpellsExactly
    <3> QED  BY <3>2 DEF v, b
  <2> QED  BY <1>4, <2>3, <2>4, <2>5
<1> QED  BY <1>3, <1>4

\* string_cast writes every number of every integer type exactly, for any width of
\* the types, in the bases that CastInit tries; but of a signed type only up to 35
\* below its largest, where the code adds 35 before it subtracts.
THEOREM ItoaExactAlways == CastSpec => []ItoaExact
<1> QED  BY CastInductive, ItoaFollows, PTL

\* A power of two leaves one digit in base 2 for every bit, and the leading one.
LEMMA PowerHasAllDigits ==
  ASSUME NEW left, NEW n, NEW m, NEW e \in Nat, m = 2 ^ e, Halving(left, n, m, 2)
  PROVE  e < n
<1> DEFINE Left(i) == i <= e /\ i <= n => left[i] = 2 ^ (e - i)
           S == {i \in Nat : Left(i)}
<1>1. n \in Nat \ {0} /\ left[0] = m /\ left[n] = 0
      /\ \A k \in 1 .. n : left[k] = left[k - 1] \div 2
  BY DEF Halving
<1>2. 0 \in S
  <2>1. e - 0 = e
    OBVIOUS
  <2> QED  BY <1>1, <2>1
<1>3. ASSUME NEW i \in Nat, i \in S PROVE i + 1 \in S
  <2> SUFFICES ASSUME i + 1 <= e, i + 1 <= n PROVE left[i + 1] = 2 ^ (e - (i + 1))
    OBVIOUS
  <2> DEFINE d == e - (i + 1)
             p == 2 ^ d
  <2>1. d \in Nat /\ e - i = d + 1 /\ i + 1 \in 1 .. n /\ (i + 1) - 1 = i
    BY <1>1
  <2>2. left[i] = 2 ^ (d + 1)
    BY <1>1, <1>3, <2>1
  <2> HIDE DEF d
  <2>3. left[i] = 2 * p /\ p \in Nat
    BY <2>1, <2>2, PowerDoubles, PowerIsNumber
  <2>4. left[i + 1] = left[i] \div 2
    <3> DEFINE k == i + 1
    <3>1. k \in 1 .. n /\ k - 1 = i
      BY <2>1
    <3> HIDE DEF k
    <3>2. left[k] = left[k - 1] \div 2
      BY <1>1, <3>1
    <3> QED  BY <3>1, <3>2 DEF k
  <2> HIDE DEF p
  <2>5. left[i + 1] = p
    BY <2>3, <2>4
  <2> QED  BY <2>5 DEF d, p
<1>4. Nat \subseteq S
  <2> HIDE DEF S
  <2> QED  BY <1>2, <1>3, NatInductionOnSet
<1>5. CASE n <= e
  <2>1. n \in S
    BY <1>1, <1>4
  <2>2. left[n] = 2 ^ (e - n)
    BY <1>1, <1>5, <2>1
  <2> DEFINE d == e - n
  <2>3. d \in Nat
    BY <1>1, <1>5
  <2> HIDE DEF d
  <2>4. 1 <= 2 ^ d
    BY <2>3, PowerGrows
  <2> QED  BY <1>1, <2>2, <2>4 DEF d
<1> QED  BY <1>1, <1>5

\* In another base than 2 even the largest magnitude has fewer digits than bits.
LEMMA OtherBaseShort ==
  ASSUME NEW left, NEW n, NEW m, NEW b \in Bases, 3 <= b, m <= Half, Halving(left, n, m, b)
  PROVE  n <= WideBits - 1
<1> DEFINE e == WideBits - 2
           p == 2 ^ e
<1>1. e \in Nat \ {0} /\ WideBits - 1 = e + 1 /\ WideBits \in Nat
  BY WidthAssumption
<1>2. Half = 2 * p /\ p \in Nat /\ 1 <= p
  <2>1. Half = 2 ^ (e + 1)
    BY <1>1 DEF Half
  <2> HIDE DEF e
  <2> QED  BY <1>1, <2>1, PowerDoubles, PowerIsNumber, PowerGrows
<1>3. n \in Nat \ {0} /\ left[0] = m /\ left[0] \in Nat /\ left[1] = left[1 - 1] \div b
      /\ left[1] \in Nat
  BY DEF Halving
<1>4. left[1] = m \div b /\ m \in Nat
  BY <1>3
<1>5. 3 * (m \div b) <= m
  BY <1>4, OneDivision
<1> HIDE DEF p
<1>6. left[1] < p
  <2> DEFINE q == left[1]
  <2>1. 3 * q <= m /\ q \in Nat
    BY <1>3, <1>4, <1>5
  <2> HIDE DEF q
  <2>2. q < p
    BY <1>2, <1>4, <2>1
  <2> QED  BY <2>2 DEF q
<1> HIDE DEF e
<1>7. 1 \in 0 .. n /\ e \in Nat /\ left[1] < 2 ^ e /\ 1 <= 1 + e
  BY <1>1, <1>3, <1>6 DEF p
<1>8. n <= 1 + e
  BY <1>7, HalvingFast
<1> QED  BY <1>1, <1>3, <1>8

\* An address has so few digits that 0x and the NUL fit too.
LEMMA AddressShort ==
  ASSUME NEW left, NEW n, NEW m, m < Whole, Halving(left, n, m, 16)
  PROVE  n <= WideBits - 2
<1> DEFINE e == WideBits - 3
           p == 2 ^ e
           b == 16
<1>1. e \in Nat /\ WideBits = ((e + 1) + 1) + 1 /\ WideBits \in Nat
  BY WidthAssumption
<1>2. Whole = 2 * (2 * (2 * p)) /\ p \in Nat
  <2>1. Whole = 2 ^ (((e + 1) + 1) + 1)
    BY <1>1 DEF Whole
  <2> HIDE DEF e
  <2>2. e + 1 \in Nat /\ (e + 1) + 1 \in Nat
    BY <1>1
  <2>3. 2 ^ (((e + 1) + 1) + 1) = 2 * 2 ^ ((e + 1) + 1)
    BY <2>2, PowerDoubles
  <2>4. 2 ^ ((e + 1) + 1) = 2 * 2 ^ (e + 1)
    BY <2>2, PowerDoubles
  <2>5. 2 ^ (e + 1) = 2 * p
    BY <1>1, PowerDoubles
  <2>6. p \in Nat
    BY <1>1, PowerIsNumber
  <2> HIDE DEF p
  <2> QED  BY <2>1, <2>3, <2>4, <2>5, <2>6
<1>3. n \in Nat \ {0} /\ left[0] = m /\ left[0] \in Nat /\ left[1] = left[1 - 1] \div b
      /\ left[1] \in Nat
  BY DEF Halving
<1>4. left[1] = m \div b /\ m \in Nat /\ b \in Bases
  BY <1>3 DEF Bases
<1>5. 8 * (m \div b) <= m
  BY <1>4, OneDivision
<1> HIDE DEF p, b
<1>6. left[1] < p
  <2> DEFINE q == left[1]
  <2>1. 8 * q <= m /\ q \in Nat
    BY <1>3, <1>4, <1>5
  <2> HIDE DEF q
  <2>2. q < p
    BY <1>2, <1>4, <2>1
  <2> QED  BY <2>2 DEF q
<1> HIDE DEF e
<1>7. 1 \in 0 .. n /\ e \in Nat /\ left[1] < 2 ^ e /\ 1 <= 1 + e
  BY <1>1, <1>3, <1>6 DEF p
<1>8. n <= 1 + e
  <2>1. Halving(left, n, m, b)
    BY DEF b
  <2> QED  BY <1>4, <1>7, <2>1, HalvingFast
<1> QED  BY <1>1, <1>3, <1>8

IsLowest == cast.base = 2 /\ cast.signed /\ cast.value = Lowest(WideBits, TRUE)

\* How long the text of a number in a proper base is.
LEMMA NumberLength ==
  ASSUME CastInv, IsItoa \/ IsSpoilt, cast.base \in Bases
  PROVE  /\ Len(cast.text) \in Nat
         /\ IF IsLowest THEN Len(cast.text) = WideBits + 1 ELSE Len(cast.text) <= WideBits
<1> DEFINE v == cast.value
           b == cast.base
           m == Magnitude(v)
<1>1a. PICK n \in 1 .. WideBits : \E left :
        Halving(left, n, m, b) /\ Spells(string_cast_itoa(v, b), v, left, n, b)
  BY CastSpells, Zenon
<1>1. PICK left :
        Halving(left, n, m, b) /\ Spells(string_cast_itoa(v, b), v, left, n, b)
  BY <1>1a
<1>2. Len(cast.text) = IF v < 0 THEN n + 1 ELSE n
  <2> DEFINE written == string_cast_itoa(v, b)
  <2>1. Len(written) = (IF v < 0 THEN n + 1 ELSE n) /\ written \in Seq(Nat)
    BY <1>1 DEF Spells
  <2>2. cast.text = written \/ cast.text = Spoilt(written)
    BY DEF IsItoa, IsSpoilt
  <2> HIDE DEF written
  <2>3. Len(Spoilt(written)) = Len(written)
    BY <2>1 DEF Spoilt
  <2> QED  BY <2>1, <2>2, <2>3
<1>3. /\ v \in Int /\ m \in Nat /\ (v < 0 => cast.signed /\ m <= Half)
      /\ (cast.signed => v \in -Half .. Half - 1)
      /\ (v < 0 => m = -v)
  BY ValueBounds DEF Magnitude
<1>4. b \in 2 .. 36 /\ b \in Bases
  BY DEF Bases
<1>5. IsLowest <=> b = 2 /\ cast.signed /\ v = -Half
  BY WideNumbers, Zenon DEF IsLowest
<1>6. WideBits \in Nat /\ n \in Nat /\ n <= WideBits /\ Half \in Nat /\ 1 <= Half
  BY WidthAssumption, WideNumbers
<1> HIDE DEF v, b, m
<1>7. CASE ~ v < 0
  <2>1. ~ IsLowest
    BY <1>3, <1>5, <1>6, <1>7
  <2> QED  BY <1>2, <1>6, <1>7, <2>1
<1>8. CASE v < 0 /\ m < Half
  <2>1. ~ IsLowest
    BY <1>3, <1>5, <1>6, <1>8
  <2>2. n <= WideBits - 1
    <3> DEFINE e == WideBits - 1
               j == 0
    <3>1. e \in Nat \ {0} /\ m < 2 ^ e
      BY <1>8, WideNumbers DEF Half
    <3> HIDE DEF e
    <3>2. left[j] < 2 ^ e /\ j \in 0 .. n /\ 1 <= j + e
      <4>1. left[j] = m
        BY <1>1 DEF Halving
      <4> QED  BY <1>6, <3>1, <4>1
    <3> HIDE DEF j
    <3>3. n <= j + e
      BY <1>1, <1>4, <3>1, <3>2, HalvingFast
    <3> QED  BY <3>1, <3>3 DEF j, e
  <2> QED  BY <1>2, <1>6, <1>8, <2>1, <2>2
<1>9. CASE v < 0 /\ m = Half /\ b # 2
  <2>1. ~ IsLowest
    BY <1>5, <1>9
  <2>2. n <= WideBits - 1
    <3>1. 3 <= b /\ m <= Half
      BY <1>3, <1>4, <1>9
    <3> QED  BY <1>1, <1>4, <3>1, OtherBaseShort
  <2> QED  BY <1>2, <1>6, <1>9, <2>1, <2>2
<1>10. CASE v < 0 /\ m = Half /\ b = 2
  <2>1. IsLowest
    BY <1>3, <1>5, <1>6, <1>10
  <2>2. n = WideBits
    <3> DEFINE e == WideBits - 1
    <3>1. e \in Nat /\ m = 2 ^ e
      BY <1>10, WideNumbers DEF Half
    <3>2. Halving(left, n, m, 2)
      BY <1>1, <1>10
    <3> HIDE DEF e
    <3>3. e < n
      BY <3>1, <3>2, PowerHasAllDigits
    <3> QED  BY <1>6, <3>3 DEF e
  <2> QED  BY <1>2, <1>6, <1>10, <2>1, <2>2
<1> QED  BY <1>3, <1>6, <1>7, <1>8, <1>9, <1>10

\* What a text is says whether it fits.
LEMMA FitsFollows == CastInv => FitsCache
<1> SUFFICES ASSUME CastInv, cast.pc # "format"
             PROVE  Len(cast.text) + 1 > CacheSize <=> IsLowest
  BY Zenon DEF FitsCache, IsLowest
<1> DEFINE length == Len(cast.text)
<1>1. WideBits \in Nat /\ 3 <= WideBits /\ CacheSize = WideBits + 1
  BY WidthAssumption DEF CacheSize
<1>2. IsLowest => cast.value = -Half /\ cast.base \in Bases /\ cast.signed
  <2>1. 2 \in Bases
    BY DEF Bases
  <2> QED  BY <2>1, WideNumbers, Zenon DEF IsLowest
<1>3. CASE IsNull
  <2>1. length = 1
    BY <1>3 DEF IsNull, NoText
  <2>2. ~ IsLowest
    BY <1>2, <1>3, WideNumbers DEF IsNull
  <2> HIDE DEF length
  <2>3. ~ length + 1 > CacheSize
    BY <1>1, <2>1
  <2> QED  BY <2>2, <2>3 DEF length
<1>4. CASE IsAddress
  <2>1. ~ IsLowest
    BY <1>2, <1>4 DEF IsAddress
  <2>2a. PICK n \in 1 .. WideBits : \E left :
          /\ Halving(left, n, cast.value, 16)
          /\ cast.text = <<0, X>> \o HighestFirst(left, n, 16)
    BY <1>4, AddressIsPointer
  <2>2. PICK left :
          /\ Halving(left, n, cast.value, 16)
          /\ cast.text = <<0, X>> \o HighestFirst(left, n, 16)
    BY <2>2a
  <2>3. length = 2 + n
    <3>1. Len(HighestFirst(left, n, 16)) = n
      BY DEF HighestFirst
    <3>2. HighestFirst(left, n, 16) = [k \in 1 .. n |-> HighestFirst(left, n, 16)[k]]
      BY DEF HighestFirst
    <3> DEFINE digits == HighestFirst(left, n, 16)
    <3> HIDE DEF digits
    <3>3. Len(digits) = n
      BY <3>1 DEF digits
    <3>4. Len(<<0, X>> \o digits) = 2 + n
      BY <3>3
    <3> QED  BY <2>2, <3>4 DEF digits
  <2>4. n <= WideBits - 2
    <3>1. cast.value < Whole
      BY <1>4, ValueBounds, WideNumbers DEF IsAddress
    <3> QED  BY <2>2, <3>1, AddressShort
  <2> HIDE DEF length
  <2>5. ~ length + 1 > CacheSize
    BY <1>1, <2>3, <2>4
  <2> QED  BY <2>1, <2>5 DEF length
<1>5. CASE IsItoa /\ cast.base \notin Bases
  <2>1. length = 1
    BY <1>5 DEF IsItoa, string_cast_itoa, ItoaErr
  <2> HIDE DEF length
  <2>2. ~ length + 1 > CacheSize
    BY <1>1, <2>1
  <2> QED  BY <1>2, <1>5, <2>2 DEF length
<1>6. CASE (IsItoa \/ IsSpoilt) /\ cast.base \in Bases
  <2>1. length \in Nat /\ IF IsLowest THEN length = WideBits + 1 ELSE length <= WideBits
    BY <1>6, NumberLength
  <2> HIDE DEF length
  <2>2. length + 1 > CacheSize <=> IsLowest
    BY <1>1, <2>1
  <2> QED  BY <2>2 DEF length
<1>7. IsSpoilt => cast.base \in Bases
  BY DEF IsSpoilt, Undefined, SumOverflows
<1> QED  BY <1>3, <1>4, <1>5, <1>6, <1>7 DEF CastInv

\* value_cache_ has room for the text of every number and address in every base,
\* for any width of the types, but for the lowest number in base 2.
THEOREM FitsCacheAlways == CastSpec => []FitsCache
<1> QED  BY CastInductive, FitsFollows, PTL

\* strtoimax, by its loop.
LEMMA StrtolScans ==
  ASSUME NEW text
  PROVE  LET b      == BaseOf(Unsigned(text))
             digits == IF b = 16 THEN SubSeq(Unsigned(text), 3, Len(Unsigned(text)))
                       ELSE Unsigned(text)
         IN Strtol(text) = [number |-> IF Negative(text) THEN -(Scanned(digits, b).number)
                                       ELSE Scanned(digits, b).number,
                            nothing |-> Scanned(digits, b).used = 0]
  BY Zenon DEF Strtol, Scanned

\* What a text reads as.
ReadsAs(text, v) == Strtol(text) = [number |-> v, nothing |-> FALSE]

\* The base strtoimax takes for a text, and the digits it reads in it.
ReadIn(text, b, digits) ==
  /\ b = BaseOf(Unsigned(text))
  /\ digits = IF b = 16 THEN SubSeq(Unsigned(text), 3, Len(Unsigned(text))) ELSE Unsigned(text)

\* A text of which the digits are those of a halving reads as the number.
LEMMA DigitsReadBack ==
  ASSUME NEW text, NEW v \in Int, NEW b \in Bases, NEW digits, ReadIn(text, b, digits),
         NEW left, NEW n, Halving(left, n, Magnitude(v), b), digits = HighestFirst(left, n, b),
         Negative(text) <=> v < 0
  PROVE  ReadsAs(text, v)
<1> DEFINE m == Magnitude(v)
           s == Scanned(digits, b)
<1>1. s = [number |-> m, used |-> n]
  <2>1. Halving(left, n, m, b) /\ digits = HighestFirst(left, n, b)
    OBVIOUS
  <2> HIDE DEF m
  <2>2. Scanned(digits, b) = [number |-> m, used |-> n]
    BY <2>1, ScanAddsUp
  <2> QED  BY <2>2
<1>2. Strtol(text) = [number |-> IF Negative(text) THEN -(s.number) ELSE s.number,
                      nothing |-> s.used = 0]
  BY StrtolScans, Zenon DEF ReadIn
<1>3. n \in Nat \ {0}
  BY DEF Halving
<1> HIDE DEF s
<1>4. s.number = m /\ s.used = n
  BY <1>1
<1>5. (s.used = 0) = FALSE
  BY <1>3, <1>4
<1>6. (IF Negative(text) THEN -(s.number) ELSE s.number) = v
  <2>1. CASE v < 0
    <3>1. m = -v
      BY <2>1 DEF Magnitude
    <3> HIDE DEF m
    <3>2. -m = v
      BY <3>1
    <3> QED  BY <1>4, <2>1, <3>2, Zenon
  <2>2. CASE ~ v < 0
    <3>1. m = v
      BY <2>2 DEF Magnitude
    <3> QED  BY <1>4, <2>2, <3>1, Zenon
  <2> QED  BY <2>1, <2>2
<1> QED  BY <1>2, <1>5, <1>6, Zenon DEF ReadsAs

\* Decimal text reads as the number, a single 0 too, which strtoimax takes for
\* octal.
LEMMA DecimalReadsBack ==
  ASSUME NEW text, NEW v \in Int, NEW left, NEW n,
         Halving(left, n, Magnitude(v), 10), Spells(text, v, left, n, 10)
  PROVE  ReadsAs(text, v)
<1> DEFINE ten    == 10
           digits == HighestFirst(left, n, ten)
<1>0. ten \in Bases /\ Halving(left, n, Magnitude(v), ten)
  BY DEF Bases
<1> HIDE DEF ten
<1>1. /\ n \in Nat \ {0} /\ digits \in [1 .. n -> 0 .. ten - 1] /\ Len(digits) = n
      /\ (n # 1 => digits[1] # 0)
  BY <1>0, DigitsFit
<1>2. (Negative(text) <=> v < 0) /\ Unsigned(text) = digits
  BY DEF Spells, ten
<1>3. CASE digits[1] # 0
  <2>1. BaseOf(digits) = ten
    <3> HIDE DEF digits
    <3> QED  BY <1>3 DEF BaseOf, ten
  <2>2. digits = IF ten = 16 THEN SubSeq(Unsigned(text), 3, Len(Unsigned(text))) ELSE Unsigned(text)
    <3>1. ten # 16
      BY DEF ten
    <3> QED  BY <1>2, <3>1, Zenon
  <2>3. ReadIn(text, ten, digits)
    <3>1. ten = BaseOf(Unsigned(text))
      BY <1>2, <2>1, Zenon
    <3> QED  BY <2>2, <3>1, Zenon DEF ReadIn
  <2> QED  BY <1>0, <1>2, <2>3, DigitsReadBack
<1>4. CASE digits[1] = 0
  <2> DEFINE b == 8
             eight == HighestFirst(left, n, b)
  <2>1. n = 1
    BY <1>1, <1>4
  <2>2. /\ left \in [0 .. 1 -> Nat] /\ left[0] = Magnitude(v) /\ left[1] = 0
    BY <2>1 DEF Halving
  <2>3. digits[1] = left[0]
    <3>1. digits[1] = left[n - 1] - left[n + 1 - 1] * ten
      BY <2>1 DEF HighestFirst
    <3>2. n - 1 = 0 /\ n + 1 - 1 = 1
      BY <2>1
    <3>3. digits[1] = left[0] - left[1] * 10
      BY <3>1, <3>2, Zenon DEF ten
    <3> HIDE DEF digits
    <3> QED  BY <2>2, <3>3
  <2>4. left[0] = 0
    BY <1>4, <2>3, Zenon
  <2>5. Halving(left, n, Magnitude(v), b)
    <3>1. \A k \in 1 .. 1 : left[k] = left[k - 1] \div b
      BY <2>2, <2>4
    <3>2. \A k \in 1 .. 1 - 1 : left[k] # 0
      OBVIOUS
    <3> QED  BY <2>1, <2>2, <3>1, <3>2 DEF Halving
  <2>6. eight = digits
    <3>1. \A k \in 1 .. 1 : left[1 - k] - left[1 + 1 - k] * b = 0
      BY <2>2, <2>4
    <3>2. eight = [k \in 1 .. 1 |-> 0]
      BY <2>1, <3>1 DEF HighestFirst
    <3>3. digits = [k \in 1 .. 1 |-> 0]
      <4>1. digits = [k \in 1 .. 1 |-> digits[k]]
        BY <2>1 DEF HighestFirst
      <4> HIDE DEF digits
      <4> QED  BY <1>4, <4>1
    <3> HIDE DEF eight, digits
    <3> QED  BY <3>2, <3>3
  <2>7. BaseOf(digits) = b
    <3> HIDE DEF digits
    <3>1. digits # << >> /\ ~ Len(digits) > 2
      BY <1>1, <2>1
    <3> QED  BY <1>4, <3>1 DEF BaseOf
  <2>8. digits = IF b = 16 THEN SubSeq(Unsigned(text), 3, Len(Unsigned(text))) ELSE Unsigned(text)
    <3>1. b # 16
      OBVIOUS
    <3> HIDE DEF b
    <3> QED  BY <1>2, <3>1, Zenon
  <2>9. b \in Bases /\ ReadIn(text, b, digits) /\ digits = HighestFirst(left, n, b)
    <3>1. b \in Bases
      BY DEF Bases
    <3>2. b = BaseOf(Unsigned(text)) /\ digits = HighestFirst(left, n, b)
      BY <1>2, <2>6, <2>7, Zenon
    <3> QED  BY <2>8, <3>1, <3>2, Zenon DEF ReadIn
  <2> HIDE DEF b
  <2> QED  BY <1>2, <2>5, <2>9, DigitsReadBack
<1> QED  BY <1>3, <1>4

\* The text of an address reads as the address.
LEMMA AddressReadsBack ==
  ASSUME NEW v \in Nat, NEW left, NEW n, Halving(left, n, v, 16),
         NEW text, text = <<0, X>> \o HighestFirst(left, n, 16)
  PROVE  ReadsAs(text, v)
<1> DEFINE b      == 16
           digits == HighestFirst(left, n, b)
<1>0. b \in Bases /\ Halving(left, n, Magnitude(v), b) /\ ~ v < 0
  <2>1. Magnitude(v) = v /\ ~ v < 0
    BY DEF Magnitude
  <2>2. b \in Bases
    BY DEF Bases
  <2> QED  BY <2>1, <2>2
<1> HIDE DEF b
<1>1. n \in Nat \ {0} /\ digits \in [1 .. n -> 0 .. b - 1] /\ Len(digits) = n
  BY <1>0, DigitsFit
<1>2. text = <<0, X>> \o digits
  BY DEF b
<1> HIDE DEF digits
<1>3. digits \in Seq(Nat) /\ digits[1] < 16 /\ digits[1] \in Nat
  <2>1. 1 \in 1 .. n /\ digits \in [1 .. n -> 0 .. 15] /\ n \in Nat
    BY <1>1 DEF b
  <2>2. \A k \in 1 .. n : digits[k] \in 0 .. 15
    BY <2>1
  <2>3. digits = [k \in 1 .. n |-> digits[k]]
    BY <2>1
  <2>4. ASSUME NEW k \in 1 .. n PROVE digits[k] \in Nat /\ digits[k] < 16
    <3>1. digits[k] \in 0 .. 15
      BY <2>2
    <3> QED  BY <3>1
  <2>5. digits \in Seq(Nat)
    BY <2>1, <2>3, <2>4
  <2> QED  BY <2>1, <2>4, <2>5
<1>4. /\ text \in Seq(Nat) /\ Len(text) = n + 2 /\ text[1] = 0 /\ text[2] = X /\ text[3] = digits[1]
      /\ \A k \in 1 .. n : text[k + 2] = digits[k]
  <2> DEFINE two == <<0, X>>
  <2>1. two \in Seq(Nat) /\ Len(two) = 2 /\ two[1] = 0 /\ two[2] = X
    BY DEF X
  <2> HIDE DEF two
  <2>2. /\ two \o digits \in Seq(Nat) /\ Len(two \o digits) = Len(two) + Len(digits)
        /\ \A i \in 1 .. Len(two) + Len(digits) : (two \o digits)[i] =
             IF i <= Len(two) THEN two[i] ELSE digits[i - Len(two)]
    BY <1>3, <2>1, ConcatProperties
  <2>3. text = two \o digits
    BY <1>2 DEF two
  <2>4. ASSUME NEW k \in 1 .. n PROVE text[k + 2] = digits[k]
    <3>1. /\ k + 2 \in 1 .. Len(two) + Len(digits) /\ ~ k + 2 <= Len(two)
          /\ k + 2 - Len(two) = k
      BY <1>1, <2>1
    <3> DEFINE i == k + 2
    <3>2. (two \o digits)[i] = IF i <= Len(two) THEN two[i] ELSE digits[i - Len(two)]
      BY <2>2, <3>1
    <3>3. (two \o digits)[i] = digits[k]
      BY <3>1, <3>2
    <3> QED  BY <2>3, <3>3
  <2>5. \A k \in 1 .. n : text[k + 2] = digits[k]
    BY <2>4
  <2>6. text[1] = 0 /\ text[2] = X
    BY <1>1, <2>1, <2>2, <2>3
  <2>7. text[3] = digits[1]
    <3>1. 1 \in 1 .. n /\ 1 + 2 = 3
      BY <1>1
    <3> QED  BY <2>5, <3>1
  <2>8. text \in Seq(Nat)
    BY <2>2, <2>3, Zenon
  <2>9. Len(text) = n + 2
    BY <1>1, <2>1, <2>2, <2>3
  <2> QED  BY <2>5, <2>6, <2>7, <2>8, <2>9, Zenon
<1>5. ~ Negative(text) /\ Unsigned(text) = text
  BY <1>4 DEF Negative, Unsigned, Minus
<1>6. BaseOf(text) = b
  <2>1. Len(text) > 2 /\ text[1] = 0 /\ text[2] = X /\ text[3] < 16
    BY <1>1, <1>3, <1>4
  <2> QED  BY <2>1, Zenon DEF BaseOf, b
<1>7. SubSeq(text, 3, Len(text)) = digits
  <2> DEFINE s == SubSeq(text, 3, Len(text))
  <2>1. 3 \in 1 .. Len(text) + 1 /\ Len(text) \in 3 - 1 .. Len(text)
    BY <1>1, <1>4
  <2>2. s = [k \in 1 .. n |-> text[k + 2]]
    <3>1. Len(text) - 3 + 1 = n /\ \A k \in 1 .. n : 3 + k - 1 = k + 2
      BY <1>1, <1>4
    <3>2. s = [k \in 1 .. Len(text) - 3 + 1 |-> text[3 + k - 1]]
      OBVIOUS
    <3> HIDE DEF s
    <3> QED  BY <3>1, <3>2
  <2> HIDE DEF s
  <2>3. digits = [k \in 1 .. n |-> digits[k]]
    BY <1>1
  <2>4. s = digits
    BY <1>4, <2>2, <2>3
  <2> QED  BY <2>4 DEF s
<1>8. /\ ReadIn(text, b, digits) /\ digits = HighestFirst(left, n, b)
      /\ Negative(text) <=> v < 0
  <2>1. b = 16
    BY DEF b
  <2> QED  BY <1>0, <1>5, <1>6, <1>7, <2>1, Zenon DEF digits, ReadIn
<1>9. v \in Int /\ b \in Bases /\ Halving(left, n, Magnitude(v), b)
  BY <1>0
<1> QED  BY <1>8, <1>9, DigitsReadBack

\* The ends of the type a reader asks for: those of the wide type or, of the
\* narrow one, at most half as far.
LEMMA ReaderRange ==
  ASSUME NEW bits \in {NarrowBits, WideBits}
  PROVE  \E h \in Nat :
           /\ 1 <= h
           /\ Lowest(bits, TRUE) = -h /\ Highest(bits, TRUE) = h - 1
           /\ Lowest(bits, FALSE) = 0 /\ Highest(bits, FALSE) = 2 * h - 1
           /\ bits = WideBits => h = Half
           /\ bits < WideBits => 2 * h <= Half
<1>1. CASE bits = WideBits
  <2>1. ~ bits < WideBits
    BY <1>1, WidthAssumption
  <2>2. /\ 1 <= Half /\ Half \in Nat
        /\ Lowest(bits, TRUE) = -Half /\ Highest(bits, TRUE) = Half - 1
        /\ Lowest(bits, FALSE) = 0 /\ Highest(bits, FALSE) = 2 * Half - 1
    BY <1>1, WideNumbers
  <2> QED  BY <2>1, <2>2
<1>2. CASE bits = NarrowBits /\ bits # WideBits
  <2> DEFINE n == bits - 1
             h == 2 ^ n
  <2>1. n \in Nat /\ bits = n + 1 /\ bits \in Nat /\ bits <= WideBits - 1 /\ WideBits - 1 \in Nat
    BY <1>2, WidthAssumption
  <2>2. 2 ^ bits = 2 * h /\ h \in Nat /\ 1 <= h
    <3> HIDE DEF n
    <3>1. 2 ^ (n + 1) = 2 * 2 ^ n /\ 2 ^ n \in Nat /\ 1 <= 2 ^ n
      BY <2>1, PowerDoubles, PowerIsNumber, PowerGrows
    <3> QED  BY <2>1, <3>1
  <2>3. 2 ^ bits <= Half
    BY <2>1, PowerGrows DEF Half
  <2>4. /\ Lowest(bits, TRUE) = -h /\ Highest(bits, TRUE) = h - 1
        /\ Lowest(bits, FALSE) = 0 /\ Highest(bits, FALSE) = 2 ^ bits - 1
    BY Zenon DEF Lowest, Highest
  <2> HIDE DEF h
  <2>5. Highest(bits, FALSE) = 2 * h - 1 /\ 2 * h <= Half
    BY <2>2, <2>3, <2>4
  <2> QED  BY <1>2, <2>2, <2>4, <2>5
<1> QED  BY <1>1, <1>2

\* Saturation: a number of the signed wide type is read as it is, one above as the
\* largest; the unsigned wide type takes a negative one modulo.
LEMMA SaturatedIs ==
  ASSUME NEW v \in Int, v \in -Half .. Half - 1 \/ v \in 0 .. Whole - 1
  PROVE  /\ Saturated(v, TRUE) = IF v > Half - 1 THEN Half - 1 ELSE v
         /\ Saturated(v, FALSE) = IF v < 0 THEN v + Whole ELSE v
<1>1. Half \in Nat /\ 1 <= Half /\ Whole = 2 * Half /\ Whole \in Nat
  BY WideNumbers
<1>2. Saturated(v, TRUE) = IF v > Half - 1 THEN Half - 1 ELSE v
  <2>1. ~ v < -Half
    BY <1>1
  <2>2. Saturated(v, TRUE) = IF v < -Half THEN -Half ELSE IF v > Half - 1 THEN Half - 1 ELSE v
    BY WideNumbers, Zenon DEF Saturated
  <2> QED  BY <2>1, <2>2, Zenon
<1>3. Saturated(v, FALSE) = IF v < 0 THEN v + Whole ELSE v
  <2>1. ~ Magnitude(v) > Whole - 1
    BY <1>1 DEF Magnitude
  <2>2. Saturated(v, FALSE) = IF Magnitude(v) > Whole - 1 THEN Whole - 1 ELSE v % Whole
    BY WideNumbers, Zenon DEF Saturated, Whole
  <2>3. v % Whole = IF v < 0 THEN v + Whole ELSE v
    <3> DEFINE w == Whole
    <3>1. w \in Nat /\ 1 <= w /\ (v \in 0 .. w - 1 \/ v \in -w .. -1)
      BY <1>1
    <3> HIDE DEF w
    <3>2. v \in 0 .. w - 1 => v % w = v
      BY <3>1
    <3>3. v \in -w .. -1 => v % w = v + w
      BY <3>1
    <3>4. v % w = IF v < 0 THEN v + w ELSE v
      BY <3>1, <3>2, <3>3
    <3> QED  BY <3>4 DEF w
  <2> QED  BY <2>1, <2>2, <2>3, Zenon
<1> QED  BY <1>2, <1>3

\* What valid() and the value say of a number that was read.
TellsRange(r, v, low, high, narrow) ==
  LET fits == v \in low .. high
  IN /\ fits => r = [value |-> v, valid |-> TRUE]
     /\ narrow => r.valid = fits /\ r.value \in low .. high

\* number_cast: the number if the type of the reader holds it, and if the type is
\* narrower the nearer end and not valid if it does not.
LEMMA NumberCastTells ==
  ASSUME NEW text, text # NoText, NEW v \in Int, ReadsAs(text, v),
         v \in -Half .. Half - 1 \/ v \in 0 .. Whole - 1,
         NEW bits \in {NarrowBits, WideBits}, NEW reader \in BOOLEAN
  PROVE  TellsRange(number_cast(text, bits, reader), v,
                    Lowest(bits, reader), Highest(bits, reader), bits < WideBits)
<1> DEFINE low   == Lowest(bits, reader)
           high  == Highest(bits, reader)
           value == Saturated(v, reader)
           r     == number_cast(text, bits, reader)
<1>1. /\ r = IF value < low THEN [value |-> low, valid |-> FALSE]
             ELSE IF high < value THEN [value |-> high, valid |-> FALSE]
             ELSE [value |-> value, valid |-> TRUE]
  <2>1. Strtol(text).number = v /\ Strtol(text).nothing = FALSE
    <3> DEFINE s == Strtol(text)
    <3>1. s = [number |-> v, nothing |-> FALSE]
      BY DEF ReadsAs
    <3> HIDE DEF s
    <3>2. s.number = v /\ s.nothing = FALSE
      BY <3>1
    <3> QED  BY <3>2 DEF s
  <2> QED  BY <2>1, Zenon DEF number_cast
<1>2. Half \in Nat /\ 1 <= Half /\ Whole = 2 * Half
  BY WideNumbers
<1>3. PICK h \in Nat :
           /\ 1 <= h
           /\ Lowest(bits, TRUE) = -h /\ Highest(bits, TRUE) = h - 1
           /\ Lowest(bits, FALSE) = 0 /\ Highest(bits, FALSE) = 2 * h - 1
           /\ bits = WideBits => h = Half
           /\ bits < WideBits => 2 * h <= Half
  BY ReaderRange
<1>4. (bits = WideBits \/ bits < WideBits) /\ (bits = WideBits => ~ bits < WideBits)
  BY WidthAssumption
<1>5. h <= Half
  BY <1>2, <1>3, <1>4
<1>6. low \in Int /\ high \in Int /\ low <= high /\ value \in Int
  <2>1. CASE reader = TRUE
    <3>1. low = -h /\ high = h - 1 /\ value = IF v > Half - 1 THEN Half - 1 ELSE v
      BY <1>3, <2>1, SaturatedIs
    <3> QED  BY <1>2, <1>3, <3>1
  <2>2. CASE reader = FALSE
    <3>1. low = 0 /\ high = 2 * h - 1 /\ value = IF v < 0 THEN v + Whole ELSE v
      BY <1>3, <2>2, SaturatedIs
    <3> QED  BY <1>2, <1>3, <3>1
  <2> QED  BY <2>1, <2>2
<1>7. /\ v \in low .. high => value = v
      /\ bits < WideBits /\ v \notin low .. high => value \notin low .. high
  <2>1. CASE reader = TRUE
    <3>1. low = -h /\ high = h - 1 /\ value = IF v > Half - 1 THEN Half - 1 ELSE v
      BY <1>3, <2>1, SaturatedIs
    <3> HIDE DEF low, high, value
    <3> QED  BY <1>2, <1>3, <1>5, <3>1
  <2>2. CASE reader = FALSE
    <3>1. low = 0 /\ high = 2 * h - 1 /\ value = IF v < 0 THEN v + Whole ELSE v
      BY <1>3, <2>2, SaturatedIs
    <3> HIDE DEF low, high, value
    <3> QED  BY <1>2, <1>3, <1>5, <3>1
  <2> QED  BY <2>1, <2>2
<1> HIDE DEF low, high, value, r
<1>8. v \in low .. high => r = [value |-> v, valid |-> TRUE]
  BY <1>1, <1>6, <1>7
<1>9. CASE v \in low .. high
  <2>1. r.valid = TRUE /\ r.value = v
    BY <1>8, <1>9
  <2>2. (v \in low .. high) = TRUE
    BY <1>9
  <2> QED  BY <1>8, <1>9, <2>1, <2>2, Zenon DEF TellsRange, low, high, r
<1>10. CASE v \notin low .. high
  <2> SUFFICES ASSUME bits < WideBits PROVE r.valid = FALSE /\ r.value \in low .. high
    <3>1. (v \in low .. high) = FALSE
      BY <1>10
    <3> QED  BY <1>10, <3>1, Zenon DEF TellsRange, low, high, r
  <2>1. value < low \/ high < value
    BY <1>6, <1>7, <1>10
  <2>2. r = [value |-> low, valid |-> FALSE] \/ r = [value |-> high, valid |-> FALSE]
    BY <1>1, <2>1
  <2>3. low \in low .. high /\ high \in low .. high
    BY <1>6
  <2> QED  BY <2>2, <2>3
<1> QED  BY <1>9, <1>10

\* A text that begins with no digit is no number.
LEMMA ErrorIsNothing == Strtol(ItoaErr).nothing
<1> DEFINE text   == ItoaErr
           b      == BaseOf(Unsigned(text))
           digits == IF b = 16 THEN SubSeq(Unsigned(text), 3, Len(Unsigned(text)))
                     ELSE Unsigned(text)
           first  == [number |-> 0, used |-> 0]
           After(s, k) ==
             IF s.used = k - 1 /\ digits[k] < b
             THEN [number |-> s.number * b + digits[k], used |-> k] ELSE s
           value[k \in 0 .. 1] == IF k = 0 THEN first ELSE After(value[k - 1], k)
           g == [k \in 0 .. 1 |-> first]
<1>1. Unsigned(text) = <<37>>
  BY DEF Unsigned, Negative, ItoaErr, Minus
<1>2. b = 10
  BY <1>1 DEF BaseOf
<1>3. digits = <<37>>
  BY <1>1, <1>2
<1> HIDE DEF digits, b
<1>4. Len(digits) = 1 /\ ~ digits[1] < b
  BY <1>2, <1>3
<1>5. value = [k \in 0 .. 1 |-> IF k = 0 THEN first ELSE After(value[k - 1], k)]
  <2>1. ASSUME NEW k \in 0 .. 1
        PROVE  g[k] = IF k = 0 THEN first ELSE After(g[k - 1], k)
    <3>1. CASE k = 0
      BY <3>1
    <3>2. CASE k = 1
      <4>1. g[1] = first /\ g[1 - 1] = first
        OBVIOUS
      <4> HIDE DEF g
      <4> QED  BY <1>4, <3>2, <4>1
    <3> QED  BY <3>1, <3>2
  <2>2. g = [k \in 0 .. 1 |-> g[k]]
    OBVIOUS
  <2> HIDE DEF g, After, first
  <2>3. g = [k \in 0 .. 1 |-> IF k = 0 THEN first ELSE After(g[k - 1], k)]
    BY <2>1, <2>2
  <2> QED  BY <2>3, Zenon DEF first
<1>6. Scanned(digits, b) = value[1]
  BY <1>4, Zenon DEF Scanned
<1>7. value[1].used = 0
  <2> HIDE DEF value
  <2>1. value[0] = first /\ value[1] = After(value[0], 1)
    BY <1>5
  <2>2. value[1] = first
    BY <1>4, <2>1
  <2> QED  BY <2>2
<1>8. Strtol(text) = [number |-> IF Negative(text) THEN -(Scanned(digits, b).number)
                                 ELSE Scanned(digits, b).number,
                      nothing |-> Scanned(digits, b).used = 0]
  BY StrtolScans, Zenon DEF b, digits
<1>9. Strtol(text).nothing = (Scanned(digits, b).used = 0)
  <2> DEFINE s == Scanned(digits, b)
  <2> HIDE DEF s
  <2> QED  BY <1>8 DEF s
<1> QED  BY <1>6, <1>7, <1>9, Zenon

\* The text of a cast in base 10, or of an address, reads as its number.
LEMMA CastReadsBack ==
  ASSUME CastInv, cast.pc = "done", cast.text # NoText, cast.base = 10 \/ IsPointer,
         ~ Undefined
  PROVE  ReadsAs(cast.text, cast.value)
<1>1. cast.value \in Int
  BY ValueBounds
<1>2. ~ IsNull /\ ~ IsSpoilt
  BY DEF IsNull, IsSpoilt
<1>3. CASE IsAddress
  <2> DEFINE v    == cast.value
             text == cast.text
  <2>1. v \in Nat
    BY <1>1, <1>3, ValueBounds, WideNumbers DEF IsAddress
  <2>2a. PICK n \in 1 .. WideBits : \E left :
          Halving(left, n, v, 16) /\ text = <<0, X>> \o HighestFirst(left, n, 16)
    BY <1>3, AddressIsPointer
  <2>2. PICK left :
          Halving(left, n, v, 16) /\ text = <<0, X>> \o HighestFirst(left, n, 16)
    BY <2>2a
  <2> HIDE DEF v, text
  <2>3. ReadsAs(text, v)
    BY <2>1, <2>2, AddressReadsBack
  <2> QED  BY <2>3 DEF text, v
<1>4. CASE IsItoa /\ ~ IsAddress
  <2> DEFINE v == cast.value
             b == cast.base
             text == string_cast_itoa(v, b)
  <2>1. cast.text = text
    BY <1>4 DEF IsItoa
  <2>2. b \in Bases
    <3>1. CASE b = 10
      BY <3>1 DEF Bases
    <3>2. CASE b # 10 /\ b \notin Bases
      <4>1. cast.text = ItoaErr
        BY <2>1, <3>2 DEF string_cast_itoa
      <4>2. Len(cast.text) = 1
        BY <4>1 DEF ItoaErr
      <4> QED  BY <3>2, <4>2 DEF IsPointer
    <3> QED  BY <3>1, <3>2
  <2>3a. PICK n \in 1 .. WideBits : \E left :
          Halving(left, n, Magnitude(v), b) /\ Spells(text, v, left, n, b)
    BY <2>2, CastSpells, Zenon
  <2>3. PICK left :
          Halving(left, n, Magnitude(v), b) /\ Spells(text, v, left, n, b)
    BY <2>3a
  <2>4. ~ IsPointer
    <3>1. ~ (Len(text) > 2 /\ text[1] = 0 /\ text[2] = X)
      <4> HIDE DEF text, v, b
      <4>1. v \in Int
        BY <1>1 DEF v
      <4> QED  BY <2>2, <2>3, <4>1, NumberIsNoPointer
    <3> QED  BY <2>1, <3>1, Zenon DEF IsPointer
  <2>5. b = 10
    BY <2>4
  <2> HIDE DEF text, v, b
  <2>6. v \in Int /\ Halving(left, n, Magnitude(v), 10) /\ Spells(text, v, left, n, 10)
    BY <1>1, <2>3, <2>5 DEF v
  <2>7. ReadsAs(text, v)
    BY <2>6, DecimalReadsBack
  <2> QED  BY <2>1, <2>7 DEF v
<1> QED  BY <1>2, <1>3, <1>4 DEF CastInv

\* What was read is what number_cast makes of the text the number was written as.
LEMMA ReadsFollows == CastInv => ReadsBack
<1> SUFFICES ASSUME CastInv, cast.pc = "done" PROVE ReadsBack
  BY Zenon DEF ReadsBack
<1> DEFINE text == cast.text
           r    == number_cast(text, cast.bits, cast.reader)
<1>1. cast.read[1] = r
  <2>1. cast.read = <<number_cast(text, cast.bits, cast.reader)>>
    BY DEF CastInv
  <2> HIDE DEF text
  <2> QED  BY <2>1
<1>2. cast.bits \in {NarrowBits, WideBits} /\ cast.reader \in BOOLEAN /\ cast.value \in Int
  BY DEF CastInv, CastType
<1>3. text \in {NoText, ItoaErr} => ~ r.valid
  <2>1. text = NoText \/ Strtol(text).nothing => r = [value |-> 0, valid |-> FALSE]
    BY Zenon DEF number_cast
  <2> HIDE DEF r
  <2>2. text = ItoaErr => Strtol(text).nothing
    BY ErrorIsNothing, Zenon
  <2> QED  BY <2>1, <2>2
<1>4. ASSUME text # NoText, cast.base = 10 \/ IsPointer, ~ Undefined
      PROVE  TellsRange(r, cast.value, Lowest(cast.bits, cast.reader),
                        Highest(cast.bits, cast.reader), cast.bits < WideBits)
  <2> DEFINE v      == cast.value
             bits   == cast.bits
             reader == cast.reader
  <2>1. ReadsAs(text, v)
    BY <1>4, CastReadsBack
  <2>2. v \in -Half .. Half - 1 \/ v \in 0 .. Whole - 1
    BY ValueBounds
  <2>3. text # NoText /\ v \in Int /\ bits \in {NarrowBits, WideBits} /\ reader \in BOOLEAN
    BY <1>2, <1>4
  <2> HIDE DEF v, bits, reader, text
  <2>4. TellsRange(number_cast(text, bits, reader), v,
                   Lowest(bits, reader), Highest(bits, reader), bits < WideBits)
    BY <2>1, <2>2, <2>3, NumberCastTells
  <2> QED  BY <2>4 DEF v, bits, reader
<1> HIDE DEF r
<1> QED  BY <1>1, <1>3, <1>4, Zenon DEF ReadsBack, TellsRange

\* Decimal text and addresses are read back exactly, and a narrower type says when
\* it cannot hold them, for any two widths and every number whose text is defined.
THEOREM ReadsBackAlways == CastSpec => []ReadsBack
<1> QED  BY CastInductive, ReadsFollows, PTL

=============================================================================
