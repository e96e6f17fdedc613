------------------------------ MODULE Listeners ------------------------------
(***************************************************************************)
(* How the wrapper is started, and the listeners it calls.  init opens the *)
(* log, tells mars the server and hands it the two callback singletons;    *)
(* from OnCreate on, mars calls them on its network thread.  The listeners *)
(* are two plain globals: application threads write them at any time,      *)
(* without a lock, and the handlers read them once.  It deletes a listener *)
(* whenever it likes, but registers none it has deleted.  Several threads  *)
(* may call init.  The build is the one without ANDROID.                   *)
(***************************************************************************)
EXTENDS Naturals, Sequences

CONSTANTS
  Apps,        \* application threads
  AppListeners, \* the listeners the application has, of either kind
  NULL

ASSUME ListenAssumption == NULL \notin AppListeners /\ NULL \notin Apps

VARIABLES
  at,          \* per thread: the step of init it is about to take, 0 outside
  sawNull,     \* per thread: Instance() found no object and will make one
  mine,        \* per thread: the object Instance() is about to return
  done,        \* the steps of init that some thread has taken
  instance,    \* the two _instance; an object is named by the thread that made it
  held,        \* the two callbacks mars calls
  registered,  \* g_pushListener and g_channelListener
  freed,       \* listeners the application has deleted
  exposed,     \* history: those of them it deleted while they could still be called
  net,         \* the handler on the network thread
  seen         \* history: what the handler's global held since it started

starting   == <<at, sawNull, mine, done, instance, held>>
calling    == <<registered, freed, exposed, net, seen>>
listenVars == <<at, sawNull, mine, done, instance, held,
                registered, freed, exposed, net, seen>>

\* Faulty: mars is started before it is told whom to call.
FaultyInitSteps ==
  <<"appender_open", "xlogger_SetLevel", "SetLonglinkSvrAddr", "SetBackupIPs",
    "OnCreate", "StnInstance", "StnSetCallback", "AppInstance", "AppSetCallback",
    "OnForeground", "MakesureLonglinkConnected">>

InitSteps ==
  <<"appender_open", "xlogger_SetLevel", "SetLonglinkSvrAddr", "SetBackupIPs",
    "StnInstance", "StnSetCallback", "AppInstance", "AppSetCallback",
    "OnCreate", "OnForeground", "MakesureLonglinkConnected">>

Callbacks == {"stn", "app"}
Handlers  == {"push", "channel"}
Idle      == [pc |-> "idle", handler |-> "push", message |-> NULL, local |-> NULL]

\* Of a packet the server pushes, its magic number is kept.
Magics == {"magic_num", "other"}

\* ImMessage(data, size): what it is given becomes the body of a message with
\* a magic number of its own.
ImMessage(packet) == [magicNum |-> "magic_num", data |-> packet]

IsValid(message) == message.magicNum = "magic_num"

ListenInit ==
  /\ at = [a \in Apps |-> 0] /\ sawNull = [a \in Apps |-> FALSE]
  /\ mine = [a \in Apps |-> NULL] /\ done = {}
  /\ instance = [c \in Callbacks |-> NULL] /\ held = [c \in Callbacks |-> NULL]
  /\ registered = [h \in Handlers |-> NULL] /\ freed = {} /\ exposed = {}
  /\ net = Idle /\ seen = {}

-----------------------------------------------------------------------------
(* marsPlus::init.                                                          *)

AtStep(a, step) == at[a] \in DOMAIN InitSteps /\ InitSteps[at[a]] = step

InstanceStep(c)    == IF c = "stn" THEN "StnInstance" ELSE "AppInstance"
SetCallbackStep(c) == IF c = "stn" THEN "StnSetCallback" ELSE "AppSetCallback"

StepDone(a) ==
  /\ at' = [at EXCEPT ![a] = IF @ = Len(InitSteps) THEN 0 ELSE @ + 1]
  /\ done' = done \cup {InitSteps[at[a]]}

EnterInit(a) ==
  /\ at[a] = 0 /\ at' = [at EXCEPT ![a] = 1]
  /\ UNCHANGED <<sawNull, mine, done, instance, held, calling>>

\* A call of mars that keeps nothing of the wrapper's.
PlainStep(a) ==
  /\ at[a] \in DOMAIN InitSteps
  /\ \A c \in Callbacks : ~ AtStep(a, InstanceStep(c)) /\ ~ AtStep(a, SetCallbackStep(c))
  /\ StepDone(a)
  /\ UNCHANGED <<sawNull, mine, instance, held, calling>>

\* if (_instance == NULL)
CheckInstance(a, c) ==
  /\ AtStep(a, InstanceStep(c)) /\ ~ sawNull[a]
  /\ IF instance[c] = NULL
     THEN sawNull' = [sawNull EXCEPT ![a] = TRUE] /\ UNCHANGED <<at, mine, done>>
     ELSE mine' = [mine EXCEPT ![a] = instance[c]] /\ StepDone(a) /\ UNCHANGED sawNull
  /\ UNCHANGED <<instance, held, calling>>

\* _instance = new ...: another thread may have made one since the test.
NewInstance(a, c) ==
  /\ AtStep(a, InstanceStep(c)) /\ sawNull[a]
  /\ instance' = [instance EXCEPT ![c] = a]
  /\ mine' = [mine EXCEPT ![a] = a] /\ sawNull' = [sawNull EXCEPT ![a] = FALSE]
  /\ StepDone(a)
  /\ UNCHANGED <<held, calling>>

\* SetCallback(Instance()): return _instance reads it again, or, the access being
\* unsynchronised, keeps the value in hand.
SetCallback(a, c) ==
  /\ AtStep(a, SetCallbackStep(c))
  /\ \E object \in {mine[a], instance[c]} : held' = [held EXCEPT ![c] = object]
  /\ mine' = [mine EXCEPT ![a] = NULL]
  /\ StepDone(a)
  /\ UNCHANGED <<sawNull, instance, calling>>

-----------------------------------------------------------------------------
(* registerPushListener and registerChannelListener.                        *)

\* On any thread, with a listener that exists.  The handler under way sees the
\* store or not, until it has read the global.
Register(h, listener) ==
  /\ listener \notin freed
  /\ registered' = [registered EXCEPT ![h] = listener]
  /\ seen' = IF net.pc = "read" /\ net.handler = h THEN seen \cup {listener} ELSE seen
  /\ UNCHANGED <<starting, freed, exposed, net>>

\* A global names the listener, or the handler under way has it in hand.
Reachable(listener) ==
  \/ \E h \in Handlers : registered[h] = listener
  \/ net.pc \in {"call", "listener"} /\ net.local = listener

\* The application deletes a listener, on any thread and at any time: also one
\* that is registered, as the demo's, which ends with main, and one a handler
\* has just read.
FreeListener(listener) ==
  /\ listener \notin freed
  /\ freed' = freed \cup {listener}
  /\ exposed' = IF Reachable(listener) THEN exposed \cup {listener} ELSE exposed
  /\ UNCHANGED <<starting, registered, net, seen>>

-----------------------------------------------------------------------------
(* OnPush and ReportConnectStatus, on the network thread.                   *)

\* mars calls a handler.  OnPush makes a message of the packet, whatever it is.
Called(h, message) ==
  /\ "OnCreate" \in done /\ net.pc = "idle"
  /\ net' = [pc |-> "read", handler |-> h, message |-> message, local |-> NULL]
  /\ seen' = {registered[h]}
  /\ UNCHANGED <<starting, registered, freed, exposed>>

OnPush(packet)      == Called("push", ImMessage(packet))
ReportConnectStatus == Called("channel", NULL)

\* What the handler asks beside whether there is a listener.
MayPass == net.handler = "push" => IsValid(net.message)

\* Faulty: each getter returns the other's global.
FaultyReadListener ==
  /\ net.pc = "read"
  /\ \E other \in Handlers \ {net.handler} :
       net' = [net EXCEPT !.pc = "call", !.local = registered[other]]
  /\ UNCHANGED <<starting, registered, freed, exposed, seen>>

\* getPushListener() or getChannelListener(), into a local.
ReadListener ==
  /\ net.pc = "read"
  /\ net' = [net EXCEPT !.pc = "call", !.local = registered[net.handler]]
  /\ UNCHANGED <<starting, registered, freed, exposed, seen>>

\* Faulty: the global is tested and then read again to be called.
FaultyCallListener ==
  /\ net.pc = "call"
  /\ net' = IF net.local # NULL /\ MayPass
            THEN [net EXCEPT !.pc = "listener", !.local = registered[net.handler]]
            ELSE [net EXCEPT !.pc = "skipped"]
  /\ UNCHANGED <<starting, registered, freed, exposed, seen>>

\* Called if there is one and, for a push, the message is valid.
CallListener ==
  /\ net.pc = "call"
  /\ net' = [net EXCEPT !.pc = IF net.local # NULL /\ MayPass THEN "listener" ELSE "skipped"]
  /\ UNCHANGED <<starting, registered, freed, exposed, seen>>

ReturnToMars ==
  /\ net.pc \in {"listener", "skipped"} /\ net' = Idle /\ seen' = {}
  /\ UNCHANGED <<starting, registered, freed, exposed>>

ListenNext ==
  \/ \E a \in Apps :
       \/ EnterInit(a) \/ PlainStep(a)
       \/ \E c \in Callbacks : CheckInstance(a, c) \/ NewInstance(a, c) \/ SetCallback(a, c)
  \/ \E h \in Handlers, listener \in AppListeners \cup {NULL} : Register(h, listener)
  \/ \E listener \in AppListeners : FreeListener(listener)
  \/ \E packet \in Magics : OnPush(packet)
  \/ ReportConnectStatus
  \/ ReadListener \/ CallListener \/ ReturnToMars

ListenSpec == ListenInit /\ [][ListenNext]_listenVars

-----------------------------------------------------------------------------
(* Properties.                                                              *)

\* The listener a handler calls was registered while the handler ran, although
\* it may be replaced, or NULL registered, between the read of the global, the
\* test and the call; and it is deleted only if the application deleted it
\* while it was registered, or while this handler had it in hand.
CalledIsRegistered ==
  /\ net.pc = "call" => net.local \in seen
  /\ net.pc = "listener" => net.local \in seen \ {NULL}
  /\ net.pc \in {"call", "listener"} => net.local \notin freed \ exposed

\* A handler passes over what it was called with, a push with a wrong magic
\* number included, only if the application had no listener at some time
\* before the call.
PushDelivered == net.pc = "skipped" => NULL \in seen

\* No handler runs before the log is open at its level and mars knows the server
\* and holds both callback objects, whoever else is inside init.
StartedBeforeCalled ==
  net.pc # "idle" =>
    /\ {"appender_open", "xlogger_SetLevel", "SetLonglinkSvrAddr", "SetBackupIPs"} \subseteq done
    /\ \A c \in Callbacks : held[c] \in Apps /\ instance[c] # NULL
=============================================================================
