# A verification project for mars_wrapper

mars_wrapper wraps Tencent's mars network library behind four functions
(`include/mars_plus.h`): `init`, `sendMessage`, `registerPushListener` and
`registerChannelListener`. The wrapper gives mars the callbacks and the packet
format it asks for, keeps the context of every request until mars is done with
it, and tells the application how the request ended. `demo/` holds a small
application and an epoll echo server to test against. The mars library itself is
not part of the repository: only its headers are, under `libs/mars`.

This directory holds TLA+ modules for the parts that have state, TLC
configurations that check them on small instances, and eight modules of lemmas and
theorems checked by TLAPS.

## 1. Inventory

| Part | State it keeps | Operations | Hard behaviour | What makes it correct |
|---|---|---|---|---|
| Request life cycle: `src/mars_plus.cpp`, `src/proxy/mars_task_proxy.*`, `src/proxy/stn_callback.*` | map id -> `TaskContext*`, its mutex, heap objects | `sendMessage`, `storeContext`, `getTaskConext`, `removeTaskContext`, `reset`, `redoTasks`, `Req2Buf`, `Buf2Resp`, `OnTaskEnd`, `OnPush` | application threads against the network thread; the map is written under the mutex and read without it; listeners that send again; retries, timeouts and late answers | no freed object is touched; the listener hears the outcome once and in order; everything is released |
| Message: `src/im_message.*` | the static id counter, a malloc'ed packet | construction, `newMessageId`, `getData`, `parse` | the counter is shared by threads without protection, and wraps | ids of pending requests differ |
| Framing: `src/proxy/longlink_packer.*` | none of its own; it cuts the stream mars buffers | `longlink_pack`, `longlink_unpack`, `longlink_ispush`, `longlink_noop_isresp` | TCP cuts and joins packets; a heartbeat has no header | packets come out whole, once, in order, and at the right handler |
| Mutex: `src/base.h` | a pthread mutex, a magic word | `lock`, `unlock`, `trylock`, `timedlock`, `islocked`, `MakeTimeout` | error-checking against recursive kind; a test that takes the lock; time arithmetic | exclusion; timeouts that carry correctly |
| Start and registration: `src/mars_plus.cpp`, `src/proxy/app_callback.*`, `src/proxy/stn_callback.cpp` | two singletons, two listener pointers | `init`, `Instance`, `Release`, `registerPushListener`, `registerChannelListener`, `ReportConnectStatus` | registration and deletion while a callback runs; a packet taken for a message | no handler calls what was not registered while it ran; no push is passed over while there is a listener |
| Echo server: `demo/TcpEchoServer/TcpEchoServer.*` | epoll set, map fd -> handler, a buffer per connection | `run`, the two `handle` methods, `addSocketHandler`, `updateSocket`, `removeSocket` | stale events, half-closed and reset sockets, a full buffer, fds that are never closed | bytes come back complete; nobody starves |
| Short link packer: `src/proxy/shortlink_packer.cpp` | none | `shortlink_pack` | headers the caller gives may repeat the ones the packer sets | the length a server is told is the length of the body |
| Log statements: `libs/mars/include/mars/xlog/xlogger.h` | an `XLogger` per statement, groups, the tracers on the stack | the macros of a level, `xassert2`, `xgroup2`, the scope macros | macros that choose a method by counting arguments; the level changes at any time; lines that are merged and then destroyed | each statement is written once, as it was meant and as severe as it was |
| Macro arithmetic: `xlog/preprocessor.h` | none | lists, counters, loops and choices for the preprocessor | tables with ends | lists are complete and separated |
| Casts: `comm/string_cast.h` | a buffer of 65 characters | `string_cast`, `number_cast` | widths, signs, bases, limits | what is written reads back as what it was, or is reported |
| Tokenizer: `comm/strutil.h` | string, offset, last token | `NextToken`, `Reset`, `GetToken`, `MergeToken` | delimiters that change from call to call | nothing but delimiters is left out |
| TCP client demo: `demo/TcpEchoServer/TcpClient.*` | a socket, `is_connected_` | connect, two sends, one receive | goes on after a failure; the reply comes in parts or never | it comes to its end |
| `demo/demo.cpp` | none | one `init`, one registration, one `sendMessage` | its push listener is destroyed with `main`, registered, while mars runs | not modelled: an instance of the application that `TaskStore` and `Listeners` allow |

How they interact. The application calls `sendMessage` on threads of its own. It
makes an `ImMessage`, whose id is the mars task id, stores a `TaskContext` under
that id and hands the task to mars. mars has one network thread that calls the
methods of `StnCallBack`: `Req2Buf` for the bytes to send, `longlink_pack` and
`longlink_unpack` around the socket, `Buf2Resp` for an answer, `OnPush` for a
push, `OnTaskEnd` when it is done with a task. `OnTaskEnd` calls the
application's listener and removes the context. A listener may call
`sendMessage` itself.

## 2. Modules

| Module | Stands for | Uses |
|---|---|---|
| `TaskStore` | the request life cycle: every access to the counter, the map, the mutex and the heap is an action | |
| `TaskContract` | abstract: what `sendMessage` promises about one request | |
| `TaskStoreProofs` | theorems about memory and the mutex in `TaskStore` | `TaskStore` |
| `TaskContractProofs` | theorems about ids, callbacks and `TaskContract` | `TaskStoreProofs` |
| `MCTaskStore` | symmetry for TLC | `TaskStore` |
| `LonglinkStream` | framing over a TCP byte stream | |
| `FifoChannel` | abstract: a channel that loses only what is in flight when it breaks | |
| `MCLonglinkStream` | message bodies for TLC | `LonglinkStream` |
| `LonglinkProofs` | theorems about `LonglinkStream` and `FifoChannel` | `LonglinkStream` |
| `BaseMutex` | the class `Mutex` of `base.h` on Linux, and `MakeTimeout` | |
| `BaseMutexProofs` | theorems about `BaseMutex` | `BaseMutex` |
| `EchoServer` | the echo server demo, with arbitrary clients | |
| `EchoDemo` | the TCP client demo as one of the server's clients | `EchoServer` |
| `EchoProofs` | theorems about `EchoServer` and `EchoDemo` | `EchoDemo`, `Induction` |
| `Listeners` | `init`, the two singletons, the two registrations, and the handlers that call what was registered | |
| `Preprocessor` | the macros of `preprocessor.h`, and what `xlogger.h` makes of them | |
| `LogLines` | log statements, groups, assertions and scopes | `Preprocessor` |
| `StringCast` | numbers to text and back | |
| `Tokenizer` | the tokenizer, `MergeToken`, `number_cast<bool>` | |
| `ShortLink` | the short link packer | |
| `LogProofs` | theorems about `Preprocessor` and `LogLines` | those, `Induction` |
| `PartsProofs` | theorems about `Listeners`, `StringCast`, `Tokenizer` and `ShortLink` | those, `Induction` |
| `Induction` | induction, and loops as functions, in a form the provers can use | |
| `MCParts` | one instance of each of the last six components, for TLC | those |

`TaskStore` uses of `BaseMutex` what `BaseMutexProofs` shows it to promise: `lock` by a
thread that does not have the mutex waits until it is free and takes it, `unlock` by
its owner frees it. `LockDiscipline` is the proof that the wrapper calls it in no
other way.

### TaskStore

A call of `sendMessage` is named by the member of `Ctx` it allocates, which stands
for the request, its `TaskContext` and its `ImMessage`.

| Variable | In the code |
|---|---|
| `messageId` | `ImMessage::messageId` |
| `taskId2TaskCtx`, `mutex` | `MarsTaskProxy::taskId2TaskCtx`, `taskId2TaskCtxMutex` |
| `heap` | per request: allocated or deleted, the id in the header, `respCallback != NULL` |
| `send` | per thread: how far its call of `sendMessage` is |
| `net` | the `StnCallBack` method the network thread is in |
| `task`, `mars` | what the library knows of the task (external): queued, sent, its tries, answers under way |
| `heard` | history: the methods of the `ResponseListener` that were called |

`BeginSend`, `FillContext`, `StoreLock`, `StoreContext` and `StartTask` are one call
of `sendMessage`, cut where another thread can see or change something: between
the read and the write of `messageId++`, at `lock()`, at the insertion with
`unlock()`, and at `StartTask`. `Req2Buf`, `BuildEchatTcpMsg`, `Buf2Resp`,
`Buf2RespReturn`, `OnTaskEnd`, `FinalReturn`, `RemoveLookup`, `EraseLock`,
`EraseContext`, `DeleteContext`, `OnPush`, `OnPushListener` and `OnPushReturn` are the
handlers, cut in the same way and around each call of a listener.

Decisions a reader should know:

- *One network thread.* All methods of `StnCallBack` are called on one thread, as
  mars does; the application has any number of threads.
- *Lookups without the mutex.* `getTaskConext` reads a `std::map` that
  `storeContext` may be changing. That is undefined behaviour; the model lets such a
  lookup miss an entry that is there (`Lookup`), for as long as an application thread
  is between `lock()` and `unlock()` of `storeContext`. It does not model a
  torn tree that crashes the reader, nor a second entry for a key that
  `operator[]` may add after its `find` succeeded: all theorems are about a lookup
  that ends and returns the entry or nothing.
- *Retries.* mars is modelled as permissively as its headers allow: it may fail a
  task at any time, retry it on a timeout or on a -1 while it has tries left, and
  answers may come late, be lost, or answer an earlier try.
- *Two regimes.* `Quiet = TRUE` is an application that waits until nothing is
  pending before it starts another request, or starts it from a callback. Under it
  no lookup can overlap an insertion and no two requests draw an id at once, and the
  code keeps its contract in full. `Quiet = FALSE` is an application that sends
  at any time: there the runs `SharedId` and `TornLookup` show what goes wrong, and the
  memory and lock invariants show what does not. `Nested` says whether listeners
  send.
- *Bounds.* `MaxTries`, `MaxPushes`, `MaxControls` bound retries, pushes and
  calls of `reset` and `redoTasks`; `IdSpace` stands for 2^32. The theorems hold
  for all their values.

### LonglinkStream

The unit is a word of four bytes: a header is three words, a heartbeat one. That
keeps every boundary the code tests (exactly 4 bytes, fewer than 12, the
package length, the limit) and leaves out cuts inside a word, which the code treats as
the cuts around them: a buffer of 1 to 3 or 5 to 11 bytes falls into the same branch as
one of two words. The server echoes what it gets, as the demo server does, and
may push. `wire` holds what is in transit, `buf` what mars has read and not
consumed; `inFlight` and `handled` record what was sent and what the handlers
of `StnCallBack` were given. Magic number and heartbeat word are larger than any
length, as in the code. (The comment at `im_message.h:8` gives the header sixteen bytes;
the structure has twelve.)

A packet in flight is its kind, its id and the body that was put in it; `Words` are its
words in the stream, with its header. `Heard` is what comes of it when it arrives whole and
alone. For a response and a heartbeat that is what was sent. For a push it is the packet
with its header, because `OnPush` wraps all it received in a new `ImMessage`
(`stn_callback.cpp:45`): the run `PushHeader` shows it against the comment of the
header, and `StreamIsFifo` and `BodyIsItsOwn` take it as it is, so that they are about what
TCP's cuts and joins add to it.

`Paced = TRUE` is a connection on which a heartbeat or a push is never in the
stream together with another packet, and the first piece of a packet has at
least its header. Responses and their bodies may still be cut and joined anywhere
else. `Paced = FALSE` cuts anywhere: `SplitHeader` and `JoinedPush` show what the code then does.

### BaseMutex

The methods of `Mutex` may be called by any thread at any time, rightly or wrongly,
with assertions compiled in or out, on the error-checking and on the recursive kind
(all four builds are initial states of the one run). `Lock`, `TimedLock` and `IsLocked`
are the first half of their methods, up to the wait or up to the `unlock()` of
`islocked`; `LockReturn`, `TimedReturn` and `IsLockedUnlock` the second. `Destroy` is
the destructor: it clears the magic word and then destroys the pthread mutex, which
refuses while it is owned. The storage of a destroyed object stays, as that of the one
instance in the program, a static, does. `held` is what callers were told, `misused`
remembers a call that its caller could know to be wrong. pthread itself is external,
after its manual. The clock advances and is not set; `MakeTimeout` is exact, in real
units. Two things the code does and no property here denies: a `trylock` beside an
`islocked` fails although nobody holds the mutex, and `islocked` tells the owner of a
recursive mutex that it is free. (The comment at `base.h:163`, "returns 0 on success",
describes pthread's result; `lock()` returns true.)

### EchoServer

One action per turn of `run`: `EpollWait` reports up to `MaxEvents` ready fds in
round-robin order, as Linux does, and `HandleEvent` handles one of them, by
`Accept` or by `Echo`. Clients connect, write, close, fail and reset at any
moment, also between `epoll_wait` and the handler. Bytes are counted. A full
`recv` writes one byte past `m_buffer` (`TcpEchoServer.cpp:134`): nothing happens
or the process dies. A `send` on a reset socket fails or raises SIGPIPE.
`EPOLLOUT` means far more room than `m_buffer` has, so `send` is complete and does
not block. `fdLimit` is the number of connections the process has descriptors for: as
none is ever closed, `accept` fails from then on (`OutOfFds`), the clients that are
left stay in the kernel's queue, and the listening socket is reported for ever.

### EchoDemo

`client` is the step `main` of `TcpClient.cpp` is at, and what it got. Connecting may
fail, a send may fail or raise SIGPIPE on a socket that is not connected or was reset,
and `main` goes on in any case, as in the code. `Recv` returns any part of what has
arrived. With `client.pc = "off"` the module is `EchoServer` with arbitrary clients
only, so the one run checks both.

### Listeners

`at[a]` is the step of `init` a thread is about to take; `InitSteps` is the list of calls
in the order of the code. `Instance()` is a test (`CheckInstance`) and a store
(`NewInstance`); an object is named after the thread that made it, so that two threads in
`init` make two. `return _instance` may read the pointer again, and so `SetCallback` gets
either. `registered` is `g_pushListener` and `g_channelListener`, written by
`Register` on any thread at any time. A handler reads its global once (`ReadListener`),
tests its copy and calls it (`CallListener`). `seen` is history: the values the global held
since the handler began. Mars calls back as soon as one thread has called `OnCreate`.

`FreeListener` deletes a listener on any thread and at any time, also one that is registered
(as `demo.cpp`, whose push listener is a local of `main`) and one a handler has just
read. Such a listener is `exposed`: the wrapper cannot help calling it, for it keeps a plain
pointer and tells nobody when a handler is done with it. The one assumption about the
application is that it does not register what it has deleted. `CalledIsRegistered` then
says that a deleted listener is called only if it was exposed, so never one that was
deleted after it was replaced and while no handler had it.

`ImMessage` and `IsValid` are the constructor and the test `OnPush` uses. It does not parse
what it received: it makes a new message of it, with a magic number of its own, and
tests that one. A packet is its magic number here (`Magics`), which the test never sees: a
push with a wrong one reaches the listener like any other, although `im_message.h:12` has the
number for "error message checking", and `PushDelivered` says that it does.

### Preprocessor and LogLines

A macro is an operator that returns what it expands to, a sequence of tokens; `text##n`
is a token with a number. The recursion of `PP_WHILE` and of the lists is a recursive
function. From eleven pairs on, `PP_ENUM_BINARY_REPEAT` continues with `..._9`
(`preprocessor.h:280`-285) and leaves pairs out; the model does the same, and
`ListsComplete` claims the lists of pairs only up to ten. Nothing in the repository uses one.

`LogLines` follows one thread: `loggers` has the `XLogger` of the statement under way and
one group, `scopes` the tracers on the stack, `log` what went to `xlogger_Write` and
`xlogger_Assert`, `said` the calls that were made. A format is a sequence of directives,
a message a sequence of pieces that name their call. A call of kind `empty` is a macro without
arguments, so `LogAssumption` gives it no format. `XLOGGER_ROUTER_OUTPUT` is the
operator of `Preprocessor` applied to the arguments the macro gets. A group is called
without it (`xlogger.h:675`): a plain text given to a group is a format for `vsnprintf`
(`InGroup`, `xlogger.h:451`), and every conversion in it reads an argument that is not there.
A misuse (a NULL value, a placeholder without an argument, a bad `%`) is reported inside the
line at level Fatal and meets `assert(false)`, which ends the process in a build with assertions.
The time a tracer prints is never initialised (`xlogger.h:265`-267): the number is of no
consequence here, the line is written.

### StringCast, Tokenizer, ShortLink

A text of `StringCast` is a sequence of digit values, so that bases up to 36, the `0x`
of a pointer and the prefixes `strtoimax` knows with base 0 are all there; `WideBits`
and `NarrowBits` stand for 64 and for a narrower type, at least eight bits wide. A number has
the width of its own type, because `string_cast_itoa` computes in it: the index
`35 + tmp_value - quotient*base` (`string_cast.h:62`) is summed from the left, and for the last
35 values of a signed type the first sum overflows, which is undefined. The compilers at
hand come back to the right index, but need not, so the lowest digit is the right one
or any character (`ItoaTexts`). `Tokenizer` lets every call name
its own delimiters. `ShortLink` computes the headers of one request; how the vendored
`HeaderFields` treats a name that is set twice is not in the repository, so both answers
(the later or the earlier value stands) are initial states.

## 3. Runs

| Run | Checks | Bounds and why they are enough |
|---|---|---|
| `Racing` | `TypeOK`, `MemorySafe`, `LockDiscipline`, `Inductive` with application threads that race and listeners that send | two application threads and the network thread, three requests, four ids starting at 2: the counter wraps, ids repeat between threads, and a request can be replaced while a third is removed |
| `OneSender` | `UniqueIds`, `CallbackOrder`, `ReleasedWhenTold` | one application thread, three requests, a retry each, one `reset` or `redoTasks`: late answers meet retries and lookups miss |
| `Quiet` | `UniqueIds`, `EndedIsReleased`, and the refinement `KeepsContract` with its liveness | two requests, one of them possibly from a callback, a retry, a push, a `reset` or `redoTasks` |
| `SharedId` | violation of `UniqueIds` | one push against one application thread |
| `TornLookup` | violation of `EndedIsTold` | a lookup against one insertion |
| `Stream` | `TypeOK`, `NothingStuck`, `OnlyTooLargeRefused`, the refinement `StreamIsFifo` | four packets, bodies of zero to four words of which one is above the limit, one lost connection |
| `SplitHeader` | violation of `SeqIsTaskId` | one packet in two pieces |
| `JoinedPush` | violation of `BodyIsItsOwn` | a push and a packet in one buffer |
| `PushHeader` | violation of `PushIsBody` | one push, whole and alone |
| `Mutexes` | `TypeOK`, `HeldIsCount`, `AbortOnlyOnMisuse`, `Inductive`, `NoEarlyTimeout`, `TimedReturns` | two threads, recursion to depth 2, timeouts of 0 and 1100 ms begun at microsecond 0 or 999999 of a second so that nanoseconds carry or do not, four seconds of clock |
| `Echo` | `TypeOK`, `NothingLost`, `WritesWhenFull`, liveness `EchoesAll` and `ClientEnds` | two clients of three bytes each, one of them the demo client or not, a buffer of two, one event per `epoll_wait`, descriptors for one client or for both: the buffer fills, a message takes two turns, a forgotten fd competes with a live one, and `accept` fails with a client in the queue |
| `Parts` | the fifteen invariants of `Listeners`, `LogLines`, `Preprocessor`, `StringCast`, `Tokenizer` and `ShortLink`, one part at a time | see below |

What the properties say:

- `MemorySafe`: a map entry leads to a context that is not freed, and to a message
  that is not freed unless `removeTaskContext` is between freeing it and erasing
  the entry; the same for what the handlers and senders hold.
- `LockDiscipline`: the mutex is held exactly inside `storeContext` and the erase of
  `removeTaskContext`, so never while a listener runs.
- `UniqueIds`, `CallbackOrder`, `ReleasedWhenTold`, `EndedIsTold`,
  `EndedIsReleased`: ids of stored requests differ; a listener hears a response and
  then success, or an error; a context is freed only after its listener was told; an
  ended task was told; an ended task is freed.
- `KeepsContract`: `TaskStore` implements `TaskContract` under the mapping at the end
  of the module, including that every request ends.
- `StreamIsFifo`: `LonglinkStream` implements `FifoChannel`. `NothingStuck`: nothing
  waits for bytes that never come. `OnlyTooLargeRefused`: nothing but a package whose
  header and body are above 1 MB closes the connection.
- `NothingLost`, `WritesWhenFull`, `EchoesAll`: the server's bytes add up, it waits
  to write only while it has something to write, and a client that stays gets
  everything back although the fds of others are reported for ever.

- `HeldIsCount`: what `lock`, `trylock`, `timedlock` and `unlock` told their callers is
  right, after any sequence of right and wrong calls. `AbortOnlyOnMisuse`: the class
  asserts only on a wrong call. `NoEarlyTimeout`: `timedlock` waits its milliseconds
  to the microsecond. `TimedReturns`: it comes back whether or not the owner unlocks.

`Parts` runs the parts that share no state one at a time, as their product would say
nothing more; each keeps its own initial states and next-state relation.

- `Listeners`: two threads that may both be inside `init`, and one listener that both
  registrations may take: it is replaced by `NULL`, or deleted, between any two steps of a
  handler. `CalledIsRegistered`: the listener a handler calls was registered while the handler
  ran, and is not deleted unless it was deleted while registered or in the handler's hand.
  `PushDelivered`: a push or a report is passed over only if no listener was registered at
  some time before the call. `StartedBeforeCalled`: no handler runs before the log is open
  and mars holds both callback objects. The theorems have any number of threads and listeners.
- `LogLines`: two statements, groups, assertions, scopes two deep, formats with
  placeholders in order, by number, missing, bad and cut off, and one with seventeen.
  `OnceEach`: a well-formed statement is written once and as meant; text given to a group is
  well-formed if it has no conversion. `LineLevel`: a line is
  as severe as what was merged into it. `AssertKept`: an assertion is reported as one,
  unless it was merged into a line that was Fatal already (`xlogger.h:169` then drops it).
  `ScopesPaired`: entry and exit lines nest, whatever happens to the level.
- `Preprocessor`: all numbers the tables know. `ListsComplete`: each of the seventeen
  overloads hands on sixteen slots in order. `WhileAdds`: `PP_WHILE`, `PP_INC` and `PP_DEC` add.
- `StringCast`: every value of types of 8 and 10 bits, signed and not, in seven bases of which
  two are refused, read by both. `ItoaExact` and `ReadsBack`, which set the numbers apart whose
  index overflows; `FitsCache`, which does not, says that
  one number in one base, the lowest in base 2, does not fit `value_cache_`. A smaller
  width has the same ends: what matters is which limit is passed first. Eight bits are the
  least for which the sum overflows before the first division only.
- `Tokenizer`: every string of up to four symbols over two sets of delimiters.
  `NothingSkipped`, and `MergeInverse`: joining tokens and cutting again gives them back.
- `ShortLink`: up to two headers of the caller, a length that wraps at 4.
  `LengthHonest`: `Content-Length` is the length of the body, except in a GET in which
  the caller gives one, where the earlier value stands, or when the length does not fit.

The five violation runs, each against a comment of the code:

1. `SharedId` (`im_message.h:13`): the push handler makes an outgoing `ImMessage`
   and draws an id; with `sendMessage` on another thread both may draw the same.
2. `TornLookup` (`stn_callback.cpp:95`): a handler's lookup misses its entry and
   the listener is never told how its request ended; the context stays in the map.
3. `SplitHeader` (`longlink_packer.h:48`): four bytes of a header that arrive
   alone are reported as a heartbeat and consumed.
4. `JoinedPush` (`longlink_packer.h:50`): a push is handed on with the packet behind it.
5. `PushHeader` (`im_message.h:8`, 15): a push is handed on with its header, although the
   body is what follows it.

No run is needed to see that `Buf2Resp` answers -1 for a request without a listener
(`stn_callback.cpp:80`), so that mars takes an answered task for a failed one, and that
its message at line 88 then says that the context does not exist.

`Echo` and `Parts` run without deadlock checking: a server that waits in
`epoll_wait` while all its clients are done, and a server that died of a signal,
really stop, and so do a number that was read, a request that was packed and a
process that `assert(false)` ended. `TaskStore` and `LonglinkStream` end in `AllQuiet`, a step that changes
nothing and is possible only when everything was done, so a deadlock there is an
error.

### Fairness

- `TaskStore`: weak fairness of each thread's `SendStep` (a thread inside
  `sendMessage` runs on) and of `NetStep` (the network thread runs on), strong
  fairness of `TaskFail` for each task: mars gives every task a total timeout, and the
  network thread is between two handlers again and again. Nothing makes the
  application send or the server answer.
- `LonglinkStream`: weak fairness of reading and of unpacking: TCP delivers what is
  in transit unless the connection breaks. Nothing makes anyone send.
- `BaseMutex`: weak fairness of the clock and of a thread inside a method that need not
  wait. No fairness makes an owner unlock.
- `EchoServer`: weak fairness of the server's thread, which takes an event or waits.
  Clients are not fair.
- `EchoDemo`: the same, and weak fairness of the thread of the demo client. The network
  need not deliver an error, and the other clients need do nothing.

## 4. Proofs

`TaskStoreProofs` proves for every number of threads, requests, ids, tries and pushes,
in both regimes, from `ConstantsAssumption` only:

- `TypeCorrect`: `Spec => []TypeOK`.
- `InductiveHolds`: `Spec => []Inductive`.
- `MemorySafety` and `LockSafety`: `Spec => []MemorySafe`, `Spec => []LockDiscipline`.

Neither invariant is inductive. `MemorySafe` alone would allow a step that stores a
context another entry already leads to, or an erase that takes the entry of
another request and leaves a dangling one. What makes it inductive is ownership:

- `SendersOwn`: until it is stored, a context belongs to one activation of
  `sendMessage`, is in no entry, and carries the id that activation drew.
- `StoredUnderId`: an entry leads to a context that carries the entry's id, so a
  context is in at most one entry.
- `HandlerOwns`: what a handler is removing carries its task's id, its message is
  freed already, and after the erase no entry leads to it.

Together they show why a repeated id, which does happen (`SharedId`), never frees
memory twice: the replaced context is leaked, since every lookup finds the context
that replaced it. The proof first types every step (`TypeStep`), then takes the
senders (`SenderStep`), the handlers (`HandlerStep`) and the library
(`LibraryStep`) in turn, with one step per action and one case per conjunct the
action can disturb.

`BaseMutexProofs` proves, from `MutexAssumption` only:

- `MakeTimeoutExact`: for every time of day and every number of milliseconds the
  result is normalised and is exactly their sum; `MakeTimeoutFits`: the sum formed
  before the carry fits a 32-bit long.
- `MutexTypeCorrect`: `Spec => []TypeOK`.
- `MutexInductive`: `Spec => []Inductive`, whence `HoldersTold`, `OneHolder` and
  `NoFalseAlarm`. `HeldIsCount` needs `CallsRight` beside it: a mutex is destroyed
  only when it is free and its magic word is cleared, its count respects its kind, and
  a thread that waits in `lock()` for what will not come has misused it.
- `DeadlineKept`: `Spec => NoEarlyTimeout`, from `MakeTimeoutExact` and the fact that a
  waiting call's deadline is the one `MakeTimeout` gave it.

`PartsProofs` proves of `Listeners`, for any number of threads and listeners, from
`ListenAssumption` only:

- `CalledIsRegisteredAlways`, `PushDeliveredAlways`, `StartedBeforeCalledAlways`: the three
  invariants of `Listeners`, for every number of threads inside `init` at once.

`StartedBeforeCalled` is not inductive: that the steps before `OnCreate` are done by
*some* thread when a handler runs follows only from what each thread has done. `StartInv` says
that a thread at step k has taken all steps before k, that a thread about to call
`SetCallback` has an object in hand and that the singleton's pointer is set by then, and that
`held` is set once `SetCallback` is done. A second object made in a race replaces the
first but never sets a pointer back to `NULL`, which is all the handlers need. `CallInv` adds
what a handler knows: while it reads, the global's current value is among those it has
seen, and its copy was among them; and whatever is deleted and not exposed is neither in a
global nor in a handler's hand, and cannot come back to one. `PushDelivered` follows from
`AlwaysValid`: the message `OnPush` tests is one it made.

`TaskContractProofs` proves what the application is promised. Its theorems have a
hypothesis on the constants, `Serial`, which has two parts:

- `NoWrap`: there are fewer requests and pushes than ids. After 2^32 of them the code
  does give an id again that a pending request may have.
- The application is `Quiet`, with any number of threads and with listeners that send;
  or it is `OneSender`: one thread sends, listeners do not, and there are no pushes.
  `OnPush` draws an id on the network thread, so with one push beside a sender
  the claim is false: that is the run `SharedId`.

From it follow

- `SerialHolds`, the inductive invariant: `Inductive` of `TaskStoreProofs`, that one
  `sendMessage` is under way at a time (`Single`), `IdsInv`, `Story` and, when quiet,
  `QuietInv`.
- `UniqueIdsAlways`. `UniqueIds` says nothing of the counter; `IdsInv` does: the rank of an
  id is how far the counter had gone when it was drawn, no request has a rank the
  counter has not passed, and a sender between the read and the write of `messageId`
  read a rank nobody has. A push may write back an old value after a sender took the
  next id, but not one that a request has: while the network thread is in `OnPush` no
  task ends, so a quiet application sends once at most. That the counter cannot come round is a count of the requests,
  hence the finite sets.
- `CallbackOrderAlways`, `ReleasedWhenToldAlways`. `Story` ties what a listener has heard
  to the state of its task, and to the handler that is between two calls of it. A lookup
  that misses (outside `Quiet`) skips calls and never repeats one.
- `EndedIsReleasedAlways`, for `Quiet` only: `QuietInv` says that a task mars has is in the
  map until its own `removeTaskContext` and that nobody inserts meanwhile, so that no
  lookup misses. `TornLookup` shows the same for one unquiet sender to be false.
- `ContractImplemented`: `Spec => Contract!Spec`. Every step maps to a step of
  `TaskContract` or to a stutter. It is the safety part of `KeepsContract`, and holds
  for one unquiet sender as well: a listener may then never be told, but is told nothing wrong.

`LonglinkProofs` proves for any bodies, any limit, any number of packets and any cuts:

- `StreamTypeCorrect`, on every connection.
- With the hypothesis `Paced`: `NothingStuckAlways`, `OnlyTooLargeRefusedAlways`,
  `StreamImplementsFifo` (`Spec => Channel!Spec`, the safety part of `StreamIsFifo`),
  `SeqIsTaskIdPaced` and `BodyIsItsOwnPaced`. The last two are the claims the runs
  `SplitHeader` and `JoinedPush` refute for connections that are not `Paced`: the
  theorems show that nothing but a header in pieces, or a push with company,
  makes them false.

None of these is inductive, since none says what the words in `buf` are. `StreamInv`
(`StreamHolds`) does, through a function `starts` that gives every packet in flight an
offset: the words read agree with the packets at their offsets (`Arrived`), and the pieces
in transit are those of the last packets, of which only the first can be cut, behind
its header (`Coming`). Sending adds an offset, reading moves the boundary, and unpacking
takes the first packet off and shifts the offsets; each is a lemma about constants
(`StreamSend`, `StreamRead`, `StreamUnpack`), which the steps of the module then use.

`EchoProofs` proves for any number of connections, any buffer, any number of events per
`epoll_wait` and any limit on descriptors, for `Spec` and for `DemoSpec`:

- `EchoTypeCorrect`, `NothingLostAlways`, `WritesWhenFullAlways`, from `EchoInductive` and
  `DemoInductive`.

What `NothingLost` lacks is why an event that is handled late is not wrong about what its
fd asks for. `EventsSound` has it: an fd is in the epoll set once, so two events of one
array are never about the same fd, and only the handler of its own event changes what an fd
asks for. `BytesSound` adds that an fd asks for `EPOLLOUT` only with bytes in its buffer.

`PartsProofs` also proves of the parts that are one object or one call, each from the
assumption of its module only:

- `NothingSkippedAlways` for every string, any delimiters in any order. The invariant
  says where the offset is: at the end of the last token, or at the end of the string, where
  a call that found nothing leaves it.
- `MergeInverseAlways` for every string, every set of delimiters and every one of them. The
  tokens of a string are words: not empty, and without a delimiter (`TokensAreWords`).
  Where `MergeToken` leaves a word it stays when more are joined (`MergedStays`), so a joined
  string has the words where its lengths say, with one delimiter between two of them
  (`MergedIsLaid`); and on a string with words laid out like that every call of `NextToken`
  stops at the end of the next word, and the calls after the last find nothing (`WordsAreFound`).
- `LengthHonestAlways` for any number of headers. The loop over the headers leaves
  the length alone unless one of them is a length.
- `CastInductive`, `ItoaExactAlways`, `FitsCacheAlways`, `ReadsBackAlways` for integer
  types of any two widths, in the bases the module names, and every number: the first and the
  last for those but the 35 whose index overflows, of which `LaterSumsFit` shows that there are no
  others, however often the loop divides. `CastInv`
  says only which function a text came from; what the text is follows from one notion for all
  three, `Halving`: the quotients of a magnitude by the base, down to zero. `ItoaSpells` shows
  that the loop of `string_cast` leaves the remainders of a halving, lowest first, and stops
  at its end; `HornerAddsUp` that adding the digits up from the highest goes back through the same
  quotients, which makes both `ItoaExact` and what `strtoimax` and `strtoumax` read exact;
  `DigitsReadBack` and `ItoaSpells` hold for all bases from 2 to 36. How long a halving can be is
  `HalvingEnds`: a number below 2^w is gone after w divisions. The lowest number needs all w
  digits in base 2 (`PowerHasAllDigits`) and a sign before them; every other negative number
  has a smaller magnitude, and another base leaves less at once (`OtherBaseShort`), so with the NUL
  that one text alone is longer than `value_cache_`, and an overflowed index changes no length.

`LogProofs` proves, from `LogAssumption` and for every count the tables of `preprocessor.h`
have:

- `ListsCompleteAlways` and `WhileAddsAlways`. A list is what its recursive function gives by
  induction over the count, entry by entry, so that where the two halves of an overload (its own
  parameters, the `NULL`s) meet there is one comma. After k rounds of the loop in `WhileAdds` the
  first counter is k lower and the second k higher or at the end of its table.
- `LogInductive` and `LineLevelAlways` for any number of statements, formats of any
  length and any level set in between. The loop of `DoTypeSafeFormat` is a function of its
  rounds; that it reports a misuse only if it also raises the level is shown round by round.
- `OnceInductive`, `OnceEachAlways` and `AssertKeptAlways`, for the same. `CallProper` says what a
  call appends: the format loop of a well-formed call gives exactly the pieces its format
  names, in order, and a NUL comes only from a format that ends in `%`. Neither property is
  inductive. `OnceEach` speaks of everything written or still open together; `InOne` says that all
  pieces of a statement are in *one* place (the log, the line or the group), which is what
  moving a line into a group, writing either or emptying a temporary keeps. `AssertKept` excuses an
  assertion if another statement was Fatal; `Whole` says that a Fatal logger always has a
  statement that made it so, and `Cause` that what made the group Fatal is not the assertion the
  line carries, so that when the merge drops an assertion the excuse is a *different*
  statement.
- `ScopeInductive` and `ScopesPairedAlways` for scopes of any depth. `ScopesPaired` speaks
  of tracers that have both lines; a step that writes the second one needs to know
  of those that have only one. `Paired` does: a tracer on the stack has no exit line
  and, if it was enabled, one entry line, in the order of the stack (`StillOpen`, `Ascending`);
  whatever began after it has all of its lines after it (`Inside`); and what lies between
  the two lines of a tracer that is gone is gone and lies there wholly (`Nested`).

`Induction` has what these need of induction. The library's theorems take a predicate, which
the provers cannot instantiate; `NatInductionOnSet` takes a set instead, and follows from
the library's well-foundedness of the order of the naturals. `LoopExists`, `LoopStays` and
`LoopUnique` build on it: a recursive function over the rounds of a loop exists, a
set that each round stays in contains its result, and two loops that go alike are one.

Only model-checked:

- `EchoesAll`, `ClientEnds`, `TimedReturns` and the liveness halves of `KeepsContract` and
  `StreamIsFifo`: liveness under fairness, and the `ENABLED` in it, are out of the
  prover's reach.

Every invariant of a passing run is stated by a theorem: `UniqueIds`, `CallbackOrder`,
`ReleasedWhenTold` and `EndedIsReleased` under `Serial`, `NothingStuck` and
`OnlyTooLargeRefused` under `Paced`, as in the runs that check them, and the others without a
hypothesis beyond the assumptions of their module.

## 5. Not modelled

- The contents of the mars library: its actions here are what its headers and the
  wrapper's use of it imply.
- `demo.cpp`: see the inventory. `Release` of the two singletons, which nothing calls.
- The Android build, in which `init` leaves out `AppCallBack`.
- Of `xlogger.h`: the macros for C (lines 596-635), which no file of the repository compiles
  and of which one does not (the `\` inside line 605); `xfatal2_if` (670), which lacks a
  parenthesis; tags, `XNULL` and the hook, which nothing uses; the sizes of the buffers
  behind `snprintf` and `vsnprintf`. Of `preprocessor.h`: `PP_NUM_PARAMS` of arguments that
  begin with a parenthesis or are more than sixteen.
- Floating point, `bool` and `char` in `string_cast.h`.
- The comments at `stn_callback.h:46` and `stn.h:241` say that `GetLonglinkIdentifyCheckBuffer`
  returns 1 for "never"; the enumeration at `stn.h:188` has `kCheckNext` there. What mars
  makes of the 1 the wrapper returns (`stn_callback.cpp:128`) is not in the repository.
- Failing allocations, and a NULL `ctx->msg`, which no code path produces.
- Windows, where `gettimeofday` and the threads are emulated by macros nothing in the
  wrapper uses, and `Mutex` is `std::mutex` and a second `lock` by its owner is
  undefined: `LockDiscipline` shows it does not happen.

## 6. Plan

In the order of what matters most:

1. A composition of `TaskStore` and the classification of `LonglinkStream` in which
   the id counter wraps into the push range and the reserved ids.
2. Properties of the parts the theorems now reach but no run asks about: what `number_cast`
   makes of text that no cast wrote, and how a statement with a misuse is cut short.
