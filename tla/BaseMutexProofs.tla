--------------------------- MODULE BaseMutexProofs ---------------------------
(***************************************************************************)
(* Theorems about BaseMutex: the deadline MakeTimeout computes is exact    *)
(* and in range, and what the methods tell their callers is right.         *)
(***************************************************************************)
EXTENDS BaseMutex, Integers, TLAPS

\* A time of day as gettimeofday returns it, for any second.
LEMMA TimeParts ==
  ASSUME NEW now \in Time PROVE now.sec \in Nat /\ now.usec \in Nat /\ now.usec < 1000000
BY DEF Time, Micros

\* Seconds and rests recombine: q and r are those of the milliseconds, c and n
\* those of the nanoseconds.
LEMMA Recombine ==
  ASSUME NEW s \in Nat, NEW u \in Nat, NEW q \in Nat, NEW r \in Nat, NEW c \in Nat, NEW n \in Nat,
         r * 1000000 + u * 1000 = 1000000000 * c + n
  PROVE  ((q + s + c) - s) * 1000000000 + n - u * 1000 = (1000 * q + r) * 1000000
OBVIOUS

\* MakeTimeout returns a timespec pthread accepts (no EINVAL), which is now
\* plus the milliseconds, exactly.
THEOREM MakeTimeoutExact ==
  ASSUME NEW now \in Time, NEW ms \in Nat
  PROVE  LET until == MakeTimeout(now, ms)
         IN /\ until \in [sec : Nat, nsec : Nanos]
            /\ (until.sec - now.sec) * Second + until.nsec - now.usec * 1000 = ms * 1000000
<1> DEFINE nsec == (ms % 1000) * 1000 * 1000 + now.usec * 1000
<1>1. now.sec \in Nat /\ now.usec \in Nat /\ now.usec < 1000000
  BY TimeParts
<1>2. /\ ms % 1000 \in 0 .. 999 /\ ms \div 1000 \in Nat
      /\ ms = 1000 * (ms \div 1000) + (ms % 1000)
  OBVIOUS
<1>3. nsec \in Nat
  BY <1>1, <1>2
<1>4. /\ nsec % Second \in Nanos /\ nsec \div Second \in Nat
      /\ nsec = Second * (nsec \div Second) + (nsec % Second)
  BY <1>3 DEF Second, Nanos
<1> HIDE DEF nsec
<1>5. MakeTimeout(now, ms) = [sec  |-> ms \div 1000 + now.sec + nsec \div Second,
                             nsec |-> nsec % Second]
  BY DEF MakeTimeout, nsec
<1>6. nsec = (ms % 1000) * 1000000 + now.usec * 1000
  BY <1>1, <1>2 DEF nsec
<1> DEFINE q == ms \div 1000
           r == ms % 1000
           c == nsec \div Second
           n == nsec % Second
<1>7. /\ q \in Nat /\ r \in Nat /\ c \in Nat /\ n \in Nanos /\ n \in Nat
      /\ ms = 1000 * q + r
      /\ r * 1000000 + now.usec * 1000 = 1000000000 * c + n
      /\ MakeTimeout(now, ms) = [sec |-> q + now.sec + c, nsec |-> n]
  BY <1>1, <1>2, <1>4, <1>5, <1>6 DEF Second, Nanos
<1> HIDE DEF q, r, c, n
<1>8. ((q + now.sec + c) - now.sec) * 1000000000 + n - now.usec * 1000 = ms * 1000000
  BY <1>1, <1>7, Recombine
<1>9. q + now.sec + c \in Nat
  BY <1>1, <1>7
<1> QED  BY <1>7, <1>8, <1>9 DEF Second

\* The sum MakeTimeout forms before it carries fits a 32-bit long.
THEOREM MakeTimeoutFits ==
  ASSUME NEW now \in Time, NEW ms \in Nat
  PROVE  (ms % 1000) * 1000 * 1000 + now.usec * 1000 < 2147483648
<1>1. now.usec \in Nat /\ now.usec < 1000000
  BY TimeParts
<1>2. ms % 1000 \in 0 .. 999
  OBVIOUS
<1> QED  BY <1>1, <1>2

-----------------------------------------------------------------------------
(* Types.                                                                   *)

\* A call begins, goes on and ends typed.
LEMMA CallType ==
  ASSUME TypeOK, NEW t \in Threads, NEW pc \in Pcs
  PROVE  /\ [call EXCEPT ![t] = NoCall] \in [Threads -> Call]
         /\ [call EXCEPT ![t].pc = pc] \in [Threads -> Call]
<1>1. NoCall \in Call
  BY DEF NoCall, Call, Time, Micros, Nanos, Second, Pcs
<1>2. call \in [Threads -> Call]
  BY DEF TypeOK
<1>3. [call[t] EXCEPT !.pc = pc] \in Call
  BY <1>2 DEF Call
<1> QED  BY <1>1, <1>2, <1>3

\* timedlock begins typed: its deadline is in range.
LEMMA TimedType ==
  ASSUME TypeOK, NEW t \in Threads, NEW ms \in Milliseconds
  PROVE  [call EXCEPT ![t] = [pc |-> "timed", ms |-> ms, began |-> clock,
                              until |-> MakeTimeout(clock, ms)]] \in [Threads -> Call]
<1>1. clock \in Time /\ ms \in Nat /\ call \in [Threads -> Call]
  BY MutexAssumption DEF TypeOK
<1>2. MakeTimeout(clock, ms) \in [sec : Nat, nsec : Nanos]
  BY <1>1, MakeTimeoutExact
<1>3. [pc |-> "timed", ms |-> ms, began |-> clock, until |-> MakeTimeout(clock, ms)] \in Call
  BY <1>1, <1>2 DEF Call, Pcs
<1> QED  BY <1>1, <1>3

\* The clock stays a time of day.
LEMMA TickType ==
  ASSUME TypeOK, NEW d \in Ticks, Tick(d) PROVE clock' \in Time
<1> DEFINE usec == clock.usec + d
<1>1. clock.sec \in Nat /\ clock.usec \in Nat /\ d \in Nat
  BY MutexAssumption, TimeParts DEF TypeOK, Micros
<1>2. usec \in Nat
  BY <1>1
<1>3. clock' = [sec |-> clock.sec + usec \div 1000000, usec |-> usec % 1000000]
  BY DEF Tick
<1> HIDE DEF usec
<1>4. usec \div 1000000 \in Nat /\ usec % 1000000 \in Micros
  BY <1>2 DEF Micros
<1> QED  BY <1>1, <1>3, <1>4 DEF Time

\* A thread takes or gives back the mutex, and is told so.
LEMMA TakeType ==
  ASSUME TypeOK, NEW t \in Threads, Take(t)
  PROVE  /\ kind' \in Kinds /\ magic' \in BOOLEAN
         /\ owner' \in Threads \cup {NoThread} /\ count' \in Nat
         /\ [held EXCEPT ![t] = @ + 1] \in [Threads -> Nat]
BY DEF TypeOK, Take

\* Giving back a mutex keeps its record of its type.
LEMMA GiveBackType ==
  ASSUME TypeOK, HeldIsCount, NEW t \in Threads, owner = t, GiveBack
  PROVE  /\ kind' \in Kinds /\ magic' \in BOOLEAN
         /\ owner' \in Threads \cup {NoThread} /\ count' \in Nat
<1>1. count \in Nat /\ count # 0
  BY MutexAssumption DEF TypeOK, HeldIsCount
<1> QED  BY <1>1 DEF TypeOK, GiveBack

\* Every step keeps the types.
LEMMA TypeStep ==
  ASSUME TypeOK, HeldIsCount, [Next]_vars PROVE TypeOK'
<1> USE DEF lockVars
<1>1. ASSUME NEW t \in Threads, Lock(t) PROVE TypeOK'
  BY <1>1, CallType DEF TypeOK, Lock, Begins, Wrong, Pcs
<1>2. ASSUME NEW t \in Threads, LockReturn(t) PROVE TypeOK'
  <2>1. CASE CanTake(t) /\ Take(t) /\ Told(t) /\ UNCHANGED alive
    BY <1>2, <2>1, CallType, TakeType DEF TypeOK, LockReturn, Returns, Told, Pcs
  <2>2. CASE Asserts /\ UNCHANGED <<lockVars, held>>
    BY <1>2, <2>2, CallType DEF TypeOK, LockReturn, Returns, Asserts, Pcs
  <2> QED  BY <1>2, <2>1, <2>2 DEF LockReturn
<1>3. ASSUME NEW t \in Threads, Unlock(t) PROVE TypeOK'
  <2>1. CASE owner = t /\ kind # "destroyed"
    <3>1. /\ GiveBack /\ held' = [held EXCEPT ![t] = @ - 1] /\ UNCHANGED alive
          /\ Idle(t) /\ UNCHANGED <<call, clock, ndebug>> /\ misused' \in BOOLEAN
      BY <1>3, <2>1 DEF Unlock, Wrong, TypeOK
    <3>2. held[t] = count /\ count # 0 /\ count \in Nat
      BY <2>1, <3>1, MutexAssumption DEF HeldIsCount, Idle, TypeOK
    <3>3. held' \in [Threads -> Nat]
      BY <3>1, <3>2 DEF TypeOK
    <3> QED  BY <2>1, <3>1, <3>3, GiveBackType DEF TypeOK
  <2>2. CASE ~ (owner = t /\ kind # "destroyed")
    BY <1>3, <2>2 DEF TypeOK, Unlock, Asserts, Wrong
  <2> QED  BY <2>1, <2>2
<1>4. ASSUME NEW t \in Threads, TryLock(t) PROVE TypeOK'
  <2>1. CASE magic /\ CanTake(t)
    BY <1>4, <2>1, TakeType DEF TypeOK, TryLock, Told, Wrong
  <2>2. CASE ~ (magic /\ CanTake(t))
    BY <1>4, <2>2 DEF TypeOK, TryLock, Asserts, Wrong
  <2> QED  BY <2>1, <2>2
<1>5. ASSUME NEW t \in Threads, NEW ms \in Milliseconds, TimedLock(t, ms) PROVE TypeOK'
  BY <1>5, TimedType DEF TypeOK, TimedLock, Wrong
<1>6. ASSUME NEW t \in Threads, TimedReturn(t) PROVE TypeOK'
  <2>1. CASE CanTake(t) /\ Take(t) /\ Told(t)
    BY <1>6, <2>1, CallType, TakeType DEF TypeOK, TimedReturn, Returns, Told, Pcs
  <2>2. CASE UNCHANGED <<lockVars, held>>
    BY <1>6, <2>2, CallType DEF TypeOK, TimedReturn, Returns, Pcs
  <2> QED  BY <1>6, <2>1, <2>2 DEF TimedReturn
<1>7. ASSUME NEW t \in Threads, IsLocked(t) PROVE TypeOK'
  <2>1. CASE CanTake(t)
    BY <1>7, <2>1, CallType, TakeType DEF TypeOK, IsLocked, Begins, Asserts, Wrong, Pcs
  <2>2. CASE ~ CanTake(t)
    BY <1>7, <2>2 DEF TypeOK, IsLocked, Asserts, Wrong
  <2> QED  BY <2>1, <2>2
<1>8. ASSUME NEW t \in Threads, IsLockedUnlock(t) PROVE TypeOK'
  <2>1. CASE owner = t /\ kind # "destroyed"
    BY <1>8, <2>1, CallType, GiveBackType DEF TypeOK, IsLockedUnlock, Returns, Pcs
  <2>2. CASE ~ (owner = t /\ kind # "destroyed")
    BY <1>8, <2>2, CallType DEF TypeOK, IsLockedUnlock, Returns, Asserts, Pcs
  <2> QED  BY <2>1, <2>2
<1>9. ASSUME NEW t \in Threads, Destroy(t) PROVE TypeOK'
  BY <1>9 DEF TypeOK, Destroy, Asserts, Wrong, Kinds
<1>10. ASSUME NEW d \in Ticks, Tick(d) PROVE TypeOK'
  BY <1>10, TickType DEF TypeOK, Tick
<1>11. CASE UNCHANGED vars
  BY <1>11 DEF TypeOK, vars
<1> QED
  BY <1>1, <1>2, <1>3, <1>4, <1>5, <1>6, <1>7, <1>8, <1>9, <1>10, <1>11
     DEF Next, Calls, Goes

-----------------------------------------------------------------------------
(* What the callers were told.                                              *)

\* A thread that gets the mutex, and is told or peeks.
LEMMA TakeHeld ==
  ASSUME TypeOK, HeldIsCount, NEW t \in Threads, CanTake(t), Take(t),
         call[t].pc # "peek", call' \in [Threads -> Call],
         \A u \in Threads \ {t} : call'[u] = call[u],
         \/ Told(t) /\ call'[t].pc # "peek"
         \/ UNCHANGED held /\ call'[t].pc = "peek"
  PROVE  HeldIsCount'
<1>1. owner \in {NoThread, t} /\ owner' = t /\ count' = count + 1 /\ count \in Nat
  BY DEF CanTake, Take, TypeOK
<1>2. held[t] = count
  <2>1. held[t] = (IF owner = t THEN count ELSE 0) /\ held[t] \in Nat
    BY DEF HeldIsCount, TypeOK
  <2>2. owner = NoThread => count = 0
    BY DEF HeldIsCount
  <2> QED  BY <1>1, <2>1, <2>2
<1>3. ASSUME NEW u \in Threads, u # t
      PROVE  held'[u] = held[u] /\ held[u] + (IF call[u].pc = "peek" THEN 1 ELSE 0) = 0
  <2>1. owner # u
    BY <1>1, <1>3, MutexAssumption
  <2>2. held'[u] = held[u]
    BY <1>3 DEF Told, TypeOK
  <2> QED  BY <2>1, <2>2, <1>3 DEF HeldIsCount
<1>4. held'[t] + (IF call'[t].pc = "peek" THEN 1 ELSE 0) = count'
  <2>1. held[t] \in Nat
    BY DEF TypeOK
  <2>2. CASE Told(t) /\ call'[t].pc # "peek"
    BY <1>1, <1>2, <2>1, <2>2 DEF Told, TypeOK
  <2>3. CASE UNCHANGED held /\ call'[t].pc = "peek"
    BY <1>1, <1>2, <2>1, <2>3
  <2> QED  BY <2>2, <2>3
<1>5. owner' # NoThread /\ count' # 0
  BY <1>1, MutexAssumption
<1> QED  BY <1>1, <1>3, <1>4, <1>5 DEF HeldIsCount

\* A thread that gives the mutex back, once.
LEMMA GiveBackHeld ==
  ASSUME TypeOK, HeldIsCount, NEW t \in Threads, owner = t, GiveBack,
         call' \in [Threads -> Call], held' \in [Threads -> Nat],
         \A u \in Threads \ {t} : call'[u] = call[u] /\ held'[u] = held[u],
         call'[t].pc # "peek", held'[t] = count - 1
  PROVE  HeldIsCount'
<1>1. count \in Nat /\ count # 0 /\ count' = count - 1
  BY MutexAssumption DEF TypeOK, HeldIsCount, GiveBack
<1>2. owner' = (IF count = 1 THEN NoThread ELSE t)
  BY DEF GiveBack
<1>3. owner' = NoThread <=> count' = 0
  BY <1>1, <1>2, MutexAssumption
<1>4. ASSUME NEW u \in Threads \ {t}
      PROVE  /\ held'[u] + (IF call'[u].pc = "peek" THEN 1 ELSE 0) = 0
             /\ owner' # u
  BY <1>2, <1>4, MutexAssumption DEF HeldIsCount
<1>5. held'[t] + (IF call'[t].pc = "peek" THEN 1 ELSE 0) = (IF owner' = t THEN count' ELSE 0)
  BY <1>1, <1>2, MutexAssumption
<1> QED  BY <1>3, <1>4, <1>5 DEF HeldIsCount

\* A step that leaves the mutex, what was told, and who peeks as they are.
LEMMA SameHeld ==
  ASSUME HeldIsCount, UNCHANGED <<owner, count, held>>,
         \A u \in Threads : call'[u].pc = "peek" <=> call[u].pc = "peek"
  PROVE  HeldIsCount'
BY DEF HeldIsCount

\* A call of one thread changes no other thread's call.
LEMMA CallFrame ==
  ASSUME TypeOK, NEW t \in Threads, NEW c, call' = [call EXCEPT ![t] = c]
  PROVE  call'[t] = c /\ \A u \in Threads \ {t} : call'[u] = call[u]
BY DEF TypeOK

\* Every step keeps what the callers were told right.
LEMMA HeldStep ==
  ASSUME TypeOK, TypeOK', HeldIsCount, CallsRight, [Next]_vars PROVE HeldIsCount'
<1> USE DEF lockVars
<1>0. call \in [Threads -> Call] /\ call' \in [Threads -> Call] /\ held' \in [Threads -> Nat]
  BY DEF TypeOK
<1>1. ASSUME NEW t \in Threads, Lock(t) PROVE HeldIsCount'
  BY <1>1, <1>0, SameHeld DEF Lock, Begins, Idle, Call
<1>2. ASSUME NEW t \in Threads, LockReturn(t) PROVE HeldIsCount'
  <2>1. /\ call'[t] = NoCall /\ \A u \in Threads \ {t} : call'[u] = call[u]
        /\ call[t].pc = "lock" /\ call'[t].pc # "peek"
    BY <1>2, <1>0, CallFrame DEF LockReturn, Returns, NoCall
  <2>2. CASE CanTake(t) /\ Take(t) /\ Told(t)
    BY <1>0, <2>1, <2>2, TakeHeld
  <2>3. CASE UNCHANGED <<lockVars, held>>
    BY <2>1, <2>3, SameHeld
  <2> QED  BY <1>2, <2>2, <2>3 DEF LockReturn
<1>3. ASSUME NEW t \in Threads, Unlock(t) PROVE HeldIsCount'
  <2>1. Idle(t) /\ call' = call
    BY <1>3 DEF Unlock
  <2>2. CASE owner = t /\ kind # "destroyed"
    <3>1. GiveBack /\ held' = [held EXCEPT ![t] = @ - 1]
      BY <1>3, <2>2 DEF Unlock
    <3>2. held[t] + 0 = count /\ held[t] \in Nat
      BY <2>1, <2>2 DEF HeldIsCount, Idle, TypeOK
    <3>3. held'[t] = count - 1 /\ \A u \in Threads \ {t} : held'[u] = held[u]
      BY <3>1, <3>2 DEF TypeOK
    <3> QED  BY <1>0, <2>1, <2>2, <3>1, <3>3, GiveBackHeld DEF Idle
  <2>3. CASE ~ (owner = t /\ kind # "destroyed")
    BY <1>3, <2>1, <2>3, SameHeld DEF Unlock
  <2> QED  BY <2>2, <2>3
<1>4. ASSUME NEW t \in Threads, TryLock(t) PROVE HeldIsCount'
  <2>1. Idle(t) /\ call' = call
    BY <1>4 DEF TryLock
  <2>2. CASE magic /\ CanTake(t)
    BY <1>4, <1>0, <2>1, <2>2, TakeHeld DEF TryLock, Idle
  <2>3. CASE ~ (magic /\ CanTake(t))
    BY <1>4, <2>1, <2>3, SameHeld DEF TryLock
  <2> QED  BY <2>2, <2>3
<1>5. ASSUME NEW t \in Threads, NEW ms \in Milliseconds, TimedLock(t, ms) PROVE HeldIsCount'
  BY <1>5, <1>0, SameHeld DEF TimedLock, Idle
<1>6. ASSUME NEW t \in Threads, TimedReturn(t) PROVE HeldIsCount'
  <2>1. /\ call'[t] = NoCall /\ \A u \in Threads \ {t} : call'[u] = call[u]
        /\ call[t].pc = "timed" /\ call'[t].pc # "peek"
    BY <1>6, <1>0, CallFrame DEF TimedReturn, Returns, NoCall
  <2>2. CASE CanTake(t) /\ Take(t) /\ Told(t)
    BY <1>0, <2>1, <2>2, TakeHeld
  <2>3. CASE UNCHANGED <<lockVars, held>>
    BY <2>1, <2>3, SameHeld
  <2> QED  BY <1>6, <2>2, <2>3 DEF TimedReturn
<1>7. ASSUME NEW t \in Threads, IsLocked(t) PROVE HeldIsCount'
  <2>1. CASE CanTake(t)
    <3>1. Idle(t) /\ Take(t) /\ Begins(t, "peek") /\ UNCHANGED held
      BY <1>7, <2>1 DEF IsLocked
    <3>2. call'[t].pc = "peek" /\ \A u \in Threads \ {t} : call'[u] = call[u]
      BY <1>0, <3>1 DEF Begins, Call
    <3> QED  BY <1>0, <2>1, <3>1, <3>2, TakeHeld DEF Idle
  <2>2. CASE ~ CanTake(t)
    BY <1>7, <2>2, SameHeld DEF IsLocked
  <2> QED  BY <2>1, <2>2
<1>8. ASSUME NEW t \in Threads, IsLockedUnlock(t) PROVE HeldIsCount'
  <2>1. /\ call'[t] = NoCall /\ \A u \in Threads \ {t} : call'[u] = call[u]
        /\ call[t].pc = "peek" /\ call'[t].pc # "peek" /\ UNCHANGED held
    BY <1>8, <1>0, CallFrame DEF IsLockedUnlock, Returns, NoCall
  <2>2. held[t] + 1 = (IF owner = t THEN count ELSE 0) /\ held[t] \in Nat
    BY <2>1 DEF HeldIsCount, TypeOK
  <2>3. owner = t /\ held[t] = count - 1
    BY <2>2 DEF TypeOK
  <2>4. kind # "destroyed"
    BY <2>2, <2>3 DEF CallsRight, TypeOK
  <2> QED  BY <1>0, <1>8, <2>1, <2>3, <2>4, GiveBackHeld DEF IsLockedUnlock
<1>9. ASSUME NEW t \in Threads, Destroy(t) PROVE HeldIsCount'
  BY <1>9, SameHeld DEF Destroy
<1>10. ASSUME NEW d \in Ticks, Tick(d) PROVE HeldIsCount'
  BY <1>10, SameHeld DEF Tick
<1>11. CASE UNCHANGED vars
  BY <1>11, SameHeld DEF vars
<1> QED
  BY <1>1, <1>2, <1>3, <1>4, <1>5, <1>6, <1>7, <1>8, <1>9, <1>10, <1>11
     DEF Next, Calls, Goes

-----------------------------------------------------------------------------
(* Why no assertion fails for a good caller.                                *)

\* What CallsRight says of the pthread mutex, and of one thread's call.
KindRight ==
  /\ kind = "destroyed" => ~ magic /\ count = 0
  /\ count <= MaxCount /\ (kind = "errorcheck" => count <= 1)

LockRight(t) ==
  call[t].pc = "lock" /\ (kind = "destroyed" \/ (owner = t /\ ~ CanTake(t))) => misused

TimedRight(t) ==
  call[t].pc = "timed" => call[t].until = MakeTimeout(call[t].began, call[t].ms)

\* These are all the parts of CallsRight.
LEMMA Parts ==
  /\ CallsRight <=> KindRight /\ \A t \in Threads : LockRight(t) /\ TimedRight(t)
  /\ CallsRight' <=> KindRight' /\ \A t \in Threads : LockRight(t)' /\ TimedRight(t)'
BY DEF CallsRight, KindRight, LockRight, TimedRight

\* A thread that is in no call knows how often it has the mutex.
LEMMA IdleHeld ==
  ASSUME TypeOK, HeldIsCount, NEW t \in Threads, call[t].pc # "peek"
  PROVE  /\ held[t] \in Nat /\ held[t] = (IF owner = t THEN count ELSE 0)
         /\ owner = t => count > 0
BY MutexAssumption DEF HeldIsCount, TypeOK

\* Taking and giving back respect the bounds of each kind.
LEMMA KindStep ==
  ASSUME TypeOK, HeldIsCount, KindRight, NEW t \in Threads,
         (CanTake(t) /\ Take(t)) \/ (owner = t /\ GiveBack)
  PROVE  KindRight'
<1>1. count \in Nat /\ MaxCount \in Nat \ {0} /\ (owner = NoThread <=> count = 0)
  BY MutexAssumption DEF TypeOK, HeldIsCount
<1>2. CASE CanTake(t) /\ Take(t)
  BY <1>1, <1>2, MutexAssumption DEF KindRight, CanTake, Take
<1>3. CASE owner = t /\ GiveBack
  BY <1>1, <1>3, MutexAssumption DEF KindRight, GiveBack
<1> QED  BY <1>2, <1>3

\* While one thread has the mutex, or after it gave it back, no other thread
\* waits in vain.
LEMMA OthersLock ==
  ASSUME TypeOK, NEW t \in Threads, kind # "destroyed", UNCHANGED kind,
         owner' \in {t, NoThread}
  PROVE  \A u \in Threads \ {t} : LockRight(u)'
BY MutexAssumption DEF LockRight

\* A step that leaves the mutex alone and forgets no misuse.
LEMMA SameLock ==
  ASSUME NEW u \in Threads, LockRight(u), UNCHANGED <<kind, owner, count>>,
         misused => misused', call'[u].pc = "lock" => call[u].pc = "lock"
  PROVE  LockRight(u)'
BY DEF LockRight, CanTake

\* A step that starts no timedlock.
LEMMA SameTimed ==
  ASSUME NEW u \in Threads, TimedRight(u), call'[u].pc = "timed" => call'[u] = call[u]
  PROVE  TimedRight(u)'
BY DEF TimedRight

\* A step that changes one thread's call and not the mutex.
LEMMA OneCall ==
  ASSUME TypeOK, CallsRight, NEW t \in Threads, UNCHANGED lockVars, misused => misused',
         \A u \in Threads \ {t} : call'[u] = call[u],
         LockRight(t)', TimedRight(t)'
  PROVE  CallsRight'
<1>1. KindRight'
  BY Parts DEF KindRight, lockVars
<1>2. ASSUME NEW u \in Threads \ {t} PROVE LockRight(u)' /\ TimedRight(u)'
  BY <1>2, Parts, SameLock, SameTimed DEF lockVars
<1> QED  BY <1>1, <1>2, Parts

\* A step in which one thread takes the mutex or gives it back.
LEMMA OneOwner ==
  ASSUME TypeOK, HeldIsCount, CallsRight, NEW t \in Threads,
         (CanTake(t) /\ Take(t)) \/ (owner = t /\ GiveBack),
         \A u \in Threads \ {t} : call'[u] = call[u],
         call'[t].pc \notin {"lock", "timed"}
  PROVE  CallsRight'
<1>1. KindRight'
  BY Parts, KindStep
<1>2. kind # "destroyed" /\ UNCHANGED kind /\ owner' \in {t, NoThread}
  <2>1. CASE CanTake(t) /\ Take(t)
    BY <2>1 DEF CanTake, Take
  <2>2. CASE owner = t /\ GiveBack
    BY <2>2, MutexAssumption DEF GiveBack, CallsRight, HeldIsCount
  <2> QED  BY <2>1, <2>2
<1>3. \A u \in Threads \ {t} : LockRight(u)'
  BY <1>2, OthersLock
<1>4. \A u \in Threads \ {t} : TimedRight(u)'
  BY Parts, SameTimed
<1>5. LockRight(t)' /\ TimedRight(t)'
  BY DEF LockRight, TimedRight
<1> QED  BY <1>1, <1>3, <1>4, <1>5, Parts

\* Every step keeps the calls right, and asserts only on misuse.
LEMMA RightStep ==
  ASSUME Inductive, [Next]_vars PROVE CallsRight' /\ AbortOnlyOnMisuse'
<1>0. /\ TypeOK /\ HeldIsCount /\ CallsRight /\ (alive \/ misused)
      /\ call \in [Threads -> Call] /\ held \in [Threads -> Nat] /\ NoThread \notin Threads
      /\ kind = "destroyed" => ~ magic /\ owner = NoThread
  BY MutexAssumption DEF Inductive, TypeOK, AbortOnlyOnMisuse, CallsRight, HeldIsCount
<1>1. ASSUME NEW t \in Threads, Lock(t) PROVE CallsRight' /\ AbortOnlyOnMisuse'
  <2>1. /\ call[t].pc = "idle" /\ UNCHANGED <<lockVars, alive>> /\ (misused => misused')
        /\ \A u \in Threads \ {t} : call'[u] = call[u]
        /\ call'[t].pc # "timed"
    BY <1>0, <1>1 DEF Lock, Idle, Begins, Wrong, Call
  <2>2. LockRight(t)'
    <3>1. CASE ~ magic \/ held[t] = MaxCount \/ (held[t] > 0 /\ kind = "errorcheck")
      BY <1>1, <3>1 DEF Lock, Wrong, LockRight
    <3>2. CASE magic /\ held[t] # MaxCount /\ ~ (held[t] > 0 /\ kind = "errorcheck")
      <4>1. kind # "destroyed"
        BY <1>0, <3>2
      <4>2. owner = t => CanTake(t)
        BY <1>0, <2>1, <3>2, <4>1, IdleHeld, MutexAssumption
           DEF CanTake, CallsRight, TypeOK, Kinds
      <4> QED  BY <2>1, <4>1, <4>2 DEF LockRight, CanTake, lockVars
    <3> QED  BY <3>1, <3>2
  <2>3. TimedRight(t)'
    BY <2>1 DEF TimedRight
  <2> QED  BY <1>0, <2>1, <2>2, <2>3, OneCall DEF AbortOnlyOnMisuse
<1>2. ASSUME NEW t \in Threads, LockReturn(t) PROVE CallsRight' /\ AbortOnlyOnMisuse'
  <2>1. /\ call'[t].pc = "idle" /\ \A u \in Threads \ {t} : call'[u] = call[u]
        /\ UNCHANGED misused /\ call[t].pc = "lock"
    BY <1>0, <1>2, CallFrame DEF LockReturn, Returns, NoCall
  <2>2. CASE CanTake(t) /\ Take(t) /\ UNCHANGED alive
    BY <1>0, <2>1, <2>2, OneOwner DEF AbortOnlyOnMisuse
  <2>3. CASE /\ kind = "destroyed" \/ (owner = t /\ ~ CanTake(t))
             /\ UNCHANGED lockVars
    <3>1. misused
      BY <1>0, <2>1, <2>3, Parts DEF LockRight
    <3>2. LockRight(t)' /\ TimedRight(t)'
      BY <2>1 DEF LockRight, TimedRight
    <3> QED  BY <1>0, <2>1, <2>3, <3>1, <3>2, OneCall DEF AbortOnlyOnMisuse
  <2> QED  BY <1>2, <2>2, <2>3 DEF LockReturn
<1>3. ASSUME NEW t \in Threads, Unlock(t) PROVE CallsRight' /\ AbortOnlyOnMisuse'
  <2>1. call[t].pc = "idle" /\ UNCHANGED call /\ (misused => misused')
    BY <1>3 DEF Unlock, Idle, Wrong
  <2>2. CASE owner = t /\ kind # "destroyed"
    <3>1. GiveBack /\ UNCHANGED alive
      BY <1>3, <2>2 DEF Unlock
    <3> QED  BY <1>0, <2>1, <2>2, <3>1, OneOwner DEF AbortOnlyOnMisuse
  <2>3. CASE ~ (owner = t /\ kind # "destroyed")
    <3>1. owner # t
      BY <1>0, <2>3
    <3>2. held[t] = 0
      BY <1>0, <2>1, <3>1, IdleHeld
    <3>3. misused' /\ UNCHANGED lockVars
      BY <1>3, <2>3, <3>2 DEF Unlock, Wrong
    <3>4. LockRight(t)' /\ TimedRight(t)'
      BY <2>1 DEF LockRight, TimedRight
    <3> QED  BY <1>0, <2>1, <3>3, <3>4, OneCall DEF AbortOnlyOnMisuse
  <2> QED  BY <2>2, <2>3
<1>4. ASSUME NEW t \in Threads, TryLock(t) PROVE CallsRight' /\ AbortOnlyOnMisuse'
  <2>1. call[t].pc = "idle" /\ UNCHANGED call /\ (misused => misused')
    BY <1>4 DEF TryLock, Idle, Wrong
  <2>2. CASE magic /\ CanTake(t)
    <3>1. Take(t) /\ UNCHANGED alive
      BY <1>4, <2>2 DEF TryLock
    <3> QED  BY <1>0, <2>1, <2>2, <3>1, OneOwner DEF AbortOnlyOnMisuse
  <2>3. CASE ~ (magic /\ CanTake(t))
    <3>1. UNCHANGED lockVars
      BY <1>4, <2>3 DEF TryLock
    <3>2. LockRight(t)' /\ TimedRight(t)'
      BY <2>1 DEF LockRight, TimedRight
    <3>3. alive' \/ misused'
      <4>1. CASE magic /\ Deepest(t)
        <5>1. held[t] = MaxCount
          BY <1>0, <2>1, <4>1, IdleHeld DEF Deepest
        <5> QED  BY <1>4, <5>1 DEF TryLock, Wrong
      <4>2. CASE ~ (magic /\ Deepest(t))
        BY <1>0, <1>4, <2>1, <2>3, <4>2 DEF TryLock
      <4> QED  BY <4>1, <4>2
    <3> QED  BY <1>0, <2>1, <3>1, <3>2, <3>3, OneCall DEF AbortOnlyOnMisuse
  <2> QED  BY <2>2, <2>3
<1>5. ASSUME NEW t \in Threads, NEW ms \in Milliseconds, TimedLock(t, ms)
      PROVE  CallsRight' /\ AbortOnlyOnMisuse'
  <2>1. /\ call[t].pc = "idle" /\ UNCHANGED <<lockVars, alive>> /\ (misused => misused')
        /\ \A u \in Threads \ {t} : call'[u] = call[u]
    BY <1>0, <1>5 DEF TimedLock, Idle, Wrong
  <2>2. LockRight(t)' /\ TimedRight(t)'
    <3>1. CASE magic
      <4>1. call'[t] = [pc |-> "timed", ms |-> ms, began |-> clock,
                        until |-> MakeTimeout(clock, ms)]
        BY <1>0, <1>5, <3>1 DEF TimedLock
      <4> QED  BY <4>1 DEF LockRight, TimedRight, MakeTimeout
    <3>2. CASE ~ magic
      BY <1>5, <2>1, <3>2 DEF TimedLock, LockRight, TimedRight
    <3> QED  BY <3>1, <3>2
  <2> QED  BY <1>0, <2>1, <2>2, OneCall DEF AbortOnlyOnMisuse
<1>6. ASSUME NEW t \in Threads, TimedReturn(t) PROVE CallsRight' /\ AbortOnlyOnMisuse'
  <2>1. /\ call'[t].pc = "idle" /\ \A u \in Threads \ {t} : call'[u] = call[u]
        /\ UNCHANGED <<misused, alive>>
    BY <1>0, <1>6, CallFrame DEF TimedReturn, Returns, NoCall
  <2>2. CASE CanTake(t) /\ Take(t)
    BY <1>0, <2>1, <2>2, OneOwner DEF AbortOnlyOnMisuse
  <2>3. CASE UNCHANGED lockVars
    <3>1. LockRight(t)' /\ TimedRight(t)'
      BY <2>1 DEF LockRight, TimedRight
    <3> QED  BY <1>0, <2>1, <2>3, <3>1, OneCall DEF AbortOnlyOnMisuse
  <2> QED  BY <1>6, <2>2, <2>3 DEF TimedReturn
<1>7. ASSUME NEW t \in Threads, IsLocked(t) PROVE CallsRight' /\ AbortOnlyOnMisuse'
  <2>1. AbortOnlyOnMisuse' /\ (misused => misused') /\ call[t].pc = "idle"
    BY <1>0, <1>7 DEF IsLocked, Wrong, AbortOnlyOnMisuse, Idle
  <2>2. CASE CanTake(t)
    <3>1. /\ Take(t) /\ call'[t].pc = "peek"
          /\ \A u \in Threads \ {t} : call'[u] = call[u]
      BY <1>0, <1>7, <2>2 DEF IsLocked, Begins, Call
    <3> QED  BY <1>0, <2>1, <2>2, <3>1, OneOwner
  <2>3. CASE ~ CanTake(t)
    <3>1. UNCHANGED <<lockVars, call>>
      BY <1>7, <2>3 DEF IsLocked
    <3>2. LockRight(t)' /\ TimedRight(t)'
      BY <2>1, <3>1 DEF LockRight, TimedRight
    <3> QED  BY <1>0, <2>1, <3>1, <3>2, OneCall
  <2> QED  BY <2>2, <2>3
<1>8. ASSUME NEW t \in Threads, IsLockedUnlock(t) PROVE CallsRight' /\ AbortOnlyOnMisuse'
  <2>1. /\ call'[t].pc = "idle" /\ \A u \in Threads \ {t} : call'[u] = call[u]
        /\ UNCHANGED misused /\ call[t].pc = "peek"
    BY <1>0, <1>8, CallFrame DEF IsLockedUnlock, Returns, NoCall
  <2>2. held[t] + 1 = (IF owner = t THEN count ELSE 0) /\ held[t] \in Nat
    BY <1>0, <2>1 DEF HeldIsCount
  <2>3. owner = t
    BY <2>2
  <2>4. GiveBack /\ UNCHANGED alive
    BY <1>0, <1>8, <2>3 DEF IsLockedUnlock
  <2> QED  BY <1>0, <2>1, <2>3, <2>4, OneOwner DEF AbortOnlyOnMisuse
<1>9. ASSUME NEW t \in Threads, Destroy(t) PROVE CallsRight' /\ AbortOnlyOnMisuse'
  <2>1. /\ UNCHANGED <<owner, count, call>> /\ magic' = FALSE
        /\ misused' = (misused \/ \E u \in Threads : held[u] > 0 \/ ~ Idle(u))
    BY <1>9 DEF Destroy, Wrong
  <2>2. CASE owner = NoThread
    <3>1. kind' = "destroyed" /\ UNCHANGED alive
      BY <1>9, <2>2 DEF Destroy
    <3>2. KindRight'
      BY <1>0, <2>1, <2>2, <3>1, MutexAssumption DEF KindRight, HeldIsCount, TypeOK
    <3>3. ASSUME NEW u \in Threads PROVE LockRight(u)' /\ TimedRight(u)'
      <4>1. call[u].pc = "lock" => misused'
        BY <2>1 DEF Idle
      <4> QED  BY <1>0, <2>1, <4>1, Parts, SameTimed DEF LockRight
    <3> QED  BY <1>0, <2>1, <3>1, <3>2, <3>3, Parts DEF AbortOnlyOnMisuse
  <2>3. CASE owner # NoThread
    <3>1. owner \in Threads /\ count # 0 /\ UNCHANGED kind
      BY <1>0, <1>9, <2>3 DEF Destroy, TypeOK, HeldIsCount
    <3>2. misused'
      <4>1. CASE call[owner].pc = "idle"
        BY <1>0, <2>1, <3>1, <4>1, IdleHeld
      <4>2. CASE call[owner].pc # "idle"
        BY <2>1, <3>1, <4>2 DEF Idle
      <4> QED  BY <4>1, <4>2
    <3>3. KindRight'
      BY <1>0, <2>1, <3>1, Parts DEF KindRight
    <3>4. \A u \in Threads : LockRight(u)' /\ TimedRight(u)'
      BY <1>0, <2>1, <3>1, <3>2, Parts, SameTimed DEF LockRight
    <3> QED  BY <3>2, <3>3, <3>4, Parts DEF AbortOnlyOnMisuse
  <2> QED  BY <2>2, <2>3
<1>10. CASE (\E d \in Ticks : Tick(d)) \/ UNCHANGED vars
  <2>1. UNCHANGED <<lockVars, call, alive, misused>>
    BY <1>10 DEF Tick, vars
  <2>2. KindRight' /\ \A u \in Threads : LockRight(u)' /\ TimedRight(u)'
    BY <1>0, <2>1, Parts, SameLock, SameTimed DEF KindRight, lockVars
  <2> QED  BY <1>0, <2>1, <2>2, Parts DEF AbortOnlyOnMisuse
<1> QED
  BY <1>1, <1>2, <1>3, <1>4, <1>5, <1>6, <1>7, <1>8, <1>9, <1>10
     DEF Next, Calls, Goes

-----------------------------------------------------------------------------
(* The theorems.                                                            *)

\* The first state.
LEMMA InitRight == Init => Inductive
<1> SUFFICES ASSUME Init PROVE Inductive
  OBVIOUS
<1>1. NoCall \in Call
  BY DEF NoCall, Call, Time, Micros, Nanos, Second, Pcs
<1>2. clock \in Time
  <2>1. PICK u \in FirstUsecs : clock = [sec |-> 0, usec |-> u]
    BY DEF Init
  <2> QED  BY <2>1, MutexAssumption DEF Time
<1>3. TypeOK
  BY <1>1, <1>2 DEF Init, TypeOK, Kinds
<1>4. \A t \in Threads : call[t].pc = "idle"
  BY DEF Init, NoCall
<1>5. HeldIsCount
  BY <1>4, MutexAssumption DEF Init, HeldIsCount
<1>6. CallsRight /\ AbortOnlyOnMisuse
  BY <1>4, MutexAssumption DEF Init, CallsRight, AbortOnlyOnMisuse
<1> QED  BY <1>3, <1>5, <1>6 DEF Inductive

\* Inductive holds in every reachable state: it is inductive.
THEOREM MutexInductive == Spec => []Inductive
<1>1. Inductive /\ [Next]_vars => Inductive'
  BY TypeStep, HeldStep, RightStep DEF Inductive
<1> QED  BY InitRight, <1>1, PTL DEF Spec

\* The variables keep their types, the magic word and the clock among them.
THEOREM MutexTypeCorrect == Spec => []TypeOK
BY MutexInductive, PTL DEF Inductive

\* For every kind of mutex and every sequence of right and wrong calls, the
\* methods tell the truth about who has the mutex, and how often.
THEOREM HoldersTold == Spec => []HeldIsCount
BY MutexInductive, PTL DEF Inductive

\* At most one thread was told that it has the mutex.
THEOREM OneHolder ==
  Spec => [](\A t, u \in Threads : held[t] > 0 /\ held[u] > 0 => t = u)
<1>1. Inductive => \A t, u \in Threads : held[t] > 0 /\ held[u] > 0 => t = u
  BY DEF Inductive, HeldIsCount, TypeOK
<1> QED  BY MutexInductive, <1>1, PTL

\* The assertions of the class do not fail while callers do right.
THEOREM NoFalseAlarm == Spec => []AbortOnlyOnMisuse
BY MutexInductive, PTL DEF Inductive

\* A deadline of MakeTimeout that was reached is at least its milliseconds
\* after the call began.
LEMMA ReachedIsElapsed ==
  ASSUME NEW began \in Time, NEW ms \in Nat, clock \in Time,
         Reached(MakeTimeout(began, ms))
  PROVE  (clock.sec - began.sec) * 1000000 + clock.usec - began.usec >= ms * 1000
<1> DEFINE until == MakeTimeout(began, ms)
<1>1. /\ until.sec \in Nat /\ until.nsec \in Nat /\ until.nsec < 1000000000
      /\ (until.sec - began.sec) * 1000000000 + until.nsec - began.usec * 1000 = ms * 1000000
  BY MakeTimeoutExact DEF Nanos, Second
<1>2. \/ clock.sec > until.sec
      \/ clock.sec = until.sec /\ clock.usec * 1000 >= until.nsec
  BY DEF Reached
<1> HIDE DEF until
<1>3. /\ clock.sec \in Nat /\ clock.usec \in Nat
      /\ began.sec \in Nat /\ began.usec \in Nat
  BY TimeParts
<1> QED  BY <1>1, <1>2, <1>3

\* timedlock never gives up early: neither the carry of MakeTimeout nor its
\* rounding costs a microsecond.
THEOREM DeadlineKept == Spec => NoEarlyTimeout
<1> DEFINE Kept(t) ==
      LET began == call[t].began
      IN call[t].pc = "timed" /\ call'[t].pc = "idle" /\ held'[t] = held[t]
           => \/ owner = t \/ kind = "destroyed"
              \/ (clock.sec - began.sec) * 1000000 + clock.usec - began.usec
                   >= call[t].ms * 1000
<1>1. ASSUME Inductive, [Next]_vars, NEW t \in Threads PROVE Kept(t)
  <2> SUFFICES ASSUME call[t].pc = "timed", call'[t].pc = "idle", held'[t] = held[t],
                      owner # t, kind # "destroyed"
               PROVE  (clock.sec - call[t].began.sec) * 1000000 + clock.usec - call[t].began.usec
                        >= call[t].ms * 1000
    OBVIOUS
  <2>1. /\ call \in [Threads -> Call] /\ call[t] \in Call /\ clock \in Time
        /\ held \in [Threads -> Nat]
    BY <1>1 DEF Inductive, TypeOK
  <2>2. TimedReturn(t)
    <3>1. ASSUME NEW u \in Threads, u # t PROVE ~ Calls(u) /\ ~ Goes(u)
      BY <2>1, <3>1 DEF Calls, Goes, Lock, LockReturn, Unlock, TryLock, TimedLock, TimedReturn,
         IsLocked, IsLockedUnlock, Destroy, Begins, Returns
    <3>2. ~ Calls(t) /\ ~ LockReturn(t) /\ ~ IsLockedUnlock(t)
      BY DEF Calls, Lock, Unlock, TryLock, TimedLock, IsLocked, Destroy, Idle,
         LockReturn, IsLockedUnlock
    <3>3. call' # call
      OBVIOUS
    <3>4. ~ (\E d \in Ticks : Tick(d)) /\ ~ UNCHANGED vars
      BY <3>3 DEF Tick, vars
    <3>5. PICK u \in Threads : Calls(u) \/ Goes(u)
      BY <1>1, <3>4 DEF Next
    <3>6. u = t
      BY <3>1, <3>5
    <3> QED  BY <3>2, <3>5, <3>6 DEF Goes
  <2>3. Reached(call[t].until)
    <3>1. ~ Told(t)
      BY <2>1 DEF Told
    <3> QED  BY <2>2, <3>1 DEF TimedReturn
  <2>4. /\ call[t].began \in Time /\ call[t].ms \in Nat
        /\ call[t].until = MakeTimeout(call[t].began, call[t].ms)
    BY <1>1, <2>1 DEF Call, Inductive, CallsRight
  <2> QED  BY <2>1, <2>3, <2>4, ReachedIsElapsed
<1>2. Inductive /\ [Next]_vars => [\A t \in Threads : Kept(t)]_vars
  BY <1>1
<1> QED  BY MutexInductive, <1>2, PTL DEF Spec, NoEarlyTimeout
=============================================================================
