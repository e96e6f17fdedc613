------------------------------ MODULE BaseMutex ------------------------------
(***************************************************************************)
(* The class Mutex of base.h: an error-checking or recursive pthread mutex *)
(* with a magic word that tells a destroyed object.  Its methods are       *)
(* called in any order by any thread, rightly or wrongly: a wrong call     *)
(* makes pthread return an error, on which the code asserts, and goes on   *)
(* with "false" where assertions are compiled out.  Destroyed objects keep *)
(* their storage, as the only instance of the program, a static, does.     *)
(***************************************************************************)
EXTENDS Naturals

CONSTANTS
  Threads,
  NoThread,      \* owner of a free mutex
  MaxCount,      \* the deepest a recursive mutex may be locked
  Milliseconds,  \* arguments of timedlock
  FirstUsecs,    \* microseconds of the clock at the start
  Ticks,         \* steps of the clock in microseconds, below a second
  LastSecond     \* bound: seconds the clock runs

Second == 1000000000                    \* in nanoseconds
Micros == {u \in Nat : u < 1000000}     \* of a second
Nanos  == {n \in Nat : n < Second}

ASSUME MutexAssumption ==
  /\ NoThread \notin Threads
  /\ MaxCount \in Nat \ {0} /\ LastSecond \in Nat
  /\ Milliseconds \subseteq Nat
  /\ FirstUsecs \subseteq Micros /\ Ticks \subseteq Micros

VARIABLES
  kind,     \* of the pthread mutex: "errorcheck", "recursive", "destroyed"
  magic,    \* magic_ is the object's address
  owner,    \* thread that has the pthread mutex
  count,    \* how often it has it
  call,     \* per thread: the call that is under way
  held,     \* per thread: locks it was told it got, and has not unlocked
  clock,    \* what gettimeofday returns
  ndebug,   \* assertions are compiled out
  alive,    \* no assertion failed
  misused   \* history: some call was wrong, as far as its caller could know

lockVars == <<kind, magic, owner, count>>
vars == <<lockVars, call, held, clock, ndebug, alive, misused>>

Kinds == {"errorcheck", "recursive", "destroyed"}
Pcs   == {"idle", "lock", "timed", "peek"}

\* No call is under way.
NoCall == [pc |-> "idle", ms |-> 0, began |-> [sec |-> 0, usec |-> 0],
           until |-> [sec |-> 0, nsec |-> 0]]

Init ==
  /\ kind \in {"errorcheck", "recursive"} /\ magic = TRUE
  /\ owner = NoThread /\ count = 0
  /\ call = [t \in Threads |-> NoCall]
  /\ held = [t \in Threads |-> 0]
  /\ \E u \in FirstUsecs : clock = [sec |-> 0, usec |-> u]
  /\ ndebug \in BOOLEAN /\ alive = TRUE /\ misused = FALSE

-----------------------------------------------------------------------------
(* The clock.                                                               *)

\* Faulty: the nanoseconds are not carried into the seconds.
FaultyMakeTimeout(now, ms) ==
  LET nsec == (ms % 1000) * 1000 * 1000 + now.usec * 1000
  IN [sec |-> ms \div 1000 + now.sec, nsec |-> nsec % Second]

\* Faulty: milliseconds taken for seconds.
FaultyMakeTimeoutUnit(now, ms) == [sec |-> now.sec + ms, nsec |-> now.usec * 1000]

MakeTimeout(now, ms) ==
  LET nsec == (ms % 1000) * 1000 * 1000 + now.usec * 1000
  IN [sec |-> ms \div 1000 + now.sec + nsec \div Second, nsec |-> nsec % Second]

\* CLOCK_REALTIME has reached the deadline (external).
Reached(until) ==
  \/ clock.sec > until.sec
  \/ clock.sec = until.sec /\ clock.usec * 1000 >= until.nsec

\* Time passes; nobody sets the clock (external).
Tick(d) ==
  LET usec == clock.usec + d
  IN /\ clock.sec + usec \div 1000000 <= LastSecond
     /\ clock' = [sec |-> clock.sec + usec \div 1000000, usec |-> usec % 1000000]
  /\ UNCHANGED <<lockVars, call, held, ndebug, alive, misused>>

-----------------------------------------------------------------------------
(* pthread (external).                                                      *)

Deepest(t) == owner = t /\ kind = "recursive" /\ count = MaxCount

CanTake(t) ==
  /\ kind # "destroyed"
  /\ owner = NoThread \/ (owner = t /\ kind = "recursive" /\ count < MaxCount)

Take(t) == owner' = t /\ count' = count + 1 /\ UNCHANGED <<kind, magic>>

GiveBack ==
  /\ count' = count - 1
  /\ owner' = IF count = 1 THEN NoThread ELSE owner
  /\ UNCHANGED <<kind, magic>>

-----------------------------------------------------------------------------
(* The methods.                                                             *)

Idle(t)     == call[t].pc = "idle"
Begins(t, pc) == call' = [call EXCEPT ![t].pc = pc]
Returns(t)  == call' = [call EXCEPT ![t] = NoCall]
Told(t)     == held' = [held EXCEPT ![t] = @ + 1]
Wrong(cond) == misused' = (misused \/ cond)

\* ASSERT(false): the process aborts, or the method returns false.
Asserts == alive' = ndebug

\* lock() as far as the check of magic_.
Lock(t) ==
  /\ Idle(t)
  /\ IF magic THEN Begins(t, "lock") ELSE UNCHANGED call
  /\ Wrong(~ magic \/ held[t] = MaxCount \/ (held[t] > 0 /\ kind = "errorcheck"))
  /\ UNCHANGED <<lockVars, held, clock, ndebug, alive>>

\* pthread_mutex_lock waits for another owner, and fails on a second lock
\* of an error-checking mutex (EDEADLK), one too many of a recursive one
\* (EAGAIN), or a destroyed one (EINVAL).
LockReturn(t) ==
  /\ call[t].pc = "lock" /\ Returns(t)
  /\ \/ CanTake(t) /\ Take(t) /\ Told(t) /\ UNCHANGED alive
     \/ /\ kind = "destroyed" \/ (owner = t /\ ~ CanTake(t))
        /\ Asserts /\ UNCHANGED <<lockVars, held>>
  /\ UNCHANGED <<clock, ndebug, misused>>

\* Faulty: a mutex of the normal kind, which checks nothing.
FaultyUnlock(t) ==
  /\ Idle(t)
  /\ GiveBack /\ held' = [held EXCEPT ![t] = IF @ > 0 THEN @ - 1 ELSE 0]
  /\ Wrong(held[t] = 0)
  /\ UNCHANGED <<call, clock, ndebug, alive>>

\* unlock() does not look at magic_.  EPERM for who is not the owner.
Unlock(t) ==
  /\ Idle(t)
  /\ IF owner = t /\ kind # "destroyed"
     THEN GiveBack /\ held' = [held EXCEPT ![t] = @ - 1] /\ UNCHANGED alive
     ELSE Asserts /\ UNCHANGED <<lockVars, held>>
  /\ Wrong(held[t] = 0)
  /\ UNCHANGED <<call, clock, ndebug>>

\* Faulty: EBUSY is not told apart.
FaultyTryLock(t) ==
  /\ Idle(t)
  /\ IF magic /\ CanTake(t)
     THEN Take(t) /\ Told(t) /\ UNCHANGED alive
     ELSE IF magic THEN Asserts /\ UNCHANGED <<lockVars, held>>
                   ELSE UNCHANGED <<lockVars, held, alive>>
  /\ Wrong(~ magic \/ held[t] = MaxCount)
  /\ UNCHANGED <<call, clock, ndebug>>

\* trylock(): EBUSY is no error, EAGAIN is.
TryLock(t) ==
  /\ Idle(t)
  /\ IF magic /\ CanTake(t)
     THEN Take(t) /\ Told(t) /\ UNCHANGED alive
     ELSE /\ IF magic /\ Deepest(t) THEN Asserts ELSE UNCHANGED alive
          /\ UNCHANGED <<lockVars, held>>
  /\ Wrong(~ magic \/ held[t] = MaxCount)
  /\ UNCHANGED <<call, clock, ndebug>>

\* timedlock() as far as the deadline.
TimedLock(t, ms) ==
  /\ Idle(t) /\ clock.sec + ms \div 1000 + 1 < LastSecond
  /\ IF magic
     THEN call' = [call EXCEPT ![t] = [pc |-> "timed", ms |-> ms, began |-> clock,
                                       until |-> MakeTimeout(clock, ms)]]
     ELSE UNCHANGED call
  /\ Wrong(~ magic)
  /\ UNCHANGED <<lockVars, held, clock, ndebug, alive>>

\* pthread_mutex_timedlock: every error but ETIMEDOUT is an ASSERT2, which is
\* empty, and false.
TimedReturn(t) ==
  /\ call[t].pc = "timed" /\ Returns(t)
  /\ \/ CanTake(t) /\ Take(t) /\ Told(t)
     \/ /\ ~ CanTake(t)
        /\ owner = t \/ kind = "destroyed" \/ Reached(call[t].until)
        /\ UNCHANGED <<lockVars, held>>
  /\ UNCHANGED <<clock, ndebug, alive, misused>>

\* islocked() takes the mutex to see whether it is free ...
IsLocked(t) ==
  /\ Idle(t)
  /\ IF CanTake(t) THEN Take(t) /\ Begins(t, "peek") ELSE UNCHANGED <<lockVars, call>>
  /\ IF magic THEN UNCHANGED alive ELSE Asserts
  /\ Wrong(~ magic)
  /\ UNCHANGED <<held, clock, ndebug>>

\* Faulty: forgets to give it back.
FaultyIsLockedUnlock(t) ==
  /\ call[t].pc = "peek" /\ Returns(t)
  /\ UNCHANGED <<lockVars, held, clock, ndebug, alive, misused>>

\* ... and gives it back.
IsLockedUnlock(t) ==
  /\ call[t].pc = "peek" /\ Returns(t)
  /\ IF owner = t /\ kind # "destroyed"
     THEN GiveBack /\ UNCHANGED alive
     ELSE Asserts /\ UNCHANGED lockVars
  /\ UNCHANGED <<held, clock, ndebug, misused>>

\* ~Mutex() clears the magic word first; EBUSY while some thread has the mutex.
Destroy(t) ==
  /\ Idle(t) /\ magic /\ magic' = FALSE
  /\ IF owner = NoThread THEN kind' = "destroyed" /\ UNCHANGED alive
                         ELSE Asserts /\ UNCHANGED kind
  /\ Wrong(\E u \in Threads : held[u] > 0 \/ ~ Idle(u))
  /\ UNCHANGED <<owner, count, call, held, clock, ndebug>>

Calls(t) ==
  \/ Lock(t) \/ Unlock(t) \/ TryLock(t) \/ IsLocked(t) \/ Destroy(t)
  \/ \E ms \in Milliseconds : TimedLock(t, ms)

Goes(t) == LockReturn(t) \/ TimedReturn(t) \/ IsLockedUnlock(t)

Next ==
  \/ alive /\ \E t \in Threads : Calls(t) \/ Goes(t)
  \/ alive /\ \E d \in Ticks : Tick(d)
  \/ ~ alive /\ UNCHANGED vars

Spec == Init /\ [][Next]_vars

\* Time passes, and a thread that need not wait goes on.
FairSpec ==
  /\ Spec
  /\ WF_vars(alive /\ \E d \in Ticks : Tick(d))
  /\ \A t \in Threads : WF_vars(alive /\ Goes(t))

-----------------------------------------------------------------------------
Time == [sec : Nat, usec : Micros]
Call == [pc : Pcs, ms : Nat, began : Time, until : [sec : Nat, nsec : Nanos]]

TypeOK ==
  /\ kind \in Kinds /\ magic \in BOOLEAN
  /\ owner \in Threads \cup {NoThread} /\ count \in Nat
  /\ call \in [Threads -> Call]
  /\ held \in [Threads -> Nat]
  /\ clock \in Time
  /\ {ndebug, alive, misused} \subseteq BOOLEAN

\* What the methods told their callers is right, also after wrong calls: a
\* thread that was told it has the mutex has it, that often, and nobody else;
\* and an islocked that is over has left nothing behind.
HeldIsCount ==
  /\ owner = NoThread <=> count = 0
  /\ \A t \in Threads :
       held[t] + (IF call[t].pc = "peek" THEN 1 ELSE 0) = (IF owner = t THEN count ELSE 0)

\* An assertion of the class fails only after a call its caller could know to
\* be wrong: never because another thread has the mutex, or asks islocked, or
\* destroys a mutex that nobody uses.
AbortOnlyOnMisuse == alive \/ misused

\* Why no assertion fails for a good caller (the inductive invariant of
\* BaseMutexProofs): a mutex is destroyed free, after its magic word; who waits
\* in lock() for what will not come has misused it; and a deadline is that of
\* MakeTimeout.
CallsRight ==
  /\ kind = "destroyed" => ~ magic /\ count = 0
  /\ count <= MaxCount /\ (kind = "errorcheck" => count <= 1)
  /\ \A t \in Threads :
       /\ call[t].pc = "lock" /\ (kind = "destroyed" \/ (owner = t /\ ~ CanTake(t))) => misused
       /\ call[t].pc = "timed" => call[t].until = MakeTimeout(call[t].began, call[t].ms)

Inductive == TypeOK /\ HeldIsCount /\ CallsRight /\ AbortOnlyOnMisuse

\* timedlock gives up only when its milliseconds are over, to the microsecond,
\* unless waiting is hopeless.
NoEarlyTimeout ==
  [][\A t \in Threads :
       LET began == call[t].began
       IN call[t].pc = "timed" /\ call'[t].pc = "idle" /\ held'[t] = held[t]
            => \/ owner = t \/ kind = "destroyed"
               \/ (clock.sec - began.sec) * 1000000 + clock.usec - began.usec
                    >= call[t].ms * 1000]_vars

\* timedlock comes back, whether or not the owner ever unlocks.
TimedReturns ==
  \A t \in Threads : call[t].pc = "timed" ~> call[t].pc # "timed" \/ ~ alive
=============================================================================
