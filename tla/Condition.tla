----------------------------- MODULE Condition -----------------------------
(***************************************************************************)
(* The condition variable of core/sync/condition.d on Horizon, and the     *)
(* mutex it is associated with.  A CondVar is an int: minus the number of  *)
(* threads that have announced a wait and have not been accounted for by a *)
(* wake-up or a timeout.  A wait announces itself (_beginWait), gives up   *)
(* the mutex, asks the kernel's address arbiter to sleep while the int is  *)
(* negative, and takes the mutex again.  These are separate steps, and so  *)
(* are the two halves of a wake-up (the update of the int, then the        *)
(* arbiter's signal): every other thread may run in between.               *)
(*                                                                         *)
(* Who calls what is a parameter: only Waiters wait, only Notifiers        *)
(* notify, and NotifyHolding says whether notifiers hold the mutex across  *)
(* the call, which the code does not ask for.                              *)
(***************************************************************************)
EXTENDS Mutex, CondVar, FiniteSets

CONSTANTS Waiters,        \* threads that call wait and wait(Duration)
          Notifiers,      \* threads that call notify and notifyAll
          NotifyHolding,  \* TRUE: they do so with the mutex held
          MaxDepth        \* how deep a client nests lock calls

ASSUME RolesAssumption ==
  /\ Waiters \subseteq Threads
  /\ Notifiers \subseteq Threads
  /\ NotifyHolding \in BOOLEAN
  /\ MaxDepth \in Nat \ {0}

VARIABLES lock,     \* the RecursiveLock of m_assocMutex
          cv,       \* m_cndvar
          at,       \* where each thread is inside a call
          timed,    \* whether a thread's wait has a timeout
          num,      \* num_threads of a thread's CondVar_WakeUp
          result,   \* what a thread's last wait returned
          held,     \* history: how often a thread's lock calls outnumber its unlocks
          due,      \* history: the waiters a notifier's last call was meant for
          notified  \* history: has anyone notified since a thread began to wait

code == <<lock, cv, at, timed, num, result>>
vars == <<lock, cv, at, timed, num, result, held, due, notified>>

Places == {"out", "unlock", "arbitrate", "asleep", "endWait", "relock", "signal"}

\* The threads in the kernel's queue on the address of cv.
Sleepers == {t \in Threads : at[t] = "asleep"}

\* Threads that have given up the mutex and not been let go yet.
Waiting == {t \in Threads : at[t] \in {"arbitrate", "asleep"}}

TypeOK ==
  /\ lock \in Locks
  /\ cv \in Int
  /\ at \in [Threads -> Places]
  /\ timed \in [Threads -> BOOLEAN]
  /\ num \in [Threads -> {1, All}]
  /\ result \in [Threads -> BOOLEAN]
  /\ held \in [Threads -> 0 .. MaxDepth]
  /\ due \in [Threads -> SUBSET Threads]
  /\ notified \in [Threads -> BOOLEAN]

Init ==
  /\ lock = Unlocked
  /\ cv = 0
  /\ at = [t \in Threads |-> "out"]
  /\ timed = [t \in Threads |-> FALSE]
  /\ num = [t \in Threads |-> 1]
  /\ result = [t \in Threads |-> FALSE]
  /\ held = [t \in Threads |-> 0]
  /\ due = [t \in Threads |-> {}]
  /\ notified = [t \in Threads |-> FALSE]
-----------------------------------------------------------------------------
\* History: the threads W leave their wait.  A notify is answered by one of
\* the threads it was meant for, a notifyAll by each of them.
Answered(W) ==
  [n \in Threads |-> IF num[n] = All THEN due[n] \ W
                     ELSE IF due[n] \cap W = {} THEN due[n] ELSE {}]
-----------------------------------------------------------------------------
Lock(t) ==
  /\ at[t] = "out" /\ held[t] < MaxDepth
  /\ CanLock(lock, t)
  /\ lock' = Locked(lock, t)
  /\ held' = [held EXCEPT ![t] = @ + 1]
  /\ UNCHANGED <<cv, at, timed, num, result, due, notified>>

Unlock(t) ==
  /\ at[t] = "out" /\ held[t] > 0
  /\ lock' = Released(lock)
  /\ held' = [held EXCEPT ![t] = @ - 1]
  /\ UNCHANGED <<cv, at, timed, num, result, due, notified>>

\* wait and wait(Duration), up to the decrement in _beginWait.
BeginWait(t, hasTimeout) ==
  /\ t \in Waiters /\ at[t] = "out" /\ held[t] > 0
  /\ cv' = Announced(cv)
  /\ at' = [at EXCEPT ![t] = "unlock"]
  /\ timed' = [timed EXCEPT ![t] = hasTimeout]
  /\ result' = [result EXCEPT ![t] = FALSE]
  /\ notified' = [notified EXCEPT ![t] = FALSE]
  /\ UNCHANGED <<lock, num, held, due>>

\* lock.unlock() at the end of _beginWait: one level of the recursive lock.
WaitUnlock(t) ==
  /\ at[t] = "unlock"
  /\ lock' = Released(lock)
  /\ held' = [held EXCEPT ![t] = @ - 1]
  /\ at' = [at EXCEPT ![t] = "arbitrate"]
  /\ UNCHANGED <<cv, timed, num, result, due, notified>>

\* Faulty variants: a sleep that does not look at the int, and one that is
\* off by one.
ArbitrateUnconditional(t) ==
  /\ at[t] = "arbitrate"
  /\ at' = [at EXCEPT ![t] = "asleep"]
  /\ UNCHANGED <<lock, cv, timed, num, result, held, due, notified>>

ArbitrateIfNotAbove(t) ==
  /\ at[t] = "arbitrate"
  /\ IF cv <= 0
     THEN at' = [at EXCEPT ![t] = "asleep"] /\ UNCHANGED due
     ELSE at' = [at EXCEPT ![t] = "relock"] /\ due' = Answered({t})
  /\ UNCHANGED <<lock, cv, timed, num, result, held, notified>>

\* syncArbitrateAddress with ARBITRATION_WAIT_IF_LESS_THAN 0.
Arbitrate(t) ==
  /\ at[t] = "arbitrate"
  /\ IF cv < 0
     THEN at' = [at EXCEPT ![t] = "asleep"] /\ UNCHANGED due
     ELSE at' = [at EXCEPT ![t] = "relock"] /\ due' = Answered({t})
  /\ UNCHANGED <<lock, cv, timed, num, result, held, notified>>

\* A faulty variant: a timeout taken for a spurious wake-up.
TimeOutRetries(t) ==
  /\ at[t] = "asleep" /\ timed[t]
  /\ at' = [at EXCEPT ![t] = "arbitrate"]
  /\ UNCHANGED <<lock, cv, timed, num, result, held, due, notified>>

\* The kernel gives up on a sleeper whose time is over: RD_TIMEOUT.
TimeOut(t) ==
  /\ at[t] = "asleep" /\ timed[t]
  /\ at' = [at EXCEPT ![t] = "endWait"]
  /\ due' = Answered({t})
  /\ UNCHANGED <<lock, cv, timed, num, result, held, notified>>

\* timedOut = _endWait(cv, 1) in _waitTimeout.
EndWait(t) ==
  /\ at[t] = "endWait"
  /\ cv' = Accounted(cv, 1)
  /\ result' = [result EXCEPT ![t] = HasWaiters(cv)]
  /\ at' = [at EXCEPT ![t] = "relock"]
  /\ UNCHANGED <<lock, timed, num, held, due, notified>>

\* A faulty variant: the mutex is not taken again.
RelockForgotten(t) ==
  /\ at[t] = "relock"
  /\ held' = [held EXCEPT ![t] = @ + 1]
  /\ at' = [at EXCEPT ![t] = "out"]
  /\ UNCHANGED <<lock, cv, timed, num, result, due, notified>>

\* lock.lock() at the end of _wait and _waitTimeout.
Relock(t) ==
  /\ at[t] = "relock"
  /\ CanLock(lock, t)
  /\ lock' = Locked(lock, t)
  /\ held' = [held EXCEPT ![t] = @ + 1]
  /\ at' = [at EXCEPT ![t] = "out"]
  /\ UNCHANGED <<cv, timed, num, result, due, notified>>

\* notify (n = 1) and notifyAll (n = All): CondVar_WakeUp up to and with its
\* own _endWait.  It signals only if that found waiters.
WakeUp(t, n) ==
  /\ t \in Notifiers /\ at[t] = "out"
  /\ NotifyHolding => held[t] > 0
  /\ cv' = Accounted(cv, n)
  /\ num' = [num EXCEPT ![t] = n]
  /\ at' = IF HasWaiters(cv) THEN [at EXCEPT ![t] = "signal"] ELSE at
  /\ due' = [due EXCEPT ![t] = Waiting]
  /\ notified' = [w \in Threads |-> notified[w] \/ w \in Waiting]
  /\ UNCHANGED <<lock, timed, result, held>>

\* ARBITRATION_SIGNAL: the kernel releases up to num_threads sleepers.
Signal(t) ==
  /\ at[t] = "signal"
  /\ \E W \in SUBSET Sleepers :
       /\ IF num[t] = All THEN W = Sleepers
          ELSE /\ Cardinality(W) <= 1
               /\ W = {} => Sleepers = {}
       /\ at' = [u \in Threads |-> IF u = t THEN "out"
                                   ELSE IF u \in W THEN "relock" ELSE at[u]]
       /\ due' = Answered(W)
  /\ UNCHANGED <<lock, cv, timed, num, result, held, notified>>

\* What a thread does by itself once it is inside a call.
Step(t) ==
  \/ WaitUnlock(t)
  \/ Arbitrate(t)
  \/ TimeOut(t)
  \/ EndWait(t)
  \/ Relock(t)
  \/ Signal(t)

Call(t) ==
  \/ Lock(t)
  \/ Unlock(t)
  \/ \E hasTimeout \in BOOLEAN : BeginWait(t, hasTimeout)
  \/ \E n \in {1, All} : WakeUp(t, n)

Next == \E t \in Threads : Call(t) \/ Step(t)

Spec == Init /\ [][Next]_vars

\* Threads inside a call keep running, and the kernel's clock does too.
\* Nothing is assumed of the calls themselves, nor of who wins the mutex.
FairSpec ==
  /\ Spec
  /\ \A t \in Threads :
       /\ WF_vars(WaitUnlock(t) \/ Arbitrate(t) \/ EndWait(t) \/ Signal(t))
       /\ WF_vars(TimeOut(t))
-----------------------------------------------------------------------------
\* A thread that has locked more often than it has unlocked, through however
\* many waits, is the one the lock word names, with the right depth: a wait
\* returns with the mutex held exactly as often as when it was called.
HeldByTag ==
  \A t \in Threads : held[t] > 0 => lock = [tag |-> t, counter |-> held[t]]

\* "Notifies one waiter" (condition.d:267): once notify is over, one of the
\* threads that were waiting when it was called is not left to sleep.
NotifyWakesOne ==
  \A n \in Threads :
    num[n] = 1 /\ at[n] # "signal" /\ due[n] # {}
      => \E t \in due[n] : at[t] # "asleep"

\* "Notifies all waiters" (condition.d:291): once notifyAll is over, none of
\* the threads that were waiting when it was called sleeps.
NotifyAllWakesAll ==
  \A n \in Threads :
    num[n] = All /\ at[n] # "signal"
      => \A t \in due[n] : at[t] # "asleep"

\* A notification reaches those it is for, also one that falls between the
\* announcement of a wait and the sleep, or overlaps another one.
NotifiesReach == NotifyWakesOne /\ NotifyAllWakesAll

\* wait(Duration) returns "true if notified before the timeout and false if
\* not" (condition.d:241).
TrueIfNotified ==
  \A t \in Waiters : at[t] = "out" /\ result[t] => notified[t]

\* Every sleeper is counted by the int or by a signal on its way, so that a
\* later notification finds it.
SleepersCounted ==
  cv = 0 /\ Sleepers # {} => \E n \in Threads : at[n] = "signal"

\* A notification that overlaps the next wait of the thread it released can
\* leave the int counting a wait that is over.  Such surplus does not build
\* up however long the program runs: each notifier on its way to the kernel
\* accounts for at most one surplus wait of each waiter, and the int never
\* exceeds zero.
CountInRange == cv \in -(Cardinality(Waiters) * (Cardinality(Notifiers) + 1)) .. 0

\* A wait(Duration) comes back when its time is over, whatever notifications
\* it has missed.
TimedWaitEnds ==
  \A t \in Waiters :
    at[t] \in {"arbitrate", "asleep"} /\ timed[t] ~> at[t] \in {"relock", "out"}

\* A thread that a completed notification was for gets out of the kernel.
NotifiedWakes ==
  \A t \in Waiters :
    (\E n \in Threads : num[n] = All /\ t \in due[n]) ~> at[t] \in {"relock", "out"}
-----------------------------------------------------------------------------
\* The monitor a client programs against.  A waiter is waiting for as long
\* as the int still counts it, and released from the moment a notification
\* or its own timeout has accounted for it.
M == INSTANCE Monitor WITH
       owner <- lock.tag,
       place <- [t \in Threads |->
                   IF at[t] \in {"arbitrate", "asleep", "endWait"}
                   THEN IF cv < 0 THEN "waiting" ELSE "released"
                   ELSE IF at[t] = "relock" THEN "released" ELSE "out"]

ImplementsMonitor == M!Spec
=============================================================================
