------------------------------- MODULE Mutex -------------------------------
(***************************************************************************)
(* The recursive mutex of core/sync/mutex.d.  On Horizon a Mutex is one    *)
(* libctru RecursiveLock: a light lock, the tag of the thread that holds   *)
(* it, and the number of times that thread has locked it.  The operators   *)
(* below act on the lock word; the modules that own a mutex keep the word  *)
(* in a variable of theirs.                                                *)
(***************************************************************************)
EXTENDS Naturals

CONSTANTS Threads,    \* the threads of the program
          NoThread    \* the tag of a lock nobody holds

ASSUME NoThreadAssumption == NoThread \notin Threads

Locks == [tag : Threads \cup {NoThread}, counter : Nat]

\* RecursiveLock_Init, called by Mutex.this.
Unlocked == [tag |-> NoThread, counter |-> 0]

\* Mutex.lock returns, and Mutex.tryLock succeeds, only for the thread that
\* already holds the lock or when nobody does.
CanLock(l, t) == l.tag \in {t, NoThread}

Locked(l, t) == [tag |-> t, counter |-> l.counter + 1]

\* Mutex.unlock: the lock is given up when the count reaches zero.
Released(l) ==
  IF l.counter > 1 THEN [l EXCEPT !.counter = @ - 1] ELSE Unlocked
=============================================================================
