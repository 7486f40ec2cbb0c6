------------------------------ MODULE Barrier ------------------------------
(***************************************************************************)
(* core/sync/barrier.d over a mutex and a condition that do what their     *)
(* documentation says (module Monitor).                                    *)
(***************************************************************************)
EXTENDS BarrierCore

CONSTANT NoThread

VARIABLES owner,  \* who holds m_lock
          place   \* where each thread is with respect to m_lock and m_cond

Mon == INSTANCE Monitor

vars == <<m_group, m_count, stage, group, owner, place>>

TypeOK ==
  /\ CoreTypeOK
  /\ owner \in Threads \cup {NoThread}
  /\ place \in [Threads -> {"out", "waiting", "released"}]

Init == CoreInit /\ Mon!Init

Enter(t) == Enters(t) /\ Mon!Enter(t)

\* A faulty variant: a notification for a single thread.
CountNotifiesOne(t) ==
  /\ owner = t
  /\ Counts(t)
  /\ IF Last THEN Mon!Notify(t) ELSE UNCHANGED <<owner, place>>

\* m_cond.notifyAll() if the thread completes the group.
Count(t) ==
  /\ owner = t
  /\ Counts(t)
  /\ IF Last THEN Mon!NotifyAll(t) ELSE UNCHANGED <<owner, place>>

\* while ( group == m_group ) m_cond.wait();
Wait(t) == Blocked(t) /\ Mon!Wait(t) /\ UNCHANGED coreVars

Reenter(t) == Mon!Reenter(t) /\ UNCHANGED coreVars

Leave(t) == Leaves(t) /\ Mon!Exit(t)

Inside(t) == Count(t) \/ Wait(t) \/ Reenter(t) \/ Leave(t)

Next == \E t \in Threads : Enter(t) \/ Inside(t)

Spec == Init /\ [][Next]_vars

\* A thread that has entered wait() runs whenever it can.  No thread has to
\* call wait() in the first place.
FairSpec == Spec /\ \A t \in Threads : WF_vars(Inside(t))

\* Every group of callers gets through, with the fairness of the threads only.
ImplementsBarrier == A!FairSpec

=============================================================================
