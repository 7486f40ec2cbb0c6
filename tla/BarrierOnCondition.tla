------------------------- MODULE BarrierOnCondition -------------------------
(***************************************************************************)
(* core/sync/barrier.d composed with the mutex and condition variable of   *)
(* Horizon, step by step (module Condition).  Every thread waits and       *)
(* notifies, and notifies with the mutex held, as wait() does.             *)
(***************************************************************************)
EXTENDS BarrierCore

CONSTANT NoThread

VARIABLES lock, cv, at, timed, num, result, held, due, notified

Cond == INSTANCE Condition WITH
          Waiters <- Threads, Notifiers <- Threads,
          NotifyHolding <- TRUE, MaxDepth <- 1

condVars == <<lock, cv, at, timed, num, result, held, due, notified>>
vars == <<m_group, m_count, stage, group, lock, cv, at, timed, num, result,
          held, due, notified>>

TypeOK == CoreTypeOK /\ Cond!TypeOK

Init == CoreInit /\ Cond!Init

Enter(t) == Enters(t) /\ Cond!Lock(t)

\* m_cond.notifyAll() if the thread completes the group.
Count(t) ==
  /\ at[t] = "out" /\ held[t] > 0
  /\ Counts(t)
  /\ IF Last THEN Cond!WakeUp(t, Cond!All) ELSE UNCHANGED condVars

\* while ( group == m_group ) m_cond.wait();
Wait(t) == Blocked(t) /\ Cond!BeginWait(t, FALSE) /\ UNCHANGED coreVars

Leave(t) == Leaves(t) /\ Cond!Unlock(t)

Inside(t) ==
  \/ Count(t) \/ Wait(t) \/ Leave(t)
  \/ Cond!Step(t) /\ UNCHANGED coreVars

Next == \E t \in Threads : Enter(t) \/ Inside(t)

Spec == Init /\ [][Next]_vars

\* As in Barrier: a thread that has entered wait() runs whenever it can.
FairSpec == Spec /\ \A t \in Threads : WF_vars(Inside(t))
=============================================================================
