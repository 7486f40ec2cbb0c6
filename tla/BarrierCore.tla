---------------------------- MODULE BarrierCore ----------------------------
(***************************************************************************)
(* The state of core/sync/barrier.d and what wait() does to it, without    *)
(* the mutex and the condition.  Barrier puts these pieces on the monitor  *)
(* as it is documented, BarrierOnCondition on the one Horizon has.         *)
(***************************************************************************)
EXTENDS Naturals, FiniteSets

CONSTANTS Threads,
          Limit,        \* m_limit
          GroupValues   \* how many values m_group has: 2^32 in the code

ASSUME BarrierAssumption ==
  /\ Limit \in Nat \ {0}
  /\ GroupValues \in Nat /\ GroupValues > 1

VARIABLES m_group, m_count,
          stage,   \* "out", "enter" (has m_lock), "loop" (at the while)
          group    \* each thread's local copy of m_group

coreVars == <<m_group, m_count, stage, group>>

CoreTypeOK ==
  /\ m_group \in 0 .. GroupValues - 1
  /\ m_count \in 1 .. Limit
  /\ stage \in [Threads -> {"out", "enter", "loop"}]
  /\ group \in [Threads -> 0 .. GroupValues - 1]

CoreInit ==
  /\ m_group = 0 /\ m_count = Limit
  /\ stage = [t \in Threads |-> "out"]
  /\ group = [t \in Threads |-> 0]

NextGroup == (m_group + 1) % GroupValues

Blocked(t) == stage[t] = "loop" /\ group[t] = m_group
Passed(t) == stage[t] = "loop" /\ group[t] # m_group

Last == m_count = 1

\* Bound: nobody comes in to complete a group while a thread that was let go
\* has yet to run since the value m_group would take.
NobodyLapped == \A u \in Threads : Passed(u) => group[u] # NextGroup

\* synchronized( m_lock )
Enters(t) ==
  /\ stage[t] = "out"
  /\ Last => NobodyLapped
  /\ stage' = [stage EXCEPT ![t] = "enter"]
  /\ UNCHANGED <<m_group, m_count, group>>

\* A faulty variant: m_group is copied after it has been incremented.
CopiesLate(t) ==
  /\ stage[t] = "enter"
  /\ m_group' = IF Last THEN NextGroup ELSE m_group
  /\ m_count' = IF Last THEN Limit ELSE m_count - 1
  /\ group' = [group EXCEPT ![t] = m_group']
  /\ stage' = [stage EXCEPT ![t] = "loop"]

\* Up to the while: the copy of m_group, the decrement, and the new group.
Counts(t) ==
  /\ stage[t] = "enter"
  /\ group' = [group EXCEPT ![t] = m_group]
  /\ m_group' = IF Last THEN NextGroup ELSE m_group
  /\ m_count' = IF Last THEN Limit ELSE m_count - 1
  /\ stage' = [stage EXCEPT ![t] = "loop"]

\* The while is over and the synchronized block ends.
Leaves(t) ==
  /\ Passed(t)
  /\ stage' = [stage EXCEPT ![t] = "out"]
  /\ UNCHANGED <<m_group, m_count, group>>
-----------------------------------------------------------------------------
\* The barrier as its class comment has it: those counted in the current
\* group gather, those of a full group are leaving.
Gathering == {t \in Threads : Blocked(t)}
Leaving == {t \in Threads : Passed(t)}

A == INSTANCE AbstractBarrier WITH gathering <- Gathering, leaving <- Leaving

\* Threads cross only in groups of Limit, and nobody is let go early.
TravelInGroups == A!Spec

\* m_count is Limit minus the threads of the group that is gathering.
CountExact == m_count = Limit - Cardinality(Gathering)

\* "Wait for the pre-determined number of threads and then proceed"
\* (barrier.d:73): a thread whose group is full gets out of wait.
ThenProceed == \A t \in Threads : Passed(t) ~> stage[t] = "out"
=============================================================================
