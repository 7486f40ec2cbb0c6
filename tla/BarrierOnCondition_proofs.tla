--------------------- MODULE BarrierOnCondition_proofs ---------------------
(***************************************************************************)
(* What the barrier keeps of its promise on Horizon, whatever notifications*)
(* the condition variable loses: for any threads, limit and number of      *)
(* groups, threads cross only in full groups and m_count is exact.  The    *)
(* argument needs only that the mutex excludes, which Condition_proofs     *)
(* shows through all the waits; that everybody gets across is another      *)
(* matter, and false.  Over the documented monitor (module Barrier) it is  *)
(* true as far as safety goes: nobody sleeps whose group is full.          *)
(***************************************************************************)
EXTENDS BarrierOnCondition, FiniteSetTheorems, TLAPS

CP == INSTANCE Condition_proofs WITH
        Waiters <- Threads, Notifiers <- Threads,
        NotifyHolding <- TRUE, MaxDepth <- 1

\* A thread that is about to count holds the mutex.
EntersHolding ==
  \A t \in Threads : stage[t] = "enter" => at[t] = "out" /\ held[t] = 1

LockInv == CP!IInv /\ EntersHolding

\* The count is exact, and a thread about to complete a group meets nobody
\* who was let go from the group it opens.
CountInv ==
  /\ CoreTypeOK
  /\ IsFiniteSet(Gathering)
  /\ CountExact
  /\ \A t \in Threads : stage[t] = "enter" /\ Last => NobodyLapped

EntersAlone ==
  \A t, u \in Threads : stage[t] = "enter" /\ stage[u] = "enter" => t = u

\* The same barrier over the monitor its author had in mind.
VARIABLES owner, place

B == INSTANCE Barrier

\* Who waits for a notification waits for the group that is gathering: every
\* thread of an earlier group has been told.
NobodyLeftBehind == \A t \in Threads : place[t] = "waiting" => Blocked(t)

MonitorInv ==
  /\ CountInv
  /\ place \in [Threads -> {"out", "waiting", "released"}]
  /\ \A t \in Threads : stage[t] = "enter" => owner = t /\ place[t] = "out"
  /\ NobodyLeftBehind
-----------------------------------------------------------------------------
\* m_group never stays the same from one group to the next.
LEMMA GroupsDiffer ==
  ASSUME CoreTypeOK
  PROVE  NextGroup \in 0 .. GroupValues - 1 /\ NextGroup # m_group
<1> USE BarrierAssumption DEF BarrierAssumption, CoreTypeOK, NextGroup
<1>1. CASE m_group + 1 < GroupValues
  <2>1. (m_group + 1) % GroupValues = m_group + 1
    BY <1>1
  <2>2. QED
    BY <2>1, <1>1
<1>2. CASE m_group + 1 = GroupValues
  <2>1. (m_group + 1) % GroupValues = 0
    BY <1>2
  <2>2. QED
    BY <2>1, <1>2
<1>3. QED
  BY <1>1, <1>2

\* Nobody is both counted in the current group and let go.
LEMMA MembersOf ==
  /\ \A t : t \in Gathering <=> t \in Threads /\ stage[t] = "loop" /\ group[t] = m_group
  /\ \A t : t \in Leaving <=> t \in Threads /\ stage[t] = "loop" /\ group[t] # m_group
BY DEF Gathering, Leaving, Blocked, Passed

LEMMA MembersThen ==
  /\ \A t : t \in Gathering' <=> t \in Threads /\ stage'[t] = "loop" /\ group'[t] = m_group'
  /\ \A t : t \in Leaving' <=> t \in Threads /\ stage'[t] = "loop" /\ group'[t] # m_group'
BY DEF Gathering, Leaving, Blocked, Passed

LEMMA EntersKeeps ==
  ASSUME CountInv, NEW t \in Threads, Enters(t)
  PROVE  CountInv' /\ UNCHANGED <<Gathering, Leaving>>
<1>1. /\ stage[t] = "out" /\ stage' = [stage EXCEPT ![t] = "enter"]
      /\ UNCHANGED <<m_group, m_count, group>> /\ (Last => NobodyLapped)
      /\ CoreTypeOK
  BY DEF Enters, CountInv
<1>2. CoreTypeOK' /\ stage'[t] = "enter" /\ \A u \in Threads \ {t} : stage'[u] = stage[u]
  BY <1>1 DEF CoreTypeOK
<1>3. Gathering' = Gathering
  BY <1>1, <1>2, MembersOf, MembersThen
<1>4. Leaving' = Leaving
  BY <1>1, <1>2, MembersOf, MembersThen
<1>5. NobodyLapped => NobodyLapped'
  BY <1>1, <1>2 DEF NobodyLapped, Passed, NextGroup
<1>6. QED
  BY <1>1, <1>2, <1>3, <1>4, <1>5 DEF CountInv, CountExact, Last

LEMMA LeavesKeeps ==
  ASSUME CountInv, NEW t \in Threads, Leaves(t)
  PROVE  CountInv' /\ UNCHANGED Gathering /\ t \in Leaving /\ Leaving' = Leaving \ {t}
<1>1. /\ stage[t] = "loop" /\ group[t] # m_group /\ stage' = [stage EXCEPT ![t] = "out"]
      /\ UNCHANGED <<m_group, m_count, group>> /\ CoreTypeOK
  BY DEF Leaves, Passed, CountInv
<1>2. CoreTypeOK' /\ stage'[t] = "out" /\ \A u \in Threads \ {t} : stage'[u] = stage[u]
  BY <1>1 DEF CoreTypeOK
<1>3. Gathering' = Gathering
  BY <1>1, <1>2, MembersOf, MembersThen
<1>4. t \in Leaving /\ Leaving' = Leaving \ {t}
  BY <1>1, <1>2, MembersOf, MembersThen
<1>5. NobodyLapped => NobodyLapped'
  BY <1>1, <1>2 DEF NobodyLapped, Passed, NextGroup
<1>6. QED
  BY <1>1, <1>2, <1>3, <1>4, <1>5 DEF CountInv, CountExact, Last

\* The abstract barrier counts with the same Cardinality.
LEMMA SameCardinality == \A S : A!Cardinality(S) = Cardinality(S)
BY DEF A!Cardinality, Cardinality

\* A count is an arrival at the abstract barrier.
LEMMA CountsKeeps ==
  ASSUME CountInv, EntersAlone, NEW t \in Threads, Counts(t)
  PROVE  CountInv' /\ A!Arrive(t)
<1> USE BarrierAssumption DEF BarrierAssumption
<1>1. /\ stage[t] = "enter" /\ stage' = [stage EXCEPT ![t] = "loop"]
      /\ group' = [group EXCEPT ![t] = m_group]
      /\ CoreTypeOK /\ IsFiniteSet(Gathering) /\ m_count = Limit - Cardinality(Gathering)
  BY DEF Counts, CountInv, CountExact
<1>2. /\ stage'[t] = "loop" /\ group'[t] = m_group
      /\ \A u \in Threads \ {t} : stage'[u] = stage[u] /\ group'[u] = group[u]
  BY <1>1 DEF CoreTypeOK
<1>3. /\ Cardinality(Gathering) \in Nat /\ m_count \in 1 .. Limit
      /\ t \notin Gathering /\ t \notin Leaving
  BY <1>1, FS_CardinalityType, MembersOf DEF CoreTypeOK
<1>4. \A u \in Threads : stage'[u] # "enter"
  BY <1>1, <1>2 DEF EntersAlone, CoreTypeOK
<1>5. CASE m_count = 1
  <2>1. m_group' = NextGroup /\ m_count' = Limit /\ NobodyLapped
    BY <1>1, <1>5 DEF Counts, Last, CountInv
  <2>2. NextGroup \in 0 .. GroupValues - 1 /\ NextGroup # m_group
    BY <1>1, GroupsDiffer
  <2>3. \A u \in Threads : stage'[u] = "loop" => group'[u] # NextGroup
    BY <1>2, <2>1, <2>2 DEF NobodyLapped, Passed
  <2>4. Gathering' = {}
    BY <2>1, <2>3, MembersThen
  <2>5. Leaving' = Leaving \cup Gathering \cup {t}
    BY <1>2, <2>1, <2>3, MembersOf, MembersThen
  <2>6. CoreTypeOK'
    BY <1>1, <2>1, <2>2 DEF CoreTypeOK
  <2>7. IsFiniteSet(Gathering') /\ Cardinality(Gathering') = 0
    BY <2>4, FS_EmptySet
  <2>8. CountInv'
    BY <1>4, <2>1, <2>6, <2>7 DEF CountInv, CountExact
  <2>9. A!Arrive(t)
    BY <1>1, <1>3, <1>5, <2>4, <2>5, SameCardinality DEF A!Arrive
  <2>10. QED
    BY <2>8, <2>9
<1>6. CASE m_count # 1
  <2>1. m_group' = m_group /\ m_count' = m_count - 1
    BY <1>6 DEF Counts, Last
  <2>2. Gathering' = Gathering \cup {t}
    BY <1>1, <1>2, <2>1, MembersOf, MembersThen
  <2>3. Leaving' = Leaving
    BY <1>1, <1>2, <2>1, MembersOf, MembersThen
  <2>4. IsFiniteSet(Gathering') /\ Cardinality(Gathering') = Cardinality(Gathering) + 1
    BY <1>1, <1>3, <2>2, FS_AddElement
  <2>5. CoreTypeOK'
    BY <1>1, <1>3, <1>6, <2>1 DEF CoreTypeOK
  <2>6. m_count' = Limit - Cardinality(Gathering')
    BY <1>1, <1>3, <2>1, <2>4
  <2>7. CountInv'
    BY <1>4, <2>4, <2>5, <2>6 DEF CountInv, CountExact
  <2>8. A!Arrive(t)
    BY <1>1, <1>3, <1>6, <2>2, <2>3, SameCardinality DEF A!Arrive
  <2>9. QED
    BY <2>7, <2>8
<1>7. QED
  BY <1>5, <1>6
-----------------------------------------------------------------------------
\* What Condition_proofs shows of every step of the condition variable.
LEMMA ConditionKeeps ==
  ASSUME NoThread \notin Threads, LockInv,
         [CP!Next]_<<lock, cv, at, timed, num, result, held, due, notified>>
  PROVE  CP!IInv'
<1>1. CP!NoThreadAssumption /\ CP!RolesAssumption
  BY DEF CP!NoThreadAssumption, CP!RolesAssumption
<1>2. CP!IInv /\ [CP!Next]_CP!vars
  BY DEF LockInv, CP!vars
<1>3. QED
  BY <1>1, <1>2, CP!StepKeeps

LEMMA StepsOfCondition ==
  ASSUME NEW t \in Threads
  PROVE  /\ Cond!Lock(t) => CP!Next
         /\ Cond!Unlock(t) => CP!Next
         /\ Cond!BeginWait(t, FALSE) => CP!Next
         /\ Cond!WakeUp(t, Cond!All) => CP!Next
         /\ Cond!Step(t) => CP!Next
<1>1. Cond!Lock(t) => CP!Next
  BY DEF Cond!Lock, CP!Lock, CP!Call, CP!Next, Cond!CanLock, CP!CanLock,
         Cond!Locked, CP!Locked
<1>2. Cond!Unlock(t) => CP!Next
  BY DEF Cond!Unlock, CP!Unlock, CP!Call, CP!Next, Cond!Released, CP!Released,
         Cond!Unlocked, CP!Unlocked
<1>3. Cond!BeginWait(t, FALSE) => CP!Next
  BY DEF Cond!BeginWait, CP!BeginWait, CP!Call, CP!Next, Cond!Announced, CP!Announced
<1>4. Cond!WakeUp(t, Cond!All) => CP!Next
  BY DEF Cond!WakeUp, CP!WakeUp, CP!Call, CP!Next, Cond!Accounted, CP!Accounted,
         Cond!HasWaiters, CP!HasWaiters, Cond!All, CP!All, Cond!Waiting, CP!Waiting
<1>5. Cond!Step(t) => CP!Next
  <2>1. Cond!WaitUnlock(t) => CP!WaitUnlock(t)
    BY DEF Cond!WaitUnlock, CP!WaitUnlock, Cond!Released, CP!Released,
           Cond!Unlocked, CP!Unlocked
  <2>2. Cond!Arbitrate(t) => CP!Arbitrate(t)
    BY DEF Cond!Arbitrate, CP!Arbitrate, Cond!Answered, CP!Answered, Cond!All, CP!All
  <2>3. Cond!TimeOut(t) => CP!TimeOut(t)
    BY DEF Cond!TimeOut, CP!TimeOut, Cond!Answered, CP!Answered, Cond!All, CP!All
  <2>4. Cond!EndWait(t) => CP!EndWait(t)
    BY DEF Cond!EndWait, CP!EndWait, Cond!Accounted, CP!Accounted,
           Cond!HasWaiters, CP!HasWaiters
  <2>5. Cond!Relock(t) => CP!Relock(t)
    BY DEF Cond!Relock, CP!Relock, Cond!CanLock, CP!CanLock, Cond!Locked, CP!Locked
  <2>6. Cond!Signal(t) => CP!Signal(t)
    BY DEF Cond!Signal, CP!Signal, Cond!Answered, CP!Answered, Cond!All, CP!All,
           Cond!Sleepers, CP!Sleepers, Cond!Cardinality, CP!Cardinality
  <2>7. QED
    BY <2>1, <2>2, <2>3, <2>4, <2>5, <2>6 DEF Cond!Step, CP!Step, CP!Next
<1>6. QED
  BY <1>1, <1>2, <1>3, <1>4, <1>5

\* The mutex admits one thread at a time.
LEMMA HoldingAlone ==
  ASSUME LockInv
  PROVE  EntersAlone
BY DEF LockInv, CP!IInv, CP!WordExact, EntersHolding, EntersAlone

\* The steps inside the condition move no thread that is at out.
LEMMA StepsElsewhere ==
  ASSUME LockInv, NEW t \in Threads, Cond!Step(t), UNCHANGED stage
  PROVE  EntersHolding'
<1> USE DEF LockInv, EntersHolding, CP!IInv, CP!TypeOK
<1>1. CASE Cond!WaitUnlock(t)
  BY <1>1 DEF Cond!WaitUnlock
<1>2. CASE Cond!Arbitrate(t)
  BY <1>2 DEF Cond!Arbitrate
<1>3. CASE Cond!TimeOut(t)
  BY <1>3 DEF Cond!TimeOut
<1>4. CASE Cond!EndWait(t)
  BY <1>4 DEF Cond!EndWait
<1>5. CASE Cond!Relock(t)
  BY <1>5 DEF Cond!Relock
<1>6. CASE Cond!Signal(t)
  BY <1>6 DEF Cond!Signal, Cond!Sleepers
<1>7. QED
  BY <1>1, <1>2, <1>3, <1>4, <1>5, <1>6 DEF Cond!Step

LEMMA CoreUnchanged ==
  ASSUME CountInv, UNCHANGED coreVars
  PROVE  CountInv' /\ UNCHANGED <<Gathering, Leaving>>
<1>1. UNCHANGED <<Gathering, Leaving>>
  BY DEF coreVars, Gathering, Leaving, Blocked, Passed
<1>2. QED
  BY <1>1 DEF coreVars, CountInv, CoreTypeOK, CountExact, Last, NobodyLapped, Passed, NextGroup

-----------------------------------------------------------------------------
\* The steps of one thread, with what each does to the barrier and to the lock.
LEMMA StepKeeps ==
  ASSUME NoThread \notin Threads, LockInv, CountInv, [Next]_vars
  PROVE  LockInv' /\ CountInv' /\ [A!Next]_<<Gathering, Leaving>>
<1> DEFINE cvars == <<lock, cv, at, timed, num, result, held, due, notified>>
           Goal == LockInv' /\ CountInv' /\ [A!Next]_<<Gathering, Leaving>>
<1> SUFFICES Goal
  OBVIOUS
<1>1. ASSUME NEW t \in Threads, Enter(t)
      PROVE  Goal
  <2>1. CP!IInv'
    BY <1>1, StepsOfCondition, ConditionKeeps DEF Enter
  <2>2. CountInv' /\ UNCHANGED <<Gathering, Leaving>>
    BY <1>1, EntersKeeps DEF Enter
  <2>3. EntersHolding'
    BY <1>1 DEF Enter, Enters, Cond!Lock, EntersHolding, LockInv, CP!IInv, CP!TypeOK
  <2>4. QED
    BY <2>1, <2>2, <2>3 DEF LockInv
<1>2. ASSUME NEW t \in Threads, Count(t)
      PROVE  Goal
  <2>1. CP!IInv'
    BY <1>2, StepsOfCondition, ConditionKeeps DEF Count, condVars
  <2>2. CountInv' /\ A!Arrive(t)
    BY <1>2, CountsKeeps, HoldingAlone DEF Count
  <2>3. EntersHolding'
    BY <1>2, HoldingAlone DEF Count, Counts, CountInv, CoreTypeOK, EntersHolding, EntersAlone
  <2>4. QED
    BY <2>1, <2>2, <2>3 DEF LockInv, A!Next
<1>3. ASSUME NEW t \in Threads, Wait(t)
      PROVE  Goal
  <2>1. CP!IInv'
    BY <1>3, StepsOfCondition, ConditionKeeps DEF Wait
  <2>2. EntersHolding'
    BY <1>3 DEF Wait, Blocked, coreVars, Cond!BeginWait, EntersHolding, LockInv, CP!IInv, CP!TypeOK
  <2>3. QED
    BY <1>3, <2>1, <2>2, CoreUnchanged DEF Wait, LockInv
<1>4. ASSUME NEW t \in Threads, Leave(t)
      PROVE  Goal
  <2>1. CP!IInv'
    BY <1>4, StepsOfCondition, ConditionKeeps DEF Leave
  <2>2. CountInv' /\ A!Leave(t)
    BY <1>4, LeavesKeeps DEF Leave, A!Leave
  <2>3. EntersHolding'
    BY <1>4 DEF Leave, Leaves, Passed, Cond!Unlock, EntersHolding, LockInv,
               CountInv, CoreTypeOK, CP!IInv, CP!TypeOK, CP!WordExact
  <2>4. QED
    BY <2>1, <2>2, <2>3 DEF LockInv, A!Next
<1>5. ASSUME NEW t \in Threads, Cond!Step(t), UNCHANGED coreVars
      PROVE  Goal
  <2>1. CP!IInv'
    BY <1>5, StepsOfCondition, ConditionKeeps
  <2>2. EntersHolding'
    BY <1>5, StepsElsewhere DEF coreVars
  <2>3. QED
    BY <1>5, <2>1, <2>2, CoreUnchanged DEF LockInv
<1>6. CASE UNCHANGED vars
  <2>1. CP!IInv'
    BY <1>6, ConditionKeeps DEF vars
  <2>2. QED
    BY <1>6, <2>1, CoreUnchanged DEF vars, coreVars, LockInv, EntersHolding
<1>7. QED
  BY <1>1, <1>2, <1>3, <1>4, <1>5, <1>6 DEF Next, Inside

LEMMA InitKeeps ==
  ASSUME NoThread \notin Threads, Init
  PROVE  LockInv /\ CountInv /\ A!Init
<1>1. CP!IInv
  <2>1. CP!NoThreadAssumption /\ CP!RolesAssumption
    BY DEF CP!NoThreadAssumption, CP!RolesAssumption
  <2>2. CP!Init
    BY DEF Init, Cond!Init, CP!Init, Cond!Unlocked, CP!Unlocked
  <2>3. QED
    BY <2>1, <2>2, CP!InitKeeps
<1>2. Gathering = {} /\ Leaving = {}
  BY MembersOf DEF Init, CoreInit
<1>3. CoreTypeOK /\ EntersHolding
  BY BarrierAssumption DEF BarrierAssumption, Init, CoreInit, CoreTypeOK, EntersHolding
<1>4. CountInv
  BY <1>2, <1>3, FS_EmptySet, BarrierAssumption
     DEF BarrierAssumption, CountInv, CountExact, Init, CoreInit
<1>5. QED
  BY <1>1, <1>2, <1>3, <1>4 DEF LockInv, A!Init

\* m_count is exact, and threads cross in full groups only, over the condition
\* variable of Horizon.
THEOREM CrossesInGroups ==
  ASSUME NoThread \notin Threads
  PROVE  Spec => []CountExact /\ TravelInGroups
<1>1. LockInv /\ CountInv => CountExact
  BY DEF CountInv
<1>2. QED
  BY <1>1, InitKeeps, StepKeeps, PTL DEF Spec, TravelInGroups, A!Spec
-----------------------------------------------------------------------------
(***************************************************************************)
(* The barrier over the monitor of the documentation.                      *)
(***************************************************************************)
LEMMA SameCore ==
  /\ B!CoreInit <=> CoreInit
  /\ B!Last <=> Last
  /\ \A t \in Threads : /\ B!Enters(t) <=> Enters(t)
                        /\ B!Counts(t) <=> Counts(t)
                        /\ B!Leaves(t) <=> Leaves(t)
                        /\ B!Blocked(t) <=> Blocked(t)
<1> USE DEF B!Last, Last, B!NextGroup, NextGroup, B!Passed, Passed
<1>1. B!CoreInit <=> CoreInit
  BY DEF B!CoreInit, CoreInit
<1>2. ASSUME NEW t \in Threads
      PROVE  /\ B!Enters(t) <=> Enters(t)
             /\ B!Counts(t) <=> Counts(t)
             /\ B!Leaves(t) <=> Leaves(t)
             /\ B!Blocked(t) <=> Blocked(t)
  BY DEF B!Enters, Enters, B!NobodyLapped, NobodyLapped, B!Counts, Counts,
         B!Leaves, Leaves, B!Blocked, Blocked
<1>3. QED
  BY <1>1, <1>2

LEMMA MonitorStepKeeps ==
  ASSUME NoThread \notin Threads, MonitorInv, [B!Next]_B!vars
  PROVE  MonitorInv' /\ [A!Next]_<<Gathering, Leaving>>
<1> DEFINE Goal == MonitorInv' /\ [A!Next]_<<Gathering, Leaving>>
<1>1. /\ CountInv /\ CoreTypeOK /\ NobodyLeftBehind
      /\ place \in [Threads -> {"out", "waiting", "released"}]
      /\ \A t \in Threads : stage[t] = "enter" => owner = t /\ place[t] = "out"
  BY DEF MonitorInv, CountInv
<1>2. EntersAlone
  BY <1>1 DEF EntersAlone
<1>3. ASSUME NEW t \in Threads, B!Enter(t)
      PROVE  Goal
  <2>1. /\ stage[t] = "out" /\ stage' = [stage EXCEPT ![t] = "enter"]
        /\ UNCHANGED <<m_group, group, place>>
        /\ owner = NoThread /\ owner' = t /\ place[t] = "out"
    BY <1>3, SameCore DEF B!Enter, Enters, B!Mon!Enter
  <2>2. CountInv' /\ UNCHANGED <<Gathering, Leaving>>
    BY <1>1, <1>3, SameCore, EntersKeeps DEF B!Enter
  <2>3. \A u \in Threads : stage'[u] = "enter" => owner' = u /\ place'[u] = "out"
    BY <1>1, <2>1 DEF CoreTypeOK
  <2>4. NobodyLeftBehind'
    BY <1>1, <2>1 DEF CoreTypeOK, NobodyLeftBehind, Blocked
  <2>5. QED
    BY <1>1, <2>1, <2>2, <2>3, <2>4 DEF MonitorInv
\* Whoever completes a group tells everyone who has waited for it.
<1>4. ASSUME NEW t \in Threads, B!Count(t)
      PROVE  Goal
  <2>1. Counts(t) /\ owner' = owner /\ owner = t
    BY <1>4, SameCore DEF B!Count, B!Mon!NotifyAll
  <2>2. CountInv' /\ A!Arrive(t)
    BY <1>1, <1>2, <2>1, CountsKeeps
  <2>3. /\ stage[t] = "enter" /\ place[t] = "out"
        /\ stage'[t] = "loop" /\ \A u \in Threads \ {t} : stage'[u] = stage[u]
        /\ \A u \in Threads \ {t} : group'[u] = group[u]
    BY <1>1, <2>1 DEF Counts, CoreTypeOK
  <2>4. \A u \in Threads : stage'[u] # "enter"
    BY <1>2, <2>3 DEF EntersAlone
  <2>5. CASE Last
    <3>1. place' = [u \in Threads |-> IF u \in B!Mon!Waiting THEN "released" ELSE place[u]]
      BY <1>4, <2>5, SameCore DEF B!Count, B!Mon!NotifyAll, B!Mon!Release
    <3>2. /\ place' \in [Threads -> {"out", "waiting", "released"}]
          /\ \A u \in Threads : place'[u] # "waiting"
      BY <1>1, <3>1 DEF B!Mon!Waiting
    <3>3. QED
      BY <2>2, <2>4, <3>2 DEF MonitorInv, NobodyLeftBehind, A!Next
  <2>6. CASE ~Last
    <3>1. place' = place /\ m_group' = m_group
      BY <1>4, <2>1, <2>6, SameCore DEF B!Count, Counts
    <3>2. NobodyLeftBehind'
      BY <1>1, <2>3, <3>1 DEF NobodyLeftBehind, Blocked
    <3>3. QED
      BY <1>1, <2>2, <2>4, <3>1, <3>2 DEF MonitorInv, A!Next
  <2>7. QED
    BY <2>5, <2>6
<1>5. ASSUME NEW t \in Threads, B!Wait(t)
      PROVE  Goal
  <2>1. /\ Blocked(t) /\ UNCHANGED coreVars /\ owner = t
        /\ place' = [place EXCEPT ![t] = "waiting"]
    BY <1>5, SameCore DEF B!Wait, B!Mon!Wait, B!coreVars, coreVars
  <2>2. CountInv' /\ UNCHANGED <<Gathering, Leaving>>
    BY <1>1, <2>1, CoreUnchanged
  <2>3. \A u \in Threads : stage[u] # "enter"
    BY <1>1, <2>1 DEF Blocked
  <2>4. NobodyLeftBehind'
    BY <1>1, <2>1 DEF NobodyLeftBehind, Blocked, coreVars
  <2>5. QED
    BY <1>1, <2>1, <2>2, <2>3, <2>4 DEF MonitorInv, coreVars
<1>6. ASSUME NEW t \in Threads, B!Reenter(t)
      PROVE  Goal
  <2>1. /\ UNCHANGED coreVars /\ owner = NoThread
        /\ place' = [place EXCEPT ![t] = "out"]
    BY <1>6, SameCore DEF B!Reenter, B!Mon!Reenter, B!coreVars, coreVars
  <2>2. CountInv' /\ UNCHANGED <<Gathering, Leaving>>
    BY <1>1, <2>1, CoreUnchanged
  <2>3. \A u \in Threads : stage[u] # "enter"
    BY <1>1, <2>1
  <2>4. NobodyLeftBehind'
    BY <1>1, <2>1 DEF NobodyLeftBehind, Blocked, coreVars
  <2>5. QED
    BY <1>1, <2>1, <2>2, <2>3, <2>4 DEF MonitorInv, coreVars
<1>7. ASSUME NEW t \in Threads, B!Leave(t)
      PROVE  Goal
  <2>1. Leaves(t) /\ owner = t /\ place' = place
    BY <1>7, SameCore DEF B!Leave, B!Mon!Exit
  <2>2. CountInv' /\ A!Leave(t)
    BY <1>1, <2>1, LeavesKeeps DEF A!Leave
  <2>3. /\ stage[t] = "loop" /\ group[t] # m_group /\ stage'[t] = "out"
        /\ \A u \in Threads \ {t} : stage'[u] = stage[u]
        /\ UNCHANGED <<m_group, group>>
    BY <1>1, <2>1 DEF Leaves, Passed, CoreTypeOK
  <2>4. \A u \in Threads : stage'[u] # "enter"
    BY <1>1, <2>1, <2>3
  <2>5. NobodyLeftBehind'
    BY <1>1, <2>1, <2>3 DEF NobodyLeftBehind, Blocked
  <2>6. QED
    BY <1>1, <2>1, <2>2, <2>4, <2>5 DEF MonitorInv, A!Next
<1>8. CASE UNCHANGED B!vars
  <2>1. UNCHANGED <<coreVars, owner, place>>
    BY <1>8 DEF B!vars, coreVars
  <2>2. CountInv' /\ UNCHANGED <<Gathering, Leaving>>
    BY <1>1, <2>1, CoreUnchanged
  <2>3. QED
    BY <1>1, <2>1, <2>2 DEF MonitorInv, NobodyLeftBehind, Blocked, coreVars
<1>9. QED
  BY <1>3, <1>4, <1>5, <1>6, <1>7, <1>8 DEF B!Next, B!Inside

LEMMA MonitorInitKeeps ==
  ASSUME B!Init
  PROVE  MonitorInv /\ A!Init
<1>1. /\ CoreInit /\ place = [t \in Threads |-> "out"]
      /\ \A t \in Threads : stage[t] = "out"
  BY SameCore DEF B!Init, B!Mon!Init, CoreInit
<1>2. Gathering = {} /\ Leaving = {}
  BY <1>1, MembersOf
<1>3. CoreTypeOK
  BY <1>1, BarrierAssumption DEF BarrierAssumption, CoreInit, CoreTypeOK
<1>4. CountInv
  BY <1>1, <1>2, <1>3, FS_EmptySet, BarrierAssumption
     DEF BarrierAssumption, CountInv, CountExact, CoreInit
<1>5. QED
  BY <1>1, <1>2, <1>4 DEF MonitorInv, NobodyLeftBehind, A!Init

\* Over the documented monitor the barrier keeps the same promise, and nobody
\* is asleep whose group is full: what is lost on Horizon is lost by the
\* condition, not by the barrier.
THEOREM CrossesOnMonitor ==
  ASSUME NoThread \notin Threads
  PROVE  B!Spec => [](CountExact /\ NobodyLeftBehind) /\ TravelInGroups
<1>1. MonitorInv => CountExact /\ NobodyLeftBehind
  BY DEF MonitorInv, CountInv
<1>2. QED
  BY <1>1, MonitorInitKeeps, MonitorStepKeeps, PTL DEF B!Spec, TravelInGroups, A!Spec
=============================================================================
