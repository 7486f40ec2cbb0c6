-------------------------- MODULE Condition_proofs --------------------------
(***************************************************************************)
(* The Horizon condition variable.  For any threads, roles and depth of    *)
(* nesting the mutex is held exactly as often, and by whom, its clients    *)
(* have locked it, through all waits; for any finite program the int stays *)
(* in a range, however long it runs.  For one waiter at a time the int     *)
(* counts every sleeper, and if notifiers hold the mutex every             *)
(* notification reaches the waiter and the whole is a Mesa monitor.        *)
(***************************************************************************)
EXTENDS Condition, CountingLemmas

\* The lock word is what the threads' calls make of it.
WordExact ==
  \/ lock = Unlocked /\ \A t \in Threads : held[t] = 0
  \/ \E t \in Threads :
       /\ held[t] > 0 /\ lock = [tag |-> t, counter |-> held[t]]
       /\ \A u \in Threads \ {t} : held[u] = 0

\* A thread that is about to unlock in wait has the mutex, and one that is to
\* take it again has given up a level, so that there is room for it.
PlacesHold ==
  \A t \in Threads :
    /\ at[t] = "unlock" => held[t] > 0
    /\ at[t] \in {"arbitrate", "asleep", "endWait", "relock"} => held[t] < MaxDepth

IInv == TypeOK /\ WordExact /\ PlacesHold

\* The two ways the lock word changes.
LEMMA LockKeepsWord ==
  ASSUME TypeOK, WordExact, NEW t \in Threads, CanLock(lock, t),
         lock' = Locked(lock, t), held' = [held EXCEPT ![t] = @ + 1], held[t] < MaxDepth
  PROVE  WordExact' /\ lock' \in Locks /\ held' \in [Threads -> 0 .. MaxDepth]
<1> USE NoThreadAssumption, RolesAssumption
    DEF NoThreadAssumption, RolesAssumption, Locks, Unlocked, CanLock, Locked
<1>1. held \in [Threads -> 0 .. MaxDepth] /\ MaxDepth \in Nat
  BY DEF TypeOK
<1>2. lock = [tag |-> lock.tag, counter |-> held[t]] /\ \A u \in Threads \ {t} : held[u] = 0
  BY DEF WordExact
<1>3. lock' = [tag |-> t, counter |-> held[t] + 1]
  BY <1>2
<1>4. held' \in [Threads -> 0 .. MaxDepth] /\ held'[t] = held[t] + 1
      /\ \A u \in Threads \ {t} : held'[u] = 0
  BY <1>1, <1>2
<1>5. QED
  BY <1>1, <1>3, <1>4, SMTT(20) DEF WordExact

LEMMA ReleaseKeepsWord ==
  ASSUME TypeOK, WordExact, NEW t \in Threads, held[t] > 0,
         lock' = Released(lock), held' = [held EXCEPT ![t] = @ - 1]
  PROVE  WordExact' /\ lock' \in Locks /\ held' \in [Threads -> 0 .. MaxDepth]
<1> USE NoThreadAssumption, RolesAssumption
    DEF NoThreadAssumption, RolesAssumption, Locks, Unlocked, Released
<1>1. held \in [Threads -> 0 .. MaxDepth] /\ MaxDepth \in Nat
  BY DEF TypeOK
<1>2. lock = [tag |-> t, counter |-> held[t]] /\ \A u \in Threads \ {t} : held[u] = 0
  BY DEF WordExact
<1>3. held' \in [Threads -> 0 .. MaxDepth] /\ held'[t] = held[t] - 1
      /\ \A u \in Threads \ {t} : held'[u] = 0
  BY <1>1, <1>2
<1>4. CASE held[t] > 1
  <2>1. lock' = [tag |-> t, counter |-> held[t] - 1]
    BY <1>2, <1>4
  <2>2. held'[t] > 0 /\ lock' = [tag |-> t, counter |-> held'[t]]
    <3>1. held'[t] = held[t] - 1 /\ held[t] \in Nat
      BY <1>1, <1>3
    <3>2. QED
      BY <1>4, <2>1, <3>1
  <2>3. held[t] - 1 \in Nat /\ lock' \in Locks
    BY <1>1, <1>4, <2>1
  <2>4. QED
    BY <1>3, <2>2, <2>3 DEF WordExact
<1>5. CASE held[t] = 1
  <2>1. lock' = Unlocked
    BY <1>2, <1>5
  <2>2. \A u \in Threads : held'[u] = 0
    BY <1>3, <1>5
  <2>3. Unlocked \in Locks
    OBVIOUS
  <2> HIDE DEF Unlocked
  <2>4. QED
    BY <1>3, <2>1, <2>2, <2>3 DEF WordExact
<1>6. QED
  BY <1>1, <1>4, <1>5

\* Whatever W is, the history it leaves is one.
LEMMA AnsweredTyped ==
  ASSUME TypeOK, NEW W
  PROVE  Answered(W) \in [Threads -> SUBSET Threads]
BY DEF TypeOK, Answered

LEMMA StepKeeps ==
  ASSUME IInv, [Next]_vars
  PROVE  IInv'
<1> USE RolesAssumption DEF RolesAssumption, IInv, Places
<1>1. ASSUME NEW t \in Threads, Lock(t)
      PROVE  IInv'
  BY <1>1, LockKeepsWord DEF Lock, TypeOK, PlacesHold
<1>2. ASSUME NEW t \in Threads, Unlock(t)
      PROVE  IInv'
  BY <1>2, ReleaseKeepsWord DEF Unlock, TypeOK, PlacesHold
<1>3. ASSUME NEW t \in Threads, NEW hasTimeout \in BOOLEAN, BeginWait(t, hasTimeout)
      PROVE  IInv'
  BY <1>3 DEF BeginWait, Announced, TypeOK, PlacesHold, WordExact
<1>4. ASSUME NEW t \in Threads, WaitUnlock(t)
      PROVE  IInv'
  <2>1. held[t] > 0
    BY <1>4 DEF WaitUnlock, PlacesHold
  <2>2. WordExact' /\ lock' \in Locks /\ held' \in [Threads -> 0 .. MaxDepth]
    BY <1>4, <2>1, ReleaseKeepsWord DEF WaitUnlock
  <2>3. held'[t] < MaxDepth /\ \A u \in Threads \ {t} : held'[u] = held[u]
    BY <1>4, <2>1 DEF WaitUnlock, TypeOK
  <2>4. PlacesHold'
    BY <1>4, <2>3 DEF WaitUnlock, TypeOK, PlacesHold
  <2>5. QED
    BY <1>4, <2>2, <2>4 DEF WaitUnlock, TypeOK
<1>5. ASSUME NEW t \in Threads, Arbitrate(t)
      PROVE  IInv'
  <2>1. due' \in [Threads -> SUBSET Threads]
    BY <1>5, AnsweredTyped DEF Arbitrate, TypeOK
  <2>2. QED
    <3>1. /\ UNCHANGED <<lock, cv, timed, num, result, held, notified>>
          /\ at[t] = "arbitrate" /\ at' \in [Threads -> Places]
          /\ \A u \in Threads : at'[u] = at[u] \/ (u = t /\ at'[u] \in {"asleep", "relock"})
      BY <1>5 DEF Arbitrate, TypeOK
    <3>2. QED
      BY <2>1, <3>1 DEF TypeOK, PlacesHold, WordExact
<1>6. ASSUME NEW t \in Threads, TimeOut(t)
      PROVE  IInv'
  <2>1. due' \in [Threads -> SUBSET Threads]
    BY <1>6, AnsweredTyped DEF TimeOut, TypeOK
  <2>2. QED
    BY <1>6, <2>1 DEF TimeOut, TypeOK, PlacesHold, WordExact
<1>7. ASSUME NEW t \in Threads, EndWait(t)
      PROVE  IInv'
  <2>1. cv' \in Int
    BY <1>7 DEF EndWait, Accounted, HasWaiters, TypeOK
  <2>2. result' \in [Threads -> BOOLEAN]
    BY <1>7 DEF EndWait, HasWaiters, TypeOK
  <2>3. QED
    BY <1>7, <2>1, <2>2 DEF EndWait, TypeOK, PlacesHold, WordExact
<1>8. ASSUME NEW t \in Threads, Relock(t)
      PROVE  IInv'
  <2>1. held[t] < MaxDepth
    BY <1>8 DEF Relock, PlacesHold
  <2>2. QED
    BY <1>8, <2>1, LockKeepsWord DEF Relock, TypeOK, PlacesHold
<1>9. ASSUME NEW t \in Threads, NEW n \in {1, All}, WakeUp(t, n)
      PROVE  IInv'
  <2>1. cv' \in Int
    BY <1>9 DEF WakeUp, Accounted, HasWaiters, TypeOK, All
  <2>2. due' \in [Threads -> SUBSET Threads]
    BY <1>9 DEF WakeUp, Waiting, TypeOK
  <2>3. notified' \in [Threads -> BOOLEAN]
    BY <1>9 DEF WakeUp, Waiting, TypeOK
  <2>4. /\ at' \in [Threads -> Places] /\ num' \in [Threads -> {1, All}]
        /\ \A u \in Threads : at'[u] # "signal" => at'[u] = at[u]
    BY <1>9 DEF WakeUp, TypeOK
  <2>5. UNCHANGED <<lock, timed, result, held>>
    BY <1>9 DEF WakeUp
  <2>6. QED
    BY <2>1, <2>2, <2>3, <2>4, <2>5 DEF TypeOK, PlacesHold, WordExact
<1>10. ASSUME NEW t \in Threads, Signal(t)
       PROVE  IInv'
  <2>1. PICK W \in SUBSET Sleepers :
          /\ at' = [u \in Threads |-> IF u = t THEN "out"
                                      ELSE IF u \in W THEN "relock" ELSE at[u]]
          /\ due' = Answered(W)
    BY <1>10 DEF Signal
  <2>2. due' \in [Threads -> SUBSET Threads]
    BY <2>1, AnsweredTyped
  <2>3. UNCHANGED <<lock, cv, timed, num, result, held, notified>>
    BY <1>10 DEF Signal
  <2>4. QED
    BY <2>1, <2>2, <2>3 DEF TypeOK, PlacesHold, WordExact, Sleepers
<1>11. CASE UNCHANGED vars
  BY <1>11 DEF vars, TypeOK, PlacesHold, WordExact
<1>12. QED
  BY <1>1, <1>2, <1>3, <1>4, <1>5, <1>6, <1>7, <1>8, <1>9, <1>10, <1>11
     DEF Next, Call, Step

LEMMA InitKeeps == Init => IInv
<1> SUFFICES ASSUME Init PROVE IInv
  OBVIOUS
<1>1. TypeOK
  BY RolesAssumption
     DEF RolesAssumption, Init, TypeOK, Places, Locks, Unlocked, All
<1>2. QED
  BY <1>1 DEF Init, IInv, WordExact, PlacesHold

\* Whoever has locked the mutex, through however many waits, is the one the
\* lock word names, with the right depth.
THEOREM HeldByItsTag == Spec => [](TypeOK /\ HeldByTag)
<1>1. IInv => TypeOK /\ HeldByTag
  BY DEF IInv, WordExact, HeldByTag, Unlocked
<1>2. QED
  BY <1>1, InitKeeps, StepKeeps, PTL DEF Spec
-----------------------------------------------------------------------------
(***************************************************************************)
(* The int stays in range.  A wake-up that is between its two halves, and  *)
(* has accounted for waits the kernel then finds to be others, leaves a    *)
(* surplus: at most one wait for notify, one of each waiter for notifyAll. *)
(***************************************************************************)
InWait == {"unlock", "arbitrate", "asleep", "endWait"}

Counted == {t \in Threads : at[t] \in InWait}
Ones == {n \in Threads : at[n] = "signal" /\ num[n] = 1}
Alls == {n \in Threads : at[n] = "signal" /\ num[n] # 1}

RolesKept ==
  \A t \in Threads :
    /\ at[t] \in InWait => t \in Waiters
    /\ at[t] = "signal" => t \in Notifiers

\* What is counted, and what wake-ups on their way may leave behind, against
\* the waits in progress and what as many notifiers as there are may leave.
Within(val, ones, alls, counted) ==
  /\ val <= 0
  /\ -val + ones + Cardinality(Waiters) * alls
       <= counted + Cardinality(Waiters) * Cardinality(Notifiers)
SurplusBounded == Within(cv, Cardinality(Ones), Cardinality(Alls), Cardinality(Counted))

RangeInv == IInv /\ RolesKept /\ SurplusBounded

LEMMA FiniteRoles ==
  ASSUME IsFiniteSet(Threads)
  PROVE  /\ Cardinality(Waiters) \in Nat /\ Cardinality(Notifiers) \in Nat
         /\ IsFiniteSet(Waiters) /\ IsFiniteSet(Notifiers)
         /\ IsFiniteSet(Ones) /\ IsFiniteSet(Alls) /\ IsFiniteSet(Counted)
         /\ Cardinality(Ones) \in Nat /\ Cardinality(Alls) \in Nat
         /\ Cardinality(Counted) \in Nat
<1>1. /\ IsFiniteSet(Waiters) /\ IsFiniteSet(Notifiers)
      /\ IsFiniteSet(Ones) /\ IsFiniteSet(Alls) /\ IsFiniteSet(Counted)
  BY FS_Subset, RolesAssumption DEF RolesAssumption, Ones, Alls, Counted
<1>2. QED
  BY <1>1, FS_CardinalityType

LEMMA RolesStay ==
  ASSUME IInv, RolesKept, [Next]_vars
  PROVE  RolesKept'
<1> USE DEF IInv, TypeOK, RolesKept, InWait
<1>1. ASSUME NEW t \in Threads, Call(t)
      PROVE  RolesKept'
  BY <1>1 DEF Call, Lock, Unlock, BeginWait, WakeUp
<1>2. ASSUME NEW t \in Threads, Signal(t)
      PROVE  RolesKept'
  BY <1>2 DEF Signal
<1>3. ASSUME NEW t \in Threads, Step(t), ~Signal(t)
      PROVE  RolesKept'
  BY <1>3 DEF Step, WaitUnlock, Arbitrate, TimeOut, EndWait, Relock
<1>4. CASE UNCHANGED vars
  BY <1>4 DEF vars
<1>5. QED
  BY <1>1, <1>2, <1>3, <1>4 DEF Next

\* Once the int is zero there is no surplus yet, whoever is on the way.
LEMMA NoSurplus ==
  ASSUME IsFiniteSet(Threads), Waiters # {}, NEW ones, NEW alls, NEW counted \in Nat,
         ones \subseteq Notifiers, alls \subseteq Notifiers, ones \cap alls = {}
  PROVE  Within(0, Cardinality(ones), Cardinality(alls), counted)
<1> DEFINE w == Cardinality(Waiters)
           n == Cardinality(Notifiers)
           o == Cardinality(ones)
           a == Cardinality(alls)
<1>1. IsFiniteSet(Notifiers) /\ IsFiniteSet(ones) /\ IsFiniteSet(alls) /\ w \in Nat /\ n \in Nat
  BY FiniteRoles, FS_Subset
<1>2. o \in Nat /\ a \in Nat
  BY <1>1, FS_CardinalityType
<1>3. w # 0
  BY FiniteRoles, FS_EmptySet
<1>4. o + a <= n
  <2>1. IsFiniteSet(ones \cap alls) /\ Cardinality(ones \cap alls) = 0
    BY FS_EmptySet
  <2>2. Cardinality(ones \cup alls) = o + a - Cardinality(ones \cap alls)
    BY <1>1, FS_Union
  <2>3. ones \cup alls \subseteq Notifiers
    OBVIOUS
  <2>4. Cardinality(ones \cup alls) <= n
    BY <1>1, <2>3, FS_Subset
  <2>5. QED
    BY <1>1, <1>2, <2>1, <2>2, <2>4
<1>5. o + w * a <= w * n
  <2> HIDE DEF w, n, o, a
  <2>1. PICK d \in Nat : n = (o + a) + d
    <3>1. n - (o + a) \in Nat /\ n = (o + a) + (n - (o + a))
      BY <1>1, <1>2, <1>4
    <3>2. QED
      BY <3>1
  <2>2. PICK e \in Nat : w = e + 1
    <3>1. w - 1 \in Nat /\ w = (w - 1) + 1
      BY <1>1, <1>3
    <3>2. QED
      BY <3>1
  <2>3. w * n = (o + w * a) + (e * o + w * d)
    BY <1>2, <2>1, <2>2
  <2>4. e * o \in Nat /\ w * d \in Nat /\ w * a \in Nat
    BY <1>1, <1>2, <2>1, <2>2
  <2>5. QED
    BY <1>2, <2>3, <2>4
<1>6. QED
  <2>1. w * n \in Nat /\ w * a \in Nat
    BY <1>1, <1>2
  <2>2. QED
    BY <1>2, <1>5, <2>1 DEF Within

\* A step that leaves everybody where they are, as far as the surplus goes.
LEMMA NobodyMoves ==
  ASSUME NEW t \in Threads, TypeOK, UNCHANGED <<cv, num>>, SurplusBounded,
         at' = [at EXCEPT ![t] = at'[t]],
         at[t] \in InWait <=> at'[t] \in InWait,
         at[t] = "signal" <=> at'[t] = "signal"
  PROVE  SurplusBounded'
<1>1. Counted' = Counted /\ Ones' = Ones /\ Alls' = Alls
  BY DEF TypeOK, Counted, Ones, Alls
<1>2. QED
  BY <1>1 DEF SurplusBounded

LEMMA SurplusStays ==
  ASSUME IsFiniteSet(Threads), RangeInv, RolesKept', [Next]_vars
  PROVE  SurplusBounded'
<1> DEFINE w == Cardinality(Waiters)
           c == w * Cardinality(Notifiers)
<1>1. TypeOK /\ RolesKept /\ SurplusBounded /\ cv \in Int
  BY DEF RangeInv, IInv, TypeOK
<1>2. /\ w \in Nat /\ Cardinality(Notifiers) \in Nat /\ c \in Nat
      /\ Cardinality(Ones) \in Nat /\ Cardinality(Alls) \in Nat /\ Cardinality(Counted) \in Nat
      /\ IsFiniteSet(Ones) /\ IsFiniteSet(Alls) /\ IsFiniteSet(Counted)
      /\ IsFiniteSet(Ones') /\ IsFiniteSet(Alls') /\ IsFiniteSet(Counted')
      /\ Cardinality(Ones') \in Nat /\ Cardinality(Alls') \in Nat /\ Cardinality(Counted') \in Nat
  <2>1. IsFiniteSet(Ones') /\ IsFiniteSet(Alls') /\ IsFiniteSet(Counted')
    BY FS_Subset DEF Ones, Alls, Counted
  <2>2. QED
    BY <2>1, FiniteRoles, FS_CardinalityType
<1>3. /\ cv <= 0
      /\ -cv + Cardinality(Ones) + w * Cardinality(Alls) <= Cardinality(Counted) + c
  BY <1>1 DEF SurplusBounded, Within
<1>4. cv' = 0 /\ Waiters # {} => SurplusBounded'
  <2>1. /\ Ones' \subseteq Notifiers /\ Alls' \subseteq Notifiers /\ Ones' \cap Alls' = {}
    BY DEF RolesKept, Ones, Alls
  <2>2. Waiters # {} =>
          Within(0, Cardinality(Ones'), Cardinality(Alls'), Cardinality(Counted'))
    BY <1>2, <2>1, NoSurplus
  <2>3. QED
    BY <2>2 DEF SurplusBounded, Within
\* With nobody to wait the int has never left zero.
<1>5. cv < 0 => Waiters # {}
  <2>1. Waiters = {} => Cardinality(Counted) = 0 /\ w = 0
    <3>1. Waiters = {} => Counted = {}
      BY <1>1 DEF RolesKept, Counted
    <3>2. QED
      BY <3>1, FS_EmptySet
  <2>2. w = 0 => c = 0 /\ w * Cardinality(Alls) = 0
    BY <1>2
  <2>3. QED
    BY <1>1, <1>2, <1>3, <2>1, <2>2
\* The int and the counts move together.
<1>6. ASSUME cv' \in Int, cv' <= 0, Cardinality(Alls') = Cardinality(Alls),
             -cv' + Cardinality(Ones') - Cardinality(Counted')
               <= -cv + Cardinality(Ones) - Cardinality(Counted)
      PROVE  SurplusBounded'
  <2>1. w * Cardinality(Alls) \in Nat
    BY <1>2
  <2> HIDE DEF c
  <2>2. -cv' + Cardinality(Ones') + w * Cardinality(Alls) <= Cardinality(Counted') + c
    BY <1>1, <1>2, <1>3, <1>6, <2>1
  <2>3. QED
    BY <1>6, <2>2 DEF SurplusBounded, Within, c
<1>7. ASSUME NEW t \in Threads, Lock(t) \/ Unlock(t)
      PROVE  SurplusBounded'
  BY <1>1, <1>7 DEF Lock, Unlock, SurplusBounded, Counted, Ones, Alls
<1>8. ASSUME NEW t \in Threads, NEW hasTimeout \in BOOLEAN, BeginWait(t, hasTimeout)
      PROVE  SurplusBounded'
  <2>1. cv' = cv - 1 /\ Ones' = Ones /\ Alls' = Alls
    BY <1>1, <1>8 DEF BeginWait, Announced, TypeOK, Ones, Alls
  <2>2. Counted' = Counted \cup {t} /\ t \notin Counted
    BY <1>1, <1>8 DEF BeginWait, TypeOK, Counted, InWait
  <2>3. Cardinality(Counted') = Cardinality(Counted) + 1
    BY <1>2, <2>2, FS_AddElement
  <2>4. QED
    BY <1>1, <1>2, <1>3, <1>6, <2>1, <2>3
<1>9. ASSUME NEW t \in Threads, WaitUnlock(t) \/ TimeOut(t) \/ Relock(t)
      PROVE  SurplusBounded'
  BY <1>1, <1>9, NobodyMoves DEF WaitUnlock, TimeOut, Relock, TypeOK, InWait
<1>10. ASSUME NEW t \in Threads, Arbitrate(t)
       PROVE  SurplusBounded'
  <2>1. CASE cv < 0
    BY <1>1, <1>10, <2>1, NobodyMoves DEF Arbitrate, TypeOK, InWait
  <2>2. CASE cv = 0
    <3>1. cv' = 0 /\ Waiters # {}
      BY <1>1, <1>10, <2>2 DEF Arbitrate, RolesKept, InWait
    <3>2. QED
      BY <1>4, <3>1
  <2>3. QED
    BY <1>1, <1>3, <2>1, <2>2
<1>11. ASSUME NEW t \in Threads, EndWait(t)
       PROVE  SurplusBounded'
  <2>1. CASE cv = 0
    <3>1. cv' = 0 /\ Waiters # {}
      BY <1>1, <1>11, <2>1 DEF EndWait, Accounted, HasWaiters, RolesKept, InWait
    <3>2. QED
      BY <1>4, <3>1
  <2>2. CASE cv < 0
    <3>1. cv' = cv + 1 /\ Ones' = Ones /\ Alls' = Alls
      BY <1>1, <1>11, <2>2 DEF EndWait, Accounted, HasWaiters, TypeOK, Ones, Alls
    <3>2. Counted' = Counted \ {t} /\ t \in Counted
      BY <1>1, <1>11 DEF EndWait, TypeOK, Counted, InWait
    <3>3. Cardinality(Counted') = Cardinality(Counted) - 1
      BY <1>2, <3>2, FS_RemoveElement
    <3>4. QED
      BY <1>1, <1>2, <1>6, <2>2, <3>1, <3>3
  <2>3. QED
    BY <1>1, <1>3, <2>1, <2>2
<1>12. ASSUME NEW t \in Threads, NEW n \in {1, All}, WakeUp(t, n)
       PROVE  SurplusBounded'
  <2>1. Counted' = Counted
    BY <1>1, <1>12 DEF WakeUp, TypeOK, Counted, InWait
  <2>2. CASE cv = 0
    <3>1. cv' = 0 /\ Ones' = Ones /\ Alls' = Alls
      BY <1>1, <1>12, <2>2 DEF WakeUp, Accounted, HasWaiters, TypeOK, Ones, Alls
    <3>2. QED
      BY <1>1, <2>1, <2>2, <3>1 DEF SurplusBounded
  <2>3. CASE cv < 0 /\ n = 1
    <3>1. cv' = cv + 1 /\ Alls' = Alls
      BY <1>1, <1>12, <2>3 DEF WakeUp, Accounted, HasWaiters, TypeOK, Alls
    <3>2. Ones' = Ones \cup {t} /\ t \notin Ones
      BY <1>1, <1>12, <2>3 DEF WakeUp, HasWaiters, TypeOK, Ones
    <3>3. Cardinality(Ones') = Cardinality(Ones) + 1
      BY <1>2, <3>2, FS_AddElement
    <3>4. QED
      BY <1>1, <1>2, <1>6, <2>1, <2>3, <3>1, <3>3
  <2>4. CASE cv < 0 /\ n = All
    <3>1. cv' = 0
      BY <1>1, <1>12, <2>4 DEF WakeUp, Accounted, HasWaiters, All
    <3>2. QED
      BY <1>4, <1>5, <2>4, <3>1
  <2>5. QED
    BY <1>1, <1>3, <2>2, <2>3, <2>4
<1>13. ASSUME NEW t \in Threads, Signal(t)
       PROVE  SurplusBounded'
  <2>1. PICK W \in SUBSET Sleepers :
          /\ num[t] # All => Cardinality(W) <= 1
          /\ at' = [u \in Threads |-> IF u = t THEN "out"
                                      ELSE IF u \in W THEN "relock" ELSE at[u]]
    BY <1>13 DEF Signal
  <2>2. at[t] = "signal" /\ cv' = cv /\ num' = num
    BY <1>13 DEF Signal
  <2>3. W \subseteq Counted /\ Counted' = Counted \ W
    BY <2>1, <2>2 DEF Sleepers, Counted, InWait
  <2>4. IsFiniteSet(W) /\ Cardinality(W) \in Nat
        /\ Cardinality(Counted') = Cardinality(Counted) - Cardinality(W)
    <3>1. IsFiniteSet(W)
      BY <1>2, <2>3, FS_Subset
    <3>2. Counted \cap W = W
      BY <2>3
    <3>3. Cardinality(Counted \ W) = Cardinality(Counted) - Cardinality(Counted \cap W)
      BY <1>2, FS_Difference
    <3>4. QED
      BY <2>3, <3>1, <3>2, <3>3, FS_CardinalityType
  <2>5. CASE num[t] = 1
    <3>1. Alls' = Alls /\ Ones' = Ones \ {t} /\ t \in Ones
      BY <2>1, <2>2, <2>5 DEF Ones, Alls, Sleepers
    <3>2. Cardinality(Ones') = Cardinality(Ones) - 1
      BY <1>2, <3>1, FS_RemoveElement
    <3>3. Cardinality(W) <= 1
      BY <2>1, <2>5 DEF All
    <3>4. QED
      BY <1>1, <1>2, <1>3, <1>6, <2>2, <2>4, <3>1, <3>2, <3>3
  <2>6. CASE num[t] # 1
    <3>1. Ones' = Ones /\ Alls' = Alls \ {t} /\ t \in Alls
      BY <2>1, <2>2, <2>6 DEF Ones, Alls, Sleepers
    <3>2. Cardinality(Alls') = Cardinality(Alls) - 1
      BY <1>2, <3>1, FS_RemoveElement
    <3>3. Cardinality(W) <= w
      <4>1. W \subseteq Waiters
        BY <1>1, <2>3 DEF RolesKept, Counted
      <4>2. QED
        BY <4>1, FiniteRoles, FS_Subset
    <3>4. w * Cardinality(Alls') = w * Cardinality(Alls) - w
      BY <1>2, <3>2
    <3>5. w * Cardinality(Alls) \in Nat /\ w * Cardinality(Alls') \in Nat
      BY <1>2
    <3> HIDE DEF c
    <3>6. -cv' + Cardinality(Ones') + w * Cardinality(Alls') <= Cardinality(Counted') + c
      BY <1>1, <1>2, <1>3, <2>2, <2>4, <3>1, <3>3, <3>4, <3>5
    <3>7. QED
      BY <1>3, <2>2, <3>6 DEF SurplusBounded, Within, c
  <2>7. QED
    BY <2>5, <2>6
<1>14. CASE UNCHANGED vars
  BY <1>1, <1>14 DEF vars, SurplusBounded, Counted, Ones, Alls
<1>15. QED
  BY <1>7, <1>8, <1>9, <1>10, <1>11, <1>12, <1>13, <1>14 DEF Next, Call, Step

\* For any waiters and notifiers, in any roles, the int never leaves the range
\* that its surplus allows: overlapping notifications do not add up.
THEOREM IntInRange ==
  ASSUME IsFiniteSet(Threads)
  PROVE  Spec => []CountInRange
<1>1. Init => RangeInv
  <2> SUFFICES ASSUME Init PROVE RangeInv
    OBVIOUS
  <2>1. Counted = {} /\ Ones = {} /\ Alls = {} /\ cv = 0 /\ RolesKept
    BY DEF Init, Counted, Ones, Alls, InWait, RolesKept
  <2>2. Cardinality({}) = 0
    BY FS_EmptySet
  <2>3. Cardinality(Waiters) * Cardinality(Notifiers) \in Nat
        /\ Cardinality(Waiters) * 0 = 0
    BY FiniteRoles
  <2>4. SurplusBounded
    BY <2>1, <2>2, <2>3 DEF SurplusBounded, Within
  <2>5. QED
    BY <2>1, <2>4, InitKeeps DEF RangeInv
<1>2. RangeInv /\ [Next]_vars => RangeInv'
  BY StepKeeps, RolesStay, SurplusStays DEF RangeInv
<1>3. RangeInv => CountInRange
  <2> SUFFICES ASSUME RangeInv PROVE CountInRange
    OBVIOUS
  <2> DEFINE w == Cardinality(Waiters)
             n == Cardinality(Notifiers)
  <2>1. /\ w \in Nat /\ n \in Nat /\ w * n \in Nat /\ cv \in Int
        /\ Cardinality(Ones) \in Nat /\ w * Cardinality(Alls) \in Nat
        /\ Cardinality(Counted) \in Nat
    BY FiniteRoles DEF RangeInv, IInv, TypeOK
  <2>2. Cardinality(Counted) <= w
    <3>1. Counted \subseteq Waiters
      BY DEF RangeInv, RolesKept, Counted
    <3>2. QED
      BY <3>1, FiniteRoles, FS_Subset
  <2>3. w * (n + 1) = w * n + w
    BY <2>1
  <2>4. cv <= 0 /\ -cv + Cardinality(Ones) + w * Cardinality(Alls) <= Cardinality(Counted) + w * n
    BY DEF RangeInv, SurplusBounded, Within
  <2>5. cv <= 0 /\ -(w * n + w) <= cv
    BY <2>1, <2>2, <2>4
  <2>6. QED
    BY <2>1, <2>3, <2>5 DEF CountInRange
<1>4. QED
  BY <1>1, <1>2, <1>3, PTL DEF Spec
-----------------------------------------------------------------------------
(***************************************************************************)
(* A single waiter, whom any number of threads notify.  With two, the first*)
(* to run takes what was meant for the other, and none of what follows     *)
(* holds.                                                                  *)
(***************************************************************************)

\* The waiter cannot be both asleep and about to sleep, so whoever brings the
\* int to zero under it is on the way to wake it.
LEMMA SleeperStaysCounted ==
  ASSUME NEW w, Waiters = {w}, IInv, RolesKept, SleepersCounted, [Next]_vars
  PROVE  SleepersCounted'
<1>1. TypeOK /\ w \in Threads /\ Sleepers \subseteq {w} /\ cv \in Int
  BY RolesAssumption DEF RolesAssumption, IInv, TypeOK, RolesKept, Sleepers, InWait
<1>2. ASSUME NEW t \in Threads, Lock(t) \/ Unlock(t) \/ WaitUnlock(t) \/ Relock(t) \/ TimeOut(t)
      PROVE  SleepersCounted'
  <2>1. /\ cv' = cv /\ Sleepers' \subseteq Sleepers
        /\ \A n \in Threads : at[n] = "signal" => at'[n] = "signal"
    BY <1>1, <1>2 DEF Lock, Unlock, WaitUnlock, Relock, TimeOut, TypeOK, Sleepers
  <2>2. QED
    BY <2>1 DEF SleepersCounted
<1>3. ASSUME NEW t \in Threads, (\E b \in BOOLEAN : BeginWait(t, b)) \/ EndWait(t)
      PROVE  SleepersCounted'
  <2>1. t = w /\ at'[w] # "asleep"
    BY <1>1, <1>3 DEF BeginWait, EndWait, TypeOK, RolesKept, InWait
  <2>2. \A u \in Threads \ {w} : at'[u] = at[u]
    BY <1>1, <1>3, <2>1 DEF BeginWait, EndWait, TypeOK
  <2>3. Sleepers' = {}
    BY <1>1, <2>1, <2>2 DEF Sleepers
  <2>4. QED
    BY <2>3 DEF SleepersCounted
<1>4. ASSUME NEW t \in Threads, Arbitrate(t)
      PROVE  SleepersCounted'
  <2>1. CASE cv < 0
    BY <1>1, <1>4, <2>1 DEF Arbitrate, SleepersCounted
  <2>2. CASE ~(cv < 0)
    <3>1. /\ cv' = cv /\ Sleepers' \subseteq Sleepers
          /\ \A n \in Threads : at[n] = "signal" => at'[n] = "signal"
      BY <1>1, <1>4, <2>2 DEF Arbitrate, TypeOK, Sleepers
    <3>2. QED
      BY <3>1 DEF SleepersCounted
  <2>3. QED
    BY <2>1, <2>2
<1>5. ASSUME NEW t \in Threads, NEW n \in {1, All}, WakeUp(t, n)
      PROVE  SleepersCounted'
  <2>1. CASE cv < 0
    <3>1. at'[t] = "signal"
      BY <1>1, <1>5, <2>1 DEF WakeUp, HasWaiters, TypeOK
    <3>2. QED
      BY <3>1 DEF SleepersCounted
  <2>2. CASE ~(cv < 0)
    <3>1. cv' = cv /\ at' = at
      BY <1>1, <1>5, <2>2 DEF WakeUp, HasWaiters, Accounted
    <3>2. QED
      BY <3>1 DEF SleepersCounted, Sleepers
  <2>3. QED
    BY <2>1, <2>2
<1>6. ASSUME NEW t \in Threads, Signal(t)
      PROVE  SleepersCounted'
  <2>1. PICK W \in SUBSET Sleepers :
          /\ IF num[t] = All THEN W = Sleepers
             ELSE /\ Cardinality(W) <= 1
                  /\ W = {} => Sleepers = {}
          /\ at' = [u \in Threads |-> IF u = t THEN "out"
                                      ELSE IF u \in W THEN "relock" ELSE at[u]]
    BY <1>6 DEF Signal
  <2>2. W = Sleepers
    BY <1>1, <2>1
  <2>3. Sleepers' = {}
    BY <2>1, <2>2 DEF Sleepers
  <2>4. QED
    BY <2>3 DEF SleepersCounted
<1>7. CASE UNCHANGED vars
  BY <1>7 DEF vars, SleepersCounted, Sleepers
<1>8. QED
  BY <1>2, <1>3, <1>4, <1>5, <1>6, <1>7 DEF Next, Call, Step

\* A later notification finds the sleeper: the int counts it, or a signal is on
\* the way, whether or not notifiers hold the mutex.
THEOREM SleeperCounted ==
  ASSUME NEW w, Waiters = {w}
  PROVE  Spec => []SleepersCounted
<1>1. Init => IInv /\ RolesKept /\ SleepersCounted
  BY InitKeeps DEF Init, RolesKept, InWait, SleepersCounted, Sleepers
<1>2. IInv /\ RolesKept /\ SleepersCounted /\ [Next]_vars
        => (IInv /\ RolesKept /\ SleepersCounted)'
  BY StepKeeps, RolesStay, SleeperStaysCounted
<1>3. QED
  BY <1>1, <1>2, PTL DEF Spec

\* What notifying with the mutex held adds: the int is the waiter's alone, and
\* a notification that is over was for a waiter that cannot fall asleep.
OneInv(w) ==
  /\ cv \in {-1, 0}
  /\ cv = -1 => at[w] \in InWait
  /\ at[w] = "unlock" => cv = -1
  /\ \A n \in Threads :
       /\ at[n] = "signal" => held[n] > 0 /\ cv = 0
       /\ due[n] \subseteq {w}
       /\ due[n] # {} =>
            cv = 0 /\ (at[w] = "arbitrate" \/ (at[w] = "asleep" /\ at[n] = "signal"))

WaiterInv(w) == IInv /\ RolesKept /\ SleepersCounted /\ OneInv(w)

\* Nobody is told about a waiter who leaves.
LEMMA AnsweredAll ==
  ASSUME NEW w, OneInv(w), NEW n \in Threads
  PROVE  Answered({w})[n] = {} /\ Answered({})[n] = due[n]
BY DEF OneInv, Answered

\* Two threads do not hold the mutex.
LEMMA HoldersOne ==
  ASSUME IInv, NEW t \in Threads, NEW u \in Threads, held[t] > 0, held[u] > 0
  PROVE  t = u
BY DEF IInv, WordExact

LEMMA OneStays ==
  ASSUME NEW w, Waiters = {w}, NotifyHolding, WaiterInv(w), [Next]_vars
  PROVE  OneInv(w)'
<1>1. TypeOK /\ w \in Threads /\ Sleepers \subseteq {w} /\ OneInv(w) /\ IInv /\ RolesKept
  BY RolesAssumption DEF WaiterInv, RolesAssumption, IInv, TypeOK, RolesKept, Sleepers, InWait
<1>2. \A t \in Threads \ {w} : at[t] \notin InWait
  BY <1>1 DEF RolesKept
<1>3. ASSUME NEW t \in Threads, Lock(t)
      PROVE  OneInv(w)'
  <2>1. UNCHANGED <<cv, at, due>> /\ \A n \in Threads : held[n] > 0 => held'[n] > 0
    BY <1>1, <1>3, RolesAssumption DEF Lock, TypeOK, RolesAssumption
  <2>2. QED
    BY <1>1, <2>1 DEF OneInv
<1>4. ASSUME NEW t \in Threads, Unlock(t)
      PROVE  OneInv(w)'
  <2>1. UNCHANGED <<cv, at, due>> /\ at[t] = "out" /\ \A n \in Threads \ {t} : held'[n] = held[n]
    BY <1>1, <1>4 DEF Unlock, TypeOK
  <2>2. QED
    BY <1>1, <2>1 DEF OneInv
<1>5. ASSUME NEW t \in Threads, NEW b \in BOOLEAN, BeginWait(t, b)
      PROVE  OneInv(w)'
  <2>1. t = w /\ at[w] = "out" /\ held[w] > 0 /\ cv' = cv - 1 /\ UNCHANGED <<held, due>>
        /\ at' = [at EXCEPT ![w] = "unlock"]
    BY <1>5 DEF BeginWait, Announced
  <2>2. cv = 0 /\ cv' = -1 /\ \A n \in Threads : due[n] = {}
    BY <1>1, <2>1 DEF OneInv, InWait
  <2>3. \A n \in Threads : at[n] # "signal"
    BY <1>1, <2>1, HoldersOne DEF OneInv
  <2>4. QED
    BY <1>1, <2>1, <2>2, <2>3 DEF OneInv, TypeOK, InWait
<1>6. ASSUME NEW t \in Threads, WaitUnlock(t)
      PROVE  OneInv(w)'
  <2>1. t = w /\ at[w] = "unlock" /\ at' = [at EXCEPT ![w] = "arbitrate"] /\ UNCHANGED <<cv, due>>
        /\ \A n \in Threads \ {w} : held'[n] = held[n]
    BY <1>1, <1>2, <1>6 DEF WaitUnlock, TypeOK, InWait
  <2>2. QED
    BY <1>1, <2>1 DEF OneInv, TypeOK, InWait
<1>7. ASSUME NEW t \in Threads, Arbitrate(t)
      PROVE  OneInv(w)'
  <2>1. t = w /\ at[w] = "arbitrate" /\ UNCHANGED <<cv, held>>
    BY <1>1, <1>2, <1>7 DEF Arbitrate, InWait
  <2>2. CASE cv = -1
    <3>1. at' = [at EXCEPT ![w] = "asleep"] /\ due' = due
      BY <1>7, <2>1, <2>2 DEF Arbitrate
    <3>2. QED
      BY <1>1, <2>1, <2>2, <3>1 DEF OneInv, TypeOK, InWait
  <2>3. CASE cv = 0
    <3>1. at' = [at EXCEPT ![w] = "relock"] /\ due' = Answered({w})
      BY <1>7, <2>1, <2>3 DEF Arbitrate
    <3>2. \A n \in Threads : due'[n] = {}
      BY <1>1, <3>1, AnsweredAll
    <3>3. at'[w] = "relock" /\ \A n \in Threads \ {w} : at'[n] = at[n]
      BY <1>1, <3>1 DEF TypeOK
    <3>4. QED
      BY <1>1, <2>1, <2>3, <3>2, <3>3 DEF OneInv
  <2>4. QED
    BY <1>1, <2>2, <2>3 DEF OneInv
<1>8. ASSUME NEW t \in Threads, TimeOut(t)
      PROVE  OneInv(w)'
  <2>1. t = w /\ at[w] = "asleep" /\ UNCHANGED <<cv, held>>
        /\ at' = [at EXCEPT ![w] = "endWait"] /\ due' = Answered({w})
    BY <1>1, <1>2, <1>8 DEF TimeOut, InWait
  <2>2. \A n \in Threads : due'[n] = {}
    BY <1>1, <2>1, AnsweredAll
  <2>3. QED
    BY <1>1, <2>1, <2>2 DEF OneInv, TypeOK, InWait
<1>9. ASSUME NEW t \in Threads, EndWait(t)
      PROVE  OneInv(w)'
  <2>1. t = w /\ at[w] = "endWait" /\ UNCHANGED <<held, due>>
        /\ at' = [at EXCEPT ![w] = "relock"] /\ cv' = Accounted(cv, 1)
    BY <1>1, <1>2, <1>9 DEF EndWait, InWait
  <2>2. cv' = 0
    BY <1>1, <2>1 DEF OneInv, Accounted, HasWaiters
  <2>3. \A n \in Threads : due[n] = {}
    BY <1>1, <2>1 DEF OneInv
  <2>4. QED
    BY <1>1, <2>1, <2>2, <2>3 DEF OneInv, TypeOK, InWait
<1>10. ASSUME NEW t \in Threads, Relock(t)
       PROVE  OneInv(w)'
  <2>1. at[t] = "relock" /\ at' = [at EXCEPT ![t] = "out"] /\ UNCHANGED <<cv, due>>
        /\ \A n \in Threads : held[n] > 0 => held'[n] > 0
    BY <1>1, <1>10, RolesAssumption DEF Relock, TypeOK, RolesAssumption
  <2>2. QED
    BY <1>1, <2>1 DEF OneInv, TypeOK, InWait
<1>11. ASSUME NEW t \in Threads, NEW n \in {1, All}, WakeUp(t, n)
       PROVE  OneInv(w)'
  <2>1. /\ at[t] = "out" /\ held[t] > 0 /\ held' = held /\ cv' = Accounted(cv, n)
        /\ due' = [due EXCEPT ![t] = Waiting]
        /\ at' = IF HasWaiters(cv) THEN [at EXCEPT ![t] = "signal"] ELSE at
    BY <1>11 DEF WakeUp
  <2>2. cv' = 0
    BY <1>1, <2>1 DEF OneInv, Accounted, HasWaiters, All
  <2>3. \A m \in Threads : at[m] # "signal"
    BY <1>1, <2>1, HoldersOne DEF OneInv
  <2>4. at[w] # "unlock"
    BY <1>1, <2>1, HoldersOne DEF IInv, PlacesHold
  <2>5. /\ Waiting \subseteq {w}
        /\ Waiting # {} => at[w] \in {"arbitrate", "asleep"} /\ t # w
    BY <1>1, <1>2, <2>1 DEF Waiting, InWait
  <2>6. at[w] = "asleep" => cv = -1
    <3>1. SleepersCounted
      BY DEF WaiterInv
    <3>2. QED
      BY <1>1, <2>3, <3>1 DEF SleepersCounted, Sleepers, OneInv
  <2>7. CASE cv = -1
    <3>1. at' = [at EXCEPT ![t] = "signal"]
      BY <2>1, <2>7 DEF HasWaiters
    <3>2. \A m \in Threads \ {t} : due'[m] = {}
      BY <1>1, <2>1, <2>7 DEF OneInv, TypeOK
    <3>3. due'[t] = Waiting
      BY <1>1, <2>1 DEF TypeOK
    <3>4. at'[t] = "signal" /\ \A m \in Threads \ {t} : at'[m] = at[m]
      BY <1>1, <3>1 DEF TypeOK
    <3>5. at'[w] # "unlock"
      BY <1>1, <2>4, <3>4
    <3>6. QED
      BY <1>1, <2>1, <2>2, <2>3, <2>5, <3>2, <3>3, <3>4, <3>5 DEF OneInv
  <2>8. CASE cv = 0
    <3>1. at' = at
      BY <2>1, <2>8 DEF HasWaiters
    <3>2. due'[t] = Waiting /\ \A m \in Threads \ {t} : due'[m] = due[m]
      BY <1>1, <2>1 DEF TypeOK
    <3>3. QED
      BY <1>1, <2>2, <2>3, <2>4, <2>5, <2>6, <2>8, <3>1, <3>2 DEF OneInv
  <2>9. QED
    BY <1>1, <2>7, <2>8 DEF OneInv
<1>12. ASSUME NEW t \in Threads, Signal(t)
       PROVE  OneInv(w)'
  <2>1. PICK W \in SUBSET Sleepers :
          /\ IF num[t] = All THEN W = Sleepers
             ELSE /\ Cardinality(W) <= 1
                  /\ W = {} => Sleepers = {}
          /\ at' = [u \in Threads |-> IF u = t THEN "out"
                                      ELSE IF u \in W THEN "relock" ELSE at[u]]
          /\ due' = Answered(W)
    BY <1>12 DEF Signal
  <2>2. at[t] = "signal" /\ UNCHANGED <<cv, held>> /\ W = Sleepers /\ cv = 0
    BY <1>1, <1>12, <2>1 DEF Signal, OneInv
  <2>3. CASE at[w] = "asleep"
    <3>1. W = {w} /\ t # w
      BY <1>1, <2>2, <2>3 DEF Sleepers
    <3>2. \A n \in Threads : due'[n] = {}
      BY <1>1, <2>1, <3>1, AnsweredAll
    <3>3. at'[w] = "relock" /\ \A n \in Threads : at'[n] = "signal" => at[n] = "signal"
      BY <1>1, <2>1, <3>1
    <3>4. QED
      BY <1>1, <2>2, <3>2, <3>3 DEF OneInv
  <2>4. CASE at[w] # "asleep"
    <3>1. W = {}
      BY <1>1, <2>2, <2>4 DEF Sleepers
    <3>2. \A n \in Threads : due'[n] = due[n]
      BY <1>1, <2>1, <3>1, AnsweredAll
    <3>3. \A n \in Threads : /\ n # t => at'[n] = at[n]
                             /\ at'[n] = "signal" => at[n] = "signal"
      BY <2>1, <3>1
    <3>4. at'[w] = at[w] \/ (t = w /\ at'[w] = "out")
      BY <1>1, <2>1, <3>1
    <3>5. QED
      BY <1>1, <2>2, <2>4, <3>2, <3>3, <3>4 DEF OneInv
  <2>5. QED
    BY <2>3, <2>4
<1>13. CASE UNCHANGED vars
  BY <1>1, <1>13 DEF vars, OneInv
<1>14. QED
  BY <1>3, <1>4, <1>5, <1>6, <1>7, <1>8, <1>9, <1>10, <1>11, <1>12, <1>13
     DEF Next, Call, Step

LEMMA WaiterInvariant ==
  ASSUME NEW w, Waiters = {w}, NotifyHolding
  PROVE  /\ Init => WaiterInv(w)
         /\ WaiterInv(w) /\ [Next]_vars => WaiterInv(w)'
<1>1. Init => WaiterInv(w)
  BY InitKeeps, RolesAssumption
     DEF Init, RolesAssumption, WaiterInv, RolesKept, InWait, SleepersCounted, Sleepers, OneInv
<1>2. WaiterInv(w) /\ [Next]_vars => WaiterInv(w)'
  BY StepKeeps, RolesStay, SleeperStaysCounted, OneStays DEF WaiterInv
<1>3. QED
  BY <1>1, <1>2

\* notify and notifyAll reach the waiter they are for, wherever in its wait they
\* find it.
THEOREM WaiterReached ==
  ASSUME NEW w, Waiters = {w}, NotifyHolding
  PROVE  Spec => []NotifiesReach
<1>1. WaiterInv(w) => NotifiesReach
  <2> SUFFICES ASSUME WaiterInv(w), NEW n \in Threads, at[n] # "signal"
               PROVE  \A t \in due[n] : at[t] # "asleep"
    BY DEF NotifiesReach, NotifyWakesOne, NotifyAllWakesAll
  <2>1. QED
    BY DEF WaiterInv, OneInv
<1>2. QED
  BY <1>1, WaiterInvariant, PTL DEF Spec
-----------------------------------------------------------------------------
(***************************************************************************)
(* With one waiter, notifiers that hold the mutex and no nesting, the      *)
(* condition implements the monitor its clients program against.           *)
(***************************************************************************)
Place ==
  [t \in Threads |->
     IF at[t] \in {"arbitrate", "asleep", "endWait"}
     THEN IF cv < 0 THEN "waiting" ELSE "released"
     ELSE IF at[t] = "relock" THEN "released" ELSE "out"]

\* Without nesting a thread that has the mutex has it once.
LEMMA WordOnce ==
  ASSUME IInv, MaxDepth = 1, NEW t \in Threads
  PROVE  /\ held[t] > 0 <=> lock.tag = t
         /\ held[t] > 0 => lock = [tag |-> t, counter |-> 1]
         /\ CanLock(lock, t) /\ held[t] < 1 => lock.tag = NoThread
         /\ Released([tag |-> t, counter |-> 1]).tag = NoThread
<1>1. held[t] \in 0 .. 1 /\ NoThread \notin Threads
  BY NoThreadAssumption DEF NoThreadAssumption, IInv, TypeOK
<1>2. CASE lock = Unlocked /\ \A u \in Threads : held[u] = 0
  BY <1>1, <1>2 DEF Unlocked, Released
<1>3. CASE \E u \in Threads : /\ held[u] > 0 /\ lock = [tag |-> u, counter |-> held[u]]
                              /\ \A v \in Threads \ {u} : held[v] = 0
  <2>1. PICK u \in Threads : /\ held[u] > 0 /\ lock = [tag |-> u, counter |-> held[u]]
                             /\ \A v \in Threads \ {u} : held[v] = 0
    BY <1>3
  <2>2. lock.tag = u /\ lock = [tag |-> u, counter |-> held[u]]
    BY <2>1
  <2>3. u = t => held[t] = 1
    BY <1>1, <2>1
  <2>4. Released([tag |-> t, counter |-> 1]).tag = NoThread
    BY DEF Released, Unlocked
  <2>5. QED
    BY <1>1, <2>1, <2>2, <2>3, <2>4 DEF CanLock
<1>4. QED
  BY <1>2, <1>3 DEF IInv, WordExact

\* The same places, before and after a step in which only t moves.
LEMMA PlaceMoves ==
  ASSUME NEW t \in Threads, TypeOK, cv' = cv, at' = [at EXCEPT ![t] = at'[t]]
  PROVE  Place' = [Place EXCEPT ![t] = Place'[t]]
<1>1. \A u \in Threads \ {t} : at'[u] = at[u]
  BY DEF TypeOK
<1>2. \A u \in Threads \ {t} : Place'[u] = Place[u]
  BY <1>1 DEF Place
<1>3. DOMAIN Place = Threads /\ DOMAIN Place' = Threads
  BY DEF Place
<1>4. Place' = [u \in Threads |-> Place'[u]]
  BY DEF Place
<1>5. Place = [u \in Threads |-> Place[u]]
  BY DEF Place
<1>6. QED
  BY <1>2, <1>4, <1>5

LEMMA MonitorStep ==
  ASSUME NEW w, Waiters = {w}, NotifyHolding, MaxDepth = 1, WaiterInv(w), [Next]_vars
  PROVE  [M!Next]_<<lock.tag, Place>>
<1> DEFINE Goal == [M!Next]_<<lock.tag, Place>>
<1>1. TypeOK /\ w \in Threads /\ OneInv(w) /\ IInv /\ RolesKept
  BY RolesAssumption DEF WaiterInv, RolesAssumption, IInv
<1>2. \A t \in Threads \ {w} : at[t] \notin InWait
  BY <1>1 DEF RolesKept
<1>3. ASSUME NEW t \in Threads, Lock(t)
      PROVE  Goal
  <2>1. lock.tag = NoThread /\ lock' = Locked(lock, t) /\ at[t] = "out" /\ UNCHANGED <<cv, at>>
    BY <1>1, <1>3, WordOnce DEF Lock
  <2>2. lock'.tag = t /\ Place' = Place /\ Place[t] = "out"
    BY <2>1 DEF Locked, Place
  <2>3. M!Enter(t)
    BY <2>1, <2>2 DEF M!Enter, Place
  <2>4. QED
    BY <2>3 DEF M!Next
<1>4. ASSUME NEW t \in Threads, Unlock(t)
      PROVE  Goal
  <2>1. lock = [tag |-> t, counter |-> 1] /\ lock' = Released(lock) /\ UNCHANGED <<cv, at>>
    BY <1>1, <1>4, WordOnce DEF Unlock
  <2>2. lock.tag = t /\ lock'.tag = NoThread /\ Place' = Place
    BY <1>1, <2>1, WordOnce DEF Place
  <2>3. M!Exit(t)
    BY <2>2 DEF M!Exit, Place
  <2>4. QED
    BY <2>3 DEF M!Next
\* A wait that is only announced is not a wait yet.
<1>5. ASSUME NEW t \in Threads, NEW b \in BOOLEAN, BeginWait(t, b)
      PROVE  Goal
  <2>1. t = w /\ at[w] = "out" /\ lock' = lock /\ at' = [at EXCEPT ![w] = "unlock"]
    BY <1>5 DEF BeginWait
  <2>2. at'[w] = "unlock" /\ \A u \in Threads \ {w} : at'[u] = at[u] /\ at[u] \notin InWait
    BY <1>1, <1>2, <2>1 DEF TypeOK
  <2>3. \A u \in Threads : Place'[u] = Place[u]
    BY <2>1, <2>2 DEF Place, InWait
  <2>4. Place' = Place
    <3>1. Place' = [u \in Threads |-> Place'[u]] /\ Place = [u \in Threads |-> Place[u]]
      BY DEF Place
    <3>2. QED
      BY <2>3, <3>1
  <2>5. QED
    BY <2>1, <2>4
<1>6. ASSUME NEW t \in Threads, WaitUnlock(t)
      PROVE  Goal
  <2>1. /\ t = w /\ at[w] = "unlock" /\ lock' = Released(lock) /\ cv' = cv
        /\ at' = [at EXCEPT ![w] = "arbitrate"]
    BY <1>2, <1>6 DEF WaitUnlock, InWait
  <2>2. cv = -1 /\ held[w] > 0
    BY <1>1, <2>1 DEF OneInv, IInv, PlacesHold
  <2>3. lock.tag = w /\ lock'.tag = NoThread
    BY <1>1, <2>1, <2>2, WordOnce
  <2>4. at'[w] = "arbitrate"
    BY <1>1, <2>1 DEF TypeOK
  <2>5. Place'[w] = "waiting"
    BY <1>1, <2>1, <2>2, <2>4 DEF Place
  <2>6. Place' = [Place EXCEPT ![w] = "waiting"]
    BY <1>1, <2>1, <2>4, <2>5, PlaceMoves
  <2>7. M!Wait(w)
    BY <2>3, <2>6 DEF M!Wait, Place
  <2>8. QED
    BY <1>1, <2>7 DEF M!Next
\* From the announcement on only the int matters.
<1>7. ASSUME NEW t \in Threads, Arbitrate(t) \/ TimeOut(t)
      PROVE  Goal
  <2>1. /\ t = w /\ at[w] \in {"arbitrate", "asleep"} /\ UNCHANGED <<lock, cv>>
        /\ at' = [at EXCEPT ![w] = at'[w]]
        /\ at'[w] = IF at[w] = "asleep" THEN "endWait" ELSE IF cv < 0 THEN "asleep" ELSE "relock"
    BY <1>1, <1>2, <1>7 DEF Arbitrate, TimeOut, InWait, TypeOK
  <2>2. Place'[w] = Place[w]
    BY <1>1, <2>1 DEF Place
  <2>3. Place' = Place
    <3>1. Place' = [Place EXCEPT ![w] = Place'[w]]
      BY <1>1, <2>1, PlaceMoves
    <3>2. Place = [u \in Threads |-> Place[u]]
      BY DEF Place
    <3>3. QED
      BY <1>1, <2>2, <3>1, <3>2
  <2>4. QED
    BY <2>1, <2>3
<1>8. ASSUME NEW t \in Threads, EndWait(t)
      PROVE  Goal
  <2>1. /\ t = w /\ at[w] = "endWait" /\ lock' = lock /\ cv' = Accounted(cv, 1)
        /\ at' = [at EXCEPT ![w] = "relock"]
    BY <1>2, <1>8 DEF EndWait, InWait
  <2>2. at'[w] = "relock" /\ \A u \in Threads \ {w} : at'[u] = at[u] /\ at[u] \notin InWait
    BY <1>1, <1>2, <2>1 DEF TypeOK
  <2>3. Place'[w] = "released" /\ \A u \in Threads \ {w} : Place'[u] = Place[u]
    BY <1>1, <2>2 DEF Place, InWait
  <2>4. Place' = [u \in Threads |-> IF u \in {w} THEN "released" ELSE Place[u]]
    <3>1. Place' = [u \in Threads |-> Place'[u]]
      BY DEF Place
    <3>2. QED
      BY <2>3, <3>1
  <2>5. CASE cv = -1
    <3>1. Place[w] = "waiting"
      BY <1>1, <2>1, <2>5 DEF Place
    <3>2. M!TimeOut(w)
      BY <2>1, <2>4, <3>1 DEF M!TimeOut, M!Release, Place
    <3>3. QED
      BY <1>1, <3>2 DEF M!Next
  <2>6. CASE cv = 0
    <3>1. Place[w] = "released"
      BY <1>1, <2>1, <2>6 DEF Place
    <3>2. Place = [u \in Threads |-> Place[u]]
      BY DEF Place
    <3>3. Place' = Place
      BY <2>4, <3>1, <3>2
    <3>4. QED
      BY <2>1, <3>3
  <2>7. QED
    BY <1>1, <2>5, <2>6 DEF OneInv
<1>9. ASSUME NEW t \in Threads, Relock(t)
      PROVE  Goal
  <2>1. /\ at[t] = "relock" /\ lock' = Locked(lock, t) /\ cv' = cv
        /\ at' = [at EXCEPT ![t] = "out"] /\ held[t] < 1
    BY <1>1, <1>9 DEF Relock, IInv, PlacesHold
  <2>2. lock.tag = NoThread /\ lock'.tag = t
    <3>1. CanLock(lock, t)
      BY <1>9 DEF Relock
    <3>2. lock.tag = NoThread
      BY <1>1, <2>1, <3>1, WordOnce
    <3>3. QED
      BY <2>1, <3>2 DEF Locked
  <2>3. at'[t] = "out"
    BY <1>1, <2>1 DEF TypeOK
  <2>4. Place[t] = "released" /\ Place'[t] = "out"
    BY <2>1, <2>3 DEF Place
  <2>5. Place' = [Place EXCEPT ![t] = "out"]
    BY <1>1, <2>1, <2>3, <2>4, PlaceMoves
  <2>6. M!Reenter(t)
    BY <2>2, <2>4, <2>5 DEF M!Reenter, Place
  <2>7. QED
    BY <2>6 DEF M!Next
\* The notification is the update of the int.
<1>10. ASSUME NEW t \in Threads, NEW n \in {1, All}, WakeUp(t, n)
       PROVE  Goal
  <2>1. /\ at[t] = "out" /\ held[t] > 0 /\ lock' = lock /\ cv' = Accounted(cv, n)
        /\ at' = IF HasWaiters(cv) THEN [at EXCEPT ![t] = "signal"] ELSE at
    BY <1>10 DEF WakeUp
  <2>2. cv' = 0 /\ Place[t] = "out"
    BY <1>1, <2>1 DEF OneInv, Accounted, HasWaiters, All, Place
  <2>3. at[w] # "unlock" /\ lock.tag = t
    BY <1>1, <2>1, HoldersOne, WordOnce DEF IInv, PlacesHold
  <2>4. CASE cv = 0
    <3>1. Place' = Place
      BY <2>1, <2>2, <2>4 DEF HasWaiters, Place
    <3>2. QED
      BY <2>1, <3>1
  <2>5. CASE cv = -1
    <3>1. at[w] \in {"arbitrate", "asleep", "endWait"} /\ t # w
      BY <1>1, <2>1, <2>3, <2>5 DEF OneInv, InWait
    <3>2. Place[w] = "waiting" /\ \A u \in Threads \ {w} : Place[u] # "waiting"
      BY <1>1, <1>2, <2>5, <3>1 DEF Place, InWait
    <3>3. at'[w] = at[w] /\ \A u \in Threads \ {w} :
            at'[u] = at[u] \/ (at[u] = "out" /\ at'[u] = "signal")
      BY <1>1, <2>1, <3>1 DEF TypeOK
    <3>4. Place'[w] = "released" /\ \A u \in Threads \ {w} : Place'[u] = Place[u]
      BY <1>1, <1>2, <2>2, <3>1, <3>3 DEF Place, InWait
    <3>5. Place' = [u \in Threads |-> IF u \in {w} THEN "released" ELSE Place[u]]
      <4>1. Place' = [u \in Threads |-> Place'[u]]
        BY DEF Place
      <4>2. QED
        BY <3>4, <4>1
    <3>6. M!Waiting = {w}
      BY <1>1, <3>2 DEF M!Waiting, Place
    <3>7. M!NotifyAll(t)
      BY <2>1, <2>2, <3>5, <3>6 DEF M!NotifyAll, M!Release, Place
    <3>8. QED
      BY <3>7 DEF M!Next
  <2>6. QED
    BY <1>1, <2>4, <2>5 DEF OneInv
\* By the time of the signal the waiter has been released.
<1>11. ASSUME NEW t \in Threads, Signal(t)
       PROVE  Goal
  <2>1. PICK W \in SUBSET Sleepers :
          at' = [u \in Threads |-> IF u = t THEN "out" ELSE IF u \in W THEN "relock" ELSE at[u]]
    BY <1>11 DEF Signal
  <2>2. at[t] = "signal" /\ UNCHANGED <<lock, cv>> /\ cv = 0
    BY <1>1, <1>11 DEF Signal, OneInv
  <2>3. \A u \in Threads : Place'[u] = Place[u]
    BY <2>1, <2>2 DEF Place, Sleepers
  <2>4. Place' = Place
    <3>1. Place' = [u \in Threads |-> Place'[u]] /\ Place = [u \in Threads |-> Place[u]]
      BY DEF Place
    <3>2. QED
      BY <2>3, <3>1
  <2>5. QED
    BY <2>2, <2>4
<1>12. CASE UNCHANGED vars
  BY <1>12 DEF vars, Place
<1>13. QED
  BY <1>3, <1>4, <1>5, <1>6, <1>7, <1>8, <1>9, <1>10, <1>11, <1>12 DEF Next, Call, Step

\* Waiting is one step, notifications release at once, control is not handed
\* over, and the mutex excludes.
THEOREM MonitorImplemented ==
  ASSUME NEW w, Waiters = {w}, NotifyHolding, MaxDepth = 1
  PROVE  Spec => ImplementsMonitor
<1>1. Init => M!Init
  BY DEF Init, M!Init, Unlocked
<1>2. WaiterInv(w) /\ [Next]_vars => [M!Next]_<<lock.tag, Place>>
  BY MonitorStep
<1>3. QED
  BY <1>1, <1>2, WaiterInvariant, PTL DEF Spec, ImplementsMonitor, M!Spec, Place
=============================================================================
