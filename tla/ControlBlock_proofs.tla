------------------------ MODULE ControlBlock_proofs ------------------------
(***************************************************************************)
(* Proofs about the reference counts, for any finite number of handles.    *)
(***************************************************************************)
EXTENDS ControlBlock, CountingLemmas

Refs == {"weak", "cas", "load", "decrement"}

\* The strong handles, as long as one is left or its destructor is due, hold
\* one weak reference together.
Owned == \E h \in Handles : at[h] \in {"strong", "destruct"}

Strongs(f) == Cardinality(Who(Handles, f, {"strong"}))
Weaks(f) == Cardinality(Who(Handles, f, Refs))

\* The last owner is alone in running the destructor, and the object is
\* destroyed exactly when nobody owns it any more.
OneDestroyer ==
  /\ \A h, k \in Handles :
       at[h] = "destruct" /\ at[k] \in {"strong", "destruct"} => h = k
  /\ destroyed \in {0, 1}
  /\ destroyed = 0 <=> Owned

\* Whoever found the last weak reference is alone with the block.
OneFreer ==
  /\ \A h, k \in Handles : at[h] = "free" /\ at[k] # "none" => h = k
  /\ (\E h \in Handles : at[h] # "none") => freed = 0
  /\ freed \in {0, 1}

NobodyFreed == freed = 0 /\ \A h \in Handles : at[h] # "free"

Counted ==
  /\ shared_count = Strongs(at) - 1
  /\ NobodyFreed => weak_count + 1 = Weaks(at) + (IF Owned THEN 1 ELSE 0)

\* The inductive invariant.
IInv == TypeOK /\ OneDestroyer /\ OneFreer /\ Counted
-----------------------------------------------------------------------------
\* The counting lemmas, for the handles.
LEMMA OneHandleMoves ==
  ASSUME NEW f \in [Handles -> Places], NEW g \in [Handles -> Places],
         NEW t \in Handles,
         \A u \in Handles \ {t} : /\ g[u] = "strong" <=> f[u] = "strong"
                                  /\ g[u] \in Refs <=> f[u] \in Refs
  PROVE  /\ Strongs(f) \in Nat /\ Strongs(g) \in Nat
         /\ Weaks(f) \in Nat /\ Weaks(g) \in Nat
         /\ Strongs(g) = Strongs(f) + (IF g[t] = "strong" THEN 1 ELSE 0)
                                    - (IF f[t] = "strong" THEN 1 ELSE 0)
         /\ Weaks(g) = Weaks(f) + (IF g[t] \in Refs THEN 1 ELSE 0)
                                - (IF f[t] \in Refs THEN 1 ELSE 0)
<1> DEFINE Moves(P) ==
      /\ Cardinality(Who(Handles, f, P)) \in Nat
      /\ Cardinality(Who(Handles, g, P)) \in Nat
      /\ Cardinality(Who(Handles, g, P)) =
           Cardinality(Who(Handles, f, P)) + (IF g[t] \in P THEN 1 ELSE 0)
                                           - (IF f[t] \in P THEN 1 ELSE 0)
<1>1. IsFiniteSet(Handles)
  BY HandlesAssumption DEF HandlesAssumption
<1>2. ASSUME NEW P, \A u \in Handles \ {t} : g[u] \in P <=> f[u] \in P
      PROVE  Moves(P)
  BY <1>2, <1>1, OneMoves
<1>3. \A u \in Handles \ {t} : g[u] \in {"strong"} <=> f[u] \in {"strong"}
  OBVIOUS
<1>4. Moves({"strong"}) /\ Moves(Refs)
  BY <1>2, <1>3
<1>5. QED
  BY <1>4 DEF Strongs, Weaks

LEMMA SomeHandles ==
  ASSUME NEW f
  PROVE  /\ Strongs(f) \in Nat /\ Weaks(f) \in Nat
         /\ Strongs(f) > 0 <=> \E h \in Handles : f[h] = "strong"
         /\ Weaks(f) > 0 <=> \E h \in Handles : f[h] \in Refs
         /\ Weaks(f) = 1 =>
              \A h, k \in Handles : f[h] \in Refs /\ f[k] \in Refs => h = k
<1> DEFINE Some(P) ==
      /\ Cardinality(Who(Handles, f, P)) \in Nat
      /\ Cardinality(Who(Handles, f, P)) > 0 <=> \E h \in Handles : f[h] \in P
      /\ Cardinality(Who(Handles, f, P)) = 1 =>
           \A h, k \in Handles : f[h] \in P /\ f[k] \in P => h = k
<1>1. IsFiniteSet(Handles)
  BY HandlesAssumption DEF HandlesAssumption
<1>2. ASSUME NEW P
      PROVE  Some(P)
  BY <1>1, SomeCounted
<1>3. Some({"strong"}) /\ Some(Refs)
  BY <1>2
<1>4. QED
  BY <1>3 DEF Strongs, Weaks
-----------------------------------------------------------------------------
\* Where the invariant puts a thread that holds or releases a handle.
LEMMA InvTells ==
  ASSUME IInv
  PROVE  /\ shared_count \in Int /\ weak_count \in Int
         /\ shared_count >= 0 <=> \E h \in Handles : at[h] = "strong"
         /\ shared_count >= -1
         /\ \A h \in Handles : at[h] \in Refs => NobodyFreed /\ weak_count >= 0
         /\ Owned => NobodyFreed
<1>1. /\ Strongs(at) \in Nat
      /\ Strongs(at) > 0 <=> \E h \in Handles : at[h] = "strong"
  BY SomeHandles
<1>2. \A h \in Handles : at[h] \in Refs \/ at[h] \in {"strong", "destruct"} => NobodyFreed
  BY DEF IInv, OneFreer, NobodyFreed, Refs
<1>3. Weaks(at) \in Nat /\ (Weaks(at) > 0 <=> \E h \in Handles : at[h] \in Refs)
  BY SomeHandles
<1>4. QED
  BY <1>1, <1>2, <1>3 DEF IInv, TypeOK, Counters, Counted, Owned

\* A releaser that sees no weak reference but its own is the only handle left.
LEMMA LastRef ==
  ASSUME IInv, NEW h \in Handles, at[h] \in Refs, weak_count = 0
  PROVE  /\ ~Owned
         /\ \A k \in Handles : k # h => at[k] = "none"
<1>1. NobodyFreed /\ weak_count + 1 = Weaks(at) + (IF Owned THEN 1 ELSE 0)
  BY InvTells DEF IInv, Counted
<1>2. Weaks(at) \in Nat /\ Weaks(at) > 0
  BY SomeHandles
<1>3. Weaks(at) = 1 /\ ~Owned
  BY <1>1, <1>2
<1>4. \A k \in Handles : at[k] \in Refs => k = h
  BY <1>3, SomeHandles
<1>5. \A k \in Handles : at[k] \in Refs \cup {"none", "strong", "destruct", "free"}
  BY DEF IInv, TypeOK, Places, Refs
<1>6. QED
  BY <1>1, <1>3, <1>4, <1>5 DEF Owned, NobodyFreed

\* New handles are made only from live ones, so they find the block alive.
LEMMA UseKeepsInv ==
  ASSUME IInv, NEW h \in Handles, NEW k \in Handles, Use(h, k)
  PROVE  IInv'
<1> USE DEF IInv, TypeOK
<1>1. CASE CopyStrong(h, k)
  <2>1. /\ Strongs(at) \in Nat /\ Weaks(at) \in Nat
        /\ Strongs(at') = Strongs(at) + 1 /\ Weaks(at') = Weaks(at)
    <3>1. /\ at' \in [Handles -> Places] /\ at[k] = "none" /\ at'[k] = "strong"
          /\ \A u \in Handles \ {k} : /\ at'[u] = "strong" <=> at[u] = "strong"
                                      /\ at'[u] \in Refs <=> at[u] \in Refs
      BY <1>1 DEF CopyStrong, Refs, Places
    <3>2. /\ at[k] \notin Refs /\ at[k] # "strong"
          /\ at'[k] = "strong" /\ at'[k] \notin Refs
      BY <3>1 DEF Refs
    <3>3. QED
      BY <3>1, <3>2, OneHandleMoves
  <2>2. TypeOK'
    BY <1>1 DEF CopyStrong, Places, Counters
  <2>3. OneDestroyer'
    BY <1>1 DEF CopyStrong, OneDestroyer, Owned
  <2>4. OneFreer'
    BY <1>1, InvTells DEF CopyStrong, OneFreer, NobodyFreed, Owned, Refs
  <2>5. Counted'
    BY <1>1, <2>1 DEF CopyStrong, Counted, NobodyFreed, Owned
  <2>6. QED
    BY <2>2, <2>3, <2>4, <2>5
<1>2. CASE CopyWeak(h, k)
  <2>1. /\ Strongs(at) \in Nat /\ Weaks(at) \in Nat
        /\ Strongs(at') = Strongs(at) /\ Weaks(at') = Weaks(at) + 1
    <3>1. /\ at' \in [Handles -> Places] /\ at[k] = "none" /\ at'[k] = "weak"
          /\ \A u \in Handles \ {k} : /\ at'[u] = "strong" <=> at[u] = "strong"
                                      /\ at'[u] \in Refs <=> at[u] \in Refs
      BY <1>2 DEF CopyWeak, Refs, Places
    <3>2. /\ at[k] \notin Refs /\ at[k] # "strong"
          /\ at'[k] # "strong" /\ at'[k] \in Refs
      BY <3>1 DEF Refs
    <3>3. QED
      BY <3>1, <3>2, OneHandleMoves
  <2>2. TypeOK'
    BY <1>2 DEF CopyWeak, Places, Counters
  <2>3. OneDestroyer'
    BY <1>2 DEF CopyWeak, OneDestroyer, Owned
  <2>4. OneFreer'
    BY <1>2, InvTells DEF CopyWeak, OneFreer, NobodyFreed, Owned, Refs
  <2>5. Counted'
    BY <1>2, <2>1 DEF CopyWeak, Counted, NobodyFreed, Owned
  <2>6. QED
    BY <2>2, <2>3, <2>4, <2>5
<1>3. CASE Move(h, k)
  <2>1. /\ Strongs(at) \in Nat /\ Weaks(at) \in Nat
        /\ Strongs(at') = Strongs(at) /\ Weaks(at') = Weaks(at)
    <3> DEFINE mid == [at EXCEPT ![h] = "none"]
    <3>1. /\ mid \in [Handles -> Places] /\ at' \in [Handles -> Places]
          /\ h # k /\ mid[h] = "none" /\ mid[k] = "none" /\ at'[k] = at[h]
          /\ \A u \in Handles \ {h} : mid[u] = at[u]
          /\ \A u \in Handles \ {k} : at'[u] = mid[u]
      BY <1>3 DEF Move, Places
    <3> HIDE DEF mid
    <3>. "none" \notin Refs
      BY DEF Refs
    <3>2. /\ Strongs(mid) = Strongs(at) - (IF at[h] = "strong" THEN 1 ELSE 0)
          /\ Weaks(mid) = Weaks(at) - (IF at[h] \in Refs THEN 1 ELSE 0)
          /\ Strongs(mid) \in Nat /\ Weaks(mid) \in Nat
      <4>1. \A u \in Handles \ {h} : /\ mid[u] = "strong" <=> at[u] = "strong"
                                     /\ mid[u] \in Refs <=> at[u] \in Refs
        BY <3>1
      <4>2. mid[h] # "strong" /\ mid[h] \notin Refs
        BY <3>1
      <4>3. QED
        BY <4>1, <4>2, <3>1, OneHandleMoves
    <3>3. /\ Strongs(at') = Strongs(mid) + (IF at[h] = "strong" THEN 1 ELSE 0)
          /\ Weaks(at') = Weaks(mid) + (IF at[h] \in Refs THEN 1 ELSE 0)
      <4>1. \A u \in Handles \ {k} : /\ at'[u] = "strong" <=> mid[u] = "strong"
                                     /\ at'[u] \in Refs <=> mid[u] \in Refs
        BY <3>1
      <4>2. mid[k] # "strong" /\ mid[k] \notin Refs
        BY <3>1
      <4>3. QED
        BY <4>1, <4>2, <3>1, OneHandleMoves
    <3>4. QED
      BY <3>2, <3>3, SomeHandles
  <2>2. TypeOK'
    BY <1>3 DEF Move, Places, counts
  <2>3. OneDestroyer'
    BY <1>3 DEF Move, OneDestroyer, Owned, counts
  <2>4. OneFreer'
    BY <1>3, InvTells DEF Move, OneFreer, NobodyFreed, Owned, Refs, counts
  <2>5. Counted'
    BY <1>3, <2>1 DEF Move, Counted, NobodyFreed, Owned, counts
  <2>6. QED
    BY <2>2, <2>3, <2>4, <2>5
<1>4. CASE LockSucceeds(h, k)
  <2>0. \E s \in Handles : at[s] = "strong"
    BY <1>4, InvTells DEF LockSucceeds
  <2>1. /\ Strongs(at) \in Nat /\ Weaks(at) \in Nat
        /\ Strongs(at') = Strongs(at) + 1 /\ Weaks(at') = Weaks(at)
    <3>1. /\ at' \in [Handles -> Places] /\ at[k] = "none" /\ at'[k] = "strong"
          /\ \A u \in Handles \ {k} : /\ at'[u] = "strong" <=> at[u] = "strong"
                                      /\ at'[u] \in Refs <=> at[u] \in Refs
      BY <1>4 DEF LockSucceeds, Refs, Places
    <3>2. /\ at[k] \notin Refs /\ at[k] # "strong"
          /\ at'[k] = "strong" /\ at'[k] \notin Refs
      BY <3>1 DEF Refs
    <3>3. QED
      BY <3>1, <3>2, OneHandleMoves
  <2>2. TypeOK'
    BY <1>4 DEF LockSucceeds, Places, Counters
  <2>3. OneDestroyer'
    BY <1>4, <2>0 DEF LockSucceeds, OneDestroyer, Owned
  <2>4. OneFreer'
    BY <1>4, InvTells, <2>0 DEF LockSucceeds, OneFreer, NobodyFreed, Owned, Refs
  <2>5. Counted'
    BY <1>4, <2>1, <2>0 DEF LockSucceeds, Counted, NobodyFreed, Owned
  <2>6. QED
    BY <2>2, <2>3, <2>4, <2>5
<1>5. QED
  BY <1>1, <1>2, <1>3, <1>4 DEF Use

\* A step of one handle changes the counts by that handle only.
LEMMA OneHandleSteps ==
  ASSUME TypeOK, TypeOK', NEW h \in Handles,
         \A u \in Handles \ {h} : at'[u] = at[u]
  PROVE  /\ Strongs(at) \in Nat /\ Weaks(at) \in Nat
         /\ Strongs(at') = Strongs(at) + (IF at'[h] = "strong" THEN 1 ELSE 0)
                                       - (IF at[h] = "strong" THEN 1 ELSE 0)
         /\ Weaks(at') = Weaks(at) + (IF at'[h] \in Refs THEN 1 ELSE 0)
                                   - (IF at[h] \in Refs THEN 1 ELSE 0)
<1>1. at \in [Handles -> Places] /\ at' \in [Handles -> Places]
  BY DEF TypeOK
<1>2. \A u \in Handles \ {h} : /\ at'[u] = "strong" <=> at[u] = "strong"
                               /\ at'[u] \in Refs <=> at[u] \in Refs
  OBVIOUS
<1>3. QED
  BY <1>1, <1>2, OneHandleMoves

\* A lock that finds no owner, or has to look again, changes no count.
LEMMA LookKeepsInv ==
  ASSUME IInv, NEW h \in Handles,
         LockLoad(h) \/ LockExpired(h) \/ LockRetries(h)
  PROVE  IInv'
<1> USE DEF IInv, TypeOK, LockLoad, LockExpired, LockRetries, counts
<1>1. TypeOK'
  BY DEF Places
<1>2. /\ \A u \in Handles \ {h} : at'[u] = at[u]
      /\ at[h] \in {"weak", "cas"} /\ at'[h] \in {"weak", "cas"}
      /\ UNCHANGED <<shared_count, weak_count, destroyed, freed>>
  OBVIOUS
<1>3. Strongs(at') = Strongs(at) /\ Weaks(at') = Weaks(at)
  BY <1>1, <1>2, OneHandleSteps DEF Refs
<1>4. OneDestroyer'
  BY <1>2 DEF OneDestroyer, Owned
<1>5. OneFreer'
  BY <1>2 DEF OneFreer
<1>6. Counted'
  BY <1>2, <1>3 DEF Counted, NobodyFreed, Owned
<1>7. QED
  BY <1>1, <1>4, <1>5, <1>6

\* The owner that finds itself the last is alone to destroy the object.
LEMMA ReleaseStrongKeepsInv ==
  ASSUME IInv, NEW h \in Handles, ReleaseStrong(h)
  PROVE  IInv'
<1> USE DEF IInv, TypeOK
<1>1. TypeOK'
  <2>1. at[h] = "strong" /\ shared_count \in Int /\ shared_count >= 0
    BY InvTells DEF ReleaseStrong
  <2>2. QED
    BY <2>1 DEF ReleaseStrong, Places, Counters
<1>2. /\ \A u \in Handles \ {h} : at'[u] = at[u]
      /\ at[h] = "strong" /\ at'[h] = IF shared_count' = -1 THEN "destruct" ELSE "none"
      /\ shared_count' = shared_count - 1
      /\ UNCHANGED <<weak_count, destroyed, freed>>
  BY DEF ReleaseStrong
<1>3. Strongs(at') = Strongs(at) - 1 /\ Weaks(at') = Weaks(at) /\ Strongs(at) \in Nat
  BY <1>1, <1>2, OneHandleSteps DEF Refs
<1>4. shared_count' = Strongs(at') - 1
  BY <1>2, <1>3 DEF Counted
<1>5. Strongs(at') \in Nat /\ (Strongs(at') > 0 <=> \E u \in Handles : at'[u] = "strong")
  BY SomeHandles
<1>6. shared_count' = -1 <=> ~\E u \in Handles : at'[u] = "strong"
  BY <1>4, <1>5
<1>7. Owned /\ Owned'
  BY <1>2, <1>6 DEF Owned
<1>8. OneDestroyer'
  BY <1>2, <1>6, <1>7 DEF OneDestroyer
<1>9. OneFreer'
  BY <1>2 DEF OneFreer
<1>10. Counted'
  BY <1>2, <1>3, <1>4, <1>7 DEF Counted, NobodyFreed
<1>11. QED
  BY <1>1, <1>8, <1>9, <1>10

\* The destructor runs while the owners' weak reference is held, and passes
\* it on to the thread that ran it.
LEMMA DestructKeepsInv ==
  ASSUME IInv, NEW h \in Handles, Destruct(h)
  PROVE  IInv'
<1> USE DEF IInv, TypeOK
<1>1. TypeOK'
  BY DEF Destruct, Places, counts
<1>2. /\ \A u \in Handles \ {h} : at'[u] = at[u]
      /\ at[h] = "destruct" /\ at'[h] = "load"
      /\ destroyed' = destroyed + 1
      /\ UNCHANGED <<shared_count, weak_count, freed>>
  BY DEF Destruct, counts
<1>3. Strongs(at') = Strongs(at) /\ Weaks(at') = Weaks(at) + 1 /\ Weaks(at) \in Nat
  BY <1>1, <1>2, OneHandleSteps DEF Refs
<1>4. Owned /\ ~Owned'
  BY <1>2 DEF Owned, OneDestroyer
<1>5. OneDestroyer'
  BY <1>2, <1>4 DEF OneDestroyer, Owned
<1>6. OneFreer'
  BY <1>2 DEF OneFreer
<1>7. Counted'
  BY <1>2, <1>3, <1>4 DEF Counted, NobodyFreed
<1>8. QED
  BY <1>1, <1>5, <1>6, <1>7

LEMMA ReleaseWeakKeepsInv ==
  ASSUME IInv, NEW h \in Handles, ReleaseWeak(h)
  PROVE  IInv'
<1> USE DEF IInv, TypeOK
<1>1. TypeOK'
  BY DEF ReleaseWeak, Places, counts
<1>2. /\ \A u \in Handles \ {h} : at'[u] = at[u]
      /\ at[h] = "weak" /\ at'[h] = "load"
      /\ UNCHANGED <<shared_count, weak_count, destroyed, freed>>
  BY DEF ReleaseWeak, counts
<1>3. Strongs(at') = Strongs(at) /\ Weaks(at') = Weaks(at)
  BY <1>1, <1>2, OneHandleSteps DEF Refs
<1>4. OneDestroyer'
  BY <1>2 DEF OneDestroyer, Owned
<1>5. OneFreer'
  BY <1>2 DEF OneFreer
<1>6. Counted'
  BY <1>2, <1>3 DEF Counted, NobodyFreed, Owned
<1>7. QED
  BY <1>1, <1>4, <1>5, <1>6

\* The shortcut is safe: who sees 0 is the only handle left, so nobody can
\* take another reference after the look.
LEMMA WeakLoadKeepsInv ==
  ASSUME IInv, NEW h \in Handles, WeakLoad(h)
  PROVE  IInv'
<1> USE DEF IInv, TypeOK
<1>1. TypeOK'
  BY DEF WeakLoad, Places, counts
<1>2. /\ \A u \in Handles \ {h} : at'[u] = at[u]
      /\ at[h] = "load" /\ at'[h] = IF weak_count = 0 THEN "free" ELSE "decrement"
      /\ UNCHANGED <<shared_count, weak_count, destroyed, freed>>
  BY DEF WeakLoad, counts
<1>3. OneDestroyer'
  BY <1>2 DEF OneDestroyer, Owned
<1>4. CASE weak_count = 0
  <2>1. ~Owned /\ \A k \in Handles : k # h => at[k] = "none"
    BY <1>2, <1>4, LastRef DEF Refs
  <2>2. at'[h] = "free" /\ \A k \in Handles : k # h => at'[k] = "none"
    BY <1>2, <1>4, <2>1
  <2>3. OneFreer'
    BY <1>2, <2>2 DEF OneFreer
  <2>4. Strongs(at') = Strongs(at)
    BY <1>1, <1>2, <1>4, OneHandleSteps DEF Refs
  <2>5. Counted'
    BY <1>2, <2>2, <2>4 DEF Counted, NobodyFreed
  <2>6. QED
    BY <1>1, <1>3, <2>3, <2>5
<1>5. CASE weak_count # 0
  <2>1. Strongs(at') = Strongs(at) /\ Weaks(at') = Weaks(at)
    BY <1>1, <1>2, <1>5, OneHandleSteps DEF Refs
  <2>2. OneFreer'
    BY <1>2, <1>5 DEF OneFreer
  <2>3. Counted'
    BY <1>2, <1>5, <2>1 DEF Counted, NobodyFreed, Owned
  <2>4. QED
    BY <1>1, <1>3, <2>2, <2>3
<1>6. QED
  BY <1>4, <1>5

LEMMA WeakDecrementKeepsInv ==
  ASSUME IInv, NEW h \in Handles, WeakDecrement(h)
  PROVE  IInv'
<1> USE DEF IInv, TypeOK
<1>1. TypeOK'
  <2>1. weak_count \in Int /\ weak_count >= 0
    BY InvTells DEF WeakDecrement, Refs
  <2>2. QED
    BY <2>1 DEF WeakDecrement, Places, Counters
<1>2. /\ \A u \in Handles \ {h} : at'[u] = at[u]
      /\ at[h] = "decrement" /\ at'[h] = IF weak_count' = -1 THEN "free" ELSE "none"
      /\ weak_count' = weak_count - 1
      /\ UNCHANGED <<shared_count, destroyed, freed>>
  BY DEF WeakDecrement
<1>3. OneDestroyer'
  BY <1>2 DEF OneDestroyer, Owned
<1>4. CASE weak_count = 0
  <2>1. ~Owned /\ \A k \in Handles : k # h => at[k] = "none"
    BY <1>2, <1>4, LastRef DEF Refs
  <2>2. at'[h] = "free" /\ \A k \in Handles : k # h => at'[k] = "none"
    BY <1>2, <1>4, <2>1
  <2>3. OneFreer'
    BY <1>2, <2>2 DEF OneFreer
  <2>4. Strongs(at') = Strongs(at)
    BY <1>1, <1>2, <2>2, OneHandleSteps DEF Refs
  <2>5. Counted'
    BY <1>2, <2>2, <2>4 DEF Counted, NobodyFreed
  <2>6. QED
    BY <1>1, <1>3, <2>3, <2>5
<1>5. CASE weak_count # 0
  <2>1. at'[h] = "none"
    BY <1>2, <1>5
  <2>2. Strongs(at') = Strongs(at) /\ Weaks(at') = Weaks(at) - 1 /\ Weaks(at) \in Nat
    BY <1>1, <1>2, <2>1, OneHandleSteps DEF Refs
  <2>3. OneFreer'
    BY <1>2, <2>1 DEF OneFreer
  <2>4. NobodyFreed
    BY <1>2, InvTells DEF Refs
  <2>5. Counted'
    BY <1>2, <2>1, <2>2, <2>4 DEF Counted, NobodyFreed, Owned
  <2>6. QED
    BY <1>1, <1>3, <2>3, <2>5
<1>6. QED
  BY <1>4, <1>5

LEMMA FreeKeepsInv ==
  ASSUME IInv, NEW h \in Handles, Free(h)
  PROVE  IInv'
<1> USE DEF IInv, TypeOK
<1>1. TypeOK'
  BY DEF Free, Places, counts
<1>2. /\ \A u \in Handles \ {h} : at'[u] = at[u]
      /\ at[h] = "free" /\ at'[h] = "none"
      /\ freed' = freed + 1
      /\ UNCHANGED <<shared_count, weak_count, destroyed>>
  BY DEF Free, counts
<1>3. freed = 0 /\ \A u \in Handles : at'[u] = "none"
  BY <1>2 DEF OneFreer
<1>4. OneDestroyer'
  BY <1>2 DEF OneDestroyer, Owned
<1>5. OneFreer'
  BY <1>2, <1>3 DEF OneFreer
<1>6. Strongs(at') = Strongs(at)
  BY <1>1, <1>2, OneHandleSteps DEF Refs
<1>7. Counted'
  BY <1>2, <1>3, <1>6 DEF Counted, NobodyFreed
<1>8. QED
  BY <1>1, <1>4, <1>5, <1>7

LEMMA InitEstablishesInv ==
  Init => IInv
<1> SUFFICES ASSUME Init PROVE IInv
  OBVIOUS
<1>1. PICK h \in Handles :
        at = [k \in Handles |-> IF k = h THEN "strong" ELSE "none"]
  BY DEF Init
<1> DEFINE none == [k \in Handles |-> "none"]
<1>2. /\ at[h] = "strong" /\ \A k \in Handles : k # h => at[k] = "none"
      /\ at \in [Handles -> Places] /\ none \in [Handles -> Places]
      /\ \A k \in Handles : none[k] = "none"
  BY <1>1 DEF Places
<1> HIDE DEF none
<1>3. \A u \in Handles \ {h} : /\ at[u] = "strong" <=> none[u] = "strong"
                               /\ at[u] \in Refs <=> none[u] \in Refs
  BY <1>2
<1>4. Strongs(none) = 0 /\ Weaks(none) = 0
  BY <1>2, SomeHandles DEF Refs
<1>5. Strongs(at) = 1 /\ Weaks(at) = 0
  <2>1. /\ at[h] = "strong" /\ none[h] # "strong"
        /\ at[h] \notin Refs /\ none[h] \notin Refs
    BY <1>2 DEF Refs
  <2>2. /\ Strongs(at) = Strongs(none) + (IF at[h] = "strong" THEN 1 ELSE 0)
                         - (IF none[h] = "strong" THEN 1 ELSE 0)
        /\ Weaks(at) = Weaks(none) + (IF at[h] \in Refs THEN 1 ELSE 0)
                       - (IF none[h] \in Refs THEN 1 ELSE 0)
    BY <1>2, <1>3, OneHandleMoves
  <2>3. QED
    BY <1>4, <2>1, <2>2
<1>6. QED
  BY <1>2, <1>5 DEF Init, IInv, TypeOK, Counters, OneDestroyer, OneFreer, Counted, NobodyFreed, Owned

LEMMA StepKeepsInv ==
  IInv /\ [Next]_vars => IInv'
<1> SUFFICES ASSUME IInv, [Next]_vars PROVE IInv'
  OBVIOUS
<1>1. CASE UNCHANGED vars
  BY <1>1 DEF vars, IInv, TypeOK, OneDestroyer, OneFreer, Counted, NobodyFreed, Owned,
              Strongs, Weaks, Who
<1>2. ASSUME NEW h \in Handles, NEW k \in Handles, Use(h, k)
      PROVE  IInv'
  BY <1>2, UseKeepsInv
<1>3. ASSUME NEW h \in Handles, LockLoad(h) \/ LockExpired(h) \/ LockRetries(h)
      PROVE  IInv'
  BY <1>3, LookKeepsInv
<1>4. ASSUME NEW h \in Handles, ReleaseStrong(h) \/ ReleaseWeak(h) \/ Finish(h)
      PROVE  IInv'
  BY <1>4, ReleaseStrongKeepsInv, ReleaseWeakKeepsInv, DestructKeepsInv, WeakLoadKeepsInv,
     WeakDecrementKeepsInv, FreeKeepsInv DEF Finish
<1>5. QED
  BY <1>1, <1>2, <1>3, <1>4 DEF Next

LEMMA InvHolds ==
  Spec => []IInv
  BY InitEstablishesInv, StepKeepsInv, PTL DEF Spec
-----------------------------------------------------------------------------
\* The destructor and the deallocation of an object made by make() run at
\* most once, the destructor first, for any number of handles in any threads.
THEOREM ReleaseOnce ==
  Spec => []ReleasedOnce
<1>1. IInv => ReleasedOnce
  <2> SUFFICES ASSUME IInv PROVE ReleasedOnce
    OBVIOUS
  <2>1. destroyed \in {0, 1} /\ freed \in {0, 1}
    BY DEF IInv, OneDestroyer, OneFreer
  <2>2. ASSUME freed = 1
        PROVE  destroyed = 1
    BY <2>1, <2>2 DEF IInv, OneDestroyer, OneFreer, Owned
  <2>3. QED
    BY <2>1, <2>2 DEF ReleasedOnce
<1>2. QED
  BY <1>1, InvHolds, PTL

\* No strong handle outlives the object, and no handle, no lock and no
\* release in progress outlives the memory the counters live in.
THEOREM NoDanglingHandles == Spec => []NoUseAfterFree
<1>1. IInv => NoUseAfterFree
  BY DEF IInv, OneDestroyer, OneFreer, Owned, NoUseAfterFree, In
<1>2. QED
  BY <1>1, InvHolds, PTL

\* The counters count the handles; types included.
THEOREM CountsHold ==
  Spec => [](TypeOK /\ CountsExact)
<1>1. IInv => TypeOK /\ CountsExact
  <2> SUFFICES ASSUME IInv PROVE TypeOK /\ CountsExact
    OBVIOUS
  <2>1. Strongs(at) = Cardinality(In({"strong"})) /\ Weaks(at) = Cardinality(WeakRefs)
    BY DEF Strongs, Weaks, Who, In, WeakRefs, Refs
  <2>2. Owned <=> In({"strong", "destruct"}) # {}
    BY DEF Owned, In
  <2>3. NobodyFreed <=> freed = 0 /\ In({"free"}) = {}
    BY DEF NobodyFreed, In
  <2>4. QED
    BY <2>1, <2>2, <2>3 DEF IInv, Counted, CountsExact
<1>2. QED
  BY <1>1, InvHolds, PTL

\* lock() on a weak handle never brings a dead object back.
THEOREM NoRevivalHolds ==
  Spec => NoRevival
<1>1. IInv /\ [Next]_vars => [shared_count = -1 => shared_count' = -1]_vars
  <2> SUFFICES ASSUME IInv, Next, shared_count = -1
               PROVE  shared_count' = -1
    BY DEF vars
  <2>1. \A h \in Handles : at[h] # "strong"
    BY InvTells
  <2>2. QED
    BY <2>1 DEF Next, Use, CopyStrong, CopyWeak, Move, LockLoad, LockExpired, LockSucceeds,
                LockRetries, ReleaseStrong, Destruct, ReleaseWeak, WeakLoad, WeakDecrement,
                Free, Finish, counts
<1>2. QED
  BY <1>1, InvHolds, PTL DEF Spec, NoRevival
=============================================================================
