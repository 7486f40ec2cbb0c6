---------------------------- MODULE ControlBlock ----------------------------
(***************************************************************************)
(* The reference counts of one object made by SharedPtr.make, RcPtr.make   *)
(* or IntrusivePtr.make (btl/autoptr/common.d), with a shared control      *)
(* block: the counters are atomics and handles may be used by different    *)
(* threads.                                                                *)
(*                                                                         *)
(* Both counters start at 0, which stands for one reference: shared_count  *)
(* is the number of strong handles minus one; weak_count counts the weak   *)
(* handles, and all strong handles together hold one weak reference.  -1   *)
(* means there are none left.                                              *)
(*                                                                         *)
(* A handle is a variable of type SharedPtr or WeakPtr, used by one thread *)
(* at a time; so every handle is a process, whose operations interleave    *)
(* with those of all other handles between any two accesses to a counter.  *)
(***************************************************************************)
EXTENDS Integers, FiniteSets

CONSTANT Handles

ASSUME HandlesAssumption == IsFiniteSet(Handles)

VARIABLES shared_count, weak_count,
          at,         \* what each handle is, or is in the middle of
          owners,     \* the shared_count that lock() last saw
          destroyed,  \* how often the object's destructor has run
          freed       \* how often its memory has been given back

counts == <<shared_count, weak_count>>
vars == <<shared_count, weak_count, at, owners, destroyed, freed>>

\* "none": no handle, or one that manages no object.  "cas": a weak handle
\* in add_shared_if_exists.  "destruct": the last strong handle, on its way
\* to on_zero_shared.  "load", "decrement": in release!true, before each
\* access to weak_count.  "free": on its way to on_zero_weak.
Places == {"none", "strong", "weak", "cas", "destruct", "load", "decrement", "free"}

In(P) == {h \in Handles : at[h] \in P}

\* The handles that hold a weak reference of their own.
WeakRefs == In({"weak", "cas", "load", "decrement"})

Counters == Nat \cup {-1}

TypeOK ==
  /\ shared_count \in Counters /\ weak_count \in Counters
  /\ at \in [Handles -> Places]
  /\ owners \in [Handles -> Counters]
  /\ destroyed \in Nat /\ freed \in Nat

\* MakeEmplace.make: the control block and the object in one allocation, and
\* one strong handle to them.
Init ==
  /\ shared_count = 0 /\ weak_count = 0
  /\ \E h \in Handles :
       at = [k \in Handles |-> IF k = h THEN "strong" ELSE "none"]
  /\ owners = [h \in Handles |-> 0]
  /\ destroyed = 0 /\ freed = 0
-----------------------------------------------------------------------------
\* A strong handle is copied into the empty handle k: add!false.
CopyStrong(h, k) ==
  /\ at[h] = "strong" /\ at[k] = "none"
  /\ shared_count' = shared_count + 1
  /\ at' = [at EXCEPT ![k] = "strong"]
  /\ UNCHANGED <<weak_count, owners, destroyed, freed>>

\* A weak handle k is made from h, strong or weak: add!true.
CopyWeak(h, k) ==
  /\ at[h] \in {"strong", "weak"} /\ at[k] = "none"
  /\ weak_count' = weak_count + 1
  /\ at' = [at EXCEPT ![k] = "weak"]
  /\ UNCHANGED <<shared_count, owners, destroyed, freed>>

\* A faulty variant: a move that counts like a copy.
MoveCounted(h, k) ==
  /\ at[h] \in {"strong", "weak"} /\ at[k] = "none"
  /\ shared_count' = IF at[h] = "strong" THEN shared_count + 1 ELSE shared_count
  /\ at' = [at EXCEPT ![h] = "none", ![k] = at[h]]
  /\ UNCHANGED <<weak_count, owners, destroyed, freed>>

\* Move construction and move assignment: no counter is touched.
Move(h, k) ==
  /\ at[h] \in {"strong", "weak"} /\ at[k] = "none"
  /\ at' = [at EXCEPT ![h] = "none", ![k] = at[h]]
  /\ UNCHANGED <<counts, owners, destroyed, freed>>

\* lock() of a weak handle: the first load in add_shared_if_exists.
LockLoad(h) ==
  /\ at[h] = "weak"
  /\ owners' = [owners EXCEPT ![h] = shared_count]
  /\ at' = [at EXCEPT ![h] = "cas"]
  /\ UNCHANGED <<counts, destroyed, freed>>

\* The loop ends without a new handle: there was no owner left.
LockExpired(h) ==
  /\ at[h] = "cas" /\ owners[h] = -1
  /\ at' = [at EXCEPT ![h] = "weak"]
  /\ UNCHANGED <<counts, owners, destroyed, freed>>

\* A faulty variant: no test for -1.
LockRevives(h, k) ==
  /\ at[h] = "cas" /\ at[k] = "none"
  /\ owners[h] = shared_count
  /\ shared_count' = owners[h] + 1
  /\ at' = [at EXCEPT ![h] = "weak", ![k] = "strong"]
  /\ UNCHANGED <<weak_count, owners, destroyed, freed>>

\* casWeak succeeds and the empty handle k becomes strong.
LockSucceeds(h, k) ==
  /\ at[h] = "cas" /\ at[k] = "none"
  /\ owners[h] # -1 /\ owners[h] = shared_count
  /\ shared_count' = owners[h] + 1
  /\ at' = [at EXCEPT ![h] = "weak", ![k] = "strong"]
  /\ UNCHANGED <<weak_count, owners, destroyed, freed>>

\* casWeak fails, because the counter has changed or spuriously, and leaves
\* the counter's value in owners.
LockRetries(h) ==
  /\ at[h] = "cas" /\ owners[h] # -1
  /\ owners' = [owners EXCEPT ![h] = shared_count]
  /\ UNCHANGED <<counts, at, destroyed, freed>>

\* A faulty variant: counting from one.
ReleaseStrongFromOne(h) ==
  /\ at[h] = "strong"
  /\ shared_count' = shared_count - 1
  /\ at' = [at EXCEPT ![h] = IF shared_count' <= 0 THEN "destruct" ELSE "none"]
  /\ UNCHANGED <<weak_count, owners, destroyed, freed>>

\* release!false: rc_decrement and the test of its result.
ReleaseStrong(h) ==
  /\ at[h] = "strong"
  /\ shared_count' = shared_count - 1
  /\ at' = [at EXCEPT ![h] = IF shared_count' = -1 THEN "destruct" ELSE "none"]
  /\ UNCHANGED <<weak_count, owners, destroyed, freed>>

\* A faulty variant: the owners' weak reference is not given up.
DestructOnly(h) ==
  /\ at[h] = "destruct"
  /\ destroyed' = destroyed + 1
  /\ at' = [at EXCEPT ![h] = "none"]
  /\ UNCHANGED <<counts, owners, freed>>

\* on_zero_shared runs the destructor; release!true follows.
Destruct(h) ==
  /\ at[h] = "destruct"
  /\ destroyed' = destroyed + 1
  /\ at' = [at EXCEPT ![h] = "load"]
  /\ UNCHANGED <<counts, owners, freed>>

\* release!true is called on a weak handle.
ReleaseWeak(h) ==
  /\ at[h] = "weak"
  /\ at' = [at EXCEPT ![h] = "load"]
  /\ UNCHANGED <<counts, owners, destroyed, freed>>

\* A faulty variant: the shortcut taken with a reference left.
WeakLoadTooEarly(h) ==
  /\ at[h] = "load"
  /\ at' = [at EXCEPT ![h] = IF weak_count <= 1 THEN "free" ELSE "decrement"]
  /\ UNCHANGED <<counts, owners, destroyed, freed>>

\* The shortcut: a releaser that sees 0 holds the only weak reference and
\* does not bother to decrement.
WeakLoad(h) ==
  /\ at[h] = "load"
  /\ at' = [at EXCEPT ![h] = IF weak_count = 0 THEN "free" ELSE "decrement"]
  /\ UNCHANGED <<counts, owners, destroyed, freed>>

WeakDecrement(h) ==
  /\ at[h] = "decrement"
  /\ weak_count' = weak_count - 1
  /\ at' = [at EXCEPT ![h] = IF weak_count' = -1 THEN "free" ELSE "none"]
  /\ UNCHANGED <<shared_count, owners, destroyed, freed>>

\* on_zero_weak: deallocate.
Free(h) ==
  /\ at[h] = "free"
  /\ freed' = freed + 1
  /\ at' = [at EXCEPT ![h] = "none"]
  /\ UNCHANGED <<counts, owners, destroyed>>

\* The rest of a release that has begun.
Finish(h) == Destruct(h) \/ WeakLoad(h) \/ WeakDecrement(h) \/ Free(h)

Use(h, k) ==
  \/ CopyStrong(h, k) \/ CopyWeak(h, k) \/ Move(h, k)
  \/ LockSucceeds(h, k)

Next ==
  \/ \E h, k \in Handles : Use(h, k)
  \/ \E h \in Handles : \/ LockLoad(h) \/ LockExpired(h) \/ LockRetries(h)
                        \/ ReleaseStrong(h) \/ ReleaseWeak(h)
                        \/ Finish(h)

Spec == Init /\ [][Next]_vars

\* A thread that has begun to release a handle goes on.  No handle has to be
\* released.
FairSpec == Spec /\ \A h \in Handles : WF_vars(Finish(h))
-----------------------------------------------------------------------------
\* The object behind a strong handle has not been destroyed, nor has a lock
\* that has just succeeded revived a dead one; and the block behind a handle,
\* or behind a release in progress, has not been given back: no access to a
\* counter hits freed memory.
NoUseAfterFree ==
  /\ In({"strong"}) # {} => destroyed = 0
  /\ (\E h \in Handles : at[h] # "none") => freed = 0

\* The destructor and the deallocation run once, and in that order.
ReleasedOnce == destroyed <= 1 /\ freed <= destroyed

\* shared_count is the number of strong handles minus one; weak_count is the
\* number of weak references minus one until somebody has found the last.
CountsExact ==
  /\ shared_count = Cardinality(In({"strong"})) - 1
  /\ freed = 0 /\ In({"free"}) = {} =>
       weak_count + 1 = Cardinality(WeakRefs)
                        + (IF In({"strong", "destruct"}) # {} THEN 1 ELSE 0)

\* Once the last owner is gone, lock() never brings the object back.
NoRevival == [][shared_count = -1 => shared_count' = -1]_vars

\* Nothing leaks: when the last handle is gone or being released, the object
\* is destroyed and its memory given back.
EventuallyFreed ==
  In({"strong", "weak", "cas"}) = {} ~> destroyed = 1 /\ freed = 1
=============================================================================
