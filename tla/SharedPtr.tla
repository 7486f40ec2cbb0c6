----------------------------- MODULE SharedPtr -----------------------------
(***************************************************************************)
(* Handles of one thread to several objects: SharedPtr (shared_ptr.d) and  *)
(* RcPtr or IntrusivePtr (rc_ptr.d, intrusive_ptr.d), strong and weak, in  *)
(* variables and inside objects.  Every object has one member handle, so   *)
(* that lists and cycles can be built.  Assignment releases what the       *)
(* handle had, and a release may run destructors that release further      *)
(* objects, all before the handle gets its new value.  todo is the stack   *)
(* of the calls in progress, call the assignment they are part of.         *)
(***************************************************************************)
EXTENDS Integers, Sequences, FiniteSets

CONSTANTS StrongVars,  \* variables of type SharedPtr or RcPtr
          WeakVars,    \* variables of their WeakType
          Objects,     \* memory for objects, each with its control block
          Null,
          GuardsSelf,  \* TRUE: RcPtr and IntrusivePtr, FALSE: SharedPtr
          Careful      \* TRUE: no handle is assigned from one that may die by it

ASSUME HandlesAssumption ==
  /\ IsFiniteSet(StrongVars) /\ IsFiniteSet(WeakVars) /\ IsFiniteSet(Objects)
  /\ StrongVars \cap (WeakVars \cup Objects) = {} /\ WeakVars \cap Objects = {}
  /\ Null \notin StrongVars \cup WeakVars \cup Objects
  /\ GuardsSelf \in BOOLEAN /\ Careful \in BOOLEAN

VARIABLES ptr,           \* _control and _element of each handle
          shared_count, weak_count,
          status,        \* of each object: "free", "alive" or "destroyed"
          todo,          \* calls in progress, the innermost first
          call           \* the opAssign they belong to

counters == <<shared_count, weak_count>>
vars == <<ptr, shared_count, weak_count, status, todo, call>>

\* An object stands for the handle inside it, too.
Handles == StrongVars \cup WeakVars \cup Objects
Strong == StrongVars \cup Objects
Values == Objects \cup {Null}

Alive == {o \in Objects : status[o] = "alive"}
Usable == StrongVars \cup WeakVars \cup Alive

Calls == [do : {"release", "destroy", "releaseWeak"}, obj : Objects]

\* An assignment in progress: to gets value, or, if it is a copy, what from
\* has by then; drop is a temporary that is released at the end.
NoCall == [how |-> "none"]
Assignments ==
  [how : {"copy"}, to : Handles, from : Handles, drop : Values]
    \cup [how : {"set"}, to : Handles, value : Values]
    \cup {NoCall}

TypeOK ==
  /\ ptr \in [Handles -> Values]
  /\ shared_count \in [Objects -> Nat \cup {-1}]
  /\ weak_count \in [Objects -> Nat]
  /\ status \in [Objects -> {"free", "alive", "destroyed"}]
  /\ todo \in Seq(Calls)
  /\ call \in Assignments

Init ==
  /\ ptr = [h \in Handles |-> Null]
  /\ shared_count = [o \in Objects |-> -1] /\ weak_count = [o \in Objects |-> 0]
  /\ status = [o \in Objects |-> "free"]
  /\ todo = <<>> /\ call = NoCall
-----------------------------------------------------------------------------
Idle == todo = <<>> /\ call = NoCall

\* The member handle a client reaches from a variable.
Members == {ptr[x] : x \in StrongVars} \ {Null}

\* What a careful client assigns h from: another handle, in a variable or in
\* an object that some variable other than h owns.
Outlives(k, h) ==
  /\ k # h
  /\ k \in Objects => \E x \in StrongVars \ {h} : ptr[x] = k

\* A faulty variant: the old value is not released.
ReleasingNothing(h) == <<>>

\* _release of handle h.
Releasing(h) ==
  IF ptr[h] = Null THEN <<>>
  ELSE <<[do |-> IF h \in Strong THEN "release" ELSE "releaseWeak", obj |-> ptr[h]]>>

\* opAssign and the destructor begin with _release.
Begin(h, assignment) ==
  /\ todo' = Releasing(h)
  /\ call' = assignment

Set(h, v) == [how |-> "set", to |-> h, value |-> v]
CopyOf(h, k, d) == [how |-> "copy", to |-> h, from |-> k, drop |-> d]

Counted(h, v, f) ==
  IF v # Null /\ h \in Strong THEN [f EXCEPT ![v] = @ + 1] ELSE f
CountedWeak(h, v, f) ==
  IF v # Null /\ h \in WeakVars THEN [f EXCEPT ![v] = @ + 1] ELSE f
-----------------------------------------------------------------------------
\* h = make(): a new object, then a move assignment.
Make(h, o) ==
  /\ Idle /\ status[o] = "free"
  /\ h \in StrongVars \cup Members
  /\ status' = [status EXCEPT ![o] = "alive"]
  /\ shared_count' = [shared_count EXCEPT ![o] = 0]
  /\ weak_count' = [weak_count EXCEPT ![o] = 0]
  /\ ptr' = [ptr EXCEPT ![o] = Null]
  /\ Begin(h, Set(h, o))

\* h = k.  RcPtr and IntrusivePtr return at once if k is h; the test of
\* SharedPtr is made only for handles of different types.
Copy(h, k) ==
  /\ Idle
  /\ \/ h \in StrongVars \cup Members /\ k \in StrongVars \cup Members
     \/ h \in WeakVars /\ k \in StrongVars \cup Members \cup WeakVars
  /\ GuardsSelf => h # k
  /\ Careful => Outlives(k, h)
  /\ Begin(h, CopyOf(h, k, Null))
  /\ UNCHANGED <<ptr, counters, status>>

\* h = move(k).
Move(h, k) ==
  /\ Idle /\ h # k
  /\ \/ h \in StrongVars \cup Members /\ k \in StrongVars \cup Members
     \/ h \in WeakVars /\ k \in WeakVars
  /\ ptr' = [ptr EXCEPT ![k] = Null]
  /\ Begin(h, Set(h, ptr[k]))
  /\ UNCHANGED <<counters, status>>

\* h = null, or a variable leaves its scope.
Clear(h) ==
  /\ Idle
  /\ h \in StrongVars \cup Members \cup WeakVars
  /\ Begin(h, Set(h, Null))
  /\ UNCHANGED <<ptr, counters, status>>

\* proxySwap, and h = k.exchange(move(h)), which moves through temporaries.
Swap(h, k) ==
  /\ Idle /\ h # k
  /\ \/ h \in StrongVars \cup Members /\ k \in StrongVars \cup Members
     \/ h \in WeakVars /\ k \in WeakVars
  /\ ptr' = [ptr EXCEPT ![h] = ptr[k], ![k] = ptr[h]]
  /\ UNCHANGED <<counters, status, todo, call>>

\* A faulty variant: no test for an object without owners.
LockRevives(h, w) ==
  /\ Idle
  /\ h \in StrongVars \cup Members /\ w \in WeakVars
  /\ shared_count' = Counted(h, ptr[w], shared_count)
  /\ Begin(h, Set(h, ptr[w]))
  /\ UNCHANGED <<ptr, weak_count, status>>

\* h = w.lock(): add_shared_if_exists of a temporary, then a move assignment.
Lock(h, w) ==
  /\ Idle
  /\ h \in StrongVars \cup Members /\ w \in WeakVars
  /\ LET o == ptr[w] IN
     IF o # Null /\ shared_count[o] # -1
     THEN /\ shared_count' = [shared_count EXCEPT ![o] = @ + 1]
          /\ Begin(h, Set(h, o))
     ELSE /\ Begin(h, Set(h, Null))
          /\ UNCHANGED shared_count
  /\ UNCHANGED <<ptr, weak_count, status>>

\* h.compareExchange(expected, desired) between variables; desired is passed
\* by value and is moved into h or released at the end.
CompareExchange(h, expected, desired) ==
  /\ Idle /\ {h, expected, desired} \subseteq StrongVars
  /\ shared_count' = Counted(h, ptr[desired], shared_count)
  /\ IF ptr[h] = ptr[expected]
     THEN Begin(h, Set(h, ptr[desired]))
     ELSE Begin(expected, CopyOf(expected, h, ptr[desired]))
  /\ UNCHANGED <<ptr, weak_count, status>>
-----------------------------------------------------------------------------
Top(d) == todo # <<>> /\ Head(todo).do = d
Obj == Head(todo).obj

\* release!false, up to the test of the decremented counter.
Release ==
  /\ Top("release")
  /\ shared_count' = [shared_count EXCEPT ![Obj] = @ - 1]
  /\ todo' = IF shared_count'[Obj] = -1
             THEN <<[do |-> "destroy", obj |-> Obj],
                    [do |-> "releaseWeak", obj |-> Obj]>> \o Tail(todo)
             ELSE Tail(todo)
  /\ UNCHANGED <<ptr, weak_count, status, call>>

\* A faulty variant: the member handle is not destroyed.
DestroyOnly ==
  /\ Top("destroy")
  /\ status' = [status EXCEPT ![Obj] = "destroyed"]
  /\ todo' = Tail(todo)
  /\ UNCHANGED <<ptr, counters, call>>

\* on_zero_shared: the object's destructor, and that of its member handle.
Destroy ==
  /\ Top("destroy")
  /\ status' = [status EXCEPT ![Obj] = "destroyed"]
  /\ todo' = Releasing(Obj) \o Tail(todo)
  /\ UNCHANGED <<ptr, counters, call>>

\* release!true: the memory is given back by whoever finds the counter at 0.
ReleaseWeak ==
  /\ Top("releaseWeak")
  /\ IF weak_count[Obj] = 0
     THEN status' = [status EXCEPT ![Obj] = "free"] /\ UNCHANGED weak_count
     ELSE weak_count' = [weak_count EXCEPT ![Obj] = @ - 1] /\ UNCHANGED status
  /\ todo' = Tail(todo)
  /\ UNCHANGED <<ptr, shared_count, call>>

\* The end of a move assignment.
FinishSet ==
  /\ todo = <<>> /\ call.how = "set"
  /\ ptr' = [ptr EXCEPT ![call.to] = call.value]
  /\ call' = NoCall
  /\ UNCHANGED <<counters, status, todo>>

\* A faulty variant: the copy is not counted.
FinishCopyUncounted ==
  /\ todo = <<>> /\ call.how = "copy"
  /\ ptr' = [ptr EXCEPT ![call.to] = ptr[call.from]]
  /\ todo' = IF call.drop = Null THEN <<>>
             ELSE <<[do |-> "release", obj |-> call.drop]>>
  /\ call' = NoCall
  /\ UNCHANGED <<counters, status>>

\* The end of a copy assignment: tmp = This(desired), whose value the handle
\* takes over.
FinishCopy ==
  /\ todo = <<>> /\ call.how = "copy"
  /\ ptr' = [ptr EXCEPT ![call.to] = ptr[call.from]]
  /\ shared_count' = Counted(call.to, ptr[call.from], shared_count)
  /\ weak_count' = CountedWeak(call.to, ptr[call.from], weak_count)
  /\ todo' = IF call.drop = Null THEN <<>>
             ELSE <<[do |-> "release", obj |-> call.drop]>>
  /\ call' = NoCall
  /\ UNCHANGED status

Work == Release \/ Destroy \/ ReleaseWeak \/ FinishSet \/ FinishCopy

Next ==
  \/ \E h \in Handles, o \in Objects : Make(h, o)
  \/ \E h, k \in Handles : Copy(h, k) \/ Move(h, k) \/ Swap(h, k) \/ Lock(h, k)
  \/ \E h \in Handles : Clear(h)
  \/ \E h, k, d \in StrongVars : CompareExchange(h, k, d)
  \/ Work

Spec == Init /\ [][Next]_vars

\* A call that has begun goes on.
FairSpec == Spec /\ WF_vars(Work)
-----------------------------------------------------------------------------
\* The handle whose old value is being released.
Target == IF call = NoCall THEN {} ELSE {call.to}

\* "Shares ownership of the object managed by rhs" (shared_ptr.d:545): a
\* strong handle points to an object that has not been destroyed, a weak one
\* to a control block that has not been given back, at every moment except
\* for the handle that is being assigned; and no call in progress has work
\* left on memory that has been given back.
HandlesValid ==
  /\ \A h \in Usable \ Target :
       ptr[h] # Null => status[ptr[h]] \in IF h \in Strong THEN {"alive"}
                                           ELSE {"alive", "destroyed"}
  /\ \A i \in DOMAIN todo : status[todo[i].obj] # "free"
  /\ call # NoCall => call.to \in Usable
  /\ call.how = "copy" => call.from \in Usable

Pending(d, o) == Cardinality({i \in DOMAIN todo : todo[i] = [do |-> d, obj |-> o]})
Pointing(H, o) == Cardinality({h \in H \ Target : ptr[h] = o})
Temporary(H, o) ==
  IF \/ call.how = "set" /\ call.to \in H /\ call.value = o
     \/ call.how = "copy" /\ H # WeakVars /\ call.drop = o
  THEN 1 ELSE 0

\* The counters of a block count the handles, the temporaries and the
\* releases that are still to be made, however deep in a cascade.
CountsExact ==
  \A o \in Objects : status[o] # "free" =>
    /\ shared_count[o] + 1 =
         Pointing(StrongVars \cup Alive, o) + Temporary(Strong, o) + Pending("release", o)
    /\ weak_count[o] + 1 =
         Pointing(WeakVars, o) + Temporary(WeakVars, o) + Pending("releaseWeak", o)
         + (IF shared_count[o] >= 0 THEN 1 ELSE 0)

\* The client's view: a handle being assigned has its new value already, and
\* the handle in an object goes with it.
Own == INSTANCE Ownership WITH
         alive <- Alive,
         points <- [h \in Handles |->
                      IF h \in Target
                      THEN IF call.how = "copy" THEN ptr[call.from] ELSE call.value
                      ELSE IF h \in Objects \ Alive THEN Null ELSE ptr[h]]

\* Assignments give the value the other handle had, objects die only when
\* nobody owns them, and then they do, cascades included.
ImplementsOwnership == Own!FairSpec

\* Between calls every block is there for a handle: nothing leaks but what
\* keeps itself in a cycle.
NoLeak ==
  Idle => \A o \in Objects : status[o] # "free" => \E h \in Usable : ptr[h] = o
=============================================================================
