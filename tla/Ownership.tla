----------------------------- MODULE Ownership -----------------------------
(***************************************************************************)
(* What reference-counted handles promise: a handle has the value it was   *)
(* given, and an object lives until no strong handle points to it, then    *)
(* goes, its own handle with it.  Nothing is said of counters or of when   *)
(* an object without owners is collected, only that it is.                 *)
(***************************************************************************)
CONSTANTS StrongVars, WeakVars, Objects, Null

VARIABLES points,  \* what each handle points to
          alive    \* the objects that exist

vars == <<points, alive>>

Handles == StrongVars \cup WeakVars \cup Objects

Owners(o) == {h \in StrongVars \cup alive : points[h] = o}

Init == points = [h \in Handles |-> Null] /\ alive = {}

Make(h, o) ==
  /\ o \notin alive /\ \A k \in Handles : points[k] # o
  /\ points' = [points EXCEPT ![h] = o]
  /\ alive' = alive \cup {o}

Assign(h, k) ==
  /\ points' = [points EXCEPT ![h] = points[k]]
  /\ UNCHANGED alive

Move(h, k) ==
  /\ points' = [points EXCEPT ![k] = Null, ![h] = points[k]]
  /\ UNCHANGED alive

Swap(h, k) ==
  /\ points' = [points EXCEPT ![h] = points[k], ![k] = points[h]]
  /\ UNCHANGED alive

Clear(h) ==
  /\ points' = [points EXCEPT ![h] = Null]
  /\ UNCHANGED alive

\* h becomes an owner of what the weak handle w points to, if it has one.
Lock(h, w) ==
  /\ Owners(points[w]) # {}
  /\ Assign(h, w)

Collect(o) ==
  /\ o \in alive /\ Owners(o) = {}
  /\ points' = [points EXCEPT ![o] = Null]
  /\ alive' = alive \ {o}

Next ==
  \/ \E h \in StrongVars \cup alive :
       \/ \E o \in Objects : Make(h, o)
       \/ \E k \in StrongVars \cup alive : Assign(h, k) \/ Move(h, k) \/ Swap(h, k)
       \/ \E w \in WeakVars : Lock(h, w)
       \/ Clear(h)
  \/ \E w \in WeakVars :
       \/ \E k \in Handles : Assign(w, k)
       \/ \E k \in WeakVars : Move(w, k) \/ Swap(w, k)
       \/ Clear(w)
  \/ \E o \in Objects : Collect(o)

Spec == Init /\ [][Next]_vars

FairSpec == Spec /\ \A o \in Objects : WF_vars(Collect(o))
=============================================================================
