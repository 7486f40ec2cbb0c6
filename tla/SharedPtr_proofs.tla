------------------------- MODULE SharedPtr_proofs --------------------------
(***************************************************************************)
(* Handles of a careful client, for any variables and objects: every count *)
(* is exact and every handle valid, at every step of a cascade; between    *)
(* calls nothing has leaked; and the handles do what Ownership promises.   *)
(***************************************************************************)
EXTENDS SharedPtr, CountingLemmas, SequenceTheorems

\* How often a call is in a list of calls.
Places(s, c) == {i \in DOMAIN s : s[i] = c}
Count(s, c) == Cardinality(Places(s, c))

ToDo(d, o) == [do |-> d, obj |-> o]

\* Nothing that is left to be done, and no handle, needs memory that has been
\* given back.
NotFreed ==
  /\ \A h \in Usable \ Target : ptr[h] # Null => status[ptr[h]] # "free"
  /\ \A i \in DOMAIN todo : status[todo[i].obj] # "free"
  /\ call.how = "set" /\ call.value # Null => status[call.value] # "free"
  /\ call.how = "copy" /\ call.drop # Null => status[call.drop] # "free"

\* An object without owners is destroyed, or will be once, and what it owes
\* its control block comes next.
Dead ==
  \A o \in Objects : status[o] = "destroyed" => shared_count[o] = -1
Dying ==
  \A o \in Objects :
    Count(todo, ToDo("destroy", o)) = IF status[o] = "alive" /\ shared_count[o] = -1 THEN 1 ELSE 0
Followed(s) ==
  \A i \in DOMAIN s :
    s[i].do = "destroy" => i + 1 \in DOMAIN s /\ s[i + 1] = ToDo("releaseWeak", s[i].obj)

\* The handles of an assignment are variables, or in an object that is owned by
\* a variable that is not assigned, or by the temporary that is.
Anchored(h, to) ==
  \/ h \in StrongVars \cup WeakVars
  \/ h \in Objects /\ \E x \in StrongVars \ {to} : ptr[x] = h
CallInv ==
  /\ call # NoCall =>
       \/ Anchored(call.to, call.to)
       \/ call.how = "set" /\ call.to \in Objects /\ call.value = call.to
  /\ call.how = "copy" =>
       /\ Anchored(call.from, call.to) /\ call.from # call.to
       /\ call.to \in Strong => call.from \in Strong

IInv == TypeOK /\ CountsExact /\ NotFreed /\ Dead /\ Dying /\ Followed(todo) /\ CallInv
-----------------------------------------------------------------------------
\* The members of H that p takes to o.
At(H, p, o) == {x \in H : p[x] = o}

\* h leaves those that point to o, and so does k, wherever it points.
LEMMA TwoLeave ==
  ASSUME NEW H, NEW J, IsFiniteSet(H), NEW h, NEW k, h # k,
         \A x : x # k => (x \in J <=> x \in H),
         NEW p, NEW q, NEW o, k \in J => q[k] # o,
         \A x \in J : x # k => q[x] = p[x]
  PROVE  /\ Cardinality(At(J \ {h}, q, o)) \in Nat
         /\ Cardinality(At(H, p, o)) \in Nat
         /\ Cardinality(At(J \ {h}, q, o)) =
              Cardinality(At(H, p, o)) - (IF h \in H /\ p[h] = o THEN 1 ELSE 0)
                                       - (IF k \in H /\ p[k] = o THEN 1 ELSE 0)
<1> DEFINE A == At(H, p, o)
           B == At(J \ {h}, q, o)
           C == A \ {h}
<1>1. IsFiniteSet(A)
  BY FS_Subset DEF At
<1>2. h \notin C /\ A \ {h} = C \ {h} /\ (h \in A <=> h \in H /\ p[h] = o)
  BY DEF At
<1>3. C \ {k} = B \ {k} /\ k \notin B /\ (k \in C <=> k \in H /\ p[k] = o)
  BY DEF At
<1> HIDE DEF A, B, C
<1>4. IsFiniteSet(C) /\ Cardinality(A) \in Nat /\ Cardinality(C) \in Nat
      /\ Cardinality(C) = Cardinality(A) - (IF h \in A THEN 1 ELSE 0)
  BY <1>1, <1>2, OneDiffers
<1>5. /\ Cardinality(B) \in Nat
      /\ Cardinality(B) = Cardinality(C) + (IF k \in B THEN 1 ELSE 0)
                                         - (IF k \in C THEN 1 ELSE 0)
  BY <1>3, <1>4, OneDiffers
<1>6. QED
  BY <1>2, <1>3, <1>4, <1>5 DEF A, B

-----------------------------------------------------------------------------
LEMMA CountType ==
  ASSUME NEW s \in Seq(Calls), NEW c
  PROVE  /\ IsFiniteSet(Places(s, c)) /\ Count(s, c) \in Nat
         /\ Count(s, c) > 0 <=> \E i \in DOMAIN s : s[i] = c
<1>0. Len(s) \in Nat /\ DOMAIN s = 1 .. Len(s)
  BY LenProperties
<1>1. IsFiniteSet(1 .. Len(s)) /\ Places(s, c) \subseteq 1 .. Len(s)
  BY <1>0, FS_Interval DEF Places
<1>2. IsFiniteSet(Places(s, c))
  BY <1>1, FS_Subset
<1>3. Count(s, c) \in Nat /\ (Count(s, c) = 0 <=> Places(s, c) = {})
  BY <1>2, FS_CardinalityType, FS_EmptySet DEF Count
<1>4. QED
  BY <1>2, <1>3 DEF Places

LEMMA CountEmpty == \A c : Count(<<>>, c) = 0
  BY FS_EmptySet DEF Count, Places

\* A call goes on top of the others.
LEMMA Pushed ==
  ASSUME NEW s \in Seq(Calls), NEW e \in Calls
  PROVE  /\ <<e>> \o s \in Seq(Calls) /\ Len(<<e>> \o s) = Len(s) + 1
         /\ DOMAIN (<<e>> \o s) = 1 .. Len(s) + 1
         /\ (<<e>> \o s)[1] = e
         /\ \A i \in 1 .. Len(s) : (<<e>> \o s)[i + 1] = s[i]
<1>1. <<e>> \in Seq(Calls) /\ Len(<<e>>) = 1 /\ <<e>>[1] = e
  OBVIOUS
<1>2. Len(s) \in Nat
  BY LenProperties
<1> DEFINE u == <<e>> \o s
<1>3. /\ u \in Seq(Calls) /\ Len(u) = 1 + Len(s)
      /\ \A i \in 1 .. 1 + Len(s) : u[i] = IF i <= 1 THEN <<e>>[i] ELSE s[i - 1]
  BY <1>1, ConcatProperties
<1> HIDE DEF u
<1>4. DOMAIN u = 1 .. Len(s) + 1
  BY <1>2, <1>3, LenProperties
<1>5. u[1] = e
  BY <1>1, <1>2, <1>3
<1>6. ASSUME NEW i \in 1 .. Len(s)
      PROVE  u[i + 1] = s[i]
  <2>1. i + 1 \in 1 .. 1 + Len(s) /\ ~(i + 1 <= 1) /\ (i + 1) - 1 = i
    BY <1>2
  <2>2. QED
    BY <1>3, <2>1
<1>7. QED
  BY <1>2, <1>3, <1>4, <1>5, <1>6 DEF u

LEMMA CountPushed ==
  ASSUME NEW s \in Seq(Calls), NEW e \in Calls, NEW c
  PROVE  Count(<<e>> \o s, c) = Count(s, c) + (IF e = c THEN 1 ELSE 0)
<1> DEFINE u == <<e>> \o s
           A == {i + 1 : i \in Places(s, c)}
           f == [i \in Places(s, c) |-> i + 1]
<1>1. /\ Len(s) \in Nat /\ DOMAIN s = 1 .. Len(s) /\ DOMAIN u = 1 .. Len(s) + 1
      /\ u \in Seq(Calls) /\ u[1] = e /\ \A i \in 1 .. Len(s) : u[i + 1] = s[i]
  BY Pushed, LenProperties
<1> HIDE DEF u
<1>2. Places(s, c) \subseteq 1 .. Len(s)
  BY <1>1 DEF Places
<1>3. IsFiniteSet(A) /\ Cardinality(A) = Count(s, c)
  <2>1. f \in Bijection(Places(s, c), A)
    BY <1>1, <1>2 DEF Bijection, Injection, IsInjective, Surjection
  <2>2. IsFiniteSet(Places(s, c))
    BY CountType
  <2>3. QED
    BY <2>1, <2>2, FS_Bijection DEF Count, ExistsBijection
<1>4. Places(u, c) = A \cup (IF e = c THEN {1} ELSE {})
  <2>1. \A j \in DOMAIN u : j # 1 => j - 1 \in DOMAIN s /\ u[j] = s[j - 1] /\ (j - 1) + 1 = j
    BY <1>1
  <2>2. ASSUME NEW j \in DOMAIN u, j # 1
        PROVE  j \in Places(u, c) <=> j \in A
    BY <1>1, <1>2, <2>1, <2>2 DEF Places
  <2>3. 1 \in DOMAIN u /\ 1 \notin A /\ A \subseteq DOMAIN u
    BY <1>1, <1>2
  <2>4. 1 \in Places(u, c) <=> e = c
    BY <1>1, <2>3 DEF Places
  <2>5. Places(u, c) \subseteq DOMAIN u
    BY DEF Places
  <2>6. QED
    BY <2>2, <2>3, <2>4, <2>5
<1>5. 1 \notin A
  BY <1>1, <1>2
<1> HIDE DEF A, f
<1>6. CASE e = c
  <2>1. Places(u, c) = A \cup {1}
    BY <1>4, <1>6
  <2>2. Cardinality(Places(u, c)) = Cardinality(A) + 1
    BY <1>3, <1>5, <2>1, FS_AddElement
  <2>3. QED
    BY <1>3, <1>6, <2>2 DEF Count, u
<1>7. CASE e # c
  <2>1. Places(u, c) = A /\ Count(s, c) \in Nat
    BY <1>4, <1>7, CountType
  <2>2. QED
    BY <1>3, <1>7, <2>1 DEF Count, u
<1>8. QED
  BY <1>6, <1>7

\* What is on top, and what is below it.
LEMMA TopAndRest ==
  ASSUME NEW s \in Seq(Calls), s # <<>>
  PROVE  /\ Head(s) \in Calls /\ Tail(s) \in Seq(Calls)
         /\ 1 \in DOMAIN s /\ s[1] = Head(s)
         /\ DOMAIN Tail(s) = 1 .. Len(s) - 1
         /\ \A i \in DOMAIN Tail(s) : i + 1 \in DOMAIN s /\ Tail(s)[i] = s[i + 1]
         /\ s = <<Head(s)>> \o Tail(s)
<1>1. /\ Head(s) \in Calls /\ Tail(s) \in Seq(Calls) /\ Len(Tail(s)) = Len(s) - 1
      /\ \A i \in 1 .. Len(Tail(s)) : Tail(s)[i] = s[i + 1]
  BY HeadTailProperties
<1>2. Len(s) \in Nat \ {0} /\ DOMAIN s = 1 .. Len(s) /\ DOMAIN Tail(s) = 1 .. Len(Tail(s))
  BY <1>1, EmptySeq, LenProperties
<1>3. s[1] = Head(s)
  BY <1>2
<1> DEFINE t == Tail(s)
           u == <<Head(s)>> \o t
<1>4. /\ u \in Seq(Calls) /\ Len(u) = Len(t) + 1 /\ u[1] = Head(s)
      /\ \A i \in 1 .. Len(t) : u[i + 1] = t[i]
  BY <1>1, Pushed
<1>5. ASSUME NEW i \in 1 .. Len(s)
      PROVE  s[i] = u[i]
  <2>1. CASE i = 1
    BY <1>3, <1>4, <2>1
  <2>2. CASE i # 1
    <3> HIDE DEF t, u
    <3>1. i - 1 \in 1 .. Len(t) /\ (i - 1) + 1 = i
      BY <1>1, <1>2, <2>2 DEF t
    <3>2. u[(i - 1) + 1] = t[i - 1] /\ t[i - 1] = s[(i - 1) + 1]
      BY <1>1, <1>4, <3>1 DEF t
    <3>3. QED
      BY <3>1, <3>2
  <2>3. QED
    BY <2>1, <2>2
<1> HIDE DEF t, u
<1>6. s = u
  BY <1>1, <1>2, <1>4, <1>5, SeqEqual DEF t
<1>7. QED
  BY <1>1, <1>2, <1>3, <1>6 DEF u, t

LEMMA CountRest ==
  ASSUME NEW s \in Seq(Calls), s # <<>>, NEW c
  PROVE  Count(s, c) = Count(Tail(s), c) + (IF Head(s) = c THEN 1 ELSE 0)
<1>1. Head(s) \in Calls /\ Tail(s) \in Seq(Calls) /\ s = <<Head(s)>> \o Tail(s)
  BY TopAndRest
<1>2. Count(<<Head(s)>> \o Tail(s), c) = Count(Tail(s), c) + (IF Head(s) = c THEN 1 ELSE 0)
  BY <1>1, CountPushed
<1>3. QED
  BY <1>1, <1>2

LEMMA CountOne ==
  ASSUME NEW e, NEW c
  PROVE  Count(<<e>>, c) = IF e = c THEN 1 ELSE 0
<1>1. CASE e = c
  <2>1. Places(<<e>>, c) = {1}
    BY <1>1 DEF Places
  <2>2. QED
    BY <1>1, <2>1, FS_Singleton DEF Count
<1>2. CASE e # c
  <2>1. Places(<<e>>, c) = {}
    BY <1>2 DEF Places
  <2>2. QED
    BY <1>2, <2>1, FS_EmptySet DEF Count
<1>3. QED
  BY <1>1, <1>2

-----------------------------------------------------------------------------
\* What destroys an object is followed by what it owes its block, below the top
\* and after the top has changed.
LEMMA FollowedRest ==
  ASSUME NEW s \in Seq(Calls), s # <<>>, Followed(s)
  PROVE  Followed(Tail(s))
<1>1. /\ Len(s) \in Nat /\ DOMAIN s = 1 .. Len(s) /\ DOMAIN Tail(s) = 1 .. Len(s) - 1
      /\ \A i \in DOMAIN Tail(s) : i + 1 \in DOMAIN s /\ Tail(s)[i] = s[i + 1]
  BY TopAndRest, LenProperties
<1>2. SUFFICES ASSUME NEW i \in DOMAIN Tail(s), Tail(s)[i].do = "destroy"
               PROVE  /\ i + 1 \in DOMAIN Tail(s)
                      /\ Tail(s)[i + 1] = ToDo("releaseWeak", Tail(s)[i].obj)
  BY DEF Followed
<1>3. s[i + 1].do = "destroy" /\ i + 1 \in DOMAIN s
  BY <1>1, <1>2
<1>4. (i + 1) + 1 \in DOMAIN s /\ s[(i + 1) + 1] = ToDo("releaseWeak", s[i + 1].obj)
  BY <1>3 DEF Followed
<1>5. i + 1 \in DOMAIN Tail(s)
  BY <1>1, <1>4
<1>6. QED
  BY <1>1, <1>4, <1>5

LEMMA FollowedPushed ==
  ASSUME NEW s \in Seq(Calls), NEW e \in Calls, Followed(s),
         e.do = "destroy" => 1 \in DOMAIN s /\ s[1] = ToDo("releaseWeak", e.obj)
  PROVE  Followed(<<e>> \o s)
<1> DEFINE u == <<e>> \o s
<1>1. /\ Len(s) \in Nat /\ DOMAIN s = 1 .. Len(s) /\ DOMAIN u = 1 .. Len(s) + 1
      /\ u[1] = e /\ \A i \in 1 .. Len(s) : u[i + 1] = s[i]
  BY Pushed, LenProperties
<1> HIDE DEF u
<1>2. SUFFICES ASSUME NEW i \in DOMAIN u, u[i].do = "destroy"
               PROVE  i + 1 \in DOMAIN u /\ u[i + 1] = ToDo("releaseWeak", u[i].obj)
  BY DEF Followed, u
<1>3. CASE i = 1
  <2>1. 1 \in 1 .. Len(s) /\ s[1] = ToDo("releaseWeak", e.obj)
    BY <1>1, <1>2, <1>3
  <2>2. QED
    BY <1>1, <1>3, <2>1
<1>4. CASE i # 1
  <2>1. i - 1 \in 1 .. Len(s) /\ (i - 1) + 1 = i
    BY <1>1, <1>4
  <2>2. u[i] = s[i - 1]
    BY <1>1, <2>1
  <2>3. i \in DOMAIN s /\ s[i] = ToDo("releaseWeak", s[i - 1].obj)
    BY <1>1, <1>2, <2>1, <2>2 DEF Followed
  <2>4. i \in 1 .. Len(s) /\ i + 1 \in 1 .. Len(s) + 1
    BY <1>1, <2>3
  <2>5. QED
    BY <1>1, <2>2, <2>3, <2>4
<1>5. QED
  BY <1>3, <1>4

LEMMA FollowedOne ==
  ASSUME NEW e, e.do # "destroy"
  PROVE  Followed(<<e>>)
BY DEF Followed

LEMMA FollowedNone == Followed(<<>>)
BY DEF Followed
-----------------------------------------------------------------------------
\* The counts of CountsExact are numbers.
LEMMA Finite ==
  /\ IsFiniteSet(StrongVars) /\ IsFiniteSet(WeakVars) /\ IsFiniteSet(Objects)
  /\ IsFiniteSet(StrongVars \cup Alive)
<1>1. IsFiniteSet(Alive)
  BY HandlesAssumption, FS_Subset DEF Alive
<1>2. QED
  BY <1>1, HandlesAssumption, FS_Union

LEMMA Numbers ==
  ASSUME TypeOK, NEW o
  PROVE  /\ Pointing(StrongVars \cup Alive, o) \in Nat
         /\ Pointing(WeakVars, o) \in Nat
         /\ \A d : Pending(d, o) \in Nat /\ Pending(d, o) = Count(todo, ToDo(d, o))
         /\ \A H : Temporary(H, o) \in {0, 1}
<1>1. \A H : IsFiniteSet(H) => Pointing(H, o) \in Nat
  BY FS_Subset, FS_CardinalityType DEF Pointing
<1>2. \A d : Pending(d, o) \in Nat /\ Pending(d, o) = Count(todo, ToDo(d, o))
  BY CountType DEF TypeOK, Pending, Count, Places, ToDo
<1>3. QED
  BY <1>1, <1>2, Finite DEF Temporary

\* A handle that points to something is counted.
LEMMA Counts ==
  ASSUME NEW H, IsFiniteSet(H), NEW h \in H \ Target, NEW o, ptr[h] = o
  PROVE  Pointing(H, o) \in Nat \ {0}
<1>1. IsFiniteSet({x \in H \ Target : ptr[x] = o}) /\ h \in {x \in H \ Target : ptr[x] = o}
  BY FS_Subset
<1>2. QED
  BY <1>1, FS_EmptySet, FS_CardinalityType DEF Pointing

\* An object that somebody owns, a handle, a temporary or a release still to be
\* made, is alive.
LEMMA SharesAlive ==
  ASSUME IInv, NEW o \in Objects, status[o] # "free",
         \/ Pointing(StrongVars \cup Alive, o) # 0
         \/ Temporary(Strong, o) # 0
         \/ Pending("release", o) # 0
  PROVE  status[o] = "alive" /\ shared_count[o] \in Nat
<1>1. TypeOK /\ CountsExact /\ Dead
  BY DEF IInv
<1>2. /\ Pointing(StrongVars \cup Alive, o) \in Nat
      /\ Pending("release", o) \in Nat /\ Temporary(Strong, o) \in {0, 1}
  BY <1>1, Numbers
<1>3. shared_count[o] + 1 =
         Pointing(StrongVars \cup Alive, o) + Temporary(Strong, o) + Pending("release", o)
  BY <1>1 DEF CountsExact
<1>4. shared_count[o] \in Nat \cup {-1} /\ status[o] \in {"free", "alive", "destroyed"}
  BY <1>1 DEF TypeOK
<1>5. shared_count[o] # -1
  BY <1>2, <1>3, <1>4
<1>6. QED
  BY <1>1, <1>4, <1>5 DEF Dead

LEMMA OwnedAlive ==
  ASSUME IInv, NEW h \in (StrongVars \cup Alive) \ Target, ptr[h] # Null
  PROVE  ptr[h] \in Objects /\ status[ptr[h]] = "alive" /\ shared_count[ptr[h]] \in Nat
<1>1. h \in Handles /\ h \in Usable \ Target
  BY DEF Handles, Usable, Alive
<1>2. ptr[h] \in Objects /\ status[ptr[h]] # "free"
  BY <1>1 DEF IInv, TypeOK, NotFreed, Values
<1>3. Pointing(StrongVars \cup Alive, ptr[h]) # 0
  BY Finite, Counts
<1>4. QED
  BY <1>2, <1>3, SharesAlive

\* The handles of an assignment are there.
LEMMA AnchoredUsable ==
  ASSUME IInv, call # NoCall, NEW h, Anchored(h, call.to)
  PROVE  h \in Usable
<1>1. CASE h \in StrongVars \cup WeakVars
  BY <1>1 DEF Usable
<1>2. CASE h \in Objects /\ \E x \in StrongVars \ {call.to} : ptr[x] = h
  <2>1. PICK x \in StrongVars \ {call.to} : ptr[x] = h
    BY <1>2
  <2>2. x \in (StrongVars \cup Alive) \ Target /\ ptr[x] # Null
    BY <1>2, <2>1, HandlesAssumption DEF Target
  <2>3. status[h] = "alive"
    BY <2>1, <2>2, OwnedAlive
  <2>4. QED
    BY <1>2, <2>3 DEF Usable, Alive
<1>3. QED
  BY <1>1, <1>2 DEF Anchored

LEMMA AssignmentUsable ==
  ASSUME IInv, call # NoCall
  PROVE  call.to \in Usable /\ (call.how = "copy" => call.from \in Usable)
<1>1. Anchored(call.to, call.to) => call.to \in Usable
  BY AnchoredUsable
<1>2. ASSUME call.how = "set" /\ call.to \in Objects /\ call.value = call.to
      PROVE  call.to \in Usable
  <2>1. call.to # Null /\ status[call.to] # "free"
    BY <1>2, HandlesAssumption DEF IInv, NotFreed
  <2>2. Temporary(Strong, call.to) # 0
    BY <1>2 DEF Temporary, Strong
  <2>3. status[call.to] = "alive"
    BY <1>2, <2>1, <2>2, SharesAlive
  <2>4. QED
    BY <1>2, <2>3 DEF Usable, Alive
<1>3. \/ Anchored(call.to, call.to)
      \/ call.how = "set" /\ call.to \in Objects /\ call.value = call.to
  BY DEF IInv, CallInv
<1>4. call.how = "copy" => Anchored(call.from, call.to)
  BY DEF IInv, CallInv
<1>5. call.how = "copy" => call.from \in Usable
  BY <1>4, AnchoredUsable
<1>6. QED
  BY <1>1, <1>2, <1>3, <1>5
-----------------------------------------------------------------------------
\* An assignment to h begins; k is a handle it is moved from, memory that becomes
\* an object, or nothing.
Begun(h, k) ==
  /\ Idle /\ h \in Usable /\ k # h
  /\ Begin(h, call') /\ call' # NoCall /\ call'.to = h
  /\ Alive' \ {k} = Alive \ {k}
  /\ \A x \in Handles \ {k} : ptr'[x] = ptr[x]
  /\ k \in Handles => ptr'[k] = Null

\* What the handle had is now counted by the release that is to be made.
LEMMA Begins ==
  ASSUME TypeOK, NEW h, NEW k, Begun(h, k), NEW o \in Objects
  PROVE  /\ Pointing(StrongVars \cup Alive, o)' \in Nat /\ Pointing(WeakVars, o)' \in Nat
         /\ Pending("release", o)' \in Nat /\ Pending("releaseWeak", o)' \in Nat
         /\ Pointing(StrongVars \cup Alive, o)' + Pending("release", o)' =
              Pointing(StrongVars \cup Alive, o)
                - (IF k \in StrongVars \cup Alive /\ ptr[k] = o THEN 1 ELSE 0)
         /\ Pointing(WeakVars, o)' + Pending("releaseWeak", o)' =
              Pointing(WeakVars, o) - (IF k \in WeakVars /\ ptr[k] = o THEN 1 ELSE 0)
         /\ Pending("release", o) = 0 /\ Pending("releaseWeak", o) = 0
         /\ Temporary(Strong, o) = 0 /\ Temporary(WeakVars, o) = 0
<1> DEFINE S == StrongVars \cup Alive
           Sn == StrongVars \cup Alive'
<1>0. h # k
  BY DEF Begun
<1>1. Target = {} /\ Target' = {h} /\ o # Null
  BY HandlesAssumption DEF Begun, Idle, Target
<1>2. IsFiniteSet(S) /\ IsFiniteSet(WeakVars)
  BY Finite
<1>3. S \subseteq Handles /\ Sn \subseteq Handles /\ Sn \ {k} = S \ {k} /\ WeakVars \subseteq Handles
  BY DEF Begun, Alive, Handles
<1>4. /\ (k \in Sn => ptr'[k] # o) /\ (k \in WeakVars => ptr'[k] # o)
      /\ (\A x \in Sn \ {k} : ptr'[x] = ptr[x]) /\ \A x \in WeakVars \ {k} : ptr'[x] = ptr[x]
  BY <1>1, <1>3 DEF Begun
<1>5. /\ Pointing(S, o)' = Cardinality(At(Sn \ {h}, ptr', o))
      /\ Pointing(S, o) = Cardinality(At(S, ptr, o))
      /\ Pointing(WeakVars, o)' = Cardinality(At(WeakVars \ {h}, ptr', o))
      /\ Pointing(WeakVars, o) = Cardinality(At(WeakVars, ptr, o))
  <2>1. S \ Target = S /\ WeakVars \ Target = WeakVars
    BY <1>1
  <2>2. QED
    BY <1>1, <2>1 DEF Pointing, At
<1> HIDE DEF S, Sn
<1>6. /\ Pointing(S, o)' \in Nat /\ Pointing(S, o) \in Nat
      /\ Pointing(S, o)' = Pointing(S, o) - (IF h \in S /\ ptr[h] = o THEN 1 ELSE 0)
                                         - (IF k \in S /\ ptr[k] = o THEN 1 ELSE 0)
  <2>1. /\ Cardinality(At(Sn \ {h}, ptr', o)) \in Nat
        /\ Cardinality(At(S, ptr, o)) \in Nat
        /\ Cardinality(At(Sn \ {h}, ptr', o)) =
             Cardinality(At(S, ptr, o)) - (IF h \in S /\ ptr[h] = o THEN 1 ELSE 0)
                                        - (IF k \in S /\ ptr[k] = o THEN 1 ELSE 0)
    <3>1. /\ IsFiniteSet(S) /\ h # k /\ \A x : x # k => (x \in Sn <=> x \in S)
          /\ (k \in Sn => ptr'[k] # o) /\ \A x \in Sn : x # k => ptr'[x] = ptr[x]
      BY <1>0, <1>2, <1>3, <1>4
    <3>2. QED
      BY <3>1, TwoLeave, SMTT(20)
  <2>2. QED
    BY <1>5, <2>1
<1>7. /\ Pointing(WeakVars, o)' \in Nat /\ Pointing(WeakVars, o) \in Nat
      /\ Pointing(WeakVars, o)' =
           Pointing(WeakVars, o) - (IF h \in WeakVars /\ ptr[h] = o THEN 1 ELSE 0)
                                 - (IF k \in WeakVars /\ ptr[k] = o THEN 1 ELSE 0)
  BY <1>0, <1>2, <1>4, <1>5, TwoLeave
<1>8. \A d : Pending(d, o)' = IF /\ ptr[h] = o
                                 /\ d = IF h \in Strong THEN "release" ELSE "releaseWeak"
                              THEN 1 ELSE 0
  <2>1. \A d : Pending(d, o)' = Count(todo', ToDo(d, o))
    BY DEF Pending, Count, Places, ToDo
  <2>2. CASE ptr[h] = Null
    BY <1>1, <2>1, <2>2, CountEmpty DEF Begun, Begin, Releasing
  <2>3. CASE ptr[h] # Null
    <3>1. todo' = <<ToDo(IF h \in Strong THEN "release" ELSE "releaseWeak", ptr[h])>>
      BY <2>3 DEF Begun, Begin, Releasing, ToDo
    <3>2. \A d : Count(todo', ToDo(d, o)) =
                   IF ToDo(IF h \in Strong THEN "release" ELSE "releaseWeak", ptr[h]) = ToDo(d, o)
                   THEN 1 ELSE 0
      BY <3>1, CountOne
    <3>3. \A d : ToDo(IF h \in Strong THEN "release" ELSE "releaseWeak", ptr[h]) = ToDo(d, o)
                 <=> /\ ptr[h] = o
                     /\ d = IF h \in Strong THEN "release" ELSE "releaseWeak"
      BY DEF ToDo
    <3>4. QED
      BY <2>1, <3>2, <3>3
  <2>4. QED
    BY <2>2, <2>3
<1>9. (h \in S <=> h \in Strong) /\ (h \in WeakVars <=> h \notin Strong)
  BY HandlesAssumption DEF Begun, S, Strong, Alive, Usable
<1>10. /\ Pending("release", o) = 0 /\ Pending("releaseWeak", o) = 0
       /\ Temporary(Strong, o) = 0 /\ Temporary(WeakVars, o) = 0
  <2>1. \A d : Pending(d, o) = Count(<<>>, ToDo(d, o))
    BY DEF Pending, Count, Places, ToDo, Begun, Idle
  <2>2. call.how = "none"
    BY DEF Begun, Idle, NoCall
  <2>3. QED
    BY <2>1, <2>2, CountEmpty DEF Temporary
<1>11. "release" # "releaseWeak"
  OBVIOUS
<1>12. /\ Pending("release", o)' \in Nat /\ Pending("releaseWeak", o)' \in Nat
       /\ Pointing(S, o)' + Pending("release", o)' =
            Pointing(S, o) - (IF k \in S /\ ptr[k] = o THEN 1 ELSE 0)
       /\ Pointing(WeakVars, o)' + Pending("releaseWeak", o)' =
            Pointing(WeakVars, o) - (IF k \in WeakVars /\ ptr[k] = o THEN 1 ELSE 0)
  BY <1>6, <1>7, <1>8, <1>9, <1>11
<1>13. QED
  BY <1>6, <1>7, <1>10, <1>12 DEF S
-----------------------------------------------------------------------------
\* What a client begins leaves the invariant as it is, if it counts what the
\* assignment will give and what k loses.
Exactly(k) ==
  \A o \in Objects : status[o] # "free" =>
    /\ shared_count'[o] = IF k \in StrongVars \cup Alive /\ ptr[k] = o
                          THEN shared_count[o] + Temporary(Strong, o)' - 1
                          ELSE shared_count[o] + Temporary(Strong, o)'
    /\ Temporary(WeakVars, o)' = IF k \in WeakVars /\ ptr[k] = o THEN 1 ELSE 0
    /\ shared_count'[o] = -1 <=> status[o] = "destroyed"

LEMMA ClientStep ==
  ASSUME IInv, NEW h, NEW k, Begun(h, k), Exactly(k),
         status' = status, weak_count' = weak_count,
         ptr' \in [Handles -> Values], call' \in Assignments,
         shared_count' \in [Objects -> Nat \cup {-1}],
         call'.how = "set" /\ call'.value # Null => status[call'.value] # "free",
         call'.how = "copy" /\ call'.drop # Null => status[call'.drop] # "free",
         CallInv'
  PROVE  IInv'
<1>1. TypeOK /\ CountsExact /\ NotFreed /\ Dead /\ Dying
  BY DEF IInv
<1>2. /\ Alive' = Alive /\ Usable' = Usable /\ Usable \subseteq Handles
      /\ Target = {} /\ Target' = {h} /\ todo = <<>> /\ todo' = Releasing(h)
      /\ h \in Usable \ Target /\ h \in Handles
  BY DEF Handles, Alive, Usable, Begun, Begin, Idle, Target
<1>3. ptr[h] # Null => ptr[h] \in Objects /\ status[ptr[h]] # "free"
  BY <1>1, <1>2 DEF TypeOK, NotFreed, Values
<1>4. todo' \in Seq(Calls)
  <2>1. CASE ptr[h] = Null
    BY <1>2, <2>1 DEF Releasing
  <2>2. CASE ptr[h] # Null
    <3>1. [do |-> IF h \in Strong THEN "release" ELSE "releaseWeak", obj |-> ptr[h]] \in Calls
      BY <1>3, <2>2 DEF Calls
    <3>2. QED
      BY <1>2, <2>2, <3>1 DEF Releasing
  <2>3. QED
    BY <2>1, <2>2
<1>5. TypeOK'
  BY <1>1, <1>4 DEF TypeOK
<1>6. CountsExact'
  <2>1. SUFFICES ASSUME NEW o \in Objects, status[o] # "free"
                 PROVE  /\ shared_count'[o] + 1 = Pointing(StrongVars \cup Alive, o)'
                             + Temporary(Strong, o)' + Pending("release", o)'
                        /\ weak_count[o] + 1 = Pointing(WeakVars, o)' + Temporary(WeakVars, o)'
                             + Pending("releaseWeak", o)'
                             + (IF shared_count'[o] >= 0 THEN 1 ELSE 0)
    BY DEF CountsExact
  <2>2. /\ shared_count[o] + 1 = Pointing(StrongVars \cup Alive, o)
             + Temporary(Strong, o) + Pending("release", o)
        /\ weak_count[o] + 1 = Pointing(WeakVars, o) + Temporary(WeakVars, o)
             + Pending("releaseWeak", o) + (IF shared_count[o] >= 0 THEN 1 ELSE 0)
    BY <1>1, <2>1 DEF CountsExact
  <2>3. /\ Pointing(StrongVars \cup Alive, o)' \in Nat /\ Pointing(WeakVars, o)' \in Nat
        /\ Pending("release", o)' \in Nat /\ Pending("releaseWeak", o)' \in Nat
        /\ Pointing(StrongVars \cup Alive, o)' + Pending("release", o)' =
             Pointing(StrongVars \cup Alive, o)
               - (IF k \in StrongVars \cup Alive /\ ptr[k] = o THEN 1 ELSE 0)
        /\ Pointing(WeakVars, o)' + Pending("releaseWeak", o)' =
             Pointing(WeakVars, o) - (IF k \in WeakVars /\ ptr[k] = o THEN 1 ELSE 0)
        /\ Pending("release", o) = 0 /\ Pending("releaseWeak", o) = 0
        /\ Temporary(Strong, o) = 0 /\ Temporary(WeakVars, o) = 0
    BY <1>1, Begins
  <2>4. /\ Pointing(StrongVars \cup Alive, o) \in Nat /\ Pointing(WeakVars, o) \in Nat
        /\ Pointing(StrongVars \cup Alive, o)' \in Nat /\ Pointing(WeakVars, o)' \in Nat
        /\ Pending("release", o)' \in Nat /\ Pending("releaseWeak", o)' \in Nat
        /\ Temporary(Strong, o)' \in {0, 1} /\ Temporary(WeakVars, o)' \in {0, 1}
    <3>1. /\ Pointing(StrongVars \cup Alive, o) \in Nat /\ Pointing(WeakVars, o) \in Nat
      BY <1>1, Numbers
    <3>2. QED
      BY <2>3, <3>1 DEF Temporary
  <2>5. /\ shared_count[o] \in Nat \cup {-1} /\ shared_count'[o] \in Nat \cup {-1}
        /\ status[o] \in {"alive", "destroyed"} /\ weak_count[o] \in Nat
    BY <1>1, <2>1 DEF TypeOK
  <2>6. shared_count[o] >= 0 <=> shared_count'[o] >= 0
    <3>1. shared_count'[o] = -1 <=> status[o] = "destroyed"
      BY <2>1 DEF Exactly
    <3>2. status[o] = "destroyed" => shared_count[o] = -1
      BY <1>1 DEF Dead
    <3>3. Count(todo, ToDo("destroy", o)) = 0
      BY <1>2, CountEmpty
    <3>4. status[o] = "alive" => shared_count[o] # -1
      BY <1>1, <3>3 DEF Dying
    <3>5. QED
      BY <2>5, <3>1, <3>2, <3>4
  <2>7. /\ shared_count'[o] = IF k \in StrongVars \cup Alive /\ ptr[k] = o
                              THEN shared_count[o] + Temporary(Strong, o)' - 1
                              ELSE shared_count[o] + Temporary(Strong, o)'
        /\ Temporary(WeakVars, o)' = IF k \in WeakVars /\ ptr[k] = o THEN 1 ELSE 0
    BY <2>1 DEF Exactly
  <2> HIDE DEF Pointing, Temporary, Pending
  <2>8. shared_count'[o] + 1 = Pointing(StrongVars \cup Alive, o)'
             + Temporary(Strong, o)' + Pending("release", o)'
    BY <2>2, <2>3, <2>4, <2>5, <2>7
  <2>9. weak_count[o] + 1 = Pointing(WeakVars, o)' + Temporary(WeakVars, o)'
             + Pending("releaseWeak", o)' + (IF shared_count'[o] >= 0 THEN 1 ELSE 0)
    BY <2>2, <2>3, <2>4, <2>5, <2>6, <2>7
  <2>10. QED
    BY <2>8, <2>9
<1>7. NotFreed'
  <2>1. \A x \in Usable \ {h} : ptr'[x] # Null => status[ptr'[x]] # "free"
    <3>1. SUFFICES ASSUME NEW x \in Usable \ {h}, ptr'[x] # Null
                   PROVE  status[ptr'[x]] # "free"
      OBVIOUS
    <3>2. x \in Handles /\ (x # k => ptr'[x] = ptr[x]) /\ (x = k => ptr'[x] = Null)
      BY <1>2, <3>1 DEF Begun
    <3>3. QED
      BY <1>1, <1>2, <3>1, <3>2 DEF NotFreed
  <2>2. \A i \in DOMAIN todo' : status[todo'[i].obj] # "free"
    BY <1>2, <1>3 DEF Releasing
  <2>3. QED
    BY <1>2, <2>1, <2>2 DEF NotFreed
<1>8. Dead'
  BY DEF Dead, Exactly
<1>9. \A i \in DOMAIN todo' : todo'[i].do # "destroy"
  BY <1>2 DEF Releasing
<1>10. Dying'
  <2>1. SUFFICES ASSUME NEW o \in Objects
                 PROVE  Count(todo', ToDo("destroy", o)) = 0
                        /\ ~(status[o] = "alive" /\ shared_count'[o] = -1)
    BY DEF Dying
  <2>0. ~(status[o] = "alive" /\ shared_count'[o] = -1)
    BY DEF Exactly
  <2>2. Places(todo', ToDo("destroy", o)) = {}
    BY <1>9 DEF Places, ToDo
  <2>3. Count(todo', ToDo("destroy", o)) = 0
    BY <2>2, FS_EmptySet DEF Count
  <2>4. QED
    BY <2>0, <2>3
<1>11. Followed(todo)'
  BY <1>9 DEF Followed
<1>12. QED
  BY <1>5, <1>6, <1>7, <1>8, <1>10, <1>11 DEF IInv
-----------------------------------------------------------------------------
\* What a client reaches between two calls.
Reached == StrongVars \cup Members

LEMMA Between ==
  ASSUME IInv, Idle
  PROVE  /\ TypeOK /\ Target = {} /\ Reached \subseteq StrongVars \cup Alive
         /\ Reached \cup WeakVars \subseteq Usable /\ Usable \subseteq Handles
         /\ \A h \in Reached : h \in Strong /\ h \notin WeakVars
         /\ \A o \in Objects : status[o] # "free" =>
              (shared_count[o] = -1 <=> status[o] = "destroyed")
         /\ \A h \in Usable : ptr[h] # Null => ptr[h] \in Objects /\ status[ptr[h]] # "free"
         /\ \A h \in Reached : ptr[h] # Null => shared_count[ptr[h]] \in Nat
<1>1. TypeOK /\ Dead /\ Dying /\ NotFreed /\ Target = {} /\ todo = <<>>
  BY DEF IInv, Idle, Target
<1>2. Reached \subseteq StrongVars \cup Alive
  <2>1. SUFFICES ASSUME NEW x \in StrongVars, ptr[x] # Null
                 PROVE  ptr[x] \in Alive
    BY DEF Reached, Members
  <2>2. x \in (StrongVars \cup Alive) \ Target
    BY <1>1
  <2>3. QED
    BY <2>1, <2>2, OwnedAlive DEF Alive
<1>3. Reached \cup WeakVars \subseteq Usable /\ Usable \subseteq Handles
  BY <1>2 DEF Usable, Handles, Alive
<1>4. \A h \in Reached : h \in Strong /\ h \notin WeakVars
  BY <1>2, HandlesAssumption DEF Strong, Alive
<1>5. \A o \in Objects : status[o] # "free" =>
        (shared_count[o] = -1 <=> status[o] = "destroyed")
  <2>1. SUFFICES ASSUME NEW o \in Objects, status[o] # "free"
                 PROVE  shared_count[o] = -1 <=> status[o] = "destroyed"
    OBVIOUS
  <2>2. status[o] \in {"alive", "destroyed"}
    BY <1>1, <2>1 DEF TypeOK
  <2>3. Count(todo, ToDo("destroy", o)) = 0
    BY <1>1, CountEmpty
  <2>4. QED
    BY <1>1, <2>2, <2>3 DEF Dead, Dying
<1>6. \A h \in Usable : ptr[h] # Null => ptr[h] \in Objects /\ status[ptr[h]] # "free"
  BY <1>1, <1>3 DEF NotFreed, TypeOK, Values
<1>7. \A h \in Reached : ptr[h] # Null => shared_count[ptr[h]] \in Nat
  BY <1>1, <1>2, OwnedAlive
<1>8. QED
  BY <1>1, <1>2, <1>3, <1>4, <1>5, <1>6, <1>7

\* What a client reaches, it reaches from a variable; the assignment may be to
\* that variable, but not to a handle inside the object it owns.
LEMMA ReachedAnchored ==
  ASSUME IInv, Idle, NEW h \in Reached \cup WeakVars
  PROVE  Anchored(h, h)
<1>1. CASE h \in StrongVars \cup WeakVars
  BY <1>1 DEF Anchored
<1>2. CASE h \in Members
  <2>1. PICK x \in StrongVars : ptr[x] = h /\ h # Null
    BY <1>2 DEF Members
  <2>2. h \in Objects
    BY <2>1, Between DEF Usable
  <2>3. QED
    BY <2>1, <2>2, HandlesAssumption DEF Anchored
<1>3. QED
  BY <1>1, <1>2 DEF Reached

\* What an assignment counts that takes nothing from another handle.
LEMMA NothingTaken ==
  ASSUME NEW k, k \notin Handles,
         \A o \in Objects : status[o] # "free" =>
           /\ shared_count'[o] \in Int
           /\ shared_count'[o] = shared_count[o] + Temporary(Strong, o)'
           /\ Temporary(WeakVars, o)' = 0
           /\ shared_count'[o] = -1 <=> status[o] = "destroyed"
  PROVE  Exactly(k)
<1>1. k \notin StrongVars \cup Alive /\ k \notin WeakVars
  BY DEF Handles, Alive
<1>2. QED
  BY <1>1 DEF Exactly

LEMMA NothingGiven ==
  ASSUME IInv, Idle, NEW k, k \notin Handles,
         shared_count' = shared_count, \A o \in Objects : Temporary(Strong, o)' = 0,
         \A o \in Objects : Temporary(WeakVars, o)' = 0
  PROVE  Exactly(k)
<1>1. \A o \in Objects : shared_count[o] \in Int
  BY Between DEF TypeOK
<1>2. QED
  BY <1>1, Between, NothingTaken

\* One lemma for each thing a client may begin.
LEMMA CopySafe ==
  ASSUME IInv, Careful, NEW h \in Handles, NEW k \in Handles, Copy(h, k)
  PROVE  IInv'
<1>1. /\ Idle /\ k # h /\ h \in Reached \cup WeakVars /\ k \in Reached \cup WeakVars
      /\ k \in Objects => \E x \in StrongVars \ {h} : ptr[x] = k
      /\ h \in Reached => k \in Reached
  <2>1. Idle
    BY DEF Copy
  <2>2. \A x \in Reached : x \notin WeakVars
    BY <2>1, Between
  <2>3. QED
    BY <2>1, <2>2 DEF Copy, Outlives, Reached
<1>2. /\ call' = CopyOf(h, k, Null) /\ UNCHANGED <<ptr, shared_count, weak_count, status>>
  BY DEF Copy, Begin, counters
<1>3. /\ call'.how = "copy" /\ call'.to = h /\ call'.from = k /\ call'.drop = Null
      /\ call' \in Assignments /\ call' # NoCall
  BY <1>2 DEF CopyOf, NoCall, Assignments, Values
<1>4. Begun(h, Null)
  BY <1>1, <1>2, <1>3, Between, HandlesAssumption DEF Begun, Copy, Begin, Alive, Handles
<1>5. Exactly(Null)
  <2>1. \A o \in Objects : Temporary(Strong, o)' = 0 /\ Temporary(WeakVars, o)' = 0
    BY <1>3, HandlesAssumption DEF Temporary
  <2>2. Null \notin Handles
    BY HandlesAssumption DEF Handles
  <2>3. QED
    BY <1>1, <1>2, <2>1, <2>2, NothingGiven
<1>6. CallInv'
  <2>1. Anchored(h, h)
    BY <1>1, ReachedAnchored
  <2>2. Anchored(k, h)
    <3>1. k \in Objects \/ k \in StrongVars \cup WeakVars
      BY DEF Handles
    <3>2. QED
      BY <1>1, <3>1 DEF Anchored
  <2>3. h \in Strong => k \in Strong
    BY <1>1, Between, HandlesAssumption DEF Strong
  <2>4. QED
    BY <1>1, <1>2, <1>3, <2>1, <2>2, <2>3 DEF CallInv, Anchored
<1>7. QED
  BY <1>2, <1>3, <1>4, <1>5, <1>6, ClientStep DEF IInv, TypeOK

LEMMA ClearSafe ==
  ASSUME IInv, NEW h \in Handles, Clear(h)
  PROVE  IInv'
<1>1. Idle /\ h \in Reached \cup WeakVars
  BY DEF Clear, Reached
<1>2. call' = Set(h, Null) /\ UNCHANGED <<ptr, shared_count, weak_count, status>>
  BY DEF Clear, Begin, counters
<1>3. /\ call'.how = "set" /\ call'.to = h /\ call'.value = Null
      /\ call' \in Assignments /\ call' # NoCall
  BY <1>2 DEF Set, NoCall, Assignments, Values
<1>4. Begun(h, Null)
  BY <1>1, <1>2, <1>3, Between, HandlesAssumption DEF Begun, Clear, Begin, Alive, Handles
<1>5. Exactly(Null)
  <2>1. \A o \in Objects : Temporary(Strong, o)' = 0 /\ Temporary(WeakVars, o)' = 0
    BY <1>3, HandlesAssumption DEF Temporary
  <2>2. Null \notin Handles
    BY HandlesAssumption DEF Handles
  <2>3. QED
    BY <1>1, <1>2, <2>1, <2>2, NothingGiven
<1>6. CallInv'
  BY <1>1, <1>2, <1>3, ReachedAnchored DEF CallInv, Anchored
<1>7. QED
  BY <1>2, <1>3, <1>4, <1>5, <1>6, ClientStep DEF IInv, TypeOK

LEMMA MoveSafe ==
  ASSUME IInv, NEW h \in Handles, NEW k \in Handles, Move(h, k)
  PROVE  IInv'
<1>1. /\ Idle /\ k # h /\ h \in Reached \cup WeakVars /\ k \in Reached \cup WeakVars
      /\ h \in Reached <=> k \in Reached
      /\ h \in WeakVars <=> k \in WeakVars
  BY Between DEF Move, Reached
<1>2. /\ call' = Set(h, ptr[k]) /\ UNCHANGED <<shared_count, weak_count, status>>
      /\ ptr' = [ptr EXCEPT ![k] = Null]
  BY DEF Move, Begin, counters
<1>3. TypeOK /\ ptr \in [Handles -> Values]
  BY DEF IInv, TypeOK
<1>4. /\ call'.how = "set" /\ call'.to = h /\ call'.value = ptr[k]
      /\ call' \in Assignments /\ call' # NoCall
  BY <1>2, <1>3 DEF Set, NoCall, Assignments
<1>5. Begun(h, k)
  BY <1>1, <1>2, <1>3, <1>4, Between DEF Begun, Move, Begin, Alive
<1>6. Exactly(k)
  <2>1. SUFFICES ASSUME NEW o \in Objects, status[o] # "free"
                 PROVE  /\ shared_count'[o] = IF k \in StrongVars \cup Alive /\ ptr[k] = o
                                              THEN shared_count[o] + Temporary(Strong, o)' - 1
                                              ELSE shared_count[o] + Temporary(Strong, o)'
                        /\ Temporary(WeakVars, o)' = IF k \in WeakVars /\ ptr[k] = o THEN 1 ELSE 0
                        /\ shared_count'[o] = -1 <=> status[o] = "destroyed"
    BY DEF Exactly
  <2>2. /\ Temporary(Strong, o)' = IF h \in Strong /\ ptr[k] = o THEN 1 ELSE 0
        /\ Temporary(WeakVars, o)' = IF h \in WeakVars /\ ptr[k] = o THEN 1 ELSE 0
    BY <1>4 DEF Temporary
  <2>3. /\ h \in Strong <=> k \in StrongVars \cup Alive
        /\ h \in WeakVars <=> k \in WeakVars
    BY <1>1, Between, HandlesAssumption DEF Strong, Alive
  <2>4. shared_count[o] \in Int /\ (shared_count[o] = -1 <=> status[o] = "destroyed")
    BY <1>1, <1>3, <2>1, Between DEF TypeOK
  <2>5. QED
    BY <1>2, <2>2, <2>3, <2>4
<1>7. CallInv'
  <2>1. \/ Anchored(h, h)'
        \/ h \in Objects /\ ptr[k] = h
    <3>1. CASE h \in StrongVars \cup WeakVars
      BY <3>1 DEF Anchored
    <3>2. CASE h \in Members
      <4>1. PICK x \in StrongVars : ptr[x] = h /\ h # Null
        BY <3>2 DEF Members
      <4>2. h \in Objects
        BY <1>1, <4>1, Between DEF Usable
      <4>3. x # h /\ (x # k => ptr'[x] = h)
        BY <1>2, <1>3, <4>1, <4>2, HandlesAssumption DEF Handles
      <4>4. QED
        BY <4>1, <4>2, <4>3 DEF Anchored
    <3>3. QED
      BY <1>1, <3>1, <3>2 DEF Reached
  <2>2. QED
    BY <1>4, <2>1 DEF CallInv
<1>8. ptr[k] # Null => status[ptr[k]] # "free"
  BY <1>1, Between
<1>9. ptr' \in [Handles -> Values]
  BY <1>2, <1>3 DEF Values
<1>10. QED
  BY <1>2, <1>3, <1>4, <1>5, <1>6, <1>7, <1>8, <1>9, ClientStep DEF TypeOK

LEMMA LockSafe ==
  ASSUME IInv, NEW h \in Handles, NEW w \in Handles, Lock(h, w)
  PROVE  IInv'
<1>1. /\ Idle /\ h \in Reached /\ w \in WeakVars
  BY DEF Lock, Reached
<1>2. /\ TypeOK /\ ptr \in [Handles -> Values] /\ shared_count \in [Objects -> Nat \cup {-1}]
      /\ Null \notin Handles /\ Null \notin Objects /\ Strong # WeakVars /\ h \in Strong
      /\ h \notin WeakVars
  BY <1>1, Between, HandlesAssumption DEF IInv, TypeOK, Handles
<1>3. UNCHANGED <<ptr, weak_count, status>> /\ todo' = Releasing(h)
  BY DEF Lock, Begin
<1>4. PICK v \in Values :
        /\ call' = Set(h, v)
        /\ v # Null => /\ v \in Objects /\ status[v] # "free" /\ shared_count[v] # -1
                       /\ shared_count' = [shared_count EXCEPT ![v] = @ + 1]
        /\ v = Null => shared_count' = shared_count
  <2>1. CASE ptr[w] # Null /\ shared_count[ptr[w]] # -1
    <3>1. ptr[w] \in Objects /\ status[ptr[w]] # "free"
      BY <1>1, <2>1, Between
    <3>2. QED
      BY <2>1, <3>1 DEF Lock, Begin, Values
  <2>2. CASE ~(ptr[w] # Null /\ shared_count[ptr[w]] # -1)
    BY <2>2 DEF Lock, Begin, Values
  <2>3. QED
    BY <2>1, <2>2
<1>5. /\ call'.how = "set" /\ call'.to = h /\ call'.value = v
      /\ call' \in Assignments /\ call' # NoCall
  BY <1>4 DEF Set, NoCall, Assignments
<1>6. Begun(h, Null)
  BY <1>1, <1>2, <1>3, <1>5, Between DEF Begun, Begin, Alive
<1>7. Exactly(Null)
  <2>1. SUFFICES ASSUME NEW o \in Objects, status[o] # "free"
                 PROVE  /\ shared_count'[o] \in Int
                        /\ shared_count'[o] = shared_count[o] + Temporary(Strong, o)'
                        /\ Temporary(WeakVars, o)' = 0
                        /\ shared_count'[o] = -1 <=> status[o] = "destroyed"
    BY <1>2, NothingTaken
  <2>2. /\ Temporary(Strong, o)' = IF v = o THEN 1 ELSE 0
        /\ Temporary(WeakVars, o)' = 0
    BY <1>2, <1>5 DEF Temporary
  <2>3. shared_count[o] \in Nat \cup {-1} /\ (shared_count[o] = -1 <=> status[o] = "destroyed")
    BY <1>1, <1>2, <2>1, Between
  <2>4. shared_count'[o] = IF v = o THEN shared_count[o] + 1 ELSE shared_count[o]
    BY <1>2, <1>4
  <2>5. QED
    BY <1>2, <1>4, <2>2, <2>3, <2>4
<1>8. CallInv'
  BY <1>1, <1>3, <1>5, ReachedAnchored DEF CallInv, Anchored
<1>9. shared_count' \in [Objects -> Nat \cup {-1}]
  <2>1. v # Null => shared_count[v] + 1 \in Nat
    BY <1>2, <1>4
  <2>2. QED
    BY <1>2, <1>4, <2>1
<1>10. QED
  BY <1>2, <1>3, <1>4, <1>5, <1>6, <1>7, <1>8, <1>9, ClientStep

LEMMA CompareExchangeSafe ==
  ASSUME IInv, NEW h \in StrongVars, NEW e \in StrongVars, NEW d \in StrongVars,
         CompareExchange(h, e, d)
  PROVE  IInv'
<1> DEFINE to == IF ptr[h] = ptr[e] THEN h ELSE e
           v == ptr[d]
<1>1. Idle /\ to \in StrongVars /\ StrongVars \subseteq Reached
  BY DEF CompareExchange, Reached
<1>2. /\ TypeOK /\ ptr \in [Handles -> Values] /\ shared_count \in [Objects -> Nat \cup {-1}]
      /\ Null \notin Handles /\ Null \notin Objects /\ Strong # WeakVars /\ to \in Strong
      /\ to \notin WeakVars /\ StrongVars \subseteq Strong /\ d \in Handles /\ h \in Handles
  BY <1>1, HandlesAssumption DEF IInv, TypeOK, Handles, Strong
<1>3. UNCHANGED <<ptr, weak_count, status>> /\ todo' = Releasing(to)
  BY DEF CompareExchange, Begin
<1>4. /\ call' = IF ptr[h] = ptr[e] THEN Set(h, v) ELSE CopyOf(e, h, v)
      /\ shared_count' = IF v # Null THEN [shared_count EXCEPT ![v] = @ + 1] ELSE shared_count
      /\ v \in Values
      /\ v # Null => v \in Objects /\ status[v] # "free" /\ shared_count[v] \in Nat
  <2>1. v \in Values /\ (v # Null => v \in Objects /\ status[v] # "free" /\ shared_count[v] \in Nat)
    BY <1>1, <1>2, Between DEF Values
  <2>2. QED
    BY <1>2, <2>1 DEF CompareExchange, Begin, Counted
<1> HIDE DEF v
<1>5. /\ call'.to = to /\ call' \in Assignments /\ call' # NoCall
      /\ call'.how \in {"set", "copy"}
      /\ call'.how = "set" => call'.value = v
      /\ call'.how = "copy" => call'.drop = v /\ call'.from = h /\ h # to
  <2>1. CASE ptr[h] = ptr[e]
    BY <1>2, <1>4, <2>1 DEF Set, NoCall, Assignments
  <2>2. CASE ptr[h] # ptr[e]
    BY <1>2, <1>4, <2>2 DEF CopyOf, NoCall, Assignments, Handles
  <2>3. QED
    BY <2>1, <2>2
<1> HIDE DEF to
<1>6. Begun(to, Null)
  BY <1>1, <1>2, <1>3, <1>5, Between DEF Begun, Begin, Alive
<1>7. Exactly(Null)
  <2>1. SUFFICES ASSUME NEW o \in Objects, status[o] # "free"
                 PROVE  /\ shared_count'[o] \in Int
                        /\ shared_count'[o] = shared_count[o] + Temporary(Strong, o)'
                        /\ Temporary(WeakVars, o)' = 0
                        /\ shared_count'[o] = -1 <=> status[o] = "destroyed"
    BY <1>2, NothingTaken
  <2>2. /\ Temporary(Strong, o)' = IF v = o THEN 1 ELSE 0
        /\ Temporary(WeakVars, o)' = 0
    BY <1>2, <1>5 DEF Temporary
  <2>3. shared_count[o] \in Nat \cup {-1} /\ (shared_count[o] = -1 <=> status[o] = "destroyed")
    BY <1>1, <1>2, <2>1, Between
  <2>4. shared_count'[o] = IF v = o THEN shared_count[o] + 1 ELSE shared_count[o]
    BY <1>2, <1>4
  <2>5. QED
    BY <1>2, <1>4, <2>2, <2>3, <2>4
<1>8. CallInv'
  BY <1>1, <1>2, <1>3, <1>5 DEF CallInv, Anchored
<1>9. shared_count' \in [Objects -> Nat \cup {-1}]
  <2>1. v # Null => shared_count[v] + 1 \in Nat
    BY <1>4
  <2>2. QED
    BY <1>2, <1>4, <2>1
<1>10. QED
  BY <1>2, <1>3, <1>4, <1>5, <1>6, <1>7, <1>8, <1>9, ClientStep
-----------------------------------------------------------------------------
\* A new object, in memory that nobody points to.
LEMMA MakeSafe ==
  ASSUME IInv, NEW h \in Handles, NEW m \in Objects, Make(h, m)
  PROVE  IInv'
<1>1. /\ Idle /\ h \in Reached /\ status[m] = "free"
  BY DEF Make, Reached
<1>2. /\ TypeOK /\ Target = {} /\ todo = <<>> /\ h \in Usable /\ h \in Strong /\ h \notin WeakVars
      /\ CountsExact /\ NotFreed /\ Dead /\ Dying
  BY <1>1, Between DEF IInv, Idle
<1>3. /\ status' = [status EXCEPT ![m] = "alive"] /\ call' = Set(h, m)
      /\ shared_count' = [shared_count EXCEPT ![m] = 0]
      /\ weak_count' = [weak_count EXCEPT ![m] = 0]
      /\ ptr' = [ptr EXCEPT ![m] = Null] /\ todo' = Releasing(h)
  BY DEF Make, Begin
<1>4. /\ m \in Handles /\ m # Null /\ m \notin Usable /\ m \notin Alive
      /\ m \notin WeakVars /\ m \notin StrongVars /\ Strong # WeakVars
  BY <1>1, <1>2, HandlesAssumption DEF Usable, Alive, Handles
<1>5. /\ call'.how = "set" /\ call'.to = h /\ call'.value = m
      /\ call' \in Assignments /\ call' # NoCall
  BY <1>3 DEF Set, NoCall, Assignments, Values
<1>6. \A o \in Objects : /\ status'[o] = IF o = m THEN "alive" ELSE status[o]
                         /\ shared_count'[o] = IF o = m THEN 0 ELSE shared_count[o]
                         /\ weak_count'[o] = IF o = m THEN 0 ELSE weak_count[o]
  BY <1>2, <1>3 DEF TypeOK
<1>7. \A x \in Handles : ptr'[x] = IF x = m THEN Null ELSE ptr[x]
  BY <1>2, <1>3 DEF TypeOK
<1>8. Alive' = Alive \cup {m} /\ Usable' = Usable \cup {m} /\ Target' = {h} /\ h # m
      /\ Usable' \subseteq Handles
  BY <1>2, <1>4, <1>5, <1>6 DEF Alive, Usable, Target, Handles
<1>9. Begun(h, m)
  BY <1>1, <1>2, <1>3, <1>4, <1>5, <1>7, <1>8 DEF Begun, Begin
<1>10. \A x \in Usable : ptr[x] # Null => ptr[x] \in Objects /\ status[ptr[x]] # "free" /\ ptr[x] # m
  BY <1>1, Between
<1>11. todo' \in Seq(Calls) /\ \A i \in DOMAIN todo' : /\ todo'[i].do # "destroy"
                                                       /\ status'[todo'[i].obj] # "free"
  <2>1. CASE ptr[h] = Null
    BY <1>3, <2>1 DEF Releasing
  <2>2. CASE ptr[h] # Null
    <3>1. [do |-> IF h \in Strong THEN "release" ELSE "releaseWeak", obj |-> ptr[h]] \in Calls
      BY <1>2, <1>10, <2>2 DEF Calls
    <3>2. status'[ptr[h]] # "free"
      BY <1>2, <1>6, <1>10, <2>2
    <3>3. QED
      BY <1>3, <2>2, <3>1, <3>2 DEF Releasing
  <2>3. QED
    BY <2>1, <2>2
<1>12. TypeOK'
  <2>1. ptr' \in [Handles -> Values]
    BY <1>2, <1>3 DEF TypeOK, Values
  <2>2. shared_count' \in [Objects -> Nat \cup {-1}] /\ weak_count' \in [Objects -> Nat]
    BY <1>2, <1>3 DEF TypeOK
  <2>3. status' \in [Objects -> {"free", "alive", "destroyed"}]
    BY <1>2, <1>3 DEF TypeOK
  <2>4. QED
    BY <1>5, <1>11, <2>1, <2>2, <2>3 DEF TypeOK
<1>13. CountsExact'
  <2>1. SUFFICES ASSUME NEW o \in Objects, status'[o] # "free"
                 PROVE  /\ shared_count'[o] + 1 = Pointing(StrongVars \cup Alive, o)'
                             + Temporary(Strong, o)' + Pending("release", o)'
                        /\ weak_count'[o] + 1 = Pointing(WeakVars, o)' + Temporary(WeakVars, o)'
                             + Pending("releaseWeak", o)'
                             + (IF shared_count'[o] >= 0 THEN 1 ELSE 0)
    BY DEF CountsExact
  <2>2. /\ Pointing(StrongVars \cup Alive, o)' \in Nat /\ Pointing(WeakVars, o)' \in Nat
        /\ Pending("release", o)' \in Nat /\ Pending("releaseWeak", o)' \in Nat
        /\ Pointing(StrongVars \cup Alive, o) \in Nat /\ Pointing(WeakVars, o) \in Nat
        /\ Pointing(StrongVars \cup Alive, o)' + Pending("release", o)' =
             Pointing(StrongVars \cup Alive, o)
        /\ Pointing(WeakVars, o)' + Pending("releaseWeak", o)' = Pointing(WeakVars, o)
        /\ Pending("release", o) = 0 /\ Pending("releaseWeak", o) = 0
        /\ Temporary(Strong, o) = 0 /\ Temporary(WeakVars, o) = 0
    <3>1. /\ Pointing(StrongVars \cup Alive, o)' \in Nat /\ Pointing(WeakVars, o)' \in Nat
          /\ Pending("release", o)' \in Nat /\ Pending("releaseWeak", o)' \in Nat
          /\ Pointing(StrongVars \cup Alive, o)' + Pending("release", o)' =
               Pointing(StrongVars \cup Alive, o)
                 - (IF m \in StrongVars \cup Alive /\ ptr[m] = o THEN 1 ELSE 0)
          /\ Pointing(WeakVars, o)' + Pending("releaseWeak", o)' =
               Pointing(WeakVars, o) - (IF m \in WeakVars /\ ptr[m] = o THEN 1 ELSE 0)
          /\ Pending("release", o) = 0 /\ Pending("releaseWeak", o) = 0
          /\ Temporary(Strong, o) = 0 /\ Temporary(WeakVars, o) = 0
      BY <1>2, <1>9, Begins
    <3>2. Pointing(StrongVars \cup Alive, o) \in Nat /\ Pointing(WeakVars, o) \in Nat
      BY <1>2, Numbers
    <3>3. QED
      BY <1>4, <3>1, <3>2
  <2>3. /\ Temporary(Strong, o)' = IF o = m THEN 1 ELSE 0
        /\ Temporary(WeakVars, o)' = 0
    BY <1>2, <1>4, <1>5 DEF Temporary
  <2>4. CASE o = m
    <3>1. Pointing(StrongVars \cup Alive, o) = 0 /\ Pointing(WeakVars, o) = 0
      <4>1. \A H : H \subseteq Usable => {x \in H \ Target : ptr[x] = m} = {}
        BY <1>4, <1>10
      <4>2. StrongVars \cup Alive \subseteq Usable /\ WeakVars \subseteq Usable
        BY DEF Usable
      <4>3. QED
        BY <2>4, <4>1, <4>2, FS_EmptySet DEF Pointing
    <3>2. shared_count'[o] = 0 /\ weak_count'[o] = 0
      BY <1>6, <2>4
    <3>3. QED
      BY <2>2, <2>3, <2>4, <3>1, <3>2
  <2>5. CASE o # m
    <3>1. shared_count'[o] = shared_count[o] /\ weak_count'[o] = weak_count[o]
          /\ shared_count[o] \in Int /\ weak_count[o] \in Int
      BY <1>2, <1>6, <2>5 DEF TypeOK
    <3>2. /\ shared_count[o] + 1 = Pointing(StrongVars \cup Alive, o)
               + Temporary(Strong, o) + Pending("release", o)
          /\ weak_count[o] + 1 = Pointing(WeakVars, o) + Temporary(WeakVars, o)
               + Pending("releaseWeak", o) + (IF shared_count[o] >= 0 THEN 1 ELSE 0)
      BY <1>2, <1>6, <2>1, <2>5 DEF CountsExact
    <3>3. QED
      BY <2>2, <2>3, <2>5, <3>1, <3>2
  <2>6. QED
    BY <2>4, <2>5
<1>14. NotFreed'
  <2>1. \A x \in Usable' \ {h} : ptr'[x] # Null => status'[ptr'[x]] # "free"
    BY <1>6, <1>7, <1>8, <1>10
  <2>2. status'[m] # "free"
    BY <1>6
  <2>3. QED
    BY <1>5, <1>8, <1>11, <2>1, <2>2 DEF NotFreed
<1>15. Dead'
  BY <1>2, <1>6 DEF Dead
<1>16. Dying'
  <2>1. SUFFICES ASSUME NEW o \in Objects
                 PROVE  /\ Count(todo', ToDo("destroy", o)) = 0
                        /\ ~(status'[o] = "alive" /\ shared_count'[o] = -1)
    BY DEF Dying
  <2>2. Places(todo', ToDo("destroy", o)) = {}
    BY <1>11 DEF Places, ToDo
  <2>3. Count(todo', ToDo("destroy", o)) = 0
    BY <2>2, FS_EmptySet DEF Count
  <2>4. ~(status[o] = "alive" /\ shared_count[o] = -1)
    BY <1>1, Between
  <2>5. QED
    BY <1>6, <2>3, <2>4
<1>17. Followed(todo)'
  BY <1>11 DEF Followed
<1>18. CallInv'
  <2>1. CASE h \in StrongVars
    BY <1>5, <2>1 DEF CallInv, Anchored
  <2>2. CASE h \in Members
    <3>1. PICK x \in StrongVars : ptr[x] = h /\ h # Null
      BY <2>2 DEF Members
    <3>2. h \in Objects /\ x # h /\ x # m /\ ptr'[x] = h
      BY <1>4, <1>7, <1>10, <3>1, HandlesAssumption DEF Usable, Handles
    <3>3. QED
      BY <1>5, <3>1, <3>2 DEF CallInv, Anchored
  <2>3. QED
    BY <1>1, <2>1, <2>2 DEF Reached
<1>19. QED
  BY <1>12, <1>13, <1>14, <1>15, <1>16, <1>17, <1>18 DEF IInv
-----------------------------------------------------------------------------
\* Two handles of a set, or two that are not in it, exchange what they have.
LEMMA Swapped ==
  ASSUME NEW H, IsFiniteSet(H), NEW h, NEW k, h # k, h \in H <=> k \in H,
         NEW p, NEW q, NEW o, q[h] = p[k], q[k] = p[h],
         \A x \in H : x # h /\ x # k => q[x] = p[x]
  PROVE  Cardinality(At(H, q, o)) = Cardinality(At(H, p, o))
<1> DEFINE A == At(H, p, o)
           B == At(H, q, o)
           C == A \ {h}
           D == B \ {h}
<1>1. IsFiniteSet(A) /\ IsFiniteSet(B)
  BY FS_Subset DEF At
<1>2. A \ {h} = C \ {h} /\ h \notin C
  OBVIOUS
<1>3. C \ {k} = D \ {k}
  BY DEF At
<1>4. D \ {h} = B \ {h} /\ h \notin D
  OBVIOUS
<1>5. /\ (h \in A <=> k \in B) /\ (k \in A <=> h \in B)
      /\ (k \in C <=> k \in A) /\ (k \in D <=> k \in B)
  BY DEF At
<1> HIDE DEF A, B, C, D
<1>6. /\ IsFiniteSet(C) /\ Cardinality(A) \in Nat /\ Cardinality(C) \in Nat
      /\ Cardinality(C) = Cardinality(A) + (IF h \in C THEN 1 ELSE 0)
                                         - (IF h \in A THEN 1 ELSE 0)
  BY <1>1, <1>2, OneDiffers
<1>7. /\ IsFiniteSet(D) /\ Cardinality(D) \in Nat
      /\ Cardinality(D) = Cardinality(C) + (IF k \in D THEN 1 ELSE 0)
                                         - (IF k \in C THEN 1 ELSE 0)
  BY <1>3, <1>6, OneDiffers
<1>8. /\ Cardinality(B) \in Nat
      /\ Cardinality(B) = Cardinality(D) + (IF h \in B THEN 1 ELSE 0)
                                         - (IF h \in D THEN 1 ELSE 0)
  BY <1>4, <1>7, OneDiffers
<1>9. QED
  BY <1>2, <1>4, <1>5, <1>6, <1>7, <1>8 DEF A, B

\* Two handles exchange what they have, and nothing is counted anew.
LEMMA SwapSafe ==
  ASSUME IInv, NEW h \in Handles, NEW k \in Handles, Swap(h, k)
  PROVE  IInv'
<1>1. /\ Idle /\ h # k /\ h \in Usable /\ k \in Usable
      /\ h \in StrongVars \cup Alive <=> k \in StrongVars \cup Alive
      /\ h \in WeakVars <=> k \in WeakVars
  <2>1. /\ Idle /\ h # k
        /\ \/ h \in Reached /\ k \in Reached
           \/ h \in WeakVars /\ k \in WeakVars
    BY DEF Swap, Reached
  <2>2. WeakVars \cap (StrongVars \cup Alive) = {}
    BY HandlesAssumption DEF Alive
  <2>3. QED
    BY <2>1, <2>2, Between
<1>2. ptr' = [ptr EXCEPT ![h] = ptr[k], ![k] = ptr[h]]
      /\ UNCHANGED <<shared_count, weak_count, status, todo, call>>
  BY DEF Swap, counters
<1>3. /\ TypeOK /\ CountsExact /\ NotFreed /\ Dead /\ Dying /\ Followed(todo)
      /\ Target = {} /\ todo = <<>> /\ call = NoCall
  BY <1>1, Between DEF IInv, Idle
<1>4. /\ Alive' = Alive /\ Usable' = Usable /\ Target' = {} /\ Usable \subseteq Handles
  BY <1>2, <1>3 DEF Alive, Usable, Target, Handles
<1>5. /\ ptr' \in [Handles -> Values] /\ ptr'[h] = ptr[k] /\ ptr'[k] = ptr[h]
      /\ \A x \in Handles : x # h /\ x # k => ptr'[x] = ptr[x]
  BY <1>1, <1>2, <1>3 DEF TypeOK
<1>6. TypeOK'
  BY <1>2, <1>3, <1>5 DEF TypeOK
<1>7. CountsExact'
  <2>1. ASSUME NEW o
        PROVE  /\ Pointing(StrongVars \cup Alive, o)' = Pointing(StrongVars \cup Alive, o)
               /\ Pointing(WeakVars, o)' = Pointing(WeakVars, o)
    <3>1. \A H : H \ Target = H /\ H \ Target' = H
      BY <1>3, <1>4
    <3>2. /\ Pointing(StrongVars \cup Alive, o)' = Cardinality(At(StrongVars \cup Alive, ptr', o))
          /\ Pointing(StrongVars \cup Alive, o) = Cardinality(At(StrongVars \cup Alive, ptr, o))
          /\ Pointing(WeakVars, o)' = Cardinality(At(WeakVars, ptr', o))
          /\ Pointing(WeakVars, o) = Cardinality(At(WeakVars, ptr, o))
      BY <1>4, <3>1 DEF Pointing, At
    <3>3. StrongVars \cup Alive \subseteq Handles /\ WeakVars \subseteq Handles
      BY DEF Handles, Alive
    <3>4. Cardinality(At(StrongVars \cup Alive, ptr', o)) = Cardinality(At(StrongVars \cup Alive, ptr, o))
      <4> DEFINE S == StrongVars \cup Alive
      <4>1. IsFiniteSet(S) /\ (h \in S <=> k \in S)
            /\ \A x \in S : x # h /\ x # k => ptr'[x] = ptr[x]
        BY <1>1, <1>5, <3>3, Finite
      <4> HIDE DEF S
      <4>2. Cardinality(At(S, ptr', o)) = Cardinality(At(S, ptr, o))
        BY <1>1, <1>5, <4>1, Swapped
      <4>3. QED
        BY <4>2 DEF S
    <3>5. Cardinality(At(WeakVars, ptr', o)) = Cardinality(At(WeakVars, ptr, o))
      <4>1. IsFiniteSet(WeakVars) /\ \A x \in WeakVars : x # h /\ x # k => ptr'[x] = ptr[x]
        BY <1>5, <3>3, Finite
      <4>2. QED
        BY <1>1, <1>5, <4>1, Swapped
    <3>6. QED
      BY <3>2, <3>4, <3>5
  <2>2. \A H, o : Temporary(H, o)' = Temporary(H, o)
    BY <1>2 DEF Temporary
  <2>3. \A d, o : Pending(d, o)' = Pending(d, o)
    BY <1>2 DEF Pending
  <2>4. SUFFICES ASSUME NEW o \in Objects, status[o] # "free"
                 PROVE  /\ shared_count[o] + 1 = Pointing(StrongVars \cup Alive, o)'
                             + Temporary(Strong, o)' + Pending("release", o)'
                        /\ weak_count[o] + 1 = Pointing(WeakVars, o)' + Temporary(WeakVars, o)'
                             + Pending("releaseWeak", o)'
                             + (IF shared_count[o] >= 0 THEN 1 ELSE 0)
    BY <1>2 DEF CountsExact
  <2>5. /\ shared_count[o] + 1 = Pointing(StrongVars \cup Alive, o)
             + Temporary(Strong, o) + Pending("release", o)
        /\ weak_count[o] + 1 = Pointing(WeakVars, o) + Temporary(WeakVars, o)
             + Pending("releaseWeak", o) + (IF shared_count[o] >= 0 THEN 1 ELSE 0)
    BY <1>3, <2>4 DEF CountsExact
  <2>6. QED
    BY <2>1, <2>2, <2>3, <2>5
<1>8. NotFreed'
  <2>1. \A x \in Usable : ptr'[x] # Null => status[ptr'[x]] # "free"
    <3>1. SUFFICES ASSUME NEW x \in Usable, ptr'[x] # Null
                   PROVE  status[ptr'[x]] # "free"
      OBVIOUS
    <3>2. PICK y \in Usable : ptr'[x] = ptr[y]
      BY <1>1, <1>4, <1>5
    <3>3. QED
      BY <1>1, <3>1, <3>2, Between
  <2>2. call'.how = "none"
    BY <1>2, <1>3 DEF NoCall
  <2>3. QED
    BY <1>2, <1>3, <1>4, <2>1, <2>2 DEF NotFreed
<1>9. Dead' /\ Dying' /\ Followed(todo)'
  BY <1>2, <1>3 DEF Dead, Dying, Followed, Count, Places
<1>10. CallInv'
  <2>1. call' = NoCall /\ NoCall.how = "none"
    BY <1>2, <1>3 DEF NoCall
  <2>2. QED
    BY <2>1 DEF CallInv
<1>11. QED
  BY <1>6, <1>7, <1>8, <1>9, <1>10 DEF IInv
-----------------------------------------------------------------------------
\* The innermost call, and how the calls below it are counted.
LEMMA OnTop ==
  ASSUME IInv, todo # <<>>
  PROVE  /\ TypeOK /\ Obj \in Objects /\ Head(todo) \in Calls
         /\ Head(todo) = ToDo(Head(todo).do, Obj)
         /\ status[Obj] # "free"
         /\ Tail(todo) \in Seq(Calls) /\ Followed(Tail(todo))
         /\ \A i \in DOMAIN Tail(todo) : status[Tail(todo)[i].obj] # "free"
         /\ \A c : /\ Count(Tail(todo), c) \in Nat
                   /\ Count(todo, c) = Count(Tail(todo), c) + (IF Head(todo) = c THEN 1 ELSE 0)
<1>1. TypeOK /\ todo \in Seq(Calls) /\ NotFreed /\ Followed(todo)
  BY DEF IInv, TypeOK
<1>2. /\ Head(todo) \in Calls /\ Tail(todo) \in Seq(Calls)
      /\ 1 \in DOMAIN todo /\ todo[1] = Head(todo)
      /\ \A i \in DOMAIN Tail(todo) : i + 1 \in DOMAIN todo /\ Tail(todo)[i] = todo[i + 1]
  BY <1>1, TopAndRest
<1>3. Obj \in Objects /\ Head(todo) = ToDo(Head(todo).do, Obj)
  BY <1>2 DEF Calls, Obj, ToDo
<1>4. status[Obj] # "free" /\ \A i \in DOMAIN Tail(todo) : status[Tail(todo)[i].obj] # "free"
  BY <1>1, <1>2 DEF NotFreed, Obj
<1>5. \A c : /\ Count(Tail(todo), c) \in Nat
             /\ Count(todo, c) = Count(Tail(todo), c) + (IF Head(todo) = c THEN 1 ELSE 0)
  BY <1>1, <1>2, CountRest, CountType
<1>6. Followed(Tail(todo))
  BY <1>1, FollowedRest
<1>7. QED
  BY <1>1, <1>2, <1>3, <1>4, <1>5, <1>6

\* What handles and temporaries are counted for does not change in a call that
\* assigns nothing and destroys nothing.
LEMMA HandlesUnmoved ==
  ASSUME UNCHANGED <<ptr, call>>, Alive' = Alive
  PROVE  /\ Target' = Target /\ Usable' = Usable
         /\ \A o : /\ Pointing(StrongVars \cup Alive, o)' = Pointing(StrongVars \cup Alive, o)
                   /\ Pointing(WeakVars, o)' = Pointing(WeakVars, o)
                   /\ Temporary(Strong, o)' = Temporary(Strong, o)
                   /\ Temporary(WeakVars, o)' = Temporary(WeakVars, o)
         /\ CallInv => CallInv'
BY DEF Target, Usable, Pointing, Temporary, CallInv, Anchored

LEMMA PendingNow ==
  \A d, o : Pending(d, o) = Count(todo, ToDo(d, o)) /\ Pending(d, o)' = Count(todo', ToDo(d, o))
BY DEF Pending, Count, Places, ToDo

\* A release takes one strong owner off, and the last one leaves a destructor and
\* the owners' share of the block to be done.
LEMMA ReleaseSafe ==
  ASSUME IInv, Release
  PROVE  IInv'
<1>1. /\ TypeOK /\ CountsExact /\ NotFreed /\ Dead /\ Dying /\ CallInv
      /\ todo # <<>> /\ Head(todo) = ToDo("release", Obj) /\ Obj \in Objects
      /\ Tail(todo) \in Seq(Calls)
  BY OnTop DEF IInv, Release, Top
<1>2. status[Obj] = "alive" /\ shared_count[Obj] \in Nat
  <2>1. Pending("release", Obj) # 0
    BY <1>1, OnTop, PendingNow
  <2>2. QED
    BY <1>1, <2>1, OnTop, SharesAlive
<1>3. /\ UNCHANGED <<ptr, weak_count, status, call>> /\ Alive' = Alive
      /\ \A o \in Objects : shared_count'[o] = IF o = Obj THEN shared_count[o] - 1 ELSE shared_count[o]
      /\ shared_count' \in [Objects -> Nat \cup {-1}]
  <2>1. shared_count' = [shared_count EXCEPT ![Obj] = shared_count[Obj] - 1]
    BY DEF Release
  <2>2. shared_count \in [Objects -> Nat \cup {-1}] /\ shared_count[Obj] - 1 \in Nat \cup {-1}
    BY <1>1, <1>2 DEF TypeOK
  <2>3. UNCHANGED <<ptr, weak_count, status, call>> /\ Alive' = Alive
    BY DEF Release, Alive
  <2>4. QED
    BY <2>1, <2>2, <2>3
<1> DEFINE D == ToDo("destroy", Obj)
           W == ToDo("releaseWeak", Obj)
           last == shared_count'[Obj] = -1
<1>4. /\ todo' \in Seq(Calls) /\ Followed(todo)'
      /\ \A i \in DOMAIN todo' : status[todo'[i].obj] # "free"
      /\ \A c : Count(todo', c) \in Nat
      /\ \A c : Count(todo', c) = Count(Tail(todo), c)
                                  + (IF last /\ c = D THEN 1 ELSE 0)
                                  + (IF last /\ c = W THEN 1 ELSE 0)
  <2>1. CASE ~last
    <3>1. todo' = Tail(todo)
      BY <2>1 DEF Release
    <3>2. QED
      BY <1>1, <2>1, <3>1, OnTop
  <2>2. CASE last
    <3>1. D \in Calls /\ W \in Calls
      BY <1>1 DEF ToDo, Calls
    <3>2. todo' = <<D, W>> \o Tail(todo)
      BY <2>2 DEF Release, ToDo
    <3>3. todo' = <<D>> \o (<<W>> \o Tail(todo))
      <4>1. <<D, W>> = <<D>> \o <<W>>
        OBVIOUS
      <4>2. <<D>> \in Seq(Calls) /\ <<W>> \in Seq(Calls)
        BY <3>1
      <4>3. QED
        BY <1>1, <3>2, <4>1, <4>2, ConcatAssociative
    <3> DEFINE s == <<W>> \o Tail(todo)
    <3>4. /\ s \in Seq(Calls) /\ DOMAIN s = 1 .. Len(Tail(todo)) + 1 /\ s[1] = W
          /\ \A i \in 1 .. Len(Tail(todo)) : s[i + 1] = Tail(todo)[i]
          /\ Len(s) = Len(Tail(todo)) + 1 /\ Len(Tail(todo)) \in Nat
          /\ DOMAIN Tail(todo) = 1 .. Len(Tail(todo))
      BY <1>1, <3>1, Pushed, LenProperties
    <3>5. /\ Followed(s)
          /\ \A c : Count(s, c) = Count(Tail(todo), c) + (IF W = c THEN 1 ELSE 0)
      BY <1>1, <3>1, OnTop, FollowedPushed, CountPushed DEF ToDo
    <3>6. \A i \in DOMAIN s : status[s[i].obj] # "free"
      <4>1. SUFFICES ASSUME NEW i \in DOMAIN s
                     PROVE  status[s[i].obj] # "free"
        OBVIOUS
      <4>2. CASE i = 1
        BY <1>2, <3>4, <4>2 DEF ToDo
      <4>3. CASE i # 1
        <5>1. i - 1 \in 1 .. Len(Tail(todo)) /\ (i - 1) + 1 = i
          BY <3>4, <4>1, <4>3
        <5>2. s[i] = Tail(todo)[i - 1] /\ i - 1 \in DOMAIN Tail(todo)
          BY <3>4, <5>1
        <5>3. QED
          BY <1>1, <5>2, OnTop
      <4>4. QED
        BY <4>2, <4>3
    <3>7. todo' = <<D>> \o s
      BY <3>3
    <3> HIDE DEF s
    <3>8. /\ todo' \in Seq(Calls) /\ DOMAIN todo' = 1 .. Len(s) + 1 /\ todo'[1] = D
          /\ \A i \in 1 .. Len(s) : todo'[i + 1] = s[i]
          /\ DOMAIN s = 1 .. Len(s) /\ Len(s) \in Nat
      BY <3>1, <3>4, <3>7, Pushed, LenProperties
    <3>9. Followed(todo')
      <4>1. 1 \in DOMAIN s /\ s[1] = ToDo("releaseWeak", D.obj)
        BY <3>4 DEF ToDo
      <4>2. QED
        BY <3>1, <3>4, <3>5, <3>7, <4>1, FollowedPushed
    <3>10. \A c : Count(todo', c) = Count(s, c) + (IF D = c THEN 1 ELSE 0)
      BY <3>1, <3>4, <3>7, CountPushed
    <3>11. \A i \in DOMAIN todo' : status[todo'[i].obj] # "free"
      <4>1. SUFFICES ASSUME NEW i \in DOMAIN todo'
                     PROVE  status[todo'[i].obj] # "free"
        OBVIOUS
      <4>2. CASE i = 1
        BY <1>2, <3>8, <4>2 DEF ToDo
      <4>3. CASE i # 1
        <5>1. i - 1 \in 1 .. Len(s) /\ (i - 1) + 1 = i
          BY <3>8, <4>1, <4>3
        <5>2. todo'[i] = s[i - 1] /\ i - 1 \in DOMAIN s
          BY <3>8, <5>1
        <5>3. QED
          BY <3>6, <5>2
      <4>4. QED
        BY <4>2, <4>3
    <3>12. \A c : Count(Tail(todo), c) \in Nat
      BY <1>1, OnTop
    <3>13. \A c : /\ Count(todo', c) \in Nat
                  /\ Count(todo', c) = Count(Tail(todo), c) + (IF c = D THEN 1 ELSE 0)
                                                           + (IF c = W THEN 1 ELSE 0)
      BY <3>5, <3>10, <3>12
    <3>14. QED
      BY <2>2, <3>8, <3>9, <3>11, <3>13
  <2>3. QED
    BY <2>1, <2>2
<1> HIDE DEF last
<1>5. \A d, o : ToDo(d, o) = D <=> d = "destroy" /\ o = Obj
  BY DEF ToDo
<1>6. \A d, o : ToDo(d, o) = W <=> d = "releaseWeak" /\ o = Obj
  BY DEF ToDo
<1>7. \A d, o : ToDo(d, o) = Head(todo) <=> d = "release" /\ o = Obj
  BY <1>1 DEF ToDo
<1> HIDE DEF D, W
<1>8. \A o \in Objects :
        /\ Count(todo, ToDo("destroy", o)) \in Nat
        /\ Count(todo', ToDo("destroy", o)) =
             Count(todo, ToDo("destroy", o)) + (IF last /\ o = Obj THEN 1 ELSE 0)
        /\ Pending("release", o) \in Nat /\ Pending("release", o)' \in Nat
        /\ Pending("release", o)' = Pending("release", o) - (IF o = Obj THEN 1 ELSE 0)
        /\ Pending("releaseWeak", o) \in Nat
        /\ Pending("releaseWeak", o)' = Pending("releaseWeak", o) + (IF last /\ o = Obj THEN 1 ELSE 0)
  <2>1. SUFFICES ASSUME NEW o \in Objects
                 PROVE  /\ Count(todo, ToDo("destroy", o)) \in Nat
                        /\ Count(todo', ToDo("destroy", o)) =
                             Count(todo, ToDo("destroy", o)) + (IF last /\ o = Obj THEN 1 ELSE 0)
                        /\ Count(todo, ToDo("release", o)) \in Nat
                        /\ Count(todo', ToDo("release", o)) \in Nat
                        /\ Count(todo', ToDo("release", o)) =
                             Count(todo, ToDo("release", o)) - (IF o = Obj THEN 1 ELSE 0)
                        /\ Count(todo, ToDo("releaseWeak", o)) \in Nat
                        /\ Count(todo', ToDo("releaseWeak", o)) =
                             Count(todo, ToDo("releaseWeak", o)) + (IF last /\ o = Obj THEN 1 ELSE 0)
    BY PendingNow
  <2>2. \A c : /\ Count(Tail(todo), c) \in Nat
               /\ Count(todo, c) = Count(Tail(todo), c) + (IF Head(todo) = c THEN 1 ELSE 0)
    BY <1>1, OnTop
  <2>3. /\ Count(todo, ToDo("destroy", o)) = Count(Tail(todo), ToDo("destroy", o)) + 0
        /\ Count(todo', ToDo("destroy", o)) =
             Count(Tail(todo), ToDo("destroy", o)) + (IF last /\ o = Obj THEN 1 ELSE 0) + 0
    BY <1>4, <1>5, <1>6, <1>7, <2>2
  <2>4. /\ Count(todo, ToDo("release", o)) =
             Count(Tail(todo), ToDo("release", o)) + (IF o = Obj THEN 1 ELSE 0)
        /\ Count(todo', ToDo("release", o)) = Count(Tail(todo), ToDo("release", o)) + 0 + 0
    BY <1>4, <1>5, <1>6, <1>7, <2>2
  <2>5. /\ Count(todo, ToDo("releaseWeak", o)) = Count(Tail(todo), ToDo("releaseWeak", o)) + 0
        /\ Count(todo', ToDo("releaseWeak", o)) =
             Count(Tail(todo), ToDo("releaseWeak", o)) + 0 + (IF last /\ o = Obj THEN 1 ELSE 0)
    BY <1>4, <1>5, <1>6, <1>7, <2>2
  <2>6. QED
    BY <2>2, <2>3, <2>4, <2>5
<1>9. TypeOK'
  BY <1>1, <1>3, <1>4 DEF TypeOK
<1>10. CountsExact'
  <2>1. SUFFICES ASSUME NEW o \in Objects, status[o] # "free"
                 PROVE  /\ shared_count'[o] + 1 = Pointing(StrongVars \cup Alive, o)
                             + Temporary(Strong, o) + Pending("release", o)'
                        /\ weak_count[o] + 1 = Pointing(WeakVars, o) + Temporary(WeakVars, o)
                             + Pending("releaseWeak", o)'
                             + (IF shared_count'[o] >= 0 THEN 1 ELSE 0)
    BY <1>3, HandlesUnmoved DEF CountsExact
  <2>2. /\ shared_count[o] + 1 = Pointing(StrongVars \cup Alive, o)
             + Temporary(Strong, o) + Pending("release", o)
        /\ weak_count[o] + 1 = Pointing(WeakVars, o) + Temporary(WeakVars, o)
             + Pending("releaseWeak", o) + (IF shared_count[o] >= 0 THEN 1 ELSE 0)
    BY <1>1, <2>1 DEF CountsExact
  <2>3. /\ Pointing(StrongVars \cup Alive, o) \in Nat /\ Pointing(WeakVars, o) \in Nat
        /\ Temporary(Strong, o) \in {0, 1} /\ Temporary(WeakVars, o) \in {0, 1}
        /\ shared_count[o] \in Nat \cup {-1} /\ weak_count[o] \in Nat
    BY <1>1, Numbers DEF TypeOK
  <2>4. /\ Pending("release", o) \in Nat /\ Pending("release", o)' \in Nat
        /\ Pending("release", o)' = Pending("release", o) - (IF o = Obj THEN 1 ELSE 0)
        /\ Pending("releaseWeak", o) \in Nat
        /\ Pending("releaseWeak", o)' = Pending("releaseWeak", o) + (IF last /\ o = Obj THEN 1 ELSE 0)
    BY <1>8
  <2>5. shared_count'[o] = IF o = Obj THEN shared_count[o] - 1 ELSE shared_count[o]
    BY <1>3
  <2>6. CASE o = Obj
    <3>1. last <=> shared_count'[o] = -1
      BY <2>6 DEF last
    <3>2. shared_count[o] \in Nat
      BY <1>2, <2>6
    <3>3. /\ shared_count'[o] = shared_count[o] - 1
          /\ Pending("release", o)' = Pending("release", o) - 1
          /\ Pending("releaseWeak", o)' = Pending("releaseWeak", o) + (IF last THEN 1 ELSE 0)
      BY <2>4, <2>5, <2>6
    <3>4. (IF shared_count[o] >= 0 THEN 1 ELSE 0) = 1
      BY <3>2
    <3>5. (IF shared_count'[o] >= 0 THEN 1 ELSE 0) = IF last THEN 0 ELSE 1
      BY <3>1, <3>2, <3>3
    <3>6. shared_count'[o] + 1 = Pointing(StrongVars \cup Alive, o)
             + Temporary(Strong, o) + Pending("release", o)'
      <4>1. shared_count[o] + 1 = Pointing(StrongVars \cup Alive, o)
                                    + Temporary(Strong, o) + Pending("release", o)
        BY <2>2
      <4>2. /\ Pointing(StrongVars \cup Alive, o) \in Int /\ Temporary(Strong, o) \in Int
            /\ Pending("release", o) \in Int /\ Pending("release", o)' \in Int
        BY <2>3, <2>4
      <4>3. shared_count'[o] = shared_count[o] - 1
        BY <3>3
      <4>4. Pending("release", o)' = Pending("release", o) - 1
        BY <3>3
      <4>5. QED
        BY <3>2, <4>1, <4>2, <4>3, <4>4
    <3>7. weak_count[o] + 1 = Pointing(WeakVars, o) + Temporary(WeakVars, o)
             + Pending("releaseWeak", o)' + (IF shared_count'[o] >= 0 THEN 1 ELSE 0)
      BY <2>2, <2>3, <2>4, <3>3, <3>4, <3>5
    <3>8. QED
      BY <3>6, <3>7
  <2>7. CASE o # Obj
    BY <2>2, <2>3, <2>4, <2>5, <2>7
  <2>8. QED
    BY <2>6, <2>7
<1>11. NotFreed'
  BY <1>1, <1>3, <1>4, HandlesUnmoved DEF NotFreed
<1>12. Dead'
  BY <1>1, <1>2, <1>3 DEF Dead
<1>13. Dying'
  <2>1. SUFFICES ASSUME NEW o \in Objects
                 PROVE  Count(todo', ToDo("destroy", o)) =
                          IF status[o] = "alive" /\ shared_count'[o] = -1 THEN 1 ELSE 0
    BY <1>3 DEF Dying
  <2>2. Count(todo, ToDo("destroy", o)) =
          IF status[o] = "alive" /\ shared_count[o] = -1 THEN 1 ELSE 0
    BY <1>1 DEF Dying
  <2>3. Count(todo', ToDo("destroy", o)) =
          Count(todo, ToDo("destroy", o)) + (IF last /\ o = Obj THEN 1 ELSE 0)
    BY <1>8
  <2>4. CASE o = Obj
    BY <1>2, <2>2, <2>3, <2>4 DEF last
  <2>5. CASE o # Obj
    BY <1>3, <2>2, <2>3, <2>5
  <2>6. QED
    BY <2>4, <2>5
<1>14. CallInv'
  BY <1>1, <1>3, HandlesUnmoved
<1>15. QED
  BY <1>4, <1>9, <1>10, <1>11, <1>12, <1>13, <1>14 DEF IInv
-----------------------------------------------------------------------------
\* The object whose destructor runs has no owner, and no assignment is to the
\* handle inside it.
LEMMA DyingUnowned ==
  ASSUME IInv, Top("destroy")
  PROVE  /\ status[Obj] = "alive" /\ shared_count[Obj] = -1
         /\ Count(Tail(todo), ToDo("destroy", Obj)) = 0
         /\ Obj \in (StrongVars \cup Alive) \ Target
<1>1. /\ TypeOK /\ CountsExact /\ Dying /\ CallInv
      /\ todo # <<>> /\ Head(todo) = ToDo("destroy", Obj) /\ Obj \in Objects /\ status[Obj] # "free"
  BY OnTop DEF IInv, Top
<1>2. /\ Count(Tail(todo), ToDo("destroy", Obj)) \in Nat
      /\ Count(todo, ToDo("destroy", Obj)) = Count(Tail(todo), ToDo("destroy", Obj)) + 1
  BY <1>1, OnTop
<1>3. Count(todo, ToDo("destroy", Obj)) =
        IF status[Obj] = "alive" /\ shared_count[Obj] = -1 THEN 1 ELSE 0
  BY <1>1 DEF Dying
<1>4. status[Obj] = "alive" /\ shared_count[Obj] = -1
      /\ Count(Tail(todo), ToDo("destroy", Obj)) = 0
  <2>1. CASE status[Obj] = "alive" /\ shared_count[Obj] = -1
    <3>1. Count(Tail(todo), ToDo("destroy", Obj)) + 1 = 1
      BY <1>2, <1>3, <2>1
    <3>2. QED
      BY <1>2, <2>1, <3>1
  <2>2. CASE ~(status[Obj] = "alive" /\ shared_count[Obj] = -1)
    <3>1. Count(Tail(todo), ToDo("destroy", Obj)) + 1 = 0
      BY <1>2, <1>3, <2>2
    <3>2. QED
      BY <1>2, <3>1
  <2>3. QED
    BY <2>1, <2>2
<1>5. Pointing(StrongVars \cup Alive, Obj) = 0 /\ Temporary(Strong, Obj) = 0
  <2>1. shared_count[Obj] \notin Nat
    BY <1>4
  <2>2. QED
    BY <1>1, <2>1, SharesAlive
<1>6. Obj \notin Target
  <2>1. SUFFICES ASSUME call # NoCall, call.to = Obj
                 PROVE  FALSE
    BY DEF Target
  <2>2. CASE Anchored(Obj, Obj)
    <3>1. PICK x \in StrongVars \ {Obj} : ptr[x] = Obj
      BY <1>1, <2>2, HandlesAssumption DEF Anchored
    <3>2. x \in (StrongVars \cup Alive) \ Target
      BY <2>1, <3>1 DEF Target
    <3>3. QED
      BY <1>5, <3>1, <3>2, Finite, Counts
  <2>3. CASE call.how = "set" /\ call.value = Obj
    BY <1>1, <1>5, <2>1, <2>3 DEF Temporary, Strong
  <2>4. QED
    BY <1>1, <2>1, <2>2, <2>3 DEF CallInv
<1>7. QED
  BY <1>1, <1>4, <1>6 DEF Alive

\* A destructor leaves the release of what the object's own handle had.
LEMMA DestroySafe ==
  ASSUME IInv, Destroy
  PROVE  IInv'
<1>1. /\ TypeOK /\ CountsExact /\ NotFreed /\ Dead /\ Dying /\ CallInv
      /\ todo # <<>> /\ Head(todo) = ToDo("destroy", Obj) /\ Obj \in Objects
      /\ Tail(todo) \in Seq(Calls) /\ Top("destroy")
  BY OnTop DEF IInv, Destroy, Top
<1>2. /\ status[Obj] = "alive" /\ shared_count[Obj] = -1
      /\ Count(Tail(todo), ToDo("destroy", Obj)) = 0
      /\ Obj \in (StrongVars \cup Alive) \ Target /\ Obj \notin WeakVars /\ Obj \notin StrongVars
  BY <1>1, DyingUnowned, HandlesAssumption
<1>3. /\ UNCHANGED <<ptr, shared_count, weak_count, call>>
      /\ status' = [status EXCEPT ![Obj] = "destroyed"]
      /\ todo' = Releasing(Obj) \o Tail(todo)
  BY DEF Destroy, counters
<1>4. \A o \in Objects : status'[o] = IF o = Obj THEN "destroyed" ELSE status[o]
  BY <1>1, <1>3 DEF TypeOK
<1>5. /\ Alive' = Alive \ {Obj} /\ Usable' = Usable \ {Obj} /\ Target' = Target
  BY <1>1, <1>2, <1>3, <1>4 DEF Alive, Usable, Target
<1> DEFINE R == ToDo("release", ptr[Obj])
<1>6. /\ ptr[Obj] # Null => /\ R \in Calls /\ todo' = <<R>> \o Tail(todo)
                            /\ status[ptr[Obj]] # "free" /\ ptr[Obj] # Obj
      /\ ptr[Obj] = Null => todo' = Tail(todo)
  <2>1. CASE ptr[Obj] = Null
    BY <1>1, <1>3, <2>1, ConcatEmptySeq DEF Releasing
  <2>2. CASE ptr[Obj] # Null
    <3>1. ptr[Obj] \in Objects /\ status[ptr[Obj]] = "alive" /\ shared_count[ptr[Obj]] \in Nat
      BY <1>2, <2>2, OwnedAlive
    <3>2. todo' = <<R>> \o Tail(todo)
      BY <1>1, <1>3, <2>2 DEF Releasing, Strong, ToDo
    <3>3. R \in Calls
      BY <3>1 DEF Calls, ToDo
    <3>4. QED
      BY <1>2, <2>2, <3>1, <3>2, <3>3
  <2>3. QED
    BY <2>1, <2>2
<1>7. /\ todo' \in Seq(Calls) /\ Followed(todo)'
      /\ \A i \in DOMAIN todo' : status'[todo'[i].obj] # "free"
      /\ \A c : /\ Count(Tail(todo), c) \in Nat
                /\ Count(todo', c) = IF ptr[Obj] # Null /\ c = R THEN Count(Tail(todo), c) + 1
                                     ELSE Count(Tail(todo), c)
  <2>1. /\ Followed(Tail(todo)) /\ \A c : Count(Tail(todo), c) \in Nat
        /\ \A i \in DOMAIN Tail(todo) : status[Tail(todo)[i].obj] # "free"
        /\ \A i \in DOMAIN Tail(todo) : Tail(todo)[i].obj \in Objects
    <3>1. \A i \in DOMAIN Tail(todo) : Tail(todo)[i] \in Calls
      BY <1>1
    <3>2. QED
      BY <1>1, <3>1, OnTop DEF Calls
  <2>2. \A i \in DOMAIN Tail(todo) : status'[Tail(todo)[i].obj] # "free"
    BY <1>4, <2>1
  <2>3. CASE ptr[Obj] = Null
    BY <1>1, <1>6, <2>1, <2>2, <2>3
  <2>4. CASE ptr[Obj] # Null
    <3>1. R \in Calls /\ todo' = <<R>> \o Tail(todo) /\ status'[R.obj] # "free" /\ R.do # "destroy"
      BY <1>4, <1>6, <2>4 DEF ToDo, Calls
    <3> HIDE DEF R
    <3>2. /\ todo' \in Seq(Calls) /\ DOMAIN todo' = 1 .. Len(Tail(todo)) + 1 /\ todo'[1] = R
          /\ \A i \in 1 .. Len(Tail(todo)) : todo'[i + 1] = Tail(todo)[i]
          /\ DOMAIN Tail(todo) = 1 .. Len(Tail(todo)) /\ Len(Tail(todo)) \in Nat
      BY <1>1, <3>1, Pushed, LenProperties
    <3>3. /\ Followed(todo')
          /\ \A c : Count(todo', c) = Count(Tail(todo), c) + (IF R = c THEN 1 ELSE 0)
      BY <1>1, <2>1, <3>1, FollowedPushed, CountPushed
    <3>4. \A i \in DOMAIN todo' : status'[todo'[i].obj] # "free"
      <4>1. SUFFICES ASSUME NEW i \in DOMAIN todo'
                     PROVE  status'[todo'[i].obj] # "free"
        OBVIOUS
      <4>2. CASE i = 1
        BY <3>1, <3>2, <4>2
      <4>3. CASE i # 1
        <5>1. i - 1 \in 1 .. Len(Tail(todo)) /\ (i - 1) + 1 = i
          BY <3>2, <4>1, <4>3
        <5>2. todo'[i] = Tail(todo)[i - 1] /\ i - 1 \in DOMAIN Tail(todo)
          BY <3>2, <5>1
        <5>3. QED
          BY <2>2, <5>2
      <4>4. QED
        BY <4>2, <4>3
    <3>5. \A c : Count(todo', c) = IF ptr[Obj] # Null /\ c = R THEN Count(Tail(todo), c) + 1
                                   ELSE Count(Tail(todo), c)
      BY <2>1, <2>4, <3>3
    <3>6. QED
      BY <2>1, <3>2, <3>3, <3>4, <3>5
  <2>5. QED
    BY <2>3, <2>4
<1>8. \A o \in Objects :
        /\ Count(todo, ToDo("destroy", o)) = IF o = Obj THEN 1 ELSE Count(Tail(todo), ToDo("destroy", o))
        /\ Count(todo', ToDo("destroy", o)) = Count(Tail(todo), ToDo("destroy", o))
        /\ Pending("release", o) \in Nat
        /\ Pending("release", o)' = IF ptr[Obj] = o THEN Pending("release", o) + 1
                                    ELSE Pending("release", o)
        /\ Pending("releaseWeak", o)' = Pending("releaseWeak", o)
  <2>1. SUFFICES ASSUME NEW o \in Objects
                 PROVE  /\ Count(todo, ToDo("destroy", o)) =
                             IF o = Obj THEN 1 ELSE Count(Tail(todo), ToDo("destroy", o))
                        /\ Count(todo', ToDo("destroy", o)) = Count(Tail(todo), ToDo("destroy", o))
                        /\ Count(todo, ToDo("release", o)) \in Nat
                        /\ Count(todo', ToDo("release", o)) =
                             IF ptr[Obj] = o THEN Count(todo, ToDo("release", o)) + 1
                             ELSE Count(todo, ToDo("release", o))
                        /\ Count(todo', ToDo("releaseWeak", o)) = Count(todo, ToDo("releaseWeak", o))
    BY PendingNow
  <2>2. \A c : /\ Count(Tail(todo), c) \in Nat
               /\ Count(todo, c) = Count(Tail(todo), c) + (IF Head(todo) = c THEN 1 ELSE 0)
    BY <1>1, OnTop
  <2>3. \A c : Count(todo, c) = IF Head(todo) = c THEN Count(Tail(todo), c) + 1
                                ELSE Count(Tail(todo), c)
    BY <2>2
  <2>4. /\ ToDo("destroy", o) # R /\ ToDo("releaseWeak", o) # R
        /\ (ToDo("release", o) = R <=> ptr[Obj] = o)
        /\ (ToDo("destroy", o) = Head(todo) <=> o = Obj)
        /\ ToDo("release", o) # Head(todo) /\ ToDo("releaseWeak", o) # Head(todo)
        /\ o # Null
    BY <1>1, HandlesAssumption DEF ToDo
  <2> HIDE DEF R
  <2>5. /\ Count(todo, ToDo("destroy", o)) = IF o = Obj THEN 1 ELSE Count(Tail(todo), ToDo("destroy", o))
    BY <1>2, <2>3, <2>4
  <2>6. /\ Count(todo', ToDo("destroy", o)) = Count(Tail(todo), ToDo("destroy", o))
        /\ Count(todo', ToDo("release", o)) = IF ptr[Obj] = o
                                              THEN Count(Tail(todo), ToDo("release", o)) + 1
                                              ELSE Count(Tail(todo), ToDo("release", o))
        /\ Count(todo', ToDo("releaseWeak", o)) = Count(Tail(todo), ToDo("releaseWeak", o))
    BY <1>7, <2>4
  <2>7. /\ Count(todo, ToDo("release", o)) = Count(Tail(todo), ToDo("release", o))
        /\ Count(todo, ToDo("releaseWeak", o)) = Count(Tail(todo), ToDo("releaseWeak", o))
    BY <2>3, <2>4
  <2>8. QED
    BY <2>2, <2>5, <2>6, <2>7
<1> HIDE DEF R
<1>9. TypeOK'
  <2>1. status' \in [Objects -> {"free", "alive", "destroyed"}]
    BY <1>1, <1>3 DEF TypeOK
  <2>2. QED
    BY <1>1, <1>3, <1>7, <2>1 DEF TypeOK
<1>10. CountsExact'
  <2>1. SUFFICES ASSUME NEW o \in Objects, status'[o] # "free"
                 PROVE  /\ shared_count[o] + 1 = Pointing(StrongVars \cup Alive, o)'
                             + Temporary(Strong, o)' + Pending("release", o)'
                        /\ weak_count[o] + 1 = Pointing(WeakVars, o)' + Temporary(WeakVars, o)'
                             + Pending("releaseWeak", o)'
                             + (IF shared_count[o] >= 0 THEN 1 ELSE 0)
    BY <1>3 DEF CountsExact
  <2>2. status[o] # "free"
    BY <1>2, <1>4, <2>1
  <2>3. /\ shared_count[o] + 1 = Pointing(StrongVars \cup Alive, o)
             + Temporary(Strong, o) + Pending("release", o)
        /\ weak_count[o] + 1 = Pointing(WeakVars, o) + Temporary(WeakVars, o)
             + Pending("releaseWeak", o) + (IF shared_count[o] >= 0 THEN 1 ELSE 0)
    BY <1>1, <2>2 DEF CountsExact
  <2>4. /\ Temporary(Strong, o)' = Temporary(Strong, o)
        /\ Temporary(WeakVars, o)' = Temporary(WeakVars, o)
        /\ Pointing(WeakVars, o)' = Pointing(WeakVars, o)
    BY <1>3, <1>5 DEF Temporary, Pointing
  <2>5. /\ Pointing(StrongVars \cup Alive, o)' \in Nat /\ Pointing(StrongVars \cup Alive, o) \in Nat
        /\ Pointing(StrongVars \cup Alive, o)' =
             Pointing(StrongVars \cup Alive, o) - (IF ptr[Obj] = o THEN 1 ELSE 0)
    <3> DEFINE A == At((StrongVars \cup Alive) \ Target, ptr, o)
               B == At((StrongVars \cup Alive') \ Target', ptr', o)
    <3>1. /\ Pointing(StrongVars \cup Alive, o)' = Cardinality(B)
          /\ Pointing(StrongVars \cup Alive, o) = Cardinality(A)
      BY DEF Pointing, At
    <3>2. IsFiniteSet(A)
      BY Finite, FS_Subset DEF At
    <3>3. A \ {Obj} = B \ {Obj}
      BY <1>3, <1>5 DEF At
    <3>4. Obj \notin B /\ (Obj \in A <=> ptr[Obj] = o)
      BY <1>2, <1>5 DEF At
    <3> HIDE DEF A, B
    <3>5. /\ Cardinality(A) \in Nat /\ Cardinality(B) \in Nat
          /\ Cardinality(B) = Cardinality(A) + (IF Obj \in B THEN 1 ELSE 0)
                                             - (IF Obj \in A THEN 1 ELSE 0)
      BY <3>2, <3>3, OneDiffers
    <3>6. QED
      BY <3>1, <3>4, <3>5
  <2>6. /\ Pending("release", o) \in Nat /\ Temporary(Strong, o) \in {0, 1}
        /\ Pending("release", o)' = Pending("release", o) + (IF ptr[Obj] = o THEN 1 ELSE 0)
        /\ Pending("releaseWeak", o)' = Pending("releaseWeak", o)
    BY <1>8 DEF Temporary
  <2>7. Pointing(StrongVars \cup Alive, o)' + Temporary(Strong, o)' + Pending("release", o)'
          = Pointing(StrongVars \cup Alive, o) + Temporary(Strong, o) + Pending("release", o)
    BY <2>4, <2>5, <2>6
  <2>8. QED
    BY <2>3, <2>4, <2>6, <2>7
<1>11. NotFreed'
  <2>1. \A x \in Usable' \ Target' : ptr'[x] # Null => status'[ptr'[x]] # "free"
    <3>1. SUFFICES ASSUME NEW x \in Usable \ Target, ptr[x] # Null
                   PROVE  status'[ptr[x]] # "free"
      BY <1>3, <1>5
    <3>2. x \in Handles
      BY DEF Usable, Handles, Alive
    <3>3. status[ptr[x]] # "free" /\ ptr[x] \in Objects
      BY <1>1, <3>1, <3>2 DEF NotFreed, TypeOK, Values
    <3>4. QED
      BY <1>4, <3>3
  <2>2. \A v \in Values : v # Null /\ status[v] # "free" => status'[v] # "free"
    BY <1>4 DEF Values
  <2>3. call.how = "set" => call.value \in Values
    BY <1>1 DEF TypeOK, Assignments, NoCall
  <2>4. call.how = "copy" => call.drop \in Values
    BY <1>1 DEF TypeOK, Assignments, NoCall
  <2>5. QED
    BY <1>1, <1>3, <1>7, <2>1, <2>2, <2>3, <2>4 DEF NotFreed
<1>12. Dead'
  BY <1>1, <1>2, <1>3, <1>4 DEF Dead
<1>13. Dying'
  <2>1. SUFFICES ASSUME NEW o \in Objects
                 PROVE  Count(todo', ToDo("destroy", o)) =
                          IF status'[o] = "alive" /\ shared_count[o] = -1 THEN 1 ELSE 0
    BY <1>3 DEF Dying
  <2>2. Count(todo, ToDo("destroy", o)) =
          IF status[o] = "alive" /\ shared_count[o] = -1 THEN 1 ELSE 0
    BY <1>1 DEF Dying
  <2>3. QED
    BY <1>2, <1>4, <1>8, <2>2
<1>14. CallInv'
  BY <1>1, <1>3 DEF CallInv, Anchored
<1>15. QED
  BY <1>7, <1>9, <1>10, <1>11, <1>12, <1>13, <1>14 DEF IInv
-----------------------------------------------------------------------------
\* The last release of a block finds its object destroyed, and nobody left.
LEMMA LastOne ==
  ASSUME IInv, Top("releaseWeak"), weak_count[Obj] = 0
  PROVE  /\ status[Obj] = "destroyed"
         /\ \A h \in Usable \ Target : ptr[h] # Obj
         /\ \A i \in DOMAIN Tail(todo) : Tail(todo)[i].obj # Obj
         /\ call.how = "set" => call.value # Obj
         /\ call.how = "copy" => call.drop # Obj
<1>1. /\ TypeOK /\ CountsExact /\ Dying /\ Followed(Tail(todo)) /\ Tail(todo) \in Seq(Calls)
      /\ todo # <<>> /\ Head(todo) = ToDo("releaseWeak", Obj) /\ Obj \in Objects /\ status[Obj] # "free"
  BY OnTop DEF IInv, Top
<1>2. \A c : /\ Count(Tail(todo), c) \in Nat
             /\ Count(todo, c) = Count(Tail(todo), c) + (IF Head(todo) = c THEN 1 ELSE 0)
  BY <1>1, OnTop
<1>3. 1 = Pointing(WeakVars, Obj) + Temporary(WeakVars, Obj)
            + Pending("releaseWeak", Obj) + (IF shared_count[Obj] >= 0 THEN 1 ELSE 0)
  BY <1>1 DEF CountsExact
<1>4. /\ Pointing(WeakVars, Obj) \in Nat /\ Temporary(WeakVars, Obj) \in {0, 1}
      /\ Pointing(StrongVars \cup Alive, Obj) \in Nat /\ Temporary(Strong, Obj) \in {0, 1}
      /\ Pending("release", Obj) \in Nat /\ shared_count[Obj] \in Nat \cup {-1}
  BY <1>1, Numbers DEF TypeOK
<1>5. Pending("releaseWeak", Obj) = Count(Tail(todo), ToDo("releaseWeak", Obj)) + 1
  BY <1>1, <1>2, PendingNow
<1>6. /\ Pointing(WeakVars, Obj) = 0 /\ Temporary(WeakVars, Obj) = 0
      /\ Count(Tail(todo), ToDo("releaseWeak", Obj)) = 0 /\ shared_count[Obj] = -1
  <2>1. Count(Tail(todo), ToDo("releaseWeak", Obj)) \in Nat
    BY <1>2
  <2>2. QED
    BY <1>3, <1>4, <1>5, <2>1
<1>7. /\ Pointing(StrongVars \cup Alive, Obj) = 0 /\ Temporary(Strong, Obj) = 0
      /\ Pending("release", Obj) = 0
  <2>1. shared_count[Obj] + 1 = Pointing(StrongVars \cup Alive, Obj)
             + Temporary(Strong, Obj) + Pending("release", Obj)
    BY <1>1 DEF CountsExact
  <2>2. QED
    BY <1>4, <1>6, <2>1
<1>8. Count(Tail(todo), ToDo("release", Obj)) = 0
  <2>1. Head(todo) # ToDo("release", Obj)
    BY <1>1 DEF ToDo
  <2>2. Count(todo, ToDo("release", Obj)) = Count(Tail(todo), ToDo("release", Obj)) + 0
    BY <1>2, <2>1
  <2>3. QED
    BY <1>2, <1>7, <2>2, PendingNow
<1>9. \A d : Count(Tail(todo), ToDo(d, Obj)) = 0 =>
        \A i \in DOMAIN Tail(todo) : Tail(todo)[i] # ToDo(d, Obj)
  <2>1. \A c : Count(Tail(todo), c) > 0 <=> \E i \in DOMAIN Tail(todo) : Tail(todo)[i] = c
    BY <1>1, CountType
  <2>2. ~(0 > 0)
    OBVIOUS
  <2>3. QED
    BY <2>1, <2>2
<1>10. \A i \in DOMAIN Tail(todo) : Tail(todo)[i] # ToDo("destroy", Obj)
  <2>1. SUFFICES ASSUME NEW i \in DOMAIN Tail(todo), Tail(todo)[i] = ToDo("destroy", Obj)
                 PROVE  FALSE
    OBVIOUS
  <2>2. i + 1 \in DOMAIN Tail(todo) /\ Tail(todo)[i + 1] = ToDo("releaseWeak", Obj)
    BY <1>1, <2>1 DEF Followed, ToDo
  <2>3. QED
    BY <1>6, <1>9, <2>2
<1>11. \A i \in DOMAIN Tail(todo) : Tail(todo)[i].obj # Obj
  <2>1. SUFFICES ASSUME NEW i \in DOMAIN Tail(todo), Tail(todo)[i].obj = Obj
                 PROVE  FALSE
    OBVIOUS
  <2>2. Tail(todo)[i] \in Calls
    BY <1>1
  <2>3. /\ Tail(todo)[i].do \in {"release", "destroy", "releaseWeak"}
        /\ Tail(todo)[i] = ToDo(Tail(todo)[i].do, Obj)
    BY <2>1, <2>2 DEF Calls, ToDo
  <2>4. QED
    BY <1>6, <1>8, <1>9, <1>10, <2>3
<1>12. status[Obj] = "destroyed"
  <2>1. Count(Tail(todo), ToDo("destroy", Obj)) = 0
    <3>1. Places(Tail(todo), ToDo("destroy", Obj)) = {}
      BY <1>10 DEF Places
    <3>2. QED
      BY <3>1, FS_EmptySet DEF Count
  <2>2. Head(todo) # ToDo("destroy", Obj)
    BY <1>1 DEF ToDo
  <2>3. Count(todo, ToDo("destroy", Obj)) = 0
    BY <1>2, <2>1, <2>2
  <2>4. ~(status[Obj] = "alive" /\ shared_count[Obj] = -1)
    BY <1>1, <2>3 DEF Dying
  <2>5. QED
    BY <1>1, <1>6, <2>4 DEF TypeOK
<1>13. \A h \in Usable \ Target : ptr[h] # Obj
  <2>1. SUFFICES ASSUME NEW h \in Usable \ Target, ptr[h] = Obj
                 PROVE  FALSE
    OBVIOUS
  <2>2. h \in (StrongVars \cup Alive) \ Target \/ h \in WeakVars \ Target
    BY DEF Usable
  <2>3. QED
    BY <1>6, <1>7, <2>1, <2>2, Finite, Counts
<1>14. (call.how = "set" => call.value # Obj) /\ (call.how = "copy" => call.drop # Obj)
  <2>1. Strong # WeakVars
    BY <1>1, HandlesAssumption DEF Strong
  <2>2. call.how = "set" => call.to \in Strong \/ call.to \in WeakVars
    BY <1>1 DEF TypeOK, Assignments, NoCall, Handles, Strong
  <2>3. QED
    BY <1>6, <1>7, <2>1, <2>2 DEF Temporary
<1>15. QED
  BY <1>11, <1>12, <1>13, <1>14

\* A weak owner less, or the block is given back.
LEMMA ReleaseWeakSafe ==
  ASSUME IInv, ReleaseWeak
  PROVE  IInv'
<1>1. /\ TypeOK /\ CountsExact /\ NotFreed /\ Dead /\ Dying /\ CallInv
      /\ todo # <<>> /\ Head(todo) = ToDo("releaseWeak", Obj) /\ Obj \in Objects
      /\ Tail(todo) \in Seq(Calls) /\ Top("releaseWeak") /\ Followed(Tail(todo))
      /\ weak_count[Obj] \in Nat /\ status[Obj] # "free"
  <2>1. todo # <<>> /\ Top("releaseWeak") /\ TypeOK
    BY DEF ReleaseWeak, Top, IInv
  <2>2. QED
    BY <2>1, OnTop DEF IInv, TypeOK, Top
<1>2. /\ UNCHANGED <<ptr, shared_count, call>> /\ todo' = Tail(todo)
      /\ weak_count[Obj] = 0 => /\ status' = [status EXCEPT ![Obj] = "free"]
                                /\ weak_count' = weak_count
      /\ weak_count[Obj] # 0 => /\ weak_count' = [weak_count EXCEPT ![Obj] = weak_count[Obj] - 1]
                                /\ status' = status
  BY DEF ReleaseWeak
<1> DEFINE gone(o) == o = Obj /\ weak_count[Obj] = 0
<1>3. \A o \in Objects : /\ status'[o] = IF gone(o) THEN "free" ELSE status[o]
                         /\ ~gone(o) => weak_count'[o] = weak_count[o] - (IF o = Obj THEN 1 ELSE 0)
  <2>1. \A o \in Objects : weak_count[o] \in Nat
    BY <1>1 DEF TypeOK
  <2>2. QED
    BY <1>1, <1>2, <2>1 DEF TypeOK
<1>4. \A o \in Objects : gone(o) => status[o] = "destroyed" /\ shared_count[o] = -1
  BY <1>1, LastOne DEF Dead
<1> HIDE DEF gone
<1>5. Alive' = Alive
  BY <1>3, <1>4 DEF Alive
<1>6. /\ \A i \in DOMAIN todo' : status'[todo'[i].obj] # "free"
      /\ \A h \in Usable \ Target : ptr[h] # Null => status'[ptr[h]] # "free"
      /\ call.how = "set" /\ call.value # Null => status'[call.value] # "free"
      /\ call.how = "copy" /\ call.drop # Null => status'[call.drop] # "free"
  <2>1. \A i \in DOMAIN todo' : /\ todo'[i].obj \in Objects
                                /\ status[todo'[i].obj] # "free" /\ ~gone(todo'[i].obj)
    <3>1. \A i \in DOMAIN Tail(todo) : Tail(todo)[i] \in Calls
      BY <1>1
    <3>2. QED
      BY <1>1, <1>2, <3>1, OnTop, LastOne DEF gone, Calls
  <2>2. ASSUME NEW h \in Usable \ Target, ptr[h] # Null
        PROVE  ptr[h] \in Objects /\ status[ptr[h]] # "free" /\ ~gone(ptr[h])
    <3>1. h \in Handles
      BY DEF Usable, Alive, Handles
    <3>2. QED
      BY <1>1, <2>2, <3>1, LastOne DEF gone, NotFreed, TypeOK, Values
  <2>3. call.how = "set" /\ call.value # Null =>
          call.value \in Objects /\ status[call.value] # "free" /\ ~gone(call.value)
    <3>1. call.how = "set" => call.value \in Values
      BY <1>1 DEF TypeOK, Assignments, NoCall
    <3>2. QED
      BY <1>1, <3>1, LastOne DEF gone, NotFreed, Values
  <2>4. call.how = "copy" /\ call.drop # Null =>
          call.drop \in Objects /\ status[call.drop] # "free" /\ ~gone(call.drop)
    <3>1. call.how = "copy" => call.drop \in Values
      BY <1>1 DEF TypeOK, Assignments, NoCall
    <3>2. QED
      BY <1>1, <3>1, LastOne DEF gone, NotFreed, Values
  <2>5. QED
    BY <1>3, <2>1, <2>2, <2>3, <2>4
<1>7. \A o \in Objects :
        /\ Count(todo', ToDo("destroy", o)) = Count(todo, ToDo("destroy", o))
        /\ Pending("release", o)' = Pending("release", o)
        /\ Pending("releaseWeak", o) \in Nat /\ Pending("releaseWeak", o)' \in Nat
        /\ Pending("releaseWeak", o)' = Pending("releaseWeak", o) - (IF o = Obj THEN 1 ELSE 0)
  <2>1. SUFFICES ASSUME NEW o \in Objects
                 PROVE  /\ Count(Tail(todo), ToDo("destroy", o)) = Count(todo, ToDo("destroy", o))
                        /\ Count(Tail(todo), ToDo("release", o)) = Count(todo, ToDo("release", o))
                        /\ Count(todo, ToDo("releaseWeak", o)) \in Nat
                        /\ Count(Tail(todo), ToDo("releaseWeak", o)) \in Nat
                        /\ Count(Tail(todo), ToDo("releaseWeak", o)) =
                             Count(todo, ToDo("releaseWeak", o)) - (IF o = Obj THEN 1 ELSE 0)
    BY <1>2, PendingNow
  <2>2. \A c : /\ Count(Tail(todo), c) \in Nat
               /\ Count(todo, c) = Count(Tail(todo), c) + (IF Head(todo) = c THEN 1 ELSE 0)
    BY <1>1, OnTop
  <2>3. /\ ToDo("destroy", o) # Head(todo) /\ ToDo("release", o) # Head(todo)
        /\ ToDo("releaseWeak", o) = Head(todo) <=> o = Obj
    BY <1>1 DEF ToDo
  <2>4. \A c : Count(todo, c) = IF Head(todo) = c THEN Count(Tail(todo), c) + 1
                                ELSE Count(Tail(todo), c)
    BY <2>2
  <2>5. Count(todo, ToDo("releaseWeak", o)) =
          IF o = Obj THEN Count(Tail(todo), ToDo("releaseWeak", o)) + 1
          ELSE Count(Tail(todo), ToDo("releaseWeak", o))
    BY <2>3, <2>4
  <2>6. QED
    BY <2>2, <2>3, <2>4, <2>5
<1>8. TypeOK'
  <2>1. status' \in [Objects -> {"free", "alive", "destroyed"}]
    BY <1>1, <1>2 DEF TypeOK
  <2>2. weak_count' \in [Objects -> Nat]
    <3>1. weak_count[Obj] # 0 => weak_count[Obj] - 1 \in Nat
      BY <1>1
    <3>2. QED
      BY <1>1, <1>2, <3>1 DEF TypeOK
  <2>3. QED
    BY <1>1, <1>2, <2>1, <2>2 DEF TypeOK
<1>9. CountsExact'
  <2>1. SUFFICES ASSUME NEW o \in Objects, status'[o] # "free"
                 PROVE  /\ shared_count[o] + 1 = Pointing(StrongVars \cup Alive, o)
                             + Temporary(Strong, o) + Pending("release", o)'
                        /\ weak_count'[o] + 1 = Pointing(WeakVars, o) + Temporary(WeakVars, o)
                             + Pending("releaseWeak", o)'
                             + (IF shared_count[o] >= 0 THEN 1 ELSE 0)
    BY <1>2, <1>5, HandlesUnmoved DEF CountsExact
  <2>2. status[o] # "free" /\ ~gone(o)
    BY <1>3, <2>1
  <2>3. shared_count[o] + 1 = Pointing(StrongVars \cup Alive, o)
             + Temporary(Strong, o) + Pending("release", o)
    BY <1>1, <2>2 DEF CountsExact
  <2>4. weak_count[o] + 1 = Pointing(WeakVars, o) + Temporary(WeakVars, o)
             + Pending("releaseWeak", o) + (IF shared_count[o] >= 0 THEN 1 ELSE 0)
    BY <1>1, <2>2 DEF CountsExact
  <2>5. /\ Pointing(WeakVars, o) \in Nat /\ Temporary(WeakVars, o) \in {0, 1}
        /\ weak_count[o] \in Nat
    BY <1>1, Numbers DEF TypeOK
  <2>6. weak_count'[o] = weak_count[o] - (IF o = Obj THEN 1 ELSE 0)
    BY <1>3, <2>2
  <2>7. /\ Pending("release", o)' = Pending("release", o)
        /\ Pending("releaseWeak", o) \in Nat /\ Pending("releaseWeak", o)' \in Nat
        /\ Pending("releaseWeak", o)' = Pending("releaseWeak", o) - (IF o = Obj THEN 1 ELSE 0)
    BY <1>7
  <2>8. weak_count'[o] + 1 = Pointing(WeakVars, o) + Temporary(WeakVars, o)
             + Pending("releaseWeak", o)' + (IF shared_count[o] >= 0 THEN 1 ELSE 0)
    BY <2>4, <2>5, <2>6, <2>7
  <2>9. QED
    BY <2>3, <2>7, <2>8
<1>10. NotFreed'
  BY <1>2, <1>5, <1>6, HandlesUnmoved DEF NotFreed
<1>11. Dead'
  BY <1>1, <1>2, <1>3 DEF Dead
<1>12. Dying'
  <2>1. SUFFICES ASSUME NEW o \in Objects
                 PROVE  Count(todo', ToDo("destroy", o)) =
                          IF status'[o] = "alive" /\ shared_count[o] = -1 THEN 1 ELSE 0
    BY <1>2 DEF Dying
  <2>2. Count(todo, ToDo("destroy", o)) =
          IF status[o] = "alive" /\ shared_count[o] = -1 THEN 1 ELSE 0
    BY <1>1 DEF Dying
  <2>3. status'[o] = "alive" <=> status[o] = "alive"
    BY <1>3, <1>4
  <2>4. QED
    BY <1>7, <2>2, <2>3
<1>13. CallInv'
  BY <1>1, <1>2, <1>5, HandlesUnmoved
<1>14. QED
  BY <1>1, <1>2, <1>8, <1>9, <1>10, <1>11, <1>12, <1>13 DEF IInv
-----------------------------------------------------------------------------
\* h joins those of H that are counted, with a new value.
LEMMA Joins ==
  ASSUME NEW H, IsFiniteSet(H), NEW h, NEW p, NEW q, NEW o,
         \A x \in H : x # h => q[x] = p[x]
  PROVE  Cardinality(At(H, q, o)) =
           Cardinality(At(H \ {h}, p, o)) + (IF h \in H /\ q[h] = o THEN 1 ELSE 0)
<1> DEFINE A == At(H \ {h}, p, o)
           B == At(H, q, o)
<1>1. IsFiniteSet(A)
  BY FS_Subset DEF At
<1>2. A \ {h} = B \ {h}
  BY DEF At
<1>3. h \notin A /\ (h \in B <=> h \in H /\ q[h] = o)
  BY DEF At
<1> HIDE DEF A, B
<1>4. /\ Cardinality(A) \in Nat /\ Cardinality(B) \in Nat
      /\ Cardinality(B) = Cardinality(A) + (IF h \in B THEN 1 ELSE 0)
                                         - (IF h \in A THEN 1 ELSE 0)
  BY <1>1, <1>2, OneDiffers
<1>5. QED
  BY <1>3, <1>4 DEF A, B

\* An assignment ends: the handle counts again, with its new value.
Ended(v) ==
  /\ call # NoCall /\ call' = NoCall /\ call.to \in Usable
  /\ ptr' = [ptr EXCEPT ![call.to] = v] /\ status' = status

LEMMA Ends ==
  ASSUME TypeOK, NEW v, Ended(v), NEW o
  PROVE  /\ Pointing(StrongVars \cup Alive, o)' =
              Pointing(StrongVars \cup Alive, o) + (IF call.to \in Strong /\ v = o THEN 1 ELSE 0)
         /\ Pointing(WeakVars, o)' =
              Pointing(WeakVars, o) + (IF call.to \in WeakVars /\ v = o THEN 1 ELSE 0)
         /\ Temporary(Strong, o)' = 0 /\ Temporary(WeakVars, o)' = 0
<1>1. /\ Target = {call.to} /\ Target' = {} /\ Alive' = Alive
      /\ call.to \in Strong <=> call.to \in StrongVars \cup Alive
      /\ StrongVars \cup Alive \subseteq Handles /\ WeakVars \subseteq Handles
  BY HandlesAssumption DEF Ended, Target, Alive, Strong, Usable, Handles
<1>2. ptr'[call.to] = v /\ \A x \in Handles : x # call.to => ptr'[x] = ptr[x]
  BY DEF Ended, TypeOK, Usable, Handles, Alive
<1>3. ASSUME NEW H, IsFiniteSet(H), H \subseteq Handles
      PROVE  Cardinality(At(H, ptr', o)) =
               Cardinality(At(H \ {call.to}, ptr, o)) + (IF call.to \in H /\ v = o THEN 1 ELSE 0)
  <2>1. \A x \in H : x # call.to => ptr'[x] = ptr[x]
    BY <1>2, <1>3
  <2>2. PICK h : h = call.to
    OBVIOUS
  <2>3. Cardinality(At(H, ptr', o)) =
          Cardinality(At(H \ {h}, ptr, o)) + (IF h \in H /\ ptr'[h] = o THEN 1 ELSE 0)
    BY <1>3, <2>1, <2>2, Joins
  <2>4. QED
    BY <1>2, <2>2, <2>3
<1>4. /\ Pointing(StrongVars \cup Alive, o)' = Cardinality(At(StrongVars \cup Alive, ptr', o))
      /\ Pointing(StrongVars \cup Alive, o) =
           Cardinality(At((StrongVars \cup Alive) \ {call.to}, ptr, o))
      /\ Pointing(WeakVars, o)' = Cardinality(At(WeakVars, ptr', o))
      /\ Pointing(WeakVars, o) = Cardinality(At(WeakVars \ {call.to}, ptr, o))
  <2>1. \A H : H \ {} = H
    OBVIOUS
  <2>2. QED
    BY <1>1, <2>1 DEF Pointing, At
<1>5. Temporary(Strong, o)' = 0 /\ Temporary(WeakVars, o)' = 0
  <2>1. call'.how = "none"
    BY DEF Ended, NoCall
  <2>2. QED
    BY <2>1 DEF Temporary
<1>6. QED
  BY <1>1, <1>3, <1>4, <1>5, Finite

\* The handle takes over what the temporary had.
LEMMA FinishSetSafe ==
  ASSUME IInv, FinishSet
  PROVE  IInv'
<1>1. /\ TypeOK /\ CountsExact /\ NotFreed /\ Dead /\ Dying /\ Followed(todo)
      /\ call # NoCall /\ call.how = "set" /\ call' = NoCall
      /\ ptr' = [ptr EXCEPT ![call.to] = call.value]
      /\ UNCHANGED <<shared_count, weak_count, status, todo>>
  BY DEF IInv, FinishSet, counters, NoCall
<1>2. /\ call.to \in Usable /\ call.value \in Values
      /\ call.value # Null => status[call.value] # "free"
      /\ Alive' = Alive /\ Usable' = Usable /\ Target' = {} /\ Usable \subseteq Handles
  <2>1. call.value \in Values
    BY <1>1 DEF TypeOK, Assignments, NoCall
  <2>2. QED
    BY <1>1, <2>1, AssignmentUsable DEF NotFreed, Alive, Usable, Target, Handles
<1>3. TypeOK'
  <2>1. ptr' \in [Handles -> Values]
    BY <1>1, <1>2 DEF TypeOK
  <2>2. QED
    BY <1>1, <2>1 DEF TypeOK, Assignments
<1>4. CountsExact'
  <2>1. SUFFICES ASSUME NEW o \in Objects, status[o] # "free"
                 PROVE  /\ shared_count[o] + 1 = Pointing(StrongVars \cup Alive, o)'
                             + Temporary(Strong, o)' + Pending("release", o)'
                        /\ weak_count[o] + 1 = Pointing(WeakVars, o)' + Temporary(WeakVars, o)'
                             + Pending("releaseWeak", o)'
                             + (IF shared_count[o] >= 0 THEN 1 ELSE 0)
    BY <1>1 DEF CountsExact
  <2>2. /\ shared_count[o] + 1 = Pointing(StrongVars \cup Alive, o)
             + Temporary(Strong, o) + Pending("release", o)
        /\ weak_count[o] + 1 = Pointing(WeakVars, o) + Temporary(WeakVars, o)
             + Pending("releaseWeak", o) + (IF shared_count[o] >= 0 THEN 1 ELSE 0)
    BY <1>1, <2>1 DEF CountsExact
  <2>3. /\ Pointing(StrongVars \cup Alive, o)' = Pointing(StrongVars \cup Alive, o)
             + (IF call.to \in Strong /\ call.value = o THEN 1 ELSE 0)
        /\ Pointing(WeakVars, o)' = Pointing(WeakVars, o)
             + (IF call.to \in WeakVars /\ call.value = o THEN 1 ELSE 0)
        /\ Temporary(Strong, o)' = 0 /\ Temporary(WeakVars, o)' = 0
    BY <1>1, <1>2, Ends DEF Ended
  <2>4. /\ Temporary(Strong, o) = IF call.to \in Strong /\ call.value = o THEN 1 ELSE 0
        /\ Temporary(WeakVars, o) = IF call.to \in WeakVars /\ call.value = o THEN 1 ELSE 0
    BY <1>1 DEF Temporary
  <2>5. /\ Pointing(StrongVars \cup Alive, o) \in Nat /\ Pointing(WeakVars, o) \in Nat
        /\ Pending("release", o) \in Nat /\ Pending("releaseWeak", o) \in Nat
    BY <1>1, Numbers
  <2>6. Pending("release", o)' = Pending("release", o)
        /\ Pending("releaseWeak", o)' = Pending("releaseWeak", o)
    BY <1>1 DEF Pending
  <2>7. /\ Pointing(StrongVars \cup Alive, o)' + Temporary(Strong, o)' =
             Pointing(StrongVars \cup Alive, o) + Temporary(Strong, o)
        /\ Pointing(WeakVars, o)' + Temporary(WeakVars, o)' =
             Pointing(WeakVars, o) + Temporary(WeakVars, o)
    BY <2>3, <2>4, <2>5
  <2>8. QED
    BY <2>2, <2>6, <2>7
<1>5. NotFreed'
  <2>1. \A x \in Usable : ptr'[x] # Null => status[ptr'[x]] # "free"
    <3>1. \A x \in Usable : ptr'[x] = IF x = call.to THEN call.value ELSE ptr[x]
      BY <1>1, <1>2 DEF TypeOK
    <3>2. QED
      BY <1>1, <1>2, <3>1 DEF NotFreed, Target
  <2>2. call'.how = "none"
    BY <1>1 DEF NoCall
  <2>3. QED
    BY <1>1, <1>2, <2>1, <2>2 DEF NotFreed
<1>6. Dead' /\ Dying' /\ Followed(todo)'
  BY <1>1 DEF Dead, Dying, Followed, Count, Places
<1>7. CallInv'
  <2>1. call' = NoCall /\ NoCall.how = "none"
    BY <1>1 DEF NoCall
  <2>2. QED
    BY <2>1 DEF CallInv
<1>8. QED
  BY <1>3, <1>4, <1>5, <1>6, <1>7 DEF IInv

\* The handle and its model are both counted; the temporary is released.
LEMMA FinishCopySafe ==
  ASSUME IInv, FinishCopy
  PROVE  IInv'
<1> DEFINE v == ptr[call.from]
           R == ToDo("release", call.drop)
<1>1. /\ TypeOK /\ CountsExact /\ NotFreed /\ Dead /\ Dying /\ CallInv /\ todo = <<>>
      /\ call # NoCall /\ call.how = "copy" /\ call' = NoCall
      /\ ptr' = [ptr EXCEPT ![call.to] = v] /\ status' = status
      /\ shared_count' = Counted(call.to, v, shared_count)
      /\ weak_count' = CountedWeak(call.to, v, weak_count)
      /\ todo' = IF call.drop = Null THEN <<>> ELSE <<R>>
  BY DEF IInv, FinishCopy, NoCall, ToDo
<1>2. /\ call.to \in Usable /\ call.from \in Usable \ Target /\ call.drop \in Values
      /\ call.drop # Null => status[call.drop] # "free"
      /\ Alive' = Alive /\ Usable' = Usable /\ Target' = {} /\ Usable \subseteq Handles
      /\ call.to \in Strong => call.from \in (StrongVars \cup Alive) \ Target
  <2>1. call.drop \in Values
    BY <1>1 DEF TypeOK, Assignments, NoCall
  <2>2. /\ call.to \in Usable /\ call.from \in Usable \ Target
        /\ call.to \in Strong => call.from \in Strong
    BY <1>1, AssignmentUsable DEF CallInv, Target
  <2>3. QED
    BY <1>1, <2>1, <2>2, HandlesAssumption DEF NotFreed, Alive, Usable, Target, Handles, Strong
<1>3. /\ v \in Values
      /\ v # Null => v \in Objects /\ status[v] # "free"
      /\ v # Null /\ call.to \in Strong => status[v] = "alive" /\ shared_count[v] \in Nat
  <2>1. v \in Values
    BY <1>1, <1>2 DEF TypeOK
  <2>2. v # Null => v \in Objects /\ status[v] # "free"
    BY <1>1, <1>2, <2>1 DEF NotFreed, Values
  <2>3. v # Null /\ call.to \in Strong => status[v] = "alive" /\ shared_count[v] \in Nat
    BY <1>2, OwnedAlive
  <2>4. QED
    BY <2>1, <2>2, <2>3
<1> HIDE DEF v
<1>4. /\ shared_count \in [Objects -> Nat \cup {-1}] /\ weak_count \in [Objects -> Nat]
      /\ Null \notin Objects
  BY <1>1, HandlesAssumption DEF TypeOK
<1>5. /\ shared_count' \in [Objects -> Nat \cup {-1}]
      /\ \A o \in Objects : shared_count'[o] = IF call.to \in Strong /\ v = o
                                               THEN shared_count[o] + 1 ELSE shared_count[o]
  <2>1. CASE v # Null /\ call.to \in Strong
    <3>1. shared_count' = [shared_count EXCEPT ![v] = shared_count[v] + 1]
      BY <1>1, <2>1 DEF Counted
    <3>2. shared_count[v] + 1 \in Nat
      BY <1>3, <2>1
    <3>3. QED
      BY <1>4, <2>1, <3>1, <3>2
  <2>2. CASE ~(v # Null /\ call.to \in Strong)
    <3>1. shared_count' = shared_count
      BY <1>1, <2>2 DEF Counted
    <3>2. QED
      BY <1>4, <2>2, <3>1
  <2>3. QED
    BY <2>1, <2>2
<1>6. /\ weak_count' \in [Objects -> Nat]
      /\ \A o \in Objects : weak_count'[o] = IF call.to \in WeakVars /\ v = o
                                             THEN weak_count[o] + 1 ELSE weak_count[o]
  <2>1. CASE v # Null /\ call.to \in WeakVars
    <3>1. weak_count' = [weak_count EXCEPT ![v] = weak_count[v] + 1]
      BY <1>1, <2>1 DEF CountedWeak
    <3>2. weak_count[v] + 1 \in Nat
      BY <1>3, <1>4, <2>1
    <3>3. QED
      BY <1>4, <2>1, <3>1, <3>2
  <2>2. CASE ~(v # Null /\ call.to \in WeakVars)
    <3>1. weak_count' = weak_count
      BY <1>1, <2>2 DEF CountedWeak
    <3>2. QED
      BY <1>4, <2>2, <3>1
  <2>3. QED
    BY <2>1, <2>2
<1>7. /\ todo' \in Seq(Calls)
      /\ \A i \in DOMAIN todo' : todo'[i].do # "destroy" /\ status[todo'[i].obj] # "free"
      /\ \A c : Count(todo', c) = IF call.drop # Null /\ R = c THEN 1 ELSE 0
  <2>1. CASE call.drop = Null
    BY <1>1, <2>1, CountEmpty
  <2>2. CASE call.drop # Null
    <3>1. todo' = <<R>> /\ R \in Calls /\ R.do = "release" /\ status[R.obj] # "free"
      BY <1>1, <1>2, <2>2 DEF ToDo, Calls, Values
    <3> HIDE DEF R
    <3>2. \A c : Count(todo', c) = IF R = c THEN 1 ELSE 0
      BY <3>1, CountOne
    <3>3. QED
      BY <2>2, <3>1, <3>2
  <2>3. QED
    BY <2>1, <2>2
<1>8. TypeOK'
  <2>1. ptr' \in [Handles -> Values]
    BY <1>1, <1>2, <1>3 DEF TypeOK
  <2>2. QED
    BY <1>1, <1>5, <1>6, <1>7, <2>1 DEF TypeOK, Assignments
<1>9. CountsExact'
  <2>1. SUFFICES ASSUME NEW o \in Objects, status[o] # "free"
                 PROVE  /\ shared_count'[o] + 1 = Pointing(StrongVars \cup Alive, o)'
                             + Temporary(Strong, o)' + Pending("release", o)'
                        /\ weak_count'[o] + 1 = Pointing(WeakVars, o)' + Temporary(WeakVars, o)'
                             + Pending("releaseWeak", o)'
                             + (IF shared_count'[o] >= 0 THEN 1 ELSE 0)
    BY <1>1 DEF CountsExact
  <2>2. /\ shared_count[o] + 1 = Pointing(StrongVars \cup Alive, o)
             + Temporary(Strong, o) + Pending("release", o)
        /\ weak_count[o] + 1 = Pointing(WeakVars, o) + Temporary(WeakVars, o)
             + Pending("releaseWeak", o) + (IF shared_count[o] >= 0 THEN 1 ELSE 0)
    BY <1>1, <2>1 DEF CountsExact
  <2>3. /\ Pointing(StrongVars \cup Alive, o)' = Pointing(StrongVars \cup Alive, o)
             + (IF call.to \in Strong /\ v = o THEN 1 ELSE 0)
        /\ Pointing(WeakVars, o)' = Pointing(WeakVars, o)
             + (IF call.to \in WeakVars /\ v = o THEN 1 ELSE 0)
        /\ Temporary(Strong, o)' = 0 /\ Temporary(WeakVars, o)' = 0
    BY <1>1, <1>2, Ends DEF Ended
  <2>4. /\ Temporary(Strong, o) = IF call.drop = o THEN 1 ELSE 0
        /\ Temporary(WeakVars, o) = 0
    <3>1. Strong # WeakVars
      BY HandlesAssumption DEF Strong
    <3>2. QED
      BY <1>1, <3>1 DEF Temporary
  <2>5. /\ Pending("release", o)' = IF call.drop = o THEN 1 ELSE 0
        /\ Pending("releaseWeak", o)' = 0
        /\ Pending("release", o) = 0 /\ Pending("releaseWeak", o) = 0
    <3>1. R = ToDo("release", o) <=> call.drop = o
      BY DEF ToDo
    <3>2. R # ToDo("releaseWeak", o) /\ o # Null
      BY <1>4 DEF ToDo
    <3> HIDE DEF R
    <3>3. QED
      BY <1>1, <1>7, <3>1, <3>2, CountEmpty, PendingNow
  <2>6. /\ Pointing(StrongVars \cup Alive, o) \in Nat /\ Pointing(WeakVars, o) \in Nat
        /\ shared_count[o] \in Nat \cup {-1} /\ weak_count[o] \in Nat
    BY <1>1, Numbers DEF TypeOK
  <2>7. shared_count'[o] = shared_count[o] + (IF call.to \in Strong /\ v = o THEN 1 ELSE 0)
    BY <1>5, <2>6
  <2>8. weak_count'[o] = weak_count[o] + (IF call.to \in WeakVars /\ v = o THEN 1 ELSE 0)
    BY <1>6, <2>6
  <2>9. (IF shared_count'[o] >= 0 THEN 1 ELSE 0) = IF shared_count[o] >= 0 THEN 1 ELSE 0
    <3>1. CASE call.to \in Strong /\ v = o
      <4>1. shared_count[o] \in Nat /\ shared_count'[o] = shared_count[o] + 1
        BY <1>3, <1>4, <1>5, <3>1
      <4>2. QED
        BY <4>1
    <3>2. CASE ~(call.to \in Strong /\ v = o)
      BY <1>5, <3>2
    <3>3. QED
      BY <3>1, <3>2
  <2>10. shared_count'[o] + 1 = Pointing(StrongVars \cup Alive, o)'
             + Temporary(Strong, o)' + Pending("release", o)'
    BY <2>2, <2>3, <2>4, <2>5, <2>6, <2>7
  <2>11. weak_count'[o] + 1 = Pointing(WeakVars, o)' + Temporary(WeakVars, o)'
             + Pending("releaseWeak", o)' + (IF shared_count'[o] >= 0 THEN 1 ELSE 0)
    BY <2>2, <2>3, <2>4, <2>5, <2>6, <2>8, <2>9
  <2>12. QED
    BY <2>10, <2>11
<1>10. NotFreed'
  <2>1. \A x \in Usable : ptr'[x] # Null => status[ptr'[x]] # "free"
    <3>1. \A x \in Usable : ptr'[x] = IF x = call.to THEN v ELSE ptr[x]
      BY <1>1, <1>2 DEF TypeOK
    <3>2. QED
      BY <1>1, <1>3, <3>1 DEF NotFreed, Target
  <2>2. call'.how = "none"
    BY <1>1 DEF NoCall
  <2>3. QED
    BY <1>1, <1>2, <1>7, <2>1, <2>2 DEF NotFreed
<1>11. Dead'
  BY <1>1, <1>3, <1>4, <1>5 DEF Dead
<1>12. Dying'
  <2>1. SUFFICES ASSUME NEW o \in Objects
                 PROVE  /\ Count(todo', ToDo("destroy", o)) = 0
                        /\ ~(status[o] = "alive" /\ shared_count'[o] = -1)
    BY <1>1 DEF Dying
  <2>2. Places(todo', ToDo("destroy", o)) = {}
    BY <1>7 DEF Places, ToDo
  <2>3. Count(todo', ToDo("destroy", o)) = 0
    BY <2>2, FS_EmptySet DEF Count
  <2>4. ~(status[o] = "alive" /\ shared_count[o] = -1)
    <3>1. Count(todo, ToDo("destroy", o)) = 0
      BY <1>1, CountEmpty
    <3>2. QED
      BY <1>1, <3>1 DEF Dying
  <2>5. shared_count[o] \in Nat => shared_count[o] + 1 # -1
    OBVIOUS
  <2>6. QED
    BY <1>3, <1>4, <1>5, <2>3, <2>4, <2>5
<1>13. Followed(todo)'
  BY <1>7 DEF Followed
<1>14. CallInv'
  <2>1. call' = NoCall /\ NoCall.how = "none"
    BY <1>1 DEF NoCall
  <2>2. QED
    BY <2>1 DEF CallInv
<1>15. QED
  BY <1>8, <1>9, <1>10, <1>11, <1>12, <1>13, <1>14 DEF IInv
-----------------------------------------------------------------------------
LEMMA InitSafe == Init => IInv
<1>1. SUFFICES ASSUME Init
               PROVE  IInv
  OBVIOUS
<1>2. TypeOK
  BY <1>1 DEF Init, TypeOK, Values, Assignments
<1>3. \A o : Count(todo, ToDo("destroy", o)) = 0
  BY <1>1, CountEmpty DEF Init
<1>4. call.how = "none"
  BY <1>1 DEF Init, NoCall
<1>5. CountsExact /\ Dead /\ NotFreed
  BY <1>1, <1>4 DEF Init, CountsExact, Dead, NotFreed, Usable, Alive, Handles
<1>6. Dying
  BY <1>1, <1>3 DEF Init, Dying
<1>7. Followed(todo) /\ CallInv
  BY <1>1, <1>4, FollowedNone DEF Init, CallInv
<1>8. QED
  BY <1>2, <1>5, <1>6, <1>7 DEF IInv

LEMMA NextSafe ==
  ASSUME Careful, IInv, [Next]_vars
  PROVE  IInv'
<1>1. CASE UNCHANGED vars
  <2>1. UNCHANGED <<ptr, shared_count, weak_count, status, todo, call>> /\ Alive' = Alive
    BY <1>1 DEF vars, Alive
  <2>2. TypeOK' /\ Dead' /\ Dying' /\ Followed(todo)'
    BY <2>1 DEF IInv, TypeOK, Dead, Dying, Followed, Count, Places
  <2>3. CountsExact'
    BY <2>1, HandlesUnmoved, PendingNow DEF IInv, CountsExact
  <2>4. NotFreed' /\ CallInv'
    BY <2>1, HandlesUnmoved DEF IInv, NotFreed
  <2>5. QED
    BY <2>2, <2>3, <2>4 DEF IInv
<1>2. ASSUME NEW h \in Handles, NEW m \in Objects, Make(h, m)
      PROVE  IInv'
  BY <1>2, MakeSafe
<1>3. ASSUME NEW h \in Handles, NEW k \in Handles,
             Copy(h, k) \/ Move(h, k) \/ Swap(h, k) \/ Lock(h, k)
      PROVE  IInv'
  BY <1>3, CopySafe, MoveSafe, SwapSafe, LockSafe
<1>4. ASSUME NEW h \in Handles, Clear(h)
      PROVE  IInv'
  BY <1>4, ClearSafe
<1>5. ASSUME NEW h \in StrongVars, NEW k \in StrongVars, NEW d \in StrongVars,
             CompareExchange(h, k, d)
      PROVE  IInv'
  BY <1>5, CompareExchangeSafe
<1>6. CASE Work
  BY <1>6, ReleaseSafe, DestroySafe, ReleaseWeakSafe, FinishSetSafe, FinishCopySafe DEF Work
<1>7. QED
  BY <1>1, <1>2, <1>3, <1>4, <1>5, <1>6 DEF Next

\* The invariant says more than that every handle is valid.
LEMMA Valid ==
  ASSUME IInv
  PROVE  HandlesValid
<1>1. ASSUME NEW h \in Usable \ Target, ptr[h] # Null
      PROVE  status[ptr[h]] \in IF h \in Strong THEN {"alive"} ELSE {"alive", "destroyed"}
  <2>1. CASE h \in Strong
    <3>1. h \in (StrongVars \cup Alive) \ Target
      BY <2>1, HandlesAssumption DEF Usable, Strong
    <3>2. QED
      BY <1>1, <2>1, <3>1, OwnedAlive
  <2>2. CASE h \notin Strong
    <3>1. h \in Handles /\ status[ptr[h]] # "free"
      BY <1>1 DEF IInv, NotFreed, Usable, Alive, Handles
    <3>2. status[ptr[h]] \in {"free", "alive", "destroyed"}
      BY <1>1, <3>1 DEF IInv, TypeOK, Values
    <3>3. QED
      BY <2>2, <3>1, <3>2
  <2>3. QED
    BY <2>1, <2>2
<1>2. \A i \in DOMAIN todo : status[todo[i].obj] # "free"
  BY DEF IInv, NotFreed
<1>3. NoCall.how # "copy"
  BY DEF NoCall
<1>4. QED
  BY <1>1, <1>2, <1>3, AssignmentUsable DEF HandlesValid

\* However many variables and objects there are, and however deep a cascade of
\* destructors goes: at every step of it the counters of every control block count
\* its handles, temporaries and outstanding releases exactly (common.d, shared_ptr.d,
\* rc_ptr.d), if no handle is assigned from one that may die by it.
THEOREM CountsStayExact ==
  ASSUME Careful
  PROVE  Spec => []CountsExact
<1>1. Init => IInv
  BY InitSafe
<1>2. IInv /\ [Next]_vars => IInv'
  BY NextSafe
<1>3. IInv => CountsExact
  BY DEF IInv
<1>4. QED
  BY <1>1, <1>2, <1>3, PTL DEF Spec

\* Under the same condition no strong handle is left with an object that has been
\* destroyed, no handle with a block that has been given back, and no call in progress
\* with work on one: opAssign, release and the destructors may run in each other.
THEOREM HandlesStayValid ==
  ASSUME Careful
  PROVE  Spec => []HandlesValid
<1>1. Init => IInv
  BY InitSafe
<1>2. IInv /\ [Next]_vars => IInv'
  BY NextSafe
<1>3. IInv => HandlesValid
  BY Valid
<1>4. QED
  BY <1>1, <1>2, <1>3, PTL DEF Spec
-----------------------------------------------------------------------------
\* Between calls every block has a handle.
LEMMA Kept ==
  ASSUME IInv, Idle, NEW o \in Objects, status[o] # "free"
  PROVE  /\ \E h \in Usable : ptr[h] = o
         /\ shared_count[o] # -1 => \E h \in StrongVars \cup Alive : ptr[h] = o
<1>1. TypeOK /\ CountsExact /\ Target = {} /\ todo = <<>> /\ call = NoCall
  BY Between DEF IInv, Idle
<1>2. Pending("release", o) = 0 /\ Pending("releaseWeak", o) = 0
  BY <1>1, PendingNow, CountEmpty
<1>3. Temporary(Strong, o) = 0 /\ Temporary(WeakVars, o) = 0
  BY <1>1 DEF Temporary, NoCall
<1>4. /\ Pointing(StrongVars \cup Alive, o) \in Nat /\ Pointing(WeakVars, o) \in Nat
      /\ shared_count[o] \in Nat \cup {-1} /\ weak_count[o] \in Nat
  BY <1>1, Numbers DEF TypeOK
<1>5. /\ shared_count[o] + 1 = Pointing(StrongVars \cup Alive, o)
      /\ weak_count[o] + 1 = Pointing(WeakVars, o) + (IF shared_count[o] >= 0 THEN 1 ELSE 0)
  <2>1. /\ shared_count[o] + 1 = Pointing(StrongVars \cup Alive, o)
                                   + Temporary(Strong, o) + Pending("release", o)
        /\ weak_count[o] + 1 = Pointing(WeakVars, o) + Temporary(WeakVars, o)
                                 + Pending("releaseWeak", o)
                                 + (IF shared_count[o] >= 0 THEN 1 ELSE 0)
    BY <1>1 DEF CountsExact
  <2>2. QED
    BY <1>2, <1>3, <1>4, <2>1
<1>6. \A H : Pointing(H, o) # 0 => \E h \in H : ptr[h] = o
  BY FS_EmptySet DEF Pointing
<1>7. CASE shared_count[o] = -1
  <2>1. Pointing(WeakVars, o) # 0
    BY <1>4, <1>5, <1>7
  <2>2. QED
    BY <1>6, <1>7, <2>1 DEF Usable
<1>8. CASE shared_count[o] # -1
  <2>1. Pointing(StrongVars \cup Alive, o) # 0
    BY <1>4, <1>5, <1>8
  <2>2. QED
    BY <1>6, <2>1 DEF Usable
<1>9. QED
  BY <1>7, <1>8

\* Between two calls of a careful client no block is left that nothing points to,
\* whatever lists and cycles its objects have been in: what release and the
\* destructors take apart they give back (common.d).
THEOREM NothingLeaks ==
  ASSUME Careful
  PROVE  Spec => []NoLeak
<1>1. Init => IInv
  BY InitSafe
<1>2. IInv /\ [Next]_vars => IInv'
  BY NextSafe
<1>3. IInv => NoLeak
  BY Kept DEF NoLeak
<1>4. QED
  BY <1>1, <1>2, <1>3, PTL DEF Spec
-----------------------------------------------------------------------------
(***************************************************************************)
(* The client's view of the handles, step by step.                         *)
(***************************************************************************)
View ==
  [h \in Handles |->
     IF h \in Target
     THEN IF call.how = "copy" THEN ptr[call.from] ELSE call.value
     ELSE IF h \in Objects \ Alive THEN Null ELSE ptr[h]]

LEMMA ViewMoves ==
  ASSUME NEW h, NEW v, View'[h] = v, \A x \in Handles \ {h} : View'[x] = View[x]
  PROVE  View' = [View EXCEPT ![h] = v]
<1>1. /\ View = [x \in Handles |-> View[x]] /\ View' = [x \in Handles |-> View'[x]]
      /\ DOMAIN View = Handles /\ DOMAIN View' = Handles
  BY DEF View
<1>2. QED
  BY <1>1

LEMMA ViewStays ==
  ASSUME \A x \in Handles : View'[x] = View[x]
  PROVE  View' = View
<1>1. View = [x \in Handles |-> View[x]] /\ View' = [x \in Handles |-> View'[x]]
  BY DEF View
<1>2. QED
  BY <1>1

\* Between calls a handle has what it points to.
LEMMA ViewBetween ==
  ASSUME IInv, Idle
  PROVE  /\ \A x \in Handles : View[x] = IF x \in Objects \ Alive THEN Null ELSE ptr[x]
         /\ \A x \in Usable : View[x] = ptr[x]
<1>1. Target = {} /\ Usable \subseteq Handles
  BY Between
<1>2. \A x \in Usable : x \notin Objects \ Alive
  BY HandlesAssumption DEF Usable
<1>3. QED
  BY <1>1, <1>2 DEF View

\* A handle has its new value from the moment an assignment to it begins.
LEMMA ViewBegun ==
  ASSUME NEW h \in Usable, NEW a, Begin(h, a), a # NoCall, a.to = h
  PROVE  /\ View'[h] = IF a.how = "copy" THEN ptr'[a.from] ELSE a.value
         /\ \A x \in Handles \ {h} : View'[x] = IF x \in Objects \ Alive' THEN Null ELSE ptr'[x]
<1>1. Target' = {h} /\ call' = a /\ h \in Handles
  BY DEF Begin, Target, Usable, Handles, Alive
<1>2. QED
  BY <1>1 DEF View

LEMMA AssignmentsBegin ==
  ASSUME NEW h, NEW v, NEW k, NEW d
  PROVE  /\ Set(h, v) # NoCall /\ Set(h, v).to = h
         /\ Set(h, v).how = "set" /\ Set(h, v).value = v
         /\ CopyOf(h, k, d) # NoCall /\ CopyOf(h, k, d).to = h
         /\ CopyOf(h, k, d).how = "copy" /\ CopyOf(h, k, d).from = k
BY DEF Set, CopyOf, NoCall

\* An assignment that moves no other handle.
LEMMA ViewAssigned ==
  ASSUME IInv, Idle, NEW h \in Usable, NEW a, Begin(h, a), a # NoCall, a.to = h,
         UNCHANGED <<ptr, status>>
  PROVE  View' = [View EXCEPT ![h] = IF a.how = "copy" THEN ptr[a.from] ELSE a.value]
<1>1. Alive' = Alive
  BY DEF Alive
<1>2. View'[h] = IF a.how = "copy" THEN ptr[a.from] ELSE a.value
  BY ViewBegun
<1>3. \A x \in Handles \ {h} : View'[x] = View[x]
  BY <1>1, ViewBegun, ViewBetween
<1>4. QED
  BY <1>2, <1>3, ViewMoves
-----------------------------------------------------------------------------
\* What a client begins it has, in its view, done.
LEMMA CallsImplement ==
  ASSUME IInv, NEW h \in Handles, NEW k \in Handles,
         Copy(h, k) \/ Move(h, k) \/ Swap(h, k) \/ Lock(h, k) \/ Clear(h)
  PROVE  Own!Next
<1>1. Idle /\ UNCHANGED status /\ Alive' = Alive
  BY DEF Copy, Move, Swap, Lock, Clear, counters, Alive
<1>2. /\ TypeOK /\ Target = {} /\ Reached \subseteq StrongVars \cup Alive
      /\ Reached \cup WeakVars \subseteq Usable /\ Usable \subseteq Handles
      /\ \A x \in Usable : View[x] = ptr[x]
  BY <1>1, Between, ViewBetween
<1>3. CASE Copy(h, k)
  <2>1. /\ \/ h \in Reached /\ k \in Reached
           \/ h \in WeakVars /\ k \in Reached \cup WeakVars
        /\ Begin(h, CopyOf(h, k, Null)) /\ UNCHANGED ptr
    BY <1>3 DEF Copy, Reached
  <2>2. View' = [View EXCEPT ![h] = View[k]]
    BY <1>1, <1>2, <2>1, ViewAssigned, AssignmentsBegin
  <2>3. Own!Assign(h, k)
    BY <1>1, <2>2 DEF Own!Assign, View
  <2>4. QED
    BY <1>2, <2>1, <2>3 DEF Own!Next, Own!Handles, Handles
<1>4. CASE Move(h, k)
  <2>1. /\ \/ h \in Reached /\ k \in Reached
           \/ h \in WeakVars /\ k \in WeakVars
        /\ h # k /\ ptr' = [ptr EXCEPT ![k] = Null] /\ Begin(h, Set(h, ptr[k]))
    BY <1>4 DEF Move, Reached
  <2>2. h \in Usable /\ k \in Usable
    BY <1>2, <2>1
  <2>3. View'[h] = View[k]
    BY <1>2, <2>1, <2>2, ViewBegun, AssignmentsBegin
  <2>4. ptr'[k] = Null /\ \A x \in Handles \ {k} : ptr'[x] = ptr[x]
    BY <1>2, <2>1 DEF TypeOK
  <2>5. View'[k] = Null /\ \A x \in Handles \ {h, k} : View'[x] = View[x]
    BY <1>1, <2>1, <2>2, <2>4, ViewBegun, ViewBetween, AssignmentsBegin
  <2>6. View' = [View EXCEPT ![k] = Null, ![h] = View[k]]
    <3>1. /\ View = [x \in Handles |-> View[x]] /\ View' = [x \in Handles |-> View'[x]]
          /\ DOMAIN View = Handles
      BY DEF View
    <3>2. QED
      BY <2>1, <2>3, <2>5, <3>1
  <2>7. Own!Move(h, k)
    BY <1>1, <2>6 DEF Own!Move, View
  <2>8. QED
    BY <1>2, <2>1, <2>7 DEF Own!Next
<1>5. CASE Swap(h, k)
  <2>1. /\ \/ h \in Reached /\ k \in Reached
           \/ h \in WeakVars /\ k \in WeakVars
        /\ h # k /\ ptr' = [ptr EXCEPT ![h] = ptr[k], ![k] = ptr[h]] /\ call' = call
    BY <1>5 DEF Swap, Reached
  <2>2. h \in Usable /\ k \in Usable /\ Target' = {} /\ Usable' = Usable
    BY <1>1, <1>2, <2>1 DEF Target, Usable
  <2>3. ptr'[h] = ptr[k] /\ ptr'[k] = ptr[h] /\ \A x \in Handles \ {h, k} : ptr'[x] = ptr[x]
    BY <1>2, <2>1 DEF TypeOK
  <2>4. \A x \in Handles : View'[x] = IF x \in Objects \ Alive THEN Null ELSE ptr'[x]
    BY <1>1, <2>2 DEF View
  <2>5. \A x \in Usable : x \notin Objects \ Alive
    BY HandlesAssumption DEF Usable
  <2>6. View'[h] = View[k] /\ View'[k] = View[h] /\ \A x \in Handles \ {h, k} : View'[x] = View[x]
    BY <1>1, <1>2, <2>2, <2>3, <2>4, <2>5, ViewBetween
  <2>7. View' = [View EXCEPT ![h] = View[k], ![k] = View[h]]
    <3>1. /\ View = [x \in Handles |-> View[x]] /\ View' = [x \in Handles |-> View'[x]]
          /\ DOMAIN View = Handles
      BY DEF View
    <3>2. QED
      BY <2>1, <2>6, <3>1
  <2>8. Own!Swap(h, k)
    BY <1>1, <2>7 DEF Own!Swap, View
  <2>9. QED
    BY <1>2, <2>1, <2>8 DEF Own!Next
<1>6. CASE Lock(h, k)
  <2>1. h \in Reached /\ k \in WeakVars /\ UNCHANGED ptr /\ h \in Usable /\ k \in Usable
    BY <1>2, <1>6 DEF Lock, Reached
  <2>2. CASE ptr[k] # Null /\ shared_count[ptr[k]] # -1
    <3>1. Begin(h, Set(h, ptr[k]))
      BY <1>6, <2>2 DEF Lock
    <3>2. View' = [View EXCEPT ![h] = View[k]]
      BY <1>1, <1>2, <2>1, <3>1, ViewAssigned, AssignmentsBegin
    <3>3. ptr[k] \in Objects /\ status[ptr[k]] # "free"
      BY <1>1, <2>1, <2>2, Between
    <3>4. PICK x \in StrongVars \cup Alive : ptr[x] = ptr[k]
      BY <1>1, <2>2, <3>3, Kept
    <3>5. x \in Usable /\ View[x] = View[k]
      BY <1>2, <2>1, <3>4 DEF Usable
    <3>6. Own!Owners(View[k]) # {}
      BY <3>4, <3>5 DEF Own!Owners, View
    <3>7. Own!Lock(h, k)
      BY <1>1, <3>2, <3>6 DEF Own!Lock, Own!Assign, View
    <3>8. QED
      BY <1>2, <2>1, <3>7 DEF Own!Next
  <2>3. CASE ~(ptr[k] # Null /\ shared_count[ptr[k]] # -1)
    <3>1. Begin(h, Set(h, Null))
      BY <1>6, <2>3 DEF Lock
    <3>2. View' = [View EXCEPT ![h] = Null]
      BY <1>1, <2>1, <3>1, ViewAssigned, AssignmentsBegin
    <3>3. Own!Clear(h)
      BY <1>1, <3>2 DEF Own!Clear, View
    <3>4. QED
      BY <1>2, <2>1, <3>3 DEF Own!Next
  <2>4. QED
    BY <2>2, <2>3
<1>7. CASE Clear(h)
  <2>1. h \in Reached \cup WeakVars /\ UNCHANGED ptr /\ Begin(h, Set(h, Null))
    BY <1>7 DEF Clear, Reached
  <2>2. View' = [View EXCEPT ![h] = Null]
    BY <1>1, <1>2, <2>1, ViewAssigned, AssignmentsBegin
  <2>3. Own!Clear(h)
    BY <1>1, <2>2 DEF Own!Clear, View
  <2>4. QED
    BY <1>2, <2>1, <2>3 DEF Own!Next
<1>8. QED
  BY <1>3, <1>4, <1>5, <1>6, <1>7

LEMMA CompareExchangeImplements ==
  ASSUME IInv, NEW h \in StrongVars, NEW k \in StrongVars, NEW d \in StrongVars,
         CompareExchange(h, k, d)
  PROVE  Own!Next
<1>1. Idle /\ UNCHANGED <<ptr, status>> /\ Alive' = Alive
  BY DEF CompareExchange, Alive
<1>2. \A x \in StrongVars : x \in Usable /\ View[x] = ptr[x]
  BY <1>1, ViewBetween DEF Usable
<1>3. CASE ptr[h] = ptr[k]
  <2>1. Begin(h, Set(h, ptr[d]))
    BY <1>3 DEF CompareExchange
  <2>2. View' = [View EXCEPT ![h] = View[d]]
    BY <1>1, <1>2, <2>1, ViewAssigned, AssignmentsBegin
  <2>3. Own!Assign(h, d)
    BY <1>1, <2>2 DEF Own!Assign, View
  <2>4. QED
    BY <2>3 DEF Own!Next
<1>4. CASE ptr[h] # ptr[k]
  <2>1. Begin(k, CopyOf(k, h, ptr[d]))
    BY <1>4 DEF CompareExchange
  <2>2. View' = [View EXCEPT ![k] = View[h]]
    BY <1>1, <1>2, <2>1, ViewAssigned, AssignmentsBegin
  <2>3. Own!Assign(k, h)
    BY <1>1, <2>2 DEF Own!Assign, View
  <2>4. QED
    BY <2>3 DEF Own!Next
<1>5. QED
  BY <1>3, <1>4

\* Memory that becomes an object is pointed to by nobody.
LEMMA MakeImplements ==
  ASSUME IInv, NEW h \in Handles, NEW o \in Objects, Make(h, o)
  PROVE  Own!Next
<1>1. /\ Idle /\ status[o] = "free" /\ h \in Reached /\ Begin(h, Set(h, o))
      /\ status' = [status EXCEPT ![o] = "alive"] /\ ptr' = [ptr EXCEPT ![o] = Null]
  BY DEF Make, Reached
<1>2. /\ TypeOK /\ Reached \subseteq StrongVars \cup Alive /\ h \in Usable /\ Usable \subseteq Handles
      /\ \A x \in Usable : ptr[x] # Null => status[ptr[x]] # "free"
  BY <1>1, Between
<1>3. o \notin Alive /\ Alive' = Alive \cup {o} /\ o # h /\ o # Null
  BY <1>1, <1>2, HandlesAssumption DEF Alive, TypeOK
<1>4. \A x \in Handles : View[x] = IF x \in Objects \ Alive THEN Null ELSE ptr[x]
  BY <1>1, ViewBetween
<1>5. \A x \in Handles : View[x] # o
  <2>1. SUFFICES ASSUME NEW x \in Handles, x \notin Objects \ Alive, ptr[x] = o
                 PROVE  FALSE
    BY <1>3, <1>4
  <2>2. x \in Usable
    BY <2>1 DEF Handles, Usable
  <2>3. QED
    BY <1>1, <1>2, <1>3, <2>1, <2>2
<1>6. ptr'[o] = Null /\ \A x \in Handles \ {o} : ptr'[x] = ptr[x]
  BY <1>1, <1>2 DEF TypeOK, Handles
<1>7. View'[h] = o
  BY <1>1, <1>2, ViewBegun, AssignmentsBegin
<1>8. \A x \in Handles \ {h} : View'[x] = View[x]
  <2>1. \A x \in Handles \ {h} : View'[x] = IF x \in Objects \ Alive' THEN Null ELSE ptr'[x]
    BY <1>1, <1>2, ViewBegun, AssignmentsBegin
  <2>2. QED
    BY <1>3, <1>4, <1>6, <2>1
<1>9. View' = [View EXCEPT ![h] = o]
  BY <1>7, <1>8, ViewMoves
<1>10. Own!Make(h, o)
  BY <1>3, <1>5, <1>9 DEF Own!Make, Own!Handles, Handles, View
<1>11. QED
  BY <1>1, <1>2, <1>10 DEF Own!Next
-----------------------------------------------------------------------------
\* A destructor runs when nobody owns the object, in the client's view either.
LEMMA DestroyImplements ==
  ASSUME IInv, Destroy
  PROVE  Own!Next
<1>1. /\ Top("destroy") /\ UNCHANGED <<ptr, call>>
      /\ status' = [status EXCEPT ![Obj] = "destroyed"]
  BY DEF Destroy
<1>2. TypeOK /\ CallInv /\ Obj \in Objects /\ Obj \notin StrongVars \cup WeakVars /\ status[Obj] # "free"
  BY <1>1, OnTop, HandlesAssumption DEF Top, IInv
<1>3. status[Obj] = "alive" /\ shared_count[Obj] = -1 /\ Obj \notin Target
  BY <1>1, DyingUnowned
<1>4. Pointing(StrongVars \cup Alive, Obj) = 0 /\ Temporary(Strong, Obj) = 0
  <2>1. shared_count[Obj] \notin Nat
    BY <1>3
  <2>2. QED
    BY <1>2, <2>1, SharesAlive
<1>5. \A x \in (StrongVars \cup Alive) \ Target : ptr[x] # Obj
  BY <1>4, Finite, Counts
<1>6. Obj \in Alive /\ Alive' = Alive \ {Obj} /\ Target' = Target
  BY <1>1, <1>2, <1>3 DEF Alive, TypeOK, Target
<1>7. ASSUME NEW x \in StrongVars \cup Alive, View[x] = Obj
      PROVE  FALSE
  <2>1. x \in Handles /\ x \in Strong /\ x \notin Objects \ Alive /\ x \notin WeakVars
    BY HandlesAssumption DEF Handles, Strong, Alive
  <2>2. CASE x \notin Target
    BY <1>5, <1>7, <2>1, <2>2 DEF View
  <2>3. CASE x \in Target
    <3>1. call # NoCall /\ call.to = x
      BY <2>3 DEF Target
    <3>2. CASE call.how = "copy"
      <4>1. ptr[call.from] = Obj
        BY <1>7, <2>1, <2>3, <3>2 DEF View
      <4>2. call.from \in Usable /\ call.from \in Strong /\ call.from # x
        BY <1>2, <2>1, <3>1, <3>2, AssignmentUsable DEF CallInv
      <4>3. call.from \in (StrongVars \cup Alive) \ Target
        BY <3>1, <4>2, HandlesAssumption DEF Usable, Strong, Target
      <4>4. QED
        BY <1>5, <4>1, <4>3
    <3>3. CASE call.how # "copy"
      <4>1. call.how = "set" /\ call.value = Obj
        BY <1>2, <1>7, <2>1, <2>3, <3>1, <3>3 DEF View, TypeOK, Assignments
      <4>2. QED
        BY <1>4, <2>1, <3>1, <4>1 DEF Temporary
    <3>4. QED
      BY <3>2, <3>3
  <2>4. QED
    BY <2>2, <2>3
<1>8. Own!Owners(Obj) = {}
  BY <1>7 DEF Own!Owners, View
<1>9. View'[Obj] = Null /\ \A x \in Handles \ {Obj} : View'[x] = View[x]
  <2>1. Obj \in Handles
    BY <1>2 DEF Handles
  <2>2. View'[Obj] = Null
    BY <1>2, <1>3, <1>6, <2>1 DEF View
  <2>3. \A x \in Handles \ {Obj} : View'[x] = View[x]
    BY <1>1, <1>6 DEF View
  <2>4. QED
    BY <2>2, <2>3
<1>10. View' = [View EXCEPT ![Obj] = Null]
  BY <1>9, ViewMoves
<1>11. PICK o \in Objects : o = Obj
  BY <1>2
<1>12. Own!Collect(o)
  BY <1>6, <1>8, <1>10, <1>11 DEF Own!Collect, View
<1>13. QED
  BY <1>12 DEF Own!Next

\* The rest of the work is the implementation's own affair.
LEMMA WorkHidden ==
  ASSUME IInv, Release \/ ReleaseWeak \/ FinishSet \/ FinishCopy \/ UNCHANGED vars
  PROVE  View' = View /\ Alive' = Alive
<1>1. CASE Release \/ UNCHANGED vars
  <2>1. UNCHANGED <<ptr, status, call>>
    BY <1>1 DEF Release, vars
  <2>2. Alive' = Alive /\ Target' = Target
    BY <2>1 DEF Alive, Target
  <2>3. QED
    BY <2>1, <2>2 DEF View
<1>2. CASE ReleaseWeak
  <2>1. UNCHANGED <<ptr, call>> /\ Top("releaseWeak") /\ TypeOK /\ Obj \in Objects
    BY <1>2, OnTop DEF ReleaseWeak, Top
  <2>2. Alive' = Alive
    <3>1. CASE weak_count[Obj] = 0
      <4>1. status' = [status EXCEPT ![Obj] = "free"] /\ status[Obj] = "destroyed"
        BY <1>2, <2>1, <3>1, LastOne DEF ReleaseWeak
      <4>2. QED
        BY <2>1, <4>1 DEF Alive, TypeOK
    <3>2. CASE weak_count[Obj] # 0
      BY <1>2, <3>2 DEF ReleaseWeak, Alive
    <3>3. QED
      BY <3>1, <3>2
  <2>3. Target' = Target
    BY <2>1 DEF Target
  <2>4. QED
    BY <2>1, <2>2, <2>3 DEF View
<1>3. CASE FinishSet \/ FinishCopy
  <2>1. /\ call.how \in {"set", "copy"} /\ call' = NoCall /\ UNCHANGED status
        /\ ptr' = [ptr EXCEPT ![call.to] = IF call.how = "copy" THEN ptr[call.from] ELSE call.value]
    BY <1>3 DEF FinishSet, FinishCopy
  <2>2. call # NoCall /\ call.to \in Usable /\ call.to \in Handles /\ TypeOK
    BY <2>1, AssignmentUsable DEF NoCall, IInv, Usable, Handles, Alive
  <2>3. Target = {call.to} /\ Target' = {} /\ Alive' = Alive
    BY <2>1, <2>2 DEF Target, Alive
  <2>4. /\ ptr'[call.to] = IF call.how = "copy" THEN ptr[call.from] ELSE call.value
        /\ \A x \in Handles \ {call.to} : ptr'[x] = ptr[x]
    BY <2>1, <2>2 DEF TypeOK
  <2>5. call.to \notin Objects \ Alive
    BY <2>2, HandlesAssumption DEF Usable
  <2>6. View'[call.to] = View[call.to]
    BY <2>2, <2>3, <2>4, <2>5 DEF View
  <2>7. \A x \in Handles \ {call.to} : View'[x] = View[x]
    BY <2>3, <2>4 DEF View
  <2>8. QED
    BY <2>3, <2>6, <2>7, ViewStays
<1>4. QED
  BY <1>1, <1>2, <1>3

LEMMA StepImplements ==
  ASSUME IInv, [Next]_vars
  PROVE  [Own!Next]_<<View, Alive>>
<1>1. ASSUME NEW h \in Handles, NEW o \in Objects, Make(h, o)
      PROVE  Own!Next
  BY <1>1, MakeImplements
<1>2. ASSUME NEW h \in Handles, NEW k \in Handles,
             Copy(h, k) \/ Move(h, k) \/ Swap(h, k) \/ Lock(h, k)
      PROVE  Own!Next
  BY <1>2, CallsImplement
<1>3. ASSUME NEW h \in Handles, Clear(h)
      PROVE  Own!Next
  BY <1>3, CallsImplement
<1>4. ASSUME NEW h \in StrongVars, NEW k \in StrongVars, NEW d \in StrongVars,
             CompareExchange(h, k, d)
      PROVE  Own!Next
  BY <1>4, CompareExchangeImplements
<1>5. CASE Destroy
  BY <1>5, DestroyImplements
<1>6. CASE Release \/ ReleaseWeak \/ FinishSet \/ FinishCopy \/ UNCHANGED vars
  BY <1>6, WorkHidden
<1>7. QED
  BY <1>1, <1>2, <1>3, <1>4, <1>5, <1>6 DEF Next, Work

\* Handles of a careful client do what handles promise: an assignment gives the
\* value the other handle had when it was called, whatever is released and
\* destroyed meanwhile, a weak handle gives a strong one only while there is an
\* owner, and an object goes only when no handle owns it.
THEOREM OwnershipKept ==
  ASSUME Careful
  PROVE  Spec => Own!Spec
<1>1. Init => Own!Init
  <2>1. SUFFICES ASSUME Init
                 PROVE  Own!Init
    OBVIOUS
  <2>2. Alive = {} /\ Target = {}
    BY <2>1 DEF Init, Alive, Target
  <2>3. View = [h \in Handles |-> Null]
    BY <2>1, <2>2 DEF Init, View
  <2>4. QED
    BY <2>2, <2>3 DEF Own!Init, Own!Handles, Handles, View
<1>2. Init => IInv
  BY InitSafe
<1>3. IInv /\ [Next]_vars => IInv'
  BY NextSafe
<1>4. IInv /\ [Next]_vars => [Own!Next]_<<View, Alive>>
  BY StepImplements
<1>5. QED
  BY <1>1, <1>2, <1>3, <1>4, PTL DEF Spec, Own!Spec, Own!vars, View
=============================================================================
