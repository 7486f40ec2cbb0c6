---------------------------- MODULE Orientation -----------------------------
(***************************************************************************)
(* The vector and quaternion functions of citro3d/c3d/maths.h, by the way  *)
(* programs keep an orientation: a quaternion that every turn multiplies,  *)
(* and vectors that are turned along.  The turns are those of a third of a *)
(* circle and the half turns that map the axes to one another, whose       *)
(* quaternions have components of whole and half units: a quaternion is    *)
(* written in halves.  Quat_Multiply and Quat_CrossFVec3 are external.     *)
(***************************************************************************)
EXTENDS Integers

CONSTANT Reach   \* bound: vectors have coordinates of at most this size

VARIABLES q,            \* the orientation
          start,        \* history: a pair of vectors before any turn
          u, v          \* the same two, turned

vars == <<q, start, u, v>>

FVec3_New(x, y, z) == [x |-> x, y |-> y, z |-> z]
Vectors == [x : -Reach .. Reach, y : -Reach .. Reach, z : -Reach .. Reach]

FVec3_Dot(a, b) == a.x * b.x + a.y * b.y + a.z * b.z

FVec3_Cross(a, b) ==
  FVec3_New(a.y * b.z - a.z * b.y, a.z * b.x - a.x * b.z, a.x * b.y - a.y * b.x)

Quat_New(i, j, k, r) == [i |-> i, j |-> j, k |-> k, r |-> r]
Quat_Identity == Quat_New(0, 0, 0, 2)
Quat_Conjugate(p) == Quat_New(-p.i, -p.j, -p.k, p.r)
Quat_Dot(a, b) == a.i * b.i + a.j * b.j + a.k * b.k + a.r * b.r
Quat_Inverse(p) ==
  LET c == Quat_Conjugate(p)
      d == Quat_Dot(p, p) \div 4
  IN  Quat_New(c.i \div d, c.j \div d, c.k \div d, c.r \div d)

Quat_Multiply(a, b) ==
  Quat_New((a.r * b.i + a.i * b.r + a.j * b.k - a.k * b.j) \div 2,
           (a.r * b.j + a.j * b.r + a.k * b.i - a.i * b.k) \div 2,
           (a.r * b.k + a.k * b.r + a.i * b.j - a.j * b.i) \div 2,
           (a.r * b.r - a.i * b.i - a.j * b.j - a.k * b.k) \div 2)

\* p a p^-1: a's components in halves, back to whole ones.
Quat_CrossFVec3(p, a) ==
  LET b == Quat_Multiply(Quat_Multiply(p, Quat_New(2 * a.x, 2 * a.y, 2 * a.z, 0)),
                         Quat_Conjugate(p))
  IN  FVec3_New(b.i \div 2, b.j \div 2, b.k \div 2)

\* A faulty variant: the quaternion is not inverted.
FVec3_CrossQuatForward(a, p) == Quat_CrossFVec3(p, a)

FVec3_CrossQuat(a, p) == Quat_CrossFVec3(Quat_Inverse(p), a)

Halves == {-1, 1}
Turns ==
  {Quat_New(i, j, k, r) : i, j, k, r \in Halves}
    \cup {Quat_New(2, 0, 0, 0), Quat_New(0, 2, 0, 0), Quat_New(0, 0, 2, 0)}
-----------------------------------------------------------------------------
Init ==
  /\ q = Quat_Identity
  /\ u \in Vectors /\ v \in Vectors
  /\ start = <<u, v>>

\* The program turns everything by p, or turns it back.
Turn(p) ==
  /\ q' = Quat_Multiply(p, q)
  /\ u' = Quat_CrossFVec3(p, u) /\ v' = Quat_CrossFVec3(p, v)
  /\ UNCHANGED start

TurnBack(p) ==
  /\ q' = Quat_Multiply(Quat_Inverse(p), q)
  /\ u' = FVec3_CrossQuat(u, p) /\ v' = FVec3_CrossQuat(v, p)
  /\ UNCHANGED start

Next == \E p \in Turns : Turn(p) \/ TurnBack(p)

Spec == Init /\ [][Next]_vars
-----------------------------------------------------------------------------
\* However often the vectors have been turned and turned back, the inverse of
\* the orientation takes them to where they started; the angle between them
\* is the same, and their cross product has been turned like them.
TurnsTogether ==
  /\ <<FVec3_CrossQuat(u, q), FVec3_CrossQuat(v, q)>> = start
  /\ FVec3_Dot(u, v) = FVec3_Dot(start[1], start[2])
  /\ FVec3_CrossQuat(FVec3_Cross(u, v), q) = FVec3_Cross(start[1], start[2])
=============================================================================
