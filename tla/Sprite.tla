------------------------------- MODULE Sprite -------------------------------
(***************************************************************************)
(* The size of a sprite and its center, the point it is placed and turned  *)
(* by (citro2d/c2d/sprite.h).  The center is kept in units of the drawn    *)
(* size, so that it has to follow every change of size.                    *)
(***************************************************************************)
EXTENDS Integers

CONSTANTS Images,     \* width and height of images, multiples of 8
          Scales,     \* factors, in halves; not 0, for SetScale divides by the size
          Centers,    \* centers, in quarters of the size
          MaxSize     \* bound on the drawn size

VARIABLES image,
          w, h,               \* pos.w, pos.h
          centerX, centerY,
          set                 \* history: the center as it was last set

vars == <<image, w, h, centerX, centerY, set>>

Abs(n) == IF n < 0 THEN -n ELSE n

\* C2D_SpriteFromImage
Init ==
  /\ image \in Images
  /\ w = image.width /\ h = image.height
  /\ centerX = 0 /\ centerY = 0
  /\ set = [x |-> 0, y |-> 0]

\* A faulty variant: the center stays where it was.
ScaleSizeOnly(x, y) ==
  /\ w' = (w * x) \div 2 /\ h' = (h * y) \div 2
  /\ UNCHANGED <<image, centerX, centerY, set>>

Scale(x, y) ==
  /\ w' = (w * x) \div 2 /\ h' = (h * y) \div 2
  /\ centerX' = (centerX * x) \div 2 /\ centerY' = (centerY * y) \div 2
  /\ UNCHANGED <<image, set>>

\* The old center is divided by the old size, and without its sign.
SetScale(x, y) ==
  /\ w' = (x * image.width) \div 2 /\ h' = (y * image.height) \div 2
  /\ centerX' = Abs(centerX * w') \div Abs(w)
  /\ centerY' = Abs(centerY * h') \div Abs(h)
  /\ UNCHANGED <<image, set>>

SetCenter(x, y) ==
  /\ centerX' = (x * w) \div 4 /\ centerY' = (y * h) \div 4
  /\ set' = [x |-> x, y |-> y]
  /\ UNCHANGED <<image, w, h>>

Fits(n) == Abs(n) <= MaxSize /\ n % 8 = 0

Next ==
  \/ \E x, y \in Scales :
       /\ Scale(x, y) \/ SetScale(x, y)
       /\ Fits(w') /\ Fits(h')
  \/ \E x, y \in Centers : SetCenter(x, y)

Spec == Init /\ [][Next]_vars
-----------------------------------------------------------------------------
\* However a sprite is scaled, its center is the same point of the image, up to
\* the sign, which Scale keeps with the sign of the size and SetScale drops.
CenterKept ==
  /\ 4 * Abs(centerX) = Abs(set.x * w)
  /\ 4 * Abs(centerY) = Abs(set.y * h)
=============================================================================
