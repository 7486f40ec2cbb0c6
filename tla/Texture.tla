------------------------------ MODULE Texture -------------------------------
(***************************************************************************)
(* Textures (citro3d/c3d/texture.h): where the mipmap levels of an image   *)
(* lie in its memory, and the sampling parameters packed into one word.    *)
(* C3D_TexInitWithParams is external: it takes memory for the levels asked *)
(* for and sets the mode.  D programs have a translation by hand,          *)
(* texture.d of ys3ds, which differs in C3D_TexGetImagePtr.                *)
(***************************************************************************)
EXTENDS Words

CONSTANTS Binding,   \* "C" or "D": whose functions the program uses
          Sides,     \* widths and heights: powers of two, 8 to 1024
          Depths,    \* bits per texel of the formats
          Biases     \* what programs ask for, with either sign, as the level
                     \* of detail bias, in 1/512

Shaped == {"2d", "cube", "shadow2d", "shadowcube"}
Mode(type) ==
  CASE type = "2d" -> 0 [] type = "cube" -> 1
    [] type = "shadow2d" -> 2 [] type = "shadowcube" -> 4

VARIABLES tex,      \* width, height, size, maxLevel, param, lodBias
          asked     \* history: what the program last asked for

vars == <<tex, asked>>

Log2 == [n \in {2^k : k \in 0 .. 10} |-> CHOOSE k \in 0 .. 10 : 2^k = n]

CalcMaxLevel(width, height) == Log2[IF width < height THEN width ELSE height] - 3
CalcLevelSize(size, level) == size \div 2^(2 * level)

\* A faulty variant: the level after the last is not taken off.
CalcTotalSizeShort(size, maxLevel) ==
  ((size - CalcLevelSize(size, maxLevel)) * 4) \div 3

CalcTotalSize(size, maxLevel) ==
  ((size - CalcLevelSize(size, maxLevel + 1)) * 4) \div 3

\* The offset and the size of a level in the memory of an image; of the whole
\* of it for level -1, for which texture.d returns 0.
ImageOffset(level) == IF level > 0 THEN CalcTotalSize(tex.size, level - 1) ELSE 0
ImageSize(level) ==
  IF level >= 0 THEN CalcLevelSize(tex.size, level)
  ELSE IF Binding = "D" THEN 0 ELSE CalcTotalSize(tex.size, tex.maxLevel)

\* The fields of param (gpu/enums.h).
MagFilter(v) == Shl(Low(Bits(v), 1), 1)
MinFilter(v) == Shl(Low(Bits(v), 1), 2)
MipFilter(v) == Shl(Low(Bits(v), 1), 24)
WrapS(v) == Shl(Low(Bits(v), 2), 12)
WrapT(v) == Shl(Low(Bits(v), 2), 8)
TexMode(v) == Shl(Low(Bits(v), 3), 28)
-----------------------------------------------------------------------------
InitWithParams(width, height, bits, maxLevel, type) ==
  /\ tex = [width |-> width, height |-> height, maxLevel |-> maxLevel,
            size |-> (width * height * bits) \div 8,
            param |-> TexMode(Mode(type)), lodBias |-> 0]
  /\ asked = [bits |-> bits, type |-> Mode(type), mag |-> 0, min |-> 0,
              mip |-> 0, s |-> 0, t |-> 0, bias |-> 0]

\* C3D_TexInitMipmap, and C3D_TexInit, -VRAM and -Cube; the shadow maps are
\* RGBA8, 32 bits.
Init ==
  \E width, height \in Sides :
    \/ \E bits \in Depths :
         \/ InitWithParams(width, height, bits, CalcMaxLevel(width, height), "2d")
         \/ \E type \in {"2d", "cube"} : InitWithParams(width, height, bits, 0, type)
    \/ \E type \in {"shadow2d", "shadowcube"} :
         InitWithParams(width, height, 32, 0, type)

\* A faulty variant: a filter can be switched on and not off.
SetFilterOnly(mag, min) ==
  /\ tex' = [tex EXCEPT !.param = @ \cup MagFilter(mag) \cup MinFilter(min)]
  /\ asked' = [asked EXCEPT !.mag = mag, !.min = min]

SetFilter(mag, min) ==
  /\ tex' = [tex EXCEPT !.param =
               (@ \ (MagFilter(1) \cup MinFilter(1))) \cup MagFilter(mag) \cup MinFilter(min)]
  /\ asked' = [asked EXCEPT !.mag = mag, !.min = min]

SetFilterMipmap(filter) ==
  /\ tex' = [tex EXCEPT !.param = (@ \ MipFilter(1)) \cup MipFilter(filter)]
  /\ asked' = [asked EXCEPT !.mip = filter]

SetWrap(s, t) ==
  /\ tex' = [tex EXCEPT !.param = (@ \ (WrapS(3) \cup WrapT(3))) \cup WrapS(s) \cup WrapT(t)]
  /\ asked' = [asked EXCEPT !.s = s, !.t = t]

\* To 1/256, towards zero, and into 13 bits with a sign.
LodBias(bias) ==
  LET i == IF bias >= 0 THEN bias \div 2 ELSE -((-bias) \div 2)
  IN  IF i > 4095 THEN 4095 ELSE IF i < -4096 THEN -4096 ELSE i

SetLodBias(bias) ==
  /\ tex' = [tex EXCEPT !.lodBias = LodBias(bias) % 8192]
  /\ asked' = [asked EXCEPT !.bias = bias]

Next ==
  \/ \E mag, min \in 0 .. 1 : SetFilter(mag, min)
  \/ \E filter \in 0 .. 1 : SetFilterMipmap(filter)
  \/ \E s, t \in 0 .. 3 : SetWrap(s, t)
  \/ \E bias \in Biases : SetLodBias(bias) \/ SetLodBias(-bias)

Spec == Init /\ [][Next]_vars
-----------------------------------------------------------------------------
\* The levels of an image fill its memory one after the other, each as large
\* as its texels, and the formulas by which C3D_TexGetImagePtr finds them
\* divide and shift nothing away.
LevelsTile ==
  /\ ImageOffset(0) = 0
  /\ \A level \in 0 .. tex.maxLevel :
       8 * ImageSize(level)
         = (tex.width \div 2^level) * (tex.height \div 2^level) * asked.bits
  /\ \A level \in 1 .. tex.maxLevel :
       ImageOffset(level) = ImageOffset(level - 1) + ImageSize(level - 1)
  /\ ImageSize(-1) = ImageOffset(tex.maxLevel) + ImageSize(tex.maxLevel)

\* C3D_TexGetType: what it returns is a word, too.
Type == Low(Shr(tex.param, 28), 3)

\* Whatever is set in whichever order, the GPU reads from the packed words what
\* was last asked for.
SamplesAsAsked ==
  /\ Type = Bits(asked.type)
  /\ tex.param = TexMode(asked.type) \cup MagFilter(asked.mag) \cup MinFilter(asked.min)
                   \cup MipFilter(asked.mip) \cup WrapS(asked.s) \cup WrapT(asked.t)
  /\ LodBias(asked.bias) = IF tex.lodBias < 4096 THEN tex.lodBias ELSE tex.lodBias - 8192
=============================================================================
