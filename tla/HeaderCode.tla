----------------------------- MODULE HeaderCode -----------------------------
(***************************************************************************)
(* The parts of the C libraries whose code is in their headers, as inline  *)
(* functions.  They have no state in common: one of them is chosen at the  *)
(* start, and the others do nothing.                                       *)
(***************************************************************************)
EXTENDS Exclusive, Uniforms

CONSTANTS Binding,                                      \* Ipc, Texture
          Commands, Normals, MaxItems,                  \* Ipc
          HandleNumbers, StaticSizes, PXISizes, BufferSizes, BufferIds,
          Sides, Depths, Biases,                        \* Texture
          Centers, MaxSize,                             \* Sprite
          Reach                                         \* Orientation

ASSUME PartsAssumption ==
  /\ Sides \subseteq {2^k : k \in 3 .. 10} /\ Depths \subseteq Nat /\ Biases \subseteq Int
  /\ Centers \subseteq Int /\ Reach \in Nat

\* The ranges that ipc.h documents.
ASSUME RequestAssumption ==
  /\ Commands \subseteq 0 .. 2^16 - 1 /\ Normals \subseteq 0 .. 63
  /\ HandleNumbers \subseteq 1 .. 64 /\ BufferIds \subseteq 0 .. 15
  /\ StaticSizes \subseteq 0 .. 2^18 - 1 /\ PXISizes \subseteq 0 .. 2^24 - 1
  /\ BufferSizes \subseteq 0 .. 2^28 - 1

\* Every kind of parameter of a request, in its documented range.
Items ==
  [kind : {"shared", "move"}, number : HandleNumbers, arg : {0}]
    \cup [kind : {"pid"}, number : {0}, arg : {0}]
    \cup [kind : {"static"}, number : StaticSizes, arg : BufferIds]
    \cup [kind : {"pxi", "pxi_ro"}, number : PXISizes, arg : BufferIds]
    \cup [kind : {"buffer"}, number : BufferSizes, arg : {2, 4, 6}]

\* Sprites are made larger and smaller, and turned over.
Images == [width : {16}, height : {16, 32}]
Scales == {-4, -2, 1, 2, 4}

VARIABLES part,
          command, normal, items, cmd, cursor, found,
          tex, asked,
          image, w, h, centerX, centerY, set,
          q, start, u, v

I == INSTANCE Ipc
T == INSTANCE Texture
S == INSTANCE Sprite
O == INSTANCE Orientation

requestVars == <<command, normal, items, cmd, cursor, found>>
textureVars == <<tex, asked>>
spriteVars == <<image, w, h, centerX, centerY, set>>
orientationVars == <<q, start, u, v>>
vars == <<part, wordVars, uniformVars, requestVars, textureVars, spriteVars, orientationVars>>

\* The variables of a part that does nothing: its initial state, or any value
\* where there are many of those.
none == "none"
NoRequest == /\ command = none /\ normal = none /\ items = none
             /\ cmd = none /\ cursor = none /\ found = none
NoTexture == tex = none /\ asked = none
NoSprite == image = none /\ w = none /\ h = none /\ centerX = none /\ centerY = none /\ set = none
NoOrientation == q = none /\ start = none /\ u = none /\ v = none

Parts == {"word", "uniforms", "request", "texture", "sprite", "orientation"}

Init ==
  /\ part \in Parts
  /\ WordInit
  /\ UniformsInit
  /\ part # "uniforms" => stack = <<CHOOSE mtx \in Matrices : TRUE>>
  /\ IF part = "request" THEN I!Init ELSE NoRequest
  /\ IF part = "texture" THEN T!Init ELSE NoTexture
  /\ IF part = "sprite" THEN S!Init ELSE NoSprite
  /\ IF part = "orientation" THEN O!Init ELSE NoOrientation

Next ==
  \/ part = "word" /\ WordNext /\ UNCHANGED <<part, uniformVars, requestVars, textureVars, spriteVars, orientationVars>>
  \/ part = "uniforms" /\ UniformsNext /\ UNCHANGED <<part, wordVars, requestVars, textureVars, spriteVars, orientationVars>>
  \/ part = "request" /\ I!Next /\ UNCHANGED <<part, wordVars, uniformVars, textureVars, spriteVars, orientationVars>>
  \/ part = "texture" /\ T!Next /\ UNCHANGED <<part, wordVars, uniformVars, requestVars, spriteVars, orientationVars>>
  \/ part = "sprite" /\ S!Next /\ UNCHANGED <<part, wordVars, uniformVars, requestVars, textureVars, orientationVars>>
  \/ part = "orientation" /\ O!Next /\ UNCHANGED <<part, wordVars, uniformVars, requestVars, textureVars, spriteVars>>

Spec == Init /\ [][Next]_vars

FairSpec == Spec /\ WordFairness
-----------------------------------------------------------------------------
\* The kernel reads a request as it was built with the functions of ipc.h.
ReadAsBuilt == part = "request" => I!ReadAsBuilt

\* The levels of a texture fill its memory without gaps or overlaps (tex.h).
LevelsTile == part = "texture" => T!LevelsTile

\* The sampling parameters in the words of a texture are those last asked for.
SamplesAsAsked == part = "texture" => T!SamplesAsAsked

\* The center of a sprite stays at the same point of its image (sprite.h).
CenterKept == part = "sprite" => S!CenterKept

\* A vector that is turned together with an orientation is turned back by the
\* inverse of that orientation (maths.h).
TurnsTogether == part = "orientation" => O!TurnsTogether
=============================================================================
