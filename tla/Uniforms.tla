------------------------------ MODULE Uniforms ------------------------------
(***************************************************************************)
(* The uniform registers of a shader (citro3d/c3d/uniforms.h) and a matrix *)
(* stack (mtxstack.h) bound to a range of them.  A change is made in the   *)
(* program's copy and marked dirty: C3D_UpdateUniforms sends what is dirty *)
(* to the GPU, MtxStack_Update copies the current matrix to the registers  *)
(* if the stack is dirty.  Both are external; so are MtxStack_Push and     *)
(* MtxStack_Pop.  The registers have one range of numbers: vectors, then   *)
(* from 0x60 packed integers and from 0x68 the booleans.                   *)
(***************************************************************************)
EXTENDS Naturals, Sequences

CONSTANTS FVecs, IVecs, Bools,   \* the numbers of the three kinds of registers
          Types,     \* the shaders: vertex and geometry
          Matrices,  \* the matrices programs set
          Numbers,   \* the integers and vectors they set
          BoundTo, BoundAt, Rows,  \* MtxStack_Bind: the shader, the first
                                   \* register and the number of rows
          StackSize

Registers == FVecs \cup IVecs \cup Bools

\* The rows of the stack's matrix go to registers of their own.
Bound == BoundAt .. BoundAt + Rows - 1

ASSUME BoundAssumption ==
  /\ BoundTo \in Types /\ BoundAt \in Nat /\ Rows \in Nat /\ Bound \subseteq FVecs
ASSUME KindsAssumption ==
  /\ Registers \subseteq Nat
  /\ FVecs \cap IVecs = {} /\ FVecs \cap Bools = {} /\ IVecs \cap Bools = {}

VARIABLES cpu,      \* C3D_FVUnif, C3D_IVUnif, C3D_BoolUnifs
          dirty,    \* the registers that are marked dirty
          gpu,      \* what the GPU has
          stack, stackDirty

uniformVars == <<cpu, dirty, gpu, stack, stackDirty>>

\* What a register holds: nothing, a row of a matrix, or numbers; IVec_Pack
\* takes bytes.
Row(mtx, i) == <<mtx, i>>
Packed(x, y, z, w) == <<x % 256, y % 256, z % 256, w % 256>>

UniformsInit ==
  /\ cpu = [r \in Types \X Registers |-> <<>>]
  /\ gpu = cpu
  /\ dirty = {}
  /\ \E mtx \in Matrices : stack = <<mtx>>
  /\ stackDirty = TRUE

Current == stack[Len(stack)]

\* C3D_FVUnifWritePtr marks size registers; the booleans have one mark.
WritePtr(type, id, size) == dirty \cup {type} \X (id .. id + size - 1)
WriteBools(type) == dirty \cup {type} \X Bools

\* A faulty variant: one mark for the whole matrix.
FVUnifMtxMarksFirst(type, id, mtx, num) ==
  /\ dirty' = WritePtr(type, id, 1)
  /\ cpu' = [r \in DOMAIN cpu |->
               IF r[1] = type /\ r[2] \in id .. id + num - 1
               THEN Row(mtx, r[2] - id) ELSE cpu[r]]

\* C3D_FVUnifMtxNx4; the 4x4, 3x4 and 2x4 calls fix num.
FVUnifMtx(type, id, mtx, num) ==
  /\ dirty' = WritePtr(type, id, num)
  /\ cpu' = [r \in DOMAIN cpu |->
               IF r[1] = type /\ r[2] \in id .. id + num - 1
               THEN Row(mtx, r[2] - id) ELSE cpu[r]]

FVUnifMtxNx4(type, id, mtx, num) ==
  /\ id .. id + num - 1 \subseteq FVecs
  /\ FVUnifMtx(type, id, mtx, num)
  /\ UNCHANGED <<gpu, stack, stackDirty>>

FVUnifSet(type, id, v) ==
  /\ id \in FVecs
  /\ dirty' = WritePtr(type, id, 1)
  /\ cpu' = [cpu EXCEPT ![<<type, id>>] = <<v>>]
  /\ UNCHANGED <<gpu, stack, stackDirty>>

IVUnifSet(type, id, x, y, z, w) ==
  /\ id \in IVecs
  /\ dirty' = WritePtr(type, id, 1)
  /\ cpu' = [cpu EXCEPT ![<<type, id>>] = Packed(x, y, z, w)]
  /\ UNCHANGED <<gpu, stack, stackDirty>>

BoolUnifSet(type, id, value) ==
  /\ id \in Bools
  /\ dirty' = WriteBools(type)
  /\ cpu' = [cpu EXCEPT ![<<type, id>>] = <<value>>]
  /\ UNCHANGED <<gpu, stack, stackDirty>>

UpdateUniforms(type) ==
  /\ gpu' = [r \in DOMAIN gpu |-> IF r \in dirty /\ r[1] = type THEN cpu[r] ELSE gpu[r]]
  /\ dirty' = {r \in dirty : r[1] # type}
  /\ UNCHANGED <<cpu, stack, stackDirty>>

\* The program changes the matrix MtxStack_Cur points it to.
Change(mtx) ==
  /\ stack' = [stack EXCEPT ![Len(stack)] = mtx]
  /\ stackDirty' = TRUE
  /\ UNCHANGED <<cpu, dirty, gpu>>

Push ==
  /\ Len(stack) < StackSize
  /\ stack' = Append(stack, Current)
  /\ UNCHANGED <<cpu, dirty, gpu, stackDirty>>

Pop ==
  /\ Len(stack) > 1
  /\ stack' = SubSeq(stack, 1, Len(stack) - 1)
  /\ stackDirty' = TRUE
  /\ UNCHANGED <<cpu, dirty, gpu>>

UpdateStack ==
  /\ stackDirty
  /\ FVUnifMtx(BoundTo, BoundAt, Current, Rows)
  /\ stackDirty' = FALSE
  /\ UNCHANGED <<gpu, stack>>

\* Programs leave the registers a stack is bound to alone.
Free(type, ids) == type = BoundTo => ids \cap Bound = {}

UniformsNext ==
  \/ \E type \in Types, id \in Registers :
       \/ \E mtx \in Matrices, num \in 2 .. 4 :
            Free(type, id .. id + num - 1) /\ FVUnifMtxNx4(type, id, mtx, num)
       \/ \E v \in Numbers : Free(type, {id}) /\ FVUnifSet(type, id, v)
       \/ \E x, y \in Numbers : IVUnifSet(type, id, x, y, x, y)
       \/ \E value \in BOOLEAN : BoolUnifSet(type, id, value)
  \/ \E type \in Types : UpdateUniforms(type)
  \/ \E mtx \in Matrices : Change(mtx)
  \/ Push \/ Pop \/ UpdateStack

UniformsSpec == UniformsInit /\ [][UniformsNext]_uniformVars
-----------------------------------------------------------------------------
\* Once the stack and the registers have been updated, as before every draw,
\* the GPU has what the program has set and the matrix on top of the stack.
UpToDate ==
  /\ \A r \in DOMAIN cpu \ dirty : gpu[r] = cpu[r]
  /\ ~stackDirty =>
       \A i \in 0 .. Rows - 1 : cpu[<<BoundTo, BoundAt + i>>] = Row(Current, i)
=============================================================================
