-------------------------- MODULE HeaderCode_proofs -------------------------
(***************************************************************************)
(* The parts of module HeaderCode. For any threads, a store that succeeds  *)
(* stores over the value that was loaded, so that the loops implement      *)
(* module AtomicWord. The GPU has what the program has set, whatever       *)
(* registers, shaders and matrices there are and wherever the stack is     *)
(* bound. The levels of a texture fill its memory at any size and depth,   *)
(* and its packed words say what was asked for. The center of a sprite is  *)
(* where it was set, in quarters of the size, and vectors that are turned  *)
(* with an orientation can be turned back, however far apart they are. The *)
(* kernel finds its way through every request that the functions of ipc.h  *)
(* can build in their documented ranges.                                   *)
(***************************************************************************)
EXTENDS HeaderCode, CountingLemmas

\* Whoever can still store has loaded the word as it is.
LoadsFresh ==
  /\ linked \subseteq Threads
  /\ \A t \in linked : val[t] = word
  /\ val \in [Threads -> Int] /\ word \in Int
  /\ told \in [Threads -> BOOLEAN]

LEMMA ChangedType ==
  ASSUME NEW work, NEW seen \in Int
  PROVE  Changed(work, seen) \in Int
  BY DEF Changed, NumThreads, Announced, Accounted, HasWaiters, All

\* No load outlives a store: the inductive invariant.
THEOREM LoadsStayFresh == WordSpec => []LoadsFresh
<1>1. WordInit => LoadsFresh
  BY DEF WordInit, LoadsFresh
<1>2. LoadsFresh /\ [WordNext]_wordVars => LoadsFresh'
  <2> SUFFICES ASSUME LoadsFresh, [WordNext]_wordVars
               PROVE  LoadsFresh'
    OBVIOUS
  <2> USE DEF LoadsFresh
  <2>1. ASSUME NEW t \in Threads, NEW work \in Works, Begin(t, work)
        PROVE  LoadsFresh'
    BY <2>1 DEF Begin
  <2>2. ASSUME NEW t \in Threads, Ldrex(t)
        PROVE  LoadsFresh'
    BY <2>2 DEF Ldrex
  <2>3. ASSUME NEW t \in Threads, Strex(t)
        PROVE  LoadsFresh'
    <3>1. word' \in Int
      BY <2>3, ChangedType DEF Strex
    <3>2. told' \in [Threads -> BOOLEAN]
      <4>1. told[t] \in BOOLEAN /\ HasWaiters(val[t]) \in BOOLEAN
        BY DEF HasWaiters
      <4>2. QED
        BY <2>3, <4>1, Zenon DEF Strex
    <3>3. QED
      BY <2>3, <3>1, <3>2 DEF Strex
  <2>4. ASSUME NEW t \in Threads, StrexFails(t)
        PROVE  LoadsFresh'
    BY <2>4 DEF StrexFails
  <2>5. ASSUME NEW t \in Threads, Switch(t)
        PROVE  LoadsFresh'
    BY <2>5 DEF Switch
  <2>6. CASE UNCHANGED wordVars
    BY <2>6 DEF wordVars
  <2>7. QED
    BY <2>1, <2>2, <2>3, <2>4, <2>5, <2>6 DEF WordNext, Step
<1>3. QED
  BY <1>1, <1>2, PTL DEF WordSpec

\* Every change of a condition variable's word amounts to one step that reads
\* and writes it, as the other modules take for granted.
THEOREM AtomicWordImplemented == WordSpec => ImplementsAtomicWord
<1>1. WordInit => AW!Init
  BY DEF WordInit, AW!Init
<1>2. LoadsFresh /\ [WordNext]_wordVars => [AW!Next]_<<word, told>>
  <2> SUFFICES ASSUME LoadsFresh, [WordNext]_wordVars
               PROVE  [AW!Next]_<<word, told>>
    OBVIOUS
  <2>1. ASSUME NEW t \in Threads, NEW work \in Works, Begin(t, work)
        PROVE  UNCHANGED <<word, told>>
    BY <2>1 DEF Begin
  <2>2. ASSUME NEW t \in Threads, Ldrex(t)
        PROVE  UNCHANGED <<word, told>>
    BY <2>2 DEF Ldrex
  <2>3. ASSUME NEW t \in Threads, Strex(t)
        PROVE  AW!Next
    <3>1. val[t] = word
      BY <2>3 DEF Strex, LoadsFresh
    <3>2. CASE doing[t] = "announce"
      <4>1. word' = Announced(word) /\ told' = [told EXCEPT ![t] = @]
        BY <2>3, <3>1, <3>2 DEF Strex, Changed
      <4>2. told' = told
        BY <4>1 DEF LoadsFresh
      <4>3. QED
        BY <4>1, <4>2 DEF AW!Next, AW!Announce, AW!Announced, Announced
    <3>3. CASE doing[t] # "announce"
      <4>1. /\ word' = Accounted(word, NumThreads(doing[t]))
            /\ told' = [told EXCEPT ![t] = HasWaiters(word)]
        BY <2>3, <3>1, <3>3 DEF Strex, Changed
      <4>2. NumThreads(doing[t]) = 1 \/ NumThreads(doing[t]) = All
        BY DEF NumThreads
      <4>3. AW!Account(t, 1) \/ AW!Account(t, All)
        BY <4>1, <4>2 DEF AW!Account, AW!Accounted, Accounted, AW!HasWaiters, HasWaiters
      <4>4. QED
        BY <4>3 DEF AW!Next, AW!All, All
    <3>4. QED
      BY <3>2, <3>3
  <2>4. ASSUME NEW t \in Threads, StrexFails(t)
        PROVE  UNCHANGED <<word, told>>
    BY <2>4 DEF StrexFails
  <2>5. ASSUME NEW t \in Threads, Switch(t)
        PROVE  UNCHANGED <<word, told>>
    BY <2>5 DEF Switch
  <2>6. CASE UNCHANGED wordVars
    BY <2>6 DEF wordVars
  <2>7. QED
    BY <2>1, <2>2, <2>3, <2>4, <2>5, <2>6 DEF WordNext, Step
<1>3. QED
  BY <1>1, <1>2, LoadsStayFresh, PTL DEF WordSpec, ImplementsAtomicWord, AW!Spec
-----------------------------------------------------------------------------
\* The registers and the stack have their shape.
Shape ==
  /\ DOMAIN cpu = Types \X Registers
  /\ DOMAIN gpu = Types \X Registers
  /\ stack \in Seq(Matrices) /\ stack # <<>>

\* The inductive invariant of the uniforms.
IInv == Shape /\ UpToDate

LEMMA InitShape == UniformsInit => Shape
<1> SUFFICES ASSUME UniformsInit PROVE Shape
  OBVIOUS
<1>1. PICK mtx \in Matrices : stack = <<mtx>>
  BY DEF UniformsInit
<1>2. stack \in Seq(Matrices) /\ stack # <<>>
  BY <1>1
<1>3. QED
  BY <1>2 DEF UniformsInit, Shape

\* A change of registers that are all marked, and of none the stack is bound
\* to, leaves what is not marked as it was.
LEMMA Marked ==
  ASSUME NEW ids, NEW type \in Types,
         IInv, dirty' = dirty \cup {type} \X ids,
         Free(type, ids),
         DOMAIN cpu' = DOMAIN cpu,
         \A r \in (Types \X Registers) \ ({type} \X ids) : cpu'[r] = cpu[r],
         UNCHANGED <<gpu, stack, stackDirty>>
  PROVE  IInv'
<1>1. Shape'
  BY DEF IInv, Shape
<1>2. \A r \in DOMAIN cpu' \ dirty' : gpu'[r] = cpu'[r]
  BY DEF IInv, Shape, UpToDate
<1>3. ASSUME ~stackDirty', NEW i \in 0 .. Rows - 1
      PROVE  cpu'[<<BoundTo, BoundAt + i>>] = Row(Current, i)'
  <2>1. BoundAt + i \in Bound
    BY <1>3, BoundAssumption DEF Bound
  <2>2. <<BoundTo, BoundAt + i>> \in Types \X Registers
    BY <2>1, BoundAssumption DEF Registers
  <2>3. <<BoundTo, BoundAt + i>> \notin {type} \X ids
    BY <2>1 DEF Free
  <2>4. cpu[<<BoundTo, BoundAt + i>>] = Row(Current, i)
    BY <1>3 DEF IInv, UpToDate
  <2>5. QED
    BY <2>2, <2>3, <2>4 DEF Row, Current
<1>4. QED
  BY <1>1, <1>2, <1>3 DEF IInv, UpToDate

LEMMA SetKeeps ==
  ASSUME NEW x, NEW ids, NEW type \in Types, NEW id \in Registers \cap ids,
         IInv, dirty' = dirty \cup {type} \X ids, Free(type, ids),
         cpu' = [cpu EXCEPT ![<<type, id>>] = x],
         UNCHANGED <<gpu, stack, stackDirty>>
  PROVE  IInv'
<1>1. DOMAIN cpu' = DOMAIN cpu /\ DOMAIN cpu = Types \X Registers
  BY DEF IInv, Shape
<1>2. \A r \in (Types \X Registers) \ ({type} \X ids) : cpu'[r] = cpu[r]
  BY <1>1
<1>3. QED
  BY <1>1, <1>2, Marked

\* What C3D_FVUnifMtxNx4 does to the copy.
LEMMA MtxCopies ==
  ASSUME NEW type \in Types, NEW id \in Nat, NEW mtx, NEW num \in Nat,
         IInv, FVUnifMtx(type, id, mtx, num)
  PROVE  /\ dirty' = dirty \cup {type} \X (id .. id + num - 1)
         /\ DOMAIN cpu' = DOMAIN cpu
         /\ \A r \in (Types \X Registers) \ ({type} \X (id .. id + num - 1)) : cpu'[r] = cpu[r]
         /\ \A i \in 0 .. num - 1 :
              <<type, id + i>> \in Types \X Registers => cpu'[<<type, id + i>>] = Row(mtx, i)
<1>1. DOMAIN cpu = Types \X Registers
  BY DEF IInv, Shape
<1>2. cpu' = [r \in DOMAIN cpu |->
                IF r[1] = type /\ r[2] \in id .. id + num - 1
                THEN Row(mtx, r[2] - id) ELSE cpu[r]]
  BY DEF FVUnifMtx
<1>3. dirty' = dirty \cup {type} \X (id .. id + num - 1)
  BY DEF FVUnifMtx, WritePtr
<1>4. DOMAIN cpu' = DOMAIN cpu
  BY <1>2
<1>5. ASSUME NEW r \in (Types \X Registers) \ ({type} \X (id .. id + num - 1))
      PROVE  cpu'[r] = cpu[r]
  BY <1>1, <1>2, <1>5
<1>6. ASSUME NEW i \in 0 .. num - 1, <<type, id + i>> \in Types \X Registers
      PROVE  cpu'[<<type, id + i>>] = Row(mtx, i)
  BY <1>1, <1>2, <1>6
<1>7. QED
  BY <1>3, <1>4, <1>5, <1>6

LEMMA NextKeeps == IInv /\ [UniformsNext]_uniformVars => IInv'
<1> SUFFICES ASSUME IInv, [UniformsNext]_uniformVars
             PROVE  IInv'
  OBVIOUS
<1>1. ASSUME NEW type \in Types, NEW id \in Registers, NEW mtx \in Matrices,
             NEW num \in 2 .. 4, Free(type, id .. id + num - 1),
             FVUnifMtxNx4(type, id, mtx, num)
      PROVE  IInv'
  <2>1. id \in Nat
    BY KindsAssumption
  <2>2. FVUnifMtx(type, id, mtx, num) /\ UNCHANGED <<gpu, stack, stackDirty>>
    BY <1>1 DEF FVUnifMtxNx4
  <2>3. /\ dirty' = dirty \cup {type} \X (id .. id + num - 1)
        /\ DOMAIN cpu' = DOMAIN cpu
        /\ \A r \in (Types \X Registers) \ ({type} \X (id .. id + num - 1)) : cpu'[r] = cpu[r]
    <3>1. num \in Nat
      OBVIOUS
    <3>2. QED
      BY <2>1, <2>2, <3>1, MtxCopies
  <2>4. QED
    BY <1>1, <2>2, <2>3, Marked
<1>2. ASSUME NEW type \in Types, NEW id \in Registers, NEW value \in Numbers,
             Free(type, {id}), FVUnifSet(type, id, value)
      PROVE  IInv'
  <2>1. dirty' = dirty \cup {type} \X {id}
    BY <1>2, KindsAssumption DEF FVUnifSet, WritePtr
  <2>2. QED
    BY <1>2, <2>1, SetKeeps DEF FVUnifSet
<1>3. ASSUME NEW type \in Types, NEW id \in Registers, NEW x \in Numbers,
             NEW y \in Numbers, IVUnifSet(type, id, x, y, x, y)
      PROVE  IInv'
  <2>1. dirty' = dirty \cup {type} \X {id}
    BY <1>3, KindsAssumption DEF IVUnifSet, WritePtr
  <2>2. Free(type, {id})
    BY <1>3, BoundAssumption, KindsAssumption DEF IVUnifSet, Free
  <2>3. QED
    BY <1>3, <2>1, <2>2, SetKeeps DEF IVUnifSet
<1>4. ASSUME NEW type \in Types, NEW id \in Registers, NEW value \in BOOLEAN,
             BoolUnifSet(type, id, value)
      PROVE  IInv'
  <2>1. Free(type, Bools)
    BY BoundAssumption, KindsAssumption DEF Free
  <2>2. QED
    BY <1>4, <2>1, SetKeeps DEF BoolUnifSet, WriteBools
<1>5. ASSUME NEW type \in Types, UpdateUniforms(type)
      PROVE  IInv'
  <2>1. Shape'
    BY <1>5 DEF UpdateUniforms, IInv, Shape
  <2>2. \A r \in DOMAIN cpu' \ dirty' : gpu'[r] = cpu'[r]
    BY <1>5 DEF UpdateUniforms, IInv, Shape, UpToDate
  <2>3. QED
    BY <1>5, <2>1, <2>2 DEF UpdateUniforms, IInv, UpToDate, Current, Row
<1>6. ASSUME NEW mtx \in Matrices, Change(mtx)
      PROVE  IInv'
  <2>1. Shape'
    BY <1>6 DEF Change, IInv, Shape
  <2>2. QED
    BY <1>6, <2>1 DEF Change, IInv, UpToDate
<1>7. CASE Push
  <2>1. stack' = Append(stack, Current) /\ Current \in Matrices
    BY <1>7 DEF Push, Current, IInv, Shape
  <2>2. stack' \in Seq(Matrices) /\ stack' # <<>> /\ Current' = Current
    BY <2>1 DEF Current, IInv, Shape
  <2>3. QED
    BY <1>7, <2>2 DEF Push, IInv, Shape, UpToDate, Row
<1>8. CASE Pop
  <2>1. stack' \in Seq(Matrices) /\ stack' # <<>>
    <3>1. Len(stack) - 1 \in 1 .. Len(stack)
      BY <1>8 DEF Pop, IInv, Shape
    <3>2. /\ SubSeq(stack, 1, Len(stack) - 1) \in Seq(Matrices)
          /\ Len(SubSeq(stack, 1, Len(stack) - 1)) = Len(stack) - 1
      BY <3>1 DEF IInv, Shape
    <3>3. stack' = SubSeq(stack, 1, Len(stack) - 1)
      BY <1>8 DEF Pop
    <3>4. Len(stack') # 0
      BY <3>1, <3>2, <3>3
    <3>5. stack' # <<>>
      BY <3>4
    <3>6. QED
      BY <3>2, <3>3, <3>5
  <2>2. QED
    BY <1>8, <2>1 DEF Pop, IInv, Shape, UpToDate
<1>9. CASE UpdateStack
  <2>0. PICK mtx \in Matrices : mtx = Current
    BY DEF Current, IInv, Shape
  <2>1. FVUnifMtx(BoundTo, BoundAt, Current, Rows) /\ UNCHANGED <<gpu, stack>>
    BY <1>9 DEF UpdateStack
  <2>2. /\ dirty' = dirty \cup {BoundTo} \X Bound
        /\ DOMAIN cpu' = DOMAIN cpu
        /\ \A r \in (Types \X Registers) \ ({BoundTo} \X Bound) : cpu'[r] = cpu[r]
        /\ \A i \in 0 .. Rows - 1 :
             <<BoundTo, BoundAt + i>> \in Types \X Registers
               => cpu'[<<BoundTo, BoundAt + i>>] = Row(mtx, i)
    <3>1. BoundTo \in Types /\ BoundAt \in Nat /\ Rows \in Nat
      BY BoundAssumption
    <3>2. FVUnifMtx(BoundTo, BoundAt, mtx, Rows)
      BY <2>0, <2>1
    <3>3. /\ dirty' = dirty \cup {BoundTo} \X (BoundAt .. BoundAt + Rows - 1)
          /\ DOMAIN cpu' = DOMAIN cpu
          /\ \A r \in (Types \X Registers) \ ({BoundTo} \X (BoundAt .. BoundAt + Rows - 1)) :
               cpu'[r] = cpu[r]
      BY <3>1, <3>2, MtxCopies
    <3>4. \A i \in 0 .. Rows - 1 :
            <<BoundTo, BoundAt + i>> \in Types \X Registers
              => cpu'[<<BoundTo, BoundAt + i>>] = Row(mtx, i)
      BY <3>1, <3>2, MtxCopies
    <3>5. QED
      BY <3>3, <3>4 DEF Bound
  <2>3. \A i \in 0 .. Rows - 1 : BoundAt + i \in Bound
    BY BoundAssumption DEF Bound
  <2>4. \A i \in 0 .. Rows - 1 : cpu'[<<BoundTo, BoundAt + i>>] = Row(Current, i)'
    BY <2>0, <2>1, <2>2, <2>3, BoundAssumption DEF Registers, Row, Current
  <2>5. \A r \in DOMAIN cpu' \ dirty' : gpu'[r] = cpu'[r]
    BY <2>1, <2>2 DEF IInv, Shape, UpToDate
  <2>6. Shape'
    BY <2>1, <2>2 DEF IInv, Shape
  <2>7. QED
    BY <2>4, <2>5, <2>6 DEF IInv, UpToDate
<1>10. CASE UNCHANGED uniformVars
  BY <1>10 DEF uniformVars, IInv, Shape, UpToDate, Current, Row
<1>11. QED
  BY <1>1, <1>2, <1>3, <1>4, <1>5, <1>6, <1>7, <1>8, <1>9, <1>10 DEF UniformsNext

\* Whatever the program does between two updates, a register that is not
\* marked is on the GPU as it was set, and a stack that is not marked has its
\* matrix in its registers.
THEOREM RegistersUpToDate == UniformsSpec => []UpToDate
<1>1. UniformsInit => IInv
  <2>1. UniformsInit => UpToDate
    BY DEF UniformsInit, UpToDate
  <2>2. QED
    BY <2>1, InitShape DEF IInv
<1>2. IInv => UpToDate
  BY DEF IInv
<1>3. QED
  BY <1>1, <1>2, NextKeeps, PTL DEF UniformsSpec
-----------------------------------------------------------------------------
\* Both hold of the headers' code as a whole, of which the loops and the
\* uniforms are parts.
THEOREM PartsKeepPromises == Spec => ImplementsAtomicWord /\ []UpToDate
<1>1. Init => WordInit /\ UniformsInit
  BY DEF Init
<1>2. [Next]_vars => [WordNext]_wordVars /\ [UniformsNext]_uniformVars
  BY DEF Next, vars
<1>3. Spec => WordSpec /\ UniformsSpec
  BY <1>1, <1>2, PTL DEF Spec, WordSpec, UniformsSpec
<1>4. QED
  BY <1>3, AtomicWordImplemented, RegistersUpToDate
-----------------------------------------------------------------------------
\* The numbers the fields of a texture's words are set from.
LEMMA BitsOfSmall ==
  /\ T!Bits(0) = {} /\ T!Bits(1) = {0} /\ T!Bits(2) = {1}
  /\ T!Bits(3) = {0, 1} /\ T!Bits(4) = {2}
<1> DEFINE Bit(n, b) == (n \div 2^b) % 2
<1>1. ASSUME NEW n \in 0 .. 4, NEW b \in 3 .. 30
      PROVE  Bit(n, b) = 0
  <2>1. PICK m \in Nat : m = 2^b /\ m >= 8
    <3>1. PICK a \in Nat : a = 3
      OBVIOUS
    <3>2. a <= b /\ b \in Nat
      BY <3>1
    <3>3. 2^a <= 2^b /\ 2^b \in Nat
      BY <3>2, PowersGrow
    <3>4. 2^a = 8
      BY <3>1
    <3>5. QED
      BY <3>3, <3>4
  <2>2. n \div m = 0
    BY <2>1
  <2>3. QED
    BY <2>1, <2>2
<1>2. \A n \in 0 .. 4 : /\ Bit(n, 0) = n % 2
                        /\ Bit(n, 1) = (n \div 2) % 2 /\ Bit(n, 2) = (n \div 4) % 2
  OBVIOUS
<1>3. \A n : T!Bits(n) = {b \in 0 .. 30 : Bit(n, b) = 1}
  BY DEF T!Bits
<1> HIDE DEF Bit
<1>4. \A n \in 0 .. 4 : T!Bits(n) = {b \in 0 .. 2 : Bit(n, b) = 1}
  <2> TAKE n \in 0 .. 4
  <2>1. \A b \in 0 .. 30 : b \in 0 .. 2 \/ b \in 3 .. 30
    OBVIOUS
  <2>2. \A b \in 3 .. 30 : Bit(n, b) # 1
    BY <1>1
  <2>3. QED
    BY <1>3, <2>1, <2>2
<1>5. \A n \in 0 .. 4, b \in 0 .. 2 :
        Bit(n, b) = IF b = 0 THEN n % 2 ELSE IF b = 1 THEN (n \div 2) % 2 ELSE (n \div 4) % 2
  BY <1>2
<1>6. QED
  BY <1>4, <1>5

\* The fields of param: where they are, and that a field of ones covers every
\* value of it.
LEMMA Fields ==
  /\ T!MagFilter(0) = {} /\ T!MagFilter(1) = {1}
  /\ T!MinFilter(0) = {} /\ T!MinFilter(1) = {2}
  /\ T!MipFilter(0) = {} /\ T!MipFilter(1) = {24}
  /\ \A n \in 0 .. 3 : T!WrapS(n) \subseteq {12, 13} /\ T!WrapT(n) \subseteq {8, 9}
  /\ T!WrapS(3) = {12, 13} /\ T!WrapT(3) = {8, 9}
  /\ \A n \in {0, 1, 2, 4} : /\ T!TexMode(n) \subseteq {28, 29, 30}
                             /\ T!Low(T!Shr(T!TexMode(n), 28), 3) = T!Bits(n)
<1>1. T!MagFilter(0) = {} /\ T!MinFilter(0) = {} /\ T!MipFilter(0) = {}
  BY BitsOfSmall DEF T!MagFilter, T!MinFilter, T!MipFilter, T!Shl, T!Low
<1>2. T!MagFilter(1) = {1} /\ T!MinFilter(1) = {2} /\ T!MipFilter(1) = {24}
  BY BitsOfSmall DEF T!MagFilter, T!MinFilter, T!MipFilter, T!Shl, T!Low
<1>3. \A n \in 0 .. 3 : T!WrapS(n) \subseteq {12, 13} /\ T!WrapT(n) \subseteq {8, 9}
  BY DEF T!WrapS, T!WrapT, T!Shl, T!Low
<1>4. T!WrapS(3) = {12, 13} /\ T!WrapT(3) = {8, 9}
  BY BitsOfSmall DEF T!WrapS, T!WrapT, T!Shl, T!Low
<1>5. ASSUME NEW n \in {0, 1, 2, 4}
      PROVE  /\ T!TexMode(n) \subseteq {28, 29, 30}
             /\ T!Low(T!Shr(T!TexMode(n), 28), 3) = T!Bits(n)
  <2>1. T!TexMode(n) \subseteq {28, 29, 30}
    BY DEF T!TexMode, T!Shl, T!Low
  <2>2. T!Bits(n) \subseteq 0 .. 2
    BY BitsOfSmall
  <2>3. T!Low(T!Bits(n), 3) = T!Bits(n)
    BY <2>2 DEF T!Low
  <2>4. T!TexMode(n) = {b + 28 : b \in T!Bits(n)}
    BY <2>2, <2>3 DEF T!TexMode, T!Shl
  <2>5. T!Shr(T!TexMode(n), 28) = T!Bits(n)
    <3> DEFINE W == {b + 28 : b \in T!Bits(n)}
    <3>1. T!Shr(W, 28) = {b - 28 : b \in {c \in W : c >= 28}}
      BY DEF T!Shr
    <3>2. {c \in W : c >= 28} = W /\ \A b \in T!Bits(n) : (b + 28) - 28 = b
      BY <2>2
    <3>3. {b - 28 : b \in W} = T!Bits(n)
      BY <3>2
    <3>4. QED
      BY <2>4, <3>1, <3>2, <3>3
  <2>6. QED
    BY <2>1, <2>3, <2>5
<1>6. QED
  BY <1>1, <1>2, <1>3, <1>4, <1>5

\* What a program may have asked for, and what it was given.
AskedTyped ==
  /\ tex \in [width : Int, height : Int, maxLevel : Int, size : Int,
              param : SUBSET (0 .. 31), lodBias : Int]
  /\ asked \in [bits : Int, type : {0, 1, 2, 4}, mag : 0 .. 1, min : 0 .. 1, mip : 0 .. 1,
                s : 0 .. 3, t : 0 .. 3, bias : Int]

FieldsPacked ==
  tex.param = T!TexMode(asked.type) \cup T!MagFilter(asked.mag) \cup T!MinFilter(asked.min)
                \cup T!MipFilter(asked.mip) \cup T!WrapS(asked.s) \cup T!WrapT(asked.t)

Biased ==
  T!LodBias(asked.bias) = IF tex.lodBias < 4096 THEN tex.lodBias ELSE tex.lodBias - 8192

TextureInv == AskedTyped /\ FieldsPacked /\ Biased

\* Nothing but the type reaches its field.
LEMMA TypeKept ==
  ASSUME AskedTyped, FieldsPacked
  PROVE  T!Type = T!Bits(asked.type)
<1> DEFINE rest == T!MagFilter(asked.mag) \cup T!MinFilter(asked.min) \cup T!MipFilter(asked.mip)
                     \cup T!WrapS(asked.s) \cup T!WrapT(asked.t)
           mode == T!TexMode(asked.type)
<1>1. /\ asked.type \in {0, 1, 2, 4} /\ asked.mag \in 0 .. 1 /\ asked.min \in 0 .. 1
      /\ asked.mip \in 0 .. 1 /\ asked.s \in 0 .. 3 /\ asked.t \in 0 .. 3
  BY DEF AskedTyped
<1>2. /\ rest \subseteq 1 .. 24 /\ mode \subseteq 28 .. 30
      /\ T!Low(T!Shr(mode, 28), 3) = T!Bits(asked.type)
  BY <1>1, Fields
<1>3. tex.param = mode \cup rest
  BY DEF FieldsPacked
<1> HIDE DEF rest, mode
<1>4. {c \in mode \cup rest : c >= 28} = {c \in mode : c >= 28}
  <2>1. \A c \in rest : c \in 1 .. 24
    BY <1>2
  <2>2. \A c \in 1 .. 24 : ~(c >= 28)
    OBVIOUS
  <2>3. QED
    BY <2>1, <2>2
<1>5. T!Shr(mode \cup rest, 28) = T!Shr(mode, 28)
  BY <1>4 DEF T!Shr
<1>6. QED
  BY <1>2, <1>3, <1>5 DEF T!Type

LEMMA BiasPacked ==
  ASSUME NEW bias \in Int
  PROVE  /\ T!LodBias(bias) % 8192 \in Int
         /\ T!LodBias(bias) = IF T!LodBias(bias) % 8192 < 4096
                              THEN T!LodBias(bias) % 8192
                              ELSE (T!LodBias(bias) % 8192) - 8192
<1> DEFINE i == T!LodBias(bias)
<1>1. i \in -4096 .. 4095
  <2>1. PICK half \in Int : half = IF bias >= 0 THEN bias \div 2 ELSE -((-bias) \div 2)
    OBVIOUS
  <2>2. i = IF half > 4095 THEN 4095 ELSE IF half < -4096 THEN -4096 ELSE half
    BY <2>1 DEF T!LodBias
  <2> HIDE DEF i
  <2>3. QED
    BY <2>2
<1> HIDE DEF i
<1>2. i \in Int /\ i >= -4096 /\ i <= 4095
  BY <1>1
<1>3. i % 8192 \in Int /\ i = IF i % 8192 < 4096 THEN i % 8192 ELSE (i % 8192) - 8192
  <2>1. CASE i >= 0
    <3>1. i % 8192 = i
      BY <1>2, <2>1
    <3>2. QED
      BY <1>2, <2>1, <3>1
  <2>2. CASE i < 0
    <3>1. i % 8192 = i + 8192
      BY <1>2, <2>2
    <3>2. ~(i + 8192 < 4096) /\ (i + 8192) - 8192 = i /\ i + 8192 \in Int
      BY <1>2
    <3>3. QED
      BY <1>2, <3>1, <3>2
  <2>3. QED
    BY <1>2, <2>1, <2>2
<1>4. QED
  BY <1>3 DEF i

LEMMA ModesAre == \A type \in T!Shaped : T!Mode(type) \in {0, 1, 2, 4}
BY DEF T!Shaped, T!Mode

LEMMA StartsPacked ==
  ASSUME NEW width \in Int, NEW height \in Int, NEW bits \in Int, NEW maxLevel \in Int,
         NEW type \in T!Shaped, T!InitWithParams(width, height, bits, maxLevel, type)
  PROVE  TextureInv
<1>1. T!Mode(type) \in {0, 1, 2, 4}
  BY ModesAre
<1>2. T!TexMode(T!Mode(type)) \subseteq {28, 29, 30}
  BY <1>1, Fields
<1>3. T!WrapS(0) = {} /\ T!WrapT(0) = {}
  BY BitsOfSmall DEF T!WrapS, T!WrapT, T!Shl, T!Low
<1>4. AskedTyped
  <2>1. (width * height * bits) \div 8 \in Int
    OBVIOUS
  <2>2. QED
    BY <1>1, <1>2, <2>1 DEF T!InitWithParams, AskedTyped
<1>5. FieldsPacked
  BY <1>3, Fields DEF T!InitWithParams, FieldsPacked
<1>6. Biased
  BY DEF T!InitWithParams, Biased, T!LodBias
<1>7. QED
  BY <1>4, <1>5, <1>6 DEF TextureInv

LEMMA SettersPack ==
  ASSUME TextureInv, T!Next
  PROVE  /\ TextureInv' /\ asked'.bits = asked.bits
         /\ UNCHANGED <<tex.width, tex.height, tex.size, tex.maxLevel>>
<1> DEFINE Goal == /\ TextureInv' /\ asked'.bits = asked.bits
                   /\ UNCHANGED <<tex.width, tex.height, tex.size, tex.maxLevel>>
<1>1. /\ asked.type \in {0, 1, 2, 4} /\ asked.mag \in 0 .. 1 /\ asked.min \in 0 .. 1
      /\ asked.mip \in 0 .. 1 /\ asked.s \in 0 .. 3 /\ asked.t \in 0 .. 3
  BY DEF TextureInv, AskedTyped
<1>2. /\ \A n \in 0 .. 1 : /\ T!MagFilter(n) \subseteq {1} /\ T!MinFilter(n) \subseteq {2}
                           /\ T!MipFilter(n) \subseteq {24}
      /\ \A n \in 0 .. 3 : T!WrapS(n) \subseteq {12, 13} /\ T!WrapT(n) \subseteq {8, 9}
      /\ T!TexMode(asked.type) \subseteq {28, 29, 30}
  BY <1>1, Fields
<1>3. ASSUME NEW mag \in 0 .. 1, NEW min \in 0 .. 1, T!SetFilter(mag, min)
      PROVE  Goal
  <2>1. tex' = [tex EXCEPT !.param =
                  (tex.param \ {1, 2}) \cup T!MagFilter(mag) \cup T!MinFilter(min)]
    BY <1>3, Fields DEF T!SetFilter
  <2>2. asked' = [asked EXCEPT !.mag = mag, !.min = min]
    BY <1>3 DEF T!SetFilter
  <2>0. tex'.param \in SUBSET (0 .. 31)
    BY <1>2, <2>1 DEF TextureInv, AskedTyped
  <2>3. AskedTyped'
    <3>1. tex' = [tex EXCEPT !.param = tex'.param]
      BY <2>1 DEF TextureInv, AskedTyped
    <3>2. QED
      BY <2>2, <2>0, <3>1 DEF TextureInv, AskedTyped
  <2>4. FieldsPacked'
    BY <1>1, <1>2, <2>1, <2>2 DEF TextureInv, AskedTyped, FieldsPacked
  <2>5. QED
    BY <2>1, <2>2, <2>3, <2>4 DEF TextureInv, AskedTyped, Biased
<1>4. ASSUME NEW filter \in 0 .. 1, T!SetFilterMipmap(filter)
      PROVE  Goal
  <2>1. tex' = [tex EXCEPT !.param = (tex.param \ {24}) \cup T!MipFilter(filter)]
    BY <1>4, Fields DEF T!SetFilterMipmap
  <2>2. asked' = [asked EXCEPT !.mip = filter]
    BY <1>4 DEF T!SetFilterMipmap
  <2>0. tex'.param \in SUBSET (0 .. 31)
    BY <1>2, <2>1 DEF TextureInv, AskedTyped
  <2>3. AskedTyped'
    <3>1. tex' = [tex EXCEPT !.param = tex'.param]
      BY <2>1 DEF TextureInv, AskedTyped
    <3>2. QED
      BY <2>2, <2>0, <3>1 DEF TextureInv, AskedTyped
  <2>4. FieldsPacked'
    BY <1>1, <1>2, <2>1, <2>2 DEF TextureInv, AskedTyped, FieldsPacked
  <2>5. QED
    BY <2>1, <2>2, <2>3, <2>4 DEF TextureInv, AskedTyped, Biased
<1>5. ASSUME NEW s \in 0 .. 3, NEW t \in 0 .. 3, T!SetWrap(s, t)
      PROVE  Goal
  <2>1. tex' = [tex EXCEPT !.param =
                  (tex.param \ {8, 9, 12, 13}) \cup T!WrapS(s) \cup T!WrapT(t)]
    BY <1>5, Fields DEF T!SetWrap
  <2>2. asked' = [asked EXCEPT !.s = s, !.t = t]
    BY <1>5 DEF T!SetWrap
  <2>0. tex'.param \in SUBSET (0 .. 31)
    BY <1>2, <2>1 DEF TextureInv, AskedTyped
  <2>3. AskedTyped'
    <3>1. tex' = [tex EXCEPT !.param = tex'.param]
      BY <2>1 DEF TextureInv, AskedTyped
    <3>2. QED
      BY <2>2, <2>0, <3>1 DEF TextureInv, AskedTyped
  <2>4. FieldsPacked'
    BY <1>1, <1>2, <2>1, <2>2 DEF TextureInv, AskedTyped, FieldsPacked
  <2>5. QED
    BY <2>1, <2>2, <2>3, <2>4 DEF TextureInv, AskedTyped, Biased
<1>6. ASSUME NEW bias \in Int, T!SetLodBias(bias)
      PROVE  Goal
  <2>1. /\ tex' = [tex EXCEPT !.lodBias = T!LodBias(bias) % 8192]
        /\ asked' = [asked EXCEPT !.bias = bias]
    BY <1>6 DEF T!SetLodBias
  <2>2. AskedTyped'
    BY <2>1, BiasPacked DEF TextureInv, AskedTyped
  <2>3. Biased'
    BY <2>1, BiasPacked DEF TextureInv, AskedTyped, Biased
  <2>4. QED
    BY <2>1, <2>2, <2>3 DEF TextureInv, AskedTyped, FieldsPacked
<1>7. \A bias \in Biases : bias \in Int /\ -bias \in Int
  BY PartsAssumption DEF PartsAssumption
<1>8. QED
  BY <1>3, <1>4, <1>5, <1>6, <1>7 DEF T!Next

\* A level is four times as large as the next one, and as large as its texels.
Quartered(a, b, level, bits, size) ==
  \E y \in Nat : /\ T!CalcLevelSize(size, level) = 4 * y
                 /\ T!CalcLevelSize(size, level + 1) = y
                 /\ 8 * (4 * y) = (2^a \div 2^level) * (2^b \div 2^level) * bits

LEMMA Quarters ==
  ASSUME NEW a \in Nat, NEW b \in Nat, NEW level \in Nat, level + 3 <= a, level + 3 <= b,
         NEW bits \in Nat, NEW size \in Int, size = (2^a * 2^b * bits) \div 8
  PROVE  Quartered(a, b, level, bits, size)
<1>1. PICK i \in Nat, j \in Nat : a = (level + i) + 3 /\ b = (level + j) + 3
  <2>1. a - 3 - level \in Nat /\ b - 3 - level \in Nat
    OBVIOUS
  <2>2. a = (level + (a - 3 - level)) + 3 /\ b = (level + (b - 3 - level)) + 3
    OBVIOUS
  <2>3. QED
    BY <2>1, <2>2
<1>2. PICK P \in Nat \ {0}, A \in Nat \ {0}, B \in Nat \ {0} : P = 2^level /\ A = 2^i /\ B = 2^j
  BY <1>1, PowersDouble
<1>3. 2^a = 8 * (P * A) /\ 2^b = 8 * (P * B)
  <2>1. 2^(level + i) = P * A /\ 2^(level + j) = P * B
    BY <1>1, <1>2, PowersAdd
  <2>2. 2^((level + i) + 3) = 8 * 2^(level + i) /\ 2^((level + j) + 3) = 8 * 2^(level + j)
    BY <1>1, PowersDouble
  <2>3. QED
    BY <1>1, <2>1, <2>2
<1>4. 2^(2 * level) = P * P /\ 2^(2 * (level + 1)) = 4 * (P * P)
  <2>1. 2^(level + level) = P * P
    BY <1>2, PowersAdd
  <2>2. 2^((level + level) + 1) = 2 * 2^(level + level)
    BY PowersDouble
  <2>3. 2^((level + level + 1) + 1) = 2 * 2^(level + level + 1)
    <3>1. level + level + 1 \in Nat
      OBVIOUS
    <3>2. QED
      BY <3>1, PowersDouble
  <2>4. 2 * level = level + level /\ 2 * (level + 1) = (level + level + 1) + 1
    OBVIOUS
  <2>5. PICK Q \in Nat : Q = P * P
    OBVIOUS
  <2>6. 2^(2 * (level + 1)) = 2 * (2 * Q)
    BY <2>1, <2>2, <2>3, <2>4, <2>5
  <2>7. 2 * (2 * Q) = 4 * Q
    BY <2>5
  <2>8. QED
    BY <2>1, <2>4, <2>5, <2>6, <2>7
<1>5. PICK y \in Nat : y = 2 * (A * B * bits)
  BY <1>2
<1>6. size = (P * P) * (4 * y) /\ size = (4 * (P * P)) * y
  <2>1. (2^a * 2^b) * bits = 8 * ((P * P) * (4 * y))
    BY <1>2, <1>3, <1>5
  <2>2. (P * P) * (4 * y) \in Int
    BY <1>2, <1>5
  <2>3. size = (P * P) * (4 * y)
    BY <2>1, <2>2, DivisionExact
  <2>4. QED
    BY <1>2, <1>5, <2>3
<1>7. P * P \in Nat \ {0} /\ 4 * (P * P) \in Nat \ {0}
  BY <1>2
<1>8. T!CalcLevelSize(size, level) = 4 * y
  BY <1>4, <1>5, <1>6, <1>7, DivisionExact DEF T!CalcLevelSize
<1>9. T!CalcLevelSize(size, level + 1) = y
  BY <1>4, <1>5, <1>6, <1>7, DivisionExact DEF T!CalcLevelSize
<1>10. 2^a \div 2^level = 8 * A /\ 2^b \div 2^level = 8 * B
  <2>1. 8 * (P * A) = P * (8 * A) /\ 8 * (P * B) = P * (8 * B)
    BY <1>2
  <2>2. (P * (8 * A)) \div P = 8 * A /\ (P * (8 * B)) \div P = 8 * B
    BY <1>2, DivisionExact
  <2>3. QED
    BY <1>2, <1>3, <2>1, <2>2
<1>11. 8 * (4 * y) = (8 * A) * (8 * B) * bits
  BY <1>2, <1>5
<1>12. QED
  BY <1>5, <1>8, <1>9, <1>10, <1>11 DEF Quartered

\* Taking off a third of what is left at each level adds up to the levels.
LEMMA OffsetsAdd ==
  ASSUME NEW size \in Int, NEW y \in Int
  PROVE  ((size - y) * 4) \div 3 = ((size - 4 * y) * 4) \div 3 + 4 * y
<1>1. PICK x \in Int : x = (size - 4 * y) * 4
  OBVIOUS
<1>2. (size - y) * 4 = x + 12 * y
  BY <1>1
<1>3. (x + 12 * y) \div 3 = x \div 3 + 4 * y
  OBVIOUS
<1>4. QED
  BY <1>1, <1>2, <1>3

LEMMA PowersDiffer ==
  ASSUME NEW j \in Nat, NEW k \in Nat, 2^j = 2^k
  PROVE  j = k
<1>1. ASSUME NEW m \in Nat, NEW n \in Nat, m < n
      PROVE  2^m # 2^n
  <2>1. m + 1 \in Nat /\ m + 1 <= n
    BY <1>1
  <2>2. 2^(m + 1) <= 2^n
    BY <2>1, PowersGrow
  <2>3. 2^(m + 1) = 2 * 2^m /\ 2^m \in Nat \ {0}
    BY PowersDouble
  <2>4. QED
    BY <2>2, <2>3
<1>2. QED
  BY <1>1

LEMMA Logs == \A k \in 0 .. 10 : T!Log2[2^k] = k
<1> TAKE k \in 0 .. 10
<1>1. 2^k \in {2^j : j \in 0 .. 10}
  OBVIOUS
<1>2. T!Log2[2^k] = CHOOSE j \in 0 .. 10 : 2^j = 2^k
  BY <1>1 DEF T!Log2
<1>3. \A j \in 0 .. 10 : 2^j = 2^k => j = k
  BY PowersDiffer
<1>4. QED
  BY <1>2, <1>3

\* The memory a texture was given, whose size nothing changes.
Levelled ==
  /\ asked.bits \in Nat
  /\ \E a, b \in 3 .. 10 :
       /\ tex.width = 2^a /\ tex.height = 2^b
       /\ tex.maxLevel \in {0, IF a < b THEN a - 3 ELSE b - 3}
  /\ tex.size = (tex.width * tex.height * asked.bits) \div 8

LEMMA StartsSo == T!Init => TextureInv /\ Levelled
<1> SUFFICES ASSUME T!Init PROVE TextureInv /\ Levelled
  OBVIOUS
<1>1. PICK width \in Sides, height \in Sides :
        \/ \E bits \in Depths :
             \/ T!InitWithParams(width, height, bits, T!CalcMaxLevel(width, height), "2d")
             \/ \E type \in {"2d", "cube"} : T!InitWithParams(width, height, bits, 0, type)
        \/ \E type \in {"shadow2d", "shadowcube"} : T!InitWithParams(width, height, 32, 0, type)
  BY DEF T!Init
<1>2. PICK a \in 3 .. 10, b \in 3 .. 10 : width = 2^a /\ height = 2^b
  BY PartsAssumption DEF PartsAssumption
<1>3. T!CalcMaxLevel(width, height) = IF a < b THEN a - 3 ELSE b - 3
  <2>0. a \in 0 .. 10 /\ b \in 0 .. 10
    BY <1>2
  <2>1. T!Log2[2^a] = a /\ T!Log2[2^b] = b
    BY <2>0, Logs
  <2>2. width < height <=> a < b
    <3>1. CASE a < b
      <4>1. 2^a \in Nat /\ 2^b \in Nat /\ 2^a <= 2^b
        BY <3>1, PowersGrow
      <4>2. 2^a # 2^b
        BY <3>1, PowersDiffer
      <4>3. QED
        BY <1>2, <3>1, <4>1, <4>2
    <3>2. CASE b <= a
      <4>1. 2^a \in Nat /\ 2^b \in Nat /\ 2^b <= 2^a
        BY <3>2, PowersGrow
      <4>2. QED
        BY <1>2, <3>2, <4>1
    <3>3. QED
      BY <3>1, <3>2
  <2>3. QED
    BY <1>2, <2>1, <2>2 DEF T!CalcMaxLevel
<1>4. PICK bits \in Nat, maxLevel \in {0, IF a < b THEN a - 3 ELSE b - 3}, type \in T!Shaped :
        T!InitWithParams(width, height, bits, maxLevel, type)
  BY <1>1, <1>3, PartsAssumption DEF PartsAssumption, T!Shaped
<1>5. /\ tex.width = width /\ tex.height = height /\ tex.maxLevel = maxLevel
      /\ tex.size = (width * height * bits) \div 8 /\ asked.bits = bits
  BY <1>4 DEF T!InitWithParams
<1>6. Levelled
  BY <1>2, <1>4, <1>5 DEF Levelled
<1>7. width \in Int /\ height \in Int /\ bits \in Int /\ maxLevel \in Int
  <2>1. 2^a \in Int /\ 2^b \in Int
    BY PowersDouble
  <2>2. QED
    BY <1>2, <1>4, <2>1
<1>8. TextureInv
  BY <1>4, <1>7, StartsPacked
<1>9. QED
  BY <1>6, <1>8

LEMMA LevelledTile ==
  ASSUME Binding = "C", Levelled
  PROVE  T!LevelsTile
<1>1. PICK a \in 3 .. 10, b \in 3 .. 10 :
        /\ tex.width = 2^a /\ tex.height = 2^b
        /\ tex.maxLevel \in {0, IF a < b THEN a - 3 ELSE b - 3}
  BY DEF Levelled
<1> DEFINE size == tex.size
           bits == asked.bits
           last == tex.maxLevel
           Total(level) == ((size - T!CalcLevelSize(size, level)) * 4) \div 3
<1>2. /\ size = (2^a * 2^b * bits) \div 8 /\ bits \in Nat /\ last \in Nat
      /\ \A level \in 0 .. last : level \in Nat /\ level + 3 <= a /\ level + 3 <= b
  BY <1>1 DEF Levelled
<1> HIDE DEF size, bits, last
<1>3. ASSUME NEW level \in 0 .. last
      PROVE  /\ 8 * T!CalcLevelSize(size, level) = (2^a \div 2^level) * (2^b \div 2^level) * bits
             /\ Total(level + 1) = Total(level) + T!CalcLevelSize(size, level)
  <2>1. size \in Int
    <3>1. 2^a \in Nat /\ 2^b \in Nat
      BY PowersDouble
    <3>2. 2^a * 2^b * bits \in Int
      BY <1>2, <3>1
    <3>3. QED
      BY <1>2, <3>2
  <2>2. PICK y \in Nat : /\ T!CalcLevelSize(size, level) = 4 * y
                         /\ T!CalcLevelSize(size, level + 1) = y
                         /\ 8 * (4 * y) = (2^a \div 2^level) * (2^b \div 2^level) * bits
    <3>1. a \in Nat /\ b \in Nat /\ level \in Nat /\ level + 3 <= a /\ level + 3 <= b
      BY <1>1, <1>2
    <3>2. bits \in Nat /\ size = (2^a * 2^b * bits) \div 8
      BY <1>2
    <3>3. size \in Int
      BY <2>1
    <3>4. Quartered(a, b, level, bits, size)
      BY <3>1, <3>2, <3>3, Quarters
    <3>5. QED
      BY <3>4 DEF Quartered
  <2>3. ((size - y) * 4) \div 3 = ((size - 4 * y) * 4) \div 3 + 4 * y
    BY <2>1, OffsetsAdd
  <2>4. QED
    BY <2>2, <2>3
<1>4. Total(0) = 0
  <2>1. PICK first \in Nat : first = 0
    OBVIOUS
  <2>2. 2^first = 1
    BY <2>1
  <2>3. 2 * 0 = first
    BY <2>1
  <2>4. 2^a \in Nat /\ 2^b \in Nat
    BY PowersDouble
  <2>5. 2^a * 2^b * bits \in Int
    BY <1>2, <2>4
  <2>6. size \in Int
    BY <1>2, <2>5
  <2>7. T!CalcLevelSize(size, 0) = size
    BY <2>2, <2>3, <2>6 DEF T!CalcLevelSize
  <2>8. QED
    BY <2>6, <2>7
<1>5. \A level \in 0 .. last : /\ T!ImageOffset(level) = Total(level)
                               /\ T!ImageSize(level) = T!CalcLevelSize(size, level)
  <2> SUFFICES ASSUME NEW level \in 0 .. last
               PROVE  /\ T!ImageOffset(level) = Total(level)
                      /\ T!ImageSize(level) = T!CalcLevelSize(size, level)
    OBVIOUS
  <2>1. level \in Nat /\ (level > 0 \/ level = 0)
    BY <1>2
  <2>2. (level - 1) + 1 = level
    BY <2>1
  <2>3. T!ImageSize(level) = T!CalcLevelSize(size, level)
    BY <2>1 DEF T!ImageSize, size
  <2>4. CASE level > 0
    BY <2>2, <2>3, <2>4 DEF T!ImageOffset, T!CalcTotalSize, size
  <2>5. CASE level = 0
    BY <1>4, <2>3, <2>5 DEF T!ImageOffset
  <2>6. QED
    BY <2>1, <2>4, <2>5
<1>6. T!ImageSize(-1) = Total(last + 1)
  BY DEF T!ImageSize, T!CalcTotalSize, size, last
<1> HIDE DEF Total
<1>7. T!ImageOffset(0) = 0
  BY DEF T!ImageOffset
<1>8. ASSUME NEW level \in 0 .. last
      PROVE  8 * T!ImageSize(level) = (tex.width \div 2^level) * (tex.height \div 2^level) * bits
  BY <1>1, <1>3, <1>5
<1>9. ASSUME NEW level \in 1 .. last
      PROVE  T!ImageOffset(level) = T!ImageOffset(level - 1) + T!ImageSize(level - 1)
  <2>1. PICK before \in 0 .. last : before = level - 1 /\ before + 1 = level /\ level \in 0 .. last
    <3>1. level - 1 \in 0 .. last /\ (level - 1) + 1 = level /\ level \in 0 .. last
      BY <1>2
    <3>2. QED
      BY <3>1
  <2>2. Total(before + 1) = Total(before) + T!CalcLevelSize(size, before)
    BY <1>3
  <2>3. QED
    BY <1>5, <2>1, <2>2
<1>10. T!ImageSize(-1) = T!ImageOffset(last) + T!ImageSize(last)
  <2>1. last \in 0 .. last
    BY <1>2
  <2>2. Total(last + 1) = Total(last) + T!CalcLevelSize(size, last)
    BY <1>3, <2>1
  <2>3. QED
    BY <1>5, <1>6, <2>1, <2>2
<1>11. QED
  BY <1>7, <1>8, <1>9, <1>10 DEF T!LevelsTile, bits, last

\* The inductive invariant of a texture.
TextureIInv == part = "texture" => TextureInv /\ Levelled

LEMMA TextureStays == Spec => []TextureIInv
<1>1. Init => TextureIInv
  BY StartsSo DEF Init, TextureIInv
<1>2. TextureIInv /\ [Next]_vars => TextureIInv'
  <2> SUFFICES ASSUME TextureIInv, [Next]_vars, part' = "texture"
               PROVE  (TextureInv /\ Levelled)'
    BY DEF TextureIInv
  <2>1. part = "texture" /\ (T!Next \/ UNCHANGED textureVars)
    BY DEF Next, vars
  <2>2. TextureInv /\ Levelled
    BY <2>1 DEF TextureIInv
  <2>3. CASE T!Next
    <3>1. TextureInv' /\ asked'.bits = asked.bits
          /\ UNCHANGED <<tex.width, tex.height, tex.size, tex.maxLevel>>
      BY <2>2, <2>3, SettersPack
    <3>2. Levelled'
      BY <2>2, <3>1 DEF Levelled
    <3>3. QED
      BY <3>1, <3>2
  <2>4. CASE UNCHANGED textureVars
    <3>1. tex' = tex /\ asked' = asked
      BY <2>4 DEF textureVars
    <3>2. (AskedTyped /\ FieldsPacked /\ Biased)'
      BY <2>2, <3>1 DEF TextureInv, AskedTyped, FieldsPacked, Biased
    <3>3. Levelled'
      BY <2>2, <3>1 DEF Levelled
    <3>4. QED
      BY <3>2, <3>3 DEF TextureInv
  <2>5. QED
    BY <2>1, <2>3, <2>4
<1>3. QED
  BY <1>1, <1>2, PTL DEF Spec

\* Whatever a program sets, in whichever order, the packed words say what it
\* last asked for.
THEOREM PackedAsAsked == Spec => []SamplesAsAsked
<1>1. TextureIInv => SamplesAsAsked
  <2> SUFFICES ASSUME TextureIInv, part = "texture"
               PROVE  T!SamplesAsAsked
    BY DEF SamplesAsAsked
  <2>1. AskedTyped /\ FieldsPacked /\ Biased
    BY DEF TextureIInv, TextureInv
  <2>2. T!Type = T!Bits(asked.type)
    BY <2>1, TypeKept
  <2>3. QED
    BY <2>1, <2>2 DEF T!SamplesAsAsked, FieldsPacked, Biased
<1>2. QED
  BY <1>1, TextureStays, PTL

\* Of any size from 8 to 1024, with any number of bits in a texel, the levels
\* of a texture fill its memory, where C3D_TexGetImagePtr finds them.
THEOREM LevelsFill ==
  ASSUME Binding = "C"
  PROVE  Spec => []LevelsTile
<1>1. TextureIInv => LevelsTile
  BY LevelledTile DEF TextureIInv, LevelsTile
<1>2. QED
  BY <1>1, TextureStays, PTL
-----------------------------------------------------------------------------
\* One axis of a sprite: the size is a multiple of 8, and the center as many
\* quarters of it as was set, perhaps with the other sign.
Centered(size, center, quarters) ==
  \E k \in Int \ {0}, g \in {-1, 1} : size = 8 * k /\ center = g * (2 * k * quarters)

LEMMA AbsProduct ==
  ASSUME NEW x \in Int, NEW y \in Int
  PROVE  S!Abs(x * y) = S!Abs(x) * S!Abs(y)
<1>1. CASE x >= 0 /\ y >= 0
  <2>1. x * y >= 0
    BY <1>1
  <2>2. QED
    BY <1>1, <2>1 DEF S!Abs
<1>2. CASE x >= 0 /\ y < 0
  <2>1. x * y <= 0 /\ x * (-y) = -(x * y)
    BY <1>2
  <2>2. QED
    BY <1>2, <2>1 DEF S!Abs
<1>3. CASE x < 0 /\ y >= 0
  <2>1. x * y <= 0 /\ (-x) * y = -(x * y)
    BY <1>3
  <2>2. QED
    BY <1>3, <2>1 DEF S!Abs
<1>4. CASE x < 0 /\ y < 0
  <2>1. x * y >= 0 /\ (-x) * (-y) = x * y
    BY <1>4
  <2>2. QED
    BY <1>4, <2>1 DEF S!Abs
<1>5. QED
  BY <1>1, <1>2, <1>3, <1>4

LEMMA CenteredKept ==
  ASSUME NEW size, NEW center, NEW quarters \in Int, Centered(size, center, quarters)
  PROVE  4 * S!Abs(center) = S!Abs(quarters * size)
<1>1. PICK k \in Int \ {0}, g \in {-1, 1} : size = 8 * k /\ center = g * (2 * k * quarters)
  BY DEF Centered
<1>2. PICK z \in Int : z = k * quarters
  OBVIOUS
<1>3. quarters * size = 8 * z /\ 2 * k * quarters = 2 * z
  BY <1>1, <1>2
<1>4. center = 2 * z \/ center = -(2 * z)
  BY <1>1, <1>3
<1>5. QED
  BY <1>2, <1>3, <1>4 DEF S!Abs

LEMMA ScaleCenters ==
  ASSUME NEW size, NEW center, NEW quarters \in Int, Centered(size, center, quarters),
         NEW x \in Int \ {0}, ((size * x) \div 2) % 8 = 0
  PROVE  Centered((size * x) \div 2, (center * x) \div 2, quarters)
<1>1. PICK k \in Int \ {0}, g \in {-1, 1} : size = 8 * k /\ center = g * (2 * k * quarters)
  BY DEF Centered
<1>2. PICK z \in Int : z = k * x /\ z # 0
  OBVIOUS
<1>3. (size * x) \div 2 = 4 * z
  <2>1. size * x = 8 * z
    BY <1>1, <1>2
  <2>2. QED
    BY <1>2, <2>1
<1>4. PICK n \in Int \ {0} : z = 2 * n
  <2>1. (4 * z) % 8 = 0
    BY <1>3
  <2>2. z % 2 = 0
    BY <1>2, <2>1
  <2>3. z = 2 * (z \div 2) /\ z \div 2 \in Int
    BY <1>2, <2>2
  <2>4. QED
    BY <1>2, <2>3
<1>5. (center * x) \div 2 = g * (2 * n * quarters)
  <2>1. center * x = g * (2 * (k * x) * quarters)
    BY <1>1
  <2>2. PICK y \in Int : y = g * (2 * n * quarters)
    OBVIOUS
  <2>3. center * x = 2 * y
    BY <1>2, <1>4, <2>1, <2>2
  <2>4. QED
    BY <2>2, <2>3
<1>6. QED
  BY <1>3, <1>4, <1>5 DEF Centered

LEMMA SetScaleCenters ==
  ASSUME NEW size, NEW center, NEW quarters \in Int, Centered(size, center, quarters),
         NEW side \in Int \ {0}, side % 8 = 0,
         NEW x \in Int \ {0}, ((x * side) \div 2) % 8 = 0
  PROVE  Centered((x * side) \div 2, S!Abs(center * ((x * side) \div 2)) \div S!Abs(size), quarters)
<1>1. PICK k \in Int \ {0}, g \in {-1, 1} : size = 8 * k /\ center = g * (2 * k * quarters)
  BY DEF Centered
<1>2. PICK m \in Int \ {0} : side = 8 * m
  <2>1. side = 8 * (side \div 8) /\ side \div 8 \in Int
    OBVIOUS
  <2>2. QED
    BY <2>1
<1>3. PICK z \in Int : z = x * m /\ z # 0
  OBVIOUS
<1>4. (x * side) \div 2 = 4 * z
  <2>1. x * side = 8 * z
    BY <1>2, <1>3
  <2>2. QED
    BY <1>3, <2>1
<1>5. PICK n \in Int \ {0} : z = 2 * n
  <2>1. (4 * z) % 8 = 0
    BY <1>4
  <2>2. z % 2 = 0
    BY <1>3, <2>1
  <2>3. z = 2 * (z \div 2) /\ z \div 2 \in Int
    BY <1>3, <2>2
  <2>4. QED
    BY <1>3, <2>3
<1>6. PICK y \in Int : y = n * quarters
  OBVIOUS
<1>7. S!Abs(center * (8 * n)) = S!Abs(8 * k) * S!Abs(2 * y)
  <2>1. center * (8 * n) = g * ((8 * k) * (2 * y))
    BY <1>1, <1>6
  <2>2. (8 * k) * (2 * y) \in Int /\ 8 * k \in Int /\ 2 * y \in Int
    OBVIOUS
  <2>3. S!Abs(g * ((8 * k) * (2 * y))) = S!Abs((8 * k) * (2 * y))
    BY <2>2 DEF S!Abs
  <2>4. QED
    BY <2>1, <2>2, <2>3, AbsProduct
<1>8. S!Abs(8 * k) \in Nat \ {0} /\ S!Abs(2 * y) \in Int
  BY DEF S!Abs
<1>9. S!Abs(center * (8 * n)) \div S!Abs(8 * k) = S!Abs(2 * y)
  BY <1>7, <1>8, DivisionExact
<1>10. (x * side) \div 2 = 8 * n
  BY <1>4, <1>5
<1>11. PICK f \in {-1, 1} : S!Abs(2 * y) = f * (2 * n * quarters)
  <2>1. 2 * n * quarters = 2 * y
    BY <1>6
  <2>2. S!Abs(2 * y) = 1 * (2 * y) \/ S!Abs(2 * y) = (-1) * (2 * y)
    BY DEF S!Abs
  <2>3. QED
    BY <2>1, <2>2
<1>12. QED
  BY <1>1, <1>9, <1>10, <1>11 DEF Centered

LEMMA SetCenterCenters ==
  ASSUME NEW size, NEW center, NEW quarters \in Int, Centered(size, center, quarters),
         NEW x \in Int
  PROVE  Centered(size, (x * size) \div 4, x)
<1>1. PICK k \in Int \ {0} : size = 8 * k
  BY DEF Centered
<1>2. PICK z \in Int : z = k * x
  OBVIOUS
<1>3. x * size = 8 * z
  BY <1>1, <1>2
<1>4. (x * size) \div 4 = 2 * z
  BY <1>2, <1>3
<1>5. 2 * z = 1 * (2 * k * x)
  BY <1>2
<1>6. QED
  BY <1>1, <1>4, <1>5 DEF Centered

\* The inductive invariant of a sprite.
SpriteInv ==
  /\ image \in Images /\ set \in [x : Int, y : Int]
  /\ Centered(w, centerX, set.x)
  /\ Centered(h, centerY, set.y)

SpriteIInv == part = "sprite" => SpriteInv

LEMMA StartsCentered == S!Init => SpriteInv
<1> SUFFICES ASSUME S!Init PROVE SpriteInv
  OBVIOUS
<1>1. /\ image \in Images /\ w = image.width /\ h = image.height
      /\ centerX = 0 /\ centerY = 0 /\ set = [x |-> 0, y |-> 0]
  BY DEF S!Init
<1>2. w = 8 * 2 /\ h \in {8 * 2, 8 * 4}
  BY <1>1 DEF Images
<1>3. \A k \in Int : 0 = 1 * (2 * k * 0)
  OBVIOUS
<1>4. Centered(w, 0, 0) /\ Centered(h, 0, 0)
  BY <1>2, <1>3 DEF Centered
<1>5. QED
  BY <1>1, <1>4 DEF SpriteInv

LEMMA StepsCenter == SpriteInv /\ S!Next => SpriteInv'
<1> SUFFICES ASSUME SpriteInv, S!Next PROVE SpriteInv'
  OBVIOUS
<1>1. /\ image \in Images /\ set \in [x : Int, y : Int]
      /\ Centered(w, centerX, set.x) /\ Centered(h, centerY, set.y)
      /\ set.x \in Int /\ set.y \in Int
  BY DEF SpriteInv
<1>2. ASSUME NEW x \in Scales, NEW y \in Scales, S!Scale(x, y), S!Fits(w'), S!Fits(h')
      PROVE  SpriteInv'
  <2>1. x \in Int \ {0} /\ y \in Int \ {0}
    BY DEF Scales
  <2>2. /\ w' = (w * x) \div 2 /\ centerX' = (centerX * x) \div 2
        /\ h' = (h * y) \div 2 /\ centerY' = (centerY * y) \div 2
        /\ image' = image /\ set' = set
    BY <1>2 DEF S!Scale
  <2>3. ((w * x) \div 2) % 8 = 0 /\ ((h * y) \div 2) % 8 = 0
    BY <1>2, <2>2 DEF S!Fits
  <2>4. /\ Centered((w * x) \div 2, (centerX * x) \div 2, set.x)
        /\ Centered((h * y) \div 2, (centerY * y) \div 2, set.y)
    BY <1>1, <2>1, <2>3, ScaleCenters
  <2>5. QED
    BY <1>1, <2>2, <2>4 DEF SpriteInv
<1>3. ASSUME NEW x \in Scales, NEW y \in Scales, S!SetScale(x, y), S!Fits(w'), S!Fits(h')
      PROVE  SpriteInv'
  <2>1. x \in Int \ {0} /\ y \in Int \ {0}
    BY DEF Scales
  <2>2. /\ w' = (x * image.width) \div 2 /\ centerX' = S!Abs(centerX * w') \div S!Abs(w)
        /\ h' = (y * image.height) \div 2 /\ centerY' = S!Abs(centerY * h') \div S!Abs(h)
        /\ image' = image /\ set' = set
    BY <1>3 DEF S!SetScale
  <2>3. w' % 8 = 0 /\ h' % 8 = 0
    BY <1>3 DEF S!Fits
  <2>4. /\ image.width \in Int \ {0} /\ image.width % 8 = 0
        /\ image.height \in Int \ {0} /\ image.height % 8 = 0
    BY <1>1 DEF Images
  <2>5. Centered(w', centerX', set.x)
    BY <1>1, <2>1, <2>2, <2>3, <2>4, SetScaleCenters
  <2>6. Centered(h', centerY', set.y)
    BY <1>1, <2>1, <2>2, <2>3, <2>4, SetScaleCenters
  <2>7. QED
    BY <1>1, <2>2, <2>5, <2>6 DEF SpriteInv
<1>4. ASSUME NEW x \in Centers, NEW y \in Centers, S!SetCenter(x, y)
      PROVE  SpriteInv'
  <2>1. x \in Int /\ y \in Int
    BY PartsAssumption DEF PartsAssumption
  <2>2. /\ centerX' = (x * w) \div 4 /\ centerY' = (y * h) \div 4
        /\ set' = [x |-> x, y |-> y] /\ image' = image /\ w' = w /\ h' = h
    BY <1>4 DEF S!SetCenter
  <2>3. Centered(w, (x * w) \div 4, x) /\ Centered(h, (y * h) \div 4, y)
    BY <1>1, <2>1, SetCenterCenters
  <2>4. QED
    BY <1>1, <2>1, <2>2, <2>3 DEF SpriteInv
<1>5. QED
  BY <1>2, <1>3, <1>4 DEF S!Next

\* However often a sprite is scaled and its center set, the center is the same
\* point of its image, up to a sign.
THEOREM CenterStays == Spec => []CenterKept
<1>1. Init => SpriteIInv
  BY StartsCentered DEF Init, SpriteIInv
<1>2. SpriteIInv /\ [Next]_vars => SpriteIInv'
  <2> SUFFICES ASSUME SpriteIInv, [Next]_vars, part' = "sprite"
               PROVE  SpriteInv'
    BY DEF SpriteIInv
  <2>1. part = "sprite" /\ (S!Next \/ UNCHANGED spriteVars)
    BY DEF Next, vars
  <2>2. SpriteInv
    BY <2>1 DEF SpriteIInv
  <2>3. CASE UNCHANGED spriteVars
    BY <2>2, <2>3 DEF spriteVars, SpriteInv
  <2>4. QED
    BY <2>1, <2>2, <2>3, StepsCenter
<1>3. SpriteIInv => CenterKept
  <2> SUFFICES ASSUME SpriteIInv, part = "sprite"
               PROVE  S!CenterKept
    BY DEF CenterKept
  <2>1. /\ Centered(w, centerX, set.x) /\ Centered(h, centerY, set.y)
        /\ set.x \in Int /\ set.y \in Int
    BY DEF SpriteIInv, SpriteInv
  <2>2. QED
    BY <2>1, CenteredKept DEF S!CenterKept
<1>4. QED
  BY <1>1, <1>2, <1>3, PTL DEF Spec
-----------------------------------------------------------------------------
\* Quaternions of halves, of which those of length 2 are orientations, and
\* vectors.
Quats == [i : Int, j : Int, k : Int, r : Int]
Points == [x : Int, y : Int, z : Int]

\* The product before it is halved.
Product(a, b) ==
  O!Quat_New(a.r * b.i + a.i * b.r + a.j * b.k - a.k * b.j,
             a.r * b.j + a.j * b.r + a.k * b.i - a.i * b.k,
             a.r * b.k + a.k * b.r + a.i * b.j - a.j * b.i,
             a.r * b.r - a.i * b.i - a.j * b.j - a.k * b.k)

\* Four times a vector turned by an orientation.
Turned(p, a) ==
  O!FVec3_New(
    (p.i * p.i + p.r * p.r - p.j * p.j - p.k * p.k) * a.x
      + 2 * (p.i * p.j - p.k * p.r) * a.y + 2 * (p.i * p.k + p.j * p.r) * a.z,
    (p.j * p.j + p.r * p.r - p.k * p.k - p.i * p.i) * a.y
      + 2 * (p.j * p.k - p.i * p.r) * a.z + 2 * (p.i * p.j + p.k * p.r) * a.x,
    (p.k * p.k + p.r * p.r - p.i * p.i - p.j * p.j) * a.z
      + 2 * (p.i * p.k - p.j * p.r) * a.x + 2 * (p.j * p.k + p.i * p.r) * a.y)

LEMMA PartsOf ==
  /\ \A i, j, k, r : LET p == O!Quat_New(i, j, k, r)
                     IN  p.i = i /\ p.j = j /\ p.k = k /\ p.r = r
  /\ \A x, y, z : LET a == O!FVec3_New(x, y, z)
                  IN  a.x = x /\ a.y = y /\ a.z = z
BY DEF O!Quat_New, O!FVec3_New

LEMMA Closed ==
  ASSUME NEW p \in Quats, NEW q1 \in Quats, NEW a \in Points
  PROVE  Product(p, q1) \in Quats /\ Turned(p, a) \in Points
BY DEF Product, Turned, Quats, Points, O!Quat_New, O!FVec3_New

\* The first row of the matrix that turns.
Along(p) == p.i * p.i + p.r * p.r - p.j * p.j - p.k * p.k
Beside(p) == 2 * (p.i * p.j - p.k * p.r)
Behind(p) == 2 * (p.i * p.k + p.j * p.r)

LEMMA FirstTwice ==
  ASSUME NEW p \in Quats, NEW q1 \in Quats, NEW a \in Points
  PROVE  Turned(Product(p, q1), a).x = Turned(p, Turned(q1, a)).x
<1>1. PICK i \in Int, j \in Int, k \in Int, r \in Int : p.i = i /\ p.j = j /\ p.k = k /\ p.r = r
  BY DEF Quats
<1>2. PICK l \in Int, m \in Int, n \in Int, s \in Int : q1.i = l /\ q1.j = m /\ q1.k = n /\ q1.r = s
  BY DEF Quats
<1>3. PICK x \in Int, y \in Int, z \in Int : a.x = x /\ a.y = y /\ a.z = z
  BY DEF Points
\* The matrix of the second.
<1> DEFINE xx == l * l + s * s - m * m - n * n
           xy == 2 * (l * m - n * s)
           xz == 2 * (l * n + m * s)
           yx == 2 * (l * m + n * s)
           yy == m * m + s * s - n * n - l * l
           yz == 2 * (m * n - l * s)
           zx == 2 * (l * n - m * s)
           zy == 2 * (m * n + l * s)
           zz == n * n + s * s - l * l - m * m
           two == Product(p, q1)
<1>4. /\ Along(two) = Along(p) * xx + Beside(p) * yx + Behind(p) * zx
      /\ Beside(two) = Along(p) * xy + Beside(p) * yy + Behind(p) * zy
      /\ Behind(two) = Along(p) * xz + Beside(p) * yz + Behind(p) * zz
  <2>1. PICK i2 \in Int, j2 \in Int, k2 \in Int, r2 \in Int :
           /\ i2 = r * l + i * s + j * n - k * m /\ j2 = r * m + j * s + k * l - i * n
           /\ k2 = r * n + k * s + i * m - j * l /\ r2 = r * s - i * l - j * m - k * n
    OBVIOUS
  <2>2. two.i = i2 /\ two.j = j2 /\ two.k = k2 /\ two.r = r2
    BY <1>1, <1>2, <2>1 DEF Product, O!Quat_New
  <2>3. /\ Along(p) = i * i + r * r - j * j - k * k
        /\ Beside(p) = 2 * (i * j - k * r) /\ Behind(p) = 2 * (i * k + j * r)
        /\ Along(two) = i2 * i2 + r2 * r2 - j2 * j2 - k2 * k2
        /\ Beside(two) = 2 * (i2 * j2 - k2 * r2) /\ Behind(two) = 2 * (i2 * k2 + j2 * r2)
    BY <1>1, <2>2 DEF Along, Beside, Behind
  <2>4. Along(two) = Along(p) * xx + Beside(p) * yx + Behind(p) * zx
    BY <2>1, <2>3, SMT
  <2>5. Beside(two) = Along(p) * xy + Beside(p) * yy + Behind(p) * zy
    BY <2>1, <2>3, SMT
  <2>6. Behind(two) = Along(p) * xz + Beside(p) * yz + Behind(p) * zz
    BY <2>1, <2>3, SMT
  <2>7. QED
    BY <2>4, <2>5, <2>6
<1>5. Turned(q1, a) = O!FVec3_New(xx * x + xy * y + xz * z, yx * x + yy * y + yz * z,
                                 zx * x + zy * y + zz * z)
  BY <1>2, <1>3 DEF Turned
<1>6. /\ Turned(two, a).x = Along(two) * x + Beside(two) * y + Behind(two) * z
      /\ \A a1 : Turned(p, a1).x = Along(p) * a1.x + Beside(p) * a1.y + Behind(p) * a1.z
  BY <1>3 DEF Turned, Along, Beside, Behind, O!FVec3_New
<1>7. PICK A \in Int, B \in Int, C \in Int : A = Along(p) /\ B = Beside(p) /\ C = Behind(p)
  BY <1>1 DEF Along, Beside, Behind
<1>8. /\ xx \in Int /\ xy \in Int /\ xz \in Int /\ yx \in Int /\ yy \in Int /\ yz \in Int
      /\ zx \in Int /\ zy \in Int /\ zz \in Int
  OBVIOUS
<1> HIDE DEF xx, xy, xz, yx, yy, yz, zx, zy, zz, two
<1>9. (A * xx + B * yx + C * zx) * x + (A * xy + B * yy + C * zy) * y + (A * xz + B * yz + C * zz) * z
        = A * (xx * x + xy * y + xz * z) + B * (yx * x + yy * y + yz * z)
            + C * (zx * x + zy * y + zz * z)
  BY <1>8, SMT
<1>10. Turned(two, a).x
         = (A * xx + B * yx + C * zx) * x + (A * xy + B * yy + C * zy) * y + (A * xz + B * yz + C * zz) * z
  BY <1>4, <1>6, <1>7, Zenon
<1>11. Turned(p, Turned(q1, a)).x
         = A * (xx * x + xy * y + xz * z) + B * (yx * x + yy * y + yz * z)
             + C * (zx * x + zy * y + zz * z)
  <2>1. \A x1, y1, z1 : LET a1 == O!FVec3_New(x1, y1, z1)
                        IN  a1.x = x1 /\ a1.y = y1 /\ a1.z = z1
    BY PartsOf
  <2>2. PICK x1, y1, z1 : /\ x1 = xx * x + xy * y + xz * z /\ y1 = yx * x + yy * y + yz * z
                          /\ z1 = zx * x + zy * y + zz * z
    OBVIOUS
  <2>3. Turned(q1, a) = O!FVec3_New(x1, y1, z1)
    BY <1>5, <2>2
  <2>4. Turned(q1, a).x = x1 /\ Turned(q1, a).y = y1 /\ Turned(q1, a).z = z1
    BY <2>1, <2>3
  <2>5. Turned(p, Turned(q1, a)).x
          = Along(p) * Turned(q1, a).x + Beside(p) * Turned(q1, a).y + Behind(p) * Turned(q1, a).z
    BY <1>6, Zenon
  <2>6. QED
    BY <1>7, <2>2, <2>4, <2>5, Zenon
<1>12. QED
  BY <1>9, <1>10, <1>11, Zenon DEF two

\* The other axes are like the first: they can be exchanged in turn.
Exchanged(p) == O!Quat_New(p.j, p.k, p.i, p.r)
ExchangedPoint(a) == O!FVec3_New(a.y, a.z, a.x)

LEMMA AxesAlike ==
  ASSUME NEW p \in Quats, NEW q1 \in Quats, NEW a \in Points
  PROVE  /\ Exchanged(p) \in Quats /\ ExchangedPoint(a) \in Points
         /\ Product(Exchanged(p), Exchanged(q1)) = Exchanged(Product(p, q1))
         /\ Turned(Exchanged(p), ExchangedPoint(a)) = ExchangedPoint(Turned(p, a))
<1>1. Exchanged(p) \in Quats /\ ExchangedPoint(a) \in Points
  BY DEF Exchanged, ExchangedPoint, Quats, Points, O!Quat_New, O!FVec3_New
<1>2. PICK i \in Int, j \in Int, k \in Int, r \in Int : p.i = i /\ p.j = j /\ p.k = k /\ p.r = r
  BY DEF Quats
<1>3. PICK l \in Int, m \in Int, n \in Int, s \in Int : q1.i = l /\ q1.j = m /\ q1.k = n /\ q1.r = s
  BY DEF Quats
<1>4. PICK x \in Int, y \in Int, z \in Int : a.x = x /\ a.y = y /\ a.z = z
  BY DEF Points
<1>5. Product(Exchanged(p), Exchanged(q1)) = Exchanged(Product(p, q1))
  BY <1>2, <1>3 DEF Exchanged, Product, O!Quat_New
<1>6. Turned(Exchanged(p), ExchangedPoint(a)) = ExchangedPoint(Turned(p, a))
  BY <1>2, <1>4 DEF Exchanged, ExchangedPoint, Turned, O!Quat_New, O!FVec3_New
<1>7. QED
  BY <1>1, <1>5, <1>6

\* Turning by a product is turning twice.
LEMMA TurnedTwice ==
  ASSUME NEW p \in Quats, NEW q1 \in Quats, NEW a \in Points
  PROVE  Turned(Product(p, q1), a) = Turned(p, Turned(q1, a))
<1> DEFINE once == Turned(Product(p, q1), a)
           twice == Turned(p, Turned(q1, a))
<1>1. ASSUME NEW p2 \in Quats, NEW q2 \in Quats, NEW a2 \in Points
      PROVE  Turned(Product(p2, q2), a2).x = Turned(p2, Turned(q2, a2)).x
  BY FirstTwice
<1>2. ASSUME NEW p2 \in Quats, NEW q2 \in Quats, NEW a2 \in Points
      PROVE  Turned(Product(p2, q2), a2).y = Turned(p2, Turned(q2, a2)).y
  <2>1. /\ Exchanged(p2) \in Quats /\ Exchanged(q2) \in Quats /\ ExchangedPoint(a2) \in Points
        /\ Product(p2, q2) \in Quats /\ Turned(q2, a2) \in Points
    BY AxesAlike, Closed
  <2>2. Turned(Product(Exchanged(p2), Exchanged(q2)), ExchangedPoint(a2))
          = ExchangedPoint(Turned(Product(p2, q2), a2))
    BY <2>1, AxesAlike
  <2>3. Turned(Exchanged(p2), Turned(Exchanged(q2), ExchangedPoint(a2)))
          = ExchangedPoint(Turned(p2, Turned(q2, a2)))
    BY <2>1, AxesAlike
  <2>4. Turned(Product(Exchanged(p2), Exchanged(q2)), ExchangedPoint(a2)).x
          = Turned(Exchanged(p2), Turned(Exchanged(q2), ExchangedPoint(a2))).x
    BY <2>1, FirstTwice
  <2>5. \A a3 : ExchangedPoint(a3).x = a3.y
    BY DEF ExchangedPoint, O!FVec3_New
  <2>6. QED
    BY <2>2, <2>3, <2>4, <2>5, Zenon
<1>3. once.z = twice.z
  <2>1. /\ Exchanged(p) \in Quats /\ Exchanged(q1) \in Quats /\ ExchangedPoint(a) \in Points
        /\ Product(p, q1) \in Quats /\ Turned(q1, a) \in Points
    BY AxesAlike, Closed
  <2>2. Turned(Product(Exchanged(p), Exchanged(q1)), ExchangedPoint(a)) = ExchangedPoint(once)
    BY <2>1, AxesAlike
  <2>3. Turned(Exchanged(p), Turned(Exchanged(q1), ExchangedPoint(a))) = ExchangedPoint(twice)
    BY <2>1, AxesAlike
  <2>4. Turned(Product(Exchanged(p), Exchanged(q1)), ExchangedPoint(a)).y
          = Turned(Exchanged(p), Turned(Exchanged(q1), ExchangedPoint(a))).y
    BY <1>2, <2>1, Zenon
  <2>5. \A a3 : ExchangedPoint(a3).y = a3.z
    BY DEF ExchangedPoint, O!FVec3_New
  <2>6. QED
    BY <2>2, <2>3, <2>4, <2>5, Zenon
<1>4. once.x = twice.x /\ once.y = twice.y
  BY <1>1, <1>2
<1>5. once \in Points /\ twice \in Points
  BY Closed
<1> HIDE DEF once, twice
<1>6. once = twice
  BY <1>3, <1>4, <1>5 DEF Points
<1>7. QED
  BY <1>6 DEF once, twice

\* The orientations a program can turn to: of length 2, with components that
\* are all odd or all even.
Units ==
  {p \in Quats : /\ p.i * p.i + p.j * p.j + p.k * p.k + p.r * p.r = 4
                 /\ \/ {p.i, p.j, p.k, p.r} \subseteq {-1, 1}
                    \/ {p.i, p.j, p.k, p.r} \subseteq {-2, 0, 2}}

LEMMA UnitsClosed ==
  ASSUME NEW p \in Units, NEW q1 \in Units
  PROVE  /\ O!Quat_Multiply(p, q1) \in Units
         /\ LET w1 == O!Quat_Multiply(p, q1)
            IN  Product(p, q1) = O!Quat_New(2 * w1.i, 2 * w1.j, 2 * w1.k, 2 * w1.r)
<1>1. PICK i \in Int, j \in Int, k \in Int, r \in Int : p.i = i /\ p.j = j /\ p.k = k /\ p.r = r
  BY DEF Units, Quats
<1>2. PICK l \in Int, m \in Int, n \in Int, s \in Int : q1.i = l /\ q1.j = m /\ q1.k = n /\ q1.r = s
  BY DEF Units, Quats
<1>3. /\ i * i + j * j + k * k + r * r = 4
      /\ {i, j, k, r} \subseteq {-1, 1} \/ {i, j, k, r} \subseteq {-2, 0, 2}
  BY <1>1 DEF Units
<1>4. /\ l * l + m * m + n * n + s * s = 4
      /\ {l, m, n, s} \subseteq {-1, 1} \/ {l, m, n, s} \subseteq {-2, 0, 2}
  BY <1>2 DEF Units
<1> DEFINE x == r * l + i * s + j * n - k * m
           y == r * m + j * s + k * l - i * n
           z == r * n + k * s + i * m - j * l
           t == r * s - i * l - j * m - k * n
<1>5. x * x + y * y + z * z + t * t = 16
  <2>1. x * x + y * y + z * z + t * t
          = (i * i + j * j + k * k + r * r) * (l * l + m * m + n * n + s * s)
    OBVIOUS
  <2>2. QED
    BY <1>3, <1>4, <2>1
<1>6. \/ {x, y, z, t} \subseteq {-2, 2}
      \/ {x, y, z, t} \subseteq {-4, 0, 4}
  BY <1>3, <1>4, SMTT(60)
<1> HIDE DEF x, y, z, t
<1>7. x \in Int /\ y \in Int /\ z \in Int /\ t \in Int
  BY DEF x, y, z, t
<1>8. PICK x2 \in Int, y2 \in Int, z2 \in Int, t2 \in Int :
        /\ x = 2 * x2 /\ y = 2 * y2 /\ z = 2 * z2 /\ t = 2 * t2
        /\ {x2, y2, z2, t2} \subseteq {-1, 1} \/ {x2, y2, z2, t2} \subseteq {-2, 0, 2}
  <2>1. PICK x2 \in Int, y2 \in Int, z2 \in Int, t2 \in Int :
          x = 2 * x2 /\ y = 2 * y2 /\ z = 2 * z2 /\ t = 2 * t2
    <3>1. \A even \in {-4, -2, 0, 2, 4} : \E half \in Int : even = 2 * half
      <4>1. -4 = 2 * (-2) /\ -2 = 2 * (-1) /\ 0 = 2 * 0 /\ 2 = 2 * 1 /\ 4 = 2 * 2
        OBVIOUS
      <4>2. QED
        BY <4>1
    <3>2. x \in {-4, -2, 0, 2, 4} /\ y \in {-4, -2, 0, 2, 4}
          /\ z \in {-4, -2, 0, 2, 4} /\ t \in {-4, -2, 0, 2, 4}
      BY <1>6
    <3>3. PICK x2 \in Int : x = 2 * x2
      BY <3>1, <3>2
    <3>4. PICK y2 \in Int : y = 2 * y2
      BY <3>1, <3>2
    <3>5. PICK z2 \in Int : z = 2 * z2
      BY <3>1, <3>2
    <3>6. PICK t2 \in Int : t = 2 * t2
      BY <3>1, <3>2
    <3>7. QED
      BY <3>3, <3>4, <3>5, <3>6
  <2>2. {x2, y2, z2, t2} \subseteq {-1, 1} \/ {x2, y2, z2, t2} \subseteq {-2, 0, 2}
    BY <1>6, <2>1
  <2>3. QED
    BY <2>1, <2>2
<1>9. x2 * x2 + y2 * y2 + z2 * z2 + t2 * t2 = 4
  BY <1>5, <1>8
<1>10. Product(p, q1) = O!Quat_New(x, y, z, t)
  BY <1>1, <1>2 DEF Product, x, y, z, t
<1>11. O!Quat_Multiply(p, q1) = O!Quat_New(x \div 2, y \div 2, z \div 2, t \div 2)
  BY <1>1, <1>2 DEF O!Quat_Multiply, x, y, z, t
<1>12. x \div 2 = x2 /\ y \div 2 = y2 /\ z \div 2 = z2 /\ t \div 2 = t2
  BY <1>8
<1>13. O!Quat_Multiply(p, q1) = O!Quat_New(x2, y2, z2, t2)
  BY <1>11, <1>12
<1>14. O!Quat_New(x2, y2, z2, t2) \in Units
  BY <1>8, <1>9 DEF O!Quat_New, Units, Quats
<1>15. QED
  BY <1>8, <1>10, <1>13, <1>14 DEF O!Quat_New

\* The code's turning is exact.
LEMMA TurnsExact ==
  ASSUME NEW p \in Units, NEW a \in Points
  PROVE  LET b == O!Quat_CrossFVec3(p, a)
         IN  b \in Points /\ Turned(p, a) = O!FVec3_New(4 * b.x, 4 * b.y, 4 * b.z)
<1>1. PICK i \in Int, j \in Int, k \in Int, r \in Int : p.i = i /\ p.j = j /\ p.k = k /\ p.r = r
  BY DEF Units, Quats
<1>2. PICK x \in Int, y \in Int, z \in Int : a.x = x /\ a.y = y /\ a.z = z
  BY DEF Points
<1>3. /\ i * i + j * j + k * k + r * r = 4
      /\ {i, j, k, r} \subseteq {-1, 1} \/ {i, j, k, r} \subseteq {-2, 0, 2}
  BY <1>1 DEF Units
<1> DEFINE A == r * x + j * z - k * y
           B == r * y + k * x - i * z
           C == r * z + i * y - j * x
           D == -(i * x + j * y + k * z)
           X == -(D * i) + A * r - B * k + C * j
           Y == -(D * j) + B * r - C * i + A * k
           Z == -(D * k) + C * r - A * j + B * i
           first == O!Quat_Multiply(p, O!Quat_New(2 * x, 2 * y, 2 * z, 0))
           second == O!Quat_Multiply(first, O!Quat_Conjugate(p))
<1>4. first = O!Quat_New(A, B, C, D)
  <2>1. /\ (r * (2 * x) + i * 0 + j * (2 * z) - k * (2 * y)) \div 2 = A
        /\ (r * (2 * y) + j * 0 + k * (2 * x) - i * (2 * z)) \div 2 = B
        /\ (r * (2 * z) + k * 0 + i * (2 * y) - j * (2 * x)) \div 2 = C
        /\ (r * 0 - i * (2 * x) - j * (2 * y) - k * (2 * z)) \div 2 = D
    <3>1. /\ r * (2 * x) + i * 0 + j * (2 * z) - k * (2 * y) = 2 * A
          /\ r * (2 * y) + j * 0 + k * (2 * x) - i * (2 * z) = 2 * B
          /\ r * (2 * z) + k * 0 + i * (2 * y) - j * (2 * x) = 2 * C
          /\ r * 0 - i * (2 * x) - j * (2 * y) - k * (2 * z) = 2 * D
      OBVIOUS
    <3>2. A \in Int /\ B \in Int /\ C \in Int /\ D \in Int
      OBVIOUS
    <3> HIDE DEF A, B, C, D
    <3>3. \A n \in Int : (2 * n) \div 2 = n
      OBVIOUS
    <3>4. QED
      BY <3>1, <3>2, <3>3
  <2>2. QED
    BY <1>1, <2>1 DEF O!Quat_Multiply, O!Quat_New
<1>5. O!Quat_CrossFVec3(p, a) = O!FVec3_New((X \div 2) \div 2, (Y \div 2) \div 2, (Z \div 2) \div 2)
  <2>1. second.i = X \div 2 /\ second.j = Y \div 2 /\ second.k = Z \div 2
    <3>1. /\ D * (-i) + A * r + B * (-k) - C * (-j) = X
          /\ D * (-j) + B * r + C * (-i) - A * (-k) = Y
          /\ D * (-k) + C * r + A * (-j) - B * (-i) = Z
      OBVIOUS
    <3> HIDE DEF X, Y, Z, A, B, C, D, first
    <3>2. O!Quat_Conjugate(p) = O!Quat_New(-i, -j, -k, r)
      BY <1>1 DEF O!Quat_Conjugate
    <3>3. QED
      BY <1>4, <3>1, <3>2 DEF O!Quat_Multiply, O!Quat_New
  <2>2. O!Quat_CrossFVec3(p, a) = O!FVec3_New(second.i \div 2, second.j \div 2, second.k \div 2)
    BY <1>2 DEF O!Quat_CrossFVec3
  <2>3. QED
    BY <2>1, <2>2
<1>6. Turned(p, a) = O!FVec3_New(X, Y, Z)
  <2>1. /\ X = (i * i + r * r - j * j - k * k) * x
              + 2 * (i * j - k * r) * y + 2 * (i * k + j * r) * z
        /\ Y = (j * j + r * r - k * k - i * i) * y
              + 2 * (j * k - i * r) * z + 2 * (i * j + k * r) * x
        /\ Z = (k * k + r * r - i * i - j * j) * z
              + 2 * (i * k - j * r) * x + 2 * (j * k + i * r) * y
    BY SMTT(60)
  <2>2. QED
    BY <1>1, <1>2, <2>1 DEF Turned
<1>7. X % 4 = 0 /\ Y % 4 = 0 /\ Z % 4 = 0
  BY <1>3, SMTT(60)
<1> HIDE DEF X, Y, Z
<1>8. X \in Int /\ Y \in Int /\ Z \in Int
  BY DEF X, Y, Z
<1>9. \A n \in Int : n % 4 = 0 => (n \div 2) \div 2 \in Int /\ n = 4 * ((n \div 2) \div 2)
  OBVIOUS
<1>10. QED
  BY <1>5, <1>6, <1>7, <1>8, <1>9 DEF O!FVec3_New, Points

Fourfold(a) == O!FVec3_New(4 * a.x, 4 * a.y, 4 * a.z)

LEMMA PointsEqual ==
  ASSUME NEW a \in Points, NEW b \in Points, Fourfold(a) = Fourfold(b)
  PROVE  a = b
<1>1. a.x = b.x /\ a.y = b.y /\ a.z = b.z
  BY DEF Fourfold, O!FVec3_New, Points
<1>2. QED
  BY <1>1 DEF Points

LEMMA TurnedPoints ==
  ASSUME NEW p \in Quats, NEW a \in Points
  PROVE  /\ Turned(p, a) \in Points /\ Fourfold(a) \in Points
         /\ Turned(p, Fourfold(a)) = Fourfold(Turned(p, a))
         /\ Turned(O!Quat_New(2 * p.i, 2 * p.j, 2 * p.k, 2 * p.r), a) = Fourfold(Turned(p, a))
<1>1. PICK i \in Int, j \in Int, k \in Int, r \in Int : p.i = i /\ p.j = j /\ p.k = k /\ p.r = r
  BY DEF Quats
<1>2. PICK x \in Int, y \in Int, z \in Int : a.x = x /\ a.y = y /\ a.z = z
  BY DEF Points
<1>3. Turned(p, a) \in Points /\ Fourfold(a) \in Points
  BY <1>1, <1>2 DEF Turned, Fourfold, O!FVec3_New, Points
<1>4. Turned(p, Fourfold(a)) = Fourfold(Turned(p, a))
  BY <1>1, <1>2 DEF Turned, Fourfold, O!FVec3_New
<1>5. Turned(O!Quat_New(2 * p.i, 2 * p.j, 2 * p.k, 2 * p.r), a) = Fourfold(Turned(p, a))
  BY <1>1, <1>2 DEF Turned, Fourfold, O!FVec3_New, O!Quat_New
<1>6. QED
  BY <1>3, <1>4, <1>5

\* u is a turned by q1.
Is(q1, a, u1) == Turned(q1, a) = Fourfold(u1)

\* A turn of both keeps that.
LEMMA TurnKeeps ==
  ASSUME NEW p \in Units, NEW q1 \in Units, NEW a \in Points, NEW u1 \in Points, Is(q1, a, u1)
  PROVE  /\ O!Quat_CrossFVec3(p, u1) \in Points
         /\ Is(O!Quat_Multiply(p, q1), a, O!Quat_CrossFVec3(p, u1))
<1> DEFINE w1 == O!Quat_Multiply(p, q1)
           b == O!Quat_CrossFVec3(p, u1)
<1>1. w1 \in Units /\ Product(p, q1) = O!Quat_New(2 * w1.i, 2 * w1.j, 2 * w1.k, 2 * w1.r)
  BY UnitsClosed
<1>2. b \in Points /\ Turned(p, u1) = Fourfold(b)
  BY TurnsExact DEF Fourfold
<1> HIDE DEF w1, b
<1>3. p \in Quats /\ q1 \in Quats /\ w1 \in Quats
  BY <1>1 DEF Units
<1>4. Fourfold(Turned(w1, a)) = Turned(Product(p, q1), a)
  BY <1>1, <1>3, TurnedPoints
<1>5. Turned(Product(p, q1), a) = Turned(p, Turned(q1, a))
  BY <1>3, TurnedTwice
<1>6. Turned(p, Fourfold(u1)) = Fourfold(Turned(p, u1))
  BY <1>3, TurnedPoints
<1>7. Fourfold(Turned(w1, a)) = Fourfold(Fourfold(b))
  BY <1>2, <1>4, <1>5, <1>6 DEF Is
<1>8. Turned(w1, a) \in Points /\ Fourfold(b) \in Points
  BY <1>2, <1>3, TurnedPoints
<1>9. Turned(w1, a) = Fourfold(b)
  BY <1>7, <1>8, PointsEqual
<1>10. QED
  BY <1>2, <1>9 DEF Is, w1, b

LEMMA Inverses ==
  ASSUME NEW p \in Units
  PROVE  /\ O!Quat_Inverse(p) \in Units
         /\ O!Quat_Multiply(O!Quat_Inverse(p), p) = O!Quat_Identity
<1>1. PICK i \in Int, j \in Int, k \in Int, r \in Int : p.i = i /\ p.j = j /\ p.k = k /\ p.r = r
  BY DEF Units, Quats
<1>2. /\ i * i + j * j + k * k + r * r = 4
      /\ {i, j, k, r} \subseteq {-1, 1} \/ {i, j, k, r} \subseteq {-2, 0, 2}
  BY <1>1 DEF Units
<1>3. O!Quat_Dot(p, p) \div 4 = 1
  BY <1>1, <1>2 DEF O!Quat_Dot
<1>4. O!Quat_Inverse(p) = O!Quat_New(-i, -j, -k, r)
  <2>1. \A n \in Int : n \div 1 = n
    OBVIOUS
  <2>2. O!Quat_Conjugate(p) = O!Quat_New(-i, -j, -k, r)
    BY <1>1 DEF O!Quat_Conjugate
  <2>3. QED
    BY <1>3, <2>1, <2>2 DEF O!Quat_Inverse, O!Quat_New
<1>5. O!Quat_Inverse(p) \in Units
  <2>1. (-i) * (-i) + (-j) * (-j) + (-k) * (-k) + r * r = 4
    BY <1>2
  <2>2. {-i, -j, -k, r} \subseteq {-1, 1} \/ {-i, -j, -k, r} \subseteq {-2, 0, 2}
    BY <1>2
  <2>3. QED
    BY <1>4, <2>1, <2>2 DEF O!Quat_New, Units, Quats
<1>6. O!Quat_Multiply(O!Quat_Inverse(p), p) = O!Quat_Identity
  <2>1. /\ (r * i + (-i) * r + (-j) * k - (-k) * j) = 0
        /\ (r * j + (-j) * r + (-k) * i - (-i) * k) = 0
        /\ (r * k + (-k) * r + (-i) * j - (-j) * i) = 0
        /\ (r * r - (-i) * i - (-j) * j - (-k) * k) = 4
    BY <1>2
  <2>2. 0 \div 2 = 0 /\ 4 \div 2 = 2
    OBVIOUS
  <2>3. QED
    BY <1>1, <1>4, <2>1, <2>2 DEF O!Quat_Multiply, O!Quat_New, O!Quat_Identity
<1>7. QED
  BY <1>5, <1>6

LEMMA TurnsUnits == O!Turns \subseteq Units /\ O!Quat_Identity \in Units
<1>1. ASSUME NEW i \in {-1, 1}, NEW j \in {-1, 1}, NEW k \in {-1, 1}, NEW r \in {-1, 1}
      PROVE  O!Quat_New(i, j, k, r) \in Units
  <2>1. i * i = 1 /\ j * j = 1 /\ k * k = 1 /\ r * r = 1
    OBVIOUS
  <2>2. QED
    BY <2>1 DEF O!Quat_New, Units, Quats
<1>2. /\ O!Quat_New(2, 0, 0, 0) \in Units /\ O!Quat_New(0, 2, 0, 0) \in Units
      /\ O!Quat_New(0, 0, 2, 0) \in Units /\ O!Quat_New(0, 0, 0, 2) \in Units
  BY DEF O!Quat_New, Units, Quats
<1>3. QED
  BY <1>1, <1>2 DEF O!Turns, O!Halves, O!Quat_Identity

LEMMA IdentityTurns ==
  ASSUME NEW a \in Points
  PROVE  Is(O!Quat_Identity, a, a)
<1>1. PICK x \in Int, y \in Int, z \in Int : a.x = x /\ a.y = y /\ a.z = z
  BY DEF Points
<1>2. QED
  BY <1>1 DEF Is, O!Quat_Identity, O!Quat_New, Turned, Fourfold, O!FVec3_New

\* The inverse of an orientation takes back what was turned by it.
LEMMA TakenBack ==
  ASSUME NEW q1 \in Units, NEW a \in Points, NEW u1 \in Points, Is(q1, a, u1)
  PROVE  O!FVec3_CrossQuat(u1, q1) = a
<1> DEFINE b == O!Quat_CrossFVec3(O!Quat_Inverse(q1), u1)
<1>1. b \in Points /\ Is(O!Quat_Identity, a, b)
  BY Inverses, TurnKeeps
<1> HIDE DEF b
<1>2. Fourfold(a) = Fourfold(b)
  BY <1>1, IdentityTurns DEF Is
<1>3. a = b
  BY <1>1, <1>2, PointsEqual
<1>4. QED
  BY <1>3 DEF b, O!FVec3_CrossQuat

\* Turning keeps lengths and angles, and turns a cross product along.
LEMMA ProductsTurn ==
  ASSUME NEW q1 \in Units, NEW a \in Points, NEW b \in Points,
         NEW u1 \in Points, NEW v1 \in Points, Is(q1, a, u1), Is(q1, b, v1)
  PROVE  /\ O!FVec3_Dot(u1, v1) = O!FVec3_Dot(a, b)
         /\ O!FVec3_Cross(a, b) \in Points /\ O!FVec3_Cross(u1, v1) \in Points
         /\ Is(q1, O!FVec3_Cross(a, b), O!FVec3_Cross(u1, v1))
<1>1. PICK i \in Int, j \in Int, k \in Int, r \in Int : q1.i = i /\ q1.j = j /\ q1.k = k /\ q1.r = r
  BY DEF Units, Quats
<1>2. PICK x \in Int, y \in Int, z \in Int : a.x = x /\ a.y = y /\ a.z = z
  BY DEF Points
<1>3. PICK l \in Int, m \in Int, n \in Int : b.x = l /\ b.y = m /\ b.z = n
  BY DEF Points
<1>4. i * i + j * j + k * k + r * r = 4
  BY <1>1 DEF Units
<1> DEFINE N == i * i + j * j + k * k + r * r
           s == Turned(q1, a)
           t == Turned(q1, b)
<1>5. s.x * t.x + s.y * t.y + s.z * t.z = (N * N) * (x * l + y * m + z * n)
  BY <1>1, <1>2, <1>3, SMTT(60) DEF Turned, O!FVec3_New
<1>6. /\ s.y * t.z - s.z * t.y = N * Turned(q1, O!FVec3_Cross(a, b)).x
      /\ s.z * t.x - s.x * t.z = N * Turned(q1, O!FVec3_Cross(a, b)).y
      /\ s.x * t.y - s.y * t.x = N * Turned(q1, O!FVec3_Cross(a, b)).z
  BY <1>1, <1>2, <1>3, SMTT(60) DEF Turned, O!FVec3_New, O!FVec3_Cross
<1>7. /\ 16 * O!FVec3_Dot(u1, v1) = 16 * O!FVec3_Dot(a, b)
      /\ O!FVec3_Dot(u1, v1) \in Int /\ O!FVec3_Dot(a, b) \in Int
  <2>1. /\ s.x = 4 * u1.x /\ s.y = 4 * u1.y /\ s.z = 4 * u1.z
        /\ t.x = 4 * v1.x /\ t.y = 4 * v1.y /\ t.z = 4 * v1.z
    BY DEF Is, Fourfold, O!FVec3_New
  <2> HIDE DEF s, t
  <2>2. /\ u1.x \in Int /\ u1.y \in Int /\ u1.z \in Int
        /\ v1.x \in Int /\ v1.y \in Int /\ v1.z \in Int
    BY DEF Points
  <2>3. N * N = 16
    BY <1>4
  <2> HIDE DEF N
  <2>4. s.x * t.x + s.y * t.y + s.z * t.z = 16 * (u1.x * v1.x + u1.y * v1.y + u1.z * v1.z)
    <3>1. PICK d \in Int, e \in Int, f \in Int : u1.x = d /\ u1.y = e /\ u1.z = f
      BY <2>2
    <3>2. PICK g \in Int, o \in Int, c \in Int : v1.x = g /\ v1.y = o /\ v1.z = c
      BY <2>2
    <3>3. /\ s.x = 4 * d /\ s.y = 4 * e /\ s.z = 4 * f
          /\ t.x = 4 * g /\ t.y = 4 * o /\ t.z = 4 * c
      BY <2>1, <3>1, <3>2
    <3>4. (4 * d) * (4 * g) + (4 * e) * (4 * o) + (4 * f) * (4 * c) = 16 * (d * g + e * o + f * c)
      OBVIOUS
    <3>5. QED
      BY <3>1, <3>2, <3>3, <3>4
  <2>5. QED
    BY <1>2, <1>3, <1>5, <2>2, <2>3, <2>4 DEF O!FVec3_Dot
<1>8. O!FVec3_Cross(a, b) \in Points /\ O!FVec3_Cross(u1, v1) \in Points
  BY DEF O!FVec3_Cross, O!FVec3_New, Points
<1>9. Turned(q1, O!FVec3_Cross(a, b)) = Fourfold(O!FVec3_Cross(u1, v1))
  <2>1. /\ s.x = 4 * u1.x /\ s.y = 4 * u1.y /\ s.z = 4 * u1.z
        /\ t.x = 4 * v1.x /\ t.y = 4 * v1.y /\ t.z = 4 * v1.z
    BY DEF Is, Fourfold, O!FVec3_New
  <2> DEFINE c == Turned(q1, O!FVec3_Cross(a, b))
             d == O!FVec3_Cross(u1, v1)
  <2>2. /\ u1.x \in Int /\ u1.y \in Int /\ u1.z \in Int
        /\ v1.x \in Int /\ v1.y \in Int /\ v1.z \in Int
    BY DEF Points
  <2>3. N = 4
    BY <1>4
  <2>4. q1 \in Quats
    BY DEF Units
  <2>5. c \in Points /\ d \in Points
    BY <1>8, <2>4, TurnedPoints
  <2>6. /\ d.x = u1.y * v1.z - u1.z * v1.y
        /\ d.y = u1.z * v1.x - u1.x * v1.z
        /\ d.z = u1.x * v1.y - u1.y * v1.x
    BY DEF O!FVec3_Cross, O!FVec3_New
  <2> HIDE DEF s, t, N, c, d
  <2>7. /\ s.y * t.z - s.z * t.y = 16 * d.x
        /\ s.z * t.x - s.x * t.z = 16 * d.y
        /\ s.x * t.y - s.y * t.x = 16 * d.z
    BY <2>1, <2>2, <2>6
  <2>8. /\ s.y * t.z - s.z * t.y = N * c.x
        /\ s.z * t.x - s.x * t.z = N * c.y
        /\ s.x * t.y - s.y * t.x = N * c.z
    BY <1>6 DEF c
  <2>9. 4 * c.x = 16 * d.x /\ 4 * c.y = 16 * d.y /\ 4 * c.z = 16 * d.z
    BY <2>3, <2>7, <2>8
  <2>10. c.x = 4 * d.x /\ c.y = 4 * d.y /\ c.z = 4 * d.z
    BY <2>5, <2>9 DEF Points
  <2>11. c = Fourfold(d)
    BY <2>5, <2>10 DEF Points, Fourfold, O!FVec3_New
  <2>12. QED
    BY <2>11 DEF c, d
<1>10. QED
  BY <1>7, <1>8, <1>9 DEF Is

\* The inductive invariant of an orientation.
OrientationInv ==
  /\ q \in Units /\ u \in Points /\ v \in Points /\ start \in Points \X Points
  /\ Is(q, start[1], u) /\ Is(q, start[2], v)

OrientationIInv == part = "orientation" => OrientationInv

LEMMA StartsStraight == O!Init => OrientationInv
<1> SUFFICES ASSUME O!Init PROVE OrientationInv
  OBVIOUS
<1>1. u \in Points /\ v \in Points
  BY PartsAssumption DEF PartsAssumption, O!Init, O!Vectors, Points
<1>2. q = O!Quat_Identity /\ start = <<u, v>>
  BY DEF O!Init
<1>3. Is(O!Quat_Identity, u, u) /\ Is(O!Quat_Identity, v, v)
  BY <1>1, IdentityTurns
<1>4. QED
  BY <1>1, <1>2, <1>3, TurnsUnits DEF OrientationInv

LEMMA StepsTurn == OrientationInv /\ O!Next => OrientationInv'
<1> SUFFICES ASSUME OrientationInv, O!Next PROVE OrientationInv'
  OBVIOUS
<1>1. PICK p \in Units : /\ q' = O!Quat_Multiply(p, q) /\ start' = start
                         /\ u' = O!Quat_CrossFVec3(p, u) /\ v' = O!Quat_CrossFVec3(p, v)
  <2>1. PICK p \in O!Turns : O!Turn(p) \/ O!TurnBack(p)
    BY DEF O!Next
  <2>2. p \in Units /\ O!Quat_Inverse(p) \in Units
    BY <2>1, TurnsUnits, Inverses
  <2>3. CASE O!Turn(p)
    BY <2>2, <2>3 DEF O!Turn
  <2>4. CASE O!TurnBack(p)
    BY <2>2, <2>4 DEF O!TurnBack, O!FVec3_CrossQuat
  <2>5. QED
    BY <2>1, <2>3, <2>4
<1>2. /\ q \in Units /\ u \in Points /\ v \in Points /\ start \in Points \X Points
      /\ start[1] \in Points /\ start[2] \in Points
      /\ Is(q, start[1], u) /\ Is(q, start[2], v)
  BY DEF OrientationInv
<1>3. O!Quat_Multiply(p, q) \in Units
  BY <1>2, UnitsClosed
<1>4. /\ O!Quat_CrossFVec3(p, u) \in Points
      /\ Is(O!Quat_Multiply(p, q), start[1], O!Quat_CrossFVec3(p, u))
  BY <1>2, TurnKeeps
<1>5. /\ O!Quat_CrossFVec3(p, v) \in Points
      /\ Is(O!Quat_Multiply(p, q), start[2], O!Quat_CrossFVec3(p, v))
  BY <1>2, TurnKeeps
<1>6. QED
  BY <1>1, <1>2, <1>3, <1>4, <1>5 DEF OrientationInv

\* However often, and about whichever axes, an orientation and two vectors are
\* turned together, the inverse of the orientation takes the vectors back, and
\* their scalar and cross products are those of the start.
THEOREM TurnedAlong == Spec => []TurnsTogether
<1>1. Init => OrientationIInv
  BY StartsStraight DEF Init, OrientationIInv
<1>2. OrientationIInv /\ [Next]_vars => OrientationIInv'
  <2> SUFFICES ASSUME OrientationIInv, [Next]_vars, part' = "orientation"
               PROVE  OrientationInv'
    BY DEF OrientationIInv
  <2>1. part = "orientation" /\ (O!Next \/ UNCHANGED orientationVars)
    BY DEF Next, vars
  <2>2. OrientationInv
    BY <2>1 DEF OrientationIInv
  <2>3. CASE UNCHANGED orientationVars
    BY <2>2, <2>3 DEF orientationVars, OrientationInv
  <2>4. QED
    BY <2>1, <2>2, <2>3, StepsTurn
<1>3. OrientationIInv => TurnsTogether
  <2> SUFFICES ASSUME OrientationIInv, part = "orientation"
               PROVE  O!TurnsTogether
    BY DEF TurnsTogether
  <2>1. /\ q \in Units /\ u \in Points /\ v \in Points /\ start \in Points \X Points
        /\ start[1] \in Points /\ start[2] \in Points
        /\ Is(q, start[1], u) /\ Is(q, start[2], v)
    BY DEF OrientationIInv, OrientationInv
  <2>2. O!FVec3_CrossQuat(u, q) = start[1] /\ O!FVec3_CrossQuat(v, q) = start[2]
    BY <2>1, TakenBack
  <2>3. <<start[1], start[2]>> = start
    BY <2>1
  <2>4. /\ O!FVec3_Dot(u, v) = O!FVec3_Dot(start[1], start[2])
        /\ O!FVec3_Cross(start[1], start[2]) \in Points /\ O!FVec3_Cross(u, v) \in Points
        /\ Is(q, O!FVec3_Cross(start[1], start[2]), O!FVec3_Cross(u, v))
    BY <2>1, ProductsTurn
  <2>5. O!FVec3_CrossQuat(O!FVec3_Cross(u, v), q) = O!FVec3_Cross(start[1], start[2])
    BY <2>1, <2>4, TakenBack
  <2>6. QED
    BY <2>2, <2>3, <2>4, <2>5 DEF O!TurnsTogether
<1>4. QED
  BY <1>1, <1>2, <1>3, PTL DEF Spec
-----------------------------------------------------------------------------
\* The bits of a number are below its width.
LEMMA BitsBelow ==
  ASSUME NEW k \in Nat, NEW n \in Nat, n < 2^k
  PROVE  \A b \in I!Bits(n) : b \in 0 .. 30 /\ b < k
<1> SUFFICES ASSUME NEW b \in I!Bits(n)
             PROVE  b \in 0 .. 30 /\ b < k
  OBVIOUS
<1>1. b \in 0 .. 30 /\ (n \div 2^b) % 2 = 1
  BY DEF I!Bits
<1>2. ASSUME b >= k
      PROVE  FALSE
  <2>1. b \in Nat /\ 2^k <= 2^b /\ 2^b \in Nat /\ 2^k \in Nat
    BY <1>1, <1>2, PowersGrow
  <2>2. PICK m \in Nat : m = 2^b /\ n < m
    BY <2>1
  <2>3. n \div m = 0
    BY <2>2
  <2>4. QED
    BY <1>1, <2>2, <2>3
<1>3. QED
  BY <1>1, <1>2

\* What a field of six bits holds comes back.
LEMMA SixBitsBack ==
  ASSUME NEW n \in 0 .. 63
  PROVE  I!Bits(n) \in SUBSET (0 .. 5) /\ I!SixBits[I!Bits(n)] = n
<1> DEFINE Bit(m, b) == (m \div 2^b) % 2
<1>1. \A m \in 0 .. 63 : I!Bits(m) \in SUBSET (0 .. 5)
  <2> TAKE m \in 0 .. 63
  <2>1. PICK k \in Nat : k = 6
    OBVIOUS
  <2>2. 2^k = 64
    BY <2>1
  <2>3. m < 2^k
    BY <2>2
  <2>4. \A b \in I!Bits(m) : b \in 0 .. 30 /\ b < k
    <3>1. m \in Nat
      OBVIOUS
    <3>2. QED
      BY <2>3, <3>1, BitsBelow, Zenon
  <2>5. QED
    BY <2>1, <2>4
<1>2. \A m \in 0 .. 63 :
        m = (m % 2) + 2 * ((m \div 2) % 2) + 4 * ((m \div 4) % 2) + 8 * ((m \div 8) % 2)
              + 16 * ((m \div 16) % 2) + 32 * ((m \div 32) % 2)
  OBVIOUS
<1>3. \A m \in 0 .. 63 : \A c \in {0, 1} :
        /\ Bit(m, 0) = m % 2 /\ Bit(m, 1) = (m \div 2) % 2 /\ Bit(m, 2) = (m \div 4) % 2
        /\ Bit(m, 3) = (m \div 8) % 2 /\ Bit(m, 4) = (m \div 16) % 2
        /\ Bit(m, 5) = (m \div 32) % 2
  OBVIOUS
<1>4. \A m \in 0 .. 63 : \A b \in 0 .. 5 : Bit(m, b) \in {0, 1} /\ (b \in I!Bits(m) <=> Bit(m, b) = 1)
  <2> TAKE m \in 0 .. 63
  <2>1. \A b \in 0 .. 5 : b \in I!Bits(m) <=> Bit(m, b) = 1
    BY DEF I!Bits
  <2>2. \A b \in 0 .. 5 : b = 0 \/ b = 1 \/ b = 2 \/ b = 3 \/ b = 4 \/ b = 5
    OBVIOUS
  <2>3. \A b \in 0 .. 5 : Bit(m, b) \in {0, 1}
    BY <1>3, <2>2
  <2>4. QED
    BY <2>1, <2>3
<1> HIDE DEF Bit
<1>5. ASSUME NEW m \in 0 .. 63, I!Bits(m) = I!Bits(n)
      PROVE  m = n
  <2>1. \A b \in 0 .. 5 : Bit(m, b) = Bit(n, b)
    BY <1>4, <1>5
  <2>2. QED
    BY <1>2, <1>3, <2>1
<1>6. I!SixBits[I!Bits(n)] = CHOOSE m \in 0 .. 63 : I!Bits(m) = I!Bits(n)
  BY <1>1 DEF I!SixBits
<1>7. QED
  BY <1>1, <1>5, <1>6

LEMMA FourBits ==
  ASSUME NEW n \in 0 .. 15
  PROVE  I!Low(I!Bits(n), 4) = I!Bits(n) /\ \A b \in I!Bits(n) : b \in 0 .. 31 /\ b < 4
<1>1. PICK k \in Nat : k = 4
  OBVIOUS
<1>2. n \in Nat /\ n < 2^k
  BY <1>1
<1>3. \A b \in I!Bits(n) : b \in 0 .. 30 /\ b < k
  BY <1>2, BitsBelow, Zenon
<1>4. QED
  BY <1>1, <1>3 DEF I!Low

\* Where the bits of a word are, and what can be shifted without loss.
Within(bits, low, top) == \A b \in bits : b \in 0 .. 31 /\ b >= low /\ b < top
Fits(field, k, top) == \A b \in field : b \in 0 .. 31 /\ b + k < top

\* A field in its place, and back, whatever lies below it.
LEMMA ShlWithin ==
  ASSUME NEW k \in Nat, NEW top \in Nat, top <= 32, NEW field, Fits(field, k, top)
  PROVE  Within(I!Shl(field, k), k, top)
BY DEF I!Shl, Fits, Within

LEMMA ShrBack ==
  ASSUME NEW k \in Nat, NEW top \in Nat, top <= 32, NEW field, Fits(field, k, top),
         NEW below, Within(below, 0, k)
  PROVE  I!Shr(I!Shl(field, k) \cup below, k) = field
<1>1. I!Shl(field, k) = {b + k : b \in field}
  BY DEF I!Shl, Fits
<1>2. {c \in I!Shl(field, k) \cup below : c >= k} = I!Shl(field, k)
  BY ShlWithin DEF Within
<1>3. I!Shr(I!Shl(field, k) \cup below, k) = {c - k : c \in I!Shl(field, k)}
  BY <1>2 DEF I!Shr
<1>4. \A b \in field : (b + k) - k = b
  BY DEF Fits
<1>5. {c - k : c \in {b + k : b \in field}} = field
  BY <1>4
<1>6. QED
  BY <1>1, <1>3, <1>5

\* A mask takes what is below, and nothing of what is above.
LEMMA LowTakes ==
  ASSUME NEW top \in Nat, NEW above, Within(above, top, 32), NEW below, Within(below, 0, top)
  PROVE  I!Low(above \cup below, top) = below
BY DEF I!Low, Within

\* Two fields and what lies below them.
Filled(upper, place, lower, low, rest) == I!Shl(upper, place) \cup I!Shl(lower, low) \cup rest

LEMMA FieldsRead ==
  ASSUME NEW low \in Nat, NEW place \in Nat, low <= place, place <= 32,
         NEW upper, Fits(upper, place, 32), NEW lower, Fits(lower, low, place),
         NEW rest, Within(rest, 0, low)
  PROVE  LET word1 == Filled(upper, place, lower, low, rest)
         IN  /\ I!Shr(word1, place) = upper
             /\ I!Shr(I!Low(word1, place), low) = lower
             /\ \A b \in Nat : b < low => (b \in word1 <=> b \in rest)
<1> DEFINE high == I!Shl(upper, place)
           mid == I!Shl(lower, low)
<1>1. Within(high, place, 32) /\ Within(mid, low, place)
  BY ShlWithin
<1>2. Within(mid \cup rest, 0, place)
  BY <1>1 DEF Within
<1>3. I!Shr(high \cup (mid \cup rest), place) = upper
  BY <1>2, ShrBack
<1>4. I!Shr(mid \cup rest, low) = lower
  BY ShrBack
<1>5. I!Low(high \cup (mid \cup rest), place) = mid \cup rest
  BY <1>1, <1>2, LowTakes
<1> HIDE DEF high, mid
<1>6. \A b \in Nat : b < low => (b \in high \cup (mid \cup rest) <=> b \in rest)
  BY <1>1 DEF Within
<1>7. Filled(upper, place, lower, low, rest) = high \cup (mid \cup rest)
  BY DEF high, mid, Filled
<1>8. QED
  BY <1>3, <1>4, <1>5, <1>6, <1>7
-----------------------------------------------------------------------------
\* Each descriptor says what it was made from.
LEMMA HandlesRead ==
  ASSUME NEW n \in 1 .. 64
  PROVE  /\ I!Read(I!SharedHandles(n)) = I!Item("shared", n, {})
         /\ I!Read(I!MoveHandles(n)) = I!Item("move", n, {})
<1> DEFINE field == I!Bits(n - 1)
           high == I!Shl(field, 26)
<1>1. Fits(field, 26, 32) /\ I!SixBits[field] + 1 = n
  <2>1. n - 1 \in 0 .. 63
    OBVIOUS
  <2>2. I!SixBits[field] = n - 1 /\ field \in SUBSET (0 .. 5)
    BY <2>1, SixBitsBack
  <2>3. QED
    BY <2>1, <2>2 DEF Fits
<1> HIDE DEF field
<1>2. Within(high, 26, 32)
  BY <1>1, ShlWithin
<1>3. ASSUME NEW below, Within(below, 0, 26)
      PROVE  I!Shr(high \cup below, 26) = field
  BY <1>1, <1>3, ShrBack
<1>4. I!SharedHandles(n) = high /\ I!MoveHandles(n) = high \cup {4}
  BY DEF I!SharedHandles, I!MoveHandles, field
<1> HIDE DEF high
<1>5. Within({}, 0, 26) /\ Within({4}, 0, 26) /\ high \cup {} = high
  BY DEF Within
<1>6. I!Shr(high, 26) = field /\ I!Shr(high \cup {4}, 26) = field
  BY <1>3, <1>5
<1>7. /\ 3 \notin high /\ 2 \notin high /\ 1 \notin high /\ 5 \notin high /\ 4 \notin high
  BY <1>2 DEF Within
<1>8. QED
  BY <1>1, <1>4, <1>6, <1>7 DEF I!Read

LEMMA ProcessRead == I!Read(I!CurProcessId) = I!Item("pid", {}, {})
BY DEF I!Read, I!CurProcessId

LEMMA StaticRead ==
  ASSUME NEW size \in 0 .. 2^18 - 1, NEW id \in 0 .. 15
  PROVE  I!Read(I!StaticBuffer(size, id)) = I!Item("static", I!Bits(size), I!Bits(id))
<1> DEFINE whole == Filled(I!Bits(size), 14, I!Bits(id), 10, {1})
<1>1. Fits(I!Bits(size), 14, 32)
  <2>1. PICK width \in Nat : width = 18
    OBVIOUS
  <2>2. size \in Nat /\ size < 2^width
    BY <2>1
  <2>3. \A b \in I!Bits(size) : b \in 0 .. 30 /\ b < width
    BY <2>2, BitsBelow, Zenon
  <2>4. QED
    BY <2>1, <2>3 DEF Fits
<1>2. I!Low(I!Bits(id), 4) = I!Bits(id) /\ Fits(I!Bits(id), 10, 14)
  BY FourBits DEF Fits
<1>3. Within({1}, 0, 10)
  BY DEF Within
<1>4. /\ I!Shr(whole, 14) = I!Bits(size) /\ I!Shr(I!Low(whole, 14), 10) = I!Bits(id)
      /\ \A b \in Nat : b < 10 => (b \in whole <=> b \in {1})
  BY <1>1, <1>2, <1>3, FieldsRead
<1>5. I!StaticBuffer(size, id) = whole
  BY <1>2 DEF I!StaticBuffer, Filled
<1> HIDE DEF whole
<1>6. 1 \in whole /\ 2 \notin whole /\ 3 \notin whole
  BY <1>4
<1>7. QED
  BY <1>4, <1>5, <1>6 DEF I!Read

LEMMA PXIRead ==
  ASSUME NEW size \in 0 .. 2^24 - 1, NEW id \in 0 .. 15
  PROVE  /\ I!Read(I!PXIBuffer(size, id)) = I!Item("pxi", I!Bits(size), I!Bits(id))
         /\ I!Read(I!PXIBufferReadOnly(size, id)) = I!Item("pxi_ro", I!Bits(size), I!Bits(id))
<1> DEFINE whole(kind) == Filled(I!Bits(size), 8, I!Bits(id), 4, kind)
<1>1. Fits(I!Bits(size), 8, 32)
  <2>1. PICK width \in Nat : width = 24
    OBVIOUS
  <2>2. size \in Nat /\ size < 2^width
    BY <2>1
  <2>3. \A b \in I!Bits(size) : b \in 0 .. 30 /\ b < width
    BY <2>2, BitsBelow, Zenon
  <2>4. QED
    BY <2>1, <2>3 DEF Fits
<1>2. I!Low(I!Bits(id), 4) = I!Bits(id) /\ Fits(I!Bits(id), 4, 8)
  BY FourBits DEF Fits
<1>3. Within({2}, 0, 4) /\ Within({1, 2}, 0, 4)
  BY DEF Within
<1>4. ASSUME NEW kind, Within(kind, 0, 4)
      PROVE  /\ I!Shr(whole(kind), 8) = I!Bits(size)
             /\ I!Shr(I!Low(whole(kind), 8), 4) = I!Bits(id)
             /\ \A b \in Nat : b < 4 => (b \in whole(kind) <=> b \in kind)
  BY <1>1, <1>2, <1>4, FieldsRead
<1>5. I!PXIBuffer(size, id) = whole({2})
  BY <1>2 DEF I!PXIBuffer, Filled
<1>6. I!PXIBufferReadOnly(size, id) = whole({1, 2})
  BY <1>5 DEF I!PXIBufferReadOnly, Filled
<1> HIDE DEF whole
<1>7. /\ 3 \notin whole({2}) /\ 2 \in whole({2}) /\ 1 \notin whole({2})
      /\ 3 \notin whole({1, 2}) /\ 2 \in whole({1, 2}) /\ 1 \in whole({1, 2})
  BY <1>3, <1>4
<1>8. QED
  BY <1>3, <1>4, <1>5, <1>6, <1>7 DEF I!Read

LEMMA RightsAre ==
  /\ I!Bits(0) = {} /\ I!Bits(2) = {1} /\ I!Bits(4) = {2} /\ I!Bits(6) = {1, 2}
<1>1. ASSUME NEW n \in {0, 2, 4, 6}
      PROVE  I!Bits(n) = {b \in {0, 1, 2} : IF b = 0 THEN n % 2 = 1 ELSE IF b = 1 THEN (n \div 2) % 2 = 1
                                           ELSE (n \div 4) % 2 = 1}
  <2>1. PICK k \in Nat : k = 3
    OBVIOUS
  <2>2. n \in Nat /\ n < 2^k
    BY <2>1
  <2>3. \A b \in I!Bits(n) : b \in 0 .. 30 /\ b < k
    BY <2>2, BitsBelow, Zenon
  <2>4. \A b \in {0, 1, 2} : b \in I!Bits(n) <=> (n \div 2^b) % 2 = 1
    BY DEF I!Bits
  <2>5. (n \div 2^0) % 2 = n % 2 /\ (n \div 2^1) % 2 = (n \div 2) % 2 /\ (n \div 2^2) % 2 = (n \div 4) % 2
    OBVIOUS
  <2>6. QED
    BY <2>1, <2>3, <2>4, <2>5
<1>2. QED
  BY <1>1

LEMMA BufferRead ==
  ASSUME NEW size \in 0 .. 2^28 - 1, NEW rights \in {2, 4, 6}
  PROVE  I!Read(I!Buffer(size, rights)) = I!Item("buffer", I!Bits(size), I!Bits(rights))
<1> DEFINE high == I!Shl(I!Bits(size), 4)
           kind == {3} \cup I!Bits(rights)
<1>1. I!Bits(rights) \in SUBSET {1, 2}
  BY RightsAre
<1>2. Fits(I!Bits(size), 4, 32)
  <2>1. PICK width \in Nat : width = 28
    OBVIOUS
  <2>2. size \in Nat /\ size < 2^width
    BY <2>1
  <2>3. \A b \in I!Bits(size) : b \in 0 .. 30 /\ b < width
    BY <2>2, BitsBelow, Zenon
  <2>4. QED
    BY <2>1, <2>3 DEF Fits
<1>3. Within(kind, 0, 4)
  BY <1>1 DEF Within
<1>4. I!Shr(high \cup kind, 4) = I!Bits(size)
  BY <1>2, <1>3, ShrBack
<1>5. Within(high, 4, 32)
  BY <1>2, ShlWithin
<1>6. I!Buffer(size, rights) = high \cup kind
  BY DEF I!Buffer
<1> HIDE DEF high
<1>7. 3 \in high \cup kind /\ (high \cup kind) \cap {1, 2} = I!Bits(rights)
  BY <1>1, <1>5 DEF Within
<1>8. QED
  BY <1>4, <1>6, <1>7 DEF I!Read

\* Every descriptor a program can make in the documented ranges is read for what
\* it was made from, and is followed by as many words as the kernel expects.
LEMMA DescriptorRead ==
  ASSUME NEW i \in Items
  PROVE  /\ I!Read(I!Descriptor(i)) = I!AsRead(i)
         /\ I!Length(I!AsRead(i)) = I!Length(i) /\ I!Length(i) \in Nat \ {0, 1}
<1>1. CASE i \in [kind : {"shared", "move"}, number : HandleNumbers, arg : {0}]
  <2>1. i.number \in 1 .. 64 /\ i.arg = 0 /\ (i.kind = "shared" \/ i.kind = "move")
    BY <1>1, RequestAssumption DEF RequestAssumption
  <2>2. /\ i.kind = "shared" => I!Descriptor(i) = I!SharedHandles(i.number)
        /\ i.kind = "move" => I!Descriptor(i) = I!MoveHandles(i.number)
    BY DEF I!Descriptor
  <2>3. I!AsRead(i) = I!Item(i.kind, i.number, {})
    BY <2>1, RightsAre DEF I!AsRead
  <2>4. I!Read(I!Descriptor(i)) = I!AsRead(i)
    BY <2>1, <2>2, <2>3, HandlesRead
  <2>5. QED
    BY <2>1, <2>3, <2>4 DEF I!Length, I!Item
<1>2. CASE i \in [kind : {"pid"}, number : {0}, arg : {0}]
  <2>1. i.kind = "pid" /\ I!Descriptor(i) = I!CurProcessId /\ I!AsRead(i) = I!Item("pid", {}, {})
    BY <1>2, RightsAre DEF I!Descriptor, I!AsRead
  <2>2. QED
    BY <2>1, ProcessRead DEF I!Length, I!Item
<1>3. CASE i \in [kind : {"static"}, number : StaticSizes, arg : BufferIds]
  <2>1. i.kind = "static" /\ i.number \in 0 .. 2^18 - 1 /\ i.arg \in 0 .. 15
    BY <1>3, RequestAssumption DEF RequestAssumption
  <2>2. /\ I!Descriptor(i) = I!StaticBuffer(i.number, i.arg)
        /\ I!AsRead(i) = I!Item("static", I!Bits(i.number), I!Bits(i.arg))
    BY <2>1 DEF I!Descriptor, I!AsRead
  <2>3. I!Read(I!Descriptor(i)) = I!AsRead(i)
    BY <2>1, <2>2, StaticRead
  <2>4. QED
    BY <2>1, <2>2, <2>3 DEF I!Length, I!Item
<1>4. CASE i \in [kind : {"pxi", "pxi_ro"}, number : PXISizes, arg : BufferIds]
  <2>1. /\ i.kind = "pxi" \/ i.kind = "pxi_ro"
        /\ i.number \in 0 .. 2^24 - 1 /\ i.arg \in 0 .. 15
    BY <1>4, RequestAssumption DEF RequestAssumption
  <2>2. /\ i.kind = "pxi" => I!Descriptor(i) = I!PXIBuffer(i.number, i.arg)
        /\ i.kind = "pxi_ro" => I!Descriptor(i) = I!PXIBufferReadOnly(i.number, i.arg)
        /\ I!AsRead(i) = I!Item(i.kind, I!Bits(i.number), I!Bits(i.arg))
    BY <2>1 DEF I!Descriptor, I!AsRead
  <2>3. I!Read(I!Descriptor(i)) = I!AsRead(i)
    BY <2>1, <2>2, PXIRead
  <2>4. QED
    BY <2>1, <2>2, <2>3 DEF I!Length, I!Item
<1>5. CASE i \in [kind : {"buffer"}, number : BufferSizes, arg : {2, 4, 6}]
  <2>1. i.kind = "buffer" /\ i.number \in 0 .. 2^28 - 1 /\ i.arg \in {2, 4, 6}
    BY <1>5, RequestAssumption DEF RequestAssumption
  <2>2. /\ I!Descriptor(i) = I!Buffer(i.number, i.arg)
        /\ I!AsRead(i) = I!Item("buffer", I!Bits(i.number), I!Bits(i.arg))
    BY <2>1 DEF I!Descriptor, I!AsRead
  <2>3. I!Read(I!Descriptor(i)) = I!AsRead(i)
    BY <2>1, <2>2, BufferRead
  <2>4. QED
    BY <2>1, <2>2, <2>3 DEF I!Length, I!Item
<1>6. QED
  BY <1>1, <1>2, <1>3, <1>4, <1>5 DEF Items

\* The header, of the C functions.
LEMMA HeaderRead ==
  ASSUME Binding = "C", NEW id \in 0 .. 2^16 - 1, NEW n \in 0 .. 63, NEW t \in 0 .. 63
  PROVE  /\ I!Shr(I!MakeHeader(id, n, t), 16) = I!Bits(id)
         /\ I!NormalWords(I!MakeHeader(id, n, t)) = n
         /\ I!TranslateWords(I!MakeHeader(id, n, t)) = t
<1> DEFINE high == I!Shl(I!Bits(id), 16)
           mid == I!Shl(I!Bits(n), 6)
           low == I!Shl(I!Bits(t), 0)
<1>1. I!Low(I!Bits(id), 16) = I!Bits(id) /\ Fits(I!Bits(id), 16, 32)
  <2>1. PICK width \in Nat : width = 16
    OBVIOUS
  <2>2. id \in Nat /\ id < 2^width
    BY <2>1
  <2>3. \A b \in I!Bits(id) : b \in 0 .. 30 /\ b < width
    BY <2>2, BitsBelow, Zenon
  <2>4. QED
    BY <2>1, <2>3 DEF Fits, I!Low
<1>2. \A m \in 0 .. 63 : /\ I!Low(I!Bits(m), 6) = I!Bits(m) /\ I!SixBits[I!Bits(m)] = m
                         /\ Fits(I!Bits(m), 6, 12) /\ Fits(I!Bits(m), 0, 6)
  BY SixBitsBack DEF Fits, I!Low
<1>3. Within(high, 16, 32) /\ Within(mid, 6, 12) /\ Within(low, 0, 6)
  BY <1>1, <1>2, ShlWithin
<1>4. I!MakeHeader(id, n, t) = high \cup mid \cup low
  BY <1>1, <1>2 DEF I!MakeHeader
<1>5. low = I!Bits(t)
  <2>1. \A b \in I!Bits(t) : b + 0 = b /\ b \in 0 .. 31
    BY <1>2 DEF Fits
  <2>2. QED
    BY <2>1 DEF I!Shl
<1>6. Within(mid \cup low, 0, 16) /\ Within(mid \cup low, 0, 12) /\ Within(high, 12, 32)
      /\ Within(high \cup mid, 6, 32)
  BY <1>3 DEF Within
<1>7. I!Shr(high \cup (mid \cup low), 16) = I!Bits(id)
  BY <1>1, <1>6, ShrBack
<1>8. I!Low(high \cup (mid \cup low), 12) = mid \cup low
  BY <1>6, LowTakes
<1>9. I!Shr(mid \cup low, 6) = I!Bits(n)
  <2>1. Fits(I!Bits(n), 6, 12)
    BY <1>2
  <2>2. QED
    BY <1>3, <2>1, ShrBack
<1>10. I!Low((high \cup mid) \cup low, 6) = low
  BY <1>3, <1>6, LowTakes
<1>11. (high \cup mid) \cup low = high \cup mid \cup low /\ high \cup (mid \cup low) = high \cup mid \cup low
  OBVIOUS
<1> HIDE DEF high, mid, low
<1>12. QED
  BY <1>2, <1>4, <1>5, <1>7, <1>8, <1>9, <1>10, <1>11 DEF I!NormalWords, I!TranslateWords
-----------------------------------------------------------------------------
\* The words of a request are those of its parameters, one after the other.
\* Where each of them has its descriptor would take a recursion to say; here
\* there are places at such distances, and the steps of the program and of the
\* kernel go from one to the next.
Placed(places) ==
  /\ places \in [1 .. Len(items) + 1 -> Nat]
  /\ places[1] = 2 + normal /\ places[Len(items) + 1] = Len(cmd) + 1
  /\ \A k \in 1 .. Len(items) :
       /\ places[k] \in 2 .. Len(cmd) /\ cmd[places[k]] = I!Descriptor(items[k])
       /\ places[k + 1] = places[k] + I!Length(items[k])

\* The kernel has been through some of them, from the first.
Walked(places) ==
  \/ cursor = 0 /\ Len(found) = 0
  \/ /\ cursor = places[Len(found) + 1] /\ Len(found) <= Len(items)
     /\ \A k \in 1 .. Len(found) : found[k] = I!AsRead(items[k])
     /\ cmd[1] = I!MakeHeader(command, normal, I!TranslatedWords)

RequestInv ==
  /\ command \in 0 .. 2^16 - 1 /\ normal \in 0 .. 63
  /\ items \in Seq(Items) /\ found \in Seq({I!AsRead(i) : i \in Items})
  /\ cmd \in Seq(SUBSET Int) /\ Len(cmd) \in Nat \ {0} /\ I!TranslatedWords \in 0 .. 63
  /\ \E places : Placed(places) /\ Walked(places)

LEMMA DescriptorBits ==
  ASSUME NEW i \in Items
  PROVE  I!Descriptor(i) \in SUBSET Int
BY DEF Items, I!Descriptor, I!SharedHandles, I!MoveHandles, I!CurProcessId, I!StaticBuffer,
       I!PXIBuffer, I!PXIBufferReadOnly, I!Buffer, I!Shl, I!Bits

LEMMA BlankWords ==
  ASSUME NEW n \in 0 .. 63
  PROVE  I!Blank(n) \in Seq(SUBSET Int) /\ Len(I!Blank(n)) = n + 1
<1> DEFINE rest == [k \in 1 .. n |-> I!Payload]
<1>1. rest \in Seq(SUBSET Int) /\ Len(rest) = n
  BY DEF I!Payload
<1> HIDE DEF rest
<1>2. <<{}>> \in Seq(SUBSET Int) /\ Len(<<{}>>) = 1
  OBVIOUS
<1>3. <<{}>> \o rest \in Seq(SUBSET Int) /\ Len(<<{}>> \o rest) = n + 1
  BY <1>1, <1>2
<1>4. I!Blank(n) = <<{}>> \o rest
  BY DEF I!Blank, rest
<1>5. QED
  BY <1>3, <1>4

\* A request without parameters.
LEMMA StartsRequest == I!Init => RequestInv
<1> SUFFICES ASSUME I!Init
             PROVE  RequestInv
  OBVIOUS
<1>1. command \in 0 .. 2^16 - 1 /\ normal \in 0 .. 63
  BY RequestAssumption DEF RequestAssumption, I!Init
<1>2. cmd \in Seq(SUBSET Int) /\ Len(cmd) = normal + 1
  BY <1>1, BlankWords DEF I!Init
<1>3. I!TranslatedWords = 0
  BY <1>1, <1>2 DEF I!TranslatedWords
<1>4. Placed([k \in {1} |-> 2 + normal]) /\ Walked([k \in {1} |-> 2 + normal])
  BY <1>1, <1>2 DEF Placed, Walked, I!Init
<1>5. items \in Seq(Items) /\ found \in Seq({I!AsRead(i) : i \in Items})
  BY DEF I!Init
<1>6. QED
  BY <1>1, <1>2, <1>3, <1>4, <1>5 DEF RequestInv

LEMMA ReturnKeeps == I!Return => RequestInv'
<1>1. I!Return => I!Init'
  BY DEF I!Return, I!Init
<1>2. QED
  BY <1>1, StartsRequest, PTL

LEMMA Joined ==
  ASSUME NEW Of, NEW a \in Seq(Of), NEW b \in Seq(Of), Len(b) # 0
  PROVE  /\ a \o b \in Seq(Of) /\ Len(a \o b) = Len(a) + Len(b)
         /\ \A k \in 1 .. Len(a) : (a \o b)[k] = a[k]
         /\ (a \o b)[Len(a) + 1] = b[1]
OBVIOUS

\* The kernel is nowhere in the request before it is called.
LEMMA NotYetWalked ==
  ASSUME RequestInv, cursor = 0, NEW places, Placed(places), Walked(places)
  PROVE  Len(found) = 0
<1>1. Len(found) \in Nat /\ Len(items) \in Nat /\ Len(cmd) \in Nat
  BY DEF RequestInv
<1>2. \A k \in 1 .. Len(items) : places[k] # 0
  BY DEF Placed
<1>3. places[Len(items) + 1] # 0
  BY <1>1 DEF Placed
<1>4. QED
  BY <1>1, <1>2, <1>3 DEF Walked

\* A parameter behind the others moves none of them.
LEMMA AddKeeps ==
  ASSUME RequestInv, NEW i \in Items, I!Add(i)
  PROVE  RequestInv'
<1>1. PICK places : Placed(places) /\ Walked(places)
  BY DEF RequestInv
<1> DEFINE n == Len(items)
           more == I!Translated(i)
<1>2. /\ items \in Seq(Items) /\ n \in Nat /\ cmd \in Seq(SUBSET Int) /\ Len(cmd) \in Nat \ {0}
      /\ normal \in 0 .. 63 /\ I!TranslatedWords \in 0 .. 63
  BY DEF RequestInv
<1>3. I!Length(i) \in Nat \ {0, 1}
  BY DescriptorRead
<1>4. more \in Seq(SUBSET Int) /\ Len(more) = I!Length(i) /\ more[1] = I!Descriptor(i)
  <2> DEFINE rest == [k \in 1 .. I!Length(i) - 1 |-> I!Payload]
             first == <<I!Descriptor(i)>>
  <2>1. rest \in Seq(SUBSET Int) /\ Len(rest) = I!Length(i) - 1
    BY <1>3 DEF I!Payload
  <2>2. first \in Seq(SUBSET Int) /\ Len(first) = 1 /\ first[1] = I!Descriptor(i)
    BY DescriptorBits
  <2> HIDE DEF rest, first
  <2>3. first \o rest \in Seq(SUBSET Int) /\ Len(first \o rest) = I!Length(i)
        /\ (first \o rest)[1] = I!Descriptor(i)
    <3>1. Len(rest) # 0
      BY <1>3, <2>1
    <3>2. /\ first \o rest \in Seq(SUBSET Int) /\ Len(first \o rest) = Len(first) + Len(rest)
          /\ \A k \in 1 .. Len(first) : (first \o rest)[k] = first[k]
          /\ (first \o rest)[Len(first) + 1] = rest[1]
      BY <2>1, <2>2, <3>1, Joined, Zenon
    <3>3. QED
      BY <1>3, <2>1, <2>2, <3>2
  <2>4. more = first \o rest
    BY DEF I!Translated, first, rest
  <2>5. QED
    BY <2>3, <2>4
<1> HIDE DEF more
<1>5. /\ items' = Append(items, i) /\ cmd' = cmd \o more /\ cursor = 0 /\ cursor' = 0
      /\ found' = found /\ normal' = normal /\ command' = command
      /\ I!TranslatedWords + I!Length(i) <= 63
  BY DEF I!Add, more, I!MaxWords
<1>6. /\ items' \in Seq(Items) /\ Len(items') = n + 1
      /\ \A k \in 1 .. n : items'[k] = items[k]
      /\ items'[n + 1] = i
  BY <1>2, <1>5
<1>7. /\ cmd' \in Seq(SUBSET Int) /\ Len(cmd') = Len(cmd) + I!Length(i)
      /\ \A k \in 1 .. Len(cmd) : cmd'[k] = cmd[k]
      /\ cmd'[Len(cmd) + 1] = I!Descriptor(i)
  <2>1. Len(more) # 0
    BY <1>3, <1>4
  <2>2. /\ cmd \o more \in Seq(SUBSET Int) /\ Len(cmd \o more) = Len(cmd) + Len(more)
        /\ \A k \in 1 .. Len(cmd) : (cmd \o more)[k] = cmd[k]
        /\ (cmd \o more)[Len(cmd) + 1] = more[1]
    BY <1>2, <1>4, <2>1, Joined, Zenon
  <2>3. QED
    BY <1>4, <1>5, <2>2, Zenon
<1>8. I!TranslatedWords' \in 0 .. 63
  <2>1. Len(cmd') = Len(cmd) + I!Length(i) /\ Len(cmd) \in Nat
    BY <1>2, <1>7
  <2>2. normal' = normal /\ normal \in Nat
    BY <1>2, <1>5
  <2>3. I!TranslatedWords' = I!TranslatedWords + I!Length(i)
    BY <1>3, <2>1, <2>2 DEF I!TranslatedWords
  <2>4. I!TranslatedWords \in 0 .. 63 /\ I!TranslatedWords + I!Length(i) <= 63
    BY <1>2, <1>5
  <2>5. QED
    BY <1>3, <2>3, <2>4
<1> PICK new : new = [k \in 1 .. n + 2 |->
                        IF k <= n + 1 THEN places[k] ELSE Len(cmd) + 1 + I!Length(i)]
  OBVIOUS
<1>9. Placed(new)'
  <2>1. /\ places \in [1 .. n + 1 -> Nat]
        /\ places[1] = 2 + normal /\ places[n + 1] = Len(cmd) + 1
        /\ \A k \in 1 .. n :
             /\ places[k] \in 2 .. Len(cmd) /\ cmd[places[k]] = I!Descriptor(items[k])
             /\ places[k + 1] = places[k] + I!Length(items[k])
    BY <1>1 DEF Placed
  <2>2. /\ new \in [1 .. n + 2 -> Nat] /\ new[n + 2] = Len(cmd) + 1 + I!Length(i)
        /\ \A k \in 1 .. n + 1 : new[k] = places[k]
    BY <1>2, <1>3, <2>1
  <2> HIDE DEF n
  <2>3. ASSUME NEW k \in 1 .. n + 1
        PROVE  /\ new[k] \in 2 .. Len(cmd') /\ cmd'[new[k]] = I!Descriptor(items'[k])
               /\ new[k + 1] = new[k] + I!Length(items'[k])
    <3>1. CASE k \in 1 .. n
      <4>1. /\ new[k] = places[k] /\ new[k + 1] = places[k + 1] /\ items'[k] = items[k]
            /\ cmd'[places[k]] = cmd[places[k]]
        <5>1. new[k] = places[k] /\ new[k + 1] = places[k + 1]
          BY <1>2, <2>2, <3>1
        <5>2. places[k] \in 1 .. Len(cmd)
          BY <1>2, <2>1, <3>1
        <5>3. QED
          BY <1>6, <1>7, <3>1, <5>1, <5>2
      <4>2. places[k] \in 2 .. Len(cmd')
        <5>1. Len(cmd') = Len(cmd) + I!Length(i) /\ Len(cmd) \in Nat
          BY <1>2, <1>7
        <5>2. places[k] \in 2 .. Len(cmd)
          BY <2>1, <3>1
        <5>3. QED
          BY <1>3, <5>1, <5>2
      <4>3. QED
        BY <2>1, <3>1, <4>1, <4>2
    <3>2. CASE k = n + 1
      <4>1. /\ new[k] = Len(cmd) + 1 /\ new[k + 1] = Len(cmd) + 1 + I!Length(i) /\ items'[k] = i
        BY <1>2, <1>6, <2>1, <2>2, <3>2
      <4>2. Len(cmd) + 1 \in 2 .. Len(cmd')
        BY <1>2, <1>3, <1>7
      <4>3. QED
        BY <1>7, <4>1, <4>2
    <3>3. QED
      BY <1>2, <3>1, <3>2
  <2>4. new \in [1 .. Len(items') + 1 -> Nat] /\ new[Len(items') + 1] = Len(cmd') + 1
        /\ new[1] = 2 + normal'
    <3>1. Len(items') + 1 = n + 2 /\ Len(cmd) + 1 + I!Length(i) = Len(cmd') + 1
      BY <1>2, <1>3, <1>6, <1>7
    <3>2. new[1] = places[1]
      BY <1>2, <2>2
    <3>3. QED
      BY <1>5, <2>1, <2>2, <3>1, <3>2
  <2>5. \A k \in 1 .. Len(items') :
          /\ new[k] \in 2 .. Len(cmd') /\ cmd'[new[k]] = I!Descriptor(items'[k])
          /\ new[k + 1] = new[k] + I!Length(items'[k])
    BY <1>6, <2>3, Zenon
  <2>6. QED
    BY <2>4, <2>5 DEF Placed
<1>10. Walked(new)'
  <2>1. Len(found) = 0
    BY <1>1, <1>5, NotYetWalked
  <2>2. QED
    BY <1>5, <2>1 DEF Walked
<1>11. (\E p : Placed(p) /\ Walked(p))'
  BY <1>9, <1>10, Zenon
<1>12. QED
  BY <1>5, <1>6, <1>7, <1>8, <1>11 DEF RequestInv

\* The header says how many words there are, and is in front of all places.
LEMMA SendKeeps ==
  ASSUME Binding = "C", RequestInv, I!Send
  PROVE  RequestInv'
<1>1. PICK places : Placed(places) /\ Walked(places)
  BY DEF RequestInv
<1> DEFINE header == I!MakeHeader(command, normal, I!TranslatedWords)
<1>2. /\ command \in 0 .. 2^16 - 1 /\ normal \in 0 .. 63 /\ I!TranslatedWords \in 0 .. 63
      /\ cmd \in Seq(SUBSET Int) /\ Len(cmd) \in Nat \ {0} /\ Len(items) \in Nat
  BY DEF RequestInv
<1>3. I!NormalWords(header) = normal
  BY <1>2, HeaderRead
<1>4. header \in SUBSET Int
  BY DEF I!MakeHeader, I!Shl
<1> HIDE DEF header
<1>5. /\ cmd' = [cmd EXCEPT ![1] = header] /\ cursor = 0 /\ cursor' = 2 + I!NormalWords(cmd'[1])
      /\ UNCHANGED <<command, normal, items, found>>
  BY DEF I!Send, header
<1>6. /\ cmd' \in Seq(SUBSET Int) /\ Len(cmd') = Len(cmd) /\ cmd'[1] = header
      /\ \A k \in 2 .. Len(cmd) : cmd'[k] = cmd[k]
  BY <1>2, <1>4, <1>5
<1>7. I!TranslatedWords' = I!TranslatedWords
  BY <1>5, <1>6 DEF I!TranslatedWords
<1>8. Placed(places)'
  BY <1>1, <1>5, <1>6 DEF Placed
<1>9. Walked(places)'
  <2>1. Len(found) = 0
    BY <1>1, <1>5, NotYetWalked
  <2>2. cursor' = places[1]
    BY <1>1, <1>3, <1>5, <1>6 DEF Placed
  <2>3. cmd'[1] = I!MakeHeader(command', normal', I!TranslatedWords')
    BY <1>5, <1>6, <1>7 DEF header
  <2>4. QED
    BY <1>2, <1>5, <2>1, <2>2, <2>3 DEF Walked
<1>10. (\E p : Placed(p) /\ Walked(p))'
  BY <1>8, <1>9, Zenon
<1>11. QED
  BY <1>2, <1>5, <1>6, <1>7, <1>10 DEF RequestInv

\* With the header in its place, the last word is the last of the request.
LEMMA LastIs ==
  ASSUME Binding = "C", RequestInv, cmd[1] = I!MakeHeader(command, normal, I!TranslatedWords)
  PROVE  /\ I!Shr(cmd[1], 16) = I!Bits(command) /\ I!NormalWords(cmd[1]) = normal
         /\ I!LastWord = Len(cmd)
<1>1. /\ command \in 0 .. 2^16 - 1 /\ normal \in 0 .. 63 /\ I!TranslatedWords \in 0 .. 63
      /\ Len(cmd) \in Nat
  BY DEF RequestInv
<1> DEFINE header == I!MakeHeader(command, normal, I!TranslatedWords)
<1>2. /\ I!Shr(header, 16) = I!Bits(command) /\ I!NormalWords(header) = normal
      /\ I!TranslateWords(header) = I!TranslatedWords
  <2>1. PICK t \in 0 .. 63 : t = I!TranslatedWords
    BY <1>1
  <2>2. QED
    BY <1>1, <2>1, HeaderRead
<1>3. cmd[1] = header
  OBVIOUS
<1> HIDE DEF header
<1>4. /\ I!Shr(cmd[1], 16) = I!Bits(command) /\ I!NormalWords(cmd[1]) = normal
      /\ I!TranslateWords(cmd[1]) = I!TranslatedWords
  BY <1>2, <1>3
<1>5. I!LastWord = 1 + normal + (Len(cmd) - 1 - normal)
  BY <1>4 DEF I!LastWord, I!TranslatedWords
<1>6. QED
  BY <1>1, <1>4, <1>5

\* The kernel is at a descriptor until it has found all parameters.
LEMMA KernelIs ==
  ASSUME Binding = "C", RequestInv, cursor # 0, NEW places, Placed(places), Walked(places)
  PROVE  /\ I!LastWord = Len(cmd) /\ Len(found) \in 0 .. Len(items)
         /\ cursor = places[Len(found) + 1]
         /\ cursor > Len(cmd) <=> Len(found) = Len(items)
<1>1. Len(found) \in Nat /\ Len(items) \in Nat /\ Len(cmd) \in Nat
  BY DEF RequestInv
<1>2. /\ cursor = places[Len(found) + 1] /\ Len(found) \in 0 .. Len(items)
      /\ cmd[1] = I!MakeHeader(command, normal, I!TranslatedWords)
  BY <1>1 DEF Walked
<1>3. I!LastWord = Len(cmd)
  BY <1>2, LastIs
<1>4. CASE Len(found) = Len(items)
  BY <1>1, <1>2, <1>3, <1>4 DEF Placed
<1>5. CASE Len(found) # Len(items)
  <2>1. Len(found) + 1 \in 1 .. Len(items)
    BY <1>1, <1>2, <1>5
  <2>2. places[Len(found) + 1] \in 2 .. Len(cmd)
    BY <2>1 DEF Placed
  <2>3. QED
    BY <1>1, <1>2, <1>3, <1>5, <2>2
<1>6. QED
  BY <1>4, <1>5

LEMMA TranslateKeeps ==
  ASSUME Binding = "C", RequestInv, I!Translate
  PROVE  RequestInv'
<1>1. PICK places : Placed(places) /\ Walked(places)
  BY DEF RequestInv
<1> DEFINE n == Len(found)
<1>2. /\ items \in Seq(Items) /\ Len(items) \in Nat /\ n \in Nat /\ Len(cmd) \in Nat
      /\ found \in Seq({I!AsRead(i) : i \in Items})
  BY DEF RequestInv
<1>3. cursor \in 1 .. I!LastWord
  BY DEF I!Translate
<1>4. cursor # 0
  BY <1>3
<1>5. /\ I!LastWord = Len(cmd) /\ n \in 0 .. Len(items) /\ cursor = places[n + 1]
      /\ cursor > Len(cmd) <=> n = Len(items)
  BY <1>1, <1>4, KernelIs
<1>6. n + 1 \in 1 .. Len(items)
  BY <1>2, <1>3, <1>5
<1> PICK i : i = items[n + 1]
  OBVIOUS
<1>7. i \in Items
  BY <1>2, <1>6
<1>8. cmd[cursor] = I!Descriptor(i) /\ places[(n + 1) + 1] = cursor + I!Length(i)
  BY <1>1, <1>5, <1>6 DEF Placed
<1>9. I!Read(cmd[cursor]) = I!AsRead(i) /\ I!Length(I!AsRead(i)) = I!Length(i)
  BY <1>7, <1>8, DescriptorRead
<1>10. /\ found' = Append(found, I!AsRead(i)) /\ cursor' = cursor + I!Length(i)
       /\ UNCHANGED <<command, normal, items, cmd>>
  BY <1>9 DEF I!Translate
<1>11. /\ found' \in Seq({I!AsRead(j) : j \in Items}) /\ Len(found') = n + 1
       /\ \A k \in 1 .. n : found'[k] = found[k]
       /\ found'[n + 1] = I!AsRead(i)
  BY <1>2, <1>7, <1>10
<1>12. I!TranslatedWords' = I!TranslatedWords
  BY <1>10 DEF I!TranslatedWords
<1>13. Placed(places)'
  BY <1>1, <1>10 DEF Placed
<1>14. Walked(places)'
  <2>1. /\ \A k \in 1 .. n : found[k] = I!AsRead(items[k])
        /\ cmd[1] = I!MakeHeader(command, normal, I!TranslatedWords)
    BY <1>1, <1>4 DEF Walked
  <2>2. cursor' = places[Len(found') + 1] /\ Len(found') <= Len(items)
    BY <1>2, <1>6, <1>8, <1>10, <1>11
  <2>3. \A k \in 1 .. Len(found') : found'[k] = I!AsRead(items[k])
    <3>1. \A k \in 1 .. n + 1 : k \in 1 .. n \/ k = n + 1
      BY <1>2
    <3>2. QED
      BY <1>11, <2>1, <3>1
  <2>4. cmd'[1] = I!MakeHeader(command', normal', I!TranslatedWords')
    BY <1>10, <1>12, <2>1
  <2>5. QED
    BY <1>10, <2>2, <2>3, <2>4 DEF Walked
<1>15. (\E p : Placed(p) /\ Walked(p))'
  BY <1>13, <1>14, Zenon
<1>16. QED
  BY <1>10, <1>11, <1>12, <1>15 DEF RequestInv

RequestIInv == part = "request" => RequestInv

\* Requests: whatever parameters they have in the documented ranges, as many as
\* there is room for, the kernel takes each of them for what the program put
\* there and finds them all, with the functions of ipc.h.
THEOREM RequestsRead ==
  ASSUME Binding = "C"
  PROVE  Spec => []ReadAsBuilt
<1>1. Init => RequestIInv
  BY StartsRequest DEF Init, RequestIInv
<1>2. RequestIInv /\ [Next]_vars => RequestIInv'
  <2> SUFFICES ASSUME RequestIInv, [Next]_vars, part' = "request"
               PROVE  RequestInv'
    BY DEF RequestIInv
  <2>1. part = "request" /\ (I!Next \/ UNCHANGED requestVars)
    BY DEF Next, vars
  <2>2. RequestInv
    BY <2>1 DEF RequestIInv
  <2>3. ASSUME NEW i \in Items, I!Add(i)
        PROVE  RequestInv'
    BY <2>2, <2>3, AddKeeps
  <2>4. CASE I!Send
    BY <2>2, <2>4, SendKeeps
  <2>5. CASE I!Translate
    BY <2>2, <2>5, TranslateKeeps
  <2>6. CASE I!Return
    BY <2>6, ReturnKeeps
  <2>7. CASE UNCHANGED requestVars
    BY <2>2, <2>7 DEF requestVars, RequestInv, Placed, Walked, I!TranslatedWords
  <2>8. QED
    BY <2>1, <2>3, <2>4, <2>5, <2>6, <2>7 DEF I!Next
<1>3. RequestIInv => ReadAsBuilt
  <2> SUFFICES ASSUME RequestInv, cursor # 0
               PROVE  /\ I!Shr(cmd[1], 16) = I!Bits(command) /\ I!NormalWords(cmd[1]) = normal
                      /\ \A k \in DOMAIN found : k \in DOMAIN items /\ found[k] = I!AsRead(items[k])
                      /\ cursor > I!LastWord => Len(found) = Len(items)
    BY DEF RequestIInv, ReadAsBuilt, I!ReadAsBuilt
  <2>1. PICK places : Placed(places) /\ Walked(places)
    BY DEF RequestInv
  <2>2. /\ Len(found) \in 0 .. Len(items)
        /\ cursor > I!LastWord => Len(found) = Len(items)
    BY <2>1, KernelIs
  <2>3. /\ cmd[1] = I!MakeHeader(command, normal, I!TranslatedWords)
        /\ \A k \in 1 .. Len(found) : found[k] = I!AsRead(items[k])
    BY <2>1 DEF Walked
  <2>4. /\ DOMAIN found = 1 .. Len(found) /\ DOMAIN items = 1 .. Len(items)
        /\ Len(items) \in Nat
    BY DEF RequestInv
  <2>5. I!Shr(cmd[1], 16) = I!Bits(command) /\ I!NormalWords(cmd[1]) = normal
    BY <2>3, LastIs
  <2>6. \A k \in 1 .. Len(found) : k \in 1 .. Len(items)
    <3>1. Len(items) \in Nat /\ Len(found) \in 0 .. Len(items)
      BY <2>2, <2>4
    <3>2. \A most \in Nat : \A last \in 0 .. most : \A k \in 1 .. last : k \in 1 .. most
      OBVIOUS
    <3>3. QED
      BY <3>1, <3>2, Zenon
  <2>7. QED
    BY <2>2, <2>3, <2>4, <2>5, <2>6, Zenon
<1>4. QED
  BY <1>1, <1>2, <1>3, PTL DEF Spec
=============================================================================
