-------------------------------- MODULE Ipc ---------------------------------
(***************************************************************************)
(* Requests to a system service (ctru/3ds/ipc.h): a header word, words the *)
(* kernel passes on as they are (normal), and parameters it translates,    *)
(* each a descriptor followed by what it describes.  A program builds a    *)
(* request from the inline functions; the kernel, which is external, finds *)
(* its way through it by the fields of the header and the descriptors.     *)
(* D programs have a translation of the functions by hand, ctru/_3ds/ipc.d *)
(* of ys3ds, which differs in MakeHeader.                                  *)
(***************************************************************************)
EXTENDS Words, Sequences

CONSTANTS Binding,   \* "C" or "D": whose functions the program uses
          Commands,  \* command numbers
          Normals,   \* how many normal words
          Items,     \* the parameters programs send: [kind, number, arg]
          MaxItems   \* bound: parameters of a request

\* normal_params and translate_params: "Up to 63."
MaxWords == 63

VARIABLES command, normal,   \* what the header is to say
          items,             \* the parameters put in so far
          cmd,               \* the words of the request
          cursor,            \* the word the kernel is at; 0: it has not been called
          found              \* the parameters it has found

vars == <<command, normal, items, cmd, cursor, found>>

\* ipc.d shifts both numbers to the place of the first.
MakeHeader(command_id, normal_params, translate_params) ==
  Shl(Low(Bits(command_id), 16), 16)
    \cup Shl(Low(Bits(normal_params), 6), 6)
    \cup Shl(Low(Bits(translate_params), 6), IF Binding = "D" THEN 6 ELSE 0)

\* A faulty variant: the number itself.
SharedHandlesNumber(number) == Shl(Bits(number), 26)

SharedHandles(number) == Shl(Bits(number - 1), 26)
MoveHandles(number) == Shl(Bits(number - 1), 26) \cup {4}
CurProcessId == {5}
StaticBuffer(size, id) == Shl(Bits(size), 14) \cup Shl(Low(Bits(id), 4), 10) \cup {1}
PXIBuffer(size, id) == Shl(Bits(size), 8) \cup Shl(Low(Bits(id), 4), 4) \cup {2}
PXIBufferReadOnly(size, id) == PXIBuffer(size, id) \cup {1}
Buffer(size, rights) == Shl(Bits(size), 4) \cup {3} \cup Bits(rights)

Descriptor(i) ==
  CASE i.kind = "shared" -> SharedHandles(i.number)
    [] i.kind = "move"   -> MoveHandles(i.number)
    [] i.kind = "pid"    -> CurProcessId
    [] i.kind = "static" -> StaticBuffer(i.number, i.arg)
    [] i.kind = "pxi"    -> PXIBuffer(i.number, i.arg)
    [] i.kind = "pxi_ro" -> PXIBufferReadOnly(i.number, i.arg)
    [] i.kind = "buffer" -> Buffer(i.number, i.arg)

\* A descriptor and the words after it: handles, or one address or place.
Length(i) == 1 + (IF i.kind \in {"shared", "move"} THEN i.number ELSE 1)
Payload == {31}
Translated(i) == <<Descriptor(i)>> \o [k \in 1 .. Length(i) - 1 |-> Payload]
-----------------------------------------------------------------------------
\* What the kernel takes a descriptor for; it leaves sizes and ids in bits.
Item(kind, number, arg) == [kind |-> kind, number |-> number, arg |-> arg]

Read(w) ==
  IF 3 \in w THEN Item("buffer", Shr(w, 4), w \cap {1, 2})
  ELSE IF 2 \in w
  THEN Item(IF 1 \in w THEN "pxi_ro" ELSE "pxi", Shr(w, 8), Shr(Low(w, 8), 4))
  ELSE IF 1 \in w THEN Item("static", Shr(w, 14), Shr(Low(w, 14), 10))
  ELSE IF 5 \in w THEN Item("pid", {}, {})
  ELSE Item(IF 4 \in w THEN "move" ELSE "shared", SixBits[Shr(w, 26)] + 1, {})

\* A parameter as the kernel should take it.
AsRead(i) ==
  Item(i.kind, IF i.kind \in {"shared", "move"} THEN i.number ELSE Bits(i.number), Bits(i.arg))

NormalWords(header) == SixBits[Shr(Low(header, 12), 6)]
TranslateWords(header) == SixBits[Low(header, 6)]
LastWord == 1 + NormalWords(cmd[1]) + TranslateWords(cmd[1])
-----------------------------------------------------------------------------
\* The header is written last, when the number of words is known.
Blank(n) == <<{}>> \o [k \in 1 .. n |-> Payload]
TranslatedWords == Len(cmd) - 1 - normal

Init ==
  /\ command \in Commands /\ normal \in Normals
  /\ items = <<>> /\ cmd = Blank(normal)
  /\ cursor = 0 /\ found = <<>>

Add(i) ==
  /\ cursor = 0 /\ Len(items) < MaxItems
  /\ TranslatedWords + Length(i) <= MaxWords
  /\ items' = Append(items, i)
  /\ cmd' = cmd \o Translated(i)
  /\ UNCHANGED <<command, normal, cursor, found>>

Send ==
  /\ cursor = 0
  /\ cmd' = [cmd EXCEPT ![1] = MakeHeader(command, normal, TranslatedWords)]
  /\ cursor' = 2 + NormalWords(cmd'[1])
  /\ UNCHANGED <<command, normal, items, found>>

\* The kernel goes from descriptor to descriptor.
Translate ==
  /\ cursor \in 1 .. LastWord
  /\ LET i == Read(cmd[cursor])
     IN  found' = Append(found, i) /\ cursor' = cursor + Length(i)
  /\ UNCHANGED <<command, normal, items, cmd>>

\* svcSendSyncRequest returns, and the next request is built.
Return ==
  /\ cursor > LastWord
  /\ cursor' = 0 /\ found' = <<>> /\ items' = <<>>
  /\ command' \in Commands /\ normal' \in Normals
  /\ cmd' = Blank(normal')

Next == (\E i \in Items : Add(i)) \/ Send \/ Translate \/ Return

Spec == Init /\ [][Next]_vars
-----------------------------------------------------------------------------
\* The kernel takes every parameter of a request for what the program put
\* there, in order, and finds all of them; the largest sizes and numbers of
\* handles that are documented included.
ReadAsBuilt ==
  cursor # 0 =>
    /\ Shr(cmd[1], 16) = Bits(command) /\ NormalWords(cmd[1]) = normal
    /\ \A k \in DOMAIN found : k \in DOMAIN items /\ found[k] = AsRead(items[k])
    /\ cursor > LastWord => Len(found) = Len(items)
=============================================================================
