------------------------------ MODULE Message ------------------------------
(***************************************************************************)
(* The messages of std/concurrency.d.  A user's message has a type, its    *)
(* tag, by which a receive tells what it is for; it is sent to the back of *)
(* the mailbox or, as a priority message, past it.  The other messages     *)
(* report the death of a thread: of one the receiver is linked to or owned *)
(* by (link), which ends any receive, or of one that no longer matters to  *)
(* it (stray), which onLinkDeadMsg does not handle.                        *)
(***************************************************************************)
EXTENDS Naturals, SequencesExt

CONSTANT Tags   \* the types of the users' messages

Standard == [kind : {"standard"}, tag : Tags]
Priority == [kind : {"priority"}, tag : Tags]
Control == [kind : {"link", "stray"}]
Messages == Standard \cup Priority \cup Control

\* onStandardMsg and onControlMsg: would a receive whose handlers take the
\* types in want return, or throw, because of m?
Matches(m, want) ==
  \/ m.kind = "link"
  \/ m.kind \in {"standard", "priority"} /\ m.tag \in want

\* scan: the places of s at which it would, and what is left of s once it
\* has removed the first of them.
Hits(s, want) == {i \in DOMAIN s : Matches(s[i], want)}

\* A faulty variant: the range is advanced over every match, not only the
\* messages that do not match.
ScannedLast(s, want) == RemoveAt(s, Max(Hits(s, want)))

Scanned(s, want) == RemoveAt(s, Min(Hits(s, want)))
=============================================================================
