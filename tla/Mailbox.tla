------------------------------ MODULE Mailbox ------------------------------
(***************************************************************************)
(* What a mailbox promises the threads that use it: messages wait in the   *)
(* order in which they were sent, each is received once, and a receive     *)
(* takes the oldest one it is for.  Priority messages queue up beside the  *)
(* others.  When its thread ends the mailbox is closed and what it held is *)
(* dropped.                                                                *)
(***************************************************************************)
EXTENDS Message

VARIABLES box,      \* the messages not yet received
          urgent,   \* the priority messages not yet received
          open      \* the thread that owns the mailbox still runs

Init == box = <<>> /\ urgent = <<>> /\ open = TRUE

Send(m) ==
  /\ open
  /\ box' = Append(box, m)
  /\ UNCHANGED <<urgent, open>>

SendPriority(m) ==
  /\ open
  /\ urgent' = Append(urgent, m)
  /\ UNCHANGED <<box, open>>

Receive(want) ==
  /\ open
  /\ \E i \in DOMAIN box :
       /\ Matches(box[i], want)
       /\ \A j \in 1 .. i - 1 : ~Matches(box[j], want)
       /\ box' = RemoveAt(box, i)
  /\ UNCHANGED <<urgent, open>>

ReceivePriority ==
  /\ open /\ urgent # <<>>
  /\ urgent' = Tail(urgent)
  /\ UNCHANGED <<box, open>>

Close ==
  /\ open
  /\ open' = FALSE /\ box' = <<>>
  /\ UNCHANGED urgent

Next ==
  \/ \E m \in Standard \cup Control : Send(m)
  \/ \E m \in Priority : SendPriority(m)
  \/ \E want \in SUBSET Tags : Receive(want)
  \/ ReceivePriority
  \/ Close

Spec == Init /\ [][Next]_<<box, urgent, open>>
=============================================================================
