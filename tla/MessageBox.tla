----------------------------- MODULE MessageBox -----------------------------
(***************************************************************************)
(* The mailbox of a thread in std/concurrency.d.  Senders append to the    *)
(* shared lists; the owner moves them to lists of its own, which it scans  *)
(* for a message its receive is for.  One mutex, m_lock, guards the shared *)
(* part; the owner waits on m_putMsg for a message, and senders on         *)
(* m_notFull for room, once the limit set by setMaxMsgs is reached.        *)
(*                                                                         *)
(* Nothing that happens under m_lock is seen before it is given up, so a   *)
(* critical section is one step, up to its end or the next wait.  A wait   *)
(* is what it is on Horizon (module Condition): it is announced with the   *)
(* mutex held, and the thread asks the kernel to sleep afterwards.         *)
(***************************************************************************)
EXTENDS Message, CondVar, FiniteSets

CONSTANTS Senders,    \* the threads that put
          NoMessage,  \* what a sender that is not in put has in hand
          Wants,      \* the sets of types the owner's receives are for
          Limits,     \* the limits given to setMaxMsgs; 0 is none
          MaxLimit,   \* the largest of them
          MaxHeld     \* bound: a message that no limit holds back does not go
                      \* to a mailbox that holds so many

ASSUME SendersAssumption == IsFiniteSet(Senders) /\ NoMessage \notin Messages
ASSUME LimitsAssumption == MaxLimit \in Nat /\ Limits \subseteq 0 .. MaxLimit /\ MaxHeld \in Nat
ASSUME WantsAssumption == Wants \subseteq SUBSET Tags

VARIABLES sharedBox, sharedPty,  \* the lists senders append to
          localBox, localPty,    \* the lists only the owner uses
          localMsgs,  \* length of localBox when the owner last counted
          maxMsgs,    \* the limit
          crowding,   \* what onMaxMsgs does: let the sender block, or drop
          closed,
          putQueue,   \* how many senders wait for room
          putMsg,     \* the CondVar the owner waits on
          notFull,    \* the CondVar senders wait on
          at,         \* where each sender is inside put
          inHand,     \* the message a sender that waits is putting
          owner,      \* where the owner is inside get
          want, mode, \* its receive: the types, and the timeout
          timedOut,   \* what its last wait(Duration) returned
          relaxed     \* history: has anyone raised the limit since the owner
                      \* last looked whether senders could be let go

boxes == <<sharedBox, sharedPty, localBox, localPty>>
limit == <<maxMsgs, crowding>>
receiving == <<want, mode, timedOut>>
vars == <<sharedBox, sharedPty, localBox, localPty, localMsgs, maxMsgs,
          crowding, closed, putQueue, putMsg, notFull, at, inHand, owner,
          want, mode, timedOut, relaxed>>

SenderPlaces == {"out", "about", "asleep", "woken"}
OwnerPlaces == {"out", "enter", "about", "asleep", "endWait", "woken", "gone"}

\* A receive without a timeout, with one, and with one that is over.
Modes == {"wait", "timed", "over"}

\* Senders between putQueue++ and putQueue--.
Queued == {s \in Senders : at[s] # "out"}

TypeOK ==
  /\ sharedBox \in Seq(Standard \cup Control)
  /\ localBox \in Seq(Standard \cup Control)
  /\ sharedPty \in Seq(Priority) /\ localPty \in Seq(Priority)
  /\ localMsgs \in Nat
  /\ maxMsgs \in Limits /\ crowding \in {"block", "drop"}
  /\ closed \in BOOLEAN
  /\ putQueue \in Nat
  /\ putMsg \in Int /\ notFull \in Int
  /\ at \in [Senders -> SenderPlaces]
  /\ inHand \in [Senders -> Standard \cup {NoMessage}]
  /\ owner \in OwnerPlaces
  /\ want \in SUBSET Tags /\ mode \in Modes /\ timedOut \in BOOLEAN
  /\ relaxed \in BOOLEAN

\* The constructor, and a first setMaxMsgs before anyone sends.
Init ==
  /\ sharedBox = <<>> /\ sharedPty = <<>> /\ localBox = <<>> /\ localPty = <<>>
  /\ localMsgs = 0
  /\ maxMsgs \in Limits /\ crowding = "block"
  /\ closed = FALSE
  /\ putQueue = 0 /\ putMsg = 0 /\ notFull = 0
  /\ at = [s \in Senders |-> "out"]
  /\ inHand = [s \in Senders |-> NoMessage]
  /\ owner = "out" /\ want = {} /\ mode = "wait" /\ timedOut = FALSE
  /\ relaxed = FALSE
-----------------------------------------------------------------------------
\* A faulty variant: the owner's list is not counted.
FullOfShared(local) == maxMsgs # 0 /\ maxMsgs <= Len(sharedBox)

\* mboxFull, for a length of the local list.
Full(local) == maxMsgs # 0 /\ maxMsgs <= local + Len(sharedBox)

\* m_putMsg.notify(): the owner is the only one that waits there.
NotifyOwner ==
  /\ putMsg' = Accounted(putMsg, 1)
  /\ owner' = IF HasWaiters(putMsg) /\ owner = "asleep" THEN "woken" ELSE owner

\* A faulty variant: one sender is let go where any of them may find room.
NotifyOneSender ==
  /\ notFull' = Accounted(notFull, 1)
  /\ IF HasWaiters(notFull) /\ \E s \in Senders : at[s] = "asleep"
     THEN \E s \in Senders : at[s] = "asleep" /\ at' = [at EXCEPT ![s] = "woken"]
     ELSE UNCHANGED at

\* m_notFull.notifyAll()
NotifyAllSenders ==
  /\ notFull' = Accounted(notFull, All)
  /\ at' = [s \in Senders |->
              IF HasWaiters(notFull) /\ at[s] = "asleep" THEN "woken" ELSE at[s]]
-----------------------------------------------------------------------------
\* put, from the top of its loop, by a sender that counts queue others that
\* wait: the message is accepted, or dropped, or the sender waits.
Accepted(s, m, queue) ==
  /\ m.kind = "standard" => ~Full(localMsgs)
  /\ IF m.kind = "priority"
     THEN sharedPty' = Append(sharedPty, m) /\ UNCHANGED sharedBox
     ELSE sharedBox' = Append(sharedBox, m) /\ UNCHANGED sharedPty
  /\ NotifyOwner
  /\ at' = [at EXCEPT ![s] = "out"]
  /\ inHand' = [inHand EXCEPT ![s] = NoMessage]
  /\ putQueue' = queue
  /\ UNCHANGED notFull

Dropped(s, m, queue) ==
  /\ m.kind = "standard" /\ Full(localMsgs) /\ crowding = "drop"
  /\ at' = [at EXCEPT ![s] = "out"]
  /\ inHand' = [inHand EXCEPT ![s] = NoMessage]
  /\ putQueue' = queue
  /\ UNCHANGED <<sharedBox, sharedPty, putMsg, notFull, owner>>

\* A faulty variant: the sender does not count itself.
WaitsUncounted(s, m, queue) ==
  /\ m.kind = "standard" /\ Full(localMsgs) /\ crowding = "block"
  /\ notFull' = Announced(notFull)
  /\ at' = [at EXCEPT ![s] = "about"]
  /\ inHand' = [inHand EXCEPT ![s] = m]
  /\ putQueue' = queue
  /\ UNCHANGED <<sharedBox, sharedPty, putMsg, owner>>

Waits(s, m, queue) ==
  /\ m.kind = "standard" /\ Full(localMsgs) /\ crowding = "block"
  /\ notFull' = Announced(notFull)
  /\ at' = [at EXCEPT ![s] = "about"]
  /\ inHand' = [inHand EXCEPT ![s] = m]
  /\ putQueue' = queue + 1
  /\ UNCHANGED <<sharedBox, sharedPty, putMsg, owner>>

Deposit(s, m, queue) ==
  /\ Accepted(s, m, queue) \/ Dropped(s, m, queue) \/ Waits(s, m, queue)
  /\ UNCHANGED <<localBox, localPty, localMsgs, limit, closed, receiving, relaxed>>

\* A faulty variant: a closed mailbox is not looked at.
PutUnchecked(s, m) ==
  /\ at[s] = "out"
  /\ m \notin Standard \/ maxMsgs = 0 =>
       Len(sharedBox) + Len(sharedPty) + Len(localBox) + Len(localPty) < MaxHeld
  /\ Deposit(s, m, putQueue)

\* What is put into a closed mailbox is dropped at once.
Put(s, m) ==
  /\ at[s] = "out" /\ ~closed
  /\ m \notin Standard \/ maxMsgs = 0 =>
       Len(sharedBox) + Len(sharedPty) + Len(localBox) + Len(localPty) < MaxHeld
  /\ Deposit(s, m, putQueue)

\* A faulty variant: the sender counts itself out only once, at the end.
ResumeUncounted(s) ==
  /\ at[s] = "woken"
  /\ Deposit(s, inHand[s], putQueue)

\* After m_notFull.wait(): m_closed is not looked at again.
Resume(s) ==
  /\ at[s] = "woken"
  /\ Deposit(s, inHand[s], putQueue - 1)

\* The kernel puts s to sleep if the int is still negative.
SenderArbitrates(s) ==
  /\ at[s] = "about"
  /\ at' = [at EXCEPT ![s] = IF notFull < 0 THEN "asleep" ELSE "woken"]
  /\ UNCHANGED <<boxes, localMsgs, limit, closed, putQueue, putMsg, notFull,
                 inHand, owner, receiving, relaxed>>

\* setMaxMsgs, by any thread.
SetMaxMsgs(num, onMaxMsgs) ==
  /\ maxMsgs' = num /\ crowding' = onMaxMsgs
  /\ relaxed' = (relaxed \/ num = 0 \/ (maxMsgs # 0 /\ maxMsgs < num))
  /\ UNCHANGED <<boxes, localMsgs, closed, putQueue, putMsg, notFull, at,
                 inHand, owner, receiving>>
-----------------------------------------------------------------------------
\* get, before it takes m_lock: a message that is there already.
ReceivePriority(types) ==
  /\ owner = "out"
  /\ localPty # <<>> /\ Matches(Head(localPty), types)
  /\ localPty' = Tail(localPty)
  /\ UNCHANGED <<sharedBox, sharedPty, localBox, localMsgs, limit, closed, putQueue,
                 putMsg, notFull, at, inHand, owner, receiving, relaxed>>

ReceiveLocal(types) ==
  /\ owner = "out" /\ localPty = <<>>
  /\ Hits(localBox, types) # {}
  /\ localBox' = Scanned(localBox, types)
  /\ UNCHANGED <<sharedBox, sharedPty, localPty, localMsgs, limit, closed, putQueue,
                 putMsg, notFull, at, inHand, owner, receiving, relaxed>>

\* None is there.  (A priority message at the head that no handler takes is
\* thrown and stays where it is, so that get ends and nothing has changed.)
BeginReceive(types, timeout) ==
  /\ owner = "out" /\ localPty = <<>>
  /\ Hits(localBox, types) = {}
  /\ owner' = "enter" /\ want' = types /\ mode' = timeout
  /\ UNCHANGED <<boxes, localMsgs, limit, closed, putQueue, putMsg, notFull,
                 at, inHand, timedOut, relaxed>>

\* get ends.
Returns == owner' = "out" /\ want' = {} /\ mode' = "wait" /\ timedOut' = FALSE

\* A faulty variant: priority messages do not end the wait.
AwaitStandard(count) ==
  /\ sharedBox = <<>>
  /\ IF putQueue > 0 /\ ~Full(count)
     THEN NotifyAllSenders
     ELSE UNCHANGED <<notFull, at>>
  /\ IF mode = "over"
     THEN Returns /\ UNCHANGED putMsg
     ELSE /\ owner' = "about" /\ putMsg' = Announced(putMsg)
          /\ timedOut' = FALSE
          /\ UNCHANGED <<want, mode>>
  /\ relaxed' = FALSE
  /\ UNCHANGED <<boxes, limit, closed, putQueue, inHand>>

\* The critical section of get, with count for m_localMsgs.  If nothing has
\* been put the senders are let go and the owner waits, or its time is over.
AwaitMessage(count) ==
  /\ sharedPty = <<>> /\ sharedBox = <<>>
  /\ IF putQueue > 0 /\ ~Full(count)
     THEN NotifyAllSenders
     ELSE UNCHANGED <<notFull, at>>
  /\ IF mode = "over"
     THEN Returns /\ UNCHANGED putMsg
     ELSE /\ owner' = "about" /\ putMsg' = Announced(putMsg)
          /\ timedOut' = FALSE
          /\ UNCHANGED <<want, mode>>
  /\ relaxed' = FALSE
  /\ UNCHANGED <<boxes, limit, closed, putQueue, inHand>>

\* Else what has been put becomes the owner's.  After priority messages get
\* returns or throws; otherwise it returns if a message is for it, and goes
\* round again if not, with what is left of its time.
Collect ==
  /\ sharedPty # <<>> \/ sharedBox # <<>>
  /\ sharedPty' = <<>> /\ sharedBox' = <<>>
  /\ LET pty == localPty \o sharedPty
         scanned == pty = <<>> /\ Hits(sharedBox, want) # {}
     IN  /\ localPty' = IF pty # <<>> /\ Matches(Head(pty), want)
                        THEN Tail(pty) ELSE pty
         /\ localBox' = localBox \o (IF scanned THEN Scanned(sharedBox, want)
                                     ELSE sharedBox)
         /\ IF pty # <<>> \/ scanned
            THEN Returns
            ELSE /\ owner' = "enter"
                 /\ mode' \in IF mode = "timed" THEN {"timed", "over"} ELSE {mode}
                 /\ UNCHANGED <<want, timedOut>>
  /\ UNCHANGED <<limit, closed, putQueue, putMsg, notFull, at, inHand, relaxed>>

\* updateMsgCount
Enter ==
  /\ owner = "enter"
  /\ localMsgs' = Len(localBox)
  /\ AwaitMessage(Len(localBox)) \/ Collect

\* m_putMsg.wait() has returned, or m_putMsg.wait(period) true.
Reenter ==
  /\ owner = "woken" /\ (mode = "timed" => timedOut)
  /\ UNCHANGED localMsgs
  /\ AwaitMessage(localMsgs) \/ Collect

\* m_putMsg.wait(period) has returned false: get returns false.  On Horizon
\* it does so after a notification, and returns true after a timeout.
GiveUp ==
  /\ owner = "woken" /\ mode = "timed" /\ ~timedOut
  /\ Returns
  /\ UNCHANGED <<boxes, localMsgs, limit, closed, putQueue, putMsg, notFull,
                 at, inHand, relaxed>>

\* A faulty variant: the owner sleeps without a look at the int.
OwnerSleeps ==
  /\ owner = "about"
  /\ owner' = "asleep"
  /\ UNCHANGED <<boxes, localMsgs, limit, closed, putQueue, putMsg, notFull,
                 at, inHand, receiving, relaxed>>

OwnerArbitrates ==
  /\ owner = "about"
  /\ owner' = IF putMsg < 0 THEN "asleep" ELSE "woken"
  /\ UNCHANGED <<boxes, localMsgs, limit, closed, putQueue, putMsg, notFull,
                 at, inHand, receiving, relaxed>>

\* The time of the owner's wait is over.
TimeOut ==
  /\ owner = "asleep" /\ mode = "timed"
  /\ owner' = "endWait"
  /\ UNCHANGED <<boxes, localMsgs, limit, closed, putQueue, putMsg, notFull,
                 at, inHand, receiving, relaxed>>

EndWait ==
  /\ owner = "endWait"
  /\ putMsg' = Accounted(putMsg, 1)
  /\ timedOut' = HasWaiters(putMsg)
  /\ owner' = "woken"
  /\ UNCHANGED <<boxes, localMsgs, limit, closed, putQueue, notFull,
                 at, inHand, want, mode, relaxed>>

\* The owner ends.
Close ==
  /\ owner = "out"
  /\ owner' = "gone" /\ closed' = TRUE
  /\ sharedBox' = <<>> /\ localBox' = <<>>
  /\ UNCHANGED <<sharedPty, localPty, localMsgs, limit, putQueue, putMsg, notFull,
                 at, inHand, receiving, relaxed>>
-----------------------------------------------------------------------------
Sender(s) == SenderArbitrates(s) \/ Resume(s)

InGet == Enter \/ Reenter \/ GiveUp \/ OwnerArbitrates \/ EndWait

Receive(types) ==
  \/ ReceivePriority(types)
  \/ ReceiveLocal(types)
  \/ \E timeout \in Modes : BeginReceive(types, timeout)

Next ==
  \/ \E s \in Senders : Sender(s) \/ \E m \in Messages : Put(s, m)
  \/ \E num \in Limits, onMaxMsgs \in {"block", "drop"} : SetMaxMsgs(num, onMaxMsgs)
  \/ \E types \in Wants : Receive(types)
  \/ InGet \/ TimeOut \/ Close

Spec == Init /\ [][Next]_vars

\* A thread inside put or get runs whenever it can.  Nothing is assumed of
\* the calls themselves, and a timeout may be arbitrarily long.
FairSpec ==
  /\ Spec
  /\ WF_vars(InGet)
  /\ \A s \in Senders : WF_vars(Sender(s))
-----------------------------------------------------------------------------
\* The users' messages in a list.
UserMessages(s) == {i \in DOMAIN s : s[i].kind = "standard"}

\* m_localMsgs is brought up to date only when a receive comes for more, and
\* the messages it then takes over are not in it.  So the limit is not the
\* "maximum number of user messages allowed in the mailbox" (concurrency.d:2044):
\* twice the largest limit is, whenever it is changed and however many
\* messages the limit does not apply to.
UsersBounded ==
  0 \notin Limits =>
    Cardinality(UserMessages(localBox)) + Cardinality(UserMessages(sharedBox))
      <= 2 * MaxLimit

\* The owner never sleeps with a message to look at.
OwnerAttends == owner = "asleep" => sharedBox = <<>> /\ sharedPty = <<>>

\* Senders and owner do not sleep at the same time while there is room, unless
\* it was setMaxMsgs that made the room: it notifies nobody.
SendersAttended ==
  owner = "asleep" /\ (\E s \in Senders : at[s] = "asleep")
    => Full(localMsgs) \/ relaxed

\* m_putQueue is the number of senders that wait for room, and both CondVars
\* count whoever sleeps on them, so that a notification finds them.
QueueExact ==
  /\ putQueue = Cardinality(Queued)
  /\ (\E s \in Senders : at[s] = "asleep") => notFull < 0
  /\ owner = "asleep" => putMsg < 0

\* A closed mailbox is to "reject any future messages" (concurrency.d:2348), but
\* a sender that was waiting for room does not look again: what a closed
\* mailbox holds is at most one message of each of them.
LateMessagesFew ==
  closed => Len(sharedBox) + Cardinality(Queued) <= Cardinality(Senders)

\* A receive that a message has been sent for comes back.
ReceiveReturns ==
  /\ owner \notin {"out", "gone"}
  /\ sharedPty # <<>> \/ Hits(sharedBox, want) # {}
  ~> owner \in {"out", "gone"}

\* As long as the owner time and again has nothing left to look at and waits,
\* not all senders wait for ever.
SomeSenderGetsIn ==
  []<>(owner = "about" /\ localBox = <<>>)
    => ((Queued = Senders) ~> (Queued # Senders))

\* What the users of a mailbox see.
MB == INSTANCE Mailbox WITH
        box <- IF closed THEN <<>> ELSE localBox \o sharedBox,
        urgent <- localPty \o sharedPty,
        open <- ~closed

ImplementsMailbox == MB!Spec
=============================================================================
