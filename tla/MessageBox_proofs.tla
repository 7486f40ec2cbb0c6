------------------------- MODULE MessageBox_proofs --------------------------
(***************************************************************************)
(* Safety of the mailbox, for any senders, types and limits: no one sleeps *)
(* beside a message or room that is there, a closed mailbox takes in few   *)
(* late messages, an open one holds at most twice the largest limit, and   *)
(* to its users it is one list.                                            *)
(***************************************************************************)
EXTENDS MessageBox, CountingLemmas, SequenceTheorems
-----------------------------------------------------------------------------
\* A set of numbers has a least one.
LEMMA LeastMember ==
  ASSUME NEW T \in SUBSET Nat, T # {}
  PROVE  \E x \in T : \A y \in T : x <= y
<1> DEFINE R == {ss \in Nat \X Nat : ss[1] < ss[2]}
<1>1. IsWellFoundedOn(R, Nat)
  BY NatLessThanWellFounded DEF OpToRel
<1>2. PICK x \in T : \A y \in T : <<y, x>> \notin R
  <2> HIDE DEF R
  <2> QED
    BY <1>1, WFMin
<1>3. \A y \in T : x <= y
  <2> TAKE y \in T
  <2>1. <<y, x>> \in R <=> y < x
    OBVIOUS
  <2>2. QED
    BY <1>2, <2>1
<1>4. QED
  BY <1>3

\* Where a scan finds its message.
LEMMA MinHit ==
  ASSUME NEW M, NEW s \in Seq(M), NEW types, Hits(s, types) # {}
  PROVE  Min(Hits(s, types)) \in 1 .. Len(s)
<1>1. Hits(s, types) \in SUBSET Nat /\ Hits(s, types) \subseteq 1 .. Len(s)
  BY LenProperties DEF Hits
<1>2. PICK n \in Hits(s, types) : \A j \in Hits(s, types) : n <= j
  BY <1>1, LeastMember
<1>3. QED
  BY <1>1, <1>2 DEF Min

\* What is left of a sequence that loses one element.
LEMMA RemoveAtIs ==
  ASSUME NEW M, NEW s \in Seq(M), NEW k \in 1 .. Len(s)
  PROVE  /\ RemoveAt(s, k) \in Seq(M)
         /\ Len(RemoveAt(s, k)) = Len(s) - 1
         /\ \A i \in 1 .. Len(s) - 1 :
              RemoveAt(s, k)[i] = IF i < k THEN s[i] ELSE s[i + 1]
<1> DEFINE a == SubSeq(s, 1, k - 1)
           b == SubSeq(s, k + 1, Len(s))
<1> Len(s) \in Nat
  BY LenProperties
<1>1. \A i \in 1 .. Len(s) : s[i] \in M
  BY ElementOfSeq
<1>2. a \in Seq(M) /\ Len(a) = k - 1 /\ \A i \in 1 .. k - 1 : a[i] = s[i]
  BY <1>1, SubSeqProperties
<1>3. b \in Seq(M) /\ Len(b) = Len(s) - k /\ \A i \in 1 .. Len(s) - k : b[i] = s[i + k]
  BY <1>1, SubSeqProperties
<1>4. RemoveAt(s, k) = a \o b
  BY DEF RemoveAt
<1> HIDE DEF a, b
<1>5. /\ a \o b \in Seq(M)
      /\ Len(a \o b) = Len(a) + Len(b)
      /\ \A i \in 1 .. Len(a) + Len(b) :
           (a \o b)[i] = IF i <= Len(a) THEN a[i] ELSE b[i - Len(a)]
  BY <1>2, <1>3, ConcatProperties
<1>6. ASSUME NEW i \in 1 .. Len(s) - 1
      PROVE  (a \o b)[i] = IF i < k THEN s[i] ELSE s[i + 1]
  <2> i \in Int /\ k \in Int
    OBVIOUS
  <2>1. CASE i < k
    BY <1>2, <1>3, <1>5, <2>1
  <2>2. CASE i >= k
    <3>1. (a \o b)[i] = b[i - (k - 1)]
      BY <1>2, <1>3, <1>5, <2>2
    <3>2. i - (k - 1) \in 1 .. Len(s) - k
      BY <2>2
    <3>3. b[i - (k - 1)] = s[(i - (k - 1)) + k]
      BY <1>3, <3>2
    <3>4. (i - (k - 1)) + k = i + 1
      OBVIOUS
    <3>5. QED
      BY <2>2, <3>1, <3>3, <3>4
  <2>3. i < k \/ i >= k
    OBVIOUS
  <2>4. QED
    BY <2>1, <2>2, <2>3
<1>7. Len(a) + Len(b) = Len(s) - 1
  BY <1>2, <1>3
<1>8. QED
  BY <1>4, <1>5, <1>6, <1>7
-----------------------------------------------------------------------------
\* Counting the users' messages of a list.
Users(s) == Cardinality(UserMessages(s))

LEMMA UsersCounted ==
  ASSUME NEW M, NEW s \in Seq(M)
  PROVE  /\ UserMessages(s) \subseteq 1 .. Len(s) /\ IsFiniteSet(UserMessages(s))
         /\ Users(s) \in Nat /\ Users(s) <= Len(s)
<1> Len(s) \in Nat /\ DOMAIN s = 1 .. Len(s)
  BY LenProperties
<1>1. IsFiniteSet(1 .. Len(s)) /\ Cardinality(1 .. Len(s)) = Len(s)
  BY FS_Interval
<1>2. UserMessages(s) \subseteq 1 .. Len(s)
  BY DEF UserMessages
<1>3. IsFiniteSet(UserMessages(s)) /\ Cardinality(UserMessages(s)) <= Len(s)
  BY <1>1, <1>2, FS_Subset
<1>4. QED
  BY <1>2, <1>3, FS_CardinalityType DEF Users

LEMMA NoUsers == UserMessages(<<>>) = {} /\ Users(<<>>) = 0
  BY FS_EmptySet DEF UserMessages, Users

\* A list whose users' messages are among those of another, at places that an
\* injection f tells, has no more of them.
LEMMA UsersInjected ==
  ASSUME NEW M, NEW s \in Seq(M), NEW A, NEW f \in [A -> UserMessages(s)],
         \A i, j \in A : f[i] = f[j] => i = j
  PROVE  IsFiniteSet(A) /\ Cardinality(A) \in Nat /\ Cardinality(A) <= Users(s)
<1>1. f \in Injection(A, UserMessages(s))
  BY DEF Injection, IsInjective
<1>2. QED
  BY <1>1, UsersCounted, FS_Injection, FS_CardinalityType DEF Users

LEMMA UsersRemoved ==
  ASSUME NEW M, NEW s \in Seq(M), NEW k \in 1 .. Len(s)
  PROVE  Users(RemoveAt(s, k)) <= Users(s)
<1> DEFINE t == RemoveAt(s, k)
           f == [i \in UserMessages(t) |-> IF i < k THEN i ELSE i + 1]
<1> Len(s) \in Nat /\ DOMAIN s = 1 .. Len(s)
  BY LenProperties
<1>1. /\ t \in Seq(M) /\ Len(t) = Len(s) - 1
      /\ \A i \in 1 .. Len(s) - 1 : t[i] = IF i < k THEN s[i] ELSE s[i + 1]
  BY RemoveAtIs
<1> HIDE DEF t
<1>2. UserMessages(t) \subseteq 1 .. Len(s) - 1
  BY <1>1, UsersCounted
<1>3. ASSUME NEW i \in UserMessages(t)
      PROVE  (IF i < k THEN i ELSE i + 1) \in UserMessages(s)
  <2>1. i \in 1 .. Len(s) - 1 /\ t[i].kind = "standard"
    BY <1>2 DEF UserMessages
  <2>2. CASE i < k
    BY <1>1, <2>1, <2>2 DEF UserMessages
  <2>3. CASE ~(i < k)
    BY <1>1, <2>1, <2>3 DEF UserMessages
  <2>4. QED
    BY <2>2, <2>3
<1>4. f \in [UserMessages(t) -> UserMessages(s)]
  BY <1>3
<1>5. \A i, j \in UserMessages(t) : f[i] = f[j] => i = j
  BY <1>2
<1> HIDE DEF f
<1>6. QED
  BY <1>4, <1>5, UsersInjected DEF Users, t

LEMMA UsersAppended ==
  ASSUME NEW M, NEW s \in Seq(M), NEW m \in M
  PROVE  Users(Append(s, m)) = Users(s) + (IF m.kind = "standard" THEN 1 ELSE 0)
<1> Len(s) \in Nat /\ DOMAIN s = 1 .. Len(s)
  BY LenProperties
<1> DEFINE t == Append(s, m)
<1>1. /\ t \in Seq(M) /\ Len(t) = Len(s) + 1 /\ DOMAIN t = 1 .. Len(t)
      /\ \A i \in 1 .. Len(s) : t[i] = s[i]
      /\ t[Len(s) + 1] = m
  BY AppendProperties, LenProperties
<1> HIDE DEF t
<1>2. /\ UserMessages(s) \subseteq 1 .. Len(s) /\ IsFiniteSet(UserMessages(s))
      /\ Users(s) \in Nat
  BY UsersCounted
<1>3. CASE m.kind = "standard"
  <2>1. UserMessages(t) = UserMessages(s) \cup {Len(s) + 1}
    BY <1>1, <1>3 DEF UserMessages
  <2>2. Len(s) + 1 \notin UserMessages(s)
    BY <1>2
  <2>3. QED
    BY <1>2, <1>3, <2>1, <2>2, FS_AddElement DEF Users, t
<1>4. CASE m.kind # "standard"
  <2>1. UserMessages(t) = UserMessages(s)
    BY <1>1, <1>4 DEF UserMessages
  <2>2. QED
    BY <1>2, <1>4, <2>1 DEF Users, t
<1>5. QED
  BY <1>3, <1>4

LEMMA UsersJoined ==
  ASSUME NEW M, NEW s \in Seq(M), NEW t \in Seq(M)
  PROVE  Users(s \o t) <= Users(s) + Users(t)
<1> DEFINE u == s \o t
           A == {i \in UserMessages(u) : i <= Len(s)}
           B == {i \in UserMessages(u) : i > Len(s)}
           f == [i \in A |-> i]
           g == [i \in B |-> i - Len(s)]
<1> /\ Len(s) \in Nat /\ DOMAIN s = 1 .. Len(s)
    /\ Len(t) \in Nat /\ DOMAIN t = 1 .. Len(t)
  BY LenProperties
<1>1. /\ u \in Seq(M) /\ Len(u) = Len(s) + Len(t)
      /\ \A i \in 1 .. Len(s) + Len(t) : u[i] = IF i <= Len(s) THEN s[i] ELSE t[i - Len(s)]
  BY ConcatProperties
<1> HIDE DEF u
<1>2. UserMessages(u) \subseteq 1 .. Len(s) + Len(t)
  BY <1>1, UsersCounted
<1>3. UserMessages(u) = A \cup B
  BY <1>2
<1>4. \A i \in A : i \in UserMessages(s)
  BY <1>1, <1>2 DEF UserMessages
<1>5. ASSUME NEW i \in B
      PROVE  i - Len(s) \in UserMessages(t)
  <2>1. i \in 1 .. Len(s) + Len(t) /\ i > Len(s) /\ u[i].kind = "standard"
    BY <1>2 DEF UserMessages
  <2>2. i - Len(s) \in 1 .. Len(t) /\ u[i] = t[i - Len(s)]
    BY <1>1, <2>1
  <2>3. QED
    BY <2>1, <2>2 DEF UserMessages
<1>6. f \in [A -> UserMessages(s)] /\ \A i, j \in A : f[i] = f[j] => i = j
  BY <1>4
<1>7. g \in [B -> UserMessages(t)] /\ \A i, j \in B : g[i] = g[j] => i = j
  BY <1>2, <1>5
<1> HIDE DEF A, B, f, g
<1>8. IsFiniteSet(A) /\ Cardinality(A) \in Nat /\ Cardinality(A) <= Users(s)
  BY <1>6, UsersInjected
<1>9. IsFiniteSet(B) /\ Cardinality(B) \in Nat /\ Cardinality(B) <= Users(t)
  BY <1>7, UsersInjected
<1>10. IsFiniteSet(A \cap B) /\ Cardinality(A \cap B) \in Nat
  BY <1>8, FS_Subset, FS_CardinalityType
<1>11. Cardinality(A \cup B) <= Users(s) + Users(t)
  <2>1. Cardinality(A \cup B) = Cardinality(A) + Cardinality(B) - Cardinality(A \cap B)
    BY <1>8, <1>9, FS_Union
  <2>2. Users(s) \in Nat /\ Users(t) \in Nat
    BY UsersCounted
  <2>3. QED
    BY <1>8, <1>9, <1>10, <2>1, <2>2
<1>12. QED
  BY <1>3, <1>11 DEF Users, u
-----------------------------------------------------------------------------
\* What travels in the ordinary lists.
Ordinary == Standard \cup Control

LEMMA Kinds ==
  /\ \A m \in Messages : m.kind # "priority" => m \in Ordinary
  /\ \A m \in Messages : m.kind = "priority" => m \in Priority
  /\ \A m \in Messages : m.kind = "standard" => m \in Standard
  /\ \A m \in Standard : m \in Messages /\ m.kind = "standard"
  /\ Control \subseteq Messages /\ Priority \subseteq Messages
BY DEF Messages, Ordinary, Standard, Priority, Control

LEMMA ScannedIs ==
  ASSUME NEW M, NEW s \in Seq(M), NEW types, Hits(s, types) # {}
  PROVE  /\ Scanned(s, types) \in Seq(M)
         /\ Users(Scanned(s, types)) <= Users(s)
BY MinHit, RemoveAtIs, UsersRemoved DEF Scanned

\* Senders between putQueue++ and putQueue--, but for one.
LEMMA QueueWithout ==
  ASSUME NEW s \in Senders
  PROVE  /\ IsFiniteSet(Queued) /\ Cardinality(Queued) \in Nat
         /\ Cardinality(Queued) <= Cardinality(Senders)
         /\ Cardinality(Senders) \in Nat
         /\ IsFiniteSet(Queued \ {s}) /\ Cardinality(Queued \ {s}) \in Nat
         /\ Cardinality(Queued) =
              Cardinality(Queued \ {s}) + (IF at[s] # "out" THEN 1 ELSE 0)
<1>1. IsFiniteSet(Senders)
  BY SendersAssumption DEF SendersAssumption
<1>2. IsFiniteSet(Queued) /\ Cardinality(Queued) <= Cardinality(Senders)
  BY <1>1, FS_Subset DEF Queued
<1>3. IsFiniteSet(Queued \ {s})
  BY <1>2, FS_RemoveElement
<1>4. /\ Cardinality(Queued) \in Nat /\ Cardinality(Queued \ {s}) \in Nat
      /\ Cardinality(Senders) \in Nat
  BY <1>1, <1>2, <1>3, FS_CardinalityType
<1>5. s \in Queued <=> at[s] # "out"
  BY DEF Queued
<1>6. CASE s \in Queued
  BY <1>1, <1>2, <1>3, <1>4, <1>5, <1>6, FS_RemoveElement
<1>7. CASE s \notin Queued
  <2>1. Queued \ {s} = Queued
    BY <1>7
  <2>2. QED
    BY <1>2, <1>3, <1>4, <1>5, <1>7, <2>1
<1>8. QED
  BY <1>6, <1>7

\* A sender that waits has a user's message in hand, and is counted.
QueueInv ==
  /\ putQueue = Cardinality(Queued)
  /\ \A s \in Senders : at[s] # "out" => inHand[s] \in Standard

\* A sender that puts m, whether it has just come or been let go: it is not
\* counted while it tries, and is again if it waits.
LEMMA DepositTyped ==
  ASSUME TypeOK, QueueInv, NEW s \in Senders, NEW m \in Messages, NEW queue,
         queue = Cardinality(Queued \ {s}), Deposit(s, m, queue)
  PROVE  TypeOK' /\ QueueInv'
<1>1. queue \in Nat /\ IsFiniteSet(Queued \ {s})
  BY QueueWithout
<1>2. /\ sharedBox \in Seq(Ordinary) /\ sharedPty \in Seq(Priority)
  BY DEF TypeOK, Ordinary
<1>3. CASE Accepted(s, m, queue)
  <2>1. sharedBox' \in Seq(Ordinary) /\ sharedPty' \in Seq(Priority)
    <3>1. CASE m.kind = "priority"
      <4>1. m \in Priority
        BY <3>1, Kinds
      <4>2. Append(sharedPty, m) \in Seq(Priority)
        BY <1>2, <4>1, AppendProperties
      <4>3. QED
        BY <1>2, <1>3, <3>1, <4>2 DEF Accepted
    <3>2. CASE m.kind # "priority"
      <4>1. m \in Ordinary
        BY <3>2, Kinds
      <4>2. Append(sharedBox, m) \in Seq(Ordinary)
        BY <1>2, <4>1, AppendProperties
      <4>3. QED
        BY <1>2, <1>3, <3>2, <4>2 DEF Accepted
    <3>3. QED
      BY <3>1, <3>2
  <2>2. putMsg' \in Int /\ owner' \in OwnerPlaces
    BY <1>3 DEF Accepted, NotifyOwner, TypeOK, OwnerPlaces, Accounted, HasWaiters
  <2>3. Queued' = Queued \ {s}
    BY <1>3 DEF Accepted, Queued, TypeOK
  <2>4. QED
    BY <1>1, <1>3, <2>1, <2>2, <2>3
       DEF Accepted, Deposit, TypeOK, QueueInv, SenderPlaces, limit, receiving, Ordinary
<1>4. CASE Dropped(s, m, queue)
  <2>1. Queued' = Queued \ {s}
    BY <1>4 DEF Dropped, Queued, TypeOK
  <2>2. QED
    BY <1>1, <1>4, <2>1
       DEF Dropped, Deposit, TypeOK, QueueInv, SenderPlaces, limit, receiving
<1>5. CASE Waits(s, m, queue)
  <2>1. Queued' = (Queued \ {s}) \cup {s}
    BY <1>5 DEF Waits, Queued, TypeOK
  <2>2. Cardinality(Queued') = queue + 1
    BY <1>1, <2>1, FS_AddElement
  <2>3. m \in Standard
    BY <1>5, Kinds DEF Waits
  <2>4. QED
    BY <1>1, <1>5, <2>2, <2>3
       DEF Waits, Deposit, TypeOK, QueueInv, SenderPlaces, limit, receiving, Announced
<1>6. QED
  BY <1>3, <1>4, <1>5 DEF Deposit

\* A resumed sender puts what it has in hand, and others are counted.
LEMMA ResumeDeposits ==
  ASSUME TypeOK, QueueInv, NEW s \in Senders, Resume(s)
  PROVE  /\ inHand[s] \in Standard /\ inHand[s] \in Messages
         /\ putQueue - 1 = Cardinality(Queued \ {s})
         /\ Deposit(s, inHand[s], putQueue - 1)
BY QueueWithout, Kinds DEF Resume, QueueInv

LEMMA PutDeposits ==
  ASSUME TypeOK, QueueInv, NEW s \in Senders, NEW m \in Messages, Put(s, m)
  PROVE  putQueue = Cardinality(Queued \ {s}) /\ Deposit(s, m, putQueue)
<1>1. at[s] = "out" /\ Deposit(s, m, putQueue) /\ putQueue = Cardinality(Queued)
  BY DEF Put, QueueInv
<1>2. Cardinality(Queued) = Cardinality(Queued \ {s})
  <2>1. Queued \ {s} = Queued
    BY <1>1 DEF Queued
  <2>2. QED
    BY <2>1
<1>3. QED
  BY <1>1, <1>2

\* What the owner finds when it collects.
LEMMA CollectTyped ==
  ASSUME TypeOK, Collect
  PROVE  /\ sharedBox' = <<>> /\ sharedPty' = <<>>
         /\ localPty' \in Seq(Priority)
         /\ localBox' \in Seq(Ordinary)
         /\ Users(localBox') <= Users(localBox) + Users(sharedBox)
         /\ owner' \in {"out", "enter"}
         /\ want' \in SUBSET Tags /\ mode' \in Modes /\ timedOut' \in BOOLEAN
<1> DEFINE pty == localPty \o sharedPty
           scanned == pty = <<>> /\ Hits(sharedBox, want) # {}
           taken == IF scanned THEN Scanned(sharedBox, want) ELSE sharedBox
<1>1. pty \in Seq(Priority) /\ localBox \in Seq(Ordinary) /\ sharedBox \in Seq(Ordinary)
  BY ConcatProperties DEF TypeOK, Ordinary
<1>2. pty # <<>> => Tail(pty) \in Seq(Priority)
  BY <1>1, HeadTailProperties
<1>3. taken \in Seq(Ordinary) /\ Users(taken) <= Users(sharedBox)
  <2>1. Users(sharedBox) \in Nat
    BY <1>1, UsersCounted
  <2>2. QED
    BY <1>1, <2>1, ScannedIs
<1>4. localBox \o taken \in Seq(Ordinary)
  BY <1>1, <1>3, ConcatProperties
<1>5. /\ Users(localBox \o taken) <= Users(localBox) + Users(taken)
      /\ Users(localBox \o taken) \in Nat /\ Users(localBox) \in Nat
      /\ Users(taken) \in Nat /\ Users(sharedBox) \in Nat
  BY <1>1, <1>3, <1>4, UsersJoined, UsersCounted
<1>6. localBox' = localBox \o taken
  BY DEF Collect
<1>7. localPty' = pty \/ (pty # <<>> /\ localPty' = Tail(pty))
  BY DEF Collect
<1> HIDE DEF pty, scanned, taken
<1>8. /\ owner' \in {"out", "enter"}
      /\ want' \in SUBSET Tags /\ mode' \in Modes /\ timedOut' \in BOOLEAN
  BY DEF Collect, Returns, TypeOK, Modes
<1>9. sharedBox' = <<>> /\ sharedPty' = <<>>
  BY DEF Collect
<1>10. Users(localBox') <= Users(localBox) + Users(sharedBox)
  BY <1>3, <1>5, <1>6
<1>11. localPty' \in Seq(Priority)
  BY <1>1, <1>2, <1>7
<1>12. QED
  BY <1>4, <1>6, <1>8, <1>9, <1>10, <1>11

LEMMA AccountedTyped ==
  ASSUME NEW val \in Int
  PROVE  Accounted(val, 1) \in Int /\ Accounted(val, All) \in Int /\ Accounted(val, All) >= 0
BY DEF Accounted, HasWaiters, All

LEMMA OneAccounted ==
  ASSUME NEW val \in {-1, 0}
  PROVE  Accounted(val, 1) = 0
BY DEF Accounted, HasWaiters

\* The owner's critical section, whichever wait it comes from.
LEMMA AwaitTyped ==
  ASSUME TypeOK, QueueInv, NEW count \in Nat, AwaitMessage(count)
  PROVE  /\ at' \in [Senders -> SenderPlaces]
         /\ \A s \in Senders : at'[s] = "out" <=> at[s] = "out"
         /\ notFull' \in Int /\ putMsg' \in Int
         /\ owner' \in {"out", "about"}
         /\ want' \in SUBSET Tags /\ mode' \in Modes /\ timedOut' \in BOOLEAN
<1>1. putMsg \in Int /\ notFull \in Int /\ at \in [Senders -> SenderPlaces]
  BY DEF TypeOK
<1>2. owner' \in {"out", "about"} /\ putMsg' \in Int
  BY <1>1 DEF AwaitMessage, Returns, Announced
<1>3. want' \in SUBSET Tags /\ mode' \in Modes
  BY DEF AwaitMessage, Returns, TypeOK, Modes
<1>5. timedOut' \in BOOLEAN
  BY DEF AwaitMessage, Returns
<1>4. /\ at' \in [Senders -> SenderPlaces] /\ notFull' \in Int
      /\ \A s \in Senders : at'[s] = "out" <=> at[s] = "out"
  <2>1. Accounted(notFull, All) \in Int
    BY <1>1, AccountedTyped
  <2>2. CASE NotifyAllSenders
    BY <1>1, <2>1, <2>2 DEF NotifyAllSenders, SenderPlaces
  <2>3. CASE UNCHANGED <<notFull, at>>
    BY <1>1, <2>3
  <2>4. QED
    BY <2>2, <2>3 DEF AwaitMessage
<1>6. QED
  BY <1>2, <1>3, <1>4, <1>5

\* Nobody comes to wait for room or ceases to.
LEMMA QueueUntouched ==
  ASSUME QueueInv, putQueue' = putQueue, inHand' = inHand,
         \A s \in Senders : at'[s] = "out" <=> at[s] = "out"
  PROVE  QueueInv'
BY DEF QueueInv, Queued

LEMMA StepTyped ==
  ASSUME TypeOK, QueueInv, [Next]_vars
  PROVE  TypeOK' /\ QueueInv'
<1> USE DEF boxes, limit, receiving
<1>1. ASSUME NEW s \in Senders, NEW m \in Messages, Put(s, m)
      PROVE  TypeOK' /\ QueueInv'
  BY <1>1, PutDeposits, DepositTyped
<1>2. ASSUME NEW s \in Senders, Resume(s)
      PROVE  TypeOK' /\ QueueInv'
  BY <1>2, ResumeDeposits, DepositTyped
<1>3. ASSUME NEW s \in Senders, SenderArbitrates(s)
      PROVE  TypeOK' /\ QueueInv'
  BY <1>3, QueueUntouched DEF SenderArbitrates, TypeOK, SenderPlaces
<1>4. ASSUME NEW num \in Limits, NEW onMaxMsgs \in {"block", "drop"},
             SetMaxMsgs(num, onMaxMsgs)
      PROVE  TypeOK' /\ QueueInv'
  BY <1>4, QueueUntouched DEF SetMaxMsgs, TypeOK
<1>5. ASSUME NEW types \in Wants, Receive(types)
      PROVE  TypeOK' /\ QueueInv'
  <2>1. CASE ReceivePriority(types)
    <3>1. localPty' \in Seq(Priority)
      BY <2>1, HeadTailProperties DEF ReceivePriority, TypeOK
    <3>2. QED
      BY <2>1, <3>1, QueueUntouched DEF ReceivePriority, TypeOK
  <2>2. CASE ReceiveLocal(types)
    <3>1. localBox' \in Seq(Standard \cup Control)
      BY <2>2, ScannedIs DEF ReceiveLocal, TypeOK
    <3>2. QED
      BY <2>2, <3>1, QueueUntouched DEF ReceiveLocal, TypeOK
  <2>3. ASSUME NEW timeout \in Modes, BeginReceive(types, timeout)
        PROVE  TypeOK' /\ QueueInv'
    BY <2>3, WantsAssumption, QueueUntouched
       DEF BeginReceive, TypeOK, WantsAssumption, OwnerPlaces
  <2>4. QED
    BY <1>5, <2>1, <2>2, <2>3 DEF Receive
<1>6. CASE Enter \/ Reenter
  <2>1. localMsgs' \in Nat
    BY <1>6, LenProperties DEF Enter, Reenter, TypeOK
  <2>2. ASSUME AwaitMessage(localMsgs')
        PROVE  TypeOK' /\ QueueInv'
    <3>1. /\ at' \in [Senders -> SenderPlaces]
          /\ \A s \in Senders : at'[s] = "out" <=> at[s] = "out"
          /\ notFull' \in Int /\ putMsg' \in Int
          /\ owner' \in {"out", "about"}
          /\ want' \in SUBSET Tags /\ mode' \in Modes /\ timedOut' \in BOOLEAN
      <4>1. PICK n : n = localMsgs'
        OBVIOUS
      <4>2. n \in Nat /\ AwaitMessage(n)
        BY <2>1, <2>2, <4>1
      <4>3. QED
        BY <4>2, AwaitTyped
    <3>2. /\ UNCHANGED <<sharedBox, sharedPty, localBox, localPty, maxMsgs, crowding,
                         closed, putQueue, inHand>>
          /\ relaxed' = FALSE
      BY <2>2 DEF AwaitMessage
    <3>3. QED
      BY <2>1, <3>1, <3>2, QueueUntouched DEF TypeOK, OwnerPlaces
  <2>3. CASE Collect
    <3>1. UNCHANGED <<maxMsgs, crowding, closed, putQueue, putMsg, notFull, at, inHand, relaxed>>
      BY <2>3 DEF Collect
    <3>2. /\ sharedBox' = <<>> /\ sharedPty' = <<>>
          /\ localPty' \in Seq(Priority)
          /\ localBox' \in Seq(Standard \cup Control)
          /\ owner' \in {"out", "enter"}
          /\ want' \in SUBSET Tags /\ mode' \in Modes /\ timedOut' \in BOOLEAN
      BY <2>3, CollectTyped DEF Ordinary
    <3>3. QED
      BY <2>1, <3>1, <3>2, QueueUntouched, EmptySeq DEF TypeOK, OwnerPlaces
  <2>4. QED
    BY <1>6, <2>2, <2>3 DEF Enter, Reenter
<1>7. CASE GiveUp \/ OwnerArbitrates \/ EndWait \/ TimeOut
  <2>1. CASE GiveUp
    BY <2>1, QueueUntouched DEF GiveUp, Returns, TypeOK, OwnerPlaces, Modes
  <2>2. CASE OwnerArbitrates
    BY <2>2, QueueUntouched DEF OwnerArbitrates, TypeOK, OwnerPlaces
  <2>3. CASE EndWait
    <3>1. putMsg' \in Int
      BY <2>3, AccountedTyped DEF EndWait, TypeOK
    <3>2. timedOut' \in BOOLEAN
      BY <2>3 DEF EndWait, HasWaiters
    <3>3. QED
      BY <2>3, <3>1, <3>2, QueueUntouched DEF EndWait, TypeOK, OwnerPlaces
  <2>4. CASE TimeOut
    BY <2>4, QueueUntouched DEF TimeOut, TypeOK, OwnerPlaces
  <2>5. QED
    BY <1>7, <2>1, <2>2, <2>3, <2>4
<1>8. CASE Close
  BY <1>8, QueueUntouched, EmptySeq DEF Close, TypeOK, OwnerPlaces
<1>9. CASE UNCHANGED vars
  BY <1>9, QueueUntouched DEF vars, TypeOK
<1>10. QED
  BY <1>1, <1>2, <1>3, <1>4, <1>5, <1>6, <1>7, <1>8, <1>9 DEF Next, Sender, InGet

LEMMA InitTyped ==
  ASSUME Init
  PROVE  TypeOK /\ QueueInv
<1>1. <<>> \in Seq(Priority) /\ <<>> \in Seq(Standard \cup Control)
  BY EmptySeq
<1>2. TypeOK
  <2>1. /\ at \in [Senders -> SenderPlaces]
        /\ inHand \in [Senders -> Standard \cup {NoMessage}]
    BY DEF Init, SenderPlaces
  <2>2. /\ sharedBox \in Seq(Standard \cup Control)
        /\ localBox \in Seq(Standard \cup Control)
        /\ sharedPty \in Seq(Priority) /\ localPty \in Seq(Priority)
    BY <1>1 DEF Init
  <2>3. owner \in OwnerPlaces /\ want \in SUBSET Tags /\ mode \in Modes
    BY DEF Init, OwnerPlaces, Modes
  <2>4. /\ timedOut \in BOOLEAN /\ relaxed \in BOOLEAN /\ closed \in BOOLEAN
        /\ maxMsgs \in Limits /\ crowding \in {"block", "drop"}
    BY DEF Init
  <2>5. localMsgs \in Nat /\ putQueue \in Nat /\ putMsg \in Int /\ notFull \in Int
    BY DEF Init
  <2>6. QED
    BY <2>1, <2>2, <2>3, <2>4, <2>5 DEF TypeOK
<1>3. Queued = {}
  BY DEF Init, Queued
<1>4. QED
  BY <1>2, <1>3, FS_EmptySet DEF Init, QueueInv

\* The variables have their types and m_putQueue counts who waits for room.
THEOREM TypeCorrect == Spec => []TypeOK
<1>1. Init => TypeOK /\ QueueInv
  BY InitTyped
<1>2. TypeOK /\ QueueInv /\ [Next]_vars => TypeOK' /\ QueueInv'
  BY StepTyped
<1>3. QED
  BY <1>1, <1>2, PTL DEF Spec
-----------------------------------------------------------------------------
\* Whoever sleeps is counted, and the owner's CondVar counts nobody else.
CountedInv ==
  /\ (\E s \in Senders : at[s] = "asleep") => notFull < 0
  /\ putMsg \in {-1, 0}
  /\ putMsg = -1 => owner \in {"about", "asleep", "endWait"}
  /\ owner = "asleep" => putMsg = -1

\* From the moment the owner announces its wait until it is notified there is
\* nothing for it to look at, and no sender is, or is to be, put to sleep
\* unless for want of room.
Announces == owner \in {"about", "asleep"} /\ putMsg = -1

Held(s) == at[s] = "asleep" \/ (at[s] = "about" /\ notFull < 0)

AttendedInv ==
  Announces =>
    /\ sharedBox = <<>> /\ sharedPty = <<>>
    /\ (\E s \in Senders : Held(s)) => Full(localMsgs) \/ relaxed

WaitInv == CountedInv /\ AttendedInv

LEMMA NotifyAllWakes ==
  ASSUME TypeOK, CountedInv, NotifyAllSenders
  PROVE  /\ notFull' \in Int /\ notFull' >= 0
         /\ \A s \in Senders : at'[s] # "asleep"
<1>1. notFull \in Int /\ at \in [Senders -> SenderPlaces]
  BY DEF TypeOK
<1>2. notFull' = Accounted(notFull, All)
  BY DEF NotifyAllSenders
<1>3. notFull' \in Int /\ notFull' >= 0
  BY <1>1, <1>2, AccountedTyped
<1>4. ASSUME NEW s \in Senders PROVE at'[s] # "asleep"
  <2>1. CASE at[s] = "asleep"
    <3>1. HasWaiters(notFull)
      BY <2>1 DEF CountedInv, HasWaiters
    <3>2. QED
      BY <1>1, <3>1 DEF NotifyAllSenders
  <2>2. CASE at[s] # "asleep"
    BY <1>1, <2>2 DEF NotifyAllSenders
  <2>3. QED
    BY <2>1, <2>2
<1>5. QED
  BY <1>3, <1>4

LEMMA DepositWaits ==
  ASSUME TypeOK, WaitInv, NEW s \in Senders, NEW m \in Messages, NEW queue,
         Deposit(s, m, queue)
  PROVE  WaitInv'
<1>1. putMsg \in {-1, 0} /\ notFull \in Int /\ at \in [Senders -> SenderPlaces]
  BY DEF TypeOK, WaitInv, CountedInv
<1>2. localMsgs' = localMsgs /\ maxMsgs' = maxMsgs /\ relaxed' = relaxed
  BY DEF Deposit, limit
<1>3. CASE Accepted(s, m, queue)
  <2>1. putMsg' = 0
    BY <1>1, <1>3, OneAccounted DEF Accepted, NotifyOwner
  <2>2. owner' # "asleep"
    BY <1>1, <1>3 DEF Accepted, NotifyOwner, WaitInv, CountedInv, HasWaiters
  <2>3. notFull' = notFull /\ \A r \in Senders : at'[r] = "asleep" => at[r] = "asleep"
    BY <1>1, <1>3 DEF Accepted
  <2>4. QED
    BY <2>1, <2>2, <2>3 DEF WaitInv, CountedInv, AttendedInv, Announces
<1>4. CASE Dropped(s, m, queue)
  <2>1. UNCHANGED <<sharedBox, sharedPty, putMsg, notFull, owner>>
    BY <1>4 DEF Dropped
  <2>2. Full(localMsgs)
    BY <1>4 DEF Dropped
  <2>3. Full(localMsgs)'
    BY <1>2, <2>1, <2>2 DEF Full
  <2>4. \A r \in Senders : at'[r] = "asleep" => at[r] = "asleep"
    BY <1>1, <1>4 DEF Dropped
  <2>5. QED
    BY <2>1, <2>3, <2>4 DEF WaitInv, CountedInv, AttendedInv, Announces
<1>5. CASE Waits(s, m, queue)
  <2>1. UNCHANGED <<sharedBox, sharedPty, putMsg, owner>> /\ notFull' = notFull - 1
    BY <1>5 DEF Waits, Announced
  <2>2. Full(localMsgs)
    BY <1>5 DEF Waits
  <2>3. Full(localMsgs)'
    BY <1>2, <2>1, <2>2 DEF Full
  <2>4. \A r \in Senders : at'[r] = "asleep" => at[r] = "asleep"
    BY <1>1, <1>5 DEF Waits
  <2>5. QED
    BY <1>1, <2>1, <2>3, <2>4 DEF WaitInv, CountedInv, AttendedInv, Announces
<1>6. QED
  BY <1>3, <1>4, <1>5 DEF Deposit

\* The owner looks while it holds the mutex, and lets everybody go if there is
\* room, before it announces its wait.
LEMMA AwaitWaits ==
  ASSUME TypeOK, QueueInv, WaitInv, owner \in {"enter", "woken"},
         NEW count \in Nat, localMsgs' = count, AwaitMessage(count)
  PROVE  WaitInv'
<1>1. putMsg = 0 /\ notFull \in Int /\ at \in [Senders -> SenderPlaces]
  BY DEF TypeOK, WaitInv, CountedInv
<1>2. /\ putMsg' \in {-1, 0} /\ owner' \in {"out", "about"}
      /\ putMsg' = -1 => owner' = "about"
  BY <1>1 DEF AwaitMessage, Returns, Announced
<1>3. /\ sharedBox' = <<>> /\ sharedPty' = <<>>
      /\ sharedBox' = sharedBox /\ maxMsgs' = maxMsgs
  BY DEF AwaitMessage, boxes, limit
<1>4. CASE NotifyAllSenders
  BY <1>2, <1>3, <1>4, NotifyAllWakes
     DEF WaitInv, CountedInv, AttendedInv, Announces, Held
<1>5. CASE UNCHANGED <<notFull, at>> /\ Full(count)
  <2>1. Full(localMsgs)'
    BY <1>3, <1>5 DEF Full
  <2>2. QED
    BY <1>2, <1>3, <1>5, <2>1 DEF WaitInv, CountedInv, AttendedInv, Announces
<1>6. CASE UNCHANGED <<notFull, at>> /\ ~(putQueue > 0)
  <2>1. \A s \in Senders : at[s] = "out"
    <3> SUFFICES ASSUME NEW s \in Senders, at[s] # "out" PROVE FALSE
      OBVIOUS
    <3>1. Cardinality(Queued) = Cardinality(Queued \ {s}) + 1 /\ Cardinality(Queued \ {s}) \in Nat
      BY QueueWithout
    <3>2. QED
      BY <1>6, <3>1 DEF QueueInv
  <2>2. QED
    BY <1>2, <1>3, <1>6, <2>1 DEF WaitInv, CountedInv, AttendedInv, Announces, Held
<1>7. QED
  BY <1>4, <1>5, <1>6 DEF AwaitMessage

LEMMA StepWaits ==
  ASSUME TypeOK, QueueInv, WaitInv, [Next]_vars
  PROVE  WaitInv'
<1> USE DEF boxes, limit, receiving
<1>1. ASSUME NEW s \in Senders, NEW m \in Messages, Put(s, m)
      PROVE  WaitInv'
  BY <1>1, PutDeposits, DepositWaits
<1>2. ASSUME NEW s \in Senders, Resume(s)
      PROVE  WaitInv'
  BY <1>2, ResumeDeposits, DepositWaits
<1>3. ASSUME NEW s \in Senders, SenderArbitrates(s)
      PROVE  WaitInv'
  <2>1. /\ UNCHANGED <<sharedBox, sharedPty, localMsgs, maxMsgs, putMsg, notFull, owner, relaxed>>
        /\ \A r \in Senders : at'[r] = "asleep" => at[r] = "asleep" \/ (at[r] = "about" /\ notFull < 0)
        /\ \A r \in Senders : at'[r] = "about" => at[r] = "about"
    BY <1>3 DEF SenderArbitrates, TypeOK
  <2>2. QED
    BY <2>1 DEF WaitInv, CountedInv, AttendedInv, Announces, Held, Full
<1>4. ASSUME NEW num \in Limits, NEW onMaxMsgs \in {"block", "drop"},
             SetMaxMsgs(num, onMaxMsgs)
      PROVE  WaitInv'
  <2>1. UNCHANGED <<sharedBox, sharedPty, localMsgs, putMsg, notFull, at, owner>>
    BY <1>4 DEF SetMaxMsgs
  <2>2. Full(localMsgs) \/ relaxed => Full(localMsgs)' \/ relaxed'
    <3>1. maxMsgs \in Int /\ num \in Int /\ localMsgs \in Nat /\ Len(sharedBox) \in Nat
      BY LimitsAssumption, LenProperties DEF LimitsAssumption, TypeOK
    <3>2. ASSUME Full(localMsgs), ~Full(localMsgs)'
          PROVE  num = 0 \/ (maxMsgs # 0 /\ maxMsgs < num)
      BY <1>4, <2>1, <3>1, <3>2 DEF SetMaxMsgs, Full
    <3>3. relaxed' = (relaxed \/ num = 0 \/ (maxMsgs # 0 /\ maxMsgs < num))
      BY <1>4 DEF SetMaxMsgs
    <3>4. QED
      BY <3>2, <3>3
  <2>3. QED
    BY <2>1, <2>2 DEF WaitInv, CountedInv, AttendedInv, Announces, Held
<1>5. ASSUME NEW types \in Wants, Receive(types)
      PROVE  WaitInv'
  <2>1. /\ UNCHANGED <<putMsg, notFull, at>>
        /\ owner = "out" /\ owner' \in {"out", "enter"}
    BY <1>5 DEF Receive, ReceivePriority, ReceiveLocal, BeginReceive
  <2>2. QED
    BY <2>1 DEF WaitInv, CountedInv, AttendedInv, Announces
<1>6. CASE Enter \/ Reenter
  <2>1. localMsgs' \in Nat /\ owner \in {"enter", "woken"}
    BY <1>6, LenProperties DEF Enter, Reenter, TypeOK
  <2>2. ASSUME AwaitMessage(localMsgs')
        PROVE  WaitInv'
    <3>1. PICK n : n = localMsgs'
      OBVIOUS
    <3>2. n \in Nat /\ AwaitMessage(n)
      BY <2>1, <2>2, <3>1
    <3>3. QED
      BY <2>1, <3>1, <3>2, AwaitWaits
  <2>3. CASE Collect
    <3>1. UNCHANGED <<putMsg, notFull, at>> /\ owner' \in {"out", "enter"}
      BY <2>3, CollectTyped DEF Collect
    <3>2. QED
      BY <2>1, <3>1 DEF WaitInv, CountedInv, AttendedInv, Announces
  <2>4. QED
    BY <1>6, <2>2, <2>3 DEF Enter, Reenter
<1>7. CASE GiveUp
  BY <1>7 DEF GiveUp, Returns, WaitInv, CountedInv, AttendedInv, Announces
<1>8. CASE OwnerArbitrates
  BY <1>8 DEF OwnerArbitrates, WaitInv, CountedInv, AttendedInv, Announces, Held, Full
<1>9. CASE TimeOut
  BY <1>9 DEF TimeOut, WaitInv, CountedInv, AttendedInv, Announces
<1>10. CASE EndWait
  <2>1. putMsg' = 0
    BY <1>10, OneAccounted DEF EndWait, WaitInv, CountedInv
  <2>2. QED
    BY <1>10, <2>1 DEF EndWait, WaitInv, CountedInv, AttendedInv, Announces
<1>11. CASE Close
  BY <1>11 DEF Close, WaitInv, CountedInv, AttendedInv, Announces
<1>12. CASE UNCHANGED vars
  BY <1>12 DEF vars, WaitInv, CountedInv, AttendedInv, Announces, Held, Full
<1>13. QED
  BY <1>1, <1>2, <1>3, <1>4, <1>5, <1>6, <1>7, <1>8, <1>9, <1>10, <1>11, <1>12
     DEF Next, Sender, InGet

LEMMA WaitInvariant == Spec => [](TypeOK /\ QueueInv /\ WaitInv)
<1>1. Init => TypeOK /\ QueueInv /\ WaitInv
  <2> SUFFICES ASSUME Init PROVE TypeOK /\ QueueInv /\ WaitInv
    OBVIOUS
  <2>1. WaitInv
    BY DEF Init, WaitInv, CountedInv, AttendedInv, Announces, Held
  <2>2. QED
    BY <2>1, InitTyped
<1>2. TypeOK /\ QueueInv /\ WaitInv /\ [Next]_vars => (TypeOK /\ QueueInv /\ WaitInv)'
  BY StepTyped, StepWaits
<1>3. QED
  BY <1>1, <1>2, PTL DEF Spec

\* The owner never sleeps in get beside a message it has not looked at
\* (concurrency.d, MessageBox.get and put).
THEOREM SleepersSeen == Spec => []OwnerAttends
<1>1. TypeOK /\ QueueInv /\ WaitInv => OwnerAttends
  BY DEF WaitInv, CountedInv, AttendedInv, Announces, Held, OwnerAttends
<1>2. QED
  BY <1>1, WaitInvariant, PTL

\* Senders do not sleep in put while there is room and the owner sleeps too,
\* unless setMaxMsgs has made the room and told nobody.
THEOREM SendersSeen == Spec => []SendersAttended
<1>1. TypeOK /\ QueueInv /\ WaitInv => SendersAttended
  BY DEF QueueInv, WaitInv, CountedInv, AttendedInv, Announces, Held, SendersAttended
<1>2. QED
  BY <1>1, WaitInvariant, PTL

\* m_putQueue is the number of senders that wait for room, and both condition
\* variables count whoever sleeps on them, so that a notification finds them.
THEOREM QueueCounted == Spec => []QueueExact
<1>1. TypeOK /\ QueueInv /\ WaitInv => QueueExact
  BY DEF QueueInv, WaitInv, CountedInv, AttendedInv, Announces, Held, QueueExact
<1>2. QED
  BY <1>1, WaitInvariant, PTL
-----------------------------------------------------------------------------
\* Only the owner's end closes the mailbox.
ClosedInv ==
  /\ closed <=> owner = "gone"
  /\ LateMessagesFew

LEMMA StepLate ==
  ASSUME TypeOK, QueueInv, ClosedInv, [Next]_vars
  PROVE  ClosedInv'
<1> USE DEF boxes, limit, receiving
<1>1. ASSUME NEW s \in Senders, NEW m \in Messages, NEW queue, Deposit(s, m, queue)
      PROVE  closed' = closed /\ (owner' = "gone" <=> owner = "gone")
  BY <1>1 DEF Deposit, Accepted, NotifyOwner, Dropped, Waits
<1>2. ASSUME NEW s \in Senders, NEW m \in Messages, Put(s, m)
      PROVE  ClosedInv'
  BY <1>2, <1>1 DEF Put, ClosedInv, LateMessagesFew
<1>3. ASSUME NEW s \in Senders, Resume(s)
      PROVE  ClosedInv'
  <2>1. /\ inHand[s] \in Standard /\ inHand[s] \in Messages
        /\ putQueue - 1 = Cardinality(Queued \ {s})
        /\ Deposit(s, inHand[s], putQueue - 1)
    BY <1>3, ResumeDeposits
  <2>2. closed' = closed /\ (owner' = "gone" <=> owner = "gone")
    BY <2>1, <1>1
  <2>3. Cardinality(Queued) = Cardinality(Queued \ {s}) + 1 /\ Cardinality(Queued \ {s}) \in Nat
    BY <1>3, QueueWithout DEF Resume
  <2>4. TypeOK' /\ QueueInv'
    BY <2>1, DepositTyped
  <2>5. Len(sharedBox') + putQueue' <= Len(sharedBox) + putQueue
    <3>1. sharedBox \in Seq(Ordinary) /\ Len(sharedBox) \in Nat /\ putQueue \in Nat
      BY LenProperties DEF TypeOK, Ordinary
    <3>2. CASE Accepted(s, inHand[s], putQueue - 1)
      <4>1. inHand[s] \in Ordinary /\ inHand[s].kind # "priority"
        BY <2>1, Kinds DEF Ordinary
      <4>2. sharedBox' = Append(sharedBox, inHand[s]) /\ putQueue' = putQueue - 1
        BY <3>2, <4>1 DEF Accepted
      <4>3. Len(sharedBox') = Len(sharedBox) + 1
        BY <3>1, <4>1, <4>2, AppendProperties
      <4>4. QED
        BY <3>1, <4>2, <4>3
    <3>3. CASE Dropped(s, inHand[s], putQueue - 1)
      BY <3>1, <3>3 DEF Dropped
    <3>4. CASE Waits(s, inHand[s], putQueue - 1)
      BY <3>1, <3>4 DEF Waits
    <3>5. QED
      BY <2>1, <3>2, <3>3, <3>4 DEF Deposit
  <2>6. Len(sharedBox') \in Nat /\ Len(sharedBox) \in Nat /\ Cardinality(Senders) \in Nat
    BY <2>4, LenProperties, QueueWithout DEF TypeOK
  <2>7. /\ putQueue = Cardinality(Queued) /\ putQueue' = Cardinality(Queued')
        /\ putQueue \in Nat /\ putQueue' \in Nat
    BY <2>4 DEF QueueInv, TypeOK
  <2>8. QED
    BY <2>2, <2>5, <2>6, <2>7 DEF ClosedInv, LateMessagesFew
<1>4. ASSUME NEW s \in Senders, SenderArbitrates(s)
      PROVE  ClosedInv'
  <2>1. UNCHANGED <<closed, owner, sharedBox>>
    BY <1>4 DEF SenderArbitrates
  <2>2. Queued' = Queued
    BY <1>4 DEF SenderArbitrates, Queued, TypeOK
  <2>3. QED
    BY <2>1, <2>2 DEF ClosedInv, LateMessagesFew
<1>5. ASSUME NEW num \in Limits, NEW onMaxMsgs \in {"block", "drop"},
             SetMaxMsgs(num, onMaxMsgs)
      PROVE  ClosedInv'
  BY <1>5 DEF SetMaxMsgs, ClosedInv, LateMessagesFew, Queued
<1>6. ASSUME NEW types \in Wants, Receive(types)
      PROVE  ClosedInv'
  BY <1>6 DEF Receive, ReceivePriority, ReceiveLocal, BeginReceive, ClosedInv, LateMessagesFew
<1>7. CASE Enter \/ Reenter
  BY <1>7 DEF Enter, Reenter, AwaitMessage, Collect, Returns, ClosedInv, LateMessagesFew
<1>8. CASE GiveUp \/ OwnerArbitrates \/ EndWait \/ TimeOut
  BY <1>8 DEF GiveUp, OwnerArbitrates, EndWait, TimeOut, Returns, ClosedInv, LateMessagesFew
<1>9. CASE Close
  <2>1. Queued' = Queued /\ sharedBox' = <<>> /\ closed' /\ owner' = "gone"
    BY <1>9 DEF Close, Queued
  <2>2. Cardinality(Queued) \in Nat /\ Cardinality(Queued) <= Cardinality(Senders)
    BY SendersAssumption, FS_Subset, FS_CardinalityType DEF SendersAssumption, Queued
  <2>3. Len(<<>>) = 0
    BY EmptySeq
  <2>4. QED
    BY <2>1, <2>2, <2>3 DEF ClosedInv, LateMessagesFew
<1>10. CASE UNCHANGED vars
  BY <1>10 DEF vars, ClosedInv, LateMessagesFew, Queued
<1>11. QED
  BY <1>2, <1>3, <1>4, <1>5, <1>6, <1>7, <1>8, <1>9, <1>10 DEF Next, Sender, InGet

\* A closed mailbox takes in at most one message of each sender that was
\* waiting for room when it was closed.
THEOREM FewLate == Spec => []LateMessagesFew
<1>1. Init => TypeOK /\ QueueInv /\ ClosedInv
  BY InitTyped DEF Init, ClosedInv, LateMessagesFew
<1>2. TypeOK /\ QueueInv /\ ClosedInv /\ [Next]_vars => (TypeOK /\ QueueInv /\ ClosedInv)'
  BY StepTyped, StepLate
<1>3. ClosedInv => LateMessagesFew
  BY DEF ClosedInv
<1>4. QED
  BY <1>1, <1>2, <1>3, PTL DEF Spec
-----------------------------------------------------------------------------
\* What makes the bound inductive, for the users' messages the owner has (L)
\* and those still shared (S): a sender compares S with room that the owner's
\* last count leaves, which the local list has outgrown by one full shared
\* list at most; while the owner is in its critical sections it has not.
BoundInv ==
  LET L == Users(localBox)
      S == Users(sharedBox)
  IN  /\ S > 0 => localMsgs + S <= MaxLimit
      /\ L <= localMsgs + MaxLimit
      /\ L + S <= 2 * MaxLimit
      /\ owner \in {"about", "asleep", "endWait", "woken"} => L <= localMsgs

LEMMA ListsTyped ==
  ASSUME TypeOK
  PROVE  /\ sharedBox \in Seq(Ordinary) /\ localBox \in Seq(Ordinary)
         /\ Len(sharedBox) \in Nat /\ Len(localBox) \in Nat /\ localMsgs \in Nat
         /\ Users(sharedBox) \in Nat /\ Users(localBox) \in Nat
         /\ Users(sharedBox) <= Len(sharedBox) /\ Users(localBox) <= Len(localBox)
         /\ MaxLimit \in Nat /\ maxMsgs \in 0 .. MaxLimit
<1>1. sharedBox \in Seq(Ordinary) /\ localBox \in Seq(Ordinary)
  BY DEF TypeOK, Ordinary
<1>2. maxMsgs \in 0 .. MaxLimit /\ MaxLimit \in Nat /\ localMsgs \in Nat
  BY LimitsAssumption DEF LimitsAssumption, TypeOK
<1>3. Len(sharedBox) \in Nat /\ Len(localBox) \in Nat
  BY <1>1, LenProperties
<1>4. QED
  BY <1>1, <1>2, <1>3, UsersCounted

LEMMA DepositBounded ==
  ASSUME TypeOK, 0 \notin Limits, BoundInv, NEW s \in Senders, NEW m \in Messages,
         NEW queue, Deposit(s, m, queue)
  PROVE  BoundInv'
<1>1. UNCHANGED <<localBox, localMsgs>>
  BY DEF Deposit
<1>2. owner' \in {"about", "asleep", "endWait", "woken"} =>
        owner \in {"about", "asleep", "endWait", "woken"}
  BY DEF Deposit, Accepted, NotifyOwner, Dropped, Waits
<1>3. CASE sharedBox' = sharedBox
  BY <1>1, <1>2, <1>3 DEF BoundInv
<1>4. CASE sharedBox' = Append(sharedBox, m) /\ m \in Ordinary
  <2>1. Users(sharedBox') = Users(sharedBox) + (IF m.kind = "standard" THEN 1 ELSE 0)
    BY <1>4, ListsTyped, UsersAppended
  <2>2. CASE m.kind # "standard"
    <3>1. Users(sharedBox') = Users(sharedBox)
      BY <2>1, <2>2, ListsTyped
    <3>2. QED
      BY <1>1, <1>2, <3>1 DEF BoundInv
  <2>3. CASE m.kind = "standard"
    <3>1. maxMsgs # 0
      BY DEF TypeOK
    <3>2. ~Full(localMsgs)
      <4>1. Accepted(s, m, queue)
        <5>1. sharedBox' # sharedBox
          BY <2>1, <2>3, ListsTyped
        <5>2. QED
          BY <5>1 DEF Deposit, Dropped, Waits
      <4>2. QED
        BY <2>3, <4>1 DEF Accepted
    <3>3. localMsgs + Users(sharedBox) + 1 <= MaxLimit
      BY <3>1, <3>2, ListsTyped DEF Full
    <3>4. Users(sharedBox') = Users(sharedBox) + 1
      BY <2>1, <2>3
    <3>5. QED
      BY <1>1, <1>2, <3>3, <3>4, ListsTyped, SMTT(20) DEF BoundInv
  <2>4. QED
    BY <2>2, <2>3
<1>5. QED
  <2>1. m.kind # "priority" => m \in Ordinary
    BY Kinds
  <2>2. QED
    BY <1>3, <1>4, <2>1 DEF Deposit, Accepted, Dropped, Waits

LEMMA StepBounded ==
  ASSUME TypeOK, QueueInv, 0 \notin Limits, BoundInv, [Next]_vars
  PROVE  BoundInv'
<1> USE DEF boxes, limit, receiving
<1>1. ASSUME NEW s \in Senders, NEW m \in Messages, Put(s, m)
      PROVE  BoundInv'
  BY <1>1, PutDeposits, DepositBounded
<1>2. ASSUME NEW s \in Senders, Resume(s)
      PROVE  BoundInv'
  BY <1>2, ResumeDeposits, DepositBounded
<1>3. ASSUME NEW s \in Senders, SenderArbitrates(s)
      PROVE  BoundInv'
  BY <1>3 DEF SenderArbitrates, BoundInv
<1>4. ASSUME NEW num \in Limits, NEW onMaxMsgs \in {"block", "drop"},
             SetMaxMsgs(num, onMaxMsgs)
      PROVE  BoundInv'
  BY <1>4 DEF SetMaxMsgs, BoundInv
<1>5. ASSUME NEW types \in Wants, Receive(types)
      PROVE  BoundInv'
  <2>1. UNCHANGED <<sharedBox, localMsgs>> /\ owner' \in {"out", "enter"}
    BY <1>5 DEF Receive, ReceivePriority, ReceiveLocal, BeginReceive
  <2>2. Users(localBox') \in Nat /\ Users(localBox') <= Users(localBox)
    <3>1. CASE localBox' = localBox
      BY <3>1, ListsTyped
    <3>2. CASE ReceiveLocal(types)
      <4>1. Scanned(localBox, types) \in Seq(Ordinary)
            /\ Users(Scanned(localBox, types)) <= Users(localBox)
        BY <3>2, ListsTyped, ScannedIs DEF ReceiveLocal
      <4>2. QED
        BY <3>2, <4>1, UsersCounted DEF ReceiveLocal
    <3>3. QED
      BY <1>5, <3>1, <3>2 DEF Receive, ReceivePriority, BeginReceive
  <2>3. QED
    BY <2>1, <2>2, ListsTyped DEF BoundInv
<1>6. CASE Enter \/ Reenter
  <2>1. localMsgs' \in Nat /\ Users(localBox) <= localMsgs'
    BY <1>6, ListsTyped DEF Enter, Reenter, BoundInv
  <2>2. CASE AwaitMessage(localMsgs')
    <3>1. UNCHANGED <<sharedBox, localBox>> /\ sharedBox = <<>>
      BY <2>2 DEF AwaitMessage
    <3>2. Users(sharedBox) = 0
      BY <3>1, NoUsers
    <3>3. QED
      BY <2>1, <3>1, <3>2, ListsTyped DEF BoundInv
  <2>3. CASE Collect
    <3>1. /\ sharedBox' = <<>> /\ owner' \in {"out", "enter"}
          /\ localBox' \in Seq(Ordinary)
          /\ Users(localBox') <= Users(localBox) + Users(sharedBox)
      BY <2>3, CollectTyped
    <3>2. Users(sharedBox') = 0
      BY <3>1, NoUsers
    <3>3. Users(localBox') \in Nat
      BY <3>1, UsersCounted
    <3>4. Users(sharedBox) <= MaxLimit
      BY ListsTyped DEF BoundInv
    <3>5. QED
      BY <2>1, <3>1, <3>2, <3>3, <3>4, ListsTyped, SMTT(20) DEF BoundInv
  <2>4. QED
    BY <1>6, <2>2, <2>3 DEF Enter, Reenter
<1>7. CASE GiveUp \/ OwnerArbitrates \/ EndWait \/ TimeOut
  BY <1>7 DEF GiveUp, OwnerArbitrates, EndWait, TimeOut, Returns, BoundInv
<1>8. CASE Close
  <2>1. Users(sharedBox') = 0 /\ Users(localBox') = 0 /\ localMsgs' = localMsgs
        /\ owner' = "gone"
    BY <1>8, NoUsers DEF Close
  <2>2. QED
    BY <2>1, ListsTyped DEF BoundInv
<1>9. CASE UNCHANGED vars
  BY <1>9 DEF vars, BoundInv
<1>10. QED
  BY <1>1, <1>2, <1>3, <1>4, <1>5, <1>6, <1>7, <1>8, <1>9 DEF Next, Sender, InGet

\* However the limit is changed, and however many messages it does not apply
\* to, a mailbox holds at most twice the largest limit of users' messages.
THEOREM TwiceTheLimit == Spec => []UsersBounded
<1>1. Init => TypeOK /\ QueueInv /\ BoundInv
  <2>1. Init => BoundInv
    BY NoUsers, LimitsAssumption DEF Init, BoundInv, LimitsAssumption
  <2>2. QED
    BY <2>1, InitTyped
<1>2. CASE 0 \in Limits
  <2>1. UsersBounded
    BY <1>2 DEF UsersBounded
  <2>2. QED
    BY <2>1, PTL
<1>3. CASE 0 \notin Limits
  <2>1. TypeOK /\ QueueInv /\ BoundInv /\ [Next]_vars => (TypeOK /\ QueueInv /\ BoundInv)'
    BY <1>3, StepTyped, StepBounded
  <2>2. BoundInv => UsersBounded
    BY DEF BoundInv, UsersBounded, Users
  <2>3. QED
    BY <1>1, <2>1, <2>2, PTL DEF Spec
<1>4. QED
  BY <1>2, <1>3
-----------------------------------------------------------------------------
\* What a scan takes is the first message it is for.
LEMMA FirstHit ==
  ASSUME NEW M, NEW s \in Seq(M), NEW types, Hits(s, types) # {}
  PROVE  LET k == Min(Hits(s, types)) IN
         /\ k \in 1 .. Len(s)
         /\ Matches(s[k], types)
         /\ \A i \in 1 .. k - 1 : ~Matches(s[i], types)
<1> DEFINE k == Min(Hits(s, types))
<1>1. Hits(s, types) \in SUBSET Nat /\ Hits(s, types) \subseteq 1 .. Len(s) /\ Len(s) \in Nat
  BY LenProperties DEF Hits
<1>2. PICK n \in Hits(s, types) : \A j \in Hits(s, types) : n <= j
  BY <1>1, LeastMember
<1>3. k \in Hits(s, types) /\ \A j \in Hits(s, types) : k <= j
  BY <1>1, <1>2 DEF Min
<1> HIDE DEF k
<1>4. ASSUME NEW i \in 1 .. k - 1
      PROVE  ~Matches(s[i], types)
  <2>1. i \in DOMAIN s /\ i \notin Hits(s, types)
    BY <1>1, <1>3, LenProperties
  <2>2. QED
    BY <2>1 DEF Hits
<1>5. QED
  BY <1>1, <1>3, <1>4 DEF k, Hits

\* Taking an element out of one of two lists is taking it out of both joined.
LEMMA RemoveEarlier ==
  ASSUME NEW M, NEW s \in Seq(M), NEW t \in Seq(M), NEW k \in 1 .. Len(s)
  PROVE  RemoveAt(s \o t, k) = RemoveAt(s, k) \o t
<1> DEFINE u == s \o t
           a == RemoveAt(s, k)
           l == RemoveAt(u, k)
           r == a \o t
<1> Len(s) \in Nat /\ Len(t) \in Nat
  BY LenProperties
<1>1. /\ u \in Seq(M) /\ Len(u) = Len(s) + Len(t)
      /\ \A i \in 1 .. Len(s) + Len(t) : u[i] = IF i <= Len(s) THEN s[i] ELSE t[i - Len(s)]
  BY ConcatProperties
<1>2. /\ a \in Seq(M) /\ Len(a) = Len(s) - 1
      /\ \A i \in 1 .. Len(s) - 1 : a[i] = IF i < k THEN s[i] ELSE s[i + 1]
  BY RemoveAtIs
<1> HIDE DEF u, a
<1>3. /\ l \in Seq(M) /\ Len(l) = Len(u) - 1
      /\ \A i \in 1 .. Len(u) - 1 : l[i] = IF i < k THEN u[i] ELSE u[i + 1]
  <2>1. k \in 1 .. Len(u)
    BY <1>1
  <2>2. QED
    BY <1>1, <2>1, RemoveAtIs
<1>4. /\ r \in Seq(M) /\ Len(r) = Len(a) + Len(t)
      /\ \A i \in 1 .. Len(a) + Len(t) : r[i] = IF i <= Len(a) THEN a[i] ELSE t[i - Len(a)]
  BY <1>2, ConcatProperties
<1> HIDE DEF l, r
<1>5. Len(l) = Len(r) /\ Len(l) = Len(s) + Len(t) - 1
  BY <1>1, <1>2, <1>3, <1>4
<1>6. ASSUME NEW i \in 1 .. Len(l)
      PROVE  l[i] = r[i]
  <2>1. CASE i < k
    <3>1. l[i] = u[i] /\ u[i] = s[i]
      BY <1>1, <1>3, <1>5, <2>1
    <3>2. r[i] = a[i] /\ a[i] = s[i]
      BY <1>2, <1>4, <1>5, <2>1
    <3>3. QED
      BY <3>1, <3>2
  <2>2. CASE i >= k /\ i <= Len(s) - 1
    <3>1. l[i] = u[i + 1] /\ u[i + 1] = s[i + 1]
      BY <1>1, <1>3, <1>5, <2>2
    <3>2. r[i] = a[i] /\ a[i] = s[i + 1]
      BY <1>2, <1>4, <1>5, <2>2, SMTT(20)
    <3>3. QED
      BY <3>1, <3>2
  <2>3. CASE i >= Len(s)
    <3>1. l[i] = u[i + 1] /\ u[i + 1] = t[(i + 1) - Len(s)]
      BY <1>1, <1>3, <1>5, <2>3
    <3>2. r[i] = t[i - (Len(s) - 1)]
      BY <1>2, <1>4, <1>5, <2>3
    <3>3. i - (Len(s) - 1) = (i + 1) - Len(s)
      OBVIOUS
    <3>4. QED
      BY <3>1, <3>2, <3>3
  <2>4. QED
    BY <2>1, <2>2, <2>3
<1>7. QED
  BY <1>3, <1>4, <1>5, <1>6, SeqEqual DEF l, r, u, a

LEMMA RemoveLater ==
  ASSUME NEW M, NEW s \in Seq(M), NEW t \in Seq(M), NEW k \in 1 .. Len(t)
  PROVE  RemoveAt(s \o t, Len(s) + k) = s \o RemoveAt(t, k)
<1> DEFINE u == s \o t
           b == RemoveAt(t, k)
           l == RemoveAt(u, Len(s) + k)
           r == s \o b
<1> Len(s) \in Nat /\ Len(t) \in Nat
  BY LenProperties
<1>1. /\ u \in Seq(M) /\ Len(u) = Len(s) + Len(t)
      /\ \A i \in 1 .. Len(s) + Len(t) : u[i] = IF i <= Len(s) THEN s[i] ELSE t[i - Len(s)]
  BY ConcatProperties
<1>2. /\ b \in Seq(M) /\ Len(b) = Len(t) - 1
      /\ \A i \in 1 .. Len(t) - 1 : b[i] = IF i < k THEN t[i] ELSE t[i + 1]
  BY RemoveAtIs
<1> HIDE DEF u, b
<1>3. /\ l \in Seq(M) /\ Len(l) = Len(u) - 1
      /\ \A i \in 1 .. Len(u) - 1 : l[i] = IF i < Len(s) + k THEN u[i] ELSE u[i + 1]
  <2>1. Len(s) + k \in 1 .. Len(u)
    BY <1>1
  <2>2. QED
    BY <1>1, <2>1, RemoveAtIs
<1>4. /\ r \in Seq(M) /\ Len(r) = Len(s) + Len(b)
      /\ \A i \in 1 .. Len(s) + Len(b) : r[i] = IF i <= Len(s) THEN s[i] ELSE b[i - Len(s)]
  BY <1>2, ConcatProperties
<1> HIDE DEF l, r
<1>5. Len(l) = Len(r) /\ Len(l) = Len(s) + Len(t) - 1
  BY <1>1, <1>2, <1>3, <1>4
<1>6. ASSUME NEW i \in 1 .. Len(l)
      PROVE  l[i] = r[i]
  <2>1. CASE i <= Len(s)
    <3>1. l[i] = u[i] /\ u[i] = s[i]
      BY <1>1, <1>3, <1>5, <2>1
    <3>2. r[i] = s[i]
      BY <1>2, <1>4, <1>5, <2>1
    <3>3. QED
      BY <3>1, <3>2
  <2>2. CASE i > Len(s) /\ i < Len(s) + k
    <3> i \in 1 .. Len(u) - 1 /\ i \in 1 .. Len(s) + Len(t)
      BY <1>1, <1>5
    <3>1. l[i] = u[i] /\ u[i] = t[i - Len(s)]
      BY <1>1, <1>3, <2>2
    <3>2. r[i] = b[i - Len(s)] /\ b[i - Len(s)] = t[i - Len(s)]
      <4>1. r[i] = b[i - Len(s)]
        BY <1>4, <1>5, <2>2
      <4>2. PICK j \in 1 .. Len(t) - 1 : j = i - Len(s) /\ j < k
        BY <1>5, <2>2
      <4>3. b[j] = t[j]
        BY <1>2, <4>2
      <4>4. QED
        BY <4>1, <4>2, <4>3
    <3>3. QED
      BY <3>1, <3>2
  <2>3. CASE i >= Len(s) + k
    <3> i \in 1 .. Len(u) - 1 /\ i + 1 \in 1 .. Len(s) + Len(t)
      BY <1>1, <1>5
    <3>1. l[i] = u[i + 1] /\ u[i + 1] = t[(i + 1) - Len(s)]
      <4>1. l[i] = u[i + 1]
        BY <1>3, <2>3
      <4>2. i + 1 > Len(s)
        BY <2>3
      <4>3. QED
        BY <1>1, <4>1, <4>2
    <3>2. r[i] = b[i - Len(s)] /\ b[i - Len(s)] = t[(i - Len(s)) + 1]
      <4>1. r[i] = b[i - Len(s)]
        BY <1>4, <1>5, <2>3
      <4>2. PICK j \in 1 .. Len(t) - 1 : j = i - Len(s) /\ ~(j < k)
        BY <1>5, <2>3, SMTT(20)
      <4>3. b[j] = t[j + 1]
        BY <1>2, <4>2
      <4>4. QED
        BY <4>1, <4>2, <4>3
    <3>3. (i - Len(s)) + 1 = (i + 1) - Len(s)
      OBVIOUS
    <3>4. QED
      BY <3>1, <3>2, <3>3
  <2>4. QED
    BY <2>1, <2>2, <2>3
<1>7. QED
  BY <1>3, <1>4, <1>5, <1>6, SeqEqual DEF l, r, u, b
-----------------------------------------------------------------------------
\* While the owner waits, none of the messages it has is for it.
ScanInv == owner \notin {"out", "gone"} => Hits(localBox, want) = {}

LEMMA JoinedMisses ==
  ASSUME NEW M, NEW s \in Seq(M), NEW t \in Seq(M), NEW types,
         Hits(s, types) = {}, Hits(t, types) = {}
  PROVE  Hits(s \o t, types) = {}
<1> Len(s) \in Nat /\ Len(t) \in Nat /\ DOMAIN s = 1 .. Len(s) /\ DOMAIN t = 1 .. Len(t)
  BY LenProperties
<1>1. /\ DOMAIN (s \o t) = 1 .. Len(s) + Len(t)
      /\ \A i \in 1 .. Len(s) + Len(t) : (s \o t)[i] = IF i <= Len(s) THEN s[i] ELSE t[i - Len(s)]
  BY ConcatProperties, LenProperties
<1>2. ASSUME NEW i \in 1 .. Len(s) + Len(t)
      PROVE  ~Matches((s \o t)[i], types)
  <2>1. CASE i <= Len(s)
    <3>1. i \in DOMAIN s /\ (s \o t)[i] = s[i]
      BY <1>1, <2>1
    <3>2. QED
      BY <3>1 DEF Hits
  <2>2. CASE i > Len(s)
    <3>1. i - Len(s) \in DOMAIN t /\ (s \o t)[i] = t[i - Len(s)]
      BY <1>1, <2>2
    <3>2. QED
      BY <3>1 DEF Hits
  <2>3. QED
    BY <2>1, <2>2
<1>3. QED
  BY <1>1, <1>2 DEF Hits

LEMMA StepScans ==
  ASSUME TypeOK, ScanInv, [Next]_vars
  PROVE  ScanInv'
<1> USE DEF boxes, limit, receiving
<1>1. ASSUME NEW s \in Senders, NEW m, NEW queue, Deposit(s, m, queue)
      PROVE  ScanInv'
  <2>1. UNCHANGED <<localBox, want>> /\ (owner' \in {"out", "gone"} <=> owner \in {"out", "gone"})
    BY <1>1 DEF Deposit, Accepted, NotifyOwner, Dropped, Waits
  <2>2. QED
    BY <2>1 DEF ScanInv, Hits
<1>2. ASSUME NEW s \in Senders, SenderArbitrates(s)
      PROVE  ScanInv'
  BY <1>2 DEF SenderArbitrates, ScanInv, Hits
<1>3. ASSUME NEW num, NEW onMaxMsgs, SetMaxMsgs(num, onMaxMsgs)
      PROVE  ScanInv'
  BY <1>3 DEF SetMaxMsgs, ScanInv, Hits
<1>4. ASSUME NEW types, Receive(types)
      PROVE  ScanInv'
  BY <1>4 DEF Receive, ReceivePriority, ReceiveLocal, BeginReceive, ScanInv, Hits
<1>5. ASSUME NEW count, AwaitMessage(count), owner = "enter" \/ owner = "woken"
      PROVE  ScanInv'
  BY <1>5 DEF AwaitMessage, Returns, ScanInv, Hits
<1>6. ASSUME Collect, owner = "enter" \/ owner = "woken"
      PROVE  ScanInv'
  <2>1. CASE owner' = "out"
    BY <2>1 DEF ScanInv
  <2>2. CASE owner' # "out"
    <3>1. /\ Hits(sharedBox, want) = {} /\ want' = want
          /\ localBox' = localBox \o sharedBox
      BY <1>6, <2>2, Zenon DEF Collect, Returns
    <3>2. Hits(localBox, want) = {}
      BY <1>6 DEF ScanInv
    <3>3. localBox \in Seq(Ordinary) /\ sharedBox \in Seq(Ordinary)
      BY DEF TypeOK, Ordinary
    <3>4. Hits(localBox \o sharedBox, want) = {}
      BY <3>1, <3>2, <3>3, JoinedMisses
    <3>5. QED
      BY <3>1, <3>4 DEF ScanInv, Hits
  <2>3. QED
    BY <2>1, <2>2
<1>7. CASE GiveUp \/ OwnerArbitrates \/ EndWait \/ TimeOut
  BY <1>7 DEF GiveUp, OwnerArbitrates, EndWait, TimeOut, Returns, ScanInv, Hits
<1>8. CASE Close
  BY <1>8 DEF Close, ScanInv
<1>9. CASE UNCHANGED vars
  BY <1>9 DEF vars, ScanInv, Hits
<1>10. QED
  BY <1>1, <1>2, <1>3, <1>4, <1>5, <1>6, <1>7, <1>8, <1>9
     DEF Next, Sender, InGet, Put, Resume, Enter, Reenter
-----------------------------------------------------------------------------
\* What the users of a mailbox see: the refinement mapping.
Contents == IF closed THEN <<>> ELSE localBox \o sharedBox
Urgent == localPty \o sharedPty
Seen == <<Contents, Urgent, ~closed>>

LEMMA JoinAppended ==
  ASSUME NEW M, NEW s \in Seq(M), NEW t \in Seq(M), NEW m \in M
  PROVE  s \o Append(t, m) = Append(s \o t, m)
<1>1. <<m>> \in Seq(M)
  OBVIOUS
<1>2. Append(t, m) = t \o <<m>>
  BY AppendIsConcat
<1>3. s \o t \in Seq(M)
  BY ConcatProperties
<1>4. Append(s \o t, m) = (s \o t) \o <<m>>
  BY <1>3, AppendIsConcat
<1>5. QED
  BY <1>1, <1>2, <1>4, ConcatAssociative

LEMMA ListsInSeq ==
  ASSUME TypeOK
  PROVE  /\ localBox \in Seq(Ordinary) /\ sharedBox \in Seq(Ordinary)
         /\ localPty \in Seq(Priority) /\ sharedPty \in Seq(Priority)
BY DEF TypeOK, Ordinary

\* A message that is accepted is sent; none other of the ways through put is
\* seen, nor is a late message.
LEMMA DepositImplements ==
  ASSUME TypeOK, NEW s \in Senders, NEW m \in Messages, NEW queue,
         Deposit(s, m, queue), closed => m \in Standard
  PROVE  [MB!Next]_Seen
<1>1. UNCHANGED <<localBox, localPty, closed>>
  BY DEF Deposit
<1>2. CASE Accepted(s, m, queue) /\ m.kind = "priority"
  <2>1. m \in Priority /\ ~closed
    BY <1>2, Kinds
  <2>2. sharedPty' = Append(sharedPty, m) /\ sharedBox' = sharedBox
    BY <1>2 DEF Accepted
  <2>3. Urgent' = Append(Urgent, m)
    BY <1>1, <2>1, <2>2, JoinAppended, ListsInSeq DEF Urgent
  <2>4. Contents' = Contents
    BY <1>1, <2>2 DEF Contents
  <2>5. MB!SendPriority(m)
    BY <1>1, <2>1, <2>3, <2>4 DEF MB!SendPriority, Contents, Urgent
  <2>6. QED
    BY <2>1, <2>5 DEF MB!Next, MB!Priority, Priority
<1>3. CASE Accepted(s, m, queue) /\ m.kind # "priority"
  <2>1. m \in Ordinary
    BY <1>3, Kinds
  <2>2. sharedBox' = Append(sharedBox, m) /\ sharedPty' = sharedPty
    BY <1>3 DEF Accepted
  <2>3. Urgent' = Urgent
    BY <1>1, <2>2 DEF Urgent
  <2>4. CASE closed
    BY <1>1, <2>3, <2>4 DEF Seen, Contents
  <2>5. CASE ~closed
    <3>1. Contents' = Append(Contents, m)
      BY <1>1, <2>1, <2>2, <2>5, JoinAppended, ListsInSeq DEF Contents
    <3>2. MB!Send(m)
      BY <1>1, <2>3, <2>5, <3>1 DEF MB!Send, Contents, Urgent
    <3>3. QED
      BY <2>1, <3>2 DEF MB!Next, MB!Standard, MB!Control, Ordinary, Standard, Control
  <2>6. QED
    BY <2>4, <2>5
<1>4. CASE Dropped(s, m, queue) \/ Waits(s, m, queue)
  BY <1>1, <1>4 DEF Dropped, Waits, Seen, Contents, Urgent
<1>5. QED
  BY <1>2, <1>3, <1>4 DEF Deposit

\* A message that is the first one a receive is for is received.
LEMMA ReceiveImplements ==
  ASSUME TypeOK, NEW types \in SUBSET Tags, ~closed, ~closed',
         NEW i \in DOMAIN (localBox \o sharedBox),
         Matches((localBox \o sharedBox)[i], types),
         \A j \in 1 .. i - 1 : ~Matches((localBox \o sharedBox)[j], types),
         Contents' = RemoveAt(localBox \o sharedBox, i),
         Urgent' = Urgent
  PROVE  [MB!Next]_Seen
<1>1. Contents = localBox \o sharedBox
  BY DEF Contents
<1>2. MB!Receive(types)
  BY <1>1 DEF MB!Receive, MB!Matches, Matches, MB!RemoveAt, RemoveAt, Contents, Urgent
<1>3. QED
  BY <1>2 DEF MB!Next

\* The owner's own list is the first part of what is seen.
LEMMA LocalImplements ==
  ASSUME TypeOK, ClosedInv, NEW types \in Wants, ReceiveLocal(types)
  PROVE  [MB!Next]_Seen
<1> USE DEF boxes, limit, receiving
<1> DEFINE k == Min(Hits(localBox, types))
<1>1. /\ ~closed /\ ~closed' /\ types \in SUBSET Tags
      /\ Hits(localBox, types) # {} /\ localBox' = RemoveAt(localBox, k)
      /\ UNCHANGED <<sharedBox, sharedPty, localPty>>
  BY WantsAssumption DEF WantsAssumption, ClosedInv, ReceiveLocal, Scanned
<1>2. /\ k \in 1 .. Len(localBox) /\ Matches(localBox[k], types)
      /\ \A j \in 1 .. k - 1 : ~Matches(localBox[j], types)
  BY <1>1, FirstHit, ListsInSeq
<1> HIDE DEF k
<1>3. /\ Len(localBox) \in Nat /\ Len(sharedBox) \in Nat
      /\ DOMAIN (localBox \o sharedBox) = 1 .. Len(localBox) + Len(sharedBox)
      /\ \A j \in 1 .. Len(localBox) : (localBox \o sharedBox)[j] = localBox[j]
  BY ListsInSeq, ConcatProperties, LenProperties
<1>4. /\ k \in DOMAIN (localBox \o sharedBox)
      /\ Matches((localBox \o sharedBox)[k], types)
      /\ \A j \in 1 .. k - 1 : ~Matches((localBox \o sharedBox)[j], types)
  BY <1>2, <1>3
<1>5. Contents' = RemoveAt(localBox \o sharedBox, k)
  BY <1>1, <1>2, RemoveEarlier, ListsInSeq DEF Contents
<1>6. Urgent' = Urgent
  BY <1>1 DEF Urgent
<1>7. QED
  BY <1>1, <1>4, <1>5, <1>6, ReceiveImplements

\* What is taken over is seen no differently, but for the one that is received.
LEMMA CollectImplements ==
  ASSUME TypeOK, ClosedInv, ScanInv, Collect, owner = "enter" \/ owner = "woken"
  PROVE  [MB!Next]_Seen
<1> USE DEF boxes, limit, receiving
<1> DEFINE pty == localPty \o sharedPty
           k == Min(Hits(sharedBox, want))
<1>1. /\ ~closed /\ ~closed' /\ sharedBox' = <<>> /\ sharedPty' = <<>>
      /\ localPty' = IF pty # <<>> /\ Matches(Head(pty), want) THEN Tail(pty) ELSE pty
      /\ localBox' = localBox \o
           (IF pty = <<>> /\ Hits(sharedBox, want) # {} THEN RemoveAt(sharedBox, k) ELSE sharedBox)
  BY Zenon DEF Collect, ClosedInv, Scanned
<1>2. pty \in Seq(Priority) /\ Urgent = pty
  BY ListsInSeq, ConcatProperties DEF Urgent
<1> HIDE DEF pty
<1>3. Urgent' = localPty'
  <2>1. localPty' \in Seq(Priority)
    BY <1>1, <1>2, HeadTailProperties
  <2>2. QED
    BY <1>1, <2>1, ConcatEmptySeq DEF Urgent
<1>4. Contents' = localBox'
  <2>1. localBox' \in Seq(Ordinary)
    BY CollectTyped
  <2>2. QED
    BY <1>1, <2>1, ConcatEmptySeq DEF Contents
<1>5. CASE pty = <<>> /\ Hits(sharedBox, want) # {}
  <2>1. /\ k \in 1 .. Len(sharedBox) /\ Matches(sharedBox[k], want)
        /\ \A j \in 1 .. k - 1 : ~Matches(sharedBox[j], want)
    BY <1>5, FirstHit, ListsInSeq
  <2>2. localBox' = localBox \o RemoveAt(sharedBox, k) /\ Urgent' = Urgent
    BY <1>1, <1>2, <1>3, <1>5
  <2> HIDE DEF k
  <2>3. /\ Len(localBox) \in Nat /\ Len(sharedBox) \in Nat
        /\ DOMAIN localBox = 1 .. Len(localBox)
        /\ DOMAIN (localBox \o sharedBox) = 1 .. Len(localBox) + Len(sharedBox)
        /\ \A j \in 1 .. Len(localBox) + Len(sharedBox) :
             (localBox \o sharedBox)[j] =
               IF j <= Len(localBox) THEN localBox[j] ELSE sharedBox[j - Len(localBox)]
    BY ListsInSeq, ConcatProperties, LenProperties
  <2>4. \A j \in 1 .. Len(localBox) : ~Matches(localBox[j], want)
    BY <2>3 DEF ScanInv, Hits
  <2> DEFINE i == Len(localBox) + k
  <2>5. i \in DOMAIN (localBox \o sharedBox) /\ Matches((localBox \o sharedBox)[i], want)
    <3>1. i \in 1 .. Len(localBox) + Len(sharedBox) /\ i > Len(localBox) /\ i - Len(localBox) = k
      BY <2>1, <2>3
    <3>2. (localBox \o sharedBox)[i] = sharedBox[i - Len(localBox)]
      BY <2>3, <3>1
    <3>3. QED
      BY <2>1, <2>3, <3>1, <3>2
  <2>6. ASSUME NEW j \in 1 .. i - 1
        PROVE  ~Matches((localBox \o sharedBox)[j], want)
    <3>1. j \in 1 .. Len(localBox) + Len(sharedBox)
      BY <2>1, <2>3
    <3>2. CASE j <= Len(localBox)
      BY <2>3, <2>4, <3>1, <3>2
    <3>3. CASE j > Len(localBox)
      <4>1. j - Len(localBox) \in 1 .. k - 1
        BY <2>1, <2>3, <3>3
      <4>2. (localBox \o sharedBox)[j] = sharedBox[j - Len(localBox)]
        BY <2>3, <3>1, <3>3
      <4>3. QED
        BY <2>1, <4>1, <4>2
    <3>4. QED
      BY <2>3, <3>1, <3>2, <3>3
  <2>7. Contents' = RemoveAt(localBox \o sharedBox, i)
    BY <1>4, <2>1, <2>2, RemoveLater, ListsInSeq
  <2>8. want \in SUBSET Tags
    BY DEF TypeOK
  <2> HIDE DEF i
  <2>9. QED
    BY <1>1, <2>2, <2>5, <2>6, <2>7, <2>8, ReceiveImplements
<1>6. CASE ~(pty = <<>> /\ Hits(sharedBox, want) # {})
  <2>1. Contents' = Contents
    BY <1>1, <1>4, <1>6 DEF Contents
  <2>2. CASE pty # <<>> /\ Matches(Head(pty), want)
    <3>1. Urgent # <<>> /\ Urgent' = Tail(Urgent)
      BY <1>1, <1>2, <1>3, <2>2
    <3>2. MB!ReceivePriority
      BY <1>1, <2>1, <3>1 DEF MB!ReceivePriority, Contents, Urgent
    <3>3. QED
      BY <3>2 DEF MB!Next
  <2>3. CASE ~(pty # <<>> /\ Matches(Head(pty), want))
    BY <1>1, <1>2, <1>3, <2>1, <2>3 DEF Seen
  <2>4. QED
    BY <2>2, <2>3
<1>7. QED
  BY <1>5, <1>6
-----------------------------------------------------------------------------
LEMMA TailOfJoined ==
  ASSUME NEW M, NEW s \in Seq(M), NEW t \in Seq(M), s # <<>>
  PROVE  s \o t # <<>> /\ Tail(s \o t) = Tail(s) \o t
<1> DEFINE u == s \o t
           l == Tail(u)
           a == Tail(s)
           r == a \o t
<1>1. Len(s) \in Nat \ {0} /\ Len(t) \in Nat
  BY EmptySeq, LenProperties
<1>2. /\ u \in Seq(M) /\ Len(u) = Len(s) + Len(t)
      /\ \A i \in 1 .. Len(s) + Len(t) : u[i] = IF i <= Len(s) THEN s[i] ELSE t[i - Len(s)]
  BY ConcatProperties
<1>3. /\ a \in Seq(M) /\ Len(a) = Len(s) - 1
      /\ \A i \in 1 .. Len(a) : a[i] = s[i + 1]
  BY HeadTailProperties
<1> HIDE DEF u, a
<1>4. u # <<>>
  BY <1>1, <1>2, EmptySeq
<1>5. /\ l \in Seq(M) /\ Len(l) = Len(u) - 1
      /\ \A i \in 1 .. Len(l) : l[i] = u[i + 1]
  BY <1>2, <1>4, HeadTailProperties
<1>6. /\ r \in Seq(M) /\ Len(r) = Len(a) + Len(t)
      /\ \A i \in 1 .. Len(a) + Len(t) : r[i] = IF i <= Len(a) THEN a[i] ELSE t[i - Len(a)]
  BY <1>3, ConcatProperties
<1> HIDE DEF l, r
<1>7. Len(l) = Len(s) + Len(t) - 1 /\ Len(r) = Len(l)
  BY <1>1, <1>2, <1>3, <1>5, <1>6
<1>8. ASSUME NEW i \in 1 .. Len(l)
      PROVE  l[i] = r[i]
  <2>1. i \in Nat /\ i + 1 \in 1 .. Len(s) + Len(t) /\ l[i] = u[i + 1]
    BY <1>1, <1>5, <1>7
  <2>2. CASE i <= Len(s) - 1
    <3>1. u[i + 1] = s[i + 1]
      BY <1>1, <1>2, <2>1, <2>2
    <3>2. i \in 1 .. Len(a) /\ r[i] = a[i]
      BY <1>1, <1>3, <1>6, <1>7, <2>1, <2>2
    <3>3. QED
      BY <1>3, <2>1, <3>1, <3>2
  <2>3. CASE i > Len(s) - 1
    <3>1. u[i + 1] = t[(i + 1) - Len(s)]
      BY <1>1, <1>2, <2>1, <2>3
    <3>2. r[i] = t[i - (Len(s) - 1)]
      BY <1>1, <1>3, <1>6, <1>7, <2>1, <2>3
    <3>3. (i + 1) - Len(s) = i - (Len(s) - 1)
      BY <1>1, <2>1
    <3>4. QED
      BY <2>1, <3>1, <3>2, <3>3
  <2>4. QED
    BY <1>1, <2>1, <2>2, <2>3
<1>9. QED
  BY <1>4, <1>5, <1>6, <1>7, <1>8, SeqEqual DEF l, r, u, a

LEMMA StepImplements ==
  ASSUME TypeOK, QueueInv, ClosedInv, ScanInv, [Next]_vars
  PROVE  [MB!Next]_Seen
<1> USE DEF boxes, limit, receiving
<1>1. ASSUME NEW s \in Senders, NEW m \in Messages, Put(s, m)
      PROVE  [MB!Next]_Seen
  BY <1>1, DepositImplements DEF Put
<1>2. ASSUME NEW s \in Senders, Resume(s)
      PROVE  [MB!Next]_Seen
  BY <1>2, ResumeDeposits, DepositImplements
<1>3. ASSUME NEW s \in Senders, SenderArbitrates(s)
      PROVE  [MB!Next]_Seen
  BY <1>3 DEF SenderArbitrates, Seen, Contents, Urgent
<1>4. ASSUME NEW num, NEW onMaxMsgs, SetMaxMsgs(num, onMaxMsgs)
      PROVE  [MB!Next]_Seen
  BY <1>4 DEF SetMaxMsgs, Seen, Contents, Urgent
<1>5. ASSUME NEW types \in Wants, ReceivePriority(types)
      PROVE  [MB!Next]_Seen
  <2>1. /\ ~closed /\ ~closed' /\ localPty # <<>> /\ localPty' = Tail(localPty)
        /\ UNCHANGED <<sharedBox, localBox, sharedPty>>
    BY <1>5 DEF ReceivePriority, ClosedInv
  <2>2. Urgent # <<>> /\ Urgent' = Tail(Urgent)
    BY <2>1, ListsInSeq, TailOfJoined DEF Urgent
  <2>3. MB!ReceivePriority
    BY <2>1, <2>2 DEF MB!ReceivePriority, Contents, Urgent
  <2>4. QED
    BY <2>3 DEF MB!Next
<1>6. ASSUME NEW types \in Wants, ReceiveLocal(types)
      PROVE  [MB!Next]_Seen
  BY <1>6, LocalImplements
<1>7. ASSUME NEW types \in Wants, NEW timeout, BeginReceive(types, timeout)
      PROVE  [MB!Next]_Seen
  BY <1>7 DEF BeginReceive, Seen, Contents, Urgent
<1>8. ASSUME NEW count, AwaitMessage(count)
      PROVE  [MB!Next]_Seen
  BY <1>8 DEF AwaitMessage, Seen, Contents, Urgent
<1>9. CASE Enter \/ Reenter
  BY <1>8, <1>9, CollectImplements DEF Enter, Reenter
<1>10. CASE GiveUp \/ OwnerArbitrates \/ EndWait \/ TimeOut
  BY <1>10 DEF GiveUp, OwnerArbitrates, EndWait, TimeOut, Seen, Contents, Urgent
<1>11. CASE Close
  <2>1. /\ ~closed /\ closed' /\ UNCHANGED <<localPty, sharedPty>>
    BY <1>11 DEF Close, ClosedInv
  <2>2. MB!Close
    BY <2>1 DEF MB!Close
  <2>3. QED
    BY <2>2 DEF MB!Next
<1>12. CASE UNCHANGED vars
  BY <1>12 DEF vars, Seen, Contents, Urgent
<1>13. QED
  BY <1>1, <1>2, <1>3, <1>4, <1>5, <1>6, <1>7, <1>9, <1>10, <1>11, <1>12
     DEF Next, Sender, InGet, Receive

\* No message is lost, reordered or received twice: a mailbox with two lists on
\* either side of a lock is one list to its users, and priority messages one
\* beside it.
THEOREM MailboxImplemented == Spec => ImplementsMailbox
<1>1. Init => TypeOK /\ QueueInv /\ ClosedInv /\ ScanInv
  BY InitTyped DEF Init, ClosedInv, LateMessagesFew, ScanInv
<1>2. TypeOK /\ QueueInv /\ ClosedInv /\ ScanInv /\ [Next]_vars
        => (TypeOK /\ QueueInv /\ ClosedInv /\ ScanInv)'
  BY StepTyped, StepLate, StepScans
<1>3. Init => MB!Init
  BY ConcatEmptySeq, EmptySeq DEF Init, MB!Init
<1>4. TypeOK /\ QueueInv /\ ClosedInv /\ ScanInv /\ [Next]_vars
        => [MB!Next]_<<IF closed THEN <<>> ELSE localBox \o sharedBox,
                       localPty \o sharedPty, ~closed>>
  BY StepImplements DEF Seen, Contents, Urgent
<1>5. QED
  BY <1>1, <1>2, <1>3, <1>4, PTL DEF Spec, ImplementsMailbox, MB!Spec
=============================================================================
