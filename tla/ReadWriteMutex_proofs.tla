----------------------- MODULE ReadWriteMutex_proofs -----------------------
(***************************************************************************)
(* Proofs about the readers-writer mutex, for any finite set of threads,   *)
(* either policy and any mix of timed and untimed calls.                   *)
(***************************************************************************)
EXTENDS ReadWriteMutex, CountingLemmas

\* The counting lemmas, for the threads.
LEMMA OneThreadMoves ==
  ASSUME NEW f \in [Threads -> Places], NEW g \in [Threads -> Places],
         NEW P, NEW t \in Threads,
         \A u \in Threads \ {t} : g[u] \in P <=> f[u] \in P
  PROVE  /\ Cardinality(Who(Threads, f, P)) \in Nat
         /\ Cardinality(Who(Threads, g, P)) \in Nat
         /\ Cardinality(Who(Threads, g, P)) =
              Cardinality(Who(Threads, f, P)) + (IF g[t] \in P THEN 1 ELSE 0)
                                              - (IF f[t] \in P THEN 1 ELSE 0)
<1>1. IsFiniteSet(Threads)
  BY RWAssumption DEF RWAssumption
<1>2. QED
  BY <1>1, OneMoves, Zenon

LEMMA SomeThreads ==
  ASSUME NEW f, NEW P
  PROVE  /\ Cardinality(Who(Threads, f, P)) \in Nat
         /\ Cardinality(Who(Threads, f, P)) > 0 <=> \E t \in Threads : f[t] \in P
<1>1. IsFiniteSet(Threads)
  BY RWAssumption DEF RWAssumption
<1>2. QED
  BY <1>1, SomeCounted

-----------------------------------------------------------------------------
\* What a place counts as: a thread counts as queued all through its wait and
\* after it.
Group(p) ==
  IF p \in QueuedReader THEN "rqueued"
  ELSE IF p \in QueuedWriter THEN "wqueued" ELSE p

\* How the step of thread t changes the size of group g.
Entered(t, g) ==
  (IF Group(at'[t]) = g THEN 1 ELSE 0) - (IF Group(at[t]) = g THEN 1 ELSE 0)

\* A step that moves at most one thread between groups, and adjusts the
\* counters by that thread's move, keeps the counters exact.
LEMMA CountersKept ==
  ASSUME TypeOK, CountersExact, NEW t \in Threads,
         policy' = policy, at' \in [Threads -> Places],
         \A u \in Threads \ {t} : Group(at'[u]) = Group(at[u]),
         numActiveReaders' = numActiveReaders + Entered(t, "reading"),
         numActiveWriters' = numActiveWriters + Entered(t, "writing"),
         numQueuedReaders' = numQueuedReaders + Entered(t, "rqueued"),
         numQueuedWriters' = numQueuedWriters + Entered(t, "wqueued"),
         readerQueue' \in Int, writerQueue' \in Int, gaveUp' \in BOOLEAN,
         deadline' \in [Threads -> {"none", "ahead", "over"}]
  PROVE  TypeOK' /\ CountersExact'
<1> DEFINE Count(f, P) == Cardinality(Who(Threads, f, P))
<1> at \in [Threads -> Places]
  BY DEF TypeOK
<1>1. /\ numActiveReaders' = Count(at', {"reading"})
      /\ Count(at', {"reading"}) \in Nat
  <2>1. /\ \A u \in Threads : at[u] \in {"reading"} <=> Group(at[u]) = "reading"
        /\ \A u \in Threads : at'[u] \in {"reading"} <=> Group(at'[u]) = "reading"
    BY DEF Group, QueuedReader, QueuedWriter, ReaderWaits, WriterWaits
  <2>2. numActiveReaders = Count(at, {"reading"})
    BY DEF CountersExact, In, Who
  <2>3. \A u \in Threads \ {t} : at'[u] \in {"reading"} <=> at[u] \in {"reading"}
    BY <2>1
  <2>4. /\ Count(at, {"reading"}) \in Nat /\ Count(at', {"reading"}) \in Nat
        /\ Count(at', {"reading"}) = Count(at, {"reading"}) + (IF at'[t] \in {"reading"} THEN 1 ELSE 0)
                                        - (IF at[t] \in {"reading"} THEN 1 ELSE 0)
    BY <2>3, OneThreadMoves
  <2>5. QED
    BY <2>1, <2>2, <2>4 DEF Entered
<1>2. /\ numActiveWriters' = Count(at', {"writing"})
      /\ Count(at', {"writing"}) \in Nat
  <2>1. /\ \A u \in Threads : at[u] \in {"writing"} <=> Group(at[u]) = "writing"
        /\ \A u \in Threads : at'[u] \in {"writing"} <=> Group(at'[u]) = "writing"
    BY DEF Group, QueuedReader, QueuedWriter, ReaderWaits, WriterWaits
  <2>2. numActiveWriters = Count(at, {"writing"})
    BY DEF CountersExact, In, Who
  <2>3. \A u \in Threads \ {t} : at'[u] \in {"writing"} <=> at[u] \in {"writing"}
    BY <2>1
  <2>4. /\ Count(at, {"writing"}) \in Nat /\ Count(at', {"writing"}) \in Nat
        /\ Count(at', {"writing"}) = Count(at, {"writing"}) + (IF at'[t] \in {"writing"} THEN 1 ELSE 0)
                                        - (IF at[t] \in {"writing"} THEN 1 ELSE 0)
    BY <2>3, OneThreadMoves
  <2>5. QED
    BY <2>1, <2>2, <2>4 DEF Entered
<1>3. /\ numQueuedReaders' = Count(at', QueuedReader)
      /\ Count(at', QueuedReader) \in Nat
  <2>1. /\ \A u \in Threads : at[u] \in QueuedReader <=> Group(at[u]) = "rqueued"
        /\ \A u \in Threads : at'[u] \in QueuedReader <=> Group(at'[u]) = "rqueued"
    BY DEF Group, Places, QueuedReader, QueuedWriter, ReaderWaits, WriterWaits
  <2>2. numQueuedReaders = Count(at, QueuedReader)
    BY DEF CountersExact, In, Who
  <2>3. \A u \in Threads \ {t} : at'[u] \in QueuedReader <=> at[u] \in QueuedReader
    BY <2>1
  <2>4. /\ Count(at, QueuedReader) \in Nat /\ Count(at', QueuedReader) \in Nat
        /\ Count(at', QueuedReader) = Count(at, QueuedReader) + (IF at'[t] \in QueuedReader THEN 1 ELSE 0)
                                        - (IF at[t] \in QueuedReader THEN 1 ELSE 0)
    BY <2>3, OneThreadMoves
  <2>5. QED
    BY <2>1, <2>2, <2>4 DEF Entered
<1>4. /\ numQueuedWriters' = Count(at', QueuedWriter)
      /\ Count(at', QueuedWriter) \in Nat
  <2>1. /\ \A u \in Threads : at[u] \in QueuedWriter <=> Group(at[u]) = "wqueued"
        /\ \A u \in Threads : at'[u] \in QueuedWriter <=> Group(at'[u]) = "wqueued"
    BY DEF Group, Places, QueuedReader, QueuedWriter, ReaderWaits, WriterWaits
  <2>2. numQueuedWriters = Count(at, QueuedWriter)
    BY DEF CountersExact, In, Who
  <2>3. \A u \in Threads \ {t} : at'[u] \in QueuedWriter <=> at[u] \in QueuedWriter
    BY <2>1
  <2>4. /\ Count(at, QueuedWriter) \in Nat /\ Count(at', QueuedWriter) \in Nat
        /\ Count(at', QueuedWriter) = Count(at, QueuedWriter) + (IF at'[t] \in QueuedWriter THEN 1 ELSE 0)
                                        - (IF at[t] \in QueuedWriter THEN 1 ELSE 0)
    BY <2>3, OneThreadMoves
  <2>5. QED
    BY <2>1, <2>2, <2>4 DEF Entered
<1>5. QED
  BY <1>1, <1>2, <1>3, <1>4 DEF TypeOK, CountersExact, In, Who

\* With exact counters, the code's tests on them are tests on the threads.
LEMMA CountersTell ==
  ASSUME TypeOK, CountersExact
  PROVE  /\ numActiveReaders > 0 <=> \E t \in Threads : at[t] = "reading"
         /\ numActiveWriters > 0 <=> \E t \in Threads : at[t] = "writing"
         /\ numQueuedReaders > 0 <=> \E t \in Threads : at[t] \in QueuedReader
         /\ numQueuedWriters > 0 <=> \E t \in Threads : at[t] \in QueuedWriter
<1> DEFINE Counted(P) == Cardinality(Who(Threads, at, P)) > 0 <=> Who(Threads, at, P) # {}
<1>1. /\ Counted({"reading"}) /\ Counted({"writing"})
      /\ Counted(QueuedReader) /\ Counted(QueuedWriter)
  BY SomeThreads DEF Who
<1>2. QED
  BY <1>1 DEF CountersExact, In, Who

\* An update of a condition's int leaves an integer.
LEMMA IntStaysInt ==
  ASSUME NEW q \in Int, NEW n \in {1, All}
  PROVE  Announced(q) \in Int /\ Accounted(q, n) \in Int
BY DEF Announced, Accounted, HasWaiters, All

\* Every step keeps the types and the counters: each action moves one thread
\* between groups and adjusts the counters accordingly, and what the
\* conditions do moves nobody.
LEMMA StepKeepsCounters ==
  ASSUME TypeOK, CountersExact, [Next]_vars
  PROVE  TypeOK' /\ CountersExact'
<1> USE DEF TypeOK, Places, Group, Entered, QueuedReader, QueuedWriter,
            ReaderWaits, WriterWaits
<1>0. /\ Announced(readerQueue) \in Int /\ Announced(writerQueue) \in Int
      /\ \A n \in {1, All} : Accounted(readerQueue, n) \in Int /\ Accounted(writerQueue, n) \in Int
  BY IntStaysInt
<1>1. ASSUME NEW t \in Threads, ReaderEnter(t)
      PROVE  TypeOK' /\ CountersExact'
  BY <1>1, CountersKept DEF ReaderEnter, Goes
<1>2. ASSUME NEW t \in Threads, NEW dl \in {"none", "ahead"}, ReaderQueue(t, dl)
      PROVE  TypeOK' /\ CountersExact'
  BY <1>0, <1>2, CountersKept DEF ReaderQueue, AnnounceReader
<1>3. ASSUME NEW t \in Threads, ReaderRecheck(t)
      PROVE  TypeOK' /\ CountersExact'
  <2>1. CASE Goes(t, "reading")
    BY <1>3, <2>1, CountersKept DEF ReaderRecheck, AnnounceReader, Goes
  <2>2. CASE Goes(t, "out")
    BY <1>3, <2>2, CountersKept DEF ReaderRecheck, AnnounceReader, Goes
  <2>3. CASE AnnounceReader(t)
    BY <1>0, <1>3, <2>3, CountersKept DEF ReaderRecheck, AnnounceReader, Goes
  <2>4. QED
    BY <1>3, <2>1, <2>2, <2>3 DEF ReaderRecheck
<1>4. ASSUME NEW t \in Threads, ReaderUnlock(t)
      PROVE  TypeOK' /\ CountersExact'
  <2>1. CASE NotifyWriter(t)
    <3>1. CASE at' = [at EXCEPT ![t] = "out"]
      BY <1>0, <1>4, <2>1, <3>1, CountersKept DEF ReaderUnlock, NotifyWriter
    <3>2. CASE \E w \in In({"wsleep"}) : at' = [at EXCEPT ![t] = "out", ![w] = "wwake"]
      <4>1. PICK w \in Threads : /\ at[w] = "wsleep"
                                /\ at' = [at EXCEPT ![t] = "out", ![w] = "wwake"]
        BY <3>2 DEF In
      <4>2. at' \in [Threads -> Places]
        BY <4>1
      <4>3. \A u \in Threads \ {t} : Group(at'[u]) = Group(at[u])
        BY <4>1
      <4>4. at'[t] = "out" /\ at[t] = "reading"
        BY <1>4, <4>1 DEF ReaderUnlock
      <4>5. QED
        BY <1>0, <1>4, <2>1, <4>2, <4>3, <4>4, CountersKept DEF ReaderUnlock, NotifyWriter
    <3>3. QED
      BY <2>1, <3>1, <3>2 DEF NotifyWriter
  <2>2. CASE Goes(t, "out") /\ UNCHANGED gaveUp
    BY <1>4, <2>2, CountersKept DEF ReaderUnlock, Goes
  <2>3. QED
    BY <1>4, <2>1, <2>2 DEF ReaderUnlock
<1>5. ASSUME NEW t \in Threads, WriterEnter(t)
      PROVE  TypeOK' /\ CountersExact'
  BY <1>5, CountersKept DEF WriterEnter, Goes
<1>6. ASSUME NEW t \in Threads, NEW dl \in {"none", "ahead"}, WriterQueue(t, dl)
      PROVE  TypeOK' /\ CountersExact'
  BY <1>0, <1>6, CountersKept DEF WriterQueue, AnnounceWriter
<1>7. ASSUME NEW t \in Threads, WriterRecheck(t)
      PROVE  TypeOK' /\ CountersExact'
  <2>1. CASE Goes(t, "writing")
    BY <1>7, <2>1, CountersKept DEF WriterRecheck, AnnounceWriter, Goes
  <2>2. CASE Goes(t, "out")
    <3>1. gaveUp' \in BOOLEAN
      BY <1>7 DEF WriterRecheck
    <3>2. QED
      BY <1>7, <2>2, <3>1, CountersKept DEF WriterRecheck, AnnounceWriter, Goes
  <2>3. CASE AnnounceWriter(t)
    BY <1>0, <1>7, <2>3, CountersKept DEF WriterRecheck, AnnounceWriter, Goes
  <2>4. QED
    BY <1>7, <2>1, <2>2, <2>3 DEF WriterRecheck
<1>8. ASSUME NEW t \in Threads, WriterUnlock(t)
      PROVE  TypeOK' /\ CountersExact'
  <2>1. CASE NotifyReaders(t)
    <3>1. gaveUp' \in BOOLEAN /\ at[t] = "writing"
      BY <1>8, <2>1 DEF WriterUnlock, NotifyReaders
    <3>2. at' \in [Threads -> Places] /\ at'[t] = "out"
      BY <2>1 DEF NotifyReaders
    <3>3. \A u \in Threads \ {t} : Group(at'[u]) = Group(at[u])
      BY <2>1 DEF NotifyReaders
    <3>4. QED
      BY <1>0, <1>8, <2>1, <3>1, <3>2, <3>3, CountersKept DEF WriterUnlock, NotifyReaders
  <2>2. CASE NotifyWriter(t)
    BY <1>0, <1>8, <2>2, CountersKept DEF WriterUnlock, NotifyWriter, In
  <2>3. CASE Goes(t, "out") /\ UNCHANGED gaveUp
    BY <1>8, <2>3, CountersKept DEF WriterUnlock, Goes
  <2>4. QED
    BY <1>8, <2>1, <2>2, <2>3 DEF WriterUnlock
<1>9. ASSUME NEW t \in Threads, Waiter(t)
      PROVE  TypeOK' /\ CountersExact'
  <2>1. CASE Arbitrate(t)
    BY <2>1, CountersKept DEF Arbitrate, counters
  <2>2. CASE TimeOut(t)
    BY <2>2, CountersKept DEF TimeOut, counters
  <2>3. CASE EndWait(t)
    BY <1>0, <2>3, CountersKept DEF EndWait, counters
  <2>4. QED
    BY <1>9, <2>1, <2>2, <2>3 DEF Waiter
<1>10. ASSUME NEW t \in Threads, Expire(t)
       PROVE  TypeOK' /\ CountersExact'
  BY <1>10, CountersKept DEF Expire, counters
<1>11. CASE UNCHANGED vars
  BY <1>11 DEF vars, CountersExact, In
<1>12. QED
  BY <1>1, <1>2, <1>3, <1>4, <1>5, <1>6, <1>7, <1>8, <1>9, <1>10, <1>11
     DEF Next, Reader, Writer

\* The types are right and the four counters agree with the threads, always.
THEOREM Counting == Spec => [](TypeOK /\ CountersExact)
<1>1. Init => TypeOK /\ CountersExact
  <2> SUFFICES ASSUME Init PROVE TypeOK /\ CountersExact
    OBVIOUS
  <2>1. TypeOK
    <3>1. gaveUp \in BOOLEAN /\ "out" \in Places
      BY DEF Init, Places
    <3>2. QED
      BY <3>1 DEF Init, TypeOK
  <2>2. /\ In({"reading"}) = {} /\ In({"writing"}) = {}
        /\ In(QueuedReader) = {} /\ In(QueuedWriter) = {}
    BY DEF Init, In, QueuedReader, QueuedWriter, ReaderWaits, WriterWaits
  <2>3. QED
    BY <2>1, <2>2, FS_EmptySet DEF Init, CountersExact
<1>2. TypeOK /\ CountersExact /\ [Next]_vars => (TypeOK /\ CountersExact)'
  BY StepKeepsCounters
<1>3. QED
  BY <1>1, <1>2, PTL DEF Spec

\* A thread that writes is alone inside: exclusion is inductive once the
\* counters are known to be exact, since a thread enters only by the counters.
LEMMA StepKeepsExclusion ==
  ASSUME TypeOK, CountersExact, Exclusion, [Next]_vars
  PROVE  Exclusion'
<1> USE DEF Exclusion, TypeOK
<1>1. ASSUME NEW t \in Threads, ReaderEnter(t)
      PROVE  Exclusion'
  BY <1>1, CountersTell DEF ReaderEnter, ShouldQueueReader, Goes
<1>2. ASSUME NEW t \in Threads, ReaderRecheck(t)
      PROVE  Exclusion'
  BY <1>2, CountersTell DEF ReaderRecheck, ShouldQueueReader, Goes, AnnounceReader
<1>3. ASSUME NEW t \in Threads, WriterEnter(t)
      PROVE  Exclusion'
  BY <1>3, CountersTell DEF WriterEnter, ShouldQueueWriter, Goes
<1>4. ASSUME NEW t \in Threads, WriterRecheck(t)
      PROVE  Exclusion'
  BY <1>4, CountersTell DEF WriterRecheck, ShouldQueueWriter, Goes, AnnounceWriter
<1>5. ASSUME NEW t \in Threads, NEW dl \in {"none", "ahead"},
             ReaderQueue(t, dl) \/ WriterQueue(t, dl)
      PROVE  Exclusion'
  BY <1>5 DEF ReaderQueue, WriterQueue, AnnounceReader, AnnounceWriter
<1>6. ASSUME NEW t \in Threads, ReaderUnlock(t) \/ WriterUnlock(t)
      PROVE  Exclusion'
  BY <1>6 DEF ReaderUnlock, WriterUnlock, NotifyWriter, NotifyReaders, Goes, In
<1>7. ASSUME NEW t \in Threads, Waiter(t) \/ Expire(t)
      PROVE  Exclusion'
  BY <1>7 DEF Waiter, Arbitrate, TimeOut, EndWait, Expire
<1>8. CASE UNCHANGED vars
  BY <1>8 DEF vars
<1>9. QED
  BY <1>1, <1>2, <1>3, <1>4, <1>5, <1>6, <1>7, <1>8 DEF Next, Reader, Writer

\* A writer inside is alone, whichever threads were notified and recheck late.
THEOREM ExclusionHolds == Spec => []Exclusion
<1>1. Init => Exclusion
  BY DEF Init, Exclusion
<1>2. TypeOK /\ CountersExact /\ Exclusion /\ [Next]_vars => Exclusion'
  BY StepKeepsExclusion
<1>3. QED
  BY <1>1, <1>2, Counting, PTL DEF Spec
-----------------------------------------------------------------------------
\* How many threads are in a wait, by where threads are.
Waits(f, P) == Cardinality(Who(Threads, f, P))

\* The int never shows more waiters than there are.
Bounded(q, n) == q <= 0 /\ -q <= n

\* The five things that can happen to an int and the number n of threads in
\* their waits: nothing; an announcement; a thread that leaves its wait with
\* the int at 0; one whose wait is accounted for; a notification that finds
\* nobody.  All keep the int bounded, and it shows all of the n waiters
\* afterwards only if it did before.
LEMMA Tally ==
  ASSUME NEW q \in Int, NEW n \in Nat, NEW q2, NEW n2 \in Nat, Bounded(q, n),
         \/ q2 = q /\ n2 = n
         \/ q2 = Announced(q) /\ n2 = n + 1
         \/ q = 0 /\ q2 = q /\ n2 = n - 1
         \/ q2 = Accounted(q, 1) /\ n2 = n - 1
         \/ q2 = Accounted(q, 1) /\ n2 = n
  PROVE  /\ Bounded(q2, n2)
         /\ q2 < 0 /\ q2 = -n2 => q = -n /\ (q < 0 \/ q2 = Announced(q))
         /\ q2 < 0 /\ q2 = -n2 /\ q2 = Accounted(q, 1) => n2 = n - 1
         /\ q = -n /\ n > 0 /\ q2 = Accounted(q, 1) /\ n2 = n - 1 => q2 = -n2
BY DEF Bounded, Announced, Accounted, HasWaiters

\* A notifyAll leaves nothing to be accounted for.
LEMMA AllAccounted ==
  ASSUME NEW q \in Int, q <= 0
  PROVE  Accounted(q, All) = 0
BY DEF Accounted, HasWaiters, All

\* How the step of thread t changes the number of threads in P.
LEMMA WaitsChange ==
  ASSUME TypeOK, at' \in [Threads -> Places], NEW t \in Threads, NEW P,
         \A u \in Threads \ {t} : at'[u] \in P <=> at[u] \in P
  PROVE  /\ Waits(at, P) \in Nat /\ Waits(at', P) \in Nat
         /\ at'[t] \in P /\ at[t] \notin P => Waits(at', P) = Waits(at, P) + 1
         /\ at'[t] \notin P /\ at[t] \in P => Waits(at', P) = Waits(at, P) - 1
         /\ (at'[t] \in P <=> at[t] \in P) => Waits(at', P) = Waits(at, P)
<1>1. at \in [Threads -> Places]
  BY DEF TypeOK
<1>2. /\ Waits(at, P) \in Nat /\ Waits(at', P) \in Nat
      /\ Waits(at', P) = Waits(at, P) + (IF at'[t] \in P THEN 1 ELSE 0)
                                      - (IF at[t] \in P THEN 1 ELSE 0)
  BY <1>1, OneThreadMoves DEF Waits
<1>3. QED
  BY <1>2

\* A thread in P shows in the number, and nobody else does.
LEMMA WaitsTell ==
  ASSUME NEW f, NEW P
  PROVE  Waits(f, P) \in Nat /\ (Waits(f, P) > 0 <=> \E t \in Threads : f[t] \in P)
BY SomeThreads DEF Waits
-----------------------------------------------------------------------------
Some(f, P) == \E t \in Threads : f[t] \in P

\* Both ints are bounded.
QueuesBounded ==
  /\ Bounded(readerQueue, Waits(at, ReaderWaits))
  /\ Bounded(writerQueue, Waits(at, WriterWaits))

\* Where readers are preferred, they wait only while a writer is inside, and
\* until it leaves each of them is counted.
ReadersPreferred ==
  policy = "PREFER_READERS" =>
    IF Some(at, {"writing"})
    THEN readerQueue = -Waits(at, ReaderWaits)
    ELSE readerQueue = 0 /\ ~Some(at, {"rsleep"})

\* Untimed readers do not time out, so that the int stays negative until the
\* next notifyAll.
ReadersUntimed ==
  TimedReaders = {} =>
    /\ \A t \in Threads : at[t] \in QueuedReader => deadline[t] = "none" /\ at[t] # "rlate"
    /\ Some(at, {"rsleep"}) => readerQueue < 0

\* An int that shows readers was lowered behind a writer who is still there.
ReadersHeldBack ==
  readerQueue < 0 /\ ~gaveUp =>
    \/ Some(at, {"writing"})
    \/ policy = "PREFER_WRITERS" /\ Some(at, QueuedWriter)

\* Somebody will let a writer in, or is a writer about to look.
WriterAttended(f) ==
  \/ Some(f, {"reading", "writing", "wwake"})
  \/ policy = "PREFER_READERS" /\ Some(f, {"rgate", "rlate", "rwake"})

\* While the int shows every writer in a wait, they are attended, asleep or
\* about to.
WritersAttended ==
  writerQueue < 0 /\ writerQueue = -Waits(at, WriterWaits) => WriterAttended(at)

Attended ==
  QueuesBounded /\ ReadersPreferred /\ ReadersUntimed /\ ReadersHeldBack /\ WritersAttended
-----------------------------------------------------------------------------
\* A writer queues behind somebody who is inside or, where readers are
\* preferred, behind a reader that has been let go.
LEMMA WriterQueuesBehind ==
  ASSUME TypeOK, CountersExact, ReadersPreferred, ShouldQueueWriter
  PROVE  \/ Some(at, {"reading", "writing"})
         \/ policy = "PREFER_READERS" /\ Some(at, {"rgate", "rlate", "rwake"})
BY CountersTell DEF ShouldQueueWriter, ReadersPreferred, Some, QueuedReader, ReaderWaits

\* A notification for the writers wakes a writer that sleeps, if the int shows
\* any waiters, or nobody.
LEMMA WriterNotified ==
  ASSUME TypeOK, QueuesBounded, NEW t \in Threads, at[t] \in {"reading", "writing"},
         at' \in [Threads -> Places], NotifyWriter(t)
  PROVE  /\ writerQueue' = Accounted(writerQueue, 1)
         /\ \/ /\ Waits(at', WriterWaits) = Waits(at, WriterWaits)
               /\ at' = [at EXCEPT ![t] = "out"]
            \/ /\ Waits(at', WriterWaits) = Waits(at, WriterWaits) - 1
               /\ Some(at', {"wwake"})
<1> USE DEF TypeOK
<1>1. CASE at' = [at EXCEPT ![t] = "out"]
  <2>1. \A u \in Threads : at'[u] \in WriterWaits <=> at[u] \in WriterWaits
    BY <1>1 DEF WriterWaits
  <2>2. Waits(at', WriterWaits) = Waits(at, WriterWaits)
    BY <2>1, WaitsChange
  <2>3. QED
    BY <1>1, <2>2 DEF NotifyWriter
<1>2. CASE \E w \in In({"wsleep"}) : at' = [at EXCEPT ![t] = "out", ![w] = "wwake"]
  <2>1. PICK w \in Threads : at[w] = "wsleep" /\ at' = [at EXCEPT ![t] = "out", ![w] = "wwake"]
    BY <1>2 DEF In
  <2>2. \A u \in Threads \ {w} : at'[u] \in WriterWaits <=> at[u] \in WriterWaits
    BY <2>1 DEF WriterWaits
  <2>3. at'[w] = "wwake" /\ at'[w] \notin WriterWaits /\ at[w] \in WriterWaits
    BY <2>1 DEF WriterWaits
  <2>4. Waits(at', WriterWaits) = Waits(at, WriterWaits) - 1
    BY <2>2, <2>3, WaitsChange
  <2>5. QED
    BY <2>3, <2>4 DEF NotifyWriter, Some
<1>3. QED
  BY <1>1, <1>2 DEF NotifyWriter

\* Every step keeps the writers' int bounded and the counted writers attended.
LEMMA WritersStep ==
  ASSUME TypeOK, CountersExact, Exclusion, Attended, [Next]_vars
  PROVE  /\ Bounded(writerQueue', Waits(at', WriterWaits))
         /\ writerQueue' < 0 /\ writerQueue' = -Waits(at', WriterWaits) => WriterAttended(at')
<1> DEFINE q == writerQueue
           q2 == writerQueue'
           n == Waits(at, WriterWaits)
           n2 == Waits(at', WriterWaits)
           Good == Bounded(q2, n2) /\ (q2 < 0 /\ q2 = -n2 => WriterAttended(at'))
<1>0. /\ at \in [Threads -> Places] /\ at' \in [Threads -> Places]
      /\ q \in Int /\ q2 \in Int /\ n \in Nat /\ n2 \in Nat
      /\ Bounded(q, n) /\ (q < 0 /\ q = -n => WriterAttended(at))
      /\ TypeOK' /\ CountersExact'
  <2>1. TypeOK' /\ CountersExact'
    BY StepKeepsCounters
  <2>2. n \in Nat /\ n2 \in Nat
    BY WaitsTell
  <2>3. QED
    BY <2>1, <2>2 DEF TypeOK, Attended, QueuesBounded, WritersAttended
<1> HIDE DEF q, q2, n, n2
\* The five cases of Tally.
<1>1. ASSUME q2 = q, n2 = n, n = 0 \/ (WriterAttended(at) => WriterAttended(at'))
      PROVE  Good
  <2>1. Bounded(q2, n2) /\ (q2 < 0 /\ q2 = -n2 => q < 0 /\ q = -n /\ n # 0)
    BY <1>0, <1>1, Tally
  <2>2. QED
    BY <1>0, <1>1, <2>1
<1>2. ASSUME q2 = Announced(q), n2 = n + 1, WriterAttended(at')
      PROVE  Good
  BY <1>0, <1>2, Tally
<1>3. ASSUME q2 = Accounted(q, 1), n2 = n - 1, WriterAttended(at')
      PROVE  Good
  BY <1>0, <1>3, Tally
<1>4. ASSUME q2 = Accounted(q, 1), n2 = n
      PROVE  Good
  BY <1>0, <1>4, Tally
<1>5. ASSUME q = 0, q2 = q, n2 = n - 1
      PROVE  Good
  BY <1>0, <1>5, Tally
\* Only a change of place between those of a wait and others counts.
<1>6. ASSUME NEW t \in Threads, \A u \in Threads \ {t} : at'[u] \in WriterWaits <=> at[u] \in WriterWaits
      PROVE  /\ (at'[t] \in WriterWaits <=> at[t] \in WriterWaits) => n2 = n
             /\ at'[t] \in WriterWaits /\ at[t] \notin WriterWaits => n2 = n + 1
             /\ at'[t] \notin WriterWaits /\ at[t] \in WriterWaits => n2 = n - 1
  BY <1>0, <1>6, WaitsChange DEF n, n2
<1>7. numQueuedWriters = 0 => n = 0
  <2>1. n > 0 => numQueuedWriters > 0
    BY WaitsTell, CountersTell DEF n, QueuedWriter
  <2>2. QED
    BY <2>1, <1>0
<1>8. ASSUME NEW t \in Threads, NEW p \in Places, at' = [at EXCEPT ![t] = p],
             at[t] \notin WriterWaits, p \notin WriterWaits
      PROVE  n2 = n
  BY <1>0, <1>6, <1>8
<1>9. ASSUME NEW t \in Threads, at[t] \in {"reading", "writing"}, NotifyWriter(t)
      PROVE  Good
  <2>1. /\ q2 = Accounted(q, 1)
        /\ n2 = n \/ (n2 = n - 1 /\ Some(at', {"wwake"}))
    BY <1>0, <1>9, WriterNotified DEF q, q2, n, n2, Attended
  <2>2. Some(at', {"wwake"}) => WriterAttended(at')
    BY DEF Some, WriterAttended
  <2>3. QED
    BY <1>3, <1>4, <2>1, <2>2
<1> USE DEF Places, QueuedReader, QueuedWriter, ReaderWaits, WriterWaits
<1>10. ASSUME NEW t \in Threads, ReaderEnter(t) \/ WriterEnter(t)
       PROVE  Good
  <2>1. q2 = q /\ n2 = n
    BY <1>8, <1>10 DEF ReaderEnter, WriterEnter, Goes, q, q2
  <2>2. WriterAttended(at')
    BY <1>0, <1>10 DEF ReaderEnter, WriterEnter, Goes, WriterAttended, Some
  <2>3. QED
    BY <1>1, <2>1, <2>2
<1>11. ASSUME NEW t \in Threads, NEW dl \in {"none", "ahead"}, ReaderQueue(t, dl)
       PROVE  Good
  <2>1. q2 = q /\ n2 = n
    BY <1>8, <1>11 DEF ReaderQueue, AnnounceReader, q, q2
  <2>2. WriterAttended(at) => WriterAttended(at')
    BY <1>0, <1>11 DEF ReaderQueue, AnnounceReader, WriterAttended, Some
  <2>3. QED
    BY <1>1, <2>1, <2>2
<1>12. ASSUME NEW t \in Threads, ReaderRecheck(t)
       PROVE  Good
  <2>1. q2 = q /\ n2 = n
    BY <1>8, <1>12 DEF ReaderRecheck, AnnounceReader, Goes, q, q2
  <2>2. CASE Goes(t, "reading") \/ AnnounceReader(t)
    <3>1. WriterAttended(at) => WriterAttended(at')
      BY <1>0, <1>12, <2>2 DEF ReaderRecheck, Goes, AnnounceReader, WriterAttended, Some
    <3>2. QED
      BY <1>1, <2>1, <3>1
  <2>3. CASE Goes(t, "out") /\ ShouldQueueReader
    <3>1. policy = "PREFER_READERS" => \E u \in Threads : at[u] = "writing"
      BY <2>3, CountersTell DEF ShouldQueueReader
    <3>2. WriterAttended(at) => WriterAttended(at')
      BY <1>0, <1>12, <2>3, <3>1 DEF ReaderRecheck, Goes, WriterAttended, Some
    <3>3. QED
      BY <1>1, <2>1, <3>2
  <2>4. QED
    BY <1>12, <2>2, <2>3 DEF ReaderRecheck
<1>13. ASSUME NEW t \in Threads, ReaderUnlock(t)
       PROVE  Good
  <2>1. CASE NotifyWriter(t)
    BY <1>9, <1>13, <2>1 DEF ReaderUnlock
  <2>2. CASE Goes(t, "out") /\ numActiveReaders' >= 1
    <3>1. q2 = q /\ n2 = n
      BY <1>8, <1>13, <2>2 DEF ReaderUnlock, Goes, q, q2
    <3>2. /\ numActiveReaders' > 0
          /\ numActiveReaders' = Waits(at', {"reading"})
      BY <1>0, <2>2 DEF TypeOK, CountersExact, Waits, Who, In
    <3>3. Some(at', {"reading"})
      BY <3>2, WaitsTell DEF Some
    <3>4. QED
      BY <1>1, <3>1, <3>3 DEF WriterAttended, Some
  <2>3. CASE Goes(t, "out") /\ ~(numQueuedWriters > 0)
    <3>1. q2 = q /\ n2 = n
      BY <1>8, <1>13, <2>3 DEF ReaderUnlock, Goes, q, q2
    <3>2. numQueuedWriters = 0
      BY <2>3 DEF TypeOK
    <3>3. QED
      BY <1>1, <1>7, <3>1, <3>2
  <2>4. numActiveReaders' \in Nat
    BY <1>0 DEF TypeOK
  <2>5. QED
    BY <1>13, <2>1, <2>2, <2>3, <2>4 DEF ReaderUnlock
<1>14. ASSUME NEW t \in Threads, at[t] \in {"out", "wwake"}, ShouldQueueWriter,
              NEW p \in Places, at' = [at EXCEPT ![t] = p]
       PROVE  WriterAttended(at')
  BY <1>0, <1>14, WriterQueuesBehind DEF WriterAttended, Some, Attended
<1>15. ASSUME NEW t \in Threads, NEW dl \in {"none", "ahead"}, WriterQueue(t, dl)
       PROVE  Good
  <2>1. q2 = Announced(q) /\ n2 = n + 1
    BY <1>0, <1>6, <1>15 DEF WriterQueue, AnnounceWriter, q, q2
  <2>2. WriterAttended(at')
    BY <1>14, <1>15 DEF WriterQueue, AnnounceWriter
  <2>3. QED
    BY <1>2, <2>1, <2>2
<1>16. ASSUME NEW t \in Threads, WriterRecheck(t)
       PROVE  Good
  <2>1. CASE Goes(t, "writing")
    <3>1. q2 = q /\ n2 = n
      BY <1>8, <1>16, <2>1 DEF WriterRecheck, Goes, q, q2
    <3>2. WriterAttended(at')
      BY <1>0, <2>1 DEF Goes, WriterAttended, Some
    <3>3. QED
      BY <1>1, <3>1, <3>2
  <2>2. CASE Goes(t, "out") /\ ShouldQueueWriter
    <3>1. q2 = q /\ n2 = n
      BY <1>8, <1>16, <2>2 DEF WriterRecheck, Goes, q, q2
    <3>2. WriterAttended(at')
      BY <1>14, <1>16, <2>2 DEF WriterRecheck, Goes
    <3>3. QED
      BY <1>1, <3>1, <3>2
  <2>3. CASE AnnounceWriter(t) /\ ShouldQueueWriter
    <3>1. q2 = Announced(q) /\ n2 = n + 1
      BY <1>0, <1>6, <1>16, <2>3 DEF WriterRecheck, AnnounceWriter, q, q2
    <3>2. WriterAttended(at')
      BY <1>14, <1>16, <2>3 DEF WriterRecheck, AnnounceWriter
    <3>3. QED
      BY <1>2, <3>1, <3>2
  <2>4. QED
    BY <1>16, <2>1, <2>2, <2>3 DEF WriterRecheck
<1>17. ASSUME NEW t \in Threads, WriterUnlock(t)
       PROVE  Good
  <2>1. CASE NotifyWriter(t)
    BY <1>9, <1>17, <2>1 DEF WriterUnlock
  <2>2. CASE numQueuedReaders > 0 /\ NotifyReaders(t)
             /\ (policy = "PREFER_WRITERS" => numQueuedWriters = 0)
    <3>1. \A u \in Threads : at'[u] \in WriterWaits <=> at[u] \in WriterWaits
      BY <1>0, <1>17, <2>2 DEF WriterUnlock, NotifyReaders
    <3>2. q2 = q /\ n2 = n
      BY <1>6, <1>17, <2>2, <3>1 DEF NotifyReaders, q, q2
    <3>3. CASE policy = "PREFER_READERS"
      <4>1. PICK r \in Threads : at[r] \in QueuedReader
        BY <2>2, CountersTell
      <4>2. at[r] = "rsleep" => readerQueue < 0
        <5>1. at[r] = "rsleep" => Waits(at, ReaderWaits) > 0
          BY WaitsTell
        <5>2. Some(at, {"writing"})
          BY <1>17 DEF WriterUnlock, Some
        <5>3. readerQueue = -Waits(at, ReaderWaits) /\ Waits(at, ReaderWaits) \in Nat
          BY <3>3, <5>2, WaitsTell DEF Attended, ReadersPreferred
        <5>4. QED
          BY <5>1, <5>3
      <4>3. r # t
        BY <4>1, <1>17 DEF WriterUnlock
      <4>4. at'[r] \in {"rgate", "rlate", "rwake"}
        BY <1>0, <2>2, <4>1, <4>2, <4>3 DEF NotifyReaders, HasWaiters
      <4>5. QED
        BY <1>1, <3>2, <3>3, <4>4 DEF WriterAttended, Some
    <3>4. CASE policy = "PREFER_WRITERS"
      BY <1>1, <1>7, <2>2, <3>2, <3>4
    <3>5. QED
      BY <3>3, <3>4 DEF TypeOK
  <2>3. CASE Goes(t, "out") /\ numActiveWriters' >= 1
    <3>1. q2 = q /\ n2 = n
      BY <1>8, <1>17, <2>3 DEF WriterUnlock, Goes, q, q2
    <3>2. /\ numActiveWriters' > 0
          /\ numActiveWriters' = Waits(at', {"writing"})
      BY <1>0, <2>3 DEF TypeOK, CountersExact, Waits, Who, In
    <3>3. Some(at', {"writing"})
      BY <3>2, WaitsTell DEF Some
    <3>4. QED
      BY <1>1, <3>1, <3>3 DEF WriterAttended, Some
  <2>4. CASE Goes(t, "out") /\ numQueuedWriters = 0
    <3>1. q2 = q /\ n2 = n
      BY <1>8, <1>17, <2>4 DEF WriterUnlock, Goes, q, q2
    <3>2. QED
      BY <1>1, <1>7, <2>4, <3>1
  <2>5. QED
    BY <1>17, <2>1, <2>2, <2>3, <2>4 DEF WriterUnlock
<1>18. ASSUME NEW t \in Threads, Arbitrate(t)
       PROVE  Good
  <2>1. CASE at[t] = "rgate"
    <3>1. q2 = q /\ n2 = n
      BY <1>8, <1>18, <2>1 DEF Arbitrate, q, q2
    <3>2. readerQueue < 0 /\ policy = "PREFER_READERS" => Some(at, {"writing"})
      BY DEF Attended, ReadersPreferred, TypeOK
    <3>3. WriterAttended(at) => WriterAttended(at')
      BY <1>0, <1>18, <2>1, <3>2 DEF Arbitrate, WriterAttended, Some
    <3>4. QED
      BY <1>1, <3>1, <3>3
  <2>2. CASE at[t] = "wgate" /\ writerQueue < 0
    <3>1. q2 = q /\ n2 = n
      BY <1>0, <1>6, <1>18, <2>2 DEF Arbitrate, q, q2
    <3>2. WriterAttended(at) => WriterAttended(at')
      BY <1>0, <1>18, <2>2 DEF Arbitrate, WriterAttended, Some
    <3>3. QED
      BY <1>1, <3>1, <3>2
  <2>3. CASE at[t] = "wgate" /\ ~(writerQueue < 0)
    <3>1. q2 = q /\ n2 = n - 1
      BY <1>0, <1>6, <1>18, <2>3 DEF Arbitrate, q, q2
    <3>2. q = 0
      BY <1>0, <2>3 DEF Bounded, q
    <3>3. QED
      BY <1>5, <3>1, <3>2
  <2>4. QED
    BY <1>18, <2>1, <2>2, <2>3 DEF Arbitrate
<1>19. ASSUME NEW t \in Threads, TimeOut(t)
       PROVE  Good
  <2>1. q2 = q /\ n2 = n
    BY <1>0, <1>6, <1>19 DEF TimeOut, q, q2
  <2>2. WriterAttended(at) => WriterAttended(at')
    BY <1>0, <1>19 DEF TimeOut, WriterAttended, Some
  <2>3. QED
    BY <1>1, <2>1, <2>2
<1>20. ASSUME NEW t \in Threads, EndWait(t)
       PROVE  Good
  <2>1. CASE at[t] = "rlate"
    <3>1. q2 = q /\ n2 = n
      BY <1>8, <1>20, <2>1 DEF EndWait, q, q2
    <3>2. WriterAttended(at) => WriterAttended(at')
      BY <1>0, <1>20, <2>1 DEF EndWait, WriterAttended, Some
    <3>3. QED
      BY <1>1, <3>1, <3>2
  <2>2. CASE at[t] = "wlate"
    <3>1. q2 = Accounted(q, 1) /\ n2 = n - 1
      BY <1>0, <1>6, <1>20, <2>2 DEF EndWait, q, q2
    <3>2. WriterAttended(at')
      BY <1>0, <1>20, <2>2 DEF EndWait, WriterAttended, Some
    <3>3. QED
      BY <1>3, <3>1, <3>2
  <2>3. QED
    BY <1>20, <2>1, <2>2 DEF EndWait
<1>21. ASSUME UNCHANGED vars \/ \E t \in Threads : Expire(t)
       PROVE  Good
  <2>1. q2 = q
    BY <1>21 DEF vars, Expire, q, q2
  <2>2. at' = at
    BY <1>21 DEF vars, Expire
  <2>3. n2 = n /\ (WriterAttended(at) => WriterAttended(at'))
    BY <2>2, Zenon DEF n, n2
  <2>4. QED
    BY <1>1, <2>1, <2>3
<1> HIDE DEF Good, Places, QueuedReader, QueuedWriter, ReaderWaits, WriterWaits
<1>22. \A t \in Threads : Reader(t) \/ Writer(t) \/ Waiter(t) => Good
  BY <1>10, <1>11, <1>12, <1>13, <1>15, <1>16, <1>17, <1>18, <1>19, <1>20
     DEF Reader, Writer, Waiter
<1>23. Good
  BY <1>21, <1>22 DEF Next
<1>24. QED
  BY <1>23 DEF Good, q2, n2
-----------------------------------------------------------------------------
\* A reader queues behind a writer who is inside or, where writers are
\* preferred, one that is queued.
LEMMA ReaderQueuesBehind ==
  ASSUME TypeOK, CountersExact, ShouldQueueReader
  PROVE  \/ Some(at, {"writing"})
         \/ policy = "PREFER_WRITERS" /\ Some(at, QueuedWriter)
BY CountersTell DEF ShouldQueueReader, Some

\* Every step keeps the readers' int bounded and what it says of the readers.
LEMMA ReadersStep ==
  ASSUME TypeOK, CountersExact, Exclusion, Attended, [Next]_vars
  PROVE  /\ Bounded(readerQueue', Waits(at', ReaderWaits))
         /\ ReadersPreferred' /\ ReadersUntimed' /\ ReadersHeldBack'
<1> DEFINE q == readerQueue
           q2 == readerQueue'
           m == Waits(at, ReaderWaits)
           m2 == Waits(at', ReaderWaits)
           Inside(f) == Some(f, {"writing"})
           Behind(f) == Inside(f) \/ (policy = "PREFER_WRITERS" /\ Some(f, QueuedWriter))
           Preferred == policy = "PREFER_READERS" =>
                          IF Inside(at') THEN q2 = -m2 ELSE q2 = 0 /\ ~Some(at', {"rsleep"})
           Untimed == TimedReaders = {} =>
             /\ \A u \in Threads : at'[u] \in QueuedReader => deadline'[u] = "none" /\ at'[u] # "rlate"
             /\ Some(at', {"rsleep"}) => q2 < 0
           Held == q2 < 0 /\ ~gaveUp' => Behind(at')
           Good == Bounded(q2, m2) /\ Preferred /\ Untimed /\ Held
           \* A step that moves no reader to or from its sleep, but for timeouts.
           Quiet == /\ q2 = q /\ m2 = m
                    /\ \A u \in Threads :
                         /\ at'[u] = "rsleep" => at[u] = "rsleep"
                         /\ at'[u] \in QueuedReader =>
                              /\ at[u] \in QueuedReader
                              /\ deadline[u] = "none" => deadline'[u] = "none"
                              /\ at'[u] = "rlate" => at[u] = "rlate" \/ deadline[u] # "none"
                    /\ gaveUp => gaveUp'
<1>0. /\ at \in [Threads -> Places] /\ at' \in [Threads -> Places]
      /\ q \in Int /\ q2 \in Int /\ m \in Nat /\ m2 \in Nat
      /\ Bounded(q, m)
      /\ TypeOK' /\ CountersExact'
      /\ policy \in {"PREFER_READERS", "PREFER_WRITERS"}
  <2>1. TypeOK' /\ CountersExact'
    BY StepKeepsCounters
  <2>2. m \in Nat /\ m2 \in Nat
    BY WaitsTell
  <2>3. QED
    BY <2>1, <2>2 DEF TypeOK, Attended, QueuesBounded
<1>1. /\ policy = "PREFER_READERS" =>
           IF Inside(at) THEN q = -m ELSE q = 0 /\ ~Some(at, {"rsleep"})
      /\ TimedReaders = {} =>
           /\ \A u \in Threads : at[u] \in QueuedReader => deadline[u] = "none" /\ at[u] # "rlate"
           /\ Some(at, {"rsleep"}) => q < 0
      /\ q < 0 /\ ~gaveUp => Behind(at)
  BY DEF Attended, ReadersPreferred, ReadersUntimed, ReadersHeldBack
<1>2. m > 0 <=> Some(at, ReaderWaits)
  BY WaitsTell DEF Some
<1>3. numQueuedReaders = 0 => m = 0
  <2>1. m > 0 => numQueuedReaders > 0
    BY WaitsTell, CountersTell DEF QueuedReader
  <2>2. QED
    BY <2>1, <1>0
<1>4. ASSUME NEW t \in Threads, \A u \in Threads \ {t} : at'[u] \in ReaderWaits <=> at[u] \in ReaderWaits
      PROVE  /\ (at'[t] \in ReaderWaits <=> at[t] \in ReaderWaits) => m2 = m
             /\ at'[t] \in ReaderWaits /\ at[t] \notin ReaderWaits => m2 = m + 1
             /\ at'[t] \notin ReaderWaits /\ at[t] \in ReaderWaits => m2 = m - 1
  BY <1>0, <1>4, WaitsChange
<1> HIDE DEF q, q2, m, m2
<1>5. m = 0 => ~Some(at, {"rsleep"})
  BY <1>0, <1>2 DEF Some, ReaderWaits
\* Two ways in which a quiet step keeps the readers attended: what they wait
\* for stays, or there are none.
<1>6. ASSUME Quiet, Inside(at) <=> Inside(at'), Behind(at) => Behind(at')
      PROVE  Good
  <2>1. ~Some(at, {"rsleep"}) => ~Some(at', {"rsleep"})
    BY <1>6 DEF Some
  <2>2. q2 = q /\ m2 = m /\ (gaveUp => gaveUp')
    BY <1>6
  <2>3. Preferred
    BY <1>1, <1>6, <2>1, <2>2
  <2>4. Held
    BY <1>1, <1>6, <2>2
  <2>5. Untimed
    BY <1>1, <1>6, <2>1
  <2>6. QED
    BY <1>0, <2>2, <2>3, <2>4, <2>5
<1>7. ASSUME Quiet, m = 0
      PROVE  Good
  <2>1. ~Some(at', {"rsleep"})
    BY <1>5, <1>7 DEF Some
  <2>2. q = 0
    BY <1>0, <1>7 DEF Bounded
  <2>3. q2 = q /\ m2 = m
    BY <1>7
  <2>4. q2 <= 0 /\ q2 >= 0 /\ m2 <= 0 /\ m2 >= 0
    BY <1>0, <1>7, <2>2, <2>3
  <2>5. q2 = -m2 /\ q2 = 0 /\ ~(q2 < 0)
    BY <1>0, <2>4
  <2>6. Preferred /\ Held
    BY <2>1, <2>5
  <2>7. Untimed
    BY <1>1, <1>7, <2>1
  <2>8. QED
    BY <1>0, <2>3, <2>6, <2>7
<1>8. ASSUME NEW t \in Threads, at[t] \in {"out", "rwake"}, ShouldQueueReader, AnnounceReader(t),
             TimedReaders = {} => deadline'[t] = "none",
             \A u \in Threads \ {t} : deadline'[u] = deadline[u], gaveUp' = gaveUp
      PROVE  Good
  <2>1. at' = [at EXCEPT ![t] = "rgate"] /\ q2 = Announced(q)
    BY <1>8 DEF AnnounceReader, q, q2
  <2>2. m2 = m + 1
    BY <1>0, <1>4, <1>8, <2>1 DEF ReaderWaits
  <2>3. Bounded(q2, m2) /\ q2 = q - 1
    BY <1>0, <2>1, <2>2, Tally DEF Announced
  <2>4. Behind(at) /\ (Inside(at) <=> Inside(at')) /\ (Behind(at) => Behind(at'))
    BY <1>0, <1>8, <2>1, ReaderQueuesBehind DEF Some, QueuedWriter, WriterWaits
  <2>5. Preferred
    BY <1>0, <1>1, <2>2, <2>3, <2>4
  <2>6. Some(at', {"rsleep"}) => Some(at, {"rsleep"})
    BY <1>0, <2>1 DEF Some
  <2>7. Untimed
    BY <1>0, <1>1, <1>8, <2>1, <2>3, <2>6
  <2>8. QED
    BY <2>3, <2>4, <2>5, <2>7
<1> USE DEF Places, QueuedReader, QueuedWriter, ReaderWaits, WriterWaits
<1>9. ASSUME NEW t \in Threads, ReaderEnter(t)
      PROVE  Good
  <2>1. m2 = m
    BY <1>0, <1>4, <1>9 DEF ReaderEnter, Goes
  <2>2. Quiet
    BY <1>0, <1>9, <2>1 DEF ReaderEnter, Goes, q, q2
  <2>3. (Inside(at) <=> Inside(at')) /\ (Behind(at) => Behind(at'))
    BY <1>0, <1>9 DEF ReaderEnter, Goes, Some
  <2>4. QED
    BY <1>6, <2>2, <2>3
<1>10. ASSUME NEW t \in Threads, NEW dl \in {"none", "ahead"}, ReaderQueue(t, dl)
       PROVE  Good
  <2>1. /\ at[t] = "out" /\ ShouldQueueReader /\ AnnounceReader(t) /\ gaveUp' = gaveUp
        /\ TimedReaders = {} => dl = "none"
        /\ deadline' = [deadline EXCEPT ![t] = dl] /\ deadline \in [Threads -> {"none", "ahead", "over"}]
    BY <1>10 DEF ReaderQueue, TypeOK
  <2>2. QED
    BY <1>8, <2>1
<1>11. ASSUME NEW t \in Threads, ReaderRecheck(t)
       PROVE  Good
  <2>0. deadline \in [Threads -> {"none", "ahead", "over"}]
    BY DEF TypeOK
  <2>1. CASE Goes(t, "reading") \/ Goes(t, "out")
    <3>1. m2 = m
      BY <1>0, <1>4, <1>11, <2>1 DEF ReaderRecheck, Goes
    <3>2. Quiet
      BY <1>0, <1>11, <2>0, <2>1, <3>1 DEF ReaderRecheck, Goes, AnnounceReader, q, q2
    <3>3. (Inside(at) <=> Inside(at')) /\ (Behind(at) => Behind(at'))
      BY <1>0, <1>11, <2>1 DEF ReaderRecheck, Goes, Some
    <3>4. QED
      BY <1>6, <3>2, <3>3
  <2>2. CASE AnnounceReader(t) /\ ShouldQueueReader /\ UNCHANGED deadline
    <3>1. at[t] = "rwake" /\ gaveUp' = gaveUp
      BY <1>11 DEF ReaderRecheck
    <3>2. TimedReaders = {} => deadline'[t] = "none"
      BY <1>1, <2>2, <3>1
    <3>3. QED
      BY <1>8, <2>2, <3>1, <3>2
  <2>3. QED
    BY <1>11, <2>1, <2>2 DEF ReaderRecheck
\* A notification for the writers moves no reader, and no writer out of the
\* queue.
<1>12. ASSUME NEW t \in Threads, at[t] \in {"reading", "writing"}, UNCHANGED deadline,
              NotifyWriter(t) \/ (Goes(t, "out") /\ UNCHANGED gaveUp)
       PROVE  /\ Quiet
              /\ Some(at, QueuedWriter) => Some(at', QueuedWriter)
              /\ \A u \in Threads \ {t} : at'[u] = "writing" <=> at[u] = "writing"
              /\ at'[t] = "out"
  <2>1. /\ \A u \in Threads : at'[u] \in ReaderWaits <=> at[u] \in ReaderWaits
        /\ \A u \in Threads : at'[u] \in QueuedReader => at'[u] = at[u]
        /\ \A u \in Threads : at[u] \in QueuedWriter => at'[u] \in QueuedWriter
        /\ \A u \in Threads \ {t} : at'[u] = "writing" <=> at[u] = "writing"
        /\ at'[t] = "out"
    <3>1. CASE at' = [at EXCEPT ![t] = "out"]
      BY <1>0, <1>12, <3>1
    <3>2. CASE \E w \in Threads : at[w] = "wsleep" /\ at' = [at EXCEPT ![t] = "out", ![w] = "wwake"]
      BY <1>0, <1>12, <3>2
    <3>3. QED
      BY <1>12, <3>1, <3>2 DEF NotifyWriter, Goes, In
  <2>2. q2 = q /\ gaveUp' = gaveUp
    BY <1>12 DEF NotifyWriter, Goes, q, q2
  <2>3. m2 = m
    BY <1>4, <2>1
  <2>4. \A u \in Threads : /\ at'[u] = "rsleep" => at[u] = "rsleep"
                           /\ at'[u] = "rlate" => at[u] = "rlate"
                           /\ at'[u] \in QueuedReader => at[u] \in QueuedReader
    BY <2>1
  <2>5. Quiet
    BY <1>12, <2>2, <2>3, <2>4
  <2>6. QED
    BY <2>1, <2>5 DEF Some
<1>13. ASSUME NEW t \in Threads, ReaderUnlock(t)
       PROVE  Good
  <2>1. at[t] = "reading" /\ UNCHANGED deadline
        /\ (NotifyWriter(t) \/ (Goes(t, "out") /\ UNCHANGED gaveUp))
    BY <1>13 DEF ReaderUnlock
  <2>2. Quiet /\ (Inside(at) <=> Inside(at')) /\ (Behind(at) => Behind(at'))
    BY <1>12, <2>1 DEF Some
  <2>3. QED
    BY <1>6, <2>2
\* A writer who enters finds, where readers are preferred, none of them queued.
<1>14. ASSUME NEW t \in Threads, at[t] \in {"out", "wwake"}, ~ShouldQueueWriter, Goes(t, "writing"),
              gaveUp' = gaveUp, \A u \in Threads \ {t} : deadline'[u] = deadline[u]
       PROVE  Good
  <2>1. at' = [at EXCEPT ![t] = "writing"] /\ q2 = q
    BY <1>14 DEF Goes, q, q2
  <2>2. m2 = m
    BY <1>0, <1>4, <1>14, <2>1
  <2>3. Quiet
    BY <1>0, <1>14, <2>1, <2>2
  <2>4. Inside(at')
    BY <1>0, <2>1 DEF Some
  <2>5. CASE policy = "PREFER_READERS"
    <3>1. numQueuedReaders = 0
      BY <1>14, <2>5 DEF ShouldQueueWriter, TypeOK
    <3>2. QED
      BY <1>3, <1>7, <2>3, <3>1
  <2>6. CASE policy = "PREFER_WRITERS"
    <3>1. Some(at', {"rsleep"}) => Some(at, {"rsleep"})
      BY <2>3 DEF Some
    <3>2. Untimed
      BY <1>1, <2>3, <3>1
    <3>3. QED
      BY <1>0, <2>3, <2>4, <2>6, <3>2
  <2>7. QED
    BY <1>0, <2>5, <2>6
<1>15. ASSUME NEW t \in Threads, WriterEnter(t)
       PROVE  Good
  BY <1>14, <1>15 DEF WriterEnter
<1>16. ASSUME NEW t \in Threads, at[t] \in {"out", "wwake"}, AnnounceWriter(t), gaveUp' = gaveUp,
              \A u \in Threads \ {t} : deadline'[u] = deadline[u]
       PROVE  Good
  <2>1. at' = [at EXCEPT ![t] = "wgate"] /\ q2 = q
    BY <1>16 DEF AnnounceWriter, q, q2
  <2>2. m2 = m
    BY <1>0, <1>4, <1>16, <2>1
  <2>3. Quiet
    BY <1>0, <1>16, <2>1, <2>2
  <2>4. (Inside(at) <=> Inside(at')) /\ (Behind(at) => Behind(at'))
    BY <1>0, <1>16, <2>1 DEF Some
  <2>5. QED
    BY <1>6, <2>3, <2>4
<1>17. ASSUME NEW t \in Threads, NEW dl \in {"none", "ahead"}, WriterQueue(t, dl)
       PROVE  Good
  BY <1>16, <1>17 DEF WriterQueue, TypeOK
<1>18. ASSUME NEW t \in Threads, WriterRecheck(t)
       PROVE  Good
  <2>0. at[t] = "wwake" /\ \A u \in Threads \ {t} : deadline'[u] = deadline[u]
    BY <1>18 DEF WriterRecheck, TypeOK
  <2>1. CASE Goes(t, "writing") /\ ~ShouldQueueWriter /\ gaveUp' = gaveUp
    BY <1>14, <2>0, <2>1
  <2>2. CASE /\ Goes(t, "out") /\ ShouldQueueWriter
             /\ gaveUp' = (gaveUp \/ (policy = "PREFER_WRITERS" /\ numQueuedReaders > 0))
    <3>1. at' = [at EXCEPT ![t] = "out"] /\ q2 = q
      BY <2>2 DEF Goes, q, q2
    <3>2. m2 = m
      BY <1>0, <1>4, <2>0, <3>1
    <3>3. Quiet
      BY <1>0, <2>0, <2>2, <3>1, <3>2
    <3>4. Inside(at) <=> Inside(at')
      BY <1>0, <2>0, <3>1 DEF Some
    <3>5. CASE policy = "PREFER_READERS"
      BY <1>6, <3>3, <3>4, <3>5
    <3>6. CASE numQueuedReaders = 0
      BY <1>3, <1>7, <3>3, <3>6
    <3>7. CASE policy = "PREFER_WRITERS" /\ numQueuedReaders > 0
      <4>1. gaveUp'
        BY <2>2, <3>7
      <4>2. Some(at', {"rsleep"}) => Some(at, {"rsleep"})
        BY <3>3 DEF Some
      <4>3. Untimed
        BY <1>1, <3>3, <4>2
      <4>4. QED
        BY <1>0, <3>3, <3>7, <4>1, <4>3
    <3>8. QED
      BY <1>0, <3>5, <3>6, <3>7 DEF TypeOK
  <2>3. CASE AnnounceWriter(t) /\ gaveUp' = gaveUp
    BY <1>16, <2>0, <2>3
  <2>4. QED
    BY <1>18, <2>1, <2>2, <2>3 DEF WriterRecheck
<1>19. ASSUME NEW t \in Threads, WriterUnlock(t)
       PROVE  Good
  <2>0. at[t] = "writing" /\ UNCHANGED deadline
    BY <1>19 DEF WriterUnlock
  <2>1. CASE NotifyReaders(t)
    <3>1. q2 = 0
      BY <1>0, <2>1, AllAccounted DEF NotifyReaders, Bounded, q, q2
    <3>2. \A u \in Threads \ {t} : at'[u] # "writing"
      BY <2>0, <2>1 DEF NotifyReaders, Exclusion
    <3>3. ~Inside(at')
      BY <1>0, <2>1, <3>2 DEF NotifyReaders, Some
    <3>4. policy = "PREFER_READERS" \/ TimedReaders = {} => (Some(at, {"rsleep"}) => q < 0)
      <4>1. Inside(at)
        BY <2>0 DEF Some
      <4>2. Some(at, {"rsleep"}) => m > 0
        BY <1>2 DEF Some
      <4>3. QED
        BY <1>0, <1>1, <4>1, <4>2
    <3>5. policy = "PREFER_READERS" \/ TimedReaders = {} => ~Some(at', {"rsleep"})
      BY <1>0, <2>1, <3>4 DEF NotifyReaders, Some, HasWaiters, q
    <3>6. \A u \in Threads : at'[u] \in QueuedReader => at[u] \in QueuedReader
                                                       /\ (at'[u] = "rlate" => at[u] = "rlate")
      BY <1>0, <2>1 DEF NotifyReaders
    <3>7. Untimed
      BY <1>1, <2>0, <3>5, <3>6
    <3>8. QED
      BY <1>0, <3>1, <3>3, <3>5, <3>7 DEF Bounded
  <2>2. CASE NotifyWriter(t) /\ (policy = "PREFER_READERS" => numQueuedReaders = 0)
             /\ (policy = "PREFER_WRITERS" => numQueuedWriters > 0)
    <3>1. /\ Quiet
          /\ Some(at, QueuedWriter) => Some(at', QueuedWriter)
      BY <1>12, <2>0, <2>2
    <3>2. CASE policy = "PREFER_READERS"
      BY <1>3, <1>7, <2>2, <3>1, <3>2
    <3>3. CASE policy = "PREFER_WRITERS"
      <4>1. Some(at', QueuedWriter)
        BY <2>2, <3>1, <3>3, CountersTell DEF Some
      <4>2. Some(at', {"rsleep"}) => Some(at, {"rsleep"})
        BY <3>1 DEF Some
      <4>3. Untimed
        BY <1>1, <3>1, <4>2
      <4>4. QED
        BY <1>0, <3>1, <3>3, <4>1, <4>3
    <3>4. QED
      BY <1>0, <3>2, <3>3
  <2>3. CASE Goes(t, "out") /\ UNCHANGED gaveUp /\ numActiveWriters' >= 1
    <3>1. /\ numActiveWriters' > 0
          /\ numActiveWriters' = Waits(at', {"writing"})
      BY <1>0, <2>3 DEF TypeOK, CountersExact, Waits, Who, In
    <3>2. Inside(at')
      BY <3>1, WaitsTell DEF Some
    <3>3. Quiet /\ Inside(at)
      BY <1>12, <2>0, <2>3 DEF Some
    <3>4. QED
      BY <1>6, <3>2, <3>3
  <2>4. CASE Goes(t, "out") /\ UNCHANGED gaveUp /\ numQueuedReaders = 0
    <3>1. Quiet
      BY <1>12, <2>0, <2>4
    <3>2. QED
      BY <1>3, <1>7, <2>4, <3>1
  <2>5. numQueuedReaders \in Nat
    BY DEF TypeOK
  <2>6. QED
    BY <1>0, <1>19, <2>1, <2>2, <2>3, <2>4, <2>5 DEF WriterUnlock
<1>20. ASSUME NEW t \in Threads, Arbitrate(t)
       PROVE  Good
  <2>0. UNCHANGED deadline /\ gaveUp' = gaveUp /\ q2 = q
    BY <1>20 DEF Arbitrate, q, q2
  <2>1. CASE at[t] = "rgate" /\ readerQueue < 0
    <3>1. at' = [at EXCEPT ![t] = "rsleep"]
      BY <1>20, <2>1 DEF Arbitrate
    <3>2. m2 = m
      BY <1>0, <1>4, <2>1, <3>1
    <3>3. (Inside(at) <=> Inside(at')) /\ (Behind(at) => Behind(at'))
      BY <1>0, <2>1, <3>1 DEF Some
    <3>4. q < 0
      BY <2>1 DEF q
    <3>5. Preferred /\ Held /\ Bounded(q2, m2)
      BY <1>0, <1>1, <2>0, <3>2, <3>3, <3>4
    <3>6. Untimed
      BY <1>0, <1>1, <2>0, <2>1, <3>1, <3>4
    <3>7. QED
      BY <3>5, <3>6
  <2>2. CASE at[t] = "rgate" /\ ~(readerQueue < 0)
    <3>1. at' = [at EXCEPT ![t] = "rwake"]
      BY <1>20, <2>2 DEF Arbitrate
    <3>2. m2 = m - 1 /\ m > 0
      BY <1>0, <1>2, <1>4, <2>2, <3>1 DEF Some
    <3>3. q = 0
      BY <1>0, <2>2 DEF Bounded, q
    <3>4. Inside(at) <=> Inside(at')
      BY <1>0, <2>2, <3>1 DEF Some
    <3>5. Some(at', {"rsleep"}) => Some(at, {"rsleep"})
      BY <1>0, <3>1 DEF Some
    <3>6. Preferred /\ Held
      BY <1>0, <1>1, <2>0, <3>2, <3>3, <3>4, <3>5
    <3>7. Bounded(q2, m2)
      BY <1>0, <2>0, <3>2, <3>3 DEF Bounded
    <3>8. Untimed
      BY <1>0, <1>1, <2>0, <2>2, <3>1, <3>5
    <3>9. QED
      BY <3>6, <3>7, <3>8
  <2>3. CASE at[t] = "wgate"
    <3>1. \E p \in {"wsleep", "wwake"} : at' = [at EXCEPT ![t] = p]
      BY <1>20, <2>3 DEF Arbitrate
    <3>2. m2 = m
      BY <1>0, <1>4, <2>3, <3>1
    <3>3. Quiet
      BY <1>0, <2>0, <2>3, <3>1, <3>2
    <3>4. (Inside(at) <=> Inside(at')) /\ (Behind(at) => Behind(at'))
      BY <1>0, <2>3, <3>1 DEF Some
    <3>5. QED
      BY <1>6, <3>3, <3>4
  <2>4. QED
    BY <1>20, <2>1, <2>2, <2>3 DEF Arbitrate
<1>21. ASSUME NEW t \in Threads, TimeOut(t)
       PROVE  Good
  <2>1. /\ q2 = q /\ UNCHANGED <<deadline, gaveUp>>
        /\ at[t] \in {"rsleep", "wsleep"} /\ deadline[t] # "none"
        /\ at' = [at EXCEPT ![t] = IF at[t] = "rsleep" THEN "rlate" ELSE "wlate"]
    BY <1>0, <1>21 DEF TimeOut, q, q2
  <2>2. m2 = m
    BY <1>0, <1>4, <2>1
  <2>3. Quiet
    BY <1>0, <2>1, <2>2
  <2>4. (Inside(at) <=> Inside(at')) /\ (Behind(at) => Behind(at'))
    BY <1>0, <2>1 DEF Some
  <2>5. QED
    BY <1>6, <2>3, <2>4
<1>22. ASSUME NEW t \in Threads, EndWait(t)
       PROVE  Good
  <2>0. UNCHANGED <<deadline, gaveUp>>
    BY <1>22 DEF EndWait
  <2>1. CASE at[t] = "rlate"
    <3>1. q2 = Accounted(q, 1) /\ at' = [at EXCEPT ![t] = "rwake"]
      BY <1>22, <2>1 DEF EndWait, q, q2
    <3>2. m2 = m - 1 /\ m > 0
      BY <1>0, <1>2, <1>4, <2>1, <3>1 DEF Some
    <3>3. /\ Bounded(q2, m2)
          /\ q = -m => q2 = -m2
      BY <1>0, <3>1, <3>2, Tally
    <3>4. (q = 0 => q2 = 0) /\ (q2 < 0 => q < 0)
      BY <1>0, <3>1 DEF Accounted, HasWaiters
    <3>5. (Inside(at) <=> Inside(at')) /\ (Behind(at) => Behind(at'))
      BY <1>0, <2>1, <3>1 DEF Some
    <3>6. Some(at', {"rsleep"}) => Some(at, {"rsleep"})
      BY <1>0, <3>1 DEF Some
    <3>7. Preferred /\ Held
      BY <1>0, <1>1, <2>0, <3>3, <3>4, <3>5, <3>6
    <3>8. TimedReaders # {}
      BY <1>1, <2>1
    <3>9. QED
      BY <3>3, <3>7, <3>8
  <2>2. CASE at[t] = "wlate"
    <3>1. q2 = q /\ at' = [at EXCEPT ![t] = "wwake"]
      BY <1>22, <2>2 DEF EndWait, q, q2
    <3>2. m2 = m
      BY <1>0, <1>4, <2>2, <3>1
    <3>3. Quiet
      BY <1>0, <2>0, <2>2, <3>1, <3>2
    <3>4. (Inside(at) <=> Inside(at')) /\ (Behind(at) => Behind(at'))
      BY <1>0, <2>2, <3>1 DEF Some
    <3>5. QED
      BY <1>6, <3>3, <3>4
  <2>3. QED
    BY <1>22, <2>1, <2>2 DEF EndWait
<1>23. ASSUME UNCHANGED vars \/ \E t \in Threads : Expire(t)
       PROVE  Good
  <2>1. q2 = q /\ gaveUp' = gaveUp
    BY <1>23 DEF vars, Expire, q, q2
  <2>2. at' = at
    BY <1>23 DEF vars, Expire
  <2>3. m2 = m /\ (Inside(at) <=> Inside(at')) /\ (Behind(at) => Behind(at'))
    BY <2>2, Zenon DEF m, m2
  <2>4. \A u \in Threads : deadline[u] = "none" => deadline'[u] = "none"
    BY <1>23 DEF vars, Expire, TypeOK
  <2>5. Quiet
    BY <2>1, <2>2, <2>3, <2>4
  <2>6. QED
    BY <1>6, <2>3, <2>5
<1> HIDE DEF Good
<1>24. \A t \in Threads : Reader(t) \/ Writer(t) \/ Waiter(t) => Good
  BY <1>9, <1>10, <1>11, <1>13, <1>15, <1>17, <1>18, <1>19, <1>20, <1>21, <1>22
     DEF Reader, Writer, Waiter
<1>25. Good
  BY <1>23, <1>24 DEF Next
<1>26. policy' = policy
  BY DEF Next, Reader, Writer, Waiter, vars, ReaderEnter, ReaderQueue, ReaderRecheck, ReaderUnlock,
         WriterEnter, WriterQueue, WriterRecheck, WriterUnlock, Arbitrate, TimeOut, EndWait, Expire
<1>27. QED
  BY <1>25, <1>26 DEF Good, q2, m2, ReadersPreferred, ReadersUntimed, ReadersHeldBack
-----------------------------------------------------------------------------
\* Attended says of the queues what SleepersAttended says of those asleep.
LEMMA AttendedTells ==
  ASSUME TypeOK, CountersExact, Attended
  PROVE  SleepersAttended
<1>1. /\ In(WriterWaits) = Who(Threads, at, WriterWaits)
      /\ \A P : In(P) # {} <=> Some(at, P)
  BY DEF In, Who, Some
<1>2. SleepingWriterAttended
  <2> SUFFICES ASSUME WritersCounted, In({"wsleep"}) # {}
               PROVE  WriterAttended(at)
    BY <1>1, Zenon DEF SleepingWriterAttended, WriterAttended
  <2>1. writerQueue = -Waits(at, WriterWaits)
    BY <1>1 DEF WritersCounted, Waits
  <2>2. Waits(at, WriterWaits) \in Nat /\ Waits(at, WriterWaits) > 0
    BY WaitsTell DEF In, WriterWaits
  <2>3. QED
    BY <2>1, <2>2 DEF Attended, WritersAttended
<1>3. policy = "PREFER_READERS" => ReadersHeard
  <2> SUFFICES ASSUME policy = "PREFER_READERS", In({"rsleep"}) # {}
               PROVE  readerQueue < 0
    BY DEF ReadersHeard
  <2>1. Some(at, {"rsleep"})
    BY <1>1
  <2>2. Waits(at, ReaderWaits) \in Nat /\ Waits(at, ReaderWaits) > 0
    BY WaitsTell, <2>1 DEF Some, ReaderWaits
  <2>3. readerQueue = -Waits(at, ReaderWaits)
    BY <2>1 DEF Attended, ReadersPreferred
  <2>4. QED
    BY <2>2, <2>3
<1>4. TimedReaders = {} => ReadersHeard
  BY <1>1 DEF Attended, ReadersUntimed, ReadersHeard
<1>5. ReadersHeard /\ ~gaveUp /\ In({"rsleep"}) # {} =>
        In({"writing"}) # {} \/ (policy = "PREFER_WRITERS" /\ In(QueuedWriter) # {})
  BY <1>1 DEF Attended, ReadersHeldBack, ReadersHeard
<1>6. QED
  BY <1>2, <1>3, <1>4, <1>5 DEF SleepersAttended, SleepingReaderAttended

\* No wake-up is lost between the two queues, over conditions that announce a
\* wait before they sleep.  As long as the int of the writers' queue shows
\* every writer in it, a sleeping writer has somebody to wake it; of several
\* queued writers one may fall out of the count and then sleep with nobody
\* inside, which the theorem does not deny.  A sleeping reader has a writer to
\* wait for unless one has given up its timed call, and is found by the next
\* notification if readers are preferred or use no timed calls.
THEOREM NobodyForgotten == Spec => []SleepersAttended
<1>1. Init => Attended
  <2> SUFFICES ASSUME Init PROVE Attended
    OBVIOUS
  <2>1. \A t \in Threads : at[t] = "out"
    BY DEF Init
  <2>2. /\ Waits(at, ReaderWaits) \in Nat /\ Waits(at, WriterWaits) \in Nat
        /\ ~(Waits(at, ReaderWaits) > 0) /\ ~Some(at, {"rsleep"}) /\ ~Some(at, {"writing"})
    BY <2>1, WaitsTell DEF Some, ReaderWaits
  <2>3. readerQueue = 0 /\ writerQueue = 0
    BY DEF Init
  <2>4. QueuesBounded
    BY <2>2, <2>3 DEF QueuesBounded, Bounded
  <2>5. ReadersUntimed
    BY <2>1, <2>2 DEF ReadersUntimed, QueuedReader, ReaderWaits
  <2>6. QED
    BY <2>2, <2>3, <2>4, <2>5 DEF Attended, ReadersPreferred, ReadersHeldBack, WritersAttended
<1>2. TypeOK /\ CountersExact /\ Exclusion /\ Attended /\ [Next]_vars => Attended'
  <2> SUFFICES ASSUME TypeOK, CountersExact, Exclusion, Attended, [Next]_vars
               PROVE  Attended'
    OBVIOUS
  <2>1. policy' = policy
    BY DEF Next, Reader, Writer, Waiter, vars, ReaderEnter, ReaderQueue, ReaderRecheck, ReaderUnlock,
           WriterEnter, WriterQueue, WriterRecheck, WriterUnlock, Arbitrate, TimeOut, EndWait, Expire
  <2>2. WritersAttended'
    BY <2>1, WritersStep DEF WritersAttended, WriterAttended
  <2>3. QueuesBounded'
    BY WritersStep, ReadersStep DEF QueuesBounded
  <2>4. QED
    BY <2>2, <2>3, ReadersStep DEF Attended
<1>3. TypeOK /\ CountersExact /\ Attended => SleepersAttended
  BY AttendedTells
<1>4. QED
  BY <1>1, <1>2, <1>3, Counting, ExclusionHolds, PTL DEF Spec
=============================================================================
