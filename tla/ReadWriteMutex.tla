-------------------------- MODULE ReadWriteMutex --------------------------
(***************************************************************************)
(* The readers-writer mutex of core/sync/rwmutex.d.  Every method runs     *)
(* under m_commonMutex from its first line to its last, except while it    *)
(* waits on m_readerQueue or m_writerQueue, so the stretches between two   *)
(* waits are the actions: arriving, the recheck of a thread whose wait is  *)
(* over, unlocking.                                                        *)
(*                                                                         *)
(* A wait is what it is on Horizon (module Condition): it is announced     *)
(* with the mutex held, the thread asks the kernel to sleep afterwards,    *)
(* and one that has timed out takes its announcement back, all with other  *)
(* calls in between.  A notification raises the int and signals; it is one *)
(* step, for no wait is announced between the two, and a thread that asks  *)
(* to sleep there might as well have asked before (int still negative) or  *)
(* after (int 0).                                                          *)
(***************************************************************************)
EXTENDS CondVar, FiniteSets

CONSTANTS Threads,
          TimedReaders,  \* threads that call reader.tryLock(Duration)
          TimedWriters   \* threads that call writer.tryLock(Duration)

ASSUME RWAssumption ==
  /\ IsFiniteSet(Threads)
  /\ TimedReaders \subseteq Threads
  /\ TimedWriters \subseteq Threads

VARIABLES policy,            \* m_policy, set by the constructor
          numQueuedReaders,  \* m_numQueuedReaders
          numActiveReaders,  \* m_numActiveReaders
          numQueuedWriters,  \* m_numQueuedWriters
          numActiveWriters,  \* m_numActiveWriters
          readerQueue,       \* the int of m_readerQueue
          writerQueue,       \* the int of m_writerQueue
          at,                \* where each thread is
          deadline,          \* "none", or whether a timed call's time is over
          gaveUp             \* history: has a writer that held readers back
                             \* given up since readers were last notified

counters == <<numQueuedReaders, numActiveReaders, numQueuedWriters, numActiveWriters>>
vars == <<policy, numQueuedReaders, numActiveReaders, numQueuedWriters,
          numActiveWriters, readerQueue, writerQueue, at, deadline, gaveUp>>

\* A thread in a wait has announced it and is about to ask the kernel (gate),
\* sleeps there, or has timed out and has not taken its announcement back
\* (late); after the wait it wants m_commonMutex (wake).
ReaderWaits == {"rgate", "rsleep", "rlate"}
WriterWaits == {"wgate", "wsleep", "wlate"}
QueuedReader == ReaderWaits \cup {"rwake"}
QueuedWriter == WriterWaits \cup {"wwake"}
Places == {"out", "reading", "writing"} \cup QueuedReader \cup QueuedWriter

In(P) == {t \in Threads : at[t] \in P}

TypeOK ==
  /\ policy \in {"PREFER_READERS", "PREFER_WRITERS"}
  /\ numQueuedReaders \in Nat /\ numActiveReaders \in Nat
  /\ numQueuedWriters \in Nat /\ numActiveWriters \in Nat
  /\ readerQueue \in Int /\ writerQueue \in Int
  /\ at \in [Threads -> Places]
  /\ deadline \in [Threads -> {"none", "ahead", "over"}]
  /\ gaveUp \in BOOLEAN

Init ==
  /\ policy \in {"PREFER_READERS", "PREFER_WRITERS"}
  /\ numQueuedReaders = 0 /\ numActiveReaders = 0
  /\ numQueuedWriters = 0 /\ numActiveWriters = 0
  /\ readerQueue = 0 /\ writerQueue = 0
  /\ at = [t \in Threads |-> "out"]
  /\ deadline = [t \in Threads |-> "none"]
  /\ gaveUp = FALSE
-----------------------------------------------------------------------------
\* Faulty variants: the policy's test is missing, or made for both policies.
ShouldQueueReaderNoPolicy == numActiveWriters > 0
ShouldQueueReaderAlways == numActiveWriters > 0 \/ numQueuedWriters > 0

ShouldQueueReader ==
  \/ numActiveWriters > 0
  \/ policy = "PREFER_WRITERS" /\ numQueuedWriters > 0

\* A faulty variant: active readers do not count.
ShouldQueueWriterPastReaders ==
  \/ numActiveWriters > 0
  \/ policy = "PREFER_READERS" /\ numQueuedReaders > 0

ShouldQueueWriter ==
  \/ numActiveWriters > 0 \/ numActiveReaders > 0
  \/ policy = "PREFER_READERS" /\ numQueuedReaders > 0

\* m_readerQueue.wait and m_writerQueue.wait, until the mutex is given up.
AnnounceReader(t) ==
  /\ readerQueue' = Announced(readerQueue)
  /\ at' = [at EXCEPT ![t] = "rgate"]
  /\ UNCHANGED writerQueue

AnnounceWriter(t) ==
  /\ writerQueue' = Announced(writerQueue)
  /\ at' = [at EXCEPT ![t] = "wgate"]
  /\ UNCHANGED readerQueue

\* Thread t leaves without a wait or a notification.
Goes(t, place) ==
  /\ at' = [at EXCEPT ![t] = place]
  /\ UNCHANGED <<readerQueue, writerQueue>>

\* m_writerQueue.notify() and m_readerQueue.notifyAll(), by thread t that
\* leaves.  They find only those asleep in the kernel, and signal nobody
\* if the int shows no waiters.
NotifyWriter(t) ==
  /\ writerQueue' = Accounted(writerQueue, 1)
  /\ IF HasWaiters(writerQueue) /\ In({"wsleep"}) # {}
     THEN \E w \in In({"wsleep"}) :
            at' = [at EXCEPT ![t] = "out", ![w] = "wwake"]
     ELSE at' = [at EXCEPT ![t] = "out"]
  /\ UNCHANGED <<readerQueue, gaveUp>>

\* A faulty variant: notify for notifyAll.
NotifyReader(t) ==
  /\ readerQueue' = Accounted(readerQueue, 1)
  /\ IF HasWaiters(readerQueue) /\ In({"rsleep"}) # {}
     THEN \E r \in In({"rsleep"}) :
            at' = [at EXCEPT ![t] = "out", ![r] = "rwake"]
     ELSE at' = [at EXCEPT ![t] = "out"]
  /\ gaveUp' = FALSE
  /\ UNCHANGED writerQueue

NotifyReaders(t) ==
  /\ readerQueue' = Accounted(readerQueue, All)
  /\ at' = [u \in Threads |->
              IF u = t THEN "out"
              ELSE IF at[u] = "rsleep" /\ HasWaiters(readerQueue) THEN "rwake"
              ELSE at[u]]
  /\ gaveUp' = FALSE
  /\ UNCHANGED writerQueue
-----------------------------------------------------------------------------
\* A faulty variant: a flag for a count.
ReaderEnterAsFlag(t) ==
  /\ at[t] = "out" /\ ~ShouldQueueReader
  /\ numActiveReaders' = 1
  /\ Goes(t, "reading")
  /\ UNCHANGED <<policy, numQueuedReaders, numQueuedWriters, numActiveWriters, deadline, gaveUp>>

\* reader.lock, reader.tryLock and reader.tryLock(Duration) of a thread that
\* need not queue.  A failing tryLock changes nothing and is not a step.
ReaderEnter(t) ==
  /\ at[t] = "out" /\ ~ShouldQueueReader
  /\ numActiveReaders' = numActiveReaders + 1
  /\ Goes(t, "reading")
  /\ UNCHANGED <<policy, numQueuedReaders, numQueuedWriters, numActiveWriters, deadline, gaveUp>>

\* The same calls when the thread queues; dl is "none" for lock.
ReaderQueue(t, dl) ==
  /\ at[t] = "out" /\ ShouldQueueReader
  /\ dl = "ahead" => t \in TimedReaders
  /\ numQueuedReaders' = numQueuedReaders + 1
  /\ AnnounceReader(t)
  /\ deadline' = [deadline EXCEPT ![t] = dl]
  /\ UNCHANGED <<policy, numActiveReaders, numQueuedWriters, numActiveWriters, gaveUp>>

\* The loop after m_readerQueue.wait: take the lock, give up, or wait again.
ReaderRecheck(t) ==
  /\ at[t] = "rwake"
  /\ \/ /\ ~ShouldQueueReader
        /\ numQueuedReaders' = numQueuedReaders - 1
        /\ numActiveReaders' = numActiveReaders + 1
        /\ Goes(t, "reading")
        /\ deadline' = [deadline EXCEPT ![t] = "none"]
     \/ /\ ShouldQueueReader /\ deadline[t] = "over"
        /\ numQueuedReaders' = numQueuedReaders - 1
        /\ Goes(t, "out")
        /\ deadline' = [deadline EXCEPT ![t] = "none"]
        /\ UNCHANGED numActiveReaders
     \/ /\ ShouldQueueReader /\ deadline[t] # "over"
        /\ AnnounceReader(t)
        /\ UNCHANGED <<numQueuedReaders, numActiveReaders, deadline>>
  /\ UNCHANGED <<policy, numQueuedWriters, numActiveWriters, gaveUp>>

ReaderUnlock(t) ==
  /\ at[t] = "reading"
  /\ numActiveReaders' = numActiveReaders - 1
  /\ IF numActiveReaders' < 1 /\ numQueuedWriters > 0
     THEN NotifyWriter(t)
     ELSE Goes(t, "out") /\ UNCHANGED gaveUp
  /\ UNCHANGED <<policy, numQueuedReaders, numQueuedWriters, numActiveWriters, deadline>>
-----------------------------------------------------------------------------
WriterEnter(t) ==
  /\ at[t] = "out" /\ ~ShouldQueueWriter
  /\ numActiveWriters' = numActiveWriters + 1
  /\ Goes(t, "writing")
  /\ UNCHANGED <<policy, numQueuedReaders, numActiveReaders, numQueuedWriters, deadline, gaveUp>>

WriterQueue(t, dl) ==
  /\ at[t] = "out" /\ ShouldQueueWriter
  /\ dl = "ahead" => t \in TimedWriters
  /\ numQueuedWriters' = numQueuedWriters + 1
  /\ AnnounceWriter(t)
  /\ deadline' = [deadline EXCEPT ![t] = dl]
  /\ UNCHANGED <<policy, numQueuedReaders, numActiveReaders, numActiveWriters, gaveUp>>

WriterRecheck(t) ==
  /\ at[t] = "wwake"
  /\ \/ /\ ~ShouldQueueWriter
        /\ numQueuedWriters' = numQueuedWriters - 1
        /\ numActiveWriters' = numActiveWriters + 1
        /\ Goes(t, "writing")
        /\ deadline' = [deadline EXCEPT ![t] = "none"]
        /\ UNCHANGED gaveUp
     \/ /\ ShouldQueueWriter /\ deadline[t] = "over"
        /\ numQueuedWriters' = numQueuedWriters - 1
        /\ Goes(t, "out")
        /\ deadline' = [deadline EXCEPT ![t] = "none"]
        /\ gaveUp' = (gaveUp \/ (policy = "PREFER_WRITERS" /\ numQueuedReaders > 0))
        /\ UNCHANGED numActiveWriters
     \/ /\ ShouldQueueWriter /\ deadline[t] # "over"
        /\ AnnounceWriter(t)
        /\ UNCHANGED <<numQueuedWriters, numActiveWriters, deadline, gaveUp>>
  /\ UNCHANGED <<policy, numQueuedReaders, numActiveReaders>>

WriterUnlock(t) ==
  /\ at[t] = "writing"
  /\ numActiveWriters' = numActiveWriters - 1
  /\ \/ /\ numActiveWriters' < 1
        /\ \/ policy = "PREFER_READERS" /\ numQueuedReaders > 0
           \/ policy = "PREFER_WRITERS" /\ numQueuedReaders > 0 /\ numQueuedWriters = 0
        /\ NotifyReaders(t)
     \/ /\ numActiveWriters' < 1
        /\ \/ policy = "PREFER_WRITERS" /\ numQueuedWriters > 0
           \/ policy = "PREFER_READERS" /\ numQueuedWriters > 0 /\ numQueuedReaders = 0
        /\ NotifyWriter(t)
     \/ /\ numActiveWriters' >= 1 \/ (numQueuedReaders = 0 /\ numQueuedWriters = 0)
        /\ Goes(t, "out") /\ UNCHANGED gaveUp
  /\ UNCHANGED <<policy, numQueuedReaders, numActiveReaders, numQueuedWriters, deadline>>
-----------------------------------------------------------------------------
\* The kernel puts t to sleep if the int is still negative.
Arbitrate(t) ==
  /\ \/ /\ at[t] = "rgate"
        /\ at' = [at EXCEPT ![t] = IF readerQueue < 0 THEN "rsleep" ELSE "rwake"]
     \/ /\ at[t] = "wgate"
        /\ at' = [at EXCEPT ![t] = IF writerQueue < 0 THEN "wsleep" ELSE "wwake"]
  /\ UNCHANGED <<policy, counters, readerQueue, writerQueue, deadline, gaveUp>>

\* timeElapsed reaches timeout, wherever the thread is.
Expire(t) ==
  /\ deadline[t] = "ahead"
  /\ deadline' = [deadline EXCEPT ![t] = "over"]
  /\ UNCHANGED <<policy, counters, readerQueue, writerQueue, at, gaveUp>>

\* The time of a wait(Duration) is over, which may be less than is left of the
\* call's (maxWaitPerCall).
TimeOut(t) ==
  /\ deadline[t] # "none"
  /\ at[t] \in {"rsleep", "wsleep"}
  /\ at' = [at EXCEPT ![t] = IF @ = "rsleep" THEN "rlate" ELSE "wlate"]
  /\ UNCHANGED <<policy, counters, readerQueue, writerQueue, deadline, gaveUp>>

EndWait(t) ==
  /\ \/ /\ at[t] = "rlate"
        /\ readerQueue' = Accounted(readerQueue, 1)
        /\ at' = [at EXCEPT ![t] = "rwake"]
        /\ UNCHANGED writerQueue
     \/ /\ at[t] = "wlate"
        /\ writerQueue' = Accounted(writerQueue, 1)
        /\ at' = [at EXCEPT ![t] = "wwake"]
        /\ UNCHANGED readerQueue
  /\ UNCHANGED <<policy, counters, deadline, gaveUp>>

Reader(t) ==
  \/ ReaderEnter(t) \/ ReaderRecheck(t) \/ ReaderUnlock(t)
  \/ \E dl \in {"none", "ahead"} : ReaderQueue(t, dl)

Writer(t) ==
  \/ WriterEnter(t) \/ WriterRecheck(t) \/ WriterUnlock(t)
  \/ \E dl \in {"none", "ahead"} : WriterQueue(t, dl)

Waiter(t) == Arbitrate(t) \/ TimeOut(t) \/ EndWait(t)

Next == \E t \in Threads : Reader(t) \/ Writer(t) \/ Waiter(t) \/ Expire(t)

Spec == Init /\ [][Next]_vars

\* A thread that holds the lock releases it, one that is in a wait goes on
\* until it sleeps and after it is released, and time passes.  No call has to
\* be made, and no untimed wait has to end by itself.
FairSpec ==
  /\ Spec
  /\ \A t \in Threads :
       /\ WF_vars(ReaderUnlock(t) \/ WriterUnlock(t))
       /\ WF_vars(ReaderRecheck(t) \/ WriterRecheck(t))
       /\ WF_vars(Waiter(t)) /\ WF_vars(Expire(t))
-----------------------------------------------------------------------------
\* "when a writer enters, all other readers and writers are blocked"
\* (rwmutex.d:40): a thread that writes is the only one inside.
Exclusion ==
  \A t, u \in Threads : at[t] = "writing" /\ u # t => at[u] \notin {"reading", "writing"}

\* The four counters are what the threads say they are, also after timeouts
\* (the scope(exit) decrements) and with threads released but not yet running.
CountersExact ==
  /\ numActiveReaders = Cardinality(In({"reading"}))
  /\ numActiveWriters = Cardinality(In({"writing"}))
  /\ numQueuedReaders = Cardinality(In(QueuedReader))
  /\ numQueuedWriters = Cardinality(In(QueuedWriter))

\* Every writer in a wait is counted in the int.  After a notification that
\* finds nobody asleep it is not so until the queue has run empty: a writer
\* that was let go is still on its way to the kernel, where it may sleep on
\* the wait of another.
WritersCounted == writerQueue = -Cardinality(In(WriterWaits))

\* As long as they are counted, no writer sleeps unattended: some thread is
\* inside and will pass the lock on, or a writer has been released and has
\* yet to look; where readers are preferred, it may be a reader that has been
\* released and will get in.
SleepingWriterAttended ==
  WritersCounted /\ In({"wsleep"}) # {} =>
    \/ In({"reading", "writing", "wwake"}) # {}
    \/ policy = "PREFER_READERS" /\ In({"rgate", "rlate", "rwake"}) # {}

\* A notifyAll will find those asleep.
ReadersHeard == In({"rsleep"}) # {} => readerQueue < 0

\* Readers are always heard where they are preferred, and else unless some
\* use timed calls: a reader that was let go may sleep on the announcement of
\* another, who times out and takes it back.  And those that are heard wait
\* for a writer that is there: inside or, where writers are preferred, queued.
\* A queued writer that gives up its timed call breaks this until the next
\* notifyAll (ReadersAlerted).
SleepingReaderAttended ==
  /\ policy = "PREFER_READERS" \/ TimedReaders = {} => ReadersHeard
  /\ ReadersHeard /\ ~gaveUp /\ In({"rsleep"}) # {} =>
       \/ In({"writing"}) # {}
       \/ policy = "PREFER_WRITERS" /\ In(QueuedWriter) # {}

\* No wake-up is lost between the two queues, and none in a queue but for
\* those that the condition gives to threads that are not asleep yet.
SleepersAttended == SleepingWriterAttended /\ SleepingReaderAttended

\* The comment on the policies (rwmutex.d:61-63): "once there are no writers
\* present, all queued readers will be alerted".
ReadersAlerted ==
  \A t \in Threads :
    at[t] = "rsleep" /\ In({"writing"} \cup QueuedWriter) = {}
      ~> at[t] # "rsleep" \/ In({"writing"} \cup QueuedWriter) # {}

\* Where readers are preferred, one that queues for the lock gets it or gives
\* up at its deadline: no stream of writers can starve it.
ReaderGetsIn ==
  \A t \in Threads :
    policy = "PREFER_READERS" /\ at[t] \in QueuedReader ~> at[t] \in {"reading", "out"}

\* A queued writer keeps new readers out where writers are preferred: some
\* writer gets in, or every queued one has given up at its deadline, or a
\* notification has gone to one that was not asleep and another sleeps on.
SomeWriterGetsIn ==
  policy = "PREFER_WRITERS" /\ In(QueuedWriter) # {}
    ~> \/ In({"writing"}) # {} \/ In(QueuedWriter) = {}
       \/ In({"wsleep"}) # {} /\ ~WritersCounted
=============================================================================
