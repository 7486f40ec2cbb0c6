# Specifications of 3dskit-dlang

This directory holds TLA+ specifications of 3dskit-dlang, a D toolchain add-on
for the Nintendo 3DS ("Horizon"): a port of druntime and Phobos, bindings of
libctru, citro2d and citro3d, and the `btl` library of smart pointers and
containers. TLC checks the modules on small instances (the `.cfg` files), and
the TLA+ proof system checks the theorems of the `*_proofs` modules for every
value of the constants.

Paths below are relative to the repository; `sync/` abbreviates
`3ds-d-runtime/druntime/src/core/sync/`, `autoptr/` abbreviates `btl/autoptr/`.

## 1. The system and its parts

| component | state it keeps | operations | interacts with |
|---|---|---|---|
| mutex (`sync/mutex.d`) | one libctru `RecursiveLock`: light lock, owner tag, depth | lock, unlock, tryLock | the kernel; every class below |
| condition (`sync/condition.d`) | `m_cndvar`, an int: minus the number of announced waits not yet accounted for; a reference to its mutex | wait, wait(Duration), notify, notifyAll | mutex; the kernel's address arbiter |
| readers-writer mutex (`sync/rwmutex.d`) | four counters, a policy, one mutex, two conditions | lock, unlock, tryLock, tryLock(Duration) of either side | mutex, condition |
| barrier (`sync/barrier.d`) | `m_limit`, `m_group`, `m_count`, one mutex, one condition | wait | mutex, condition |
| semaphore, event (`sync/semaphore.d`, `sync/event.d`) | a libctru LightSemaphore; a LightEvent | wait, notify; set, reset, wait | the kernel |
| threads (`core/thread/`) | list of threads, per-thread handle, flags | start, join, isRunning, detach | kernel, garbage collector |
| fibers (`core/thread/fiber.d`) | HOLD / EXEC / TERM, a stack | call, yield, reset | threads |
| control block (`autoptr/common.d`) | `shared_count`, `weak_count`, a vtable | add, release, add_shared_if_exists, on_zero_shared, on_zero_weak | allocators, destructors |
| SharedPtr, RcPtr, IntrusivePtr, UniquePtr (`autoptr/*.d`) | pointer(s) to a block and an element | make, copy, move, assign, lock, weak, load / store / exchange / compareExchange | control block; a pool of 16 mutexes for `shared` handles (`btl/internal/mutex.d`) |
| btl containers | Vector, String (small-string storage), List, flat map | sequential | allocators |
| message passing (`phobos/std/concurrency.d`) | a mailbox per thread: shared lists, local lists, limit, closed flag | send, receive, receiveTimeout, setMaxMailboxSize | one mutex, two conditions |
| task pools (`phobos/std/parallelism.d`) | a queue of tasks, a status per task | put, yieldForce, workForce, stop | mutex, conditions, threads |
| garbage collector, runtime lowering, Phobos | upstream D code | | |
| C headers (`headers/`) with code of their own | the words of a request, of a texture, of a uniform register; a matrix stack; the size and center of a sprite; vectors and quaternions | inline functions, some translated to D by hand (`ys3ds/`) | the kernel, the GPU, the prebuilt libraries |
| exclusive loads and stores (`headers/ctru/3ds/synchronization.h`) | a word in memory, the processor's monitor | ldrex, strex, clrex | conditions, whose D code repeats the loops |
| other headers and bindings | declarations of C functions | | |

`PROJECT.json` lists the same components with their files and says of each what
is modelled.

### How they interact, and what is hard

* **Condition on Horizon.** This is code of the port, not of upstream druntime.
  `wait` is `_beginWait` (decrement the int, unlock), the arbiter's
  `ARBITRATION_WAIT_IF_LESS_THAN 0`, and `lock`; a wake-up is an update of the
  int followed by the arbiter's signal. All of these are separate steps, and
  any other thread can run between two of them. Hard: a notification that falls
  between the announcement and the sleep; a timeout racing with a notification;
  a wait of a recursive mutex; the value -1 that stands for "all".
* **Readers-writer mutex.** A released sleeper is still counted as queued until
  it runs, so the decision whom to notify is made on counters that are ahead of
  the threads; a timed call leaves by another way than it was let in. Several
  threads wait on each of its two conditions, so that a notification reaches the
  queue and not always the thread it was for.
* **Barrier.** A fast thread comes back before the slow ones of its group have
  left; `m_group` wraps.
* **Reference counts.** Handles of several threads copy, lock and release
  concurrently. `release!true` frees the block *without* decrementing when it
  loads 0. The last owner runs the destructor with the block still referenced
  and gives up the owners' common weak reference afterwards.
* **Mailbox.** The owner takes messages over from the senders in bulk and counts
  them only when it comes back for more; a sender that waits for room is
  outside the lock while the limit changes, the owner sleeps or the mailbox is
  closed; a receive with a timeout is at the mercy of what `wait(Duration)`
  returns.
* **Exclusive stores.** A store fails when anyone else has stored, or when the
  thread was switched; all of the loops have to go round at the right place.
* **Words built from fields.** Requests, descriptors and sampling parameters are
  put together by shifts; a field that is a bit too wide spoils its neighbour.
  The D bindings repeat the C functions by hand.
* **Handle assignment.** `opAssign` releases the old value before it reads the
  new one. The release may run a destructor, which destroys the handles inside
  the object, which may release further objects: a whole list goes in the middle
  of one assignment.

### What makes each part correct

* mutex and condition: a wait gives the mutex back as it took it; a
  notification reaches a thread that was waiting; a waiter sleeps only if some
  later notification will find it; timeouts return.
* readers-writer mutex: exclusion; exact counters; no sleeper that nobody will
  wake; no starvation of the side that is preferred. (The last two hold with
  reservations, see finding 3.)
* barrier: groups of exactly `m_limit`; everybody of a full group proceeds.
* control block: no access after the destructor or the deallocation, both run
  once and in order, no revival, no leak.
* mailbox: every message received once and in order; nobody sleeps beside what
  it waits for; what a limit and a closing let through is bounded.
* exclusive loads and stores: they amount to atomic steps, and not all of them
  fail for ever.
* words built from fields: what is read is what was written, whatever was
  written before.
* uniforms: what is not marked dirty is what the GPU has.
* handles: an assignment gives the value the other handle had; an object lives
  exactly as long as a strong handle points to it; every count is the number of
  handles, at every depth of a cascade.

The complete list of hazards, each at its line and with the properties that
cover it or the reason why none does yet, is in `PROJECT.json`.

## 2. Modules

| module | models | variables ↔ code |
|---|---|---|
| `Mutex` | `RecursiveLock` as `sync/mutex.d` uses it | operators on a lock word `[tag, counter]`; the owner module keeps the word |
| `CondVar` | the word of a condition: `_beginWait`, `_endWait` as functions | operators on an int; the owner module keeps it |
| `Condition` | `sync/condition.d` step by step with its mutex | `lock` = `m_assocMutex`, `cv` = `m_cndvar`, `at` = program counter inside a call, `timed`, `num` = arguments, `result` = what wait returned; `held`, `due`, `notified` are history |
| `Monitor` | abstract: a Mesa monitor with timed waits and spurious wake-ups | `owner`, `place` |
| `ReadWriteMutex` | `sync/rwmutex.d` over two conditions as they are on Horizon | the four `m_num…` counters under their names; `readerQueue`, `writerQueue` = the ints of the two conditions; `at` = a thread's place, with those of `Condition` for a wait: announced (`gate`), asleep (`sleep`), timed out and still counted (`late`), on its way back to the mutex (`wake`); `deadline` per timed call; `gaveUp` is history |
| `BarrierCore` | state and straight-line code of `sync/barrier.d` | `m_group`, `m_count`; `stage`, `group` = a thread's position and local copy |
| `Barrier` | `BarrierCore` over `Monitor` | `owner`, `place` of the monitor |
| `BarrierOnCondition` | `BarrierCore` over `Condition` | the variables of `Condition` |
| `AbstractBarrier` | abstract: threads cross in groups of `Limit` | `gathering`, `leaving` |
| `Message` | the messages of `concurrency.d` and which of them a receive is for | |
| `MessageBox` | the mailbox: put, get with and without a timeout, setMaxMsgs, close, with its mutex and its two conditions as they are on Horizon | `sharedBox`, `sharedPty`, `localBox`, `localPty`, `localMsgs`, `maxMsgs`, `closed`, `putQueue`, `putMsg`, `notFull` = the members of the same names; `crowding` = `m_onMaxMsgs`; `at`, `inHand` = a sender inside put; `owner`, `want`, `mode`, `timedOut` = the owner inside get; `relaxed` is history |
| `Mailbox` | abstract: a list in order of arrival, and one of priority messages beside it | `box`, `urgent`, `open` |
| `ControlBlock` | counters of `autoptr/common.d`, and what construction, copy, move, `weak()`, `lock()` and destruction of a `SharedPtr` do to them | `shared_count`, `weak_count`; `at` per handle, `owners` = the local of `add_shared_if_exists` |
| `SharedPtr` | handles of one thread to several objects, strong and weak, in variables and inside objects: make, `opAssign`, lock, `proxySwap`, exchange, compareExchange, destruction; SharedPtr, or RcPtr and IntrusivePtr with `GuardsSelf` | `ptr` = `_control` and `_element` of a handle, `shared_count`, `weak_count`, `status` of each block; `todo` = the calls of release and destructors in progress, innermost first; `call` = the `opAssign` they belong to |
| `Ownership` | abstract: handles with values, objects that live while owned | `points`, `alive` |
| `Exclusive` | the loops of `__ldrex` and `__strex` on the word of a condition | `word`; `at`, `doing`, `val` = a thread's place in its loop, `linked` = whose load still counts |
| `AtomicWord` | abstract: the same changes in one step each | `word`, `told` |
| `Ipc` | the functions of `ipc.h` and their translation `ipc.d`, and the kernel going through a request from descriptor to descriptor (`Translate`) | `cmd` = the command buffer; `command`, `normal`, `items` = what the program puts into it; `cursor`, `found` = where the kernel is and what it has found |
| `Uniforms` | the setters of `uniforms.h` and a stack of `mtxstack.h` bound to registers | `cpu`, `dirty`, `stack`, `stackDirty`; `gpu` = the GPU's registers |
| `Texture` | `texture.h` and its translation: levels, filters, wrapping, bias | `tex`; `asked` is history |
| `Sprite` | size, scale and center of `sprite.h` | `w`, `h`, `centerX`, `centerY`; `set` is history |
| `Orientation` | the inline vector and quaternion functions of `maths.h`, exact | `q` and two vectors turned along |
| `Words` | 32-bit words as sets of bits | |
| `HeaderCode` | the five parts above that are code in headers, and `Exclusive`: one of them is chosen at the start | `part`, and the variables of all |
| `CountingLemmas` | cardinality of a set of threads or handles in given places after one or two of them move; powers of two | |
| `Condition_proofs`, `ReadWriteMutex_proofs`, `BarrierOnCondition_proofs`, `MessageBox_proofs`, `ControlBlock_proofs`, `SharedPtr_proofs` | the theorems about the module they are named after; `BarrierOnCondition_proofs` also has those about `Barrier` | |
| `HeaderCode_proofs` | the theorems about every part of `HeaderCode` | |

An action is one stretch of code that no other thread can observe in the
middle: an atomic access in `Condition` and `ControlBlock`; the code up to the
announcement of a wait, which runs under the class's mutex, the arbiter, a
timeout and taking back the announcement in `ReadWriteMutex`; what runs
under `m_lock` between two calls of the condition in the barrier; one load or store
in `Exclusive`; one call of an inline function in the other parts of
`HeaderCode`; one call of release or of a destructor in `SharedPtr`, which is sequential and whose actions
are there to show what a call finds in the middle of another. Each action
names the method it stands for; `PROJECT.json` ("map") has the lines.

`Monitor` is used twice: as the specification that `Condition` is shown to
implement (`ImplementsMonitor`, with the refinement mapping at the end of
`Condition`), and as the condition that `Barrier` runs on. `ReadWriteMutex` and
`MessageBox` do not use it, for it is not what several waiters get: their waits
are what they are on Horizon, announced under the mutex and put to sleep
afterwards. In both, a notification is one step, the update of the int with the
signal: nobody announces a wait in between, for the notifier holds the mutex, and a
thread that asks to sleep there might as well have asked before the one or after the
other. `MessageBox`'s timed wait returns the opposite of what the caller expects
(`ReadWriteMutex` does not look at the result). It implements
`Mailbox` all the same: under the mapping the contents are the owner's lists
followed by the senders'. `AtomicWord` is what every other module takes an update
of a condition's word for; `Exclusive` implements it. `AbstractBarrier` is implemented by
`Barrier`, liveness included, and by `BarrierOnCondition` as far as safety
goes. `Ownership` is implemented by `SharedPtr`, liveness included: under the
mapping a handle has its new value from the moment the assignment begins, the destructor of an object is `Collect`, and everything that happens to counters
is a stuttering step.

`ControlBlock` and `SharedPtr` model the same counters from two sides: the
first has one object, atomics and any interleaving of threads; the second has
several objects, one thread, and what assignments and destructors do.

Definitions that begin "A faulty variant" are alternatives to the definition
that follows them: what the code would do with a plausible mistake in it (a
dropped test, an off-by-one, a missing reset). No specification uses them; each
property is violated when one of them takes the place of the real definition,
as listed under "mutants", so none holds by the shape of the model.

### Reading the sources

* `condition.d` does not compile as it is committed: `_endWait` is declared
  `void` and returns a bool (lines 54 and 75), and `&m_assocMutex` is passed
  where a `Mutex` is expected (224 and 263). The model reads them as the bool
  and the mutex, the only reading under which the calls make sense.
* External code is modelled from its use: `CondVar_WakeUp` and
  `syncArbitrateAddress` of libctru, which update the same int and wake
  sleepers on its address, and `RecursiveLock_*`. The arbiter picks which
  sleepers it wakes; the model allows any.
* Shared and non-shared overloads of a method have the same body and share an
  action.
* A thread that has the readers-writer mutex does not lock it again: the class
  supports no recursion.
* Accesses to atomics are taken as sequentially consistent. `release!true` uses
  an acquire load; in the model no access depends on an order between different
  variables except through the value it reads.
* `lock` and the recheck after a wait compete for the mutex; the mutex makes no
  promise of order, and the models make none.

## 3. Runs

State counts are distinct states.

| run | instance | states | what it shows |
|---|---|---|---|
| `condition_one_waiter` | 1 waiter, 3 notifiers that hold the mutex, depth 1 | 1 232 | the condition implements `Monitor`; a notification reaches those it is for; every sleeper is counted; the mutex is given back as it was taken; timed waits end. Deadlock is checked. |
| `condition_timed_result` | 1 waiter, 1 notifier | violation | finding 1 |
| `rw` | 4 threads, either policy, one with timed reads, two with timed writes, over the Horizon conditions | 164 596 | exclusion and exact counters; readers are neither forgotten nor starved where they are preferred; a sleeping writer is attended to *while its condition counts every writer that waits*, and some writer gets in unless that count has been lost (finding 3) |
| `rw_stranded_reader` | 3 threads, writers with timeouts | violation | finding 2 |
| `barrier` | 4 threads, limit 3 | 5 608 | over a documented monitor `m_count` is exact, and the barrier implements `AbstractBarrier` with its fairness: threads cross in full groups, and every thread of a full group leaves |
| `barrier_stuck` | 2 threads, limit 2, over the Horizon condition | violation | finding 3 |
| `message_box` | 2 senders, 1 type, limits 1 and 2 that any thread may change | 279 760 | the mailbox implements `Mailbox`; nobody sleeps beside what it waits for; counts are exact; what a limit and a closing let through is bounded; receives return and senders get in |
| `control_block` | 4 handles | 110 134 | no use after destruction or free, one destruction and one free in that order, exact counters, no revival, no leak |
| `shared_ptr` | 2 strong and 1 weak variable, 3 objects, careful client | 243 068 | every handle valid and every count exact at every step of a cascade, no call on memory given back, no leak but cycles; implements `Ownership` with its fairness |
| `shared_ptr_self` | the same with 2 objects, any client | violation | finding 4 |
| `header_code` | one part at a time, see the bounds | 498 086 | exclusive loops implement `AtomicWord` and do not all fail for ever; the GPU has what is not dirty; the kernel reads a request as it was built; levels tile their memory; sampling words say what was last asked for; the center of a sprite and turned vectors survive long sequences of calls |
| `header_code_d` | the same with the functions of the D bindings | violation | finding 5 |

### Findings

1. **`wait(Duration)` returns the opposite of its documentation**
   (`condition.d:96` against 241): true when it has timed out. The mailbox
   believes the documentation (`concurrency.d:2312`): on Horizon
   `receiveTimeout` returns false as soon as a message has been put, and leaves
   the message where it is; after a real timeout it waits again, for the whole
   period, and so on until something is put.
2. **Readers stay asleep after a writer gives up** (`rwmutex.d:576` against
   61-63). Under `PREFER_WRITERS` a reader queues because a writer is queued; the
   writer's `tryLock(Duration)` runs out, it decrements the counter and notifies
   nobody. The lock is free, no writer is present, and the reader sleeps until
   somebody takes and releases the write lock.
3. **The barrier can hold back a thread of a full group** (`barrier.d:88`). The
   cause is the condition (`condition.d:83`): a wait is announced and the mutex
   given up before the arbiter is asked to sleep. The thread that completes the
   group broadcasts and comes back for the next group before a slow thread of the
   first group has reached the arbiter; the slow thread sees a negative int,
   that of the next group's wait, and sleeps. In the same way
   `NotifyWakesOne` holds with one waiter and fails with two (set `Waiters` to
   two threads in `ConditionOneWaiter.cfg`): a notify raises the int
   to 0 and finds nobody asleep, another wait lowers it, and the first waiter
   sleeps through what was meant for it.

   The readers-writer mutex has several threads on one condition, and so it can
   *stop for good*. Under `PREFER_WRITERS` one thread reads, two queue as writers
   and are both short of the arbiter (the int is -2), a fourth queues as reader and
   sleeps. The reader inside unlocks and notifies a writer: the int becomes -1, and
   nobody is there to be woken. It then comes back as a reader, has to queue behind
   the writers, and sleeps. Both writers reach the arbiter, find -1 and sleep.
   Nobody is inside, and all four sleep (run `rw` without `CHECK_DEADLOCK FALSE`).
   A milder course needs no more than two writers: the first one, not yet at the
   arbiter, is notified in vain, a second announces its wait, the first sleeps on that
   announcement, the next notification wakes the second, and when that one
   unlocks it finds the int at 0 and signals nobody. `WritersCounted` in
   `SleepersAttended` and in `SomeWriterGetsIn` is exactly the reservation this
   calls for: drop it, and TLC shows either.
4. **Assignment from itself, or from inside the object it releases**
   (`shared_ptr.d:651`). SharedPtr's guard against `x = x` is compiled only
   when the two handles are of different strength, where it cannot apply; with one
   owner, `x = x` destroys and frees the object and leaves `x` pointing to it.
   RcPtr and IntrusivePtr test for the same strength. All three release before
   they read the source, so that `x = x.get.next`, the step of a list, reads a
   handle in memory just freed; set `GuardsSelf = TRUE` in the same
   configuration to see that one. `Careful` in `shared_ptr` is what a client has
   to observe: assign from another handle, one in a variable or in an object
   that some other variable owns, and move in the remaining cases.
5. **The D translation of `IPC_MakeHeader`** (`ys3ds/ctru/_3ds/ipc.d:37`)
   shifts the number of words to translate to the place of the number of normal
   words, where the C header does not shift it. The kernel is told of no
   handles or buffers, and of too many other words. (The D translation of
   `C3D_TexGetImagePtr` also differs: it gives size 0 for level -1, the whole
   image; `LevelsTile` fails with `Binding = "D"`.)

Of the mailbox, three things are worth knowing that the runs and theorems say and
its comments do not. The limit is not a maximum: up to twice the largest limit
fits (`UsersBounded`), because the owner counts its own list only when it comes
for more and then takes over what is there. A closed mailbox takes in up to one
message of each sender that was waiting for room (`LateMessagesFew`). And
neither closing nor raising the limit wakes anybody (`relaxed` in
`SendersAttended`; no fairness helps a sender that waits at a closed mailbox).

### Bounds

* *Threads and handles.* The refinement of `Monitor` holds for one waiter only
  (finding 3); three notifiers let two notifications overlap while a third
  begins. The readers-writer mutex gets four threads, so that two of a side and
  two of the other can be inside, queued or released at once; one reader and two
  writers may use timed calls, so that timed and untimed waits meet in one queue, on
  either side. (`SleepersAttended` speaks of readers under `PREFER_WRITERS` only
  where none is timed; this half is checked in the proof, and with
  `TimedReaders = {}`, as in the configuration of finding 2.) The barrier gets one
  more than the limit, so that groups overlap. A mailbox has one owner; two
  senders can wait for room while a third call succeeds. Four handles allow a
  strong one, one that is releasing, one that locks and an empty one to lock
  into. Three objects with one handle each make lists whose destruction nests
  twice, cycles of every length up to three, and lists that end in a cycle;
  memory is reused once it is free. Three threads in `Exclusive` let one store
  between the load and the store of two others. What is proved (section 5)
  holds for any number.
* *`MaxDepth`* bounds how deep a client nests lock calls. It is 1 here, so
  that no run has a wait inside nested locks: the lock word at any depth is the
  theorem `HeldByItsTag`.
* *`GroupValues`* is the number of values of `m_group`, 2^32 in the code and 3
  here, so that it wraps in the run. `NobodyLapped` keeps the wrap from
  reaching a thread that has yet to leave: it stands for the assumption that no
  thread is held up for 2^32 - 1 groups.
* *`Limits`, `MaxLimit`*: limits 1 and 2 can be raised and lowered, and make a
  full mailbox of one or of two. A mailbox without a limit (0) differs in what
  `Full` says and is covered by the theorems.
* *`MaxHeld`* bounds how many messages a mailbox gets that the limit does not hold
  back; 2 is enough for order to matter.
* *`Tags`, `Wants`*: one type, and receives for it or for none, so that a receive
  can pass over a message and take a later one (a link-dead one, or a type it
  wants behind one that does not concern it).
* *`MaxWaits`* bounds how many waits are announced on the word of `Exclusive`.
* *Uniforms*: four vectors, two of them bound to a stack of depth two, one integer
  register and one boolean at their real numbers, so that ranges of two, three
  and four rows overlap; one shader type. The integers set are larger than a
  byte.
* *Requests*: two parameters (`MaxItems`) of every kind, with the numbers and
  sizes at both ends of their documented range (`HandleNumbers` also 2), which is
  where a field runs into the next; normal words 0, 1 and 63; commands 0 and
  2^15 - 1.
* *Textures*: sides 8, 16 and 64 (one, two and four levels, square and not), 4,
  16 and 32 bits a texel; a bias that has to be rounded and one that has to be
  cut, each with either sign.
* *Sprites*: factors of -2, -1, 1/2, 1 and 2, sizes that stay multiples of 8 up to
  `MaxSize`, so that nothing is rounded; vectors of coordinates up to `Reach`.
* *One part of `HeaderCode` at a time*: the parts share no state, so that nothing is
  lost. The rest of the variables stay as they were.
* *Members.* A client of `SharedPtr` reaches a member handle from a variable in
  one step; longer paths are walked by assigning a variable first.
* *Counters* are unbounded integers; the numbers of threads and handles bound
  them. Histories are sets and flags.
* `CHECK_DEADLOCK FALSE` is used where the program may really stop: `ControlBlock`
  (everything has been freed), `BarrierOnCondition` and `ReadWriteMutex` (finding 3).
  The other runs that expect a violation stop at it.

## 4. Fairness

Only threads that are inside a call are assumed to go on; no specification
assumes that anybody calls anything.

* `Condition.FairSpec`: a thread inside `wait` or a wake-up takes its next step,
  and the kernel times out a sleeper whose time is set. Nothing is assumed of who
  wins the mutex.
* `ReadWriteMutex.FairSpec`: a thread that is inside unlocks (the client's
  duty); one that has announced a wait goes to the arbiter; a released sleeper gets
  `m_commonMutex` and rechecks; time passes, and the timed wait of a thread that
  sleeps ends. Weak fairness of the recheck is an assumption on the mutex: it is
  held only for short stretches and is not withheld for ever from one
  thread. Untimed waits never end by themselves.
* `Barrier.FairSpec`: a thread inside `wait` runs when it can. Weak fairness is
  enough, for only finitely many others compete for the mutex before they sleep or
  leave, and leaving threads do not have to come back.
* `MessageBox.FairSpec`: the owner inside `get` and a sender inside `put` run when
  they can. Timeouts have no fairness, and neither has any call: a receive
  returns if there is a message for it (`ReceiveReturns`), and that senders get
  in (`SomeSenderGetsIn`) assumes that the owner empties the mailbox time and
  again. It is about some sender, for one of them may lose every race for
  the room.
* `ControlBlock.FairSpec`: a release that has begun is finished. The loop of
  `lock()` has none; that it may retry for ever does no harm to the others.
* `SharedPtr.FairSpec`: an assignment that has begun goes on. It is sequential
  code; no call has to be made.
* `Exclusive` (`WordFairness`): the loops run, and from some time on no thread is
  switched between its load and its store. Without that two threads can be
  switched for ever; the loops are a few instructions and a time slice is
  milliseconds. The other parts of `HeaderCode` have no fairness.

## 5. Theorems

| theorem | statement | argument |
|---|---|---|
| `Condition_proofs!HeldByItsTag` | `[](TypeOK /\ HeldByTag)` | the lock word is what the threads' calls make of it; a thread that is asleep or on its way there has given up a level, so that it has one to take back |
| `…!IntInRange` | `[]CountInRange` | below |
| `…!SleeperCounted` | one waiter: `[]SleepersCounted` | below |
| `…!WaiterReached` | one waiter, `NotifyHolding`: `[]NotifiesReach` | below |
| `…!MonitorImplemented` | the same and `MaxDepth = 1`: `Spec => ImplementsMonitor` | below |
| `ReadWriteMutex_proofs!Counting` | `[]TypeOK`, `[]CountersExact` | the four counters are cardinalities of the sets of threads in given places; each action moves one thread between two such sets (`CountingLemmas`) or some between places of the same set |
| `…!ExclusionHolds` | `[]Exclusion` | a writer enters only if both active counters are 0, which by `CountersExact` says that nobody is inside; a reader likewise |
| `…!NobodyForgotten` | `[]SleepersAttended`: of writers as long as all that wait are counted (`WritersCounted`), of readers as long as a notification would find them, which is always so where they are preferred or untimed, and but for writers that have given up (finding 2). Not that `WritersCounted` lasts: it does not (finding 3) | below |
| `BarrierOnCondition_proofs!CrossesInGroups` | `[]CountExact /\ TravelInGroups`, over the Horizon condition | below |
| `…!CrossesOnMonitor` | over `Monitor`: `[](CountExact /\ NobodyLeftBehind) /\ TravelInGroups` | below |
| `MessageBox_proofs!TypeCorrect` | `[]TypeOK` | each list has its kind of messages; `putQueue` counts the senders that wait |
| `…!SleepersSeen`, `…!SendersSeen`, `…!QueueCounted` | `[]OwnerAttends`, `[]SendersAttended`, `[]QueueExact` | below |
| `…!TwiceTheLimit` | `[]UsersBounded` | below |
| `…!FewLate` | `[]LateMessagesFew` | a closed mailbox gets messages only from `Resume`, and each takes one sender out of `Queued` |
| `…!MailboxImplemented` | `Spec => ImplementsMailbox` | below |
| `ControlBlock_proofs!ReleaseOnce` | `[]ReleasedOnce` | below |
| `…!NoDanglingHandles` | `[]NoUseAfterFree`: no strong handle outlives the object, no handle the block | below |
| `…!CountsHold` | `[](TypeOK /\ CountsExact)` | below |
| `…!NoRevivalHolds` | `NoRevival` | below |
| `SharedPtr_proofs!CountsStayExact` | `Careful` gives `[]CountsExact` | below |
| `…!HandlesStayValid` | `Careful` gives `[]HandlesValid` | below |
| `…!NothingLeaks` | `Careful` gives `[]NoLeak` | below |
| `…!OwnershipKept` | `Careful` gives `Spec => Own!Spec`, the safety part of `ImplementsOwnership` | below |
| `HeaderCode_proofs!AtomicWordImplemented` | `WordSpec => ImplementsAtomicWord` | a thread that is linked has loaded the value the word still has: every store ends all links. So a store that succeeds is one step on the word, and all else is stuttering |
| `…!RegistersUpToDate` | `[]UpToDate` | with types; ranges of registers and the stack's stay apart (`Free`) |
| `…!LevelsFill` | `Binding = "C"` gives `[]LevelsTile` | below |
| `…!PackedAsAsked` | `[]SamplesAsAsked` | below |
| `…!CenterStays` | `[]CenterKept` | below |
| `…!TurnedAlong` | `[]TurnsTogether` | below |
| `…!RequestsRead` | `Binding = "C"` gives `[]ReadAsBuilt` | below |
| `…!PartsKeepPromises` | `Spec => ImplementsAtomicWord /\ []UpToDate`, of `HeaderCode` | a step of `HeaderCode` is a step of the part that was chosen, and the other parts stay as they started |

**Condition.** `CountInRange` is not inductive: a wake-up that has raised the int
and not yet reached the kernel may find other threads asleep there than those it
accounted for. `SurplusBounded` adds to the surplus of the int what each
such wake-up may still leave behind (1 for notify, all waiters for notifyAll) and
compares the sum with the waits in progress and what as many notifiers as there
are can leave. Each action moves one or two threads from one of the sets it
counts to another.

`SleepersCounted`, `NotifiesReach` and the refinement of `Monitor` are false
for two waiters (finding 3), and so are proved for one, with any number of
notifiers. `SleepersCounted` is then inductive together with the types. For the
other two, notifiers hold the mutex (`NotifyHolding`), and `OneInv` says what that
gives: the int is -1 or 0, and -1 only while the waiter is in its wait; a
notification the waiter is due finds the int at 0 and the waiter either short of
the arbiter, which will not let it sleep, or asleep with the signal on its way.
From `WaiterInv` each step of `Condition` is a step of `Monitor` or a stutter: the
unlock after the announcement is `Wait`; the notification releases when the int is
raised, and its signal is a stutter; a waiter that takes back its own
announcement is `TimeOut`; taking the mutex again is `Reenter`. Depths greater than 1 have no
counterpart in `Monitor`, hence `MaxDepth = 1`.

**Readers-writer mutex.** `CountersExact` is not inductive without the types, and
neither `Exclusion` nor what follows is without `CountersExact`. For
`NobodyForgotten` the invariant (`Attended`) ties the two ints to the threads.
An int is never above 0 and never shows more waiters than there are
(`QueuesBounded`). `Tally` goes through what can happen to an int and the number of
threads in their waits: if an int below 0 shows all of them after a step, it did
before, or there were none. So a count that is lost comes back only with an empty
queue, and a notification after which all are counted has woken one, who is now
about to look. That is the step on which `WritersAttended` turns; the others are that
a writer queues only behind somebody inside (`WriterQueuesBehind`), and that the
last to leave notifies. For readers it is simpler, for their notification is a
notifyAll: it leaves the int at 0 and nobody asleep, and who sleeps afterwards has
come since. Only a timed reader can take the count of another with it, hence
`ReadersUntimed`; where readers are preferred they wait only while a writer is
inside, and until it leaves each of them is counted (`ReadersPreferred`).
`ReadersHeldBack` says whom they wait for.

**Barrier on the condition.** The condition may lose notifications, but its mutex
excludes, through all waits: the invariant of `Condition_proofs` is taken over
for the threads of the barrier (`LockInv`), and with it that who is about to
count holds the mutex, so that there is at most one. The rest is about
the count (`CountInv`): `m_count` is the limit minus the number of threads that
have counted themselves and not been let go, and a thread about to complete a
group meets nobody left over from the group whose number it will open
(`NobodyLapped`). The theorem assumes that no thread is called `NoThread`. It
holds for any threads, limit and number of groups; that everybody gets across
is false (finding 3).

Over `Monitor`, whose waits announce and sleep in one step, the same invariant on
the count holds for a simpler reason (`owner` alone says who is about to count),
and with it `NobodyLeftBehind`: a thread that sleeps belongs to the group that
is gathering. Finding 3 is thus due to the condition, not to the barrier.

**Mailbox.** For `SleepersSeen` the invariant ties the words of the two conditions
to the threads between announcement and sleep: who is on the way to the arbiter
with a negative int has nothing to wait for beside it, and a notification sets
the int to 0 and wakes all that sleep. `relaxed` marks the one case in
which there is room and nobody is told. For `TwiceTheLimit` the invariant
compares the lists with the owner's last count: while users' messages are in the
shared list, they and the count are within the largest limit; the owner's list
has outgrown its count by at most that limit, and not at all while the owner
is between two looks at the shared list. Lemmas say what `RemoveAt`, `Min` and
`\o` do to the number of users' messages in a list.

That the mailbox implements `Mailbox` needs one fact more (`ScanInv`): while the
owner is inside a receive and has looked through its own list, that list has nothing it
would take, however often the senders' list has been joined to it since.
So the first message it finds in what it joins is the first in the whole
list, which is owner's list, then senders'; taking it out is `Receive`, joining
is a stuttering step, and a deposit is a deposit at the end of the whole.

**Control block.** `ControlBlock` has no lock to argue with, so its inductive
invariant has to say what the loaded values are still worth. Its parts:
`shared_count + 1` is the number of strong handles; as long as there is a strong
handle or one on its way to the destructor, the destructor has not run, and at
most one handle is on its way; while nobody has found the last weak reference,
`weak_count + 1` is the number of weak references, the owners' one included;
once somebody has (a place "free", or `freed = 1`), that thread is alone: no
other handle exists, so nothing can be made from one. The delicate step is the
shortcut of `release!true`: it has loaded 0, so its own reference is the only
one, nobody else has a handle from which to make another, and the counter may be
left as it is.

**Handles.** `CountsExact` is not inductive by itself. An object that no counter
covers any more has to be dealt with by a call that is still on the stack, or the
destructor could run twice or never: `Dying` says that there is exactly one
such call from the moment the count reaches -1 until the object is destroyed,
`Followed` that the release of the block comes right after it, and `NotFreed` that
whatever a call on the stack, a handle or a temporary refers to has not been given
back. The release that gives a block back is then the last thing that refers
to it (`LastOne`), and an object whose destructor runs holds no handle that is being
assigned (`DyingUnowned`). Both need that the handles of an assignment outlive it
(`CallInv`): they are variables, or lie in an object that another variable, or the
temporary, keeps alive. That is where the assumption `Careful` is used; without it
`HandlesValid` is false (finding 4). Nine lemmas count positions in the stack and
handles that point to an object before and after one or two of them change;
there is one lemma for each action.

That nothing leaks is `CountsExact` read between two calls, when the stack and
the temporaries are empty: a block whose counters stand has a handle that points
to it. For `OwnershipKept` a step is compared with `Ownership` under the mapping
of `Own`. The first step of an assignment is the abstract one; from then on the
handle shows its new value although its pointer is still to be written. The
destructor is `Collect`: it runs when the count is -1, and then `CountsExact` leaves
no strong handle that points to the object, and no assignment under way that would
give it one. Releases, the giving back of blocks and the end of an assignment
change nothing the mapping shows (`WorkHidden`). Fairness is not part of the
theorem.

**Textures.** The sampling word is the union of six fields (`FieldsPacked`), each a
set of bits in a range of its own (`Fields`), so a setter that clears its range
and joins the new field leaves the other five (`TextureInv`); the bias is kept
modulo 2^13 and read back with its sign. Of the levels, `Levelled` says that the
sides are powers of two and how large the memory is. A level is four times the
next one, so their sum is (size - last/4)·4/3; that the code's integer division
loses nothing follows from floor((x + 12y) / 3) = floor(x / 3) + 4y, one level at a
time. That powers of two add and grow cannot be proved by induction here; it is
proved by counting: 2^n is the number of subsets of a set of n (`SubsetsCounted`).

**Sprites.** `Centered`: a side is 8k, and the center 2k times the quarters asked
for, up to its sign, with the same k. A scaling changes k and divides without
remainder; where the code divides by a size it takes absolute values, which is
where the sign is lost. The scales are those `HeaderCode` names (halves up to a
factor of 2), and the guards keep sizes multiples of 8: rounding is not modelled.

**Orientations.** The components are halves, all odd or all even, and the squares
of the doubled ones add up to 4 (`Units`, which `UnitsClosed` shows closed under the
product, so that the division by 2 is exact). Four times the rotation is written
out as a matrix of quadratic forms (`Turned`), the rows of which are alike
(`AxesAlike`); `TurnedTwice` shows that a
product of quaternions turns as one after the other, for quaternions and vectors with any
integers, and that the code's formula with the cross product and the product
with the conjugate give the same. The invariant says that both vectors are the
starting ones turned by `q`. The inverse takes them back because the product with
the conjugate is the unit, and scalar and cross products are kept by
polynomial identities in which the length is put in at the end.

**Requests.** The bits of a number are below its width (`BitsBelow`), so that fields
put one above the other are taken apart again by shifts and masks (`FieldsRead`),
and every descriptor in the documented ranges is read for what it was made from
(`DescriptorRead`), as the header is (`HeaderRead`, which is false of the D binding:
finding 5). That the kernel finds the next descriptor is about a whole list of
parameters, whose places a recursion would add up. `RequestInv` says
instead that there are places, the first behind the normal words, each as far from the
one before as that parameter is long, the last behind the request; `Add` extends them,
`Send` leaves them alone, and `Translate` goes from one to the next. So the
induction is over the steps of the program and of the kernel, not over the data.

The theorems assume what the modules' ASSUMEs say: finitely many threads, handles
or senders (stated as a hypothesis where the module does not need it), roles
that are subsets of the threads, limits that have a largest,
registers of three kinds that are apart, and of the data in `HeaderCode`
(`PartsAssumption`): sides of textures are powers of two from 8 to 1024, which is
what the hardware takes, bits of a texel are natural numbers, biases and centers
any integers; the parameters of requests are in the ranges that `ipc.h` documents
(`RequestAssumption`). What else a theorem needs (`Careful`, one waiter, the C functions) is
an ASSUME of its own.

### What is proved only

* `CountInRange`: where notifiers hold the mutex and one thread waits, the int is -1
  or 0, so that no run above has the surplus it is about; it takes notifiers
  without the mutex, or several waiters.
* `TravelInGroups` over the Horizon condition. Over a documented monitor it is
  part of `ImplementsBarrier`.

### What is checked by TLC only

* Liveness (`TimedWaitEnds`, `NotifiedWakes`, `ReaderGetsIn`, `SomeWriterGetsIn`,
  `ReceiveReturns`, `SomeSenderGetsIn`, `EventuallyFreed`, `SomeoneFinishes`), and what
  `AbstractBarrier!FairSpec` and `Ownership!FairSpec` add to the refinements
  proved: the proof system does not treat liveness under fairness, or ENABLED.
* That the mutex can stop for good, and the other findings: they are single
  executions.
* The refinement of `Monitor` for clients that nest their locks is not stated;
  with two waiters it is false.

## 6. What is not modelled

* *Semaphore and event on Horizon*: each method is one libctru call, except that
  `Event.initialize` sets another flag than the one the other methods test
  (`event.d:102`), so that no event can be used, and `Semaphore.wait(Duration)`
  is not written yet (`semaphore.d:216`).
* *Threads.* Starting one does not get as far as an interleaving. `add` looks the
  new thread up in `pAboutToStart` (`threadbase.d:711`), to which `start` does not
  add it on Horizon (`osthread.d:472`): its assertion fails, or, without
  assertions, `nAboutToStart` goes below 0 and `thread_joinAll` waits for ever.
  `join` reads `threadJoin`'s 0, success, as a failure (`osthread.d:618`).
  Which of `start` and the new thread runs first after `threadCreate`
  (`osthread.d:478`) is decided inside libctru.
* *The `shared` operations of smart pointers* (`lockSmartPtr`, the pool of 16
  mutexes of `btl/internal/mutex.d`): compiled out, because `supportMutex` is false
  on Horizon.
* *Fibers, task pools, garbage collector, lowering hooks, the rest of Phobos*:
  upstream code that the port hardly touches; task pools need threads.
* *Of `std.concurrency`*, the registry of names, spawning, links and schedulers;
  only the messages they send to a mailbox are there.
* *Of `autoptr`*, allocation failure, arrays, deleters, aliasing, GC range
  registration and control blocks without a weak counter; UniquePtr (one owner,
  no counter).
* *btl containers*: sequential; what is hard in them is the lifetime of elements
  under exceptions and templates over allocators.
* *Of the headers*: rounding of floating-point numbers, matrices and
  normalisation; the division in `Quat_Inverse` by anything but 1, for an
  orientation is a unit quaternion; `C2D_SpriteSetCenterRaw`, which assigns the
  center as it is; pointers kept across an update (`MtxStack_Cur`,
  `C3D_FVUnifWritePtr`); descriptors of 0 handles; scaling by 0; images with
  sides below 8. `C3D_TexInitCube` of the D bindings passes no cube on; what the
  function it calls makes of that is not in the repository.
* *The other headers and bindings.* The headers of libctru, citro2d and citro3d have
  some 21 000 lines: declarations of functions that live in prebuilt libraries,
  numbers of registers, structures and their documentation. About 1 150 lines
  are inline functions, and those with state or with something to get wrong are
  in `HeaderCode`. Most of what is modelled here is in D.
* The build scripts and the example.

## 7. Plan

Done: the mutex and condition, the classes built on them, the reference counts
and the handles over them, the mailbox, and the code in headers.

Left, in the order of what it would add:

1. *Proofs*: `Monitor` with a depth, and `Condition` over it for nested locks.
2. *Packed words of the remaining inline functions* (texture environments, procedural
   textures, light environments), in the manner of `Texture`.
3. *Threads, event, semaphore and shared handles*, once they are written or switched
   on for Horizon: `start`, the entry point, `join` and `thread_joinAll`; an
   atomic register of handles as what the shared operations promise.
4. *Growth of `Vector` and small-string storage* as functions over lengths.
