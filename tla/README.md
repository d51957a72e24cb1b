# actorx in TLA+

TLA+ models of actorx (`src/actorx`), a C++11 header-only library: lock-free
multi-producer single-consumer containers (`cque`), an event service of worker
threads with work stealing, strands and coroutines (`asev`), and the beginnings
of an actor layer (`actor`).  The models are written from the code; paths below
are relative to the repository, and `PROJECT.json` maps every definition to the
lines it stands for.

## The system

| part | state | operations | what is hard |
|---|---|---|---|
| `cque/mpsc_count.hpp` | `count_`, `blocked_`, a mutex and condition variable of the user's | incr, synchronized_incr, reset, synchronized_reset with and without timeout | lost wakeups, CAS races, timeout against increment |
| `cque/mpsc_queue.hpp` | `head_` (a stack of pushed nodes), `cache_` (the consumer's reversed list), `blocked_` | push, pop, the synchronized and shared/unique/variant forms | recycled nodes, order across the two lists, lost wakeups |
| `cque/mpsc_pool.hpp`, `node_base.hpp` | `head_`, `cache_`, each node's `next_`, `freer_`, `self_`, `unique_` | get, free, release, retain | a node freed by any thread and handed out again by the owner; a pool that dies before its nodes |
| `cque/queue.hpp`, `variant_ptr.hpp` | single-thread list; owner of a node, raw, unique or shared | push, pop, the destructor; make, free, move, clear | ownership on moves; which kind of pointer comes out |
| `asev/ev_service.hpp`, `asev/detail/worker.hpp` | threads with `cnt_` and `stop_`, workers with `que_` and `sworks_`, `workshop_` slots | post, spawn, async, tstart/texit/tsegv, run, stop, the destructor | work stealing, notifications that overtake or trail events, sleep and stop, another run, crashes, events older than their pools |
| `asev/detail/basic_strand.hpp` | a worker index | post, spawn, async | order across the threads that run the worker |
| `asev/detail/basic_corctx.hpp`, `spawn_event.hpp`, `coctx/` | a stack and context per coroutine, reused from a pool | spawn, yield, resume, async_event | resume before yield, reuse after the end |
| `asev/affix_base.hpp`, `basic_thrctx.hpp` | one object per type, attached to a thread or coroutine: an array and a map; per-thread pools | add, get, rmv, clear | holes, a full array |
| `detail/buffer*.hpp`, `cow_buffer.hpp`, `actor/message.hpp` | ref-counted buffers, read and write positions, a list of shared objects | put, get, get_raw, copy, move, clear | sharing, growth, recycling, index width |
| `actor/atom.hpp` | - | make an integer of a name and back | length limit |
| `actor/ax_service.hpp`, `fiber_actor`, `actor_pool`, `mailbox`, `pack_event` | mostly empty in this commit | - | - |
| `csegv/` | signal handlers | pcall, crash reports | which handler runs where |
| `utest/`, `adl/`, `dependencies/` | - | test harness, generated and vendored code | - |

How they interact: `post` makes an event from a thread-local `mpsc_pool`, pushes
it into the chosen worker's `mpsc_queue` and notifies the thread the worker
belongs to through that thread's `mpsc_count`.  The thread wakes, takes the
worker out of its `workshop_` slot with an atomic exchange, pops and handles its
events, releases each to the pool it came from and puts the worker back.  A
thread none of whose own workers had work tries everybody else's.

## What makes each part correct

| part | must hold | where |
|---|---|---|
| `mpsc_count` | no increment lost or doubled; nobody waits while increments are pending and no wakeup is coming | `Conservation`, `NoLostWakeup`, `ImplementsPendingCount` |
| `mpsc_queue` | first in, first out; no element lost; no node used after its release | `ImplementsFifo`, `SoundLists`, `NoUseAfterRelease`, `NoLostWakeup` |
| `mpsc_pool` | a node is handed out to one user at a time, and comes back | `ImplementsStore`, `SoundLists` |
| single-thread queue, `variant_ptr` | first in, first out; a node comes out as the kind of pointer it went in; it has an owner until it is released, and touches no link of the pool's | `InLine`, `Owned`, `RespectsPool` |
| `ev_service` | a strand's events run one at a time, in order, and all of them; threads sleep when there is nothing to do, and end when told to | `ImplementsStrands`, `EventsRun`, `OneThreadPerWorker`, `BooksBalance`, `NoStrandedEvent`, `Quiesces`, `StopEndsThreads` |
| handlers, runs, destructor | no event is lost; handlers frame the run; posts are handled in order over the runs, none past a crash; stop and crashes end it; events go back to pools that are still there | `Accounted`, `HandlersFramed`, `PostsInOrder`, `RunEnds`, `BackToLivePools` |
| coroutines | run on one thread at a time and know which; no resume is lost, however early; a stack is not reused while in use | `OnHost`, `OneList`, `ImplementsSpawns`, `Winds` |
| affix list | no object lost or kept after it was returned | `NothingLost`, `SizeCounts`, `OnePerType` |
| `cow_buffer` | copies fit (they do not: finding 4); as long as they do, it holds what was put, and buffers are in use or pooled | `CopiesFit`, `HoldsWhatWasPut`, `HeldOrPooled` |
| `message` | the next object read is the one put there | `SharedInStep` |
| atoms | a name is read back as it was | `AtomsReadBack` |

## What is modelled

| module | models | implements |
|---|---|---|
| `MpscCount` | `cque::mpsc_count`, one action per access to memory | `PendingCount` |
| `MpscQueue` | `cque::mpsc_queue`, one action per access to memory | `FifoQueue` |
| `MpscPool` | `cque::mpsc_pool` with `node_base`, one action per access to memory | `NodeStore` |
| `PooledQueue` | `cque::queue` and `variant_ptr` of the pool's owner, on the nodes of `MpscPool` | `NodeStore`, `MpscPool` |
| `EvService` | the scheduler: posting, notifying, polling, sleeping, running and stealing workers, stop | `StrandService` |
| `Lifecycle` | handlers, runs, stop, crashes and the destructor of a service, and the pools of its events | - |
| `Coroutine` | `basic_corctx` and `spawn_event` on the threads of a service | `SpawnService` |
| `AffixList` | `affix_list`, one step per call | - |
| `CowBuffer` | `cow_buffer`, `buffer`, `buffer_pool` and `message::put`, one step per call | - |
| `Message` | `message` on its `CowBuffer`: values, shared objects and their index | - |
| `Atoms` | encoding and decoding of names, as functions | - |

`NodeLists` holds what `MpscQueue` and `MpscPool` share: chains of nodes linked by
`next_`.  `MC*` modules give values to constants; `*Proofs` hold the
theorems, those of `AffixList` with the ones of `Coroutine`, to whose corctxs the lists
are attached.  Definitions marked *Mutant* are the plausible bugs each property is shown to catch;
no specification uses them.

**MpscCount.**  A producer is in `IncrLoad`, `CasSucceeds`/`CasFails` (the
loop of `pri_incr`), `CheckBlocked`, `LockToNotify`, `NotifyAndUnlock`; the
consumer calls with one of three modes and goes through `FirstReset`, `Lock`,
`Block`, `ResetAgain`, `Wait`, `Relock`, `Unblock`, `Return`.  Waiting ends by
a notification, spuriously, or by a timeout.  Memory is sequentially consistent
here and in the two other `cque` modules: the orders given in the code are acquire
and release, but the repository builds only for x86 (`coctx` refuses other
processors), where every read-modify-write is a full barrier; the one place the
protocol needs a store ordered before a later load is `block()` followed by the
exchange in `reset()` or `pop()`.

**MpscQueue.**  The same producer and consumer steps around a stack: `PushLoad` reads
`head_` and links the node to it, `CasSucceeds`/`CasFails` push it; the consumer
takes its own list first (`PopCached`), else the whole stack, which it reverses
(`PopStack`).  Nodes are pushed moved or shared.  A shared node counts its two
references, the pusher's and the queue's, and is free when the last goes; a free
node may be pushed again at once, by anybody, which is how the pools behave.

**MpscPool.**  The owner gets a node from its list, from the stack (taken whole) or
makes one; any thread that has a node frees it by `FreeLoad` and
`CasSucceeds`/`CasFails`.  Nodes pass from the owner to other threads by the step
in which it gets one for somebody.  The destructor (`Close`, `Dispose`, `Closed`)
deletes what is in the list and the stack.  Whoever destroys a pool must know that no
node of it is in use: which services do is the question of `Lifecycle`.

**PooledQueue.**  The owner of a `MpscPool` gets nodes raw, unique or shared, pushes
them into a `queue`, pops them as one kind or as a `variant_ptr`, wraps, unwraps, moves
and clears variants, and destroys the queue, while the other threads release nodes into
the pool.  `owners` says which pointers of the program own a node; when the last one
goes the release is that of `MpscPool`, step by step.  The links of nodes are the
pool's own variable `next`, so `RespectsPool`, every step a step of `MpscPool` or
none of its concern, says that queue and variants write only links of nodes they hold.

**EvService.**  An actor (an outside thread, or a service thread inside a
handler) does `Push` and `Notify` (`pri_async`); `SetStop` and `WakeToStop` are
the two loops of one call of `stop()`; the other actions are the body of
`trun`, `do_work` and `worker::work`, one per access to shared memory, in the
order of the code.  A worker's queue is a sequence (what `FifoQueue` promises and
`MpscQueue` implements) and `cnt_` a number whose blocking reset waits for it to be
positive (what `MpscCount` is shown to implement).  Which worker a strand or a post
gets comes from a racy round robin (`select_strand_index`), so it may be any.  A
handler may post; what else it does, and the release of the event, are left out.

**Lifecycle.**  The same service a level up: notifications are left out, a worker's
events are handled in order by one thread at a time (what `EvService` is shown to
do), and each event remembers who made it.  `Register` and `PushHandler` are
tstart, texit and tsegv, `CallStop` and `SetStop` are stop: both do the threads one
after the other.  `Run` and `Join` are `run()`; `PopHandler`, `NoHandler`, `Take`,
`PopEvent`, `GiveBack`, `SeeStop` and `EndHandler` are `trun`; `Crash` is SIGSEGV in
a handler, after which the thread runs its tsegv handlers and `Exit`s; `Throw` is an
exception, which ends the process.  The destructor is one action per
phase and thread: `CleanMisc`, `CleanWorkers`, `CleanPools`, `CleanData`.  Releasing an
event whose maker's pools are gone puts it in `misfreed`.

**Coroutine.**  The scheduler is reduced to what `StrandService` promises: a thread
takes the next event of a worker nobody runs.  An event is a spawn, or a corctx, which
is its own event.  A context is reduced to where it goes on when jumped to: at the
start of its function, after a yield, or after the last yield.  `HandleSpawn`,
`HandleCoro` and `Release` are the event handlers; `Arrange`, `Yield` and `Return` what
a coroutine does on its own stack; `Resume` is made by whoever it arranged to be
resumed by, at any time from then on, before the yield too.  An abort of the process
ends the behaviour.

**AffixList.**  The array with its holes, its size, and the map used once the array is
full, as the code scans them.  A call that loops for ever ends the behaviour.

**CowBuffer.**  Bytes are cells that name the cow_buffer whose `put` wrote them; a
buffer's bytes that nobody wrote since it was made or recycled are `Junk`.  `Put`
is `message::put`: reserve, write, and the change to a large buffer, the copy on
write or the resize that reserve makes.  `log` remembers what was put.  Buffers come
from a pool by capacity and return to it when their last holder drops them, with the
size and the allocation it left them.  A copy into one that has become too small goes on
behind the end of the allocation (`PutCopied`, finding 4): the behaviour continues with
the beginning of any one buffer, or none, damaged (`Damaged`), and the history variable
`overrun` set.  Memory that is not a buffer's is not modelled, so what such a copy may do is
more than that; `HoldsWhatWasPut`, `HeldOrPooled` and `SharedInStep` claim nothing behind it
(`CopiesFit`).  Serialization (vendored) is a value of n bytes that is written or read
whole, or makes `put` or `get` throw.

**Message.**  A message is the `CowBuffer` of its name with a read position and the
list of shared objects.  `PutShared` puts the object's index, converted to `int8_t`
with `IndexLimit` in the place of 128, and then appends the object; `GetRaw` reads the
index, takes the object out, and empties the list with its last entry.  The user reads
what was put, in the order and with the types it was put.  Copies and moves start
reading at the first byte; a message copied or moved after an object was taken is
`torn`, and nothing is claimed of it until it is assigned or cleared.

**Atoms.**  A name is a sequence of codes; `AtomVal` folds it into a number and
`ValText` unfolds it, below the tag bit that `dynatom` adds.  `AtomsReadBack` is an
assumption of `MCMessage`, which TLC evaluates for every name of up to one character
more than allowed.

## Runs

| run | instance | shows |
|---|---|---|
| `count_safety` | 2 producers, 3 increments, fair | `TypeOK`, `NoLostWakeup`, `Conservation`, `ImplementsPendingCount` (liveness included) |
| `service_safety` | 2 threads, 2 workers, stealing, 1 poster and the handlers, 3 events, stop at any moment, fair | `TypeOK`, `OneThreadPerWorker`, `NoStrandedEvent`, `BooksBalance`, `ImplementsStrands`; `EventsRun` and `Quiesces` unless stopped; `StopEndsThreads` |
| `service_more_workers` | 1 thread, 2 workers, 2 events, fair | finding 1 |
| `queue_safety` | 2 producers, 2 nodes, 4 pushes, fair | `TypeOK`, `SoundLists`, `NoUseAfterRelease`, `NoLostWakeup`, `ImplementsFifo` (liveness included) |
| `pool_safety` | the owner and 2 threads, 3 nodes, 2 variants, symmetry | `TypeOK`, `SoundLists`, `InLine`, `Owned`, `ImplementsStore`, `RespectsPool` |
| `coro_safety` | 2 threads, 2 workers, 2 corctxs, 2 spawns, 2 yields, 2 stack sizes, fair | `OnHost`, `OneList`, `ImplementsSpawns`, `Winds` |
| `coro_reuse` | the same with 1 stack size, 1 yield | finding 2 |
| `affix_safety` | 3 types with 2 objects each, 2 slots | `SizeCounts`, `NothingLost`, `OnePerType` |
| `affix_get` | the same | finding 3 |
| `message_safety` | 2 messages, 2 buffers of 6, small size 1; values of 5 bytes, 6 bytes in all, 2 indices, 3 objects; symmetry; up to the first copy that does not fit; names of up to 3 of 5 characters | `TypeOK`, `HoldsWhatWasPut`, `HeldOrPooled`, `SharedInStep`; `AtomsReadBack` |
| `cow_overrun` | 2 messages, 3 buffers of 8 and 16, small size 4, values of 1, 5 and 7 bytes, 13 bytes | finding 4 |
| `lifecycle_safety` | 2 threads, 2 workers, 1 thread outside, 2 calls, 2 runs, fair | `TypeOK`, `Accounted`, `HandlersFramed`, `BackToLivePools`, `PostsInOrder`; `RunEnds` |

Bounds.  Three increments let a consumer be woken, wait again and be woken by
the other producer while the first is still about to notify.  Three events let
one worker have two, be stolen from between them and get the third while the
thief gives it back; handlers post too.  `Aggressive` and `Moderate` (100 and 500
polls in the code) are 1: every poll is the same step, so more of them repeat
states but for the counter.  Two threads have one thief at a time; that nothing goes
wrong with more is proved (below).  Four pushes of two nodes have each node
recycled, an element pushed while the other producer holds the first one's
address, and a consumer's list left over while the stack refills.  In `pool_safety`
three nodes give a queue of two with a third one on its way to the pool or in a
variant, and two other threads race for the pool's stack; nothing bounds the length
of a behaviour there.  The corctxs suffice for the
spawns; a second spawn may get the first one's corctx with a context that is kept
or, for a larger stack, made anew.  Three types for two slots fill the array and
reach the map.  In `message_safety` sizes are scaled down; an object (1 byte) leaves a
message small, a value (5) makes it large, both together fill a buffer, and a third
object goes beyond the index.  Buffers go back to the pool with a smaller size than they
have allocated, and with a smaller allocation than the pool's capacity; messages are copied
into those, with and without room for what is put behind them, and some copies overrun
them.  The constraint `MCFollowed` does not follow a behaviour beyond that, where only
`TypeOK` claims anything, nor beyond 4 objects in one message's bytes.  There is one pool
there, and no buffer too large for it: a second pool is in `cow_overrun`, and both are in the
theorems.  `cow_overrun` has the code's sizes divided by 16.  `Base`, `NameLength`
and `WordLimit` stand for 64, 10 and 2^63, so that as in the code the
allowed names fit and of the longer ones only some.  In `lifecycle_safety` two calls
that register a handler with both threads or post an event are made by the thread outside
or by handlers, before, in or between two runs; stop, crashes and the destructor
come at any moment besides.

Fairness.  Threads are scheduled (`WF` of each thread's steps), a call of
`post`, `stop`, `synchronized_incr` or `push` that has begun goes on, handlers
return, and a coroutine's resume, once arranged, is made.  In `Lifecycle`,
where calls, crashes and the destructor can come at any moment, the threads' steps, exit
after a crash, calls that have begun, the join and the steps of a destructor that has
begun are fair.  Nothing is assumed of spurious wakeups, timeouts, posting, spawning,
registering, crashing, running or the call of `stop()`.  Idle
threads sleep and ended ones stop, so the `EvService`, `Coroutine` and `Lifecycle` runs do
not check deadlock; `Quiesces`, `EventsRun`, `StopEndsThreads`, `Winds` and `RunEnds` say what may
stop and when.  The affix runs do not either, because of the call that never returns.

## Findings

1. `service_more_workers` / `PostedRuns`: with more workers than threads,
   `expected_pworks -= pworks` (`asev/ev_service.hpp:572`) subtracts a running sum
   after each prior worker.  The surplus makes a later notification invisible and
   the thread sleeps with an event queued.
2. `coro_reuse` / `SpawnedRuns`: a corctx taken from its pool a second time keeps its
   context unless a larger stack is asked for (`asev/detail/basic_corctx.hpp:103`); the
   context goes on behind the last yield of the coroutine before it, and the process
   aborts.
3. `affix_get` / `CallsReturn`: get and rmv do not advance at a hole that rmv left
   (`asev/affix_base.hpp:101`) and loop for ever.
4. `cow_overrun` / `CopiesFit`: `resize` makes a buffer's size smaller than what is
   allocated, and the next `resize`, to a little more, reallocs the block to less than it
   was (`detail/buffer.hpp:82-91`).  The pool hands the buffer out again as if it had the
   pool's capacity, and the copy that reserve makes of what a message has written goes past
   the end of the block (`detail/cow_buffer.hpp:273` and `290`).  With the real sizes: a
   message of 65 bytes is copied and written to, which takes a buffer of 256; two more
   bytes, put one by one, make it one of 131; it is cleared, and a shared message of 180 bytes that is
   written to copies them into it.  When the copy fits and only the value to be put does not,
   reserve grants the room and `put` throws, and what was copied behind the buffer's size
   cannot be read (`InSpan`).

More disagreements are visible in the models and checked by no run:

* a timed `synchronized_reset` documents "if timed out count will be 0"
  (`cque/mpsc_count.hpp:101`) but resets once more and returns what it finds;
* `affix_list::add` documents that it returns the old object of the type
  (`asev/affix_base.hpp:41`) but, once the array is full, looks only in the map;
* the destructor's "Clean up all misc" (`asev/ev_service.hpp:164`) leaves out the tsegv
  events, which are released when the pools of outside threads and of earlier threads
  are gone: the exception in `BackToLivePools`;
* nothing clears `stop_`, so a service that was stopped ends at once when run again, and
  `worker::work` goes through all of a worker's events before the thread looks at it;
* the assertion on a handler's exception throws inside the catch of a noexcept function,
  which terminates (`Throw`);
* assigning to a `variant_ptr` that holds a raw pointer forgets the node
  (`cque/variant_ptr.hpp:69`): `dropped` in `Owned`;
* copying a message that has been read restarts at its first byte with the objects
  already taken gone (`torn`);
* `dynatom` lets 11 characters pass where its message says 10 (`atom.hpp:31`).

## Proofs

TLAPS checks, for every value of the constants:

* `MpscCountProofs`: `NoLostWakeupHolds`, `ConservationHolds`, and
  `RefinesPendingCount` (the safety part of the refinement).  `NoLostWakeup` is
  not inductive: the invariant `IInv` adds who holds the mutex at which program
  counter, that `blocked_` is set exactly between `Block` and `Unblock`, and that a
  consumer about to wait with increments pending has a producer past its CAS.
* `EvServiceProofs`: `OneThreadPerWorkerHolds` and `StrandsRefined`, for any
  numbers of threads and workers, stopped or not, from `ControlInv` (types, the events queued
  and in hand, who visits a worker).
* There too: `NoSleepThroughStopHolds`, the safety `StopEndsThreads` rests on, for any
  numbers as well: nobody goes to sleep behind the wakeup of `stop()`.  A thread looks at
  its flag after the last exchange of its count before it sleeps (`Peek`), and all flags
  are set before the first count goes up (`StopInv`).
* There too: `BooksBalanceHolds` and `NoStrandedEventHolds`, under
  `OneWorkerEach` (as many workers as threads, which is what every constructor
  but the four-argument one gives).  `RoundInv` says how a round goes: a thread
  visits its own worker as prior and others as minor, tallies at most once per
  round, and polls or sleeps only if it expects nothing.  `Balance` is then kept
  by each action, one lemma per group of actions.  Without `OneWorkerEach` the
  balance is false, which is finding 1.
* `CoroutineProofs`: `OnHostHolds` and `OneListHolds`, for any threads, workers
  and corctxs.  The invariant says that a worker is visited by one thread, which has an
  event of it in hand (`Visits`); that a corctx in a queue is in that of its strand, once,
  and in no other list (`Waiting`, `Once`, `Apart`); and, for one that was resumed
  before it yielded, that the thread which has it in hand will leave its stack before it
  looks at the queue again (`Leaving`).
* There too: `SpawnsRefined`, every step of `Coroutine` is one of `SpawnService`
  or a stutter.  `HInv` adds the handlers to that invariant: one is in one spawn event
  (`UnbornNew`, `UnbornOnce`), or of one corctx, or has returned, and a corctx whose
  handler has returned has `stop` set (`Holders`), which is why it is neither entered nor
  resumed again.  One lemma per action.
* There too: `SizeCountsHolds`, `NothingLostHolds`, `OnePerTypeHolds` of `AffixList`, for
  any types, objects and array size.  They need each other: the holes of the array are
  counted right because an object is in one place (`OnePlace`), and scans stop early
  because the count is right.
* `MpscQueueProofs`: `SoundListsHolds`, `NoUseAfterReleaseHolds`, `NoLostWakeupHolds`, and
  `FifoRefined` (the safety part of `ImplementsFifo`), for any nodes and producers and any
  number of pushes.  `Owning` is what the compare-and-swap rests on: what a producer links is
  its own, linked to the head it saw.  If that is the head again, the node is linked to the
  stack there is, whatever was popped, recycled and pushed in between.  `InLists` says that
  the stack and the consumer's list are chains which share no node and hold what the queue
  owns; `Control` is as in `MpscCountProofs`.  The stack, taken and led back, is a chain
  from its oldest node (`ChainBack`), so the order of what is inside stays (`PopRefines`).
* `PooledQueueProofs`: of the pool, `SoundListsHolds` and `StoreRefined`, for any nodes,
  threads and owner, along the same lines (`Freeing` is its `Owning`).
* There too, for any `variant_ptr`s: `RespectsPoolHolds`, `InLineHolds` and `OwnedHolds`.
  The invariant says of a node the program has a pointer to that it is with the owner, not
  being released, and outside the queue has a null link and clear flags (`Fine`), which is
  why `push` writes the link of one node only and the flags of a popped node are those of
  its push; of a `variant_ptr` that it owns exactly the node it leads to (`Holding`); and of
  the queue that it is a chain of what it owns, as the history has it (`Line`).  With
  `RespectsPoolHolds` the theorems about the pool hold of `PooledQueue` as well.
* `NodeListProofs` has the lemmas both rest on: that a chain from a node is unique
  (`OneChain`), which makes `Chain`'s `CHOOSE` a value to reason about, by the first place
  where two chains would differ (`Least`); and what linking, pushing, popping and reversing
  make of a chain.
* `MessageProofs`: `HoldsWhatWasPutHolds`, `HeldOrPooledHolds` and `SharedInStepHolds`,
  for any messages, buffers, capacities and sizes, up to the first copy that does not fit
  (finding 4): what is invariant is `overrun \/ MInv`, for a step from `MInv` either sets
  `overrun` or leads to `MInv` again (`StepHolds`), and `overrun` stays set.  Recycled
  buffers of any size and allocation are covered as long as what is copied into them fits; that it
  fits is not provable, for it is false.  `TypeOKHolds` holds behind such a copy as well
  and has an invariant of its own (`TypesInv`).  `MInv` adds that a position
  never exceeds its buffer's room (`Room`), that a buffer's count is the number
  of messages that refer to it, so that who writes is the sole holder, and that the
  indices in a message grow with the position.  Finiteness of `Handles` and that a
  null object is no object are assumed, by name, where the constants are declared.
* `LifecycleProofs`: `AccountedHolds`, `HandlersFramedHolds`, `PostsInOrderHolds` and
  `BackToLivePoolsHolds`, for any threads, workers, callers, calls and runs.  None of them
  is inductive; the invariant `IInv` adds the following.
  - Calls are numbered, and a call that goes on has made no event for the threads it has not
    reached (`Numbered`), so every event made is a new one.
  - A queue has events of its kind and for its thread or worker only, each once
    (`Queues`, `Fit`), and a thread has in hand what it could get where it is (`Hands`);
    with that each event is in one place (`Placed`).
  - A handler of the run whose time is over is in no queue, and one whose time has not
    come still is (`Framing`); up to the destructor, what was given back is what was handled
    (`HandledOnly`).
  - A queue of posts is sorted by number, and what left it is older than what is in it
    (`InOrder`).  When a post is handled, an older one of its worker is in no queue, in
    no other hand, since a worker is with one thread, and not left in a crash, since the
    thread that crashed still has the worker (`Crashed`): so it has been handled
    (`OlderGone`).
  - What the destructor has been through is empty (`Cleaning`), and no pool goes before
    the tstart and texit events and the posts have (`Dying`): this is where the order of
    its steps matters.
* Type correctness of the modules whose runs check it, `TypeOKHolds`, from the same
  invariants but for `MessageProofs`.

Only model-checked: everything with fairness (the liveness of
`ImplementsPendingCount` and `ImplementsFifo`, `EventsRun`, `Quiesces`,
`StopEndsThreads`, `Winds`, `RunEnds`), which the prover does not reach; and
`AtomsReadBack`, an induction over data.  Every safety invariant the runs check is
proved, `BooksBalance` and `NoStrandedEvent` for one worker per thread.

## Plan

What would add most from here: buffers of a message that is passed to another thread,
whose counts are atomic but whose pools are of one thread.  At this commit nothing in
`src/actorx` passes one.

## Not modelled, and why

* Strands and thread contexts have no behaviour beyond what `EvService`, `Coroutine`,
  `Lifecycle` and `MpscPool` take in.
* The actor layer is unfinished in this code: `recv` returns the null message, `quit` and
  `handle_message` are empty, every actor id is null.
* `csegv` is in `Lifecycle` as far as a crash runs the tsegv handlers and exits; stack
  traces, and the Windows filter, are the operating system's.
* `utest`, `assertion.hpp` and `libs/test`
  are the harness; `adl/` and the actor ids are generated or plain data;
  `dependencies/` (asio, spdlog, xhook, adata, gsl) is vendored, and is most of the lines
  under `src/`: all of `src/actorx` is less than a tenth of them.  What its code does with them
  is modelled where it calls them.
