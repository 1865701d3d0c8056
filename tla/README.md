# nonstd in TLA+

This directory models *libnonstd*, a small C library of containers and
concurrency helpers, in TLA+. TLC model-checks the modules on small instances
and TLAPS proves their safety properties for every instance. Paths such as
`queue.c:34` are relative to `src/src/`, headers to `src/include/`.

The repository has no documentation besides its code: what a part promises is
taken from its header, its assertions and its tests.

## 1. Inventory

| part | state | operations | interacts with |
|---|---|---|---|
| queue (`queue.c`) | ring `buf`, `head`, `tail`, `mNumItems`; mutex `lock_queue`, condition `size_cond` | `QUEUE_PUSH`, `QUEUE_POP`, blocking or not; `queue_init` | called by any number of threads; used by async |
| task queue (`async.c`) | `run`, `worker_array`, a queue of tasks | `task_queue_init`, `task_queue_close`, the worker loop | workers pop from the queue and call the clients' functions, which may push to it again |
| swap chain (`swapchain.c`) | chain of links from `oldest` to `newest`; one mutex for `oldest` and one for each link's `newer`, one rwlock for `newest` and one for each link's data | `write_back`, `write_close`, `read_front`, `read_next`, `read_close`, `swapchain_init` | a writer thread recycles the oldest link, readers hold links |
| free list (`freelist.c`) | list threaded through the free items of a buffer; one mutex | `get`, `rel`, `freelist_init`, `__freelist_clr` | clients write into the items they hold; `hashmapTests.c` takes its data from one |
| hash map (`hashmap.c`) | buckets, nodes, list of free nodes; one rwlock, which only `find` takes for reading | `add`, `remove`, `find`, `hashmap_init`, `hashmap_print_nodes` | `hashmapTests.c` maps words to items of a free list |
| program state (`safeguards.c`) | `current_state`; mutex and condition | `set_current_state`, `get_current_state`, `wait_until_state`, `safe_alloc`, `safe_free` | used by all the tests |
| placement (`util.c` and the `*_init` functions) | none: pure arithmetic on addresses | `is_power_of_two`, `align_forward` | decides how many items a queue, a free list and a pool hold, and where the links of a swap chain lie |
| pool (`pool.c`) | a buffer of items; an rwlock that every call takes for reading | `cpy_in`, `cpy_out`, `memset`, `memmove` | called by the array list |
| array list (`arraylist.c`) | a pool, the number of its items in use; an rwlock that every call takes for writing | `push_back`, `pop_back`, `insert`, `remove` | calls the pool inside its own lock |
| test clients (`*Tests.c`) | task arguments with a `done` flag, versions of a datum, a word count | submit and await tasks; write and read versions; count the words of a text | use everything above |

What is hard to get right, and hard to test, in each part:

* **queue** - pushers and poppers sleep on one condition variable; the
  capacity is one less than the number of slots; a counter and two indices
  describe the same ring. Correct when it is a bounded FIFO, when nobody
  sleeps while it could go on, and when blocking calls are never refused.
* **task queue** - `run` is read without a lock while `task_queue_close`
  clears it and pushes one STOP per worker; tasks may wait for other tasks.
  Correct when no task is lost or run twice, when closing ends and leaves
  nobody behind, and when batches that are awaited get done.
* **swap chain** - a link is taken out of the chain, written, and appended in
  three critical sections under different locks, while readers come and go.
  Correct when no read is torn, no link is lost, versions stay in order,
  readers see the newest one, and nobody waits for ever.
* **free list** - the links lie in memory that clients overwrite. Correct
  when exactly the items nobody holds are on the list, each once.
* **hash map** - one `next` pointer serves both the chains and the free list,
  and `remove` cuts the chain at the node it removes. Correct, as far as it
  can be, when it is a partial map that may forget keys of the same bucket.
* **program state** - one signal for any number of waiters; a state that is
  tested, and may change before it is relied on.
* **placement** - unsigned subtraction, rounding, alignment, an alignment of
  zero; the loop of `swapchain_init` looks at where a link starts, not at where
  it ends. Correct when items and links are aligned, apart, and in the buffer.
* **pool and array list** - the pool writes under a read lock, so only the
  list's own lock keeps two writers apart; `cpy_in` copies one element of its
  source to every place; `pop_back` compares the wrong way round and adds where
  it should subtract; `insert` checks no index. Correct, as far as they can be,
  when the calls of several threads take effect one at a time, each as the
  code has it, and when no access leaves the buffer.
* **word count** - a count and a link share the first word of an item, and all
  the buffers come uncleared from `malloc`. Correct when every word has an item
  of its own with the number of its occurrences, and when the program lives as
  long as there are items and nodes enough.

`PROJECT.json` lists each of these hazards at its line, with the properties
that would catch it going wrong. A fault the code has is named there without a
property where the model describes the fault and nothing in the repository
says that it should be otherwise.

## 2. Modules

| module | models | abstract specification |
|---|---|---|
| `Queue` | `queue.c` | `Fifo` |
| `TaskQueue` | `async.c` and the clients of `asyncTests.c`; instantiates `Queue` | |
| `Swapchain` | `swapchain.c` and the threads of `swapchainTests.c` | |
| `Freelist` | `freelist.c` | `Allocator` |
| `Hashmap` | `hashmap.c` | `Dict` |
| `WordCount` | `hashmapTests.c`; instantiates `Freelist` and `Hashmap` | |
| `Pool` | `pool.c`: the operators on its buffer | |
| `Arraylist` | `arraylist.c`; extends `Pool` | `List` |
| `ProgramState` | `safeguards.c` | |
| `Layout` | `util.c`, the arithmetic of `queue_init`, `freelist_init`, `pool_init` and `swapchain_init` | |
| `QueueProofs`, `TaskQueueProofs`, `SwapchainProofs`, `FreelistProofs`, `HashmapProofs`, `WordCountProofs`, `ArraylistProofs` | theorems about these modules | |
| `HelperProofs` | theorems about `ProgramState` and `Layout`, the helpers the containers share | |
| `MC*` | values, and symmetry, for TLC | |

**Granularity.** A step is what a thread does between two points at which
another one can get in its way. Code between a lock and an unlock that only
touches what the lock protects is one step; a call that blocks in the middle
(a wait on a condition, a second lock) is cut there. Reads without a lock
(`tq->run`) are steps of their own. Each module of the code has a section
*Plausible slips*: mutated forms of its definitions (a dropped guard, an
off-by-one, a swapped order), one or more for each property, with which the
property fails.

**Queue.** `head` and `tail` are slot numbers instead of pointers. `qpc` says
whether a thread is outside, about to lock, holds the mutex, or sleeps; `call`
holds its arguments and its result. `Lock`, `Wait`, `Push` and `Pop` are the
rest of `__queue_push` and `__queue_pop`; `SpuriousWakeup` is the one POSIX
allows; a broadcast moves every sleeper back to the mutex. A pop that finds
nothing reports success and leaves the caller's variable alone, as the code
does. `Fifo` has neither lock, buffer nor condition; the refinement reads the
queued items off the ring.

**TaskQueue.** The queue's variables are in the state and the pool moves them
only through the actions of `Queue` (`Q == INSTANCE Queue`). `Batch` says
which tasks the main thread and each task submit, so that `async_test` (a flat
batch) and `async_async_test` run as a task (a nested one) are values of a
constant. A task's end sets its `done` flag, as `worker_test` does
(`asyncTests.c:32-35`); `async_async_test` has no flag, and nobody awaits it,
but here a task that submits others has one as well. `AwaitFirst` says whether the client waits for its batch before it
closes the pool; the tests never close theirs. `ran` is a history variable.
The worker's read of `run` is a load of its own, since the Makefile compiles
without optimisation.

**Swapchain.** Each lock is a variable: the mutexes hold a thread, the rwlocks
a writer and a set of readers, and prefer readers, as glibc's do by default.
Data has two halves, as in `swapchainTests.c`, written and read one after the
other, so a torn read is visible. `published`, `floor` and `writes` are
history and a bound. In `write_back`, `if (retval) break;` (`swapchain.c:125`)
leaves the loop on the very EBUSY it should wait for, so the wait on
`done_read_cond` (lines 127-141) is never reached and has no action, nor has
the broadcast that would end it: `Take` returns with `oldest_rwlock` locked,
and its writer is at `"quit"`. A dereference of NULL sets `crashed`, and
nothing follows it. `MaxWrites` bounds the versions, and so the writes; no step
looks at a version, and `EndlessSpec` of `MCSwapchain` counts them from the
start again when they run out, so that the writing need not end there.

**Freelist.** An item is its index, `word[i]` its first word: the next free
item, or whatever a client wrote there (`Use`). `get` and `rel` are one
critical section each, so one step each. `NumItems` rounds up, as the loop of
`__freelist_clr` does. `Init` is that of a cleared buffer; `InitOver(last)`
leaves `last` in the word that `__freelist_clr` does not write.

**Hashmap.** The pointer to a pointer that `__hashmap_get_hash_node` returns
is the pair of where it points (the bucket, or the `next` of the node
`Before`) and what is there (`Node`), the end of its `Walk` down the chain.
`Hash` is any function of the keys into the buckets. Each call is one step.
`Dict` lets a remove lose any set of keys of the same bucket, which is what
`remove` does when it cuts the chain. `Lines` is what `hashmap_print_nodes`
prints, one record for each line. `InitOver` is as in `Freelist`.

**WordCount.** One thread, one step for each call it makes of the free list
(`F == INSTANCE Freelist`) or the map (`H == INSTANCE Hashmap`), and one for
each word it reads. A token stands for what `fscanf` returns, `Word` for the
loop that keeps its letters in lower case; a token without letters is skipped.
`word[i]` is the first word of item `i`, link or count, as in memory. `read`
(history) has the text so far, as the number of occurrences of each word;
`TextRead`, their sum, is there for the bound only. The last
item's link and the last node's are NULL or `Wild`, independently. A step that
dereferences either sets `crashed`. A link left over from earlier use of the
memory, which would point to something of the program's own, is not among
them. The buckets are taken as zero: the code
reads them without ever writing them, so there is nothing to be said of it
otherwise.

**Pool and Arraylist.** `Pool` has no actions of its own: its lock excludes
nobody and is not in the state, and what its functions do to the buffer is
spelt out as operators that `Arraylist` builds its steps from. A call of the
list is cut at every item it copies: `Begin` (lock and check), `Copy` for each
item or `CopyNothing`, `Move`, `Leave` (count and unlock); `Refuse` is lock,
check and unlock in one. Sizes and indices are words of `Width` bits, so that
the sums and differences that wrap around do. An assertion of the pool sets
`outcome` to `"aborted"`, an access beyond the buffer that none of them stops
to `"wild"`, and nothing follows either. `List` is the list with each call in
one step, and describes what the code does, its slips included: `Put` stores
one element `count` times, `PopBack` lets the list grow. The refinement reads
the list off the buffer, or off `before` (history) while a call is at work.

**ProgramState.** `Set` signals one sleeper. `safe_alloc` and `safe_free` are
two steps, `Check` and `Allocate`, because `state_lock` is released in
between. `Check` goes on, or fails its assertion, which sets `aborted` and ends
every thread. `late` (history) counts the allocations of each thread that come
after the state became RUN.

**Layout.** One step, `Place`, from a client's buffer and sizes to the fields
that are stored, or `PlaceChain` and one `AddLink` for each turn of the loop of
`swapchain_init`, on words of `Width` bits with wrap-around. Here the model
checker is a generator of inputs. `PlaceChain` is given no buffer that ends
within a link of the end of the address space; `Place` is. A client may ask
for items of size 0, or for an alignment of 0, which makes them that: the
stage is then `"sizeless"`. What fails on that comes after the fields are
stored: `queue.c:112` and `arraylist.c:148` divide by zero, and the loop at
`freelist.c:18` never ends if the buffer has any room; a pool by itself does
not mind.

## 3. Runs

Runs that must pass:

| run | instance | what it shows |
|---|---|---|
| `queue` | 3 threads, 3 slots, 2 items, spurious wake-ups | the ring, its counter and its indices agree, no wake-up is lost, blocking calls are never refused; refinement of `Fifo` |
| `task_queue` | 3 workers, 4 tasks, 3 slots, a task that submits and awaits others, closed at any time, spurious wake-ups | no task is lost or run twice; the STOPs suffice for the workers inside pop |
| `task_queue_close` | the same with 4 slots, tasks awaited before the close, fair | the nested tasks get done, closing returns and leaves no thread and no lock behind |
| `swapchain` | 1 writer, 2 readers (`read_front`, `read_next`), 3 links, 6 versions | no torn read, one unbroken chain in order of versions, no reader goes back in time |
| `swapchain_one` | 1 link, 1 writer that may write for ever, 2 readers, fair, strongly so to a reader that waits for `newest_rwlock` | the chain is never empty when `write_back` looks; `read_front` returns, however much is written, and even after the writer has given up |
| `freelist` | 2 users, 4 items, the last of which ends behind the buffer | the list is exactly the free items, each begins in the buffer and only the last may end outside; refinement of `Allocator` |
| `hashmap` | 4 keys, 3 in one bucket, 3 nodes, 2 values | lists stay apart and acyclic; refinement of `Dict` |
| `program_state` | two threads that set, one of which also allocates, another that allocates, 1 waiter, 4 sets, spurious wake-ups, fair | once the program runs, no thread is late with more than one allocation; the waiter is not forgotten in a program that lives on |
| `layout` | every buffer of a 6-bit address space, alignments 0 to 8, links of 3 | items are aligned, lie in the buffer exactly if it reaches an aligned address, and waste no room; links do not overlap, all but the last are in the buffer, and an array of links is used to its end; only a size or an alignment of 0 leaves items of size 0 |
| `arraylist` | 2 threads, 3 places, 5-bit words, calls at indices inside and outside the list | the calls take effect one at a time: refinement of `List`; the one access the pool lets go beyond its buffer is that of an insert behind the end |
| `word_count` | 6 tokens of 4 words, texts of up to 6, room for 3 words, 2 buckets, last links NULL or nowhere | counts are right at every word and in the printed lines; a crash means a text of more than 3 words |

A run that shows the code breaking what its test and its own next lines say:

| run | what happens |
|---|---|
| `swapchain_busy` | `write_back` gives up on a link that is being read, with `oldest_rwlock` locked, and the test's writing thread ends |

Other limits of the code, each to be seen in a definition or with another value
of the constants:

* closing a pool with a full queue hangs: the workers leave on `run = 0` and
  nobody makes room for the STOPs (`PushStop`; `CloseReturns` with
  `AwaitFirst = FALSE`, two workers and a batch of four tasks). An idle pool
  hangs, too, when its queue holds fewer items than there are workers;
* as many tasks that wait for tasks as there are workers wait for ever;
* two waiters for different states: the signal may wake the wrong one;
* memory is allocated or freed while the program runs, against the assertions
  `CANNOT ALLOCATE WHILE RUNNING` and `CANNOT FREE WHILE RUNNING`
  (`safeguards.c:50` and `70`), when another thread sets RUN between the
  assertion and the `malloc` or `free`: once in each thread (`AtMostOneLate`);
* with as many writers as links, two and two for example, a writer finds the
  chain empty and dereferences NULL (`NoCrash`);
* a writer that never stops may starve a reader if the rwlocks are not fair to
  readers (`ReadsReturn` with weak fairness only);
* a queue with room for one item, which `queue_init` accepts, has
  `mMaxItems = 0`, and one with items of size 0, which it accepts as well, ends
  in a division by zero; `INVALID_STATE` is among the `Accepted` states;
* a buffer shorter than its padding makes its length wrap around (`Layout`'s
  `Reached`); a free list in a buffer that is not a whole number of items hands
  out one more than fits (`NumItems`, `ItemsFit`); the last link of a chain may reach past
  its buffer (`LinksInBuffer`);
* `pop_back` pops only if it is asked for at least as many items as there are,
  and then counts them twice (`Refused`, `Counted`); one without a destination
  succeeds for more items than there are; `cpy_in` reads past the end of a
  source that is shorter than the index it is stored at (`Element`), as
  `arraylistTests.c:38` has it do.

**Bounds.** Three threads let a wake-up reach the wrong one of two sleepers;
three slots make the ring wrap with a capacity of two, so it is empty, partly
full and full; two items tell order apart. Three workers let one be busy, one
be between its test of `run` and its pop, and one be gone when the pool
closes; four tasks and three STOPs go through a queue of two or three. Three
links are a chain with a first, a middle and a last one, two while one is
written; six versions recycle every link twice; one link is the case in which
the chain is empty. Two versions that start over are enough for a writer that
never ends, since no step compares them. A thread that sets the state may come
between the check and the allocation of another, and be one that allocates
itself. Four items and two users empty the free list in any order
and refill it in any other. Three keys in one bucket put a node before and one
behind the one that is removed. In `Layout` all buffers of the address space
are tried, those too short and those at its very end included. Three places
and counts of one and two fill an array list exactly, overfill it and leave a
gap before or behind what is moved; words of 5 bits hold a byte offset beyond
the buffer, and wrap around one below zero. Texts of six tokens fill three
items, repeat a word before and after, and still have a fourth.

`MaxWrites`, `MaxSets`, `MaxAlign`, `MaxText` and `Width` are the only bounds
that the program does not have (`Width` is 64 there). `Calls` lists the calls
that the threads of `Arraylist` make. Most runs do not look for
deadlocks, since their threads may sleep for ever legitimately: a pop of an
empty queue, a closed pool, a reader that went beyond the newest link, a
waiter whose state never comes; a program that has ended or crashed stops.
`swapchain_one` and `freelist` do look for them.

**Fairness.** Each thread that is inside a call and can go on does so sooner
or later (weak fairness of its steps), which is what a preemptive scheduler
gives; no thread is obliged to make a call. There is no strong fairness of
mutexes: they do not promise that a thread that competes for one gets it. One
lock is different, the read lock of `newest_rwlock` (`FrontLock`): the rwlocks
have no attributes, so they prefer readers, and glibc's, when a writer unlocks
one, hands it over to the readers that wait. A reader that waits while the
writer takes the lock again and again is thus let in, which is what strong
fairness of `FrontLock` says; without it `ReadsReturn` fails, since the writer
may write for ever. The lock on the data needs none: a reader that holds
`newest_rwlock` keeps the writer from coming round to the same link again.
A spurious wake-up may happen and never has to, so no progress depends on one.

## 4. Proofs

`QueueProofs`, from `SlotsAssumption` (at least one slot) and `NullAssumption`
(NULL is no item and no thread), for any number of threads, items and slots:

* `TypeCorrect`, `RingCorrect`, `NoLostWakeupCorrect`,
  `BlockingCallsDeliverCorrect`: the invariants of the run `queue`.
* `Refinement`: `Spec => FifoSpec`.

The inductive invariant `IInv` adds to `TypeOK` that the mutex is held by the
thread between lock and unlock (`LockOK`), that a push has an item
(`CallOK`), and the three invariants themselves. They need each other: a
blocking push that got past its wait sees `mNumItems < mMaxItems`, and only
`RingOK` says that then `new_head # tail` (`CounterAgrees`), without which it
would be refused. `NoLostWakeup` is inductive because each change of
`mNumItems` comes with a broadcast. The refinement goes step by step: a push
appends to the contents of the ring (`PushAppends`), a pop takes their head
(`PopTakesHead`), every other step changes nothing `Fifo` sees or is a call.

`TaskQueueProofs`, for any number of workers, slots and tasks, batches nested
to any depth, and a close at any time. `TaskAssumption` says that there are
finitely many workers and that names of threads, tasks and STOP are told apart,
`BatchAssumption` that each task is one turn of one submission loop, as
`args[task_index]` is in `asyncTests.c`, and `TasksAssumption` that there are
no other tasks.

* `PoolFifo`: the pool does with its queue only what `Queue` has
  (`QueueUsed`: `Spec => P!Spec`, `P` being `QueueProofs` on the pool's
  variables). So all the theorems of `QueueProofs` hold of the pool's queue,
  and the others below speak of the sequence of queued items, as `Fifo` does,
  instead of the ring.
* `TypeCorrect`; `RunsOnceCorrect` and `NeverLostCorrect`. A task is at one of
  the `Places` that `RunsOnce` counts; the invariant says that no task is at
  two (`OnePlace`), at none before the turn of the loop that submits it
  (`NowhereBefore`), and that only one that was begun has run, once (`RanOK`). Each
  step leaves every task where it is, moves one on, or brings one in
  (`Stays`, `Moves`, `Appears`).
* `EnoughStopsCorrect`. It is inductive with `run` being clear during the close
  (`StopsOK`): a worker that enters pop after that would have read `run` as set.
* `ClosedMeansIdleCorrect`. Its invariant `WaitOK` says what the waiting loops
  have established so far, and that whatever is done had its whole batch done;
  `TasksAssumption` then gives that all tasks are done.

`SwapchainProofs`, from `LinksAssumption`, `NullAssumption` and
`RolesAssumption` (readers and writers are different threads):

* `TypeCorrect`, whose strengthening `HasLink` says that a thread that works
  on a link has one.
* `NoTornReadCorrect`: no read is torn, for any number of writers, readers and
  links. Its invariant says who holds each data rwlock (`WriteLocks`,
  `ReadLocks`), that nobody reads a link that is written (`Exclusion`), that
  only a link being written has different halves (`Whole`), and that what a
  reader has read so far is still there (`ReadOK`). It says nothing of the
  chain, and the theorem holds when the chain breaks.
* `ChainCorrect` and `FreshCorrect`, for one writer (`OneWriter`), as in
  `swapchainTests.c`: two can take the links of a chain of two both, and may
  append theirs in the other order than they took their versions. The chain
  needs two links, since a single one is appended to itself. The invariant
  `Ordered` has the chain as a sequence (`Chained`), the link in hand newer
  than all others once it is filled (`InHandOK`), and versions that only grow
  where a reader goes (`FloorOK`). Readers that walk with `read_next` are
  covered: a link that is recycled behind a reader gets a newer version.
* `NoCrashCorrect`, for one writer and readers that call `read_front` only
  (`FrontOnly`): `oldest` is NULL only while the writer has the link.

`FreelistProofs`, from `SizesAssumption` (an item fits in the buffer) and
`NullAssumption` (NULL, items and client data are told apart):

* `ListCorrect`, `TypeCorrect` and `Refinement` (`Spec => AllocatorSpec`).
  `ListOK` says that some sequence of the free items is the list;
  the inductive invariant `IInv` says the same without counting them
  (`Listed`), and that no two users hold one item (`HeldApart`), without which
  a release might put an item on the list that another user goes on writing
  to. A get drops the head of the sequence, a release puts one before it, and a
  client's write falls outside it.
* `ItemsFitCorrect`: every item begins in the buffer, and only the last may end
  behind it, if the buffer is no whole number of items.

`HashmapProofs`, for any hash function and any number of keys, buckets and
nodes:

* `TypeCorrect`, `ListsApartCorrect` and `DictCorrect` (`Spec => DictSpec`).
  The code follows pointers, and so do `Walk` and `Behind`, functions on the
  naturals. The inductive invariant has no pointers followed: it gives each
  node the list it is on and its place there, and each list its length
  (`owner`, `depth`, `len` in `Shape`), so that each change of a pointer is
  local. The nodes that `remove` cuts off with a node are on no list (`Lost`).
  That a walk of `n` steps comes to the node at depth `n` is an induction on
  `n`. The library's induction theorem takes an operator, which the provers
  cannot instantiate; `SetInduction` says the same of a set of numbers, and
  follows from the least element of its complement.

`ArraylistProofs`, for any number of threads, places and calls.
`WordAssumption` says that a power of two is a number, which the provers do
not know.

* `TypeCorrect`, whatever the calls ask for.
* `WildOnlyPastEndCorrect` and `ListCorrect` (`Spec => ListSpec`), for
  `SmallCalls`: three times the largest `index + count`, in bytes, and the
  buffer fit in a word. Without that hypothesis both fail: a `remove` of 16
  items at index 16 passes both tests when words have 5 bits, since the sum
  wraps around. It holds in the run `arraylist`, and of calls and buffers in
  memory (`Width` is 64). The differences that wrap around below zero are part
  of the theorems: they are what the assertions of the pool must stop. The
  invariant bounds `item_count`, which `pop_back` makes too large (`Counts`),
  and says of the thread inside the lock which items are still those of
  `before`, which are copied, and which are moved (`Progress`). The
  refinement then puts the list together from these parts when the call leaves
  (`Spliced`, `Cut`); everything between `Begin` and `Leave` is a stutter.

`WordCountProofs`, for any text, number of items and nodes and hash function,
with unwritten last links that are NULL or point nowhere (`Wild`). Beside `HashAssumption` and `CountsAssumption` (there
are a bucket and an item), the assumptions only tell words, NULL, `Wild` and
numbers apart.

* `TypeCorrect`, `CountsRightCorrect`, `EnoughRoomCorrect` and
  `PrintsAllCorrect`. Nothing is ever given back, so items and nodes are taken
  in the order of their addresses, and the n-th node has the n-th item
  (`ItemsOK`, `NodesOK`, `MapOK`); at most one item is out of the list and not
  yet in the map (`Pending`, in `StageOK`). `CountsOK` has what every word's
  item holds while the last word is still to be counted (`Busy`).
* The theorems of `HashmapProofs` are about nodes that are linked to nodes or
  NULL, and here the last free one may link to `Wild`. They are used of the
  map in which `Wild` is read as NULL (`B == INSTANCE HashmapProofs`, through
  `Bar`). Lookups, adds and printing do the same there as in the map as it is,
  because the chains stay among the nodes in use (`WalksAgree`,
  `PointersAgree`, `BehindAgrees`), and an add keeps the shape of the map and
  maps one more word (`B!StepInv`, `B!AddNew`).
* That each word is printed once is a bijection between words and lines
  (`LinesOfWords`): the node of a word is at one place of one chain
  (`B!Position`). A crash takes as many words in the map as there are items,
  and one more (`MappedCount`).

The first part of `HelperProofs`, about `ProgramState`, from `SetsAssumption`:

* `TypeCorrect`, for any number of threads and sets.
* `AtMostOneLateCorrect`, for any threads that set the state and allocate, the
  same or others. Its invariant `LateOK` adds that nothing is late before the
  program runs, nor in a thread between its assertion and its `malloc` or
  `free`: it passed the assertion in another state.

The second, about `Layout`, for words of every width:

* `ItemsInBufferCorrect`, `NothingWastedCorrect`, `LinksInBufferCorrect`,
  `OnlyZerosFailCorrect`, from `WidthAssumption` (no item and no alignment is
  over half the address space, else rounding up an item's size wraps to zero)
  and `PowersAssumption`: a smaller power of two divides the larger, which is
  an induction and so out of the provers' reach; TLC evaluates it for the width
  of the run. The rest is division: `align_forward` finds the first
  multiple that is not below an address, or wraps around to exactly zero when
  the address space has none (`Forward`). The invariant keeps how a call's
  result follows from its arguments (`Placed`) and, for the loop of
  `swapchain_init`, that the links so far are aligned, a stride apart, and
  below the end of the buffer once there are two (`Chained`).

**Only model-checked:** liveness (`CloseReturns`, `ReadsReturn`,
`WaiterArrives`), which is out of the prover's reach, as ENABLED is. Every other
property of a passing run is the subject of a theorem.

## 5. Not modelled

* `pool_memset`, which nothing in the repository calls, `align_backward` for the
  same reason, and a pool shared without a lock of one's own, which nothing
  uses.
* The hash functions: any function will do for the properties of the map.
* Bytes: items, keys and data are values; `item_size` and pointers matter only
  in `Layout`, `Pool` and `Freelist`. Key lengths (`MAX_KEY_LEN`) are left out;
  `fscanf` keeps those of the only client below it.
* Size and stride of the pool's copies, which every call gives the same value.
* Failures of pthread calls and of `malloc`; the tests that only print or
  measure (`arraylistTests.c`, `fibb`, clocks); the threads' polling of the
  program state in `swapchainTests.c`.
* `async_test`'s return without a close, which leaves workers on a dead frame.
* Uncleared memory, but for the last link of the free list and of the map's
  nodes in `WordCount`, and these only as NULL or as a pointer to nowhere: locks
  and buckets are taken as zero.

## 6. Plan

What several threads share came first (`Queue`, `TaskQueue`, `Swapchain`),
then the containers with one lock (`Freelist`, `Hashmap`, `ProgramState`,
`Arraylist`), the arithmetic (`Layout`, `Pool`) and the composition
(`WordCount`); all of these are here. Proofs followed the same order: the
queue, the pool on top of it, the swap chain, the containers, the arithmetic,
and the composition of two containers.
