# network-loom-panama in TLA+

Specifications of the network framework in `src/`: a Java library on loom and
panama with a C layer for each operating system. Paths below are relative to the
repository; `panama/` is `src/main/java/com/lei/network/loom/panama/`.

## 1. The system

| component | state | operations | interacts with |
|---|---|---|---|
| `panama/util/IntMap` | slots, chains of doubly linked nodes, a count | `get` `put` `replace` `remove` `count` `isEmpty` `asList` | the poller keeps one, nodes remove themselves from it |
| `panama/buffer/WriteBuffer` + 4 policies | segment, size, write index; the policy's array or arena | `write*` `set*` `truncate` `content` `close`, growth by the policy | user code, the owner of the arena |
| `panama/buffer/ReadBuffer` | segment, size, read index | `read*` `readUntil` `readCStr` `setReadIndex` | decoders; reads what a write buffer wrote |
| `panama/core/Net`, `AbstractLifeCycle`, `Mutex`, `State` | singleton flag, life-cycle word, a state word under a lock | constructor, `init` `exit` `addListener`; `register` `unregister` | any thread of the application |
| `panama/core/*PollerNode` | the node's socket, its map, its callback | `onReadableEvent` `onWritableEvent`, `close` inside | poller thread, Sentry/Protocol, IntMap, OS sockets |
| `panama/core/Poller`, `Writer` | a thread that is never started, an unbounded queue | `submit` | bodies are empty |
| `panama/handler`, `coder`, `library`, `exception`, `constant` | none | records, interfaces, constants | |
| `c/wepoll.c`, handles | tree of handles, reference lock of each port | `epoll_create` `epoll_ctl` `epoll_wait` `epoll_close` | threads of the program, Windows handles |
| `c/wepoll.c`, one port | registered sockets, their poll requests, update and deleted queues, poll groups, waiting threads | `port_ctl` `port_wait` `port_delete` | the AFD driver, the completion port |
| `c/wepoll.c`, red-black tree | nodes | `tree_add` `tree_del` `tree_find` | the two above |
| `c/rpmalloc.c`, spans | mapped regions, thread caches, global caches, reserves, deferred lists, orphaned heaps | mapping, cutting, caching, handing over, adopting, unmapping | every thread's `rp_malloc` and `rp_free` |
| `c/rpmalloc.c`, blocks | free lists of a size class and its spans, the deferred list of a span | allocation and free of small and medium blocks | the spans above |
| `c/rpmalloc.c`, sizes | none: arithmetic | size classes, alignment, usable size, resizing | both |
| `c/share.c` | none | `rp_malloc` and its like, one call each | Java |
| `c/lib_*.c` | none | one system call each | Java |

What is hard here: in Java, index arithmetic that wraps around, calls that fail
half way, memory owned by arenas with several users, late events for sockets
whose number was given out again, and life-cycle races; in wepoll, the
interleavings of `epoll_ctl`, `epoll_wait` and `epoll_close` with each other,
with the kernel completing poll requests and with handle values being reused; in
the allocator, memory that one thread frees while another allocates from the
same span, gives it up, or leaves its heap to a third. `PROJECT.json` lists these
hazards at their lines with the properties that cover each.

What makes each component correct:

- IntMap: it is a map; no operation on one key disturbs another.
- WriteBuffer: it is an append-only log whatever the policy does to the memory;
  no open arena is forgotten.
- ReadBuffer: nothing is skipped, repeated or invented; a failed read consumes
  nothing, but for two that fail after the cursor has moved (`readHeapSegment` at
  its copy, `readCStr` at its String); the first separator is found. Strings come
  back as they were written.
- Net: one Net; `doInit` and `doExit` called once at most, in this order; critical
  sections exclude each other; no call hangs.
- Poller nodes: a map entry belongs to the open socket it names; a closed
  sentry is closed once and its callback started once.
- wepoll handles: no use after free, exact reference counts, `epoll_close`
  returns; the tree stays a red-black tree of the handles that are open.
- wepoll port: no interest is lost, no completion hits freed memory, only what
  was asked for is reported, and what lasts is reported.
- Allocator: every span and every block is in one place; counts that decide
  when memory goes agree with where it is; nothing stays mapped at the end;
  blocks are large enough, aligned, and found again by their pointer.

## 2. Modules

| module | models | composes |
|---|---|---|
| `MapSpec` | what a map promises (abstract) | |
| `IntMap` | `IntMap.java` node by node, and its refinement mapping | INSTANCEs `MapSpec`; `MCIntMap` gives it keys |
| `ByteLog` | what a write buffer promises (abstract) | |
| `WriteBuffer` | `WriteBuffer.java`, all policies | maps itself to `ByteLog` |
| `ReadBuffer` | `ReadBuffer.java`, `NativeUtil.matches` | |
| `Buffers` | a write buffer whose content a read buffer reads | extends `WriteBuffer`, INSTANCEs `ReadBuffer`; `MCBuffers` gives it bytes |
| `Net` | `Net.java`, `AbstractLifeCycle.java`, `Mutex.java`, the constructor of `State` | |
| `PollerNodes` | both poller nodes | INSTANCEs `MapSpec` as its node map |
| `WepollHandle` | `epoll_*`, `ts_tree_*`, `reflock_*`, and how `port_*` uses `iocp_handle` | |
| `RBTree` | `tree_*` | `MCWepollHandle` puts it under the tree of `WepollHandle` |
| `WepollPort` | `port_*`, `sock_*`, `poll_group_*`, the queues | `MCWepollPort` gives it masks and events |
| `RpSpan` | `rpmalloc.c`, spans and heaps | `MCRpSpan` gives it requests |
| `RpHeap` | `rpmalloc.c`, the blocks of one size class | |
| `RpSize` | `rpmalloc.c`, sizes and addresses | `MCRpSize` gives it sizes |
| `IntMapProofs`, `CoreProofs`, `WepollHandleProofs`, `WepollPortProofs`, `BuffersProofs`, `RpHeapProofs`, `RpSpanProofs`, `RpSizeProofs` | the theorems, section 4 | each extends its component (`CoreProofs` the two of the package `core`, `Net` and `PollerNodes`) and `TLAPS` |

`PollerNodes` stands on `MapSpec` rather than on `IntMap` because `IntMap`
implements it, which is proved; the one assumption of that (a key is not put
twice, `IntMap.java:16`) is in turn a theorem of `PollerNodes` (`PutIsFresh`).

How state and steps correspond to the code:

- **IntMap.** `heap` is a function from live nodes to their fields, `nodes` the
  array. A walk `current = current.next` is the least set closed under `next`,
  so that no recursion is needed and proofs can speak about it. One method is
  one action: the class is used by one thread.
- **WriteBuffer.** A segment is a slice (`base`, `len`) of a block of bytes with
  an owning arena. Every write goes through `WriteAt`: grow, put down, move on,
  or throw at any of the three points, with any allocation allowed to fail.
  Integers wrap at `IntBits` and `LongBits`. `truncate` returns a new object;
  the module follows the new one and keeps `close()` of the old. `call` holds the
  arguments of the latest call and `ret` how it ended: they are what `ByteLog`
  compares the bytes with, so that a call that returns must have done what it was
  asked for, in the memory the buffer has afterwards.
- **ReadBuffer.** `call`, `ret` and `result` are the latest call and its outcome;
  the counts range over all longs of the instance, from -1 to the largest. Memory
  off the heap (`native`) may be gone, and an array may not be had, wherever the
  code touches the one or makes the other, before or after the cursor moves.
- **Buffers.** `phase` goes from "write" to "read" at `content()`; before that
  the writer may do anything, afterwards nobody writes. `sent` and `got` remember
  the strings as long as only strings were written.
- **Net.** Each atomic operation, lock, body and unlock is a step. The state of
  `AbstractLifeCycle` (`lifecycle`) and `Net.state` (`state`) are two variables
  as they are two words in the code. `made` and `entered` count the Nets made and
  the calls of `doInit` and `doExit`, so that a second one by the same thread, or
  later, would show. The bodies under the mutex are empty in the source: nothing
  throws with the mutex held.
- **PollerNodes.** The poller thread is a sequence of handler calls, each with
  any outcome (a code, a count, either exception). Inside `close()` the removal
  from the map, `doClose()` and the start of the callback are separate steps,
  between which other threads open connections. Opening a connection and its
  registration are external: the source has no acceptor yet.
- **WepollHandle.** What runs under the SRW lock or a critical section, and each
  interlocked operation, is one step; the keyed event is a rendezvous. The
  kernel resolves the handle value in one step and then waits on the completion
  port itself, so closing and reusing a handle in between is possible.
- **RBTree.** A tree is a record of the root and the fields of the nodes; the
  operations are operators from tree to tree, with their loops as recursion.
  `Trees` is every red-black tree up to a size, whatever calls would lead there.
- **WepollPort.** `port` is one record and every C function that changes it is
  an operator from port to port, applied in the order of the calls. Sections
  between entering and leaving the critical section are single steps. The
  driver completes, cancels and fails polls as external steps.
- **RpSpan.** A piece is a number of spans at an offset of a mapped region, the
  master at offset 0. `todo` is what a thread still has to do in its call; a step
  makes one access to what threads share (a deferred list, a global cache under
  its lock, the orphans under the global lock, `remaining_spans`) and does the
  work on the thread's own heap that goes with it. `_rpmalloc_global_cache_insert_spans`
  takes the lock twice and works between, and so does the model.
- **RpHeap.** The lists of blocks are sets: which block comes first does not
  matter to the properties. `INVALID_POINTER` in a deferred list is `locked`.
  Counting the block (`list_size`) and putting the list back are two steps, as
  they are in the code; the owner reads the count without the lock.
- **RpSize.** The constants are those of the source, 64 KiB spans and 126 size
  classes. An address is an offset from the start of the span; only a huge block
  has a map with an address, which the system may place at several offsets. A
  large block may get up to half as many spans more than it needs, as a cache may
  have no others. `rpaligned_realloc` is called with the old size or without it,
  and with or without `RPMALLOC_GROW_OR_FAIL`; `moved` is how many bytes a resizing
  brought along.

## 3. Runs

Bounds are the CONSTANTS of each `.cfg`; each is large enough for the cases named.

| run | instance | what it shows |
|---|---|---|
| `intmap` | 4 keys, one negative, on 2 slots; 3 nodes, 2 values | heads, middles and last nodes are unlinked; three keys share a slot; `BehavesAsMap` is the refinement of `MapSpec` |
| `buffers` | ints of 3 and longs of 4 bits, writes of 1 and 3 bytes, strings of 0 and 1, initial sizes 0-2; segments from elsewhere of up to 3 bytes of 3, and longer ones up to the 7 a long counts; separators of 0-3 bytes that overlap themselves | growth reaches the maximum and wraps around; failure at every growth; `BehavesAsLog` is the refinement of `ByteLog`; separators at every place; strings come back; the copy of `readHeapSegment` and the String of `readCStr` fail. Heap buffers are cut at 0 only, see the findings |
| `net` | 3 threads, 2 calls each | all races of constructor, `init`, `exit`, `addListener`, one thread calling twice included; every call returns |
| `poller_nodes` | 2 socket numbers, 3 nodes | a number is reused while events of its old node are still coming |
| `wepoll_handle` | 3 threads with 2 calls each, 2 ports, 2 handles; trees of up to 9 nodes | one closes, one uses, one reuses the handle; `epoll_close` returns; every addition and deletion on every tree |
| `wepoll_port` | 2 sockets, 3 `sock_state`s, 2 waiting threads, groups of 1 (so that three registrations make several groups, and a release must move its group back), batches of 2, 3 `epoll_ctl` calls, 1 failing system call; the `sock_state`s are symmetric | queues, polls, groups, deletion with a completion in flight, reopened sockets |
| `wepoll_level` | 2 sockets, 1 thread, 2 `epoll_ctl` calls, masks with `RDHUP` or `WRBAND` and `MSG`, a failed connect | the conversions agree; a lasting condition is reported |
| `rp_span` | 2 threads, 3 regions of 5 spans, 2 heaps to a region, a thread cache of 2 that hands over 1, a global cache of 1, requests of 1, 3 and 6 spans, 3 allocations, 3 thread starts; threads are symmetric | a region is cut, shared by two threads, cached in three levels and unmapped with its last part; an orphaned heap is adopted with huge spans deferred to it; the end leaves nothing |
| `rp_heap` | 2 threads, 2 heaps, 2 spans of 3 blocks, pages of 2, 4 allocations, 3 thread starts | a span fills, is freed by a stranger block by block while its owner frees too, is handed over, adopted, orphaned, finalised |
| `rp_size` | sizes at each limit of the source and some between, six alignments from 8 to the span size on either side of every limit, the page sizes and map granularities of three platforms | every sequence of allocation and resizing of one block, the old size given or not |
| `writebuffer_cut`, `wepoll_assert` | small | violations, section 5 |

Why the bounds are enough. A socket needs two `epoll_ctl` calls for an update to
meet a poll that is out and three to follow it by a deletion or a second
registration; two threads are what it takes for one to hold a batch while the
other polls; one failure is enough because a failing call changes nothing but the
error count. A tree of nine nodes has every shape a rotation or recoloring
looks at (a node, its parent, grandparent, uncle, sibling and the sibling's
children), at the root and one recursion below it. Three blocks on pages of two
give a span that is new, partly linked up, full, and full with its last page cut
short; three allocations of spans are what it takes to have a master outlived by
a part of its region while a third piece is in a cache. `RpSize` has no
counters to bound: its states are one block each.

`buffers` and `rp_size` have a `VIEW` without the histories of calls (`AllButCalls`)
and the bytes moved (`AllButMoved`): every action writes them and none reads them,
so states that differ in nothing else have the same steps, and properties of steps
are checked on each step before TLC looks whether it knows the state.

Symmetry is used where identities carry no order and no liveness is checked.
Deadlock is checked where a component can always be called again (the map, the
buffers, `RpSize`); elsewhere the bounded numbers of calls and of nodes run out
and the system stops, which `CHECK_DEADLOCK FALSE` allows.

Fairness:

- `Net`: a thread inside a call goes on (the scheduler is fair; a
  `ReentrantLock` that is free is taken by one of those waiting). Weak fairness
  of each thread suffices because calls are bounded: nobody can overtake for ever.
- `PollerNodes`: the poller thread, once in `close()`, finishes it.
- `WepollHandle`: threads that can run do, and closing a completion port wakes
  its waiters. Packets are not promised.
- `WepollPort`: the driver completes a poll whose condition holds, and a thread
  that has completions dequeues and feeds them. Nobody is obliged to call
  `epoll_wait`, so `EventsReported` speaks of times when a thread waits.
- `RpHeap`: a thread inside a call goes on. Weak fairness is enough for the
  spinning on a deferred list because the number of calls is bounded.

Each property of a passing run has a mutant: an operator next to the definition
it changes, marked `Mutant of`, which breaks the property.

## 4. Proofs

Every theorem holds for all values of the constants that satisfy the named
ASSUMEs of the modules; the runs evaluate those for their instance.

**IntMapProofs**: `Spec => []Inv`, for any integer keys, any values, any power of
two of slots up to 2^30 and any finite set of nodes. `Inv` is the conjunction of
`TypeOK`, `LinksOK`, `Reachable`, `CountOK` and `KeysUnique`. None is inductive
alone. Unlinking trusts `prev` and `next` (`LinksOK`), finds its node by a walk
(`Reachable`) and removes the key, not just an occurrence of it (`KeysUnique`,
which holds because of the caller's side, `FreshKey`). `Reachable` is the hard
part: a walk is a least closed set, so a node stays reachable after a change when
any set closed under the new links can be turned into one closed under the old
ones. `ChainsLinked`, `NoEntryLost` and `CountExact` state its parts.

The end of the module proves `Spec => BehavesAsMap` on top of `Inv`. What a caller sees is
told by the nodes: a key for each, the node's value under it (`SeenIs`). One
lemma per method maps it to its promise; `count()` and `asList()` need that
there are as many nodes as keys, a bijection.

**CoreProofs**, `Net`: `NetSpec => []RacesSafe` for any number of threads and calls:
at most one Net is made, `doInit` and `doExit` are called once at most and in this
order, the state word telling which have been, and a thread in a block of the
mutex is alone in it. Called is not entered the block, where `doExit` may be first
(section 5). The life cycle and the mutex carry themselves; `Singleton` does not,
it needs that
the flag has one winner, whose constructor has made the Net or may still throw
(`OneWinner`).

**CoreProofs**, `PollerNodes`: `EntryOwnsSocket`, `PutIsFresh` and `ClosedOnce`, for any
sockets and nodes. The strengthening says who owns a socket number where no
entry does: the node that is yet to be put, and the one whose `doClose()` is
pending (`Ownership`). That is what makes the reuse of numbers harmless.

**WepollHandleProofs**: `RefsExact`, `NoUseAfterFree`, `TreeLive` and
`NeverHappens`, for any threads, ports and handles. A count says how many threads
are in a port only together with who may still come: a port is in the tree, or
has one owner (`OneOwner`), the thread that made it or the one that took it
out to close it, which holds it open (`OwnerOpen`) until the flags of the
reflock say so (`LockOK`), and the last user signals once, to somebody who waits
(`SignalOK`).

**WepollPortProofs**: `QueuesOK`, `PollsOK`, `PollsExact`, `NoLostInterest`,
`GroupsOK`, `DeleteAsserts`, `OnlyWanted` and `TypeOK`, for any sockets and known
events and finitely many objects and threads. The invariant is
`PortOK(port, Flying)` with what ties the port to the driver and to the threads.
`PortOK` takes as a parameter the set `C` of sockets whose completion has been
dequeued and not fed yet, because the properties must hold between two
completions of one batch: feeding one frees objects, queues others and may poll
them again, while the rest of the batch still points at theirs. Its parts:

- `Structure`: the tree holds exactly the live sockets, each under its own name;
  the update queue holds live sockets, the delete queue all that are being
  deleted, none of them twice; the queue of poll groups has full groups first
  (`GroupQueueOK`; `poll_group_acquire` looks at the last group only) and each
  group counts the sockets that are in it (`CountsOK`);
- `SocksOK`: a socket's poll is idle exactly when the driver does not have it and
  `C` does not have its completion, and the driver is cancelling it exactly when
  the socket says so;
- `DeletingOK`: a socket in the delete queue has a completion to come, which will
  free it. Together with `SocksOK` this is what keeps the memory of a completion
  alive without its being freed twice;
- `ServedOK`: a live socket that is not queued for an update has a poll that
  watches all its user asked for, or one that is being cancelled;
- `ActiveOK`: `active_poll_threads_count` is the number of threads inside
  `epoll_wait`, and while one is there nothing is left to update unless a call
  has failed. `NoLostInterest` is `ServedOK` and `ActiveOK` put together; it is
  not inductive because `epoll_ctl` leaves the update to a thread that comes
  later when nobody waits.

The loops of the code (`port__update_events`, `port__feed_events`, the two of
`port_delete`) are recursive functions over a sequence. For each the proof shows
that the result is the end of a run of single steps and that each step keeps
`PortOK` with the completions that are left (`LoopHolds`).

**BuffersProofs**: `IndicesOK`, `ArenasOwned`, `ReadsInOrder` and
`FirstSeparator`, for any bytes, sizes and policies and any widths of int and
long. The strengthening is that a segment fits its block and a long can count it
(`Sound`); the argument for each call is that an index that wrapped around is
either refused or inside the memory there is by then. Of powers of two nothing is
used but that they are positive and grow with the exponent (`PowerAssumption`):
that follows by induction, which the provers do not do, so it is an assumption
that TLC evaluates.

`ReadsInOrder` says of a read that throws that it has consumed nothing, with the
two exceptions of the code: `readHeapSegment` off the heap and `readCStr` have
passed what they were to return when their copy or String fails.

The second part is the refinement of `ByteLog`, call by call (`LogStep`): the log
knows the call and its arguments, so each call has one lemma that says which bytes
the buffer has when it returns, and which when it throws. What a
writer promises is true of buffers whose heap ones are not truncated (`HeapUncut`,
an assumption on the offsets; the code breaks the promise otherwise, see the
findings), because then a heap segment starts where its array starts
(`FromStart`). It also needs that the length of what is written fits a long, as
the length of an array does: a longer one could wrap around to an index that is
positive again and too small (`WordAssumption`).

The third part is `RoundTrip`. A list of strings is tied to bytes by the
positions where each ends (`Encodes`): a write adds a position at the end, a read
goes from one to the next, since the first NUL after a position is the next one.
No recursive definition of an encoding is needed.

**RpHeapProofs**: `BlocksOK`, `NoLateTouch`, `SpansFound` and
`Reclaimed`, for any threads, spans and blocks and finitely many heaps. The
allocator gives a span up when two counters meet, `used_count` and `list_size`,
and other threads change the second while the owner reads it without the lock.
None of the four properties carries itself. The invariant says of each counter
which set of blocks it counts (`Counts`: `list_size` runs ahead of the deferred
list by the one thread that holds the lock and has counted), of each thread
inside a call which block it carries and that nobody else has it (`LocksOK`,
`CallOK`), and that a heap has one thread (`OwnersOK`). `CountersMeet` then turns
equal counts into "every block linked up is in one of the two lists", so that no
thread can be on the span but the one that is about to put the list back, for
which the owner waits (`sync`). `AllBack` does the same for a span that others
emptied. `NewOK` is a second, independent part: a thread that adopted spans
still has no block in its class when it takes one.

**RpSpanProofs**: `Conservation`, `HeapsKept` and `LeakFree`, for finitely many
threads, any regions and requests and any limits of the caches. A piece of memory
travels: program, deferred list, thread cache, the arguments of a call that hands
a cache over, global cache, overflow. The invariant puts each piece into a group
(`Group`: each heap, each global cache and overflow, each thread inside a call,
the program, the memory of the heaps themselves) and has four parts:

- `PlacesOK`: no piece is in two groups (`Disjoint`) or twice in one
  (`GroupsOnce`), different pieces share no span, and the count of a region is
  the number of spans its pieces have (`Accounted`). The last is why a piece
  can be cut in two with the count unchanged, and why the count is zero exactly
  when nothing is left, that is why no region goes with a piece still in it;
- `CallOK`: what a call still has to do, and in which order. A span found for an
  allocation is in nobody's list, so the call that carries it must end by taking
  it;
- `HeapsOK`: owners, orphans and the program's pieces name heaps that exist;
- `HeapsKept`, the count of the pieces in use and on their way back, is inductive
  once the others are known.

`Limited` bounds the global caches: the room left in one is computed under each of
the two locks of an insertion. Most steps touch one heap, one
thread and the caches of one span count: `StepKeeps` says what must be shown of
such a step, `GroupsApart` that the five groups it sees have nothing in common,
and each action has a lemma. The loop that adopts a deferred list keeps what is
between two of its turns (`Taken`, `TakeLoop`). `rpmalloc_finalize` empties every
group but the program's; `LeakFree` follows, because a region whose pieces are
all gone is not mapped. `Conservation` speaks of places rather than groups;
`HeldIs` shows that each piece of a group has one place. The assumptions are
those of the size classes (a request for one span of blocks, a large one of a
class, a huge one larger than any) and that `None` is none of the other values.

**RpSizeProofs**: `BlockOK` and `DataKept`, for any sizes, any powers of two up to
2^20 as alignments, and any page size below the span size and map granularity
that divide it. `BlockOK` says where the pointer lies; what a later resizing does
depends on what the block is, which `GoodBlock` says: a block of a class starts
`i` block sizes after the header of its span for some `i`, what is large or huge
has its pointer in its first span, blocks start at multiples of 16, and `_rpmalloc_unmap_os` works the region of a
huge block out as it was mapped. The arithmetic on which this stands:

- `SizeClassIs`: merging never changes a small class and only raises a medium
  one. A small block fits a span at least 63 times, a medium one of another
  class at most 42 times, so their counts differ (`CountIs`);
- `UnitIs`, `ClassIs`: the block size of the class of `n` is at least `n`, a
  multiple of 16, and a multiple of 128 if `n` is one, which is what alignments
  up to 128 trust;
- `HugeBlocksIs`: the offset to the next multiple of the span size is a multiple
  of 8, since the granularity is one, as the code asserts (`PlatformAssumption`);
- `NeverGivesUp`: the last number of pages the loop for large alignments tries
  always does, so it ends with a block;
- `SpansForIs`: the mask that is one bit off asks for a span too many at times,
  and never for one too few.

Sizes are natural numbers here: that the sums of a size near the largest one of
the machine wrap around is not modelled (section 6).

Only model-checked:

- the red-black tree: its loops are recursive operators, which are beyond the
  prover;
- what needs fairness (`CallsReturn`, `CallbackComes`, `CloseReturns`,
  `EventsReported`, `CallsEnd`), which is beyond the prover too.

## 5. Findings

- `WriteBuffer.java:229`: after `truncate(n)` a heap buffer that grows copies
  its array from 0 instead of from n (`writebuffer_cut`).
- `wepoll.c:1446`: an assertion fails when `epoll_ctl` races with `epoll_close`
  (`wepoll_assert`).

Met while modelling, where no text of the repository says otherwise:

- `Net.java:75`: `addListener` tests a word that nothing changes, so it accepts
  listeners after `exit`. A constructor that throws for its counts has taken the
  singleton flag (`Net.java:45`). `exit` may run `doExit` before `doInit`
  (`AbstractLifeCycle.java:35`).
- `State.java:41`: `unregister` compares with `> 0`, but masks with the sign bit
  give a negative number. Nothing calls it.
- `ProtocolPollerNode.java:88`: `close()` of a protocol node takes it from the
  map and releases nothing.
- `ReadBuffer.java:42`: `setReadIndex` refuses the size itself, where a reader
  that has read everything stands. `readCStr` returns null for an empty string.
- `wepoll.c:1189`: `epoll_ctl` drops the error of its update. A waiting thread
  can stray to another port when a handle is reused (`Strayed`).
- `rpmalloc.c`: after `rpmalloc_finalize` a heap whose last piece to be freed is
  small or huge keeps its own memory; only a large one tries again (`LateFree`).

## 6. Not modelled

- `Poller`, `Writer`: empty loops on threads never started. To be modelled when
  they do something, on top of `PollerNodes`.
- `State.register`, `unregister`, `set`, `cas`: no caller.
- Interfaces, records, constants, the library loader, logging: no state.
- The old buffer of a `truncate` that is written to again.
- The system call wrappers `lib_*.c`: one call each, without state. `wepoll`'s
  error tables and one-time initialisation: lookups, and one call under
  `InitOnceExecuteOnce`.
- Of `rpmalloc`: two threads racing for the first `rpmalloc_initialize`
  (`_rpmalloc_initialized` is a plain int; no Java code calls it yet),
  initialisation after `rpmalloc_finalize`, sizes within 128 bytes of
  `SIZE_MAX` (validation is compiled out), pages of 64 KiB and more and huge
  pages, and what the build leaves out: statistics, first-class heaps, preload,
  the global reserve (a main thread is never set, so that the lock is always
  taken).
- Timeouts have no clock: a wait may end whenever nothing is there to dequeue.
- `RPMALLOC_NO_PRESERVE`, which leaves out the copy of a resizing and nothing else:
  `DataKept` is about the resizings that copy.
- `errno` of `RpSize` is the variable of that name, and "no memory" where the code
  returns 0 without it: `rpposix_memalign` returns `ENOMEM` for every failure, an
  alignment it cannot do included, for which `errno` says `EINVAL`.
- What the driver does to requests of a port that is deleted.

## 7. Plan

Done: the modules above and the theorems of section 4.

Left, in order:

1. The poller and writer loops, when the source has them.
