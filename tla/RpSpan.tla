------------------------------- MODULE RpSpan -------------------------------
(***************************************************************************)
(* c/rpmalloc.c, the spans: how regions of memory are mapped, cut into     *)
(* pieces, used, freed by their owner or by another thread, cached in a    *)
(* heap and in the global caches, and given back to the system.            *)
(*                                                                         *)
(* A piece is span_count spans at an offset of a mapped region; the one at *)
(* offset 0 is the master, whose remaining_spans counts what of the region *)
(* is not unmapped yet. A thread carries out one call at a time, kept as   *)
(* the sequence of what it still has to do; each step makes one access to  *)
(* what threads share (a deferred list, a global cache under its lock, the *)
(* orphans under the global lock, remaining_spans) with the work on the    *)
(* thread's own heap that goes with it. External: the memory of the system.*)
(***************************************************************************)
EXTENDS Integers, FiniteSets, SequencesExt

CONSTANTS
  Thread,
  Regions,     \* how many regions the system can map at once
  MapCount,    \* _memory_span_map_count: spans mapped at a time
  HeapBatch,   \* request_heap_count: heaps in one region
  CacheLimit,  \* where a thread cache hands over to the global cache
  Transfer,    \* how many spans it hands over, and wants back
  GlobalLimit, \* cache_limit of a global cache
  Requests,    \* the <<kind, span count>>s that are allocated
  MaxAllocs,   \* bounds the allocations
  MaxInits,    \* bounds the calls of rpmalloc_thread_initialize()
  None

ASSUME LimitAssumption ==
  /\ Regions \in Nat /\ MapCount \in Nat \ {0, 1} /\ HeapBatch \in Nat \ {0}
  /\ CacheLimit \in Nat /\ Transfer \in 1 .. CacheLimit /\ GlobalLimit \in Nat
  /\ MaxAllocs \in Nat /\ MaxInits \in Nat

LargeCount == MapCount - 1      \* LARGE_CLASS_COUNT
Region == 1 .. Regions
Heap == Region \X (1 .. HeapBatch)

(* A span of blocks is one span, a large one has a class, a huge one none. *)
ASSUME RequestAssumption ==
  Requests \subseteq ({"small"} \X {1}) \cup ({"large"} \X (1 .. LargeCount))
                       \cup ({"huge"} \X (Nat \ (0 .. LargeCount)))

ASSUME ThreadAssumption ==
  IsFiniteSet(Thread) /\ None \notin Thread \cup Heap \cup [r : Region, off : Nat, n : Nat]

VARIABLES
  remaining,  \* mapped region -> remaining_spans of its master
  heap,       \* heap -> its heap_t, in the memory of its region
  orphans,    \* _memory_orphan_heaps
  global,     \* span count -> span[] of its global cache
  overflow,   \* span count -> overflow of its global cache
  used,       \* pieces the program holds, with their heap and kind
  mine,       \* thread -> its heap (thread-local)
  at,         \* thread -> the heap it is working on
  todo,       \* thread -> the rest of its call
  got,        \* thread -> the piece found for it
  finalized,  \* "no", or "done" after rpmalloc_finalize()
  calls       \* allocations and initialisations so far

memory  == <<remaining, heap, orphans, global, overflow, used>>
threads == <<mine, at, todo, got>>
vars    == <<memory, threads, finalized, calls>>

Piece(r, off, n) == [r |-> r, off |-> off, n |-> n]
IsMaster(p) == p.off = 0
Use(p, h, kind) == [p |-> p, h |-> h, kind |-> kind]

(* The spans of a heap_t; `class` is the cache of one size class.          *)
NewHeap == [owner |-> None, cache |-> [n \in 1 .. LargeCount |-> <<>>],
            class |-> None, reserve |-> None, deferred |-> <<>>, busy |-> 0]

Init ==
  /\ remaining = [r \in {} |-> 0]
  /\ heap = [h \in {} |-> NewHeap]
  /\ orphans = <<>>
  /\ global = [n \in 1 .. LargeCount |-> <<>>]
  /\ overflow = [n \in 1 .. LargeCount |-> <<>>]
  /\ used = {}
  /\ mine = [t \in Thread |-> None]
  /\ at = [t \in Thread |-> None]
  /\ todo = [t \in Thread |-> <<>>]
  /\ got = [t \in Thread |-> None]
  /\ finalized = "no"
  /\ calls = [alloc |-> 0, init |-> 0]
---------------------------------------------------------------------------
(* What a thread has to do: `do` names it, n is a span count, ps the       *)
(* pieces it is about, keep those it holds back and slot how far it is.    *)
Task(do, n, ps) == [do |-> do, n |-> n, ps |-> ps, keep |-> <<>>, slot |-> 0]

Doing(t, do) == todo[t] # <<>> /\ Head(todo[t]).do = do
Now(t) == Head(todo[t])
Then(t, tasks) == todo' = [todo EXCEPT ![t] = tasks \o Tail(@)]
Idle(t) == todo[t] = <<>>

(* _rpmalloc_span_unmap(): the last of a region's pieces takes the region  *)
(* along. remaining_spans is decremented atomically.                       *)
Unmapped(rem, p) ==
  IF rem[p.r] - p.n <= 0
  THEN [r \in DOMAIN rem \ {p.r} |-> rem[r]]
  ELSE [rem EXCEPT ![p.r] = @ - p.n]

(* Op over the members of q from the first to the last: a loop of the      *)
(* code, as a function that the proofs can look into.                      *)
Each(Op(_, _), x, q) ==
  LET after[i \in 0 .. Len(q)] == IF i = 0 THEN x ELSE Op(after[i - 1], q[i])
  IN  after[Len(q)]

UnmappedAll(rem, ps) == Each(Unmapped, rem, ps)

(* _rpmalloc_mmap(): out of memory when every region is mapped.            *)
FreeRegions == Region \ DOMAIN remaining
NextRegion == CHOOSE r \in FreeRegions : \A s \in FreeRegions : r <= s
Mapped(r, n) == [s \in DOMAIN remaining \cup {r} |-> IF s = r THEN n ELSE remaining[s]]

(* _rpmalloc_heap_cache_insert() of one or more pieces: what a full thread *)
(* cache hands over is left to the tasks in `tasks`.                       *)
CacheInsert(ht, p) ==
  LET all == Append(ht.cache[p.n], p)
      left == CacheLimit - Transfer
  IN  IF Len(all) < CacheLimit
      THEN [ht |-> [ht EXCEPT !.cache[p.n] = all], tasks |-> <<>>]
      ELSE [ht |-> [ht EXCEPT !.cache[p.n] = SubSeq(all, 1, left)],
            tasks |-> <<Task("global insert", p.n, SubSeq(all, left + 1, Len(all)))>>]

(* The owner frees directly, as everybody does once the heap is finalised. *)
DeferOrNot(t, h) == heap[h].owner # t /\ finalized = "no"

(* _rpmalloc_deallocate_defer_free_span()                                  *)
Deferred(h, u) == [heap EXCEPT ![h].deferred = <<u>> \o @]
---------------------------------------------------------------------------
(* Mutant of TakeOne: a huge span adopted is unmapped and still counted.   *)
TakeUncounted(t, single, acc, u) ==
  LET ins == CacheInsert(acc.ht, u.p)
  IN  CASE u.kind = "huge" /\ DeferOrNot(t, u.h) ->
             [acc EXCEPT !.tasks = Append(@, Task("defer", 0, <<u>>))]
        [] u.kind = "huge" /\ ~DeferOrNot(t, u.h) ->
             [acc EXCEPT !.rem = Unmapped(@, u.p)]
        [] u.kind # "huge" /\ single /\ u.p.n = 1 /\ acc.got = None ->
             [acc EXCEPT !.ht.busy = @ - 1, !.got = u.p]
        [] OTHER ->
             [acc EXCEPT !.ht = [ins.ht EXCEPT !.busy = @ - 1], !.tasks = @ \o ins.tasks]

(* One span of a list of deferred ones. The first single span answers a    *)
(* caller that wants one; another goes to the cache. A huge one goes       *)
(* through _rpmalloc_deallocate_huge(), which defers it again while the    *)
(* heap has no owner yet.                                                  *)
TakeOne(t, single, acc, u) ==
  LET ins == CacheInsert(acc.ht, u.p)
  IN  CASE u.kind = "huge" /\ DeferOrNot(t, u.h) ->
             [acc EXCEPT !.tasks = Append(@, Task("defer", 0, <<u>>))]
        [] u.kind = "huge" /\ ~DeferOrNot(t, u.h) ->
             [acc EXCEPT !.ht.busy = @ - 1, !.rem = Unmapped(@, u.p)]
        [] u.kind # "huge" /\ single /\ u.p.n = 1 /\ acc.got = None ->
             [acc EXCEPT !.ht.busy = @ - 1, !.got = u.p]
        [] OTHER ->
             [acc EXCEPT !.ht = [ins.ht EXCEPT !.busy = @ - 1], !.tasks = @ \o ins.tasks]

(* _rpmalloc_heap_cache_adopt_deferred(): takes the whole list at once.    *)
AdoptDeferred(t, single) ==
  LET h == at[t]
      Take(acc, u) == TakeOne(t, single, acc, u)
  IN  Each(Take, [ht |-> [heap[h] EXCEPT !.deferred = <<>>],
                  got |-> None, rem |-> remaining, tasks |-> <<>>],
           heap[h].deferred)

Adopt(t) ==
  /\ Doing(t, "adopt")
  /\ LET took == AdoptDeferred(t, Now(t).n = 1)
     IN  /\ heap' = [heap EXCEPT ![at[t]] = took.ht]
         /\ got' = [got EXCEPT ![t] = took.got]
         /\ remaining' = took.rem
         /\ Then(t, took.tasks)
  /\ UNCHANGED <<orphans, global, overflow, used, mine, at, finalized>>

DeferAgain(t) ==
  /\ Doing(t, "defer")
  /\ heap' = Deferred(at[t], Now(t).ps[1])
  /\ Then(t, <<>>)
  /\ UNCHANGED <<remaining, orphans, global, overflow, used, mine, at, got, finalized>>
---------------------------------------------------------------------------
(* The lock of a global cache is held across steps only by KeepInCache.    *)
Locked(n) == \E t \in Thread : Doing(t, "keep") /\ Now(t).n = n /\ Now(t).slot > 0

(* _rpmalloc_global_cache_insert_spans(), first lock: up to the limit.     *)
GlobalInsert(t) ==
  /\ Doing(t, "global insert")
  /\ LET n == Now(t).n
         fit == Min({Len(Now(t).ps), GlobalLimit - Len(global[n])})
     IN  /\ ~Locked(n)
         /\ global' = [global EXCEPT ![n] = @ \o SubSeq(Now(t).ps, 1, fit)]
         /\ Then(t, IF fit = Len(Now(t).ps) THEN <<>>
                    ELSE <<[Now(t) EXCEPT !.do = "sort", !.ps = SubSeq(@, fit + 1, Len(@))]>>)
  /\ UNCHANGED <<remaining, heap, orphans, overflow, used, mine, at, got, finalized>>

(* Nobody but this piece is left of the region it is master of.            *)
LastOfRegion(p) == remaining[p.r] <= p.n

(* Outside the lock: a master with pieces elsewhere is held back, what     *)
(* else did not fit is unmapped.                                           *)
SortRest(t) ==
  /\ Doing(t, "sort")
  /\ LET p == Head(Now(t).ps)
         hold == IsMaster(p) /\ ~LastOfRegion(p)
         keep == IF hold THEN <<p>> \o Now(t).keep ELSE Now(t).keep
         rest == [Now(t) EXCEPT !.ps = Tail(@), !.keep = keep]
     IN  /\ Then(t, CASE rest.ps # <<>> -> <<rest>>
                      [] rest.ps = <<>> /\ keep # <<>> -> <<[rest EXCEPT !.do = "keep"]>>
                      [] OTHER -> <<>>)
         /\ remaining' = IF hold THEN remaining ELSE Unmapped(remaining, p)
  /\ UNCHANGED <<heap, orphans, global, overflow, used, mine, at, got, finalized>>

(* Second lock: slot by slot, a master held back takes the place of a      *)
(* piece that can be unmapped; those without a slot go to the overflow.    *)
KeepInCache(t) ==
  /\ Doing(t, "keep")
  /\ LET n == Now(t).n
         i == Now(t).slot
         keep == Now(t).keep
         p == global[n][i]
     IN  CASE i = 0 ->
                /\ ~Locked(n)
                /\ Then(t, <<[Now(t) EXCEPT !.slot = 1]>>)
                /\ UNCHANGED <<remaining, global, overflow>>
           [] i > 0 /\ (keep = <<>> \/ i > Len(global[n])) ->
                /\ overflow' = [overflow EXCEPT ![n] = keep \o @]
                /\ Then(t, <<>>)
                /\ UNCHANGED <<remaining, global>>
           [] OTHER ->
                /\ IF ~IsMaster(p) \/ LastOfRegion(p)
                   THEN /\ remaining' = Unmapped(remaining, p)
                        /\ global' = [global EXCEPT ![n][i] = Head(keep)]
                        /\ Then(t, <<[Now(t) EXCEPT !.keep = Tail(@)]>>)
                   ELSE /\ Then(t, <<[Now(t) EXCEPT !.slot = @ + 1]>>)
                        /\ UNCHANGED <<remaining, global>>
                /\ UNCHANGED overflow
  /\ UNCHANGED <<heap, orphans, used, mine, at, got, finalized>>
---------------------------------------------------------------------------
(* _rpmalloc_heap_allocate(): an orphan, or a region of new heaps of which *)
(* the first is the caller's and the others are orphans.                   *)
ThreadInit(t) ==
  /\ Idle(t) /\ mine[t] = None /\ finalized = "no" /\ calls.init < MaxInits
  /\ calls' = [calls EXCEPT !.init = @ + 1]
  /\ IF orphans # <<>>
     THEN /\ at' = [at EXCEPT ![t] = Head(orphans)]
          /\ orphans' = Tail(orphans)
          /\ UNCHANGED <<remaining, heap>>
     ELSE /\ FreeRegions # {}
          /\ LET new == {NextRegion} \X (1 .. HeapBatch)
             IN  /\ remaining' = Mapped(NextRegion, 1)
                 /\ heap' = [h \in DOMAIN heap \cup new |-> IF h \in new THEN NewHeap ELSE heap[h]]
                 /\ orphans' = [i \in 1 .. HeapBatch - 1 |-> <<NextRegion, HeapBatch + 1 - i>>]
                 /\ at' = [at EXCEPT ![t] = <<NextRegion, 1>>]
  /\ todo' = [todo EXCEPT ![t] = <<Task("adopt", 0, <<>>), Task("own", 0, <<>>)>>]
  /\ UNCHANGED <<global, overflow, used, mine, got, finalized>>

(* set_thread_heap(): only now the thread is the owner.                    *)
Own(t) ==
  /\ Doing(t, "own")
  /\ heap' = [heap EXCEPT ![at[t]].owner = t]
  /\ mine' = [mine EXCEPT ![t] = at[t]]
  /\ Then(t, <<>>)
  /\ UNCHANGED <<remaining, orphans, global, overflow, used, at, got, finalized>>

(* rpmalloc_thread_finalize(1): _rpmalloc_heap_release() with its caches.  *)
ThreadFinalize(t) ==
  /\ Idle(t) /\ mine[t] # None /\ finalized = "no"
  /\ at' = [at EXCEPT ![t] = mine[t]]
  /\ todo' = [todo EXCEPT ![t] = <<Task("adopt", 0, <<>>), Task("release", 0, <<>>)>>]
  /\ UNCHANGED <<memory, mine, got, finalized, calls>>

(* What the heap has cached goes to the global caches; then comes          *)
(* set_thread_heap(0) and _rpmalloc_heap_orphan() under the global lock.   *)
ThreadRelease(t) ==
  /\ Doing(t, "release")
  /\ LET cache == heap[at[t]].cache
         full == {n \in DOMAIN cache : cache[n] # <<>>}
     IN  IF full # {}
         THEN /\ heap' = [heap EXCEPT ![at[t]].cache[Min(full)] = <<>>]
              /\ todo' = [todo EXCEPT ![t] =
                   <<Task("global insert", Min(full), cache[Min(full)])>> \o @]
              /\ UNCHANGED <<mine, orphans>>
         ELSE /\ mine' = [mine EXCEPT ![t] = None]
              /\ heap' = [heap EXCEPT ![at[t]].owner = None]
              /\ orphans' = <<at[t]>> \o orphans
              /\ Then(t, <<>>)
  /\ UNCHANGED <<remaining, global, overflow, used, at, got, finalized>>
---------------------------------------------------------------------------
(* The end of an allocation: the piece is the program's. Kinds are small   *)
(* (and medium), large and huge; `busy` stands for full_span_count and the *)
(* spans in the lists of the size classes.                                 *)
Give(t, h, p, kind, ht) ==
  /\ used' = used \cup {Use(p, h, kind)}
  /\ heap' = [heap EXCEPT ![h] = [ht EXCEPT !.busy = @ + 1]]
  /\ todo' = [todo EXCEPT ![t] = <<>>]
  /\ got' = [got EXCEPT ![t] = None]

(* _rpmalloc_heap_extract_new_span() looks for n spans: in the thread      *)
(* cache, or else there again after adopting what others freed, and so on  *)
(* in Extract. The request is the task's keep, its own count the slot.     *)
Look(t, h, ht, n, base, kind) ==
  IF ht.cache[n] # <<>>
  THEN Give(t, h, Last(ht.cache[n]), kind, [ht EXCEPT !.cache[n] = Front(@)])
  ELSE /\ todo' = [todo EXCEPT ![t] =
            <<Task("adopt", IF n = 1 THEN 1 ELSE 0, <<>>),
              [Task("extract", n, <<>>) EXCEPT !.slot = base, !.keep = kind]>>]
       /\ UNCHANGED <<used, heap, got>>

(* A small span may be in the cache of its size class, which is then       *)
(* refilled from the thread cache. A huge allocation adopts, and maps.     *)
Alloc(t, kind, n) ==
  /\ Idle(t) /\ mine[t] # None /\ finalized = "no" /\ calls.alloc < MaxAllocs
  /\ calls' = [calls EXCEPT !.alloc = @ + 1]
  /\ at' = [at EXCEPT ![t] = mine[t]]
  /\ LET ht == heap[mine[t]]
         one == ht.cache[1]
     IN  CASE kind = "small" /\ ht.class # None ->
                /\ used' = used \cup {Use(ht.class, mine[t], kind)}
                /\ heap' = [heap EXCEPT ![mine[t]] =
                     [ht EXCEPT !.busy = @ + 1,
                                !.class = IF one = <<>> THEN None ELSE Last(one),
                                !.cache[1] = IF one = <<>> THEN one ELSE Front(one)]]
                /\ UNCHANGED <<todo, got>>
           [] kind = "huge" ->
                /\ todo' = [todo EXCEPT ![t] =
                     <<Task("adopt", 0, <<>>), Task("map huge", n, <<>>)>>]
                /\ UNCHANGED <<used, heap, got>>
           [] OTHER -> Look(t, mine[t], ht, n, n, kind)
  /\ UNCHANGED <<remaining, orphans, global, overflow, mine, finalized>>

(* Cutting n spans from a piece leaves the rest, or nothing.               *)
Cut(p, n) == IF p.n = n THEN None ELSE Piece(p.r, p.off + n, p.n - n)

(* The search goes on with a larger count, up to half as much again.       *)
SearchLimit(base) == IF base > 2 THEN Min({base + base \div 2, LargeCount}) ELSE base

(* _rpmalloc_heap_thread_cache_deferred_extract(), then                    *)
(* _rpmalloc_heap_global_cache_extract(), whose spans replace those of the *)
(* thread cache, then _rpmalloc_heap_reserved_extract(), then more spans.  *)
Extract(t) ==
  /\ Doing(t, "extract")
  /\ LET n == Now(t).n
         base == Now(t).slot
         kind == Now(t).keep
         ht == heap[at[t]]
         g == global[n]
         o == overflow[n]
         want == Min({Transfer, Len(g)})
         more == Min({Transfer - want, Len(o)})
         out == SubSeq(g, Len(g) - want + 1, Len(g)) \o SubSeq(o, 1, more)
     IN  CASE got[t] # None -> Give(t, at[t], got[t], kind, ht) /\ UNCHANGED <<global, overflow>>
           [] got[t] = None /\ ht.cache[n] # <<>> ->
                Look(t, at[t], ht, n, base, kind) /\ UNCHANGED <<global, overflow>>
           [] OTHER ->
                /\ ~Locked(n)
                /\ global' = [global EXCEPT ![n] = SubSeq(g, 1, Len(g) - want)]
                /\ overflow' = [overflow EXCEPT ![n] = SubSeq(o, more + 1, Len(o))]
                /\ CASE out # <<>> ->
                          Give(t, at[t], Last(out), kind, [ht EXCEPT !.cache[n] = Front(out)])
                     [] out = <<>> /\ ht.reserve # None /\ ht.reserve.n >= n ->
                          Give(t, at[t], [ht.reserve EXCEPT !.n = n], kind,
                               [ht EXCEPT !.reserve = Cut(@, n)])
                     [] out = <<>> /\ (ht.reserve = None \/ ht.reserve.n < n)
                          /\ n < SearchLimit(base) -> Look(t, at[t], ht, n + 1, base, kind)
                     [] OTHER -> /\ Then(t, <<[Now(t) EXCEPT !.do = "map", !.n = base]>>)
                                 /\ UNCHANGED <<used, heap, got>>
  /\ UNCHANGED <<remaining, orphans, mine, at, finalized>>

(* _rpmalloc_span_map_aligned_count(): a new region, of which the rest is  *)
(* the new reserve; an old reserve goes to the cache.                      *)
MapSpans(t) ==
  /\ Doing(t, "map")
  /\ LET n == Now(t).n
         ht == heap[at[t]]
         ins == IF ht.reserve = None THEN [ht |-> ht, tasks |-> <<>>]
                                     ELSE CacheInsert(ht, ht.reserve)
         p == Piece(NextRegion, 0, n)
     IN  IF FreeRegions = {}
         THEN Then(t, <<>>) /\ UNCHANGED <<remaining, heap, got>>
         ELSE /\ remaining' = Mapped(NextRegion, MapCount)
              /\ heap' = [heap EXCEPT ![at[t]] =
                   [ins.ht EXCEPT !.reserve = Cut([p EXCEPT !.n = MapCount], n)]]
              /\ got' = [got EXCEPT ![t] = p]
              /\ Then(t, ins.tasks \o <<[Now(t) EXCEPT !.do = "extract"]>>)
  /\ UNCHANGED <<orphans, global, overflow, used, mine, at, finalized>>

(* _rpmalloc_allocate_huge(): a region of its own, without a reserve.      *)
MapHuge(t) ==
  /\ Doing(t, "map huge")
  /\ IF FreeRegions = {}
     THEN Then(t, <<>>) /\ UNCHANGED <<remaining, heap, used, got>>
     ELSE /\ remaining' = Mapped(NextRegion, Now(t).n)
          /\ Give(t, at[t], Piece(NextRegion, 0, Now(t).n), "huge", heap[at[t]])
  /\ UNCHANGED <<orphans, global, overflow, mine, at, finalized>>
---------------------------------------------------------------------------
(* Mutant of BecomesReserve: the reserve there is would be overwritten.    *)
BecomesReserveAnyway(ht, u) == u.kind = "large" /\ u.p.n > 1 /\ ht.cache[1] = <<>>

(* set_as_reserved in _rpmalloc_deallocate_large()                         *)
BecomesReserve(ht, u) ==
  u.kind = "large" /\ u.p.n > 1 /\ ht.cache[1] = <<>> /\ ht.reserve = None

(* What the owner's free does to its heap: a huge region is unmapped; a    *)
(* small span goes to the cache of its class and the one that was there to *)
(* the thread cache; a large one becomes the reserve or is cached.         *)
DirectFree(t, u) ==
  LET ht == [heap[u.h] EXCEPT !.busy = @ - 1]
      ins == CASE u.kind = "huge" -> [ht |-> ht, tasks |-> <<>>]
               [] u.kind = "small" ->
                    LET old == IF ht.class = None THEN [ht |-> ht, tasks |-> <<>>]
                                                  ELSE CacheInsert(ht, ht.class)
                    IN  [old EXCEPT !.ht.class = u.p]
               [] BecomesReserve(ht, u) ->
                    [ht |-> [ht EXCEPT !.reserve = u.p], tasks |-> <<>>]
               [] OTHER -> CacheInsert(ht, u.p)
  IN  /\ heap' = [heap EXCEPT ![u.h] = ins.ht]
      /\ at' = [at EXCEPT ![t] = u.h]
      /\ todo' = [todo EXCEPT ![t] = ins.tasks]
      /\ remaining' = IF u.kind = "huge" THEN Unmapped(remaining, u.p) ELSE remaining

(* _rpmalloc_deallocate() of the last block of a span, by any thread.      *)
Free(t, u) ==
  /\ Idle(t) /\ finalized = "no"
  /\ used' = used \ {u}
  /\ IF DeferOrNot(t, u.h)
     THEN heap' = Deferred(u.h, u) /\ UNCHANGED <<remaining, at, todo>>
     ELSE DirectFree(t, u)
  /\ UNCHANGED <<orphans, global, overflow, mine, got, finalized, calls>>
---------------------------------------------------------------------------
PieceSeq(p) == IF p = None THEN <<>> ELSE <<p>>
Joined(qs) == Each(\o, <<>>, qs)

(* Mutant of IdlePieces: the reserve is forgotten.                         *)
CachedPieces(ht) ==
  Joined(ht.cache) \o PieceSeq(ht.class)
    \o [i \in 1 .. Len(ht.deferred) |-> ht.deferred[i].p]

(* What a heap holds that nobody uses.                                     *)
IdlePieces(ht) ==
  Joined(ht.cache) \o PieceSeq(ht.class) \o PieceSeq(ht.reserve)
    \o [i \in 1 .. Len(ht.deferred) |-> ht.deferred[i].p]

(* _rpmalloc_heap_global_finalize(), _rpmalloc_heap_finalize() and         *)
(* _rpmalloc_heap_unmap() of some heaps ht: everything idle is unmapped; a *)
(* heap with a piece in use stays, and the memory of a batch of heaps goes *)
(* with the last of the batch.                                             *)
FinalizeHeaps(ht, rem) ==
  LET idle == Joined([i \in 1 .. Cardinality(DOMAIN ht) |->
                            IdlePieces(ht[SetToSeq(DOMAIN ht)[i]])])
      Busy(h) == ht[h].busy - Len(ht[h].deferred)
      stay == {h \in DOMAIN ht : Busy(h) # 0} \cup (DOMAIN heap \ DOMAIN ht)
      gone == {h[1] : h \in DOMAIN ht} \ {h[1] : h \in stay}
  IN  /\ heap' = [h \in stay |-> IF h \in DOMAIN ht THEN [NewHeap EXCEPT !.busy = Busy(h)]
                                                    ELSE heap[h]]
      /\ remaining' = UnmappedAll(rem, idle \o SetToSeq({Piece(r, 0, 1) : r \in gone}))

(* rpmalloc_finalize(), when every thread is done, this one by its first   *)
(* line: the heaps, then the global caches.                                *)
Finalize ==
  /\ finalized = "no"
  /\ \A t \in Thread : todo[t] = <<>> /\ mine[t] = None
  /\ FinalizeHeaps(heap, UnmappedAll(remaining, Joined(global) \o Joined(overflow)))
  /\ global' = [n \in DOMAIN global |-> <<>>]
  /\ overflow' = [n \in DOMAIN overflow |-> <<>>]
  /\ finalized' = "done"
  /\ UNCHANGED <<orphans, used, threads, calls>>

(* A free after the end: unmapped at once, and after a large span the heap *)
(* tries again to go.                                                      *)
LateFree(u) ==
  /\ finalized = "done" /\ u \in used
  /\ used' = used \ {u}
  /\ LET ht == [heap[u.h] EXCEPT !.busy = @ - 1]
         left == Unmapped(remaining, u.p)
     IN  IF u.kind = "large"
         THEN FinalizeHeaps([h \in {u.h} |-> ht], left)
         ELSE heap' = [heap EXCEPT ![u.h] = ht] /\ remaining' = left
  /\ UNCHANGED <<orphans, global, overflow, threads, finalized, calls>>
---------------------------------------------------------------------------
Continue(t) ==
  /\ UNCHANGED calls
  /\ \/ Adopt(t) \/ DeferAgain(t) \/ Own(t) \/ ThreadRelease(t)
     \/ GlobalInsert(t) \/ SortRest(t) \/ KeepInCache(t)
     \/ Extract(t) \/ MapSpans(t) \/ MapHuge(t)

Call(t) ==
  \/ ThreadInit(t) \/ ThreadFinalize(t)
  \/ \E q \in Requests : Alloc(t, q[1], q[2])
  \/ \E u \in used : Free(t, u)

Next ==
  \/ \E t \in Thread : Call(t) \/ Continue(t)
  \/ Finalize
  \/ \E u \in used : LateFree(u)

Spec == Init /\ [][Next]_vars
---------------------------------------------------------------------------
(* Where pieces are: places and the sequences of pieces there.             *)
Places ==
  (UNION {{<<"cache", h, n, heap[h].cache[n]>> : n \in 1 .. LargeCount} : h \in DOMAIN heap})
  \cup {<<"class", h, 1, PieceSeq(heap[h].class)>> : h \in DOMAIN heap}
  \cup {<<"reserve", h, 1, PieceSeq(heap[h].reserve)>> : h \in DOMAIN heap}
  \cup {<<"deferred", h, 1, [i \in DOMAIN heap[h].deferred |-> heap[h].deferred[i].p]>> :
          h \in DOMAIN heap}
  \cup {<<"heaps", r, 1, <<Piece(r, 0, 1)>> >> : r \in {h[1] : h \in DOMAIN heap}}
  \cup {<<"global", 0, n, global[n]>> : n \in 1 .. LargeCount}
  \cup {<<"overflow", 0, n, overflow[n]>> : n \in 1 .. LargeCount}
  \cup {<<"used", u, 1, <<u.p>> >> : u \in used}
  \cup {<<"got", t, 1, PieceSeq(got[t])>> : t \in Thread}
  \cup UNION { {<<"task", t, i,
         (IF todo[t][i].do = "defer" THEN [j \in DOMAIN todo[t][i].ps |-> todo[t][i].ps[j].p]
                                    ELSE todo[t][i].ps)
           \o (IF todo[t][i].do \in {"sort", "keep"} THEN todo[t][i].keep ELSE <<>>)>> :
         i \in DOMAIN todo[t]} : t \in Thread}

Held == UNION { {<<q, i>> : i \in DOMAIN q[4]} : q \in Places}
PieceAt(x) == x[1][4][x[2]]
Spans(p) == p.off .. p.off + p.n - 1

(* No span is in two places at once, in a cache and in use, say, or used   *)
(* twice; and remaining_spans of a mapped region counts exactly the spans  *)
(* that are somewhere, so that a region is unmapped with its last span,    *)
(* never sooner and never later.                                           *)
Conservation ==
  /\ \A x \in Held : PieceAt(x).r \in DOMAIN remaining
  /\ \A r \in DOMAIN remaining :
       LET here == {x \in Held : PieceAt(x).r = r}
           Count(x) == PieceAt(x).n
       IN  /\ remaining[r] = MapThenSumSet(Count, here)
           /\ remaining[r] = Cardinality(UNION {Spans(PieceAt(x)) : x \in here})

(* A heap is kept for as long as a piece of it is in use or on its way     *)
(* back: the count that decides it is exact, through frees by strangers,   *)
(* adoption by another thread and orphanage.                               *)
HeapsKept ==
  /\ \A u \in used : u.h \in DOMAIN heap
  /\ \A h \in DOMAIN heap :
       heap[h].busy = Cardinality({u \in used : u.h = h}) + Len(heap[h].deferred)
         + Cardinality(UNION { {<<t, i>> : i \in {j \in DOMAIN todo[t] :
                                  todo[t][j].do = "defer" /\ at[t] = h}} : t \in Thread})

(* When rpmalloc_finalize() finds nothing in use it leaves nothing mapped, *)
(* not even heaps, whoever freed what into whichever list.                 *)
LeakFree ==
  [][finalized = "no" /\ finalized' = "done" /\ used = {}
       => DOMAIN remaining' = {}]_vars
=============================================================================
