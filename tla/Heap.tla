-------------------------------- MODULE Heap --------------------------------
(***************************************************************************)
(* The allocator behind operator new and delete (mempool/): concurrentAlloc *)
(* and concurrentFree, the ThreadCache of each thread, CentralCache, and   *)
(* the PageCache below them.                                               *)
(*                                                                         *)
(* A thread's cache and a span's freelist_ are sequences of addresses.  A  *)
(* FreeList's maxSize_ is 1 and nothing changes it, nor do push and pop    *)
(* change its size_: so a thread takes one object at a time from           *)
(* CentralCache and never gives one back, which leaves pushRange and       *)
(* releaseList without a caller.                                           *)
(*                                                                         *)
(* fetchRangeObj holds the lock of its bucket, but for the part of         *)
(* getOneSpan that gets and cuts a new span: it is one action if the       *)
(* bucket has a span with an object left, else three.                      *)
(***************************************************************************)
EXTENDS PageCache, SizeClasses, FiniteSets

CONSTANTS Threads,
          Requests,     \* sizes asked for, in bytes
          Gaps,         \* pages others take from sbrk before a span
          FreesHuge,    \* whether spans too large for the lists are freed
          MaxHeld,      \* bound: blocks handed out at a time
          MaxPage,      \* bound: pages the heap may grow to
          MaxSpans      \* bound: spans that are cut into small blocks

Buckets == {Index(bytes) : bytes \in {b \in Requests : b <= kMaxBytes}}

ASSUME RequestsAssumption == Requests \subseteq Nat \ {0}
ASSUME GapsAssumption == Gaps \subseteq Nat

VARIABLES
  cache,     \* PageCache
  central,   \* CentralCache::spanlists_
  tls,       \* threads that have a ThreadCache
  freelists, \* the FreeLists of each
  fetching,  \* the spans a thread is about to add to CentralCache, if any
  held       \* the blocks the program has, where and of how many bytes, in
             \* the order it got them

vars == <<cache, central, tls, freelists, fetching, held>>

Idle == [bytes |-> 0, span |-> 0]

Init ==
  /\ cache = NewCache
  /\ central = [i \in Buckets |-> <<>>]
  /\ tls = {}
  /\ freelists = [t \in Threads |-> [i \in Buckets |-> <<>>]]
  /\ fetching = [t \in Threads |-> Idle]
  /\ held = <<>>

Address(page) == page * kPageSize

Block(ptr, bytes) == [ptr |-> ptr, bytes |-> bytes]

MayAlloc(t) == fetching[t] = Idle /\ Len(held) < MaxHeld

-----------------------------------------------------------------------------
(* concurrentAlloc *)

\* More than 256 KB: a span of its own.
AllocLarge(t, bytes) ==
  /\ MayAlloc(t)
  /\ bytes > kMaxBytes
  /\ \E gap \in Gaps :
       cache' = Hand(cache, RoundUp(bytes) \div kPageSize, gap, bytes)
  /\ cache'.brk <= MaxPage
  /\ held' = Append(held, Block(Address(cache'.span[cache'.res].pageId_), bytes))
  /\ UNCHANGED <<central, tls, freelists, fetching>>

\* ThreadCache::allocate finds an object in the thread's own list.
AllocCached(t, bytes) ==
  /\ MayAlloc(t)
  /\ bytes <= kMaxBytes
  /\ LET i == Index(bytes)
     IN  /\ freelists[t][i] # <<>>
         /\ held' = Append(held, Block(Head(freelists[t][i]), bytes))
         /\ freelists' = [freelists EXCEPT ![t][i] = Tail(@)]
  /\ UNCHANGED <<cache, central, tls, fetching>>

HasObject(s) == cache.span[s].freelist_ # <<>>

\* Mutant: the object stays in the span's list as well.
TakeObjectMutant(s, bytes) ==
  /\ held' = Append(held, Block(Head(cache.span[s].freelist_), bytes))
  /\ cache' = [cache EXCEPT !.span[s].useCnt_ = @ + 1]

\* The end of fetchRangeObj: one object of span s goes to the program.
TakeObject(s, bytes) ==
  /\ held' = Append(held, Block(Head(cache.span[s].freelist_), bytes))
  /\ cache' = [cache EXCEPT !.span[s].freelist_ = Tail(@), !.span[s].useCnt_ = @ + 1]

NeedsObject(t, bytes) ==
  /\ MayAlloc(t)
  /\ bytes <= kMaxBytes
  /\ freelists[t][Index(bytes)] = <<>>

\* fetchRangeObj when getOneSpan finds a span with an object in the bucket
Fetch(t, bytes) ==
  /\ NeedsObject(t, bytes)
  /\ LET list == central[Index(bytes)]
     IN  \E k \in DOMAIN list :
           /\ HasObject(list[k]) /\ \A j \in 1 .. k - 1 : ~HasObject(list[j])
           /\ TakeObject(list[k], bytes)
  /\ tls' = tls \cup {t}
  /\ UNCHANGED <<central, freelists, fetching>>

SmallSpans == {s \in 1 .. Len(cache.span) : cache.span[s].blockSize_ \in 1 .. kMaxBytes}

\* getOneSpan finds none and releases the bucket.
FindNoSpan(t, bytes) ==
  /\ NeedsObject(t, bytes)
  /\ Cardinality(SmallSpans) + Cardinality({u \in Threads : fetching[u] # Idle}) < MaxSpans
  /\ \A s \in Range(central[Index(bytes)]) : ~HasObject(s)
  /\ fetching' = [fetching EXCEPT ![t].bytes = bytes]
  /\ tls' = tls \cup {t}
  /\ UNCHANGED <<cache, central, freelists, held>>

\* The objects a span is cut into, in the order of their addresses: one begins
\* wherever the span has a byte left.
Cuts(span) ==
  [k \in 1 .. (Address(span.cnt_) - 1) \div span.blockSize_ + 1 |->
     Address(span.pageId_) + (k - 1) * span.blockSize_]

Objects(span) == Range(Cuts(span))

\* Under the lock of PageCache a span is made; it is cut without a lock.
GetSpan(t) ==
  /\ fetching[t].bytes > 0 /\ fetching[t].span = 0
  /\ LET size == RoundUp(fetching[t].bytes)
     IN  \E gap \in Gaps :
           LET new == Hand(cache, NumMovePage(size), gap, size)
           IN  /\ new.brk <= MaxPage
               /\ cache' = [new EXCEPT !.span[new.res].freelist_ = Cuts(new.span[new.res])]
               /\ fetching' = [fetching EXCEPT ![t].span = new.res]
  /\ UNCHANGED <<central, tls, freelists, held>>

\* With the bucket locked again the span is put in front and an object taken.
AddSpan(t) ==
  /\ fetching[t].span # 0
  /\ LET bytes == fetching[t].bytes
         s     == fetching[t].span
     IN  /\ central' = [central EXCEPT ![Index(bytes)] = <<s>> \o @]
         /\ TakeObject(s, bytes)
  /\ fetching' = [fetching EXCEPT ![t] = Idle]
  /\ UNCHANGED <<tls, freelists>>

-----------------------------------------------------------------------------
(* concurrentFree *)

\* The block's class is found through the page map, without a lock.  A thread
\* without a ThreadCache must not free a small block: an assertion says so.
FreeSmall(t, i) ==
  /\ fetching[t] = Idle
  /\ t \in tls
  /\ LET size == cache.span[MapToSpan(cache, held[i].ptr)].blockSize_
     IN  /\ size <= kMaxBytes
         /\ freelists' = [freelists EXCEPT ![t][Index(size)] = <<held[i].ptr>> \o @]
  /\ held' = RemoveAt(held, i)
  /\ UNCHANGED <<cache, central, tls, fetching>>

FreeLarge(t, i) ==
  /\ fetching[t] = Idle
  /\ LET s == MapToSpan(cache, held[i].ptr)
     IN  /\ cache.span[s].blockSize_ > kMaxBytes
         /\ cache.span[s].cnt_ > kMaxPages => FreesHuge
         /\ cache' = RevertSpan(cache, s)
  /\ held' = RemoveAt(held, i)
  /\ UNCHANGED <<central, tls, freelists, fetching>>

-----------------------------------------------------------------------------
Next ==
  \E t \in Threads :
    \/ \E bytes \in Requests : \/ AllocLarge(t, bytes) \/ AllocCached(t, bytes)
                               \/ Fetch(t, bytes) \/ FindNoSpan(t, bytes)
    \/ GetSpan(t) \/ AddSpan(t)
    \/ \E i \in DOMAIN held : FreeSmall(t, i) \/ FreeLarge(t, i)

Spec == Init /\ [][Next]_vars

-----------------------------------------------------------------------------
(* Properties *)

SpanIds == 1 .. Len(cache.span)

TypeOK ==
  /\ cache.brk \in 1 .. MaxPage
  /\ \A s \in SpanIds :
       LET span == cache.span[s]
       IN  /\ span.pageId_ \in 0 .. MaxPage /\ span.cnt_ \in 1 .. MaxPage
           /\ span.used_ \in BOOLEAN
           /\ span.blockSize_ \in Nat /\ span.useCnt_ \in Nat
           /\ span.freelist_ \in Seq(Nat)
  /\ Range(cache.pool) \subseteq SpanIds
  /\ cache.spanlists_ \in [1 .. kMaxPages -> Seq(SpanIds)]
  /\ Range(cache.hash_) \subseteq SpanIds
  /\ central \in [Buckets -> Seq(SpanIds)]
  /\ tls \subseteq Threads
  /\ freelists \in [Threads -> [Buckets -> Seq(Nat)]]
  /\ fetching \in [Threads -> [bytes : Requests \cup {0}, span : SpanIds \cup {0}]]
  /\ held \in Seq([ptr : Nat, bytes : Requests])

\* Two blocks the program has do not overlap, and both are in the heap.
HandedOutDisjoint ==
  \A i \in DOMAIN held :
    /\ held[i].ptr + held[i].bytes <= Address(cache.brk)
    /\ \A j \in DOMAIN held \ {i} : \/ held[i].ptr + held[i].bytes <= held[j].ptr
                                    \/ held[j].ptr + held[j].bytes <= held[i].ptr

\* The page map leads from a block to the span it was cut from, and so to the
\* class it was taken from: concurrentFree, which does not know the size that
\* was asked for, returns it there.
FreeFindsClass ==
  \A block \in Range(held) :
    /\ Mapped(cache, block.ptr \div kPageSize)
    /\ LET span == cache.span[MapToSpan(cache, block.ptr)]
       IN  /\ span.used_
           /\ IF block.bytes <= kMaxBytes
              THEN block.ptr \in Objects(span) /\ span.blockSize_ = RoundUp(block.bytes)
              ELSE block.ptr = Address(span.pageId_) /\ span.blockSize_ = block.bytes

CachedBy(t) == UNION {Range(freelists[t][i]) : i \in Buckets}

\* Every object of a span is in one place: in the span's list, in one thread's
\* cache or with the program; useCnt_ counts those that are not in the list.
ObjectsInOnePlace ==
  /\ \A t, u \in Threads : t # u => CachedBy(t) \cap CachedBy(u) = {}
  /\ \A t \in Threads, i \in Buckets : IsInjective(freelists[t][i])
  /\ \A i \in Buckets : \A s \in Range(central[i]) :
       LET span == cache.span[s]
           out  == {block.ptr : block \in Range(held)}
           away == Objects(span) \cap (out \cup UNION {CachedBy(t) : t \in Threads})
       IN  /\ Objects(span) \ away = Range(span.freelist_)
           /\ IsInjective(span.freelist_)
           /\ out \cap UNION {CachedBy(t) : t \in Threads} = {}
           /\ span.useCnt_ = Cardinality(away)

LiveSpans == SpanIds \ Range(cache.pool)

\* PageCache's lists hold the spans that are not in use, each under its size
\* and reached from both its ends; no two spans share a page.
FreeSpansListed ==
  /\ \A n \in 1 .. kMaxPages : \A s \in Range(cache.spanlists_[n]) :
       /\ s \in LiveSpans /\ ~cache.span[s].used_ /\ cache.span[s].cnt_ = n
       /\ cache.hash_[cache.span[s].pageId_] = s
       /\ cache.hash_[cache.span[s].pageId_ + n - 1] = s
  /\ \A s \in LiveSpans :
       ~cache.span[s].used_ => s \in Range(cache.spanlists_[cache.span[s].cnt_])
  /\ \A s, r \in LiveSpans :
       s # r => PagesOf(cache.span[s]) \cap PagesOf(cache.span[r]) = {}

\* Cutting and joining spans loses no page.
NoPageLost ==
  [][UNION {PagesOf(cache.span[s]) : s \in LiveSpans}
       \subseteq UNION {PagesOf(cache'.span[s]) : s \in LiveSpans'}]_vars
=============================================================================
