----------------------------- MODULE PageCache -----------------------------
(***************************************************************************)
(* apollo::PageCache (mempool/pagecache.cc), which cuts the memory it gets *)
(* from sbrk into spans of pages, with its page map (radixtree.h) and its  *)
(* pool of Span objects (utilis.h), as a record and the functions its      *)
(* operations apply to it.  Each runs under the cache's mtx_, hence        *)
(* atomically.                                                             *)
(*                                                                         *)
(* A span is named by its object: the pool gives the memory of a freed     *)
(* Span to the next one, and the page map, which forgets nothing, may      *)
(* still lead to it.  The pages around what newSpan takes from sbrk, where *)
(* the pools and the nodes of the map live, are a gap of any of Gaps.      *)
(***************************************************************************)
EXTENDS Integers, Sequences, SequencesExt

kPageBucketSize == 129    \* spans of up to 128 pages are kept in lists
kPageSize       == 4096   \* 1 << kPageShift

kMaxPages == kPageBucketSize - 1

NewCache ==
  [brk        |-> 1,        \* the first page sbrk has not given out
   span       |-> <<>>,     \* every Span object there ever was
   pool       |-> <<>>,     \* span_pool_'s freelist_: those that are free
   spanlists_ |-> [n \in 1 .. kMaxPages |-> <<>>],
   hash_      |-> <<>>,     \* a function on the pages that have been set
   res        |-> 0]        \* the span newSpan has returned

FreshSpan(page, n) == [pageId_ |-> page, cnt_ |-> n, used_ |-> FALSE,
                       blockSize_ |-> 0, freelist_ |-> <<>>, useCnt_ |-> 0]

PagesOf(span) == span.pageId_ .. span.pageId_ + span.cnt_ - 1

-----------------------------------------------------------------------------
(* ObjectPool<Span> and RadixTree *)

\* alloc: the object freed last, or a new one
NextSpan(cache) ==
  IF cache.pool = <<>> THEN Len(cache.span) + 1 ELSE Head(cache.pool)

Alloc(cache, span) ==
  IF cache.pool = <<>>
  THEN [cache EXCEPT !.span = Append(@, span)]
  ELSE [cache EXCEPT !.span[Head(cache.pool)] = span, !.pool = Tail(@)]

\* free: the link to the next free object replaces the first word, pageId_;
\* everything else stays as it is.
Free(cache, s) == [cache EXCEPT !.span[s].pageId_ = 0, !.pool = <<s>> \o @]

Set(cache, pages, s) ==
  [cache EXCEPT !.hash_ = [p \in DOMAIN @ \cup pages |-> IF p \in pages THEN s ELSE @[p]]]

\* Mutant: only the ends of a span are mapped.
MapAllMutant(cache, s) ==
  LET span == cache.span[s]
  IN  Set(cache, {span.pageId_, span.pageId_ + span.cnt_ - 1}, s)

\* Every page of a span that is handed out leads to it, ...
MapAll(cache, s) == Set(cache, PagesOf(cache.span[s]), s)

\* ... and the two ends of one that is kept.
MapEnds(cache, s) ==
  LET span == cache.span[s]
  IN  Set(cache, {span.pageId_, span.pageId_ + span.cnt_ - 1}, s)

PushFront(cache, s) == [cache EXCEPT !.spanlists_[cache.span[s].cnt_] = <<s>> \o @]
PopFront(cache, n)  == [cache EXCEPT !.spanlists_[n] = Tail(@)]
Place(list, s)      == CHOOSE k \in DOMAIN list : list[k] = s
Erase(cache, s)     == [cache EXCEPT !.spanlists_[cache.span[s].cnt_] =
                          RemoveAt(@, Place(@, s))]

-----------------------------------------------------------------------------
(* newSpan *)

\* A span too large for the lists comes from sbrk; its first page is mapped.
NewHugeSpan(cache, n, gap) ==
  LET page == cache.brk + gap
      s    == NextSpan(cache)
  IN  Set(Alloc([cache EXCEPT !.brk = page + n, !.res = s], FreshSpan(page, n)),
          {page}, s)

\* None of the lists has a large enough span: 128 pages more.
Grow(cache, gap) ==
  LET page == cache.brk + gap
      s    == NextSpan(cache)
  IN  PushFront(Alloc([cache EXCEPT !.brk = page + kMaxPages],
                      FreshSpan(page, kMaxPages)), s)

Fitting(cache, n) == {m \in n .. kMaxPages : cache.spanlists_[m] # <<>>}

TakeSpan(cache, n) ==
  LET s == Head(cache.spanlists_[n])
  IN  [MapAll(PopFront(cache, n), s) EXCEPT !.res = s]

\* Mutant: what is left of the span still begins where it began.
SplitSpanMutant(cache, n) ==
  LET m     == Min(Fitting(cache, n))
      nSpan == Head(cache.spanlists_[m])
      kSpan == NextSpan(cache)
      cut   == [Alloc(PopFront(cache, m), FreshSpan(cache.span[nSpan].pageId_, n))
                  EXCEPT !.span[nSpan].cnt_ = @ - n]
  IN  [MapAll(MapEnds(PushFront(cut, nSpan), nSpan), kSpan) EXCEPT !.res = kSpan]

\* The first n pages of the smallest span that is larger
SplitSpan(cache, n) ==
  LET m     == Min(Fitting(cache, n))
      nSpan == Head(cache.spanlists_[m])
      kSpan == NextSpan(cache)
      cut   == [Alloc(PopFront(cache, m), FreshSpan(cache.span[nSpan].pageId_, n))
                  EXCEPT !.span[nSpan].pageId_ = @ + n,
                         !.span[nSpan].cnt_ = @ - n]
  IN  [MapAll(MapEnds(PushFront(cut, nSpan), nSpan), kSpan) EXCEPT !.res = kSpan]

NewSpan(cache, n, gap) ==
  IF n > kMaxPages THEN NewHugeSpan(cache, n, gap)
  ELSE LET grown == IF Fitting(cache, n) = {} THEN Grow(cache, gap) ELSE cache
       IN  IF grown.spanlists_[n] # <<>> THEN TakeSpan(grown, n)
                                         ELSE SplitSpan(grown, n)

\* What every caller does with the new span before it releases mtx_
Hand(cache, n, gap, size) ==
  LET new == NewSpan(cache, n, gap)
  IN  [new EXCEPT !.span[new.res].used_ = TRUE, !.span[new.res].blockSize_ = size]

-----------------------------------------------------------------------------
(* mapToSpan and revertSpanToPageCache *)

Mapped(cache, page) == page \in DOMAIN cache.hash_

MapToSpan(cache, address) == cache.hash_[address \div kPageSize]

\* The span a page leads to can be joined to s.
Joins(cache, s, page) ==
  /\ Mapped(cache, page)
  /\ LET other == cache.span[cache.hash_[page]]
     IN  ~other.used_ /\ other.cnt_ + cache.span[s].cnt_ <= kMaxPages

Previous(cache, s) == cache.span[s].pageId_ - 1
Following(cache, s) == cache.span[s].pageId_ + cache.span[s].cnt_

\* Mutant: the size of the span before is not added.
JoinPreviousMutant(cache, s) ==
  LET p == cache.hash_[Previous(cache, s)]
  IN  Free(Erase([cache EXCEPT !.span[s].pageId_ = cache.span[p].pageId_], p), p)

JoinPrevious(cache, s) ==
  LET p == cache.hash_[Previous(cache, s)]
  IN  Free(Erase([cache EXCEPT !.span[s].pageId_ = cache.span[p].pageId_,
                               !.span[s].cnt_ = @ + cache.span[p].cnt_], p), p)

JoinFollowing(cache, s) ==
  LET f == cache.hash_[Following(cache, s)]
  IN  Free(Erase([cache EXCEPT !.span[s].cnt_ = @ + cache.span[f].cnt_], f), f)

JoinBack(cache, s) ==
  IF Joins(cache, s, Previous(cache, s)) THEN JoinPrevious(cache, s) ELSE cache
JoinOn(cache, s) ==
  IF Joins(cache, s, Following(cache, s)) THEN JoinFollowing(cache, s) ELSE cache

\* The two loops, one after the other: each turn frees a Span, so neither has
\* more turns than there are Spans.
JoinAll(cache, s) ==
  LET spans == Len(cache.span)
      turn[n \in 0 .. 2 * spans] ==
        IF n = 0 THEN cache
        ELSE IF n <= spans THEN JoinBack(turn[n - 1], s)
                           ELSE JoinOn(turn[n - 1], s)
  IN  turn[2 * spans]

\* Mutant: the span stays marked as used.
RevertSpanMutant(cache, s) == MapEnds(PushFront(JoinAll(cache, s), s), s)

\* A huge span is given back with brk(2), which makes it the end of the heap.
RevertSpan(cache, s) ==
  IF cache.span[s].cnt_ > kMaxPages
  THEN Free([cache EXCEPT !.brk = cache.span[s].pageId_], s)
  ELSE LET joined == JoinAll(cache, s)
           free   == [joined EXCEPT !.span[s].used_ = FALSE]
       IN  MapEnds(PushFront(free, s), s)
=============================================================================
