----------------------------- MODULE HeapProofs -----------------------------
(***************************************************************************)
(* For every set of threads, requests and gaps in the heap: a block goes   *)
(* back to the class it was taken from, the spans that are not in use are  *)
(* listed, no page is lost, no object is in two places, and the blocks the *)
(* program has lie apart.                                                  *)
(*                                                                         *)
(* The argument has three parts.  Good says what PageCache relies on: its  *)
(* spans lie apart, those not in use are each in the list of their size,   *)
(* and the page map leads to a span from all pages it is looked up by.     *)
(* Two sets are exceptions, which the steps inside an operation need: the  *)
(* spans in no list (Y) and those that are not mapped yet (X).  HeapIs     *)
(* adds what CentralCache, the FreeLists and the program have: objects of  *)
(* spans in use, of the class they are kept under.  PlacedIs adds that     *)
(* every object is in one place and that useCnt_ counts those that left.   *)
(*                                                                         *)
(* Both are invariants if no span is too large for the lists or none of    *)
(* those is freed (~FreesHuge): revertSpan gives such a span back with     *)
(* brk(2), and every span above it with it.                                *)
(***************************************************************************)
EXTENDS Heap, SequenceTheorems, FiniteSetTheorems, WellFoundedInduction, TLAPS

-----------------------------------------------------------------------------
(* Sequences *)

\* ConcatProperties, with the lengths as they are known.
LEMMA ConcatAt ==
  ASSUME NEW S, NEW s \in Seq(S), NEW t \in Seq(S), NEW m, NEW n, Len(s) = m, Len(t) = n
  PROVE  /\ s \o t \in Seq(S) /\ Len(s \o t) = m + n
         /\ \A i \in 1 .. m + n : (s \o t)[i] = IF i <= m THEN s[i] ELSE t[i - m]
BY ConcatProperties

\* The n elements behind the first k
LEMMA SubSeqAt ==
  ASSUME NEW S, NEW s \in Seq(S), NEW k \in Nat, NEW n \in Nat, k + n <= Len(s)
  PROVE  /\ SubSeq(s, k + 1, k + n) \in Seq(S)
         /\ Len(SubSeq(s, k + 1, k + n)) = n
         /\ \A i \in 1 .. n : SubSeq(s, k + 1, k + n)[i] = s[k + i]
<1> DEFINE t == SubSeq(s, k + 1, k + n)
<1>1. \A i \in k + 1 .. k + n : s[i] \in S
  <2>1. Len(s) \in Nat
    BY LenProperties
  <2>2. \A i \in k + 1 .. k + n : i \in 1 .. Len(s)
    BY <2>1
  <2> QED BY <2>2, ElementOfSeq
<1>2. /\ t \in Seq(S)
      /\ Len(t) = IF k + 1 <= k + n THEN (k + n) - (k + 1) + 1 ELSE 0
      /\ \A i \in 1 .. (k + n) - (k + 1) + 1 : t[i] = s[(k + 1) + i - 1]
  <2> DEFINE p == k + 1
             q == k + n
  <2>1. p \in Int /\ q \in Int /\ \A i \in p .. q : s[i] \in S
    BY <1>1
  <2> HIDE DEF p, q
  <2>2. /\ SubSeq(s, p, q) \in Seq(S)
        /\ Len(SubSeq(s, p, q)) = IF p <= q THEN q - p + 1 ELSE 0
        /\ \A i \in 1 .. q - p + 1 : SubSeq(s, p, q)[i] = s[p + i - 1]
    BY <2>1, SubSeqProperties
  <2> QED BY <2>2 DEF p, q
<1> HIDE DEF t
<1>3. (k + n) - (k + 1) + 1 = n /\ (k + 1 <= k + n <=> n # 0)
  OBVIOUS
<1>4. \A i \in 1 .. n : (k + 1) + i - 1 = k + i
  OBVIOUS
<1>5. Len(t) = n
  BY <1>2, <1>3
<1>6. \A i \in 1 .. n : t[i] = s[k + i]
  BY <1>2, <1>3, <1>4
<1> QED BY <1>2, <1>5, <1>6 DEF t

\* What a queue holds once e is pushed
LEMMA Pushed ==
  ASSUME NEW S, NEW s \in Seq(S), NEW e \in S
  PROVE  /\ Append(s, e) \in Seq(S)
         /\ DOMAIN Append(s, e) = DOMAIN s \cup {Len(s) + 1} /\ Len(s) + 1 \notin DOMAIN s
         /\ \A i \in DOMAIN s : Append(s, e)[i] = s[i]
         /\ Append(s, e)[Len(s) + 1] = e
<1>1. DOMAIN s = 1 .. Len(s) /\ Len(s) \in Nat
  BY LenProperties
<1>2. DOMAIN Append(s, e) = 1 .. Len(s) + 1
  BY AppendProperties, LenProperties
<1> QED BY <1>1, <1>2, AppendProperties

\* and once its head is popped
LEMMA Popped ==
  ASSUME NEW S, NEW s \in Seq(S), s # <<>>
  PROVE  /\ Tail(s) \in Seq(S)
         /\ 1 \in DOMAIN s /\ s[1] = Head(s) /\ Head(s) \in S
         /\ \A i \in DOMAIN Tail(s) : i + 1 \in DOMAIN s /\ i + 1 # 1 /\ Tail(s)[i] = s[i + 1]
         /\ \A j \in DOMAIN s : j = 1 \/ (j - 1 \in DOMAIN Tail(s) /\ Tail(s)[j - 1] = s[j])
<1>1. /\ DOMAIN s = 1 .. Len(s) /\ Len(s) \in Nat \ {0}
      /\ Tail(s) \in Seq(S) /\ Len(Tail(s)) = Len(s) - 1
      /\ \A i \in 1 .. Len(Tail(s)) : Tail(s)[i] = s[i + 1]
  BY LenProperties, EmptySeq, HeadTailProperties
<1>2. DOMAIN Tail(s) = 1 .. Len(s) - 1
  BY <1>1, LenProperties
<1>3. s[1] = Head(s) /\ Head(s) \in S
  BY <1>1, HeadTailProperties
<1> QED BY <1>1, <1>2, <1>3
-----------------------------------------------------------------------------
(* Size classes *)

\* What a ThreadCache serves
Sizes == {b \in Nat : b >= 1 /\ b <= kMaxBytes}

\* A size in one of the five ranges.  Within a range the alignment is the same
\* and both results follow from one division.
InRange(b, low, high, align, first) ==
  /\ low < b /\ b <= high
  /\ Align(b) = align
  /\ RoundUp(b) = ((b + align - 1) \div align) * align
  /\ Index(b) = (b - low + align - 1) \div align - 1 + first

\* The five ranges of sizes, with the alignment and the first class of each
LEMMA Ranges ==
  ASSUME NEW b \in Sizes
  PROVE  \/ InRange(b, 0, 128, 8, 0)
         \/ InRange(b, 128, 1024, 16, 16)
         \/ InRange(b, 1024, 8192, 128, 72)
         \/ InRange(b, 8192, 65536, 1024, 128)
         \/ InRange(b, 65536, 262144, 8192, 184)
<1> USE DEF Sizes, InRange, RoundUp, RoundUpTo, Align, Index, IndexIn, kMaxBytes
<1>1. CASE b <= 128
  BY <1>1
<1>2. CASE b > 128 /\ b <= 1024
  BY <1>2
<1>3. CASE b > 1024 /\ b <= 8192
  BY <1>3
<1>4. CASE b > 8192 /\ b <= 65536
  BY <1>4
<1>5. CASE b > 65536
  BY <1>5
<1> QED BY <1>1, <1>2, <1>3, <1>4, <1>5

\* A block is at least as large as asked for, by less than the alignment more,
\* and no larger than what a cache keeps.
THEOREM RoundUpFits ==
  ASSUME NEW b \in Sizes
  PROVE  /\ RoundUp(b) \in Sizes
         /\ b <= RoundUp(b)
         /\ RoundUp(b) < b + Align(b)
BY Ranges DEF Sizes, InRange, kMaxBytes

\* Every size has one of the kBucketSize lists.
THEOREM IndexInRange ==
  ASSUME NEW b \in Sizes
  PROVE  Index(b) \in Nat /\ Index(b) < kBucketSize
BY Ranges DEF Sizes, InRange, kMaxBytes, kBucketSize

\* concurrentFree finds the list a block was taken from, though it knows only
\* the size the block was rounded up to.
THEOREM FreedWhereTaken ==
  ASSUME NEW b \in Sizes
  PROVE  Index(RoundUp(b)) = Index(b)
<1> DEFINE r == RoundUp(b)
<1>1. r \in Sizes
  BY RoundUpFits
<1>2. CASE InRange(b, 0, 128, 8, 0)
  <2>1. InRange(r, 0, 128, 8, 0)
    BY <1>1, <1>2, Ranges DEF Sizes, InRange
  <2> QED BY <1>2, <2>1 DEF Sizes, InRange
<1>3. CASE InRange(b, 128, 1024, 16, 16)
  <2>1. InRange(r, 128, 1024, 16, 16)
    BY <1>1, <1>3, Ranges DEF Sizes, InRange
  <2> QED BY <1>3, <2>1 DEF Sizes, InRange
<1>4. CASE InRange(b, 1024, 8192, 128, 72)
  <2>1. InRange(r, 1024, 8192, 128, 72)
    BY <1>1, <1>4, Ranges DEF Sizes, InRange
  <2> QED BY <1>4, <2>1 DEF Sizes, InRange
<1>5. CASE InRange(b, 8192, 65536, 1024, 128)
  <2>1. InRange(r, 8192, 65536, 1024, 128)
    BY <1>1, <1>5, Ranges DEF Sizes, InRange
  <2> QED BY <1>5, <2>1 DEF Sizes, InRange
<1>6. CASE InRange(b, 65536, 262144, 8192, 184)
  <2>1. InRange(r, 65536, 262144, 8192, 184)
    BY <1>1, <1>6, Ranges DEF Sizes, InRange
  <2> QED BY <1>6, <2>1 DEF Sizes, InRange
<1> QED BY <1>2, <1>3, <1>4, <1>5, <1>6, Ranges

\* All blocks of one list have one size: none is too small for its next user.
THEOREM OneSizePerClass ==
  ASSUME NEW a \in Sizes, NEW b \in Sizes, Index(a) = Index(b)
  PROVE  RoundUp(a) = RoundUp(b)
BY Ranges DEF Sizes, InRange

\* getOneSpan asks newSpan for a span that is kept in the lists (and so mapped
\* page by page, which a larger one is not) and that holds at least one object.
THEOREM SpanOfClassIsListed ==
  ASSUME NEW size \in Sizes, size >= 8
  PROVE  /\ NumMovePage(size) >= 1 /\ NumMovePage(size) <= 128
         /\ size <= NumMovePage(size) * 4096
<1> DEFINE num == kMaxBytes \div size
           bytes == NumMoveSize(size) * size
<1>1. num \in Nat /\ num * size <= kMaxBytes
  BY SMTT(60) DEF Sizes, kMaxBytes
<1>2. bytes \in Nat /\ bytes <= 524288
  BY <1>1, SMTT(60) DEF Sizes, kMaxBytes, NumMoveSize
<1>3. bytes >= 2 * size
  BY <1>1, SMTT(60) DEF Sizes, kMaxBytes, NumMoveSize
<1> HIDE DEF num, bytes
<1>4. NumMovePage(size) = IF bytes \div 4096 = 0 THEN 1 ELSE bytes \div 4096
  BY DEF NumMovePage, bytes
<1> QED BY <1>2, <1>3, <1>4 DEF Sizes, kMaxBytes

-----------------------------------------------------------------------------
(* Sequences *)

\* A sequence without repetitions
Distinct(s) == \A i, j \in DOMAIN s : s[i] = s[j] => i = j

\* Distinct is the IsInjective of the community modules.
LEMMA DistinctIsInjective == \A s : IsInjective(s) <=> Distinct(s)
BY DEF IsInjective, Distinct

\* The sequence q is s with e put in front.
IsPush(s, e, q) ==
  /\ Range(q) = Range(s) \cup {e}
  /\ Distinct(s) /\ e \notin Range(s) => Distinct(q)
  /\ q # <<>> /\ Head(q) = e

\* A sequence with an element put in front, as SpanList and FreeList do
LEMMA PushIs ==
  ASSUME NEW S, NEW s \in Seq(S), NEW e \in S
  PROVE  <<e>> \o s \in Seq(S) /\ IsPush(s, e, <<e>> \o s)
<1> DEFINE q == <<e>> \o s
           m == Len(s)
<1>1. m \in Nat /\ DOMAIN s = 1 .. m
  BY LenProperties
<1>2. <<e>> \in Seq(S) /\ Len(<<e>>) = 1 /\ <<e>>[1] = e
  OBVIOUS
<1>3. /\ q \in Seq(S) /\ Len(q) = 1 + m
      /\ \A i \in 1 .. 1 + m : q[i] = IF i <= 1 THEN <<e>>[i] ELSE s[i - 1]
  BY <1>2, ConcatAt
<1>4. DOMAIN q = 1 .. 1 + m
  BY <1>3, LenProperties
<1>5. q # <<>> /\ Head(q) = q[1]
  BY <1>1, <1>3, EmptySeq, HeadTailProperties
<1> HIDE DEF q, m
<1>6. q[1] = e /\ \A i \in 1 .. m : q[i + 1] = s[i]
  <2>1. q[1] = e
    BY <1>1, <1>2, <1>3
  <2>2. ASSUME NEW i \in 1 .. m PROVE q[i + 1] = s[i]
    <3>1. i + 1 \in 1 .. 1 + m /\ ~(i + 1 <= 1) /\ (i + 1) - 1 = i
      BY <1>1
    <3> QED BY <1>3, <3>1
  <2> QED BY <2>1, <2>2
<1>7. \A i \in DOMAIN q : i = 1 \/ (i - 1 \in DOMAIN s /\ q[i] = s[i - 1])
  <2> SUFFICES ASSUME NEW i \in DOMAIN q, i # 1 PROVE i - 1 \in DOMAIN s /\ q[i] = s[i - 1]
    OBVIOUS
  <2>1. i - 1 \in 1 .. m /\ (i - 1) + 1 = i
    BY <1>1, <1>4
  <2> QED BY <1>1, <1>6, <2>1
<1>8. 1 \in DOMAIN q /\ \A i \in DOMAIN s : i + 1 \in DOMAIN q
  BY <1>1, <1>4
<1>9. Range(q) = Range(s) \cup {e}
  BY <1>1, <1>6, <1>7, <1>8 DEF Range
<1>10. Distinct(s) /\ e \notin Range(s) => Distinct(q)
  <2> SUFFICES ASSUME Distinct(s), e \notin Range(s), NEW i \in DOMAIN q, NEW j \in DOMAIN q, q[i] = q[j]
               PROVE  i = j
    BY DEF Distinct
  <2>1. \A k \in DOMAIN s : s[k] # e
    BY DEF Range
  <2>2. i \in Int /\ j \in Int
    BY <1>1, <1>4
  <2>3. CASE i = 1 \/ j = 1
    BY <1>6, <1>7, <2>1, <2>3
  <2>4. CASE i # 1 /\ j # 1
    <3>1. i - 1 = j - 1
      BY <1>7, <2>4 DEF Distinct
    <3> QED BY <2>2, <3>1
  <2> QED BY <2>3, <2>4
<1> QED BY <1>3, <1>5, <1>6, <1>9, <1>10 DEF IsPush, q

\* The sequence q is s, which does not repeat, without e.
IsDrop(s, e, q) ==
  /\ e \in Range(s)
  /\ Distinct(s) => Range(q) = Range(s) \ {e} /\ Distinct(q)

\* A sequence without its first element
LEMMA PopIs ==
  ASSUME NEW S, NEW s \in Seq(S), s # <<>>
  PROVE  Head(s) \in S /\ Tail(s) \in Seq(S) /\ IsDrop(s, Head(s), Tail(s))
<1> DEFINE q == Tail(s)
<1>1. /\ q \in Seq(S)
      /\ 1 \in DOMAIN s /\ s[1] = Head(s) /\ Head(s) \in S
      /\ \A i \in DOMAIN q : i + 1 \in DOMAIN s /\ i + 1 # 1 /\ q[i] = s[i + 1]
      /\ \A j \in DOMAIN s : j = 1 \/ (j - 1 \in DOMAIN q /\ q[j - 1] = s[j])
  BY Popped
<1>2. DOMAIN q \subseteq Int
  BY <1>1, LenProperties
<1> HIDE DEF q
<1>3. Head(s) \in Range(s)
  BY <1>1 DEF Range
<1>4. ASSUME Distinct(s) PROVE Range(q) = Range(s) \ {Head(s)} /\ Distinct(q)
  <2>1. \A i \in DOMAIN q : q[i] \in Range(s) /\ q[i] # Head(s)
    BY <1>1, <1>4 DEF Range, Distinct
  <2>2. \A j \in DOMAIN s : s[j] = Head(s) \/ s[j] \in Range(q)
    BY <1>1 DEF Range
  <2>3. Range(q) = Range(s) \ {Head(s)}
    BY <2>1, <2>2 DEF Range
  <2>4. \A i, j \in DOMAIN q : q[i] = q[j] => i + 1 = j + 1
    BY <1>1, <1>4 DEF Distinct
  <2> QED BY <1>2, <2>3, <2>4 DEF Distinct
<1> QED BY <1>1, <1>3, <1>4 DEF IsDrop, q

\* What RemoveAt leaves, element by element
LEMMA RemoveAtIs ==
  ASSUME NEW S, NEW s \in Seq(S), NEW k \in DOMAIN s
  PROVE  /\ RemoveAt(s, k) \in Seq(S) /\ Len(RemoveAt(s, k)) = Len(s) - 1
         /\ \A i \in DOMAIN RemoveAt(s, k) :
              /\ i \in DOMAIN s /\ i + 1 \in DOMAIN s
              /\ RemoveAt(s, k)[i] = IF i < k THEN s[i] ELSE s[i + 1]
<1> DEFINE m == Len(s)
           h == SubSeq(s, 1, k - 1)
           t == SubSeq(s, k + 1, m)
           q == h \o t
<1>1. m \in Nat /\ DOMAIN s = 1 .. m /\ k \in 1 .. m /\ \A i \in 1 .. m : s[i] \in S
  BY LenProperties, ElementOfSeq
<1>2. h \in Seq(S) /\ Len(h) = k - 1 /\ \A i \in 1 .. k - 1 : h[i] = s[i]
  <2> DEFINE p == k - 1
  <2>1. p \in Int /\ p \in Nat /\ \A i \in 1 .. p : s[i] \in S
    BY <1>1
  <2> HIDE DEF p
  <2>2. /\ SubSeq(s, 1, p) \in Seq(S)
        /\ Len(SubSeq(s, 1, p)) = IF 1 <= p THEN p - 1 + 1 ELSE 0
        /\ \A i \in 1 .. p - 1 + 1 : SubSeq(s, 1, p)[i] = s[1 + i - 1]
    BY <2>1, SubSeqProperties
  <2>3. /\ SubSeq(s, 1, p) \in Seq(S) /\ Len(SubSeq(s, 1, p)) = p
        /\ \A i \in 1 .. p : SubSeq(s, 1, p)[i] = s[i]
    BY <2>1, <2>2
  <2> QED BY <2>3 DEF p
<1>3. t \in Seq(S) /\ Len(t) = m - k /\ \A i \in 1 .. m - k : t[i] = s[k + i]
  <2> DEFINE n == m - k
  <2>1. n \in Nat /\ k \in Nat /\ k + n = m
    BY <1>1
  <2> HIDE DEF n
  <2>2. k + n <= Len(s)
    BY <1>1, <2>1
  <2>3. /\ SubSeq(s, k + 1, k + n) \in Seq(S) /\ Len(SubSeq(s, k + 1, k + n)) = n
        /\ \A i \in 1 .. n : SubSeq(s, k + 1, k + n)[i] = s[k + i]
    BY <2>1, <2>2, SubSeqAt
  <2> QED BY <2>1, <2>3 DEF n
<1>4. /\ q \in Seq(S) /\ Len(q) = (k - 1) + (m - k)
      /\ \A i \in 1 .. (k - 1) + (m - k) : q[i] = IF i <= k - 1 THEN h[i] ELSE t[i - (k - 1)]
  <2> HIDE DEF h, t
  <2>1. /\ h \o t \in Seq(S) /\ Len(h \o t) = (k - 1) + (m - k)
        /\ \A i \in 1 .. (k - 1) + (m - k) : (h \o t)[i] = IF i <= k - 1 THEN h[i] ELSE t[i - (k - 1)]
    BY <1>2, <1>3, ConcatAt
  <2> QED BY <2>1 DEF q
<1>5. DOMAIN q = 1 .. m - 1 /\ Len(q) = m - 1
  BY <1>1, <1>4, LenProperties
<1>6. q = RemoveAt(s, k)
  BY DEF RemoveAt
<1> HIDE DEF m, h, t, q
<1>7. ASSUME NEW i \in 1 .. m - 1 PROVE q[i] = IF i < k THEN s[i] ELSE s[i + 1]
  <2>1. CASE i < k
    <3>1. i \in 1 .. k - 1 /\ i <= k - 1 /\ i \in 1 .. (k - 1) + (m - k)
      BY <1>1, <2>1
    <3> QED BY <1>2, <1>4, <2>1, <3>1
  <2>2. CASE ~(i < k)
    <3>1. /\ i - (k - 1) \in 1 .. m - k /\ ~(i <= k - 1) /\ k + (i - (k - 1)) = i + 1
          /\ i \in 1 .. (k - 1) + (m - k)
      BY <1>1, <2>2
    <3> QED BY <1>3, <1>4, <2>2, <3>1
  <2> QED BY <2>1, <2>2
<1>8. \A i \in 1 .. m - 1 : i \in 1 .. m /\ i + 1 \in 1 .. m
  BY <1>1
<1> QED BY <1>1, <1>4, <1>5, <1>6, <1>7, <1>8 DEF m

\* A sequence without the element at k
LEMMA RemoveIs ==
  ASSUME NEW S, NEW s \in Seq(S), NEW k \in DOMAIN s
  PROVE  RemoveAt(s, k) \in Seq(S) /\ IsDrop(s, s[k], RemoveAt(s, k))
<1> DEFINE q == RemoveAt(s, k)
           m == Len(s)
           old(i) == IF i < k THEN i ELSE i + 1
<1>1. /\ q \in Seq(S) /\ Len(q) = m - 1
      /\ \A i \in DOMAIN q : /\ i \in DOMAIN s /\ i + 1 \in DOMAIN s
                             /\ q[i] = IF i < k THEN s[i] ELSE s[i + 1]
  BY RemoveAtIs
<1>2. m \in Nat /\ DOMAIN s = 1 .. m /\ DOMAIN q = 1 .. m - 1 /\ k \in 1 .. m
  BY <1>1, LenProperties
<1> HIDE DEF q, m
<1>3. \A i \in DOMAIN q : old(i) \in DOMAIN s /\ old(i) # k /\ q[i] = s[old(i)]
  <2> SUFFICES ASSUME NEW i \in DOMAIN q PROVE old(i) \in DOMAIN s /\ old(i) # k /\ q[i] = s[old(i)]
    OBVIOUS
  <2>1. i \in DOMAIN s /\ i + 1 \in DOMAIN s /\ q[i] = IF i < k THEN s[i] ELSE s[i + 1]
    BY <1>1
  <2>2. i \in Int /\ k \in Int
    BY <1>2
  <2> QED BY <2>1, <2>2
<1>4. \A i, j \in DOMAIN q : old(i) = old(j) => i = j
  BY <1>2
<1>5. \A j \in DOMAIN s : j # k => \E i \in DOMAIN q : old(i) = j
  <2> SUFFICES ASSUME NEW j \in DOMAIN s, j # k PROVE \E i \in DOMAIN q : old(i) = j
    OBVIOUS
  <2>1. CASE j < k
    <3>1. j \in DOMAIN q /\ old(j) = j
      BY <1>2, <2>1
    <3> QED BY <3>1
  <2>2. CASE ~(j < k)
    <3>1. j - 1 \in DOMAIN q /\ old(j - 1) = j
      BY <1>2, <2>2
    <3> QED BY <3>1
  <2> QED BY <2>1, <2>2
<1> HIDE DEF old
<1>6. s[k] \in Range(s)
  BY DEF Range
<1>7. ASSUME Distinct(s) PROVE Range(q) = Range(s) \ {s[k]} /\ Distinct(q)
  <2>1. \A i \in DOMAIN q : q[i] \in Range(s) /\ q[i] # s[k]
    BY <1>3, <1>7 DEF Range, Distinct
  <2>2. \A j \in DOMAIN s : s[j] = s[k] \/ s[j] \in Range(q)
    BY <1>3, <1>5 DEF Range
  <2>3. Range(q) = Range(s) \ {s[k]}
    BY <2>1, <2>2 DEF Range
  <2>4. Distinct(q)
    BY <1>3, <1>4, <1>7 DEF Distinct
  <2> QED BY <2>3, <2>4
<1> QED BY <1>1, <1>6, <1>7 DEF IsDrop, q

\* Induction along an interval, for the set of numbers a fact holds of
LEMMA UpTo ==
  ASSUME NEW m \in Nat, NEW S, 0 \in S,
         \A n \in 0 .. m : n # 0 /\ n - 1 \in S => n \in S
  PROVE  \A n \in 0 .. m : n \in S
<1> DEFINE Bad == {n \in 0 .. m : n \notin S}
<1>1. ASSUME Bad # {} PROVE FALSE
  <2>1. Bad \subseteq Nat
    OBVIOUS
  <2>2. PICK n \in Bad : \A k \in Bad : ~ (<<k, n>> \in OpToRel(<, Nat))
    <3> HIDE DEF Bad
    <3> QED BY <1>1, <2>1, NatLessThanWellFounded, WFMin
  <2>3. n \in 0 .. m /\ n # 0 /\ n - 1 \in 0 .. m
    OBVIOUS
  <2>4. <<n - 1, n>> \in OpToRel(<, Nat)
    <3>1. n - 1 \in Nat /\ n \in Nat /\ n - 1 < n
      BY <2>3
    <3> QED BY <3>1 DEF OpToRel
  <2> QED BY <2>2, <2>3, <2>4
<1> QED BY <1>1

-----------------------------------------------------------------------------
(* The fields of a cache, and what an operation on one of them leaves *)

SpanT == [pageId_ : Nat, cnt_ : Nat, used_ : BOOLEAN, blockSize_ : Nat,
          freelist_ : Seq(Nat), useCnt_ : Nat]

PageMaps == UNION {[D -> Nat] : D \in SUBSET Nat}

CacheT == [brk : Nat, span : Seq(SpanT), pool : Seq(Nat),
           spanlists_ : [1 .. kMaxPages -> Seq(Nat)], hash_ : PageMaps, res : Nat]

Ids(c)  == DOMAIN c.span
Live(c) == Ids(c) \ Range(c.pool)

\* The pool of Span objects that are free
PoolOk(c) == Distinct(c.pool) /\ Range(c.pool) \subseteq Ids(c)

\* Of two caches, d and c, one differs from the other in no more than its spans.
SameLists(c, d) == d.spanlists_ = c.spanlists_ /\ d.hash_ = c.hash_
SamePool(c, d)  == Ids(d) = Ids(c) /\ d.pool = c.pool

-----------------------------------------------------------------------------
\* The cache with another record for span s, and with another list of n pages
Put(c, s, a)  == [c EXCEPT !.span = [@ EXCEPT ![s] = a]]
Link(c, n, q) == [c EXCEPT !.spanlists_ = [@ EXCEPT ![n] = q]]

\* The record of s is a, and those of the others are what they were.
IsPut(c, d, s, a) ==
  /\ d.span[s] = a
  /\ \A r \in Ids(c) : r # s => d.span[r] = c.span[r]

\* The Spans of a cache are numbered from 1.
LEMMA IdsAre ==
  ASSUME NEW c \in CacheT
  PROVE  /\ Ids(c) = 1 .. Len(c.span) /\ Len(c.span) \in Nat
         /\ \A s \in Ids(c) : s \in Nat \ {0} /\ c.span[s] \in SpanT
BY LenProperties, ElementOfSeq DEF CacheT, Ids

\* The types of the fields of a cache
LEMMA FieldsAre ==
  ASSUME NEW c \in CacheT
  PROVE  /\ c.brk \in Nat /\ c.span \in Seq(SpanT) /\ c.pool \in Seq(Nat)
         /\ c.spanlists_ \in [1 .. kMaxPages -> Seq(Nat)] /\ c.hash_ \in PageMaps
         /\ c.res \in Nat
BY DEF CacheT

\* A cache with another end of the heap
LEMMA SetBrk ==
  ASSUME NEW c \in CacheT, NEW b \in Nat, NEW d, d = [c EXCEPT !.brk = b]
  PROVE  /\ d \in CacheT /\ d.brk = b /\ d.span = c.span /\ d.pool = c.pool
         /\ d.spanlists_ = c.spanlists_ /\ d.hash_ = c.hash_ /\ d.res = c.res
BY DEF CacheT

\* A cache with another result
LEMMA SetRes ==
  ASSUME NEW c \in CacheT, NEW b \in Nat, NEW d, d = [c EXCEPT !.res = b]
  PROVE  /\ d \in CacheT /\ d.brk = c.brk /\ d.span = c.span /\ d.pool = c.pool
         /\ d.spanlists_ = c.spanlists_ /\ d.hash_ = c.hash_ /\ d.res = b
BY DEF CacheT

\* A cache with another pool
LEMMA SetPool ==
  ASSUME NEW c \in CacheT, NEW b \in Seq(Nat), NEW d, d = [c EXCEPT !.pool = b]
  PROVE  /\ d \in CacheT /\ d.brk = c.brk /\ d.span = c.span /\ d.pool = b
         /\ d.spanlists_ = c.spanlists_ /\ d.hash_ = c.hash_ /\ d.res = c.res
BY DEF CacheT

\* A cache with other records of its Spans
LEMMA SetSpans ==
  ASSUME NEW c \in CacheT, NEW b \in Seq(SpanT), NEW d, d = [c EXCEPT !.span = b]
  PROVE  /\ d \in CacheT /\ d.brk = c.brk /\ d.span = b /\ d.pool = c.pool
         /\ d.spanlists_ = c.spanlists_ /\ d.hash_ = c.hash_ /\ d.res = c.res
BY DEF CacheT

\* A cache with other lists
LEMMA SetLists ==
  ASSUME NEW c \in CacheT, NEW b \in [1 .. kMaxPages -> Seq(Nat)], NEW d,
         d = [c EXCEPT !.spanlists_ = b]
  PROVE  /\ d \in CacheT /\ d.brk = c.brk /\ d.span = c.span /\ d.pool = c.pool
         /\ d.spanlists_ = b /\ d.hash_ = c.hash_ /\ d.res = c.res
BY DEF CacheT

\* A cache with another page map
LEMMA SetHash ==
  ASSUME NEW c \in CacheT, NEW b \in PageMaps, NEW d, d = [c EXCEPT !.hash_ = b]
  PROVE  /\ d \in CacheT /\ d.brk = c.brk /\ d.span = c.span /\ d.pool = c.pool
         /\ d.spanlists_ = c.spanlists_ /\ d.hash_ = b /\ d.res = c.res
BY DEF CacheT

\* Put changes one record and nothing else.
LEMMA PutIs ==
  ASSUME NEW c \in CacheT, NEW s \in Ids(c), NEW a \in SpanT, NEW d, d = Put(c, s, a)
  PROVE  /\ d \in CacheT /\ IsPut(c, d, s, a) /\ Ids(d) = Ids(c) /\ Len(d.span) = Len(c.span)
         /\ d.brk = c.brk /\ d.pool = c.pool
         /\ d.spanlists_ = c.spanlists_ /\ d.hash_ = c.hash_ /\ d.res = c.res
<1> DEFINE q == c.span
           e == [q EXCEPT ![s] = a]
<1>1. q \in Seq(SpanT) /\ DOMAIN q = 1 .. Len(q) /\ s \in 1 .. Len(q)
  BY IdsAre, FieldsAre DEF Ids
<1>2. d = [c EXCEPT !.span = e]
  BY DEF Put
<1> HIDE DEF q
<1>3. e \in Seq(SpanT) /\ Len(e) = Len(q) /\ DOMAIN e = DOMAIN q
  BY <1>1, ExceptSeq
<1>4. e[s] = a /\ \A r \in DOMAIN q : r # s => e[r] = q[r]
  BY <1>1
<1> HIDE DEF e
<1>5. /\ d \in CacheT /\ d.brk = c.brk /\ d.span = e /\ d.pool = c.pool
      /\ d.spanlists_ = c.spanlists_ /\ d.hash_ = c.hash_ /\ d.res = c.res
  BY <1>2, <1>3, SetSpans
<1> QED BY <1>3, <1>4, <1>5 DEF IsPut, Ids, q

\* Link changes one list and nothing else.
LEMMA LinkIs ==
  ASSUME NEW c \in CacheT, NEW n \in 1 .. kMaxPages, NEW q \in Seq(Nat), NEW d,
         d = Link(c, n, q)
  PROVE  /\ d \in CacheT /\ d.span = c.span /\ d.brk = c.brk /\ d.pool = c.pool
         /\ d.hash_ = c.hash_ /\ d.res = c.res
         /\ d.spanlists_[n] = q
         /\ \A m \in 1 .. kMaxPages : m # n => d.spanlists_[m] = c.spanlists_[m]
<1> DEFINE e == [c.spanlists_ EXCEPT ![n] = q]
<1>1. c.spanlists_ \in [1 .. kMaxPages -> Seq(Nat)]
  BY FieldsAre
<1>2. /\ e \in [1 .. kMaxPages -> Seq(Nat)] /\ e[n] = q
      /\ \A m \in 1 .. kMaxPages : m # n => e[m] = c.spanlists_[m]
  BY <1>1
<1>3. d = [c EXCEPT !.spanlists_ = e]
  BY DEF Link
<1> HIDE DEF e
<1> QED BY <1>2, <1>3, SetLists

\* What is set leads to s; the rest of the map is as it was.
IsSet(hash, q, pages, s) ==
  /\ DOMAIN q = DOMAIN hash \cup pages
  /\ \A p \in pages : q[p] = s
  /\ \A p \in DOMAIN hash \ pages : q[p] = hash[p]

\* Set changes what the given pages lead to and nothing else.
LEMMA SetIs ==
  ASSUME NEW c \in CacheT, NEW pages \in SUBSET Nat, NEW s \in Nat, NEW d, d = Set(c, pages, s)
  PROVE  /\ d \in CacheT /\ d.span = c.span /\ d.brk = c.brk /\ d.pool = c.pool
         /\ d.spanlists_ = c.spanlists_ /\ d.res = c.res
         /\ IsSet(c.hash_, d.hash_, pages, s)
<1> DEFINE h == c.hash_
           q == [p \in DOMAIN h \cup pages |-> IF p \in pages THEN s ELSE h[p]]
<1>1. h \in PageMaps
  BY FieldsAre
<1>2. d = [c EXCEPT !.hash_ = q]
  BY DEF Set
<1>3. PICK D \in SUBSET Nat : h \in [D -> Nat]
  BY <1>1 DEF PageMaps
<1>4. DOMAIN h = D /\ \A p \in D : h[p] \in Nat
  BY <1>3
<1> HIDE DEF h
<1>5. q \in [pages \cup D -> Nat]
  BY <1>4
<1>6. q \in PageMaps
  BY <1>5 DEF PageMaps
<1>7. IsSet(h, q, pages, s)
  BY <1>4 DEF IsSet
<1> HIDE DEF q
<1> QED BY <1>2, <1>6, <1>7, SetHash DEF h

-----------------------------------------------------------------------------
(* ObjectPool and SpanList *)

\* Span s, which was not live, now is, with record a.
Took(c, d, s, a) ==
  /\ s \in Nat \ {0} /\ s \notin Live(c)
  /\ Ids(d) = Ids(c) \cup {s} /\ Live(d) = Live(c) \cup {s}
  /\ PoolOk(d) /\ IsPut(c, d, s, a)

\* All but the spans and their pool are the same.
SameRest(c, d) ==
  d.brk = c.brk /\ d.spanlists_ = c.spanlists_ /\ d.hash_ = c.hash_ /\ d.res = c.res

\* spanPool_.alloc() gives a Span that was not live.
LEMMA AllocIs ==
  ASSUME NEW c \in CacheT, PoolOk(c), NEW a \in SpanT, NEW d, d = Alloc(c, a),
         NEW s, s = NextSpan(c)
  PROVE  d \in CacheT /\ Took(c, d, s, a) /\ SameRest(c, d)
<1> DEFINE q == c.span
           none == <<>>
<1>1. q \in Seq(SpanT) /\ c.pool \in Seq(Nat)
  BY FieldsAre
<1>2. CASE c.pool = none
  <2> DEFINE e == Append(q, a)
  <2>1. s = Len(q) + 1 /\ d = [c EXCEPT !.span = e]
    BY <1>2 DEF NextSpan, Alloc
  <2> HIDE DEF q
  <2>2. /\ e \in Seq(SpanT) /\ DOMAIN e = DOMAIN q \cup {s} /\ s \notin DOMAIN q
        /\ \A i \in DOMAIN q : e[i] = q[i]
        /\ e[s] = a
    BY <1>1, <2>1, Pushed
  <2>3. s \in Nat \ {0}
    <3>1. Len(q) \in Nat
      BY <1>1, LenProperties
    <3> QED BY <2>1, <3>1
  <2> HIDE DEF e
  <2>4. /\ d \in CacheT /\ d.brk = c.brk /\ d.span = e /\ d.pool = c.pool
        /\ d.spanlists_ = c.spanlists_ /\ d.hash_ = c.hash_ /\ d.res = c.res
    BY <2>1, <2>2, SetSpans
  <2>5. Ids(c) = DOMAIN q /\ Ids(d) = DOMAIN e
    BY <2>4 DEF Ids, q
  <2>6. s \notin Range(c.pool)
    BY <2>2, <2>5 DEF PoolOk
  <2>7. s \notin Live(c) /\ Live(d) = Live(c) \cup {s} /\ PoolOk(d)
    BY <2>2, <2>4, <2>5, <2>6 DEF Live, PoolOk
  <2>8. IsPut(c, d, s, a)
    BY <2>2, <2>4, <2>5 DEF IsPut, q
  <2> QED BY <2>2, <2>3, <2>4, <2>5, <2>7, <2>8 DEF Took, SameRest
<1>3. CASE c.pool # none
  <2> DEFINE p == c.pool
  <2>1. s = Head(p) /\ d = [c EXCEPT !.span[Head(p)] = a, !.pool = Tail(p)]
    BY <1>3 DEF NextSpan, Alloc
  <2>2. Head(p) \in Nat /\ Tail(p) \in Seq(Nat) /\ IsDrop(p, Head(p), Tail(p))
    BY <1>1, <1>3, PopIs
  <2> DEFINE m == Put(c, s, a)
             t == Tail(p)
  <2>3. d = [m EXCEPT !.pool = t]
    BY <2>1 DEF Put, CacheT
  <2> HIDE DEF p
  <2>4. s \in Ids(c) /\ s \in Range(p) /\ Range(t) = Range(p) \ {s} /\ Distinct(t) /\ t \in Seq(Nat)
    BY <2>1, <2>2 DEF IsDrop, PoolOk, p
  <2> HIDE DEF m, t
  <2>5. /\ m \in CacheT /\ IsPut(c, m, s, a) /\ Ids(m) = Ids(c)
        /\ m.brk = c.brk /\ m.pool = c.pool
        /\ m.spanlists_ = c.spanlists_ /\ m.hash_ = c.hash_ /\ m.res = c.res
    BY <2>4, PutIs DEF m
  <2>6. /\ d \in CacheT /\ d.brk = m.brk /\ d.span = m.span /\ d.pool = t
        /\ d.spanlists_ = m.spanlists_ /\ d.hash_ = m.hash_ /\ d.res = m.res
    BY <2>3, <2>4, <2>5, SetPool
  <2>7. Ids(d) = Ids(c) /\ IsPut(c, d, s, a)
    BY <2>5, <2>6 DEF Ids, IsPut
  <2>8. s \in Nat \ {0}
    BY <2>4, IdsAre
  <2>9. s \notin Live(c) /\ Live(d) = Live(c) \cup {s} /\ PoolOk(d)
    BY <2>4, <2>6, <2>7 DEF Live, PoolOk, p
  <2> QED BY <2>4, <2>5, <2>6, <2>7, <2>8, <2>9 DEF Took, SameRest
<1> QED BY <1>2, <1>3

\* Span s is live no more, and the others keep their records.
Gave(c, d, s) ==
  /\ Ids(d) = Ids(c) /\ Live(d) = Live(c) \ {s} /\ PoolOk(d)
  /\ \A r \in Ids(c) : r # s => d.span[r] = c.span[r]

\* spanPool_.free() makes a Span live no more.
LEMMA FreeIs ==
  ASSUME NEW c \in CacheT, PoolOk(c), NEW s \in Live(c), NEW d, d = Free(c, s)
  PROVE  d \in CacheT /\ Gave(c, d, s) /\ SameRest(c, d) /\ Len(d.span) = Len(c.span)
<1> DEFINE a == [c.span[s] EXCEPT !.pageId_ = 0]
           m == Put(c, s, a)
           p == c.pool
           t == <<s>> \o p
<1>1. s \in Ids(c) /\ s \in Nat /\ c.span[s] \in SpanT /\ s \notin Range(p)
  BY IdsAre DEF Live
<1>2. a \in SpanT
  BY <1>1 DEF SpanT
<1>3. d = [m EXCEPT !.pool = t]
  BY DEF Free, Put, CacheT
<1>4. p \in Seq(Nat)
  BY FieldsAre
<1> HIDE DEF p, a
<1>5. t \in Seq(Nat) /\ IsPush(p, s, t)
  BY <1>1, <1>4, PushIs
<1>6. Range(t) = Range(p) \cup {s} /\ Distinct(t)
  BY <1>1, <1>5 DEF IsPush, PoolOk, p
<1> HIDE DEF t, m
<1>7. /\ m \in CacheT /\ IsPut(c, m, s, a) /\ Ids(m) = Ids(c) /\ Len(m.span) = Len(c.span)
      /\ m.brk = c.brk /\ m.pool = c.pool
      /\ m.spanlists_ = c.spanlists_ /\ m.hash_ = c.hash_ /\ m.res = c.res
  BY <1>1, <1>2, PutIs DEF m
<1>8. /\ d \in CacheT /\ d.brk = m.brk /\ d.span = m.span /\ d.pool = t
      /\ d.spanlists_ = m.spanlists_ /\ d.hash_ = m.hash_ /\ d.res = m.res
  BY <1>3, <1>5, <1>7, SetPool
<1>9. Ids(d) = Ids(c) /\ \A r \in Ids(c) : r # s => d.span[r] = c.span[r]
  BY <1>7, <1>8 DEF Ids, IsPut
<1>10. Live(d) = Live(c) \ {s} /\ PoolOk(d)
  BY <1>1, <1>6, <1>8, <1>9 DEF Live, PoolOk, p
<1> QED BY <1>7, <1>8, <1>9, <1>10 DEF Gave, SameRest

\* Of the lists, the one of n pages is now q.
IsLinked(lists, new, n, q) ==
  /\ new[n] = q
  /\ \A m \in 1 .. kMaxPages : m # n => new[m] = lists[m]

\* What no operation on the lists touches
LinksOnly(c, d) ==
  /\ d \in CacheT /\ d.span = c.span /\ d.brk = c.brk /\ d.pool = c.pool
  /\ d.hash_ = c.hash_ /\ d.res = c.res

\* pushFront: the Span is the first of the list of its size.
LEMMA PushFrontIs ==
  ASSUME NEW c \in CacheT, NEW s \in Ids(c), NEW n \in 1 .. kMaxPages, c.span[s].cnt_ = n,
         NEW d, d = PushFront(c, s)
  PROVE  /\ LinksOnly(c, d) /\ IsPush(c.spanlists_[n], s, d.spanlists_[n])
         /\ IsLinked(c.spanlists_, d.spanlists_, n, d.spanlists_[n])
<1> DEFINE p == c.spanlists_[n]
           q == <<s>> \o p
<1>1. p \in Seq(Nat) /\ s \in Nat
  BY FieldsAre, IdsAre
<1>2. d = Link(c, n, q)
  BY DEF PushFront, Link
<1> HIDE DEF p
<1>3. q \in Seq(Nat) /\ IsPush(p, s, q)
  BY <1>1, PushIs
<1> HIDE DEF q
<1>4. /\ d \in CacheT /\ d.span = c.span /\ d.brk = c.brk /\ d.pool = c.pool
      /\ d.hash_ = c.hash_ /\ d.res = c.res
      /\ d.spanlists_[n] = q
      /\ \A m \in 1 .. kMaxPages : m # n => d.spanlists_[m] = c.spanlists_[m]
  BY <1>2, <1>3, LinkIs
<1> QED BY <1>3, <1>4 DEF LinksOnly, IsLinked, p

\* popFront: the list loses its first Span.
LEMMA PopFrontIs ==
  ASSUME NEW c \in CacheT, NEW n \in 1 .. kMaxPages, c.spanlists_[n] # <<>>,
         NEW d, d = PopFront(c, n)
  PROVE  /\ LinksOnly(c, d)
         /\ IsDrop(c.spanlists_[n], Head(c.spanlists_[n]), d.spanlists_[n])
         /\ IsLinked(c.spanlists_, d.spanlists_, n, d.spanlists_[n])
<1> DEFINE p == c.spanlists_[n]
           q == Tail(p)
<1>1. p \in Seq(Nat) /\ p # <<>>
  BY FieldsAre
<1>2. d = Link(c, n, q)
  BY DEF PopFront, Link
<1> HIDE DEF p
<1>3. q \in Seq(Nat) /\ IsDrop(p, Head(p), q)
  BY <1>1, PopIs
<1> HIDE DEF q
<1>4. /\ d \in CacheT /\ d.span = c.span /\ d.brk = c.brk /\ d.pool = c.pool
      /\ d.hash_ = c.hash_ /\ d.res = c.res
      /\ d.spanlists_[n] = q
      /\ \A m \in 1 .. kMaxPages : m # n => d.spanlists_[m] = c.spanlists_[m]
  BY <1>2, <1>3, LinkIs
<1> QED BY <1>3, <1>4 DEF LinksOnly, IsLinked, p

\* erase: the list loses this Span, wherever it was.
LEMMA EraseIs ==
  ASSUME NEW c \in CacheT, NEW s, NEW n \in 1 .. kMaxPages, c.span[s].cnt_ = n,
         s \in Range(c.spanlists_[n]),
         NEW d, d = Erase(c, s)
  PROVE  /\ LinksOnly(c, d) /\ IsDrop(c.spanlists_[n], s, d.spanlists_[n])
         /\ IsLinked(c.spanlists_, d.spanlists_, n, d.spanlists_[n])
<1> DEFINE p == c.spanlists_[n]
           k == Place(p, s)
           q == RemoveAt(p, k)
<1>1. p \in Seq(Nat) /\ s \in Range(p)
  BY FieldsAre
<1>2. d = Link(c, n, q)
  BY DEF Erase, Link
<1> HIDE DEF p
<1>3. k \in DOMAIN p /\ p[k] = s
  BY <1>1 DEF Place, Range
<1> HIDE DEF k
<1>4. q \in Seq(Nat) /\ IsDrop(p, s, q)
  BY <1>1, <1>3, RemoveIs
<1> HIDE DEF q
<1>5. /\ d \in CacheT /\ d.span = c.span /\ d.brk = c.brk /\ d.pool = c.pool
      /\ d.hash_ = c.hash_ /\ d.res = c.res
      /\ d.spanlists_[n] = q
      /\ \A m \in 1 .. kMaxPages : m # n => d.spanlists_[m] = c.spanlists_[m]
  BY <1>2, <1>4, LinkIs
<1> QED BY <1>4, <1>5 DEF LinksOnly, IsLinked, p

-----------------------------------------------------------------------------
(* A good cache: spans lie apart, are listed and are mapped *)

Apart(a, b)  == a.pageId_ + a.cnt_ <= b.pageId_ \/ b.pageId_ + b.cnt_ <= a.pageId_
Within(p, a) == a.pageId_ <= p /\ p < a.pageId_ + a.cnt_

\* Spans lie in the heap, none on another.
Laid(c) ==
  /\ \A s \in Live(c) : /\ c.span[s].pageId_ >= 1 /\ c.span[s].cnt_ >= 1
                        /\ c.span[s].pageId_ + c.span[s].cnt_ <= c.brk
  /\ \A s, r \in Live(c) : s # r => Apart(c.span[s], c.span[r])

\* The lists hold the spans that are not in use, but for those of Y, each once
\* and under its size.
Listing(c, Y) ==
  /\ \A n \in 1 .. kMaxPages : Distinct(c.spanlists_[n])
  /\ \A n \in 1 .. kMaxPages : \A s \in Range(c.spanlists_[n]) :
       s \in Live(c) /\ s \notin Y /\ ~c.span[s].used_ /\ c.span[s].cnt_ = n
  /\ \A s \in Live(c) : s \notin Y /\ ~c.span[s].used_ =>
       /\ c.span[s].cnt_ <= kMaxPages /\ c.span[s].useCnt_ = 0
       /\ s \in Range(c.spanlists_[c.span[s].cnt_])

Leads(hash, p, s) == p \in DOMAIN hash /\ hash[p] = s

\* The page map leads to a span in use from its first page, from no other span's,
\* and from all its pages if the lists could keep it, ...
Whole(hash, a, s) ==
  /\ Leads(hash, a.pageId_, s)
  /\ \A p \in DOMAIN hash : Within(p, a) => hash[p] = s
  /\ a.cnt_ <= kMaxPages => \A p \in Nat : Within(p, a) => p \in DOMAIN hash

\* ... and to another from its two ends.
Ends(hash, a, s) == Leads(hash, a.pageId_, s) /\ Leads(hash, a.pageId_ + a.cnt_ - 1, s)

\* The page map has pages of live spans only, and leads to all but those of X.
Mapping(c, X) ==
  /\ \A p \in DOMAIN c.hash_ : p \in Nat /\ \E s \in Live(c) : Within(p, c.span[s])
  /\ \A s \in Live(c) : s \notin X /\ c.span[s].used_ => Whole(c.hash_, c.span[s], s)
  /\ \A s \in Live(c) : s \notin X /\ ~c.span[s].used_ => Ends(c.hash_, c.span[s], s)

Good(c, Y, X) ==
  /\ c \in CacheT /\ PoolOk(c) /\ Laid(c) /\ Listing(c, Y) /\ Mapping(c, X)

Used(c) == {s \in Live(c) : c.span[s].used_}

\* What an operation on the spans that are not in use leaves as it was, ...
KeepsUsed(c, d) == Used(d) = Used(c) /\ \A s \in Used(c) : d.span[s] = c.span[s]

\* ... and that it loses no page
Covers(c, d) ==
  \A p \in Nat : (\E s \in Live(c) : Within(p, c.span[s])) => \E s \in Live(d) : Within(p, d.span[s])

-----------------------------------------------------------------------------
\* The lists there are
LEMMA Bucket == kMaxPages = 128 /\ \A n \in Nat : n >= 1 /\ n <= kMaxPages => n \in 1 .. kMaxPages
BY DEF kMaxPages, kPageBucketSize

\* What a live Span is
LEMMA LiveAre ==
  ASSUME NEW c \in CacheT
  PROVE  \A s \in Live(c) : /\ s \in Nat \ {0} /\ s \in Ids(c) /\ c.span[s] \in SpanT
                            /\ c.span[s].pageId_ \in Nat /\ c.span[s].cnt_ \in Nat
<1> SUFFICES ASSUME NEW s \in Live(c)
             PROVE  /\ s \in Nat \ {0} /\ s \in Ids(c) /\ c.span[s] \in SpanT
                    /\ c.span[s].pageId_ \in Nat /\ c.span[s].cnt_ \in Nat
  OBVIOUS
<1>1. s \in Nat \ {0} /\ s \in Ids(c) /\ c.span[s] \in SpanT
  BY IdsAre DEF Live
<1> QED BY <1>1 DEF SpanT

\* Where no Span changes, those in use do not, and no page is lost.
LEMMA SameSpans ==
  ASSUME NEW c, NEW d, d.span = c.span, d.pool = c.pool
  PROVE  Live(d) = Live(c) /\ KeepsUsed(c, d) /\ Covers(c, d)
BY DEF Live, Ids, Used, KeepsUsed, Covers

\* Two such operations, one after the other, keep what each keeps.
LEMMA KeepsTransitive ==
  ASSUME NEW c, NEW d, NEW e, KeepsUsed(c, d), KeepsUsed(d, e), Covers(c, d), Covers(d, e)
  PROVE  KeepsUsed(c, e) /\ Covers(c, e)
BY DEF KeepsUsed, Covers

\* A span of n pages that is in a list
Spare(c, Y, s, n) ==
  /\ s \in Live(c) /\ s \notin Y /\ ~c.span[s].used_ /\ c.span[s].cnt_ = n
  /\ c.span[s].useCnt_ = 0

\* Taking a span off its list
LEMMA DropGood ==
  ASSUME NEW Y, NEW X, NEW c, Good(c, Y, X), NEW n \in 1 .. kMaxPages, NEW d, NEW s,
         LinksOnly(c, d), IsDrop(c.spanlists_[n], s, d.spanlists_[n]),
         IsLinked(c.spanlists_, d.spanlists_, n, d.spanlists_[n])
  PROVE  Good(d, Y \cup {s}, X) /\ Spare(c, Y, s, n)
<1>1. c \in CacheT
  BY DEF Good
<1>2. /\ LinksOnly(c, d) /\ IsDrop(c.spanlists_[n], s, d.spanlists_[n])
      /\ IsLinked(c.spanlists_, d.spanlists_, n, d.spanlists_[n])
  OBVIOUS
<1>3. /\ s \in Live(c) /\ s \notin Y /\ ~c.span[s].used_ /\ c.span[s].cnt_ = n
      /\ c.span[s].useCnt_ = 0
  BY <1>2 DEF IsDrop, Good, Listing
<1>4. /\ Live(d) = Live(c) /\ d.span = c.span /\ d.hash_ = c.hash_ /\ d.brk = c.brk
      /\ d.pool = c.pool /\ Ids(d) = Ids(c)
  BY <1>2, SameSpans DEF LinksOnly, Ids
<1>5. Listing(d, Y \cup {s})
  <2>1. Listing(c, Y)
    BY DEF Good
  <2>2. Range(d.spanlists_[n]) = Range(c.spanlists_[n]) \ {s} /\ Distinct(d.spanlists_[n])
    BY <1>2, <2>1 DEF IsDrop, Listing
  <2>3. \A m \in 1 .. kMaxPages : m # n => d.spanlists_[m] = c.spanlists_[m]
    BY <1>2 DEF IsLinked
  <2>4. \A m \in 1 .. kMaxPages : Distinct(d.spanlists_[m])
    BY <2>1, <2>2, <2>3 DEF Listing
  <2>5. ASSUME NEW m \in 1 .. kMaxPages, NEW r \in Range(d.spanlists_[m])
        PROVE  r \in Live(d) /\ r \notin Y \cup {s} /\ ~d.span[r].used_ /\ d.span[r].cnt_ = m
    <3>1. r \in Range(c.spanlists_[m])
      BY <2>2, <2>3, <2>5
    <3>2. r \in Live(c) /\ r \notin Y /\ ~c.span[r].used_ /\ c.span[r].cnt_ = m
      BY <2>1, <3>1 DEF Listing
    <3>3. r # s
      <4>1. CASE m = n
        BY <2>2, <2>5, <4>1
      <4>2. CASE m # n
        BY <1>3, <3>2, <4>2
      <4> QED BY <4>1, <4>2
    <3> QED BY <1>4, <3>2, <3>3
  <2>6. ASSUME NEW r \in Live(d), r \notin Y \cup {s}, ~d.span[r].used_
        PROVE  /\ d.span[r].cnt_ <= kMaxPages /\ d.span[r].useCnt_ = 0
               /\ r \in Range(d.spanlists_[d.span[r].cnt_])
    <3>1. /\ c.span[r].cnt_ <= kMaxPages /\ c.span[r].useCnt_ = 0
          /\ r \in Range(c.spanlists_[c.span[r].cnt_]) /\ r \in Live(c)
      BY <1>4, <2>1, <2>6 DEF Listing
    <3>2. c.span[r].cnt_ \in 1 .. kMaxPages
      <4>1. c.span[r].cnt_ >= 1 /\ c.span[r].cnt_ \in Nat
        BY <1>1, <3>1, LiveAre DEF Good, Laid
      <4> QED BY <3>1, <4>1, Bucket
    <3>3. r \in Range(d.spanlists_[c.span[r].cnt_])
      BY <2>2, <2>3, <2>6, <3>1, <3>2
    <3> QED BY <1>4, <3>1, <3>3
  <2> QED BY <2>4, <2>5, <2>6 DEF Listing
<1>6. PoolOk(d) /\ Laid(d) /\ Mapping(d, X) /\ d \in CacheT
  <2>1. PoolOk(c) /\ Laid(c) /\ Mapping(c, X)
    BY DEF Good
  <2>2. PoolOk(d)
    BY <1>4, <2>1 DEF PoolOk
  <2>3. Laid(d)
    BY <1>4, <2>1 DEF Laid
  <2>4. Mapping(d, X)
    BY <1>4, <2>1 DEF Mapping
  <2> QED BY <1>2, <2>2, <2>3, <2>4 DEF LinksOnly
<1> QED BY <1>2, <1>3, <1>5, <1>6 DEF Good, Spare

-----------------------------------------------------------------------------
(* The lists keep a cache good *)

\* popFront keeps the cache good, but for the Span it took, which is in no list
\* now.
LEMMA PopGood ==
  ASSUME NEW Y, NEW X, NEW c, Good(c, Y, X), NEW n \in 1 .. kMaxPages, c.spanlists_[n] # <<>>,
         NEW d, d = PopFront(c, n), NEW s, s = Head(c.spanlists_[n])
  PROVE  Good(d, Y \cup {s}, X) /\ LinksOnly(c, d) /\ Spare(c, Y, s, n)
<1>1. c \in CacheT
  BY DEF Good
<1>2. /\ LinksOnly(c, d) /\ IsDrop(c.spanlists_[n], s, d.spanlists_[n])
      /\ IsLinked(c.spanlists_, d.spanlists_, n, d.spanlists_[n])
  BY <1>1, PopFrontIs
<1> QED BY <1>2, DropGood

\* What depends on neither lists nor page map
LEMMA LinksOnlyKeeps ==
  ASSUME NEW Y, NEW X, NEW c, Good(c, Y, X), NEW d, LinksOnly(c, d)
  PROVE  /\ Live(d) = Live(c) /\ d.span = c.span /\ d.hash_ = c.hash_ /\ d.brk = c.brk
         /\ d.pool = c.pool /\ Ids(d) = Ids(c)
         /\ d \in CacheT /\ PoolOk(d) /\ Laid(d) /\ Mapping(d, X)
<1>1. /\ Live(d) = Live(c) /\ d.span = c.span /\ d.hash_ = c.hash_ /\ d.brk = c.brk
      /\ d.pool = c.pool /\ Ids(d) = Ids(c) /\ d \in CacheT
  BY SameSpans DEF LinksOnly, Ids
<1>2. PoolOk(c) /\ Laid(c) /\ Mapping(c, X)
  BY DEF Good
<1>3. PoolOk(d)
  BY <1>1, <1>2 DEF PoolOk
<1>4. Laid(d)
  BY <1>1, <1>2 DEF Laid
<1>5. Mapping(d, X)
  BY <1>1, <1>2 DEF Mapping
<1> QED BY <1>1, <1>3, <1>4, <1>5

\* A span that belongs into the list of n pages
Pushable(c, Y, s, n) ==
  /\ s \in Live(c) /\ s \in Y /\ ~c.span[s].used_ /\ c.span[s].cnt_ = n
  /\ c.span[s].useCnt_ = 0

\* It is now the first of that list.
IsFirst(c, d, Y, X, s, n) ==
  /\ Good(d, Y, X) /\ LinksOnly(c, d)
  /\ d.spanlists_[n] # <<>> /\ Head(d.spanlists_[n]) = s
  /\ IsLinked(c.spanlists_, d.spanlists_, n, d.spanlists_[n])

\* Putting a span on its list
LEMMA PushGood ==
  ASSUME NEW Y, NEW X, NEW c, Good(c, Y, X), NEW n \in 1 .. kMaxPages, NEW s,
         Pushable(c, Y, s, n), NEW d, d = PushFront(c, s)
  PROVE  IsFirst(c, d, Y \ {s}, X, s, n)
<1> USE DEF Pushable
<1>1. c \in CacheT /\ s \in Ids(c)
  BY LiveAre DEF Good
<1>2. /\ LinksOnly(c, d) /\ IsPush(c.spanlists_[n], s, d.spanlists_[n])
      /\ IsLinked(c.spanlists_, d.spanlists_, n, d.spanlists_[n])
  BY <1>1, PushFrontIs
<1>3. Listing(c, Y)
  BY DEF Good
<1>4. /\ Live(d) = Live(c) /\ d.span = c.span
      /\ d \in CacheT /\ PoolOk(d) /\ Laid(d) /\ Mapping(d, X)
  BY <1>2, LinksOnlyKeeps
<1>5. s \notin Range(c.spanlists_[n])
  BY <1>3 DEF Listing
<1>6. Range(d.spanlists_[n]) = Range(c.spanlists_[n]) \cup {s} /\ Distinct(d.spanlists_[n])
  BY <1>2, <1>3, <1>5 DEF IsPush, Listing
<1>7. \A m \in 1 .. kMaxPages : m # n => d.spanlists_[m] = c.spanlists_[m]
  BY <1>2 DEF IsLinked
<1>8. \A m \in 1 .. kMaxPages : Distinct(d.spanlists_[m])
  BY <1>3, <1>6, <1>7 DEF Listing
<1>9. ASSUME NEW m \in 1 .. kMaxPages, NEW r \in Range(d.spanlists_[m])
      PROVE  r \in Live(d) /\ r \notin Y \ {s} /\ ~d.span[r].used_ /\ d.span[r].cnt_ = m
  <2>1. CASE r = s
    <3>1. m = n
      BY <1>3, <1>7, <1>9, <2>1 DEF Listing
    <3> QED BY <1>4, <2>1, <3>1
  <2>2. CASE r # s
    <3>1. r \in Range(c.spanlists_[m])
      BY <1>6, <1>7, <1>9, <2>2
    <3> QED BY <1>3, <1>4, <3>1 DEF Listing
  <2> QED BY <2>1, <2>2
<1>10. ASSUME NEW r \in Live(d), r \notin Y \ {s}, ~d.span[r].used_
       PROVE  /\ d.span[r].cnt_ <= kMaxPages /\ d.span[r].useCnt_ = 0
              /\ r \in Range(d.spanlists_[d.span[r].cnt_])
  <2>1. CASE r = s
    BY <1>4, <1>6, <2>1, Bucket
  <2>2. CASE r # s
    <3>1. /\ c.span[r].cnt_ <= kMaxPages /\ c.span[r].useCnt_ = 0
          /\ r \in Range(c.spanlists_[c.span[r].cnt_]) /\ r \in Live(c)
      BY <1>3, <1>4, <1>10, <2>2 DEF Listing
    <3>2. c.span[r].cnt_ \in 1 .. kMaxPages
      <4>1. c.span[r].cnt_ >= 1 /\ c.span[r].cnt_ \in Nat
        BY <1>1, <3>1, LiveAre DEF Good, Laid
      <4> QED BY <3>1, <4>1, Bucket
    <3>3. r \in Range(d.spanlists_[c.span[r].cnt_])
      BY <1>6, <1>7, <3>1, <3>2
    <3> QED BY <1>4, <3>1, <3>3
  <2> QED BY <2>1, <2>2
<1>11. Listing(d, Y \ {s})
  BY <1>8, <1>9, <1>10 DEF Listing
<1> QED BY <1>2, <1>4, <1>11 DEF Good, IsPush, IsFirst

\* The lists do not change, and of the spans that are not in Y no more than those in use.
LEMMA ListingKept ==
  ASSUME NEW Y, NEW c, Listing(c, Y), NEW d, NEW W, Y \subseteq W,
         d.spanlists_ = c.spanlists_, Live(c) \ W = Live(d) \ W,
         \A r \in Live(c) : r \notin W => d.span[r] = c.span[r],
         \A r \in Live(c) : r \in W => r \in Y \/ c.span[r].used_
  PROVE  Listing(d, W)
<1>1. \A n \in 1 .. kMaxPages : Distinct(d.spanlists_[n])
  BY DEF Listing
<1>2. ASSUME NEW n \in 1 .. kMaxPages, NEW s \in Range(d.spanlists_[n])
      PROVE  s \in Live(d) /\ s \notin W /\ ~d.span[s].used_ /\ d.span[s].cnt_ = n
  <2>1. s \in Live(c) /\ s \notin Y /\ ~c.span[s].used_ /\ c.span[s].cnt_ = n
    BY <1>2 DEF Listing
  <2> QED BY <2>1
<1>3. ASSUME NEW s \in Live(d), s \notin W, ~d.span[s].used_
      PROVE  /\ d.span[s].cnt_ <= kMaxPages /\ d.span[s].useCnt_ = 0
             /\ s \in Range(d.spanlists_[d.span[s].cnt_])
  BY <1>3 DEF Listing
<1> QED BY <1>1, <1>2, <1>3 DEF Listing

-----------------------------------------------------------------------------
(* Spans added and cut *)

\* The record of a span that is not in use and lies in this part of the heap
LiesIn(a, from, to) ==
  /\ a \in SpanT /\ ~a.used_ /\ a.pageId_ >= 1 /\ a.cnt_ >= 1
  /\ a.pageId_ >= from /\ a.pageId_ + a.cnt_ <= to

\* The types of the fields of a Span
LEMMA SpanFields ==
  ASSUME NEW a \in SpanT
  PROVE  a.pageId_ \in Nat /\ a.cnt_ \in Nat /\ a.blockSize_ \in Nat /\ a.useCnt_ \in Nat
BY DEF SpanT

\* No span in use is touched, no page lost, and none of the span mapped.
Added(c, d, a) ==
  KeepsUsed(c, d) /\ Covers(c, d) /\ \A p \in DOMAIN d.hash_ : ~Within(p, a)

\* A new span above all others
LEMMA TookGood ==
  ASSUME NEW Y, NEW X, NEW c, Good(c, Y, X), NEW d \in CacheT, NEW s, NEW a,
         Took(c, d, s, a), SameLists(c, d), LiesIn(a, c.brk, d.brk)
  PROVE  Good(d, Y \cup {s}, X \cup {s}) /\ Added(c, d, a)
<1>1. /\ c \in CacheT /\ PoolOk(c) /\ Laid(c) /\ Listing(c, Y) /\ Mapping(c, X)
  BY DEF Good
<1>2. /\ s \notin Live(c) /\ Live(d) = Live(c) \cup {s} /\ PoolOk(d) /\ d.span[s] = a
      /\ \A r \in Live(c) : d.span[r] = c.span[r]
  BY DEF Took, IsPut, Live
<1>3. \A r \in Live(c) : c.span[r].pageId_ \in Nat /\ c.span[r].cnt_ \in Nat
  BY <1>1, LiveAre
<1>4. a.pageId_ \in Nat /\ a.cnt_ \in Nat /\ c.brk \in Nat /\ d.brk \in Nat
  BY <1>1, SpanFields, FieldsAre DEF LiesIn
<1>5. \A r \in Live(c) : /\ c.span[r].pageId_ >= 1 /\ c.span[r].cnt_ >= 1
                         /\ c.span[r].pageId_ + c.span[r].cnt_ <= c.brk
  BY <1>1 DEF Laid
<1>6. \A r \in Live(c) : Apart(c.span[r], a) /\ Apart(a, c.span[r])
  BY <1>3, <1>4, <1>5 DEF Apart, LiesIn
<1>7. Laid(d)
  <2>1. ASSUME NEW r \in Live(d)
        PROVE  /\ d.span[r].pageId_ >= 1 /\ d.span[r].cnt_ >= 1
               /\ d.span[r].pageId_ + d.span[r].cnt_ <= d.brk
    <3>1. CASE r = s
      BY <1>2, <3>1 DEF LiesIn
    <3>2. CASE r # s
      <4>1. r \in Live(c) /\ d.span[r] = c.span[r]
        BY <1>2, <3>2
      <4>2. c.brk <= d.brk
        BY <1>4 DEF LiesIn
      <4> QED BY <1>3, <1>4, <1>5, <4>1, <4>2
    <3> QED BY <3>1, <3>2
  <2>2. ASSUME NEW r \in Live(d), NEW q \in Live(d), r # q
        PROVE  Apart(d.span[r], d.span[q])
    <3>1. CASE r # s /\ q # s
      BY <1>1, <1>2, <2>2, <3>1 DEF Laid
    <3>2. CASE r = s \/ q = s
      BY <1>2, <1>6, <2>2, <3>2
    <3> QED BY <3>1, <3>2
  <2> QED BY <2>1, <2>2 DEF Laid
<1>8. Listing(d, Y \cup {s})
  <2>1. /\ d.spanlists_ = c.spanlists_ /\ Live(c) \ (Y \cup {s}) = Live(d) \ (Y \cup {s})
        /\ \A r \in Live(c) : r \notin Y \cup {s} => d.span[r] = c.span[r]
        /\ \A r \in Live(c) : r \in Y \cup {s} => r \in Y \/ c.span[r].used_
    BY <1>2 DEF SameLists
  <2> QED BY <1>1, <2>1, ListingKept
<1>9. \A p \in DOMAIN d.hash_ : p \in Nat /\ \E r \in Live(c) : Within(p, c.span[r])
  BY <1>1 DEF Mapping, SameLists
<1>10. Mapping(d, X \cup {s})
  <2>1. \A p \in DOMAIN d.hash_ : \E r \in Live(d) : Within(p, d.span[r])
    BY <1>2, <1>9
  <2>2. \A r \in Live(d) : r \notin X \cup {s} => r \in Live(c) /\ r \notin X /\ d.span[r] = c.span[r]
    BY <1>2
  <2>3. d.hash_ = c.hash_
    BY DEF SameLists
  <2>4. \A r \in Live(d) : r \notin X \cup {s} /\ d.span[r].used_ => Whole(d.hash_, d.span[r], r)
    BY <1>1, <2>2, <2>3 DEF Mapping
  <2>5. \A r \in Live(d) : r \notin X \cup {s} /\ ~d.span[r].used_ => Ends(d.hash_, d.span[r], r)
    BY <1>1, <2>2, <2>3 DEF Mapping
  <2> QED BY <1>9, <2>1, <2>4, <2>5 DEF Mapping
<1>11. \A p \in DOMAIN d.hash_ : ~Within(p, a)
  <2> SUFFICES ASSUME NEW p \in DOMAIN d.hash_, Within(p, a) PROVE FALSE
    OBVIOUS
  <2>1. PICK r \in Live(c) : p \in Nat /\ Within(p, c.span[r])
    BY <1>9
  <2>2. Apart(c.span[r], a)
    BY <1>6
  <2> QED BY <1>3, <1>4, <2>1, <2>2 DEF Apart, Within
<1>12. KeepsUsed(c, d)
  BY <1>2 DEF KeepsUsed, Used, LiesIn
<1>13. Covers(c, d)
  BY <1>2 DEF Covers
<1> QED BY <1>1, <1>2, <1>7, <1>8, <1>10, <1>11, <1>12, <1>13 DEF Good, Added

\* Span s is cut in two: its first pages are those of a new span k.
IsCut(old, a, b) ==
  /\ a \in SpanT /\ b \in SpanT /\ ~a.used_ /\ ~b.used_
  /\ a.cnt_ >= 1 /\ b.cnt_ >= 1 /\ a.cnt_ + b.cnt_ = old.cnt_
  /\ a.pageId_ = old.pageId_ /\ b.pageId_ = old.pageId_ + a.cnt_

\* A live span that is not in use
IsFree(c, s) == s \in Live(c) /\ ~c.span[s].used_

\* Of the two, k has record a and s record b.
CutTo(c, d, s, k, a, b) ==
  Live(d) = Live(c) \cup {k} /\ k # s /\ d.span[k] = a /\ d.span[s] = b

\* Cutting a span in two keeps the cache good, but for the two, which are not
\* mapped yet.
LEMMA CutGood ==
  ASSUME NEW Y, NEW X, NEW c, Good(c, Y, X), NEW s \in Y, IsFree(c, s),
         NEW m, NEW k, NEW a, Took(c, m, k, a),
         NEW d \in CacheT, NEW b, IsPut(m, d, s, b), SamePool(m, d), IsCut(c.span[s], a, b),
         SameLists(c, d), d.brk = c.brk
  PROVE  /\ Good(d, Y \cup {k}, X \cup {s, k}) /\ KeepsUsed(c, d) /\ Covers(c, d)
         /\ CutTo(c, d, s, k, a, b)
<1> USE DEF IsFree
<1>1. /\ c \in CacheT /\ PoolOk(c) /\ Laid(c) /\ Listing(c, Y) /\ Mapping(c, X)
  BY DEF Good
<1>2. k \notin Live(c) /\ k # s
  BY DEF Took
<1>3. Ids(d) = Ids(m) /\ d.pool = m.pool
  BY DEF SamePool
<1>4. Live(d) = Live(c) \cup {k} /\ PoolOk(d)
  BY <1>3 DEF Took, Live, PoolOk
<1>5. d.span[k] = a /\ d.span[s] = b /\ \A r \in Live(c) : r # s => d.span[r] = c.span[r]
  <2>1. k \in Ids(m) /\ \A r \in Live(c) : r \in Ids(c) /\ r \in Ids(m)
    BY DEF Took, Live
  <2> QED BY <1>2, <2>1 DEF Took, IsPut
<1>6. \A r \in Live(c) : c.span[r].pageId_ \in Nat /\ c.span[r].cnt_ \in Nat
  BY <1>1, LiveAre
<1>7. a.pageId_ \in Nat /\ a.cnt_ \in Nat /\ b.pageId_ \in Nat /\ b.cnt_ \in Nat
  BY SpanFields DEF IsCut
<1>8. c.brk \in Nat
  BY <1>1, FieldsAre
<1>9. \A r \in Live(c) : /\ c.span[r].pageId_ >= 1 /\ c.span[r].cnt_ >= 1
                         /\ c.span[r].pageId_ + c.span[r].cnt_ <= c.brk
  BY <1>1 DEF Laid
<1>10. ASSUME NEW r \in Live(c), r # s
       PROVE  /\ Apart(c.span[r], a) /\ Apart(a, c.span[r])
              /\ Apart(c.span[r], b) /\ Apart(b, c.span[r])
  <2>1. Apart(c.span[r], c.span[s])
    BY <1>1, <1>10 DEF Laid
  <2> QED BY <1>6, <1>7, <2>1 DEF Apart, IsCut
<1>11. Apart(a, b) /\ Apart(b, a)
  BY <1>6, <1>7 DEF Apart, IsCut
<1>12. Laid(d)
  <2>1. ASSUME NEW r \in Live(d)
        PROVE  /\ d.span[r].pageId_ >= 1 /\ d.span[r].cnt_ >= 1
               /\ d.span[r].pageId_ + d.span[r].cnt_ <= d.brk
    <3>1. CASE r = k
      BY <1>5, <1>6, <1>7, <1>8, <1>9, <3>1 DEF IsCut
    <3>2. CASE r = s
      BY <1>5, <1>6, <1>7, <1>8, <1>9, <3>2 DEF IsCut
    <3>3. CASE r # s /\ r # k
      BY <1>4, <1>5, <1>9, <3>3
    <3> QED BY <3>1, <3>2, <3>3
  <2>2. ASSUME NEW r \in Live(d), NEW q \in Live(d), r # q
        PROVE  Apart(d.span[r], d.span[q])
    <3>1. CASE r \in {s, k} /\ q \in {s, k}
      BY <1>5, <1>11, <2>2, <3>1
    <3>2. CASE r \notin {s, k} /\ q \in {s, k}
      BY <1>4, <1>5, <1>10, <3>2
    <3>3. CASE r \in {s, k} /\ q \notin {s, k}
      BY <1>4, <1>5, <1>10, <3>3
    <3>4. CASE r \notin {s, k} /\ q \notin {s, k}
      BY <1>1, <1>4, <1>5, <2>2, <3>4 DEF Laid
    <3> QED BY <3>1, <3>2, <3>3, <3>4
  <2> QED BY <2>1, <2>2 DEF Laid
<1>13. Listing(d, Y \cup {k})
  <2>1. /\ d.spanlists_ = c.spanlists_ /\ Live(c) \ (Y \cup {k}) = Live(d) \ (Y \cup {k})
        /\ \A r \in Live(c) : r \notin Y \cup {k} => d.span[r] = c.span[r]
        /\ \A r \in Live(c) : r \in Y \cup {k} => r \in Y \/ c.span[r].used_
    BY <1>2, <1>4, <1>5 DEF SameLists
  <2> QED BY <1>1, <2>1, ListingKept
<1>14. Covers(c, d)
  <2> SUFFICES ASSUME NEW p \in Nat, NEW r \in Live(c), Within(p, c.span[r])
               PROVE  \E q \in Live(d) : Within(p, d.span[q])
    BY DEF Covers
  <2>1. CASE r # s
    BY <1>4, <1>5, <2>1
  <2>2. CASE r = s
    <3>1. Within(p, a) \/ Within(p, b)
      BY <1>6, <1>7, <2>2 DEF Within, IsCut
    <3> QED BY <1>4, <1>5, <3>1
  <2> QED BY <2>1, <2>2
<1>15. Mapping(d, X \cup {s, k})
  <2>1. d.hash_ = c.hash_
    BY DEF SameLists
  <2>2. \A p \in DOMAIN d.hash_ : p \in Nat /\ \E r \in Live(d) : Within(p, d.span[r])
    BY <1>1, <1>14, <2>1 DEF Mapping, Covers
  <2>3. \A r \in Live(d) : r \notin X \cup {s, k} => r \in Live(c) /\ r \notin X /\ d.span[r] = c.span[r]
    BY <1>4, <1>5
  <2>4. \A r \in Live(d) : r \notin X \cup {s, k} /\ d.span[r].used_ => Whole(d.hash_, d.span[r], r)
    BY <1>1, <2>1, <2>3 DEF Mapping
  <2>5. \A r \in Live(d) : r \notin X \cup {s, k} /\ ~d.span[r].used_ => Ends(d.hash_, d.span[r], r)
    BY <1>1, <2>1, <2>3 DEF Mapping
  <2> QED BY <2>2, <2>4, <2>5 DEF Mapping
<1>16. KeepsUsed(c, d)
  BY <1>2, <1>4, <1>5 DEF KeepsUsed, Used, IsCut
<1> QED BY <1>2, <1>4, <1>5, <1>12, <1>13, <1>14, <1>15, <1>16 DEF Good, CutTo

-----------------------------------------------------------------------------
(* The page map *)

\* Pages of span s are set.
LEMMA SetGood ==
  ASSUME NEW Y, NEW X, NEW c, Good(c, Y, X), NEW s \in Live(c), NEW pages \in SUBSET Nat,
         \A p \in pages : Within(p, c.span[s]), NEW d, d = Set(c, pages, s)
  PROVE  /\ Good(d, Y, X \cup {s}) /\ d.span = c.span /\ d.pool = c.pool /\ Live(d) = Live(c)
         /\ d.spanlists_ = c.spanlists_ /\ d.brk = c.brk /\ d.res = c.res
         /\ IsSet(c.hash_, d.hash_, pages, s)
<1>1. /\ c \in CacheT /\ PoolOk(c) /\ Laid(c) /\ Listing(c, Y) /\ Mapping(c, X)
  BY DEF Good
<1>2. s \in Nat
  BY <1>1, LiveAre
<1>3. /\ d \in CacheT /\ d.span = c.span /\ d.brk = c.brk /\ d.pool = c.pool
      /\ d.spanlists_ = c.spanlists_ /\ d.res = c.res
      /\ IsSet(c.hash_, d.hash_, pages, s)
  BY <1>1, <1>2, SetIs
<1>4. Live(d) = Live(c) /\ Ids(d) = Ids(c)
  BY <1>3 DEF Live, Ids
<1>5. PoolOk(d) /\ Laid(d) /\ Listing(d, Y)
  <2>1. PoolOk(d)
    BY <1>1, <1>3, <1>4 DEF PoolOk
  <2>2. Laid(d)
    BY <1>1, <1>3, <1>4 DEF Laid
  <2>3. Listing(d, Y)
    BY <1>1, <1>3, <1>4 DEF Listing
  <2> QED BY <2>1, <2>2, <2>3
<1>6. \A r \in Live(c) : c.span[r].pageId_ \in Nat /\ c.span[r].cnt_ \in Nat /\ c.span[r].cnt_ >= 1
  BY <1>1, LiveAre DEF Laid
<1>7. ASSUME NEW r \in Live(c), r # s, NEW p \in pages, Within(p, c.span[r]) PROVE FALSE
  <2>1. Apart(c.span[r], c.span[s])
    BY <1>1, <1>7 DEF Laid
  <2>2. Within(p, c.span[s]) /\ p \in Nat
    OBVIOUS
  <2> QED BY <1>6, <1>7, <2>1, <2>2 DEF Apart, Within
<1>8. ASSUME NEW r \in Live(c), r # s, NEW p \in DOMAIN c.hash_, Within(p, c.span[r])
      PROVE  p \in DOMAIN d.hash_ /\ d.hash_[p] = c.hash_[p]
  BY <1>3, <1>7, <1>8 DEF IsSet
<1>9. \A p \in DOMAIN d.hash_ : p \in Nat /\ \E r \in Live(d) : Within(p, d.span[r])
  <2>1. DOMAIN d.hash_ = DOMAIN c.hash_ \cup pages
    BY <1>3 DEF IsSet
  <2> QED BY <1>1, <1>3, <1>4, <2>1 DEF Mapping
<1>10. ASSUME NEW r \in Live(c), r # s, Whole(c.hash_, c.span[r], r)
       PROVE  Whole(d.hash_, c.span[r], r)
  <2>1. Within(c.span[r].pageId_, c.span[r])
    BY <1>6 DEF Within
  <2>2. Leads(d.hash_, c.span[r].pageId_, r)
    BY <1>8, <1>10, <2>1 DEF Leads, Whole
  <2>3. ASSUME NEW p \in DOMAIN d.hash_, Within(p, c.span[r]) PROVE d.hash_[p] = r
    <3>1. p \in DOMAIN c.hash_
      BY <1>3, <1>7, <1>10, <2>3 DEF IsSet
    <3> QED BY <1>8, <1>10, <2>3, <3>1 DEF Whole
  <2>4. ASSUME c.span[r].cnt_ <= kMaxPages, NEW p \in Nat, Within(p, c.span[r])
        PROVE  p \in DOMAIN d.hash_
    BY <1>8, <1>10, <2>4 DEF Whole
  <2> QED BY <2>2, <2>3, <2>4 DEF Whole
<1>11. ASSUME NEW r \in Live(c), r # s, Ends(c.hash_, c.span[r], r)
       PROVE  Ends(d.hash_, c.span[r], r)
  <2>1. Within(c.span[r].pageId_, c.span[r])
    BY <1>6 DEF Within
  <2>2. Within(c.span[r].pageId_ + c.span[r].cnt_ - 1, c.span[r])
    BY <1>6 DEF Within
  <2> QED BY <1>8, <1>11, <2>1, <2>2 DEF Leads, Ends
<1>12. \A r \in Live(d) : r \notin X \cup {s} /\ d.span[r].used_ => Whole(d.hash_, d.span[r], r)
  BY <1>1, <1>3, <1>4, <1>10 DEF Mapping
<1>13. \A r \in Live(d) : r \notin X \cup {s} /\ ~d.span[r].used_ => Ends(d.hash_, d.span[r], r)
  BY <1>1, <1>3, <1>4, <1>11 DEF Mapping
<1>14. Mapping(d, X \cup {s})
  BY <1>9, <1>12, <1>13 DEF Mapping
<1> QED BY <1>3, <1>4, <1>5, <1>14 DEF Good

\* A span that is mapped as it should be needs no exception.
LEMMA UnexceptGood ==
  ASSUME NEW Y, NEW X, NEW c, NEW s, Good(c, Y, X \cup {s}),
         c.span[s].used_ => Whole(c.hash_, c.span[s], s),
         ~c.span[s].used_ => Ends(c.hash_, c.span[s], s)
  PROVE  Good(c, Y, X \ {s})
<1>1. Mapping(c, X \cup {s})
  BY DEF Good
<1>2. \A r \in Live(c) : r \notin X \ {s} /\ c.span[r].used_ => Whole(c.hash_, c.span[r], r)
  BY <1>1 DEF Mapping
<1>3. \A r \in Live(c) : r \notin X \ {s} /\ ~c.span[r].used_ => Ends(c.hash_, c.span[r], r)
  BY <1>1 DEF Mapping
<1>4. Mapping(c, X \ {s})
  BY <1>1, <1>2, <1>3 DEF Mapping
<1> QED BY <1>4 DEF Good

\* A span that is not in use is mapped once its two ends are.
LEMMA MapEndsGood ==
  ASSUME NEW Y, NEW X, NEW c, Good(c, Y, X), NEW s, IsFree(c, s),
         NEW d, d = MapEnds(c, s)
  PROVE  /\ Good(d, Y, X \ {s}) /\ d.span = c.span /\ d.pool = c.pool /\ Live(d) = Live(c)
         /\ d.spanlists_ = c.spanlists_ /\ d.brk = c.brk /\ d.res = c.res
<1> USE DEF IsFree
<1> DEFINE first == c.span[s].pageId_
           last  == c.span[s].pageId_ + c.span[s].cnt_ - 1
           pages == {first, last}
<1>1. c.span[s].pageId_ \in Nat /\ c.span[s].cnt_ \in Nat /\ c.span[s].cnt_ >= 1
  BY LiveAre DEF Good, Laid
<1>2. pages \in SUBSET Nat /\ \A p \in pages : Within(p, c.span[s])
  BY <1>1 DEF Within
<1>3. d = Set(c, pages, s)
  BY DEF MapEnds
<1>4. first \in pages /\ last \in pages
  OBVIOUS
<1> HIDE DEF pages
<1>5. /\ Good(d, Y, X \cup {s}) /\ d.span = c.span /\ d.pool = c.pool /\ Live(d) = Live(c)
      /\ d.spanlists_ = c.spanlists_ /\ d.brk = c.brk /\ d.res = c.res
      /\ IsSet(c.hash_, d.hash_, pages, s)
  BY <1>2, <1>3, SetGood
<1>6. Ends(d.hash_, d.span[s], s)
  BY <1>4, <1>5 DEF Ends, Leads, IsSet
<1>7. ~d.span[s].used_
  BY <1>5
<1>8. Good(d, Y, X \ {s})
  BY <1>5, <1>6, <1>7, UnexceptGood
<1> QED BY <1>5, <1>8

\* A span is mapped once all its pages are.
LEMMA MapAllGood ==
  ASSUME NEW Y, NEW X, NEW c, Good(c, Y, X), NEW s \in Live(c), NEW d, d = MapAll(c, s)
  PROVE  /\ Good(d, Y, X \ {s}) /\ d.span = c.span /\ d.pool = c.pool /\ Live(d) = Live(c)
         /\ d.spanlists_ = c.spanlists_ /\ d.brk = c.brk /\ d.res = c.res
         /\ Whole(d.hash_, d.span[s], s)
<1> DEFINE pages == PagesOf(c.span[s])
           first == c.span[s].pageId_
           last  == c.span[s].pageId_ + c.span[s].cnt_ - 1
<1>1. c.span[s].pageId_ \in Nat /\ c.span[s].cnt_ \in Nat /\ c.span[s].cnt_ >= 1
  BY LiveAre DEF Good, Laid
<1>2. pages \in SUBSET Nat /\ \A p \in Nat : p \in pages <=> Within(p, c.span[s])
  BY <1>1 DEF Within, PagesOf
<1>3. d = Set(c, pages, s)
  BY DEF MapAll
<1>4. first \in pages /\ last \in pages
  BY <1>1 DEF PagesOf
<1> HIDE DEF pages
<1>5. \A p \in pages : Within(p, c.span[s])
  BY <1>2
<1>6. /\ Good(d, Y, X \cup {s}) /\ d.span = c.span /\ d.pool = c.pool /\ Live(d) = Live(c)
      /\ d.spanlists_ = c.spanlists_ /\ d.brk = c.brk /\ d.res = c.res
      /\ IsSet(c.hash_, d.hash_, pages, s)
  BY <1>2, <1>3, <1>5, SetGood
<1>7. Ends(d.hash_, d.span[s], s)
  BY <1>4, <1>6 DEF Ends, Leads, IsSet
<1>8. Whole(d.hash_, d.span[s], s)
  <2>1. \A p \in DOMAIN d.hash_ : p \in Nat
    BY <1>6 DEF Good, Mapping
  <2>2. Leads(d.hash_, d.span[s].pageId_, s)
    BY <1>7 DEF Ends
  <2>3. \A p \in DOMAIN d.hash_ : Within(p, d.span[s]) => d.hash_[p] = s
    BY <1>2, <1>6, <2>1 DEF IsSet
  <2>4. \A p \in Nat : Within(p, d.span[s]) => p \in DOMAIN d.hash_
    BY <1>2, <1>6 DEF IsSet
  <2> QED BY <2>2, <2>3, <2>4 DEF Whole
<1>9. Good(d, Y, X \ {s})
  BY <1>6, <1>7, <1>8, UnexceptGood
<1> QED BY <1>6, <1>8, <1>9

\* A span too large for the lists, of which no page has been set
LEMMA MapFirstGood ==
  ASSUME NEW Y, NEW X, NEW c, Good(c, Y, X), NEW s \in Live(c),
         \A p \in DOMAIN c.hash_ : ~Within(p, c.span[s]), ~(c.span[s].cnt_ <= kMaxPages),
         NEW d, d = Set(c, {c.span[s].pageId_}, s)
  PROVE  /\ Good(d, Y, X \cup {s}) /\ d.span = c.span /\ d.pool = c.pool /\ Live(d) = Live(c)
         /\ d.spanlists_ = c.spanlists_ /\ d.brk = c.brk /\ d.res = c.res
         /\ Whole(d.hash_, d.span[s], s)
<1> DEFINE pages == {c.span[s].pageId_}
<1>1. c.span[s].pageId_ \in Nat /\ c.span[s].cnt_ \in Nat /\ c.span[s].cnt_ >= 1
  BY LiveAre DEF Good, Laid
<1>2. pages \in SUBSET Nat /\ (\A p \in pages : Within(p, c.span[s])) /\ c.span[s].pageId_ \in pages
  BY <1>1 DEF Within
<1>3. d = Set(c, pages, s)
  OBVIOUS
<1> HIDE DEF pages
<1>4. /\ Good(d, Y, X \cup {s}) /\ d.span = c.span /\ d.pool = c.pool /\ Live(d) = Live(c)
      /\ d.spanlists_ = c.spanlists_ /\ d.brk = c.brk /\ d.res = c.res
      /\ IsSet(c.hash_, d.hash_, pages, s)
  BY <1>2, <1>3, SetGood
<1>5. Whole(d.hash_, d.span[s], s)
  BY <1>2, <1>4 DEF Whole, Leads, IsSet
<1> QED BY <1>4, <1>5

-----------------------------------------------------------------------------
(* Records of spans in use *)

\* What two records of a span must share to lie on the same pages
SamePages(a, b) == b \in SpanT /\ b.pageId_ = a.pageId_ /\ b.cnt_ = a.cnt_

InUse(a) == a.used_

\* Span s is in no list.
Unlisted(c, Y, s) == s \in Y \/ c.span[s].used_

\* What does not depend on what else the record says
PutKeeps(c, d, s, a) ==
  /\ Live(d) = Live(c) /\ IsPut(c, d, s, a) /\ Covers(c, d) /\ Len(d.span) = Len(c.span)
  /\ d.brk = c.brk /\ d.spanlists_ = c.spanlists_ /\ d.hash_ = c.hash_ /\ d.res = c.res

\* Span s gets another record, with the same pages.
LEMMA RecordGood ==
  ASSUME NEW Y, NEW X, NEW c, Good(c, Y, X), NEW s \in Live(c), Unlisted(c, Y, s),
         NEW a, SamePages(c.span[s], a), NEW d, d = Put(c, s, a)
  PROVE  Good(d, Y \cup {s}, X \cup {s}) /\ PutKeeps(c, d, s, a)
<1>1. /\ c \in CacheT /\ PoolOk(c) /\ Laid(c) /\ Listing(c, Y) /\ Mapping(c, X)
  BY DEF Good
<1>2. s \in Ids(c) /\ a \in SpanT
  BY DEF Live, SamePages
<1>3. /\ d \in CacheT /\ IsPut(c, d, s, a) /\ Ids(d) = Ids(c) /\ Len(d.span) = Len(c.span)
      /\ d.brk = c.brk /\ d.pool = c.pool
      /\ d.spanlists_ = c.spanlists_ /\ d.hash_ = c.hash_ /\ d.res = c.res
  BY <1>1, <1>2, PutIs
<1>4. Live(d) = Live(c) /\ PoolOk(d)
  BY <1>1, <1>3 DEF Live, PoolOk
<1>5. d.span[s] = a /\ \A r \in Live(c) : r # s => d.span[r] = c.span[r]
  BY <1>3 DEF IsPut, Live
<1>6. \A r \in Live(c) : d.span[r].pageId_ = c.span[r].pageId_ /\ d.span[r].cnt_ = c.span[r].cnt_
  BY <1>5 DEF SamePages
<1>7. Laid(d)
  BY <1>1, <1>3, <1>4, <1>6 DEF Laid, Apart
<1>8. Listing(d, Y \cup {s})
  <2>1. /\ d.spanlists_ = c.spanlists_ /\ Live(c) \ (Y \cup {s}) = Live(d) \ (Y \cup {s})
        /\ \A r \in Live(c) : r \notin Y \cup {s} => d.span[r] = c.span[r]
        /\ \A r \in Live(c) : r \in Y \cup {s} => r \in Y \/ c.span[r].used_
    BY <1>3, <1>4, <1>5 DEF Unlisted
  <2> QED BY <1>1, <2>1, ListingKept
<1>9. \A p : \A r \in Live(c) : Within(p, c.span[r]) <=> Within(p, d.span[r])
  BY <1>6 DEF Within
<1>10. Covers(c, d)
  BY <1>4, <1>9 DEF Covers
<1>11. Mapping(d, X \cup {s})
  <2>1. \A p \in DOMAIN d.hash_ : p \in Nat /\ \E r \in Live(d) : Within(p, d.span[r])
    BY <1>1, <1>3, <1>10 DEF Mapping, Covers
  <2>2. \A r \in Live(d) : r \notin X \cup {s} => r \in Live(c) /\ r \notin X /\ d.span[r] = c.span[r]
    BY <1>4, <1>5
  <2>3. \A r \in Live(d) : r \notin X \cup {s} /\ d.span[r].used_ => Whole(d.hash_, d.span[r], r)
    BY <1>1, <1>3, <2>2 DEF Mapping
  <2>4. \A r \in Live(d) : r \notin X \cup {s} /\ ~d.span[r].used_ => Ends(d.hash_, d.span[r], r)
    BY <1>1, <1>3, <2>2 DEF Mapping
  <2> QED BY <2>1, <2>3, <2>4 DEF Mapping
<1> QED BY <1>3, <1>4, <1>7, <1>8, <1>10, <1>11 DEF Good, PutKeeps

\* How a span is mapped depends on its pages alone.
LEMMA WholeSame ==
  ASSUME NEW hash, NEW a, NEW b, NEW s, SamePages(a, b), Whole(hash, a, s)
  PROVE  Whole(hash, b, s)
BY DEF SamePages, Whole, Within, Leads

\* A span in use is in no list.
LEMMA UnlistedGood ==
  ASSUME NEW Y, NEW X, NEW c, NEW s, Good(c, Y \cup {s}, X), c.span[s].used_
  PROVE  Good(c, Y \ {s}, X)
<1>1. Listing(c, Y \cup {s})
  BY DEF Good
<1>2. Listing(c, Y \ {s})
  BY <1>1 DEF Listing
<1> QED BY <1>2 DEF Good

\* Besides what was in use, span s is.
NowUsed(c, d, s) == Used(d) = Used(c) \cup {s}

\* The new record says that the span is in use.
LEMMA UseGood ==
  ASSUME NEW Y, NEW X, NEW c, Good(c, Y, X), NEW s \in Live(c), Unlisted(c, Y, s),
         NEW a, SamePages(c.span[s], a), InUse(a), Whole(c.hash_, c.span[s], s),
         NEW d, d = Put(c, s, a)
  PROVE  Good(d, Y \ {s}, X \ {s}) /\ PutKeeps(c, d, s, a) /\ NowUsed(c, d, s)
<1>1. Good(d, Y \cup {s}, X \cup {s}) /\ PutKeeps(c, d, s, a)
  BY RecordGood
<1>2. d.span[s] = a /\ InUse(d.span[s])
  BY <1>1 DEF IsPut, PutKeeps
<1>3. Whole(d.hash_, d.span[s], s)
  BY <1>1, <1>2, WholeSame DEF PutKeeps
<1>4. Good(d, Y \ {s}, X \cup {s})
  BY <1>1, <1>2, UnlistedGood DEF InUse
<1>5. Good(d, Y \ {s}, X \ {s})
  <2>1. d.span[s].used_ => Whole(d.hash_, d.span[s], s)
    BY <1>3
  <2>2. ~d.span[s].used_ => Ends(d.hash_, d.span[s], s)
    BY <1>2 DEF InUse
  <2> QED BY <1>4, <2>1, <2>2, UnexceptGood
<1>6. Used(d) = Used(c) \cup {s}
  BY <1>1, <1>2 DEF Used, IsPut, Live, InUse, PutKeeps
<1> QED BY <1>1, <1>5, <1>6 DEF NowUsed

-----------------------------------------------------------------------------
\* What newSpan returns: span s of n pages, that is in no list and not yet in use.
New(c, d, s, n) ==
  /\ Good(d, {s}, {s}) /\ KeepsUsed(c, d) /\ Covers(c, d)
  /\ d.res = s /\ s \in Live(d) /\ s \notin Used(c)
  /\ ~d.span[s].used_ /\ d.span[s].cnt_ = n /\ d.span[s].useCnt_ = 0
  /\ Whole(d.hash_, d.span[s], s)

\* An exception more does no harm.
LEMMA GoodMore ==
  ASSUME NEW Y, NEW X, NEW c, Good(c, Y, X), NEW W, X \subseteq W
  PROVE  Good(c, Y, W)
<1>1. Mapping(c, X)
  BY DEF Good
<1>2. Mapping(c, W)
  BY <1>1 DEF Mapping
<1> QED BY <1>2 DEF Good

\* res plays no part.
SameButRes(c, d) ==
  /\ d \in CacheT /\ d.brk = c.brk /\ d.span = c.span /\ d.pool = c.pool
  /\ d.spanlists_ = c.spanlists_ /\ d.hash_ = c.hash_

\* The result of an operation is no part of what makes a cache good.
LEMMA SameGood ==
  ASSUME NEW Y, NEW X, NEW c, Good(c, Y, X), NEW d, SameButRes(c, d)
  PROVE  Good(d, Y, X)
<1> USE DEF SameButRes
<1>1. Live(d) = Live(c) /\ Ids(d) = Ids(c)
  BY DEF Live, Ids
<1>2. PoolOk(d)
  BY <1>1 DEF Good, PoolOk
<1>3. Laid(d)
  BY <1>1 DEF Good, Laid
<1>4. Listing(d, Y)
  BY <1>1 DEF Good, Listing
<1>5. Mapping(d, X)
  BY <1>1 DEF Good, Mapping
<1> QED BY <1>2, <1>3, <1>4, <1>5 DEF Good

\* newSpan with a span of just the right size in its list
LEMMA TakeSpanIs ==
  ASSUME NEW X, NEW c, Good(c, {}, X), NEW n \in 1 .. kMaxPages, c.spanlists_[n] # <<>>,
         X \subseteq {Head(c.spanlists_[n])}, NEW d, d = TakeSpan(c, n)
  PROVE  \E s : New(c, d, s, n)
<1> DEFINE s == Head(c.spanlists_[n])
           m == PopFront(c, n)
           e == MapAll(m, s)
<1>1. Good(m, {} \cup {s}, X) /\ LinksOnly(c, m) /\ Spare(c, {}, s, n)
  BY PopGood
<1>2. X \subseteq {s}
  OBVIOUS
<1>3. d = [e EXCEPT !.res = s]
  BY DEF TakeSpan
<1> HIDE DEF s, m
<1>4. s \in Live(c) /\ ~c.span[s].used_ /\ c.span[s].cnt_ = n /\ c.span[s].useCnt_ = 0
  BY <1>1 DEF Spare
<1>5. m.span = c.span /\ m.pool = c.pool /\ Live(m) = Live(c)
  BY <1>1, SameSpans DEF LinksOnly
<1>6. Good(m, {s}, X)
  <2>1. {} \cup {s} = {s}
    OBVIOUS
  <2> QED BY <1>1, <2>1
<1>7. /\ Good(e, {s}, X \ {s}) /\ e.span = m.span /\ e.pool = m.pool /\ Live(e) = Live(m)
      /\ Whole(e.hash_, e.span[s], s)
  BY <1>4, <1>5, <1>6, MapAllGood
<1> HIDE DEF e
<1>8. e \in CacheT /\ s \in Nat /\ c \in CacheT
  BY <1>4, <1>7, LiveAre DEF Good
<1>9. /\ d \in CacheT /\ d.brk = e.brk /\ d.span = e.span /\ d.pool = e.pool
      /\ d.spanlists_ = e.spanlists_ /\ d.hash_ = e.hash_ /\ d.res = s
  BY <1>3, <1>8, SetRes
<1>10. Live(d) = Live(e) /\ Ids(d) = Ids(e)
  BY <1>9 DEF Live, Ids
<1>11. Good(d, {s}, X \ {s})
  <2>1. SameButRes(e, d)
    BY <1>9 DEF SameButRes
  <2> QED BY <1>7, <2>1, SameGood
<1>12. Good(d, {s}, {s})
  BY <1>2, <1>11, GoodMore
<1>13. KeepsUsed(c, d) /\ Covers(c, d)
  BY <1>5, <1>7, <1>9, SameSpans
<1> QED BY <1>4, <1>5, <1>7, <1>9, <1>10, <1>12, <1>13 DEF New, Used

-----------------------------------------------------------------------------
(* The heap grows *)

\* The record of a fresh span
LEMMA FreshIs ==
  ASSUME NEW page \in Nat, NEW n \in Nat
  PROVE  /\ FreshSpan(page, n) \in SpanT
         /\ FreshSpan(page, n).pageId_ = page /\ FreshSpan(page, n).cnt_ = n
         /\ FreshSpan(page, n).useCnt_ = 0 /\ ~FreshSpan(page, n).used_
BY DEF FreshSpan, SpanT

\* A fresh span above the heap
AboveIs(c, d, s, page, n) ==
  /\ Good(d, {s}, {s}) /\ KeepsUsed(c, d) /\ Covers(c, d) /\ SameLists(c, d)
  /\ s \in Live(d) /\ s \notin Live(c) /\ d.span[s] = FreshSpan(page, n)
  /\ \A p \in DOMAIN d.hash_ : ~Within(p, d.span[s])

\* A Span at the new end of the heap keeps the cache good, but for that Span,
\* which is in no list and not mapped.
LEMMA Above ==
  ASSUME NEW c, Good(c, {}, {}), NEW n \in Nat, n >= 1, NEW page \in Nat, page >= c.brk, page >= 1,
         NEW m, m = [c EXCEPT !.brk = page + n],
         NEW d, d = Alloc(m, FreshSpan(page, n)), NEW s, s = NextSpan(c)
  PROVE  AboveIs(c, d, s, page, n) /\ d.res = c.res
<1> DEFINE a == FreshSpan(page, n)
           b == page + n
<1>1. c \in CacheT /\ PoolOk(c)
  BY DEF Good
<1>2. b \in Nat /\ page <= b /\ c.brk \in Nat
  BY <1>1, FieldsAre
<1>3. m = [c EXCEPT !.brk = b]
  OBVIOUS
<1> HIDE DEF b
<1>4. /\ m \in CacheT /\ m.brk = b /\ m.span = c.span /\ m.pool = c.pool
      /\ m.spanlists_ = c.spanlists_ /\ m.hash_ = c.hash_ /\ m.res = c.res
  BY <1>1, <1>2, <1>3, SetBrk
<1>5. PoolOk(m) /\ NextSpan(m) = NextSpan(c) /\ Live(m) = Live(c) /\ Ids(m) = Ids(c)
  BY <1>1, <1>4 DEF PoolOk, NextSpan, Live, Ids
<1>6. a \in SpanT /\ a.pageId_ = page /\ a.cnt_ = n /\ ~a.used_
  BY FreshIs
<1>7. s = NextSpan(m) /\ d = Alloc(m, a)
  BY <1>5
<1> HIDE DEF a
<1>8. d \in CacheT /\ Took(m, d, s, a) /\ SameRest(m, d)
  <2>1. a \in SpanT /\ m \in CacheT
    BY <1>4, <1>6
  <2> QED BY <1>5, <1>7, <2>1, AllocIs
<1>9. Took(c, d, s, a)
  BY <1>4, <1>5, <1>8 DEF Took, IsPut
<1>10. SameLists(c, d) /\ d.brk = b
  BY <1>4, <1>8 DEF SameLists, SameRest
<1>11. LiesIn(a, c.brk, d.brk)
  <2>1. a.pageId_ + a.cnt_ <= d.brk
    BY <1>2, <1>6, <1>10 DEF b
  <2> QED BY <1>6, <2>1 DEF LiesIn
<1>12. Good(d, {} \cup {s}, {} \cup {s}) /\ Added(c, d, a)
  BY <1>8, <1>9, <1>10, <1>11, TookGood
<1>13. {} \cup {s} = {s}
  OBVIOUS
<1>14. s \in Live(d) /\ s \notin Live(c) /\ d.span[s] = a
  BY <1>9 DEF Took, IsPut
<1>15. d.res = c.res
  BY <1>4, <1>8 DEF SameRest
<1> QED BY <1>10, <1>12, <1>13, <1>14, <1>15 DEF AboveIs, Added, a

\* Above in the form the two callers have
LEMMA NewHugeSpanIs ==
  ASSUME NEW c, Good(c, {}, {}), NEW n \in Nat, ~(n <= kMaxPages), NEW gap \in Nat, c.brk >= 1,
         NEW d, d = NewHugeSpan(c, n, gap)
  PROVE  \E s : New(c, d, s, n)
<1> DEFINE page == c.brk + gap
           s == NextSpan(c)
           m == [c EXCEPT !.brk = page + n]
           e == Alloc(m, FreshSpan(page, n))
           f == Set(e, {page}, s)
<1>1. c \in CacheT /\ PoolOk(c) /\ c.brk \in Nat
  BY FieldsAre DEF Good
<1>2. page \in Nat /\ page >= c.brk /\ page >= 1 /\ n >= 1
  BY <1>1, Bucket
<1>3. AboveIs(c, e, s, page, n)
  <2> HIDE DEF page, s
  <2> QED BY <1>2, Above DEF s
<1>4. d = [f EXCEPT !.res = s]
  <2> DEFINE m2 == [c EXCEPT !.brk = page + n, !.res = s]
             e2 == Alloc(m2, FreshSpan(page, n))
  <2>1. d = Set(e2, {page}, s)
    BY DEF NewHugeSpan
  <2>2. m2 = [m EXCEPT !.res = s]
    BY <1>1 DEF CacheT
  <2>3. m \in CacheT /\ m.pool = c.pool /\ m.span = c.span
    <3> DEFINE b == page + n
    <3>1. b \in Nat
      BY <1>2
    <3> HIDE DEF b, page
    <3>2. m = [c EXCEPT !.brk = b]
      BY DEF b
    <3> HIDE DEF m
    <3> QED BY <1>1, <3>1, <3>2, SetBrk
  <2>4. e2 = [e EXCEPT !.res = s]
    <3> HIDE DEF m, s, page
    <3> USE DEF Alloc, CacheT
    <3>1. CASE c.pool = <<>>
      BY <2>2, <2>3, <3>1
    <3>2. CASE c.pool # <<>>
      BY <2>2, <2>3, <3>2
    <3> QED BY <3>1, <3>2
  <2>5. e \in CacheT
    BY <1>3 DEF AboveIs, Good
  <2> HIDE DEF m, m2, e, e2, s, page
  <2>6. Set(e2, {page}, s) = [Set(e, {page}, s) EXCEPT !.res = s]
    BY <2>4, <2>5 DEF Set, CacheT
  <2> QED BY <2>1, <2>6
<1> HIDE DEF m, e, f, s, page
<1>5. /\ Good(e, {s}, {s}) /\ KeepsUsed(c, e) /\ Covers(c, e)
      /\ s \in Live(e) /\ s \notin Live(c) /\ e.span[s] = FreshSpan(page, n)
      /\ \A p \in DOMAIN e.hash_ : ~Within(p, e.span[s])
  BY <1>3 DEF AboveIs
<1>6. /\ e.span[s].pageId_ = page /\ e.span[s].cnt_ = n /\ e.span[s].useCnt_ = 0
      /\ ~e.span[s].used_
  BY <1>2, <1>5, FreshIs
<1>7. /\ Good(f, {s}, {s} \cup {s}) /\ f.span = e.span /\ f.pool = e.pool /\ Live(f) = Live(e)
      /\ Whole(f.hash_, f.span[s], s)
  <2>1. f = Set(e, {e.span[s].pageId_}, s)
    BY <1>6 DEF f
  <2>2. ~(e.span[s].cnt_ <= kMaxPages)
    BY <1>6
  <2> QED BY <1>5, <2>1, <2>2, MapFirstGood
<1>8. {s} \cup {s} = {s}
  OBVIOUS
<1>9. f \in CacheT /\ s \in Nat
  BY <1>5, <1>7, LiveAre DEF Good
<1>10. SameButRes(f, d) /\ d.res = s
  BY <1>4, <1>9, SetRes DEF SameButRes
<1>11. Good(d, {s}, {s})
  BY <1>7, <1>8, <1>10, SameGood
<1>12. d.span = e.span /\ d.pool = e.pool /\ d.hash_ = f.hash_ /\ f.span = e.span
  BY <1>7, <1>10 DEF SameButRes
<1>13. Live(d) = Live(e) /\ KeepsUsed(e, d) /\ Covers(e, d)
  BY <1>12, SameSpans
<1>14. KeepsUsed(c, d) /\ Covers(c, d)
  BY <1>5, <1>13, KeepsTransitive
<1> QED BY <1>5, <1>6, <1>7, <1>10, <1>11, <1>12, <1>13, <1>14 DEF New, Used

\* The smallest of a set of numbers is one of them.
LEMMA MinIn ==
  ASSUME NEW S \in SUBSET Nat, S # {}
  PROVE  Min(S) \in S
<1>1. PICK x \in S : \A y \in S : ~ (<<y, x>> \in OpToRel(<, Nat))
  BY NatLessThanWellFounded, WFMin
<1>2. \A y \in S : ~(y < x)
  BY <1>1 DEF OpToRel
<1>3. \A y \in S : x <= y
  BY <1>2
<1> QED BY <1>3 DEF Min

\* Span s, fresh and not mapped, is the first of the longest list.
Grown(c, d, s) ==
  /\ Good(d, {}, {s}) /\ KeepsUsed(c, d) /\ Covers(c, d)
  /\ d.spanlists_[kMaxPages] # <<>> /\ Head(d.spanlists_[kMaxPages]) = s
  /\ \A n \in 1 .. kMaxPages : n # kMaxPages => d.spanlists_[n] = c.spanlists_[n]

\* newSpan asks sbrk for the longest span there is a list for, and puts it on
\* that list.
LEMMA GrowIs ==
  ASSUME NEW c, Good(c, {}, {}), NEW gap \in Nat, c.brk >= 1, NEW d, d = Grow(c, gap)
  PROVE  Grown(c, d, NextSpan(c))
<1> DEFINE page == c.brk + gap
           s == NextSpan(c)
           m == [c EXCEPT !.brk = page + kMaxPages]
           e == Alloc(m, FreshSpan(page, kMaxPages))
<1>1. c \in CacheT /\ c.brk \in Nat
  BY FieldsAre DEF Good
<1>2. page \in Nat /\ page >= c.brk /\ page >= 1 /\ kMaxPages \in Nat /\ kMaxPages >= 1
      /\ kMaxPages \in 1 .. kMaxPages
  BY <1>1, Bucket
<1>3. AboveIs(c, e, s, page, kMaxPages)
  <2> HIDE DEF page, s
  <2> QED BY <1>2, Above DEF s
<1>4. d = PushFront(e, s)
  BY DEF Grow
<1> HIDE DEF page, s, m, e
<1>5. /\ Good(e, {s}, {s}) /\ KeepsUsed(c, e) /\ Covers(c, e) /\ SameLists(c, e)
      /\ s \in Live(e) /\ e.span[s] = FreshSpan(page, kMaxPages)
  BY <1>3 DEF AboveIs
<1>6. e.span[s].cnt_ = kMaxPages /\ ~e.span[s].used_ /\ e.span[s].useCnt_ = 0
  BY <1>2, <1>5, FreshIs
<1>7. IsFirst(e, d, {s} \ {s}, {s}, s, kMaxPages)
  <2>1. Pushable(e, {s}, s, kMaxPages)
    BY <1>5, <1>6 DEF Pushable
  <2> QED BY <1>2, <1>4, <1>5, <2>1, PushGood
<1>8. {s} \ {s} = {}
  OBVIOUS
<1>9. d.span = e.span /\ d.pool = e.pool
  BY <1>7 DEF IsFirst, LinksOnly
<1>10. KeepsUsed(c, d) /\ Covers(c, d)
  BY <1>5, <1>9, SameSpans, KeepsTransitive
<1>11. \A n \in 1 .. kMaxPages : n # kMaxPages => d.spanlists_[n] = c.spanlists_[n]
  BY <1>5, <1>7 DEF IsFirst, IsLinked, SameLists
<1> QED BY <1>7, <1>8, <1>10, <1>11 DEF IsFirst, Grown, s

-----------------------------------------------------------------------------
(* PageCache::newSpan *)

\* The record of what is left of a span
Rest(a, n) == [a EXCEPT !.pageId_ = @ + n, !.cnt_ = @ - n]

\* What is left of a span is a span.
LEMMA RestIs ==
  ASSUME NEW a \in SpanT, NEW n \in Nat, n < a.cnt_
  PROVE  /\ Rest(a, n) \in SpanT /\ Rest(a, n).pageId_ = a.pageId_ + n
         /\ Rest(a, n).cnt_ = a.cnt_ - n /\ Rest(a, n).useCnt_ = a.useCnt_
         /\ Rest(a, n).used_ = a.used_
<1>1. a.pageId_ + n \in Nat /\ a.cnt_ - n \in Nat
  BY SpanFields
<1> QED BY <1>1 DEF Rest, SpanT

\* The list of m pages has a span, and its first is the only one X may hold.
Filled(c, X, m) == c.spanlists_[m] # <<>> /\ X \subseteq {Head(c.spanlists_[m])}

\* newSpan cuts the pages it needs off the smallest span that has more.
LEMMA SplitSpanIs ==
  ASSUME NEW X, NEW c, Good(c, {}, X), NEW n \in 1 .. kMaxPages, NEW m \in 1 .. kMaxPages,
         n < m, m = Min(Fitting(c, n)), Filled(c, X, m), NEW d, d = SplitSpan(c, n)
  PROVE  \E s : New(c, d, s, n)
<1> DEFINE s  == Head(c.spanlists_[m])
           k  == NextSpan(c)
           a  == FreshSpan(c.span[s].pageId_, n)
           p  == PopFront(c, m)
           al == Alloc(p, a)
           cut == [al EXCEPT !.span[s].pageId_ = @ + n, !.span[s].cnt_ = @ - n]
           b  == Rest(c.span[s], n)
           pu == PushFront(cut, s)
           me == MapEnds(pu, s)
           ma == MapAll(me, k)
           Z  == {s}
           W  == {s, k}
           V  == W \ {s}
           U  == Z \cup {k}
           K  == {k}
           XX == X \cup {s, k}
<1>1. d = [ma EXCEPT !.res = k]
  BY DEF SplitSpan
<1>2. Good(p, {} \cup {s}, X) /\ LinksOnly(c, p) /\ Spare(c, {}, s, m)
  BY PopGood DEF Filled
<1>3. X \subseteq {s}
  BY DEF Filled
<1> HIDE DEF s, k, p
<1>4. Good(p, Z, X) /\ s \in Z
  <2>1. {} \cup {s} = Z /\ s \in Z
    OBVIOUS
  <2> QED BY <1>2, <2>1
<1> HIDE DEF Z, W, V, U, K, XX
<1>5. /\ s \in Live(c) /\ ~c.span[s].used_ /\ c.span[s].cnt_ = m /\ c.span[s].useCnt_ = 0
  BY <1>2 DEF Spare
<1>6. /\ p \in CacheT /\ p.span = c.span /\ p.pool = c.pool /\ Live(p) = Live(c)
      /\ Ids(p) = Ids(c) /\ PoolOk(p)
  BY <1>2, LinksOnlyKeeps DEF LinksOnly
<1>7. s \in Ids(c) /\ c.span[s] \in SpanT /\ c.span[s].pageId_ \in Nat
  <2>1. c \in CacheT
    BY DEF Good
  <2> QED BY <1>5, <2>1, LiveAre
<1>8. n \in Nat /\ m \in Nat /\ n >= 1 /\ m - n \in 1 .. kMaxPages /\ m - n >= 1
  BY DEF kMaxPages, kPageBucketSize
<1>9. /\ a \in SpanT /\ a.pageId_ = c.span[s].pageId_ /\ a.cnt_ = n
      /\ a.useCnt_ = 0 /\ ~a.used_
  BY <1>7, <1>8, FreshIs
<1>10. /\ b \in SpanT /\ b.pageId_ = c.span[s].pageId_ + n /\ b.cnt_ = m - n
       /\ b.useCnt_ = 0 /\ ~b.used_
  <2>1. b.used_ = c.span[s].used_ /\ b \in SpanT /\ b.pageId_ = c.span[s].pageId_ + n
        /\ b.cnt_ = m - n /\ b.useCnt_ = 0
    BY <1>5, <1>7, <1>8, RestIs
  <2> QED BY <1>5, <2>1
<1>11. IsCut(c.span[s], a, b)
  BY <1>5, <1>7, <1>8, <1>9, <1>10 DEF IsCut
<1> HIDE DEF a
<1>12. al \in CacheT /\ Took(p, al, k, a) /\ SameRest(p, al)
  <2>1. k = NextSpan(p)
    BY <1>6 DEF k, NextSpan
  <2>2. a \in SpanT
    BY <1>9
  <2> QED BY <1>6, <2>1, <2>2, AllocIs
<1> HIDE DEF al
<1>13. s # k /\ s \in Ids(al) /\ al.span[s] = c.span[s]
  BY <1>5, <1>6, <1>7, <1>12 DEF Took, IsPut
<1>14. cut = Put(al, s, b)
  <2>1. b = Rest(al.span[s], n)
    BY <1>13
  <2> HIDE DEF b
  <2>2. cut = [al EXCEPT !.span = [@ EXCEPT ![s] = b]]
    BY <2>1 DEF Rest
  <2> QED BY <2>2 DEF Put
<1> HIDE DEF b, cut
<1>15. /\ cut \in CacheT /\ IsPut(al, cut, s, b) /\ Ids(cut) = Ids(al)
       /\ cut.brk = al.brk /\ cut.pool = al.pool
       /\ cut.spanlists_ = al.spanlists_ /\ cut.hash_ = al.hash_ /\ cut.res = al.res
  <2>1. b \in SpanT
    BY <1>10
  <2> QED BY <1>12, <1>13, <1>14, <2>1, PutIs
<1>16. /\ Good(cut, U, XX) /\ KeepsUsed(p, cut) /\ Covers(p, cut)
       /\ Live(cut) = Live(p) \cup {k} /\ k # s /\ cut.span[k] = a /\ cut.span[s] = b
  <2>1. SamePool(al, cut) /\ SameLists(p, cut) /\ cut.brk = p.brk
    BY <1>12, <1>15 DEF SamePool, SameLists, SameRest
  <2>2. IsFree(p, s)
    BY <1>5, <1>6 DEF IsFree
  <2>3. IsCut(p.span[s], a, b) /\ Took(p, al, k, a) /\ IsPut(al, cut, s, b) /\ cut \in CacheT
    BY <1>6, <1>11, <1>12, <1>15
  <2>4. /\ Good(cut, Z \cup {k}, X \cup {s, k}) /\ KeepsUsed(p, cut) /\ Covers(p, cut)
        /\ CutTo(p, cut, s, k, a, b)
    <3> QED BY <1>4, <2>1, <2>2, <2>3, CutGood
  <2> QED BY <2>4 DEF U, XX, CutTo
<1>17. IsFirst(cut, pu, U \ {s}, XX, s, m - n)
  <2>1. Pushable(cut, U, s, m - n)
    BY <1>4, <1>5, <1>6, <1>10, <1>16 DEF Pushable, U
  <2> QED BY <1>8, <1>16, <2>1, PushGood
<1>18. U \ {s} = K /\ XX = W
  BY <1>3, <1>16 DEF Z, W, U, XX, K
<1>19. Good(pu, K, W) /\ LinksOnly(cut, pu)
  BY <1>17, <1>18 DEF IsFirst
<1> HIDE DEF pu
<1>20. pu.span = cut.span /\ pu.pool = cut.pool /\ Live(pu) = Live(cut)
  BY <1>19, LinksOnlyKeeps, <1>16
<1>21. /\ Good(me, K, V) /\ me.span = pu.span /\ me.pool = pu.pool
       /\ Live(me) = Live(pu)
  <2>1. IsFree(pu, s)
    BY <1>5, <1>6, <1>10, <1>16, <1>20 DEF IsFree
  <2> QED BY <1>19, <2>1, MapEndsGood DEF V
<1> HIDE DEF me
<1>22. /\ Good(ma, K, V \ {k}) /\ ma.span = me.span /\ ma.pool = me.pool
       /\ Live(ma) = Live(me) /\ Whole(ma.hash_, ma.span[k], k)
  <2>1. k \in Live(me)
    BY <1>16, <1>20, <1>21
  <2> QED BY <1>21, <2>1, MapAllGood
<1> HIDE DEF ma
<1>23. ma \in CacheT /\ k \in Nat
  BY <1>12, <1>22 DEF Good, Took
<1>24. SameButRes(ma, d) /\ d.res = k
  BY <1>1, <1>23, SetRes DEF SameButRes
<1>25. Good(d, {k}, {k})
  <2>1. V \ {k} \subseteq {k}
    BY DEF W, V
  <2>2. Good(ma, {k}, {k})
    BY <1>22, <2>1, GoodMore DEF K
  <2> QED BY <1>24, <2>2, SameGood
<1>26. d.span = cut.span /\ d.pool = cut.pool /\ d.hash_ = ma.hash_ /\ d.span = ma.span
  BY <1>20, <1>21, <1>22, <1>24 DEF SameButRes
<1>27. Live(d) = Live(cut) /\ KeepsUsed(cut, d) /\ Covers(cut, d)
  BY <1>26, SameSpans
<1>28. KeepsUsed(c, p) /\ Covers(c, p)
  BY <1>6, SameSpans
<1>29. KeepsUsed(c, d) /\ Covers(c, d)
  BY <1>16, <1>27, <1>28, KeepsTransitive
<1>30. k \in Live(d) /\ k \notin Used(c)
  BY <1>6, <1>12, <1>16, <1>27 DEF Used, Took
<1>31. ~d.span[k].used_ /\ d.span[k].cnt_ = n /\ d.span[k].useCnt_ = 0
  BY <1>9, <1>16, <1>26
<1> QED BY <1>22, <1>24, <1>25, <1>26, <1>29, <1>30, <1>31 DEF New

\* A new span stays one when seen from the cache before.
LEMMA NewMore ==
  ASSUME NEW c, NEW g, NEW d, NEW s, NEW n, New(g, d, s, n), KeepsUsed(c, g), Covers(c, g)
  PROVE  New(c, d, s, n)
<1>1. KeepsUsed(g, d) /\ Covers(g, d)
  BY DEF New
<1>2. KeepsUsed(c, d) /\ Covers(c, d)
  BY <1>1, KeepsTransitive
<1>3. Used(g) = Used(c)
  BY DEF KeepsUsed
<1> QED BY <1>2, <1>3 DEF New

\* A span from the lists, once one of them has a span that is large enough
LEMMA FromListsIs ==
  ASSUME NEW X, NEW c, Good(c, {}, X), NEW n \in 1 .. kMaxPages, Fitting(c, n) # {},
         \A m \in Fitting(c, n) : Filled(c, X, m), NEW d,
         d = IF c.spanlists_[n] # <<>> THEN TakeSpan(c, n) ELSE SplitSpan(c, n)
  PROVE  \E s : New(c, d, s, n)
<1>1. CASE c.spanlists_[n] # <<>>
  <2>1. n \in Fitting(c, n)
    BY <1>1 DEF Fitting, kMaxPages, kPageBucketSize
  <2>2. Filled(c, X, n) /\ d = TakeSpan(c, n)
    BY <1>1, <2>1
  <2> QED BY <1>1, <2>2, TakeSpanIs DEF Filled
<1>2. CASE c.spanlists_[n] = <<>>
  <2> DEFINE m == Min(Fitting(c, n))
  <2>1. Fitting(c, n) \in SUBSET Nat
    BY DEF Fitting, kMaxPages, kPageBucketSize
  <2>2. m \in Fitting(c, n)
    BY <2>1, MinIn
  <2> HIDE DEF m
  <2>3. m \in n .. kMaxPages /\ c.spanlists_[m] # <<>> /\ Filled(c, X, m)
    BY <2>2 DEF Fitting
  <2>4. m # n
    BY <1>2, <2>3
  <2>5. m \in 1 .. kMaxPages /\ n < m
    BY <2>3, <2>4 DEF kMaxPages, kPageBucketSize
  <2>6. d = SplitSpan(c, n) /\ m = Min(Fitting(c, n))
    BY <1>2 DEF m
  <2> QED BY <2>3, <2>5, <2>6, SplitSpanIs
<1> QED BY <1>1, <1>2

\* newSpan, in each of its ways, returns a span of n pages that is in no list
\* and not yet in use.
LEMMA NewSpanIs ==
  ASSUME NEW c, Good(c, {}, {}), NEW gap \in Nat, c.brk >= 1, NEW n \in Nat, n >= 1,
         NEW d, d = NewSpan(c, n, gap)
  PROVE  \E s : New(c, d, s, n)
<1>1. CASE n > kMaxPages
  <2>1. d = NewHugeSpan(c, n, gap)
    BY <1>1 DEF NewSpan
  <2>2. ~(n <= kMaxPages)
    BY <1>1, Bucket
  <2> QED BY <2>1, <2>2, NewHugeSpanIs
<1>2. CASE ~(n > kMaxPages)
  <2> DEFINE g == IF Fitting(c, n) = {} THEN Grow(c, gap) ELSE c
  <2>1. d = IF g.spanlists_[n] # <<>> THEN TakeSpan(g, n) ELSE SplitSpan(g, n)
    BY <1>2 DEF NewSpan
  <2>2. n \in 1 .. kMaxPages
    BY <1>2, Bucket
  <2>3. CASE Fitting(c, n) = {}
    <3> DEFINE t == NextSpan(c)
    <3>1. g = Grow(c, gap)
      BY <2>3
    <3> HIDE DEF g
    <3>2. Grown(c, g, t)
      BY <3>1, GrowIs
    <3> HIDE DEF t
    <3>3. /\ Good(g, {}, {t}) /\ KeepsUsed(c, g) /\ Covers(c, g)
          /\ Filled(g, {t}, kMaxPages) /\ g.spanlists_[kMaxPages] # <<>>
      BY <3>2 DEF Grown, Filled
    <3>4. \A m \in 1 .. kMaxPages : m # kMaxPages => g.spanlists_[m] = c.spanlists_[m]
      BY <3>2 DEF Grown
    <3>5. kMaxPages \in Fitting(g, n)
      BY <3>3, <2>2 DEF Fitting, kMaxPages, kPageBucketSize
    <3>6. ASSUME NEW m \in Fitting(g, n)
          PROVE  m = kMaxPages
      <4>1. m \in n .. kMaxPages /\ g.spanlists_[m] # <<>>
        BY DEF Fitting
      <4>2. m \in 1 .. kMaxPages
        <5>1. m \in n .. kMaxPages
          BY <4>1
        <5> QED BY <2>2, <5>1 DEF kMaxPages, kPageBucketSize
      <4>3. c.spanlists_[m] = <<>>
        BY <2>3, <4>1 DEF Fitting
      <4>4. CASE m # kMaxPages
        <5>1. g.spanlists_[m] = c.spanlists_[m]
          BY <3>4, <4>2, <4>4
        <5> QED BY <4>1, <4>3, <5>1
      <4> QED BY <4>4
    <3>7. \A m \in Fitting(g, n) : Filled(g, {t}, m)
      BY <3>3, <3>6
    <3>8. \E s : New(g, d, s, n)
      BY <2>1, <2>2, <3>3, <3>5, <3>7, FromListsIs
    <3> QED BY <3>3, <3>8, NewMore
  <2>4. CASE Fitting(c, n) # {}
    <3>1. g = c
      BY <2>4
    <3>2. \A m \in Fitting(c, n) : Filled(c, {}, m)
      BY DEF Fitting, Filled
    <3> HIDE DEF g
    <3>3. d = IF c.spanlists_[n] # <<>> THEN TakeSpan(c, n) ELSE SplitSpan(c, n)
      BY <2>1, <3>1
    <3> QED BY <2>2, <2>4, <3>2, <3>3, FromListsIs
  <2> QED BY <2>3, <2>4
<1> QED BY <1>1, <1>2

-----------------------------------------------------------------------------
\* Span s of n pages is handed out for blocks of this size.
Handed(c, e, s, n, size) ==
  /\ Good(e, {}, {}) /\ Covers(c, e)
  /\ Used(e) = Used(c) \cup {s} /\ s \notin Used(c) /\ e.res = s
  /\ \A r \in Used(c) : e.span[r] = c.span[r]
  /\ e.span[s].cnt_ = n /\ e.span[s].blockSize_ = size /\ e.span[s].useCnt_ = 0

\* The record of a span that is handed out
Named(a, size) == [a EXCEPT !.used_ = TRUE, !.blockSize_ = size]

\* What the callers of newSpan write into the record they got
LEMMA NamedIs ==
  ASSUME NEW a \in SpanT, NEW size \in Nat
  PROVE  /\ SamePages(a, Named(a, size)) /\ InUse(Named(a, size))
         /\ Named(a, size).blockSize_ = size /\ Named(a, size).useCnt_ = a.useCnt_
         /\ Named(a, size).cnt_ = a.cnt_
BY DEF SpanT, Named, SamePages, InUse

\* The span newSpan returned is in use, and no other span in use has changed.
LEMMA HandIs ==
  ASSUME NEW c, Good(c, {}, {}), NEW gap \in Nat, c.brk >= 1, NEW n \in Nat, n >= 1,
         NEW size \in Nat, NEW e, e = Hand(c, n, gap, size)
  PROVE  \E s : Handed(c, e, s, n, size)
<1> DEFINE d == NewSpan(c, n, gap)
<1>1. PICK s : New(c, d, s, n)
  BY NewSpanIs
<1>2. e = [d EXCEPT !.span[d.res].used_ = TRUE, !.span[d.res].blockSize_ = size]
  BY DEF Hand
<1> HIDE DEF d
<1> DEFINE a == Named(d.span[s], size)
<1>3. /\ Good(d, {s}, {s}) /\ KeepsUsed(c, d) /\ Covers(c, d)
      /\ d.res = s /\ s \in Live(d) /\ s \notin Used(c)
      /\ d.span[s].cnt_ = n /\ d.span[s].useCnt_ = 0
      /\ Whole(d.hash_, d.span[s], s)
  BY <1>1 DEF New
<1>4. d.span[s] \in SpanT
  BY <1>3, LiveAre DEF Good
<1>5. /\ SamePages(d.span[s], a) /\ InUse(a)
      /\ a.blockSize_ = size /\ a.useCnt_ = 0 /\ a.cnt_ = n
  BY <1>3, <1>4, NamedIs
<1>6. e = Put(d, s, a)
  <2>1. d.res = s
    BY <1>3
  <2>2. e = [d EXCEPT !.span[s].used_ = TRUE, !.span[s].blockSize_ = size]
    BY <1>2, <2>1
  <2>3. e = [d EXCEPT !.span = [@ EXCEPT ![s] = a]]
    BY <2>2 DEF Named
  <2> QED BY <2>3 DEF Put
<1> HIDE DEF a
<1>7. Unlisted(d, {s}, s)
  BY DEF Unlisted
<1>8. Good(e, {s} \ {s}, {s} \ {s}) /\ PutKeeps(d, e, s, a) /\ Used(e) = Used(d) \cup {s}
  <2>1. SamePages(d.span[s], a) /\ InUse(a)
    BY <1>5
  <2>2. Good(d, {s}, {s}) /\ s \in Live(d) /\ Whole(d.hash_, d.span[s], s)
    BY <1>3
  <2> DEFINE Z == {s}
  <2>3. Good(d, Z, Z) /\ Unlisted(d, Z, s)
    BY <1>7, <2>2
  <2> HIDE DEF Z
  <2>4. Good(e, Z \ {s}, Z \ {s}) /\ PutKeeps(d, e, s, a) /\ NowUsed(d, e, s)
    BY <1>6, <2>1, <2>2, <2>3, UseGood
  <2> QED BY <2>4 DEF Z, NowUsed
<1>9. {s} \ {s} = {}
  OBVIOUS
<1>10. Covers(d, e) /\ e.res = d.res /\ IsPut(d, e, s, a)
  BY <1>8 DEF PutKeeps
<1>11. Covers(c, e)
  BY <1>3, <1>10 DEF Covers
<1>12. Used(d) = Used(c) /\ \A r \in Used(c) : r # s /\ r \in Ids(d) /\ d.span[r] = c.span[r]
  BY <1>3 DEF KeepsUsed, Used, Live
<1>13. \A r \in Used(c) : e.span[r] = c.span[r]
  BY <1>10, <1>12 DEF IsPut
<1>14. e.span[s] = a
  BY <1>10 DEF IsPut
<1> QED BY <1>3, <1>5, <1>8, <1>9, <1>10, <1>11, <1>12, <1>13, <1>14 DEF Handed

-----------------------------------------------------------------------------
(* PageCache::revertSpan joins a span with its neighbours *)

\* The span of record b, which is in use, lies where those of a and z lay.
IsUnion(a, z, b) ==
  /\ b \in SpanT /\ b.used_ /\ b.useCnt_ = a.useCnt_ /\ b.cnt_ = a.cnt_ + z.cnt_
  /\ \/ b.pageId_ = z.pageId_ /\ z.pageId_ + z.cnt_ = a.pageId_
     \/ b.pageId_ = a.pageId_ /\ a.pageId_ + a.cnt_ = z.pageId_

\* Span q is live no more: its pages are those of s, which is in use.
Merged(c, d, s, q, b) ==
  /\ Live(d) = Live(c) \ {q} /\ s \in Live(c) /\ s # q /\ d.span[s] = b
  /\ \A r \in Live(c) : r # s /\ r # q => d.span[r] = c.span[r]

\* Taking q off its list and freeing it, once s has its pages
LEMMA AbsorbIs ==
  ASSUME NEW X, NEW c, Good(c, {}, X), NEW s \in Used(c), NEW q, q # s, IsFree(c, q),
         NEW b \in SpanT, NEW d, d = Free(Erase(Put(c, s, b), q), q)
  PROVE  /\ d \in CacheT /\ PoolOk(d) /\ Merged(c, d, s, q, b) /\ d.hash_ = c.hash_ /\ d.brk = c.brk
         /\ IsDrop(c.spanlists_[c.span[q].cnt_], q, d.spanlists_[c.span[q].cnt_])
         /\ IsLinked(c.spanlists_, d.spanlists_, c.span[q].cnt_, d.spanlists_[c.span[q].cnt_])
         /\ c.span[q].cnt_ \in 1 .. kMaxPages
<1> DEFINE m == Put(c, s, b)
           e == Erase(m, q)
           n == c.span[q].cnt_
<1>1. c \in CacheT /\ PoolOk(c) /\ Laid(c) /\ Listing(c, {})
  BY DEF Good
<1>2. s \in Live(c) /\ s \in Ids(c) /\ q \in Live(c) /\ q \in Ids(c) /\ ~c.span[q].used_
  BY DEF Used, Live, IsFree
<1>3. n \in Nat /\ n >= 1
  BY <1>1, <1>2, LiveAre DEF Laid
<1>4. n \in 1 .. kMaxPages /\ q \in Range(c.spanlists_[n])
  BY <1>1, <1>2, <1>3, Bucket DEF Listing
<1>5. /\ m \in CacheT /\ IsPut(c, m, s, b) /\ Ids(m) = Ids(c)
      /\ m.brk = c.brk /\ m.pool = c.pool
      /\ m.spanlists_ = c.spanlists_ /\ m.hash_ = c.hash_
  BY <1>1, <1>2, PutIs
<1>6. d = Free(e, q)
  OBVIOUS
<1> HIDE DEF n, m
<1>7. m.span[q].cnt_ = n
  BY <1>2, <1>5 DEF IsPut, n
<1>8. /\ LinksOnly(m, e) /\ IsDrop(m.spanlists_[n], q, e.spanlists_[n])
      /\ IsLinked(m.spanlists_, e.spanlists_, n, e.spanlists_[n])
  BY <1>4, <1>5, <1>7, EraseIs
<1> HIDE DEF e
<1>9. /\ e \in CacheT /\ e.span = m.span /\ e.brk = m.brk /\ e.pool = m.pool
      /\ e.hash_ = m.hash_ /\ Ids(e) = Ids(c) /\ Live(e) = Live(c) /\ PoolOk(e)
  <2>1. /\ e \in CacheT /\ e.span = m.span /\ e.brk = m.brk /\ e.pool = m.pool
        /\ e.hash_ = m.hash_
    BY <1>8 DEF LinksOnly
  <2>2. Ids(e) = Ids(m)
    BY <2>1 DEF Ids
  <2> QED BY <1>1, <1>5, <2>1, <2>2 DEF Live, PoolOk
<1>10. d \in CacheT /\ Gave(e, d, q) /\ SameRest(e, d)
  BY <1>2, <1>6, <1>9, FreeIs
<1>11. Merged(c, d, s, q, b) /\ PoolOk(d)
  <2>1. Live(d) = Live(c) \ {q} /\ PoolOk(d)
    BY <1>9, <1>10 DEF Gave
  <2>2. \A r \in Ids(c) : r # q => d.span[r] = m.span[r]
    BY <1>9, <1>10 DEF Gave
  <2>3. d.span[s] = b
    BY <1>2, <1>5, <2>2 DEF IsPut
  <2>4. \A r \in Live(c) : r # s /\ r # q => d.span[r] = c.span[r]
    BY <1>5, <2>2 DEF IsPut, Live
  <2> QED BY <1>2, <2>1, <2>3, <2>4 DEF Merged
<1>12. d.spanlists_ = e.spanlists_ /\ d.hash_ = c.hash_ /\ d.brk = c.brk
  BY <1>5, <1>9, <1>10 DEF SameRest
<1> QED BY <1>4, <1>5, <1>8, <1>10, <1>11, <1>12 DEF n

\* What the list of n pages lost is q, and q is no longer live.
LEMMA DropListing ==
  ASSUME NEW c, NEW d, Listing(c, {}), NEW s \in Used(c), NEW q, NEW b, Merged(c, d, s, q, b),
         InUse(b), NEW n \in 1 .. kMaxPages, c.span[q].cnt_ = n,
         \A r \in Live(c) : c.span[r].cnt_ \in Nat /\ c.span[r].cnt_ >= 1,
         IsDrop(c.spanlists_[n], q, d.spanlists_[n]),
         IsLinked(c.spanlists_, d.spanlists_, n, d.spanlists_[n])
  PROVE  Listing(d, {})
<1>1. \A m \in 1 .. kMaxPages : m # n => d.spanlists_[m] = c.spanlists_[m]
  BY DEF IsLinked
<1>2. Range(d.spanlists_[n]) = Range(c.spanlists_[n]) \ {q} /\ Distinct(d.spanlists_[n])
  BY DEF IsDrop, Listing
<1>3. \A m \in 1 .. kMaxPages : Distinct(d.spanlists_[m])
  BY <1>1, <1>2 DEF Listing
<1>4. ASSUME NEW m \in 1 .. kMaxPages, NEW r \in Range(d.spanlists_[m])
      PROVE  r \in Live(d) /\ r \notin {} /\ ~d.span[r].used_ /\ d.span[r].cnt_ = m
  <2>1. r \in Range(c.spanlists_[m])
    BY <1>1, <1>2, <1>4
  <2>2. r \in Live(c) /\ ~c.span[r].used_ /\ c.span[r].cnt_ = m
    BY <2>1 DEF Listing
  <2>3. r # q
    <3>1. CASE m = n
      BY <1>2, <1>4, <3>1
    <3>2. CASE m # n
      BY <2>2, <3>2
    <3> QED BY <3>1, <3>2
  <2>4. r # s
    BY <2>2 DEF Used
  <2>5. r \in Live(d) /\ d.span[r] = c.span[r]
    BY <2>2, <2>3, <2>4 DEF Merged
  <2> QED BY <2>2, <2>5
<1>5. ASSUME NEW r \in Live(d), ~d.span[r].used_
      PROVE  /\ d.span[r].cnt_ <= kMaxPages /\ d.span[r].useCnt_ = 0
             /\ r \in Range(d.spanlists_[d.span[r].cnt_])
  <2>1. r \in Live(c) /\ r # q /\ r # s
    BY <1>5 DEF Merged, InUse
  <2>2. d.span[r] = c.span[r]
    BY <2>1 DEF Merged
  <2>3. /\ c.span[r].cnt_ <= kMaxPages /\ c.span[r].useCnt_ = 0
        /\ r \in Range(c.spanlists_[c.span[r].cnt_])
    BY <1>5, <2>1, <2>2 DEF Listing
  <2>4. c.span[r].cnt_ \in 1 .. kMaxPages
    BY <2>1, <2>3, Bucket
  <2>5. r \in Range(d.spanlists_[c.span[r].cnt_])
    BY <1>1, <1>2, <2>1, <2>3, <2>4
  <2> QED BY <2>2, <2>3, <2>5
<1> QED BY <1>3, <1>4, <1>5 DEF Listing

\* The spans in use are those that were, and but for s none has changed.
KeepsOthers(c, d, s) == Used(d) = Used(c) /\ \A r \in Used(c) : r # s => d.span[r] = c.span[r]

\* Nothing else is lost, and s has record b.
Absorbed(c, d, s, b) == Covers(c, d) /\ KeepsOthers(c, d, s) /\ d.span[s] = b

\* Span s, which is in use, takes the pages of q, which is not.
LEMMA AbsorbGood ==
  ASSUME NEW c, NEW s \in Used(c), Good(c, {}, {s}), NEW q, q # s, IsFree(c, q),
         NEW b, IsUnion(c.span[s], c.span[q], b), NEW d, d = Free(Erase(Put(c, s, b), q), q)
  PROVE  Good(d, {}, {s}) /\ Absorbed(c, d, s, b)
<1> DEFINE n == c.span[q].cnt_
<1>1. /\ c \in CacheT /\ Laid(c) /\ Listing(c, {}) /\ Mapping(c, {s})
  BY DEF Good
<1>2. b \in SpanT /\ InUse(b)
  BY DEF IsUnion, InUse
<1>3. /\ d \in CacheT /\ PoolOk(d) /\ Merged(c, d, s, q, b) /\ d.hash_ = c.hash_ /\ d.brk = c.brk
      /\ IsDrop(c.spanlists_[n], q, d.spanlists_[n])
      /\ IsLinked(c.spanlists_, d.spanlists_, n, d.spanlists_[n])
      /\ n \in 1 .. kMaxPages
  BY <1>2, AbsorbIs
<1>4. \A r \in Live(c) : /\ c.span[r].pageId_ \in Nat /\ c.span[r].cnt_ \in Nat
                         /\ c.span[r].pageId_ >= 1 /\ c.span[r].cnt_ >= 1
                         /\ c.span[r].pageId_ + c.span[r].cnt_ <= c.brk
  BY <1>1, LiveAre DEF Laid
<1>5. Listing(d, {})
  <2>1. \A r \in Live(c) : c.span[r].cnt_ \in Nat /\ c.span[r].cnt_ >= 1
    BY <1>4
  <2> QED BY <1>1, <1>2, <1>3, <2>1, DropListing
<1>6. /\ Live(d) = Live(c) \ {q} /\ s \in Live(c) /\ q \in Live(c) /\ d.span[s] = b
      /\ \A r \in Live(c) : r # s /\ r # q => d.span[r] = c.span[r]
  BY <1>3 DEF Merged, IsFree
<1>7. b.pageId_ \in Nat /\ b.cnt_ \in Nat /\ c.brk \in Nat
  BY <1>1, <1>2, SpanFields, FieldsAre
<1>8. ASSUME NEW r \in Live(c), r # s, r # q
      PROVE  Apart(c.span[r], b) /\ Apart(b, c.span[r])
  <2>1. Apart(c.span[r], c.span[s]) /\ Apart(c.span[r], c.span[q])
    BY <1>1, <1>6, <1>8 DEF Laid
  <2>2. /\ b.cnt_ = c.span[s].cnt_ + c.span[q].cnt_
        /\ \/ b.pageId_ = c.span[q].pageId_ /\ c.span[q].pageId_ + c.span[q].cnt_ = c.span[s].pageId_
           \/ b.pageId_ = c.span[s].pageId_ /\ c.span[s].pageId_ + c.span[s].cnt_ = c.span[q].pageId_
    BY DEF IsUnion
  <2> QED BY <1>4, <1>6, <1>7, <1>8, <2>1, <2>2 DEF Apart
<1>9. Laid(d)
  <2>1. ASSUME NEW r \in Live(d)
        PROVE  /\ d.span[r].pageId_ >= 1 /\ d.span[r].cnt_ >= 1
               /\ d.span[r].pageId_ + d.span[r].cnt_ <= d.brk
    <3>1. CASE r = s
      BY <1>3, <1>4, <1>6, <1>7, <3>1 DEF IsUnion
    <3>2. CASE r # s
      BY <1>3, <1>4, <1>6, <3>2
    <3> QED BY <3>1, <3>2
  <2>2. ASSUME NEW r \in Live(d), NEW p \in Live(d), r # p
        PROVE  Apart(d.span[r], d.span[p])
    <3>1. CASE r = s
      BY <1>6, <1>8, <2>2, <3>1
    <3>2. CASE p = s
      BY <1>6, <1>8, <2>2, <3>2
    <3>3. CASE r # s /\ p # s
      BY <1>1, <1>6, <2>2, <3>3 DEF Laid
    <3> QED BY <3>1, <3>2, <3>3
  <2> QED BY <2>1, <2>2 DEF Laid
<1>10. Covers(c, d)
  <2> SUFFICES ASSUME NEW p \in Nat, NEW r \in Live(c), Within(p, c.span[r])
               PROVE  \E t \in Live(d) : Within(p, d.span[t])
    BY DEF Covers
  <2>1. CASE r # s /\ r # q
    BY <1>6, <2>1
  <2>2. CASE r = s \/ r = q
    <3>1. Within(p, b)
      BY <1>4, <1>6, <1>7, <2>2 DEF Within, IsUnion
    <3>2. s \in Live(d) /\ Within(p, d.span[s])
      BY <1>6, <3>1
    <3> QED BY <3>2
  <2> QED BY <2>1, <2>2
<1>11. Mapping(d, {s})
  <2>1. \A p \in DOMAIN d.hash_ : p \in Nat /\ \E r \in Live(d) : Within(p, d.span[r])
    BY <1>1, <1>3, <1>10 DEF Mapping, Covers
  <2>2. \A r \in Live(d) : r \notin {s} => r \in Live(c) /\ d.span[r] = c.span[r]
    BY <1>6
  <2>3. \A r \in Live(d) : r \notin {s} /\ d.span[r].used_ => Whole(d.hash_, d.span[r], r)
    BY <1>1, <1>3, <2>2 DEF Mapping
  <2>4. \A r \in Live(d) : r \notin {s} /\ ~d.span[r].used_ => Ends(d.hash_, d.span[r], r)
    BY <1>1, <1>3, <2>2 DEF Mapping
  <2> QED BY <2>1, <2>3, <2>4 DEF Mapping
<1>12. KeepsOthers(c, d, s)
  BY <1>2, <1>6 DEF KeepsOthers, Used, IsFree, InUse
<1> QED BY <1>3, <1>5, <1>6, <1>9, <1>10, <1>11, <1>12 DEF Good, Absorbed

\* The two pages next to a span
NextTo(a, p) == p + 1 = a.pageId_ \/ p = a.pageId_ + a.cnt_

\* Where a page next to span s leads, if that span is not in use, is another
\* span, and it ends or begins there.
LEMMA NeighbourIs ==
  ASSUME NEW c, NEW s \in Used(c), Good(c, {}, {s}), NEW p \in DOMAIN c.hash_, NextTo(c.span[s], p),
         NEW q, q = c.hash_[p], ~InUse(c.span[q])
  PROVE  /\ q # s /\ IsFree(c, q)
         /\ p + 1 = c.span[s].pageId_ => c.span[q].pageId_ + c.span[q].cnt_ = c.span[s].pageId_
         /\ p = c.span[s].pageId_ + c.span[s].cnt_ => c.span[q].pageId_ = p
<1>1. c \in CacheT /\ Laid(c) /\ Mapping(c, {s})
  BY DEF Good
<1>2. \A r \in Live(c) : /\ c.span[r].pageId_ \in Nat /\ c.span[r].cnt_ \in Nat
                         /\ c.span[r].pageId_ >= 1 /\ c.span[r].cnt_ >= 1
  BY <1>1, LiveAre DEF Laid
<1>3. PICK r \in Live(c) : p \in Nat /\ Within(p, c.span[r])
  BY <1>1 DEF Mapping
<1>4. s \in Live(c) /\ c.span[s].used_
  BY DEF Used
<1>5. r # s
  BY <1>2, <1>3, <1>4 DEF Within, NextTo
<1>6. Apart(c.span[r], c.span[s])
  BY <1>1, <1>4, <1>5 DEF Laid
<1>7. ~c.span[r].used_
  <2>1. SUFFICES ASSUME c.span[r].used_ PROVE FALSE
    OBVIOUS
  <2>2. Whole(c.hash_, c.span[r], r)
    BY <1>1, <1>5, <2>1 DEF Mapping
  <2>3. c.hash_[p] = r
    BY <1>3, <2>2 DEF Whole
  <2> QED BY <2>1, <2>3 DEF InUse
<1>8. Ends(c.hash_, c.span[r], r)
  BY <1>1, <1>5, <1>7 DEF Mapping
<1>9. /\ p + 1 = c.span[s].pageId_ => c.span[r].pageId_ + c.span[r].cnt_ = c.span[s].pageId_
      /\ p = c.span[s].pageId_ + c.span[s].cnt_ => c.span[r].pageId_ = p
  BY <1>2, <1>3, <1>4, <1>6 DEF Apart, Within
<1>10. p = c.span[r].pageId_ \/ p = c.span[r].pageId_ + c.span[r].cnt_ - 1
  BY <1>2, <1>3, <1>4, <1>9 DEF NextTo
<1>11. q = r
  BY <1>8, <1>10 DEF Ends, Leads
<1> QED BY <1>5, <1>7, <1>9, <1>11 DEF IsFree

-----------------------------------------------------------------------------
\* What holds while span s takes its neighbours
Joining(c, d, s) ==
  /\ Good(d, {}, {s}) /\ Covers(c, d) /\ KeepsOthers(c, d, s) /\ s \in Used(d)
  /\ d.span[s].cnt_ <= kMaxPages /\ d.span[s].useCnt_ = 0

\* The record of s, once it has the pages of the span before or of the one behind
WithPrevious(a, z) == [a EXCEPT !.pageId_ = z.pageId_, !.cnt_ = @ + z.cnt_]
WithFollowing(a, z) == [a EXCEPT !.cnt_ = @ + z.cnt_]

\* The two spans a turn joins make one.
LEMMA WithIs ==
  ASSUME NEW a \in SpanT, NEW z \in SpanT, InUse(a)
  PROVE  /\ z.pageId_ + z.cnt_ = a.pageId_ => IsUnion(a, z, WithPrevious(a, z))
         /\ a.pageId_ + a.cnt_ = z.pageId_ => IsUnion(a, z, WithFollowing(a, z))
<1>1. a.cnt_ + z.cnt_ \in Nat /\ z.pageId_ \in Nat
  BY SpanFields
<1>2. WithPrevious(a, z) \in SpanT /\ WithFollowing(a, z) \in SpanT
  BY <1>1 DEF SpanT, WithPrevious, WithFollowing
<1>3. WithPrevious(a, z).used_ /\ WithFollowing(a, z).used_
  BY DEF SpanT, WithPrevious, WithFollowing, InUse
<1>4. WithPrevious(a, z).useCnt_ = a.useCnt_ /\ WithFollowing(a, z).useCnt_ = a.useCnt_
  BY DEF SpanT, WithPrevious, WithFollowing
<1>5. WithPrevious(a, z).cnt_ = a.cnt_ + z.cnt_ /\ WithFollowing(a, z).cnt_ = a.cnt_ + z.cnt_
  BY DEF SpanT, WithPrevious, WithFollowing
<1>6. WithPrevious(a, z).pageId_ = z.pageId_ /\ WithFollowing(a, z).pageId_ = a.pageId_
  BY DEF SpanT, WithPrevious, WithFollowing
<1> QED BY <1>2, <1>3, <1>4, <1>5, <1>6 DEF IsUnion

\* One more neighbour
LEMMA JoinMore ==
  ASSUME NEW c, NEW s, NEW d, Joining(c, d, s), NEW q, q # s, IsFree(d, q),
         NEW b, IsUnion(d.span[s], d.span[q], b), d.span[q].cnt_ + d.span[s].cnt_ <= kMaxPages,
         NEW e, e = Free(Erase(Put(d, s, b), q), q)
  PROVE  Joining(c, e, s)
<1>1. Good(d, {}, {s}) /\ Covers(c, d) /\ KeepsOthers(c, d, s) /\ s \in Used(d) /\ d.span[s].useCnt_ = 0
  BY DEF Joining
<1>2. Good(e, {}, {s}) /\ Covers(d, e) /\ KeepsOthers(d, e, s) /\ e.span[s] = b
  <2>1. Good(e, {}, {s}) /\ Absorbed(d, e, s, b)
    BY <1>1, AbsorbGood
  <2> QED BY <2>1 DEF Absorbed
<1>3. Covers(c, e) /\ KeepsOthers(c, e, s) /\ s \in Used(e)
  <2>1. Covers(c, e)
    BY <1>1, <1>2 DEF Covers
  <2>2. KeepsOthers(c, e, s)
    BY <1>1, <1>2 DEF KeepsOthers
  <2>3. s \in Used(e)
    BY <1>1, <1>2 DEF KeepsOthers
  <2> QED BY <2>1, <2>2, <2>3
<1>4. b.useCnt_ = 0 /\ b.cnt_ <= kMaxPages
  <2>1. d.span[s] \in SpanT /\ d.span[q] \in SpanT
    BY <1>1, LiveAre DEF Good, Used, IsFree
  <2>2. d.span[s].cnt_ + d.span[q].cnt_ = d.span[q].cnt_ + d.span[s].cnt_
    BY <2>1, SpanFields
  <2> QED BY <1>1, <2>2 DEF IsUnion
<1> QED BY <1>2, <1>3, <1>4 DEF Joining

\* One turn of the first loop of revertSpan
LEMMA JoinBackIs ==
  ASSUME NEW c, NEW s, NEW d, Joining(c, d, s)
  PROVE  Joining(c, JoinBack(d, s), s)
<1>1. CASE ~Joins(d, s, Previous(d, s))
  BY <1>1 DEF JoinBack
<1>2. CASE Joins(d, s, Previous(d, s))
  <2> DEFINE p == d.span[s].pageId_ - 1
             q == d.hash_[p]
             b == WithPrevious(d.span[s], d.span[q])
             e == JoinBack(d, s)
  <2>1. /\ p \in DOMAIN d.hash_ /\ ~d.span[q].used_
        /\ d.span[q].cnt_ + d.span[s].cnt_ <= kMaxPages
    BY <1>2 DEF Joins, Previous, Mapped
  <2>2. Good(d, {}, {s}) /\ s \in Used(d)
    BY DEF Joining
  <2>3. /\ d.span[s] \in SpanT /\ d.span[s].pageId_ \in Nat /\ InUse(d.span[s]) /\ s \in Ids(d)
        /\ d \in CacheT
    BY <2>2, LiveAre DEF Good, Used, InUse
  <2>4. e = Free(Erase([d EXCEPT !.span[s].pageId_ = d.span[q].pageId_,
                                 !.span[s].cnt_ = @ + d.span[q].cnt_], q), q)
    BY <1>2 DEF JoinBack, JoinPrevious, Previous
  <2>5. p + 1 = d.span[s].pageId_
    BY <2>3
  <2> HIDE DEF p, e
  <2>6. q # s /\ IsFree(d, q) /\ d.span[q].pageId_ + d.span[q].cnt_ = d.span[s].pageId_
    <3>1. NextTo(d.span[s], p)
      BY <2>5 DEF NextTo
    <3>2. ~InUse(d.span[q])
      BY <2>1 DEF InUse
    <3> QED BY <2>1, <2>2, <2>5, <3>1, <3>2, NeighbourIs
  <2> HIDE DEF q
  <2>7. IsUnion(d.span[s], d.span[q], b)
    <3>1. d.span[q] \in SpanT
      BY <2>3, <2>6, LiveAre DEF IsFree
    <3> QED BY <2>3, <2>6, <3>1, WithIs
  <2>8. e = Free(Erase(Put(d, s, b), q), q)
    <3>1. [d EXCEPT !.span[s].pageId_ = d.span[q].pageId_, !.span[s].cnt_ = @ + d.span[q].cnt_]
            = [d EXCEPT !.span = [@ EXCEPT ![s] = b]]
      BY DEF WithPrevious
    <3> QED BY <2>4, <3>1 DEF Put
  <2> HIDE DEF b
  <2>9. Joining(c, e, s)
    BY <2>1, <2>6, <2>7, <2>8, JoinMore
  <2> QED BY <2>9 DEF e
<1> QED BY <1>1, <1>2

\* One turn of the second loop of revertSpan
LEMMA JoinOnIs ==
  ASSUME NEW c, NEW s, NEW d, Joining(c, d, s)
  PROVE  Joining(c, JoinOn(d, s), s)
<1>1. CASE ~Joins(d, s, Following(d, s))
  BY <1>1 DEF JoinOn
<1>2. CASE Joins(d, s, Following(d, s))
  <2> DEFINE p == d.span[s].pageId_ + d.span[s].cnt_
             q == d.hash_[p]
             b == WithFollowing(d.span[s], d.span[q])
             e == JoinOn(d, s)
  <2>1. /\ p \in DOMAIN d.hash_ /\ ~d.span[q].used_
        /\ d.span[q].cnt_ + d.span[s].cnt_ <= kMaxPages
    BY <1>2 DEF Joins, Following, Mapped
  <2>2. Good(d, {}, {s}) /\ s \in Used(d)
    BY DEF Joining
  <2>3. d.span[s] \in SpanT /\ InUse(d.span[s]) /\ s \in Ids(d) /\ d \in CacheT
    BY <2>2, LiveAre DEF Good, Used, InUse
  <2>4. e = Free(Erase([d EXCEPT !.span[s].cnt_ = @ + d.span[q].cnt_], q), q)
    BY <1>2 DEF JoinOn, JoinFollowing, Following
  <2>5. p = d.span[s].pageId_ + d.span[s].cnt_
    OBVIOUS
  <2> HIDE DEF p, e
  <2>6. q # s /\ IsFree(d, q) /\ d.span[s].pageId_ + d.span[s].cnt_ = d.span[q].pageId_
    <3>1. NextTo(d.span[s], p)
      BY <2>5 DEF NextTo
    <3>2. ~InUse(d.span[q])
      BY <2>1 DEF InUse
    <3> QED BY <2>1, <2>2, <2>5, <3>1, <3>2, NeighbourIs
  <2> HIDE DEF q
  <2>7. IsUnion(d.span[s], d.span[q], b)
    <3>1. d.span[q] \in SpanT
      BY <2>3, <2>6, LiveAre DEF IsFree
    <3> QED BY <2>3, <2>6, <3>1, WithIs
  <2>8. e = Free(Erase(Put(d, s, b), q), q)
    <3>1. [d EXCEPT !.span[s].cnt_ = @ + d.span[q].cnt_]
            = [d EXCEPT !.span = [@ EXCEPT ![s] = b]]
      BY DEF WithFollowing
    <3> QED BY <2>4, <3>1 DEF Put
  <2> HIDE DEF b
  <2>9. Joining(c, e, s)
    BY <2>1, <2>6, <2>7, <2>8, JoinMore
  <2> QED BY <2>9 DEF e
<1> QED BY <1>1, <1>2

\* One turn of the two loops
Turn(f, n, spans, c, s) ==
  IF n = 0 THEN c ELSE IF n <= spans THEN JoinBack(f[n - 1], s) ELSE JoinOn(f[n - 1], s)

\* There is a function that says where each turn leads.
LEMMA TurnsExist ==
  ASSUME NEW m \in Nat, NEW spans \in Nat, NEW c, NEW s
  PROVE  \E f : f = [n \in 0 .. m |-> Turn(f, n, spans, c, s)]
<1> DEFINE S == {k \in 0 .. m : \E f : f = [n \in 0 .. k |-> Turn(f, n, spans, c, s)]}
<1>1. 0 \in S
  <2> DEFINE f == [n \in 0 .. 0 |-> c]
  <2>1. f = [n \in 0 .. 0 |-> Turn(f, n, spans, c, s)]
    BY DEF Turn
  <2> HIDE DEF f
  <2> QED BY <2>1
<1>2. ASSUME NEW k \in 0 .. m - 1, k \in S
      PROVE  k + 1 \in S
  <2>1. PICK f : f = [n \in 0 .. k |-> Turn(f, n, spans, c, s)]
    BY <1>2
  <2> DEFINE g == [n \in 0 .. k + 1 |-> Turn(f, n, spans, c, s)]
  <2>2. ASSUME NEW n \in 0 .. k + 1
        PROVE  Turn(f, n, spans, c, s) = Turn(g, n, spans, c, s)
    <3>1. CASE n = 0
      BY <3>1 DEF Turn
    <3>2. CASE n # 0
      <4>1. n - 1 \in 0 .. k /\ n - 1 \in 0 .. k + 1
        BY <3>2
      <4>2. f[n - 1] = g[n - 1]
        BY <2>1, <4>1
      <4> HIDE DEF g
      <4> QED BY <4>2 DEF Turn
    <3> QED BY <3>1, <3>2
  <2>3. g = [n \in 0 .. k + 1 |-> Turn(g, n, spans, c, s)]
    <3>1. g = [n \in 0 .. k + 1 |-> Turn(f, n, spans, c, s)]
      OBVIOUS
    <3> HIDE DEF g
    <3> QED BY <2>2, <3>1
  <2> HIDE DEF g
  <2> QED BY <2>3
<1> HIDE DEF S
<1>3. \A n \in 0 .. m : n \in S
  BY <1>1, <1>2, UpTo
<1>4. m \in S
  BY <1>3
<1> QED BY <1>4 DEF S

\* The two loops of revertSpan
LEMMA JoinAllIs ==
  ASSUME NEW c, NEW s, NEW d \in CacheT, Joining(c, d, s)
  PROVE  Joining(c, JoinAll(d, s), s)
<1> DEFINE spans == Len(d.span)
           m     == 2 * spans
           turn[n \in 0 .. 2 * spans] ==
             IF n = 0 THEN d ELSE IF n <= spans THEN JoinBack(turn[n - 1], s)
                                                ELSE JoinOn(turn[n - 1], s)
<1>1. spans \in Nat /\ m \in Nat
  BY IdsAre
<1>2. JoinAll(d, s) = turn[m]
  BY DEF JoinAll
<1>3. turn = CHOOSE f : f = [n \in 0 .. m |->
               IF n = 0 THEN d ELSE IF n <= spans THEN JoinBack(f[n - 1], s)
                                                ELSE JoinOn(f[n - 1], s)]
  BY DEF turn
<1> HIDE DEF turn, m, spans
<1>4. turn = CHOOSE f : f = [n \in 0 .. m |-> Turn(f, n, spans, d, s)]
  BY <1>3 DEF Turn
<1>5. turn = [n \in 0 .. m |-> Turn(turn, n, spans, d, s)]
  BY <1>1, <1>4, TurnsExist
<1> DEFINE S == {n \in 0 .. m : Joining(c, turn[n], s)}
<1>6. 0 \in S
  BY <1>1, <1>5 DEF Turn
<1>7. ASSUME NEW n \in 0 .. m - 1, n \in S
      PROVE  n + 1 \in S
  <2>1. n + 1 \in 0 .. m /\ n + 1 # 0 /\ (n + 1) - 1 = n
    BY <1>1
  <2>2. turn[n + 1] = JoinBack(turn[n], s) \/ turn[n + 1] = JoinOn(turn[n], s)
    BY <1>5, <2>1 DEF Turn
  <2>3. Joining(c, turn[n], s)
    BY <1>7
  <2> HIDE DEF turn
  <2>4. Joining(c, turn[n + 1], s)
    BY <2>2, <2>3, JoinBackIs, JoinOnIs
  <2> QED BY <2>1, <2>4
<1> HIDE DEF S
<1>8. \A n \in 0 .. m : n \in S
  BY <1>1, <1>6, <1>7, UpTo
<1>9. m \in S
  BY <1>1, <1>8
<1> QED BY <1>2, <1>9 DEF S

\* Span s is in use no more, which is all that has changed of the spans in use.
Reverted(c, d, s) ==
  /\ Good(d, {}, {}) /\ Covers(c, d)
  /\ Used(d) = Used(c) \ {s} /\ \A r \in Used(d) : d.span[r] = c.span[r]

Unused(a) == [a EXCEPT !.used_ = FALSE]

\* What revertSpan writes into the record
LEMMA UnusedIs ==
  ASSUME NEW a \in SpanT
  PROVE  /\ SamePages(a, Unused(a)) /\ ~InUse(Unused(a))
         /\ Unused(a).useCnt_ = a.useCnt_ /\ Unused(a).cnt_ = a.cnt_
BY DEF SpanT, Unused, SamePages, InUse

\* revertSpan joins a span with its neighbours and puts it on a list: no other
\* span in use changes, and no page is lost.
LEMMA RevertSpanIs ==
  ASSUME NEW c, Good(c, {}, {}), NEW s \in Used(c), c.span[s].cnt_ <= kMaxPages,
         c.span[s].useCnt_ = 0, NEW d, d = RevertSpan(c, s)
  PROVE  Reverted(c, d, s) /\ d.brk >= 1
<1> DEFINE j == JoinAll(c, s)
           a == Unused(j.span[s])
           f == [j EXCEPT !.span[s].used_ = FALSE]
           n == j.span[s].cnt_
           p == PushFront(f, s)
<1>1. d = MapEnds(p, s)
  <2>1. c.span[s].cnt_ \in Nat
    BY LiveAre DEF Good, Used
  <2>2. ~(c.span[s].cnt_ > kMaxPages)
    BY <2>1, Bucket
  <2> QED BY <2>2 DEF RevertSpan
<1>2. Joining(c, j, s)
  <2>1. Joining(c, c, s)
    <3>1. Good(c, {}, {s})
      BY GoodMore
    <3> QED BY <3>1 DEF Joining, Covers, KeepsOthers
  <2>2. c \in CacheT
    BY DEF Good
  <2> QED BY <2>1, <2>2, JoinAllIs
<1> HIDE DEF j
<1>3. /\ Good(j, {}, {s}) /\ Covers(c, j) /\ KeepsOthers(c, j, s) /\ s \in Used(j)
      /\ n <= kMaxPages /\ j.span[s].useCnt_ = 0
  BY <1>2 DEF Joining
<1>4. s \in Live(j) /\ InUse(j.span[s])
  BY <1>3 DEF Used, InUse
<1>5. j.span[s] \in SpanT /\ n \in Nat /\ n >= 1
  BY <1>3, <1>4, LiveAre DEF Good, Laid
<1>6. SamePages(j.span[s], a) /\ ~InUse(a) /\ a.useCnt_ = 0 /\ a.cnt_ = n
  BY <1>3, <1>5, UnusedIs
<1>7. f = Put(j, s, a)
  <2>1. f = [j EXCEPT !.span = [@ EXCEPT ![s] = a]]
    BY DEF Unused
  <2> QED BY <2>1 DEF Put
<1> HIDE DEF a, f, n
<1>8. Good(f, {} \cup {s}, {s} \cup {s}) /\ PutKeeps(j, f, s, a)
  <2>1. Unlisted(j, {}, s)
    BY <1>4 DEF Unlisted, InUse
  <2>2. SamePages(j.span[s], a)
    BY <1>6
  <2> QED BY <1>3, <1>4, <1>7, <2>1, <2>2, RecordGood
<1>9. {} \cup {s} = {s} /\ {s} \cup {s} = {s} /\ {s} \ {s} = {}
  OBVIOUS
<1>10. Good(f, {s}, {s})
  BY <1>8, <1>9
<1>11. Live(f) = Live(j) /\ IsPut(j, f, s, a) /\ Covers(j, f) /\ f.span[s] = a
  BY <1>8 DEF PutKeeps, IsPut
<1>12. IsFirst(f, p, {s} \ {s}, {s}, s, n)
  <2>1. Pushable(f, {s}, s, n)
    BY <1>4, <1>6, <1>11 DEF Pushable, InUse
  <2>2. n \in 1 .. kMaxPages
    BY <1>3, <1>5, Bucket
  <2> QED BY <1>10, <2>1, <2>2, PushGood
<1> HIDE DEF p
<1>13. Good(p, {}, {s}) /\ LinksOnly(f, p)
  BY <1>9, <1>12 DEF IsFirst
<1>14. p.span = f.span /\ p.pool = f.pool /\ Live(p) = Live(f)
  BY <1>13, LinksOnlyKeeps, <1>10
<1>15. /\ Good(d, {}, {s} \ {s}) /\ d.span = p.span /\ d.pool = p.pool /\ Live(d) = Live(p)
  <2>1. IsFree(p, s)
    BY <1>4, <1>6, <1>11, <1>14 DEF IsFree, InUse
  <2> QED BY <1>1, <1>13, <2>1, MapEndsGood
<1>16. Good(d, {}, {})
  BY <1>9, <1>15
<1>17. d.span = f.span /\ Live(d) = Live(j) /\ Covers(f, d)
  BY <1>11, <1>14, <1>15, SameSpans
<1>18. Covers(c, d)
  BY <1>3, <1>11, <1>17 DEF Covers
<1>19. \A r \in Live(j) : r # s => d.span[r] = j.span[r]
  BY <1>11, <1>17 DEF IsPut, Live
<1>20. Used(d) = Used(j) \ {s}
  BY <1>6, <1>11, <1>17, <1>19 DEF Used, InUse
<1>21. \A r \in Used(d) : d.span[r] = c.span[r]
  BY <1>3, <1>19, <1>20 DEF KeepsOthers, Used
<1>22. d.brk >= 1
  <2>1. s \in Live(d) /\ Laid(d) /\ d \in CacheT
    BY <1>4, <1>16, <1>17 DEF Good
  <2>2. d.span[s].pageId_ \in Nat /\ d.span[s].cnt_ \in Nat /\ d.brk \in Nat
    BY <2>1, LiveAre, FieldsAre
  <2> QED BY <2>1, <2>2 DEF Laid
<1> QED BY <1>3, <1>16, <1>18, <1>20, <1>21, <1>22 DEF Reverted, KeepsOthers

-----------------------------------------------------------------------------
(* The objects of a span *)

\* What a class is: the size b of a request that a ThreadCache serves, its rounded size r
IsClass(b, r, n) ==
  /\ b \in Sizes /\ r \in Sizes /\ r = RoundUp(b) /\ b <= r /\ Index(r) = Index(b)
  /\ n = NumMovePage(r) /\ n \in Nat /\ n >= 1 /\ n <= kMaxPages

SmallRequests == {b \in Requests : b <= kMaxBytes}
LargeRequests == {b \in Requests : ~(b <= kMaxBytes)}

\* What Ranges says, and what RoundUp and Index say, of a small request
LEMMA ClassIs ==
  ASSUME NEW b \in SmallRequests
  PROVE  IsClass(b, RoundUp(b), NumMovePage(RoundUp(b))) /\ Index(b) \in Buckets
<1>1. b \in Sizes
  BY RequestsAssumption DEF Sizes, SmallRequests
<1>2. RoundUp(b) \in Sizes /\ b <= RoundUp(b) /\ Index(RoundUp(b)) = Index(b)
  BY <1>1, RoundUpFits, FreedWhereTaken
<1>3. RoundUp(b) >= 8
  BY <1>1, Ranges DEF InRange, Sizes
<1>4. NumMovePage(RoundUp(b)) >= 1 /\ NumMovePage(RoundUp(b)) <= 128
  BY <1>2, <1>3, SpanOfClassIsListed
<1>5. NumMovePage(RoundUp(b)) \in Nat
  <2> DEFINE r == RoundUp(b)
  <2>1. NumMoveSize(r) \in Nat
    BY <1>2 DEF Sizes, NumMoveSize, kMaxBytes
  <2> QED BY <1>2, <2>1 DEF NumMovePage, Sizes
<1> QED BY <1>1, <1>2, <1>4, <1>5, Bucket DEF IsClass, SmallRequests, Buckets

\* The pages of a block too large for a ThreadCache hold it.
LEMMA LargeIs ==
  ASSUME NEW b \in LargeRequests
  PROVE  /\ b \in Nat /\ b > kMaxBytes /\ RoundUp(b) \div kPageSize \in Nat
         /\ RoundUp(b) \div kPageSize >= 1 /\ b <= Address(RoundUp(b) \div kPageSize)
<1>1. b \in Nat /\ b > 262144
  BY RequestsAssumption DEF LargeRequests, kMaxBytes
<1>2. RoundUp(b) = ((b + 4095) \div 4096) * 4096
  BY <1>1 DEF RoundUp, RoundUpTo, Align, kMaxBytes
<1> QED BY <1>1, <1>2 DEF kPageSize, Address, kMaxBytes

-----------------------------------------------------------------------------
\* A quotient times the divisor is no more than what was divided.
LEMMA DivTimes ==
  ASSUME NEW b \in Nat \ {0}, NEW x \in Nat, NEW j \in Nat, j <= x \div b
  PROVE  j * b <= x
<1> DEFINE q == x \div b
<1>1. q \in Nat /\ b * q <= x
  OBVIOUS
<1> HIDE DEF q
<1>2. (q - j) * b >= 0
  BY <1>1 DEF q
<1>3. (q - j) * b = q * b - j * b
  BY <1>1
<1> QED BY <1>1, <1>2, <1>3

\* Different multiples of a number are at least that number apart.
LEMMA Multiples ==
  ASSUME NEW b \in Nat \ {0}, NEW i \in Nat, NEW j \in Nat, i < j
  PROVE  i * b + b <= j * b
<1>1. (j - i - 1) * b >= 0
  OBVIOUS
<1>2. (j - i - 1) * b = j * b - i * b - b
  OBVIOUS
<1> QED BY <1>1, <1>2

\* A span that can be cut
Cuttable(a) == a \in SpanT /\ a.cnt_ >= 1 /\ a.blockSize_ >= 1

\* The objects of a span lie in it, one blockSize_ behind the other.
AreCut(a, q) ==
  /\ q \in Seq(Nat) /\ q # <<>> /\ Distinct(q)
  /\ \A p \in Range(q) : p \in Nat /\ Address(a.pageId_) <= p /\ p < Address(a.pageId_ + a.cnt_)
  /\ \A i, j \in DOMAIN q : i # j => q[i] + a.blockSize_ <= q[j] \/ q[j] + a.blockSize_ <= q[i]

\* Cuts is such a sequence.
LEMMA CutsAre ==
  ASSUME NEW a, Cuttable(a)
  PROVE  AreCut(a, Cuts(a))
<1> DEFINE x == Address(a.cnt_) - 1
           b == a.blockSize_
           f == Address(a.pageId_)
           m == x \div b + 1
           q == Cuts(a)
<1>1. a.pageId_ \in Nat /\ a.cnt_ \in Nat /\ b \in Nat \ {0} /\ a.cnt_ >= 1
  BY SpanFields DEF Cuttable
<1>2. x \in Nat /\ f \in Nat /\ Address(a.pageId_ + a.cnt_) = f + x + 1
  BY <1>1 DEF Address, kPageSize
<1>3. q = [k \in 1 .. m |-> f + (k - 1) * b]
  BY DEF Cuts
<1> HIDE DEF x, b, f, q
<1>4. m \in Nat /\ m >= 1 /\ \A k \in 1 .. m : k - 1 \in Nat /\ k - 1 <= x \div b
  BY <1>1, <1>2
<1> HIDE DEF m
<1>5. ASSUME NEW k \in 1 .. m
      PROVE  q[k] = f + (k - 1) * b /\ q[k] \in Nat /\ f <= q[k] /\ q[k] <= f + x
  <2>1. k - 1 \in Nat /\ k - 1 <= x \div b
    BY <1>4
  <2>2. (k - 1) * b <= x
    BY <1>1, <1>2, <2>1, DivTimes
  <2>3. (k - 1) * b \in Nat
    BY <1>1, <2>1
  <2>4. q[k] = f + (k - 1) * b
    BY <1>3
  <2> QED BY <1>2, <2>2, <2>3, <2>4
<1>6. DOMAIN q = 1 .. m /\ q \in Seq(Nat) /\ q # <<>>
  <2>1. DOMAIN q = 1 .. m /\ q \in [1 .. m -> Nat]
    BY <1>3, <1>5
  <2>2. q \in Seq(Nat)
    BY <1>4, <2>1, SeqDef
  <2>3. Len(q) = m
    BY <1>4, <2>1, <2>2, LenProperties
  <2>4. q # <<>>
    BY <1>4, <2>2, <2>3, EmptySeq
  <2> QED BY <2>1, <2>2, <2>4
<1>7. ASSUME NEW i \in DOMAIN q, NEW j \in DOMAIN q, i < j
      PROVE  q[i] + b <= q[j]
  <2>1. i - 1 \in Nat /\ j - 1 \in Nat /\ i - 1 < j - 1
    BY <1>4, <1>6, <1>7
  <2>2. (i - 1) * b + b <= (j - 1) * b
    BY <1>1, <2>1, Multiples
  <2>3. (i - 1) * b \in Nat /\ (j - 1) * b \in Nat
    BY <1>1, <2>1
  <2>4. q[i] = f + (i - 1) * b /\ q[j] = f + (j - 1) * b
    BY <1>5, <1>6
  <2> QED BY <1>1, <1>2, <2>2, <2>3, <2>4
<1>8. \A i, j \in DOMAIN q : i # j => q[i] + b <= q[j] \/ q[j] + b <= q[i]
  <2> SUFFICES ASSUME NEW i \in DOMAIN q, NEW j \in DOMAIN q, i # j
               PROVE  q[i] + b <= q[j] \/ q[j] + b <= q[i]
    OBVIOUS
  <2>1. i < j \/ j < i
    BY <1>4, <1>6
  <2> QED BY <1>7, <2>1
<1>9. Distinct(q)
  <2> SUFFICES ASSUME NEW i \in DOMAIN q, NEW j \in DOMAIN q, q[i] = q[j], i # j
               PROVE  FALSE
    BY DEF Distinct
  <2>1. q[i] \in Nat /\ q[j] \in Nat
    BY <1>5, <1>6
  <2> QED BY <1>1, <1>8, <2>1
<1>10. \A p \in Range(q) : p \in Nat /\ f <= p /\ p < f + x + 1
  <2> SUFFICES ASSUME NEW i \in DOMAIN q PROVE q[i] \in Nat /\ f <= q[i] /\ q[i] < f + x + 1
    BY DEF Range
  <2> QED BY <1>2, <1>5, <1>6
<1> QED BY <1>2, <1>6, <1>8, <1>9, <1>10 DEF AreCut, b, f, q

-----------------------------------------------------------------------------
(* The heap and what its clients have of it *)

\* The same part of the heap, cut into the same objects
SameShape(a, b) ==
  b.pageId_ = a.pageId_ /\ b.cnt_ = a.cnt_ /\ b.blockSize_ = a.blockSize_

\* Objects depend on where a span lies and what it is cut into.
LEMMA SameObjects ==
  ASSUME NEW a, NEW b, SameShape(a, b)
  PROVE  Cuts(b) = Cuts(a) /\ Objects(b) = Objects(a)
BY DEF SameShape, Cuts, Objects

\* What is done to the record of a span in use
Rewritten(c, d, s, a) ==
  /\ Good(d, {}, {}) /\ Covers(c, d) /\ d.brk = c.brk /\ d.res = c.res
  /\ Used(d) = Used(c) /\ d.span[s] = a
  /\ \A r \in Used(c) : r # s => d.span[r] = c.span[r]

\* Rewriting the record of a span in use, on the same pages, keeps the cache
\* good.
LEMMA RewriteIs ==
  ASSUME NEW c, Good(c, {}, {}), NEW s \in Used(c), NEW a, SamePages(c.span[s], a), InUse(a),
         NEW d, d = Put(c, s, a)
  PROVE  Rewritten(c, d, s, a)
<1>1. s \in Live(c) /\ InUse(c.span[s]) /\ Mapping(c, {})
  BY DEF Used, InUse, Good
<1>2. Whole(c.hash_, c.span[s], s) /\ Unlisted(c, {}, s)
  BY <1>1 DEF Mapping, InUse, Unlisted
<1> DEFINE N == {}
<1>3. Good(c, N, N) /\ Unlisted(c, N, s)
  BY <1>2
<1> HIDE DEF N
<1>4. Good(d, N \ {s}, N \ {s}) /\ PutKeeps(c, d, s, a) /\ NowUsed(c, d, s)
  BY <1>1, <1>2, <1>3, UseGood
<1>5. N \ {s} = {}
  BY DEF N
<1>6. Used(d) = Used(c)
  BY <1>4 DEF NowUsed
<1>7. d.span[s] = a /\ \A r \in Used(c) : r # s => d.span[r] = c.span[r]
  BY <1>4 DEF PutKeeps, IsPut, Used, Live
<1> QED BY <1>4, <1>5, <1>6, <1>7 DEF PutKeeps, Rewritten

\* The record of a span one object is taken from, and of one that has been cut
Taken(a)  == [a EXCEPT !.freelist_ = Tail(@), !.useCnt_ = @ + 1]
CutUp(a)  == [a EXCEPT !.freelist_ = Cuts(a)]

\* Taking an object is such a change.
LEMMA TakenIs ==
  ASSUME NEW a \in SpanT, InUse(a), a.freelist_ # <<>>
  PROVE  /\ SamePages(a, Taken(a)) /\ InUse(Taken(a)) /\ SameShape(a, Taken(a))
         /\ Taken(a).freelist_ = Tail(a.freelist_) /\ Taken(a).useCnt_ = a.useCnt_ + 1
<1>1. Tail(a.freelist_) \in Seq(Nat) /\ a.useCnt_ + 1 \in Nat
  BY PopIs DEF SpanT
<1>2. Taken(a) \in SpanT /\ Taken(a).freelist_ = Tail(a.freelist_) /\ Taken(a).useCnt_ = a.useCnt_ + 1
  BY <1>1 DEF SpanT, Taken
<1>3. Taken(a).used_ = a.used_
  BY DEF SpanT, Taken
<1>4. Taken(a).pageId_ = a.pageId_ /\ Taken(a).cnt_ = a.cnt_ /\ Taken(a).blockSize_ = a.blockSize_
  BY DEF SpanT, Taken
<1> QED BY <1>2, <1>3, <1>4 DEF SamePages, SameShape, InUse

\* Cutting a span is such a change.
LEMMA CutUpIs ==
  ASSUME NEW a, Cuttable(a), InUse(a)
  PROVE  /\ SamePages(a, CutUp(a)) /\ InUse(CutUp(a)) /\ SameShape(a, CutUp(a))
         /\ CutUp(a).freelist_ = Cuts(CutUp(a)) /\ CutUp(a).useCnt_ = a.useCnt_
<1>1. Cuts(a) \in Seq(Nat) /\ a \in SpanT
  BY CutsAre DEF AreCut, Cuttable
<1>2. CutUp(a) \in SpanT /\ CutUp(a).freelist_ = Cuts(a) /\ CutUp(a).useCnt_ = a.useCnt_
  BY <1>1 DEF SpanT, CutUp
<1>3. CutUp(a).used_ = a.used_
  BY <1>1 DEF SpanT, CutUp
<1>4. CutUp(a).pageId_ = a.pageId_ /\ CutUp(a).cnt_ = a.cnt_ /\ CutUp(a).blockSize_ = a.blockSize_
  BY <1>1 DEF SpanT, CutUp
<1>5. SameShape(a, CutUp(a))
  BY <1>4 DEF SameShape
<1>6. Cuts(CutUp(a)) = Cuts(a)
  BY <1>5, SameObjects
<1> QED BY <1>2, <1>3, <1>4, <1>5, <1>6 DEF SamePages, InUse

-----------------------------------------------------------------------------
\* Where the page map leads from a span in use
LEMMA MapFinds ==
  ASSUME NEW c, Good(c, {}, {}), NEW s \in Used(c), NEW p \in Nat, Within(p, c.span[s]),
         c.span[s].cnt_ <= kMaxPages \/ p = c.span[s].pageId_
  PROVE  Mapped(c, p) /\ c.hash_[p] = s
<1>1. s \in Live(c) /\ c.span[s].used_ /\ Mapping(c, {})
  BY DEF Used, Good
<1>2. Whole(c.hash_, c.span[s], s)
  BY <1>1 DEF Mapping
<1> QED BY <1>2 DEF Whole, Leads, Mapped

SmallSpan(a) ==
  \E b \in SmallRequests : /\ a.blockSize_ = RoundUp(b) /\ a.cnt_ = NumMovePage(RoundUp(b))
                           /\ Range(a.freelist_) \subseteq Objects(a)
LargeSpan(a) ==
  \E b \in LargeRequests : /\ a.blockSize_ = b /\ a.cnt_ = RoundUp(b) \div kPageSize
                           /\ a.useCnt_ = 0

\* Block b is an object of a span that is cut, or all of one that is not.
BlockOf(a, b) ==
  IF b.bytes \in SmallRequests
  THEN a.blockSize_ = RoundUp(b.bytes) /\ b.ptr \in Objects(a)
  ELSE a.blockSize_ = b.bytes /\ b.ptr = Address(a.pageId_)

\* In the bucket i, a span has blocks of the class i.
InClass(a, i) == a.blockSize_ <= kMaxBytes /\ Index(a.blockSize_) = i

\* A thread that needs blocks of so many bytes has made span a of them.
Fetched(a, bytes) == a.blockSize_ = RoundUp(bytes) /\ a.freelist_ = Cuts(a)

SpansOk(c) == \A s \in Used(c) : SmallSpan(c.span[s]) \/ LargeSpan(c.span[s])

CentralOk(c, spans) ==
  \A i \in Buckets : \A s \in Range(spans[i]) : s \in Used(c) /\ InClass(c.span[s], i)

CachedOk(c, lists) ==
  \A t \in Threads : \A i \in Buckets : \A ptr \in Range(lists[t][i]) :
    \E s \in Used(c) : InClass(c.span[s], i) /\ ptr \in Objects(c.span[s])

FetchingOk(c, spans, f) ==
  \A t \in Threads :
    /\ f[t].bytes \in SmallRequests \cup {0}
    /\ f[t].span # 0 =>
         /\ f[t].bytes \in SmallRequests /\ f[t].span \in Used(c)
         /\ Fetched(c.span[f[t].span], f[t].bytes)
         /\ \A i \in Buckets : f[t].span \notin Range(spans[i])
         /\ \A u \in Threads : u # t => f[u].span # f[t].span

HeldOk(c, blocks) == \A i \in DOMAIN blocks : \E s \in Used(c) : BlockOf(c.span[s], blocks[i])

\* Two blocks too large for a ThreadCache do not begin at one place.
LargeApart(blocks) ==
  \A i, j \in DOMAIN blocks :
    i # j /\ blocks[i].bytes \in LargeRequests /\ blocks[j].bytes \in LargeRequests
      => blocks[i].ptr # blocks[j].ptr

BlockT == [ptr : Nat, bytes : Requests]

Tables(spans, lists, f, blocks) ==
  /\ spans \in [Buckets -> Seq(Nat)]
  /\ lists \in [Threads -> [Buckets -> Seq(Nat)]]
  /\ f \in [Threads -> [bytes : Nat, span : Nat]]
  /\ blocks \in Seq(BlockT)

\* The heap, with what its clients have of it
HeapIs(c, spans, lists, f, blocks) ==
  /\ Good(c, {}, {}) /\ c.brk >= 1 /\ SpansOk(c) /\ Tables(spans, lists, f, blocks)
  /\ CentralOk(c, spans) /\ FetchingOk(c, spans, f)
  /\ CachedOk(c, lists) /\ HeldOk(c, blocks) /\ LargeApart(blocks)

-----------------------------------------------------------------------------
\* What a span in use is
IsSmall(a) == Cuttable(a) /\ a.blockSize_ <= kMaxBytes /\ a.cnt_ <= kMaxPages

\* A span of a size class can be cut, and the lists take it back.
LEMMA SmallIs ==
  ASSUME NEW a \in SpanT, SmallSpan(a)
  PROVE  IsSmall(a)
<1>1. PICK b \in SmallRequests : a.blockSize_ = RoundUp(b) /\ a.cnt_ = NumMovePage(RoundUp(b))
  BY DEF SmallSpan
<1>2. IsClass(b, RoundUp(b), NumMovePage(RoundUp(b)))
  BY ClassIs
<1> QED BY <1>1, <1>2 DEF IsClass, IsSmall, Cuttable, Sizes

\* A span of its own is of no class.
LEMMA LargeSpanIs ==
  ASSUME NEW a, LargeSpan(a)
  PROVE  ~(a.blockSize_ <= kMaxBytes) /\ a.cnt_ >= 1 /\ a.useCnt_ = 0
<1>1. PICK b \in LargeRequests : /\ a.blockSize_ = b /\ a.cnt_ = RoundUp(b) \div kPageSize
                                 /\ a.useCnt_ = 0
  BY DEF LargeSpan
<1> QED BY <1>1, LargeIs DEF LargeRequests

\* The page map leads from a block to its span.
LEMMA BlockFinds ==
  ASSUME NEW c, Good(c, {}, {}), SpansOk(c), NEW s \in Used(c), NEW b, b.bytes \in Requests,
         BlockOf(c.span[s], b)
  PROVE  Mapped(c, b.ptr \div kPageSize) /\ MapToSpan(c, b.ptr) = s
<1> DEFINE a == c.span[s]
           p == b.ptr \div kPageSize
<1>1. /\ a \in SpanT /\ a.pageId_ \in Nat /\ a.cnt_ \in Nat /\ a.cnt_ >= 1
  BY LiveAre DEF Good, Used, Laid
<1>2. SmallSpan(a) \/ LargeSpan(a)
  BY DEF SpansOk
<1>3. p \in Nat /\ Within(p, a) /\ (a.cnt_ <= kMaxPages \/ p = a.pageId_)
  <2>1. CASE b.bytes \in SmallRequests
    <3>1. a.blockSize_ <= kMaxBytes /\ b.ptr \in Objects(a)
      BY <2>1, ClassIs DEF BlockOf, IsClass, Sizes
    <3>2. IsSmall(a)
      BY <1>1, <1>2, <3>1, SmallIs, LargeSpanIs
    <3>3. b.ptr \in Nat /\ Address(a.pageId_) <= b.ptr /\ b.ptr < Address(a.pageId_ + a.cnt_)
      BY <3>1, <3>2, CutsAre DEF AreCut, Objects, IsSmall
    <3> HIDE DEF a
    <3> QED BY <1>1, <3>2, <3>3 DEF Address, kPageSize, Within, IsSmall
  <2>2. CASE b.bytes \notin SmallRequests
    <3>1. b.ptr = Address(a.pageId_)
      BY <2>2 DEF BlockOf
    <3> HIDE DEF a
    <3> QED BY <1>1, <3>1 DEF Address, kPageSize, Within
  <2> QED BY <2>1, <2>2
<1> HIDE DEF p
<1>4. Mapped(c, p) /\ c.hash_[p] = s
  BY <1>3, MapFinds
<1> QED BY <1>4 DEF p, MapToSpan

-----------------------------------------------------------------------------
(* What a step leaves as it was *)

\* But for the spans of L, all that were in use are, and where they were.
Frame(c, d, L) ==
  \A r \in Used(c) : r \notin L => r \in Used(d) /\ SameShape(c.span[r], d.span[r])

\* No span of L is cut into objects.
AllLarge(c, L) == \A r \in L : ~(c.span[r].blockSize_ <= kMaxBytes)

\* CentralCache, when the spans of L go
LEMMA CentralKept ==
  ASSUME NEW c, NEW d, NEW L, NEW spans, CentralOk(c, spans), Frame(c, d, L), AllLarge(c, L)
  PROVE  CentralOk(d, spans)
<1> SUFFICES ASSUME NEW i \in Buckets, NEW s \in Range(spans[i])
             PROVE  s \in Used(d) /\ InClass(d.span[s], i)
  BY DEF CentralOk
<1>1. s \in Used(c) /\ InClass(c.span[s], i)
  BY DEF CentralOk
<1>2. s \notin L
  BY <1>1 DEF InClass, AllLarge
<1>3. s \in Used(d) /\ SameShape(c.span[s], d.span[s])
  BY <1>1, <1>2 DEF Frame
<1> QED BY <1>1, <1>3 DEF InClass, SameShape

\* The FreeLists, when the spans of L go
LEMMA CachedKept ==
  ASSUME NEW c, NEW d, NEW L, NEW lists, CachedOk(c, lists), Frame(c, d, L), AllLarge(c, L)
  PROVE  CachedOk(d, lists)
<1> SUFFICES ASSUME NEW t \in Threads, NEW i \in Buckets, NEW ptr \in Range(lists[t][i])
             PROVE  \E s \in Used(d) : InClass(d.span[s], i) /\ ptr \in Objects(d.span[s])
  BY DEF CachedOk
<1>1. PICK s \in Used(c) : InClass(c.span[s], i) /\ ptr \in Objects(c.span[s])
  BY DEF CachedOk
<1>2. s \notin L
  BY <1>1 DEF InClass, AllLarge
<1>3. s \in Used(d) /\ SameShape(c.span[s], d.span[s])
  BY <1>2 DEF Frame
<1>4. Objects(d.span[s]) = Objects(c.span[s])
  BY <1>3, SameObjects
<1> QED BY <1>1, <1>3, <1>4 DEF InClass, SameShape

\* A block of a span is one of its next record.
LEMMA BlockKept ==
  ASSUME NEW a, NEW b, SameShape(a, b), NEW x, BlockOf(a, x)
  PROVE  BlockOf(b, x)
BY SameObjects DEF BlockOf, SameShape

\* The blocks of the program, when no span goes
LEMMA HeldKept ==
  ASSUME NEW c, NEW d, NEW blocks, HeldOk(c, blocks), Frame(c, d, {})
  PROVE  HeldOk(d, blocks)
<1> SUFFICES ASSUME NEW i \in DOMAIN blocks
             PROVE  \E s \in Used(d) : BlockOf(d.span[s], blocks[i])
  BY DEF HeldOk
<1>1. PICK s \in Used(c) : BlockOf(c.span[s], blocks[i])
  BY DEF HeldOk
<1>2. s \in Used(d) /\ SameShape(c.span[s], d.span[s])
  BY DEF Frame
<1>3. BlockOf(d.span[s], blocks[i])
  BY <1>1, <1>2, BlockKept
<1> QED BY <1>2, <1>3

\* The spans that threads have made and not yet put into a bucket
InHand(f) == {f[t].span : t \in Threads}

\* The spans the threads have made, when none of them changes
LEMMA FetchingKept ==
  ASSUME NEW c, NEW d, NEW L, NEW spans, NEW f, FetchingOk(c, spans, f), Frame(c, d, L), AllLarge(c, L),
         \A s \in Used(c) : s \in InHand(f) /\ s \notin L => d.span[s].freelist_ = c.span[s].freelist_
  PROVE  FetchingOk(d, spans, f)
<1> SUFFICES ASSUME NEW t \in Threads, f[t].span # 0
             PROVE  f[t].span \in Used(d) /\ Fetched(d.span[f[t].span], f[t].bytes)
  BY DEF FetchingOk
<1> DEFINE s == f[t].span
<1>1. s \in Used(c) /\ Fetched(c.span[s], f[t].bytes) /\ f[t].bytes \in SmallRequests
  BY DEF FetchingOk
<1>2. c.span[s].blockSize_ <= kMaxBytes
  BY <1>1, ClassIs DEF Fetched, IsClass, Sizes
<1>3. s \notin L
  BY <1>2 DEF AllLarge
<1>4. s \in Used(d) /\ SameShape(c.span[s], d.span[s])
  BY <1>1, <1>3 DEF Frame
<1>5. d.span[s].freelist_ = c.span[s].freelist_
  BY <1>1, <1>3 DEF InHand
<1>6. Cuts(d.span[s]) = Cuts(c.span[s])
  BY <1>4, SameObjects
<1> QED BY <1>1, <1>4, <1>5, <1>6 DEF Fetched, SameShape

\* The sequence q is s with e put behind.
IsAppended(s, e, q) ==
  /\ \A i \in DOMAIN q : \/ i \in DOMAIN s /\ q[i] = s[i]
                         \/ i \notin DOMAIN s /\ i = Len(s) + 1 /\ q[i] = e
  /\ \A i \in DOMAIN s : i \in DOMAIN q
  /\ Len(s) + 1 \in DOMAIN q /\ q[Len(s) + 1] = e

\* The program has one more block.
LEMMA AppendHeld ==
  ASSUME NEW blocks \in Seq(BlockT), NEW p \in Nat, NEW n \in Requests,
         NEW q, q = Append(blocks, Block(p, n))
  PROVE  q \in Seq(BlockT) /\ IsAppended(blocks, Block(p, n), q)
<1>1. Block(p, n) \in BlockT
  BY DEF Block, BlockT
<1> QED BY <1>1, Pushed DEF IsAppended

\* A block more, which is of a span in use and apart from all large ones
LEMMA MoreHeld ==
  ASSUME NEW c, NEW blocks \in Seq(BlockT), HeldOk(c, blocks), LargeApart(blocks),
         NEW p \in Nat, NEW n \in Requests, NEW s \in Used(c), BlockOf(c.span[s], Block(p, n)),
         n \in LargeRequests =>
           \A i \in DOMAIN blocks : blocks[i].bytes \in LargeRequests => blocks[i].ptr # p,
         NEW q, q = Append(blocks, Block(p, n))
  PROVE  HeldOk(c, q) /\ LargeApart(q) /\ q \in Seq(BlockT)
<1>1. q \in Seq(BlockT) /\ IsAppended(blocks, Block(p, n), q)
  BY AppendHeld
<1>2. \A i \in DOMAIN q : \/ i \in DOMAIN blocks /\ q[i] = blocks[i]
                          \/ i \notin DOMAIN blocks /\ i = Len(blocks) + 1 /\ q[i] = Block(p, n)
  BY <1>1 DEF IsAppended
<1>3. HeldOk(c, q)
  <2> SUFFICES ASSUME NEW i \in DOMAIN q PROVE \E r \in Used(c) : BlockOf(c.span[r], q[i])
    BY DEF HeldOk
  <2>1. CASE i \in DOMAIN blocks
    <3>1. q[i] = blocks[i]
      BY <1>2, <2>1
    <3> QED BY <2>1, <3>1 DEF HeldOk
  <2>2. CASE i \notin DOMAIN blocks
    <3>1. q[i] = Block(p, n)
      BY <1>2, <2>2
    <3> QED BY <3>1
  <2> QED BY <2>1, <2>2
<1>4. Block(p, n).ptr = p /\ Block(p, n).bytes = n
  BY DEF Block
<1>5. LargeApart(q)
  <2> SUFFICES ASSUME NEW i \in DOMAIN q, NEW j \in DOMAIN q, i # j,
                      q[i].bytes \in LargeRequests, q[j].bytes \in LargeRequests
               PROVE  q[i].ptr # q[j].ptr
    BY DEF LargeApart
  <2>1. CASE i \in DOMAIN blocks /\ j \in DOMAIN blocks
    BY <1>2, <2>1 DEF LargeApart
  <2>2. CASE i \notin DOMAIN blocks /\ j \in DOMAIN blocks
    <3>1. q[i] = Block(p, n) /\ q[j] = blocks[j]
      BY <1>2, <2>2
    <3> QED BY <1>4, <2>2, <3>1
  <2>3. CASE i \in DOMAIN blocks /\ j \notin DOMAIN blocks
    <3>1. q[j] = Block(p, n) /\ q[i] = blocks[i]
      BY <1>2, <2>3
    <3> QED BY <1>4, <2>3, <3>1
  <2>4. CASE i \notin DOMAIN blocks /\ j \notin DOMAIN blocks
    BY <1>2, <2>4
  <2> QED BY <2>1, <2>2, <2>3, <2>4
<1> QED BY <1>1, <1>3, <1>5

-----------------------------------------------------------------------------
(* The actions keep the invariant: allocating *)

\* A span that was handed out changes none that is in use.
LEMMA HandedFrame ==
  ASSUME NEW c, NEW e, NEW s, NEW n, NEW size, Handed(c, e, s, n, size)
  PROVE  Frame(c, e, {}) /\ \A r \in Used(c) : e.span[r] = c.span[r]
BY DEF Handed, Frame, SameShape

\* Spans in use lie apart: their addresses differ.
LEMMA UsedApart ==
  ASSUME NEW c, Good(c, {}, {}), NEW r \in Used(c), NEW s \in Used(c), r # s
  PROVE  Address(c.span[r].pageId_) # Address(c.span[s].pageId_)
<1>1. r \in Live(c) /\ s \in Live(c) /\ Laid(c) /\ c \in CacheT
  BY DEF Used, Good
<1>2. Apart(c.span[r], c.span[s]) /\ c.span[r].cnt_ >= 1 /\ c.span[s].cnt_ >= 1
  BY <1>1 DEF Laid
<1>3. /\ c.span[r].pageId_ \in Nat /\ c.span[r].cnt_ \in Nat
      /\ c.span[s].pageId_ \in Nat /\ c.span[s].cnt_ \in Nat
  BY <1>1, LiveAre
<1> QED BY <1>2, <1>3 DEF Apart, Address, kPageSize

\* Where the heap has a span in use, it has begun to grow.
LEMMA BrkAbove ==
  ASSUME NEW c, Good(c, {}, {}), NEW s \in Used(c)
  PROVE  /\ c.brk >= 1 /\ c.span[s] \in SpanT /\ InUse(c.span[s]) /\ s \in Nat \ {0}
         /\ c.span[s].pageId_ \in Nat /\ c.span[s].cnt_ >= 1
<1>1. s \in Live(c) /\ Laid(c) /\ c \in CacheT /\ InUse(c.span[s])
  BY DEF Good, Used, InUse
<1>2. c.span[s].pageId_ \in Nat /\ c.span[s].cnt_ \in Nat /\ c.brk \in Nat
  BY <1>1, LiveAre, FieldsAre
<1>3. c.span[s] \in SpanT /\ s \in Nat \ {0}
  BY <1>1, LiveAre
<1> QED BY <1>1, <1>2, <1>3 DEF Laid

\* The program gets all of a new span.
GivesAll(c, d, s, bytes, blocks, q) ==
  /\ Handed(c, d, s, RoundUp(bytes) \div kPageSize, bytes)
  /\ q = Append(blocks, Block(Address(d.span[s].pageId_), bytes))

\* AllocLarge hands all of a new span to the program.
LEMMA AllocLargeGives ==
  ASSUME HeapIs(cache, central, freelists, fetching, held), NEW t \in Threads, NEW bytes \in Requests,
         AllocLarge(t, bytes)
  PROVE  /\ bytes \in LargeRequests /\ bytes \in Nat
         /\ \E s : GivesAll(cache, cache', s, bytes, held, held')
<1> DEFINE n == RoundUp(bytes) \div kPageSize
<1>1. Good(cache, {}, {}) /\ cache.brk >= 1
  BY DEF HeapIs
<1>2. bytes \in LargeRequests /\ bytes \in Nat /\ n \in Nat /\ n >= 1
  <2>1. bytes \in Nat /\ ~(bytes <= kMaxBytes)
    BY RequestsAssumption DEF AllocLarge, kMaxBytes
  <2>2. bytes \in LargeRequests
    BY <2>1 DEF LargeRequests
  <2> QED BY <2>1, <2>2, LargeIs
<1>3. PICK gap \in Gaps : cache' = Hand(cache, n, gap, bytes)
  BY DEF AllocLarge
<1>4. gap \in Nat
  BY GapsAssumption
<1>5. PICK s : Handed(cache, cache', s, n, bytes)
  <2> HIDE DEF n
  <2> QED BY <1>1, <1>2, <1>3, <1>4, HandIs
<1>6. held' = Append(held, Block(Address(cache'.span[s].pageId_), bytes))
  BY <1>5 DEF AllocLarge, Handed
<1> QED BY <1>2, <1>5, <1>6 DEF GivesAll

\* AllocLarge: a span of its own
LEMMA AllocLargeKeeps ==
  ASSUME HeapIs(cache, central, freelists, fetching, held), NEW t \in Threads, NEW bytes \in Requests,
         AllocLarge(t, bytes)
  PROVE  HeapIs(cache', central', freelists', fetching', held') /\ Covers(cache, cache')
<1> DEFINE n == RoundUp(bytes) \div kPageSize
<1>1. Good(cache, {}, {}) /\ cache.brk >= 1 /\ SpansOk(cache) /\ HeldOk(cache, held) /\ LargeApart(held)
  BY DEF HeapIs
<1>2. /\ CentralOk(cache, central) /\ FetchingOk(cache, central, fetching) /\ CachedOk(cache, freelists)
      /\ Tables(central, freelists, fetching, held)
  BY DEF HeapIs
<1>3. bytes \in LargeRequests /\ bytes \in Nat /\ ~(bytes \in SmallRequests)
  BY AllocLargeGives DEF LargeRequests, SmallRequests
<1>4. PICK s : GivesAll(cache, cache', s, bytes, held, held')
  BY AllocLargeGives
<1>5. Handed(cache, cache', s, n, bytes)
  BY <1>4 DEF GivesAll
<1>6. /\ Good(cache', {}, {}) /\ Covers(cache, cache') /\ cache'.res = s
      /\ Used(cache') = Used(cache) \cup {s} /\ s \notin Used(cache) /\ s \in Used(cache')
      /\ cache'.span[s].cnt_ = n /\ cache'.span[s].blockSize_ = bytes /\ cache'.span[s].useCnt_ = 0
  BY <1>5 DEF Handed
<1>7. Frame(cache, cache', {}) /\ \A r \in Used(cache) : cache'.span[r] = cache.span[r]
  BY <1>5, HandedFrame
<1>8. /\ held' = Append(held, Block(Address(cache'.span[s].pageId_), bytes))
      /\ central' = central /\ freelists' = freelists /\ fetching' = fetching
  BY <1>4 DEF AllocLarge, GivesAll
<1>9. AllLarge(cache, {})
  BY DEF AllLarge
<1>10. CentralOk(cache', central) /\ CachedOk(cache', freelists) /\ FetchingOk(cache', central, fetching)
       /\ HeldOk(cache', held)
  BY <1>1, <1>2, <1>7, <1>9, CentralKept, CachedKept, FetchingKept, HeldKept
<1>11. SpansOk(cache')
  <2>1. LargeSpan(cache'.span[s])
    BY <1>3, <1>6 DEF LargeSpan
  <2> QED BY <1>1, <1>6, <1>7, <2>1 DEF SpansOk
<1> DEFINE p == Address(cache'.span[s].pageId_)
<1>12. cache'.brk >= 1 /\ p \in Nat
  BY <1>6, BrkAbove DEF Address, kPageSize
<1>13. BlockOf(cache'.span[s], Block(p, bytes))
  BY <1>3, <1>6 DEF BlockOf, Block
<1>14. ASSUME NEW i \in DOMAIN held, held[i].bytes \in LargeRequests
       PROVE  held[i].ptr # p
  <2>1. PICK r \in Used(cache) : BlockOf(cache.span[r], held[i])
    BY <1>1 DEF HeldOk
  <2>2. held[i].ptr = Address(cache.span[r].pageId_)
    BY <1>14, <2>1 DEF BlockOf, LargeRequests, SmallRequests
  <2>3. r \in Used(cache') /\ r # s /\ cache'.span[r] = cache.span[r]
    BY <1>6, <1>7
  <2> QED BY <1>6, <2>2, <2>3, UsedApart
<1> HIDE DEF p
<1>15. HeldOk(cache', held') /\ LargeApart(held') /\ held' \in Seq(BlockT)
  <2>1. held \in Seq(BlockT)
    BY <1>2 DEF Tables
  <2>2. held' = Append(held, Block(p, bytes))
    BY <1>8 DEF p
  <2> QED BY <1>1, <1>6, <1>10, <1>12, <1>13, <1>14, <2>1, <2>2, MoreHeld
<1>16. Tables(central', freelists', fetching', held')
  BY <1>2, <1>8, <1>15 DEF Tables
<1> QED BY <1>6, <1>8, <1>10, <1>11, <1>12, <1>15, <1>16 DEF HeapIs

\* A span that has blocks of the class of a request is cut into blocks of its size.
LEMMA ClassSize ==
  ASSUME NEW a, SmallSpan(a) \/ LargeSpan(a), NEW bytes \in SmallRequests, InClass(a, Index(bytes))
  PROVE  SmallSpan(a) /\ a.blockSize_ = RoundUp(bytes)
<1>1. a.blockSize_ <= kMaxBytes /\ Index(a.blockSize_) = Index(bytes)
  BY DEF InClass
<1>2. SmallSpan(a)
  BY <1>1, LargeSpanIs
<1>3. PICK b \in SmallRequests : a.blockSize_ = RoundUp(b)
  BY <1>2 DEF SmallSpan
<1>4. /\ IsClass(b, RoundUp(b), NumMovePage(RoundUp(b)))
      /\ IsClass(bytes, RoundUp(bytes), NumMovePage(RoundUp(bytes)))
  BY ClassIs
<1>5. b \in Sizes /\ bytes \in Sizes /\ Index(b) = Index(bytes)
  BY <1>1, <1>3, <1>4 DEF IsClass
<1> QED BY <1>2, <1>3, <1>5, OneSizePerClass

\* An object of a span goes to the program.
Gives(c, d, s, q) ==
  /\ Rewritten(c, d, s, Taken(c.span[s])) /\ SameShape(c.span[s], Taken(c.span[s]))
  /\ SpansOk(d) /\ Frame(c, d, {}) /\ d.brk >= 1
  /\ HeldOk(d, q) /\ LargeApart(q) /\ q \in Seq(BlockT)

\* What it takes to give one
HasBlock(c, s, bytes) ==
  /\ s \in Used(c) /\ SmallSpan(c.span[s]) /\ c.span[s].blockSize_ = RoundUp(bytes)
  /\ c.span[s].freelist_ # <<>>

\* Taking the first object of a span keeps the cache good, and the blocks of
\* the program blocks of spans in use.
LEMMA GivesIs ==
  ASSUME NEW c, Good(c, {}, {}), SpansOk(c), NEW blocks \in Seq(BlockT), HeldOk(c, blocks),
         LargeApart(blocks),
         NEW s, NEW bytes \in SmallRequests, HasBlock(c, s, bytes),
         NEW d, d = [c EXCEPT !.span[s].freelist_ = Tail(@), !.span[s].useCnt_ = @ + 1],
         NEW q, q = Append(blocks, Block(Head(c.span[s].freelist_), bytes))
  PROVE  Gives(c, d, s, q)
<1> DEFINE a == c.span[s]
           x == Head(a.freelist_)
           b == Taken(a)
<1>1. s \in Used(c) /\ SmallSpan(a) /\ a.blockSize_ = RoundUp(bytes) /\ a.freelist_ # <<>>
  BY DEF HasBlock
<1>2. a \in SpanT /\ InUse(a)
  BY <1>1, BrkAbove
<1>3. /\ SamePages(a, b) /\ InUse(b) /\ SameShape(a, b)
      /\ b.freelist_ = Tail(a.freelist_)
  BY <1>1, <1>2, TakenIs
<1>4. x \in Nat /\ x \in Range(a.freelist_) /\ Range(Tail(a.freelist_)) \subseteq Range(a.freelist_)
  <2>1. a.freelist_ \in Seq(Nat)
    BY <1>2 DEF SpanT
  <2>2. 1 \in DOMAIN a.freelist_ /\ a.freelist_[1] = x /\ x \in Nat
    BY <1>1, <2>1, Popped
  <2>3. \A i \in DOMAIN Tail(a.freelist_) : \E j \in DOMAIN a.freelist_ :
          a.freelist_[j] = Tail(a.freelist_)[i]
    BY <1>1, <2>1, Popped
  <2> QED BY <2>2, <2>3 DEF Range
<1>5. d = Put(c, s, b)
  <2>1. d = [c EXCEPT !.span = [@ EXCEPT ![s] = b]]
    BY DEF Taken
  <2> QED BY <2>1 DEF Put
<1> HIDE DEF b
<1>6. Rewritten(c, d, s, b)
  BY <1>1, <1>3, <1>5, RewriteIs
<1>7. /\ Good(d, {}, {}) /\ d.brk = c.brk /\ Used(d) = Used(c) /\ d.span[s] = b
      /\ \A r \in Used(c) : r # s => d.span[r] = c.span[r]
  BY <1>6 DEF Rewritten
<1>8. Frame(c, d, {})
  BY <1>3, <1>7 DEF Frame, SameShape
<1>9. Objects(b) = Objects(a)
  BY <1>3, SameObjects
<1>10. SpansOk(d)
  <2>1. SmallSpan(b)
    BY <1>1, <1>3, <1>4, <1>9 DEF SmallSpan, SameShape
  <2>2. \A r \in Used(d) : r # s => SmallSpan(d.span[r]) \/ LargeSpan(d.span[r])
    BY <1>7 DEF SpansOk
  <2> QED BY <1>7, <2>1, <2>2 DEF SpansOk
<1>11. BlockOf(d.span[s], Block(x, bytes))
  <2>1. x \in Objects(a)
    BY <1>1, <1>4 DEF SmallSpan
  <2> QED BY <1>1, <1>3, <1>7, <1>9, <2>1 DEF BlockOf, Block, SameShape
<1>12. HeldOk(d, blocks)
  BY <1>8, HeldKept
<1>13. bytes \in Requests /\ ~(bytes \in LargeRequests)
  BY DEF SmallRequests, LargeRequests
<1> HIDE DEF x
<1>14. HeldOk(d, q) /\ LargeApart(q) /\ q \in Seq(BlockT)
  <2>1. q = Append(blocks, Block(x, bytes))
    BY DEF x
  <2>2. s \in Used(d)
    BY <1>1, <1>7
  <2> QED BY <1>4, <1>11, <1>12, <1>13, <2>1, <2>2, MoreHeld
<1>15. d.brk >= 1
  BY <1>1, <1>7, BrkAbove
<1> QED BY <1>3, <1>6, <1>8, <1>10, <1>14, <1>15 DEF Gives, b

-----------------------------------------------------------------------------
\* AllocCached: an object of the thread's own list
LEMMA AllocCachedKeeps ==
  ASSUME HeapIs(cache, central, freelists, fetching, held), NEW t \in Threads, NEW bytes \in Requests,
         AllocCached(t, bytes)
  PROVE  HeapIs(cache', central', freelists', fetching', held') /\ Covers(cache, cache')
<1> DEFINE i == Index(bytes)
           l == freelists[t][i]
           x == Head(l)
<1>1. bytes \in SmallRequests /\ i \in Buckets /\ ~(bytes \in LargeRequests)
  <2>1. bytes \in SmallRequests
    BY DEF AllocCached, SmallRequests
  <2> QED BY <2>1, ClassIs DEF LargeRequests, SmallRequests
<1>2. /\ l # <<>> /\ held' = Append(held, Block(x, bytes))
      /\ freelists' = [freelists EXCEPT ![t][i] = Tail(@)]
      /\ cache' = cache /\ central' = central /\ fetching' = fetching
  BY DEF AllocCached
<1>3. freelists \in [Threads -> [Buckets -> Seq(Nat)]] /\ held \in Seq(BlockT) /\ l \in Seq(Nat)
  BY <1>1 DEF HeapIs, Tables
<1>4. x \in Nat /\ x \in Range(l) /\ Tail(l) \in Seq(Nat) /\ Range(Tail(l)) \subseteq Range(l)
  <2> HIDE DEF l
  <2>1. /\ Tail(l) \in Seq(Nat) /\ 1 \in DOMAIN l /\ l[1] = x /\ x \in Nat
        /\ \A k \in DOMAIN Tail(l) : k + 1 \in DOMAIN l /\ Tail(l)[k] = l[k + 1]
    BY <1>2, <1>3, Popped
  <2> QED BY <2>1 DEF Range
<1>5. PICK s \in Used(cache) : InClass(cache.span[s], i) /\ x \in Objects(cache.span[s])
  BY <1>1, <1>4 DEF HeapIs, CachedOk
<1>6. BlockOf(cache.span[s], Block(x, bytes))
  <2>1. SmallSpan(cache.span[s]) \/ LargeSpan(cache.span[s])
    BY DEF HeapIs, SpansOk
  <2>2. cache.span[s].blockSize_ = RoundUp(bytes)
    BY <1>1, <1>5, <2>1, ClassSize
  <2> QED BY <1>1, <1>5, <2>2 DEF BlockOf, Block
<1> HIDE DEF x
<1>7. HeldOk(cache, held') /\ LargeApart(held') /\ held' \in Seq(BlockT)
  <2>1. HeldOk(cache, held) /\ LargeApart(held)
    BY DEF HeapIs
  <2> QED BY <1>1, <1>2, <1>3, <1>4, <1>6, <2>1, MoreHeld
<1>8. /\ freelists' \in [Threads -> [Buckets -> Seq(Nat)]]
      /\ \A u \in Threads, j \in Buckets : Range(freelists'[u][j]) \subseteq Range(freelists[u][j])
  BY <1>1, <1>2, <1>3, <1>4
<1>9. CachedOk(cache, freelists')
  BY <1>8 DEF HeapIs, CachedOk
<1>10. Tables(central', freelists', fetching', held')
  BY <1>2, <1>7, <1>8 DEF HeapIs, Tables
<1>11. Covers(cache, cache')
  BY <1>2 DEF Covers
<1> QED BY <1>2, <1>7, <1>9, <1>10, <1>11 DEF HeapIs

\* The program gets the first object of s.
GivesOne(c, d, s, bytes, blocks, q) ==
  /\ HasBlock(c, s, bytes) /\ Gives(c, d, s, q)
  /\ q = Append(blocks, Block(Head(c.span[s].freelist_), bytes))

\* Fetch hands the first object of a span of the bucket to the program.
LEMMA FetchGives ==
  ASSUME HeapIs(cache, central, freelists, fetching, held), NEW t \in Threads, NEW bytes \in Requests,
         Fetch(t, bytes)
  PROVE  /\ bytes \in SmallRequests
         /\ \E i \in Buckets : \E s \in Range(central[i]) :
              GivesOne(cache, cache', s, bytes, held, held')
<1> DEFINE i == Index(bytes)
<1>1. bytes \in SmallRequests /\ i \in Buckets
  <2>1. bytes \in SmallRequests
    BY DEF Fetch, NeedsObject, SmallRequests
  <2> QED BY <2>1, ClassIs
<1>2. PICK k \in DOMAIN central[i] : HasObject(central[i][k]) /\ TakeObject(central[i][k], bytes)
  BY DEF Fetch
<1> DEFINE s == central[i][k]
<1>3. s \in Range(central[i])
  BY DEF Range
<1> HIDE DEF s, i
<1>4. /\ cache' = [cache EXCEPT !.span[s].freelist_ = Tail(@), !.span[s].useCnt_ = @ + 1]
      /\ held' = Append(held, Block(Head(cache.span[s].freelist_), bytes))
      /\ cache.span[s].freelist_ # <<>>
  BY <1>2 DEF TakeObject, HasObject, s
<1>5. s \in Used(cache) /\ InClass(cache.span[s], i)
  BY <1>1, <1>3 DEF HeapIs, CentralOk
<1>6. HasBlock(cache, s, bytes)
  <2>1. SmallSpan(cache.span[s]) \/ LargeSpan(cache.span[s])
    BY <1>5 DEF HeapIs, SpansOk
  <2>2. SmallSpan(cache.span[s]) /\ cache.span[s].blockSize_ = RoundUp(bytes)
    BY <1>1, <1>5, <2>1, ClassSize DEF i
  <2> QED BY <1>4, <1>5, <2>2 DEF HasBlock
<1>7. /\ Good(cache, {}, {}) /\ SpansOk(cache) /\ HeldOk(cache, held) /\ LargeApart(held)
      /\ held \in Seq(BlockT)
  BY DEF HeapIs, Tables
<1>8. Gives(cache, cache', s, held')
  BY <1>1, <1>4, <1>6, <1>7, GivesIs
<1> QED BY <1>1, <1>3, <1>4, <1>6, <1>8 DEF GivesOne

\* Fetch: an object of a span of the bucket
LEMMA FetchKeeps ==
  ASSUME HeapIs(cache, central, freelists, fetching, held), NEW t \in Threads, NEW bytes \in Requests,
         Fetch(t, bytes)
  PROVE  HeapIs(cache', central', freelists', fetching', held') /\ Covers(cache, cache')
<1>1. PICK i \in Buckets : \E s \in Range(central[i]) : GivesOne(cache, cache', s, bytes, held, held')
  BY FetchGives
<1>2. PICK s \in Range(central[i]) : GivesOne(cache, cache', s, bytes, held, held')
  BY <1>1
<1>3. HasBlock(cache, s, bytes) /\ Gives(cache, cache', s, held')
  BY <1>2 DEF GivesOne
<1>4. central' = central /\ freelists' = freelists /\ fetching' = fetching
  BY DEF Fetch
<1>5. /\ Good(cache, {}, {}) /\ CentralOk(cache, central) /\ FetchingOk(cache, central, fetching)
      /\ CachedOk(cache, freelists)
  BY DEF HeapIs, Tables
<1>6. /\ Rewritten(cache, cache', s, Taken(cache.span[s])) /\ SpansOk(cache') /\ Frame(cache, cache', {})
      /\ cache'.brk >= 1 /\ HeldOk(cache', held') /\ LargeApart(held') /\ held' \in Seq(BlockT)
  BY <1>3 DEF Gives
<1>7. AllLarge(cache, {})
  BY DEF AllLarge
<1>8. CentralOk(cache', central) /\ CachedOk(cache', freelists)
  BY <1>5, <1>6, <1>7, CentralKept, CachedKept
<1>9. FetchingOk(cache', central, fetching)
  <2>1. s # 0
    BY <1>3, <1>5, BrkAbove DEF HasBlock
  <2>2. s \notin InHand(fetching)
    BY <1>2, <1>5, <2>1 DEF InHand, FetchingOk
  <2>3. \A r \in Used(cache) : r # s => cache'.span[r] = cache.span[r]
    BY <1>6 DEF Rewritten
  <2>4. \A r \in Used(cache) : r \in InHand(fetching) /\ r \notin {}
          => cache'.span[r].freelist_ = cache.span[r].freelist_
    BY <2>2, <2>3
  <2> QED BY <1>5, <1>6, <1>7, <2>4, FetchingKept
<1>10. Tables(central', freelists', fetching', held')
  BY <1>4, <1>6 DEF HeapIs, Tables
<1>11. Good(cache', {}, {}) /\ Covers(cache, cache')
  BY <1>6 DEF Rewritten
<1> QED BY <1>4, <1>6, <1>8, <1>9, <1>10, <1>11 DEF HeapIs

\* FindNoSpan: the thread has to make a span.
LEMMA FindNoSpanKeeps ==
  ASSUME HeapIs(cache, central, freelists, fetching, held), NEW t \in Threads, NEW bytes \in Requests,
         FindNoSpan(t, bytes)
  PROVE  HeapIs(cache', central', freelists', fetching', held') /\ Covers(cache, cache')
<1>1. bytes \in SmallRequests /\ bytes \in Nat
  BY RequestsAssumption DEF FindNoSpan, NeedsObject, SmallRequests
<1>2. /\ fetching' = [fetching EXCEPT ![t].bytes = bytes] /\ fetching[t] = Idle
      /\ cache' = cache /\ central' = central /\ freelists' = freelists /\ held' = held
  BY DEF FindNoSpan, NeedsObject, MayAlloc
<1>3. fetching \in [Threads -> [bytes : Nat, span : Nat]]
  BY DEF HeapIs, Tables
<1>4. /\ fetching' \in [Threads -> [bytes : Nat, span : Nat]]
      /\ fetching'[t].bytes = bytes /\ fetching'[t].span = 0
      /\ \A u \in Threads : u # t => fetching'[u] = fetching[u]
      /\ \A u \in Threads : fetching'[u].span = fetching[u].span
  BY <1>1, <1>2, <1>3 DEF Idle
<1>5. FetchingOk(cache, central, fetching')
  <2>1. FetchingOk(cache, central, fetching)
    BY DEF HeapIs
  <2> SUFFICES ASSUME NEW u \in Threads
               PROVE  /\ fetching'[u].bytes \in SmallRequests \cup {0}
                      /\ fetching'[u].span # 0 =>
                           /\ fetching'[u].bytes \in SmallRequests /\ fetching'[u].span \in Used(cache)
                           /\ Fetched(cache.span[fetching'[u].span], fetching'[u].bytes)
                           /\ \A i \in Buckets : fetching'[u].span \notin Range(central[i])
                           /\ \A v \in Threads : v # u => fetching'[v].span # fetching'[u].span
    BY DEF FetchingOk
  <2>2. CASE u = t
    BY <1>1, <1>4, <2>2
  <2>3. CASE u # t
    <3>1. fetching'[u] = fetching[u] /\ \A v \in Threads : fetching'[v].span = fetching[v].span
      BY <1>4, <2>3
    <3> QED BY <2>1, <3>1 DEF FetchingOk
  <2> QED BY <2>2, <2>3
<1>6. Tables(central', freelists', fetching', held') /\ Covers(cache, cache')
  BY <1>2, <1>4 DEF HeapIs, Tables, Covers
<1> QED BY <1>2, <1>5, <1>6 DEF HeapIs

-----------------------------------------------------------------------------
(* The actions keep the invariant: a thread makes a span *)

\* A new span of the size class of a request, cut into its objects
Made(c, d, s, bytes) ==
  /\ Good(d, {}, {}) /\ Covers(c, d) /\ d.brk >= 1 /\ s # 0
  /\ Used(d) = Used(c) \cup {s} /\ s \notin Used(c)
  /\ (\A r \in Used(c) : d.span[r] = c.span[r])
  /\ SmallSpan(d.span[s]) /\ Fetched(d.span[s], bytes) /\ d.span[s].useCnt_ = 0

\* The span that Hand made, once it is cut
LEMMA MadeIs ==
  ASSUME NEW c, Good(c, {}, {}), c.brk >= 1, NEW gap \in Nat, NEW bytes \in SmallRequests,
         NEW e, e = Hand(c, NumMovePage(RoundUp(bytes)), gap, RoundUp(bytes)),
         NEW d, d = [e EXCEPT !.span[e.res].freelist_ = Cuts(e.span[e.res])]
  PROVE  Made(c, d, e.res, bytes)
<1> DEFINE r == RoundUp(bytes)
           n == NumMovePage(r)
           s == e.res
           a == e.span[s]
<1>1. /\ r \in Nat /\ r >= 1 /\ r <= kMaxBytes /\ n \in Nat /\ n >= 1 /\ n <= kMaxPages
  BY ClassIs DEF IsClass, Sizes
<1>2. PICK u : Handed(c, e, u, n, r)
  <2>1. e = Hand(c, n, gap, r)
    OBVIOUS
  <2> HIDE DEF n, r
  <2> QED BY <1>1, <2>1, HandIs
<1>3. /\ Good(e, {}, {}) /\ Covers(c, e) /\ Used(e) = Used(c) \cup {s} /\ s \notin Used(c)
      /\ (\A k \in Used(c) : e.span[k] = c.span[k]) /\ s \in Used(e)
      /\ a.cnt_ = n /\ a.blockSize_ = r /\ a.useCnt_ = 0
  BY <1>2 DEF Handed
<1> DEFINE b == CutUp(a)
<1>4. a \in SpanT /\ InUse(a) /\ s # 0
  BY <1>3, BrkAbove
<1>5. Cuttable(a)
  BY <1>1, <1>3, <1>4 DEF Cuttable
<1>6. d = Put(e, s, b)
  <2>1. d = [e EXCEPT !.span = [@ EXCEPT ![s] = b]]
    BY DEF CutUp
  <2> QED BY <2>1 DEF Put
<1> HIDE DEF a, s, r, n
<1>7. SamePages(a, b) /\ InUse(b) /\ SameShape(a, b) /\ b.freelist_ = Cuts(b) /\ b.useCnt_ = 0
  BY <1>3, <1>4, <1>5, CutUpIs
<1> HIDE DEF b
<1>8. Rewritten(e, d, s, b)
  <2>1. SamePages(e.span[s], b) /\ InUse(b)
    BY <1>7 DEF a
  <2> QED BY <1>3, <1>6, <2>1, RewriteIs
<1>9. /\ Good(d, {}, {}) /\ Covers(e, d) /\ Used(d) = Used(e) /\ d.span[s] = b
      /\ \A k \in Used(e) : k # s => d.span[k] = e.span[k]
  BY <1>8 DEF Rewritten
<1>10. Covers(c, d)
  BY <1>3, <1>9 DEF Covers
<1>11. SmallSpan(b) /\ Fetched(b, bytes)
  <2>1. b.blockSize_ = r /\ b.cnt_ = n /\ Range(b.freelist_) \subseteq Objects(b)
    BY <1>3, <1>7 DEF SameShape, Objects
  <2> QED BY <1>7, <2>1 DEF SmallSpan, Fetched, r, n
<1>12. d.brk >= 1
  BY <1>3, <1>9, BrkAbove
<1> QED BY <1>3, <1>4, <1>7, <1>9, <1>10, <1>11, <1>12 DEF Made, s

\* GetSpan makes a span of the class of the request.
LEMMA GetSpanMakes ==
  ASSUME HeapIs(cache, central, freelists, fetching, held), NEW t \in Threads, GetSpan(t)
  PROVE  /\ fetching[t].bytes \in SmallRequests
         /\ \E s : /\ Made(cache, cache', s, fetching[t].bytes)
                   /\ fetching' = [fetching EXCEPT ![t].span = s]
<1> DEFINE bytes == fetching[t].bytes
<1>1. Good(cache, {}, {}) /\ cache.brk >= 1 /\ FetchingOk(cache, central, fetching)
  BY DEF HeapIs
<1>2. bytes \in SmallRequests
  <2>1. fetching[t].bytes \in SmallRequests \cup {0} /\ fetching[t].bytes > 0
    BY <1>1 DEF GetSpan, FetchingOk
  <2> QED BY <2>1
<1>3. PICK gap \in Gaps :
        LET new == Hand(cache, NumMovePage(RoundUp(bytes)), gap, RoundUp(bytes))
        IN  /\ cache' = [new EXCEPT !.span[new.res].freelist_ = Cuts(new.span[new.res])]
            /\ fetching' = [fetching EXCEPT ![t].span = new.res]
  BY DEF GetSpan
<1>4. gap \in Nat
  BY GapsAssumption
<1> DEFINE e == Hand(cache, NumMovePage(RoundUp(bytes)), gap, RoundUp(bytes))
           s == e.res
<1>5. Made(cache, cache', s, bytes) /\ fetching' = [fetching EXCEPT ![t].span = s]
  BY <1>1, <1>2, <1>3, <1>4, MadeIs
<1> QED BY <1>2, <1>5

\* GetSpan: a span is made.
LEMMA GetSpanKeeps ==
  ASSUME HeapIs(cache, central, freelists, fetching, held), NEW t \in Threads, GetSpan(t)
  PROVE  HeapIs(cache', central', freelists', fetching', held') /\ Covers(cache, cache')
<1> DEFINE bytes == fetching[t].bytes
<1>1. /\ Good(cache, {}, {}) /\ cache.brk >= 1 /\ SpansOk(cache) /\ HeldOk(cache, held)
      /\ CentralOk(cache, central) /\ FetchingOk(cache, central, fetching) /\ CachedOk(cache, freelists)
      /\ Tables(central, freelists, fetching, held) /\ LargeApart(held)
  BY DEF HeapIs
<1>2. bytes \in SmallRequests /\ bytes \in Nat
  BY GetSpanMakes, RequestsAssumption DEF SmallRequests
<1>3. central' = central /\ freelists' = freelists /\ held' = held
  BY DEF GetSpan
<1>4. PICK s : Made(cache, cache', s, bytes) /\ fetching' = [fetching EXCEPT ![t].span = s]
  BY GetSpanMakes
<1>5. /\ Good(cache', {}, {}) /\ Covers(cache, cache') /\ cache'.brk >= 1 /\ s # 0
      /\ Used(cache') = Used(cache) \cup {s} /\ s \notin Used(cache)
      /\ (\A r \in Used(cache) : cache'.span[r] = cache.span[r])
      /\ SmallSpan(cache'.span[s]) /\ Fetched(cache'.span[s], bytes)
  BY <1>4 DEF Made
<1>6. Frame(cache, cache', {}) /\ AllLarge(cache, {})
  BY <1>5 DEF Frame, SameShape, AllLarge
<1>7. CentralOk(cache', central) /\ CachedOk(cache', freelists) /\ HeldOk(cache', held)
  BY <1>1, <1>6, CentralKept, CachedKept, HeldKept
<1>8. FetchingOk(cache', central, fetching)
  <2>1. \A r \in Used(cache) : r \in InHand(fetching) /\ r \notin {}
          => cache'.span[r].freelist_ = cache.span[r].freelist_
    BY <1>5
  <2> QED BY <1>1, <1>6, <2>1, FetchingKept
<1>9. SpansOk(cache')
  BY <1>1, <1>5 DEF SpansOk
<1>10. s \in Nat
  BY <1>5, BrkAbove
<1>11. /\ fetching' \in [Threads -> [bytes : Nat, span : Nat]]
       /\ fetching'[t].bytes = bytes /\ fetching'[t].span = s
       /\ \A u \in Threads : u # t => fetching'[u] = fetching[u]
  BY <1>1, <1>4, <1>10 DEF Tables
<1>12. FetchingOk(cache', central, fetching')
  <2>1. \A u \in Threads : fetching[u].span # s
    BY <1>1, <1>5 DEF FetchingOk
  <2>2. \A i \in Buckets : s \notin Range(central[i])
    BY <1>1, <1>5 DEF CentralOk
  <2> SUFFICES ASSUME NEW u \in Threads
               PROVE  /\ fetching'[u].bytes \in SmallRequests \cup {0}
                      /\ fetching'[u].span # 0 =>
                           /\ fetching'[u].bytes \in SmallRequests /\ fetching'[u].span \in Used(cache')
                           /\ Fetched(cache'.span[fetching'[u].span], fetching'[u].bytes)
                           /\ \A i \in Buckets : fetching'[u].span \notin Range(central[i])
                           /\ \A v \in Threads : v # u => fetching'[v].span # fetching'[u].span
    BY DEF FetchingOk
  <2>3. CASE u = t
    <3>1. \A v \in Threads : v # u => fetching'[v].span # s
      BY <1>11, <2>1, <2>3
    <3> QED BY <1>2, <1>5, <1>11, <2>2, <2>3, <3>1
  <2>4. CASE u # t
    <3>1. fetching'[u] = fetching[u]
      BY <1>11, <2>4
    <3>2. \A v \in Threads : v # u => fetching'[v].span # fetching[u].span \/ fetching[u].span = 0
      BY <1>8, <1>11, <2>1 DEF FetchingOk
    <3> QED BY <1>8, <3>1, <3>2 DEF FetchingOk
  <2> QED BY <2>3, <2>4
<1>13. Tables(central', freelists', fetching', held')
  BY <1>1, <1>3, <1>11 DEF Tables
<1> QED BY <1>1, <1>3, <1>5, <1>7, <1>9, <1>12, <1>13 DEF HeapIs

\* What a thread that holds a span is about to do with it
LEMMA AddGives ==
  ASSUME HeapIs(cache, central, freelists, fetching, held), NEW t \in Threads, AddSpan(t)
  PROVE  /\ fetching[t].bytes \in SmallRequests
         /\ GivesOne(cache, cache', fetching[t].span, fetching[t].bytes, held, held')
<1> DEFINE bytes == fetching[t].bytes
           s == fetching[t].span
           i == Index(bytes)
<1>1. /\ Good(cache, {}, {}) /\ SpansOk(cache) /\ HeldOk(cache, held) /\ LargeApart(held)
      /\ held \in Seq(BlockT)
      /\ CentralOk(cache, central) /\ FetchingOk(cache, central, fetching) /\ CachedOk(cache, freelists)
      /\ central \in [Buckets -> Seq(Nat)] /\ freelists \in [Threads -> [Buckets -> Seq(Nat)]]
      /\ fetching \in [Threads -> [bytes : Nat, span : Nat]]
  BY DEF HeapIs, Tables
<1>2. /\ s # 0 /\ bytes \in SmallRequests /\ s \in Used(cache) /\ Fetched(cache.span[s], bytes)
      /\ (\A j \in Buckets : s \notin Range(central[j]))
      /\ (\A u \in Threads : u # t => fetching[u].span # s)
  BY <1>1 DEF AddSpan, FetchingOk
<1>3. /\ central' = [central EXCEPT ![i] = <<s>> \o @]
      /\ cache' = [cache EXCEPT !.span[s].freelist_ = Tail(@), !.span[s].useCnt_ = @ + 1]
      /\ held' = Append(held, Block(Head(cache.span[s].freelist_), bytes))
      /\ fetching' = [fetching EXCEPT ![t] = Idle] /\ freelists' = freelists
  <2>1. TakeObject(s, bytes) /\ central' = [central EXCEPT ![i] = <<s>> \o @]
    BY DEF AddSpan
  <2>2. fetching' = [fetching EXCEPT ![t] = Idle] /\ freelists' = freelists
    BY DEF AddSpan
  <2> QED BY <2>1, <2>2 DEF TakeObject
<1>4. i \in Buckets /\ RoundUp(bytes) <= kMaxBytes /\ Index(RoundUp(bytes)) = i
  BY <1>2, ClassIs DEF IsClass, Sizes
<1>5. HasBlock(cache, s, bytes)
  <2>1. cache.span[s].blockSize_ = RoundUp(bytes)
    BY <1>2 DEF Fetched
  <2>2. SmallSpan(cache.span[s])
    BY <1>1, <1>2, <1>4, <2>1, LargeSpanIs DEF SpansOk
  <2>3. Cuttable(cache.span[s])
    BY <1>1, <1>2, <2>2, SmallIs, BrkAbove DEF IsSmall
  <2>4. cache.span[s].freelist_ # <<>>
    BY <1>2, <2>3, CutsAre DEF Fetched, AreCut
  <2> QED BY <1>2, <2>1, <2>2, <2>4 DEF HasBlock
<1> HIDE DEF s, bytes, i
<1>6. Gives(cache, cache', s, held')
  <2>1. bytes \in SmallRequests
    BY <1>2
  <2>2. /\ cache' = [cache EXCEPT !.span[s].freelist_ = Tail(@), !.span[s].useCnt_ = @ + 1]
        /\ held' = Append(held, Block(Head(cache.span[s].freelist_), bytes))
    BY <1>3
  <2>3. /\ Good(cache, {}, {}) /\ SpansOk(cache) /\ HeldOk(cache, held) /\ LargeApart(held)
        /\ held \in Seq(BlockT)
    BY <1>1
  <2> QED BY <1>5, <2>1, <2>2, <2>3, GivesIs
<1> QED BY <1>2, <1>3, <1>5, <1>6 DEF GivesOne, s, bytes

\* AddSpan: it is put into its bucket, and an object of it goes to the program.
LEMMA AddSpanKeeps ==
  ASSUME HeapIs(cache, central, freelists, fetching, held), NEW t \in Threads, AddSpan(t)
  PROVE  HeapIs(cache', central', freelists', fetching', held') /\ Covers(cache, cache')
<1> DEFINE bytes == fetching[t].bytes
           s == fetching[t].span
           i == Index(bytes)
<1>1. /\ Good(cache, {}, {})
      /\ CentralOk(cache, central) /\ FetchingOk(cache, central, fetching) /\ CachedOk(cache, freelists)
      /\ central \in [Buckets -> Seq(Nat)] /\ freelists \in [Threads -> [Buckets -> Seq(Nat)]]
      /\ fetching \in [Threads -> [bytes : Nat, span : Nat]]
  BY DEF HeapIs, Tables
<1>2. /\ s # 0 /\ bytes \in SmallRequests /\ s \in Used(cache) /\ Fetched(cache.span[s], bytes)
      /\ (\A j \in Buckets : s \notin Range(central[j]))
      /\ (\A u \in Threads : u # t => fetching[u].span # s)
  BY <1>1 DEF AddSpan, FetchingOk
<1>3. /\ central' = [central EXCEPT ![i] = <<s>> \o @]
      /\ fetching' = [fetching EXCEPT ![t] = Idle] /\ freelists' = freelists
  BY DEF AddSpan
<1>4. i \in Buckets /\ RoundUp(bytes) <= kMaxBytes /\ Index(RoundUp(bytes)) = i
  BY <1>2, ClassIs DEF IsClass, Sizes
<1>5. InClass(cache.span[s], i)
  BY <1>2, <1>4 DEF Fetched, InClass
<1>6. Gives(cache, cache', s, held')
  BY AddGives DEF GivesOne
<1> HIDE DEF s, bytes, i
<1>7. /\ Rewritten(cache, cache', s, Taken(cache.span[s])) /\ SpansOk(cache') /\ Frame(cache, cache', {})
      /\ cache'.brk >= 1 /\ HeldOk(cache', held') /\ LargeApart(held') /\ held' \in Seq(BlockT)
      /\ SameShape(cache.span[s], Taken(cache.span[s]))
  BY <1>6 DEF Gives
<1>8. /\ Good(cache', {}, {}) /\ Covers(cache, cache') /\ Used(cache') = Used(cache)
      /\ cache'.span[s] = Taken(cache.span[s])
      /\ \A r \in Used(cache) : r # s => cache'.span[r] = cache.span[r]
  BY <1>7 DEF Rewritten
<1>9. AllLarge(cache, {})
  BY DEF AllLarge
<1>10. CentralOk(cache', central) /\ CachedOk(cache', freelists)
  BY <1>1, <1>7, <1>9, CentralKept, CachedKept
<1>11. s \in Nat
  BY <1>1, <1>2, BrkAbove
<1>12. /\ central' \in [Buckets -> Seq(Nat)] /\ Range(central'[i]) = Range(central[i]) \cup {s}
       /\ \A j \in Buckets : j # i => central'[j] = central[j]
  <2>1. central[i] \in Seq(Nat)
    BY <1>1, <1>4
  <2>2. <<s>> \o central[i] \in Seq(Nat) /\ Range(<<s>> \o central[i]) = Range(central[i]) \cup {s}
    BY <1>11, <2>1, PushIs DEF IsPush
  <2> QED BY <1>1, <1>3, <1>4, <2>2
<1>13. CentralOk(cache', central')
  <2>1. s \in Used(cache') /\ InClass(cache'.span[s], i)
    BY <1>2, <1>5, <1>7, <1>8 DEF InClass, SameShape
  <2> SUFFICES ASSUME NEW j \in Buckets, NEW r \in Range(central'[j])
               PROVE  r \in Used(cache') /\ InClass(cache'.span[r], j)
    BY DEF CentralOk
  <2>2. CASE r \in Range(central[j])
    BY <1>10, <2>2 DEF CentralOk
  <2>3. CASE r \notin Range(central[j])
    <3>1. j = i /\ r = s
      BY <1>12, <2>3
    <3> QED BY <2>1, <3>1
  <2> QED BY <2>2, <2>3
<1>14. /\ fetching' \in [Threads -> [bytes : Nat, span : Nat]]
       /\ fetching'[t].bytes = 0 /\ fetching'[t].span = 0
       /\ \A u \in Threads : u # t => fetching'[u] = fetching[u]
  BY <1>1, <1>3 DEF Idle
<1>15. FetchingOk(cache', central', fetching')
  <2> SUFFICES ASSUME NEW u \in Threads
               PROVE  /\ fetching'[u].bytes \in SmallRequests \cup {0}
                      /\ fetching'[u].span # 0 =>
                           /\ fetching'[u].bytes \in SmallRequests /\ fetching'[u].span \in Used(cache')
                           /\ Fetched(cache'.span[fetching'[u].span], fetching'[u].bytes)
                           /\ \A j \in Buckets : fetching'[u].span \notin Range(central'[j])
                           /\ \A v \in Threads : v # u => fetching'[v].span # fetching'[u].span
    BY DEF FetchingOk
  <2>1. CASE u = t
    BY <1>14, <2>1
  <2>2. CASE u # t
    <3>1. fetching'[u] = fetching[u] /\ fetching[u].span # s
      BY <1>2, <1>14, <2>2
    <3>2. fetching[u].bytes \in SmallRequests \cup {0}
      BY <1>1 DEF FetchingOk
    <3>3. SUFFICES ASSUME fetching[u].span # 0
                   PROVE  /\ fetching[u].bytes \in SmallRequests /\ fetching[u].span \in Used(cache')
                          /\ Fetched(cache'.span[fetching[u].span], fetching[u].bytes)
                          /\ \A j \in Buckets : fetching[u].span \notin Range(central'[j])
                          /\ \A v \in Threads : v # u => fetching'[v].span # fetching[u].span
      BY <3>1, <3>2
    <3>4. /\ fetching[u].bytes \in SmallRequests /\ fetching[u].span \in Used(cache)
          /\ Fetched(cache.span[fetching[u].span], fetching[u].bytes)
          /\ (\A j \in Buckets : fetching[u].span \notin Range(central[j]))
          /\ (\A v \in Threads : v # u => fetching[v].span # fetching[u].span)
      BY <1>1, <3>3 DEF FetchingOk
    <3>5. cache'.span[fetching[u].span] = cache.span[fetching[u].span]
      BY <1>8, <3>1, <3>4
    <3>6. \A j \in Buckets : fetching[u].span \notin Range(central'[j])
      BY <1>12, <3>1, <3>4
    <3>7. \A v \in Threads : v # u => fetching'[v].span # fetching[u].span
      BY <1>14, <3>3, <3>4
    <3> QED BY <1>8, <3>4, <3>5, <3>6, <3>7
  <2> QED BY <2>1, <2>2
<1>16. Tables(central', freelists', fetching', held')
  BY <1>1, <1>3, <1>7, <1>12, <1>14 DEF Tables
<1> QED BY <1>3, <1>7, <1>8, <1>10, <1>13, <1>15, <1>16 DEF HeapIs

-----------------------------------------------------------------------------
(* The actions keep the invariant: freeing *)

\* The sequence q is s without its i-th element.
Kept(i, j) == IF j < i THEN j ELSE j + 1
IsLess(s, i, q) ==
  /\ \A j \in DOMAIN q : Kept(i, j) \in DOMAIN s /\ Kept(i, j) # i /\ q[j] = s[Kept(i, j)]
  /\ \A j, k \in DOMAIN q : j # k => Kept(i, j) # Kept(i, k)

\* RemoveAt leaves such a sequence.
LEMMA RemovedIs ==
  ASSUME NEW S, NEW s \in Seq(S), NEW i \in DOMAIN s, NEW q, q = RemoveAt(s, i)
  PROVE  q \in Seq(S) /\ IsLess(s, i, q)
<1>1. /\ q \in Seq(S)
      /\ \A j \in DOMAIN q : /\ j \in DOMAIN s /\ j + 1 \in DOMAIN s
                             /\ q[j] = IF j < i THEN s[j] ELSE s[j + 1]
  BY RemoveAtIs
<1>2. i \in Nat /\ \A j \in DOMAIN q : j \in Nat
  BY <1>1, LenProperties
<1>3. \A j \in DOMAIN q : Kept(i, j) \in DOMAIN s /\ Kept(i, j) # i /\ q[j] = s[Kept(i, j)]
  BY <1>1, <1>2 DEF Kept
<1>4. \A j, k \in DOMAIN q : j # k => Kept(i, j) # Kept(i, k)
  BY <1>2 DEF Kept
<1> QED BY <1>1, <1>3, <1>4 DEF IsLess

\* A block less: those that are left are blocks of spans still in use.
LEMMA LessHeld ==
  ASSUME NEW d, NEW blocks \in Seq(BlockT), NEW i \in DOMAIN blocks, LargeApart(blocks),
         \A j \in DOMAIN blocks : j # i => \E s \in Used(d) : BlockOf(d.span[s], blocks[j]),
         NEW q, q = RemoveAt(blocks, i)
  PROVE  HeldOk(d, q) /\ LargeApart(q) /\ q \in Seq(BlockT)
<1>1. q \in Seq(BlockT) /\ IsLess(blocks, i, q)
  BY RemovedIs
<1>2. HeldOk(d, q)
  <2> SUFFICES ASSUME NEW j \in DOMAIN q PROVE \E s \in Used(d) : BlockOf(d.span[s], q[j])
    BY DEF HeldOk
  <2>1. Kept(i, j) \in DOMAIN blocks /\ Kept(i, j) # i /\ q[j] = blocks[Kept(i, j)]
    BY <1>1 DEF IsLess
  <2> QED BY <2>1
<1>3. LargeApart(q)
  <2> SUFFICES ASSUME NEW j \in DOMAIN q, NEW k \in DOMAIN q, j # k,
                      q[j].bytes \in LargeRequests, q[k].bytes \in LargeRequests
               PROVE  q[j].ptr # q[k].ptr
    BY DEF LargeApart
  <2>1. /\ Kept(i, j) \in DOMAIN blocks /\ q[j] = blocks[Kept(i, j)]
        /\ Kept(i, k) \in DOMAIN blocks /\ q[k] = blocks[Kept(i, k)] /\ Kept(i, j) # Kept(i, k)
    BY <1>1 DEF IsLess
  <2> QED BY <2>1 DEF LargeApart
<1> QED BY <1>1, <1>2, <1>3

\* The block the program frees is of the span the page map leads to.
Freed(c, b, s) ==
  /\ s \in Used(c) /\ BlockOf(c.span[s], b) /\ Mapped(c, b.ptr \div kPageSize)
  /\ MapToSpan(c, b.ptr) = s /\ (SmallSpan(c.span[s]) \/ LargeSpan(c.span[s]))

\* A block of the program is of the span the page map leads to.
LEMMA FreedIs ==
  ASSUME NEW c, Good(c, {}, {}), SpansOk(c), NEW blocks \in Seq(BlockT), HeldOk(c, blocks),
         NEW i \in DOMAIN blocks
  PROVE  Freed(c, blocks[i], MapToSpan(c, blocks[i].ptr))
<1>1. blocks[i] \in BlockT
  OBVIOUS
<1>2. blocks[i].bytes \in Requests
  BY <1>1 DEF BlockT
<1>3. PICK s \in Used(c) : BlockOf(c.span[s], blocks[i])
  BY DEF HeldOk
<1>4. Mapped(c, blocks[i].ptr \div kPageSize) /\ MapToSpan(c, blocks[i].ptr) = s
  BY <1>2, <1>3, BlockFinds
<1> QED BY <1>3, <1>4 DEF Freed, SpansOk

\* The block b of the span s goes to the list of its class, n.
GoesBack(c, b, s, n) ==
  /\ s \in Used(c) /\ n \in Buckets /\ InClass(c.span[s], n) /\ b.ptr \in Objects(c.span[s])
  /\ b.ptr \in Nat

\* FreeSmall puts the block on the list of the class it is of.
LEMMA FreeSmallGives ==
  ASSUME HeapIs(cache, central, freelists, fetching, held), NEW t \in Threads, NEW i \in DOMAIN held,
         FreeSmall(t, i)
  PROVE  \E n : /\ \E s : GoesBack(cache, held[i], s, n)
                /\ freelists' = [freelists EXCEPT ![t][n] = <<held[i].ptr>> \o @]
<1> DEFINE b == held[i]
           s == MapToSpan(cache, b.ptr)
           n == Index(cache.span[s].blockSize_)
<1>1. /\ Good(cache, {}, {}) /\ SpansOk(cache) /\ HeldOk(cache, held) /\ held \in Seq(BlockT)
  BY DEF HeapIs, Tables
<1>2. /\ cache.span[s].blockSize_ <= kMaxBytes
      /\ freelists' = [freelists EXCEPT ![t][n] = <<b.ptr>> \o @]
  BY DEF FreeSmall
<1>3. b \in BlockT
  BY <1>1
<1>4. Freed(cache, b, s)
  BY <1>1, FreedIs
<1> HIDE DEF s, b
<1>5. s \in Used(cache) /\ SmallSpan(cache.span[s]) /\ BlockOf(cache.span[s], b)
  BY <1>2, <1>4, LargeSpanIs DEF Freed
<1>6. PICK r \in SmallRequests : cache.span[s].blockSize_ = RoundUp(r)
  BY <1>5 DEF SmallSpan
<1>7. n \in Buckets
  <2>1. Index(RoundUp(r)) = Index(r) /\ Index(r) \in Buckets
    BY <1>6, ClassIs DEF IsClass
  <2> QED BY <1>6, <2>1
<1>8. b.ptr \in Nat /\ b.bytes \in Requests
  BY <1>3 DEF BlockT
<1>9. b.ptr \in Objects(cache.span[s])
  <2>1. b.bytes \in SmallRequests
    <3>1. CASE b.bytes \notin SmallRequests
      <4>1. cache.span[s].blockSize_ = b.bytes
        BY <1>5, <3>1 DEF BlockOf
      <4> QED BY <1>2, <1>8, <4>1 DEF SmallRequests
    <3> QED BY <3>1
  <2> QED BY <1>5, <2>1 DEF BlockOf
<1>10. InClass(cache.span[s], n)
  BY <1>2 DEF InClass
<1> HIDE DEF n
<1> QED BY <1>2, <1>5, <1>7, <1>8, <1>9, <1>10 DEF GoesBack, b

\* FreeSmall: the block goes to the list of its class.
LEMMA FreeSmallKeeps ==
  ASSUME HeapIs(cache, central, freelists, fetching, held), NEW t \in Threads, NEW i \in DOMAIN held,
         FreeSmall(t, i)
  PROVE  HeapIs(cache', central', freelists', fetching', held') /\ Covers(cache, cache')
<1> DEFINE b == held[i]
<1>1. /\ Good(cache, {}, {}) /\ SpansOk(cache) /\ HeldOk(cache, held) /\ LargeApart(held)
      /\ held \in Seq(BlockT) /\ CachedOk(cache, freelists)
      /\ freelists \in [Threads -> [Buckets -> Seq(Nat)]]
  BY DEF HeapIs, Tables
<1>2. PICK n : /\ \E s : GoesBack(cache, held[i], s, n)
               /\ freelists' = [freelists EXCEPT ![t][n] = <<b.ptr>> \o @]
  BY FreeSmallGives
<1>3. PICK s : GoesBack(cache, b, s, n)
  BY <1>2
<1>4. /\ freelists' = [freelists EXCEPT ![t][n] = <<b.ptr>> \o @]
      /\ held' = RemoveAt(held, i)
      /\ cache' = cache /\ central' = central /\ fetching' = fetching
  BY <1>2 DEF FreeSmall
<1> HIDE DEF b
<1>5. n \in Buckets /\ b.ptr \in Nat
  BY <1>3 DEF GoesBack
<1>6. /\ freelists' \in [Threads -> [Buckets -> Seq(Nat)]]
       /\ \A u \in Threads, j \in Buckets :
            \A ptr \in Range(freelists'[u][j]) :
              ptr \in Range(freelists[u][j]) \/ (j = n /\ ptr = b.ptr)
  <2>1. freelists[t][n] \in Seq(Nat)
    BY <1>1, <1>5
  <2>2. <<b.ptr>> \o freelists[t][n] \in Seq(Nat)
        /\ Range(<<b.ptr>> \o freelists[t][n]) = Range(freelists[t][n]) \cup {b.ptr}
    BY <1>5, <2>1, PushIs DEF IsPush
  <2> QED BY <1>1, <1>4, <1>5, <2>2
<1>7. CachedOk(cache, freelists')
  <2> SUFFICES ASSUME NEW u \in Threads, NEW j \in Buckets, NEW ptr \in Range(freelists'[u][j])
               PROVE  \E r0 \in Used(cache) :
                        InClass(cache.span[r0], j) /\ ptr \in Objects(cache.span[r0])
    BY DEF CachedOk
  <2>1. CASE ptr \in Range(freelists[u][j])
    BY <1>1, <2>1 DEF CachedOk
  <2>2. CASE j = n /\ ptr = b.ptr
    BY <1>3, <2>2 DEF GoesBack
  <2> QED BY <1>6, <2>1, <2>2
<1>8. HeldOk(cache, held') /\ LargeApart(held') /\ held' \in Seq(BlockT)
  <2>1. \A j \in DOMAIN held : j # i => \E r0 \in Used(cache) : BlockOf(cache.span[r0], held[j])
    BY <1>1 DEF HeldOk
  <2>2. held' = RemoveAt(held, i)
    BY <1>4
  <2> QED BY <1>1, <2>1, <2>2, LessHeld
<1>9. Tables(central', freelists', fetching', held')
  BY <1>4, <1>6, <1>8 DEF HeapIs, Tables
<1>10. Covers(cache, cache')
  BY <1>4 DEF Covers
<1> QED BY <1>4, <1>7, <1>8, <1>9, <1>10 DEF HeapIs

\* The block b, and with it the span s, is returned.
Returns(c, d, b, s) ==
  /\ s \in Used(c) /\ LargeSpan(c.span[s]) /\ ~(c.span[s].blockSize_ <= kMaxBytes)
  /\ Reverted(c, d, s) /\ d.brk >= 1
  /\ b.bytes \in LargeRequests /\ b.ptr = Address(c.span[s].pageId_)
  /\ \A x \in BlockT : BlockOf(c.span[s], x) =>
       x.bytes \in LargeRequests /\ x.ptr = Address(c.span[s].pageId_)

\* FreeLarge gives all of the span of the block back.
LEMMA FreeLargeGives ==
  ASSUME HeapIs(cache, central, freelists, fetching, held), NEW t \in Threads, NEW i \in DOMAIN held,
         FreeLarge(t, i), ~FreesHuge
  PROVE  \E s : Returns(cache, cache', held[i], s)
<1> DEFINE b == held[i]
           s == MapToSpan(cache, b.ptr)
<1>1. /\ Good(cache, {}, {}) /\ SpansOk(cache) /\ HeldOk(cache, held) /\ LargeApart(held)
      /\ held \in Seq(BlockT) /\ CachedOk(cache, freelists)
      /\ CentralOk(cache, central) /\ FetchingOk(cache, central, fetching)
  BY DEF HeapIs, Tables
<1>2. /\ cache.span[s].blockSize_ > kMaxBytes /\ ~(cache.span[s].cnt_ > kMaxPages)
      /\ cache' = RevertSpan(cache, s) /\ held' = RemoveAt(held, i)
      /\ central' = central /\ freelists' = freelists /\ fetching' = fetching
  BY DEF FreeLarge
<1>3. b \in BlockT
  BY <1>1
<1>4. Freed(cache, b, s)
  BY <1>1, FreedIs
<1> HIDE DEF s, b
<1>5. /\ s \in Used(cache) /\ BlockOf(cache.span[s], b)
      /\ SmallSpan(cache.span[s]) \/ LargeSpan(cache.span[s])
  BY <1>4 DEF Freed
<1>6. cache.span[s] \in SpanT /\ cache.span[s].cnt_ \in Nat /\ cache.span[s].blockSize_ \in Nat
  BY <1>1, <1>5, BrkAbove DEF SpanT
<1>7. ~(cache.span[s].blockSize_ <= kMaxBytes) /\ cache.span[s].cnt_ <= kMaxPages
  BY <1>2, <1>6, Bucket DEF kMaxBytes
<1>8. LargeSpan(cache.span[s]) /\ cache.span[s].useCnt_ = 0
  BY <1>5, <1>6, <1>7, SmallIs, LargeSpanIs DEF IsSmall
<1>9. ASSUME NEW x \in BlockT, BlockOf(cache.span[s], x)
       PROVE  x.bytes \in LargeRequests /\ x.ptr = Address(cache.span[s].pageId_)
  <2>1. x.bytes \notin SmallRequests
    BY <1>7, <1>9, ClassIs DEF BlockOf, IsClass, Sizes
  <2> QED BY <1>9, <2>1 DEF BlockOf, BlockT, SmallRequests, LargeRequests
<1>10. b.bytes \in LargeRequests /\ b.ptr = Address(cache.span[s].pageId_)
  BY <1>3, <1>5, <1>9
<1>11. Reverted(cache, cache', s) /\ cache'.brk >= 1
  <2>1. cache' = RevertSpan(cache, s)
    BY <1>2
  <2> QED BY <1>1, <1>5, <1>7, <1>8, <2>1, RevertSpanIs
<1> QED BY <1>5, <1>7, <1>8, <1>9, <1>10, <1>11 DEF Returns, b

\* FreeLarge: the span goes back to the PageCache.
LEMMA FreeLargeKeeps ==
  ASSUME HeapIs(cache, central, freelists, fetching, held), NEW t \in Threads, NEW i \in DOMAIN held,
         FreeLarge(t, i), ~FreesHuge
  PROVE  HeapIs(cache', central', freelists', fetching', held') /\ Covers(cache, cache')
<1> DEFINE b == held[i]
<1>1. /\ Good(cache, {}, {}) /\ SpansOk(cache) /\ HeldOk(cache, held) /\ LargeApart(held)
      /\ held \in Seq(BlockT) /\ CachedOk(cache, freelists)
      /\ CentralOk(cache, central) /\ FetchingOk(cache, central, fetching)
  BY DEF HeapIs, Tables
<1>2. /\ held' = RemoveAt(held, i)
      /\ central' = central /\ freelists' = freelists /\ fetching' = fetching
  BY DEF FreeLarge
<1>3. PICK s : Returns(cache, cache', b, s)
  BY FreeLargeGives
<1>4. b = held[i]
  OBVIOUS
<1> HIDE DEF b
<1>5. s \in Used(cache) /\ ~(cache.span[s].blockSize_ <= kMaxBytes)
  BY <1>3 DEF Returns
<1>6. ASSUME NEW x \in BlockT, BlockOf(cache.span[s], x)
       PROVE  x.bytes \in LargeRequests /\ x.ptr = Address(cache.span[s].pageId_)
  BY <1>3, <1>6 DEF Returns
<1>7. b.bytes \in LargeRequests /\ b.ptr = Address(cache.span[s].pageId_)
  BY <1>3 DEF Returns
<1>8. Reverted(cache, cache', s) /\ cache'.brk >= 1
  BY <1>3 DEF Returns
<1> DEFINE L == {s}
<1>9. /\ Good(cache', {}, {}) /\ Covers(cache, cache') /\ Used(cache') = Used(cache) \ L
       /\ \A r \in Used(cache') : cache'.span[r] = cache.span[r]
  BY <1>8 DEF Reverted
<1>10. Frame(cache, cache', L) /\ AllLarge(cache, L)
  BY <1>5, <1>9 DEF Frame, SameShape, AllLarge
<1>11. SpansOk(cache')
  BY <1>1, <1>9 DEF SpansOk
<1>12. \A j \in DOMAIN held : j # i => \E r \in Used(cache') : BlockOf(cache'.span[r], held[j])
  <2> SUFFICES ASSUME NEW j \in DOMAIN held, j # i
               PROVE  \E r \in Used(cache') : BlockOf(cache'.span[r], held[j])
    OBVIOUS
  <2>1. PICK r \in Used(cache) : BlockOf(cache.span[r], held[j])
    BY <1>1 DEF HeldOk
  <2>2. held[j] \in BlockT
    BY <1>1
  <2>3. CASE r = s
    <3>1. held[j].bytes \in LargeRequests /\ held[j].ptr = Address(cache.span[s].pageId_)
      BY <1>6, <2>1, <2>2, <2>3
    <3> QED BY <1>1, <1>4, <1>7, <3>1 DEF LargeApart
  <2>4. CASE r # s
    <3>1. r \in Used(cache') /\ cache'.span[r] = cache.span[r]
      BY <1>9, <2>1, <2>4
    <3> QED BY <2>1, <3>1
  <2> QED BY <2>3, <2>4
<1> HIDE DEF L
<1>13. HeldOk(cache', held') /\ LargeApart(held') /\ held' \in Seq(BlockT)
  <2>1. held' = RemoveAt(held, i)
    BY <1>2
  <2> QED BY <1>1, <1>12, <2>1, LessHeld
<1>14. CentralOk(cache', central) /\ CachedOk(cache', freelists)
  BY <1>1, <1>10, CentralKept, CachedKept
<1>15. FetchingOk(cache', central, fetching)
  <2>1. \A r \in Used(cache) : r \in InHand(fetching) /\ r \notin L
          => cache'.span[r].freelist_ = cache.span[r].freelist_
    BY <1>9
  <2> QED BY <1>1, <1>10, <2>1, FetchingKept
<1>16. Tables(central', freelists', fetching', held')
  BY <1>2, <1>13 DEF HeapIs, Tables
<1> QED BY <1>2, <1>8, <1>9, <1>11, <1>13, <1>14, <1>15, <1>16 DEF HeapIs

-----------------------------------------------------------------------------
(* The invariant holds, and what follows from it *)

\* The invariant of the heap
HeapOk == HeapIs(cache, central, freelists, fetching, held)

\* The empty cache of a program that has not allocated yet
LEMMA NewCacheIs == Good(NewCache, {}, {}) /\ NewCache.brk >= 1 /\ Live(NewCache) = {}
<1> DEFINE c == NewCache
<1>1. /\ c.brk = 1 /\ c.span = <<>> /\ c.pool = <<>> /\ c.hash_ = <<>>
      /\ c.res = 0 /\ c.spanlists_ = [n \in 1 .. kMaxPages |-> <<>>]
  BY DEF NewCache
<1>2. \A S : <<>> \in Seq(S)
  OBVIOUS
<1>3. DOMAIN <<>> = {} /\ Range(<<>>) = {} /\ Distinct(<<>>)
  BY DEF Range, Distinct
<1>4. c.spanlists_ \in [1 .. kMaxPages -> Seq(Nat)] /\ \A n \in 1 .. kMaxPages : c.spanlists_[n] = <<>>
  BY <1>1
<1>5. <<>> \in PageMaps
  <2>1. <<>> \in [{} -> Nat]
    BY <1>3
  <2>2. {} \in SUBSET Nat
    OBVIOUS
  <2> QED BY <2>1, <2>2 DEF PageMaps
<1>6. c \in CacheT
  BY <1>1, <1>2, <1>4, <1>5 DEF CacheT, NewCache
<1>7. Ids(c) = {} /\ Live(c) = {}
  BY <1>1, <1>3 DEF Ids, Live
<1> HIDE DEF c
<1>8. PoolOk(c) /\ Laid(c)
  BY <1>1, <1>3, <1>7 DEF PoolOk, Laid
<1>9. Listing(c, {})
  BY <1>3, <1>4, <1>7 DEF Listing
<1>10. Mapping(c, {})
  BY <1>1, <1>3, <1>7 DEF Mapping
<1> QED BY <1>1, <1>6, <1>7, <1>8, <1>9, <1>10 DEF Good, c

\* The invariant holds of a heap that has not been used.
LEMMA InitOk == Init => HeapOk
<1> SUFFICES ASSUME Init PROVE HeapOk
  OBVIOUS
<1>1. /\ cache = NewCache /\ central = [i \in Buckets |-> <<>>]
      /\ freelists = [t \in Threads |-> [i \in Buckets |-> <<>>]]
      /\ fetching = [t \in Threads |-> Idle] /\ held = <<>>
  BY DEF Init
<1>2. Good(cache, {}, {}) /\ cache.brk >= 1 /\ Used(cache) = {}
  BY <1>1, NewCacheIs DEF Used
<1>3. DOMAIN <<>> = {} /\ Range(<<>>) = {} /\ \A S : <<>> \in Seq(S)
  BY DEF Range
<1>4. \A i \in Buckets : central[i] = <<>>
  BY <1>1
<1>5. \A t \in Threads : \A i \in Buckets : freelists[t][i] = <<>>
  BY <1>1
<1>6. \A t \in Threads : fetching[t].bytes = 0 /\ fetching[t].span = 0
  BY <1>1 DEF Idle
<1>7. SpansOk(cache)
  BY <1>2 DEF SpansOk
<1>8. CentralOk(cache, central) /\ CachedOk(cache, freelists)
  BY <1>3, <1>4, <1>5 DEF CentralOk, CachedOk
<1>9. FetchingOk(cache, central, fetching)
  BY <1>6 DEF FetchingOk
<1>10. HeldOk(cache, held) /\ LargeApart(held)
  BY <1>1, <1>3 DEF HeldOk, LargeApart
<1>11. Tables(central, freelists, fetching, held)
  <2>1. fetching \in [Threads -> [bytes : Nat, span : Nat]]
    BY <1>1 DEF Idle
  <2>2. central \in [Buckets -> Seq(Nat)] /\ freelists \in [Threads -> [Buckets -> Seq(Nat)]]
    BY <1>1, <1>3
  <2> QED BY <1>1, <1>3, <2>1, <2>2 DEF Tables
<1> QED BY <1>2, <1>7, <1>8, <1>9, <1>10, <1>11 DEF HeapOk, HeapIs

\* No span that is given back with brk(2): every step keeps the invariant, and
\* every page that belonged to a span belongs to one.
LEMMA NextOk ==
  ASSUME ~FreesHuge, HeapOk, [Next]_vars
  PROVE  HeapOk' /\ Covers(cache, cache')
<1>1. CASE UNCHANGED vars
  BY <1>1 DEF vars, HeapOk, HeapIs, Covers, Tables
<1>2. CASE Next
  <2>1. PICK t \in Threads :
          \/ \E bytes \in Requests : \/ AllocLarge(t, bytes) \/ AllocCached(t, bytes)
                                     \/ Fetch(t, bytes) \/ FindNoSpan(t, bytes)
          \/ GetSpan(t) \/ AddSpan(t)
          \/ \E i \in DOMAIN held : FreeSmall(t, i) \/ FreeLarge(t, i)
    BY <1>2 DEF Next
  <2>2. HeapIs(cache, central, freelists, fetching, held)
    BY DEF HeapOk
  <2>3. HeapIs(cache', central', freelists', fetching', held') /\ Covers(cache, cache')
    <3>1. CASE \E bytes \in Requests : AllocLarge(t, bytes)
      BY <2>2, <3>1, AllocLargeKeeps
    <3>2. CASE \E bytes \in Requests : AllocCached(t, bytes)
      BY <2>2, <3>2, AllocCachedKeeps
    <3>3. CASE \E bytes \in Requests : Fetch(t, bytes)
      BY <2>2, <3>3, FetchKeeps
    <3>4. CASE \E bytes \in Requests : FindNoSpan(t, bytes)
      BY <2>2, <3>4, FindNoSpanKeeps
    <3>5. CASE GetSpan(t)
      BY <2>2, <3>5, GetSpanKeeps
    <3>6. CASE AddSpan(t)
      BY <2>2, <3>6, AddSpanKeeps
    <3>7. CASE \E i \in DOMAIN held : FreeSmall(t, i)
      BY <2>2, <3>7, FreeSmallKeeps
    <3>8. CASE \E i \in DOMAIN held : FreeLarge(t, i)
      BY <2>2, <3>8, FreeLargeKeeps
    <3> QED BY <2>1, <3>1, <3>2, <3>3, <3>4, <3>5, <3>6, <3>7, <3>8
  <2> QED BY <2>3 DEF HeapOk
<1> QED BY <1>1, <1>2

\* Unless spans are given back with brk(2), the cache is good after every
\* operation of every thread, and the blocks, the FreeLists and CentralCache
\* have nothing but objects of spans in use (PageCache, CentralCache,
\* ThreadCache).
THEOREM HeapHolds == ASSUME ~FreesHuge PROVE Spec => []HeapOk
<1>1. HeapOk /\ [Next]_vars => HeapOk'
  BY NextOk
<1> QED BY InitOk, <1>1, PTL DEF Spec

\* concurrentFree returns every block to the class it was taken from.
LEMMA FindsClassHolds == ASSUME HeapOk PROVE FreeFindsClass
<1> SUFFICES ASSUME NEW b \in Range(held)
             PROVE  /\ Mapped(cache, b.ptr \div kPageSize)
                    /\ cache.span[MapToSpan(cache, b.ptr)].used_
                    /\ IF b.bytes <= kMaxBytes
                       THEN /\ b.ptr \in Objects(cache.span[MapToSpan(cache, b.ptr)])
                            /\ cache.span[MapToSpan(cache, b.ptr)].blockSize_ = RoundUp(b.bytes)
                       ELSE /\ b.ptr = Address(cache.span[MapToSpan(cache, b.ptr)].pageId_)
                            /\ cache.span[MapToSpan(cache, b.ptr)].blockSize_ = b.bytes
  BY DEF FreeFindsClass
<1>1. /\ Good(cache, {}, {}) /\ SpansOk(cache) /\ HeldOk(cache, held) /\ held \in Seq(BlockT)
  BY DEF HeapOk, HeapIs, Tables
<1>2. PICK i \in DOMAIN held : b = held[i]
  BY DEF Range
<1> DEFINE s == MapToSpan(cache, b.ptr)
<1>3. Freed(cache, b, s)
  BY <1>1, <1>2, FreedIs
<1> HIDE DEF s
<1>4. b.bytes \in Requests
  <2>1. held[i] \in BlockT
    BY <1>1
  <2> QED BY <1>2, <2>1 DEF BlockT
<1>5. s \in Used(cache) /\ BlockOf(cache.span[s], b) /\ Mapped(cache, b.ptr \div kPageSize)
  BY <1>3 DEF Freed
<1>6. cache.span[s].used_
  BY <1>5 DEF Used
<1>7. IF b.bytes <= kMaxBytes
      THEN b.ptr \in Objects(cache.span[s]) /\ cache.span[s].blockSize_ = RoundUp(b.bytes)
      ELSE b.ptr = Address(cache.span[s].pageId_) /\ cache.span[s].blockSize_ = b.bytes
  BY <1>4, <1>5 DEF BlockOf, SmallRequests
<1> QED BY <1>5, <1>6, <1>7 DEF s

\* Unless spans are given back with brk(2), the page map leads from every block
\* the program has to its span, which is in use and cut into blocks of the size
\* that was asked for, rounded up (concurrentFree).
THEOREM FreedBlocksFindTheirClass == ASSUME ~FreesHuge PROVE Spec => []FreeFindsClass
<1>1. HeapOk => FreeFindsClass
  BY FindsClassHolds
<1> QED BY HeapHolds, <1>1, PTL

\* The invariant says where every span is that is not in use.
LEMMA SpansListedHolds == ASSUME HeapOk PROVE FreeSpansListed
<1>1. cache \in CacheT /\ Laid(cache) /\ Listing(cache, {}) /\ Mapping(cache, {})
  BY DEF HeapOk, HeapIs, Good
<1>2. LiveSpans = Live(cache)
  BY <1>1, IdsAre DEF LiveSpans, SpanIds, Live
<1>3. \A s \in Live(cache) : /\ cache.span[s].pageId_ \in Nat /\ cache.span[s].cnt_ \in Nat
                             /\ cache.span[s].cnt_ >= 1
  BY <1>1, LiveAre DEF Laid
<1>4. ASSUME NEW n \in 1 .. kMaxPages, NEW s \in Range(cache.spanlists_[n])
      PROVE  /\ s \in LiveSpans /\ ~cache.span[s].used_ /\ cache.span[s].cnt_ = n
             /\ cache.hash_[cache.span[s].pageId_] = s
             /\ cache.hash_[cache.span[s].pageId_ + n - 1] = s
  <2>1. s \in Live(cache) /\ ~cache.span[s].used_ /\ cache.span[s].cnt_ = n
    BY <1>1, <1>4 DEF Listing
  <2>2. Ends(cache.hash_, cache.span[s], s)
    BY <1>1, <2>1 DEF Mapping
  <2> QED BY <1>2, <2>1, <2>2 DEF Ends, Leads
<1>5. \A s \in LiveSpans : ~cache.span[s].used_ => s \in Range(cache.spanlists_[cache.span[s].cnt_])
  BY <1>1, <1>2 DEF Listing
<1>6. ASSUME NEW s \in LiveSpans, NEW r \in LiveSpans, s # r
      PROVE  PagesOf(cache.span[s]) \cap PagesOf(cache.span[r]) = {}
  <2>1. Apart(cache.span[s], cache.span[r])
    BY <1>1, <1>2, <1>6 DEF Laid
  <2> QED BY <1>2, <1>3, <2>1 DEF Apart, PagesOf
<1> QED BY <1>4, <1>5, <1>6 DEF FreeSpansListed

\* Unless spans are given back with brk(2), a span not in use is in the list of
\* its size, once, its two ends are mapped, and no two spans share a page
\* (PageCache::newSpan, revertSpan).
THEOREM FreeSpansAreListed == ASSUME ~FreesHuge PROVE Spec => []FreeSpansListed
<1>1. HeapOk => FreeSpansListed
  BY SpansListedHolds
<1> QED BY HeapHolds, <1>1, PTL

\* The pages of the spans are those that lie within one.
LEMMA PagesAre ==
  ASSUME NEW c \in CacheT, NEW p
  PROVE  p \in UNION {PagesOf(c.span[s]) : s \in Live(c)} <=>
           p \in Nat /\ \E s \in Live(c) : Within(p, c.span[s])
<1>1. \A s \in Live(c) : c.span[s].pageId_ \in Nat /\ c.span[s].cnt_ \in Nat
  BY LiveAre
<1>2. \A s \in Live(c) : p \in PagesOf(c.span[s]) <=> p \in Nat /\ Within(p, c.span[s])
  BY <1>1 DEF PagesOf, Within
<1> QED BY <1>2

\* Unless spans are given back with brk(2), no step loses a page that a span
\* had: splitting and joining spans moves their pages and drops none.
THEOREM PagesAreKept == ASSUME ~FreesHuge PROVE Spec => NoPageLost
<1> DEFINE NoneLost == UNION {PagesOf(cache.span[s]) : s \in LiveSpans}
                      \subseteq UNION {PagesOf(cache'.span[s]) : s \in LiveSpans'}
<1>1. HeapOk /\ HeapOk' /\ [Next]_vars => [NoneLost]_vars
  <2> SUFFICES ASSUME HeapOk, HeapOk', [Next]_vars PROVE NoneLost
    OBVIOUS
  <2>1. Covers(cache, cache')
    BY NextOk
  <2>2. cache \in CacheT /\ cache' \in CacheT
    BY DEF HeapOk, HeapIs, Good
  <2>3. LiveSpans = Live(cache) /\ LiveSpans' = Live(cache')
    BY <2>2, IdsAre DEF LiveSpans, SpanIds, Live
  <2>4. \A p : p \in UNION {PagesOf(cache.span[s]) : s \in Live(cache)}
                 => p \in UNION {PagesOf(cache'.span[s]) : s \in Live(cache')}
    BY <2>1, <2>2, PagesAre DEF Covers
  <2> QED BY <2>3, <2>4
<1> QED BY HeapHolds, <1>1, PTL DEF Spec, NoPageLost

-----------------------------------------------------------------------------
(* Every object is in one place: blocks and lists *)

\* The addresses of the blocks the program has, and of those the threads keep
Ptrs(blocks)  == {blocks[i].ptr : i \in DOMAIN blocks}
InLists(lists) == UNION {UNION {Range(lists[t][i]) : i \in Buckets} : t \in Threads}

\* No block is handed out twice, and none is twice in the lists.
HeldOnce(blocks) ==
  \A i, j \in DOMAIN blocks : i # j => blocks[i].ptr # blocks[j].ptr

ListedOnce(lists) ==
  /\ \A t \in Threads : \A i \in Buckets : Distinct(lists[t][i])
  /\ \A t, u \in Threads : \A i, j \in Buckets :
       t # u \/ i # j => Range(lists[t][i]) \cap Range(lists[u][j]) = {}

ListsT == [Threads -> [Buckets -> Seq(Nat)]]

\* One more block, at an address of its own
LEMMA AppendOnce ==
  ASSUME NEW blocks \in Seq(BlockT), NEW x \in Nat, NEW n \in Requests, HeldOnce(blocks),
         x \notin Ptrs(blocks), NEW q, q = Append(blocks, Block(x, n))
  PROVE  HeldOnce(q) /\ Ptrs(q) = Ptrs(blocks) \cup {x}
<1>1. IsAppended(blocks, Block(x, n), q)
  BY AppendHeld
<1>2. Block(x, n).ptr = x
  BY DEF Block
<1>3. /\ \A i \in DOMAIN q : \/ i \in DOMAIN blocks /\ q[i].ptr = blocks[i].ptr
                             \/ i = Len(blocks) + 1 /\ q[i].ptr = x
      /\ \A i \in DOMAIN blocks : i \in DOMAIN q /\ q[i].ptr = blocks[i].ptr
      /\ \E i \in DOMAIN q : q[i].ptr = x
  <2>1. \A i \in DOMAIN q : \/ i \in DOMAIN blocks /\ q[i] = blocks[i]
                            \/ i \notin DOMAIN blocks /\ i = Len(blocks) + 1 /\ q[i] = Block(x, n)
    BY <1>1 DEF IsAppended
  <2>2. (\A i \in DOMAIN blocks : i \in DOMAIN q) /\ Len(blocks) + 1 \in DOMAIN q
        /\ q[Len(blocks) + 1] = Block(x, n)
    BY <1>1 DEF IsAppended
  <2>3. Len(blocks) + 1 \notin DOMAIN blocks
    BY LenProperties
  <2> QED BY <1>2, <2>1, <2>2, <2>3
<1>4. \A i \in DOMAIN blocks : blocks[i].ptr # x
  BY DEF Ptrs
<1>5. HeldOnce(q)
  BY <1>3, <1>4 DEF HeldOnce
<1>6. Ptrs(q) = Ptrs(blocks) \cup {x}
  BY <1>3 DEF Ptrs
<1> QED BY <1>5, <1>6

\* The program gives one block back.
LEMMA RemoveOnce ==
  ASSUME NEW blocks \in Seq(BlockT), HeldOnce(blocks), NEW i \in DOMAIN blocks,
         NEW q, q = RemoveAt(blocks, i)
  PROVE  HeldOnce(q) /\ Ptrs(q) = Ptrs(blocks) \ {blocks[i].ptr}
<1>1. IsLess(blocks, i, q)
  BY RemovedIs
<1>2. Distinct(blocks)
  BY DEF Distinct, HeldOnce
<1>3. Range(q) = Range(blocks) \ {blocks[i]}
  BY <1>2, RemoveIs DEF IsDrop
<1>4. HeldOnce(q)
  <2> SUFFICES ASSUME NEW j \in DOMAIN q, NEW k \in DOMAIN q, j # k PROVE q[j].ptr # q[k].ptr
    BY DEF HeldOnce
  <2>1. /\ Kept(i, j) \in DOMAIN blocks /\ q[j] = blocks[Kept(i, j)]
        /\ Kept(i, k) \in DOMAIN blocks /\ q[k] = blocks[Kept(i, k)] /\ Kept(i, j) # Kept(i, k)
    BY <1>1 DEF IsLess
  <2> QED BY <2>1 DEF HeldOnce
<1>5. \A p : p \in Ptrs(q) <=> \E b \in Range(q) : b.ptr = p
  BY DEF Ptrs, Range
<1>6. \A p : p \in Ptrs(blocks) <=> \E b \in Range(blocks) : b.ptr = p
  BY DEF Ptrs, Range
<1>7. \A b \in Range(blocks) : b # blocks[i] => b.ptr # blocks[i].ptr
  BY DEF HeldOnce, Range
<1>8. blocks[i] \in Range(blocks)
  BY DEF Range
<1> QED BY <1>3, <1>4, <1>5, <1>6, <1>7, <1>8

\* Membership of the lists of the threads
LEMMA InListsIs ==
  ASSUME NEW lists, NEW p
  PROVE  p \in InLists(lists) <=> \E t \in Threads : \E i \in Buckets : p \in Range(lists[t][i])
BY DEF InLists

\* A thread takes the first block of one of its lists.
LEMMA PopOnce ==
  ASSUME NEW lists \in ListsT, ListedOnce(lists), NEW t \in Threads, NEW i \in Buckets,
         lists[t][i] # <<>>, NEW q, q = [lists EXCEPT ![t][i] = Tail(@)]
  PROVE  /\ ListedOnce(q) /\ InLists(q) = InLists(lists) \ {Head(lists[t][i])}
         /\ Head(lists[t][i]) \in InLists(lists)
<1> DEFINE l == lists[t][i]
           x == Head(l)
<1>1. l \in Seq(Nat) /\ Distinct(l)
  BY DEF ListsT, ListedOnce
<1>2. x \in Range(l) /\ Range(Tail(l)) = Range(l) \ {x} /\ Distinct(Tail(l))
  BY <1>1, PopIs DEF IsDrop
<1>3. /\ q[t][i] = Tail(l)
      /\ \A u \in Threads : \A j \in Buckets : u # t \/ j # i => q[u][j] = lists[u][j]
  BY DEF ListsT
<1>4. \A u \in Threads : \A j \in Buckets : u # t \/ j # i => x \notin Range(lists[u][j])
  BY <1>2 DEF ListedOnce
<1> HIDE DEF x
<1>5. \A u \in Threads : \A j \in Buckets : Range(q[u][j]) = Range(lists[u][j]) \ {x}
  <2> SUFFICES ASSUME NEW u \in Threads, NEW j \in Buckets
               PROVE Range(q[u][j]) = Range(lists[u][j]) \ {x}
    OBVIOUS
  <2>1. CASE u = t /\ j = i
    BY <1>2, <1>3, <2>1
  <2>2. CASE u # t \/ j # i
    BY <1>3, <1>4, <2>2
  <2> QED BY <2>1, <2>2
<1>6. \A u \in Threads : \A j \in Buckets : Distinct(q[u][j])
  BY <1>2, <1>3 DEF ListedOnce
<1>7. ListedOnce(q)
  <2>1. \A u, v \in Threads : \A j, k \in Buckets :
          u # v \/ j # k => Range(q[u][j]) \cap Range(q[v][k]) = {}
    <3> SUFFICES ASSUME NEW u \in Threads, NEW v \in Threads, NEW j \in Buckets, NEW k \in Buckets,
                        u # v \/ j # k
                 PROVE  Range(q[u][j]) \cap Range(q[v][k]) = {}
      OBVIOUS
    <3>1. Range(lists[u][j]) \cap Range(lists[v][k]) = {}
      BY DEF ListedOnce
    <3>2. Range(q[u][j]) = Range(lists[u][j]) \ {x} /\ Range(q[v][k]) = Range(lists[v][k]) \ {x}
      BY <1>5
    <3> QED BY <3>1, <3>2
  <2> QED BY <1>6, <2>1 DEF ListedOnce
<1>8. \A p : p \in InLists(q) <=> p \in InLists(lists) /\ p # x
  <2> SUFFICES ASSUME NEW p PROVE p \in InLists(q) <=> p \in InLists(lists) /\ p # x
    OBVIOUS
  <2>1. p \in InLists(q) <=> \E u \in Threads : \E j \in Buckets : p \in Range(q[u][j])
    BY InListsIs
  <2>2. p \in InLists(lists) <=> \E u \in Threads : \E j \in Buckets : p \in Range(lists[u][j])
    BY InListsIs
  <2>3. \A u \in Threads : \A j \in Buckets : p \in Range(q[u][j]) <=> p \in Range(lists[u][j]) /\ p # x
    BY <1>5
  <2> QED BY <2>1, <2>2, <2>3
<1>9. x \in InLists(lists)
  BY <1>2, InListsIs
<1> QED BY <1>7, <1>8, <1>9 DEF x

\* An address in front of one of the lists
PushList(lists, t, i, x) == [lists EXCEPT ![t][i] = <<x>> \o @]

\* A block is put in front of one of the lists.
LEMMA PushOnce ==
  ASSUME NEW lists \in ListsT, ListedOnce(lists), NEW t \in Threads, NEW i \in Buckets,
         NEW x \in Nat, x \notin InLists(lists), NEW q, q = PushList(lists, t, i, x)
  PROVE  ListedOnce(q) /\ InLists(q) = InLists(lists) \cup {x}
<1> DEFINE l == lists[t][i]
<1>1. l \in Seq(Nat) /\ Distinct(l) /\ x \notin Range(l)
  BY InListsIs DEF ListsT, ListedOnce
<1>2. Range(<<x>> \o l) = Range(l) \cup {x} /\ Distinct(<<x>> \o l)
  BY <1>1, PushIs DEF IsPush
<1>3. /\ q[t][i] = <<x>> \o l
      /\ \A u \in Threads : \A j \in Buckets : u # t \/ j # i => q[u][j] = lists[u][j]
  BY DEF ListsT, PushList
<1>4. \A u \in Threads : \A j \in Buckets : x \notin Range(lists[u][j])
  BY InListsIs
<1>5. Range(q[t][i]) = Range(lists[t][i]) \cup {x} /\ Distinct(q[t][i])
  BY <1>2, <1>3
<1>6. ListedOnce(q)
  <2>1. \A u \in Threads : \A j \in Buckets : Distinct(q[u][j])
    BY <1>3, <1>5 DEF ListedOnce
  <2>2. ASSUME NEW u \in Threads, NEW v \in Threads, NEW j \in Buckets, NEW k \in Buckets, u # v \/ j # k
        PROVE  Range(q[u][j]) \cap Range(q[v][k]) = {}
    <3>1. Range(lists[u][j]) \cap Range(lists[v][k]) = {}
      BY <2>2 DEF ListedOnce
    <3>2. x \notin Range(lists[u][j]) /\ x \notin Range(lists[v][k])
      BY <1>4
    <3>3. Range(q[u][j]) = Range(lists[u][j]) \/ (u = t /\ j = i)
      BY <1>3
    <3>4. Range(q[v][k]) = Range(lists[v][k]) \/ (v = t /\ k = i)
      BY <1>3
    <3> QED BY <1>5, <2>2, <3>1, <3>2, <3>3, <3>4
  <2> QED BY <2>1, <2>2 DEF ListedOnce
<1>7. \A p : p \in InLists(q) <=> p \in InLists(lists) \/ p = x
  <2>1. \A u \in Threads : \A j \in Buckets : u # t \/ j # i => Range(q[u][j]) = Range(lists[u][j])
    BY <1>3
  <2> SUFFICES ASSUME NEW p PROVE p \in InLists(q) <=> p \in InLists(lists) \/ p = x
    OBVIOUS
  <2>2. p \in InLists(q) <=> \E u \in Threads : \E j \in Buckets : p \in Range(q[u][j])
    BY InListsIs
  <2>3. p \in InLists(lists) <=> \E u \in Threads : \E j \in Buckets : p \in Range(lists[u][j])
    BY InListsIs
  <2>4. \A u \in Threads : \A j \in Buckets :
          p \in Range(q[u][j]) <=> p \in Range(lists[u][j]) \/ (u = t /\ j = i /\ p = x)
    BY <1>5, <2>1
  <2> QED BY <2>2, <2>3, <2>4
<1> QED BY <1>6, <1>7

-----------------------------------------------------------------------------
(* Every object is in one place: spans *)

\* A span's list has its objects but for those of out, which useCnt_ counts.
CountedSpan(a, out) ==
  /\ Range(a.freelist_) = Objects(a) \ out /\ Distinct(a.freelist_)
  /\ a.useCnt_ = Cardinality(Objects(a) \cap out)

Counted(c, out) ==
  \A s \in Used(c) : c.span[s].blockSize_ <= kMaxBytes => CountedSpan(c.span[s], out)

\* Every object is in one place.
OnePlace(lists, blocks) ==
  HeldOnce(blocks) /\ ListedOnce(lists) /\ Ptrs(blocks) \cap InLists(lists) = {}

PlacedIs(c, lists, blocks) ==
  OnePlace(lists, blocks) /\ Counted(c, Ptrs(blocks) \cup InLists(lists))

\* The address p is one of span a.
Lies(p, a) == p \in Nat /\ Address(a.pageId_) <= p /\ p < Address(a.pageId_ + a.cnt_)

\* The objects of a span lie in it, and are finitely many.
LEMMA ObjectsLie ==
  ASSUME NEW a \in SpanT, IsSmall(a)
  PROVE  (\A p \in Objects(a) : Lies(p, a)) /\ IsFiniteSet(Objects(a))
<1>1. AreCut(a, Cuts(a))
  BY CutsAre DEF IsSmall
<1>2. \A p \in Objects(a) : Lies(p, a)
  BY <1>1 DEF AreCut, Objects, Lies
<1> DEFINE n == Address(a.pageId_ + a.cnt_)
<1>3. n \in Nat
  BY DEF SpanT, Address, kPageSize
<1>4. Objects(a) \in SUBSET Nat /\ \A p \in Objects(a) : p <= n
  BY <1>2, <1>3 DEF Lies
<1> HIDE DEF n
<1>5. IsFiniteSet(Objects(a))
  BY <1>3, <1>4, FS_BoundedSetOfNaturals
<1> QED BY <1>2, <1>5

\* An address is of one span in use at most.
LEMMA LiesOnce ==
  ASSUME NEW c, Good(c, {}, {}), NEW r \in Used(c), NEW s \in Used(c), NEW p,
         Lies(p, c.span[r]), Lies(p, c.span[s])
  PROVE  r = s
<1>1. r \in Live(c) /\ s \in Live(c) /\ Laid(c) /\ c \in CacheT
  BY DEF Used, Good
<1>2. r # s => Apart(c.span[r], c.span[s])
  BY <1>1 DEF Laid
<1>3. /\ c.span[r].pageId_ \in Nat /\ c.span[r].cnt_ \in Nat
      /\ c.span[s].pageId_ \in Nat /\ c.span[s].cnt_ \in Nat
  BY <1>1, LiveAre
<1> QED BY <1>2, <1>3 DEF Apart, Address, kPageSize, Lies

\* A block lies in its span.
LEMMA BlockLies ==
  ASSUME NEW c, Good(c, {}, {}), SpansOk(c), NEW s \in Used(c), NEW b \in BlockT, BlockOf(c.span[s], b)
  PROVE  Lies(b.ptr, c.span[s])
<1> DEFINE a == c.span[s]
<1>1. a \in SpanT /\ a.pageId_ \in Nat /\ a.cnt_ \in Nat /\ a.cnt_ >= 1
  BY LiveAre DEF Good, Used, Laid
<1>2. SmallSpan(a) \/ LargeSpan(a)
  BY DEF SpansOk
<1>3. b.ptr \in Nat
  BY DEF BlockT
<1>4. BlockOf(a, b)
  OBVIOUS
<1> HIDE DEF a
<1>5. CASE b.bytes \in SmallRequests
  <2>1. a.blockSize_ <= kMaxBytes /\ b.ptr \in Objects(a)
    BY <1>4, <1>5, ClassIs DEF BlockOf, IsClass, Sizes
  <2>2. IsSmall(a)
    BY <1>1, <1>2, <2>1, SmallIs, LargeSpanIs
  <2> QED BY <1>1, <2>1, <2>2, ObjectsLie DEF a
<1>6. CASE b.bytes \notin SmallRequests
  <2>1. b.ptr = Address(a.pageId_)
    BY <1>4, <1>6 DEF BlockOf
  <2> QED BY <1>1, <1>3, <2>1 DEF Lies, Address, kPageSize, a
<1> QED BY <1>5, <1>6

\* What the program and the threads have is of a span in use.
LEMMA OutLies ==
  ASSUME NEW c, NEW spans, NEW lists, NEW f, NEW blocks, HeapIs(c, spans, lists, f, blocks),
         NEW p \in Ptrs(blocks) \cup InLists(lists)
  PROVE  \E s \in Used(c) : Lies(p, c.span[s])
<1>1. /\ Good(c, {}, {}) /\ SpansOk(c) /\ HeldOk(c, blocks) /\ blocks \in Seq(BlockT)
      /\ CachedOk(c, lists)
  BY DEF HeapIs, Tables
<1>2. CASE p \in Ptrs(blocks)
  <2>1. PICK i \in DOMAIN blocks : blocks[i].ptr = p
    BY <1>2 DEF Ptrs
  <2>2. blocks[i] \in BlockT
    BY <1>1
  <2>3. PICK s \in Used(c) : BlockOf(c.span[s], blocks[i])
    BY <1>1 DEF HeldOk
  <2> QED BY <1>1, <2>1, <2>2, <2>3, BlockLies
<1>3. CASE p \in InLists(lists)
  <2>1. PICK t \in Threads, i \in Buckets : p \in Range(lists[t][i])
    BY <1>3, InListsIs
  <2>2. PICK s \in Used(c) : InClass(c.span[s], i) /\ p \in Objects(c.span[s])
    BY <1>1, <2>1 DEF CachedOk
  <2>3. c.span[s] \in SpanT
    BY <1>1, BrkAbove
  <2>4. c.span[s].blockSize_ <= kMaxBytes
    BY <2>2 DEF InClass
  <2>5. SmallSpan(c.span[s]) \/ LargeSpan(c.span[s])
    BY <1>1 DEF SpansOk
  <2>6. IsSmall(c.span[s])
    BY <2>3, <2>4, <2>5, SmallIs, LargeSpanIs
  <2> QED BY <2>2, <2>3, <2>6, ObjectsLie
<1> QED BY <1>2, <1>3

\* What has gone or come elsewhere does not change the count of a span.
LEMMA CountedSame ==
  ASSUME NEW a, NEW out, NEW new, CountedSpan(a, out), \A p \in Objects(a) : p \in out <=> p \in new
  PROVE  CountedSpan(a, new)
<1>1. Objects(a) \cap out = Objects(a) \cap new /\ Objects(a) \ out = Objects(a) \ new
  OBVIOUS
<1> QED BY <1>1 DEF CountedSpan

\* Spans that are what they were, and of which no block has come or gone
LEMMA CountedKept ==
  ASSUME NEW c, NEW out, Counted(c, out), NEW d, Good(d, {}, {}), SpansOk(d), NEW new, NEW r \in Used(d),
         r \in Used(c), d.span[r] = c.span[r], d.span[r].blockSize_ <= kMaxBytes,
         \A p : Lies(p, d.span[r]) => (p \in out <=> p \in new)
  PROVE  CountedSpan(d.span[r], new)
<1> DEFINE a == d.span[r]
<1>1. CountedSpan(a, out)
  BY DEF Counted
<1>2. a \in SpanT
  BY BrkAbove
<1>3. SmallSpan(a) \/ LargeSpan(a)
  BY DEF SpansOk
<1>4. a.blockSize_ <= kMaxBytes
  OBVIOUS
<1>5. IsSmall(a)
  BY <1>2, <1>3, <1>4, SmallIs, LargeSpanIs
<1>6. \A p \in Objects(a) : Lies(p, a)
  BY <1>2, <1>5, ObjectsLie
<1>7. \A p \in Objects(a) : p \in out <=> p \in new
  BY <1>6
<1> HIDE DEF a
<1>8. CountedSpan(a, new)
  BY <1>1, <1>7, CountedSame
<1> QED BY <1>8 DEF a

\* An object is taken.
LEMMA CountedTaken ==
  ASSUME NEW a \in SpanT, SmallSpan(a), InUse(a), a.freelist_ # <<>>, NEW out, CountedSpan(a, out)
  PROVE  /\ Head(a.freelist_) \in Objects(a) /\ Head(a.freelist_) \notin out
         /\ CountedSpan(Taken(a), out \cup {Head(a.freelist_)})
<1> DEFINE x == Head(a.freelist_)
           b == Taken(a)
           X == {x}
           S == Objects(a) \cap out
<1>1. a.freelist_ \in Seq(Nat) /\ a.useCnt_ \in Nat
  BY DEF SpanT
<1>2. /\ Range(a.freelist_) = Objects(a) \ out /\ Distinct(a.freelist_)
      /\ a.useCnt_ = Cardinality(S)
  BY DEF CountedSpan
<1>3. /\ x \in Range(a.freelist_) /\ Range(Tail(a.freelist_)) = Range(a.freelist_) \ {x}
      /\ Distinct(Tail(a.freelist_))
  BY <1>1, <1>2, PopIs DEF IsDrop
<1>4. x \in Objects(a) /\ x \notin out
  BY <1>2, <1>3
<1>5. SameShape(a, b) /\ b.freelist_ = Tail(a.freelist_) /\ b.useCnt_ = a.useCnt_ + 1
  BY TakenIs
<1>6. Objects(b) = Objects(a)
  BY <1>5, SameObjects
<1>7. IsFiniteSet(S)
  <2>1. IsFiniteSet(Objects(a))
    BY SmallIs, ObjectsLie
  <2>2. S \in SUBSET Objects(a)
    OBVIOUS
  <2> HIDE DEF S
  <2> QED BY <2>1, <2>2, FS_Subset
<1>8. x \notin S
  BY <1>4
<1>9. Objects(b) \cap (out \cup X) = S \cup {x}
  BY <1>4, <1>6
<1> HIDE DEF S
<1>10. Cardinality(S \cup {x}) = Cardinality(S) + 1
  BY <1>7, <1>8, FS_AddElement
<1>11. Range(b.freelist_) = Objects(b) \ (out \cup X) /\ Distinct(b.freelist_)
  BY <1>2, <1>3, <1>5, <1>6
<1>12. b.useCnt_ = Cardinality(Objects(b) \cap (out \cup X))
  BY <1>2, <1>5, <1>9, <1>10
<1> HIDE DEF b, X
<1>13. CountedSpan(b, out \cup X)
  BY <1>11, <1>12 DEF CountedSpan
<1> QED BY <1>4, <1>13 DEF b, X

\* A span that has just been cut
LEMMA CountedCut ==
  ASSUME NEW a \in SpanT, SmallSpan(a), a.freelist_ = Cuts(a), a.useCnt_ = 0, NEW out,
         \A p \in Objects(a) : p \notin out
  PROVE  CountedSpan(a, out)
<1>1. AreCut(a, Cuts(a))
  BY SmallIs, CutsAre DEF IsSmall
<1>2. Range(a.freelist_) = Objects(a) /\ Distinct(a.freelist_)
  BY <1>1 DEF AreCut, Objects
<1>3. Objects(a) \cap out = {} /\ Objects(a) \ out = Objects(a)
  OBVIOUS
<1>4. a.useCnt_ = Cardinality(Objects(a) \cap out)
  BY <1>3, FS_EmptySet
<1> QED BY <1>2, <1>3, <1>4 DEF CountedSpan

-----------------------------------------------------------------------------
(* The actions keep every object in one place *)

\* The heap, with every object in one place
PlacedOk == HeapOk /\ PlacedIs(cache, freelists, held)

\* A block that no span in use has room for is neither with the program nor in a list.
LEMMA NotOut ==
  ASSUME NEW c, NEW spans, NEW lists, NEW f, NEW blocks, HeapIs(c, spans, lists, f, blocks),
         NEW d, Good(d, {}, {}), NEW s \in Used(d), s \notin Used(c),
         \A r \in Used(c) : r \in Used(d) /\ d.span[r] = c.span[r], NEW p, Lies(p, d.span[s])
  PROVE  p \notin Ptrs(blocks) \cup InLists(lists)
<1> SUFFICES ASSUME p \in Ptrs(blocks) \cup InLists(lists) PROVE FALSE
  OBVIOUS
<1>1. PICK r \in Used(c) : Lies(p, c.span[r])
  BY OutLies
<1>2. r \in Used(d) /\ Lies(p, d.span[r])
  BY <1>1
<1> QED BY <1>2, LiesOnce

\* AllocLarge: the block is of a span that had none.
LEMMA AllocLargePlaced ==
  ASSUME PlacedOk, NEW t \in Threads, NEW bytes \in Requests, AllocLarge(t, bytes)
  PROVE  PlacedIs(cache', freelists', held')
<1> DEFINE O == Ptrs(held) \cup InLists(freelists)
           Q == Ptrs(held') \cup InLists(freelists)
<1>1. HeapIs(cache, central, freelists, fetching, held)
  BY DEF PlacedOk, HeapOk
<1>2. /\ HeldOnce(held) /\ ListedOnce(freelists) /\ Ptrs(held) \cap InLists(freelists) = {}
      /\ Counted(cache, O)
  BY DEF PlacedOk, PlacedIs, OnePlace
<1>3. bytes \in LargeRequests
  BY <1>1, AllocLargeGives
<1>4. PICK s : GivesAll(cache, cache', s, bytes, held, held')
  BY <1>1, AllocLargeGives
<1> DEFINE p == Address(cache'.span[s].pageId_)
<1>5. /\ Handed(cache, cache', s, RoundUp(bytes) \div kPageSize, bytes)
      /\ held' = Append(held, Block(p, bytes))
  BY <1>4 DEF GivesAll
<1>6. /\ Good(cache', {}, {}) /\ s \in Used(cache') /\ s \notin Used(cache)
      /\ Used(cache') = Used(cache) \cup {s} /\ cache'.span[s].blockSize_ = bytes
      /\ \A r \in Used(cache) : r \in Used(cache') /\ cache'.span[r] = cache.span[r]
  BY <1>5 DEF Handed
<1>7. Lies(p, cache'.span[s])
  BY <1>6, BrkAbove DEF SpanT, Lies, Address, kPageSize
<1>8. freelists' = freelists /\ held \in Seq(BlockT) /\ p \in Nat
  BY <1>1, <1>7 DEF AllocLarge, HeapIs, Tables, Lies
<1> HIDE DEF p
<1>9. p \notin Ptrs(held) \cup InLists(freelists)
  BY <1>1, <1>6, <1>7, NotOut
<1>10. HeldOnce(held') /\ Ptrs(held') = Ptrs(held) \cup {p}
  BY <1>2, <1>5, <1>8, <1>9, AppendOnce
<1>11. SpansOk(cache')
  BY <1>1, AllocLargeKeeps DEF HeapIs
<1>12. \A x : x # p => (x \in O <=> x \in Q)
  BY <1>10
<1> HIDE DEF O, Q
<1>13. Counted(cache', Q)
  <2> SUFFICES ASSUME NEW r \in Used(cache'), cache'.span[r].blockSize_ <= kMaxBytes
               PROVE  CountedSpan(cache'.span[r], Q)
    BY DEF Counted
  <2>1. r # s
    BY <1>3, <1>6 DEF LargeRequests
  <2>2. r \in Used(cache) /\ cache'.span[r] = cache.span[r]
    BY <1>6, <2>1
  <2>3. \A x : Lies(x, cache'.span[r]) => (x \in O <=> x \in Q)
    <3> SUFFICES ASSUME NEW x, Lies(x, cache'.span[r]) PROVE x # p
      BY <1>12
    <3> QED BY <1>6, <1>7, <2>1, LiesOnce
  <2> QED BY <1>2, <1>6, <1>11, <2>2, <2>3, CountedKept
<1>14. OnePlace(freelists, held')
  BY <1>2, <1>9, <1>10 DEF OnePlace
<1> QED BY <1>8, <1>13, <1>14 DEF PlacedIs, Q

\* AllocCached: the block moves from a list to the program.
LEMMA AllocCachedPlaced ==
  ASSUME PlacedOk, NEW t \in Threads, NEW bytes \in Requests, AllocCached(t, bytes)
  PROVE  PlacedIs(cache', freelists', held')
<1> DEFINE i == Index(bytes)
           x == Head(freelists[t][i])
<1>1. /\ HeldOnce(held) /\ ListedOnce(freelists) /\ Ptrs(held) \cap InLists(freelists) = {}
      /\ Counted(cache, Ptrs(held) \cup InLists(freelists))
  BY DEF PlacedOk, PlacedIs, OnePlace
<1>2. bytes \in SmallRequests /\ i \in Buckets
  <2>1. bytes \in SmallRequests
    BY DEF AllocCached, SmallRequests
  <2> QED BY <2>1, ClassIs
<1>3. /\ freelists[t][i] # <<>> /\ held' = Append(held, Block(x, bytes))
      /\ freelists' = [freelists EXCEPT ![t][i] = Tail(@)] /\ cache' = cache
  BY DEF AllocCached
<1>4. freelists \in ListsT /\ held \in Seq(BlockT)
  BY DEF PlacedOk, HeapOk, HeapIs, Tables, ListsT
<1>5. x \in Nat
  <2>1. freelists[t][i] \in Seq(Nat)
    BY <1>2, <1>4 DEF ListsT
  <2> QED BY <1>3, <2>1, Popped
<1> HIDE DEF i
<1>6. /\ ListedOnce(freelists') /\ InLists(freelists') = InLists(freelists) \ {x}
      /\ x \in InLists(freelists)
  BY <1>1, <1>2, <1>3, <1>4, PopOnce
<1> HIDE DEF x
<1>7. HeldOnce(held') /\ Ptrs(held') = Ptrs(held) \cup {x}
  <2>1. x \notin Ptrs(held)
    BY <1>1, <1>6
  <2> QED BY <1>1, <1>3, <1>4, <1>5, <2>1, AppendOnce
<1>8. Ptrs(held') \cap InLists(freelists') = {}
  BY <1>1, <1>6, <1>7
<1>9. Ptrs(held') \cup InLists(freelists') = Ptrs(held) \cup InLists(freelists)
  BY <1>6, <1>7
<1> QED BY <1>1, <1>3, <1>6, <1>7, <1>8, <1>9 DEF PlacedIs, OnePlace

\* An object goes from a span to the program.
LEMMA GivenPlaced ==
  ASSUME PlacedOk, NEW s, NEW bytes \in SmallRequests, GivesOne(cache, cache', s, bytes, held, held'),
         freelists' = freelists
  PROVE  PlacedIs(cache', freelists', held')
<1> DEFINE a == cache.span[s]
           x == Head(a.freelist_)
           X == {x}
           O == Ptrs(held) \cup InLists(freelists)
           Q == Ptrs(held') \cup InLists(freelists)
<1>1. /\ HeldOnce(held) /\ ListedOnce(freelists) /\ Ptrs(held) \cap InLists(freelists) = {}
      /\ Counted(cache, O)
  BY DEF PlacedOk, PlacedIs, OnePlace
<1>2. Good(cache, {}, {}) /\ held \in Seq(BlockT)
  BY DEF PlacedOk, HeapOk, HeapIs, Tables
<1>3. /\ s \in Used(cache) /\ SmallSpan(a) /\ a.freelist_ # <<>>
      /\ held' = Append(held, Block(x, bytes)) /\ a.blockSize_ = RoundUp(bytes)
  BY DEF GivesOne, HasBlock
<1>4. /\ Rewritten(cache, cache', s, Taken(a)) /\ SpansOk(cache') /\ SameShape(a, Taken(a))
  BY DEF GivesOne, Gives
<1>5. /\ Good(cache', {}, {}) /\ Used(cache') = Used(cache) /\ cache'.span[s] = Taken(a)
      /\ \A r \in Used(cache) : r # s => cache'.span[r] = cache.span[r]
  BY <1>4 DEF Rewritten
<1>6. a \in SpanT /\ InUse(a) /\ IsSmall(a)
  BY <1>2, <1>3, BrkAbove, SmallIs
<1>7. CountedSpan(a, O)
  BY <1>1, <1>3, <1>6 DEF Counted, IsSmall
<1> HIDE DEF a
<1> HIDE DEF O, Q
<1>8. x \in Objects(a) /\ x \notin O /\ CountedSpan(Taken(a), O \cup X)
  BY <1>3, <1>6, <1>7, CountedTaken
<1>9. x \in Nat /\ Lies(x, a)
  <2>1. Lies(x, a)
    BY <1>6, <1>8, ObjectsLie
  <2> QED BY <2>1 DEF Lies
<1>10. Lies(x, cache'.span[s])
  BY <1>4, <1>5, <1>9 DEF Lies, SameShape
<1> HIDE DEF x
<1>11. x \notin Ptrs(held) /\ x \notin InLists(freelists) /\ bytes \in Requests
  BY <1>8 DEF O, SmallRequests
<1>12. HeldOnce(held') /\ Ptrs(held') = Ptrs(held) \cup {x}
  BY <1>1, <1>2, <1>3, <1>9, <1>11, AppendOnce
<1>13. Q = O \cup X
  BY <1>12 DEF O, Q
<1>14. Counted(cache', Q)
  <2> SUFFICES ASSUME NEW r \in Used(cache'), cache'.span[r].blockSize_ <= kMaxBytes
               PROVE  CountedSpan(cache'.span[r], Q)
    BY DEF Counted
  <2>1. CASE r = s
    BY <1>5, <1>8, <1>13, <2>1
  <2>2. CASE r # s
    <3>1. r \in Used(cache) /\ cache'.span[r] = cache.span[r] /\ s \in Used(cache')
      BY <1>3, <1>5, <2>2
    <3>2. \A y : Lies(y, cache'.span[r]) => (y \in O <=> y \in Q)
      <4> SUFFICES ASSUME NEW y, Lies(y, cache'.span[r]) PROVE y # x
        BY <1>13
      <4> QED BY <1>5, <1>10, <2>2, <3>1, LiesOnce
    <3> QED BY <1>1, <1>4, <1>5, <3>1, <3>2, CountedKept
  <2> QED BY <2>1, <2>2
<1>15. OnePlace(freelists, held')
  BY <1>1, <1>11, <1>12 DEF OnePlace
<1> QED BY <1>14, <1>15 DEF PlacedIs, Q

\* Fetch: the object moves from its span to the program.
LEMMA FetchPlaced ==
  ASSUME PlacedOk, NEW t \in Threads, NEW bytes \in Requests, Fetch(t, bytes)
  PROVE  PlacedIs(cache', freelists', held')
<1>1. HeapIs(cache, central, freelists, fetching, held)
  BY DEF PlacedOk, HeapOk
<1>2. PICK i \in Buckets : \E s \in Range(central[i]) : GivesOne(cache, cache', s, bytes, held, held')
  BY <1>1, FetchGives
<1>3. PICK s \in Range(central[i]) : GivesOne(cache, cache', s, bytes, held, held')
  BY <1>2
<1>4. bytes \in SmallRequests /\ freelists' = freelists
  BY <1>1, FetchGives DEF Fetch
<1> QED BY <1>3, <1>4, GivenPlaced

\* AddSpan: the object moves from the new span to the program.
LEMMA AddSpanPlaced ==
  ASSUME PlacedOk, NEW t \in Threads, AddSpan(t)
  PROVE  PlacedIs(cache', freelists', held')
<1>1. HeapIs(cache, central, freelists, fetching, held)
  BY DEF PlacedOk, HeapOk
<1>2. /\ fetching[t].bytes \in SmallRequests
      /\ GivesOne(cache, cache', fetching[t].span, fetching[t].bytes, held, held')
  BY <1>1, AddGives
<1>3. freelists' = freelists
  BY DEF AddSpan
<1> QED BY <1>2, <1>3, GivenPlaced

\* GetSpan: the new span has all its objects.
LEMMA GetSpanPlaced ==
  ASSUME PlacedOk, NEW t \in Threads, GetSpan(t)
  PROVE  PlacedIs(cache', freelists', held')
<1> DEFINE O == Ptrs(held) \cup InLists(freelists)
<1>1. HeapIs(cache, central, freelists, fetching, held)
  BY DEF PlacedOk, HeapOk
<1>2. OnePlace(freelists, held) /\ Counted(cache, O)
  BY DEF PlacedOk, PlacedIs
<1>3. PICK s : Made(cache, cache', s, fetching[t].bytes)
  BY <1>1, GetSpanMakes
<1>4. /\ Good(cache', {}, {}) /\ s \in Used(cache') /\ s \notin Used(cache)
      /\ Used(cache') = Used(cache) \cup {s}
      /\ SmallSpan(cache'.span[s]) /\ cache'.span[s].useCnt_ = 0
      /\ cache'.span[s].freelist_ = Cuts(cache'.span[s])
      /\ \A r \in Used(cache) : r \in Used(cache') /\ cache'.span[r] = cache.span[r]
  BY <1>3 DEF Made, Fetched
<1>5. freelists' = freelists /\ held' = held
  BY DEF GetSpan
<1>6. SpansOk(cache')
  BY <1>1, GetSpanKeeps DEF HeapIs
<1>7. CountedSpan(cache'.span[s], O)
  <2>1. cache'.span[s] \in SpanT
    BY <1>4, BrkAbove
  <2>2. \A p \in Objects(cache'.span[s]) : Lies(p, cache'.span[s])
    BY <1>4, <2>1, SmallIs, ObjectsLie
  <2>3. \A p \in Objects(cache'.span[s]) : p \notin O
    BY <1>1, <1>4, <2>2, NotOut
  <2> HIDE DEF O
  <2> QED BY <1>4, <2>1, <2>3, CountedCut
<1> HIDE DEF O
<1>8. Counted(cache', O)
  <2> SUFFICES ASSUME NEW r \in Used(cache'), cache'.span[r].blockSize_ <= kMaxBytes
               PROVE  CountedSpan(cache'.span[r], O)
    BY DEF Counted
  <2>1. CASE r = s
    BY <1>7, <2>1
  <2>2. CASE r # s
    <3>1. r \in Used(cache) /\ cache'.span[r] = cache.span[r]
      BY <1>4, <2>2
    <3>2. \A p : Lies(p, cache'.span[r]) => (p \in O <=> p \in O)
      OBVIOUS
    <3>3. Counted(cache, O) /\ Good(cache', {}, {})
      BY <1>2, <1>4
    <3> QED BY <1>6, <3>1, <3>2, <3>3, CountedKept
  <2> QED BY <2>1, <2>2
<1> QED BY <1>2, <1>5, <1>8 DEF PlacedIs, O

\* FreeSmall: the block moves from the program to a list.
LEMMA FreeSmallPlaced ==
  ASSUME PlacedOk, NEW t \in Threads, NEW i \in DOMAIN held, FreeSmall(t, i)
  PROVE  PlacedIs(cache', freelists', held')
<1> DEFINE x == held[i].ptr
<1>1. HeapIs(cache, central, freelists, fetching, held)
  BY DEF PlacedOk, HeapOk
<1>2. /\ HeldOnce(held) /\ ListedOnce(freelists) /\ Ptrs(held) \cap InLists(freelists) = {}
      /\ Counted(cache, Ptrs(held) \cup InLists(freelists))
  BY DEF PlacedOk, PlacedIs, OnePlace
<1>3. PICK n : /\ \E s : GoesBack(cache, held[i], s, n)
               /\ freelists' = [freelists EXCEPT ![t][n] = <<x>> \o @]
  BY <1>1, FreeSmallGives
<1>4. n \in Buckets /\ x \in Nat
  BY <1>3 DEF GoesBack
<1>5. held' = RemoveAt(held, i) /\ cache' = cache /\ freelists \in ListsT /\ held \in Seq(BlockT)
  BY <1>1 DEF FreeSmall, HeapIs, Tables, ListsT
<1>6. x \in Ptrs(held)
  BY DEF Ptrs
<1>7. HeldOnce(held') /\ Ptrs(held') = Ptrs(held) \ {x}
  BY <1>2, <1>5, RemoveOnce
<1> HIDE DEF x
<1>8. ListedOnce(freelists') /\ InLists(freelists') = InLists(freelists) \cup {x}
  <2>1. x \notin InLists(freelists)
    BY <1>2, <1>6
  <2>2. freelists' = PushList(freelists, t, n, x)
    BY <1>3 DEF PushList, x
  <2>3. freelists \in ListsT /\ ListedOnce(freelists)
    BY <1>2, <1>5
  <2> QED BY <1>4, <2>1, <2>2, <2>3, PushOnce
<1>9. Ptrs(held') \cap InLists(freelists') = {}
  BY <1>2, <1>7, <1>8
<1>10. Ptrs(held') \cup InLists(freelists') = Ptrs(held) \cup InLists(freelists)
  BY <1>6, <1>7, <1>8
<1> QED BY <1>2, <1>5, <1>7, <1>8, <1>9, <1>10 DEF PlacedIs, OnePlace

\* FreeLarge: the block goes with its span.
LEMMA FreeLargePlaced ==
  ASSUME PlacedOk, NEW t \in Threads, NEW i \in DOMAIN held, FreeLarge(t, i), ~FreesHuge
  PROVE  PlacedIs(cache', freelists', held')
<1> DEFINE O == Ptrs(held) \cup InLists(freelists)
           Q == Ptrs(held') \cup InLists(freelists)
           x == held[i].ptr
<1>1. HeapIs(cache, central, freelists, fetching, held)
  BY DEF PlacedOk, HeapOk
<1>2. /\ HeldOnce(held) /\ ListedOnce(freelists) /\ Ptrs(held) \cap InLists(freelists) = {}
      /\ Counted(cache, O)
  BY DEF PlacedOk, PlacedIs, OnePlace
<1>3. PICK s : Returns(cache, cache', held[i], s)
  BY <1>1, FreeLargeGives
<1>4. /\ s \in Used(cache) /\ Reverted(cache, cache', s) /\ x = Address(cache.span[s].pageId_)
  BY <1>3 DEF Returns
<1>5. held' = RemoveAt(held, i) /\ freelists' = freelists /\ held \in Seq(BlockT) /\ Good(cache, {}, {})
  BY <1>1 DEF FreeLarge, HeapIs, Tables
<1>6. /\ Good(cache', {}, {}) /\ Used(cache') = Used(cache) \ {s}
      /\ \A r \in Used(cache') : cache'.span[r] = cache.span[r]
  BY <1>4 DEF Reverted
<1>7. Lies(x, cache.span[s])
  <2>1. /\ cache.span[s].pageId_ \in Nat /\ cache.span[s].cnt_ \in Nat /\ cache.span[s].cnt_ >= 1
    BY <1>4, <1>5, BrkAbove DEF SpanT
  <2> HIDE DEF x
  <2> QED BY <1>4, <2>1 DEF Lies, Address, kPageSize
<1>8. HeldOnce(held') /\ Ptrs(held') = Ptrs(held) \ {x}
  BY <1>2, <1>5, RemoveOnce
<1> HIDE DEF x
<1>9. \A y : y # x => (y \in O <=> y \in Q)
  BY <1>8
<1>10. SpansOk(cache')
  BY <1>1, FreeLargeKeeps DEF HeapIs
<1> HIDE DEF O, Q
<1>11. Counted(cache', Q)
  <2> SUFFICES ASSUME NEW r \in Used(cache'), cache'.span[r].blockSize_ <= kMaxBytes
               PROVE  CountedSpan(cache'.span[r], Q)
    BY DEF Counted
  <2>1. r \in Used(cache) /\ r # s /\ cache'.span[r] = cache.span[r]
    BY <1>6
  <2>2. \A y : Lies(y, cache'.span[r]) => (y \in O <=> y \in Q)
    <3> SUFFICES ASSUME NEW y, Lies(y, cache'.span[r]) PROVE y # x
      BY <1>9
    <3>1. Lies(y, cache.span[r])
      BY <2>1
    <3> QED BY <1>4, <1>5, <1>7, <2>1, <3>1, LiesOnce
  <2> QED BY <1>2, <1>6, <1>10, <2>1, <2>2, CountedKept
<1>12. OnePlace(freelists, held')
  BY <1>2, <1>8 DEF OnePlace
<1> QED BY <1>5, <1>11, <1>12 DEF PlacedIs, Q

-----------------------------------------------------------------------------
(* Every object is in one place, and blocks lie apart *)

\* Of an unused heap no object is anywhere.
LEMMA InitPlaced == Init => PlacedOk
<1> SUFFICES ASSUME Init PROVE PlacedOk
  OBVIOUS
<1>1. HeapOk
  BY InitOk
<1>2. held = <<>> /\ freelists = [t \in Threads |-> [i \in Buckets |-> <<>>]] /\ cache = NewCache
  BY DEF Init
<1>3. DOMAIN <<>> = {} /\ Range(<<>>) = {} /\ Distinct(<<>>)
  BY DEF Range, Distinct
<1>4. \A t \in Threads : \A i \in Buckets : freelists[t][i] = <<>>
  BY <1>2
<1>5. HeldOnce(held) /\ Ptrs(held) = {}
  BY <1>2, <1>3 DEF HeldOnce, Ptrs
<1>6. ListedOnce(freelists)
  BY <1>3, <1>4 DEF ListedOnce
<1>7. Counted(cache, Ptrs(held) \cup InLists(freelists))
  BY <1>2, NewCacheIs DEF Counted, Used
<1>8. OnePlace(freelists, held)
  BY <1>5, <1>6 DEF OnePlace
<1> QED BY <1>1, <1>7, <1>8 DEF PlacedOk, PlacedIs

\* Every step keeps every object in one place.
LEMMA NextPlaced ==
  ASSUME ~FreesHuge, PlacedOk, [Next]_vars
  PROVE  PlacedOk'
<1>1. HeapOk'
  BY NextOk DEF PlacedOk
<1>2. CASE UNCHANGED vars
  <2>1. cache' = cache /\ freelists' = freelists /\ held' = held
    BY <1>2 DEF vars
  <2> QED BY <1>1, <2>1 DEF PlacedOk
<1>3. CASE Next
  <2>1. PICK t \in Threads :
          \/ \E bytes \in Requests : \/ AllocLarge(t, bytes) \/ AllocCached(t, bytes)
                                     \/ Fetch(t, bytes) \/ FindNoSpan(t, bytes)
          \/ GetSpan(t) \/ AddSpan(t)
          \/ \E i \in DOMAIN held : FreeSmall(t, i) \/ FreeLarge(t, i)
    BY <1>3 DEF Next
  <2>2. PlacedIs(cache', freelists', held')
    <3>1. CASE \E bytes \in Requests : AllocLarge(t, bytes)
      BY <3>1, AllocLargePlaced
    <3>2. CASE \E bytes \in Requests : AllocCached(t, bytes)
      BY <3>2, AllocCachedPlaced
    <3>3. CASE \E bytes \in Requests : Fetch(t, bytes)
      BY <3>3, FetchPlaced
    <3>4. CASE \E bytes \in Requests : FindNoSpan(t, bytes)
      <4>1. cache' = cache /\ freelists' = freelists /\ held' = held
        BY <3>4 DEF FindNoSpan
      <4> QED BY <4>1 DEF PlacedOk
    <3>5. CASE GetSpan(t)
      BY <3>5, GetSpanPlaced
    <3>6. CASE AddSpan(t)
      BY <3>6, AddSpanPlaced
    <3>7. CASE \E i \in DOMAIN held : FreeSmall(t, i)
      BY <3>7, FreeSmallPlaced
    <3>8. CASE \E i \in DOMAIN held : FreeLarge(t, i)
      BY <3>8, FreeLargePlaced
    <3> QED BY <2>1, <3>1, <3>2, <3>3, <3>4, <3>5, <3>6, <3>7, <3>8
  <2> QED BY <1>1, <2>2 DEF PlacedOk
<1> QED BY <1>2, <1>3

\* Unless spans are given back with brk(2), an object of a span is with its
\* span, with one thread or with the program, and its span counts those that
\* are out.
THEOREM PlacesHold == ASSUME ~FreesHuge PROVE Spec => []PlacedOk
<1>1. PlacedOk /\ [Next]_vars => PlacedOk'
  BY NextPlaced
<1> QED BY InitPlaced, <1>1, PTL DEF Spec

\* What the run checks of the places of the objects
LEMMA OnePlaceHolds == ASSUME PlacedOk PROVE ObjectsInOnePlace
<1> DEFINE out == {block.ptr : block \in Range(held)}
           kept == UNION {CachedBy(t) : t \in Threads}
<1>1. /\ HeldOnce(held) /\ ListedOnce(freelists) /\ Ptrs(held) \cap InLists(freelists) = {}
      /\ Counted(cache, Ptrs(held) \cup InLists(freelists))
  BY DEF PlacedOk, PlacedIs, OnePlace
<1>2. CentralOk(cache, central)
  BY DEF PlacedOk, HeapOk, HeapIs
<1>3. out = Ptrs(held) /\ kept = InLists(freelists)
  <2>1. out = Ptrs(held)
    BY DEF Ptrs, Range
  <2>2. kept = InLists(freelists)
    BY DEF InLists, CachedBy
  <2> QED BY <2>1, <2>2
<1>4. ASSUME NEW t \in Threads, NEW u \in Threads, t # u
      PROVE  CachedBy(t) \cap CachedBy(u) = {}
  <2> SUFFICES ASSUME NEW p \in CachedBy(t), p \in CachedBy(u) PROVE FALSE
    OBVIOUS
  <2>1. PICK i \in Buckets : p \in Range(freelists[t][i])
    BY DEF CachedBy
  <2>2. PICK j \in Buckets : p \in Range(freelists[u][j])
    BY DEF CachedBy
  <2>3. Range(freelists[t][i]) \cap Range(freelists[u][j]) = {}
    BY <1>1, <1>4 DEF ListedOnce
  <2> QED BY <2>1, <2>2, <2>3
<1>5. \A t \in Threads, i \in Buckets : IsInjective(freelists[t][i])
  BY <1>1, DistinctIsInjective DEF ListedOnce
<1> HIDE DEF out, kept
<1>6. ASSUME NEW i \in Buckets, NEW s \in Range(central[i])
      PROVE  /\ Objects(cache.span[s]) \ (Objects(cache.span[s]) \cap (out \cup kept))
                  = Range(cache.span[s].freelist_)
             /\ IsInjective(cache.span[s].freelist_)
             /\ out \cap kept = {}
             /\ cache.span[s].useCnt_ = Cardinality(Objects(cache.span[s]) \cap (out \cup kept))
  <2>1. s \in Used(cache) /\ cache.span[s].blockSize_ <= kMaxBytes
    BY <1>2, <1>6 DEF CentralOk, InClass
  <2>2. CountedSpan(cache.span[s], out \cup kept)
    BY <1>1, <1>3, <2>1 DEF Counted
  <2>3. /\ Range(cache.span[s].freelist_) = Objects(cache.span[s]) \ (out \cup kept)
        /\ Distinct(cache.span[s].freelist_)
        /\ cache.span[s].useCnt_ = Cardinality(Objects(cache.span[s]) \cap (out \cup kept))
    BY <2>2 DEF CountedSpan
  <2>4. Objects(cache.span[s]) \ (Objects(cache.span[s]) \cap (out \cup kept))
          = Range(cache.span[s].freelist_)
    BY <2>3
  <2> QED BY <1>1, <1>3, <2>3, <2>4, DistinctIsInjective
<1> QED BY <1>4, <1>5, <1>6 DEF ObjectsInOnePlace, out, kept

\* Unless spans are given back with brk(2), no object is in two places, none is
\* twice in a list, and useCnt_ counts the objects that have left their span
\* (ThreadCache, CentralCache).
THEOREM ObjectsAreInOnePlace == ASSUME ~FreesHuge PROVE Spec => []ObjectsInOnePlace
<1>1. PlacedOk => ObjectsInOnePlace
  BY OnePlaceHolds
<1> QED BY PlacesHold, <1>1, PTL

-----------------------------------------------------------------------------
\* The last object of a span has room for the bytes that were asked for.
RoomForLast(bytes) ==
  LET size == RoundUp(bytes)
      all  == Address(NumMovePage(size))
  IN  ((all - 1) \div size) * size + bytes <= all

\* With room for the last object, every block ends within its span.
LEMMA BlockEnds ==
  ASSUME NEW c, Good(c, {}, {}), SpansOk(c), NEW s \in Used(c), NEW b \in BlockT, BlockOf(c.span[s], b),
         \A bytes \in SmallRequests : RoomForLast(bytes)
  PROVE  /\ Address(c.span[s].pageId_) <= b.ptr
         /\ b.ptr + b.bytes <= Address(c.span[s].pageId_ + c.span[s].cnt_)
         /\ b.bytes <= c.span[s].blockSize_
<1> DEFINE a == c.span[s]
<1>1. a \in SpanT /\ a.pageId_ \in Nat /\ a.cnt_ \in Nat /\ a.cnt_ >= 1
  BY LiveAre DEF Good, Used, Laid
<1>2. SmallSpan(a) \/ LargeSpan(a)
  BY DEF SpansOk
<1>3. b.ptr \in Nat /\ b.bytes \in Nat /\ b.bytes \in Requests
  BY RequestsAssumption DEF BlockT
<1>4. BlockOf(a, b)
  OBVIOUS
<1> HIDE DEF a
<1>5. CASE b.bytes \in SmallRequests
  <2> DEFINE r == RoundUp(b.bytes)
             n == NumMovePage(r)
             last == (Address(n) - 1) \div r
  <2>1. IsClass(b.bytes, r, n)
    BY <1>5, ClassIs
  <2>2. /\ r \in Nat \ {0} /\ b.bytes <= r /\ r <= kMaxBytes /\ n \in Nat /\ n >= 1
        /\ b.bytes \in Nat
    BY <2>1 DEF IsClass, Sizes
  <2>3. a.blockSize_ = r /\ b.ptr \in Objects(a)
    BY <1>4, <1>5 DEF BlockOf
  <2>4. a.cnt_ = n
    <3>1. SmallSpan(a)
      BY <1>2, <2>2, <2>3, LargeSpanIs
    <3> QED BY <2>3, <3>1 DEF SmallSpan
  <2>5. last * r + b.bytes <= Address(n)
    BY <1>5 DEF RoomForLast
  <2> HIDE DEF r, n
  <2>6. last \in Nat
    BY <2>2 DEF Address, kPageSize
  <2>7. PICK k \in 1 .. last + 1 : b.ptr = Address(a.pageId_) + (k - 1) * r
    <3>1. Cuts(a) = [k \in 1 .. last + 1 |-> Address(a.pageId_) + (k - 1) * r]
      BY <2>3, <2>4 DEF Cuts
    <3> HIDE DEF last
    <3>2. DOMAIN Cuts(a) = 1 .. last + 1
      BY <3>1
    <3>3. PICK k \in 1 .. last + 1 : Cuts(a)[k] = b.ptr
      BY <2>3, <3>2 DEF Objects, Range
    <3> QED BY <3>1, <3>3
  <2> HIDE DEF last
  <2>8. k - 1 \in Nat /\ last - (k - 1) \in Nat
    BY <2>6
  <2>9. (k - 1) * r \in Nat /\ (last - (k - 1)) * r \in Nat /\ last * r \in Nat
    BY <2>2, <2>6, <2>8
  <2>10. (last - (k - 1)) * r = last * r - (k - 1) * r
    BY <2>2, <2>6
  <2>11. (k - 1) * r + b.bytes <= Address(n)
    BY <2>2, <2>5, <2>9, <2>10 DEF Address, kPageSize
  <2>12. Address(a.pageId_ + a.cnt_) = Address(a.pageId_) + Address(n) /\ Address(a.pageId_) \in Nat
    BY <1>1, <2>4 DEF Address, kPageSize
  <2>13. Address(n) \in Nat
    BY <2>2 DEF Address, kPageSize
  <2>14. b.ptr + b.bytes <= Address(a.pageId_ + a.cnt_) /\ Address(a.pageId_) <= b.ptr
    <3> DEFINE f == Address(a.pageId_)
               m == (k - 1) * r
               e == Address(n)
    <3>1. f \in Nat /\ m \in Nat /\ e \in Nat /\ b.ptr = f + m /\ m + b.bytes <= e
          /\ Address(a.pageId_ + a.cnt_) = f + e
      BY <2>7, <2>9, <2>11, <2>12, <2>13
    <3> HIDE DEF f, m, e
    <3>2. b.ptr + b.bytes <= f + e /\ f <= b.ptr
      BY <1>3, <3>1
    <3> QED BY <3>1, <3>2 DEF f
  <2> QED BY <2>2, <2>3, <2>14 DEF a
<1>6. CASE b.bytes \notin SmallRequests
  <2>1. a.blockSize_ = b.bytes /\ b.ptr = Address(a.pageId_)
    BY <1>4, <1>6 DEF BlockOf
  <2>2. b.bytes \in LargeRequests
    BY <1>3, <1>6 DEF SmallRequests, LargeRequests
  <2>3. b.bytes <= Address(RoundUp(b.bytes) \div kPageSize) /\ ~(a.blockSize_ <= kMaxBytes)
    BY <2>1, <2>2, LargeIs DEF LargeRequests
  <2>4. a.cnt_ = RoundUp(b.bytes) \div kPageSize
    <3>1. LargeSpan(a)
      BY <1>1, <1>2, <2>3, SmallIs DEF IsSmall
    <3> QED BY <2>1, <3>1 DEF LargeSpan
  <2>5. b.bytes <= Address(a.cnt_)
    BY <2>3, <2>4
  <2>6. /\ b.ptr + b.bytes <= Address(a.pageId_ + a.cnt_) /\ Address(a.pageId_) <= b.ptr
        /\ b.bytes <= a.blockSize_
    BY <1>1, <1>3, <2>1, <2>5 DEF Address, kPageSize
  <2> QED BY <2>6 DEF a
<1> QED BY <1>5, <1>6

\* With room for the last object, the blocks of the program lie apart.
LEMMA DisjointHolds ==
  ASSUME PlacedOk, \A bytes \in SmallRequests : RoomForLast(bytes)
  PROVE  HandedOutDisjoint
<1>1. /\ Good(cache, {}, {}) /\ SpansOk(cache) /\ HeldOk(cache, held) /\ held \in Seq(BlockT)
  BY DEF PlacedOk, HeapOk, HeapIs, Tables
<1>2. HeldOnce(held)
  BY DEF PlacedOk, PlacedIs, OnePlace
<1>3. cache \in CacheT /\ Laid(cache) /\ cache.brk \in Nat
  BY <1>1, FieldsAre DEF Good
<1>4. \A i \in DOMAIN held :
        held[i] \in BlockT /\ held[i].ptr \in Nat /\ held[i].bytes \in Nat /\ held[i].bytes >= 1
  <2> SUFFICES ASSUME NEW i \in DOMAIN held
               PROVE  /\ held[i] \in BlockT /\ held[i].ptr \in Nat /\ held[i].bytes \in Nat
                      /\ held[i].bytes >= 1
    OBVIOUS
  <2>1. held[i] \in BlockT
    BY <1>1
  <2>2. held[i].ptr \in Nat /\ held[i].bytes \in Requests
    BY <2>1 DEF BlockT
  <2>3. \A n \in Requests : n \in Nat /\ n >= 1
    BY RequestsAssumption
  <2> QED BY <2>1, <2>2, <2>3
<1>5. ASSUME NEW s \in Used(cache)
      PROVE  /\ cache.span[s] \in SpanT /\ cache.span[s].pageId_ \in Nat /\ cache.span[s].cnt_ \in Nat
             /\ cache.span[s].pageId_ + cache.span[s].cnt_ <= cache.brk
             /\ cache.span[s].blockSize_ \in Nat
  <2>1. s \in Live(cache)
    BY DEF Used
  <2> QED BY <1>3, <2>1, LiveAre DEF Laid, SpanT
<1>6. ASSUME NEW i \in DOMAIN held
      PROVE  held[i].ptr + held[i].bytes <= Address(cache.brk)
  <2>1. PICK s \in Used(cache) : BlockOf(cache.span[s], held[i])
    BY <1>1 DEF HeldOk
  <2>2. held[i].ptr + held[i].bytes <= Address(cache.span[s].pageId_ + cache.span[s].cnt_)
    BY <1>1, <1>4, <2>1, BlockEnds
  <2> QED BY <1>3, <1>4, <1>5, <2>1, <2>2 DEF Address, kPageSize
<1>7. ASSUME NEW i \in DOMAIN held, NEW j \in DOMAIN held \ {i}
      PROVE  \/ held[i].ptr + held[i].bytes <= held[j].ptr
             \/ held[j].ptr + held[j].bytes <= held[i].ptr
  <2>1. PICK s \in Used(cache) : BlockOf(cache.span[s], held[i])
    BY <1>1 DEF HeldOk
  <2>2. PICK r \in Used(cache) : BlockOf(cache.span[r], held[j])
    BY <1>1 DEF HeldOk
  <2>3. /\ Address(cache.span[s].pageId_) <= held[i].ptr
        /\ held[i].ptr + held[i].bytes <= Address(cache.span[s].pageId_ + cache.span[s].cnt_)
        /\ held[i].bytes <= cache.span[s].blockSize_
    BY <1>1, <1>4, <2>1, BlockEnds
  <2>4. /\ Address(cache.span[r].pageId_) <= held[j].ptr
        /\ held[j].ptr + held[j].bytes <= Address(cache.span[r].pageId_ + cache.span[r].cnt_)
        /\ held[j].bytes <= cache.span[r].blockSize_
    BY <1>1, <1>4, <2>2, BlockEnds
  <2>5. CASE r # s
    <3>1. Apart(cache.span[r], cache.span[s])
      BY <1>3, <2>1, <2>2, <2>5 DEF Laid, Used
    <3> QED BY <1>4, <1>5, <2>3, <2>4, <3>1 DEF Apart, Address, kPageSize
  <2>6. CASE r = s
    <3> DEFINE a == cache.span[s]
               x == held[i]
               y == held[j]
    <3>1. x.ptr # y.ptr
      BY <1>2, <1>7 DEF HeldOnce
    <3>2. /\ a \in SpanT /\ (SmallSpan(a) \/ LargeSpan(a)) /\ BlockOf(a, x) /\ BlockOf(a, y)
          /\ x \in BlockT /\ y \in BlockT
      BY <1>1, <1>4, <1>5, <2>1, <2>2, <2>6 DEF SpansOk
    <3>3. x.bytes <= a.blockSize_ /\ y.bytes <= a.blockSize_ /\ a.blockSize_ \in Nat
      BY <1>5, <2>1, <2>3, <2>4, <2>6
    <3>4. x.ptr \in Nat /\ x.bytes \in Nat /\ y.ptr \in Nat /\ y.bytes \in Nat
      BY <1>4
    <3> HIDE DEF a, x, y
    <3>5. CASE a.blockSize_ <= kMaxBytes
      <4>1. x.bytes \in SmallRequests /\ y.bytes \in SmallRequests
        <5>1. x.bytes \in Requests /\ y.bytes \in Requests
          BY <3>2 DEF BlockT
        <5>2. x.bytes <= kMaxBytes /\ y.bytes <= kMaxBytes
          BY <3>3, <3>4, <3>5 DEF kMaxBytes
        <5> QED BY <5>1, <5>2 DEF SmallRequests
      <4>2. x.ptr \in Objects(a) /\ y.ptr \in Objects(a)
        BY <3>2, <4>1 DEF BlockOf
      <4>3. AreCut(a, Cuts(a))
        <5>1. IsSmall(a)
          BY <3>2, <3>5, SmallIs, LargeSpanIs
        <5> QED BY <5>1, CutsAre DEF IsSmall
      <4>4. PICK k, l \in DOMAIN Cuts(a) : x.ptr = Cuts(a)[k] /\ y.ptr = Cuts(a)[l]
        BY <4>2 DEF Objects, Range
      <4>5. k # l
        BY <3>1, <4>4
      <4>6. x.ptr + a.blockSize_ <= y.ptr \/ y.ptr + a.blockSize_ <= x.ptr
        BY <4>3, <4>4, <4>5 DEF AreCut
      <4>7. x.ptr + x.bytes <= y.ptr \/ y.ptr + y.bytes <= x.ptr
        BY <3>3, <3>4, <4>6
      <4> QED BY <4>7 DEF x, y
    <3>6. CASE ~(a.blockSize_ <= kMaxBytes)
      <4>1. x.bytes \notin SmallRequests /\ y.bytes \notin SmallRequests
        BY <3>2, <3>6, ClassIs DEF BlockOf, IsClass, Sizes
      <4> QED BY <3>1, <3>2, <4>1 DEF BlockOf
    <3> QED BY <3>5, <3>6
  <2> QED BY <2>5, <2>6
<1> QED BY <1>6, <1>7 DEF HandedOutDisjoint

\* Unless spans are given back with brk(2), and if the last object of a span
\* has room for the bytes asked for, no byte is in two blocks the program has:
\* whatever the threads allocate and free (concurrentAlloc, concurrentFree).
THEOREM HandedOutIsDisjoint ==
  ASSUME ~FreesHuge, \A bytes \in SmallRequests : RoomForLast(bytes)
  PROVE  Spec => []HandedOutDisjoint
<1>1. PlacedOk => HandedOutDisjoint
  BY DisjointHolds
<1> QED BY PlacesHold, <1>1, PTL

-----------------------------------------------------------------------------
(* Where the last object has room *)

\* A span whose pages are a whole number of objects has room for the last.
LEMMA LastFits ==
  ASSUME NEW size \in Nat \ {0}, NEW num \in Nat \ {0}, NEW bytes \in Nat, bytes <= size
  PROVE  ((num * size - 1) \div size) * size + bytes <= num * size
<1> DEFINE x == num * size - 1
           q == x \div size
<1>1. x \in Nat
  <2>1. num * size >= 1
    <3>1. (num - 1) * size >= 0
      OBVIOUS
    <3>2. (num - 1) * size = num * size - size
      OBVIOUS
    <3> QED BY <3>1, <3>2
  <2> QED BY <2>1
<1>2. q \in Nat
  BY <1>1
<1>3. q * size <= x
  <2> HIDE DEF x
  <2> QED BY <1>1, <1>2, DivTimes DEF q
<1>4. q * size < num * size
  BY <1>3
<1> HIDE DEF q, x
<1>5. q < num
  <2> SUFFICES ASSUME num <= q PROVE FALSE
    BY <1>2
  <2>1. (q - num) * size >= 0
    BY <1>2
  <2>2. (q - num) * size = q * size - num * size
    BY <1>2
  <2>3. q * size \in Int /\ num * size \in Int
    BY <1>2
  <2> QED BY <1>4, <2>1, <2>2, <2>3
<1>6. q * size + size <= num * size
  BY <1>2, <1>5, Multiples
<1>7. q * size + bytes <= num * size
  BY <1>2, <1>6
<1> QED BY <1>7 DEF q, x

\* A request of up to 512 bytes, or of more than 64 KB: 512 objects of a multiple
\* of 8 bytes, or any number of objects of two pages or more, fill their pages.
THEOREM RoomAtBothEnds ==
  ASSUME NEW bytes \in Sizes, bytes <= 512 \/ bytes > 64 * 1024
  PROVE  RoomForLast(bytes)
<1> DEFINE size == RoundUp(bytes)
           num  == NumMoveSize(size)
<1>1. size \in Sizes /\ bytes <= size /\ bytes \in Nat
  BY RoundUpFits DEF Sizes
<1>2. size \in Nat \ {0} /\ num \in Nat \ {0}
  BY <1>1 DEF Sizes, NumMoveSize, kMaxBytes
<1> HIDE DEF size
<1>3. \/ size <= 512 /\ \E m \in Nat : size = 8 * m
      \/ \E m \in Nat : size = 4096 * m
  <2>1. CASE bytes <= 128
    <3>1. size = ((bytes + 7) \div 8) * 8
      BY <1>1, <2>1 DEF size, RoundUp, RoundUpTo, Align, kMaxBytes
    <3>2. size <= 512 /\ (bytes + 7) \div 8 \in Nat
      BY <1>1, <2>1, <3>1
    <3> QED BY <3>1, <3>2
  <2>2. CASE bytes > 128 /\ bytes <= 512
    <3>1. size = ((bytes + 15) \div 16) * 16
      BY <1>1, <2>2 DEF size, RoundUp, RoundUpTo, Align, kMaxBytes
    <3>2. size <= 512 /\ size = 8 * (2 * ((bytes + 15) \div 16))
      BY <1>1, <2>2, <3>1
    <3>3. 2 * ((bytes + 15) \div 16) \in Nat
      BY <1>1
    <3> QED BY <3>2, <3>3
  <2>3. CASE bytes > 64 * 1024
    <3>1. size = ((bytes + 8191) \div 8192) * 8192
      BY <1>1, <2>3 DEF size, RoundUp, RoundUpTo, Align, Sizes, kMaxBytes
    <3>2. size = 4096 * (2 * ((bytes + 8191) \div 8192))
      BY <1>1, <3>1
    <3>3. 2 * ((bytes + 8191) \div 8192) \in Nat
      BY <1>1
    <3> QED BY <3>2, <3>3
  <2> QED BY <1>1, <2>1, <2>2, <2>3
<1>4. \E k \in Nat : num * size = 4096 * k
  <2>1. CASE size <= 512 /\ \E m \in Nat : size = 8 * m
    <3>1. PICK m \in Nat : size = 8 * m
      BY <2>1
    <3>2. kMaxBytes \div size >= 512
      <4>1. 512 * size <= 262144
        BY <1>2, <2>1
      <4> DEFINE d == 262144 \div size
      <4>2. d \in Nat /\ 262144 < (d + 1) * size
        BY <1>2
      <4> HIDE DEF d
      <4>3. d >= 512
        <5> SUFFICES ASSUME d + 1 <= 512 PROVE FALSE
          BY <4>2
        <5>1. (512 - (d + 1)) * size >= 0
          BY <1>2, <4>2
        <5>2. (512 - (d + 1)) * size = 512 * size - (d + 1) * size
          BY <1>2, <4>2
        <5>3. (d + 1) * size \in Int
          BY <1>2, <4>2
        <5> QED BY <1>2, <4>1, <4>2, <5>1, <5>2, <5>3
      <4> QED BY <4>3 DEF d, kMaxBytes
    <3>3. num = 512
      BY <1>2, <3>2 DEF NumMoveSize, kMaxBytes
    <3> QED BY <3>1, <3>3
  <2>2. CASE \E m \in Nat : size = 4096 * m
    <3>1. PICK m \in Nat : size = 4096 * m
      BY <2>2
    <3>2. num * size = 4096 * (num * m) /\ num * m \in Nat
      BY <1>2, <3>1
    <3> QED BY <3>2
  <2> QED BY <1>3, <2>1, <2>2
<1> HIDE DEF num
<1>5. num * size \in Nat /\ num * size # 0
  BY <1>2
<1>6. NumMovePage(size) * 4096 = num * size
  <2>1. PICK k \in Nat : num * size = 4096 * k
    BY <1>4
  <2>2. k # 0
    BY <1>5, <2>1
  <2> DEFINE all == num * size
  <2>3. NumMovePage(size) = IF all \div 4096 = 0 THEN 1 ELSE all \div 4096
    BY DEF NumMovePage, num
  <2> HIDE DEF all
  <2>4. all = 4096 * k
    BY <2>1 DEF all
  <2>5. NumMovePage(size) = k
    BY <2>2, <2>3, <2>4
  <2> QED BY <2>1, <2>5
<1>7. Address(NumMovePage(size)) = num * size
  BY <1>6 DEF Address, kPageSize
<1>8. ((num * size - 1) \div size) * size + bytes <= num * size
  BY <1>1, <1>2, LastFits
<1> QED BY <1>7, <1>8 DEF RoomForLast, size

\* Unless spans are given back with brk(2), the blocks of a program that asks for
\* up to 512 bytes or for more than 64 KB lie apart.
THEOREM SmallAndLargeLieApart ==
  ASSUME ~FreesHuge, \A bytes \in Requests : bytes <= 512 \/ bytes > 64 * 1024
  PROVE  Spec => []HandedOutDisjoint
<1>1. ASSUME NEW bytes \in SmallRequests
      PROVE  RoomForLast(bytes)
  <2>1. bytes \in Sizes /\ bytes \in Requests
    BY RequestsAssumption DEF Sizes, SmallRequests
  <2> QED BY <2>1, RoomAtBothEnds
<1> QED BY <1>1, HandedOutIsDisjoint
=============================================================================
