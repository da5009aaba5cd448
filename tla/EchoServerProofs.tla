-------------------------- MODULE EchoServerProofs --------------------------
(***************************************************************************)
(* For every number of connections, size of the buffers and number of      *)
(* bytes the peers send: the bytes on their way through a connection are   *)
(* those its peer sent, in their order.                                    *)
(***************************************************************************)
EXTENDS EchoServer, SequenceTheorems, FiniteSetTheorems, TLAPS

-----------------------------------------------------------------------------
(* Sequences *)

\* ConcatProperties, with the lengths as they are known.
LEMMA ConcatAt ==
  ASSUME NEW S, NEW s \in Seq(S), NEW t \in Seq(S), NEW m, NEW n, Len(s) = m, Len(t) = n
  PROVE  /\ s \o t \in Seq(S) /\ Len(s \o t) = m + n
         /\ \A i \in 1 .. m + n : (s \o t)[i] = IF i <= m THEN s[i] ELSE t[i - m]
BY ConcatProperties

\* The n elements behind the first k
LEMMA SubSeqAt ==
  ASSUME NEW S, NEW s \in Seq(S), NEW k \in Nat, NEW n \in Nat, k + n <= Len(s)
  PROVE  /\ SubSeq(s, k + 1, k + n) \in Seq(S)
         /\ Len(SubSeq(s, k + 1, k + n)) = n
         /\ \A i \in 1 .. n : SubSeq(s, k + 1, k + n)[i] = s[k + i]
<1> DEFINE t == SubSeq(s, k + 1, k + n)
<1>1. \A i \in k + 1 .. k + n : s[i] \in S
  <2>1. Len(s) \in Nat
    BY LenProperties
  <2>2. \A i \in k + 1 .. k + n : i \in 1 .. Len(s)
    BY <2>1
  <2> QED BY <2>2, ElementOfSeq
<1>2. /\ t \in Seq(S)
      /\ Len(t) = IF k + 1 <= k + n THEN (k + n) - (k + 1) + 1 ELSE 0
      /\ \A i \in 1 .. (k + n) - (k + 1) + 1 : t[i] = s[(k + 1) + i - 1]
  <2> DEFINE p == k + 1
             q == k + n
  <2>1. p \in Int /\ q \in Int /\ \A i \in p .. q : s[i] \in S
    BY <1>1
  <2> HIDE DEF p, q
  <2>2. /\ SubSeq(s, p, q) \in Seq(S)
        /\ Len(SubSeq(s, p, q)) = IF p <= q THEN q - p + 1 ELSE 0
        /\ \A i \in 1 .. q - p + 1 : SubSeq(s, p, q)[i] = s[p + i - 1]
    BY <2>1, SubSeqProperties
  <2> QED BY <2>2 DEF p, q
<1> HIDE DEF t
<1>3. (k + n) - (k + 1) + 1 = n /\ (k + 1 <= k + n <=> n # 0)
  OBVIOUS
<1>4. \A i \in 1 .. n : (k + 1) + i - 1 = k + i
  OBVIOUS
<1>5. Len(t) = n
  BY <1>2, <1>3
<1>6. \A i \in 1 .. n : t[i] = s[k + i]
  BY <1>2, <1>3, <1>4
<1> QED BY <1>2, <1>5, <1>6 DEF t

\* A sequence that is cut in two is its parts, put together.
LEMMA Cut ==
  ASSUME NEW S, NEW s \in Seq(S), NEW n \in 0 .. Len(s)
  PROVE  /\ SubSeq(s, 1, n) \in Seq(S) /\ SubSeq(s, n + 1, Len(s)) \in Seq(S)
         /\ Len(SubSeq(s, 1, n)) = n /\ Len(SubSeq(s, n + 1, Len(s))) = Len(s) - n
         /\ SubSeq(s, 1, n) \o SubSeq(s, n + 1, Len(s)) = s
<1> DEFINE m == Len(s)
<1>1. m \in Nat /\ n \in Nat /\ n <= m /\ \A i \in 1 .. m : s[i] \in S
  BY LenProperties
<1> HIDE DEF m
<1>2. (\A i \in 1 .. n : s[i] \in S) /\ (\A i \in n + 1 .. m : s[i] \in S)
  BY <1>1
<1>3. SubSeq(s, 1, n) \in Seq(S) /\ Len(SubSeq(s, 1, n)) = n
  <2>1. /\ SubSeq(s, 1, n) \in Seq(S)
        /\ Len(SubSeq(s, 1, n)) = IF 1 <= n THEN n - 1 + 1 ELSE 0
    BY <1>1, <1>2, SubSeqProperties
  <2> QED BY <1>1, <2>1
<1>4. SubSeq(s, n + 1, m) \in Seq(S) /\ Len(SubSeq(s, n + 1, m)) = m - n
  <2>1. /\ SubSeq(s, n + 1, m) \in Seq(S)
        /\ Len(SubSeq(s, n + 1, m)) = IF n + 1 <= m THEN m - (n + 1) + 1 ELSE 0
    BY <1>1, <1>2, SubSeqProperties
  <2> QED BY <1>1, <2>1
<1>5. SubSeq(s, 1, n) \o SubSeq(s, n + 1, m) = SubSeq(s, 1, m)
  <2>1. 1 \in 1 .. m + 1 /\ n \in 1 - 1 .. m /\ m \in n .. m
    BY <1>1
  <2> QED BY <2>1, ConcatAdjacentSubSeq DEF m
<1> QED BY <1>3, <1>4, <1>5, SubSeqFull DEF m

\* s \o t, for arguments that need no more than that it is associative: what the
\* provers know of \o besides would keep them busy.
Cat(s, t) == s \o t

\* Concatenation is associative, and stays among sequences over one set.
LEMMA CatAssociative ==
  \A S : \A s, t, u \in Seq(S) : /\ Cat(s, t) \in Seq(S)
                                 /\ Cat(Cat(s, t), u) = Cat(s, Cat(t, u))
<1> TAKE S
<1> TAKE s, t, u \in Seq(S)
<1>1. s \o t \in Seq(S)
  BY ConcatProperties
<1>2. (s \o t) \o u = s \o (t \o u)
  BY ConcatAssociative
<1> QED BY <1>1, <1>2 DEF Cat

\* What a queue holds once e is pushed
LEMMA Pushed ==
  ASSUME NEW S, NEW s \in Seq(S), NEW e \in S
  PROVE  /\ Append(s, e) \in Seq(S)
         /\ DOMAIN Append(s, e) = DOMAIN s \cup {Len(s) + 1} /\ Len(s) + 1 \notin DOMAIN s
         /\ \A i \in DOMAIN s : Append(s, e)[i] = s[i]
         /\ Append(s, e)[Len(s) + 1] = e
<1>1. DOMAIN s = 1 .. Len(s) /\ Len(s) \in Nat
  BY LenProperties
<1>2. DOMAIN Append(s, e) = 1 .. Len(s) + 1
  BY AppendProperties, LenProperties
<1> QED BY <1>1, <1>2, AppendProperties

\* and once its head is popped
LEMMA Popped ==
  ASSUME NEW S, NEW s \in Seq(S), s # <<>>
  PROVE  /\ Tail(s) \in Seq(S)
         /\ 1 \in DOMAIN s /\ s[1] = Head(s) /\ Head(s) \in S
         /\ \A i \in DOMAIN Tail(s) : i + 1 \in DOMAIN s /\ i + 1 # 1 /\ Tail(s)[i] = s[i + 1]
         /\ \A j \in DOMAIN s : j = 1 \/ (j - 1 \in DOMAIN Tail(s) /\ Tail(s)[j - 1] = s[j])
<1>1. /\ DOMAIN s = 1 .. Len(s) /\ Len(s) \in Nat \ {0}
      /\ Tail(s) \in Seq(S) /\ Len(Tail(s)) = Len(s) - 1
      /\ \A i \in 1 .. Len(Tail(s)) : Tail(s)[i] = s[i + 1]
  BY LenProperties, EmptySeq, HeadTailProperties
<1>2. DOMAIN Tail(s) = 1 .. Len(s) - 1
  BY <1>1, LenProperties
<1>3. s[1] = Head(s) /\ Head(s) \in S
  BY <1>1, HeadTailProperties
<1> QED BY <1>1, <1>2, <1>3
-----------------------------------------------------------------------------
(* Buffers, of any size and with any number of spare bytes in front: the        *)
(* indices stay in order and inside the vector, what is appended or read from a *)
(* descriptor goes behind what is readable, what is retrieved comes off its     *)
(* front.                                                                       *)

\* Buffers of elements of S that are in order
Ordered(S) ==
  {b \in [buffer_ : Seq(S), readerIndex_ : Nat, writerIndex_ : Nat] : IndicesInOrder(b)}

\* A buffer whose indices are in order
LEMMA OrderedMeans ==
  ASSUME NEW S, NEW b
  PROVE  b \in Ordered(S) <=>
           /\ b \in [buffer_ : Seq(S), readerIndex_ : Nat, writerIndex_ : Nat]
           /\ IndicesInOrder(b)
BY DEF Ordered

\* Its parts and their bounds
LEMMA OrderedFields ==
  ASSUME NEW S, NEW b \in Ordered(S)
  PROVE  /\ b \in [buffer_ : Seq(S), readerIndex_ : Nat, writerIndex_ : Nat]
         /\ b.buffer_ \in Seq(S) /\ Len(b.buffer_) \in Nat
         /\ \A i \in 1 .. Len(b.buffer_) : b.buffer_[i] \in S
         /\ b.readerIndex_ \in Nat /\ b.writerIndex_ \in Nat /\ kCheapPrepend \in Nat
         /\ kCheapPrepend <= b.readerIndex_
         /\ b.readerIndex_ <= b.writerIndex_ /\ b.writerIndex_ <= Len(b.buffer_)
BY OrderedMeans, LenProperties, BufferAssumption DEF IndicesInOrder

\* std::copy: the bytes copied, and the ones beside them
LEMMA CopyProperties ==
  ASSUME NEW S, NEW bytes \in Seq(S), NEW vector \in Seq(S),
         NEW k \in Nat, k + Len(bytes) <= Len(vector)
  PROVE  /\ Copy(bytes, vector, k) \in Seq(S)
         /\ Len(Copy(bytes, vector, k)) = Len(vector)
         /\ \A i \in 1 .. k : Copy(bytes, vector, k)[i] = vector[i]
         /\ \A i \in 1 .. Len(bytes) : Copy(bytes, vector, k)[k + i] = bytes[i]
<1> DEFINE n == Len(bytes)
           l == Len(vector)
           front == SubSeq(vector, 1, k)
           back == SubSeq(vector, k + n + 1, l)
           c == Copy(bytes, vector, k)
<1>1. n \in Nat /\ l \in Nat /\ \A i \in 1 .. l : vector[i] \in S
  BY LenProperties
<1>2. /\ front \in Seq(S) /\ Len(front) = k
      /\ \A i \in 1 .. k : front[i] = vector[i]
  BY <1>1, SubSeqProperties
<1>3. back \in Seq(S) /\ Len(back) = l - (k + n)
  BY <1>1, SubSeqProperties
<1>4. c = (front \o bytes) \o back
  BY DEF Copy
<1> HIDE DEF front, back, c
<1>5. /\ front \o bytes \in Seq(S) /\ Len(front \o bytes) = k + n
      /\ \A i \in 1 .. k + n : (front \o bytes)[i] = IF i <= k THEN front[i] ELSE bytes[i - k]
  BY <1>2, ConcatProperties
<1>6. \A t \in Seq(S) :
        /\ t \o back \in Seq(S) /\ Len(t \o back) = Len(t) + Len(back)
        /\ \A i \in 1 .. Len(t) + Len(back) :
             (t \o back)[i] = IF i <= Len(t) THEN t[i] ELSE back[i - Len(t)]
  <2>1. back \in Seq(S)
    BY <1>3
  <2> TAKE t \in Seq(S)
  <2> QED BY <2>1, ConcatProperties
<1>7. /\ c \in Seq(S) /\ Len(c) = l
      /\ \A i \in 1 .. k + n : c[i] = (front \o bytes)[i]
  <2>1. /\ c \in Seq(S) /\ Len(c) = (k + n) + Len(back)
        /\ \A i \in 1 .. (k + n) + Len(back) : i <= k + n => c[i] = (front \o bytes)[i]
    BY <1>4, <1>5, <1>6
  <2>2. (k + n) + Len(back) = l /\ k + n <= l
    BY <1>1, <1>3
  <2>3. \A i \in 1 .. k + n : i \in 1 .. (k + n) + Len(back) /\ i <= k + n
    BY <1>1, <2>2
  <2> QED BY <2>1, <2>2, <2>3
<1>8. \A i \in 1 .. k : c[i] = vector[i]
  BY <1>1, <1>2, <1>5, <1>7
<1>9. \A i \in 1 .. n : c[k + i] = bytes[i]
  <2> TAKE i \in 1 .. n
  <2>1. k + i \in 1 .. k + n /\ ~(k + i <= k) /\ (k + i) - k = i
    BY <1>1
  <2> QED BY <1>5, <1>7, <2>1
<1> QED BY <1>1, <1>7, <1>8, <1>9 DEF c

\* What readableBytes and the bytes from peek() are
LEMMA ReadableProperties ==
  ASSUME NEW S, NEW b \in Ordered(S)
  PROVE  /\ Readable(b) \in Seq(S)
         /\ Len(Readable(b)) = ReadableBytes(b)
         /\ ReadableBytes(b) \in Nat
         /\ WriteableBytes(b) \in Nat
         /\ \A i \in 1 .. ReadableBytes(b) : Readable(b)[i] = b.buffer_[b.readerIndex_ + i]
<1>1. /\ b.buffer_ \in Seq(S) /\ Len(b.buffer_) \in Nat
      /\ \A i \in 1 .. Len(b.buffer_) : b.buffer_[i] \in S
      /\ b.readerIndex_ \in Nat /\ b.writerIndex_ \in Nat
      /\ b.readerIndex_ <= b.writerIndex_ /\ b.writerIndex_ <= Len(b.buffer_)
  BY LenProperties DEF Ordered, IndicesInOrder
<1> DEFINE r == b.readerIndex_
           w == b.writerIndex_
<1>2. /\ SubSeq(b.buffer_, r + 1, w) \in Seq(S)
      /\ Len(SubSeq(b.buffer_, r + 1, w)) = IF r + 1 <= w THEN w - (r + 1) + 1 ELSE 0
      /\ \A i \in 1 .. w - (r + 1) + 1 : SubSeq(b.buffer_, r + 1, w)[i] = b.buffer_[(r + 1) + i - 1]
  <2>1. \A i \in r + 1 .. w : b.buffer_[i] \in S
    BY <1>1
  <2>2. r + 1 \in Int /\ w \in Int
    BY <1>1
  <2> QED BY <2>1, <2>2, SubSeqProperties
<1>3. Len(SubSeq(b.buffer_, r + 1, w)) = w - r
  BY <1>1, <1>2
<1>4. \A i \in 1 .. w - r : SubSeq(b.buffer_, r + 1, w)[i] = b.buffer_[r + i]
  <2> TAKE i \in 1 .. w - r
  <2>1. i \in 1 .. w - (r + 1) + 1 /\ (r + 1) + i - 1 = r + i
    BY <1>1
  <2> QED BY <1>2, <2>1
<1> QED BY <1>1, <1>2, <1>3, <1>4 DEF Readable, ReadableBytes, WriteableBytes

\* A buffer that reads s is equal on its readable bytes.
LEMMA ReadsAs ==
  ASSUME NEW S, NEW b \in Ordered(S), NEW s \in Seq(S),
         Len(s) = ReadableBytes(b),
         \A i \in 1 .. Len(s) : b.buffer_[b.readerIndex_ + i] = s[i]
  PROVE  Readable(b) = s
BY ReadableProperties, SeqEqual

\* A new buffer is in order, and empty.
LEMMA NewBufferOrdered ==
  ASSUME NEW S, 0 \in S
  PROVE  NewBuffer \in Ordered(S) /\ Readable(NewBuffer) = <<>>
<1> USE BufferAssumption
<1>1. Zeros(kCheapPrepend + kInitialSize) \in Seq(S)
  BY SeqDef DEF Zeros
<1>2. Len(Zeros(kCheapPrepend + kInitialSize)) = kCheapPrepend + kInitialSize
  BY LenProperties, <1>1 DEF Zeros
<1>3. NewBuffer \in Ordered(S)
  BY <1>1, <1>2 DEF NewBuffer, Ordered, IndicesInOrder
<1>4. Len(Readable(NewBuffer)) = 0
  BY <1>3, ReadableProperties DEF NewBuffer, ReadableBytes
<1> QED BY <1>3, <1>4, ReadableProperties, EmptySeq

\* Writing at beginWrite() and moving writerIndex_ appends to the readable bytes.
LEMMA WriteAppends ==
  ASSUME NEW S, NEW b \in Ordered(S), NEW data \in Seq(S), Len(data) <= WriteableBytes(b)
  PROVE  /\ Write(b, data) \in Ordered(S)
         /\ Readable(Write(b, data)) = Readable(b) \o data
         /\ WriteableBytes(Write(b, data)) = WriteableBytes(b) - Len(data)
<1> DEFINE c == Copy(data, b.buffer_, b.writerIndex_)
           n == Len(data)
           e == Write(b, data)
<1>1. /\ b.buffer_ \in Seq(S) /\ Len(b.buffer_) \in Nat /\ n \in Nat
      /\ b.readerIndex_ \in Nat /\ b.writerIndex_ \in Nat
      /\ kCheapPrepend <= b.readerIndex_
      /\ b.readerIndex_ <= b.writerIndex_ /\ b.writerIndex_ <= Len(b.buffer_)
      /\ b.writerIndex_ + n <= Len(b.buffer_)
  BY LenProperties DEF Ordered, IndicesInOrder, WriteableBytes
<1>2. /\ c \in Seq(S) /\ Len(c) = Len(b.buffer_)
      /\ \A i \in 1 .. b.writerIndex_ : c[i] = b.buffer_[i]
      /\ \A i \in 1 .. n : c[b.writerIndex_ + i] = data[i]
  BY <1>1, CopyProperties
<1>3. /\ e \in [buffer_ : Seq(S), readerIndex_ : Nat, writerIndex_ : Nat]
      /\ e.buffer_ = c /\ e.readerIndex_ = b.readerIndex_
      /\ e.writerIndex_ = b.writerIndex_ + n
  <2>1. b \in [buffer_ : Seq(S), readerIndex_ : Nat, writerIndex_ : Nat]
    BY OrderedFields
  <2>2. e = [b EXCEPT !.buffer_ = c, !.writerIndex_ = @ + n]
    BY DEF Write
  <2> HIDE DEF c, e, n
  <2>3. c \in Seq(S) /\ b.writerIndex_ + n \in Nat
    BY <1>1, <1>2
  <2> QED BY <2>1, <2>2, <2>3
<1> HIDE DEF c, e
<1>4. e \in Ordered(S)
  BY <1>1, <1>2, <1>3, BufferAssumption DEF Ordered, IndicesInOrder
<1> DEFINE s == Readable(b) \o data
<1>5. /\ s \in Seq(S) /\ Len(s) = ReadableBytes(b) + n
      /\ \A i \in 1 .. ReadableBytes(b) + n :
           s[i] = IF i <= ReadableBytes(b) THEN Readable(b)[i] ELSE data[i - ReadableBytes(b)]
  <2>1. Readable(b) \in Seq(S) /\ Len(Readable(b)) = ReadableBytes(b)
    BY ReadableProperties
  <2> QED BY <2>1, ConcatAt
<1> HIDE DEF s
<1>6. ReadableBytes(e) = ReadableBytes(b) + n
  BY <1>1, <1>3 DEF ReadableBytes
<1>7. ASSUME NEW i \in 1 .. Len(s)
      PROVE  e.buffer_[e.readerIndex_ + i] = s[i]
  <2>1. CASE i <= ReadableBytes(b)
    <3>1. s[i] = b.buffer_[b.readerIndex_ + i]
      BY <1>1, <1>5, <2>1, ReadableProperties
    <3>2. b.readerIndex_ + i \in 1 .. b.writerIndex_
      BY <1>1, <1>5, <2>1 DEF ReadableBytes
    <3> QED BY <1>2, <1>3, <3>1, <3>2
  <2>2. CASE ~(i <= ReadableBytes(b))
    <3> DEFINE j == i - ReadableBytes(b)
    <3>1. ReadableBytes(b) = b.writerIndex_ - b.readerIndex_
      BY DEF ReadableBytes
    <3>2. j \in 1 .. n /\ s[i] = data[j] /\ b.readerIndex_ + i = b.writerIndex_ + j
      BY <1>1, <1>5, <2>2, <3>1
    <3> QED BY <1>2, <1>3, <3>2
  <2> QED BY <2>1, <2>2
<1>8. Readable(e) = s
  BY <1>4, <1>5, <1>6, <1>7, ReadsAs
<1>9. WriteableBytes(e) = WriteableBytes(b) - n
  BY <1>1, <1>2, <1>3 DEF WriteableBytes
<1> QED BY <1>4, <1>8, <1>9 DEF e, s

\* makeSpace moves what is readable to the front, and nothing else is readable then.
LEMMA MoveToFrontKeeps ==
  ASSUME NEW S, NEW b \in Ordered(S)
  PROVE  /\ MoveToFront(b) \in Ordered(S)
         /\ Readable(MoveToFront(b)) = Readable(b)
         /\ WriteableBytes(MoveToFront(b)) = WriteableBytes(b) + b.readerIndex_ - kCheapPrepend
<1> DEFINE c == Copy(Readable(b), b.buffer_, kCheapPrepend)
           n == ReadableBytes(b)
           e == MoveToFront(b)
<1>1. /\ b.buffer_ \in Seq(S) /\ Len(b.buffer_) \in Nat /\ n \in Nat
      /\ b.readerIndex_ \in Nat /\ b.writerIndex_ \in Nat /\ kCheapPrepend \in Nat
      /\ kCheapPrepend <= b.readerIndex_
      /\ b.readerIndex_ <= b.writerIndex_ /\ b.writerIndex_ <= Len(b.buffer_)
      /\ n = b.writerIndex_ - b.readerIndex_
  BY LenProperties, ReadableProperties, BufferAssumption
     DEF Ordered, IndicesInOrder, ReadableBytes
<1>2. Readable(b) \in Seq(S) /\ Len(Readable(b)) = n
  BY ReadableProperties
<1>3. /\ c \in Seq(S) /\ Len(c) = Len(b.buffer_)
      /\ \A i \in 1 .. n : c[kCheapPrepend + i] = Readable(b)[i]
  BY <1>1, <1>2, CopyProperties
<1>4. /\ e \in [buffer_ : Seq(S), readerIndex_ : Nat, writerIndex_ : Nat]
      /\ e.buffer_ = c /\ e.readerIndex_ = kCheapPrepend
      /\ e.writerIndex_ = kCheapPrepend + n
  <2>1. b \in [buffer_ : Seq(S), readerIndex_ : Nat, writerIndex_ : Nat]
    BY OrderedFields
  <2>2. e = [b EXCEPT !.buffer_ = c, !.readerIndex_ = kCheapPrepend,
                      !.writerIndex_ = kCheapPrepend + n]
    BY DEF MoveToFront
  <2> HIDE DEF c, e, n
  <2>3. c \in Seq(S) /\ kCheapPrepend \in Nat /\ kCheapPrepend + n \in Nat
    BY <1>1, <1>3
  <2> QED BY <2>1, <2>2, <2>3
<1> HIDE DEF c, e
<1>5. e \in Ordered(S)
  BY <1>1, <1>3, <1>4 DEF Ordered, IndicesInOrder
<1>6. ReadableBytes(e) = n
  BY <1>1, <1>4 DEF ReadableBytes
<1>7. Readable(e) = Readable(b)
  BY <1>2, <1>3, <1>4, <1>5, <1>6, ReadsAs
<1>8. WriteableBytes(e) = WriteableBytes(b) + b.readerIndex_ - kCheapPrepend
  <2>1. /\ WriteableBytes(e) = Len(b.buffer_) - (kCheapPrepend + n)
        /\ WriteableBytes(b) = Len(b.buffer_) - b.writerIndex_
    BY <1>3, <1>4 DEF WriteableBytes
  <2> HIDE DEF n
  <2> QED BY <1>1, <2>1
<1> QED BY <1>5, <1>7, <1>8 DEF e

\* The vector grows behind what is readable.
LEMMA GrowKeeps ==
  ASSUME NEW S, 0 \in S, NEW b \in Ordered(S), NEW n \in Nat
  PROVE  LET e == [b EXCEPT !.buffer_ = @ \o Zeros(n)]
         IN  /\ e \in Ordered(S) /\ Readable(e) = Readable(b)
             /\ WriteableBytes(e) = WriteableBytes(b) + n
<1> DEFINE e == [b EXCEPT !.buffer_ = b.buffer_ \o Zeros(n)]
           c == b.buffer_ \o Zeros(n)
<1>1. /\ b.buffer_ \in Seq(S) /\ Len(b.buffer_) \in Nat
      /\ b.readerIndex_ \in Nat /\ b.writerIndex_ \in Nat
      /\ kCheapPrepend <= b.readerIndex_
      /\ b.readerIndex_ <= b.writerIndex_ /\ b.writerIndex_ <= Len(b.buffer_)
  BY LenProperties DEF Ordered, IndicesInOrder
<1>2. Zeros(n) \in Seq(S) /\ Len(Zeros(n)) = n
  <2>1. Zeros(n) \in Seq(S)
    BY SeqDef DEF Zeros
  <2> QED BY <2>1, LenProperties DEF Zeros
<1>3. /\ c \in Seq(S) /\ Len(c) = Len(b.buffer_) + n
      /\ \A i \in 1 .. Len(b.buffer_) + n :
           c[i] = IF i <= Len(b.buffer_) THEN b.buffer_[i] ELSE Zeros(n)[i - Len(b.buffer_)]
  <2> DEFINE z == Zeros(n)
             v == b.buffer_
  <2>1. v \in Seq(S) /\ z \in Seq(S) /\ Len(z) = n
    BY <1>1, <1>2
  <2> HIDE DEF z, v
  <2>2. /\ v \o z \in Seq(S) /\ Len(v \o z) = Len(v) + n
        /\ \A i \in 1 .. Len(v) + n : (v \o z)[i] = IF i <= Len(v) THEN v[i] ELSE z[i - Len(v)]
    BY <2>1, ConcatProperties
  <2> QED BY <2>2 DEF v, z
<1>4. /\ e \in [buffer_ : Seq(S), readerIndex_ : Nat, writerIndex_ : Nat]
      /\ e.buffer_ = c /\ e.readerIndex_ = b.readerIndex_
      /\ e.writerIndex_ = b.writerIndex_
  <2>1. b \in [buffer_ : Seq(S), readerIndex_ : Nat, writerIndex_ : Nat]
    BY OrderedFields
  <2> QED BY <2>1, <1>1, <1>3
<1> HIDE DEF c, e
<1>5. e \in Ordered(S)
  BY <1>1, <1>3, <1>4 DEF Ordered, IndicesInOrder
<1>6. Readable(e) = Readable(b)
  <2>1. ReadableBytes(e) = ReadableBytes(b) /\ ReadableBytes(b) = b.writerIndex_ - b.readerIndex_
    BY <1>4 DEF ReadableBytes
  <2>2. Readable(b) \in Seq(S) /\ Len(Readable(b)) = ReadableBytes(b)
    BY ReadableProperties
  <2>3. ASSUME NEW i \in 1 .. Len(Readable(b))
        PROVE  e.buffer_[e.readerIndex_ + i] = Readable(b)[i]
    <3>1. b.readerIndex_ + i \in 1 .. Len(b.buffer_) /\ i \in 1 .. ReadableBytes(b)
      BY <1>1, <2>1, <2>2
    <3>2. Readable(b)[i] = b.buffer_[b.readerIndex_ + i]
      BY <3>1, ReadableProperties
    <3>3. b.readerIndex_ + i <= Len(b.buffer_) /\ b.readerIndex_ + i \in 1 .. Len(b.buffer_) + n
      BY <1>1, <3>1
    <3>4. c[b.readerIndex_ + i] = b.buffer_[b.readerIndex_ + i]
      BY <1>3, <3>3
    <3> QED BY <1>4, <3>2, <3>4
  <2> QED BY <1>5, <2>1, <2>2, <2>3, ReadsAs
<1>7. WriteableBytes(e) = WriteableBytes(b) + n
  <2>1. /\ WriteableBytes(e) = (Len(b.buffer_) + n) - b.writerIndex_
        /\ WriteableBytes(b) = Len(b.buffer_) - b.writerIndex_
    BY <1>3, <1>4 DEF WriteableBytes
  <2> QED BY <1>1, <2>1
<1> QED BY <1>5, <1>6, <1>7 DEF e

\* makeSpace makes the room it is asked for, and what is readable stays.
LEMMA EnsureWritableKeeps ==
  ASSUME NEW S, 0 \in S, NEW b \in Ordered(S), NEW n \in Nat
  PROVE  /\ EnsureWritableBytes(b, n) \in Ordered(S)
         /\ Readable(EnsureWritableBytes(b, n)) = Readable(b)
         /\ n <= WriteableBytes(EnsureWritableBytes(b, n))
<1> DEFINE w == WriteableBytes(b)
           e == EnsureWritableBytes(b, n)
<1>1. /\ w \in Nat /\ b.readerIndex_ \in Nat /\ kCheapPrepend \in Nat
      /\ kCheapPrepend <= b.readerIndex_
  BY ReadableProperties, BufferAssumption DEF Ordered, IndicesInOrder
<1>2. CASE n <= w
  <2>1. e = b
    BY <1>1, <1>2 DEF EnsureWritableBytes
  <2> QED BY <1>2, <2>1
<1>3. CASE w < n /\ w + b.readerIndex_ - kCheapPrepend < n
  <2>1. e = [b EXCEPT !.buffer_ = @ \o Zeros(n - w)] /\ n - w \in Nat
    BY <1>1, <1>3 DEF EnsureWritableBytes, MakeSpace
  <2>2. e \in Ordered(S) /\ Readable(e) = Readable(b) /\ WriteableBytes(e) = w + (n - w)
    BY <2>1, GrowKeeps
  <2> QED BY <1>1, <2>2
<1>4. CASE w < n /\ ~(w + b.readerIndex_ - kCheapPrepend < n)
  <2>1. e = MoveToFront(b)
    BY <1>1, <1>4 DEF EnsureWritableBytes, MakeSpace
  <2> QED BY <1>1, <1>4, <2>1, MoveToFrontKeeps
<1> QED BY <1>1, <1>2, <1>3, <1>4

\* append puts data behind what is readable, whatever moves or grows for it.
THEOREM AppendAppends ==
  ASSUME NEW S, 0 \in S, NEW b \in Ordered(S), NEW data \in Seq(S)
  PROVE  /\ AppendData(b, data) \in Ordered(S)
         /\ Readable(AppendData(b, data)) = Readable(b) \o data
<1>1. Len(data) \in Nat
  BY LenProperties
<1> DEFINE e == EnsureWritableBytes(b, Len(data))
<1>2. e \in Ordered(S) /\ Readable(e) = Readable(b) /\ Len(data) <= WriteableBytes(e)
  BY <1>1, EnsureWritableKeeps
<1>3. AppendData(b, data) = Write(e, data)
  BY DEF AppendData
<1> HIDE DEF e
<1>4. Write(e, data) \in Ordered(S) /\ Readable(Write(e, data)) = Readable(e) \o data
  BY <1>2, WriteAppends
<1> QED BY <1>2, <1>3, <1>4

\* readFd puts what readv took behind what is readable, in the vector or by way of
\* extrabuf.
THEOREM ReadFdAppends ==
  ASSUME NEW S, 0 \in S, NEW b \in Ordered(S), NEW data \in Seq(S)
  PROVE  /\ ReadFd(b, data) \in Ordered(S)
         /\ Readable(ReadFd(b, data)) = Readable(b) \o data
<1> DEFINE w == WriteableBytes(b)
           n == Len(data)
           fits == SubSeq(data, 1, w)
           extra == SubSeq(data, w + 1, n)
<1>1. /\ n \in Nat /\ w \in Nat /\ \A i \in 1 .. n : data[i] \in S
  BY LenProperties, ReadableProperties
<1>2. CASE n <= w
  BY <1>2, WriteAppends DEF ReadFd
<1>3. CASE ~(n <= w)
  <2>1. /\ fits \in Seq(S) /\ Len(fits) = w
    <3>1. \A i \in 1 .. w : data[i] \in S
      BY <1>1, <1>3
    <3> QED BY <1>1, <3>1, SubSeqProperties
  <2>2. extra \in Seq(S)
    <3>1. \A i \in w + 1 .. n : data[i] \in S
      BY <1>1
    <3> QED BY <1>1, <3>1, SubSeqProperties
  <2>3. fits \o extra = data
    <3>1. fits \o extra = SubSeq(data, 1, n)
      BY <1>1, <1>3, ConcatAdjacentSubSeq
    <3> QED BY <3>1, SubSeqFull
  <2>4. ReadFd(b, data) = AppendData(Write(b, fits), extra)
    BY <1>3 DEF ReadFd
  <2> HIDE DEF fits, extra
  <2>5. /\ Write(b, fits) \in Ordered(S)
        /\ Readable(Write(b, fits)) = Readable(b) \o fits
    BY <1>1, <2>1, WriteAppends
  <2>6. /\ ReadFd(b, data) \in Ordered(S)
        /\ Readable(ReadFd(b, data)) = (Readable(b) \o fits) \o extra
    BY <2>2, <2>4, <2>5, AppendAppends
  <2>7. (Readable(b) \o fits) \o extra = Readable(b) \o (fits \o extra)
    BY <2>1, <2>2, ReadableProperties, ConcatAssociative
  <2> QED BY <2>3, <2>6, <2>7
<1> QED BY <1>2, <1>3

\* retrieve takes bytes off the front of what is readable; with the last of them the
\* indices go back, and nothing is readable.
THEOREM RetrieveTakes ==
  ASSUME NEW S, NEW b \in Ordered(S), NEW n \in 0 .. ReadableBytes(b)
  PROVE  /\ Retrieve(b, n) \in Ordered(S)
         /\ SubSeq(Readable(b), 1, n) \in Seq(S)
         /\ Readable(Retrieve(b, n)) \in Seq(S)
         /\ SubSeq(Readable(b), 1, n) \o Readable(Retrieve(b, n)) = Readable(b)
<1> DEFINE s == Readable(b)
           m == ReadableBytes(b)
           e == Retrieve(b, n)
<1>1. /\ b.buffer_ \in Seq(S) /\ Len(b.buffer_) \in Nat
      /\ b.readerIndex_ \in Nat /\ b.writerIndex_ \in Nat /\ kCheapPrepend \in Nat
      /\ kCheapPrepend <= b.readerIndex_
      /\ b.readerIndex_ <= b.writerIndex_ /\ b.writerIndex_ <= Len(b.buffer_)
      /\ m = b.writerIndex_ - b.readerIndex_
  BY LenProperties, BufferAssumption DEF Ordered, IndicesInOrder, ReadableBytes
<1>2. /\ s \in Seq(S) /\ Len(s) = m /\ m \in Nat /\ n \in Nat /\ n <= m
      /\ \A i \in 1 .. m : s[i] \in S
  BY ReadableProperties, LenProperties
<1>3. SubSeq(s, 1, n) \in Seq(S) /\ SubSeq(s, n + 1, m) \in Seq(S)
  <2>1. (\A i \in 1 .. n : s[i] \in S) /\ (\A i \in n + 1 .. m : s[i] \in S)
    BY <1>2
  <2>2. SubSeq(s, 1, n) \in Seq(S)
    BY <1>2, <2>1, SubSeqProperties
  <2>3. SubSeq(s, n + 1, m) \in Seq(S)
    BY <1>2, <2>1, SubSeqProperties
  <2> QED BY <2>2, <2>3
<1>4. SubSeq(s, 1, n) \o SubSeq(s, n + 1, m) = s
  <2>1. SubSeq(s, 1, n) \o SubSeq(s, n + 1, m) = SubSeq(s, 1, m)
    BY <1>2, ConcatAdjacentSubSeq
  <2> QED BY <1>2, <2>1, SubSeqFull
<1> HIDE DEF s
<1>5. CASE n < m
  <2>1. /\ e \in [buffer_ : Seq(S), readerIndex_ : Nat, writerIndex_ : Nat]
        /\ e.buffer_ = b.buffer_ /\ e.readerIndex_ = b.readerIndex_ + n
        /\ e.writerIndex_ = b.writerIndex_
    <3>1. b \in [buffer_ : Seq(S), readerIndex_ : Nat, writerIndex_ : Nat]
      BY OrderedFields
    <3>2. e = [b EXCEPT !.readerIndex_ = @ + n]
      BY <1>1, <1>2, <1>5 DEF Retrieve
    <3> HIDE DEF e
    <3> QED BY <1>1, <1>2, <3>1, <3>2
  <2> HIDE DEF e
  <2>2. e \in Ordered(S)
    BY <1>1, <1>2, <1>5, <2>1 DEF Ordered, IndicesInOrder
  <2>3. ReadableBytes(e) = m - n
    BY <1>1, <1>2, <2>1 DEF ReadableBytes
  <2>4. Len(SubSeq(s, n + 1, m)) = m - n
    <3>1. \A i \in n + 1 .. m : s[i] \in S
      BY <1>2
    <3>2. Len(SubSeq(s, n + 1, m)) = m - (n + 1) + 1
      BY <1>2, <1>5, <3>1, SubSeqProperties
    <3> QED BY <1>2, <3>2
  <2>5. ASSUME NEW i \in 1 .. m - n
        PROVE  e.buffer_[e.readerIndex_ + i] = SubSeq(s, n + 1, m)[i]
    <3>1. \A j \in n + 1 .. m : s[j] \in S
      BY <1>2
    <3>2. i \in 1 .. m - (n + 1) + 1 /\ (n + 1) + i - 1 = n + i /\ n + i \in 1 .. m
      BY <1>2
    <3>3. SubSeq(s, n + 1, m)[i] = s[n + i]
      BY <1>2, <3>1, <3>2, SubSeqProperties
    <3>4. s[n + i] = b.buffer_[b.readerIndex_ + (n + i)]
      BY <3>2, ReadableProperties DEF s
    <3>5. b.readerIndex_ + (n + i) = e.readerIndex_ + i
      BY <1>1, <1>2, <2>1
    <3> QED BY <2>1, <3>3, <3>4, <3>5
  <2>6. Readable(e) = SubSeq(s, n + 1, m)
    BY <1>3, <2>2, <2>3, <2>4, <2>5, ReadsAs
  <2> QED BY <1>3, <1>4, <2>2, <2>6 DEF e, s
<1>6. CASE n = m
  <2>1. /\ e \in [buffer_ : Seq(S), readerIndex_ : Nat, writerIndex_ : Nat]
        /\ e.buffer_ = b.buffer_ /\ e.readerIndex_ = kCheapPrepend
        /\ e.writerIndex_ = kCheapPrepend
    <3>1. b \in [buffer_ : Seq(S), readerIndex_ : Nat, writerIndex_ : Nat]
      BY OrderedFields
    <3>2. e = [b EXCEPT !.readerIndex_ = kCheapPrepend, !.writerIndex_ = kCheapPrepend]
      BY <1>1, <1>2, <1>6 DEF Retrieve, RetrieveAll
    <3> HIDE DEF e
    <3> QED BY <1>1, <1>2, <3>1, <3>2
  <2> HIDE DEF e
  <2>2. e \in Ordered(S) /\ ReadableBytes(e) = 0
    BY <1>1, <2>1 DEF Ordered, IndicesInOrder, ReadableBytes
  <2>3. Readable(e) = <<>>
    BY <2>2, ReadableProperties, EmptySeq
  <2>4. SubSeq(s, n + 1, m) = <<>>
    BY <1>2, <1>6, SubSeqEmpty
  <2> QED BY <1>3, <1>4, <2>2, <2>3, <2>4 DEF e, s
<1> QED BY <1>2, <1>5, <1>6

-----------------------------------------------------------------------------
(* The bytes of a connection *)

\* The bytes of connection c that are written, waiting and still in the kernel
Bytes(c) == wire[c] \o Readable(outputBuffer_[c]) \o Readable(inputBuffer_[c]) \o received[c]

\* The buffers are in order, and nothing is lost.
IInv ==
  /\ inputBuffer_ \in [Channel -> Ordered(Nat)]
  /\ outputBuffer_ \in [Channel -> Ordered(Nat)]
  /\ wire \in [Channel -> Seq(Nat)]
  /\ received \in [Channel -> Seq(Nat)]
  /\ sent \in [Channel -> Nat]
  /\ BytesPreserved

-----------------------------------------------------------------------------
(* Lemmas about sequences *)

\* What moves from the kernel through the input to the output of a connection stays
\* where it was in the stream.
LEMMA Moved ==
  ASSUME NEW S, NEW o \in Seq(S), NEW i \in Seq(S), NEW t \in Seq(S), NEW r \in Seq(S),
         NEW data \in Seq(S), NEW j \in Seq(S), Cat(data, j) = Cat(i, t)
  PROVE  Cat(Cat(Cat(o, data), j), r) = Cat(Cat(o, i), Cat(t, r))
BY CatAssociative

\* What is written directly passes the output that waits only if there is none.
LEMMA Swapped ==
  ASSUME NEW S, NEW w \in Seq(S), NEW o \in Seq(S), NEW done \in Seq(S), NEW rest \in Seq(S),
         Cat(done, o) = Cat(o, done)
  PROVE  Cat(Cat(w, done), Cat(o, rest)) = Cat(Cat(w, o), Cat(done, rest))
BY CatAssociative

\* outputBuffer_ when n bytes of data are written directly
AfterSend(out, data, n) == IF n = Len(data) THEN out ELSE AppendData(out, Remaining(data, n))

\* sendInLoop: only when no output waits is anything written directly, so what is
\* written and what waits afterwards is what was, and the data behind it.
LEMMA SendKeeps ==
  ASSUME NEW w \in Seq(Nat), NEW out \in Ordered(Nat), NEW data \in Seq(Nat),
         NEW n \in 0 .. Len(data), n = 0 \/ ReadableBytes(out) = 0
  PROVE  /\ AfterSend(out, data, n) \in Ordered(Nat)
         /\ w \o SubSeq(data, 1, n) \in Seq(Nat)
         /\ (w \o SubSeq(data, 1, n)) \o Readable(AfterSend(out, data, n))
              = (w \o Readable(out)) \o data
<1> DEFINE done == SubSeq(data, 1, n)
           rest == SubSeq(data, n + 1, Len(data))
           e == IF n = Len(data) THEN out ELSE AppendData(out, rest)
           o == Readable(out)
<1>1. /\ done \in Seq(Nat) /\ rest \in Seq(Nat)
      /\ Len(done) = n /\ Len(rest) = Len(data) - n /\ Len(data) \in Nat
  BY Cut, LenProperties
<1>11. done \o rest = data
  BY Cut
<1>2. o \in Seq(Nat) /\ Len(o) = ReadableBytes(out)
  BY ReadableProperties
<1>3. e \in Ordered(Nat) /\ Readable(e) = o \o rest
  <2>1. CASE n = Len(data)
    <3>1. rest = <<>>
      BY <1>1, <2>1, EmptySeq
    <3> QED BY <1>2, <2>1, <3>1, ConcatEmptySeq
  <2>2. CASE n # Len(data)
    <3>1. e = AppendData(out, rest)
      BY <2>2
    <3> HIDE DEF rest, e
    <3> QED BY <1>1, <3>1, AppendAppends DEF o
  <2> QED BY <2>1, <2>2
<1> HIDE DEF done, rest, e, o
<1>4. Cat(done, o) = Cat(o, done)
  <2>1. done = <<>> \/ o = <<>>
    BY <1>1, <1>2, EmptySeq
  <2> QED BY <1>1, <1>2, <2>1, ConcatEmptySeq DEF Cat
<1>5. Cat(Cat(w, done), Cat(o, rest)) = Cat(Cat(w, o), Cat(done, rest))
  BY <1>1, <1>2, <1>4, Swapped
<1>6. Cat(w, done) \in Seq(Nat)
  BY <1>1, CatAssociative
<1> QED BY <1>3, <1>5, <1>6, <1>11 DEF Cat, AfterSend, Remaining, done, rest, e, o

-----------------------------------------------------------------------------
(* The invariant *)

\* One step of connection c that leaves the bytes of the others alone, and in c
\* only moves them.
LEMMA Step ==
  ASSUME IInv, NEW c,
         sent' = sent,
         NEW i, NEW o, NEW w, NEW r,
         inputBuffer_' = [inputBuffer_ EXCEPT ![c] = i],
         outputBuffer_' = [outputBuffer_ EXCEPT ![c] = o],
         wire' = [wire EXCEPT ![c] = w],
         received' = [received EXCEPT ![c] = r],
         c \in Channel =>
           /\ i \in Ordered(Nat) /\ o \in Ordered(Nat) /\ w \in Seq(Nat) /\ r \in Seq(Nat)
           /\ w \o Readable(o) \o Readable(i) \o r = Bytes(c)
  PROVE  IInv'
<1> USE DEF IInv
<1>1. /\ inputBuffer_' \in [Channel -> Ordered(Nat)]
      /\ outputBuffer_' \in [Channel -> Ordered(Nat)]
      /\ wire' \in [Channel -> Seq(Nat)]
      /\ received' \in [Channel -> Seq(Nat)]
      /\ sent' \in [Channel -> Nat]
  OBVIOUS
<1>2. ASSUME NEW d \in Channel
      PROVE  Bytes(d)' = Bytes(d)
  <2>1. CASE d = c
    BY <2>1 DEF Bytes
  <2>2. CASE d # c
    BY <2>2 DEF Bytes
  <2> QED BY <2>1, <2>2
<1>3. BytesPreserved'
  BY <1>2 DEF BytesPreserved, Bytes
<1> QED BY <1>1, <1>3

\* Nothing moves.
LEMMA Idle ==
  ASSUME IInv, UNCHANGED <<inputBuffer_, outputBuffer_, wire, received, sent>>
  PROVE  IInv'
BY DEF IInv, BytesPreserved

\* handleWrite: the readable bytes that are written leave outputBuffer_ in front.
LEMMA HandleWriteKeeps ==
  ASSUME IInv, NEW c, HandleWrite(c)
  PROVE  IInv'
<1>1. PICK n \in 1 .. ReadableBytes(outputBuffer_[c]) :
        /\ wire' = [wire EXCEPT ![c] = @ \o SubSeq(Readable(outputBuffer_[c]), 1, n)]
        /\ outputBuffer_' = [outputBuffer_ EXCEPT ![c] = Retrieve(outputBuffer_[c], n)]
        /\ UNCHANGED <<inputBuffer_, peerVars>>
  BY DEF HandleWrite
<1> DEFINE out == outputBuffer_[c]
           e == Retrieve(out, n)
           done == SubSeq(Readable(out), 1, n)
           w == wire[c]
           i == Readable(inputBuffer_[c])
           r == received[c]
<1>2. ASSUME c \in Channel
      PROVE  /\ inputBuffer_[c] \in Ordered(Nat) /\ e \in Ordered(Nat)
             /\ w \o done \in Seq(Nat) /\ r \in Seq(Nat)
             /\ (w \o done) \o Readable(e) \o i \o r = Bytes(c)
  <2>1. /\ inputBuffer_[c] \in Ordered(Nat) /\ out \in Ordered(Nat)
        /\ w \in Seq(Nat) /\ r \in Seq(Nat)
    BY <1>2 DEF IInv
  <2>2. n \in 0 .. ReadableBytes(out)
    BY <2>1, ReadableProperties
  <2>3. /\ e \in Ordered(Nat) /\ done \in Seq(Nat) /\ Readable(e) \in Seq(Nat)
        /\ done \o Readable(e) = Readable(out)
    BY <2>1, <2>2, RetrieveTakes
  <2> DEFINE o == Readable(out)
             f == Readable(e)
  <2> HIDE DEF w, done, f, o, i, r
  <2>4. Cat(Cat(w, done), f) = Cat(w, Cat(done, f)) /\ Cat(w, done) \in Seq(Nat)
    BY <2>1, <2>3, CatAssociative DEF f
  <2>5. Cat(done, f) = o
    BY <2>3 DEF Cat, f, o
  <2> QED BY <2>1, <2>3, <2>4, <2>5 DEF Cat, f, o, w, i, r, Bytes
<1>3. /\ inputBuffer_' = [inputBuffer_ EXCEPT ![c] = inputBuffer_[c]]
      /\ outputBuffer_' = [outputBuffer_ EXCEPT ![c] = e]
      /\ wire' = [wire EXCEPT ![c] = w \o done]
      /\ received' = [received EXCEPT ![c] = r]
      /\ sent' = sent
  BY <1>1 DEF peerVars, IInv
<1> HIDE DEF e, done, w, i, r
<1> QED BY <1>2, <1>3, Step DEF i

\* readv takes the first bytes the kernel holds and leaves the others.
LEMMA TakenAndRest ==
  ASSUME IInv, NEW c \in Channel
  PROVE  Taken(c) \in Seq(Nat) /\ Rest(c) \in Seq(Nat) /\ Taken(c) \o Rest(c) = received[c]
<1> DEFINE r == received[c]
           m == ReadCapacity(inputBuffer_[c])
<1>1. r \in Seq(Nat) /\ inputBuffer_[c] \in Ordered(Nat)
  BY DEF IInv
<1>2. m \in Nat
  BY <1>1, ReadableProperties, BufferAssumption DEF ReadCapacity
<1>3. Rest(c) = SubSeq(r, m + 1, Len(r)) /\ Taken(c) = SubSeq(r, 1, Len(r) - Len(Rest(c)))
  BY DEF Rest, Taken
<1>4. Len(r) \in Nat
  BY <1>1, LenProperties
<1> HIDE DEF r, m
<1>5. CASE m \in 0 .. Len(r)
  <2>1. /\ Rest(c) \in Seq(Nat) /\ Len(Rest(c)) = Len(r) - m
        /\ SubSeq(r, 1, m) \in Seq(Nat) /\ SubSeq(r, 1, m) \o Rest(c) = r
    <3>1. /\ SubSeq(r, m + 1, Len(r)) \in Seq(Nat)
          /\ Len(SubSeq(r, m + 1, Len(r))) = Len(r) - m
          /\ SubSeq(r, 1, m) \in Seq(Nat)
          /\ SubSeq(r, 1, m) \o SubSeq(r, m + 1, Len(r)) = r
      BY <1>1, <1>5, Cut
    <3> QED BY <1>3, <3>1
  <2>2. Len(r) - Len(Rest(c)) = m
    BY <1>2, <1>4, <2>1
  <2> QED BY <1>3, <2>1, <2>2 DEF r
<1>6. CASE Len(r) < m
  <2>1. /\ SubSeq(r, Len(r) + 1, Len(r)) \in Seq(Nat)
        /\ Len(SubSeq(r, Len(r) + 1, Len(r))) = 0
        /\ SubSeq(r, 1, Len(r)) \in Seq(Nat)
        /\ SubSeq(r, 1, Len(r)) \o SubSeq(r, Len(r) + 1, Len(r)) = r
    <3>1. Len(r) \in 0 .. Len(r) /\ Len(r) - Len(r) = 0
      BY <1>4
    <3> QED BY <1>1, <3>1, Cut
  <2>2. Rest(c) = <<>>
    BY <1>2, <1>3, <1>4, <1>6, SubSeqEmpty
  <2>3. SubSeq(r, Len(r) + 1, Len(r)) = <<>>
    BY <2>1, EmptySeq
  <2>4. Len(r) - Len(Rest(c)) = Len(r)
    BY <1>4, <2>2
  <2> QED BY <1>3, <2>1, <2>2, <2>3, <2>4 DEF r
<1> QED BY <1>2, <1>4, <1>5, <1>6

\* sendInLoop writes the first n bytes and leaves the others to outputBuffer_.
LEMMA SendInLoopSteps ==
  ASSUME IInv, NEW c, NEW data, SendInLoop(c, data)
  PROVE  \E n \in IF ReadableBytes(outputBuffer_[c]) = 0 THEN 0 .. Len(data) ELSE {0} :
           /\ wire' = [wire EXCEPT ![c] = wire[c] \o SubSeq(data, 1, n)]
           /\ outputBuffer_' = [outputBuffer_ EXCEPT ![c] =
                                  AfterSend(outputBuffer_[c], data, n)]
<1>1. PICK n \in IF "write" \notin events_[c] /\ ReadableBytes(outputBuffer_[c]) = 0
                 THEN 0 .. Len(data) ELSE {0} :
        /\ wire' = [wire EXCEPT ![c] = @ \o SubSeq(data, 1, n)]
        /\ IF n = Len(data) THEN outputBuffer_' = outputBuffer_
           ELSE outputBuffer_' = [outputBuffer_ EXCEPT ![c] = AppendData(@, Remaining(data, n))]
  BY DEF SendInLoop
<1>2. n = 0 \/ (n \in 0 .. Len(data) /\ ReadableBytes(outputBuffer_[c]) = 0)
  BY <1>1
<1>3. outputBuffer_ = [outputBuffer_ EXCEPT ![c] = outputBuffer_[c]]
  BY DEF IInv
<1>4. \/ 0 \in 0 .. Len(data) /\ ReadableBytes(outputBuffer_[c]) = 0
      \/ ReadableBytes(outputBuffer_[c]) # 0
      \/ n # 0
  <2>1. CASE n = 0 /\ ReadableBytes(outputBuffer_[c]) = 0
    <3> QED BY <1>1, <2>1
  <2> QED BY <2>1
<1>5. n \in IF ReadableBytes(outputBuffer_[c]) = 0 THEN 0 .. Len(data) ELSE {0}
  BY <1>2, <1>4
<1>6. CASE n = Len(data)
  BY <1>1, <1>3, <1>5, <1>6 DEF AfterSend
<1>7. CASE n # Len(data)
  BY <1>1, <1>5, <1>7 DEF AfterSend
<1> QED BY <1>6, <1>7

\* handleRead: what the kernel held goes behind the readable bytes of inputBuffer_,
\* and the bytes in front of it to the output.
LEMMA HandleReadKeeps ==
  ASSUME IInv, NEW c, HandleRead(c)
  PROVE  IInv'
<1> DEFINE b == ReadFd(inputBuffer_[c], Taken(c))
           out == outputBuffer_[c]
           w == wire[c]
           i == Readable(inputBuffer_[c])
           o == Readable(out)
           r == received[c]
           taken == Taken(c)
           rest == Rest(c)
<1>1. PICK k \in 0 .. ReadableBytes(b) :
        /\ received' = [received EXCEPT ![c] = rest]
        /\ inputBuffer_' = [inputBuffer_ EXCEPT ![c] = Retrieve(b, k)]
        /\ SendInLoop(c, SubSeq(Readable(b), 1, k))
        /\ sent' = sent
  BY DEF HandleRead
<1> DEFINE data == SubSeq(Readable(b), 1, k)
           j == Retrieve(b, k)
<1>2. SendInLoop(c, data)
  BY <1>1
<1> HIDE DEF data
<1>3. PICK n \in IF ReadableBytes(out) = 0 THEN 0 .. Len(data) ELSE {0} :
        /\ wire' = [wire EXCEPT ![c] = w \o SubSeq(data, 1, n)]
        /\ outputBuffer_' = [outputBuffer_ EXCEPT ![c] =
                               AfterSend(out, data, n)]
  BY <1>2, SendInLoopSteps
<1> DEFINE done == SubSeq(data, 1, n)
           e == AfterSend(out, data, n)
<1>4. /\ inputBuffer_' = [inputBuffer_ EXCEPT ![c] = j]
      /\ outputBuffer_' = [outputBuffer_ EXCEPT ![c] = e]
      /\ wire' = [wire EXCEPT ![c] = w \o done]
      /\ received' = [received EXCEPT ![c] = rest]
      /\ sent' = sent
  BY <1>1, <1>3
<1>5. ASSUME c \in Channel
      PROVE  /\ j \in Ordered(Nat) /\ e \in Ordered(Nat)
             /\ w \o done \in Seq(Nat) /\ rest \in Seq(Nat)
             /\ (w \o done) \o Readable(e) \o Readable(j) \o rest = Bytes(c)
  <2>1. /\ inputBuffer_[c] \in Ordered(Nat) /\ out \in Ordered(Nat)
        /\ w \in Seq(Nat) /\ r \in Seq(Nat)
    BY <1>5 DEF IInv
  <2>11. i \in Seq(Nat) /\ o \in Seq(Nat)
    BY <2>1, ReadableProperties
  <2>2. /\ taken \in Seq(Nat) /\ rest \in Seq(Nat) /\ taken \o rest = r
    BY <1>5, TakenAndRest
  <2>3. b \in Ordered(Nat) /\ Readable(b) = i \o taken
    BY <2>1, <2>2, ReadFdAppends
  <2>4. k \in 0 .. ReadableBytes(b)
    BY <1>1
  <2> HIDE DEF b
  <2>5. /\ j \in Ordered(Nat) /\ data \in Seq(Nat) /\ Readable(j) \in Seq(Nat)
        /\ data \o Readable(j) = Readable(b)
    BY <2>3, <2>4, RetrieveTakes DEF data
  <2>6. n \in 0 .. Len(data) /\ (n = 0 \/ ReadableBytes(out) = 0)
    <3>1. Len(data) \in Nat
      BY <2>5, LenProperties
    <3> QED BY <1>3, <3>1
  <2> HIDE DEF w, out
  <2>7. /\ e \in Ordered(Nat) /\ w \o done \in Seq(Nat)
        /\ (w \o done) \o Readable(e) = (w \o o) \o data
    <3>1. w \in Seq(Nat) /\ out \in Ordered(Nat)
      BY <2>1
    <3>2. data \in Seq(Nat)
      BY <2>5
    <3> QED BY <2>6, <3>1, <3>2, SendKeeps
  <2> DEFINE u == Readable(j)
  <2> HIDE DEF o, i, r, taken, rest, u, e, done, j
  <2>8. Cat(data, u) = Cat(i, taken)
    BY <2>3, <2>5 DEF Cat, u
  <2>9. Cat(Cat(Cat(Cat(w, o), data), u), rest) = Cat(Cat(Cat(w, o), i), Cat(taken, rest))
    <3>1. Cat(w, o) \in Seq(Nat)
      BY <2>1, <2>11, CatAssociative
    <3>2. u \in Seq(Nat)
      BY <2>5 DEF u
    <3> QED BY <2>2, <2>5, <2>8, <2>11, <3>1, <3>2, Moved
  <2>10. (w \o done) \o Readable(e) \o u \o rest = w \o o \o i \o r
    BY <2>2, <2>7, <2>9 DEF Cat
  <2> QED BY <2>2, <2>5, <2>7, <2>10 DEF u, Bytes, w, o, i, r, out
<1> HIDE DEF e, done, w, i, r, j, rest
<1> QED BY <1>4, <1>5, Step

\* The peer's next byte goes behind what the kernel holds.
LEMMA PeerSendsKeeps ==
  ASSUME IInv, NEW c \in Channel, PeerSends(c)
  PROVE  IInv'
<1> DEFINE n == sent[c]
           r == received[c]
           s == wire[c] \o Readable(outputBuffer_[c]) \o Readable(inputBuffer_[c])
<1>1. /\ received' = [received EXCEPT ![c] = Append(r, n + 1)]
      /\ sent' = [sent EXCEPT ![c] = n + 1]
      /\ UNCHANGED <<inputBuffer_, outputBuffer_, wire>>
  BY DEF PeerSends, connVars
<1>2. n \in Nat /\ r \in Seq(Nat) /\ s \o r = [i \in 1 .. n |-> i] /\ s \in Seq(Nat)
  <2>1. /\ wire[c] \in Seq(Nat)
        /\ Readable(outputBuffer_[c]) \in Seq(Nat)
        /\ Readable(inputBuffer_[c]) \in Seq(Nat)
    BY ReadableProperties DEF IInv
  <2>2. s \in Seq(Nat)
    BY <2>1, CatAssociative DEF Cat
  <2> QED BY <2>2 DEF IInv, BytesPreserved
<1>3. s \o Append(r, n + 1) = [i \in 1 .. n + 1 |-> i]
  <2> HIDE DEF n, r, s
  <2> DEFINE b == <<n + 1>>
  <2>1. b \in Seq(Nat)
    BY <1>2
  <2>2. Append(r, n + 1) = r \o b
    BY <1>2, AppendIsConcat
  <2>3. s \o (r \o b) = (s \o r) \o b
    <3> HIDE DEF b
    <3>1. s \in Seq(Nat) /\ r \in Seq(Nat)
      BY <1>2
    <3>2. Cat(Cat(s, r), b) = Cat(s, Cat(r, b))
      BY <2>1, <3>1, CatAssociative
    <3> QED BY <3>2 DEF Cat
  <2> DEFINE t == [i \in 1 .. n |-> i]
  <2>4. t \in Seq(Nat)
    BY <1>2, SeqDef
  <2>5. t \o b = Append(t, n + 1)
    <3> HIDE DEF t
    <3> QED BY <1>2, <2>4, AppendIsConcat
  <2>6. Append(t, n + 1) = [i \in 1 .. n + 1 |-> i]
    BY <1>2
  <2> QED BY <1>2, <2>2, <2>3, <2>5, <2>6
<1>4. received' \in [Channel -> Seq(Nat)] /\ sent' \in [Channel -> Nat]
  <2>1. Append(r, n + 1) \in Seq(Nat)
    BY <1>2
  <2> HIDE DEF r, n
  <2> QED BY <1>1, <1>2, <2>1 DEF IInv
<1>5. BytesPreserved'
  <2>1. ASSUME NEW d \in Channel
        PROVE  (wire[d] \o Readable(outputBuffer_[d]) \o Readable(inputBuffer_[d]) \o received[d]
                  = [i \in 1 .. sent[d] |-> i])'
    <3>1. CASE d = c
      <4>1. received'[c] = Append(r, n + 1) /\ sent'[c] = n + 1
        BY <1>1 DEF IInv
      <4> QED BY <1>1, <1>3, <3>1, <4>1
    <3>2. CASE d # c
      BY <1>1, <3>2 DEF IInv, BytesPreserved
    <3> QED BY <3>1, <3>2
  <2> QED BY <2>1 DEF BytesPreserved
<1> QED BY <1>1, <1>4, <1>5 DEF IInv

\* The invariant holds of the empty buffers.
LEMMA InitIInv == Init => IInv
<1> SUFFICES ASSUME Init
             PROVE  IInv
  OBVIOUS
<1>1. NewBuffer \in Ordered(Nat) /\ Readable(NewBuffer) = <<>>
  BY NewBufferOrdered
<1> HIDE DEF NewBuffer
<1>2. BytesPreserved
  BY <1>1, EmptySeq DEF Init, BytesPreserved
<1> QED BY <1>1, <1>2 DEF Init, IInv

\* Every step of the loop and of the peers keeps it.
LEMMA NextIInv == IInv /\ [Next]_vars => IInv'
<1> SUFFICES ASSUME IInv, [Next]_vars
             PROVE  IInv'
  OBVIOUS
<1>1. CASE Poll
  BY <1>1, Idle DEF Poll, connVars, peerVars
<1>2. CASE HandleEvent
  <2> DEFINE c == Head(active).channel
  <2>1. \/ HandleRead(c)
        \/ HandleClose(c)
        \/ HandleWrite(c)
        \/ UNCHANGED <<connVars, peerVars, wire>>
    BY <1>2 DEF HandleEvent
  <2>2. HandleClose(c) => IInv'
    BY Idle DEF HandleClose, peerVars
  <2>3. UNCHANGED <<connVars, peerVars, wire>> => IInv'
    BY Idle DEF connVars, peerVars
  <2> QED BY <2>1, <2>2, <2>3, HandleReadKeeps, HandleWriteKeeps
<1>3. CASE RunFunctor
  BY <1>3, Idle DEF RunFunctor, connVars, peerVars
<1>4. ASSUME NEW c \in Channel, NEW fd \in Fds, Accept(c, fd)
      PROVE  IInv'
  BY <1>4, Idle DEF Accept, peerVars
<1>5. ASSUME NEW c \in Channel, PeerSends(c)
      PROVE  IInv'
  BY <1>5, PeerSendsKeeps
<1>6. ASSUME NEW c \in Channel, PeerCloses(c)
      PROVE  IInv'
  BY <1>6, Idle DEF PeerCloses, connVars
<1>7. CASE UNCHANGED vars
  BY <1>7, Idle DEF vars, connVars, peerVars
<1> QED BY <1>1, <1>2, <1>3, <1>4, <1>5, <1>6, <1>7 DEF Next, LoopNext

\* The echo server writes back what it was sent: no byte is lost, doubled or
\* overtaken where inputBuffer_ and outputBuffer_ are moved or grow, where readv
\* uses extrabuf, or where a direct write takes only part of the data.
THEOREM EchoPreservesBytes == Spec => []BytesPreserved
<1>1. IInv => BytesPreserved
  BY DEF IInv
<1> QED BY <1>1, InitIInv, NextIInv, PTL DEF Spec

-----------------------------------------------------------------------------
(* The poller: the inductive invariant *)

Events == {"read", "write"}
PollfdType == [fd : Int, events : SUBSET Events]

\* The poller's array p and the indices st of the channels in L, whose descriptors are f,
\* say the same.
Indexed(p, st, f, L) ==
  /\ \A c \in L : st[c] \in 0 .. Len(p) - 1 /\ RealFd(p[st[c] + 1].fd) = f[c]
  /\ \A k \in 1 .. Len(p) : \E c \in L : st[c] = k - 1
  /\ \A c, d \in L : st[c] = st[d] \/ f[c] = f[d] => c = d

\* So does its map; a channel that has not been made has no index.
PollerInv ==
  /\ pollfds_ \in Seq(PollfdType)
  /\ status_ \in [Channel -> Int]
  /\ fd_ \in [Channel -> Fds \cup {None, -1}]
  /\ events_ \in [Channel -> SUBSET Events]
  /\ \A e : e \in channels_ <=> \E c \in Live : e = <<fd_[c], c>>
  /\ Indexed(pollfds_, status_, fd_, Live)
  /\ \A c \in Channel : fd_[c] = None => status_[c] = -1

\* What the loop has to do is for different channels, whose connections are open; an
\* end of stream that is to be read is not one that was.
LoopInv ==
  /\ active \in Seq([channel : Live, revents : SUBSET Events])
  /\ tasks \in Seq(Live)
  /\ \A i, j \in DOMAIN active : active[i].channel = active[j].channel => i = j
  /\ \A i, j \in DOMAIN tasks : tasks[i] = tasks[j] => i = j
  /\ \A i \in DOMAIN active : "read" \in active[i].revents =>
       \A j \in DOMAIN tasks : tasks[j] # active[i].channel

\* A descriptor that is open is a number, and one of those there are.
LEMMA LiveMeans ==
  ASSUME PollerInv
  PROVE  \A c : c \in Live <=> c \in Channel /\ fd_[c] \in Fds
<1>1. \A c \in Channel : fd_[c] \in Fds \/ fd_[c] = None \/ fd_[c] = -1
  BY DEF PollerInv
<1>2. Fds \subseteq Nat /\ None \notin Nat /\ -1 \notin Nat
  BY FdsAssumption
<1> QED BY <1>1, <1>2 DEF Live

\* Whatever its events are, a pollfd stands for its channel's descriptor.
LEMMA StoredFdIsReal ==
  ASSUME NEW fd \in Nat, NEW e \in SUBSET Events, NEW r, r = Pollfd(StoredFd(fd, e), e)
  PROVE  r \in PollfdType /\ RealFd(r.fd) = fd /\ (r.fd < 0 => r.events = {})
<1>1. CASE e = {}
  BY <1>1 DEF Pollfd, StoredFd, Ignored, RealFd, PollfdType
<1>2. CASE e # {}
  BY <1>2 DEF Pollfd, StoredFd, Ignored, RealFd, PollfdType
<1> QED BY <1>1, <1>2

\* A sequence in which the element i is replaced
LEMMA Replaced ==
  ASSUME NEW S, NEW s \in Seq(S), NEW i \in 1 .. Len(s), NEW e \in S,
         NEW q, q = [s EXCEPT ![i] = e]
  PROVE  /\ q \in Seq(S) /\ Len(q) = Len(s) /\ q[i] = e
         /\ \A j \in 1 .. Len(s) : j # i => q[j] = s[j]
<1>1. Len(s) \in Nat /\ s \in [1 .. Len(s) -> S]
  BY LenProperties
<1>2. q \in [1 .. Len(s) -> S]
  BY <1>1
<1>3. q \in Seq(S) /\ Len(q) = Len(s)
  BY <1>1, <1>2
<1> QED BY <1>1, <1>3

\* Channel::update: the channel's pollfd is replaced.
LEMMA SetEventsKeeps ==
  ASSUME PollerInv, NEW c \in Live, NEW e \in SUBSET Events, SetEvents(c, e)
  PROVE  PollerInv' /\ Live' = Live
<1> DEFINE p == pollfds_
           i == status_[c] + 1
           r == Pollfd(StoredFd(fd_[c], e), e)
<1>1. c \in Channel /\ fd_[c] \in Nat /\ p \in Seq(PollfdType) /\ Len(p) \in Nat
  BY LenProperties DEF Live, PollerInv
<1>2. status_[c] \in 0 .. Len(p) - 1
  BY DEF PollerInv, Indexed
<1>3. i \in 1 .. Len(p) /\ ~(status_[c] < 0)
  BY <1>1, <1>2
<1>4. /\ events_' = [events_ EXCEPT ![c] = e] /\ UNCHANGED <<fd_, status_, channels_>>
      /\ pollfds_' = [p EXCEPT ![i] = r]
  BY <1>3 DEF SetEvents, UpdateChannel
<1>5. Live' = Live
  BY <1>4 DEF Live
<1>6. r \in PollfdType /\ RealFd(r.fd) = fd_[c]
  BY <1>1, StoredFdIsReal
<1> HIDE DEF r
<1>7. /\ pollfds_' \in Seq(PollfdType) /\ Len(pollfds_') = Len(p) /\ pollfds_'[i] = r
      /\ \A j \in 1 .. Len(p) : j # i => pollfds_'[j] = p[j]
  BY <1>1, <1>3, <1>4, <1>6, Replaced
<1>8. Indexed(pollfds_', status_, fd_, Live)
  <2>1. /\ \A d \in Live : status_[d] \in 0 .. Len(p) - 1 /\ RealFd(p[status_[d] + 1].fd) = fd_[d]
        /\ \A k \in 1 .. Len(p) : \E d \in Live : status_[d] = k - 1
        /\ \A d, f \in Live : status_[d] = status_[f] \/ fd_[d] = fd_[f] => d = f
    BY DEF PollerInv, Indexed
  <2>2. ASSUME NEW d \in Live
        PROVE  RealFd(pollfds_'[status_[d] + 1].fd) = fd_[d]
    <3>1. CASE d = c
      BY <1>6, <1>7, <3>1
    <3>2. CASE d # c
      <4>1. status_[d] # status_[c] /\ status_[d] \in 0 .. Len(p) - 1
        BY <2>1, <3>2
      <4>2. status_[d] + 1 \in 1 .. Len(p) /\ status_[d] + 1 # i
        BY <1>1, <1>2, <4>1
      <4> QED BY <1>7, <2>1, <4>2
    <3> QED BY <3>1, <3>2
  <2> QED BY <1>7, <2>1, <2>2 DEF Indexed
<1>9. events_' \in [Channel -> SUBSET Events]
  BY <1>4 DEF PollerInv
<1> QED BY <1>4, <1>5, <1>7, <1>8, <1>9 DEF PollerInv, Indexed

LEMMA SameEventsKeeps ==
  ASSUME PollerInv, SameEvents
  PROVE  PollerInv' /\ Live' = Live
BY DEF PollerInv, SameEvents, pollerVars, Live, Indexed

\* A channel that is new has the last pollfd.
LEMMA AcceptMatches ==
  ASSUME PollerInv, NEW c \in Channel, NEW fd \in Fds, Accept(c, fd)
  PROVE  PollerInv' /\ Live' = Live \cup {c}
<1> DEFINE p == pollfds_
           r == Pollfd(fd, {"read"})
           n == Len(p)
<1>1. /\ fd_[c] = None /\ fd \notin InUse /\ fd_' = [fd_ EXCEPT ![c] = fd]
      /\ events_' = [events_ EXCEPT ![c] = {"read"}] /\ UpdateChannel(c, fd, {"read"})
  BY DEF Accept
<1>2. status_[c] = -1 /\ p \in Seq(PollfdType) /\ n \in Nat /\ fd \in Nat
  BY <1>1, LenProperties, FdsAssumption DEF PollerInv
<1>3. /\ pollfds_' = Append(p, r) /\ status_' = [status_ EXCEPT ![c] = n]
      /\ channels_' = {e \in channels_ : e[1] # fd} \cup {<<fd, c>>}
  BY <1>1, <1>2 DEF UpdateChannel
<1>4. c \notin Live /\ \A d \in Live : d \in Channel /\ fd_[d] # fd
  BY <1>1, FdsAssumption DEF InUse, Live
<1>5. Live' = Live \cup {c} /\ fd_'[c] = fd /\ \A d \in Channel : d # c => fd_'[d] = fd_[d]
  BY <1>1, <1>2, <1>4 DEF Live, PollerInv
<1>6. r \in PollfdType /\ RealFd(r.fd) = fd
  BY <1>2 DEF Pollfd, PollfdType, RealFd, Events
<1> HIDE DEF r
<1>7. /\ pollfds_' \in Seq(PollfdType) /\ Len(pollfds_') = n + 1 /\ pollfds_'[n + 1] = r
      /\ \A k \in 1 .. n : pollfds_'[k] = p[k]
  BY <1>2, <1>3, <1>6, AppendProperties
<1>8. /\ status_' \in [Channel -> Int] /\ status_'[c] = n
      /\ \A d \in Channel : d # c => status_'[d] = status_[d]
  BY <1>2, <1>3 DEF PollerInv
<1>9. /\ fd_' \in [Channel -> Fds \cup {None, -1}]
      /\ events_' \in [Channel -> SUBSET Events]
  BY <1>1 DEF PollerInv, Events
<1>10. \A e : e \in channels_' <=> \E d \in Live' : e = <<fd_'[d], d>>
  <2>1. \A e \in channels_ : e[1] # fd
    BY <1>4 DEF PollerInv
  <2>2. channels_' = channels_ \cup {<<fd, c>>}
    BY <1>3, <2>1
  <2> QED BY <1>4, <1>5, <2>2 DEF PollerInv
<1>11. Indexed(pollfds_', status_', fd_', Live')
  <2>1. /\ \A d \in Live : status_[d] \in 0 .. n - 1 /\ RealFd(p[status_[d] + 1].fd) = fd_[d]
        /\ \A k \in 1 .. n : \E d \in Live : status_[d] = k - 1
        /\ \A d, f \in Live : status_[d] = status_[f] \/ fd_[d] = fd_[f] => d = f
    BY DEF PollerInv, Indexed
  <2>2. \A d \in Live : status_'[d] = status_[d] /\ fd_'[d] = fd_[d]
    BY <1>4, <1>5, <1>8
  <2>3. \A d \in Live' : status_'[d] \in 0 .. Len(pollfds_') - 1
                         /\ RealFd(pollfds_'[status_'[d] + 1].fd) = fd_'[d]
    <3>1. ASSUME NEW d \in Live
          PROVE  status_'[d] \in 0 .. Len(pollfds_') - 1
                 /\ RealFd(pollfds_'[status_'[d] + 1].fd) = fd_'[d]
      <4>1. status_[d] \in 0 .. n - 1
        BY <2>1
      <4>2. status_[d] + 1 \in 1 .. n /\ status_[d] \in 0 .. n + 1 - 1
        BY <1>2, <4>1
      <4> QED BY <1>7, <2>1, <2>2, <4>2
    <3>2. /\ status_'[c] \in 0 .. Len(pollfds_') - 1
          /\ RealFd(pollfds_'[status_'[c] + 1].fd) = fd_'[c]
      BY <1>2, <1>5, <1>6, <1>7, <1>8
    <3> QED BY <1>5, <3>1, <3>2
  <2>4. \A k \in 1 .. Len(pollfds_') : \E d \in Live' : status_'[d] = k - 1
    <3> SUFFICES ASSUME NEW k \in 1 .. n + 1
                 PROVE  \E d \in Live' : status_'[d] = k - 1
      BY <1>7
    <3>1. CASE k = n + 1
      BY <1>2, <1>5, <1>8, <3>1
    <3>2. CASE k # n + 1
      <4>1. k \in 1 .. n
        BY <1>2, <3>2
      <4> QED BY <1>5, <2>1, <2>2, <4>1
    <3> QED BY <3>1, <3>2
  <2>5. \A d, f \in Live' : status_'[d] = status_'[f] \/ fd_'[d] = fd_'[f] => d = f
    <3>1. \A d \in Live : status_'[d] # status_'[c] /\ fd_'[d] # fd_'[c]
      <4> TAKE d \in Live
      <4>1. status_[d] \in 0 .. n - 1
        BY <2>1
      <4>2. status_[d] # n
        BY <1>2, <4>1
      <4> QED BY <1>4, <1>5, <1>8, <2>2, <4>2
    <3> QED BY <1>5, <2>1, <2>2, <3>1
  <2> QED BY <2>3, <2>4, <2>5 DEF Indexed
<1>12. \A d \in Channel : fd_'[d] = None => status_'[d] = -1
  BY <1>1, <1>2, <1>5, <1>8, FdsAssumption DEF PollerInv
<1> QED BY <1>5, <1>7, <1>8, <1>9, <1>10, <1>11, <1>12 DEF PollerInv


\* The sequence without its last element
LEMMA Front ==
  ASSUME NEW S, NEW s \in Seq(S), NEW n \in Nat, n + 1 = Len(s), NEW q, q = SubSeq(s, 1, n)
  PROVE  q \in Seq(S) /\ Len(q) = n /\ \A j \in 1 .. n : q[j] = s[j]
<1>1. /\ SubSeq(s, 0 + 1, 0 + n) \in Seq(S) /\ Len(SubSeq(s, 0 + 1, 0 + n)) = n
      /\ \A j \in 1 .. n : SubSeq(s, 0 + 1, 0 + n)[j] = s[0 + j]
  BY SubSeqAt
<1>2. 0 + 1 = 1 /\ 0 + n = n /\ \A j \in 1 .. n : 0 + j = j
  OBVIOUS
<1> QED BY <1>1, <1>2

\* The last pollfd takes the place of the one removed, and its channel learns of it.
LEMMA RemoveMatches ==
  ASSUME PollerInv, NEW c \in Live, RemoveChannel(c), fd_' = [fd_ EXCEPT ![c] = -1],
         UNCHANGED events_
  PROVE  PollerInv' /\ Live' = Live \ {c}
<1> DEFINE p == pollfds_
           n == Len(p)
           i == status_[c] + 1
           q == [p EXCEPT ![i] = p[n]]
<1>1. /\ p \in Seq(PollfdType) /\ n \in Nat /\ c \in Channel /\ fd_[c] \in Nat
      /\ \A e : e \in channels_ <=> \E d \in Live : e = <<fd_[d], d>>
      /\ \A d \in Live : d \in Channel
  BY LenProperties DEF PollerInv, Live
<1>2. /\ \A d \in Live : status_[d] \in 0 .. n - 1 /\ RealFd(p[status_[d] + 1].fd) = fd_[d]
      /\ \A k \in 1 .. n : \E d \in Live : status_[d] = k - 1
      /\ \A d, f \in Live : status_[d] = status_[f] \/ fd_[d] = fd_[f] => d = f
  BY DEF PollerInv, Indexed
<1>3. i \in 1 .. n /\ n \in 1 .. n /\ status_[c] \in 0 .. n - 1
  BY <1>1, <1>2
<1>4. p[n] \in PollfdType
  BY <1>1, <1>3, ElementOfSeq
<1>5. /\ q \in Seq(PollfdType) /\ Len(q) = n /\ q[i] = p[n]
      /\ \A j \in 1 .. n : j # i => q[j] = p[j]
  BY <1>1, <1>3, <1>4, Replaced
<1>6. /\ channels_' = {e \in channels_ : e[1] # fd_[c]}
      /\ pollfds_' = SubSeq(q, 1, n - 1)
      /\ status_' = IF i = n THEN status_
                    ELSE [status_ EXCEPT ![ChannelOf(RealFd(p[n].fd))] = i - 1]
  BY DEF RemoveChannel
<1> HIDE DEF q
<1>7. /\ pollfds_' \in Seq(PollfdType) /\ Len(pollfds_') = n - 1
      /\ \A j \in 1 .. n - 1 : pollfds_'[j] = q[j]
  <2>1. n - 1 \in Nat /\ (n - 1) + 1 = Len(q)
    BY <1>1, <1>3, <1>5
  <2> QED BY <1>5, <1>6, <2>1, Front
<1>8. /\ fd_'[c] = -1 /\ \A d \in Channel : d # c => fd_'[d] = fd_[d]
      /\ fd_' \in [Channel -> Fds \cup {None, -1}]
  BY <1>1 DEF PollerInv
<1>9. Live' = Live \ {c} /\ \A d \in Live' : d \in Live /\ d # c /\ fd_'[d] = fd_[d]
  BY <1>1, <1>8 DEF Live
\* The channel whose pollfd is the last
<1>10. PICK z \in Live : status_[z] = n - 1
  BY <1>2, <1>3
<1>11. RealFd(p[n].fd) = fd_[z]
  BY <1>1, <1>2, <1>10
<1>12. ChannelOf(RealFd(p[n].fd)) = z
  <2>1. \A d \in Channel : <<fd_[z], d>> \in channels_ <=> d = z
    BY <1>1, <1>2, <1>10
  <2> QED BY <1>1, <1>10, <1>11, <2>1 DEF ChannelOf
<1>13. i = n <=> z = c
  BY <1>1, <1>2, <1>3, <1>10
<1>14. /\ status_' \in [Channel -> Int]
       /\ \A d \in Channel : d # z => status_'[d] = status_[d]
       /\ z # c => status_'[z] = i - 1
  <2>1. status_ \in [Channel -> Int] /\ i - 1 \in Int /\ z \in Channel
    BY <1>1, <1>3, <1>10 DEF PollerInv
  <2> HIDE DEF i
  <2> QED BY <1>6, <1>12, <1>13, <2>1
<1>15. \A e : e \in channels_' <=> \E d \in Live' : e = <<fd_'[d], d>>
  <2>1. \A d \in Live : d # c <=> fd_[d] # fd_[c]
    BY <1>2
  <2>2. \A e : e \in channels_' <=> e \in channels_ /\ e[1] # fd_[c]
    BY <1>6
  <2>3. \A d \in Live : \A e : e = <<fd_[d], d>> => e[1] = fd_[d]
    OBVIOUS
  <2>4. \A e : e \in channels_' => \E d \in Live' : e = <<fd_'[d], d>>
    <3> SUFFICES ASSUME NEW e \in channels_'
                 PROVE  \E d \in Live' : e = <<fd_'[d], d>>
      OBVIOUS
    <3>1. PICK d \in Live : e = <<fd_[d], d>>
      BY <1>1, <2>2
    <3>2. d # c
      BY <2>1, <2>2, <2>3, <3>1
    <3> QED BY <1>9, <3>1, <3>2
  <2>5. \A d \in Live' : <<fd_'[d], d>> \in channels_'
    <3> TAKE d \in Live'
    <3>1. d \in Live /\ d # c /\ fd_'[d] = fd_[d]
      BY <1>9
    <3>2. <<fd_[d], d>> \in channels_ /\ <<fd_[d], d>>[1] # fd_[c]
      BY <1>1, <2>1, <3>1
    <3> QED BY <2>2, <3>1, <3>2
  <2> QED BY <2>4, <2>5
<1>16. \A d \in Live' : /\ status_'[d] \in 0 .. (n - 1) - 1
                        /\ RealFd(pollfds_'[status_'[d] + 1].fd) = fd_[d]
                        /\ d # z => status_'[d] = status_[d] /\ status_[d] # n - 1
                        /\ d = z => status_'[d] = i - 1
  <2> TAKE d \in Live'
  <2>1. d \in Live /\ d \in Channel /\ d # c /\ status_[d] \in 0 .. n - 1 /\ status_[d] # status_[c]
    BY <1>1, <1>2, <1>9
  <2>2. CASE d = z
    <3>1. status_'[d] = i - 1 /\ i - 1 = status_[c] /\ i \in 1 .. n - 1
      BY <1>1, <1>3, <1>13, <1>14, <2>1, <2>2
    <3>2. pollfds_'[i] = p[n]
      BY <1>5, <1>7, <3>1
    <3>3. i - 1 \in 0 .. (n - 1) - 1 /\ (i - 1) + 1 = i
      BY <1>1, <1>3, <3>1
    <3> HIDE DEF i
    <3> QED BY <1>11, <2>2, <3>1, <3>2, <3>3
  <2>3. CASE d # z
    <3>1. status_'[d] = status_[d] /\ status_[d] # n - 1
      BY <1>2, <1>10, <1>14, <2>1, <2>3
    <3>2. status_[d] \in 0 .. (n - 1) - 1 /\ status_[d] + 1 \in 1 .. n - 1 /\ status_[d] + 1 # i
      BY <1>1, <1>3, <2>1, <3>1
    <3>3. pollfds_'[status_[d] + 1] = p[status_[d] + 1]
      <4> DEFINE x == status_[d] + 1
      <4>1. x \in 1 .. n - 1 /\ x \in 1 .. n /\ x # i
        BY <1>1, <2>1, <3>2
      <4> HIDE DEF x, i, n
      <4>2. pollfds_'[x] = q[x] /\ q[x] = p[x]
        BY <1>5, <1>7, <4>1
      <4> QED BY <4>2 DEF x
    <3> QED BY <1>2, <2>1, <2>3, <3>1, <3>2, <3>3
  <2> QED BY <2>2, <2>3
<1>17. \A k \in 1 .. n - 1 : \E d \in Live' : status_'[d] = k - 1
  <2> SUFFICES ASSUME NEW k \in 1 .. n - 1
               PROVE  \E d \in Live' : status_'[d] = k - 1
    OBVIOUS
  <2>1. CASE k = i
    <3>1. z # c /\ z \in Live'
      BY <1>1, <1>9, <1>10, <1>13, <2>1
    <3> QED BY <1>14, <2>1, <3>1
  <2>2. CASE k # i
    <3>1. k \in 1 .. n /\ k - 1 # n - 1 /\ k - 1 # status_[c]
      BY <1>1, <1>3, <2>2
    <3>2. PICK d \in Live : status_[d] = k - 1
      BY <1>2, <3>1
    <3>3. d # c /\ d # z /\ d \in Live'
      BY <1>9, <1>10, <3>1, <3>2
    <3> QED BY <1>16, <3>2, <3>3
  <2> QED BY <2>1, <2>2
<1>18. \A d, f \in Live' : status_'[d] = status_'[f] \/ fd_'[d] = fd_'[f] => d = f
  <2>1. \A d \in Live' : d # z => status_'[d] = status_[d] /\ status_[d] # status_[c]
    BY <1>2, <1>9, <1>16
  <2>2. i - 1 = status_[c]
    BY <1>3
  <2>3. \A d \in Live' : d = z => status_'[d] = status_[c]
    BY <1>16, <2>2
  <2> QED BY <1>2, <1>9, <2>1, <2>3
<1>19. Indexed(pollfds_', status_', fd_', Live')
  BY <1>7, <1>9, <1>16, <1>17, <1>18 DEF Indexed
<1>20. \A d \in Channel : fd_'[d] = None => status_'[d] = -1
  <2> SUFFICES ASSUME NEW d \in Channel, fd_'[d] = None
               PROVE  status_'[d] = -1
    OBVIOUS
  <2>1. None \notin Int /\ Fds \subseteq Nat
    BY FdsAssumption
  <2>2. d # c /\ fd_[d] = None
    BY <1>8, <2>1
  <2>3. d # z
    BY <1>10, <2>1, <2>2 DEF Live
  <2> QED BY <1>14, <2>2, <2>3 DEF PollerInv
<1>21. events_' \in [Channel -> SUBSET Events]
  BY DEF PollerInv
<1> QED BY <1>7, <1>8, <1>9, <1>14, <1>15, <1>19, <1>20, <1>21 DEF PollerInv


-----------------------------------------------------------------------------
(* The loop *)

Activity(L) == [channel : L, revents : SUBSET Events]

\* The channels poll(2) has events for are those of the map, each once.
LEMMA PollFills ==
  ASSUME PollerInv, active' \in FillActiveChannels(Polled)
  PROVE  /\ active' \in Seq(Activity(Live))
         /\ \A i, j \in DOMAIN active' : active'[i].channel = active'[j].channel => i = j
<1> DEFINE p == pollfds_
           K == {k \in DOMAIN Polled : Polled[k].revents # {}}
<1>1. PICK hits \in InOrder(K) :
        active' = [i \in DOMAIN hits |-> [channel |-> ChannelOf(Polled[hits[i]].fd),
                                          revents |-> Polled[hits[i]].revents]]
  BY DEF FillActiveChannels
<1>2. p \in Seq(PollfdType) /\ Len(p) \in Nat /\ DOMAIN p = 1 .. Len(p)
  BY LenProperties DEF PollerInv
<1>3. K \subseteq 1 .. Len(p)
  BY <1>2 DEF Polled
<1>4. Cardinality(K) \in Nat
  <2>1. 1 \in Int /\ Len(p) \in Int
    BY <1>2
  <2>2. IsFiniteSet(1 .. Len(p))
    BY <2>1, FS_Interval
  <2> HIDE DEF K, p
  <2>3. IsFiniteSet(K)
    BY <1>3, <2>2, FS_Subset
  <2> QED BY <2>3, FS_CardinalityType
<1>5. /\ hits \in [1 .. Cardinality(K) -> K]
      /\ \A i, j \in DOMAIN hits : i < j => hits[i] < hits[j]
  BY <1>1 DEF InOrder
\* Each belongs to the channel that knows its index.
<1>6. ASSUME NEW k \in K
      PROVE  /\ Polled[k].revents \in SUBSET Events
             /\ ChannelOf(Polled[k].fd) \in Live /\ status_[ChannelOf(Polled[k].fd)] = k - 1
  <2>1. k \in DOMAIN p /\ k \in 1 .. Len(p) /\ p[k] \in PollfdType
    BY <1>2, <1>3, ElementOfSeq
  <2>2. Polled[k] = [fd |-> p[k].fd, revents |-> IF p[k].fd < 0 THEN {}
                                                 ELSE Revents(p[k].fd, p[k].events)]
    BY <2>1 DEF Polled
  <2>3. /\ p[k].fd \in Int /\ ~(p[k].fd < 0) /\ Polled[k].fd = p[k].fd
        /\ Polled[k].revents = Revents(p[k].fd, p[k].events) /\ p[k].events \in SUBSET Events
    BY <2>1, <2>2 DEF PollfdType
  <2>4. Polled[k].revents \in SUBSET Events
    BY <2>3 DEF Revents
  <2>5. PICK d \in Live : status_[d] = k - 1
    BY <2>1 DEF PollerInv, Indexed
  <2>6. status_[d] + 1 = k
    BY <2>1, <2>5
  <2>7. fd_[d] = p[k].fd
    BY <2>3, <2>6 DEF PollerInv, Indexed, RealFd
  <2>8. ChannelOf(p[k].fd) = d
    <3>1. \A e \in Channel : <<fd_[d], e>> \in channels_ <=> e = d
      BY LiveMeans DEF PollerInv, Indexed
    <3> QED BY <2>7, <3>1, LiveMeans DEF ChannelOf
  <2> QED BY <2>3, <2>4, <2>5, <2>8
<1> HIDE DEF K
<1>7. DOMAIN active' = 1 .. Cardinality(K)
  BY <1>1, <1>5
<1>8. \A i \in 1 .. Cardinality(K) :
        /\ hits[i] \in K /\ active'[i] \in Activity(Live)
        /\ active'[i].channel = ChannelOf(Polled[hits[i]].fd)
  BY <1>1, <1>5, <1>6 DEF Activity
<1>9. active' \in Seq(Activity(Live))
  <2>1. active' \in [1 .. Cardinality(K) -> Activity(Live)]
    BY <1>1, <1>5, <1>8
  <2> QED BY <1>4, <2>1
<1>10. \A i, j \in 1 .. Cardinality(K) : active'[i].channel = active'[j].channel => i = j
  <2> SUFFICES ASSUME NEW i \in 1 .. Cardinality(K), NEW j \in 1 .. Cardinality(K),
                      active'[i].channel = active'[j].channel
               PROVE  i = j
    OBVIOUS
  <2>1. hits[i] - 1 = hits[j] - 1 /\ hits[i] \in 1 .. Len(p) /\ hits[j] \in 1 .. Len(p)
    BY <1>3, <1>6, <1>8
  <2>2. hits[i] = hits[j]
    BY <1>2, <2>1
  <2>3. ~(hits[i] < hits[j]) /\ ~(hits[j] < hits[i])
    BY <1>2, <2>1, <2>2
  <2>4. ~(i < j) /\ ~(j < i) /\ i \in Nat /\ j \in Nat
    BY <1>4, <1>5, <2>3
  <2> QED BY <2>4
<1> QED BY <1>7, <1>9, <1>10

\* What is left to do once an event of the first channel is handled: its write event,
\* perhaps, and those of the others
LEMMA HandledLeaves ==
  ASSUME NEW L, NEW s \in Seq(Activity(L)), s # <<>>,
         \A i, j \in DOMAIN s : s[i].channel = s[j].channel => i = j,
         NEW t, \/ t = Tail(s)
                \/ t = <<[channel |-> Head(s).channel, revents |-> {"write"}]>> \o Tail(s)
  PROVE  /\ t \in Seq(Activity(L))
         /\ \A i, j \in DOMAIN t : t[i].channel = t[j].channel => i = j
         /\ \A i \in DOMAIN t : "read" \in t[i].revents =>
              /\ t[i].channel # Head(s).channel
              /\ \E j \in DOMAIN s : s[j] = t[i]
<1> DEFINE n == Len(s)
<1>1. /\ n \in Nat /\ n >= 1 /\ DOMAIN s = 1 .. n /\ s[1] = Head(s) /\ Head(s) \in Activity(L)
      /\ Tail(s) \in Seq(Activity(L)) /\ Len(Tail(s)) = n - 1
      /\ \A i \in 1 .. n - 1 : Tail(s)[i] = s[i + 1]
  BY LenProperties, HeadTailProperties, EmptySeq
<1>2. CASE t = Tail(s)
  <2>1. /\ t \in Seq(Activity(L)) /\ DOMAIN t = 1 .. n - 1
        /\ \A i \in 1 .. n - 1 : t[i] = s[i + 1] /\ i + 1 \in DOMAIN s /\ i + 1 # 1
    BY <1>1, <1>2, LenProperties
  <2>2. 1 \in DOMAIN s
    BY <1>1
  <2> HIDE DEF n
  <2>3. \A i \in DOMAIN t : t[i].channel # s[1].channel
    BY <2>1, <2>2
  <2>4. \A i, j \in DOMAIN t : t[i].channel = t[j].channel => i = j
    <3> SUFFICES ASSUME NEW i \in DOMAIN t, NEW j \in DOMAIN t, t[i].channel = t[j].channel
                 PROVE  i = j
      OBVIOUS
    <3>1. i + 1 = j + 1
      BY <2>1
    <3> QED BY <1>1, <2>1, <3>1
  <2>5. \A i \in DOMAIN t : \E j \in DOMAIN s : s[j] = t[i]
    BY <2>1
  <2> QED BY <1>1, <2>1, <2>3, <2>4, <2>5
<1>3. CASE t = <<[channel |-> Head(s).channel, revents |-> {"write"}]>> \o Tail(s)
  <2> DEFINE e == [channel |-> Head(s).channel, revents |-> {"write"}]
             a == <<e>>
  <2>1. e \in Activity(L) /\ e.channel = Head(s).channel /\ "read" \notin e.revents
    BY <1>1 DEF Activity, Events
  <2>2. a \in Seq(Activity(L)) /\ Len(a) = 1 /\ a[1] = e
    BY <2>1
  <2>3. t = a \o Tail(s)
    BY <1>3
  <2> HIDE DEF e, a
  <2>4. /\ t \in Seq(Activity(L)) /\ Len(t) = 1 + (n - 1)
        /\ \A i \in 1 .. 1 + (n - 1) : t[i] = IF i <= 1 THEN a[i] ELSE Tail(s)[i - 1]
    <3> DEFINE b == Tail(s)
               m == n - 1
               k == 1
               S == Activity(L)
    <3>1. a \in Seq(S) /\ b \in Seq(S) /\ Len(a) = k /\ Len(b) = m
      BY <1>1, <2>2
    <3> HIDE DEF b, m, k, S, n
    <3>2. a \o b \in Seq(S) /\ Len(a \o b) = k + m
          /\ \A i \in 1 .. k + m : (a \o b)[i] = IF i <= k THEN a[i] ELSE b[i - k]
      BY <3>1, ConcatAt
    <3> QED BY <2>3, <3>2 DEF b, m, k, S
  <2>5. DOMAIN t = 1 .. n
    BY <1>1, <2>4, LenProperties
  <2>6. t[1] = e
    BY <1>1, <2>2, <2>4
  <2>7. \A i \in 1 .. n : i # 1 => t[i] = s[i]
    <3> SUFFICES ASSUME NEW i \in 1 .. n, i # 1
                 PROVE  t[i] = s[i]
      OBVIOUS
    <3>1. i \in 1 .. 1 + (n - 1) /\ ~(i <= 1) /\ i - 1 \in 1 .. n - 1 /\ (i - 1) + 1 = i
      BY <1>1
    <3> QED BY <1>1, <2>4, <3>1
  <2>8. \A i \in 1 .. n : t[i].channel = s[i].channel
    BY <1>1, <2>1, <2>6, <2>7
  <2>9. \A i, j \in DOMAIN t : t[i].channel = t[j].channel => i = j
    BY <1>1, <2>5, <2>8
  <2>10. ASSUME NEW i \in DOMAIN t, "read" \in t[i].revents
         PROVE  t[i].channel # Head(s).channel /\ \E j \in DOMAIN s : s[j] = t[i]
    <3>1. i \in 1 .. n
      BY <2>5, <2>10
    <3>2. 1 \in 1 .. n
      BY <1>1
    <3>3. i # 1
      BY <2>1, <2>6, <2>10
    <3>4. s[i].channel # s[1].channel
      BY <1>1, <3>1, <3>2, <3>3
    <3>5. i \in DOMAIN s /\ s[i] = t[i]
      BY <1>1, <2>7, <3>1, <3>3
    <3> QED BY <1>1, <3>4, <3>5
  <2> QED BY <2>4, <2>9, <2>10
<1> QED BY <1>2, <1>3


MatchInv == PollerInv /\ LoopInv

\* The events of a connection change as Channel::update says, or do not.
LEMMA SendInLoopMatches ==
  ASSUME PollerInv, NEW c \in Live, NEW data, SendInLoop(c, data)
  PROVE  PollerInv' /\ Live' = Live
<1>1. SameEvents \/ SetEvents(c, events_[c] \cup {"write"})
  BY DEF SendInLoop
<1>2. events_[c] \cup {"write"} \in SUBSET Events
  BY DEF PollerInv, Live, Events
<1> QED BY <1>1, <1>2, SameEventsKeeps, SetEventsKeeps

LEMMA HandleWriteMatches ==
  ASSUME PollerInv, NEW c \in Live, HandleWrite(c)
  PROVE  PollerInv' /\ Live' = Live
<1>1. SameEvents \/ SetEvents(c, events_[c] \ {"write"})
  BY DEF HandleWrite, AfterWrite
<1>2. events_[c] \ {"write"} \in SUBSET Events
  BY DEF PollerInv, Live, Events
<1> QED BY <1>1, <1>2, SameEventsKeeps, SetEventsKeeps

\* handleEvent: what is left is for other connections, or to be written.
LEMMA HandleEventMatches ==
  ASSUME MatchInv, HandleEvent
  PROVE  MatchInv'
<1> USE DEF MatchInv
<1> DEFINE c == Head(active).channel
           revents == Head(active).revents
<1>1. /\ active \in Seq(Activity(Live)) /\ active # <<>>
      /\ \A i, j \in DOMAIN active : active[i].channel = active[j].channel => i = j
  BY DEF HandleEvent, LoopInv, Activity
<1>2. 1 \in DOMAIN active /\ active[1] = Head(active) /\ Head(active) \in Activity(Live)
  BY <1>1, Popped
<1>3. c \in Live
  BY <1>2 DEF Activity
<1>4. \/ active' = Tail(active)
      \/ active' = <<[channel |-> Head(active).channel, revents |-> {"write"}]>> \o Tail(active)
  BY DEF HandleEvent
<1>5. /\ active' \in Seq(Activity(Live))
      /\ \A i, j \in DOMAIN active' : active'[i].channel = active'[j].channel => i = j
      /\ \A i \in DOMAIN active' : "read" \in active'[i].revents =>
           /\ active'[i].channel # c
           /\ \E j \in DOMAIN active : active[j] = active'[i]
  BY <1>1, <1>4, HandledLeaves
<1>6. \A i \in DOMAIN active' : "read" \in active'[i].revents =>
        \A j \in DOMAIN tasks : tasks[j] # active'[i].channel
  BY <1>5 DEF LoopInv
<1>7. \/ /\ HandleRead(c) \/ HandleWrite(c)
            \/ UNCHANGED <<pollerVars, connVars, tasks, peerVars, wire>>
         /\ tasks' = tasks
      \/ "read" \in revents /\ HandleClose(c)
  BY DEF HandleEvent, HandleRead, HandleWrite
<1> HIDE DEF c, revents
<1>8. CASE /\ HandleRead(c) \/ HandleWrite(c)
              \/ UNCHANGED <<pollerVars, connVars, tasks, peerVars, wire>>
           /\ tasks' = tasks
  <2>1. PollerInv' /\ Live' = Live
    <3>1. CASE HandleRead(c)
      BY <1>3, <3>1, SendInLoopMatches DEF HandleRead
    <3>2. CASE HandleWrite(c)
      BY <1>3, <3>2, HandleWriteMatches
    <3>3. CASE UNCHANGED <<pollerVars, connVars, tasks, peerVars, wire>>
      BY <3>3, SameEventsKeeps DEF SameEvents, connVars
    <3> QED BY <1>8, <3>1, <3>2, <3>3
  <2> QED BY <1>5, <1>6, <1>8, <2>1 DEF LoopInv, Activity
<1>9. CASE "read" \in revents /\ HandleClose(c)
  <2>1. SetEvents(c, {}) /\ tasks' = Append(tasks, c)
    BY <1>9 DEF HandleClose
  <2>2. PollerInv' /\ Live' = Live
    BY <1>3, <2>1, SetEventsKeeps
  <2>3. tasks \in Seq(Live) /\ \A i, j \in DOMAIN tasks : tasks[i] = tasks[j] => i = j
    BY DEF LoopInv
  <2>4. \A j \in DOMAIN tasks : tasks[j] # c
    BY <1>2, <1>9 DEF LoopInv, c, revents
  <2>5. /\ tasks' \in Seq(Live)
        /\ DOMAIN tasks' = DOMAIN tasks \cup {Len(tasks) + 1}
        /\ \A i \in DOMAIN tasks : tasks'[i] = tasks[i]
        /\ tasks'[Len(tasks) + 1] = c
    BY <1>3, <2>1, <2>3, Pushed
  <2>6. \A i, j \in DOMAIN tasks' : tasks'[i] = tasks'[j] => i = j
    BY <2>3, <2>4, <2>5
  <2>7. \A i \in DOMAIN active' : "read" \in active'[i].revents =>
          \A j \in DOMAIN tasks' : tasks'[j] # active'[i].channel
    BY <1>5, <1>6, <2>5
  <2> QED BY <1>5, <2>2, <2>5, <2>6, <2>7 DEF LoopInv, Activity
<1> QED BY <1>7, <1>8, <1>9

LEMMA RunFunctorMatches ==
  ASSUME MatchInv, RunFunctor
  PROVE  MatchInv'
<1> USE DEF MatchInv
<1>1. /\ active = <<>> /\ active' = <<>> /\ tasks # <<>> /\ tasks' = Tail(tasks)
      /\ RemoveChannel(Head(tasks)) /\ fd_' = [fd_ EXCEPT ![Head(tasks)] = -1]
      /\ events_' = events_
  BY DEF RunFunctor, connVars
<1>2. tasks \in Seq(Live) /\ \A i, j \in DOMAIN tasks : tasks[i] = tasks[j] => i = j
  BY DEF LoopInv
<1>3. /\ tasks' \in Seq(Live) /\ 1 \in DOMAIN tasks /\ tasks[1] = Head(tasks)
      /\ Head(tasks) \in Live
      /\ \A i \in DOMAIN tasks' : i + 1 \in DOMAIN tasks /\ i + 1 # 1 /\ tasks'[i] = tasks[i + 1]
  BY <1>1, <1>2, Popped
<1>4. PollerInv' /\ Live' = Live \ {Head(tasks)}
  BY <1>1, <1>3, RemoveMatches
<1>5. tasks' \in Seq(Live')
  <2>1. \A i \in DOMAIN tasks' : tasks'[i] \in Live'
    BY <1>2, <1>3, <1>4, ElementOfSeq, LenProperties
  <2> QED BY <1>3, <2>1, LenProperties
<1>6. \A i, j \in DOMAIN tasks' : tasks'[i] = tasks'[j] => i = j
  <2> SUFFICES ASSUME NEW i \in DOMAIN tasks', NEW j \in DOMAIN tasks', tasks'[i] = tasks'[j]
               PROVE  i = j
    OBVIOUS
  <2>1. i + 1 = j + 1
    BY <1>2, <1>3
  <2>2. i \in Int /\ j \in Int
    BY <1>3, LenProperties
  <2> QED BY <2>1, <2>2
<1>7. active' \in Seq([channel : Live', revents : SUBSET Events]) /\ DOMAIN active' = {}
  BY <1>1, EmptySeq
<1> QED BY <1>4, <1>5, <1>6, <1>7 DEF LoopInv

\* Poll finds what was closed destroyed: no functor waits.
LEMMA PollMatches ==
  ASSUME MatchInv, Poll
  PROVE  MatchInv'
<1> USE DEF MatchInv
<1>1. /\ tasks = <<>> /\ UNCHANGED <<tasks, pollerVars, events_>>
      /\ active' \in FillActiveChannels(Polled)
  BY DEF Poll, connVars
<1>2. PollerInv' /\ Live' = Live
  BY <1>1, SameEventsKeeps DEF SameEvents
<1>3. /\ active' \in Seq(Activity(Live))
      /\ \A i, j \in DOMAIN active' : active'[i].channel = active'[j].channel => i = j
  BY <1>1, PollFills
<1>4. tasks' \in Seq(Live') /\ DOMAIN tasks' = {}
  BY <1>1, <1>2, EmptySeq
<1> QED BY <1>2, <1>3, <1>4 DEF LoopInv, Activity

LEMMA SeqWidens ==
  ASSUME NEW S, NEW T, S \subseteq T, NEW s \in Seq(S)
  PROVE  s \in Seq(T)
<1>1. Len(s) \in Nat /\ s \in [1 .. Len(s) -> S]
  BY LenProperties
<1>2. s \in [1 .. Len(s) -> T]
  BY <1>1
<1> QED BY <1>1, <1>2

LEMMA AcceptKeepsMatch ==
  ASSUME MatchInv, NEW c \in Channel, NEW fd \in Fds, Accept(c, fd)
  PROVE  MatchInv'
<1> USE DEF MatchInv
<1>1. PollerInv' /\ Live \subseteq Live'
  BY AcceptMatches
<1>2. UNCHANGED <<active, tasks>>
  BY DEF Accept
<1>3. active' \in Seq([channel : Live', revents : SUBSET Events]) /\ tasks' \in Seq(Live')
  <2>1. active \in Seq(Activity(Live)) /\ tasks \in Seq(Live)
    BY DEF LoopInv, Activity
  <2>2. Activity(Live) \subseteq Activity(Live')
    BY <1>1 DEF Activity
  <2>3. active \in Seq(Activity(Live')) /\ tasks \in Seq(Live')
    BY <1>1, <2>1, <2>2, SeqWidens
  <2> QED BY <1>2, <2>3 DEF Activity
<1> QED BY <1>1, <1>2, <1>3 DEF LoopInv

LEMMA QuietMatches ==
  ASSUME MatchInv, UNCHANGED <<pollerVars, events_, active, tasks>>
  PROVE  MatchInv'
<1>1. PollerInv' /\ Live' = Live
  BY SameEventsKeeps DEF SameEvents, MatchInv
<1> QED BY <1>1 DEF MatchInv, LoopInv

LEMMA InitMatchInv == Init => MatchInv
<1> SUFFICES ASSUME Init
             PROVE  MatchInv
  OBVIOUS
<1>1. Live = {}
  BY FdsAssumption DEF Init, PollerInit, Live
<1>2. PollerInv
  <2>1. pollfds_ \in Seq(PollfdType) /\ Len(pollfds_) = 0
    BY EmptySeq DEF Init, PollerInit
  <2>2. Indexed(pollfds_, status_, fd_, Live)
    BY <1>1, <2>1 DEF Indexed
  <2> QED BY <1>1, <2>1, <2>2 DEF Init, PollerInit, PollerInv
<1>3. LoopInv
  <2>1. /\ active \in Seq([channel : Live, revents : SUBSET Events]) /\ tasks \in Seq(Live)
        /\ DOMAIN active = {} /\ DOMAIN tasks = {}
    BY EmptySeq DEF Init
  <2> QED BY <2>1 DEF LoopInv
<1> QED BY <1>2, <1>3 DEF MatchInv

LEMMA NextMatchInv == MatchInv /\ [Next]_vars => MatchInv'
<1> SUFFICES ASSUME MatchInv, [Next]_vars
             PROVE  MatchInv'
  OBVIOUS
<1>1. CASE LoopNext
  BY <1>1, PollMatches, HandleEventMatches, RunFunctorMatches DEF LoopNext
<1>2. ASSUME NEW c \in Channel, NEW fd \in Fds, Accept(c, fd)
      PROVE  MatchInv'
  BY <1>2, AcceptKeepsMatch
<1>3. ASSUME NEW c \in Channel, PeerSends(c) \/ PeerCloses(c)
      PROVE  MatchInv'
  BY <1>3, QuietMatches DEF PeerSends, PeerCloses, connVars
<1>4. CASE UNCHANGED vars
  BY <1>4, QuietMatches DEF vars, connVars
<1> QED BY <1>1, <1>2, <1>3, <1>4 DEF Next

\* PollPoller's array, its map and the indices its channels keep agree, for any number of
\* connections and descriptors, whichever pollfd is removed and wherever a descriptor is
\* used again.
THEOREM PollerAgrees == Spec => []PollfdsMatch
<1>1. MatchInv => PollfdsMatch
  <2> SUFFICES ASSUME PollerInv
               PROVE  PollfdsMatch
    BY DEF MatchInv
  <2>1. Registered = Live
    <3>1. \A c \in Live : <<fd_[c], c>> \in channels_ /\ <<fd_[c], c>>[2] = c
      BY DEF PollerInv
    <3>2. \A e \in channels_ : e[2] \in Live
      BY DEF PollerInv
    <3> QED BY <3>1, <3>2 DEF Registered
  <2> QED BY <2>1 DEF PollerInv, Indexed, PollfdsMatch
<1> QED BY <1>1, InitMatchInv, NextMatchInv, PTL DEF Spec
=============================================================================
