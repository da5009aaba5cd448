------------------------------- MODULE Buffer -------------------------------
(***************************************************************************)
(* apollo::Buffer (net/buffer.cc): a vector of bytes with a reader and a   *)
(* writer index, as a record and the functions its methods apply to it.    *)
(* What is readable lies between the indices; what was read in front of    *)
(* them is used again, by moving the readable bytes, before the vector is  *)
(* made to grow.  The byte at the C++ index k is buffer_[k + 1].           *)
(***************************************************************************)
EXTENDS Naturals, Sequences

CONSTANTS kCheapPrepend,  \* bytes kept free in front
          kInitialSize,
          kExtraSize,     \* of extrabuf in readFd
          Byte

ASSUME BufferAssumption ==
  /\ kCheapPrepend \in Nat /\ kInitialSize \in Nat /\ kExtraSize \in Nat
  /\ 0 \in Byte

Buffers == [buffer_ : Seq(Byte), readerIndex_ : Nat, writerIndex_ : Nat]

\* The indices are in order and inside the vector.
IndicesInOrder(b) ==
  /\ kCheapPrepend <= b.readerIndex_
  /\ b.readerIndex_ <= b.writerIndex_
  /\ b.writerIndex_ <= Len(b.buffer_)

Zeros(n) == [i \in 1 .. n |-> 0]

NewBuffer == [buffer_ |-> Zeros(kCheapPrepend + kInitialSize),
              readerIndex_ |-> kCheapPrepend, writerIndex_ |-> kCheapPrepend]

ReadableBytes(b) == b.writerIndex_ - b.readerIndex_
WriteableBytes(b) == Len(b.buffer_) - b.writerIndex_

\* The readable bytes: peek() .. peek() + readableBytes()
Readable(b) == SubSeq(b.buffer_, b.readerIndex_ + 1, b.writerIndex_)

\* std::copy of bytes into a vector of at least k + Len(bytes), from index k on
Copy(bytes, vector, k) ==
  SubSeq(vector, 1, k) \o bytes \o SubSeq(vector, k + Len(bytes) + 1, Len(vector))

RetrieveAll(b) == [b EXCEPT !.readerIndex_ = kCheapPrepend, !.writerIndex_ = kCheapPrepend]

\* retrieve: len bytes are read; with the last of them both indices go back.
Retrieve(b, len) ==
  IF len < ReadableBytes(b) THEN [b EXCEPT !.readerIndex_ = @ + len]
  ELSE RetrieveAll(b)

\* Mutant: the bytes are moved and the reader index is not.
MoveToFrontMutant(b) ==
  [b EXCEPT !.buffer_ = Copy(Readable(b), @, kCheapPrepend),
            !.writerIndex_ = kCheapPrepend + ReadableBytes(b)]

\* makeSpace where what was read leaves room enough
MoveToFront(b) ==
  [b EXCEPT !.buffer_ = Copy(Readable(b), @, kCheapPrepend),
            !.readerIndex_ = kCheapPrepend,
            !.writerIndex_ = kCheapPrepend + ReadableBytes(b)]

\* makeSpace: the vector grows, its new bytes 0, or is used from the front.
MakeSpace(b, len) ==
  IF WriteableBytes(b) + b.readerIndex_ - kCheapPrepend < len
  THEN [b EXCEPT !.buffer_ = @ \o Zeros(len - WriteableBytes(b))]
  ELSE MoveToFront(b)

EnsureWritableBytes(b, len) ==
  IF WriteableBytes(b) < len THEN MakeSpace(b, len) ELSE b

\* data goes behind the writer index, where there is room for it.
Write(b, data) == [b EXCEPT !.buffer_ = Copy(data, @, b.writerIndex_),
                            !.writerIndex_ = @ + Len(data)]

\* append
AppendData(b, data) == Write(EnsureWritableBytes(b, Len(data)), data)

\* How much one readv takes at most: extrabuf is not used by a large vector.
ReadCapacity(b) ==
  WriteableBytes(b) + IF WriteableBytes(b) < kExtraSize THEN kExtraSize ELSE 0

\* readFd when readv has taken data: what does not fit went to extrabuf and is
\* appended to the vector, which is full by then.
ReadFd(b, data) ==
  LET fits == WriteableBytes(b)
  IN  IF Len(data) <= fits THEN Write(b, data)
      ELSE AppendData(Write(b, SubSeq(data, 1, fits)), SubSeq(data, fits + 1, Len(data)))
=============================================================================
