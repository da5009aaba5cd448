---------------------------- MODULE SizeClasses ----------------------------
(***************************************************************************)
(* apollo::AlignHelper (include/mempool/utilis.h): the size classes of the *)
(* allocator and how much a cache moves at a time.                         *)
(***************************************************************************)
EXTENDS Integers

kMaxBytes   == 256 * 1024
kBucketSize == 208

\* _roundUp: the masks of the code are divisions, as align is a power of two.
RoundUpTo(bytes, align) == ((bytes + align - 1) \div align) * align

\* The alignment of the range a size is in
Align(bytes) ==
  CASE bytes <= 128 -> 8
    [] bytes > 128 /\ bytes <= 1024 -> 16
    [] bytes > 1024 /\ bytes <= 8 * 1024 -> 128
    [] bytes > 8 * 1024 /\ bytes <= 64 * 1024 -> 1024
    [] bytes > 64 * 1024 /\ bytes <= kMaxBytes -> 8 * 1024
    [] bytes > kMaxBytes -> 4096

RoundUp(bytes) == RoundUpTo(bytes, Align(bytes))

\* _index
IndexIn(bytes, align) == (bytes + align - 1) \div align - 1

\* index: the classes of the ranges below come first.
Index(bytes) ==
  CASE bytes <= 128 -> IndexIn(bytes, 8)
    [] bytes > 128 /\ bytes <= 1024 -> IndexIn(bytes - 128, 16) + 16
    [] bytes > 1024 /\ bytes <= 8 * 1024 -> IndexIn(bytes - 1024, 128) + 72
    [] bytes > 8 * 1024 /\ bytes <= 64 * 1024 -> IndexIn(bytes - 8 * 1024, 1024) + 128
    [] bytes > 64 * 1024 -> IndexIn(bytes - 64 * 1024, 8 * 1024) + 184

\* How many objects a thread's cache may take at once
NumMoveSize(size) ==
  LET num == kMaxBytes \div size
  IN  IF num < 2 THEN 2 ELSE IF num > 512 THEN 512 ELSE num

\* The pages of a span that is cut into objects of a size
NumMovePage(size) ==
  LET npage == (NumMoveSize(size) * size) \div 4096
  IN  IF npage = 0 THEN 1 ELSE npage
=============================================================================
