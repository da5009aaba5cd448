------------------------------- MODULE MCHeap -------------------------------
(* Heap with the sizes of the code and requests of few objects a span. *)
EXTENDS Heap

\* A class of two objects a span of 64 pages; a span of 75 pages, which the
\* lists take back; one of 150, which they do not.
Small == 130000
Large == 300 * 1024
Huge  == 600 * 1024

\* A class of five objects in a span of 63 pages, which has room for four.
Overrun == {51 * 1024}

AllRequests == {Small, Large, Huge}
\* A span follows the one before, or pages of the pools lie between.
TwoGaps == {0, 1}

Symmetry == Permutations(Threads)
=============================================================================
