---------------------------- MODULE MCTcpServer ----------------------------
(* TcpServer with pools of no, one and two loops. *)
EXTENDS TcpServer

CONSTANTS sub1, sub2

NoPool == <<>>
PoolOfOne == <<sub1>>
PoolOfTwo == <<sub1, sub2>>

\* With at most one connection in a loop, SetToSeq of the server's destructor has
\* nothing to put in order.
Symmetry == Permutations(Conns) \cup Permutations(Messages)
=============================================================================
