---------------------------- MODULE MCEchoServer ----------------------------
(* Three connections on two descriptors; the first sends three bytes. *)
EXTENDS EchoServer

CONSTANTS c1, c2, c3

BytesOf == [c \in Channel |-> IF c = c1 THEN 3 ELSE 0]
=============================================================================
