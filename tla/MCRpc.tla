------------------------------- MODULE MCRpc -------------------------------
(* One service with one method, which is looked up at any time. *)
EXTENDS Rpc

CONSTANTS p1, p2, c1, User, Login

RunsOf == [p \in Provider |-> 2]
CallsOf == [c \in Caller |-> IF c = c1 THEN 2 ELSE 1]
AskedOf == {<<User, Login>>}
=============================================================================
