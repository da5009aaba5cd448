------------------------- MODULE MCEventLoopThread -------------------------
(* EventLoopThread with an owner, and another thread that uses its loop. *)
EXTENDS EventLoopThread
=============================================================================
