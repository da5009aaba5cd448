---------------------------- MODULE MCEventLoop ----------------------------
(* EventLoop with its own thread, other threads, and one I/O channel. *)
EXTENDS EventLoop
=============================================================================
