----------------------------- MODULE TaskQueue -----------------------------
(***************************************************************************)
(* What an EventLoop promises to the code that hands it functors: those    *)
(* queued run in the order they were queued, each exactly once; one handed *)
(* to runInLoop by the loop's own thread runs at once.  Once it runs, the  *)
(* loop goes on until the queue is empty or it has quit.                   *)
(***************************************************************************)
EXTENDS Sequences, Functions

CONSTANT Functors

VARIABLES
  queue,     \* functors accepted and not yet started, in order of acceptance
  executed,  \* functors started, in order
  looping    \* whether the loop is running

vars == <<queue, executed, looping>>

New(f) == f \notin Range(queue) \cup Range(executed)

Init == queue = <<>> /\ executed = <<>> /\ looping = FALSE

Submit(f) == /\ New(f)
             /\ queue' = Append(queue, f)
             /\ UNCHANGED <<executed, looping>>

RunNow(f) == /\ New(f)
             /\ executed' = Append(executed, f)
             /\ UNCHANGED <<queue, looping>>

RunNext == /\ looping
           /\ queue # <<>>
           /\ executed' = Append(executed, Head(queue))
           /\ queue' = Tail(queue)
           /\ UNCHANGED looping

StartOrStop == looping' = ~looping /\ UNCHANGED <<queue, executed>>

Next == \/ \E f \in Functors : Submit(f) \/ RunNow(f)
        \/ RunNext
        \/ StartOrStop

SafeSpec == Init /\ [][Next]_vars

Fairness == WF_vars(RunNext)

Spec == SafeSpec /\ Fairness
=============================================================================
