----------------------------- MODULE TcpServer -----------------------------
(***************************************************************************)
(* apollo::TcpServer (net/tcpserver.cc) with its EventLoopThreadPool, its  *)
(* TcpConnections and the threads that use them.                           *)
(*                                                                         *)
(* mainLoop accepts connections and keeps the map of them; each connection *)
(* lives in one of the pool's loops.  A loop is what TaskQueue says of it: *)
(* a queue of functors its thread runs in order, among the events of its   *)
(* channels.  User threads call a connection's operations from outside its *)
(* loop: they read state_, write it and queue a functor in three steps,    *)
(* and the functors of send and shutdown hold the bare `this`.             *)
(***************************************************************************)
EXTENDS TcpConnection, FiniteSets, SequencesExt

CONSTANTS Conns,        \* connections, each accepted once
          Messages,     \* messages, each sent once
          mainLoop,
          loops_,       \* the pool's loops, a sequence
          Users,        \* threads other than the loops'
          UserOps,      \* the operations they call
          CallbackOps,  \* the operations the connection's callbacks call
          ServerDies,   \* whether the server may be destroyed
          None,
          CallersWait   \* whether they keep a connection until the functors
                        \* they queued for it have run

Loops == {mainLoop} \cup Range(loops_)

ASSUME LoopsAssumption == loops_ \in Seq(Loops)
ASSUME OpsAssumption ==
  UserOps \cup CallbackOps \subseteq {"send", "shutdown", "forceClose"}
ASSUME BooleanAssumption == {ServerDies, CallersWait} \subseteq BOOLEAN
ASSUME ThreadAssumption == Users \cap Loops = {}
ASSUME NoneAssumption ==
  /\ None \notin (Users \cup Loops) \X Conns
  /\ None \notin TypeOfConnection(Loops, Messages \X {1, 2})

VARIABLES
  conn,          \* None until accepted
  connections_,
  next_,         \* of the pool
  server,        \* whether the TcpServer exists
  tasks,         \* the functors queued in each loop
  handles,       \* the TcpConnectionPtrs each user thread holds
  op,            \* the operation each user thread is in, and how far
  sent,          \* the thread that sent each message, and on which connection
  accepted,      \* history: the chunks sendInLoop has not dropped
  promised       \* history: messages sent before a shutdown by the same thread

vars == <<conn, connections_, next_, server, tasks, handles, op, sent,
          accepted, promised>>

Accepted == {c \in Conns : conn[c] # None}

Task(fn, c, m) == [fn |-> fn, conn |-> c, message |-> m]

TaskType ==
  [fn : {"connectEstablished", "connectDestoryed", "removeConnectionInLoop",
         "forceCloseInLoop", "callback", "sendInLoop", "shutdownInLoop"},
   conn : Conns, message : Messages \cup {None}]

\* Functors bound to `this` keep nothing alive.
Raw == {"sendInLoop", "shutdownInLoop"}

TypeOK ==
  /\ \A c \in Accepted :
       conn[c] \in TypeOfConnection(Loops, Messages \X {1, 2})
  /\ connections_ \subseteq Accepted
  /\ next_ \in 0 .. Len(loops_) /\ (loops_ # <<>> => next_ < Len(loops_))
  /\ server \in BOOLEAN
  /\ tasks \in [Loops -> Seq(TaskType)]
  /\ handles \in [Users -> SUBSET Conns]
  /\ \A u \in Users : op[u] = None \/ op[u].conn \in handles[u]
  /\ \A m \in Messages : sent[m] = None \/ sent[m] \in (Users \cup Loops) \X Accepted
  /\ promised \subseteq Messages

Init ==
  /\ conn = [c \in Conns |-> None]
  /\ connections_ = {}
  /\ next_ = 0
  /\ server = TRUE
  /\ tasks = [l \in Loops |-> <<>>]
  /\ handles = [u \in Users |-> {}]
  /\ op = [u \in Users |-> None]
  /\ sent = [m \in Messages |-> None]
  /\ accepted = [c \in Conns |-> <<>>]
  /\ promised = {}

-----------------------------------------------------------------------------
(* Lifetime *)

TasksOf(l) == Range(tasks[l])

\* Some shared_ptr holds the connection.
Alive(c) == \/ c \in connections_
            \/ \E l \in Loops : \E t \in TasksOf(l) : t.conn = c /\ t.fn \notin Raw
            \/ \E u \in Users : c \in handles[u]

LoopOf(c) == conn[c].loop_

Push(queues, l, task) == [queues EXCEPT ![l] = Append(@, task)]
Pop(queues, l) == [queues EXCEPT ![l] = Tail(@)]

-----------------------------------------------------------------------------
(* The server, in mainLoop *)

\* getNextLoop: round robin over the pool, or mainLoop if the pool is empty.
NextLoop == IF loops_ = <<>> THEN mainLoop ELSE loops_[next_ + 1]

Advance == IF next_ + 1 >= Len(loops_) THEN 0 ELSE next_ + 1

\* newConnection; runInLoop establishes the connection at once in mainLoop.
\* connectionCallback_ hands the connection to the user threads.
Accept(c) ==
  /\ server
  /\ conn[c] = None
  /\ connections_' = connections_ \cup {c}
  /\ next_' = Advance
  /\ IF NextLoop = mainLoop
     THEN /\ conn' = [conn EXCEPT ![c] = ConnectEstablished(NewConnection(mainLoop))]
          /\ handles' = [u \in Users |-> handles[u] \cup {c}]
          /\ UNCHANGED tasks
     ELSE /\ conn' = [conn EXCEPT ![c] = NewConnection(NextLoop)]
          /\ tasks' = Push(tasks, NextLoop, Task("connectEstablished", c, None))
          /\ UNCHANGED handles
  /\ UNCHANGED <<server, op, sent, accepted, promised>>

\* Mutant: the connection leaves the map and is never destroyed.
RemoveConnectionInLoopMutant(c, queues) ==
  connections_' = connections_ \ {c} /\ tasks' = queues

\* removeConnectionInLoop on the queues left by its caller
RemoveConnectionInLoop(c, queues) ==
  /\ connections_' = connections_ \ {c}
  /\ tasks' = Push(queues, LoopOf(c), Task("connectDestoryed", c, None))

\* handleClose and the closeCallback_ it ends with, removeConnection, which
\* goes through the server even when that is gone
Close(c, queues) ==
  /\ conn' = [conn EXCEPT ![c] = HandleClose(@)]
  /\ IF LoopOf(c) = mainLoop
     THEN RemoveConnectionInLoop(c, queues)
     ELSE /\ tasks' = Push(queues, mainLoop, Task("removeConnectionInLoop", c, None))
          /\ UNCHANGED connections_

\* Mutant: the map is cleared and the connections are left to themselves.
ServerDestructorMutant ==
  /\ ServerDies /\ server
  /\ server' = FALSE
  /\ connections_' = {}
  /\ UNCHANGED <<conn, next_, tasks, handles, op, sent, accepted, promised>>

\* The destructor, run by mainLoop's thread once that loop has returned.
ServerDestructor ==
  /\ ServerDies /\ server
  /\ server' = FALSE
  /\ conn' = [c \in Conns |-> IF c \in connections_ /\ LoopOf(c) = mainLoop
                              THEN ConnectDestoryed(conn[c]) ELSE conn[c]]
  /\ tasks' = [l \in Loops |->
       IF l = mainLoop THEN tasks[l]
       ELSE tasks[l] \o SetToSeq({Task("connectDestoryed", c, None) :
                                    c \in {d \in connections_ : LoopOf(d) = l}})]
  /\ connections_' = {}
  /\ UNCHANGED <<next_, handles, op, sent, accepted, promised>>

-----------------------------------------------------------------------------
(* What a loop runs: functors and events *)

\* mainLoop no longer runs when the server is destroyed.
Runs(l) == l = mainLoop => server

StartTask(l, fn, c, m) ==
  /\ Runs(l)
  /\ tasks[l] # <<>>
  /\ Head(tasks[l]) = Task(fn, c, m)

RunConnectEstablished(l, c) ==
  /\ StartTask(l, "connectEstablished", c, None)
  /\ conn' = [conn EXCEPT ![c] = ConnectEstablished(@)]
  /\ handles' = [u \in Users |-> handles[u] \cup {c}]
  /\ tasks' = Pop(tasks, l)
  /\ UNCHANGED <<connections_, next_, server, op, sent, accepted, promised>>

RunConnectDestoryed(l, c) ==
  /\ StartTask(l, "connectDestoryed", c, None)
  /\ conn' = [conn EXCEPT ![c] = ConnectDestoryed(@)]
  /\ tasks' = Pop(tasks, l)
  /\ UNCHANGED <<connections_, next_, server, handles, op, sent, accepted,
                 promised>>

RunRemoveConnection(c) ==
  /\ StartTask(mainLoop, "removeConnectionInLoop", c, None)
  /\ RemoveConnectionInLoop(c, Pop(tasks, mainLoop))
  /\ UNCHANGED <<conn, next_, server, handles, op, sent, accepted, promised>>

\* forceCloseInLoop
RunForceClose(l, c) ==
  /\ StartTask(l, "forceCloseInLoop", c, None)
  /\ IF CanForceClose(conn[c])
     THEN Close(c, Pop(tasks, l))
     ELSE tasks' = Pop(tasks, l) /\ UNCHANGED <<conn, connections_>>
  /\ UNCHANGED <<next_, server, handles, op, sent, accepted, promised>>

\* writeCompleteCallback_ and highWaterMarkCallback_
RunCallback(l, c) ==
  /\ StartTask(l, "callback", c, None)
  /\ tasks' = Pop(tasks, l)
  /\ UNCHANGED <<conn, connections_, next_, server, handles, op, sent,
                 accepted, promised>>

Send(c, m, queues) ==
  LET chunks == Chunks(m)
  IN  \E n \in Written(conn[c], chunks) :
        /\ conn' = [conn EXCEPT ![c] = SendInLoop(@, chunks, n)]
        /\ tasks' = IF SendQueuesCallback(conn[c], chunks, n)
                    THEN Push(queues, LoopOf(c), Task("callback", c, None))
                    ELSE queues
        /\ accepted' = IF GivesUp(conn[c]) THEN accepted
                       ELSE [accepted EXCEPT ![c] = @ \o chunks]

\* A functor whose `this` is gone is taken to do nothing.
RunSend(l, c, m) ==
  /\ StartTask(l, "sendInLoop", c, m)
  /\ IF Alive(c)
     THEN Send(c, m, Pop(tasks, l))
     ELSE tasks' = Pop(tasks, l) /\ UNCHANGED <<conn, accepted>>
  /\ UNCHANGED <<connections_, next_, server, handles, op, sent, promised>>

RunShutdown(l, c) ==
  /\ StartTask(l, "shutdownInLoop", c, None)
  /\ conn' = IF Alive(c) THEN [conn EXCEPT ![c] = ShutdownInLoop(@)] ELSE conn
  /\ tasks' = Pop(tasks, l)
  /\ UNCHANGED <<connections_, next_, server, handles, op, sent, accepted,
                 promised>>

\* An event ends in handleClose ...
CloseEvent(c) ==
  /\ Alive(c) /\ Runs(LoopOf(c))
  /\ ClosesOnEvent(conn[c])
  /\ Close(c, tasks)
  /\ UNCHANGED <<next_, server, handles, op, sent, accepted, promised>>

\* ... or in handleWrite.
WriteEvent(c) ==
  /\ Alive(c) /\ Runs(LoopOf(c))
  /\ CanWrite(conn[c])
  /\ \E n \in 1 .. Len(conn[c].outputBuffer_) :
       /\ conn' = [conn EXCEPT ![c] = HandleWrite(@, n)]
       /\ tasks' = IF n = Len(conn[c].outputBuffer_)
                   THEN Push(tasks, LoopOf(c), Task("callback", c, None)) ELSE tasks
  /\ UNCHANGED <<connections_, next_, server, handles, op, sent, accepted,
                 promised>>

\* The peer closes its end or resets the connection.
PeerGoes(c) ==
  /\ Alive(c)
  /\ conn[c].peer = "open"
  /\ \E how \in {"closed", "reset"} : conn' = [conn EXCEPT ![c].peer = how]
  /\ UNCHANGED <<connections_, next_, server, tasks, handles, op, sent,
                 accepted, promised>>

-----------------------------------------------------------------------------
(* Operations called by a callback of the connection, in its loop *)

CallbackCalls(c, call) ==
  call \in CallbackOps /\ Alive(c) /\ conn[c].ups > 0 /\ Runs(LoopOf(c))

Promised(thread, c) == {m \in Messages : sent[m] = <<thread, c>>}

SendHere(c, m) ==
  /\ CallbackCalls(c, "send")
  /\ sent[m] = None
  /\ conn[c].state_ = "kConnected"
  /\ sent' = [sent EXCEPT ![m] = <<LoopOf(c), c>>]
  /\ Send(c, m, tasks)
  /\ UNCHANGED <<connections_, next_, server, handles, op, promised>>

ShutdownHere(c) ==
  /\ CallbackCalls(c, "shutdown")
  /\ conn[c].state_ = "kConnected"
  /\ conn' = [conn EXCEPT ![c] = ShutdownInLoop([@ EXCEPT !.state_ = "kDisconnecting"])]
  /\ promised' = promised \cup Promised(LoopOf(c), c)
  /\ UNCHANGED <<connections_, next_, server, tasks, handles, op, sent, accepted>>

\* A bound: forceClose is not called again while its functor waits.
MayForceClose(c) == /\ CanForceClose(conn[c])
                    /\ Task("forceCloseInLoop", c, None) \notin TasksOf(LoopOf(c))

ForceCloseHere(c) ==
  /\ CallbackCalls(c, "forceClose")
  /\ MayForceClose(c)
  /\ conn' = [conn EXCEPT ![c].state_ = "kDisconnecting"]
  /\ tasks' = Push(tasks, LoopOf(c), Task("forceCloseInLoop", c, None))
  /\ UNCHANGED <<connections_, next_, server, handles, op, sent, accepted,
                 promised>>

-----------------------------------------------------------------------------
(* The same operations called by another thread *)

\* The test of state_ succeeds.
Call(u, c, call, m) ==
  /\ op[u] = None
  /\ c \in handles[u]
  /\ IF call = "forceClose" THEN MayForceClose(c)
                            ELSE conn[c].state_ = "kConnected"
  /\ IF call = "send"
     THEN m # None /\ sent[m] = None /\ sent' = [sent EXCEPT ![m] = <<u, c>>]
     ELSE m = None /\ UNCHANGED sent
  /\ op' = [op EXCEPT ![u] = [call |-> call, conn |-> c, message |-> m,
                              done |-> IF call = "send" THEN "set" ELSE "test"]]
  /\ UNCHANGED <<conn, connections_, next_, server, tasks, handles, accepted,
                 promised>>

\* setState(kDisconnecting)
SetState(u) ==
  /\ op[u] # None /\ op[u].done = "test"
  /\ op' = [op EXCEPT ![u].done = "set"]
  /\ conn' = [conn EXCEPT ![op[u].conn].state_ = "kDisconnecting"]
  /\ promised' = IF op[u].call = "shutdown"
                 THEN promised \cup Promised(u, op[u].conn) ELSE promised
  /\ UNCHANGED <<connections_, next_, server, tasks, handles, sent, accepted>>

QueueInLoop(u) ==
  /\ op[u] # None /\ op[u].done = "set"
  /\ LET fn == [send |-> "sendInLoop", shutdown |-> "shutdownInLoop",
                forceClose |-> "forceCloseInLoop"]
     IN  tasks' = Push(tasks, LoopOf(op[u].conn),
                       Task(fn[op[u].call], op[u].conn, op[u].message))
  /\ op' = [op EXCEPT ![u] = None]
  /\ UNCHANGED <<conn, connections_, next_, server, handles, sent, accepted,
                 promised>>

\* The thread lets go of the connection.
DropHandle(u, c) ==
  /\ op[u] = None
  /\ c \in handles[u]
  /\ CallersWait => \A t \in TasksOf(LoopOf(c)) : t.conn = c => t.fn \notin Raw
  /\ handles' = [handles EXCEPT ![u] = @ \ {c}]
  /\ UNCHANGED <<conn, connections_, next_, server, tasks, op, sent, accepted,
                 promised>>

-----------------------------------------------------------------------------
RunTask(l) ==
  \E c \in Accepted :
    \/ RunConnectEstablished(l, c) \/ RunConnectDestoryed(l, c)
    \/ (l = mainLoop /\ RunRemoveConnection(c))
    \/ RunForceClose(l, c) \/ RunCallback(l, c)
    \/ \E m \in Messages : RunSend(l, c, m)
    \/ RunShutdown(l, c)

Event(c) == CloseEvent(c) \/ WriteEvent(c)

CallHere(c) == \/ \E m \in Messages : SendHere(c, m)
               \/ ShutdownHere(c) \/ ForceCloseHere(c)

UserNext(u) ==
  \/ \E c \in Accepted : \/ \E call \in UserOps, m \in Messages \cup {None} :
                              Call(u, c, call, m)
                         \/ DropHandle(u, c)
  \/ SetState(u) \/ QueueInLoop(u)

Next == \/ \E c \in Conns : Accept(c)
        \/ ServerDestructor
        \/ \E l \in Loops : RunTask(l)
        \/ \E c \in Accepted : Event(c) \/ PeerGoes(c) \/ CallHere(c)
        \/ \E u \in Users : UserNext(u)

Spec == Init /\ [][Next]_vars

\* The loops run their functors and are told of their events, among which that
\* the peer takes what is sent; a thread completes the operation it is in.
FairSpec == /\ Spec
            /\ \A l \in Loops : WF_vars(RunTask(l))
            /\ \A c \in Conns : WF_vars(c \in Accepted /\ Event(c))
            /\ \A u \in Users : WF_vars(SetState(u) \/ QueueInLoop(u))

-----------------------------------------------------------------------------
(* Properties *)

\* The user is told of a connection once and of its end once, after that, on
\* whichever of its four ways it goes: end of stream, reset, forceClose and the
\* destruction of the server.  closeCallback_ runs at most once too.
UpThenDownOnce ==
  \A c \in Accepted : /\ conn[c].downs <= conn[c].ups /\ conn[c].ups <= 1
                      /\ conn[c].closes <= conn[c].downs

\* The poller never knows a channel whose connection is gone.
PolledConnectionsLive == \A c \in Accepted : conn[c].status_ = "kAdded" => Alive(c)

\* What the kernel has and what waits for it are the messages in the order
\* sendInLoop took them: a direct write never overtakes the buffer.
BytesInOrder ==
  \A c \in Accepted : conn[c].wire \o conn[c].outputBuffer_ = accepted[c]

\* A message a thread sent before it called shutdown is on the wire before the
\* end of the stream, unless the connection is lost or closed first.
SentBeforeShutdown ==
  \A m \in promised :
    LET c == sent[m][2]
    IN  conn[c].fin /\ conn[c].peer = "open" /\ conn[c].downs = 0
          => Range(Chunks(m)) \subseteq Range(conn[c].wire)

\* A connection that has been closed leaves the server's map and the poller.
ClosedConnectionsLeave ==
  \A c \in Conns :
    (c \in Accepted /\ conn[c].closes > 0)
      ~> (c \in Accepted => c \notin connections_ /\ conn[c].status_ = "kNew")

\* A connection being shut down is, or is closed, once its peer reads what was
\* sent: if shutdownInLoop found output waiting, handleWrite does what it left.
ShutdownCompletes ==
  \A c \in Conns :
    (c \in Accepted /\ conn[c].state_ = "kDisconnecting" /\ conn[c].downs = 0)
      ~> (c \in Accepted => conn[c].fin \/ conn[c].downs > 0)

-----------------------------------------------------------------------------
(* What the comments say and the code does not do *)

\* channel.h, on tie: calling a member function of a connection that is gone is
\* what has to be prevented.  The functors of send and shutdown do call one.
NoCallOnDestroyed ==
  \A l \in Loops : tasks[l] # <<>> => Alive(Head(tasks[l]).conn)
=============================================================================
