----------------------------- MODULE TcpClient -----------------------------
(***************************************************************************)
(* apollo::TcpClient (net/tcpclient.cc) with its Connector                 *)
(* (net/connector.h, which holds the implementation), in one event loop.   *)
(*                                                                         *)
(* The loop's thread takes the events that are ready (active), handles     *)
(* them, and then runs the functors that were queued when it was done      *)
(* (batch); another thread, the owner, calls the client's operations,      *)
(* whose stores and pushes interleave with that.  An attempt to connect    *)
(* has a socket and a Channel of the Connector's; once connected, the      *)
(* socket goes to a TcpConnection, which has a Channel of its own.         *)
(*                                                                         *)
(* connect(2) is called on a blocking socket (createNonblocking does not   *)
(* ask for another), so it succeeds, fails, or is interrupted and goes on  *)
(* by itself.  The delay before a retry, from kInitRetryDelayMs doubling   *)
(* to kMaxRetryDelayMs, is left out: a timer fires some time later.        *)
(***************************************************************************)
EXTENDS TcpConnection, FiniteSets, Functions

CONSTANTS Sockets,      \* descriptors, used again once closed
          Results,      \* of connect(2)
          Retries,      \* whether enableRetry() was called: the values to try
          OwnerOps,     \* what the owner calls
          MaxConnects,  \* bound: calls of connect()
          MaxCalls,     \* bound: calls of anything else but the destructor
          DestroyedIn,  \* "loop", "owner": the threads the destructor may run in
          CarefulOwner, \* whether it is called only while there is a connection
                        \* none of whose handlers runs, and from another
                        \* thread only without automatic reconnection
          None

ASSUME ResultsAssumption ==
  Results \subseteq {"0", "EINTR", "ECONNREFUSED", "EACCES", "self"}
ASSUME ClientAssumption ==
  /\ Retries \subseteq BOOLEAN /\ CarefulOwner \in BOOLEAN
  /\ OwnerOps \subseteq {"connect", "disconnect", "stop"}
  /\ MaxConnects \in Nat /\ MaxCalls \in Nat

\* What the owner is in: the call, how far, and what the destructor has copied
OpType == [call : {"connect", "disconnect", "stop", "destroy"}, step : 1 .. 3,
           conn : Sockets \cup {None}, unique : BOOLEAN]

ASSUME NoneAssumption ==
  None \notin Sockets \cup OpType \cup TypeOfConnection({"loop"}, {})

VARIABLES
  client,         \* the TcpClient: alive, connect_, connection_
  retry_,
  connector,      \* the Connector: connect_, state_, channel_, how many of
                  \* its retries wait in the TimerQueue, which hold it, and
                  \* whether (history) connect(2) failed for good
  sock,           \* the sockets
  polled,         \* the sockets whose Connector channel is in the poller
  conn,           \* the TcpConnection on a socket
  closeCallback_, \* of that connection: the client's or removeTcpConnection
  pc,             \* "events" or "functors": what the loop is at
  active, batch,  \* the events and functors it has yet to handle
  tasks,          \* pendingFunctors_
  restarting,     \* removeConnection has found retry_ && connect_
  op,             \* what the owner is in, and how far
  connects, calls,
  stopped         \* history: stop() came after the last connect()

vars == <<client, retry_, connector, sock, polled, conn, closeCallback_,
          pc, active, batch, tasks, restarting, op, connects, calls, stopped>>
sockets == <<sock, polled, conn>>
owner   == <<retry_, op, connects, calls, stopped>>
loop    == <<pc, active, batch, restarting>>

Functor(fn, s) == [fn |-> fn, sock |-> s]
Timer == [ev |-> "timer", sock |-> None]

\* A connection is held by the client, by a functor or by the destructor.
HeldByFunctor(s) == \E f \in Range(batch \o tasks) : f.sock = s /\ f.fn # "shutdownInLoop"
Alive(s) ==
  /\ conn[s] # None
  /\ client.connection_ = s \/ HeldByFunctor(s) \/ (op # None /\ op.conn = s)

\* The client and timers hold the Connector, functors have a bare pointer to it.
ConnectorAlive == client.alive \/ connector.timers > 0

Open(s) == IF sock[s] = "used" THEN Alive(s) ELSE sock[s] # "closed"

ClientType == [alive : BOOLEAN, connect_ : BOOLEAN, connection_ : Sockets \cup {None}]

ConnectorType ==
  [connect_ : BOOLEAN, state_ : {"kDisconnected", "kConnecting", "kConnected"},
   channel_ : Sockets \cup {None}, timers : Nat, gaveUp : BOOLEAN]

TypeOK ==
  /\ client \in ClientType /\ connector \in ConnectorType
  /\ retry_ \in BOOLEAN
  /\ op = None \/ op \in OpType
  /\ sock \in [Sockets -> {"closed", "inProgress", "ready", "failed", "used"}]
  /\ polled \subseteq Sockets
  /\ \A s \in Sockets : sock[s] = "used" => conn[s] \in TypeOfConnection({"loop"}, {})
  /\ closeCallback_ \in [Sockets -> {"client", "loop"}]
  /\ client.connection_ # None => conn[client.connection_] # None

Init ==
  /\ client = [alive |-> TRUE, connect_ |-> TRUE, connection_ |-> None]
  /\ retry_ \in Retries
  /\ connector = [connect_ |-> FALSE, state_ |-> "kDisconnected", channel_ |-> None,
                  timers |-> 0, gaveUp |-> FALSE]
  /\ sock = [s \in Sockets |-> "closed"]
  /\ polled = {}
  /\ conn = [s \in Sockets |-> None]
  /\ closeCallback_ = [s \in Sockets |-> "client"]
  /\ pc = "functors" /\ active = {} /\ batch = <<>> /\ tasks = <<>>
  /\ restarting = FALSE
  /\ op = None
  /\ connects = 0 /\ calls = 0
  /\ stopped = FALSE

-----------------------------------------------------------------------------
(* The Connector, in the loop: c is the Connector as the caller left it, q *)
(* the queue *)

\* Mutant: nothing is tried again.
RetryMutant(c) == [c EXCEPT !.state_ = "kDisconnected"]

\* retry, but for the socket, which is closed
Retry(c) == [c EXCEPT !.state_ = "kDisconnected",
                      !.timers = @ + IF c.connect_ THEN 1 ELSE 0]

\* connecting: channel_ is replaced, and what it was is destroyed.
Connecting(c, s, how) ==
  /\ connector' = [c EXCEPT !.state_ = "kConnecting", !.channel_ = s]
  /\ polled' = polled \cup {s}
  /\ sock' = [sock EXCEPT ![s] = how]
  /\ conn' = [conn EXCEPT ![s] = None]

\* connect: a refusal is tried again, other errors are not.
Connect(c, q) ==
  /\ tasks' = q
  /\ \/ \E s \in {t \in Sockets : ~Open(t)} :
          \/ "0" \in Results /\ Connecting(c, s, "ready")
          \/ "EINTR" \in Results /\ Connecting(c, s, "inProgress")
     \/ "ECONNREFUSED" \in Results /\ connector' = Retry(c) /\ UNCHANGED sockets
     \/ /\ "EACCES" \in Results
        /\ connector' = [c EXCEPT !.gaveUp = TRUE]
        /\ UNCHANGED sockets

\* Mutant: connect_ is not looked at.
StartInLoopMutant(c, q) == Connect(c, q)

StartInLoop(c, q) ==
  IF c.connect_ THEN Connect(c, q)
  ELSE connector' = c /\ tasks' = q /\ UNCHANGED sockets

\* Mutant: the channel stays in the poller.
RemoveAndResetChannelMutant(s, q) ==
  /\ tasks' = Append(q, Functor("resetChannel", None))
  /\ UNCHANGED polled

RemoveAndResetChannel(s, q) ==
  /\ polled' = polled \ {s}
  /\ tasks' = Append(q, Functor("resetChannel", None))

\* Mutant: the descriptor is forgotten.
CloseSocketMutant(s) == sock' = sock

CloseSocket(s) == sock' = [sock EXCEPT ![s] = "closed"]

\* stopInLoop and handleError: the attempt is given up, and begun again if
\* connect_ still says so.
GiveUp(s, q) ==
  /\ RemoveAndResetChannel(s, q)
  /\ CloseSocket(s)
  /\ connector' = Retry(connector)
  /\ UNCHANGED conn

\* Mutant: connection_ is not set.
NewClientConnectionMutant(s) ==
  /\ sock' = [sock EXCEPT ![s] = "used"]
  /\ conn' = [conn EXCEPT ![s] = ConnectEstablished(NewConnection("loop"))]
  /\ closeCallback_' = [closeCallback_ EXCEPT ![s] = "client"]
  /\ UNCHANGED client

\* TcpClient::newConnection
NewClientConnection(s) ==
  /\ sock' = [sock EXCEPT ![s] = "used"]
  /\ conn' = [conn EXCEPT ![s] = ConnectEstablished(NewConnection("loop"))]
  /\ client' = [client EXCEPT !.connection_ = s]
  /\ closeCallback_' = [closeCallback_ EXCEPT ![s] = "client"]

\* handleWrite: a connection to itself is given up; one that is no longer
\* wanted is closed.
HandleConnected(s) ==
  \/ /\ "self" \in Results
     /\ GiveUp(s, tasks)
     /\ UNCHANGED <<client, closeCallback_>>
  \/ /\ RemoveAndResetChannel(s, tasks)
     /\ connector' = [connector EXCEPT !.state_ = "kConnected"]
     /\ IF connector.connect_
        THEN NewClientConnection(s)
        ELSE CloseSocket(s) /\ UNCHANGED <<conn, client, closeCallback_>>

\* A Connector channel's event: handleError comes before handleWrite, which then
\* finds that state_ has changed.  A destroyed channel is taken to do nothing.
HandleAttempt(s) ==
  IF s \in polled /\ connector.channel_ = s /\ connector.state_ = "kConnecting"
  THEN IF sock[s] = "ready" THEN HandleConnected(s)
       ELSE GiveUp(s, tasks) /\ UNCHANGED <<client, closeCallback_>>
  ELSE UNCHANGED <<client, connector, sockets, closeCallback_, tasks>>

-----------------------------------------------------------------------------
(* The end of a connection *)

\* removeConnection up to the test before restart; nothing for a client that is gone
RemoveConnection(s) ==
  /\ restarting' = (client.alive /\ retry_ /\ client.connect_)
  /\ client' = IF client.alive THEN [client EXCEPT !.connection_ = None] ELSE client

\* TcpConnection::handleClose with closeCallback_
Close(s, q) ==
  /\ conn' = [conn EXCEPT ![s] = HandleClose(@)]
  /\ IF closeCallback_[s] = "client"
     THEN RemoveConnection(s)
     ELSE UNCHANGED <<client, restarting>>
  /\ tasks' = IF closeCallback_[s] = "client" /\ ~client.alive THEN q
              ELSE Append(q, Functor("connectDestoryed", s))
  /\ UNCHANGED <<connector, sock, polled, closeCallback_>>

-----------------------------------------------------------------------------
(* The loop *)

\* What epoll reports: an attempt that is decided, a connection's end.
Ready == {[ev |-> "attempt", sock |-> s] :
            s \in {t \in polled : sock[t] \in {"ready", "failed"}}}
         \cup {[ev |-> "conn", sock |-> s] :
            s \in {t \in Sockets : Alive(t) /\ ClosesOnEvent(conn[t])}}

\* A timer may have expired or not.  It is set for 500 ms at least, so the functor
\* GiveUp queued beside it has run by then.
Poll(expired) ==
  /\ pc = "functors" /\ batch = <<>> /\ ~restarting
  /\ expired => /\ connector.timers > 0
                /\ \A k \in DOMAIN tasks : tasks[k].fn # "resetChannel"
  /\ active' = Ready \cup IF expired THEN {Timer} ELSE {}
  /\ active' # {} \/ tasks # <<>>
  /\ pc' = "events"
  /\ UNCHANGED <<client, connector, sockets, closeCallback_, batch, tasks,
                 restarting, owner>>

\* A timer runs startInLoop; a channel's event is an attempt's or a connection's.
HandleEvent(e) ==
  /\ pc = "events" /\ ~restarting
  /\ e \in active
  /\ active' = active \ {e}
  /\ \/ /\ e = Timer
        /\ StartInLoop([connector EXCEPT !.timers = @ - 1], tasks)
        /\ UNCHANGED <<client, closeCallback_, restarting>>
     \/ e.ev = "attempt" /\ HandleAttempt(e.sock) /\ UNCHANGED restarting
     \/ e.ev = "conn" /\ Close(e.sock, tasks)
  /\ UNCHANGED <<pc, batch, owner>>

\* The rest of removeConnection: Connector::restart
Restart ==
  /\ restarting
  /\ restarting' = FALSE
  /\ IF ConnectorAlive
     THEN StartInLoop([connector EXCEPT !.state_ = "kDisconnected", !.connect_ = TRUE],
                      tasks)
     ELSE UNCHANGED <<connector, tasks, sockets>>
  /\ UNCHANGED <<client, closeCallback_, pc, active, batch, owner>>

\* doPendingFunctors begins.
Swap ==
  /\ pc = "events" /\ active = {} /\ ~restarting
  /\ pc' = "functors"
  /\ batch' = tasks /\ tasks' = <<>>
  /\ UNCHANGED <<client, connector, sockets, closeCallback_, active, restarting, owner>>

\* Functors on a Connector that is gone are taken to do nothing.
RunConnectorFunctor(f) ==
  /\ f.sock = None
  /\ IF ~ConnectorAlive
     THEN UNCHANGED <<connector, tasks, sockets>>
     ELSE \/ f.fn = "startInLoop" /\ StartInLoop(connector, tasks)
          \/ /\ f.fn = "stopInLoop"
             /\ IF connector.state_ = "kConnecting" /\ connector.channel_ # None
                THEN GiveUp(connector.channel_, tasks)
                ELSE UNCHANGED <<connector, tasks, sockets>>
          \/ /\ f.fn = "resetChannel"
             /\ connector' = [connector EXCEPT !.channel_ = None]
             /\ UNCHANGED <<tasks, sockets>>
  /\ UNCHANGED <<client, closeCallback_, restarting>>

\* connectDestoryed, shutdownInLoop, setCloseCallback and forceCloseInLoop
RunConnectionFunctor(f) ==
  \/ /\ f.fn = "connectDestoryed" /\ conn' = [conn EXCEPT ![f.sock] = ConnectDestoryed(@)]
     /\ UNCHANGED <<client, connector, sock, polled, closeCallback_, tasks, restarting>>
  \/ /\ f.fn = "shutdownInLoop"
     /\ conn' = IF Alive(f.sock) THEN [conn EXCEPT ![f.sock] = ShutdownInLoop(@)] ELSE conn
     /\ UNCHANGED <<client, connector, sock, polled, closeCallback_, tasks, restarting>>
  \/ /\ f.fn = "setCloseCallback" /\ closeCallback_' = [closeCallback_ EXCEPT ![f.sock] = "loop"]
     /\ UNCHANGED <<client, connector, sockets, tasks, restarting>>
  \/ /\ f.fn = "forceCloseInLoop"
     /\ IF CanForceClose(conn[f.sock])
        THEN Close(f.sock, tasks)
        ELSE UNCHANGED <<client, connector, sockets, closeCallback_, tasks, restarting>>

RunFunctor ==
  /\ pc = "functors" /\ batch # <<>> /\ ~restarting
  /\ RunConnectorFunctor(Head(batch)) \/ RunConnectionFunctor(Head(batch))
  /\ batch' = Tail(batch)
  /\ UNCHANGED <<pc, active, owner>>

LoopNext == (\E expired \in BOOLEAN : Poll(expired)) \/ (\E e \in active : HandleEvent(e))
            \/ Restart \/ Swap \/ RunFunctor

-----------------------------------------------------------------------------
(* The kernel and the server *)

\* An attempt that was interrupted is decided.
Decided(s) ==
  /\ sock[s] = "inProgress"
  /\ \E how \in {"ready", "failed"} : sock' = [sock EXCEPT ![s] = how]
  /\ UNCHANGED <<client, connector, polled, conn, closeCallback_, loop, tasks, owner>>

ServerCloses(s) ==
  /\ Alive(s) /\ conn[s].peer = "open"
  /\ conn' = [conn EXCEPT ![s].peer = "closed"]
  /\ UNCHANGED <<client, connector, sock, polled, closeCallback_, loop, tasks, owner>>

-----------------------------------------------------------------------------
(* The owner *)

\* A call begins; connect, disconnect and stop store connect_ of the client.
Call(call) ==
  /\ op = None /\ client.alive
  /\ call \in OwnerOps
  /\ IF call = "connect"
     THEN connects < MaxConnects /\ connects' = connects + 1 /\ UNCHANGED calls
     ELSE calls < MaxCalls /\ calls' = calls + 1 /\ UNCHANGED connects
  /\ client' = [client EXCEPT !.connect_ = (call = "connect")]
  /\ stopped' = (stopped /\ call # "connect")
  /\ op' = [call |-> call, step |-> 1, conn |-> None, unique |-> FALSE]
  /\ UNCHANGED <<retry_, connector, sockets, closeCallback_, loop, tasks>>

In(call, step) == op # None /\ op.call = call /\ op.step = step
NextStep == op' = [op EXCEPT !.step = @ + 1]

\* Connector::start and stop store connect_ ...
StoreConnect ==
  /\ In("connect", 1) \/ In("stop", 1)
  /\ connector' = [connector EXCEPT !.connect_ = (op.call = "connect")]
  /\ stopped' = (op.call = "stop")
  /\ NextStep
  /\ UNCHANGED <<client, retry_, sockets, closeCallback_, loop, tasks, connects, calls>>

\* ... and queue a functor.
QueueFunctor ==
  /\ In("connect", 2) \/ In("stop", 2)
  /\ tasks' = Append(tasks, Functor(IF op.call = "connect" THEN "startInLoop"
                                    ELSE "stopInLoop", None))
  /\ op' = None
  /\ UNCHANGED <<client, retry_, connector, sockets, closeCallback_, loop, connects,
                 calls, stopped>>

\* disconnect shuts down the connection, if there is one, under mtx_; the race
\* between the test and the store of its state_ is in TcpServer.
Disconnect ==
  /\ In("disconnect", 1)
  /\ op' = None
  /\ LET s == client.connection_
     IN  IF s # None /\ conn[s].state_ = "kConnected"
         THEN /\ conn' = [conn EXCEPT ![s].state_ = "kDisconnecting"]
              /\ tasks' = Append(tasks, Functor("shutdownInLoop", s))
         ELSE UNCHANGED <<conn, tasks>>
  /\ UNCHANGED <<client, retry_, connector, sock, polled, closeCallback_, loop,
                 connects, calls, stopped>>

\* connection_.unique(): a functor may hold the connection too, or the handler of
\* an event the loop is at.
Unique(s) == IF HeldByFunctor(s) THEN {FALSE}
             ELSE IF CarefulOwner THEN {TRUE} ELSE BOOLEAN

\* forceClose, if the connection was its client's alone
ForceClose(s, unique, q) ==
  IF unique /\ CanForceClose(conn[s])
  THEN /\ conn' = [conn EXCEPT ![s].state_ = "kDisconnecting"]
       /\ tasks' = Append(q, Functor("forceCloseInLoop", s))
  ELSE conn' = conn /\ tasks' = q

Gone == client' = [client EXCEPT !.alive = FALSE, !.connection_ = None]

MayDestroy(thread) == /\ thread \in DestroyedIn /\ op = None /\ client.alive
                      /\ CarefulOwner => /\ client.connection_ # None
                                         /\ thread = "owner" => ~retry_

\* The destructor in the loop's thread, where closeCallback_ is replaced at once
DestroyInLoop ==
  /\ MayDestroy("loop") /\ ~restarting
  /\ LET s == client.connection_
     IN  IF s # None
         THEN /\ \E unique \in Unique(s) : ForceClose(s, unique, tasks)
              /\ closeCallback_' = [closeCallback_ EXCEPT ![s] = "loop"]
              /\ UNCHANGED connector
         ELSE /\ connector' = [connector EXCEPT !.connect_ = FALSE]
              /\ tasks' = Append(tasks, Functor("stopInLoop", None))
              /\ UNCHANGED <<conn, closeCallback_>>
  /\ Gone
  /\ UNCHANGED <<sock, polled, loop, owner>>

\* The destructor in the owner's thread: it copies connection_, ...
Destroy ==
  /\ MayDestroy("owner")
  /\ LET s == client.connection_
     IN  \E unique \in IF s = None THEN {FALSE} ELSE Unique(s) :
           op' = [call |-> "destroy", step |-> 1, conn |-> s, unique |-> unique]
  /\ UNCHANGED <<client, retry_, connector, sockets, closeCallback_, loop, tasks,
                 connects, calls, stopped>>

\* ... has closeCallback_ replaced or tells the Connector to stop, ...
DestroyFirst ==
  /\ In("destroy", 1)
  /\ NextStep
  /\ IF op.conn # None
     THEN tasks' = Append(tasks, Functor("setCloseCallback", op.conn)) /\ UNCHANGED connector
     ELSE connector' = [connector EXCEPT !.connect_ = FALSE] /\ UNCHANGED tasks
  /\ UNCHANGED <<client, retry_, sockets, closeCallback_, loop, connects, calls, stopped>>

\* ... and closes the connection or queues stopInLoop ...
DestroySecond ==
  /\ In("destroy", 2)
  /\ NextStep
  /\ IF op.conn # None THEN ForceClose(op.conn, op.unique, tasks)
     ELSE tasks' = Append(tasks, Functor("stopInLoop", None)) /\ UNCHANGED conn
  /\ UNCHANGED <<client, retry_, connector, sock, polled, closeCallback_, loop,
                 connects, calls, stopped>>

\* ... before the members of the client go.
DestroyLast ==
  /\ In("destroy", 3)
  /\ Gone
  /\ op' = None
  /\ UNCHANGED <<retry_, connector, sockets, closeCallback_, loop, tasks, connects,
                 calls, stopped>>

OwnerStep == StoreConnect \/ QueueFunctor \/ Disconnect
             \/ DestroyFirst \/ DestroySecond \/ DestroyLast

Next == \/ LoopNext
        \/ \E s \in Sockets : Decided(s) \/ ServerCloses(s)
        \/ \E call \in OwnerOps : Call(call)
        \/ OwnerStep \/ Destroy \/ DestroyInLoop

Spec == Init /\ [][Next]_vars

\* The loop runs; timers expire; the owner completes its calls; and of attempts
\* made again and again one succeeds.
FairSpec ==
  /\ Spec
  /\ WF_vars(LoopNext) /\ SF_vars(Poll(TRUE)) /\ WF_vars(OwnerStep)
  /\ SF_vars(LoopNext /\ \E s \in Sockets : sock[s] # "ready" /\ sock'[s] = "ready")
  /\ SF_vars(LoopNext /\ \E s \in Sockets : sock[s] = "ready" /\ sock'[s] = "used")
  /\ \A s \in Sockets : WF_vars(Decided(s))
                       /\ SF_vars(Decided(s) /\ sock'[s] = "ready")

-----------------------------------------------------------------------------
(* Properties *)

\* The poller, which holds bare pointers, knows no channel that is destroyed: of
\* an attempt given up, stopped, restarted or overtaken, or of a connection.
PolledChannelsLive ==
  /\ \A s \in polled : connector.channel_ = s /\ ConnectorAlive
  /\ \A s \in Sockets :
       conn[s] # None /\ conn[s].status_ = "kAdded" => sock[s] = "used" /\ Alive(s)

\* No descriptor leaks, and none has two owners: an open one is the attempt's
\* the Connector is at, or a connection's that is alive.
SocketsOwned ==
  \A s \in Sockets :
    Open(s) => \/ sock[s] = "used" /\ s \notin polled
               \/ /\ s \in polled /\ connector.state_ = "kConnecting"
                  /\ connector.channel_ = s

Up(s) == conn[s] # None /\ sock[s] = "used" /\ conn[s].ups > conn[s].downs

\* connection() is the connection that is up, however often the client has
\* connected again; at most one is, and none while an attempt is under way.
ConnectionKnown ==
  \A s \in Sockets :
    /\ Up(s) /\ client.alive => client.connection_ = s /\ polled = {}
    /\ Up(s) => \A t \in Sockets : Up(t) => s = t

\* Once stop() has returned and the loop has run its stopInLoop, no attempt is
\* under way: neither the one stop() found nor one a pending retry began.  A
\* client that reconnects by itself is exempt: restart() may undo a stop().
StopHolds ==
  stopped /\ ~retry_ /\ op = None
    /\ Functor("stopInLoop", None) \notin Range(batch \o tasks)
    => polled = {}

\* A client that is to reconnect gets a connection, again after every loss,
\* until it is told not to or connect(2) fails with an error that is not retried.
Wants == client.alive /\ retry_ /\ client.connect_ /\ connector.connect_
Reconnects ==
  Wants ~> (~Wants \/ connector.gaveUp \/ \E s \in Sockets : Up(s))

-----------------------------------------------------------------------------
(* What the code does not do *)

\* channel.h, on tie: calling a member function of an object that is gone is what
\* has to be prevented.  The destructor queues stopInLoop on a Connector it frees.
NoFunctorOnDestroyed ==
  \A k \in DOMAIN batch :
    batch[k].fn \in {"startInLoop", "stopInLoop", "resetChannel"} => ConnectorAlive
=============================================================================
