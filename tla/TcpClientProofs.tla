-------------------------- MODULE TcpClientProofs --------------------------
(***************************************************************************)
(* For every set of sockets, results of connect(2) and calls: a client     *)
(* that is destroyed while it has a connection, as CarefulOwner says, and  *)
(* connects once, by itself again or not, leaves no destroyed channel in   *)
(* the poller, leaks no descriptor, knows the one connection that is up,   *)
(* and once stopped begins no attempt.                                     *)
(***************************************************************************)
EXTENDS TcpClient, SequenceTheorems, TLAPS

-----------------------------------------------------------------------------
(* The inductive invariant *)

Connections == TypeOfConnection({"loop"}, {})

\* The functors on a Connector, and those that hold a connection
ConnectorFns == {"startInLoop", "stopInLoop", "resetChannel"}
Holding == {"connectDestoryed", "setCloseCallback", "forceCloseInLoop"}
FunctorType == [fn : ConnectorFns \cup Holding \cup {"shutdownInLoop"}, sock : Sockets \cup {None}]

Start == Functor("startInLoop", None)
Stop  == Functor("stopInLoop", None)
Reset == Functor("resetChannel", None)

\* The functors the loop is at, those that are queued behind them, and all of them
Early == Range(batch)
Late  == Range(tasks)
Waiting == Early \cup Late

\* A connection is up and in the poller, or down and no longer there.
IsUp(k) == /\ k.status_ = "kAdded" /\ k.state_ \in {"kConnected", "kDisconnecting"}
           /\ k.ups = 1 /\ k.downs = 0 /\ k.events_ = {"read"}
IsDown(k) == /\ k.status_ \in {"kDeleted", "kNew"} /\ k.state_ = "kDisconnected"
             /\ k.ups = 1 /\ k.downs = 1

\* The sockets that have a connection, and those whose connection is up
Known == {s \in Sockets : conn[s] # None}
Ups   == {s \in Sockets : conn[s] # None /\ IsUp(conn[s])}

Doing(call) == op # None /\ op.call = call

Events == {Timer} \cup [ev : {"attempt", "conn"}, sock : Sockets]

TypeInv ==
  /\ client \in ClientType /\ connector \in ConnectorType
  /\ retry_ \in BOOLEAN /\ restarting \in BOOLEAN /\ stopped \in BOOLEAN
  /\ op = None \/ op \in OpType
  /\ batch \in Seq(FunctorType) /\ tasks \in Seq(FunctorType)
  /\ active \subseteq Events
  /\ connects \in Nat

\* Each connection is up or down, and has the socket.
ConnInv ==
  /\ conn \in [Sockets -> Connections \cup {None}]
  /\ \A s \in Known : IsUp(conn[s]) \/ IsDown(conn[s])
  /\ \A s \in Sockets : s \in Known <=> sock[s] = "used"

\* There is one attempt at most, and the Connector is at it.
AttemptInv ==
  /\ sock \in [Sockets -> {"closed", "inProgress", "ready", "failed", "used"}]
  /\ polled = {s \in Sockets : sock[s] \in {"inProgress", "ready", "failed"}}
  /\ polled \subseteq {connector.channel_}
  /\ connector.state_ = "kConnecting" <=> polled # {}

\* What leads to a connection: a start that is called or queued, a retry that is timed, an
\* attempt, and, once there was one, restart().  At any time there is one of them or the
\* connection, or none.
Starting == Doing("connect") \/ Start \in Waiting
Idle == ~Starting /\ connector.timers = 0 /\ polled = {} /\ ~restarting

StartsOnce(q) == \A j, k \in DOMAIN q : q[j] = Start /\ q[k] = Start => j = k

DriverInv ==
  /\ connector.timers \in {0, 1}
  /\ Starting => connector.timers = 0 /\ polled = {} /\ ~restarting
  /\ connector.timers = 1 => polled = {} /\ ~restarting
  /\ polled # {} => ~restarting
  /\ Ups # {} => Idle
  /\ connects <= 1 /\ (connects = 0 => Idle /\ Ups = {})
  /\ ~client.alive \/ Doing("destroy") => Idle
  /\ restarting => retry_

\* It is queued once.
StartInv ==
  /\ StartsOnce(batch) /\ StartsOnce(tasks)
  /\ ~(Start \in Early /\ Start \in Late)
  /\ Doing("connect") => Start \notin Waiting

ConnEvent(s) == [ev |-> "conn", sock |-> s]

\* The functor that destroys the channel of one attempt has run before there is another.
ResetInv ==
  /\ Reset \in Waiting =>
       polled = {} /\ ~Starting /\ ~restarting /\ Timer \notin active /\ connects # 0
  /\ Ups # {} /\ Reset \in Late => pc = "events" /\ \A s \in Sockets : ConnEvent(s) \notin active

ActiveInv ==
  /\ pc = "events" => batch = <<>>
  /\ pc = "functors" => active = {}
  /\ Timer \in active => connector.timers = 1
  /\ \A s \in Sockets : ConnEvent(s) \in active => s \in Ups

QueueInv ==
  \A f \in Waiting :
    \/ f.fn \in ConnectorFns /\ f.sock = None
    \/ f.fn = "shutdownInLoop" /\ f.sock \in Sockets
    \/ /\ f.fn \in Holding /\ f.sock \in Known
       /\ f.fn = "connectDestoryed" => f.sock \notin Ups

CallbackType == [Sockets -> {"client", "loop"}]

\* The client holds the connection that is up; where the client is gone, the functor does
\* that closes it.
HeldInv ==
  /\ client.connection_ # None => client.connection_ \in Known
  /\ client.alive /\ ~Doing("destroy") =>
       /\ client.connection_ # None => client.connection_ \in Ups
       /\ \A f \in Waiting : f.fn \notin {"setCloseCallback", "forceCloseInLoop"}
       /\ \A s \in Ups : closeCallback_[s] = "client"
  /\ Doing("destroy") =>
       /\ op.conn \in Known /\ op.unique /\ ~retry_ /\ client.alive
       /\ client.connection_ \in {None, op.conn}
       /\ op.step = 3 /\ op.conn \in Ups => Functor("forceCloseInLoop", op.conn) \in Waiting
  /\ ~client.alive => op = None /\ client.connection_ = None
  /\ \A s \in Ups : IF client.alive THEN client.connection_ = s
                    ELSE Functor("forceCloseInLoop", s) \in Waiting
  /\ \A s, t \in Ups : s = t
  /\ closeCallback_ \in CallbackType

StopInv ==
  stopped /\ ~retry_ =>
    /\ ~connector.connect_
    /\ polled = {} \/ Stop \in Waiting \/ In("stop", 2)

IInv == /\ TypeInv /\ ConnInv /\ AttemptInv /\ DriverInv /\ StartInv /\ ResetInv
        /\ ActiveInv /\ QueueInv /\ HeldInv /\ StopInv

-----------------------------------------------------------------------------
(* The queue *)

\* A functor is its name and its connection.
LEMMA FunctorIs ==
  ASSUME NEW f \in FunctorType
  PROVE  f = Functor(f.fn, f.sock)
BY DEF FunctorType, Functor

\* and what it takes to be one.
LEMMA FunctorTyped ==
  ASSUME NEW fn \in ConnectorFns \cup Holding \cup {"shutdownInLoop"}, NEW s \in Sockets \cup {None}
  PROVE  Functor(fn, s) \in FunctorType /\ Functor(fn, s).fn = fn /\ Functor(fn, s).sock = s
BY DEF FunctorType, Functor

\* What an empty queue holds
LEMMA EmptyQueue == <<>> \in Seq(FunctorType) /\ Range(<<>>) = {} /\ StartsOnce(<<>>)
<1>1. <<>> \in Seq(FunctorType) /\ DOMAIN <<>> = {}
  <2>1. <<>> \in Seq(FunctorType) /\ Len(<<>>) = 0
    BY EmptySeq
  <2>2. DOMAIN <<>> = 1 .. Len(<<>>)
    BY <2>1, LenProperties
  <2>3. 1 .. 0 = {}
    OBVIOUS
  <2> QED BY <2>1, <2>2, <2>3
<1> QED BY <1>1 DEF Range, StartsOnce

\* one that a functor is pushed to
LEMMA PushedQueue ==
  ASSUME NEW q \in Seq(FunctorType), NEW f \in FunctorType
  PROVE  /\ Append(q, f) \in Seq(FunctorType)
         /\ Range(Append(q, f)) = Range(q) \cup {f}
         /\ StartsOnce(q) /\ (f = Start => Start \notin Range(q)) => StartsOnce(Append(q, f))
<1> DEFINE r == Append(q, f)
           n == Len(q) + 1
<1>1. /\ r \in Seq(FunctorType)
      /\ DOMAIN r = DOMAIN q \cup {n} /\ n \notin DOMAIN q
      /\ (\A i \in DOMAIN q : r[i] = q[i]) /\ r[n] = f
  <2>1. DOMAIN q = 1 .. Len(q) /\ Len(q) \in Nat
    BY LenProperties
  <2>2. DOMAIN r = 1 .. Len(q) + 1
    BY AppendProperties, LenProperties
  <2> QED BY <2>1, <2>2, AppendProperties
<1> HIDE DEF r, n
<1>2. Range(r) = Range(q) \cup {f}
  BY <1>1 DEF Range
<1>3. ASSUME StartsOnce(q), f = Start => Start \notin Range(q)
      PROVE  StartsOnce(r)
  <2>1. ASSUME NEW j \in DOMAIN r, NEW k \in DOMAIN r, r[j] = Start, r[k] = Start
        PROVE  j = k
    <3>1. CASE f = Start
      <4>1. \A i \in DOMAIN q : q[i] # Start
        BY <1>3, <3>1 DEF Range
      <4> QED BY <1>1, <2>1, <4>1
    <3>2. CASE f # Start
      <4>1. j \in DOMAIN q /\ k \in DOMAIN q
        BY <1>1, <2>1, <3>2
      <4> QED BY <1>1, <1>3, <2>1, <4>1 DEF StartsOnce
    <3> QED BY <3>1, <3>2
  <2> QED BY <2>1 DEF StartsOnce
<1> QED BY <1>1, <1>2, <1>3 DEF r

\* one whose head is popped
LEMMA PoppedQueue ==
  ASSUME NEW q \in Seq(FunctorType), q # <<>>
  PROVE  /\ Tail(q) \in Seq(FunctorType) /\ Head(q) \in FunctorType
         /\ Range(q) = Range(Tail(q)) \cup {Head(q)}
         /\ StartsOnce(q) => /\ StartsOnce(Tail(q))
                             /\ Head(q) = Start => Start \notin Range(Tail(q))
<1> DEFINE r == Tail(q)
<1>1. /\ r \in Seq(FunctorType) /\ Head(q) \in FunctorType
      /\ 1 \in DOMAIN q /\ q[1] = Head(q)
      /\ \A i \in DOMAIN r : i + 1 \in DOMAIN q /\ r[i] = q[i + 1]
      /\ \A j \in DOMAIN q : j = 1 \/ (j - 1 \in DOMAIN r /\ r[j - 1] = q[j])
      /\ \A i, j \in DOMAIN r : i + 1 = j + 1 => i = j
      /\ \A i \in DOMAIN r : i + 1 # 1
  <2>1. /\ DOMAIN q = 1 .. Len(q) /\ Len(q) \in Nat \ {0}
        /\ r \in Seq(FunctorType) /\ Len(r) = Len(q) - 1
        /\ \A i \in 1 .. Len(r) : r[i] = q[i + 1]
    BY LenProperties, EmptySeq, HeadTailProperties
  <2>2. DOMAIN r = 1 .. Len(q) - 1
    BY <2>1, LenProperties
  <2>3. q[1] = Head(q) /\ Head(q) \in FunctorType
    BY <2>1, HeadTailProperties
  <2> HIDE DEF r
  <2> QED BY <2>1, <2>2, <2>3
<1> HIDE DEF r
<1>2. Range(q) = Range(r) \cup {Head(q)}
  <2>1. ASSUME NEW x \in Range(q) PROVE x \in Range(r) \/ x = Head(q)
    <3>1. PICK j \in DOMAIN q : q[j] = x
      BY DEF Range
    <3>2. CASE j = 1
      BY <1>1, <3>1, <3>2
    <3>3. CASE j - 1 \in DOMAIN r /\ r[j - 1] = q[j]
      BY <3>1, <3>3 DEF Range
    <3> QED BY <1>1, <3>2, <3>3
  <2>2. \A x \in Range(r) : x \in Range(q)
    BY <1>1 DEF Range
  <2>3. Head(q) \in Range(q)
    BY <1>1 DEF Range
  <2> QED BY <2>1, <2>2, <2>3
<1>3. ASSUME StartsOnce(q) PROVE StartsOnce(r)
  <2>1. ASSUME NEW j \in DOMAIN r, NEW k \in DOMAIN r, r[j] = Start, r[k] = Start
        PROVE  j = k
    <3>1. j + 1 = k + 1
      BY <1>1, <1>3, <2>1 DEF StartsOnce
    <3> QED BY <1>1, <3>1
  <2> QED BY <2>1 DEF StartsOnce
<1>4. ASSUME StartsOnce(q), Head(q) = Start, Start \in Range(r) PROVE FALSE
  <2>1. PICK i \in DOMAIN r : r[i] = Start
    BY <1>4 DEF Range
  <2>2. i + 1 = 1
    BY <1>1, <1>4, <2>1 DEF StartsOnce
  <2> QED BY <1>1, <2>2
<1> QED BY <1>1, <1>2, <1>3, <1>4 DEF r

\* and what the two hold together, as HeldByFunctor has them
LEMMA Both ==
  ASSUME TypeInv
  PROVE  Range(batch \o tasks) = Waiting
<1> DEFINE m == Len(batch)
           n == Len(tasks)
           q == batch \o tasks
<1>1. /\ batch \in Seq(FunctorType) /\ tasks \in Seq(FunctorType)
      /\ m \in Nat /\ n \in Nat /\ DOMAIN batch = 1 .. m /\ DOMAIN tasks = 1 .. n
  BY LenProperties DEF TypeInv
<1>2. /\ q \in Seq(FunctorType) /\ Len(q) = m + n
      /\ \A i \in 1 .. m + n : q[i] = IF i <= m THEN batch[i] ELSE tasks[i - m]
  BY <1>1, ConcatProperties
<1>3. DOMAIN q = 1 .. m + n
  BY <1>2, LenProperties
<1> HIDE DEF m, n, q
<1>4. \A i \in 1 .. m : i \in 1 .. m + n /\ q[i] = batch[i]
  BY <1>1, <1>2
<1>5. \A i \in 1 .. n : i + m \in 1 .. m + n /\ q[i + m] = tasks[i]
  <2> SUFFICES ASSUME NEW i \in 1 .. n
               PROVE  i + m \in 1 .. m + n /\ q[i + m] = tasks[i]
    OBVIOUS
  <2>1. i + m \in 1 .. m + n /\ ~(i + m <= m) /\ (i + m) - m = i
    BY <1>1
  <2> QED BY <1>2, <2>1
<1>6. \A j \in 1 .. m + n : (j \in 1 .. m /\ q[j] = batch[j])
                            \/ (j - m \in 1 .. n /\ q[j] = tasks[j - m])
  <2> SUFFICES ASSUME NEW j \in 1 .. m + n, ~(j <= m)
               PROVE  j - m \in 1 .. n /\ q[j] = tasks[j - m]
    BY <1>1, <1>2
  <2>1. j - m \in 1 .. n
    BY <1>1
  <2> QED BY <1>2, <2>1
<1>7. \A x \in Range(q) : x \in Waiting
  BY <1>1, <1>3, <1>6 DEF Range, Waiting, Early, Late
<1>8. \A x \in Early : x \in Range(q)
  BY <1>1, <1>3, <1>4 DEF Range, Early
<1>9. \A x \in Late : x \in Range(q)
  BY <1>1, <1>3, <1>5 DEF Range, Late
<1> QED BY <1>7, <1>8, <1>9 DEF q, Waiting

\* A connection that is held by the client, by the destructor or by a functor
LEMMA AliveIs ==
  ASSUME TypeInv, NEW s \in Sockets
  PROVE  Alive(s) <=> /\ s \in Known
                      /\ \/ client.connection_ = s
                         \/ op # None /\ op.conn = s
                         \/ \E f \in Waiting : f.sock = s /\ f.fn # "shutdownInLoop"
BY Both DEF Alive, HeldByFunctor, Known

-----------------------------------------------------------------------------
(* What the handlers of TcpConnection do to its record *)

\* The parts of a record that the properties look at
LEMMA NewIsUp ==
  LET k == ConnectEstablished(NewConnection("loop"))
  IN  k \in Connections /\ IsUp(k)
<1>1. <<>> \in Seq({})
  BY EmptySeq
<1> DEFINE n == NewConnection("loop")
           c == [n EXCEPT !.state_ = "kConnected", !.ups = @ + 1]
           k == Update(c, c.events_ \cup {"read"})
<1>2. n \in Connections /\ n.ups = 0 /\ n.downs = 0 /\ n.events_ = {} /\ n.status_ = "kNew"
  BY <1>1 DEF Connections, TypeOfConnection, NewConnection, StateE
<1> HIDE DEF n
<1>3. /\ c \in Connections /\ c.ups = 1 /\ c.downs = 0 /\ c.events_ = {}
      /\ c.status_ = "kNew" /\ c.state_ = "kConnected"
  <2>1. n.ups + 1 = 1 /\ 1 \in Nat
    BY <1>2
  <2>2. c \in Connections
    BY <1>2, <2>1 DEF Connections, TypeOfConnection, StateE
  <2> QED BY <1>2, <2>1, <2>2 DEF Connections, TypeOfConnection
<1> HIDE DEF c
<1>4. k \in Connections /\ IsUp(k)
  BY <1>3 DEF Connections, TypeOfConnection, Update, IsUp, StateE
<1> QED BY <1>4 DEF ConnectEstablished, EnableReading, c, n

\* handleClose, which the loop runs and forceCloseInLoop calls
LEMMA ClosedIsDown ==
  ASSUME NEW k \in Connections, IsUp(k)
  PROVE  HandleClose(k) \in Connections /\ IsDown(HandleClose(k))
<1> DEFINE c == [k EXCEPT !.state_ = "kDisconnected", !.downs = @ + 1, !.closes = @ + 1]
<1>1. k.downs + 1 = 1 /\ 1 \in Nat /\ k.closes + 1 \in Nat
  BY DEF Connections, TypeOfConnection, IsUp
<1>2. c \in Connections
  BY <1>1 DEF Connections, TypeOfConnection, StateE
<1>3. c.state_ = "kDisconnected" /\ c.downs = 1 /\ c.ups = 1 /\ c.status_ = "kAdded"
  BY <1>1 DEF Connections, TypeOfConnection, IsUp
<1> HIDE DEF c
<1>4. Update(c, {}) \in Connections /\ IsDown(Update(c, {}))
  BY <1>2, <1>3 DEF Connections, TypeOfConnection, Update, IsDown, StateE
<1> QED BY <1>4 DEF HandleClose, DisableAll, c

\* connectDestoryed comes behind it, so it only takes the channel out of the poller.
LEMMA DestroyedIsDown ==
  ASSUME NEW k \in Connections, IsDown(k)
  PROVE  ConnectDestoryed(k) \in Connections /\ IsDown(ConnectDestoryed(k))
BY DEF Connections, TypeOfConnection, ConnectDestoryed, RemoveChannel, IsDown

\* Another thread stores kDisconnecting.
LEMMA DisconnectingIsUp ==
  ASSUME NEW k \in Connections, IsUp(k)
  PROVE  LET r == [k EXCEPT !.state_ = "kDisconnecting"]
         IN  r \in Connections /\ IsUp(r)
BY DEF Connections, TypeOfConnection, IsUp, StateE

\* shutdownInLoop ends the output only.
LEMMA ShutIsAsBefore ==
  ASSUME NEW k \in Connections
  PROVE  /\ ShutdownInLoop(k) \in Connections
         /\ (IsUp(k) => IsUp(ShutdownInLoop(k))) /\ (IsDown(k) => IsDown(ShutdownInLoop(k)))
BY DEF Connections, TypeOfConnection, ShutdownInLoop, IsUp, IsDown

\* The server closes its end.
LEMMA ServerIsAsBefore ==
  ASSUME NEW k \in Connections
  PROVE  LET r == [k EXCEPT !.peer = "closed"]
         IN  r \in Connections /\ (IsUp(k) => IsUp(r)) /\ (IsDown(k) => IsDown(r))
BY DEF Connections, TypeOfConnection, IsUp, IsDown

\* forceCloseInLoop closes a connection that is up
LEMMA UpIsNotDown ==
  ASSUME NEW k, IsUp(k)
  PROVE  ~IsDown(k) /\ CanForceClose(k)
BY DEF IsUp, IsDown, CanForceClose

\* and passes by one that is down, as do disconnect() and shutdownInLoop.
LEMMA DownIsClosed ==
  ASSUME NEW k, IsDown(k)
  PROVE  ~IsUp(k) /\ ~CanForceClose(k) /\ k.state_ # "kConnected" /\ k.status_ # "kAdded"
BY DEF IsUp, IsDown, CanForceClose

-----------------------------------------------------------------------------
(* What a step does to the connections *)

\* No connection, socket or call is None.
LEMMA NoneIsNone == None \notin Connections /\ None \notin Sockets /\ None \notin OpType
BY NoneAssumption DEF Connections

\* The connections of the two sets
LEMMA KnownIs ==
  ASSUME ConnInv, NEW s \in Sockets
  PROVE  /\ s \in Known <=> conn[s] # None
         /\ s \in Known => conn[s] \in Connections
         /\ s \in Ups <=> s \in Known /\ IsUp(conn[s])
         /\ s \in Known /\ s \notin Ups => IsDown(conn[s])
BY DEF ConnInv, Known, Ups

\* Nothing
LEMMA ConnSame ==
  ASSUME ConnInv, conn' = conn, sock' = sock
  PROVE  ConnInv' /\ Known' = Known /\ Ups' = Ups
BY DEF ConnInv, Known, Ups

\* it changes a connection, which stays up or down
LEMMA ConnKept ==
  ASSUME ConnInv, NEW s \in Known, NEW r \in Connections,
         IsUp(conn[s]) => IsUp(r), IsDown(conn[s]) => IsDown(r),
         conn' = [conn EXCEPT ![s] = r], sock' = sock
  PROVE  ConnInv' /\ Known' = Known /\ Ups' = Ups
<1>1. s \in Sockets /\ conn[s] # None /\ r # None /\ (IsUp(conn[s]) \/ IsDown(conn[s]))
  BY NoneIsNone DEF ConnInv, Known
<1>2. IsUp(r) <=> IsUp(conn[s])
  BY <1>1, UpIsNotDown, DownIsClosed
<1>3. \A t \in Sockets : conn'[t] = IF t = s THEN r ELSE conn[t]
  BY DEF ConnInv
<1>4. Known' = Known /\ Ups' = Ups
  BY <1>1, <1>2, <1>3 DEF Known, Ups
<1>5. conn' \in [Sockets -> Connections \cup {None}]
  BY DEF ConnInv
<1>6. \A t \in Known : IsUp(conn'[t]) \/ IsDown(conn'[t])
  BY <1>1, <1>3 DEF ConnInv, Known
<1> QED BY <1>4, <1>5, <1>6 DEF ConnInv

\* it closes one,
LEMMA ConnClosed ==
  ASSUME ConnInv, NEW s \in Ups, conn' = [conn EXCEPT ![s] = HandleClose(@)], sock' = sock
  PROVE  ConnInv' /\ Known' = Known /\ Ups' = Ups \ {s}
<1> DEFINE r == HandleClose(conn[s])
<1>1. s \in Sockets /\ conn[s] # None /\ conn[s] \in Connections
  BY DEF ConnInv, Ups
<1>2. r \in Connections /\ IsDown(r) /\ ~IsUp(r) /\ r # None
  BY <1>1, ClosedIsDown, DownIsClosed, NoneIsNone DEF Ups
<1>3. conn' = [conn EXCEPT ![s] = r]
  OBVIOUS
<1> HIDE DEF r
<1>4. \A t \in Sockets : conn'[t] = IF t = s THEN r ELSE conn[t]
  BY <1>3 DEF ConnInv
<1>5. Known' = Known /\ Ups' = Ups \ {s}
  BY <1>1, <1>2, <1>4 DEF Known, Ups
<1>6. conn' \in [Sockets -> Connections \cup {None}]
  BY <1>2, <1>3 DEF ConnInv
<1>7. \A t \in Known : IsUp(conn'[t]) \/ IsDown(conn'[t])
  BY <1>2, <1>4 DEF ConnInv, Known
<1> QED BY <1>5, <1>6, <1>7 DEF ConnInv

\* it makes one, on a socket that had none,
LEMMA ConnMade ==
  ASSUME ConnInv, AttemptInv, NEW s \in Sockets \ Known,
         conn' = [conn EXCEPT ![s] = ConnectEstablished(NewConnection("loop"))],
         sock' = [sock EXCEPT ![s] = "used"]
  PROVE  ConnInv' /\ Known' = Known \cup {s} /\ Ups' = Ups \cup {s}
<1> DEFINE r == ConnectEstablished(NewConnection("loop"))
<1>2. r \in Connections /\ IsUp(r) /\ r # None
  BY NewIsUp, NoneIsNone
<1>3. conn' = [conn EXCEPT ![s] = r]
  OBVIOUS
<1> HIDE DEF r
<1>4. \A t \in Sockets : /\ conn'[t] = IF t = s THEN r ELSE conn[t]
                         /\ sock'[t] = IF t = s THEN "used" ELSE sock[t]
  BY <1>3 DEF ConnInv, AttemptInv
<1>5. Known' = Known \cup {s} /\ Ups' = Ups \cup {s}
  BY <1>2, <1>4 DEF Known, Ups
<1>6. conn' \in [Sockets -> Connections \cup {None}]
  BY <1>2, <1>3 DEF ConnInv
<1>7. \A t \in Known' : IsUp(conn'[t]) \/ IsDown(conn'[t])
  BY <1>2, <1>4, <1>5 DEF ConnInv, Known
<1>8. \A t \in Sockets : t \in Known' <=> sock'[t] = "used"
  BY <1>4, <1>5 DEF ConnInv
<1> QED BY <1>5, <1>6, <1>7, <1>8 DEF ConnInv

\* it uses a socket that has none,
LEMMA ConnBeside ==
  ASSUME ConnInv, AttemptInv, NEW s \in Sockets \ Known, NEW how, how # "used",
         conn' = conn, sock' = [sock EXCEPT ![s] = how]
  PROVE  ConnInv' /\ Known' = Known /\ Ups' = Ups
<1>1. Known' = Known /\ Ups' = Ups
  BY DEF Known, Ups
<1>2. \A t \in Sockets : sock'[t] = IF t = s THEN how ELSE sock[t]
  BY DEF AttemptInv
<1> QED BY <1>1, <1>2 DEF ConnInv

\* or one whose connection is over.
LEMMA ConnOver ==
  ASSUME ConnInv, AttemptInv, NEW s \in Sockets \ Ups, NEW how, how # "used",
         conn' = [conn EXCEPT ![s] = None], sock' = [sock EXCEPT ![s] = how]
  PROVE  ConnInv' /\ Known' = Known \ {s} /\ Ups' = Ups
<1>1. \A t \in Sockets : /\ conn'[t] = IF t = s THEN None ELSE conn[t]
                         /\ sock'[t] = IF t = s THEN how ELSE sock[t]
  BY DEF ConnInv, AttemptInv
<1>2. Known' = Known \ {s} /\ Ups' = Ups
  BY <1>1 DEF Known, Ups
<1>3. conn' \in [Sockets -> Connections \cup {None}]
  BY DEF ConnInv
<1>4. \A t \in Known' : IsUp(conn'[t]) \/ IsDown(conn'[t])
  BY <1>1, <1>2 DEF ConnInv
<1>5. \A t \in Sockets : t \in Known' <=> sock'[t] = "used"
  BY <1>1, <1>2 DEF ConnInv
<1> QED BY <1>2, <1>3, <1>4, <1>5 DEF ConnInv

-----------------------------------------------------------------------------
(* The Connector *)

\* retry, when no retry waits
LEMMA RetryIs ==
  ASSUME NEW c \in ConnectorType, c.timers = 0
  PROVE  /\ Retry(c) \in ConnectorType /\ Retry(c).state_ = "kDisconnected"
         /\ Retry(c).channel_ = c.channel_ /\ Retry(c).connect_ = c.connect_
         /\ Retry(c).timers \in {0, 1}
<1> DEFINE t == c.timers + (IF c.connect_ THEN 1 ELSE 0)
<1>1. t \in {0, 1} /\ t \in Nat
  BY DEF ConnectorType
<1>2. Retry(c) = [c EXCEPT !.state_ = "kDisconnected", !.timers = t]
  BY DEF Retry
<1> HIDE DEF t
<1> QED BY <1>1, <1>2 DEF ConnectorType

\* An attempt that begins, or does not: startInLoop, where there is none and no connection
LEMMA Attempted ==
  ASSUME IInv, NEW c \in ConnectorType, c.timers = 0, c.state_ # "kConnecting",
         polled = {}, Ups = {}, StartInLoop(c, tasks)
  PROVE  /\ connector' \in ConnectorType /\ connector'.timers \in {0, 1}
         /\ connector'.connect_ = c.connect_
         /\ polled' # {} => connector'.timers = 0 /\ c.connect_
         /\ AttemptInv' /\ ConnInv' /\ Ups' = {}
         /\ Known' \subseteq Known /\ \A s \in Known \ Known' : ~Alive(s)
         /\ tasks' = tasks
<1> DEFINE Done(d) == /\ d \in ConnectorType /\ d.timers \in {0, 1}
                       /\ d.connect_ = c.connect_ /\ d.state_ # "kConnecting"
                       /\ connector' = d /\ UNCHANGED sockets
<1>1. tasks' = tasks
  BY DEF StartInLoop, Connect
<1>2. ASSUME NEW d, Done(d)
      PROVE  /\ connector' \in ConnectorType /\ connector'.timers \in {0, 1}
             /\ connector'.connect_ = c.connect_
             /\ polled' = {} /\ AttemptInv' /\ ConnInv' /\ Ups' = {} /\ Known' = Known
  <2>1. sock' = sock /\ polled' = polled /\ conn' = conn
    BY <1>2 DEF sockets
  <2>2. ConnInv' /\ Known' = Known /\ Ups' = Ups
    BY <2>1, ConnSame DEF IInv
  <2>3. AttemptInv'
    BY <1>2, <2>1 DEF AttemptInv, IInv
  <2> QED BY <1>2, <2>1, <2>2, <2>3
<1>3. CASE \E d : Done(d)
  <2>1. PICK d : Done(d)
    BY <1>3
  <2> HIDE DEF Done
  <2> QED BY <1>1, <1>2, <2>1
<1>4. CASE \E s \in Sockets : ~Open(s) /\ \E how \in {"ready", "inProgress"} : Connecting(c, s, how)
           /\ c.connect_
  <2>1. PICK s \in Sockets, how \in {"ready", "inProgress"} :
          ~Open(s) /\ Connecting(c, s, how) /\ c.connect_
    BY <1>4
  <2>2. /\ connector' = [c EXCEPT !.state_ = "kConnecting", !.channel_ = s]
        /\ polled' = {s}
        /\ sock' = [sock EXCEPT ![s] = how] /\ conn' = [conn EXCEPT ![s] = None]
    BY <2>1 DEF Connecting
  <2>3. ConnInv' /\ Known' = Known \ {s} /\ Ups' = Ups
    BY <2>2, ConnOver DEF IInv
  <2>4. /\ connector' \in ConnectorType /\ connector'.timers = 0
        /\ connector'.connect_ = c.connect_
        /\ connector'.state_ = "kConnecting" /\ connector'.channel_ = s
    BY <2>2 DEF ConnectorType
  <2>5. AttemptInv'
    <3>1. sock' \in [Sockets -> {"closed", "inProgress", "ready", "failed", "used"}]
      BY <2>2 DEF AttemptInv, IInv
    <3>2. polled' = {t \in Sockets : sock'[t] \in {"inProgress", "ready", "failed"}}
      BY <2>2 DEF AttemptInv, IInv
    <3> QED BY <2>2, <2>4, <3>1, <3>2 DEF AttemptInv
  <2>6. s \in Known => ~Alive(s)
    BY <2>1 DEF Open, ConnInv, IInv
  <2> QED BY <1>1, <2>1, <2>2, <2>3, <2>4, <2>5, <2>6
<1>5. Done(c) \/ Done(Retry(c)) \/ Done([c EXCEPT !.gaveUp = TRUE])
      \/ \E s \in Sockets : ~Open(s) /\ \E how \in {"ready", "inProgress"} : Connecting(c, s, how)
           /\ c.connect_
  <2>1. CASE ~c.connect_
    BY <2>1 DEF StartInLoop, ConnectorType
  <2>2. CASE c.connect_
    <3>1. Connect(c, tasks)
      BY <2>2 DEF StartInLoop
    <3>2. CASE connector' = Retry(c) /\ UNCHANGED sockets
      BY <3>2, RetryIs
    <3>3. CASE connector' = [c EXCEPT !.gaveUp = TRUE] /\ UNCHANGED sockets
      BY <3>3 DEF ConnectorType
    <3>4. CASE \E s \in {t \in Sockets : ~Open(t)} :
                 Connecting(c, s, "ready") \/ Connecting(c, s, "inProgress")
      BY <2>2, <3>4
    <3> QED BY <3>1, <3>2, <3>3, <3>4 DEF Connect
  <2> QED BY <2>1, <2>2
<1> HIDE DEF Done
<1> QED BY <1>3, <1>4, <1>5

\* An attempt that is given up, for good or not
LEMMA GivenUp ==
  ASSUME IInv, NEW s \in polled, RemoveAndResetChannel(s, tasks), CloseSocket(s), conn' = conn,
         NEW c \in ConnectorType, c.state_ # "kConnecting", connector' = c
  PROVE  /\ polled' = {} /\ tasks' = Append(tasks, Reset)
         /\ ConnInv' /\ AttemptInv' /\ Known' = Known /\ Ups' = Ups
<1>1. polled = {s} /\ s \in Sockets /\ sock[s] # "used" /\ s \notin Known
  BY DEF IInv, AttemptInv, ConnInv
<1>2. polled' = {} /\ tasks' = Append(tasks, Reset)
  BY <1>1 DEF RemoveAndResetChannel, Reset
<1>3. sock' = [sock EXCEPT ![s] = "closed"]
  BY DEF CloseSocket
<1>4. ConnInv' /\ Known' = Known /\ Ups' = Ups
  BY <1>1, <1>3, ConnBeside DEF IInv
<1>5. AttemptInv'
  <2>1. sock' \in [Sockets -> {"closed", "inProgress", "ready", "failed", "used"}]
    BY <1>3 DEF AttemptInv, IInv
  <2>2. polled' = {t \in Sockets : sock'[t] \in {"inProgress", "ready", "failed"}}
    BY <1>1, <1>2, <1>3 DEF AttemptInv, IInv
  <2> QED BY <1>2, <2>1, <2>2 DEF AttemptInv
<1> QED BY <1>2, <1>4, <1>5

-----------------------------------------------------------------------------
(* What a step does to the queue *)

\* Nothing is queued or run.
LEMMA QueueSame ==
  ASSUME batch' = batch, tasks' = tasks
  PROVE  Early' = Early /\ Late' = Late /\ Waiting' = Waiting
BY DEF Early, Late, Waiting

\* A functor is queued,
LEMMA QueuePushed ==
  ASSUME TypeInv, StartInv, NEW f \in FunctorType, f = Start => Start \notin Waiting,
         batch' = batch, tasks' = Append(tasks, f)
  PROVE  /\ tasks' \in Seq(FunctorType) /\ Late' = Late \cup {f}
         /\ Early' = Early /\ Waiting' = Waiting \cup {f}
         /\ StartsOnce(tasks)' /\ StartsOnce(batch)' /\ ~(Start \in Early' /\ Start \in Late')
<1>1. tasks \in Seq(FunctorType) /\ StartsOnce(tasks) /\ StartsOnce(batch)
      /\ ~(Start \in Early /\ Start \in Late)
  BY DEF TypeInv, StartInv
<1>2. tasks' \in Seq(FunctorType) /\ Range(tasks') = Range(tasks) \cup {f}
  BY <1>1, PushedQueue
<1>3. StartsOnce(tasks')
  BY <1>1, PushedQueue DEF Late, Waiting
<1>4. Late' = Late \cup {f} /\ Early' = Early /\ Waiting' = Waiting \cup {f}
  BY <1>2 DEF Late, Early, Waiting
<1>5. StartsOnce(tasks)' /\ StartsOnce(batch)'
  BY <1>1, <1>3 DEF StartsOnce
<1> QED BY <1>1, <1>2, <1>4, <1>5 DEF Waiting

\* and one is taken.
LEMMA QueuePopped ==
  ASSUME TypeInv, StartInv, batch # <<>>, batch' = Tail(batch)
  PROVE  /\ batch' \in Seq(FunctorType) /\ Head(batch) \in FunctorType
         /\ Early = Early' \cup {Head(batch)} /\ StartsOnce(batch)'
         /\ Head(batch) = Start => Start \notin Early' /\ Start \notin Late
<1>1. batch \in Seq(FunctorType) /\ StartsOnce(batch) /\ ~(Start \in Early /\ Start \in Late)
  BY DEF TypeInv, StartInv
<1>2. /\ batch' \in Seq(FunctorType) /\ Head(batch) \in FunctorType
      /\ Range(batch) = Range(batch') \cup {Head(batch)} /\ StartsOnce(batch')
      /\ Head(batch) = Start => Start \notin Range(batch')
  BY <1>1, PoppedQueue
<1>3. StartsOnce(batch)'
  BY <1>2 DEF StartsOnce
<1> QED BY <1>1, <1>2, <1>3 DEF Early

\* Unlike the others, these have no connection.
LEMMA ConnectorFunctors ==
  /\ Start \in FunctorType /\ Start.fn = "startInLoop" /\ Start.sock = None
  /\ Stop \in FunctorType /\ Stop.fn = "stopInLoop" /\ Stop.sock = None
  /\ Reset \in FunctorType /\ Reset.fn = "resetChannel" /\ Reset.sock = None
  /\ Start # Stop /\ Stop # Reset /\ Start # Reset
BY DEF Start, Stop, Reset, Functor, FunctorType, ConnectorFns

-----------------------------------------------------------------------------
(* The initial state, and the steps of the loop *)

Careful == CarefulOwner /\ MaxConnects <= 1

\* The client before connect()
LEMMA InitInv ==
  ASSUME Init
  PROVE  IInv
<1> USE DEF Init
<1>1. Early = {} /\ Late = {} /\ Waiting = {}
  BY EmptyQueue DEF Early, Late, Waiting
<1>2. Known = {} /\ Ups = {}
  BY DEF Known, Ups
<1>3. TypeInv
  BY EmptyQueue, ClientAssumption DEF TypeInv, ClientType, ConnectorType
<1>4. ConnInv
  BY <1>2 DEF ConnInv
<1>5. AttemptInv
  BY DEF AttemptInv
<1>6. DriverInv
  BY <1>1, <1>2 DEF DriverInv, Idle, Starting, Doing
<1>7. StartInv
  BY <1>1, EmptyQueue DEF StartInv, Doing
<1>8. ResetInv
  BY <1>1 DEF ResetInv
<1>9. ActiveInv
  BY DEF ActiveInv
<1>10. QueueInv
  BY <1>1 DEF QueueInv
<1>11. HeldInv
  BY <1>1, <1>2 DEF HeldInv, Doing, CallbackType
<1>12. StopInv
  BY DEF StopInv
<1> QED BY <1>3, <1>4, <1>5, <1>6, <1>7, <1>8, <1>9, <1>10, <1>11, <1>12 DEF IInv

\* The loop takes the events that are ready.
LEMMA PollStep ==
  ASSUME IInv, NEW expired \in BOOLEAN, Poll(expired)
  PROVE  IInv'
<1> USE DEF IInv
<1>1. /\ pc = "functors" /\ batch = <<>> /\ pc' = "events" /\ ~restarting
      /\ active' = Ready \cup (IF expired THEN {Timer} ELSE {})
      /\ expired => connector.timers > 0 /\ \A k \in DOMAIN tasks : tasks[k].fn # "resetChannel"
      /\ UNCHANGED <<client, connector, sock, polled, conn, closeCallback_, batch, tasks,
                     restarting, retry_, op, connects, calls, stopped>>
  BY DEF Poll, sockets, owner
<1>2. Early' = Early /\ Late' = Late /\ Waiting' = Waiting
  BY <1>1, QueueSame
<1>3. ConnInv' /\ Known' = Known /\ Ups' = Ups
  BY <1>1, ConnSame
<1>4. active' \subseteq Events /\ \A s \in Sockets : ConnEvent(s) \in active' => s \in Ups
  <2>1. \A s \in Sockets : Alive(s) /\ ClosesOnEvent(conn[s]) => s \in Ups
    BY KnownIs, DownIsClosed DEF Alive, ClosesOnEvent, Known
  <2>2. polled \subseteq Sockets
    BY DEF AttemptInv
  <2>3. active' \subseteq Events
    BY <1>1, <2>2 DEF Ready, Events
  <2>4. \A s \in Sockets : ConnEvent(s) \in active' => s \in Ups
    BY <1>1, <2>1 DEF Ready, Timer, ConnEvent
  <2> QED BY <2>3, <2>4
<1>5. Timer \in active' => connector.timers = 1 /\ Reset \notin Waiting
  <2>1. Timer \notin Ready
    BY DEF Timer, Ready
  <2>2. expired => Reset \notin Late
    BY <1>1, ConnectorFunctors DEF Late, Range
  <2>3. Early = {}
    BY <1>1, EmptyQueue DEF Early
  <2>4. connector.timers > 0 => connector.timers = 1
    BY DEF DriverInv
  <2> QED BY <1>1, <2>1, <2>2, <2>3, <2>4 DEF Waiting
<1>6. TypeInv'
  BY <1>1, <1>4 DEF TypeInv
<1>7. AttemptInv'
  BY <1>1 DEF AttemptInv
<1>8. DriverInv'
  BY <1>1, <1>2, <1>3 DEF DriverInv, Idle, Starting, Doing
<1>9. StartInv'
  BY <1>1, <1>2 DEF StartInv, StartsOnce, Doing
<1>10. ResetInv'
  BY <1>1, <1>2, <1>3, <1>5 DEF ResetInv, Starting, Doing
<1>11. ActiveInv'
  BY <1>1, <1>3, <1>4, <1>5 DEF ActiveInv
<1>12. QueueInv'
  BY <1>2, <1>3 DEF QueueInv
<1>13. HeldInv'
  BY <1>1, <1>2, <1>3 DEF HeldInv, Doing
<1>14. StopInv'
  BY <1>1, <1>2 DEF StopInv, In
<1> QED BY <1>3, <1>6, <1>7, <1>8, <1>9, <1>10, <1>11, <1>12, <1>13, <1>14

\* doPendingFunctors takes the queue: what was Late is Early.
LEMMA SwapStep ==
  ASSUME IInv, Swap
  PROVE  IInv'
<1> USE DEF IInv
<1>1. /\ pc = "events" /\ active = {} /\ ~restarting /\ pc' = "functors"
      /\ batch' = tasks /\ tasks' = <<>> /\ batch = <<>>
      /\ UNCHANGED <<client, connector, sock, polled, conn, closeCallback_, active,
                     restarting, retry_, op, connects, calls, stopped>>
  BY DEF Swap, sockets, owner, ActiveInv
<1>2. Early' = Late /\ Late' = {} /\ Waiting' = Waiting
  BY <1>1, EmptyQueue DEF Early, Late, Waiting
<1>3. ConnInv' /\ Known' = Known /\ Ups' = Ups
  BY <1>1, ConnSame
<1>6. TypeInv'
  BY <1>1, EmptyQueue DEF TypeInv
<1>7. AttemptInv'
  BY <1>1 DEF AttemptInv
<1>8. DriverInv'
  BY <1>1, <1>2, <1>3 DEF DriverInv, Idle, Starting, Doing
<1>9. StartInv'
  BY <1>1, <1>2, EmptyQueue DEF StartInv, StartsOnce, Doing
<1>10. ResetInv'
  BY <1>1, <1>2, <1>3 DEF ResetInv, Starting, Doing
<1>11. ActiveInv'
  BY <1>1, <1>3 DEF ActiveInv
<1>12. QueueInv'
  BY <1>2, <1>3 DEF QueueInv
<1>13. HeldInv'
  BY <1>1, <1>2, <1>3 DEF HeldInv, Doing
<1>14. StopInv'
  BY <1>1, <1>2 DEF StopInv, In
<1> QED BY <1>3, <1>6, <1>7, <1>8, <1>9, <1>10, <1>11, <1>12, <1>13, <1>14

-----------------------------------------------------------------------------
(* The kernel, the server and the owner *)

\* An attempt that was interrupted goes on in the kernel.
LEMMA DecidedStep ==
  ASSUME IInv, NEW s \in Sockets, Decided(s)
  PROVE  IInv'
<1> USE DEF IInv
<1>1. /\ sock[s] = "inProgress"
      /\ UNCHANGED <<client, connector, polled, conn, closeCallback_, pc, active, batch, tasks,
                     restarting, retry_, op, connects, calls, stopped>>
  BY DEF Decided, loop, owner
<1>2. PICK how \in {"ready", "failed"} : sock' = [sock EXCEPT ![s] = how]
  BY DEF Decided
<1>3. s \notin Known /\ how # "used"
  BY <1>1 DEF ConnInv
<1>4. ConnInv' /\ Known' = Known /\ Ups' = Ups
  BY <1>1, <1>2, <1>3, ConnBeside
<1>5. Early' = Early /\ Late' = Late /\ Waiting' = Waiting
  BY <1>1, QueueSame
<1>6. TypeInv'
  BY <1>1, <1>4, <1>5 DEF TypeInv
<1>7. AttemptInv'
  BY <1>1, <1>2 DEF AttemptInv
<1>8. DriverInv'
  BY <1>1, <1>4, <1>5 DEF DriverInv, Idle, Starting, Doing
<1>9. StartInv'
  BY <1>1, <1>4, <1>5 DEF StartInv, StartsOnce, Doing
<1>10. ResetInv'
  BY <1>1, <1>4, <1>5 DEF ResetInv, Starting, Doing
<1>11. ActiveInv'
  BY <1>1, <1>4, <1>5 DEF ActiveInv
<1>12. QueueInv'
  BY <1>1, <1>4, <1>5 DEF QueueInv
<1>13. HeldInv'
  BY <1>1, <1>4, <1>5 DEF HeldInv, Doing
<1>14. StopInv'
  BY <1>1, <1>4, <1>5 DEF StopInv, In
<1> QED BY <1>4, <1>6, <1>7, <1>8, <1>9, <1>10, <1>11, <1>12, <1>13, <1>14

\* A connection's end of stream
LEMMA ServerClosesStep ==
  ASSUME IInv, NEW s \in Sockets, ServerCloses(s)
  PROVE  IInv'
<1> USE DEF IInv
<1>1. /\ Alive(s) /\ conn' = [conn EXCEPT ![s].peer = "closed"]
      /\ UNCHANGED <<client, connector, sock, polled, closeCallback_, pc, active, batch, tasks,
                     restarting, retry_, op, connects, calls, stopped>>
  BY DEF ServerCloses, loop, owner
<1>2. s \in Known /\ conn[s] \in Connections
  BY <1>1, KnownIs DEF Alive
<1>3. ConnInv' /\ Known' = Known /\ Ups' = Ups
  <2> DEFINE r == [conn[s] EXCEPT !.peer = "closed"]
  <2>1. r \in Connections /\ (IsUp(conn[s]) => IsUp(r)) /\ (IsDown(conn[s]) => IsDown(r))
    BY <1>2, ServerIsAsBefore
  <2>2. conn' = [conn EXCEPT ![s] = r]
    BY <1>1
  <2> HIDE DEF r
  <2> QED BY <1>1, <1>2, <2>1, <2>2, ConnKept
<1>4. Early' = Early /\ Late' = Late /\ Waiting' = Waiting
  BY <1>1, QueueSame
<1>5. TypeInv'
  BY <1>1, <1>3, <1>4 DEF TypeInv
<1>6. AttemptInv'
  BY <1>1, <1>3, <1>4 DEF AttemptInv
<1>7. DriverInv'
  BY <1>1, <1>3, <1>4 DEF DriverInv, Idle, Starting, Doing
<1>8. StartInv'
  BY <1>1, <1>3, <1>4 DEF StartInv, StartsOnce, Doing
<1>9. ResetInv'
  BY <1>1, <1>3, <1>4 DEF ResetInv, Starting, Doing
<1>10. ActiveInv'
  BY <1>1, <1>3, <1>4 DEF ActiveInv
<1>11. QueueInv'
  BY <1>1, <1>3, <1>4 DEF QueueInv
<1>12. HeldInv'
  BY <1>1, <1>3, <1>4 DEF HeldInv, Doing
<1>13. StopInv'
  BY <1>1, <1>3, <1>4 DEF StopInv, In
<1> QED BY <1>3, <1>5, <1>6, <1>7, <1>8, <1>9, <1>10, <1>11, <1>12, <1>13

\* The owner enters connect(), disconnect() or stop().
LEMMA CallStep ==
  ASSUME Careful, IInv, NEW call \in OwnerOps, Call(call)
  PROVE  IInv'
<1> USE DEF IInv
<1> DEFINE new == [call |-> call, step |-> 1, conn |-> None, unique |-> FALSE]
<1>1. /\ op = None /\ client.alive /\ op' = new /\ call \in {"connect", "disconnect", "stop"}
      /\ client' = [client EXCEPT !.connect_ = (call = "connect")]
      /\ stopped' = (stopped /\ call # "connect")
      /\ UNCHANGED <<connector, sock, polled, conn, closeCallback_, pc, active, batch, tasks,
                     restarting, retry_>>
  BY ClientAssumption DEF Call, sockets, loop
<1>2. IF call = "connect" THEN connects = 0 /\ connects' = 1 ELSE connects' = connects
  BY ClientAssumption DEF Call, Careful, TypeInv
<1>3. op' \in OpType /\ op' # None /\ op'.call = call /\ op'.step = 1
  <2>1. new \in OpType /\ new.call = call /\ new.step = 1
    BY <1>1 DEF OpType
  <2> HIDE DEF new
  <2> QED BY <1>1, <2>1, NoneIsNone
<1>4. /\ client' \in ClientType
      /\ client'.alive = client.alive /\ client'.connection_ = client.connection_
  BY <1>1 DEF TypeInv, ClientType
<1>5. ConnInv' /\ Known' = Known /\ Ups' = Ups
  BY <1>1, ConnSame
<1>6. Early' = Early /\ Late' = Late /\ Waiting' = Waiting
  BY <1>1, QueueSame
<1> HIDE DEF new
<1>7. (Doing("connect")' <=> call = "connect") /\ ~Doing("destroy")' /\ ~Doing("connect")
      /\ ~Doing("destroy") /\ ~In("stop", 2)
  BY <1>1, <1>3 DEF Doing, In
<1>8. call = "connect" => Idle /\ Ups = {} /\ Start \notin Waiting /\ Reset \notin Waiting
                          /\ Timer \notin active
  BY <1>2 DEF DriverInv, Idle, Starting, ResetInv, ActiveInv
<1>9. TypeInv'
  BY <1>1, <1>2, <1>3, <1>4 DEF TypeInv
<1>10. AttemptInv'
  BY <1>1 DEF AttemptInv
<1>11. DriverInv'
  <2>1. Starting' <=> Starting \/ call = "connect"
    BY <1>6, <1>7 DEF Starting
  <2>2. CASE call = "connect"
    BY <1>1, <1>2, <1>5, <1>7, <2>1 DEF DriverInv, Idle
  <2>3. CASE call # "connect"
    BY <1>1, <1>2, <1>5, <1>7, <2>1 DEF DriverInv, Idle
  <2> QED BY <2>2, <2>3
<1>12. StartInv'
  BY <1>1, <1>6, <1>7, <1>8 DEF StartInv, StartsOnce
<1>13. ResetInv'
  BY <1>1, <1>2, <1>5, <1>6, <1>7 DEF ResetInv, Starting
<1>14. ActiveInv'
  BY <1>1, <1>5 DEF ActiveInv
<1>15. QueueInv'
  BY <1>5, <1>6 DEF QueueInv
<1>16. HeldInv'
  BY <1>1, <1>5, <1>6, <1>7 DEF HeldInv
<1>17. StopInv'
  BY <1>1, <1>6, <1>7 DEF StopInv
<1> QED BY <1>5, <1>9, <1>10, <1>11, <1>12, <1>13, <1>14, <1>15, <1>16, <1>17

\* It stores connect_
LEMMA StoreConnectStep ==
  ASSUME IInv, StoreConnect
  PROVE  IInv'
<1> USE DEF IInv
<1>1. /\ op # None /\ op.call \in {"connect", "stop"} /\ op.step = 1
      /\ connector' = [connector EXCEPT !.connect_ = (op.call = "connect")]
      /\ stopped' = (op.call = "stop") /\ op' = [op EXCEPT !.step = @ + 1]
      /\ UNCHANGED <<client, retry_, sock, polled, conn, closeCallback_, pc, active, batch, tasks,
                     restarting, connects, calls>>
  BY DEF StoreConnect, In, NextStep, sockets, loop
<1>2. op' \in OpType /\ op' # None /\ op'.call = op.call /\ op'.step = 2
  <2>1. op \in OpType /\ op.step + 1 = 2
    BY <1>1 DEF TypeInv
  <2>2. op' = [op EXCEPT !.step = 2]
    BY <1>1, <2>1
  <2>3. op' \in OpType /\ op'.call = op.call /\ op'.step = 2
    BY <2>1, <2>2 DEF OpType
  <2> QED BY <2>3, NoneIsNone
<1>3. /\ connector' \in ConnectorType /\ connector'.timers = connector.timers
      /\ connector'.state_ = connector.state_ /\ connector'.channel_ = connector.channel_
      /\ connector'.connect_ = (op.call = "connect")
  BY <1>1 DEF TypeInv, ConnectorType
<1>4. ConnInv' /\ Known' = Known /\ Ups' = Ups
  BY <1>1, ConnSame
<1>5. Early' = Early /\ Late' = Late /\ Waiting' = Waiting
  BY <1>1, QueueSame
<1>6. /\ Doing("connect")' = Doing("connect") /\ ~Doing("destroy")' /\ ~Doing("destroy")
      /\ op.call = "stop" => In("stop", 2)'
  BY <1>1, <1>2 DEF Doing, In
<1>7. TypeInv'
  BY <1>1, <1>2, <1>3 DEF TypeInv
<1>8. AttemptInv'
  BY <1>1 DEF AttemptInv
<1>9. DriverInv'
  BY <1>1, <1>4, <1>5, <1>6 DEF DriverInv, Idle, Starting
<1>10. StartInv'
  BY <1>1, <1>5, <1>6 DEF StartInv, StartsOnce
<1>11. ResetInv'
  BY <1>1, <1>4, <1>5, <1>6 DEF ResetInv, Starting
<1>12. ActiveInv'
  BY <1>1, <1>4 DEF ActiveInv
<1>13. QueueInv'
  BY <1>4, <1>5 DEF QueueInv
<1>14. HeldInv'
  BY <1>1, <1>4, <1>5, <1>6 DEF HeldInv
<1>15. StopInv'
  BY <1>1, <1>3, <1>6 DEF StopInv
<1> QED BY <1>4, <1>7, <1>8, <1>9, <1>10, <1>11, <1>12, <1>13, <1>14, <1>15

\* and queues the functor; a start was nowhere before (StartInv).
LEMMA QueueFunctorStep ==
  ASSUME IInv, QueueFunctor
  PROVE  IInv'
<1> USE DEF IInv
<1> DEFINE f == IF op.call = "connect" THEN Start ELSE Stop
<1>1. /\ op # None /\ op.call \in {"connect", "stop"} /\ op.step = 2
      /\ tasks' = Append(tasks, f) /\ op' = None
      /\ UNCHANGED <<client, connector, retry_, sock, polled, conn, closeCallback_, pc, active, batch,
                     restarting, connects, calls, stopped>>
  BY DEF QueueFunctor, In, Start, Stop, sockets, loop
<1>2. /\ f \in {Start, Stop} /\ (f = Start <=> op.call = "connect") /\ f \in FunctorType
      /\ f.fn \in ConnectorFns /\ f.sock = None /\ f # Reset
      /\ f.fn \notin {"setCloseCallback", "forceCloseInLoop"}
  BY <1>1, ConnectorFunctors DEF ConnectorFns
<1>3. f = Start => Start \notin Waiting
  BY <1>1, <1>2 DEF StartInv, Doing
<1> HIDE DEF f
<1>4. /\ tasks' \in Seq(FunctorType) /\ Late' = Late \cup {f}
      /\ Early' = Early /\ Waiting' = Waiting \cup {f}
      /\ StartsOnce(tasks)' /\ StartsOnce(batch)' /\ ~(Start \in Early' /\ Start \in Late')
  BY <1>1, <1>2, <1>3, QueuePushed
<1>5. ConnInv' /\ Known' = Known /\ Ups' = Ups
  BY <1>1, ConnSame
<1>6. /\ Doing("connect") <=> f = Start
      /\ ~Doing("connect")' /\ ~Doing("destroy")' /\ ~Doing("destroy")
      /\ In("stop", 2) => f = Stop
  BY <1>1, <1>2 DEF Doing, In
<1>7. TypeInv'
  BY <1>1, <1>2 DEF TypeInv
<1>8. AttemptInv'
  BY <1>1 DEF AttemptInv
<1>9. DriverInv'
  BY <1>1, <1>4, <1>5, <1>6 DEF DriverInv, Idle, Starting
<1>10. StartInv'
  BY <1>4, <1>6 DEF StartInv
<1>11. ResetInv'
  BY <1>1, <1>2, <1>4, <1>5, <1>6 DEF ResetInv, Starting
<1>12. ActiveInv'
  BY <1>1, <1>5 DEF ActiveInv
<1>13. QueueInv'
  BY <1>2, <1>4, <1>5 DEF QueueInv
<1>14. HeldInv'
  BY <1>1, <1>2, <1>4, <1>5, <1>6 DEF HeldInv
<1>15. StopInv'
  BY <1>1, <1>4, <1>6 DEF StopInv
<1> QED BY <1>5, <1>7, <1>8, <1>9, <1>10, <1>11, <1>12, <1>13, <1>14, <1>15

\* disconnect() shuts the connection down, if there is one.
LEMMA DisconnectStep ==
  ASSUME IInv, Disconnect
  PROVE  IInv'
<1> USE DEF IInv
<1> DEFINE s == client.connection_
           f == Functor("shutdownInLoop", s)
<1>1. /\ op # None /\ op.call = "disconnect" /\ op' = None
      /\ UNCHANGED <<client, connector, retry_, sock, polled, closeCallback_, pc, active, batch,
                     restarting, connects, calls, stopped>>
  BY DEF Disconnect, In, loop
<1>2. ~Doing("connect") /\ ~Doing("connect")' /\ ~Doing("destroy") /\ ~Doing("destroy")' /\ ~In("stop", 2)
  BY <1>1 DEF Doing, In
<1>3. CASE ~(s # None /\ conn[s].state_ = "kConnected")
  <2>1. conn' = conn /\ tasks' = tasks
    BY <1>3 DEF Disconnect
  <2>2. ConnInv' /\ Known' = Known /\ Ups' = Ups
    BY <1>1, <2>1, ConnSame
  <2>3. Early' = Early /\ Late' = Late /\ Waiting' = Waiting
    BY <1>1, <2>1, QueueSame
  <2>4. TypeInv'
    BY <1>1, <2>1 DEF TypeInv
  <2>5. AttemptInv'
    BY <1>1 DEF AttemptInv
  <2>6. DriverInv'
    BY <1>1, <1>2, <2>2, <2>3 DEF DriverInv, Idle, Starting
  <2>7. StartInv'
    BY <1>1, <1>2, <2>1, <2>3 DEF StartInv, StartsOnce
  <2>8. ResetInv'
    BY <1>1, <1>2, <2>2, <2>3 DEF ResetInv, Starting
  <2>9. ActiveInv'
    BY <1>1, <2>2 DEF ActiveInv
  <2>10. QueueInv'
    BY <2>2, <2>3 DEF QueueInv
  <2>11. HeldInv'
    BY <1>1, <1>2, <2>2, <2>3 DEF HeldInv
  <2>12. StopInv'
    BY <1>1, <1>2, <2>3 DEF StopInv
  <2> QED BY <2>2, <2>4, <2>5, <2>6, <2>7, <2>8, <2>9, <2>10, <2>11, <2>12
<1>4. CASE s # None /\ conn[s].state_ = "kConnected"
  <2>1. conn' = [conn EXCEPT ![s].state_ = "kDisconnecting"] /\ tasks' = Append(tasks, f)
    BY <1>4 DEF Disconnect
  <2>2. s \in Sockets /\ s \in Known /\ conn[s] \in Connections /\ IsUp(conn[s]) /\ ~IsDown(conn[s])
    <3>1. s \in Known /\ s \in Sockets
      BY <1>4 DEF HeldInv, Known
    <3>2. conn[s] \in Connections /\ (IsUp(conn[s]) \/ IsDown(conn[s]))
      BY <3>1, KnownIs
    <3> QED BY <1>4, <3>1, <3>2, DownIsClosed
  <2>3. ConnInv' /\ Known' = Known /\ Ups' = Ups
    <3> DEFINE r == [conn[s] EXCEPT !.state_ = "kDisconnecting"]
    <3>1. r \in Connections /\ IsUp(r)
      BY <2>2, DisconnectingIsUp
    <3>2. conn' = [conn EXCEPT ![s] = r]
      BY <2>1
    <3> HIDE DEF r, s
    <3> QED BY <1>1, <2>2, <3>1, <3>2, ConnKept
  <2>4. f \in FunctorType /\ f.fn = "shutdownInLoop" /\ f.sock = s
    BY <2>2, FunctorTyped
  <2>5. f # Start /\ f # Reset /\ f # Stop
    BY <2>4, ConnectorFunctors
  <2> HIDE DEF f, s
  <2>6. /\ tasks' \in Seq(FunctorType) /\ Late' = Late \cup {f}
        /\ Early' = Early /\ Waiting' = Waiting \cup {f}
        /\ StartsOnce(tasks)' /\ StartsOnce(batch)' /\ ~(Start \in Early' /\ Start \in Late')
    BY <1>1, <2>1, <2>4, <2>5, QueuePushed
  <2>7. TypeInv'
    BY <1>1, <2>6 DEF TypeInv
  <2>8. AttemptInv'
    BY <1>1 DEF AttemptInv
  <2>9. DriverInv'
    BY <1>1, <1>2, <2>3, <2>5, <2>6 DEF DriverInv, Idle, Starting
  <2>10. StartInv'
    BY <1>2, <2>6 DEF StartInv
  <2>11. ResetInv'
    BY <1>1, <1>2, <2>3, <2>5, <2>6 DEF ResetInv, Starting
  <2>12. ActiveInv'
    BY <1>1, <2>3 DEF ActiveInv
  <2>13. QueueInv'
    BY <2>2, <2>3, <2>4, <2>6 DEF QueueInv
  <2>14. HeldInv'
    BY <1>1, <1>2, <2>3, <2>4, <2>6 DEF HeldInv
  <2>15. StopInv'
    BY <1>1, <1>2, <2>6 DEF StopInv
  <2> QED BY <2>3, <2>7, <2>8, <2>9, <2>10, <2>11, <2>12, <2>13, <2>14, <2>15
<1> QED BY <1>3, <1>4

\* The destructor finds a connection that is up, and that the client alone holds.
LEMMA Destroyable ==
  ASSUME Careful, IInv, NEW thread, MayDestroy(thread)
  PROVE  LET s == client.connection_
         IN  /\ s \in Sockets /\ s \in Ups /\ s \in Known /\ s # None
             /\ Unique(s) = {TRUE} /\ Idle /\ (thread = "owner" => ~retry_)
             /\ op = None /\ client.alive
<1> USE DEF IInv
<1> DEFINE s == client.connection_
<1>1. op = None /\ client.alive /\ s # None /\ (thread = "owner" => ~retry_)
  BY DEF MayDestroy, Careful
<1>2. s \in Ups /\ \A f \in Waiting : f.fn \notin {"setCloseCallback", "forceCloseInLoop"}
  BY <1>1 DEF HeldInv, Doing
<1>3. s \in Sockets /\ s \in Known
  BY <1>2 DEF Ups, Known
<1>4. \A f \in Waiting : f.sock = s => f.fn = "shutdownInLoop"
  BY <1>1, <1>2 DEF QueueInv, Holding
<1>5. ~HeldByFunctor(s)
  BY <1>4, Both DEF HeldByFunctor
<1>6. Unique(s) = {TRUE}
  BY <1>5 DEF Unique, Careful
<1>7. Idle
  BY <1>2 DEF DriverInv
<1> QED BY <1>1, <1>2, <1>3, <1>6, <1>7

\* The destructor, in the loop's thread or in another: it copies connection_
LEMMA DestroyStep ==
  ASSUME Careful, IInv, Destroy
  PROVE  IInv'
<1> USE DEF IInv
<1> DEFINE s == client.connection_
           new == [call |-> "destroy", step |-> 1, conn |-> s, unique |-> TRUE]
<1>1. /\ s \in Sockets /\ s \in Ups /\ s \in Known /\ s # None
      /\ Unique(s) = {TRUE} /\ Idle /\ ~retry_ /\ op = None /\ client.alive
  BY Destroyable DEF Destroy
<1>2. /\ op' = new
      /\ UNCHANGED <<client, connector, retry_, sock, polled, conn, closeCallback_, pc, active, batch,
                     tasks, restarting, connects, calls, stopped>>
  BY <1>1 DEF Destroy, sockets, loop
<1>3. op' \in OpType /\ op' # None /\ op'.call = "destroy" /\ op'.step = 1 /\ op'.conn = s /\ op'.unique
  <2>1. new \in OpType /\ new.call = "destroy" /\ new.step = 1 /\ new.conn = s /\ new.unique
    BY <1>1 DEF OpType
  <2> HIDE DEF new
  <2> QED BY <1>2, <2>1, NoneIsNone
<1>4. ConnInv' /\ Known' = Known /\ Ups' = Ups
  BY <1>2, ConnSame
<1>5. Early' = Early /\ Late' = Late /\ Waiting' = Waiting
  BY <1>2, QueueSame
<1> HIDE DEF new
<1>6. ~Doing("connect") /\ ~Doing("connect")' /\ ~Doing("destroy") /\ Doing("destroy")' /\ ~In("stop", 2)
  BY <1>1, <1>3 DEF Doing, In
<1>7. Idle'
  BY <1>1, <1>2, <1>5, <1>6 DEF Idle, Starting
<1>8. TypeInv'
  BY <1>2, <1>3 DEF TypeInv
<1>9. AttemptInv'
  BY <1>2 DEF AttemptInv
<1>10. DriverInv'
  BY <1>1, <1>2, <1>5, <1>6, <1>7 DEF DriverInv, Starting
<1>11. StartInv'
  BY <1>2, <1>5, <1>6 DEF StartInv, StartsOnce
<1>12. ResetInv'
  BY <1>1, <1>2, <1>5, <1>6 DEF ResetInv, Starting
<1>13. ActiveInv'
  BY <1>2, <1>4 DEF ActiveInv
<1>14. QueueInv'
  BY <1>4, <1>5 DEF QueueInv
<1>15. HeldInv'
  BY <1>1, <1>2, <1>3, <1>4, <1>6 DEF HeldInv
<1>16. StopInv'
  BY <1>2, <1>5, <1>6 DEF StopInv
<1> QED BY <1>4, <1>8, <1>9, <1>10, <1>11, <1>12, <1>13, <1>14, <1>15, <1>16

\* What the destructor is in, in the owner's thread
LEMMA Destroying ==
  ASSUME IInv, NEW n, In("destroy", n)
  PROVE  /\ op \in OpType /\ op # None /\ op.call = "destroy" /\ op.step = n
         /\ op.conn \in Sockets /\ op.conn \in Known /\ op.conn # None /\ op.unique = TRUE
         /\ ~retry_ /\ client.alive /\ Idle
         /\ Doing("destroy") /\ ~Doing("connect") /\ ~In("stop", 2)
<1> USE DEF IInv
<1>1. /\ op # None /\ op.call = "destroy" /\ op.step = n /\ op \in OpType
      /\ Doing("destroy") /\ ~Doing("connect") /\ ~In("stop", 2)
  BY DEF In, Doing, TypeInv
<1>2. op.conn \in Known /\ op.unique /\ ~retry_ /\ client.alive
  BY <1>1 DEF HeldInv
<1>3. op.unique = TRUE
  BY <1>1, <1>2 DEF OpType
<1>4. Idle
  BY <1>1 DEF DriverInv
<1>5. op.conn \in Sockets /\ op.conn # None
  BY <1>2, NoneIsNone DEF Known
<1> QED BY <1>1, <1>2, <1>3, <1>4, <1>5

\* What every later step of it knows of op
LEMMA DestroyingNext ==
  ASSUME IInv, NEW n \in {1, 2}, In("destroy", n), NextStep
  PROVE  /\ op' \in OpType /\ op' # None /\ op'.call = "destroy"
         /\ op'.step = n + 1 /\ op'.conn = op.conn /\ op'.unique = TRUE
         /\ ~Doing("connect")' /\ Doing("destroy")'
<1> DEFINE m == n + 1
<1>1. op \in OpType /\ op.call = "destroy" /\ op.step = n /\ op.unique = TRUE
  BY Destroying
<1>2. m \in 1 .. 3 /\ op.step + 1 = m
  BY <1>1
<1> HIDE DEF m
<1>3. op' = [op EXCEPT !.step = m]
  BY <1>2 DEF NextStep
<1>4. /\ op' \in OpType /\ op'.call = "destroy"
      /\ op'.step = m /\ op'.conn = op.conn /\ op'.unique = TRUE
  BY <1>1, <1>2, <1>3 DEF OpType
<1> QED BY <1>4, NoneIsNone DEF m, Doing

\* forceClose of a connection that is up
LEMMA ForcedClose ==
  ASSUME TypeInv, ConnInv, StartInv, NEW s \in Ups, ForceClose(s, TRUE, tasks), sock' = sock, batch' = batch
  PROVE  LET f == Functor("forceCloseInLoop", s)
         IN  /\ ConnInv' /\ Known' = Known /\ Ups' = Ups
             /\ tasks' \in Seq(FunctorType) /\ Late' = Late \cup {f}
             /\ Early' = Early /\ Waiting' = Waiting \cup {f}
             /\ StartsOnce(tasks)' /\ StartsOnce(batch)' /\ ~(Start \in Early' /\ Start \in Late')
             /\ f.fn = "forceCloseInLoop" /\ f.sock = s /\ f # Start /\ f # Reset /\ f # Stop
<1> DEFINE f == Functor("forceCloseInLoop", s)
           r == [conn[s] EXCEPT !.state_ = "kDisconnecting"]
<1>1. s \in Sockets /\ s \in Known /\ conn[s] \in Connections /\ IsUp(conn[s]) /\ CanForceClose(conn[s])
      /\ ~IsDown(conn[s])
  BY KnownIs, UpIsNotDown DEF Ups
<1>2. conn' = [conn EXCEPT ![s] = r] /\ tasks' = Append(tasks, f)
  BY <1>1 DEF ForceClose
<1>3. r \in Connections /\ IsUp(r)
  BY <1>1, DisconnectingIsUp
<1> HIDE DEF r
<1>4. ConnInv' /\ Known' = Known /\ Ups' = Ups
  BY <1>1, <1>2, <1>3, ConnKept
<1>5. f \in FunctorType /\ f.fn = "forceCloseInLoop" /\ f.sock = s
  BY <1>1, FunctorTyped DEF Holding
<1>6. f # Start /\ f # Reset /\ f # Stop
  BY <1>5, ConnectorFunctors
<1> HIDE DEF f
<1>7. /\ tasks' \in Seq(FunctorType) /\ Late' = Late \cup {f}
      /\ Early' = Early /\ Waiting' = Waiting \cup {f}
      /\ StartsOnce(tasks)' /\ StartsOnce(batch)' /\ ~(Start \in Early' /\ Start \in Late')
  BY <1>2, <1>5, <1>6, QueuePushed
<1> QED BY <1>4, <1>5, <1>6, <1>7 DEF f

\* and of one that is down
LEMMA NotForced ==
  ASSUME ConnInv, NEW s \in Known, s \notin Ups, NEW q, ForceClose(s, TRUE, q)
  PROVE  conn' = conn /\ tasks' = q
<1>1. ~CanForceClose(conn[s])
  BY KnownIs, DownIsClosed DEF Known
<1> QED BY <1>1 DEF ForceClose

\* replaces closeCallback_, through the queue if it is not in the loop
LEMMA DestroyFirstStep ==
  ASSUME IInv, DestroyFirst
  PROVE  IInv'
<1> USE DEF IInv
<1> DEFINE s == op.conn
           f == Functor("setCloseCallback", s)
<1>1. /\ op \in OpType /\ op # None /\ op.call = "destroy"
      /\ s \in Sockets /\ s \in Known /\ s # None
      /\ ~retry_ /\ client.alive /\ Idle
      /\ Doing("destroy") /\ ~Doing("connect") /\ ~In("stop", 2)
  BY Destroying DEF DestroyFirst
<1>2. /\ op' \in OpType /\ op' # None /\ op'.call = "destroy" /\ op'.step = 2 /\ op'.conn = s
      /\ op'.unique = TRUE /\ ~Doing("connect")' /\ Doing("destroy")'
  <2>1. In("destroy", 1) /\ NextStep /\ 1 \in {1, 2} /\ 1 + 1 = 2
    BY DEF DestroyFirst
  <2> QED BY <2>1, DestroyingNext
<1>3. /\ tasks' = Append(tasks, f)
      /\ UNCHANGED <<client, connector, retry_, sock, polled, conn, closeCallback_, pc, active, batch,
                     restarting, connects, calls, stopped>>
  BY <1>1 DEF DestroyFirst, sockets, loop
<1>4. f \in FunctorType /\ f.fn = "setCloseCallback" /\ f.sock = s
  BY <1>1, FunctorTyped DEF Holding
<1>5. f # Start /\ f # Reset /\ f # Stop
  BY <1>4, ConnectorFunctors
<1>6. ConnInv' /\ Known' = Known /\ Ups' = Ups
  BY <1>3, ConnSame
<1> HIDE DEF f, s
<1>7. /\ tasks' \in Seq(FunctorType) /\ Late' = Late \cup {f}
      /\ Early' = Early /\ Waiting' = Waiting \cup {f}
      /\ StartsOnce(tasks)' /\ StartsOnce(batch)' /\ ~(Start \in Early' /\ Start \in Late')
  BY <1>3, <1>4, <1>5, QueuePushed
<1>8. Idle'
  BY <1>1, <1>2, <1>3, <1>5, <1>7 DEF Idle, Starting
<1>9. TypeInv'
  BY <1>2, <1>3, <1>4 DEF TypeInv
<1>10. AttemptInv'
  BY <1>3 DEF AttemptInv
<1>11. DriverInv'
  BY <1>2, <1>3, <1>5, <1>6, <1>7, <1>8 DEF DriverInv, Starting
<1>12. StartInv'
  BY <1>2, <1>7 DEF StartInv
<1>13. ResetInv'
  BY <1>2, <1>3, <1>5, <1>6, <1>7 DEF ResetInv, Starting
<1>14. ActiveInv'
  BY <1>3, <1>6 DEF ActiveInv
<1>15. QueueInv'
  BY <1>1, <1>4, <1>6, <1>7 DEF QueueInv, Holding
<1>16. HeldInv'
  BY <1>1, <1>2, <1>3, <1>6 DEF HeldInv, s
<1>17. StopInv'
  BY <1>1, <1>3, <1>7 DEF StopInv
<1> QED BY <1>6, <1>9, <1>10, <1>11, <1>12, <1>13, <1>14, <1>15, <1>16, <1>17

\* closes the connection by force, as it was the only one to hold it
LEMMA DestroySecondStep ==
  ASSUME IInv, DestroySecond
  PROVE  IInv'
<1> USE DEF IInv
<1> DEFINE s == op.conn
           f == Functor("forceCloseInLoop", s)
<1>1. /\ op \in OpType /\ op # None /\ op.call = "destroy" /\ op.unique = TRUE
      /\ s \in Sockets /\ s \in Known /\ s # None
      /\ ~retry_ /\ client.alive /\ Idle
      /\ Doing("destroy") /\ ~Doing("connect") /\ ~In("stop", 2)
  <2>1. In("destroy", 2)
    BY DEF DestroySecond
  <2> QED BY <2>1, Destroying
<1>2. /\ op' \in OpType /\ op' # None /\ op'.call = "destroy" /\ op'.step = 3 /\ op'.conn = s
      /\ op'.unique = TRUE /\ ~Doing("connect")' /\ Doing("destroy")'
  <2>1. In("destroy", 2) /\ NextStep /\ 2 \in {1, 2} /\ 2 + 1 = 3
    BY DEF DestroySecond
  <2> QED BY <2>1, DestroyingNext
<1>3. /\ ForceClose(s, TRUE, tasks)
      /\ UNCHANGED <<client, connector, retry_, sock, polled, closeCallback_, pc, active, batch,
                     restarting, connects, calls, stopped>>
  BY <1>1 DEF DestroySecond, loop
<1>4. CASE s \in Ups
  <2>1. /\ ConnInv' /\ Known' = Known /\ Ups' = Ups
        /\ tasks' \in Seq(FunctorType) /\ Late' = Late \cup {f}
        /\ Early' = Early /\ Waiting' = Waiting \cup {f}
        /\ StartsOnce(tasks)' /\ StartsOnce(batch)' /\ ~(Start \in Early' /\ Start \in Late')
        /\ f.fn = "forceCloseInLoop" /\ f.sock = s /\ f # Start /\ f # Reset /\ f # Stop
    BY <1>3, <1>4, ForcedClose
  <2> HIDE DEF f, s
  <2>2. Idle'
    BY <1>1, <1>2, <1>3, <2>1 DEF Idle, Starting
  <2>3. TypeInv'
    BY <1>2, <1>3, <2>1 DEF TypeInv
  <2>4. AttemptInv'
    BY <1>3 DEF AttemptInv
  <2>5. DriverInv'
    BY <1>2, <1>3, <2>1, <2>2 DEF DriverInv, Starting
  <2>6. StartInv'
    BY <1>2, <2>1 DEF StartInv
  <2>7. ResetInv'
    BY <1>2, <1>3, <2>1 DEF ResetInv, Starting
  <2>8. ActiveInv'
    BY <1>3, <2>1 DEF ActiveInv
  <2>9. QueueInv'
    BY <1>1, <2>1 DEF QueueInv, Holding
  <2>10. HeldInv'
    BY <1>1, <1>2, <1>3, <2>1 DEF HeldInv, s, f
  <2>11. StopInv'
    BY <1>1, <1>3, <2>1 DEF StopInv
  <2> QED BY <2>1, <2>3, <2>4, <2>5, <2>6, <2>7, <2>8, <2>9, <2>10, <2>11
<1>5. CASE s \notin Ups
  <2>1. conn' = conn /\ tasks' = tasks
    BY <1>1, <1>3, <1>5, NotForced
  <2>2. ConnInv' /\ Known' = Known /\ Ups' = Ups
    BY <1>3, <2>1, ConnSame
  <2>3. Early' = Early /\ Late' = Late /\ Waiting' = Waiting
    BY <1>3, <2>1, QueueSame
  <2> HIDE DEF f, s
  <2>4. Idle'
    BY <1>1, <1>2, <1>3, <2>3 DEF Idle, Starting
  <2>5. TypeInv'
    BY <1>2, <1>3, <2>1 DEF TypeInv
  <2>6. AttemptInv'
    BY <1>3 DEF AttemptInv
  <2>7. DriverInv'
    BY <1>2, <1>3, <2>2, <2>3, <2>4 DEF DriverInv, Starting
  <2>8. StartInv'
    BY <1>2, <1>3, <2>1, <2>3 DEF StartInv, StartsOnce
  <2>9. ResetInv'
    BY <1>2, <1>3, <2>2, <2>3 DEF ResetInv, Starting
  <2>10. ActiveInv'
    BY <1>3, <2>2 DEF ActiveInv
  <2>11. QueueInv'
    BY <2>2, <2>3 DEF QueueInv
  <2>12. HeldInv'
    BY <1>1, <1>2, <1>3, <1>5, <2>2 DEF HeldInv, s
  <2>13. StopInv'
    BY <1>1, <1>3, <2>3 DEF StopInv
  <2> QED BY <2>2, <2>5, <2>6, <2>7, <2>8, <2>9, <2>10, <2>11, <2>12, <2>13
<1> QED BY <1>4, <1>5

\* and is done: what is up is now held by forceCloseInLoop alone.
LEMMA DestroyLastStep ==
  ASSUME IInv, DestroyLast
  PROVE  IInv'
<1> USE DEF IInv
<1> DEFINE s == op.conn
<1>1. /\ op \in OpType /\ op # None /\ op.call = "destroy" /\ op.step = 3
      /\ s \in Sockets /\ s \in Known /\ s # None
      /\ ~retry_ /\ client.alive /\ Idle
      /\ Doing("destroy") /\ ~Doing("connect") /\ ~In("stop", 2)
  BY Destroying DEF DestroyLast
<1>2. /\ op' = None /\ client' = [client EXCEPT !.alive = FALSE, !.connection_ = None]
      /\ UNCHANGED <<connector, retry_, sock, polled, conn, closeCallback_, pc, active, batch, tasks,
                     restarting, connects, calls, stopped>>
  BY DEF DestroyLast, Gone, sockets, loop
<1>3. client' \in ClientType /\ client'.alive = FALSE /\ client'.connection_ = None
  BY <1>2 DEF TypeInv, ClientType
<1>4. ConnInv' /\ Known' = Known /\ Ups' = Ups
  BY <1>2, ConnSame
<1>5. Early' = Early /\ Late' = Late /\ Waiting' = Waiting
  BY <1>2, QueueSame
<1>6. ~Doing("connect")' /\ ~Doing("destroy")'
  BY <1>2 DEF Doing
<1>7. Idle'
  BY <1>1, <1>2, <1>5, <1>6 DEF Idle, Starting
<1>8. \A t \in Ups : Functor("forceCloseInLoop", t) \in Waiting
  <2>1. \A t \in Ups : t = client.connection_ /\ t # None
    BY <1>1, NoneIsNone DEF HeldInv, Ups
  <2> QED BY <1>1, <2>1 DEF HeldInv
<1>9. TypeInv'
  BY <1>2, <1>3 DEF TypeInv
<1>10. AttemptInv'
  BY <1>2 DEF AttemptInv
<1>11. DriverInv'
  BY <1>2, <1>4, <1>5, <1>6, <1>7 DEF DriverInv, Starting
<1>12. StartInv'
  BY <1>2, <1>5, <1>6 DEF StartInv, StartsOnce
<1>13. ResetInv'
  BY <1>2, <1>4, <1>5, <1>6 DEF ResetInv, Starting
<1>14. ActiveInv'
  BY <1>2, <1>4 DEF ActiveInv
<1>15. QueueInv'
  BY <1>4, <1>5 DEF QueueInv
<1>16. HeldInv'
  BY <1>2, <1>4, <1>5, <1>6, <1>8 DEF HeldInv
<1>17. StopInv'
  BY <1>1, <1>2, <1>5 DEF StopInv
<1> QED BY <1>4, <1>9, <1>10, <1>11, <1>12, <1>13, <1>14, <1>15, <1>16, <1>17

\* The destructor in the loop's thread
LEMMA DestroyInLoopStep ==
  ASSUME Careful, IInv, DestroyInLoop
  PROVE  IInv'
<1> USE DEF IInv
<1> DEFINE s == client.connection_
           f == Functor("forceCloseInLoop", s)
<1>1. /\ s \in Sockets /\ s \in Ups /\ s \in Known /\ s # None
      /\ Unique(s) = {TRUE} /\ Idle /\ op = None /\ client.alive
  BY Destroyable DEF DestroyInLoop
<1>2. /\ ForceClose(s, TRUE, tasks) /\ closeCallback_' = [closeCallback_ EXCEPT ![s] = "loop"]
      /\ client' = [client EXCEPT !.alive = FALSE, !.connection_ = None]
      /\ UNCHANGED <<connector, retry_, sock, polled, pc, active, batch, op,
                     restarting, connects, calls, stopped>>
  BY <1>1 DEF DestroyInLoop, Gone, loop, owner
<1>3. client' \in ClientType /\ client'.alive = FALSE /\ client'.connection_ = None
  BY <1>2 DEF TypeInv, ClientType
<1>4. /\ ConnInv' /\ Known' = Known /\ Ups' = Ups
      /\ tasks' \in Seq(FunctorType) /\ Late' = Late \cup {f}
      /\ Early' = Early /\ Waiting' = Waiting \cup {f}
      /\ StartsOnce(tasks)' /\ StartsOnce(batch)' /\ ~(Start \in Early' /\ Start \in Late')
      /\ f.fn = "forceCloseInLoop" /\ f.sock = s /\ f # Start /\ f # Reset /\ f # Stop
  BY <1>1, <1>2, ForcedClose
<1>5. /\ ~Doing("connect") /\ ~Doing("destroy") /\ ~Doing("connect")' /\ ~Doing("destroy")'
      /\ ~In("stop", 2)
  BY <1>1, <1>2 DEF Doing, In
<1>6. \A t \in Ups : t = s
  BY <1>1 DEF HeldInv
<1>7. closeCallback_' \in CallbackType
  BY <1>1, <1>2 DEF HeldInv, CallbackType
<1> HIDE DEF f, s
<1>8. Idle'
  BY <1>1, <1>2, <1>4, <1>5 DEF Idle, Starting
<1>9. TypeInv'
  BY <1>2, <1>3, <1>4 DEF TypeInv
<1>10. AttemptInv'
  BY <1>2 DEF AttemptInv
<1>11. DriverInv'
  BY <1>2, <1>4, <1>5, <1>8 DEF DriverInv, Starting
<1>12. StartInv'
  BY <1>4, <1>5 DEF StartInv
<1>13. ResetInv'
  BY <1>2, <1>4, <1>5 DEF ResetInv, Starting
<1>14. ActiveInv'
  BY <1>2, <1>4 DEF ActiveInv
<1>15. QueueInv'
  BY <1>1, <1>4 DEF QueueInv, Holding
<1>16. HeldInv'
  BY <1>1, <1>2, <1>4, <1>5, <1>7 DEF HeldInv, f
<1>17. StopInv'
  BY <1>2, <1>4, <1>5 DEF StopInv
<1> QED BY <1>4, <1>9, <1>10, <1>11, <1>12, <1>13, <1>14, <1>15, <1>16, <1>17

-----------------------------------------------------------------------------
(* What the loop does when it handles an event or runs a functor *)

\* The loop has one event less to handle, or the functor in fns less to run.
Takes(fns) ==
  /\ active' \subseteq active
  /\ batch' \in Seq(FunctorType) /\ StartsOnce(batch)'
  /\ Early' \subseteq Early /\ Early \subseteq Early' \cup fns
  /\ pc = "events" => batch' = <<>>
  /\ pc = "functors" => active' = {}
  /\ pc' = pc /\ retry_' = retry_ /\ op' = op /\ connects' = connects /\ stopped' = stopped

\* An event is handled
LEMMA TakesEvent ==
  ASSUME IInv, active' \subseteq active, UNCHANGED <<batch, pc, retry_, op, connects, stopped>>
  PROVE  Takes({})
BY DEF Takes, IInv, TypeInv, StartInv, Early, ActiveInv

\* or the first functor of the batch is run, which leaves the others.
LEMMA TakesFunctor ==
  ASSUME IInv, pc = "functors", batch # <<>>, batch' = Tail(batch),
         UNCHANGED <<active, pc, retry_, op, connects, stopped>>
  PROVE  /\ Takes({Head(batch)})
         /\ Head(batch) \in FunctorType /\ Head(batch) \in Waiting
         /\ Head(batch) = Start => Start \notin Early' /\ Start \notin Late
<1>1. /\ batch' \in Seq(FunctorType) /\ Head(batch) \in FunctorType
      /\ Early = Early' \cup {Head(batch)} /\ StartsOnce(batch)'
      /\ Head(batch) = Start => Start \notin Early' /\ Start \notin Late
  BY QueuePopped DEF IInv
<1> QED BY <1>1 DEF Takes, IInv, ActiveInv, Waiting

\* startInLoop, called by a timer, by a functor or by restart()
LEMMA StartStep ==
  ASSUME IInv, NEW fns, Takes(fns), NEW c \in ConnectorType, c.timers = 0, c.state_ # "kConnecting",
         c.connect_ = connector.connect_ \/ retry_,
         polled = {}, Ups = {}, StartInLoop(c, tasks),
         client.alive, ~Doing("destroy"), ~Doing("connect"), Start \notin Early', Start \notin Late,
         Reset \notin Waiting, Timer \notin active', connects # 0,
         restarting' = FALSE, UNCHANGED <<client, closeCallback_>>, fns \in {{}, {Start}}
  PROVE  IInv'
<1> USE DEF IInv
<1>1. /\ connector' \in ConnectorType /\ connector'.timers \in {0, 1}
      /\ connector'.connect_ = c.connect_
      /\ polled' # {} => connector'.timers = 0 /\ c.connect_
      /\ AttemptInv' /\ ConnInv' /\ Ups' = {}
      /\ Known' \subseteq Known /\ \A s \in Known \ Known' : ~Alive(s)
      /\ tasks' = tasks
  BY Attempted
<1>2. /\ active' \subseteq active /\ batch' \in Seq(FunctorType) /\ StartsOnce(batch)'
      /\ Early' \subseteq Early
      /\ (pc = "events" => batch' = <<>>) /\ (pc = "functors" => active' = {})
      /\ UNCHANGED <<pc, retry_, op, connects, stopped>>
      /\ Early \subseteq Early' \cup {Start}
  BY DEF Takes
<1>3. Late' = Late /\ Waiting' = Early' \cup Late /\ Waiting' \subseteq Waiting
  BY <1>1, <1>2 DEF Late, Waiting
<1>4. ~Doing("connect")' /\ ~Doing("destroy")' /\ (In("stop", 2)' <=> In("stop", 2))
  BY <1>2 DEF Doing, In
<1>5. client.connection_ = None
  BY DEF HeldInv
<1>6. \A g \in Waiting' : g.fn \in Holding => g.sock \in Known'
  <2>1. ASSUME NEW g \in Waiting', g.fn \in Holding PROVE g.sock \in Known'
    <3>1. g \in Waiting /\ g.sock \in Known /\ g.fn # "shutdownInLoop"
      BY <1>3, <2>1 DEF QueueInv, Holding, ConnectorFns
    <3>2. g.sock \in Sockets
      BY <3>1 DEF Known
    <3>3. Alive(g.sock)
      BY <3>1, <3>2, AliveIs
    <3> QED BY <1>1, <3>1, <3>3
  <2> QED BY <2>1
<1>7. ~Starting'
  BY <1>3, <1>4 DEF Starting
<1>8. Stop \in Waiting => Stop \in Waiting'
  <2>1. Stop # Start
    BY ConnectorFunctors
  <2> QED BY <1>2, <1>3, <2>1 DEF Waiting
<1>9. TypeInv'
  BY <1>1, <1>2 DEF TypeInv
<1>10. DriverInv'
  BY <1>1, <1>2, <1>4, <1>7 DEF DriverInv, Idle
<1>11. StartInv'
  BY <1>1, <1>2, <1>3 DEF StartInv, StartsOnce
<1>12. ResetInv'
  BY <1>3 DEF ResetInv
<1>13. ActiveInv'
  BY <1>2 DEF ActiveInv
<1>14. QueueInv'
  BY <1>1, <1>3, <1>6 DEF QueueInv
<1>15. HeldInv'
  BY <1>1, <1>3, <1>4 DEF HeldInv
<1>16. StopInv'
  BY <1>1, <1>2 DEF StopInv
<1> QED BY <1>1, <1>9, <1>10, <1>11, <1>12, <1>13, <1>14, <1>15, <1>16

\* An attempt is over, and there is no connection: handleError, handleWrite or stopInLoop
LEMMA AttemptOverStep ==
  ASSUME IInv, NEW fns, Takes(fns), NEW s \in polled,
         RemoveAndResetChannel(s, tasks), CloseSocket(s), conn' = conn,
         NEW c \in ConnectorType, c.state_ # "kConnecting", c.timers \in {0, 1},
         c.connect_ = connector.connect_, connector' = c,
         UNCHANGED <<client, closeCallback_, restarting>>
  PROVE  IInv'
<1> USE DEF IInv
<1>1. /\ polled' = {} /\ tasks' = Append(tasks, Reset)
      /\ ConnInv' /\ AttemptInv' /\ Known' = Known /\ Ups' = Ups
  BY GivenUp
<1>2. /\ active' \subseteq active /\ batch' \in Seq(FunctorType) /\ StartsOnce(batch)'
      /\ Early' \subseteq Early
      /\ (pc = "events" => batch' = <<>>) /\ (pc = "functors" => active' = {})
      /\ UNCHANGED <<pc, retry_, op, connects, stopped>>
  BY DEF Takes
<1>3. /\ ~Doing("connect") /\ ~Doing("destroy") /\ ~Doing("connect")' /\ ~Doing("destroy")'
      /\ Start \notin Waiting /\ client.alive /\ ~restarting /\ Ups = {} /\ connects # 0
      /\ Timer \notin active
  BY <1>2 DEF DriverInv, Idle, Starting, Doing, ActiveInv
<1>4. /\ tasks' \in Seq(FunctorType) /\ StartsOnce(tasks)' /\ Late' = Late \cup {Reset}
      /\ Waiting' \subseteq Waiting \cup {Reset}
  <2>1. tasks \in Seq(FunctorType) /\ StartsOnce(tasks)
    BY DEF TypeInv, StartInv
  <2>2. /\ tasks' \in Seq(FunctorType) /\ Range(tasks') = Range(tasks) \cup {Reset}
        /\ StartsOnce(tasks')
    BY <1>1, <2>1, ConnectorFunctors, PushedQueue
  <2> QED BY <1>2, <2>2 DEF Late, Waiting, StartsOnce
<1>5. Start \notin Waiting' /\ Start \notin Early' /\ Start \notin Late'
  BY <1>3, <1>4, ConnectorFunctors DEF Waiting
<1>6. ~Starting'
  BY <1>3, <1>5 DEF Starting
<1>7. Reset.fn = "resetChannel" /\ Reset.sock = None /\ Reset.fn \in ConnectorFns
  BY ConnectorFunctors DEF ConnectorFns
<1>8. TypeInv'
  BY <1>2, <1>4 DEF TypeInv
<1>9. DriverInv'
  BY <1>1, <1>2, <1>3, <1>6 DEF DriverInv, Idle
<1>10. StartInv'
  BY <1>2, <1>4, <1>5 DEF StartInv
<1>11. ResetInv'
  BY <1>1, <1>2, <1>3, <1>6 DEF ResetInv
<1>12. ActiveInv'
  BY <1>2, <1>3 DEF ActiveInv
<1>13. QueueInv'
  BY <1>1, <1>4, <1>7 DEF QueueInv
<1>14. HeldInv'
  BY <1>1, <1>3, <1>4, <1>7 DEF HeldInv
<1>15. StopInv'
  BY <1>1, <1>2 DEF StopInv
<1> QED BY <1>1, <1>8, <1>9, <1>10, <1>11, <1>12, <1>13, <1>14, <1>15

\* An attempt has become a connection.
LEMMA ConnectedStep ==
  ASSUME IInv, Takes({}), pc = "events", NEW s \in polled,
         RemoveAndResetChannel(s, tasks), NewClientConnection(s),
         connector' = [connector EXCEPT !.state_ = "kConnected"], restarting' = restarting
  PROVE  IInv'
<1> USE DEF IInv
<1>1. polled = {s} /\ s \in Sockets /\ sock[s] # "used" /\ s \notin Known /\ s # None
  BY NoneIsNone DEF AttemptInv, ConnInv
<1>2. polled' = {} /\ tasks' = Append(tasks, Reset)
  BY <1>1 DEF RemoveAndResetChannel, Reset
<1>3. /\ sock' = [sock EXCEPT ![s] = "used"]
      /\ conn' = [conn EXCEPT ![s] = ConnectEstablished(NewConnection("loop"))]
      /\ client' = [client EXCEPT !.connection_ = s]
      /\ closeCallback_' = [closeCallback_ EXCEPT ![s] = "client"]
  BY DEF NewClientConnection
<1>4. /\ active' \subseteq active /\ batch' \in Seq(FunctorType) /\ StartsOnce(batch)'
      /\ Early' \subseteq Early /\ pc = "events" /\ batch' = <<>>
      /\ UNCHANGED <<pc, retry_, op, connects, stopped>>
  BY DEF Takes
<1>5. /\ ~Doing("connect") /\ ~Doing("destroy") /\ ~Doing("connect")' /\ ~Doing("destroy")'
      /\ Start \notin Waiting /\ client.alive /\ ~restarting /\ Ups = {} /\ connects # 0
      /\ Timer \notin active /\ connector.timers = 0
  BY <1>1, <1>4 DEF DriverInv, Idle, Starting, Doing, ActiveInv
<1>6. ConnInv' /\ Known' = Known \cup {s} /\ Ups' = {s}
  BY <1>1, <1>3, <1>5, ConnMade
<1>7. /\ connector' \in ConnectorType /\ connector'.state_ = "kConnected"
      /\ connector'.timers = connector.timers /\ connector'.connect_ = connector.connect_
      /\ client' \in ClientType /\ client'.alive = client.alive /\ client'.connection_ = s
  BY <1>1, <1>3 DEF TypeInv, ConnectorType, ClientType
<1>8. /\ tasks' \in Seq(FunctorType) /\ StartsOnce(tasks)' /\ Late' = Late \cup {Reset}
      /\ Waiting' \subseteq Waiting \cup {Reset}
  <2>1. tasks \in Seq(FunctorType) /\ StartsOnce(tasks)
    BY DEF TypeInv, StartInv
  <2>2. /\ tasks' \in Seq(FunctorType) /\ Range(tasks') = Range(tasks) \cup {Reset}
        /\ StartsOnce(tasks')
    BY <1>2, <2>1, ConnectorFunctors, PushedQueue
  <2> QED BY <1>4, <2>2 DEF Late, Waiting, StartsOnce
<1>9. Start \notin Waiting' /\ Start \notin Early' /\ Start \notin Late'
  BY <1>5, <1>8, ConnectorFunctors DEF Waiting
<1>10. ~Starting'
  BY <1>5, <1>9 DEF Starting
<1>11. Reset.fn = "resetChannel" /\ Reset.sock = None /\ Reset.fn \in ConnectorFns
  BY ConnectorFunctors DEF ConnectorFns
<1>12. AttemptInv'
  <2>1. sock' \in [Sockets -> {"closed", "inProgress", "ready", "failed", "used"}]
    BY <1>3 DEF AttemptInv
  <2>2. polled' = {t \in Sockets : sock'[t] \in {"inProgress", "ready", "failed"}}
    BY <1>1, <1>2, <1>3 DEF AttemptInv
  <2> QED BY <1>2, <1>7, <2>1, <2>2 DEF AttemptInv
<1>13. closeCallback_' \in CallbackType /\ closeCallback_'[s] = "client"
  BY <1>1, <1>3 DEF HeldInv, CallbackType
<1>14. \A t \in Sockets : ConnEvent(t) \notin active'
  BY <1>4, <1>5 DEF ActiveInv
<1>15. \A f \in Waiting' : f.fn \notin {"setCloseCallback", "forceCloseInLoop"}
  BY <1>5, <1>8, <1>11 DEF HeldInv
<1>16. TypeInv'
  BY <1>4, <1>7, <1>8 DEF TypeInv
<1>17. DriverInv'
  BY <1>2, <1>4, <1>10 DEF DriverInv, Idle
<1>18. StartInv'
  BY <1>4, <1>8, <1>9 DEF StartInv
<1>19. ResetInv'
  BY <1>2, <1>4, <1>5, <1>10, <1>14 DEF ResetInv
<1>20. ActiveInv'
  BY <1>4, <1>5 DEF ActiveInv
<1>21. QueueInv'
  BY <1>1, <1>6, <1>8, <1>11 DEF QueueInv
<1>22. HeldInv'
  BY <1>5, <1>6, <1>7, <1>8, <1>11, <1>13 DEF HeldInv
<1>23. StopInv'
  BY <1>2, <1>4 DEF StopInv
<1> QED BY <1>6, <1>12, <1>16, <1>17, <1>18, <1>19, <1>20, <1>21, <1>22, <1>23

\* A connection is closed, by an event or by forceCloseInLoop.
LEMMA CloseStep ==
  ASSUME IInv, NEW fns, Takes(fns), NEW s \in Ups, Close(s, tasks), ~restarting,
         \A t \in Sockets : ConnEvent(t) \notin active',
         Reset \in Waiting => ~(client.alive /\ retry_)
  PROVE  IInv'
<1> USE DEF IInv
<1> DEFINE g == Functor("connectDestoryed", s)
<1>1. /\ conn' = [conn EXCEPT ![s] = HandleClose(@)] /\ UNCHANGED <<connector, sock, polled, closeCallback_>>
      /\ IF closeCallback_[s] = "client" THEN RemoveConnection(s) ELSE UNCHANGED <<client, restarting>>
      /\ tasks' = tasks \/ tasks' = Append(tasks, g)
  BY DEF Close
<1>2. s \in Sockets /\ s \in Known /\ Idle /\ Ups = {s} /\ Idle /\ connects # 0 /\ ~Starting
  BY DEF Ups, Known, DriverInv, HeldInv, Idle
<1>3. ConnInv' /\ Known' = Known /\ Ups' = {}
  BY <1>1, <1>2, ConnClosed
<1>4. AttemptInv'
  BY <1>1 DEF AttemptInv
<1>5. /\ active' \subseteq active /\ batch' \in Seq(FunctorType) /\ StartsOnce(batch)'
      /\ Early' \subseteq Early
      /\ (pc = "events" => batch' = <<>>) /\ (pc = "functors" => active' = {})
      /\ UNCHANGED <<pc, retry_, op, connects, stopped>>
  BY DEF Takes
<1>6. /\ (Doing("connect")' <=> Doing("connect")) /\ (Doing("destroy")' <=> Doing("destroy"))
      /\ (In("stop", 2)' <=> In("stop", 2))
  BY <1>5 DEF Doing, In
<1>7. /\ client' \in ClientType /\ client'.alive = client.alive
      /\ client'.connection_ \in {client.connection_, None}
      /\ client.alive /\ ~Doing("destroy") => client'.connection_ = None
      /\ restarting' \in BOOLEAN /\ (restarting' => client.alive /\ retry_)
  <2>1. client \in ClientType /\ retry_ \in BOOLEAN
    BY DEF TypeInv
  <2>2. CASE closeCallback_[s] = "client"
    <3>1. restarting' = (client.alive /\ retry_ /\ client.connect_)
          /\ client' = IF client.alive THEN [client EXCEPT !.connection_ = None] ELSE client
      BY <1>1, <2>2 DEF RemoveConnection
    <3>2. restarting' \in BOOLEAN /\ (restarting' => client.alive /\ retry_)
      BY <3>1
    <3>3. /\ client' \in ClientType /\ client'.alive = client.alive
          /\ client'.connection_ \in {client.connection_, None}
          /\ client.alive => client'.connection_ = None
      BY <2>1, <3>1 DEF ClientType
    <3> QED BY <3>2, <3>3
  <2>3. CASE closeCallback_[s] # "client"
    <3>1. client' = client /\ restarting' = restarting
      BY <1>1, <2>3
    <3>2. ~(client.alive /\ ~Doing("destroy"))
      BY <2>3 DEF HeldInv
    <3> QED BY <2>1, <3>1, <3>2 DEF TypeInv
  <2> QED BY <2>2, <2>3
<1>8. g \in FunctorType /\ g.fn = "connectDestoryed" /\ g.sock = s
  BY <1>2, FunctorTyped DEF Holding
<1>9. g # Start /\ g # Reset /\ g # Stop
  BY <1>8, ConnectorFunctors
<1> HIDE DEF g
<1>10. /\ tasks' \in Seq(FunctorType) /\ StartsOnce(tasks)'
       /\ Waiting' \subseteq Waiting \cup {g} /\ Late' \subseteq Late \cup {g}
  <2>1. tasks \in Seq(FunctorType) /\ StartsOnce(tasks)
    BY DEF TypeInv, StartInv
  <2>2. /\ tasks' \in Seq(FunctorType) /\ Range(tasks') \subseteq Range(tasks) \cup {g}
        /\ StartsOnce(tasks')
    BY <1>1, <1>8, <1>9, <2>1, PushedQueue
  <2> QED BY <1>5, <2>2 DEF Late, Waiting, StartsOnce
<1>11. Start \notin Waiting /\ Start \notin Waiting' /\ Start \notin Early' /\ Start \notin Late'
       /\ ~Doing("connect")
  BY <1>2, <1>9, <1>10 DEF Waiting, Starting
<1>12. ~Starting'
  BY <1>6, <1>11 DEF Starting
<1>13. Reset \in Waiting' => Reset \in Waiting /\ ~restarting'
  BY <1>7, <1>9, <1>10
<1>14. ~client.alive \/ Doing("destroy") => ~restarting'
  BY <1>7 DEF HeldInv
<1>15. TypeInv'
  BY <1>1, <1>5, <1>7, <1>10 DEF TypeInv
<1>16. DriverInv'
  BY <1>1, <1>3, <1>5, <1>6, <1>7, <1>12, <1>14 DEF DriverInv, Idle
<1>17. StartInv'
  BY <1>5, <1>10, <1>11 DEF StartInv
<1>18. ResetInv'
  BY <1>1, <1>3, <1>5, <1>12, <1>13 DEF ResetInv
<1>19. ActiveInv'
  BY <1>1, <1>5 DEF ActiveInv
<1>20. QueueInv'
  BY <1>2, <1>3, <1>8, <1>10 DEF QueueInv, Holding
<1>21. HeldInv'
  BY <1>1, <1>3, <1>5, <1>6, <1>7, <1>8, <1>10 DEF HeldInv
<1>22. StopInv'
  BY <1>1, <1>2, <1>5 DEF StopInv, Idle
<1> QED BY <1>3, <1>4, <1>15, <1>16, <1>17, <1>18, <1>19, <1>20, <1>21, <1>22

\* The loop does nothing, or nothing that leads to a connection or ends one.
LEMMA QuietStep ==
  ASSUME IInv, NEW fns, Takes(fns),
         Start \notin fns, Stop \in fns => polled = {},
         \A s \in Ups : Functor("forceCloseInLoop", s) \notin fns,
         ConnInv', Known' = Known, Ups' = Ups,
         connector' \in ConnectorType, connector'.timers = connector.timers,
         connector'.state_ = connector.state_, connector'.connect_ = connector.connect_,
         polled = {} \/ connector'.channel_ = connector.channel_,
         closeCallback_' \in CallbackType,
         client.alive /\ ~Doing("destroy") => closeCallback_' = closeCallback_,
         UNCHANGED <<client, sock, polled, tasks, restarting>>
  PROVE  IInv'
<1> USE DEF IInv
<1>1. /\ active' \subseteq active /\ batch' \in Seq(FunctorType) /\ StartsOnce(batch)'
      /\ Early' \subseteq Early /\ Early \subseteq Early' \cup fns
      /\ (pc = "events" => batch' = <<>>) /\ (pc = "functors" => active' = {})
      /\ UNCHANGED <<pc, retry_, op, connects, stopped>>
  BY DEF Takes
<1>2. /\ (Doing("connect")' <=> Doing("connect")) /\ (Doing("destroy")' <=> Doing("destroy"))
      /\ (In("stop", 2)' <=> In("stop", 2))
  BY <1>1 DEF Doing, In
<1>3. /\ Late' = Late /\ Waiting' \subseteq Waiting /\ Waiting \subseteq Waiting' \cup fns
  BY <1>1 DEF Late, Waiting
<1>4. (Start \in Waiting' <=> Start \in Waiting) /\ (Starting' <=> Starting)
  BY <1>2, <1>3 DEF Starting
<1>5. AttemptInv'
  BY DEF AttemptInv
<1>6. TypeInv'
  BY <1>1 DEF TypeInv
<1>7. DriverInv'
  BY <1>1, <1>2, <1>4 DEF DriverInv, Idle
<1>8. StartInv'
  BY <1>1, <1>2, <1>3 DEF StartInv, StartsOnce
<1>9. ResetInv'
  BY <1>1, <1>3, <1>4 DEF ResetInv
<1>10. ActiveInv'
  BY <1>1 DEF ActiveInv
<1>11. QueueInv'
  BY <1>3 DEF QueueInv
<1>12. HeldInv'
  BY <1>1, <1>2, <1>3 DEF HeldInv
<1>13. StopInv'
  BY <1>1, <1>2, <1>3 DEF StopInv
<1> QED BY <1>5, <1>6, <1>7, <1>8, <1>9, <1>10, <1>11, <1>12, <1>13

\* A retry waits, or a start, or restart() does: there is neither an attempt nor a connection.
LEMMA Startable ==
  ASSUME IInv, connector.timers = 1 \/ Start \in Waiting \/ restarting
  PROVE  /\ client.alive /\ ~Doing("destroy") /\ polled = {} /\ Ups = {} /\ connects # 0
         /\ connector \in ConnectorType /\ connector.state_ # "kConnecting" /\ ~Doing("connect")
         /\ (connector.timers = 1 \/ restarting => Start \notin Waiting)
         /\ (Start \in Waiting \/ restarting => connector.timers = 0)
         /\ (connector.timers = 1 \/ Start \in Waiting => ~restarting)
<1> USE DEF IInv
<1>1. ~Idle /\ connector.timers \in {0, 1} /\ connector \in ConnectorType
  BY DEF Idle, Starting, DriverInv, TypeInv
<1>2. client.alive /\ ~Doing("destroy") /\ Ups = {} /\ connects # 0
  BY <1>1 DEF DriverInv
<1>3. polled = {} /\ ~Doing("connect")
  BY <1>1 DEF DriverInv, Starting, StartInv
<1>4. connector.state_ # "kConnecting"
  BY <1>3 DEF AttemptInv
<1> QED BY <1>1, <1>2, <1>3, <1>4 DEF DriverInv, Starting

\* An event: of a timer, of an attempt, or of a connection
LEMMA HandleEventStep ==
  ASSUME IInv, NEW e \in active, HandleEvent(e)
  PROVE  IInv'
<1>1. /\ pc = "events" /\ ~restarting /\ active' = active \ {e}
      /\ UNCHANGED <<pc, batch, retry_, op, connects, calls, stopped>>
      /\ e \in Events /\ batch = <<>> /\ Early = {}
  BY EmptyQueue DEF HandleEvent, owner, IInv, TypeInv, ActiveInv, Early
<1>2. Takes({}) /\ Early' = Early
  BY <1>1, TakesEvent, QueueSame DEF Early
<1>3. ASSUME e = Timer, StartInLoop([connector EXCEPT !.timers = @ - 1], tasks),
             UNCHANGED <<client, closeCallback_, restarting>>
      PROVE  IInv'
  <2> DEFINE c == [connector EXCEPT !.timers = 0]
  <2>1. connector.timers = 1
    BY <1>3 DEF IInv, ActiveInv
  <2>2. /\ client.alive /\ ~Doing("destroy") /\ polled = {} /\ Ups = {} /\ connects # 0
        /\ connector \in ConnectorType /\ connector.state_ # "kConnecting" /\ ~Doing("connect")
        /\ Start \notin Waiting
    BY <2>1, Startable
  <2>3. /\ c = [connector EXCEPT !.timers = @ - 1] /\ c \in ConnectorType /\ c.timers = 0
        /\ c.state_ = connector.state_ /\ c.connect_ = connector.connect_
    BY <2>1, <2>2 DEF ConnectorType
  <2>4. Reset \notin Waiting /\ Timer \notin active'
    BY <1>1, <1>3 DEF IInv, ResetInv
  <2>5. Start \notin Early' /\ Start \notin Late
    BY <1>2, <2>2 DEF Waiting
  <2>6. restarting' = FALSE
    BY <1>1, <1>3 DEF IInv, TypeInv
  <2> HIDE DEF c
  <2> QED BY <1>2, <1>3, <2>2, <2>3, <2>4, <2>5, <2>6, StartStep
<1>4. ASSUME e.ev = "attempt", HandleAttempt(e.sock), restarting' = restarting
      PROVE  IInv'
  <2> DEFINE s == e.sock
             now == s \in polled /\ connector.channel_ = s /\ connector.state_ = "kConnecting"
  <2>1. ASSUME ~now PROVE IInv'
    <3>1. UNCHANGED <<client, connector, sock, polled, conn, closeCallback_, tasks>>
      BY <1>4, <2>1 DEF HandleAttempt, sockets
    <3>2. ConnInv' /\ Known' = Known /\ Ups' = Ups
      BY <3>1, ConnSame DEF IInv
    <3>3. connector' \in ConnectorType /\ closeCallback_' \in CallbackType
      BY <3>1 DEF IInv, TypeInv, HeldInv
    <3> QED BY <1>2, <1>4, <3>1, <3>2, <3>3, QuietStep
  <2>2. ASSUME now PROVE connector \in ConnectorType /\ connector.timers = 0
    BY <2>2 DEF IInv, TypeInv, DriverInv
  <2>3. ASSUME now, GiveUp(s, tasks), UNCHANGED <<client, closeCallback_>> PROVE IInv'
    <3>1. /\ Retry(connector) \in ConnectorType /\ Retry(connector).state_ = "kDisconnected"
          /\ Retry(connector).connect_ = connector.connect_ /\ Retry(connector).timers \in {0, 1}
      BY <2>2, <2>3, RetryIs
    <3> QED BY <1>2, <1>4, <2>3, <3>1, AttemptOverStep DEF GiveUp
  <2>4. ASSUME now, RemoveAndResetChannel(s, tasks), connector' = [connector EXCEPT !.state_ = "kConnected"],
               connector.connect_, NewClientConnection(s)
        PROVE  IInv'
    BY <1>1, <1>2, <1>4, <2>4, ConnectedStep
  <2>5. ASSUME now, RemoveAndResetChannel(s, tasks), connector' = [connector EXCEPT !.state_ = "kConnected"],
               CloseSocket(s), UNCHANGED <<conn, client, closeCallback_>>
        PROVE  IInv'
    <3> DEFINE c == [connector EXCEPT !.state_ = "kConnected"]
    <3>1. /\ c \in ConnectorType /\ c.state_ # "kConnecting" /\ c.timers \in {0, 1}
          /\ c.connect_ = connector.connect_
      BY <2>2, <2>5 DEF ConnectorType
    <3> HIDE DEF c
    <3>2. connector' = c
      BY <2>5 DEF c
    <3> QED BY <1>2, <1>4, <2>5, <3>1, <3>2, AttemptOverStep
  <2>6. CASE now /\ sock[s] = "ready"
    <3>1. HandleConnected(s)
      BY <1>4, <2>6 DEF HandleAttempt
    <3> QED BY <2>3, <2>4, <2>5, <2>6, <3>1 DEF HandleConnected
  <2>7. CASE now /\ sock[s] # "ready"
    BY <1>4, <2>3, <2>7 DEF HandleAttempt
  <2> QED BY <2>1, <2>6, <2>7
<1>5. ASSUME e.ev = "conn", Close(e.sock, tasks)
      PROVE  IInv'
  <2> DEFINE s == e.sock
  <2>1. e = ConnEvent(s) /\ s \in Sockets
    BY <1>1, <1>5 DEF Events, Timer, ConnEvent
  <2>2. s \in Ups /\ \A t \in Sockets : ConnEvent(t) \in active => t = s
    BY <2>1 DEF IInv, ActiveInv, HeldInv
  <2>3. \A t \in Sockets : ConnEvent(t) \notin active'
    BY <1>1, <2>1, <2>2
  <2>4. Reset \notin Waiting
    BY <1>1, <2>1, <2>2 DEF IInv, ResetInv, Waiting
  <2> QED BY <1>1, <1>2, <1>5, <2>2, <2>3, <2>4, CloseStep
<1> QED BY <1>3, <1>4, <1>5 DEF HandleEvent

\* restart(), which removeConnection calls at its end
LEMMA RestartStep ==
  ASSUME IInv, Restart
  PROVE  IInv'
<1> DEFINE c == [connector EXCEPT !.state_ = "kDisconnected", !.connect_ = TRUE]
<1>1. /\ restarting /\ restarting' = FALSE
      /\ UNCHANGED <<client, closeCallback_, pc, active, batch, retry_, op, connects, calls, stopped>>
  BY DEF Restart, owner
<1>2. /\ client.alive /\ ~Doing("destroy") /\ polled = {} /\ Ups = {} /\ connects # 0
      /\ connector \in ConnectorType /\ ~Doing("connect")
      /\ Start \notin Waiting /\ connector.timers = 0
  BY <1>1, Startable
<1>3. StartInLoop(c, tasks)
  BY <1>2 DEF Restart, ConnectorAlive
<1>4. c \in ConnectorType /\ c.timers = 0 /\ c.state_ # "kConnecting" /\ retry_
  BY <1>1, <1>2 DEF ConnectorType, IInv, DriverInv
<1>5. Takes({}) /\ Early' = Early
  BY <1>1, TakesEvent, QueueSame DEF Early
<1>6. Reset \notin Waiting /\ Timer \notin active'
  BY <1>1, <1>2 DEF IInv, ResetInv, ActiveInv
<1>7. Start \notin Early' /\ Start \notin Late
  BY <1>2, <1>5 DEF Waiting
<1> HIDE DEF c
<1> QED BY <1>1, <1>2, <1>3, <1>4, <1>5, <1>6, <1>7, StartStep

\* A functor on the Connector
LEMMA RunConnectorFunctorStep ==
  ASSUME IInv, RunFunctor, RunConnectorFunctor(Head(batch))
  PROVE  IInv'
<1> DEFINE h == Head(batch)
<1>1. /\ pc = "functors" /\ batch # <<>> /\ ~restarting /\ batch' = Tail(batch)
      /\ UNCHANGED <<active, pc, retry_, op, connects, calls, stopped>>
      /\ h.sock = None /\ UNCHANGED <<client, closeCallback_, restarting>>
  BY DEF RunFunctor, RunConnectorFunctor, owner
<1>2. /\ Takes({h}) /\ h \in FunctorType /\ h \in Waiting /\ active = {}
      /\ (h = Start => Start \notin Early' /\ Start \notin Late)
  BY <1>1, TakesFunctor DEF IInv, ActiveInv
<1>3. \A s \in Ups : Functor("forceCloseInLoop", s) \notin {h}
  BY <1>1, NoneIsNone DEF Functor, Ups
<1>4. RunConnectorFunctor(h) /\ h = Functor(h.fn, None)
  BY <1>1, <1>2, FunctorIs
<1>5. closeCallback_' \in CallbackType /\ connector \in ConnectorType
  BY <1>1 DEF IInv, HeldInv, TypeInv
<1> HIDE DEF h
<1>6. ASSUME UNCHANGED <<connector, tasks, sockets>>, h # Start, h = Stop => polled = {}
      PROVE  IInv'
  <2>1. UNCHANGED <<connector, tasks, sock, polled, conn>>
    BY <1>6 DEF sockets
  <2>2. ConnInv' /\ Known' = Known /\ Ups' = Ups
    BY <2>1, ConnSame DEF IInv
  <2> QED BY <1>1, <1>2, <1>3, <1>5, <1>6, <2>1, <2>2, QuietStep
<1>7. CASE ~ConnectorAlive
  <2>1. UNCHANGED <<connector, tasks, sockets>>
    BY <1>4, <1>7 DEF RunConnectorFunctor
  <2>2. h # Start
    BY <1>2, <1>7, Startable DEF ConnectorAlive
  <2>3. polled = {}
    BY <1>7 DEF ConnectorAlive, IInv, DriverInv, Idle
  <2> QED BY <1>6, <2>1, <2>2, <2>3
<1>8. ASSUME h.fn = "startInLoop", StartInLoop(connector, tasks)
      PROVE  IInv'
  <2>1. h = Start
    BY <1>4, <1>8 DEF Start
  <2>2. /\ client.alive /\ ~Doing("destroy") /\ polled = {} /\ Ups = {} /\ connects # 0
        /\ connector.state_ # "kConnecting" /\ ~Doing("connect") /\ connector.timers = 0
    BY <1>2, <2>1, Startable
  <2>3. Reset \notin Waiting /\ Timer \notin active'
    BY <1>1, <1>2, <2>1 DEF IInv, ResetInv, Starting
  <2>4. {h} \in {{}, {Start}} /\ restarting' = FALSE
    BY <1>1, <2>1 DEF IInv, TypeInv
  <2> QED BY <1>1, <1>2, <1>5, <1>8, <2>1, <2>2, <2>3, <2>4, StartStep
<1>9. ASSUME h.fn = "stopInLoop",
             IF connector.state_ = "kConnecting" /\ connector.channel_ # None
             THEN GiveUp(connector.channel_, tasks) ELSE UNCHANGED <<connector, tasks, sockets>>
      PROVE  IInv'
  <2>1. h # Start
    BY <1>9, ConnectorFunctors
  <2>2. CASE connector.state_ = "kConnecting" /\ connector.channel_ # None
    <3>1. connector.channel_ \in polled /\ connector.timers = 0
      BY <2>2 DEF IInv, AttemptInv, DriverInv
    <3>2. /\ Retry(connector) \in ConnectorType /\ Retry(connector).state_ = "kDisconnected"
          /\ Retry(connector).connect_ = connector.connect_ /\ Retry(connector).timers \in {0, 1}
      BY <1>5, <3>1, RetryIs
    <3> QED BY <1>1, <1>2, <1>9, <2>2, <3>1, <3>2, AttemptOverStep DEF GiveUp
  <2>3. CASE ~(connector.state_ = "kConnecting" /\ connector.channel_ # None)
    <3>1. polled = {}
      BY <2>3, NoneIsNone DEF IInv, AttemptInv
    <3> QED BY <1>6, <1>9, <2>1, <2>3, <3>1
  <2> QED BY <2>2, <2>3
<1>10. ASSUME h.fn = "resetChannel", connector' = [connector EXCEPT !.channel_ = None],
              UNCHANGED <<tasks, sockets>>
       PROVE  IInv'
  <2>1. h = Reset /\ h # Start /\ h # Stop
    BY <1>4, <1>10, ConnectorFunctors DEF Reset
  <2>2. polled = {}
    BY <1>2, <2>1 DEF IInv, ResetInv
  <2>3. UNCHANGED <<tasks, sock, polled, conn>>
    BY <1>10 DEF sockets
  <2>4. ConnInv' /\ Known' = Known /\ Ups' = Ups
    BY <2>3, ConnSame DEF IInv
  <2>5. /\ connector' \in ConnectorType /\ connector'.timers = connector.timers
        /\ connector'.state_ = connector.state_ /\ connector'.connect_ = connector.connect_
    BY <1>5, <1>10 DEF ConnectorType
  <2> QED BY <1>1, <1>2, <1>3, <1>5, <2>1, <2>2, <2>3, <2>4, <2>5, QuietStep
<1> QED BY <1>4, <1>7, <1>8, <1>9, <1>10 DEF RunConnectorFunctor

\* and one on a connection
LEMMA RunConnectionFunctorStep ==
  ASSUME IInv, RunFunctor, RunConnectionFunctor(Head(batch))
  PROVE  IInv'
<1> DEFINE h == Head(batch)
           s == h.sock
<1>1. /\ pc = "functors" /\ batch # <<>> /\ ~restarting /\ batch' = Tail(batch)
      /\ UNCHANGED <<active, pc, retry_, op, connects, calls, stopped>>
      /\ h.fn \in Holding \cup {"shutdownInLoop"}
  BY DEF RunFunctor, RunConnectionFunctor, owner, Holding
<1>2. /\ Takes({h}) /\ h \in FunctorType /\ h \in Waiting /\ active = {}
  BY <1>1, TakesFunctor DEF IInv, ActiveInv
<1>3. s \in Sockets /\ (h.fn \in Holding => s \in Known) /\ (h.fn = "connectDestoryed" => s \notin Ups)
  BY <1>1, <1>2 DEF IInv, QueueInv, Holding, ConnectorFns, Known
<1>4. RunConnectionFunctor(h) /\ h # Start /\ h # Stop
  BY <1>1, ConnectorFunctors DEF Holding
<1>5. closeCallback_ \in CallbackType /\ connector \in ConnectorType
  BY DEF IInv, HeldInv, TypeInv
<1>6. ASSUME h.fn = "forceCloseInLoop" => s \notin Ups
      PROVE  \A t \in Ups : Functor("forceCloseInLoop", t) \notin {h}
  BY <1>6 DEF Functor
<1> HIDE DEF h, s
<1>7. ASSUME h.fn # "forceCloseInLoop" \/ s \notin Ups, ConnInv', Known' = Known, Ups' = Ups,
             closeCallback_' \in CallbackType,
             client.alive /\ ~Doing("destroy") => closeCallback_' = closeCallback_,
             UNCHANGED <<client, connector, sock, polled, tasks, restarting>>
      PROVE  IInv'
  <2>1. \A t \in Ups : Functor("forceCloseInLoop", t) \notin {h}
    BY <1>6, <1>7
  <2>2. connector' \in ConnectorType
    BY <1>5, <1>7
  <2> QED BY <1>2, <1>4, <1>7, <2>1, <2>2, QuietStep
<1>8. s \in Known => conn[s] \in Connections /\ (IsUp(conn[s]) <=> s \in Ups) /\ (s \notin Ups => IsDown(conn[s]))
  BY <1>3, KnownIs DEF IInv
<1>9. ASSUME h.fn = "connectDestoryed", conn' = [conn EXCEPT ![s] = ConnectDestoryed(@)],
             UNCHANGED <<client, connector, sock, polled, closeCallback_, tasks, restarting>>
      PROVE  IInv'
  <2> DEFINE r == ConnectDestoryed(conn[s])
  <2>1. s \in Known /\ conn[s] \in Connections /\ IsDown(conn[s]) /\ ~IsUp(conn[s])
    BY <1>3, <1>8, <1>9 DEF Holding
  <2>2. r \in Connections /\ IsDown(r) /\ conn' = [conn EXCEPT ![s] = r]
    BY <1>9, <2>1, DestroyedIsDown
  <2> HIDE DEF r
  <2>3. ConnInv' /\ Known' = Known /\ Ups' = Ups
    BY <1>9, <2>1, <2>2, ConnKept DEF IInv
  <2> QED BY <1>5, <1>7, <1>9, <2>3
<1>10. ASSUME h.fn = "shutdownInLoop",
              conn' = IF Alive(s) THEN [conn EXCEPT ![s] = ShutdownInLoop(@)] ELSE conn,
              UNCHANGED <<client, connector, sock, polled, closeCallback_, tasks, restarting>>
       PROVE  IInv'
  <2> DEFINE r == ShutdownInLoop(conn[s])
  <2>1. ConnInv' /\ Known' = Known /\ Ups' = Ups
    <3>1. CASE Alive(s)
      <4>1. s \in Known /\ conn[s] \in Connections
        BY <1>3, <1>8, <3>1 DEF Alive, Known
      <4>2. /\ r \in Connections /\ conn' = [conn EXCEPT ![s] = r]
            /\ (IsUp(conn[s]) => IsUp(r)) /\ (IsDown(conn[s]) => IsDown(r))
        BY <1>10, <3>1, <4>1, ShutIsAsBefore
      <4> HIDE DEF r
      <4> QED BY <1>10, <4>1, <4>2, ConnKept DEF IInv
    <3>2. CASE ~Alive(s)
      BY <1>10, <3>2, ConnSame DEF IInv
    <3> QED BY <3>1, <3>2
  <2> QED BY <1>5, <1>7, <1>10, <2>1
<1>11. ASSUME h.fn = "setCloseCallback", closeCallback_' = [closeCallback_ EXCEPT ![s] = "loop"],
              UNCHANGED <<client, connector, sockets, tasks, restarting>>
       PROVE  IInv'
  <2>1. UNCHANGED <<client, connector, sock, polled, conn, tasks, restarting>>
    BY <1>11 DEF sockets
  <2>2. ConnInv' /\ Known' = Known /\ Ups' = Ups
    BY <2>1, ConnSame DEF IInv
  <2>3. ~(client.alive /\ ~Doing("destroy"))
    BY <1>2, <1>11 DEF IInv, HeldInv
  <2>4. closeCallback_' \in CallbackType
    BY <1>5, <1>11 DEF CallbackType
  <2> QED BY <1>7, <1>11, <2>1, <2>2, <2>3, <2>4
<1>12. ASSUME h.fn = "forceCloseInLoop",
              IF CanForceClose(conn[s]) THEN Close(s, tasks)
              ELSE UNCHANGED <<client, connector, sockets, closeCallback_, tasks, restarting>>
       PROVE  IInv'
  <2>1. s \in Known
    BY <1>3, <1>12 DEF Holding
  <2>2. CASE s \in Ups
    <3>1. Close(s, tasks)
      BY <1>8, <1>12, <2>1, <2>2, UpIsNotDown
    <3>2. client.alive => ~retry_
      BY <1>2, <1>12 DEF IInv, HeldInv
    <3>3. \A t \in Sockets : ConnEvent(t) \notin active'
      BY <1>1, <1>2
    <3> QED BY <1>1, <1>2, <2>2, <3>1, <3>2, <3>3, CloseStep
  <2>3. CASE s \notin Ups
    <3>1. UNCHANGED <<client, connector, sock, polled, conn, closeCallback_, tasks, restarting>>
      BY <1>8, <1>12, <2>1, <2>3, DownIsClosed DEF sockets
    <3>2. ConnInv' /\ Known' = Known /\ Ups' = Ups
      BY <3>1, ConnSame DEF IInv
    <3> QED BY <1>5, <1>7, <2>3, <3>1, <3>2
  <2> QED BY <2>2, <2>3
<1> QED BY <1>4, <1>9, <1>10, <1>11, <1>12 DEF RunConnectionFunctor, s

-----------------------------------------------------------------------------
(* The theorems *)

\* Nothing changes.
LEMMA StutterStep ==
  ASSUME IInv, UNCHANGED vars
  PROVE  IInv'
<1> USE DEF IInv
<1>1. UNCHANGED <<client, connector, retry_, sock, polled, conn, closeCallback_, pc, active, batch, tasks,
                  restarting, op, connects, calls, stopped>>
  BY DEF vars
<1>2. ConnInv' /\ Known' = Known /\ Ups' = Ups
  BY <1>1, ConnSame
<1>3. Early' = Early /\ Late' = Late /\ Waiting' = Waiting
  BY <1>1, QueueSame
<1>4. TypeInv'
  BY <1>1, <1>2, <1>3 DEF TypeInv
<1>5. AttemptInv'
  BY <1>1, <1>2, <1>3 DEF AttemptInv
<1>6. DriverInv'
  BY <1>1, <1>2, <1>3 DEF DriverInv, Idle, Starting, Doing
<1>7. StartInv'
  BY <1>1, <1>2, <1>3 DEF StartInv, StartsOnce, Doing
<1>8. ResetInv'
  BY <1>1, <1>2, <1>3 DEF ResetInv, Starting, Doing
<1>9. ActiveInv'
  BY <1>1, <1>2, <1>3 DEF ActiveInv
<1>10. QueueInv'
  BY <1>1, <1>2, <1>3 DEF QueueInv
<1>11. HeldInv'
  BY <1>1, <1>2, <1>3 DEF HeldInv, Doing
<1>12. StopInv'
  BY <1>1, <1>2, <1>3 DEF StopInv, In
<1> QED BY <1>2, <1>4, <1>5, <1>6, <1>7, <1>8, <1>9, <1>10, <1>11, <1>12

\* The step of the induction
LEMMA NextKeepsInv ==
  ASSUME Careful, IInv, [Next]_vars
  PROVE  IInv'
<1>1. CASE UNCHANGED vars
  BY <1>1, StutterStep
<1>2. CASE LoopNext
  <2>1. ASSUME NEW expired \in BOOLEAN, Poll(expired) PROVE IInv'
    BY <2>1, PollStep
  <2>2. ASSUME NEW e \in active, HandleEvent(e) PROVE IInv'
    BY <2>2, HandleEventStep
  <2>3. CASE RunFunctor
    BY <2>3, RunConnectorFunctorStep, RunConnectionFunctorStep DEF RunFunctor
  <2> QED BY <1>2, <2>1, <2>2, <2>3, RestartStep, SwapStep DEF LoopNext
<1>3. ASSUME NEW s \in Sockets, Decided(s) \/ ServerCloses(s) PROVE IInv'
  BY <1>3, DecidedStep, ServerClosesStep
<1>4. ASSUME NEW call \in OwnerOps, Call(call) PROVE IInv'
  BY <1>4, CallStep
<1>5. CASE OwnerStep
  BY <1>5, StoreConnectStep, QueueFunctorStep, DisconnectStep, DestroyFirstStep, DestroySecondStep,
     DestroyLastStep DEF OwnerStep
<1>6. CASE Destroy \/ DestroyInLoop
  BY <1>6, DestroyStep, DestroyInLoopStep
<1> QED BY <1>1, <1>2, <1>3, <1>4, <1>5, <1>6 DEF Next

\* The inductive invariant holds where the client is destroyed with care and connects once.
THEOREM ClientInvariant ==
  ASSUME CarefulOwner, MaxConnects <= 1
  PROVE  Spec => []IInv
<1>1. Careful
  BY DEF Careful
<1>2. Init => IInv
  BY InitInv
<1>3. IInv /\ [Next]_vars => IInv'
  BY <1>1, NextKeepsInv
<1> QED BY <1>2, <1>3, PTL DEF Spec

\* A connection that is up, and its place with the client or in the queue
LEMMA UpIs ==
  ASSUME IInv, NEW s \in Sockets, conn[s] # None
  PROVE  /\ conn[s].status_ = "kAdded" => s \in Ups
         /\ conn[s].ups > conn[s].downs => s \in Ups
         /\ s \in Ups => Alive(s)
<1>1. s \in Known /\ (s \notin Ups => IsDown(conn[s]))
  BY KnownIs DEF IInv, Known
<1>2. s \notin Ups => conn[s].status_ # "kAdded" /\ ~(conn[s].ups > conn[s].downs)
  BY <1>1 DEF IsDown
<1>3. ASSUME s \in Ups PROVE Alive(s)
  <2>1. CASE client.alive
    BY <1>1, <1>3, <2>1, AliveIs DEF IInv, HeldInv
  <2>2. CASE ~client.alive
    <3>1. Functor("forceCloseInLoop", s) \in Waiting
      BY <1>3, <2>2 DEF IInv, HeldInv
    <3> QED BY <1>1, <3>1, AliveIs DEF Functor, IInv
  <2> QED BY <2>1, <2>2
<1> QED BY <1>2, <1>3

\* What the run checks follows.
LEMMA InvImplies ==
  ASSUME IInv
  PROVE  TypeOK /\ PolledChannelsLive /\ SocketsOwned /\ ConnectionKnown /\ StopHolds
<1> USE DEF IInv
<1>1. TypeOK
  <2>1. \A s \in Sockets : sock[s] = "used" => conn[s] \in Connections
    BY KnownIs DEF ConnInv
  <2>2. closeCallback_ \in [Sockets -> {"client", "loop"}]
    BY DEF HeldInv, CallbackType
  <2>3. client.connection_ # None => conn[client.connection_] # None
    BY DEF HeldInv, Known
  <2>4. polled \subseteq Sockets /\ sock \in [Sockets -> {"closed", "inProgress", "ready", "failed", "used"}]
    BY DEF AttemptInv
  <2> QED BY <2>1, <2>2, <2>3, <2>4 DEF TypeOK, TypeInv, Connections
<1>2. PolledChannelsLive
  <2>1. ASSUME NEW s \in polled PROVE connector.channel_ = s /\ ConnectorAlive
    <3>1. client.alive
      BY <2>1 DEF DriverInv, Idle
    <3> QED BY <2>1, <3>1 DEF AttemptInv, ConnectorAlive
  <2>2. ASSUME NEW s \in Sockets, conn[s] # None, conn[s].status_ = "kAdded"
        PROVE  sock[s] = "used" /\ Alive(s)
    BY <2>2, UpIs DEF ConnInv, Known
  <2> QED BY <2>1, <2>2 DEF PolledChannelsLive
<1>3. SocketsOwned
  <2>1. ASSUME NEW s \in Sockets, Open(s)
        PROVE  \/ sock[s] = "used" /\ s \notin polled
               \/ s \in polled /\ connector.state_ = "kConnecting" /\ connector.channel_ = s
    BY <2>1 DEF Open, AttemptInv
  <2> QED BY <2>1 DEF SocketsOwned
<1>4. ConnectionKnown
  <2>1. \A s \in Sockets : Up(s) => s \in Ups
    BY UpIs DEF Up
  <2>2. \A s \in Ups : client.alive => client.connection_ = s /\ polled = {}
    BY DEF HeldInv, DriverInv, Idle
  <2>3. \A s, t \in Ups : s = t
    BY DEF HeldInv
  <2> QED BY <2>1, <2>2, <2>3 DEF ConnectionKnown
<1>5. StopHolds
  <2>1. ASSUME stopped, ~retry_, op = None, Functor("stopInLoop", None) \notin Range(batch \o tasks)
        PROVE  polled = {}
    <3>1. Stop \notin Waiting
      BY <2>1, Both DEF Stop
    <3> QED BY <2>1, <3>1 DEF StopInv, In
  <2> QED BY <2>1 DEF StopHolds
<1> QED BY <1>1, <1>2, <1>3, <1>4, <1>5

\* The variables keep their types, and what connection_ names is a TcpConnection.
THEOREM ClientTypeCorrect ==
  ASSUME CarefulOwner, MaxConnects <= 1
  PROVE  Spec => []TypeOK
BY ClientInvariant, InvImplies, PTL

\* The poller has no channel of an attempt that is over, nor of a connection that is gone:
\* each is taken from it before removeAndResetChannel's functor, restart() or the last holder
\* of the connection destroys it.
THEOREM ClientPolledChannelsLive ==
  ASSUME CarefulOwner, MaxConnects <= 1
  PROVE  Spec => []PolledChannelsLive
BY ClientInvariant, InvImplies, PTL

\* A descriptor that is open is that of the attempt the Connector is at or of a connection
\* that is alive, never of both: none leaks, however often an attempt is begun again.
THEOREM ClientSocketsOwned ==
  ASSUME CarefulOwner, MaxConnects <= 1
  PROVE  Spec => []SocketsOwned
BY ClientInvariant, InvImplies, PTL

\* connection() is the one connection that is up, and while one is, no attempt is under way.
THEOREM ClientConnectionKnown ==
  ASSUME CarefulOwner, MaxConnects <= 1
  PROVE  Spec => []ConnectionKnown
BY ClientInvariant, InvImplies, PTL

\* Once stop() of a client that does not reconnect by itself has returned and the loop has run
\* stopInLoop, no attempt is under way and nothing begins one: neither the timer of a retry
\* nor a start that was queued before.
THEOREM ClientStopHolds ==
  ASSUME CarefulOwner, MaxConnects <= 1
  PROVE  Spec => []StopHolds
BY ClientInvariant, InvImplies, PTL
============================================================================
