-------------------------- MODULE TcpServerProofs --------------------------
(***************************************************************************)
(* For every set of connections, messages, users and loops: no byte is     *)
(* lost, doubled or overtaken; and where the users' threads only send, the *)
(* poller knows no connection that is gone, the user is told of each       *)
(* connection and of its end once, and what a callback sends before it     *)
(* shuts a connection down is on the wire before the end of the stream.    *)
(***************************************************************************)
EXTENDS TcpServer, SequenceTheorems, FiniteSetTheorems, TLAPS

-----------------------------------------------------------------------------
(* Sequences *)

\* ConcatProperties, with the lengths as they are known.
LEMMA ConcatAt ==
  ASSUME NEW S, NEW s \in Seq(S), NEW t \in Seq(S), NEW m, NEW n, Len(s) = m, Len(t) = n
  PROVE  /\ s \o t \in Seq(S) /\ Len(s \o t) = m + n
         /\ \A i \in 1 .. m + n : (s \o t)[i] = IF i <= m THEN s[i] ELSE t[i - m]
BY ConcatProperties

\* A sequence that is cut in two is its parts, put together.
LEMMA Cut ==
  ASSUME NEW S, NEW s \in Seq(S), NEW n \in 0 .. Len(s)
  PROVE  /\ SubSeq(s, 1, n) \in Seq(S) /\ SubSeq(s, n + 1, Len(s)) \in Seq(S)
         /\ Len(SubSeq(s, 1, n)) = n /\ Len(SubSeq(s, n + 1, Len(s))) = Len(s) - n
         /\ SubSeq(s, 1, n) \o SubSeq(s, n + 1, Len(s)) = s
<1> DEFINE m == Len(s)
<1>1. m \in Nat /\ n \in Nat /\ n <= m /\ \A i \in 1 .. m : s[i] \in S
  BY LenProperties
<1> HIDE DEF m
<1>2. (\A i \in 1 .. n : s[i] \in S) /\ (\A i \in n + 1 .. m : s[i] \in S)
  BY <1>1
<1>3. SubSeq(s, 1, n) \in Seq(S) /\ Len(SubSeq(s, 1, n)) = n
  <2>1. /\ SubSeq(s, 1, n) \in Seq(S)
        /\ Len(SubSeq(s, 1, n)) = IF 1 <= n THEN n - 1 + 1 ELSE 0
    BY <1>1, <1>2, SubSeqProperties
  <2> QED BY <1>1, <2>1
<1>4. SubSeq(s, n + 1, m) \in Seq(S) /\ Len(SubSeq(s, n + 1, m)) = m - n
  <2>1. /\ SubSeq(s, n + 1, m) \in Seq(S)
        /\ Len(SubSeq(s, n + 1, m)) = IF n + 1 <= m THEN m - (n + 1) + 1 ELSE 0
    BY <1>1, <1>2, SubSeqProperties
  <2> QED BY <1>1, <2>1
<1>5. SubSeq(s, 1, n) \o SubSeq(s, n + 1, m) = SubSeq(s, 1, m)
  <2>1. 1 \in 1 .. m + 1 /\ n \in 1 - 1 .. m /\ m \in n .. m
    BY <1>1
  <2> QED BY <2>1, ConcatAdjacentSubSeq DEF m
<1> QED BY <1>3, <1>4, <1>5, SubSeqFull DEF m

\* s \o t, for arguments that need no more than that it is associative: what the
\* provers know of \o besides would keep them busy.
Cat(s, t) == s \o t

\* Concatenation is associative, and stays among sequences over one set.
LEMMA CatAssociative ==
  \A S : \A s, t, u \in Seq(S) : /\ Cat(s, t) \in Seq(S)
                                 /\ Cat(Cat(s, t), u) = Cat(s, Cat(t, u))
<1> TAKE S
<1> TAKE s, t, u \in Seq(S)
<1>1. s \o t \in Seq(S)
  BY ConcatProperties
<1>2. (s \o t) \o u = s \o (t \o u)
  BY ConcatAssociative
<1> QED BY <1>1, <1>2 DEF Cat

\* The sequence q holds what s holds, where s holds it, and then what t holds.
Follows(s, t, q) ==
  /\ \A i \in DOMAIN s : i \in DOMAIN q /\ q[i] = s[i]
  /\ \A i \in DOMAIN t : \E j \in DOMAIN q : q[j] = t[i]
  /\ \A j \in DOMAIN q : j \in DOMAIN s \/ \E i \in DOMAIN t : q[j] = t[i]
  /\ \A i \in DOMAIN q : \A j \in DOMAIN s : i < j => i \in DOMAIN s

\* What a sequence holds that is put together from two
LEMMA Joined ==
  ASSUME NEW S, NEW s \in Seq(S), NEW t \in Seq(S), NEW q, q = s \o t
  PROVE  q \in Seq(S) /\ Follows(s, t, q)
<1> DEFINE m == Len(s)
           n == Len(t)
<1>1. /\ m \in Nat /\ n \in Nat /\ DOMAIN s = 1 .. m /\ DOMAIN t = 1 .. n
  BY LenProperties
<1>2. /\ q \in Seq(S) /\ Len(q) = m + n
      /\ \A i \in 1 .. m + n : q[i] = IF i <= m THEN s[i] ELSE t[i - m]
  BY ConcatAt
<1>3. DOMAIN q = 1 .. m + n
  BY <1>2, LenProperties
<1> HIDE DEF m, n
<1>4. \A i \in DOMAIN s : i \in DOMAIN q /\ q[i] = s[i]
  BY <1>1, <1>2, <1>3
<1>5. \A i \in DOMAIN t : i + m \in DOMAIN q /\ q[i + m] = t[i]
  <2> SUFFICES ASSUME NEW i \in DOMAIN t
               PROVE  i + m \in DOMAIN q /\ q[i + m] = t[i]
    OBVIOUS
  <2>1. i + m \in 1 .. m + n /\ ~(i + m <= m) /\ (i + m) - m = i
    BY <1>1
  <2> QED BY <1>2, <1>3, <2>1
<1>6. \A j \in DOMAIN q : j \in DOMAIN s \/ (j - m \in DOMAIN t /\ q[j] = t[j - m])
  <2> SUFFICES ASSUME NEW j \in DOMAIN q, j \notin DOMAIN s
               PROVE  j - m \in DOMAIN t /\ q[j] = t[j - m]
    OBVIOUS
  <2>1. j \in 1 .. m + n /\ ~(j <= m) /\ j - m \in 1 .. n
    BY <1>1, <1>3
  <2> QED BY <1>1, <1>2, <2>1
<1>7. \A i \in DOMAIN q : \A j \in DOMAIN s : i < j => i \in DOMAIN s
  BY <1>1, <1>3
<1> QED BY <1>2, <1>4, <1>5, <1>6, <1>7 DEF Follows

\* What a queue holds once e is pushed
LEMMA Pushed ==
  ASSUME NEW S, NEW s \in Seq(S), NEW e \in S
  PROVE  /\ Append(s, e) \in Seq(S)
         /\ DOMAIN Append(s, e) = DOMAIN s \cup {Len(s) + 1} /\ Len(s) + 1 \notin DOMAIN s
         /\ \A i \in DOMAIN s : Append(s, e)[i] = s[i]
         /\ Append(s, e)[Len(s) + 1] = e
<1>1. DOMAIN s = 1 .. Len(s) /\ Len(s) \in Nat
  BY LenProperties
<1>2. DOMAIN Append(s, e) = 1 .. Len(s) + 1
  BY AppendProperties, LenProperties
<1> QED BY <1>1, <1>2, AppendProperties

\* and once its head is popped
LEMMA Popped ==
  ASSUME NEW S, NEW s \in Seq(S), s # <<>>
  PROVE  /\ Tail(s) \in Seq(S)
         /\ 1 \in DOMAIN s /\ s[1] = Head(s) /\ Head(s) \in S
         /\ \A i \in DOMAIN Tail(s) : i + 1 \in DOMAIN s /\ i + 1 # 1 /\ Tail(s)[i] = s[i + 1]
         /\ \A j \in DOMAIN s : j = 1 \/ (j - 1 \in DOMAIN Tail(s) /\ Tail(s)[j - 1] = s[j])
<1>1. /\ DOMAIN s = 1 .. Len(s) /\ Len(s) \in Nat \ {0}
      /\ Tail(s) \in Seq(S) /\ Len(Tail(s)) = Len(s) - 1
      /\ \A i \in 1 .. Len(Tail(s)) : Tail(s)[i] = s[i + 1]
  BY LenProperties, EmptySeq, HeadTailProperties
<1>2. DOMAIN Tail(s) = 1 .. Len(s) - 1
  BY <1>1, LenProperties
<1>3. s[1] = Head(s) /\ Head(s) \in S
  BY <1>1, HeadTailProperties
<1> QED BY <1>1, <1>2, <1>3
-----------------------------------------------------------------------------
(* The inductive invariant *)

Chunk == Messages \X {1, 2}
Connections == TypeOfConnection(Loops, Chunk)

Functors == {"connectEstablished", "connectDestoryed", "removeConnectionInLoop",
             "forceCloseInLoop", "callback", "sendInLoop", "shutdownInLoop"}
TaskFor(conns) == [fn : Functors, conn : conns, message : Messages \cup {None}]
Queues(conns) == [Loops -> Seq(TaskFor(conns))]

OpType == [call : UserOps, conn : Conns, message : Messages \cup {None}, done : {"set", "test"}]

\* What the threads are doing
OpsInv ==
  /\ DOMAIN op = Users
  /\ \A u \in Users : op[u] # None =>
       /\ op[u] \in OpType /\ op[u].conn \in handles[u]
       /\ op[u].call = "send" => op[u].done = "set"

TypeInv ==
  /\ conn \in [Conns -> Connections \cup {None}]
  /\ connections_ \subseteq Accepted /\ IsFiniteSet(connections_)
  /\ next_ \in Nat /\ (loops_ # <<>> => next_ < Len(loops_))
  /\ tasks \in Queues(Accepted)
  /\ handles \in [Users -> SUBSET Accepted]
  /\ OpsInv
  /\ DOMAIN sent = Messages
  /\ \A m \in Messages : sent[m] = None \/ sent[m] \in (Users \cup Loops) \X Accepted
  /\ accepted \in [Conns -> Seq(Chunk)]
  /\ \A c \in Conns \ Accepted : accepted[c] = <<>>
  /\ promised \subseteq Messages

\* The functors that queues hold for a connection
QueuedIn(queues, c) ==
  {fn \in Functors : \E l \in Loops : \E i \in DOMAIN queues[l] :
                       queues[l][i].conn = c /\ queues[l][i].fn = fn}
QueuedFor(c) == QueuedIn(tasks, c)

\* connectEstablished and connectDestoryed are queued in the connection's loop, its home;
\* the former is there once, before all else of that connection, and never in mainLoop,
\* where newConnection runs it at once.
Ordered(queues, home) ==
  \A l \in Loops : \A j \in DOMAIN queues[l] :
    /\ queues[l][j].fn \in {"connectEstablished", "connectDestoryed"}
         => home[queues[l][j].conn] = l
    /\ queues[l][j].fn = "connectEstablished"
         => /\ l # mainLoop
            /\ \A i \in DOMAIN queues[l] : i < j => queues[l][i].conn # queues[l][j].conn

Home == [c \in Accepted |-> LoopOf(c)]

\* A functor that ends a connection, or may come to, is queued; each holds it.
Ends(fns) == "removeConnectionInLoop" \in fns \/ "connectDestoryed" \in fns
Closes(fns) == Ends(fns) \/ "forceCloseInLoop" \in fns

\* A send to such a connection does not bring its channel back to the poller.
Quiet(k) ==
  \/ k.state_ = "kDisconnected"
  \/ "write" \in k.events_
  \/ k.outputBuffer_ = <<>> /\ WriteFails(k)

\* The life of the connection c, which is k, when the map of the server is conns, the
\* functors fns are queued for it and users hold it; no other thread shuts it down.
Life(c, k, conns, fns, users) ==
  /\ "shutdownInLoop" \notin fns
  /\ k.state_ = "kConnecting" <=> "connectEstablished" \in fns
  /\ k.state_ = "kConnecting" =>
       /\ k.status_ = "kNew" /\ k.events_ = {} /\ ~k.fin /\ k.outputBuffer_ = <<>>
       /\ fns \subseteq {"connectEstablished", "connectDestoryed"} /\ users = {}
       /\ c \in conns \/ "connectDestoryed" \in fns
  /\ k.state_ = "kConnected" => k.status_ = "kAdded" /\ "read" \in k.events_ /\ ~k.fin
  /\ k.state_ = "kDisconnecting" =>
       /\ "forceCloseInLoop" \in fns \/ "write" \in k.events_ \/ k.fin
       /\ k.fin => "write" \notin k.events_
  /\ k.outputBuffer_ # <<>> => "write" \in k.events_ \/ k.state_ = "kDisconnected"
  /\ k.status_ = "kAdded" => c \in conns \/ Closes(fns)
  /\ k.status_ = "kAdded" /\ k.state_ = "kDisconnected" => c \in conns \/ Ends(fns)
  /\ k.status_ # "kAdded" /\ k.state_ # "kConnecting" /\ c \notin conns /\ ~Closes(fns)
       => Quiet(k)
  /\ k.state_ = "kDisconnected" => k.downs > 0

\* What the user has been told of it.  Where the server is never destroyed, nothing but
\* what closes a connection leads to connectDestoryed.
Told(k, fns) ==
  /\ k.ups = IF k.state_ = "kConnecting" THEN 0 ELSE 1
  /\ k.state_ # "kDisconnected" => k.downs = 0 /\ k.closes = 0
  /\ k.state_ = "kDisconnected" => k.downs = 1 /\ k.closes <= 1 /\ k.status_ # "kAdded"
  /\ "forceClose" \notin CallbackOps => "forceCloseInLoop" \notin fns
  /\ ~ServerDies =>
       /\ Ends(fns) => k.state_ = "kDisconnected"
       /\ k.state_ = "kDisconnecting" => k.status_ = "kAdded" /\ "read" \in k.events_

\* No thread but its loop's writes a connection's state_.
OnlySends == UserOps \subseteq {"send"}

\* A callback closes no connection by force that the server's destructor removes too.
NoLateForce == OnlySends /\ ("forceClose" \in CallbackOps => ~ServerDies)

Fine(c, k, conns, fns, users) ==
  /\ OnlySends => Life(c, k, conns, fns, users)
  /\ NoLateForce => Told(k, fns)

KnownTo(c) == {u \in Users : c \in handles[u]}
FineInv == \A c \in Accepted : Fine(c, conn[c], connections_, QueuedFor(c), KnownTo(c))

\* What a connection's loop sent on it was accepted, unless its peer had reset it.
SentInv ==
  OnlySends =>
    /\ \A m \in promised : \E c \in Accepted : sent[m] = <<LoopOf(c), c>>
    /\ \A m \in Messages : \A c \in Accepted : sent[m] = <<LoopOf(c), c>> =>
         conn[c].peer = "reset" \/ Range(Chunks(m)) \subseteq Range(accepted[c])

IInv == TypeInv /\ Ordered(tasks, Home) /\ BytesInOrder /\ FineInv /\ SentInv

-----------------------------------------------------------------------------
(* What the handlers of TcpConnection do to its record *)

\* The parts a handler does not touch
SameBytes(k, r) == r.outputBuffer_ = k.outputBuffer_ /\ r.wire = k.wire
SameHistory(k, r) == r.ups = k.ups /\ r.downs = k.downs /\ r.closes = k.closes
SameEnds(k, r) == r.loop_ = k.loop_ /\ r.peer = k.peer

LEMMA Fields ==
  ASSUME NEW k \in Connections
  PROVE  /\ k.state_ \in StateE /\ k.loop_ \in Loops /\ k.events_ \subseteq {"read", "write"}
         /\ k.status_ \in {"kNew", "kAdded", "kDeleted"}
         /\ k.outputBuffer_ \in Seq(Chunk) /\ k.wire \in Seq(Chunk)
         /\ k.fin \in BOOLEAN /\ k.peer \in {"open", "closed", "reset"}
         /\ k.ups \in Nat /\ k.downs \in Nat /\ k.closes \in Nat
BY DEF Connections, TypeOfConnection

LEMMA UpdateDoes ==
  ASSUME NEW k \in Connections, NEW e \in SUBSET {"read", "write"}, NEW r, r = Update(k, e)
  PROVE  /\ r \in Connections
         /\ r.events_ = e
         /\ r.status_ = IF k.status_ = "kAdded" /\ e = {} THEN "kDeleted" ELSE "kAdded"
         /\ r.state_ = k.state_ /\ r.fin = k.fin
         /\ SameBytes(k, r) /\ SameHistory(k, r) /\ SameEnds(k, r)
BY DEF Connections, TypeOfConnection, Update, SameBytes, SameHistory, SameEnds

LEMMA NewConnectionIs ==
  ASSUME NEW l \in Loops, NEW r, r = NewConnection(l)
  PROVE  /\ r \in Connections /\ r.loop_ = l /\ r.state_ = "kConnecting"
         /\ r.events_ = {} /\ r.status_ = "kNew" /\ r.fin = FALSE
         /\ r.outputBuffer_ = <<>> /\ r.wire = <<>>
         /\ r.ups = 0 /\ r.downs = 0 /\ r.closes = 0
BY DEF Connections, TypeOfConnection, NewConnection, StateE

LEMMA EstablishedDoes ==
  ASSUME NEW k \in Connections, NEW r, r = ConnectEstablished(k)
  PROVE  /\ r \in Connections
         /\ r.state_ = "kConnected" /\ r.ups = k.ups + 1 /\ r.downs = k.downs
         /\ r.closes = k.closes /\ r.fin = k.fin
         /\ r.events_ = k.events_ \cup {"read"} /\ r.status_ = "kAdded"
         /\ SameBytes(k, r) /\ SameEnds(k, r)
<1> DEFINE q == [k EXCEPT !.state_ = "kConnected", !.ups = @ + 1]
<1>1. /\ q \in Connections /\ q.state_ = "kConnected" /\ q.ups = k.ups + 1
      /\ q.downs = k.downs /\ q.closes = k.closes /\ q.fin = k.fin
      /\ q.events_ = k.events_ /\ q.status_ = k.status_
      /\ SameBytes(k, q) /\ SameEnds(k, q)
  <2> DEFINE n == k.ups + 1
  <2>1. n \in Nat
    BY Fields
  <2> HIDE DEF n
  <2>2. q = [k EXCEPT !.state_ = "kConnected", !.ups = n]
    BY DEF n
  <2> HIDE DEF q
  <2>3. q.ups = n
    BY <2>2 DEF Connections, TypeOfConnection
  <2> QED BY <2>1, <2>2, <2>3 DEF Connections, TypeOfConnection, StateE, SameBytes, SameEnds, n
<1>2. r = Update(q, q.events_ \cup {"read"})
  BY DEF ConnectEstablished, EnableReading
<1> HIDE DEF q
<1>3. q.events_ \cup {"read"} \in SUBSET {"read", "write"} /\ q.events_ \cup {"read"} # {}
  BY <1>1, Fields
<1> QED BY <1>1, <1>2, <1>3, UpdateDoes DEF SameBytes, SameEnds, SameHistory

LEMMA DestoryedDoes ==
  ASSUME NEW k \in Connections, NEW r, r = ConnectDestoryed(k)
  PROVE  /\ r \in Connections /\ r.status_ = "kNew" /\ r.fin = k.fin
         /\ SameBytes(k, r) /\ SameEnds(k, r) /\ r.ups = k.ups /\ r.closes = k.closes
         /\ k.state_ = "kConnected" =>
              r.state_ = "kDisconnected" /\ r.downs = k.downs + 1 /\ r.events_ = {}
         /\ k.state_ # "kConnected" =>
              r.state_ = k.state_ /\ r.downs = k.downs /\ r.events_ = k.events_
<1>1. ASSUME NEW s \in Connections, r = RemoveChannel(s)
      PROVE  /\ r \in Connections /\ r.status_ = "kNew" /\ r.fin = s.fin
             /\ SameBytes(s, r) /\ SameEnds(s, r) /\ SameHistory(s, r)
             /\ r.state_ = s.state_ /\ r.events_ = s.events_
  BY <1>1 DEF RemoveChannel, Connections, TypeOfConnection, SameBytes, SameEnds, SameHistory
<1>2. CASE k.state_ # "kConnected"
  BY <1>1, <1>2 DEF ConnectDestoryed, SameBytes, SameEnds, SameHistory
<1>3. CASE k.state_ = "kConnected"
  <2> DEFINE q == [k EXCEPT !.state_ = "kDisconnected", !.downs = @ + 1]
             s == Update(q, {})
  <2>1. /\ q \in Connections /\ q.state_ = "kDisconnected" /\ q.downs = k.downs + 1
        /\ q.ups = k.ups /\ q.closes = k.closes /\ q.fin = k.fin
        /\ SameBytes(k, q) /\ SameEnds(k, q)
    <3> DEFINE n == k.downs + 1
    <3>1. n \in Nat
      BY Fields
    <3> HIDE DEF n
    <3>2. q = [k EXCEPT !.state_ = "kDisconnected", !.downs = n]
      BY DEF n
    <3> HIDE DEF q
    <3>3. q.downs = n
      BY <3>2 DEF Connections, TypeOfConnection
    <3> QED BY <3>1, <3>2, <3>3 DEF Connections, TypeOfConnection, StateE, SameBytes, SameEnds, n
  <2>2. r = RemoveChannel(s)
    BY <1>3 DEF ConnectDestoryed, DisableAll
  <2> HIDE DEF q
  <2>3. /\ s \in Connections /\ s.events_ = {} /\ s.state_ = q.state_ /\ s.fin = q.fin
        /\ SameBytes(q, s) /\ SameHistory(q, s) /\ SameEnds(q, s)
    BY <2>1, UpdateDoes
  <2> HIDE DEF s
  <2> QED BY <1>1, <1>3, <2>1, <2>2, <2>3 DEF SameBytes, SameEnds, SameHistory
<1> QED BY <1>2, <1>3

LEMMA HandleCloseDoes ==
  ASSUME NEW k \in Connections, NEW r, r = HandleClose(k)
  PROVE  /\ r \in Connections /\ r.state_ = "kDisconnected" /\ r.events_ = {}
         /\ r.status_ = IF k.status_ = "kAdded" THEN "kDeleted" ELSE "kAdded"
         /\ r.ups = k.ups /\ r.downs = k.downs + 1 /\ r.closes = k.closes + 1 /\ r.fin = k.fin
         /\ SameBytes(k, r) /\ SameEnds(k, r)
<1> DEFINE q == [k EXCEPT !.state_ = "kDisconnected", !.downs = @ + 1, !.closes = @ + 1]
<1>1. /\ q \in Connections /\ q.state_ = "kDisconnected" /\ q.downs = k.downs + 1
      /\ q.ups = k.ups /\ q.closes = k.closes + 1 /\ q.fin = k.fin /\ q.status_ = k.status_
      /\ SameBytes(k, q) /\ SameEnds(k, q)
  <2> DEFINE m == k.downs + 1
             n == k.closes + 1
  <2>1. m \in Nat /\ n \in Nat
    BY Fields
  <2> HIDE DEF m, n
  <2>2. q = [k EXCEPT !.state_ = "kDisconnected", !.downs = m, !.closes = n]
    BY DEF m, n
  <2> HIDE DEF q
  <2>3. q.downs = m /\ q.closes = n
    BY <2>2 DEF Connections, TypeOfConnection
  <2> QED BY <2>1, <2>2, <2>3 DEF Connections, TypeOfConnection, StateE, SameBytes, SameEnds,
                                  m, n
<1>2. r = Update(q, {})
  BY DEF HandleClose, DisableAll
<1> HIDE DEF q
<1> QED BY <1>1, <1>2, UpdateDoes DEF SameBytes, SameEnds, SameHistory

LEMMA ShutdownDoes ==
  ASSUME NEW k \in Connections, NEW r, r = ShutdownInLoop(k)
  PROVE  /\ r \in Connections
         /\ r.fin = (k.fin \/ "write" \notin k.events_)
         /\ r.state_ = k.state_ /\ r.events_ = k.events_ /\ r.status_ = k.status_
         /\ SameBytes(k, r) /\ SameEnds(k, r) /\ SameHistory(k, r)
<1>1. CASE "write" \in k.events_
  <2>1. r = k /\ r.fin \in BOOLEAN
    BY <1>1, Fields DEF ShutdownInLoop
  <2> QED BY <1>1, <2>1 DEF SameBytes, SameEnds, SameHistory
<1>2. CASE "write" \notin k.events_
  BY <1>2 DEF ShutdownInLoop, Connections, TypeOfConnection, SameBytes, SameEnds, SameHistory
<1> QED BY <1>1, <1>2

LEMMA StateSet ==
  ASSUME NEW k \in Connections, NEW s \in StateE, NEW r, r = [k EXCEPT !.state_ = s]
  PROVE  /\ r \in Connections /\ r.state_ = s
         /\ r.events_ = k.events_ /\ r.status_ = k.status_ /\ r.fin = k.fin
         /\ SameBytes(k, r) /\ SameEnds(k, r) /\ SameHistory(k, r)
BY DEF Connections, TypeOfConnection, SameBytes, SameEnds, SameHistory

LEMMA PeerSet ==
  ASSUME NEW k \in Connections, NEW p \in {"open", "closed", "reset"},
         NEW r, r = [k EXCEPT !.peer = p]
  PROVE  /\ r \in Connections /\ r.peer = p /\ r.loop_ = k.loop_ /\ r.state_ = k.state_
         /\ r.events_ = k.events_ /\ r.status_ = k.status_ /\ r.fin = k.fin
         /\ SameBytes(k, r) /\ SameHistory(k, r)
BY DEF Connections, TypeOfConnection, SameBytes, SameHistory

LEMMA BytesSet ==
  ASSUME NEW k \in Connections, NEW w \in Seq(Chunk), NEW b \in Seq(Chunk),
         NEW r, r = [k EXCEPT !.wire = w, !.outputBuffer_ = b]
  PROVE  /\ r \in Connections /\ r.wire = w /\ r.outputBuffer_ = b
         /\ r.state_ = k.state_ /\ r.events_ = k.events_ /\ r.status_ = k.status_
         /\ r.fin = k.fin /\ SameEnds(k, r) /\ SameHistory(k, r)
BY DEF Connections, TypeOfConnection, SameEnds, SameHistory

LEMMA BytesJoin ==
  ASSUME NEW s \in Seq(Chunk), NEW t \in Seq(Chunk), NEW u \in Seq(Chunk)
  PROVE  Cat(s, t) \in Seq(Chunk) /\ Cat(Cat(s, t), u) = Cat(s, Cat(t, u))
BY CatAssociative

LEMMA ChunksAre ==
  ASSUME NEW m \in Messages
  PROVE  /\ Chunks(m) \in Seq(Chunk) /\ Len(Chunks(m)) = 2
         /\ SubSeq(Chunks(m), 1, 0) = <<>> /\ SubSeq(Chunks(m), 1, Len(Chunks(m))) = Chunks(m)
<1>1. Chunks(m) \in Seq(Chunk) /\ Len(Chunks(m)) = 2
  BY DEF Chunks, Chunk
<1>2. SubSeq(Chunks(m), 1, 0) = <<>>
  BY <1>1, Cut, EmptySeq
<1> QED BY <1>1, <1>2, SubSeqFull

\* sendInLoop: the message is given up; or it goes behind what was sent, and what is not
\* on the wire at once is watched for.
LEMMA SendDoes ==
  ASSUME NEW k \in Connections, NEW m \in Messages, NEW n \in Written(k, Chunks(m)),
         NEW r, r = SendInLoop(k, Chunks(m), n)
  PROVE  /\ r \in Connections /\ r.state_ = k.state_ /\ r.fin = k.fin
         /\ SameEnds(k, r) /\ SameHistory(k, r)
         /\ GivesUp(k) => r = k
         /\ ~GivesUp(k) =>
              /\ Cat(r.wire, r.outputBuffer_) = Cat(Cat(k.wire, k.outputBuffer_), Chunks(m))
              /\ \/ /\ r.outputBuffer_ = <<>> /\ "write" \notin k.events_ /\ ~WriteFails(k)
                    /\ r.events_ = k.events_ /\ r.status_ = k.status_
                 \/ /\ "write" \in k.events_
                    /\ r.events_ = k.events_ /\ r.status_ = k.status_
                 \/ /\ "write" \notin k.events_
                    /\ r.events_ = k.events_ \cup {"write"} /\ r.status_ = "kAdded"
<1> DEFINE chunks == Chunks(m)
           first  == SubSeq(chunks, 1, n)
           rest   == SubSeq(chunks, n + 1, Len(chunks))
<1>1. chunks \in Seq(Chunk) /\ Len(chunks) = 2
  BY ChunksAre
<1>2. /\ n \in 0 .. Len(chunks)
      /\ n = 0 \/ (WritesAtOnce(k) /\ ~WriteFails(k))
  BY <1>1 DEF Written
<1>3. CASE GivesUp(k)
  BY <1>3, Fields DEF SendInLoop, SameEnds, SameHistory
<1>4. CASE ~GivesUp(k)
  <2> DEFINE w == k.wire \o first
             b == k.outputBuffer_ \o rest
             s == [k EXCEPT !.wire = w, !.outputBuffer_ = b]
  <2>1. r = IF rest # <<>> /\ "write" \notin k.events_ THEN EnableWriting(s) ELSE s
    BY <1>4 DEF SendInLoop
  <2>2. /\ first \in Seq(Chunk) /\ rest \in Seq(Chunk) /\ first \o rest = chunks
        /\ Len(first) = n /\ Len(rest) = 2 - n
    BY <1>1, <1>2, Cut
  <2>3. k.wire \in Seq(Chunk) /\ k.outputBuffer_ \in Seq(Chunk)
    BY Fields
  <2>4. n = 0 => first = <<>>
    BY <2>2, EmptySeq
  <2>5. n # 0 => k.outputBuffer_ = <<>>
    BY <1>2 DEF WritesAtOnce
  <2> HIDE DEF chunks, first, rest
  <2>6. w \in Seq(Chunk) /\ b \in Seq(Chunk)
    BY <2>2, <2>3, ConcatProperties
  <2>7. Cat(w, b) = Cat(Cat(k.wire, k.outputBuffer_), chunks)
    <3>1. CASE n = 0
      <4>1. w = k.wire
        BY <2>3, <2>4, <3>1, ConcatEmptySeq
      <4>2. rest = chunks
        BY <2>2, <2>4, <3>1, ConcatEmptySeq
      <4>3. Cat(w, b) = Cat(k.wire, Cat(k.outputBuffer_, chunks))
        BY <4>1, <4>2 DEF Cat
      <4>4. Cat(Cat(k.wire, k.outputBuffer_), chunks) = Cat(k.wire, Cat(k.outputBuffer_, chunks))
        BY <1>1, <2>3, BytesJoin
      <4> HIDE DEF w, b
      <4> QED BY <4>3, <4>4
    <3>2. CASE n # 0
      <4>1. b = rest /\ Cat(k.wire, k.outputBuffer_) = k.wire
        BY <2>2, <2>3, <2>5, <3>2, ConcatEmptySeq DEF Cat
      <4>2. Cat(w, b) = Cat(Cat(k.wire, first), rest)
        BY <4>1 DEF Cat
      <4>3. Cat(first, rest) = chunks
        BY <2>2 DEF Cat
      <4>4. first \in Seq(Chunk) /\ rest \in Seq(Chunk)
        BY <2>2
      <4>5. Cat(Cat(k.wire, first), rest) = Cat(k.wire, Cat(first, rest))
        BY <2>3, <4>4, BytesJoin
      <4> HIDE DEF w, b
      <4> QED BY <4>1, <4>2, <4>3, <4>5
    <3> QED BY <3>1, <3>2
  <2> HIDE DEF w, b
  <2>8. /\ s \in Connections /\ s.wire = w /\ s.outputBuffer_ = b
        /\ s.state_ = k.state_ /\ s.events_ = k.events_ /\ s.status_ = k.status_
        /\ s.fin = k.fin /\ SameEnds(k, s) /\ SameHistory(k, s)
    BY <2>6, BytesSet
  <2> HIDE DEF s
  <2>9. CASE rest # <<>> /\ "write" \notin k.events_
    <3>1. r = Update(s, s.events_ \cup {"write"})
      BY <2>1, <2>9 DEF EnableWriting
    <3>2. s.events_ \cup {"write"} \in SUBSET {"read", "write"} /\ s.events_ \cup {"write"} # {}
      BY <2>8, Fields
    <3>3. /\ r \in Connections /\ r.events_ = s.events_ \cup {"write"} /\ r.status_ = "kAdded"
          /\ r.state_ = s.state_ /\ r.fin = s.fin
          /\ SameBytes(s, r) /\ SameHistory(s, r) /\ SameEnds(s, r)
      BY <2>8, <3>1, <3>2, UpdateDoes
    <3> QED BY <1>4, <2>7, <2>8, <2>9, <3>3 DEF SameBytes, SameHistory, SameEnds, chunks
  <2>10. CASE ~(rest # <<>> /\ "write" \notin k.events_)
    <3>1. r = s
      BY <2>1, <2>10
    <3>2. "write" \notin k.events_ => r.outputBuffer_ = <<>> /\ ~WriteFails(k)
      <4> SUFFICES ASSUME "write" \notin k.events_
                   PROVE  r.outputBuffer_ = <<>> /\ ~WriteFails(k)
        OBVIOUS
      <4>1. rest = <<>> /\ n # 0
        BY <2>2, <2>10, EmptySeq
      <4>2. b = <<>>
        BY <2>5, <4>1, ConcatEmptySeq, EmptySeq DEF b
      <4> QED BY <1>2, <2>8, <3>1, <4>1, <4>2
    <3> QED BY <1>4, <2>7, <2>8, <2>10, <3>1, <3>2 DEF chunks
  <2> QED BY <2>9, <2>10
<1> QED BY <1>3, <1>4

\* handleWrite: what it takes from the buffer is on the wire; when that is all, writing is
\* no longer watched for and a shutdown that waited for it is carried out.
LEMMA HandleWriteDoes ==
  ASSUME NEW k \in Connections, NEW n \in 1 .. Len(k.outputBuffer_),
         NEW r, r = HandleWrite(k, n)
  PROVE  /\ r \in Connections /\ r.state_ = k.state_
         /\ SameEnds(k, r) /\ SameHistory(k, r)
         /\ Cat(r.wire, r.outputBuffer_) = Cat(k.wire, k.outputBuffer_)
         /\ n < Len(k.outputBuffer_) =>
              r.events_ = k.events_ /\ r.status_ = k.status_ /\ r.fin = k.fin
         /\ n = Len(k.outputBuffer_) =>
              /\ r.outputBuffer_ = <<>> /\ r.events_ = k.events_ \ {"write"}
              /\ r.status_ = IF k.status_ = "kAdded" /\ r.events_ = {} THEN "kDeleted"
                                                                       ELSE "kAdded"
              /\ r.fin = (k.fin \/ k.state_ = "kDisconnecting")
<1> DEFINE old  == k.outputBuffer_
           taken == SubSeq(old, 1, n)
           b    == SubSeq(old, n + 1, Len(old))
           w    == k.wire \o taken
           s    == [k EXCEPT !.wire = w, !.outputBuffer_ = b]
           u    == Update(s, s.events_ \ {"write"})
<1>1. old \in Seq(Chunk) /\ k.wire \in Seq(Chunk) /\ Len(old) \in Nat /\ n \in 0 .. Len(old)
  BY Fields, LenProperties
<1>2. /\ taken \in Seq(Chunk) /\ b \in Seq(Chunk) /\ Len(b) = Len(old) - n
      /\ taken \o b = old
  BY <1>1, Cut
<1>3. r = IF n < Len(old) THEN s
          ELSE IF k.state_ = "kDisconnecting" THEN ShutdownInLoop(u) ELSE u
  BY DEF HandleWrite, DisableWriting
<1> HIDE DEF taken, b
<1>4. w \in Seq(Chunk) /\ Cat(w, b) = Cat(k.wire, old)
  <2>1. w = Cat(k.wire, taken) /\ Cat(taken, b) = old
    BY <1>2 DEF Cat
  <2>2. /\ Cat(k.wire, taken) \in Seq(Chunk)
        /\ Cat(Cat(k.wire, taken), b) = Cat(k.wire, Cat(taken, b))
    BY <1>1, <1>2, BytesJoin
  <2> HIDE DEF w
  <2> QED BY <2>1, <2>2
<1>5. n = Len(old) => b = <<>>
  BY <1>1, <1>2, EmptySeq
<1> HIDE DEF w, old
<1>6. /\ s \in Connections /\ s.wire = w /\ s.outputBuffer_ = b
      /\ s.state_ = k.state_ /\ s.events_ = k.events_ /\ s.status_ = k.status_
      /\ s.fin = k.fin /\ SameEnds(k, s) /\ SameHistory(k, s)
  BY <1>2, <1>4, BytesSet
<1> HIDE DEF s
<1>7. CASE n < Len(old)
  <2>1. r = s /\ n # Len(old)
    BY <1>1, <1>3, <1>7
  <2> QED BY <1>4, <1>6, <1>7, <2>1 DEF old
<1>8. CASE ~(n < Len(old))
  <2>1. n = Len(old) /\ b = <<>>
    BY <1>1, <1>5, <1>8
  <2>2. s.events_ \ {"write"} \in SUBSET {"read", "write"}
    BY <1>6, Fields
  <2>3. /\ u \in Connections /\ u.events_ = s.events_ \ {"write"}
        /\ u.status_ = IF s.status_ = "kAdded" /\ s.events_ \ {"write"} = {} THEN "kDeleted"
                                                                            ELSE "kAdded"
        /\ u.state_ = s.state_ /\ u.fin = s.fin
        /\ SameBytes(s, u) /\ SameHistory(s, u) /\ SameEnds(s, u)
    BY <1>6, <2>2, UpdateDoes
  <2> HIDE DEF u
  <2>4. CASE k.state_ = "kDisconnecting"
    <3>1. r = ShutdownInLoop(u)
      BY <1>3, <1>8, <2>4
    <3>2. /\ r \in Connections
          /\ r.fin = (u.fin \/ "write" \notin u.events_)
          /\ r.state_ = u.state_ /\ r.events_ = u.events_ /\ r.status_ = u.status_
          /\ SameBytes(u, r) /\ SameEnds(u, r) /\ SameHistory(u, r)
      BY <2>3, <3>1, ShutdownDoes
    <3>3. r.fin = (k.fin \/ k.state_ = "kDisconnecting")
      BY <1>6, <2>3, <2>4, <3>2, Fields
    <3> QED BY <1>4, <1>6, <1>8, <2>1, <2>3, <3>2, <3>3 DEF SameBytes, SameHistory, SameEnds, old
  <2>5. CASE k.state_ # "kDisconnecting"
    <3>1. r = u
      BY <1>3, <1>8, <2>5
    <3>2. r.fin = (k.fin \/ k.state_ = "kDisconnecting")
      BY <1>6, <2>3, <2>5, <3>1, Fields
    <3> QED BY <1>4, <1>6, <1>8, <2>1, <2>3, <3>1, <3>2 DEF SameBytes, SameHistory, SameEnds, old
  <2> QED BY <2>4, <2>5
<1> QED BY <1>7, <1>8

-----------------------------------------------------------------------------
(* What each step does to the life of the connection it is about *)

\* The functors that say where a connection is in its life
Telling == Functors \ {"callback", "sendInLoop"}
SameTelling(fns, fns2) == \A f \in Telling : f \in fns <=> f \in fns2

\* Other functors come and go, unless the connection has yet to be established.
LEMMA FineStays ==
  ASSUME NEW c, NEW k \in Connections, NEW conns, NEW fns, NEW users,
         NEW conns2, NEW fns2 \in SUBSET Functors, NEW users2,
         Fine(c, k, conns, fns, users),
         c \in conns => c \in conns2, users2 \subseteq users, SameTelling(fns, fns2),
         k.state_ # "kConnecting" \/ fns2 \subseteq fns
  PROVE  Fine(c, k, conns2, fns2, users2)
<1>1. \A f \in {"connectEstablished", "connectDestoryed", "removeConnectionInLoop",
                "forceCloseInLoop", "shutdownInLoop"} : f \in fns <=> f \in fns2
  BY DEF SameTelling, Telling, Functors
<1>2. Ends(fns) = Ends(fns2) /\ Closes(fns) = Closes(fns2)
  BY <1>1 DEF Ends, Closes
<1>3. OnlySends => Life(c, k, conns2, fns2, users2)
  BY <1>1, <1>2 DEF Fine, Life
<1>4. NoLateForce => Told(k, fns2)
  BY <1>1, <1>2 DEF Fine, Told
<1> QED BY <1>3, <1>4 DEF Fine

\* newConnection
LEMMA FineNew ==
  ASSUME NEW c, NEW l \in Loops, NEW conns, c \in conns
  PROVE  Fine(c, NewConnection(l), conns, {"connectEstablished"}, {})
<1> DEFINE k == NewConnection(l)
<1>1. /\ k \in Connections /\ k.loop_ = l /\ k.state_ = "kConnecting"
      /\ k.events_ = {} /\ k.status_ = "kNew" /\ k.fin = FALSE
      /\ k.outputBuffer_ = <<>> /\ k.wire = <<>>
      /\ k.ups = 0 /\ k.downs = 0 /\ k.closes = 0
  BY NewConnectionIs
<1> HIDE DEF k
<1>2. Life(c, k, conns, {"connectEstablished"}, {})
  BY <1>1 DEF Life
<1>3. Told(k, {"connectEstablished"})
  BY <1>1 DEF Told, Ends
<1> QED BY <1>2, <1>3 DEF Fine, k

LEMMA FineEstablished ==
  ASSUME NEW c, NEW k \in Connections, NEW conns, NEW fns, NEW users,
         NEW fns2 \in SUBSET fns, NEW users2,
         Fine(c, k, conns, fns, users),
         "connectEstablished" \in fns, "connectEstablished" \notin fns2,
         "connectDestoryed" \in fns => "connectDestoryed" \in fns2
  PROVE  Fine(c, ConnectEstablished(k), conns, fns2, users2)
<1> DEFINE r == ConnectEstablished(k)
<1>1. /\ r \in Connections
      /\ r.state_ = "kConnected" /\ r.ups = k.ups + 1 /\ r.downs = k.downs
      /\ r.closes = k.closes /\ r.fin = k.fin
      /\ r.events_ = k.events_ \cup {"read"} /\ r.status_ = "kAdded"
      /\ SameBytes(k, r) /\ SameEnds(k, r)
  BY EstablishedDoes
<1> HIDE DEF r
<1>2. OnlySends => Life(c, k, conns, fns, users)
  BY DEF Fine
<1>3. OnlySends => Life(c, r, conns, fns2, users2)
  BY <1>1, <1>2 DEF Life, Closes, Ends, SameBytes
<1>4. NoLateForce => Told(r, fns2)
  <2> SUFFICES ASSUME NoLateForce
               PROVE  Told(r, fns2)
    OBVIOUS
  <2>1. k.state_ = "kConnecting" /\ Told(k, fns)
    BY <1>2 DEF Fine, Life, NoLateForce
  <2>2. r.ups = 1
    BY <1>1, <2>1 DEF Told
  <2> QED BY <1>1, <2>1, <2>2 DEF Told, Ends
<1> QED BY <1>3, <1>4 DEF Fine, r

\* connectDestoryed, which the destructor of the server runs or queues too
LEMMA FineDestoryed ==
  ASSUME NEW c, NEW k \in Connections, NEW conns, NEW fns, NEW users,
         NEW conns2, NEW fns2 \in SUBSET fns,
         Fine(c, k, conns, fns, users),
         "connectDestoryed" \in fns \/ ServerDies, "connectEstablished" \notin fns,
         \A f \in Telling \ {"connectDestoryed"} : f \in fns => f \in fns2
  PROVE  Fine(c, ConnectDestoryed(k), conns2, fns2, users)
<1> DEFINE r == ConnectDestoryed(k)
<1>1. /\ r \in Connections /\ r.status_ = "kNew" /\ r.fin = k.fin
      /\ SameBytes(k, r) /\ SameEnds(k, r) /\ r.ups = k.ups /\ r.closes = k.closes
      /\ k.state_ = "kConnected" =>
           r.state_ = "kDisconnected" /\ r.downs = k.downs + 1 /\ r.events_ = {}
      /\ k.state_ # "kConnected" =>
           r.state_ = k.state_ /\ r.downs = k.downs /\ r.events_ = k.events_
  BY DestoryedDoes
<1> HIDE DEF r
<1>2. "forceCloseInLoop" \in fns => "forceCloseInLoop" \in fns2
  BY DEF Telling, Functors
<1>3. k.downs \in Nat /\ k.state_ \in StateE
  BY Fields
<1>4. OnlySends => Life(c, k, conns, fns, users) /\ k.state_ # "kConnecting"
  BY DEF Fine, Life
<1>5. OnlySends => Life(c, r, conns2, fns2, users)
  <2> SUFFICES ASSUME OnlySends
               PROVE  Life(c, r, conns2, fns2, users)
    OBVIOUS
  <2>1. /\ "shutdownInLoop" \notin fns2 /\ "connectEstablished" \notin fns2
        /\ r.state_ # "kConnecting" /\ r.state_ # "kConnected"
    BY <1>1, <1>3, <1>4 DEF Life, StateE
  <2>2. r.state_ = "kDisconnecting" =>
          /\ k.state_ = "kDisconnecting"
          /\ "forceCloseInLoop" \in fns2 \/ "write" \in r.events_ \/ r.fin
          /\ r.fin => "write" \notin r.events_
    BY <1>1, <1>2, <1>4 DEF Life
  <2>3. r.outputBuffer_ # <<>> => "write" \in r.events_ \/ r.state_ = "kDisconnected"
    BY <1>1, <1>4 DEF Life, SameBytes
  <2>4. r.state_ = "kDisconnected" => r.downs > 0
    BY <1>1, <1>3, <1>4 DEF Life
  <2>5. ~Closes(fns2) => Quiet(r)
    <3>1. r.state_ \in {"kDisconnecting", "kDisconnected"}
      BY <1>1, <2>1, Fields DEF StateE
    <3>2. WriteFails(r) \/ ~r.fin
      BY DEF WriteFails
    <3> QED BY <2>2, <2>3, <3>1, <3>2 DEF Quiet, Closes
  <2> QED BY <1>1, <2>1, <2>2, <2>3, <2>4, <2>5 DEF Life
<1>6. NoLateForce => Told(r, fns2)
  <2> SUFFICES ASSUME NoLateForce
               PROVE  Told(r, fns2)
    OBVIOUS
  <2>1. Told(k, fns) /\ k.state_ # "kConnecting"
    BY <1>4 DEF Fine, NoLateForce
  <2>2. r.state_ = "kDisconnected" => r.downs = 1 /\ r.closes <= 1
    BY <1>1, <1>3, <2>1, Fields DEF Told
  <2>3. ~ServerDies => k.state_ = "kDisconnected"
    BY <2>1 DEF Told, Ends
  <2>4. r.state_ # "kConnecting" /\ r.ups = 1
    BY <1>1, <2>1 DEF Told
  <2>5. r.state_ # "kDisconnected" => r.downs = 0 /\ r.closes = 0
    BY <1>1, <2>1 DEF Told
  <2>6. "forceClose" \notin CallbackOps => "forceCloseInLoop" \notin fns2
    BY <2>1 DEF Told
  <2>7. ~ServerDies => r.state_ = "kDisconnected"
    BY <1>1, <2>3
  <2> QED BY <1>1, <2>2, <2>4, <2>5, <2>6, <2>7 DEF Told
<1> QED BY <1>5, <1>6 DEF Fine, r

\* handleClose, on an event of a channel the poller knows or from forceCloseInLoop
LEMMA FineClosed ==
  ASSUME NEW c, NEW k \in Connections, NEW conns, NEW fns, NEW users,
         NEW conns2, NEW fns2 \in SUBSET (fns \cup {"removeConnectionInLoop", "connectDestoryed"}),
         Fine(c, k, conns, fns, users), Ends(fns2),
         k.state_ # "kConnecting" \/ "forceCloseInLoop" \in fns,
         k.status_ = "kAdded" \/ ("forceCloseInLoop" \in fns /\ CanForceClose(k))
  PROVE  Fine(c, HandleClose(k), conns2, fns2, users)
<1> DEFINE r == HandleClose(k)
<1>1. /\ r \in Connections /\ r.state_ = "kDisconnected" /\ r.events_ = {}
      /\ r.status_ = IF k.status_ = "kAdded" THEN "kDeleted" ELSE "kAdded"
      /\ r.ups = k.ups /\ r.downs = k.downs + 1 /\ r.closes = k.closes + 1 /\ r.fin = k.fin
      /\ SameBytes(k, r) /\ SameEnds(k, r)
  BY HandleCloseDoes
<1> HIDE DEF r
<1>2. k.downs \in Nat /\ k.closes \in Nat
  BY Fields
<1>3. OnlySends => Life(c, k, conns, fns, users) /\ k.state_ # "kConnecting"
  BY DEF Fine, Life
<1>4. OnlySends => Life(c, r, conns2, fns2, users)
  <2>1. r.downs > 0
    BY <1>1, <1>2
  <2> QED BY <1>1, <1>3, <2>1 DEF Life, Closes, Quiet
<1>5. NoLateForce => Told(r, fns2)
  <2> SUFFICES ASSUME NoLateForce
               PROVE  Told(r, fns2)
    OBVIOUS
  <2>1. Told(k, fns) /\ k.state_ # "kConnecting" /\ Life(c, k, conns, fns, users)
    BY <1>3 DEF Fine, NoLateForce
  <2>2. k.status_ = "kAdded"
    BY <2>1 DEF Told, Life, NoLateForce, CanForceClose
  <2>3. k.state_ # "kDisconnected"
    BY <2>1, <2>2 DEF Told
  <2>4. r.downs = 1 /\ r.closes <= 1
    BY <1>1, <2>1, <2>3 DEF Told
  <2>5. "forceClose" \notin CallbackOps => "forceCloseInLoop" \notin fns2
    BY <2>1 DEF Told
  <2> QED BY <1>1, <2>1, <2>2, <2>4, <2>5 DEF Told
<1> QED BY <1>4, <1>5 DEF Fine, r

\* removeConnectionInLoop
LEMMA FineRemoved ==
  ASSUME NEW c, NEW k \in Connections, NEW conns, NEW fns, NEW users,
         NEW conns2, NEW fns2 \in SUBSET (fns \cup {"connectDestoryed"}),
         Fine(c, k, conns, fns, users),
         "removeConnectionInLoop" \in fns, "connectDestoryed" \in fns2,
         \A f \in Telling \ {"removeConnectionInLoop"} : f \in fns => f \in fns2
  PROVE  Fine(c, k, conns2, fns2, users)
<1>1. "forceCloseInLoop" \in fns => "forceCloseInLoop" \in fns2
  BY DEF Telling, Functors
<1>2. OnlySends => Life(c, k, conns2, fns2, users)
  BY <1>1 DEF Fine, Life, Closes, Ends
<1>3. NoLateForce => Told(k, fns2)
  BY DEF Fine, Told, Ends
<1> QED BY <1>2, <1>3 DEF Fine

\* The destructor of the server queues connectDestoryed.
LEMMA FineLeft ==
  ASSUME NEW c, NEW k \in Connections, NEW conns, NEW fns, NEW users, NEW conns2,
         Fine(c, k, conns, fns, users), ServerDies
  PROVE  Fine(c, k, conns2, fns \cup {"connectDestoryed"}, users)
<1>1. OnlySends => Life(c, k, conns2, fns \cup {"connectDestoryed"}, users)
  BY DEF Fine, Life, Closes, Ends
<1>2. NoLateForce => Told(k, fns \cup {"connectDestoryed"})
  BY DEF Fine, Told
<1> QED BY <1>1, <1>2 DEF Fine

\* forceCloseInLoop of a connection that is closed
LEMMA FineForced ==
  ASSUME NEW c, NEW k \in Connections, NEW conns, NEW fns, NEW users, NEW fns2 \in SUBSET fns,
         Fine(c, k, conns, fns, users),
         "forceCloseInLoop" \in fns, ~CanForceClose(k),
         \A f \in Telling \ {"forceCloseInLoop"} : f \in fns => f \in fns2
  PROVE  Fine(c, k, conns, fns2, users)
<1>1. \A f \in {"connectEstablished", "connectDestoryed", "removeConnectionInLoop"} :
        f \in fns => f \in fns2
  BY DEF Telling, Functors
<1>2. Ends(fns) = Ends(fns2)
  BY <1>1 DEF Ends
<1>3. k.state_ \in {"kConnecting", "kDisconnected"}
  BY Fields DEF CanForceClose, StateE
<1>4. OnlySends => Life(c, k, conns, fns2, users)
  <2> SUFFICES ASSUME OnlySends
               PROVE  Life(c, k, conns, fns2, users)
    OBVIOUS
  <2>1. Life(c, k, conns, fns, users) /\ k.state_ = "kDisconnected"
    BY <1>3 DEF Fine, Life
  <2> QED BY <1>1, <1>2, <2>1 DEF Life, Closes, Quiet
<1>5. NoLateForce => Told(k, fns2)
  BY <1>2 DEF Fine, Told
<1> QED BY <1>4, <1>5 DEF Fine

\* forceClose, called in the connection's loop
LEMMA FineForce ==
  ASSUME NEW c, NEW k \in Connections, NEW conns, NEW fns, NEW users,
         Fine(c, k, conns, fns, users), CanForceClose(k), "forceClose" \in CallbackOps
  PROVE  Fine(c, [k EXCEPT !.state_ = "kDisconnecting"], conns,
              fns \cup {"forceCloseInLoop"}, users)
<1> DEFINE r == [k EXCEPT !.state_ = "kDisconnecting"]
           fns2 == fns \cup {"forceCloseInLoop"}
<1>1. /\ r \in Connections /\ r.state_ = "kDisconnecting"
      /\ r.events_ = k.events_ /\ r.status_ = k.status_ /\ r.fin = k.fin
      /\ SameBytes(k, r) /\ SameEnds(k, r) /\ SameHistory(k, r)
  BY StateSet DEF StateE
<1> HIDE DEF r
<1>2. k.state_ = "kConnected" \/ k.state_ = "kDisconnecting"
  BY DEF CanForceClose
<1>3. Ends(fns) = Ends(fns2) /\ Closes(fns2)
  BY DEF Ends, Closes
<1>4. OnlySends => Life(c, r, conns, fns2, users)
  BY <1>1, <1>2, <1>3 DEF Fine, Life, SameBytes
<1>5. NoLateForce => Told(r, fns2)
  BY <1>1, <1>2, <1>3 DEF Fine, Told, SameHistory, NoLateForce, Life
<1> QED BY <1>4, <1>5 DEF Fine, r

\* shutdown, called in the connection's loop
LEMMA FineShutdown ==
  ASSUME NEW c, NEW k \in Connections, NEW conns, NEW fns, NEW users,
         Fine(c, k, conns, fns, users), k.state_ = "kConnected"
  PROVE  Fine(c, ShutdownInLoop([k EXCEPT !.state_ = "kDisconnecting"]), conns, fns, users)
<1> DEFINE q == [k EXCEPT !.state_ = "kDisconnecting"]
           r == ShutdownInLoop(q)
<1>1. /\ q \in Connections /\ q.state_ = "kDisconnecting"
      /\ q.events_ = k.events_ /\ q.status_ = k.status_ /\ q.fin = k.fin
      /\ SameBytes(k, q) /\ SameEnds(k, q) /\ SameHistory(k, q)
  BY StateSet DEF StateE
<1> HIDE DEF q
<1>2. /\ r \in Connections
      /\ r.fin = (q.fin \/ "write" \notin q.events_)
      /\ r.state_ = q.state_ /\ r.events_ = q.events_ /\ r.status_ = q.status_
      /\ SameBytes(q, r) /\ SameEnds(q, r) /\ SameHistory(q, r)
  BY <1>1, ShutdownDoes
<1> HIDE DEF r
<1>3. OnlySends => Life(c, r, conns, fns, users)
  BY <1>1, <1>2 DEF Fine, Life, SameBytes
<1>4. NoLateForce => Told(r, fns)
  BY <1>1, <1>2 DEF Fine, Told, SameHistory, NoLateForce, Life
<1> QED BY <1>3, <1>4 DEF Fine, r, q

\* The peer closes or resets the connection.
LEMMA FinePeer ==
  ASSUME NEW c, NEW k \in Connections, NEW conns, NEW fns, NEW users,
         Fine(c, k, conns, fns, users), k.peer = "open", NEW how \in {"closed", "reset"}
  PROVE  Fine(c, [k EXCEPT !.peer = how], conns, fns, users)
<1> DEFINE r == [k EXCEPT !.peer = how]
<1>1. /\ r \in Connections /\ r.peer = how /\ r.loop_ = k.loop_ /\ r.state_ = k.state_
      /\ r.events_ = k.events_ /\ r.status_ = k.status_ /\ r.fin = k.fin
      /\ SameBytes(k, r) /\ SameHistory(k, r)
  BY PeerSet
<1> HIDE DEF r
<1>2. Quiet(k) => Quiet(r)
  BY <1>1 DEF Quiet, WriteFails, SameBytes
<1>3. OnlySends => Life(c, r, conns, fns, users)
  BY <1>1, <1>2 DEF Fine, Life, SameBytes, SameHistory
<1>4. NoLateForce => Told(r, fns)
  BY <1>1 DEF Fine, Told, SameHistory
<1> QED BY <1>3, <1>4 DEF Fine, r

\* sendInLoop
LEMMA FineSent ==
  ASSUME NEW c, NEW k \in Connections, NEW conns, NEW fns, NEW users,
         Fine(c, k, conns, fns, users), k.state_ # "kConnecting",
         NEW m \in Messages, NEW n \in Written(k, Chunks(m))
  PROVE  Fine(c, SendInLoop(k, Chunks(m), n), conns, fns, users)
<1> DEFINE r == SendInLoop(k, Chunks(m), n)
<1>1. CASE GivesUp(k)
  BY <1>1 DEF SendInLoop
<1>2. CASE ~GivesUp(k)
  <2>1. /\ r \in Connections /\ r.state_ = k.state_ /\ r.fin = k.fin
        /\ SameEnds(k, r) /\ SameHistory(k, r)
        /\ \/ /\ r.outputBuffer_ = <<>> /\ "write" \notin k.events_ /\ ~WriteFails(k)
              /\ r.events_ = k.events_ /\ r.status_ = k.status_
           \/ /\ "write" \in k.events_
              /\ r.events_ = k.events_ /\ r.status_ = k.status_
           \/ /\ "write" \notin k.events_
              /\ r.events_ = k.events_ \cup {"write"} /\ r.status_ = "kAdded"
    BY <1>2, SendDoes
  <2> HIDE DEF r
  <2>2. k.state_ # "kDisconnected" /\ ~(WritesAtOnce(k) /\ WriteFails(k))
    BY <1>2 DEF GivesUp
  <2>3. OnlySends => Life(c, r, conns, fns, users)
    <3> SUFFICES ASSUME OnlySends
                 PROVE  Life(c, r, conns, fns, users)
      OBVIOUS
    <3>1. Life(c, k, conns, fns, users)
      BY DEF Fine
    <3>2. "write" \notin k.events_ => ~WriteFails(k) /\ k.outputBuffer_ = <<>>
      BY <2>2, <3>1 DEF Life, WritesAtOnce
    <3>3. ~Quiet(k) \/ "write" \in k.events_
      BY <2>2, <3>2 DEF Quiet
    <3>4. "write" \in r.events_ => Quiet(r)
      BY DEF Quiet
    <3>5. CASE "write" \in k.events_
      BY <2>1, <2>2, <3>1, <3>4, <3>5 DEF Life
    <3>6. CASE /\ "write" \notin k.events_
               /\ r.events_ = k.events_ \cup {"write"} /\ r.status_ = "kAdded"
      <4>1. ~k.fin
        BY <3>2, <3>6 DEF WriteFails
      <4>2. c \in conns \/ Closes(fns)
        BY <3>1, <3>3, <3>6 DEF Life
      <4> QED BY <2>1, <2>2, <3>1, <3>6, <4>1, <4>2 DEF Life
    <3>7. CASE /\ r.outputBuffer_ = <<>> /\ "write" \notin k.events_
               /\ r.events_ = k.events_ /\ r.status_ = k.status_
      <4>1. k.status_ = "kAdded" \/ c \in conns \/ Closes(fns)
        BY <3>1, <3>3, <3>7 DEF Life
      <4> QED BY <2>1, <2>2, <3>1, <3>7, <4>1 DEF Life
    <3> QED BY <2>1, <3>5, <3>6, <3>7
  <2>4. NoLateForce => Told(r, fns)
    <3>1. k.status_ = "kAdded" => r.status_ = "kAdded"
      BY <2>1
    <3>2. "read" \in k.events_ => "read" \in r.events_
      BY <2>1
    <3> QED BY <2>1, <2>2, <3>1, <3>2 DEF Fine, Told, SameHistory
  <2> QED BY <2>3, <2>4 DEF Fine, r
<1> QED BY <1>1, <1>2

\* handleWrite
LEMMA FineWritten ==
  ASSUME NEW c, NEW k \in Connections, NEW conns, NEW fns, NEW users,
         Fine(c, k, conns, fns, users), CanWrite(k), NEW n \in 1 .. Len(k.outputBuffer_)
  PROVE  Fine(c, HandleWrite(k, n), conns, fns, users)
<1> DEFINE r == HandleWrite(k, n)
           all == Len(k.outputBuffer_)
<1>1. /\ r \in Connections /\ r.state_ = k.state_
      /\ SameEnds(k, r) /\ SameHistory(k, r)
      /\ n < all => r.events_ = k.events_ /\ r.status_ = k.status_ /\ r.fin = k.fin
      /\ n = all =>
           /\ r.outputBuffer_ = <<>> /\ r.events_ = k.events_ \ {"write"}
           /\ r.status_ = IF k.status_ = "kAdded" /\ r.events_ = {} THEN "kDeleted"
                                                                    ELSE "kAdded"
           /\ r.fin = (k.fin \/ k.state_ = "kDisconnecting")
  BY HandleWriteDoes
<1> HIDE DEF r
<1>2. n < all \/ n = all
  BY Fields, LenProperties
<1> HIDE DEF all
<1>3. k.status_ = "kAdded" /\ "write" \in k.events_
  BY DEF CanWrite
<1>4. OnlySends => Life(c, r, conns, fns, users)
  <2> SUFFICES ASSUME OnlySends
               PROVE  Life(c, r, conns, fns, users)
    OBVIOUS
  <2>1. Life(c, k, conns, fns, users) /\ k.state_ # "kConnecting"
    BY <1>3 DEF Fine, Life
  <2>2. CASE n < all
    <3>1. r.events_ = k.events_ /\ r.status_ = k.status_ /\ r.fin = k.fin
      BY <1>1, <2>2
    <3> QED BY <1>1, <1>3, <2>1, <3>1 DEF Life, SameHistory
  <2>3. CASE n = all
    <3>1. /\ r.outputBuffer_ = <<>> /\ r.events_ = k.events_ \ {"write"}
          /\ r.status_ = "kDeleted" => r.events_ = {}
          /\ r.status_ \in {"kDeleted", "kAdded"}
          /\ r.fin = (k.fin \/ k.state_ = "kDisconnecting")
      <4>1. /\ r.outputBuffer_ = <<>> /\ r.events_ = k.events_ \ {"write"}
            /\ r.status_ = IF r.events_ = {} THEN "kDeleted" ELSE "kAdded"
            /\ r.fin = (k.fin \/ k.state_ = "kDisconnecting")
        BY <1>1, <1>3, <2>3, Zenon
      <4> QED BY <4>1
    <3>2. r.state_ = "kConnected" => r.status_ = "kAdded" /\ "read" \in r.events_ /\ ~r.fin
      BY <1>1, <2>1, <3>1 DEF Life
    <3>3. r.state_ \in {"kConnected", "kDisconnecting", "kDisconnected"}
      BY <1>1, <2>1, Fields DEF StateE
    <3>4. r.status_ # "kAdded" => Quiet(r)
      BY <1>1, <3>1, <3>2, <3>3 DEF Quiet, WriteFails
    <3> QED BY <1>1, <1>3, <2>1, <3>1, <3>2, <3>4 DEF Life, SameHistory
  <2> QED BY <1>2, <2>2, <2>3
<1>5. NoLateForce => Told(r, fns)
  <2> SUFFICES ASSUME NoLateForce
               PROVE  Told(r, fns)
    OBVIOUS
  <2>1. Told(k, fns) /\ k.state_ # "kDisconnected"
    BY <1>3 DEF Fine, Told
  <2>2. k.status_ = "kAdded" /\ "read" \in k.events_ =>
          r.status_ = "kAdded" /\ "read" \in r.events_
    BY <1>1, <1>2
  <2> QED BY <1>1, <2>1, <2>2 DEF Told, SameHistory
<1> QED BY <1>4, <1>5 DEF Fine, r

-----------------------------------------------------------------------------
(* The queues of the loops *)

LEMMA QueuedMeans ==
  ASSUME NEW queues, NEW c, NEW f
  PROVE  f \in QueuedIn(queues, c) <=>
           f \in Functors /\ \E l \in Loops : \E i \in DOMAIN queues[l] :
                               queues[l][i].conn = c /\ queues[l][i].fn = f
BY DEF QueuedIn

\* Push adds a task to what is queued for its connection.
LEMMA PushQueues ==
  ASSUME NEW C, NEW queues \in Queues(C), NEW l \in Loops, NEW t \in TaskFor(C),
         NEW q, q = Push(queues, l, t)
  PROVE  /\ q \in Queues(C)
         /\ \A i \in DOMAIN queues[l] : q[l][i] = queues[l][i]
         /\ \A i \in DOMAIN q[l] : i \in DOMAIN queues[l] \/ i = Len(queues[l]) + 1
         /\ Len(queues[l]) + 1 \in DOMAIN q[l] /\ q[l][Len(queues[l]) + 1] = t
         /\ DOMAIN queues[l] \subseteq DOMAIN q[l]
         /\ \A k \in Loops : k # l => q[k] = queues[k]
<1> DEFINE s == queues[l]
<1>1. s \in Seq(TaskFor(C))
  BY DEF Queues
<1>2. q = [queues EXCEPT ![l] = Append(s, t)]
  BY DEF Push
<1>3. /\ Append(s, t) \in Seq(TaskFor(C))
      /\ DOMAIN Append(s, t) = DOMAIN s \cup {Len(s) + 1} /\ Len(s) + 1 \notin DOMAIN s
      /\ \A i \in DOMAIN s : Append(s, t)[i] = s[i]
      /\ Append(s, t)[Len(s) + 1] = t
  BY <1>1, Pushed
<1>4. q \in Queues(C) /\ q[l] = Append(s, t) /\ \A k \in Loops : k # l => q[k] = queues[k]
  BY <1>2, <1>3 DEF Queues
<1> QED BY <1>3, <1>4

LEMMA PushKeeps ==
  ASSUME NEW C, NEW queues \in Queues(C), NEW l \in Loops, NEW t \in TaskFor(C),
         NEW q, q = Push(queues, l, t)
  PROVE  /\ q \in Queues(C)
         /\ \A c : c # t.conn => QueuedIn(q, c) = QueuedIn(queues, c)
         /\ QueuedIn(q, t.conn) = QueuedIn(queues, t.conn) \cup {t.fn}
<1>1. /\ q \in Queues(C)
      /\ \A i \in DOMAIN queues[l] : q[l][i] = queues[l][i]
      /\ \A i \in DOMAIN q[l] : i \in DOMAIN queues[l] \/ i = Len(queues[l]) + 1
      /\ Len(queues[l]) + 1 \in DOMAIN q[l] /\ q[l][Len(queues[l]) + 1] = t
      /\ DOMAIN queues[l] \subseteq DOMAIN q[l]
      /\ \A k \in Loops : k # l => q[k] = queues[k]
  BY PushQueues
<1>2. t.fn \in Functors
  BY DEF TaskFor
<1>3. \A c, f : f \in QueuedIn(q, c) <=>
        f \in QueuedIn(queues, c) \/ (c = t.conn /\ f = t.fn)
  <2> TAKE c, f
  <2>1. ASSUME f \in QueuedIn(queues, c)
        PROVE  f \in QueuedIn(q, c)
    <3>1. PICK k \in Loops : \E i \in DOMAIN queues[k] :
                 queues[k][i].conn = c /\ queues[k][i].fn = f
      BY <2>1, QueuedMeans
    <3>2. PICK i \in DOMAIN queues[k] : queues[k][i].conn = c /\ queues[k][i].fn = f
      BY <3>1
    <3>3. i \in DOMAIN q[k] /\ q[k][i] = queues[k][i]
      BY <1>1
    <3>4. f \in Functors
      BY <2>1, QueuedMeans
    <3> QED BY <3>2, <3>3, <3>4, QueuedMeans
  <2>2. ASSUME c = t.conn, f = t.fn
        PROVE  f \in QueuedIn(q, c)
    BY <1>1, <1>2, <2>2, QueuedMeans
  <2>3. ASSUME f \in QueuedIn(q, c)
        PROVE  f \in QueuedIn(queues, c) \/ (c = t.conn /\ f = t.fn)
    <3>1. PICK k \in Loops : \E i \in DOMAIN q[k] : q[k][i].conn = c /\ q[k][i].fn = f
      BY <2>3, QueuedMeans
    <3>2. PICK i \in DOMAIN q[k] : q[k][i].conn = c /\ q[k][i].fn = f
      BY <3>1
    <3>3. f \in Functors
      BY <2>3, QueuedMeans
    <3>4. CASE i \in DOMAIN queues[k]
      <4>1. q[k][i] = queues[k][i]
        BY <1>1, <3>4
      <4> QED BY <3>2, <3>3, <3>4, <4>1, QueuedMeans
    <3>5. CASE i \notin DOMAIN queues[k]
      BY <1>1, <3>2, <3>5
    <3> QED BY <3>4, <3>5
  <2> QED BY <2>1, <2>2, <2>3
<1>4. \A c : c # t.conn => QueuedIn(q, c) = QueuedIn(queues, c)
  <2> SUFFICES ASSUME NEW c, c # t.conn
               PROVE  QueuedIn(q, c) = QueuedIn(queues, c)
    OBVIOUS
  <2> QED BY <1>3
<1>5. QueuedIn(q, t.conn) = QueuedIn(queues, t.conn) \cup {t.fn}
  BY <1>3
<1> QED BY <1>1, <1>4, <1>5

\* A task may be pushed if it is in its connection's home, or need not be there; and
\* connectEstablished only where nothing is queued for the connection.
LEMMA PushOrdered ==
  ASSUME NEW C, NEW queues \in Queues(C), NEW l \in Loops, NEW t \in TaskFor(C),
         NEW q, q = Push(queues, l, t), NEW home, Ordered(queues, home),
         t.fn \in {"connectEstablished", "connectDestoryed"} => home[t.conn] = l,
         t.fn = "connectEstablished" =>
           l # mainLoop /\ \A i \in DOMAIN queues[l] : queues[l][i].conn # t.conn
  PROVE  Ordered(q, home)
<1>1. /\ \A i \in DOMAIN queues[l] : q[l][i] = queues[l][i]
      /\ \A i \in DOMAIN q[l] : i \in DOMAIN queues[l] \/ i = Len(queues[l]) + 1
      /\ q[l][Len(queues[l]) + 1] = t
      /\ \A k \in Loops : k # l => q[k] = queues[k]
  BY PushQueues
<1>2. DOMAIN queues[l] = 1 .. Len(queues[l]) /\ Len(queues[l]) \in Nat
  BY LenProperties DEF Queues
<1> SUFFICES ASSUME NEW k \in Loops, NEW j \in DOMAIN q[k]
             PROVE  /\ q[k][j].fn \in {"connectEstablished", "connectDestoryed"}
                         => home[q[k][j].conn] = k
                    /\ q[k][j].fn = "connectEstablished"
                         => /\ k # mainLoop
                            /\ \A i \in DOMAIN q[k] : i < j => q[k][i].conn # q[k][j].conn
  BY DEF Ordered
<1>3. CASE j \in DOMAIN queues[k]
  <2>1. q[k][j] = queues[k][j]
    BY <1>1, <1>3
  <2>2. \A i \in DOMAIN q[k] : i < j => i \in DOMAIN queues[k] /\ q[k][i] = queues[k][i]
    BY <1>1, <1>2, <1>3
  <2> QED BY <1>3, <2>1, <2>2 DEF Ordered
<1>4. CASE j \notin DOMAIN queues[k]
  <2>1. k = l /\ j = Len(queues[l]) + 1 /\ q[k][j] = t
    BY <1>1, <1>4
  <2>2. \A i \in DOMAIN q[k] : i < j => i \in DOMAIN queues[l] /\ q[k][i] = queues[l][i]
    BY <1>1, <1>2, <2>1
  <2> QED BY <2>1, <2>2
<1> QED BY <1>3, <1>4

\* Pop takes the first task of a queue.
LEMMA PopQueues ==
  ASSUME NEW C, NEW queues \in Queues(C), NEW l \in Loops, queues[l] # <<>>,
         NEW q, q = Pop(queues, l)
  PROVE  /\ q \in Queues(C)
         /\ Head(queues[l]) \in TaskFor(C)
         /\ 1 \in DOMAIN queues[l] /\ queues[l][1] = Head(queues[l])
         /\ \A i \in DOMAIN q[l] :
              i + 1 \in DOMAIN queues[l] /\ i + 1 # 1 /\ q[l][i] = queues[l][i + 1]
         /\ \A j \in DOMAIN queues[l] :
              j = 1 \/ (j - 1 \in DOMAIN q[l] /\ q[l][j - 1] = queues[l][j])
         /\ \A k \in Loops : k # l => q[k] = queues[k]
<1> DEFINE s == queues[l]
<1>1. s \in Seq(TaskFor(C))
  BY DEF Queues
<1>2. q = [queues EXCEPT ![l] = Tail(s)]
  BY DEF Pop
<1>3. /\ Tail(s) \in Seq(TaskFor(C))
      /\ 1 \in DOMAIN s /\ s[1] = Head(s) /\ Head(s) \in TaskFor(C)
      /\ \A i \in DOMAIN Tail(s) : i + 1 \in DOMAIN s /\ i + 1 # 1 /\ Tail(s)[i] = s[i + 1]
      /\ \A j \in DOMAIN s : j = 1 \/ (j - 1 \in DOMAIN Tail(s) /\ Tail(s)[j - 1] = s[j])
  BY <1>1, Popped
<1>4. q \in Queues(C) /\ q[l] = Tail(s) /\ \A k \in Loops : k # l => q[k] = queues[k]
  BY <1>2, <1>3 DEF Queues
<1> QED BY <1>3, <1>4

LEMMA PopKeeps ==
  ASSUME NEW C, NEW queues \in Queues(C), NEW l \in Loops, queues[l] # <<>>,
         NEW q, q = Pop(queues, l), NEW t, t = Head(queues[l])
  PROVE  /\ q \in Queues(C) /\ t \in TaskFor(C)
         /\ \A c : c # t.conn => QueuedIn(q, c) = QueuedIn(queues, c)
         /\ QueuedIn(q, t.conn) \subseteq QueuedIn(queues, t.conn)
         /\ t.fn \in QueuedIn(queues, t.conn)
         /\ \A f \in QueuedIn(queues, t.conn) : f # t.fn => f \in QueuedIn(q, t.conn)
<1>1. /\ q \in Queues(C) /\ t \in TaskFor(C)
      /\ 1 \in DOMAIN queues[l] /\ queues[l][1] = t
      /\ \A i \in DOMAIN q[l] : i + 1 \in DOMAIN queues[l] /\ q[l][i] = queues[l][i + 1]
      /\ \A j \in DOMAIN queues[l] :
           j = 1 \/ (j - 1 \in DOMAIN q[l] /\ q[l][j - 1] = queues[l][j])
      /\ \A k \in Loops : k # l => q[k] = queues[k]
  BY PopQueues
<1>2. t.fn \in Functors
  BY <1>1 DEF TaskFor
<1>3. \A c, f : f \in QueuedIn(q, c) => f \in QueuedIn(queues, c)
  <2> SUFFICES ASSUME NEW c, NEW f, f \in QueuedIn(q, c)
               PROVE  f \in QueuedIn(queues, c)
    OBVIOUS
  <2>1. PICK k \in Loops : \E i \in DOMAIN q[k] : q[k][i].conn = c /\ q[k][i].fn = f
    BY QueuedMeans
  <2>2. PICK i \in DOMAIN q[k] : q[k][i].conn = c /\ q[k][i].fn = f
    BY <2>1
  <2>3. f \in Functors
    BY QueuedMeans
  <2>4. \E j \in DOMAIN queues[k] : queues[k][j] = q[k][i]
    BY <1>1
  <2> QED BY <2>2, <2>3, <2>4, QueuedMeans
<1>4. \A c, f : f \in QueuedIn(queues, c) => f \in QueuedIn(q, c) \/ (c = t.conn /\ f = t.fn)
  <2> SUFFICES ASSUME NEW c, NEW f, f \in QueuedIn(queues, c)
               PROVE  f \in QueuedIn(q, c) \/ (c = t.conn /\ f = t.fn)
    OBVIOUS
  <2>1. PICK k \in Loops : \E i \in DOMAIN queues[k] :
               queues[k][i].conn = c /\ queues[k][i].fn = f
    BY QueuedMeans
  <2>2. PICK i \in DOMAIN queues[k] : queues[k][i].conn = c /\ queues[k][i].fn = f
    BY <2>1
  <2>3. f \in Functors
    BY QueuedMeans
  <2>4. (k = l /\ i = 1) \/ \E j \in DOMAIN q[k] : q[k][j] = queues[k][i]
    BY <1>1
  <2> QED BY <1>1, <2>2, <2>3, <2>4, QueuedMeans
<1>5. t.fn \in QueuedIn(queues, t.conn)
  BY <1>1, <1>2, QueuedMeans
<1>6. \A c : c # t.conn => QueuedIn(q, c) = QueuedIn(queues, c)
  <2> SUFFICES ASSUME NEW c, c # t.conn
               PROVE  QueuedIn(q, c) = QueuedIn(queues, c)
    OBVIOUS
  <2>1. \A f : f \in QueuedIn(q, c) <=> f \in QueuedIn(queues, c)
    BY <1>3, <1>4
  <2> QED BY <2>1
<1>7. /\ QueuedIn(q, t.conn) \subseteq QueuedIn(queues, t.conn)
      /\ \A f \in QueuedIn(queues, t.conn) : f # t.fn => f \in QueuedIn(q, t.conn)
  BY <1>3, <1>4
<1> QED BY <1>1, <1>5, <1>6, <1>7

\* The order stays; connectEstablished was there once, and is not behind connectDestoryed.
LEMMA PopOrdered ==
  ASSUME NEW C, NEW queues \in Queues(C), NEW l \in Loops, queues[l] # <<>>,
         NEW q, q = Pop(queues, l), NEW t, t = Head(queues[l]),
         NEW home, Ordered(queues, home)
  PROVE  /\ Ordered(q, home)
         /\ t.fn = "connectEstablished" => "connectEstablished" \notin QueuedIn(q, t.conn)
         /\ t.fn = "connectDestoryed" =>
              home[t.conn] = l /\ "connectEstablished" \notin QueuedIn(queues, t.conn)
<1>1. /\ q \in Queues(C) /\ t \in TaskFor(C)
      /\ 1 \in DOMAIN queues[l] /\ queues[l][1] = t
      /\ \A i \in DOMAIN q[l] :
           i + 1 \in DOMAIN queues[l] /\ i + 1 # 1 /\ q[l][i] = queues[l][i + 1]
      /\ \A k \in Loops : k # l => q[k] = queues[k]
  BY PopQueues
<1>2. /\ \A k \in Loops : DOMAIN q[k] = 1 .. Len(q[k]) /\ Len(q[k]) \in Nat
      /\ \A k \in Loops : DOMAIN queues[k] = 1 .. Len(queues[k]) /\ Len(queues[k]) \in Nat
  BY <1>1, LenProperties DEF Queues
<1>3. \A k \in Loops : \A j \in DOMAIN queues[k] :
        /\ queues[k][j].fn \in {"connectEstablished", "connectDestoryed"}
             => home[queues[k][j].conn] = k
        /\ queues[k][j].fn = "connectEstablished"
             => /\ k # mainLoop
                /\ \A i \in DOMAIN queues[k] : i < j => queues[k][i].conn # queues[k][j].conn
  BY DEF Ordered
<1>4. Ordered(q, home)
  <2> SUFFICES ASSUME NEW k \in Loops, NEW j \in DOMAIN q[k]
               PROVE  /\ q[k][j].fn \in {"connectEstablished", "connectDestoryed"}
                           => home[q[k][j].conn] = k
                      /\ q[k][j].fn = "connectEstablished"
                           => /\ k # mainLoop
                              /\ \A i \in DOMAIN q[k] : i < j => q[k][i].conn # q[k][j].conn
    BY DEF Ordered
  <2>1. CASE k # l
    BY <1>1, <1>3, <2>1
  <2>2. CASE k = l
    <3>1. j + 1 \in DOMAIN queues[l] /\ q[k][j] = queues[l][j + 1]
      BY <1>1, <2>2
    <3>2. \A i \in DOMAIN q[k] : i < j =>
            i + 1 \in DOMAIN queues[l] /\ i + 1 < j + 1 /\ q[k][i] = queues[l][i + 1]
      BY <1>1, <1>2, <2>2
    <3> QED BY <1>3, <2>2, <3>1, <3>2
  <2> QED BY <2>1, <2>2
<1>5. ASSUME t.fn = "connectEstablished" \/ t.fn = "connectDestoryed",
             NEW k \in Loops, NEW j \in DOMAIN queues[k],
             queues[k][j].conn = t.conn, queues[k][j].fn = "connectEstablished"
      PROVE  k = l /\ j = 1
  <2>1. home[t.conn] = l /\ home[t.conn] = k
    BY <1>1, <1>3, <1>5
  <2>2. ~(1 < j)
    BY <1>1, <1>3, <1>5, <2>1
  <2> QED BY <1>2, <2>1, <2>2
<1>6. t.fn = "connectEstablished" => "connectEstablished" \notin QueuedIn(q, t.conn)
  <2> SUFFICES ASSUME t.fn = "connectEstablished", NEW k \in Loops, NEW i \in DOMAIN q[k],
                      q[k][i].conn = t.conn, q[k][i].fn = "connectEstablished"
               PROVE  FALSE
    BY QueuedMeans
  <2>1. k = l
    BY <1>1, <1>5
  <2>2. i + 1 \in DOMAIN queues[l] /\ i + 1 # 1 /\ q[l][i] = queues[l][i + 1]
    BY <1>1, <2>1
  <2> QED BY <1>5, <2>1, <2>2
<1>7. t.fn = "connectDestoryed" =>
        home[t.conn] = l /\ "connectEstablished" \notin QueuedIn(queues, t.conn)
  <2> SUFFICES ASSUME t.fn = "connectDestoryed"
               PROVE  home[t.conn] = l /\ "connectEstablished" \notin QueuedIn(queues, t.conn)
    OBVIOUS
  <2>1. home[t.conn] = l
    BY <1>1, <1>3
  <2>2. "connectEstablished" \notin QueuedIn(queues, t.conn)
    BY <1>1, <1>5, QueuedMeans
  <2> QED BY <2>1, <2>2
<1> QED BY <1>4, <1>6, <1>7

-----------------------------------------------------------------------------
(* A step that is about one connection *)

LEMMA NotNone ==
  /\ None \notin Connections
  /\ \A x \in (Users \cup Loops) \X Conns : x # None
BY NoneAssumption DEF Connections, Chunk

LEMMA AcceptedMeans == \A c : c \in Accepted <=> c \in Conns /\ conn[c] # None
BY DEF Accepted

\* The connection d alone changes, to r.
LEMMA OneChanges ==
  ASSUME TypeInv, NEW d \in Accepted, NEW r \in Connections,
         conn' = [conn EXCEPT ![d] = r], r.loop_ = conn[d].loop_
  PROVE  /\ conn' \in [Conns -> Connections \cup {None}]
         /\ conn'[d] = r /\ \A c \in Conns : c # d => conn'[c] = conn[c]
         /\ Accepted' = Accepted /\ Home' = Home
         /\ \A c \in Accepted : conn'[c] \in Connections /\ conn'[c].loop_ = conn[c].loop_
<1>1. /\ conn \in [Conns -> Connections \cup {None}] /\ d \in Conns
      /\ \A c \in Accepted : conn[c] \in Connections
  BY DEF TypeInv, Accepted
<1>2. /\ conn' \in [Conns -> Connections \cup {None}]
      /\ conn'[d] = r /\ \A c \in Conns : c # d => conn'[c] = conn[c]
  BY <1>1
<1>3. Accepted' = Accepted
  BY <1>2, NotNone DEF Accepted
<1>4. \A c \in Accepted : c \in Conns
  BY DEF Accepted
<1>5. \A c \in Accepted : conn'[c] \in Connections /\ conn'[c].loop_ = conn[c].loop_
  BY <1>1, <1>2, <1>4
<1> QED BY <1>2, <1>3, <1>5 DEF Home, LoopOf

\* Others stay as they are, and this one is fine again.
StepOf(d, r) ==
  /\ r \in Connections /\ conn' = [conn EXCEPT ![d] = r] /\ r.loop_ = conn[d].loop_
  /\ connections_' \subseteq connections_
  /\ \A c : c # d /\ c \in connections_ => c \in connections_'
  /\ tasks' \in Queues(Accepted) /\ Ordered(tasks', Home)
  /\ \A c : c # d => QueuedIn(tasks', c) = QueuedFor(c)
  /\ handles' \in [Users -> SUBSET Accepted]
  /\ \A u \in Users : handles'[u] \subseteq handles[u] \cup {d}
  /\ OpsInv' /\ UNCHANGED next_
  /\ Fine(d, r, connections_', QueuedIn(tasks', d), {u \in Users : d \in handles'[u]})

LEMMA FineNext ==
  ASSUME TypeInv, FineInv, NEW d,
         \A c \in Accepted' : c # d =>
           /\ c \in Accepted /\ conn'[c] = conn[c] /\ (c \in connections_ => c \in connections_')
           /\ QueuedIn(tasks', c) = QueuedFor(c)
           /\ \A u \in Users : c \in handles'[u] => c \in handles[u],
         d \in Accepted' => Fine(d, conn'[d], connections_', QueuedIn(tasks', d),
                                 {u \in Users : d \in handles'[u]})
  PROVE  FineInv'
<1> SUFFICES ASSUME NEW c \in Accepted'
             PROVE  Fine(c, conn'[c], connections_', QueuedIn(tasks', c),
                         {u \in Users : c \in handles'[u]})
  BY DEF FineInv, QueuedFor, KnownTo
<1>1. CASE c = d
  BY <1>1
<1>2. CASE c # d
  <2>1. /\ conn[c] \in Connections /\ conn'[c] = conn[c]
        /\ (c \in connections_ => c \in connections_')
        /\ QueuedIn(tasks', c) = QueuedFor(c)
    BY <1>2 DEF TypeInv, Accepted
  <2>2. Fine(c, conn[c], connections_, QueuedFor(c), KnownTo(c))
    BY <1>2 DEF FineInv
  <2>3. {u \in Users : c \in handles'[u]} \subseteq KnownTo(c)
    BY <1>2 DEF KnownTo
  <2>4. QueuedFor(c) \in SUBSET Functors /\ SameTelling(QueuedFor(c), QueuedFor(c))
    BY DEF QueuedFor, QueuedIn, SameTelling
  <2> QED BY <2>1, <2>2, <2>3, <2>4, FineStays
<1> QED BY <1>1, <1>2

\* The history may go on, too.
LEMMA StepKeeps ==
  ASSUME IInv, NEW d \in Accepted, NEW r, StepOf(d, r),
         DOMAIN sent' = Messages,
         \A m \in Messages : sent'[m] = None \/ sent'[m] \in (Users \cup Loops) \X Accepted,
         promised' \subseteq Messages,
         accepted' \in [Conns -> Seq(Chunk)], \A c \in Conns : c # d => accepted'[c] = accepted[c],
         Cat(r.wire, r.outputBuffer_) = accepted'[d]
  PROVE  /\ TypeInv' /\ Ordered(tasks, Home)' /\ BytesInOrder' /\ FineInv'
         /\ Accepted' = Accepted /\ conn'[d] = r
         /\ \A c \in Accepted : c # d => conn'[c] = conn[c]
         /\ \A c \in Accepted : LoopOf(c)' = LoopOf(c)
<1> USE DEF IInv
<1>1. /\ conn' \in [Conns -> Connections \cup {None}]
      /\ conn'[d] = r /\ \A c \in Conns : c # d => conn'[c] = conn[c]
      /\ Accepted' = Accepted /\ Home' = Home
      /\ \A c \in Accepted : conn'[c] \in Connections /\ conn'[c].loop_ = conn[c].loop_
  BY OneChanges DEF StepOf
<1>2. \A c \in Accepted : c \in Conns
  BY DEF Accepted
<1>3. TypeInv'
  <2>1. connections_' \subseteq Accepted /\ IsFiniteSet(connections_')
    BY FS_Subset DEF TypeInv, StepOf
  <2>2. OpsInv'
    BY DEF StepOf
  <2>3. \A c \in Conns \ Accepted : accepted'[c] = <<>>
    BY DEF TypeInv
  <2>4. next_' \in Nat /\ (loops_ # <<>> => next_' < Len(loops_))
    BY DEF TypeInv, StepOf
  <2>5. tasks' \in Queues(Accepted) /\ handles' \in [Users -> SUBSET Accepted]
    BY DEF StepOf
  <2> QED BY <1>1, <2>1, <2>2, <2>3, <2>4, <2>5 DEF TypeInv
<1>4. Ordered(tasks, Home)'
  BY <1>1 DEF StepOf, Ordered
<1>5. BytesInOrder'
  <2> SUFFICES ASSUME NEW c \in Accepted
               PROVE  Cat(conn'[c].wire, conn'[c].outputBuffer_) = accepted'[c]
    BY <1>1 DEF BytesInOrder, Cat
  <2>1. Cat(conn[c].wire, conn[c].outputBuffer_) = accepted[c]
    BY DEF BytesInOrder, Cat
  <2> QED BY <1>1, <1>2, <2>1
<1>6. FineInv'
  <2>1. Fine(d, conn'[d], connections_', QueuedIn(tasks', d), {u \in Users : d \in handles'[u]})
    BY <1>1 DEF StepOf
  <2>2. \A c \in Accepted' : c # d =>
           /\ c \in Accepted /\ conn'[c] = conn[c] /\ (c \in connections_ => c \in connections_')
           /\ QueuedIn(tasks', c) = QueuedFor(c)
           /\ \A u \in Users : c \in handles'[u] => c \in handles[u]
    BY <1>1, <1>2 DEF StepOf
  <2> QED BY <2>1, <2>2, FineNext
<1> QED BY <1>1, <1>2, <1>3, <1>4, <1>5, <1>6 DEF LoopOf

\* It does not.
LEMMA QuietStepKeeps ==
  ASSUME IInv, NEW d \in Accepted, NEW r, StepOf(d, r),
         UNCHANGED <<sent, accepted, promised>>,
         conn[d].peer = "reset" => r.peer = "reset",
         Cat(r.wire, r.outputBuffer_) = Cat(conn[d].wire, conn[d].outputBuffer_)
  PROVE  IInv'
<1> USE DEF IInv
<1>1. /\ DOMAIN sent' = Messages
      /\ \A m \in Messages : sent'[m] = None \/ sent'[m] \in (Users \cup Loops) \X Accepted
      /\ promised' \subseteq Messages
      /\ accepted' \in [Conns -> Seq(Chunk)] /\ \A c \in Conns : c # d => accepted'[c] = accepted[c]
  BY DEF TypeInv
<1>2. Cat(r.wire, r.outputBuffer_) = accepted'[d]
  BY DEF BytesInOrder, Cat
<1>3. /\ TypeInv' /\ Ordered(tasks, Home)' /\ BytesInOrder' /\ FineInv'
      /\ Accepted' = Accepted /\ conn'[d] = r
      /\ \A c \in Accepted : c # d => conn'[c] = conn[c]
      /\ \A c \in Accepted : LoopOf(c)' = LoopOf(c)
  BY <1>1, <1>2, StepKeeps
<1>4. SentInv'
  <2>1. \A c \in Accepted : conn[c].peer = "reset" => conn'[c].peer = "reset"
    BY <1>3
  <2> QED BY <1>3, <2>1 DEF SentInv
<1> QED BY <1>3, <1>4

LEMMA LoopsAre ==
  ASSUME TypeInv, NEW c \in Accepted
  PROVE  /\ mainLoop \in Loops /\ LoopOf(c) \in Loops /\ Home[c] = LoopOf(c) /\ c \in Conns
         /\ conn[c] \in Connections
BY Fields DEF TypeInv, LoopOf, Home, Loops, Accepted

LEMMA TasksAre ==
  ASSUME NEW fn \in Functors, NEW c, NEW m \in Messages \cup {None}, NEW C, c \in C
  PROVE  /\ Task(fn, c, m) \in TaskFor(C)
         /\ Task(fn, c, m).fn = fn /\ Task(fn, c, m).conn = c
BY DEF Task, TaskFor

\* A functor leaves the queue; the connection it is for is fine.
LEMMA Starts ==
  ASSUME IInv, NEW l \in Loops, NEW c \in Accepted, NEW fn \in Functors,
         NEW m \in Messages \cup {None}, StartTask(l, fn, c, m), NEW q, q = Pop(tasks, l)
  PROVE  /\ q \in Queues(Accepted) /\ Ordered(q, Home)
         /\ \A d : d # c => QueuedIn(q, d) = QueuedFor(d)
         /\ QueuedIn(q, c) \in SUBSET QueuedFor(c) /\ QueuedIn(q, c) \in SUBSET Functors
         /\ fn \in QueuedFor(c) /\ \A f \in QueuedFor(c) : f # fn => f \in QueuedIn(q, c)
         /\ fn = "connectEstablished" => "connectEstablished" \notin QueuedIn(q, c)
         /\ fn = "connectDestoryed" => "connectEstablished" \notin QueuedFor(c)
         /\ Fine(c, conn[c], connections_, QueuedFor(c), KnownTo(c))
         /\ conn[c] \in Connections
<1> DEFINE t == Task(fn, c, m)
<1>1. t.fn = fn /\ t.conn = c
  BY TasksAre
<1>2. tasks \in Queues(Accepted) /\ tasks[l] # <<>> /\ t = Head(tasks[l]) /\ Ordered(tasks, Home)
  BY DEF StartTask, IInv, TypeInv
<1> HIDE DEF t
<1>3. /\ q \in Queues(Accepted) /\ t \in TaskFor(Accepted)
      /\ \A d : d # t.conn => QueuedIn(q, d) = QueuedIn(tasks, d)
      /\ QueuedIn(q, t.conn) \subseteq QueuedIn(tasks, t.conn)
      /\ t.fn \in QueuedIn(tasks, t.conn)
      /\ \A f \in QueuedIn(tasks, t.conn) : f # t.fn => f \in QueuedIn(q, t.conn)
  BY <1>2, PopKeeps
<1>4. /\ Ordered(q, Home)
      /\ t.fn = "connectEstablished" => "connectEstablished" \notin QueuedIn(q, t.conn)
      /\ t.fn = "connectDestoryed" => "connectEstablished" \notin QueuedIn(tasks, t.conn)
  BY <1>2, PopOrdered
<1>5. QueuedIn(q, c) \in SUBSET Functors
  BY DEF QueuedIn
<1>6. Fine(c, conn[c], connections_, QueuedFor(c), KnownTo(c)) /\ conn[c] \in Connections
  BY LoopsAre DEF IInv, FineInv
<1> QED BY <1>1, <1>3, <1>4, <1>5, <1>6 DEF QueuedFor

\* A functor other than connectEstablished enters a queue.
LEMMA Enters ==
  ASSUME TypeInv, NEW p \in Queues(Accepted), Ordered(p, Home),
         NEW l \in Loops, NEW c \in Accepted, NEW fn \in Functors, fn # "connectEstablished",
         fn = "connectDestoryed" => LoopOf(c) = l, NEW m \in Messages \cup {None},
         NEW q, q = Push(p, l, Task(fn, c, m))
  PROVE  /\ q \in Queues(Accepted) /\ Ordered(q, Home)
         /\ \A d : d # c => QueuedIn(q, d) = QueuedIn(p, d)
         /\ QueuedIn(q, c) = QueuedIn(p, c) \cup {fn}
<1> DEFINE t == Task(fn, c, m)
<1>1. t \in TaskFor(Accepted) /\ t.fn = fn /\ t.conn = c
  BY TasksAre
<1>2. Home[c] = LoopOf(c)
  BY LoopsAre
<1> HIDE DEF t
<1>3. q = Push(p, l, t)
  BY DEF t
<1>4. /\ q \in Queues(Accepted)
      /\ \A d : d # t.conn => QueuedIn(q, d) = QueuedIn(p, d)
      /\ QueuedIn(q, t.conn) = QueuedIn(p, t.conn) \cup {t.fn}
  BY <1>1, <1>3, PushKeeps
<1>5. Ordered(q, Home)
  <2>1. /\ t.fn \in {"connectEstablished", "connectDestoryed"} => Home[t.conn] = l
        /\ t.fn # "connectEstablished"
    BY <1>1, <1>2
  <2> QED BY <1>1, <1>3, <2>1, PushOrdered
<1> QED BY <1>1, <1>4, <1>5

\* The queues are those of Close's caller and the functor it adds.
LEMMA CloseDoes ==
  ASSUME TypeInv, NEW c \in Accepted, NEW p \in Queues(Accepted), Ordered(p, Home), Close(c, p)
  PROVE  /\ conn' = [conn EXCEPT ![c] = HandleClose(conn[c])]
         /\ connections_' \subseteq connections_
         /\ \A d : d # c /\ d \in connections_ => d \in connections_'
         /\ tasks' \in Queues(Accepted) /\ Ordered(tasks', Home)
         /\ \A d : d # c => QueuedIn(tasks', d) = QueuedIn(p, d)
         /\ \E fn \in {"removeConnectionInLoop", "connectDestoryed"} :
              QueuedIn(tasks', c) = QueuedIn(p, c) \cup {fn}
<1>1. mainLoop \in Loops /\ LoopOf(c) \in Loops /\ None \in Messages \cup {None}
  BY LoopsAre
<1>2. {"removeConnectionInLoop", "connectDestoryed"} \subseteq Functors
  BY DEF Functors
<1>3. CASE LoopOf(c) = mainLoop
  <2>1. /\ conn' = [conn EXCEPT ![c] = HandleClose(conn[c])]
        /\ connections_' = connections_ \ {c}
        /\ tasks' = Push(p, LoopOf(c), Task("connectDestoryed", c, None))
    BY <1>3 DEF Close, RemoveConnectionInLoop
  <2>2. /\ tasks' \in Queues(Accepted) /\ Ordered(tasks', Home)
        /\ \A d : d # c => QueuedIn(tasks', d) = QueuedIn(p, d)
        /\ QueuedIn(tasks', c) = QueuedIn(p, c) \cup {"connectDestoryed"}
    BY <1>1, <1>2, <2>1, Enters
  <2> QED BY <2>1, <2>2
<1>4. CASE LoopOf(c) # mainLoop
  <2>1. /\ conn' = [conn EXCEPT ![c] = HandleClose(conn[c])]
        /\ connections_' = connections_
        /\ tasks' = Push(p, mainLoop, Task("removeConnectionInLoop", c, None))
    BY <1>4 DEF Close
  <2>2. /\ tasks' \in Queues(Accepted) /\ Ordered(tasks', Home)
        /\ \A d : d # c => QueuedIn(tasks', d) = QueuedIn(p, d)
        /\ QueuedIn(tasks', c) = QueuedIn(p, c) \cup {"removeConnectionInLoop"}
    BY <1>1, <1>2, <2>1, Enters
  <2> QED BY <2>1, <2>2
<1> QED BY <1>3, <1>4

-----------------------------------------------------------------------------
(* Each action keeps the invariant: what a loop runs *)

\* handles and op are left alone, the users are those there were.
LEMMA SameUsers ==
  ASSUME TypeInv, UNCHANGED <<handles, op>>, NEW d
  PROVE  /\ handles' \in [Users -> SUBSET Accepted]
         /\ \A u \in Users : handles'[u] \subseteq handles[u] \cup {d}
         /\ {u \in Users : d \in handles'[u]} = KnownTo(d)
         /\ OpsInv'
BY DEF TypeInv, KnownTo, OpsInv

LEMMA Untouched ==
  ASSUME TypeInv, NEW c \in Accepted, UNCHANGED conn
  PROVE  conn' = [conn EXCEPT ![c] = conn[c]]
BY DEF TypeInv

LEMMA EstablishedKeeps ==
  ASSUME IInv, NEW l \in Loops, NEW c \in Accepted, RunConnectEstablished(l, c)
  PROVE  IInv'
<1> USE DEF IInv
<1> DEFINE k == conn[c]
           r == ConnectEstablished(k)
<1>1. /\ StartTask(l, "connectEstablished", c, None)
      /\ conn' = [conn EXCEPT ![c] = r]
      /\ handles' = [u \in Users |-> handles[u] \cup {c}] /\ tasks' = Pop(tasks, l)
      /\ UNCHANGED <<connections_, next_, server, op, sent, accepted, promised>>
  BY DEF RunConnectEstablished
<1>2. /\ tasks' \in Queues(Accepted) /\ Ordered(tasks', Home)
      /\ \A d : d # c => QueuedIn(tasks', d) = QueuedFor(d)
      /\ QueuedIn(tasks', c) \in SUBSET QueuedFor(c)
      /\ "connectEstablished" \in QueuedFor(c)
      /\ \A f \in QueuedFor(c) : f # "connectEstablished" => f \in QueuedIn(tasks', c)
      /\ "connectEstablished" \notin QueuedIn(tasks', c)
      /\ Fine(c, k, connections_, QueuedFor(c), KnownTo(c)) /\ k \in Connections
  BY <1>1, Starts DEF Functors
<1>3. /\ r \in Connections /\ SameBytes(k, r) /\ SameEnds(k, r)
  BY <1>2, EstablishedDoes
<1>4. Fine(c, r, connections_', QueuedIn(tasks', c), {u \in Users : c \in handles'[u]})
  BY <1>1, <1>2, FineEstablished
<1> HIDE DEF r
<1>5. StepOf(c, r)
  <2>1. /\ handles' \in [Users -> SUBSET Accepted]
        /\ \A u \in Users : handles'[u] \subseteq handles[u] \cup {c}
    BY <1>1 DEF TypeInv
  <2>2. OpsInv'
    BY <1>1 DEF TypeInv, OpsInv
  <2> QED BY <1>1, <1>2, <1>3, <1>4, <2>1, <2>2 DEF StepOf, SameEnds
<1> QED BY <1>1, <1>3, <1>5, QuietStepKeeps DEF SameBytes, SameEnds, Cat

LEMMA DestoryedKeeps ==
  ASSUME IInv, NEW l \in Loops, NEW c \in Accepted, RunConnectDestoryed(l, c)
  PROVE  IInv'
<1> USE DEF IInv
<1> DEFINE k == conn[c]
           r == ConnectDestoryed(k)
<1>1. /\ StartTask(l, "connectDestoryed", c, None)
      /\ conn' = [conn EXCEPT ![c] = r] /\ tasks' = Pop(tasks, l)
      /\ UNCHANGED <<connections_, next_, server, handles, op, sent, accepted, promised>>
  BY DEF RunConnectDestoryed
<1>2. /\ tasks' \in Queues(Accepted) /\ Ordered(tasks', Home)
      /\ \A d : d # c => QueuedIn(tasks', d) = QueuedFor(d)
      /\ QueuedIn(tasks', c) \in SUBSET QueuedFor(c)
      /\ "connectDestoryed" \in QueuedFor(c) /\ "connectEstablished" \notin QueuedFor(c)
      /\ \A f \in QueuedFor(c) : f # "connectDestoryed" => f \in QueuedIn(tasks', c)
      /\ Fine(c, k, connections_, QueuedFor(c), KnownTo(c)) /\ k \in Connections
  BY <1>1, Starts DEF Functors
<1>3. /\ r \in Connections /\ SameBytes(k, r) /\ SameEnds(k, r)
  BY <1>2, DestoryedDoes
<1>4. Fine(c, r, connections_', QueuedIn(tasks', c), KnownTo(c))
  BY <1>2, FineDestoryed
<1> HIDE DEF r
<1>5. StepOf(c, r)
  BY <1>1, <1>2, <1>3, <1>4, SameUsers DEF StepOf, SameEnds
<1> QED BY <1>1, <1>3, <1>5, QuietStepKeeps DEF SameBytes, SameEnds, Cat

LEMMA RemoveKeeps ==
  ASSUME IInv, NEW c \in Accepted, RunRemoveConnection(c)
  PROVE  IInv'
<1> USE DEF IInv
<1> DEFINE k == conn[c]
           p == Pop(tasks, mainLoop)
<1>1. /\ StartTask(mainLoop, "removeConnectionInLoop", c, None)
      /\ connections_' = connections_ \ {c}
      /\ tasks' = Push(p, LoopOf(c), Task("connectDestoryed", c, None))
      /\ UNCHANGED <<conn, next_, server, handles, op, sent, accepted, promised>>
  BY DEF RunRemoveConnection, RemoveConnectionInLoop
<1>2. mainLoop \in Loops /\ LoopOf(c) \in Loops
  BY LoopsAre
<1>3. /\ p \in Queues(Accepted) /\ Ordered(p, Home)
      /\ \A d : d # c => QueuedIn(p, d) = QueuedFor(d)
      /\ QueuedIn(p, c) \in SUBSET QueuedFor(c)
      /\ "removeConnectionInLoop" \in QueuedFor(c)
      /\ \A f \in QueuedFor(c) : f # "removeConnectionInLoop" => f \in QueuedIn(p, c)
      /\ Fine(c, k, connections_, QueuedFor(c), KnownTo(c)) /\ k \in Connections
  BY <1>1, <1>2, Starts DEF Functors
<1> HIDE DEF p
<1>4. /\ tasks' \in Queues(Accepted) /\ Ordered(tasks', Home)
      /\ \A d : d # c => QueuedIn(tasks', d) = QueuedIn(p, d)
      /\ QueuedIn(tasks', c) = QueuedIn(p, c) \cup {"connectDestoryed"}
  BY <1>1, <1>2, <1>3, Enters DEF Functors
<1>5. Fine(c, k, connections_', QueuedIn(tasks', c), KnownTo(c))
  <2>1. /\ QueuedIn(tasks', c) \in SUBSET (QueuedFor(c) \cup {"connectDestoryed"})
        /\ "connectDestoryed" \in QueuedIn(tasks', c)
        /\ \A f \in Telling \ {"removeConnectionInLoop"} :
             f \in QueuedFor(c) => f \in QueuedIn(tasks', c)
    BY <1>3, <1>4
  <2> QED BY <1>3, <2>1, FineRemoved
<1>6. StepOf(c, k)
  BY <1>1, <1>3, <1>4, <1>5, SameUsers, Untouched DEF StepOf
<1>7. UNCHANGED <<sent, accepted, promised>>
  BY <1>1
<1> QED BY <1>6, <1>7, QuietStepKeeps

LEMMA ForceCloseKeeps ==
  ASSUME IInv, NEW l \in Loops, NEW c \in Accepted, RunForceClose(l, c)
  PROVE  IInv'
<1> USE DEF IInv
<1> DEFINE k == conn[c]
           p == Pop(tasks, l)
<1>1. /\ StartTask(l, "forceCloseInLoop", c, None)
      /\ UNCHANGED <<next_, server, handles, op, sent, accepted, promised>>
  BY DEF RunForceClose
<1>2. /\ p \in Queues(Accepted) /\ Ordered(p, Home)
      /\ \A d : d # c => QueuedIn(p, d) = QueuedFor(d)
      /\ QueuedIn(p, c) \in SUBSET QueuedFor(c)
      /\ "forceCloseInLoop" \in QueuedFor(c)
      /\ \A f \in QueuedFor(c) : f # "forceCloseInLoop" => f \in QueuedIn(p, c)
      /\ Fine(c, k, connections_, QueuedFor(c), KnownTo(c)) /\ k \in Connections
  BY <1>1, Starts DEF Functors
<1>3. CASE CanForceClose(k)
  <2> DEFINE r == HandleClose(k)
  <2>1. Close(c, p)
    BY <1>3 DEF RunForceClose
  <2> HIDE DEF p
  <2>2. /\ conn' = [conn EXCEPT ![c] = r]
        /\ connections_' \subseteq connections_
        /\ \A d : d # c /\ d \in connections_ => d \in connections_'
        /\ tasks' \in Queues(Accepted) /\ Ordered(tasks', Home)
        /\ \A d : d # c => QueuedIn(tasks', d) = QueuedIn(p, d)
        /\ \E fn \in {"removeConnectionInLoop", "connectDestoryed"} :
             QueuedIn(tasks', c) = QueuedIn(p, c) \cup {fn}
    BY <1>2, <2>1, CloseDoes
  <2>3. /\ QueuedIn(tasks', c) \in
             SUBSET (QueuedFor(c) \cup {"removeConnectionInLoop", "connectDestoryed"})
        /\ Ends(QueuedIn(tasks', c))
    BY <1>2, <2>2 DEF Ends
  <2>4. Fine(c, r, connections_', QueuedIn(tasks', c), KnownTo(c))
    BY <1>2, <1>3, <2>3, FineClosed
  <2>5. r \in Connections /\ SameBytes(k, r) /\ SameEnds(k, r)
    BY <1>2, HandleCloseDoes
  <2> HIDE DEF r
  <2>6. StepOf(c, r)
    BY <1>1, <1>2, <2>2, <2>4, <2>5, SameUsers DEF StepOf, SameEnds
  <2> QED BY <1>1, <2>5, <2>6, QuietStepKeeps DEF SameBytes, SameEnds, Cat
<1>4. CASE ~CanForceClose(k)
  <2>1. tasks' = p /\ UNCHANGED <<conn, connections_>>
    BY <1>4 DEF RunForceClose
  <2> HIDE DEF p
  <2>2. Fine(c, k, connections_', QueuedIn(tasks', c), KnownTo(c))
    BY <1>2, <1>4, <2>1, FineForced
  <2>3. StepOf(c, k)
    BY <1>1, <1>2, <2>1, <2>2, SameUsers, Untouched DEF StepOf
  <2> QED BY <1>1, <2>3, QuietStepKeeps
<1> QED BY <1>3, <1>4

\* Where other threads do more than send, nothing is said of a connection's life.
LEMMA FineOtherwise ==
  ASSUME ~OnlySends, NEW c, NEW k, NEW conns, NEW fns, NEW users
  PROVE  Fine(c, k, conns, fns, users)
BY DEF Fine, NoLateForce

LEMMA FineSentAndQueued ==
  ASSUME NEW c, NEW k \in Connections, NEW conns, NEW fns, NEW users,
         Fine(c, k, conns, fns, users), OnlySends => k.state_ # "kConnecting",
         NEW fns2 \in SUBSET Functors, SameTelling(fns, fns2),
         NEW m \in Messages, NEW n \in Written(k, Chunks(m))
  PROVE  Fine(c, SendInLoop(k, Chunks(m), n), conns, fns2, users)
<1>1. CASE ~OnlySends
  BY <1>1, FineOtherwise
<1>2. CASE OnlySends
  <2>1. k.state_ # "kConnecting"
    BY <1>2
  <2>2. Fine(c, k, conns, fns2, users)
    BY <2>1, FineStays
  <2> QED BY <2>1, <2>2, FineSent
<1> QED BY <1>1, <1>2

LEMMA CallbackKeeps ==
  ASSUME IInv, NEW l \in Loops, NEW c \in Accepted, RunCallback(l, c)
  PROVE  IInv'
<1> USE DEF IInv
<1> DEFINE k == conn[c]
<1>1. /\ StartTask(l, "callback", c, None) /\ tasks' = Pop(tasks, l)
      /\ UNCHANGED <<conn, connections_, next_, handles, op, sent, accepted, promised>>
  BY DEF RunCallback
<1>2. /\ tasks' \in Queues(Accepted) /\ Ordered(tasks', Home)
      /\ \A d : d # c => QueuedIn(tasks', d) = QueuedFor(d)
      /\ QueuedIn(tasks', c) \in SUBSET QueuedFor(c) /\ QueuedIn(tasks', c) \in SUBSET Functors
      /\ \A f \in QueuedFor(c) : f # "callback" => f \in QueuedIn(tasks', c)
      /\ Fine(c, k, connections_, QueuedFor(c), KnownTo(c)) /\ k \in Connections
  BY <1>1, Starts DEF Functors
<1>3. Fine(c, k, connections_', QueuedIn(tasks', c), KnownTo(c))
  <2>1. SameTelling(QueuedFor(c), QueuedIn(tasks', c))
    BY <1>2 DEF SameTelling, Telling
  <2> QED BY <1>1, <1>2, <2>1, FineStays
<1>4. StepOf(c, k)
  BY <1>1, <1>2, <1>3, SameUsers, Untouched DEF StepOf
<1>5. UNCHANGED <<sent, accepted, promised>>
  BY <1>1
<1> QED BY <1>4, <1>5, QuietStepKeeps

\* The elements of two sequences are those of the one they make.
LEMMA RangeOfCat ==
  ASSUME NEW S, NEW s \in Seq(S), NEW t \in Seq(S)
  PROVE  Range(s) \subseteq Range(Cat(s, t)) /\ Range(t) \subseteq Range(Cat(s, t))
<1>1. /\ Cat(s, t) \in Seq(S) /\ Len(Cat(s, t)) = Len(s) + Len(t)
      /\ \A i \in 1 .. Len(s) + Len(t) : Cat(s, t)[i] = IF i <= Len(s) THEN s[i] ELSE t[i - Len(s)]
  BY ConcatAt DEF Cat
<1>2. /\ Len(s) \in Nat /\ Len(t) \in Nat /\ DOMAIN s = 1 .. Len(s) /\ DOMAIN t = 1 .. Len(t)
      /\ DOMAIN Cat(s, t) = 1 .. Len(s) + Len(t)
  BY <1>1, LenProperties
<1>3. \A i \in DOMAIN s : i \in DOMAIN Cat(s, t) /\ Cat(s, t)[i] = s[i]
  BY <1>1, <1>2
<1>4. \A i \in DOMAIN t : i + Len(s) \in DOMAIN Cat(s, t) /\ Cat(s, t)[i + Len(s)] = t[i]
  BY <1>1, <1>2
<1> QED BY <1>3, <1>4 DEF Range

\* Send: the connection after sendInLoop, what may be queued, and what was accepted.
LEMMA SendIs ==
  ASSUME TypeInv, BytesInOrder, NEW c \in Accepted, NEW m \in Messages,
         NEW p \in Queues(Accepted), Ordered(p, Home), Send(c, m, p)
  PROVE  \E n \in Written(conn[c], Chunks(m)) :
           LET r == SendInLoop(conn[c], Chunks(m), n)
           IN  /\ conn' = [conn EXCEPT ![c] = r]
               /\ r \in Connections /\ SameEnds(conn[c], r)
               /\ tasks' \in Queues(Accepted) /\ Ordered(tasks', Home)
               /\ \A d : d # c => QueuedIn(tasks', d) = QueuedIn(p, d)
               /\ QueuedIn(tasks', c) \in SUBSET Functors
               /\ SameTelling(QueuedIn(p, c), QueuedIn(tasks', c))
               /\ accepted' \in [Conns -> Seq(Chunk)]
               /\ \A d \in Conns : d # c => accepted'[d] = accepted[d]
               /\ Cat(r.wire, r.outputBuffer_) = accepted'[c]
               /\ Range(accepted[c]) \subseteq Range(accepted'[c])
               /\ ~GivesUp(conn[c]) => Range(Chunks(m)) \subseteq Range(accepted'[c])
<1> DEFINE k == conn[c]
<1>1. k \in Connections /\ LoopOf(c) \in Loops /\ c \in Conns
  BY LoopsAre
<1>2. PICK n \in Written(k, Chunks(m)) :
        /\ conn' = [conn EXCEPT ![c] = SendInLoop(@, Chunks(m), n)]
        /\ tasks' = IF SendQueuesCallback(k, Chunks(m), n)
                    THEN Push(p, LoopOf(c), Task("callback", c, None)) ELSE p
        /\ accepted' = IF GivesUp(k) THEN accepted
                       ELSE [accepted EXCEPT ![c] = @ \o Chunks(m)]
  BY DEF Send
<1> DEFINE r == SendInLoop(k, Chunks(m), n)
<1>3. conn' = [conn EXCEPT ![c] = r]
  BY <1>2
<1>4. /\ r \in Connections /\ SameEnds(k, r)
      /\ GivesUp(k) => r = k
      /\ ~GivesUp(k) =>
           Cat(r.wire, r.outputBuffer_) = Cat(Cat(k.wire, k.outputBuffer_), Chunks(m))
  BY <1>1, SendDoes
<1>5. /\ tasks' \in Queues(Accepted) /\ Ordered(tasks', Home)
      /\ \A d : d # c => QueuedIn(tasks', d) = QueuedIn(p, d)
      /\ \/ QueuedIn(tasks', c) = QueuedIn(p, c)
         \/ QueuedIn(tasks', c) = QueuedIn(p, c) \cup {"callback"}
  <2>1. CASE tasks' = p
    BY <2>1
  <2>2. CASE tasks' = Push(p, LoopOf(c), Task("callback", c, None))
    BY <1>1, <2>2, Enters DEF Functors
  <2> QED BY <1>2, <2>1, <2>2
<1>6. /\ QueuedIn(tasks', c) \in SUBSET Functors
      /\ SameTelling(QueuedIn(p, c), QueuedIn(tasks', c))
  BY <1>5 DEF QueuedIn, SameTelling, Telling
<1>7. accepted \in [Conns -> Seq(Chunk)] /\ Chunks(m) \in Seq(Chunk)
  BY ChunksAre DEF TypeInv
<1>8. Cat(k.wire, k.outputBuffer_) = accepted[c]
  BY DEF BytesInOrder, Cat
<1>9. /\ accepted' \in [Conns -> Seq(Chunk)]
      /\ \A d \in Conns : d # c => accepted'[d] = accepted[d]
      /\ Cat(r.wire, r.outputBuffer_) = accepted'[c]
      /\ Range(accepted[c]) \subseteq Range(accepted'[c])
      /\ ~GivesUp(k) => Range(Chunks(m)) \subseteq Range(accepted'[c])
  <2>1. CASE GivesUp(k)
    <3>1. accepted' = accepted /\ r = k
      BY <1>2, <1>4, <2>1
    <3> QED BY <1>7, <1>8, <2>1, <3>1
  <2>2. CASE ~GivesUp(k)
    <3> DEFINE a == Cat(accepted[c], Chunks(m))
    <3>1. accepted' = [accepted EXCEPT ![c] = a]
      BY <1>2, <2>2 DEF Cat
    <3>2. /\ a \in Seq(Chunk)
          /\ Range(accepted[c]) \subseteq Range(a) /\ Range(Chunks(m)) \subseteq Range(a)
      BY <1>1, <1>7, BytesJoin, RangeOfCat
    <3>3. Cat(r.wire, r.outputBuffer_) = a
      BY <1>4, <1>8, <2>2
    <3> HIDE DEF a, r
    <3>4. accepted'[c] = a
      BY <1>1, <1>7, <3>1
    <3> QED BY <1>1, <1>7, <3>1, <3>2, <3>3, <3>4
  <2> QED BY <2>1, <2>2
<1> QED BY <1>3, <1>4, <1>5, <1>6, <1>9

LEMMA SendKeeps ==
  ASSUME IInv, NEW l \in Loops, NEW c \in Accepted, NEW m \in Messages, RunSend(l, c, m)
  PROVE  IInv'
<1> USE DEF IInv
<1> DEFINE k == conn[c]
           p == Pop(tasks, l)
<1>1. /\ StartTask(l, "sendInLoop", c, m)
      /\ UNCHANGED <<connections_, next_, handles, op, sent, promised>>
  BY DEF RunSend
<1>2. /\ p \in Queues(Accepted) /\ Ordered(p, Home)
      /\ \A d : d # c => QueuedIn(p, d) = QueuedFor(d)
      /\ QueuedIn(p, c) \in SUBSET QueuedFor(c) /\ QueuedIn(p, c) \in SUBSET Functors
      /\ "sendInLoop" \in QueuedFor(c)
      /\ \A f \in QueuedFor(c) : f # "sendInLoop" => f \in QueuedIn(p, c)
      /\ Fine(c, k, connections_, QueuedFor(c), KnownTo(c)) /\ k \in Connections
  BY <1>1, Starts DEF Functors
<1>3. SameTelling(QueuedFor(c), QueuedIn(p, c))
  BY <1>2 DEF SameTelling, Telling
<1>4. CASE Alive(c)
  <2>1. Send(c, m, p)
    BY <1>4 DEF RunSend
  <2> HIDE DEF p
  <2>2. PICK n \in Written(k, Chunks(m)) :
           LET r == SendInLoop(k, Chunks(m), n)
           IN  /\ conn' = [conn EXCEPT ![c] = r]
               /\ r \in Connections /\ SameEnds(k, r)
               /\ tasks' \in Queues(Accepted) /\ Ordered(tasks', Home)
               /\ \A d : d # c => QueuedIn(tasks', d) = QueuedIn(p, d)
               /\ QueuedIn(tasks', c) \in SUBSET Functors
               /\ SameTelling(QueuedIn(p, c), QueuedIn(tasks', c))
               /\ accepted' \in [Conns -> Seq(Chunk)]
               /\ \A d \in Conns : d # c => accepted'[d] = accepted[d]
               /\ Cat(r.wire, r.outputBuffer_) = accepted'[c]
               /\ Range(accepted[c]) \subseteq Range(accepted'[c])
    BY <1>2, <2>1, SendIs
  <2> DEFINE r == SendInLoop(k, Chunks(m), n)
  <2>3. SameTelling(QueuedFor(c), QueuedIn(tasks', c))
    BY <1>3, <2>2 DEF SameTelling
  <2>4. OnlySends => k.state_ # "kConnecting"
    BY <1>2 DEF Fine, Life
  <2>5. Fine(c, r, connections_, QueuedIn(tasks', c), KnownTo(c))
    BY <1>2, <2>2, <2>3, <2>4, FineSentAndQueued
  <2> HIDE DEF r
  <2>6. StepOf(c, r)
    BY <1>1, <1>2, <2>2, <2>5, SameUsers DEF StepOf, SameEnds, r
  <2>7. /\ DOMAIN sent' = Messages
        /\ \A x \in Messages : sent'[x] = None \/ sent'[x] \in (Users \cup Loops) \X Accepted
        /\ promised' \subseteq Messages
    BY <1>1 DEF TypeInv
  <2>8. /\ accepted' \in [Conns -> Seq(Chunk)]
        /\ \A d \in Conns : d # c => accepted'[d] = accepted[d]
        /\ Cat(r.wire, r.outputBuffer_) = accepted'[c]
        /\ Range(accepted[c]) \subseteq Range(accepted'[c]) /\ SameEnds(k, r)
    BY <2>2 DEF r
  <2>9. /\ TypeInv' /\ Ordered(tasks, Home)' /\ BytesInOrder' /\ FineInv'
        /\ Accepted' = Accepted /\ conn'[c] = r
        /\ \A d \in Accepted : d # c => conn'[d] = conn[d]
        /\ \A d \in Accepted : LoopOf(d)' = LoopOf(d)
    BY <2>6, <2>7, <2>8, StepKeeps
  <2>10. SentInv'
    <3>1. \A d \in Accepted : /\ conn'[d].peer = conn[d].peer
                              /\ Range(accepted[d]) \subseteq Range(accepted'[d])
      BY <2>8, <2>9 DEF SameEnds, Accepted
    <3> QED BY <1>1, <2>9, <3>1 DEF SentInv
  <2> QED BY <2>9, <2>10
<1>5. CASE ~Alive(c)
  <2>1. tasks' = p /\ UNCHANGED <<conn, accepted>>
    BY <1>5 DEF RunSend
  <2> HIDE DEF p
  <2>2. Fine(c, k, connections_', QueuedIn(tasks', c), KnownTo(c))
    BY <1>1, <1>2, <1>3, <2>1, FineStays
  <2>3. StepOf(c, k)
    BY <1>1, <1>2, <2>1, <2>2, SameUsers, Untouched DEF StepOf
  <2>4. UNCHANGED <<sent, accepted, promised>>
    BY <1>1, <2>1
  <2> QED BY <2>3, <2>4, QuietStepKeeps
<1> QED BY <1>4, <1>5

LEMMA RunShutdownKeeps ==
  ASSUME IInv, NEW l \in Loops, NEW c \in Accepted, RunShutdown(l, c)
  PROVE  IInv'
<1> USE DEF IInv
<1> DEFINE k == conn[c]
           r == IF Alive(c) THEN ShutdownInLoop(k) ELSE k
<1>1. /\ StartTask(l, "shutdownInLoop", c, None) /\ tasks' = Pop(tasks, l)
      /\ UNCHANGED <<connections_, next_, handles, op, sent, accepted, promised>>
  BY DEF RunShutdown
<1>2. /\ tasks' \in Queues(Accepted) /\ Ordered(tasks', Home)
      /\ \A d : d # c => QueuedIn(tasks', d) = QueuedFor(d)
      /\ "shutdownInLoop" \in QueuedFor(c)
      /\ Fine(c, k, connections_, QueuedFor(c), KnownTo(c)) /\ k \in Connections
  BY <1>1, Starts DEF Functors
<1>3. conn' = [conn EXCEPT ![c] = r]
  <2>1. CASE Alive(c)
    BY <2>1 DEF RunShutdown
  <2>2. CASE ~Alive(c)
    BY <2>2, Untouched DEF RunShutdown
  <2> QED BY <2>1, <2>2
<1>4. r \in Connections /\ SameBytes(k, r) /\ SameEnds(k, r)
  BY <1>2, ShutdownDoes DEF SameBytes, SameEnds
<1>5. ~OnlySends
  BY <1>2 DEF Fine, Life
<1> HIDE DEF r
<1>6. Fine(c, r, connections_', QueuedIn(tasks', c), KnownTo(c))
  BY <1>5, FineOtherwise
<1>7. StepOf(c, r)
  BY <1>1, <1>2, <1>3, <1>4, <1>6, SameUsers DEF StepOf, SameEnds
<1> QED BY <1>1, <1>4, <1>7, QuietStepKeeps DEF SameBytes, SameEnds, Cat

-----------------------------------------------------------------------------
(* ... events ... *)

LEMMA Stands ==
  ASSUME IInv, NEW c \in Accepted
  PROVE  /\ tasks \in Queues(Accepted) /\ Ordered(tasks, Home)
         /\ \A d : QueuedIn(tasks, d) = QueuedFor(d)
         /\ QueuedFor(c) \in SUBSET Functors
         /\ Fine(c, conn[c], connections_, QueuedFor(c), KnownTo(c))
         /\ conn[c] \in Connections /\ LoopOf(c) \in Loops
BY LoopsAre DEF IInv, TypeInv, FineInv, QueuedFor, QueuedIn

LEMMA CloseEventKeeps ==
  ASSUME IInv, NEW c \in Accepted, CloseEvent(c)
  PROVE  IInv'
<1> USE DEF IInv
<1> DEFINE k == conn[c]
           r == HandleClose(k)
<1>1. /\ ClosesOnEvent(k) /\ Close(c, tasks)
      /\ UNCHANGED <<next_, handles, op, sent, accepted, promised>>
  BY DEF CloseEvent
<1>2. /\ tasks \in Queues(Accepted) /\ Ordered(tasks, Home)
      /\ \A d : QueuedIn(tasks, d) = QueuedFor(d)
      /\ Fine(c, k, connections_, QueuedFor(c), KnownTo(c)) /\ k \in Connections
  BY Stands
<1>3. /\ conn' = [conn EXCEPT ![c] = r]
      /\ connections_' \subseteq connections_
      /\ \A d : d # c /\ d \in connections_ => d \in connections_'
      /\ tasks' \in Queues(Accepted) /\ Ordered(tasks', Home)
      /\ \A d : d # c => QueuedIn(tasks', d) = QueuedIn(tasks, d)
      /\ \E fn \in {"removeConnectionInLoop", "connectDestoryed"} :
           QueuedIn(tasks', c) = QueuedIn(tasks, c) \cup {fn}
  BY <1>1, <1>2, CloseDoes
<1>4. /\ QueuedIn(tasks', c) \in
           SUBSET (QueuedFor(c) \cup {"removeConnectionInLoop", "connectDestoryed"})
      /\ Ends(QueuedIn(tasks', c))
  BY <1>2, <1>3 DEF Ends
<1>5. Fine(c, r, connections_', QueuedIn(tasks', c), KnownTo(c))
  <2>1. k.status_ = "kAdded"
    BY <1>1 DEF ClosesOnEvent
  <2>2. CASE ~OnlySends
    BY <2>2, FineOtherwise
  <2>3. CASE OnlySends
    <3>1. k.state_ # "kConnecting"
      BY <1>2, <2>1, <2>3 DEF Fine, Life
    <3> QED BY <1>2, <1>4, <2>1, <3>1, FineClosed
  <2> QED BY <2>2, <2>3
<1>6. r \in Connections /\ SameBytes(k, r) /\ SameEnds(k, r)
  BY <1>2, HandleCloseDoes
<1> HIDE DEF r
<1>7. StepOf(c, r)
  BY <1>1, <1>2, <1>3, <1>5, <1>6, SameUsers DEF StepOf, SameEnds
<1> QED BY <1>1, <1>6, <1>7, QuietStepKeeps DEF SameBytes, SameEnds, Cat

LEMMA WriteEventKeeps ==
  ASSUME IInv, NEW c \in Accepted, WriteEvent(c)
  PROVE  IInv'
<1> USE DEF IInv
<1> DEFINE k == conn[c]
<1>1. PICK n \in 1 .. Len(k.outputBuffer_) :
        /\ conn' = [conn EXCEPT ![c] = HandleWrite(@, n)]
        /\ tasks' = IF n = Len(k.outputBuffer_)
                    THEN Push(tasks, LoopOf(c), Task("callback", c, None)) ELSE tasks
  BY DEF WriteEvent
<1>2. CanWrite(k) /\ UNCHANGED <<connections_, next_, handles, op, sent, accepted, promised>>
  BY DEF WriteEvent
<1> DEFINE r == HandleWrite(k, n)
<1>3. /\ tasks \in Queues(Accepted) /\ Ordered(tasks, Home)
      /\ \A d : QueuedIn(tasks, d) = QueuedFor(d)
      /\ Fine(c, k, connections_, QueuedFor(c), KnownTo(c)) /\ k \in Connections
      /\ LoopOf(c) \in Loops
  BY Stands
<1>4. /\ tasks' \in Queues(Accepted) /\ Ordered(tasks', Home)
      /\ \A d : d # c => QueuedIn(tasks', d) = QueuedIn(tasks, d)
      /\ \/ QueuedIn(tasks', c) = QueuedIn(tasks, c)
         \/ QueuedIn(tasks', c) = QueuedIn(tasks, c) \cup {"callback"}
  <2>1. CASE tasks' = tasks
    BY <1>3, <2>1
  <2>2. CASE tasks' = Push(tasks, LoopOf(c), Task("callback", c, None))
    BY <1>3, <2>2, Enters DEF Functors
  <2> QED BY <1>1, <2>1, <2>2
<1>5. /\ QueuedIn(tasks', c) \in SUBSET Functors
      /\ SameTelling(QueuedFor(c), QueuedIn(tasks', c))
  BY <1>3, <1>4 DEF QueuedIn, SameTelling, Telling
<1>6. /\ r \in Connections /\ r.state_ = k.state_ /\ SameEnds(k, r)
      /\ Cat(r.wire, r.outputBuffer_) = Cat(k.wire, k.outputBuffer_)
  BY <1>3, HandleWriteDoes
<1>7. Fine(c, r, connections_', QueuedIn(tasks', c), KnownTo(c))
  <2>1. CASE ~OnlySends
    BY <2>1, FineOtherwise
  <2>2. CASE OnlySends
    <3>1. Fine(c, r, connections_, QueuedFor(c), KnownTo(c))
      BY <1>2, <1>3, FineWritten
    <3>2. r.state_ # "kConnecting"
      BY <1>2, <1>3, <1>6, <2>2 DEF Fine, Life, CanWrite
    <3> HIDE DEF r
    <3> QED BY <1>2, <1>5, <1>6, <3>1, <3>2, FineStays
  <2> QED BY <2>1, <2>2
<1>8. conn' = [conn EXCEPT ![c] = r]
  BY <1>1
<1> HIDE DEF r
<1>9. StepOf(c, r)
  BY <1>2, <1>3, <1>4, <1>6, <1>7, <1>8, SameUsers DEF StepOf, SameEnds
<1> QED BY <1>2, <1>6, <1>9, QuietStepKeeps DEF SameEnds

LEMMA PeerGoesKeeps ==
  ASSUME IInv, NEW c \in Accepted, PeerGoes(c)
  PROVE  IInv'
<1> USE DEF IInv
<1> DEFINE k == conn[c]
<1>1. /\ k.peer = "open"
      /\ UNCHANGED <<connections_, next_, tasks, handles, op, sent, accepted, promised>>
  BY DEF PeerGoes
<1>2. PICK how \in {"closed", "reset"} : conn' = [conn EXCEPT ![c].peer = how]
  BY DEF PeerGoes
<1> DEFINE r == [k EXCEPT !.peer = how]
<1>3. conn' = [conn EXCEPT ![c] = r]
  BY <1>2
<1>4. /\ tasks \in Queues(Accepted) /\ Ordered(tasks, Home)
      /\ \A d : QueuedIn(tasks, d) = QueuedFor(d)
      /\ Fine(c, k, connections_, QueuedFor(c), KnownTo(c)) /\ k \in Connections
  BY Stands
<1>5. r \in Connections /\ r.loop_ = k.loop_ /\ SameBytes(k, r)
  BY <1>4, PeerSet
<1>6. Fine(c, r, connections_, QueuedFor(c), KnownTo(c))
  BY <1>1, <1>4, FinePeer
<1> HIDE DEF r
<1>7. StepOf(c, r)
  BY <1>1, <1>3, <1>4, <1>5, <1>6, SameUsers DEF StepOf
<1> QED BY <1>1, <1>5, <1>7, QuietStepKeeps DEF SameBytes, Cat

-----------------------------------------------------------------------------
(* ... and the operations its callbacks call *)

LEMMA SendHereKeeps ==
  ASSUME IInv, NEW c \in Accepted, NEW m \in Messages, SendHere(c, m)
  PROVE  IInv'
<1> USE DEF IInv
<1> DEFINE k == conn[c]
<1>1. /\ sent[m] = None /\ k.state_ = "kConnected"
      /\ sent' = [sent EXCEPT ![m] = <<LoopOf(c), c>>] /\ Send(c, m, tasks)
      /\ UNCHANGED <<connections_, next_, handles, op, promised>>
  BY DEF SendHere
<1>2. /\ tasks \in Queues(Accepted) /\ Ordered(tasks, Home)
      /\ \A d : QueuedIn(tasks, d) = QueuedFor(d)
      /\ Fine(c, k, connections_, QueuedFor(c), KnownTo(c)) /\ k \in Connections
      /\ LoopOf(c) \in Loops
  BY Stands
<1>3. PICK n \in Written(k, Chunks(m)) :
         LET r == SendInLoop(k, Chunks(m), n)
         IN  /\ conn' = [conn EXCEPT ![c] = r]
             /\ r \in Connections /\ SameEnds(k, r)
             /\ tasks' \in Queues(Accepted) /\ Ordered(tasks', Home)
             /\ \A d : d # c => QueuedIn(tasks', d) = QueuedIn(tasks, d)
             /\ QueuedIn(tasks', c) \in SUBSET Functors
             /\ SameTelling(QueuedIn(tasks, c), QueuedIn(tasks', c))
             /\ accepted' \in [Conns -> Seq(Chunk)]
             /\ \A d \in Conns : d # c => accepted'[d] = accepted[d]
             /\ Cat(r.wire, r.outputBuffer_) = accepted'[c]
             /\ Range(accepted[c]) \subseteq Range(accepted'[c])
             /\ ~GivesUp(k) => Range(Chunks(m)) \subseteq Range(accepted'[c])
  BY <1>1, <1>2, SendIs
<1> DEFINE r == SendInLoop(k, Chunks(m), n)
<1>4. Fine(c, r, connections_, QueuedIn(tasks', c), KnownTo(c))
  BY <1>1, <1>2, <1>3, FineSentAndQueued
<1> HIDE DEF r
<1>5. StepOf(c, r)
  BY <1>1, <1>2, <1>3, <1>4, SameUsers DEF StepOf, SameEnds, r
<1>6. /\ DOMAIN sent' = Messages
      /\ \A x \in Messages : sent'[x] = None \/ sent'[x] \in (Users \cup Loops) \X Accepted
      /\ promised' \subseteq Messages
  BY <1>1, <1>2 DEF TypeInv
<1>7. /\ accepted' \in [Conns -> Seq(Chunk)] /\ \A d \in Conns : d # c => accepted'[d] = accepted[d]
      /\ Cat(r.wire, r.outputBuffer_) = accepted'[c]
      /\ Range(accepted[c]) \subseteq Range(accepted'[c]) /\ SameEnds(k, r)
      /\ ~GivesUp(k) => Range(Chunks(m)) \subseteq Range(accepted'[c])
  BY <1>3 DEF r
<1>8. /\ TypeInv' /\ Ordered(tasks, Home)' /\ BytesInOrder' /\ FineInv'
      /\ Accepted' = Accepted /\ conn'[c] = r
      /\ \A d \in Accepted : d # c => conn'[d] = conn[d]
      /\ \A d \in Accepted : LoopOf(d)' = LoopOf(d)
  BY <1>5, <1>6, <1>7, StepKeeps
<1>9. SentInv'
  <2> SUFFICES ASSUME OnlySends
               PROVE  SentInv'
    BY DEF SentInv
  <2>1. \A d \in Accepted : /\ conn'[d].peer = conn[d].peer
                            /\ Range(accepted[d]) \subseteq Range(accepted'[d])
    BY <1>7, <1>8 DEF SameEnds, Accepted
  <2>2. GivesUp(k) => k.peer = "reset"
    BY <1>1, <1>2 DEF GivesUp, WriteFails, Fine, Life
  <2>3. \A x \in Messages : x # m => sent'[x] = sent[x]
    BY <1>1 DEF TypeInv
  <2>4. sent'[m] = <<LoopOf(c), c>>
    BY <1>1 DEF TypeInv
  <2>5. \A x \in promised' : \E d \in Accepted : sent'[x] = <<LoopOf(d), d>>
    BY <1>1, <2>3, <2>4 DEF SentInv, TypeInv
  <2>6. \A x \in Messages : \A d \in Accepted : sent'[x] = <<LoopOf(d), d>> =>
          conn'[d].peer = "reset" \/ Range(Chunks(x)) \subseteq Range(accepted'[d])
    <3> SUFFICES ASSUME NEW x \in Messages, NEW d \in Accepted, sent'[x] = <<LoopOf(d), d>>
                 PROVE  conn'[d].peer = "reset" \/ Range(Chunks(x)) \subseteq Range(accepted'[d])
      OBVIOUS
    <3>1. CASE x = m
      <4>1. d = c
        BY <2>4, <3>1
      <4> QED BY <1>7, <2>1, <2>2, <3>1, <4>1
    <3>2. CASE x # m
      <4>1. conn[d].peer = "reset" \/ Range(Chunks(x)) \subseteq Range(accepted[d])
        BY <2>3, <3>2 DEF SentInv
      <4> QED BY <2>1, <4>1
    <3> QED BY <3>1, <3>2
  <2> QED BY <1>8, <2>5, <2>6 DEF SentInv
<1> QED BY <1>8, <1>9

LEMMA ShutdownHereKeeps ==
  ASSUME IInv, NEW c \in Accepted, ShutdownHere(c)
  PROVE  IInv'
<1> USE DEF IInv
<1> DEFINE k == conn[c]
           r == ShutdownInLoop([k EXCEPT !.state_ = "kDisconnecting"])
<1>1. /\ k.state_ = "kConnected"
      /\ conn' = [conn EXCEPT ![c] = r]
      /\ promised' = promised \cup Promised(LoopOf(c), c)
      /\ UNCHANGED <<connections_, next_, tasks, handles, op, sent, accepted>>
  BY DEF ShutdownHere
<1>2. /\ tasks \in Queues(Accepted) /\ Ordered(tasks, Home)
      /\ \A d : QueuedIn(tasks, d) = QueuedFor(d)
      /\ Fine(c, k, connections_, QueuedFor(c), KnownTo(c)) /\ k \in Connections
  BY Stands
<1>3. r \in Connections /\ SameBytes(k, r) /\ SameEnds(k, r)
  <2> DEFINE q == [k EXCEPT !.state_ = "kDisconnecting"]
  <2>1. q \in Connections /\ SameBytes(k, q) /\ SameEnds(k, q)
    BY <1>2, StateSet DEF StateE
  <2> HIDE DEF q
  <2>2. /\ ShutdownInLoop(q) \in Connections
        /\ SameBytes(q, ShutdownInLoop(q)) /\ SameEnds(q, ShutdownInLoop(q))
    BY <2>1, ShutdownDoes
  <2> QED BY <2>1, <2>2 DEF SameBytes, SameEnds, q
<1>4. Fine(c, r, connections_, QueuedFor(c), KnownTo(c))
  BY <1>1, <1>2, FineShutdown
<1> HIDE DEF r
<1>5. StepOf(c, r)
  BY <1>1, <1>2, <1>3, <1>4, SameUsers DEF StepOf, SameEnds
<1>6. /\ DOMAIN sent' = Messages
      /\ \A x \in Messages : sent'[x] = None \/ sent'[x] \in (Users \cup Loops) \X Accepted
      /\ promised' \subseteq Messages
      /\ accepted' \in [Conns -> Seq(Chunk)] /\ \A d \in Conns : d # c => accepted'[d] = accepted[d]
  BY <1>1 DEF TypeInv, Promised
<1>7. Cat(r.wire, r.outputBuffer_) = accepted'[c]
  BY <1>1, <1>3 DEF SameBytes, BytesInOrder, Cat
<1>8. /\ TypeInv' /\ Ordered(tasks, Home)' /\ BytesInOrder' /\ FineInv'
      /\ Accepted' = Accepted /\ conn'[c] = r
      /\ \A d \in Accepted : d # c => conn'[d] = conn[d]
      /\ \A d \in Accepted : LoopOf(d)' = LoopOf(d)
  BY <1>5, <1>6, <1>7, StepKeeps
<1>9. SentInv'
  <2>1. \A d \in Accepted : conn'[d].peer = conn[d].peer
    BY <1>3, <1>8 DEF SameEnds
  <2>2. \A x \in Promised(LoopOf(c), c) : sent[x] = <<LoopOf(c), c>>
    BY DEF Promised
  <2> QED BY <1>1, <1>8, <2>1, <2>2 DEF SentInv
<1> QED BY <1>8, <1>9

LEMMA ForceCloseHereKeeps ==
  ASSUME IInv, NEW c \in Accepted, ForceCloseHere(c)
  PROVE  IInv'
<1> USE DEF IInv
<1> DEFINE k == conn[c]
           r == [k EXCEPT !.state_ = "kDisconnecting"]
<1>1. /\ "forceClose" \in CallbackOps /\ CanForceClose(k)
      /\ conn' = [conn EXCEPT ![c].state_ = "kDisconnecting"]
      /\ tasks' = Push(tasks, LoopOf(c), Task("forceCloseInLoop", c, None))
      /\ UNCHANGED <<connections_, next_, handles, op, sent, accepted, promised>>
  BY DEF ForceCloseHere, CallbackCalls, MayForceClose
<1>2. /\ tasks \in Queues(Accepted) /\ Ordered(tasks, Home)
      /\ \A d : QueuedIn(tasks, d) = QueuedFor(d)
      /\ Fine(c, k, connections_, QueuedFor(c), KnownTo(c)) /\ k \in Connections
      /\ LoopOf(c) \in Loops
  BY Stands
<1>3. /\ tasks' \in Queues(Accepted) /\ Ordered(tasks', Home)
      /\ \A d : d # c => QueuedIn(tasks', d) = QueuedIn(tasks, d)
      /\ QueuedIn(tasks', c) = QueuedIn(tasks, c) \cup {"forceCloseInLoop"}
  BY <1>1, <1>2, Enters DEF Functors
<1>4. Fine(c, r, connections_, QueuedIn(tasks', c), KnownTo(c))
  BY <1>1, <1>2, <1>3, FineForce
<1>5. r \in Connections /\ SameBytes(k, r) /\ SameEnds(k, r)
  BY <1>2, StateSet DEF StateE
<1>6. conn' = [conn EXCEPT ![c] = r]
  BY <1>1
<1> HIDE DEF r
<1>7. StepOf(c, r)
  BY <1>1, <1>2, <1>3, <1>4, <1>5, <1>6, SameUsers DEF StepOf, SameEnds
<1> QED BY <1>1, <1>5, <1>7, QuietStepKeeps DEF SameBytes, SameEnds, Cat

-----------------------------------------------------------------------------
(* What other threads do *)

LEMMA CallKeeps ==
  ASSUME IInv, NEW u \in Users, NEW c \in Accepted, NEW call \in UserOps,
         NEW m \in Messages \cup {None}, Call(u, c, call, m)
  PROVE  IInv'
<1> USE DEF IInv
<1> DEFINE k == conn[c]
           o == [call |-> call, conn |-> c, message |-> m,
                 done |-> IF call = "send" THEN "set" ELSE "test"]
<1>1. /\ c \in handles[u] /\ op' = [op EXCEPT ![u] = o]
      /\ \/ sent' = sent
         \/ m \in Messages /\ sent[m] = None /\ sent' = [sent EXCEPT ![m] = <<u, c>>]
      /\ UNCHANGED <<conn, connections_, next_, tasks, handles, accepted, promised>>
  BY DEF Call
<1>2. /\ tasks \in Queues(Accepted) /\ Ordered(tasks, Home)
      /\ \A d : QueuedIn(tasks, d) = QueuedFor(d)
      /\ Fine(c, k, connections_, QueuedFor(c), KnownTo(c)) /\ k \in Connections
  BY Stands
<1>3. OpsInv'
  <2>1. o \in OpType /\ o.conn = c /\ (o.call = "send" => o.done = "set")
    BY LoopsAre DEF OpType
  <2> HIDE DEF o
  <2>2. DOMAIN op' = Users /\ op'[u] = o /\ \A v \in Users : v # u => op'[v] = op[v]
    BY <1>1 DEF TypeInv, OpsInv
  <2> QED BY <1>1, <2>1, <2>2 DEF TypeInv, OpsInv
<1> HIDE DEF o
<1>4. StepOf(c, k)
  <2>1. /\ handles' \in [Users -> SUBSET Accepted]
        /\ \A v \in Users : handles'[v] \subseteq handles[v] \cup {c}
        /\ {v \in Users : c \in handles'[v]} = KnownTo(c)
    BY <1>1 DEF TypeInv, KnownTo
  <2> QED BY <1>1, <1>2, <1>3, <2>1, Untouched DEF StepOf
<1>5. /\ DOMAIN sent' = Messages
      /\ \A x \in Messages : sent'[x] = sent[x] \/ (sent[x] = None /\ sent'[x] = <<u, c>>)
  BY <1>1 DEF TypeInv
<1>6. \A x \in Messages : sent'[x] = None \/ sent'[x] \in (Users \cup Loops) \X Accepted
  <2>1. <<u, c>> \in (Users \cup Loops) \X Accepted
    OBVIOUS
  <2>2. \A x \in Messages : sent[x] = None \/ sent[x] \in (Users \cup Loops) \X Accepted
    BY DEF TypeInv
  <2> QED BY <1>5, <2>1, <2>2
<1>7. promised' \subseteq Messages /\ accepted' \in [Conns -> Seq(Chunk)] /\ accepted' = accepted
  BY <1>1 DEF TypeInv
<1>8. Cat(k.wire, k.outputBuffer_) = accepted'[c]
  BY <1>7 DEF BytesInOrder, Cat
<1>9. /\ TypeInv' /\ Ordered(tasks, Home)' /\ BytesInOrder' /\ FineInv'
      /\ Accepted' = Accepted /\ \A d \in Accepted : LoopOf(d)' = LoopOf(d)
  BY <1>4, <1>5, <1>6, <1>7, <1>8, StepKeeps
<1>10. SentInv'
  <2> SUFFICES ASSUME OnlySends
               PROVE  SentInv'
    BY DEF SentInv
  <2>1. \A d \in Accepted : <<LoopOf(d), d>> # <<u, c>> /\ <<LoopOf(d), d>> # None
    <3> SUFFICES ASSUME NEW d \in Accepted
                 PROVE  <<LoopOf(d), d>> # <<u, c>> /\ <<LoopOf(d), d>> # None
      OBVIOUS
    <3>1. LoopOf(d) \in Loops /\ d \in Conns
      BY LoopsAre
    <3>2. LoopOf(d) # u
      BY <3>1, ThreadAssumption
    <3> QED BY <3>1, <3>2, NotNone
  <2>2. \A x \in promised' : \E d \in Accepted : sent'[x] = <<LoopOf(d), d>>
    BY <1>1, <1>5, <2>1 DEF SentInv, TypeInv
  <2>3. \A x \in Messages : \A d \in Accepted : sent'[x] = <<LoopOf(d), d>> =>
          conn[d].peer = "reset" \/ Range(Chunks(x)) \subseteq Range(accepted[d])
    BY <1>5, <2>1 DEF SentInv
  <2> QED BY <1>1, <1>9, <2>2, <2>3 DEF SentInv
<1> QED BY <1>9, <1>10

LEMMA OpIs ==
  ASSUME TypeInv, NEW u \in Users, op[u] # None
  PROVE  /\ op[u] \in OpType /\ op[u].conn \in Accepted /\ u \in KnownTo(op[u].conn)
         /\ op[u].call \in UserOps /\ op[u].message \in Messages \cup {None}
         /\ OnlySends => op[u].call = "send" /\ op[u].done = "set"
<1>1. op[u] \in OpType /\ op[u].conn \in handles[u] /\ (op[u].call = "send" => op[u].done = "set")
  BY DEF TypeInv, OpsInv
<1>2. op[u].call \in UserOps /\ op[u].message \in Messages \cup {None}
  BY <1>1 DEF OpType
<1>3. op[u].conn \in Accepted /\ u \in KnownTo(op[u].conn)
  BY <1>1 DEF TypeInv, KnownTo
<1> QED BY <1>1, <1>2, <1>3 DEF OnlySends

LEMMA SetStateKeeps ==
  ASSUME IInv, NEW u \in Users, SetState(u)
  PROVE  IInv'
<1> USE DEF IInv
<1> DEFINE c == op[u].conn
           k == conn[c]
           r == [k EXCEPT !.state_ = "kDisconnecting"]
           o == [op[u] EXCEPT !.done = "set"]
<1>1. /\ op[u] # None /\ op[u].done = "test" /\ op' = [op EXCEPT ![u].done = "set"]
      /\ conn' = [conn EXCEPT ![c].state_ = "kDisconnecting"]
      /\ promised' = IF op[u].call = "shutdown" THEN promised \cup Promised(u, c) ELSE promised
      /\ UNCHANGED <<connections_, next_, tasks, handles, sent, accepted>>
  BY DEF SetState
<1>2. /\ op[u] \in OpType /\ c \in Accepted
      /\ OnlySends => op[u].call = "send" /\ op[u].done = "set"
  BY <1>1, OpIs
<1>3. ~OnlySends
  BY <1>1, <1>2
<1>4. OpsInv'
  <2>1. o \in OpType /\ o.conn = c /\ o.done = "set"
    BY <1>2 DEF OpType
  <2>2. op' = [op EXCEPT ![u] = o]
    BY <1>1
  <2> HIDE DEF o, c
  <2>3. DOMAIN op' = Users /\ op'[u] = o /\ \A v \in Users : v # u => op'[v] = op[v]
    BY <2>2 DEF TypeInv, OpsInv
  <2>4. c \in handles[u]
    BY <1>1 DEF c, TypeInv, OpsInv
  <2> QED BY <1>1, <2>1, <2>3, <2>4 DEF TypeInv, OpsInv
<1> HIDE DEF c, o
<1>5. /\ tasks \in Queues(Accepted) /\ Ordered(tasks, Home)
      /\ \A d : QueuedIn(tasks, d) = QueuedFor(d) /\ k \in Connections
  BY <1>2, Stands
<1>6. r \in Connections /\ SameBytes(k, r) /\ SameEnds(k, r)
  BY <1>5, StateSet DEF StateE
<1>7. conn' = [conn EXCEPT ![c] = r]
  BY <1>1
<1> HIDE DEF r
<1>8. StepOf(c, r)
  <2>1. /\ handles' \in [Users -> SUBSET Accepted]
        /\ \A v \in Users : handles'[v] \subseteq handles[v] \cup {c}
    BY <1>1 DEF TypeInv
  <2>2. Fine(c, r, connections_', QueuedIn(tasks', c), {v \in Users : c \in handles'[v]})
    BY <1>3, FineOtherwise
  <2> QED BY <1>1, <1>4, <1>5, <1>6, <1>7, <2>1, <2>2 DEF StepOf, SameEnds
<1>9. /\ DOMAIN sent' = Messages
      /\ \A x \in Messages : sent'[x] = None \/ sent'[x] \in (Users \cup Loops) \X Accepted
      /\ promised' \subseteq Messages
      /\ accepted' \in [Conns -> Seq(Chunk)] /\ \A d \in Conns : d # c => accepted'[d] = accepted[d]
  BY <1>1 DEF TypeInv, Promised
<1>10. Cat(r.wire, r.outputBuffer_) = accepted'[c]
  BY <1>1, <1>2, <1>6 DEF SameBytes, BytesInOrder, Cat
<1>11. TypeInv' /\ Ordered(tasks, Home)' /\ BytesInOrder' /\ FineInv'
  BY <1>2, <1>8, <1>9, <1>10, StepKeeps
<1> QED BY <1>3, <1>11 DEF SentInv

LEMMA QueueInLoopKeeps ==
  ASSUME IInv, NEW u \in Users, QueueInLoop(u)
  PROVE  IInv'
<1> USE DEF IInv
<1> DEFINE c == op[u].conn
           k == conn[c]
           fns == [send |-> "sendInLoop", shutdown |-> "shutdownInLoop",
                   forceClose |-> "forceCloseInLoop"]
           fn == fns[op[u].call]
<1>1. /\ op[u] # None
      /\ tasks' = Push(tasks, LoopOf(c), Task(fn, c, op[u].message))
      /\ op' = [op EXCEPT ![u] = None]
      /\ UNCHANGED <<conn, connections_, next_, handles, sent, accepted, promised>>
  BY DEF QueueInLoop
<1>2. /\ c \in Accepted /\ u \in KnownTo(c) /\ op[u].call \in UserOps
      /\ op[u].message \in Messages \cup {None}
      /\ OnlySends => op[u].call = "send"
  BY <1>1, OpIs
<1>3. /\ fn \in {"sendInLoop", "shutdownInLoop", "forceCloseInLoop"}
      /\ OnlySends => fn = "sendInLoop"
  BY <1>2, OpsAssumption
<1>4. OpsInv'
  BY <1>1 DEF TypeInv, OpsInv
<1> HIDE DEF c, fn
<1>5. /\ tasks \in Queues(Accepted) /\ Ordered(tasks, Home)
      /\ \A d : QueuedIn(tasks, d) = QueuedFor(d)
      /\ Fine(c, k, connections_, QueuedFor(c), KnownTo(c)) /\ k \in Connections
      /\ LoopOf(c) \in Loops
  BY <1>2, Stands
<1>6. /\ tasks' \in Queues(Accepted) /\ Ordered(tasks', Home)
      /\ \A d : d # c => QueuedIn(tasks', d) = QueuedIn(tasks, d)
      /\ QueuedIn(tasks', c) = QueuedIn(tasks, c) \cup {fn}
  <2>1. fn \in Functors /\ fn # "connectEstablished" /\ fn # "connectDestoryed"
    BY <1>3 DEF Functors
  <2> QED BY <1>1, <1>2, <1>5, <2>1, Enters
<1>7. Fine(c, k, connections_', QueuedIn(tasks', c), KnownTo(c))
  <2>1. CASE ~OnlySends
    BY <2>1, FineOtherwise
  <2>2. CASE OnlySends
    <3>1. k.state_ # "kConnecting"
      BY <1>2, <1>5, <2>2 DEF Fine, Life
    <3>2. /\ QueuedIn(tasks', c) \in SUBSET Functors
          /\ SameTelling(QueuedFor(c), QueuedIn(tasks', c))
      BY <1>3, <1>5, <1>6, <2>2 DEF QueuedIn, SameTelling, Telling
    <3> QED BY <1>1, <1>5, <3>1, <3>2, FineStays
  <2> QED BY <2>1, <2>2
<1>8. StepOf(c, k)
  <2>1. /\ handles' \in [Users -> SUBSET Accepted]
        /\ \A v \in Users : handles'[v] \subseteq handles[v] \cup {c}
        /\ {v \in Users : c \in handles'[v]} = KnownTo(c)
    BY <1>1 DEF TypeInv, KnownTo
  <2> QED BY <1>1, <1>2, <1>4, <1>5, <1>6, <1>7, <2>1, Untouched DEF StepOf
<1>9. UNCHANGED <<sent, accepted, promised>>
  BY <1>1
<1> QED BY <1>2, <1>8, <1>9, QuietStepKeeps

LEMMA DropHandleKeeps ==
  ASSUME IInv, NEW u \in Users, NEW c \in Accepted, DropHandle(u, c)
  PROVE  IInv'
<1> USE DEF IInv
<1> DEFINE k == conn[c]
<1>1. /\ op[u] = None /\ handles' = [handles EXCEPT ![u] = @ \ {c}]
      /\ UNCHANGED <<conn, connections_, next_, tasks, op, sent, accepted, promised>>
  BY DEF DropHandle
<1>2. /\ tasks \in Queues(Accepted) /\ Ordered(tasks, Home)
      /\ \A d : QueuedIn(tasks, d) = QueuedFor(d)
      /\ QueuedFor(c) \in SUBSET Functors
      /\ Fine(c, k, connections_, QueuedFor(c), KnownTo(c)) /\ k \in Connections
  BY Stands
<1>3. /\ handles' \in [Users -> SUBSET Accepted]
      /\ \A v \in Users : handles'[v] \subseteq handles[v]
      /\ \A v \in Users : v # u => handles'[v] = handles[v]
  BY <1>1 DEF TypeInv
<1>4. OpsInv'
  BY <1>1, <1>3 DEF TypeInv, OpsInv
<1>5. Fine(c, k, connections_, QueuedFor(c), {v \in Users : c \in handles'[v]})
  <2>1. {v \in Users : c \in handles'[v]} \subseteq KnownTo(c)
    BY <1>3 DEF KnownTo
  <2>2. SameTelling(QueuedFor(c), QueuedFor(c))
    BY DEF SameTelling
  <2> QED BY <1>2, <2>1, <2>2, FineStays
<1>6. StepOf(c, k)
  BY <1>1, <1>2, <1>3, <1>4, <1>5, Untouched DEF StepOf
<1>7. UNCHANGED <<sent, accepted, promised>>
  BY <1>1
<1> QED BY <1>6, <1>7, QuietStepKeeps

-----------------------------------------------------------------------------
(* The server *)

LEMMA NextLoopIs ==
  ASSUME TypeInv
  PROVE  NextLoop \in Loops /\ Advance \in Nat /\ (loops_ # <<>> => Advance < Len(loops_))
<1>1. loops_ \in Seq(Loops) /\ next_ \in Nat /\ (loops_ # <<>> => next_ < Len(loops_))
  BY LoopsAssumption DEF TypeInv
<1>2. Len(loops_) \in Nat /\ (loops_ # <<>> => Len(loops_) > 0)
  BY <1>1, LenProperties, EmptySeq
<1>3. NextLoop \in Loops
  <2>1. CASE loops_ = <<>>
    BY <2>1 DEF NextLoop, Loops
  <2>2. CASE loops_ # <<>>
    <3>1. next_ + 1 \in 1 .. Len(loops_)
      BY <1>1, <1>2, <2>2
    <3> QED BY <1>1, <2>2, <3>1, ElementOfSeq DEF NextLoop
  <2> QED BY <2>1, <2>2
<1>4. Advance \in Nat /\ (loops_ # <<>> => Advance < Len(loops_))
  BY <1>1, <1>2 DEF Advance
<1> QED BY <1>3, <1>4

LEMMA QueuesGrow ==
  ASSUME NEW C, NEW D, C \subseteq D, NEW queues \in Queues(C)
  PROVE  queues \in Queues(D)
<1>1. TaskFor(C) \subseteq TaskFor(D)
  BY DEF TaskFor
<1>2. Seq(TaskFor(C)) \subseteq Seq(TaskFor(D))
  BY <1>1, SeqMonotonic
<1> QED BY <1>2 DEF Queues

LEMMA HomeGrows ==
  ASSUME NEW C, NEW queues \in Queues(C), NEW home, NEW home2, Ordered(queues, home),
         \A c \in C : home2[c] = home[c]
  PROVE  Ordered(queues, home2)
<1>1. \A l \in Loops : \A j \in DOMAIN queues[l] : queues[l][j].conn \in C
  <2> SUFFICES ASSUME NEW l \in Loops, NEW j \in DOMAIN queues[l]
               PROVE  queues[l][j].conn \in C
    OBVIOUS
  <2>1. queues[l] \in Seq(TaskFor(C))
    BY DEF Queues
  <2>2. queues[l][j] \in TaskFor(C)
    BY <2>1, ElementOfSeq, LenProperties
  <2> QED BY <2>2 DEF TaskFor
<1> QED BY <1>1 DEF Ordered

\* Nothing is queued for a connection that the queues do not know.
LEMMA NoneQueued ==
  ASSUME NEW C, NEW queues \in Queues(C), NEW c, c \notin C
  PROVE  /\ QueuedIn(queues, c) = {}
         /\ \A l \in Loops : \A j \in DOMAIN queues[l] : queues[l][j].conn # c
<1>1. \A l \in Loops : \A j \in DOMAIN queues[l] : queues[l][j].conn # c
  <2> SUFFICES ASSUME NEW l \in Loops, NEW j \in DOMAIN queues[l]
               PROVE  queues[l][j].conn # c
    OBVIOUS
  <2>1. queues[l] \in Seq(TaskFor(C))
    BY DEF Queues
  <2>2. queues[l][j] \in TaskFor(C)
    BY <2>1, ElementOfSeq, LenProperties
  <2> QED BY <2>2 DEF TaskFor
<1> QED BY <1>1, QueuedMeans

LEMMA AcceptKeeps ==
  ASSUME IInv, NEW c \in Conns, Accept(c)
  PROVE  IInv'
<1> USE DEF IInv
<1> DEFINE l == NextLoop
           k == NewConnection(l)
           r == conn'[c]
<1>1. /\ conn[c] = None /\ connections_' = connections_ \cup {c} /\ next_' = Advance
      /\ UNCHANGED <<op, sent, accepted, promised>>
  BY DEF Accept
<1>2. /\ NextLoop \in Loops /\ Advance \in Nat /\ (loops_ # <<>> => Advance < Len(loops_))
      /\ mainLoop \in Loops
  BY NextLoopIs DEF Loops
<1>3. c \notin Accepted /\ Accepted \subseteq Conns
  BY <1>1 DEF Accepted
<1>4. /\ k \in Connections /\ k.loop_ = l /\ k.outputBuffer_ = <<>> /\ k.wire = <<>>
  BY <1>2, NewConnectionIs
<1>5. tasks \in Queues(Accepted) /\ tasks \in Queues(Accepted \cup {c})
  BY QueuesGrow DEF TypeInv
<1>6. QueuedIn(tasks, c) = {} /\ \A x \in Loops : \A j \in DOMAIN tasks[x] : tasks[x][j].conn # c
  BY <1>3, <1>5, NoneQueued
<1>7. Fine(c, k, connections_', {"connectEstablished"}, {})
  BY <1>1, <1>2, FineNew
<1> HIDE DEF k
\* The connection is established at once, in mainLoop, or that is queued.
<1>8. \/ /\ l = mainLoop /\ conn' = [conn EXCEPT ![c] = ConnectEstablished(k)]
         /\ handles' = [u \in Users |-> handles[u] \cup {c}] /\ tasks' = tasks
      \/ /\ l # mainLoop /\ conn' = [conn EXCEPT ![c] = k]
         /\ tasks' = Push(tasks, l, Task("connectEstablished", c, None)) /\ handles' = handles
  BY DEF Accept, k
<1> HIDE DEF l
<1>9. /\ r \in Connections /\ r.loop_ = l /\ r.outputBuffer_ = <<>> /\ r.wire = <<>>
      /\ conn' \in [Conns -> Connections \cup {None}]
      /\ \A d \in Conns : d # c => conn'[d] = conn[d]
  <2>1. /\ ConnectEstablished(k) \in Connections
        /\ SameBytes(k, ConnectEstablished(k)) /\ SameEnds(k, ConnectEstablished(k))
    BY <1>4, EstablishedDoes
  <2>2. conn \in [Conns -> Connections \cup {None}]
    BY DEF TypeInv
  <2>3. CASE conn' = [conn EXCEPT ![c] = ConnectEstablished(k)]
    BY <1>4, <2>1, <2>2, <2>3 DEF SameBytes, SameEnds
  <2>4. CASE conn' = [conn EXCEPT ![c] = k]
    BY <1>4, <2>2, <2>4
  <2> QED BY <1>8, <2>3, <2>4
<1>10. Accepted' = Accepted \cup {c}
  BY <1>3, <1>9, NotNone DEF Accepted
<1>11. (\A d \in Accepted : Home'[d] = Home[d]) /\ Home'[c] = l
  <2>1. \A d \in Accepted : conn'[d] = conn[d]
    BY <1>3, <1>9
  <2> QED BY <1>3, <1>9, <1>10, <2>1 DEF Home, LoopOf
<1>12. Ordered(tasks, Home')
  BY <1>5, <1>11, HomeGrows
<1>13. /\ tasks' \in Queues(Accepted') /\ Ordered(tasks', Home')
       /\ \A d : d # c => QueuedIn(tasks', d) = QueuedIn(tasks, d)
       /\ l = mainLoop => QueuedIn(tasks', c) = {}
       /\ l # mainLoop => QueuedIn(tasks', c) = {"connectEstablished"}
  <2>1. CASE l = mainLoop
    BY <1>5, <1>6, <1>8, <1>10, <1>12, <2>1
  <2>2. CASE l # mainLoop
    <3> DEFINE t == Task("connectEstablished", c, None)
               C == Accepted \cup {c}
    <3>1. t \in TaskFor(C) /\ t.fn = "connectEstablished" /\ t.conn = c
      BY TasksAre DEF Functors
    <3>2. tasks' = Push(tasks, l, t) /\ tasks \in Queues(C) /\ l \in Loops
      BY <1>2, <1>5, <1>8, <2>2 DEF l
    <3> HIDE DEF t, C
    <3>3. /\ tasks' \in Queues(C)
          /\ \A d : d # t.conn => QueuedIn(tasks', d) = QueuedIn(tasks, d)
          /\ QueuedIn(tasks', t.conn) = QueuedIn(tasks, t.conn) \cup {t.fn}
      BY <3>1, <3>2, PushKeeps
    <3>4. Ordered(tasks', Home')
      <4>1. /\ t.fn \in {"connectEstablished", "connectDestoryed"} => Home'[t.conn] = l
            /\ t.fn = "connectEstablished" =>
                 l # mainLoop /\ \A i \in DOMAIN tasks[l] : tasks[l][i].conn # t.conn
        BY <1>6, <1>11, <2>2, <3>1, <3>2
      <4> QED BY <1>12, <3>1, <3>2, <4>1, PushOrdered
    <3> QED BY <1>6, <1>10, <2>2, <3>1, <3>3, <3>4 DEF C
  <2> QED BY <2>1, <2>2
<1>14. /\ handles' \in [Users -> SUBSET Accepted']
       /\ \A u \in Users :
            handles[u] \subseteq handles'[u] /\ handles'[u] \subseteq handles[u] \cup {c}
       /\ l # mainLoop => {u \in Users : c \in handles'[u]} = {}
  <2>1. handles \in [Users -> SUBSET Accepted]
    BY DEF TypeInv
  <2> QED BY <1>3, <1>8, <1>10, <2>1
<1>15. OpsInv'
  BY <1>1, <1>14 DEF OpsInv, TypeInv
<1>16. TypeInv'
  <2>1. connections_' \subseteq Accepted' /\ IsFiniteSet(connections_')
    BY <1>1, <1>10, FS_AddElement DEF TypeInv
  <2>2. /\ DOMAIN sent' = Messages
        /\ \A m \in Messages : sent'[m] = None \/ sent'[m] \in (Users \cup Loops) \X Accepted'
        /\ accepted' \in [Conns -> Seq(Chunk)]
        /\ \A d \in Conns \ Accepted' : accepted'[d] = <<>>
        /\ promised' \subseteq Messages
    BY <1>1, <1>10 DEF TypeInv
  <2> QED BY <1>1, <1>2, <1>9, <1>13, <1>14, <1>15, <2>1, <2>2 DEF TypeInv
<1>17. Ordered(tasks, Home)'
  BY <1>13 DEF Ordered
<1>18. BytesInOrder'
  <2> SUFFICES ASSUME NEW d \in Accepted'
               PROVE  conn'[d].wire \o conn'[d].outputBuffer_ = accepted'[d]
    BY DEF BytesInOrder
  <2>1. CASE d = c
    <3>1. accepted'[c] = <<>>
      BY <1>1, <1>3 DEF TypeInv
    <3>2. <<>> \o <<>> = <<>>
      OBVIOUS
    <3> QED BY <1>9, <2>1, <3>1, <3>2
  <2>2. CASE d # c
    BY <1>1, <1>3, <1>9, <1>10, <2>2 DEF BytesInOrder
  <2> QED BY <2>1, <2>2
<1>19. FineInv'
  <2>1. Fine(c, r, connections_', QueuedIn(tasks', c), {u \in Users : c \in handles'[u]})
    <3>1. CASE l = mainLoop
      <4>1. r = ConnectEstablished(k) /\ QueuedIn(tasks', c) = {}
        BY <1>8, <1>13, <3>1 DEF TypeInv
      <4>2. Fine(c, ConnectEstablished(k), connections_', {}, {u \in Users : c \in handles'[u]})
        BY <1>4, <1>7, FineEstablished
      <4> QED BY <4>1, <4>2
    <3>2. CASE l # mainLoop
      <4>1. r = k /\ QueuedIn(tasks', c) = {"connectEstablished"}
        BY <1>8, <1>13, <3>2 DEF TypeInv
      <4> QED BY <1>7, <1>14, <3>2, <4>1
    <3> QED BY <3>1, <3>2
  <2>2. \A d \in Accepted' : d # c =>
           /\ d \in Accepted /\ conn'[d] = conn[d] /\ (d \in connections_ => d \in connections_')
           /\ QueuedIn(tasks', d) = QueuedFor(d)
           /\ \A u \in Users : d \in handles'[u] => d \in handles[u]
    BY <1>1, <1>3, <1>9, <1>10, <1>13, <1>14 DEF QueuedFor
  <2> QED BY <2>1, <2>2, FineNext
<1>20. SentInv'
  <2> SUFFICES ASSUME OnlySends
               PROVE  SentInv'
    BY DEF SentInv
  <2>1. \A d \in Accepted : d \in Accepted' /\ conn'[d] = conn[d] /\ LoopOf(d)' = LoopOf(d)
    BY <1>3, <1>9, <1>10 DEF LoopOf
  <2>2. \A m \in Messages : \A x \in Loops : sent[m] # <<x, c>>
    <3> SUFFICES ASSUME NEW m \in Messages, NEW x \in Loops, sent[m] = <<x, c>>
                 PROVE  FALSE
      OBVIOUS
    <3>1. sent[m] # None
      BY NotNone
    <3>2. <<x, c>> \in (Users \cup Loops) \X Accepted
      BY <3>1 DEF TypeInv
    <3>3. <<x, c>>[2] \in Accepted
      BY <3>2
    <3> QED BY <1>3, <3>3
  <2>3. LoopOf(c)' \in Loops
    BY <1>2, <1>9 DEF LoopOf, l
  <2>4. \A m \in promised' : \E d \in Accepted' : sent'[m] = <<LoopOf(d)', d>>
    BY <1>1, <2>1 DEF SentInv
  <2>5. \A m \in Messages : \A d \in Accepted' : sent'[m] = <<LoopOf(d)', d>> =>
          conn'[d].peer = "reset" \/ Range(Chunks(m)) \subseteq Range(accepted'[d])
    <3> SUFFICES ASSUME NEW m \in Messages, NEW d \in Accepted', sent'[m] = <<LoopOf(d)', d>>
                 PROVE  conn'[d].peer = "reset" \/ Range(Chunks(m)) \subseteq Range(accepted'[d])
      OBVIOUS
    <3>1. d \in Accepted
      BY <1>1, <1>10, <2>2, <2>3
    <3> QED BY <1>1, <2>1, <3>1 DEF SentInv
  <2> QED BY <2>4, <2>5 DEF SentInv
<1> QED BY <1>16, <1>17, <1>18, <1>19, <1>20

\* What SetToSeq lists
LEMMA SetToSeqLists ==
  ASSUME NEW S, IsFiniteSet(S), NEW s, s = SetToSeq(S)
  PROVE  s \in Seq(S) /\ \A e : e \in S <=> \E i \in DOMAIN s : s[i] = e
<1> DEFINE n == Cardinality(S)
<1>1. n \in Nat /\ ExistsBijection(1 .. n, S)
  BY FS_CardinalityType
<1>2. \E f \in [1 .. n -> S] : IsInjective(f)
  BY <1>1 DEF ExistsBijection, Bijection, Injection
<1>3. s \in [1 .. n -> S] /\ IsInjective(s)
  BY <1>2 DEF SetToSeq
<1> HIDE DEF n
<1>4. s \in Seq(S)
  BY <1>1, <1>3
<1>5. s \in Injection(1 .. n, S)
  BY <1>3 DEF Injection
<1>6. Cardinality(1 .. n) = n
  BY <1>1, FS_Interval
<1>7. s \in Surjection(1 .. n, S)
  BY <1>5, <1>6, FS_Injection DEF n
<1> QED BY <1>3, <1>4, <1>7 DEF Surjection

AllFollow(queues, s, q) == \A l \in Loops : Follows(queues[l], s[l], q[l])

\* The tasks that the server's destructor queues
Leaving(s, home) ==
  \A l \in Loops : \A i \in DOMAIN s[l] :
    s[l][i].fn = "connectDestoryed" /\ home[s[l][i].conn] = l

\* connectDestoryed joins the queues behind all else.
LEMMA LeaveOrdered ==
  ASSUME NEW queues, NEW s, NEW q, NEW home,
         Ordered(queues, home), Leaving(s, home), AllFollow(queues, s, q)
  PROVE  /\ Ordered(q, home)
         /\ \A c, f : f \in QueuedIn(q, c) <=> f \in QueuedIn(queues, c) \/ f \in QueuedIn(s, c)
<1>0. \A l \in Loops :
        /\ \A i \in DOMAIN queues[l] : i \in DOMAIN q[l] /\ q[l][i] = queues[l][i]
        /\ \A i \in DOMAIN s[l] : \E j \in DOMAIN q[l] : q[l][j] = s[l][i]
        /\ \A j \in DOMAIN q[l] :
             j \in DOMAIN queues[l] \/ \E i \in DOMAIN s[l] : q[l][j] = s[l][i]
        /\ \A i \in DOMAIN q[l] : \A j \in DOMAIN queues[l] : i < j => i \in DOMAIN queues[l]
  BY DEF AllFollow, Follows
<1>1. Ordered(q, home)
  <2> SUFFICES ASSUME NEW l \in Loops, NEW j \in DOMAIN q[l]
               PROVE  /\ q[l][j].fn \in {"connectEstablished", "connectDestoryed"}
                           => home[q[l][j].conn] = l
                      /\ q[l][j].fn = "connectEstablished"
                           => /\ l # mainLoop
                              /\ \A i \in DOMAIN q[l] : i < j => q[l][i].conn # q[l][j].conn
    BY DEF Ordered
  <2>1. CASE j \in DOMAIN queues[l]
    <3>1. \A i \in DOMAIN q[l] : i < j => i \in DOMAIN queues[l]
      BY <1>0, <2>1
    <3>2. \A i \in DOMAIN queues[l] : q[l][i] = queues[l][i]
      BY <1>0
    <3> QED BY <2>1, <3>1, <3>2 DEF Ordered
  <2>2. CASE j \notin DOMAIN queues[l]
    <3>1. PICK i \in DOMAIN s[l] : q[l][j] = s[l][i]
      BY <1>0, <2>2
    <3>2. q[l][j].fn = "connectDestoryed" /\ home[q[l][j].conn] = l
      BY <3>1 DEF Leaving
    <3> QED BY <3>2
  <2> QED BY <2>1, <2>2
<1>2. \A c, f : f \in QueuedIn(queues, c) \/ f \in QueuedIn(s, c) => f \in QueuedIn(q, c)
  <2> TAKE c, f
  <2>1. ASSUME f \in QueuedIn(queues, c)
        PROVE  f \in QueuedIn(q, c)
    <3>1. PICK l \in Loops : \E i \in DOMAIN queues[l] :
                 queues[l][i].conn = c /\ queues[l][i].fn = f
      BY <2>1, QueuedMeans
    <3> QED BY <1>0, <2>1, <3>1, QueuedMeans
  <2>2. ASSUME f \in QueuedIn(s, c)
        PROVE  f \in QueuedIn(q, c)
    <3>1. PICK l \in Loops : \E i \in DOMAIN s[l] : s[l][i].conn = c /\ s[l][i].fn = f
      BY <2>2, QueuedMeans
    <3>2. PICK i \in DOMAIN s[l] : s[l][i].conn = c /\ s[l][i].fn = f
      BY <3>1
    <3>3. PICK j \in DOMAIN q[l] : q[l][j] = s[l][i]
      BY <1>0
    <3> QED BY <2>2, <3>2, <3>3, QueuedMeans
  <2> QED BY <2>1, <2>2
<1>3. \A c, f : f \in QueuedIn(q, c) => f \in QueuedIn(queues, c) \/ f \in QueuedIn(s, c)
  <2> SUFFICES ASSUME NEW c, NEW f, f \in QueuedIn(q, c)
               PROVE  f \in QueuedIn(queues, c) \/ f \in QueuedIn(s, c)
    OBVIOUS
  <2>1. f \in Functors
    BY QueuedMeans
  <2>2. PICK l \in Loops : \E j \in DOMAIN q[l] : q[l][j].conn = c /\ q[l][j].fn = f
    BY QueuedMeans
  <2>3. PICK j \in DOMAIN q[l] : q[l][j].conn = c /\ q[l][j].fn = f
    BY <2>2
  <2>4. CASE j \in DOMAIN queues[l]
    BY <1>0, <2>1, <2>3, <2>4, QueuedMeans
  <2>5. CASE j \notin DOMAIN queues[l]
    <3>1. PICK i \in DOMAIN s[l] : q[l][j] = s[l][i]
      BY <1>0, <2>5
    <3> QED BY <2>1, <2>3, <3>1, QueuedMeans
  <2> QED BY <2>4, <2>5
<1> QED BY <1>1, <1>2, <1>3

Joint(queues, s) == [l \in Loops |-> queues[l] \o s[l]]

LEMMA LeaveQueues ==
  ASSUME NEW C, NEW queues \in Queues(C), NEW s \in Queues(C), NEW home, Ordered(queues, home),
         NEW q, q = Joint(queues, s), Leaving(s, home)
  PROVE  /\ q \in Queues(C) /\ Ordered(q, home)
         /\ \A c, f : f \in QueuedIn(q, c) <=> f \in QueuedIn(queues, c) \/ f \in QueuedIn(s, c)
<1>1. \A l \in Loops : q[l] \in Seq(TaskFor(C)) /\ Follows(queues[l], s[l], q[l])
  <2> TAKE l \in Loops
  <2>1. queues[l] \in Seq(TaskFor(C)) /\ s[l] \in Seq(TaskFor(C)) /\ q[l] = queues[l] \o s[l]
    BY DEF Queues, Joint
  <2> QED BY <2>1, Joined
<1>2. q \in Queues(C)
  <2>1. q = [l \in Loops |-> q[l]]
    BY DEF Joint
  <2> QED BY <1>1, <2>1 DEF Queues
<1>3. AllFollow(queues, s, q)
  BY <1>1 DEF AllFollow
<1>4. /\ Ordered(q, home)
      /\ \A c, f : f \in QueuedIn(q, c) <=> f \in QueuedIn(queues, c) \/ f \in QueuedIn(s, c)
  BY <1>3, LeaveOrdered
<1> QED BY <1>2, <1>4

-----------------------------------------------------------------------------
(* The destructor of the server *)

\* What it queues in a loop, and in each
LeavingFrom(l) == {Task("connectDestoryed", c, None) : c \in {d \in connections_ : LoopOf(d) = l}}
Leavers == [l \in Loops |-> IF l = mainLoop THEN <<>> ELSE SetToSeq(LeavingFrom(l))]

LEMMA LeavingFinite ==
  ASSUME TypeInv, NEW l
  PROVE  IsFiniteSet(LeavingFrom(l))
<1> DEFINE D == {d \in connections_ : LoopOf(d) = l}
           f == [c \in D |-> Task("connectDestoryed", c, None)]
<1>1. IsFiniteSet(D)
  BY FS_Subset DEF TypeInv
<1>2. f \in Surjection(D, LeavingFrom(l))
  <2>1. f \in [D -> LeavingFrom(l)]
    BY DEF LeavingFrom
  <2>2. \A t \in LeavingFrom(l) : \E c \in D : f[c] = t
    BY DEF LeavingFrom
  <2> QED BY <2>1, <2>2 DEF Surjection
<1> QED BY <1>1, <1>2, FS_Surjection

LEMMA LeaversOf ==
  ASSUME TypeInv, NEW l \in Loops, NEW s, s = Leavers[l]
  PROVE  /\ s \in Seq(TaskFor(Accepted))
         /\ \A i \in DOMAIN s : /\ l # mainLoop /\ s[i].fn = "connectDestoryed"
                                /\ s[i].conn \in connections_ /\ LoopOf(s[i].conn) = l
         /\ \A c \in connections_ :
              LoopOf(c) = l /\ l # mainLoop => \E i \in DOMAIN s : s[i].conn = c
<1>1. \A c \in connections_ : /\ Task("connectDestoryed", c, None) \in TaskFor(Accepted)
                              /\ Task("connectDestoryed", c, None).fn = "connectDestoryed"
                              /\ Task("connectDestoryed", c, None).conn = c
  <2>1. connections_ \subseteq Accepted
    BY DEF TypeInv
  <2> QED BY <2>1, TasksAre DEF Functors
<1>2. CASE l = mainLoop
  <2>1. s = <<>> /\ DOMAIN s = {}
    BY <1>2 DEF Leavers
  <2>2. s \in Seq(TaskFor(Accepted))
    BY <2>1, EmptySeq
  <2> QED BY <1>2, <2>1, <2>2
<1>3. CASE l # mainLoop
  <2> DEFINE S == LeavingFrom(l)
  <2>1. s = SetToSeq(S) /\ IsFiniteSet(S)
    BY <1>3, LeavingFinite DEF Leavers
  <2>2. /\ S \subseteq TaskFor(Accepted)
        /\ \A t \in S : t.fn = "connectDestoryed" /\ t.conn \in connections_ /\ LoopOf(t.conn) = l
        /\ \A c \in connections_ : LoopOf(c) = l => \E t \in S : t.conn = c
    BY <1>1 DEF LeavingFrom
  <2> HIDE DEF S
  <2>3. s \in Seq(S) /\ \A e : e \in S <=> \E i \in DOMAIN s : s[i] = e
    BY <2>1, SetToSeqLists
  <2>4. s \in Seq(TaskFor(Accepted))
    BY <2>2, <2>3
  <2> QED BY <1>3, <2>2, <2>3, <2>4
<1> QED BY <1>2, <1>3

LEMMA LeaversAre ==
  ASSUME TypeInv
  PROVE  /\ Leavers \in Queues(Accepted) /\ Leaving(Leavers, Home)
         /\ \A c, f : f \in QueuedIn(Leavers, c) <=>
              f = "connectDestoryed" /\ c \in connections_ /\ LoopOf(c) # mainLoop
<1>1. \A c \in connections_ : c \in Accepted /\ LoopOf(c) \in Loops /\ Home[c] = LoopOf(c)
  BY LoopsAre DEF TypeInv
<1>2. Leavers \in Queues(Accepted)
  <2>1. \A l \in Loops : Leavers[l] \in Seq(TaskFor(Accepted))
    BY LeaversOf
  <2>2. Leavers = [l \in Loops |-> Leavers[l]]
    BY DEF Leavers
  <2> QED BY <2>1, <2>2 DEF Queues
<1>3. \A l \in Loops : \A i \in DOMAIN Leavers[l] :
        /\ l # mainLoop /\ Leavers[l][i].fn = "connectDestoryed"
        /\ Leavers[l][i].conn \in connections_ /\ LoopOf(Leavers[l][i].conn) = l
  BY LeaversOf
<1>4. Leaving(Leavers, Home)
  BY <1>1, <1>3 DEF Leaving
<1>5. \A c, f : f \in QueuedIn(Leavers, c) <=>
              f = "connectDestoryed" /\ c \in connections_ /\ LoopOf(c) # mainLoop
  <2> TAKE c, f
  <2>1. ASSUME f \in QueuedIn(Leavers, c)
        PROVE  f = "connectDestoryed" /\ c \in connections_ /\ LoopOf(c) # mainLoop
    <3>1. PICK l \in Loops : \E i \in DOMAIN Leavers[l] :
                 Leavers[l][i].conn = c /\ Leavers[l][i].fn = f
      BY <2>1, QueuedMeans
    <3> QED BY <1>3, <3>1
  <2>2. ASSUME f = "connectDestoryed", c \in connections_, LoopOf(c) # mainLoop
        PROVE  f \in QueuedIn(Leavers, c)
    <3>1. PICK i \in DOMAIN Leavers[LoopOf(c)] : Leavers[LoopOf(c)][i].conn = c
      BY <1>1, <2>2, LeaversOf
    <3>2. Leavers[LoopOf(c)][i].fn = f /\ f \in Functors
      BY <1>1, <1>3, <2>2 DEF Functors
    <3> QED BY <1>1, <2>2, <3>1, <3>2, QueuedMeans
  <2> QED BY <2>1, <2>2
<1> QED BY <1>2, <1>4, <1>5

LEMMA DestructorQueues ==
  ASSUME TypeInv, ServerDestructor
  PROVE  tasks' = Joint(tasks, Leavers)
<1>1. tasks' = [l \in Loops |-> IF l = mainLoop THEN tasks[l]
                                ELSE tasks[l] \o SetToSeq(LeavingFrom(l))]
  BY DEF ServerDestructor, LeavingFrom
<1>2. tasks[mainLoop] \o <<>> = tasks[mainLoop]
  <2>1. tasks[mainLoop] \in Seq(TaskFor(Accepted))
    BY DEF TypeInv, Queues, Loops
  <2> QED BY <2>1, ConcatEmptySeq
<1>3. \A l \in Loops : tasks'[l] = tasks[l] \o Leavers[l]
  BY <1>1, <1>2 DEF Leavers
<1> QED BY <1>1, <1>3 DEF Joint

\* A connection in mainLoop is destroyed at once; each of the others is, when its loop
\* comes to what is queued for it.
LEMMA DestructorKeeps ==
  ASSUME IInv, ServerDestructor
  PROVE  IInv'
<1> USE DEF IInv
<1>1. /\ ServerDies /\ connections_' = {}
      /\ conn' = [c \in Conns |-> IF c \in connections_ /\ LoopOf(c) = mainLoop
                                  THEN ConnectDestoryed(conn[c]) ELSE conn[c]]
      /\ UNCHANGED <<next_, handles, op, sent, accepted, promised>>
  BY DEF ServerDestructor
<1>2. \A c \in Accepted : conn[c] \in Connections /\ c \in Conns
  BY LoopsAre
<1>3. \A c \in Conns :
        \/ c \in connections_ /\ LoopOf(c) = mainLoop /\ conn'[c] = ConnectDestoryed(conn[c])
        \/ ~(c \in connections_ /\ LoopOf(c) = mainLoop) /\ conn'[c] = conn[c]
  BY <1>1
<1>4. connections_ \subseteq Accepted
  BY DEF TypeInv
<1>5. \A c \in Accepted :
        /\ conn'[c] \in Connections /\ SameBytes(conn[c], conn'[c]) /\ SameEnds(conn[c], conn'[c])
  <2> TAKE c \in Accepted
  <2>1. CASE conn'[c] = conn[c]
    BY <1>2, <2>1 DEF SameBytes, SameEnds
  <2>2. CASE conn'[c] = ConnectDestoryed(conn[c])
    BY <1>2, <2>2, DestoryedDoes
  <2> QED BY <1>2, <1>3, <2>1, <2>2
<1>6. \A c \in Conns \ Accepted : conn'[c] = None
  BY <1>3, <1>4 DEF Accepted
<1>7. conn' \in [Conns -> Connections \cup {None}]
  <2>1. \A c \in Conns : conn'[c] \in Connections \cup {None}
    BY <1>5, <1>6
  <2>2. conn' = [c \in Conns |-> conn'[c]]
    BY <1>1
  <2> QED BY <2>1, <2>2
<1>8. Accepted' = Accepted
  BY <1>2, <1>5, <1>6, NotNone DEF Accepted
<1>9. \A c \in Accepted : LoopOf(c)' = LoopOf(c)
  BY <1>5 DEF LoopOf, SameEnds
<1>10. Home' = Home
  BY <1>8, <1>9 DEF Home
<1>11. /\ tasks' \in Queues(Accepted) /\ Ordered(tasks', Home)
       /\ \A c, f : f \in QueuedIn(tasks', c) <=> f \in QueuedFor(c) \/
              (f = "connectDestoryed" /\ c \in connections_ /\ LoopOf(c) # mainLoop)
  <2>1. tasks' = Joint(tasks, Leavers)
    BY DestructorQueues
  <2>2. /\ Leavers \in Queues(Accepted) /\ Leaving(Leavers, Home)
        /\ \A c, f : f \in QueuedIn(Leavers, c) <=>
             f = "connectDestoryed" /\ c \in connections_ /\ LoopOf(c) # mainLoop
    BY LeaversAre
  <2>3. tasks \in Queues(Accepted) /\ Ordered(tasks, Home)
    BY DEF TypeInv
  <2>4. /\ tasks' \in Queues(Accepted) /\ Ordered(tasks', Home)
        /\ \A c, f : f \in QueuedIn(tasks', c) <=>
             f \in QueuedIn(tasks, c) \/ f \in QueuedIn(Leavers, c)
    BY <2>1, <2>2, <2>3, LeaveQueues
  <2> QED BY <2>2, <2>4 DEF QueuedFor
<1>12. TypeInv'
  <2>1. connections_' \subseteq Accepted' /\ IsFiniteSet(connections_')
    BY <1>1, FS_EmptySet
  <2>2. /\ handles' \in [Users -> SUBSET Accepted'] /\ OpsInv'
    BY <1>1, <1>8, SameUsers
  <2> QED BY <1>1, <1>7, <1>8, <1>11, <2>1, <2>2 DEF TypeInv
<1>13. Ordered(tasks, Home)'
  BY <1>10, <1>11 DEF Ordered
<1>14. BytesInOrder'
  BY <1>1, <1>5, <1>8 DEF BytesInOrder, SameBytes
<1>15. FineInv'
  <2> SUFFICES ASSUME NEW c \in Accepted
               PROVE  Fine(c, conn'[c], connections_', QueuedFor(c)', KnownTo(c)')
    BY <1>8 DEF FineInv
  <2>1. Fine(c, conn[c], connections_, QueuedFor(c), KnownTo(c)) /\ conn[c] \in Connections
    BY <1>2 DEF FineInv
  <2>2. KnownTo(c)' = KnownTo(c) /\ QueuedFor(c)' = QueuedIn(tasks', c)
    BY <1>1 DEF KnownTo, QueuedFor
  <2>3. QueuedFor(c) \in SUBSET Functors
    BY DEF QueuedFor, QueuedIn
  <2>4. CASE c \notin connections_
    <3>1. QueuedIn(tasks', c) = QueuedFor(c) /\ conn'[c] = conn[c]
      BY <1>2, <1>3, <1>11, <2>4
    <3>2. SameTelling(QueuedFor(c), QueuedFor(c))
      BY DEF SameTelling
    <3> QED BY <2>1, <2>2, <2>3, <2>4, <3>1, <3>2, FineStays
  <2>5. CASE c \in connections_ /\ LoopOf(c) = mainLoop
    <3>1. QueuedIn(tasks', c) = QueuedFor(c) /\ conn'[c] = ConnectDestoryed(conn[c])
      BY <1>2, <1>3, <1>11, <2>5
    <3>2. "connectEstablished" \notin QueuedFor(c)
      <4> SUFFICES ASSUME "connectEstablished" \in QueuedFor(c)
                   PROVE  FALSE
        OBVIOUS
      <4>1. PICK l \in Loops : \E i \in DOMAIN tasks[l] :
                   tasks[l][i].conn = c /\ tasks[l][i].fn = "connectEstablished"
        BY QueuedMeans DEF QueuedFor
      <4>2. l # mainLoop /\ Home[c] = l
        BY <4>1 DEF Ordered
      <4> QED BY <2>5, <4>2, LoopsAre
    <3>3. QueuedFor(c) \in SUBSET QueuedFor(c)
      OBVIOUS
    <3>4. Fine(c, ConnectDestoryed(conn[c]), connections_', QueuedFor(c), KnownTo(c))
      BY <1>1, <2>1, <3>2, <3>3, FineDestoryed
    <3> QED BY <2>2, <3>1, <3>4
  <2>6. CASE c \in connections_ /\ LoopOf(c) # mainLoop
    <3>1. conn'[c] = conn[c]
      BY <1>2, <1>3, <2>6
    <3>2. QueuedIn(tasks', c) = QueuedFor(c) \cup {"connectDestoryed"}
      BY <1>11, <2>6
    <3> QED BY <1>1, <2>1, <2>2, <3>1, <3>2, FineLeft
  <2> QED BY <2>4, <2>5, <2>6
<1>16. SentInv'
  BY <1>1, <1>5, <1>8, <1>9 DEF SentInv, SameEnds
<1> QED BY <1>12, <1>13, <1>14, <1>15, <1>16


-----------------------------------------------------------------------------
(* The theorems *)

LEMMA InitIInv == ASSUME Init PROVE IInv
<1>1. Accepted = {}
  BY DEF Init, Accepted
<1>2. \A l \in Loops : tasks[l] = <<>> /\ DOMAIN tasks[l] = {}
  BY DEF Init
<1>3. TypeInv
  <2>1. tasks \in Queues(Accepted)
    <3>1. <<>> \in Seq(TaskFor(Accepted))
      BY EmptySeq
    <3> QED BY <3>1 DEF Init, Queues
  <2>2. accepted \in [Conns -> Seq(Chunk)]
    <3>1. <<>> \in Seq(Chunk)
      BY EmptySeq
    <3> QED BY <3>1 DEF Init
  <2>3. next_ \in Nat /\ (loops_ # <<>> => next_ < Len(loops_))
    <3>1. loops_ # <<>> => Len(loops_) \in Nat /\ Len(loops_) # 0
      BY LoopsAssumption, EmptySeq, LenProperties
    <3> QED BY <3>1 DEF Init
  <2>4. connections_ \subseteq Accepted /\ IsFiniteSet(connections_)
    BY FS_EmptySet DEF Init
  <2>5. conn \in [Conns -> Connections \cup {None}] /\ handles \in [Users -> SUBSET Accepted]
    BY DEF Init
  <2>6. OpsInv
    BY DEF Init, OpsInv
  <2>7. DOMAIN sent = Messages /\ (\A m \in Messages : sent[m] = None) /\ promised = {}
        /\ \A c \in Conns : accepted[c] = <<>>
    BY DEF Init
  <2> QED BY <2>1, <2>2, <2>3, <2>4, <2>5, <2>6, <2>7 DEF TypeInv
<1>4. Ordered(tasks, Home)
  BY <1>2 DEF Ordered
<1>5. BytesInOrder /\ FineInv
  BY <1>1 DEF BytesInOrder, FineInv
<1>6. SentInv
  BY <1>1 DEF Init, SentInv
<1> QED BY <1>3, <1>4, <1>5, <1>6 DEF IInv

LEMMA NextIInv == ASSUME IInv, [Next]_vars PROVE IInv'
<1>1. CASE UNCHANGED vars
  <2>1. /\ UNCHANGED <<conn, connections_, next_, tasks, handles, op, sent, accepted, promised>>
        /\ Accepted' = Accepted /\ Home' = Home
    BY <1>1 DEF vars, Accepted, Home, LoopOf
  <2>2. TypeInv'
    BY <2>1 DEF IInv, TypeInv, OpsInv
  <2>3. Ordered(tasks, Home)'
    BY <2>1 DEF IInv, Ordered
  <2>4. BytesInOrder'
    BY <2>1 DEF IInv, BytesInOrder
  <2>5. FineInv'
    <3>1. \A c : QueuedFor(c)' = QueuedFor(c) /\ KnownTo(c)' = KnownTo(c)
      BY <2>1 DEF QueuedFor, KnownTo
    <3> QED BY <2>1, <3>1 DEF IInv, FineInv
  <2>6. SentInv'
    BY <2>1 DEF IInv, SentInv, LoopOf
  <2> QED BY <2>2, <2>3, <2>4, <2>5, <2>6 DEF IInv
<1>2. ASSUME NEW c \in Conns, Accept(c)
      PROVE  IInv'
  BY <1>2, AcceptKeeps
<1>3. CASE ServerDestructor
  BY <1>3, DestructorKeeps
<1>4. ASSUME NEW l \in Loops, RunTask(l)
      PROVE  IInv'
  <2>1. PICK c \in Accepted :
          \/ RunConnectEstablished(l, c) \/ RunConnectDestoryed(l, c)
          \/ (l = mainLoop /\ RunRemoveConnection(c))
          \/ RunForceClose(l, c) \/ RunCallback(l, c)
          \/ \E m \in Messages : RunSend(l, c, m)
          \/ RunShutdown(l, c)
    BY <1>4 DEF RunTask
  <2> QED BY <2>1, EstablishedKeeps, DestoryedKeeps, RemoveKeeps, ForceCloseKeeps, CallbackKeeps,
             SendKeeps, RunShutdownKeeps
<1>5. ASSUME NEW c \in Accepted, Event(c) \/ PeerGoes(c) \/ CallHere(c)
      PROVE  IInv'
  BY <1>5, CloseEventKeeps, WriteEventKeeps, PeerGoesKeeps, SendHereKeeps, ShutdownHereKeeps,
     ForceCloseHereKeeps DEF Event, CallHere
<1>6. ASSUME NEW u \in Users, UserNext(u)
      PROVE  IInv'
  BY <1>6, CallKeeps, DropHandleKeeps, SetStateKeeps, QueueInLoopKeeps DEF UserNext
<1> QED BY <1>1, <1>2, <1>3, <1>4, <1>5, <1>6 DEF Next

LEMMA Invariance == Spec => []IInv
<1>1. Init => IInv
  BY InitIInv
<1>2. IInv /\ [Next]_vars => IInv'
  BY NextIInv
<1> QED BY <1>1, <1>2, PTL DEF Spec

\* A functor that closes a connection, or ends it, holds a shared_ptr to it.
LEMMA ClosesHolds ==
  ASSUME IInv, NEW c \in Accepted, Closes(QueuedFor(c))
  PROVE  Alive(c)
<1>1. PICK f \in QueuedFor(c) \ Raw : TRUE
  BY DEF Closes, Ends, Raw
<1>2. PICK l \in Loops : \E i \in DOMAIN tasks[l] : tasks[l][i].conn = c /\ tasks[l][i].fn = f
  BY <1>1, QueuedMeans DEF QueuedFor
<1>3. PICK i \in DOMAIN tasks[l] : tasks[l][i].conn = c /\ tasks[l][i].fn = f
  BY <1>2
<1>4. tasks[l][i] \in TasksOf(l)
  BY <1>3 DEF TasksOf, Range
<1> QED BY <1>1, <1>3, <1>4 DEF Alive

\* What the kernel has of a connection and what waits for it are the messages sendInLoop
\* took, in the order it took them: whatever its callbacks, its loop and other threads do.
THEOREM ServerBytesInOrder == Spec => []BytesInOrder
<1>1. IInv => BytesInOrder
  BY DEF IInv
<1> QED BY <1>1, Invariance, PTL

\* Where the threads that are not a connection's loop only send on it, the poller knows
\* no channel whose connection is gone.
THEOREM ServerPolledConnectionsLive ==
  ASSUME OnlySends
  PROVE  Spec => []PolledConnectionsLive
<1>1. IInv => PolledConnectionsLive
  <2> SUFFICES ASSUME IInv, NEW c \in Accepted, conn[c].status_ = "kAdded"
               PROVE  Alive(c)
    BY DEF PolledConnectionsLive
  <2>1. Fine(c, conn[c], connections_, QueuedFor(c), KnownTo(c))
    BY DEF IInv, FineInv
  <2>2. c \in connections_ \/ Closes(QueuedFor(c))
    BY <2>1, OnlySends DEF Fine, Life
  <2> QED BY <2>2, ClosesHolds DEF Alive
<1> QED BY <1>1, Invariance, PTL

\* Where moreover no callback closes by force a connection of a server that may be
\* destroyed, the user is told once that a connection is up, and once, after that, that
\* it is down; closeCallback_ runs at most once.
THEOREM ServerUpThenDownOnce ==
  ASSUME NoLateForce
  PROVE  Spec => []UpThenDownOnce
<1>1. IInv => UpThenDownOnce
  <2> SUFFICES ASSUME IInv, NEW c \in Accepted
               PROVE  /\ conn[c].downs <= conn[c].ups /\ conn[c].ups <= 1
                      /\ conn[c].closes <= conn[c].downs
    BY DEF UpThenDownOnce
  <2>1. Fine(c, conn[c], connections_, QueuedFor(c), KnownTo(c))
    BY DEF IInv, FineInv
  <2>2. Told(conn[c], QueuedFor(c))
    BY <2>1, NoLateForce DEF Fine
  <2>3. conn[c].downs \in Nat /\ conn[c].closes \in Nat
    BY LoopsAre, Fields DEF IInv
  <2> QED BY <2>2, <2>3 DEF Told
<1> QED BY <1>1, Invariance, PTL

\* Where those threads only send, what a callback sent before it shut its connection down
\* is on the wire before the end of the stream, unless the connection is lost or closed.
THEOREM ServerSentBeforeShutdown ==
  ASSUME OnlySends
  PROVE  Spec => []SentBeforeShutdown
<1>1. IInv => SentBeforeShutdown
  <2> SUFFICES ASSUME IInv, NEW m \in promised, NEW c, c = sent[m][2],
                      conn[c].fin, conn[c].peer = "open", conn[c].downs = 0
               PROVE  Range(Chunks(m)) \subseteq Range(conn[c].wire)
    BY DEF SentBeforeShutdown
  <2>1. PICK d \in Accepted : sent[m] = <<LoopOf(d), d>>
    BY OnlySends DEF IInv, SentInv
  <2>2. c \in Accepted /\ sent[m] = <<LoopOf(c), c>> /\ m \in Messages
    BY <2>1 DEF IInv, TypeInv
  <2> DEFINE k == conn[c]
  <2>3. Range(Chunks(m)) \subseteq Range(accepted[c])
    BY <2>2, OnlySends DEF IInv, SentInv
  <2>4. k \in Connections /\ k.state_ \in StateE /\ k.wire \in Seq(Chunk)
    BY <2>2, LoopsAre, Fields DEF IInv
  <2>5. Life(c, k, connections_, QueuedFor(c), KnownTo(c))
    BY <2>2, OnlySends DEF IInv, FineInv, Fine
  <2>6. k.state_ = "kDisconnecting"
    BY <2>4, <2>5 DEF Life, StateE
  <2>7. k.outputBuffer_ = <<>>
    BY <2>5, <2>6 DEF Life
  <2>8. accepted[c] = k.wire \o <<>>
    BY <2>2, <2>7 DEF IInv, BytesInOrder
  <2>9. k.wire \o <<>> = k.wire
    BY <2>4, ConcatEmptySeq
  <2> QED BY <2>3, <2>8, <2>9
<1> QED BY <1>1, Invariance, PTL
=============================================================================
