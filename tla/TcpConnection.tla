--------------------------- MODULE TcpConnection ---------------------------
(***************************************************************************)
(* apollo::TcpConnection (net/tcpconnection.cc) with its Channel           *)
(* (net/channel.cc) and the Channel's entry in the EPollPoller             *)
(* (net/epollpoller.cc), as a record and the functions its handlers apply  *)
(* to it.  Each runs in the connection's loop, hence atomically but for    *)
(* the other threads' writes to state_; a handler reads state_ once, so    *)
(* such a write comes before the handler or after it.                      *)
(*                                                                         *)
(* A message is two chunks, so that a write may take all, some or none of  *)
(* it.  The handlers that queue functors in the loop return the connection *)
(* here and the functors beside it.                                        *)
(***************************************************************************)
EXTENDS Naturals, Sequences

CONSTANT highWaterMark_   \* in chunks

\* Connection state: kDisconnected .. kDisconnecting of enum StateE
StateE == {"kDisconnected", "kConnecting", "kConnected", "kDisconnecting"}

TypeOfConnection(Loop, Chunk) ==
  [state_  : StateE,
   loop_   : Loop,
   events_ : SUBSET {"read", "write"},       \* of channel_
   status_ : {"kNew", "kAdded", "kDeleted"}, \* of channel_ in the poller
   outputBuffer_ : Seq(Chunk),
   wire    : Seq(Chunk),   \* what the kernel has taken
   fin     : BOOLEAN,      \* SHUT_WR done
   peer    : {"open", "closed", "reset"},
   ups     : Nat,          \* history: connectionCallback_ on connection,
   downs   : Nat,          \* ... on disconnection,
   closes  : Nat]          \* and closeCallback_

\* The constructor
NewConnection(loop) ==
  [state_ |-> "kConnecting", loop_ |-> loop, events_ |-> {}, status_ |-> "kNew",
   outputBuffer_ |-> <<>>, wire |-> <<>>, fin |-> FALSE, peer |-> "open",
   ups |-> 0, downs |-> 0, closes |-> 0]

Chunks(message) == << <<message, 1>>, <<message, 2>> >>

-----------------------------------------------------------------------------
(* Channel and EPollPoller *)

\* updateChannel: a channel the poller does not know, or has deleted, is added,
\* whatever its events; a known one without events is deleted.
Update(conn, events) ==
  [conn EXCEPT
     !.events_ = events,
     !.status_ = IF @ = "kAdded" /\ events = {} THEN "kDeleted" ELSE "kAdded"]

EnableReading(conn)  == Update(conn, conn.events_ \cup {"read"})
EnableWriting(conn)  == Update(conn, conn.events_ \cup {"write"})
DisableWriting(conn) == Update(conn, conn.events_ \ {"write"})
DisableAll(conn)     == Update(conn, {})

RemoveChannel(conn) == [conn EXCEPT !.status_ = "kNew"]

\* The kernel reports a hang-up of both directions or a reset whether or not
\* the channel asked for events.
HangUp(conn) == \/ conn.peer = "reset"
                \/ conn.peer = "closed" /\ conn.fin

-----------------------------------------------------------------------------
(* Handlers *)

ConnectEstablished(conn) ==
  EnableReading([conn EXCEPT !.state_ = "kConnected", !.ups = @ + 1])

\* Mutant: state_ is not looked at.
ConnectDestoryedMutant(conn) ==
  RemoveChannel(DisableAll([conn EXCEPT !.state_ = "kDisconnected", !.downs = @ + 1]))

ConnectDestoryed(conn) ==
  RemoveChannel(IF conn.state_ = "kConnected"
         THEN DisableAll([conn EXCEPT !.state_ = "kDisconnected",
                                      !.downs  = @ + 1])
         ELSE conn)

HandleClose(conn) ==
  DisableAll([conn EXCEPT !.state_ = "kDisconnected",
                          !.downs = @ + 1, !.closes = @ + 1])

\* handleEvent calls handleClose: on a hang-up without a readable event, or by
\* handleRead when the read finds the end of the stream.
ClosesOnEvent(conn) ==
  /\ conn.status_ = "kAdded"
  /\ IF "read" \in conn.events_ THEN conn.peer # "open" ELSE HangUp(conn)

CanForceClose(conn) == conn.state_ \in {"kConnected", "kDisconnecting"}

\* Mutant: output still to be written is not waited for.
ShutdownInLoopMutant(conn) == [conn EXCEPT !.fin = TRUE]

\* shutdownInLoop: SHUT_WR unless output is still being written
ShutdownInLoop(conn) ==
  IF "write" \in conn.events_ THEN conn ELSE [conn EXCEPT !.fin = TRUE]

-----------------------------------------------------------------------------
(* Writing *)

\* How many of the chunks the next write() may take; a write after SHUT_WR or
\* a reset fails with EPIPE or ECONNRESET, the faultError of sendInLoop.
WriteFails(conn) == conn.fin \/ conn.peer = "reset"

\* Mutant: a message is written past a buffer that is waiting.
WritesAtOnceMutant(conn) == "write" \notin conn.events_ \/ conn.outputBuffer_ # <<>>

\* sendInLoop writes at once only if nothing is waiting to be written.
WritesAtOnce(conn) == "write" \notin conn.events_ /\ conn.outputBuffer_ = <<>>

\* sendInLoop drops the message.
GivesUp(conn) ==
  \/ conn.state_ = "kDisconnected"
  \/ WritesAtOnce(conn) /\ WriteFails(conn)

\* The connection after sendInLoop, when write(), if called, takes n chunks.
SendInLoop(conn, chunks, n) ==
  LET rest == SubSeq(chunks, n + 1, Len(chunks))
  IN  IF GivesUp(conn) THEN conn
      ELSE LET sent == [conn EXCEPT !.wire = @ \o SubSeq(chunks, 1, n),
                                    !.outputBuffer_ = @ \o rest]
           IN  IF rest # <<>> /\ "write" \notin conn.events_
               THEN EnableWriting(sent) ELSE sent

\* What write() may take in sendInLoop: nothing when it is not called.
Written(conn, chunks) ==
  IF WritesAtOnce(conn) /\ ~WriteFails(conn) THEN 0 .. Len(chunks) ELSE {0}

\* The callbacks sendInLoop queues: writeCompleteCallback_ when all was written
\* at once, highWaterMarkCallback_ when the buffer grows past the mark.
SendQueuesCallback(conn, chunks, n) ==
  /\ ~GivesUp(conn)
  /\ LET old == Len(conn.outputBuffer_)
         remaining == Len(chunks) - n
     IN  \/ remaining = 0
         \/ old < highWaterMark_ /\ old + remaining >= highWaterMark_

CanWrite(conn) ==
  /\ conn.status_ = "kAdded" /\ "write" \in conn.events_
  /\ ~WriteFails(conn)
  /\ conn.outputBuffer_ # <<>>

\* Mutant: a pending shutdown is forgotten.
HandleWriteMutant(conn, n) ==
  LET old  == conn.outputBuffer_
      sent == [conn EXCEPT !.wire = @ \o SubSeq(old, 1, n),
                           !.outputBuffer_ = SubSeq(old, n + 1, Len(old))]
  IN  IF n < Len(old) THEN sent ELSE DisableWriting(sent)

\* handleWrite when write() takes n > 0 chunks; when it empties the buffer,
\* writeCompleteCallback_ is queued too, and a pending shutdown carried out.
HandleWrite(conn, n) ==
  LET old  == conn.outputBuffer_
      sent == [conn EXCEPT !.wire = @ \o SubSeq(old, 1, n),
                           !.outputBuffer_ = SubSeq(old, n + 1, Len(old))]
  IN  IF n < Len(old) THEN sent
      ELSE IF conn.state_ = "kDisconnecting"
           THEN ShutdownInLoop(DisableWriting(sent))
           ELSE DisableWriting(sent)
=============================================================================
