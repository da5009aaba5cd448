----------------------------- MODULE EchoServer -----------------------------
(***************************************************************************)
(* The path of the bytes: connections in one loop, read through a          *)
(* PollPoller into inputBuffer_, handed to a messageCallback_ that may     *)
(* retrieve any number of bytes and sends them back, and written directly  *)
(* or through outputBuffer_ (net/tcpconnection.cc).  A connection is its   *)
(* Channel; it gets a descriptor when it is accepted and gives it back     *)
(* when it is destroyed.                                                   *)
(*                                                                         *)
(* The loop polls, handles the active channels in their order (the read    *)
(* event of one before its write event) and then runs the functors, here   *)
(* connectDestoryed of the connections that were closed.                   *)
(***************************************************************************)
EXTENDS Buffer, PollPoller, FiniteSets

CONSTANTS Fds,      \* descriptors: 0, 1, ...
          MaxSent   \* bound: how many bytes each peer sends: 1, 2, ...

ASSUME FdsAssumption == Fds \subseteq Nat /\ None \notin Int
ASSUME MaxSentAssumption == MaxSent \in [Channel -> Nat]

VARIABLES
  events_,       \* of each channel
  inputBuffer_,
  outputBuffer_,
  active,        \* activeChannels_, with their revents
  tasks,         \* connectDestoryed of these
  sent,          \* how many bytes the peer has sent
  received,      \* those the kernel holds, and
  eof,           \* whether the end of the stream follows
  wire           \* what was written back

connVars == <<events_, inputBuffer_, outputBuffer_>>
peerVars == <<sent, received, eof>>
vars == <<pollerVars, connVars, active, tasks, peerVars, wire>>

Init ==
  /\ PollerInit
  /\ events_ = [c \in Channel |-> {}]
  /\ inputBuffer_ = [c \in Channel |-> NewBuffer]
  /\ outputBuffer_ = [c \in Channel |-> NewBuffer]
  /\ active = <<>> /\ tasks = <<>>
  /\ sent = [c \in Channel |-> 0]
  /\ received = [c \in Channel |-> <<>>]
  /\ eof = [c \in Channel |-> FALSE]
  /\ wire = [c \in Channel |-> <<>>]

-----------------------------------------------------------------------------
(* The connection: Channel::update, sendInLoop and the handlers *)

SetEvents(c, events) ==
  /\ events_' = [events_ EXCEPT ![c] = events]
  /\ UpdateChannel(c, fd_[c], events)
  /\ UNCHANGED fd_

SameEvents == UNCHANGED <<events_, pollerVars>>

\* Connections whose descriptor is open
Live == {c \in Channel : fd_[c] \in Nat}

InUse == {fd_[c] : c \in Live}

\* The connection is accepted, on the lowest free descriptor, and established.
Accept(c, fd) ==
  /\ fd_[c] = None
  /\ fd \notin InUse /\ \A g \in Fds \ InUse : fd <= g
  /\ fd_' = [fd_ EXCEPT ![c] = fd]
  /\ events_' = [events_ EXCEPT ![c] = {"read"}]
  /\ UpdateChannel(c, fd, {"read"})
  /\ UNCHANGED <<inputBuffer_, outputBuffer_, active, tasks, peerVars, wire>>

\* Mutant: what a direct write leaves is appended from its first byte.
RemainingMutant(data, n) == data

\* What a write of n bytes leaves
Remaining(data, n) == SubSeq(data, n + 1, Len(data))

\* sendInLoop: data is written at once, n bytes of it, unless output waits; the
\* rest goes to outputBuffer_.
SendInLoop(c, data) ==
  \E n \in IF "write" \notin events_[c] /\ ReadableBytes(outputBuffer_[c]) = 0
           THEN 0 .. Len(data) ELSE {0} :
    /\ wire' = [wire EXCEPT ![c] = @ \o SubSeq(data, 1, n)]
    /\ IF n = Len(data)
       THEN SameEvents /\ UNCHANGED outputBuffer_
       ELSE /\ outputBuffer_' = [outputBuffer_ EXCEPT ![c] =
                                   AppendData(@, Remaining(data, n))]
            /\ IF "write" \in events_[c] THEN SameEvents
               ELSE SetEvents(c, events_[c] \cup {"write"})

Rest(c) == SubSeq(received[c], ReadCapacity(inputBuffer_[c]) + 1, Len(received[c]))
Taken(c) == SubSeq(received[c], 1, Len(received[c]) - Len(Rest(c)))

\* handleRead with messageCallback_, which retrieves k bytes and sends them
HandleRead(c) ==
  LET b == ReadFd(inputBuffer_[c], Taken(c))
  IN  \E k \in 0 .. ReadableBytes(b) :
        /\ received' = [received EXCEPT ![c] = Rest(c)]
        /\ inputBuffer_' = [inputBuffer_ EXCEPT ![c] = Retrieve(b, k)]
        /\ SendInLoop(c, SubSeq(Readable(b), 1, k))
        /\ UNCHANGED <<tasks, sent, eof>>

\* handleClose at the end of the stream
HandleClose(c) ==
  /\ SetEvents(c, {})
  /\ tasks' = Append(tasks, c)
  /\ UNCHANGED <<inputBuffer_, outputBuffer_, peerVars, wire>>

\* Mutant: writing ends with the first write.
AfterWriteMutant(c, b) == SetEvents(c, events_[c] \ {"write"})

\* Writing ends when nothing waits any more.
AfterWrite(c, b) ==
  IF ReadableBytes(b) = 0 THEN SetEvents(c, events_[c] \ {"write"}) ELSE SameEvents

\* handleWrite: write() takes n bytes.
HandleWrite(c) ==
  \E n \in 1 .. ReadableBytes(outputBuffer_[c]) :
    LET b == Retrieve(outputBuffer_[c], n)
    IN  /\ wire' = [wire EXCEPT ![c] = @ \o SubSeq(Readable(outputBuffer_[c]), 1, n)]
        /\ outputBuffer_' = [outputBuffer_ EXCEPT ![c] = b]
        /\ AfterWrite(c, b)
        /\ UNCHANGED <<inputBuffer_, tasks, peerVars>>

-----------------------------------------------------------------------------
(* The loop *)

\* What poll(2) reports for a descriptor: it belongs to one live connection.
Revents(fd, events) ==
  LET c == CHOOSE c \in Live : fd_[c] = fd
  IN  events \cap ({"write"} \cup IF received[c] # <<>> \/ eof[c] THEN {"read"} ELSE {})

\* and for the array: a descriptor that is negative has no events.
Polled ==
  [k \in DOMAIN pollfds_ |->
     [fd |-> pollfds_[k].fd,
      revents |-> IF pollfds_[k].fd < 0 THEN {}
                  ELSE Revents(pollfds_[k].fd, pollfds_[k].events)]]

Poll ==
  /\ active = <<>> /\ tasks = <<>>
  /\ active' \in FillActiveChannels(Polled)
  /\ active' # <<>>
  /\ UNCHANGED <<pollerVars, connVars, tasks, peerVars, wire>>

\* handleEvent: the read event of a channel, then its write event
HandleEvent ==
  /\ active # <<>>
  /\ LET c == Head(active).channel
         revents == Head(active).revents
     IN  \/ /\ "read" \in revents
            /\ active' = IF revents = {"read"} THEN Tail(active)
                         ELSE <<[channel |-> c, revents |-> {"write"}]>> \o Tail(active)
            /\ IF received[c] # <<>> THEN HandleRead(c) ELSE HandleClose(c)
         \/ /\ revents = {"write"}
            /\ active' = Tail(active)
            /\ IF "write" \in events_[c] THEN HandleWrite(c)
               ELSE UNCHANGED <<pollerVars, connVars, tasks, peerVars, wire>>

\* connectDestoryed of a closed connection, and its end
RunFunctor ==
  /\ active = <<>> /\ tasks # <<>>
  /\ RemoveChannel(Head(tasks))
  /\ fd_' = [fd_ EXCEPT ![Head(tasks)] = -1]
  /\ tasks' = Tail(tasks)
  /\ UNCHANGED <<connVars, active, peerVars, wire>>

-----------------------------------------------------------------------------
(* The peers *)

PeerSends(c) ==
  /\ c \in Live /\ ~eof[c] /\ sent[c] < MaxSent[c]
  /\ sent' = [sent EXCEPT ![c] = @ + 1]
  /\ received' = [received EXCEPT ![c] = Append(@, sent[c] + 1)]
  /\ UNCHANGED <<pollerVars, connVars, active, tasks, eof, wire>>

PeerCloses(c) ==
  /\ c \in Live /\ ~eof[c]
  /\ eof' = [eof EXCEPT ![c] = TRUE]
  /\ UNCHANGED <<pollerVars, connVars, active, tasks, sent, received, wire>>

LoopNext == Poll \/ HandleEvent \/ RunFunctor

Next == \/ LoopNext
        \/ \E c \in Channel, fd \in Fds : Accept(c, fd)
        \/ \E c \in Channel : PeerSends(c) \/ PeerCloses(c)

Spec == Init /\ [][Next]_vars
FairSpec == Spec /\ WF_vars(LoopNext)

-----------------------------------------------------------------------------
(* Properties *)

\* What was written back, what waits to be written, what waits to be retrieved
\* and what the kernel holds are the bytes the peer sent, in their order: none is
\* lost, doubled or overtaken where a buffer is moved, grows or wraps to extrabuf.
BytesPreserved ==
  \A c \in Channel :
    wire[c] \o Readable(outputBuffer_[c]) \o Readable(inputBuffer_[c]) \o received[c]
      = [i \in 1 .. sent[c] |-> i]

\* Whatever other connections do, what a peer has sent is read and what waits is
\* written, or the connection is closed.
Served ==
  \A c \in Channel :
    (received[c] # <<>> \/ ReadableBytes(outputBuffer_[c]) > 0)
      ~> \/ received[c] = <<>> /\ ReadableBytes(outputBuffer_[c]) = 0
         \/ c \notin Live
=============================================================================
