----------------------------- MODULE PollPoller -----------------------------
(***************************************************************************)
(* apollo::PollPoller (net/pollpoller.cc), the poller over poll(2): an     *)
(* array of pollfds, a map from descriptors to channels, and in each       *)
(* channel, as its status, the index of its pollfd.  A channel without     *)
(* events has its descriptor stored as -fd - 1, which poll(2) ignores.     *)
(* removeChannel moves the last pollfd to the place of the one it removes. *)
(***************************************************************************)
EXTENDS Integers, Sequences, FiniteSets

CONSTANTS Channel,   \* Channel objects
          None

VARIABLES
  pollfds_,   \* sequence of [fd, events]
  channels_,  \* set of <<fd, channel>>, one for a descriptor
  status_,    \* of each channel: an index from 0, or -1
  fd_         \* of each channel: None before it is made, -1 once it is closed

pollerVars == <<pollfds_, channels_, status_, fd_>>

Pollfd(fd, events) == [fd |-> fd, events |-> events]

\* fd as it is stored while the channel has no events
Ignored(fd) == -fd - 1

PollerInit ==
  /\ pollfds_ = <<>>
  /\ channels_ = {}
  /\ status_ = [c \in Channel |-> -1]
  /\ fd_ = [c \in Channel |-> None]

StoredFd(fd, events) == IF events = {} THEN Ignored(fd) ELSE fd

\* updateChannel: a new channel is added with the descriptor as it is.
UpdateChannel(c, fd, events) ==
  IF status_[c] < 0
  THEN /\ pollfds_' = Append(pollfds_, Pollfd(fd, events))
       /\ status_' = [status_ EXCEPT ![c] = Len(pollfds_)]
       /\ channels_' = {e \in channels_ : e[1] # fd} \cup {<<fd, c>>}
  ELSE /\ pollfds_' = [pollfds_ EXCEPT ![status_[c] + 1] =
                         Pollfd(StoredFd(fd, events), events)]
       /\ UNCHANGED <<status_, channels_>>

ChannelOf(fd) == CHOOSE c \in Channel : <<fd, c>> \in channels_

\* The descriptor a pollfd stands for
RealFd(fd) == IF fd < 0 THEN -fd - 1 ELSE fd

\* Mutant: the channel of the moved pollfd keeps its old index.
RemoveChannelMutant(c) ==
  LET idx  == status_[c] + 1
      last == Len(pollfds_)
  IN  /\ channels_' = {e \in channels_ : e[1] # fd_[c]}
      /\ pollfds_' = SubSeq([pollfds_ EXCEPT ![idx] = pollfds_[last]], 1, last - 1)
      /\ UNCHANGED status_

\* removeChannel; the status of the removed channel stays what it was.
RemoveChannel(c) ==
  LET idx  == status_[c] + 1
      last == Len(pollfds_)
  IN  /\ channels_' = {e \in channels_ : e[1] # fd_[c]}
      /\ pollfds_' = SubSeq([pollfds_ EXCEPT ![idx] = pollfds_[last]], 1, last - 1)
      /\ status_' = IF idx = last THEN status_
                    ELSE [status_ EXCEPT ![ChannelOf(RealFd(pollfds_[last].fd))] = idx - 1]

\* A set of numbers from the least to the greatest: there is one such sequence.
InOrder(S) ==
  {o \in [1 .. Cardinality(S) -> S] : \A i, j \in DOMAIN o : i < j => o[i] < o[j]}

\* fillActiveChannels: for each pollfd with an event, in the order of the array,
\* the channel the map has for its descriptor.  poll(2) has set the revents.
FillActiveChannels(polled) ==
  {[i \in DOMAIN hits |-> [channel |-> ChannelOf(polled[hits[i]].fd),
                           revents |-> polled[hits[i]].revents]] :
     hits \in InOrder({k \in DOMAIN polled : polled[k].revents # {}})}

-----------------------------------------------------------------------------
Registered == {e[2] : e \in channels_}

\* Array, map and channels agree: each channel of the map has a pollfd of its
\* own, at the index it knows, and there are no others.
PollfdsMatch ==
  /\ \A c \in Registered :
       /\ <<fd_[c], c>> \in channels_
       /\ status_[c] \in 0 .. Len(pollfds_) - 1
       /\ RealFd(pollfds_[status_[c] + 1].fd) = fd_[c]
  /\ \A k \in 1 .. Len(pollfds_) : \E c \in Registered : status_[c] = k - 1
  /\ \A c, d \in Registered : status_[c] = status_[d] \/ fd_[c] = fd_[d] => c = d
=============================================================================
