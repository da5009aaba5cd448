----------------------------- MODULE TimerQueue -----------------------------
(***************************************************************************)
(* apollo::TimerQueue (net/timerqueue.cc) of one loop, with Timer, TimerId *)
(* and the addresses the allocator gives to Timers one after another.      *)
(*                                                                         *)
(* A timer is known by its address and, as the address is used again, by   *)
(* its sequence_.  Other threads hand functors to the loop; the loop's own *)
(* code, timer callbacks included, calls addTimer and cancel directly.     *)
(* Timestamp::now counts seconds, addTime and the timerfd count            *)
(* microseconds: both are kept in the units of the code.                   *)
(***************************************************************************)
EXTENDS Integers, Sequences, FiniteSets, SequencesExt

CONSTANTS Users,        \* threads other than the loop's
          Addresses,    \* where a Timer may be, ordered as pointers are
          Delays,       \* of runAfter, in seconds
          Intervals,    \* of runEvery, in seconds
          kMicroSecondsPerSecond,
          MaxTimers,    \* bound: timers created
          MaxClock      \* bound: seconds

ASSUME AddressAssumption == Addresses \subseteq Nat \ {0} /\ IsFiniteSet(Addresses)
ASSUME DelayAssumption == Delays \subseteq Nat /\ Intervals \subseteq Nat \ {0}
ASSUME UnitAssumption == kMicroSecondsPerSecond \in Nat \ {0}
ASSUME BoundAssumption == MaxTimers \in Nat /\ MaxClock \in Nat

VARIABLES
  clock,            \* what Timestamp::now() returns
  numCreated_,
  timer,            \* the Timer at each address, deleted ones included
  timers_,          \* <<expiration, address>>
  activeTimers_,    \* <<address, sequence>>
  callingExpiredTimers_,
  cancelingTimers_,
  expired,          \* the timers handleRead has taken, by time
  next,             \* the index of the next of them to run
  now,              \* when handleRead began
  timerfd,          \* the second it expires in, or Off
  tasks,            \* functors queued in the loop
  adding,           \* the timer whose addTimer a thread has yet to return from
  ids,              \* TimerIds returned and not yet used to cancel
  runs,             \* history: how often each timer ran (two is often)
  repeats,          \* history: the timers that were to repeat
  cancelled         \* history: those cancelled once they had reached the loop

vars == <<clock, numCreated_, timer, timers_, activeTimers_, callingExpiredTimers_,
          cancelingTimers_, expired, next, now, timerfd, tasks, adding, ids, runs,
          repeats, cancelled>>

queueVars == <<timers_, activeTimers_, timerfd>>
batchVars == <<callingExpiredTimers_, expired, next, now, runs>>

\* Of a deleted Timer only the sequence may still be read.
Deleted(s) == [live |-> FALSE, sequence_ |-> s, expiration_ |-> 0, interval_ |-> 0,
               due |-> 0]

Off == -1
None == 0

Init ==
  /\ clock = 1
  /\ numCreated_ = 0
  /\ timer = [a \in Addresses |-> Deleted(0)]
  /\ timers_ = {} /\ activeTimers_ = {}
  /\ callingExpiredTimers_ = FALSE
  /\ cancelingTimers_ = {}
  /\ expired = <<>> /\ next = 1 /\ now = 0
  /\ timerfd = Off
  /\ tasks = <<>>
  /\ adding = [u \in Users |-> None]
  /\ ids = {}
  /\ runs = [s \in 1 .. MaxTimers |-> 0]
  /\ repeats = {} /\ cancelled = {}

AddTime(time, seconds) == time + seconds * kMicroSecondsPerSecond

\* howMuchTimeFromNow: microseconds, of which at least 100, from now.
Deadline(when) ==
  IF when < clock THEN clock ELSE clock + (when - clock) \div kMicroSecondsPerSecond

TimerId(a) == <<a, timer[a].sequence_>>

-----------------------------------------------------------------------------
(* addTimer and cancel *)

\* What runAfter (or runAt) and runEvery ask for
Kinds == (Delays \X {0}) \cup {<<i, i>> : i \in Intervals}

\* A new Timer at a free address
New(a, kind) ==
  /\ ~timer[a].live
  /\ numCreated_ < MaxTimers
  /\ numCreated_' = numCreated_ + 1
  /\ timer' = [timer EXCEPT ![a] =
                 [live        |-> TRUE,
                  sequence_   |-> numCreated_ + 1,
                  expiration_ |-> AddTime(clock, kind[1]),
                  interval_   |-> kind[2],
                  due         |-> clock + kind[1]]]
  /\ repeats' = IF kind[2] > 0 THEN repeats \cup {numCreated_ + 1} ELSE repeats

\* Mutant: an empty list has no earliest timer.
EarliestChangedMutant(when) ==
  timers_ # {} /\ \A entry \in timers_ : when < entry[1]

\* What insert returns
EarliestChanged(when) == \A entry \in timers_ : when < entry[1]

\* timers is the function timer, or what it is about to become.
AddTimerInLoop(timers, a) ==
  LET when == timers[a].expiration_
  IN  /\ timers_' = timers_ \cup {<<when, a>>}
      /\ activeTimers_' = activeTimers_ \cup {<<a, timers[a].sequence_>>}
      /\ timerfd' = IF EarliestChanged(when) THEN Deadline(when) ELSE timerfd

IsActive(id) == id \in activeTimers_

\* Mutant: a timer whose callback is running is not remembered.
RememberMutant(id) == cancelingTimers_

Remember(id) ==
  IF callingExpiredTimers_ THEN cancelingTimers_ \cup {id} ELSE cancelingTimers_

CancelInLoop(id) ==
  LET a == id[1]
  IN  /\ IF IsActive(id)
         THEN /\ timers_' = timers_ \ {<<timer[a].expiration_, a>>}
              /\ activeTimers_' = activeTimers_ \ {TimerId(a)}
              /\ timer' = [timer EXCEPT ![a] = Deleted(@.sequence_)]
              /\ UNCHANGED cancelingTimers_
         ELSE /\ cancelingTimers_' = Remember(id)
              /\ UNCHANGED <<timers_, activeTimers_, timer>>
      /\ cancelled' = IF <<"addTimerInLoop", id>> \in Range(tasks)
                      THEN cancelled ELSE cancelled \cup {id[2]}
  /\ UNCHANGED timerfd

\* Another thread
AddTimer(u, a, kind) ==
  /\ adding[u] = None
  /\ New(a, kind)
  /\ tasks' = Append(tasks, <<"addTimerInLoop", <<a, numCreated_ + 1>> >>)
  /\ adding' = [adding EXCEPT ![u] = a]
  /\ UNCHANGED <<clock, queueVars, batchVars, cancelingTimers_, ids, cancelled>>

\* addTimer ends by reading the timer's sequence, whatever has become of it.
AddTimerReturns(u) ==
  /\ adding[u] # None
  /\ ids' = ids \cup {TimerId(adding[u])}
  /\ adding' = [adding EXCEPT ![u] = None]
  /\ UNCHANGED <<clock, numCreated_, timer, queueVars, batchVars, cancelingTimers_,
                 tasks, repeats, cancelled>>

Cancel(u) ==
  /\ adding[u] = None
  /\ \E id \in ids : /\ tasks' = Append(tasks, <<"cancelInLoop", id>>)
                     /\ ids' = ids \ {id}
  /\ UNCHANGED <<clock, numCreated_, timer, queueVars, batchVars, cancelingTimers_,
                 adding, repeats, cancelled>>

\* The loop runs code of its user: in a timer's callback or anywhere outside
\* handleRead.
InUserCode == callingExpiredTimers_ => next > 1

AddTimerHere(a, kind) ==
  /\ InUserCode
  /\ New(a, kind)
  /\ AddTimerInLoop(timer', a)
  /\ ids' = ids \cup {<<a, numCreated_ + 1>>}
  /\ UNCHANGED <<clock, batchVars, cancelingTimers_, tasks, adding, cancelled>>

CancelHere ==
  /\ InUserCode
  /\ \E id \in ids : CancelInLoop(id) /\ ids' = ids \ {id}
  /\ UNCHANGED <<clock, numCreated_, batchVars, tasks, adding, repeats>>

-----------------------------------------------------------------------------
(* The loop *)

RunTask ==
  /\ ~callingExpiredTimers_
  /\ tasks # <<>>
  /\ tasks' = Tail(tasks)
  /\ LET id == Head(tasks)[2]
     IN  IF Head(tasks)[1] = "addTimerInLoop"
         THEN AddTimerInLoop(timer, id[1]) /\ UNCHANGED <<timer, cancelingTimers_, cancelled>>
         ELSE CancelInLoop(id)
  /\ UNCHANGED <<clock, numCreated_, batchVars, adding, ids, repeats>>

Expired == {entry \in timers_ : entry[1] <= clock}

\* Mutant: expired timers stay active.
GetExpiredMutant ==
  /\ timers_' = timers_ \ Expired
  /\ UNCHANGED activeTimers_

GetExpired ==
  /\ timers_' = timers_ \ Expired
  /\ activeTimers_' = activeTimers_ \ {TimerId(entry[2]) : entry \in Expired}

Earlier(e, f) == e[1] < f[1] \/ (e[1] = f[1] /\ e[2] < f[2])

\* The entries as a std::set keeps them: the one listing of them in that order
InOrder(entries) ==
  {s \in SetToSeqs(entries) : \A i, j \in DOMAIN s : i < j => Earlier(s[i], s[j])}

\* handleRead, up to the first callback
HandleRead ==
  /\ ~callingExpiredTimers_
  /\ timerfd # Off /\ timerfd <= clock
  /\ timerfd' = Off
  /\ now' = clock
  /\ GetExpired
  /\ expired' \in InOrder(Expired)
  /\ next' = 1
  /\ callingExpiredTimers_' = TRUE
  /\ cancelingTimers_' = {}
  /\ UNCHANGED <<clock, numCreated_, timer, tasks, adding, ids, runs, repeats, cancelled>>

RunTimer ==
  /\ callingExpiredTimers_
  /\ next <= Len(expired)
  /\ next' = next + 1
  /\ LET s == timer[expired[next][2]].sequence_
     IN  runs' = [runs EXCEPT ![s] = IF @ < 2 THEN @ + 1 ELSE @]
  /\ UNCHANGED <<clock, numCreated_, timer, queueVars, callingExpiredTimers_, expired,
                 now, cancelingTimers_, tasks, adding, ids, repeats, cancelled>>

\* The address of every timer in expired
Batch == {entry[2] : entry \in Range(expired)}

\* Mutant: reset starts timers that do not repeat again, if not cancelled.
RestartedMutant == {a \in Batch : TimerId(a) \notin cancelingTimers_}

Restarted == {a \in Batch : timer[a].interval_ > 0 /\ TimerId(a) \notin cancelingTimers_}

\* Timer::restart, or delete
AfterReset ==
  [a \in Addresses |->
     IF a \in Restarted
     THEN [timer[a] EXCEPT !.expiration_ = AddTime(now, timer[a].interval_),
                           !.due = now + timer[a].interval_]
     ELSE IF a \in Batch THEN Deleted(timer[a].sequence_) ELSE timer[a]]

\* The rest of handleRead: reset
EndHandleRead ==
  /\ callingExpiredTimers_
  /\ next > Len(expired)
  /\ timer' = AfterReset
  /\ timers_' = timers_ \cup {<<AfterReset[a].expiration_, a>> : a \in Restarted}
  /\ activeTimers_' = activeTimers_ \cup {TimerId(a) : a \in Restarted}
  /\ timerfd' = IF timers_' = {} THEN timerfd
                ELSE Deadline(Min({entry[1] : entry \in timers_'}))
  /\ callingExpiredTimers_' = FALSE
  /\ expired' = <<>> /\ next' = 1 /\ now' = 0
  /\ UNCHANGED <<clock, numCreated_, cancelingTimers_, tasks, adding, ids, runs, repeats,
                 cancelled>>

Tick ==
  /\ clock < MaxClock
  /\ clock' = clock + 1
  /\ UNCHANGED <<numCreated_, timer, queueVars, batchVars, cancelingTimers_, tasks,
                 adding, ids, repeats, cancelled>>

-----------------------------------------------------------------------------
Next ==
  \/ \E u \in Users : \/ \E a \in Addresses, kind \in Kinds : AddTimer(u, a, kind)
                      \/ AddTimerReturns(u) \/ Cancel(u)
  \/ \E a \in Addresses, kind \in Kinds : AddTimerHere(a, kind)
  \/ CancelHere
  \/ RunTask \/ HandleRead \/ RunTimer \/ EndHandleRead
  \/ Tick

Spec == Init /\ [][Next]_vars

\* Each turn of the loop handles events and then runs functors, so a turn whose
\* timerfd is ready does not keep functors waiting; and time passes.
FairSpec == Spec /\ SF_vars(RunTask) /\ WF_vars(HandleRead)
                 /\ WF_vars(RunTimer \/ EndHandleRead) /\ WF_vars(Tick)

-----------------------------------------------------------------------------
(* Properties *)

TimerIds == Addresses \X (1 .. MaxTimers)
Live == {a \in Addresses : timer[a].live}
Queued == {task[2][1] : task \in {t \in Range(tasks) : t[1] = "addTimerInLoop"}}

TypeOK ==
  /\ clock \in 1 .. MaxClock /\ now \in 0 .. MaxClock
  /\ numCreated_ \in 0 .. MaxTimers
  /\ timer \in [Addresses -> [live : BOOLEAN, sequence_ : 0 .. MaxTimers,
                              expiration_ : Nat, interval_ : Intervals \cup {0}, due : Nat]]
  /\ timers_ \subseteq Nat \X Addresses
  /\ activeTimers_ \subseteq TimerIds /\ cancelingTimers_ \subseteq TimerIds /\ ids \subseteq TimerIds
  /\ callingExpiredTimers_ \in BOOLEAN
  /\ expired \in Seq(Nat \X Addresses) /\ next \in 1 .. Len(expired) + 1
  /\ timerfd \in (1 .. MaxClock + Max(Delays \cup Intervals)) \cup {Off}
  /\ tasks \in Seq({"addTimerInLoop", "cancelInLoop"} \X TimerIds)
  /\ adding \in [Users -> Addresses \cup {None}]
  /\ runs \in [1 .. MaxTimers -> 0 .. 2]
  /\ repeats \cup cancelled \subseteq 1 .. MaxTimers

\* timers_ and activeTimers_ hold the same timers; a timer that has not been
\* deleted is in these, or about to run or be reset, or on its way to the loop,
\* and in one of these places only: so it is deleted once and used no more.
OwnedOnce ==
  /\ \A entry \in timers_ : entry[1] = timer[entry[2]].expiration_
  /\ activeTimers_ = {TimerId(entry[2]) : entry \in timers_}
  /\ LET waiting == {entry[2] : entry \in timers_}
     IN  /\ Live = waiting \cup Batch \cup Queued
         /\ waiting \cap Batch = {} /\ (waiting \cup Batch) \cap Queued = {}

Sequences == {timer[a].sequence_ : a \in Live}

\* A timer that does not repeat runs once, one that does until it is cancelled;
\* so nothing but its own cancellation, or having run, ends a timer.
RunsAsAsked ==
  \A s \in 1 .. numCreated_ :
    /\ s \notin repeats => runs[s] <= 1
    /\ s \notin Sequences => s \in cancelled \/ (s \notin repeats /\ runs[s] = 1)

\* A timer that is cancelled, even by its own callback or by that of another
\* timer that expired with it, is gone when handleRead returns.
CancelledIsGone ==
  \A a \in Live : timer[a].sequence_ \in cancelled => a \in Batch

\* While a timer waits the timerfd is set, and for no later than the first.
TimerfdArmed ==
  ~callingExpiredTimers_ /\ timers_ # {}
    => timerfd # Off /\ timerfd <= Deadline(Min({entry[1] : entry \in timers_}))

\* A timer comes to run, or to be cancelled, once the clock is past its
\* expiration.
Waits(s) ==
  \E a \in Live : timer[a].sequence_ = s /\ timer[a].expiration_ <= MaxClock

EveryTimerRuns == \A s \in 1 .. MaxTimers : Waits(s) ~> ~Waits(s)

\* What eventloop.h:66 says of runAfter's delay: it is in seconds.  No timer
\* is left waiting by a handleRead that begins after that time.
RunsWhenDue ==
  [][callingExpiredTimers_ /\ ~callingExpiredTimers_'
       => \A entry \in timers_' : now <= timer'[entry[2]].due]_vars
=============================================================================
