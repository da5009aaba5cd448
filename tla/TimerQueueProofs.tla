-------------------------- MODULE TimerQueueProofs --------------------------
(***************************************************************************)
(* For every set of addresses, users, delays and intervals: a Timer has    *)
(* one owner until it is deleted, is deleted only once it has run as asked *)
(* or was cancelled, does not survive its cancellation, and the timerfd    *)
(* is set for no later than the first timer.                               *)
(***************************************************************************)
EXTENDS TimerQueue, SequenceTheorems, FiniteSetTheorems, WellFoundedInduction, TLAPS

-----------------------------------------------------------------------------
(* Sequences *)

\* What a queue holds once e is pushed
LEMMA Pushed ==
  ASSUME NEW S, NEW s \in Seq(S), NEW e \in S
  PROVE  /\ Append(s, e) \in Seq(S)
         /\ DOMAIN Append(s, e) = DOMAIN s \cup {Len(s) + 1} /\ Len(s) + 1 \notin DOMAIN s
         /\ \A i \in DOMAIN s : Append(s, e)[i] = s[i]
         /\ Append(s, e)[Len(s) + 1] = e
<1>1. DOMAIN s = 1 .. Len(s) /\ Len(s) \in Nat
  BY LenProperties
<1>2. DOMAIN Append(s, e) = 1 .. Len(s) + 1
  BY AppendProperties, LenProperties
<1> QED BY <1>1, <1>2, AppendProperties

\* and once its head is popped
LEMMA Popped ==
  ASSUME NEW S, NEW s \in Seq(S), s # <<>>
  PROVE  /\ Tail(s) \in Seq(S)
         /\ 1 \in DOMAIN s /\ s[1] = Head(s) /\ Head(s) \in S
         /\ \A i \in DOMAIN Tail(s) : i + 1 \in DOMAIN s /\ i + 1 # 1 /\ Tail(s)[i] = s[i + 1]
         /\ \A j \in DOMAIN s : j = 1 \/ (j - 1 \in DOMAIN Tail(s) /\ Tail(s)[j - 1] = s[j])
<1>1. /\ DOMAIN s = 1 .. Len(s) /\ Len(s) \in Nat \ {0}
      /\ Tail(s) \in Seq(S) /\ Len(Tail(s)) = Len(s) - 1
      /\ \A i \in 1 .. Len(Tail(s)) : Tail(s)[i] = s[i + 1]
  BY LenProperties, EmptySeq, HeadTailProperties
<1>2. DOMAIN Tail(s) = 1 .. Len(s) - 1
  BY <1>1, LenProperties
<1>3. s[1] = Head(s) /\ Head(s) \in S
  BY <1>1, HeadTailProperties
<1> QED BY <1>1, <1>2, <1>3
-----------------------------------------------------------------------------
(* The inductive invariant *)

Timers == [live : BOOLEAN, sequence_ : Nat, expiration_ : Nat, interval_ : Nat, due : Nat]
Ids == Addresses \X Nat

TypeInv ==
  /\ clock \in Nat /\ now \in Nat /\ timerfd \in Int
  /\ numCreated_ \in 0 .. MaxTimers
  /\ timer \in [Addresses -> Timers]
  /\ timers_ \subseteq Nat \X Addresses
  /\ cancelingTimers_ \subseteq Ids /\ ids \subseteq Ids
  /\ callingExpiredTimers_ \in BOOLEAN
  /\ expired \in Seq(Nat \X Addresses) /\ next \in Nat \ {0}
  /\ tasks \in Seq({"addTimerInLoop", "cancelInLoop"} \X Ids)
  /\ adding \in [Users -> Addresses \cup {None}]
  /\ runs \in [1 .. MaxTimers -> Nat]

\* A sequence number is given once, to one address, which keeps it until the next
\* Timer is there; so an id that is around never names the Timer of another address.
Known == cancelingTimers_ \cup ids \cup {tasks[k][2] : k \in DOMAIN tasks}

SequenceInv ==
  /\ \A a \in Addresses : timer[a].sequence_ <= numCreated_
  /\ \A a \in Addresses : timer[a].live => timer[a].sequence_ > 0
  /\ \A a, b \in Addresses :
       timer[a].sequence_ = timer[b].sequence_ /\ timer[a].sequence_ > 0 => a = b
  /\ \A id \in Known :
       /\ id[2] > 0 /\ id[2] <= numCreated_
       /\ \A a \in Addresses : timer[a].sequence_ = id[2] => a = id[1]
  /\ \A u \in Users : adding[u] # None => timer[adding[u]].sequence_ > 0

\* The functors that add a timer are one for each, and name it as it is.
TaskInv ==
  /\ \A k \in DOMAIN tasks :
       tasks[k][1] = "addTimerInLoop" => tasks[k][2][2] = timer[tasks[k][2][1]].sequence_
  /\ \A j, k \in DOMAIN tasks :
       tasks[j][1] = "addTimerInLoop" /\ tasks[k] = tasks[j] => j = k

\* The batch is that of the handleRead that runs, and holds a timer once.
BatchInv ==
  /\ ~callingExpiredTimers_ => expired = <<>>
  /\ \A i, j \in DOMAIN expired : expired[i][2] = expired[j][2] => i = j

\* A timer that does not repeat has run if handleRead is past it, and else has not.
RanInv ==
  /\ \A a \in Live : timer[a].interval_ > 0 <=> timer[a].sequence_ \in repeats
  /\ \A s \in 1 .. MaxTimers : s > numCreated_ => runs[s] = 0 /\ s \notin repeats \cup cancelled
  /\ \A a \in Live \ Batch : timer[a].interval_ = 0 => runs[timer[a].sequence_] = 0
  /\ \A i \in DOMAIN expired :
       timer[expired[i][2]].interval_ = 0
         => runs[timer[expired[i][2]].sequence_] = (IF i < next THEN 1 ELSE 0)

\* While the batch runs: which of its timers are cancelled is remembered, and what is
\* remembered was cancelled or has yet to be added.
CancelInv ==
  callingExpiredTimers_ =>
    /\ \A a \in Batch : timer[a].sequence_ \in cancelled => TimerId(a) \in cancelingTimers_
    /\ \A id \in cancelingTimers_ :
         id[2] \in cancelled \/ <<"addTimerInLoop", id>> \in Range(tasks)

\* While handleRead does not run, the timerfd is set for no later than any timer.
ArmedInv ==
  ~callingExpiredTimers_ =>
    \A entry \in timers_ : timerfd # Off /\ timerfd <= Deadline(entry[1])

IInv ==
  /\ TypeInv /\ SequenceInv /\ TaskInv /\ BatchInv /\ OwnedOnce
  /\ RanInv /\ RunsAsAsked /\ CancelInv /\ CancelledIsGone /\ ArmedInv

-----------------------------------------------------------------------------
(* Lemmas about sequences, sets and Deadline *)

\* A finite set of numbers has a smallest one: of its subsets without one, take one
\* that has no smaller, and take a number away.
LEMMA MinIsLeast ==
  ASSUME NEW S \in SUBSET Nat, IsFiniteSet(S), S # {}
  PROVE  Min(S) \in S /\ \A y \in S : Min(S) <= y
<1> DEFINE Bad == {T \in SUBSET S : T # {} /\ ~ \E x \in T : \A y \in T : x <= y}
<1>1. ASSUME Bad # {} PROVE FALSE
  <2>1. Bad \subseteq FiniteSubsetsOf(S)
    BY FS_FiniteSubsetsOfFinite
  <2>2. PICK T \in Bad : \A U \in Bad : ~ (<<U, T>> \in StrictSubsetOrdering(S))
    <3> HIDE DEF Bad
    <3> QED BY <1>1, <2>1, FS_StrictSubsetOrderingWellFounded, WFMin
  <2>3. PICK x \in T : TRUE
    OBVIOUS
  <2>4. T \ {x} \notin Bad
    BY <2>2, <2>3 DEF StrictSubsetOrdering
  <2>5. CASE T \ {x} = {}
    BY <2>3, <2>5
  <2>6. CASE T \ {x} # {}
    <3>1. PICK m \in T \ {x} : \A y \in T \ {x} : m <= y
      BY <2>4, <2>6
    <3>2. x <= m \/ m <= x
      BY <2>3, <3>1
    <3> QED BY <2>3, <3>1, <3>2
  <2> QED BY <2>5, <2>6
<1>2. \E x \in S : \A y \in S : x <= y
  BY <1>1
<1>3. \A x, y \in S : y >= x <=> x <= y
  OBVIOUS
<1> QED BY <1>2, <1>3 DEF Min

\* Division by the same number keeps order, and is late by one for a number less one.
LEMMA DivOrder ==
  ASSUME NEW k \in Nat \ {0}, NEW x \in Nat, NEW y \in Nat
  PROVE  /\ x \div k \in Nat
         /\ x <= y => x \div k <= y \div k
         /\ x <= y + 1 => x \div k <= y \div k + 1
<1> DEFINE p == x \div k
           q == y \div k
<1>1. /\ p \in Nat /\ k * p <= x /\ x < k * p + k
      /\ q \in Nat /\ k * q <= y /\ y < k * q + k
  OBVIOUS
<1>2. \A i, j \in Nat : i < j => k * i + k <= k * j
  <2> TAKE i, j \in Nat
  <2> HAVE i < j
  <2>1. k * (j - i - 1) >= 0 /\ k * (j - i - 1) = k * j - k * i - k
    OBVIOUS
  <2>2. k * i \in Int /\ k * j \in Int
    OBVIOUS
  <2> QED BY <2>1, <2>2
<1> HIDE DEF p, q
<1>3. k * p \in Nat /\ k * q \in Nat /\ k * (q + 1) = k * q + k
  BY <1>1
<1>4. p > q => k * q + k <= k * p
  BY <1>1, <1>2
<1>5. p > q + 1 => k * q + k + k <= k * p
  BY <1>1, <1>2, <1>3
<1>6. (x <= y => p <= q) /\ (x <= y + 1 => p <= q + 1)
  BY <1>1, <1>3, <1>4, <1>5
<1> QED BY <1>1, <1>6 DEF p, q

\* Deadline is a time that has not passed, later for what is later, and moves no
\* earlier as time passes.
LEMMA DeadlineOrder ==
  ASSUME clock \in Nat, NEW e \in Nat, NEW f \in Nat, e <= f
  PROVE  /\ Deadline(e) \in Nat /\ Deadline(e) >= clock
         /\ Deadline(e) <= Deadline(f)
         /\ clock' = clock + 1 => Deadline(e) <= Deadline(e)'
<1> DEFINE k == kMicroSecondsPerSecond
<1>1. k \in Nat \ {0}
  BY UnitAssumption
<1> HIDE DEF k
<1>2. e >= clock => e - clock \in Nat /\ (e - clock) \div k \in Nat
  BY <1>1, DivOrder
<1>3. f >= clock => f - clock \in Nat /\ (f - clock) \div k \in Nat
  BY <1>1, DivOrder
<1>4. e >= clock => (e - clock) \div k <= (f - clock) \div k
  <2> SUFFICES ASSUME e >= clock PROVE (e - clock) \div k <= (f - clock) \div k
    OBVIOUS
  <2>1. e - clock \in Nat /\ f - clock \in Nat /\ e - clock <= f - clock
    OBVIOUS
  <2> QED BY <1>1, <2>1, DivOrder
<1>5. e >= clock + 1 => /\ (e - (clock + 1)) \div k \in Nat
                        /\ (e - clock) \div k <= (e - (clock + 1)) \div k + 1
  <2> SUFFICES ASSUME e >= clock + 1
               PROVE  /\ (e - (clock + 1)) \div k \in Nat
                      /\ (e - clock) \div k <= (e - (clock + 1)) \div k + 1
    OBVIOUS
  <2>1. e - clock \in Nat /\ e - (clock + 1) \in Nat /\ e - clock <= (e - (clock + 1)) + 1
    OBVIOUS
  <2> QED BY <1>1, <2>1, DivOrder
<1>6. e = clock => (e - clock) \div k = 0
  <2> SUFFICES ASSUME e = clock PROVE (e - clock) \div k = 0
    OBVIOUS
  <2>1. 0 \div k = 0
    BY <1>1
  <2> QED BY <2>1
<1>7. Deadline(e) \in Nat /\ Deadline(e) >= clock /\ Deadline(e) <= Deadline(f)
  BY <1>2, <1>3, <1>4 DEF Deadline, k
<1>8. ASSUME clock' = clock + 1 PROVE Deadline(e) <= Deadline(e)'
  <2>1. CASE e < clock
    BY <1>8, <2>1 DEF Deadline
  <2>2. CASE e = clock
    BY <1>8, <1>6, <2>2 DEF Deadline, k
  <2>3. CASE e >= clock + 1
    BY <1>2, <1>5, <1>8, <2>3 DEF Deadline, k
  <2> QED BY <2>1, <2>2, <2>3
<1> QED BY <1>7, <1>8

-----------------------------------------------------------------------------
(* Where a Timer is *)

Waiting == {entry[2] : entry \in timers_}

\* The three places, by the positions in the batch and in the queue
LEMMA Places ==
  ASSUME TypeInv
  PROVE  /\ Waiting \subseteq Addresses /\ Batch \subseteq Addresses /\ Queued \subseteq Addresses
         /\ \A a : a \in Batch <=> \E i \in DOMAIN expired : expired[i][2] = a
         /\ \A a : a \in Queued <=>
              \E k \in DOMAIN tasks : tasks[k][1] = "addTimerInLoop" /\ tasks[k][2][1] = a
         /\ \A i \in DOMAIN expired : expired[i] \in Nat \X Addresses
         /\ \A k \in DOMAIN tasks : tasks[k] \in {"addTimerInLoop", "cancelInLoop"} \X Ids
<1>1. /\ \A i \in DOMAIN expired : expired[i] \in Nat \X Addresses
      /\ \A k \in DOMAIN tasks : tasks[k] \in {"addTimerInLoop", "cancelInLoop"} \X Ids
  BY LenProperties, ElementOfSeq DEF TypeInv
<1>2. Waiting \subseteq Addresses
  BY DEF TypeInv, Waiting
<1>3. \A a : a \in Batch <=> \E i \in DOMAIN expired : expired[i][2] = a
  BY DEF Batch, Range
<1>4. \A a : a \in Queued <=>
        \E k \in DOMAIN tasks : tasks[k][1] = "addTimerInLoop" /\ tasks[k][2][1] = a
  BY DEF Queued, Range
<1> QED BY <1>1, <1>2, <1>3, <1>4 DEF Ids

\* OwnedOnce, place by place
LEMMA OwnedMeans ==
  OwnedOnce <=>
    /\ \A entry \in timers_ : entry[1] = timer[entry[2]].expiration_
    /\ activeTimers_ = {TimerId(a) : a \in Waiting}
    /\ Live = Waiting \cup Batch \cup Queued
    /\ Waiting \cap Batch = {} /\ (Waiting \cup Batch) \cap Queued = {}
BY DEF OwnedOnce, Waiting

\* The same of the state after a step
LEMMA PlacesNext ==
  /\ \A a : a \in Batch' <=> \E i \in DOMAIN expired' : expired'[i][2] = a
  /\ \A a : a \in Queued' <=>
       \E k \in DOMAIN tasks' : tasks'[k][1] = "addTimerInLoop" /\ tasks'[k][2][1] = a
BY DEF Batch, Queued, Range

LEMMA OwnedNext ==
  ASSUME \A entry \in timers_' : entry[1] = timer'[entry[2]].expiration_,
         activeTimers_' = {<<a, timer'[a].sequence_>> : a \in Waiting'},
         Live' = Waiting' \cup Batch' \cup Queued',
         Waiting' \cap Batch' = {}, (Waiting' \cup Batch') \cap Queued' = {}
  PROVE  OwnedOnce'
BY DEF OwnedOnce, Waiting, TimerId

\* The timer of an entry that is added waits.
LEMMA WaitingAdds ==
  ASSUME NEW e, NEW a, timers_' = timers_ \cup {<<e, a>>}
  PROVE  Waiting' = Waiting \cup {a}
<1>1. Waiting' = {entry[2] : entry \in timers_'}
  BY DEF Waiting
<1>2. <<e, a>>[2] = a
  OBVIOUS
<1> QED BY <1>1, <1>2, Zenon DEF Waiting

\* The entry of a timer that waits
LEMMA EntryOf ==
  ASSUME TypeInv, OwnedOnce, NEW a \in Waiting
  PROVE  <<timer[a].expiration_, a>> \in timers_
<1>1. PICK entry \in timers_ : entry[2] = a
  BY DEF Waiting
<1>2. entry = <<entry[1], entry[2]>>
  BY DEF TypeInv
<1> QED BY <1>1, <1>2 DEF OwnedOnce

-----------------------------------------------------------------------------
(* A new Timer *)

LEMMA NewTimer ==
  ASSUME IInv, NEW a \in Addresses, NEW kind \in Kinds, New(a, kind)
  PROVE  /\ numCreated_ + 1 \in 1 .. MaxTimers
         /\ kind[1] \in Nat /\ kind[2] \in Nat
         /\ timer' \in [Addresses -> Timers]
         /\ timer'[a].live /\ timer'[a].sequence_ = numCreated_ + 1
         /\ timer'[a].interval_ = kind[2]
         /\ \A b \in Addresses \ {a} : timer'[b] = timer[b]
         /\ Live' = Live \cup {a} /\ a \notin Live
         /\ a \notin Waiting \cup Batch \cup Queued
<1> DEFINE t == [live |-> TRUE, sequence_ |-> numCreated_ + 1,
                 expiration_ |-> AddTime(clock, kind[1]), interval_ |-> kind[2],
                 due |-> clock + kind[1]]
<1>1. kind[1] \in Nat /\ kind[2] \in Nat
  <2>1. CASE kind \in Delays \X {0}
    <3>1. PICK d \in Delays : kind = <<d, 0>>
      BY <2>1
    <3> QED BY <3>1, DelayAssumption
  <2>2. CASE kind \in {<<i, i>> : i \in Intervals}
    BY <2>2, DelayAssumption
  <2> QED BY <2>1, <2>2 DEF Kinds
<1>2. AddTime(clock, kind[1]) \in Nat
  <2>1. kind[1] * kMicroSecondsPerSecond \in Nat
    BY <1>1, UnitAssumption
  <2> QED BY <2>1 DEF AddTime, IInv, TypeInv
<1>3. numCreated_ + 1 \in 1 .. MaxTimers
  BY BoundAssumption DEF New, IInv, TypeInv
<1>4. t \in Timers
  BY <1>1, <1>2, <1>3 DEF Timers, IInv, TypeInv
<1>5. timer' = [timer EXCEPT ![a] = t]
  BY DEF New
<1> HIDE DEF t
<1>6. timer' \in [Addresses -> Timers] /\ timer'[a] = t
      /\ \A b \in Addresses \ {a} : timer'[b] = timer[b]
  BY <1>4, <1>5 DEF IInv, TypeInv
<1>7. t.live /\ t.sequence_ = numCreated_ + 1 /\ t.interval_ = kind[2]
  BY DEF t
<1>8. Live' = Live \cup {a} /\ a \notin Live
  BY <1>6, <1>7 DEF Live, New
<1>9. a \notin Waiting \cup Batch \cup Queued
  BY <1>8, OwnedMeans DEF IInv
<1> QED BY <1>1, <1>3, <1>6, <1>7, <1>8, <1>9

\* What a new Timer does to the parts of the invariant that do not depend on where
\* it is put.
LEMMA NewKeeps ==
  ASSUME IInv, NEW a \in Addresses, NEW kind \in Kinds, New(a, kind),
         UNCHANGED <<expired, next, runs, cancelled, cancelingTimers_, callingExpiredTimers_>>
  PROVE  /\ \A b, c \in Addresses :
              timer'[b].sequence_ = timer'[c].sequence_ /\ timer'[b].sequence_ > 0 => b = c
         /\ \A b \in Addresses : timer'[b].sequence_ <= numCreated_'
         /\ \A b \in Addresses : timer'[b].live => timer'[b].sequence_ > 0
         /\ \A id \in Known : /\ id[2] > 0 /\ id[2] <= numCreated_'
                              /\ \A b \in Addresses : timer'[b].sequence_ = id[2] => b = id[1]
         /\ \A b \in Addresses : timer[b].sequence_ > 0 => timer'[b].sequence_ > 0
         /\ BatchInv' /\ RanInv' /\ RunsAsAsked' /\ CancelledIsGone'
<1> USE NewTimer DEF IInv
<1>1. /\ \A b \in Addresses : timer[b].sequence_ \in Nat
      /\ \A b \in Addresses : timer'[b].sequence_ \in Nat
      /\ numCreated_ \in Nat /\ numCreated_' = numCreated_ + 1
      /\ timer'[a].sequence_ = numCreated_ + 1
      /\ \A b \in Addresses : b # a => timer'[b] = timer[b]
  <2>1. /\ \A b \in Addresses : timer[b].sequence_ \in Nat
        /\ \A b \in Addresses : timer'[b].sequence_ \in Nat
    BY DEF TypeInv, Timers
  <2>2. numCreated_ \in Nat /\ numCreated_' = numCreated_ + 1
    BY DEF TypeInv, New
  <2> QED BY <2>1, <2>2
<1>2. /\ \A b, c \in Addresses :
           timer'[b].sequence_ = timer'[c].sequence_ /\ timer'[b].sequence_ > 0 => b = c
      /\ \A b \in Addresses : timer'[b].sequence_ <= numCreated_'
      /\ \A b \in Addresses : timer'[b].live => timer'[b].sequence_ > 0
      /\ \A b \in Addresses : timer[b].sequence_ > 0 => timer'[b].sequence_ > 0
  BY <1>1 DEF SequenceInv
<1>3. \A id \in Known : /\ id[2] > 0 /\ id[2] <= numCreated_'
                        /\ \A b \in Addresses : timer'[b].sequence_ = id[2] => b = id[1]
  <2> TAKE id \in Known
  <2>1. id[2] \in Nat
    BY Places DEF Known, TypeInv, Ids
  <2> QED BY <1>1, <2>1 DEF SequenceInv
<1>4. BatchInv'
  BY DEF BatchInv
<1>5. Batch' = Batch /\ Batch \subseteq Addresses /\ a \notin Batch
  BY Places DEF Batch
<1>6. RanInv'
  <2>1. \A b \in Live' : timer'[b].interval_ > 0 <=> timer'[b].sequence_ \in repeats'
    <3> TAKE b \in Live'
    <3>1. CASE b = a
      <4>1. numCreated_ + 1 \notin repeats
        BY <1>1 DEF RanInv
      <4> QED BY <1>1, <3>1, <4>1 DEF New
    <3>2. CASE b # a
      <4>1. b \in Live /\ timer'[b] = timer[b] /\ timer[b].sequence_ # numCreated_ + 1
        BY <1>1, <3>2 DEF SequenceInv, Live
      <4> QED BY <4>1 DEF RanInv, New
    <3> QED BY <3>1, <3>2
  <2>2. \A s \in 1 .. MaxTimers :
          s > numCreated_' => runs'[s] = 0 /\ s \notin repeats' \cup cancelled'
    BY <1>1 DEF RanInv, New
  <2>3. \A b \in Live' \ Batch' : timer'[b].interval_ = 0 => runs'[timer'[b].sequence_] = 0
    <3> TAKE b \in Live' \ Batch'
    <3>1. CASE b = a
      BY <1>1, <3>1 DEF RanInv
    <3>2. CASE b # a
      BY <1>1, <1>5, <3>2 DEF RanInv, Live
    <3> QED BY <3>1, <3>2
  <2>4. \A i \in DOMAIN expired' :
          timer'[expired'[i][2]].interval_ = 0
            => runs'[timer'[expired'[i][2]].sequence_] = (IF i < next' THEN 1 ELSE 0)
    <3> TAKE i \in DOMAIN expired'
    <3>1. expired[i][2] # a /\ expired[i][2] \in Addresses
      BY <1>5, Places
    <3> QED BY <1>1, <3>1 DEF RanInv
  <2> QED BY <2>1, <2>2, <2>3, <2>4 DEF RanInv
<1>7. \A s \in 1 .. numCreated_ :
        /\ s \in repeats' <=> s \in repeats
        /\ s \notin Sequences' => s \notin Sequences
  <2> TAKE s \in 1 .. numCreated_
  <2>1. s \in repeats' <=> s \in repeats
    BY <1>1 DEF New
  <2>2. ASSUME s \in Sequences PROVE s \in Sequences'
    <3>1. PICK b \in Live : timer[b].sequence_ = s
      BY <2>2 DEF Sequences
    <3>2. b # a /\ b \in Live' /\ b \in Addresses
      BY DEF Live
    <3> QED BY <1>1, <3>1, <3>2 DEF Sequences
  <2> QED BY <2>1, <2>2
<1>8. RunsAsAsked'
  <2> SUFFICES ASSUME NEW s \in 1 .. numCreated_ + 1
               PROVE  /\ s \notin repeats' => runs'[s] <= 1
                      /\ s \notin Sequences' =>
                           s \in cancelled' \/ (s \notin repeats' /\ runs'[s] = 1)
    BY <1>1 DEF RunsAsAsked
  <2>1. CASE s = numCreated_ + 1
    <3>1. s \in Sequences'
      BY <1>1, <2>1 DEF Sequences
    <3>2. runs[s] = 0
      BY <1>1, <2>1 DEF RanInv
    <3> QED BY <3>1, <3>2
  <2>2. CASE s \in 1 .. numCreated_
    BY <1>7, <2>2 DEF RunsAsAsked
  <2> QED BY <1>1, <2>1, <2>2
<1>9. CancelledIsGone'
  <2> SUFFICES ASSUME NEW b \in Live', timer'[b].sequence_ \in cancelled
               PROVE  b \in Batch
    BY <1>5 DEF CancelledIsGone
  <2>1. b # a
    BY <1>1 DEF RanInv
  <2> QED BY <1>1, <2>1 DEF CancelledIsGone, Live
<1> QED BY <1>2, <1>3, <1>4, <1>6, <1>8, <1>9

\* The new Timer's id is the only one that is new.
LEMMA NewSequence ==
  ASSUME IInv, NEW a \in Addresses, NEW kind \in Kinds, New(a, kind),
         UNCHANGED <<expired, next, runs, cancelled, cancelingTimers_, callingExpiredTimers_>>,
         Known' \subseteq Known \cup {<<a, numCreated_ + 1>>},
         \A u \in Users : adding'[u] \in {adding[u], a}
  PROVE  SequenceInv'
<1>1. \A u \in Users : adding'[u] # None => timer'[adding'[u]].sequence_ > 0
  <2> SUFFICES ASSUME NEW u \in Users, adding'[u] # None
               PROVE  timer'[adding'[u]].sequence_ > 0
    OBVIOUS
  <2>1. CASE adding'[u] = a
    <3>1. timer'[a].sequence_ = numCreated_ + 1 /\ numCreated_ \in Nat
      BY NewTimer DEF IInv, TypeInv
    <3> QED BY <2>1, <3>1
  <2>2. CASE adding'[u] = adding[u]
    <3>1. adding[u] \in Addresses /\ timer[adding[u]].sequence_ > 0
      BY <2>2 DEF IInv, TypeInv, SequenceInv
    <3> QED BY <2>2, <3>1, NewKeeps
  <2> QED BY <2>1, <2>2
<1>2. \A id \in Known' : /\ id[2] > 0 /\ id[2] <= numCreated_'
                         /\ \A b \in Addresses : timer'[b].sequence_ = id[2] => b = id[1]
  <2> TAKE id \in Known'
  <2>1. CASE id \in Known
    BY <2>1, NewKeeps
  <2>2. CASE id = <<a, numCreated_ + 1>>
    <3>1. /\ id[1] = a /\ id[2] = numCreated_ + 1 /\ numCreated_' = numCreated_ + 1
          /\ numCreated_ \in Nat /\ timer'[a].sequence_ = numCreated_ + 1
      BY <2>2, NewTimer DEF New, IInv, TypeInv
    <3>2. \A b \in Addresses : timer'[b].sequence_ = numCreated_ + 1 => b = a
      BY <3>1, NewKeeps
    <3> QED BY <3>1, <3>2
  <2> QED BY <2>1, <2>2
<1>3. /\ \A b, c \in Addresses :
            timer'[b].sequence_ = timer'[c].sequence_ /\ timer'[b].sequence_ > 0 => b = c
      /\ \A b \in Addresses : timer'[b].sequence_ <= numCreated_'
      /\ \A b \in Addresses : timer'[b].live => timer'[b].sequence_ > 0
  BY NewKeeps
<1> HIDE DEF Known
<1> QED BY <1>1, <1>2, <1>3 DEF SequenceInv

LEMMA AddTimerKeeps ==
  ASSUME IInv, NEW u \in Users, NEW a \in Addresses, NEW kind \in Kinds, AddTimer(u, a, kind)
  PROVE  IInv'
<1> DEFINE id == <<a, numCreated_ + 1>>
           task == <<"addTimerInLoop", id>>
<1> USE DEF IInv
<1>1. /\ New(a, kind)
      /\ tasks' = Append(tasks, task)
      /\ adding' = [adding EXCEPT ![u] = a]
      /\ UNCHANGED <<clock, timers_, activeTimers_, timerfd, callingExpiredTimers_, expired,
                     next, now, runs, cancelingTimers_, ids, cancelled>>
  BY DEF AddTimer, queueVars, batchVars
<1>2. numCreated_ + 1 \in 1 .. MaxTimers /\ numCreated_' = numCreated_ + 1 /\ numCreated_ \in Nat
  <2>1. numCreated_' = numCreated_ + 1 /\ numCreated_ \in Nat
    BY <1>1 DEF New, TypeInv
  <2> QED BY <1>1, <2>1, NewTimer
<1>3. tasks \in Seq({"addTimerInLoop", "cancelInLoop"} \X Ids)
      /\ task \in {"addTimerInLoop", "cancelInLoop"} \X Ids
  BY <1>2 DEF TypeInv, Ids
<1>4. /\ tasks' \in Seq({"addTimerInLoop", "cancelInLoop"} \X Ids)
      /\ DOMAIN tasks' = DOMAIN tasks \cup {Len(tasks) + 1} /\ Len(tasks) + 1 \notin DOMAIN tasks
      /\ \A k \in DOMAIN tasks : tasks'[k] = tasks[k]
      /\ tasks'[Len(tasks) + 1] = task
  BY <1>1, <1>3, Pushed
<1>5. TypeInv'
  <2>1. timer' \in [Addresses -> Timers] /\ numCreated_' \in 0 .. MaxTimers
    BY <1>1, <1>2, NewTimer
  <2> QED BY <1>1, <1>4, <2>1 DEF TypeInv
<1>6. SequenceInv'
  <2>1. Known' \subseteq Known \cup {id}
    BY <1>1, <1>4 DEF Known
  <2>2. \A v \in Users : adding'[v] \in {adding[v], a}
    BY <1>1 DEF TypeInv
  <2> QED BY <1>1, <2>1, <2>2, NewSequence
<1>7. \A k \in DOMAIN tasks :
        /\ tasks[k][2][1] \in Addresses
        /\ tasks[k][1] = "addTimerInLoop" =>
             tasks[k][2][1] # a /\ timer'[tasks[k][2][1]] = timer[tasks[k][2][1]]
  <2> TAKE k \in DOMAIN tasks
  <2>1. tasks[k][2][1] \in Addresses
    BY Places DEF Ids
  <2>2. ASSUME tasks[k][1] = "addTimerInLoop" PROVE tasks[k][2][1] # a
    BY <1>1, <2>2, Places, NewTimer
  <2> QED BY <1>1, <2>1, <2>2, NewTimer
<1>8. TaskInv'
  <2>1. \A k \in DOMAIN tasks' :
          tasks'[k][1] = "addTimerInLoop" => tasks'[k][2][2] = timer'[tasks'[k][2][1]].sequence_
    <3>1. timer'[a].sequence_ = numCreated_ + 1
      BY <1>1, NewTimer
    <3> QED BY <1>4, <1>7, <3>1 DEF TaskInv
  <2>2. \A j, k \in DOMAIN tasks' :
          tasks'[j][1] = "addTimerInLoop" /\ tasks'[k] = tasks'[j] => j = k
    BY <1>4, <1>7 DEF TaskInv
  <2> QED BY <2>1, <2>2 DEF TaskInv
<1>9. OwnedOnce'
  <2>1. Waiting' = Waiting /\ Batch' = Batch
    BY <1>1 DEF Waiting, Batch
  <2>2. Queued' = Queued \cup {a}
    <3>1. \A b : b \in Queued' <=> b \in Queued \/ b = a
      BY <1>4, Places, PlacesNext
    <3> QED BY <3>1
  <2>3. /\ Live' = Live \cup {a} /\ a \notin Waiting \cup Batch \cup Queued
        /\ \A b \in Addresses \ {a} : timer'[b] = timer[b]
    BY <1>1, NewTimer
  <2>4. \A entry \in timers_' : entry[1] = timer'[entry[2]].expiration_
    BY <1>1, <2>3, OwnedMeans, Places DEF Waiting
  <2>5. activeTimers_' = {<<b, timer'[b].sequence_>> : b \in Waiting'}
    BY <1>1, <2>1, <2>3, OwnedMeans, Places DEF TimerId
  <2>6. /\ Live = Waiting \cup Batch \cup Queued
        /\ Waiting \cap Batch = {} /\ (Waiting \cup Batch) \cap Queued = {}
    BY OwnedMeans
  <2> QED BY <2>1, <2>2, <2>3, <2>4, <2>5, <2>6, OwnedNext
<1>10. CancelInv'
  <2>1. Range(tasks) \subseteq Range(tasks')
    BY <1>4 DEF Range
  <2>2. Batch' = Batch
    BY <1>1 DEF Batch
  <2>3. \A b \in Batch : timer'[b] = timer[b]
    BY <1>1, NewTimer, Places
  <2> QED BY <1>1, <2>1, <2>2, <2>3 DEF CancelInv, TimerId
<1>11. ArmedInv'
  BY <1>1 DEF ArmedInv, Deadline
<1>12. BatchInv' /\ RanInv' /\ RunsAsAsked' /\ CancelledIsGone'
  BY <1>1, NewKeeps
<1> QED BY <1>5, <1>6, <1>8, <1>9, <1>10, <1>11, <1>12

\* addTimerInLoop sets the timerfd for the new timer if that is the first, and else
\* it is set for one that is no later.
LEMMA AddInLoopArms ==
  ASSUME IInv, NEW timers, NEW a, AddTimerInLoop(timers, a), timers[a].expiration_ \in Nat,
         UNCHANGED <<clock, callingExpiredTimers_>>
  PROVE  ArmedInv'
<1> DEFINE when == timers[a].expiration_
<1> SUFFICES ASSUME ~callingExpiredTimers_, NEW entry \in timers_'
             PROVE  timerfd' # Off /\ timerfd' <= Deadline(entry[1])
  BY DEF ArmedInv, Deadline
<1>1. clock \in Nat /\ timerfd \in Int /\ \A e \in timers_ : e[1] \in Nat
  BY DEF IInv, TypeInv
<1>2. /\ timers_' = timers_ \cup {<<when, a>>}
      /\ timerfd' = IF EarliestChanged(when) THEN Deadline(when) ELSE timerfd
  BY DEF AddTimerInLoop
<1>3. \A e \in timers_ : timerfd # Off /\ timerfd <= Deadline(e[1])
  BY DEF IInv, ArmedInv
<1> HIDE DEF when
<1>4. when \in Nat /\ Deadline(when) \in Nat
  BY <1>1, DeadlineOrder DEF when
<1>5. entry = <<when, a>> \/ entry \in timers_
  BY <1>2
<1>6. CASE EarliestChanged(when)
  <2>1. when <= entry[1] /\ entry[1] \in Nat
    BY <1>1, <1>4, <1>5, <1>6 DEF EarliestChanged
  <2>2. Deadline(when) <= Deadline(entry[1])
    BY <1>1, <1>4, <2>1, DeadlineOrder
  <2> QED BY <1>2, <1>4, <1>6, <2>2 DEF Off
<1>7. CASE ~EarliestChanged(when)
  <2>1. PICK first \in timers_ : first[1] <= when
    BY <1>1, <1>4, <1>7 DEF EarliestChanged
  <2>2. Deadline(first[1]) <= Deadline(when) /\ Deadline(first[1]) \in Nat
    BY <1>1, <1>4, <2>1, DeadlineOrder
  <2>3. timerfd # Off /\ timerfd <= Deadline(when)
    BY <1>1, <1>3, <1>4, <2>1, <2>2
  <2> QED BY <1>2, <1>3, <1>5, <1>7, <2>3
<1> QED BY <1>6, <1>7

LEMMA AddTimerHereKeeps ==
  ASSUME IInv, NEW a \in Addresses, NEW kind \in Kinds, AddTimerHere(a, kind)
  PROVE  IInv'
<1> DEFINE id == <<a, numCreated_ + 1>>
<1> USE DEF IInv
<1>1. /\ New(a, kind)
      /\ AddTimerInLoop(timer', a)
      /\ ids' = ids \cup {id}
      /\ UNCHANGED <<clock, callingExpiredTimers_, expired, next, now, runs,
                     cancelingTimers_, tasks, adding, cancelled>>
  BY DEF AddTimerHere, batchVars
<1>2. /\ numCreated_ + 1 \in 1 .. MaxTimers /\ numCreated_' = numCreated_ + 1
      /\ numCreated_ \in Nat
      /\ timer' \in [Addresses -> Timers] /\ timer'[a].sequence_ = numCreated_ + 1
      /\ timer'[a].expiration_ \in Nat
      /\ \A b \in Addresses \ {a} : timer'[b] = timer[b]
      /\ Live' = Live \cup {a} /\ a \notin Waiting \cup Batch \cup Queued
  <2>1. numCreated_' = numCreated_ + 1 /\ numCreated_ \in Nat
    BY <1>1 DEF New, TypeInv
  <2>2. timer' \in [Addresses -> Timers]
    BY <1>1, NewTimer
  <2>3. timer'[a].expiration_ \in Nat
    BY <2>2 DEF Timers
  <2> QED BY <1>1, <2>1, <2>2, <2>3, NewTimer
<1>3. /\ timers_' = timers_ \cup {<<timer'[a].expiration_, a>>}
      /\ activeTimers_' = activeTimers_ \cup {id}
  BY <1>1, <1>2 DEF AddTimerInLoop
<1>4. ArmedInv'
  BY <1>1, <1>2, AddInLoopArms
<1>5. TypeInv'
  <2>1. timerfd' \in Int
    <3>1. Deadline(timer'[a].expiration_) \in Nat
      BY <1>2, DeadlineOrder DEF TypeInv
    <3> QED BY <1>1, <3>1 DEF AddTimerInLoop, TypeInv
  <2>2. id \in Ids
    BY <1>2 DEF Ids
  <2>3. timers_' \subseteq Nat \X Addresses
    BY <1>2, <1>3 DEF TypeInv
  <2>4. numCreated_' \in 0 .. MaxTimers
    BY <1>2
  <2> QED BY <1>1, <1>2, <2>1, <2>2, <2>3, <2>4 DEF TypeInv
<1>6. SequenceInv'
  <2>1. Known' \subseteq Known \cup {id}
    BY <1>1 DEF Known
  <2>2. \A v \in Users : adding'[v] \in {adding[v], a}
    BY <1>1
  <2> QED BY <1>1, <2>1, <2>2, NewSequence
<1>7. TaskInv'
  <2>1. \A k \in DOMAIN tasks :
          tasks[k][1] = "addTimerInLoop" => timer'[tasks[k][2][1]] = timer[tasks[k][2][1]]
    BY <1>2, Places DEF Ids
  <2> QED BY <1>1, <2>1 DEF TaskInv
<1>8. OwnedOnce'
  <2>1. Waiting' = Waiting \cup {a} /\ Batch' = Batch /\ Queued' = Queued
    BY <1>1, <1>3, WaitingAdds DEF Batch, Queued
  <2>2. \A entry \in timers_' : entry[1] = timer'[entry[2]].expiration_
    BY <1>2, <1>3, OwnedMeans, Places DEF Waiting
  <2>3. activeTimers_' = {<<b, timer'[b].sequence_>> : b \in Waiting'}
    BY <1>2, <1>3, <2>1, OwnedMeans, Places DEF TimerId
  <2>4. /\ Live = Waiting \cup Batch \cup Queued
        /\ Waiting \cap Batch = {} /\ (Waiting \cup Batch) \cap Queued = {}
    BY OwnedMeans
  <2> QED BY <1>2, <2>1, <2>2, <2>3, <2>4, OwnedNext
<1>9. CancelInv'
  <2>1. Batch' = Batch
    BY <1>1 DEF Batch
  <2>2. \A b \in Batch : timer'[b] = timer[b]
    BY <1>2, Places
  <2> QED BY <1>1, <2>1, <2>2 DEF CancelInv, TimerId
<1>10. BatchInv' /\ RanInv' /\ RunsAsAsked' /\ CancelledIsGone'
  BY <1>1, NewKeeps
<1> QED BY <1>4, <1>5, <1>6, <1>7, <1>8, <1>9, <1>10

-----------------------------------------------------------------------------
(* Functors *)

\* The queue without its head
LEMMA PopTask ==
  ASSUME IInv, tasks # <<>>, tasks' = Tail(tasks)
  PROVE  /\ tasks' \in Seq({"addTimerInLoop", "cancelInLoop"} \X Ids)
         /\ Head(tasks) = tasks[1] /\ 1 \in DOMAIN tasks
         /\ Head(tasks) \in {"addTimerInLoop", "cancelInLoop"} \X Ids
         /\ Range(tasks') \subseteq Range(tasks)
         /\ \A j, k \in DOMAIN tasks' :
              tasks'[j][1] = "addTimerInLoop" /\ tasks'[k] = tasks'[j] => j = k
         /\ Queued' = IF Head(tasks)[1] = "addTimerInLoop"
                      THEN Queued \ {Head(tasks)[2][1]} ELSE Queued
<1> USE DEF IInv
<1>1. /\ tasks' \in Seq({"addTimerInLoop", "cancelInLoop"} \X Ids)
      /\ 1 \in DOMAIN tasks /\ tasks[1] = Head(tasks)
      /\ Head(tasks) \in {"addTimerInLoop", "cancelInLoop"} \X Ids
      /\ \A i \in DOMAIN tasks' : i + 1 \in DOMAIN tasks /\ i + 1 # 1 /\ tasks'[i] = tasks[i + 1]
      /\ \A j \in DOMAIN tasks : j = 1 \/ (j - 1 \in DOMAIN tasks' /\ tasks'[j - 1] = tasks[j])
  BY Popped DEF TypeInv
<1>2. DOMAIN tasks' \subseteq Int
  BY <1>1, LenProperties
<1>3. \A j, k \in DOMAIN tasks' :
        tasks'[j][1] = "addTimerInLoop" /\ tasks'[k] = tasks'[j] => j = k
  <2> TAKE j, k \in DOMAIN tasks'
  <2> HAVE tasks'[j][1] = "addTimerInLoop" /\ tasks'[k] = tasks'[j]
  <2>1. j + 1 = k + 1
    BY <1>1 DEF TaskInv
  <2> QED BY <1>2, <2>1
<1>4. Range(tasks') \subseteq Range(tasks)
  BY <1>1 DEF Range
<1>5. CASE Head(tasks)[1] # "addTimerInLoop"
  <2>1. \A a : a \in Queued' <=> a \in Queued
    <3> TAKE a
    <3>1. ASSUME a \in Queued' PROVE a \in Queued
      BY <1>1, <3>1, Places, PlacesNext
    <3>2. ASSUME a \in Queued PROVE a \in Queued'
      <4>1. PICK j \in DOMAIN tasks : tasks[j][1] = "addTimerInLoop" /\ tasks[j][2][1] = a
        BY <3>2, Places
      <4>2. j # 1
        BY <1>1, <1>5, <4>1
      <4>3. j - 1 \in DOMAIN tasks' /\ tasks'[j - 1] = tasks[j]
        BY <1>1, <4>2
      <4> QED BY <4>1, <4>3, PlacesNext
    <3> QED BY <3>1, <3>2
  <2> QED BY <1>1, <1>3, <1>4, <1>5, <2>1
<1>6. CASE Head(tasks)[1] = "addTimerInLoop"
  <2> DEFINE a == Head(tasks)[2][1]
  <2>1. \A k \in DOMAIN tasks :
          tasks[k][1] = "addTimerInLoop" /\ tasks[k][2][1] = a => k = 1
    <3> TAKE k \in DOMAIN tasks
    <3> HAVE tasks[k][1] = "addTimerInLoop" /\ tasks[k][2][1] = a
    <3>1. tasks[k][2][2] = timer[a].sequence_ /\ tasks[1][2][2] = timer[a].sequence_
      BY <1>1, <1>6 DEF TaskInv
    <3>2. tasks[k] = <<"addTimerInLoop", <<a, timer[a].sequence_>> >>
      BY <3>1, Places DEF Ids
    <3>3. tasks[1] = <<"addTimerInLoop", <<a, timer[a].sequence_>> >>
      BY <1>1, <1>6, <3>1, Places DEF Ids
    <3> QED BY <1>1, <1>6, <3>2, <3>3 DEF TaskInv
  <2>3. tasks[1][2][1] = a
    BY <1>1
  <2> HIDE DEF a
  <2>2. \A b : b \in Queued' <=> b \in Queued /\ b # a
    <3> TAKE b
    <3>1. ASSUME b \in Queued' PROVE b \in Queued /\ b # a
      <4>1. PICK i \in DOMAIN tasks' : tasks'[i][1] = "addTimerInLoop" /\ tasks'[i][2][1] = b
        BY <3>1, PlacesNext
      <4>2. i + 1 \in DOMAIN tasks /\ i + 1 # 1 /\ tasks'[i] = tasks[i + 1]
        BY <1>1
      <4> QED BY <2>1, <4>1, <4>2, Places
    <3>2. ASSUME b \in Queued, b # a PROVE b \in Queued'
      <4>1. PICK j \in DOMAIN tasks : tasks[j][1] = "addTimerInLoop" /\ tasks[j][2][1] = b
        BY <3>2, Places
      <4>2. j # 1
        BY <2>3, <3>2, <4>1
      <4>3. j - 1 \in DOMAIN tasks' /\ tasks'[j - 1] = tasks[j]
        BY <1>1, <4>2
      <4> QED BY <4>1, <4>3, PlacesNext
    <3> QED BY <3>1, <3>2
  <2> QED BY <1>1, <1>3, <1>4, <1>6, <2>2 DEF a
<1> QED BY <1>5, <1>6

\* addTimerInLoop, run for another thread
LEMMA RunAddKeeps ==
  ASSUME IInv, RunTask, Head(tasks)[1] = "addTimerInLoop"
  PROVE  IInv'
<1> DEFINE a == Head(tasks)[2][1]
<1> USE DEF IInv
<1>1. /\ ~callingExpiredTimers_ /\ tasks # <<>> /\ tasks' = Tail(tasks)
      /\ AddTimerInLoop(timer, a)
      /\ UNCHANGED <<timer, cancelingTimers_, cancelled, clock, numCreated_,
                     callingExpiredTimers_, expired, next, now, runs, adding, ids, repeats>>
  BY DEF RunTask, batchVars
<1>2. /\ tasks' \in Seq({"addTimerInLoop", "cancelInLoop"} \X Ids) /\ TaskInv'
      /\ Range(tasks') \subseteq Range(tasks)
      /\ Queued' = Queued \ {a} /\ a \in Addresses /\ a \in Queued
  <2>1. a \in Addresses
    BY <1>1, PopTask DEF Ids
  <2>2. a \in Queued
    BY <1>1, PopTask, Places
  <2>3. TaskInv'
    BY <1>1, PopTask DEF TaskInv, Range
  <2> QED BY <1>1, <2>1, <2>2, <2>3, PopTask
<1> HIDE DEF a
<1>3. timer[a].expiration_ \in Nat /\ timer[a].sequence_ \in Nat
  BY <1>2 DEF TypeInv, Timers
<1>4. /\ timers_' = timers_ \cup {<<timer[a].expiration_, a>>}
      /\ activeTimers_' = activeTimers_ \cup {TimerId(a)}
  BY <1>1 DEF AddTimerInLoop, TimerId
<1>5. ArmedInv'
  BY <1>1, <1>3, AddInLoopArms
<1>6. TypeInv'
  <2>1. timerfd' \in Int
    <3> DEFINE e == timer[a].expiration_
    <3>2. clock \in Nat /\ e \in Nat
      BY <1>3 DEF TypeInv
    <3> HIDE DEF e
    <3>1. Deadline(e) \in Nat
      BY <3>2, DeadlineOrder
    <3> USE DEF e
    <3> QED BY <1>1, <3>1 DEF AddTimerInLoop, TypeInv
  <2> QED BY <1>1, <1>2, <1>3, <1>4, <2>1 DEF TypeInv
<1>7. SequenceInv'
  BY <1>1, <1>2 DEF SequenceInv, Known, Range
<1>8. OwnedOnce'
  <2>1. Waiting' = Waiting \cup {a} /\ Batch' = Batch
    BY <1>1, <1>4, WaitingAdds DEF Batch
  <2>2. /\ Live = Waiting \cup Batch \cup Queued
        /\ Waiting \cap Batch = {} /\ (Waiting \cup Batch) \cap Queued = {}
    BY OwnedMeans
  <2>3. \A entry \in timers_' : entry[1] = timer'[entry[2]].expiration_
    BY <1>1, <1>4, OwnedMeans
  <2>4. activeTimers_' = {<<b, timer'[b].sequence_>> : b \in Waiting'}
    BY <1>1, <1>4, <2>1, OwnedMeans DEF TimerId
  <2>5. Live' = Live
    BY <1>1 DEF Live
  <2> QED BY <1>2, <2>1, <2>2, <2>3, <2>4, <2>5, OwnedNext
<1>9. RanInv' /\ RunsAsAsked' /\ CancelledIsGone' /\ CancelInv' /\ BatchInv'
  BY <1>1 DEF RanInv, RunsAsAsked, CancelledIsGone, CancelInv, BatchInv, Live, Batch, Sequences
<1> QED BY <1>2, <1>5, <1>6, <1>7, <1>8, <1>9

\* cancelInLoop when the timer waits: it goes, and its TimerId with it.
LEMMA CancelActive ==
  ASSUME IInv, NEW id \in Known, IsActive(id), CancelInLoop(id)
  PROVE  /\ id[1] \in Waiting /\ id = TimerId(id[1])
         /\ timer'[id[1]] = Deleted(timer[id[1]].sequence_)
         /\ \A b \in Addresses \ {id[1]} : timer'[b] = timer[b]
         /\ timer' \in [Addresses -> Timers]
         /\ timers_' = timers_ \ {<<timer[id[1]].expiration_, id[1]>>}
         /\ Waiting' = Waiting \ {id[1]}
         /\ activeTimers_' = activeTimers_ \ {id}
         /\ Live' = Live \ {id[1]}
         /\ cancelled' = cancelled \cup {id[2]}
<1> DEFINE a == id[1]
<1> USE DEF IInv
<1>1. a \in Waiting /\ id = TimerId(a)
  <2>1. PICK b \in Waiting : id = TimerId(b)
    BY OwnedMeans DEF IsActive
  <2>2. id[1] = b
    BY <2>1 DEF TimerId
  <2> QED BY <2>1, <2>2
<1>2. a \in Addresses /\ id[2] = timer[a].sequence_
  BY <1>1, Places DEF TimerId
<1>3. /\ timers_' = timers_ \ {<<timer[a].expiration_, a>>}
      /\ activeTimers_' = activeTimers_ \ {id}
      /\ timer' = [timer EXCEPT ![a] = Deleted(@.sequence_)]
  BY <1>1 DEF CancelInLoop
<1>4. /\ timer'[a] = Deleted(timer[a].sequence_)
      /\ \A b \in Addresses \ {a} : timer'[b] = timer[b]
      /\ timer' \in [Addresses -> Timers]
  <2>1. timer[a].sequence_ \in Nat
    BY <1>2 DEF TypeInv, Timers
  <2>2. Deleted(timer[a].sequence_) \in Timers
    BY <2>1 DEF Deleted, Timers
  <2> QED BY <1>2, <1>3, <2>2 DEF TypeInv
<1>5. Waiting' = Waiting \ {a}
  <2>1. \A entry \in timers_ : entry[2] = a <=> entry = <<timer[a].expiration_, a>>
    <3> TAKE entry \in timers_
    <3>1. entry = <<entry[1], entry[2]>> /\ entry[1] = timer[entry[2]].expiration_
      BY OwnedMeans DEF TypeInv
    <3> QED BY <3>1
  <2>2. \A b : b \in Waiting' <=> \E entry \in timers_ : entry[2] = b /\ b # a
    BY <1>3, <2>1 DEF Waiting
  <2> QED BY <2>2 DEF Waiting
<1>6. Live' = Live \ {a}
  BY <1>2, <1>4 DEF Live, Deleted
<1>7. <<"addTimerInLoop", id>> \notin Range(tasks)
  <2> SUFFICES ASSUME NEW k \in DOMAIN tasks, tasks[k] = <<"addTimerInLoop", id>> PROVE FALSE
    BY DEF Range
  <2>1. a \in Queued
    BY Places
  <2> QED BY <1>1, <2>1, OwnedMeans
<1>8. cancelled' = cancelled \cup {id[2]}
  BY <1>7 DEF CancelInLoop
<1> HIDE DEF a
<1> QED BY <1>1, <1>3, <1>4, <1>5, <1>6, <1>8 DEF a

\* Whoever calls it: a functor, or the loop's own code
LEMMA CancelKeeps ==
  ASSUME IInv, NEW id \in Known, CancelInLoop(id),
         UNCHANGED <<clock, numCreated_, batchVars, adding, repeats>>,
         ids' \subseteq ids,
         tasks' \in Seq({"addTimerInLoop", "cancelInLoop"} \X Ids),
         Range(tasks') \subseteq Range(tasks), Queued' = Queued,
         \A j, k \in DOMAIN tasks' :
           tasks'[j][1] = "addTimerInLoop" /\ tasks'[k] = tasks'[j] => j = k,
         callingExpiredTimers_ => tasks' = tasks
  PROVE  IInv'
<1> USE DEF IInv
<1>1. UNCHANGED <<clock, numCreated_, timerfd, callingExpiredTimers_, expired, next, now,
                  runs, adding, repeats>>
  BY DEF batchVars, CancelInLoop
<1>2. /\ id \in Ids /\ id = <<id[1], id[2]>> /\ id[2] > 0 /\ id[2] <= numCreated_
      /\ numCreated_ \in Nat
      /\ \A b \in Addresses : timer[b].sequence_ = id[2] => b = id[1]
      /\ \A b \in Addresses : timer[b].sequence_ \in Nat
  <2>1. id \in Ids
    BY Places DEF Known, TypeInv
  <2>2. id = <<id[1], id[2]>>
    BY <2>1 DEF Ids
  <2>3. numCreated_ \in Nat /\ \A b \in Addresses : timer[b].sequence_ \in Nat
    BY DEF TypeInv, Timers
  <2> QED BY <2>1, <2>2, <2>3 DEF SequenceInv
<1>3. Batch' = Batch
  BY <1>1 DEF Batch
<1>4. /\ timer' \in [Addresses -> Timers]
      /\ timers_' \subseteq timers_
      /\ \A b \in Addresses : timer'[b].sequence_ = timer[b].sequence_
      /\ Live' \subseteq Live /\ \A b \in Live' : timer'[b] = timer[b]
      /\ \A b \in Batch : timer'[b] = timer[b]
      /\ cancelingTimers_' \subseteq cancelingTimers_ \cup {id}
      /\ cancelled \subseteq cancelled' /\ cancelled' \subseteq cancelled \cup {id[2]}
      /\ \A b \in Live \ Live' : timer[b].sequence_ \in cancelled'
  <2>1. CASE IsActive(id)
    <3>1. /\ id[1] \in Waiting /\ id = TimerId(id[1])
          /\ timer'[id[1]] = Deleted(timer[id[1]].sequence_)
          /\ \A b \in Addresses \ {id[1]} : timer'[b] = timer[b]
          /\ timer' \in [Addresses -> Timers]
          /\ Live' = Live \ {id[1]}
          /\ cancelled' = cancelled \cup {id[2]}
      BY <2>1, CancelActive
    <3>2. cancelingTimers_' = cancelingTimers_ /\ timers_' \subseteq timers_
      BY <2>1 DEF CancelInLoop
    <3>3. \A b \in Batch : b # id[1] /\ b \in Addresses
      BY <3>1, Places, OwnedMeans
    <3>4. Live \subseteq Addresses
      BY DEF Live
    <3>5. timer[id[1]].sequence_ = id[2]
      BY <3>1 DEF TimerId
    <3>6. \A b \in Addresses : timer'[b].sequence_ = timer[b].sequence_
      BY <3>1 DEF Deleted
    <3> QED BY <3>1, <3>2, <3>3, <3>4, <3>5, <3>6
  <2>2. CASE ~IsActive(id)
    <3>1. timer' = timer /\ timers_' = timers_
      BY <2>2 DEF CancelInLoop
    <3>2. cancelingTimers_' \subseteq cancelingTimers_ \cup {id}
      BY <2>2 DEF CancelInLoop, Remember
    <3>3. cancelled \subseteq cancelled' /\ cancelled' \subseteq cancelled \cup {id[2]}
      BY DEF CancelInLoop
    <3>4. Live' = Live
      BY <3>1 DEF Live
    <3> QED BY <3>1, <3>2, <3>3, <3>4 DEF TypeInv
  <2> QED BY <2>1, <2>2
<1>5. TypeInv'
  BY <1>1, <1>2, <1>4 DEF TypeInv
<1>6. SequenceInv'
  <2>1. Known' \subseteq Known
    <3>1. \A k \in DOMAIN tasks' : \E j \in DOMAIN tasks : tasks[j] = tasks'[k]
      BY DEF Range
    <3> QED BY <1>4, <3>1 DEF Known
  <2>2. \A b \in Addresses : timer'[b].live => timer[b].live
    BY <1>4 DEF Live
  <2>3. \A v \in Users : adding[v] # None => adding[v] \in Addresses
    BY DEF TypeInv
  <2> HIDE DEF Known
  <2> QED BY <1>1, <1>4, <2>1, <2>2, <2>3 DEF SequenceInv
<1>7. TaskInv'
  <2>1. \A k \in DOMAIN tasks' :
          tasks'[k][1] = "addTimerInLoop" => tasks'[k][2][2] = timer'[tasks'[k][2][1]].sequence_
    <3> TAKE k \in DOMAIN tasks'
    <3> HAVE tasks'[k][1] = "addTimerInLoop"
    <3>1. PICK j \in DOMAIN tasks : tasks[j] = tasks'[k]
      BY DEF Range
    <3>2. tasks[j][2][1] \in Addresses
      BY Places DEF Ids
    <3> QED BY <1>4, <3>1, <3>2 DEF TaskInv
  <2> QED BY <2>1 DEF TaskInv
<1>8. OwnedOnce'
  <2>1. /\ Live = Waiting \cup Batch \cup Queued
        /\ Waiting \cap Batch = {} /\ (Waiting \cup Batch) \cap Queued = {}
        /\ activeTimers_ = {TimerId(b) : b \in Waiting} /\ Waiting \subseteq Addresses
        /\ \A entry \in timers_ : entry[1] = timer[entry[2]].expiration_
    BY OwnedMeans, Places
  <2>2. CASE IsActive(id)
    <3>1. /\ id[1] \in Waiting /\ id = TimerId(id[1])
          /\ \A b \in Addresses \ {id[1]} : timer'[b] = timer[b]
          /\ Waiting' = Waiting \ {id[1]} /\ Live' = Live \ {id[1]}
          /\ activeTimers_' = activeTimers_ \ {id}
      BY <2>2, CancelActive
    <3>2. \A entry \in timers_' : entry[1] = timer'[entry[2]].expiration_
      <4>1. \A entry \in timers_' : entry[2] \in Waiting'
        BY DEF Waiting
      <4> QED BY <1>4, <2>1, <3>1, <4>1
    <3>3. activeTimers_' = {<<b, timer'[b].sequence_>> : b \in Waiting'}
      <4>1. \A b \in Waiting : TimerId(b) = id <=> b = id[1]
        BY <3>1 DEF TimerId
      <4>2. \A b \in Waiting : <<b, timer'[b].sequence_>> = TimerId(b)
        BY <1>4, <2>1 DEF TimerId
      <4>3. activeTimers_' = {TimerId(b) : b \in Waiting'}
        BY <2>1, <3>1, <4>1
      <4> QED BY <3>1, <4>2, <4>3
    <3> QED BY <1>3, <2>1, <3>1, <3>2, <3>3, OwnedNext
  <2>3. CASE ~IsActive(id)
    <3>1. timer' = timer /\ timers_' = timers_ /\ activeTimers_' = activeTimers_
      BY <2>3 DEF CancelInLoop
    <3>2. Live' = Live /\ Waiting' = Waiting
      BY <3>1 DEF Live, Waiting
    <3> QED BY <1>3, <2>1, <3>1, <3>2, OwnedNext DEF TimerId
  <2> QED BY <2>2, <2>3
<1>9. BatchInv'
  BY <1>1 DEF BatchInv
<1>10. RanInv'
  <2>1. \A s \in 1 .. MaxTimers :
          s > numCreated_' => runs'[s] = 0 /\ s \notin repeats' \cup cancelled'
    BY <1>1, <1>2, <1>4 DEF RanInv
  <2>2. \A i \in DOMAIN expired : timer'[expired[i][2]] = timer[expired[i][2]]
    BY <1>4, Places
  <2> QED BY <1>1, <1>3, <1>4, <2>1, <2>2 DEF RanInv
<1>11. RunsAsAsked'
  <2>1. \A s \in Sequences : s \in Sequences' \/ s \in cancelled'
    BY <1>4 DEF Sequences
  <2> HIDE DEF IInv
  <2>2. RunsAsAsked
    BY DEF IInv
  <2> QED BY <1>1, <1>4, <2>1, <2>2 DEF RunsAsAsked
<1>12. \A b \in Live' :
         timer[b].sequence_ = id[2] /\ b \notin Batch => id[2] \in cancelled \/ id[2] \notin cancelled'
  <2> SUFFICES ASSUME NEW b \in Live', timer[b].sequence_ = id[2], b \notin Batch,
                      id[2] \in cancelled', id[2] \notin cancelled
               PROVE  FALSE
    OBVIOUS
  <2>1. b \in Live /\ b \in Addresses
    BY <1>4 DEF Live
  <2>2. id = TimerId(b)
    BY <1>2, <2>1 DEF TimerId
  <2>3. b \in Waiting \/ b \in Queued
    BY <2>1, OwnedMeans
  <2>4. CASE b \in Waiting
    <3>1. IsActive(id)
      BY <2>2, <2>4, OwnedMeans DEF IsActive
    <3>2. Live' = Live \ {id[1]}
      BY <3>1, CancelActive
    <3> QED BY <2>2, <3>2 DEF TimerId
  <2>5. CASE b \in Queued
    <3>1. PICK k \in DOMAIN tasks : tasks[k][1] = "addTimerInLoop" /\ tasks[k][2][1] = b
      BY <2>5, Places
    <3>2. tasks[k][2][2] = timer[b].sequence_
      BY <3>1 DEF TaskInv
    <3>3. tasks[k] = <<"addTimerInLoop", TimerId(b)>>
      BY <3>1, <3>2, Places DEF TimerId, Ids
    <3>4. <<"addTimerInLoop", id>> \in Range(tasks)
      BY <2>2, <3>3 DEF Range
    <3> QED BY <3>4 DEF CancelInLoop
  <2> QED BY <2>3, <2>4, <2>5
<1>13. CancelledIsGone'
  <2>1. SUFFICES ASSUME NEW b \in Live', timer[b].sequence_ \in cancelled', b \notin Batch
                 PROVE  FALSE
    BY <1>3, <1>4 DEF CancelledIsGone
  <2>2. b \in Live /\ timer[b].sequence_ \notin cancelled
    BY <1>4, <2>1 DEF CancelledIsGone
  <2> QED BY <1>4, <1>12, <2>1, <2>2
<1>14. CancelInv'
  <2> SUFFICES ASSUME callingExpiredTimers_
               PROVE  /\ \A b \in Batch : timer[b].sequence_ \in cancelled'
                                           => TimerId(b) \in cancelingTimers_'
                      /\ \A i \in cancelingTimers_' :
                           i[2] \in cancelled' \/ <<"addTimerInLoop", i>> \in Range(tasks)
    BY <1>1, <1>3, <1>4 DEF CancelInv, TimerId
  <2>1. cancelingTimers_ \subseteq cancelingTimers_'
    BY DEF CancelInLoop, Remember
  <2>2. \A b \in Batch : timer[b].sequence_ = id[2] => id \in cancelingTimers_' /\ id = TimerId(b)
    <3> TAKE b \in Batch
    <3> HAVE timer[b].sequence_ = id[2]
    <3>1. id = TimerId(b)
      BY <1>2, Places DEF TimerId
    <3>2. ~IsActive(id)
      <4>1. b \notin Waiting
        BY OwnedMeans
      <4>2. id[1] = b
        BY <3>1 DEF TimerId
      <4> QED BY <4>1, <4>2, CancelActive
    <3> QED BY <3>1, <3>2 DEF CancelInLoop, Remember
  <2>3. \A b \in Batch : timer[b].sequence_ \in cancelled' => TimerId(b) \in cancelingTimers_'
    BY <1>4, <2>1, <2>2 DEF CancelInv
  <2>4. id[2] \in cancelled' \/ <<"addTimerInLoop", id>> \in Range(tasks)
    BY DEF CancelInLoop
  <2> QED BY <1>4, <2>3, <2>4 DEF CancelInv
<1>15. ArmedInv'
  BY <1>1, <1>4 DEF ArmedInv, Deadline
<1> QED BY <1>5, <1>6, <1>7, <1>8, <1>9, <1>10, <1>11, <1>13, <1>14, <1>15

\* cancelInLoop from the loop's own code, and as a functor
LEMMA CancelHereKeeps ==
  ASSUME IInv, CancelHere
  PROVE  IInv'
<1>1. PICK id \in ids : CancelInLoop(id) /\ ids' = ids \ {id}
  BY DEF CancelHere
<1>2. UNCHANGED <<clock, numCreated_, batchVars, tasks, adding, repeats>>
  BY DEF CancelHere
<1>3. Queued' = Queued
  BY <1>2 DEF Queued
<1>4. /\ tasks \in Seq({"addTimerInLoop", "cancelInLoop"} \X Ids)
      /\ \A j, k \in DOMAIN tasks :
           tasks[j][1] = "addTimerInLoop" /\ tasks[k] = tasks[j] => j = k
  BY DEF IInv, TypeInv, TaskInv
<1>5. id \in Known
  BY DEF Known
<1> QED BY <1>1, <1>2, <1>3, <1>4, <1>5, CancelKeeps

LEMMA RunCancelKeeps ==
  ASSUME IInv, RunTask, Head(tasks)[1] # "addTimerInLoop"
  PROVE  IInv'
<1> DEFINE id == Head(tasks)[2]
<1>1. /\ ~callingExpiredTimers_ /\ tasks # <<>> /\ tasks' = Tail(tasks)
      /\ CancelInLoop(id)
      /\ UNCHANGED <<clock, numCreated_, batchVars, adding, ids, repeats>>
  BY DEF RunTask
<1>2. id \in Known
  BY <1>1, PopTask DEF Known
<1> HIDE DEF id
<1> QED BY <1>1, <1>2, PopTask, CancelKeeps

-----------------------------------------------------------------------------
(* handleRead *)

\* A set of entries with no two of one address is finite, as is that of their times.
LEMMA FiniteEntries ==
  ASSUME NEW T \in SUBSET (Nat \X Addresses), \A e, f \in T : e[2] = f[2] => e = f
  PROVE  IsFiniteSet(T) /\ IsFiniteSet({e[1] : e \in T})
<1> DEFINE addresses == [e \in T |-> e[2]]
           times == [e \in T |-> e[1]]
<1>1. addresses \in Injection(T, Addresses)
  BY DEF Injection, IsInjective
<1>2. IsFiniteSet(T)
  BY <1>1, FS_Injection, AddressAssumption
<1>3. times \in Surjection(T, {e[1] : e \in T})
  BY DEF Surjection
<1> QED BY <1>2, <1>3, FS_Surjection

\* What a std::set's listing is: each of the elements, once
LEMMA InOrderLists ==
  ASSUME NEW S, IsFiniteSet(S), NEW s \in InOrder(S)
  PROVE  /\ s \in Seq(S)
         /\ \A e : e \in S <=> \E i \in DOMAIN s : s[i] = e
         /\ \A i, j \in DOMAIN s : s[i] = s[j] => i = j
<1> DEFINE n == Cardinality(S)
<1>1. n \in Nat
  BY FS_CardinalityType
<1>2. s \in [1 .. n -> S] /\ \A i, j \in 1 .. n : i # j => s[i] # s[j]
  BY DEF InOrder, SetToSeqs
<1> HIDE DEF n
<1>3. s \in Seq(S)
  BY <1>1, <1>2
<1>4. s \in Injection(1 .. n, S)
  BY <1>2 DEF Injection, IsInjective
<1>5. Cardinality(1 .. n) = n
  BY <1>1, FS_Interval
<1>6. s \in Surjection(1 .. n, S)
  BY <1>4, <1>5, FS_Injection DEF n
<1> QED BY <1>2, <1>3, <1>6 DEF Surjection

LEMMA HandleReadKeeps ==
  ASSUME IInv, HandleRead
  PROVE  IInv'
<1> USE DEF IInv
<1>1. /\ ~callingExpiredTimers_ /\ callingExpiredTimers_' = TRUE
      /\ timerfd' = Off /\ now' = clock /\ next' = 1 /\ cancelingTimers_' = {}
      /\ timers_' = timers_ \ Expired
      /\ activeTimers_' = activeTimers_ \ {TimerId(entry[2]) : entry \in Expired}
      /\ expired' \in InOrder(Expired)
      /\ UNCHANGED <<clock, numCreated_, timer, tasks, adding, ids, runs, repeats, cancelled>>
  BY DEF HandleRead, GetExpired
<1>2. /\ \A entry \in timers_ : entry = <<timer[entry[2]].expiration_, entry[2]>>
      /\ \A e, f \in timers_ : e[2] = f[2] => e = f
      /\ timers_ \subseteq Nat \X Addresses /\ Expired \subseteq timers_
  BY OwnedMeans DEF TypeInv, Expired
<1>3. IsFiniteSet(Expired)
  BY <1>2, FiniteEntries
<1>4. /\ expired' \in Seq(Expired)
      /\ \A e : e \in Expired <=> \E i \in DOMAIN expired' : expired'[i] = e
      /\ \A i, j \in DOMAIN expired' : expired'[i] = expired'[j] => i = j
  BY <1>1, <1>3, InOrderLists
<1>5. Batch = {}
  BY <1>1, Places DEF BatchInv
<1>6. /\ Waiting \subseteq Addresses
      /\ Waiting = Waiting' \cup Batch' /\ Waiting' \cap Batch' = {}
  <2>1. \A a : a \in Batch' <=> \E e \in Expired : e[2] = a
    BY <1>4, PlacesNext
  <2>2. \A a : a \in Waiting' <=> \E e \in timers_ \ Expired : e[2] = a
    BY <1>1 DEF Waiting
  <2>3. \A a : a \in Waiting <=> \E e \in timers_ : e[2] = a
    BY DEF Waiting
  <2> QED BY <1>2, <2>1, <2>2, <2>3, Places
<1>7. Live' = Live /\ Queued' = Queued
  BY <1>1 DEF Live, Queued
<1>8. TypeInv'
  <2>1. expired' \in Seq(Nat \X Addresses)
    BY <1>2, <1>4, SeqMonotonic
  <2> QED BY <1>1, <1>2, <2>1 DEF TypeInv, Off
<1>9. SequenceInv'
  BY <1>1 DEF SequenceInv, Known
<1>10. TaskInv'
  BY <1>1 DEF TaskInv
<1>11. BatchInv'
  <2>1. \A i \in DOMAIN expired' : expired'[i] \in timers_
    BY <1>2, <1>4
  <2> QED BY <1>1, <1>2, <1>4, <2>1 DEF BatchInv
<1>12. OwnedOnce'
  <2>1. activeTimers_' = {<<a, timer'[a].sequence_>> : a \in Waiting'}
    <3>1. \A e \in Expired : e[2] \in Batch'
      BY <1>4, PlacesNext
    <3>2. \A a \in Batch' : \E e \in Expired : e[2] = a
      BY <1>4, PlacesNext
    <3>3. {TimerId(entry[2]) : entry \in Expired} = {TimerId(a) : a \in Batch'}
      BY <3>1, <3>2
    <3>4. \A a, b : TimerId(a) = TimerId(b) => a = b
      BY DEF TimerId
    <3>5. activeTimers_ = {TimerId(a) : a \in Waiting}
      BY OwnedMeans
    <3>6. activeTimers_' = {TimerId(a) : a \in Waiting'}
      BY <1>1, <1>6, <3>3, <3>4, <3>5
    <3> QED BY <1>1, <3>6 DEF TimerId
  <2>2. \A entry \in timers_' : entry[1] = timer'[entry[2]].expiration_
    BY <1>1, OwnedMeans
  <2>3. Live = Waiting \cup Batch \cup Queued /\ (Waiting \cup Batch) \cap Queued = {}
    BY OwnedMeans
  <2> QED BY <1>5, <1>6, <1>7, <2>1, <2>2, <2>3, OwnedNext
<1>13. \A i \in DOMAIN expired' : expired'[i][2] \in Live \ Batch /\ expired'[i][2] \in Batch'
  BY <1>5, <1>6, PlacesNext, OwnedMeans
<1>14. RanInv'
  <2>1. \A i \in DOMAIN expired' : ~(i < next')
    <3>1. DOMAIN expired' = 1 .. Len(expired') /\ Len(expired') \in Nat
      BY <1>4, LenProperties
    <3> QED BY <1>1, <3>1
  <2>2. \A i \in DOMAIN expired' :
          timer'[expired'[i][2]].interval_ = 0
            => runs'[timer'[expired'[i][2]].sequence_] = (IF i < next' THEN 1 ELSE 0)
    BY <1>1, <1>13, <2>1 DEF RanInv
  <2>3. \A a \in Live' \ Batch' : timer'[a].interval_ = 0 => runs'[timer'[a].sequence_] = 0
    BY <1>1, <1>5, <1>7 DEF RanInv
  <2> QED BY <1>1, <1>7, <2>2, <2>3 DEF RanInv
<1>15. RunsAsAsked'
  BY <1>1 DEF RunsAsAsked, Sequences, Live
<1>16. CancelInv' /\ CancelledIsGone'
  BY <1>1, <1>5, <1>6, <1>7, OwnedMeans DEF CancelInv, CancelledIsGone
<1>17. ArmedInv'
  BY <1>1 DEF ArmedInv
<1> QED BY <1>8, <1>9, <1>10, <1>11, <1>12, <1>14, <1>15, <1>16, <1>17

\* The number of a Timer that has not been deleted
LEMMA LiveSequence ==
  ASSUME IInv, NEW b \in Live
  PROVE  timer[b].sequence_ \in 1 .. MaxTimers /\ timer[b].sequence_ <= numCreated_
<1>1. timer[b].sequence_ \in Nat /\ numCreated_ \in 0 .. MaxTimers
  BY DEF Live, IInv, TypeInv, Timers
<1>2. timer[b].sequence_ > 0 /\ timer[b].sequence_ <= numCreated_
  BY DEF Live, IInv, SequenceInv
<1> QED BY <1>1, <1>2, BoundAssumption

\* A callback: of the batch, it is this timer alone that comes to have run.
LEMMA RunTimerKeeps ==
  ASSUME IInv, RunTimer
  PROVE  IInv'
<1> DEFINE a == expired[next][2]
           s == timer[a].sequence_
<1> USE DEF IInv
<1>1. /\ callingExpiredTimers_ /\ next <= Len(expired) /\ next' = next + 1
      /\ runs' = [runs EXCEPT ![s] = IF @ < 2 THEN @ + 1 ELSE @]
      /\ UNCHANGED <<clock, numCreated_, timer, timers_, activeTimers_, timerfd,
                     callingExpiredTimers_, expired, now, cancelingTimers_, tasks, adding, ids,
                     repeats, cancelled>>
  BY DEF RunTimer, queueVars
<1>2. next \in DOMAIN expired /\ next \in Nat
  BY <1>1, LenProperties DEF TypeInv
<1>3. a \in Batch /\ a \in Live /\ a \in Addresses
  BY <1>2, Places, OwnedMeans
<1>4. s \in 1 .. numCreated_ /\ numCreated_ \in 0 .. MaxTimers
  BY <1>3 DEF SequenceInv, TypeInv, Timers, Live
<1>5. /\ runs' \in [1 .. MaxTimers -> Nat]
      /\ runs[s] = 0 => runs'[s] = 1
      /\ \A r \in 1 .. MaxTimers : r # s => runs'[r] = runs[r]
  <2>1. s \in 1 .. MaxTimers
    BY <1>4, BoundAssumption
  <2> HIDE DEF s
  <2> QED BY <1>1, <2>1 DEF TypeInv
<1>6. \A b \in Addresses : timer[b].sequence_ = s => b = a
  BY <1>3, <1>4 DEF SequenceInv
<1>7. Batch' = Batch /\ Live' = Live /\ Queued' = Queued /\ Sequences' = Sequences
  BY <1>1 DEF Batch, Live, Queued, Sequences
<1>8. s \notin repeats => timer[a].interval_ = 0 /\ runs[s] = 0
  <2> SUFFICES ASSUME s \notin repeats PROVE timer[a].interval_ = 0 /\ runs[s] = 0
    OBVIOUS
  <2>1. timer[a].interval_ \in Nat
    BY <1>3 DEF TypeInv, Timers
  <2>2. ~(timer[a].interval_ > 0)
    BY <1>3 DEF RanInv
  <2>3. timer[a].interval_ = 0
    BY <2>1, <2>2
  <2>4. ~(next < next)
    BY <1>2
  <2> QED BY <1>2, <2>3, <2>4 DEF RanInv
<1>9. s \in Sequences
  BY <1>3 DEF Sequences
<1> HIDE DEF s, a
<1>10. TypeInv'
  BY <1>1, <1>5 DEF TypeInv
<1>11. RanInv'
  <2>1. \A r \in 1 .. MaxTimers :
          r > numCreated_' => runs'[r] = 0 /\ r \notin repeats' \cup cancelled'
    BY <1>1, <1>4, <1>5 DEF RanInv
  <2>2. \A b \in Live \ Batch : timer[b].interval_ = 0 => runs'[timer[b].sequence_] = 0
    <3> SUFFICES ASSUME NEW b \in Live \ Batch, timer[b].interval_ = 0
                 PROVE  runs'[timer[b].sequence_] = 0
      OBVIOUS
    <3>1. timer[b].sequence_ # s /\ timer[b].sequence_ \in 1 .. MaxTimers
      BY <1>3, <1>6, LiveSequence DEF Live
    <3> QED BY <1>5, <3>1 DEF RanInv
  <2>3. \A i \in DOMAIN expired :
          timer[expired[i][2]].interval_ = 0
            => runs'[timer[expired[i][2]].sequence_] = (IF i < next' THEN 1 ELSE 0)
    <3> SUFFICES ASSUME NEW i \in DOMAIN expired, timer[expired[i][2]].interval_ = 0
                 PROVE  runs'[timer[expired[i][2]].sequence_] = (IF i < next' THEN 1 ELSE 0)
      OBVIOUS
    <3>1. i \in Nat
      BY LenProperties DEF TypeInv
    <3>2. CASE i = next
      <4>1. runs[s] = 0
        <5>1. ~(next < next)
          BY <1>2
        <5> QED BY <3>2, <5>1 DEF RanInv, s, a
      <4> QED BY <1>1, <1>2, <1>5, <3>2, <4>1 DEF s, a
    <3>3. CASE i # next
      <4>1. expired[i][2] # a /\ expired[i][2] \in Live /\ expired[i][2] \in Addresses
        BY <1>2, <3>3, Places, OwnedMeans DEF BatchInv, a
      <4>2. timer[expired[i][2]].sequence_ # s
        BY <1>6, <4>1
      <4>3. timer[expired[i][2]].sequence_ \in 1 .. MaxTimers
        BY <4>1, LiveSequence
      <4>4. i < next' <=> i < next
        BY <1>1, <1>2, <3>1, <3>3
      <4> QED BY <1>5, <4>2, <4>3, <4>4 DEF RanInv
    <3> QED BY <3>2, <3>3
  <2> QED BY <1>1, <1>7, <2>1, <2>2, <2>3 DEF RanInv
<1>12. RunsAsAsked'
  <2> SUFFICES ASSUME NEW r \in 1 .. numCreated_
               PROVE  /\ r \notin repeats => runs'[r] <= 1
                      /\ r \notin Sequences => r \in cancelled \/ (r \notin repeats /\ runs'[r] = 1)
    BY <1>1, <1>7 DEF RunsAsAsked
  <2>1. CASE r = s
    BY <1>5, <1>8, <1>9, <2>1
  <2>2. CASE r # s
    BY <1>4, <1>5, <2>2, BoundAssumption DEF RunsAsAsked
  <2> QED BY <2>1, <2>2
<1>13. SequenceInv' /\ TaskInv' /\ BatchInv'
  BY <1>1 DEF SequenceInv, TaskInv, BatchInv, Known
<1>14. OwnedOnce'
  BY <1>1, <1>7 DEF OwnedOnce, TimerId
<1>15. CancelInv' /\ CancelledIsGone' /\ ArmedInv'
  BY <1>1, <1>7 DEF CancelInv, CancelledIsGone, ArmedInv, TimerId
<1> QED BY <1>10, <1>11, <1>12, <1>13, <1>14, <1>15

\* reset: of the batch, the timers that repeat and were not cancelled wait again.
LEMMA Reset ==
  ASSUME IInv, EndHandleRead
  PROVE  /\ timer' \in [Addresses -> Timers]
         /\ \A a \in Addresses : timer'[a].sequence_ = timer[a].sequence_
         /\ \A a \in Addresses : timer'[a].live => timer[a].live
         /\ Restarted \subseteq Batch /\ Batch \subseteq Addresses
         /\ \A a \in Addresses \ Batch : timer'[a] = timer[a]
         /\ \A a \in Restarted : timer'[a].interval_ = timer[a].interval_ /\ timer'[a].interval_ > 0
         /\ Live' = Live \ (Batch \ Restarted)
         /\ Waiting' = Waiting \cup Restarted
         /\ timers_' = timers_ \cup {<<timer'[a].expiration_, a>> : a \in Restarted}
<1> USE DEF IInv
<1>1. timer' = AfterReset
      /\ timers_' = timers_ \cup {<<AfterReset[a].expiration_, a>> : a \in Restarted}
  BY DEF EndHandleRead
<1>2. /\ Restarted \subseteq Batch /\ Batch \subseteq Addresses /\ Batch \subseteq Live
      /\ \A a \in Restarted : timer[a].interval_ > 0
  BY Places, OwnedMeans DEF Restarted
<1>3. \A a \in Addresses : timer[a] \in Timers
  BY DEF TypeInv
<1>4. \A a \in Restarted :
        /\ timer'[a] = [timer[a] EXCEPT !.expiration_ = AddTime(now, timer[a].interval_),
                                        !.due = now + timer[a].interval_]
        /\ AddTime(now, timer[a].interval_) \in Nat /\ now + timer[a].interval_ \in Nat
  <2> TAKE a \in Restarted
  <2>1. a \in Addresses /\ timer[a].interval_ \in Nat
    BY <1>2, <1>3 DEF Timers
  <2>2. timer[a].interval_ * kMicroSecondsPerSecond \in Nat
    BY <2>1, UnitAssumption
  <2>3. timer'[a] = [timer[a] EXCEPT !.expiration_ = AddTime(now, timer[a].interval_),
                                     !.due = now + timer[a].interval_]
    BY <1>1, <2>1 DEF AfterReset
  <2>4. AddTime(now, timer[a].interval_) \in Nat /\ now + timer[a].interval_ \in Nat
    BY <2>1, <2>2 DEF AddTime, TypeInv
  <2> QED BY <2>3, <2>4
<1>5. \A a \in Restarted :
        /\ timer'[a] \in Timers /\ timer'[a].live
        /\ timer'[a].sequence_ = timer[a].sequence_
        /\ timer'[a].interval_ = timer[a].interval_
  <2> TAKE a \in Restarted
  <2>1. a \in Addresses /\ timer[a] \in Timers /\ timer[a].live
    BY <1>2, <1>3 DEF Live
  <2> QED BY <1>4, <2>1 DEF Timers
<1>6. \A a \in Batch \ Restarted :
        /\ timer'[a] \in Timers /\ ~timer'[a].live
        /\ timer'[a].sequence_ = timer[a].sequence_
  <2> TAKE a \in Batch \ Restarted
  <2>1. timer'[a] = Deleted(timer[a].sequence_) /\ timer[a].sequence_ \in Nat
    BY <1>1, <1>2, <1>3 DEF AfterReset, Timers
  <2> QED BY <2>1 DEF Deleted, Timers
<1>7. \A a \in Addresses \ Batch : timer'[a] = timer[a]
  BY <1>1, <1>2 DEF AfterReset
<1>8. timer' \in [Addresses -> Timers]
  <2>1. timer' = [a \in Addresses |-> timer'[a]]
    BY <1>1 DEF AfterReset
  <2>2. \A a \in Addresses : timer'[a] \in Timers
    BY <1>3, <1>5, <1>6, <1>7
  <2> QED BY <2>1, <2>2
<1>9. \A a \in Addresses :
        /\ timer'[a].sequence_ = timer[a].sequence_
        /\ timer'[a].live <=> timer[a].live /\ a \notin Batch \ Restarted
  <2>1. \A a \in Batch : timer[a].live
    BY <1>2 DEF Live
  <2> QED BY <1>2, <1>5, <1>6, <1>7, <2>1
<1>10. Live' = Live \ (Batch \ Restarted)
  BY <1>9 DEF Live
<1>11. Waiting' = Waiting \cup Restarted
  <2>1. \A b : b \in Waiting' <=> \E entry \in timers_' : entry[2] = b
    BY DEF Waiting
  <2>2. \A b : b \in Waiting <=> \E entry \in timers_ : entry[2] = b
    BY DEF Waiting
  <2>3. \A b : b \in Restarted <=>
          \E entry \in {<<AfterReset[a].expiration_, a>> : a \in Restarted} : entry[2] = b
    <3> TAKE b
    <3>1. ASSUME b \in Restarted
          PROVE  \E entry \in {<<AfterReset[a].expiration_, a>> : a \in Restarted} : entry[2] = b
      <4>1. <<AfterReset[b].expiration_, b>>[2] = b
        OBVIOUS
      <4> QED BY <3>1, <4>1, Zenon
    <3>2. ASSUME NEW entry \in {<<AfterReset[a].expiration_, a>> : a \in Restarted}
          PROVE  entry[2] \in Restarted
      BY <3>2
    <3> QED BY <3>1, <3>2
  <2> QED BY <1>1, <2>1, <2>2, <2>3
<1> QED BY <1>1, <1>2, <1>5, <1>7, <1>8, <1>9, <1>10, <1>11

LEMMA EndHandleReadKeeps ==
  ASSUME IInv, EndHandleRead
  PROVE  IInv'
<1> USE DEF IInv
<1>1. /\ callingExpiredTimers_ /\ next > Len(expired) /\ callingExpiredTimers_' = FALSE
      /\ activeTimers_' = activeTimers_ \cup {TimerId(a) : a \in Restarted}
      /\ timerfd' = IF timers_' = {} THEN timerfd
                    ELSE Deadline(Min({entry[1] : entry \in timers_'}))
      /\ expired' = <<>> /\ next' = 1 /\ now' = 0
      /\ UNCHANGED <<clock, numCreated_, cancelingTimers_, tasks, adding, ids, runs, repeats,
                     cancelled>>
  BY DEF EndHandleRead
<1>2. /\ timer' \in [Addresses -> Timers]
      /\ \A a \in Addresses : timer'[a].sequence_ = timer[a].sequence_
      /\ \A a \in Addresses : timer'[a].live => timer[a].live
      /\ Restarted \subseteq Batch /\ Batch \subseteq Addresses
      /\ \A a \in Addresses \ Batch : timer'[a] = timer[a]
      /\ \A a \in Restarted : timer'[a].interval_ = timer[a].interval_ /\ timer'[a].interval_ > 0
      /\ Live' = Live \ (Batch \ Restarted)
      /\ Waiting' = Waiting \cup Restarted
      /\ timers_' = timers_ \cup {<<timer'[a].expiration_, a>> : a \in Restarted}
  BY Reset
<1>3. Batch' = {} /\ Queued' = Queued
  <2>1. DOMAIN expired' = {}
    BY <1>1
  <2> QED BY <1>1, <2>1, PlacesNext DEF Queued
<1>4. /\ Live = Waiting \cup Batch \cup Queued
      /\ Waiting \cap Batch = {} /\ (Waiting \cup Batch) \cap Queued = {}
      /\ activeTimers_ = {TimerId(b) : b \in Waiting} /\ Waiting \subseteq Addresses
      /\ \A entry \in timers_ : entry[1] = timer[entry[2]].expiration_
  BY OwnedMeans, Places
<1>5. OwnedOnce'
  <2>1. \A entry \in timers_' : entry[1] = timer'[entry[2]].expiration_
    <3> TAKE entry \in timers_'
    <3>1. CASE entry \in timers_
      <4>1. entry[2] \in Waiting
        BY <3>1 DEF Waiting
      <4> QED BY <1>2, <1>4, <3>1, <4>1
    <3>2. CASE entry \notin timers_
      BY <1>2, <3>2
    <3> QED BY <3>1, <3>2
  <2>2. activeTimers_' = {<<a, timer'[a].sequence_>> : a \in Waiting'}
    <3>1. \A a \in Waiting' : a \in Addresses
      BY <1>2, <1>4
    <3>2. activeTimers_' = {TimerId(a) : a \in Waiting'}
      BY <1>1, <1>2, <1>4
    <3>3. \A a \in Waiting' : TimerId(a) = <<a, timer'[a].sequence_>>
      BY <1>2, <3>1 DEF TimerId
    <3> QED BY <3>2, <3>3
  <2> QED BY <1>2, <1>3, <1>4, <2>1, <2>2, OwnedNext
<1>6. timers_' \subseteq Nat \X Addresses
  <2>1. \A a \in Restarted : timer'[a].expiration_ \in Nat
    BY <1>2 DEF Timers
  <2> QED BY <1>2, <2>1 DEF TypeInv
<1>7. timers_' # {} =>
        /\ timerfd' \in Nat
        /\ \A entry \in timers_' : timerfd' <= Deadline(entry[1])
  <2> DEFINE times == {entry[1] : entry \in timers_'}
             first == Min(times)
  <2> SUFFICES ASSUME timers_' # {}
               PROVE  timerfd' \in Nat /\ \A entry \in timers_' : timerfd' <= Deadline(entry[1])
    OBVIOUS
  <2>1. \A e, f \in timers_' : e[2] = f[2] => e = f
    <3> TAKE e, f \in timers_'
    <3>1. e = <<timer'[e[2]].expiration_, e[2]>> /\ f = <<timer'[f[2]].expiration_, f[2]>>
      BY <1>5, <1>6 DEF OwnedOnce
    <3> QED BY <3>1
  <2>2. IsFiniteSet(times)
    BY <1>6, <2>1, FiniteEntries
  <2>3. times \subseteq Nat /\ times # {} /\ \A entry \in timers_' : entry[1] \in times
    BY <1>6
  <2> HIDE DEF times
  <2>4. first \in times /\ \A time \in times : first <= time
    BY <2>2, <2>3, MinIsLeast
  <2>5. timerfd' = Deadline(first)
    BY <1>1 DEF times
  <2> HIDE DEF first
  <2>6. clock \in Nat /\ first \in Nat
    BY <2>3, <2>4 DEF TypeInv
  <2>7. \A entry \in timers_' : Deadline(first) <= Deadline(entry[1])
    <3> TAKE entry \in timers_'
    <3>1. entry[1] \in Nat /\ first <= entry[1]
      BY <2>3, <2>4
    <3> QED BY <2>6, <3>1, DeadlineOrder
  <2>8. Deadline(first) \in Nat
    BY <2>6, DeadlineOrder
  <2> QED BY <2>5, <2>7, <2>8
<1>8. ArmedInv'
  BY <1>1, <1>7 DEF ArmedInv, Deadline, Off
<1>9. TypeInv'
  <2>1. timerfd' \in Int
    BY <1>1, <1>7 DEF TypeInv
  <2>2. expired' \in Seq(Nat \X Addresses)
    BY <1>1
  <2>3. next' \in Nat \ {0} /\ now' \in Nat
    BY <1>1
  <2>4. callingExpiredTimers_' \in BOOLEAN
    BY <1>1, Zenon
  <2> QED BY <1>1, <1>2, <1>6, <2>1, <2>2, <2>3, <2>4 DEF TypeInv
<1>10. SequenceInv'
  <2>1. Known' = Known
    BY <1>1 DEF Known
  <2>2. \A v \in Users : adding[v] # None => adding[v] \in Addresses
    BY DEF TypeInv
  <2> HIDE DEF Known
  <2> QED BY <1>1, <1>2, <2>1, <2>2 DEF SequenceInv
<1>11. TaskInv'
  <2>1. \A k \in DOMAIN tasks : tasks[k][2][1] \in Addresses
    BY Places DEF Ids
  <2> QED BY <1>1, <1>2, <2>1 DEF TaskInv
<1>12. BatchInv'
  BY <1>1 DEF BatchInv
<1>13. RanInv'
  <2>1. \A a \in Live' : a \in Addresses /\ a \in Live /\ (a \in Restarted \/ a \notin Batch)
    BY <1>2 DEF Live
  <2>2. \A a \in Live' : timer'[a].interval_ > 0 <=> timer'[a].sequence_ \in repeats'
    BY <1>1, <1>2, <2>1 DEF RanInv
  <2>3. \A a \in Live' : timer'[a].interval_ = 0 => runs'[timer'[a].sequence_] = 0
    BY <1>1, <1>2, <2>1 DEF RanInv
  <2> QED BY <1>1, <2>2, <2>3 DEF RanInv
<1>14. \A a \in Batch \ Restarted :
         \/ timer[a].sequence_ \in cancelled
         \/ timer[a].sequence_ \notin repeats /\ runs[timer[a].sequence_] = 1
  <2> TAKE a \in Batch \ Restarted
  <2>1. a \in Live /\ a \in Addresses /\ timer[a].interval_ \in Nat
    BY <1>2, <1>4 DEF TypeInv, Timers
  <2>2. CASE timer[a].interval_ > 0
    <3>1. TimerId(a) \in cancelingTimers_
      BY <2>2 DEF Restarted
    <3>2. <<"addTimerInLoop", TimerId(a)>> \notin Range(tasks)
      <4> SUFFICES ASSUME NEW k \in DOMAIN tasks, tasks[k] = <<"addTimerInLoop", TimerId(a)>>
                   PROVE  FALSE
        BY DEF Range
      <4>1. a \in Queued
        BY Places DEF TimerId
      <4> QED BY <1>4, <4>1
    <3>3. TimerId(a)[2] = timer[a].sequence_
      BY DEF TimerId
    <3> QED BY <1>1, <3>1, <3>2, <3>3 DEF CancelInv
  <2>3. CASE timer[a].interval_ = 0
    <3>1. PICK i \in DOMAIN expired : expired[i][2] = a
      BY Places
    <3>2. i < next
      BY <1>1, <3>1, LenProperties DEF TypeInv
    <3> QED BY <2>1, <2>3, <3>1, <3>2 DEF RanInv
  <2> QED BY <2>1, <2>2, <2>3
<1>15. RunsAsAsked'
  <2>1. \A s \in Sequences : s \in Sequences' \/ s \in cancelled \/ (s \notin repeats /\ runs[s] = 1)
    <3> TAKE s \in Sequences
    <3>1. PICK a \in Live : s = timer[a].sequence_
      BY DEF Sequences
    <3>2. a \in Addresses
      BY <3>1 DEF Live
    <3>3. CASE a \in Live'
      BY <1>2, <3>1, <3>2, <3>3 DEF Sequences
    <3>4. CASE a \notin Live'
      BY <1>2, <1>14, <3>1, <3>4
    <3> QED BY <3>3, <3>4
  <2> HIDE DEF IInv
  <2>2. RunsAsAsked
    BY DEF IInv
  <2> QED BY <1>1, <2>1, <2>2 DEF RunsAsAsked
<1>16. CancelledIsGone'
  <2> SUFFICES ASSUME NEW a \in Live', timer'[a].sequence_ \in cancelled PROVE FALSE
    BY <1>1 DEF CancelledIsGone
  <2>1. a \in Live /\ a \in Addresses /\ timer[a].sequence_ \in cancelled
    BY <1>2 DEF Live
  <2>2. a \in Restarted
    BY <1>2, <2>1 DEF CancelledIsGone
  <2>3. TimerId(a) \in cancelingTimers_
    BY <1>1, <1>2, <2>1, <2>2 DEF CancelInv
  <2> QED BY <2>2, <2>3 DEF Restarted
<1>17. CancelInv'
  BY <1>1 DEF CancelInv
<1> QED BY <1>5, <1>8, <1>9, <1>10, <1>11, <1>12, <1>13, <1>15, <1>16, <1>17

-----------------------------------------------------------------------------
(* The other steps *)

LEMMA AddTimerReturnsKeeps ==
  ASSUME IInv, NEW u \in Users, AddTimerReturns(u)
  PROVE  IInv'
<1> DEFINE id == TimerId(adding[u])
<1> USE DEF IInv
<1>1. /\ adding[u] # None /\ ids' = ids \cup {id}
      /\ adding' = [adding EXCEPT ![u] = None]
      /\ UNCHANGED <<clock, numCreated_, timer, timers_, activeTimers_, timerfd,
                     callingExpiredTimers_, expired, next, now, runs, cancelingTimers_, tasks,
                     repeats, cancelled>>
  BY DEF AddTimerReturns, queueVars, batchVars
<1>2. adding[u] \in Addresses
  BY <1>1 DEF TypeInv
<1>3. /\ id \in Ids /\ id[1] = adding[u] /\ id[2] = timer[adding[u]].sequence_
  BY <1>2 DEF TimerId, Ids, TypeInv, Timers
<1>4. TypeInv'
  BY <1>1, <1>3 DEF TypeInv
<1>5. SequenceInv'
  <2>1. Known' = Known \cup {id}
    BY <1>1 DEF Known
  <2>2. \A v \in Users : adding'[v] \in {adding[v], None}
    BY <1>1 DEF TypeInv
  <2>3. /\ id[2] > 0 /\ id[2] <= numCreated_
        /\ \A a \in Addresses : timer[a].sequence_ = id[2] => a = id[1]
    BY <1>1, <1>2, <1>3 DEF SequenceInv
  <2> HIDE DEF Known, id
  <2> QED BY <1>1, <2>1, <2>2, <2>3 DEF SequenceInv
<1>6. TaskInv' /\ BatchInv'
  BY <1>1 DEF TaskInv, BatchInv
<1>7. Batch' = Batch /\ Live' = Live /\ Queued' = Queued /\ Sequences' = Sequences
  BY <1>1 DEF Batch, Live, Queued, Sequences
<1>8. OwnedOnce' /\ RanInv' /\ RunsAsAsked'
  BY <1>1, <1>7 DEF OwnedOnce, RanInv, RunsAsAsked, TimerId
<1>9. CancelInv' /\ CancelledIsGone' /\ ArmedInv'
  BY <1>1, <1>7 DEF CancelInv, CancelledIsGone, ArmedInv, TimerId, Deadline
<1> QED BY <1>4, <1>5, <1>6, <1>8, <1>9

LEMMA CancelUserKeeps ==
  ASSUME IInv, NEW u \in Users, Cancel(u)
  PROVE  IInv'
<1> USE DEF IInv
<1>1. PICK id \in ids : tasks' = Append(tasks, <<"cancelInLoop", id>>) /\ ids' = ids \ {id}
  BY DEF Cancel
<1>2. UNCHANGED <<clock, numCreated_, timer, timers_, activeTimers_, timerfd,
                  callingExpiredTimers_, expired, next, now, runs, cancelingTimers_, adding,
                  repeats, cancelled>>
  BY DEF Cancel, queueVars, batchVars
<1> DEFINE task == <<"cancelInLoop", id>>
<1>3. /\ tasks' \in Seq({"addTimerInLoop", "cancelInLoop"} \X Ids)
      /\ DOMAIN tasks' = DOMAIN tasks \cup {Len(tasks) + 1} /\ Len(tasks) + 1 \notin DOMAIN tasks
      /\ \A k \in DOMAIN tasks : tasks'[k] = tasks[k]
      /\ tasks'[Len(tasks) + 1] = task
  <2>1. tasks \in Seq({"addTimerInLoop", "cancelInLoop"} \X Ids)
        /\ task \in {"addTimerInLoop", "cancelInLoop"} \X Ids
    BY DEF TypeInv
  <2> QED BY <1>1, <2>1, Pushed
<1>4. task[1] # "addTimerInLoop" /\ task[2] = id
  OBVIOUS
<1> HIDE DEF task
<1>5. TypeInv'
  BY <1>1, <1>2, <1>3 DEF TypeInv
<1>6. SequenceInv'
  <2>1. Known' \subseteq Known
    BY <1>1, <1>2, <1>3, <1>4 DEF Known
  <2> HIDE DEF Known
  <2> QED BY <1>2, <2>1 DEF SequenceInv
<1>7. TaskInv' /\ BatchInv'
  <2>1. TaskInv'
    BY <1>2, <1>3, <1>4 DEF TaskInv
  <2> QED BY <1>2, <2>1 DEF BatchInv
<1>8. Batch' = Batch /\ Live' = Live /\ Queued' = Queued /\ Sequences' = Sequences
  <2>1. \A a : a \in Queued' <=> a \in Queued
    BY <1>3, <1>4, Places, PlacesNext
  <2> QED BY <1>2, <2>1 DEF Batch, Live, Sequences
<1>9. OwnedOnce' /\ RanInv' /\ RunsAsAsked'
  BY <1>2, <1>8 DEF OwnedOnce, RanInv, RunsAsAsked, TimerId
<1>10. CancelInv' /\ CancelledIsGone' /\ ArmedInv'
  <2>1. Range(tasks) \subseteq Range(tasks')
    BY <1>3 DEF Range
  <2> QED BY <1>2, <1>8, <2>1 DEF CancelInv, CancelledIsGone, ArmedInv, TimerId, Deadline
<1> QED BY <1>5, <1>6, <1>7, <1>9, <1>10

LEMMA TickKeeps ==
  ASSUME IInv, Tick
  PROVE  IInv'
<1> USE DEF IInv
<1>1. /\ clock' = clock + 1
      /\ UNCHANGED <<numCreated_, timer, timers_, activeTimers_, timerfd,
                     callingExpiredTimers_, expired, next, now, runs, cancelingTimers_, tasks,
                     adding, ids, repeats, cancelled>>
  BY DEF Tick, queueVars, batchVars
<1>2. ArmedInv'
  <2> SUFFICES ASSUME ~callingExpiredTimers_, NEW entry \in timers_
               PROVE  timerfd # Off /\ timerfd <= Deadline(entry[1])'
    BY <1>1 DEF ArmedInv
  <2>1. timerfd \in Int /\ timerfd # Off /\ timerfd <= Deadline(entry[1])
    BY DEF ArmedInv, TypeInv
  <2>2. clock \in Nat /\ entry[1] \in Nat
    BY DEF TypeInv
  <2>3. Deadline(entry[1]) \in Nat /\ Deadline(entry[1]) <= Deadline(entry[1])'
    <3> DEFINE e == entry[1]
    <3>1. e \in Nat /\ e' = e
      BY <2>2
    <3> HIDE DEF e
    <3>2. Deadline(e) \in Nat /\ Deadline(e) <= Deadline(e)'
      BY <1>1, <2>2, <3>1, DeadlineOrder
    <3> QED BY <3>2 DEF e
  <2>4. Deadline(entry[1])' \in Int
    <3>1. clock' \in Nat
      BY <1>1, <2>2
    <3>2. entry[1] >= clock' => (entry[1] - clock') \div kMicroSecondsPerSecond \in Nat
      BY <2>2, <3>1, DivOrder, UnitAssumption
    <3> QED BY <2>2, <3>1, <3>2 DEF Deadline
  <2> QED BY <2>1, <2>3, <2>4
<1>3. TypeInv'
  BY <1>1 DEF TypeInv
<1>4. SequenceInv' /\ TaskInv' /\ BatchInv'
  BY <1>1 DEF SequenceInv, TaskInv, BatchInv, Known
<1>5. Batch' = Batch /\ Live' = Live /\ Queued' = Queued /\ Sequences' = Sequences
  BY <1>1 DEF Batch, Live, Queued, Sequences
<1>6. OwnedOnce' /\ RanInv' /\ RunsAsAsked'
  BY <1>1, <1>5 DEF OwnedOnce, RanInv, RunsAsAsked, TimerId
<1>7. CancelInv' /\ CancelledIsGone'
  BY <1>1, <1>5 DEF CancelInv, CancelledIsGone, TimerId
<1> QED BY <1>2, <1>3, <1>4, <1>6, <1>7

-----------------------------------------------------------------------------
(* The invariant holds *)

LEMMA InitIInv == Init => IInv
<1> SUFFICES ASSUME Init PROVE IInv
  OBVIOUS
<1> USE DEF Init
<1>1. TypeInv
  <2>1. timer \in [Addresses -> Timers]
    <3>1. Deleted(0) \in Timers
      BY DEF Deleted, Timers
    <3> QED BY <3>1
  <2>2. adding \in [Users -> Addresses \cup {None}] /\ runs \in [1 .. MaxTimers -> Nat]
    OBVIOUS
  <2>3. callingExpiredTimers_ \in BOOLEAN
    BY Zenon
  <2>4. clock \in Nat /\ now \in Nat /\ timerfd \in Int /\ next \in Nat \ {0}
    BY DEF Off
  <2> QED BY <2>1, <2>2, <2>3, <2>4, BoundAssumption DEF TypeInv
<1>2. \A a \in Addresses : timer[a].sequence_ = 0 /\ ~timer[a].live
  BY DEF Deleted
<1>3. DOMAIN tasks = {} /\ DOMAIN expired = {}
  OBVIOUS
<1>4. Batch = {} /\ Queued = {} /\ Live = {} /\ Range(tasks) = {}
  BY <1>2, <1>3 DEF Batch, Queued, Live, Range
<1>5. SequenceInv
  BY <1>2, <1>3 DEF SequenceInv, Known
<1>6. TaskInv /\ BatchInv /\ CancelInv /\ ArmedInv
  BY <1>3 DEF TaskInv, BatchInv, CancelInv, ArmedInv
<1>7. OwnedOnce
  BY <1>4 DEF OwnedOnce
<1>8. RanInv /\ RunsAsAsked /\ CancelledIsGone
  BY <1>3, <1>4 DEF RanInv, RunsAsAsked, CancelledIsGone
<1> QED BY <1>1, <1>5, <1>6, <1>7, <1>8 DEF IInv

LEMMA NextIInv == IInv /\ [Next]_vars => IInv'
<1> SUFFICES ASSUME IInv, [Next]_vars PROVE IInv'
  OBVIOUS
<1>1. ASSUME NEW u \in Users, NEW a \in Addresses, NEW kind \in Kinds, AddTimer(u, a, kind)
      PROVE  IInv'
  BY <1>1, AddTimerKeeps
<1>2. ASSUME NEW u \in Users, AddTimerReturns(u) \/ Cancel(u) PROVE IInv'
  BY <1>2, AddTimerReturnsKeeps, CancelUserKeeps
<1>3. ASSUME NEW a \in Addresses, NEW kind \in Kinds, AddTimerHere(a, kind) PROVE IInv'
  BY <1>3, AddTimerHereKeeps
<1>4. CASE CancelHere
  BY <1>4, CancelHereKeeps
<1>5. CASE RunTask
  BY <1>5, RunAddKeeps, RunCancelKeeps
<1>6. CASE HandleRead
  BY <1>6, HandleReadKeeps
<1>7. CASE RunTimer
  BY <1>7, RunTimerKeeps
<1>8. CASE EndHandleRead
  BY <1>8, EndHandleReadKeeps
<1>9. CASE Tick
  BY <1>9, TickKeeps
<1>10. CASE UNCHANGED vars
  <2>1. Batch' = Batch /\ Live' = Live /\ Queued' = Queued /\ Sequences' = Sequences
        /\ Known' = Known
    BY <1>10 DEF vars, queueVars, batchVars, Batch, Live, Queued, Sequences, Known
  <2>2. TypeInv' /\ SequenceInv' /\ TaskInv' /\ BatchInv'
    BY <1>10, <2>1 DEF vars, IInv, TypeInv, SequenceInv, TaskInv, BatchInv
  <2>3. OwnedOnce' /\ RanInv' /\ RunsAsAsked'
    BY <1>10, <2>1 DEF vars, IInv, OwnedOnce, RanInv, RunsAsAsked, TimerId
  <2>4. CancelInv' /\ CancelledIsGone' /\ ArmedInv'
    BY <1>10, <2>1 DEF vars, IInv, CancelInv, CancelledIsGone, ArmedInv, TimerId, Deadline
  <2> QED BY <2>2, <2>3, <2>4 DEF IInv
<1> QED BY <1>1, <1>2, <1>3, <1>4, <1>5, <1>6, <1>7, <1>8, <1>9, <1>10 DEF Next

LEMMA Inductive == Spec => []IInv
BY InitIInv, NextIInv, PTL DEF Spec

\* A timer has one owner: the waiting timers (in both of the sets that hold these), the
\* batch handleRead runs, or a functor on its way; so its Timer is deleted once, and not
\* used after that.
THEOREM TimerOwnedOnce == Spec => []OwnedOnce
<1>1. IInv => OwnedOnce
  BY DEF IInv
<1> QED BY <1>1, Inductive, PTL

\* A timer runs once, or until cancelled if it repeats, and only these end it.
THEOREM TimerRunsAsAsked == Spec => []RunsAsAsked
<1>1. IInv => RunsAsAsked
  BY DEF IInv
<1> QED BY <1>1, Inductive, PTL

\* A timer that was cancelled, in a callback even, does not come back.
THEOREM TimerCancelledIsGone == Spec => []CancelledIsGone
<1>1. IInv => CancelledIsGone
  BY DEF IInv
<1> QED BY <1>1, Inductive, PTL

\* The timerfd is set while a timer waits, for no later than the first of them.
THEOREM TimerTimerfdArmed == Spec => []TimerfdArmed
<1>1. IInv => TimerfdArmed
  <2> DEFINE times == {entry[1] : entry \in timers_}
  <2> SUFFICES ASSUME IInv, ~callingExpiredTimers_, timers_ # {}
               PROVE  timerfd # Off /\ timerfd <= Deadline(Min(times))
    BY DEF TimerfdArmed
  <2>1. \A e, f \in timers_ : e[2] = f[2] => e = f
    <3> TAKE e, f \in timers_
    <3>1. e = <<timer[e[2]].expiration_, e[2]>> /\ f = <<timer[f[2]].expiration_, f[2]>>
      BY DEF IInv, TypeInv, OwnedOnce
    <3> QED BY <3>1
  <2>2. IsFiniteSet(times) /\ times \subseteq Nat /\ times # {}
    <3>1. timers_ \subseteq Nat \X Addresses
      BY DEF IInv, TypeInv
    <3>2. IsFiniteSet(times)
      BY <2>1, <3>1, FiniteEntries
    <3> QED BY <3>1, <3>2
  <2>3. \A time \in times : timerfd # Off /\ timerfd <= Deadline(time)
    BY DEF IInv, ArmedInv
  <2> HIDE DEF times
  <2> QED BY <2>2, <2>3, MinIsLeast
<1> QED BY <1>1, Inductive, PTL
=============================================================================
