---------------------------- MODULE LoggerProofs ----------------------------
(***************************************************************************)
(* For any threads, loggers, appenders, configurations and patterns: the   *)
(* items of an event stand together in what an appender has written.       *)
(***************************************************************************)
EXTENDS Logger, SequenceTheorems, TLAPS

-----------------------------------------------------------------------------
(* Sequences *)

\* ConcatProperties, with the lengths as they are known.
LEMMA ConcatAt ==
  ASSUME NEW S, NEW s \in Seq(S), NEW t \in Seq(S), NEW m, NEW n, Len(s) = m, Len(t) = n
  PROVE  /\ s \o t \in Seq(S) /\ Len(s \o t) = m + n
         /\ \A i \in 1 .. m + n : (s \o t)[i] = IF i <= m THEN s[i] ELSE t[i - m]
BY ConcatProperties

\* The n elements behind the first k
LEMMA SubSeqAt ==
  ASSUME NEW S, NEW s \in Seq(S), NEW k \in Nat, NEW n \in Nat, k + n <= Len(s)
  PROVE  /\ SubSeq(s, k + 1, k + n) \in Seq(S)
         /\ Len(SubSeq(s, k + 1, k + n)) = n
         /\ \A i \in 1 .. n : SubSeq(s, k + 1, k + n)[i] = s[k + i]
<1> DEFINE t == SubSeq(s, k + 1, k + n)
<1>1. \A i \in k + 1 .. k + n : s[i] \in S
  <2>1. Len(s) \in Nat
    BY LenProperties
  <2>2. \A i \in k + 1 .. k + n : i \in 1 .. Len(s)
    BY <2>1
  <2> QED BY <2>2, ElementOfSeq
<1>2. /\ t \in Seq(S)
      /\ Len(t) = IF k + 1 <= k + n THEN (k + n) - (k + 1) + 1 ELSE 0
      /\ \A i \in 1 .. (k + n) - (k + 1) + 1 : t[i] = s[(k + 1) + i - 1]
  <2> DEFINE p == k + 1
             q == k + n
  <2>1. p \in Int /\ q \in Int /\ \A i \in p .. q : s[i] \in S
    BY <1>1
  <2> HIDE DEF p, q
  <2>2. /\ SubSeq(s, p, q) \in Seq(S)
        /\ Len(SubSeq(s, p, q)) = IF p <= q THEN q - p + 1 ELSE 0
        /\ \A i \in 1 .. q - p + 1 : SubSeq(s, p, q)[i] = s[p + i - 1]
    BY <2>1, SubSeqProperties
  <2> QED BY <2>2 DEF p, q
<1> HIDE DEF t
<1>3. (k + n) - (k + 1) + 1 = n /\ (k + 1 <= k + n <=> n # 0)
  OBVIOUS
<1>4. \A i \in 1 .. n : (k + 1) + i - 1 = k + i
  OBVIOUS
<1>5. Len(t) = n
  BY <1>2, <1>3
<1>6. \A i \in 1 .. n : t[i] = s[k + i]
  BY <1>2, <1>3, <1>4
<1> QED BY <1>2, <1>5, <1>6 DEF t

-----------------------------------------------------------------------------
(* The inductive invariant *)

\* The patterns there may be, and None
Formats ==
  Patterns \cup {DefaultPattern, None}
  \cup UNION {{LogConfig(file)[n].formatter : n \in DOMAIN LogConfig(file)} : file \in Files}

Loggers == [level_ : Nat, appenders_ : Seq(Appender), formatter_ : Formats,
            root_ : {Root, None}]
Appenders == [level_ : Garbage, hasFormatter_ : BOOLEAN, lastTime_ : Nat, formatter_ : Formats]
Parts == [event : Nat, pattern : Formats, part : Nat]

\* What a thread is at: nothing, or it logs, adds an appender or sets a formatter.
LogPc == {"enter", "next", "reopen", "stamp", "lock", "format"}
AddPc == {"ask", "give", "push"}
Logging == [pc : LogPc, at : Name, k : Nat \ {0}, part : Nat \ {0},
            event : [id : Nat, level : Levels, time : Nat]]
Adding == [pc : AddPc, at : Name, apd : Appender]
Setting == [pc : {"set"}, at : Name, k : Nat \ {0}]
Work == {Idle} \cup Logging \cup Adding \cup Setting

TypeInv ==
  /\ DOMAIN loggers_ \subseteq Name /\ loggers_ \in [DOMAIN loggers_ -> Loggers]
  /\ apds \in [Appender -> Appenders]
  /\ out \in [Appender -> Seq(Parts)]
  /\ mtx \in [Name -> Thread \cup {None}]
  /\ amtx \in [Appender -> Thread \cup {None}]
  /\ th \in [Thread -> Work]
  /\ root_ \in {Root, None} /\ now \in Nat /\ ops \in Nat

\* The root logger a logger has, and the one new loggers get, are in the map.
RootInv ==
  /\ root_ \in DOMAIN loggers_ \cup {None}
  /\ \A n \in DOMAIN loggers_ : loggers_[n].root_ \in DOMAIN loggers_ \cup {None}

\* A thread inside a call holds the mutex of the logger it is at, so the list it goes
\* through does not change, and it is not past its end where it is at an appender.
AtAppender == {"reopen", "stamp", "lock", "format"}
Holds(t) ==
  th[t].pc # "idle" =>
    /\ th[t].at \in DOMAIN loggers_
    /\ th[t].pc # "enter" => mtx[th[t].at] = t
    /\ th[t].pc \in AtAppender => th[t].k \in DOMAIN loggers_[th[t].at].appenders_

\* An appender's mutex is held by the thread that writes to it.
Writes(t) == \A a \in Appender : amtx[a] = t <=> th[t].pc = "format" /\ Target(t) = a

HoldInv == \A t \in Thread : Holds(t) /\ Writes(t)

\* What an appender has written ends with a whole line, or with the part of it that the
\* thread holding its mutex has written.
Complete(s) == s = <<>> \/ s[Len(s)].part = Len(Items(s[Len(s)].pattern))
Partial(s, r, pattern) ==
  IF r.part = 1 THEN Complete(s)
  ELSE /\ s # <<>> /\ Items(pattern) # <<>>
       /\ s[Len(s)] = [event |-> r.event.id, pattern |-> pattern, part |-> r.part - 1]

LineInv ==
  \A a \in Appender :
    IF amtx[a] = None THEN Complete(out[a])
    ELSE Partial(out[a], th[amtx[a]], apds[a].formatter_)

IInv == TypeInv /\ RootInv /\ HoldInv /\ LineInv /\ LinesWhole

-----------------------------------------------------------------------------
(* Lemmas about the parts of a state *)

\* The records threads work with
LEMMA WorkIs ==
  ASSUME NEW r \in Work
  PROVE  /\ r.pc = "idle" => r = Idle
         /\ r.pc \in LogPc => r \in Logging
         /\ r.pc \in AddPc => r \in Adding
         /\ r.pc = "set" => r \in Setting
         /\ r.pc \in {"idle", "set"} \cup LogPc \cup AddPc
BY DEF Work, Idle, Logging, Adding, Setting, LogPc, AddPc

\* What a step of another thread leaves to u: it is where it was, holds what it held, and
\* the lists of the loggers it holds are as they were.
LEMMA OtherKeeps ==
  ASSUME IInv, NEW u \in Thread, th'[u] = th[u],
         DOMAIN loggers_ \subseteq DOMAIN loggers_',
         \A n \in Name : mtx[n] = u => mtx'[n] = u,
         \A n \in DOMAIN loggers_ : mtx[n] = u =>
           loggers_'[n].appenders_ = loggers_[n].appenders_,
         \A a \in Appender : amtx'[a] = u <=> amtx[a] = u
  PROVE  Holds(u)' /\ Writes(u)'
<1>1. Holds(u) /\ Writes(u) /\ DOMAIN loggers_ \subseteq Name
  BY DEF IInv, HoldInv, TypeInv
<1>2. Holds(u)'
  BY <1>1 DEF Holds, AtAppender
<1>3. th[u].pc = "format" => Target(u)' = Target(u)
  BY <1>1 DEF Target, Holds
<1>4. Writes(u)'
  BY <1>1, <1>3 DEF Writes
<1> QED BY <1>2, <1>4

\* Nothing is written, no appender's mutex changes hands, and a line that is being
\* written keeps its formatter.
LEMMA QuietLines ==
  ASSUME IInv, out' = out, amtx' = amtx,
         \A t \in Thread : th[t].pc = "format" => th'[t] = th[t],
         \A a \in Appender : amtx[a] # None => apds'[a].formatter_ = apds[a].formatter_
  PROVE  LineInv' /\ LinesWhole'
<1>1. \A a \in Appender : amtx[a] \in Thread \cup {None}
  BY DEF IInv, TypeInv
<1>2. \A a \in Appender : amtx[a] # None => th'[amtx[a]] = th[amtx[a]]
  BY <1>1 DEF IInv, HoldInv, Writes
<1>3. LineInv'
  <2> SUFFICES ASSUME NEW a \in Appender
               PROVE  IF amtx[a] = None THEN Complete(out[a])
                      ELSE Partial(out[a], th'[amtx[a]], apds'[a].formatter_)
    BY DEF LineInv
  <2>1. IF amtx[a] = None THEN Complete(out[a])
        ELSE Partial(out[a], th[amtx[a]], apds[a].formatter_)
    BY DEF IInv, LineInv
  <2> QED BY <1>2, <2>1
<1>4. LinesWhole'
  BY DEF IInv, LinesWhole
<1> QED BY <1>3, <1>4


-----------------------------------------------------------------------------
(* The initial state *)

LEMMA FormatsAre ==
  /\ DefaultPattern \in Formats /\ None \in Formats
  /\ \A p \in Patterns : p \in Formats
  /\ \A file \in Files : \A n \in DOMAIN LogConfig(file) :
       LogConfig(file)[n].formatter \in Formats
BY DEF Formats

\* What loadConfig makes of a configuration
LEMMA LoadedIs ==
  ASSUME NEW file \in Files, NEW L, L = LoadConfig(file)
  PROVE  /\ DOMAIN L \subseteq Name /\ L \in [DOMAIN L -> Loggers]
         /\ \A n \in DOMAIN L : L[n].root_ \in DOMAIN L \cup {None}
<1>1. CASE ~ParseSuc(file)
  <2> DEFINE appender == CHOOSE a \in Appender : a \notin FileAppender
             r == [NewLogger(None) EXCEPT !.appenders_ = <<appender>>]
  <2>1. appender \in Appender
    BY LoggerAssumption
  <2>2. L = [n \in {Root} |-> r]
    BY <1>1 DEF LoadConfig
  <2> HIDE DEF appender
  <2>3. r = [level_ |-> 1, appenders_ |-> <<appender>>, formatter_ |-> DefaultPattern,
             root_ |-> None]
    BY DEF NewLogger
  <2>4. r \in Loggers
    <3>1. <<appender>> \in Seq(Appender)
      BY <2>1
    <3> HIDE DEF r
    <3> QED BY <2>3, <3>1, FormatsAre DEF Loggers
  <2> HIDE DEF r
  <2>5. r.root_ = None
    BY <2>3
  <2> QED BY <2>2, <2>4, <2>5, LoggerAssumption
<1>2. CASE ParseSuc(file)
  <2> DEFINE config == LogConfig(file)
  <2>1. L = [n \in DOMAIN config |-> Configured(config, n)]
    BY <1>2 DEF LoadConfig
  <2>2. ASSUME NEW n \in DOMAIN config
        PROVE  /\ Configured(config, n) \in Loggers
               /\ Configured(config, n).root_ \in DOMAIN config \cup {None}
    <3> DEFINE c == config[n]
    <3>1. FromString(c.level) \in Nat
      BY DEF FromString, LevelNames
    <3>2. c.appenders \in Seq(Appender)
      BY FilesAssumption
    <3>3. Accepted(c.formatter, DefaultPattern) \in Formats
      BY FormatsAre DEF Accepted
    <3>4. RootOf(config, n) \in {Root, None} /\ RootOf(config, n) \in DOMAIN config \cup {None}
      BY DEF RootOf
    <3> HIDE DEF c, config
    <3> QED BY <3>1, <3>2, <3>3, <3>4 DEF Configured, Loggers, c
  <2>3. DOMAIN config \subseteq Name
    BY FilesAssumption
  <2> HIDE DEF config
  <2> QED BY <2>1, <2>2, <2>3
<1> QED BY <1>1, <1>2

LEMMA InitIInv == Init => IInv
<1> SUFFICES ASSUME Init PROVE IInv
  OBVIOUS
<1>1. PICK file \in Files : loggers_ = LoadConfig(file)
  BY DEF Init
<1>2. /\ DOMAIN loggers_ \subseteq Name /\ loggers_ \in [DOMAIN loggers_ -> Loggers]
      /\ \A n \in DOMAIN loggers_ : loggers_[n].root_ \in DOMAIN loggers_ \cup {None}
  BY <1>1, LoadedIs
<1>3. apds \in [Appender -> Appenders]
  <2>1. ASSUME NEW a \in Appender
        PROVE  FirstFormatter(loggers_, a) \in Formats
    BY <1>2, FormatsAre DEF FirstFormatter, Loggers
  <2> DEFINE Lasts == {l \in [Appender -> {0, MaxTime}] :
                         \A a \in Appender \ FileAppender : l[a] = 0}
             Made(level, has, last) ==
               [a \in Appender |->
                  [level_ |-> level[a], hasFormatter_ |-> has[a], lastTime_ |-> last[a],
                   formatter_ |-> FirstFormatter(loggers_, a)]]
  <2>2. apds \in {Made(level, has, last) : level \in [Appender -> Garbage],
                                          has \in [Appender -> BOOLEAN], last \in Lasts}
    BY SMTT(60) DEF Init
  <2>3. \A l \in Lasts : l \in [Appender -> {0, MaxTime}]
    OBVIOUS
  <2> HIDE DEF Lasts, Made
  <2>4. PICK level \in [Appender -> Garbage], has \in [Appender -> BOOLEAN],
             last \in [Appender -> {0, MaxTime}] : apds = Made(level, has, last)
    BY <2>2, <2>3
  <2> USE DEF Made
  <2>5. ASSUME NEW a \in Appender
        PROVE  has[a] \in BOOLEAN /\ level[a] \in Garbage /\ last[a] \in Nat
    BY LoggerAssumption
  <2> QED BY <2>1, <2>4, <2>5, Zenon DEF Appenders
<1>4. TypeInv
  BY <1>2, <1>3, LoggerAssumption DEF Init, TypeInv, Work
<1>5. RootInv
  BY <1>2 DEF Init, RootInv
<1>6. HoldInv
  BY LoggerAssumption DEF Init, HoldInv, Holds, Writes, Idle
<1>7. LineInv
  BY DEF Init, LineInv, Complete
<1>8. LinesWhole
  BY DEF Init, LinesWhole
<1> QED BY <1>4, <1>5, <1>6, <1>7, <1>8 DEF IInv

-----------------------------------------------------------------------------
(* Steps that leave the threads where they are *)

\* A logger of the map, its list included, may change while nobody holds its mutex.
LEMMA LoggersChange ==
  ASSUME IInv, NEW L, L = loggers_',
         DOMAIN loggers_ \subseteq DOMAIN L, DOMAIN L \subseteq Name,
         L \in [DOMAIN L -> Loggers],
         \A n \in DOMAIN L : L[n].root_ \in DOMAIN L \cup {None},
         \A n \in DOMAIN loggers_ : mtx[n] # None =>
           L[n].appenders_ = loggers_[n].appenders_,
         UNCHANGED <<root_, apds, out, mtx, amtx, th, now>>, ops' \in Nat
  PROVE  IInv'
<1>1. TypeInv'
  BY DEF IInv, TypeInv
<1>2. RootInv'
  BY DEF IInv, RootInv
<1>3. HoldInv'
  <2> SUFFICES ASSUME NEW u \in Thread PROVE Holds(u)' /\ Writes(u)'
    BY DEF HoldInv
  <2> QED BY OtherKeeps, LoggerAssumption
<1>4. LineInv' /\ LinesWhole'
  BY QuietLines
<1> QED BY <1>1, <1>2, <1>3, <1>4 DEF IInv

LEMMA GetLoggerKeeps ==
  ASSUME IInv, NEW n \in Name, GetLogger(n)
  PROVE  IInv'
<1>1. NewLogger(root_) \in Loggers /\ NewLogger(root_).root_ = root_
  <2>1. root_ \in {Root, None}
    BY DEF IInv, TypeInv
  <2> QED BY <2>1, FormatsAre DEF NewLogger, Loggers
<1>2. /\ DOMAIN loggers_' = DOMAIN loggers_ \cup {n}
      /\ loggers_'[n] = NewLogger(root_)
      /\ \A m \in DOMAIN loggers_ : loggers_'[m] = loggers_[m]
      /\ loggers_' \in [DOMAIN loggers_' -> Loggers]
  BY <1>1 DEF GetLogger, IInv, TypeInv
<1>3. \A m \in DOMAIN loggers_' : loggers_'[m].root_ \in DOMAIN loggers_' \cup {None}
  BY <1>1, <1>2 DEF IInv, RootInv
<1>4. ops' \in Nat
  BY DEF GetLogger, IInv, TypeInv
<1> QED BY <1>2, <1>3, <1>4, LoggersChange DEF GetLogger, IInv, TypeInv


LEMMA RemoveAtIs ==
  ASSUME NEW s \in Seq(Appender), NEW k \in DOMAIN s
  PROVE  RemoveAt(s, k) \in Seq(Appender)
<1>1. k \in 1 .. Len(s) /\ Len(s) \in Nat
  BY LenProperties
<1>2. SubSeq(s, 1, k - 1) \in Seq(Appender) /\ SubSeq(s, k + 1, Len(s)) \in Seq(Appender)
  BY <1>1, SubSeqAt
<1> QED BY <1>2, ConcatAt DEF RemoveAt

LEMMA ListKeeps ==
  ASSUME IInv, NEW n \in DOMAIN loggers_, NEW t \in Thread, mtx[n] = None,
         NEW s \in Seq(Appender), loggers_' = [loggers_ EXCEPT ![n].appenders_ = s], Calls,
         UNCHANGED <<root_, apds, out, mtx, amtx, th, now>>
  PROVE  IInv'
<1>1. loggers_[n] \in Loggers /\ DOMAIN loggers_ \subseteq Name
  BY DEF IInv, TypeInv
<1>2. /\ DOMAIN loggers_' = DOMAIN loggers_
      /\ \A m \in DOMAIN loggers_ : m # n => loggers_'[m] = loggers_[m]
      /\ loggers_'[n] = [loggers_[n] EXCEPT !.appenders_ = s]
  BY DEF IInv, TypeInv
<1>3. loggers_'[n] \in Loggers /\ loggers_'[n].root_ = loggers_[n].root_
  BY <1>1, <1>2 DEF Loggers
<1>4. loggers_' \in [DOMAIN loggers_' -> Loggers]
  BY <1>2, <1>3 DEF IInv, TypeInv
<1>5. ops' \in Nat
  BY DEF Calls, IInv, TypeInv
<1>6. \A m \in DOMAIN loggers_' : loggers_'[m].root_ \in DOMAIN loggers_' \cup {None}
  BY <1>2, <1>3 DEF IInv, RootInv
<1> QED BY <1>1, <1>2, <1>4, <1>5, <1>6, LoggersChange

LEMMA ListsKeep ==
  ASSUME IInv, NEW t \in Thread, NEW n \in Name, NEW a \in Appender,
         RemoveAppender(t, n, a) \/ ClearAppender(t, n)
  PROVE  IInv'
<1>1. CASE RemoveAppender(t, n, a)
  <2>1. PICK k \in DOMAIN loggers_[n].appenders_ :
          loggers_' = [loggers_ EXCEPT ![n].appenders_ = RemoveAt(@, k)]
    BY <1>1 DEF RemoveAppender
  <2>2. n \in DOMAIN loggers_ /\ loggers_[n].appenders_ \in Seq(Appender)
    BY <1>1 DEF RemoveAppender, IInv, TypeInv, Loggers
  <2> DEFINE s == RemoveAt(loggers_[n].appenders_, k)
  <2>3. s \in Seq(Appender)
    BY <2>2, RemoveAtIs
  <2>4. loggers_' = [loggers_ EXCEPT ![n].appenders_ = s]
    BY <2>1
  <2> HIDE DEF s
  <2> QED BY <1>1, <2>2, <2>3, <2>4, ListKeeps DEF RemoveAppender
<1>2. CASE ClearAppender(t, n)
  <2>1. <<>> \in Seq(Appender)
    OBVIOUS
  <2> QED BY <1>2, <2>1, ListKeeps DEF ClearAppender
<1> QED BY <1>1, <1>2

LEMMA SetLevelKeeps ==
  ASSUME IInv, NEW t \in Thread, NEW n \in Name, NEW level \in Levels, SetLevel(t, n, level)
  PROVE  IInv'
<1>1. /\ n \in DOMAIN loggers_ /\ loggers_[n] \in Loggers /\ DOMAIN loggers_ \subseteq Name
      /\ level \in Nat
  BY LoggerAssumption DEF IInv, TypeInv, SetLevel
<1>2. /\ DOMAIN loggers_' = DOMAIN loggers_
      /\ \A m \in DOMAIN loggers_ : m # n => loggers_'[m] = loggers_[m]
      /\ loggers_'[n] = [loggers_[n] EXCEPT !.level_ = level]
  BY DEF IInv, TypeInv, SetLevel
<1>3. /\ loggers_'[n] \in Loggers /\ loggers_'[n].root_ = loggers_[n].root_
      /\ loggers_'[n].appenders_ = loggers_[n].appenders_
  BY <1>1, <1>2 DEF Loggers
<1>4. loggers_' \in [DOMAIN loggers_' -> Loggers]
  BY <1>2, <1>3 DEF IInv, TypeInv, SetLevel
<1>5. ops' \in Nat
  BY DEF Calls, SetLevel, IInv, TypeInv
<1>6. \A m \in DOMAIN loggers_' : loggers_'[m].root_ \in DOMAIN loggers_' \cup {None}
  BY <1>2, <1>3 DEF IInv, RootInv
<1> QED BY <1>1, <1>2, <1>3, <1>4, <1>5, <1>6, LoggersChange DEF SetLevel

LEMMA AppenderSetFormatterKeeps ==
  ASSUME IInv, NEW t \in Thread, NEW a \in Appender, NEW p \in Patterns,
         AppenderSetFormatter(t, a, p)
  PROVE  IInv'
<1>1. apds' \in [Appender -> Appenders]
  <2>1. p \in Formats /\ apds \in [Appender -> Appenders]
    BY FormatsAre DEF IInv, TypeInv
  <2>2. [apds[a] EXCEPT !.formatter_ = p, !.hasFormatter_ = TRUE] \in Appenders
    BY <2>1 DEF Appenders
  <2>3. apds' = [apds EXCEPT ![a] = [apds[a] EXCEPT !.formatter_ = p, !.hasFormatter_ = TRUE]]
    BY <2>1 DEF AppenderSetFormatter
  <2> QED BY <2>1, <2>2, <2>3
<1>2. TypeInv' /\ RootInv'
  BY <1>1 DEF AppenderSetFormatter, Calls, IInv, TypeInv, RootInv
<1>3. HoldInv'
  <2> SUFFICES ASSUME NEW u \in Thread PROVE Holds(u)' /\ Writes(u)'
    BY DEF HoldInv
  <2> QED BY OtherKeeps DEF AppenderSetFormatter
<1>4. LineInv' /\ LinesWhole'
  <2>1. \A b \in Appender : amtx[b] # None => apds'[b].formatter_ = apds[b].formatter_
    BY DEF AppenderSetFormatter, Free, IInv, TypeInv
  <2> QED BY <2>1, QuietLines DEF AppenderSetFormatter
<1> QED BY <1>2, <1>3, <1>4 DEF IInv

LEMMA TickKeeps ==
  ASSUME IInv, Tick \/ UNCHANGED vars
  PROVE  IInv'
<1>1. now' \in Nat /\ UNCHANGED <<loggers_, root_, apds, out, mtx, amtx, th, ops>>
  BY DEF Tick, vars, IInv, TypeInv
<1>2. TypeInv' /\ RootInv'
  BY <1>1 DEF IInv, TypeInv, RootInv
<1>3. HoldInv'
  <2> SUFFICES ASSUME NEW u \in Thread PROVE Holds(u)' /\ Writes(u)'
    BY DEF HoldInv
  <2> QED BY <1>1, OtherKeeps
<1>4. LineInv' /\ LinesWhole'
  BY <1>1, QuietLines
<1> QED BY <1>2, <1>3, <1>4 DEF IInv


-----------------------------------------------------------------------------
(* Steps of a thread that writes nothing *)

\* The thread t goes on to r, where it holds what r needs; the mutexes it takes were free,
\* and it gives up only its own.
LEMMA GoKeeps ==
  ASSUME IInv, NEW t \in Thread, NEW r \in Work, Go(t, r),
         th[t].pc # "format", r.pc # "format",
         r.pc # "idle" => r.at \in DOMAIN loggers_,
         r.pc \notin {"idle", "enter"} => mtx'[r.at] = t,
         r.pc \in AtAppender => r.k \in DOMAIN loggers_'[r.at].appenders_,
         UNCHANGED <<root_, out, amtx, now>>,
         \A n \in DOMAIN loggers_ : mtx[n] # None /\ mtx[n] # t =>
           loggers_'[n].appenders_ = loggers_[n].appenders_,
         DOMAIN loggers_' = DOMAIN loggers_, loggers_' \in [DOMAIN loggers_ -> Loggers],
         \A n \in DOMAIN loggers_ : loggers_'[n].root_ = loggers_[n].root_,
         mtx' \in [Name -> Thread \cup {None}],
         \A n \in Name : mtx[n] # None /\ mtx[n] # t => mtx'[n] = mtx[n],
         apds' \in [Appender -> Appenders],
         \A a \in Appender : amtx[a] # None => apds'[a].formatter_ = apds[a].formatter_,
         ops' \in Nat
  PROVE  IInv'
<1>1. th' = [th EXCEPT ![t] = r] /\ th \in [Thread -> Work]
  BY DEF Go, IInv, TypeInv
<1>2. TypeInv'
  BY <1>1 DEF IInv, TypeInv
<1>3. RootInv'
  BY DEF IInv, RootInv
<1>4. HoldInv'
  <2> SUFFICES ASSUME NEW u \in Thread PROVE Holds(u)' /\ Writes(u)'
    BY DEF HoldInv
  <2>1. CASE u # t
    <3>1. th'[u] = th[u] /\ u # None
      BY <1>1, <2>1, LoggerAssumption
    <3> QED BY <2>1, <3>1, OtherKeeps
  <2>2. CASE u = t
    <3>1. th'[t] = r
      BY <1>1
    <3>2. Holds(t)'
      BY <3>1 DEF Holds, AtAppender
    <3>3. Writes(t)
      BY DEF IInv, HoldInv
    <3>4. Writes(t)'
      BY <3>1, <3>3 DEF Writes
    <3> QED BY <2>2, <3>2, <3>4
  <2> QED BY <2>1, <2>2
<1>5. LineInv' /\ LinesWhole'
  BY <1>1, QuietLines
<1> QED BY <1>2, <1>3, <1>4, <1>5 DEF IInv

\* What a thread inside a call is and holds
LEMMA Inside ==
  ASSUME IInv, NEW t \in Thread
  PROVE  /\ th[t] \in Work
         /\ th[t].pc # "idle" => th[t].at \in DOMAIN loggers_ /\ th[t].at \in Name
         /\ th[t].pc \notin {"idle", "enter"} => mtx[th[t].at] = t
         /\ th[t].pc \in AtAppender =>
              /\ th[t].k \in DOMAIN loggers_[th[t].at].appenders_
              /\ Target(t) \in Appender
<1>1. th[t] \in Work /\ Holds(t) /\ DOMAIN loggers_ \subseteq Name
  BY DEF IInv, TypeInv, HoldInv
<1>2. th[t].pc \in AtAppender =>
        /\ th[t].k \in DOMAIN loggers_[th[t].at].appenders_
        /\ Target(t) \in Appender
  BY <1>1 DEF Holds, AtAppender, Target, IInv, TypeInv, Loggers
<1> QED BY <1>1, <1>2 DEF Holds

\* The loggers, appenders and clock of a step that touches none of these
LEMMA Same ==
  ASSUME IInv
  PROVE  /\ loggers_ \in [DOMAIN loggers_ -> Loggers] /\ DOMAIN loggers_ \subseteq Name
         /\ apds \in [Appender -> Appenders] /\ ops \in Nat
         /\ mtx \in [Name -> Thread \cup {None}]
         /\ \A n \in DOMAIN loggers_ : loggers_[n].appenders_ \in Seq(Appender)
BY DEF IInv, TypeInv, Loggers

LEMMA IdleWork == Idle \in Work /\ Idle.pc = "idle"
BY DEF Work, Idle

\* After Releases the mutexes of the others are as they were.
LEMMA ReleasesIs ==
  ASSUME IInv, NEW t \in Thread, Releases(t)
  PROVE  /\ mtx' \in [Name -> Thread \cup {None}]
         /\ \A n \in Name : mtx[n] # None /\ mtx[n] # t => mtx'[n] = mtx[n]
BY Same DEF Releases

LEMMA LogKeeps ==
  ASSUME IInv, NEW t \in Thread, NEW n \in Name, NEW level \in Levels, Log(t, n, level)
  PROVE  IInv'
<1> DEFINE r == [pc |-> "enter", at |-> n, k |-> 1, part |-> 1,
                 event |-> Event(ops, level, now)]
<1>1. now \in Nat /\ ops \in Nat
  BY DEF IInv, TypeInv
<1>2. r \in Work /\ r.pc = "enter" /\ r.at = n
  BY <1>1 DEF Work, Logging, LogPc, Event
<1>3. Go(t, r) /\ th[t].pc = "idle" /\ n \in DOMAIN loggers_
  BY DEF Log
<1>4. ops' \in Nat
  BY <1>1 DEF Log, Calls
<1> HIDE DEF r
<1> QED BY <1>2, <1>3, <1>4, Same, GoKeeps DEF Log, AtAppender

LEMMA BeginAddKeeps ==
  ASSUME IInv, NEW t \in Thread, NEW n \in Name, NEW a \in Appender, BeginAdd(t, n, a)
  PROVE  IInv'
<1> DEFINE r == [pc |-> "ask", at |-> n, apd |-> a]
<1>1. r \in Work /\ r.pc = "ask" /\ r.at = n
  BY DEF Work, Adding, AddPc
<1>2. Go(t, r) /\ th[t].pc = "idle" /\ n \in DOMAIN loggers_
  BY DEF BeginAdd
<1>3. ops' \in Nat
  BY Same DEF BeginAdd, Calls
<1>4. /\ mtx' \in [Name -> Thread \cup {None}] /\ mtx'[n] = t
      /\ \A m \in Name : mtx[m] # None => mtx'[m] = mtx[m]
  BY Same DEF BeginAdd
<1> HIDE DEF r
<1> QED BY <1>1, <1>2, <1>3, <1>4, Same, GoKeeps DEF BeginAdd, AtAppender

LEMMA BeginSetKeeps ==
  ASSUME IInv, NEW t \in Thread, NEW n \in Name, NEW p \in Patterns, BeginSet(t, n, p)
  PROVE  IInv'
<1> DEFINE r == [pc |-> "set", at |-> n, k |-> 1]
<1>1. r \in Work /\ r.pc = "set" /\ r.at = n
  BY DEF Work, Setting
<1>2. Go(t, r) /\ th[t].pc = "idle" /\ n \in DOMAIN loggers_
  BY DEF BeginSet
<1>3. ops' \in Nat
  BY Same DEF BeginSet, Calls
<1>4. /\ mtx' \in [Name -> Thread \cup {None}] /\ mtx'[n] = t
      /\ \A m \in Name : mtx[m] # None => mtx'[m] = mtx[m]
  BY Same DEF BeginSet
<1>5. loggers_' = [loggers_ EXCEPT ![n].formatter_ = p]
  BY DEF BeginSet
<1>6. /\ loggers_' \in [DOMAIN loggers_ -> Loggers] /\ DOMAIN loggers_' = DOMAIN loggers_
      /\ \A m \in DOMAIN loggers_ : /\ loggers_'[m].root_ = loggers_[m].root_
                                    /\ loggers_'[m].appenders_ = loggers_[m].appenders_
  BY <1>2, <1>5, Same, FormatsAre DEF Loggers
<1> HIDE DEF r
<1> QED BY <1>1, <1>2, <1>3, <1>4, <1>6, Same, GoKeeps DEF BeginSet, AtAppender


\* A logging thread whose place is another
LEMMA LoggingOn ==
  ASSUME NEW r \in Logging
  PROVE  /\ \A p \in LogPc : LET q == [r EXCEPT !.pc = p]
                             IN  q \in Work /\ q.pc = p /\ q.at = r.at /\ q.k = r.k
         /\ LET q == [r EXCEPT !.k = @ + 1]
            IN  q \in Work /\ q.pc = r.pc /\ q.at = r.at /\ q.k = r.k + 1
         /\ \A n \in Name : LET q == [r EXCEPT !.at = n]
                            IN  q \in Work /\ q.pc = r.pc /\ q.at = n
BY DEF Logging, Work

LEMMA EnterKeeps ==
  ASSUME IInv, NEW t \in Thread, Enter(t)
  PROVE  IInv'
<1> DEFINE n == th[t].at
           l == loggers_[n]
<1>1. th[t].pc = "enter" /\ th[t] \in Logging /\ n \in DOMAIN loggers_ /\ n \in Name
  BY Inside, WorkIs DEF Enter, LogPc
<1>2. UNCHANGED <<loggers_, root_, apds, out, amtx, now, ops>>
  BY DEF Enter
<1>3. CASE Releases(t) /\ Go(t, Idle)
  BY <1>1, <1>2, <1>3, ReleasesIs, IdleWork, Same, GoKeeps DEF AtAppender
<1>4. ASSUME mtx[n] = None, mtx' = [mtx EXCEPT ![n] = t]
      PROVE  /\ mtx' \in [Name -> Thread \cup {None}] /\ mtx'[n] = t
             /\ \A m \in Name : mtx[m] # None => mtx'[m] = mtx[m]
  BY <1>1, <1>4, Same
<1>5. CASE /\ mtx[n] = None /\ mtx' = [mtx EXCEPT ![n] = t]
           /\ Go(t, [th[t] EXCEPT !.pc = "next"])
  <2> DEFINE r == [th[t] EXCEPT !.pc = "next"]
  <2>1. r \in Work /\ r.pc = "next" /\ r.at = n
    BY <1>1, LoggingOn DEF LogPc
  <2> HIDE DEF r, n
  <2> QED BY <1>1, <1>2, <1>4, <1>5, <2>1, Same, GoKeeps DEF AtAppender, r
<1>6. CASE /\ mtx[n] = None /\ mtx' = [mtx EXCEPT ![n] = t]
           /\ l.root_ # None /\ Go(t, [th[t] EXCEPT !.at = l.root_])
  <2> DEFINE r == [th[t] EXCEPT !.at = l.root_]
  <2>1. l.root_ \in DOMAIN loggers_ /\ l.root_ \in Name
    BY <1>1, <1>6, Same DEF IInv, RootInv
  <2>2. r \in Work /\ r.pc = "enter" /\ r.at = l.root_
    BY <1>1, <2>1, LoggingOn
  <2> HIDE DEF r, l, n
  <2> QED BY <1>1, <1>2, <1>4, <1>6, <2>1, <2>2, Same, GoKeeps DEF AtAppender, r
<1>7. \/ Releases(t) /\ Go(t, Idle)
      \/ /\ mtx[n] = None /\ mtx' = [mtx EXCEPT ![n] = t]
         /\ Go(t, [th[t] EXCEPT !.pc = "next"])
      \/ /\ mtx[n] = None /\ mtx' = [mtx EXCEPT ![n] = t]
         /\ l.root_ # None /\ Go(t, [th[t] EXCEPT !.at = l.root_])
  BY Zenon DEF Enter
<1> QED BY <1>3, <1>5, <1>6, <1>7

LEMMA NextAppenderKeeps ==
  ASSUME IInv, NEW t \in Thread, NextAppender(t)
  PROVE  IInv'
<1> DEFINE n == th[t].at
           s == loggers_[n].appenders_
<1>1. /\ th[t].pc = "next" /\ th[t] \in Logging /\ n \in DOMAIN loggers_ /\ n \in Name
      /\ mtx[n] = t /\ s \in Seq(Appender) /\ th[t].k \in Nat \ {0}
  <2>1. th[t].pc = "next" /\ th[t] \in Logging
    BY Inside, WorkIs DEF NextAppender, LogPc
  <2>2. n \in DOMAIN loggers_ /\ n \in Name /\ mtx[n] = t
    BY <2>1, Inside
  <2> QED BY <2>1, <2>2, Same DEF Logging
<1>2. UNCHANGED <<loggers_, root_, apds, out, amtx, now, ops>>
  BY DEF NextAppender
<1>3. CASE Releases(t) /\ Go(t, Idle)
  BY <1>1, <1>2, <1>3, ReleasesIs, IdleWork, Same, GoKeeps DEF AtAppender
<1>4. CASE mtx' = mtx /\ Go(t, [th[t] EXCEPT !.k = @ + 1])
  <2> DEFINE r == [th[t] EXCEPT !.k = @ + 1]
  <2>1. r \in Work /\ r.pc = "next" /\ r.at = n
    BY <1>1, LoggingOn
  <2> HIDE DEF r, n
  <2> QED BY <1>1, <1>2, <1>4, <2>1, Same, GoKeeps DEF AtAppender, r
<1>5. ASSUME NEW p \in {"reopen", "lock"}, th[t].k <= Len(s),
             mtx' = mtx, Go(t, [th[t] EXCEPT !.pc = p])
      PROVE  IInv'
  <2> DEFINE r == [th[t] EXCEPT !.pc = p]
  <2>1. r \in Work /\ r.pc = p /\ r.at = n /\ r.k = th[t].k
    <3>1. p \in LogPc
      BY <1>5 DEF LogPc
    <3> QED BY <1>1, <3>1, LoggingOn
  <2>2. th[t].k \in DOMAIN s
    BY <1>1, <1>5, LenProperties
  <2> HIDE DEF r, n
  <2> QED BY <1>1, <1>2, <1>5, <2>1, <2>2, Same, GoKeeps DEF AtAppender, r
<1>6. CASE th[t].k > Len(s)
  BY <1>3, <1>6 DEF NextAppender
<1>7. CASE ~(th[t].k > Len(s))
  <2>1. Len(s) \in Nat
    BY <1>1, LenProperties
  <2>2. th[t].k <= Len(s)
    BY <1>1, <1>7, <2>1
  <2>3. /\ mtx' = mtx
        /\ \/ Go(t, [th[t] EXCEPT !.k = @ + 1])
           \/ \E p \in {"reopen", "lock"} : Go(t, [th[t] EXCEPT !.pc = p])
    BY <1>7, Zenon DEF NextAppender
  <2> QED BY <1>4, <1>5, <2>2, <2>3
<1> QED BY <1>6, <1>7

\* The time of an event is a number, like what it replaces.
LEMMA StampKeeps ==
  ASSUME IInv, NEW t \in Thread, Stamp(t)
  PROVE  IInv'
<1> DEFINE n == th[t].at
           r == [th[t] EXCEPT !.pc = "lock"]
           a == Target(t)
<1>1. /\ th[t].pc = "stamp" /\ th[t] \in Logging /\ n \in DOMAIN loggers_
      /\ mtx[n] = t /\ th[t].k \in DOMAIN loggers_[n].appenders_ /\ a \in Appender
  <2>1. th[t].pc = "stamp" /\ th[t] \in Logging
    BY Inside, WorkIs DEF Stamp, LogPc
  <2> QED BY <2>1, Inside DEF AtAppender
<1>2. r \in Work /\ r.pc = "lock" /\ r.at = n /\ r.k = th[t].k
  BY <1>1, LoggingOn DEF LogPc
<1>3. th[t].event.time \in Nat
  BY <1>1 DEF Logging
<1>4. apds' = [apds EXCEPT ![a].lastTime_ = th[t].event.time]
  BY DEF Stamp
<1> HIDE DEF a, r, n
<1>5. /\ apds' \in [Appender -> Appenders]
      /\ \A b \in Appender : apds'[b].formatter_ = apds[b].formatter_
  BY <1>1, <1>3, <1>4, Same DEF Appenders
<1> QED BY <1>1, <1>2, <1>5, Same, GoKeeps DEF Stamp, AtAppender, r

LEMMA AddingOn ==
  ASSUME NEW r \in Adding
  PROVE  \A p \in AddPc : LET q == [r EXCEPT !.pc = p]
                          IN  q \in Work /\ q.pc = p /\ q.at = r.at
BY DEF Adding, Work

LEMMA AskFormatterKeeps ==
  ASSUME IInv, NEW t \in Thread, AskFormatter(t)
  PROVE  IInv'
<1> DEFINE n == th[t].at
<1>1. th[t].pc = "ask" /\ th[t] \in Adding /\ n \in DOMAIN loggers_ /\ mtx[n] = t
  <2>1. th[t].pc = "ask" /\ th[t] \in Adding
    BY Inside, WorkIs DEF AskFormatter, AddPc
  <2> QED BY <2>1, Inside
<1>2. PICK p \in {"give", "push"} : Go(t, [th[t] EXCEPT !.pc = p])
  BY Zenon DEF AskFormatter
<1> DEFINE r == [th[t] EXCEPT !.pc = p]
<1>3. r \in Work /\ r.pc = p /\ r.at = n
  BY <1>1, AddingOn DEF AddPc
<1> HIDE DEF r, n
<1> QED BY <1>1, <1>2, <1>3, Same, GoKeeps DEF AskFormatter, AtAppender, r

LEMMA GiveFormatterKeeps ==
  ASSUME IInv, NEW t \in Thread, GiveFormatter(t)
  PROVE  IInv'
<1> DEFINE n == th[t].at
           r == [th[t] EXCEPT !.pc = "push"]
           a == th[t].apd
           f == loggers_[n].formatter_
<1>1. /\ th[t].pc = "give" /\ th[t] \in Adding /\ a \in Appender
      /\ n \in DOMAIN loggers_ /\ mtx[n] = t
  <2>1. th[t].pc = "give" /\ th[t] \in Adding
    BY Inside, WorkIs DEF GiveFormatter, AddPc
  <2> QED BY <2>1, Inside DEF Adding
<1>2. r \in Work /\ r.pc = "push" /\ r.at = n
  BY <1>1, AddingOn DEF AddPc
<1>3. f \in Formats
  BY <1>1, Same DEF Loggers
<1>4. apds' = [apds EXCEPT ![a].formatter_ = f] /\ amtx[a] = None
  BY DEF GiveFormatter
<1> HIDE DEF a, r, n, f
<1>5. /\ apds' \in [Appender -> Appenders]
      /\ \A b \in Appender : amtx[b] # None => apds'[b].formatter_ = apds[b].formatter_
  BY <1>1, <1>3, <1>4, Same DEF Appenders
<1> QED BY <1>1, <1>2, <1>5, Same, GoKeeps DEF GiveFormatter, AtAppender, r

LEMMA PushAppenderKeeps ==
  ASSUME IInv, NEW t \in Thread, PushAppender(t)
  PROVE  IInv'
<1> DEFINE n == th[t].at
           s == Append(loggers_[n].appenders_, th[t].apd)
<1>1. /\ th[t].pc = "push" /\ th[t] \in Adding
      /\ n \in DOMAIN loggers_ /\ mtx[n] = t /\ n \in Name
  <2>1. th[t].pc = "push" /\ th[t] \in Adding
    BY Inside, WorkIs DEF PushAppender, AddPc
  <2> QED BY <2>1, Inside
<1>2. s \in Seq(Appender)
  BY <1>1, Same, AppendProperties DEF Adding
<1>3. loggers_' = [loggers_ EXCEPT ![n].appenders_ = s]
  BY DEF PushAppender
<1> HIDE DEF s, n
<1>4. /\ loggers_' \in [DOMAIN loggers_ -> Loggers] /\ DOMAIN loggers_' = DOMAIN loggers_
      /\ \A m \in DOMAIN loggers_ : /\ loggers_'[m].root_ = loggers_[m].root_
                                    /\ m # n => loggers_'[m].appenders_ = loggers_[m].appenders_
  BY <1>1, <1>2, <1>3, Same DEF Loggers
<1> QED BY <1>1, <1>4, ReleasesIs, IdleWork, Same, GoKeeps DEF PushAppender, AtAppender

LEMMA SetNextKeeps ==
  ASSUME IInv, NEW t \in Thread, SetNext(t)
  PROVE  IInv'
<1> DEFINE n == th[t].at
           s == loggers_[n].appenders_
<1>1. /\ th[t].pc = "set" /\ th[t] \in Setting /\ n \in DOMAIN loggers_ /\ n \in Name
      /\ mtx[n] = t /\ s \in Seq(Appender) /\ th[t].k \in Nat \ {0}
  <2>1. th[t].pc = "set" /\ th[t] \in Setting
    BY Inside, WorkIs DEF SetNext
  <2>2. n \in DOMAIN loggers_ /\ n \in Name /\ mtx[n] = t
    BY <2>1, Inside
  <2> QED BY <2>1, <2>2, Same DEF Setting
<1>2. UNCHANGED <<loggers_, root_, out, amtx, now, ops>>
  BY DEF SetNext
<1>3. CASE th[t].k > Len(s)
  <2>1. Releases(t) /\ Go(t, Idle) /\ UNCHANGED apds
    BY <1>3 DEF SetNext
  <2> QED BY <1>1, <1>2, <2>1, ReleasesIs, IdleWork, Same, GoKeeps DEF AtAppender
<1>4. CASE ~(th[t].k > Len(s))
  <2> DEFINE a == Target(t)
             r == [th[t] EXCEPT !.k = @ + 1]
             f == IF apds[a].hasFormatter_ THEN apds[a].formatter_ ELSE loggers_[n].formatter_
  <2>1. th[t].k \in DOMAIN s
    BY <1>1, <1>4, LenProperties
  <2>2. a \in Appender
    BY <1>1, <2>1 DEF Target
  <2>3. r \in Work /\ r.pc = "set" /\ r.at = n
    BY <1>1 DEF Setting, Work
  <2>4. f \in Formats
    BY <1>1, <2>2, Same DEF Loggers, Appenders
  <2>5. /\ apds' = [apds EXCEPT ![a].formatter_ = f] /\ amtx[a] = None
        /\ Go(t, r) /\ UNCHANGED mtx
    BY <1>4 DEF SetNext, Free
  <2> HIDE DEF a, r, n, f
  <2>6. /\ apds' \in [Appender -> Appenders]
        /\ \A b \in Appender : amtx[b] # None => apds'[b].formatter_ = apds[b].formatter_
    BY <2>2, <2>4, <2>5, Same DEF Appenders
  <2> QED BY <1>1, <1>2, <2>3, <2>5, <2>6, Same, GoKeeps DEF AtAppender
<1> QED BY <1>3, <1>4


-----------------------------------------------------------------------------
(* Steps of a thread that writes *)

\* Where t, at its appender, is the only thread that moves and that appender the only one
\* whose mutex or output changes: what the other threads and appenders need still holds.
Moves(t, r) ==
  /\ Go(t, r) /\ th[t].pc \in AtAppender /\ r \in Logging
  /\ r.pc # "enter" /\ r.at = th[t].at /\ (r.pc \in AtAppender => r.k = th[t].k)
  /\ UNCHANGED <<loggers_, root_, apds, mtx, now, ops>>
Put(f, a, v) == [f EXCEPT ![a] = v]
OthersFine(a) ==
  \A b \in Appender \ {a} :
    /\ out'[b] = out[b]
    /\ IF amtx'[b] = None THEN Complete(out'[b])
       ELSE Partial(out'[b], th'[amtx'[b]], apds'[b].formatter_)

Moved(t, r, a, s, h) ==
  /\ TypeInv' /\ RootInv' /\ HoldInv' /\ OthersFine(a)
  /\ th'[t] = r /\ out'[a] = s /\ amtx'[a] = h

LEMMA AtKeeps ==
  ASSUME IInv, NEW t \in Thread, NEW r, Moves(t, r),
         NEW a, a = Target(t), a \in Appender, amtx[a] \in {t, None},
         NEW s, out' = Put(out, a, s), s \in Seq(Parts),
         NEW h, amtx' = Put(amtx, a, h), h = (IF r.pc = "format" THEN t ELSE None)
  PROVE  Moved(t, r, a, s, h)
<1> USE DEF Moves, Put
<1>1. /\ th' = [th EXCEPT ![t] = r] /\ th \in [Thread -> Work] /\ r \in Work
      /\ out \in [Appender -> Seq(Parts)] /\ amtx \in [Appender -> Thread \cup {None}]
  BY DEF Go, IInv, TypeInv, Work
<1>2. TypeInv' /\ RootInv'
  BY <1>1 DEF IInv, TypeInv, RootInv
<1>3. Holds(t) /\ Writes(t)
  BY DEF IInv, HoldInv
<1>4. \A b \in Appender \ {a} : amtx[b] # t /\ amtx'[b] = amtx[b] /\ out'[b] = out[b]
  BY <1>1, <1>3 DEF Writes
<1>5. HoldInv'
  <2> SUFFICES ASSUME NEW u \in Thread PROVE Holds(u)' /\ Writes(u)'
    BY DEF HoldInv
  <2>1. CASE u # t
    <3>1. th'[u] = th[u] /\ u # None
      BY <1>1, <2>1, LoggerAssumption
    <3>2. \A b \in Appender : amtx'[b] = u <=> amtx[b] = u
      BY <1>1, <1>4, <2>1, <3>1
    <3> QED BY <3>1, <3>2, OtherKeeps
  <2>2. CASE u = t
    <3>1. th'[t] = r
      BY <1>1
    <3>2. Holds(t)'
      BY <1>3, <3>1 DEF Holds, AtAppender
    <3>3. r.pc = "format" => Target(t)' = a
      BY <3>1 DEF Target, AtAppender
    <3>4. Writes(t)'
      BY <1>1, <1>4, <3>1, <3>3, LoggerAssumption DEF Writes
    <3> QED BY <2>2, <3>2, <3>4
  <2> QED BY <2>1, <2>2
<1>6. ASSUME NEW b \in Appender \ {a}
      PROVE  IF amtx'[b] = None THEN Complete(out'[b])
             ELSE Partial(out'[b], th'[amtx'[b]], apds'[b].formatter_)
  <2>1. amtx[b] # None => th'[amtx[b]] = th[amtx[b]]
    BY <1>1, <1>4
  <2>2. IF amtx[b] = None THEN Complete(out[b])
        ELSE Partial(out[b], th[amtx[b]], apds[b].formatter_)
    BY DEF IInv, LineInv
  <2> QED BY <1>4, <2>1, <2>2
<1> QED BY <1>1, <1>2, <1>4, <1>5, <1>6 DEF OthersFine, Moved

\* The thread and the appender it is at
LEMMA AtIs ==
  ASSUME IInv, NEW t \in Thread, th[t].pc \in AtAppender
  PROVE  /\ th[t] \in Logging /\ Target(t) \in Appender
         /\ out[Target(t)] \in Seq(Parts)
         /\ out \in [Appender -> Seq(Parts)] /\ amtx \in [Appender -> Thread \cup {None}]
         /\ th[t].pc = "format" => amtx[Target(t)] = t
         /\ IF amtx[Target(t)] = None THEN Complete(out[Target(t)])
            ELSE Partial(out[Target(t)], th[amtx[Target(t)]], apds[Target(t)].formatter_)
<1>1. th[t] \in Logging
  BY Inside, WorkIs DEF AtAppender, LogPc
<1>2. Target(t) \in Appender
  BY Inside DEF AtAppender
<1> QED BY <1>1, <1>2 DEF IInv, TypeInv, HoldInv, Writes, LineInv

\* A line is whole as far as it is written: what LinesWhole says of one appender
Whole(s) ==
  \A i \in 1 .. Len(s) :
    /\ i = 1 => s[i].part = 1
    /\ s[i].part < Len(Items(s[i].pattern)) /\ i < Len(s) =>
         s[i + 1] = [s[i] EXCEPT !.part = @ + 1]
    /\ i > 1 /\ s[i].part = 1 => s[i - 1].part = Len(Items(s[i - 1].pattern))

LEMMA WholeIs == LinesWhole <=> \A a \in Appender : Whole(out[a])
BY DEF LinesWhole, Whole

\* The next part of a line, or the first after a whole one, keeps what is there whole.
LEMMA AppendWhole ==
  ASSUME NEW s \in Seq(Parts), Whole(s), NEW r \in Logging, NEW f \in Formats,
         Partial(s, r, f), NEW w, w = [event |-> r.event.id, pattern |-> f, part |-> r.part]
  PROVE  Append(s, w) \in Seq(Parts) /\ Whole(Append(s, w))
<1>1. w \in Parts /\ w.part = r.part /\ r.part \in Nat \ {0}
  BY DEF Parts, Logging
<1> DEFINE q == Append(s, w)
           n == Len(s)
<1>2. /\ q \in Seq(Parts) /\ n \in Nat /\ Len(q) = n + 1 /\ q[n + 1] = w
      /\ \A i \in 1 .. n : q[i] = s[i] /\ s[i] \in Parts
  BY <1>1, AppendProperties, LenProperties
<1>3. n = 0 <=> s = <<>>
  BY EmptySeq
<1>4. CASE n = 0
  <2>1. w.part = 1
    BY <1>1, <1>3, <1>4 DEF Partial
  <2> HIDE DEF q, n
  <2>2. Whole(q)
    BY <1>2, <1>4, <2>1 DEF Whole
  <2> QED BY <1>2, <2>2 DEF q
<1>5. CASE n > 0
  <2>1. \/ w.part = 1 /\ s[n].part = Len(Items(s[n].pattern))
        \/ w.part # 1 /\ w = [s[n] EXCEPT !.part = @ + 1]
    BY <1>1, <1>3, <1>5 DEF Partial, Complete
  <2>2. s[n].part \in Nat
    BY <1>2, <1>5 DEF Parts
  <2> HIDE DEF q, n
  <2>3. Whole(q)
    <3> SUFFICES ASSUME NEW i \in 1 .. n + 1
                 PROVE  /\ i = 1 => q[i].part = 1
                        /\ q[i].part < Len(Items(q[i].pattern)) /\ i < n + 1 =>
                             q[i + 1] = [q[i] EXCEPT !.part = @ + 1]
                        /\ i > 1 /\ q[i].part = 1 =>
                             q[i - 1].part = Len(Items(q[i - 1].pattern))
      BY <1>2 DEF Whole
    <3>1. CASE i < n
      <4>1. i \in 1 .. n /\ i + 1 \in 1 .. n /\ (i > 1 => i - 1 \in 1 .. n)
        BY <1>2, <3>1
      <4> QED BY <1>2, <3>1, <4>1 DEF Whole, n
    <3>2. CASE i = n
      <4>1. i \in 1 .. n /\ (i > 1 => i - 1 \in 1 .. n) /\ q[i + 1] = w /\ q[i] = s[n]
        BY <1>2, <1>5, <3>2
      <4>2. q[i].part < Len(Items(q[i].pattern)) => q[i + 1] = [q[i] EXCEPT !.part = @ + 1]
        BY <2>1, <2>2, <4>1
      <4> QED BY <1>2, <3>2, <4>1, <4>2 DEF Whole, n
    <3>3. CASE i = n + 1
      <4>1. i - 1 = n /\ q[i] = w /\ q[n] = s[n] /\ i # 1 /\ ~(i < n + 1)
        BY <1>2, <1>5, <3>3
      <4> QED BY <2>1, <4>1
    <3> QED BY <1>2, <3>1, <3>2, <3>3
  <2> QED BY <1>2, <2>3 DEF q
<1> QED BY <1>2, <1>4, <1>5

LEMMA ReopenKeeps ==
  ASSUME IInv, NEW t \in Thread, Reopen(t)
  PROVE  IInv'
<1> DEFINE a == Target(t)
           r == [th[t] EXCEPT !.pc = "stamp"]
           empty == <<>>
<1>1. th[t].pc \in AtAppender /\ th[t].pc = "reopen"
  BY DEF Reopen, AtAppender
<1>2. /\ th[t] \in Logging /\ a \in Appender /\ amtx[a] = None
      /\ amtx \in [Appender -> Thread \cup {None}] /\ out' = Put(out, a, empty)
  BY <1>1, AtIs DEF Reopen, OpenForWrite, Put
<1>3. r \in Logging /\ r.pc = "stamp" /\ r.at = th[t].at /\ r.k = th[t].k
  BY <1>2 DEF Logging, LogPc
<1>4. amtx' = Put(amtx, a, None) /\ a = Target(t) /\ Moves(t, r)
  BY <1>1, <1>2, <1>3 DEF Reopen, Moves, Put
<1>5. empty \in Seq(Parts) /\ Complete(empty) /\ Len(empty) = 0 /\ t # None
  BY LoggerAssumption DEF Complete
<1> HIDE DEF r, a, empty
<1>6. Moved(t, r, a, empty, None)
  <2>1. amtx[a] \in {t, None} /\ None = (IF r.pc = "format" THEN t ELSE None)
    BY <1>2, <1>3
  <2> QED BY <1>2, <1>4, <1>5, <2>1, AtKeeps
<1>7. LineInv'
  BY <1>5, <1>6 DEF LineInv, OthersFine, Moved
<1>8. \A b \in Appender : Whole(out[b])
  BY WholeIs DEF IInv
<1>9. \A b \in Appender : Whole(out'[b])
  BY <1>5, <1>6, <1>8 DEF Whole, OthersFine, Moved
<1>10. LinesWhole'
  BY <1>9 DEF LinesWhole, Whole
<1> QED BY <1>6, <1>7, <1>10 DEF IInv, Moved

\* A logging thread that starts a line, and one that goes on with it or leaves it
LEMMA LockedIs ==
  ASSUME NEW q \in Logging
  PROVE  LET r == [q EXCEPT !.pc = "format", !.part = 1]
         IN  r \in Logging /\ r.pc = "format" /\ r.at = q.at /\ r.k = q.k /\ r.part = 1
<1> DEFINE m == [q EXCEPT !.pc = "format"]
           r == [m EXCEPT !.part = 1]
<1>1. m \in Logging /\ m.pc = "format" /\ m.at = q.at /\ m.k = q.k
  BY DEF Logging, LogPc
<1>2. r = [q EXCEPT !.pc = "format", !.part = 1]
  OBVIOUS
<1> HIDE DEF m
<1>3. r \in Logging /\ r.pc = "format" /\ r.at = q.at /\ r.k = q.k /\ r.part = 1
  BY <1>1 DEF Logging
<1> HIDE DEF r
<1> QED BY <1>2, <1>3

LEMMA FormattedIs ==
  ASSUME NEW q \in Logging
  PROVE  /\ LET r == [q EXCEPT !.pc = "next", !.k = @ + 1]
            IN  r \in Logging /\ r.pc = "next" /\ r.at = q.at
         /\ LET r == [q EXCEPT !.part = @ + 1]
            IN  /\ r \in Logging /\ r.pc = q.pc /\ r.at = q.at /\ r.k = q.k
                /\ r.part = q.part + 1 /\ r.event = q.event
<1> DEFINE m == [q EXCEPT !.pc = "next"]
           r == [m EXCEPT !.k = @ + 1]
           g == [q EXCEPT !.part = @ + 1]
<1>1. m \in Logging /\ m.pc = "next" /\ m.at = q.at
  BY DEF Logging, LogPc
<1>2. r = [q EXCEPT !.pc = "next", !.k = @ + 1]
  BY DEF Logging
<1>3. /\ g \in Logging /\ g.pc = q.pc /\ g.at = q.at /\ g.k = q.k
      /\ g.part = q.part + 1 /\ g.event = q.event
  BY DEF Logging
<1> HIDE DEF m, g
<1>4. r \in Logging /\ r.pc = "next" /\ r.at = q.at
  BY <1>1 DEF Logging
<1> HIDE DEF r
<1> QED BY <1>2, <1>3, <1>4 DEF g

LEMMA LockKeeps ==
  ASSUME IInv, NEW t \in Thread, Lock(t)
  PROVE  IInv'
<1> DEFINE a == Target(t)
           r == [th[t] EXCEPT !.pc = "format", !.part = 1]
<1>1. th[t].pc \in AtAppender /\ th[t].pc = "lock"
  BY DEF Lock, AtAppender
<1>2. /\ th[t] \in Logging /\ a \in Appender /\ amtx[a] = None
      /\ out[a] \in Seq(Parts) /\ out' = Put(out, a, out[a]) /\ Complete(out[a])
      /\ amtx' = Put(amtx, a, t)
  <2>1. out' = out /\ out \in [Appender -> Seq(Parts)] /\ a \in Appender
    BY <1>1, AtIs DEF Lock
  <2>2. out' = Put(out, a, out[a])
    BY <2>1 DEF Put
  <2>3. amtx[a] = None /\ amtx' = Put(amtx, a, t)
    BY DEF Lock, Hold, Put
  <2> QED BY <1>1, <2>1, <2>2, <2>3, AtIs
<1>3. r \in Logging /\ r.pc = "format" /\ r.at = th[t].at /\ r.k = th[t].k /\ r.part = 1
  BY <1>2, LockedIs
<1>4. Moves(t, r) /\ t # None /\ a = Target(t)
  BY <1>1, <1>2, <1>3, LoggerAssumption DEF Lock, Moves
<1> HIDE DEF r, a
<1>6. Moved(t, r, a, out[a], t)
  <2>1. amtx[a] \in {t, None} /\ t = (IF r.pc = "format" THEN t ELSE None)
    BY <1>2, <1>3
  <2> QED BY <1>2, <1>3, <1>4, <2>1, AtKeeps
<1>7. LineInv'
  BY <1>2, <1>3, <1>4, <1>6 DEF LineInv, Partial, OthersFine, Moved
<1>8. LinesWhole'
  BY DEF IInv, Lock, LinesWhole
<1> QED BY <1>6, <1>7, <1>8 DEF IInv, Moved


\* An item is written after those of its line before it, by the thread with the mutex; the
\* formatter is the one they were written with, since nobody sets it meanwhile.
LEMMA FormatKeeps ==
  ASSUME IInv, NEW t \in Thread, Format(t)
  PROVE  IInv'
<1> DEFINE a == Target(t)
           f == apds[a].formatter_
           s == out[a]
           w == [event |-> th[t].event.id, pattern |-> f, part |-> th[t].part]
           n == Len(Items(f))
           leaving == [th[t] EXCEPT !.pc = "next", !.k = @ + 1]
           going == [th[t] EXCEPT !.part = @ + 1]
           done == Items(f) = <<>> \/ th[t].part = n
<1>1. th[t].pc \in AtAppender /\ th[t].pc = "format" /\ t # None
  BY LoggerAssumption DEF Format, AtAppender
<1>2. /\ th[t] \in Logging /\ a \in Appender /\ amtx[a] = t /\ s \in Seq(Parts)
      /\ out \in [Appender -> Seq(Parts)] /\ amtx \in [Appender -> Thread \cup {None}]
      /\ Partial(s, th[t], f) /\ f \in Formats
  <2>1. f \in Formats
    BY <1>1, AtIs, Same DEF Appenders
  <2> QED BY <1>1, <2>1, AtIs
<1>3. /\ leaving \in Logging /\ leaving.pc = "next" /\ leaving.at = th[t].at
      /\ going \in Logging /\ going.pc = "format" /\ going.at = th[t].at
      /\ going.k = th[t].k /\ going.part = th[t].part + 1
      /\ going.event = th[t].event
  BY <1>1, <1>2, FormattedIs
<1>4. /\ out' = IF Items(f) = <<>> THEN out ELSE [out EXCEPT ![a] = Append(s, w)]
      /\ amtx' = IF done THEN [amtx EXCEPT ![a] = None] ELSE amtx
      /\ Go(t, IF done THEN leaving ELSE going)
      /\ UNCHANGED <<loggers_, root_, apds, mtx, now, ops>>
  BY DEF Format
<1>5. a = Target(t) /\ Whole(s)
  BY <1>2, WholeIs DEF IInv
<1>6. th[t].part \in Nat \ {0} /\ th[t].event.id \in Nat
  BY <1>2 DEF Logging
<1> DEFINE q == IF Items(f) = <<>> THEN s ELSE Append(s, w)
           h == IF done THEN None ELSE t
           r == IF done THEN leaving ELSE going
<1>7. q \in Seq(Parts) /\ Whole(q)
  BY <1>2, <1>5, AppendWhole
<1>8. Items(f) # <<>> => q # <<>> /\ q[Len(q)] = w
  <2>1. w \in Parts
    BY <1>2, <1>6 DEF Parts
  <2> HIDE DEF w, s
  <2> QED BY <1>2, <2>1, AppendProperties
<1>9. out' = Put(out, a, q) /\ amtx' = Put(amtx, a, h) /\ Moves(t, r)
  <2>1. out' = Put(out, a, q)
    BY <1>2, <1>4 DEF Put
  <2>2. amtx' = Put(amtx, a, h)
    BY <1>2, <1>4 DEF Put
  <2>3. Moves(t, r)
    <3> HIDE DEF leaving, going, done, q, h
    <3> QED BY <1>1, <1>3, <1>4 DEF Moves, AtAppender
  <2> QED BY <2>1, <2>2, <2>3
<1>10. h = (IF r.pc = "format" THEN t ELSE None) /\ amtx[a] \in {t, None}
  <2> HIDE DEF leaving, going, done
  <2> QED BY <1>2, <1>3
<1>11. Moved(t, r, a, q, h)
  <2> HIDE DEF leaving, going, done, a, q, r, h
  <2> QED BY <1>2, <1>5, <1>7, <1>9, <1>10, AtKeeps
<1>12. IF h = None THEN Complete(q) ELSE Partial(q, r, f)
  <2>1. CASE Items(f) = <<>>
    <3>1. Complete(s)
      BY <1>2, <2>1 DEF Partial
    <3> QED BY <2>1, <3>1
  <2>2. CASE Items(f) # <<>> /\ th[t].part = n
    BY <1>8, <2>2 DEF Complete
  <2>3. CASE Items(f) # <<>> /\ th[t].part # n
    <3>1. h = t /\ r = going
      BY <2>3
    <3>2. going.part # 1 /\ going.part - 1 = th[t].part
      BY <1>3, <1>6
    <3> HIDE DEF going, q, h, r
    <3> QED BY <1>1, <1>3, <1>8, <2>3, <3>1, <3>2 DEF Partial
  <2> QED BY <2>1, <2>2, <2>3
<1> HIDE DEF leaving, going, done, a, f, s, q, r, h
<1>13. LineInv'
  <2>1. apds'[a].formatter_ = f /\ (h # None => h = t)
    BY <1>4 DEF f, h
  <2> QED BY <1>11, <1>12, <2>1 DEF LineInv, OthersFine, Moved
<1>14. LinesWhole'
  <2>1. \A b \in Appender : Whole(out[b])
    BY WholeIs DEF IInv
  <2>2. \A b \in Appender : Whole(out'[b])
    BY <1>7, <1>11, <2>1 DEF OthersFine, Moved
  <2> QED BY <2>2 DEF LinesWhole, Whole
<1> QED BY <1>11, <1>13, <1>14 DEF IInv, Moved

-----------------------------------------------------------------------------
(* All steps *)

LEMMA CallKeeps ==
  ASSUME IInv, NEW t \in Thread, Call(t)
  PROVE  IInv'
<1>1. CASE \E n \in Name, level \in Levels : Log(t, n, level) \/ SetLevel(t, n, level)
  BY <1>1, LogKeeps, SetLevelKeeps
<1>2. CASE \E n \in Name, a \in Appender : BeginAdd(t, n, a) \/ RemoveAppender(t, n, a)
  BY <1>2, BeginAddKeeps, ListsKeep
<1>3. CASE \E n \in Name : ClearAppender(t, n)
  <2>1. \E a : a \in Appender
    BY LoggerAssumption
  <2> QED BY <1>3, <2>1, ListsKeep
<1>4. CASE \E n \in Name, p \in Patterns : BeginSet(t, n, p)
  BY <1>4, BeginSetKeeps
<1>5. CASE \E a \in Appender, p \in Patterns : AppenderSetFormatter(t, a, p)
  BY <1>5, AppenderSetFormatterKeeps
<1> QED BY <1>1, <1>2, <1>3, <1>4, <1>5 DEF Call

LEMMA StepKeeps ==
  ASSUME IInv, NEW t \in Thread, Step(t)
  PROVE  IInv'
BY EnterKeeps, NextAppenderKeeps, ReopenKeeps, StampKeeps, LockKeeps, FormatKeeps,
   AskFormatterKeeps, GiveFormatterKeeps, PushAppenderKeeps, SetNextKeeps DEF Step

LEMMA NextKeeps == IInv /\ [Next]_vars => IInv'
BY TickKeeps, GetLoggerKeeps, CallKeeps, StepKeeps DEF Next

LEMMA LoggerInductive == Spec => []IInv
BY InitIInv, NextKeeps, PTL DEF Spec

\* In what an appender has written the items of an event stand together, in their order
\* and of one formatter, whatever the other threads log to it and change about it
\* meanwhile (Logger::log, LogAppender::log, setFormatter).
THEOREM LoggerLinesWhole == Spec => []LinesWhole
<1>1. IInv => LinesWhole
  BY DEF IInv
<1> QED BY LoggerInductive, <1>1, PTL
=============================================================================
