------------------------------- MODULE Logger -------------------------------
(***************************************************************************)
(* Logger, LoggerManager and the LogAppenders (logger/logger.cc,           *)
(* logger/logappender.cc, logger/logevent.cc), which every thread of the   *)
(* program uses.  A logger hands an event, under its mutex, to its         *)
(* appenders, or if it has none to the root logger; an appender writes the *)
(* items of its formatter one by one, under its own mutex, and a file      *)
(* appender opens its file again every three seconds.  Meanwhile other     *)
(* threads change levels, formatters and the lists of appenders.           *)
(*                                                                         *)
(* Two members are not initialized: level_ and hasFormatter_ of an         *)
(* appender, and lastTime_ of a file appender has any value, too.          *)
(***************************************************************************)
EXTENDS LogFormatter, ConfigParser, FiniteSets, SequencesExt

CONSTANTS Thread,
          Name, Root,     \* of loggers: numbers, in the order of the strings
          Appender,       \* LogAppender objects, and those of them that are
          FileAppender,   \* FileLogAppenders
          Files,          \* contents config.json may have
          Patterns,       \* given to setFormatter
          DefaultPattern,
          Levels,         \* of events and loggers, of 1 (DEBUG) to 5 (FATAL)
          Garbage,        \* what an uninitialized level_ may hold
          StartTime,      \* of the clock, which goes on to
          MaxTime,        \* bound
          MaxOps,         \* bound: calls of all threads
          None

ASSUME LoggerAssumption ==
  /\ Name \subseteq Nat /\ Root \in Name
  /\ FileAppender \subseteq Appender /\ FileAppender # Appender
  /\ StartTime \in Nat /\ MaxTime \in Nat /\ MaxOps \in Nat
  /\ ~IsError(DefaultPattern)
  /\ Levels \subseteq Nat /\ None \notin Thread
ASSUME FilesAssumption ==
  \A file \in Files : \A n \in DOMAIN LogConfig(file) :
    n \in Name /\ LogConfig(file)[n].appenders \in Seq(Appender)

VARIABLES
  loggers_,  \* LoggerManager's map
  root_,     \* and its root logger: Root or None
  apds,      \* the appenders
  out,       \* what each has written, as [event, pattern, part]
  mtx,       \* which thread holds a logger's mutex, and
  amtx,      \* an appender's
  th,        \* what each thread does
  now,
  ops

vars == <<loggers_, root_, apds, out, mtx, amtx, th, now, ops>>

Idle == [pc |-> "idle"]

-----------------------------------------------------------------------------
(* LoggerManager *)

NewLogger(root) == [level_ |-> 1, appenders_ |-> <<>>, formatter_ |-> DefaultPattern,
                    root_ |-> root]

\* Logger::setFormatter(pattern): one that does not parse is refused.
Accepted(pattern, old) == IF IsError(pattern) THEN old ELSE pattern

\* Mutant: the root logger is its own root.
RootOfMutant(config, n) == IF Root \in DOMAIN config /\ Root <= n THEN Root ELSE None

\* loadConfig goes through the map in the order of the names: what comes before
\* "root" gets the root_ there is by then.
RootOf(config, n) == IF Root \in DOMAIN config /\ Root < n THEN Root ELSE None

\* LogLevel::FromString: any other name is UNKNOW.
LevelNames == [DEBUG |-> 1, INFO |-> 2, WARN |-> 3, ERROR |-> 4, FATAL |-> 5]
FromString(str) == IF str \in DOMAIN LevelNames THEN LevelNames[str] ELSE 0

Configured(config, n) ==
  [level_ |-> FromString(config[n].level), appenders_ |-> config[n].appenders,
   formatter_ |-> Accepted(config[n].formatter, DefaultPattern),
   root_ |-> RootOf(config, n)]

\* loadConfig; with no configuration, the root logger with one appender
LoadConfig(file) ==
  IF ~ParseSuc(file)
  THEN [n \in {Root} |-> [NewLogger(None) EXCEPT
          !.appenders_ = <<CHOOSE a \in Appender : a \notin FileAppender>>]]
  ELSE [n \in DOMAIN LogConfig(file) |-> Configured(LogConfig(file), n)]

\* An appender that loadConfig made has the formatter of its logger.
FirstFormatter(loggers, a) ==
  LET of == {n \in DOMAIN loggers : \E k \in DOMAIN loggers[n].appenders_ :
                                      loggers[n].appenders_[k] = a}
  IN  IF of = {} THEN None ELSE loggers[CHOOSE n \in of : TRUE].formatter_

Init ==
  /\ \E file \in Files : loggers_ = LoadConfig(file)
  /\ root_ = IF Root \in DOMAIN loggers_ THEN Root ELSE None
  /\ apds \in {[a \in Appender |->
                  [level_ |-> level[a], hasFormatter_ |-> has[a], lastTime_ |-> last[a],
                   formatter_ |-> FirstFormatter(loggers_, a)]] :
               level \in [Appender -> Garbage], has \in [Appender -> BOOLEAN],
               last \in {l \in [Appender -> {0, MaxTime}] :
                           \A a \in Appender \ FileAppender : l[a] = 0}}
  /\ out = [a \in Appender |-> <<>>]
  /\ mtx = [n \in Name |-> None]
  /\ amtx = [a \in Appender |-> None]
  /\ th = [t \in Thread |-> Idle]
  /\ now = StartTime
  /\ ops = 0

\* LoggerManager::logger(name) of a name that is not in the map
GetLogger(n) ==
  /\ n \notin DOMAIN loggers_
  /\ loggers_' = [m \in DOMAIN loggers_ \cup {n} |->
                    IF m = n THEN NewLogger(root_) ELSE loggers_[m]]
  /\ UNCHANGED <<root_, apds, out, mtx, amtx, th, now, ops>>

Calls == ops < MaxOps /\ ops' = ops + 1

Go(t, record) == th' = [th EXCEPT ![t] = record]

-----------------------------------------------------------------------------
(* Logging *)

\* LogEvent
Event(id, level, time) == [id |-> id, level |-> level, time |-> time]

\* LOG_LEVEL: the event is made if the logger's level lets it through; its guard's
\* destructor calls log.
Log(t, n, level) ==
  /\ Calls /\ th[t].pc = "idle" /\ n \in DOMAIN loggers_
  /\ loggers_[n].level_ <= level
  /\ Go(t, [pc |-> "enter", at |-> n, k |-> 1, part |-> 1,
            event |-> Event(ops, level, now)])
  /\ UNCHANGED <<loggers_, root_, apds, out, mtx, amtx, now>>

Releases(t) == mtx' = [n \in Name |-> IF mtx[n] = t THEN None ELSE mtx[n]]

\* Logger::log: to the appenders or, if there are none, to the root logger, whose
\* log is called with the mutex held.
Enter(t) ==
  /\ th[t].pc = "enter"
  /\ LET n == th[t].at
         l == loggers_[n]
     IN  IF th[t].event.level < l.level_
         THEN Releases(t) /\ Go(t, Idle)
         ELSE /\ mtx[n] = None
              /\ IF l.appenders_ = <<>> /\ l.root_ = None
                 THEN Releases(t) /\ Go(t, Idle)
                 ELSE /\ mtx' = [mtx EXCEPT ![n] = t]
                      /\ IF l.appenders_ # <<>> THEN Go(t, [th[t] EXCEPT !.pc = "next"])
                         ELSE Go(t, [th[t] EXCEPT !.at = l.root_])
  /\ UNCHANGED <<loggers_, root_, apds, out, amtx, now, ops>>

Target(t) == loggers_[th[t].at].appenders_[th[t].k]

\* The next appender; one whose level is above the event's is passed over.
NextAppender(t) ==
  /\ th[t].pc = "next"
  /\ IF th[t].k > Len(loggers_[th[t].at].appenders_)
     THEN Releases(t) /\ Go(t, Idle)
     ELSE /\ LET a == Target(t)
             IN  Go(t, IF th[t].event.level < apds[a].level_ THEN [th[t] EXCEPT !.k = @ + 1]
                       ELSE [th[t] EXCEPT !.pc =
                              IF a \in FileAppender /\ th[t].event.time >= apds[a].lastTime_ + 3
                              THEN "reopen" ELSE "lock"])
          /\ UNCHANGED mtx
  /\ UNCHANGED <<loggers_, root_, apds, out, amtx, now, ops>>

\* FileHelper::OpenForWrite opens without the mode it was given, which leaves an
\* empty file; only when that fails does it open with it.
OpenForWrite(content) == <<>>

\* FileLogAppender::reopen, with its mutex
Reopen(t) ==
  /\ th[t].pc = "reopen" /\ amtx[Target(t)] = None
  /\ out' = [out EXCEPT ![Target(t)] = OpenForWrite(@)]
  /\ Go(t, [th[t] EXCEPT !.pc = "stamp"])
  /\ UNCHANGED <<loggers_, root_, apds, mtx, amtx, now, ops>>

\* lastTime_ = now, without it
Stamp(t) ==
  /\ th[t].pc = "stamp"
  /\ apds' = [apds EXCEPT ![Target(t)].lastTime_ = th[t].event.time]
  /\ Go(t, [th[t] EXCEPT !.pc = "lock"])
  /\ UNCHANGED <<loggers_, root_, out, mtx, amtx, now, ops>>

\* Mutant: the appender does not lock.
HoldMutant(a, t) == UNCHANGED amtx

Hold(a, t) == amtx[a] = None /\ amtx' = [amtx EXCEPT ![a] = t]

Lock(t) ==
  /\ th[t].pc = "lock"
  /\ Hold(Target(t), t)
  /\ Go(t, [th[t] EXCEPT !.pc = "format", !.part = 1])
  /\ UNCHANGED <<loggers_, root_, apds, out, mtx, now, ops>>

\* One item of the formatter is written, if it has any.
Format(t) ==
  /\ th[t].pc = "format"
  /\ LET a       == Target(t)
         pattern == apds[a].formatter_
         done    == Items(pattern) = <<>> \/ th[t].part = Len(Items(pattern))
     IN  /\ out' = IF Items(pattern) = <<>> THEN out
                   ELSE [out EXCEPT ![a] = Append(@, [event |-> th[t].event.id,
                                             pattern |-> pattern, part |-> th[t].part])]
         /\ amtx' = IF done THEN [amtx EXCEPT ![a] = None] ELSE amtx
         /\ Go(t, IF done THEN [th[t] EXCEPT !.pc = "next", !.k = @ + 1]
                  ELSE [th[t] EXCEPT !.part = @ + 1])
  /\ UNCHANGED <<loggers_, root_, apds, mtx, now, ops>>

-----------------------------------------------------------------------------
(* Changing loggers and appenders *)

\* addAppender: with the logger's mutex it asks for the appender's formatter, which
\* takes the appender's for a moment,
BeginAdd(t, n, a) ==
  /\ Calls /\ th[t].pc = "idle" /\ n \in DOMAIN loggers_ /\ mtx[n] = None
  /\ mtx' = [mtx EXCEPT ![n] = t]
  /\ Go(t, [pc |-> "ask", at |-> n, apd |-> a])
  /\ UNCHANGED <<loggers_, root_, apds, out, amtx, now>>

AskFormatter(t) ==
  /\ th[t].pc = "ask" /\ amtx[th[t].apd] = None
  /\ Go(t, [th[t] EXCEPT !.pc = IF apds[th[t].apd].formatter_ = None THEN "give" ELSE "push"])
  /\ UNCHANGED <<loggers_, root_, apds, out, mtx, amtx, now, ops>>

\* and again, if it had none, to give it the logger's.
GiveFormatter(t) ==
  /\ th[t].pc = "give" /\ amtx[th[t].apd] = None
  /\ apds' = [apds EXCEPT ![th[t].apd].formatter_ = loggers_[th[t].at].formatter_]
  /\ Go(t, [th[t] EXCEPT !.pc = "push"])
  /\ UNCHANGED <<loggers_, root_, out, mtx, amtx, now, ops>>

PushAppender(t) ==
  /\ th[t].pc = "push"
  /\ loggers_' = [loggers_ EXCEPT ![th[t].at].appenders_ = Append(@, th[t].apd)]
  /\ Releases(t) /\ Go(t, Idle)
  /\ UNCHANGED <<root_, apds, out, amtx, now, ops>>

\* removeAppender, of the first of a in the list, and clearAppender
RemoveAppender(t, n, a) ==
  /\ Calls /\ th[t].pc = "idle" /\ n \in DOMAIN loggers_ /\ mtx[n] = None
  /\ \E k \in DOMAIN loggers_[n].appenders_ :
       /\ loggers_[n].appenders_[k] = a
       /\ \A j \in 1 .. k - 1 : loggers_[n].appenders_[j] # a
       /\ loggers_' = [loggers_ EXCEPT ![n].appenders_ = RemoveAt(@, k)]
  /\ UNCHANGED <<root_, apds, out, mtx, amtx, th, now>>

ClearAppender(t, n) ==
  /\ Calls /\ th[t].pc = "idle" /\ n \in DOMAIN loggers_ /\ mtx[n] = None
  /\ loggers_' = [loggers_ EXCEPT ![n].appenders_ = <<>>]
  /\ UNCHANGED <<root_, apds, out, mtx, amtx, th, now>>

\* Logger::setFormatter: with the logger's mutex, one appender after the other
BeginSet(t, n, pattern) ==
  /\ Calls /\ th[t].pc = "idle" /\ n \in DOMAIN loggers_ /\ mtx[n] = None
  /\ Accepted(pattern, None) # None
  /\ mtx' = [mtx EXCEPT ![n] = t]
  /\ loggers_' = [loggers_ EXCEPT ![n].formatter_ = pattern]
  /\ Go(t, [pc |-> "set", at |-> n, k |-> 1])
  /\ UNCHANGED <<root_, apds, out, amtx, now>>

\* Mutant: an appender's formatter is replaced without its mutex.
FreeMutant(a) == TRUE

\* The mutex of an appender can be taken.
Free(a) == amtx[a] = None

SetNext(t) ==
  /\ th[t].pc = "set"
  /\ LET n == th[t].at
     IN  IF th[t].k > Len(loggers_[n].appenders_)
         THEN Releases(t) /\ Go(t, Idle) /\ UNCHANGED apds
         ELSE /\ Free(Target(t))
              /\ apds' = [apds EXCEPT ![Target(t)].formatter_ =
                            IF apds[Target(t)].hasFormatter_ THEN @ ELSE loggers_[n].formatter_]
              /\ Go(t, [th[t] EXCEPT !.k = @ + 1])
              /\ UNCHANGED mtx
  /\ UNCHANGED <<loggers_, root_, out, amtx, now, ops>>

\* LogAppender::setFormatter
AppenderSetFormatter(t, a, pattern) ==
  /\ Calls /\ th[t].pc = "idle" /\ Free(a) /\ ~IsError(pattern)
  /\ apds' = [apds EXCEPT ![a].formatter_ = pattern, ![a].hasFormatter_ = TRUE]
  /\ UNCHANGED <<loggers_, root_, out, mtx, amtx, th, now>>

\* setLevel of a logger, without a mutex
SetLevel(t, n, level) ==
  /\ Calls /\ th[t].pc = "idle" /\ n \in DOMAIN loggers_
  /\ loggers_' = [loggers_ EXCEPT ![n].level_ = level]
  /\ UNCHANGED <<root_, apds, out, mtx, amtx, th, now>>

-----------------------------------------------------------------------------
Tick == now < MaxTime /\ now' = now + 3
        /\ UNCHANGED <<loggers_, root_, apds, out, mtx, amtx, th, ops>>

\* What a thread does inside a call
Step(t) == \/ Enter(t) \/ NextAppender(t) \/ Reopen(t) \/ Stamp(t) \/ Lock(t) \/ Format(t)
           \/ AskFormatter(t) \/ GiveFormatter(t) \/ PushAppender(t) \/ SetNext(t)

Call(t) ==
  \/ \E n \in Name, level \in Levels : Log(t, n, level) \/ SetLevel(t, n, level)
  \/ \E n \in Name, a \in Appender : BeginAdd(t, n, a) \/ RemoveAppender(t, n, a)
  \/ \E n \in Name : ClearAppender(t, n)
  \/ \E n \in Name, p \in Patterns : BeginSet(t, n, p)
  \/ \E a \in Appender, p \in Patterns : AppenderSetFormatter(t, a, p)

Next == Tick \/ (\E n \in Name : GetLogger(n)) \/ \E t \in Thread : Call(t) \/ Step(t)

Spec == Init /\ [][Next]_vars

-----------------------------------------------------------------------------
(* Properties *)

\* Lines do not mix: in what one appender writes, each event's items stand together,
\* in their order and all of one formatter, whoever logs to it through which loggers
\* and whoever changes its formatter meanwhile.
LinesWhole ==
  \A a \in Appender : \A i \in 1 .. Len(out[a]) :
    LET w == out[a][i]
    IN  /\ i = 1 => w.part = 1
        /\ w.part < Len(Items(w.pattern)) /\ i < Len(out[a]) =>
             out[a][i + 1] = [w EXCEPT !.part = @ + 1]
        /\ i > 1 /\ w.part = 1 => out[a][i - 1].part = Len(Items(out[a][i - 1].pattern))

\* A thread inside a call can go on, or waits for one that can: no two wait for each
\* other's mutexes, nor one for its own.
NoDeadlock ==
  (\E t \in Thread : th[t].pc # "idle") => \E t \in Thread : ENABLED Step(t)

\* Every logger but the root has the root logger to hand its events to.
LoggersHaveRoot ==
  \A n \in DOMAIN loggers_ \ {Root} : loggers_[n].root_ = Root

\* What an appender has written stays written.
NothingLost ==
  [][\A a \in Appender : Len(out'[a]) >= Len(out[a])]_vars
=============================================================================
