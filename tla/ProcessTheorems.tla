-------------------------- MODULE ProcessTheorems --------------------------
(***************************************************************************)
(* The process that reads a file and logs: the configuration it runs with  *)
(* is the one the file asks for, the logger keeps every line and never     *)
(* sleeps through one, for every file and whatever may be logged.          *)
(***************************************************************************)
EXTENDS Process, TLAPS

LogsTyped ==
    /\ logs \in Seq(LogLines) /\ printed \in Seq(LogLines)
    /\ pushed \in Seq(LogLines)
    /\ worker = "pop" => logs # << >>

\* Whoever is in a critical section holds the mutex, and the worker sleeps only
\* in cv.wait: what keeps the steps on the queue apart.
Exclusion ==
    /\ mtx = "owner" <=> owner \in {"push", "stop"}
    /\ mtx = "worker" <=> worker \in {"check", "sleep", "drain", "pop"}
    /\ asleep => worker = "wait"
    /\ owner = "none" => worker = "none"

\* The worker found nothing to do, and holds the mutex, so that nothing turns up.
StillNothing == worker = "sleep" => ~Ready

LogInv == LogsTyped /\ Exclusion /\ StillNothing /\ NothingLost /\ NoLostWakeup

-----------------------------------------------------------------------------
\* Appending at the end of a concatenation appends to its second part.
LEMMA AppendShift ==
    ASSUME NEW S, NEW p \in Seq(S), NEW q \in Seq(S), NEW e \in S
    PROVE  Append(p \o q, e) = p \o Append(q, e)
OBVIOUS

\* The head of the second part can be moved to the end of the first.
LEMMA HeadShift ==
    ASSUME NEW S, NEW p \in Seq(S), NEW q \in Seq(S), q # << >>
    PROVE  p \o q = Append(p, Head(q)) \o Tail(q)
OBVIOUS

\* A line is pushed while nobody else holds the mutex.
LEMMA PushKeeps ==
    ASSUME LogInv, NEW line \in LogLines, PushLog(line)
    PROVE  LogInv'
<1>1. worker # "pop" /\ worker # "sleep"
  BY NobodyAssumption DEF LogInv, Exclusion, PushLog
<1>2. pushed' = printed' \o logs'
  BY <1>1, AppendShift DEF LogInv, LogsTyped, NothingLost, PushLog
<1>3. LogsTyped'
  BY <1>1 DEF LogInv, LogsTyped, PushLog
<1>4. Exclusion'
  BY NobodyAssumption DEF LogInv, Exclusion, PushLog
<1>5. StillNothing' /\ NothingLost' /\ NoLostWakeup'
  BY <1>1, <1>2 DEF StillNothing, NothingLost, NoLostWakeup, PushLog
<1> QED BY <1>3, <1>4, <1>5 DEF LogInv

\* The destructor's write happens under the mutex as well.
LEMMA StopKeeps ==
    ASSUME LogInv, Stop
    PROVE  LogInv'
<1>1. worker # "sleep"
  BY NobodyAssumption DEF LogInv, Exclusion, Stop
<1>2. LogsTyped' /\ NothingLost'
  BY DEF LogInv, LogsTyped, NothingLost, Stop
<1>3. Exclusion'
  BY NobodyAssumption DEF LogInv, Exclusion, Stop
<1>4. StillNothing' /\ NoLostWakeup'
  BY <1>1 DEF StillNothing, NoLostWakeup, Stop
<1> QED BY <1>2, <1>3, <1>4 DEF LogInv

\* The owner's way out of pushLog and of the destructor.
LEMMA OwnerKeeps ==
    ASSUME LogInv, OwnerStep
    PROVE  LogInv'
<1>1. LogsTyped' /\ NothingLost'
  BY DEF LogInv, LogsTyped, NothingLost, OwnerStep, Release, Notify, Join
<1>2. Exclusion'
  BY NobodyAssumption DEF LogInv, Exclusion, OwnerStep, Release, Notify, Join
<1>3. StillNothing' /\ NoLostWakeup'
  BY DEF LogInv, StillNothing, NoLostWakeup, Ready, OwnerStep, Release, Notify, Join
<1> QED BY <1>1, <1>2, <1>3 DEF LogInv

\* The worker's round: the print and the pop are one move of the queue's head.
LEMMA WorkerKeeps ==
    ASSUME LogInv, Work
    PROVE  LogInv'
<1>1. CASE Test \/ Lock \/ Check \/ Sleep \/ Drained
  <2>1. LogsTyped' /\ NothingLost'
    BY <1>1 DEF LogInv, LogsTyped, NothingLost, Test, Lock, Check, Sleep, Drained
  <2>2. Exclusion'
    BY <1>1, NobodyAssumption
    DEF LogInv, Exclusion, Test, Lock, Check, Sleep, Drained
  <2>3. StillNothing' /\ NoLostWakeup'
    BY <1>1 DEF LogInv, Exclusion, StillNothing, NoLostWakeup, Ready,
                Test, Lock, Check, Sleep, Drained
  <2> QED BY <2>1, <2>2, <2>3 DEF LogInv
<1>2. CASE PrintFront
  <2>1. pushed' = printed' \o Tail(logs')
    BY <1>2, HeadShift DEF LogInv, LogsTyped, NothingLost, PrintFront
  <2>2. LogsTyped'
    BY <1>2 DEF LogInv, LogsTyped, PrintFront
  <2>3. Exclusion' /\ StillNothing' /\ NothingLost' /\ NoLostWakeup'
    BY <1>2, <2>1 DEF LogInv, Exclusion, StillNothing, NothingLost, NoLostWakeup,
                      PrintFront
  <2> QED BY <2>2, <2>3 DEF LogInv
<1>3. CASE Pop
  <2>1. LogsTyped' /\ NothingLost'
    BY <1>3 DEF LogInv, LogsTyped, NothingLost, Pop
  <2>2. Exclusion' /\ StillNothing' /\ NoLostWakeup'
    BY <1>3 DEF LogInv, Exclusion, StillNothing, NoLostWakeup, Pop
  <2> QED BY <2>1, <2>2 DEF LogInv
<1> QED BY <1>1, <1>2, <1>3 DEF Work

-----------------------------------------------------------------------------
LEMMA LogInvInit == Init => LogInv
BY NobodyAssumption
DEF Init, LogInit, LogInv, LogsTyped, Exclusion, StillNothing, NothingLost,
    NoLostWakeup

\* Every step of the process is one of the logger's, or leaves it alone, or
\* creates it.
LEMMA LogInvStep ==
    ASSUME LogInv, [Next]_vars
    PROVE  LogInv'
<1>1. ASSUME UNCHANGED logVars PROVE LogInv'
  BY <1>1 DEF LogInv, LogsTyped, Exclusion, StillNothing, NothingLost,
              NoLostWakeup, Ready, logVars
<1>2. CASE Construct
  BY <1>2, NobodyAssumption
  DEF Construct, NewLogger, LogInv, LogsTyped, Exclusion, StillNothing, NothingLost,
      NoLostWakeup, Ready
<1>3. CASE FallBack
  BY <1>3, PushKeeps, LinesAssumption DEF FallBack, Log
<1>4. CASE Announce
  BY <1>4, PushKeeps, LinesAssumption DEF Announce, Log
<1>5. CASE Destroy
  BY <1>5, StopKeeps DEF Destroy
<1>6. CASE Logging(OwnerStep)
  BY <1>6, OwnerKeeps DEF Logging
<1>7. CASE Worker
  BY <1>7, WorkerKeeps DEF Worker, Logging
<1>8. CASE Logging(Spurious)
  BY <1>8 DEF Logging, Spurious, LogInv, LogsTyped, Exclusion, StillNothing,
              NothingLost, NoLostWakeup, Ready
<1>9. CASE UNCHANGED vars \/ ParseConfig \/ ConfigError \/ BindFails
           \/ BindSucceeds \/ KeysUsable \/ KeysFatal \/ Start \/ Return
  BY <1>1, <1>9 DEF vars, ParseConfig, ConfigError, BindFails, BindSucceeds,
                    KeysUsable, KeysFatal, Start, Return, Quietly
<1> QED
  BY <1>2, <1>3, <1>4, <1>5, <1>6, <1>7, <1>8, <1>9 DEF Next, Main

\* The logger's invariant, whatever the configuration says and the threads do.
THEOREM LoggerInvariant == Spec => []LogInv
<1>1. Init => LogInv
  BY LogInvInit
<1>2. LogInv /\ [Next]_vars => LogInv'
  BY LogInvStep
<1> QED BY <1>1, <1>2, PTL DEF Spec

\* What was pushed is, in order, what is on the console and what is queued
\* (pushLog, process): no line is lost, doubled or overtaken.
THEOREM QueueLosesNothing == Spec => []NothingLost
<1>1. LogInv => NothingLost
  BY DEF LogInv
<1> QED BY <1>1, LoggerInvariant, PTL

\* The worker never sleeps on a line or on the destructor's call unless its
\* wakeup is still to come (cv.wait, notify_one).
THEOREM NoWakeupIsLost == Spec => []NoLostWakeup
<1>1. LogInv => NoLostWakeup
  BY DEF LogInv
<1> QED BY <1>1, LoggerInvariant, PTL

-----------------------------------------------------------------------------
\* The configuration.

\* What an accepted line of an integer says.
InRange(line) ==
    /\ line.key = "listen_port" => line.val \in Ports
    /\ line.key \in {"brake_limit", "brake_window"} => line.val # Junk /\ line.val > 0

\* The value of key after the file: that of its last line, or the default.
LastWins(key) ==
    \/ About(key) = {} /\ cfg[key] = Defaults[key]
    \/ \E n \in About(key) : cfg[key] = file[n].val /\ \A j \in About(key) : j <= n

\* What parseConfig has made of the lines so far, if it has refused none.
ConfInv ==
    /\ file \in Seq(Lines)
    /\ reading # "refused" =>
         /\ \A key \in have : About(key) # {}
         /\ \A key \in DOMAIN Defaults : LastWins(key)
         /\ \A n \in DOMAIN file :
              InRange(file[n]) /\ file[n].key \in DOMAIN Defaults \cup {Plain}
    /\ reading = "accepted" => Required \subseteq have

\* The keys of a configuration, and the values that conversions may meet.
ConfTyped ==
    /\ reading \in {"reading", "accepted", "refused"}
    /\ DOMAIN cfg = DOMAIN Defaults /\ have \subseteq DOMAIN Defaults
    /\ cfg.parent_addr.port = Junk \/ cfg.parent_addr.port \in Int

\* The ranges, as comparisons.
LEMMA IsPort ==
    ASSUME NEW n \in Int, n >= 1, n <= 65535
    PROVE  n \in Ports
<1>1. PICK e \in Int : e = UINT16_MAX /\ n <= e
  BY DEF UINT16_MAX
<1>2. n \in 1 .. e
  BY <1>1
<1> QED BY <1>1, <1>2 DEF Ports

LEMMA IsWord ==
    ASSUME NEW n \in Int, n >= 0, n <= 65535
    PROVE  n \in Words
<1>1. PICK e \in Int : e = UINT16_MAX /\ n <= e
  BY DEF UINT16_MAX
<1>2. n \in 0 .. e
  BY <1>1
<1> QED BY <1>1, <1>2 DEF Words

\* The keys that parseConfig knows.
LEMMA KnownKeys ==
    DOMAIN Defaults = {"broker_id", "listen_port", "parent_addr", "coords", "brake_limit",
                       "brake_window", "brake_scope", "require_he"}
BY DEF Defaults

\* Only a known key is acceptable, with a value in its range.
LEMMA AcceptableLine ==
    ASSUME NEW line \in Lines, Acceptable(line.key, line.val)
    PROVE  line.key \in DOMAIN Defaults /\ InRange(line)
<1>1. line.key \in DOMAIN Defaults
  BY KnownKeys DEF Acceptable, IntKeys
<1>2. line.key \in IntKeys => FitsInt(line.key, line.val)
  BY DEF Acceptable, IntKeys
<1>3. line.key \in IntKeys => line.val \in Int
  BY <1>2, ConfigAssumption DEF FitsInt
<1>4. line.key = "listen_port" => line.val \in Ports
  <2>1. line.key = "listen_port" => line.val >= 1 /\ line.val <= 65535
    BY <1>2 DEF FitsInt, IntKeys
  <2> QED BY <1>3, <2>1, IsPort DEF IntKeys
<1>5. line.key \in {"brake_limit", "brake_window"} => line.val # Junk /\ line.val > 0
  BY <1>2, <1>3 DEF FitsInt, IntKeys
<1> QED BY <1>1, <1>4, <1>5 DEF InRange

\* A file with one more line.
LEMMA OneMoreLine ==
    ASSUME NEW f \in Seq(Lines), NEW line \in Lines
    PROVE  /\ Append(f, line) \in Seq(Lines)
           /\ DOMAIN f = 1 .. Len(f) /\ Len(f) \in Nat
           /\ DOMAIN Append(f, line) = 1 .. Len(f) + 1
           /\ Append(f, line)[Len(f) + 1] = line
           /\ \A n \in DOMAIN f : Append(f, line)[n] = f[n]
OBVIOUS

\* A line about another key changes nothing for this one.
LEMMA OtherLine ==
    ASSUME file \in Seq(Lines), NEW line \in Lines, file' = Append(file, line),
           NEW key, line.key # key
    PROVE  About(key)' = About(key) /\ \A n \in About(key) : file'[n] = file[n]
<1>1. /\ DOMAIN file' = (DOMAIN file) \cup {Len(file) + 1}
      /\ file'[Len(file) + 1] = line
      /\ \A n \in DOMAIN file : file'[n] = file[n]
  BY OneMoreLine
<1> QED BY <1>1 DEF About

\* A line that is read.
LEMMA LineKeeps ==
    ASSUME ConfInv, ConfTyped, NEW line \in Lines, ReadLine(line)
    PROVE  ConfInv' /\ ConfTyped'
<1>1. /\ file \in Seq(Lines) /\ file' = Append(file, line) /\ reading = "reading"
      /\ file' \in Seq(Lines)
  BY OneMoreLine DEF ConfInv, ReadLine
<1>2. /\ DOMAIN file' = (DOMAIN file) \cup {Len(file) + 1}
      /\ file'[Len(file) + 1] = line
      /\ \A n \in DOMAIN file : file'[n] = file[n] /\ n <= Len(file)
      /\ Len(file) \in Nat
  BY <1>1, OneMoreLine
<1>3. \A key : About(key) # {} => About(key)' # {}
  BY <1>2 DEF About
<1>4. CASE line.key = Plain
  <2>1. UNCHANGED <<reading, cfg, have>>
    BY <1>4 DEF ReadLine
  <2>2. \A key \in DOMAIN Defaults : LastWins(key)'
    <3> TAKE key \in DOMAIN Defaults
    <3>1. About(key)' = About(key) /\ \A n \in About(key) : file'[n] = file[n]
      BY <1>1, <1>4, OtherLine, ConfigAssumption
    <3>2. LastWins(key)
      BY <1>1 DEF ConfInv
    <3> QED BY <2>1, <3>1, <3>2 DEF LastWins
  <2>3. InRange(line)
    BY <1>4, ConfigAssumption, KnownKeys DEF InRange
  <2> QED BY <1>1, <1>2, <1>3, <1>4, <2>1, <2>2, <2>3 DEF ConfInv, ConfTyped
<1>5. CASE line.key # Plain /\ Acceptable(line.key, line.val)
  <2>1. /\ cfg' = [cfg EXCEPT ![line.key] = line.val]
        /\ have' = have \cup {line.key} /\ reading' = reading
    BY <1>5 DEF ReadLine, Assign
  <2>2. line.key \in DOMAIN Defaults /\ InRange(line)
    BY <1>5, AcceptableLine
  <2>3. Len(file) + 1 \in About(line.key)'
    BY <1>2 DEF About
  <2>4. \A key \in DOMAIN Defaults : LastWins(key)'
    <3> TAKE key \in DOMAIN Defaults
    <3>1. CASE key = line.key
      <4>1. cfg'[key] = line.val
        BY <2>1, <2>2, <3>1 DEF ConfTyped
      <4>2. \A j \in About(key)' : j <= Len(file) + 1
        BY <1>2 DEF About
      <4> QED BY <1>2, <2>3, <3>1, <4>1, <4>2 DEF LastWins
    <3>2. CASE key # line.key
      <4>1. About(key)' = About(key) /\ \A n \in About(key) : file'[n] = file[n]
        BY <1>1, <3>2, OtherLine
      <4>2. cfg'[key] = cfg[key]
        BY <2>1, <3>2
      <4>3. LastWins(key)
        BY <1>1 DEF ConfInv
      <4> QED BY <4>1, <4>2, <4>3 DEF LastWins
    <3> QED BY <3>1, <3>2
  <2>5. ConfTyped'
    <3>1. cfg'.parent_addr.port = Junk \/ cfg'.parent_addr.port \in Int
      <4>1. CASE line.key = "parent_addr"
        BY <2>1, <2>2, <4>1, ConfigAssumption DEF ConfTyped
      <4>2. CASE line.key # "parent_addr"
        BY <2>1, <4>2 DEF ConfTyped
      <4> QED BY <4>1, <4>2
    <3> QED BY <2>1, <2>2, <3>1 DEF ConfTyped
  <2> QED
    BY <1>1, <1>2, <1>3, <2>1, <2>2, <2>3, <2>4, <2>5 DEF ConfInv
<1>6. CASE line.key # Plain /\ ~Acceptable(line.key, line.val)
  BY <1>1, <1>6 DEF ReadLine, ConfInv, ConfTyped
<1> QED BY <1>4, <1>5, <1>6

LEMMA EndKeeps ==
    ASSUME ConfInv, ConfTyped, EndOfFile
    PROVE  ConfInv' /\ ConfTyped'
BY DEF ConfInv, ConfTyped, EndOfFile, About, LastWins

\* Nothing but parseConfig writes the configuration.
LEMMA ConfStep ==
    ASSUME ConfInv, ConfTyped, [Next]_vars
    PROVE  ConfInv' /\ ConfTyped'
<1>1. ASSUME UNCHANGED confVars PROVE ConfInv' /\ ConfTyped'
  BY <1>1 DEF confVars, ConfInv, ConfTyped, About, LastWins
<1>2. CASE ParseConfig
  BY <1>2, LineKeeps, EndKeeps DEF ParseConfig, ConfNext
<1>3. CASE ConfigError \/ Construct \/ BindFails \/ BindSucceeds \/ KeysUsable
           \/ KeysFatal \/ FallBack \/ Announce \/ Start \/ Destroy \/ Return
           \/ UNCHANGED vars
  BY <1>1, <1>3 DEF ConfigError, Construct, BindFails, BindSucceeds, KeysUsable,
                    KeysFatal, FallBack, Announce, Start, Destroy, Return, Quietly, Log, vars
<1>4. CASE Logging(OwnerStep) \/ Worker \/ Logging(Spurious)
  BY <1>1, <1>4 DEF Logging, Worker
<1> QED BY <1>2, <1>3, <1>4 DEF Next, Main

THEOREM ConfInvariant == Spec => [](ConfInv /\ ConfTyped)
<1>1. Init => ConfInv /\ ConfTyped
  <2> SUFFICES ASSUME Init PROVE ConfInv /\ ConfTyped
    OBVIOUS
  <2>1. file = << >> /\ reading = "reading" /\ cfg = Defaults /\ have = {}
    BY DEF Init, ConfInit
  <2>2. \A key : About(key) = {}
    BY <2>1 DEF About
  <2>3. Defaults.parent_addr.port = Junk
    BY DEF Defaults, NoParent
  <2> QED BY <2>1, <2>2, <2>3 DEF ConfInv, ConfTyped, LastWins
<1>2. (ConfInv /\ ConfTyped) /\ [Next]_vars => (ConfInv /\ ConfTyped)'
  BY ConfStep
<1> QED BY <1>1, <1>2, PTL DEF Spec

\* A broker only ever runs with the configuration its file asks for: the last
\* line of a key wins, defaults stand in for keys without one, and no line out
\* of range slips through, whichever line comes later (parseConfig).
THEOREM FileIsObeyed == Spec => []AcceptedAsWritten
<1>1. ConfInv /\ ConfTyped => AcceptedAsWritten
  <2> SUFFICES ASSUME ConfInv, ConfTyped PROVE AcceptedAsWritten
    OBVIOUS
  <2>0. CASE reading # "accepted"
    BY <2>0 DEF AcceptedAsWritten
  <2> SUFFICES ASSUME reading = "accepted" PROVE AcceptedAsWritten
    BY <2>0
  <2>1. \A key \in Required : About(key) # {}
    BY DEF ConfInv
  <2>2. \A key \in DOMAIN Defaults : LastWins(key)
    BY DEF ConfInv
  <2>3. \A n \in DOMAIN file :
          InRange(file[n]) /\ file[n].key \in DOMAIN Defaults \cup {Plain}
    BY DEF ConfInv
  <2>4. /\ \A n \in About("listen_port") : file[n].val \in Ports
        /\ \A n \in About("brake_limit") \cup About("brake_window") :
             file[n].val # Junk /\ file[n].val > 0
    BY <2>3 DEF InRange, About
  <2> QED BY <2>1, <2>2, <2>3, <2>4 DEF AcceptedAsWritten, LastWins
<1> QED BY <1>1, ConfInvariant, PTL

-----------------------------------------------------------------------------
\* Types.

\* The main thread's part of TypeOK.
MainTyped ==
    /\ main \in {"parsing", "body", "crypto", "listen", "mode", "key", "start",
                 "looping", "returning", "leaving"} \cup Ended
    /\ he_enabled \in BOOLEAN /\ parent_port \in Words

LEMMA MainStep ==
    ASSUME ConfTyped, MainTyped, [Next]_vars
    PROVE  MainTyped'
<1>1. CASE BindSucceeds
  <2>1. \A n \in Int : Port(n) \in Words
    <3> TAKE n \in Int
    <3>1. Port(n) \in Int /\ Port(n) >= 0 /\ Port(n) <= 65535
      BY DEF Port
    <3> QED BY <3>1, IsWord
  <2>2. parent_port' \in Words /\ main' \in {"crypto", "aborted"} /\ he_enabled' = he_enabled
    <3>1. cfg.parent_addr.port # Junk => Port(cfg.parent_addr.port) \in Words
      BY <2>1 DEF ConfTyped
    <3> QED BY <1>1, <3>1 DEF BindSucceeds, MainTyped
  <2> QED BY <2>2 DEF MainTyped, Ended
<1>2. CASE ParseConfig \/ ConfigError \/ Construct \/ BindFails \/ KeysUsable
           \/ KeysFatal \/ FallBack \/ Start \/ Destroy \/ Return
           \/ UNCHANGED vars
  BY <1>2 DEF ParseConfig, ConfigError, Construct, BindFails, KeysUsable, KeysFatal,
              FallBack, Start, Destroy, Return, Log, vars, MainTyped, Ended
<1>3. CASE Announce
  BY <1>3 DEF Announce, Log, MainTyped
<1>4. CASE Logging(OwnerStep) \/ Worker \/ Logging(Spurious)
  BY <1>4 DEF Logging, Worker, MainTyped
<1> QED BY <1>1, <1>2, <1>3, <1>4 DEF Next, Main

\* The logger's part that LogInv does not speak of.
ThreadsTyped ==
    /\ running \in BOOLEAN /\ asleep \in BOOLEAN
    /\ mtx \in {"owner", "worker", Nobody}
    /\ owner \in {"none", "idle", "push", "pushed", "stop", "stopped", "join", "gone"}
    /\ worker \in {"none", "test", "lock", "check", "sleep", "wait", "drain", "pop", "done"}

LEMMA LoggerStep ==
    ASSUME ThreadsTyped, [LoggerNext \/ NewLogger \/ Stop
                          \/ \E line \in LogLines : PushLog(line)]_logVars
    PROVE  ThreadsTyped'
<1>1. CASE Release \/ Notify \/ Join
  BY <1>1 DEF Release, Notify, Join, ThreadsTyped
<1>2. CASE NewLogger \/ Stop \/ \E line \in LogLines : PushLog(line)
  BY <1>2 DEF NewLogger, Stop, PushLog, ThreadsTyped
<1>3. CASE Test \/ Lock \/ Check
  BY <1>3 DEF Test, Lock, Check, ThreadsTyped
<1>4. CASE Sleep \/ Drained \/ PrintFront \/ Pop
  BY <1>4 DEF Sleep, Drained, PrintFront, Pop, ThreadsTyped
<1>5. CASE Spurious \/ UNCHANGED logVars
  BY <1>5 DEF Spurious, logVars, ThreadsTyped
<1> QED BY <1>1, <1>2, <1>3, <1>4, <1>5 DEF LoggerNext, OwnerStep, Work

\* What the process does, the logger sees as a step of its own or as none.
LEMMA ProcessDrivesLogger ==
    ASSUME [Next]_vars
    PROVE  [LoggerNext \/ NewLogger \/ Stop \/ \E line \in LogLines : PushLog(line)]_logVars
<1>1. CASE FallBack \/ Announce
  BY <1>1, LinesAssumption DEF FallBack, Announce, Log
<1>2. CASE Construct \/ Destroy
  BY <1>2 DEF Construct, Destroy
<1>3. CASE Logging(OwnerStep) \/ Worker \/ Logging(Spurious)
  BY <1>3 DEF Logging, Worker, LoggerNext
<1>4. CASE ParseConfig \/ ConfigError \/ BindFails \/ BindSucceeds \/ KeysUsable
           \/ KeysFatal \/ Start \/ Return \/ UNCHANGED vars
  BY <1>4 DEF ParseConfig, ConfigError, BindFails, BindSucceeds, KeysUsable, KeysFatal,
              Start, Return, Quietly, vars
<1> QED BY <1>1, <1>2, <1>3, <1>4 DEF Next, Main

\* Every variable of the process keeps its type, whatever the file holds: the
\* parent's port is a port although nobody tests its range (broker.cpp:70).
THEOREM ProcessTypes == Spec => []TypeOK
<1>1. Init => ThreadsTyped /\ MainTyped
  <2>1. Init => ThreadsTyped
    BY DEF Init, LogInit, ThreadsTyped
  <2>2. 0 \in Words
    BY IsWord
  <2>3. Init => MainTyped
    BY <2>2 DEF Init, MainTyped
  <2> QED BY <2>1, <2>3
<1>2. (ThreadsTyped /\ MainTyped) /\ (ConfInv /\ ConfTyped) /\ [Next]_vars
        => (ThreadsTyped /\ MainTyped)'
  BY LoggerStep, ProcessDrivesLogger, MainStep
<1>3. (ThreadsTyped /\ MainTyped) /\ LogInv /\ (ConfInv /\ ConfTyped) => TypeOK
  BY DEF TypeOK, LogTypeOK, ThreadsTyped, MainTyped, ConfTyped, LogInv, LogsTyped
<1> QED BY <1>1, <1>2, <1>3, LoggerInvariant, ConfInvariant, PTL DEF Spec
=============================================================================
