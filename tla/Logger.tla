------------------------------- MODULE Logger -------------------------------
(***************************************************************************)
(* The logger of a broker (src/logger/logger.{h,cpp}): the owner pushes    *)
(* lines into a queue, a worker thread prints them, and the destructor     *)
(* stops the worker.  One mutex guards the queue; the worker sleeps on a   *)
(* condition variable, but reads `running' once per round without the      *)
(* mutex.  When the owner does what is decided by the module that uses it. *)
(***************************************************************************)
EXTENDS Naturals, Sequences

CONSTANTS LogLines,   \* what may be pushed
          Nobody      \* the holder of a free mutex

ASSUME NobodyAssumption == Nobody \notin {"owner", "worker"}

VARIABLES
    logs,             \* the queue
    running,
    mtx,              \* who holds the mutex: "owner", "worker" or Nobody
    asleep,           \* the worker waits on cv
    owner,            \* where the owner is in pushLog or the destructor
    worker,           \* where the worker is in process
    pushed, printed   \* history: every line pushed, every line on stdout

logVars == <<logs, running, mtx, asleep, owner, worker, pushed, printed>>

LogTypeOK ==
    /\ logs \in Seq(LogLines) /\ pushed \in Seq(LogLines) /\ printed \in Seq(LogLines)
    /\ running \in BOOLEAN /\ asleep \in BOOLEAN
    /\ mtx \in {"owner", "worker", Nobody}
    /\ owner \in {"none", "idle", "push", "pushed", "stop", "stopped", "join", "gone"}
    /\ worker \in {"none", "test", "lock", "check", "sleep", "wait", "drain", "pop", "done"}

\* Before the constructor.
LogInit ==
    /\ logs = << >> /\ pushed = << >> /\ printed = << >>
    /\ running = TRUE /\ mtx = Nobody /\ asleep = FALSE
    /\ owner = "none" /\ worker = "none"

\* The constructor sets running before it starts the thread.
NewLogger ==
    /\ owner = "none"
    /\ owner' = "idle" /\ worker' = "test"
    /\ UNCHANGED <<logs, running, mtx, asleep, pushed, printed>>

-----------------------------------------------------------------------------
\* The owner: pushLog and the destructor, cut where the worker may step in.

\* lock_guard: the owner waits for the mutex at "push" or "stop".
PushLog(line) ==
    /\ owner = "idle" /\ mtx = Nobody
    /\ mtx' = "owner" /\ owner' = "push"
    /\ logs' = Append(logs, line) /\ pushed' = Append(pushed, line)
    /\ UNCHANGED <<running, asleep, worker, printed>>

\* Mutant: running is set and cv notified without the mutex.
StopUnlocked ==
    /\ owner = "idle"
    /\ owner' = "stop" /\ running' = FALSE
    /\ UNCHANGED <<logs, mtx, asleep, worker, pushed, printed>>

\* The destructor clears running under the mutex.
Stop ==
    /\ owner = "idle" /\ mtx = Nobody
    /\ mtx' = "owner" /\ owner' = "stop"
    /\ running' = FALSE
    /\ UNCHANGED <<logs, asleep, worker, pushed, printed>>

\* The end of either critical section.
Release ==
    /\ \/ owner = "push" /\ owner' = "pushed"
       \/ owner = "stop" /\ owner' = "stopped"
    /\ mtx' = IF mtx = "owner" THEN Nobody ELSE mtx
    /\ UNCHANGED <<logs, running, asleep, worker, pushed, printed>>

\* Mutant: only the destructor notifies.
NotifyAtStop ==
    /\ \/ owner = "pushed" /\ owner' = "idle" /\ UNCHANGED asleep
       \/ owner = "stopped" /\ owner' = "join" /\ asleep' = FALSE
    /\ UNCHANGED <<logs, running, mtx, worker, pushed, printed>>

\* notify_one wakes the worker if it sleeps, and is forgotten otherwise.
Notify ==
    /\ \/ owner = "pushed" /\ owner' = "idle"
       \/ owner = "stopped" /\ owner' = "join"
    /\ asleep' = FALSE
    /\ UNCHANGED <<logs, running, mtx, worker, pushed, printed>>

Join ==
    /\ owner = "join" /\ worker = "done"
    /\ owner' = "gone"
    /\ UNCHANGED <<logs, running, mtx, asleep, worker, pushed, printed>>

-----------------------------------------------------------------------------
\* The worker.

\* while (running): read without the mutex.  The destructor's write happens
\* before or after the read, and the calls that follow keep the compiler from
\* reading once for all rounds.
Test ==
    /\ worker = "test"
    /\ worker' = IF running THEN "lock" ELSE "done"
    /\ UNCHANGED <<logs, running, mtx, asleep, owner, pushed, printed>>

\* unique_lock, at the head of a round or on return from sleep.
Lock ==
    /\ worker \in {"lock", "wait"} /\ ~asleep /\ mtx = Nobody
    /\ mtx' = "worker" /\ worker' = "check"
    /\ UNCHANGED <<logs, running, asleep, owner, pushed, printed>>

\* Mutant: the wait does not end when running is cleared.
ReadyIfLines == logs # << >>

\* The predicate of cv.wait.
Ready == logs # << >> \/ ~running

\* The predicate is tested with the mutex held.
Check ==
    /\ worker = "check"
    /\ worker' = IF Ready THEN "drain" ELSE "sleep"
    /\ UNCHANGED <<logs, running, mtx, asleep, owner, pushed, printed>>

\* cv.wait releases the mutex and sleeps in one step.
Sleep ==
    /\ worker = "sleep"
    /\ worker' = "wait" /\ mtx' = Nobody /\ asleep' = TRUE
    /\ UNCHANGED <<logs, running, owner, pushed, printed>>

\* A condition variable may wake for no reason.
Spurious ==
    /\ asleep /\ asleep' = FALSE
    /\ UNCHANGED <<logs, running, mtx, owner, worker, pushed, printed>>

\* Mutant: popped first, so that the next line is printed in its place.
PrintPopped ==
    /\ worker = "drain" /\ logs # << >>
    /\ logs' = Tail(logs)
    /\ printed' = IF Len(logs) > 1 THEN Append(printed, logs[2]) ELSE printed
    /\ UNCHANGED <<running, mtx, asleep, owner, worker, pushed>>

\* The mutex is held while a line is printed: pushLog waits for the console.
PrintFront ==
    /\ worker = "drain" /\ logs # << >>
    /\ printed' = Append(printed, Head(logs)) /\ worker' = "pop"
    /\ UNCHANGED <<logs, running, mtx, asleep, owner, pushed>>
Pop ==
    /\ worker = "pop"
    /\ logs' = Tail(logs) /\ worker' = "drain"
    /\ UNCHANGED <<running, mtx, asleep, owner, pushed, printed>>

Drained ==
    /\ worker = "drain" /\ logs = << >>
    /\ mtx' = Nobody /\ worker' = "test"
    /\ UNCHANGED <<logs, running, asleep, owner, pushed, printed>>

-----------------------------------------------------------------------------
OwnerStep == Release \/ Notify \/ Join
Work == Test \/ Lock \/ Check \/ Sleep \/ PrintFront \/ Pop \/ Drained
LoggerNext == OwnerStep \/ Work \/ Spurious

-----------------------------------------------------------------------------
\* What is on the console and what is in the queue are, in order, what was
\* pushed: no line is lost, doubled or overtaken while two threads share the
\* queue.  Between the print and the pop, the line printed is still queued.
NothingLost ==
    pushed = printed \o (IF worker = "pop" THEN Tail(logs) ELSE logs)

\* A worker that sleeps has nothing to do, or is about to be notified: no
\* wakeup is lost between the test of the predicate and the sleep.
NoLostWakeup ==
    asleep /\ Ready => owner \in {"push", "pushed", "stop", "stopped"}
=============================================================================
