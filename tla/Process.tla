------------------------------ MODULE Process ------------------------------
(***************************************************************************)
(* The main thread of a broker process (main in src/main.cpp, the          *)
(* constructor and destructor in src/broker/broker.cpp) with its logger's  *)
(* worker beside it: read the configuration, construct the broker, log how *)
(* it runs, and enter the loop.  What the loop does is module Broker; here *)
(* it is the state "looping", which logs nothing and never ends.           *)
(***************************************************************************)
EXTENDS Config, Logger

ASSUME LinesAssumption == {"warning", "listening", "mode", "key"} \subseteq LogLines

VARIABLES
    main,          \* where the main thread is
    he_enabled,
    parent_port    \* parent_addr_.sin_port

vars == <<confVars, logVars, main, he_enabled, parent_port>>

\* What sixteen bits may hold.
Words == 0 .. UINT16_MAX

Ended == {"exited", "aborted", "returned"}
TypeOK ==
    /\ LogTypeOK
    /\ reading \in {"reading", "accepted", "refused"}
    /\ DOMAIN cfg = DOMAIN Defaults /\ have \subseteq DOMAIN Defaults
    /\ main \in {"parsing", "body", "crypto", "listen", "mode", "key", "start",
                 "looping", "returning", "leaving"} \cup Ended
    /\ he_enabled \in BOOLEAN
    /\ parent_port \in Words

Init ==
    /\ ConfInit /\ LogInit
    /\ main = "parsing" /\ he_enabled = FALSE /\ parent_port = 0

has_parent == cfg.parent_addr.text

\* The main thread is between two calls of the logger.
At(pc) == main = pc /\ owner = "idle"

\* Log one line and go on to pc.
Log(line, pc) ==
    /\ PushLog(line) /\ main' = pc
    /\ UNCHANGED <<confVars, parent_port>>

Quietly == UNCHANGED <<confVars, logVars>>

-----------------------------------------------------------------------------
ParseConfig ==
    /\ main = "parsing" /\ ConfNext
    /\ UNCHANGED <<logVars, main, he_enabled, parent_port>>

ConfigError ==
    /\ main = "parsing" /\ reading = "refused"
    /\ main' = "exited" /\ Quietly
    /\ UNCHANGED <<he_enabled, parent_port>>

\* The members are constructed before the constructor's body runs.
Construct ==
    /\ main = "parsing" /\ reading = "accepted"
    /\ NewLogger /\ main' = "body"
    /\ UNCHANGED <<confVars, he_enabled, parent_port>>

\* socket or bind fails.
BindFails ==
    /\ At("body") /\ main' = "exited" /\ Quietly
    /\ UNCHANGED <<he_enabled, parent_port>>

\* Mutant: no cast.
WholePort(n) == n

\* static_cast<uint16_t>: the low sixteen bits, whatever the file says.
Port(n) == n % 65536

\* stoi throws on Junk in the parent's port and nobody catches it.
BindSucceeds ==
    /\ At("body") /\ Quietly
    /\ IF ~has_parent THEN main' = "crypto" /\ UNCHANGED parent_port
       ELSE IF cfg.parent_addr.port = Junk
       THEN main' = "aborted" /\ UNCHANGED parent_port
       ELSE main' = "crypto" /\ parent_port' = Port(cfg.parent_addr.port)
    /\ UNCHANGED he_enabled

\* initCrypto: a root writes its key files, a leaf reads one.
KeysUsable ==
    /\ At("crypto") /\ main' = "listen" /\ he_enabled' = TRUE /\ Quietly
    /\ UNCHANGED parent_port

KeysFatal ==
    /\ At("crypto") /\ (has_parent => cfg.require_he)
    /\ main' = "exited" /\ Quietly
    /\ UNCHANGED <<he_enabled, parent_port>>

\* Mutant: no warning.
FallBackSilently ==
    /\ At("crypto") /\ has_parent /\ ~cfg.require_he
    /\ main' = "listen" /\ Quietly
    /\ UNCHANGED <<he_enabled, parent_port>>

\* Plaintext mode is allowed, and said so.
FallBack ==
    /\ At("crypto") /\ has_parent /\ ~cfg.require_he
    /\ Log("warning", "listen")
    /\ UNCHANGED he_enabled

\* The three lines every broker starts with.
Announce ==
    /\ \/ At("listen") /\ Log("listening", "mode")
       \/ At("mode") /\ Log("mode", IF he_enabled THEN "key" ELSE "start")
       \/ At("key") /\ Log("key", "start")
    /\ UNCHANGED he_enabled

\* start() returns at once if epoll cannot be set up, and loops otherwise: the
\* errors that end the loop need a descriptor or a buffer that is not its own.
Start ==
    /\ At("start") /\ main' \in {"looping", "returning"} /\ Quietly
    /\ UNCHANGED <<he_enabled, parent_port>>

\* main returns: the destructor of the broker, and with it the logger's.
Destroy ==
    /\ At("returning") /\ Stop /\ main' = "leaving"
    /\ UNCHANGED <<confVars, he_enabled, parent_port>>

Return ==
    /\ main = "leaving" /\ owner = "gone"
    /\ main' = "returned" /\ Quietly
    /\ UNCHANGED <<he_enabled, parent_port>>

\* The logger's own steps, until the process ends.
Logging(step) ==
    /\ main \notin Ended /\ step
    /\ UNCHANGED <<confVars, main, he_enabled, parent_port>>

Main ==
    \/ ParseConfig \/ ConfigError \/ Construct \/ BindFails \/ BindSucceeds
    \/ KeysUsable \/ KeysFatal \/ FallBack \/ Announce \/ Start \/ Destroy
    \/ Return \/ Logging(OwnerStep)

Worker == Logging(Work)

Next == Main \/ Worker \/ Logging(Spurious)

\* Both threads get the CPU.
Spec == Init /\ [][Next]_vars /\ WF_vars(Main) /\ WF_vars(Worker)

-----------------------------------------------------------------------------
Shown(line) == \E i \in DOMAIN printed : printed[i] = line

\* A broker that serves in plaintext was allowed to and says so: the warning
\* reaches the console although another thread prints it (initCrypto, I6).
PlaintextIsSaid ==
    main = "looping" /\ ~he_enabled ~> ~cfg.require_he /\ Shown("warning")

\* Every broker that serves shows the line that tells its mode (I5).
ModeIsSaid == main = "looping" ~> Shown("mode")

\* The destructor comes back: join does not wait for a worker that sleeps.
DestructorReturns == main = "leaving" ~> main = "returned"
=============================================================================
