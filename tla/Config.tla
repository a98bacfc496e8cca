------------------------------- MODULE Config -------------------------------
(***************************************************************************)
(* Reading a broker's configuration (parseConfig in src/main.cpp): line by *)
(* line, and the process exits at the first line it cannot accept.  A line *)
(* is its key and what its text converts to: Junk if the conversion throws *)
(* (not an integer, trailing characters, too long for an int), NaN for a   *)
(* coordinate that reads "nan".                                            *)
(***************************************************************************)
EXTENDS Integers, Sequences

CONSTANTS
    Lines,            \* the lines a file may hold
    MaxLines,         \* bound of the model: how many of them
    Junk, NaN,
    Plain             \* the key of an empty line or a comment

VARIABLES
    reading,          \* "reading", "accepted" or "refused"
    cfg,
    have,             \* the keys seen so far (have_broker_id, ...)
    file              \* history: the lines read so far

confVars == <<reading, cfg, have, file>>

Required == {"broker_id", "listen_port", "coords"}
IntKeys == {"listen_port", "brake_limit", "brake_window"}

\* No text, a text without colon, or a text with what follows the colon.
NoParent == [colon |-> FALSE, text |-> FALSE, port |-> Junk]

Defaults ==
    [broker_id |-> "", listen_port |-> 0, parent_addr |-> NoParent,
     coords |-> [lat |-> 0, lon |-> 0], brake_limit |-> 2, brake_window |-> 10,
     brake_scope |-> "both", require_he |-> FALSE]

\* What a line's text converts to, before any test of its range.
ASSUME ConfigAssumption ==
    /\ Plain \notin DOMAIN Defaults
    /\ \A line \in Lines :
         /\ line.key \in IntKeys => line.val = Junk \/ line.val \in Int
         /\ line.key = "parent_addr" => line.val.port = Junk \/ line.val.port \in Int

ConfInit ==
    /\ reading = "reading" /\ cfg = Defaults /\ have = {} /\ file = << >>

\* parseIntField, and the range of each integer.
FitsInt(key, v) ==
    /\ v # Junk /\ v >= 1
    /\ key = "listen_port" => v <= 65535

\* Every comparison with NaN is false, so NaN is not outside.
Outside(x, bound) == x # NaN /\ (x < -bound \/ x > bound)

Acceptable(key, v) ==
    \/ key \in IntKeys /\ FitsInt(key, v)
    \/ key = "broker_id" /\ v # ""
    \/ key = "parent_addr" /\ (v.text => v.colon)
    \/ /\ key = "coords" /\ v # Junk
       /\ ~Outside(v.lat, 90) /\ ~Outside(v.lon, 180)
    \/ key = "require_he" /\ v \in BOOLEAN
    \/ key = "brake_scope" /\ v \in {"upward", "local", "both"}

\* Mutant: a key that was given is not given again.
KeepFirst(key, v) == IF key \in have THEN cfg ELSE [cfg EXCEPT ![key] = v]

\* A later line for the same key wins.
Assign(key, v) == [cfg EXCEPT ![key] = v]

ReadLine(line) ==
    /\ reading = "reading" /\ Len(file) < MaxLines
    /\ file' = Append(file, line)
    /\ IF line.key = Plain
       THEN UNCHANGED <<reading, cfg, have>>
       ELSE IF Acceptable(line.key, line.val)
       THEN /\ cfg' = Assign(line.key, line.val)
            /\ have' = have \cup {line.key}
            /\ UNCHANGED reading
       ELSE reading' = "refused" /\ UNCHANGED <<cfg, have>>

EndOfFile ==
    /\ reading = "reading"
    /\ reading' = IF Required \subseteq have THEN "accepted" ELSE "refused"
    /\ UNCHANGED <<cfg, have, file>>

ConfNext == (\E line \in Lines : ReadLine(line)) \/ EndOfFile

-----------------------------------------------------------------------------
\* The lines of the file that speak of key.
About(key) == {i \in DOMAIN file : file[i].key = key}

\* What a socket can be bound to.
UINT16_MAX == 65535
Ports == 1 .. UINT16_MAX

\* A configuration that is accepted is the one the whole file asks for: every
\* required key is there, each key has the value of its last line or its
\* default, and no integer is out of the range the file's reader documents,
\* not even in a line that a later one overrides.
AcceptedAsWritten ==
    reading = "accepted" =>
      /\ \A key \in Required : About(key) # {}
      /\ \A key \in DOMAIN Defaults :
           \/ About(key) = {} /\ cfg[key] = Defaults[key]
           \/ \E i \in About(key) :
                cfg[key] = file[i].val /\ \A j \in About(key) : j <= i
      /\ \A i \in About("listen_port") : file[i].val \in Ports
      /\ \A i \in About("brake_limit") \cup About("brake_window") :
           file[i].val # Junk /\ file[i].val > 0
      /\ \A i \in DOMAIN file : file[i].key \in DOMAIN Defaults \cup {Plain}
=============================================================================
