---------------------------- MODULE BrakeWindow ----------------------------
(***************************************************************************)
(* One sliding window of the brake (brakeAllows, src/broker/broker.cpp):   *)
(* the queue of the times at which a publication was let through, for one  *)
(* service, one hemisphere quadrant and one direction.                     *)
(***************************************************************************)
EXTENDS Integers, Sequences

CONSTANTS
    BrakeLimit,     \* config_.brake_limit: entries let through per window
    BrakeWindowSec  \* config_.brake_window_sec

ASSUME BrakeAssumption == BrakeLimit \in Nat /\ BrakeWindowSec \in Nat

\* The positions of w whose age at time t still lies within the window.
Fresh(w, t) == {i \in DOMAIN w : t - w[i] <= BrakeWindowSec}

\* Mutant: nothing is ever popped.
DropNothing(w, t) == w

\* Pop from the front while the front is older than the window.
DropStale(w, t) ==
    IF Fresh(w, t) = {} THEN << >>
    ELSE LET first == CHOOSE i \in Fresh(w, t) : \A j \in Fresh(w, t) : i <= j
         IN  SubSeq(w, first, Len(w))

\* Mutant: off by one.
AllowsOneMore(w, t) == Len(DropStale(w, t)) <= BrakeLimit

\* Fewer than brake_limit entries remain: the publication passes.
Allows(w, t) == Len(DropStale(w, t)) < BrakeLimit

\* The window after one consultation at time t.
Consulted(w, t) ==
    IF Allows(w, t) THEN Append(DropStale(w, t), t) ELSE DropStale(w, t)
=============================================================================
