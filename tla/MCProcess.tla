----------------------------- MODULE MCProcess -----------------------------
(***************************************************************************)
(* Configuration files of a few lines, right and wrong.  The coordinates   *)
(* that are accepted have a number in range and one that is not a number.  *)
(***************************************************************************)
EXTENDS Process

Set(key, val) == [key |-> key, val |-> val]
Parent(port) == [colon |-> TRUE, text |-> TRUE, port |-> port]

FileLines ==
    {Set("broker_id", "leaf"), Set("broker_id", ""),
     Set("listen_port", 9001),
     Set("listen_port", 65536), Set("listen_port", Junk),
     Set("coords", [lat |-> 51, lon |-> NaN]), Set("coords", [lat |-> 91, lon |-> 0]),
     Set("parent_addr", Parent(70000)), Set("parent_addr", Parent(Junk)),
     Set("parent_addr", [Parent(Junk) EXCEPT !.colon = FALSE]),
     Set("require_he", TRUE), Set("require_he", Junk), Set("brake_limit", 0),
     Set(Plain, Junk), Set("unknown", Junk)}

StartLines == {"warning", "listening", "mode", "key"}
=============================================================================
