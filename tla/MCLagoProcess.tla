--------------------------- MODULE MCLagoProcess ---------------------------
(* Instances of LagoProcess for TLC. *)
EXTENDS LagoProcess

(* One process at a time, any command. *)
Alone == {"p"}
AnyCommand == [p \in Proc |-> {"daq", "init", "query"}]

(* An acquisition, and queries beside it. *)
Pair == {"p", "q"}
DaqAndQuery == [p \in Proc |-> IF p = "p" THEN {"daq"} ELSE {"query"}]
============================================================================
