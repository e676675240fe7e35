--------------------------- MODULE MCLagoTrigger ---------------------------
(* Instances of LagoTrigger for TLC. *)
EXTENDS LagoTrigger

One == {"a"}
Both == {"a", "b"}
Bits == {0, 1}
Thirds == {0, 1, 2}

(* Levels above every sample but the largest; the subtrigger level, where  *)
(* used, lies below the trigger level.                                     *)
At1 == [c \in Chan |-> 1]
At2 == [c \in Chan |-> 2]
Scaler1 == [c \in Chan |-> 1]
============================================================================
