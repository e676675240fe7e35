-------------------------- MODULE MCTriggerChannel --------------------------
(* Instances of TriggerChannel for TLC. *)
EXTENDS TriggerChannel

(* With a negative level a non-negative sample is neither below nor a hit. *)
NegSample == {-2, -1, 0}
Levels == {-1, 0}
Scalers == {0, 1, 2}
=============================================================================
