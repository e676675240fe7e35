----------------------------- MODULE MCPrograms -----------------------------
(***************************************************************************)
(* The programs that drive a gate design, for TLC: lago, one invocation    *)
(* after another; the recorders; the server of adc_test.  They belong to   *)
(* different designs: a behaviour follows one of them, the others stay in  *)
(* their initial states.                                                   *)
(***************************************************************************)
EXTENDS MCLagoProcess, Recorder, AdcServer

VARIABLE view

MCvars == <<view, vars, Recordervars, Servervars>>

MCInit == /\ view \in {"lago", "recorder", "server"}
          /\ Init /\ RecorderInit /\ ServerInit
          /\ view # "recorder" => aim = None
          /\ view # "server" => rx_rst = {}

MCNext ==
  \/ view = "lago"     /\ Next         /\ UNCHANGED <<view, Recordervars, Servervars>>
  \/ view = "recorder" /\ RecorderNext /\ UNCHANGED <<view, vars, Servervars>>
  \/ view = "server"   /\ ServerNext   /\ UNCHANGED <<view, vars, Recordervars>>

MCSpec == MCInit /\ [][MCNext]_MCvars
=============================================================================
