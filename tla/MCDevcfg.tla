------------------------------ MODULE MCDevcfg ------------------------------
(***************************************************************************)
(* The three views of xilinx_devcfg.c for TLC: the device file and its     *)
(* registers, the bytes of a bitstream, and the resources.  A behaviour    *)
(* follows one of them; the others stay in their initial states.           *)
(***************************************************************************)
EXTENDS Devcfg, DevcfgStream, DevcfgLife

VARIABLE view

(* 0, 1 and 2 *)
MCDap == {{}, {"DAP_EN0"}, {"DAP_EN1"}}

MCAttr == {enable_dap, enable_seu, seu_lock}

MCvars == <<view, Devcfgvars, Streamvars, Lifevars>>

MCInit == /\ view \in {"device", "stream", "life"}
          /\ DevcfgInit /\ StreamInit /\ LifeInit
          /\ view # "stream" => ~swapped

MCNext ==
  \/ view = "device" /\ DevcfgNext /\ UNCHANGED <<view, Streamvars, Lifevars>>
  \/ view = "stream" /\ StreamNext /\ UNCHANGED <<view, Devcfgvars, Lifevars>>
  \/ view = "life"   /\ LifeNext   /\ UNCHANGED <<view, Devcfgvars, Streamvars>>

(* The fairness of Devcfg; see there. *)
MCSpec == /\ MCInit /\ [][MCNext]_MCvars
          /\ WF_Devcfgvars(InitFollows)
          /\ \A u \in User : WF_Devcfgvars(UserStep(u))
============================================================================
