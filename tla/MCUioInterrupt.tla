--------------------------- MODULE MCUioInterrupt ---------------------------
(***************************************************************************)
(* The wait for the PPS interrupt, the PPS generator and the FIFO between  *)
(* two clocks for TLC.  A behaviour follows one of them; the others stay   *)
(* in their initial states.                                                *)
(***************************************************************************)
EXTENDS UioInterrupt, PpsGen, AxisFifo

VARIABLE view

MCvars == <<view, vars, Ppsvars, Fifovars>>

MCInit == /\ view \in {"wait", "pps", "fifo"}
          /\ IF view = "wait" THEN Init ELSE Init /\ Later /\ ~isr /\ ~masked
          /\ IF view = "pps" THEN PpsInit ELSE PpsInit /\ ~gpsen
          /\ IF view = "fifo" THEN FifoInit ELSE FifoInit /\ taken = 0

MCNext ==
  \/ view = "wait" /\ Next     /\ UNCHANGED <<view, Ppsvars, Fifovars>>
  \/ view = "pps"  /\ PpsNext  /\ UNCHANGED <<view, vars, Fifovars>>
  \/ view = "fifo" /\ FifoNext /\ UNCHANGED <<view, vars, Ppsvars>>

(* The fairness of UioInterrupt and PpsGen, while they are followed. *)
MCSpec == /\ MCInit /\ [][MCNext]_MCvars
          /\ view = "wait" =>
               /\ WF_vars(Irq) /\ WF_vars(Enable \/ Loop \/ Buffer)
               /\ \A t \in Thread : WF_vars(Step(t)) /\ SF_vars(Read(t))
          /\ view = "pps" => WF_Ppsvars(PpsClock)
=============================================================================
