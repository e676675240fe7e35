------------------------------- MODULE PpsGen -------------------------------
(***************************************************************************)
(* pps_gen_v1_1: the pulse per second that starts the PPS packet, resets   *)
(* the clock count of the events and raises the interrupt of lago.c.  It   *)
(* is either the external GPS pulse or a false one made from the clock.    *)
(* One step is one clock edge.                                             *)
(***************************************************************************)
EXTENDS Naturals

CONSTANTS CLK_FREQ,  \* clocks per false second (125000000)
          CNT_MOD    \* 2^27, the width of clk_cnt_pps

(* Below five clocks per second the false pulse, CLK_FREQ/5 wide, vanishes. *)
ASSUME PpsAssumption ==
  /\ CLK_FREQ \in Nat /\ CLK_FREQ >= 5 
  /\ CNT_MOD \in Nat /\ CLK_FREQ + 2 < CNT_MOD

VARIABLES
  oneSec,    \* one_sec_cnt
  clkCnt,    \* clk_cnt_pps
  falsePps,  \* false_pps
  st,        \* pps_st_reg: "ZERO", "EDGE" or "ONE"
  gpsen,     \* gpsen_i, bit 4 of the reset register: the false PPS is used
  gps,       \* pps_i, the external pulse
  whole      \* history: the false PPS has been selected from clock 0 of this
             \* second on, and no reset has begun or cut it

Ppsvars == <<oneSec, clkCnt, falsePps, st, gpsen, gps, whole>>

PpsInit == /\ oneSec = 0 /\ clkCnt = 0 /\ falsePps = FALSE /\ st = "ZERO"
           /\ gpsen \in BOOLEAN /\ gps = FALSE /\ whole = FALSE

pps   == IF gpsen THEN falsePps ELSE gps
pps_o == st = "EDGE"                        \* one_clk_pps, also int_o

FalseWidth == CLK_FREQ \div 5

OneSecNext == IF oneSec = CLK_FREQ - 1 THEN 0 ELSE oneSec + 1

ClkCntNext == IF pps_o THEN 0 ELSE (clkCnt + 1) % CNT_MOD

\* Slip: the detector stays in EDGE while the input is high.
MutEdgeNext == CASE st = "ZERO" -> IF pps THEN "EDGE" ELSE "ZERO"
                 [] st = "EDGE" -> IF pps THEN "EDGE" ELSE "ZERO"
                 [] st = "ONE"  -> IF pps THEN "ONE" ELSE "ZERO"

\* Slip: the detector does not leave ONE.
MutEdgeStuck == CASE st = "ZERO" -> IF pps THEN "EDGE" ELSE "ZERO"
                  [] st = "EDGE" -> "ONE"
                  [] st = "ONE"  -> "ONE"

(* pps_st_next *)
EdgeNext == CASE st = "ZERO" -> IF pps THEN "EDGE" ELSE "ZERO"
              [] st = "EDGE" -> IF pps THEN "ONE" ELSE "ZERO"
              [] st = "ONE"  -> IF pps THEN "ONE" ELSE "ZERO"

WholeNext(mode) == mode /\ (whole \/ oneSec = CLK_FREQ - 1)

(* A clock edge out of reset.  The external pulse may change between any   *)
(* two edges, the mode bit when software writes the register.              *)
Counting(mode) == /\ oneSec' = OneSecNext
                  /\ falsePps' = (oneSec < FalseWidth)
                  /\ clkCnt' = ClkCntNext
                  /\ st' = EdgeNext
                  /\ gps' \in BOOLEAN /\ gpsen' = mode
                  /\ whole' = WholeNext(mode)

PpsClock == Counting(gpsen)

(* The same, at which software has just switched between GPS and false PPS. *)
PpsSwitch == Counting(~gpsen)

(* A clock edge with aresetn low: false_pps keeps its value. *)
PpsReset == /\ oneSec' = 0 /\ clkCnt' = 0 /\ st' = "ZERO"
            /\ gps' \in BOOLEAN /\ whole' = FALSE
            /\ UNCHANGED <<falsePps, gpsen>>

(* A clock edge with resetn_i low and aresetn high: resetn_i comes from    *)
(* the pin ext_resetn at any moment, clears the counters and leaves the    *)
(* edge detector running.                                                  *)
PpsExtReset == /\ oneSec' = 0 /\ clkCnt' = 0 /\ st' = EdgeNext
               /\ gps' \in BOOLEAN /\ whole' = FALSE
               /\ UNCHANGED <<falsePps, gpsen>>

PpsNext == PpsClock \/ PpsSwitch \/ PpsReset \/ PpsExtReset

PpsSpec == PpsInit /\ [][PpsNext]_Ppsvars
PpsFairSpec == PpsSpec /\ WF_Ppsvars(PpsClock)

-----------------------------------------------------------------------------
(* A false second that no reset has begun or cut has exactly one pulse, at *)
(* its third clock, and from there the count that the events carry is the  *)
(* distance from it: whatever the GPS input did before, at whatever clock  *)
(* software has selected the false PPS and wherever a reset had left the   *)
(* edge detector.  A second begun by a reset may have none: resetn_i while *)
(* the false pulse is high leaves the detector in ONE.                     *)
PulseInSecond ==
  whole => /\ oneSec >= 1 => (pps_o <=> oneSec = 2)
           /\ oneSec >= 3 => clkCnt = oneSec - 3

(* With the false PPS selected for good and no more resets, pulses (and    *)
(* with them interrupts) never stop.                                       *)
FalsePpsForever == <>[][PpsClock /\ gpsen]_Ppsvars => []<>(pps_o \/ ~gpsen)
=============================================================================
