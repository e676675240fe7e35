---------------------------- MODULE LagoTrigger ----------------------------
(***************************************************************************)
(* axis_lago_trigger_v1_3: both channels of TriggerLogic and the state     *)
(* machine that sends event, subtrigger and PPS packets as 32-bit words on *)
(* an AXI stream.  One step is one clock edge.                             *)
(*                                                                         *)
(* A word is a record: what it is (k), its place in the packet (i), and    *)
(* for the two status words the number of the trigger they describe (id).  *)
(* tr_status_reg holds the channel mask and the clock count of a trigger;  *)
(* both are functions of which trigger was captured.  The words of a PPS   *)
(* packet are captured when pps_i is high and only their order matters     *)
(* here.  Rates are in TriggerChannel.                                     *)
(***************************************************************************)
EXTENDS TriggerLogic

CONSTANTS Chan,          \* the input channels, a and b
          Sample,        \* ADC values
          lvl, sublvl,   \* trigger and subtrigger levels
          scaler,        \* trigger scalers
          M,             \* METADATA_ARRAY_LENGTH (12)
          SUB,           \* SUBTRIG_ARRAY_LENGTH (3)
          MAX_TRIG       \* bound on the 30-bit trigger counter

ASSUME TriggerAssumption ==
  /\ Sample \subseteq Int /\ 0 \in Sample
  /\ lvl \in [Chan -> Int] /\ sublvl \in [Chan -> Int]
  /\ scaler \in [Chan -> 1..SCALER_MAX-1]
  /\ M \in Nat \ {0} /\ SUB \in Nat \ {0} /\ MAX_TRIG \in Nat

VARIABLES
  adc, sh, sc,        \* per channel: input, shift register, scaler count
  trigCnt,            \* trig_cnt_reg
  status,             \* trigger described by tr_status_reg and cnt_status_reg
  state, wrCount,     \* state_reg, wr_count_reg
  dout,               \* data_to_fifo_reg
  tvalid, tready,     \* axis_tvalid_reg, axis_tready_reg
  got,                \* history: last word taken by the receiver
  run,                \* history: sample words taken since another word, up to L
  count,              \* history: id of the last counter word taken
  origin,             \* history: trigger that opened the current packet
  pps,                \* history: pps_i was high in the last clock
  stalled             \* history: the receiver was not ready in some clock

chain == <<adc, sh, sc>>
fsm   == <<state, wrCount, dout, tvalid, tready>>
hist  == <<got, run, count, origin, pps, stalled>>
vars  == <<chain, trigCnt, status, fsm, hist>>

Word(k, i, id) == [k |-> k, i |-> i, id |-> id]
Zero == Word("zero", 0, -1)          \* register contents after a reset

Init == /\ adc = [c \in Chan |-> 0] /\ sc = [c \in Chan |-> 0]
        /\ sh = [c \in Chan |-> [i \in 0..L-1 |-> 0]]
        /\ trigCnt = 0 /\ status = -1
        /\ state = "IDLE" /\ wrCount = 0 /\ dout = Zero
        /\ tvalid = FALSE /\ tready = FALSE
        /\ got = Zero /\ run = 0 /\ count = -1 /\ origin = -1 /\ pps = FALSE
        /\ stalled = FALSE

----------------------------------------------------------------------------
tr_s    == \E c \in Chan : Tick(sc[c], scaler[c])
subtr_s == \E c \in Chan : SubDiscriminate(sh[c], lvl[c], sublvl[c])

\* Slip: a tick that opens a packet is not captured.
MutDatapath(x, svalid) ==
  /\ adc' = IF tready /\ svalid THEN x ELSE adc
  /\ sh'  = [c \in Chan |-> Shift(sh[c], adc[c])]
  /\ sc'  = [c \in Chan |-> ScalerNext(sc[c], Discriminate(sh[c], lvl[c]), scaler[c])]
  /\ status'  = IF tr_s /\ state # "IDLE" THEN trigCnt ELSE status

(* Everything but the state machine.  status' is tr_status_next and        *)
(* cnt_status_next: every tick overwrites them, in any state.              *)
Datapath(x, svalid) ==
  /\ adc' = IF tready /\ svalid THEN x ELSE adc
  /\ sh'  = [c \in Chan |-> Shift(sh[c], adc[c])]
  /\ sc'  = [c \in Chan |-> ScalerNext(sc[c], Discriminate(sh[c], lvl[c]), scaler[c])]
  /\ status'  = IF tr_s THEN trigCnt ELSE status

TrigCntNext == IF tr_s THEN trigCnt + 1 ELSE trigCnt

(* The packet states raise tvalid and stop the input; only the data and    *)
(* the state depend on m_axis_tready.                                      *)
Sending(st) == state = st /\ tvalid' = TRUE /\ tready' = FALSE

(* A clock in which the receiver is not ready: the word counter falls back *)
(* to its default, zero.                                                   *)
Stall == wrCount' = 0 /\ UNCHANGED <<state, dout>>

\* Slip: the last word of an array is not sent.
MutSendArray(k, len, after) ==
  /\ wrCount' = wrCount + 1
  /\ dout' = Word(k, wrCount, -1)
  /\ state' = IF wrCount + 1 >= len - 1 THEN after ELSE state

(* Word wr_count of an array of len words, then on to the state after.     *)
SendArray(k, len, after) ==
  /\ wrCount' = wrCount + 1
  /\ dout' = Word(k, wrCount, -1)
  /\ state' = IF wrCount = len - 1 THEN after ELSE state

Idle(mready, pps_i) ==
  /\ state = "IDLE"
  /\ state' = IF ~mready THEN "IDLE"
              ELSE IF pps_i THEN "ATT_PPS"
              ELSE IF tr_s THEN "ATT_TR"
              ELSE IF subtr_s THEN "ATT_SUBTR" ELSE "IDLE"
  /\ wrCount' = 0 /\ tvalid' = FALSE /\ tready' = TRUE
  /\ UNCHANGED dout

AttTr(mready) ==
  /\ Sending("ATT_TR")
  /\ IF mready THEN SendArray("sample", L, "SEND_TR_STATUS") ELSE Stall

\* Slip: the counter word is forgotten.
MutSendTrStatus(mready) ==
  /\ Sending("SEND_TR_STATUS")
  /\ IF mready
     THEN wrCount' = 0 /\ dout' = Word("status", 0, status) /\ state' = "IDLE"
     ELSE Stall

SendTrStatus(mready) ==
  /\ Sending("SEND_TR_STATUS")
  /\ IF mready
     THEN /\ wrCount' = 0 /\ dout' = Word("status", 0, status)
          /\ state' = "SEND_CNT_STATUS"
     ELSE Stall

SendCntStatus(mready) ==
  /\ Sending("SEND_CNT_STATUS")
  /\ IF mready
     THEN wrCount' = 0 /\ dout' = Word("count", 0, status) /\ state' = "IDLE"
     ELSE Stall

AttSubtr(mready) ==
  /\ Sending("ATT_SUBTR")
  /\ IF mready THEN SendArray("sub", SUB, "IDLE") ELSE Stall

AttPps(mready) ==
  /\ Sending("ATT_PPS")
  /\ IF mready THEN SendArray("pps", M, "IDLE") ELSE Stall

(* What the receiver has seen, and which trigger opened the packet. *)
History(mready) ==
  LET took == tvalid /\ mready
  IN /\ got' = IF took THEN dout ELSE got
     /\ run' = IF ~took THEN run
               ELSE IF dout.k # "sample" THEN 0
               ELSE IF run = L THEN L ELSE run + 1
     /\ count' = IF took /\ dout.k = "count" THEN dout.id ELSE count
     /\ origin' = IF state = "IDLE" /\ state' = "ATT_TR" THEN trigCnt ELSE origin
     /\ stalled' = (stalled \/ ~mready)

(* One clock edge.  Two PPS are about a second apart, so none comes while  *)
(* the M words of the previous one are sent; MAX_TRIG bounds the triggers. *)
Clock(x, svalid, mready, pps_i) ==
  /\ pps_i => state # "ATT_PPS"
  /\ tr_s => trigCnt < MAX_TRIG
  /\ Datapath(x, svalid)
  /\ trigCnt' = TrigCntNext
  /\ \/ Idle(mready, pps_i)
     \/ AttTr(mready)
     \/ SendTrStatus(mready)
     \/ SendCntStatus(mready)
     \/ AttSubtr(mready)
     \/ AttPps(mready)
  /\ History(mready) /\ pps' = pps_i

(* aresetn low; the receiver starts a new recording. *)
Reset == /\ adc' = [c \in Chan |-> 0] /\ sc' = [c \in Chan |-> 0]
         /\ sh' = [c \in Chan |-> [i \in 0..L-1 |-> 0]]
         /\ trigCnt' = 0 /\ status' = -1
         /\ state' = "IDLE" /\ wrCount' = 0 /\ dout' = Zero
         /\ tvalid' = FALSE /\ tready' = FALSE
         /\ got' = Zero /\ run' = 0 /\ count' = -1 /\ origin' = -1 /\ pps' = FALSE
         /\ stalled' = FALSE

Next == \/ \E x \in [Chan -> Sample], svalid, mready, pps_i \in BOOLEAN :
             Clock(x, svalid, mready, pps_i)
        \/ Reset

Spec == Init /\ [][Next]_vars

----------------------------------------------------------------------------
(* Words that may come after word w when packets are complete and in order. *)
Opens(w) == w.i = 0 /\ w.k \in {"sample", "sub", "pps"}
Follows(w, next) ==
  CASE w.k = "zero"   -> Opens(next)
    [] w.k = "sample" -> IF w.i = L-1 THEN next.k = "status"
                         ELSE next.k = "sample" /\ next.i = w.i + 1
    [] w.k = "status" -> next.k = "count" 
    [] w.k = "count"  -> Opens(next)
    [] w.k = "sub"    -> IF w.i = SUB-1 THEN Opens(next)
                         ELSE next.k = "sub" /\ next.i = w.i + 1
    [] w.k = "pps"    -> IF w.i = M-1 THEN Opens(next)
                         ELSE next.k = "pps" /\ next.i = w.i + 1

(* While the receiver keeps up, the stream is a sequence of whole packets: *)
(* L samples, status and counter; or SUB words; or M words of PPS data.    *)
Framing == ~stalled /\ tvalid => Follows(got, dout)

(* Even with a receiver that stalls, a status word is preceded by at least *)
(* L sample words: a stalled event packet is sent again from its start.    *)
PacketNotShort == tvalid /\ dout.k = "status" => run = L

(* Without stalls, an event packet holds the pulse that caused it, at word *)
(* TRIG-2: the first sample at the level, all earlier words below it.      *)
PulseInPacket ==
  ~stalled /\ state = "ATT_TR" /\ wrCount <= TRIG-2 =>
    \E c \in Chan : /\ Hit(sh[c][TRIG-2-wrCount], lvl[c])
                    /\ \A i \in 0..TRIG-3-wrCount : sh[c][i] < lvl[c]

(* Without stalls, the status and counter words of an event describe the   *)
(* trigger that opened it or a later one, never an earlier one.  A later   *)
(* one it is when another trigger comes while the packet is sent.  Counter *)
(* words never repeat or fall: lago.c takes the lost pulses from the       *)
(* differences of consecutive ones.                                        *)
StatusNotOlder ==
  ~stalled /\ tvalid /\ dout.k \in {"status", "count"} =>
    dout.id >= origin /\ (dout.k = "count" => dout.id > count)

(* "priority is for PPS data every second": every PPS is answered with a   *)
(* PPS packet, at least while the receiver keeps up.                       *)
PpsHonoured == ~stalled /\ pps => state = "ATT_PPS"
============================================================================
