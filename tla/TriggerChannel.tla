--------------------------- MODULE TriggerChannel ---------------------------
(***************************************************************************)
(* One input channel of axis_lago_trigger_v1_3 up to the point where the   *)
(* two channels meet: input register, shift register, discriminator,       *)
(* trigger scaler and the rate counter that is reported every second.  The *)
(* level and the scaler are configuration registers that software writes   *)
(* at any clock, without a reset, with any value, zero included (lago.c    *)
(* -s).  One step is one clock edge.                                       *)
(***************************************************************************)
EXTENDS TriggerLogic

CONSTANTS Sample,    \* ADC values
          Level,     \* values written to the trigger level
          Scaler,    \* values written to the trigger scaler
          RATE_MAX   \* bound: ticks the rate counter is followed for

ASSUME ChannelAssumption ==
  /\ Sample \subseteq Int /\ 0 \in Sample /\ Level \subseteq Int
  /\ Scaler \subseteq 0..SCALER_MAX
  /\ RATE_MAX \in Nat

VARIABLES
  level, \* trig_lvl_x_i
  scaler,\* scaler_x_i
  fresh, \* history: one of the two was changed at the last clock edge
  adc,   \* adc_reg_x
  sh,    \* adc_dat_x_reg
  sc,    \* scaler_x_cnt_reg
  dly,   \* trx1_s_dly_reg
  rate,  \* rate_x_cnt_reg
  sec    \* history: ticks since the last PPS (its own clock included)

vars == <<level, scaler, fresh, adc, sh, sc, dly, rate, sec>>

Init == /\ level \in Level /\ scaler \in Scaler /\ fresh = FALSE
        /\ adc = 0 /\ sh = [i \in 0..L-1 |-> 0]
        /\ sc = 0 /\ dly = FALSE /\ rate = 0 /\ sec = 0

tr   == Discriminate(sh, level)
tick == Tick(sc, scaler)

\* Slip: the PPS clears the counter even when a tick arrives with it.
MutRateNext(pps) == IF pps THEN 0 ELSE IF tick THEN rate + 1 ELSE rate

(* rate_x_cnt_next: the tick has precedence over the reset by the PPS.     *)
(* With a scaler that is not zero two ticks are at least TRIG = 10 clocks  *)
(* of 125 MHz apart and the 24-bit counter does not wrap within a second;  *)
(* a scaler of zero, which ticks at every clock, takes it past RATE_MAX.   *)
RateNext(pps) == IF tick THEN rate + 1 ELSE IF pps THEN 0 ELSE rate

(* One clock edge; take is s_axis_tvalid and axis_tready_reg.  RATE_MAX    *)
(* bounds the rate counter.                                                *)
Clock(x, take, pps) ==
  /\ tick => rate < RATE_MAX
  /\ adc' = IF take THEN x ELSE adc
  /\ sh'  = Shift(sh, adc)
  /\ sc'  = ScalerNext(sc, tr, scaler)
  /\ dly' = tr
  /\ rate' = RateNext(pps)
  /\ sec' = (IF pps THEN 0 ELSE sec) + (IF tick THEN 1 ELSE 0)

(* aresetn low: bit 0 of the reset register. *)
Reset == /\ adc' = 0 /\ sh' = [i \in 0..L-1 |-> 0]
         /\ sc' = 0 /\ dly' = FALSE /\ rate' = 0 /\ sec' = 0

(* wr_reg_value of the level or of the scaler: the register has its new    *)
(* value from the next clock on.                                           *)
SetLevel  == level' \in Level \ {level} /\ fresh' = TRUE /\ UNCHANGED scaler
SetScaler == scaler' \in Scaler \ {scaler} /\ fresh' = TRUE /\ UNCHANGED level
Keep      == fresh' = FALSE /\ UNCHANGED <<level, scaler>>

Next == /\ \/ \E x \in Sample, take, pps \in BOOLEAN : Clock(x, take, pps)
           \/ Reset
        /\ SetLevel \/ SetScaler \/ Keep

Spec == Init /\ [][Next]_vars

-----------------------------------------------------------------------------
TypeOK == /\ level \in Level /\ scaler \in Scaler /\ fresh \in BOOLEAN
          /\ adc \in Sample /\ sh \in [0..L-1 -> Sample]
          /\ sc \in 0..SCALER_MAX /\ dly \in BOOLEAN
          /\ rate \in 0..RATE_MAX /\ sec \in 0..RATE_MAX

(* The scaler counter runs past the scaler only when software lowers the   *)
(* scaler at this clock, has changed a register at the clock before, or    *)
(* has set the scaler to zero.  It then has to wrap around 2^32 before the *)
(* channel triggers again: counting wins over clearing, so a trigger in    *)
(* the very clock of a tick would do it, and with registers that stand     *)
(* still the discriminator cannot give one there.                          *)
PassedOnlyByWrite ==
  [][sc <= scaler /\ sc' > scaler' => scaler' < scaler \/ fresh \/ scaler = 0]_vars

(* A tick comes in the clock after the trigger that completed the count:   *)
(* the channel mask sent with the event (trx1_s_dly_reg) names the channel *)
(* that ticked, and the pulse is still at a known place in sh.  A register *)
(* just written, or a scaler of zero, makes ticks without a trigger.       *)
TickFollowsTrigger ==
  tick /\ ~fresh /\ scaler # 0 => dly /\ Hit(sh[TRIG-1], level)

(* The reported rate never omits a pulse of the current second, a tick in  *)
(* the clock of the PPS included.  It may be too high: such a tick keeps   *)
(* the counter from being cleared, and the next second adds to it.         *)
RateNotLow == rate >= sec

=============================================================================
