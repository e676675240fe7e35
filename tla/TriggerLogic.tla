---------------------------- MODULE TriggerLogic ----------------------------
(***************************************************************************)
(* The combinational logic of one channel of axis_lago_trigger_v1_3, as    *)
(* operators on the shift register sh (index 0 is the oldest sample).      *)
(* Samples and levels are signed integers: the 14-bit ADC values are sign  *)
(* extended, so comparing the 15 low bits as signed compares the values.   *)
(***************************************************************************)
EXTENDS Integers

CONSTANTS L,          \* DATA_ARRAY_LENGTH (32)
          TRIG,       \* index at which the discriminator looks (10)
          SCALER_MAX  \* largest value of the 32-bit scaler counter

(* The subtrigger looks at the indices 1 to 4.  *)
ASSUME LogicAssumption ==
  /\ L \in Nat /\ TRIG \in Nat /\ 2 <= TRIG /\ TRIG < L /\ 5 <= L
  /\ SCALER_MAX \in Nat

(* At or above the level, with the sign of the level. *)
Hit(x, lvl) == (x < 0 <=> lvl < 0) /\ x >= lvl

(* tr1_s, tr2_s: the sample at TRIG is the first one at the level after    *)
(* TRIG-1 samples below it.                                                *)
Discriminate(sh, lvl) == /\ Hit(sh[TRIG], lvl)
                         /\ \A i \in 1..TRIG-1 : sh[i] < lvl

(* subtr1_s, subtr2_s: a local maximum (or the first sample of a flat one  *)
(* two samples wide) between the two levels, with no sample at the trigger *)
(* level among the next two.                                               *)
SubDiscriminate(sh, lvl, sublvl) ==
  /\ Hit(sh[2], sublvl)
  /\ sh[1] < sh[2]
  /\ sh[3] < sh[2] \/ (sh[3] = sh[2] /\ sh[4] < sh[2])
  /\ sh[2] < 0 <=> lvl < 0
  /\ \A i \in 2..4 : sh[i] < lvl

(* The shift registers move on every clock, whether or not the input       *)
(* register has taken a new sample.                                        *)
Shift(sh, x) == [i \in 0..L-1 |-> IF i = L-1 THEN x ELSE sh[i+1]]

(* scaler_x_max_tick *)
Tick(cnt, scaler) == cnt = scaler

Inc(cnt) == IF cnt = SCALER_MAX THEN 0 ELSE cnt + 1

\* Slip: the counter is not cleared by its own tick.
MutScalerNext(cnt, tr, scaler) == IF tr THEN Inc(cnt) ELSE cnt

(* scaler_x_cnt_next: counting has precedence over the clear. *)
ScalerNext(cnt, tr, scaler) ==
  IF tr THEN Inc(cnt) ELSE IF Tick(cnt, scaler) THEN 0 ELSE cnt
=============================================================================
