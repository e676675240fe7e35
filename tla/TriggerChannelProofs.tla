------------------------ MODULE TriggerChannelProofs ------------------------
(***************************************************************************)
(* Proofs about TriggerChannel for every window, set of samples, and every *)
(* sequence of levels and scalers that software writes.                    *)
(***************************************************************************)
EXTENDS TriggerChannel, TLAPS

(* What the discriminator guarantees after one more shift: the hit moves   *)
(* to TRIG-1, where the window of the next trigger must be below the level. *)
LEMMA HitMoves ==
  ASSUME NEW s \in [0..L-1 -> Int], NEW x \in Int, NEW l \in Int, Discriminate(s, l)
  PROVE  Hit(Shift(s, x)[TRIG-1], l)
BY LogicAssumption DEF Discriminate, Shift

(* A hit below the place of the trigger excludes a trigger. *)
LEMMA NoTriggerOnHit ==
  ASSUME NEW s \in [0..L-1 -> Int], NEW l \in Int, Hit(s[TRIG-1], l)
  PROVE  ~Discriminate(s, l)
BY LogicAssumption DEF Discriminate, Hit

(* Inductive invariant: a full counter means that the trigger was one      *)
(* clock ago, unless a register has just been written or the scaler is 0.  *)
ChannelInv == TypeOK /\ TickFollowsTrigger /\ RateNotLow

(* The three ways in which the registers go on. *)
LEMMA RegistersStep ==
  ASSUME TypeOK, SetLevel \/ SetScaler \/ Keep
  PROVE  /\ level' \in Level /\ scaler' \in Scaler /\ fresh' \in BOOLEAN
         /\ ~fresh' => level' = level /\ scaler' = scaler
<1>1. level \in Level /\ scaler \in Scaler
  BY DEF TypeOK
<1> QED BY <1>1, Zenon DEF SetLevel, SetScaler, Keep

(* Nothing has been counted. *)
LEMMA ChannelInvInit == Init => ChannelInv
<1> SUFFICES ASSUME Init PROVE ChannelInv
  OBVIOUS
<1>1. dly \in BOOLEAN /\ fresh \in BOOLEAN /\ level \in Level /\ scaler \in Scaler
  BY Zenon DEF Init
<1>2. adc \in Sample /\ sh \in [0..L-1 -> Sample]
  BY LogicAssumption, ChannelAssumption DEF Init
<1>3. sc = 0 /\ sc \in 0..SCALER_MAX /\ rate = 0 /\ sec = 0 /\ 0 \in 0..RATE_MAX
  BY LogicAssumption, ChannelAssumption DEF Init
<1> QED BY <1>1, <1>2, <1>3 DEF ChannelInv, TypeOK, TickFollowsTrigger, RateNotLow,
                                tick, Tick

(* A clock keeps a full scaler one clock behind its trigger. *)
LEMMA ChannelInvStep == ChannelInv /\ [Next]_vars => ChannelInv'
<1> SUFFICES ASSUME ChannelInv, [Next]_vars PROVE ChannelInv'
  OBVIOUS
<1> USE LogicAssumption, ChannelAssumption
<1>1. CASE UNCHANGED vars
  BY <1>1 DEF vars, ChannelInv, TypeOK, TickFollowsTrigger, RateNotLow, tick, Tick
<1>2. CASE Next
  <2>0. /\ level' \in Level /\ scaler' \in Scaler /\ fresh' \in BOOLEAN
        /\ ~fresh' => level' = level /\ scaler' = scaler
    BY <1>2, RegistersStep DEF Next, ChannelInv
  <2>1. CASE Reset
    <3>1. dly' \in BOOLEAN
      BY <2>1, Zenon DEF Reset
    <3>2. adc' \in Sample /\ sh' \in [0..L-1 -> Sample]
      BY <2>1 DEF Reset
    <3>3. sc' = 0 /\ sc' \in 0..SCALER_MAX /\ rate' = 0 /\ sec' = 0 /\ 0 \in 0..RATE_MAX
      BY <2>1 DEF Reset
    <3> QED BY <2>0, <3>1, <3>2, <3>3
            DEF ChannelInv, TypeOK, TickFollowsTrigger, RateNotLow, tick, Tick
  <2>2. ASSUME NEW x \in Sample, NEW take \in BOOLEAN, NEW pps \in BOOLEAN,
               Clock(x, take, pps)
        PROVE  ChannelInv'
    <3>1. /\ adc \in Sample /\ sh \in [0..L-1 -> Sample] /\ sh \in [0..L-1 -> Int]
          /\ adc \in Int /\ sc \in 0..SCALER_MAX /\ level \in Int /\ scaler \in 0..SCALER_MAX
          /\ rate \in 0..RATE_MAX /\ sec \in 0..RATE_MAX /\ rate >= sec
      BY DEF ChannelInv, TypeOK, RateNotLow
    <3>2. tr \in BOOLEAN
      BY Zenon DEF tr, Discriminate
    <3>3. adc' \in Sample /\ sh' \in [0..L-1 -> Sample]
      BY <2>2, <3>1 DEF Clock, Shift
    <3>4. dly' \in BOOLEAN /\ (dly' <=> tr)
      BY <2>2, <3>2, Zenon DEF Clock
    <3>5. sc' = IF tr THEN Inc(sc) ELSE IF sc = scaler THEN 0 ELSE sc
      BY <2>2 DEF Clock, ScalerNext, Tick
    <3>6. sc' \in 0..SCALER_MAX
      BY <3>1, <3>5 DEF Inc
    <3>7. sc' = scaler /\ scaler # 0 => tr
      <4>1. CASE ~tr /\ sc = scaler
        BY <3>5, <4>1
      <4>2. CASE ~tr /\ sc # scaler
        BY <3>5, <4>2
      <4> QED BY <4>1, <4>2
    <3>8. tr => Hit(sh'[TRIG-1], level)
      BY <2>2, <3>1, HitMoves DEF Clock, tr
    <3>9. TickFollowsTrigger'
      BY <2>0, <3>4, <3>7, <3>8 DEF TickFollowsTrigger, tick, Tick
    <3>10. rate' \in 0..RATE_MAX /\ sec' \in 0..RATE_MAX /\ rate' >= sec'
      <4>1. CASE tick
        BY <2>2, <3>1, <4>1 DEF Clock, RateNext
      <4>2. CASE ~tick
        BY <2>2, <3>1, <4>2 DEF Clock, RateNext
      <4> QED BY <4>1, <4>2
    <3> QED BY <2>0, <3>3, <3>4, <3>6, <3>9, <3>10
            DEF ChannelInv, TypeOK, RateNotLow
  <2> QED BY <1>2, <2>1, <2>2 DEF Next
<1> QED BY <1>1, <1>2

(* With registers written at any clock: a tick directly follows the        *)
(* trigger that caused it, unless a register was written at the clock      *)
(* before or the scaler is zero.                                           *)
THEOREM ChannelCorrect == Spec => [](TypeOK /\ TickFollowsTrigger)
BY ChannelInvInit, ChannelInvStep, PTL DEF Spec, ChannelInv

(* Whatever is written and whenever: the counter runs past the scaler only *)
(* by a lowered scaler, a write at the clock before, or a scaler of zero,  *)
(* never by triggers alone.                                                *)
THEOREM ScalerKept == Spec => PassedOnlyByWrite
<1> DEFINE Kept == sc <= scaler /\ sc' > scaler' => scaler' < scaler \/ fresh \/ scaler = 0
<1>1. ChannelInv /\ [Next]_vars => [Kept]_vars
  <2> SUFFICES ASSUME ChannelInv, Next, sc <= scaler,
                      ~(scaler' < scaler), ~fresh, scaler # 0
               PROVE  ~(sc' > scaler')
    OBVIOUS
  <2>1. /\ sc \in 0..SCALER_MAX /\ scaler \in 0..SCALER_MAX /\ scaler' \in 0..SCALER_MAX
        /\ SCALER_MAX \in Nat /\ sh \in [0..L-1 -> Int] /\ level \in Int
    <3>1. scaler' \in Scaler
      BY RegistersStep DEF Next, ChannelInv
    <3> QED BY <3>1, ChannelAssumption, LogicAssumption DEF ChannelInv, TypeOK
  <2>2. CASE Reset
    BY <2>1, <2>2 DEF Reset
  <2>3. ASSUME NEW x \in Sample, NEW take \in BOOLEAN, NEW pps \in BOOLEAN,
               Clock(x, take, pps)
        PROVE  ~(sc' > scaler')
    <3>1. sc' = IF tr THEN Inc(sc) ELSE IF sc = scaler THEN 0 ELSE sc
      BY <2>3 DEF Clock, ScalerNext, Tick
    <3>2. sc = scaler => ~tr
      BY <2>1, NoTriggerOnHit DEF ChannelInv, TickFollowsTrigger, tick, Tick, tr
    <3> QED BY <2>1, <3>1, <3>2 DEF Inc
  <2> QED BY <2>2, <2>3 DEF Next
<1> QED BY <1>1, ChannelInvInit, ChannelInvStep, PTL DEF Spec, PassedOnlyByWrite

(* The reported rate omits no pulse of the current second, a tick in the   *)
(* clock of the PPS included.                                              *)
THEOREM RateCountsAll == Spec => []RateNotLow
BY ChannelInvInit, ChannelInvStep, PTL DEF Spec, ChannelInv
=============================================================================
