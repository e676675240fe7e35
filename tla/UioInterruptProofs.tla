------------------------- MODULE UioInterruptProofs -------------------------
(***************************************************************************)
(* Safety of the interrupt wait, for the process with the helper thread    *)
(* and for the one without it; of the pulse that interrupts it; and of the *)
(* FIFO between two clocks, for every width: that it refines a queue, and  *)
(* why its pointers may be read across the clocks.                         *)
(***************************************************************************)
EXTENDS UioInterrupt, PpsGen, AxisFifo, NumberLemmas, TLAPS

(* Every step of a thread or of a signal moves at most one entry of pc. *)
LEMMA GotoOthers ==
  ASSUME NEW t \in Thread, NEW c, DOMAIN pc = Thread,
         pc = [u \in Thread |-> pc[u]], Goto(t, c)
  PROVE  /\ pc' = [u \in Thread |-> IF u = t THEN c ELSE pc[u]]
         /\ pc'[t] = c
         /\ \A u \in Thread : u # t => pc'[u] = pc[u]
BY DEF Goto

(* A latched PPS, or a position read after it, or a thread on its way to   *)
(* read it; and not all threads asleep.  Both are inductive, given that pc *)
(* is a function on the threads.                                           *)
WaitInv == /\ pc = [u \in Thread |-> pc[u]] /\ DOMAIN pc = Thread
           /\ SomeoneAwake /\ PositionFresh

(* The main thread is one of the threads. *)
LEMMA MainIsThread == "main" \in Thread
BY DEF Thread

(* Main has not begun to wait. *)
LEMMA WaitInvInit == Init => WaitInv
<1> SUFFICES ASSUME Init PROVE WaitInv
  OBVIOUS
<1>1. pc = [u \in Thread |-> pc[u]] /\ DOMAIN pc = Thread
  BY Zenon DEF Init, First, Later
<1>2. SomeoneAwake
  <2>1. pc["main"] \notin {"read", "none"}
    BY MainIsThread DEF Init, First, Later
  <2> QED BY <2>1, MainIsThread DEF SomeoneAwake
<1>3. PositionFresh
  BY Zenon DEF Init, PositionFresh
<1> QED BY <1>1, <1>2, <1>3 DEF WaitInv

(* A step that moves a thread to a call other than read and touches        *)
(* neither the status bit, the event nor the history, and does not leave   *)
(* the reading of the position, keeps the invariant.                       *)
LEMMA PlainStep ==
  ASSUME WaitInv, NEW t \in Thread, NEW c, Goto(t, c), c \notin {"read", "none"},
         pc[t] # "pos", isr' = isr, fresh' = fresh
  PROVE  WaitInv'
<1>1. /\ pc' = [u \in Thread |-> IF u = t THEN c ELSE pc[u]]
      /\ pc'[t] = c /\ \A u \in Thread : u # t => pc'[u] = pc[u]
  BY GotoOthers DEF WaitInv
<1>2. pc' = [u \in Thread |-> pc'[u]] /\ DOMAIN pc' = Thread
  BY <1>1, Zenon
<1>3. SomeoneAwake'
  BY <1>1 DEF SomeoneAwake, Thread
<1>4. PositionFresh'
  BY <1>1 DEF WaitInv, PositionFresh, Thread
<1> QED BY <1>2, <1>3, <1>4 DEF WaitInv, Thread

(* Every step of a thread, the line or a signal keeps both. *)
LEMMA WaitInvStep == WaitInv /\ [Next]_vars => WaitInv'
<1> SUFFICES ASSUME WaitInv, [Next]_vars PROVE WaitInv'
  OBVIOUS
<1> USE MainIsThread
<1>1. CASE Pps
  BY <1>1 DEF Pps, WaitInv, SomeoneAwake, PositionFresh, Thread
<1>2. CASE Irq
  BY <1>2 DEF Irq, WaitInv, SomeoneAwake, PositionFresh, Thread
<1>3. CASE Signal
  <2>1. CASE UNCHANGED pc
    BY <1>3, <2>1 DEF Signal, WaitInv, SomeoneAwake, PositionFresh, Thread
  <2>2. CASE \E t \in Thread : pc[t] = "poll" /\ ~event /\ Goto(t, Back(t))
    <3>1. PICK t \in Thread : pc[t] = "poll" /\ Goto(t, Back(t))
      BY <2>2
    <3> QED BY <1>3, <3>1, PlainStep DEF Signal, Back
  <2> QED BY <1>3, <2>1, <2>2 DEF Signal
<1>4. CASE Enable
  BY <1>4, PlainStep DEF Enable, At
<1>5. CASE Loop
  BY <1>5, PlainStep DEF Loop, At
<1>6. CASE Buffer
  BY <1>6, PlainStep DEF Buffer, At
<1>7. ASSUME NEW t \in Thread, Unmask(t) PROVE WaitInv'
  BY <1>7, PlainStep DEF Unmask, At
<1>8. ASSUME NEW t \in Thread, Poll(t) PROVE WaitInv'
  <2>1. CASE event
    <3>1. /\ pc' = [u \in Thread |-> IF u = t THEN "read" ELSE pc[u]]
          /\ pc'[t] = "read" /\ \A u \in Thread : u # t => pc'[u] = pc[u]
      BY <1>8, <2>1, GotoOthers DEF WaitInv, Poll, AfterPoll
    <3>2. pc' = [u \in Thread |-> pc'[u]] /\ DOMAIN pc' = Thread
      BY <3>1, Zenon
    <3>3. SomeoneAwake' /\ PositionFresh'
      BY <1>8, <2>1, <3>1 DEF WaitInv, Poll, At, SomeoneAwake, PositionFresh, Thread
    <3> QED BY <3>2, <3>3 DEF WaitInv, Thread
  <2>2. CASE ~event
    BY <1>8, <2>2, PlainStep DEF Poll, At, AfterPoll, Back
  <2> QED BY <2>1, <2>2
<1>9. ASSUME NEW t \in Thread, Access(t) PROVE WaitInv'
  <2>1. CASE pc[t] = "ipr"
    <3>1. Then(t, pc[t]) \notin {"read", "none"}
      BY <2>1 DEF Then, Back
    <3>2. (isr' <=> isr) /\ (fresh' <=> fresh)
      BY <1>9, <2>1 DEF Access
    <3>3. /\ pc' = [u \in Thread |-> IF u = t THEN Then(t, pc[t]) ELSE pc[u]]
          /\ pc'[t] = Then(t, pc[t])
          /\ \A u \in Thread : u # t => pc'[u] = pc[u]
      BY <1>9, GotoOthers DEF WaitInv, Access
    <3>4. pc' = [u \in Thread |-> pc'[u]] /\ DOMAIN pc' = Thread
      BY <3>3, Zenon
    <3>5. SomeoneAwake'
      BY <3>1, <3>3 DEF SomeoneAwake, Thread
    <3>6. PositionFresh'
      BY <2>1, <3>2, <3>3 DEF WaitInv, PositionFresh, Thread
    <3> QED BY <3>4, <3>5, <3>6 DEF WaitInv, Thread
  <2>2. CASE pc[t] = "ack"
    <3>1. /\ pc' = [u \in Thread |-> IF u = t THEN "pos" ELSE pc[u]]
          /\ pc'[t] = "pos"
      BY <1>9, <2>2, GotoOthers DEF WaitInv, Access, Then
    <3>2. pc' = [u \in Thread |-> pc'[u]] /\ DOMAIN pc' = Thread
      BY <3>1, Zenon
    <3> QED BY <3>1, <3>2 DEF WaitInv, SomeoneAwake, PositionFresh, Thread
  <2>3. CASE pc[t] = "pos"
    <3>1. /\ pc' = [u \in Thread |-> IF u = t THEN Back(t) ELSE pc[u]]
          /\ pc'[t] = Back(t)
      BY <1>9, <2>3, GotoOthers DEF WaitInv, Access, Then
    <3>2. pc' = [u \in Thread |-> pc'[u]] /\ DOMAIN pc' = Thread
      BY <3>1, Zenon
    <3>3. fresh'
      BY <1>9, <2>3 DEF Access
    <3> QED BY <3>1, <3>2, <3>3 DEF WaitInv, SomeoneAwake, PositionFresh, Back, Thread
  <2> QED BY <1>9, <2>1, <2>2, <2>3 DEF Access
<1>10. ASSUME NEW t \in Thread, Read(t) PROVE WaitInv'
  BY <1>10, PlainStep DEF Read, At
<1>11. CASE UNCHANGED vars
  BY <1>11 DEF vars, WaitInv, SomeoneAwake, PositionFresh, Thread
<1> QED BY <1>1, <1>2, <1>3, <1>4, <1>5, <1>6, <1>7, <1>8, <1>9, <1>10, <1>11
        DEF Next, Step

(* No PPS is swallowed, with or without the helper thread, whatever the    *)
(* order in which the threads, the kernel and the PPS move.                *)
THEOREM NoPpsSwallowed == Spec => []PositionFresh
<1>1. WaitInv => PositionFresh
  BY DEF WaitInv
<1> QED BY <1>1, WaitInvInit, WaitInvStep, PTL DEF Spec

(* When all threads are in read, an event is there that wakes one of them. *)
THEOREM NeverAllAsleep == Spec => []SomeoneAwake
<1>1. WaitInv => SomeoneAwake
  BY DEF WaitInv
<1> QED BY <1>1, WaitInvInit, WaitInvStep, PTL DEF Spec
----------------------------------------------------------------------------
(* The false pulse at clock k of its second: high for FalseWidth clocks.   *)
FalseAt(k) == k - 1 < FalseWidth

(* What holds of the counters in every mode and after every reset.         *)
SecondOK ==
  /\ oneSec \in 0 .. CLK_FREQ - 1 /\ clkCnt \in Nat /\ st \in {"ZERO", "EDGE", "ONE"}
  /\ falsePps \in BOOLEAN /\ gpsen \in BOOLEAN /\ whole \in BOOLEAN
  /\ oneSec # 0 => (falsePps <=> FalseAt(oneSec))

(* The state of the edge detector from clock 3 of a false second on.       *)
Detector == IF FalseAt(oneSec - 1) THEN "ONE" ELSE "ZERO"

(* Inductive invariant: in a whole second the detector follows the count   *)
(* two clocks behind.                                                      *)
SecondInv ==
  /\ SecondOK
  /\ whole => /\ gpsen
              /\ oneSec = 0 => ~falsePps
              /\ oneSec = 1 => st = "ZERO"
              /\ oneSec = 2 => st = "EDGE"
              /\ oneSec >= 3 => st = Detector /\ clkCnt = oneSec - 3

(* The false pulse is shorter than the second by more than three clocks.   *)
LEMMA PulseWidths ==
  /\ CLK_FREQ \in Nat /\ CLK_FREQ >= 5 /\ CNT_MOD \in Nat /\ CLK_FREQ + 2 < CNT_MOD
  /\ FalseWidth \in Nat /\ 1 <= FalseWidth /\ FalseWidth + 3 < CLK_FREQ
BY PpsAssumption DEF FalseWidth

(* Any clock keeps the counters in range. *)
LEMMA SecondOKStep == SecondOK /\ [PpsNext]_Ppsvars => SecondOK'
<1> SUFFICES ASSUME SecondOK, [PpsNext]_Ppsvars PROVE SecondOK'
  OBVIOUS
<1>0. EdgeNext \in {"ZERO", "EDGE", "ONE"}
  BY DEF SecondOK, EdgeNext
<1>1. CASE UNCHANGED Ppsvars
  BY <1>1 DEF Ppsvars, SecondOK, FalseAt, FalseWidth
<1>2. CASE PpsReset \/ PpsExtReset
  <2>1. oneSec' = 0 /\ clkCnt' = 0 /\ falsePps' = falsePps /\ gpsen' = gpsen
        /\ (st' = "ZERO" \/ st' = EdgeNext)
    BY <1>2 DEF PpsReset, PpsExtReset
  <2>2. whole' \in BOOLEAN
    BY <1>2, Zenon DEF PpsReset, PpsExtReset
  <2>3. oneSec' \in 0 .. CLK_FREQ - 1 /\ clkCnt' \in Nat
    BY <2>1, PulseWidths
  <2> QED BY <1>0, <2>1, <2>2, <2>3 DEF SecondOK
<1>3. ASSUME NEW mode \in BOOLEAN, Counting(mode) PROVE SecondOK'
  <2>1. oneSec' = OneSecNext /\ clkCnt' = ClkCntNext /\ st' = EdgeNext
    BY <1>3 DEF Counting
  <2>2. gpsen' \in BOOLEAN /\ whole' \in BOOLEAN
    BY <1>3, Zenon DEF Counting, WholeNext
  <2>3. oneSec' \in 0 .. CLK_FREQ - 1
        /\ oneSec' = IF oneSec = CLK_FREQ - 1 THEN 0 ELSE oneSec + 1
    BY <2>1, PulseWidths DEF SecondOK, OneSecNext
  <2>4. clkCnt' \in Nat
    <3>1. clkCnt \in Nat
      BY DEF SecondOK
    <3> QED BY <2>1, <3>1, PulseWidths DEF ClkCntNext
  <2>5. falsePps' \in BOOLEAN /\ (oneSec' # 0 => (falsePps' <=> FalseAt(oneSec')))
    <3>0. falsePps' = (oneSec < FalseWidth)
      BY <1>3 DEF Counting
    <3>1. (oneSec < FalseWidth) \in BOOLEAN
      OBVIOUS
    <3>2. oneSec' # 0 => oneSec' - 1 = oneSec
      BY <2>3 DEF SecondOK
    <3>3. oneSec' # 0 => (falsePps' <=> oneSec' - 1 < FalseWidth)
      BY <3>0, <3>2, Zenon
    <3> QED BY <3>0, <3>1, <3>3, Zenon DEF FalseAt
  <2> QED BY <1>0, <2>1, <2>2, <2>3, <2>4, <2>5 DEF SecondOK
<1>4. gpsen \in BOOLEAN /\ (~gpsen) \in BOOLEAN
  BY Zenon DEF SecondOK
<1> QED BY <1>1, <1>2, <1>3, <1>4 DEF PpsNext, PpsClock, PpsSwitch

(* One clock of a whole false second: the place, the detector, the count.  *)
LEMMA WholeStep ==
  ASSUME SecondInv, NEW mode \in BOOLEAN, Counting(mode), whole'
  PROVE  SecondInv'
<1>1. SecondOK /\ SecondOK'
  <2>1. Counting(gpsen) \/ Counting(~gpsen)
    BY Zenon DEF SecondInv, SecondOK
  <2> QED BY <2>1, SecondOKStep DEF SecondInv, PpsNext, PpsClock, PpsSwitch
<1>2. oneSec' = OneSecNext /\ clkCnt' = ClkCntNext /\ st' = EdgeNext
      /\ falsePps' = (oneSec < FalseWidth)
  BY DEF Counting
<1>3. gpsen' /\ (whole \/ oneSec = CLK_FREQ - 1)
  BY Zenon DEF Counting, WholeNext
<1>4. oneSec \in 0 .. CLK_FREQ - 1 /\ clkCnt \in Nat
      /\ oneSec' = IF oneSec = CLK_FREQ - 1 THEN 0 ELSE oneSec + 1
  BY <1>1, <1>2 DEF SecondOK, OneSecNext
<1>5. CASE oneSec = CLK_FREQ - 1
  <2>1. oneSec' = 0 /\ ~(oneSec < FalseWidth)
    BY <1>4, <1>5, PulseWidths
  <2>2. ~falsePps'
    BY <1>2, <2>1, Zenon
  <2> QED BY <1>1, <1>3, <2>1, <2>2 DEF SecondInv
<1>6. CASE oneSec # CLK_FREQ - 1
  <2>0. whole /\ gpsen /\ pps = falsePps /\ oneSec' = oneSec + 1
    BY <1>3, <1>4, <1>6 DEF SecondInv, pps
  <2>1. CASE oneSec = 0
    <3>1. ~falsePps /\ oneSec' = 1
      BY <2>0, <2>1 DEF SecondInv
    <3>2. st' = "ZERO"
      BY <1>1, <1>2, <2>0, <3>1 DEF EdgeNext, SecondOK
    <3> QED BY <1>1, <1>3, <3>1, <3>2 DEF SecondInv
  <2>2. CASE oneSec = 1
    <3>1. FalseAt(1) /\ oneSec' = 2
      BY <2>0, <2>2, PulseWidths DEF FalseAt
    <3>2. falsePps /\ st = "ZERO"
      BY <1>1, <2>0, <2>2, <3>1 DEF SecondInv, SecondOK
    <3>3. st' = "EDGE"
      BY <1>2, <2>0, <3>2 DEF EdgeNext
    <3> QED BY <1>1, <1>3, <3>1, <3>3 DEF SecondInv
  <2>3. CASE oneSec = 2
    <3>1. st = "EDGE" /\ (falsePps <=> FalseAt(2)) /\ oneSec' = 3 /\ oneSec' - 1 = 2
      BY <1>1, <2>0, <2>3 DEF SecondInv, SecondOK
    <3>2. st' = IF falsePps THEN "ONE" ELSE "ZERO"
      BY <1>2, <2>0, <3>1 DEF EdgeNext
    <3>3. st' = IF FalseAt(oneSec' - 1) THEN "ONE" ELSE "ZERO"
      BY <3>1, <3>2
    <3>4. clkCnt' = 0
      BY <1>2, <3>1 DEF ClkCntNext, pps_o
    <3> QED BY <1>1, <1>3, <3>1, <3>3, <3>4 DEF SecondInv, Detector
  <2>4. CASE oneSec \notin {0, 1, 2}
    <3>1. oneSec >= 3 /\ st = Detector /\ clkCnt = oneSec - 3 /\ (falsePps <=> FalseAt(oneSec))
      BY <1>1, <1>4, <2>0, <2>4 DEF SecondInv, SecondOK
    <3>2. st' = IF falsePps THEN (IF FalseAt(oneSec - 1) THEN "ONE" ELSE "EDGE") ELSE "ZERO"
      BY <1>2, <2>0, <3>1 DEF EdgeNext, Detector
    <3>3. FalseAt(oneSec) => FalseAt(oneSec - 1)
      BY <1>4, PulseWidths DEF FalseAt
    <3>4. oneSec' - 1 = oneSec /\ oneSec' >= 3 /\ oneSec' \notin {0, 1, 2}
      BY <1>4, <2>0, <3>1
    <3>5. st' = IF FalseAt(oneSec' - 1) THEN "ONE" ELSE "ZERO"
      BY <3>1, <3>2, <3>3, <3>4
    <3>6. ~pps_o
      BY <3>1 DEF pps_o, Detector
    <3>7. clkCnt' = oneSec' - 3
      <4>1. clkCnt' = (clkCnt + 1) % CNT_MOD
        BY <1>2, <3>6 DEF ClkCntNext
      <4>2. clkCnt + 1 \in 0 .. CNT_MOD - 1
        BY <1>4, <3>1, PulseWidths
      <4>3. (clkCnt + 1) % CNT_MOD = clkCnt + 1
        BY <4>2, PulseWidths
      <4> QED BY <1>4, <2>0, <3>1, <4>1, <4>3
    <3> QED BY <1>1, <1>3, <3>4, <3>5, <3>7 DEF SecondInv, Detector
  <2> QED BY <2>1, <2>2, <2>3, <2>4
<1> QED BY <1>5, <1>6

(* A second is whole from its first clock on or not at all. *)
LEMMA SecondInvStep == SecondInv /\ [PpsNext]_Ppsvars => SecondInv'
<1> SUFFICES ASSUME SecondInv, [PpsNext]_Ppsvars PROVE SecondInv'
  OBVIOUS
<1>0. SecondOK'
  BY SecondOKStep DEF SecondInv
<1>1. CASE UNCHANGED Ppsvars
  BY <1>0, <1>1 DEF Ppsvars, SecondInv, Detector, FalseAt, FalseWidth
<1>2. CASE PpsNext /\ ~whole'
  BY <1>0, <1>2 DEF SecondInv
<1>3. CASE PpsNext /\ whole'
  <2>1. ~PpsReset /\ ~PpsExtReset
    BY <1>3, Zenon DEF PpsReset, PpsExtReset
  <2>2. Counting(gpsen) \/ Counting(~gpsen)
    BY <1>3, <2>1, Zenon DEF PpsNext, PpsClock, PpsSwitch
  <2>3. gpsen \in BOOLEAN /\ (~gpsen) \in BOOLEAN
    BY Zenon DEF SecondInv, SecondOK
  <2> QED BY <1>3, <2>2, <2>3, WholeStep
<1>4. whole' \in BOOLEAN
  BY <1>0 DEF SecondOK
<1> QED BY <1>1, <1>2, <1>3

(* pps_gen, for every clock frequency, with GPS pulses, changes of mode    *)
(* and both resets at any clock: a whole false second has exactly one      *)
(* pulse, at its third clock, and the count of clocks starts there.        *)
THEOREM OnePulsePerSecond == PpsSpec => []PulseInSecond
<1>1. PpsInit => SecondInv
  <2> SUFFICES ASSUME PpsInit PROVE SecondInv
    OBVIOUS
  <2>1. falsePps \in BOOLEAN /\ gpsen \in BOOLEAN /\ whole \in BOOLEAN /\ ~whole
    BY Zenon DEF PpsInit
  <2>2. oneSec = 0 /\ clkCnt = 0 /\ st = "ZERO"
    BY DEF PpsInit
  <2> QED BY PulseWidths, <2>1, <2>2 DEF SecondInv, SecondOK
<1>2. SecondInv => PulseInSecond
  <2> SUFFICES ASSUME SecondInv, whole
               PROVE  /\ oneSec >= 1 => (pps_o <=> oneSec = 2)
                      /\ oneSec >= 3 => clkCnt = oneSec - 3
    BY DEF PulseInSecond
  <2>1. oneSec \in Nat
    BY DEF SecondInv, SecondOK
  <2>2. oneSec >= 3 => st = Detector /\ clkCnt = oneSec - 3
    BY DEF SecondInv
  <2>3. oneSec >= 3 => ~pps_o
    BY <2>2 DEF Detector, pps_o
  <2>4. (oneSec = 1 => ~pps_o) /\ (oneSec = 2 => pps_o)
    BY DEF SecondInv, pps_o
  <2> QED BY <2>1, <2>2, <2>3, <2>4
<1> QED BY <1>1, <1>2, SecondInvStep, PTL DEF PpsSpec

(* The count of clocks with the false PPS selected: small while a pulse is *)
(* still to come in this second, and restarted by it.                      *)
CountInv ==
  /\ SecondOK /\ gpsen
  /\ oneSec = 0 => clkCnt <= CLK_FREQ /\ (falsePps => clkCnt = 0)
  /\ oneSec = 1 => clkCnt <= CLK_FREQ + 1 /\ (st = "ONE" => clkCnt <= 1)
  /\ oneSec = 2 => clkCnt <= CLK_FREQ + 2 /\ (st = "EDGE" \/ (st = "ONE" /\ clkCnt <= 2))
  /\ oneSec >= 3 => clkCnt <= oneSec

(* A clock or one of the resets keeps the count. *)
LEMMA CountInvStep ==
  CountInv /\ [PpsClock \/ PpsReset \/ PpsExtReset]_Ppsvars => CountInv'
<1> SUFFICES ASSUME CountInv, [PpsClock \/ PpsReset \/ PpsExtReset]_Ppsvars PROVE CountInv'
  OBVIOUS
<1>0. SecondOK /\ SecondOK'
  BY SecondOKStep DEF CountInv, PpsNext
<1>1. CASE UNCHANGED Ppsvars
  BY <1>0, <1>1 DEF Ppsvars, CountInv
<1>2. CASE PpsReset \/ PpsExtReset
  <2>1. oneSec' = 0 /\ clkCnt' = 0 /\ gpsen' = gpsen
    BY <1>2 DEF PpsReset, PpsExtReset
  <2>2. gpsen'
    BY <2>1 DEF CountInv
  <2> QED BY <1>0, <2>1, <2>2, PulseWidths DEF CountInv
<1>3. CASE PpsClock
  <2>1. oneSec' = OneSecNext /\ clkCnt' = ClkCntNext /\ st' = EdgeNext /\ gpsen' = gpsen
        /\ falsePps' = (oneSec < FalseWidth)
    BY <1>3 DEF PpsClock, Counting
  <2>2. gpsen' /\ pps = falsePps
    BY <2>1 DEF CountInv, pps
  <2>3. oneSec \in 0 .. CLK_FREQ - 1
        /\ oneSec' = IF oneSec = CLK_FREQ - 1 THEN 0 ELSE oneSec + 1
    BY <1>0, <2>1 DEF SecondOK, OneSecNext
  <2>4. clkCnt \in Nat /\ clkCnt' \in Nat /\ clkCnt' <= clkCnt + 1 /\ (pps_o => clkCnt' = 0)
    <3>1. clkCnt \in Nat
      BY <1>0 DEF SecondOK
    <3> QED BY <2>1, <3>1, PulseWidths DEF ClkCntNext
  <2>5. CASE oneSec = 0
    <3>1. oneSec' = 1 /\ clkCnt <= CLK_FREQ /\ (falsePps => clkCnt = 0)
      BY <2>3, <2>5, PulseWidths DEF CountInv
    <3>2. st' = "ONE" => falsePps
      BY <1>0, <2>1, <2>2 DEF EdgeNext, SecondOK
    <3> QED BY <1>0, <2>2, <2>4, <3>1, <3>2, PulseWidths DEF CountInv
  <2>6. CASE oneSec = 1
    <3>1. oneSec' = 2 /\ clkCnt <= CLK_FREQ + 1 /\ (st = "ONE" => clkCnt <= 1)
      BY <2>3, <2>6, PulseWidths DEF CountInv
    <3>2. FalseAt(1)
      BY PulseWidths DEF FalseAt
    <3>3. pps
      BY <1>0, <2>2, <2>6, <3>2 DEF SecondOK
    <3>4. st' = IF st = "ZERO" THEN "EDGE" ELSE "ONE"
      BY <1>0, <2>1, <3>3 DEF EdgeNext, SecondOK
    <3>5. st = "EDGE" => clkCnt' = 0
      BY <2>4 DEF pps_o
    <3>6. st' = "EDGE" \/ (st' = "ONE" /\ clkCnt' <= 2)
      <4>1. CASE st = "ZERO"
        BY <3>4, <4>1
      <4>2. CASE st = "EDGE"
        BY <3>4, <3>5, <4>2
      <4>3. CASE st = "ONE"
        BY <2>4, <3>1, <3>4, <4>3
      <4> QED BY <1>0, <4>1, <4>2, <4>3 DEF SecondOK
    <3>7. clkCnt' <= CLK_FREQ + 2
      BY <2>4, <3>1, PulseWidths
    <3> QED BY <1>0, <2>2, <3>1, <3>6, <3>7 DEF CountInv
  <2>7. CASE oneSec = 2
    <3>1. oneSec' = 3 /\ (st = "EDGE" \/ (st = "ONE" /\ clkCnt <= 2))
      BY <2>3, <2>7, PulseWidths DEF CountInv
    <3>2. clkCnt' <= 3
      <4>1. CASE st = "EDGE"
        BY <2>4, <4>1 DEF pps_o
      <4>2. CASE st = "ONE" /\ clkCnt <= 2
        BY <2>4, <4>2
      <4> QED BY <3>1, <4>1, <4>2
    <3> QED BY <1>0, <2>2, <3>1, <3>2 DEF CountInv
  <2>8. CASE oneSec >= 3
    <3>1. clkCnt <= oneSec
      BY <2>8 DEF CountInv
    <3>2. CASE oneSec = CLK_FREQ - 1
      <4>1. oneSec' = 0 /\ clkCnt' <= CLK_FREQ /\ ~(oneSec < FalseWidth)
        BY <2>3, <2>4, <3>1, <3>2, PulseWidths
      <4>2. ~falsePps'
        BY <2>1, <4>1, Zenon
      <4> QED BY <1>0, <2>2, <4>1, <4>2 DEF CountInv
    <3>3. CASE oneSec # CLK_FREQ - 1
      <4>1. oneSec' >= 3 /\ clkCnt' <= oneSec' /\ oneSec' \notin {0, 1, 2}
        BY <2>3, <2>4, <2>8, <3>1, <3>3
      <4> QED BY <1>0, <2>2, <4>1 DEF CountInv
    <3> QED BY <3>2, <3>3
  <2> QED BY <2>3, <2>5, <2>6, <2>7, <2>8
<1> QED BY <1>1, <1>2, <1>3

(* pps_gen with the false PPS selected, for every clock frequency and with *)
(* both resets at any moment: the count that the events carry never gets   *)
(* further than two clocks past a second, so it does not wrap.  It gets    *)
(* there when resetn_i cuts a second while the false pulse is high.        *)
THEOREM FalseCountFits ==
  PpsInit /\ gpsen /\ [][PpsClock \/ PpsReset \/ PpsExtReset]_Ppsvars
    => [](clkCnt <= CLK_FREQ + 2)
<1>1. PpsInit /\ gpsen => CountInv
  <2> SUFFICES ASSUME PpsInit, gpsen PROVE CountInv
    OBVIOUS
  <2>1. falsePps \in BOOLEAN /\ gpsen \in BOOLEAN /\ whole \in BOOLEAN
    BY Zenon DEF PpsInit
  <2>2. oneSec = 0 /\ clkCnt = 0 /\ st = "ZERO"
    BY DEF PpsInit
  <2> QED BY PulseWidths, <2>1, <2>2 DEF CountInv, SecondOK
<1>2. CountInv => clkCnt <= CLK_FREQ + 2
  <2> SUFFICES ASSUME CountInv PROVE clkCnt <= CLK_FREQ + 2
    OBVIOUS
  <2>1. oneSec \in 0 .. CLK_FREQ - 1 /\ clkCnt \in Nat
    BY DEF CountInv, SecondOK
  <2>2. /\ oneSec = 0 => clkCnt <= CLK_FREQ
        /\ oneSec = 1 => clkCnt <= CLK_FREQ + 1
        /\ oneSec = 2 => clkCnt <= CLK_FREQ + 2
        /\ oneSec >= 3 => clkCnt <= oneSec
    BY DEF CountInv
  <2> QED BY <2>1, <2>2, PulseWidths
<1> QED BY <1>1, <1>2, CountInvStep, PTL

----------------------------------------------------------------------------
(* The FIFO between two clocks. *)

(* The powers of two are what their recursive definition says: finite      *)
(* tables of them exist, and agree where they overlap.                     *)
Table(n) == {h \in [0..n -> Nat] : h[0] = 1 /\ \A i \in 0..n-1 : h[i+1] = 2 * h[i]}

(* There is a table of any length. *)
LEMMA TableExists == \A n \in Nat : Table(n) # {}
<1> DEFINE T == {n \in Nat : Table(n) # {}}
<1>1. 0 \in T
  <2>1. [i \in 0..0 |-> 1] \in Table(0)
    BY DEF Table
  <2> QED BY <2>1
<1>2. ASSUME NEW n \in T PROVE n + 1 \in T
  <2>1. PICK h : h \in Table(n)
    OBVIOUS
  <2> DEFINE k == [i \in 0..n+1 |-> IF i = n + 1 THEN 2 * h[n] ELSE h[i]]
  <2>2. n \in Nat /\ h \in [0..n -> Nat] /\ h[0] = 1 /\ \A i \in 0..n-1 : h[i+1] = 2 * h[i]
    BY <2>1 DEF Table
  <2>3. k \in [0..n+1 -> Nat] /\ k[0] = 1
    BY <2>2
  <2>4. ASSUME NEW i \in 0..(n+1)-1 PROVE k[i+1] = 2 * k[i]
    <3>1. CASE i = n
      BY <2>2, <3>1
    <3>2. CASE i # n
      <4>1. i \in 0..n-1 /\ i + 1 \in 0..n /\ k[i+1] = h[i+1] /\ k[i] = h[i]
        BY <2>2, <3>2
      <4> QED BY <4>1, <2>2
    <3> QED BY <3>1, <3>2
  <2> HIDE DEF k
  <2>5. k \in Table(n + 1)
    BY <2>3, <2>4 DEF Table
  <2> QED BY <2>2, <2>5
<1> HIDE DEF T
<1>3. T = Nat
  BY <1>1, <1>2, Inductive DEF T
<1> QED BY <1>3 DEF T

(* Two tables agree where both are defined. *)
LEMMA TablesAgree ==
  ASSUME NEW n \in Nat, NEW m \in Nat, n <= m, NEW h \in Table(n), NEW k \in Table(m)
  PROVE  \A i \in 0..n : h[i] = k[i]
<1> DEFINE T == {i \in Nat : i <= n => h[i] = k[i]}
<1>1. 0 \in T
  BY DEF Table
<1>2. ASSUME NEW i \in T PROVE i + 1 \in T
  BY DEF Table
<1> HIDE DEF T
<1>3. T = Nat
  BY <1>1, <1>2, Inductive DEF T
<1> QED BY <1>3 DEF T

(* The equations of Pow2. *)
LEMMA Powers == /\ Pow2[0] = 1
                /\ \A n \in Nat : Pow2[n] \in Nat \ {0} /\ Pow2[n + 1] = 2 * Pow2[n]
<1> DEFINE t(n) == CHOOSE h : h \in Table(n)
           f == [n \in Nat |-> t(n)[n]]
<1>1. \A n \in Nat : t(n) \in Table(n)
  BY TableExists
<1> HIDE DEF t
<1>2. f[0] = 1 /\ \A n \in Nat : f[n] \in Nat
  BY <1>1 DEF Table
<1>3. ASSUME NEW n \in Nat PROVE f[n + 1] = 2 * f[n]
  <2>1. t(n)[n] = t(n + 1)[n]
    BY <1>1, TablesAgree
  <2>2. t(n + 1)[n + 1] = 2 * t(n + 1)[n]
    BY <1>1 DEF Table
  <2> QED BY <2>1, <2>2
<1>4. f = [n \in Nat |-> IF n = 0 THEN 1 ELSE 2 * f[n - 1]]
  <2>1. ASSUME NEW n \in Nat, n # 0 PROVE f[n] = 2 * f[n - 1]
    <3>1. n - 1 \in Nat /\ (n - 1) + 1 = n
      BY <2>1
    <3> HIDE DEF f
    <3> QED BY <3>1, <1>3
  <2> QED BY <1>2, <2>1
<1> HIDE DEF f
<1>5. Pow2 = [n \in Nat |-> IF n = 0 THEN 1 ELSE 2 * Pow2[n - 1]]
  BY <1>4 DEF Pow2
<1> HIDE DEF Pow2
<1>6. Pow2[0] = 1
  BY <1>5
<1>7. ASSUME NEW n \in Nat PROVE Pow2[n + 1] = 2 * Pow2[n]
  BY <1>5
<1>8. \A n \in Nat : Pow2[n] \in Nat \ {0}
  <2> DEFINE T == {n \in Nat : Pow2[n] \in Nat \ {0}}
  <2>1. 0 \in T
    BY <1>6
  <2>2. ASSUME NEW n \in T PROVE n + 1 \in T
    BY <1>7
  <2> HIDE DEF T
  <2>3. T = Nat
    BY <2>1, <2>2, Inductive DEF T
  <2> QED BY <2>3 DEF T
<1> QED BY <1>6, <1>7, <1>8

(* A bit is zero or one. *)
LEMMA BitValue == ASSUME NEW a \in Nat, NEW i \in Nat PROVE Bit(a, i) \in {0, 1}
<1> DEFINE q == a \div Pow2[i]
<1>0. a \in Int /\ Pow2[i] \in Nat \ {0}
  BY Powers
<1>1. q \in Int
  BY <1>0, DivMod, Zenon
<1> HIDE DEF q
<1>2. q % 2 \in {0, 1}
  BY <1>1
<1> QED BY <1>2 DEF Bit, q

(* Bit i is the difference between the remainders of two powers. *)
LEMMA BitSplits ==
  ASSUME NEW a \in Nat, NEW i \in Nat
  PROVE  a % Pow2[i + 1] = (a % Pow2[i]) + Pow2[i] * Bit(a, i)
<1> DEFINE p == Pow2[i]
           q == a \div p
           m == a % p
           h == q \div 2
           c == q % 2
<1>1. p \in Nat \ {0} /\ Pow2[i + 1] = 2 * p
  BY Powers
<1> HIDE DEF p
<1>2. q \in Int /\ m \in 0..p-1 /\ a = p * q + m
  <2>1. a \in Int
    OBVIOUS
  <2> QED BY <1>1, <2>1, DivMod, Zenon
<1>3. c = Bit(a, i)
  BY DEF Bit, p
<1> HIDE DEF q, m
<1>4. h \in Int /\ c \in 0..1 /\ q = 2 * h + c
  BY <1>2
<1> HIDE DEF h, c
<1>5. a = h * (2 * p) + (m + p * c)
  BY <1>1, <1>2, <1>4
<1>6. m + p * c \in 0..(2*p)-1 /\ 2 * p \in Nat \ {0}
  <2>1. p * c = 0 \/ p * c = p
    BY <1>1, <1>4
  <2> QED BY <1>1, <1>2, <2>1
<1>7. a % (2 * p) = m + p * c
  <2> DEFINE b == 2 * p
             rem == m + p * c
  <2>1. b \in Nat \ {0} /\ rem \in 0..b-1 /\ a = h * b + rem
    BY <1>5, <1>6
  <2> HIDE DEF b, rem
  <2>2. a % b = rem
    BY <2>1, <1>4, DivUnique
  <2> QED BY <2>2 DEF b, rem
<1> QED BY <1>1, <1>3, <1>7 DEF p, m

(* The lower bits of two numbers are the same exactly when the remainders  *)
(* are.                                                                    *)
LEMMA LowBits ==
  ASSUME NEW a \in Nat, NEW b \in Nat, NEW n \in Nat
  PROVE  (a % Pow2[n] = b % Pow2[n]) <=> (\A i \in 0..n-1 : Bit(a, i) = Bit(b, i))
<1> DEFINE Same(k) == \A i \in 0..k-1 : Bit(a, i) = Bit(b, i)
           T == {k \in Nat : (a % Pow2[k] = b % Pow2[k]) <=> Same(k)}
<1>1. 0 \in T
  BY Powers
<1>2. ASSUME NEW k \in T PROVE k + 1 \in T
  <2> DEFINE p == Pow2[k]
             x == a % p
             y == b % p
             c == Bit(a, k)
             d == Bit(b, k)
  <2>1. k \in Nat /\ ((x = y) <=> Same(k))
    OBVIOUS
  <2>2. a % Pow2[k + 1] = x + p * c /\ b % Pow2[k + 1] = y + p * d
    BY <2>1, BitSplits
  <2>3. c \in {0, 1} /\ d \in {0, 1}
    BY <2>1, BitValue
  <2>4. p \in Nat \ {0} /\ x \in 0..p-1 /\ y \in 0..p-1
    <3>1. a \in Int /\ b \in Int /\ p \in Nat \ {0}
      BY <2>1, Powers
    <3> HIDE DEF p
    <3> QED BY <3>1, DivMod, Zenon
  <2>5. Same(k + 1) <=> Same(k) /\ c = d
    BY <2>1
  <2> HIDE DEF p, x, y, c, d, Same
  <2>6. p * c \in {0, p} /\ p * d \in {0, p} /\ (p * c = p * d <=> c = d)
    BY <2>3, <2>4
  <2>7. (x + p * c = y + p * d) <=> (x = y /\ c = d)
    <3> DEFINE u == p * c
               v == p * d
    <3> HIDE DEF u, v
    <3>1. u \in {0, p} /\ v \in {0, p} /\ (u = v <=> c = d)
      BY <2>6 DEF u, v
    <3>2. (x + u = y + v) <=> (x = y /\ u = v)
      BY <2>4, <3>1
    <3> QED BY <3>1, <3>2 DEF u, v
  <2>8. (a % Pow2[k + 1] = b % Pow2[k + 1]) <=> Same(k + 1)
    BY <2>1, <2>2, <2>5, <2>7
  <2> QED BY <2>1, <2>8
<1> HIDE DEF T
<1>3. T = Nat
  BY <1>1, <1>2, Inductive DEF T
<1>4. (a % Pow2[n] = b % Pow2[n]) <=> Same(n)
  BY <1>3 DEF T
<1> QED BY <1>4

(* The exclusive or with the bit above can be undone from the top down.    *)
LEMMA GrayDown ==
  ASSUME NEW a \in Nat, NEW b \in Nat, NEW n \in Nat, Bit(a, n) = Bit(b, n),
         \A i \in 0..n-1 : Xor(Bit(a, i), Bit(a, i + 1)) = Xor(Bit(b, i), Bit(b, i + 1))
  PROVE  \A i \in 0..n : Bit(a, i) = Bit(b, i)
<1> DEFINE T == {k \in Nat : k <= n => Bit(a, n - k) = Bit(b, n - k)}
<1>1. 0 \in T
  OBVIOUS
<1>2. ASSUME NEW k \in T PROVE k + 1 \in T
  <2> SUFFICES ASSUME k + 1 <= n PROVE Bit(a, n - (k + 1)) = Bit(b, n - (k + 1))
    OBVIOUS
  <2> DEFINE i == n - (k + 1)
  <2>1. k \in Nat /\ i \in 0..n-1 /\ i + 1 = n - k /\ i \in Nat /\ i + 1 \in Nat
    OBVIOUS
  <2>2. Bit(a, i + 1) = Bit(b, i + 1)
    BY <2>1
  <2> HIDE DEF i
  <2>3. Xor(Bit(a, i), Bit(a, i + 1)) = Xor(Bit(b, i), Bit(b, i + 1))
    BY <2>1
  <2>4. \A x, y, z \in {0, 1} : Xor(x, z) = Xor(y, z) => x = y
    BY DEF Xor
  <2>5. Bit(a, i) \in {0, 1} /\ Bit(b, i) \in {0, 1} /\ Bit(a, i + 1) \in {0, 1}
    BY <2>1, BitValue
  <2>6. Bit(a, i) = Bit(b, i)
    BY <2>2, <2>3, <2>4, <2>5
  <2> QED BY <2>6 DEF i
<1> HIDE DEF T
<1>3. T = Nat
  BY <1>1, <1>2, Inductive DEF T
<1>4. ASSUME NEW i \in 0..n PROVE Bit(a, i) = Bit(b, i)
  <2>1. n - i \in Nat /\ n - i <= n /\ n - (n - i) = i
    OBVIOUS
  <2> QED BY <1>3, <2>1 DEF T
<1> QED BY <1>4

(* The sizes of pointers and memory. *)
LEMMA Widths == /\ AWIDTH \in Nat /\ AWIDTH - 1 \in Nat /\ (AWIDTH - 1) + 1 = AWIDTH
                /\ AWIDTH + 1 \in Nat /\ AWIDTH - 2 \in Nat
                /\ Pow2[AWIDTH] \in Nat \ {0} /\ MODULUS = 2 * Pow2[AWIDTH]
                /\ MODULUS \in Nat \ {0}
<1>1. AWIDTH \in Nat /\ AWIDTH >= 2
  BY FifoAssumption
<1>2. Pow2[AWIDTH] \in Nat \ {0} /\ MODULUS = 2 * Pow2[AWIDTH]
  BY <1>1, Powers DEF MODULUS
<1> QED BY <1>1, <1>2

(* The top bits of a pointer. *)
LEMMA TopBits ==
  ASSUME NEW a \in 0 .. MODULUS - 1
  PROVE  /\ a \in Nat /\ a % MODULUS = a /\ Bit(a, AWIDTH + 1) = 0
         /\ Bit(a, AWIDTH) = IF a >= Pow2[AWIDTH] THEN 1 ELSE 0
<1> DEFINE M == MODULUS
           N == Pow2[AWIDTH]
<1>1. M \in Nat \ {0} /\ N \in Nat \ {0} /\ M = 2 * N /\ a \in Int /\ a \in 0..M-1
  BY Widths
<1> HIDE DEF M, N
<1>2. a = 0 * M + a
  BY <1>1
<1>3. a \div M = 0 /\ a % M = a
  BY <1>1, <1>2, DivUnique
<1>4. a < N => a \div N = 0
  <2>1. a = 0 * N + a
    BY <1>1
  <2> QED BY <1>1, <2>1, DivUnique
<1>5. a >= N => a \div N = 1
  <2> SUFFICES ASSUME a >= N PROVE a \div N = 1
    OBVIOUS
  <2> DEFINE rem == a - N
  <2>1. a = 1 * N + rem /\ rem \in 0..N-1 /\ 1 \in Int
    BY <1>1
  <2> HIDE DEF rem
  <2> QED BY <1>1, <2>1, DivUnique
<1>6. Bit(a, AWIDTH + 1) = 0
  BY <1>3 DEF Bit, MODULUS, M
<1>7. Bit(a, AWIDTH) = (a \div N) % 2
  BY DEF Bit, N
<1>8. Bit(a, AWIDTH) = IF a >= N THEN 1 ELSE 0
  BY <1>1, <1>4, <1>5, <1>7
<1> QED BY <1>1, <1>3, <1>6, <1>8 DEF M, N

(* The bits of a Gray code; its top two give the top bit of the address. *)
LEMMA GrayBits ==
  ASSUME NEW a \in 0 .. MODULUS - 1
  PROVE  /\ Gray(a)[AWIDTH] = Bit(a, AWIDTH)
         /\ Msb(Gray(a)) = Bit(a, AWIDTH - 1)
         /\ \A i \in 0 .. AWIDTH : Gray(a)[i] = Xor(Bit(a, i), Bit(a, i + 1))
<1>1. \A x, y \in {0, 1} : Xor(x, 0) = x /\ Xor(x, Xor(y, x)) = y
  BY DEF Xor
<1>2. Bit(a, AWIDTH) \in {0, 1} /\ Bit(a, AWIDTH - 1) \in {0, 1}
  BY Widths, TopBits, BitValue
<1>3. \A i \in 0 .. AWIDTH : Gray(a)[i] = Xor(Bit(a, i), Bit(a, i + 1))
  BY DEF Gray
<1>4. Gray(a)[AWIDTH] = Bit(a, AWIDTH)
  BY <1>1, <1>2, <1>3, Widths, TopBits
<1>5. Gray(a)[AWIDTH - 1] = Xor(Bit(a, AWIDTH - 1), Bit(a, AWIDTH))
  <2>1. AWIDTH - 1 \in 0 .. AWIDTH
    BY Widths
  <2> QED BY <2>1, <1>3, Widths
<1>6. Msb(Gray(a)) = Bit(a, AWIDTH - 1)
  BY <1>1, <1>2, <1>4, <1>5 DEF Msb
<1> QED BY <1>3, <1>4, <1>6

(* Different numbers have different Gray codes, so bin finds the number.   *)
LEMMA GrayInjective ==
  ASSUME NEW a \in 0 .. MODULUS - 1, NEW b \in 0 .. MODULUS - 1, Gray(a) = Gray(b)
  PROVE  a = b
<1> DEFINE n == AWIDTH + 1
<1>1. n \in Nat /\ a \in Nat /\ b \in Nat /\ Bit(a, n) = Bit(b, n)
  BY Widths, TopBits
<1>2. \A i \in 0..n-1 : i \in 0 .. AWIDTH
  BY Widths
<1>3. \A i \in 0..n-1 : Xor(Bit(a, i), Bit(a, i + 1)) = Xor(Bit(b, i), Bit(b, i + 1))
  BY <1>2, GrayBits
<1> HIDE DEF n
<1>4. \A i \in 0..n : Bit(a, i) = Bit(b, i)
  BY <1>1, <1>3, GrayDown
<1>5. \A i \in 0..n-1 : Bit(a, i) = Bit(b, i)
  BY <1>1, <1>4
<1>6. a % Pow2[n] = b % Pow2[n]
  BY <1>1, <1>5, LowBits
<1>7. a % MODULUS = b % MODULUS
  BY <1>6 DEF n, MODULUS
<1> QED BY <1>7, TopBits

(* bin undoes the Gray code. *)
LEMMA BinOfGray == ASSUME NEW a \in 0 .. MODULUS - 1 PROVE Bin(Gray(a)) = a
BY GrayInjective DEF Bin

(* Addresses are the same exactly when the numbers are the same modulo the *)
(* size of the memory.                                                     *)
LEMMA AddressDistinct ==
  ASSUME NEW a \in 0 .. MODULUS - 1, NEW b \in 0 .. MODULUS - 1, Addr(Gray(a)) = Addr(Gray(b))
  PROVE  a % Pow2[AWIDTH] = b % Pow2[AWIDTH]
<1> DEFINE n == AWIDTH - 1
<1>1. n \in Nat /\ n + 1 = AWIDTH /\ a \in Nat /\ b \in Nat
  BY Widths, TopBits
<1>2. \A x \in {Gray(a), Gray(b)} : \A i \in 0 .. AWIDTH - 1 :
        Addr(x)[i] = IF i = AWIDTH - 1 THEN Msb(x) ELSE x[i]
  BY DEF Addr
<1>3. Bit(a, n) = Bit(b, n)
  <2>1. AWIDTH - 1 \in 0 .. AWIDTH - 1
    BY Widths
  <2>2. Msb(Gray(a)) = Msb(Gray(b))
    BY <2>1, <1>2
  <2> QED BY <2>2, GrayBits
<1>4. ASSUME NEW i \in 0..n-1
      PROVE  Xor(Bit(a, i), Bit(a, i + 1)) = Xor(Bit(b, i), Bit(b, i + 1))
  <2>1. i \in 0 .. AWIDTH - 1 /\ i # AWIDTH - 1 /\ i \in 0 .. AWIDTH
    BY Widths
  <2>2. Gray(a)[i] = Gray(b)[i]
    BY <2>1, <1>2
  <2> QED BY <2>1, <2>2, GrayBits
<1> HIDE DEF n
<1>5. \A i \in 0..n : Bit(a, i) = Bit(b, i)
  BY <1>1, <1>3, <1>4, GrayDown
<1>6. \A i \in 0..AWIDTH-1 : Bit(a, i) = Bit(b, i)
  BY <1>1, <1>5, Widths
<1> QED BY <1>1, <1>6, Widths, LowBits

(* The addresses of numbers with the same remainder. *)
LEMMA AddressSame ==
  ASSUME NEW a \in 0 .. MODULUS - 1, NEW b \in 0 .. MODULUS - 1,
         a % Pow2[AWIDTH] = b % Pow2[AWIDTH]
  PROVE  SameAddress(Gray(a), Gray(b))
<1>1. \A i \in 0..AWIDTH-1 : Bit(a, i) = Bit(b, i)
  BY Widths, TopBits, LowBits
<1>2. Msb(Gray(a)) = Msb(Gray(b))
  <2>1. AWIDTH - 1 \in 0 .. AWIDTH - 1
    BY Widths
  <2> QED BY <1>1, <2>1, GrayBits
<1>3. ASSUME NEW i \in 0 .. AWIDTH - 2 PROVE Gray(a)[i] = Gray(b)[i]
  <2>1. i \in 0 .. AWIDTH /\ i \in 0 .. AWIDTH - 1 /\ i + 1 \in 0 .. AWIDTH - 1
    BY Widths
  <2> QED BY <1>1, <2>1, GrayBits
<1> QED BY <1>2, <1>3 DEF SameAddress

(* A pointer that has been moved k times, and the cell it addresses. *)
Code(k) == Gray(k % MODULUS)
Cell(k) == Addr(Code(k))
Cells   == {Addr(Gray(b)) : b \in 0 .. MODULUS - 1}

(* A number of moves gives the value of a pointer. *)
LEMMA Residue == ASSUME NEW k \in Nat PROVE k % MODULUS \in 0 .. MODULUS - 1
<1>1. k \in Int
  OBVIOUS
<1> QED BY <1>1, Widths, DivMod, Zenon

(* ... and the address of a cell. *)
LEMMA CodeInDomain == ASSUME NEW k \in Nat PROVE Bin(Code(k)) = k % MODULUS /\ Cell(k) \in Cells
BY Residue, BinOfGray DEF Code, Cell, Cells

(* Adding to a residue. *)
LEMMA ModAdd ==
  ASSUME NEW k \in Nat, NEW j \in Nat PROVE ((k % MODULUS) + j) % MODULUS = (k + j) % MODULUS
<1> DEFINE M == MODULUS
           q == k \div M
           x == k % M
           p == (x + j) \div M
           y == (x + j) % M
           u == q + p
           s == k + j
<1>1. M \in Nat \ {0} /\ k \in Int
  BY Widths
<1> HIDE DEF M
<1>2. q \in Int /\ x \in 0..M-1 /\ k = M * q + x
  BY <1>1, DivMod, Zenon
<1> HIDE DEF q, x
<1>3. x + j \in Int
  BY <1>1, <1>2
<1>4. p \in Int /\ y \in 0..M-1 /\ x + j = M * p + y
  BY <1>1, <1>3, DivMod, Zenon
<1> HIDE DEF p, y
<1>5. u \in Int /\ s \in Int /\ s = u * M + y
  <2>1. u * M = M * q + M * p /\ M * q \in Int /\ M * p \in Int
    BY <1>1, <1>2, <1>4
  <2> QED BY <1>1, <1>2, <1>4, <2>1
<1> HIDE DEF u, s
<1>6. s % M = y
  BY <1>1, <1>4, <1>5, DivUnique
<1> QED BY <1>6 DEF s, y, x, M

(* The distance of two pointers that are less than a turn apart. *)
LEMMA Distance ==
  ASSUME NEW k \in Nat, NEW j \in Nat, k <= j, j < k + MODULUS
  PROVE  ((j % MODULUS) + (MODULUS - (k % MODULUS))) % MODULUS = j - k
<1> DEFINE M == MODULUS
           q == k \div M
           x == k % M
           p == j \div M
           y == j % M
           s == y + (M - x)
           d == j - k
           v == 1 - (p - q)
<1>1. M \in Nat \ {0} /\ k \in Int /\ j \in Int
  BY Widths
<1>2. d \in 0..M-1
  BY <1>1
<1> HIDE DEF M
<1>3. q \in Int /\ x \in 0..M-1 /\ k = M * q + x
  BY <1>1, DivMod, Zenon
<1>4. p \in Int /\ y \in 0..M-1 /\ j = M * p + y
  BY <1>1, DivMod, Zenon
<1> HIDE DEF q, x, p, y
<1>5. v \in Int /\ s \in Int /\ s = v * M + d
  <2>1. v * M = (M - M * p) + M * q /\ M * q \in Int /\ M * p \in Int
    BY <1>1, <1>3, <1>4
  <2> QED BY <1>1, <1>3, <1>4, <2>1
<1> HIDE DEF v, s, d
<1>6. s % M = d
  BY <1>1, <1>2, <1>5, DivUnique
<1> QED BY <1>6 DEF s, d, x, y, M

(* The memory has half as many cells as a pointer has values. *)
LEMMA ModHalf ==
  ASSUME NEW k \in Nat PROVE (k % MODULUS) % Pow2[AWIDTH] = k % Pow2[AWIDTH]
<1> DEFINE M == MODULUS
           N == Pow2[AWIDTH]
           q == k \div M
           x == k % M
           p == x \div N
           y == x % N
           u == 2 * q + p
<1>1. M \in Nat \ {0} /\ k \in Int /\ N \in Nat \ {0} /\ M = 2 * N
  BY Widths
<1> HIDE DEF M, N
<1>2. q \in Int /\ x \in 0..M-1 /\ k = M * q + x
  BY <1>1, DivMod, Zenon
<1> HIDE DEF q, x
<1>3. x \in Int
  BY <1>1, <1>2
<1>4. p \in Int /\ y \in 0..N-1 /\ x = N * p + y
  BY <1>1, <1>3, DivMod, Zenon
<1> HIDE DEF p, y
<1>5. u \in Int /\ k = u * N + y
  <2>1. u * N = M * q + N * p /\ M * q \in Int /\ N * p \in Int
    BY <1>1, <1>2, <1>4
  <2> QED BY <1>2, <1>4, <2>1
<1> HIDE DEF u
<1>6. k % N = y
  BY <1>1, <1>4, <1>5, DivUnique
<1> QED BY <1>6 DEF y, x, M, N

(* Cells less than a turn of the memory apart are different. *)
LEMMA CellsDiffer ==
  ASSUME NEW j \in Nat, NEW k \in Nat, j < k, k < j + Pow2[AWIDTH]
  PROVE  Cell(j) # Cell(k)
<1>1. j % Pow2[AWIDTH] # k % Pow2[AWIDTH]
  <2>1. j \in Int /\ k \in Int /\ Pow2[AWIDTH] \in Nat \ {0}
    BY Widths
  <2> QED BY <2>1, Apart
<1>2. (j % MODULUS) % Pow2[AWIDTH] # (k % MODULUS) % Pow2[AWIDTH]
  BY <1>1, ModHalf
<1> QED BY <1>2, Residue, AddressDistinct DEF Cell, Code

(* A write pointer a turn of the memory ahead makes full. *)
LEMMA FullWhen ==
  ASSUME NEW j \in Nat, NEW k \in Nat, k = j + Pow2[AWIDTH]
  PROVE  Code(j)[AWIDTH] # Code(k)[AWIDTH] /\ SameAddress(Code(j), Code(k))
<1> DEFINE M == MODULUS
           N == Pow2[AWIDTH]
           x == j % M
           y == k % M
<1>1. M \in Nat \ {0} /\ N \in Nat \ {0} /\ M = 2 * N
  BY Widths
<1>2. x \in 0..M-1 /\ y \in 0..M-1
  BY Residue
<1>3. y = (x + N) % M
  BY <1>1, ModAdd
<1>4. x % N = y % N
  <2>1. j % N = k % N
    <3> DEFINE q == j \div N
               m == j % N
               p == q + 1
    <3>1. j \in Int /\ k \in Int
      OBVIOUS
    <3> HIDE DEF N
    <3>2. q \in Int /\ m \in 0..N-1 /\ j = N * q + m
      BY <1>1, <3>1, DivMod, Zenon
    <3> HIDE DEF q, m
    <3>3. p \in Int /\ k = p * N + m
      <4>1. p * N = N * q + N /\ N * q \in Int
        BY <1>1, <3>2
      <4>2. k = j + N
        BY DEF N
      <4> QED BY <1>1, <3>2, <4>1, <4>2
    <3> HIDE DEF p
    <3>4. k % N = m
      BY <1>1, <3>1, <3>2, <3>3, DivUnique
    <3> QED BY <3>4 DEF m
  <2> QED BY <2>1, ModHalf
<1>5. y = IF x < N THEN x + N ELSE x - N
  <2> HIDE DEF M, N, x, y
  <2>1. CASE x < N
    <3> DEFINE s == x + N
    <3>1. s \in Int /\ s \in 0..M-1 /\ s = 0 * M + s
      BY <1>1, <1>2, <2>1
    <3> HIDE DEF s
    <3>2. s % M = s
      BY <1>1, <3>1, DivUnique
    <3> QED BY <1>3, <2>1, <3>2 DEF s
  <2>2. CASE ~(x < N)
    <3> DEFINE s == x + N
               m == x - N
    <3>1. s \in Int /\ m \in 0..M-1 /\ s = 1 * M + m
      BY <1>1, <1>2, <2>2
    <3> HIDE DEF s, m
    <3>2. s % M = m
      BY <1>1, <3>1, DivUnique
    <3> QED BY <1>3, <2>2, <3>2 DEF s, m
  <2> QED BY <2>1, <2>2
<1>6. Bit(x, AWIDTH) # Bit(y, AWIDTH)
  <2>1. /\ Bit(x, AWIDTH) = IF x >= N THEN 1 ELSE 0
        /\ Bit(y, AWIDTH) = IF y >= N THEN 1 ELSE 0
    BY <1>2, TopBits
  <2> HIDE DEF x, y, N
  <2> QED BY <2>1, <1>1, <1>2, <1>5
<1> QED BY <1>2, <1>4, <1>6, GrayBits, AddressSame DEF Code

(* The pointers by the number of their moves, oldest reading copy first:   *)
(* every copy is behind the pointer it was taken from, the reader is       *)
(* behind the writer's oldest copy, and the writer at most a memory ahead  *)
(* of the reader's oldest copy.                                            *)
Moves(r2, r1, r, w2, w1, w) ==
  /\ r2 <= r1 /\ r1 <= r /\ r <= w2 /\ w2 <= w1 /\ w1 <= w /\ w <= r2 + Pow2[AWIDTH]
  /\ r_sync = <<Code(r1), Code(r2)>> /\ r_ptr = Code(r)
  /\ w_sync = <<Code(w1), Code(w2)>> /\ w_ptr = Code(w)

FifoInv ==
  /\ mem \in [Cells -> Data] /\ taken \in Data
  /\ \E r2, r1, r, w2, w1, w \in Nat : Moves(r2, r1, r, w2, w1, w)

(* The pointers after a reset. *)
LEMMA CodeZero == Code(0) = Gray(0)
<1>1. 0 % MODULUS = 0
  <2>1. 0 \in 0 .. MODULUS - 1
    BY Widths
  <2> QED BY <2>1, TopBits
<1> QED BY <1>1 DEF Code

(* Nothing has moved. *)
LEMMA FifoInvInit == FifoInit => FifoInv
<1> SUFFICES ASSUME FifoInit PROVE FifoInv
  OBVIOUS
<1>1. mem \in [Cells -> Data] /\ taken \in Data
  BY DEF FifoInit, Cells
<1>2. Moves(0, 0, 0, 0, 0, 0)
  BY CodeZero, Widths DEF FifoInit, Moves
<1>3. \E r2, r1, r, w2, w1, w \in Nat : Moves(r2, r1, r, w2, w1, w)
  BY <1>2
<1> QED BY <1>1, <1>3 DEF FifoInv

(* The next code. *)
LEMMA NextCode == ASSUME NEW k \in Nat PROVE Gray1(Code(k)) = Code(k + 1)
<1>1. Bin(Code(k)) = k % MODULUS
  BY CodeInDomain
<1>2. ((k % MODULUS) + 1) % MODULUS = (k + 1) % MODULUS
  BY ModAdd
<1> QED BY <1>1, <1>2 DEF Gray1, Code

(* A write with room. *)
LEMMA WriteMoves ==
  ASSUME NEW r2 \in Nat, NEW r1 \in Nat, NEW r \in Nat, NEW w2 \in Nat, NEW w1 \in Nat,
         NEW w \in Nat, Moves(r2, r1, r, w2, w1, w), ~full
  PROVE  w < r2 + Pow2[AWIDTH]
<1>1. r_sync[2] = Code(r2) /\ w_ptr = Code(w)
  BY DEF Moves
<1>2. w # r2 + Pow2[AWIDTH]
  BY <1>1, FullWhen DEF full
<1> QED BY <1>2, Widths DEF Moves

(* A read with a word there. *)
LEMMA ReadMoves ==
  ASSUME NEW r2 \in Nat, NEW r1 \in Nat, NEW r \in Nat, NEW w2 \in Nat, NEW w1 \in Nat,
         NEW w \in Nat, Moves(r2, r1, r, w2, w1, w), ~empty
  PROVE  r < w2
<1>1. w_sync[2] = Code(w2) /\ r_ptr = Code(r)
  BY DEF Moves
<1>2. w2 # r
  BY <1>1 DEF empty, SameAddress
<1> QED BY <1>2 DEF Moves

(* An edge moves a pointer and its copies, or a reset starts again. *)
LEMMA FifoInvStep == FifoInv /\ [FifoNext]_Fifovars => FifoInv'
<1> SUFFICES ASSUME FifoInv, [FifoNext]_Fifovars PROVE FifoInv'
  OBVIOUS
<1> PICK r2, r1, r, w2, w1, w \in Nat : Moves(r2, r1, r, w2, w1, w)
  BY DEF FifoInv
<1>0. /\ r2 <= r1 /\ r1 <= r /\ r <= w2 /\ w2 <= w1 /\ w1 <= w /\ w <= r2 + Pow2[AWIDTH]
      /\ r_sync = <<Code(r1), Code(r2)>> /\ r_ptr = Code(r)
      /\ w_sync = <<Code(w1), Code(w2)>> /\ w_ptr = Code(w)
      /\ mem \in [Cells -> Data] /\ taken \in Data /\ Pow2[AWIDTH] \in Nat
  BY Widths DEF Moves, FifoInv
<1>1. CASE WriteClock
  <2>1. /\ w_sync' = <<Code(w), Code(w1)>>
        /\ r_ptr' = r_ptr /\ r_sync' = r_sync /\ taken' = taken
    BY <1>0, <1>1 DEF WriteClock, Synced
  <2>2. CASE w_ptr' = w_ptr /\ mem' = mem
    <3>1. Moves(r2, r1, r, w1, w, w)'
      BY <1>0, <2>1, <2>2 DEF Moves
    <3> QED BY <3>1, <1>0, <2>1, <2>2 DEF FifoInv
  <2>3. ASSUME NEW d \in Data, ~full, mem' = [mem EXCEPT ![Addr(w_ptr)] = d], w_ptr' = Gray1(w_ptr)
        PROVE  FifoInv'
    <3>1. w < r2 + Pow2[AWIDTH] /\ w_ptr' = Code(w + 1) /\ mem' \in [Cells -> Data]
      BY <2>3, <1>0, WriteMoves, NextCode
    <3>2. w + 1 \in Nat /\ Moves(r2, r1, r, w1, w, w + 1)'
      BY <1>0, <2>1, <3>1 DEF Moves
    <3>3. \E a, b, c, d2, d1, e \in Nat : Moves(a, b, c, d2, d1, e)'
      BY <3>2
    <3> QED BY <3>1, <3>3, <1>0, <2>1 DEF FifoInv
  <2> QED BY <1>1, <2>2, <2>3 DEF WriteClock
<1>2. CASE ReadClock
  <2>1. /\ r_sync' = <<Code(r), Code(r1)>>
        /\ w_ptr' = w_ptr /\ w_sync' = w_sync /\ mem' = mem
    BY <1>0, <1>2 DEF ReadClock, Synced
  <2>2. CASE r_ptr' = r_ptr /\ taken' = taken
    <3>1. Moves(r1, r, r, w2, w1, w)'
      BY <1>0, <2>1, <2>2 DEF Moves
    <3> QED BY <3>1, <1>0, <2>1, <2>2 DEF FifoInv
  <2>3. CASE ~empty /\ taken' = mem[Addr(r_ptr)] /\ r_ptr' = Gray1(r_ptr)
    <3>1. r < w2 /\ r_ptr' = Code(r + 1)
      BY <2>3, <1>0, ReadMoves, NextCode
    <3>2. taken' \in Data
      BY <2>3, <1>0, CodeInDomain DEF Cell
    <3>3. r + 1 \in Nat /\ Moves(r1, r, r + 1, w2, w1, w)'
      BY <1>0, <2>1, <3>1 DEF Moves
    <3>4. \E a, b, c, d2, d1, e \in Nat : Moves(a, b, c, d2, d1, e)'
      BY <3>3
    <3> QED BY <3>2, <3>4, <1>0, <2>1 DEF FifoInv
  <2> QED BY <1>2, <2>2, <2>3 DEF ReadClock
<1>3. CASE FifoReset
  <2>1. Moves(0, 0, 0, 0, 0, 0)'
    BY <1>3, CodeZero, Widths DEF FifoReset, Moves
  <2>2. \E a, b, c, d2, d1, e \in Nat : Moves(a, b, c, d2, d1, e)'
    BY <2>1
  <2> QED BY <2>2, <1>0, <1>3 DEF FifoReset, FifoInv
<1>4. CASE UNCHANGED Fifovars
  <2>1. Moves(r2, r1, r, w2, w1, w)'
    BY <1>0, <1>4 DEF Fifovars, Moves
  <2> QED BY <2>1, <1>0, <1>4 DEF Fifovars, FifoInv
<1> QED BY <1>1, <1>2, <1>3, <1>4 DEF FifoNext

(* The words between two pointers, by the pointers and by their moves. *)
Stretch(m, x, y) == [i \in 1 .. (y + MODULUS - x) % MODULUS |->
                       m[Addr(Gray((x + i - 1) % MODULUS))]]
Between(m, r, w) == [i \in 1 .. (w - r) |-> m[Cell(r + (i - 1))]]

(* The two are the same. *)
LEMMA StretchIs ==
  ASSUME NEW m, NEW r \in Nat, NEW w \in Nat, r <= w, w <= r + Pow2[AWIDTH]
  PROVE  Stretch(m, r % MODULUS, w % MODULUS) = Between(m, r, w)
<1>1. w < r + MODULUS
  BY Widths
<1>2. ((w % MODULUS) + (MODULUS - (r % MODULUS))) % MODULUS = w - r
  BY <1>1, Distance
<1>3. ASSUME NEW i \in 1 .. (w - r)
      PROVE  Addr(Gray(((r % MODULUS) + (i - 1)) % MODULUS)) = Cell(r + (i - 1))
  <2>1. i - 1 \in Nat
    OBVIOUS
  <2>2. ((r % MODULUS) + (i - 1)) % MODULUS = (r + (i - 1)) % MODULUS
    BY <2>1, ModAdd
  <2> QED BY <2>2 DEF Cell, Code
<1> QED BY <1>2, <1>3 DEF Between, Stretch

(* The words that wait, before and after a step. *)
LEMMA WaitingIs ==
  ASSUME NEW r \in Nat, NEW w \in Nat, r <= w, w <= r + Pow2[AWIDTH]
  PROVE  /\ r_ptr = Code(r) /\ w_ptr = Code(w) => Waiting = Between(mem, r, w)
         /\ r_ptr' = Code(r) /\ w_ptr' = Code(w) => Waiting' = Between(mem', r, w)
<1>1. Bin(Code(r)) = r % MODULUS /\ Bin(Code(w)) = w % MODULUS
  BY CodeInDomain
<1>2. /\ Waiting = Stretch(mem, Bin(r_ptr), Bin(w_ptr))
      /\ Waiting' = Stretch(mem', Bin(r_ptr'), Bin(w_ptr'))
  BY DEF Waiting, Stretch
<1>3. \A m : Stretch(m, r % MODULUS, w % MODULUS) = Between(m, r, w)
  BY StretchIs
<1> HIDE DEF Waiting, Stretch, Between, Code, Bin
<1> QED BY <1>1, <1>2, <1>3

(* They are a sequence of words. *)
LEMMA BetweenType ==
  ASSUME NEW m \in [Cells -> Data], NEW r \in Nat, NEW w \in Nat, r <= w
  PROVE  /\ Between(m, r, w) \in Seq(Data) /\ Len(Between(m, r, w)) = w - r
         /\ \A i \in 1 .. (w - r) : Between(m, r, w)[i] = m[Cell(r + (i - 1))]
<1>1. w - r \in Nat
  OBVIOUS
<1>2. \A i \in 1 .. (w - r) : m[Cell(r + (i - 1))] \in Data
  BY CodeInDomain
<1> QED BY <1>1, <1>2 DEF Between

(* Storing a word behind the last one appends it, and leaves the others. *)
LEMMA StoreAppends ==
  ASSUME NEW m \in [Cells -> Data], NEW r \in Nat, NEW w \in Nat, r <= w, w < r + Pow2[AWIDTH],
         NEW d \in Data
  PROVE  Between([m EXCEPT ![Cell(w)] = d], r, w + 1) = Append(Between(m, r, w), d)
<1> DEFINE n == [m EXCEPT ![Cell(w)] = d]
           s == Between(m, r, w)
           t == Between(n, r, w + 1)
           a == Append(s, d)
<1>1. n \in [Cells -> Data] /\ n[Cell(w)] = d /\ \A c \in Cells : c # Cell(w) => n[c] = m[c]
  BY CodeInDomain
<1> HIDE DEF n
<1>2. /\ s \in Seq(Data) /\ Len(s) = w - r
      /\ \A i \in 1 .. (w - r) : s[i] = m[Cell(r + (i - 1))]
  BY BetweenType
<1>3. /\ t \in Seq(Data) /\ Len(t) = (w + 1) - r
      /\ \A i \in 1 .. ((w + 1) - r) : t[i] = n[Cell(r + (i - 1))]
  <2>1. w + 1 \in Nat /\ r <= w + 1
    OBVIOUS
  <2> QED BY <1>1, <2>1, BetweenType, Zenon
<1> HIDE DEF s, t
<1>4. /\ a \in Seq(Data) /\ Len(a) = (w + 1) - r
      /\ \A i \in 1 .. (w - r) : a[i] = s[i]
      /\ a[(w + 1) - r] = d
  BY <1>2, SMTT(30)
<1> HIDE DEF a
<1>5. ASSUME NEW i \in 1 .. ((w + 1) - r) PROVE t[i] = a[i]
  <2>1. CASE i = (w + 1) - r
    <3>1. r + (i - 1) = w
      BY <2>1
    <3> QED BY <3>1, <2>1, <1>1, <1>3, <1>4
  <2>2. CASE i # (w + 1) - r
    <3> DEFINE k == r + (i - 1)
    <3>1. i \in 1 .. (w - r) /\ k \in Nat /\ k < w /\ w < k + Pow2[AWIDTH]
      BY <2>2, Widths
    <3> HIDE DEF k
    <3>2. Cell(k) # Cell(w) /\ Cell(k) \in Cells
      BY <3>1, CellsDiffer, CodeInDomain
    <3>3. n[Cell(k)] = m[Cell(k)]
      BY <3>2, <1>1
    <3> QED BY <3>1, <3>3, <1>2, <1>3, <1>4 DEF k
  <2> QED BY <2>1, <2>2
<1>6. t = a
  BY <1>3, <1>4, <1>5
<1> QED BY <1>6 DEF t, a, s, n

(* Moving the reading pointer takes the first word away. *)
LEMMA TakeFirst ==
  ASSUME NEW m \in [Cells -> Data], NEW r \in Nat, NEW w \in Nat, r < w
  PROVE  /\ Between(m, r, w) # <<>> /\ Head(Between(m, r, w)) = m[Cell(r)]
         /\ Between(m, r + 1, w) = Tail(Between(m, r, w))
<1> DEFINE s == Between(m, r, w)
           t == Between(m, r + 1, w)
           a == Tail(s)
<1>0. r + 1 \in Nat /\ r <= w /\ r + 1 <= w
  OBVIOUS
<1>1. /\ s \in Seq(Data) /\ Len(s) = w - r
      /\ \A i \in 1 .. (w - r) : s[i] = m[Cell(r + (i - 1))]
  BY <1>0, BetweenType, Zenon
<1>2. /\ t \in Seq(Data) /\ Len(t) = w - (r + 1)
      /\ \A i \in 1 .. (w - (r + 1)) : t[i] = m[Cell((r + 1) + (i - 1))]
  BY <1>0, BetweenType, Zenon
<1> HIDE DEF s, t
<1>3. s # <<>> /\ Head(s) = s[1] /\ s[1] = m[Cell(r)]
  <2>1. 1 \in 1 .. (w - r) /\ r + (1 - 1) = r
    OBVIOUS
  <2> QED BY <1>1, <2>1
<1>4. /\ a \in Seq(Data) /\ Len(a) = w - (r + 1)
      /\ \A i \in 1 .. (w - (r + 1)) : a[i] = s[i + 1]
  BY <1>1, <1>3
<1> HIDE DEF a
<1>5. ASSUME NEW i \in 1 .. (w - (r + 1)) PROVE t[i] = a[i]
  <2>1. i + 1 \in 1 .. (w - r) /\ r + ((i + 1) - 1) = (r + 1) + (i - 1)
    OBVIOUS
  <2>2. s[i + 1] = m[Cell(r + ((i + 1) - 1))]
    BY <2>1, <1>1
  <2> QED BY <2>1, <2>2, <1>2, <1>4
<1>6. t = a
  BY <1>2, <1>4, <1>5
<1> QED BY <1>3, <1>6 DEF t, a, s

(* None wait between equal pointers. *)
LEMMA NothingBetween == ASSUME NEW m PROVE Between(m, 0, 0) = <<>>
BY DEF Between

(* The initial states are those of an empty queue. *)
LEMMA QueueInitial == FifoInit => Queue!QueueInit
<1> SUFFICES ASSUME FifoInit PROVE Queue!QueueInit
  OBVIOUS
<1>1. r_ptr = Code(0) /\ w_ptr = Code(0) /\ taken \in Data
  BY CodeZero DEF FifoInit
<1>2. Waiting = <<>>
  BY <1>1, WaitingIs, NothingBetween, Widths
<1> QED BY <1>1, <1>2 DEF Queue!QueueInit

(* Every edge is a step of the queue, or none. *)
LEMMA QueueStep == FifoInv /\ [FifoNext]_Fifovars => [Queue!QueueNext]_<<Waiting, taken>>
<1> SUFFICES ASSUME FifoInv, [FifoNext]_Fifovars
             PROVE  Queue!QueueNext \/ (Waiting' = Waiting /\ taken' = taken)
  OBVIOUS
<1> PICK r2, r1, r, w2, w1, w \in Nat : Moves(r2, r1, r, w2, w1, w)
  BY DEF FifoInv
<1>0. /\ r2 <= r /\ r <= w2 /\ w2 <= w /\ w <= r2 + Pow2[AWIDTH]
      /\ r_ptr = Code(r) /\ w_ptr = Code(w)
      /\ mem \in [Cells -> Data] /\ taken \in Data /\ Pow2[AWIDTH] \in Nat
  BY Widths DEF Moves, FifoInv
<1>s. Waiting = Between(mem, r, w) /\ Len(Waiting) = w - r
  <2>1. r <= w /\ w <= r + Pow2[AWIDTH]
    BY <1>0
  <2>2. Waiting = Between(mem, r, w)
    BY <1>0, <2>1, WaitingIs, Zenon
  <2>3. Len(Between(mem, r, w)) = w - r
    BY <1>0, <2>1, BetweenType, Zenon
  <2> QED BY <2>2, <2>3
<1>1. CASE WriteClock
  <2>1. r_ptr' = r_ptr /\ taken' = taken
    BY <1>1 DEF WriteClock
  <2>2. CASE w_ptr' = w_ptr /\ mem' = mem
    BY <2>1, <2>2 DEF Waiting
  <2>3. ASSUME NEW d \in Data, ~full, mem' = [mem EXCEPT ![Addr(w_ptr)] = d], w_ptr' = Gray1(w_ptr)
        PROVE  Queue!QueueNext
    <3>1. w < r2 + Pow2[AWIDTH] /\ w_ptr' = Code(w + 1) /\ Addr(w_ptr) = Cell(w)
      BY <2>3, <1>0, WriteMoves, NextCode DEF Cell
    <3>2. w < r + Pow2[AWIDTH] /\ w + 1 \in Nat /\ r <= w + 1 /\ w + 1 <= r + Pow2[AWIDTH] /\ r <= w
      BY <1>0, <3>1
    <3>3. Waiting' = Between(mem', r, w + 1)
      BY <1>0, <2>1, <3>1, <3>2, WaitingIs
    <3>4. Waiting' = Append(Waiting, d)
      <4>1. Between([mem EXCEPT ![Cell(w)] = d], r, w + 1) = Append(Between(mem, r, w), d)
        BY <1>0, <2>3, <3>2, StoreAppends, ZenonT(60)
      <4> QED BY <1>s, <2>3, <3>1, <3>3, <4>1
    <3>5. Len(Waiting) < Pow2[AWIDTH]
      BY <1>0, <1>s, <3>2
    <3> QED BY <2>1, <2>3, <3>4, <3>5 DEF Queue!QueueNext, Queue!Put
  <2> QED BY <1>1, <2>2, <2>3 DEF WriteClock
<1>2. CASE ReadClock
  <2>1. w_ptr' = w_ptr /\ mem' = mem
    BY <1>2 DEF ReadClock
  <2>2. CASE r_ptr' = r_ptr /\ taken' = taken
    BY <2>1, <2>2 DEF Waiting
  <2>3. CASE ~empty /\ taken' = mem[Addr(r_ptr)] /\ r_ptr' = Gray1(r_ptr)
    <3>1. r < w2 /\ r_ptr' = Code(r + 1) /\ Addr(r_ptr) = Cell(r)
      BY <2>3, <1>0, ReadMoves, NextCode DEF Cell
    <3>2. r < w /\ r + 1 \in Nat /\ r + 1 <= w /\ w <= (r + 1) + Pow2[AWIDTH]
      BY <1>0, <3>1
    <3>3. Waiting' = Between(mem, r + 1, w)
      BY <1>0, <2>1, <3>1, <3>2, WaitingIs
    <3>4. Waiting # <<>> /\ taken' = Head(Waiting) /\ Waiting' = Tail(Waiting)
      <4>1. /\ Between(mem, r, w) # <<>> /\ Head(Between(mem, r, w)) = mem[Cell(r)]
            /\ Between(mem, r + 1, w) = Tail(Between(mem, r, w))
        BY <1>0, <3>2, TakeFirst, Zenon
      <4> QED BY <1>s, <2>3, <3>1, <3>3, <4>1
    <3> QED BY <3>4 DEF Queue!QueueNext, Queue!Take
  <2> QED BY <1>2, <2>2, <2>3 DEF ReadClock
<1>3. CASE FifoReset
  <2>1. r_ptr' = Code(0) /\ w_ptr' = Code(0) /\ taken' = taken
    BY <1>3, CodeZero DEF FifoReset
  <2>2. Waiting' = <<>>
    BY <2>1, WaitingIs, NothingBetween, Widths
  <2> QED BY <2>1, <2>2 DEF Queue!QueueNext, Queue!QueueReset
<1>4. CASE UNCHANGED Fifovars
  BY <1>4 DEF Fifovars, Waiting
<1> QED BY <1>1, <1>2, <1>3, <1>4 DEF FifoNext

(* The FIFO between two clocks implements a queue of 2^AWIDTH words, for   *)
(* every width and every word: with stale copies of Gray-coded pointers no *)
(* word is overwritten, read twice or read before it is written.           *)
THEOREM FifoImplementsQueue == FifoSpec => FifoIsQueue
<1>1. FifoInit => FifoInv
  BY FifoInvInit
<1>2. FifoInv /\ [FifoNext]_Fifovars => FifoInv'
  BY FifoInvStep
<1> QED BY <1>1, <1>2, QueueInitial, QueueStep, PTL DEF FifoSpec, FifoIsQueue, Queue!QueueSpec

----------------------------------------------------------------------------
(* The Gray code: why a pointer can be read across the clocks.            *)

(* The next number: the bits below the lowest zero are ones and become     *)
(* zeros, that zero becomes a one.                                         *)
Ones(a, i) == a % Pow2[i] = Pow2[i] - 1

LEMMA BitOfNext ==
  ASSUME NEW a \in Nat, NEW i \in Nat
  PROVE  Bit(a + 1, i) = IF Ones(a, i) THEN 1 - Bit(a, i) ELSE Bit(a, i)
<1> DEFINE p == Pow2[i]
           q == a \div p
           m == a % p
           n == a + 1
<1>1. p \in Nat \ {0}
  BY Powers
<1> HIDE DEF p
<1>2. q \in Int /\ m \in 0..p-1 /\ a = p * q + m
  <2>1. a \in Int
    OBVIOUS
  <2> QED BY <1>1, <2>1, DivMod, Zenon
<1>3. (Ones(a, i) <=> m = p - 1) /\ Bit(a, i) = q % 2
  BY DEF Ones, Bit, p
<1>4. n \in Int
  BY DEF n
<1>5. CASE m = p - 1
  <2>1. n = (q + 1) * p + 0
    <3> HIDE DEF q, m
    <3> QED BY <1>1, <1>2, <1>5 DEF n
  <2>2. q + 1 \in Int /\ 0 \in 0..p-1
    BY <1>1, <1>2
  <2>3. n \div p = q + 1
    <3> DEFINE u == q + 1
    <3> HIDE DEF n, u
    <3>1. u \in Int /\ n = u * p + 0
      BY <2>1, <2>2 DEF u
    <3>2. n \div p = u
      BY <1>1, <1>4, <2>2, <3>1, DivUnique
    <3> QED BY <3>2 DEF u
  <2>4. Bit(n, i) = (q + 1) % 2
    BY <2>3 DEF Bit, p
  <2> HIDE DEF q
  <2>5. (q + 1) % 2 = 1 - (q % 2)
    BY <1>2
  <2> QED BY <1>3, <1>5, <2>4, <2>5
<1>6. CASE m # p - 1
  <2> DEFINE v == m + 1
  <2>1. n = q * p + v /\ v \in 0..p-1
    <3> HIDE DEF q, m
    <3> QED BY <1>1, <1>2, <1>6 DEF n
  <2>2. n \div p = q
    <3> HIDE DEF n, q, v
    <3> QED BY <1>1, <1>2, <1>4, <2>1, DivUnique
  <2>3. Bit(n, i) = q % 2
    BY <2>2 DEF Bit, p
  <2> QED BY <1>3, <1>6, <2>3
<1> QED BY <1>5, <1>6

(* All bits below the next one are ones. *)
LEMMA OnesUp ==
  ASSUME NEW a \in Nat, NEW i \in Nat
  PROVE  Ones(a, 0) /\ (Ones(a, i + 1) <=> Ones(a, i) /\ Bit(a, i) = 1)
<1> DEFINE p == Pow2[i]
           m == a % p
           c == Bit(a, i)
<1>1. p \in Nat \ {0} /\ Pow2[i + 1] = 2 * p /\ Pow2[0] = 1
  BY Powers
<1>2. a % Pow2[i + 1] = m + p * c
  BY BitSplits
<1>3. c \in {0, 1}
  BY BitValue
<1>4. m \in 0..p-1
  <2>1. a \in Int
    OBVIOUS
  <2> HIDE DEF p
  <2> QED BY <1>1, <2>1, DivMod, Zenon
<1>5. Ones(a, i) <=> m = p - 1
  BY DEF Ones
<1>6. Ones(a, i + 1) <=> m + p * c = 2 * p - 1
  BY <1>1, <1>2 DEF Ones
<1> HIDE DEF p, m, c
<1>7. p * c = IF c = 1 THEN p ELSE 0
  BY <1>1, <1>3
<1>8. m + p * c = 2 * p - 1 <=> m = p - 1 /\ c = 1
  BY <1>1, <1>3, <1>4, <1>7
<1>9. Ones(a, 0)
  BY <1>1 DEF Ones
<1> QED BY <1>5, <1>6, <1>8, <1>9 DEF c

(* Counting up changes one bit of the Gray code, also from the last number *)
(* to zero.                                                                *)
OneBit(g, h) == \E i \in 0 .. AWIDTH : h = [g EXCEPT ![i] = 1 - @]

LEMMA GrayOneBit ==
  ASSUME NEW a \in 0 .. MODULUS - 1
  PROVE  OneBit(Gray(a), Gray((a + 1) % MODULUS))
<1> DEFINE n == AWIDTH + 1
           b == (a + 1) % MODULUS
<1>1. a \in Nat /\ n \in Nat /\ MODULUS \in Nat \ {0} /\ AWIDTH \in Nat /\ Bit(a, n) = 0 /\ a + 1 \in Nat
  BY Widths, TopBits
<1>2. b \in 0 .. MODULUS - 1
  BY <1>1, Residue
<1>3. \A x, y \in {0, 1} : Xor(1 - x, 1 - y) = Xor(x, y) /\ Xor(1 - x, y) = 1 - Xor(x, y) /\ Xor(x, 1 - y) = 1 - Xor(x, y)
  BY DEF Xor
<1>4. \A i \in Nat : Bit(a, i) \in {0, 1}
  BY <1>1, BitValue
<1>5. Ones(a, n) <=> a = MODULUS - 1
  BY TopBits DEF Ones, MODULUS
<1>6. CASE a # MODULUS - 1
  <2>1. b = a + 1
    <3>1. a + 1 \in 0 .. MODULUS - 1
      BY <1>1, <1>6
    <3> QED BY <3>1, TopBits
  <2> DEFINE T == {i \in Nat : ~Ones(a, i)}
  <2>2. n \in T /\ T \subseteq Nat
    BY <1>1, <1>5, <1>6
  <2>3. PICK l \in T : \A y \in T : l <= y
    <3> HIDE DEF T
    <3>1. T # {}
      BY <2>2
    <3> QED BY <2>2, <3>1, Least
  <2>4. l \in Nat /\ l <= n /\ l # 0 /\ ~Ones(a, l)
    BY <1>1, <2>2, <2>3, OnesUp
  <2> DEFINE k == l - 1
  <2>5. k \in 0 .. AWIDTH /\ k \in Nat /\ k + 1 = l
    BY <1>1, <2>4
  <2>6. \A i \in Nat : i <= k => Ones(a, i)
    BY <2>3, <2>5
  <2>7. \A i \in Nat : i > k => ~Ones(a, i)
    <3> DEFINE U == {d \in Nat : ~Ones(a, l + d)}
    <3>1. 0 \in U
      BY <2>4
    <3>2. ASSUME NEW d \in U PROVE d + 1 \in U
      <4>1. l + d \in Nat /\ d \in Nat /\ l + (d + 1) = (l + d) + 1 /\ ~Ones(a, l + d)
        BY <2>4
      <4>2. ~Ones(a, (l + d) + 1)
        BY <1>1, <4>1, OnesUp
      <4> QED BY <4>1, <4>2
    <3> HIDE DEF U
    <3>3. U = Nat
      BY <3>1, <3>2, Inductive DEF U
    <3>4. ASSUME NEW i \in Nat, i > k PROVE ~Ones(a, i)
      <4>1. i - l \in Nat /\ l + (i - l) = i
        BY <2>4, <2>5, <3>4
      <4> QED BY <3>3, <4>1 DEF U
    <3> QED BY <3>4
  <2> HIDE DEF k
  <2>8. ASSUME NEW i \in 0 .. AWIDTH
        PROVE  Gray(b)[i] = IF i = k THEN 1 - Gray(a)[i] ELSE Gray(a)[i]
    <3>1. i \in Nat /\ i + 1 \in Nat
      BY <1>1
    <3>2. /\ Gray(a)[i] = Xor(Bit(a, i), Bit(a, i + 1))
          /\ Gray(b)[i] = Xor(Bit(a + 1, i), Bit(a + 1, i + 1))
      BY <1>2, <2>1, GrayBits
    <3>3. /\ Bit(a + 1, i) = IF i <= k THEN 1 - Bit(a, i) ELSE Bit(a, i)
          /\ Bit(a + 1, i + 1) = IF i + 1 <= k THEN 1 - Bit(a, i + 1) ELSE Bit(a, i + 1)
      BY <1>1, <2>5, <2>6, <2>7, <3>1, BitOfNext
    <3>4. Bit(a, i) \in {0, 1} /\ Bit(a, i + 1) \in {0, 1}
      BY <1>4, <3>1
    <3>5. CASE i < k
      BY <1>3, <2>5, <3>1, <3>2, <3>3, <3>4, <3>5
    <3>6. CASE i = k
      BY <1>3, <2>5, <3>1, <3>2, <3>3, <3>4, <3>6
    <3>7. CASE i > k
      BY <1>3, <2>5, <3>1, <3>2, <3>3, <3>4, <3>7
    <3> QED BY <2>5, <3>1, <3>5, <3>6, <3>7
  <2>9. Gray(b) = [Gray(a) EXCEPT ![k] = 1 - @]
    BY <2>5, <2>8 DEF Gray
  <2> QED BY <2>5, <2>9 DEF OneBit
<1>7. CASE a = MODULUS - 1
  <2>1. b = 0
    <3>1. MODULUS \in Int /\ MODULUS = 1 * MODULUS + 0 /\ 0 \in 0 .. MODULUS - 1 /\ 1 \in Int
      BY <1>1
    <3>2. MODULUS % MODULUS = 0
      BY <1>1, <3>1, DivUnique
    <3> QED BY <1>1, <1>7, <3>2
  <2>2. \A i \in Nat : Bit(0, i) = 0
    <3>1. ASSUME NEW i \in Nat PROVE Bit(0, i) = 0
      <4> DEFINE p == Pow2[i]
      <4>1. p \in Nat \ {0} /\ 0 \in Int
        BY Powers
      <4> HIDE DEF p
      <4>2. 0 = 0 * p + 0 /\ 0 \in 0..p-1
        BY <4>1
      <4>3. 0 \div p = 0
        BY <4>1, <4>2, DivUnique
      <4> QED BY <4>3 DEF Bit, p
    <3> QED BY <3>1
  <2>3. \A i \in 0 .. AWIDTH : Bit(a, i) = 1
    <3> DEFINE U == {d \in Nat : d <= n => Ones(a, n - d)}
    <3>1. 0 \in U
      BY <1>1, <1>5, <1>7
    <3>2. ASSUME NEW d \in U PROVE d + 1 \in U
      <4> SUFFICES ASSUME d + 1 <= n PROVE Ones(a, n - (d + 1))
        OBVIOUS
      <4> DEFINE i == n - (d + 1)
      <4>1. d \in Nat /\ i \in Nat /\ i + 1 = n - d /\ d <= n
        BY <1>1
      <4>2. Ones(a, n - d)
        BY <4>1
      <4> HIDE DEF i
      <4>3. Ones(a, i + 1)
        BY <4>1, <4>2
      <4>4. Ones(a, i)
        BY <1>1, <4>1, <4>3, OnesUp
      <4> QED BY <4>4 DEF i
    <3> HIDE DEF U
    <3>3. U = Nat
      BY <3>1, <3>2, Inductive DEF U
    <3>4. ASSUME NEW i \in 0 .. AWIDTH PROVE Bit(a, i) = 1
      <4>1. n - (i + 1) \in Nat /\ n - (i + 1) <= n /\ n - (n - (i + 1)) = i + 1 /\ i \in Nat
        BY <1>1
      <4>2. Ones(a, i + 1)
        BY <3>3, <4>1 DEF U
      <4> QED BY <1>1, <4>1, <4>2, OnesUp
    <3> QED BY <3>4
  <2>4. Xor(0, 0) = 0 /\ Xor(1, 1) = 0 /\ Xor(1, 0) = 1
    BY DEF Xor
  <2>5. ASSUME NEW i \in 0 .. AWIDTH
        PROVE  Gray(b)[i] = 0 /\ Gray(a)[i] = IF i = AWIDTH THEN 1 ELSE 0
    <3>1. i \in Nat /\ i + 1 \in Nat /\ (i # AWIDTH => i + 1 \in 0 .. AWIDTH)
      BY <1>1
    <3>2. /\ Gray(a)[i] = Xor(Bit(a, i), Bit(a, i + 1))
          /\ Gray(b)[i] = Xor(Bit(0, i), Bit(0, i + 1))
      BY <1>2, <2>1, GrayBits
    <3>3. i = AWIDTH => Bit(a, i + 1) = 0
      BY <1>1
    <3>4. Bit(a, i) = 1 /\ Bit(0, i) = 0 /\ Bit(0, i + 1) = 0
      BY <2>2, <2>3, <3>1
    <3> QED BY <2>3, <2>4, <3>1, <3>2, <3>3, <3>4
  <2>6. AWIDTH \in 0 .. AWIDTH
    BY <1>1
  <2>7. \A i \in 0 .. AWIDTH : Gray(b)[i] = IF i = AWIDTH THEN 1 - Gray(a)[i] ELSE Gray(a)[i]
    BY <2>5
  <2>8. Gray(b) = [Gray(a) EXCEPT ![AWIDTH] = 1 - @]
    BY <2>6, <2>7 DEF Gray
  <2> QED BY <2>6, <2>8 DEF OneBit
<1> QED BY <1>6, <1>7


(* What an edge of the other clock can see of a register that changes from *)
(* g to h: every bit before or after its change.                           *)
Sampled(g, h) == {x \in [0 .. AWIDTH -> {0, 1}] : \A i \in 0 .. AWIDTH : x[i] \in {g[i], h[i]}}

LEMMA GrayType == ASSUME NEW a \in 0 .. MODULUS - 1 PROVE Gray(a) \in [0 .. AWIDTH -> {0, 1}]
<1>1. \A i \in 0 .. AWIDTH : i \in Nat /\ i + 1 \in Nat
  BY Widths
<1>2. a \in Nat
  BY Widths
<1>3. \A x, y \in {0, 1} : Xor(x, y) \in {0, 1}
  BY DEF Xor
<1>4. \A i \in 0 .. AWIDTH : Xor(Bit(a, i), Bit(a, i + 1)) \in {0, 1}
  BY <1>1, <1>2, <1>3, BitValue
<1> QED BY <1>4 DEF Gray

LEMMA SameBits ==
  ASSUME NEW g \in [0 .. AWIDTH -> {0, 1}], NEW h \in [0 .. AWIDTH -> {0, 1}],
         \A i \in 0 .. AWIDTH : g[i] = h[i]
  PROVE  g = h
<1>1. g = [i \in 0 .. AWIDTH |-> g[i]] /\ h = [i \in 0 .. AWIDTH |-> h[i]]
  BY Zenon
<1>2. [i \in 0 .. AWIDTH |-> g[i]] = [i \in 0 .. AWIDTH |-> h[i]]
  BY Zenon
<1> QED BY <1>1, <1>2, Zenon

LEMMA OneBitSampled ==
  ASSUME NEW g \in [0 .. AWIDTH -> {0, 1}], NEW h \in [0 .. AWIDTH -> {0, 1}],
         OneBit(g, h) \/ g = h
  PROVE  Sampled(g, h) = {g, h}
<1>1. g \in Sampled(g, h) /\ h \in Sampled(g, h)
  BY DEF Sampled
<1>2. ASSUME NEW x \in Sampled(g, h) PROVE x \in {g, h}
  <2>1. x \in [0 .. AWIDTH -> {0, 1}] /\ \A i \in 0 .. AWIDTH : x[i] \in {g[i], h[i]}
    BY <1>2 DEF Sampled
  <2>2. CASE g = h
    <3>1. \A i \in 0 .. AWIDTH : x[i] = g[i]
      BY <2>1, <2>2
    <3>2. x = g
      BY <2>1, <3>1, SameBits
    <3> QED BY <3>2
  <2>3. CASE OneBit(g, h)
    <3>1. PICK k \in 0 .. AWIDTH : h = [g EXCEPT ![k] = 1 - @]
      BY <2>3 DEF OneBit
    <3>2. \A i \in 0 .. AWIDTH : i # k => x[i] = g[i] /\ x[i] = h[i]
      BY <2>1, <3>1
    <3>3. CASE x[k] = g[k]
      <4>1. \A i \in 0 .. AWIDTH : x[i] = g[i]
        BY <3>2, <3>3
      <4>2. x = g
        BY <2>1, <4>1, SameBits
      <4> QED BY <4>2
    <3>4. CASE x[k] = h[k]
      <4>1. \A i \in 0 .. AWIDTH : x[i] = h[i]
        BY <3>2, <3>4
      <4>2. x = h
        BY <2>1, <4>1, SameBits
      <4> QED BY <4>2
    <3> QED BY <2>1, <3>3, <3>4
  <2> QED BY <2>2, <2>3
<1> QED BY <1>1, <1>2

(* A pointer after a step that moves it or leaves it. *)
LEMMA PointerSeen ==
  ASSUME NEW k \in Nat, NEW g, g = Code(k), NEW h, h = g \/ h = Gray1(g)
  PROVE  Sampled(g, h) = {g, h}
<1> DEFINE a == k % MODULUS
           b == (a + 1) % MODULUS
<1>1. a \in 0 .. MODULUS - 1 /\ g = Gray(a)
  BY Residue DEF Code
<1>2. a + 1 \in Nat
  BY <1>1, Widths
<1>3. b \in 0 .. MODULUS - 1
  BY <1>2, Residue
<1>4. Gray1(g) = Gray(b)
  BY <1>1, BinOfGray DEF Gray1
<1>5. OneBit(g, Gray1(g))
  BY <1>1, <1>4, GrayOneBit
<1>6. g \in [0 .. AWIDTH -> {0, 1}] /\ Gray1(g) \in [0 .. AWIDTH -> {0, 1}]
  BY <1>1, <1>3, <1>4, GrayType
<1> QED BY <1>5, <1>6, OneBitSampled

(* The other clock's edge never samples a mixture of a pointer's old and   *)
(* new bits (fifo_write.vhd, fifo_read.vhd, n_sync.vhd): whichever bits it *)
(* catches, it sees the pointer before or after the step.  Only the reset, *)
(* which both sides take together, may change several bits.                *)
SeenWhole == [][\/ FifoReset
                \/ /\ Sampled(w_ptr, w_ptr') = {w_ptr, w_ptr'}
                   /\ Sampled(r_ptr, r_ptr') = {r_ptr, r_ptr'}]_Fifovars

THEOREM PointersSeenWhole == FifoSpec => SeenWhole
<1> DEFINE Whole == \/ FifoReset
                    \/ /\ Sampled(w_ptr, w_ptr') = {w_ptr, w_ptr'}
                       /\ Sampled(r_ptr, r_ptr') = {r_ptr, r_ptr'}
<1>1. ASSUME FifoInv, [FifoNext]_Fifovars PROVE [Whole]_Fifovars
  <2> PICK r2, r1, r, w2, w1, w \in Nat : Moves(r2, r1, r, w2, w1, w)
    BY <1>1 DEF FifoInv
  <2>1. w_ptr = Code(w) /\ r_ptr = Code(r)
    BY DEF Moves
  <2>2. CASE WriteClock
    <3>1. (w_ptr' = w_ptr \/ w_ptr' = Gray1(w_ptr)) /\ r_ptr' = r_ptr
      BY <2>2 DEF WriteClock
    <3> QED BY <2>1, <3>1, PointerSeen, Zenon
  <2>3. CASE ReadClock
    <3>1. (r_ptr' = r_ptr \/ r_ptr' = Gray1(r_ptr)) /\ w_ptr' = w_ptr
      BY <2>3 DEF ReadClock
    <3> QED BY <2>1, <3>1, PointerSeen, Zenon
  <2> QED BY <1>1, <2>2, <2>3 DEF FifoNext
<1>2. FifoInv /\ [FifoNext]_Fifovars => [Whole]_Fifovars
  BY <1>1
<1> HIDE DEF Whole
<1>3. FifoSpec => [][Whole]_Fifovars
  BY <1>2, FifoInvInit, FifoInvStep, PTL DEF FifoSpec
<1> QED BY <1>3 DEF SeenWhole, Whole

(* bin <= ptr xor ('0' & bin(N downto 1)), the chain of exclusive ors      *)
(* fifo_write.vhd and fifo_read.vhd decode a pointer with, computes what   *)
(* the model's Bin chooses: the number whose Gray code the pointer is.     *)
THEOREM GrayDecoded ==
  ASSUME NEW a \in 0 .. MODULUS - 1, NEW i \in 0 .. AWIDTH
  PROVE  LET g == Gray(a) IN
           Bit(Bin(g), i) = IF i = AWIDTH THEN g[i] ELSE Xor(g[i], Bit(Bin(g), i + 1))
<1>1. Bin(Gray(a)) = a
  BY BinOfGray
<1>2. a \in Nat /\ i \in Nat /\ i + 1 \in Nat
  BY Widths
<1>3. Gray(a)[i] = Xor(Bit(a, i), Bit(a, i + 1))
  BY GrayBits
<1>4. Bit(a, i) \in {0, 1} /\ Bit(a, i + 1) \in {0, 1}
  BY <1>2, BitValue
<1>5. i = AWIDTH => Bit(a, i + 1) = 0
  BY TopBits
<1>6. \A x, y \in {0, 1} : Xor(Xor(x, y), y) = x /\ Xor(x, 0) = x
  BY DEF Xor
<1> QED BY <1>1, <1>3, <1>4, <1>5, <1>6
=============================================================================
