------------------------- MODULE LagoTriggerProofs -------------------------
(***************************************************************************)
(* Proofs about axis_lago_trigger_v1_3: the stream is a sequence of whole  *)
(* packets, an event packet holds its pulse and is signed by its trigger,  *)
(* for every length of the arrays and every level.                         *)
(***************************************************************************)
EXTENDS LagoTrigger, TLAPS

Words == [k : {"zero", "sample", "status", "count", "sub", "pps"}, i : Nat, id : Int]

FsmType ==
  /\ state \in {"IDLE", "ATT_TR", "SEND_TR_STATUS", "SEND_CNT_STATUS", "ATT_SUBTR", "ATT_PPS"}
  /\ wrCount \in Nat /\ dout \in Words /\ got \in Words /\ tvalid \in BOOLEAN
  /\ trigCnt \in Nat /\ status \in Int

(* The last word of a packet, or none. *)
Closes(w) == \/ w.k \in {"zero", "count"}
             \/ w.k = "sub" /\ w.i = SUB - 1
             \/ w.k = "pps" /\ w.i = M - 1

(* Word wrCount of an array comes next: the one before it is offered, or   *)
(* the packet before it is complete.                                       *)
ArrayAt(st, k, len) ==
  state = st => /\ wrCount < len
                /\ wrCount = 0 => ~tvalid /\ Closes(got)
                /\ wrCount # 0 => tvalid /\ dout.k = k /\ dout.i = wrCount - 1

Framed ==
  /\ tvalid => Follows(got, dout)
  /\ state = "IDLE" => (tvalid => Closes(dout)) /\ (~tvalid => Closes(got))
  /\ ArrayAt("ATT_TR", "sample", L) /\ ArrayAt("ATT_SUBTR", "sub", SUB) /\ ArrayAt("ATT_PPS", "pps", M)
  /\ state = "SEND_TR_STATUS" => tvalid /\ dout.k = "sample" /\ dout.i = L - 1
  /\ state = "SEND_CNT_STATUS" => tvalid /\ dout.k = "status"

FrameInv == FsmType /\ (stalled \/ Framed)

(* However often the receiver stalls: at least as many samples as the      *)
(* place in the packet says have been taken or are offered.                *)
EnoughSamples ==
  /\ run \in 0..L
  /\ state = "ATT_TR" => wrCount < L /\ (wrCount # 0 => tvalid /\ dout.k = "sample" /\ run >= wrCount - 1)
  /\ state = "SEND_TR_STATUS" => tvalid /\ dout.k = "sample" /\ run >= L - 1
  /\ state = "SEND_CNT_STATUS" => tvalid /\ dout.k = "status" /\ run = L
  /\ dout.k = "status" => state = "SEND_CNT_STATUS"

SampleInv == FsmType /\ EnoughSamples

(* The registers of the channels: a tick was caused one clock ago. *)
ChainType ==
  /\ adc \in [Chan -> Int] /\ sh \in [Chan -> [0..L-1 -> Int]] /\ sc \in [Chan -> Nat]

(* A pulse whose first sample at the level is at j. *)
PulseAt(s, lv, j) == Hit(s[j], lv) /\ \A i \in 0..j-1 : s[i] < lv

TickCaused ==
  \A c \in Chan : Tick(sc[c], scaler[c]) => PulseAt(sh[c], lvl[c], TRIG-1)

PulseInv == FsmType /\ ChainType /\ TickCaused /\ PulseInPacket

(* The numbers of the triggers. *)
Numbered ==
  /\ origin \in Int /\ count \in Int
  /\ -1 <= status /\ status < trigCnt /\ origin <= status /\ count <= status
  /\ dout.id <= status

Signed ==
  /\ state \in {"ATT_TR", "SEND_TR_STATUS", "SEND_CNT_STATUS"} => count < origin
  /\ StatusNotOlder

(* Inductive together with FrameInv. *)
StatusInv == Numbered /\ (stalled \/ Signed)

States == {"IDLE", "ATT_TR", "SEND_TR_STATUS", "SEND_CNT_STATUS", "ATT_SUBTR", "ATT_PPS"}

Edge(mready, pps_i) ==
  \/ Idle(mready, pps_i) \/ AttTr(mready) \/ SendTrStatus(mready) \/ SendCntStatus(mready)
  \/ AttSubtr(mready) \/ AttPps(mready)

(* The state machine starts idle. *)
LEMMA InitFsm == Init => FsmType
<1> SUFFICES ASSUME Init PROVE FsmType
  OBVIOUS
<1>1. tvalid \in BOOLEAN
  BY Zenon DEF Init
<1>2. dout \in Words /\ got \in Words
  BY DEF Init, Words, Word, Zero
<1> QED BY <1>1, <1>2 DEF Init, FsmType

(* A reset makes it idle. *)
LEMMA ResetFsm == Reset => FsmType'
<1> SUFFICES ASSUME Reset PROVE FsmType'
  OBVIOUS
<1>1. tvalid' \in BOOLEAN
  BY Zenon DEF Reset
<1>2. dout' \in Words /\ got' \in Words
  BY DEF Reset, Words, Word, Zero
<1> QED BY <1>1, <1>2 DEF Reset, FsmType

(* Nothing changes without a clock. *)
LEMMA StutterFsm ==
  ASSUME UNCHANGED vars
  PROVE  /\ UNCHANGED <<adc, sh, sc, trigCnt, status, state, wrCount, dout, tready, got, run, count,
                        origin>>
         /\ tvalid' = tvalid /\ stalled' = stalled
BY DEF vars, chain, fsm, hist

(* What each state does with the word, the place and the flag. *)
LEMMA EdgeFsm ==
  ASSUME FsmType, NEW mready \in BOOLEAN, NEW pps_i \in BOOLEAN, Edge(mready, pps_i)
  PROVE  /\ state' \in States /\ wrCount' \in Nat /\ dout' \in Words /\ tvalid' \in BOOLEAN
<1> USE DEF FsmType, States
<1>1. ASSUME NEW k \in {"sample", "sub", "pps"}, NEW len, NEW after \in States,
             SendArray(k, len, after)
      PROVE  wrCount' \in Nat /\ dout' \in Words /\ state' \in States
  BY <1>1 DEF SendArray, Word, Words
<1>2. ASSUME Stall PROVE wrCount' \in Nat /\ dout' \in Words /\ state' \in States
  BY <1>2 DEF Stall
<1>3. CASE Idle(mready, pps_i)
  <2>1. wrCount' = 0 /\ dout' = dout /\ tvalid' = FALSE
    BY <1>3 DEF Idle
  <2>2. state' \in States
    BY <1>3 DEF Idle
  <2> QED BY <2>1, <2>2
<1>4. CASE AttTr(mready)
  <2>1. tvalid' \in BOOLEAN /\ (Stall \/ SendArray("sample", L, "SEND_TR_STATUS"))
    BY <1>4, Zenon DEF AttTr, Sending
  <2> QED BY <1>1, <1>2, <2>1
<1>5. CASE AttSubtr(mready)
  <2>1. tvalid' \in BOOLEAN /\ (Stall \/ SendArray("sub", SUB, "IDLE"))
    BY <1>5, Zenon DEF AttSubtr, Sending
  <2> QED BY <1>1, <1>2, <2>1
<1>6. CASE AttPps(mready)
  <2>1. tvalid' \in BOOLEAN /\ (Stall \/ SendArray("pps", M, "IDLE"))
    BY <1>6, Zenon DEF AttPps, Sending
  <2> QED BY <1>1, <1>2, <2>1
<1>7. CASE SendTrStatus(mready)
  <2>1. tvalid' \in BOOLEAN /\ (Stall \/ (wrCount' = 0 /\ dout' = Word("status", 0, status)
                                          /\ state' = "SEND_CNT_STATUS"))
    BY <1>7, Zenon DEF SendTrStatus, Sending
  <2>2. Word("status", 0, status) \in Words
    BY DEF Word, Words
  <2> QED BY <1>2, <2>1, <2>2
<1>8. CASE SendCntStatus(mready)
  <2>1. tvalid' \in BOOLEAN /\ (Stall \/ (wrCount' = 0 /\ dout' = Word("count", 0, status)
                                          /\ state' = "IDLE"))
    BY <1>8, Zenon DEF SendCntStatus, Sending
  <2>2. Word("count", 0, status) \in Words
    BY DEF Word, Words
  <2> QED BY <1>2, <2>1, <2>2
<1> QED BY <1>3, <1>4, <1>5, <1>6, <1>7, <1>8 DEF Edge

(* A clock keeps state and counters within their limits. *)
LEMMA ClockFsm ==
  ASSUME FsmType, NEW x, NEW svalid \in BOOLEAN, NEW mready \in BOOLEAN, NEW pps_i \in BOOLEAN,
         Clock(x, svalid, mready, pps_i)
  PROVE  FsmType' /\ Edge(mready, pps_i)
<1>1. Edge(mready, pps_i)
  BY Zenon DEF Clock, Edge
<1>2. trigCnt' = trigCnt \/ trigCnt' = trigCnt + 1
  BY Zenon DEF Clock, TrigCntNext
<1>3. status' = trigCnt \/ status' = status
  BY Zenon DEF Clock, Datapath
<1>4. got' = dout \/ got' = got
  BY Zenon DEF Clock, History
<1> QED BY <1>1, <1>2, <1>3, <1>4, EdgeFsm DEF FsmType, States
----------------------------------------------------------------------------
(* Without stalls every word offered is taken in the next clock. *)
LEMMA Taken ==
  ASSUME NEW x, NEW svalid, NEW pps_i, NEW mready, mready, Clock(x, svalid, mready, pps_i)
  PROVE  (tvalid => got' = dout) /\ (~tvalid => got' = got)
BY Zenon DEF Clock, History

(* A word that opens an array after a complete packet, and the next one of *)
(* an array, are in order.                                                 *)
LEMMA OpensAfter ==
  ASSUME NEW w \in Words, Closes(w), NEW next, Opens(next) PROVE Follows(w, next)
BY DEF Closes, Follows, Words

(* The next word of an array follows the one before. *)
LEMMA ArrayFollows ==
  ASSUME NEW w \in Words, NEW next,
         \/ w.k = "sample" /\ next.k = "sample" /\ next.i = w.i + 1 /\ next.i < L
         \/ w.k = "sub" /\ next.k = "sub" /\ next.i = w.i + 1 /\ next.i < SUB
         \/ w.k = "pps" /\ next.k = "pps" /\ next.i = w.i + 1 /\ next.i < M
  PROVE  Follows(w, next)
<1>1. w.i \in Nat
  BY DEF Words
<1>2. CASE w.k = "sample"
  BY <1>1, <1>2, LogicAssumption DEF Follows
<1>3. CASE w.k = "sub"
  BY <1>1, <1>3, TriggerAssumption DEF Follows
<1>4. CASE w.k = "pps"
  BY <1>1, <1>4, TriggerAssumption DEF Follows
<1> QED BY <1>2, <1>3, <1>4

(* One word of an array. *)
LEMMA SendFrames ==
  ASSUME FsmType, NEW st \in States, NEW k \in {"sample", "sub", "pps"}, NEW len \in Nat \ {0},
         NEW after, ArrayAt(st, k, len), state = st, SendArray(k, len, after),
         <<k, len>> \in {<<"sample", L>>, <<"sub", SUB>>, <<"pps", M>>},
         (tvalid => got' = dout) /\ (~tvalid => got' = got)
  PROVE  /\ Follows(got', dout') /\ dout'.k = k /\ dout'.i = wrCount
         /\ wrCount' = wrCount + 1 /\ wrCount < len
         /\ state' = IF wrCount = len - 1 THEN after ELSE st
<1>1. wrCount' = wrCount + 1 /\ dout' = Word(k, wrCount, -1) /\ dout'.k = k /\ dout'.i = wrCount
      /\ state' = IF wrCount = len - 1 THEN after ELSE st
  BY DEF SendArray, Word
<1>2. wrCount < len
  BY DEF ArrayAt
<1>3. Follows(got', dout')
  <2>1. CASE wrCount = 0
    <3>1. got' = got /\ Closes(got) /\ got \in Words
      BY <2>1 DEF ArrayAt, FsmType
    <3>2. Opens(dout')
      BY <1>1, <2>1 DEF Opens
    <3> QED BY <3>1, <3>2, OpensAfter
  <2>2. CASE wrCount # 0
    <3>1. got' = dout /\ dout \in Words /\ dout.k = k /\ dout.i = wrCount - 1 /\ wrCount \in Nat
      BY <2>2 DEF ArrayAt, FsmType
    <3>2. dout'.i = dout.i + 1 /\ dout'.i < len
      BY <1>1, <1>2, <3>1
    <3>3. \/ k = "sample" /\ len = L
          \/ k = "sub" /\ len = SUB
          \/ k = "pps" /\ len = M
      OBVIOUS
    <3> QED BY <1>1, <3>1, <3>2, <3>3, ArrayFollows
  <2> QED BY <2>1, <2>2
<1> QED BY <1>1, <1>2, <1>3

(* A clock continues the packet or starts one. *)
LEMMA ClockFrames ==
  ASSUME FsmType, Framed, NEW x, NEW svalid \in BOOLEAN, NEW mready \in BOOLEAN,
         NEW pps_i \in BOOLEAN, mready, Clock(x, svalid, mready, pps_i)
  PROVE  Framed'
<1>1. Edge(mready, pps_i) /\ FsmType'
  BY ClockFsm
<1>2. (tvalid => got' = dout) /\ (~tvalid => got' = got)
  BY Taken
<1>3. CASE Idle(mready, pps_i)
  <2>1. state = "IDLE" /\ wrCount' = 0 /\ dout' = dout /\ ~tvalid'
        /\ state' \in {"IDLE", "ATT_TR", "ATT_SUBTR", "ATT_PPS"}
    BY <1>3 DEF Idle
  <2>2. Closes(got')
    BY <1>2, <2>1 DEF Framed
  <2>3. 0 < L /\ 0 < SUB /\ 0 < M
    BY LogicAssumption, TriggerAssumption
  <2> QED BY <2>1, <2>2, <2>3 DEF Framed, ArrayAt, Closes
<1>4. ASSUME tvalid', Follows(got', dout'), wrCount' # 0, NEW k, dout'.k = k, dout'.i = wrCount' - 1,
             \/ state' = "ATT_TR" /\ k = "sample" /\ wrCount' < L
             \/ state' = "ATT_SUBTR" /\ k = "sub" /\ wrCount' < SUB
             \/ state' = "ATT_PPS" /\ k = "pps" /\ wrCount' < M
      PROVE  Framed'
  BY <1>4 DEF Framed, ArrayAt, Closes, Follows, Opens
<1>5. ASSUME tvalid', Follows(got', dout'),
             \/ state' = "IDLE" /\ Closes(dout')
             \/ state' = "SEND_TR_STATUS" /\ dout'.k = "sample" /\ dout'.i = L - 1
             \/ state' = "SEND_CNT_STATUS" /\ dout'.k = "status"
      PROVE  Framed'
  BY <1>5 DEF Framed, ArrayAt, Closes, Follows, Opens
<1>6. wrCount \in Nat /\ L \in Nat \ {0} /\ SUB \in Nat \ {0} /\ M \in Nat \ {0}
  BY LogicAssumption, TriggerAssumption DEF FsmType
<1>7. CASE AttTr(mready)
  <2>1. state = "ATT_TR" /\ tvalid' /\ SendArray("sample", L, "SEND_TR_STATUS")
    BY <1>7, Zenon DEF AttTr, Sending
  <2>2. /\ Follows(got', dout') /\ dout'.k = "sample" /\ dout'.i = wrCount
        /\ wrCount' = wrCount + 1 /\ wrCount < L
        /\ state' = IF wrCount = L - 1 THEN "SEND_TR_STATUS" ELSE "ATT_TR"
    BY <1>2, <1>6, <2>1, SendFrames DEF Framed, States
  <2> QED BY <1>4, <1>5, <1>6, <2>1, <2>2
<1>8. CASE AttSubtr(mready)
  <2>1. state = "ATT_SUBTR" /\ tvalid' /\ SendArray("sub", SUB, "IDLE")
    BY <1>8, Zenon DEF AttSubtr, Sending
  <2>2. /\ Follows(got', dout') /\ dout'.k = "sub" /\ dout'.i = wrCount
        /\ wrCount' = wrCount + 1 /\ wrCount < SUB
        /\ state' = IF wrCount = SUB - 1 THEN "IDLE" ELSE "ATT_SUBTR"
    BY <1>2, <1>6, <2>1, SendFrames DEF Framed, States
  <2>3. wrCount = SUB - 1 => Closes(dout')
    BY <2>2 DEF Closes
  <2> QED BY <1>4, <1>5, <1>6, <2>1, <2>2, <2>3
<1>9. CASE AttPps(mready)
  <2>1. state = "ATT_PPS" /\ tvalid' /\ SendArray("pps", M, "IDLE")
    BY <1>9, Zenon DEF AttPps, Sending
  <2>2. /\ Follows(got', dout') /\ dout'.k = "pps" /\ dout'.i = wrCount
        /\ wrCount' = wrCount + 1 /\ wrCount < M
        /\ state' = IF wrCount = M - 1 THEN "IDLE" ELSE "ATT_PPS"
    BY <1>2, <1>6, <2>1, SendFrames DEF Framed, States
  <2>3. wrCount = M - 1 => Closes(dout')
    BY <2>2 DEF Closes
  <2> QED BY <1>4, <1>5, <1>6, <2>1, <2>2, <2>3
<1>10. CASE SendTrStatus(mready)
  <2>1. state = "SEND_TR_STATUS" /\ tvalid' /\ state' = "SEND_CNT_STATUS"
        /\ dout' = Word("status", 0, status)
    BY <1>10, Zenon DEF SendTrStatus, Sending
  <2>2. got' = dout /\ dout.k = "sample" /\ dout.i = L - 1 /\ dout'.k = "status"
    BY <1>2, <2>1 DEF Framed, Word
  <2>3. Follows(got', dout')
    BY <2>2 DEF Follows
  <2> QED BY <1>5, <2>1, <2>2, <2>3
<1>11. CASE SendCntStatus(mready)
  <2>1. state = "SEND_CNT_STATUS" /\ tvalid' /\ state' = "IDLE" /\ dout' = Word("count", 0, status)
    BY <1>11, Zenon DEF SendCntStatus, Sending
  <2>2. got' = dout /\ dout.k = "status" /\ dout'.k = "count"
    BY <1>2, <2>1 DEF Framed, Word
  <2>3. Follows(got', dout') /\ Closes(dout')
    BY <2>2 DEF Follows, Closes
  <2> QED BY <1>5, <2>1, <2>3
<1> QED BY <1>1, <1>3, <1>7, <1>8, <1>9, <1>10, <1>11 DEF Edge

(* Nothing has been sent. *)
LEMMA StartFramed ==
  /\ Init => Framed
  /\ Reset => Framed'
BY DEF Init, Reset, Framed, ArrayAt, Closes, Zero, Word

(* The words taken are always whole packets and a part of one. *)
LEMMA FrameAlways == Spec => []FrameInv
<1>1. Init => FrameInv
  BY InitFsm, StartFramed DEF FrameInv
<1>2. ASSUME FrameInv, [Next]_vars PROVE FrameInv'
  <2>1. CASE Reset
    BY <2>1, ResetFsm, StartFramed DEF FrameInv
  <2>2. CASE UNCHANGED vars
    <3>1. UNCHANGED <<trigCnt, status, state, wrCount, dout, got>>
          /\ tvalid' = tvalid /\ stalled' = stalled
      BY <2>2, StutterFsm
    <3>2. FsmType'
      BY <1>2, <3>1 DEF FrameInv, FsmType
    <3>3. Framed => Framed'
      BY <3>1 DEF Framed, ArrayAt, Closes, Follows, Opens
    <3> QED BY <1>2, <3>1, <3>2, <3>3 DEF FrameInv
  <2>3. ASSUME NEW x, NEW svalid \in BOOLEAN, NEW mready \in BOOLEAN, NEW pps_i \in BOOLEAN,
               Clock(x, svalid, mready, pps_i)
        PROVE  FrameInv'
    <3>1. stalled' <=> stalled \/ ~mready
      BY <2>3, Zenon DEF Clock, History
    <3> QED BY <1>2, <2>3, <3>1, ClockFsm, ClockFrames DEF FrameInv
  <2> QED BY <1>2, <2>1, <2>2, <2>3 DEF Next
<1> QED BY <1>1, <1>2, PTL DEF Spec

(* While the receiver keeps up, the words of the stream are whole packets  *)
(* in order, whatever the arrays' lengths and whenever triggers come.      *)
THEOREM StreamFramed == Spec => []Framing
<1>1. FrameInv => Framing
  BY DEF FrameInv, Framed, Framing
<1> QED BY <1>1, FrameAlways, PTL
----------------------------------------------------------------------------
(* With stalls.  run counts the samples taken, up to L. *)
LEMMA RunNext ==
  ASSUME FsmType, run \in 0..L, NEW x, NEW svalid, NEW mready \in BOOLEAN, NEW pps_i,
         Clock(x, svalid, mready, pps_i)
  PROVE  /\ run' \in 0..L
         /\ ~mready => run' = run
         /\ mready /\ tvalid /\ dout.k = "sample" => run' = IF run = L THEN L ELSE run + 1
<1>1. run' = run \/ run' = 0 \/ run' = (IF run = L THEN L ELSE run + 1)
  BY Zenon DEF Clock, History
<1>2. run' \in 0..L
  BY <1>1, LogicAssumption
<1>3. ~mready => run' = run
  BY Zenon DEF Clock, History
<1>4. mready /\ tvalid /\ dout.k = "sample" => run' = IF run = L THEN L ELSE run + 1
  BY Zenon DEF Clock, History
<1> QED BY <1>2, <1>3, <1>4

(* A clock sends the next sample of the packet. *)
LEMMA ClockSamples ==
  ASSUME SampleInv, NEW x, NEW svalid \in BOOLEAN, NEW mready \in BOOLEAN,
         NEW pps_i \in BOOLEAN, Clock(x, svalid, mready, pps_i)
  PROVE  SampleInv'
<1>1. FsmType /\ FsmType' /\ EnoughSamples /\ Edge(mready, pps_i)
  BY ClockFsm DEF SampleInv
<1>2. run \in 0..L /\ run' \in 0..L /\ (~mready => run' = run)
      /\ (mready /\ tvalid /\ dout.k = "sample" => run' = IF run = L THEN L ELSE run + 1)
      /\ L \in Nat /\ L >= 5 /\ wrCount \in Nat
  BY <1>1, RunNext, LogicAssumption DEF EnoughSamples, FsmType
<1>3. SUFFICES EnoughSamples'
  BY <1>1 DEF SampleInv
<1>4. CASE Idle(mready, pps_i)
  <2>1. state = "IDLE" /\ wrCount' = 0 /\ dout' = dout
        /\ state' \in {"IDLE", "ATT_TR", "ATT_SUBTR", "ATT_PPS"}
    BY <1>4 DEF Idle
  <2>2. dout.k # "status"
    BY <1>1, <2>1 DEF EnoughSamples
  <2> QED BY <1>2, <2>1, <2>2 DEF EnoughSamples
<1>5. CASE AttTr(mready) /\ mready
  <2>1. state = "ATT_TR" /\ tvalid' /\ SendArray("sample", L, "SEND_TR_STATUS")
    BY <1>5, Zenon DEF AttTr, Sending
  <2>2. wrCount' = wrCount + 1 /\ dout'.k = "sample" /\ wrCount < L
        /\ state' = IF wrCount = L - 1 THEN "SEND_TR_STATUS" ELSE "ATT_TR"
    BY <1>1, <2>1 DEF SendArray, Word, EnoughSamples
  <2>3. run' >= wrCount
    <3>1. CASE wrCount = 0
      BY <1>2, <3>1
    <3>2. CASE wrCount # 0
      <4>1. tvalid /\ dout.k = "sample" /\ run >= wrCount - 1
        BY <1>1, <2>1, <3>2 DEF EnoughSamples
      <4>2. run' = IF run = L THEN L ELSE run + 1
        BY <1>2, <1>5, <4>1
      <4>3. run >= wrCount - 1
        BY <4>1
      <4> QED BY <1>2, <2>2, <4>2, <4>3
    <3> QED BY <3>1, <3>2
  <2> QED BY <1>2, <2>1, <2>2, <2>3 DEF EnoughSamples
<1>6. CASE SendTrStatus(mready) /\ mready
  <2>1. state = "SEND_TR_STATUS" /\ tvalid' /\ state' = "SEND_CNT_STATUS"
        /\ dout' = Word("status", 0, status)
    BY <1>6, Zenon DEF SendTrStatus, Sending
  <2>2. tvalid /\ dout.k = "sample" /\ run >= L - 1
    BY <1>1, <2>1 DEF EnoughSamples
  <2>3. run' = IF run = L THEN L ELSE run + 1
    BY <1>2, <1>6, <2>2
  <2>4. run' = L /\ dout'.k = "status"
    <3>1. run >= L - 1
      BY <2>2
    <3>2. dout'.k = "status"
      BY <2>1 DEF Word
    <3> QED BY <1>2, <2>3, <3>1, <3>2
  <2> QED BY <1>2, <2>1, <2>4 DEF EnoughSamples
<1>7. CASE SendCntStatus(mready) /\ mready
  <2>1. state' = "IDLE" /\ dout' = Word("count", 0, status)
    BY <1>7, Zenon DEF SendCntStatus, Sending
  <2>2. dout'.k = "count"
    BY <2>1 DEF Word
  <2> QED BY <1>2, <2>1, <2>2 DEF EnoughSamples
<1>8. CASE (AttSubtr(mready) \/ AttPps(mready)) /\ mready
  <2>1. state' \in {"IDLE", "ATT_SUBTR", "ATT_PPS"} /\ dout'.k \in {"sub", "pps"}
    BY <1>8 DEF AttSubtr, AttPps, SendArray, Sending, Word
  <2> QED BY <1>2, <2>1 DEF EnoughSamples
<1>9. CASE ~mready /\ ~Idle(mready, pps_i)
  <2>1. Stall /\ tvalid'
    BY <1>1, <1>9, Zenon DEF Edge, AttTr, SendTrStatus, SendCntStatus, AttSubtr, AttPps, Sending
  <2>2. wrCount' = 0 /\ state' = state /\ dout' = dout /\ run' = run
    BY <1>2, <1>9, <2>1 DEF Stall
  <2> QED BY <1>1, <1>2, <2>1, <2>2 DEF EnoughSamples
<1> QED BY <1>1, <1>4, <1>5, <1>6, <1>7, <1>8, <1>9 DEF Edge

(* A status word has been preceded by at least L samples, however the      *)
(* receiver stalls: the packet begins anew.                                *)
THEOREM NoShortPacket == Spec => []PacketNotShort
<1>1. Init => SampleInv
  <2> SUFFICES ASSUME Init PROVE EnoughSamples
    BY InitFsm DEF SampleInv
  <2> QED BY LogicAssumption DEF Init, EnoughSamples, Zero, Word
<1>2. ASSUME SampleInv, [Next]_vars PROVE SampleInv'
  <2>1. CASE Reset
    <3>1. state' = "IDLE" /\ run' = 0 /\ dout' = Zero
      BY <2>1 DEF Reset
    <3>2. EnoughSamples'
      BY <3>1, LogicAssumption DEF EnoughSamples, Zero, Word
    <3> QED BY <2>1, <3>2, ResetFsm DEF SampleInv
  <2>2. CASE UNCHANGED vars
    <3>1. UNCHANGED <<trigCnt, status, state, wrCount, dout, got, run>> /\ tvalid' = tvalid
      BY <2>2, StutterFsm
    <3> QED BY <1>2, <3>1 DEF SampleInv, FsmType, EnoughSamples
  <2> QED BY <1>2, <2>1, <2>2, ClockSamples DEF Next
<1>3. SampleInv => PacketNotShort
  BY DEF SampleInv, EnoughSamples, PacketNotShort
<1> QED BY <1>1, <1>2, <1>3, PTL DEF Spec
----------------------------------------------------------------------------
(* The pulse moves through the shift register with the clock. *)
LEMMA ShiftMoves ==
  ASSUME NEW s \in [0..L-1 -> Int], NEW x \in Int
  PROVE  /\ Shift(s, x) \in [0..L-1 -> Int]
         /\ \A i \in 0..L-2 : Shift(s, x)[i] = s[i+1]
<1>1. ASSUME NEW i \in 0..L-1
      PROVE  (IF i = L-1 THEN x ELSE s[i+1]) \in Int
  <2>1. CASE i = L-1
    BY <2>1
  <2>2. CASE i # L-1
    <3>1. i + 1 \in 0..L-1
      BY <2>2, LogicAssumption
    <3> QED BY <2>2, <3>1
  <2> QED BY <2>1, <2>2
<1>2. Shift(s, x) \in [0..L-1 -> Int]
  BY <1>1 DEF Shift
<1>3. ASSUME NEW i \in 0..L-2 PROVE Shift(s, x)[i] = s[i+1]
  <2>1. i \in 0..L-1 /\ i # L-1
    BY LogicAssumption
  <2> QED BY <2>1 DEF Shift
<1> QED BY <1>2, <1>3

(* The pulse moves one place further with every clock. *)
LEMMA PulseMoves ==
  ASSUME NEW s \in [0..L-1 -> Int], NEW x \in Int, NEW lv \in Int, NEW j \in 1..TRIG-1,
         PulseAt(s, lv, j)
  PROVE  PulseAt(Shift(s, x), lv, j-1)
<1>1. j - 1 \in 0..L-2 /\ \A i \in 0..(j-1)-1 : i \in 0..L-2 /\ i + 1 \in 0..j-1
  BY LogicAssumption
<1>2. (j - 1) + 1 = j
  BY LogicAssumption
<1>3. Shift(s, x)[j-1] = s[(j-1)+1] /\ \A i \in 0..(j-1)-1 : Shift(s, x)[i] = s[i+1]
  BY <1>1, ShiftMoves
<1>4. Shift(s, x)[j-1] = s[j]
  BY <1>2, <1>3
<1> QED BY <1>1, <1>3, <1>4 DEF PulseAt

(* A trigger leaves its pulse at the place below the discriminator. *)
LEMMA TriggerMoves ==
  ASSUME NEW s \in [0..L-1 -> Int], NEW x \in Int, NEW lv \in Int, Discriminate(s, lv)
  PROVE  PulseAt(Shift(s, x), lv, TRIG-1)
<1>1. TRIG - 1 \in 0..L-2 /\ (TRIG - 1) + 1 = TRIG
      /\ \A i \in 0..(TRIG-1)-1 : i \in 0..L-2 /\ i + 1 \in 1..TRIG-1
  BY LogicAssumption
<1>2. Shift(s, x)[TRIG-1] = s[TRIG] /\ \A i \in 0..(TRIG-1)-1 : Shift(s, x)[i] = s[i+1]
  BY <1>1, ShiftMoves
<1> QED BY <1>1, <1>2 DEF PulseAt, Discriminate

(* A counter reaches the scaler only by counting a trigger. *)
LEMMA TickByTrigger ==
  ASSUME NEW n \in Nat, NEW lim \in 1..SCALER_MAX-1, NEW tr \in BOOLEAN
  PROVE  ScalerNext(n, tr, lim) \in Nat /\ (Tick(ScalerNext(n, tr, lim), lim) => tr)
<1>1. CASE tr
  BY <1>1, LogicAssumption DEF ScalerNext, Inc
<1>2. CASE ~tr
  <2>1. ScalerNext(n, tr, lim) = IF n = lim THEN 0 ELSE n
    BY <1>2 DEF ScalerNext, Tick
  <2> QED BY <2>1 DEF Tick
<1> QED BY <1>1, <1>2

(* A clock keeps the pulse where its packet will send it. *)
LEMMA ClockPulse ==
  ASSUME PulseInv, NEW x \in [Chan -> Sample], NEW svalid \in BOOLEAN, NEW mready \in BOOLEAN,
         NEW pps_i \in BOOLEAN, Clock(x, svalid, mready, pps_i)
  PROVE  PulseInv'
<1>1. FsmType /\ FsmType' /\ Edge(mready, pps_i) /\ ChainType /\ TickCaused
  BY ClockFsm DEF PulseInv
<1>2. (adc' = x \/ adc' = adc) /\ sh' = [c \in Chan |-> Shift(sh[c], adc[c])]
      /\ sc' = [c \in Chan |-> ScalerNext(sc[c], Discriminate(sh[c], lvl[c]), scaler[c])]
  BY Zenon DEF Clock, Datapath
<1>3. ASSUME NEW c \in Chan
      PROVE  /\ adc[c] \in Int /\ sh[c] \in [0..L-1 -> Int] /\ sc[c] \in Nat
             /\ lvl[c] \in Int /\ scaler[c] \in 1..SCALER_MAX-1
             /\ Discriminate(sh[c], lvl[c]) \in BOOLEAN
  BY <1>1, TriggerAssumption DEF ChainType, Discriminate
<1>4. ChainType'
  <2>1. adc' \in [Chan -> Int]
    BY <1>1, <1>2, TriggerAssumption DEF ChainType
  <2>2. sh' \in [Chan -> [0..L-1 -> Int]]
    BY <1>2, <1>3, ShiftMoves
  <2>3. sc' \in [Chan -> Nat]
    BY <1>2, <1>3, TickByTrigger
  <2> QED BY <2>1, <2>2, <2>3 DEF ChainType
<1>5. TickCaused'
  <2> SUFFICES ASSUME NEW c \in Chan, Tick(sc'[c], scaler[c])
               PROVE  PulseAt(sh'[c], lvl[c], TRIG-1)
    BY DEF TickCaused
  <2>1. Discriminate(sh[c], lvl[c])
    BY <1>2, <1>3, TickByTrigger
  <2> QED BY <1>2, <1>3, <2>1, TriggerMoves
<1>6. PulseInPacket'
  <2>1. SUFFICES ASSUME ~stalled', state' = "ATT_TR", wrCount' <= TRIG-2
                 PROVE  \E c \in Chan : PulseAt(sh'[c], lvl[c], TRIG-2-wrCount')
    <3>1. wrCount' \in Nat
      BY <1>1 DEF FsmType
    <3>2. TRIG-2-wrCount'-1 = TRIG-3-wrCount'
      BY <3>1, LogicAssumption
    <3> QED BY <2>1, <3>2, Zenon DEF PulseInPacket, PulseAt
  <2>2. ~stalled /\ mready
    BY <2>1, Zenon DEF Clock, History
  <2>3. ASSUME NEW c \in Chan, NEW j \in 1..TRIG-1, PulseAt(sh[c], lvl[c], j)
        PROVE  PulseAt(sh'[c], lvl[c], j-1)
    BY <1>2, <1>3, <2>3, PulseMoves
  <2>4. CASE state = "IDLE"
    <3>1. tr_s /\ wrCount' = 0
      BY <1>1, <2>1, <2>2, <2>4 DEF Edge, Idle, AttTr, SendTrStatus, SendCntStatus, AttSubtr, AttPps, Sending
    <3>2. PICK c \in Chan : PulseAt(sh[c], lvl[c], TRIG-1)
      BY <1>1, <3>1 DEF tr_s, TickCaused
    <3>3. TRIG - 1 \in 1..TRIG-1 /\ (TRIG-1)-1 = TRIG-2-wrCount'
      BY <3>1, LogicAssumption
    <3> QED BY <2>3, <3>2, <3>3
  <2>5. CASE state = "ATT_TR"
    <3>1. wrCount' = wrCount + 1
      BY <1>1, <2>2, <2>5 DEF Edge, Idle, AttTr, SendTrStatus, SendCntStatus, AttSubtr, AttPps, Sending, SendArray
    <3>2. wrCount \in Nat
      BY <1>1 DEF FsmType
    <3> DEFINE j == TRIG - 2 - wrCount
    <3>3. wrCount <= TRIG - 2 /\ j \in 1..TRIG-1 /\ j - 1 = TRIG-2-wrCount'
      BY <2>1, <3>1, <3>2, LogicAssumption
    <3>4. PICK c \in Chan : PulseAt(sh[c], lvl[c], j)
      <4>1. j - 1 = TRIG-3-wrCount
        BY <3>2, LogicAssumption
      <4> HIDE DEF j
      <4>2. PulseInPacket /\ ~stalled /\ state = "ATT_TR" /\ wrCount <= TRIG-2
        BY <2>2, <2>5, <3>3 DEF PulseInv
      <4>3. PICK c \in Chan : /\ Hit(sh[c][TRIG-2-wrCount], lvl[c])
                              /\ \A i \in 0..TRIG-3-wrCount : sh[c][i] < lvl[c]
        BY <4>2, Zenon DEF PulseInPacket
      <4> QED BY <4>1, <4>3 DEF PulseAt, j
    <3> HIDE DEF j
    <3> QED BY <2>3, <3>3, <3>4
  <2>6. state = "IDLE" \/ state = "ATT_TR"
    BY <1>1, <2>1, <2>2 DEF Edge, Idle, AttTr, SendTrStatus, SendCntStatus, AttSubtr, AttPps, Sending, SendArray
  <2> QED BY <2>4, <2>5, <2>6
<1> QED BY <1>1, <1>4, <1>5, <1>6 DEF PulseInv

(* There is no pulse at the start. *)
LEMMA StartPulse ==
  /\ Init => ChainType /\ TickCaused /\ PulseInPacket
  /\ Reset => (ChainType /\ TickCaused /\ PulseInPacket)'
<1>1. ASSUME NEW c \in Chan PROVE ~Tick(0, scaler[c])
  BY TriggerAssumption DEF Tick
<1>2. ASSUME Init PROVE ChainType /\ TickCaused /\ PulseInPacket
  BY <1>1, <1>2 DEF Init, ChainType, TickCaused, PulseInPacket
<1>3. ASSUME Reset PROVE (ChainType /\ TickCaused /\ PulseInPacket)'
  <2>1. adc' = [c \in Chan |-> 0] /\ sc' = [c \in Chan |-> 0]
        /\ sh' = [c \in Chan |-> [i \in 0..L-1 |-> 0]] /\ state' = "IDLE"
    BY <1>3 DEF Reset
  <2> QED BY <1>1, <2>1 DEF ChainType, TickCaused, PulseInPacket
<1> QED BY <1>2, <1>3

(* The packet of an event holds the pulse that caused it, its first sample *)
(* at the level at word TRIG-2, for every level, window and scaler.        *)
THEOREM EventHoldsPulse == Spec => []PulseInPacket
<1>1. Init => PulseInv
  BY InitFsm, StartPulse DEF PulseInv
<1>2. ASSUME PulseInv, [Next]_vars PROVE PulseInv'
  <2>1. CASE Reset
    BY <2>1, ResetFsm, StartPulse DEF PulseInv
  <2>2. CASE UNCHANGED vars
    <3>1. UNCHANGED <<adc, sh, sc, trigCnt, status, state, wrCount, dout, got>>
          /\ tvalid' = tvalid /\ stalled' = stalled
      BY <2>2, StutterFsm
    <3>2. FsmType' /\ ChainType'
      BY <1>2, <3>1 DEF PulseInv, FsmType, ChainType
    <3>3. TickCaused' /\ PulseInPacket'
      BY <1>2, <3>1 DEF PulseInv, TickCaused, PulseInPacket, PulseAt, Hit, Tick
    <3> QED BY <3>2, <3>3 DEF PulseInv
  <2> QED BY <1>2, <2>1, <2>2, ClockPulse DEF Next
<1>3. PulseInv => PulseInPacket
  BY DEF PulseInv
<1> QED BY <1>1, <1>2, <1>3, PTL DEF Spec
----------------------------------------------------------------------------
(* Every tick takes the next number, and the status words hold the number  *)
(* of the last one.                                                        *)
LEMMA TickNumbers ==
  ASSUME FsmType, Numbered, NEW x, NEW svalid, NEW mready, NEW pps_i, Clock(x, svalid, mready, pps_i)
  PROVE  /\ status \in Int /\ status' \in Int /\ trigCnt \in Nat
         /\ status <= status' /\ status' < trigCnt'
         /\ tr_s => status' = trigCnt
<1>1. /\ tr_s => status' = trigCnt /\ trigCnt' = trigCnt + 1
      /\ ~tr_s => status' = status /\ trigCnt' = trigCnt
  BY Zenon DEF Clock, Datapath, TrigCntNext
<1>2. status \in Int /\ trigCnt \in Nat /\ status < trigCnt
  BY DEF FsmType, Numbered
<1>3. CASE tr_s
  BY <1>1, <1>2, <1>3
<1>4. CASE ~tr_s
  BY <1>1, <1>2, <1>4
<1> QED BY <1>3, <1>4

(* The word offered next carries no number, the one it had, or that of the *)
(* status register.                                                        *)
LEMMA WordNumbers ==
  ASSUME NEW mready \in BOOLEAN, NEW pps_i \in BOOLEAN, Edge(mready, pps_i)
  PROVE  dout'.id \in {-1, dout.id, status}
<1>1. ASSUME NEW k, NEW len, NEW after, SendArray(k, len, after) PROVE dout'.id = -1
  BY <1>1 DEF SendArray, Word
<1>2. ASSUME Stall PROVE dout'.id = dout.id
  BY <1>2 DEF Stall
<1>3. CASE Idle(mready, pps_i)
  BY <1>3 DEF Idle
<1>4. CASE AttTr(mready) \/ AttSubtr(mready) \/ AttPps(mready)
  BY <1>1, <1>2, <1>4, Zenon DEF AttTr, AttSubtr, AttPps
<1>5. CASE SendTrStatus(mready)
  <2>1. dout' = Word("status", 0, status) \/ dout' = dout
    BY <1>5, Zenon DEF SendTrStatus, Stall
  <2> QED BY <2>1 DEF Word
<1>6. CASE SendCntStatus(mready)
  <2>1. dout' = Word("count", 0, status) \/ dout' = dout
    BY <1>6, Zenon DEF SendCntStatus, Stall
  <2> QED BY <2>1 DEF Word
<1> QED BY <1>3, <1>4, <1>5, <1>6 DEF Edge

(* The numbers of the triggers grow. *)
LEMMA ClockNumbers ==
  ASSUME FsmType, Numbered, NEW x \in [Chan -> Sample], NEW svalid \in BOOLEAN,
         NEW mready \in BOOLEAN, NEW pps_i \in BOOLEAN, Clock(x, svalid, mready, pps_i)
  PROVE  Numbered'
<1>1. /\ status \in Int /\ status' \in Int /\ trigCnt \in Nat
      /\ status <= status' /\ status' < trigCnt' /\ (tr_s => status' = trigCnt)
  BY TickNumbers
<1>2. dout'.id \in {-1, dout.id, status}
  <2>1. Edge(mready, pps_i)
    BY Zenon DEF Clock, Edge
  <2> QED BY <2>1, WordNumbers
<1>3. count' = count \/ count' = dout.id
  BY Zenon DEF Clock, History
<1>4. origin' = origin \/ (tr_s /\ origin' = trigCnt)
  <2>1. origin' = origin \/ (origin' = trigCnt /\ state = "IDLE" /\ state' = "ATT_TR")
    BY Zenon DEF Clock, History
  <2>2. ASSUME state = "IDLE", state' = "ATT_TR" PROVE tr_s
    <3>1. Idle(mready, pps_i)
      BY <2>2 DEF Clock, AttTr, SendTrStatus, SendCntStatus, AttSubtr, AttPps, Sending
    <3> QED BY <2>2, <3>1 DEF Idle
  <2> QED BY <2>1, <2>2
<1>5. dout.id \in Int
  BY DEF FsmType, Words
<1>6. origin' \in Int /\ origin' <= status'
  <2>1. CASE origin' = origin
    BY <1>1, <2>1 DEF Numbered
  <2>2. CASE tr_s /\ origin' = trigCnt
    BY <1>1, <2>2
  <2> QED BY <1>4, <2>1, <2>2
<1>7. count' \in Int /\ count' <= status'
  BY <1>1, <1>3, <1>5 DEF Numbered
<1>8. dout'.id <= status' /\ -1 <= status'
  BY <1>1, <1>2, <1>5 DEF Numbered
<1> QED BY <1>1, <1>6, <1>7, <1>8 DEF Numbered

(* A clock keeps the status at least as new as the event. *)
LEMMA ClockSigns ==
  ASSUME FrameInv, Numbered, ~stalled, Signed, NEW x \in [Chan -> Sample], NEW svalid \in BOOLEAN,
         NEW pps_i \in BOOLEAN, Clock(x, svalid, TRUE, pps_i)
  PROVE  Signed'
<1>1. FsmType /\ Framed
  BY DEF FrameInv
<1>2. status \in Int /\ origin \in Int /\ count \in Int /\ trigCnt \in Nat /\ dout.id \in Int
      /\ status < trigCnt /\ origin <= status /\ count <= status /\ dout.id <= status
  BY <1>1 DEF FsmType, Words, Numbered
<1>3. count' = count \/ (tvalid /\ dout.k = "count" /\ count' = dout.id)
  BY Zenon DEF Clock, History
<1>4. origin' = IF state = "IDLE" /\ state' = "ATT_TR" THEN trigCnt ELSE origin
  BY DEF Clock, History
<1>5. CASE Idle(TRUE, pps_i)
  <2>1. ~tvalid' /\ state' \in {"IDLE", "ATT_TR", "ATT_PPS", "ATT_SUBTR"} /\ state = "IDLE"
    BY <1>5 DEF Idle
  <2>2. StatusNotOlder'
    BY <2>1, Zenon DEF StatusNotOlder
  <2>3. ASSUME state' = "ATT_TR" PROVE count' < origin'
    BY <1>2, <1>3, <1>4, <2>1, <2>3
  <2> QED BY <2>1, <2>2, <2>3 DEF Signed
<1>6. CASE AttTr(TRUE)
  <2>1. state = "ATT_TR" /\ dout' = Word("sample", wrCount, -1)
    BY <1>6, Zenon DEF AttTr, Sending, SendArray
  <2>2. tvalid => dout.k = "sample"
    BY <1>1, <2>1 DEF Framed, ArrayAt
  <2>3. count' = count /\ origin' = origin /\ count < origin
    BY <1>3, <1>4, <2>1, <2>2 DEF Signed
  <2>4. dout'.k = "sample"
    BY <2>1 DEF Word
  <2>5. StatusNotOlder'
    BY <2>4 DEF StatusNotOlder
  <2> QED BY <2>3, <2>5 DEF Signed
<1>7. CASE SendTrStatus(TRUE)
  <2>1. state = "SEND_TR_STATUS" /\ dout' = Word("status", 0, status)
    BY <1>7, Zenon DEF SendTrStatus, Sending
  <2>2. dout.k = "sample"
    BY <1>1, <2>1 DEF Framed
  <2>3. count' = count /\ origin' = origin /\ count < origin
    BY <1>3, <1>4, <2>1, <2>2 DEF Signed
  <2>4. dout'.k = "status" /\ dout'.id = status
    BY <2>1 DEF Word
  <2>5. dout'.id >= origin'
    BY <1>2, <2>3, <2>4
  <2>6. StatusNotOlder'
    BY <2>4, <2>5 DEF StatusNotOlder
  <2> QED BY <2>3, <2>6 DEF Signed
<1>8. CASE SendCntStatus(TRUE)
  <2>1. state = "SEND_CNT_STATUS" /\ dout' = Word("count", 0, status) /\ state' = "IDLE"
    BY <1>8, Zenon DEF SendCntStatus, Sending
  <2>2. dout.k = "status"
    BY <1>1, <2>1 DEF Framed
  <2>3. count' = count /\ origin' = origin /\ count < origin
    BY <1>3, <1>4, <2>1, <2>2 DEF Signed
  <2>4. dout'.k = "count" /\ dout'.id = status
    BY <2>1 DEF Word
  <2>5. dout'.id >= origin' /\ dout'.id > count'
    BY <1>2, <2>3, <2>4
  <2>6. StatusNotOlder'
    BY <2>5 DEF StatusNotOlder
  <2> QED BY <2>1, <2>6 DEF Signed
<1>9. CASE AttSubtr(TRUE) \/ AttPps(TRUE)
  <2>1. state' \in {"IDLE", "ATT_SUBTR", "ATT_PPS"} /\ dout'.k \in {"sub", "pps"}
    BY <1>9 DEF AttSubtr, AttPps, SendArray, Sending, Word
  <2>2. StatusNotOlder'
    BY <2>1 DEF StatusNotOlder
  <2> QED BY <2>1, <2>2 DEF Signed
<1> QED BY <1>5, <1>6, <1>7, <1>8, <1>9 DEF Clock

(* There is no event at the start. *)
LEMMA StartStatus ==
  /\ Init => Numbered /\ Signed
  /\ Reset => Numbered' /\ Signed'
<1>1. ASSUME Init PROVE Numbered /\ Signed
  <2>1. ~tvalid
    BY <1>1 DEF Init
  <2>2. StatusNotOlder
    BY <2>1, Zenon DEF StatusNotOlder
  <2> QED BY <1>1, <2>2 DEF Init, Numbered, Signed, Zero, Word
<1>2. ASSUME Reset PROVE Numbered' /\ Signed'
  <2>1. ~tvalid'
    BY <1>2 DEF Reset
  <2>2. StatusNotOlder'
    BY <2>1, Zenon DEF StatusNotOlder
  <2>3. trigCnt' = 0 /\ status' = -1 /\ state' = "IDLE" /\ dout' = Zero /\ count' = -1 /\ origin' = -1
    BY <1>2 DEF Reset
  <2> QED BY <2>2, <2>3 DEF Numbered, Signed, Zero, Word
<1> QED BY <1>1, <1>2

(* The status and counter words of an event packet describe the trigger    *)
(* that opened it or a later one, and counter words only grow, while the   *)
(* receiver keeps up and for every length of the arrays.                   *)
THEOREM EventSigned == Spec => []StatusNotOlder
<1> USE DEF StatusInv
<1>1. Init => StatusInv
  BY StartStatus
<1>2. ASSUME FrameInv, StatusInv, [Next]_vars PROVE StatusInv'
  <2>1. CASE Reset
    BY <2>1, StartStatus
  <2>2. CASE UNCHANGED vars
    <3>1. UNCHANGED <<trigCnt, status, state, dout, count, origin>> /\ tvalid' = tvalid /\ stalled' = stalled
      BY <2>2, StutterFsm
    <3>2. Numbered'
      BY <1>2, <3>1 DEF Numbered
    <3>3. Signed => Signed'
      BY <3>1, Zenon DEF Signed, StatusNotOlder
    <3> QED BY <1>2, <3>1, <3>2, <3>3
  <2>3. ASSUME NEW x \in [Chan -> Sample], NEW svalid \in BOOLEAN, NEW mready \in BOOLEAN,
               NEW pps_i \in BOOLEAN, Clock(x, svalid, mready, pps_i)
        PROVE  StatusInv'
    <3>1. Numbered'
      BY <1>2, <2>3, ClockNumbers DEF FrameInv
    <3>2. CASE stalled \/ ~mready
      <4>1. stalled'
        BY <2>3, <3>2, Zenon DEF Clock, History
      <4> QED BY <3>1, <4>1
    <3>3. CASE ~stalled /\ mready = TRUE
      <4>1. Signed'
        BY <1>2, <2>3, <3>3, ClockSigns
      <4> QED BY <3>1, <4>1
    <3> QED BY <3>2, <3>3
  <2> QED BY <1>2, <2>1, <2>2, <2>3 DEF Next
<1>3. StatusInv => StatusNotOlder
  BY DEF Signed, StatusNotOlder
<1> QED BY <1>1, <1>2, <1>3, FrameAlways, PTL DEF Spec
============================================================================
