-------------------------- MODULE RamWriterProofs --------------------------
(***************************************************************************)
(* Proofs about RamWriter for every burst length, address range, FIFO      *)
(* depth and threshold allowed by WriterAssumption.                        *)
(***************************************************************************)
EXTENDS RamWriter, NumberLemmas, TLAPS

(* The registers without the slave: what the underflow argument is about.  *)
RegsOK ==
  /\ n \in 0..DEPTH
  /\ awvalid \in BOOLEAN /\ wvalid \in BOOLEAN
  /\ blk \in 0..BLOCKS-1 /\ beat \in 0..BURST-1
  /\ wid \in 0..IDS-1
  /\ aborted \in BOOLEAN

(* Inductive invariant: a burst that has started is covered by the FIFO.   *)
FifoInv == RegsOK /\ BurstCovered

(* The FIFO is empty and no burst is open. *)
LEMMA FifoInvInit == Init => FifoInv
<1> SUFFICES ASSUME Init PROVE FifoInv
  OBVIOUS
<1>1. awvalid \in BOOLEAN /\ wvalid \in BOOLEAN /\ aborted \in BOOLEAN /\ ~wvalid
  BY Zenon DEF Init
<1>2. n \in 0..DEPTH /\ blk \in 0..BLOCKS-1 /\ beat \in 0..BURST-1
      /\ wid \in 0..IDS-1 /\ beat = 0
  BY WriterAssumption DEF Init
<1> QED BY <1>1, <1>2 DEF FifoInv, RegsOK, BurstCovered

(* A clock keeps the burst covered. *)
LEMMA FifoInvStep == FifoInv /\ [Next]_vars => FifoInv'
<1> SUFFICES ASSUME FifoInv, [Next]_vars PROVE FifoInv'
  OBVIOUS
<1> USE WriterAssumption
<1>1. CASE UNCHANGED vars
  BY <1>1 DEF vars, FifoInv, RegsOK, BurstCovered
<1>2. CASE Reset
  <2>1. awvalid' \in BOOLEAN /\ wvalid' \in BOOLEAN /\ aborted' \in BOOLEAN /\ ~wvalid'
    BY <1>2, Zenon DEF Reset
  <2>2. n' \in 0..DEPTH /\ blk' \in 0..BLOCKS-1 /\ beat' \in 0..BURST-1
        /\ wid' \in 0..IDS-1 /\ beat' = 0
    BY <1>2 DEF Reset
  <2> QED BY <2>1, <2>2 DEF FifoInv, RegsOK, BurstCovered
<1>3. ASSUME NEW tvalid \in BOOLEAN, NEW awready \in BOOLEAN,
             NEW wready \in BOOLEAN, NEW ae \in AlmostEmpty,
             Clock(tvalid, awready, wready, ae)
      PROVE  FifoInv'
  <2> DEFINE rden == wready /\ wvalid
  <2>1. ae \in BOOLEAN /\ (~ae => n > AE)
    <3>1. (n <= AE) \in BOOLEAN /\ (~(n <= AE) => n > AE)
      BY DEF FifoInv, RegsOK
    <3> QED BY <1>3, <3>1, Zenon DEF AlmostEmpty
  <2>2. wvalid => n > 0
    BY DEF FifoInv, RegsOK, BurstCovered
  <2>3. n' = FifoNext(tready /\ tvalid, rden) /\ wvalid' = WvalidNext(wready, ae)
        /\ awvalid' = AwvalidNext(awready, wready, ae)
        /\ blk' = BlkNext(rden) /\ beat' = BeatNext(rden)
        /\ wid' = WidNext(wready) /\ aborted' = aborted
    BY <1>3 DEF Clock
  <2>4. RegsOK'
    <3>1. n' \in 0..DEPTH
      BY <2>2, <2>3 DEF FifoNext, tready, FifoInv, RegsOK
    <3>2. awvalid' \in BOOLEAN /\ wvalid' \in BOOLEAN
      BY <2>3 DEF AwvalidNext, WvalidNext, FifoInv, RegsOK
    <3>3. blk' \in 0..BLOCKS-1
      BY <2>3 DEF BlkNext, FifoInv, RegsOK
    <3>4. beat' \in 0..BURST-1
      BY <2>3 DEF BeatNext, wlast, FifoInv, RegsOK
    <3>5. wid' \in 0..IDS-1
      BY <2>3 DEF WidNext, FifoInv, RegsOK
    <3> QED BY <2>3, <3>1, <3>2, <3>3, <3>4, <3>5 DEF FifoInv, RegsOK
  <2>5. BurstCovered'
    <3>1. CASE rden /\ wlast
      \* the next burst starts only with more than AE >= BURST words present
      BY <2>1, <2>3, <3>1 DEF FifoNext, WvalidNext, BeatNext, Start, wlast, tready,
                              FifoInv, RegsOK, BurstCovered
    <3>2. CASE rden /\ ~wlast
      BY <2>1, <2>3, <3>2 DEF FifoNext, WvalidNext, BeatNext, Start, wlast, tready,
                              FifoInv, RegsOK, BurstCovered
    <3>3. CASE ~rden
      BY <2>1, <2>3, <3>3 DEF FifoNext, WvalidNext, BeatNext, Start, wlast, tready,
                              FifoInv, RegsOK, BurstCovered
    <3> QED BY <3>1, <3>2, <3>3
  <2> QED BY <2>4, <2>5 DEF FifoInv
<1> QED BY <1>1, <1>2, <1>3 DEF Next

(* The writer never reads an empty FIFO: for all parameters with a         *)
(* threshold that covers a burst, whatever the stream, the port, the lag   *)
(* of ALMOSTEMPTY and resets do.                                           *)
THEOREM NeverUnderflows == Spec => []NoUnderflow
<1>1. FifoInv => NoUnderflow
  BY WriterAssumption DEF FifoInv, RegsOK, BurstCovered, NoUnderflow
<1> QED BY <1>1, FifoInvInit, FifoInvStep, PTL DEF Spec

----------------------------------------------------------------------------
(* The address and data channels.  As long as the port is followed it has  *)
(* no open address and has taken beat beats ahead of it, or exactly the    *)
(* address of the burst in progress, displaced by the beats taken ahead.   *)
Current == [blk |-> blk, beat |-> early, id |-> wid]

AxiInv ==
  /\ FifoInv
  /\ awq \in Seq(Address) /\ taken \in 0..BURST-1 /\ early \in 0..BURST-1
  /\ orphan \in BOOLEAN
  /\ Followed =>
       \/ awq = <<>> /\ taken = beat /\ early = beat /\ (wvalid <=> awvalid)
       \/ awq = <<Current>> /\ taken = beat /\ wvalid /\ ~awvalid

(* No address is offered. *)
LEMMA AxiInvInit == Init => AxiInv
<1> SUFFICES ASSUME Init PROVE AxiInv
  OBVIOUS
<1>1. FifoInv
  BY FifoInvInit
<1>2. awq = <<>> /\ awq \in Seq(Address)
  BY DEF Init
<1>3. taken = 0 /\ taken \in 0..BURST-1 /\ early = 0 /\ early \in 0..BURST-1 /\ beat = 0
  BY WriterAssumption DEF Init
<1>4. (wvalid <=> awvalid) /\ orphan \in BOOLEAN
  BY Zenon DEF Init
<1> QED BY <1>1, <1>2, <1>3, <1>4 DEF AxiInv

(* A clock or a reset keeps one address per burst. *)
LEMMA AxiInvStep == AxiInv /\ [Next]_vars => AxiInv'
<1> SUFFICES ASSUME AxiInv, [Next]_vars PROVE AxiInv'
  OBVIOUS
<1> USE WriterAssumption
<1>0. FifoInv /\ FifoInv'
  BY FifoInvStep DEF AxiInv
<1>1. CASE UNCHANGED vars
  BY <1>0, <1>1 DEF vars, AxiInv, Current, Followed
<1>2. CASE Reset
  <2>1. awq' = awq /\ taken' = taken /\ early' = early /\ orphan' = orphan /\ beat' = 0
    BY <1>2 DEF Reset
  <2>2. ~wvalid' /\ ~awvalid' /\ (Followed' => Followed /\ ~wvalid)
    BY <1>2, Zenon DEF Reset, Followed
  <2>3. Followed' => awq = <<>> /\ taken = 0 /\ early = 0
    BY <2>2 DEF AxiInv, FifoInv, BurstCovered
  <2> QED BY <1>0, <2>1, <2>2, <2>3 DEF AxiInv
<1>3. ASSUME NEW tvalid \in BOOLEAN, NEW awready \in BOOLEAN,
             NEW wready \in BOOLEAN, NEW ae \in AlmostEmpty,
             Clock(tvalid, awready, wready, ae)
      PROVE  AxiInv'
  <2> DEFINE rden == wready /\ wvalid
             q == IF awready /\ awvalid THEN Append(awq, AwAddress) ELSE awq
  <2>1. ae \in BOOLEAN
    <3>1. (n <= AE) \in BOOLEAN
      OBVIOUS
    <3> QED BY <1>3, <3>1, Zenon DEF AlmostEmpty
  <2>2. /\ wvalid' = WvalidNext(wready, ae)
        /\ awvalid' = AwvalidNext(awready, wready, ae)
        /\ blk' = BlkNext(rden) /\ beat' = BeatNext(rden)
        /\ wid' = WidNext(wready) /\ aborted' = aborted
        /\ SlaveNext(awready, rden)
    BY <1>3 DEF Clock
  <2>3. RegsOK /\ BurstCovered
    BY <1>0 DEF FifoInv
  <2>4. CASE ~Followed
    <3>1. UNCHANGED <<awq, taken, early, orphan, aborted>>
      BY <2>2, <2>4 DEF SlaveNext
    <3>2. ~Followed'
      BY <2>4, <3>1, Zenon DEF Followed
    <3> QED BY <1>0, <3>1, <3>2 DEF AxiInv
  <2>5. CASE Followed
    <3>1. /\ awq' = IF rden /\ wlast /\ q # <<>> THEN Tail(q) ELSE q
          /\ taken' = IF ~rden THEN taken ELSE IF wlast THEN 0 ELSE taken + 1
          /\ early' = IF ~rden THEN early
                      ELSE IF wlast THEN 0 ELSE IF q = <<>> THEN early + 1 ELSE early
          /\ orphan' = (rden /\ wlast /\ q = <<>>)
      BY <2>2, <2>5 DEF SlaveNext
    <3>2. AwAddress \in Address
      BY <2>3 DEF AwAddress, Address, RegsOK
    <3>3. orphan' \in BOOLEAN
      BY <3>1
    <3>4. ~wvalid => ~wlast
      BY <2>3 DEF wlast, BurstCovered
    <3>5. taken' \in 0..BURST-1 /\ early' \in 0..BURST-1
      BY <2>3, <2>5, <3>1 DEF AxiInv, RegsOK, wlast
    <3>6. CASE awq = <<>> /\ taken = beat /\ early = beat /\ (wvalid <=> awvalid)
      <4>1. AwAddress = Current
        BY <3>6 DEF AwAddress, Current
      <4>2. CASE awready /\ awvalid
        <5>1. q = <<Current>> /\ q # <<>> /\ wvalid
          BY <3>2, <3>6, <4>1, <4>2
        <5>2. CASE rden /\ wlast
          <6>1. awq' = <<>> /\ awq' \in Seq(Address)
            <7>1. awq' = Tail(<<Current>>)
              BY <3>1, <5>1, <5>2
            <7>2. Tail(<<Current>>) = <<>>
              OBVIOUS
            <7> QED BY <7>1, <7>2
          <6>2. taken' = 0 /\ early' = 0 /\ beat' = 0
            BY <2>2, <3>1, <5>2 DEF BeatNext
          <6>3. wvalid' <=> awvalid'
            BY <2>1, <2>2, <4>2, <5>1, <5>2, Zenon DEF WvalidNext, AwvalidNext, Start
          <6> QED BY <1>0, <3>3, <3>5, <6>1, <6>2, <6>3 DEF AxiInv
        <5>3. CASE ~(rden /\ wlast)
          <6>1. ~(wready /\ wlast)
            BY <5>1, <5>3
          <6>2. awq' = <<Current>>
            BY <3>1, <5>1, <5>3
          <6>3. Current \in Address
            BY <3>2, <4>1
          <6>4. early' = early
            BY <3>1, <5>1, <5>3
          <6>5. Current' = Current
            BY <2>2, <5>3, <6>1, <6>4 DEF Current, BlkNext, WidNext
          <6>6. wvalid' /\ ~awvalid'
            BY <2>1, <2>2, <4>2, <5>1, <6>1, Zenon DEF WvalidNext, AwvalidNext, Start
          <6>7. taken' = beat'
            BY <2>2, <3>1, <3>6, <5>3 DEF BeatNext
          <6>8. awq' = <<Current'>> /\ awq' \in Seq(Address)
            BY <6>2, <6>3, <6>5
          <6> QED BY <1>0, <3>3, <3>5, <6>6, <6>7, <6>8 DEF AxiInv
        <5> QED BY <5>2, <5>3
      <4>3. CASE ~(awready /\ awvalid)
        <5>1. q = <<>>
          BY <3>6, <4>3
        <5>2. awq' = <<>> /\ awq' \in Seq(Address)
          <6>1. awq' = <<>>
            BY <3>1, <5>1
          <6>2. <<>> \in Seq(Address)
            OBVIOUS
          <6> QED BY <6>1, <6>2, Zenon
        <5>3. CASE rden /\ wlast
          <6>1. orphan'
            BY <3>1, <5>1, <5>3
          <6> QED BY <1>0, <3>3, <3>5, <5>2, <6>1 DEF AxiInv, Followed
        <5>4. CASE ~(rden /\ wlast)
          <6>1. ~(wready /\ wlast)
            BY <3>4, <5>4
          <6>2. taken' = beat' /\ early' = beat'
            BY <2>2, <3>1, <3>6, <5>1, <5>4 DEF BeatNext
          <6>3. wvalid' <=> awvalid'
            BY <2>1, <2>2, <3>6, <4>3, <6>1, Zenon DEF WvalidNext, AwvalidNext, Start
          <6> QED BY <1>0, <3>3, <3>5, <5>2, <6>2, <6>3 DEF AxiInv
        <5> QED BY <5>3, <5>4
      <4> QED BY <4>2, <4>3
    <3>7. CASE awq = <<Current>> /\ taken = beat /\ wvalid /\ ~awvalid
      <4>1. q = <<Current>> /\ q # <<>>
        BY <3>7
      <4>2. CASE rden /\ wlast
        <5>1. awq' = <<>> /\ awq' \in Seq(Address)
          <6>1. awq' = Tail(<<Current>>)
            BY <3>1, <4>1, <4>2
          <6>2. Tail(<<Current>>) = <<>>
            OBVIOUS
          <6> QED BY <6>1, <6>2
        <5>2. taken' = 0 /\ early' = 0 /\ beat' = 0
          BY <2>2, <3>1, <4>2 DEF BeatNext
        <5>3. wvalid' <=> awvalid'
          BY <2>1, <2>2, <3>7, <4>2, Zenon DEF WvalidNext, AwvalidNext, Start
        <5> QED BY <1>0, <3>3, <3>5, <5>1, <5>2, <5>3 DEF AxiInv
      <4>3. CASE ~(rden /\ wlast)
        <5>1. ~(wready /\ wlast)
          BY <3>7, <4>3
        <5>2. awq' = <<Current>> /\ awq' = awq
          BY <3>1, <3>7, <4>1, <4>3
        <5>3. early' = early
          BY <3>1, <4>1, <4>3
        <5>4. Current' = Current
          BY <2>2, <4>3, <5>1, <5>3 DEF Current, BlkNext, WidNext
        <5>5. wvalid' /\ ~awvalid'
          BY <2>1, <2>2, <3>7, <5>1, Zenon DEF WvalidNext, AwvalidNext, Start
        <5>6. taken' = beat'
          BY <2>2, <3>1, <3>7, <4>3 DEF BeatNext
        <5>7. awq' = <<Current'>> /\ awq' \in Seq(Address)
          BY <5>2, <5>4 DEF AxiInv
        <5> QED BY <1>0, <3>3, <3>5, <5>5, <5>6, <5>7 DEF AxiInv
      <4> QED BY <4>2, <4>3
    <3> QED BY <2>5, <3>6, <3>7 DEF AxiInv
  <2> QED BY <2>4, <2>5
<1> QED BY <1>1, <1>2, <1>3 DEF Next

(* All variables, the slave's included, keep their types.                  *)
THEOREM TypeCorrect == Spec => []TypeOK
<1>1. AxiInv => TypeOK
  BY DEF AxiInv, FifoInv, RegsOK, TypeOK
<1> QED BY <1>1, AxiInvInit, AxiInvStep, PTL DEF Spec

(* Each burst has one address, whichever way the port interleaves its two  *)
(* channels, until it has taken a whole burst before the address or        *)
(* software resets the core in mid-burst.                                  *)
THEOREM BurstsAreAddressed == Spec => []OneAddressPerBurst
<1>1. AxiInv => OneAddressPerBurst
  <2> SUFFICES ASSUME AxiInv, Followed
               PROVE  /\ Len(awq) <= 1
                      /\ awvalid => awq = <<>>
                      /\ wvalid <=> (awvalid \/ awq # <<>>)
    BY DEF OneAddressPerBurst
  <2>1. CASE awq = <<>> /\ (wvalid <=> awvalid)
    BY <2>1
  <2>2. CASE awq = <<Current>> /\ wvalid /\ ~awvalid
    BY <2>2
  <2> QED BY <2>1, <2>2 DEF AxiInv
<1> QED BY <1>1, AxiInvInit, AxiInvStep, PTL DEF Spec

(* A waiting address is displaced by the beats the port has taken ahead of *)
(* it and by nothing else, and the burst is stored by as much behind the   *)
(* position in sts_data, under the ID of its beats.                        *)
THEOREM BeatsLandAtPosition == Spec => []BeatLandsAtPosition
<1>1. AxiInv => BeatLandsAtPosition
  <2> SUFFICES ASSUME AxiInv, Followed
               PROVE  /\ awvalid => AwAddress.beat = early
                      /\ awq # <<>> => awq[1] = Current /\ taken = beat
    BY DEF BeatLandsAtPosition, Current
  <2>1. CASE awq = <<>> /\ early = beat
    BY <2>1 DEF AwAddress
  <2>2. CASE awq = <<Current>> /\ taken = beat /\ ~awvalid
    BY <2>2
  <2> QED BY <2>1, <2>2 DEF AxiInv
<1> QED BY <1>1, AxiInvInit, AxiInvStep, PTL DEF Spec

----------------------------------------------------------------------------
(* sts_data: the beats handed to the port, modulo the size of the ring.    *)
sts  == blk * BURST + beat
RING == BLOCKS * BURST

(* A clock moves pop words out of the FIFO and the status register on by   *)
(* as many, and push words in.                                             *)
Moves(push, pop) ==
  /\ n' = n + push - pop /\ sts' = (sts + pop) % RING
  /\ push = 1 => n < DEPTH
  /\ pop = 1 => n > 0

(* The counter that software reads as the position and the words that have *)
(* left the FIFO never part, not at the end of a burst nor at that of the  *)
(* ring: what the acquisition's model of the writer, one step of a counter *)
(* per beat, takes for granted.                                            *)
OneWordPerPosition == [][Reset \/ \E push, pop \in {0, 1} : Moves(push, pop)]_vars

(* The bursts fill the ring exactly. *)
LEMMA RingBounds ==
  ASSUME NEW b \in 0..BLOCKS-1, NEW i \in 0..BURST-1
  PROVE  /\ RING \in Nat \ {0} /\ b * BURST + i \in 0 .. RING - 1
         /\ (b + 1) * BURST = b * BURST + BURST
         /\ b # BLOCKS - 1 => b * BURST + BURST \in 0 .. RING - 1
         /\ b = BLOCKS - 1 => b * BURST + BURST = RING
<1> DEFINE d == BLOCKS - b
           x == b * BURST
<1>1. BURST \in Nat \ {0} /\ BLOCKS \in Nat \ {0} /\ b \in Nat /\ i \in Nat /\ i < BURST
      /\ d \in Int /\ d >= 1 /\ b = BLOCKS - d
  BY WriterAssumption
<1>2. (b + 1) * BURST = x + BURST
  BY <1>1
<1>3. x \in Nat
  BY <1>1
<1>4. RING = x + d * BURST
  BY <1>1 DEF RING
<1>5. d * BURST >= BURST
  BY <1>1, TimesPositive
<1>6. b # BLOCKS - 1 => d * BURST >= BURST + BURST
  <2> SUFFICES ASSUME b # BLOCKS - 1 PROVE d * BURST >= BURST + BURST
    OBVIOUS
  <2>1. d - 1 \in Int /\ d - 1 >= 1
    BY <1>1
  <2>2. (d - 1) * BURST >= BURST
    BY <1>1, <2>1, TimesPositive
  <2>3. (d - 1) * BURST = d * BURST - BURST
    BY <1>1
  <2>4. d * BURST \in Int
    BY <1>1
  <2> QED BY <1>1, <2>2, <2>3, <2>4
<1>7. d * BURST \in Int
  BY <1>1
<1>8. b = BLOCKS - 1 => d * BURST = BURST
  BY <1>1
<1> DEFINE y == d * BURST
<1> HIDE DEF x, y
<1>9. RING = x + y /\ y >= BURST /\ y \in Int /\ (b # BLOCKS - 1 => y >= BURST + BURST)
      /\ (b = BLOCKS - 1 => y = BURST)
  BY <1>4, <1>5, <1>6, <1>7, <1>8 DEF y
<1>10. RING \in Nat \ {0} /\ x + i \in 0 .. RING - 1
       /\ (b # BLOCKS - 1 => x + BURST \in 0 .. RING - 1)
       /\ (b = BLOCKS - 1 => x + BURST = RING)
  BY <1>1, <1>3, <1>9
<1> QED BY <1>2, <1>10 DEF x

(* Numbers below the size of the ring, and the size itself. *)
LEMMA RingMod == /\ \A k \in 0 .. RING - 1 : k % RING = k
                 /\ RING \in Nat \ {0} => RING % RING = 0
<1>1. ASSUME NEW k \in 0 .. RING - 1 PROVE k % RING = k
  <2>1. RING \in Nat \ {0} /\ k \in Int
    BY WriterAssumption DEF RING
  <2>2. k = 0 * RING + k
    BY <2>1
  <2> QED BY <2>1, <2>2, DivUnique
<1>2. ASSUME RING \in Nat \ {0} PROVE RING % RING = 0
  <2>1. RING = 1 * RING + 0 /\ 0 \in 0 .. RING - 1 /\ RING \in Int
    BY <1>2
  <2> QED BY <1>2, <2>1, DivUnique
<1> QED BY <1>1, <1>2

(* One beat further in the registers is one further in the ring. *)
LEMMA RegistersCount ==
  ASSUME FifoInv, NEW rden \in BOOLEAN, blk' = BlkNext(rden), beat' = BeatNext(rden)
  PROVE  sts' = (sts + (IF rden THEN 1 ELSE 0)) % RING
<1>1. blk \in 0..BLOCKS-1 /\ beat \in 0..BURST-1
  BY DEF FifoInv, RegsOK
<1>2. BURST \in Nat \ {0} /\ BLOCKS \in Nat \ {0} /\ blk * BURST \in Nat
  BY <1>1, WriterAssumption
<1>3. sts \in 0 .. RING - 1 /\ RING \in Nat \ {0}
  BY <1>1, RingBounds DEF sts
<1>4. CASE ~rden
  <2>1. sts' = sts
    BY <1>4 DEF sts, BlkNext, BeatNext
  <2>2. sts + 0 = sts
    BY <1>3
  <2> QED BY <1>3, <1>4, <2>1, <2>2, RingMod
<1>5. CASE rden /\ ~wlast
  <2>1. blk' = blk /\ beat' = beat + 1 /\ beat + 1 \in 0..BURST-1
    BY <1>1, <1>2, <1>5 DEF BlkNext, BeatNext, wlast
  <2>2. sts' = blk * BURST + (beat + 1)
    BY <2>1 DEF sts
  <2>3. blk * BURST + (beat + 1) \in 0 .. RING - 1
    BY <1>1, <2>1, RingBounds
  <2>4. sts + 1 = blk * BURST + (beat + 1)
    <3> DEFINE x == blk * BURST
    <3> HIDE DEF x
    <3>1. (x + beat) + 1 = x + (beat + 1)
      BY <1>1, <1>2 DEF x
    <3> QED BY <3>1 DEF x, sts
  <2> QED BY <1>5, <2>2, <2>3, <2>4, RingMod
<1>6. CASE rden /\ wlast
  <2>1. blk' = (blk + 1) % BLOCKS /\ beat' = 0 /\ beat = BURST - 1
    BY <1>6 DEF BlkNext, BeatNext, wlast
  <2>2. sts + 1 = blk * BURST + BURST
    <3> DEFINE x == blk * BURST
    <3> HIDE DEF x
    <3>1. (x + (BURST - 1)) + 1 = x + BURST
      BY <1>2 DEF x
    <3> QED BY <2>1, <3>1 DEF x, sts
  <2>3. CASE blk # BLOCKS - 1
    <3>1. blk' = blk + 1
      BY <1>1, <1>2, <2>1, <2>3
    <3>2. sts' = (blk + 1) * BURST + 0
      BY <2>1, <3>1 DEF sts
    <3>3. sts' = blk * BURST + BURST /\ blk * BURST + BURST \in 0 .. RING - 1
      BY <1>1, <1>2, <2>3, <3>2, RingBounds
    <3> QED BY <1>6, <2>2, <3>3, RingMod
  <2>4. CASE blk = BLOCKS - 1
    <3>1. blk' = 0
      BY <1>2, <2>1, <2>4
    <3>2. sts' = 0
      BY <1>2, <2>1, <3>1 DEF sts
    <3>3. sts + 1 = RING
      BY <1>1, <2>2, <2>4, RingBounds
    <3> QED BY <1>3, <1>6, <3>2, <3>3, RingMod
  <2> QED BY <2>3, <2>4
<1> QED BY <1>4, <1>5, <1>6

(* For every burst length, ring size and depth: every clock out of reset   *)
(* moves the position by the words it takes out of the FIFO.               *)
THEOREM PositionCountsWords == Spec => OneWordPerPosition
<1> DEFINE Step == Reset \/ \E push, pop \in {0, 1} : Moves(push, pop)
<1>1. ASSUME FifoInv, Next PROVE Step
  <2>1. CASE Reset
    BY <2>1
  <2>2. ASSUME NEW tvalid \in BOOLEAN, NEW awready \in BOOLEAN,
               NEW wready \in BOOLEAN, NEW ae \in AlmostEmpty,
               Clock(tvalid, awready, wready, ae)
        PROVE  Step
    <3> DEFINE rden == wready /\ wvalid
               push == IF tready /\ tvalid THEN 1 ELSE 0
               pop  == IF rden THEN 1 ELSE 0
    <3>1. rden \in BOOLEAN
      OBVIOUS
    <3>2. n' = n + push - pop /\ blk' = BlkNext(rden) /\ beat' = BeatNext(rden)
      BY <2>2 DEF Clock, FifoNext
    <3>3. sts' = (sts + pop) % RING
      BY <1>1, <3>1, <3>2, RegistersCount
    <3>4. push = 1 => n < DEPTH
      BY DEF tready
    <3>5. pop = 1 => n > 0
      BY <1>1, WriterAssumption DEF FifoInv, RegsOK, BurstCovered
    <3>6. push \in {0, 1} /\ pop \in {0, 1}
      OBVIOUS
    <3> HIDE DEF push, pop
    <3>7. Moves(push, pop)
      BY <3>2, <3>3, <3>4, <3>5 DEF Moves
    <3> QED BY <3>6, <3>7
  <2> QED BY <1>1, <2>1, <2>2 DEF Next
<1>2. FifoInv /\ [Next]_vars => [Step]_vars
  BY <1>1
<1> HIDE DEF Step
<1>3. Spec => [][Step]_vars
  BY <1>2, FifoInvInit, FifoInvStep, PTL DEF Spec
<1> QED BY <1>3 DEF OneWordPerPosition, Step
============================================================================
