----------------------------- MODULE RamWriter -----------------------------
(***************************************************************************)
(* The DMA engine of the LAGO data path, cores/axis_ram_writer_v1_0: words *)
(* of the AXI stream are queued in a FIFO36E1 and written to memory in     *)
(* bursts over an AXI3 master port.  One step of the specification is one  *)
(* rising edge of aclk.                                                    *)
(*                                                                         *)
(* int_addr_reg is kept as its two slices: beat is the low part that       *)
(* int_wlast_wire decodes (bits 3..0), blk the rest.  The contents of the  *)
(* words play no role, so the FIFO is the number of words it holds.        *)
(***************************************************************************)
EXTENDS Naturals, Sequences

CONSTANTS BURST,      \* beats of a burst (m_axi_awlen + 1, 16)
          BLOCKS,     \* bursts before int_addr_reg wraps (2^(ADDR_WIDTH-4))
          IDS,        \* 2^AXI_ID_WIDTH
          DEPTH,      \* words the FIFO36E1 holds (512)
          AE,         \* ALMOSTEMPTY is asserted at or below this many words
          CMA_BLOCKS  \* bursts that fit into the CMA buffer of zynq_io.c

(* A first-word-fall-through FIFO36E1 with ALMOST_EMPTY_OFFSET 15 keeps    *)
(* ALMOSTEMPTY asserted up to 16 words, so the threshold covers a burst.   *)
ASSUME WriterAssumption ==
  /\ BURST \in Nat /\ BURST >= 2
  /\ BLOCKS \in Nat \ {0} /\ IDS \in Nat \ {0}
  /\ DEPTH \in Nat /\ AE \in Nat
  /\ BURST <= AE /\ AE < DEPTH
  /\ CMA_BLOCKS \in Nat

VARIABLES
  n,        \* words in the FIFO
  awvalid,  \* int_awvalid_reg
  wvalid,   \* int_wvalid_reg
  blk, beat,\* int_addr_reg, high and low slice
  wid,      \* int_wid_reg
  awq,      \* slave: accepted write addresses whose data is not complete
  taken,    \* slave: beats taken of the current burst
  early,    \* slave: those of them taken while their address still waited
  orphan,   \* slave: it has taken a whole burst before the address
  aborted   \* a reset has cut an open AXI transaction

vars == <<n, awvalid, wvalid, blk, beat, wid, awq, taken, early, orphan, aborted>>

Address == [blk : 0..BLOCKS-1, beat : 0..BURST-1, id : 0..IDS-1]

(* Registers after a reset, which also clears the FIFO. *)
Init == /\ n = 0 /\ awvalid = FALSE /\ wvalid = FALSE
        /\ blk = 0 /\ beat = 0 /\ wid = 0
        /\ awq = <<>> /\ taken = 0 /\ early = 0
        /\ orphan = FALSE /\ aborted = FALSE

----------------------------------------------------------------------------
(* Combinational signals. *)

tready == n < DEPTH                  \* int_tready_wire, not FULL
wlast  == beat = BURST - 1           \* int_wlast_wire

\* Slip: ALMOSTEMPTY released one word too early.
MutAlmostEmpty == {TRUE, n < AE}

(* Values ALMOSTEMPTY may have: asserted at or below the threshold; it may *)
(* also stay asserted for a while after the FIFO has filled beyond it.     *)
AlmostEmpty == {TRUE, n <= AE}

(* Starting condition shared by both valid registers. *)
Start(ae) == ~ae /\ ~awvalid /\ ~wvalid

\* Slip: no address for a burst that follows another without a pause.
MutNoNextAddress(awready, wready, ae) ==
  IF Start(ae) THEN TRUE
  ELSE IF awready /\ awvalid THEN FALSE ELSE awvalid

\* Slip: AWVALID is not taken back when the address is accepted.
MutKeepAddress(awready, wready, ae) ==
  IF Start(ae) \/ (wready /\ wlast /\ ~ae) THEN TRUE ELSE awvalid

AwvalidNext(awready, wready, ae) ==
  IF Start(ae) \/ (wready /\ wlast /\ ~ae) THEN TRUE
  ELSE IF awready /\ awvalid THEN FALSE ELSE awvalid

WvalidNext(wready, ae) ==
  IF Start(ae) THEN TRUE
  ELSE IF wready /\ wlast /\ ae THEN FALSE ELSE wvalid

FifoNext(push, rden) == n + (IF push THEN 1 ELSE 0) - (IF rden THEN 1 ELSE 0)

BlkNext(rden)  == IF rden /\ wlast THEN (blk + 1) % BLOCKS ELSE blk
BeatNext(rden) == IF rden THEN (IF wlast THEN 0 ELSE beat + 1) ELSE beat

\* Slip: the ID advances with every word offered, not with every burst.
MutWidNext(wready) == IF wready THEN (wid + 1) % IDS ELSE wid

(* int_wid_reg advances on m_axi_wready and wlast, whatever wvalid is. *)
WidNext(wready) == IF wready /\ wlast THEN (wid + 1) % IDS ELSE wid

(* Address and ID presented on the AW channel: the registers as they are   *)
(* in this cycle, not a copy taken when awvalid rose.                      *)
AwAddress == [blk |-> blk, beat |-> beat, id |-> wid]

----------------------------------------------------------------------------
(* The memory port, an AXI3 slave: it accepts addresses and data as it     *)
(* likes, data also before the address it belongs to.  Beats are stored    *)
(* from the accepted address upwards.  The core does not remember a burst  *)
(* whose address was never accepted, so once the port has taken a whole    *)
(* burst ahead, one address is missing for good; the port is not followed  *)
(* any further then, nor after a reset has cut a transaction.              *)

Followed == ~aborted /\ ~orphan

SlaveNext(awready, beatTaken) ==
  LET q == IF awready /\ awvalid THEN Append(awq, AwAddress) ELSE awq
  IN IF ~Followed THEN UNCHANGED <<awq, taken, early, orphan>>
     ELSE /\ awq'    = IF beatTaken /\ wlast /\ q # <<>> THEN Tail(q) ELSE q
          /\ taken'  = IF ~beatTaken THEN taken ELSE IF wlast THEN 0 ELSE taken + 1
          /\ early'  = IF ~beatTaken THEN early
                       ELSE IF wlast THEN 0 ELSE IF q = <<>> THEN early + 1 ELSE early
          /\ orphan' = (beatTaken /\ wlast /\ q = <<>>)

(* One clock edge out of reset: inputs s_axis_tvalid, m_axi_awready,       *)
(* m_axi_wready and the flag ALMOSTEMPTY.                                  *)
Clock(tvalid, awready, wready, ae) ==
  LET rden == wready /\ wvalid
  IN /\ n' = FifoNext(tready /\ tvalid, rden)
     /\ awvalid' = AwvalidNext(awready, wready, ae)
     /\ wvalid' = WvalidNext(wready, ae)
     /\ blk' = BlkNext(rden) /\ beat' = BeatNext(rden)
     /\ wid' = WidNext(wready)
     /\ SlaveNext(awready, rden)
     /\ UNCHANGED aborted

(* A clock edge with aresetn low (bit 2 of the reset register, written by  *)
(* software at any moment).  The slave is not reset with the core.         *)
Reset == /\ n' = 0 /\ awvalid' = FALSE /\ wvalid' = FALSE
         /\ blk' = 0 /\ beat' = 0 /\ wid' = 0
         /\ aborted' = (aborted \/ awvalid \/ wvalid)
         /\ UNCHANGED <<awq, taken, early, orphan>>

Next == \/ \E tvalid, awready, wready \in BOOLEAN, ae \in AlmostEmpty :
             Clock(tvalid, awready, wready, ae)
        \/ Reset

Spec == Init /\ [][Next]_vars

(* Liveness assumes a running clock, an ALMOSTEMPTY flag that does not lag *)
(* forever, and a memory port that keeps accepting what is offered.        *)
Edge(awready, wready, ae) == \E tvalid \in BOOLEAN : Clock(tvalid, awready, wready, ae)
SeeWords    == n > AE /\ \E aw, w \in BOOLEAN : Edge(aw, w, FALSE)
TakeAddress == awvalid /\ \E w \in BOOLEAN, ae \in AlmostEmpty : Edge(TRUE, w, ae)
TakeBeat    == wvalid /\ \E aw \in BOOLEAN, ae \in AlmostEmpty : Edge(aw, TRUE, ae)

FairSpec == /\ Spec
            /\ SF_vars(SeeWords) /\ SF_vars(TakeAddress) /\ SF_vars(TakeBeat)

----------------------------------------------------------------------------
TypeOK ==
  /\ n \in 0..DEPTH
  /\ awvalid \in BOOLEAN /\ wvalid \in BOOLEAN
  /\ blk \in 0..BLOCKS-1 /\ beat \in 0..BURST-1
  /\ wid \in 0..IDS-1
  /\ awq \in Seq(Address) /\ taken \in 0..BURST-1 /\ early \in 0..BURST-1
  /\ orphan \in BOOLEAN /\ aborted \in BOOLEAN

(* A started burst can always be finished: the words it still needs are in *)
(* the FIFO, and the low address bits are zero outside a burst.  The core  *)
(* never looks at EMPTY, it relies on ALMOSTEMPTY alone at the start of a  *)
(* burst and at the last beat of the previous one.                         *)
BurstCovered == /\ wvalid => n >= BURST - beat
                /\ ~wvalid => beat = 0

(* RDEN is never asserted on an empty FIFO, so no stale word is written.   *)
NoUnderflow == wvalid => n > 0

(* One address per burst: the slave holds at most one open address, and    *)
(* none is open or offered once the writer has gone idle.  It holds for    *)
(* any port that does not take a whole burst before its address.           *)
OneAddressPerBurst ==
  Followed => /\ Len(awq) <= 1
              /\ awvalid => awq = <<>>
              /\ wvalid <=> (awvalid \/ awq # <<>>)

(* AWADDR is decoded from live counters, so a port that takes data before  *)
(* the address sees it move.  The damage is exactly that: while an address *)
(* waits it is the start of its burst plus the beats taken ahead, and the  *)
(* burst is stored that many places behind the one sts_data reports, with  *)
(* matching AWID and WID.  A port that takes the address first stores      *)
(* every beat at the reported position.                                    *)
BeatLandsAtPosition ==
  Followed => /\ awvalid => AwAddress.beat = early
              /\ awq # <<>> => /\ awq[1] = [blk |-> blk, beat |-> early, id |-> wid]
                               /\ taken = beat

(* Data that reaches the threshold is moved to memory (or discarded by a   *)
(* reset): the writer and its port never wait for each other forever.      *)
WriterProgress ==
  \A b \in 0..BLOCKS-1, i \in 0..BURST-1 :
    (n > AE /\ blk = b /\ beat = i) ~> (n <= AE \/ blk # b \/ beat # i)

(* The writer stays inside the buffer cma_init allocates.                  *)
WritesInsideBuffer == awq # <<>> => awq[1].blk < CMA_BLOCKS

============================================================================
