---------------------------- MODULE DevcfgStream ----------------------------
(***************************************************************************)
(* xdevcfg_write of patches/xilinx_devcfg.c as a transformer of bytes: a   *)
(* bitstream file is a header, a sync word and data; the user writes it in *)
(* pieces of any size, the driver drops the header and hands whole words   *)
(* to the PCAP, keeping 0 to 3 bytes for the next call.  A byte is named   *)
(* by its position in the file.  Devcfg has the steps of the transfer.     *)
(***************************************************************************)
EXTENDS Naturals, Sequences

CONSTANTS HEADER,     \* bytes before the sync word
          LENGTH,     \* bytes of the file
          MAX_PIECE,  \* largest piece the user writes
          MAX_WRITE   \* bound on the writes of one opening

ASSUME StreamAssumption == /\ HEADER \in Nat /\ LENGTH \in Nat /\ LENGTH >= HEADER + 4
                           /\ MAX_PIECE \in Nat \ {0} /\ MAX_WRITE \in Nat

VARIABLES
  swapped,   \* the file has the swapped sync word
  ppos,      \* *ppos, also the next byte the user supplies
  residue,   \* residue_buf
  swap,      \* endian_swap
  pcap,      \* bytes handed over, in the order the PCAP takes them
  first,     \* history: size of the first piece
  writes,    \* history: writes since the device was opened
  failed     \* history: a write of this opening failed after taking its bytes

Streamvars == <<swapped, ppos, residue, swap, pcap, first, writes, failed>>

Bytes(from, n) == [k \in 1..n |-> from + k - 1]

(* xdevcfg_open: endian_swap and residue_len are reset. *)
Opened == /\ ppos = 0 /\ residue = <<>> /\ swap = FALSE /\ pcap = <<>>
          /\ first = 0 /\ writes = 0 /\ failed = FALSE

StreamInit == swapped \in BOOLEAN /\ Opened

Reopen == /\ writes > 0 /\ swapped' \in BOOLEAN
          /\ ppos' = 0 /\ residue' = <<>> /\ swap' = FALSE /\ pcap' = <<>>
          /\ first' = 0 /\ writes' = 0 /\ failed' = FALSE

----------------------------------------------------------------------------
(* Positions at which the loop over the first block finds the sync word:   *)
(* it ends four bytes before the end, a sync word there goes unnoticed.    *)
SyncAt(kbuf) == {i \in 0..Len(kbuf) - 5 : SubSeq(kbuf, i + 1, i + 4) = Bytes(HEADER, 4)}

(* Header removal: the block without what is in front of the sync word. *)
Headless(kbuf, at0) ==
  IF at0 /\ SyncAt(kbuf) # {}
  THEN SubSeq(kbuf, 1 + CHOOSE i \in SyncAt(kbuf) : TRUE, Len(kbuf))
  ELSE kbuf

Whole(n) == n - (n % 4)

\* Slip: the bytes kept are the first of the block.
MutStragglers(block) == SubSeq(block, 1, Len(block) % 4)

Stragglers(block) == SubSeq(block, Whole(Len(block)) + 1, Len(block))

(* swab32 over the words, if endian_swap says so. *)
Words(block, sw) ==
  [k \in 1..Whole(Len(block)) |->
     LET w == (k - 1) \div 4 IN IF sw THEN block[8*w + 5 - k] ELSE block[k]]

(* A write of n bytes.  The transfer may fail behind the point where the   *)
(* residue is replaced; its words may have reached the PCAP all the same.  *)
Write(n, ok, reached) ==
  LET kbuf  == residue \o Bytes(ppos, n)
      at0   == ppos = 0 /\ Len(kbuf) > 4
      block == Headless(kbuf, at0)
  IN /\ n <= LENGTH - ppos /\ writes < MAX_WRITE /\ (ok => reached)
     /\ swap' = IF at0 /\ SyncAt(kbuf) # {} THEN swapped ELSE swap
     /\ residue' = Stragglers(block)
     /\ pcap' = IF reached THEN pcap \o Words(block, swap') ELSE pcap
     /\ ppos' = IF ok THEN ppos + n ELSE ppos
     /\ first' = IF writes = 0 THEN n ELSE first
     /\ writes' = writes + 1 /\ failed' = (failed \/ ~ok)
     /\ UNCHANGED swapped

StreamNext == \/ Reopen
              \/ \E n \in 1..MAX_PIECE, ok, reached \in BOOLEAN : Write(n, ok, reached)

StreamSpec == StreamInit /\ [][StreamNext]_Streamvars

----------------------------------------------------------------------------
(* Undoes the swapping, to compare with the file. *)
InFileOrder(s) == Words(s, swap)

(* However the file is cut into pieces, the PCAP gets each of its bytes    *)
(* once and in order, except the 0 to 3 still kept; from the sync word on  *)
(* and in the byte order it announces if the first piece holds it and one  *)
(* byte more, from the start of the file as it is otherwise.               *)
StreamWhole ==
  LET found == first > HEADER + 4
      start == IF found THEN HEADER ELSE 0
  IN ~failed => /\ Len(residue) < 4
                /\ ppos > 0 => InFileOrder(pcap) \o residue = Bytes(start, ppos - start)
                /\ swap = (swapped /\ found)
============================================================================
