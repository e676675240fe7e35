------------------------------ MODULE AxisFifo ------------------------------
(***************************************************************************)
(* fifo_async_ctrl of axis_fifo_v1_0 with its memory: a FIFO between two   *)
(* clocks whose pointers are Gray counters, compared with a delayed copy   *)
(* of the other side's.  One step is a rising edge of one of the clocks;   *)
(* a Gray code changes in one bit, so an edge sees the other side's        *)
(* register before or after its change, never a mixture.  Both resets are  *)
(* asserted together.                                                      *)
(***************************************************************************)
EXTENDS Naturals, Sequences

CONSTANTS AWIDTH,   \* address bits
          Data      \* words

ASSUME FifoAssumption == AWIDTH \in Nat /\ AWIDTH >= 2 /\ Data # {}

VARIABLES
  w_ptr, r_ptr,     \* w_ptr_reg, r_ptr_reg: bits AWIDTH .. 0
  w_sync, r_sync,   \* n_sync: <<meta_reg, sync_reg>> of either pointer
  mem,              \* dp_ram
  taken             \* history: the word read last

Fifovars == <<w_ptr, r_ptr, w_sync, r_sync, mem, taken>>

(* Powers of two. *)
Pow2[n \in Nat] == IF n = 0 THEN 1 ELSE 2 * Pow2[n - 1]

MODULUS == Pow2[AWIDTH + 1]

(* Bit i of a number, and the number as a Gray code. *)
Bit(b, i) == (b \div Pow2[i]) % 2
Xor(a, b) == (a + b) % 2
Gray(b) == [i \in 0 .. AWIDTH |-> Xor(Bit(b, i), Bit(b, i + 1))]

(* bin, bin1 and gray1. *)
Bin(g) == CHOOSE b \in 0 .. MODULUS - 1 : Gray(b) = g
Gray1(g) == Gray((Bin(g) + 1) % MODULUS)

(* waddr_msb, raddr_msb and the addresses made with them. *)
Msb(g) == Xor(g[AWIDTH], g[AWIDTH - 1])
Addr(g) == [i \in 0 .. AWIDTH - 1 |-> IF i = AWIDTH - 1 THEN Msb(g) ELSE g[i]]

SameAddress(g, h) == (\A i \in 0 .. AWIDTH - 2 : g[i] = h[i]) /\ Msb(g) = Msb(h)

\* Slip: the top two bits are compared as those of a binary counter.
MutFull == LET r == r_sync[2]
           IN r[AWIDTH] # w_ptr[AWIDTH] /\ \A i \in 0 .. AWIDTH - 1 : r[i] = w_ptr[i]

full == r_sync[2][AWIDTH] # w_ptr[AWIDTH] /\ SameAddress(r_sync[2], w_ptr)

empty == w_sync[2][AWIDTH] = r_ptr[AWIDTH] /\ SameAddress(w_sync[2], r_ptr)

(* n_sync: two registers.  The ones of the write pointer run on the        *)
(* write clock and those of the read pointer on the read clock.            *)
Synced(sync, ptr) == <<ptr, sync[1]>>

FifoInit ==
  /\ w_ptr = Gray(0) /\ r_ptr = Gray(0)
  /\ w_sync = <<Gray(0), Gray(0)>> /\ r_sync = <<Gray(0), Gray(0)>>
  /\ \E d \in Data : mem = [a \in {Addr(Gray(b)) : b \in 0 .. MODULUS - 1} |-> d] /\ taken = d

(* A rising edge of clkw; wr as axis_fifo drives it, only when not full.   *)
WriteClock ==
  /\ \/ \E d \in Data : /\ ~full /\ mem' = [mem EXCEPT ![Addr(w_ptr)] = d]
                        /\ w_ptr' = Gray1(w_ptr)
     \/ UNCHANGED <<mem, w_ptr>>
  /\ w_sync' = Synced(w_sync, w_ptr)
  /\ UNCHANGED <<r_ptr, r_sync, taken>>

(* A rising edge of clkr; rd only when not empty. *)
ReadClock ==
  /\ \/ /\ ~empty /\ taken' = mem[Addr(r_ptr)]
        /\ r_ptr' = Gray1(r_ptr)
     \/ UNCHANGED <<taken, r_ptr>>
  /\ r_sync' = Synced(r_sync, r_ptr)
  /\ UNCHANGED <<w_ptr, w_sync, mem>>

FifoReset ==
  /\ w_ptr' = Gray(0) /\ r_ptr' = Gray(0)
  /\ w_sync' = <<Gray(0), Gray(0)>> /\ r_sync' = <<Gray(0), Gray(0)>>
  /\ UNCHANGED <<mem, taken>>

FifoNext == WriteClock \/ ReadClock \/ FifoReset

FifoSpec == FifoInit /\ [][FifoNext]_Fifovars

----------------------------------------------------------------------------
(* The words between the pointers. *)
Waiting == LET r == Bin(r_ptr)
           IN [i \in 1 .. (Bin(w_ptr) + MODULUS - r) % MODULUS |->
                 mem[Addr(Gray((r + i - 1) % MODULUS))]]

Queue == INSTANCE BoundedQueue
           WITH CAPACITY <- Pow2[AWIDTH], queue <- Waiting, last <- taken

(* The controller implements a queue of 2^AWIDTH words: stale pointers     *)
(* make the FIFO look fuller or emptier than it is, but no word is         *)
(* overwritten, read twice or read before it is written.                   *)
FifoIsQueue == Queue!QueueSpec
=============================================================================
