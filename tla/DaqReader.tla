----------------------------- MODULE DaqReader -----------------------------
(***************************************************************************)
(* read_buffer of lago_v1_3/src/lago.c against the position of the RAM     *)
(* writer.  The writer stores beats of two 32-bit words and counts beats   *)
(* modulo 2^20; the program indexes 32-bit words of a buffer of limit =    *)
(* 1024*1024 of them.  Both ranges are LIMIT here.                         *)
(*                                                                         *)
(* The global position is the copy of the counter that wait_for_interrupt  *)
(* made at the last interrupt, in the main or in the helper thread; the    *)
(* main thread calls read_buffer after every wait, also after a timeout.   *)
(* What is done with a word once it is read is left out.                   *)
(***************************************************************************)
EXTENDS Integers

CONSTANT LIMIT     \* words of the buffer, and beats of the writer's counter

ASSUME ReaderAssumption == LIMIT \in Nat /\ LIMIT >= 4

VARIABLES
  sts,       \* beats written, the writer's int_addr_reg
  lapped,    \* the writer has come round at least once
  position,  \* global: sts at the last interrupt
  current,   \* global: last word read, -2 before the first
  seen       \* history: words read since position last fell back

vars == <<sts, lapped, position, current, seen>>

Init == /\ sts = 0 /\ lapped = FALSE /\ position = 0
        /\ current = -2 /\ seen = {}

(* axis_ram_writer has stored one more beat. *)
Write == /\ sts' = (sts + 1) % LIMIT
         /\ lapped' = (lapped \/ sts' = 0)
         /\ UNCHANGED <<position, current, seen>>

(* wait_for_interrupt, the part behind the pending check. *)
Interrupt == /\ position' = sts
             /\ seen' = IF position' < position THEN {} ELSE seen
             /\ UNCHANGED <<sts, lapped, current>>

(* current at the start of a call, after the "hack" of line 836. *)
Start == IF current = LIMIT-2 THEN -2 ELSE current

(* Initial values of readinit and readend are 0 and limit. *)
ReadInit(cur, pos) == IF cur < pos + 2 \/ cur > pos THEN cur + 2 ELSE 0

\* Slip: the commented-out conversion pos=pos*4 put back.
MutReadEnd(cur, pos) == IF cur < 4*pos + 2 THEN 4*pos ELSE LIMIT

ReadEnd(cur, pos) == IF cur < pos + 2 THEN pos ELSE LIMIT

(* Words the loop goes through. *)
ToRead(cur, pos) ==
  IF cur = pos THEN {} ELSE ReadInit(cur, pos) .. ReadEnd(cur, pos) - 1

(* The loop: current follows the index. *)
ReadLoop(cur, words, end) ==
  /\ current' = IF words = {} THEN cur ELSE end - 1
  /\ seen' = seen \cup words
  /\ UNCHANGED <<sts, lapped, position>>

ReadBuffer == ReadLoop(Start, ToRead(Start, position), ReadEnd(Start, position))

Next == Write \/ Interrupt \/ ReadBuffer

Spec == Init /\ [][Next]_vars

(* The trigger keeps delivering, PPS interrupts keep coming and the main   *)
(* thread keeps running.                                                   *)
FairSpec == Spec /\ WF_vars(Write) /\ WF_vars(Interrupt) /\ WF_vars(ReadBuffer)

----------------------------------------------------------------------------
(* Nothing is read that the writer has not written: of the first turn only *)
(* the words of complete beats, 2*sts of them.                             *)
NoPhantomWord == \A w \in seen : lapped \/ w < 2*sts

(* "read from current to end of buffer and set current to 0 at the end":   *)
(* the reader does not stay at the end of the buffer for ever.             *)
LeavesTheEnd == (current = LIMIT-1) ~> (current # LIMIT-1)
============================================================================
