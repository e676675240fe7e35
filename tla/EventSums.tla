----------------------------- MODULE EventSums -----------------------------
(***************************************************************************)
(* lago_v1_3/src/lago.c: the sums that read_buffer keeps for the metadata  *)
(* while it decodes the words of events.  A word is taken by its tag: a    *)
(* sample (00), the trigger status (01), the trigger counter (10).  Sample *)
(* values and the lines printed are left out.                              *)
(***************************************************************************)
EXTENDS Integers

CONSTANTS CNT_MAX,     \* 2^30 of the trigger counter
          MAX_EVENT    \* bound on the words of events

ASSUME SumsAssumption == CNT_MAX \in Nat \ {0} /\ MAX_EVENT \in Nat

VARIABLES
  iBin, cbl, r,                \* mtd_iBin, mtd_cbl, the sum over r
  pulse_cnt, pulse_pnt, cdp,   \* mtd_pulse_cnt, mtd_pulse_pnt, mtd_cdp
  sent, any, lost,             \* environment: last trigger counter, whether it was
                               \*   read, and those that got lost since the first
  wrapped, zero                \* history: the trigger counter has wrapped, was read as 0

sums   == <<iBin, cbl, r>>
pulses == <<pulse_cnt, pulse_pnt, cdp, sent, any, lost, wrapped, zero>>
Sumsvars == <<sums, pulses>>

SumsInit == /\ iBin = 0 /\ cbl = 0 /\ r = 0
            /\ pulse_cnt = 0 /\ pulse_pnt = 0 /\ cdp = 0
            /\ sent = -1 /\ any = FALSE /\ lost = 0 /\ wrapped = FALSE /\ zero = FALSE

(* A word of samples: the first of an event goes into the baseline. *)
Baseline == cbl' = IF iBin + 1 = 1 THEN cbl + 1 ELSE cbl

Sample == /\ iBin < MAX_EVENT /\ iBin' = iBin + 1 /\ Baseline
          /\ UNCHANGED <<pulses, r>>

(* A trigger status ends the event. *)
TrStatus == /\ r < MAX_EVENT /\ r' = r + 1 /\ iBin' = 0
            /\ UNCHANGED <<pulses, cbl>>

\* Slip: the first counter counts as a gap from zero.
MutLostNow(c, p) == IF c - p - 1 > 0 THEN c - p - 1 ELSE 0

LostNow(c, p) == IF c - p - 1 > 0 /\ p # 0 THEN c - p - 1 ELSE 0

(* A trigger counter, the gap-th after the last one: pulses between them   *)
(* had no packet.                                                          *)
CntStatus(gap) ==
  /\ sent + gap < CNT_MAX + 2 /\ ~(wrapped /\ sent + gap >= CNT_MAX)
  /\ sent' = (sent + gap) % CNT_MAX /\ wrapped' = (wrapped \/ sent + gap >= CNT_MAX)
  /\ zero' = (zero \/ sent' = 0) /\ any' = TRUE /\ lost' = IF any THEN lost + gap - 1 ELSE 0
  /\ pulse_pnt' = pulse_cnt /\ pulse_cnt' = sent'
  /\ cdp' = cdp + LostNow(pulse_cnt', pulse_pnt')
  /\ UNCHANGED sums

SumsNext == Sample \/ TrStatus \/ \E gap \in 1 .. 3 : CntStatus(gap)

SumsSpec == SumsInit /\ [][SumsNext]_Sumsvars

----------------------------------------------------------------------------
(* mtd_cdp, the lost pulses, never counts a pulse that was not lost, and   *)
(* counts every one until the trigger counter wraps or is read as zero.    *)
LostPulses == cdp <= lost /\ (~wrapped /\ ~zero => cdp = lost)
============================================================================
