----------------------------- MODULE AdcServer -----------------------------
(***************************************************************************)
(* adc_test/server/adc-test-server.c: sends the ring that the RAM writer   *)
(* fills to one client after another, half a ring at a time.  The half     *)
(* that is complete is found by polling the writer's position, and is sent *)
(* from the ring itself while the writer goes on.  SIGINT is handled from  *)
(* accept to the end of a connection and has its default action elsewhere. *)
(***************************************************************************)
EXTENDS Naturals

CONSTANTS HALF,        \* beats of half the ring (32*1024)
          MAX_BEAT,    \* bound on the beats written for one client
          MAX_CLIENT   \* bound on the clients

ASSUME ServerAssumption ==
  HALF \in Nat \ {0} /\ MAX_BEAT \in Nat /\ MAX_CLIENT \in Nat

VARIABLES
  at,          \* place in main, "ended" when there is no process
  rx_rst,      \* the bits 1 (converter) and 2 (writer) of the reset register
  beats,       \* beats the writer took since it left reset
  slot,        \* the ring: per place the number of the beat in it, 0 if older
  half,        \* limit: HALF or 0
  left,        \* send: beats still to be copied
  client,      \* clients so far
  handled,     \* the handler of SIGINT is installed
  stop,        \* interrupted
  out,         \* history: beats copied to this client
  wrong,       \* history: the client got another beat than the next one
  overrun      \* history: the writer was more than a ring ahead of the copy

Servervars == <<at, rx_rst, beats, slot, half, left, client, handled, stop, out, wrong, overrun>>

Place == 0 .. 2 * HALF - 1
Fresh == [i \in Place |-> 0]

ServerInit ==
  /\ at = "stop1" /\ rx_rst \in {{}, {1, 2}} /\ beats = 0 /\ slot = Fresh
  /\ half = HALF /\ left = 0 /\ client = 0 /\ handled = FALSE /\ stop = FALSE
  /\ out = 0 /\ wrong = FALSE /\ overrun = FALSE

GotoPlace(p, q) == at = p /\ at' = q

(* The writer is reset: it starts again at place 0 of a ring of old data.  *)
Halted == beats' = 0 /\ slot' = Fresh /\ out' = 0

----------------------------------------------------------------------------
(* rx_cntr *)
position == beats % (2 * HALF)

Ready == \/ half > 0 /\ position > half
         \/ half = 0 /\ position < HALF

(* The writer takes a beat. *)
Beat ==
  /\ rx_rst = {1, 2} /\ beats < MAX_BEAT /\ beats' = beats + 1
  /\ slot' = [slot EXCEPT ![position] = beats + 1]
  /\ overrun' = (overrun \/ beats' > out + 2 * HALF)
  /\ UNCHANGED <<at, rx_rst, half, left, client, handled, stop, out, wrong>>

(* Reset mode, entered bit by bit before a client and at the end. *)
EnterReset ==
  \/ /\ \/ GotoPlace("stop1", "stop2") \/ GotoPlace("end1", "end2")
     /\ rx_rst' = rx_rst \ {1}
     /\ UNCHANGED <<beats, slot, half, left, client, handled, stop, out, wrong, overrun>>
  \/ /\ \/ GotoPlace("stop2", "accept") \/ GotoPlace("end2", "ended")
     /\ rx_rst' = rx_rst \ {2} /\ Halted
     /\ UNCHANGED <<half, left, client, handled, stop, wrong, overrun>>

(* accept returns, the handler is installed, normal operating mode. *)
Accept ==
  /\ GotoPlace("accept", "poll") /\ client < MAX_CLIENT /\ client' = client + 1
  /\ handled' = TRUE /\ rx_rst' = {1, 2} /\ half' = HALF
  /\ wrong' = FALSE /\ overrun' = FALSE
  /\ UNCHANGED <<beats, slot, left, stop, out>>

(* One turn of the loop: a half that is ready is sent, otherwise usleep. *)
PollWriter ==
  /\ at = "poll"
  /\ IF stop THEN at' = "close" /\ UNCHANGED <<half, left>>
     ELSE IF Ready THEN /\ at' = "send" /\ left' = HALF
                        /\ half' = IF half > 0 THEN 0 ELSE HALF
     ELSE UNCHANGED <<at, half, left>>
  /\ UNCHANGED <<rx_rst, beats, slot, client, handled, stop, out, wrong, overrun>>

\* Slip: the halves are sent from the other offset.
MutSource == HALF - left + (IF half > 0 THEN 0 ELSE HALF)

(* ram + offset, as far as it has been copied; limit is changed already. *)
Source == HALF - left + (IF half > 0 THEN HALF ELSE 0)

(* send copies a beat, or ends. *)
Send ==
  /\ at = "send" /\ left > 0 /\ left' = left - 1 /\ out' = out + 1
  /\ wrong' = (wrong \/ slot[Source] # out + 1)
  /\ UNCHANGED <<at, rx_rst, beats, slot, half, client, handled, stop, overrun>>

Sent ==
  /\ GotoPlace("send", "poll") /\ (left = 0 \/ stop) /\ left' = 0
  /\ UNCHANGED <<rx_rst, beats, slot, half, client, handled, stop, out, wrong, overrun>>

(* The client is gone: send returns an error. *)
SendFails ==
  /\ GotoPlace("send", "close") /\ left' = 0
  /\ UNCHANGED <<rx_rst, beats, slot, half, client, handled, stop, out, wrong, overrun>>

CloseClient ==
  /\ at = "close" /\ at' = IF stop THEN "end1" ELSE "stop1"
  /\ handled' = FALSE
  /\ UNCHANGED <<rx_rst, beats, slot, half, left, client, stop, out, wrong, overrun>>

(* SIGINT: the handler, or the default action, which ends the process with *)
(* the registers as they are.                                              *)
Sigint ==
  /\ at # "ended"
  /\ IF handled THEN stop' = TRUE /\ UNCHANGED at ELSE at' = "ended" /\ UNCHANGED stop
  /\ UNCHANGED <<rx_rst, beats, slot, half, left, client, handled, out, wrong, overrun>>

ServerNext == \/ Beat \/ EnterReset \/ Accept \/ PollWriter \/ Send \/ Sent \/ SendFails
              \/ CloseClient \/ Sigint

ServerSpec == ServerInit /\ [][ServerNext]_Servervars

----------------------------------------------------------------------------
(* As long as the writer has not been more than a ring ahead of what is    *)
(* copied, every client gets the beats from the first one on, none twice   *)
(* and none left out, although no half is ever locked and readiness is     *)
(* read off a position that wraps.                                         *)
HalvesInOrder == at \in {"poll", "send"} /\ ~overrun => ~wrong
============================================================================
