---------------------------- MODULE UioInterrupt ----------------------------
(***************************************************************************)
(* wait_for_interrupt of lago_v1_3/src/lago.c and its callers: the main    *)
(* thread in the acquisition loop and, in the process that finds the PL    *)
(* uninitialised, thread_isr_not_gps, which waits on the same file.        *)
(*                                                                         *)
(* External parts, modelled as lago.c uses them: the AXI interrupt         *)
(* controller latches a PPS in its status register; the UIO driver masks   *)
(* the line and counts an event at an interrupt, poll and read return once *)
(* the count differs from the one last read through this open file.        *)
(***************************************************************************)
VARIABLES
  enabled,      \* IER and MER of the interrupt controller
  isr,          \* its status bit: a PPS that is not acknowledged
  masked,       \* UIO: the line is disabled
  event,        \* UIO: there is an event the file has not read
  pc,           \* per thread: the next call
  interrupted,  \* set by signal_handler
  fresh         \* history: position was read after the last PPS

vars == <<enabled, isr, masked, event, pc, interrupted, fresh>>

Thread == {"main", "helper"}
Wait == {"unmask", "poll", "read", "ipr", "ack", "pos"}
Call(t) == IF t = "main" THEN Wait \cup {"enable", "loop", "buffer", "done"}
           ELSE Wait \cup {"none"}

(* The first process since power-up has just created the helper and will   *)
(* enable the interrupts.  A later process has no helper; the line may be  *)
(* left disabled, and a PPS unacknowledged, by an earlier one.  position   *)
(* is zero, as is the writer's counter.                                    *)
First == /\ enabled = FALSE /\ isr = FALSE
         /\ pc = [t \in Thread |-> IF t = "main" THEN "enable" ELSE "unmask"]
Later == /\ enabled = TRUE /\ isr \in BOOLEAN
         /\ pc = [t \in Thread |-> IF t = "main" THEN "loop" ELSE "none"]

Init == /\ First \/ Later
        /\ masked \in BOOLEAN /\ event = FALSE
        /\ interrupted = FALSE
        /\ fresh = ~isr

----------------------------------------------------------------------------
(* The hardware and the kernel. *)

Pps == /\ enabled
       /\ isr' = TRUE /\ fresh' = FALSE
       /\ UNCHANGED <<enabled, masked, event, pc, interrupted>>

Irq == /\ enabled /\ isr /\ ~masked
       /\ masked' = TRUE /\ event' = TRUE
       /\ UNCHANGED <<enabled, isr, pc, interrupted, fresh>>

----------------------------------------------------------------------------
(* The threads.  The process, and with it the helper, ends with main.      *)

At(t, c) == pc[t] = c /\ pc["main"] # "done"
Goto(t, c) == pc' = [pc EXCEPT ![t] = c]

(* wait_for_interrupt returns: main goes on to read_buffer, the helper     *)
(* waits again.                                                            *)
Back(t) == IF t = "main" THEN "buffer" ELSE "unmask"

(* enable_interrupt, called after the helper has been created. *)
Enable == /\ At("main", "enable")
          /\ enabled' = TRUE
          /\ Goto("main", "loop")
          /\ UNCHANGED <<isr, masked, event, interrupted, fresh>>

\* Slip: while(1), as in the two thread functions.
MutLoop == /\ At("main", "loop")
           /\ Goto("main", "unmask")
           /\ UNCHANGED <<enabled, isr, masked, event, interrupted, fresh>>

(* while(!interrupted) *)
Loop == /\ At("main", "loop")
        /\ Goto("main", IF interrupted THEN "done" ELSE "unmask")
        /\ UNCHANGED <<enabled, isr, masked, event, interrupted, fresh>>

(* read_buffer *)
Buffer == /\ At("main", "buffer")
          /\ Goto("main", "loop")
          /\ UNCHANGED <<enabled, isr, masked, event, interrupted, fresh>>

\* Slip: zero is written, which leaves the line disabled.
MutUnmask(t) == /\ At(t, "unmask")
                /\ Goto(t, "poll")
                /\ UNCHANGED <<enabled, isr, masked, event, interrupted, fresh>>

Unmask(t) == /\ At(t, "unmask")
             /\ masked' = FALSE
             /\ Goto(t, "poll")
             /\ UNCHANGED <<enabled, isr, event, interrupted, fresh>>

\* Slip: ret >= 0 instead of ret >= 1, a timeout is taken for an event.
MutAfterPoll(t) == "read"

(* poll returns 1 on an event and 0 on a timeout. *)
AfterPoll(t) == IF event THEN "read" ELSE Back(t)

Poll(t) == /\ At(t, "poll")
           /\ Goto(t, AfterPoll(t))
           /\ UNCHANGED <<enabled, isr, masked, event, interrupted, fresh>>

(* read blocks, without a timeout, until there is an event. *)
Read(t) == /\ At(t, "read") /\ event
           /\ event' = FALSE
           /\ Goto(t, "ipr")
           /\ UNCHANGED <<enabled, isr, masked, interrupted, fresh>>

\* Slip: the position is read before the interrupt is acknowledged.
MutThen(t, c) == CASE c = "ipr" -> IF isr THEN "pos" ELSE Back(t)
                   [] c = "pos" -> "ack"
                   [] c = "ack" -> Back(t)

(* The order of the register accesses after read. *)
Then(t, c) == CASE c = "ipr" -> IF isr THEN "ack" ELSE Back(t)
                [] c = "ack" -> "pos"
                [] c = "pos" -> Back(t)

(* IPR is read, IAR written, the writer's position read. *)
Access(t) == /\ pc[t] \in {"ipr", "ack", "pos"} /\ pc["main"] # "done"
             /\ isr' = (isr /\ pc[t] # "ack")
             /\ fresh' = (fresh \/ pc[t] = "pos")
             /\ Goto(t, Then(t, pc[t]))
             /\ UNCHANGED <<enabled, masked, event, interrupted>>

(* SIGINT, once the handler is installed.  A poll of the thread that takes *)
(* the signal returns -1; a read is restarted.                             *)
Signal == /\ ~interrupted /\ pc["main"] \notin {"enable", "done"}
          /\ interrupted' = TRUE
          /\ \/ UNCHANGED pc
             \/ \E t \in Thread : pc[t] = "poll" /\ ~event /\ Goto(t, Back(t))
          /\ UNCHANGED <<enabled, isr, masked, event, fresh>>

Step(t) == Unmask(t) \/ Poll(t) \/ Access(t)

Next == \/ Pps \/ Irq \/ Signal
        \/ Enable \/ Loop \/ Buffer
        \/ \E t \in Thread : Step(t) \/ Read(t)

Spec == Init /\ [][Next]_vars

(* Threads are scheduled and enabled interrupts are taken.  A thread that  *)
(* sleeps in read is woken by every event; it is assumed not to lose the   *)
(* race against a thread that comes from poll every single time.           *)
FairSpec == /\ Spec /\ WF_vars(Irq)
            /\ WF_vars(Enable \/ Loop \/ Buffer)
            /\ \A t \in Thread : WF_vars(Step(t)) /\ SF_vars(Read(t))

----------------------------------------------------------------------------
TypeOK == /\ enabled \in BOOLEAN /\ isr \in BOOLEAN /\ masked \in BOOLEAN
          /\ event \in BOOLEAN /\ interrupted \in BOOLEAN /\ fresh \in BOOLEAN
          /\ DOMAIN pc = Thread /\ \A t \in Thread : pc[t] \in Call(t)

(* The threads there are never sleep in read all at once with nothing to   *)
(* read: then nobody would unmask the line again.  Two threads can pass    *)
(* poll on the same event, one of them reads it.                           *)
SomeoneAwake == (\A t \in Thread : pc[t] \in {"read", "none"}) => event

(* No PPS is swallowed: once it is acknowledged, position is (or is about  *)
(* to be) read after it, also when another PPS arrives between the reading *)
(* of IPR and the acknowledgement, or two threads handle one interrupt.    *)
PositionFresh == isr \/ fresh \/ \E t \in Thread : pc[t] = "pos"

(* A latched PPS is acknowledged unless the program ends first.            *)
PpsServed == isr ~> (~isr \/ pc["main"] = "done")

(* "block (timeout for poll) on the file": SIGINT ends the acquisition     *)
(* loop, whatever the PPS does, since no wait is longer than the timeout.  *)
StopsOnSignal == interrupted ~> pc["main"] = "done"

(* What is true of it: main ends if there is no helper, or if PPS keep     *)
(* coming, as they do with the false PPS of pps_gen.                       *)
StopsWithPps == (pc["helper"] = "none" \/ []<>isr) => StopsOnSignal
=============================================================================
