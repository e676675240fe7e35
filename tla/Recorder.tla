------------------------------ MODULE Recorder ------------------------------
(***************************************************************************)
(* The programs that record one packet of samples: adc_recorder in its     *)
(* four versions.  Each is a fixed sequence of register accesses with two  *)
(* sleeps, then the buffer is printed; nothing tells the program whether   *)
(* the packet is complete.  One program runs at a time, is killed at any   *)
(* point, and another one is started on the same gate design.              *)
(*                                                                         *)
(* Of the gate design, sample by sample: bit 1 of the reset register runs  *)
(* the FIFO and filters, bit 2 axis_packetizer, which passes one sample    *)
(* more than its register says and then none until it is reset (N is that  *)
(* number), bit 4 axis_ram_writer, whose position starts at zero and wraps *)
(* at the end of the buffer.                                               *)
(***************************************************************************)
EXTENDS Integers, Sequences, FiniteSets

CONSTANTS N,         \* samples of a packet, and words of the buffer
          MAX_RUN    \* bound on the invocations

ASSUME RecorderAssumption == N \in Nat \ {0} /\ MAX_RUN \in Nat

VARIABLES
  script,            \* rest of the running program, empty when none runs
  run,               \* invocations so far
  rst, nsamples, aim,   \* registers: reset bits, packet length, writer address
  owner,             \* invocation that holds the buffer, or None
  passed,            \* packetizer: samples passed since its reset
  packet,            \* packetizer: invocation that released it
  pos,               \* writer: position
  ram,               \* buffer: per word the invocation and number of its sample
  failed,            \* invocations that went on without a buffer
  disturbed,         \* history: this one reset the writer within a packet
  cut, stray         \* history: invocations that were killed; ... of whose
                     \* packet a sample was written outside the buffer

hw == <<rst, nsamples, aim, owner, passed, packet, pos, ram>>
Recordervars == <<script, run, hw, failed, disturbed, cut, stray>>

None == 0          \* no invocation
FIXED == MAX_RUN + 1   \* the buffer at 0x1E000000 of the old version
NoBuffer == MAX_RUN + 2 \* no buffer: the number of bytes that was asked for
Empty == [i \in 0 .. N-1 |-> <<None, 0>>]

----------------------------------------------------------------------------
(* main of src/adc_recorder.c, after cma_init *)
AdcRecorder == <<"aim", "nsamples", "clr4", "set4", "clr1", "set1", "sleep",
                 "clr2", "set2", "sleep", "print">>

(* main of adc-recorder.c, which does without the library and exits when   *)
(* it gets no buffer. *)
PlainRecorder == <<"aim", "nsamples", "clr4", "set4", "clr1", "set1", "sleep",
                   "clr2", "set2", "sleep", "print">>

(* main of adc_recorder_uio/uio_src/adc_recorder.c, after cma_init *)
\* Slip: the packetizer runs before the writer is reset.
MutUioRecorder == <<"aim", "nsamples", "clr2", "set2", "sleep", "clr4", "set4", "clr1", "set1",
                    "sleep", "print">>

UioRecorder == <<"aim", "nsamples", "clr4", "set4", "clr1", "set1", "sleep",
                 "clr2", "set2", "sleep", "print">>

(* main of adc_recorder_old, on memory set aside at boot. *)
OldRecorder == <<"clr4", "set4", "clr1", "set1", "sleep", "clr2", "nsamples", "set2", "sleep", "print">>

RecorderInit ==
  /\ script = <<>> /\ run = 0 /\ rst = {} /\ nsamples = 0 /\ passed = 0 /\ packet = None
  /\ aim \in {None, FIXED} /\ owner = aim /\ pos = 0 /\ ram = Empty
  /\ failed = {} /\ disturbed = FALSE /\ cut = {} /\ stray = {}

Run(p) == /\ script = <<>> /\ run < MAX_RUN /\ script' = p /\ run' = run + 1
          /\ disturbed' = FALSE
          /\ UNCHANGED <<rst, nsamples, aim, passed, packet, pos, cut, stray>>

RunOld == owner = FIXED /\ Run(OldRecorder) /\ UNCHANGED <<owner, ram, failed>>

Step(op) == script # <<>> /\ Head(script) = op /\ script' = Tail(script)

----------------------------------------------------------------------------
Unfinished == 2 \in rst /\ passed < nsamples
Flowing == 1 \in rst /\ Unfinished

(* A program starts with the allocation (cma_init): the driver replaces    *)
(* the buffer, cleared.                                                    *)
AllocBuffer ==
  /\ owner # FIXED /\ \E p \in {AdcRecorder, PlainRecorder, UioRecorder} : Run(p)
  /\ owner' = run + 1 /\ ram' = Empty /\ UNCHANGED failed

(* ... or has none.  Two of the programs do not look at the result; the    *)
(* third one exits.                                                        *)
AllocFails ==
  /\ owner # FIXED /\ owner' = None /\ UNCHANGED ram
  /\ \/ Run(AdcRecorder) /\ failed' = failed \cup {run + 1}
     \/ Run(UioRecorder) /\ failed' = failed \cup {run + 1}
     \/ Run(<<>>) /\ UNCHANGED failed

(* The address is in the variable that held the size. *)
AimWriter == /\ Step("aim") /\ aim' = IF run \in failed THEN NoBuffer ELSE run
             /\ UNCHANGED <<run, rst, nsamples, owner, passed, packet, pos, ram, failed, disturbed, cut, stray>>

SetSamples == /\ Step("nsamples") /\ nsamples' = N
              /\ UNCHANGED <<run, rst, aim, owner, passed, packet, pos, ram, failed, disturbed, cut, stray>>

(* rd_reg_value and wr_reg_value of the reset register. *)
ClearBit(b) ==
  /\ Step(<<"clr1", "clr2", "clr3", "clr4">>[b]) /\ rst' = rst \ {b}
  /\ passed' = IF b = 2 THEN 0 ELSE passed
  /\ pos' = IF b = 4 THEN 0 ELSE pos
  /\ disturbed' = (disturbed \/ (b = 4 /\ Unfinished))
  /\ UNCHANGED <<run, nsamples, aim, owner, packet, ram, failed, cut, stray>>

SetBit(b) ==
  /\ Step(<<"set1", "set2", "set3", "set4">>[b]) /\ rst' = rst \cup {b}
  /\ packet' = IF b = 2 THEN run ELSE packet
  /\ UNCHANGED <<run, nsamples, aim, owner, passed, pos, ram, failed, disturbed, cut, stray>>

(* sleep(1): a packet takes about half of the second. *)
Sleep == /\ Step("sleep") /\ ~Flowing
         /\ UNCHANGED <<run, hw, failed, disturbed, cut, stray>>

(* The samples are printed (without a buffer the program crashes on them); *)
(* the end of the process frees its buffer.                                *)
PrintSamples == /\ Step("print") /\ owner' = IF owner = FIXED THEN FIXED ELSE None
                /\ UNCHANGED <<run, rst, nsamples, aim, passed, packet, pos, ram, failed, disturbed, cut, stray>>

KillRecorder == /\ script # <<>> /\ script' = <<>> /\ cut' = cut \cup {run}
                /\ owner' = IF owner = FIXED THEN FIXED ELSE None
                /\ UNCHANGED <<run, rst, nsamples, aim, passed, packet, pos, ram, failed, disturbed, stray>>

(* One sample through axis_packetizer and axis_ram_writer. *)
Flow ==
  /\ Flowing /\ passed' = passed + 1
  /\ pos' = IF 4 \in rst THEN (pos + 1) % N ELSE pos
  /\ ram' = IF 4 \in rst /\ aim = owner THEN [ram EXCEPT ![pos] = <<packet, passed>>] ELSE ram
  /\ stray' = IF 4 \in rst /\ aim # owner THEN stray \cup {packet} ELSE stray
  /\ UNCHANGED <<script, run, rst, nsamples, aim, owner, packet, failed, disturbed, cut>>

RecorderNext ==
  \/ RunOld \/ AllocBuffer \/ AllocFails \/ AimWriter \/ SetSamples \/ Sleep \/ PrintSamples \/ KillRecorder \/ Flow
  \/ \E b \in {1, 2, 4} : ClearBit(b) \/ SetBit(b)

RecorderSpec == RecorderInit /\ [][RecorderNext]_Recordervars

----------------------------------------------------------------------------
(* What a program that has a buffer prints is a packet of this invocation  *)
(* from its first sample, unless it reset the writer within the packet of  *)
(* a killed one; and samples written outside the buffer belong to packets  *)
(* of invocations that were killed or that went on without a buffer, never *)
(* to one of another invocation, before or after those.                    *)
RecordSound ==
  /\ script = <<"print">> /\ ~disturbed /\ run \notin failed => ram = [i \in 0 .. N-1 |-> <<run, i>>]
  /\ disturbed => cut # {}
  /\ stray \subseteq cut \cup failed
============================================================================
