---------------------------- MODULE LagoProcess ----------------------------
(***************************************************************************)
(* main of lago_v1_3/src/lago.c as a sequence of register accesses: every  *)
(* invocation of the program allocates the DMA buffer, aims the writer at  *)
(* it, initialises the PL when the reset register reads zero, and runs one *)
(* command.  The PL registers outlive the processes.                       *)
(*                                                                         *)
(* Commands: "daq" (-f, -o), "init" (-i) and "query" (-a and the others,   *)
(* which do not touch the registers modelled here; -w, which writes a      *)
(* register of the user's choice, is not modelled).  Every                 *)
(* read-modify-write of the reset register is two steps.                   *)
(***************************************************************************)
EXTENDS Naturals, Sequences

CONSTANTS Proc,      \* processes
          Commands,  \* commands each process may be started with
          MAX_ALLOC  \* bound on the number of buffers allocated

ASSUME ProcessAssumption ==
  /\ Commands \in [Proc -> SUBSET {"daq", "init", "query"}]
  /\ MAX_ALLOC \in Nat

VARIABLES
  reg,      \* bits of CFG_RESET_GRAL: 0 trigger and pps_gen, 1 tlast_gen,
            \* 2 converter and writer, 3 ramp generators, 4 false PPS, 5 master
  ier,      \* interrupts enabled in the AXI interrupt controller
  wrAddr,   \* CFG_WR_ADDR, the buffer the writer is aimed at (0 at power-up)
  cma,      \* cma.c: the one allocated buffer, 0 if none
  allocs,   \* buffers allocated so far: each one gets a new number
  phase,    \* per process: where main is
  cmd,      \* per process: the command
  ip, val,  \* per process: place in a list of accesses, value read
  mine,     \* per process: the buffer it mapped
  clean,    \* history: the writer has been in reset since wrAddr was written
  loose,    \* history: a killed process left the writer running, and it
            \* has not been in reset since
  killed    \* history: a process has been killed

pl   == <<reg, ier, wrAddr>>
proc == <<phase, cmd, ip, val, mine>>
vars == <<pl, cma, allocs, proc, clean, loose, killed>>

SIZE == MAX_ALLOC + 1    \* no buffer: the number of bytes that was asked for

Init == /\ reg = {} /\ ier = FALSE /\ wrAddr = 0 /\ cma = 0 /\ allocs = 0
        /\ phase = [p \in Proc |-> "off"] /\ cmd = [p \in Proc |-> "query"]
        /\ ip = [p \in Proc |-> 1] /\ val = [p \in Proc |-> {}]
        /\ mine = [p \in Proc |-> 0] /\ clean = FALSE /\ loose = FALSE /\ killed = FALSE

----------------------------------------------------------------------------
(* Lists of read-modify-writes: set or clear a bit. *)
Set(b) == [op |-> "set", bit |-> b]
Clr(b) == [op |-> "clr", bit |-> b]

InitSystem == <<Clr(3), Clr(0), Clr(2), Clr(1), Set(4), Set(3), Set(5)>>

DaqStart == <<Set(1), Set(0), Set(2)>>

\* Slip: the writer is not put back into reset at the end.
MutDaqStop == <<Clr(0), Clr(1)>>

DaqStop == <<Clr(0), Clr(2), Clr(1)>>

Script(ph) == CASE ph \in {"first", "init"} -> InitSystem
                [] ph = "start" -> DaqStart
                [] ph = "stop"  -> DaqStop

After(ph) == CASE ph = "first" -> "enable"
               [] ph = "init"  -> "close"
               [] ph = "start" -> "loop"
               [] ph = "stop"  -> "close"

Apply(a, r) == IF a.op = "set" THEN r \cup {a.bit} ELSE r \ {a.bit}

Goto(p, ph) == phase' = [phase EXCEPT ![p] = ph]

----------------------------------------------------------------------------
(* The program is started. *)
Launch(p) == /\ phase[p] = "off" /\ allocs < MAX_ALLOC
             /\ \E c \in Commands[p] : cmd' = [cmd EXCEPT ![p] = c]
             /\ Goto(p, "alloc")
             /\ UNCHANGED <<pl, cma, allocs, ip, val, mine, clean, loose, killed>>

(* cma.c keeps one buffer for the whole system: the ioctl frees whatever   *)
(* is allocated, for whomever, and the release of any open file frees it.  *)
CmaIoctl(buffer) == cma' = buffer
CmaRelease == cma' = 0

(* cma_init.  When the driver finds no memory it has freed the buffer in   *)
(* use all the same; dev_size keeps the size it asked for, which main,     *)
(* that does not look at the result, takes for the address.                *)
CmaFails(p) == /\ phase[p] = "alloc"
               /\ CmaIoctl(0) /\ mine' = [mine EXCEPT ![p] = SIZE]
               /\ Goto(p, "aim")
               /\ UNCHANGED <<pl, allocs, cmd, ip, val, clean, loose, killed>>

CmaAlloc(p) == /\ phase[p] = "alloc" /\ allocs < MAX_ALLOC
               /\ allocs' = allocs + 1
               /\ CmaIoctl(allocs') /\ mine' = [mine EXCEPT ![p] = allocs']
               /\ Goto(p, "aim")
               /\ UNCHANGED <<pl, cmd, ip, val, clean, loose, killed>>

\* Slip: the writer is aimed only when the PL is not initialised yet.
MutAim(p) == /\ phase[p] = "aim"
             /\ IF reg = {} THEN wrAddr' = mine[p] /\ clean' = (2 \notin reg)
                ELSE UNCHANGED <<wrAddr, clean>>
             /\ Goto(p, "check")
             /\ UNCHANGED <<reg, ier, cma, allocs, cmd, ip, val, mine, loose, killed>>

(* wr_reg_value(1, CFG_WR_ADDR_OFFSET, dev_size, 0) *)
Aim(p) == /\ phase[p] = "aim"
          /\ wrAddr' = mine[p] /\ clean' = (2 \notin reg)
          /\ Goto(p, "check")
          /\ UNCHANGED <<reg, ier, cma, allocs, cmd, ip, val, mine, loose, killed>>

\* Slip: the test for the first access is inverted.
MutCheck(p) == /\ phase[p] = "check"
               /\ Goto(p, IF reg # {} THEN "first" ELSE "command")
               /\ UNCHANGED <<pl, cma, allocs, cmd, ip, val, mine, clean, loose, killed>>

(* First access to the PL since power-up? *)
Check(p) == /\ phase[p] = "check"
            /\ Goto(p, IF reg = {} THEN "first" ELSE "command")
            /\ UNCHANGED <<pl, cma, allocs, cmd, ip, val, mine, clean, loose, killed>>

(* dev_read of a read-modify-write. *)
RmwRead(p) == /\ phase[p] \in {"first", "init", "start", "stop"}
              /\ ip[p] % 2 = 1
              /\ val' = [val EXCEPT ![p] = reg]
              /\ ip' = [ip EXCEPT ![p] = @ + 1]
              /\ UNCHANGED <<pl, cma, allocs, phase, cmd, mine, clean, loose, killed>>

(* dev_write of a read-modify-write; after the last one main goes on. *)
RmwWrite(p) ==
  LET script == Script(phase[p])
      k == ip[p] \div 2
  IN /\ phase[p] \in {"first", "init", "start", "stop"}
     /\ ip[p] % 2 = 0
     /\ reg' = Apply(script[k], val[p])
     /\ clean' = (clean \/ 2 \notin reg') /\ loose' = (loose /\ 2 \in reg')
     /\ IF k = Len(script) THEN Goto(p, After(phase[p])) ELSE UNCHANGED phase
     /\ ip' = [ip EXCEPT ![p] = IF k = Len(script) THEN 1 ELSE @ + 1]
     /\ UNCHANGED <<ier, wrAddr, cma, allocs, cmd, val, mine, killed>>

(* enable_interrupt *)
Enable(p) == /\ phase[p] = "enable"
             /\ ier' = TRUE
             /\ Goto(p, "command")
             /\ UNCHANGED <<reg, wrAddr, cma, allocs, cmd, ip, val, mine, clean, loose, killed>>

(* The chain of ifs over the command. *)
Dispatch(p) == /\ phase[p] = "command"
               /\ Goto(p, CASE cmd[p] = "daq"   -> "start"
                            [] cmd[p] = "init"  -> "init"
                            [] cmd[p] = "query" -> "close")
               /\ UNCHANGED <<pl, cma, allocs, cmd, ip, val, mine, clean, loose, killed>>

(* SIGINT ends the acquisition loop. *)
Interrupt(p) == /\ phase[p] = "loop"
                /\ Goto(p, "stop")
                /\ UNCHANGED <<pl, cma, allocs, cmd, ip, val, mine, clean, loose, killed>>

(* The end of the process closes /dev/cma: cma_release frees the buffer.   *)
Exit(p) == /\ phase' = [phase EXCEPT ![p] = "off"]
           /\ CmaRelease
           /\ mine' = [mine EXCEPT ![p] = 0] /\ ip' = [ip EXCEPT ![p] = 1]
           /\ val' = [val EXCEPT ![p] = {}]
           /\ UNCHANGED <<pl, allocs, cmd, clean>>

Close(p) == phase[p] = "close" /\ Exit(p) /\ UNCHANGED <<loose, killed>>

(* The process is killed; the PL keeps its registers. *)
Kill(p) == /\ phase[p] \notin {"off", "alloc"} /\ Exit(p)
           /\ loose' = (loose \/ 2 \in reg) /\ killed' = TRUE

Next == \E p \in Proc :
          \/ Launch(p) \/ CmaAlloc(p) \/ CmaFails(p) \/ Aim(p) \/ Check(p)
          \/ RmwRead(p) \/ RmwWrite(p) \/ Enable(p) \/ Dispatch(p)
          \/ Interrupt(p) \/ Close(p) \/ Kill(p)

Spec == Init /\ [][Next]_vars

----------------------------------------------------------------------------
(* While the acquisition loop runs the whole pipeline is out of reset, and *)
(* if no process was killed, the interrupts that wake it are enabled.      *)
DaqRuns == \A p \in Proc : phase[p] = "loop" => {0, 1, 2} \subseteq reg /\ (killed \/ ier)

(* A running writer is aimed at memory that is still allocated, unless a   *)
(* killed process left it running, or the allocation of the one that       *)
(* aimed it has failed.  The next acquisition that ends, or -i, puts the   *)
(* writer of a killed one into reset, and from then on it holds again; the *)
(* next invocation aims that of a failed one anew.                         *)
DmaIntoLiveBuffer ==
  ~loose /\ 2 \in reg /\ wrAddr # SIZE => cma # 0 /\ wrAddr = cma

(* When the loop starts the writer counts from zero in the new buffer; the *)
(* reader's current = -2 relies on it.  Not so for the acquisition that    *)
(* finds the writer of a killed one running: nobody resets it before.      *)
DaqStartsClean == \A p \in Proc : ~loose /\ phase[p] = "loop" => clean

(* The loop reads the buffer the writer fills: no other invocation takes   *)
(* it away, and no earlier failure leaves the writer aimed elsewhere.      *)
DaqKeepsBuffer ==
  \A p \in Proc : phase[p] = "loop" /\ mine[p] # SIZE => wrAddr = mine[p] /\ cma = mine[p]
============================================================================
