------------------------------- MODULE Devcfg -------------------------------
(***************************************************************************)
(* patches/xilinx_devcfg.c, the driver that programs the PL: open, write,  *)
(* read and release of /dev/xdevcfg by several threads, its interrupt      *)
(* handler, and the sysfs attributes.  A step is one access to a register  *)
(* or to driver state that another thread can see.  The bytes of a         *)
(* transfer are the subject of DevcfgStream, the resources of probe and    *)
(* the FPGA clocks of DevcfgLife.  Left out: the reference clock, which    *)
(* every entry enables first (release does not), and PCFG_DONE, which only *)
(* prog_done shows.                                                        *)
(***************************************************************************)
EXTENDS Naturals, Sequences

CONSTANTS User,      \* threads that use the device file
          Setter,    \* threads that write sysfs attributes
          Attr,      \* attributes they write
          DapValue,  \* values they store in enable_dap, as sets of bits
          EP107,     \* the emulation platform
          MAX_XFER,  \* bound on the transfers started
          MAX_SET    \* bound on the attribute stores

VARIABLES
  ctrl, lockReg,   \* XDCFG_CTRL and XDCFG_LOCK: sets of bits
  init,            \* PCFG_INIT of XDCFG_STATUS
  sts, unmasked,   \* XDCFG_INT_STS; D_P_DONE and errors unmasked
  dma,             \* commands queued in the DMA engine
  isolated,        \* SLCR: PL outputs in reset, level shifters off
  isOpen, partial, dmaDone, errorStatus,   \* drvdata
  sem,             \* holder of drvdata->sem
  pc, val,         \* per thread: next step, register value read
  attr,            \* per setter: the attribute
  ip, xfer,        \* per user: place in the set-up, transfer number
  live,            \* transfers whose buffer is allocated
  files,           \* open files
  \* history
  xfers, sets,     \* transfers and attribute stores started
  completed,       \* transfers the engine has finished
  last, all,       \* per attribute: the value stored last; bits stored so far
  stale,           \* a register was written from an outdated value
  toggled,         \* is_partial_bitstream changed while the device was open
  timedOut, early  \* a transfer timed out; one was reported too early

regs == <<lockReg, init, sts, unmasked, dma, isolated>>
drv  == <<isOpen, partial, dmaDone, errorStatus, sem>>
use  == <<ip, xfer, live, files>>
log  == <<xfers, sets, completed, last, all, toggled, timedOut, early>>
Devcfgvars == <<ctrl, regs, drv, pc, val, attr, use, stale, log>>

None == "none"
Errors == {"e1", "e2"}    \* XDCFG_IXR_ERROR_FLAGS_MASK, two of its bits

----------------------------------------------------------------------------
(* The attributes: register, bits set for 1, bits cleared for 0, bits shown. *)
Attribute(reg, set, clear, show) ==
  [reg |-> reg, set |-> set, clear |-> clear, show |-> show]
NoAttribute == Attribute("none", {}, {}, {})
Bit(reg, b) == Attribute(reg, {b}, {b}, {b})

DapBits == {"DAP_EN0", "DAP_EN1", "DAP_EN2"}   \* XDCFG_CTRL_DAP_EN_MASK

enable_dap           == Attribute("ctrl", DapBits, {}, DapBits)
enable_dbg_in        == Bit("ctrl", "DBGEN")
enable_dbg_nonin     == Bit("ctrl", "NIDEN")
enable_sec_dbg_in    == Bit("ctrl", "SPIDEN")
enable_sec_dbg_nonin == Bit("ctrl", "SPNIDEN")
enable_seu           == Bit("ctrl", "SEU_EN")
enable_aes           == Attribute("ctrl", {"AES_EN", "RATE_EN"}, {"AES_EN", "RATE_EN"}, {"AES_EN"})
aes_en_lock          == Bit("lock", "AES_EN")
seu_lock             == Bit("lock", "SEU")
dbg_lock             == Bit("lock", "DBG")

AllAttributes == {enable_dap, enable_dbg_in, enable_dbg_nonin, enable_sec_dbg_in,
                  enable_sec_dbg_nonin, enable_seu, enable_aes,
                  aes_en_lock, seu_lock, dbg_lock}

(* What may be stored, as the bits it stands for: a number below 8 in      *)
(* enable_dap, 0 or 1 in the others.                                       *)
Values(a) == IF a = enable_dap THEN DapValue ELSE {{}, a.set}

ASSUME DevcfgAssumption == /\ Attr \subseteq AllAttributes /\ EP107 \in BOOLEAN
                           /\ DapValue \subseteq SUBSET DapBits
                           /\ MAX_XFER \in Nat /\ MAX_SET \in Nat
                           /\ User \cap Setter = {} /\ None \notin User

DevcfgInit ==
  /\ ctrl = {"PROG_B"} /\ lockReg = {} /\ init = TRUE
  /\ sts = {} /\ unmasked = FALSE /\ dma = <<>> /\ isolated = FALSE
  /\ isOpen = FALSE /\ partial = FALSE /\ dmaDone = FALSE /\ errorStatus = FALSE
  /\ sem = None
  /\ pc = [t \in User \cup Setter |-> "idle"]
  /\ val = [t \in User \cup Setter |-> {}]
  /\ attr = [s \in Setter |-> NoAttribute]
  /\ ip = [u \in User |-> 0] /\ xfer = [u \in User |-> 0]
  /\ live = {} /\ files = 0 /\ xfers = 0 /\ sets = 0 /\ completed = {}
  /\ last = [a \in Attr |-> {}] /\ all = [a \in Attr |-> {}]
  /\ stale = FALSE /\ toggled = FALSE /\ timedOut = FALSE /\ early = FALSE

----------------------------------------------------------------------------
Goto(t, where) == pc' = [pc EXCEPT ![t] = where]

(* Bits of CTRL that the lock register protects: the hardware ignores      *)
(* writes to them, and lock bits can only be set.                          *)
Protected(l) == (IF "DBG" \in l THEN DapBits \cup {"DBGEN", "NIDEN", "SPNIDEN"} ELSE {})
           \cup (IF "SEU" \in l THEN {"SEU_EN"} ELSE {})
           \cup (IF "AES_EN" \in l THEN {"AES_EN"} ELSE {})

(* A read-modify-write of XDCFG_CTRL is a load and, later, a store of a    *)
(* value computed from val[t].                                             *)
LoadCtrl(t) == val' = [val EXCEPT ![t] = ctrl]

StoreCtrl(t, v) ==
  /\ ctrl' = (v \ Protected(lockReg)) \cup (ctrl \cap Protected(lockReg))
  /\ stale' = (stale \/ val[t] # ctrl)
  /\ val' = [val EXCEPT ![t] = {}]

CtrlStep(u, from, to, v) ==
  /\ pc[u] = from /\ StoreCtrl(u, v) /\ Goto(u, to)
  /\ UNCHANGED <<regs, drv, attr, use, log>>

Transferring(u) == pc[u] \in {"writing", "reading", "polling", "finish"}
Releasing(u) == pc[u] \in {"partialOff", "closing"}

Unlock(u) == sem' = None /\ Goto(u, "idle")

(* xdevcfg_open: mutex_lock_interruptible. *)
OpenBegin(u) ==
  /\ pc[u] = "idle" /\ sem = None
  /\ sem' = u /\ Goto(u, "openBusy")
  /\ UNCHANGED <<ctrl, regs, isOpen, partial, dmaDone, errorStatus, val, attr, use, stale, log>>

\* Slip: returns EBUSY with the mutex held.
MutOpenBusy(u) ==
  /\ pc[u] = "openBusy"
  /\ Goto(u, IF isOpen THEN "idle" ELSE "openMode") /\ isOpen' = TRUE
  /\ UNCHANGED <<ctrl, regs, partial, dmaDone, errorStatus, sem, val, attr, use, stale, log>>

(* -EBUSY, or the device is taken. *)
OpenBusy(u) ==
  /\ pc[u] = "openBusy" /\ isOpen' = TRUE
  /\ IF isOpen THEN Unlock(u) ELSE Goto(u, "openMode") /\ UNCHANGED sem
  /\ UNCHANGED <<ctrl, regs, partial, dmaDone, errorStatus, val, attr, use, stale, log>>

(* xdevcfg_enable_partial, or zynq_slcr_init_preload_fpga. *)
OpenMode(u) ==
  /\ pc[u] = "openMode"
  /\ IF partial THEN LoadCtrl(u) /\ Goto(u, "openPartial") /\ UNCHANGED isolated
     ELSE isolated' = TRUE /\ Goto(u, "openReset") /\ UNCHANGED val
  /\ UNCHANGED <<ctrl, lockReg, init, sts, unmasked, dma, drv, attr, use, stale, log>>

OpenPartial(u) == CtrlStep(u, "openPartial", "openReset", val[u] \cup {"PCAP_PR"})

(* The second look at is_partial_bitstream; xdevcfg_reset_pl begins. *)
OpenReset(u) ==
  /\ pc[u] = "openReset"
  /\ IF ~EP107 /\ ~partial THEN LoadCtrl(u) /\ Goto(u, "progLow")
     ELSE Goto(u, "openEnd") /\ UNCHANGED val
  /\ UNCHANGED <<ctrl, regs, drv, attr, use, stale, log>>

ProgLow(u) == CtrlStep(u, "progLow", "initLow", val[u] \ {"PROG_B"})

(* The polling loops of the reset; a sleep follows the first. *)
InitLow(u) ==
  /\ pc[u] = "initLow" /\ ~init /\ Goto(u, "progRead")
  /\ UNCHANGED <<ctrl, regs, drv, val, attr, use, stale, log>>

ProgRead(u) ==
  /\ pc[u] = "progRead" /\ LoadCtrl(u) /\ Goto(u, "progHigh")
  /\ UNCHANGED <<ctrl, regs, drv, attr, use, stale, log>>

ProgHigh(u) == CtrlStep(u, "progHigh", "initHigh", val[u] \cup {"PROG_B"})

InitHigh(u) ==
  /\ pc[u] = "initHigh" /\ init /\ Goto(u, "openEnd")
  /\ UNCHANGED <<ctrl, regs, drv, val, attr, use, stale, log>>

OpenEnd(u) ==
  /\ pc[u] = "openEnd" /\ files' = files + 1 /\ Unlock(u)
  /\ UNCHANGED <<ctrl, regs, isOpen, partial, dmaDone, errorStatus, val, attr, ip, xfer, live,
                 stale, log>>

----------------------------------------------------------------------------
(* Order in which xdevcfg_write and xdevcfg_read prepare a transfer: clear *)
(* INT_STS, unmask, reset dma_done and error_status, write the lengths.    *)
\* Slip: the flags are not reset.
MutWriteSetup == <<"clear", "unmask", "start">>

WriteSetup == <<"clear", "unmask", "flags", "start">>
ReadSetup  == <<"flags", "clear", "unmask", "start">>
Setup(u)   == IF pc[u] = "writing" THEN WriteSetup ELSE ReadSetup

(* Mutex and DMA buffer of a write or a read.  When either cannot be had,  *)
(* or the user's data cannot be copied, nothing has changed on return.     *)
(* A file that is being released is in nobody's hands any more.            *)
TransferBegin(u) ==
  /\ pc[u] = "idle" /\ files > 0 /\ sem = None /\ xfers < MAX_XFER
  /\ \A v \in User : ~Releasing(v)
  /\ sem' = u /\ \E k \in {"writing", "reading"} : Goto(u, k)
  /\ xfers' = xfers + 1 /\ live' = live \cup {xfers'}
  /\ xfer' = [xfer EXCEPT ![u] = xfers'] /\ ip' = [ip EXCEPT ![u] = 1]
  /\ UNCHANGED <<ctrl, regs, isOpen, partial, dmaDone, errorStatus, val, attr, files,
                 stale, sets, completed, last, all, toggled, timedOut, early>>

TransferSetup(u) ==
  /\ pc[u] \in {"writing", "reading"}
  /\ LET step == Setup(u)[ip[u]]
     IN /\ sts' = IF step = "clear" THEN {} ELSE sts
        /\ unmasked' = (unmasked \/ step = "unmask")
        /\ dmaDone' = (dmaDone /\ step # "flags")
        /\ errorStatus' = (errorStatus /\ step # "flags")
        /\ dma' = IF step = "start" THEN Append(dma, xfer[u]) ELSE dma
  /\ IF ip[u] = Len(Setup(u)) THEN Goto(u, "polling") /\ UNCHANGED ip
     ELSE ip' = [ip EXCEPT ![u] = @ + 1] /\ UNCHANGED pc
  /\ UNCHANGED <<ctrl, lockReg, init, isolated, isOpen, partial, sem, val, attr, xfer, live,
                 files, stale, log>>

\* Slip: one look at dma_done instead of a loop.
MutPollDone(u) ==
  /\ pc[u] = "polling" /\ Goto(u, "finish")
  /\ UNCHANGED <<ctrl, regs, drv, val, attr, use, stale, log>>

PollDone(u) ==
  /\ pc[u] = "polling" /\ dmaDone /\ Goto(u, "finish")
  /\ UNCHANGED <<ctrl, regs, drv, val, attr, use, stale, log>>

(* dma_free_coherent and mutex_unlock. *)
TransferEnd(u) == /\ live' = live \ {xfer[u]} /\ xfer' = [xfer EXCEPT ![u] = 0]
                  /\ ip' = [ip EXCEPT ![u] = 0] /\ Unlock(u)

(* One second has passed: -ETIMEDOUT, the interrupts stay unmasked. *)
PollTimeout(u) ==
  /\ pc[u] = "polling" /\ ~dmaDone
  /\ TransferEnd(u) /\ timedOut' = TRUE
  /\ UNCHANGED <<ctrl, regs, isOpen, partial, dmaDone, errorStatus, val, attr, files,
                 stale, xfers, sets, completed, last, all, toggled, early>>

(* Result, masking of the interrupts. *)
Finish(u) ==
  /\ pc[u] = "finish" /\ unmasked' = FALSE
  /\ early' = (early \/ (~errorStatus /\ xfer[u] \notin completed))
  /\ TransferEnd(u)
  /\ UNCHANGED <<ctrl, lockReg, init, sts, dma, isolated, isOpen, partial, dmaDone,
                 errorStatus, val, attr, files, stale, xfers, sets, completed, last, all,
                 toggled, timedOut>>

----------------------------------------------------------------------------
(* xdevcfg_release, called when the last user is done with the file. *)
Release(u) ==
  /\ pc[u] = "idle" /\ files > 0
  /\ \A v \in User : ~Transferring(v) /\ ~Releasing(v)
  /\ IF partial THEN LoadCtrl(u) /\ Goto(u, "partialOff") /\ UNCHANGED isolated
     ELSE isolated' = FALSE /\ Goto(u, "closing") /\ UNCHANGED val
  /\ UNCHANGED <<ctrl, lockReg, init, sts, unmasked, dma, drv, attr, use, stale, log>>

\* Slip: PCAP_PR is set once more instead of cleared.
MutPartialOff(u) == CtrlStep(u, "partialOff", "closing", val[u] \cup {"PCAP_PR"})

(* xdevcfg_disable_partial *)
PartialOff(u) == CtrlStep(u, "partialOff", "closing", val[u] \ {"PCAP_PR"})

Closing(u) ==
  /\ pc[u] = "closing" /\ isOpen' = FALSE /\ files' = files - 1 /\ Goto(u, "idle")
  /\ UNCHANGED <<ctrl, regs, partial, dmaDone, errorStatus, sem, val, attr, ip, xfer, live,
                 stale, log>>

----------------------------------------------------------------------------
(* An attribute store reads its register before it takes the spinlock.     *)
SetRead(s) ==
  /\ pc[s] = "idle" /\ sets < MAX_SET /\ sets' = sets + 1 /\ Goto(s, "storing")
  /\ \E a \in Attr :
       /\ attr' = [attr EXCEPT ![s] = a]
       /\ val' = [val EXCEPT ![s] = IF a.reg = "ctrl" THEN ctrl ELSE lockReg]
  /\ UNCHANGED <<ctrl, regs, drv, use, stale, xfers, completed, last, all, toggled, timedOut, early>>

\* Slip: the other bits of the register are not kept.
MutStored(a, v, x) == IF x = {} THEN v \ a.clear ELSE x

Stored(a, v, x) == IF x = {} THEN v \ a.clear ELSE v \cup x

(* History: the visible bits y were stored in attribute a. *)
Record(a, y) == last' = [last EXCEPT ![a] = y] /\ all' = [all EXCEPT ![a] = @ \cup y]

(* A store in bits that are locked is ignored by the hardware. *)
SetWrite(s, x) ==
  LET a == attr[s]
  IN /\ pc[s] = "storing"
     /\ \/ /\ a.reg = "ctrl" /\ StoreCtrl(s, Stored(a, val[s], x)) /\ UNCHANGED lockReg
           /\ IF a.show \subseteq Protected(lockReg) THEN UNCHANGED <<last, all>>
              ELSE Record(a, x \cap a.show)
        \/ /\ a.reg = "lock" /\ lockReg' = lockReg \cup Stored(a, val[s], x)
           /\ Record(a, x \cap a.show)
           /\ val' = [val EXCEPT ![s] = {}] /\ UNCHANGED <<ctrl, stale>>
     /\ attr' = [attr EXCEPT ![s] = NoAttribute] /\ Goto(s, "idle")
     /\ UNCHANGED <<init, sts, unmasked, dma, isolated, drv, use, xfers, sets, completed,
                    toggled, timedOut, early>>

(* A value that is not 0 or 1 (for DAP_EN, above 7) ends it there. *)
SetInvalid(s) ==
  /\ pc[s] = "storing" /\ Goto(s, "idle")
  /\ attr' = [attr EXCEPT ![s] = NoAttribute] /\ val' = [val EXCEPT ![s] = {}]
  /\ UNCHANGED <<ctrl, regs, drv, use, stale, log>>

(* xdevcfg_set_is_partial_bitstream *)
SetPartial(s, on) ==
  /\ pc[s] = "idle" /\ sets < MAX_SET /\ sets' = sets + 1
  /\ partial' = on /\ toggled' = (toggled \/ (isOpen /\ on # partial))
  /\ UNCHANGED <<ctrl, regs, isOpen, dmaDone, errorStatus, sem, pc, val, attr, use, stale,
                 xfers, completed, last, all, timedOut, early>>

----------------------------------------------------------------------------
(* PCFG_INIT follows PCFG_PROG_B. *)
InitFollows ==
  /\ init # ("PROG_B" \in ctrl) /\ init' = ("PROG_B" \in ctrl)
  /\ UNCHANGED <<ctrl, lockReg, sts, unmasked, dma, isolated, drv, pc, val, attr, use,
                 stale, log>>

(* The engine finishes the oldest command, possibly with errors. *)
DmaDone(errs) ==
  /\ dma # <<>> /\ dma' = Tail(dma) /\ completed' = completed \cup {Head(dma)}
  /\ sts' = sts \cup {"D_P_DONE"} \cup errs
  /\ UNCHANGED <<ctrl, lockReg, init, unmasked, isolated, drv, pc, val, attr, use, stale,
                 xfers, sets, last, all, toggled, timedOut, early>>

(* xdevcfg_irq: an error counts only when all error flags are set. *)
Irq ==
  /\ unmasked /\ sts # {} /\ sts' = {}
  /\ dmaDone' = (dmaDone \/ "D_P_DONE" \in sts)
  /\ errorStatus' = (errorStatus \/ Errors \subseteq sts)
  /\ UNCHANGED <<ctrl, lockReg, init, unmasked, dma, isolated, isOpen, partial, sem, pc, val,
                 attr, use, stale, log>>

----------------------------------------------------------------------------
UserStep(u) ==
  \/ OpenBusy(u) \/ OpenMode(u) \/ OpenPartial(u) \/ OpenReset(u) \/ ProgLow(u)
  \/ InitLow(u) \/ ProgRead(u) \/ ProgHigh(u) \/ InitHigh(u) \/ OpenEnd(u)
  \/ TransferSetup(u) \/ PollDone(u) \/ PollTimeout(u) \/ Finish(u)
  \/ PartialOff(u) \/ Closing(u)

DevcfgNext ==
  \/ \E u \in User : OpenBegin(u) \/ TransferBegin(u) \/ Release(u) \/ UserStep(u)
  \/ \E s \in Setter : \/ SetRead(s) \/ SetInvalid(s)
                       \/ \E x \in Values(attr[s]) : SetWrite(s, x)
                       \/ \E on \in BOOLEAN : SetPartial(s, on)
  \/ InitFollows \/ Irq \/ \E errs \in SUBSET Errors : DmaDone(errs)

DevcfgSpec == DevcfgInit /\ [][DevcfgNext]_Devcfgvars

(* A thread inside the driver keeps running (its polling loops end by the  *)
(* clock or by the hardware), and INIT does follow PROG_B.                 *)
DevcfgFairSpec == DevcfgSpec /\ WF_Devcfgvars(InitFollows)
                             /\ \A u \in User : WF_Devcfgvars(UserStep(u))

----------------------------------------------------------------------------
(* With the device closed, the PL is connected again and PCAP_PR is clear, *)
(* unless the kind of bitstream was changed while it was open or a store   *)
(* of an outdated value hit CTRL.                                          *)
ModeRestored == ~isOpen /\ ~toggled /\ ~stale => ~isolated /\ "PCAP_PR" \notin ctrl

(* The DMA engine works on allocated buffers as long as nothing timed out: *)
(* every other way out of write and read is behind its completion.         *)
DmaFromLiveBuffer == ~timedOut => \A i \in 1..Len(dma) : dma[i] \in live

(* A transfer is reported as done only when the engine has finished it;    *)
(* after a timeout the late completion of one can end the next.            *)
ReportedWhenDone == ~timedOut => ~early

(* Attributes whose bits nothing clears: lock bits, by the hardware, and   *)
(* the bits of enable_dap, which xdevcfg_set_dap_en only adds to.          *)
Sticky(a) == a = enable_dap \/ a.reg = "lock"

(* As long as no register is written from an outdated value, an attribute  *)
(* shows the value stored last, across opens, resets, locks and stores to  *)
(* other attributes; enable_dap and the locks show every bit that was ever *)
(* stored.  (So 1 and then 2 in enable_dap shows 3, and 0 changes nothing, *)
(* although the comment of xdevcfg_set_dap_en has "with the given value".) *)
ShowsWhatWasSet ==
  ~stale => \A a \in Attr : (IF a.reg = "ctrl" THEN ctrl ELSE lockReg) \cap a.show
                              = IF Sticky(a) THEN all[a] ELSE last[a]

(* The mutex does not stay taken, unless a store of an outdated PROG_B has *)
(* disturbed the reset of the PL, whose polling loops have no timeout.     *)
MutexReleased == []<>(sem = None \/ stale)
============================================================================
