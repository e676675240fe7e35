---------------------------- MODULE DevcfgProofs ----------------------------
(***************************************************************************)
(* Proofs about patches/xilinx_devcfg.c: the device file and its registers *)
(* under any number of threads, the resources of probe and the clocks, and *)
(* the bytes that reach the PCAP.                                          *)
(***************************************************************************)
EXTENDS Integers, Devcfg, DevcfgLife, DevcfgStream, TLAPS

Opening  == {"openMode", "openPartial", "openReset", "progLow", "initLow", "progRead",
             "progHigh", "initHigh", "openEnd"}
Transfer == {"writing", "reading", "polling", "finish"}
Leaving == {"partialOff", "closing"}
Locked   == {"openBusy"} \cup Opening \cup Transfer

(* The bits of CTRL and LOCK that the driver touches. *)
Bits == {"PROG_B", "PCAP_PR", "DAP_EN0", "DAP_EN1", "DAP_EN2", "DBGEN", "NIDEN", "SPIDEN",
         "SPNIDEN", "SEU_EN", "AES_EN", "RATE_EN", "SEU", "DBG"}

DevcfgType ==
  /\ pc \in [User \cup Setter -> {"idle", "storing"} \cup Locked \cup Leaving]
  /\ val \in [User \cup Setter -> SUBSET Bits]
  /\ attr \in [Setter -> Attr \cup {NoAttribute}]
  /\ last \in [Attr -> SUBSET Bits] /\ all \in [Attr -> SUBSET Bits]
  /\ ip \in [User -> 0..4] /\ xfer \in [User -> Nat] /\ xfers \in Nat
  /\ files \in {0, 1} /\ isOpen \in BOOLEAN /\ partial \in BOOLEAN /\ isolated \in BOOLEAN
  /\ ctrl \in SUBSET Bits /\ lockReg \in SUBSET Bits

(* The mutex, and the one file that can be open. *)
OneHolder ==
  /\ \A u \in User : pc[u] \in Locked <=> sem = u
  /\ files = 1 => isOpen
  /\ \A u \in User : pc[u] \in Opening => isOpen /\ files = 0
  /\ \A u \in User : pc[u] \in Leaving => files = 1
  /\ \A u, v \in User : pc[u] \in Leaving /\ pc[v] \in Leaving => u = v

(* One transfer at a time, from the clearing of INT_STS to the interrupt. *)
OneTransfer ==
  /\ dma # <<>> => /\ sts = {} /\ ~dmaDone
                   /\ \E u \in User : pc[u] = "polling" /\ dma = <<xfer[u]>>
  /\ sts # {} => /\ dma = <<>> /\ ~dmaDone
                 /\ \E u \in User : pc[u] = "polling" /\ xfer[u] \in completed
  /\ \A u \in User : /\ pc[u] \in Transfer => xfer[u] \in live
                     /\ pc[u] = "finish" \/ (pc[u] = "polling" /\ dmaDone) => xfer[u] \in completed
                     /\ pc[u] \in {"writing", "reading"} => ip[u] # 0
                     /\ pc[u] = "writing" /\ ip[u] = 4 => ~dmaDone
                     /\ pc[u] = "reading" /\ ip[u] > 1 => ~dmaDone
  /\ ~early

TransferInv == DevcfgType /\ OneHolder /\ (timedOut \/ OneTransfer)

(* What a store will write: an attribute of Attr, and of the lock register *)
(* only bits that are set in it already.                                   *)
StoresPending ==
  \A s \in Setter : pc[s] = "storing" => /\ attr[s] \in Attr
                                         /\ attr[s].reg = "lock" => val[s] \subseteq lockReg

(* What an attribute is to show. *)
Expected(a) == IF Sticky(a) THEN all[a] ELSE last[a]

StoreInv == DevcfgType /\ OneHolder /\ StoresPending /\ ShowsWhatWasSet

(* Isolation and PCAP_PR belong to an open device of the right kind. *)
ModeHeld ==
  /\ isolated => isOpen /\ ~partial /\ \A u \in User : pc[u] # "closing"
  /\ "PCAP_PR" \in ctrl => isOpen /\ partial /\ \A u \in User : pc[u] # "closing"
  /\ \A u \in User : pc[u] \in {"openPartial", "partialOff"} => partial

ModeInv == DevcfgType /\ OneHolder /\ (toggled \/ stale \/ ModeHeld)
(* The bits of CTRL that open, write and release use. *)
LEMMA PcapBits == "PROG_B" \in Bits /\ "PCAP_PR" \in Bits
BY DEF Bits

(* A transfer is set up in four register writes. *)
LEMMA SetupLength == ASSUME NEW u PROVE Len(Setup(u)) = 4
BY DEF Setup, WriteSetup, ReadSetup

(* The types, action by action. *)
LEMMA UserType ==
  ASSUME NEW u \in User, DevcfgType, OneHolder,
         OpenBegin(u) \/ TransferBegin(u) \/ Release(u) \/ UserStep(u)
  PROVE  DevcfgType'
<1> USE DEF Goto, regs, drv, use, log, Opening, Transfer, Leaving, Locked
<1>1. CASE OpenBegin(u)
  BY <1>1 DEF OpenBegin, DevcfgType
<1>2. CASE TransferBegin(u)
  BY <1>2 DEF TransferBegin, DevcfgType
<1>3. CASE Release(u)
  BY <1>3 DEF Release, LoadCtrl, DevcfgType
<1>4. CASE OpenBusy(u)
  BY <1>4 DEF OpenBusy, Unlock, DevcfgType
<1>5. CASE OpenMode(u)
  BY <1>5 DEF OpenMode, LoadCtrl, DevcfgType
<1>6. CASE OpenPartial(u)
  BY <1>6, PcapBits DEF OpenPartial, CtrlStep, StoreCtrl, DevcfgType
<1>7. CASE OpenReset(u)
  BY <1>7 DEF OpenReset, LoadCtrl, DevcfgType
<1>8. CASE ProgLow(u)
  BY <1>8 DEF ProgLow, CtrlStep, StoreCtrl, DevcfgType
<1>9. CASE InitLow(u)
  BY <1>9 DEF InitLow, DevcfgType
<1>10. CASE ProgRead(u)
  BY <1>10 DEF ProgRead, LoadCtrl, DevcfgType
<1>11. CASE ProgHigh(u)
  BY <1>11, PcapBits DEF ProgHigh, CtrlStep, StoreCtrl, DevcfgType
<1>12. CASE InitHigh(u)
  BY <1>12 DEF InitHigh, DevcfgType
<1>13. CASE OpenEnd(u)
  <2>1. pc[u] \in Opening
    BY <1>13 DEF OpenEnd
  <2>2. files = 0
    BY <2>1, Zenon DEF OneHolder
  <2>3. files = 0 /\ files' = 1 /\ isOpen' = isOpen
    BY <1>13, <2>2 DEF OpenEnd, Unlock
  <2>4. UNCHANGED <<val, attr, last, all, ip, xfer, xfers, partial, isolated, ctrl, lockReg>>
        /\ pc' = [pc EXCEPT ![u] = "idle"]
    BY <1>13 DEF OpenEnd, Unlock
  <2> QED BY <2>3, <2>4 DEF DevcfgType
<1>14. CASE TransferSetup(u)
  <2>1. ip' = ip \/ (ip[u] # 4 /\ ip' = [ip EXCEPT ![u] = ip[u] + 1])
    BY <1>14, SetupLength, Zenon DEF TransferSetup
  <2>2. ip' \in [User -> 0..4]
    BY <2>1 DEF DevcfgType
  <2>3. pc' = pc \/ pc' = [pc EXCEPT ![u] = "polling"]
    BY <1>14 DEF TransferSetup
  <2>4. UNCHANGED <<val, attr, last, all, xfer, xfers, files, isOpen, partial, isolated, ctrl, lockReg>>
    BY <1>14 DEF TransferSetup
  <2> QED BY <2>2, <2>3, <2>4 DEF DevcfgType
<1>15. CASE PollDone(u)
  BY <1>15 DEF PollDone, DevcfgType
<1>16. CASE PollTimeout(u)
  BY <1>16 DEF PollTimeout, TransferEnd, Unlock, DevcfgType
<1>17. CASE Finish(u)
  BY <1>17 DEF Finish, TransferEnd, Unlock, DevcfgType
<1>18. CASE PartialOff(u)
  BY <1>18 DEF PartialOff, CtrlStep, StoreCtrl, DevcfgType
<1>19. CASE Closing(u)
  <2>1. pc[u] \in Leaving
    BY <1>19 DEF Closing
  <2>2. files = 1
    BY <2>1, Zenon DEF OneHolder
  <2>3. files = 1 /\ files' = 0 /\ isOpen' = FALSE
    BY <1>19, <2>2 DEF Closing
  <2>4. UNCHANGED <<val, attr, last, all, ip, xfer, xfers, partial, isolated, ctrl, lockReg>>
        /\ pc' = [pc EXCEPT ![u] = "idle"]
    BY <1>19 DEF Closing
  <2> QED BY <2>3, <2>4 DEF DevcfgType
<1> QED BY <1>1, <1>2, <1>3, <1>4, <1>5, <1>6, <1>7, <1>8, <1>9, <1>10, <1>11, <1>12, <1>13, <1>14, <1>15, <1>16, <1>17, <1>18, <1>19 DEF UserStep

(* The mutex: every path of open, write and read that leaves the driver    *)
(* gives it back, and no step of another thread comes between.             *)
LEMMA UserHolds ==
  ASSUME NEW u \in User, DevcfgType, OneHolder,
         OpenBegin(u) \/ TransferBegin(u) \/ Release(u) \/ UserStep(u)
  PROVE  OneHolder'
<1> USE DevcfgAssumption
        DEF Goto, regs, drv, use, log, Opening, Transfer, Leaving, Locked, DevcfgType, OneHolder
<1>1. CASE OpenBegin(u)
  BY <1>1 DEF OpenBegin
<1>2. CASE TransferBegin(u)
  BY <1>2 DEF TransferBegin, Transferring, Releasing
<1>3. CASE Release(u)
  BY <1>3 DEF Release, LoadCtrl, Transferring, Releasing
<1>4. CASE OpenBusy(u)
  BY <1>4 DEF OpenBusy, Unlock
<1>5. CASE OpenMode(u)
  BY <1>5 DEF OpenMode, LoadCtrl
<1>6. CASE OpenPartial(u)
  BY <1>6 DEF OpenPartial, CtrlStep, StoreCtrl
<1>7. CASE OpenReset(u)
  BY <1>7 DEF OpenReset, LoadCtrl
<1>8. CASE ProgLow(u)
  BY <1>8 DEF ProgLow, CtrlStep, StoreCtrl
<1>9. CASE InitLow(u)
  BY <1>9 DEF InitLow
<1>10. CASE ProgRead(u)
  BY <1>10 DEF ProgRead, LoadCtrl
<1>11. CASE ProgHigh(u)
  BY <1>11 DEF ProgHigh, CtrlStep, StoreCtrl
<1>12. CASE InitHigh(u)
  BY <1>12 DEF InitHigh
<1>13. CASE OpenEnd(u)
  BY <1>13 DEF OpenEnd, Unlock
<1>14. CASE TransferSetup(u)
  BY <1>14 DEF TransferSetup
<1>15. CASE PollDone(u)
  BY <1>15 DEF PollDone
<1>16. CASE PollTimeout(u)
  BY <1>16 DEF PollTimeout, TransferEnd, Unlock
<1>17. CASE Finish(u)
  BY <1>17 DEF Finish, TransferEnd, Unlock
<1>18. CASE PartialOff(u)
  BY <1>18 DEF PartialOff, CtrlStep, StoreCtrl
<1>19. CASE Closing(u)
  BY <1>19 DEF Closing
<1> QED BY <1>1, <1>2, <1>3, <1>4, <1>5, <1>6, <1>7, <1>8, <1>9, <1>10, <1>11, <1>12, <1>13, <1>14, <1>15, <1>16, <1>17, <1>18, <1>19 DEF UserStep

(* The tables of the attributes. *)
LEMMA AttributeFacts ==
  ASSUME NEW a \in AllAttributes
  PROVE  /\ a.set \subseteq Bits /\ a.clear \subseteq Bits /\ a.show \subseteq a.set
         /\ a.reg \in {"ctrl", "lock"}
         /\ a = enable_dap => a.reg = "ctrl" /\ a.clear = {}
         /\ a # enable_dap => a.show \subseteq a.clear
         /\ "PCAP_PR" \notin a.set /\ "PCAP_PR" \notin a.clear /\ "PROG_B" \notin a.show
<1> USE DEF Bits, Bit, Attribute, DapBits
<1>1. CASE a = enable_dap
  BY <1>1 DEF enable_dap
<1>2. CASE a = enable_aes
  BY <1>2 DEF enable_aes, enable_dap
<1>3. CASE \E b \in Bits \ {"PCAP_PR", "PROG_B"}, r \in {"ctrl", "lock"} : a = Bit(r, b)
  BY <1>3 DEF enable_dap
<1>4. \/ a = enable_dap \/ a = enable_aes
      \/ \E b \in Bits \ {"PCAP_PR", "PROG_B"}, r \in {"ctrl", "lock"} : a = Bit(r, b)
  BY DEF AllAttributes, enable_dbg_in, enable_dbg_nonin, enable_sec_dbg_in,
         enable_sec_dbg_nonin, enable_seu, aes_en_lock, seu_lock, dbg_lock
<1> QED BY <1>1, <1>2, <1>3, <1>4

(* What can be stored. *)
LEMMA ValueFacts ==
  ASSUME NEW a \in AllAttributes, NEW x \in Values(a)
  PROVE  x \subseteq a.set /\ (a # enable_dap => x = {} \/ x = a.set)
BY DevcfgAssumption DEF Values, enable_dap, Attribute

(* The lock register protects all bits that an attribute shows, or none. *)
LEMMA AllOrNothing ==
  ASSUME NEW a \in AllAttributes, NEW l
  PROVE  a.show \subseteq Protected(l) \/ a.show \cap Protected(l) = {}
<1>1. CASE \E b, r : a = Bit(r, b)
  BY <1>1 DEF Bit, Attribute
<1>2. CASE a = enable_aes
  <2>1. a.show = {"AES_EN"}
    BY <1>2 DEF enable_aes, Attribute
  <2> QED BY <2>1
<1>3. CASE a = enable_dap
  <2>1. a.show = DapBits
    BY <1>3 DEF enable_dap, Attribute
  <2> QED BY <2>1 DEF Protected, DapBits
<1>4. a = enable_dap \/ a = enable_aes \/ \E b, r : a = Bit(r, b)
  BY Zenon DEF AllAttributes, enable_dbg_in, enable_dbg_nonin, enable_sec_dbg_in,
         enable_sec_dbg_nonin, enable_seu, aes_en_lock, seu_lock, dbg_lock
<1> QED BY <1>1, <1>2, <1>3, <1>4

(* No attribute shows a bit that another one of its register changes. *)
LEMMA AttributesApart ==
  ASSUME NEW a \in AllAttributes, NEW b \in AllAttributes, a # b, a.reg = b.reg
  PROVE  a.show \cap (b.set \cup b.clear) = {}
BY DEF AllAttributes, enable_dap, enable_dbg_in, enable_dbg_nonin, enable_sec_dbg_in,
       enable_sec_dbg_nonin, enable_seu, enable_aes, aes_en_lock, seu_lock, dbg_lock,
       Bit, Attribute, DapBits

SetterStep(s) == \/ SetRead(s) \/ SetInvalid(s)
                 \/ \E x \in Values(attr[s]) : SetWrite(s, x)
                 \/ \E on \in BOOLEAN : SetPartial(s, on)

HardwareStep == InitFollows \/ Irq \/ \E errs \in SUBSET Errors : DmaDone(errs)

(* A store in progress is one of Attr. *)
LEMMA StoreOfAttr ==
  ASSUME NEW s \in Setter, DevcfgType, NEW x, SetWrite(s, x)
  PROVE  attr[s] \in Attr /\ attr[s] \in AllAttributes
<1>1. attr[s] \in Attr \cup {NoAttribute} /\ attr[s].reg \in {"ctrl", "lock"}
  BY DEF DevcfgType, SetWrite
<1>2. NoAttribute.reg = "none"
  BY DEF NoAttribute, Attribute
<1> QED BY <1>1, <1>2, DevcfgAssumption

(* An attribute store keeps the types. *)
LEMMA SetterType ==
  ASSUME NEW s \in Setter, DevcfgType, SetterStep(s) PROVE DevcfgType'
<1>1. CASE SetRead(s)
  <2>1. UNCHANGED <<last, all, ip, xfer, xfers, files, isOpen, partial, isolated, ctrl, lockReg>>
        /\ pc' = [pc EXCEPT ![s] = "storing"]
    BY <1>1 DEF SetRead, Goto, regs, drv, use
  <2>2. PICK a \in Attr : attr' = [attr EXCEPT ![s] = a]
                          /\ val' = [val EXCEPT ![s] = IF a.reg = "ctrl" THEN ctrl ELSE lockReg]
    BY <1>1 DEF SetRead
  <2> QED BY <2>1, <2>2 DEF DevcfgType
<1>2. CASE SetInvalid(s)
  BY <1>2 DEF SetInvalid, DevcfgType, Goto, regs, drv, use, log
<1>3. ASSUME NEW x \in Values(attr[s]), SetWrite(s, x) PROVE DevcfgType'
  <2> DEFINE a == attr[s]
  <2>1. a \in Attr /\ a.set \subseteq Bits /\ a.clear \subseteq Bits /\ x \subseteq Bits
    BY <1>3, StoreOfAttr, AttributeFacts, ValueFacts
  <2>2. UNCHANGED <<ip, xfer, xfers, files, isOpen, partial, isolated>>
        /\ pc' = [pc EXCEPT ![s] = "idle"] /\ attr' = [attr EXCEPT ![s] = NoAttribute]
        /\ val' = [val EXCEPT ![s] = {}]
    BY <1>3 DEF SetWrite, Goto, StoreCtrl, drv, use
  <2>3. val[s] \in SUBSET Bits /\ ctrl \in SUBSET Bits /\ lockReg \in SUBSET Bits
        /\ last \in [Attr -> SUBSET Bits] /\ all \in [Attr -> SUBSET Bits]
    BY <2>1 DEF DevcfgType
  <2>4. Stored(a, val[s], x) \in SUBSET Bits
    BY <2>1, <2>3 DEF Stored
  <2>5. last' \in [Attr -> SUBSET Bits] /\ all' \in [Attr -> SUBSET Bits]
    <3> DEFINE y == x \cap a.show
    <3>1. y \in SUBSET Bits
      BY <2>1
    <3>2. Record(a, y) \/ UNCHANGED <<last, all>>
      BY <1>3 DEF SetWrite
    <3> HIDE DEF y
    <3>3. all[a] \cup y \in SUBSET Bits
      BY <2>1, <2>3, <3>1
    <3> QED BY <2>3, <3>1, <3>2, <3>3 DEF Record
  <2>6. ctrl' \in SUBSET Bits /\ lockReg' \in SUBSET Bits
    <3>1. CASE StoreCtrl(s, Stored(a, val[s], x)) /\ lockReg' = lockReg
      BY <3>1, <2>3, <2>4 DEF StoreCtrl
    <3>2. CASE lockReg' = lockReg \cup Stored(a, val[s], x) /\ ctrl' = ctrl
      BY <3>2, <2>3, <2>4
    <3> QED BY <1>3, <3>1, <3>2 DEF SetWrite
  <2> HIDE DEF a
  <2> QED BY <2>2, <2>5, <2>6 DEF DevcfgType
<1>4. ASSUME NEW on \in BOOLEAN, SetPartial(s, on) PROVE DevcfgType'
  BY <1>4 DEF SetPartial, DevcfgType, regs, use
<1> QED BY <1>1, <1>2, <1>3, <1>4 DEF SetterStep

(* So does a step of the engine or of the interrupt. *)
LEMMA HardwareType == ASSUME DevcfgType, HardwareStep PROVE DevcfgType'
<1>1. UNCHANGED <<pc, val, attr, last, all, ip, xfer, xfers, files, isOpen, partial, isolated,
                  ctrl, lockReg>>
  BY DEF HardwareStep, InitFollows, Irq, DmaDone, drv, use, log
<1> QED BY <1>1 DEF DevcfgType

(* The setters, the engine and the interrupt handler leave the mutex alone. *)
LEMMA OthersHold ==
  ASSUME DevcfgType, OneHolder, HardwareStep \/ (\E s \in Setter : SetterStep(s)) PROVE OneHolder'
<1>1. sem' = sem /\ files' = files /\ isOpen' = isOpen
  BY DEF HardwareStep, InitFollows, Irq, DmaDone, SetterStep, SetRead, SetInvalid, SetWrite,
         SetPartial, drv, use
<1>2. ASSUME NEW u \in User PROVE pc'[u] = pc[u]
  <2>1. CASE HardwareStep
    BY <2>1 DEF HardwareStep, InitFollows, Irq, DmaDone
  <2>2. ASSUME NEW s \in Setter, SetterStep(s) PROVE pc'[u] = pc[u]
    <3>1. pc' = pc \/ \E where : pc' = [pc EXCEPT ![s] = where]
      BY <2>2 DEF SetterStep, SetRead, SetInvalid, SetWrite, SetPartial, Goto
    <3>2. s # u
      BY DevcfgAssumption
    <3> QED BY <3>1, <3>2 DEF DevcfgType
  <2> QED BY <2>1, <2>2
<1> QED BY <1>1, <1>2 DEF OneHolder

(* Every step belongs to a user, a setter or the hardware. *)
LEMMA StepKinds ==
  ASSUME [DevcfgNext]_Devcfgvars
  PROVE  \/ \E u \in User : OpenBegin(u) \/ TransferBegin(u) \/ Release(u) \/ UserStep(u)
         \/ \E s \in Setter : SetterStep(s)
         \/ HardwareStep
         \/ UNCHANGED Devcfgvars
BY Zenon DEF DevcfgNext, SetterStep, HardwareStep

(* At the start nobody is inside. *)
LEMMA ControlInit == DevcfgInit => DevcfgType /\ OneHolder
<1> SUFFICES ASSUME DevcfgInit PROVE DevcfgType /\ OneHolder
  OBVIOUS
<1>1. "PROG_B" \in Bits
  BY PcapBits
<1>2. DevcfgType
  <2>1. isOpen \in BOOLEAN /\ partial \in BOOLEAN /\ isolated \in BOOLEAN
    BY Zenon DEF DevcfgInit
  <2>2. ctrl = {"PROG_B"} /\ lockReg = {} /\ files = 0 /\ xfers = 0
        /\ pc = [t \in User \cup Setter |-> "idle"] /\ val = [t \in User \cup Setter |-> {}]
        /\ attr = [t \in Setter |-> NoAttribute]
        /\ last = [a \in Attr |-> {}] /\ all = [a \in Attr |-> {}]
        /\ ip = [u \in User |-> 0] /\ xfer = [u \in User |-> 0]
    BY Zenon DEF DevcfgInit
  <2> QED BY <1>1, <2>1, <2>2 DEF DevcfgType
<1>3. OneHolder
  BY DevcfgAssumption DEF DevcfgInit, OneHolder, Locked, Opening, Transfer, Leaving
<1> QED BY <1>2, <1>3

(* Types and the one holder of the mutex are kept. *)
LEMMA ControlStep ==
  ASSUME DevcfgType, OneHolder, [DevcfgNext]_Devcfgvars PROVE DevcfgType' /\ OneHolder'
<1>1. ASSUME UNCHANGED Devcfgvars PROVE DevcfgType' /\ OneHolder'
  BY <1>1 DEF Devcfgvars, regs, drv, use, log, DevcfgType, OneHolder
<1> QED BY <1>1, StepKinds, UserType, UserHolds, SetterType, HardwareType, OthersHold
----------------------------------------------------------------------------
(* One transfer at a time. *)
LEMMA TransferAlone ==
  ASSUME DevcfgType, OneHolder, NEW u \in User, NEW v \in User,
         pc[u] \in Transfer, pc[v] \in Transfer
  PROVE  u = v
BY DEF OneHolder, Locked

(* Before the start and behind the completion of a transfer the engine is  *)
(* idle and no flag is pending: there is nothing for a late interrupt.     *)
LEMMA EngineIdle ==
  ASSUME DevcfgType, OneHolder, OneTransfer, \A v \in User : pc[v] # "polling"
  PROVE  dma = <<>> /\ sts = {}
BY DEF OneTransfer

(* A step that leaves buffers and engine alone keeps the transfer. *)
LEMMA TransferUntouched ==
  ASSUME OneTransfer, UNCHANGED <<dma, sts, dmaDone, xfer, ip, live, completed, early>>,
         \A v \in User : pc'[v] = pc[v] \/ (pc[v] \notin Transfer /\ pc'[v] \notin Transfer)
  PROVE  OneTransfer'
<1>1. ASSUME NEW v \in User, pc[v] \in Transfer \/ pc'[v] \in Transfer PROVE pc'[v] = pc[v]
  BY <1>1
<1> QED BY <1>1 DEF OneTransfer, Transfer

(* A transfer begins on a buffer of its own. *)
LEMMA BeginTransfers ==
  ASSUME NEW u \in User, DevcfgType, OneHolder, OneTransfer, TransferBegin(u) PROVE OneTransfer'
<1>1. ASSUME NEW v \in User PROVE pc[v] \notin Transfer
  BY DevcfgAssumption DEF TransferBegin, OneHolder, Locked
<1>2. dma = <<>> /\ sts = {}
  BY <1>1, EngineIdle DEF Transfer
<1>3. dma' = dma /\ sts' = sts /\ dmaDone' = dmaDone /\ early' = early
      /\ xfer'[u] \in live' /\ ip'[u] = 1 /\ pc'[u] \in {"writing", "reading"}
  BY DEF TransferBegin, Goto, regs, DevcfgType
<1>4. ASSUME NEW v \in User, v # u PROVE pc'[v] = pc[v]
  BY <1>4 DEF TransferBegin, Goto, DevcfgType
<1> QED BY <1>1, <1>2, <1>3, <1>4 DEF OneTransfer, Transfer

(* A register write of the setup. *)
LEMMA SetupTransfers ==
  ASSUME NEW u \in User, DevcfgType, OneHolder, OneTransfer, TransferSetup(u) PROVE OneTransfer'
<1> DEFINE now == Setup(u)[ip[u]]
<1>1. pc[u] \in {"writing", "reading"} /\ pc[u] \in Transfer
  BY DEF TransferSetup, Transfer
<1>2. ASSUME NEW v \in User, v # u PROVE pc[v] \notin Transfer
  BY <1>1, <1>2, TransferAlone
<1>3. dma = <<>> /\ sts = {}
  BY <1>1, <1>2, EngineIdle DEF Transfer
<1>4. ip[u] \in 1..4
  BY <1>1 DEF OneTransfer, DevcfgType
<1>5. sts' = {} /\ (dmaDone' <=> dmaDone /\ now # "flags")
      /\ dma' = (IF now = "start" THEN <<xfer[u]>> ELSE <<>>)
  <2>1. dmaDone' <=> dmaDone /\ now # "flags"
    BY Zenon DEF TransferSetup
  <2>2. sts' = (IF now = "clear" THEN {} ELSE sts)
        /\ dma' = (IF now = "start" THEN Append(dma, xfer[u]) ELSE dma)
    BY Zenon DEF TransferSetup
  <2> HIDE DEF now
  <2> QED BY <1>3, <2>1, <2>2
<1>6. xfer' = xfer /\ live' = live /\ completed' = completed /\ early' = early
  BY DEF TransferSetup, log
<1>7. xfer[u] \in live /\ ~early
  BY <1>1 DEF OneTransfer
<1>8. CASE ip[u] = 4
  <2>1. now = "start"
    BY <1>8 DEF Setup, WriteSetup, ReadSetup
  <2>2. pc' = [pc EXCEPT ![u] = "polling"]
    BY <1>8, SetupLength, Zenon DEF TransferSetup, Goto
  <2>3. pc'[u] = "polling" /\ \A v \in User : v # u => pc'[v] = pc[v]
    BY <2>2 DEF DevcfgType
  <2>4. ~dmaDone
    BY <1>1, <1>8 DEF OneTransfer
  <2>5. dma' = <<xfer'[u]>> /\ sts' = {} /\ ~dmaDone'
    BY <1>5, <1>6, <2>1, <2>4
  <2>6. ASSUME NEW v \in User, pc'[v] \in Transfer PROVE v = u
    BY <1>2, <2>3, <2>6
  <2> QED BY <1>6, <1>7, <2>3, <2>5, <2>6 DEF OneTransfer, Transfer
<1>9. CASE ip[u] # 4
  <2>1. now # "start"
    BY <1>4, <1>9 DEF Setup, WriteSetup, ReadSetup
  <2>2. pc' = pc /\ ip' = [ip EXCEPT ![u] = ip[u] + 1]
    BY <1>9, SetupLength, Zenon DEF TransferSetup
  <2>3. ip'[u] = ip[u] + 1
    BY <2>2 DEF DevcfgType
  <2>4. pc[u] = "writing" /\ ip'[u] = 4 => now = "flags"
    BY <1>4, <2>3 DEF Setup, WriteSetup
  <2>5. pc[u] = "reading" /\ ip[u] = 1 => now = "flags"
    BY DEF Setup, ReadSetup
  <2>6. pc[u] = "reading" /\ ip[u] # 1 => ~dmaDone
    BY <1>4 DEF OneTransfer
  <2>7. (pc[u] = "writing" /\ ip'[u] = 4 => ~dmaDone') /\ (pc[u] = "reading" => ~dmaDone')
    BY <1>5, <2>4, <2>5, <2>6
  <2>8. ip'[u] # 0 /\ dma' = <<>> /\ sts' = {}
    BY <1>4, <1>5, <2>1, <2>3
  <2> HIDE DEF now
  <2> QED BY <1>1, <1>2, <1>6, <1>7, <2>2, <2>7, <2>8 DEF OneTransfer, Transfer
<1> QED BY <1>8, <1>9

(* The end of a call frees its own buffer. *)
LEMMA FinishTransfers ==
  ASSUME NEW u \in User, DevcfgType, OneHolder, OneTransfer, PollDone(u) \/ Finish(u)
  PROVE  OneTransfer'
<1>1. pc[u] \in {"polling", "finish"} /\ pc[u] \in Transfer
  BY DEF PollDone, Finish, Transfer
<1>2. ASSUME NEW v \in User, v # u PROVE pc[v] \notin Transfer
  BY <1>1, <1>2, TransferAlone
<1>3. CASE PollDone(u)
  <2>1. dmaDone /\ pc[u] = "polling" /\ UNCHANGED <<dma, sts, dmaDone, xfer, live, completed, early>>
    BY <1>3 DEF PollDone, regs, drv, use, log
  <2>2. xfer[u] \in completed /\ dma = <<>> /\ sts = {} /\ xfer[u] \in live /\ ~early
    BY <1>1, <2>1 DEF OneTransfer
  <2>3. pc'[u] = "finish" /\ \A v \in User : v # u => pc'[v] = pc[v]
    BY <1>3 DEF PollDone, Goto, DevcfgType
  <2>4. ASSUME NEW v \in User, pc'[v] \in Transfer PROVE v = u
    BY <1>2, <2>3, <2>4
  <2> QED BY <2>1, <2>2, <2>3, <2>4 DEF OneTransfer, Transfer
<1>4. CASE Finish(u)
  <2>1. pc[u] = "finish" /\ UNCHANGED <<dma, sts, dmaDone, completed>>
        /\ (early' <=> (early \/ (~errorStatus /\ xfer[u] \notin completed)))
    BY <1>4 DEF Finish
  <2>2. dma = <<>> /\ sts = {}
    BY <1>2, <2>1, EngineIdle DEF Transfer
  <2>3. ~early'
    BY <2>1 DEF OneTransfer
  <2>4. pc'[u] = "idle" /\ \A v \in User : v # u => pc'[v] = pc[v]
    BY <1>4 DEF Finish, TransferEnd, Unlock, Goto, DevcfgType
  <2>5. \A v \in User : pc'[v] \notin Transfer
    BY <1>2, <2>4 DEF Transfer
  <2> QED BY <2>1, <2>2, <2>3, <2>5 DEF OneTransfer, Transfer
<1> QED BY <1>3, <1>4

(* The engine and its interrupt work for the transfer that is set up. *)
LEMMA EngineTransfers ==
  ASSUME DevcfgType, OneHolder, OneTransfer, HardwareStep PROVE OneTransfer'
<1>1. CASE InitFollows
  BY <1>1, TransferUntouched DEF InitFollows, drv, use, log
<1>2. ASSUME NEW errs \in SUBSET Errors, DmaDone(errs) PROVE OneTransfer'
  <2>1. dma # <<>> /\ dma' = Tail(dma) /\ completed' = completed \cup {Head(dma)} /\ sts' # {}
        /\ UNCHANGED <<pc, dmaDone, ip, xfer, live, early>>
    BY <1>2 DEF DmaDone, drv, use
  <2>2. PICK u \in User : pc[u] = "polling" /\ dma = <<xfer[u]>>
    BY <2>1 DEF OneTransfer
  <2>3. dma' = <<>> /\ xfer[u] \in completed'
    BY <2>1, <2>2
  <2>4. ~dmaDone
    BY <2>1 DEF OneTransfer
  <2> QED BY <2>1, <2>2, <2>3, <2>4 DEF OneTransfer
<1>3. CASE Irq
  <2>1. sts # {} /\ sts' = {} /\ UNCHANGED <<pc, dma, ip, xfer, live, completed, early>>
    BY <1>3 DEF Irq, use, log
  <2>2. dma = <<>>
    BY <2>1 DEF OneTransfer
  <2>3. PICK u \in User : pc[u] = "polling" /\ xfer[u] \in completed
    BY <2>1 DEF OneTransfer
  <2>4. ASSUME NEW v \in User, pc[v] \in Transfer PROVE v = u
    BY <2>3, <2>4, TransferAlone DEF Transfer
  <2> QED BY <2>1, <2>2, <2>3, <2>4 DEF OneTransfer, Transfer
<1> QED BY <1>1, <1>2, <1>3 DEF HardwareStep

(* At the start there is no transfer. *)
LEMMA TransferInit == DevcfgInit => OneTransfer
BY DEF DevcfgInit, OneTransfer, Transfer
(* Every step keeps the one transfer. *)
LEMMA TransferStep == ASSUME TransferInv, [DevcfgNext]_Devcfgvars PROVE TransferInv'
<1>1. DevcfgType /\ OneHolder /\ DevcfgType' /\ OneHolder'
  BY ControlStep DEF TransferInv
<1>2. timedOut => timedOut'
  BY StepKinds, ZenonT(60) DEF OpenBegin, TransferBegin, Release, UserStep, OpenBusy, OpenMode, OpenPartial,
     OpenReset, ProgLow, InitLow, ProgRead, ProgHigh, InitHigh, OpenEnd, TransferSetup, PollDone,
     PollTimeout, Finish, PartialOff, Closing, CtrlStep, SetterStep, SetRead, SetInvalid,
     SetWrite, SetPartial, HardwareStep, InitFollows, DmaDone, Irq, log, Devcfgvars
<1>3. SUFFICES ASSUME ~timedOut' PROVE OneTransfer'
  BY <1>1 DEF TransferInv
<1>4. OneTransfer
  BY <1>2, <1>3 DEF TransferInv
<1>5. ASSUME NEW u \in User, NEW where, where \notin Transfer,
             pc[u] \notin Transfer, pc' = [pc EXCEPT ![u] = where],
             UNCHANGED <<dma, sts, dmaDone, xfer, ip, live, completed, early>>
      PROVE  OneTransfer'
  <2>1. \A v \in User : pc'[v] = pc[v] \/ (pc[v] \notin Transfer /\ pc'[v] \notin Transfer)
    BY <1>1, <1>5 DEF DevcfgType
  <2> QED BY <1>4, <1>5, <2>1, TransferUntouched
<1>6. ASSUME NEW u \in User,
             OpenBegin(u) \/ TransferBegin(u) \/ Release(u) \/ UserStep(u)
      PROVE  OneTransfer'
  <2>1. CASE TransferBegin(u)
    BY <1>1, <1>4, <2>1, BeginTransfers
  <2>2. CASE TransferSetup(u)
    BY <1>1, <1>4, <2>2, SetupTransfers
  <2>3. CASE PollDone(u) \/ Finish(u)
    BY <1>1, <1>4, <2>3, FinishTransfers
  <2>4. CASE PollTimeout(u)
    BY <1>3, <2>4 DEF PollTimeout
  <2>5. CASE OpenBegin(u) \/ OpenBusy(u) \/ OpenEnd(u)
    BY <1>5, <2>5 DEF OpenBegin, OpenBusy, OpenEnd, Unlock, Goto, regs, drv, use, log, Transfer
  <2>6. CASE OpenMode(u) \/ OpenReset(u) \/ Release(u)
    BY <1>5, <2>6 DEF OpenMode, OpenReset, Release, Goto, regs, drv, use, log, Transfer
  <2>7. CASE OpenPartial(u) \/ ProgLow(u) \/ ProgHigh(u) \/ PartialOff(u)
    BY <1>5, <2>7 DEF OpenPartial, ProgLow, ProgHigh, PartialOff, CtrlStep, Goto, regs, drv, use,
                      log, Transfer
  <2>8. CASE InitLow(u) \/ ProgRead(u) \/ InitHigh(u) \/ Closing(u)
    BY <1>5, <2>8 DEF InitLow, ProgRead, InitHigh, Closing, Goto, regs, drv, use, log, Transfer
  <2> QED BY <1>6, <2>1, <2>2, <2>3, <2>4, <2>5, <2>6, <2>7, <2>8 DEF UserStep
<1>7. ASSUME NEW s \in Setter, SetterStep(s) PROVE OneTransfer'
  <2>1. UNCHANGED <<dma, sts, dmaDone, xfer, ip, live, completed, early>>
    BY <1>7 DEF SetterStep, SetRead, SetInvalid, SetWrite, SetPartial, regs, drv, use, log
  <2>2. pc' = pc \/ \E where : pc' = [pc EXCEPT ![s] = where]
    BY <1>7 DEF SetterStep, SetRead, SetInvalid, SetWrite, SetPartial, Goto
  <2>3. \A v \in User : pc'[v] = pc[v]
    BY <1>1, <2>2, DevcfgAssumption DEF DevcfgType
  <2> QED BY <1>4, <2>1, <2>3, TransferUntouched
<1>8. CASE HardwareStep
  BY <1>1, <1>4, <1>8, EngineTransfers
<1>9. CASE UNCHANGED Devcfgvars
  BY <1>4, <1>9, TransferUntouched DEF Devcfgvars, regs, drv, use, log
<1> QED BY <1>6, <1>7, <1>8, <1>9, StepKinds

(* There is always at most one transfer, on a live buffer. *)
LEMMA TransferAlways == DevcfgSpec => []TransferInv
<1>1. DevcfgInit => TransferInv
  BY ControlInit, TransferInit DEF TransferInv
<1>2. TransferInv /\ [DevcfgNext]_Devcfgvars => TransferInv'
  BY TransferStep
<1> QED BY <1>1, <1>2, PTL DEF DevcfgSpec

(* Any number of threads may write, read, open and close: unless a         *)
(* transfer has timed out, what the engine works on is still allocated.    *)
THEOREM NoDmaFromFreedBuffer == DevcfgSpec => []DmaFromLiveBuffer
<1>1. TransferInv => DmaFromLiveBuffer
  <2> SUFFICES ASSUME TransferInv, ~timedOut, NEW i \in 1..Len(dma) PROVE dma[i] \in live
    BY DEF DmaFromLiveBuffer
  <2>1. OneTransfer /\ dma # <<>>
    BY DEF TransferInv
  <2>2. PICK u \in User : pc[u] = "polling" /\ dma = <<xfer[u]>>
    BY <2>1 DEF OneTransfer
  <2>3. xfer[u] \in live
    BY <2>1, <2>2 DEF OneTransfer, Transfer
  <2> QED BY <2>2, <2>3
<1> QED BY <1>1, TransferAlways, PTL

(* Without a timeout, success is reported only for what the engine has     *)
(* finished: no interrupt of an earlier transfer is mistaken for it, in    *)
(* either order of clearing and resetting that write and read use.         *)
THEOREM NoEarlyReport == DevcfgSpec => []ReportedWhenDone
<1>1. TransferInv => ReportedWhenDone
  BY DEF TransferInv, OneTransfer, ReportedWhenDone
<1> QED BY <1>1, TransferAlways, PTL
----------------------------------------------------------------------------
(* The steps of a user on CTRL: nothing but PROG_B and PCAP_PR is changed  *)
(* in what was read.                                                       *)
PcapStore(u) ==
  \E v : StoreCtrl(u, v) /\ v \in {val[u] \cup {"PCAP_PR"}, val[u] \ {"PCAP_PR"},
                                   val[u] \cup {"PROG_B"}, val[u] \ {"PROG_B"}}

(* What a user of the device file changes in the registers. *)
LEMMA UserRegisters ==
  ASSUME NEW u \in User, DevcfgType,
         OpenBegin(u) \/ TransferBegin(u) \/ Release(u) \/ UserStep(u)
  PROVE  /\ UNCHANGED <<lockReg, last, all, attr, toggled, partial>>
         /\ UNCHANGED <<ctrl, stale>> \/ PcapStore(u)
         /\ \A s \in Setter : pc'[s] = pc[s] /\ val'[s] = val[s]
<1>1. UNCHANGED <<lockReg, last, all, attr, toggled, partial>>
  BY DEF OpenBegin, TransferBegin, Release, UserStep, OpenBusy, OpenMode, OpenPartial,
     OpenReset, ProgLow, InitLow, ProgRead, ProgHigh, InitHigh, OpenEnd, TransferSetup, PollDone,
     PollTimeout, Finish, PartialOff, Closing, CtrlStep, regs, drv, log
<1>2. CASE OpenPartial(u) \/ ProgLow(u) \/ ProgHigh(u) \/ PartialOff(u)
  <2>1. PcapStore(u)
    BY <1>2, Zenon DEF OpenPartial, ProgLow, ProgHigh, PartialOff, CtrlStep, PcapStore
  <2>2. \E where : pc' = [pc EXCEPT ![u] = where]
    BY <1>2, Zenon DEF OpenPartial, ProgLow, ProgHigh, PartialOff, CtrlStep, Goto
  <2>3. val' = [val EXCEPT ![u] = {}]
    BY <2>1 DEF PcapStore, StoreCtrl
  <2> QED BY <1>1, <2>1, <2>2, <2>3, DevcfgAssumption DEF DevcfgType
<1>3. CASE ~(OpenPartial(u) \/ ProgLow(u) \/ ProgHigh(u) \/ PartialOff(u))
  <2>1. UNCHANGED <<ctrl, stale>>
    BY <1>3 DEF OpenBegin, TransferBegin, Release, UserStep, OpenBusy, OpenMode, OpenReset, InitLow,
       ProgRead, InitHigh, OpenEnd, TransferSetup, PollDone, PollTimeout, Finish, Closing
  <2>2. val' = val \/ \E new : val' = [val EXCEPT ![u] = new]
    BY <1>3 DEF OpenBegin, TransferBegin, Release, UserStep, OpenBusy, OpenMode, OpenReset, InitLow,
       ProgRead, InitHigh, OpenEnd, TransferSetup, PollDone, PollTimeout, Finish, Closing, LoadCtrl
  <2>3. pc' = pc \/ \E where : pc' = [pc EXCEPT ![u] = where]
    BY <1>3 DEF OpenBegin, TransferBegin, Release, UserStep, OpenBusy, OpenMode, OpenReset, InitLow,
       ProgRead, InitHigh, OpenEnd, TransferSetup, PollDone, PollTimeout, Finish, Closing,
       TransferEnd, Unlock, Goto
  <2> QED BY <1>1, <2>1, <2>2, <2>3, DevcfgAssumption DEF DevcfgType
<1> QED BY <1>2, <1>3

(* A store on CTRL that is not outdated shows through every attribute as   *)
(* the bits it changes, protected ones excepted.                           *)
LEMMA PcapStoreShows ==
  ASSUME NEW u \in User, DevcfgType, ShowsWhatWasSet, PcapStore(u), UNCHANGED <<lockReg, last, all>>
  PROVE  ShowsWhatWasSet'
<1>1. PICK v : StoreCtrl(u, v) /\ v \in {val[u] \cup {"PCAP_PR"}, val[u] \ {"PCAP_PR"},
                                        val[u] \cup {"PROG_B"}, val[u] \ {"PROG_B"}}
  BY DEF PcapStore
<1>2. SUFFICES ASSUME ~stale', NEW a \in Attr
               PROVE  (IF a.reg = "ctrl" THEN ctrl' ELSE lockReg') \cap a.show = Expected(a)'
  BY DEF ShowsWhatWasSet, Expected, Sticky
<1>3. ~stale /\ val[u] = ctrl
  BY <1>1, <1>2 DEF StoreCtrl
<1>4. "PCAP_PR" \notin a.show /\ "PROG_B" \notin a.show
  BY AttributeFacts, DevcfgAssumption
<1>5. ctrl' \cap a.show = ctrl \cap a.show
  BY <1>1, <1>3, <1>4 DEF StoreCtrl
<1>6. (IF a.reg = "ctrl" THEN ctrl ELSE lockReg) \cap a.show = Expected(a)
  BY <1>3 DEF ShowsWhatWasSet, Expected, Sticky
<1>7. Expected(a)' = Expected(a)
  BY DEF Expected, Sticky
<1> QED BY <1>5, <1>6, <1>7

(* The write of an attribute shows what was set. *)
LEMMA SetStoreShows ==
  ASSUME NEW s \in Setter, DevcfgType, StoresPending, ShowsWhatWasSet,
         NEW x \in Values(attr[s]), SetWrite(s, x)
  PROVE  ShowsWhatWasSet'
<1> DEFINE a == attr[s]
           y == x \cap a.show
<1>1. a \in Attr /\ a \in AllAttributes /\ pc[s] = "storing"
  BY StoreOfAttr DEF SetWrite
<1>2. SUFFICES ASSUME ~stale', NEW b \in Attr
               PROVE  (IF b.reg = "ctrl" THEN ctrl' ELSE lockReg') \cap b.show = Expected(b)'
  BY DEF ShowsWhatWasSet, Expected
<1>3. b \in AllAttributes
  BY DevcfgAssumption
<1>4. ~stale
  BY <1>2, Zenon DEF SetWrite, StoreCtrl
<1>5. (IF b.reg = "ctrl" THEN ctrl ELSE lockReg) \cap b.show = Expected(b)
  BY <1>4 DEF ShowsWhatWasSet, Expected
<1>6. /\ a.show \subseteq a.set /\ x \subseteq a.set
      /\ a = enable_dap => a.reg = "ctrl" /\ a.clear = {}
      /\ a # enable_dap => a.show \subseteq a.clear /\ (x = {} \/ x = a.set)
  BY <1>1, AttributeFacts, ValueFacts
<1>7. b # a /\ b.reg = a.reg => b.show \cap a.set = {} /\ b.show \cap a.clear = {}
  BY <1>1, <1>3, AttributesApart
<1>8. ASSUME Record(a, y)
      PROVE  /\ b # a => Expected(b)' = Expected(b)
             /\ b = a => Expected(b)' = IF Sticky(a) THEN Expected(a) \cup y ELSE y
  <2>1. last'[b] = (IF b = a THEN y ELSE last[b]) /\ all'[b] = IF b = a THEN all[a] \cup y ELSE all[b]
    BY <1>1, <1>8 DEF Record, DevcfgType
  <2> QED BY <2>1 DEF Expected, Sticky
<1>9. ASSUME UNCHANGED <<last, all>> PROVE Expected(b)' = Expected(b)
  BY <1>9 DEF Expected, Sticky
<1>10. CASE a.reg = "ctrl" /\ StoreCtrl(s, Stored(a, val[s], x)) /\ lockReg' = lockReg
            /\ (IF a.show \subseteq Protected(lockReg) THEN UNCHANGED <<last, all>> ELSE Record(a, y))
  <2> DEFINE P == Protected(lockReg)
  <2>1. val[s] = ctrl
    BY <1>2, <1>10 DEF StoreCtrl
  <2>2. ctrl' = (Stored(a, ctrl, x) \ P) \cup (ctrl \cap P)
    BY <1>10, <2>1 DEF StoreCtrl
  <2>3. a.show \subseteq P \/ a.show \cap P = {}
    BY <1>1, AllOrNothing
  <2>4. CASE b # a
    <3>1. Expected(b)' = Expected(b)
      BY <1>8, <1>9, <1>10, <2>4
    <3> HIDE DEF P
    <3>2. b.reg = "ctrl" => ctrl' \cap b.show = ctrl \cap b.show
      BY <1>6, <1>7, <1>10, <2>2, <2>4 DEF Stored
    <3> QED BY <1>5, <1>10, <3>1, <3>2
  <2>5. CASE b = a
    <3>1. ctrl \cap a.show = Expected(a)
      BY <1>5, <1>10, <2>5
    <3>2. CASE a.show \subseteq P
      <4>1. Expected(b)' = Expected(b)
        BY <1>9, <1>10, <3>2
      <4> HIDE DEF P
      <4>2. ctrl' \cap a.show = ctrl \cap a.show
        BY <2>2, <3>2
      <4> QED BY <1>10, <2>5, <3>1, <4>1, <4>2
    <3>3. CASE ~(a.show \subseteq P)
      <4>1. Expected(b)' = IF Sticky(a) THEN Expected(a) \cup y ELSE y
        BY <1>8, <1>10, <2>5, <3>3
      <4> HIDE DEF P
      <4>2. ctrl' \cap a.show = Stored(a, ctrl, x) \cap a.show
        BY <2>2, <2>3, <3>3
      <4>3. CASE a = enable_dap
        BY <1>6, <1>10, <2>5, <3>1, <4>1, <4>2, <4>3 DEF Stored, Sticky
      <4>4. CASE a # enable_dap
        <5>1. Stored(a, ctrl, x) \cap a.show = y
          BY <1>6, <4>4 DEF Stored
        <5>2. ~Sticky(a)
          BY <1>10, <4>4 DEF Sticky
        <5> QED BY <1>10, <2>5, <4>1, <4>2, <5>1, <5>2
      <4> QED BY <4>3, <4>4
    <3> QED BY <3>2, <3>3
  <2> QED BY <2>4, <2>5
<1>11. CASE a.reg = "lock" /\ lockReg' = lockReg \cup Stored(a, val[s], x) /\ ctrl' = ctrl
            /\ Record(a, y)
  <2>1. val[s] \subseteq lockReg
    BY <1>1, <1>11 DEF StoresPending
  <2>2. lockReg' = lockReg \cup x
    BY <1>11, <2>1 DEF Stored
  <2>3. CASE b # a
    <3>1. b.reg # "ctrl" => b.reg = "lock"
      BY <1>3, AttributeFacts
    <3>2. b.reg = "lock" => lockReg' \cap b.show = lockReg \cap b.show
      BY <1>6, <1>7, <1>11, <2>2, <2>3
    <3> QED BY <1>5, <1>8, <1>11, <2>3, <3>1, <3>2
  <2>4. CASE b = a
    <3>1. lockReg \cap a.show = Expected(a)
      BY <1>5, <1>11, <2>4
    <3>2. lockReg' \cap a.show = Expected(a) \cup y
      BY <2>2, <3>1
    <3>3. Expected(b)' = Expected(a) \cup y
      BY <1>8, <1>11, <2>4 DEF Sticky
    <3> QED BY <1>11, <2>4, <3>2, <3>3
  <2> QED BY <2>3, <2>4
<1> QED BY <1>10, <1>11 DEF SetWrite
(* Nothing has been set. *)
LEMMA StoreInit == DevcfgInit => StoresPending /\ ShowsWhatWasSet
<1> SUFFICES ASSUME DevcfgInit PROVE StoresPending /\ ShowsWhatWasSet
  OBVIOUS
<1>1. ASSUME NEW a \in Attr PROVE (IF a.reg = "ctrl" THEN ctrl ELSE lockReg) \cap a.show = Expected(a)
  <2>1. "PROG_B" \notin a.show
    BY AttributeFacts, DevcfgAssumption
  <2> QED BY <2>1 DEF DevcfgInit, Expected
<1>2. StoresPending
  BY DEF DevcfgInit, StoresPending
<1> QED BY <1>1, <1>2 DEF ShowsWhatWasSet, Expected, Sticky

(* Every step keeps what the attributes show. *)
LEMMA StoreStep == ASSUME StoreInv, [DevcfgNext]_Devcfgvars PROVE StoreInv'
<1>1. DevcfgType /\ OneHolder /\ DevcfgType' /\ OneHolder' /\ StoresPending /\ ShowsWhatWasSet
  BY ControlStep DEF StoreInv
<1>2. SUFFICES StoresPending' /\ ShowsWhatWasSet'
  BY <1>1 DEF StoreInv
<1>3. ASSUME UNCHANGED <<ctrl, lockReg, last, all>>, stale' = stale PROVE ShowsWhatWasSet'
  BY <1>1, <1>3 DEF ShowsWhatWasSet, Expected, Sticky
<1>4. ASSUME UNCHANGED <<lockReg, attr>>, \A s \in Setter : pc'[s] = pc[s] /\ val'[s] = val[s]
      PROVE  StoresPending'
  BY <1>1, <1>4 DEF StoresPending
<1>5. ASSUME NEW u \in User,
             OpenBegin(u) \/ TransferBegin(u) \/ Release(u) \/ UserStep(u)
      PROVE  StoresPending' /\ ShowsWhatWasSet'
  BY <1>1, <1>3, <1>4, <1>5, UserRegisters, PcapStoreShows
<1>6. ASSUME NEW s \in Setter, SetterStep(s) PROVE StoresPending' /\ ShowsWhatWasSet'
  <2>1. CASE SetRead(s)
    <3>1. UNCHANGED <<ctrl, lockReg, last, all>> /\ stale' = stale
      BY <2>1 DEF SetRead, regs
    <3>2. PICK a \in Attr : attr' = [attr EXCEPT ![s] = a]
                            /\ val' = [val EXCEPT ![s] = IF a.reg = "ctrl" THEN ctrl ELSE lockReg]
      BY <2>1 DEF SetRead
    <3>3. pc' = [pc EXCEPT ![s] = "storing"]
      BY <2>1 DEF SetRead, Goto
    <3>4. StoresPending'
      BY <1>1, <3>1, <3>2, <3>3 DEF StoresPending, DevcfgType
    <3> QED BY <1>3, <3>1, <3>4
  <2>2. CASE SetInvalid(s)
    <3>1. UNCHANGED <<ctrl, lockReg, last, all>> /\ stale' = stale
      BY <2>2 DEF SetInvalid, regs, log
    <3>2. pc' = [pc EXCEPT ![s] = "idle"] /\ attr' = [attr EXCEPT ![s] = NoAttribute]
          /\ val' = [val EXCEPT ![s] = {}]
      BY <2>2 DEF SetInvalid, Goto
    <3>3. StoresPending'
      BY <1>1, <3>1, <3>2 DEF StoresPending, DevcfgType
    <3> QED BY <1>3, <3>1, <3>3
  <2>3. ASSUME NEW x \in Values(attr[s]), SetWrite(s, x) PROVE StoresPending' /\ ShowsWhatWasSet'
    <3>1. lockReg \subseteq lockReg'
      BY <2>3 DEF SetWrite
    <3>2. pc' = [pc EXCEPT ![s] = "idle"] /\ attr' = [attr EXCEPT ![s] = NoAttribute]
          /\ val' = [val EXCEPT ![s] = {}]
      BY <2>3 DEF SetWrite, StoreCtrl, Goto
    <3>3. StoresPending'
      BY <1>1, <3>1, <3>2 DEF StoresPending, DevcfgType
    <3> QED BY <1>1, <2>3, <3>3, SetStoreShows
  <2>4. ASSUME NEW on \in BOOLEAN, SetPartial(s, on) PROVE StoresPending' /\ ShowsWhatWasSet'
    <3>1. UNCHANGED <<ctrl, lockReg, last, all, pc, attr, val>> /\ stale' = stale
      BY <2>4 DEF SetPartial, regs
    <3> QED BY <1>3, <1>4, <3>1
  <2> QED BY <1>6, <2>1, <2>2, <2>3, <2>4 DEF SetterStep
<1>7. CASE HardwareStep
  <2>1. UNCHANGED <<ctrl, lockReg, last, all, pc, attr, val>> /\ stale' = stale
    BY <1>7 DEF HardwareStep, InitFollows, Irq, DmaDone, log
  <2> QED BY <1>3, <1>4, <2>1
<1>8. CASE UNCHANGED Devcfgvars
  <2>1. UNCHANGED <<ctrl, lockReg, last, all, pc, attr, val>> /\ stale' = stale
    BY <1>8 DEF Devcfgvars, regs, log
  <2> QED BY <1>3, <1>4, <2>1
<1> QED BY <1>5, <1>6, <1>7, <1>8, StepKinds

(* ShowsWhatWasSet, for any number of threads and all ten attributes.      *)
(* Every attribute shows the value stored in it last (enable_dap and the   *)
(* locks: every bit stored so far), through resets of the PL, opens, locks *)
(* and the stores to other attributes, as long as no register is written   *)
(* from an outdated value.                                                 *)
THEOREM AttributesKept == DevcfgSpec => []ShowsWhatWasSet
<1>1. DevcfgInit => StoreInv
  BY ControlInit, StoreInit DEF StoreInv
<1>2. StoreInv /\ [DevcfgNext]_Devcfgvars => StoreInv'
  BY StoreStep
<1>3. StoreInv => ShowsWhatWasSet
  BY DEF StoreInv
<1> QED BY <1>1, <1>2, <1>3, PTL DEF DevcfgSpec

----------------------------------------------------------------------------
(* Isolation and PCAP_PR: every action of a user. *)
LEMMA UserMode ==
  ASSUME NEW u \in User, DevcfgType, OneHolder, ModeHeld, ~stale',
         OpenBegin(u) \/ TransferBegin(u) \/ Release(u) \/ UserStep(u)
  PROVE  ModeHeld'
<1> USE DEF Goto, regs, drv, use, log, Opening, Transfer, Leaving, Locked, DevcfgType,
            OneHolder, ModeHeld
<1>20. ASSUME NEW from, NEW to, NEW v, CtrlStep(u, from, to, v)
       PROVE  /\ pc[u] = from /\ pc' = [pc EXCEPT ![u] = to]
              /\ files' = files /\ isOpen' = isOpen /\ partial' = partial /\ isolated' = isolated
              /\ val[u] = ctrl /\ ("PCAP_PR" \in ctrl' <=> "PCAP_PR" \in v)
  BY <1>20 DEF CtrlStep, StoreCtrl, Protected, DapBits
<1>1. CASE OpenBegin(u)
  BY <1>1 DEF OpenBegin
<1>2. CASE TransferBegin(u)
  BY <1>2 DEF TransferBegin, Transferring, Releasing
<1>3. CASE Release(u)
  BY <1>3 DEF Release, LoadCtrl, Transferring, Releasing
<1>4. CASE OpenBusy(u)
  BY <1>4 DEF OpenBusy, Unlock
<1>5. CASE OpenMode(u)
  BY <1>5 DEF OpenMode, LoadCtrl
<1>6. CASE OpenPartial(u)
  BY <1>6, <1>20 DEF OpenPartial
<1>7. CASE OpenReset(u)
  BY <1>7 DEF OpenReset, LoadCtrl
<1>8. CASE ProgLow(u)
  BY <1>8, <1>20 DEF ProgLow
<1>9. CASE InitLow(u)
  BY <1>9 DEF InitLow
<1>10. CASE ProgRead(u)
  BY <1>10 DEF ProgRead, LoadCtrl
<1>11. CASE ProgHigh(u)
  BY <1>11, <1>20 DEF ProgHigh
<1>12. CASE InitHigh(u)
  BY <1>12 DEF InitHigh
<1>13. CASE OpenEnd(u)
  BY <1>13 DEF OpenEnd, Unlock
<1>14. CASE TransferSetup(u)
  BY <1>14 DEF TransferSetup
<1>15. CASE PollDone(u)
  BY <1>15 DEF PollDone
<1>16. CASE PollTimeout(u)
  BY <1>16 DEF PollTimeout, TransferEnd, Unlock
<1>17. CASE Finish(u)
  BY <1>17 DEF Finish, TransferEnd, Unlock
<1>18. CASE PartialOff(u)
  BY <1>18, <1>20 DEF PartialOff
<1>19. CASE Closing(u)
  BY <1>19 DEF Closing
<1> QED BY <1>1, <1>2, <1>3, <1>4, <1>5, <1>6, <1>7, <1>8, <1>9, <1>10, <1>11, <1>12, <1>13, <1>14, <1>15, <1>16, <1>17, <1>18, <1>19 DEF UserStep

(* An attribute store that is not outdated keeps the PCAP mode. *)
LEMMA SetterMode ==
  ASSUME NEW s \in Setter, DevcfgType, OneHolder, ModeHeld, ~stale', ~toggled', SetterStep(s)
  PROVE  ModeHeld'
<1>1. ASSUME NEW u \in User PROVE pc'[u] = pc[u]
  <2>1. pc' = pc \/ \E where : pc' = [pc EXCEPT ![s] = where]
    BY DEF SetterStep, SetRead, SetInvalid, SetWrite, SetPartial, Goto
  <2> QED BY <2>1, DevcfgAssumption DEF DevcfgType
<1>2. isOpen' = isOpen /\ isolated' = isolated
  BY DEF SetterStep, SetRead, SetInvalid, SetWrite, SetPartial, regs, drv
<1>3. ASSUME UNCHANGED <<ctrl, partial>> PROVE ModeHeld'
  BY <1>1, <1>2, <1>3 DEF ModeHeld
<1>4. CASE SetRead(s) \/ SetInvalid(s)
  BY <1>3, <1>4 DEF SetRead, SetInvalid, drv
<1>5. ASSUME NEW x \in Values(attr[s]), SetWrite(s, x) PROVE ModeHeld'
  <2>1. partial' = partial
    BY <1>5 DEF SetWrite, drv
  <2>2. "PCAP_PR" \notin attr[s].set /\ "PCAP_PR" \notin attr[s].clear
    BY <1>5, StoreOfAttr, AttributeFacts
  <2>4. "PCAP_PR" \notin x
    BY <1>5, <2>2, StoreOfAttr, ValueFacts
  <2>3. "PCAP_PR" \in ctrl' <=> "PCAP_PR" \in ctrl
    <3>1. CASE StoreCtrl(s, Stored(attr[s], val[s], x))
      <4>1. val[s] = ctrl
        BY <3>1 DEF StoreCtrl
      <4> QED BY <2>2, <2>4, <3>1, <4>1 DEF StoreCtrl, Stored, Protected, DapBits
    <3>2. CASE ctrl' = ctrl
      BY <3>2
    <3> QED BY <1>5, <3>1, <3>2 DEF SetWrite
  <2> QED BY <1>1, <1>2, <2>1, <2>3 DEF ModeHeld
<1>6. ASSUME NEW on \in BOOLEAN, SetPartial(s, on) PROVE ModeHeld'
  <2>1. ctrl' = ctrl /\ partial' = on /\ (toggled' <=> toggled \/ (isOpen /\ on # partial))
    BY <1>6 DEF SetPartial
  <2>2. CASE isOpen
    BY <1>3, <2>1, <2>2
  <2>3. CASE ~isOpen
    <3>1. \A u \in User : pc[u] \notin {"openPartial", "partialOff"}
      BY <2>3 DEF OneHolder, Opening, Leaving
    <3> QED BY <1>1, <1>2, <2>1, <2>3, <3>1 DEF ModeHeld
  <2> QED BY <2>2, <2>3
<1> QED BY <1>4, <1>5, <1>6 DEF SetterStep

(* The history variables are not cleared. *)
LEMMA HistoryGrows ==
  ASSUME [DevcfgNext]_Devcfgvars PROVE (stale => stale') /\ (toggled => toggled')
<1>1. ASSUME NEW t, NEW v, StoreCtrl(t, v) PROVE stale => stale'
  BY <1>1, Zenon DEF StoreCtrl
<1>2. ASSUME NEW u \in User, OpenBegin(u) \/ TransferBegin(u) \/ Release(u) \/ UserStep(u)
      PROVE  (stale => stale') /\ toggled' = toggled
  <2>1. toggled' = toggled
    BY <1>2 DEF OpenBegin, TransferBegin, Release, UserStep, OpenBusy, OpenMode, OpenPartial,
       OpenReset, ProgLow, InitLow, ProgRead, ProgHigh, InitHigh, OpenEnd, TransferSetup, PollDone,
       PollTimeout, Finish, PartialOff, Closing, CtrlStep, log
  <2>2. stale' = stale \/ \E v : StoreCtrl(u, v)
    BY <1>2 DEF OpenBegin, TransferBegin, Release, UserStep, OpenBusy, OpenMode, OpenPartial,
       OpenReset, ProgLow, InitLow, ProgRead, ProgHigh, InitHigh, OpenEnd, TransferSetup, PollDone,
       PollTimeout, Finish, PartialOff, Closing, CtrlStep
  <2> QED BY <1>1, <2>1, <2>2
<1>3. ASSUME NEW s \in Setter, SetterStep(s) PROVE (stale => stale') /\ (toggled => toggled')
  <2>1. stale' = stale \/ \E v : StoreCtrl(s, v)
    BY <1>3, Zenon DEF SetterStep, SetRead, SetInvalid, SetWrite, SetPartial
  <2>2. toggled => toggled'
    BY <1>3 DEF SetterStep, SetRead, SetInvalid, SetWrite, SetPartial, log
  <2> QED BY <1>1, <2>1, <2>2
<1>4. ASSUME HardwareStep \/ UNCHANGED Devcfgvars PROVE stale' = stale /\ toggled' = toggled
  BY <1>4 DEF HardwareStep, InitFollows, DmaDone, Irq, log, Devcfgvars
<1> QED BY <1>2, <1>3, <1>4, StepKinds

(* Every step keeps the mode. *)
LEMMA ModeStep == ASSUME ModeInv, [DevcfgNext]_Devcfgvars PROVE ModeInv'
<1>1. DevcfgType /\ OneHolder /\ DevcfgType' /\ OneHolder'
  BY ControlStep DEF ModeInv
<1>2. SUFFICES ASSUME ~toggled', ~stale' PROVE ModeHeld'
  BY <1>1 DEF ModeInv
<1>3. ModeHeld
  BY <1>2, HistoryGrows DEF ModeInv
<1>4. ASSUME UNCHANGED <<pc, ctrl, isOpen, isolated, partial>> PROVE ModeHeld'
  BY <1>3, <1>4 DEF ModeHeld
<1>5. CASE HardwareStep
  BY <1>4, <1>5 DEF HardwareStep, InitFollows, DmaDone, Irq, drv
<1>6. CASE UNCHANGED Devcfgvars
  BY <1>4, <1>6 DEF Devcfgvars, regs, drv
<1> QED BY <1>1, <1>2, <1>3, <1>5, <1>6, StepKinds, UserMode, SetterMode

(* With the device closed, whatever the threads did before, the PL is      *)
(* connected and PCAP_PR is clear: release undoes what open did, unless    *)
(* is_partial_bitstream or an outdated store came in between.              *)
THEOREM PlConnectedWhenClosed == DevcfgSpec => []ModeRestored
<1>1. DevcfgInit => ModeHeld
  BY DEF DevcfgInit, ModeHeld
<1>2. DevcfgInit => ModeInv
  BY <1>1, ControlInit DEF ModeInv
<1>3. ModeInv /\ [DevcfgNext]_Devcfgvars => ModeInv'
  BY ModeStep
<1>4. ModeInv => ModeRestored
  BY DEF ModeInv, ModeHeld, ModeRestored
<1> QED BY <1>2, <1>3, <1>4, PTL DEF DevcfgSpec
----------------------------------------------------------------------------
(* The life of the driver: resources. *)
At == {"set", "create", "prepare", "data", "group", "find", "free", "unregister", "enable", "lost"}
Store == {NoStore} \cup [at : At, c : Fclk, on : BOOLEAN]

LifeType ==
  /\ phase \in {"unbound", "probing", "unwinding", "bound", "removing", "draining"}
  /\ step \in Nat /\ held \subseteq Resource
  /\ exported \in [Fclk -> BOOLEAN] /\ enabled \in [Fclk -> BOOLEAN]
  /\ sub \in [Fclk -> {"none", "bare", "ready"}]
  /\ prepares \in [Fclk -> Nat] /\ enables \in [Fclk -> Nat]
  /\ pend \in [Writer -> Store]

(* What is held lies behind probe, or in front of its cleanup; only a      *)
(* probe that failed silently is bound without its class.                  *)
Acquired ==
  /\ phase = "probing" => /\ step \in 1..6 /\ retval = "ok" /\ (step > 4 => "class" \in held)
                          /\ held \subseteq {ProbeOrder[i] : i \in 1..step-1} \cup {"fclk"}
  /\ phase = "unwinding" => /\ step \in 1..5 /\ (retval = "ok" => silent)
                            /\ held \subseteq {Unwinding[i] : i \in step..4} \cup {"fclk"}
                                              \cup (IF retval = "ok" THEN {"cdev"} ELSE {})
  /\ phase \in {"removing", "draining"} => step # 0 /\ "region" \notin held /\ "attrs" \notin held
  /\ phase \in {"bound", "removing", "draining"} => silent \/ "class" \in held
  /\ phase = "unbound" => held \subseteq {"fclk"}

(* The clocks.  A store for a clock owns it: flag, device and count of the *)
(* clock are those of the place where the store is; without one they agree *)
(* with each other.                                                        *)
ClockIs(c, s, e, n) == sub[c] = s /\ exported[c] = e /\ prepares[c] = n

Fits(p) ==
  \/ p.at = "set" /\ ClockIs(p.c, "none", FALSE, 0)
  \/ p.at = "create" /\ ClockIs(p.c, "none", TRUE, 0)
  \/ p.at = "prepare" /\ ClockIs(p.c, "bare", TRUE, 0)
  \/ p.at = "data" /\ ClockIs(p.c, "bare", TRUE, 1)
  \/ p.at \in {"group", "find"} /\ ClockIs(p.c, "ready", TRUE, 1)
  \/ p.at = "free" /\ ClockIs(p.c, "ready", FALSE, 1)
  \/ p.at = "unregister" /\ ClockIs(p.c, "bare", FALSE, 0)
  \/ p.at = "enable" /\ ClockIs(p.c, "ready", TRUE, 1) /\ enabled[p.c] # p.on

Settled(c) == IF exported[c] THEN ClockIs(c, "ready", TRUE, 1) ELSE ClockIs(c, "none", FALSE, 0)

Counted(c) == enables[c] = IF sub[c] = "ready" /\ enabled[c] THEN 1 ELSE 0

Apart(p, q) == p.c # q.c /\ (p.at \in Unexporting => q.at = "enable")

StoresKept ==
  /\ \A w \in Writer : pend[w] # NoStore => Fits(pend[w])
  /\ \A v, w \in Writer : v # w /\ pend[v] # NoStore /\ pend[w] # NoStore => Apart(pend[v], pend[w])

ClocksKept ==
  /\ \A c \in Fclk : Counted(c)
  /\ \A c \in Fclk : (\A w \in Writer : pend[w].c # c) => Settled(c)

PhaseKept ==
  /\ ~oops
  /\ phase # "bound" => \A w \in Writer : pend[w] = NoStore
  /\ phase = "removing" => \A c \in Fclk : c < step => ~exported[c]
  /\ phase \notin {"bound", "removing"} => \A c \in Fclk : ~exported[c]

Kept == StoresKept /\ ClocksKept /\ PhaseKept

LifeInv == LifeType /\ Acquired /\ (Orderly => Kept)

(* The order of probe against the order of its labels. *)
LEMMA ProbeTable ==
  /\ Len(ProbeOrder) = 6 /\ Len(Unwinding) = 4
  /\ ProbeOrder[1] = "clk" /\ ProbeOrder[2] = "region" /\ ProbeOrder[3] = "cdev"
  /\ ProbeOrder[4] = "class" /\ ProbeOrder[5] = "device" /\ ProbeOrder[6] = "attrs"
  /\ Unwinding[1] = "device" /\ Unwinding[2] = "class"
  /\ Unwinding[3] = "region" /\ Unwinding[4] = "clk"
BY DEF ProbeOrder, Unwinding

(* The label a failing step jumps to undoes all that was acquired. *)
LEMMA FailedAtCovers ==
  ASSUME NEW k \in 1..6, NEW r, r = ProbeOrder[k],
         NEW h, h \subseteq {ProbeOrder[i] : i \in 1..k-1}
  PROVE  /\ FailedAt(r) \in 1..5
         /\ (IF r = "attrs" THEN h \ {"cdev"} ELSE h)
              \subseteq {Unwinding[i] : i \in FailedAt(r)..4}
                        \cup (IF r \in Unreported THEN {"cdev"} ELSE {})
<1>1. k = 1 \/ k = 2 \/ k = 3 \/ k = 4 \/ k = 5 \/ k = 6
  OBVIOUS
<1>2. CASE k = 1
  BY <1>2, ProbeTable DEF FailedAt, Unreported
<1>3. CASE k = 2
  BY <1>3, ProbeTable DEF FailedAt, Unreported
<1>4. CASE k = 3
  BY <1>4, ProbeTable DEF FailedAt, Unreported
<1>5. CASE k = 4
  BY <1>5, ProbeTable DEF FailedAt, Unreported
<1>6. CASE k = 5
  BY <1>6, ProbeTable DEF FailedAt, Unreported
<1>7. CASE k = 6
  BY <1>7, ProbeTable DEF FailedAt, Unreported
<1> QED BY <1>1, <1>2, <1>3, <1>4, <1>5, <1>6, <1>7

(* probe and its cleanup. *)
LEMMA ProbeAcquires ==
  ASSUME LifeType, Acquired, Probe \/ ProbeStep \/ ProbeFail \/ Unwind
  PROVE  Acquired' /\ phase' \in {"unbound", "probing", "unwinding", "bound"}
         /\ step' \in Nat /\ held' \subseteq Resource
<1> USE ProbeTable DEF LifeType, Acquired
<1>1. CASE Probe
  BY <1>1 DEF Probe
<1>2. CASE ProbeStep
  <2>0. phase = "probing" /\ step \in 1..6 /\ ProbeOrder[step] \in Resource
        /\ held \subseteq {ProbeOrder[i] : i \in 1..step-1} \cup {"fclk"}
    BY <1>2 DEF ProbeStep, Resource
  <2>1. CASE step = 6
    <3>1. PICK refs \in SUBSET {"fclk"} : held' = held \cup {ProbeOrder[step]} \cup refs
      BY <1>2, <2>1 DEF ProbeStep
    <3>2. phase' = "bound" /\ step' = 1
      BY <1>2, <2>1 DEF ProbeStep
    <3>3. held' \subseteq Resource /\ "class" \in held'
      BY <2>0, <2>1, <3>1 DEF Resource
    <3> QED BY <3>2, <3>3
  <2>2. CASE step # 6
    <3>1. phase' = "probing" /\ step' = step + 1 /\ step' \in 1..6
          /\ held' = held \cup {ProbeOrder[step]} /\ retval' = retval
      BY <1>2, <2>2 DEF ProbeStep
    <3>2. held' \subseteq {ProbeOrder[i] : i \in 1..step'-1} \cup {"fclk"}
      BY <2>0, <3>1
    <3>3. step' > 4 => "class" \in held'
      BY <2>0, <3>1
    <3> QED BY <2>0, <3>1, <3>2, <3>3
  <2> QED BY <2>1, <2>2
<1>3. CASE ProbeFail
  <2> DEFINE r == ProbeOrder[step]
             h == held \ {"fclk"}
             left == IF r = "attrs" THEN h \ {"cdev"} ELSE h
  <2>1. phase = "probing" /\ phase' = "unwinding" /\ step' = FailedAt(r)
        /\ held' \subseteq left \cup {"fclk"} /\ held' \subseteq held
        /\ (silent' <=> silent \/ r \in Unreported)
        /\ retval' = IF r \in Unreported THEN retval ELSE "error"
    BY <1>3 DEF ProbeFail
  <2>2. FailedAt(r) \in 1..5
        /\ left \subseteq {Unwinding[i] : i \in FailedAt(r)..4}
                          \cup (IF r \in Unreported THEN {"cdev"} ELSE {})
    BY <2>1, FailedAtCovers
  <2>3. retval' = IF r \in Unreported THEN "ok" ELSE "error"
    BY <2>1
  <2> HIDE DEF r, left
  <2>4. held' \subseteq {Unwinding[i] : i \in step'..4} \cup {"fclk"}
                        \cup (IF retval' = "ok" THEN {"cdev"} ELSE {})
    BY <2>1, <2>2, <2>3
  <2> QED BY <2>1, <2>2, <2>3, <2>4
<1>4. CASE Unwind
  <2>1. phase = "unwinding" /\ retval' = retval /\ silent' = silent
    BY <1>4 DEF Unwind, lifeHist
  <2>2. CASE step <= 4
    <3>1. phase' = "unwinding" /\ step' = step + 1 /\ held' = held \ {Unwinding[step]}
      BY <1>4, <2>1, <2>2 DEF Unwind
    <3>2. held' \subseteq {Unwinding[i] : i \in step'..4} \cup {"fclk"}
                          \cup (IF retval' = "ok" THEN {"cdev"} ELSE {})
      BY <2>1, <3>1
    <3> QED BY <2>1, <2>2, <3>1, <3>2
  <2>3. CASE ~(step <= 4)
    <3>1. phase' = (IF retval = "ok" THEN "bound" ELSE "unbound") /\ step' = 1 /\ held' = held
      BY <1>4, <2>3 DEF Unwind
    <3>2. held \subseteq {"fclk"} \cup (IF retval = "ok" THEN {"cdev"} ELSE {})
      BY <2>1, <2>3
    <3> QED BY <2>1, <3>1, <3>2
  <2> QED BY <2>2, <2>3
<1> QED BY <1>1, <1>2, <1>3, <1>4

(* Remove and the stores, with respect to the resources. *)
LEMMA RemoveAcquires ==
  ASSUME LifeType, Acquired, RemoveBegin \/ RemoveClock \/ RemoveClass \/ RemoveEnd
  PROVE  Acquired' /\ phase' \in {"unbound", "removing", "draining"}
         /\ step' \in Nat /\ held' \subseteq Resource
<1> USE DEF LifeType, Acquired, lifeHist
<1>1. CASE RemoveBegin
  BY <1>1 DEF RemoveBegin
<1>2. CASE RemoveClock
  BY <1>2 DEF RemoveClock
<1>3. CASE RemoveClass
  BY <1>3 DEF RemoveClass
<1>4. CASE RemoveEnd
  BY <1>4 DEF RemoveEnd, Resource
<1> QED BY <1>1, <1>2, <1>3, <1>4

(* The stores have nothing to do with probe and remove. *)
LEMMA SysfsLife ==
  ASSUME NEW w \in Writer, SysfsStep(w)
  PROVE  UNCHANGED <<phase, step, held, retval, fclkReady, silent>>
BY DEF SysfsStep, ExportTest, UnexportTest, EnableTest, Begin, ExportSet, ExportCreate,
       ExportPrepare, ExportData, ExportGroup, OrBreaks, UnexportFind, UnexportFree, UnexportEnd,
       EnableDo, StoreOops, life, lifeHist

----------------------------------------------------------------------------
(* The clocks: types. *)
LEMMA PendFacts ==
  ASSUME LifeType, NEW w \in Writer
  PROVE  /\ pend[w] \in Store /\ (pend[w].at = "none" <=> pend[w] = NoStore)
         /\ pend[w] # NoStore => pend[w].c \in Fclk /\ pend[w].on \in BOOLEAN /\ pend[w].at \in At
         /\ pend[w] = NoStore => pend[w].c \notin Fclk
BY DEF LifeType, Store, NoStore, At, Fclk

(* A store that moves on. *)
LEMMA MovedType ==
  ASSUME NEW p \in Store, p # NoStore, NEW to \in At \cup {"none"}
  PROVE  /\ Moved(p, to) \in Store
         /\ to # "none" => Moved(p, to).at = to /\ Moved(p, to).c = p.c /\ Moved(p, to).on = p.on
         /\ to # "none" => Moved(p, to) # NoStore
         /\ to = "none" => Moved(p, to) = NoStore
<1>1. p \in [at : At, c : Fclk, on : BOOLEAN]
  BY DEF Store
<1>2. CASE to = "none"
  BY <1>2 DEF Moved, Store
<1>3. CASE to # "none"
  <2>1. to \in At /\ Moved(p, to) = [p EXCEPT !.at = to]
    BY <1>3 DEF Moved
  <2>2. [p EXCEPT !.at = to] \in [at : At, c : Fclk, on : BOOLEAN]
        /\ [p EXCEPT !.at = to].at = to /\ [p EXCEPT !.at = to].c = p.c /\ [p EXCEPT !.at = to].on = p.on
    BY <1>1, <2>1
  <2>3. NoStore.at = "none"
    BY DEF NoStore
  <2> QED BY <1>3, <2>1, <2>2, <2>3 DEF Store
<1> QED BY <1>2, <1>3

(* Losing a pointer keeps the types. *)
LEMMA LoseType ==
  ASSUME LifeType, NEW c \in Fclk, NEW ats PROVE Lose(c, ats) \in [Writer -> Store]
<1>1. ASSUME NEW v \in Writer
      PROVE  (IF pend[v].c = c /\ pend[v].at \in ats THEN Moved(pend[v], "lost") ELSE pend[v]) \in Store
  <2>1. pend[v].c = c => Moved(pend[v], "lost") \in Store
    BY PendFacts, MovedType DEF At
  <2> QED BY <2>1, PendFacts
<1> QED BY <1>1 DEF Lose

(* Counting down. *)
LEMMA CountType ==
  ASSUME LifeType, NEW c \in Fclk
  PROVE  Unprepared(c) \in [Fclk -> Nat] /\ (GiveBack(c) => prepares' \in [Fclk -> Nat] /\ enables' \in [Fclk -> Nat])
<1>1. \A n \in Nat : n > 0 => n - 1 \in Nat
  OBVIOUS
<1> QED BY <1>1 DEF LifeType, Unprepared, GiveBack

ClockType ==
  /\ exported \in [Fclk -> BOOLEAN] /\ enabled \in [Fclk -> BOOLEAN]
  /\ sub \in [Fclk -> {"none", "bare", "ready"}]
  /\ prepares \in [Fclk -> Nat] /\ enables \in [Fclk -> Nat]
  /\ pend \in [Writer -> Store]

(* Every step of a store keeps the types. *)
LEMMA SysfsType ==
  ASSUME LifeType, NEW w \in Writer, SysfsStep(w) PROVE ClockType'
<1> DEFINE c == pend[w].c
<1>0. ClockType /\ pend[w] \in Store
  BY DEF ClockType, LifeType
<1>1. ASSUME NEW at \in At, NEW d \in Fclk, NEW on \in BOOLEAN, Begin(w, at, d, on) PROVE ClockType'
  <2>1. [at |-> at, c |-> d, on |-> on] \in Store
    BY DEF Store
  <2> QED BY <1>0, <1>1, <2>1 DEF Begin, clocks, ClockType
<1>2. CASE \E d \in Fclk : \/ ExportTest(w, d) \/ UnexportTest(w, d)
                           \/ \E on \in BOOLEAN : EnableTest(w, d, on)
  BY <1>1, <1>2 DEF ExportTest, UnexportTest, EnableTest, At
<1>3. ASSUME NEW from \in At, NEW to \in At \cup {"none"}, Goes(w, from, to)
      PROVE  c \in Fclk /\ pend[w] # NoStore /\ pend' \in [Writer -> Store]
  <2>1. pend[w].at # "none"
    BY <1>3 DEF Goes, At
  <2>2. Moved(pend[w], to) \in Store /\ c \in Fclk
    BY <2>1, PendFacts, MovedType
  <2> QED BY <1>0, <1>3, <2>1, <2>2, PendFacts DEF Goes, ClockType
<1>4. ASSUME NEW from \in At, NEW to \in At \cup {"none"}, NEW ok, OrBreaks(w, from, to, ok)
      PROVE  c \in Fclk /\ pend' \in [Writer -> Store]
  <2>1. PICK t \in At \cup {"none"} : Goes(w, from, t)
    BY <1>4 DEF OrBreaks
  <2> QED BY <1>3, <2>1
<1>5. CASE ExportSet(w)
  <2>1. c \in Fclk /\ pend' \in [Writer -> Store]
    BY <1>3, <1>5 DEF ExportSet, At
  <2>2. exported' = [exported EXCEPT ![c] = TRUE] /\ UNCHANGED <<sub, enabled, prepares, enables>>
    BY <1>5 DEF ExportSet
  <2> HIDE DEF c
  <2> QED BY <1>0, <2>1, <2>2 DEF ClockType
<1>6. ASSUME NEW ok \in BOOLEAN, ExportCreate(w, ok) PROVE ClockType'
  <2>1. c \in Fclk /\ pend' \in [Writer -> Store]
    BY <1>4, <1>6 DEF ExportCreate, At
  <2>2. (sub' = sub \/ sub' = [sub EXCEPT ![c] = "bare"]) /\ UNCHANGED <<exported, enabled, prepares, enables>>
    BY <1>6 DEF ExportCreate
  <2> HIDE DEF c
  <2> QED BY <1>0, <2>1, <2>2 DEF ClockType
<1>7. ASSUME NEW ok \in BOOLEAN, ExportPrepare(w, ok) PROVE ClockType'
  <2>1. c \in Fclk /\ pend' \in [Writer -> Store]
    BY <1>4, <1>7 DEF ExportPrepare, At
  <2>2. (prepares' = prepares \/ prepares' = [prepares EXCEPT ![c] = prepares[c] + 1])
        /\ UNCHANGED <<exported, sub, enabled, enables>>
    BY <1>7 DEF ExportPrepare
  <2> HIDE DEF c
  <2> QED BY <1>0, <2>1, <2>2 DEF ClockType
<1>8. ASSUME NEW ok \in BOOLEAN, ExportData(w, ok) PROVE ClockType'
  <2>1. c \in Fclk /\ pend' \in [Writer -> Store]
    BY <1>4, <1>8 DEF ExportData, At
  <2>2. /\ sub' = sub \/ sub' = [sub EXCEPT ![c] = "ready"]
        /\ enabled' = enabled \/ enabled' = [enabled EXCEPT ![c] = FALSE]
        /\ prepares' = prepares \/ prepares' = Unprepared(c)
        /\ UNCHANGED <<exported, enables>>
    BY <1>8 DEF ExportData
  <2>3. Unprepared(c) \in [Fclk -> Nat]
    BY <2>1, CountType
  <2> HIDE DEF c
  <2> QED BY <1>0, <2>1, <2>2, <2>3 DEF ClockType
<1>9. ASSUME NEW ok \in BOOLEAN, ExportGroup(w, ok) PROVE ClockType'
  <2>1. c \in Fclk /\ pend' \in [Writer -> Store]
    BY <1>4, <1>9 DEF ExportGroup, At
  <2>2. /\ sub' = sub \/ sub' = [sub EXCEPT ![c] = "bare"]
        /\ prepares' = prepares \/ prepares' = Unprepared(c)
        /\ UNCHANGED <<exported, enabled, enables>>
    BY <1>9 DEF ExportGroup
  <2>3. Unprepared(c) \in [Fclk -> Nat]
    BY <2>1, CountType
  <2> HIDE DEF c
  <2> QED BY <1>0, <2>1, <2>2, <2>3 DEF ClockType
<1>10. CASE UnexportFind(w)
  <2>1. c \in Fclk /\ pend' \in [Writer -> Store]
    BY <1>3, <1>10 DEF UnexportFind, At
  <2>2. exported' = [exported EXCEPT ![c] = FALSE] /\ UNCHANGED <<sub, enabled, prepares, enables>>
    BY <1>10 DEF UnexportFind
  <2> HIDE DEF c
  <2> QED BY <1>0, <2>1, <2>2 DEF ClockType
<1>11. CASE UnexportFree(w)
  <2>1. pend[w].at = "free" /\ GiveBack(c) /\ sub' = [sub EXCEPT ![c] = "bare"]
        /\ pend' = [Lose(c, {"enable", "free"}) EXCEPT ![w] = Moved(pend[w], "unregister")]
        /\ UNCHANGED <<exported, enabled>>
    BY <1>11 DEF UnexportFree
  <2>2. c \in Fclk /\ pend[w] # NoStore
    BY <2>1, PendFacts
  <2>3. Lose(c, {"enable", "free"}) \in [Writer -> Store] /\ Moved(pend[w], "unregister") \in Store
    BY <2>2, LoseType, MovedType, <1>0 DEF At
  <2>4. prepares' \in [Fclk -> Nat] /\ enables' \in [Fclk -> Nat]
    BY <2>1, <2>2, CountType
  <2> HIDE DEF c
  <2> QED BY <1>0, <2>1, <2>2, <2>3, <2>4 DEF ClockType
<1>12. CASE UnexportEnd(w)
  <2>1. pend[w].at = "unregister" /\ sub' = [sub EXCEPT ![c] = "none"]
        /\ pend' = [Lose(c, {"group"}) EXCEPT ![w] = NoStore]
        /\ UNCHANGED <<exported, enabled, prepares, enables>>
    BY <1>12 DEF UnexportEnd
  <2>2. c \in Fclk /\ NoStore \in Store
    BY <2>1, PendFacts DEF Store
  <2>3. Lose(c, {"group"}) \in [Writer -> Store]
    BY <2>2, LoseType
  <2> HIDE DEF c
  <2> QED BY <1>0, <2>1, <2>2, <2>3 DEF ClockType
<1>13. ASSUME NEW ok \in BOOLEAN, EnableDo(w, ok) PROVE ClockType'
  <2>1. c \in Fclk /\ pend[w] # NoStore /\ pend' \in [Writer -> Store]
    BY <1>3, <1>13 DEF EnableDo, At
  <2>2. pend[w].on \in BOOLEAN
    BY <2>1, PendFacts
  <2>3. /\ enables' = [enables EXCEPT ![c] = IF pend[w].on /\ ok THEN enables[c] + 1
                                             ELSE IF ~pend[w].on /\ enables[c] > 0 THEN enables[c] - 1
                                             ELSE enables[c]]
        /\ enabled' = [enabled EXCEPT ![c] = IF ok THEN pend[w].on ELSE enabled[c]]
        /\ UNCHANGED <<exported, sub, prepares>>
    BY <1>13 DEF EnableDo
  <2> HIDE DEF c
  <2>4. enables[c] \in Nat /\ enabled[c] \in BOOLEAN
    BY <1>0, <2>1 DEF ClockType
  <2>5. (IF pend[w].on /\ ok THEN enables[c] + 1
         ELSE IF ~pend[w].on /\ enables[c] > 0 THEN enables[c] - 1 ELSE enables[c]) \in Nat
    BY <2>4
  <2>6. (IF ok THEN pend[w].on ELSE enabled[c]) \in BOOLEAN
    BY <2>2, <2>4, Zenon
  <2>7. enables' \in [Fclk -> Nat]
    BY <1>0, <2>3, <2>5, Zenon DEF ClockType
  <2>8. enabled' \in [Fclk -> BOOLEAN]
    BY <1>0, <2>3, <2>6, Zenon DEF ClockType
  <2> QED BY <1>0, <2>1, <2>3, <2>7, <2>8 DEF ClockType
<1>14. CASE StoreOops(w)
  BY <1>0, <1>14 DEF StoreOops, clocks, ClockType
<1> QED BY <1>2, <1>5, <1>6, <1>7, <1>8, <1>9, <1>10, <1>11, <1>12, <1>13, <1>14 DEF SysfsStep

(* remove and probe keep the types of the clocks. *)
LEMMA DriverType ==
  ASSUME LifeType, Probe \/ ProbeStep \/ ProbeFail \/ Unwind \/ RemoveBegin \/ RemoveClock
                   \/ RemoveClass \/ RemoveEnd \/ RemoveOops
  PROVE  ClockType'
<1>0. ClockType
  BY DEF ClockType, LifeType
<1>1. CASE Probe
  BY <1>0, <1>1 DEF Probe, ClockType
<1>2. CASE ProbeStep \/ ProbeFail \/ Unwind \/ RemoveBegin \/ RemoveClass \/ RemoveEnd \/ RemoveOops
  BY <1>0, <1>2 DEF ProbeStep, ProbeFail, Unwind, RemoveBegin, RemoveClass, RemoveEnd, RemoveOops,
                    clocks, ClockType
<1>3. CASE RemoveClock
  <2>1. CASE ~exported[step]
    BY <1>0, <1>3, <2>1 DEF RemoveClock, ClockType
  <2>2. CASE exported[step]
    <3>1. step \in Fclk /\ GiveBack(step) /\ sub' = [sub EXCEPT ![step] = "none"]
          /\ exported' = [exported EXCEPT ![step] = FALSE] /\ enabled' = enabled
          /\ pend' = Lose(step, {"enable", "free", "group"})
      BY <1>3, <2>2 DEF RemoveClock
    <3>2. prepares' \in [Fclk -> Nat] /\ enables' \in [Fclk -> Nat] /\ pend' \in [Writer -> Store]
      BY <3>1, CountType, LoseType
    <3> QED BY <1>0, <3>1, <3>2 DEF ClockType
  <2> QED BY <2>1, <2>2
<1> QED BY <1>1, <1>2, <1>3

(* The other stores are for other clocks. *)
LEMMA OwnClock ==
  ASSUME LifeType, StoresKept, NEW w \in Writer, pend[w] # NoStore, NEW v \in Writer, v # w
  PROVE  pend[v].c # pend[w].c
<1>1. pend[v] = NoStore => pend[v].c # pend[w].c
  BY PendFacts
<1> QED BY <1>1 DEF StoresKept, Apart

(* What is given back of a clock that is prepared once. *)
LEMMA LastGivenBack ==
  ASSUME NEW c, GiveBack(c), prepares[c] = 1, enables[c] = IF enabled[c] THEN 1 ELSE 0
  PROVE  prepares' = [prepares EXCEPT ![c] = 0] /\ enables' = [enables EXCEPT ![c] = 0]
<1> DEFINE n == IF prepares[c] > 0 THEN prepares[c] - 1 ELSE prepares[c]
           m == IF enabled[c] /\ enables[c] > 0 THEN enables[c] - 1 ELSE enables[c]
<1>1. n = 0
  OBVIOUS
<1>2. m = 0
  <2>1. CASE enabled[c]
    <3>1. enables[c] = 1
      BY <2>1
    <3> QED BY <2>1, <3>1
  <2>2. CASE ~enabled[c]
    <3>1. enables[c] = 0
      BY <2>2
    <3> QED BY <2>2, <3>1
  <2> QED BY <2>1, <2>2
<1>3. prepares' = [prepares EXCEPT ![c] = n] /\ enables' = [enables EXCEPT ![c] = m]
  BY Zenon DEF GiveBack, Unprepared
<1> HIDE DEF n, m
<1> QED BY <1>1, <1>2, <1>3

(* So nobody loses a pointer. *)
LEMMA NobodyLoses ==
  ASSUME LifeType, StoresKept, NEW w \in Writer, pend[w] # NoStore, NEW ats, NEW q
  PROVE  [Lose(pend[w].c, ats) EXCEPT ![w] = q] = [pend EXCEPT ![w] = q]
<1> DEFINE l == Lose(pend[w].c, ats)
<1>1. ASSUME NEW v \in Writer, v # w PROVE l[v] = pend[v]
  BY <1>1, OwnClock DEF Lose
<1>2. DOMAIN l = Writer /\ DOMAIN pend = Writer
  BY DEF Lose, LifeType
<1> HIDE DEF l
<1>3. [l EXCEPT ![w] = q] = [v \in Writer |-> IF v = w THEN q ELSE l[v]]
      /\ [pend EXCEPT ![w] = q] = [v \in Writer |-> IF v = w THEN q ELSE pend[v]]
  BY <1>2, Zenon
<1>4. \A v \in Writer : (IF v = w THEN q ELSE l[v]) = (IF v = w THEN q ELSE pend[v])
  BY <1>1
<1>5. [v \in Writer |-> IF v = w THEN q ELSE l[v]] = [v \in Writer |-> IF v = w THEN q ELSE pend[v]]
  BY <1>4
<1> QED BY <1>3, <1>5 DEF l

(* The other clocks are left alone by a store for c. *)
Elsewhere(c) ==
  \A d \in Fclk : d # c =>
    /\ sub'[d] = sub[d] /\ exported'[d] = exported[d] /\ enabled'[d] = enabled[d]
    /\ prepares'[d] = prepares[d] /\ enables'[d] = enables[d]

(* A store that goes on at q and fits its clock, or ends with its clock    *)
(* settled, keeps everything.                                              *)
LEMMA OneMoves ==
  ASSUME LifeType, Kept, NEW w \in Writer, pend[w] # NoStore, NEW c, c = pend[w].c, NEW q,
         pend' = [pend EXCEPT ![w] = q], Elsewhere(c), UNCHANGED <<phase, step, oops>>,
         q # NoStore => /\ q.c = c /\ Fits(q)' /\ pend[w].at # "enable"
                        /\ q.at \in Unexporting => pend[w].at \in Unexporting,
         q = NoStore => Settled(c)',
         Counted(c)'
  PROVE  Kept'
<1>1. c \in Fclk /\ StoresKept /\ ClocksKept /\ PhaseKept /\ pend'[w] = q
      /\ \A v \in Writer : v # w => pend'[v] = pend[v]
  BY PendFacts DEF LifeType, Kept
<1>2. phase = "bound"
  BY <1>1 DEF PhaseKept
<1>3. PhaseKept'
  BY <1>1, <1>2 DEF PhaseKept
<1>4. ASSUME NEW v \in Writer, v # w, pend[v] # NoStore
      PROVE  /\ pend[v].c \in Fclk /\ pend[v].c # c /\ Fits(pend[v])'
             /\ Apart(pend[v], pend[w]) /\ Apart(pend[w], pend[v])
  <2>1. pend[v].c \in Fclk /\ pend[v].c # c
    BY <1>1, <1>4, PendFacts, OwnClock
  <2>2. Fits(pend[v]) /\ Apart(pend[v], pend[w]) /\ Apart(pend[w], pend[v])
    BY <1>1, <1>4 DEF StoresKept
  <2>3. pend'[v] = pend[v]
    BY <1>1, <1>4
  <2> DEFINE d == pend[v].c
  <2>4. sub'[d] = sub[d] /\ exported'[d] = exported[d] /\ enabled'[d] = enabled[d]
        /\ prepares'[d] = prepares[d]
    BY <2>1 DEF Elsewhere
  <2>5. Fits(pend[v])'
    BY <2>2, <2>3, <2>4 DEF Fits, ClockIs
  <2> QED BY <2>1, <2>2, <2>5
<1>5. StoresKept'
  <2>1. ASSUME NEW v \in Writer, pend'[v] # NoStore PROVE Fits(pend[v])'
    <3>1. CASE v = w
      <4>1. pend'[v] = q /\ Fits(q)'
        BY <1>1, <2>1, <3>1
      <4> QED BY <4>1 DEF Fits, ClockIs
    <3>2. CASE v # w
      BY <1>1, <1>4, <2>1, <3>2
    <3> QED BY <3>1, <3>2
  <2>2. ASSUME NEW v \in Writer, NEW u \in Writer, v # u, pend'[v] # NoStore, pend'[u] # NoStore
        PROVE  Apart(pend'[v], pend'[u])
    <3>1. CASE v # w /\ u # w
      BY <1>1, <2>2, <3>1 DEF StoresKept
    <3>2. CASE v = w
      BY <1>1, <1>4, <2>2, <3>2 DEF Apart
    <3>3. CASE u = w
      BY <1>1, <1>4, <2>2, <3>3 DEF Apart
    <3> QED BY <3>1, <3>2, <3>3
  <2> QED BY <2>1, <2>2 DEF StoresKept
<1>6. ClocksKept'
  <2>1. ASSUME NEW d \in Fclk PROVE Counted(d)'
    <3>1. CASE d # c
      BY <1>1, <3>1 DEF Elsewhere, Counted, ClocksKept
    <3> QED BY <3>1
  <2>2. ASSUME NEW d \in Fclk, \A v \in Writer : pend'[v].c # d PROVE Settled(d)'
    <3>1. CASE d # c
      <4>1. ASSUME NEW v \in Writer PROVE pend[v].c # d
        BY <1>1, <2>2, <3>1
      <4>2. Settled(d)
        BY <1>1, <4>1 DEF ClocksKept
      <4> QED BY <3>1, <4>2 DEF Elsewhere, Settled, ClockIs
    <3>2. CASE d = c
      <4>1. q = NoStore
        BY <1>1, <2>2, <3>2
      <4> QED BY <3>2, <4>1
    <3> QED BY <3>1, <3>2
  <2> QED BY <2>1, <2>2 DEF ClocksKept
<1> QED BY <1>3, <1>5, <1>6 DEF Kept

(* A store begins. *)
LEMMA BeginKept ==
  ASSUME LifeType, Kept, NEW w \in Writer, NEW at \in {"set", "find", "enable"}, NEW c \in Fclk,
         NEW on \in BOOLEAN, Begin(w, at, c, on), ~overlap',
         at = "set" => ~exported[c], at = "find" => exported[c],
         at = "enable" => sub[c] = "ready" /\ enabled[c] # on
  PROVE  Kept'
<1> DEFINE q == [at |-> at, c |-> c, on |-> on]
<1>1. /\ pend[w] = NoStore /\ pend' = [pend EXCEPT ![w] = q] /\ phase = "bound"
      /\ \A v \in Writer \ {w} : ~Meets(at, c, v)
      /\ UNCHANGED <<phase, step, oops, exported, sub, enabled, prepares, enables>>
  BY DEF Begin, life, clocks
<1>2. StoresKept /\ ClocksKept /\ PhaseKept /\ pend'[w] = q /\ q.at = at /\ q.c = c /\ q.on = on
      /\ \A v \in Writer : v # w => pend'[v] = pend[v]
  BY <1>1 DEF Kept, LifeType
<1> HIDE DEF q
<1>3. ASSUME NEW v \in Writer, v # w, pend[v] # NoStore
      PROVE  /\ pend[v].c # c
             /\ at # "enable" /\ pend[v].at # "enable" => at # "find" /\ pend[v].at \notin Unexporting
  BY <1>1, <1>3 DEF Meets
<1>4. \A v \in Writer : pend[v].c # c
  BY <1>1, <1>3, PendFacts
<1>5. Settled(c)
  BY <1>2, <1>4 DEF ClocksKept
<1>6. Fits(q)'
  BY <1>1, <1>2, <1>5 DEF Fits, Settled, ClockIs, LifeType
<1>7. StoresKept'
  <2>1. ASSUME NEW v \in Writer, pend'[v] # NoStore PROVE Fits(pend[v])'
    <3>1. CASE v = w
      BY <1>2, <1>6, <3>1
    <3>2. CASE v # w
      <4>1. Fits(pend[v]) /\ pend'[v] = pend[v]
        BY <1>2, <2>1, <3>2 DEF StoresKept
      <4> QED BY <1>1, <4>1 DEF Fits, ClockIs
    <3> QED BY <3>1, <3>2
  <2>2. ASSUME NEW v \in Writer, NEW u \in Writer, v # u, pend'[v] # NoStore, pend'[u] # NoStore
        PROVE  Apart(pend'[v], pend'[u])
    <3>1. CASE v # w /\ u # w
      BY <1>2, <2>2, <3>1 DEF StoresKept
    <3>2. CASE v = w
      BY <1>2, <1>3, <2>2, <3>2 DEF Apart, Unexporting
    <3>3. CASE u = w
      BY <1>2, <1>3, <2>2, <3>3 DEF Apart, Unexporting
    <3> QED BY <3>1, <3>2, <3>3
  <2> QED BY <2>1, <2>2 DEF StoresKept
<1>8. ClocksKept'
  <2>1. ASSUME NEW d \in Fclk PROVE Counted(d)'
    BY <1>1, <1>2 DEF Counted, ClocksKept
  <2>2. ASSUME NEW d \in Fclk, \A v \in Writer : pend'[v].c # d PROVE Settled(d)'
    <3>1. ASSUME NEW v \in Writer PROVE pend[v].c # d
      BY <1>1, <1>2, <2>2, PendFacts
    <3>2. Settled(d)
      BY <1>2, <3>1 DEF ClocksKept
    <3> QED BY <1>1, <3>2 DEF Settled, ClockIs
  <2> QED BY <2>1, <2>2 DEF ClocksKept
<1>9. PhaseKept'
  BY <1>1, <1>2 DEF PhaseKept
<1> QED BY <1>7, <1>8, <1>9 DEF Kept

(* The steps of a store under way. *)
LEMMA StoreMoves ==
  ASSUME LifeType, Kept, NEW w \in Writer, NEW c, c = pend[w].c, Orderly',
         \/ ExportSet(w) \/ UnexportFind(w) \/ UnexportFree(w) \/ UnexportEnd(w) \/ StoreOops(w)
         \/ \E ok \in BOOLEAN : \/ ExportCreate(w, ok) \/ ExportPrepare(w, ok)
                                \/ ExportData(w, ok) \/ ExportGroup(w, ok) \/ EnableDo(w, ok)
  PROVE  Kept'
<1>0. ~broken' /\ ~overlap' /\ StoresKept /\ ClocksKept /\ PhaseKept
  BY DEF Orderly, Kept
<1>2. ASSUME NEW from \in At, pend[w].at = from
      PROVE  /\ pend[w] # NoStore /\ c \in Fclk /\ pend[w] \in Store /\ Fits(pend[w]) /\ Counted(c)
             /\ exported[c] \in BOOLEAN /\ enabled[c] \in BOOLEAN /\ pend[w].on \in BOOLEAN
             /\ prepares[c] \in Nat /\ enables[c] \in Nat
  <2>1. pend[w].at # "none"
    BY <1>2 DEF At
  <2> QED BY <1>0, <2>1, PendFacts DEF StoresKept, ClocksKept, LifeType
<1>3. ASSUME NEW from \in At, NEW to \in At, Goes(w, from, to)
      PROVE  /\ pend[w].at = from /\ pend' = [pend EXCEPT ![w] = Moved(pend[w], to)]
             /\ Moved(pend[w], to) # NoStore /\ Moved(pend[w], to).at = to /\ Moved(pend[w], to).c = c
  <2>1. pend[w].at = from /\ pend' = [pend EXCEPT ![w] = Moved(pend[w], to)]
    BY <1>3 DEF Goes
  <2>2. to # "none"
    BY DEF At
  <2> QED BY <1>2, <2>1, <2>2, MovedType
<1>4. ASSUME NEW from \in At, Goes(w, from, "none")
      PROVE  pend[w].at = from /\ pend' = [pend EXCEPT ![w] = NoStore]
  BY <1>4 DEF Goes, Moved
<1>5. CASE ExportSet(w)
  <2>0. PICK q : q = Moved(pend[w], "create")
    OBVIOUS
  <2>1. pend[w].at = "set" /\ pend' = [pend EXCEPT ![w] = q] /\ q # NoStore /\ q.at = "create" /\ q.c = c
    BY <1>3, <1>5, <2>0 DEF ExportSet, At
  <2>2. c \in Fclk /\ pend[w] # NoStore /\ Fits(pend[w]) /\ Counted(c)
    BY <1>2, <2>1 DEF At
  <2>3. exported' = [exported EXCEPT ![c] = TRUE]
        /\ UNCHANGED <<phase, step, oops, sub, enabled, prepares, enables>>
    BY <1>5 DEF ExportSet, life, lifeHist
  <2>4. Fits(q)'
    BY <2>1, <2>2, <2>3 DEF Fits, ClockIs, LifeType
  <2>5. Elsewhere(c) /\ Counted(c)'
    BY <2>2, <2>3 DEF Elsewhere, Counted, LifeType
  <2> QED BY <2>1, <2>2, <2>3, <2>4, <2>5, OneMoves DEF Unexporting
<1>6. ASSUME NEW ok \in BOOLEAN, ExportCreate(w, ok) PROVE Kept'
  <2>0. PICK q : q = Moved(pend[w], "prepare")
    OBVIOUS
  <2> DEFINE made == ok /\ sub[c] = "none"
  <2>1. made /\ Goes(w, "create", "prepare")
    BY <1>0, <1>6 DEF ExportCreate, OrBreaks
  <2>2. pend[w].at = "create" /\ pend' = [pend EXCEPT ![w] = q] /\ q # NoStore /\ q.at = "prepare" /\ q.c = c
    BY <1>3, <2>0, <2>1 DEF At
  <2>3. c \in Fclk /\ pend[w] # NoStore /\ Fits(pend[w]) /\ Counted(c)
    BY <1>2, <2>2 DEF At
  <2>4. sub' = [sub EXCEPT ![c] = "bare"]
        /\ UNCHANGED <<phase, step, oops, exported, enabled, prepares, enables>>
    BY <1>6, <2>1 DEF ExportCreate, OrBreaks, life
  <2>5. Fits(q)'
    BY <2>2, <2>3, <2>4 DEF Fits, ClockIs, LifeType
  <2>6. Elsewhere(c) /\ Counted(c)'
    BY <2>2, <2>3, <2>4 DEF Elsewhere, Counted, LifeType, Fits, ClockIs
  <2> QED BY <2>2, <2>3, <2>4, <2>5, <2>6, OneMoves DEF Unexporting
<1>7. ASSUME NEW ok \in BOOLEAN, ExportPrepare(w, ok) PROVE Kept'
  <2>0. PICK q : q = Moved(pend[w], "data")
    OBVIOUS
  <2>1. ok /\ Goes(w, "prepare", "data")
    BY <1>0, <1>7 DEF ExportPrepare, OrBreaks
  <2>2. pend[w].at = "prepare" /\ pend' = [pend EXCEPT ![w] = q] /\ q # NoStore /\ q.at = "data" /\ q.c = c
    BY <1>3, <2>0, <2>1 DEF At
  <2>3. c \in Fclk /\ pend[w] # NoStore /\ Fits(pend[w]) /\ Counted(c)
    BY <1>2, <2>2 DEF At
  <2>4. prepares' = [prepares EXCEPT ![c] = prepares[c] + 1]
        /\ UNCHANGED <<phase, step, oops, exported, enabled, sub, enables>>
    BY <1>7, <2>1 DEF ExportPrepare, OrBreaks, life
  <2>5. Fits(q)'
    BY <2>2, <2>3, <2>4 DEF Fits, ClockIs, LifeType
  <2>6. Elsewhere(c) /\ Counted(c)'
    BY <2>3, <2>4 DEF Elsewhere, Counted, LifeType
  <2> QED BY <2>2, <2>3, <2>4, <2>5, <2>6, OneMoves DEF Unexporting
<1>8. ASSUME NEW ok \in BOOLEAN, ExportData(w, ok) PROVE Kept'
  <2>0. PICK q : q = Moved(pend[w], "group")
    OBVIOUS
  <2>1. ok /\ Goes(w, "data", "group")
    BY <1>0, <1>8 DEF ExportData, OrBreaks
  <2>2. pend[w].at = "data" /\ pend' = [pend EXCEPT ![w] = q] /\ q # NoStore /\ q.at = "group" /\ q.c = c
    BY <1>3, <2>0, <2>1 DEF At
  <2>3. c \in Fclk /\ pend[w] # NoStore /\ Fits(pend[w]) /\ Counted(c)
    BY <1>2, <2>2 DEF At
  <2>4. sub' = [sub EXCEPT ![c] = "ready"] /\ enabled' = [enabled EXCEPT ![c] = FALSE]
        /\ UNCHANGED <<phase, step, oops, exported, prepares, enables>>
    BY <1>8, <2>1 DEF ExportData, OrBreaks, life
  <2>5. Fits(q)'
    BY <2>2, <2>3, <2>4 DEF Fits, ClockIs, LifeType
  <2>6. Elsewhere(c) /\ Counted(c)'
    BY <2>2, <2>3, <2>4 DEF Elsewhere, Counted, LifeType, Fits, ClockIs
  <2> QED BY <2>2, <2>3, <2>4, <2>5, <2>6, OneMoves DEF Unexporting
<1>9. ASSUME NEW ok \in BOOLEAN, ExportGroup(w, ok) PROVE Kept'
  <2>1. ok /\ Goes(w, "group", "none")
    BY <1>0, <1>9 DEF ExportGroup, OrBreaks
  <2>2. pend[w].at = "group" /\ pend' = [pend EXCEPT ![w] = NoStore]
    BY <1>4, <2>1 DEF At
  <2>3. c \in Fclk /\ pend[w] # NoStore /\ Fits(pend[w]) /\ Counted(c)
    BY <1>2, <2>2 DEF At
  <2>4. UNCHANGED <<phase, step, oops, exported, enabled, sub, prepares, enables>>
    BY <1>9, <2>1 DEF ExportGroup, OrBreaks, life
  <2>5. Settled(c)'
    BY <2>2, <2>3, <2>4 DEF Fits, ClockIs, Settled
  <2>6. Elsewhere(c) /\ Counted(c)'
    BY <2>3, <2>4 DEF Elsewhere, Counted
  <2> QED BY <2>2, <2>3, <2>4, <2>5, <2>6, OneMoves
<1>10. CASE UnexportFind(w)
  <2>0. PICK q : q = Moved(pend[w], "free")
    OBVIOUS
  <2>1. pend[w].at = "find" /\ pend' = [pend EXCEPT ![w] = q] /\ q # NoStore /\ q.at = "free" /\ q.c = c
    BY <1>3, <1>10, <2>0 DEF UnexportFind, At
  <2>2. c \in Fclk /\ pend[w] # NoStore /\ Fits(pend[w]) /\ Counted(c)
    BY <1>2, <2>1 DEF At
  <2>3. exported' = [exported EXCEPT ![c] = FALSE]
        /\ UNCHANGED <<phase, step, oops, sub, enabled, prepares, enables>>
    BY <1>10 DEF UnexportFind, life, lifeHist
  <2>4. Fits(q)'
    BY <2>1, <2>2, <2>3 DEF Fits, ClockIs, LifeType
  <2>5. Elsewhere(c) /\ Counted(c)'
    BY <2>2, <2>3 DEF Elsewhere, Counted, LifeType
  <2> QED BY <2>1, <2>2, <2>3, <2>4, <2>5, OneMoves DEF Unexporting
<1>11. CASE UnexportFree(w)
  <2>0. PICK q : q = Moved(pend[w], "unregister")
    OBVIOUS
  <2>1. pend[w].at = "free" /\ GiveBack(c) /\ sub' = [sub EXCEPT ![c] = "bare"]
        /\ pend' = [Lose(c, {"enable", "free"}) EXCEPT ![w] = q]
        /\ UNCHANGED <<phase, step, oops, exported, enabled>>
    BY <1>11, <2>0 DEF UnexportFree, life, lifeHist
  <2>2. c \in Fclk /\ pend[w] # NoStore /\ pend[w] \in Store /\ Fits(pend[w]) /\ Counted(c)
        /\ exported[c] \in BOOLEAN /\ enabled[c] \in BOOLEAN
    BY <1>2, <2>1 DEF At
  <2>3. q # NoStore /\ q.at = "unregister" /\ q.c = c
    BY <2>0, <2>2, MovedType DEF At
  <2>4. pend' = [pend EXCEPT ![w] = q]
    BY <1>0, <2>1, <2>2, NobodyLoses
  <2>5. ClockIs(c, "ready", FALSE, 1)
    BY <2>1, <2>2 DEF Fits
  <2>6. prepares' = [prepares EXCEPT ![c] = 0] /\ enables' = [enables EXCEPT ![c] = 0]
    <3>1. prepares[c] = 1 /\ enables[c] = IF enabled[c] THEN 1 ELSE 0
      BY <2>2, <2>5 DEF ClockIs, Counted
    <3> QED BY <2>1, <3>1, LastGivenBack
  <2>7. sub'[c] = "bare" /\ exported'[c] = FALSE /\ prepares'[c] = 0 /\ enables'[c] = 0
    BY <2>1, <2>2, <2>5, <2>6 DEF LifeType, ClockIs
  <2>8. Fits(q)' /\ Counted(c)'
    BY <2>3, <2>7 DEF Fits, ClockIs, Counted
  <2>9. Elsewhere(c)
    BY <2>1, <2>2, <2>6 DEF Elsewhere, LifeType
  <2> QED BY <2>1, <2>2, <2>3, <2>4, <2>8, <2>9, OneMoves DEF Unexporting
<1>12. CASE UnexportEnd(w)
  <2>1. pend[w].at = "unregister" /\ sub' = [sub EXCEPT ![c] = "none"]
        /\ pend' = [Lose(c, {"group"}) EXCEPT ![w] = NoStore]
        /\ UNCHANGED <<phase, step, oops, exported, enabled, prepares, enables>>
    BY <1>12 DEF UnexportEnd, life, lifeHist
  <2>2. c \in Fclk /\ pend[w] # NoStore /\ Fits(pend[w]) /\ Counted(c)
    BY <1>2, <2>1 DEF At
  <2>3. pend' = [pend EXCEPT ![w] = NoStore]
    BY <1>0, <2>1, <2>2, NobodyLoses
  <2>4. ClockIs(c, "bare", FALSE, 0)
    BY <2>1, <2>2 DEF Fits
  <2>5. sub'[c] = "none" /\ exported'[c] = FALSE /\ prepares'[c] = 0 /\ enables'[c] = 0
    BY <2>1, <2>2, <2>4 DEF LifeType, ClockIs, Counted
  <2>6. Settled(c)' /\ Counted(c)'
    BY <2>5 DEF Settled, ClockIs, Counted
  <2>7. Elsewhere(c)
    BY <2>1, <2>2 DEF Elsewhere, LifeType
  <2> QED BY <2>1, <2>2, <2>3, <2>6, <2>7, OneMoves
<1>13. ASSUME NEW ok \in BOOLEAN, EnableDo(w, ok) PROVE Kept'
  <2>0. PICK on : on = pend[w].on
    OBVIOUS
  <2>1. pend[w].at = "enable" /\ pend' = [pend EXCEPT ![w] = NoStore]
    BY <1>4, <1>13 DEF EnableDo, At
  <2>2. c \in Fclk /\ pend[w] # NoStore /\ Fits(pend[w]) /\ Counted(c) /\ on \in BOOLEAN
        /\ enabled[c] \in BOOLEAN
    BY <1>2, <2>0, <2>1 DEF At
  <2>3. /\ enables' = [enables EXCEPT ![c] = IF on /\ ok THEN enables[c] + 1
                                             ELSE IF ~on /\ enables[c] > 0 THEN enables[c] - 1
                                             ELSE enables[c]]
        /\ enabled' = [enabled EXCEPT ![c] = IF ok THEN on ELSE enabled[c]] /\ (on \/ ok)
        /\ UNCHANGED <<phase, step, oops, exported, sub, prepares>>
    BY <1>13, <2>0 DEF EnableDo, life, lifeHist
  <2>4. ClockIs(c, "ready", TRUE, 1) /\ enabled[c] # on
    BY <2>0, <2>1, <2>2 DEF Fits
  <2>5. enables[c] = IF enabled[c] THEN 1 ELSE 0
    BY <2>2, <2>4 DEF Counted, ClockIs
  <2>6. enables'[c] = (IF on /\ ok THEN enables[c] + 1
                       ELSE IF ~on /\ enables[c] > 0 THEN enables[c] - 1 ELSE enables[c])
        /\ enabled'[c] = IF ok THEN on ELSE enabled[c]
    BY <2>2, <2>3 DEF LifeType
  <2>7. sub'[c] = "ready" /\ exported'[c] = TRUE /\ prepares'[c] = 1
    BY <2>3, <2>4 DEF ClockIs
  <2>8. Counted(c)'
    <3>1. CASE on
      <4>1. ~enabled[c]
        BY <2>2, <2>4, <3>1, Zenon
      <4>2. enables[c] = 0
        BY <2>5, <4>1
      <4>3. ok => enables'[c] = 1 /\ enabled'[c]
        BY <2>6, <3>1, <4>2
      <4>4. ~ok => enables'[c] = 0 /\ ~enabled'[c]
        BY <2>6, <3>1, <4>1, <4>2
      <4> QED BY <2>7, <4>3, <4>4 DEF Counted
    <3>2. CASE ~on
      BY <2>2, <2>3, <2>4, <2>5, <2>6, <2>7, <3>2 DEF Counted
    <3> QED BY <3>1, <3>2
  <2>9. Settled(c)'
    BY <2>7 DEF Settled, ClockIs
  <2>10. Elsewhere(c)
    BY <2>2, <2>3 DEF Elsewhere, LifeType
  <2> QED BY <2>1, <2>2, <2>3, <2>8, <2>9, <2>10, OneMoves
<1>14. CASE StoreOops(w)
  <2>1. \/ pend[w].at = "lost"
        \/ pend[w].at \in {"create", "find"} /\ phase = "draining"
        \/ pend[w].at = "find" /\ BadSearch(pend[w].c)
        \/ pend[w].at = "group" /\ sub[pend[w].c] # "ready"
    BY <1>14 DEF StoreOops
  <2>2. c \in Fclk /\ pend[w] # NoStore /\ Fits(pend[w]) /\ pend[w].at \in At
    BY <1>2, <2>1 DEF At
  <2>3. phase = "bound"
    BY <1>0, <2>2 DEF PhaseKept
  <2>4. pend[w].at = "find" /\ sub[c] = "ready" /\ BadSearch(c)
    BY <2>1, <2>2, <2>3 DEF Fits, ClockIs
  <2>5. PICK d \in Fclk : sub[d] = "bare"
    BY <2>4 DEF BadSearch
  <2>6. ~Settled(d)
    BY <2>5 DEF Settled, ClockIs
  <2>7. PICK v \in Writer : pend[v].c = d
    BY <1>0, <2>6 DEF ClocksKept
  <2>8. pend[v] # NoStore /\ v # w
    BY <2>4, <2>5, <2>7, PendFacts
  <2>9. Apart(pend[w], pend[v]) /\ Fits(pend[v])
    BY <1>0, <2>2, <2>8 DEF StoresKept
  <2>10. pend[v].at = "enable"
    BY <2>4, <2>9 DEF Apart, Unexporting
  <2>11. sub[d] = "ready"
    BY <2>7, <2>9, <2>10 DEF Fits, ClockIs
  <2> QED BY <2>5, <2>11
<1> QED BY <1>5, <1>6, <1>7, <1>8, <1>9, <1>10, <1>11, <1>12, <1>13, <1>14

(* A store begins or goes on. *)
LEMMA StoreKept ==
  ASSUME LifeType, Kept, NEW w \in Writer, SysfsStep(w), Orderly'
  PROVE  Kept'
<1>1. CASE \E d \in Fclk : \/ ExportTest(w, d) \/ UnexportTest(w, d)
                           \/ \E on \in BOOLEAN : EnableTest(w, d, on)
  BY <1>1, BeginKept DEF ExportTest, UnexportTest, EnableTest, Orderly
<1>2. PICK c : c = pend[w].c
  OBVIOUS
<1> QED BY <1>1, <1>2, StoreMoves DEF SysfsStep

(* Probe and remove: nobody is in a store. *)
LEMMA DriverKept ==
  ASSUME LifeType, Acquired, Kept, Orderly',
         Probe \/ ProbeStep \/ ProbeFail \/ Unwind \/ RemoveBegin \/ RemoveClock
         \/ RemoveClass \/ RemoveEnd \/ RemoveOops
  PROVE  Kept'
<1>0. StoresKept /\ ClocksKept /\ PhaseKept /\ ~silent' /\ ~overlap'
  BY DEF Orderly, Kept
<1>1. ASSUME UNCHANGED <<exported, sub, enabled, prepares, enables, pend>>
      PROVE  StoresKept' /\ ClocksKept'
  <2>1. ASSUME NEW p, Fits(p) PROVE Fits(p)'
    BY <1>1, <2>1 DEF Fits, ClockIs
  <2>2. StoresKept'
    BY <1>0, <1>1 DEF StoresKept, Apart, Fits, ClockIs
  <2>3. ClocksKept'
    BY <1>0, <1>1 DEF ClocksKept, Counted, Settled, ClockIs
  <2> QED BY <2>2, <2>3
<1>2. CASE Probe
  <2>1. phase = "unbound" /\ phase' = "probing" /\ oops' = oops /\ exported' = [c \in Fclk |-> FALSE]
        /\ UNCHANGED <<sub, enabled, prepares, enables, pend>>
    BY <1>2 DEF Probe, lifeHist
  <2>2. \A c \in Fclk : exported[c] = FALSE
    BY <1>0, <2>1 DEF PhaseKept, LifeType
  <2>3. exported = [c \in Fclk |-> exported[c]]
    BY Zenon DEF LifeType
  <2>4. exported' = exported
    BY <2>1, <2>2, <2>3
  <2>5. PhaseKept'
    BY <1>0, <2>1, <2>4 DEF PhaseKept
  <2> QED BY <1>1, <2>1, <2>4, <2>5 DEF Kept
<1>3. CASE ProbeStep \/ ProbeFail \/ Unwind
  <2>1. /\ phase \in {"probing", "unwinding"} /\ phase' # "removing" /\ oops' = oops
        /\ UNCHANGED <<exported, sub, enabled, prepares, enables, pend>>
    BY <1>3 DEF ProbeStep, ProbeFail, Unwind, clocks, lifeHist
  <2>2. PhaseKept'
    BY <1>0, <2>1 DEF PhaseKept
  <2> QED BY <1>1, <2>1, <2>2 DEF Kept
<1>4. CASE RemoveBegin
  <2>1. /\ phase = "bound" /\ phase' = "removing" /\ step' = 1 /\ oops' = oops
        /\ \A v \in Writer : pend[v] = NoStore
        /\ UNCHANGED <<exported, sub, enabled, prepares, enables, pend>>
    BY <1>0, <1>4 DEF RemoveBegin, clocks
  <2>2. \A c \in Fclk : ~(c < 1)
    BY DEF Fclk
  <2>3. PhaseKept'
    BY <1>0, <2>1, <2>2 DEF PhaseKept
  <2> QED BY <1>1, <2>1, <2>3 DEF Kept
<1>5. CASE RemoveClock
  <2>1. phase = "removing" /\ phase' = phase /\ step \in Fclk /\ step' = step + 1
        /\ oops' = oops /\ enabled' = enabled
    BY <1>5 DEF RemoveClock, lifeHist
  <2>2. \A w \in Writer : pend[w] = NoStore
    BY <1>0, <2>1 DEF PhaseKept
  <2>3. \A c \in Fclk : c < step + 1 => c < step \/ c = step
    BY <2>1 DEF Fclk
  <2>4. CASE ~exported[step]
    <3>1. UNCHANGED <<exported, sub, enabled, prepares, enables, pend>>
      BY <1>5, <2>1, <2>4 DEF RemoveClock
    <3>2. PhaseKept'
      BY <1>0, <2>1, <2>2, <2>3, <2>4, <3>1 DEF PhaseKept
    <3> QED BY <1>1, <3>1, <3>2 DEF Kept
  <2>5. CASE exported[step]
    <3>1. GiveBack(step) /\ sub' = [sub EXCEPT ![step] = "none"]
          /\ exported' = [exported EXCEPT ![step] = FALSE]
          /\ pend' = Lose(step, {"enable", "free", "group"})
      BY <1>5, <2>5 DEF RemoveClock
    <3>2. \A v \in Writer : pend[v].c \notin Fclk
      BY <2>2, PendFacts
    <3>3. pend' = pend
      <4>1. pend' = [v \in Writer |-> pend[v]]
        BY <2>1, <3>1, <3>2 DEF Lose
      <4>2. pend = [v \in Writer |-> pend[v]]
        BY Zenon DEF LifeType
      <4> QED BY <4>1, <4>2
    <3>4. Settled(step) /\ Counted(step)
      BY <1>0, <2>1, <3>2 DEF ClocksKept
    <3>5. prepares[step] = 1 /\ enables[step] = (IF enabled[step] THEN 1 ELSE 0)
      BY <2>5, <3>4 DEF Settled, ClockIs, Counted
    <3>6. prepares' = [prepares EXCEPT ![step] = 0] /\ enables' = [enables EXCEPT ![step] = 0]
      BY <3>1, <3>5, LastGivenBack
    <3>7. /\ sub'[step] = "none" /\ exported'[step] = FALSE /\ prepares'[step] = 0 /\ enables'[step] = 0
          /\ \A d \in Fclk : d # step => /\ sub'[d] = sub[d] /\ exported'[d] = exported[d]
                                         /\ prepares'[d] = prepares[d] /\ enables'[d] = enables[d]
      BY <2>1, <3>1, <3>6 DEF LifeType
    <3>8. ClocksKept'
      <4>1. ASSUME NEW d \in Fclk PROVE Counted(d)' /\ Settled(d)'
        <5>1. CASE d = step
          BY <3>7, <5>1 DEF Counted, Settled, ClockIs
        <5>2. CASE d # step
          <6>1. Counted(d) /\ Settled(d)
            BY <1>0, <3>2 DEF ClocksKept
          <6> QED BY <2>1, <3>7, <5>2, <6>1 DEF Counted, Settled, ClockIs
        <5> QED BY <5>1, <5>2
      <4> QED BY <4>1 DEF ClocksKept
    <3>9. StoresKept'
      BY <2>2, <3>3 DEF StoresKept
    <3>10. PhaseKept'
      <4>1. ASSUME NEW d \in Fclk, d < step + 1 PROVE ~exported'[d]
        BY <1>0, <2>1, <2>3, <3>7, <4>1 DEF PhaseKept
      <4> QED BY <1>0, <2>1, <2>2, <3>3, <4>1 DEF PhaseKept
    <3> QED BY <3>8, <3>9, <3>10 DEF Kept
  <2> QED BY <2>4, <2>5
<1>6. CASE RemoveClass
  <2>1. /\ phase = "removing" /\ phase' = "draining" /\ step \notin Fclk /\ oops' = oops
        /\ UNCHANGED <<exported, sub, enabled, prepares, enables, pend>>
    BY <1>6 DEF RemoveClass, clocks, lifeHist
  <2>2. step \in Nat /\ step # 0
    BY <2>1 DEF LifeType, Acquired
  <2>3. \A c \in Fclk : c < step
    BY <2>1, <2>2, LifeAssumption DEF Fclk
  <2>4. PhaseKept'
    BY <1>0, <2>1, <2>3 DEF PhaseKept
  <2> QED BY <1>1, <2>1, <2>4 DEF Kept
<1>7. CASE RemoveEnd
  <2>1. /\ phase = "draining" /\ phase' = "unbound" /\ oops' = oops
        /\ UNCHANGED <<exported, sub, enabled, prepares, enables, pend>>
    BY <1>7 DEF RemoveEnd, clocks, lifeHist
  <2>2. PhaseKept'
    BY <1>0, <2>1 DEF PhaseKept
  <2> QED BY <1>1, <2>1, <2>2 DEF Kept
<1>8. CASE RemoveOops
  <2>1. silent' = silent /\ phase \in {"removing", "draining"}
    BY <1>8 DEF RemoveOops
  <2>2. "class" \in held
    BY <1>0, <2>1 DEF Acquired
  <2>3. step \in Fclk /\ exported[step] /\ BadSearch(step)
    BY <1>8, <2>2 DEF RemoveOops
  <2>4. \A v \in Writer : pend[v].c \notin Fclk
    BY <1>0, <2>1, PendFacts DEF PhaseKept
  <2>5. \A d \in Fclk : Settled(d)
    BY <1>0, <2>4 DEF ClocksKept
  <2> QED BY <2>3, <2>5 DEF BadSearch, Settled, ClockIs
<1> QED BY <1>2, <1>3, <1>4, <1>5, <1>6, <1>7, <1>8

(* Disorder stays. *)
LEMMA OrderlyBefore == ASSUME LifeNext, Orderly' PROVE Orderly
<1>1. ASSUME NEW w, NEW at, NEW c, NEW on, Begin(w, at, c, on) PROVE Orderly
  BY <1>1, Zenon DEF Begin, Orderly
<1>2. ASSUME NEW w, NEW from, NEW to, NEW ok, OrBreaks(w, from, to, ok) PROVE Orderly
  BY <1>2, Zenon DEF OrBreaks, Orderly
<1>3. ASSUME UNCHANGED <<silent, broken, overlap>> PROVE Orderly
  BY <1>3 DEF Orderly
<1>4. ASSUME NEW w, SysfsStep(w) PROVE Orderly
  <2>1. CASE \E c \in Fclk : \/ ExportTest(w, c) \/ UnexportTest(w, c)
                             \/ \E on \in BOOLEAN : EnableTest(w, c, on)
    BY <1>1, <2>1, Zenon DEF ExportTest, UnexportTest, EnableTest
  <2>2. CASE \E ok \in BOOLEAN : \/ ExportCreate(w, ok) \/ ExportPrepare(w, ok)
                                 \/ ExportData(w, ok) \/ ExportGroup(w, ok)
    BY <1>2, <2>2, Zenon DEF ExportCreate, ExportPrepare, ExportData, ExportGroup
  <2>3. CASE \/ ExportSet(w) \/ UnexportFind(w) \/ UnexportFree(w) \/ UnexportEnd(w) \/ StoreOops(w)
             \/ \E ok \in BOOLEAN : EnableDo(w, ok)
    BY <1>3, <2>3 DEF ExportSet, UnexportFind, UnexportFree, UnexportEnd, StoreOops, EnableDo, lifeHist
  <2> QED BY <1>4, <2>1, <2>2, <2>3 DEF SysfsStep
<1>5. CASE ProbeFail \/ RemoveBegin
  <2>1. CASE ProbeFail
    <3>1. broken' = broken /\ overlap' = overlap
      BY <2>1 DEF ProbeFail
    <3>2. silent => silent'
      BY <2>1, Zenon DEF ProbeFail
    <3> QED BY <3>1, <3>2 DEF Orderly
  <2>2. CASE RemoveBegin
    <3>1. broken' = broken /\ silent' = silent
      BY <2>2 DEF RemoveBegin
    <3>2. overlap => overlap'
      BY <2>2, Zenon DEF RemoveBegin
    <3> QED BY <3>1, <3>2 DEF Orderly
  <2> QED BY <1>5, <2>1, <2>2
<1>6. CASE Probe \/ ProbeStep \/ Unwind \/ RemoveClock \/ RemoveClass \/ RemoveEnd \/ RemoveOops
  BY <1>3, <1>6 DEF Probe, ProbeStep, Unwind, RemoveClock, RemoveClass, RemoveEnd, RemoveOops, lifeHist
<1> QED BY <1>4, <1>5, <1>6 DEF LifeNext

(* Every step. *)
LEMMA LifeStep == LifeInv /\ [LifeNext]_Lifevars => LifeInv'
<1> SUFFICES ASSUME LifeInv, [LifeNext]_Lifevars PROVE LifeInv'
  OBVIOUS
<1>0. LifeType /\ Acquired
  BY DEF LifeInv
<1>1. CASE UNCHANGED Lifevars
  <2>1. UNCHANGED <<phase, step, held, retval, exported, sub, enabled, prepares, enables, pend,
                    silent, broken, overlap, oops>>
    BY <1>1 DEF Lifevars, life, clocks, lifeHist
  <2>2. LifeType' /\ Acquired'
    BY <1>0, <2>1 DEF LifeType, Acquired
  <2>3. (Orderly <=> Orderly') /\ (PhaseKept => PhaseKept')
    BY <2>1 DEF Orderly, PhaseKept
  <2>4. StoresKept => StoresKept'
    BY <2>1 DEF StoresKept, Fits, ClockIs, Apart
  <2>5. ClocksKept => ClocksKept'
    BY <2>1 DEF ClocksKept, Counted, Settled, ClockIs
  <2> QED BY <2>2, <2>3, <2>4, <2>5 DEF LifeInv, Kept
<1>2. ASSUME LifeNext PROVE LifeInv'
  <2> DEFINE Driver == Probe \/ ProbeStep \/ ProbeFail \/ Unwind \/ RemoveBegin \/ RemoveClock
                       \/ RemoveClass \/ RemoveEnd \/ RemoveOops
  <2>1. Orderly' => Orderly /\ Kept
    BY <1>2, OrderlyBefore DEF LifeInv
  <2>2. CASE Driver
    <3>1. Acquired' /\ phase' \in {"unbound", "probing", "unwinding", "bound", "removing", "draining"}
          /\ step' \in Nat /\ held' \subseteq Resource
      <4>1. CASE RemoveOops
        <5>1. UNCHANGED <<phase, step, held, retval, silent>>
          BY <4>1 DEF RemoveOops, life
        <5> QED BY <1>0, <5>1 DEF Acquired, LifeType
      <4> QED BY <1>0, <2>2, <4>1, ProbeAcquires, RemoveAcquires
    <3>2. LifeType'
      BY <1>0, <2>2, <3>1, DriverType DEF LifeType, ClockType
    <3> QED BY <1>0, <2>1, <2>2, <3>1, <3>2, DriverKept DEF LifeInv
  <2>3. ASSUME NEW w \in Writer, SysfsStep(w) PROVE LifeInv'
    <3>1. UNCHANGED <<phase, step, held, retval, silent>>
      BY <2>3, SysfsLife
    <3>2. Acquired'
      BY <1>0, <3>1 DEF Acquired
    <3>3. LifeType'
      BY <1>0, <2>3, <3>1, SysfsType DEF LifeType, ClockType
    <3> QED BY <1>0, <2>1, <2>3, <3>2, <3>3, StoreKept DEF LifeInv
  <2> QED BY <1>2, <2>2, <2>3 DEF LifeNext
<1> QED BY <1>1, <1>2

(* Nothing is acquired or exported at the start. *)
LEMMA LifeBegins == LifeInit => LifeInv
<1> SUFFICES ASSUME LifeInit PROVE LifeInv
  OBVIOUS
<1>1. LifeType
  <2>1. NoStore \in Store
    BY DEF Store
  <2>2. \A c \in Fclk : exported[c] = FALSE /\ enabled[c] = FALSE
    BY DEF LifeInit
  <2>3. exported \in [Fclk -> BOOLEAN] /\ enabled \in [Fclk -> BOOLEAN]
    BY Zenon DEF LifeInit
  <2> QED BY <2>1, <2>3 DEF LifeInit, LifeType
<1>2. Acquired
  BY DEF LifeInit, Acquired
<1>3. \A w \in Writer : pend[w] = NoStore
  BY DEF LifeInit
<1>4. StoresKept
  BY <1>3 DEF StoresKept
<1>5. ClocksKept
  BY DEF LifeInit, ClocksKept, Counted, Settled, ClockIs
<1>6. PhaseKept
  BY <1>3 DEF LifeInit, PhaseKept
<1> QED BY <1>1, <1>2, <1>4, <1>5, <1>6 DEF LifeInv, Kept

(* ReleasedWhenUnbound, for any number of clocks, threads and stores: the  *)
(* labels of probe undo what it did, the references to the FPGA clocks     *)
(* apart; and when failures are reported and only stores that go together  *)
(* meet, no bad pointer is followed and remove leaves every clock off.     *)
THEOREM NothingLeftBehind == LifeSpec => []ReleasedWhenUnbound
<1>1. LifeInv => ReleasedWhenUnbound
  <2> SUFFICES ASSUME LifeInv PROVE ReleasedWhenUnbound
    OBVIOUS
  <2>1. phase = "unbound" => held \subseteq {"fclk"}
    BY DEF LifeInv, Acquired
  <2>2. Orderly => ~oops
    BY DEF LifeInv, Kept, PhaseKept
  <2>3. ASSUME Orderly, phase = "unbound", NEW c \in Fclk
        PROVE  sub[c] = "none" /\ enables[c] = 0 /\ prepares[c] = 0
    <3>1. LifeType /\ ClocksKept /\ PhaseKept
      BY <2>3 DEF LifeInv, Kept
    <3>2. ~exported[c] /\ \A w \in Writer : pend[w].c # c
      BY <2>3, <3>1, PendFacts DEF PhaseKept
    <3>3. Settled(c) /\ Counted(c)
      BY <3>1, <3>2 DEF ClocksKept
    <3> QED BY <3>2, <3>3 DEF Settled, ClockIs, Counted
  <2> QED BY <2>1, <2>2, <2>3 DEF ReleasedWhenUnbound
<1> QED BY <1>1, LifeBegins, LifeStep, PTL DEF LifeSpec
----------------------------------------------------------------------------
(* The bytes of xdevcfg_write.  What the PCAP has and what is kept are one *)
(* run of the file from Start on.                                          *)
Found == first > HEADER + 4
Start == IF Found THEN HEADER ELSE 0

(* Where byte k of a block of words comes from. *)
From(k, sw) == IF sw THEN 8 * ((k - 1) \div 4) + 5 - k ELSE k

(* The bytes of the file from s on, in whole words and as they are. *)
InWords(p, s, sw) == \A k \in 1..Len(p) : p[k] = s + From(k, sw) - 1
InBytes(b, s) == \A k \in 1..Len(b) : b[k] = s + k - 1

(* What the PCAP has is the file from Start on, word by word in the byte   *)
(* order announced, and the residue goes on where it ends.                 *)
InFile ==
  /\ pcap \in Seq(Nat) /\ residue \in Seq(Nat) /\ Len(pcap) % 4 = 0 /\ Len(residue) < 4
  /\ ppos \in Nat /\ first \in Nat
  /\ ppos = 0 => writes = 0 /\ first = 0 /\ pcap = <<>> /\ residue = <<>>
  /\ ppos > 0 => writes > 0 /\ Len(pcap) + Len(residue) = ppos - Start
  /\ InWords(pcap, Start, swap) /\ InBytes(residue, Start + Len(pcap))
  /\ swap = (swapped /\ Found)

StreamInv == swap \in BOOLEAN /\ swapped \in BOOLEAN /\ writes \in Nat /\ (~failed => InFile)


(* What concatenation gives. *)
LEMMA Concat ==
  ASSUME NEW s \in Seq(Nat), NEW t \in Seq(Nat)
  PROVE  /\ s \o t \in Seq(Nat) /\ Len(s \o t) = Len(s) + Len(t)
         /\ \A k \in 1..Len(s) : (s \o t)[k] = s[k]
         /\ \A k \in 1..Len(t) : (s \o t)[Len(s) + k] = t[k]
<1>1. s \o t \in Seq(Nat) /\ Len(s \o t) = Len(s) + Len(t)
  OBVIOUS
<1>2. \A k \in 1..Len(s) : (s \o t)[k] = s[k]
  OBVIOUS
<1>3. ASSUME NEW k \in 1..Len(t) PROVE (s \o t)[Len(s) + k] = t[k]
  OBVIOUS
<1> QED BY <1>1, <1>2, <1>3

(* Sequences with the same entries are equal. *)
LEMMA SameSeq ==
  ASSUME NEW s \in Seq(Nat), NEW t \in Seq(Nat), Len(s) = Len(t), \A k \in 1..Len(s) : s[k] = t[k]
  PROVE  s = t
BY SMTT(30)

(* The sum of two multiples of four is one too. *)
LEMMA SumOfFours == ASSUME NEW a \in Nat, NEW c \in Nat, a % 4 = 0, c % 4 = 0 PROVE (a + c) % 4 = 0
OBVIOUS

(* A piece of the file is a sequence of bytes. *)
LEMMA BytesSeq ==
  ASSUME NEW from \in Nat, NEW n \in Nat
  PROVE  Bytes(from, n) \in Seq(Nat) /\ Len(Bytes(from, n)) = n /\ \A k \in 1..n : Bytes(from, n)[k] = from + k - 1
BY DEF Bytes

(* The words sent are a multiple of four bytes. *)
LEMMA WholeWords ==
  ASSUME NEW n \in Nat PROVE Whole(n) \in 0..n /\ Whole(n) % 4 = 0 /\ n - Whole(n) < 4 /\ Whole(n) \in Nat
BY DEF Whole

(* The bytes of a word come from the same word, and swapping twice changes *)
(* nothing.                                                                *)
LEMMA SameWord ==
  ASSUME NEW m \in Nat, m % 4 = 0, NEW sw, NEW k \in 1..m
  PROVE  From(k, sw) \in 1..m /\ From(From(k, sw), sw) = k
<1> DEFINE w == (k - 1) \div 4
           rem == (k - 1) % 4
           d == m \div 4
<1>1. w \in Int /\ rem \in 0..3 /\ k - 1 = 4 * w + rem
  OBVIOUS
<1>2. d \in Int /\ m = 4 * d
  OBVIOUS
<1>3. CASE sw
  <2>1. From(k, sw) = 8 * w + 5 - k
    BY <1>3 DEF From
  <2> HIDE DEF w, rem, d
  <2>2. 8 * w + 5 - k = 4 * w + 4 - rem /\ w < d /\ w >= 0
    BY <1>1, <1>2
  <2>3. 4 * w + 4 - rem \in 1..m
    BY <1>1, <1>2, <2>2
  <2>4. (4 * w + 4 - rem - 1) \div 4 = w
    BY <1>1
  <2>5. 8 * ((4 * w + 4 - rem - 1) \div 4) + 5 - (4 * w + 4 - rem) = k
    BY <1>1, <2>4
  <2>6. From(From(k, sw), sw) = k
    BY <1>3, <2>1, <2>2, <2>5 DEF From
  <2> QED BY <2>1, <2>2, <2>3, <2>6
<1>4. CASE ~sw
  BY <1>4 DEF From
<1> QED BY <1>3, <1>4

(* Behind whole words the bytes of the next ones come from behind them. *)
LEMMA NextWord ==
  ASSUME NEW p \in Nat, p % 4 = 0, NEW sw, NEW k \in Nat \ {0}
  PROVE  From(p + k, sw) = p + From(k, sw)
<1> DEFINE d == p \div 4
           w == (k - 1) \div 4
           rem == (k - 1) % 4
<1>1. d \in Int /\ p = 4 * d
  OBVIOUS
<1>2. w \in Int /\ rem \in 0..3 /\ k - 1 = 4 * w + rem
  OBVIOUS
<1> HIDE DEF d, w, rem
<1>3. (p + k - 1) \div 4 = d + w
  BY <1>1, <1>2
<1>4. CASE sw
  <2>1. From(p + k, sw) = 8 * (d + w) + 5 - (p + k)
    BY <1>3, <1>4 DEF From
  <2>2. From(k, sw) = 8 * w + 5 - k
    BY <1>4 DEF From, w
  <2> QED BY <1>1, <1>2, <2>1, <2>2
<1>5. CASE ~sw
  BY <1>5 DEF From
<1> QED BY <1>4, <1>5

(* The words of a piece are its first bytes, in the order of the file. *)
LEMMA WordsSeq ==
  ASSUME NEW b \in Seq(Nat), NEW sw \in BOOLEAN
  PROVE  /\ Words(b, sw) \in Seq(Nat) /\ Len(Words(b, sw)) = Whole(Len(b))
         /\ \A k \in 1..Whole(Len(b)) : Words(b, sw)[k] = b[From(k, sw)]
<1> DEFINE m == Whole(Len(b))
<1>1. Len(b) \in Nat
  OBVIOUS
<1>2. m \in 0..Len(b) /\ m % 4 = 0 /\ m \in Nat
  BY <1>1, WholeWords
<1>3. Words(b, sw) = [k \in 1..m |-> b[From(k, sw)]]
  BY DEF Words, From
<1> HIDE DEF m
<1>4. \A k \in 1..m : From(k, sw) \in 1..m
  BY <1>2, SameWord
<1>5. \A k \in 1..m : b[From(k, sw)] \in Nat
  BY <1>1, <1>2, <1>4
<1>6. Words(b, sw) \in [1..m -> Nat]
  BY <1>3, <1>5
<1>7. Words(b, sw) \in Seq(Nat) /\ Len(Words(b, sw)) = m
  BY <1>2, <1>6, SMTT(30)
<1>8. \A k \in 1..m : Words(b, sw)[k] = b[From(k, sw)]
  BY <1>3
<1> QED BY <1>7, <1>8 DEF m


(* The residue is its last bytes. *)
LEMMA StragglersSeq ==
  ASSUME NEW b \in Seq(Nat)
  PROVE  /\ Stragglers(b) \in Seq(Nat) /\ Len(Stragglers(b)) = Len(b) - Whole(Len(b))
         /\ \A k \in 1..(Len(b) - Whole(Len(b))) : Stragglers(b)[k] = b[Whole(Len(b)) + k]
<1> DEFINE m == Whole(Len(b))
<1>1. Len(b) \in Nat
  OBVIOUS
<1>2. m \in 0..Len(b)
  BY <1>1, WholeWords
<1>3. Stragglers(b) = SubSeq(b, m + 1, Len(b))
  BY DEF Stragglers
<1> HIDE DEF m
<1>4. /\ Stragglers(b) \in Seq(Nat) /\ Len(Stragglers(b)) = Len(b) - m
      /\ \A k \in 1..(Len(b) - m) : Stragglers(b)[k] = b[m + k]
  BY <1>1, <1>2, <1>3
<1> QED BY <1>4 DEF m

Extends(p, s, sw, b, q, rest) ==
  /\ q \in Seq(Nat) /\ rest \in Seq(Nat) /\ Len(q) % 4 = 0 /\ Len(rest) < 4
  /\ Len(q) + Len(rest) = Len(p) + Len(b)
  /\ InWords(q, s, sw) /\ InBytes(rest, s + Len(q))

(* A block that goes on where the residue began: its words are appended,   *)
(* the rest of it is kept.                                                 *)
LEMMA BlockGoesOn ==
  ASSUME NEW p \in Seq(Nat), Len(p) % 4 = 0, NEW s \in Nat, NEW sw \in BOOLEAN, NEW b \in Seq(Nat),
         InWords(p, s, sw), InBytes(b, s + Len(p))
  PROVE  Extends(p, s, sw, b, p \o Words(b, sw), Stragglers(b))
<1> DEFINE m == Whole(Len(b))
           l == Len(p)
           ws == Words(b, sw)
           q == p \o ws
           rest == Stragglers(b)
<1>1. l \in Nat /\ l % 4 = 0 /\ Len(b) \in Nat
  <2>1. Len(p) \in Nat
    OBVIOUS
  <2>2. Len(b) \in Nat
    OBVIOUS
  <2> QED BY <2>1, <2>2
<1>0. l = Len(p) /\ p \in Seq(Nat)
  OBVIOUS
<1>2. m \in 0..Len(b) /\ m % 4 = 0 /\ m \in Nat /\ Len(b) - m < 4
  BY <1>1, WholeWords
<1>3. ws \in Seq(Nat) /\ Len(ws) = m /\ \A k \in 1..m : ws[k] = b[From(k, sw)]
  BY WordsSeq
<1>4. rest \in Seq(Nat) /\ Len(rest) = Len(b) - m /\ \A k \in 1..(Len(b) - m) : rest[k] = b[m + k]
  BY StragglersSeq
<1> HIDE DEF m, ws, rest, l
<1>5. q \in Seq(Nat) /\ Len(q) = l + m
  BY <1>0, <1>3, Concat
<1>6. \A k \in 1..l : q[k] = p[k]
  BY <1>0, <1>3, Concat
<1>7. \A k \in 1..m : q[l + k] = ws[k]
  BY <1>0, <1>3, Concat
<1> HIDE DEF q
<1>8. (l + m) % 4 = 0
  BY <1>1, <1>2, SumOfFours
<1>9. ASSUME NEW k \in 1..Len(q) PROVE q[k] = s + From(k, sw) - 1
  <2>1. CASE k \in 1..l
    BY <1>0, <1>6, <2>1 DEF InWords
  <2>2. CASE k \notin 1..l
    <3> DEFINE j == k - l
    <3>1. j \in 1..m /\ j \in Nat \ {0} /\ k = l + j
      BY <1>1, <1>2, <1>5, <2>2
    <3> HIDE DEF j
    <3> DEFINE g == From(j, sw)
    <3>2. g \in 1..m
      BY <1>2, <3>1, SameWord
    <3>3. q[k] = b[g]
      <4>1. q[k] = ws[j]
        BY <1>7, <3>1
      <4>2. ws[j] = b[g]
        BY <1>3, <3>1
      <4> QED BY <4>1, <4>2
    <3>4. From(k, sw) = l + g
      BY <1>1, <3>1, NextWord
    <3> HIDE DEF g
    <3>5. g \in 1..Len(b)
      <4> DEFINE c == Len(b)
      <4>1. m \in 0..c /\ c \in Nat
        BY <1>1, <1>2
      <4> HIDE DEF c
      <4>2. g \in 1..c
        BY <3>2, <4>1
      <4> QED BY <4>2 DEF c
    <3>6. q[k] = s + l + g - 1
      BY <1>0, <3>3, <3>5 DEF InBytes
    <3>7. s + l + g - 1 = s + (l + g) - 1
      BY <1>1, <3>2, <1>2
    <3> QED BY <3>4, <3>6, <3>7
  <2> QED BY <2>1, <2>2
<1>10. ASSUME NEW k \in 1..Len(rest) PROVE rest[k] = s + Len(q) + k - 1
  <2>1. rest[k] = b[m + k] /\ m + k \in 1..Len(b)
    BY <1>1, <1>2, <1>4, SMTT(30)
  <2>2. b[m + k] = s + l + (m + k) - 1
    BY <1>0, <2>1 DEF InBytes
  <2> QED BY <1>1, <1>2, <1>5, <2>1, <2>2
<1>11. Len(q) % 4 = 0 /\ Len(rest) < 4 /\ Len(q) + Len(rest) = l + Len(b)
  BY <1>1, <1>2, <1>4, <1>5, <1>8
<1> QED BY <1>4, <1>5, <1>9, <1>10, <1>11 DEF l, q, ws, rest, InWords, InBytes, Extends

(* The only sync word of the file is found, if the first piece goes on     *)
(* behind it.                                                              *)
LEMMA SyncFound ==
  ASSUME NEW n \in Nat
  PROVE  SyncAt(Bytes(0, n)) = IF n > HEADER + 4 THEN {HEADER} ELSE {}
<1> DEFINE kbuf == Bytes(0, n)
<1>1. kbuf \in Seq(Nat) /\ Len(kbuf) = n /\ HEADER \in Nat /\ \A k \in 1..n : kbuf[k] = k - 1
  BY BytesSeq, StreamAssumption
<1>2. Bytes(HEADER, 4) \in Seq(Nat) /\ Len(Bytes(HEADER, 4)) = 4 /\ \A k \in 1..4 : Bytes(HEADER, 4)[k] = HEADER + k - 1
  BY <1>1, BytesSeq
<1> HIDE DEF kbuf
<1>3. ASSUME NEW i \in 0..n - 5 PROVE SubSeq(kbuf, i + 1, i + 4) = Bytes(HEADER, 4) <=> i = HEADER
  <2> DEFINE f == SubSeq(kbuf, i + 1, i + 4)
  <2>1. f \in Seq(Nat) /\ Len(f) = 4 /\ \A k \in 1..4 : f[k] = i + k - 1
    BY <1>1
  <2> HIDE DEF f
  <2>2. ASSUME f = Bytes(HEADER, 4) PROVE i = HEADER
    <3>1. f[1] = i /\ Bytes(HEADER, 4)[1] = HEADER
      BY <1>1, <1>2, <2>1
    <3> QED BY <2>2, <3>1
  <2>3. ASSUME i = HEADER PROVE f = Bytes(HEADER, 4)
    <3>1. \A k \in 1..4 : f[k] = Bytes(HEADER, 4)[k]
      BY <1>2, <2>1, <2>3
    <3> QED BY <1>2, <2>1, <3>1, SameSeq
  <2> QED BY <2>2, <2>3 DEF f
<1>4. SyncAt(kbuf) = {i \in 0..n - 5 : i = HEADER}
  BY <1>1, <1>3 DEF SyncAt
<1>5. CASE n > HEADER + 4
  <2>1. HEADER \in 0..n - 5
    BY <1>1, <1>5
  <2>2. SyncAt(kbuf) = {HEADER}
    BY <1>4, <2>1
  <2> QED BY <1>5, <2>2 DEF kbuf
<1>6. CASE ~(n > HEADER + 4)
  <2>1. HEADER \notin 0..n - 5
    BY <1>1, <1>6
  <2>2. SyncAt(kbuf) = {}
    BY <1>4, <2>1
  <2> QED BY <1>6, <2>2 DEF kbuf
<1> QED BY <1>5, <1>6


(* The block of a write of n bytes, and where it begins in the file. *)
Kbuf(n) == residue \o Bytes(ppos, n)
AtStart(n) == ppos = 0 /\ Len(Kbuf(n)) > 4
Block(n) == Headless(Kbuf(n), AtStart(n))

(* The first piece, from the header on, is a run of the file. *)
LEMMA FirstBlock ==
  ASSUME InFile, ppos = 0, NEW n \in Nat \ {0}, first' = n
  PROVE  /\ Block(n) \in Seq(Nat) /\ Len(Block(n)) = n - Start'
         /\ InBytes(Block(n), Start')
         /\ AtStart(n) /\ SyncAt(Kbuf(n)) # {} <=> Found'
<1> DEFINE kbuf == Bytes(0, n)
<1>1. kbuf \in Seq(Nat) /\ Len(kbuf) = n /\ HEADER \in Nat /\ \A k \in 1..n : kbuf[k] = 0 + k - 1
  BY BytesSeq, StreamAssumption
<1>2. Kbuf(n) = kbuf
  <2>1. residue = <<>>
    BY DEF InFile
  <2> HIDE DEF kbuf
  <2>2. <<>> \o kbuf = kbuf
    BY <1>1
  <2> QED BY <2>1, <2>2 DEF kbuf, Kbuf
<1>3. SyncAt(kbuf) = IF n > HEADER + 4 THEN {HEADER} ELSE {}
  BY SyncFound
<1> HIDE DEF kbuf
<1>4. CASE n > HEADER + 4
  <2>1. Found' /\ Start' = HEADER /\ n > 4
    BY <1>1, <1>4 DEF Found, Start
  <2>2. SyncAt(kbuf) = {HEADER}
    BY <1>3, <1>4
  <2>3. AtStart(n) /\ Block(n) = SubSeq(kbuf, 1 + HEADER, n)
    BY <1>1, <1>2, <2>1, <2>2 DEF Block, AtStart, Headless
  <2> DEFINE block == SubSeq(kbuf, 1 + HEADER, n)
  <2>4. block \in Seq(Nat) /\ Len(block) = n - HEADER /\ \A k \in 1..Len(block) : block[k] = HEADER + k - 1
    BY <1>1, <1>4, SMTT(30)
  <2> HIDE DEF block
  <2> QED BY <1>2, <2>1, <2>2, <2>3, <2>4 DEF block, InBytes
<1>5. CASE ~(n > HEADER + 4)
  <2>1. ~Found' /\ Start' = 0
    BY <1>1, <1>5 DEF Found, Start
  <2>2. SyncAt(kbuf) = {}
    BY <1>3, <1>5
  <2>3. Block(n) = kbuf
    BY <1>2, <2>2 DEF Block, Headless
  <2>4. n - 0 = n
    OBVIOUS
  <2> QED BY <1>1, <1>2, <2>1, <2>2, <2>3, <2>4 DEF InBytes
<1> QED BY <1>4, <1>5

(* Residue and later piece continue what the PCAP has. *)
LEMMA NextBlock ==
  ASSUME InFile, ppos > 0, NEW n \in Nat
  PROVE  /\ Block(n) \in Seq(Nat) /\ Len(pcap) + Len(Block(n)) = (ppos + n) - Start
         /\ InBytes(Block(n), Start + Len(pcap))
         /\ ~AtStart(n)
<1> DEFINE b == Bytes(ppos, n)
           block == residue \o b
           l == Len(pcap)
           c == Len(residue)
<1>1. /\ ppos \in Nat /\ residue \in Seq(Nat) /\ l \in Nat /\ c \in Nat /\ l + c = ppos - Start
      /\ \A k \in 1..c : residue[k] = Start + l + k - 1
  BY DEF InFile, InBytes
<1>2. b \in Seq(Nat) /\ Len(b) = n /\ \A k \in 1..n : b[k] = ppos + k - 1
  BY <1>1, BytesSeq
<1>3. Start \in Nat
  BY StreamAssumption DEF Start
<1> HIDE DEF b, l
<1>4. /\ block \in Seq(Nat) /\ Len(block) = c + n
      /\ \A k \in 1..c : block[k] = residue[k]
      /\ \A k \in 1..n : block[c + k] = b[k]
  BY <1>1, <1>2, Concat
<1> HIDE DEF block, c
<1>5. ASSUME NEW k \in 1..Len(block) PROVE block[k] = Start + l + k - 1
  <2>1. CASE k \in 1..c
    BY <1>1, <1>4, <2>1
  <2>2. CASE k \notin 1..c
    <3> DEFINE j == k - c
    <3>1. j \in 1..n /\ k = c + j
      BY <1>1, <1>4, <2>2
    <3> HIDE DEF j
    <3>2. block[k] = ppos + j - 1
      BY <1>2, <1>4, <3>1
    <3>3. ppos + j - 1 = Start + l + k - 1
      BY <1>1, <1>3, <3>1
    <3> QED BY <3>2, <3>3
  <2> QED BY <2>1, <2>2
<1>6. l + Len(block) = (ppos + n) - Start
  BY <1>1, <1>3, <1>4
<1>7. ~AtStart(n)
  BY <1>1 DEF AtStart
<1>8. Block(n) = block
  BY <1>7 DEF Block, Headless, Kbuf, block, b
<1> QED BY <1>4, <1>5, <1>6, <1>7, <1>8 DEF l, InBytes


(* What a call of xdevcfg_write changes. *)
LEMMA WriteEffects ==
  ASSUME NEW n, NEW ok, NEW reached, Write(n, ok, reached)
  PROVE  /\ swap' = (IF AtStart(n) /\ SyncAt(Kbuf(n)) # {} THEN swapped ELSE swap)
         /\ residue' = Stragglers(Block(n)) /\ (ok => reached)
         /\ pcap' = (IF reached THEN pcap \o Words(Block(n), swap') ELSE pcap)
         /\ ppos' = (IF ok THEN ppos + n ELSE ppos) /\ first' = (IF writes = 0 THEN n ELSE first)
         /\ writes' = writes + 1 /\ failed' = (failed \/ ~ok) /\ swapped' = swapped
BY DEF Write, Kbuf, AtStart, Block

(* A call keeps pcap and residue one run of the file. *)
LEMMA WriteInFile ==
  ASSUME StreamInv, ~failed, NEW n \in Nat \ {0}, Write(n, TRUE, TRUE)
  PROVE  InFile'
<1>1. InFile /\ swap \in BOOLEAN /\ swapped \in BOOLEAN /\ writes \in Nat
  BY DEF StreamInv
<1>2. /\ swap' = (IF AtStart(n) /\ SyncAt(Kbuf(n)) # {} THEN swapped ELSE swap)
      /\ residue' = Stragglers(Block(n)) /\ pcap' = pcap \o Words(Block(n), swap')
      /\ ppos' = ppos + n /\ first' = (IF writes = 0 THEN n ELSE first)
      /\ writes' = writes + 1 /\ swapped' = swapped
  BY WriteEffects
<1>3. /\ pcap \in Seq(Nat) /\ Len(pcap) % 4 = 0 /\ ppos \in Nat /\ first \in Nat
      /\ ppos = 0 => writes = 0 /\ first = 0 /\ pcap = <<>>
      /\ ppos > 0 => writes > 0
      /\ InWords(pcap, Start, swap)
  BY <1>1 DEF InFile
<1>4. HEADER \in Nat /\ Start' \in Nat
  BY StreamAssumption DEF Start
<1>5. swap' \in BOOLEAN
  BY <1>1, <1>2
<1>6. /\ Block(n) \in Seq(Nat) /\ Len(pcap) + Len(Block(n)) = ppos' - Start'
      /\ InBytes(Block(n), Start' + Len(pcap)) /\ InWords(pcap, Start', swap')
      /\ swap' = (swapped' /\ Found')
  <2>1. CASE ppos = 0
    <3>1. first' = n /\ ppos' = n /\ Len(pcap) = 0
      BY <1>2, <1>3, <2>1
    <3>2. /\ Block(n) \in Seq(Nat) /\ Len(Block(n)) = n - Start'
          /\ InBytes(Block(n), Start')
          /\ AtStart(n) /\ SyncAt(Kbuf(n)) # {} <=> Found'
      BY <1>1, <2>1, <3>1, FirstBlock
    <3>3. ~Found
      BY <1>3, <1>4, <2>1 DEF Found
    <3>4. swap' = (swapped' /\ Found')
      BY <1>1, <1>2, <3>2, <3>3 DEF InFile
    <3>5. Len(pcap) + Len(Block(n)) = n - Start'
      <4>1. n - Start' \in Int
        BY <1>4
      <4> QED BY <3>1, <3>2, <4>1
    <3>6. Start' + Len(pcap) = Start'
      <4>1. \A a \in Nat : a + 0 = a
        OBVIOUS
      <4>2. Start' + 0 = Start'
        BY <1>4, <4>1, Zenon
      <4> QED BY <3>1, <4>2
    <3>7. InWords(pcap, Start', swap')
      BY <3>1 DEF InWords
    <3> QED BY <3>1, <3>2, <3>4, <3>5, <3>6, <3>7
  <2>2. CASE ppos > 0
    <3>1. first' = first
      BY <1>2, <1>3, <2>2
    <3>2. Start' = Start /\ (Found' <=> Found)
      BY <3>1 DEF Start, Found
    <3>3. /\ Block(n) \in Seq(Nat) /\ Len(pcap) + Len(Block(n)) = (ppos + n) - Start
          /\ InBytes(Block(n), Start + Len(pcap))
          /\ ~AtStart(n)
      BY <1>1, <2>2, NextBlock
    <3>4. swap' = swap
      BY <1>2, <3>3
    <3>5. swap' = (swapped' /\ Found')
      BY <1>1, <1>2, <3>2, <3>4 DEF InFile
    <3>6. Len(pcap) + Len(Block(n)) = ppos' - Start'
      BY <1>2, <3>2, <3>3
    <3>7. InBytes(Block(n), Start' + Len(pcap)) /\ InWords(pcap, Start', swap')
      BY <1>3, <3>2, <3>3, <3>4
    <3> QED BY <3>3, <3>5, <3>6, <3>7
  <2> QED BY <1>3, <2>1, <2>2
<1>7. /\ pcap' \in Seq(Nat) /\ residue' \in Seq(Nat) /\ Len(pcap') % 4 = 0 /\ Len(residue') < 4
      /\ Len(pcap') + Len(residue') = Len(pcap) + Len(Block(n))
      /\ InWords(pcap', Start', swap') /\ InBytes(residue', Start' + Len(pcap'))
  <2>1. Extends(pcap, Start', swap', Block(n), pcap \o Words(Block(n), swap'), Stragglers(Block(n)))
    BY <1>3, <1>4, <1>5, <1>6, BlockGoesOn, Zenon
  <2>2. Extends(pcap, Start', swap', Block(n), pcap', residue')
    BY <1>2, <2>1
  <2> QED BY <2>2 DEF Extends
<1>8. ppos' \in Nat /\ ppos' > 0 /\ first' \in Nat /\ writes' > 0
  BY <1>1, <1>2, <1>3
<1>9. Len(pcap') + Len(residue') = ppos' - Start'
  BY <1>6, <1>7
<1> QED BY <1>6, <1>7, <1>8, <1>9 DEF InFile

(* Every call keeps the run. *)
LEMMA StreamStep == StreamInv /\ [StreamNext]_Streamvars => StreamInv'
<1> SUFFICES ASSUME StreamInv, [StreamNext]_Streamvars PROVE StreamInv'
  OBVIOUS
<1>1. CASE UNCHANGED Streamvars
  BY <1>1 DEF StreamInv, InFile, Start, Found, Streamvars
<1>2. CASE Reopen
  <2>1. swapped' \in BOOLEAN /\ swap' = FALSE /\ writes' = 0
        /\ ppos' = 0 /\ residue' = <<>> /\ pcap' = <<>> /\ first' = 0
    BY <1>2 DEF Reopen
  <2>2. <<>> \in Seq(Nat) /\ Len(<<>>) = 0 /\ 0 % 4 = 0
    OBVIOUS
  <2>3. ~Found'
    BY <2>1, StreamAssumption DEF Found
  <2>4. InFile'
    <3>1. Len(pcap') = 0 /\ Len(residue') = 0 /\ pcap' \in Seq(Nat) /\ residue' \in Seq(Nat)
      BY <2>1, <2>2
    <3>2. InWords(pcap', Start', swap') /\ InBytes(residue', Start' + Len(pcap'))
      BY <3>1 DEF InWords, InBytes
    <3>3. swap' = (swapped' /\ Found')
      BY <2>1, <2>3
    <3>4. Len(pcap') % 4 = 0 /\ Len(residue') < 4 /\ ppos' \in Nat /\ first' \in Nat /\ ~(ppos' > 0)
      BY <2>1, <2>2, <3>1
    <3> QED BY <2>1, <3>1, <3>2, <3>3, <3>4 DEF InFile
  <2> QED BY <2>1, <2>4 DEF StreamInv
<1>3. ASSUME NEW n \in 1..MAX_PIECE, NEW ok \in BOOLEAN, NEW reached \in BOOLEAN, Write(n, ok, reached)
      PROVE  StreamInv'
  <2>1. n \in Nat \ {0}
    BY StreamAssumption
  <2>2. swap' \in BOOLEAN /\ swapped' \in BOOLEAN /\ writes' \in Nat
    BY <1>3, WriteEffects DEF StreamInv
  <2>3. ASSUME ~failed' PROVE InFile'
    <3>1. ok = TRUE /\ reached = TRUE /\ ~failed
      BY <1>3, <2>3, WriteEffects
    <3> QED BY <1>3, <2>1, <3>1, WriteInFile
  <2> QED BY <2>2, <2>3 DEF StreamInv
<1> QED BY <1>1, <1>2, <1>3 DEF StreamNext

(* StreamWhole: for every header and length of the file and every way to   *)
(* cut it into writes.                                                     *)
THEOREM FileReachesPcap == StreamSpec => []StreamWhole
<1>1. StreamInit => StreamInv
  <2> SUFFICES ASSUME StreamInit PROVE StreamInv
    OBVIOUS
  <2>1. <<>> \in Seq(Nat) /\ Len(<<>>) = 0 /\ 0 % 4 = 0
    OBVIOUS
  <2>2. ~Found
    BY StreamAssumption DEF StreamInit, Opened, Found
  <2>3. InFile
    <3>1. Len(pcap) = 0 /\ Len(residue) = 0 /\ pcap \in Seq(Nat) /\ residue \in Seq(Nat)
      BY <2>1 DEF StreamInit, Opened
    <3>2. InWords(pcap, Start, swap) /\ InBytes(residue, Start + Len(pcap))
      BY <3>1 DEF InWords, InBytes
    <3>3. swap = (swapped /\ Found)
      BY <2>2 DEF StreamInit, Opened
    <3>4. Len(pcap) % 4 = 0 /\ Len(residue) < 4 /\ ppos \in Nat /\ first \in Nat /\ ~(ppos > 0)
      BY <2>1, <3>1 DEF StreamInit, Opened
    <3> QED BY <3>1, <3>2, <3>3, <3>4 DEF InFile, StreamInit, Opened
  <2> QED BY <2>3 DEF StreamInv, StreamInit, Opened
<1>2. StreamInv => StreamWhole
  <2> SUFFICES ASSUME StreamInv, ~failed
               PROVE  /\ Len(residue) < 4 /\ swap = (swapped /\ Found)
                      /\ ppos > 0 => InFileOrder(pcap) \o residue = Bytes(Start, ppos - Start)
    BY DEF StreamWhole, Found, Start
  <2>1. InFile /\ swap \in BOOLEAN
    BY DEF StreamInv
  <2> DEFINE l == Len(pcap)
             ws == Words(pcap, swap)
             line == ws \o residue
  <2>2. /\ pcap \in Seq(Nat) /\ residue \in Seq(Nat) /\ l \in Nat /\ l % 4 = 0 /\ Len(residue) \in Nat
        /\ \A k \in 1..l : pcap[k] = Start + From(k, swap) - 1
        /\ \A k \in 1..Len(residue) : residue[k] = Start + l + k - 1
    BY <2>1 DEF InFile, InWords, InBytes
  <2>3. Start \in Nat
    BY StreamAssumption DEF Start
  <2>4. Whole(l) = l
    BY <2>2 DEF Whole
  <2>5. ws \in Seq(Nat) /\ Len(ws) = l /\ \A k \in 1..l : ws[k] = pcap[From(k, swap)]
    BY <2>1, <2>2, <2>4, WordsSeq, ZenonT(60)
  <2> HIDE DEF l, ws
  <2>6. ASSUME NEW k \in 1..l PROVE ws[k] = Start + k - 1
    <3>1. From(k, swap) \in 1..l /\ From(From(k, swap), swap) = k
      BY <2>2, SameWord
    <3> DEFINE g == From(k, swap)
    <3>2. pcap[g] = Start + From(g, swap) - 1
      BY <2>2, <3>1
    <3> QED BY <2>5, <3>1, <3>2
  <2>7. /\ line \in Seq(Nat) /\ Len(line) = l + Len(residue)
        /\ \A k \in 1..l : line[k] = ws[k]
        /\ \A k \in 1..Len(residue) : line[l + k] = residue[k]
    BY <2>2, <2>5, Concat
  <2> HIDE DEF line
  <2>8. ASSUME NEW k \in 1..Len(line) PROVE line[k] = Start + k - 1
    <3>1. CASE k \in 1..l
      BY <2>6, <2>7, <3>1
    <3>2. CASE k \notin 1..l
      <4> DEFINE j == k - l
      <4>1. j \in 1..Len(residue) /\ k = l + j
        BY <2>2, <2>7, <3>2
      <4> HIDE DEF j
      <4>2. line[k] = Start + l + j - 1
        BY <2>2, <2>7, <4>1
      <4>3. Start + l + j - 1 = Start + k - 1
        BY <2>2, <2>3, <4>1
      <4> QED BY <4>2, <4>3
    <3> QED BY <3>1, <3>2
  <2>9. ASSUME ppos > 0 PROVE line = Bytes(Start, ppos - Start)
    <3>1. Len(line) = ppos - Start /\ Len(line) \in Nat
      BY <2>1, <2>2, <2>7, <2>9 DEF InFile, l
    <3>2. /\ Bytes(Start, Len(line)) \in Seq(Nat) /\ Len(Bytes(Start, Len(line))) = Len(line)
          /\ \A k \in 1..Len(line) : Bytes(Start, Len(line))[k] = Start + k - 1
      BY <2>3, <3>1, BytesSeq
    <3>3. line = Bytes(Start, Len(line))
      BY <2>7, <2>8, <3>2, SameSeq
    <3> QED BY <3>1, <3>3
  <2> QED BY <2>1, <2>9 DEF InFile, InFileOrder, line, ws
<1> QED BY <1>1, <1>2, StreamStep, PTL DEF StreamSpec
============================================================================
