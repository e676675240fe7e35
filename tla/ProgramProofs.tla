--------------------------- MODULE ProgramProofs ---------------------------
(***************************************************************************)
(* Proofs about the programs that drive a gate design.                     *)
(***************************************************************************)
EXTENDS LagoProcess, Recorder, AdcServer, NumberLemmas, TLAPS

(* lago, one invocation after another: Proc = {p}.  The phases in which    *)
(* main works through a list of accesses, and those in which it has aimed  *)
(* the writer.                                                             *)
Scripted == {"first", "init", "start", "stop"}
Served   == {"command", "init", "start", "loop", "stop", "close"}
Aimed    == {"check", "first", "enable"} \cup Served
Before   == {"off", "alloc", "aim", "check"}

ProcessType ==
  /\ phase \in [Proc -> Aimed \cup Before]
  /\ cmd \in [Proc -> {"daq", "init", "query"}]
  /\ ip \in [Proc -> 1..14] /\ val \in [Proc -> SUBSET (0..5)]
  /\ mine \in [Proc -> 0..SIZE] /\ allocs \in 0..MAX_ALLOC
  /\ reg \in SUBSET (0..5)

(* Nobody else writes the reset register between a read and its write.     *)
RmwAtomic(p) ==
  IF phase[p] \in Scripted
  THEN /\ ip[p] <= 2 * Len(Script(phase[p]))
       /\ ip[p] % 2 = 0 => val[p] = reg
  ELSE ip[p] = 1

(* The writer is aimed at the buffer of this invocation, or at the size    *)
(* that a failed allocation left behind.                                   *)
OwnBuffer(p) ==
  /\ phase[p] \in Aimed \cup {"aim"} => mine[p] # 0 /\ cma = IF mine[p] = SIZE THEN 0 ELSE mine[p]
  /\ phase[p] \in Aimed => wrAddr = mine[p]

(* How far the start of the acquisition has come. *)
Started(p) ==
  /\ phase[p] = "start" => (ip[p] >= 3 => 1 \in reg) /\ (ip[p] >= 5 => 0 \in reg)
  /\ phase[p] = "loop" => {0, 1, 2} \subseteq reg

(* What an invocation that runs to its end leaves to the next one.         *)
Orderly(p) ==
  /\ ~killed => (phase[p] \in Served \/ (phase[p] \in Before /\ reg # {}) => ier)
  /\ ~loose => /\ 2 \in reg => phase[p] = "loop" \/ (phase[p] = "stop" /\ ip[p] <= 4)
               /\ phase[p] \in Aimed => clean

AloneInv(p) == ProcessType /\ RmwAtomic(p) /\ OwnBuffer(p) /\ Started(p) /\ Orderly(p)

(* The process has not started and the PL is as configured. *)
LEMMA AloneInit == ASSUME NEW p, Proc = {p}, Init PROVE AloneInv(p)
<1>1. ProcessType
  BY ProcessAssumption DEF Init, ProcessType, Before, SIZE
<1>2. phase[p] = "off" /\ ip[p] = 1 /\ reg = {}
  BY DEF Init
<1> QED BY <1>1, <1>2 DEF AloneInv, RmwAtomic, OwnBuffer, Started, Orderly,
                          Scripted, Served, Aimed, Before

(* What the lists do to the bits.  No list but the start of an acquisition *)
(* takes the writer out of reset.                                          *)
LEMMA Lists ==
  /\ Script("first") = InitSystem /\ Len(InitSystem) = 7
  /\ Script("init") = InitSystem
  /\ Script("start") = DaqStart /\ Len(DaqStart) = 3
  /\ Script("stop") = DaqStop /\ Len(DaqStop) = 3
BY DEF Script, InitSystem, DaqStart, DaqStop

(* The lengths of the lists of register accesses. *)
LEMMA ListLength ==
  ASSUME NEW ph \in Scripted PROVE Len(Script(ph)) \in {3, 7} /\ 1 <= 2 * Len(Script(ph))
<1>1. ph = "first" \/ ph = "init" \/ ph = "start" \/ ph = "stop"
  BY DEF Scripted
<1>2. Len(Script(ph)) = 7 \/ Len(Script(ph)) = 3
  BY <1>1, Lists, Zenon
<1> DEFINE n == Len(Script(ph))
<1>3. n = 7 \/ n = 3
  BY <1>2
<1> HIDE DEF n
<1>4. n \in {3, 7} /\ 1 <= 2 * n
  BY <1>3
<1> QED BY <1>4 DEF n

(* A write of init_system does not set the bit of the writer. *)
LEMMA InitSystemBits ==
  ASSUME NEW k \in 1..7, NEW r \in SUBSET (0..5)
  PROVE  /\ Apply(InitSystem[k], r) \in SUBSET (0..5)
         /\ 2 \in Apply(InitSystem[k], r) => 2 \in r
<1>1. \/ \E b \in 0..3 : InitSystem[k] = Clr(b)
      \/ \E b \in 3..5 : InitSystem[k] = Set(b)
  BY DEF InitSystem
<1>2. CASE \E b \in 0..3 : InitSystem[k] = Clr(b)
  <2>1. PICK b \in 0..3 : InitSystem[k] = Clr(b)
    BY <1>2
  <2>2. Apply(InitSystem[k], r) = r \ {b}
    BY <2>1 DEF Apply, Clr
  <2> QED BY <2>2
<1>3. CASE \E b \in 3..5 : InitSystem[k] = Set(b)
  <2>1. PICK b \in 3..5 : InitSystem[k] = Set(b)
    BY <1>3
  <2>2. Apply(InitSystem[k], r) = r \cup {b}
    BY <2>1 DEF Apply, Set
  <2> QED BY <2>2
<1> QED BY <1>1, <1>2, <1>3

(* The writes that start the acquisition. *)
LEMMA DaqStartBits ==
  ASSUME NEW r \in SUBSET (0..5)
  PROVE  /\ Apply(DaqStart[1], r) = r \cup {1}
         /\ Apply(DaqStart[2], r) = r \cup {0}
         /\ Apply(DaqStart[3], r) = r \cup {2}
BY DEF DaqStart, Apply, Set

(* The writes that stop it. *)
LEMMA DaqStopBits ==
  ASSUME NEW r \in SUBSET (0..5)
  PROVE  /\ Apply(DaqStop[1], r) = r \ {0}
         /\ Apply(DaqStop[2], r) = r \ {2}
         /\ Apply(DaqStop[3], r) = r \ {1}
BY DEF DaqStop, Apply, Clr

(* A step from one phase without a list to another, or to the beginning of *)
(* a list: nothing but phase (and cmd) changes.                            *)
LEMMA PhaseStep ==
  ASSUME NEW p, Proc = {p}, AloneInv(p), NEW ph \in Aimed \cup Before,
         phase[p] \notin Scripted, Goto(p, ph), cmd' \in [Proc -> {"daq", "init", "query"}],
         UNCHANGED <<pl, cma, allocs, ip, val, mine, clean, loose, killed>>,
         ph \in Aimed => phase[p] \in Aimed, ph # "aim", ph # "loop",
         ph \in Served => phase[p] \in Served \/ (phase[p] \in Before /\ reg # {}),
         ph \in Before => phase[p] \in Before,
         phase[p] = "loop" => ph = "stop"
  PROVE  AloneInv(p)'
<1>1. phase' = [phase EXCEPT ![p] = ph] /\ phase'[p] = ph /\ phase \in [Proc -> Aimed \cup Before]
  BY DEF Goto, AloneInv, ProcessType
<1>2. ip' = ip /\ ip[p] = 1 /\ val' = val /\ mine' = mine /\ allocs' = allocs
      /\ reg' = reg /\ ier' = ier /\ wrAddr' = wrAddr /\ cma' = cma
      /\ clean' = clean /\ killed' = killed /\ loose' = loose
  BY DEF AloneInv, RmwAtomic, pl
<1>3. ProcessType'
  BY <1>1, <1>2 DEF AloneInv, ProcessType, SIZE
<1>4. RmwAtomic(p)'
  <2>1. CASE ph \in Scripted
    <3>1. 1 <= 2 * Len(Script(ph))
      BY <2>1, ListLength, Zenon
    <3>2. ip'[p] % 2 # 0
      BY <1>2
    <3> QED BY <1>1, <1>2, <2>1, <3>1, <3>2, Zenon DEF RmwAtomic
  <2>2. CASE ph \notin Scripted
    BY <1>1, <1>2, <2>2, Zenon DEF RmwAtomic
  <2> QED BY <2>1, <2>2
<1>5. OwnBuffer(p)'
  BY <1>1, <1>2 DEF AloneInv, OwnBuffer, SIZE
<1>6. Started(p)'
  BY <1>1, <1>2 DEF Started
<1>7. Orderly(p)'
  <2>1. Orderly(p)
    BY DEF AloneInv
  <2>2. phase[p] # "stop"
    BY DEF Scripted
  <2>3. ~loose => (2 \in reg => ph = "stop")
    BY <2>1, <2>2 DEF Orderly
  <2>4. ~killed => (ph \in Served \/ (ph \in Before /\ reg # {}) => ier)
    BY <1>2, <2>1 DEF Orderly
  <2>5. ~loose => (ph \in Aimed => clean)
    BY <1>2, <2>1, <2>3 DEF Orderly
  <2>6. ~loose => (2 \in reg => ph = "loop" \/ (ph = "stop" /\ ip[p] <= 4))
    BY <1>2, <2>3
  <2>7. phase'[p] = ph /\ ip'[p] = ip[p]
    BY <1>1, <1>2
  <2>8. (~killed' => (phase'[p] \in Served \/ (phase'[p] \in Before /\ reg' # {}) => ier'))
    BY <1>2, <2>4, <2>7
  <2>9. ~loose' => (phase'[p] \in Aimed => clean')
    BY <1>2, <2>5, <2>7
  <2>10. ~loose' => (2 \in reg' => phase'[p] = "loop" \/ (phase'[p] = "stop" /\ ip'[p] <= 4))
    BY <1>2, <2>6, <2>7
  <2> QED BY <2>8, <2>9, <2>10 DEF Orderly
<1> QED BY <1>3, <1>4, <1>5, <1>6, <1>7 DEF AloneInv

(* cma_init frees and allocates, then wr_reg_value aims the writer. *)
LEMMA AllocStep ==
  ASSUME NEW p, Proc = {p}, AloneInv(p), CmaAlloc(p) \/ CmaFails(p) PROVE AloneInv(p)'
<1>1. phase[p] = "alloc" /\ phase'[p] = "aim" /\ phase' \in [Proc -> Aimed \cup Before]
  BY DEF CmaAlloc, CmaFails, Goto, AloneInv, ProcessType, Before
<1>2. ip' = ip /\ ip[p] = 1 /\ val' = val /\ cmd' = cmd /\ reg' = reg /\ ier' = ier
      /\ wrAddr' = wrAddr /\ clean' = clean /\ killed' = killed /\ loose' = loose
  BY <1>1 DEF AloneInv, RmwAtomic, Scripted, pl, CmaAlloc, CmaFails
<1>3. /\ allocs' \in 0..MAX_ALLOC /\ mine' \in [Proc -> 0..SIZE]
      /\ mine'[p] # 0 /\ cma' = IF mine'[p] = SIZE THEN 0 ELSE mine'[p]
  BY ProcessAssumption DEF AloneInv, ProcessType, CmaAlloc, CmaFails, CmaIoctl, SIZE
<1>4. ProcessType'
  BY <1>1, <1>2, <1>3 DEF AloneInv, ProcessType, SIZE
<1>5. "aim" \notin Aimed /\ "aim" \notin Scripted /\ "aim" \notin Served
  BY DEF Aimed, Scripted, Served
<1>6. RmwAtomic(p)'
  BY <1>1, <1>2, <1>5, Zenon DEF RmwAtomic
<1>7. OwnBuffer(p)'
  BY <1>1, <1>3, <1>5 DEF OwnBuffer, SIZE
<1>8. Started(p)'
  BY <1>1 DEF Started
<1>9. Orderly(p)'
  BY <1>1, <1>2, <1>5 DEF AloneInv, Orderly, Before
<1> QED BY <1>4, <1>6, <1>7, <1>8, <1>9 DEF AloneInv

(* The process gives the writer the address of its buffer. *)
LEMMA AimStep ==
  ASSUME NEW p, Proc = {p}, AloneInv(p), Aim(p) PROVE AloneInv(p)'
<1>1. phase[p] = "aim" /\ phase'[p] = "check" /\ phase' \in [Proc -> Aimed \cup Before]
  BY DEF Aim, Goto, AloneInv, ProcessType, Before
<1>2. ip' = ip /\ ip[p] = 1 /\ val' = val /\ cmd' = cmd /\ reg' = reg /\ ier' = ier
      /\ wrAddr' = mine[p] /\ mine' = mine /\ cma' = cma /\ allocs' = allocs
      /\ killed' = killed /\ loose' = loose /\ clean' = (2 \notin reg)
  BY <1>1 DEF AloneInv, RmwAtomic, Scripted, Aim
<1>3. ProcessType'
  BY <1>1, <1>2 DEF AloneInv, ProcessType, SIZE
<1>4. "check" \notin Scripted /\ "check" \notin Served /\ "check" \in Before /\ "aim" \in Before
  BY DEF Scripted, Served, Before
<1>5. RmwAtomic(p)'
  BY <1>1, <1>2, <1>4, Zenon DEF RmwAtomic
<1>6. OwnBuffer(p)'
  BY <1>1, <1>2 DEF AloneInv, OwnBuffer, SIZE
<1>7. Started(p)'
  BY <1>1 DEF Started
<1>8. Orderly(p)'
  <2>1. (~loose => 2 \notin reg) /\ (~killed => (reg # {} => ier))
    BY <1>1, <1>4 DEF AloneInv, Orderly
  <2> QED BY <1>1, <1>2, <1>4, <2>1, Zenon DEF Orderly
<1> QED BY <1>3, <1>5, <1>6, <1>7, <1>8 DEF AloneInv

(* It enables the interrupts. *)
LEMMA EnableStep ==
  ASSUME NEW p, Proc = {p}, AloneInv(p), Enable(p) PROVE AloneInv(p)'
<1>1. phase[p] = "enable" /\ phase'[p] = "command" /\ phase' \in [Proc -> Aimed \cup Before]
  BY DEF Enable, Goto, AloneInv, ProcessType, Aimed, Served
<1>2. ip' = ip /\ ip[p] = 1 /\ val' = val /\ cmd' = cmd /\ reg' = reg /\ ier'
      /\ wrAddr' = wrAddr /\ mine' = mine /\ cma' = cma /\ allocs' = allocs
      /\ killed' = killed /\ loose' = loose /\ clean' = clean
  BY <1>1 DEF AloneInv, RmwAtomic, Scripted, Enable
<1>3. ProcessType'
  BY <1>1, <1>2 DEF AloneInv, ProcessType, SIZE
<1>4. "command" \notin Scripted /\ "command" \in Aimed /\ "enable" \in Aimed
  BY DEF Scripted, Served, Aimed
<1>5. RmwAtomic(p)'
  BY <1>1, <1>2, <1>4, Zenon DEF RmwAtomic
<1>6. OwnBuffer(p)'
  BY <1>1, <1>2, <1>4 DEF AloneInv, OwnBuffer, SIZE
<1>7. Started(p)'
  BY <1>1 DEF Started
<1>8. Orderly(p)'
  <2>1. ~loose => 2 \notin reg /\ clean
    BY <1>1, <1>4 DEF AloneInv, Orderly
  <2> QED BY <1>1, <1>2, <1>4, <2>1, Zenon DEF Orderly
<1> QED BY <1>3, <1>5, <1>6, <1>7, <1>8 DEF AloneInv

(* The end of an invocation, at its close or by a signal. *)
LEMMA ExitStep ==
  ASSUME NEW p, Proc = {p}, AloneInv(p), Close(p) \/ Kill(p) PROVE AloneInv(p)'
<1>1. phase'[p] = "off" /\ phase' \in [Proc -> Aimed \cup Before]
  BY DEF Close, Kill, Exit, AloneInv, ProcessType, Before
<1>2. ip' \in [Proc -> 1..14] /\ ip'[p] = 1 /\ val' \in [Proc -> SUBSET (0..5)]
      /\ cmd' = cmd /\ reg' = reg /\ ier' = ier /\ mine' \in [Proc -> 0..SIZE]
      /\ allocs' = allocs /\ clean' = clean
  BY ProcessAssumption DEF AloneInv, ProcessType, Close, Kill, Exit, pl, SIZE
<1>3. ProcessType'
  BY <1>1, <1>2 DEF AloneInv, ProcessType, SIZE
<1>4. "off" \notin Scripted /\ "off" \notin Served /\ "off" \notin Aimed
  BY DEF Scripted, Served, Aimed
<1>5. RmwAtomic(p)'
  BY <1>1, <1>2, <1>4, Zenon DEF RmwAtomic
<1>6. OwnBuffer(p)'
  BY <1>1, <1>4 DEF OwnBuffer
<1>7. Started(p)'
  BY <1>1 DEF Started
<1>8. Orderly(p)'
  <2>1. CASE Close(p)
    <3>1. killed' = killed /\ loose' = loose /\ phase[p] = "close" /\ "close" \in Served
      BY <2>1 DEF Close, Served
    <3>2. (~killed => ier) /\ (~loose => 2 \notin reg)
      BY <3>1 DEF AloneInv, Orderly
    <3> QED BY <1>1, <1>2, <1>4, <3>1, <3>2, Zenon DEF Orderly
  <2>2. CASE Kill(p)
    <3>1. killed' /\ (~loose' => 2 \notin reg)
      BY <2>2, Zenon DEF Kill
    <3> QED BY <1>1, <1>2, <1>4, <3>1, Zenon DEF Orderly
  <2> QED BY <2>1, <2>2
<1> QED BY <1>3, <1>5, <1>6, <1>7, <1>8 DEF AloneInv

(* It reads the reset register for the next write. *)
LEMMA ReadStep ==
  ASSUME NEW p, Proc = {p}, AloneInv(p), RmwRead(p) PROVE AloneInv(p)'
<1>1. phase' = phase /\ phase[p] \in Scripted /\ reg' = reg /\ ier' = ier /\ wrAddr' = wrAddr
      /\ cma' = cma /\ allocs' = allocs /\ cmd' = cmd /\ mine' = mine
      /\ clean' = clean /\ killed' = killed /\ loose' = loose
  BY DEF RmwRead, pl, Scripted
<1>2. ip[p] \in 1..14 /\ ip[p] % 2 = 1 /\ ip' = [ip EXCEPT ![p] = ip[p] + 1]
      /\ val' = [val EXCEPT ![p] = reg]
  BY DEF RmwRead, AloneInv, ProcessType
<1>3. ip'[p] = ip[p] + 1 /\ val'[p] = reg
  BY <1>2 DEF AloneInv, ProcessType
<1>4. Len(Script(phase[p])) \in {3, 7} /\ ip[p] <= 2 * Len(Script(phase[p]))
  BY <1>1, ListLength, Zenon DEF AloneInv, RmwAtomic
<1>5. ip[p] + 1 <= 2 * Len(Script(phase[p]))
  BY <1>2, <1>4, SMTT(30)
<1>6. ip' \in [Proc -> 1..14] /\ val' \in [Proc -> SUBSET (0..5)]
  BY <1>2 DEF AloneInv, ProcessType
<1>7. ProcessType'
  BY <1>1, <1>6 DEF AloneInv, ProcessType, SIZE
<1>8. RmwAtomic(p)'
  BY <1>1, <1>3, <1>5, Zenon DEF RmwAtomic
<1>9. OwnBuffer(p)'
  BY <1>1 DEF AloneInv, OwnBuffer, SIZE
<1>10. Started(p)'
  <2>1. (ip'[p] >= 3 => ip[p] >= 3) /\ (ip'[p] >= 5 => ip[p] >= 5)
    BY <1>2, <1>3
  <2> QED BY <1>1, <2>1, Zenon DEF AloneInv, Started
<1>11. Orderly(p)'
  <2>1. ip[p] <= 4 => ip'[p] <= 4
    BY <1>2, <1>3
  <2> QED BY <1>1, <2>1, Zenon DEF AloneInv, Orderly
<1> QED BY <1>7, <1>8, <1>9, <1>10, <1>11 DEF AloneInv

(* The place in a list of n accesses. *)
LEMMA WriteIsDue ==
  ASSUME NEW i \in 1..14, i % 2 = 0, NEW n \in {3, 7}, i <= 2 * n
  PROVE  /\ i \div 2 \in 1..n /\ i = 2 * (i \div 2)
         /\ i \div 2 # n => i + 1 \in 1..14 /\ i + 1 <= 2 * n /\ (i + 1) % 2 # 0
OBVIOUS

(* What a write of the reset register does to the bits and to the place in *)
(* the list: the lists of main are all that is known of it below.          *)
LEMMA WriteEffect ==
  ASSUME NEW p \in Proc, ProcessType, RmwAtomic(p), RmwWrite(p),
         NEW n \in {3, 7}, n = Len(Script(phase[p])), NEW k, k = ip[p] \div 2
  PROVE  /\ phase[p] \in Scripted /\ k \in 1..n /\ ip[p] = 2 * k
         /\ reg' = Apply(Script(phase[p])[k], reg)
         /\ k = n => phase'[p] = After(phase[p]) /\ ip'[p] = 1
         /\ k # n => phase'[p] = phase[p] /\ ip'[p] = 2 * k + 1 /\ ip'[p] % 2 # 0 /\ ip'[p] <= 2 * n
         /\ phase' \in [Proc -> Aimed \cup Before] /\ ip' \in [Proc -> 1..14]
         /\ \A q \in Proc \ {p} : phase'[q] = phase[q] /\ ip'[q] = ip[q]
         /\ ier' = ier /\ wrAddr' = wrAddr /\ cma' = cma /\ allocs' = allocs /\ cmd' = cmd
         /\ val' = val /\ mine' = mine /\ killed' = killed /\ (~loose' => ~loose \/ 2 \notin reg')
         /\ (clean \/ 2 \notin reg' => clean')
<1>1. phase[p] \in Scripted /\ ip[p] % 2 = 0 /\ ip[p] \in 1..14
      /\ ier' = ier /\ wrAddr' = wrAddr /\ cma' = cma /\ allocs' = allocs /\ cmd' = cmd
      /\ val' = val /\ mine' = mine /\ killed' = killed /\ (~loose' => ~loose \/ 2 \notin reg')
      /\ (clean \/ 2 \notin reg' => clean')
  BY DEF RmwWrite, Scripted, ProcessType
<1>2. ip[p] <= 2 * n /\ val[p] = reg
  BY <1>1, Zenon DEF RmwAtomic
<1>3. k \in 1..n /\ ip[p] = 2 * k
      /\ (k # n => ip[p] + 1 \in 1..14 /\ ip[p] + 1 <= 2 * n /\ (ip[p] + 1) % 2 # 0)
  BY <1>1, <1>2, WriteIsDue
<1>4. reg' = Apply(Script(phase[p])[k], reg)
  BY <1>2 DEF RmwWrite
<1>5. After(phase[p]) \in Aimed \cup Before
  BY <1>1 DEF After, Scripted, Aimed, Served
<1>6. CASE k = n
  <2>1. phase' = [phase EXCEPT ![p] = After(phase[p])] /\ ip' = [ip EXCEPT ![p] = 1]
    BY <1>6, Zenon DEF RmwWrite, Goto
  <2>2. phase'[p] = After(phase[p]) /\ ip'[p] = 1
        /\ phase' \in [Proc -> Aimed \cup Before] /\ ip' \in [Proc -> 1..14]
        /\ \A q \in Proc \ {p} : phase'[q] = phase[q] /\ ip'[q] = ip[q]
    BY <1>5, <2>1, SMTT(30) DEF ProcessType
  <2> QED BY <1>1, <1>3, <1>4, <1>6, <2>2, Zenon
<1>7. CASE k # n
  <2>1. phase' = phase /\ ip' = [ip EXCEPT ![p] = ip[p] + 1]
    BY <1>7, Zenon DEF RmwWrite
  <2>2. phase'[p] = phase[p] /\ ip'[p] = ip[p] + 1
        /\ phase' \in [Proc -> Aimed \cup Before] /\ ip' \in [Proc -> 1..14]
        /\ \A q \in Proc \ {p} : phase'[q] = phase[q] /\ ip'[q] = ip[q]
    BY <1>3, <1>7, <2>1 DEF ProcessType
  <2> QED BY <1>1, <1>3, <1>4, <1>7, <2>2, Zenon
<1> QED BY <1>6, <1>7

(* It writes the value it has read, with one bit changed. *)
LEMMA WriteStep ==
  ASSUME NEW p, Proc = {p}, AloneInv(p), RmwWrite(p) PROVE AloneInv(p)'
<1> DEFINE n == Len(Script(phase[p]))
           k == ip[p] \div 2
<1>1. n \in {3, 7}
  BY ListLength, Zenon DEF RmwWrite, Scripted
<1>2. /\ phase[p] \in Scripted /\ k \in 1..n /\ ip[p] = 2 * k
      /\ reg' = Apply(Script(phase[p])[k], reg)
      /\ k = n => phase'[p] = After(phase[p]) /\ ip'[p] = 1
      /\ k # n => phase'[p] = phase[p] /\ ip'[p] = 2 * k + 1 /\ ip'[p] % 2 # 0 /\ ip'[p] <= 2 * n
      /\ phase' \in [Proc -> Aimed \cup Before] /\ ip' \in [Proc -> 1..14]
      /\ ier' = ier /\ wrAddr' = wrAddr /\ cma' = cma /\ allocs' = allocs /\ cmd' = cmd
      /\ val' = val /\ mine' = mine /\ killed' = killed /\ (~loose' => ~loose \/ 2 \notin reg')
      /\ (clean \/ 2 \notin reg' => clean')
  <2>1. p \in Proc /\ ProcessType /\ RmwAtomic(p)
    BY DEF AloneInv
  <2> QED BY <1>1, <2>1, WriteEffect, Zenon
<1>3. n = Len(Script(phase[p]))
  OBVIOUS
<1> HIDE DEF n, k
<1>4. reg \in SUBSET (0..5) /\ Orderly(p) /\ OwnBuffer(p) /\ Started(p)
  BY DEF AloneInv, ProcessType
<1>5. phase'[p] = After(phase[p]) \/ phase'[p] = phase[p]
  BY <1>2
<1>6. After(phase[p]) \in Aimed /\ After(phase[p]) \notin Scripted /\ phase[p] \in Aimed
      /\ After(phase[p]) # "aim" /\ phase[p] # "aim" /\ phase'[p] \notin Before
      /\ (phase'[p] \in Served => phase[p] \in Served)
  BY <1>2, <1>5 DEF After, Scripted, Aimed, Served, Before
<1>7. RmwAtomic(p)'
  <2>1. CASE k = n
    BY <1>2, <1>6, <2>1, Zenon DEF RmwAtomic
  <2>2. CASE k # n
    BY <1>2, <1>3, <2>2, Zenon DEF RmwAtomic
  <2> QED BY <2>1, <2>2
<1>8. OwnBuffer(p)'
  BY <1>2, <1>4, <1>5, <1>6 DEF OwnBuffer, SIZE
<1>9. (~killed => (phase'[p] \in Served => ier')) /\ (~loose' => clean')
  BY <1>2, <1>4, <1>6, Zenon DEF Orderly
<1>10. SUFFICES /\ reg' \in SUBSET (0..5) /\ Started(p)'
                /\ ~loose => (2 \in reg' => \/ phase'[p] = "loop"
                                            \/ phase'[p] = "stop" /\ ip'[p] <= 4)
  <2>1. ProcessType'
    BY <1>2, <1>10 DEF AloneInv, ProcessType, SIZE
  <2>2. Orderly(p)'
    BY <1>2, <1>6, <1>9, <1>10, Zenon DEF Orderly
  <2> QED BY <1>7, <1>8, <1>10, <2>1, <2>2 DEF AloneInv
<1>11. CASE phase[p] \in {"first", "init"}
  <2>1. Script(phase[p]) = InitSystem /\ n = 7
    BY <1>3, <1>11, Lists
  <2>2. reg' \in SUBSET (0..5) /\ (2 \in reg' => 2 \in reg)
    BY <1>2, <1>4, <2>1, InitSystemBits
  <2>3. phase'[p] # "start" /\ phase'[p] # "loop"
    BY <1>5, <1>11 DEF After
  <2>4. ~loose => 2 \notin reg
    BY <1>4, <1>11 DEF Orderly
  <2> QED BY <2>2, <2>3, <2>4, Zenon DEF Started
<1>12. CASE phase[p] = "start"
  <2>1. Script(phase[p]) = DaqStart /\ n = 3 /\ After(phase[p]) = "loop"
    BY <1>3, <1>12, Lists DEF After
  <2>2. ~loose => 2 \notin reg
    BY <1>4, <1>12 DEF Orderly
  <2>3. k = 1 \/ k = 2 \/ k = 3
    BY <1>2, <2>1
  <2>4. CASE k = 1
    <3>1. reg' = reg \cup {1} /\ phase'[p] = "start" /\ ip'[p] = 3
      BY <1>2, <1>4, <1>12, <2>1, <2>4, DaqStartBits, SMTT(20)
    <3> QED BY <1>4, <2>2, <3>1 DEF Started
  <2>5. CASE k = 2
    <3>1. reg' = reg \cup {0} /\ phase'[p] = "start" /\ ip'[p] = 5 /\ ip[p] = 4
      BY <1>2, <1>4, <1>12, <2>1, <2>5, DaqStartBits, SMTT(20)
    <3> QED BY <1>4, <1>12, <2>2, <3>1 DEF Started
  <2>6. CASE k = 3
    <3>1. reg' = reg \cup {2} /\ phase'[p] = "loop" /\ ip[p] = 6
      BY <1>2, <1>4, <1>12, <2>1, <2>6, DaqStartBits, SMTT(20)
    <3> QED BY <1>4, <1>12, <3>1 DEF Started
  <2> QED BY <2>3, <2>4, <2>5, <2>6
<1>13. CASE phase[p] = "stop"
  <2>1. Script(phase[p]) = DaqStop /\ n = 3 /\ After(phase[p]) = "close"
    BY <1>3, <1>13, Lists DEF After
  <2>2. Started(p)'
    BY <1>5, <1>13, <2>1 DEF Started
  <2>3. k = 1 \/ k = 2 \/ k = 3
    BY <1>2, <2>1
  <2>4. CASE k = 1
    <3>1. reg' = reg \ {0} /\ phase'[p] = "stop" /\ ip'[p] = 3
      BY <1>2, <1>4, <1>13, <2>1, <2>4, DaqStopBits, SMTT(20)
    <3> QED BY <1>4, <2>2, <3>1
  <2>5. CASE k = 2
    <3>1. reg' = reg \ {2}
      BY <1>2, <1>4, <2>1, <2>5, DaqStopBits, SMTT(20)
    <3> QED BY <1>4, <2>2, <3>1
  <2>6. CASE k = 3
    <3>0. ip[p] = 6
      BY <1>2, <2>6
    <3>1. reg' = reg \ {1}
      BY <1>2, <1>4, <2>1, <2>6, DaqStopBits, SMTT(20)
    <3>2. ~loose => 2 \notin reg
      BY <1>4, <1>13, <3>0 DEF Orderly
    <3> QED BY <1>4, <2>2, <3>1, <3>2
  <2> QED BY <2>3, <2>4, <2>5, <2>6
<1> QED BY <1>2, <1>11, <1>12, <1>13 DEF Scripted

(* Every step keeps the relation between its place and the registers. *)
LEMMA AloneStep ==
  ASSUME NEW p, Proc = {p}, AloneInv(p), [Next]_vars PROVE AloneInv(p)'
<1>1. cmd \in [Proc -> {"daq", "init", "query"}] /\ p \in Proc
  BY DEF AloneInv, ProcessType
<1>2. CASE Launch(p)
  <2>1. phase[p] = "off" /\ phase[p] \notin Scripted /\ phase[p] \in Before
    BY <1>2 DEF Launch, Scripted, Before
  <2>2. cmd' \in [Proc -> {"daq", "init", "query"}]
    BY <1>1, <1>2, ProcessAssumption DEF Launch
  <2>3. "alloc" \in Before /\ "alloc" \notin Aimed /\ "alloc" \notin Served
    BY DEF Before, Aimed, Served
  <2> QED BY <1>2, <2>1, <2>2, <2>3, PhaseStep DEF Launch
<1>3. CASE Check(p)
  <2> DEFINE ph == IF reg = {} THEN "first" ELSE "command"
  <2>1. phase[p] = "check" /\ phase[p] \notin Scripted /\ phase[p] \in Before /\ phase[p] \in Aimed
    BY <1>3 DEF Check, Scripted, Before, Aimed
  <2>2. ph \in Aimed /\ ph \notin Before /\ (ph \in Served => reg # {}) /\ ph # "aim" /\ ph # "loop"
    BY DEF Before, Aimed, Served
  <2>3. Goto(p, ph) /\ cmd' = cmd
    BY <1>3 DEF Check
  <2> HIDE DEF ph
  <2> QED BY <1>1, <1>3, <2>1, <2>2, <2>3, PhaseStep DEF Check
<1>4. CASE Dispatch(p)
  <2> DEFINE ph == CASE cmd[p] = "daq"   -> "start"
                     [] cmd[p] = "init"  -> "init"
                     [] cmd[p] = "query" -> "close"
  <2>1. phase[p] = "command" /\ phase[p] \notin Scripted /\ phase[p] \in Served /\ phase[p] \in Aimed
    BY <1>4 DEF Dispatch, Scripted, Aimed, Served
  <2>2. ph \in Aimed /\ ph \notin Before /\ ph # "aim" /\ ph # "loop"
    BY <1>1 DEF Before, Aimed, Served
  <2>3. Goto(p, ph) /\ cmd' = cmd
    BY <1>4 DEF Dispatch
  <2> HIDE DEF ph
  <2> QED BY <1>1, <1>4, <2>1, <2>2, <2>3, PhaseStep DEF Dispatch
<1>5. CASE Interrupt(p)
  <2>1. phase[p] = "loop" /\ phase[p] \notin Scripted /\ phase[p] \in Served /\ phase[p] \in Aimed
    BY <1>5 DEF Interrupt, Scripted, Aimed, Served
  <2>2. "stop" \in Aimed /\ "stop" \notin Before
    BY DEF Before, Aimed, Served
  <2>3. Goto(p, "stop") /\ cmd' = cmd
    BY <1>5 DEF Interrupt
  <2> QED BY <1>1, <1>5, <2>1, <2>2, <2>3, PhaseStep DEF Interrupt
<1>6. CASE UNCHANGED vars
  <2>1. reg' = reg /\ ier' = ier /\ wrAddr' = wrAddr /\ cma' = cma /\ allocs' = allocs
        /\ phase' = phase /\ cmd' = cmd /\ ip' = ip /\ val' = val /\ mine' = mine
        /\ clean' = clean /\ killed' = killed /\ loose' = loose
    BY <1>6 DEF vars, pl, proc
  <2> QED BY <2>1 DEF AloneInv, ProcessType, RmwAtomic, OwnBuffer, Started, Orderly, SIZE
<1>7. CASE Next
  <2>1. \/ Launch(p) \/ CmaAlloc(p) \/ CmaFails(p) \/ Aim(p) \/ Check(p)
        \/ RmwRead(p) \/ RmwWrite(p) \/ Enable(p) \/ Dispatch(p)
        \/ Interrupt(p) \/ Close(p) \/ Kill(p)
    BY <1>7, Zenon DEF Next
  <2> QED BY <2>1, <1>2, <1>3, <1>4, <1>5, AllocStep, AimStep, EnableStep, ExitStep,
             ReadStep, WriteStep
<1> QED BY <1>6, <1>7

(* The relation always holds. *)
LEMMA AloneAlways == ASSUME NEW p, Proc = {p} PROVE Spec => []AloneInv(p)
<1>1. Init => AloneInv(p)
  BY AloneInit
<1>2. AloneInv(p) /\ [Next]_vars => AloneInv(p)'
  BY AloneStep
<1> QED BY <1>1, <1>2, PTL DEF Spec

(* One invocation of lago after another, killed or not, each with its      *)
(* buffer or without memory for one: the acquisition loop reads the buffer *)
(* the writer fills, and nobody frees it meanwhile.                        *)
THEOREM DaqBufferKept == ASSUME NEW p, Proc = {p} PROVE Spec => []DaqKeepsBuffer
<1>1. ASSUME AloneInv(p) PROVE DaqKeepsBuffer
  <2>1. ASSUME phase[p] = "loop" PROVE phase[p] \in Aimed
    BY <2>1 DEF Aimed, Served
  <2> QED BY <1>1, <2>1 DEF AloneInv, OwnBuffer, DaqKeepsBuffer, SIZE
<1> QED BY <1>1, AloneAlways, PTL

(* A writer that is out of reset is aimed at allocated memory: every       *)
(* acquisition puts it back before it closes /dev/cma.  Not while a killed *)
(* one has left it running, until the next stop or -i resets it.           *)
THEOREM NoDmaIntoFreedBuffer == ASSUME NEW p, Proc = {p} PROVE Spec => []DmaIntoLiveBuffer
<1>1. ASSUME AloneInv(p) PROVE DmaIntoLiveBuffer
  <2>1. ASSUME phase[p] \in {"loop", "stop"} PROVE phase[p] \in Aimed
    BY <2>1 DEF Aimed, Served
  <2>2. ASSUME ~loose, 2 \in reg PROVE phase[p] \in {"loop", "stop"}
    BY <1>1, <2>2 DEF AloneInv, Orderly
  <2>3. ASSUME phase[p] \in Aimed, wrAddr # SIZE PROVE cma # 0 /\ wrAddr = cma
    BY <1>1, <2>3 DEF AloneInv, OwnBuffer, SIZE
  <2> QED BY <2>1, <2>2, <2>3, Zenon DEF DmaIntoLiveBuffer
<1> QED BY <1>1, AloneAlways, PTL

(* The start list has taken every stage out of reset when the loop begins, *)
(* and the first invocation after power-up has enabled the interrupts.     *)
THEOREM PipelineRuns == ASSUME NEW p, Proc = {p} PROVE Spec => []DaqRuns
<1>1. ASSUME AloneInv(p) PROVE DaqRuns
  <2>1. ASSUME phase[p] = "loop" PROVE phase[p] \in Served
    BY <2>1 DEF Served
  <2> QED BY <1>1, <2>1 DEF AloneInv, Started, Orderly, DaqRuns
<1> QED BY <1>1, AloneAlways, PTL

(* When the loop begins the writer has been in reset since it was aimed,   *)
(* unless a killed one left it running: it counts from the beginning of    *)
(* this invocation's buffer.                                               *)
THEOREM WriterStartsClean == ASSUME NEW p, Proc = {p} PROVE Spec => []DaqStartsClean
<1>1. ASSUME AloneInv(p) PROVE DaqStartsClean
  <2>1. ASSUME phase[p] = "loop" PROVE phase[p] \in Aimed
    BY <2>1 DEF Aimed, Served
  <2> QED BY <1>1, <2>1 DEF AloneInv, Orderly, DaqStartsClean
<1> QED BY <1>1, AloneAlways, PTL

----------------------------------------------------------------------------
(* lago, any number of invocations side by side.  The phases in which main *)
(* changes the reset register, or relies on it.                            *)
Changing == {"first", "enable", "init", "start", "loop", "stop"}

(* Invocations that ask for nothing more than a query, and the phases in   *)
(* which every invocation maps its buffer and aims the writer, may come at *)
(* any time; initialisations and acquisitions come one after another.      *)
Undisturbed == \A p, q \in Proc : phase[p] \in Changing /\ phase[q] \in Changing => p = q

(* If nobody was killed, the interrupts are enabled, or whoever found the  *)
(* PL uninitialised is about to enable them, or nobody has looked yet.     *)
Awake ==
  \/ killed \/ ier
  \/ \E q \in Proc : phase[q] \in {"first", "enable"}
  \/ reg = {} /\ \A q \in Proc : phase[q] \in Before

Together == ProcessType /\ Awake /\ \A p \in Proc : RmwAtomic(p) /\ Started(p)

LEMMA TogetherInit == Init => Together
<1> SUFFICES ASSUME Init PROVE Together
  OBVIOUS
<1>1. ProcessType
  BY ProcessAssumption DEF Init, ProcessType, Before, SIZE
<1>2. reg = {} /\ \A q \in Proc : phase[q] = "off" /\ ip[q] = 1
  BY DEF Init
<1>3. Awake
  BY <1>2 DEF Awake, Before
<1>4. \A q \in Proc : RmwAtomic(q) /\ Started(q)
  BY <1>2 DEF RmwAtomic, Started, Scripted
<1> QED BY <1>1, <1>3, <1>4 DEF Together

(* A step of process p leaves the place of the others alone; it changes    *)
(* the reset register only in a phase in which they do not use it.         *)
LEMMA OthersKept ==
  ASSUME Together, Undisturbed, NEW p \in Proc, ProcessType', Awake',
         \A q \in Proc \ {p} : phase'[q] = phase[q] /\ ip'[q] = ip[q] /\ val'[q] = val[q],
         reg' = reg \/ phase[p] \in Scripted,
         RmwAtomic(p)', Started(p)'
  PROVE  Together'
<1>1. ASSUME NEW q \in Proc, q # p PROVE RmwAtomic(q)' /\ Started(q)'
  <2>1. phase'[q] = phase[q] /\ ip'[q] = ip[q] /\ val'[q] = val[q]
    BY <1>1
  <2>2. RmwAtomic(q) /\ Started(q)
    BY DEF Together
  <2>3. CASE reg' = reg
    <3>1. RmwAtomic(q)'
      BY <2>1, <2>2, <2>3, Zenon DEF RmwAtomic
    <3>2. Started(q)'
      BY <2>1, <2>2, <2>3 DEF Started
    <3> QED BY <3>1, <3>2
  <2>4. CASE phase[p] \in Scripted
    <3>1. phase[q] \notin Changing
      BY <1>1, <2>4 DEF Undisturbed, Scripted, Changing
    <3>2. phase[q] \notin Scripted /\ phase[q] # "start" /\ phase[q] # "loop"
      BY <3>1 DEF Scripted, Changing
    <3>3. RmwAtomic(q)'
      BY <2>1, <2>2, <3>2, Zenon DEF RmwAtomic
    <3>4. Started(q)'
      BY <2>1, <3>2, Zenon DEF Started
    <3> QED BY <3>3, <3>4
  <2> QED BY <2>3, <2>4
<1> QED BY <1>1 DEF Together

(* What a step of p may not do to the interrupts. *)
LEMMA AwakeKept ==
  ASSUME Together, NEW p \in Proc, NEW ph, phase' = [phase EXCEPT ![p] = ph],
         killed => killed', ier => ier',
         phase[p] \in {"first", "enable"} => ph \in {"first", "enable"} \/ ier' \/ killed',
         phase[p] \in Before => (ph \in Before /\ reg' = reg) \/ ph = "first" \/ reg # {}
  PROVE  Awake'
<1>1. Awake /\ phase'[p] = ph /\ \A q \in Proc \ {p} : phase'[q] = phase[q]
  BY DEF Together, ProcessType
<1>2. CASE \E q \in Proc : phase[q] \in {"first", "enable"}
  <2>1. PICK q \in Proc : phase[q] \in {"first", "enable"}
    BY <1>2
  <2> QED BY <1>1, <2>1 DEF Awake
<1>3. CASE reg = {} /\ \A q \in Proc : phase[q] \in Before
  BY <1>1, <1>3 DEF Awake
<1> QED BY <1>1, <1>2, <1>3 DEF Awake

(* Steps that do not touch the reset register. *)
LEMMA PlainStep ==
  ASSUME Together, Undisturbed, NEW p \in Proc, NEW ph \in Aimed \cup Before, ph # "loop",
         phase[p] \notin Scripted, Goto(p, ph), UNCHANGED <<reg, ip, val, killed>>,
         cmd' \in [Proc -> {"daq", "init", "query"}],
         mine' \in [Proc -> 0..SIZE], allocs' \in 0..MAX_ALLOC,
         ier => ier', phase[p] = "enable" => ier',
         phase[p] \in Before => ph \in Before \/ ph = "first" \/ reg # {}
  PROVE  Together'
<1>1. phase' = [phase EXCEPT ![p] = ph] /\ phase'[p] = ph
      /\ \A q \in Proc \ {p} : phase'[q] = phase[q]
  BY DEF Goto, Together, ProcessType
<1>2. ip' = ip /\ val' = val /\ reg' = reg /\ killed' = killed /\ ip[p] = 1
  <2>1. RmwAtomic(p)
    BY DEF Together
  <2> QED BY <2>1, Zenon DEF RmwAtomic
<1>3. ProcessType'
  BY <1>1, <1>2 DEF Together, ProcessType, SIZE
<1>4. Awake'
  <2>1. phase[p] # "first"
    BY DEF Scripted
  <2>2. phase[p] \in {"first", "enable"} => ier'
    BY <2>1
  <2>3. phase[p] \in Before => (ph \in Before /\ reg' = reg) \/ ph = "first" \/ reg # {}
    BY <1>2
  <2>4. phase' = [phase EXCEPT ![p] = ph] /\ (killed => killed')
    BY <1>1, <1>2
  <2> QED BY <2>2, <2>3, <2>4, AwakeKept, Zenon
<1>5. RmwAtomic(p)'
  <2>1. CASE ph \in Scripted
    <3>1. 1 <= 2 * Len(Script(ph))
      BY <2>1, ListLength, Zenon
    <3>2. ip'[p] % 2 # 0
      BY <1>2
    <3> QED BY <1>1, <1>2, <2>1, <3>1, <3>2, Zenon DEF RmwAtomic
  <2>2. CASE ph \notin Scripted
    BY <1>1, <1>2, <2>2, Zenon DEF RmwAtomic
  <2> QED BY <2>1, <2>2
<1>6. Started(p)'
  BY <1>1, <1>2 DEF Started
<1> QED BY <1>1, <1>2, <1>3, <1>4, <1>5, <1>6, OthersKept

(* The end of a process. *)
LEMMA EndStep ==
  ASSUME Together, Undisturbed, NEW p \in Proc, Exit(p),
         \/ phase[p] = "close" /\ UNCHANGED killed
         \/ killed'
  PROVE  Together'
<1>1. phase' = [phase EXCEPT ![p] = "off"] /\ phase'[p] = "off" /\ ip'[p] = 1
      /\ ip' = [ip EXCEPT ![p] = 1] /\ val' = [val EXCEPT ![p] = {}] /\ mine' = [mine EXCEPT ![p] = 0]
      /\ reg' = reg /\ ier' = ier /\ allocs' = allocs /\ cmd' = cmd
  BY DEF Exit, Together, ProcessType, pl
<1>2. \A q \in Proc \ {p} : phase'[q] = phase[q] /\ ip'[q] = ip[q] /\ val'[q] = val[q]
  BY <1>1 DEF Together, ProcessType
<1>3. ProcessType'
  <2>1. "off" \in Aimed \cup Before
    BY DEF Before
  <2>2. 0 \in 0..SIZE
    BY ProcessAssumption DEF SIZE
  <2>3. phase' \in [Proc -> Aimed \cup Before] /\ ip' \in [Proc -> 1..14]
        /\ val' \in [Proc -> SUBSET (0..5)] /\ mine' \in [Proc -> 0..SIZE]
    BY <1>1, <2>1, <2>2 DEF Together, ProcessType
  <2> QED BY <1>1, <2>3 DEF Together, ProcessType, SIZE
<1>4. Awake'
  <2>1. "off" \in Before
    BY DEF Before
  <2>2. CASE killed'
    BY <2>2 DEF Awake
  <2>3. CASE phase[p] = "close" /\ UNCHANGED killed
    BY <1>1, <2>1, <2>3, AwakeKept
  <2> QED BY <2>2, <2>3
<1>5. RmwAtomic(p)' /\ Started(p)'
  BY <1>1 DEF RmwAtomic, Started, Scripted
<1> QED BY <1>1, <1>2, <1>3, <1>4, <1>5, OthersKept

(* The reset register is read for the next write. *)
LEMMA ReadBeside ==
  ASSUME Together, Undisturbed, NEW p \in Proc, RmwRead(p) PROVE Together'
<1>1. phase' = phase /\ phase[p] \in Scripted /\ reg' = reg /\ ier' = ier
      /\ allocs' = allocs /\ cmd' = cmd /\ mine' = mine /\ killed' = killed
  BY DEF RmwRead, pl, Scripted
<1>2. ip[p] \in 1..14 /\ ip[p] % 2 = 1 /\ ip' = [ip EXCEPT ![p] = ip[p] + 1]
      /\ val' = [val EXCEPT ![p] = reg]
  BY DEF RmwRead, Together, ProcessType
<1>3. ip'[p] = ip[p] + 1 /\ val'[p] = reg
      /\ \A q \in Proc \ {p} : phase'[q] = phase[q] /\ ip'[q] = ip[q] /\ val'[q] = val[q]
  BY <1>1, <1>2 DEF Together, ProcessType
<1>4. RmwAtomic(p) /\ Started(p)
  BY DEF Together
<1>5. Len(Script(phase[p])) \in {3, 7} /\ ip[p] <= 2 * Len(Script(phase[p]))
  BY <1>1, <1>4, ListLength, Zenon DEF RmwAtomic
<1>6. ip[p] + 1 <= 2 * Len(Script(phase[p]))
  BY <1>2, <1>5, SMTT(30)
<1>7. ip' \in [Proc -> 1..14] /\ val' \in [Proc -> SUBSET (0..5)]
  <2>1. ip[p] + 1 \in 1..14
    BY <1>2
  <2> QED BY <1>2, <2>1 DEF Together, ProcessType
<1>8. ProcessType'
  BY <1>1, <1>7 DEF Together, ProcessType, SIZE
<1>9. Awake'
  BY <1>1, Zenon DEF Together, Awake
<1>10. RmwAtomic(p)'
  BY <1>1, <1>3, <1>6, Zenon DEF RmwAtomic
<1>11. Started(p)'
  <2>1. (ip'[p] >= 3 => ip[p] >= 3) /\ (ip'[p] >= 5 => ip[p] >= 5)
    BY <1>2, <1>3
  <2> QED BY <1>1, <1>4, <2>1, Zenon DEF Started
<1> QED BY <1>1, <1>3, <1>8, <1>9, <1>10, <1>11, OthersKept

(* What the lists do to the bits an acquisition relies on, and to its      *)
(* place: the write of a process that nobody disturbs.                     *)
LEMMA WriteBeside ==
  ASSUME Together, Undisturbed, NEW p \in Proc, RmwWrite(p) PROVE Together'
<1> DEFINE n == Len(Script(phase[p]))
           k == ip[p] \div 2
<1>1. n \in {3, 7}
  BY ListLength, Zenon DEF RmwWrite, Scripted
<1>2. ProcessType /\ RmwAtomic(p) /\ Started(p)
  BY DEF Together
<1>3. /\ phase[p] \in Scripted /\ k \in 1..n /\ ip[p] = 2 * k
      /\ reg' = Apply(Script(phase[p])[k], reg)
      /\ k = n => phase'[p] = After(phase[p]) /\ ip'[p] = 1
      /\ k # n => phase'[p] = phase[p] /\ ip'[p] = 2 * k + 1 /\ ip'[p] % 2 # 0 /\ ip'[p] <= 2 * n
      /\ phase' \in [Proc -> Aimed \cup Before] /\ ip' \in [Proc -> 1..14]
      /\ \A q \in Proc \ {p} : phase'[q] = phase[q] /\ ip'[q] = ip[q]
      /\ ier' = ier /\ wrAddr' = wrAddr /\ cma' = cma /\ allocs' = allocs /\ cmd' = cmd
      /\ val' = val /\ mine' = mine /\ killed' = killed
      /\ (clean \/ 2 \notin reg' => clean')
  BY <1>1, <1>2, WriteEffect, ZenonT(60)
<1>4. n = Len(Script(phase[p]))
  OBVIOUS
<1> HIDE DEF n, k
<1>5. reg \in SUBSET (0..5)
  BY <1>2 DEF ProcessType
<1>6. phase'[p] = After(phase[p]) \/ phase'[p] = phase[p]
  BY <1>3
<1>7. After(phase[p]) \notin Scripted /\ phase[p] \notin Before
      /\ (phase[p] = "first" => phase'[p] \in {"first", "enable"}) /\ phase[p] # "enable"
  BY <1>3, <1>6 DEF After, Scripted, Before
<1>8. Awake'
  <2>1. phase' = [phase EXCEPT ![p] = phase'[p]]
    BY <1>2, <1>3 DEF ProcessType
  <2> QED BY <1>3, <1>7, <2>1, AwakeKept
<1>9. RmwAtomic(p)'
  <2>1. CASE k = n
    BY <1>3, <1>7, <2>1, Zenon DEF RmwAtomic
  <2>2. CASE k # n
    BY <1>3, <1>4, <2>2, Zenon DEF RmwAtomic
  <2> QED BY <2>1, <2>2
<1>10. SUFFICES reg' \in SUBSET (0..5) /\ Started(p)'
  <2>1. ProcessType'
    BY <1>2, <1>3, <1>10 DEF ProcessType, SIZE
  <2>2. \A q \in Proc \ {p} : phase'[q] = phase[q] /\ ip'[q] = ip[q] /\ val'[q] = val[q]
    BY <1>3
  <2> QED BY <1>3, <1>8, <1>9, <1>10, <2>1, <2>2, OthersKept
<1>11. CASE phase[p] \in {"first", "init"}
  <2>1. Script(phase[p]) = InitSystem /\ n = 7
    BY <1>4, <1>11, Lists
  <2>2. reg' \in SUBSET (0..5)
    BY <1>3, <1>5, <2>1, InitSystemBits
  <2>3. phase'[p] # "start" /\ phase'[p] # "loop"
    BY <1>6, <1>11 DEF After
  <2> QED BY <2>2, <2>3, Zenon DEF Started
<1>12. CASE phase[p] = "start"
  <2>1. Script(phase[p]) = DaqStart /\ n = 3 /\ After(phase[p]) = "loop"
    BY <1>4, <1>12, Lists DEF After
  <2>2. k = 1 \/ k = 2 \/ k = 3
    BY <1>3, <2>1
  <2>3. CASE k = 1
    <3>1. reg' = reg \cup {1} /\ phase'[p] = "start" /\ ip'[p] = 3
      BY <1>3, <1>5, <1>12, <2>1, <2>3, DaqStartBits
    <3> QED BY <1>5, <3>1 DEF Started
  <2>4. CASE k = 2
    <3>1. reg' = reg \cup {0} /\ phase'[p] = "start" /\ ip'[p] = 5 /\ ip[p] = 4
      BY <1>3, <1>5, <1>12, <2>1, <2>4, DaqStartBits
    <3> QED BY <1>2, <1>5, <1>12, <3>1 DEF Started
  <2>5. CASE k = 3
    <3>1. reg' = reg \cup {2} /\ phase'[p] = "loop" /\ ip[p] = 6
      BY <1>3, <1>5, <1>12, <2>1, <2>5, DaqStartBits
    <3> QED BY <1>2, <1>5, <1>12, <3>1 DEF Started
  <2> QED BY <2>2, <2>3, <2>4, <2>5
<1>13. CASE phase[p] = "stop"
  <2>1. Script(phase[p]) = DaqStop /\ n = 3 /\ After(phase[p]) = "close"
    BY <1>4, <1>13, Lists DEF After
  <2>2. Started(p)'
    BY <1>6, <1>13, <2>1 DEF Started
  <2>3. k = 1 \/ k = 2 \/ k = 3
    BY <1>3, <2>1
  <2>4. reg' = reg \ {0} \/ reg' = reg \ {2} \/ reg' = reg \ {1}
    BY <1>3, <1>5, <2>1, <2>3, DaqStopBits
  <2> QED BY <1>5, <2>2, <2>4
<1> QED BY <1>3, <1>11, <1>12, <1>13 DEF Scripted

LEMMA TogetherStep == Together /\ Undisturbed /\ [Next]_vars => Together'
<1> SUFFICES ASSUME Together, Undisturbed, [Next]_vars PROVE Together'
  OBVIOUS
<1>0. /\ cmd \in [Proc -> {"daq", "init", "query"}]
      /\ mine \in [Proc -> 0..SIZE] /\ allocs \in 0..MAX_ALLOC
  BY DEF Together, ProcessType
<1>1. ASSUME NEW p \in Proc, Launch(p) PROVE Together'
  <2>1. phase[p] = "off" /\ phase[p] \notin Scripted /\ "alloc" \in Before
    BY <1>1 DEF Launch, Scripted, Before
  <2>2. cmd' \in [Proc -> {"daq", "init", "query"}]
    BY <1>0, <1>1, ProcessAssumption DEF Launch
  <2>3. Goto(p, "alloc") /\ reg' = reg /\ ip' = ip /\ val' = val /\ killed' = killed
        /\ mine' = mine /\ allocs' = allocs /\ ier' = ier
    BY <1>1 DEF Launch, pl
  <2> QED BY <1>0, <2>1, <2>2, <2>3, PlainStep
<1>2. ASSUME NEW p \in Proc, CmaAlloc(p) \/ CmaFails(p) PROVE Together'
  <2>1. phase[p] = "alloc" /\ phase[p] \notin Scripted /\ "aim" \in Before
    BY <1>2 DEF CmaAlloc, CmaFails, Scripted, Before
  <2>2. mine' \in [Proc -> 0..SIZE] /\ allocs' \in 0..MAX_ALLOC
    BY <1>0, <1>2, ProcessAssumption DEF CmaAlloc, CmaFails, SIZE
  <2>3. Goto(p, "aim") /\ reg' = reg /\ ip' = ip /\ val' = val /\ killed' = killed
        /\ cmd' = cmd /\ ier' = ier
    BY <1>2 DEF CmaAlloc, CmaFails, pl
  <2> QED BY <1>0, <2>1, <2>2, <2>3, PlainStep
<1>3. ASSUME NEW p \in Proc, Aim(p) PROVE Together'
  <2>1. phase[p] = "aim" /\ phase[p] \notin Scripted /\ "check" \in Before
    BY <1>3 DEF Aim, Scripted, Before
  <2>2. Goto(p, "check") /\ reg' = reg /\ ip' = ip /\ val' = val /\ killed' = killed
        /\ cmd' = cmd /\ mine' = mine /\ allocs' = allocs /\ ier' = ier
    BY <1>3 DEF Aim
  <2> QED BY <1>0, <2>1, <2>2, PlainStep
<1>4. ASSUME NEW p \in Proc, Check(p) PROVE Together'
  <2> DEFINE ph == IF reg = {} THEN "first" ELSE "command"
  <2>1. phase[p] = "check" /\ phase[p] \notin Scripted
    BY <1>4 DEF Check, Scripted
  <2>2. ph \in Aimed /\ ph # "loop" /\ (ph = "first" \/ reg # {})
    BY DEF Aimed, Served
  <2>3. Goto(p, ph) /\ reg' = reg /\ ip' = ip /\ val' = val /\ killed' = killed
        /\ cmd' = cmd /\ mine' = mine /\ allocs' = allocs /\ ier' = ier
    BY <1>4 DEF Check, pl
  <2> HIDE DEF ph
  <2> QED BY <1>0, <2>1, <2>2, <2>3, PlainStep
<1>5. ASSUME NEW p \in Proc, Enable(p) PROVE Together'
  <2>1. phase[p] = "enable" /\ phase[p] \notin Scripted /\ phase[p] \notin Before
        /\ "command" \in Aimed
    BY <1>5 DEF Enable, Scripted, Before, Aimed, Served
  <2>2. Goto(p, "command") /\ reg' = reg /\ ip' = ip /\ val' = val /\ killed' = killed
        /\ cmd' = cmd /\ mine' = mine /\ allocs' = allocs /\ ier'
    BY <1>5 DEF Enable
  <2> QED BY <1>0, <2>1, <2>2, PlainStep
<1>6. ASSUME NEW p \in Proc, Dispatch(p) PROVE Together'
  <2> DEFINE ph == CASE cmd[p] = "daq"   -> "start"
                     [] cmd[p] = "init"  -> "init"
                     [] cmd[p] = "query" -> "close"
  <2>1. phase[p] = "command" /\ phase[p] \notin Scripted /\ phase[p] \notin Before
    BY <1>6 DEF Dispatch, Scripted, Before
  <2>2. ph \in Aimed /\ ph # "loop"
    BY <1>0 DEF Aimed, Served
  <2>3. Goto(p, ph) /\ reg' = reg /\ ip' = ip /\ val' = val /\ killed' = killed
        /\ cmd' = cmd /\ mine' = mine /\ allocs' = allocs /\ ier' = ier
    BY <1>6 DEF Dispatch, pl
  <2> HIDE DEF ph
  <2> QED BY <1>0, <2>1, <2>2, <2>3, PlainStep
<1>7. ASSUME NEW p \in Proc, Interrupt(p) PROVE Together'
  <2>1. phase[p] = "loop" /\ phase[p] \notin Scripted /\ phase[p] \notin Before
        /\ "stop" \in Aimed
    BY <1>7 DEF Interrupt, Scripted, Before, Aimed, Served
  <2>2. Goto(p, "stop") /\ reg' = reg /\ ip' = ip /\ val' = val /\ killed' = killed
        /\ cmd' = cmd /\ mine' = mine /\ allocs' = allocs /\ ier' = ier
    BY <1>7 DEF Interrupt, pl
  <2> QED BY <1>0, <2>1, <2>2, PlainStep
<1>8. ASSUME NEW p \in Proc, Close(p) \/ Kill(p) PROVE Together'
  BY <1>8, EndStep DEF Close, Kill
<1>9. CASE UNCHANGED vars
  <2>1. reg' = reg /\ ier' = ier /\ allocs' = allocs /\ phase' = phase /\ cmd' = cmd
        /\ ip' = ip /\ val' = val /\ mine' = mine /\ killed' = killed
    BY <1>9 DEF vars, pl, proc
  <2>2. ProcessType'
    BY <2>1 DEF Together, ProcessType, SIZE
  <2>3. Awake'
    BY <2>1, Zenon DEF Together, Awake
  <2>4. \A q \in Proc : RmwAtomic(q)' /\ Started(q)'
    BY <2>1, Zenon DEF Together, RmwAtomic, Started
  <2> QED BY <2>2, <2>3, <2>4 DEF Together
<1> QED BY <1>1, <1>2, <1>3, <1>4, <1>5, <1>6, <1>7, <1>8, <1>9, ReadBeside, WriteBeside, Zenon
     DEF Next

(* Any number of invocations of lago, killed or not: queries, also those   *)
(* that start, map a buffer and end while an acquisition runs, neither put *)
(* a core of the pipeline into reset nor leave the loop without its        *)
(* interrupt, although every change of the reset register is a read and a  *)
(* write with steps of others in between.                                  *)
THEOREM QueriesLeaveDaqRunning == Spec /\ []Undisturbed => []DaqRuns
<1>1. Together /\ Undisturbed => DaqRuns
  <2> SUFFICES ASSUME Together, Undisturbed, NEW p \in Proc, phase[p] = "loop"
               PROVE  {0, 1, 2} \subseteq reg /\ (killed \/ ier)
    BY DEF DaqRuns
  <2>1. {0, 1, 2} \subseteq reg
    BY DEF Together, Started
  <2>2. ~\E q \in Proc : phase[q] \in {"first", "enable"}
    BY DEF Undisturbed, Changing
  <2>3. killed \/ ier
    BY <2>1, <2>2 DEF Together, Awake, Before
  <2> QED BY <2>1, <2>3
<1> QED BY <1>1, TogetherInit, TogetherStep, PTL DEF Spec

----------------------------------------------------------------------------
(* The recorders.  Where a program is, is how many accesses it has left;   *)
(* the invariant says what those that are done have set, and that between  *)
(* the writer's reset and the packetizer's release nothing flows.          *)
Access == {"aim", "nsamples", "clr1", "set1", "clr2", "set2", "clr4", "set4", "sleep", "print"}

(* The program that runs, or the one of this design. *)
Listing == IF owner = FIXED THEN OldRecorder ELSE AdcRecorder

(* Accesses left. *)
Togo == Len(script)

(* Since(n, o): at most n accesses of the program are left, o of the old   *)
(* version.                                                                *)
Since(n, o) == Togo \in 1..(IF owner = FIXED THEN o ELSE n)

RecorderType ==
  /\ run \in 0..MAX_RUN /\ rst \subseteq {1, 2, 4} /\ nsamples \in {0, N} /\ passed \in 0..N
  /\ pos \in 0..N-1 /\ DOMAIN ram = 0..N-1 /\ ram = [i \in 0..N-1 |-> ram[i]]
  /\ owner \in 0..FIXED /\ aim \in 0..NoBuffer /\ (owner = FIXED <=> aim = FIXED)
  /\ disturbed \in BOOLEAN /\ failed \subseteq 0..run

(* What is left of a program is its end. *)
Remains ==
  /\ script \in Seq(Access) /\ Togo \in 0..Len(Listing)
  /\ \A i \in 1..Togo : script[i] = Listing[Len(Listing) - Togo + i]

(* What the accesses that are done have set. *)
Accesses ==
  /\ Since(11, 10) => run \in failed \/ owner \in {run, FIXED}
  /\ Since(10, 10) => run \in failed \/ aim = owner
  /\ Since(9, 3)   => nsamples = N
  /\ Since(7, 8)   => 4 \in rst
  /\ Since(5, 6)   => 1 \in rst
  /\ Since(3, 4) /\ ~Since(2, 2) => 2 \notin rst /\ passed = 0
  /\ Since(2, 2)   => 2 \in rst /\ packet = run
  /\ Since(1, 1)   => passed = N

(* Once the writer is reset outside a packet, nothing reaches it until the *)
(* packetizer is released, and then every sample gets to its place.        *)
InOrder ==
  /\ Since(8, 9) /\ ~Since(2, 2) => ~Unfinished /\ pos = 0
  /\ Since(2, 2) => /\ pos = IF passed = N THEN 0 ELSE passed
                    /\ \A i \in 0..N-1 : i < passed => ram[i] = <<run, i>>

(* A program that was not killed leaves the packetizer done. *)
Quiet == 2 \notin rst \/ (nsamples = N /\ passed = N) \/ packet \in cut

Blame == (disturbed => cut # {}) /\ stray \subseteq cut \cup failed

RecorderInv ==
  /\ RecorderType /\ Remains /\ Accesses
  /\ ~disturbed /\ run \notin failed => InOrder
  /\ Since(2, 2) \/ Quiet
  /\ Blame


(* The programs are sequences of accesses. *)
LEMMA Listings == AdcRecorder \in Seq(Access) /\ OldRecorder \in Seq(Access)
<1>1. AdcRecorder \in Seq(Access)
  <2> DEFINE a == <<"aim", "nsamples", "clr4", "set4", "clr1">>
             b == <<"set1", "sleep", "clr2", "set2", "sleep", "print">>
  <2>1. AdcRecorder = a \o b
    BY DEF AdcRecorder
  <2>2. a \in Seq(Access) /\ b \in Seq(Access)
    BY DEF Access
  <2> HIDE DEF a, b
  <2> QED BY <2>1, <2>2
<1>2. OldRecorder \in Seq(Access)
  <2> DEFINE a == <<"clr4", "set4", "clr1", "set1", "sleep">>
             b == <<"clr2", "nsamples", "set2", "sleep", "print">>
  <2>1. OldRecorder = a \o b
    BY DEF OldRecorder
  <2>2. a \in Seq(Access) /\ b \in Seq(Access)
    BY DEF Access
  <2> HIDE DEF a, b
  <2> QED BY <2>1, <2>2
<1> QED BY <1>1, <1>2

(* The accesses of the newer program. *)
LEMMA NewListing ==
  /\ Len(AdcRecorder) = 11
  /\ AdcRecorder[1] = "aim" /\ AdcRecorder[2] = "nsamples"
  /\ AdcRecorder[3] = "clr4" /\ AdcRecorder[4] = "set4" /\ AdcRecorder[5] = "clr1" /\ AdcRecorder[6] = "set1"
  /\ AdcRecorder[7] = "sleep" /\ AdcRecorder[8] = "clr2" /\ AdcRecorder[9] = "set2"
  /\ AdcRecorder[10] = "sleep" /\ AdcRecorder[11] = "print"
BY DEF AdcRecorder

(* The accesses of the oldest program. *)
LEMMA OldListing ==
  /\ Len(OldRecorder) = 10
  /\ OldRecorder[1] = "clr4" /\ OldRecorder[2] = "set4" /\ OldRecorder[3] = "clr1" /\ OldRecorder[4] = "set1"
  /\ OldRecorder[5] = "sleep" /\ OldRecorder[6] = "clr2" /\ OldRecorder[7] = "nsamples"
  /\ OldRecorder[8] = "set2" /\ OldRecorder[9] = "sleep" /\ OldRecorder[10] = "print"
BY DEF OldRecorder

(* An access is the next one of the listing, and the rest is left. *)
LEMMA StepLeft ==
  ASSUME Remains, NEW op, Step(op)
  PROVE  /\ Togo \in 1..Len(Listing) /\ script' \in Seq(Access) /\ Togo' = Togo - 1
         /\ \A i \in 1..Togo' : script'[i] = Listing[Len(Listing) - Togo' + i]
         /\ op = Listing[Len(Listing) - Togo + 1]
<1>1. script \in Seq(Access) /\ script # <<>> /\ op = Head(script) /\ script' = Tail(script)
  BY DEF Remains, Step
<1>2. Togo \in 1..Len(Listing) /\ Len(Listing) \in Nat
  BY <1>1, NewListing, OldListing DEF Remains, Listing, Togo
<1>3. op = script[1] /\ script' \in Seq(Access) /\ Togo' = Togo - 1
  BY <1>1, <1>2 DEF Togo
<1>4. op = Listing[Len(Listing) - Togo + 1]
  BY <1>2, <1>3 DEF Remains
<1>5. ASSUME NEW i \in 1..Togo' PROVE script'[i] = Listing[Len(Listing) - Togo' + i]
  <2>1. script'[i] = script[i + 1] /\ i + 1 \in 1..Togo
    BY <1>1, <1>2, <1>3 DEF Togo
  <2>2. script[i + 1] = Listing[Len(Listing) - Togo + (i + 1)]
    BY <2>1 DEF Remains
  <2>3. Len(Listing) - Togo + (i + 1) = Len(Listing) - Togo' + i
    BY <1>2, <1>3
  <2> QED BY <2>1, <2>2, <2>3
<1> QED BY <1>2, <1>3, <1>4, <1>5

(* An access of the newer program brings it to the next. *)
LEMMA NewStep ==
  ASSUME Remains, owner # FIXED, NEW op, Step(op)
  PROVE  /\ op = "aim" => Togo = 11
         /\ op = "nsamples" => Togo = 10
         /\ op = "clr4" => Togo = 9
         /\ op = "set4" => Togo = 8
         /\ op = "clr1" => Togo = 7
         /\ op = "set1" => Togo = 6
         /\ op = "sleep" => Togo \in {5, 2}
         /\ op = "clr2" => Togo = 4
         /\ op = "set2" => Togo = 3
         /\ op = "print" => Togo = 1
<1>1. Listing = AdcRecorder
  BY DEF Listing
<1>2. Togo \in 1..11 /\ op = AdcRecorder[11 - Togo + 1]
  BY <1>1, StepLeft, NewListing
<1> DEFINE l == Togo
<1>3. l \in 1..11 /\ op = AdcRecorder[12 - l]
  BY <1>2
<1> HIDE DEF l
<1>4. l = 1 \/ l = 2 \/ l = 3 \/ l = 4 \/ l = 5 \/ l = 6 \/ l = 7 \/ l = 8 \/ l = 9 \/ l = 10 \/ l = 11
  BY <1>3
<1> QED BY <1>3, <1>4, NewListing DEF l

(* An access of the oldest program brings it to the next. *)
LEMMA OldStep ==
  ASSUME Remains, owner = FIXED, NEW op, Step(op)
  PROVE  /\ op = "clr4" => Togo = 10
         /\ op = "set4" => Togo = 9
         /\ op = "clr1" => Togo = 8
         /\ op = "set1" => Togo = 7
         /\ op = "sleep" => Togo \in {6, 2}
         /\ op = "clr2" => Togo = 5
         /\ op = "nsamples" => Togo = 4
         /\ op = "set2" => Togo = 3
         /\ op = "print" => Togo = 1
         /\ op # "aim"
<1>1. Listing = OldRecorder
  BY DEF Listing
<1>2. Togo \in 1..10 /\ op = OldRecorder[10 - Togo + 1]
  BY <1>1, StepLeft, OldListing
<1> DEFINE l == Togo
<1>3. l \in 1..10 /\ op = OldRecorder[11 - l]
  BY <1>2
<1> HIDE DEF l
<1>4. l = 1 \/ l = 2 \/ l = 3 \/ l = 4 \/ l = 5 \/ l = 6 \/ l = 7 \/ l = 8 \/ l = 9 \/ l = 10
  BY <1>3
<1> QED BY <1>3, <1>4, OldListing DEF l


(* The rest of a program is the end of the same listing. *)
LEMMA RemainsKept == ASSUME Remains, NEW op, Step(op), Listing' = Listing PROVE Remains'
<1> DEFINE m == Len(Listing)
<1>1. Togo \in 1..m /\ script' \in Seq(Access) /\ Togo' = Togo - 1
      /\ \A i \in 1..Togo' : script'[i] = Listing[m - Togo' + i]
  BY StepLeft
<1>2. m \in Nat
  BY NewListing, OldListing DEF Listing
<1>3. Len(Listing') = m
  OBVIOUS
<1> HIDE DEF m
<1>4. Togo' \in 0..m
  BY <1>1, <1>2
<1> QED BY <1>1, <1>3, <1>4, Zenon DEF Remains

(* A program that has ended or was killed. *)
LEMMA NothingRemains == ASSUME script' = <<>> PROVE Remains' /\ Togo' = 0
<1>1. <<>> \in Seq(Access) /\ Len(<<>>) = 0
  OBVIOUS
<1>2. Len(Listing') \in Nat
  BY NewListing, OldListing DEF Listing
<1> QED BY <1>1, <1>2 DEF Remains, Togo

(* The parts of the invariant. *)
LEMMA Parts ==
  ASSUME RecorderInv
  PROVE  /\ RecorderType /\ Remains /\ Accesses
         /\ Togo \in Nat /\ N \in Nat \ {0} /\ MAX_RUN \in Nat
         /\ FIXED = MAX_RUN + 1 /\ NoBuffer = MAX_RUN + 2
         /\ ~disturbed /\ run \notin failed => InOrder
         /\ Since(2, 2) \/ Quiet
         /\ Blame
BY RecorderAssumption DEF RecorderInv, FIXED, NoBuffer, Remains

(* No program runs. *)
LEMMA RecorderStarts == RecorderInit => RecorderInv
<1> SUFFICES ASSUME RecorderInit PROVE RecorderInv
  OBVIOUS
<1>1. N \in Nat \ {0} /\ MAX_RUN \in Nat /\ FIXED = MAX_RUN + 1 /\ NoBuffer = MAX_RUN + 2
  BY RecorderAssumption DEF FIXED, NoBuffer
<1>2. Togo = 0 /\ script \in Seq(Access) /\ Len(Listing) \in Nat
  BY NewListing, OldListing DEF RecorderInit, Listing, Togo
<1>3. Remains
  BY <1>2 DEF Remains
<1>4. RecorderType
  <2>1. disturbed \in BOOLEAN /\ failed \subseteq 0..run
    BY DEF RecorderInit
  <2>2. DOMAIN ram = 0..N-1 /\ ram = [i \in 0..N-1 |-> ram[i]]
    BY DEF RecorderInit, Empty
  <2>3. owner \in 0..FIXED /\ aim \in 0..NoBuffer /\ (owner = FIXED <=> aim = FIXED)
    BY <1>1 DEF RecorderInit, None
  <2>4. run \in 0..MAX_RUN /\ rst \subseteq {1, 2, 4} /\ nsamples \in {0, N} /\ passed \in 0..N /\ pos \in 0..N-1
    BY <1>1 DEF RecorderInit
  <2> QED BY <2>1, <2>2, <2>3, <2>4 DEF RecorderType
<1>5. Accesses /\ InOrder
  BY <1>2 DEF Accesses, InOrder, Since
<1>6. Blame /\ Quiet
  BY DEF RecorderInit, Quiet, Blame
<1> QED BY <1>3, <1>4, <1>5, <1>6 DEF RecorderInv

(* A program that has not begun. *)
LEMMA WholeListing == ASSUME script' = Listing', script' \in Seq(Access) PROVE Remains'
<1> DEFINE m == Len(script')
<1>1. m \in Nat /\ m - m = 0
  OBVIOUS
<1>2. \A i \in 1..m : m - m + i = i
  BY <1>1
<1>3. m \in 0..m
  BY <1>1
<1> HIDE DEF m
<1>4. Togo' = m /\ Len(Listing') = m
  BY DEF Togo, m
<1> QED BY <1>2, <1>3, <1>4, Zenon DEF Remains

(* Before a program the packetizer is done, and after its start too. *)
LEMMA StillQuiet ==
  ASSUME RecorderInv, script = <<>>, UNCHANGED <<rst, nsamples, passed, packet, cut, stray>>,
         ~disturbed', failed \subseteq failed'
  PROVE  Quiet' /\ Blame'
<1>1. Togo = 0
  BY DEF Togo
<1>2. Quiet /\ Blame
  BY <1>1, Parts DEF Since
<1> QED BY <1>2 DEF Quiet, Blame

(* A program is started, with a buffer, with none, or on the fixed one:    *)
(* none of its accesses is done.                                           *)
LEMMA RunKept == ASSUME RecorderInv, RunOld \/ AllocBuffer \/ AllocFails PROVE RecorderInv'
<1>1. RecorderType /\ Remains /\ Accesses /\ N \in Nat \ {0} /\ MAX_RUN \in Nat
      /\ FIXED = MAX_RUN + 1 /\ NoBuffer = MAX_RUN + 2 /\ None = 0
  BY Parts DEF None
<1>2. script = <<>> /\ run < MAX_RUN /\ run' = run + 1 /\ disturbed' = FALSE
      /\ UNCHANGED <<rst, nsamples, aim, passed, packet, pos, cut, stray>>
  BY DEF RunOld, AllocBuffer, AllocFails, Run
<1>3. run \in Nat /\ run' \in 0..MAX_RUN /\ run' # FIXED /\ failed \subseteq 0..run /\ run' \notin 0..run
  BY <1>1, <1>2 DEF RecorderType
<1>31. failed \subseteq 0..run'
  BY <1>2, <1>3
<1>4. CASE RunOld
  <2>1. owner = FIXED /\ owner' = FIXED /\ ram' = ram /\ failed' = failed /\ script' = OldRecorder
    BY <1>4 DEF RunOld, Run
  <2>2. script' \in Seq(Access) /\ Len(script') = 10 /\ Listing' = OldRecorder
    BY <2>1, Listings, OldListing DEF Listing
  <2>3. Remains' /\ Togo' = 10
    BY <2>1, <2>2, OldListing, WholeListing DEF Togo
  <2>4. RecorderType'
    BY <1>1, <1>2, <1>3, <1>31, <2>1 DEF RecorderType
  <2>5. Accesses' /\ InOrder'
    <3>1. aim' = FIXED
      BY <1>1, <1>2, <2>1 DEF RecorderType
    <3> QED BY <2>1, <2>3, <3>1 DEF Accesses, InOrder, Since
  <2> QED BY <2>1, <2>3, <2>4, <2>5, <1>2, StillQuiet DEF RecorderInv
<1>5. CASE AllocBuffer
  <2>1. owner # FIXED /\ owner' = run' /\ ram' = Empty /\ failed' = failed /\ script' = AdcRecorder
    BY <1>2, <1>5 DEF AllocBuffer, Run, AdcRecorder, PlainRecorder, UioRecorder
  <2>2. script' \in Seq(Access) /\ Len(script') = 11 /\ Listing' = AdcRecorder
    BY <1>3, <2>1, Listings, NewListing DEF Listing
  <2>3. Remains' /\ Togo' = 11
    BY <2>1, <2>2, NewListing, WholeListing DEF Togo
  <2>4. RecorderType'
    <3>1. DOMAIN ram' = 0..N-1 /\ ram' = [i \in 0..N-1 |-> ram'[i]]
      BY <2>1 DEF Empty
    <3>2. owner' = FIXED <=> aim' = FIXED
      BY <1>1, <1>2, <1>3, <2>1 DEF RecorderType
    <3>3. owner' \in 0..FIXED
      BY <1>1, <1>3, <2>1
    <3> QED BY <1>1, <1>2, <1>3, <1>31, <2>1, <3>1, <3>2, <3>3 DEF RecorderType
  <2>5. Accesses' /\ InOrder'
    BY <1>3, <2>1, <2>3 DEF Accesses, InOrder, Since
  <2> QED BY <2>1, <2>3, <2>4, <2>5, <1>2, StillQuiet DEF RecorderInv
<1>6. CASE AllocFails
  <2>1. owner # FIXED /\ owner' = None /\ ram' = ram
        /\ \/ script' = AdcRecorder /\ failed' = failed \cup {run'}
           \/ script' = <<>> /\ failed' = failed
    BY <1>2, <1>6 DEF AllocFails, Run, AdcRecorder, UioRecorder
  <2>2. owner' # FIXED /\ Listing' = AdcRecorder
    BY <1>1, <2>1 DEF Listing
  <2>3. Remains' /\ (Togo' = 0 \/ (Togo' = 11 /\ run' \in failed'))
    <3>1. CASE script' = <<>>
      BY <3>1, NothingRemains
    <3>2. CASE script' = AdcRecorder /\ failed' = failed \cup {run'}
      <4>1. script' \in Seq(Access) /\ Len(script') = 11
        BY <3>2, Listings, NewListing
      <4> QED BY <2>2, <3>2, <4>1, WholeListing DEF Togo
    <3> QED BY <2>1, <3>1, <3>2
  <2>4. failed' \subseteq 0..run' /\ failed \subseteq failed'
    <3>1. run' \in 0..run'
      BY <1>1, <1>3
    <3> QED BY <1>31, <2>1, <3>1
  <2>5. RecorderType'
    <3>1. owner' = FIXED <=> aim' = FIXED
      BY <1>1, <1>2, <2>1, <2>2 DEF RecorderType
    <3>2. owner' \in 0..FIXED
      BY <1>1, <2>1
    <3> QED BY <1>1, <1>2, <1>3, <2>1, <2>4, <3>1, <3>2 DEF RecorderType
  <2>6. Accesses' /\ InOrder'
    BY <2>2, <2>3 DEF Accesses, InOrder, Since
  <2> QED BY <2>3, <2>4, <2>5, <2>6, <1>2, StillQuiet DEF RecorderInv
<1> QED BY <1>4, <1>5, <1>6

(* The writer's address and the packet length. *)
LEMMA SetupKept == ASSUME RecorderInv, AimWriter \/ SetSamples PROVE RecorderInv'
<1>1. RecorderType /\ Remains /\ Accesses /\ N \in Nat \ {0} /\ MAX_RUN \in Nat
      /\ FIXED = MAX_RUN + 1 /\ NoBuffer = MAX_RUN + 2
  BY Parts
<1>3. CASE AimWriter
  <2>1. Step("aim") /\ aim' = (IF run \in failed THEN NoBuffer ELSE run)
        /\ UNCHANGED <<run, rst, nsamples, owner, passed, packet, pos, ram, failed, disturbed, cut, stray>>
    BY <1>3 DEF AimWriter
  <2>2. owner # FIXED /\ Togo = 11 /\ Togo' = 10
    <3>1. owner # FIXED
      BY <1>1, <2>1, OldStep
    <3>2. Togo = 11
      BY <1>1, <2>1, <3>1, NewStep
    <3> QED BY <1>1, <2>1, <3>1, <3>2, StepLeft
  <2>3. run \in failed \/ (owner = run /\ aim' = run)
    BY <1>1, <2>1, <2>2 DEF Accesses, Since
  <2>4. Remains'
    <3>1. Listing' = Listing
      BY <2>1 DEF Listing
    <3> QED BY <1>1, <2>1, <3>1, RemainsKept
  <2>5. RecorderType'
    <3>1. aim' \in 0..NoBuffer /\ aim' # FIXED
      BY <1>1, <2>1 DEF RecorderType
    <3>2. owner' = FIXED <=> aim' = FIXED
      BY <2>1, <2>2, <3>1
    <3> QED BY <1>1, <2>1, <3>1, <3>2 DEF RecorderType
  <2>6. Accesses' /\ InOrder'
    BY <2>1, <2>2, <2>3 DEF Accesses, InOrder, Since
  <2>7. Quiet' /\ Blame'
    <3>1. ~Since(2, 2)
      BY <2>2 DEF Since
    <3>2. (Quiet' <=> Quiet) /\ (Blame' <=> Blame)
      BY <2>1 DEF Quiet, Blame
    <3> QED BY <3>1, <3>2, Parts
  <2> QED BY <2>4, <2>5, <2>6, <2>7 DEF RecorderInv
<1>4. CASE SetSamples
  <2>1. Step("nsamples") /\ nsamples' = N
        /\ UNCHANGED <<run, rst, aim, owner, passed, packet, pos, ram, failed, disturbed, cut, stray>>
        /\ (Blame' <=> Blame)
    BY <1>4 DEF SetSamples, Blame
  <2>2. Togo = (IF owner = FIXED THEN 4 ELSE 10) /\ Togo' = Togo - 1
    BY <1>1, <2>1, NewStep, OldStep, StepLeft
  <2>3. Remains'
    <3>1. Listing' = Listing
      BY <2>1 DEF Listing
    <3> QED BY <1>1, <2>1, <3>1, RemainsKept
  <2>4. RecorderType'
    BY <1>1, <2>1 DEF RecorderType
  <2>5. CASE owner = FIXED
    <3>1. Togo = 4 /\ Togo' = 3 /\ owner' = FIXED
      BY <2>1, <2>2, <2>5
    <3>2. 2 \notin rst /\ passed = 0
      BY <1>1, <2>5, <3>1 DEF Accesses, Since
    <3>3. Accesses'
      BY <1>1, <2>1, <2>5, <3>1, <3>2 DEF Accesses, Since
    <3>4. InOrder => InOrder'
      BY <2>1, <2>5, <3>1, <3>2 DEF InOrder, Since, Unfinished
    <3>5. Quiet'
      BY <2>1, <3>2 DEF Quiet
    <3> QED BY <2>1, <2>3, <2>4, <3>3, <3>4, <3>5, Parts DEF RecorderInv
  <2>6. CASE owner # FIXED
    <3>1. Togo = 10 /\ Togo' = 9 /\ owner' # FIXED
      BY <2>1, <2>2, <2>6
    <3>2. Accesses' /\ InOrder'
      BY <1>1, <2>1, <2>6, <3>1 DEF Accesses, InOrder, Since
    <3>3. ~Since(2, 2)
      BY <2>6, <3>1 DEF Since
    <3>4. Quiet => Quiet'
      BY <2>1 DEF Quiet
    <3> QED BY <2>1, <2>3, <2>4, <3>2, <3>3, <3>4, Parts DEF RecorderInv
  <2> QED BY <2>5, <2>6
<1> QED BY <1>3, <1>4

(* The names of the accesses. *)
LEMMA BitNames ==
  /\ <<"clr1", "clr2", "clr3", "clr4">>[1] = "clr1" /\ <<"clr1", "clr2", "clr3", "clr4">>[2] = "clr2"
  /\ <<"clr1", "clr2", "clr3", "clr4">>[4] = "clr4"
  /\ <<"set1", "set2", "set3", "set4">>[1] = "set1" /\ <<"set1", "set2", "set3", "set4">>[2] = "set2"
  /\ <<"set1", "set2", "set3", "set4">>[4] = "set4"
OBVIOUS

(* The FIFO is reset and released. *)
LEMMA FifoKept == ASSUME RecorderInv, ClearBit(1) \/ SetBit(1) PROVE RecorderInv'
<1>1. RecorderType /\ Remains /\ Accesses /\ N \in Nat \ {0} /\ Togo \in Nat
  BY Parts
<1>2. UNCHANGED <<run, nsamples, aim, owner, passed, packet, pos, ram, failed, cut, stray>>
  BY DEF ClearBit, SetBit
<1>3. disturbed' = disturbed /\ (Blame' <=> Blame)
  BY <1>1 DEF ClearBit, SetBit, RecorderType, Blame
<1>4. \/ Step("clr1") /\ rst' = rst \ {1}
      \/ Step("set1") /\ rst' = rst \cup {1}
  BY BitNames DEF ClearBit, SetBit
<1>5. Togo' = Togo - 1
  BY <1>1, <1>4, StepLeft
<1>6. Togo \in (IF owner = FIXED THEN 7..8 ELSE 6..7)
  BY <1>1, <1>4, NewStep, OldStep
<1>7. 1 \in rst' \/ Togo = IF owner = FIXED THEN 8 ELSE 7
  BY <1>1, <1>4, NewStep, OldStep
<1>8. Remains'
  <2>1. Listing' = Listing
    BY <1>2 DEF Listing
  <2> QED BY <1>1, <1>4, <2>1, RemainsKept
<1>9. rst' \subseteq {1, 2, 4} /\ (2 \in rst' <=> 2 \in rst) /\ (4 \in rst' <=> 4 \in rst)
  BY <1>1, <1>4 DEF RecorderType
<1>10. RecorderType'
  BY <1>1, <1>2, <1>3, <1>9 DEF RecorderType
<1>11. Quiet' <=> Quiet
  BY <1>2, <1>9 DEF Quiet
<1>12. Unfinished' <=> Unfinished
  BY <1>2, <1>9 DEF Unfinished
<1>13. Accesses' /\ (InOrder => InOrder') /\ ~Since(2, 2)
  <2>1. CASE owner = FIXED
    <3>1. Togo \in 7..8 /\ Togo' \in 6..7 /\ (1 \in rst' \/ Togo' = 7) /\ owner' = FIXED
      BY <1>1, <1>2, <1>5, <1>6, <1>7, <2>1
    <3>2. (run \in failed \/ aim = owner) /\ 4 \in rst
      BY <1>1, <2>1, <3>1 DEF Accesses, Since
    <3>3. Accesses'
      BY <1>2, <1>9, <2>1, <3>1, <3>2 DEF Accesses, Since
    <3>4. InOrder => InOrder'
      BY <1>2, <1>12, <2>1, <3>1 DEF InOrder, Since
    <3> QED BY <2>1, <3>1, <3>3, <3>4 DEF Since
  <2>2. CASE owner # FIXED
    <3>1. Togo \in 6..7 /\ Togo' \in 5..6 /\ (1 \in rst' \/ Togo' = 6) /\ owner' # FIXED
      BY <1>1, <1>2, <1>5, <1>6, <1>7, <2>2
    <3>2. /\ Since(11, 10) /\ Since(10, 10) /\ Since(9, 3) /\ Since(8, 9) /\ Since(7, 8) /\ ~Since(2, 2)
          /\ (Since(5, 6) => 1 \in rst)' /\ ~Since(3, 4)' /\ ~Since(2, 2)' /\ ~Since(1, 1)'
      BY <2>2, <3>1 DEF Since
    <3>3. Accesses'
      BY <1>1, <1>2, <1>9, <3>2 DEF Accesses
    <3>4. InOrder => InOrder'
      BY <1>2, <1>12, <3>2 DEF InOrder
    <3> QED BY <3>2, <3>3, <3>4
  <2> QED BY <2>1, <2>2
<1> QED BY <1>2, <1>3, <1>8, <1>10, <1>11, <1>13, Parts DEF RecorderInv


(* The writer is reset: within a packet, or with nothing to come. *)
LEMMA WriterKept == ASSUME RecorderInv, ClearBit(4) \/ SetBit(4) PROVE RecorderInv'
<1>1. RecorderType /\ Remains /\ Accesses /\ N \in Nat \ {0} /\ Togo \in Nat
  BY Parts
<1>2. UNCHANGED <<run, nsamples, aim, owner, passed, packet, ram, failed, cut, stray>>
  BY DEF ClearBit, SetBit
<1>3. \/ Step("clr4") /\ rst' = rst \ {4} /\ pos' = 0
      \/ Step("set4") /\ rst' = rst \cup {4} /\ pos' = pos
  BY BitNames DEF ClearBit, SetBit
<1>4. Togo' = Togo - 1
  BY <1>1, <1>3, StepLeft
<1>5. /\ Togo \in (IF owner = FIXED THEN 9..10 ELSE 8..9)
      /\ 4 \in rst' \/ Togo = IF owner = FIXED THEN 10 ELSE 9
  BY <1>1, <1>3, NewStep, OldStep
<1>6. Remains'
  <2>1. Listing' = Listing
    BY <1>2 DEF Listing
  <2> QED BY <1>1, <1>3, <2>1, RemainsKept
<1>7. rst' \subseteq {1, 2, 4} /\ (2 \in rst' <=> 2 \in rst) /\ pos' \in 0..N-1
  BY <1>1, <1>3 DEF RecorderType
<1>8. disturbed' \in BOOLEAN
  BY <1>1 DEF ClearBit, SetBit, RecorderType
<1>9. RecorderType'
  BY <1>1, <1>2, <1>7, <1>8 DEF RecorderType
<1>10. Quiet' <=> Quiet
  BY <1>2, <1>7 DEF Quiet
<1>11. Unfinished' <=> Unfinished
  BY <1>2, <1>7 DEF Unfinished
<1>12. /\ ~Since(2, 2) /\ ~Since(5, 6)' /\ ~Since(3, 4)' /\ ~Since(2, 2)' /\ ~Since(1, 1)'
       /\ Since(11, 10) /\ Since(10, 10) /\ (Since(9, 3)' => Since(9, 3)) /\ (Since(7, 8) => 4 \in rst)'
  <2>1. CASE owner = FIXED
    <3>1. owner' = FIXED /\ Togo \in 9..10 /\ Togo' \in 8..9 /\ (4 \in rst' \/ Togo' = 9)
      BY <1>1, <1>2, <1>4, <1>5, <2>1
    <3> QED BY <2>1, <3>1 DEF Since
  <2>2. CASE owner # FIXED
    <3>1. owner' # FIXED /\ Togo \in 8..9 /\ Togo' \in 7..8 /\ (4 \in rst' \/ Togo' = 8)
      BY <1>1, <1>2, <1>4, <1>5, <2>2
    <3> QED BY <2>2, <3>1 DEF Since
  <2> QED BY <2>1, <2>2
<1>13. Accesses'
  BY <1>1, <1>2, <1>12 DEF Accesses
<1>14. ~disturbed' /\ run' \notin failed' => InOrder'
  <2>1. CASE ClearBit(4)
    <3>1. pos' = 0
      BY <2>1 DEF ClearBit
    <3>2. disturbed' <=> (disturbed \/ Unfinished)
      BY <2>1 DEF ClearBit
    <3> QED BY <1>11, <1>12, <3>1, <3>2 DEF InOrder
  <2>2. CASE SetBit(4)
    <3>1. disturbed' = disturbed /\ pos' = pos
      BY <2>2 DEF SetBit
    <3>2. Since(8, 9)
      <4>1. Togo = IF owner = FIXED THEN 9 ELSE 8
        BY <1>1, <2>2, BitNames, NewStep, OldStep DEF SetBit
      <4> QED BY <4>1 DEF Since
    <3> QED BY <1>2, <1>11, <1>12, <3>1, <3>2, Parts DEF InOrder
  <2> QED BY <2>1, <2>2
<1>15. Blame'
  <2>1. Unfinished => packet \in cut
    <3>1. Quiet
      BY <1>12, Parts
    <3>2. Unfinished => 2 \in rst /\ passed < nsamples
      BY DEF Unfinished
    <3>3. ~(N < N)
      BY <1>1
    <3> QED BY <3>1, <3>2, <3>3 DEF Quiet
  <2>2. disturbed' => disturbed \/ Unfinished
    BY BitNames DEF ClearBit, SetBit
  <2> QED BY <1>2, <2>1, <2>2, Parts DEF Blame
<1> QED BY <1>15, <1>2, <1>6, <1>9, <1>10, <1>12, <1>13, <1>14, Parts DEF RecorderInv

(* The packetizer is reset, and released for a packet of this invocation. *)
LEMMA PacketizerKept == ASSUME RecorderInv, ClearBit(2) \/ SetBit(2) PROVE RecorderInv'
<1>1. RecorderType /\ Remains /\ Accesses /\ N \in Nat \ {0} /\ Togo \in Nat
  BY Parts
<1>2. UNCHANGED <<run, nsamples, aim, owner, pos, ram, failed, cut, stray>>
  BY DEF ClearBit, SetBit
<1>3. disturbed' = disturbed /\ (Blame' <=> Blame)
  BY <1>1 DEF ClearBit, SetBit, RecorderType, Blame
<1>4. CASE ClearBit(2)
  <2>1. Step("clr2") /\ rst' = rst \ {2} /\ passed' = 0
    BY <1>4, BitNames DEF ClearBit
  <2>2. Togo = (IF owner = FIXED THEN 5 ELSE 4) /\ Togo' = Togo - 1
    BY <1>1, <2>1, StepLeft, NewStep, OldStep
  <2>3. Remains'
    <3>1. Listing' = Listing
      BY <1>2 DEF Listing
    <3> QED BY <1>1, <2>1, <3>1, RemainsKept
  <2>4. 2 \notin rst' /\ rst' \subseteq rst /\ (4 \in rst => 4 \in rst') /\ (1 \in rst => 1 \in rst')
    BY <2>1
  <2>5. RecorderType'
    BY <1>1, <1>2, <1>3, <2>1, <2>4 DEF RecorderType
  <2>6. /\ Since(11, 10) /\ Since(10, 10) /\ Since(8, 9) /\ Since(7, 8) /\ Since(5, 6) /\ ~Since(2, 2)
        /\ (Since(9, 3)' => Since(9, 3)) /\ ~Since(2, 2)' /\ ~Since(1, 1)'
    <3>1. CASE owner = FIXED
      <4>1. owner' = FIXED /\ Togo = 5 /\ Togo' = 4
        BY <1>2, <2>2, <3>1
      <4> QED BY <3>1, <4>1 DEF Since
    <3>2. CASE owner # FIXED
      <4>1. owner' # FIXED /\ Togo = 4 /\ Togo' = 3
        BY <1>2, <2>2, <3>2
      <4> QED BY <3>2, <4>1 DEF Since
    <3> QED BY <3>1, <3>2
  <2>7. Accesses'
    BY <1>1, <1>2, <2>1, <2>4, <2>6 DEF Accesses
  <2>8. InOrder => InOrder'
    BY <1>2, <2>4, <2>6 DEF InOrder, Unfinished
  <2>9. Quiet'
    BY <2>4 DEF Quiet
  <2> QED BY <1>2, <1>3, <2>3, <2>5, <2>7, <2>8, <2>9, Parts DEF RecorderInv
<1>5. CASE SetBit(2)
  <2>1. Step("set2") /\ rst' = rst \cup {2} /\ packet' = run /\ passed' = passed
    BY <1>5, BitNames DEF SetBit
  <2>2. Togo = 3 /\ Togo' = 2
    BY <1>1, <2>1, StepLeft, NewStep, OldStep
  <2>3. Remains'
    <3>1. Listing' = Listing
      BY <1>2 DEF Listing
    <3> QED BY <1>1, <2>1, <3>1, RemainsKept
  <2>4. rst \subseteq rst' /\ rst' \subseteq {1, 2, 4} /\ 2 \in rst'
    BY <1>1, <2>1 DEF RecorderType
  <2>5. RecorderType'
    BY <1>1, <1>2, <1>3, <2>1, <2>4 DEF RecorderType
  <2>6. /\ Since(11, 10) /\ Since(10, 10) /\ Since(9, 3) /\ Since(8, 9) /\ Since(7, 8) /\ Since(5, 6)
        /\ Since(3, 4) /\ ~Since(2, 2) /\ Since(2, 2)' /\ ~Since(1, 1)'
    BY <2>2 DEF Since
  <2>7. passed = 0
    BY <1>1, <2>6 DEF Accesses
  <2>8. Accesses'
    BY <1>1, <1>2, <2>1, <2>4, <2>6 DEF Accesses
  <2>9. InOrder => InOrder'
    <3>1. ASSUME InOrder PROVE pos = 0
      BY <2>6, <3>1 DEF InOrder
    <3>2. passed' = 0 /\ passed' # N
      BY <1>1, <2>1, <2>7
    <3> QED BY <1>2, <2>6, <3>1, <3>2 DEF InOrder
  <2> QED BY <1>2, <1>3, <2>3, <2>5, <2>6, <2>8, <2>9, Parts DEF RecorderInv
<1> QED BY <1>4, <1>5


(* sleep(1): the second one ends with the packet complete. *)
LEMMA SleepKept == ASSUME RecorderInv, Sleep PROVE RecorderInv'
<1>1. RecorderType /\ Remains /\ Accesses /\ N \in Nat \ {0} /\ Togo \in Nat
  BY Parts
<1>2. Step("sleep") /\ ~Flowing
      /\ UNCHANGED <<run, rst, nsamples, aim, owner, passed, packet, pos, ram, failed, disturbed, cut, stray>>
      /\ (Blame' <=> Blame)
  BY DEF Sleep, hw, Blame
<1>3. Togo \in (IF owner = FIXED THEN {6, 2} ELSE {5, 2}) /\ Togo' = Togo - 1
  BY <1>1, <1>2, StepLeft, NewStep, OldStep
<1>4. Remains'
  <2>1. Listing' = Listing
    BY <1>2 DEF Listing
  <2> QED BY <1>1, <1>2, <2>1, RemainsKept
<1>5. RecorderType'
  BY <1>1, <1>2 DEF RecorderType
<1>6. (Quiet' <=> Quiet) /\ (Unfinished' <=> Unfinished)
  BY <1>2 DEF Quiet, Unfinished
<1>7. CASE Togo = 2
  <2>1. /\ Since(11, 10) /\ Since(10, 10) /\ Since(9, 3) /\ Since(7, 8) /\ Since(5, 6) /\ Since(2, 2)
        /\ Since(2, 2)'
    BY <1>3, <1>7 DEF Since
  <2>2. passed = N
    <3>1. 1 \in rst /\ 2 \in rst /\ nsamples = N
      BY <1>1, <2>1 DEF Accesses
    <3>2. ~(passed < N)
      BY <1>2, <3>1 DEF Flowing, Unfinished
    <3> QED BY <1>1, <3>2 DEF RecorderType
  <2>3. Accesses'
    BY <1>1, <1>2, <2>1, <2>2 DEF Accesses
  <2>4. InOrder => InOrder'
    BY <1>2, <2>1 DEF InOrder
  <2> QED BY <1>2, <1>4, <1>5, <2>1, <2>3, <2>4, Parts DEF RecorderInv
<1>8. CASE Togo # 2
  <2>1. /\ Since(11, 10) /\ Since(10, 10) /\ Since(8, 9) /\ Since(7, 8) /\ Since(5, 6) /\ ~Since(2, 2)
        /\ (Since(9, 3)' => Since(9, 3)) /\ ~Since(3, 4)' /\ ~Since(2, 2)' /\ ~Since(1, 1)'
    <3>1. CASE owner = FIXED
      <4>1. owner' = FIXED /\ Togo = 6 /\ Togo' = 5
        BY <1>2, <1>3, <1>8, <3>1
      <4> QED BY <3>1, <4>1 DEF Since
    <3>2. CASE owner # FIXED
      <4>1. owner' # FIXED /\ Togo = 5 /\ Togo' = 4
        BY <1>2, <1>3, <1>8, <3>2
      <4> QED BY <3>2, <4>1 DEF Since
    <3> QED BY <3>1, <3>2
  <2>2. Accesses'
    BY <1>1, <1>2, <2>1 DEF Accesses
  <2>3. InOrder => InOrder'
    BY <1>2, <1>6, <2>1 DEF InOrder
  <2> QED BY <1>2, <1>4, <1>5, <1>6, <2>1, <2>2, <2>3, Parts DEF RecorderInv
<1> QED BY <1>7, <1>8

(* The end of a program, at its last line or earlier. *)
LEMMA EndKept == ASSUME RecorderInv, PrintSamples \/ KillRecorder PROVE RecorderInv'
<1>1. RecorderType /\ Remains /\ Accesses /\ N \in Nat \ {0} /\ Togo \in Nat /\ MAX_RUN \in Nat /\ FIXED = MAX_RUN + 1
  BY Parts
<1>2. owner' = (IF owner = FIXED THEN FIXED ELSE None)
      /\ UNCHANGED <<run, rst, nsamples, aim, passed, packet, pos, ram, failed, disturbed, stray>>
  BY DEF PrintSamples, KillRecorder
<1>3. Remains' /\ Togo' = 0
  <2>1. CASE KillRecorder
    BY <2>1, NothingRemains DEF KillRecorder
  <2>2. CASE PrintSamples
    <3>1. Togo = 1
      BY <1>1, <2>2, NewStep, OldStep DEF PrintSamples
    <3>2. script' \in Seq(Access) /\ Togo' = 0
      BY <1>1, <2>2, <3>1, StepLeft DEF PrintSamples
    <3>3. script' = <<>>
      BY <3>2 DEF Togo
    <3> QED BY <3>3, NothingRemains
  <2> QED BY <2>1, <2>2
<1>4. cut \subseteq cut' /\ (KillRecorder => run \in cut')
  BY DEF PrintSamples, KillRecorder
<1>5. RecorderType'
  <2>1. owner' \in 0..FIXED /\ (owner' = FIXED <=> aim' = FIXED)
    BY <1>1, <1>2 DEF RecorderType, None
  <2> QED BY <1>1, <1>2, <2>1 DEF RecorderType
<1>6. Accesses' /\ InOrder'
  BY <1>3 DEF Accesses, InOrder, Since
<1>7. Quiet'
  <2>1. CASE ~Since(2, 2)
    BY <1>2, <1>4, <2>1, Parts DEF Quiet
  <2>2. CASE KillRecorder /\ Since(2, 2)
    <3>1. packet = run
      BY <1>1, <2>2 DEF Accesses
    <3> QED BY <1>2, <1>4, <2>2, <3>1 DEF Quiet
  <2>3. CASE PrintSamples
    <3>1. Togo = 1
      BY <1>1, <2>3, NewStep, OldStep DEF PrintSamples
    <3>2. Since(1, 1) /\ Since(9, 3)
      BY <3>1 DEF Since
    <3> QED BY <1>1, <1>2, <3>2 DEF Accesses, Quiet
  <2> QED BY <2>1, <2>2, <2>3
<1>8. Blame'
  BY <1>2, <1>4, Parts DEF Blame
<1> QED BY <1>3, <1>5, <1>6, <1>7, <1>8 DEF RecorderInv

(* A sample gets to its place. *)
LEMMA FlowKept == ASSUME RecorderInv, Flow PROVE RecorderInv'
<1>1. RecorderType /\ Remains /\ Accesses /\ N \in Nat \ {0} /\ Togo \in Nat
  BY Parts
<1>2. passed' = passed + 1
      /\ UNCHANGED <<script, run, rst, nsamples, aim, owner, packet, failed, disturbed, cut>>
  BY DEF Flow
<1>3. 2 \in rst /\ passed \in Nat /\ passed < N /\ Unfinished
  <2>1. Unfinished
    BY DEF Flow, Flowing
  <2> QED BY <1>1, <2>1 DEF Unfinished, RecorderType
<1>4. Togo' = Togo /\ Remains'
  BY <1>1, <1>2 DEF Togo, Remains, Listing
<1>5. /\ Since(11, 10)' <=> Since(11, 10)
      /\ Since(10, 10)' <=> Since(10, 10)
      /\ Since(9, 3)' <=> Since(9, 3)
      /\ Since(8, 9)' <=> Since(8, 9)
      /\ Since(7, 8)' <=> Since(7, 8)
      /\ Since(5, 6)' <=> Since(5, 6)
      /\ Since(3, 4)' <=> Since(3, 4)
      /\ Since(2, 2)' <=> Since(2, 2)
      /\ Since(1, 1)' <=> Since(1, 1)
  BY <1>2, <1>4, Zenon DEF Since
<1>6. ~Since(1, 1) /\ (Since(3, 4) => Since(2, 2))
  <2>1. passed # N
    BY <1>1, <1>3
  <2> QED BY <1>1, <1>3, <2>1 DEF Accesses
<1>7. Accesses'
  BY <1>1, <1>2, <1>5, <1>6 DEF Accesses
<1>8. Since(2, 2) => 4 \in rst /\ (run \in failed \/ aim = owner) /\ packet = run
  <2>1. Since(2, 2) => Since(7, 8) /\ Since(10, 10)
    BY <1>1 DEF Since
  <2> QED BY <1>1, <2>1 DEF Accesses
<1>9. RecorderType'
  <2>1. passed' \in 0..N
    BY <1>1, <1>2, <1>3
  <2>2. pos' \in 0..N-1
    BY <1>1, SMTT(30) DEF Flow, RecorderType
  <2>3. DOMAIN ram' = 0..N-1 /\ ram' = [i \in 0..N-1 |-> ram'[i]]
    BY <1>1 DEF Flow, RecorderType
  <2> QED BY <1>1, <1>2, <2>1, <2>2, <2>3 DEF RecorderType
<1>10. ASSUME InOrder, run \notin failed PROVE InOrder'
  <2>1. Since(8, 9) => Since(2, 2)
    BY <1>3, <1>10 DEF InOrder
  <2>2. ASSUME Since(2, 2)
        PROVE  /\ pos' = IF passed' = N THEN 0 ELSE passed'
               /\ \A i \in 0..N-1 : i < passed' => ram'[i] = <<run, i>>
    <3>1. pos = passed /\ pos \in 0..N-1 /\ \A i \in 0..N-1 : i < passed => ram[i] = <<run, i>>
      BY <1>1, <1>3, <1>10, <2>2 DEF InOrder
    <3>2. pos' = (pos + 1) % N /\ ram' = [ram EXCEPT ![pos] = <<run, passed>>]
      BY <1>8, <1>10, <2>2 DEF Flow
    <3>3. pos' = IF passed' = N THEN 0 ELSE passed'
      BY <1>1, <1>2, <1>3, <3>1, <3>2
    <3>4. ASSUME NEW i \in 0..N-1, i < passed' PROVE ram'[i] = <<run, i>>
      <4>1. i = passed \/ i < passed
        BY <1>2, <1>3, <3>4
      <4>2. DOMAIN ram = 0..N-1
        BY <1>1 DEF RecorderType
      <4> QED BY <3>1, <3>2, <4>1, <4>2
    <3> QED BY <3>3, <3>4
  <2> QED BY <1>2, <1>5, <2>1, <2>2 DEF InOrder
<1>11. packet \in cut \/ Since(2, 2)
  <2>1. passed # N
    BY <1>1, <1>3
  <2> QED BY <1>3, <2>1, Parts DEF Quiet
<1>12. Since(2, 2)' \/ Quiet'
  BY <1>2, <1>5, <1>11 DEF Quiet
<1>13. Blame'
  <2>1. stray' \subseteq stray \cup {packet} /\ (aim = owner => stray' = stray)
    BY DEF Flow
  <2> QED BY <1>2, <1>8, <1>11, <2>1, Parts DEF Blame
<1> QED BY <1>2, <1>4, <1>7, <1>9, <1>10, <1>12, <1>13, Parts DEF RecorderInv

(* RecordSound: for every packet length and any number of invocations, of  *)
(* any of the versions, killed anywhere, with and without a buffer.        *)
THEOREM RecordIsOwn == RecorderSpec => []RecordSound
<1>1. RecorderInv /\ [RecorderNext]_Recordervars => RecorderInv'
  <2> SUFFICES ASSUME RecorderInv, [RecorderNext]_Recordervars PROVE RecorderInv'
    OBVIOUS
  <2>1. CASE UNCHANGED Recordervars
    <3>1. UNCHANGED <<script, run, rst, nsamples, aim, owner, passed, packet, pos, ram, failed, disturbed, cut, stray>>
      BY <2>1 DEF Recordervars, hw
    <3> QED BY <3>1 DEF RecorderInv, RecorderType, Remains, Accesses, InOrder, Quiet, Blame, Since, Togo, Listing, Unfinished
  <2>2. CASE RecorderNext
    <3>1. ASSUME NEW b \in {1, 2, 4}, ClearBit(b) \/ SetBit(b) PROVE RecorderInv'
      BY <3>1, FifoKept, PacketizerKept, WriterKept
    <3> QED BY <2>2, <3>1, RunKept, SetupKept, SleepKept, EndKept, FlowKept DEF RecorderNext
  <2> QED BY <2>1, <2>2
<1>2. RecorderInv => RecordSound
  <2> SUFFICES ASSUME RecorderInv PROVE RecordSound
    OBVIOUS
  <2>1. ASSUME script = <<"print">>, ~disturbed, run \notin failed PROVE ram = [i \in 0 .. N-1 |-> <<run, i>>]
    <3>1. Togo = 1
      BY <2>1 DEF Togo
    <3>2. Since(1, 1) /\ Since(2, 2)
      BY <3>1 DEF Since
    <3>3. passed = N /\ N \in Nat /\ ram = [i \in 0..N-1 |-> ram[i]]
      BY <3>2, Parts DEF Accesses, RecorderType
    <3>4. \A i \in 0..N-1 : i < passed => ram[i] = <<run, i>>
      BY <2>1, <3>2, Parts DEF InOrder
    <3>5. \A i \in 0..N-1 : ram[i] = <<run, i>>
      BY <3>3, <3>4
    <3> QED BY <3>3, <3>5
  <2> QED BY <2>1, Parts DEF RecordSound, Blame
<1> QED BY RecorderStarts, <1>1, <1>2, PTL DEF RecorderSpec

----------------------------------------------------------------------------
(* The server of adc_test.  The ring always holds the last beats, and what *)
(* has been sent ends where a half of it ends: limit and the remainder of  *)
(* the beats sent by the length of the ring tell each other.               *)
RING == 2 * HALF

ServerType ==
  /\ at \in {"stop1", "stop2", "accept", "poll", "send", "close", "end1", "end2", "ended"}
  /\ beats \in Nat /\ out \in Nat /\ left \in 0..HALF /\ half \in {0, HALF}
  /\ slot \in [Place -> Nat]
  /\ wrong \in BOOLEAN /\ overrun \in BOOLEAN /\ stop \in BOOLEAN

(* The ring holds the last beats, each in its place. *)
RingHolds ==
  \A k \in Nat : k < beats /\ beats <= k + RING => slot[k % RING] = k + 1

(* The half that is sent next, or rather where the one after it begins. *)
Offset == IF half > 0 THEN 0 ELSE HALF

Cold == at = "accept" => beats = 0 /\ out = 0 /\ 2 \notin rx_rst

(* What is sent has been written, and sending ends at the end of a half. *)
Aligned ==
  /\ at = "poll" /\ ~stop => out <= beats /\ out % RING = Offset
  /\ at = "send" => out + left <= beats /\ (out + left) % RING = Offset

InRing == at \in {"poll", "send"} /\ ~overrun => beats <= out + RING

ServerInv == ServerType /\ RingHolds /\ Cold /\ Aligned /\ InRing /\ HalvesInOrder

(* The ring is two halves. *)
LEMMA RingSize == HALF \in Nat \ {0} /\ RING \in Nat \ {0} /\ RING = HALF + HALF
BY ServerAssumption DEF RING

(* Every beat has a place in the ring. *)
LEMMA InPlace == ASSUME NEW k \in Nat PROVE k % RING \in Place
<1>1. RING \in Nat \ {0} /\ k \in Int
  BY RingSize
<1>2. k % RING \in 0..RING-1
  BY <1>1, DivMod
<1> QED BY <1>2 DEF Place, RING

(* The next beat overwrites only one that is a whole ring older. *)
LEMMA BeatStep ==
  ASSUME ServerType, RingHolds, Beat PROVE RingHolds' /\ slot' \in [Place -> Nat]
<1>1. beats \in Nat /\ beats' = beats + 1 /\ slot \in [Place -> Nat]
      /\ slot' = [slot EXCEPT ![beats % RING] = beats + 1] /\ beats % RING \in Place
  <2>1. beats \in Nat /\ slot \in [Place -> Nat]
    BY DEF ServerType
  <2>2. beats' = beats + 1 /\ slot' = [slot EXCEPT ![beats % RING] = beats + 1]
    BY DEF Beat, position, RING
  <2> QED BY <2>1, <2>2, InPlace
<1>2. slot' \in [Place -> Nat]
  BY <1>1
<1>3. ASSUME NEW k \in Nat, k < beats', beats' <= k + RING PROVE slot'[k % RING] = k + 1
  <2>1. CASE k = beats
    BY <1>1, <2>1
  <2>2. CASE k # beats
    <3>1. k < beats /\ beats < k + RING /\ beats <= k + RING
      BY <1>1, <1>3, <2>2, RingSize
    <3>2. k % RING # beats % RING
      <4>1. RING \in Nat \ {0} /\ k \in Int /\ beats \in Int
        BY <1>1, RingSize
      <4> QED BY <3>1, <4>1, Apart
    <3>3. k % RING \in Place
      BY InPlace
    <3>4. slot'[k % RING] = slot[k % RING]
      BY <1>1, <3>2, <3>3
    <3> QED BY <3>1, <3>4 DEF RingHolds
  <2> QED BY <2>1, <2>2
<1> QED BY <1>2, <1>3 DEF RingHolds

(* A half that is found ready has been written completely. *)
LEMMA ReadyIsWritten ==
  ASSUME ServerType, out <= beats, out % RING = Offset, Ready
  PROVE  /\ out + HALF <= beats
         /\ (out + HALF) % RING = IF half > 0 THEN HALF ELSE 0
<1> DEFINE m == out \div RING
           q == beats \div RING
           place == beats % RING
<1>1. out \in Nat /\ beats \in Nat /\ half \in {0, HALF}
  BY DEF ServerType
<1>0. RING \in Nat \ {0} /\ out \in Int /\ beats \in Int
  BY <1>1, RingSize
<1>2. m \in Int /\ out = RING * m + (out % RING)
  BY <1>0, DivMod
<1>3. q \in Int /\ place \in 0..RING-1 /\ beats = RING * q + place
  BY <1>0, DivMod
<1>4. place = position
  BY DEF position, RING
<1> HIDE DEF m, q, place
<1> DEFINE x == RING * m
           y == RING * q
<1>5. x \in Int /\ y \in Int /\ (q - m) * RING = y - x /\ (m - q) * RING = x - y
  BY <1>2, <1>3, RingSize
<1>6. CASE half > 0
  <2>1. half = HALF /\ out = x /\ place > HALF
    BY <1>1, <1>2, <1>4, <1>6, RingSize DEF Ready, Offset
  <2>2. ~(m - q >= 1)
    <3>1. ASSUME m - q >= 1 PROVE x - y >= RING
      BY <1>2, <1>3, <1>5, <3>1, RingSize, TimesPositive
    <3> HIDE DEF x, y
    <3> QED BY <1>1, <1>3, <1>5, <2>1, <3>1, RingSize DEF y
  <2>3. q - m = 0 \/ q - m >= 1
    BY <1>2, <1>3, <2>2
  <2>4. y - x >= 0
    <3>1. CASE q - m = 0
      <4>1. q = m
        BY <1>2, <1>3, <3>1
      <4>2. y = x
        BY <4>1
      <4> HIDE DEF x, y
      <4> QED BY <1>5, <4>2
    <3>2. CASE q - m >= 1
      <4>1. y - x >= RING
        BY <1>2, <1>3, <1>5, <3>2, RingSize, TimesPositive
      <4> HIDE DEF x, y
      <4> QED BY <1>5, <4>1, RingSize
    <3> QED BY <2>3, <3>1, <3>2
  <2>5. beats = y + place
    BY <1>3
  <2>6. out + HALF <= beats
    <3> HIDE DEF x, y
    <3> QED BY <1>1, <1>3, <1>5, <2>1, <2>4, <2>5, RingSize
  <2>7. out + HALF = m * RING + HALF /\ HALF \in 0..RING-1 /\ out + HALF \in Int
    BY <1>1, <1>2, <2>1, RingSize
  <2>8. (out + HALF) % RING = HALF
    BY <1>2, <2>7, RingSize, DivUnique, ZenonT(60)
  <2> QED BY <1>6, <2>6, <2>8
<1>7. CASE ~(half > 0)
  <2>1. half = 0 /\ out = x + HALF /\ place < HALF
    BY <1>1, <1>2, <1>4, <1>7, RingSize DEF Ready, Offset
  <2>2. beats = y + place
    BY <1>3
  <2>3. q - m >= 1
    <3>1. ASSUME q = m PROVE FALSE
      <4>1. y = x
        BY <3>1
      <4> HIDE DEF x, y
      <4> QED BY <1>1, <1>3, <1>5, <2>1, <2>2, <4>1, RingSize
    <3>2. ASSUME m - q >= 1 PROVE FALSE
      <4>1. x - y >= RING
        BY <1>2, <1>3, <1>5, <3>2, RingSize, TimesPositive
      <4> HIDE DEF x, y
      <4> QED BY <1>1, <1>3, <1>5, <2>1, <2>2, <4>1, RingSize
    <3> QED BY <1>2, <1>3, <3>1, <3>2
  <2>4. y - x >= RING
    BY <1>2, <1>3, <1>5, <2>3, RingSize, TimesPositive
  <2>5. out + HALF <= beats
    <3> HIDE DEF x, y
    <3> QED BY <1>1, <1>3, <1>5, <2>1, <2>2, <2>4, RingSize
  <2>6. out + HALF = (m + 1) * RING + 0
    <3>1. (m + 1) * RING = x + RING
      BY <1>2, RingSize
    <3> HIDE DEF x
    <3> QED BY <1>1, <1>5, <2>1, <3>1, RingSize
  <2>7. m + 1 \in Int /\ out + HALF \in Int /\ 0 \in 0..RING-1
    BY <1>1, <1>2, RingSize
  <2>8. (out + HALF) % RING = 0
    BY <2>6, <2>7, RingSize, DivUnique
  <2> QED BY <1>7, <2>5, <2>8
<1> QED BY <1>6, <1>7

(* The beat copied next is the one the client expects. *)
LEMMA SourceIsNext ==
  ASSUME ServerType, RingHolds, at = "send", Aligned, left > 0, beats <= out + RING
  PROVE  slot[Source] = out + 1
<1> DEFINE m == (out + left) \div RING
<1>1. out \in Nat /\ beats \in Nat /\ half \in {0, HALF} /\ left \in 1..HALF
      /\ out + left <= beats /\ (out + left) % RING = Offset
  BY RingSize DEF ServerType, Aligned
<1>0. RING \in Nat \ {0} /\ out + left \in Int
  BY <1>1, RingSize
<1>2. m \in Int /\ out + left = RING * m + Offset
  BY <1>0, <1>1, DivMod
<1> HIDE DEF m
<1>3. out % RING = Source
  <2>1. CASE half > 0
    <3>1. Offset = 0 /\ Source = RING - left
      BY <1>1, <2>1, RingSize DEF Offset, Source
    <3>2. (m - 1) * RING = RING * m - RING /\ RING * m \in Int
      BY <1>2, RingSize
    <3>3. out = (m - 1) * RING + (RING - left) /\ RING - left \in 0..RING-1 /\ m - 1 \in Int
      BY <1>1, <1>2, <3>1, <3>2, RingSize
    <3>4. out % RING = RING - left
      BY <1>1, <3>3, RingSize, DivUnique, SMTT(30)
    <3> QED BY <3>1, <3>4
  <2>2. CASE ~(half > 0)
    <3>1. Offset = HALF /\ Source = HALF - left
      BY <1>1, <2>2, RingSize DEF Offset, Source
    <3>2. out = m * RING + (HALF - left) /\ HALF - left \in 0..RING-1
      BY <1>1, <1>2, <3>1, RingSize
    <3>3. out % RING = HALF - left
      <4>1. RING \in Nat \ {0} /\ out \in Int
        BY <1>1, RingSize
      <4> QED BY <1>2, <3>2, <4>1, DivUnique
    <3> QED BY <3>1, <3>3
  <2> QED BY <2>1, <2>2
<1>4. out < beats
  BY <1>1
<1> QED BY <1>1, <1>3, <1>4 DEF RingHolds


(* Every step keeps the invariant. *)
LEMMA ServerStarts == ServerInit => ServerInv
<1> SUFFICES ASSUME ServerInit PROVE ServerInv
  OBVIOUS
<1>1. ServerType
  <2>1. 0 \in 0..HALF /\ Fresh \in [Place -> Nat]
    BY RingSize DEF Fresh
  <2>2. beats \in Nat /\ out \in Nat /\ left \in 0..HALF /\ half \in {0, HALF} /\ slot \in [Place -> Nat]
    BY <2>1 DEF ServerInit
  <2>3. wrong \in BOOLEAN /\ overrun \in BOOLEAN /\ stop \in BOOLEAN
    BY DEF ServerInit
  <2> QED BY <2>2, <2>3 DEF ServerInit, ServerType
<1>2. RingHolds
  BY DEF ServerInit, RingHolds
<1> QED BY <1>1, <1>2 DEF ServerInit, ServerInv, Cold, Aligned, InRing, HalvesInOrder

(* The writer stores a beat. *)
LEMMA BeatKept == ASSUME ServerInv, Beat PROVE ServerInv'
<1>1. ServerType /\ RingHolds /\ Cold /\ Aligned /\ InRing /\ HalvesInOrder
  BY DEF ServerInv
<1>2. RingHolds' /\ slot' \in [Place -> Nat]
  BY <1>1, BeatStep
<1>3. beats \in Nat /\ beats' = beats + 1 /\ out \in Nat /\ left \in Nat /\ HALF \in Nat
  BY <1>1, RingSize DEF ServerType, Beat
<1>4. ServerType'
  BY <1>1, <1>2, <1>3 DEF ServerType, Beat
<1>5. at # "accept" /\ at' = at /\ stop' = stop /\ wrong' = wrong /\ UNCHANGED <<out, left, half>>
  BY <1>1 DEF Beat, Cold
<1>6. Aligned'
  <2>1. Offset' = Offset
    BY <1>5 DEF Offset
  <2>2. out <= beats => out <= beats'
    BY <1>3
  <2>3. out + left <= beats => out + left <= beats'
    BY <1>3
  <2> QED BY <1>1, <1>5, <2>1, <2>2, <2>3 DEF Aligned
<1>7. ~overrun' => ~overrun /\ beats' <= out + RING
  <2>1. overrun' <=> (overrun \/ beats' > out + 2 * HALF)
    BY DEF Beat
  <2>2. ~(beats' > out + 2 * HALF) => beats' <= out + RING
    BY <1>3 DEF RING
  <2> QED BY <2>1, <2>2
<1>8. InRing' /\ HalvesInOrder'
  BY <1>1, <1>5, <1>7 DEF InRing, HalvesInOrder
<1> QED BY <1>2, <1>4, <1>5, <1>6, <1>8 DEF ServerInv, Cold

(* The server resets the writer. *)
LEMMA ResetKept == ASSUME ServerInv, EnterReset PROVE ServerInv'
<1>1. ServerType /\ RingHolds /\ Cold /\ Aligned /\ InRing /\ HalvesInOrder
  BY DEF ServerInv
<1>2. at' \in {"stop2", "accept", "end2", "ended"}
  BY DEF EnterReset, GotoPlace
<1>3. Aligned' /\ InRing' /\ HalvesInOrder'
  BY <1>2 DEF Aligned, InRing, HalvesInOrder
<1>4. CASE at' \in {"stop2", "end2"}
  <2>1. UNCHANGED <<beats, slot, half, left, stop, out, wrong, overrun>>
    BY <1>4 DEF EnterReset, GotoPlace
  <2> QED BY <1>1, <1>3, <1>4, <2>1 DEF ServerInv, ServerType, RingHolds, Cold
<1>5. CASE at' \in {"accept", "ended"}
  <2>1. rx_rst' = rx_rst \ {2} /\ beats' = 0 /\ slot' = Fresh /\ out' = 0
        /\ UNCHANGED <<half, left, stop, wrong, overrun>>
    BY <1>5 DEF EnterReset, GotoPlace, Halted
  <2>2. ServerType'
    BY <1>1, <1>5, <2>1 DEF ServerType, Fresh
  <2>3. RingHolds' /\ Cold'
    BY <2>1 DEF RingHolds, Cold
  <2> QED BY <1>3, <2>2, <2>3 DEF ServerInv
<1> QED BY <1>2, <1>4, <1>5

(* A client connects. *)
LEMMA AcceptKept == ASSUME ServerInv, Accept PROVE ServerInv'
<1>1. ServerType /\ RingHolds /\ Cold
  BY DEF ServerInv
<1>2. beats = 0 /\ out = 0
  BY <1>1 DEF Cold, Accept, GotoPlace
<1>3. at' = "poll" /\ half' = HALF /\ wrong' = FALSE /\ overrun' = FALSE
      /\ UNCHANGED <<beats, slot, left, stop, out>>
  BY DEF Accept, GotoPlace
<1>4. ServerType'
  BY <1>1, <1>3 DEF ServerType
<1>5. RingHolds'
  BY <1>1, <1>3 DEF RingHolds
<1>6. Offset' = 0
  BY <1>3, RingSize DEF Offset
<1>7. 0 % RING = 0
  <2>1. RING \in Nat \ {0} /\ 0 \in Int /\ 0 \in 0..RING-1 /\ 0 = 0 * RING + 0
    BY RingSize
  <2> QED BY <2>1, DivUnique
<1>8. Aligned'
  BY <1>2, <1>3, <1>6, <1>7 DEF Aligned
<1>9. InRing'
  BY <1>2, <1>3, RingSize DEF InRing
<1> QED BY <1>3, <1>4, <1>5, <1>8, <1>9 DEF ServerInv, Cold, HalvesInOrder

(* The server looks for a complete half. *)
LEMMA PollKept == ASSUME ServerInv, PollWriter PROVE ServerInv'
<1>1. ServerType /\ RingHolds /\ Cold /\ Aligned /\ InRing /\ HalvesInOrder /\ at = "poll"
  BY DEF ServerInv, PollWriter
<1>2. UNCHANGED <<beats, slot, stop, out, wrong, overrun>>
  BY DEF PollWriter
<1>3. RingHolds'
  BY <1>1, <1>2 DEF RingHolds
<1>4. CASE stop
  <2>1. at' = "close" /\ UNCHANGED <<half, left>>
    BY <1>4 DEF PollWriter
  <2>2. ServerType'
    BY <1>1, <1>2, <2>1 DEF ServerType
  <2> QED BY <1>3, <2>1, <2>2 DEF ServerInv, Cold, Aligned, InRing, HalvesInOrder
<1>5. CASE ~stop /\ Ready
  <2>1. at' = "send" /\ left' = HALF /\ half' = IF half > 0 THEN 0 ELSE HALF
    BY <1>5 DEF PollWriter
  <2>2. ServerType'
    BY <1>1, <1>2, <2>1, RingSize DEF ServerType
  <2>3. out <= beats /\ out % RING = Offset
    BY <1>1, <1>5 DEF Aligned
  <2>4. out + HALF <= beats /\ (out + HALF) % RING = IF half > 0 THEN HALF ELSE 0
    BY <1>1, <1>5, <2>3, ReadyIsWritten
  <2>5. Offset' = IF half > 0 THEN HALF ELSE 0
    BY <1>1, <2>1, RingSize DEF Offset, ServerType
  <2>6. Aligned'
    BY <1>2, <2>1, <2>4, <2>5 DEF Aligned
  <2>7. InRing' /\ HalvesInOrder' /\ Cold'
    BY <1>1, <1>2, <2>1 DEF InRing, HalvesInOrder, Cold
  <2> QED BY <1>3, <2>2, <2>6, <2>7 DEF ServerInv
<1>6. CASE ~stop /\ ~Ready
  <2>1. UNCHANGED <<at, half, left>>
    BY <1>6 DEF PollWriter
  <2>2. ServerType'
    BY <1>1, <1>2, <2>1 DEF ServerType
  <2>3. Aligned'
    BY <1>1, <1>2, <2>1 DEF Aligned, Offset
  <2> QED BY <1>1, <1>2, <1>3, <2>1, <2>2, <2>3 DEF ServerInv, Cold, InRing, HalvesInOrder
<1> QED BY <1>4, <1>5, <1>6

(* It sends a beat of the half. *)
LEMMA SendKept == ASSUME ServerInv, Send PROVE ServerInv'
<1>1. ServerType /\ RingHolds /\ Cold /\ Aligned /\ InRing /\ HalvesInOrder /\ at = "send"
  BY DEF ServerInv, Send
<1>2. left > 0 /\ left' = left - 1 /\ out' = out + 1 /\ UNCHANGED <<at, beats, slot, half, stop, overrun>>
  BY DEF Send
<1>3. left \in 1..HALF /\ out \in Nat /\ beats \in Nat /\ HALF \in Nat
  BY <1>1, <1>2, RingSize DEF ServerType
<1>4. left' \in 0..HALF /\ out' \in Nat /\ out' + left' = out + left
  BY <1>2, <1>3
<1>5. wrong' \in BOOLEAN
  BY <1>1 DEF Send, ServerType
<1>6. ServerType'
  BY <1>1, <1>2, <1>4, <1>5 DEF ServerType
<1>7. RingHolds'
  BY <1>1, <1>2 DEF RingHolds
<1>8. Aligned'
  <2>1. Offset' = Offset
    BY <1>2 DEF Offset
  <2> QED BY <1>1, <1>2, <1>4, <2>1 DEF Aligned
<1>9. InRing'
  <2>1. ASSUME ~overrun PROVE beats <= out' + RING
    <3>1. beats <= out + RING
      BY <1>1, <2>1 DEF InRing
    <3> QED BY <1>2, <1>3, <3>1, RingSize
  <2> QED BY <1>2, <2>1 DEF InRing
<1>10. HalvesInOrder'
  <2>1. ASSUME ~overrun PROVE ~wrong'
    <3>1. beats <= out + RING
      BY <1>1, <2>1 DEF InRing
    <3>2. slot[Source] = out + 1
      BY <1>1, <1>2, <3>1, SourceIsNext
    <3> QED BY <1>1, <2>1, <3>2 DEF Send, HalvesInOrder
  <2> QED BY <1>2, <2>1 DEF HalvesInOrder
<1> QED BY <1>1, <1>2, <1>6, <1>7, <1>8, <1>9, <1>10 DEF ServerInv, Cold

(* It has sent the half. *)
LEMMA SentKept == ASSUME ServerInv, Sent PROVE ServerInv'
<1>1. ServerType /\ RingHolds /\ Aligned /\ InRing /\ HalvesInOrder /\ at = "send"
  BY DEF ServerInv, Sent, GotoPlace
<1>2. at' = "poll" /\ left' = 0 /\ UNCHANGED <<beats, slot, half, stop, out, wrong, overrun>>
  BY DEF Sent, GotoPlace
<1>3. ServerType'
  BY <1>1, <1>2, RingSize DEF ServerType
<1>4. RingHolds'
  BY <1>1, <1>2 DEF RingHolds
<1>5. Aligned'
  <2>1. ASSUME ~stop PROVE out <= beats /\ out % RING = Offset
    <3>1. left = 0 /\ out \in Nat
      BY <1>1, <2>1 DEF Sent, ServerType
    <3>2. out + left = out
      BY <3>1
    <3> QED BY <1>1, <3>2 DEF Aligned
  <2>2. Offset' = Offset
    BY <1>2 DEF Offset
  <2> QED BY <1>2, <2>1, <2>2 DEF Aligned
<1> QED BY <1>1, <1>2, <1>3, <1>4, <1>5 DEF ServerInv, Cold, InRing, HalvesInOrder

(* The steps that only move to another place, or end the process. *)
LEMMA MovesKept ==
  ASSUME ServerInv, SendFails \/ CloseClient \/ Sigint \/ UNCHANGED Servervars PROVE ServerInv'
<1>1. ServerType /\ RingHolds /\ Cold /\ Aligned /\ InRing /\ HalvesInOrder
  BY DEF ServerInv
<1>2. UNCHANGED <<beats, slot, half, out, wrong, overrun>>
  BY DEF SendFails, CloseClient, Sigint, Servervars
<1>3. at' \in {"close", "end1", "stop1", "ended"} \/ (UNCHANGED <<at, rx_rst, left>> /\ (stop' = stop \/ stop' = TRUE))
  BY DEF SendFails, CloseClient, Sigint, Servervars, GotoPlace
<1>4. at' \in {"close", "end1", "stop1", "ended"} \/ at' = at
  BY <1>3
<1>5. left' \in 0..HALF /\ stop' \in BOOLEAN
  <2>1. left' = 0 \/ left' = left
    BY DEF SendFails, CloseClient, Sigint, Servervars
  <2>2. stop' = TRUE \/ stop' = stop
    BY DEF SendFails, CloseClient, Sigint, Servervars
  <2>3. left' \in 0..HALF
    BY <1>1, <2>1, RingSize DEF ServerType
  <2>4. stop' \in BOOLEAN
    BY <1>1, <2>2 DEF ServerType
  <2> QED BY <2>3, <2>4
<1>6. ServerType'
  BY <1>1, <1>2, <1>4, <1>5 DEF ServerType
<1>7. RingHolds'
  BY <1>1, <1>2 DEF RingHolds
<1>8. CASE at' \in {"close", "end1", "stop1", "ended"}
  BY <1>6, <1>7, <1>8 DEF ServerInv, Cold, Aligned, InRing, HalvesInOrder
<1>9. CASE UNCHANGED <<at, rx_rst, left>> /\ (stop' = stop \/ stop' = TRUE)
  <2>1. Offset' = Offset
    BY <1>2 DEF Offset
  <2>2. Aligned'
    BY <1>1, <1>2, <1>9, <2>1 DEF Aligned
  <2> QED BY <1>1, <1>2, <1>6, <1>7, <1>9, <2>2 DEF ServerInv, Cold, InRing, HalvesInOrder
<1> QED BY <1>3, <1>8, <1>9

(* HalvesInOrder: what poll finds ready has been written completely, and   *)
(* what send copies is the next beat, for every length of the ring, every  *)
(* number of beats and of clients, as long as the writer is at most a ring *)
(* ahead of the copy.                                                      *)
THEOREM ClientGetsAll == ServerSpec => []HalvesInOrder
<1>1. ServerInv /\ [ServerNext]_Servervars => ServerInv'
  BY BeatKept, ResetKept, AcceptKept, PollKept, SendKept, SentKept, MovesKept DEF ServerNext
<1>2. ServerInv => HalvesInOrder
  BY DEF ServerInv
<1> QED BY ServerStarts, <1>1, <1>2, PTL DEF ServerSpec
============================================================================
