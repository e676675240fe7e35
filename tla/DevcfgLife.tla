----------------------------- MODULE DevcfgLife -----------------------------
(***************************************************************************)
(* patches/xilinx_devcfg.c: what probe acquires and remove gives back, and *)
(* the FPGA clocks that are exported to sysfs, switched on and off, and    *)
(* unexported in between by several threads, without a lock.  A step is    *)
(* one access that another thread can see.  Clock rates are left out, and  *)
(* what happens after a bad pointer was followed.                          *)
(***************************************************************************)
EXTENDS Naturals, Sequences

CONSTANTS NUMFCLKS,   \* FPGA clocks
          Writer,     \* threads that write sysfs attributes
          MAX_OP      \* bound on the stores

ASSUME LifeAssumption == MAX_OP \in Nat /\ NUMFCLKS \in Nat

VARIABLES
  phase,            \* "unbound", "probing", "unwinding", "bound", "removing", "draining"
  step,             \* place in ProbeOrder, in Unwinding, or the next clock to remove
  held,             \* resources acquired
  retval,           \* probe's retval, "ok" or "error"
  fclkReady,        \* fclk_export and fclk_unexport are there
  exported,         \* per clock: fclk_exported
  sub,              \* per clock: no device, one without valid data ("bare"), or "ready"
  enabled,          \* per clock: fdata->enabled
  prepares, enables,   \* per clock: counts of the clock framework
  pend,             \* per writer: the store it is in
  ops,              \* history: stores begun
  silent,           \* history: probe went wrong and returned 0
  broken,           \* history: an export failed half way
  overlap,          \* history: stores met that must not; see Meets
  oops              \* history: a null or dangling pointer was followed

clocks   == <<exported, sub, enabled, prepares, enables>>
life     == <<phase, step, held, retval, fclkReady>>
lifeHist == <<silent, broken, overlap, oops>>
Lifevars == <<life, clocks, pend, ops, lifeHist>>

Fclk == 1..NUMFCLKS
Resource == {"clk", "region", "cdev", "class", "device", "attrs", "fclk"}
NoStore == [at |-> "none", c |-> 0, on |-> FALSE]

LifeInit ==
  /\ phase = "unbound" /\ step = 1 /\ held = {} /\ retval = "ok" /\ fclkReady = FALSE
  /\ exported = [c \in Fclk |-> FALSE] /\ sub = [c \in Fclk |-> "none"]
  /\ enabled = [c \in Fclk |-> FALSE]
  /\ prepares = [c \in Fclk |-> 0] /\ enables = [c \in Fclk |-> 0]
  /\ pend = [w \in Writer |-> NoStore] /\ ops = 0
  /\ silent = FALSE /\ broken = FALSE /\ overlap = FALSE /\ oops = FALSE

----------------------------------------------------------------------------
(* xdevcfg_drv_probe: what it acquires, in this order. *)
ProbeOrder == <<"clk", "region", "cdev", "class", "device", "attrs">>

(* The cleanup labels failed8 to failed5, and where each failure enters.   *)
Unwinding == <<"device", "class", "region", "clk">>

FailedAt(r) == CASE r = "attrs" -> 1 [] r = "device" -> 2
                 [] r \in {"class", "cdev"} -> 3 [] r = "region" -> 4
                 [] r = "clk" -> 5

(* Calls whose failure is not copied to retval. *)
Unreported == {"class", "device"}

(* The driver data begin as zeroes. *)
Probe == /\ phase = "unbound" /\ phase' = "probing" /\ step' = 1 /\ retval' = "ok"
         /\ exported' = [c \in Fclk |-> FALSE]
         /\ UNCHANGED <<held, fclkReady, sub, enabled, prepares, enables, pend, ops, lifeHist>>

(* The next acquisition succeeds.  After the last, xdevcfg_fclk_init gets  *)
(* references to the FPGA clocks, which nothing puts, and makes a class    *)
(* and two files; it may fail on the way with a warning only.              *)
ProbeStep ==
  /\ phase = "probing"
  /\ IF step = Len(ProbeOrder)
     THEN /\ phase' = "bound" /\ step' = 1
          /\ \E refs \in SUBSET {"fclk"} : /\ held' = held \cup {ProbeOrder[step]} \cup refs
                                           /\ fclkReady' \in {FALSE, refs # {}}
     ELSE held' = held \cup {ProbeOrder[step]} /\ step' = step + 1 /\ UNCHANGED <<phase, fclkReady>>
  /\ UNCHANGED <<retval, clocks, pend, ops, lifeHist>>

(* It fails; only a failed sysfs_create_group deletes the cdev. *)
ProbeFail ==
  LET r == ProbeOrder[step]
  IN /\ phase = "probing" /\ phase' = "unwinding" /\ step' = FailedAt(r)
     /\ retval' = IF r \in Unreported THEN retval ELSE "error"
     /\ held' = IF r = "attrs" THEN held \ {"cdev"} ELSE held
     /\ silent' = (silent \/ r \in Unreported)
     /\ UNCHANGED <<fclkReady, clocks, pend, ops, broken, overlap, oops>>

Unwind ==
  /\ phase = "unwinding"
  /\ IF step <= Len(Unwinding)
     THEN held' = held \ {Unwinding[step]} /\ step' = step + 1 /\ UNCHANGED phase
     ELSE phase' = (IF retval = "ok" THEN "bound" ELSE "unbound") /\ step' = 1 /\ UNCHANGED held
  /\ UNCHANGED <<retval, fclkReady, clocks, pend, ops, lifeHist>>

----------------------------------------------------------------------------
Unexporting == {"find", "free", "unregister"}

(* Stores that nothing keeps apart and that do not go together: two for    *)
(* the same clock, and an unexport, which searches through the devices of  *)
(* all clocks, with an export or unexport of any clock.                    *)
Meets(at, c, v) ==
  /\ pend[v] # NoStore
  /\ \/ pend[v].c = c
     \/ at # "enable" /\ pend[v].at # "enable" /\ (at = "find" \/ pend[v].at \in Unexporting)

Begin(w, at, c, on) ==
  /\ pend[w] = NoStore /\ ops < MAX_OP /\ ops' = ops + 1
  /\ pend' = [pend EXCEPT ![w] = [at |-> at, c |-> c, on |-> on]]
  /\ overlap' = (overlap \/ phase # "bound" \/ \E v \in Writer \ {w} : Meets(at, c, v))
  /\ UNCHANGED <<life, clocks, silent, broken, oops>>

(* fclk_export and fclk_unexport, until remove has waited for their users. *)
Listed == phase \in {"bound", "removing", "draining"} /\ fclkReady

Moved(p, to) == IF to = "none" THEN NoStore ELSE [p EXCEPT !.at = to]
Goes(w, from, to) == pend[w].at = from /\ pend' = [pend EXCEPT ![w] = Moved(@, to)]

(* A store goes on, or its call fails and the export is left half done. *)
OrBreaks(w, from, to, ok) ==
  /\ Goes(w, from, IF ok THEN to ELSE "none")
  /\ broken' = (broken \/ ~ok)
  /\ UNCHANGED <<life, ops, silent, overlap, oops>>

(* xdevcfg_fclk_export_store: test and set of fclk_exported; device_create *)
(* (a device of that name may be there); clk_prepare; kzalloc and          *)
(* dev_set_drvdata; sysfs_create_group, with the labels err_free and       *)
(* err_unprepare.                                                          *)
ExportTest(w, c) == Listed /\ ~exported[c] /\ Begin(w, "set", c, FALSE)

ExportSet(w) ==
  /\ Goes(w, "set", "create") /\ exported' = [exported EXCEPT ![pend[w].c] = TRUE]
  /\ UNCHANGED <<life, sub, enabled, prepares, enables, ops, lifeHist>>

ExportCreate(w, ok) ==
  LET made == ok /\ sub[pend[w].c] = "none"
  IN /\ OrBreaks(w, "create", "prepare", made) /\ phase # "draining"
     /\ sub' = IF made THEN [sub EXCEPT ![pend[w].c] = "bare"] ELSE sub
     /\ UNCHANGED <<exported, enabled, prepares, enables>>

ExportPrepare(w, ok) ==
  /\ OrBreaks(w, "prepare", "data", ok)
  /\ prepares' = IF ok THEN [prepares EXCEPT ![pend[w].c] = @ + 1] ELSE prepares
  /\ UNCHANGED <<exported, sub, enabled, enables>>

Unprepared(c) == [prepares EXCEPT ![c] = IF @ > 0 THEN @ - 1 ELSE @]

ExportData(w, ok) ==
  LET c == pend[w].c
  IN /\ OrBreaks(w, "data", "group", ok)
     /\ sub' = IF ok THEN [sub EXCEPT ![c] = "ready"] ELSE sub
     /\ enabled' = IF ok THEN [enabled EXCEPT ![c] = FALSE] ELSE enabled
     /\ prepares' = IF ok THEN prepares ELSE Unprepared(c)
     /\ UNCHANGED <<exported, enables>>

ExportGroup(w, ok) ==
  LET c == pend[w].c
  IN /\ OrBreaks(w, "group", "none", ok) /\ (ok \/ sub[c] = "ready")
     /\ sub' = IF ok THEN sub ELSE [sub EXCEPT ![c] = "bare"]
     /\ prepares' = IF ok THEN prepares ELSE Unprepared(c)
     /\ UNCHANGED <<exported, enabled, enables>>

----------------------------------------------------------------------------
\* Slip: the clock is given back without switching it off.
MutGiveBack(c) == prepares' = Unprepared(c) /\ enables' = enables

(* clk_disable, if enabled, and clk_unprepare. *)
GiveBack(c) ==
  /\ prepares' = Unprepared(c)
  /\ enables' = [enables EXCEPT ![c] = IF enabled[c] /\ @ > 0 THEN @ - 1 ELSE @]

(* The threads whose pointers are gone when c's data or device goes. *)
Lose(c, ats) == [v \in Writer |-> IF pend[v].c = c /\ pend[v].at \in ats
                                  THEN Moved(pend[v], "lost") ELSE pend[v]]

(* xdevcfg_fclk_unexport_store: test; reset of the flag, and the search of *)
(* the clock's device; clk_disable, clk_unprepare and kfree;               *)
(* device_unregister.                                                      *)
UnexportTest(w, c) == Listed /\ exported[c] /\ Begin(w, "find", c, FALSE)

UnexportFind(w) ==
  LET c == pend[w].c
  IN /\ Goes(w, "find", "free") /\ phase # "draining" /\ sub[c] = "ready"
     /\ exported' = [exported EXCEPT ![c] = FALSE]
     /\ UNCHANGED <<life, sub, enabled, prepares, enables, ops, lifeHist>>

UnexportFree(w) ==
  LET c == pend[w].c
  IN /\ pend[w].at = "free"
     /\ pend' = [Lose(c, {"enable", "free"}) EXCEPT ![w] = Moved(pend[w], "unregister")]
     /\ GiveBack(c) /\ sub' = [sub EXCEPT ![c] = "bare"]
     /\ UNCHANGED <<life, exported, enabled, ops, lifeHist>>

UnexportEnd(w) ==
  LET c == pend[w].c
  IN /\ pend[w].at = "unregister" /\ pend' = [Lose(c, {"group"}) EXCEPT ![w] = NoStore]
     /\ sub' = [sub EXCEPT ![c] = "none"]
     /\ UNCHANGED <<life, exported, enabled, prepares, enables, ops, lifeHist>>

(* fclk_enable_store: compares with fdata->enabled, and later acts on it:  *)
(* clk_enable, which may fail, or clk_disable; then the flag.              *)
EnableTest(w, c, on) ==
  /\ sub[c] = "ready" /\ \A v \in Writer : ~(pend[v].at = "group" /\ pend[v].c = c)
  /\ enabled[c] # on /\ Begin(w, "enable", c, on)

EnableDo(w, ok) ==
  LET c == pend[w].c
      on == pend[w].on
  IN /\ Goes(w, "enable", "none") /\ (on \/ ok)
     /\ enables' = [enables EXCEPT ![c] = IF on /\ ok THEN @ + 1
                                          ELSE IF ~on /\ @ > 0 THEN @ - 1 ELSE @]
     /\ enabled' = [enabled EXCEPT ![c] = IF ok THEN on ELSE @]
     /\ UNCHANGED <<life, exported, sub, prepares, ops, lifeHist>>

----------------------------------------------------------------------------
(* xdevcfg_drv_remove: the region and the attributes; then                 *)
(* xdevcfg_fclk_remove, clock by clock, the class and, when their users    *)
(* are done, the files of the FPGA clocks; then the rest.                  *)
RemoveBegin ==
  /\ phase = "bound" /\ phase' = "removing" /\ step' = 1
  /\ held' = held \ {"region", "attrs"}
  /\ overlap' = (overlap \/ \E v \in Writer : pend[v] # NoStore)
  /\ UNCHANGED <<retval, fclkReady, clocks, pend, ops, silent, broken, oops>>

RemoveClock ==
  /\ phase = "removing" /\ step \in Fclk /\ step' = step + 1
  /\ IF exported[step]
     THEN /\ sub[step] = "ready" /\ sub' = [sub EXCEPT ![step] = "none"]
          /\ exported' = [exported EXCEPT ![step] = FALSE] /\ GiveBack(step)
          /\ pend' = Lose(step, {"enable", "free", "group"})
     ELSE UNCHANGED <<exported, sub, prepares, enables, pend>>
  /\ UNCHANGED <<phase, held, retval, fclkReady, enabled, ops, lifeHist>>

RemoveClass ==
  /\ phase = "removing" /\ step \notin Fclk /\ phase' = "draining" /\ step' = 1
  /\ UNCHANGED <<held, retval, fclkReady, clocks, pend, ops, lifeHist>>

Drained == \A w \in Writer : pend[w].at \in {"none", "enable"}

RemoveEnd ==
  /\ phase = "draining" /\ Drained /\ "class" \in held
  /\ phase' = "unbound" /\ held' = held \ {"device", "class", "cdev", "clk"} /\ fclkReady' = FALSE
  /\ UNCHANGED <<step, retval, clocks, pend, ops, lifeHist>>

----------------------------------------------------------------------------
(* The search of a clock's device reads the data of the devices before it  *)
(* in the class, and does not expect to find none.                         *)
BadSearch(c) == sub[c] # "ready" \/ \E d \in Fclk : sub[d] = "bare"

(* A store follows a bad pointer: its own data or device, the class that   *)
(* remove has destroyed, the outcome of a search.                          *)
StoreOops(w) ==
  /\ \/ pend[w].at = "lost"
     \/ pend[w].at \in {"create", "find"} /\ phase = "draining"
     \/ pend[w].at = "find" /\ BadSearch(pend[w].c)
     \/ pend[w].at = "group" /\ sub[pend[w].c] # "ready"
  /\ oops' = TRUE /\ UNCHANGED <<life, clocks, pend, ops, silent, broken, overlap>>

(* So does remove: in its own search, or, when probe has failed silently,  *)
(* with a class that is an error code or destroyed already.                *)
RemoveOops ==
  /\ \/ phase = "removing" /\ step \in Fclk /\ exported[step] /\ BadSearch(step)
     \/ phase = "draining" /\ Drained /\ "class" \notin held
  /\ oops' = TRUE /\ UNCHANGED <<life, clocks, pend, ops, silent, broken, overlap>>

SysfsStep(w) ==
  \/ ExportSet(w) \/ UnexportFind(w) \/ UnexportFree(w) \/ UnexportEnd(w) \/ StoreOops(w)
  \/ \E c \in Fclk : \/ ExportTest(w, c) \/ UnexportTest(w, c)
                     \/ \E on \in BOOLEAN : EnableTest(w, c, on)
  \/ \E ok \in BOOLEAN : \/ ExportCreate(w, ok) \/ ExportPrepare(w, ok)
                         \/ ExportData(w, ok) \/ ExportGroup(w, ok) \/ EnableDo(w, ok)

LifeNext ==
  /\ ~oops
  /\ \/ Probe \/ ProbeStep \/ ProbeFail \/ Unwind
     \/ RemoveBegin \/ RemoveClock \/ RemoveClass \/ RemoveEnd \/ RemoveOops
     \/ \E w \in Writer : SysfsStep(w)

LifeSpec == LifeInit /\ [][LifeNext]_Lifevars

----------------------------------------------------------------------------
Orderly == ~silent /\ ~broken /\ ~overlap

(* With the driver not bound nothing of what probe acquired stays behind   *)
(* but the references to the FPGA clocks, which xdevcfg_fclk_init gets and *)
(* nobody puts: every label of probe undoes what was done.  And as long as *)
(* probe reported its failures, no export failed half way and no two       *)
(* stores met that must not (see Meets), then in every interleaving of     *)
(* exports, unexports, stores to enable, remove and probe nobody follows a *)
(* null or dangling pointer, and the clocks are all off and given back     *)
(* when the driver is gone.                                                *)
ReleasedWhenUnbound ==
  /\ phase = "unbound" => held \subseteq {"fclk"}
  /\ Orderly => /\ ~oops
                /\ phase = "unbound" => \A c \in Fclk : /\ sub[c] = "none"
                                                        /\ enables[c] = 0 /\ prepares[c] = 0
============================================================================
