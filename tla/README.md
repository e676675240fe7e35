# Specifications of the LAGO acquisition system

TLA+ models of the data path and the acquisition program of `rp_ecosystem`, the
Red Pitaya electronics of the LAGO project. The centre is `projects/lago_v1_3`:
an FPGA design that digitises photomultiplier pulses, triggers on them and
writes them to memory, and the Linux program `lago` that reads them out. The
models follow the source; where code and comment disagree the model does what
the code does, and a run shows the disagreement.

## 1. The system

```
ADC -> dc_removal -> lago_trigger -> tlast_gen -> width converter -> ram_writer -> memory
                        ^   pps                                        | sts_data   ^
                     pps_gen -----------> axi_intc --> UIO --> lago.c <-+-- mmap ---+
                        ^ gpsen                                  |  reset register, levels
                        +------------- axi_cfg_register <--------+
```

| component | state | operations | interacts with |
|---|---|---|---|
| `axis_ram_writer_v1_0` | FIFO, AWVALID, WVALID, address and ID counters | one clock edge, reset | stream in, AXI3 port out, `sts_data` to software |
| `axis_lago_trigger_v1_3` | shift registers, scalers, rates, status words, state machine | one clock edge, reset | samples in, words out, `pps_i` |
| `pps_gen_v1_1` | second counter, clock count, false pulse, edge detector | clock, two resets, mode switch | trigger (PPS), interrupt controller |
| `lago.c` `read_buffer` | `current`, `position` | one call per wake-up | writer's position, buffer |
| `lago.c` `wait_for_interrupt` | what each thread waits for, `interrupted` | unmask, poll, read, IPR, IAR, position | UIO driver, interrupt controller, second thread |
| `lago.c` `main`, `zynq_io.c` | which access is next | start, initialise, acquire, stop, end, be killed | reset register, `CFG_WR_ADDR`, other processes |
| `patches/cma.c` | the one DMA buffer | ioctl, release | every process |
| `lago.c` file clock, event sums | `fileDate`, `fhout`, `mtd_*` counters | one word of the stream | `new_file`, GPS time words |
| `gps_rp.c`, `nmea_rp.c`, `uart_rp.c` | line buffer, types seen | read a line, classify, parse | serial line of the receiver |
| `bmp180.c` | handle, coefficients; the sensor's conversion | init, command, sleep, read, close | I2C bus, other processes |
| `apps/rp_tinygps` | term, parity, sentence type, uncommitted and committed values | `gps_encode` of one character | serial line |
| `adc_recorder` (four versions) | place in `main` | fixed sequence of register accesses | reset register, packetizer, writer, buffer |
| `adc_test` server | place in `main`, `limit`, `interrupted` | accept, poll, send half a ring | writer's position, client, SIGINT |
| `patches/xilinx_devcfg.c` | CTRL, LOCK, interrupt and DMA registers, `drvdata`, clocks | open, write, read, release, attributes, irq, probe, remove | device file users, sysfs users, hardware |
| `axis_fifo_v1_0` | Gray pointers, synchronisers, memory | edges of two clocks | both stream sides |
| `axi_cfg_register`, `axi_sts_register`, `axis_tlast_gen`, `axis_packetizer` | handshakes, counters | clock | the chain above |
| averagers, histograms, BRAM cores, generators | counters, addresses | clock | other projects |

What is hard to get right, and to test, in these parts (each entry is in the
`hazards` of `PROJECT.json` with its line):

* the DMA engine never looks at EMPTY and presents addresses decoded from live
  counters; it depends on a threshold and on the order of two AXI channels;
* the trigger core sends an event from a shift register that keeps moving, and
  status words from registers that keep being overwritten; its inputs (PPS,
  triggers of two channels, a stalling receiver) arrive at any clock;
* counters with two updates in one clock (scaler, rate);
* a ring buffer whose producer counts beats and whose consumer counts words;
* two threads on one UIO file, with a poll timeout as long as the PPS period;
* a PL whose registers outlive the processes, killed processes, one buffer for
  all of them, an allocation that fails unnoticed;
* a file clock that recognises hours and days by exact values;
* a pressure sensor shared by processes that wait by time alone, and a serial
  line that loses characters;
* a ring that is sent while it is written;
* a driver with read-modify-writes under different locks, timeouts with the
  DMA engine at work, bytes kept from call to call, and failures that have to
  undo what was done;
* pointers that cross a clock boundary.

## 2. Modules

| module | models | run modules and proofs |
|---|---|---|
| `RamWriter` | `axis_ram_writer.vhd` and the memory port it talks to | `MCRamWriter`, `RamWriterProofs` |
| `TriggerLogic` | discriminator, subtrigger, scaler and shift register of one channel, as operators | |
| `TriggerChannel` | one channel with its rate counter | `MCTriggerChannel`, `TriggerChannelProofs` |
| `LagoTrigger` | both channels and the packet state machine | `MCLagoTrigger`, `LagoTriggerProofs` |
| `UioInterrupt` | `wait_for_interrupt` in both threads, signal handler, UIO and interrupt controller | `MCUioInterrupt`, `UioInterruptProofs` |
| `PpsGen` | `pps_gen.vhd` | `MCUioInterrupt`, `UioInterruptProofs` |
| `AxisFifo` | controller, synchronisers and memory of `axis_fifo_v1_0` | `MCUioInterrupt`, `UioInterruptProofs` |
| `BoundedQueue` | what a FIFO promises; `AxisFifo` is shown to implement it | |
| `DaqReader` | indices of `read_buffer` against the writer's position | `MCDaqReader`, `AcquisitionProofs` |
| `DataFile` | file clock of `read_buffer`, `new_file` | `MCDaqReader`, `AcquisitionProofs` |
| `EventSums` | sums over event words in `read_buffer` | `MCDaqReader`, `AcquisitionProofs` |
| `Bmp180` | `bmp180.c` and its use by several invocations | `MCDaqReader`, `AcquisitionProofs` |
| `Gps` | `gps_rp.c`, `nmea_rp.c`, `uart_rp.c` | `MCDaqReader`, `AcquisitionProofs` |
| `TinyGps` | `gps_encode`, `gps_term_complete` of `apps/rp_tinygps` | `MCDaqReader`, `AcquisitionProofs` |
| `LagoProcess` | `main`, `init_system`, `enable_interrupt`, `cma.c` | `MCLagoProcess`, `MCPrograms`, `ProgramProofs` |
| `Recorder` | the four `adc_recorder` programs | `MCPrograms`, `ProgramProofs` |
| `AdcServer` | `adc-test-server.c` | `MCPrograms`, `ProgramProofs` |
| `Devcfg` | `xilinx_devcfg.c`: device file, transfers, interrupt, attributes | `MCDevcfg`, `DevcfgProofs` |
| `DevcfgStream` | `xdevcfg_write` as a transformer of bytes | `MCDevcfg`, `DevcfgProofs` |
| `DevcfgLife` | probe, remove, FPGA clocks | `MCDevcfg`, `DevcfgProofs` |
| `NumberLemmas` | quotient and remainder by a constant, least elements, induction over numbers; cited by the proofs | |

`MCUioInterrupt`, `MCDaqReader`, `MCPrograms` and `MCDevcfg` put several
components into one run: the variable `view` says which one a behaviour
follows, the others keep their initial states. These components do not share
modelled state (they belong to different programs, designs or layers of one
file), so nothing is lost against runs of their own. The proof
modules are grouped in the same way; every theorem in them is about the
specification of one component.

`TriggerLogic` is shared by `TriggerChannel` (rates, negative levels, proofs)
and `LagoTrigger` (packets). Definitions whose name starts with `Mut` are
deliberate slips of the definition below them; they are used by no
specification and show that the properties can fail.

### RamWriter

One step is one rising edge. `int_addr_reg` is kept as `blk` and `beat`, the
slice that `int_wlast_wire` decodes; the FIFO is a number of words.
`ALMOSTEMPTY` may be asserted at any fill (it lags) but must be asserted at or
below the threshold `AE`; `WriterAssumption` says that this covers a burst. A
first-word-fall-through FIFO36E1 with offset 15 satisfies it: the output
register holds one word more. The port (`SlaveNext`, external) accepts addresses
and data as it likes, data also before the address they belong to, which AXI3
allows. Then AWADDR, decoded from live counters, moves while AWVALID waits:
`early` counts the beats taken ahead, and the burst lands displaced by exactly
these (`BeatLandsAtPosition`). When the port takes a whole burst ahead
(`orphan`), the core does not remember that an address is owed and one is
missing for good. The port's view is not followed after that, nor after a reset
has cut a transaction (`aborted`): `Followed`. The FIFO and the counters are
followed in every case.

### TriggerLogic, TriggerChannel, LagoTrigger

Samples are small integers. In `TriggerChannel` software writes the level and the
scaler at any clock, without a reset and zero included, as `lago -s` does
(`SetLevel`, `SetScaler`; `fresh` is the clock after a write). A scaler of zero
ticks at every clock, so that the rate leaves the range the model follows
(`RATE_MAX`). `LagoTrigger` keeps both constant and the scaler at least 1: what
it says of packets is said of the time between two writes. Register widths
matter for the scaler only (`SCALER_MAX`). In `LagoTrigger` a word is a record of its kind,
its place and the trigger it describes; the history variables `got`, `run`,
`count`, `origin` record what the receiver has taken. The receiver may be not
ready at any clock; framing is stated until it first is (`stalled`), since a
stalled packet starts again from its first word and the last word of a packet
is offered for one clock only. A PPS does not come while the packet
of the previous one is sent: they are a second apart. The charge accumulators
are left out; no modelled state depends on them.

### PpsGen

The whole core; `PpsSwitch` is a clock at which software changes the mode bit,
with the consequence that the switch itself may look like a rising edge. There are
two resets: `aresetn` clears all but `false_pps`; `resetn_i`, which comes from the
pin `ext_resetn` at any moment, clears the counters and leaves the edge detector
running (`PpsExtReset`). `whole` marks a false second that began at clock zero
with the false PPS selected and that no reset has begun or cut.

### AxisFifo and BoundedQueue

A step is an edge of one clock. The pointers are Gray codes of `AWIDTH + 1`
bits as in the source, bits taken with the powers of two in `Pow2`; a Gray code changes in one bit, so an edge that samples
it during its change sees the old or the new value, which is the order of two
steps. In the source either pointer is delayed in its own clock domain before
the other side uses it, and the model does that. `wr` and `rd` are
driven as `axis_fifo.vhd` drives them, never when full or empty. The refinement
maps the words between the pointers to the queue; the abstract specification
is a property of the run. The registered `tready` and `tvalid` of the wrapper
are left out: the wrapper writes whenever it is not full and `tvalid` is high,
whatever `tready` shows, so the stream handshake itself is not one of AXI.

### DaqReader, DataFile, EventSums

`Write` advances the beat counter of the writer, `Interrupt` is the copy of it
into the global `position`, `ReadBuffer` is one call with its loop; `seen`
records which words were read. Buffer and counter both have `LIMIT`
entries, as in the code (`limit = 1024*1024`, `ADDR_WIDTH 20`).

`DataFile` takes the time words: `FirstTime` is the first call, `FalseSecond`
and `GpsSecond` the two branches of word 0x1B, each with `new_file` inside and
the second normalisation of the date (`Stamp`). `struct tm` is a record, with
minutes, hours and days of scaled lengths; `timegm` and `gmtime` are external.
`GpsSecond` takes the bytes of the word (`Bytes`), whatever they are. Nothing
guarantees times of day there: the only code that writes the register stores
the decimal number hhmmss (`lago.c:306,313`), whose bytes are something else, and
the thread it is in is not started (`lago.c:130-139`), so the register holds what
`-w` or an earlier program left. As in the code the hour is set before `new_file`
and again after it. `plain` records that the words since the file was opened were
times of day, which is what `SecondInItsFile` needs; `FilesInOrder` and `ClockKept`
hold for every word. A failed `fopen` leaves `fhout` null and the program crashes
at the next `fprintf`: no further step. `EventSums` takes the words of events by their tag.

### Bmp180

Every invocation initialises the sensor, `-t` and the acquisition measure.
`Open` and `OpenFails` are `bmp180_init` with its four failing steps,
`Command`, `Wake` and `ReadData` a measurement; `Tick` moves the time (half
milliseconds) of the sensor and of all sleepers. The sensor's conversion times
are those of its data sheet, which the waiting times of `bmp180.h` exceed by
half a millisecond. Transfers fail at any place and read as ones.

### Gps and TinyGps

`Gps`: the receiver sends three kinds of sentences every second; a sentence is
a head, fields, a star with checksum, and the end of the line. The program may
start to listen in the middle of a line, and pieces get lost, which joins lines.
`ReadPiece` and `ReadLine` are `rp_UartReadln` and a turn of the loop of
`gps_location`. The values are the age of the sentence they come from. A line
fits into the buffer (`MAX_BUF`; 256 characters in the source against at most
82 of a sentence), so only joined lines run over its end. `gps_init` ignores the
failure of `rp_UartInit`; with the port not open `rp_UartReadln` reads and sleeps
for ever (`GpsLocation(FALSE)`, "spinning"). A line that begins with its only star
makes the checksum code read past the end of the line: a crash or an error
(`PastEnd`).

`TinyGps`: tokens instead of characters. A token is a pair; the terms whose text
changes from one sentence to the next (time, latitude, date, altitude) carry the
number of their sentence, so that a value of another sentence differs from the
right one. A sentence has 15 slots: the '$', six terms with commas between them,
the star, the checksum and the end of the line. The parser gets them one by one;
up to `MAX_DROP` of a sentence get lost, any of them. The parity is the set of
tokens seen an odd number of times, so that the checksum has no collisions but
those of tokens seen twice. As in the source a comma enters the parity before
the term it ends is looked at, `_term_number` is a byte, and `COMBINE` puts the
type of the sentence at bit 5 of the number, where numbers from 32 on, which
sentences joined by lost ends can reach, overlap with it.

### LagoProcess

Each process walks through `main`; a read-modify-write of the reset register is
a read and a write. Buffers are numbered, so a stale buffer differs from a live
one. `Kill` ends a process between any two accesses; the PL keeps its registers.
`loose` marks that a killed process has left the writer running and nobody has
reset the writer since: what the properties about the writer say holds again as
soon as somebody has. `killed` is only needed for the interrupts, which a killed
initialisation leaves off for good (`DaqRuns`). The run has one process at a
time; what invocations side by side do to each other is shown by the run
`LagoProcessQuery` and bounded by the theorem `QueriesLeaveDaqRunning`.
`CmaFails` is an allocation that fails: the driver has freed the old buffer all
the same, and `main`, which does not look at the result, writes the size
(`SIZE`) as the address; the properties say that this harms that invocation
only. A failing `open` of `/dev/cma` is left out.
Commands that do not touch the modelled registers are one, "query". `-w`, which
writes any register the user names, is not modelled.

### UioInterrupt

The UIO driver and the interrupt controller are external and modelled by what
`lago.c` relies on: an interrupt masks the line and counts an event, `poll` and
`read` return when there is an event this open file has not read. The helper
thread exists only in the process that initialised the PL (`First`, `Later`). SIGINT makes
a `poll` return and restarts a `read`, as `signal()` installs handlers on Linux.

### Recorder and AdcServer

`Recorder`: each program is the sequence of its accesses (`AdcRecorder`,
`PlainRecorder`, `UioRecorder`, `OldRecorder`), run one after another on the
same registers and killed anywhere. `Flow` is a sample through `axis_packetizer`,
which passes one sample more than its register says and then none until its
reset, and `axis_ram_writer`, which stores from position zero after its own.
`AllocFails` is an allocation that fails: two of the programs do not look at the
result and aim the writer at the size (`NoBuffer`), the third exits. `Sleep` ends
when no packet moves any more: the 2^20 samples of a packet take about 0.54 s of
the second, a margin that rests on the clock and the decimation of the design.

`AdcServer`: the ring with the number of the beat in every place, the loop that
finds the complete half, and `send` beat by beat with the writer going on.
SIGINT is handled between `accept` and the end of a connection only.

### Devcfg, DevcfgStream, DevcfgLife

`Devcfg` has one step per access to a register or to state that another thread
sees. `mutex_lock` is `sem`; the attribute stores use a spinlock that protects a
single write, because each reads its register before it takes the lock, so the
read and the write are steps of their own (`SetRead`, `SetWrite`). `stale` records
that a value was written from an outdated reading. The driver does not prevent
it, and what it destroys is not followed: the properties about CTRL are stated as
long as it has not happened. The ten attributes are records of their bits; the
run has one of each shape (`enable_dap` with its three bits, a plain one, a lock
that protects it). `last` and `all` record what was stored: an attribute has to show
the value stored last, but bits of `enable_dap`, which the driver only adds to, and
lock bits stay (`Sticky`). `timedOut` records the timeout, after which the buffer is
freed with the engine at work; what that does is not followed either. A transfer does not
begin while the file is being released: `release` runs when the last reference
to the open file is gone, so no call on it can be under way or follow.

`DevcfgStream` names a byte by its position in the file. `Write` is a whole call
with header search, residue and byte order, of any size and with failures
behind the point where the residue has been replaced.

`DevcfgLife` has a step per acquisition of probe and per label of its cleanup,
and one per access that another thread can see in the stores that export,
unexport and enable an FPGA clock and in remove, none of which takes a lock.
A device is "bare" between `device_create` and `dev_set_drvdata`, and again between
`kfree` and `device_unregister`; a search through the class reads the data of
every device and follows what it finds (`BadSearch`). `Meets` names the stores that
users have to keep apart, `overlap` records that they did not. The references of
`clk_get` (`xilinx_devcfg.c:1901`) are the resource "fclk", which nothing puts. After
a silent failure of probe, remove follows the destroyed class (`RemoveOops`).

## 3. Runs

Passing runs:

| run | what it shows | bounds |
|---|---|---|
| `RamWriter` | no underflow with every behaviour of the port and resets at any clock; until a burst is taken whole ahead of its address, one address per burst, and beats land at the position, displaced by those taken ahead; words above the threshold move | bursts of 3, 3 bursts per turn, FIFO of 6, threshold 3: pauses, back-to-back bursts, a full FIFO and the wrap all occur |
| `TriggerChannel` | the scaler counter passes its limit only where a write takes it there; rate not low | window 5, levels -1 and 0 and scalers 0, 1, 2 written at any clock, samples on both sides of the levels |
| `LagoTrigger` | whole packets, the pulse in its packet, status and counter not older than the event and increasing; no short event packet under any stalls | one channel, three sample values (below the levels, between them, at the trigger level), two triggers, a packet of 5 samples: a second trigger inside a packet, a PPS in every state and stalls occur |
| `UioInterrupt` | no common sleep, no swallowed PPS, PPS served, SIGINT stops; one pulse and an exact count in every whole false second, false pulses for ever; the FIFO implements a bounded queue | with and without the helper, unbounded PPS; 10 clocks per second, counter modulo 16, which wraps when the GPS pulse is late; FIFO of 4 words, pointers of 3 bits that wrap, resets |
| `DaqReader` | no unwritten word is read; every second is in its file, files follow one another and the clock does not drift; lost pulses; own conversions and coefficients; GPS values of this call, or a crash only on a piece of a line; the loop ends; a valid fix is what was sent | 8 words; days of 12 seconds and 14 time words whose bytes have two bits, in and out of range in any order: hours and days change with and without gaps; a trigger counter modulo 5 that wraps once; two processes, two oversampling settings, two conversions, one failing transfer; 3 lost pieces, a port that did not open; 2 sentences with one lost token each |
| `LagoProcess` | one invocation at a time: own buffer and a running pipeline in every acquisition, also after kills; live buffer and clean start again after the first reset of a writer that a killed one left running; interrupts as long as none was killed; recorded packets; halves in order | 5 buffers, any command, allocations that fail, killed between any two accesses; 4 recorder invocations with and without a buffer, packets of 4; ring of 8 beats, 26 beats (three turns), 2 clients |
| `Devcfg` | mode restored on close, DMA on live buffers, completion reported when done, attributes as stored, bitstream whole, failures of probe undone, clocks given back when stores were kept apart, mutex released | two users, one setter, two transfers and two stores in any interleaving; files of 16 bytes with a header of 3 in up to 3 pieces of up to 9 bytes, both byte orders, with failures; two clocks, two writers and remove in any interleaving, 4 stores, any failure of probe and of an export |

The small sizes keep every boundary the code distinguishes: the first, a middle
and the last beat of a burst; the first and the last word of each packet; the
window before, at and behind the discriminator. The `LagoTrigger` properties
also hold in the instance with two channels and two sample values (about a
million states, `Both` and `Bits` of `MCLagoTrigger`); the run uses the smaller
one, which has subtriggers as well. The runs `LagoProcess`, `LagoProcessQuery`,
`DaqReader` and `Devcfg` are made without the deadlock check: users may stop,
programs end, and the bounds on invocations, words and operations end every
behaviour. All other runs check deadlock.

Runs that show a disagreement (TLC finds a violation; the findings in
`PROJECT.json` quote the text that is contradicted):

| run | what happens |
|---|---|
| `RamWriterBuffer` | the address counter spans 8 MB, the buffer has 4 MB: the second half of a turn is written behind it |
| `LagoTriggerPps` | a PPS during a packet is dropped, and with it a second of the file's clock |
| `DaqReaderEnd` | after the last word nothing is ever read again |
| `LagoProcessQuery` | a query takes the buffer away from a running acquisition |
| `UioInterruptBlocked` | with the helper and without PPS main can be stuck in `read`, SIGINT does not help |

Further differences between text and code that the models contain and no run
is devoted to:

* a pulse in the clock of the PPS keeps the rate from being cleared, so the next
  rate counts two seconds (`RateNext`; hence `RateNotLow` and no equality);
* the port may take data before the address, and then AWADDR moves under AWVALID
  and the burst is displaced (`early`); after a whole burst ahead an address is
  missing (`orphan`);
* a scaler that `lago -s` lowers below its count, or sets while a pulse is in the
  window, can silence the channel until the 32 bits wrap (`PassedOnlyByWrite` names
  the clocks);
* `ext_resetn` while the false pulse is high leaves the edge detector in ONE, and
  the second it begins may have no pulse (`PpsExtReset`; hence `whole`);
* a trigger during an event packet replaces the status words of that event
  (`Datapath`; hence `StatusNotOlder` and no equality);
* the pulse is at word 8 of an event (`PulseInPacket` with `TRIG = 10`), the
  comment at the discriminator says bin 4;
* `read_buffer` resumes at `current+2` and leaves a word out at every call after
  the first; it uses a position in beats as an index of words and so reads half
  of what was written; stopped at the last-but-one word it starts over although
  the position has not moved (`ReadInit`, `ReadEnd`, `Start`);
* an invocation killed while it initialises the PL leaves the interrupts disabled
  for all later ones (`DaqRuns` says so of interrupts up to the first kill);
* with a GPS the date is a fixed one, and a smaller hour than the last is taken for
  a new day; the decimal hhmmss that `lago.c:306,313` would store is read as bytes
  (`lago.c:907-918`): a minute or second out of range moves the line's hour away from
  its file, so that the next word looks like a new hour, or like a new day each
  time, and an hour of 24 or more enters the date twice (`FirstTime`, `GpsDate`,
  `GpsSecond`; hence `plain` in `SecondInItsFile`);
* the first line after a start may be a piece without `*`, on which the checksum
  code follows a null pointer, although `nmea_rp.c` says that wrong packages are
  filtered out; `rp_UartReadln` ignores the length of its buffer (`Located` has
  both as a crash on a piece of a line); a port that could not be opened makes
  `gps_location` loop for ever (hence `Completes` about an open port);
* `gpsstrcmp` takes an empty first term for GPRMC, and a sentence with an empty
  field commits the value of an earlier one (`TypeOf`, `FixAsSent` about the
  fields that are there);
* bmp180: main works on the null handle that a failed init returns, and processes
  take each other's conversions (`OpenFails`, `clean`);
* after an ignored failure of the CMA ioctl two recorders aim the writer at the size
  they asked for (`AllocFails`; hence `failed` in `RecordSound`);
* a server whose client is too slow sends data that was overwritten, and a SIGINT
  before or after a connection leaves the writer running into a freed buffer
  (`overrun`, `Sigint`);
* devcfg: an error counts only if all error flags are set at once; probe returns 0
  after a failed class_create or device_create, and remove then follows the
  class that is gone; the clk_get references are never put; `enable_dap` "sets the
  DAP bits ... with the given value" (`xilinx_devcfg.c:644-645`), but 1 and then 2
  shows 3, and 0 changes nothing; a sync word in the last four bytes of the first
  piece is not found; a failed write keeps its residue; export marks the clock
  before it can fail, and a search during or after it follows missing data (`Irq`,
  `Unreported`, `RemoveOops`, `Sticky`, `SyncAt`, `Write`, `ExportSet`, `StoreOops`).

What the history variables leave out is not promised: `stale`, `timedOut`, `overlap`,
`broken`, `silent`, `aborted`, `orphan`, `loose`, `disturbed`, `clean` (of `Bmp180`),
`joined` and `overrun` each record that something happened which the code does not
prevent, and the properties that name one say what holds without it. They show
that nothing else breaks the promise, not that the recorded event is harmless.

### Fairness

* `RamWriter`: the clock runs; strong fairness for a port that accepts what is
  offered and for an ALMOSTEMPTY flag that is eventually released. The code
  relies on both, the AXI protocol and the primitive grant them.
* `PpsGen`: weak fairness of the clock.
* `Gps`: the receiver keeps sending and the program keeps reading (weak fairness
  of the two reading steps); `rp_UartReadln` polls without a timeout, so nothing
  else ends the call. With a port that did not open nothing ends it, and nothing is
  promised. Losses are bounded, as a line that loses everything ends
  nothing.
* `Devcfg`: a thread inside the driver keeps running (it spins or waits for a
  time, never for another user), and INIT follows PROG_B. Entering the driver
  is not fair, nor are the DMA engine and its interrupt: the timeout covers them.
* `DaqReader` (only for `LeavesTheEnd`): data, interrupts and calls keep coming.
* `UioInterrupt`: threads are scheduled and interrupts taken (weak). Strong
  fairness of `read`: the kernel wakes every sleeper at every event, so a
  sleeping thread does not lose for ever against one that still has to return
  from `poll`. PPS are not assumed to be fair; `StopsWithPps` names the case in
  which they keep coming, as they do with the false PPS.

## 4. Proofs

All proofs are checked by TLAPS with Z3, Zenon and LS4. The theorems hold for
every value of the constants that the named assumption of the module allows;
these assumptions only say what a size has to be for the code to make sense
(a ring of at least four words, a packet of at least one sample, a threshold
that covers a burst), and TLC evaluates them in the runs. The bounds that end
a run (`MAX_...`) are constants too, so a theorem holds for every one of them.
Few of the properties are inductive as they stand; each part below names what
was missing.

### Gates

* `RamWriterProofs` (`WriterAssumption`). `NoUnderflow` does not hold from one
  clock to the next by itself: a burst may be in its middle. `FifoInv` adds
  `BurstCovered`, the words a burst still needs are in the FIFO, which the
  threshold establishes at the start and at the last beat. `AxiInv` adds the
  relation to the port's queue while it is `Followed`: either no address is open
  and the beats taken of the burst are all ahead of the one that waits, or the one
  open address is that of the burst, displaced by the beats taken ahead. From it
  follow `OneAddressPerBurst` and `BeatLandsAtPosition`. `PositionCountsWords` is about the flow: a
  clock out of reset moves the status register by the words it takes out of the
  FIFO, modulo the ring, also where a burst and the ring end. `DaqReader` models
  the writer by such a counter, so this ties the two modules together.
* `TriggerChannelProofs` (`ChannelAssumption`, `LogicAssumption`), for every set of
  levels and scalers, zero included. While the registers stand still a full scaler
  means the trigger was one clock ago (`TickFollowsTrigger`); its hit has then moved
  to `TRIG-1`, where the discriminator needs a sample below the level (`HitMoves`,
  `NoTriggerOnHit`), so counting and clearing do not compete. `ScalerKept` draws the
  conclusion for a step: the counter passes the scaler only where a write takes it
  there. `RateNotLow` is inductive together with that.
* `LagoTriggerProofs` (`TriggerAssumption`, any set of channels). Four results
  with an invariant each. `FrameInv` says for each state of the machine what the
  offered word is and that it continues what was taken. `SampleInv` relates
  `run` to the write counter and holds with stalls too, since the counter starts
  again from zero. `PulseInv` rests on `TickCaused`: a tick means that the pulse
  is one place behind the discriminator, which is where the shift register and
  the first word sent meet. `StatusInv` numbers triggers and says that a packet
  is sent for a later one than the last packet taken.
* `UioInterruptProofs`, `OnePulsePerSecond`: for every frequency and counter width.
  `SecondInv` gives the detector's state for every clock of a whole second; what
  happened before (GPS pulses, mode switches, both resets) is forgotten at its
  first clock, since the false pulse is shorter than the second (`PulseWidths`).
* `UioInterruptProofs`, `FalseCountFits`: with the false PPS selected and both resets
  at any moment the clock count stays within `CLK_FREQ + 2`, so the 27 bits of
  `clk_cnt_pps` suffice for 125 MHz. The two clocks more are needed: `resetn_i` with
  the false pulse high.
* `UioInterruptProofs`, `FifoImplementsQueue`: every behaviour of the FIFO is,
  under the mapping of section 2, one of `BoundedQueue` with 2^AWIDTH words.
  `FifoInv` counts the moves of all six pointers without wrapping:
  `r2 <= r1 <= r <= w2 <= w1 <= w <= r2 + 2^AWIDTH`, each register being the
  Gray code of its count. Safety of the delayed pointers is in this chain: the
  writer sees an old read pointer and stops too early rather than too late, and
  the reader likewise. That the comparisons of codes decide the comparisons of
  counts needs the codes of 0..2^(AWIDTH+1)-1 to be distinct, the test for full
  to recognise a distance of 2^AWIDTH (`FullWhen`), and addresses to agree
  exactly for counts that are equal modulo 2^AWIDTH (`AddressSame`,
  `AddressDistinct`). These are facts about all bits of a number and are proved
  by induction over the bits with `Inductive` of `NumberLemmas`, which states
  induction about a set instead of a predicate; in the same way `Powers` shows
  that the recursive function `Pow2` exists. The prover has no facts about `^`,
  which is why the module uses that function.
* `UioInterruptProofs`, `PointersSeenWhole` and `GrayDecoded` justify what the
  module `AxisFifo` takes for granted. A step there reads the other side's
  pointer as one value. In the hardware each bit is sampled on its own, while
  the pointer moves; `Sampled` is the set of values that can result.
  It has two elements at most, since counting up flips one bit of the Gray code
  (`GrayOneBit`: below the lowest zero of the number all bits flip, so their
  differences stay; `BitOfNext`, `OnesUp`), also from the last number to zero.
  Reset is excepted: it may change several bits and is taken by both sides
  together. `GrayDecoded` shows that the chain of exclusive ors
  `bin <= ptr xor ('0' & bin(N downto 1))` computes what `Bin` chooses.

### The acquisition program

* `UioInterruptProofs`, `NoPpsSwallowed` and `NeverAllAsleep`: inductive together
  with the domain of `pc`; `PlainStep` treats all steps that touch neither the
  event nor the status bit in one lemma.
* `AcquisitionProofs`:
  * `NoPhantomWordRead` (`ReaderAssumption`): in the writer's first turn the
    position in the program is not ahead of the writer and the last word read is
    behind it, so the branch that reads to the end of the buffer is not taken
    before the writer has come round.
  * `LostPulsesCounted` (`SumsAssumption`): the counter kept is the last one
    sent; a kept zero hides one gap.
  * `SecondsInTheirFiles`, `FileClockKept`, `FilesFollowTime` (`FileAssumption`), for
    every set of words and every length of a byte, a minute, an hour and a day.
    `FileInv` says that the date is normal, that the open file is of its hour with
    the PC's clock or times of day and never of a later hour, and what time of
    day the date is. The arithmetic is that of `timegm` and `gmtime` (`TimeNormal`,
    `NormalTime`). A new file comes from a different hour, and a smaller hour adds
    a day before the file is named, so the name grows (`OpensLater`), also where
    bytes out of range were carried into the hour or the day.
  * `MeasuresOwnConversion`, `InitIsSound` (`BmpAssumption`, any number of
    processes): while a process that was not disturbed waits, either its
    conversion runs and ends before its sleep, or its result is there. The
    waiting times enter only by being longer than the conversions (`WaitsLonger`).
  * `LocationSound` (`GpsAssumption`): every second a value is older than it
    should be, and every foreign piece in the buffer, is paid for by a loss
    (`Paid`, with `Dirt` what the line being read has cost so far). A buffer
    shorter than a line refutes it, hence `MAX_BUF >= 3`. A line that begins with
    its only star, read past its end, has cost a loss or is the first one.
  * `FixesAsSent`, for any number of sentences each of which loses at most one
    token (`MAX_DROP <= 1`). The bound is not for convenience: two lost tokens of
    the same kind cancel in the parity, as two equal characters do in the
    checksum of the source, and the statement is false. `TinyInv` says of every
    slot of the sentence that either nothing is missing and parser and sender
    agree on term and parity (`Aligned`), or one token is missing and the parity
    differs from the sentence's by it (`Off`), or the parser still is in an
    earlier sentence whose '$' or end was lost (`Alien`); then the parity holds a
    term that only the earlier sentence has (`Marked`), and the checksum that
    comes cannot agree with it.

### Programs and processes

`ProgramProofs`:

* `DaqBufferKept`, `NoDmaIntoFreedBuffer`, `PipelineRuns`, `WriterStartsClean`
  (`ProcessAssumption`) are about invocations one after another, `Proc = {p}`.
  With two at a time the first is false, which the run `LagoProcessQuery` shows;
  the program takes no measures against it. `AloneInv` has the value a
  read-modify-write is about to store, whose buffer the writer is aimed at, and
  what each place of the access lists has achieved, from an arbitrary state of
  the registers after a kill, and when the writer is reset again (`loose`).
* `QueriesLeaveDaqRunning` says how far the program does work with several
  invocations, any number of them: `DaqRuns` holds as long as at most one of them
  at a time is between the start of an initialisation or acquisition and its end
  (`Undisturbed`). Queries are free to come and go, to be killed, and to take the
  buffer away, which `DaqRuns` does not speak of. `Together` has for each process
  the value it is about to store and what it has achieved, and in `Awake` who
  will enable the interrupts if they are not. Without `Undisturbed` it is false:
  an acquisition may find the register nonzero while another invocation is still
  initialising and has not enabled the interrupts, or both find it zero and the
  slower one resets the pipeline of the other. Nothing in the program excludes
  that.
* `RecordIsOwn` (`RecorderAssumption`): `RecorderInv` relates the part of the list
  that remains (`Remains`) to registers and buffer; all that a previous program
  can have left is a packetizer that is done, unless it was killed (`Quiet`), and
  samples go astray only in packets of programs that were killed or had no
  buffer (`Blame`).
* `ClientGetsAll` (`ServerAssumption`): `Aligned` keeps the number of beats sent at
  a half of the ring, `InRing` keeps the writer less than a turn ahead until
  `overrun`.

### The devcfg driver

`DevcfgProofs`, for any number of users and attribute setters:

* `NoDmaFromFreedBuffer`, `NoEarlyReport`: `TransferInv`. At most one thread is
  past the semaphore (`OneHolder`); up to the first timeout the engine is busy
  only with the transfer of that thread, and the done flag is clear while it is
  being set up (`OneTransfer`). A thread between open and release of another one
  would refute it; that it cannot be is the guard of `TransferBegin`.
* `AttributesKept`: the registers agree with the record of what was stored
  (`Expected`), through opens, resets and stores to other attributes; a pending store changes only the bits of its attribute, and in
  the lock register none that is not set already (`StoresPending`).
* `PlConnectedWhenClosed`: `ModeHeld`, isolation and PCAP_PR belong to an open
  device of the right kind that is not being closed.
* `NothingLeftBehind` (`LifeAssumption`): `Acquired` gives for every place of probe
  and of its cleanup the set of resources held. `Kept` is about the clocks while
  stores were kept apart: `Fits` gives for every place of a store the device, flag
  and counts of its clock, `Settled` those of a clock nobody works on, `Apart` says
  which two stores can be under way together, and `PhaseKept` that remove meets
  none. From it no search meets a bare device and no pointer dangles.
* `FileReachesPcap` (`StreamAssumption`): `InFile` describes the bytes sent and
  the residue by their places in the file, with and without exchanged byte
  order, for every header, file and split into calls.

### Only model-checked

* The liveness properties `WriterProgress`, `PpsServed`, `StopsWithPps`,
  `FalsePpsForever`, `Completes` and `MutexReleased`: fairness and ENABLED are out
  of reach of the prover.
* The properties of the runs that show a disagreement, which do not hold.

## 5. Not modelled

* Vendor primitives (FIFO36E1 beyond its flags, the width converter, the
  interrupt controller, the ACP port), metastability of the unsynchronised PPS
  input, LEDs, build scripts. Write responses are ignored by the code and the
  model alike.
* Arithmetic: compensation of pressure and temperature, voltages, distances and
  courses, decimal fields, the filters. Its values do not steer the control
  that is modelled, and its widths are out of TLC's reach.
* Left out of modelled components: charge accumulators of the trigger core; -w;
  errors of `write` and `read` on the UIO file; FPGA clock rates, `prog_done` and
  the reference clock of the devcfg driver; the AXI-Stream wrapper of
  `axis_fifo`; statistics and the main program of `rp_tinygps`.
* Cores outside the LAGO chain (averagers, histograms, block RAM, generators),
  older versions of modelled cores, the AXI register files (a register access is
  one step in the programs' modules), straight-line test programs and the copies
  of modelled code under `apps/`.

## 6. Plan

1. Proofs: the type invariants of the modules other than `RamWriter` are part
   of the inductive invariants and could be theorems of their own; what an
   acquisition still gets from its buffer while queries free it.
2. `DaqPipeline`: `axis_tlast_gen`, the width converter, `RamWriter` and
   `DaqReader` composed, with words that keep their identity.
3. `AxiRegisters`: handshakes and byte strobes as the bus below `LagoProcess`.
4. Packetizer, decimator, averagers and block RAM cores as one family of
   handshake machines.
