------------------------------- MODULE Bmp180 -------------------------------
(***************************************************************************)
(* lago_v1_3/src/bmp180.c and its use by lago.c: the sensor on the I2C bus *)
(* is initialised by every invocation and measured by the ones with -t and *)
(* by the acquisition, each in its own process.  A measurement is a start  *)
(* command, a sleep and one or three reads; nothing locks the sensor.      *)
(*                                                                         *)
(* Time is in half milliseconds.  A value read is taken as the conversion  *)
(* it comes from; the compensation arithmetic is left out.                 *)
(***************************************************************************)
EXTENDS Integers, Sequences

CONSTANTS User,        \* processes
          Oss,         \* oversampling settings used
          MAX_FAULT,   \* bound on failing I2C transfers
          MAX_CONV     \* bound on the conversions started

ASSUME BmpAssumption == Oss \subseteq 0..3 /\ MAX_FAULT \in Nat /\ MAX_CONV \in Nat

VARIABLES
  upc,       \* per process: "off", "ready", "wait", "read" or "crashed"
  held,      \* per process: what bmp180_init has acquired and not given back
  noAddr,    \* history, per process: ioctl(I2C_SLAVE) failed
  coef,      \* per process: calibration coefficients read, signed and unsigned
  oss,       \* per process: bmp->oss
  asked,     \* per process: kind of the measurement under way
  nap,       \* per process: rest of its usleep
  data,      \* per process: conversions the bytes read so far come from
  clean,     \* history, per process: no failure, and no start of another process
  eeprom,    \* sensor: msb and lsb of a coefficient
  conv,      \* sensor: conversion under way, or none
  left,      \* sensor: rest of its time
  result,    \* sensor: conversion in the data registers
  n, faults  \* bounds

user    == <<upc, held, noAddr, coef, oss, asked, nap, data, clean>>
sensor  == <<eeprom, conv, left, result>>
Bmpvars == <<user, sensor, n, faults>>

Idle == [kind |-> "none", oss |-> 0, id |-> 0]
NoCoef == <<0, 0>>

BmpInit ==
  /\ upc = [u \in User |-> "off"] /\ held = [u \in User |-> {}] /\ noAddr = [u \in User |-> FALSE]
  /\ coef = [u \in User |-> NoCoef] /\ oss = [u \in User |-> 0]
  /\ asked = [u \in User |-> Idle] /\ nap = [u \in User |-> 0]
  /\ data = [u \in User |-> <<>>] /\ clean = [u \in User |-> FALSE]
  /\ eeprom \in {<<0, 255>>, <<128, 1>>, <<255, 255>>}
  /\ conv = Idle /\ left = 0 /\ result = Idle /\ n = 0 /\ faults = 0

----------------------------------------------------------------------------
(* i2c_smbus_read_word_data has the first byte as the low one; a failure   *)
(* reads as ones.                                                          *)
ReadWord(ok) == IF ok THEN eeprom[1] + 256 * eeprom[2] ELSE 65535

\* Slip: the sign is taken of the bytes before they are exchanged.
MutEpromReg(w, sign) ==
  LET v == (w % 256) * 256 + w \div 256
  IN IF sign /\ w > 32767 THEN v - 65536 ELSE v

EpromReg(w, sign) ==
  LET v == (w % 256) * 256 + w \div 256
  IN IF sign /\ v > 32767 THEN v - 65536 ELSE v

(* bmp180_read_eprom: signed and unsigned coefficients. *)
ReadEprom(ok) == <<EpromReg(ReadWord(ok), TRUE), EpromReg(ReadWord(ok), FALSE)>>

(* bmp180_init_error_cleanup *)
Cleanup(h) == h \ {"bmp", "path"}

(* bmp180_init up to the step that fails, then what main does with the     *)
(* result: bmp180_dump_eprom and bmp180_set_oss, for any command.          *)
Acquired == [malloc |-> {}, path |-> {"bmp"}, open |-> {"bmp", "path"}, addr |-> {"bmp", "path", "file"}]

OpenFails(u, at) ==
  /\ upc[u] = "off" /\ upc' = [upc EXCEPT ![u] = "crashed"]
  /\ held' = [held EXCEPT ![u] = IF at = "malloc" THEN {} ELSE Cleanup(Acquired[at])]
  /\ noAddr' = [noAddr EXCEPT ![u] = at = "addr"]
  /\ UNCHANGED <<coef, oss, asked, nap, data, clean, sensor, n, faults>>

Open(u, o, ok) ==
  /\ upc[u] = "off" /\ upc' = [upc EXCEPT ![u] = "ready"]
  /\ held' = [held EXCEPT ![u] = {"bmp", "path", "file"}]
  /\ coef' = [coef EXCEPT ![u] = ReadEprom(ok)]
  /\ oss' = [oss EXCEPT ![u] = o]
  /\ faults' = faults + (IF ok THEN 0 ELSE 1) /\ faults' <= MAX_FAULT
  /\ clean' = [clean EXCEPT ![u] = FALSE]
  /\ UNCHANGED <<noAddr, asked, nap, data, sensor, n>>

----------------------------------------------------------------------------
\* Slip: one waiting time for all commands.
MutWait(kind, o) == 10

(* usleep of the raw readings, and the sensor's conversion times. *)
Wait(kind, o) == IF kind = "temp" THEN 10 ELSE <<10, 16, 28, 52>>[o + 1]
Converts(kind, o) == IF kind = "temp" THEN 9 ELSE <<9, 15, 27, 51>>[o + 1]

(* bmp180_read_raw_temperature, bmp180_read_raw_pressure: the command.     *)
Command(u, kind, ok) ==
  LET c == [kind |-> kind, oss |-> IF kind = "temp" THEN 0 ELSE oss[u], id |-> n + 1]
  IN /\ upc[u] = "ready" /\ n < MAX_CONV /\ n' = n + 1
     /\ upc' = [upc EXCEPT ![u] = "wait"] /\ asked' = [asked EXCEPT ![u] = c]
     /\ nap' = [nap EXCEPT ![u] = Wait(kind, oss[u])] /\ data' = [data EXCEPT ![u] = <<>>]
     /\ IF ok THEN conv' = c /\ left' = Converts(kind, oss[u]) ELSE UNCHANGED <<conv, left>>
     /\ faults' = faults + (IF ok THEN 0 ELSE 1) /\ faults' <= MAX_FAULT
     /\ clean' = [v \in User |-> IF v = u THEN ok ELSE clean[v] /\ ~ok]
     /\ UNCHANGED <<held, noAddr, coef, oss, eeprom, result>>

(* Time passes for the sensor and for all that sleep. *)
Tick ==
  /\ \E u \in User : upc[u] = "wait"
  /\ nap' = [u \in User |-> IF nap[u] > 0 THEN nap[u] - 1 ELSE 0]
  /\ left' = IF left > 0 THEN left - 1 ELSE 0
  /\ IF left = 1 THEN result' = conv /\ conv' = Idle ELSE UNCHANGED <<result, conv>>
  /\ UNCHANGED <<upc, held, noAddr, coef, oss, asked, data, clean, eeprom, n, faults>>

Wake(u) == /\ upc[u] = "wait" /\ nap[u] = 0 /\ upc' = [upc EXCEPT ![u] = "read"]
           /\ UNCHANGED <<held, noAddr, coef, oss, asked, nap, data, clean, sensor, n, faults>>

(* One word of temperature, or msb, lsb and xlsb of pressure one by one.   *)
(* With the last one the value is computed and the measurement is over.    *)
Transfers(kind) == IF kind = "temp" THEN 1 ELSE 3

ReadData(u, ok) ==
  /\ upc[u] = "read" /\ Len(data[u]) < Transfers(asked[u].kind)
  /\ data' = [data EXCEPT ![u] = Append(@, IF ok THEN result ELSE Idle)]
  /\ faults' = faults + (IF ok THEN 0 ELSE 1) /\ faults' <= MAX_FAULT
  /\ clean' = [clean EXCEPT ![u] = @ /\ ok]
  /\ upc' = [upc EXCEPT ![u] = IF Len(data'[u]) = Transfers(asked[u].kind) THEN "ready" ELSE "read"]
  /\ UNCHANGED <<held, noAddr, coef, oss, asked, nap, sensor, n>>

(* bmp180_close, by -t; the next invocation starts anew. *)
CloseBmp(u) ==
  /\ upc[u] = "ready" /\ upc' = [upc EXCEPT ![u] = "off"] /\ held' = [held EXCEPT ![u] = {}]
  /\ data' = [data EXCEPT ![u] = <<>>] /\ asked' = [asked EXCEPT ![u] = Idle]
  /\ coef' = [coef EXCEPT ![u] = NoCoef] /\ clean' = [clean EXCEPT ![u] = FALSE]
  /\ UNCHANGED <<noAddr, oss, nap, sensor, n, faults>>

BmpNext ==
  \/ Tick
  \/ \E u \in User :
       \/ \E at \in {"malloc", "path", "open", "addr"} : OpenFails(u, at)
       \/ Wake(u) \/ CloseBmp(u)
       \/ \E ok \in BOOLEAN : \/ \E o \in Oss : Open(u, o, ok)
                              \/ \E kind \in {"temp", "pressure"} : Command(u, kind, ok)
                              \/ ReadData(u, ok)

BmpSpec == BmpInit /\ [][BmpNext]_Bmpvars

----------------------------------------------------------------------------
(* All bytes of a value come from the conversion that was started for it,  *)
(* with its kind and oversampling, unless a transfer failed or another     *)
(* process started a conversion in between.                                *)
OwnConversion ==
  \A u \in User : clean[u] /\ upc[u] \in {"read", "ready"}
     => \A i \in 1..Len(data[u]) : data[u][i] = asked[u]

(* A coefficient as the sensor stores it, and its value as a short. *)
Stored == 256 * eeprom[1] + eeprom[2]
Short(v) == IF v >= 32768 THEN v - 65536 ELSE v

(* bmp180_init either gives back all it acquired, the file excepted when   *)
(* the address could not be set, or has the coefficients as the sensor     *)
(* stores them, in two's complement or unsigned.                           *)
InitSound ==
  \A u \in User :
    /\ upc[u] = "crashed" => held[u] = IF noAddr[u] THEN {"file"} ELSE {}
    /\ upc[u] = "ready" /\ faults = 0 => coef[u] = <<Short(Stored), Stored>>
============================================================================
