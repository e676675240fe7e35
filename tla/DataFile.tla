------------------------------ MODULE DataFile ------------------------------
(***************************************************************************)
(* lago_v1_3/src/lago.c: the clock that read_buffer keeps for the data     *)
(* files from the time words it finds, and new_file.  Which words are      *)
(* found is the matter of DaqReader, the words of events that of EventSums.*)
(*                                                                         *)
(* Texts and voltages are left out; struct tm is a record of day, hour,    *)
(* minute and second, with scaled lengths.                                 *)
(***************************************************************************)
EXTENDS Integers

CONSTANTS
  SECONDS, MINUTES, HOURS,   \* lengths of a minute, an hour, a day
  BYTE,        \* values of a byte of the time word: 256
  Word,        \* what the register CFG_TIME may hold
  MAX_SECOND   \* bound on the time words

ASSUME FileAssumption ==
  {SECONDS, MINUTES, HOURS, BYTE, MAX_SECOND} \subseteq Nat \ {0} /\ Word \subseteq Nat

VARIABLES
  fToStdout, falseGPS,   \* where the data goes; whose clock is used
  fFirstTime,            \* no call of read_buffer so far
  fileDate,              \* global, as broken-down time
  fhout,                 \* Null, Stdout, or the day and hour of the file
  line,                  \* last "# x h" line: its time, where it went, its word
  seconds,               \* mtd_seconds
  started,               \* history: the clock at the first call
  plain                  \* history: the words used since the file was opened
                         \* were times of day

Filevars == <<fToStdout, falseGPS, fFirstTime, fileDate, fhout, line, seconds, started, plain>>

DAY == HOURS * MINUTES * SECONDS
Null == <<>>
Stdout == <<"stdout">>
None == [time |-> -1, to |-> Null, word |-> 0]

(* timegm, of fields that may lie outside their ranges, and gmtime. *)
timegm(d) == ((d.day * HOURS + d.hour) * MINUTES + d.min) * SECONDS + d.sec
gmtime(t) == [day  |-> t \div DAY,
              hour |-> (t \div (MINUTES * SECONDS)) % HOURS,
              min  |-> (t \div SECONDS) % MINUTES,
              sec  |-> t % SECONDS]

FileInit ==
  /\ fToStdout \in BOOLEAN /\ falseGPS \in BOOLEAN /\ fFirstTime = TRUE
  /\ fileDate = gmtime(0) /\ fhout = Null /\ line = None /\ seconds = 0
  /\ started = 0 /\ plain = TRUE

(* new_file: the normalised date, and fhout on the file it names or on     *)
(* standard output.  fopen may fail, and the next fprintf crashes.         *)
new_file(d, ok) ==
  [date |-> IF fToStdout THEN d ELSE gmtime(timegm(d)),
   out  |-> IF fToStdout THEN Stdout
            ELSE IF ok THEN <<gmtime(timegm(d)).day, gmtime(timegm(d)).hour>> ELSE Null]

(* The first call of read_buffer.  Without a GPS the time is the PC's;     *)
(* with one it is a fixed moment, 55 s and 55 min past 10, until the first *)
(* time word.                                                              *)
FirstTime(now, ok) ==
  /\ fFirstTime /\ fFirstTime' = FALSE
  /\ started' = IF falseGPS THEN now
                ELSE timegm([day |-> 1, hour |-> 1 % HOURS, min |-> MINUTES - 1, sec |-> SECONDS - 1])
  /\ LET n == new_file(gmtime(started'), ok) IN fileDate' = n.date /\ fhout' = n.out
  /\ UNCHANGED <<fToStdout, falseGPS, line, seconds, plain>>

Running == ~fFirstTime /\ fhout # Null

----------------------------------------------------------------------------
\* Slip: the change of the day is not noticed.
MutGpsDate(d, h) == [d EXCEPT !.hour = h]

(* A smaller hour than the last one means that a day has passed. *)
GpsDate(d, h) == [d EXCEPT !.day = IF d.hour > h THEN @ + 1 ELSE @, !.hour = h]

(* The line of the new second, with the clock normalised once more. *)
Stamp(w) == /\ line' = [time |-> timegm(fileDate'), to |-> fhout', word |-> w]
            /\ seconds' = seconds + 1 /\ seconds < MAX_SECOND

\* Slip: the seconds begin again and the minute is not carried.
MutFalseDate(d) == [d EXCEPT !.sec = (@ + 1) % SECONDS]

(* Word 0x1B.  The false clock is advanced by one second. *)
FalseDate(d) == [d EXCEPT !.sec = @ + 1]

HourOver(d) == d.sec = SECONDS /\ d.min = MINUTES - 1

FalseSecond(ok) ==
  LET d == FalseDate(fileDate)
      n == IF HourOver(d) /\ ~fToStdout THEN new_file(d, ok)
           ELSE [date |-> gmtime(timegm(d)), out |-> fhout]
  IN /\ Running /\ falseGPS /\ fileDate' = n.date /\ fhout' = n.out
     /\ Stamp(0)   \* the word is printed, not used
     /\ UNCHANGED <<fToStdout, falseGPS, fFirstTime, started, plain>>

\* Slip: a new file only when a day has passed.
MutNewHour(d, h) == d.hour > h

NewHour(d, h) == d.hour # h

(* The bytes of the time word that are used as hour, minute and second.    *)
(* thread_isr would store the decimal number hhmmss in the register, but   *)
(* it is never started: the word is whatever was written with -w, or 0.    *)
Bytes(w) == [hour |-> (w \div (BYTE * BYTE)) % BYTE, min |-> (w \div BYTE) % BYTE, sec |-> w % BYTE]

TimeOfDay(w) == Bytes(w).hour < HOURS /\ Bytes(w).min < MINUTES /\ Bytes(w).sec < SECONDS

(* The hour is set before new_file, which normalises the date, and again   *)
(* after it with the minute and the second.                                *)
GpsSecond(w, ok) ==
  LET b == Bytes(w)
      new == NewHour(fileDate, b.hour) /\ ~fToStdout
      d == GpsDate(fileDate, b.hour)
      n == IF new THEN new_file(d, ok) ELSE [date |-> d, out |-> fhout]
  IN /\ Running /\ ~falseGPS /\ fhout' = n.out
     /\ fileDate' = gmtime(timegm([n.date EXCEPT !.hour = b.hour, !.min = b.min, !.sec = b.sec]))
     /\ Stamp(w)
     /\ plain' = (TimeOfDay(w) /\ (new \/ plain))
     /\ UNCHANGED <<fToStdout, falseGPS, fFirstTime, started>>

FileNext ==
  \/ \E ok \in BOOLEAN : \/ \E now \in 0 .. DAY - 1 : FirstTime(now, ok)
                         \/ FalseSecond(ok)
                         \/ \E w \in Word : GpsSecond(w, ok)

FileSpec == FileInit /\ [][FileNext]_Filevars

----------------------------------------------------------------------------
(* Every line with the time of a second is in the file whose name has the  *)
(* day and the hour of that time: with the false clock always, with the    *)
(* words of a GPS while they are times of day.  (Another word moves the    *)
(* hour or the day after the file was chosen.)                             *)
SecondInItsFile ==
  line # None /\ line.to \notin {Null, Stdout} /\ (falseGPS \/ plain) =>
     line.to = <<gmtime(line.time).day, gmtime(line.time).hour>>

(* A file is named after its day and hour; the next one after a later one. *)
LaterFile(f, g) == g[1] > f[1] \/ (g[1] = f[1] /\ g[2] > f[2])

(* Within a run a data file that was left is never opened again, so what   *)
(* new_file appends to ("ab") is one stretch of the run: through hours and *)
(* days, and whatever the words of the register are.                       *)
FilesInOrder ==
  [][fhout' # fhout /\ {fhout, fhout'} \cap {Null, Stdout} = {} => LaterFile(fhout, fhout')]_Filevars

(* The clock of the file does not drift: without a GPS it is the PC's time *)
(* at the start plus one second per PPS, and with one its time of day is   *)
(* what the bytes of the word make, whatever was carried into the day.     *)
ClockKept ==
  line # None =>
    IF falseGPS THEN line.time = started + seconds
    ELSE LET b == Bytes(line.word)
         IN line.time % DAY = ((b.hour * MINUTES + b.min) * SECONDS + b.sec) % DAY
============================================================================
