-------------------------------- MODULE Gps --------------------------------
(***************************************************************************)
(* lago_v1_3/src/uart_rp.c, nmea_rp.c and gps_rp.c: gps_location reads     *)
(* lines from the serial port until it has seen a GPGGA and a GPRMC        *)
(* sentence.  The receiver sends, in every second, one sentence of each    *)
(* type in Order; a sentence comes in four pieces: its type with the time, *)
(* the other fields, '*' with the checksum, and the end of the line.       *)
(* Reading begins at any piece (gps_init flushes the port), and pieces get *)
(* lost while the program sleeps between two attempts to read.             *)
(*                                                                         *)
(* Positions, and the conversion of degrees, are left out.                 *)
(***************************************************************************)
EXTENDS Integers, Sequences

CONSTANTS MAX_LOSS,   \* bound on the pieces lost
          MAX_BUF     \* pieces that fit into the buffer of gps_location

ASSUME GpsAssumption == MAX_LOSS \in Nat /\ MAX_BUF \in Nat /\ MAX_BUF >= 3

VARIABLES
  at,        \* receiver: place in Order, and piece, of what comes next
  second,    \* receiver: parity of the second
  loc,       \* "idle", "reading", "spinning", "done" or "crashed"
  buffer,    \* pieces of the line so far
  status,    \* types seen in this call
  times, date,   \* coord: seconds since the sentence it was taken from
  synced,    \* history: a line has been read since gps_init
  losses,    \* history: pieces lost
  joined     \* history: two lines of this call were read as one

Gpsvars == <<at, second, loc, buffer, status, times, date, synced, losses, joined>>

Order == <<"GPGGA", "GPGSV", "GPRMC">>
Piece == <<"head", "fields", "star", "end">>

Unset == -1    \* not set in this call
Junk  == -2    \* parsed from the fields of another sentence
Older(t) == IF t >= 0 /\ t < MAX_LOSS + 3 THEN t + 1 ELSE t

GpsInit == /\ at \in (1 .. Len(Order)) \X (1 .. Len(Piece)) /\ second = 0
           /\ loc = "idle" /\ buffer = <<>> /\ status = {}
           /\ times = Unset /\ date = Unset
           /\ synced = FALSE /\ losses = 0 /\ joined = FALSE

----------------------------------------------------------------------------
\* Slip: the checksum is not compared.
MutValidChecksum(b) == TRUE

(* rp_NmeaValidChecksum: right for the pieces of one sentence, from its    *)
(* first to its '*'.                                                       *)
ValidChecksum(b) ==
  Len(b) >= 3 /\ \A i \in 1..3 : b[i].piece = Piece[i] /\ b[i].of = b[1].of

(* Without a '*' it follows a null pointer.  It skips the first character  *)
(* and sums up to the next '*': when the only one of the line is that      *)
(* first character, it reads past the end of the line, until it meets a    *)
(* '*' in what an earlier line, or the stack, left there, or a page that   *)
(* is not mapped.                                                          *)
NoStar(b) == \A i \in 1 .. Len(b) : b[i].piece # "star"
PastEnd(b) == \A i \in 1 .. Len(b) : b[i].piece = "star" <=> i = 1

(* rp_NmeaGetMessageType: the type is looked for in the whole line. *)
Mentions(b, type) == \E i \in 1 .. Len(b) : b[i].piece = "head" /\ b[i].of[1] = type
MessageType(b) == IF ~ValidChecksum(b) THEN "error"
                  ELSE IF Mentions(b, "GPGGA") THEN "GPGGA"
                  ELSE IF Mentions(b, "GPRMC") THEN "GPRMC" ELSE "unknown"

(* rp_NmeaParseGpgga and rp_NmeaParseGprmc take the fields at the          *)
(* beginning of the line, whatever sentence they belong to.                *)
Parsed(b, type) ==
  IF b[1].of[1] = type /\ Len(b) > 1 /\ b[2] = [b[1] EXCEPT !.piece = "fields"] THEN 0 ELSE Junk

(* gps_print_data, also of a later invocation: gps_init, gps_location.     *)
(* gps_init does not look at what rp_UartInit returns: when the port did   *)
(* not open, every read fails, and rp_UartReadln sleeps and reads again.   *)
GpsLocation(open) ==
  /\ loc \in {"idle", "done"} /\ loc' = IF open THEN "reading" ELSE "spinning"
  /\ status' = {} /\ buffer' = <<>> /\ times' = Unset /\ date' = Unset
  /\ synced' = FALSE /\ joined' = FALSE
  /\ UNCHANGED <<at, second, losses>>

(* The stream moves on; at the end of a second the values get older. *)
Advance ==
  LET last == at[1] = Len(Order) /\ at[2] = Len(Piece)
  IN /\ at' = IF at[2] < Len(Piece) THEN <<at[1], at[2] + 1>>
              ELSE IF last THEN <<1, 1>> ELSE <<at[1] + 1, 1>>
     /\ second' = IF last THEN 1 - second ELSE second

Aged(t) == IF at' = <<1, 1>> THEN Older(t) ELSE t

(* rp_UartReadln takes one more character, here a piece, of the line.  It  *)
(* does not look at the length of the buffer.                              *)
ReadPiece ==
  /\ loc = "reading" /\ Piece[at[2]] # "end" /\ Advance
  /\ buffer' = Append(buffer, [of |-> <<Order[at[1]], second>>, piece |-> Piece[at[2]]])
  /\ loc' = IF Len(buffer') > MAX_BUF THEN "crashed" ELSE "reading"
  /\ joined' = (joined \/ buffer'[1].of # buffer'[Len(buffer')].of)
  /\ UNCHANGED <<status, times, date, synced, losses>>

\* Slip: the last type is kept, not added.
MutSeen(s, type) == {type} \cap {"GPGGA", "GPRMC"}

Seen(s, type) == s \cup ({type} \cap {"GPGGA", "GPRMC"})

Completed(s) == s = {"GPGGA", "GPRMC"}

(* The end of a line: the turn of the loop in gps_location. *)
ReadLine ==
  LET type == MessageType(buffer)
  IN /\ loc = "reading" /\ Piece[at[2]] = "end" /\ Advance /\ buffer' = <<>>
     /\ \/ /\ NoStar(buffer) \/ PastEnd(buffer)
           /\ loc' = "crashed" /\ UNCHANGED <<status, times, date, synced>>
        \/ /\ ~NoStar(buffer) /\ synced' = TRUE
           /\ times' = IF type = "GPGGA" THEN Parsed(buffer, type) ELSE Aged(times)
           /\ date' = IF type = "GPRMC" THEN Parsed(buffer, type) ELSE Aged(date)
           /\ status' = Seen(status, type)
           /\ loc' = IF Completed(status') THEN "done" ELSE "reading"
     /\ UNCHANGED <<losses, joined>>

(* A piece is lost in the port, or passes while nobody reads. *)
Lose == /\ loc = "reading" /\ losses < MAX_LOSS /\ losses' = losses + 1 /\ Advance
        /\ times' = Aged(times) /\ date' = Aged(date)
        /\ UNCHANGED <<loc, buffer, status, synced, joined>>

Pass == /\ loc \in {"idle", "spinning", "done"} /\ Advance
        /\ UNCHANGED <<loc, buffer, status, times, date, synced, losses, joined>>

GpsNext == (\E open \in BOOLEAN : GpsLocation(open)) \/ ReadPiece \/ ReadLine \/ Lose \/ Pass

GpsSpec == GpsInit /\ [][GpsNext]_Gpsvars

(* The receiver keeps sending and the program keeps reading. *)
GpsFairSpec == GpsSpec /\ WF_Gpsvars(ReadPiece \/ ReadLine)

----------------------------------------------------------------------------
(* What gps_location returns was taken in this call from sentences whose   *)
(* checksum was right, and time and date are at most a second apart, plus  *)
(* one for every piece lost, unless two lines were read as one.  It        *)
(* crashes only on a piece of a line: the first after a start, or after a  *)
(* loss.                                                                   *)
Located ==
  /\ loc = "done" /\ ~joined => times \in 0 .. losses + 1 /\ date \in 0 .. losses + 1
  /\ loc = "crashed" => losses > 0 \/ ~synced

(* With the port open gps_location comes to an end: with both sentences,   *)
(* however many lines are damaged or of another type, or with a crash.     *)
(* rp_UartReadln has no limit of its own; with the port not open it never  *)
(* returns, and that case is not promised anything.                        *)
Completes == (loc = "reading") ~> (loc \in {"done", "crashed"})
============================================================================
