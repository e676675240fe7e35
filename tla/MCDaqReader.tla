---------------------------- MODULE MCDaqReader ----------------------------
(***************************************************************************)
(* The parts of the acquisition process for TLC: the reader of the ring,   *)
(* the clock and the files, the sums over events, the pressure sensor, the *)
(* GPS; and the parser of the rp_tinygps application.  A behaviour follows *)
(* one of them; the others stay in an initial state.                       *)
(***************************************************************************)
EXTENDS DaqReader, DataFile, EventSums, Bmp180, Gps, TinyGps

VARIABLE view

(* Words with bytes of two bits: all times of day, and a minute and a      *)
(* second out of range with every hour, one of which is out of range too.  *)
Words == {h * 16 + m * 4 + s : h \in 0 .. 3, m \in {0, 1, 3}, s \in {0, 1, 3}}

MCvars == <<view, vars, Filevars, Sumsvars, Bmpvars, Gpsvars, Tinyvars>>

MCInit ==
  /\ view \in {"reader", "file", "sums", "bmp", "gps", "tiny"}
  /\ Init /\ FileInit /\ SumsInit /\ BmpInit /\ GpsInit /\ TinyInit
  /\ view # "file" => ~fToStdout /\ ~falseGPS
  /\ view # "bmp" => eeprom = <<0, 255>>
  /\ view # "gps" => at = <<1, 1>>

MCNext ==
  \/ view = "reader" /\ Next     /\ UNCHANGED <<view, Filevars, Sumsvars, Bmpvars, Gpsvars, Tinyvars>>
  \/ view = "file"   /\ FileNext /\ UNCHANGED <<view, vars, Sumsvars, Bmpvars, Gpsvars, Tinyvars>>
  \/ view = "sums"   /\ SumsNext /\ UNCHANGED <<view, vars, Filevars, Bmpvars, Gpsvars, Tinyvars>>
  \/ view = "bmp"    /\ BmpNext  /\ UNCHANGED <<view, vars, Filevars, Sumsvars, Gpsvars, Tinyvars>>
  \/ view = "gps"    /\ GpsNext  /\ UNCHANGED <<view, vars, Filevars, Sumsvars, Bmpvars, Tinyvars>>
  \/ view = "tiny"   /\ TinyNext /\ UNCHANGED <<view, vars, Filevars, Sumsvars, Bmpvars, Gpsvars>>

(* The fairness of Gps; see there. *)
MCSpec == MCInit /\ [][MCNext]_MCvars /\ WF_Gpsvars(ReadPiece \/ ReadLine)
============================================================================
