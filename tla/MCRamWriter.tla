---------------------------- MODULE MCRamWriter ----------------------------
(* Instance of RamWriter for TLC; the constants are given in the .cfg files. *)
EXTENDS RamWriter
============================================================================
