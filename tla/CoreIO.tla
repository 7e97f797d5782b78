------------------------------- MODULE CoreIO -------------------------------
(***************************************************************************)
(* The core modules that talk to the operating system, together: files,    *)
(* and what Console describes.  They share nothing but the C library, so a *)
(* program is considered that uses one of them (a bound on the runs).      *)
(***************************************************************************)
EXTENDS Files, Console

core_vars == <<files_vars, console_vars>>

CoreInit ==
  /\ FilesInit /\ ConsoleInit
  /\ use # "files" => disk = Missing /\ oob_mode = "PRINT"

CoreNext ==
  \/ use = "files" /\ FilesNext /\ UNCHANGED console_vars
  \/ use # "files" /\ ConsoleNext /\ UNCHANGED files_vars

CoreSpec == CoreInit /\ [][CoreNext]_core_vars

(* The state has its types, and a call that ends has closed what it
   opened, whatever failed on its way, and returns all it was asked for. *)
CoreIsComplete == FilesTypeOK /\ ConsoleTypeOK /\ FilesAreClosed /\ AnswersAreComplete
=============================================================================
