---------------------------- MODULE MCCommandRun ----------------------------
(* An instance of CommandRun for TLC. *)
EXTENDS CommandRun

CONSTANTS SIGINT, SIGTERM
=============================================================================
