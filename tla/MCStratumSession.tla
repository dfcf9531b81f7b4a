-------------------------- MODULE MCStratumSession --------------------------
(***************************************************************************)
(* StratumSession for TLC: its constants are numbers and need no           *)
(* definitions of their own.                                               *)
(***************************************************************************)
EXTENDS StratumSession
=============================================================================
