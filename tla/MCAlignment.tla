---------------------------- MODULE MCAlignment ----------------------------
(* One process, a wrapper and the hooks of one agent, one plan, one death.     *)
EXTENDS Alignment
CONSTANTS installer, build
=============================================================================
