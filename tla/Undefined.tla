------------------------------ MODULE Undefined ------------------------------
(* The value of what is missing: undefined in the program, NULL in a table.   *)
CONSTANT None
=============================================================================
