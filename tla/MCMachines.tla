----------------------------- MODULE MCMachines -----------------------------
(* Values for checking Machines with TLC.  A block that is pasted has empty   *)
(* cells and a number that is new to the tables.                             *)
EXTENDS Machines, MCModelEdits

PastedValue == {Empty, 3}
=============================================================================
