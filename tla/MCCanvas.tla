------------------------------ MODULE MCCanvas ------------------------------
(* The diagram with the starting model of MCModelEdits.                      *)
EXTENDS Canvas, MCModelEdits
=============================================================================
