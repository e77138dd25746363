--------------------------- MODULE MCMT3620Blink ---------------------------
(* The blink sample as generated: the state space is finite because the   *)
(* interval index stays below the array length, so no bound is needed.   *)
EXTENDS MT3620Blink
=============================================================================
