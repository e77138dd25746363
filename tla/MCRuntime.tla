----------------------------- MODULE MCRuntime -----------------------------
(* Runtime instantiated for TLC: three heap cells, two reference slots per *)
(* frame and calls nested two deep, so that a caller's object, a callee's  *)
(* object and one more compete for a full heap.                            *)
EXTENDS Runtime, TLC

CONSTANTS o1, o2, o3, s1, s2

MCObj == {o1, o2, o3}
MCSlots == {s1, s2}
=============================================================================
