----------------------------- MODULE MCWin32Main -----------------------------
(* The driver on a three-cell heap: a string held only by pString, a      *)
(* callee's temporaries and garbage of earlier calls compete for a full   *)
(* heap, so a call between a return and its printf can collect.           *)
EXTENDS Win32Main, TLC

CONSTANTS o1, o2, o3, s1, s2

MCObj == {o1, o2, o3}

\* A two-cell heap: a callee holding two objects exhausts it with its
\* third allocation (OutOfMemory).
MCObj2 == {o1, o2}
MCSlots == {s1, s2}

MCSymmetry == Permutations(MCObj)
=============================================================================
