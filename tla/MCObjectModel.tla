---------------------------- MODULE MCObjectModel ----------------------------
(* Three cells, payloads 5 and 7: boxes of every boxable type next to a  *)
(* string and an Interops object, with equal and different payloads, so  *)
(* every cast, unbox and virtual call meets every kind of receiver.      *)
EXTENDS ObjectModel, TLC

CONSTANTS o1, o2, o3

MCObj == {o1, o2, o3}

MCSymmetry == Permutations(MCObj)
=============================================================================
