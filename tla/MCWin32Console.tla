---------------------------- MODULE MCWin32Console ----------------------------
(* stdin holds every text of up to four characters over a space, a line  *)
(* feed and two letters: no word, words shorter than, as long as and     *)
(* longer than the buffer, and words after white space.                  *)
EXTENDS Win32Console

MCInputs == BoundedSeq({32, 10, 65, 66}, 4)
MCMessages == {<< >>, <<65>>}
=============================================================================
