---------------------------- MODULE Win32Console ----------------------------
(***************************************************************************)
(* The console I/O of src/tests/Win32/Win32.Target/Main.c (73-91).        *)
(* ReadLine hands the caller's buffer to wscanf_s(L"%ls", pBuffer,        *)
(* length) and drops its result; Write, WriteLine and WriteLineToError    *)
(* pass a NUL-terminated message to wprintf / fwprintf(stderr).           *)
(*                                                                         *)
(* wscanf_s's %ls, as the C library defines it: skip white space, then    *)
(* read the run of non-white characters.  If the run and its NUL fit in   *)
(* length characters they are stored; if not, buffer[0] is set to NUL and *)
(* the conversion fails -- how much of the run the library has consumed   *)
(* by then is its own affair, so any amount from length on is allowed.    *)
(* At the end of input it returns EOF and stores nothing.                 *)
(*                                                                         *)
(* Text is a sequence of code points; the caller's buffer is Capacity     *)
(* wchar_t, uninitialised (Garbage) until written.                        *)
(***************************************************************************)
EXTENDS Naturals, SequencesExt

CONSTANTS
  Inputs,     \* the texts stdin may hold
  Messages,   \* the NUL-free messages the writers are passed
  Lengths,    \* the length arguments ReadLine is called with
  Capacity,   \* the caller's buffer, in wchar_t
  MaxOut      \* bound on the characters written to each stream

ASSUME Lengths \subseteq 1..Capacity /\ MaxOut \in Nat

VARIABLES
  input,      \* what stdin still holds
  buffer,     \* the caller's buffer pBuffer[0..Capacity-1]
  scanned,    \* what the last wscanf_s did: "none", "field", "toolong", "eof"
  lastLength, \* the length argument of the last ReadLine
  out, err    \* the text written to stdout and to stderr

vars == <<input, buffer, scanned, lastLength, out, err>>

NUL == 0
CR == 13
LF == 10
Garbage == -1   \* an uninitialised wchar_t

\* iswspace: space, \t, \n, \v, \f, \r.
IsSpace(c) == c \in {32, 9, 10, 11, 12, 13}

\* The input after the white space %ls skips.
Skipped ==
  LET k == SelectInSeq(input, LAMBDA c : ~IsSpace(c))
  IN  IF k = 0 THEN << >> ELSE SubSeq(input, k, Len(input))

\* The run of non-white characters at the head of rest.
Token(rest) ==
  LET k == SelectInSeq(rest, IsSpace)
  IN  IF k = 0 THEN rest ELSE SubSeq(rest, 1, k - 1)

\* Mutant: wscanf without the size argument stores the whole run.
ReadLineUnbounded(length) ==
  LET rest == Skipped
      tok == Token(rest)
      n == Len(tok)
  IN  /\ rest # << >>
      /\ buffer' = [i \in 0..(IF n < Capacity THEN Capacity - 1 ELSE n) |->
                      IF i < n THEN tok[i + 1] ELSE IF i = n THEN NUL ELSE buffer[i]]
      /\ input' = SubSeq(rest, n + 1, Len(rest))
      /\ scanned' = "field" /\ lastLength' = length
      /\ UNCHANGED <<out, err>>

\* ReadLine(pBuffer, length) (lines 73-76).
ReadLine(length) ==
  LET rest == Skipped
      tok == Token(rest)
      n == Len(tok)
  IN  /\ \/ /\ rest = << >>
             /\ scanned' = "eof" /\ input' = << >> /\ UNCHANGED buffer
          \/ /\ rest # << >> /\ n < length
             /\ scanned' = "field"
             /\ buffer' = [i \in DOMAIN buffer |->
                             IF i < n THEN tok[i + 1] ELSE IF i = n THEN NUL ELSE buffer[i]]
             /\ input' = SubSeq(rest, n + 1, Len(rest))
          \/ /\ rest # << >> /\ n >= length
             /\ scanned' = "toolong"
             /\ buffer' = [buffer EXCEPT ![0] = NUL]
             /\ \E k \in length..n : input' = SubSeq(rest, k + 1, Len(rest))
      /\ lastLength' = length
      /\ UNCHANGED <<out, err>>

\* Write (78-81), WriteLine (83-86), WriteLineToError (88-91): the message
\* up to its NUL, and for the last two "\r\n".
Write(m) ==
  /\ Len(out) + Len(m) <= MaxOut
  /\ out' = out \o m
  /\ UNCHANGED <<input, buffer, scanned, lastLength, err>>

WriteLine(m) ==
  /\ Len(out) + Len(m) + 2 <= MaxOut
  /\ out' = out \o m \o <<CR, LF>>
  /\ UNCHANGED <<input, buffer, scanned, lastLength, err>>

WriteLineToError(m) ==
  /\ Len(err) + Len(m) + 2 <= MaxOut
  /\ err' = err \o m \o <<CR, LF>>
  /\ UNCHANGED <<input, buffer, scanned, lastLength, out>>

Init ==
  /\ input \in Inputs
  /\ buffer = [i \in 0..(Capacity - 1) |-> Garbage]
  /\ scanned = "none" /\ lastLength = 0
  /\ out = << >> /\ err = << >>

Next ==
  \/ \E n \in Lengths : ReadLine(n)
  \/ \E m \in Messages : Write(m) \/ WriteLine(m) \/ WriteLineToError(m)

Spec == Init /\ [][Next]_vars

(***************************************************************************)
(* Properties                                                              *)
(***************************************************************************)
TypeOK ==
  /\ input \in Seq(Nat) /\ out \in Seq(Nat) /\ err \in Seq(Nat)
  /\ buffer \in [0..(Capacity - 1) -> Nat \cup {Garbage}]
  /\ scanned \in {"none", "field", "toolong", "eof"}
  /\ lastLength \in Lengths \cup {0}

\* Every ReadLine leaves pBuffer holding a string: a NUL among its first
\* length characters -- at the end of input included.
ReadLineAlwaysTerminates ==
  scanned # "none" => \E i \in 0..(lastLength - 1) : buffer[i] = NUL

=============================================================================
