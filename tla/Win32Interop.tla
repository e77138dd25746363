---------------------------- MODULE Win32Interop ----------------------------
(***************************************************************************)
(* The native helpers of the Win32 test target (src/tests/Win32/          *)
(* Win32.Target/Main.c) that translated code reaches through the interop  *)
(* boundary: twtoi parses a wide string into an int32, itow formats an    *)
(* int32 into a wide string through a 6-element local buffer b.           *)
(*                                                                         *)
(* Wide strings are sequences of code points ending with the NUL 0, so    *)
(* the pointer walks and the character arithmetic ('0' is 48) are kept.   *)
(* C's int32 arithmetic is kept: division truncates toward zero, and      *)
(* -value for INT32_MIN in itow, undefined in C, takes the two's-         *)
(* complement wrap the target compilers produce (it stays INT32_MIN).     *)
(* twtoi's n * 10 + d overflows only past nine digits; the texts checked  *)
(* are shorter, except those of the overflow run, which the model flags.  *)
(***************************************************************************)
EXTENDS Integers, SequencesExt, CInt

CONSTANTS
  Values,    \* the int32 arguments itow is called with
  Texts      \* the wide strings twtoi is called with (each ends with 0)

VARIABLES
  arg,       \* the last call: [fn |-> "itow", v |-> ...] or [fn |-> "twtoi", s |-> ...]
  result     \* what that call produced

vars == <<arg, result>>

\* The wchar_t code points the helpers compare against.
NUL == 0
SPACE == 32
TAB == 9
MINUS == 45
PLUS == 43
ZERO == 48
IsDigit(c) == c \in ZERO..(ZERO + 9)


(***************************************************************************)
(* twtoi (Main.c 8-45): skip blanks and tabs; a '-' or '+' is required,   *)
(* anything else (a digit, the NUL) returns false without writing *value; *)
(* then accumulate the digits.                                            *)
(***************************************************************************)
\* Line 40 evaluates (n * 10 + *_Str) - L'0' left to right in int32, so it
\* overflows as soon as n * 10 + c, c the character's code, leaves the
\* int32 range: undefined in C.  The model flags it and stops
\* accumulating; the value after an overflow is not modelled.
Overflows(n, c) == n > (MaxInt32 - c) \div 10

\* Mutant: the digit loop starts on the sign character instead of after it.
TwtoiFromSign(s) ==
  LET RECURSIVE Skip(_), Acc(_, _)
      Skip(i) == IF s[i] \in {SPACE, TAB} THEN Skip(i + 1) ELSE i
      Acc(k, n) == IF ~IsDigit(s[k]) THEN [n |-> n, overflow |-> FALSE]
                   ELSE IF Overflows(n, s[k]) THEN [n |-> n, overflow |-> TRUE]
                   ELSE Acc(k + 1, n * 10 + s[k] - ZERO)
      i == Skip(1)
      a == Acc(i, 0)
  IN  IF s[i] \notin {MINUS, PLUS}
        THEN [ok |-> FALSE, value |-> "unwritten", overflow |-> FALSE]
        ELSE [ok |-> TRUE, value |-> IF s[i] = MINUS THEN -a.n ELSE a.n, overflow |-> a.overflow]

twtoi(s) ==
  LET RECURSIVE Skip(_), Acc(_, _)
      Skip(i) == IF s[i] \in {SPACE, TAB} THEN Skip(i + 1) ELSE i
      Acc(k, n) == IF ~IsDigit(s[k]) THEN [n |-> n, overflow |-> FALSE]
                   ELSE IF Overflows(n, s[k]) THEN [n |-> n, overflow |-> TRUE]
                   ELSE Acc(k + 1, n * 10 + s[k] - ZERO)
      i == Skip(1)
      a == Acc(i + 1, 0)
  IN  IF s[i] \notin {MINUS, PLUS}
        THEN [ok |-> FALSE, value |-> "unwritten", overflow |-> FALSE]
        ELSE [ok |-> TRUE, value |-> IF s[i] = MINUS THEN -a.n ELSE a.n, overflow |-> a.overflow]

(***************************************************************************)
(* itow (Main.c 47-71): emit '-' and negate; write b[5] = 0, then the     *)
(* digits from b[4] downwards in a do-while; copy from the last digit     *)
(* written through the NUL.  "low" is the lowest index of b written:      *)
(* below 0 the writes land outside the 6-element array.                   *)
(***************************************************************************)
\* Mutant: the digit loop as while (value) instead of do-while: 0 prints nothing.
ItowWhileLoop(value) ==
  LET neg == value < 0
      RECURSIVE Fill(_, _, _), Out(_, _)
      Fill(x, j, b) ==
        IF x = 0 THEN [j |-> j + 1, b |-> b]
        ELSE Fill(CDiv(x, 10), j - 1, (j :> CMod(x, 10) + ZERO) @@ b)
      Out(b, k) == IF b[k] = NUL THEN <<NUL>> ELSE <<b[k]>> \o Out(b, k + 1)
      f == Fill(IF neg THEN Negate32(value) ELSE value, 4, 5 :> NUL)
  IN  [text |-> (IF neg THEN <<MINUS>> ELSE << >>) \o Out(f.b, f.j), low |-> f.j]

\* Mutant: the copy loop as while (*j) instead of do-while: the NUL is not copied.
ItowCopyWithoutNul(value) ==
  LET neg == value < 0
      RECURSIVE Fill(_, _, _), Out(_, _)
      Fill(x, j, b) ==
        LET b2 == (j :> CMod(x, 10) + ZERO) @@ b
        IN  IF CDiv(x, 10) # 0 THEN Fill(CDiv(x, 10), j - 1, b2) ELSE [j |-> j, b |-> b2]
      Out(b, k) == IF b[k] = NUL THEN << >> ELSE <<b[k]>> \o Out(b, k + 1)
      f == Fill(IF neg THEN Negate32(value) ELSE value, 4, 5 :> NUL)
  IN  [text |-> (IF neg THEN <<MINUS>> ELSE << >>) \o Out(f.b, f.j), low |-> f.j]

itow(value) ==
  LET neg == value < 0
      RECURSIVE Fill(_, _, _), Out(_, _)
      Fill(x, j, b) ==
        LET b2 == (j :> CMod(x, 10) + ZERO) @@ b
        IN  IF CDiv(x, 10) # 0 THEN Fill(CDiv(x, 10), j - 1, b2) ELSE [j |-> j, b |-> b2]
      Out(b, k) == IF b[k] = NUL THEN <<NUL>> ELSE <<b[k]>> \o Out(b, k + 1)
      f == Fill(IF neg THEN Negate32(value) ELSE value, 4, 5 :> NUL)
  IN  [text |-> (IF neg THEN <<MINUS>> ELSE << >>) \o Out(f.b, f.j), low |-> f.j]

CallItow ==
  \E v \in Values : arg' = [fn |-> "itow", v |-> v] /\ result' = itow(v)

CallTwtoi ==
  \E s \in Texts : arg' = [fn |-> "twtoi", s |-> s] /\ result' = twtoi(s)

Init == arg = [fn |-> "none"] /\ result = "none"

Next == CallItow \/ CallTwtoi

Spec == Init /\ [][Next]_vars

(***************************************************************************)
(* Reference definitions                                                  *)
(***************************************************************************)
RECURSIVE Decimal(_)
Decimal(n) == IF n < 10 THEN <<n + ZERO>> ELSE Decimal(n \div 10) \o <<(n % 10) + ZERO>>

DigitValue(ds) == FoldLeft(LAMBDA acc, c : acc * 10 + c - ZERO, 0, ds)

\* The number a C reader expects from twtoi's text: blanks, a sign, the
\* longest run of digits after it.
ExpectedParse(s) ==
  LET k == CHOOSE k \in DOMAIN s : s[k] \notin {SPACE, TAB} /\ \A i \in 1..(k - 1) : s[i] \in {SPACE, TAB}
      m == CHOOSE m \in 0..(Len(s) - k - 1) : (\A i \in 1..m : IsDigit(s[k + i])) /\ ~IsDigit(s[k + m + 1])
      n == DigitValue(SubSeq(s, k + 1, k + m))
  IN  IF s[k] \notin {MINUS, PLUS} THEN [ok |-> FALSE, value |-> "unwritten", overflow |-> FALSE]
      ELSE [ok |-> TRUE, value |-> IF s[k] = MINUS THEN -n ELSE n, overflow |-> FALSE]

(***************************************************************************)
(* Properties                                                             *)
(***************************************************************************)
\* A wide string: code points ending with its only NUL.
WString(t) == t # << >> /\ t[Len(t)] = NUL /\ \A i \in 1..(Len(t) - 1) : t[i] # NUL

\* itow's output is a NUL-terminated wide string; twtoi answers a flag and,
\* when true, an int32.
TypeOK ==
  \/ arg = [fn |-> "none"] /\ result = "none"
  \/ arg.fn = "itow" /\ WString(result.text) /\ result.low \in Int
  \/ arg.fn = "twtoi" /\ result.ok \in BOOLEAN /\ result.overflow \in BOOLEAN
     /\ (result.ok => result.value \in MinInt32..MaxInt32)

\* itow writes the decimal text of its argument, with a '-' for negative
\* values and the terminating NUL, for every argument in range.
ItowWritesDecimal ==
  arg.fn = "itow" =>
    result.text = (IF arg.v < 0 THEN <<MINUS>> ELSE << >>) \o Decimal(IF arg.v < 0 THEN -arg.v ELSE arg.v) \o <<NUL>>

\* itow never writes outside its local buffer wchar_t b[6].
ItowWithinBuffer == arg.fn = "itow" => result.low >= 0

\* twtoi's pointer walk returns what the declarative reading of its text
\* says: blanks, a mandatory sign, then the value of the digit run.
TwtoiParsesSignedDecimal == arg.fn = "twtoi" => result = ExpectedParse(arg.s)

\* twtoi reads every signed int32 text without signed overflow in its
\* digit loop: INT32_MIN's text included.
TwtoiWithoutOverflow == arg.fn = "twtoi" => ~result.overflow

\* What itow writes, twtoi reads back: the two helpers are inverse on the
\* int32 values the target prints and reads.
ItowTwtoiRoundTrip ==
  arg.fn = "itow" => LET r == twtoi(result.text) IN r.ok /\ r.value = arg.v

=============================================================================
