--------------------------- MODULE MCWin32Interop ---------------------------
(* Inputs for the Win32 interop helpers.  Every text of up to four        *)
(* characters over blank, tab, signs, two digits and a letter, NUL-terminated; *)
(* int32 values around every digit-count boundary up to the width of b.  *)
EXTENDS Win32Interop

LETTER == 120

MCTexts == {t \o <<NUL>> : t \in SeqOf({SPACE, TAB, MINUS, PLUS, ZERO, ZERO + 7, LETTER}, 4)}

MCValues == (-1100..1100) \cup {9999, -9999, 10000, -10000, 99999, -99999, 32767, -32768}

\* The first values whose text no longer fits: six digits, and INT32_MIN.
MCWideValues == {99999, 100000, -100000, MinInt32}

\* A few small values of each sign, for the round trip through the text.
MCSmallValues == -3..3

MCNoTexts == {}

MCNoValues == {}

\* The texts of INT32_MAX and INT32_MIN, ten digits each.
Digits(ds) == [i \in DOMAIN ds |-> ds[i] + ZERO]
MCInt32LimitTexts ==
  { <<PLUS>> \o Digits(<<2, 1, 4, 7, 4, 8, 3, 6, 4, 7>>) \o <<NUL>>,
    <<MINUS>> \o Digits(<<2, 1, 4, 7, 4, 8, 3, 6, 4, 8>>) \o <<NUL>> }
=============================================================================
