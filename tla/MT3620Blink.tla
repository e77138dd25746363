---------------------------- MODULE MT3620Blink ----------------------------
(***************************************************************************)
(* The generated Azure Sphere blink sample (src/samples/AzureSphere/       *)
(* Mt3620App/Generated/MT3620Blink.c): MT3620Blink_Program_Main links its  *)
(* execution frame, allocates the int32 array of blink intervals straight *)
(* into a frame slot, fills it from declaredValue0__, and then loops for  *)
(* ever: drive the LED, toggle, read button A, on a press advance the     *)
(* interval index modulo the array length, and sleep for the interval.    *)
(*                                                                         *)
(* Each action is one straight-line stretch of the IL body between two    *)
(* calls into native code.  The GPIO calls are the environment: an open   *)
(* or a read may fail (-1), and their results are not checked by the      *)
(* code; the button is pressed or released at any time.                   *)
(***************************************************************************)
EXTENDS Integers, Sequences, CInt

CONSTANTS
  NULL,       \* the null reference
  Arr         \* the array object il2c_new_array hands out

VARIABLES
  pc,         \* the next stretch of Main to run
  frame,      \* Main's execution frame: [linked, blinkIntervals, stack0_1__, stack1_1__]
  array,      \* the array object: [Length, items] once allocated
  ledFd, buttonFd, flag, blinkIntervalIndex, buttonValue,
  button,     \* the physical level of button A (0 is pressed)
  led,        \* the last value GPIO_SetValue drove the LED to, or LedUnset
  request     \* the timespec of the last nanosleep call, or NoRequest

vars == <<pc, frame, array, ledFd, buttonFd, flag, blinkIntervalIndex,
          buttonValue, button, led, request>>

\* declaredValue0__ (line 12-13) and its byte size, as ldtoken passes it.
declaredValue0__ == <<125, 250, 500>>
SizeOfInt32 == 4
DeclaredSize == Len(declaredValue0__) * SizeOfInt32

GPIO_Value_Low == 0
GPIO_Value_High == 1
Fd == {3, -1}      \* a descriptor the platform returns, or the error -1

\* Markers of the model's own: no array yet, no LED write yet, no sleep yet.
NoArray == [Length |-> 0, items |-> [i \in {} |-> 0]]
LedUnset == -1
NoRequest == [tv_sec |-> -1, tv_nsec |-> -1]

(***************************************************************************)
(* The interop wrappers (lines 215-250) pass their arguments to the       *)
(* platform and return its result unchecked.  The platform fails an open  *)
(* with -1, and a call on the descriptor -1 fails without effect.         *)
(***************************************************************************)
\* GPIO_OpenAsOutput / GPIO_OpenAsInput: the descriptors they may return.
MT3620Blink_Interops_GPIO_OpenAsOutput == Fd
MT3620Blink_Interops_GPIO_OpenAsInput == Fd

\* GPIO_SetValue(gpioFd, value): the LED's level after the call.
MT3620Blink_Interops_GPIO_SetValue(gpioFd, value) ==
  IF gpioFd # -1 THEN value ELSE led

\* Mutant: the value read is lost (the wrapper reads into a copy of *value).
MT3620Blink_Interops_GPIO_GetValueDropped(gpioFd) == buttonValue

\* GPIO_GetValue(gpioFd, &value): *value after the call; a failed read
\* leaves it as it was.
MT3620Blink_Interops_GPIO_GetValue(gpioFd) ==
  IF gpioFd # -1 THEN button ELSE buttonValue

\* nanosleep(time, dummy): the request the platform receives.
MT3620Blink_Interops_nanosleep(time) == time

(***************************************************************************)
(* MT3620Blink_Program_sleep (lines 294-380): the timespec it hands to    *)
(* nanosleep.                                                             *)
(***************************************************************************)
\* Mutant: tv_nsec computed from the quotient instead of the remainder.
SleepFromQuotient(msec) ==
  [tv_sec |-> CDiv(msec, 1000), tv_nsec |-> CDiv(msec, 1000) * 1000000]

MT3620Blink_Program_sleep(msec) ==
  [tv_sec |-> CDiv(msec, 1000), tv_nsec |-> CMod(msec, 1000) * 1000000]

\* Lines 402-434: locals zeroed, frame__ = { NULL, 3 } (the aggregate
\* initializer zeroes the three reference slots), linked first.
Enter ==
  /\ pc = "enter"
  /\ frame' = [linked |-> TRUE, blinkIntervals |-> NULL, stack0_1__ |-> NULL, stack1_1__ |-> NULL]
  /\ pc' = "open"
  /\ UNCHANGED <<array, ledFd, buttonFd, flag, blinkIntervalIndex, buttonValue, button, led, request>>

\* Lines 441-462: open LED1 red as output, button A as input, flag = false.
OpenGpio ==
  /\ pc = "open"
  /\ ledFd' \in MT3620Blink_Interops_GPIO_OpenAsOutput
  /\ buttonFd' \in MT3620Blink_Interops_GPIO_OpenAsInput
  /\ flag' = FALSE
  /\ pc' = "newarr"
  /\ UNCHANGED <<frame, array, blinkIntervalIndex, buttonValue, button, led, request>>

\* Lines 464-483: newarr int32[3] into stack0_1__, dup into stack1_1__,
\* InitializeArray copies the DeclaredSize bytes of declaredValue0__ into
\* the array, stloc.3 into blinkIntervals, blinkIntervalIndex = 0.
\* Mutant: InitializeArray copies size__ elements instead of size__ bytes.
NewBlinkIntervalsCopyingBytesAsItems ==
  /\ pc = "newarr"
  /\ array' = [Length |-> 3,
                items  |-> [i \in 0..(DeclaredSize - 1) |->
                              IF i < Len(declaredValue0__) THEN declaredValue0__[i + 1] ELSE 0]]
  /\ frame' = [frame EXCEPT !.stack0_1__ = Arr, !.stack1_1__ = Arr, !.blinkIntervals = Arr]
  /\ blinkIntervalIndex' = 0
  /\ pc' = "blink"
  /\ UNCHANGED <<ledFd, buttonFd, flag, buttonValue, button, led, request>>

NewBlinkIntervals ==
  /\ pc = "newarr"
  /\ LET length == 3
     IN  array' = [Length |-> length,
                   items  |-> [i \in 0..(length - 1) |->
                                 IF i < DeclaredSize \div SizeOfInt32
                                   THEN declaredValue0__[i + 1] ELSE 0]]
  /\ frame' = [frame EXCEPT !.stack0_1__ = Arr, !.stack1_1__ = Arr, !.blinkIntervals = Arr]
  /\ blinkIntervalIndex' = 0
  /\ pc' = "blink"
  /\ UNCHANGED <<ledFd, buttonFd, flag, buttonValue, button, led, request>>

\* Lines 484-519 (entered from IL_0071): GPIO_SetValue(ledFd, flag ? 1 : 0)
\* (a write to a failed descriptor changes nothing), flag = (flag == 0),
\* GPIO_GetValue(buttonFd, &buttonValue) (a failed read leaves it as it was).
\* Mutant: the stloc.2 of the toggled flag is lost.
BlinkWithoutToggle ==
  /\ pc = "blink"
  /\ led' = MT3620Blink_Interops_GPIO_SetValue(ledFd, IF flag THEN GPIO_Value_High ELSE GPIO_Value_Low)
  /\ buttonValue' = MT3620Blink_Interops_GPIO_GetValue(buttonFd)
  /\ pc' = "select"
  /\ UNCHANGED <<frame, array, ledFd, buttonFd, flag, blinkIntervalIndex, button, request>>

Blink ==
  /\ pc = "blink"
  /\ led' = MT3620Blink_Interops_GPIO_SetValue(ledFd, IF flag THEN GPIO_Value_High ELSE GPIO_Value_Low)
  /\ flag' = ~flag
  /\ buttonValue' = MT3620Blink_Interops_GPIO_GetValue(buttonFd)
  /\ pc' = "select"
  /\ UNCHANGED <<frame, array, ledFd, buttonFd, blinkIntervalIndex, button, request>>

\* Lines 523-551: if buttonValue == 0 then
\* blinkIntervalIndex = (blinkIntervalIndex + 1) % blinkIntervals->Length.
\* Mutant: the rem by blinkIntervals->Length is left out.
SelectIntervalWithoutRem ==
  /\ pc = "select"
  /\ blinkIntervalIndex' =
       IF buttonValue = GPIO_Value_Low THEN blinkIntervalIndex + 1 ELSE blinkIntervalIndex
  /\ frame' = IF buttonValue = GPIO_Value_Low
               THEN [frame EXCEPT !.stack1_1__ = frame.blinkIntervals] ELSE frame
  /\ pc' = "sleep"
  /\ UNCHANGED <<array, ledFd, buttonFd, flag, buttonValue, button, led, request>>

SelectInterval ==
  /\ pc = "select"
  /\ blinkIntervalIndex' =
       IF buttonValue = GPIO_Value_Low
         THEN CMod(blinkIntervalIndex + 1, array.Length)
         ELSE blinkIntervalIndex
  /\ frame' = IF buttonValue = GPIO_Value_Low
               THEN [frame EXCEPT !.stack1_1__ = frame.blinkIntervals] ELSE frame
  /\ pc' = "sleep"
  /\ UNCHANGED <<array, ledFd, buttonFd, flag, buttonValue, button, led, request>>

\* Lines 554-572: ldelem blinkIntervals[blinkIntervalIndex], sleep, loop.
Sleep ==
  /\ pc = "sleep"
  /\ frame' = [frame EXCEPT !.stack0_1__ = frame.blinkIntervals]
  /\ request' = MT3620Blink_Interops_nanosleep(MT3620Blink_Program_sleep(array.items[blinkIntervalIndex]))
  /\ pc' = "blink"
  /\ UNCHANGED <<array, ledFd, buttonFd, flag, blinkIntervalIndex, buttonValue, button, led>>

\* The user presses or releases button A.
Press ==
  /\ \E v \in {GPIO_Value_Low, GPIO_Value_High} : button' = v /\ v # button
  /\ UNCHANGED <<pc, frame, array, ledFd, buttonFd, flag, blinkIntervalIndex, buttonValue, led, request>>

Init ==
  /\ pc = "enter"
  /\ frame = [linked |-> FALSE, blinkIntervals |-> NULL, stack0_1__ |-> NULL, stack1_1__ |-> NULL]
  /\ array = NoArray
  /\ ledFd = 0 /\ buttonFd = 0 /\ flag = FALSE /\ blinkIntervalIndex = 0
  /\ buttonValue = GPIO_Value_Low   \* il2c_memset(&buttonValue, 0, ...)
  /\ button \in {GPIO_Value_Low, GPIO_Value_High}
  /\ led = LedUnset /\ request = NoRequest

Main == Enter \/ OpenGpio \/ NewBlinkIntervals \/ Blink \/ SelectInterval \/ Sleep

Next == Main \/ Press

\* Main is the only thread and never blocks for good: every GPIO call and
\* nanosleep returns.  The user is not obliged to do anything.
Spec == Init /\ [][Next]_vars /\ WF_vars(Main)

(***************************************************************************)
(* Properties                                                              *)
(***************************************************************************)
Timespec == [tv_sec : Int, tv_nsec : Int]

TypeOK ==
  /\ pc \in {"enter", "open", "newarr", "blink", "select", "sleep"}
  /\ frame \in [linked : BOOLEAN, blinkIntervals : {NULL, Arr},
                 stack0_1__ : {NULL, Arr}, stack1_1__ : {NULL, Arr}]
  /\ array.Length \in Nat /\ array.items \in [0..(array.Length - 1) -> Int]
  /\ ledFd \in Fd \cup {0} /\ buttonFd \in Fd \cup {0} /\ flag \in BOOLEAN
  /\ blinkIntervalIndex \in Int
  /\ {buttonValue, button} \subseteq {GPIO_Value_Low, GPIO_Value_High}
  /\ led \in {LedUnset, GPIO_Value_Low, GPIO_Value_High}
  /\ request \in Timespec

\* Whatever sequence of button levels and failed GPIO reads the loop sees,
\* ldelem reads an element inside blinkIntervals, which is still the
\* array rooted in Main's linked frame.
ElementAccessInBounds ==
  pc = "sleep" =>
    /\ frame.linked /\ frame.blinkIntervals = Arr
    /\ blinkIntervalIndex \in DOMAIN array.items

\* Every nanosleep request is a valid timespec (0 <= tv_nsec < 10^9) that
\* lasts exactly one of the intervals of declaredValue0__.
SleepsForDeclaredInterval ==
  request # NoRequest =>
    /\ request.tv_nsec \in 0..999999999
    /\ \E i \in DOMAIN declaredValue0__ :
         request.tv_sec * 1000 + request.tv_nsec \div 1000000 = declaredValue0__[i]

\* Once the LED is open, it is driven high and low again and again.
LedBlinks ==
  <>(pc = "blink" /\ ledFd # -1) =>
    /\ []<>(led = GPIO_Value_High)
    /\ []<>(led = GPIO_Value_Low)

\* Once button A is open and then left released for good, the blink
\* interval eventually stops changing: the memset 0 that buttonValue starts
\* with, which the loop reads as "pressed", is overwritten by a real read.
ReleasedButtonKeepsInterval ==
  <>[](buttonFd \notin {0, -1} /\ button = GPIO_Value_High)
    => <>[][UNCHANGED blinkIntervalIndex]_blinkIntervalIndex

=============================================================================
