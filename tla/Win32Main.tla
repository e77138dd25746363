----------------------------- MODULE Win32Main -----------------------------
(***************************************************************************)
(* The test driver main of src/tests/Win32/Win32.Target/Main.c (99-155)   *)
(* running on the runtime of module Runtime.  main is native C: it links  *)
(* no frame, so the System_String* each string test returns lives only in *)
(* an unrooted C local (pString11, pString1, pString2) until printf reads *)
(* it.  Every call of a translated function links its frame, may          *)
(* allocate -- and so collect -- and returns; after 100 passes of the     *)
(* body main requests a collection with __gc_collect__.                   *)
(*                                                                         *)
(* The translated test functions (Generated/Win32.Code.h) are not in this *)
(* repository: a callee is any sequence of at most CalleeWork steps the   *)
(* frame ABI allows (Runtime's mutator actions at depth >= 1), followed   *)
(* by its return.  A string test returns a non-null reference.            *)
(***************************************************************************)
EXTENDS Naturals, Sequences

CONSTANTS
  Obj, NULL, Slots, MaxDepth,   \* as in Runtime
  hoge,          \* a static string: __DEFINE_CONST_STRING__ (line 97) or a literal
  LoopCount,     \* the bound of the for loop (100 in main)
  CalleeWork     \* bound on the steps of one translated call

ASSUME LoopCount \in Nat \ {0} /\ CalleeWork \in Nat /\ hoge \notin Obj \cup {NULL}

VARIABLES
  heap, field, stack, depth, current, phase, scan, marked, gray, pending,
  line,      \* the statement of the loop body main is at
  index,     \* the for loop's counter
  pString,   \* the C local holding the last returned string (unrooted)
  work,      \* steps the running callee has taken
  atCollect  \* main has left the for loop and is at __gc_collect__

rvars == <<heap, field, stack, depth, current, phase, scan, marked, gray, pending>>
vars == <<rvars, line, index, pString, work, atCollect>>

R == INSTANCE Runtime

(***************************************************************************)
(* The body of the for loop (lines 108-148), one entry per statement that *)
(* touches the heap: "call" a test returning void or a value (its printf  *)
(* of that value reads no object), "callstr" a string test whose result   *)
(* goes to pString, "printstr" the printf of pString->pBody.              *)
(***************************************************************************)
\* Mutant: pString1 printed only after the OutputDebugString call.
BodyPrintingLate ==
  << "call", "callstr", "printstr", "call", "call", "callstr", "call",
     "printstr", "callstr", "printstr", "call", "call", "call", "call",
     "call", "call", "call" >>

Body ==
  << "call", "callstr", "printstr", "call", "call", "callstr", "printstr",
     "call", "callstr", "printstr", "call", "call", "call", "call",
     "call", "call", "call" >>

InCall == depth > 0

\* Mutant: the for loop's test as index <= 100.
AdvancePastBound ==
  IF line < Len(Body)
    THEN line' = line + 1 /\ UNCHANGED <<index, atCollect>>
    ELSE IF index + 1 <= LoopCount
           THEN line' = 1 /\ index' = index + 1 /\ UNCHANGED atCollect
           ELSE atCollect' = TRUE /\ UNCHANGED <<line, index>>

\* main moves to the next statement, or leaves the for loop after the
\* LoopCount-th pass.
Advance ==
  IF line < Len(Body)
    THEN line' = line + 1 /\ UNCHANGED <<index, atCollect>>
    ELSE IF index + 1 < LoopCount
           THEN line' = 1 /\ index' = index + 1 /\ UNCHANGED atCollect
           ELSE atCollect' = TRUE /\ UNCHANGED <<line, index>>

\* main calls the test function of the current statement: the callee's
\* first action links its frame.
Call ==
  /\ ~atCollect /\ ~InCall /\ Body[line] \in {"call", "callstr"}
  /\ R!il2c_link_execution_frame
  /\ work' = 0
  /\ UNCHANGED <<line, index, pString, atCollect>>

\* One step of the translated callee: a nested call, a return or error exit
\* of a nested call, a reference move, or an allocation.
CalleeStep ==
  /\ InCall
  /\ \/ work < CalleeWork /\ work' = work + 1
        /\ \/ R!il2c_link_execution_frame
           \/ \E s, t \in Slots : R!Copy(s, t) \/ R!LoadField(s, t) \/ R!StoreField(s, t)
           \/ \E t \in Slots : R!Clear(t) \/ R!il2c_new_object(t)
     \/ depth > 1 /\ UNCHANGED work
        /\ (R!Throw \/ \E s, t \in Slots : R!Return(s, t))
  /\ UNCHANGED <<line, index, pString, atCollect>>

\* The callee returns to main: it unlinks its frame; a string test's
\* result -- a string it holds, or a static one such as hoge, never null --
\* is stored in pString, outside every frame.
CalleeReturn ==
  /\ depth = 1
  /\ \E s \in Slots :
       /\ R!Return(s, s)
       /\ IF Body[line] = "callstr"
            THEN pString' \in ({stack[1].slot[s]} \cup {hoge}) \ {NULL}
            ELSE UNCHANGED pString
  /\ Advance
  /\ UNCHANGED work

\* printf("... %ls", pString->pBody): reads the string object.
Printf ==
  /\ ~atCollect /\ ~InCall /\ Body[line] = "printstr"
  /\ R!Mutator
  /\ Advance
  /\ UNCHANGED <<rvars, pString, work>>

\* Mutant: the explicit collection after the for loop is left out.
GcCollectSkipped ==
  /\ atCollect /\ R!Mutator
  /\ atCollect' = FALSE /\ line' = 1 /\ index' = 0
  /\ UNCHANGED <<rvars, pString, work>>

\* __gc_collect__() (line 151), then the while loop starts the for loop
\* again.
GcCollect ==
  /\ atCollect
  /\ R!il2c_collect
  /\ atCollect' = FALSE /\ line' = 1 /\ index' = 0
  /\ UNCHANGED <<pString, work>>

\* __gc_initialize__() (line 101).
Init ==
  /\ R!Init
  /\ line = 1 /\ index = 0 /\ pString = NULL /\ work = 0 /\ atCollect = FALSE

Driver == Call \/ CalleeStep \/ CalleeReturn \/ Printf \/ GcCollect

\* The collector's steps leave main where it is.
Collector == R!Collector /\ UNCHANGED <<line, index, pString, work, atCollect>>

\* After the fatal OutOfMemory the process stops: nothing changes any more.
Aborted == R!Aborted /\ UNCHANGED <<line, index, pString, work, atCollect>>

Next == Driver \/ Collector \/ Aborted

\* main is the only thread and loops for ever; a started collection runs
\* to its end on that thread.  Nothing obliges a callee to allocate.
Spec == Init /\ [][Next]_vars /\ WF_vars(Driver) /\ WF_vars(Collector)

(***************************************************************************)
(* Properties                                                              *)
(***************************************************************************)
TypeOK ==
  /\ R!TypeOK
  /\ line \in 1..Len(Body) /\ index \in 0..(LoopCount - 1)
  /\ pString \in Obj \cup {NULL, hoge} /\ work \in 0..CalleeWork
  /\ atCollect \in BOOLEAN

\* Every printf of a returned string reads an object the collector has not
\* reclaimed, although nothing roots it once its callee has returned: no
\* call that could allocate runs between the return and the printf.
PrintfReadsLiveString ==
  Body[line] = "printstr" /\ ~InCall => pString \in heap \cup {hoge}

\* An object nothing can reach any more -- a test's temporary, a string
\* main has printed -- is eventually reclaimed, even by a loop whose
\* callees never allocate enough to force a collection: the explicit
\* __gc_collect__ after the for loop collects it.
GarbageEventuallyReclaimed ==
  \A o \in Obj : (o \in heap /\ o \notin R!GC!Reachable) ~> o \notin heap

=============================================================================
