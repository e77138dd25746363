------------------------------ MODULE Runtime ------------------------------
(***************************************************************************)
(* The IL2C runtime core: the managed heap, the linked list of execution  *)
(* frames that is the collector's root set, the allocator and the         *)
(* stop-the-world mark-and-sweep collector.  The runtime's C sources are  *)
(* not part of this repository's src/ tree; the operations are modelled   *)
(* from spec.md sections 3-6 and from the way the generated code in       *)
(* src/samples uses them (il2c_link_execution_frame, il2c_new_array).     *)
(*                                                                         *)
(* Data is abstracted to the shape the collector sees: an object is a     *)
(* model value with one traced reference field, a frame is a record of    *)
(* reference slots plus its previousFrame link.  Frame records live in    *)
(* native stack memory: the record of the call at depth d is stack[d],    *)
(* and a new call at depth d overwrites whatever an earlier call left.    *)
(***************************************************************************)
EXTENDS Naturals, FiniteSets

CONSTANTS
  Obj,       \* the heap cells: one model value per object the heap can hold
  NULL,      \* the null reference
  Slots,     \* the reference slots of a frame (locals and stack temporaries)
  MaxDepth   \* bound on the native call depth of translated functions

ASSUME NULL \notin Obj /\ MaxDepth \in Nat \ {0}

VARIABLES
  heap,      \* the set of allocated objects (the allocation records)
  field,     \* field[o]: the reference stored in o's traced field
  stack,     \* stack[d]: the frame record in native stack memory at depth d
  depth,     \* the number of active translated calls
  current,   \* the process-wide current-frame pointer; 0 is NULL
  phase,     \* "idle", "roots", "mark", or "oom" after a fatal OutOfMemory
  scan,      \* the frame the root enumeration reads next
  marked,    \* the mark bits
  gray,      \* marked objects whose field is still to be traced
  pending    \* the slot an interrupted allocation stores into, "collect" or "none"

vars == <<heap, field, stack, depth, current, phase, scan, marked, gray, pending>>

Ref    == Obj \cup {NULL}
Depths == 1..MaxDepth
Frame  == [prev : 0..MaxDepth, slot : [Slots -> Ref]]
EmptyFrame == [prev |-> 0, slot |-> [s \in Slots |-> NULL]]

\* The slot values of the frame of the running call.
Top == stack[depth].slot

SetTop(s, r) == stack' = [stack EXCEPT ![depth].slot[s] = r]

Free == Obj \ heap

Mutator == phase = "idle" /\ pending = "none"

(***************************************************************************)
(* Frame linking (spec 4.3, 6).  A translated function that holds          *)
(* references declares its frame { NULL, n } -- all slots zeroed by the   *)
(* C aggregate initializer -- and links it as its first action.           *)
(***************************************************************************)
il2c_link_execution_frame ==
  /\ Mutator /\ depth < MaxDepth
  /\ stack' = [stack EXCEPT ![depth + 1] = [EmptyFrame EXCEPT !.prev = current]]
  /\ current' = depth + 1
  /\ depth' = depth + 1
  /\ UNCHANGED <<heap, field, phase, scan, marked, gray, pending>>

il2c_unlink_execution_frame == current' = stack[current].prev

\* Normal return: unlink, then the caller stores the returned reference
\* (slot s of the callee) into its own slot t.  A call made from native
\* code (depth 1) hands the reference to an unrooted C local: dropped.
Return(s, t) ==
  /\ Mutator /\ depth > 0
  /\ il2c_unlink_execution_frame
  /\ depth' = depth - 1
  /\ stack' = IF depth > 1
                THEN [stack EXCEPT ![depth - 1].slot[t] = stack[depth].slot[s]]
                ELSE stack
  /\ UNCHANGED <<heap, field, phase, scan, marked, gray, pending>>

\* Mutant: an error exit path that forgets il2c_unlink_execution_frame.
ThrowWithoutUnlink ==
  /\ Mutator /\ depth > 0
  /\ depth' = depth - 1
  /\ UNCHANGED <<heap, field, stack, current, phase, scan, marked, gray, pending>>

\* A propagated error (Cast, InvalidLength) leaves the function: it must
\* unlink on this exit path too.
Throw ==
  /\ Mutator /\ depth > 0
  /\ il2c_unlink_execution_frame
  /\ depth' = depth - 1
  /\ UNCHANGED <<heap, field, stack, phase, scan, marked, gray, pending>>

(***************************************************************************)
(* Reference moves of translated code: ldloc/stloc/dup, ldnull, ldfld,   *)
(* stfld.  They never allocate and never collect.                         *)
(***************************************************************************)
Copy(s, t) ==
  /\ Mutator /\ depth > 0
  /\ SetTop(t, Top[s])
  /\ UNCHANGED <<heap, field, depth, current, phase, scan, marked, gray, pending>>

Clear(t) ==
  /\ Mutator /\ depth > 0
  /\ SetTop(t, NULL)
  /\ UNCHANGED <<heap, field, depth, current, phase, scan, marked, gray, pending>>

LoadField(s, t) ==
  /\ Mutator /\ depth > 0 /\ Top[s] # NULL
  /\ SetTop(t, field[Top[s]])
  /\ UNCHANGED <<heap, field, depth, current, phase, scan, marked, gray, pending>>

StoreField(s, t) ==
  /\ Mutator /\ depth > 0 /\ Top[s] # NULL
  /\ field' = [field EXCEPT ![Top[s]] = Top[t]]
  /\ UNCHANGED <<heap, stack, depth, current, phase, scan, marked, gray, pending>>

(***************************************************************************)
(* Allocator (spec 4.4): carve a free cell, zero it, store the pointer in  *)
(* the caller's frame slot; with no free cell run a full collection and   *)
(* retry once; if still none, OutOfMemory is fatal.                       *)
(***************************************************************************)
\* The mark bits are clear here: the previous sweep cleared them.
StartCollection(why) ==
  /\ phase' = "roots" /\ scan' = current /\ pending' = why
  /\ UNCHANGED <<marked, gray>>

Carve(t) ==
  \E o \in Free :
    /\ heap' = heap \cup {o}
    /\ field' = [field EXCEPT ![o] = NULL]
    /\ SetTop(t, o)

il2c_new_object(t) ==
  /\ Mutator /\ depth > 0
  /\ IF Free # {}
       THEN Carve(t) /\ UNCHANGED <<phase, scan, marked, gray, pending>>
       ELSE StartCollection(t) /\ UNCHANGED <<heap, field, stack, marked, gray>>
  /\ UNCHANGED <<depth, current>>

AllocRetry ==
  /\ phase = "idle" /\ pending \in Slots
  /\ IF Free # {}
       THEN Carve(pending) /\ UNCHANGED phase
       ELSE phase' = "oom" /\ UNCHANGED <<heap, field, stack>>
  /\ pending' = "none"
  /\ UNCHANGED <<depth, current, scan, marked, gray>>

\* requestCollection / __gc_collect__ (spec 6).
il2c_collect ==
  /\ Mutator
  /\ StartCollection("collect")
  /\ UNCHANGED <<heap, field, stack, depth, current>>

ScanFrame ==
  /\ phase = "roots"
  /\ IF scan # 0
       THEN LET found == {stack[scan].slot[s] : s \in Slots} \ ({NULL} \cup marked)
            IN  /\ marked' = marked \cup found
                /\ gray' = gray \cup found
                /\ scan' = stack[scan].prev
                /\ UNCHANGED phase
       ELSE phase' = "mark" /\ UNCHANGED <<scan, marked, gray>>
  /\ UNCHANGED <<heap, field, stack, depth, current, pending>>

\* Mutant: the mark loop traces a field without its null check.
MarkStepWithoutNullCheck ==
  /\ phase = "mark"
  /\ \E o \in gray :
       LET found == {field[o]} \ marked
       IN  /\ marked' = marked \cup found
           /\ gray' = (gray \ {o}) \cup found
  /\ UNCHANGED <<heap, field, stack, depth, current, phase, scan, pending>>

\* Mutant: the mark loop forgets to dequeue the object it traced.
MarkStepWithoutDequeue ==
  /\ phase = "mark"
  /\ \E o \in gray :
       LET found == {field[o]} \ ({NULL} \cup marked)
       IN  /\ marked' = marked \cup found
           /\ gray' = gray \cup found
  /\ UNCHANGED <<heap, field, stack, depth, current, phase, scan, pending>>

MarkStep ==
  /\ phase = "mark"
  /\ \E o \in gray :
       LET found == {field[o]} \ ({NULL} \cup marked)
       IN  /\ marked' = marked \cup found
           /\ gray' = (gray \ {o}) \cup found
  /\ UNCHANGED <<heap, field, stack, depth, current, phase, scan, pending>>

\* Mutant: the sweep leaves the survivors' mark bits set.
SweepKeepingMarks ==
  /\ phase = "mark" /\ gray = {}
  /\ heap' = heap \cap marked
  /\ phase' = "idle"
  /\ pending' = IF pending = "collect" THEN "none" ELSE pending
  /\ UNCHANGED <<marked, field, stack, depth, current, scan, gray>>

Sweep ==
  /\ phase = "mark" /\ gray = {}
  /\ heap' = heap \cap marked
  /\ marked' = {}
  /\ phase' = "idle"
  /\ pending' = IF pending = "collect" THEN "none" ELSE pending
  /\ UNCHANGED <<field, stack, depth, current, scan, gray>>

\* OutOfMemory aborts the process: nothing happens afterwards.
Aborted == phase = "oom" /\ UNCHANGED vars

Init ==
  /\ heap = {}
  /\ field = [o \in Obj |-> NULL]
  /\ stack = [d \in Depths |-> EmptyFrame]
  /\ depth = 0 /\ current = 0
  /\ phase = "idle" /\ scan = 0 /\ marked = {} /\ gray = {}
  /\ pending = "none"

Collector == ScanFrame \/ MarkStep \/ Sweep \/ AllocRetry

\* The translated program as the frame ABI of spec 6 allows it to behave.
Program ==
  \/ il2c_link_execution_frame
  \/ \E s, t \in Slots : Return(s, t) \/ Copy(s, t) \/ LoadField(s, t) \/ StoreField(s, t)
  \/ \E t \in Slots : Clear(t) \/ il2c_new_object(t)
  \/ Throw
  \/ il2c_collect

Next == Program \/ Collector \/ Aborted

\* The collector runs synchronously on the mutator's thread until it is
\* done, so each of its steps is weakly fair.
Spec == Init /\ [][Next]_vars /\ WF_vars(Collector)

(***************************************************************************)
(* Properties                                                              *)
(***************************************************************************)
TypeOK ==
  /\ heap \subseteq Obj
  /\ field \in [Obj -> Ref]
  /\ stack \in [Depths -> Frame]
  /\ depth \in 0..MaxDepth /\ current \in 0..MaxDepth /\ scan \in 0..MaxDepth
  /\ phase \in {"idle", "roots", "mark", "oom"}
  /\ marked \subseteq Obj /\ gray \subseteq marked
  /\ pending \in Slots \cup {"collect", "none"}

\* The references the running program can use: the slots of every active
\* call's frame (by native call depth, not by the linked list) and the
\* fields of every allocated object.
HeldRefs ==
  {stack[d].slot[s] : d \in 1..depth, s \in Slots} \cup {field[o] : o \in heap}

AllocationCompletes == \A t \in Slots : pending = t ~> pending = "none"

\* Refinement: the step-wise root walk, mark loop and sweep implement the
\* collector's promise.  Mark and root steps are invisible; the sweep is one
\* abstract collection, which must free exactly the unreachable objects.
\* The abstract frames are the active calls by native depth, so a frame
\* list that no longer matches the calls shows up here.
GC == INSTANCE GCAbstract
        WITH frames <- [d \in 1..depth |-> stack[d].slot],
             failed <- (phase = "oom")

CollectorImplementsGCAbstract == GC!Spec

=============================================================================
