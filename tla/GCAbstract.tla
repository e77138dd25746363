----------------------------- MODULE GCAbstract -----------------------------
(***************************************************************************)
(* What the collector promises (spec 4.5, 4.4, 7): a collection reclaims   *)
(* an object iff it is unreachable from the root set -- the reference     *)
(* slots of the active calls' frames -- at the start of the collection;   *)
(* an allocation hands out a cell that is not allocated; OutOfMemory is   *)
(* reported only when every cell holds a reachable object.  The program   *)
(* may do anything with the references it can reach, and nothing else.   *)
(***************************************************************************)
EXTENDS Naturals, Sequences

CONSTANTS Obj, NULL, Slots, MaxDepth

VARIABLES
  heap,     \* the allocated objects
  field,    \* the traced field of every object
  frames,   \* frames[d]: the slots of the frame of the active call at depth d
  failed    \* the process has aborted with OutOfMemory

vars == <<heap, field, frames, failed>>

Ref == Obj \cup {NULL}

\* The objects reachable from the set of objects S through fields.
RECURSIVE Closure(_, _)
Closure(S, f) ==
  LET next == S \cup ({f[o] : o \in S} \ {NULL})
  IN  IF next = S THEN S ELSE Closure(next, f)

Roots(fr) == {fr[d][s] : d \in DOMAIN fr, s \in Slots} \ {NULL}

Reachable == Closure(Roots(frames), field)

\* Any sequence of calls, returns and reference moves: afterwards the
\* frames and the reachable objects' fields hold only references that were
\* reachable before, and unreachable objects are untouched.
Mutate ==
  /\ ~failed
  /\ Len(frames') <= MaxDepth
  /\ \A d \in DOMAIN frames' : frames'[d] \in [Slots -> Ref]
  /\ field' \in [Obj -> Ref]
  /\ Roots(frames') \subseteq Reachable
  /\ \A o \in heap : field'[o] # field[o] => o \in Reachable /\ field'[o] \in Reachable \cup {NULL}
  /\ \A o \in Obj \ heap : field'[o] = field[o]
  /\ UNCHANGED <<heap, failed>>

\* An allocation stores a fresh, zeroed object into a slot of the running call.
Allocate ==
  /\ ~failed /\ frames # << >>
  /\ \E o \in Obj \ heap, t \in Slots :
       /\ heap' = heap \cup {o}
       /\ field' = [field EXCEPT ![o] = NULL]
       /\ frames' = [frames EXCEPT ![Len(frames)][t] = o]
  /\ UNCHANGED failed

Collect ==
  /\ ~failed
  /\ heap' = heap \cap Reachable
  /\ UNCHANGED <<field, frames, failed>>

OutOfMemory ==
  /\ ~failed
  /\ heap = Obj /\ heap \subseteq Reachable
  /\ failed' = TRUE
  /\ UNCHANGED <<heap, field, frames>>

Init ==
  /\ heap = {}
  /\ field = [o \in Obj |-> NULL]
  /\ frames = << >>
  /\ failed = FALSE

Next == Mutate \/ Allocate \/ Collect \/ OutOfMemory

Spec == Init /\ [][Next]_vars

=============================================================================
