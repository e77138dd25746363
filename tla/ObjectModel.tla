---------------------------- MODULE ObjectModel ----------------------------
(***************************************************************************)
(* The object model (spec 3, 4.2) over the type table: every heap entity  *)
(* carries the descriptor of its type in its header.  Boxing copies a     *)
(* value-type payload into a new object whose header names that value    *)
(* type; unboxing is a reinterpretation guarded by the descriptor; the    *)
(* cast operations (spec 6) walk the base chain; System.UInt32's          *)
(* Equals taking a System_Object (System.UInt32.h line 26) is a type-     *)
(* checked value comparison.  Collection is left to module Runtime: here *)
(* cells are only allocated.                                              *)
(*                                                                         *)
(* A payload is abstracted to a small integer: the bits of the value.  A *)
(* string's payload is the value its text spells in decimal, or NoNumber *)
(* for a text that is not a number.                                      *)
(***************************************************************************)
EXTENDS Naturals, TypeTable

CONSTANTS
  Obj,       \* the heap cells
  NULL,      \* the null reference
  Payloads,  \* the value bits boxing is tried with
  NoNumber   \* the payload of a string whose text is not a number

ASSUME Payloads \subseteq Nat /\ NoNumber \notin Payloads \cup {0}

VARIABLES
  header,    \* header[o]: the descriptor name of object o, or NoType if free
  body,      \* body[o]: the payload of o
  result     \* what the last operation returned

vars == <<header, body, result>>

Allocated == {o \in Obj : header[o] # NoType}

\* What an operation returned: a payload or a flag in val, whether it
\* failed with the Cast condition, and its operands; this is the receiver's
\* value, or the bool TryParse returns.
Result(op, val, cast, o, T, this) ==
  [op |-> op, val |-> val, cast |-> cast, obj |-> o, type |-> T, this |-> this]

\* box: a new object with the value type's descriptor and a bitwise copy
\* of the payload.
Box(T, v) ==
  \E o \in Obj \ Allocated :
    /\ header' = [header EXCEPT ![o] = T]
    /\ body' = [body EXCEPT ![o] = v]
    /\ result' = Result("box", v, FALSE, o, T, 0)

\* newobj / a string literal: a reference-type instance.
NewObject(T, v) ==
  \E o \in Obj \ Allocated :
    /\ header' = [header EXCEPT ![o] = T]
    /\ body' = [body EXCEPT ![o] = v]
    /\ result' = Result("new", v, FALSE, o, T, 0)

IsInstance(o, T) ==
  /\ result' = Result("isinst", IF o # NULL /\ IsAssignableFrom(T, header[o]) THEN 1 ELSE 0,
                       FALSE, o, T, 0)
  /\ UNCHANGED <<header, body>>

\* castclass: null passes, a non-derived type fails with Cast.
CheckedCast(o, T) ==
  /\ result' = Result("cast", 0, ~(o = NULL \/ IsAssignableFrom(T, header[o])), o, T, 0)
  /\ UNCHANGED <<header, body>>

\* unbox: the payload when the header names exactly T, else Cast.
Unboxed(o, T) ==
  IF header[o] = T THEN [cast |-> FALSE, val |-> body[o]] ELSE [cast |-> TRUE, val |-> 0]

Unbox(o, T) ==
  /\ result' = Result("unbox", Unboxed(o, T).val, Unboxed(o, T).cast, o, T, 0)
  /\ UNCHANGED <<header, body>>

\* System_UInt32_Equals_1(uint32_t* this__, System_Object* obj): true only
\* for a boxed System.UInt32 with the same value; no exception otherwise.
System_UInt32_Equals_1Holds(v, o) == o # NULL /\ header[o] = "System_UInt32" /\ body[o] = v

System_UInt32_Equals_1(v, o) ==
  /\ result' = Result("equals_1", IF System_UInt32_Equals_1Holds(v, o) THEN 1 ELSE 0,
                       FALSE, o, "System_UInt32", v)
  /\ UNCHANGED <<header, body>>

\* System_UInt32_GetHashCode(uint32_t* this__) (line 24), on a boxed UInt32
\* o (this__ points at its body): an identity hash of the value *this__.
System_UInt32_GetHashCode(o) == body[o]

\* System.Object's GetHashCode: a hash of the object's identity.
System_Object_GetHashCode(o) == o

\* o.GetHashCode() through o's vtable.
GetHashCode(o) ==
  LET impl == Dispatch(header[o], "GetHashCode")
      h == CASE impl = "System_UInt32_GetHashCode" -> System_UInt32_GetHashCode(o)
             [] impl = "System_Object_GetHashCode" -> System_Object_GetHashCode(o)
             [] OTHER                              -> body[o]
  IN  /\ result' = Result("hash", h, FALSE, o, header[o], body[o])
      /\ UNCHANGED <<header, body>>

\* System_UInt32_ToString(uint32_t* this__) (line 23): a new string holding
\* the decimal text of *this__; the receiver is left as it was.
System_UInt32_ToString(v) ==
  \E s \in Obj \ Allocated :
    /\ header' = [header EXCEPT ![s] = "System_String"]
    /\ body' = [body EXCEPT ![s] = v]
    /\ result' = Result("tostring", v, FALSE, s, "System_String", v)

\* o.ToString() through o's vtable: a string returns itself; otherwise a
\* new string, holding System.Object's type name (not a number) or the
\* decimal text of the wrapped value.
VirtualToString(o) ==
  LET impl == Dispatch(header[o], "ToString")
  IN  \/ /\ impl = "System_String_ToString"
         /\ result' = Result("vtostring", body[o], FALSE, o, "System_String", o)
         /\ UNCHANGED <<header, body>>
      \/ /\ impl # "System_String_ToString"
         /\ \E s \in Obj \ Allocated :
              LET text == IF impl = "System_Object_ToString" THEN NoNumber ELSE body[o]
              IN  /\ header' = [header EXCEPT ![s] = "System_String"]
                  /\ body' = [body EXCEPT ![s] = text]
                  /\ result' = Result("vtostring", text, FALSE, s, "System_String", o)

\* System_UInt32_TryParse(System_String* s, uint32_t* result) (line 27):
\* true and the value for a decimal text, false and 0 otherwise.
TryParsed(s) == IF body[s] = NoNumber THEN [ok |-> 0, val |-> 0] ELSE [ok |-> 1, val |-> body[s]]

System_UInt32_TryParse(s) ==
  /\ result' = Result("tryparse", TryParsed(s).val, FALSE, s, "System_String", TryParsed(s).ok)
  /\ UNCHANGED <<header, body>>

Init ==
  /\ header = [o \in Obj |-> NoType]
  /\ body = [o \in Obj |-> 0]
  /\ result = Result("none", 0, FALSE, NULL, NoType, 0)

Next ==
  \/ \E T \in Boxable, v \in Payloads : Box(T, v)
  \/ \E v \in Payloads : NewObject("MT3620Blink_Interops", v)
  \/ \E v \in Payloads \cup {NoNumber} : NewObject("System_String", v)
  \/ \E o \in Allocated \cup {NULL}, T \in Types : IsInstance(o, T) \/ CheckedCast(o, T)
  \/ \E o \in Allocated, T \in Boxable : Unbox(o, T)
  \/ \E o \in Allocated \cup {NULL}, v \in Payloads : System_UInt32_Equals_1(v, o)
  \/ \E o \in Allocated : GetHashCode(o)
  \/ \E v \in Payloads : System_UInt32_ToString(v)
  \/ \E o \in Allocated : VirtualToString(o)
  \/ \E s \in Allocated : header[s] = "System_String" /\ System_UInt32_TryParse(s)

Spec == Init /\ [][Next]_vars

(***************************************************************************)
(* Properties                                                              *)
(***************************************************************************)
TypeOK ==
  /\ header \in [Obj -> Types \cup {NoType}]
  /\ body \in [Obj -> Payloads \cup {0, NoNumber}]
  /\ result.op \in {"none", "new", "box", "isinst", "cast", "unbox", "equals_1", "hash",
                   "tostring", "vtostring", "tryparse"}
  /\ result.val \in Payloads \cup {0, 1, NoNumber} \cup Obj
  /\ result.cast \in BOOLEAN /\ result.obj \in Obj \cup {NULL}

\* No value of a type handed across the interop boundary by pointer
\* (timespec to nanosleep, epoll_event to epoll_ctl/epoll_wait) -- boxed
\* on the heap included -- holds a reference the collector would trace
\* through its mark targets (spec 4.6, 6).
InteropStructsHoldNoReferences ==
  \A o \in Allocated :
    header[o] \in {"MT3620Blink_timespec", "MT3620Blink_epoll_event"} => TracedReferences(header[o]) = {}

=============================================================================
