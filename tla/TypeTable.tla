----------------------------- MODULE TypeTable -----------------------------
(***************************************************************************)
(* The type descriptor table (spec 3, 4.1): one static record per type,   *)
(* giving its kind, its base type and its mark targets (the fields the    *)
(* collector traces).  The records of the sample's own types are the      *)
(* IL2C_RUNTIME_TYPE_BEGIN(type, name, kind, size, base, markTargets,     *)
(* interfaces) blocks of MT3620Blink.c; those of the runtime's System     *)
(* types are not in this repository and follow spec 3, except            *)
(* System.UInt32, whose vtable layout its header declares.                *)
(*                                                                         *)
(* Sizes and names are left out: nothing here depends on them.  A mark    *)
(* target is a field name and the type found there; a value-type target  *)
(* is traced through that type's own targets.                            *)
(***************************************************************************)
EXTENDS Naturals, FiniteSets, Sequences, TLC

NoType == "none"    \* the NULL base of the root type

Descriptor(kind, base, targets) == [kind |-> kind, base |-> base, targets |-> targets]

\* MT3620Blink.c 149-150, 161-162, 173-174, 185-186, 197-199, 282-283, 581-582.
MT3620Blink_timespec == Descriptor("IL2C_TYPE_VALUE", "System_ValueType", {})
MT3620Blink_GPIO_OutputMode_Type == Descriptor("IL2C_TYPE_INTEGER", "System_Enum", {})
MT3620Blink_GPIO_Value_Type == Descriptor("IL2C_TYPE_INTEGER", "System_Enum", {})
MT3620Blink_epoll_data_t == Descriptor("IL2C_TYPE_VALUE", "System_ValueType", {})
\* Mutant: the data union's target emitted as a reference (MARK_TARGET).
MT3620Blink_epoll_event_TracedAsReference ==
  Descriptor("IL2C_TYPE_VALUE", "System_ValueType",
             {[field |-> "data", type |-> "System_String"]})
MT3620Blink_epoll_event ==
  Descriptor("IL2C_TYPE_VALUE", "System_ValueType",
             {[field |-> "data", type |-> "MT3620Blink_epoll_data_t"]})
MT3620Blink_Interops == Descriptor("IL2C_TYPE_REFERENCE", "System_Object", {})
MT3620Blink_Program == Descriptor("IL2C_TYPE_REFERENCE", "System_Object", {})

\* System.UInt32.h 15-21: uint32_t, vtable layout of System.ValueType.
System_UInt32 == Descriptor("IL2C_TYPE_INTEGER", "System_ValueType", {})

\* The runtime's own descriptors (spec 3): the root, the value-type and
\* enum bases, int32 and the string, a leaf for tracing.
SystemDescriptors ==
  [System_Object    |-> Descriptor("IL2C_TYPE_REFERENCE", NoType, {}),
   System_ValueType |-> Descriptor("IL2C_TYPE_VALUE", "System_Object", {}),
   System_Enum      |-> Descriptor("IL2C_TYPE_VALUE", "System_ValueType", {}),
   System_Int32     |-> Descriptor("IL2C_TYPE_INTEGER", "System_ValueType", {}),
   System_String    |-> Descriptor("IL2C_TYPE_REFERENCE", "System_Object", {})]

Table ==
  SystemDescriptors @@
  [MT3620Blink_timespec             |-> MT3620Blink_timespec,
   MT3620Blink_GPIO_OutputMode_Type |-> MT3620Blink_GPIO_OutputMode_Type,
   MT3620Blink_GPIO_Value_Type      |-> MT3620Blink_GPIO_Value_Type,
   MT3620Blink_epoll_data_t         |-> MT3620Blink_epoll_data_t,
   MT3620Blink_epoll_event          |-> MT3620Blink_epoll_event,
   MT3620Blink_Interops             |-> MT3620Blink_Interops,
   MT3620Blink_Program              |-> MT3620Blink_Program,
   System_UInt32                    |-> System_UInt32]

Types == DOMAIN Table

\* Types a value of which can be boxed: value types and integers/enums
\* that are not one of the abstract bases.
Boxable == {t \in Types : Table[t].kind # "IL2C_TYPE_REFERENCE"} \ {"System_ValueType", "System_Enum"}

(***************************************************************************)
(* Vtables.  The header's type pointer is also the vtable pointer; a      *)
(* vtable holds one slot for each virtual method of System.Object, naming *)
(* the function the slot calls.  A type that overrides nothing reuses its *)
(* base's vtable by a #define.                                            *)
(***************************************************************************)
\* System.Object's own slots.  The runtime's vtables are not in this
\* repository: ValueType and Enum are taken to override nothing (spec 4.2
\* gives value equality and hashing only to the primitive wrappers), and
\* Int32 and String to override all three, as System.UInt32.h does.
System_Object_VTABLE__ ==
  [ToString |-> "System_Object_ToString", GetHashCode |-> "System_Object_GetHashCode",
   Equals |-> "System_Object_Equals"]

SystemVTables ==
  [System_Object_VTABLE__    |-> System_Object_VTABLE__,
   System_ValueType_VTABLE__ |-> System_Object_VTABLE__,
   System_Enum_VTABLE__      |-> System_Object_VTABLE__,
   System_Int32_VTABLE__  |-> [ToString |-> "System_Int32_ToString",
                               GetHashCode |-> "System_Int32_GetHashCode",
                               Equals |-> "System_Int32_Equals_1"],
   System_String_VTABLE__ |-> [ToString |-> "System_String_ToString",
                               GetHashCode |-> "System_String_GetHashCode",
                               Equals |-> "System_String_Equals_1"]]

\* System.UInt32.h 17-26: its own vtable of System.ValueType's layout,
\* whose slots are the three functions declared /* virtual */.
System_UInt32_VTABLE__ ==
  [ToString |-> "System_UInt32_ToString", GetHashCode |-> "System_UInt32_GetHashCode",
   Equals |-> "System_UInt32_Equals_1"]

VTables == SystemVTables @@ [System_UInt32_VTABLE__ |-> System_UInt32_VTABLE__]

\* The vtable each type's instances point at.  MT3620Blink.c 33-108: every
\* sample type's VTABLE__ is #defined as its base's (Program's, line 575,
\* too).
VTableOf ==
  [System_Object    |-> "System_Object_VTABLE__",
   System_ValueType |-> "System_ValueType_VTABLE__",
   System_Enum      |-> "System_Enum_VTABLE__",
   System_Int32     |-> "System_Int32_VTABLE__",
   System_String    |-> "System_String_VTABLE__",
   System_UInt32    |-> "System_UInt32_VTABLE__",
   MT3620Blink_timespec             |-> "System_ValueType_VTABLE__",
   MT3620Blink_GPIO_OutputMode_Type |-> "System_Enum_VTABLE__",
   MT3620Blink_GPIO_Value_Type      |-> "System_Enum_VTABLE__",
   MT3620Blink_epoll_data_t         |-> "System_ValueType_VTABLE__",
   MT3620Blink_epoll_event          |-> "System_ValueType_VTABLE__",
   MT3620Blink_Interops             |-> "System_Object_VTABLE__",
   MT3620Blink_Program              |-> "System_Object_VTABLE__"]

\* The function a virtual call of method m on an instance of T reaches.
Dispatch(T, m) == VTables[VTableOf[T]][m]

(***************************************************************************)
(* isAssignableFrom(T, U) (spec 4.1): walk U's base chain, comparing      *)
(* descriptor identity with T, until the root's NULL base.               *)
(***************************************************************************)
IsAssignableFrom(T, U) ==
  LET RECURSIVE Walk(_)
      Walk(u) == IF u = NoType THEN FALSE ELSE u = T \/ Walk(Table[u].base)
  IN  Walk(U)

\* The references the collector finds in a value of type t: its reference
\* targets, and those of its value-type targets, recursively.
RECURSIVE TracedReferences(_)
TracedReferences(t) ==
  UNION {IF Table[m.type].kind = "IL2C_TYPE_REFERENCE"
           THEN {<<m.field>>}
           ELSE {<<m.field>> \o p : p \in TracedReferences(m.type)} : m \in Table[t].targets}

=============================================================================
