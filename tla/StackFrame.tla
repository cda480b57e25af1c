---------------------------- MODULE StackFrame ----------------------------
(***************************************************************************)
(* The snapshot of a function's stack frame, which the kernel keeps as a   *)
(* structure whose members have offsets and sizes in bits.  A member's     *)
(* type is None or one of a few types; a "wide" one is a scalar no type    *)
(* value can hold, an "open" one is never filled.                          *)
(***************************************************************************)
EXTENDS Addresses

NONE == 0            \* the handle of no type

(* The type table the walk builds: each distinct type once.                *)
Interned(types, type) == IF type \in ToSet(types) THEN types ELSE Append(types, type)
HandleOf(types, type) == CHOOSE k \in DOMAIN types : types[k] = type

Reserved(m) == m.retaddr \/ m.savregs

(* The frame as the facade hands it over: only a real and typed variable   *)
(* has its type walked.                                                    *)
frame_type_walk_visit(udt) ==
  LET AddType(types, m) == IF Reserved(m) \/ m.type = None THEN types
                           ELSE Interned(types, m.type[1])
      types == FoldLeft(AddType, <<>>, udt.members)
      Var(m) == [name |-> m.name, offset |-> m.offset \div 8 - udt.fp, size |-> m.size \div 8,
                 flags |-> (IF m.retaddr THEN {"RETADDR"} ELSE {})
                             \cup (IF m.savregs THEN {"SAVREGS"} ELSE {}),
                 ty |-> IF Reserved(m) \/ m.type = None THEN NONE ELSE HandleOf(types, m.type[1])]
  IN [size |-> udt.size, types |-> types,
      vars |-> [k \in DOMAIN udt.members |-> Var(udt.members[k])]]

StackSlotKind == {"Variable", "ReturnAddress", "SavedRegisters"}
slot_from_parts(flags, name, ty) ==
  CASE "RETADDR" \in flags -> <<"ReturnAddress">>
    [] "RETADDR" \notin flags /\ "SAVREGS" \in flags -> <<"SavedRegisters">>
    [] OTHER -> <<"Variable", name, ty>>

StackSlot(v) == [offset |-> v.offset, size |-> v.size,
                 kind |-> slot_from_parts(v.flags, v.name, Unless(v.ty, NONE))]

is_special(slot) == slot.kind[1] # "Variable"
slot_name(slot) == IF is_special(slot) THEN None ELSE Some(slot.kind[2])
slot_ty(slot) == IF is_special(slot) THEN None ELSE slot.kind[3]

StackFrame(walk) == [size |-> walk.size, types |-> walk.types,
                     slots |-> [k \in DOMAIN walk.vars |-> StackSlot(walk.vars[k])]]
variables(f) == SelectSeq(f.slots, LAMBDA slot : ~is_special(slot))
type_of(f, id) == f.types[id]

(* No function or no frame is not an error; a type that could not be built *)
(* is, whatever variable it belongs to.                                    *)
frame(udt) ==
  IF udt = None THEN [frame |-> None]
  ELSE LET walk == frame_type_walk_visit(udt[1])
       IN CASE "wide" \in ToSet(walk.types) -> [error |-> "ScalarTooWide"]
            [] "wide" \notin ToSet(walk.types) /\ "open" \in ToSet(walk.types) ->
                 [error |-> "UnfilledType"]
            [] OTHER -> [frame |-> Some(StackFrame(walk))]
-----------------------------------------------------------------------------
(* What a snapshot has to say of the frame: a slot per member in the same  *)
(* order, as far from the frame pointer and as large in bytes; the real    *)
(* variables under their own name and type, each type in the table and no  *)
(* type there that no variable has; the reserved slots nameless.           *)
FrameFaithful(udt, got) ==
  LET members == udt[1].members
      real == {k \in DOMAIN members : ~members[k].retaddr /\ ~members[k].savregs}
      typed == {k \in real : members[k].type # None}
      faulty == {k \in typed : members[k].type[1] \in {"wide", "open"}}
  IN IF udt = None THEN got = [frame |-> None]
     ELSE IF faulty # {}
     THEN got = [error |-> IF \E k \in faulty : members[k].type[1] = "wide"
                           THEN "ScalarTooWide" ELSE "UnfilledType"]
     ELSE \E f \in ToSet(got.frame) :
            /\ f.size = udt[1].size /\ DOMAIN f.slots = DOMAIN members
            /\ \A k \in DOMAIN members :
                 /\ 8 * (f.slots[k].offset + udt[1].fp) = members[k].offset
                 /\ 8 * f.slots[k].size = members[k].size
                 /\ f.slots[k].kind[1] \in StackSlotKind
                 /\ is_special(f.slots[k]) <=> k \notin real
                 /\ slot_name(f.slots[k]) = IF k \in real THEN Some(members[k].name) ELSE None
                 /\ IF k \in typed
                    THEN /\ slot_ty(f.slots[k]) # None
                         /\ type_of(f, slot_ty(f.slots[k])[1]) = members[k].type[1]
                    ELSE slot_ty(f.slots[k]) = None
            /\ Len(variables(f)) = Cardinality(real)
            /\ ToSet(f.types) = {members[k].type[1] : k \in typed}
=============================================================================
