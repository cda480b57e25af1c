------------------------------ MODULE Segment ------------------------------
(***************************************************************************)
(* The view of one segment: every accessor asks the kernel by index, and   *)
(* an absent value comes back as a sentinel of that field.  A segment of   *)
(* the kernel's is a record of its fields, with None for a text it lacks.  *)
(***************************************************************************)
EXTENDS Addresses

DEFCOLOR == BADADDR
BADSEL == BADADDR
SEG_NORM == 0

(* The field of segment n, or what the facade answers when there is none;  *)
(* a text is refused when there is none.                                   *)
seg_scalar(segs, n, field, absent) == IF n + 1 \in DOMAIN segs THEN segs[n + 1][field] ELSE absent
seg_string(segs, n, field) == IF n + 1 \in DOMAIN segs THEN segs[n + 1][field] ELSE None

start(segs, n) == try_new(seg_scalar(segs, n, "start", BADADDR))
end(segs, n) == try_new(seg_scalar(segs, n, "end", BADADDR))

(* A read of a range that is partly unmapped gives nothing.                *)
get_bytes(memory, a, len) ==
  IF \A k \in 0..(len - 1) : a + k \in DOMAIN memory THEN [k \in 1..len |-> memory[a + k - 1]]
  ELSE <<>>
segment_bytes(segs, n, memory) ==
  IF start(segs, n) = None \/ end(segs, n) = None THEN None
  ELSE Some(get_bytes(memory, start(segs, n)[1], distance_to(start(segs, n)[1], end(segs, n)[1])))

(* The predefined classes; any other text is carried as it is.             *)
SegmentClass == [CODE |-> "Code", DATA |-> "Data", CONST |-> "Const", STACK |-> "Stack",
                 BSS |-> "Bss", XTRN |-> "External", COMM |-> "Common", ABS |-> "Absolute"]
class_from_raw(raw) == IF raw \in DOMAIN SegmentClass THEN <<SegmentClass[raw]>>
                       ELSE <<"Other", raw>>
class_to_string(class) ==
  IF class[1] = "Other" THEN class[2]
  ELSE CHOOSE raw \in DOMAIN SegmentClass : SegmentClass[raw] = class[1]

Bitness == {16, 32, 64}
SegmentType == (0..4) \cup (6..12)
SegmentAlignment == 0..14
SegmentCombination == {0, 1, 2} \cup (4..7)

View(segs, n, memory) ==
  LET Raw(field, absent) == seg_scalar(segs, n, field, absent)
      class_name == seg_string(segs, n, "class")
      permissions == Raw("perm", {})
      flags == Raw("flags", {})
  IN [index |-> n, name |-> seg_string(segs, n, "name"),
      start |-> start(segs, n), end |-> end(segs, n),
      bytes |-> segment_bytes(segs, n, memory), class_name |-> class_name,
      class |-> IF class_name = None THEN None ELSE Some(class_from_raw(class_name[1])),
      bitness |-> TryFrom(Bitness, Raw("abits", 0)),
      is_readable |-> "READ" \in permissions, is_writable |-> "WRITE" \in permissions,
      is_executable |-> "EXEC" \in permissions, selector |-> Raw("sel", BADSEL),
      kind |-> TryFrom(SegmentType, Raw("type", SEG_NORM)),
      color |-> Unless(Raw("color", DEFCOLOR), DEFCOLOR),
      alignment |-> TryFrom(SegmentAlignment, Raw("align", 0)),
      combination |-> TryFrom(SegmentCombination, Raw("comb", 0)),
      is_visible |-> "HIDDEN" \notin flags, is_debugger |-> "DEBUG" \in flags,
      is_loader |-> "LOADER" \in flags, is_type_hidden |-> "HIDETYPE" \in flags,
      is_header |-> "HEADER" \in flags,
      comment |-> [repeatable \in BOOLEAN |->
                     seg_string(segs, n, IF repeatable THEN "rptcmt" ELSE "cmt")]]
-----------------------------------------------------------------------------
(* What a view has to say of the segment that holds an address: bounds     *)
(* around it, the bytes between them when all are mapped, its class text   *)
(* unchanged by classification, its color when it has one, no code the     *)
(* SDK does not define, and the comment of each channel on that channel.   *)
ViewFaithful(seg, a, memory, view) ==
  /\ view.start # None /\ view.end # None
  /\ view.start[1] <= a /\ a < view.end[1]
  /\ \E read \in {view.bytes[1]} :
       IF seg.start..(seg.end - 1) \subseteq DOMAIN memory
       THEN /\ Len(read) = seg.end - seg.start
            /\ \A at \in seg.start..(seg.end - 1) : read[at - seg.start + 1] = memory[at]
       ELSE read = <<>>
  /\ view.class_name = seg.class /\ view.name = seg.name
  /\ seg.class # None => class_to_string(view.class[1]) = seg.class[1]
  /\ view.color = SelectSeq(<<seg.color>>, LAMBDA c : c # DEFCOLOR)
  /\ view.selector = seg.sel
  /\ \A code \in ToSet(view.kind) : code = seg.type /\ code # 5
  /\ view.kind = None => seg.type \in {5} \cup (13..255)
  /\ \A code \in ToSet(view.combination) : code = seg.comb /\ code # 3
  /\ \A code \in ToSet(view.alignment) : code = seg.align
  /\ \A bits \in ToSet(view.bitness) : bits = seg.abits
  /\ seg.perm = {} => ~view.is_readable /\ ~view.is_writable /\ ~view.is_executable
  /\ view.is_executable <=> "EXEC" \in seg.perm
  /\ view.is_type_hidden <=> "HIDETYPE" \in seg.flags
  /\ view.is_visible <=> "HIDDEN" \notin seg.flags
  /\ view.comment[TRUE] = seg.rptcmt /\ view.comment[FALSE] = seg.cmt
=============================================================================
