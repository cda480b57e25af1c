---------------------------- MODULE Instruction ----------------------------
(***************************************************************************)
(* Decoding one instruction: the facade folds what the processor module    *)
(* decoded into an InstructionData, with a status for what it cannot, and  *)
(* the instruction is rebuilt from that.                                   *)
(*                                                                         *)
(* An instruction of the kernel's has its length, its operand slots, of    *)
(* which the sixth is where EVEX keeps the mask register, the slots it     *)
(* uses and changes, what it does to the flow, and its EVEX flags.  A      *)
(* register number is <<file, index>>, a file being a block of RegNo.      *)
(***************************************************************************)
EXTENDS Addresses

Ok(x) == [ok |-> x]
Err(why) == [error |-> why]
IsOk(result) == "ok" \in DOMAIN result
Unreachable == -1     \* where the code panics: the two sides have drifted
-----------------------------------------------------------------------------
(* The facade.                                                             *)

PROC_MAXOP == 5
OP_REG == 0
OP_MEM == 1
OP_IMM == 2
OP_NEAR == 3
OP_FAR == 4
FPC_NONE == 0
FPC_ROUNDING == 1
FPC_SAE == 2
REG_NONE == <<"none", 0>>
R_none == REG_NONE

FlowFlag == {"CALL", "RET", "JUMP", "INDIRECT", "STOPS"}

RegisterData(num, cls, width, name) == [num |-> num, cls |-> cls, width |-> width, name |-> name]
none_reg == RegisterData(REG_NONE, 0, 0, <<>>)

(* gpr is ax to r15, which alias by width, byte the byte registers.        *)
ClassOfFile == [gpr |-> 0, byte |-> 0, seg |-> 1, xmm |-> 2, ymm |-> 3, zmm |-> 4, k |-> 5,
                st |-> 6, mm |-> 7, ip |-> 11, bnd |-> 12]
RC_BAD == 255
reg_class_of(r) == IF r[1] \in DOMAIN ClassOfFile THEN ClassOfFile[r[1]] ELSE RC_BAD

(* A name: what it starts with, its index, and for a register that aliases *)
(* the width of the alias.                                                 *)
fill_reg(num, cls, width) ==
  RegisterData(num, cls, width,
               IF num[1] \in {"gpr", "ip"} THEN num \o <<IF width > 0 THEN width ELSE 8>> ELSE num)
fill_special_reg(prefix, index, cls) ==
  RegisterData(<<"index", index>>, cls, 0, <<prefix, index>>)

IndexedFile == [o_fpreg |-> "st", o_mmxreg |-> "mm", o_xmmreg |-> "xmm", o_ymmreg |-> "ymm",
                o_zmmreg |-> "zmm", o_kreg |-> "k"]
SpecialFile == [o_crreg |-> <<"cr", 8>>, o_dbreg |-> <<"dr", 9>>, o_trreg |-> <<"tr", 10>>]
MemoryTypes == {"o_mem", "o_phrase", "o_displ"}

(* The kernel's size of a value type; the unsized ones depend on the       *)
(* processor and are 10 and 16 bytes or none here.                         *)
get_dtype_size(dtype) ==
  CASE dtype = 0 -> 1 [] dtype \in {1, 18} -> 2 [] dtype \in {2, 3} -> 4 [] dtype = 11 -> 6
    [] dtype \in {4, 7} -> 8 [] dtype = 8 -> 16 [] dtype = 16 -> 32 [] dtype = 17 -> 64
    [] dtype \in {5, 6} -> 10 [] dtype = 15 -> 16 [] OTHER -> 0

fill_mem(insn, op) ==
  LET Reg(num) == IF num = R_none THEN none_reg ELSE fill_reg(num, reg_class_of(num), insn.width)
  IN [base |-> Reg(op.base), index |-> Reg(op.index), scale |-> 2 ^ op.scale,
      disp |-> IF op.type = "o_phrase" THEN 0 ELSE op.addr,
      addr |-> IF op.type = "o_mem" THEN op.ea ELSE BADADDR,
      broadcast |-> IF {"EVEX", "b"} \subseteq insn.evex THEN insn.factor ELSE 0]

(* An operand, with the fields that its kind gives a meaning.              *)
OperandData(insn, op, slot, kind, payload) ==
  [kind |-> kind, idx |-> slot, offb |-> op.offb, data_type |-> op.dtype,
   access |-> (IF slot \in insn.use THEN {"READ"} ELSE {})
                \cup (IF slot \in insn.chg THEN {"WRITTEN"} ELSE {}),
   payload |-> payload]

(* What one operand folds into, or the status that refuses it.             *)
classify_op(insn, op, slot) ==
  LET Folded(kind, payload) == Ok(OperandData(insn, op, slot, kind, payload))
      size == get_dtype_size(op.dtype)
  IN CASE op.type = "o_reg" ->
            IF reg_class_of(op.reg) = RC_BAD THEN Err(-4)
            ELSE Folded(OP_REG, fill_reg(op.reg, reg_class_of(op.reg), size))
       [] op.type \in DOMAIN IndexedFile ->
            LET num == <<IndexedFile[op.type], op.reg[2]>>
            IN Folded(OP_REG, fill_reg(num, ClassOfFile[num[1]], size))
       [] op.type \in DOMAIN SpecialFile ->
            Folded(OP_REG, fill_special_reg(SpecialFile[op.type][1], op.reg[2],
                                             SpecialFile[op.type][2]))
       [] op.type \in MemoryTypes -> Folded(OP_MEM, fill_mem(insn, op))
       [] op.type = "o_imm" -> Folded(OP_IMM, op.value)
       [] op.type = "o_near" -> Folded(OP_NEAR, op.ea)
       [] op.type = "o_far" -> Folded(OP_FAR, [sel |-> op.sel, value |-> op.addr])
       [] OTHER -> Err(-3)

Present(ops) == SelectSeq([n \in 1..PROC_MAXOP |-> n], LAMBDA n : ops[n].type # "o_void")

(* The EVEX modifiers of a decoded instruction.                            *)
EvexMask(insn) ==
  LET op6 == insn.ops[6]
  IN IF "EVEX" \in insn.evex /\ op6.type = "o_reg" /\ op6.reg \in {<<"k", n>> : n \in 1..7}
     THEN fill_reg(op6.reg, 5, get_dtype_size(op6.dtype)) ELSE none_reg
EvexControl(insn) ==
  LET has_mem == \E n \in 1..PROC_MAXOP : insn.ops[n].type \in MemoryTypes
  IN CASE ~({"EVEX", "b"} \subseteq insn.evex) \/ has_mem -> [fp |-> FPC_NONE, mode |-> 0]
       [] {"EVEX", "b"} \subseteq insn.evex /\ ~has_mem /\ insn.rounds ->
            [fp |-> FPC_ROUNDING,
             mode |-> (IF "L" \in insn.evex THEN 2 ELSE 0) + IF "VL" \in insn.evex THEN 1 ELSE 0]
       [] OTHER -> [fp |-> FPC_SAE, mode |-> 0]

FlowFlags(insn, has_tgt) ==
  LET jump == insn.jcc \/ insn.ijmp \/ (has_tgt /\ insn.stop /\ ~insn.call /\ ~insn.ret)
  IN {flag \in FlowFlag :
        CASE flag = "CALL" -> insn.call [] flag = "RET" -> insn.ret [] flag = "JUMP" -> jump
          [] flag = "INDIRECT" -> (insn.call \/ jump) /\ ~has_tgt [] flag = "STOPS" -> insn.stop}

InstructionData(insn, is64, ops, tgt) ==
  [status |-> 0, len |-> insn.len, isa |-> IF is64 THEN 1 ELSE 0, itype |-> insn.itype,
   ops |-> ops, mask |-> EvexMask(insn), zeroing |-> {"EVEX", "z"} \subseteq insn.evex,
   control |-> EvexControl(insn), flow |-> FlowFlags(insn, tgt # BADADDR), target |-> tgt]

(* The processor and the instruction at the address, None where nothing    *)
(* decodes, folded: the first operand that is refused ends it.             *)
decode_insn(processor, is64, found) ==
  IF processor # "386" THEN [status |-> -2]
  ELSE IF found = None THEN [status |-> -1]
  ELSE LET insn == found[1]
           slots == Present(insn.ops)
           Fold(n) == classify_op(insn, insn.ops[slots[n]], slots[n] - 1)
           refused == {n \in DOMAIN slots : ~IsOk(Fold(n))}
           first == CHOOSE n \in refused : \A m \in refused : n <= m
           op == insn.ops[slots[first]]
           branches == SelectSeq(slots, LAMBDA n : insn.ops[n].type \in {"o_near", "o_far"}
                                                     /\ insn.ops[n].ea # BADADDR)
           tgt == IF branches = <<>> THEN BADADDR ELSE insn.ops[branches[1]].ea
       IN IF refused # {}
          THEN [status |-> Fold(first).error, err_op |-> slots[first] - 1,
                err_optype |-> IF Fold(first).error = -4 THEN op.reg ELSE op.type]
          ELSE InstructionData(insn, is64, [n \in DOMAIN slots |-> Fold(n).ok], tgt)
-----------------------------------------------------------------------------
(* What is rebuilt from it.                                                *)

RegisterClass == 0..12
OperandDataType == 0..18
RoundMode == 0..3

bytes_of(dtype) ==
  CASE dtype = 0 -> Some(1) [] dtype \in {1, 18} -> Some(2) [] dtype \in {2, 3} -> Some(4)
    [] dtype = 11 -> Some(6) [] dtype \in {4, 7} -> Some(8) [] dtype = 8 -> Some(16)
    [] dtype = 16 -> Some(32) [] dtype = 17 -> Some(64) [] OTHER -> None

name_prefix == (2 :> "xmm" @@ 3 :> "ymm" @@ 4 :> "zmm" @@ 7 :> "mm" @@ 5 :> "k" @@ 12 :> "bnd"
                @@ 6 :> "st" @@ 8 :> "cr" @@ 9 :> "dr" @@ 10 :> "tr")
from_name(name) ==
  LET classes == {c \in DOMAIN name_prefix : name_prefix[c] = name[1]}
  IN IF classes = {} THEN None ELSE Some(CHOOSE c \in classes : TRUE)

register(r) ==
  IF r.num = REG_NONE THEN None
  ELSE Some([number |-> r.num, class |-> IF r.cls \in RegisterClass THEN r.cls ELSE Unreachable,
             width |-> r.width, name |-> r.name])

MemoryOf(m) ==
  [base |-> register(m.base), index |-> register(m.index), scale |-> m.scale,
   displacement |-> m.disp, segment |-> None, target |-> try_new(m.addr),
   broadcast |-> Unless(m.broadcast, 0)]

(* An operand that contradicts its kind is malformed, before its value     *)
(* type is looked at.                                                      *)
operand(o, a) ==
  LET kind == CASE o.kind = OP_REG -> <<"Register">> \o register(o.payload)
                [] o.kind = OP_MEM -> <<"Memory", MemoryOf(o.payload)>>
                [] o.kind = OP_IMM -> <<"Immediate", o.payload>>
                [] o.kind = OP_NEAR -> <<"Near">> \o try_new(o.payload)
                [] o.kind = OP_FAR -> <<"Far", o.payload>>
  IN CASE Len(kind) = 1 -> Err(<<"MalformedOperand", a, o.idx>>)
       [] Len(kind) = 2 /\ o.data_type \notin OperandDataType ->
            Err(<<"UnsupportedDataType", a, o.idx, o.data_type>>)
       [] OTHER -> Ok([slot |-> o.idx, byte_offset |-> o.offb, kind |-> kind,
                       data_type |-> o.data_type,
                       access |-> [read |-> "READ" \in o.access,
                                   written |-> "WRITTEN" \in o.access]])

MaskingOf(data) == LET mask == register(data.mask)
                 IN IF mask = None THEN None
                    ELSE Some([register |-> mask[1], zeroing |-> data.zeroing])
FpControlOf(control) ==
  CASE control.fp = FPC_NONE -> None
    [] control.fp = FPC_ROUNDING ->
         Some(<<"Rounding", IF control.mode \in RoundMode THEN control.mode ELSE Unreachable>>)
    [] control.fp = FPC_SAE -> Some(<<"SuppressExceptions">>)
FlowOf(data) ==
  [is_call |-> "CALL" \in data.flow, is_ret |-> "RET" \in data.flow,
   is_jump |-> "JUMP" \in data.flow, is_indirect |-> "INDIRECT" \in data.flow,
   stops |-> "STOPS" \in data.flow, target |-> try_new(data.target)]

insn_from_data(data, a) ==
  LET ops == [n \in DOMAIN data.ops |-> operand(data.ops[n], a)]
      bad == {n \in DOMAIN ops : ~IsOk(ops[n])}
  IN IF bad # {} THEN ops[CHOOSE n \in bad : \A m \in bad : n <= m]
     ELSE Ok([address |-> a, len |-> data.len, isa |-> IF data.isa = 1 THEN "X64" ELSE "X86",
              canonical_code |-> data.itype, ops |-> [n \in DOMAIN ops |-> ops[n].ok],
              masking |-> MaskingOf(data), fp_control |-> FpControlOf(data.control),
              flow |-> FlowOf(data)])

classify(data, a) ==
  CASE data.status = 0 -> insn_from_data(data, a)
    [] data.status = -2 -> Err(<<"UnsupportedProcessor">>)
    [] data.status = -3 -> Err(<<"UnsupportedOperand", a, data.err_op, data.err_optype>>)
    [] data.status = -4 -> Err(<<"UnsupportedRegister", a, data.err_op, data.err_optype>>)
    [] OTHER -> Err(<<"NotCode", a>>)

(* Every register the operands name, in order: a memory operand's base,    *)
(* index and segment.                                                      *)
registers(insn) ==
  LET RegistersOf(kind) == CASE kind[1] = "Register" -> <<kind[2]>>
                             [] kind[1] = "Memory" ->
                                  kind[2].base \o kind[2].index \o kind[2].segment
                             [] OTHER -> <<>>
      AddRegisters(sum, op) == sum \o RegistersOf(op.kind)
  IN FoldLeft(AddRegisters, <<>>, insn.ops)
-----------------------------------------------------------------------------
(* The values a caller gets.                                               *)

Option(set) == {None} \cup {Some(x) : x \in set}
DecodeError == {"NotCode", "UnsupportedProcessor", "UnsupportedOperand", "UnsupportedRegister",
                "UnsupportedDataType", "MalformedOperand"}
Isa == {"X86", "X64"}
OperandKind == {"Register", "Memory", "Immediate", "Near", "Far"}
Access == [read : BOOLEAN, written : BOOLEAN]
Flow == [is_call : BOOLEAN, is_ret : BOOLEAN, is_jump : BOOLEAN, is_indirect : BOOLEAN,
         stops : BOOLEAN, target : Option(Address)]
FpControl == {<<"Rounding", mode>> : mode \in RoundMode} \cup {<<"SuppressExceptions">>}
Register(r) == r.class \in RegisterClass /\ r.width \in {0, 1, 2, 4, 6, 8, 10, 16, 32, 64}
Masking(m) == Register(m.register) /\ m.register.class = 5 /\ m.zeroing \in BOOLEAN
Memory(m) ==
  /\ \A r \in ToSet(m.base \o m.index) : Register(r)
  /\ m.segment = None /\ m.scale \in {1, 2, 4, 8}
  /\ m.target \in Option(Address) /\ m.broadcast \in Option(1..255)
Operand(op) ==
  /\ op.slot \in 0..4 /\ op.data_type \in OperandDataType /\ op.access \in Access
  /\ op.kind[1] \in OperandKind
  /\ op.kind[1] = "Register" => Register(op.kind[2])
  /\ op.kind[1] = "Memory" => Memory(op.kind[2])
  /\ op.kind[1] = "Near" => op.kind[2] \in Address
Instruction(insn) ==
  /\ insn.address \in Address /\ insn.isa \in Isa /\ insn.flow \in Flow
  /\ \A op \in ToSet(insn.ops) : Operand(op)
  /\ \A mask \in ToSet(insn.masking) : Masking(mask)
  /\ insn.fp_control = None \/ insn.fp_control[1] \in FpControl
-----------------------------------------------------------------------------
(* What a decoded instruction has to say of the kernel's, whatever the     *)
(* steps it went through.                                                  *)

Slot(n) == n - 1
Filled(insn) == {n \in 1..5 : insn.ops[n].type # "o_void"}
KnownTypes == {"o_reg", "o_imm", "o_near", "o_far"} \cup DOMAIN IndexedFile
                \cup DOMAIN SpecialFile \cup MemoryTypes
Unfoldable(op) == op.type \notin KnownTypes \/ (op.type = "o_reg" /\ reg_class_of(op.reg) = RC_BAD)
Unsound(op) == (op.type = "o_near" /\ op.ea = BADADDR) \/ op.dtype \notin OperandDataType
Decodable(insn) == \A n \in Filled(insn) : ~Unfoldable(insn.ops[n]) /\ ~Unsound(insn.ops[n])
FirstOf(set) == CHOOSE n \in set : \A m \in set : n <= m

(* Which operand is blamed: one the facade cannot fold before any that     *)
(* only the rebuilding refuses, the first of each.                         *)
BlamesRightly(insn, why, a) ==
  LET unfoldable == {n \in Filled(insn) : Unfoldable(insn.ops[n])}
      unsound == {n \in Filled(insn) : Unsound(insn.ops[n])}
      blamed == FirstOf(IF unfoldable # {} THEN unfoldable ELSE unsound)
      op == insn.ops[blamed]
  IN /\ why[2] = a /\ why[3] = Slot(blamed)
     /\ why[1] = IF unfoldable # {}
                 THEN IF op.type = "o_reg" THEN "UnsupportedRegister" ELSE "UnsupportedOperand"
                 ELSE IF op.type = "o_near" /\ op.ea = BADADDR THEN "MalformedOperand"
                 ELSE "UnsupportedDataType"

(* The registers an operand of the kernel's names.                         *)
Named(op) ==
  CASE op.type = "o_reg" -> {op.reg} [] op.type \in MemoryTypes -> {op.base, op.index} \ {R_none}
    [] op.type \in DOMAIN IndexedFile -> {<<IndexedFile[op.type], op.reg[2]>>}
    [] op.type \in DOMAIN SpecialFile -> {<<"index", op.reg[2]>>}
    [] OTHER -> {}

(* Nothing is lost and nothing made up: the operands are those of the      *)
(* filled slots, in order and under their own slot; every register named   *)
(* is there, in a class its spelling does not contradict and as wide as    *)
(* the value type says; the mask is never an operand, zeroing needs a      *)
(* mask, rounding or suppression excludes a memory operand, a broadcast    *)
(* needs one; and a transfer either has its target or is indirect.         *)
InsnFaithful(insn, got) ==
  LET mem == {n \in DOMAIN got.ops : got.ops[n].kind[1] = "Memory"}
      branch == {n \in Filled(insn) : insn.ops[n].type \in {"o_near", "o_far"}
                                        /\ insn.ops[n].ea # BADADDR}
      flow == got.flow
  IN /\ Instruction(got)
     /\ got.len = insn.len /\ got.canonical_code = insn.itype
     /\ Len(got.ops) = Cardinality(Filled(insn))
     /\ \A n \in DOMAIN got.ops :
          LET op == got.ops[n] IN
          /\ op.slot \in {Slot(m) : m \in Filled(insn)}
          /\ \A m \in DOMAIN got.ops : m < n => got.ops[m].slot < op.slot
          /\ op.access = [read |-> op.slot \in insn.use, written |-> op.slot \in insn.chg]
          /\ (op.kind[1] = "Register" /\ op.kind[2].class \notin 8..10) =>
               bytes_of(op.data_type) \in {None, Some(op.kind[2].width)}
     /\ {r.number : r \in ToSet(registers(got))} = UNION {Named(insn.ops[n]) : n \in Filled(insn)}
     /\ \A r \in ToSet(registers(got)) :
          from_name(r.name) = IF r.class \in {0, 1, 11} THEN None ELSE Some(r.class)
     /\ \A mask \in ToSet(got.masking) : mask.register.number[2] # 0
     /\ (got.masking # None) <=> ("EVEX" \in insn.evex /\ insn.ops[6].type = "o_reg")
     /\ got.fp_control # None => mem = {} /\ {"EVEX", "b"} \subseteq insn.evex
     /\ \A n \in mem : got.ops[n].kind[2].broadcast # None => got.fp_control = None
     /\ flow.target = IF branch = {} THEN None ELSE Some(insn.ops[FirstOf(branch)].ea)
     /\ flow.is_indirect <=> (flow.is_call \/ flow.is_jump) /\ flow.target = None
     /\ (flow.target # None /\ flow.stops) => flow.is_jump \/ flow.is_call \/ flow.is_ret

DecodeFaithful(processor, found, a, result) ==
  CASE processor # "386" -> result = Err(<<"UnsupportedProcessor">>)
    [] processor = "386" /\ found = None -> result = Err(<<"NotCode", a>>)
    [] OTHER -> IF Decodable(found[1])
                THEN IsOk(result) /\ result.ok.address = a /\ InsnFaithful(found[1], result.ok)
                ELSE /\ ~IsOk(result) /\ result.error[1] \in DecodeError
                     /\ BlamesRightly(found[1], result.error, a)
=============================================================================
