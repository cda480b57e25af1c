------------------------------ MODULE MCViews ------------------------------
(* A program with a function in two chunks and a table in its body, the     *)
(* same program after an edit, and a database of another processor with     *)
(* nothing in it.                                                           *)
EXTENDS Views

Item(end, class, insn) == [end |-> end, class |-> class, insn |-> insn]

(* The instructions of the images.                                          *)
Gpr(n) == <<"gpr", n>>
NoReg == Insn!R_none
Void == [type |-> "o_void"]
Op(type, reg, dtype) == [type |-> type, reg |-> reg, dtype |-> dtype, offb |-> 0]
Mem(type, base, index, addr, ea) ==
  [type |-> type, base |-> base, index |-> index, scale |-> 1, addr |-> addr, ea |-> ea,
   dtype |-> 2, offb |-> 1]
Near(ea) == [type |-> "o_near", ea |-> ea, dtype |-> 9, offb |-> 1]
Far(sel, addr, ea) == [type |-> "o_far", sel |-> sel, addr |-> addr, ea |-> ea, dtype |-> 9, offb |-> 1]
Imm(value, dtype) == [type |-> "o_imm", value |-> value, dtype |-> dtype, offb |-> 1]
Slots6(ops, mask) == [n \in 1..6 |-> IF n \in DOMAIN ops THEN ops[n] ELSE IF n = 6 THEN mask ELSE Void]
Plain(len, itype, ops) ==
  [len |-> len, itype |-> itype, ops |-> Slots6(ops, Void), use |-> {1}, chg |-> {0}, width |-> 8,
   stop |-> FALSE, call |-> FALSE, ret |-> FALSE, ijmp |-> FALSE, jcc |-> FALSE,
   evex |-> {}, rounds |-> FALSE, factor |-> 0]
Evex(insn, mask, flags, rounds, factor) ==
  [insn EXCEPT !.ops[6] = mask, !.evex = {"EVEX"} \cup flags, !.rounds = rounds, !.factor = factor]

Nop == Plain(1, 0, <<>>)
Mov == Plain(1, 1, <<Op("o_reg", Gpr(0), 2), Mem("o_displ", Gpr(5), <<"xmm", 1>>, 4, BADADDR)>>)
Jmp == [Plain(1, 2, <<Near(1)>>) EXCEPT !.stop = TRUE]
CallFar == [Plain(1, 3, <<Far(1, 2, 5)>>) EXCEPT !.call = TRUE]
CallMem == [Plain(1, 3, <<Mem("o_mem", NoReg, NoReg, 3, 4)>>) EXCEPT !.call = TRUE]
Jcc == [Plain(1, 4, <<Near(BADADDR)>>) EXCEPT !.jcc = TRUE]
Ret == [Plain(1, 5, <<Void, Imm(8, 1)>>) EXCEPT !.ret = TRUE, !.stop = TRUE]
AddRound == Evex(Plain(1, 6, <<Op("o_reg", <<"zmm", 1>>, 17), Op("o_zmmreg", <<"zmm", 2>>, 17)>>),
                 Op("o_reg", <<"k", 2>>, 1), {"b", "z", "L", "VL"}, TRUE, 0)
MaxSae == Evex(Plain(1, 7, <<Op("o_reg", <<"xmm", 1>>, 8)>>), Void, {"b", "z"}, FALSE, 0)
AddBroadcast == Evex(Plain(1, 6, <<Op("o_reg", <<"ymm", 1>>, 16), Mem("o_phrase", Gpr(3), NoReg, 2, BADADDR)>>),
                     Op("o_reg", <<"k", 7>>, 1), {"b"}, TRUE, 16)
MovCr == Plain(1, 8, <<Op("o_crreg", <<"cr", 0>>, 7), Op("o_reg", <<"byte", 2>>, 0), Op("o_fpreg", <<"st", 3>>, 5)>>)
OddType == Plain(1, 9, <<Imm(1, 19), Op("o_idpspec5", Gpr(0), 2)>>)
OddReg == Plain(1, 9, <<Void, Op("o_reg", <<"flags", 0>>, 2), Op("o_idpspec5", Gpr(0), 2)>>)
OddValue == Plain(1, 9, <<Op("o_reg", <<"seg", 1>>, 1), Imm(1, 19), Near(BADADDR)>>)
IpRel == [Plain(1, 10, <<Mem("o_mem", <<"ip", 0>>, NoReg, 2, 6)>>) EXCEPT !.ijmp = TRUE, !.stop = TRUE]

Undefined == [a \in Address |-> Item(a + 1, "unknown", <<Nop>>)]
In(j) == <<"in", j>>
Out(target, noreturn) == <<"out", target, noreturn>>
Block(start, end, kind, edges) == [start |-> start, end |-> end, kind |-> kind, edges |-> edges]

Member(name, offset, size, type) ==
  [name |-> name, offset |-> offset, size |-> size, type |-> <<type>>, retaddr |-> FALSE, savregs |-> FALSE]
Saved(offset) == [Member(" s", offset, 32, "int") EXCEPT !.savregs = TRUE]
Return(offset) == [Member(" r", offset, 32, "wide") EXCEPT !.retaddr = TRUE]

Main ==
  [start |-> 1, end |-> 4, tails |-> <<<<5, 7>>>>, named |-> "User", name |-> "main",
   flags |-> {"LIB", "NORET"}, bits |-> 64, cmt |-> "", rptcmt |-> "r", returns |-> FALSE,
   frame |-> <<0>>, color |-> <<>>,
   udt |-> <<[size |-> 16, fp |-> 8,
              members |-> <<Member("v", 0, 32, "int"), Member("w", 32, 32, "ptr"), Saved(64), Return(96),
                            [Member("a", 128, 32, "int") EXCEPT !.type = <<>>], Member("b", 160, 32, "int")>>]>>,
   blocks |->
     [whole |-> <<Block(1, 4, 0, <<In(1), Out(4, FALSE)>>), Block(5, 7, 4, <<In(0), Out(0, TRUE)>>)>>,
      split |-> <<Block(1, 2, 0, <<In(1)>>), Block(2, 4, 0, <<Out(4, FALSE), In(2)>>),
                  Block(5, 7, 4, <<Out(0, TRUE), In(0), In(2)>>)>>]]
Stub ==
  [start |-> 4, end |-> 5, tails |-> <<>>, named |-> "Dummy", name |-> "",
   flags |-> {"THUNK"}, bits |-> 0, cmt |-> "c", rptcmt |-> "", returns |-> TRUE,
   frame |-> <<>>, color |-> <<0>>, udt |-> <<>>,
   blocks |-> [whole |-> <<Block(4, 5, 6, <<>>)>>, split |-> <<Block(4, 5, 2, <<>>)>>]]

First ==
  [min_ea |-> 1, max_ea |-> 7,
   bytes |-> (1 :> <<0, 1>> @@ 2 :> <<0, 1>> @@ 3 :> <<0, 1>> @@ 4 :> <<1, 0>> @@ 5 :> <<1, 1>> @@ 6 :> <<0, 0>>),
   items |-> (0 :> Item(1, "unknown", <<OddReg>>) @@ 1 :> Item(2, "code", <<Mov>>)
              @@ 2 :> Item(4, "data", <<AddRound>>) @@ 3 :> Item(4, "tail", <<OddType>>)
              @@ 4 :> Item(5, "code", <<OddValue>>) @@ 5 :> Item(6, "code", <<Jmp>>)
              @@ 6 :> Item(BADADDR, "code", <<MovCr>>) @@ 7 :> Item(BADADDR, "unknown", <<>>)),
   processor |-> "386", is64 |-> TRUE,
   functions |-> {Main, Stub}, func_list |-> <<1, BADADDR, 4>>,
   segments |->
     <<[start |-> 1, end |-> 4, name |-> <<".text">>, class |-> <<"CODE">>, abits |-> 64,
        perm |-> {"READ", "EXEC"}, sel |-> 1, type |-> 2, color |-> BADADDR, flags |-> {"LOADER"},
        align |-> 14, comb |-> 2, cmt |-> <<>>, rptcmt |-> <<"c">>],
       [start |-> 4, end |-> 7, name |-> <<>>, class |-> <<"UNK">>, abits |-> 0, perm |-> {},
        sel |-> 2, type |-> 5, color |-> 0, flags |-> {"HIDETYPE", "HEADER"},
        align |-> 15, comb |-> 3, cmt |-> <<"d">>, rptcmt |-> <<>>]>>,
   names |-> <<[ea |-> 1, name |-> <<"main">>], [ea |-> BADADDR, name |-> <<>>], [ea |-> 4, name |-> <<>>]>>,
   strings |-> <<[ea |-> 2, length |-> 2, width |-> 1, layout |-> 0],
                 [ea |-> BADADDR, length |-> 0, width |-> 0, layout |-> 0],
                 [ea |-> 6, length |-> -1, width |-> 0, layout |-> 3]>>,
   exports |-> <<1, BADADDR>>,
   imports |-> <<[module |-> "k", rows |-> <<[ea |-> 6, ord |-> <<>>, name |-> <<"f">>],
                                            [ea |-> BADADDR, ord |-> <<3>>, name |-> <<>>]>>],
                 [module |-> "u", rows |-> <<[ea |-> 5, ord |-> <<2>>, name |-> <<>>]>>]>>,
   xrefs |-> <<[from |-> 1, to |-> 5, kind |-> <<"Code", 21>>, origin |-> "Analysis"],
               [from |-> 1, to |-> 5, kind |-> <<"Code", 9>>, origin |-> "Analysis"],
               [from |-> 1, to |-> BADADDR, kind |-> <<"Data", 1>>, origin |-> "Analysis"],
               [from |-> 1, to |-> 5, kind |-> <<"Data", 3>>, origin |-> "User"]>>]

Second ==
  [First EXCEPT
     !.bytes[2] = <<1, 0>>, !.strings = <<[ea |-> 3, length |-> 1, width |-> 2, layout |-> 1]>>,
     !.functions = {[Main EXCEPT !.end = 3, !.tails = <<>>, !.named = "Auto",
                                 !.udt[1].members[2].type = <<"open">>,
                                 !.blocks["whole"] = <<Block(1, 3, 2, <<>>)>>]},
     !.func_list = <<1>>, !.names = <<>>, !.is64 = FALSE,
     !.segments = <<[First.segments[1] EXCEPT !.start = 0, !.end = 7, !.class = <<>>, !.flags = {"HIDDEN", "DEBUG"}]>>,
     !.items[0] = Item(1, "unknown", <<CallFar>>), !.items[1] = Item(2, "code", <<CallMem>>),
     !.items[2] = Item(3, "code", <<AddBroadcast>>), !.items[3] = Item(4, "unknown", <<Jcc>>),
     !.items[4] = Item(5, "code", <<MaxSae>>), !.items[5] = Item(6, "code", <<Ret>>),
     !.items[6] = Item(BADADDR, "code", <<IpRel>>), !.xrefs = <<>>]

Nothing ==
  [min_ea |-> BADADDR, max_ea |-> BADADDR, bytes |-> <<>>, items |-> Undefined,
   processor |-> "arm", is64 |-> TRUE,
   functions |-> {}, func_list |-> <<>>, segments |-> <<>>, names |-> <<>>, strings |-> <<>>,
   exports |-> <<>>, imports |-> <<>>, xrefs |-> <<>>]

CONSTANTS s1, s2
MCMayHold == s1 :> (Borrowing \cup {"imports", "xrefs", "chunks", "rejected", "reads", "chart"})
             @@ s2 :> {"strings", "imports"}

MCImages == [first |-> First, second |-> Second, nothing |-> Nothing]

MCHexTexts ==
  {<<>>, <<<<"?">>>>, <<<<"1">>>>, <<<<"?", "1">>, <<"0", "?">>>>, <<<<"1", "?">>, <<"?">>>>,
   <<<<"?">>, <<"z">>, <<"0", "1", "1">>>>, <<<<"0", "1">>, <<"0", "1">>>>}
MCCodeMasks == {<<<<<<0, 1>>, <<1, 1>>>>, <<"x", "?">>>>, <<<<<<0, 1>>>>, <<"x", ".">>>>,
                <<<<<<0, 1>>>>, <<"q">>>>, <<<<<<0, 1>>>>, <<"?">>>>}
MCByteMasks == {<<<<<<0, 1>>>>, <<>>>>, <<<<>>, <<>>>>, <<<<<<1, 1>>>>, <<<<<<TRUE, FALSE>>>>>>>>,
                <<<<<<0, 1>>>>, <<<<>>>>>>}
MCIdaPatterns == {Unparseable, [bytes |-> <<<<0, 0>>>>, mask |-> <<>>],
                  [bytes |-> <<<<0, 0>>>>, mask |-> <<<<FALSE, FALSE>>>>],
                  [bytes |-> <<<<0, 1>>, <<0, 0>>>>, mask |-> <<<<TRUE, TRUE>>, <<FALSE, FALSE>>>>]}
MCRanges == {<<2, 6>>, <<5, 7>>, <<4, 2>>}
=============================================================================
