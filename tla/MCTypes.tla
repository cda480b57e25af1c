------------------------------- MODULE MCTypes -------------------------------
(* Two small libraries: a recursive pair, by-value holders and an enum; and  *)
(* unions, anonymous members, a synthetic cycle, a dangling name and room to *)
(* insert a member.  A third, for the canonical string alone, whose member   *)
(* may be renamed to a text that looks like two.                             *)
EXTENDS TypeEdit

I(b, s) == [k |-> "int", b |-> b, s |-> s]
Ref(n) == [k |-> "ref", n |-> n]
Ptr(t) == [k |-> "ptr", to |-> t]
M(n, off, t) == [n |-> n, off |-> off, ty |-> t, repr |-> 0]
C(n, v) == [n |-> n, v |-> v]

MCLibraries ==
  {("S" :> [k |-> "struct", ms |-> <<M("a", 0, I(4, TRUE)), M("b", 32, I(4, TRUE)),
                                     M("next", 64, Ptr(Ref("T")))>>])
   @@ ("T" :> [k |-> "typedef", to |-> Ref("S")])
   @@ ("C" :> [k |-> "struct", ms |-> <<M("x", 0, Ref("S")), M("e", 128, Ref("E"))>>])
   @@ ("E" :> [k |-> "enum", cs |-> <<C("K0", 0), C("K1", 1)>>, sz |-> 4, bm |-> FALSE, repr |-> 5])
   @@ ("F" :> [k |-> "enum", cs |-> <<C("K2", 0)>>, sz |-> 4, bm |-> TRUE, repr |-> 3]),
   ("S" :> [k |-> "union", ms |-> <<M("b", 0, I(4, FALSE)), M("", 0, Ref("$1")),
                                    M("", 0, [k |-> "float", b |-> 4])>>])
   @@ ("$1" :> [k |-> "struct", ms |-> <<M("a", 0, Ptr(Ref("$1"))),
                                         M("", 64, [k |-> "array", of |-> Ptr(Ref("Gone")), len |-> 2])>>])
   @@ ("E" :> [k |-> "struct",
               ms |-> <<M("", 0, [k |-> "bits", b |-> 4, w |-> 3, s |-> FALSE]),
                        M("fp", 64, Ptr([k |-> "fn", ret |-> [k |-> "void"], ps |-> <<Ptr(Ref("E"))>>,
                                         va |-> TRUE, known |-> TRUE]))>>])}

MCKeyLibraries == {"S" :> [k |-> "union", ms |-> <<M("a", 0, I(4, TRUE)), M("b", 0, I(4, TRUE))>>]}
MCDelimiting == {"a@0=i32,b"}

MCDecls == {[til |-> "D" :> [k |-> "typedef", to |-> Ptr(Ref("S"))], errors |-> FALSE],
            [til |-> "C" :> [k |-> "struct", ms |-> <<M("b", 0, [k |-> "bool"])>>], errors |-> TRUE]}

(* `last` only records the step just taken: no step reads it.                *)
StateView == <<til, base, proto, ref, edits>>

X(x, arg) == Expr(x, arg, <<>>)
MCExprs ==
  {FromStr([segments |-> <<"S">>, keyword |-> FALSE, parsed |-> Null]),
   FromStr([segments |-> <<"unsigned">>, keyword |-> TRUE, parsed |-> build_int(4, FALSE)]),
   FromStr([segments |-> <<"other">>, keyword |-> FALSE, parsed |-> Null]), X("bits", <<4, 3, FALSE>>),
   FunctionExpr(PointerExpr(ConstExpr(ArrayExpr(X("named", <<"C">>), 2))), <<"p", "q">>,
                <<X("bool", <<>>), VolatileExpr(X("float", <<8>>))>>, FALSE, "cdecl")}

MCProtos == {[k |-> "fn", ret |-> I(4, TRUE), ps |-> <<Ref("S")>>, names |-> <<"p">>,
              cc |-> "cdecl", va |-> FALSE, known |-> TRUE]}

MCNames == <<"", "$1", "C", "D", "E", "F", "K0", "K1", "K2", "S", "T", "a", "a@0=i32,b", "b", "e", "fp", "gap0",
             "gap4", "gap8", "gap16", "next", "x">>
MCRank == [n \in {MCNames[i] : i \in DOMAIN MCNames} |-> CHOOSE i \in DOMAIN MCNames : MCNames[i] = n]
===============================================================================
