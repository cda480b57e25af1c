------------------------------- MODULE TypeRecipe -------------------------------
(***************************************************************************)
(* The two ways a caller makes a type to write: a TypeExpr, serialized to  *)
(* a postfix recipe that the facade's stack machine rebuilds (expr.rs,     *)
(* type_write_common.cpp), and TypeInfo handles built one call at a time   *)
(* (tinfo.rs, tinfo_build.cpp).                                            *)
(*                                                                         *)
(* A tinfo is a tree [op, arg, kids, cv].  A recipe is a sequence of       *)
(* operations with their operands; the byte layout of an operand is left   *)
(* out.  A declaration is known by what parse_decl makes of it.            *)
(***************************************************************************)
EXTENDS Integers, Sequences, SequencesExt

CONSTANT MaxElems      \* u32::MAX, the longest array create_array takes

tinfo(op, arg, kids) == [op |-> op, arg |-> arg, kids |-> kids, cv |-> {}]
Null == tinfo("null", <<>>, <<>>)     \* a null handle; TYPE_ERR_INPUT of a recipe

(* The SDK refuses a pointer or an array of nothing, and an array of a     *)
(* function or of void.                                                    *)
create_ptr(t) == IF t = Null THEN Null ELSE tinfo("ptr", <<>>, <<t>>)
create_array(t, n) ==
    IF t = Null \/ t.op \in {"fn", "void"} THEN Null ELSE tinfo("array", <<n>>, <<t>>)
set_cv(t, q) == [t EXCEPT !.cv = @ \cup {q}]

(***************************************************************************)
(* The scalar leaves both ways share, and the handle builders.             *)
(***************************************************************************)
build_int(bytes, signed) ==
    IF bytes \in {1, 2, 4, 8, 16}
    THEN tinfo("int", <<bytes, IF signed THEN 1 ELSE 0>>, <<>>) ELSE Null
build_float(bytes) == IF bytes \in {4, 8} THEN tinfo("float", <<bytes>>, <<>>) ELSE Null
(* A reference, whether or not the name exists.                            *)
build_named(n) == tinfo("ref", <<n>>, <<>>)
build_bitfield(nbytes, width, signed) ==
    IF width <= 8 * nbytes
    THEN tinfo("bits", <<nbytes, width, IF signed THEN 1 ELSE 0>>, <<>>) ELSE Null
(* parse_decl: the tree a declaration means, or nothing.                   *)
parse_decl(d) == d

tinfo_void == tinfo("void", <<>>, <<>>)
tinfo_bool == tinfo("bool", <<>>, <<>>)
tinfo_int(bytes, signed) == build_int(bytes, signed)
tinfo_float(bytes) == build_float(bytes)
tinfo_named(n) == build_named(n)
tinfo_decl(d) == parse_decl(d)
tinfo_ptr(t) == create_ptr(t)
tinfo_array(t, n) == IF n > MaxElems THEN Null ELSE create_array(t, n)
tinfo_const(t) == set_cv(t, "const")
tinfo_volatile(t) == set_cv(t, "volatile")

(* The Rust side: a null handle becomes an error, except where the builder *)
(* cannot fail; a name must exist, which a read of the library decides.    *)
type_int(bytes, signed) == tinfo_int(bytes, signed)
type_float(bytes) == tinfo_float(bytes)
type_ref(names, n) == IF n \in names THEN tinfo_named(n) ELSE Null
parse_type(d) == tinfo_decl(d)
pointer(t) == tinfo_ptr(t)
array_of(t, n) == tinfo_array(t, n)
const_(t) == IF t = Null THEN Null ELSE tinfo_const(t)
volatile_(t) == IF t = Null THEN Null ELSE tinfo_volatile(t)

(***************************************************************************)
(* TypeExpr: [x, arg, kids], kids of a function are its return type and    *)
(* its parameters, arg its parameter names, varargs flag and convention.   *)
(***************************************************************************)
Expr(x, arg, kids) == [x |-> x, arg |-> arg, kids |-> kids]

(* The combinators: const_ and volatile_ do not stack on themselves.       *)
ConstExpr(e) == IF e.x = "const" THEN e ELSE Expr("const", <<>>, <<e>>)
VolatileExpr(e) == IF e.x = "volatile" THEN e ELSE Expr("volatile", <<>>, <<e>>)
PointerExpr(e) == Expr("ptr", <<>>, <<e>>)
ArrayExpr(e, n) == Expr("array", <<n>>, <<e>>)
(* deref peels one pointer or array, and leaves anything else alone.       *)
deref(e) == IF e.x \in {"ptr", "array"} THEN e.kids[1] ELSE e
FunctionExpr(ret, names, params, varargs, cc) ==
    Expr("fn", [names |-> names, varargs |-> varargs, cc |-> cc], <<ret>> \o params)

(* TypeExpr::from a string, which is known by its `::` segments, whether it *)
(* is a keyword, and what parse_decl makes of it.                          *)
is_c_identifier(segment) == segment # "other"
is_builtin_type_keyword(s) == s.keyword
is_bare_type_name(s) ==
    /\ s.segments # <<>>
    /\ ~is_builtin_type_keyword(s)
    /\ \A i \in DOMAIN s.segments : is_c_identifier(s.segments[i])
FromStr(s) ==
    IF is_bare_type_name(s) THEN Expr("named", s.segments, <<>>)
    ELSE Expr("decl", <<s.parsed>>, <<>>)

RECURSIVE encode(_)
(* A function's parameters before its return type.                         *)
encode_ret_last(e) ==
    LET n == Len(e.kids)
    IN  FlattenSeq([i \in DOMAIN e.kids |->
                      encode(IF e.x = "fn" THEN e.kids[(i % n) + 1] ELSE e.kids[i])])
          \o <<[op |-> e.x, arg |-> e.arg, nparams |-> IF e.x = "fn" THEN n - 1 ELSE 0]>>

(* Children first, the operation after them; a function's return type is   *)
(* encoded before its parameters.                                          *)
encode(e) ==
    FlattenSeq([i \in DOMAIN e.kids |-> encode(e.kids[i])])
      \o <<[op |-> e.x, arg |-> e.arg,
            nparams |-> IF e.x = "fn" THEN Len(e.kids) - 1 ELSE 0]>>

(***************************************************************************)
(* build_recipe: one stack, one pass.                                      *)
(***************************************************************************)
Leaf(o) ==
    CASE o.op = "void" -> tinfo("void", <<>>, <<>>)
      [] o.op = "bool" -> tinfo("bool", <<>>, <<>>)
      [] o.op = "int" -> build_int(o.arg[1], o.arg[2])
      [] o.op = "float" -> build_float(o.arg[1])
      [] o.op = "named" -> build_named(o.arg[1])
      [] o.op = "decl" -> parse_decl(o.arg[1])
      [] o.op = "bits" -> build_bitfield(o.arg[1], o.arg[2], o.arg[3])

(* The cc of a built function: varargs is the ellipsis convention, which   *)
(* an explicit one does not override.                                      *)
Convention(arg) == IF arg.varargs THEN "ellipsis" ELSE arg.cc

(* The stack after one operation; <<Null>> at the bottom is the failure.   *)
step(stack, o) ==
    LET n == Len(stack)
        Top == stack[n]
        Push(k, t) == IF t = Null THEN <<Null>> ELSE Append(SubSeq(stack, 1, n - k), t)
    IN  CASE stack = <<Null>> -> stack
          [] stack # <<Null>> /\ o.op = "ptr" ->
               IF n = 0 THEN <<Null>> ELSE Push(1, create_ptr(Top))
          [] stack # <<Null>> /\ o.op = "array" ->
               IF n = 0 \/ o.arg[1] > MaxElems THEN <<Null>>
               ELSE Push(1, create_array(Top, o.arg[1]))
          [] stack # <<Null>> /\ o.op \in {"const", "volatile"} ->
               IF n = 0 THEN <<Null>> ELSE Push(1, set_cv(Top, o.op))
          [] stack # <<Null>> /\ o.op = "fn" ->
               IF n < o.nparams + 1 THEN <<Null>>
               ELSE Push(o.nparams + 1,
                         tinfo("fn", <<o.arg.names, Convention(o.arg)>>,
                               SubSeq(stack, n - o.nparams, n)))
          [] OTHER -> Push(0, Leaf(o))

build_recipe(recipe) ==
    LET end == FoldLeft(step, <<>>, recipe) IN IF Len(end) = 1 THEN end[1] ELSE Null

(***************************************************************************)
(* What a TypeExpr means, built with handles: the reference for recipes.   *)
(***************************************************************************)
RECURSIVE Meaning(_)
Meaning(e) ==
    LET K(i) == Meaning(e.kids[i])
        ps == [i \in DOMAIN e.kids |-> K(i)]
    IN  CASE e.x = "void" -> tinfo_void
          [] e.x = "bool" -> tinfo_bool
          [] e.x = "int" -> type_int(e.arg[1], e.arg[2])
          [] e.x = "float" -> type_float(e.arg[1])
          [] e.x = "named" -> type_ref({e.arg[1]}, e.arg[1])
          [] e.x = "decl" -> parse_type(e.arg[1])
          [] e.x = "bits" -> build_bitfield(e.arg[1], e.arg[2], e.arg[3])
          [] e.x = "ptr" -> pointer(K(1))
          [] e.x = "array" -> array_of(K(1), e.arg[1])
          [] e.x = "const" -> const_(K(1))
          [] e.x = "volatile" -> volatile_(K(1))
          [] e.x = "fn" -> IF \E i \in DOMAIN ps : ps[i] = Null THEN Null
                           ELSE tinfo("fn", <<e.arg.names, Convention(e.arg)>>, ps)
===============================================================================
