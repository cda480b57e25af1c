------------------------------- MODULE Ctree -------------------------------
(***************************************************************************)
(* Extraction of a decompiled function's syntax tree: the facade's walk    *)
(* over the SDK's ctree (facade/ctree_bridge.cpp), the callbacks it drives *)
(* (decompiler/ctree/extract.rs), and the arenas they fill (tree.rs,       *)
(* node.rs, arena.rs).                                                     *)
(*                                                                         *)
(* The SDK's tree is revealed one node at a time, in the order the walk    *)
(* meets it, so every tree of up to a given size is an input.  The       *)
(* recursion of the walk is a stack of frames.  Operators are the SDK's    *)
(* numbers: classify probes numeric ranges.  Names, literals and labels    *)
(* are left out.                                                           *)
(***************************************************************************)
EXTENDS Naturals, FiniteSets, SequencesExt

\* The shapes of input to consider: the operators that may occur in a tree,
\* its size, the addresses of its nodes, the longest list a node has
\* (arguments, statements, cases, catches), and how many locals and defects
\* it may have.
CONSTANT Inputs

ASSUME InputsAssumption ==
  \A i \in Inputs : /\ i.exprs \subseteq 0..69 \cup 85..99 /\ i.stmts \subseteq 70..84 /\ i.eas \subseteq Nat
                    /\ {i.size, i.fan, i.locals, i.faults} \subseteq Nat

NONE == 0
BADADDR == 0

VARIABLES
  input,    \* the shape of this run's input
  locals,   \* CtreeBuilder.locals: where each lives, and is_arg
  sdk,      \* the SDK nodes met so far, in the order a visitor meets them
  stack,    \* the frames of walker_t::expr, stmt and block, innermost last
  exprs,    \* CtreeBuilder.expressions
  stmts,    \* CtreeBuilder.statements
  error,    \* CallbackBuilder.error
  wide,     \* the type builder met an over-wide scalar
  unfilled, \* placeholders of the type builder that were never filled
  parent,   \* the parent links finish wires
  result    \* "lvars", "walk", or what walk returned

arenas == <<exprs, stmts, locals>>
faults == <<error, wide, unfilled>>
vars   == <<input, sdk, stack, arenas, faults, parent, result>>

(***************************************************************************)
(* Operators (ops.rs), and the operands the SDK says each uses.            *)
(***************************************************************************)
cot == [empty |-> 0, comma |-> 1, tern |-> 16, cast |-> 48, ptr |-> 51, ref |-> 52,
        postinc |-> 53, postdec |-> 54, call |-> 57, idx |-> 58, memref |-> 59,
        memptr |-> 60, num |-> 61, fnum |-> 62, str |-> 63, obj |-> 64, var |-> 65,
        insn |-> 66, sizeof |-> 67, helper |-> 68, type |-> 69]

cit == [empty_ |-> 70, block_ |-> 71, expr_ |-> 72, if_ |-> 73, for_ |-> 74,
        while_ |-> 75, do_ |-> 76, switch_ |-> 77, break_ |-> 78, continue_ |-> 79,
        return_ |-> 80, goto_ |-> 81, asm_ |-> 82, try_ |-> 83, throw_ |-> 84]

IsStmt(op) == op \in 70..84

BinaryOp     == {1} \cup 17..45
AssignmentOp == 2..15
UnaryOp      == {46, 47, 49, 50} \cup 52..56

op_uses_x(op) == op \in 1..60 \cup {cot.sizeof}
op_uses_y(op) == op \in 1..45 \cup {cot.idx}
op_uses_z(op) == op = cot.tern

Leaves == {cot.num, cot.fnum, cot.obj, cot.var, cot.str, cot.helper}

\* What the walk has to visit before it can mint a node: "e" an expression,
\* "oe" one that may be empty, "s" a statement, "os" one that may be null,
\* "b" a statement list.  n is the length of the node's list, if it has one.
Times(n, slot) == [i \in 1..n |-> slot]

ExprSlots(op, n) ==
  CASE op \in Leaves -> <<>>
    [] op = cot.call -> Times(n + 1, "e")
    [] OTHER -> Times(Cardinality({u \in 1..3 : <<op_uses_x(op), op_uses_y(op), op_uses_z(op)>>[u]}), "e")

StmtSlots(op, n) ==
  CASE op = cit.block_  -> Times(n, "s")
    [] op = cit.expr_   -> <<"e">>
    [] op = cit.if_     -> <<"e", "s", "os">>
    [] op = cit.for_    -> <<"oe", "oe", "oe", "s">>
    [] op = cit.while_  -> <<"e", "s">>
    [] op = cit.do_     -> <<"s", "e">>
    [] op = cit.switch_ -> <<"e">> \o Times(n, "s")
    [] op \in {cit.return_, cit.throw_} -> <<"oe">>
    [] op = cit.try_    -> Times(n + 1, "b")
    [] OTHER -> <<>>

HasList(op) == op \in {cot.call, cit.block_, cit.switch_, cit.try_}

(***************************************************************************)
(* The kinds of node (node.rs).                                            *)
(***************************************************************************)
ExpressionKind == {"Binary", "Assign", "Unary", "Ternary", "Call", "Index", "MemberRef",
  "MemberPtr", "Cast", "Deref", "Sizeof", "Num", "Fnum", "Str", "Obj", "Var", "Helper",
  "TypeExpression", "Empty", "Internal"}

StatementKind == {"Block", "Expression", "If", "For", "While", "Do", "Switch", "Break",
  "Continue", "Return", "Goto", "Asm", "Try", "Throw", "Empty"}

(***************************************************************************)
(* The callbacks (extract.rs): what each mints from the handles it gets.   *)
(***************************************************************************)
\* num, fnum, obj, var, string, helper: an object at BADADDR becomes Empty.
LeafKind(op, ok) ==
  CASE op = cot.num -> [k |-> "Num"]     [] op = cot.fnum   -> [k |-> "Fnum"]
    [] op = cot.var -> [k |-> "Var"]     [] op = cot.str    -> [k |-> "Str"]
    [] op = cot.obj -> [k |-> IF ok THEN "Obj" ELSE "Empty"]
    [] op = cot.helper -> [k |-> "Helper"]

\* call, memref, memptr, deref.
PlaceKind(op, got) ==
  CASE op = cot.call   -> [k |-> "Call", callee |-> got[1], args |-> Tail(got)]
    [] op = cot.memref -> [k |-> "MemberRef", obj |-> got[1]]
    [] op = cot.memptr -> [k |-> "MemberPtr", obj |-> got[1]]
    [] op = cot.ptr    -> [k |-> "Deref", x |-> got[1]]

\* CallbackBuilder::classify.
classify(op, got) ==
  CASE op = cot.insn         -> [k |-> "Internal"]
    [] op \in AssignmentOp   -> [k |-> "Assign", op |-> op, x |-> got[1], y |-> got[2]]
    [] op \in BinaryOp       -> [k |-> "Binary", op |-> op, x |-> got[1], y |-> got[2]]
    [] op \in UnaryOp        -> [k |-> "Unary", op |-> op, x |-> got[1]]
    [] op = cot.tern         -> [k |-> "Ternary", cond |-> got[1], then_ |-> got[2], else_ |-> got[3]]
    [] op = cot.cast         -> [k |-> "Cast", x |-> got[1]]
    [] op = cot.idx          -> [k |-> "Index", array |-> got[1], index |-> got[2]]
    [] op = cot.sizeof       -> [k |-> "Sizeof", x |-> got[1]]
    [] op = cot.empty        -> [k |-> "Empty"]
    [] op = cot.type         -> [k |-> "TypeExpression"]
    [] OTHER                 -> [k |-> "Internal"]

Places == {cot.call, cot.memref, cot.memptr, cot.ptr}

\* s_switch: the flattened case values, dealt out again by their counts.
SplitValues(counts, values) ==
  LET pos(i) == FoldLeft(LAMBDA a, b : a + b, 0, SubSeq(counts, 1, i - 1))
  IN  [i \in 1..Len(counts) |-> SubSeq(values, pos(i) + 1, pos(i) + counts[i])]

\* block, expression_statement, if_, for_, while_, do_.
LoopKind(op, got) ==
  CASE op = cit.block_ -> [k |-> "Block", stmts |-> got]
    [] op = cit.expr_  -> [k |-> "Expression", e |-> got[1]]
    [] op = cit.if_    -> [k |-> "If", cond |-> got[1], then_ |-> got[2], else_ |-> got[3]]
    [] op = cit.for_   -> [k |-> "For", init |-> got[1], cond |-> got[2], step |-> got[3], body |-> got[4]]
    [] op = cit.while_ -> [k |-> "While", cond |-> got[1], body |-> got[2]]
    [] op = cit.do_    -> [k |-> "Do", body |-> got[1], cond |-> got[2]]

\* switch, return_, goto, asm, try_, throw, break_, continue_, empty_statement.
\* asm keeps the addresses that are not BADADDR.
ExitKind(op, got, data) ==
  CASE op = cit.switch_ -> [k |-> "Switch", e |-> got[1], bodies |-> Tail(got),
                         values |-> SplitValues([i \in 1..Len(data) |-> Len(data[i])],
                                                FlattenSeq(data))]
    [] op = cit.return_ -> [k |-> "Return", e |-> got[1]]
    [] op = cit.throw_  -> [k |-> "Throw", e |-> got[1]]
    [] op = cit.goto_   -> [k |-> "Goto"]
    [] op = cit.asm_    -> [k |-> "Asm", n |-> Len(SelectSeq(data, LAMBDA a : a # BADADDR))]
    [] op = cit.try_    -> [k |-> "Try", body |-> got[1], catches |-> Tail(got)]
    [] op = cit.break_  -> [k |-> "Break"]
    [] op = cit.continue_ -> [k |-> "Continue"]
    [] OTHER -> [k |-> "Empty"]

\* The failure a callback records.
FaultOf(op, data) ==
  IF \/ op = cot.obj /\ data = <<BADADDR>>
     \/ op = cit.asm_ /\ \E i \in DOMAIN data : data[i] = BADADDR
  THEN "BadAddress"
  ELSE IF op > cit.throw_ THEN "UnknownExpressionTag" ELSE "none"

\* Mutant: a later failure replaces an earlier one.
failLast(e) == IF e = "none" THEN error ELSE e

\* Arena::alloc: a handle is the node's place in its arena.
alloc(arena, value) == Append(arena, value)
Handle(arena) == Len(arena) + 1

\* CallbackBuilder::fail keeps the first failure.
fail(e) == IF error = "none" THEN e ELSE error

(***************************************************************************)
(* node.rs: the children of a node, in source order.                       *)
(***************************************************************************)
E(i) == <<"e", i>>
S(i) == <<"s", i>>

OptE(i) == IF i = NONE THEN <<>> ELSE <<E(i)>>
OptS(i) == IF i = NONE THEN <<>> ELSE <<S(i)>>

\* Mutant: the children of a node are those in its fields x and y.
ExprChildrenXY(kind) ==
  IF kind.k \in {"Binary", "Assign"} THEN <<E(kind.x), E(kind.y)>>
  ELSE IF "x" \in DOMAIN kind THEN <<E(kind.x)>> ELSE <<>>

ExprChildren(kind) ==
  CASE kind.k \in {"Binary", "Assign"} -> <<E(kind.x), E(kind.y)>>
    [] kind.k = "Index" -> <<E(kind.array), E(kind.index)>>
    [] kind.k \in {"Unary", "Cast", "Deref", "Sizeof"} -> <<E(kind.x)>>
    [] kind.k \in {"MemberRef", "MemberPtr"} -> <<E(kind.obj)>>
    [] kind.k = "Ternary" -> <<E(kind.cond), E(kind.then_), E(kind.else_)>>
    [] kind.k = "Call" -> <<E(kind.callee)>> \o [i \in DOMAIN kind.args |-> E(kind.args[i])]
    [] OTHER -> <<>>

StmtChildren(kind) ==
  LET all(h) == [i \in DOMAIN h |-> S(h[i])]
  IN CASE kind.k = "Block" -> all(kind.stmts)
       [] kind.k = "Expression" -> <<E(kind.e)>>
       [] kind.k = "If" -> <<E(kind.cond), S(kind.then_)>> \o OptS(kind.else_)
       [] kind.k = "For" -> OptE(kind.init) \o OptE(kind.cond) \o OptE(kind.step) \o <<S(kind.body)>>
       [] kind.k = "While" -> <<E(kind.cond), S(kind.body)>>
       [] kind.k = "Do" -> <<S(kind.body), E(kind.cond)>>
       [] kind.k = "Switch" -> <<E(kind.e)>> \o all(kind.bodies)
       [] kind.k \in {"Return", "Throw"} -> OptE(kind.e)
       [] kind.k = "Try" -> <<S(kind.body)>> \o all(kind.catches)
       [] OTHER -> <<>>

\* for_each_child of tree.rs: the right arena for a node reference.
Node(r) == IF r[1] = "e" THEN exprs[r[2]] ELSE stmts[r[2]]

Children(r) == IF r[1] = "e" THEN ExprChildren(exprs[r[2]].kind) ELSE StmtChildren(stmts[r[2]].kind)

Refs == {E(i) : i \in DOMAIN exprs} \cup {S(i) : i \in DOMAIN stmts}

(***************************************************************************)
(* The walk.                                                               *)
(***************************************************************************)
Init ==
  /\ input \in Inputs
  /\ locals = <<>> /\ sdk = <<>> /\ exprs = <<>> /\ stmts = <<>>
  /\ stack = <<[node |-> 0, todo |-> <<"b">>, got |-> <<>>]>>
  /\ error = "none" /\ wide = FALSE /\ unfilled = 0
  /\ parent = <<>> /\ result = [is |-> "lvars"]

Top  == Last(stack)
Slot == Head(Top.todo)

\* The defects of the tree so far, and the nodes it will have at least.
Faults == (IF wide THEN 1 ELSE 0) + unfilled
          + Cardinality({i \in DOMAIN sdk : FaultOf(sdk[i].op, sdk[i].data) # "none"})
Required(slots) == Len(SelectSeq(slots, LAMBDA s : s # "os"))
Pending == FoldLeft(LAMBDA n, f : n + Required(Tail(f.todo)), 0, stack)

\* The innermost frame takes the handle of the operand it waited for.
Taking(frames, h) ==
  LET f == Last(frames) IN Append(Front(frames), [f EXCEPT !.todo = Tail(@), !.got = Append(@, h)])

\* visit_walker_ty on the type of an expression or a local.
TypeWalked(ty) ==
  /\ wide' = (wide \/ ty = "wide")
  /\ unfilled' = unfilled + IF ty = "open" THEN 1 ELSE 0

\* LocalLocation::from_argloc; a static location at BADADDR panics, and a
\* panic inside a callback of the bridge aborts the process.
Atype == {"none", "stack", "dist", "reg1", "reg2", "rrel", "static", "custom"}

from_argloc(atype, ea) ==
  CASE atype = "none"   -> "Unallocated"      [] atype = "stack" -> "Stack"
    [] atype = "dist"   -> "Scattered"        [] atype = "reg1"  -> "Register"
    [] atype = "reg2"   -> "RegisterPair"     [] atype = "rrel"  -> "RegisterRelative"
    [] atype = "static" -> IF ea = BADADDR THEN "panic" ELSE "Static"
    [] OTHER -> "Custom"

\* l_lvar: what the table keeps of a local.
Local(atype, ea, arg) == [at |-> from_argloc(atype, ea), arg |-> arg]

\* walker_t::lvars, one local.  A scattered local carries the places
\* of its pieces, which are never scattered themselves.
Lvar(atype, pieces, ea, ty, arg) ==
  /\ result.is = "lvars" /\ Len(locals) < input.locals
  /\ ty = "ok" \/ Faults < input.faults
  /\ TypeWalked(ty)
  /\ LET locs == {from_argloc(atype, ea)} \cup {from_argloc(p, ea) : p \in pieces}
     IN IF "panic" \in locs
        THEN result' = [is |-> "panic"] /\ UNCHANGED locals
        ELSE /\ locals' = Append(locals, Local(atype, ea, arg))
             /\ UNCHANGED result
  /\ UNCHANGED <<input, sdk, stack, exprs, stmts, error, parent>>

\* cfunc_walk_ctree: the body, once the locals are out.
Body ==
  /\ result.is = "lvars"
  /\ result' = [is |-> "walk"]
  /\ UNCHANGED <<input, sdk, stack, arenas, faults, parent>>

Walking == result.is = "walk" /\ Top.todo # <<>>

Reveal(node) ==
  /\ sdk' = Append(sdk, node)
  /\ Len(sdk) + 1 + Pending + Required(node.slots) <= input.size
  /\ FaultOf(node.op, node.data) = "none" \/ Faults < input.faults

Enter(node) ==
  stack' = Append(stack, [node |-> Len(sdk) + 1, todo |-> node.slots, got |-> <<>>])

\* walker_t::expr: the type first, then the operands.
Expr(op, n, ea, ty, data) ==
  LET node == [op |-> op, ea |-> ea, slots |-> ExprSlots(op, n), data |-> data, opt |-> Slot]
  IN /\ Walking /\ Slot \in {"e", "oe"}
     /\ ~(Slot = "oe" /\ op = cot.empty)
     /\ ty = "ok" \/ Faults < input.faults
     /\ Reveal(node) /\ Enter(node) /\ TypeWalked(ty)
     /\ UNCHANGED <<input, arenas, error, parent, result>>

\* opt_expr: an empty operand is not minted.
OptExpr(ea) ==
  /\ Walking /\ Slot = "oe"
  /\ Reveal([op |-> cot.empty, ea |-> ea, slots |-> <<>>, data |-> <<>>, opt |-> "oe"])
  /\ stack' = Taking(stack, NONE)
  /\ UNCHANGED <<input, arenas, faults, parent, result>>

\* walker_t::stmt and block.
Stmt(op, n, ea, data) ==
  LET node == [op |-> op, ea |-> ea, slots |-> StmtSlots(op, n), data |-> data, opt |-> Slot]
  IN /\ Walking /\ Slot \in {"s", "os", "b"}
     /\ Slot = "b" => op = cit.block_
     /\ Reveal(node) /\ Enter(node)
     /\ UNCHANGED <<input, arenas, faults, parent, result>>

\* An if without an else.
NoElse ==
  /\ Walking /\ Slot = "os"
  /\ stack' = Taking(stack, NONE)
  /\ UNCHANGED <<input, sdk, arenas, faults, parent, result>>

Minting == result.is = "walk" /\ Top.todo = <<>> /\ Top.node # 0

\* push_expression and push_statement: a node at BADADDR has no address.
push(arena, kind) == alloc(arena, [kind |-> kind, ea |-> sdk[Top.node].ea, src |-> Top.node])

\* The e_* callbacks: mint the expression from its operands' handles.
MintExpression ==
  LET n == sdk[Top.node]
  IN /\ Minting /\ ~IsStmt(n.op)
     /\ exprs' = push(exprs, CASE n.op \in Leaves -> LeafKind(n.op, n.data # <<BADADDR>>)
                               [] n.op \in Places -> PlaceKind(n.op, Top.got)
                               [] OTHER -> classify(n.op, Top.got))
     /\ error' = fail(FaultOf(n.op, n.data))
     /\ stack' = Taking(Front(stack), Handle(exprs))
     /\ UNCHANGED <<input, sdk, stmts, locals, wide, unfilled, parent, result>>

\* The s_* callbacks.
MintStatement ==
  LET n == sdk[Top.node]
  IN /\ Minting /\ IsStmt(n.op)
     /\ stmts' = push(stmts, IF n.op \in {cit.block_, cit.expr_, cit.if_, cit.for_, cit.while_, cit.do_}
                             THEN LoopKind(n.op, Top.got) ELSE ExitKind(n.op, Top.got, n.data))
     /\ error' = fail(FaultOf(n.op, n.data))
     /\ stack' = Taking(Front(stack), Handle(stmts))
     /\ UNCHANGED <<input, sdk, exprs, locals, wide, unfilled, parent, result>>

\* One round of the loop of CtreeBuilder::finish.
WireOne(w) ==
  LET r == Last(w.stack)
  IN  [stack |-> Front(w.stack) \o Children(r), visited |-> w.visited + 1,
       parent |-> [c \in Refs |-> IF \E i \in DOMAIN Children(r) : Children(r)[i] = c
                                  THEN r ELSE w.parent[c]]]

NoParent == <<"s", NONE>>

\* The loop: at most one round more than there are nodes, when its assert fails.
Wire(root) ==
  LET total == Len(exprs) + Len(stmts)
      round[i \in 0..(total + 1)] ==
        IF i = 0 THEN [stack |-> <<S(root)>>, visited |-> 0, parent |-> [r \in Refs |-> NoParent]]
        ELSE LET w == round[i - 1] IN IF w.stack = <<>> THEN w ELSE WireOne(w)
  IN  round[total + 1]

\* CallbackBuilder::finish: a node's failure, then the types', then the tree.
Finish ==
  /\ result.is = "walk" /\ Top.node = 0 /\ Top.todo = <<>>
  /\ LET root == Top.got[1]
         w == Wire(root)
     IN IF error # "none" THEN result' = [is |-> "Err", e |-> error] /\ UNCHANGED parent
        ELSE IF wide THEN result' = [is |-> "Err", e |-> "ScalarTooWide"] /\ UNCHANGED parent
        ELSE IF unfilled # 0 THEN result' = [is |-> "Err", e |-> "UnfilledType"] /\ UNCHANGED parent
        ELSE IF w.visited > Len(exprs) + Len(stmts)
             THEN result' = [is |-> "panic"] /\ UNCHANGED parent
        ELSE result' = [is |-> "Ok", root |-> root] /\ parent' = w.parent
  /\ UNCHANGED <<input, sdk, stack, arenas, faults>>

Done == result.is \in {"Ok", "Err", "panic"}

\* The data of a node that matters here: an object's target, the addresses of
\* an asm statement, the values of each case.
DataOf(op, n) ==
  CASE op = cot.obj -> {<<1>>, <<BADADDR>>}
    [] op = cit.asm_ -> {<<1>>, <<BADADDR, 1>>}
    [] op = cit.switch_ -> {[i \in 1..n |-> [j \in 1..c[i] |-> <<i, j>>]] : c \in [1..n -> {0, 2}]}
    [] OTHER -> {<<>>}

Fan(op) == IF HasList(op) THEN 0..input.fan ELSE {0}
Types == {"ok", "wide", "open"}

Next ==
  \/ \E atype \in Atype, ea \in {BADADDR, 1}, ty \in Types, arg \in BOOLEAN :
       \E pieces \in IF atype = "dist" THEN SUBSET {"reg1", "static"} ELSE {{}} :
         Lvar(atype, pieces, ea, ty, arg)
  \/ Body
  \/ \E op \in input.exprs, ea \in input.eas, ty \in Types :
       \E n \in Fan(op), data \in DataOf(op, 0) : Expr(op, n, ea, ty, data)
  \/ \E ea \in input.eas : OptExpr(ea)
  \/ \E op \in input.stmts, ea \in input.eas :
       \E n \in Fan(op) : \E data \in DataOf(op, n) : Stmt(op, n, ea, data)
  \/ NoElse
  \/ MintExpression \/ MintStatement \/ Finish
  \/ Done /\ UNCHANGED vars

Spec == Init /\ [][Next]_vars

(***************************************************************************)
(* Navigation of the finished tree (tree.rs).                              *)
(***************************************************************************)
\* Mutant: the children are left in the order they were pushed.
DescendantsNextUnreversed(d) ==
  LET r == Last(d.stack)
  IN  [stack |-> Front(d.stack) \o Children(r), out |-> Append(d.out, r)]

\* Descendants::next: pop a node, push its children so the first is on top.
DescendantsNext(d) ==
  LET r == Last(d.stack)
  IN  [stack |-> Front(d.stack) \o Reverse(Children(r)), out |-> Append(d.out, r)]

Descendants(r) ==
  LET total == Len(exprs) + Len(stmts)
      step[i \in 0..(total + 1)] ==
        IF i = 0 THEN [stack |-> <<r>>, out |-> <<>>]
        ELSE LET d == step[i - 1] IN IF d.stack = <<>> THEN d ELSE DescendantsNext(d)
  IN  step[total + 1].out

\* expression_descendants: the same walk without the statements.
expression_descendants(r) == SelectSeq(Descendants(r), LAMBDA d : d[1] = "e")

\* The as_ accessors of a kind: the payload, for one variant only.
As(kind, variant) == IF kind.k = variant THEN <<kind>> ELSE <<>>

\* The scans of the arena, in allocation order.
Scan(variant) == SelectSeq([i \in DOMAIN exprs |-> [id |-> i, kind |-> As(exprs[i].kind, variant)]],
                           LAMBDA found : found.kind # <<>>)
calls == Scan("Call")
assigns == Scan("Assign")
var_uses == Scan("Var")

\* expression_at: the first expression of the arena at an address.
expression_at(a) == SelectInSeq(exprs, LAMBDA n : n.ea = a)
statement_at(a) == SelectInSeq(stmts, LAMBDA n : n.ea = a)

\* strip_casts of query.rs: past the casts and the address-ofs of an
\* expression, whose operand has an earlier place in the arena.
strip_casts(id) ==
  LET Wraps(kind) == kind.k = "Cast" \/ (kind.k = "Unary" /\ kind.op = cot.ref)
      peel[i \in DOMAIN exprs] == IF Wraps(exprs[i].kind) THEN peel[exprs[i].kind.x] ELSE i
  IN  peel[id]
global_target(id) == As(exprs[strip_casts(id)].kind, "Obj")

\* items_at: every node at an address, expressions before statements.
items_at(a) ==
  LET at(arena, R(_)) == [i \in DOMAIN SelectSeq([j \in DOMAIN arena |-> j], LAMBDA j : arena[j].ea = a)
                           |-> R(SelectSeq([j \in DOMAIN arena |-> j], LAMBDA j : arena[j].ea = a)[i])]
  IN  at(exprs, E) \o at(stmts, S)

\* this_local: the first local that is an argument.
this_local == SelectInSeq(locals, LAMBDA l : l.arg)

\* elided_empty of the facade's gap visitor: an empty operand in an optional
\* slot, which the walk does not mint.
Elided(n) == n.op = cot.empty /\ n.opt = "oe"

(***************************************************************************)
(* Properties.                                                             *)
(***************************************************************************)
NodeFaults == {i \in DOMAIN sdk : FaultOf(sdk[i].op, sdk[i].data) # "none"}

\* A tree with a defect is never returned: walk reports the first bad node it
\* met, or else the defect of a type, and without one it returns the tree
\* (finish of extract.rs; "a failed walk reports some error").
WalkOutcome ==
  Done /\ result.is # "panic" =>
    LET bad == NodeFaults
    IN \/ result.is = "Ok" /\ bad = {} /\ ~wide /\ unfilled = 0
       \/ /\ result.is = "Err"
          /\ bad # {} \/ wide \/ unfilled # 0
          /\ IF bad # {} THEN LET i == CHOOSE i \in bad : \A j \in bad : i <= j
                              IN result.e = FaultOf(sdk[i].op, sdk[i].data)
             ELSE result.e = IF wide THEN "ScalarTooWide" ELSE "UnfilledType"

\* The asserts of CtreeBuilder::finish never fail: only a local can panic, and
\* no node has been met then.  Every handle in a returned tree is a node of
\* the right arena, a walk from the root reaches every node, and every node but the
\* root is exactly once among the children of the one node its parent link names.
TreeSound ==
  /\ result.is = "panic" => sdk = <<>>
  /\ result.is = "Ok" =>
       /\ \A i \in DOMAIN exprs : exprs[i].kind.k \in ExpressionKind
       /\ \A i \in DOMAIN stmts : stmts[i].kind.k \in StatementKind
       /\ \A r \in Refs : \A i \in DOMAIN Children(r) : Children(r)[i] \in Refs
       /\ Len(Descendants(S(result.root))) = Len(exprs) + Len(stmts)
       /\ parent[S(result.root)] = NoParent
       /\ \A r \in Refs \ {S(result.root)} :
            /\ parent[r] \in Refs
            /\ \E i \in DOMAIN Children(parent[r]) :
                 \A u \in Refs : \A k \in DOMAIN Children(u) :
                   Children(u)[k] = r <=> u = parent[r] /\ k = i

\* A scan finds the nodes of the SDK with one of these operators, each once.
ScanFinds(kept, found, ops) ==
  /\ {exprs[found[i].id].src : i \in DOMAIN found} = {n \in ToSet(kept) : sdk[n].op \in ops}
  /\ \A i, j \in DOMAIN found : found[i].id = found[j].id => i = j

\* A returned tree is the SDK's: its pre-order walk meets exactly the nodes an
\* SDK visitor meets, in its order, without the empties the gap visitor says
\* are elided; a case keeps its own values; the scans find every call,
\* assignment and variable, a call with all its arguments; a global is found
\* through any casts and address-ofs and through nothing else; and
\* expression_at gives the innermost node of an address.
Faithful ==
  result.is = "Ok" =>
    LET walk == Descendants(S(result.root))
        kept == SelectSeq([i \in DOMAIN sdk |-> i], LAMBDA i : ~Elided(sdk[i]))
    IN /\ [i \in DOMAIN walk |-> Node(walk[i]).src] = kept
       /\ \A i \in DOMAIN stmts : stmts[i].kind.k = "Switch" => stmts[i].kind.values = sdk[stmts[i].src].data
       /\ ScanFinds(kept, calls, {cot.call}) /\ ScanFinds(kept, var_uses, {cot.var})
       /\ ScanFinds(kept, assigns, AssignmentOp)
       /\ \A i \in DOMAIN calls : Len(calls[i].kind[1].args) + 1 = Len(sdk[exprs[calls[i].id].src].slots)
       /\ \A i \in DOMAIN exprs :
            LET under == {m \in exprs[i].src..Len(sdk) : sdk[m].op \notin {cot.cast, cot.ref}}
                found == CHOOSE m \in under : \A n \in under : m <= n
            IN  global_target(i) # <<>> <=> sdk[found].op = cot.obj
       /\ \A a \in input.eas \ {BADADDR} :
            /\ statement_at(a) # 0 <=> \E i \in DOMAIN kept : sdk[kept[i]].ea = a /\ IsStmt(sdk[kept[i]].op)
            /\ Len(items_at(a)) = Cardinality({i \in DOMAIN kept : sdk[kept[i]].ea = a})
            /\ expression_at(a) # 0 =>
                 LET below == expression_descendants(E(expression_at(a)))
                 IN  \A i \in DOMAIN below : i > 1 => Node(below[i]).ea # a

=============================================================================
