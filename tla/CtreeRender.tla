---------------------------- MODULE CtreeRender ----------------------------
(***************************************************************************)
(* The pseudocode printer (decompiler/ctree/render.rs) over an extracted   *)
(* tree, and a reference reader of C that turns the text back into a tree. *)
(* The text is a sequence of glyphs with the spaces the printer puts next  *)
(* to operators: two glyphs with no space between them may be one to C.    *)
(* Lines and the spelling of leaves, members and types are left out; a     *)
(* leaf is its kind, and a parenthesized type is one glyph.                *)
(***************************************************************************)
EXTENDS Ctree

\* The levels of Prec.
Prec == [ANY |-> 0, COMMA |-> 1, ASSIGN |-> 2, TERNARY |-> 3, LOGOR |-> 4,
         LOGAND |-> 5, BITOR |-> 6, BITXOR |-> 7, BITAND |-> 8, EQ |-> 9,
         REL |-> 10, SHIFT |-> 11, ADD |-> 12, MUL |-> 13, UNARY |-> 14,
         POSTFIX |-> 15, PRIMARY |-> 16]

bin_prec(op) ==
  CASE op = cot.comma -> Prec.COMMA
    [] op \in 17..21  -> Prec.LOGOR + (op - 17)
    [] op \in 22..23  -> Prec.EQ
    [] op \in 24..31  -> Prec.REL
    [] op \in 32..34  -> Prec.SHIFT
    [] op \in {35, 36, 42, 43} -> Prec.ADD
    [] op \in 37..41 \cup {44, 45} -> Prec.MUL

Postfix == {cot.postinc, cot.postdec}

\* Mutant: a ternary counts as an operand.
precTernary(kind) ==
  CASE kind.k = "Binary" -> bin_prec(kind.op)
    [] kind.k = "Assign" -> Prec.ASSIGN
    [] kind.k \in {"Unary", "Cast", "Deref", "Sizeof"} -> Prec.UNARY
    [] OTHER -> Prec.PRIMARY

\* Printer::prec: the operator at the root of an expression.
prec(kind) ==
  CASE kind.k = "Binary"  -> bin_prec(kind.op)
    [] kind.k = "Assign"  -> Prec.ASSIGN
    [] kind.k = "Ternary" -> Prec.TERNARY
    [] kind.k = "Unary"   -> IF kind.op \in Postfix THEN Prec.POSTFIX ELSE Prec.UNARY
    [] kind.k \in {"Call", "Index", "MemberRef", "MemberPtr"} -> Prec.POSTFIX
    [] kind.k \in {"Cast", "Deref", "Sizeof"} -> Prec.UNARY
    [] OTHER -> Prec.PRIMARY

\* symbol: the spelling of operators 1 to 56 (16, 48 and 51 are no operator of
\* the three enums; their entries are what the printer writes for those nodes).
Glyphs ==
  <<",", "=", "|=", "^=", "&=", "+=", "-=", "*=", ">>=", ">>=", "<<=", "/=", "/=", "%=", "%=", "?",
    "||", "&&", "|", "^", "&", "==", "!=", ">=", ">=", "<=", "<=", ">", ">", "<", "<", ">>", ">>", "<<",
    "+", "-", "*", "/", "/", "%", "%", "+", "-", "*", "/",
    "-", "-", "cast", "!", "~", "*", "&", "++", "--", "++", "--">>

symbol(op) == Glyphs[op]

\* A piece of text: a glyph, or a leaf, label or statement with what it says.
Tok(t) == <<t, 0>>
Space == Tok(" ")
Spaced(t) == <<Space, Tok(t), Space>>

\* Printer::expression parenthesizes; expression_inner prints.
RECURSIVE expression(_, _)
expression_inner(kind) ==
  CASE kind.k = "Binary" ->
         LET p == bin_prec(kind.op)
         IN expression(kind.x, p)
            \o (IF kind.op = cot.comma THEN <<Tok(","), Space>> ELSE Spaced(symbol(kind.op)))
            \o expression(kind.y, p + 1)
    [] kind.k = "Assign" ->
         expression(kind.x, Prec.ASSIGN + 1) \o Spaced(symbol(kind.op)) \o expression(kind.y, Prec.ASSIGN)
    [] kind.k = "Unary" ->
         IF kind.op \in Postfix THEN expression(kind.x, Prec.POSTFIX) \o <<Tok(symbol(kind.op))>>
         ELSE <<Tok(symbol(kind.op))>> \o expression(kind.x, Prec.UNARY)
    [] kind.k = "Ternary" ->
         expression(kind.cond, Prec.TERNARY + 1) \o Spaced("?") \o expression(kind.then_, Prec.ANY)
         \o Spaced(":") \o expression(kind.else_, Prec.TERNARY)
    [] kind.k = "Call" ->
         expression(kind.callee, Prec.POSTFIX) \o <<Tok("(")>>
         \o FlattenSeq([i \in DOMAIN kind.args |->
              (IF i > 1 THEN <<Tok(","), Space>> ELSE <<>>) \o expression(kind.args[i], Prec.ASSIGN)])
         \o <<Tok(")")>>
    [] kind.k = "Index" ->
         expression(kind.array, Prec.POSTFIX) \o <<Tok("[")>> \o expression(kind.index, Prec.ANY) \o <<Tok("]")>>
    [] kind.k = "MemberRef" -> expression(kind.obj, Prec.POSTFIX) \o <<Tok(".")>>
    [] kind.k = "MemberPtr" -> expression(kind.obj, Prec.POSTFIX) \o <<Tok("->")>>
    [] kind.k = "Cast"   -> <<Tok("cast")>> \o expression(kind.x, Prec.UNARY)
    [] kind.k = "Deref"  -> <<Tok("*")>> \o expression(kind.x, Prec.UNARY)
    [] kind.k = "Sizeof" -> <<Tok("sizeof(")>> \o expression(kind.x, Prec.ANY) \o <<Tok(")")>>
    [] kind.k \in {"Empty", "Internal"} -> <<>>
    [] OTHER -> <<<<"leaf", kind.k>>>>

expression(id, min) ==
  LET kind == exprs[id].kind
  IN  IF prec(kind) < min THEN <<Tok("(")>> \o expression_inner(kind) \o <<Tok(")")>>
      ELSE expression_inner(kind)

Opt(e) == IF e = NONE THEN <<>> ELSE expression(e, Prec.ANY)

\* Printer::statement and case.
RECURSIVE statement(_)
StatementTokens(kind) ==
  LET e(x) == expression(x, Prec.ANY)
      caseTokens(i) == (IF kind.values[i] = <<>> THEN <<Tok("default:")>>
                        ELSE [j \in DOMAIN kind.values[i] |-> <<"case", kind.values[i][j]>>])
                       \o statement(kind.bodies[i])
  IN CASE kind.k = "Block" -> <<Tok("{")>> \o FlattenSeq([i \in DOMAIN kind.stmts |-> statement(kind.stmts[i])]) \o <<Tok("}")>>
       [] kind.k = "Expression" -> e(kind.e) \o <<Tok(";")>>
       [] kind.k = "If" -> <<Tok("if(")>> \o e(kind.cond) \o <<Tok(")")>> \o statement(kind.then_)
                           \o (IF kind.else_ = NONE THEN <<>> ELSE <<Tok("else")>> \o statement(kind.else_))
       [] kind.k = "For" -> <<Tok("for(")>> \o Opt(kind.init) \o <<Tok(";")>> \o Opt(kind.cond)
                            \o <<Tok(";")>> \o Opt(kind.step) \o <<Tok(")")>> \o statement(kind.body)
       [] kind.k = "While" -> <<Tok("while(")>> \o e(kind.cond) \o <<Tok(")")>> \o statement(kind.body)
       [] kind.k = "Do" -> <<Tok("do")>> \o statement(kind.body) \o <<Tok("while(")>> \o e(kind.cond) \o <<Tok(")"), Tok(";")>>
       [] kind.k = "Switch" -> <<Tok("switch(")>> \o e(kind.e) \o <<Tok(")"), Tok("{")>>
                               \o FlattenSeq([i \in DOMAIN kind.bodies |-> caseTokens(i)]) \o <<Tok("}")>>
       [] kind.k \in {"Return", "Throw"} -> <<Tok(kind.k)>> \o Opt(kind.e) \o <<Tok(";")>>
       [] kind.k = "Try" -> <<Tok("try")>> \o statement(kind.body)
                            \o FlattenSeq([i \in DOMAIN kind.catches |-> <<Tok("catch")>> \o statement(kind.catches[i])])
       [] kind.k = "Asm" -> <<<<"asm", kind.n>>>>
       [] kind.k = "Empty" -> <<Tok(";")>>
       [] OTHER -> <<<<"jump", kind.k>>>>

statement(id) == StatementTokens(stmts[id].kind)

\* to_pseudocode.
Pseudocode == statement(result.root)

(***************************************************************************)
(* The reference: C's lexer, and a reader with C's own operator levels.    *)
(* Each reader returns a tree and the position after it.                   *)
(***************************************************************************)
\* The longest token wins: neighbours that C takes as other tokens.
Munched(a, b) ==
  CASE <<a, b>> = <<"-", "-">>  -> <<"--">>
    [] <<a, b>> = <<"-", "--">> -> <<"--", "-">>
    [] <<a, b>> = <<"&", "&">>  -> <<"&&">>
    [] OTHER -> <<a, b>>

Lex(text) ==
  LET step(toks, t) ==
        IF toks = <<>> \/ t = Space \/ Last(toks) = Space THEN Append(toks, t)
        ELSE LET m == Munched(Last(toks)[1], t[1])
             IN IF m = <<Last(toks)[1], t[1]>> THEN Append(toks, t)
                ELSE Front(toks) \o [i \in DOMAIN m |-> Tok(m[i])]
  IN SelectSeq(FoldLeft(step, <<>>, text), LAMBDA t : t # Space)

At(toks, i) == IF i \in DOMAIN toks THEN toks[i] ELSE Tok("end")
Read(t, i) == [tree |-> t, next |-> i]

\* C's levels, loosest first; assignments are the second, the ternary the third.
Levels == <<{","}, {"=", "|=", "^=", "&=", "+=", "-=", "*=", ">>=", "<<=", "/=", "%="}, {"?"}, {"||"}, {"&&"},
            {"|"}, {"^"}, {"&"}, {"==", "!="}, {"<", ">", "<=", ">="}, {"<<", ">>"}, {"+", "-"}, {"*", "/", "%"}>>
CLevel == [g \in UNION Range(Levels) |-> CHOOSE l \in DOMAIN Levels : g \in Levels[l]]

Prefix == {"-", "!", "~", "&", "++", "--"}

RECURSIVE ReadExpr(_, _, _), ReadUnary(_, _), ReadPostfix(_, _), ReadInfix(_, _, _), ReadArgs(_, _, _)

ReadPostfix(toks, left) ==
  LET i == left.next
      t == At(toks, i)
      index == ReadExpr(toks, i + 1, 1)
      call == ReadArgs(toks, i + 1, <<>>)
  IN CASE t = Tok("(") -> ReadPostfix(toks, Read(<<"Call", left.tree>> \o call.tree, call.next))
       [] t = Tok("[") -> ReadPostfix(toks, Read(<<"Index", left.tree, index.tree>>, index.next + 1))
       [] t = Tok(".") -> ReadPostfix(toks, Read(<<"MemberRef", left.tree>>, i + 1))
       [] t = Tok("->") -> ReadPostfix(toks, Read(<<"MemberPtr", left.tree>>, i + 1))
       [] t[1] \in {"++", "--"} -> ReadPostfix(toks, Read(<<"Postfix", t[1], left.tree>>, i + 1))
       [] OTHER -> left

\* Arguments up to the closing parenthesis, which is passed.
ReadArgs(toks, i, args) ==
  IF At(toks, i) = Tok(")") THEN Read(args, i + 1)
  ELSE LET a == ReadExpr(toks, i, 2)
       IN  IF At(toks, a.next) = Tok(",") THEN ReadArgs(toks, a.next + 1, Append(args, a.tree))
           ELSE Read(Append(args, a.tree), a.next + 1)

ReadUnary(toks, i) ==
  LET t == At(toks, i)
      operand == ReadUnary(toks, i + 1)
      inner == ReadExpr(toks, i + 1, 1)
  IN CASE t = Tok("(") -> ReadPostfix(toks, Read(inner.tree, inner.next + 1))
       [] t[1] = "leaf" -> ReadPostfix(toks, Read(<<t[2]>>, i + 1))
       [] t[1] \in Prefix -> Read(<<"Unary", t[1], operand.tree>>, operand.next)
       [] t = Tok("cast") -> Read(<<"Cast", operand.tree>>, operand.next)
       [] t = Tok("*") -> Read(<<"Deref", operand.tree>>, operand.next)
       [] t = Tok("sizeof(") -> Read(<<"Sizeof", inner.tree>>, inner.next + 1)
       [] OTHER -> Read(<<"unreadable">>, i)

ReadInfix(toks, left, min) ==
  LET i == left.next
      g == At(toks, i)[1]
      level == IF g \in DOMAIN CLevel THEN CLevel[g] ELSE 0
      right == ReadExpr(toks, i + 1, IF level = 2 THEN 2 ELSE level + 1)
      name == IF level = 2 THEN "Assign" ELSE "Binary"
      then_ == ReadExpr(toks, i + 1, 1)
      else_ == ReadExpr(toks, then_.next + 1, 3)
  IN IF level < min THEN left
     ELSE IF g = "?" THEN ReadInfix(toks, Read(<<"Ternary", left.tree, then_.tree, else_.tree>>, else_.next), min)
     ELSE ReadInfix(toks, Read(<<name, g, left.tree, right.tree>>, right.next), min)

ReadExpr(toks, i, min) == ReadInfix(toks, ReadUnary(toks, i), min)

RECURSIVE ReadStmt(_, _), ReadUntil(_, _, _), ReadCases(_, _, _, _), ReadCatches(_, _, _)

\* An optional expression before the token `close`, which is passed.
ReadOpt(toks, i, close) ==
  IF At(toks, i) = Tok(close) THEN Read(<<>>, i + 1)
  ELSE LET e == ReadExpr(toks, i, 1) IN Read(<<e.tree>>, e.next + 1)

ReadUntil(toks, i, list) ==
  IF At(toks, i) = Tok("}") THEN Read(list, i + 1)
  ELSE LET s == ReadStmt(toks, i) IN ReadUntil(toks, s.next, Append(list, s.tree))

\* Labels pile up until a statement follows.
ReadCases(toks, i, labels, list) ==
  LET t == At(toks, i)
  IN CASE t = Tok("}") -> Read(list, i + 1)
       [] t[1] = "case" -> ReadCases(toks, i + 1, Append(labels, t[2]), list)
       [] t = Tok("default:") -> ReadCases(toks, i + 1, <<>>, list)
       [] OTHER -> LET s == ReadStmt(toks, i)
                   IN ReadCases(toks, s.next, <<>>, Append(list, <<labels, s.tree>>))

ReadCatches(toks, i, list) ==
  IF At(toks, i) = Tok("catch")
  THEN LET s == ReadStmt(toks, i + 1) IN ReadCatches(toks, s.next, Append(list, s.tree))
  ELSE Read(list, i)

\* An else belongs to the nearest if.
ReadStmt(toks, i) ==
  LET t == At(toks, i)
      e == ReadExpr(toks, i + 1, 1)
      body == ReadStmt(toks, e.next + 1)
      first == ReadStmt(toks, i + 1)
      elseS == ReadStmt(toks, body.next + 1)
      until == ReadExpr(toks, first.next + 1, 1)
      list == ReadUntil(toks, i + 1, <<>>)
      cases == ReadCases(toks, e.next + 2, <<>>, <<>>)
      catches == ReadCatches(toks, first.next, <<>>)
      init == ReadOpt(toks, i + 1, ";")
      cond == ReadOpt(toks, init.next, ";")
      step == ReadOpt(toks, cond.next, ")")
      forBody == ReadStmt(toks, step.next)
      plain == ReadExpr(toks, i, 1)
      value == ReadOpt(toks, i + 1, ";")
  IN CASE t = Tok("{") -> Read(<<"Block", list.tree>>, list.next)
       [] t = Tok("if(") -> IF At(toks, body.next) = Tok("else")
                            THEN Read(<<"If", e.tree, body.tree, elseS.tree>>, elseS.next)
                            ELSE Read(<<"If", e.tree, body.tree>>, body.next)
       [] t = Tok("for(") -> Read(<<"For", init.tree, cond.tree, step.tree, forBody.tree>>, forBody.next)
       [] t = Tok("while(") -> Read(<<"While", e.tree, body.tree>>, body.next)
       [] t = Tok("do") -> Read(<<"Do", first.tree, until.tree>>, until.next + 2)
       [] t = Tok("switch(") -> Read(<<"Switch", e.tree, cases.tree>>, cases.next)
       [] t = Tok("try") -> Read(<<"Try", first.tree, catches.tree>>, catches.next)
       [] t \in {Tok("Return"), Tok("Throw")} -> Read(<<t[1], value.tree>>, value.next)
       [] t[1] \in {"asm", "jump"} -> Read(<<t>>, i + 1)
       [] t = Tok(";") -> Read(<<"Empty">>, i + 1)
       [] OTHER -> Read(<<"Expression", plain.tree>>, plain.next + 1)

(***************************************************************************)
(* The tree itself, in the shape the reader produces.                      *)
(***************************************************************************)
RECURSIVE ExprTree(_), StmtTree(_)

ExprTree(id) ==
  LET kind == exprs[id].kind
      kids == [i \in DOMAIN ExprChildren(kind) |-> ExprTree(ExprChildren(kind)[i][2])]
      name == IF kind.k = "Unary" /\ kind.op \in Postfix THEN "Postfix" ELSE kind.k
  IN  (IF kind.k \in {"Binary", "Assign", "Unary"} THEN <<name, symbol(kind.op)>> ELSE <<kind.k>>) \o kids

OptTree(e) == IF e = NONE THEN <<>> ELSE <<ExprTree(e)>>

StmtTree(id) ==
  LET kind == stmts[id].kind
      all(list) == [i \in DOMAIN list |-> StmtTree(list[i])]
  IN CASE kind.k = "Block" -> <<"Block", all(kind.stmts)>>
       [] kind.k = "Expression" -> <<"Expression", ExprTree(kind.e)>>
       [] kind.k = "If" -> <<"If", ExprTree(kind.cond), StmtTree(kind.then_)>>
                           \o (IF kind.else_ = NONE THEN <<>> ELSE <<StmtTree(kind.else_)>>)
       [] kind.k = "For" -> <<"For", OptTree(kind.init), OptTree(kind.cond), OptTree(kind.step), StmtTree(kind.body)>>
       [] kind.k = "While" -> <<"While", ExprTree(kind.cond), StmtTree(kind.body)>>
       [] kind.k = "Do" -> <<"Do", StmtTree(kind.body), ExprTree(kind.cond)>>
       [] kind.k = "Switch" -> <<"Switch", ExprTree(kind.e),
                                 [i \in DOMAIN kind.bodies |-> <<kind.values[i], StmtTree(kind.bodies[i])>>]>>
       [] kind.k = "Try" -> <<"Try", StmtTree(kind.body), all(kind.catches)>>
       [] kind.k \in {"Return", "Throw"} -> <<kind.k, OptTree(kind.e)>>
       [] kind.k = "Asm" -> <<<<"asm", kind.n>>>>
       [] kind.k = "Empty" -> <<"Empty">>
       [] OTHER -> <<<<"jump", kind.k>>>>

\* Statements whose text ends in an if without an else.
RECURSIVE EndsInOpenIf(_)
EndsInOpenIf(id) ==
  LET kind == stmts[id].kind
  IN CASE kind.k = "If" -> kind.else_ = NONE \/ EndsInOpenIf(kind.else_)
       [] kind.k \in {"For", "While"} -> EndsInOpenIf(kind.body)
       [] OTHER -> FALSE

DanglingElse == \E i \in DOMAIN stmts :
  LET kind == stmts[i].kind IN kind.k = "If" /\ kind.else_ # NONE /\ EndsInOpenIf(kind.then_)

Unprinted == \E i \in DOMAIN exprs : exprs[i].kind.k \in {"Empty", "Internal"}

\* A minus before a minus or a decrement, or an address of an address: the
\* printer writes a prefix operator with no space after it.
Glued == \E i \in DOMAIN exprs :
  LET kind == exprs[i].kind
      below == exprs[kind.x].kind
  IN  kind.k = "Unary" /\ below.k = "Unary"
      /\ {kind.op, below.op} \cap Postfix = {}
      /\ <<symbol(kind.op), symbol(below.op)>> \in {<<"-", "-">>, <<"-", "--">>, <<"&", "&">>}

TextIsTree ==
  LET toks == Lex(Pseudocode)
  IN  ReadStmt(toks, 1) = Read(StmtTree(result.root), Len(toks) + 1)

\* The printed text is the tree: lexed and read with C's precedence and
\* associativity it gives back every operand, list and case label in its place
\* and every operator, up to those that are spelled alike (render.rs: "operators
\* mapped right, operands not dropped, precedence preserved").  Empty and
\* internal expressions print nothing, an else after an if that has none binds
\* to the inner one, and two prefix operators can run into one; a tree with one
\* of these is set aside.
Reparses == result.is = "Ok" /\ ~Unprinted /\ ~DanglingElse /\ ~Glued => TextIsTree

\* The same with two prefix operators in a row: render.rs claims "operators
\* mapped right" of every tree, and -(-x) is printed as --x.
ReparsesGlued == result.is = "Ok" /\ ~Unprinted /\ ~DanglingElse => TextIsTree

\* The same with an else after an if that has none.
ReparsesElse == result.is = "Ok" /\ ~Unprinted /\ ~Glued => TextIsTree
=============================================================================
