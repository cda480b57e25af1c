------------------------------ MODULE MCCtree ------------------------------
(* Six shapes of input: every statement over a few expressions, one        *)
(* expression of each class and precedence, conditionals inside each other, *)
(* globals behind wrappers, unary operators side by side, and defects.      *)
EXTENDS CtreeRender

MCInputs ==
  {[exprs |-> {cot.empty, cot.num}, stmts |-> DOMAIN [s \in 70..84 |-> s] \ {cit.goto_, cit.continue_},
    eas |-> {1}, size |-> 6, fan |-> 2, locals |-> 0, faults |-> 0],
   [exprs |-> {cot.var, cot.call, cot.comma, 2, 35, 36, 47, cot.ptr, cot.postdec, cot.tern,
               cot.idx, cot.memptr, cot.cast, cot.sizeof},
    stmts |-> {cit.block_, cit.expr_}, eas |-> {1}, size |-> 7, fan |-> 1, locals |-> 0, faults |-> 0],
   [exprs |-> {cot.num}, stmts |-> {cit.block_, cit.if_, cit.while_, cit.break_},
    eas |-> {1}, size |-> 9, fan |-> 1, locals |-> 0, faults |-> 0],
   [exprs |-> {cot.obj, cot.cast, cot.ref, cot.ptr, 2}, stmts |-> {cit.block_, cit.expr_},
    eas |-> {1}, size |-> 7, fan |-> 1, locals |-> 0, faults |-> 0],
   [exprs |-> {cot.num, 21, 36, 47, cot.ref, 56, cot.postdec, cot.memptr}, stmts |-> {cit.block_, cit.expr_},
    eas |-> {1}, size |-> 8, fan |-> 1, locals |-> 0, faults |-> 0],
   [exprs |-> {cot.num, cot.obj, 35, cot.insn, 90}, stmts |-> {cit.block_, cit.expr_, cit.asm_, cit.goto_},
    eas |-> {BADADDR, 1}, size |-> 4, fan |-> 2, locals |-> 1, faults |-> 2]}

=============================================================================
