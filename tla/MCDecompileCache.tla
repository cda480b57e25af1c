-------------------------- MODULE MCDecompileCache --------------------------
(***************************************************************************)
(* A small program for DecompileCache: function 1 (addresses 1 and 2)      *)
(* calls function 3, which keeps the address of function 1; data at 4 is   *)
(* read by function 3 and points at it, data at 5 is read by function 1.   *)
(***************************************************************************)
EXTENDS DecompileCache

MCFuncStart == [a \in 1..5 |-> IF a < 3 THEN 1 ELSE IF a = 3 THEN 3 ELSE 0]

MCXref == {[from |-> 2, to |-> 3, code |-> TRUE],
           [from |-> 3, to |-> 1, code |-> FALSE],
           [from |-> 3, to |-> 4, code |-> FALSE],
           [from |-> 4, to |-> 3, code |-> FALSE],
           [from |-> 2, to |-> 5, code |-> FALSE]}

=============================================================================
