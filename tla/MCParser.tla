------------------------------ MODULE MCParser ------------------------------
(* Parser on all short conditions over a few tokens, and on written ones   *)
(* whose operands are of every level but the loosest.                      *)
EXTENDS Parser

MCTyped == {"a", "NOT", "AND", "OR", "=", "LIKE", "BETWEEN", "IS", "NULL", "-", "*", "(", ")"}

B == <<"b">>
MCFirst == B
MCOperand == {B, <<"OR", B, B>>, <<"NOT", B>>, <<"=", B, B>>, <<"+", B, B>>, <<"-", B>>}
=============================================================================
