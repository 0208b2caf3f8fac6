--------------------------- MODULE MCAstRefactorer ---------------------------
(***************************************************************************)
(* TLC instance of AstRefactorer on bodies of up to three statements that  *)
(* hold a guard clause.                                                    *)
(***************************************************************************)
EXTENDS AstRefactorer

Guard == If(When({Test("eq", "x")}), <<Do(2), Do(3)>>, <<>>)

PlainFunctions ==
  {Function("top", FALSE, b) : b \in UNION {[1..l -> {Do(1), Return(Const("a")), Guard}] : l \in 1..3}}
=============================================================================
