----------------------------- MODULE MCCellScope -----------------------------
(* Small sets of cells for CellScope. *)
EXTENDS CellScope

Decl(n, k) == [name |-> n, kind |-> k]
OneDecl(kinds) == {<<Decl(n, k)>> : n \in Names, k \in kinds}
TwoDecls(kinds) ==
    {<<Decl(n[1], k), Decl(n[2], l)>> :
        n \in {p \in Names \X Names : p[1] # p[2]}, k \in kinds, l \in kinds}

DeclaringCells(kinds, ends) ==
    [decls : OneDecl(kinds) \cup TwoDecls(kinds), write : {NoName},
     how : {"identifier"}, ends : ends]
WritingCells ==
    [decls : {<<>>}, write : Names, how : {"identifier", "globalThis"},
     ends : {"commits"}]

\* Cells that declare a name and write one through globalThis.
DeclaringWriters ==
    [decls : OneDecl({"var"}), write : Names, how : {"globalThis"}, ends : {"returns"}]

EveryCell ==
    DeclaringCells({"var", "let"}, Ends) \cup WritingCells \cup DeclaringWriters
==============================================================================
