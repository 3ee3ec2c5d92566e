------------------------------ MODULE BranchTree ------------------------------
(***************************************************************************)
(* What a session promises about its history, whatever it is stored as:    *)
(* every branch is a line of committed cells, a fork starts as a copy of   *)
(* the line up to the cell it is rooted at, and lines only grow at their   *)
(* end.  Session implements this (Session!RefinesBranchTree).              *)
(***************************************************************************)
EXTENDS Naturals, Sequences

CONSTANTS CellIDs, BranchIDs, Root, None

\* What the constants stand for.
TreeAssumption == Root \in BranchIDs /\ None \notin CellIDs

VARIABLES
    line,    \* per branch that exists: its cells, from the first of the session
    cursor   \* the active branch and head

treeVars == <<line, cursor>>

Init ==
    /\ line = [b \in {Root} |-> <<>>]
    /\ cursor = <<Root, None>>

InLine(c, b) == \E i \in 1..Len(line[b]) : line[b][i] = c

\* A submit appends a new cell to a branch, which becomes the active one.
Commit(b, c) ==
    /\ b \in DOMAIN line
    /\ \A p \in DOMAIN line : ~InLine(c, p)
    /\ line' = [line EXCEPT ![b] = Append(@, c)]
    /\ cursor' = <<b, c>>

\* A fork copies a line up to a cell. It becomes active, unless recording that
\* fails.
Fork(b, p, n) ==
    /\ b \notin DOMAIN line
    /\ p \in DOMAIN line /\ n \in 1..Len(line[p])
    /\ line' = [q \in DOMAIN line \cup {b} |->
                  IF q = b THEN SubSeq(line[p], 1, n) ELSE line[q]]
    /\ cursor' \in {cursor, <<b, line[p][n]>>}

\* Restore moves the cursor to a committed cell.
Restore(p, n) ==
    /\ p \in DOMAIN line /\ n \in 1..Len(line[p])
    /\ cursor' = <<p, line[p][n]>>
    /\ UNCHANGED line

Next ==
    \/ \E b \in BranchIDs, c \in CellIDs : Commit(b, c)
    \/ \E b \in BranchIDs, p \in DOMAIN line :
          \E n \in 1..Len(line[p]) : Fork(b, p, n)
    \/ \E p \in DOMAIN line : \E n \in 1..Len(line[p]) : Restore(p, n)

Spec == Init /\ [][Next]_treeVars

-----------------------------------------------------------------------------
\* The lines and the cursor have their types.
TypeOK ==
    /\ DOMAIN line \subseteq BranchIDs /\ Root \in DOMAIN line
    /\ line \in [DOMAIN line -> Seq(CellIDs)]
    /\ cursor \in BranchIDs \X (CellIDs \cup {None})

\* The branches form a tree: a cell two branches share has the same position
\* and the same history on both, so replaying to it gives one answer.
TreeShape ==
    \A p, q \in DOMAIN line :
       \A i \in 1..Len(line[p]), j \in 1..Len(line[q]) :
          line[p][i] = line[q][j] =>
             i = j /\ \A k \in 1..i : line[p][k] = line[q][k]

\* The active head is a cell of the active branch, or nothing is committed
\* there yet.
CursorOnLine ==
    /\ cursor[1] \in DOMAIN line
    /\ cursor[2] # None => InLine(cursor[2], cursor[1])

\* A line only grows at its end: what is committed stays where it is.
LinesOnlyGrow ==
    [][\A b \in DOMAIN line :
          /\ b \in DOMAIN line'
          /\ Len(line[b]) <= Len(line'[b])
          /\ \A i \in 1..Len(line[b]) : line'[b][i] = line[b][i]]_treeVars
===============================================================================
