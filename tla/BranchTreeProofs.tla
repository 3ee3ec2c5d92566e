--------------------------- MODULE BranchTreeProofs ---------------------------
(***************************************************************************)
(* BranchTree keeps the shape of a tree, for any cells and branches.       *)
(***************************************************************************)
EXTENDS BranchTree, SequenceTheorems, TLAPS

\* A commit puts a cell that is on no line at the end of one line.
LEMMA CommitLine ==
    ASSUME TypeOK, NEW b \in BranchIDs, NEW c \in CellIDs, Commit(b, c)
    PROVE  /\ DOMAIN line' = DOMAIN line
           /\ line' \in [DOMAIN line -> Seq(CellIDs)]
           /\ Len(line'[b]) = Len(line[b]) + 1
           /\ line'[b][Len(line[b]) + 1] = c
           /\ \A i \in 1..Len(line[b]) : line'[b][i] = line[b][i]
           /\ \A q \in DOMAIN line : q # b => line'[q] = line[q]
<1>1. line[b] \in Seq(CellIDs)
  BY DEF TypeOK, Commit
<1>2. line' = [line EXCEPT ![b] = Append(line[b], c)] /\ b \in DOMAIN line
  BY DEF Commit
<1>3. /\ Append(line[b], c) \in Seq(CellIDs)
      /\ Len(Append(line[b], c)) = Len(line[b]) + 1
      /\ Append(line[b], c)[Len(line[b]) + 1] = c
      /\ \A i \in 1..Len(line[b]) : Append(line[b], c)[i] = line[b][i]
  BY <1>1
<1> QED BY <1>2, <1>3 DEF TypeOK

\* A fork adds one line, a prefix of the line it is rooted on.
LEMMA ForkLine ==
    ASSUME TypeOK, NEW b \in BranchIDs, NEW p \in DOMAIN line,
           NEW n \in 1..Len(line[p]), Fork(b, p, n)
    PROVE  /\ b \notin DOMAIN line
           /\ DOMAIN line' = DOMAIN line \cup {b}
           /\ line' \in [DOMAIN line' -> Seq(CellIDs)]
           /\ Len(line'[b]) = n
           /\ \A i \in 1..n : line'[b][i] = line[p][i]
           /\ \A q \in DOMAIN line : line'[q] = line[q]
<1>1. line[p] \in Seq(CellIDs) /\ n \in Nat /\ n <= Len(line[p])
  BY DEF TypeOK
<1>2. line' = [q \in DOMAIN line \cup {b} |->
                 IF q = b THEN SubSeq(line[p], 1, n) ELSE line[q]]
  BY DEF Fork
<1>3. /\ SubSeq(line[p], 1, n) \in Seq(CellIDs)
      /\ Len(SubSeq(line[p], 1, n)) = n
      /\ \A i \in 1..n : SubSeq(line[p], 1, n)[i] = line[p][i]
  BY <1>1
<1>4. b \notin DOMAIN line
  BY DEF Fork
<1> QED BY <1>2, <1>3, <1>4 DEF TypeOK

TreeInv == TypeOK /\ TreeShape /\ CursorOnLine

\* A session starts with one empty line.
LEMMA InitTree ==
    ASSUME TreeAssumption
    PROVE  Init => TreeInv
<1> SUFFICES ASSUME Init PROVE TreeInv
  OBVIOUS
<1>1. DOMAIN line = {Root} /\ line[Root] = <<>> /\ Len(line[Root]) = 0
  BY DEF Init
<1>2. TypeOK
  BY <1>1 DEF Init, TypeOK, TreeAssumption
<1>3. TreeShape
  BY <1>1 DEF TreeShape
<1>4. CursorOnLine
  BY <1>1 DEF Init, CursorOnLine
<1> QED BY <1>2, <1>3, <1>4 DEF TreeInv

\* A commit keeps the tree: the new cell is on no other line.
LEMMA CommitTree ==
    ASSUME TreeInv, NEW b \in BranchIDs, NEW c \in CellIDs, Commit(b, c)
    PROVE  TreeInv'
<1> USE DEF TreeInv
<1>1. b \in DOMAIN line /\ cursor' = <<b, c>>
      /\ \A q \in DOMAIN line : \A i \in 1..Len(line[q]) : line[q][i] # c
  BY DEF Commit, InLine
<1>2. /\ DOMAIN line' = DOMAIN line
      /\ line' \in [DOMAIN line -> Seq(CellIDs)]
      /\ Len(line'[b]) = Len(line[b]) + 1
      /\ line'[b][Len(line[b]) + 1] = c
      /\ \A i \in 1..Len(line[b]) : line'[b][i] = line[b][i]
      /\ \A q \in DOMAIN line : q # b => line'[q] = line[q]
  BY CommitLine
<1>3. \A q \in DOMAIN line : Len(line[q]) \in Nat
  BY DEF TypeOK
<1>4. TypeOK'
  BY <1>1, <1>2 DEF TypeOK
<1>5. TreeShape'
  <2> SUFFICES ASSUME NEW p \in DOMAIN line, NEW q \in DOMAIN line,
                      NEW i \in 1..Len(line'[p]), NEW j \in 1..Len(line'[q]),
                      line'[p][i] = line'[q][j]
               PROVE  i = j /\ \A k \in 1..i : line'[p][k] = line'[q][k]
    BY <1>2 DEF TreeShape
  \* The end of the line of b is the new cell, everything before is old.
  <2>1. \A r \in DOMAIN line : \A k \in 1..Len(line'[r]) :
           \/ r = b /\ k = Len(line[b]) + 1 /\ line'[r][k] = c
           \/ k \in 1..Len(line[r]) /\ line'[r][k] = line[r][k] /\ line[r][k] # c
    BY <1>1, <1>2, <1>3
  <2>2. CASE i \in 1..Len(line[p]) /\ line'[p][i] = line[p][i] /\ line[p][i] # c
    <3>1. j \in 1..Len(line[q]) /\ line'[q][j] = line[q][j]
      BY <2>1, <2>2
    <3>2. i = j /\ \A k \in 1..i : line[p][k] = line[q][k]
      <4>1. TreeShape /\ line[p][i] = line[q][j]
        BY <2>2, <3>1
      <4> QED BY <4>1, <2>2, <3>1, Zenon DEF TreeShape
    <3>3. 1..i \subseteq 1..Len(line[p]) /\ 1..i \subseteq 1..Len(line[q])
      BY <1>3, <2>2, <3>1, <3>2
    <3>4. \A r \in DOMAIN line : \A k \in 1..Len(line[r]) : line'[r][k] = line[r][k]
      BY <1>2
    <3> QED BY <3>2, <3>3, <3>4
  <2>3. CASE p = b /\ i = Len(line[b]) + 1 /\ line'[p][i] = c
    <3>1. q = b /\ j = Len(line[b]) + 1
      BY <2>1, <2>3
    <3> QED BY <2>3, <3>1
  <2> QED BY <2>1, <2>2, <2>3
<1>6. CursorOnLine'
  BY <1>1, <1>2, <1>3 DEF CursorOnLine, InLine
<1> QED BY <1>4, <1>5, <1>6

\* A fork keeps the tree: its line is the beginning of another one.
LEMMA ForkTree ==
    ASSUME TreeInv, NEW b \in BranchIDs, NEW p \in DOMAIN line,
           NEW n \in 1..Len(line[p]), Fork(b, p, n)
    PROVE  TreeInv'
<1> USE DEF TreeInv
<1>1. cursor' \in {cursor, <<b, line[p][n]>>}
  BY DEF Fork
<1>2. /\ b \notin DOMAIN line
      /\ DOMAIN line' = DOMAIN line \cup {b}
      /\ line' \in [DOMAIN line' -> Seq(CellIDs)]
      /\ Len(line'[b]) = n
      /\ \A i \in 1..n : line'[b][i] = line[p][i]
      /\ \A q \in DOMAIN line : line'[q] = line[q]
  BY ForkLine
<1>3. \A q \in DOMAIN line : Len(line[q]) \in Nat /\ line[q] \in Seq(CellIDs)
  BY DEF TypeOK
<1>4. TypeOK'
  <2>1. line[p][n] \in CellIDs
    BY <1>3
  <2> QED BY <1>1, <1>2, <2>1 DEF TypeOK
\* Every line of the new state agrees with a line of the old one.
<1>5. \A q \in DOMAIN line' : \E r \in DOMAIN line :
         /\ 1..Len(line'[q]) \subseteq 1..Len(line[r])
         /\ \A k \in 1..Len(line'[q]) : line'[q][k] = line[r][k]
  <2>1. 1..n \subseteq 1..Len(line[p])
    BY <1>3
  <2> QED BY <1>2, <2>1
<1>6. TreeShape'
  <2> SUFFICES ASSUME NEW q \in DOMAIN line', NEW r \in DOMAIN line',
                      NEW i \in 1..Len(line'[q]), NEW j \in 1..Len(line'[r]),
                      line'[q][i] = line'[r][j]
               PROVE  i = j /\ \A k \in 1..i : line'[q][k] = line'[r][k]
    BY DEF TreeShape
  <2>1. PICK q0 \in DOMAIN line :
           /\ 1..Len(line'[q]) \subseteq 1..Len(line[q0])
           /\ \A k \in 1..Len(line'[q]) : line'[q][k] = line[q0][k]
    BY <1>5
  <2>2. PICK r0 \in DOMAIN line :
           /\ 1..Len(line'[r]) \subseteq 1..Len(line[r0])
           /\ \A k \in 1..Len(line'[r]) : line'[r][k] = line[r0][k]
    BY <1>5
  <2>3. i = j /\ \A k \in 1..i : line[q0][k] = line[r0][k]
    BY <2>1, <2>2 DEF TreeShape
  <2>4. 1..i \subseteq 1..Len(line'[q]) /\ 1..i \subseteq 1..Len(line'[r])
    <3>1. Len(line'[q]) \in Nat /\ Len(line'[r]) \in Nat
      BY <1>2
    <3> QED BY <2>3, <3>1
  <2> QED BY <2>1, <2>2, <2>3, <2>4
<1>7. CursorOnLine'
  <2>1. CASE cursor' = cursor
    BY <1>2, <2>1 DEF CursorOnLine, InLine
  <2>2. CASE cursor' = <<b, line[p][n]>>
    <3>1. cursor'[1] = b /\ cursor'[2] = line[p][n]
      BY <2>2
    <3>2. n \in 1..Len(line'[b]) /\ line'[b][n] = line[p][n]
      BY <1>2, <1>3
    <3> QED BY <1>2, <3>1, <3>2 DEF CursorOnLine, InLine
  <2> QED BY <1>1, <2>1, <2>2
<1> QED BY <1>4, <1>6, <1>7

\* A restore moves the cursor to a cell of a line.
LEMMA RestoreTree ==
    ASSUME TreeInv, NEW p \in DOMAIN line, NEW n \in 1..Len(line[p]),
           Restore(p, n)
    PROVE  TreeInv'
<1> USE DEF TreeInv
<1>1. line' = line /\ cursor' = <<p, line[p][n]>>
  BY DEF Restore
<1>2. line[p][n] \in CellIDs /\ p \in BranchIDs
  BY DEF TypeOK
<1>3. TypeOK'
  BY <1>1, <1>2 DEF TypeOK
<1>4. TreeShape'
  <2> SUFFICES ASSUME NEW q \in DOMAIN line, NEW r \in DOMAIN line,
                      NEW i \in 1..Len(line[q]), NEW j \in 1..Len(line[r]),
                      line[q][i] = line[r][j]
               PROVE  i = j /\ \A k \in 1..i : line[q][k] = line[r][k]
    BY <1>1 DEF TreeShape
  <2>1. TreeShape
    OBVIOUS
  <2> QED BY <2>1 DEF TreeShape
<1>5. CursorOnLine'
  BY <1>1 DEF CursorOnLine, InLine
<1> QED BY <1>3, <1>4, <1>5

\* Every step keeps the tree.
LEMMA TreeStep == TreeInv /\ [Next]_treeVars => TreeInv'
<1> SUFFICES ASSUME TreeInv, [Next]_treeVars PROVE TreeInv'
  OBVIOUS
<1>1. CASE \E b \in BranchIDs, c \in CellIDs : Commit(b, c)
  BY <1>1, CommitTree
<1>2. CASE \E b \in BranchIDs, p \in DOMAIN line :
              \E n \in 1..Len(line[p]) : Fork(b, p, n)
  BY <1>2, ForkTree
<1>3. CASE \E p \in DOMAIN line : \E n \in 1..Len(line[p]) : Restore(p, n)
  BY <1>3, RestoreTree
<1>4. CASE UNCHANGED treeVars
  BY <1>4 DEF treeVars, TreeInv, TypeOK, TreeShape, CursorOnLine, InLine
<1> QED BY <1>1, <1>2, <1>3, <1>4 DEF Next

\* The conjunction of the invariants is inductive.
THEOREM TreeInvariant ==
    ASSUME TreeAssumption
    PROVE  Spec => []TreeInv
  BY InitTree, TreeStep, PTL DEF Spec

\* Lines and cursor keep their types.
THEOREM TreeType ==
    ASSUME TreeAssumption
    PROVE  Spec => []TypeOK
<1>1. TreeInv => TypeOK
  BY DEF TreeInv
<1> QED BY <1>1, TreeInvariant, PTL

\* The branches form a tree: a shared cell has one history.
THEOREM TreeShapeInvariant ==
    ASSUME TreeAssumption
    PROVE  Spec => []TreeShape
<1>1. TreeInv => TreeShape
  BY DEF TreeInv
<1> QED BY <1>1, TreeInvariant, PTL

\* The active head is on the active branch.
THEOREM CursorInvariant ==
    ASSUME TreeAssumption
    PROVE  Spec => []CursorOnLine
<1>1. TreeInv => CursorOnLine
  BY DEF TreeInv
<1> QED BY <1>1, TreeInvariant, PTL

\* No step changes or drops a committed cell.
LEMMA GrowStep ==
    ASSUME TypeOK, [Next]_treeVars
    PROVE  \A b \in DOMAIN line :
              /\ b \in DOMAIN line'
              /\ Len(line[b]) <= Len(line'[b])
              /\ \A i \in 1..Len(line[b]) : line'[b][i] = line[b][i]
<1> SUFFICES ASSUME NEW q \in DOMAIN line
             PROVE  /\ q \in DOMAIN line'
                    /\ Len(line[q]) <= Len(line'[q])
                    /\ \A i \in 1..Len(line[q]) : line'[q][i] = line[q][i]
  OBVIOUS
<1>0. Len(line[q]) \in Nat
  BY DEF TypeOK
<1>1. ASSUME NEW b \in BranchIDs, NEW c \in CellIDs, Commit(b, c)
      PROVE  /\ q \in DOMAIN line'
             /\ Len(line[q]) <= Len(line'[q])
             /\ \A i \in 1..Len(line[q]) : line'[q][i] = line[q][i]
  <2>1. CASE q = b
    BY <1>0, <1>1, <2>1, CommitLine
  <2>2. CASE q # b
    BY <1>0, <1>1, <2>2, CommitLine
  <2> QED BY <2>1, <2>2
<1>2. ASSUME NEW b \in BranchIDs, NEW p \in DOMAIN line,
             NEW n \in 1..Len(line[p]), Fork(b, p, n)
      PROVE  /\ q \in DOMAIN line'
             /\ Len(line[q]) <= Len(line'[q])
             /\ \A i \in 1..Len(line[q]) : line'[q][i] = line[q][i]
  <2>1. q \in DOMAIN line' /\ line'[q] = line[q]
    BY <1>2, ForkLine
  <2> QED BY <1>0, <2>1
<1>3. ASSUME NEW p \in DOMAIN line, NEW n \in 1..Len(line[p]), Restore(p, n)
      PROVE  line' = line
  BY <1>3 DEF Restore
<1>4. CASE UNCHANGED treeVars
  BY <1>0, <1>4 DEF treeVars
<1>5. CASE \E p \in DOMAIN line : \E n \in 1..Len(line[p]) : Restore(p, n)
  BY <1>0, <1>3, <1>5
<1> QED BY <1>1, <1>2, <1>4, <1>5 DEF Next

\* What is committed stays where it is, however the session goes on.
THEOREM LinesGrow ==
    ASSUME TreeAssumption
    PROVE  Spec => LinesOnlyGrow
<1>1. TypeOK /\ [Next]_treeVars =>
         [\A b \in DOMAIN line :
             /\ b \in DOMAIN line'
             /\ Len(line[b]) <= Len(line'[b])
             /\ \A i \in 1..Len(line[b]) : line'[b][i] = line[b][i]]_treeVars
  BY GrowStep
<1> QED BY <1>1, TreeType, PTL DEF Spec, LinesOnlyGrow
===============================================================================
