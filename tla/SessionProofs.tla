---------------------------- MODULE SessionProofs ----------------------------
(***************************************************************************)
(* The heads of a branch form one line, a cell whose submit failed is no   *)
(* head, and the plan of a committed cell does not change, whatever the    *)
(* handles do and wherever they fail.                                      *)
(*                                                                         *)
(* A handle compares the durable head with its own once, when it begins a  *)
(* submit, and moves the head three appends later.  So the proof has to    *)
(* carry the comparison along, and to know where a handle can be that is   *)
(* on a branch without heads: at the cell the branch was forked at.        *)
(*                                                                         *)
(* Plans are built from the path of forks above a branch.  A path ends     *)
(* because a branch is forked from one with a smaller number, and it stays *)
(* because cells are committed in the order of their numbers: what comes   *)
(* later comes after every stop and every cutoff of the path.              *)
(***************************************************************************)
EXTENDS Session, OrderedProofs

Facts ==
    [type : {"CellChecked"}, branch : Nat, cell : Nat, source : Kinds]
    \cup [type : {"CellEvaluated", "CellCommitted", "BranchCreated", "SessionStarted"},
          branch : Nat, cell : Nat]
    \cup [type : {"CellFailed"}, branch : Nat, cell : Nat, parent : Nat]
    \cup [type : {"HeadMoved"}, branch : Nat, cell : Nat, previous : Nat]
    \cup [type : {"RestoreCompleted"}, branch : Nat, cell : Nat, newBranch : Nat]
    \cup [type : {"RuntimeTransitioned", "RuntimeAttached"}, branch : Nat, cell : Nat,
          hash : Hashes]

CellCount(l) == Cardinality(OfType(l, "CellChecked"))
BranchCount(l) == Cardinality(OfType(l, "BranchCreated"))

\* A branch whose creation is in the log, and the head it starts at.
Created(l, b) == b = RootBranch \/ OnBranch(l, "BranchCreated", b) # {}
Start(l, b) ==
    IF b = RootBranch THEN NoCell ELSE l[Min(OnBranch(l, "BranchCreated", b))].cell

\* Where a handle may be: on a branch that has no head yet, at its start.
AtHead(l, b, h) ==
    Created(l, b) /\ (OnBranch(l, "HeadMoved", b) = {} => h = Start(l, b))

CommittedOn(l, b, c) == \E i \in OfCell(l, "CellCommitted", c) : l[i].branch = b

\* Branches and cells are numbered as they are created; a cell is committed once.
NumbersInv(l) ==
    /\ \A i \in OfType(l, "BranchCreated") :
          RootBranch < l[i].branch /\ l[i].branch < BranchCount(l) + 2
    /\ \A i \in OfType(l, "CellCommitted") : l[i].cell \in 1..CellCount(l)
    /\ \A i, j \in OfType(l, "CellCommitted") : l[i].cell = l[j].cell => i = j

\* A head is a cell committed on its branch; a restore goes to the head some branch
\* had, a fork to the start of the branch made for it.
HeadsInv(l) ==
    /\ \A i \in OfType(l, "HeadMoved") :
          CommittedOn(l, l[i].branch, l[i].cell) /\ Created(l, l[i].branch)
    /\ \A i \in OfType(l, "RestoreCompleted") :
          /\ l[i].cell \in MovedCells(l)
          /\ l[i].newBranch # NoBranch => /\ Created(l, l[i].newBranch)
                                          /\ l[i].newBranch # RootBranch
                                          /\ Start(l, l[i].newBranch) = l[i].cell

\* Cells are committed on branches that were created; a branch is forked from one
\* with a smaller number.
ForksInv(l) ==
    /\ \A i \in OfType(l, "CellCommitted") : Created(l, l[i].branch)
    /\ \A i \in OfType(l, "BranchCreated") :
          \E b \in 1..(l[i].branch - 1) : CommittedOn(l, b, l[i].cell)

\* LinearHistory, of any log.
LinesInv(l) ==
    \A i \in OfType(l, "HeadMoved") :
       LET earlier == {j \in OnBranch(l, "HeadMoved", l[i].branch) : j < i}
       IN  l[i].previous = IF earlier # {} THEN l[Max(earlier)].cell
                           ELSE Start(l, l[i].branch)

LogInv(l) ==
    l \in Seq(Facts) /\ NumbersInv(l) /\ HeadsInv(l) /\ ForksInv(l) /\ LinesInv(l)

\* A handle record, whatever its runtimes are.
IsHandle(r) ==
    /\ r = [open |-> r.open, pc |-> r.pc, branch |-> r.branch, head |-> r.head,
            hash |-> r.hash, index |-> r.index, dirty |-> r.dirty, rt |-> r.rt,
            cell |-> r.cell, eval |-> r.eval]
    /\ r.open \in BOOLEAN /\ r.pc \in {"idle", "eval", "commit", "move"}
    /\ r.branch \in Nat /\ r.head \in Nat /\ r.cell \in Nat

\* An open handle is on a branch of the log. During a submit the branch has no
\* other head than the handle's, and the cell is committed at the third append.
HandleInv(l, r) ==
    /\ IsHandle(r)
    /\ r.open => AtHead(l, r.branch, r.head)
    /\ r.pc # "idle" =>
          /\ r.open /\ LoadHead(l, r.branch) \in {NoCell, r.head}
          /\ r.cell \in 1..CellCount(l)
    /\ r.pc \in {"eval", "commit"} => OfCell(l, "CellCommitted", r.cell) = {}
    /\ r.pc = "move" => CommittedOn(l, r.branch, r.cell)

\* One submit at a time.
TurnInv ==
    \A s, t \in Handles : st[s].pc # "idle" /\ st[t].pc # "idle" => s = t

SessionInv ==
    /\ LogInv(log) /\ TurnInv
    /\ st = [s \in Handles |-> st[s]] /\ \A s \in Handles : HandleInv(log, st[s])

-----------------------------------------------------------------------------
(* Appending a fact. *)

\* The positions of a log are numbers, finitely many.
LEMMA Positions ==
    ASSUME NEW l \in Seq(Facts)
    PROVE  /\ Len(l) \in Nat /\ DOMAIN l = 1..Len(l) /\ DOMAIN l \in SUBSET Nat
           /\ \A i \in DOMAIN l : /\ l[i] \in Facts /\ i <= Len(l)
                                  /\ l[i].branch \in Nat /\ l[i].cell \in Nat
           /\ \A S \in SUBSET DOMAIN l : /\ IsFiniteSet(S) /\ Cardinality(S) \in Nat
                                         /\ S \in SUBSET Nat
           /\ \A t : OfType(l, t) \in SUBSET DOMAIN l
           /\ \A t, b : OnBranch(l, t, b) \in SUBSET DOMAIN l
           /\ \A t, c : OfCell(l, t, c) \in SUBSET DOMAIN l
<1>1. /\ Len(l) \in Nat /\ DOMAIN l = 1..Len(l) /\ DOMAIN l \in SUBSET Nat
      /\ \A i \in DOMAIN l : l[i] \in Facts /\ i <= Len(l)
  OBVIOUS
<1>2. \A f \in Facts : f.branch \in Nat /\ f.cell \in Nat
  BY DEF Facts
<1>3. IsFiniteSet(1..Len(l))
  BY <1>1, FS_Interval
<1>4. \A S \in SUBSET DOMAIN l : IsFiniteSet(S) /\ Cardinality(S) \in Nat
  BY <1>1, <1>3, FS_Subset, FS_CardinalityType
<1> QED BY <1>1, <1>2, <1>4 DEF OfType, OnBranch, OfCell

\* One more position, for which the queries may or may not ask.
LEMMA AppendFact ==
    ASSUME NEW l \in Seq(Facts), NEW f \in Facts
    PROVE  LET m == Append(l, f)
               n == Len(l) + 1
           IN  /\ m \in Seq(Facts) /\ n \notin DOMAIN l /\ n \in Nat /\ m[n] = f
               /\ DOMAIN m = DOMAIN l \cup {n}
               /\ \A i \in DOMAIN l : m[i] = l[i] /\ i < n
               /\ \A t : OfType(m, t) = OfType(l, t) \cup (IF f.type = t THEN {n} ELSE {})
               /\ \A t, b : OnBranch(m, t, b) = OnBranch(l, t, b) \cup
                               (IF f.type = t /\ f.branch = b THEN {n} ELSE {})
               /\ \A t, c : OfCell(m, t, c) = OfCell(l, t, c) \cup
                               (IF f.type = t /\ f.cell = c THEN {n} ELSE {})
<1> DEFINE m == Append(l, f)
           n == Len(l) + 1
<1>1. /\ m \in Seq(Facts) /\ n \notin DOMAIN l /\ n \in Nat /\ m[n] = f
      /\ DOMAIN m = DOMAIN l \cup {n}
      /\ \A i \in DOMAIN l : m[i] = l[i] /\ i < n
  OBVIOUS
<1> HIDE DEF m, n
<1>2. \A t : OfType(m, t) = OfType(l, t) \cup (IF f.type = t THEN {n} ELSE {})
  BY <1>1 DEF OfType
<1>3. \A t, b : OnBranch(m, t, b) = OnBranch(l, t, b) \cup
                   (IF f.type = t /\ f.branch = b THEN {n} ELSE {})
  BY <1>1 DEF OfType, OnBranch
<1>4. \A t, c : OfCell(m, t, c) = OfCell(l, t, c) \cup
                   (IF f.type = t /\ f.cell = c THEN {n} ELSE {})
  BY <1>1 DEF OfType, OfCell
<1> QED BY <1>1, <1>2, <1>3, <1>4 DEF m, n

\* The counts that number cells and branches.
LEMMA AppendCounts ==
    ASSUME NEW l \in Seq(Facts), NEW f \in Facts
    PROVE  /\ CellCount(l) \in Nat /\ BranchCount(l) \in Nat
           /\ CellCount(Append(l, f)) =
                 CellCount(l) + IF f.type = "CellChecked" THEN 1 ELSE 0
           /\ BranchCount(Append(l, f)) =
                 BranchCount(l) + IF f.type = "BranchCreated" THEN 1 ELSE 0
<1> DEFINE m == Append(l, f)
           n == Len(l) + 1
<1>1. /\ n \notin DOMAIN l
      /\ \A t : OfType(m, t) = OfType(l, t) \cup (IF f.type = t THEN {n} ELSE {})
  BY AppendFact
<1>2. /\ \A t : OfType(l, t) \in SUBSET DOMAIN l
      /\ \A S \in SUBSET DOMAIN l : IsFiniteSet(S) /\ Cardinality(S) \in Nat
  BY Positions
<1> HIDE DEF m, n
<1>3. ASSUME NEW t
      PROVE  Cardinality(OfType(m, t)) =
                Cardinality(OfType(l, t)) + IF f.type = t THEN 1 ELSE 0
  <2> DEFINE S == OfType(l, t)
  <2>1. IsFiniteSet(S) /\ n \notin S /\ Cardinality(S) \in Nat
    BY <1>1, <1>2
  <2>2. CASE f.type = t
    <3>1. OfType(m, t) = S \cup {n}
      BY <1>1, <2>2
    <3> HIDE DEF S
    <3>2. Cardinality(S \cup {n}) = Cardinality(S) + 1
      BY <2>1, FS_AddElement
    <3> QED BY <2>2, <3>1, <3>2 DEF S
  <2>3. CASE f.type # t
    <3>1. OfType(m, t) = S
      BY <1>1, <2>3
    <3> QED BY <2>1, <2>3, <3>1
  <2> QED BY <2>2, <2>3
<1> QED BY <1>2, <1>3 DEF CellCount, BranchCount, m

\* The creation of a branch is found where it was first recorded, for ever.
LEMMA StartStays ==
    ASSUME NEW l \in Seq(Facts), NEW f \in Facts, NEW b, Created(l, b)
    PROVE  Created(Append(l, f), b) /\ Start(Append(l, f), b) = Start(l, b)
<1> DEFINE m == Append(l, f)
           n == Len(l) + 1
           S == OnBranch(l, "BranchCreated", b)
           T == OnBranch(m, "BranchCreated", b)
<1>1. /\ n \in Nat /\ \A i \in DOMAIN l : m[i] = l[i] /\ i < n
      /\ T = S \cup (IF f.type = "BranchCreated" /\ f.branch = b THEN {n} ELSE {})
  BY AppendFact
<1>2. S \in SUBSET DOMAIN l /\ DOMAIN l \in SUBSET Nat
  BY Positions
<1> HIDE DEF m, n, S, T
<1>3. CASE b = RootBranch
  BY <1>3 DEF Created, Start, m
<1>4. CASE b # RootBranch
  <2>1. S # {} /\ S \in SUBSET Nat /\ T \in SUBSET Nat /\ T # {}
    BY <1>1, <1>2, <1>4 DEF Created, S
  <2>2. Min(S) \in S /\ (\A y \in S : Min(S) <= y)
    BY <2>1, MinProperties
  <2>3. Min(T) \in T /\ (\A y \in T : Min(T) <= y)
    BY <2>1, MinProperties
  <2>4. Min(S) \in Nat /\ Min(T) \in Nat /\ Min(S) < n
    BY <1>1, <1>2, <2>1, <2>2, <2>3
  <2>5. Min(T) <= Min(S)
    BY <1>1, <2>2, <2>3
  <2>6. Min(T) \in S
    BY <1>1, <2>3, <2>4, <2>5
  <2>7. Min(S) = Min(T)
    BY <2>2, <2>4, <2>5, <2>6
  <2>8. m[Min(T)] = l[Min(S)]
    BY <1>1, <1>2, <2>2, <2>7
  <2> QED BY <1>4, <2>1, <2>8 DEF Created, Start, S, T, m
<1> QED BY <1>3, <1>4

\* What a handle and a restore know of a branch is not undone by later facts.
LEMMA KnownStays ==
    ASSUME NEW l \in Seq(Facts), NEW f \in Facts
    PROVE  /\ \A b, h : AtHead(l, b, h) => AtHead(Append(l, f), b, h)
           /\ \A b, c : CommittedOn(l, b, c) => CommittedOn(Append(l, f), b, c)
           /\ MovedCells(l) \subseteq MovedCells(Append(l, f))
           /\ \A b : ~(f.type = "HeadMoved" /\ f.branch = b)
                        => LoadHead(Append(l, f), b) = LoadHead(l, b)
<1> DEFINE m == Append(l, f)
           n == Len(l) + 1
<1>1. /\ \A i \in DOMAIN l : m[i] = l[i]
      /\ \A t : OfType(m, t) = OfType(l, t) \cup (IF f.type = t THEN {n} ELSE {})
      /\ \A t, b : OnBranch(m, t, b) = OnBranch(l, t, b) \cup
                      (IF f.type = t /\ f.branch = b THEN {n} ELSE {})
      /\ \A t, c : OfCell(m, t, c) = OfCell(l, t, c) \cup
                      (IF f.type = t /\ f.cell = c THEN {n} ELSE {})
  BY AppendFact
<1>2. /\ \A t : OfType(l, t) \in SUBSET DOMAIN l
      /\ \A t, b : OnBranch(l, t, b) \in SUBSET DOMAIN l
      /\ \A t, c : OfCell(l, t, c) \in SUBSET DOMAIN l
      /\ DOMAIN l \in SUBSET Nat /\ Len(l) \in Nat /\ \A i \in DOMAIN l : i <= Len(l)
  BY Positions
<1>3. \A b : Created(l, b) => Created(m, b) /\ Start(m, b) = Start(l, b)
  BY StartStays
<1> HIDE DEF m, n
<1>4. \A b, h : AtHead(l, b, h) => AtHead(m, b, h)
  BY <1>1, <1>3 DEF AtHead
<1>5. \A b, c : CommittedOn(l, b, c) => CommittedOn(m, b, c)
  BY <1>1, <1>2 DEF CommittedOn
<1>6. MovedCells(l) \subseteq MovedCells(m)
  BY <1>1, <1>2 DEF MovedCells
<1>7. ASSUME NEW b, ~(f.type = "HeadMoved" /\ f.branch = b)
      PROVE  LoadHead(m, b) = LoadHead(l, b)
  <2> DEFINE S == OnBranch(l, "HeadMoved", b)
  <2>1. OnBranch(m, "HeadMoved", b) = S
    <3>1. OnBranch(m, "HeadMoved", b) = S \cup
             (IF f.type = "HeadMoved" /\ f.branch = b THEN {n} ELSE {})
      BY <1>1
    <3>2. OnBranch(m, "HeadMoved", b) = S \cup {}
      BY <1>7, <3>1, Zenon
    <3> QED BY <3>2
  <2>2. S # {} => Max(S) \in S
    <3>1. S \in SUBSET Nat /\ \A y \in S : y <= Len(l)
      BY <1>2
    <3> HIDE DEF S
    <3> QED BY <1>2, <3>1, MaxProperties
  <2>3. S # {} => m[Max(S)] = l[Max(S)]
    BY <1>1, <1>2, <2>2
  <2> QED BY <2>1, <2>3, Zenon DEF LoadHead, S
<1> QED BY <1>4, <1>5, <1>6, <1>7 DEF m

\* What the log must know when a fact is appended.
Admits(l, f) ==
    /\ f.type = "BranchCreated" => f.branch = BranchCount(l) + 2 /\ f.cell \in MovedCells(l)
    /\ f.type = "CellCommitted" => /\ f.cell \in 1..CellCount(l) /\ Created(l, f.branch)
                                   /\ OfCell(l, "CellCommitted", f.cell) = {}
    /\ f.type = "HeadMoved" => /\ CommittedOn(l, f.branch, f.cell)
                               /\ AtHead(l, f.branch, f.previous)
                               /\ LoadHead(l, f.branch) \in {NoCell, f.previous}
    /\ f.type = "RestoreCompleted" =>
          /\ f.cell \in MovedCells(l)
          /\ f.newBranch # NoBranch => /\ Created(l, f.newBranch)
                                       /\ f.newBranch # RootBranch
                                       /\ Start(l, f.newBranch) = f.cell

\* Numbers stay in use, and new ones are new.
LEMMA NumbersStep ==
    ASSUME NEW l, LogInv(l), NEW f \in Facts, Admits(l, f)
    PROVE  NumbersInv(Append(l, f))
<1> DEFINE m == Append(l, f)
           n == Len(l) + 1
<1>0. l \in Seq(Facts) /\ NumbersInv(l)
  BY DEF LogInv
<1>1. /\ n \notin DOMAIN l /\ m[n] = f /\ \A i \in DOMAIN l : m[i] = l[i]
      /\ \A t : OfType(m, t) = OfType(l, t) \cup (IF f.type = t THEN {n} ELSE {})
  BY <1>0, AppendFact
<1>2. /\ \A t : OfType(l, t) \in SUBSET DOMAIN l
      /\ \A i \in DOMAIN l : l[i].branch \in Nat /\ l[i].cell \in Nat
  BY <1>0, Positions
<1>3. /\ CellCount(l) \in Nat /\ BranchCount(l) \in Nat
      /\ CellCount(m) = CellCount(l) + IF f.type = "CellChecked" THEN 1 ELSE 0
      /\ BranchCount(m) = BranchCount(l) + IF f.type = "BranchCreated" THEN 1 ELSE 0
  BY <1>0, AppendCounts
<1> HIDE DEF m, n
<1>4. ASSUME NEW i \in OfType(m, "BranchCreated")
      PROVE  RootBranch < m[i].branch /\ m[i].branch < BranchCount(m) + 2
  <2>1. CASE i \in OfType(l, "BranchCreated")
    <3>1. /\ m[i] = l[i] /\ l[i].branch \in Nat
          /\ RootBranch < l[i].branch /\ l[i].branch < BranchCount(l) + 2
      BY <1>0, <1>1, <1>2, <2>1 DEF NumbersInv
    <3> QED BY <1>3, <3>1 DEF RootBranch
  <2>2. CASE i = n /\ f.type = "BranchCreated"
    BY <1>1, <1>3, <2>2 DEF Admits, RootBranch
  <2> QED BY <1>1, <2>1, <2>2
<1>5. ASSUME NEW i \in OfType(m, "CellCommitted")
      PROVE  m[i].cell \in 1..CellCount(m)
  <2>1. CASE i \in OfType(l, "CellCommitted")
    <3>1. m[i] = l[i] /\ l[i].cell \in 1..CellCount(l)
      BY <1>0, <1>1, <1>2, <2>1 DEF NumbersInv
    <3> QED BY <1>3, <3>1
  <2>2. CASE i = n /\ f.type = "CellCommitted"
    BY <1>1, <1>3, <2>2 DEF Admits
  <2> QED BY <1>1, <2>1, <2>2
<1>6. ASSUME NEW i \in OfType(m, "CellCommitted"), NEW j \in OfType(m, "CellCommitted"),
             m[i].cell = m[j].cell
      PROVE  i = j
  <2>1. f.type = "CellCommitted" => \A k \in OfType(l, "CellCommitted") : l[k].cell # f.cell
    BY DEF Admits, OfCell
  <2> QED BY <1>0, <1>1, <1>2, <1>6, <2>1 DEF NumbersInv
<1> QED BY <1>4, <1>5, <1>6 DEF NumbersInv, m

\* Heads and restores stay what they were.
LEMMA HeadsStep ==
    ASSUME NEW l, LogInv(l), NEW f \in Facts, Admits(l, f)
    PROVE  HeadsInv(Append(l, f))
<1> DEFINE m == Append(l, f)
           n == Len(l) + 1
<1>0. l \in Seq(Facts) /\ HeadsInv(l)
  BY DEF LogInv
<1>1. /\ m[n] = f /\ \A i \in DOMAIN l : m[i] = l[i]
      /\ \A t : OfType(m, t) = OfType(l, t) \cup (IF f.type = t THEN {n} ELSE {})
  BY <1>0, AppendFact
<1>2. \A t : OfType(l, t) \in SUBSET DOMAIN l
  BY <1>0, Positions
<1>3. /\ \A b, c : CommittedOn(l, b, c) => CommittedOn(m, b, c)
      /\ MovedCells(l) \subseteq MovedCells(m)
  BY <1>0, KnownStays
<1>4. \A b : Created(l, b) => Created(m, b) /\ Start(m, b) = Start(l, b)
  BY <1>0, StartStays
<1> HIDE DEF m, n
<1>5. ASSUME NEW i \in OfType(m, "HeadMoved")
      PROVE  CommittedOn(m, m[i].branch, m[i].cell) /\ Created(m, m[i].branch)
  BY <1>0, <1>1, <1>2, <1>3, <1>4 DEF HeadsInv, Admits, AtHead
<1>6. ASSUME NEW i \in OfType(m, "RestoreCompleted")
      PROVE  /\ m[i].cell \in MovedCells(m)
             /\ m[i].newBranch # NoBranch => /\ Created(m, m[i].newBranch)
                                             /\ m[i].newBranch # RootBranch
                                             /\ Start(m, m[i].newBranch) = m[i].cell
  BY <1>0, <1>1, <1>2, <1>3, <1>4 DEF HeadsInv, Admits
<1> QED BY <1>5, <1>6 DEF HeadsInv, m

\* A branch that was created has a number in use.
LEMMA CreatedNumber ==
    ASSUME NEW l, LogInv(l), NEW b \in Nat, Created(l, b)
    PROVE  b \in 1..(BranchCount(l) + 1)
<1>1. l \in Seq(Facts) /\ NumbersInv(l)
  BY DEF LogInv
<1>2. BranchCount(l) \in Nat
  BY <1>1, Positions DEF BranchCount
<1>3. CASE b = RootBranch
  BY <1>2, <1>3 DEF RootBranch
<1>4. CASE b # RootBranch
  <2>1. PICK i \in OfType(l, "BranchCreated") : l[i].branch = b
    BY <1>4 DEF Created, OnBranch
  <2>2. RootBranch < b /\ b < BranchCount(l) + 2
    BY <1>1, <2>1 DEF NumbersInv
  <2> QED BY <1>2, <2>2 DEF RootBranch
<1> QED BY <1>3, <1>4

\* Forks stay below their branches.
LEMMA ForksStep ==
    ASSUME NEW l, LogInv(l), NEW f \in Facts, Admits(l, f)
    PROVE  ForksInv(Append(l, f))
<1> DEFINE m == Append(l, f)
           n == Len(l) + 1
<1>0. l \in Seq(Facts) /\ HeadsInv(l) /\ ForksInv(l)
  BY DEF LogInv
<1>1. /\ m[n] = f /\ \A i \in DOMAIN l : m[i] = l[i]
      /\ \A t : OfType(m, t) = OfType(l, t) \cup (IF f.type = t THEN {n} ELSE {})
  BY <1>0, AppendFact
<1>2. \A t : OfType(l, t) \in SUBSET DOMAIN l
  BY <1>0, Positions
<1>3. \A b, c : CommittedOn(l, b, c) => CommittedOn(m, b, c)
  BY <1>0, KnownStays
<1>4. \A b : Created(l, b) => Created(m, b)
  BY <1>0, StartStays
<1> HIDE DEF m, n
<1>5. ASSUME NEW i \in OfType(m, "CellCommitted") PROVE Created(m, m[i].branch)
  BY <1>0, <1>1, <1>2, <1>4 DEF ForksInv, Admits
<1>6. ASSUME NEW i \in OfType(m, "BranchCreated")
      PROVE  \E b \in 1..(m[i].branch - 1) : CommittedOn(m, b, m[i].cell)
  <2>1. CASE i \in OfType(l, "BranchCreated")
    BY <1>0, <1>1, <1>2, <1>3, <2>1 DEF ForksInv
  <2>2. CASE i = n /\ f.type = "BranchCreated"
    <3>1. PICK j \in OfType(l, "HeadMoved") : l[j].cell = f.cell
      BY <2>2 DEF Admits, MovedCells
    <3>2. CommittedOn(l, l[j].branch, f.cell) /\ Created(l, l[j].branch)
      BY <1>0, <3>1 DEF HeadsInv
    <3>3. l[j].branch \in Nat /\ BranchCount(l) \in Nat
      BY <1>0, Positions DEF BranchCount
    <3>4. l[j].branch \in 1..(BranchCount(l) + 1)
      BY <3>2, <3>3, CreatedNumber
    <3>5. m[i] = f /\ f.branch - 1 = BranchCount(l) + 1
      BY <1>1, <2>2, <3>3 DEF Admits
    <3> QED BY <1>3, <3>2, <3>4, <3>5
  <2> QED BY <1>1, <2>1, <2>2
<1> QED BY <1>5, <1>6 DEF ForksInv, m

\* The cells of the heads of a branch are cells.
LEMMA HeadsAreCells ==
    ASSUME NEW l, LogInv(l), NEW i \in OfType(l, "HeadMoved")
    PROVE  l[i].cell # NoCell
<1>1. NumbersInv(l) /\ HeadsInv(l) /\ l \in Seq(Facts)
  BY DEF LogInv
<1>2. PICK j \in OfType(l, "CellCommitted") : l[j].cell = l[i].cell
  BY <1>1 DEF HeadsInv, CommittedOn, OfCell
<1> QED BY <1>1, <1>2 DEF NumbersInv, NoCell

\* A head that moves from the head found, or from the start, continues the line.
LEMMA LinesStep ==
    ASSUME NEW l, LogInv(l), NEW f \in Facts, Admits(l, f)
    PROVE  LinesInv(Append(l, f))
<1> DEFINE m == Append(l, f)
           n == Len(l) + 1
           H(x, b) == OnBranch(x, "HeadMoved", b)
<1>0. l \in Seq(Facts) /\ HeadsInv(l) /\ LinesInv(l)
  BY DEF LogInv
<1>1. /\ n \notin DOMAIN l /\ n \in Nat /\ m[n] = f /\ \A i \in DOMAIN l : m[i] = l[i] /\ i < n
      /\ \A t : OfType(m, t) = OfType(l, t) \cup (IF f.type = t THEN {n} ELSE {})
      /\ \A b : H(m, b) = H(l, b) \cup
                   (IF f.type = "HeadMoved" /\ f.branch = b THEN {n} ELSE {})
  BY <1>0, AppendFact
<1>2. /\ \A t : OfType(l, t) \in SUBSET DOMAIN l
      /\ \A b : H(l, b) \in SUBSET DOMAIN l
      /\ DOMAIN l \in SUBSET Nat /\ Len(l) \in Nat /\ \A i \in DOMAIN l : i <= Len(l)
  BY <1>0, Positions
<1>4. \A b : Created(l, b) => Created(m, b) /\ Start(m, b) = Start(l, b)
  BY <1>0, StartStays
<1>5. ASSUME NEW i \in OfType(m, "HeadMoved")
      PROVE  LET earlier == {j \in H(m, m[i].branch) : j < i}
             IN  m[i].previous = IF earlier # {} THEN m[Max(earlier)].cell
                                 ELSE Start(m, m[i].branch)
  <2> DEFINE b == m[i].branch
             E == {j \in H(m, b) : j < i}
  <2>1. CASE i \in OfType(l, "HeadMoved")
    <3>1. i \in DOMAIN l /\ m[i] = l[i] /\ Created(l, b)
      BY <1>0, <1>1, <1>2, <2>1 DEF HeadsInv
    <3>2. E = {j \in H(l, b) : j < i}
      <4>1. i \in Nat /\ i < n
        BY <1>1, <1>2, <3>1
      <4> HIDE DEF H, b, m, n
      <4> QED BY <1>1, <1>2, <4>1
    <3>3. E \in SUBSET H(l, b) /\ E \in SUBSET Nat /\ \A y \in E : y <= Len(l)
      <4> HIDE DEF H, b, m, n
      <4> QED BY <1>2, <3>2
    <3>4. l[i].previous = IF E # {} THEN l[Max(E)].cell ELSE Start(l, b)
      BY <1>0, <2>1, <3>1, <3>2, Zenon DEF LinesInv
    <3> HIDE DEF E, H, b, m
    <3>5. E # {} => Max(E) \in E
      BY <1>2, <3>3, MaxProperties
    <3>6. E # {} => m[Max(E)] = l[Max(E)]
      BY <1>1, <1>2, <3>3, <3>5
    <3> QED BY <1>4, <3>1, <3>4, <3>6 DEF E, b
  <2>2. CASE i = n /\ f.type = "HeadMoved"
    <3>1. /\ m[i] = f /\ b = f.branch /\ AtHead(l, b, f.previous)
          /\ LoadHead(l, b) \in {NoCell, f.previous}
      BY <1>1, <2>2 DEF Admits
    <3>2. E = H(l, b)
      <4> HIDE DEF H, b, m, n
      <4> QED BY <1>1, <1>2, <2>2
    <3>3. E \in SUBSET Nat /\ \A y \in E : y <= Len(l)
      <4> HIDE DEF H, b, m, n
      <4> QED BY <1>2, <3>2
    <3>4. CASE E = {}
      <4>1. f.previous = Start(l, b) /\ Created(l, b)
        BY <3>1, <3>2, <3>4 DEF AtHead
      <4> HIDE DEF E, b, m
      <4> QED BY <1>4, <3>1, <3>4, <4>1 DEF E, b
    <3>5. CASE E # {}
      <4>1. LoadHead(l, b) = l[Max(E)].cell
        BY <3>2, <3>5, Zenon DEF LoadHead
      <4> HIDE DEF E, m, b
      <4>2. Max(E) \in E
        BY <1>2, <3>3, <3>5, MaxProperties
      <4>3. Max(E) \in OfType(l, "HeadMoved") /\ Max(E) \in DOMAIN l
        BY <1>2, <3>2, <4>2 DEF OnBranch
      <4>4. l[Max(E)].cell # NoCell
        BY <4>3, HeadsAreCells
      <4>5. f.previous = l[Max(E)].cell /\ m[Max(E)] = l[Max(E)]
        BY <1>1, <3>1, <4>1, <4>3, <4>4
      <4> QED BY <3>1, <3>5, <4>5 DEF E, b
    <3> QED BY <3>4, <3>5
  <2> HIDE DEF H, b, E, m, n
  <2> QED BY <1>1, <2>1, <2>2 DEF E, b
<1> QED BY <1>5 DEF LinesInv

\* The log after a fact it admits.
LEMMA LogStep ==
    ASSUME NEW l, LogInv(l), NEW f \in Facts, Admits(l, f)
    PROVE  LogInv(Append(l, f))
<1>1. l \in Seq(Facts) /\ Append(l, f) \in Seq(Facts)
  BY DEF LogInv
<1>2. /\ NumbersInv(Append(l, f)) /\ HeadsInv(Append(l, f))
      /\ ForksInv(Append(l, f)) /\ LinesInv(Append(l, f))
  BY NumbersStep, HeadsStep, ForksStep, LinesStep
<1> QED BY <1>1, <1>2 DEF LogInv

-----------------------------------------------------------------------------
(* Handles. *)

\* A handle between operations is not disturbed by what others append.
LEMMA IdleStays ==
    ASSUME NEW l \in Seq(Facts), NEW f \in Facts, NEW r, HandleInv(l, r), r.pc = "idle"
    PROVE  HandleInv(Append(l, f), r)
<1>1. AtHead(l, r.branch, r.head) => AtHead(Append(l, f), r.branch, r.head)
  BY KnownStays
<1> QED BY <1>1 DEF HandleInv

\* A handle whose submit goes on, but for commits of its cell and moves of its head.
LEMMA SubmitStays ==
    ASSUME NEW l \in Seq(Facts), NEW f \in Facts, NEW r, HandleInv(l, r),
           f.type \notin {"CellCommitted", "HeadMoved"}
    PROVE  HandleInv(Append(l, f), r)
<1>1. /\ AtHead(l, r.branch, r.head) => AtHead(Append(l, f), r.branch, r.head)
      /\ CommittedOn(l, r.branch, r.cell) => CommittedOn(Append(l, f), r.branch, r.cell)
      /\ LoadHead(Append(l, f), r.branch) = LoadHead(l, r.branch)
  BY KnownStays
<1>2. OfCell(Append(l, f), "CellCommitted", r.cell) = OfCell(l, "CellCommitted", r.cell)
  <2>1. OfCell(Append(l, f), "CellCommitted", r.cell) =
           OfCell(l, "CellCommitted", r.cell) \cup
              (IF f.type = "CellCommitted" /\ f.cell = r.cell THEN {Len(l) + 1} ELSE {})
    BY AppendFact
  <2> QED BY <2>1
<1>3. CellCount(l) \in Nat /\ CellCount(Append(l, f)) \in Nat
      /\ CellCount(l) <= CellCount(Append(l, f))
  <2>1. CellCount(l) \in Nat /\ CellCount(Append(l, f)) =
                 CellCount(l) + IF f.type = "CellChecked" THEN 1 ELSE 0
    BY AppendCounts
  <2> QED BY <2>1
<1>4. \A c \in 1..CellCount(l) : c \in 1..CellCount(Append(l, f))
  BY <1>3
<1> QED BY <1>1, <1>2, <1>4 DEF HandleInv

\* Rebuilding a runtime touches nothing but the runtime.
LEMMA CleanedHandle ==
    ASSUME NEW l, NEW s, IsHandle(st[s])
    PROVE  /\ IsHandle(Cleaned(l, s)) /\ IsHandle(Prepared(l, s))
           /\ Cleaned(l, s).open = st[s].open /\ Prepared(l, s).open = st[s].open
           /\ Cleaned(l, s).pc = st[s].pc /\ Prepared(l, s).pc = st[s].pc
           /\ Cleaned(l, s).branch = st[s].branch /\ Prepared(l, s).branch = st[s].branch
           /\ Cleaned(l, s).head = st[s].head /\ Prepared(l, s).head = st[s].head
           /\ Cleaned(l, s).cell = st[s].cell /\ Prepared(l, s).cell = st[s].cell
<1> DEFINE r == st[s]
           rt == Rebuilt(l, s)
<1>1. r = [open |-> r.open, pc |-> r.pc, branch |-> r.branch, head |-> r.head,
           hash |-> r.hash, index |-> r.index, dirty |-> r.dirty, rt |-> r.rt,
           cell |-> r.cell, eval |-> r.eval]
  BY DEF IsHandle
<1>2. Cleaned(l, s) = IF r.dirty THEN [r EXCEPT !.rt = rt, !.hash = rt.hash, !.dirty = FALSE]
                      ELSE r
  BY DEF Cleaned, Adopt
<1>3. Prepared(l, s) = IF Fresh THEN [r EXCEPT !.eval = rt] ELSE Cleaned(l, s)
  BY DEF Prepared
<1> HIDE DEF r, rt
<1>4. /\ IsHandle(Cleaned(l, s)) /\ Cleaned(l, s).open = r.open /\ Cleaned(l, s).pc = r.pc
      /\ Cleaned(l, s).branch = r.branch /\ Cleaned(l, s).head = r.head
      /\ Cleaned(l, s).cell = r.cell
  BY <1>1, <1>2 DEF IsHandle, r
<1>5. CASE Fresh
  BY <1>1, <1>3, <1>4, <1>5 DEF IsHandle, r
<1>6. CASE ~Fresh
  BY <1>3, <1>4, <1>6 DEF r
<1> QED BY <1>4, <1>5, <1>6 DEF r

\* A handle that was just installed is idle at the cell it was loaded for.
LEMMA InstallHandle ==
    ASSUME NEW b \in Nat, NEW h \in Nat, NEW rt, NEW index, NEW l, AtHead(l, b, h)
    PROVE  /\ HandleInv(l, Install(b, h, rt, index)) /\ Install(b, h, rt, index).pc = "idle"
<1> DEFINE r == Install(b, h, rt, index)
           hash == rt.hash
           none == NoRuntime
<1>1. r = [[open |-> FALSE, pc |-> "idle", branch |-> NoBranch, head |-> NoCell,
            hash |-> "none", index |-> 0, dirty |-> FALSE, rt |-> none,
            cell |-> NoCell, eval |-> none]
           EXCEPT !.open = TRUE, !.branch = b, !.head = h, !.hash = hash,
                  !.index = index, !.rt = rt]
  BY Zenon DEF Install, Closed
<1> HIDE DEF r, hash, none
<1>2. r = [open |-> TRUE, pc |-> "idle", branch |-> b, head |-> h, hash |-> hash,
           index |-> index, dirty |-> FALSE, rt |-> rt, cell |-> NoCell, eval |-> none]
  BY <1>1
<1>3. IsHandle(r) /\ r.pc = "idle" /\ r.branch = b /\ r.head = h
  BY <1>2 DEF IsHandle, NoCell
<1> QED BY <1>3 DEF HandleInv, r

\* A closed handle.
LEMMA ClosedHandle ==
    ASSUME NEW l
    PROVE  HandleInv(l, Closed) /\ Closed.pc = "idle"
BY DEF HandleInv, IsHandle, Closed, NoCell, NoBranch

\* One handle changes, and the log knows what it and the others know.
LEMMA HandleStep ==
    ASSUME SessionInv, NEW s \in Handles, NEW r, st' = [st EXCEPT ![s] = r],
           LogInv(log'), HandleInv(log', r),
           \A t \in Handles : t # s => HandleInv(log', st[t]),
           \/ r.pc = "idle"
           \/ \A t \in Handles : t # s => st[t].pc = "idle"
    PROVE  SessionInv'
<1>1. st = [t \in Handles |-> st[t]] /\ TurnInv
  BY DEF SessionInv
<1>2. /\ st' = [t \in Handles |-> st'[t]]
      /\ \A t \in Handles : st'[t] = IF t = s THEN r ELSE st[t]
  BY <1>1
<1>3. TurnInv'
  BY <1>1, <1>2 DEF TurnInv
<1>4. \A t \in Handles : HandleInv(log', st'[t])
  BY <1>2
<1> QED BY <1>2, <1>3, <1>4 DEF SessionInv

\* A cell that was a head is on the branch it was committed on, which has heads: a
\* handle may be anywhere on it.
LEMMA MovedBranch ==
    ASSUME NEW l, LogInv(l), NEW c \in MovedCells(l), NEW h
    PROVE  AtHead(l, branchForCell(l, c), h) /\ branchForCell(l, c) \in Nat /\ c \in Nat
<1>1. l \in Seq(Facts) /\ NumbersInv(l) /\ HeadsInv(l)
  BY DEF LogInv
<1>2. PICK i \in OfType(l, "HeadMoved") : l[i].cell = c
  BY DEF MovedCells
<1>3. PICK j \in OfCell(l, "CellCommitted", c) : l[j].branch = l[i].branch
  BY <1>1, <1>2 DEF HeadsInv, CommittedOn
<1>4. /\ OfCell(l, "CellCommitted", c) \in SUBSET Nat
      /\ l[i].branch \in Nat /\ l[i].cell \in Nat
  BY <1>1, Positions
<1>5. Min(OfCell(l, "CellCommitted", c)) \in OfCell(l, "CellCommitted", c)
  BY <1>3, <1>4, MinProperties
<1>6. Min(OfCell(l, "CellCommitted", c)) = j
  BY <1>1, <1>3, <1>5 DEF NumbersInv, OfCell
<1>7. branchForCell(l, c) = l[i].branch
  BY <1>3, <1>6 DEF branchForCell
<1>8. i \in OnBranch(l, "HeadMoved", l[i].branch) /\ Created(l, l[i].branch)
  BY <1>1, <1>2 DEF OnBranch, HeadsInv
<1> QED BY <1>2, <1>4, <1>7, <1>8 DEF AtHead

\* The end of a submit.
LEMMA IdleHandle ==
    ASSUME NEW r, IsHandle(r)
    PROVE  /\ IsHandle(Idle(r)) /\ Idle(r).pc = "idle" /\ Idle(r).open = r.open
           /\ Idle(r).branch = r.branch /\ Idle(r).head = r.head
<1> DEFINE none == NoRuntime
<1>1. Idle(r) = [r EXCEPT !.pc = "idle", !.cell = NoCell, !.eval = none]
  BY DEF Idle
<1>2. r = [open |-> r.open, pc |-> r.pc, branch |-> r.branch, head |-> r.head,
           hash |-> r.hash, index |-> r.index, dirty |-> r.dirty, rt |-> r.rt,
           cell |-> r.cell, eval |-> r.eval]
  BY DEF IsHandle
<1> HIDE DEF none
<1>3. Idle(r) = [open |-> r.open, pc |-> "idle", branch |-> r.branch, head |-> r.head,
           hash |-> r.hash, index |-> r.index, dirty |-> r.dirty, rt |-> r.rt,
           cell |-> NoCell, eval |-> none]
  BY <1>1, <1>2
<1> QED BY <1>3 DEF IsHandle, NoCell

\* Facts with their columns.
LEMMA FactShapes ==
    ASSUME NEW b \in Nat, NEW c \in Nat, NEW p \in Nat
    PROVE  /\ \A k \in Kinds : CellChecked(b, c, k) \in Facts
           /\ CellEvaluated(b, c) \in Facts /\ CellCommitted(b, c) \in Facts
           /\ CellFailed(b, p) \in Facts /\ HeadMoved(b, p, c) \in Facts
           /\ BranchCreated(b, c) \in Facts /\ RestoreCompleted(c, b) \in Facts
           /\ \A h \in Hashes : /\ RuntimeTransitioned(b, c, h) \in Facts
                                /\ RuntimeAttached(h) \in Facts
           /\ SessionStarted \in Facts
BY DEF CellChecked, CellEvaluated, CellCommitted, CellFailed, HeadMoved, BranchCreated,
       RestoreCompleted, RuntimeTransitioned, RuntimeAttached, SessionStarted, Facts,
       NoCell, NoBranch, RootBranch

\* The facts nothing has to be known for.
LEMMA PlainFacts ==
    ASSUME NEW l, NEW b \in Nat, NEW c \in Nat, NEW x
    PROVE  /\ Admits(l, CellChecked(b, c, x)) /\ Admits(l, CellEvaluated(b, c))
           /\ Admits(l, CellFailed(b, c)) /\ Admits(l, RuntimeTransitioned(b, c, x))
           /\ CellChecked(b, c, x).type \notin {"CellCommitted", "HeadMoved"}
           /\ CellEvaluated(b, c).type \notin {"CellCommitted", "HeadMoved"}
           /\ CellFailed(b, c).type \notin {"CellCommitted", "HeadMoved"}
           /\ RuntimeTransitioned(b, c, x).type \notin {"CellCommitted", "HeadMoved"}
BY DEF CellChecked, CellEvaluated, CellFailed, RuntimeTransitioned, Admits

\* A submit fails: its handle is where it was, and idle.
LEMMA FailSubmitStep ==
    ASSUME SessionInv, NEW s \in Handles, st[s].pc # "idle", NEW r, IsHandle(r),
           r.open = st[s].open, r.branch = st[s].branch, r.head = st[s].head,
           FailSubmit(s, r)
    PROVE  SessionInv'
<1> DEFINE d == r.dirty \/ ~Fresh
           q == [r EXCEPT !.dirty = d]
           f == CellFailed(r.branch, r.head)
<1>1. /\ LogInv(log) /\ TurnInv /\ log \in Seq(Facts)
      /\ \A t \in Handles : HandleInv(log, st[t])
  BY DEF SessionInv, LogInv
<1>2. st' = [st EXCEPT ![s] = Idle(q)] /\ (log' = Append(log, f) \/ log' = log)
  BY DEF FailSubmit
<1>3. IsHandle(q) /\ q.open = st[s].open /\ q.branch = st[s].branch /\ q.head = st[s].head
  <2> HIDE DEF d
  <2> QED BY DEF IsHandle
<1> HIDE DEF q
<1>4. /\ IsHandle(Idle(q)) /\ Idle(q).pc = "idle" /\ Idle(q).open = st[s].open
      /\ Idle(q).branch = st[s].branch /\ Idle(q).head = st[s].head
  BY <1>3, IdleHandle
<1>5. HandleInv(log, Idle(q))
  BY <1>1, <1>4 DEF HandleInv
<1>6. \A t \in Handles : t # s => st[t].pc = "idle"
  BY <1>1 DEF TurnInv
<1>7. f \in Facts /\ Admits(log, f)
  BY FactShapes, PlainFacts DEF IsHandle
<1> HIDE DEF f
<1>8. /\ LogInv(log') /\ HandleInv(log', Idle(q))
      /\ \A t \in Handles : t # s => HandleInv(log', st[t])
  <2>1. CASE log' = log
    BY <1>1, <1>5, <2>1
  <2>2. CASE log' = Append(log, f)
    BY <1>1, <1>4, <1>5, <1>6, <1>7, <2>2, LogStep, IdleStays
  <2> QED BY <1>2, <2>1, <2>2
<1> QED BY <1>2, <1>4, <1>8, HandleStep

\* The head is compared, and the cell gets its number.
LEMMA SubmitCheckStep ==
    ASSUME SessionInv, NEW s \in Handles, NEW k \in Kinds, SubmitCheck(s, k)
    PROVE  SessionInv'
<1> DEFINE c == NextCell
           f == CellChecked(st[s].branch, c, k)
           r == [Prepared(Append(log, f), s) EXCEPT !.pc = "eval", !.cell = c]
<1>1. /\ LogInv(log) /\ TurnInv /\ log \in Seq(Facts) /\ NumbersInv(log)
      /\ st = [t \in Handles |-> st[t]]
      /\ \A t \in Handles : HandleInv(log, st[t])
  BY DEF SessionInv, LogInv
<1>2. /\ \A t \in Handles : st[t].pc = "idle"
      /\ st[s].open /\ LoadHead(log, st[s].branch) \in {NoCell, st[s].head}
      /\ \/ log' = log /\ st' = st
         \/ log' = Append(log, f) /\ (st' = st \/ st' = [st EXCEPT ![s] = r])
  BY DEF SubmitCheck, Turn, Writable
<1>3. IsHandle(st[s]) /\ AtHead(log, st[s].branch, st[s].head)
  BY <1>1, <1>2 DEF HandleInv
<1>4. c = CellCount(log) + 1 /\ CellCount(log) \in Nat /\ c \in Nat
  <2>1. CellCount(log) \in Nat
    BY <1>1, Positions DEF CellCount
  <2> QED BY <2>1 DEF NextCell, CellCount
<1> HIDE DEF c
<1>5. f \in Facts /\ Admits(log, f) /\ f.type \notin {"CellCommitted", "HeadMoved"}
      /\ f.type = "CellChecked"
  BY <1>3, <1>4, FactShapes, PlainFacts DEF IsHandle, CellChecked
<1> HIDE DEF f
<1>6. /\ LogInv(Append(log, f))
      /\ \A t \in Handles : HandleInv(Append(log, f), st[t])
      /\ AtHead(Append(log, f), st[s].branch, st[s].head)
      /\ LoadHead(Append(log, f), st[s].branch) \in {NoCell, st[s].head}
      /\ CellCount(Append(log, f)) = c
  <2>1. CellCount(Append(log, f)) = CellCount(log) + IF f.type = "CellChecked" THEN 1 ELSE 0
    BY <1>1, <1>5, AppendCounts
  <2>2. CellCount(Append(log, f)) = c
    BY <1>4, <1>5, <2>1
  <2>3. LoadHead(Append(log, f), st[s].branch) = LoadHead(log, st[s].branch)
    BY <1>1, <1>5, KnownStays
  <2>4. AtHead(Append(log, f), st[s].branch, st[s].head)
    BY <1>1, <1>3, <1>5, KnownStays
  <2> QED BY <1>1, <1>2, <1>5, <2>2, <2>3, <2>4, LogStep, IdleStays
<1>7. OfCell(Append(log, f), "CellCommitted", c) = {}
  <2>1. NumbersInv(Append(log, f))
    BY <1>6 DEF LogInv
  <2>2. OfType(Append(log, f), "CellCommitted") = OfType(log, "CellCommitted")
    <3>1. \A t : OfType(Append(log, f), t) = OfType(log, t) \cup
                    (IF f.type = t THEN {Len(log) + 1} ELSE {})
      BY <1>1, <1>5, AppendFact
    <3>2. OfType(Append(log, f), "CellCommitted") = OfType(log, "CellCommitted") \cup
             (IF f.type = "CellCommitted" THEN {Len(log) + 1} ELSE {})
      BY <3>1
    <3> QED BY <1>5, <3>2
  <2>3. \A i \in OfType(log, "CellCommitted") :
           Append(log, f)[i] = log[i] /\ log[i].cell # c
    <3>1. \A i \in DOMAIN log : Append(log, f)[i] = log[i]
      BY <1>1, <1>5, AppendFact
    <3>2. OfType(log, "CellCommitted") \in SUBSET DOMAIN log
      BY <1>1, Positions
    <3>3. \A i \in OfType(log, "CellCommitted") : log[i].cell \in 1..CellCount(log)
      BY <1>1 DEF NumbersInv
    <3>4. c \notin 1..CellCount(log)
      BY <1>4
    <3> QED BY <3>1, <3>2, <3>3, <3>4
  <2> QED BY <2>2, <2>3 DEF OfCell
<1>8. /\ IsHandle(r) /\ r.open = st[s].open /\ r.pc = "eval" /\ r.branch = st[s].branch
      /\ r.head = st[s].head /\ r.cell = c
  <2> DEFINE q == Prepared(Append(log, f), s)
  <2>1. IsHandle(q) /\ q.open = st[s].open /\ q.branch = st[s].branch /\ q.head = st[s].head
    BY <1>3, CleanedHandle
  <2> HIDE DEF q
  <2>2. q = [open |-> q.open, pc |-> q.pc, branch |-> q.branch, head |-> q.head,
             hash |-> q.hash, index |-> q.index, dirty |-> q.dirty, rt |-> q.rt,
             cell |-> q.cell, eval |-> q.eval]
    BY <2>1 DEF IsHandle
  <2>3. r = [q EXCEPT !.pc = "eval", !.cell = c]
    BY DEF q
  <2> HIDE DEF r
  <2>4. r = [open |-> q.open, pc |-> "eval", branch |-> q.branch, head |-> q.head,
             hash |-> q.hash, index |-> q.index, dirty |-> q.dirty, rt |-> q.rt,
             cell |-> c, eval |-> q.eval]
    BY <2>2, <2>3
  <2> QED BY <1>4, <2>1, <2>4 DEF IsHandle
<1> HIDE DEF r
<1>9. HandleInv(Append(log, f), r)
  BY <1>2, <1>4, <1>6, <1>7, <1>8 DEF HandleInv
<1>10. CASE st' = [st EXCEPT ![s] = r] /\ log' = Append(log, f)
  BY <1>1, <1>2, <1>6, <1>9, <1>10, HandleStep
<1>11. CASE st' = st
  BY <1>1, <1>2, <1>6, <1>11 DEF SessionInv, TurnInv
<1> QED BY <1>2, <1>10, <1>11

\* The cell has run; CellEvaluated is journaled, or the submit has failed.
LEMMA SubmitEvalStep ==
    ASSUME SessionInv, NEW s \in Handles, SubmitEval(s)
    PROVE  SessionInv'
<1> DEFINE c == st[s].cell
           ranE == RunCell(st[s].eval, c)
           ranR == RunCell(st[s].rt, c)
           r == IF Fresh THEN [st[s] EXCEPT !.eval = ranE] ELSE [st[s] EXCEPT !.rt = ranR]
           q == [r EXCEPT !.pc = "commit"]
           f == CellEvaluated(r.branch, c)
<1>1. /\ LogInv(log) /\ TurnInv /\ log \in Seq(Facts)
      /\ \A t \in Handles : HandleInv(log, st[t])
  BY DEF SessionInv, LogInv
<1>2. /\ st[s].pc = "eval"
      /\ \/ FailSubmit(s, r)
         \/ log' = Append(log, f) /\ st' = [st EXCEPT ![s] = q]
  BY DEF SubmitEval
<1>3. IsHandle(st[s])
  BY <1>1 DEF HandleInv
<1>4. /\ IsHandle(r) /\ r.open = st[s].open /\ r.branch = st[s].branch
      /\ r.head = st[s].head /\ r.cell = c
  <2> HIDE DEF ranE, ranR
  <2> QED BY <1>3 DEF IsHandle
<1> HIDE DEF r
<1>5. CASE FailSubmit(s, r)
  BY <1>2, <1>4, <1>5, FailSubmitStep
<1>6. CASE log' = Append(log, f) /\ st' = [st EXCEPT ![s] = q]
  <2>1. /\ IsHandle(q) /\ q.open = st[s].open /\ q.branch = st[s].branch
        /\ q.head = st[s].head /\ q.cell = c /\ q.pc = "commit"
    BY <1>4 DEF IsHandle
  <2> HIDE DEF q
  <2>2. HandleInv(log, q)
    BY <1>1, <1>2, <2>1 DEF HandleInv
  <2>3. f \in Facts /\ Admits(log, f) /\ f.type \notin {"CellCommitted", "HeadMoved"}
    BY <1>3, <1>4, FactShapes, PlainFacts DEF IsHandle
  <2> HIDE DEF f
  <2>4. \A t \in Handles : t # s => st[t].pc = "idle"
    BY <1>1, <1>2 DEF TurnInv
  <2>5. HandleInv(log', q) /\ LogInv(log')
    BY <1>1, <1>6, <2>2, <2>3, SubmitStays, LogStep
  <2>6. \A t \in Handles : t # s => HandleInv(log', st[t])
    BY <1>1, <1>6, <2>3, <2>4, IdleStays
  <2> QED BY <1>6, <2>4, <2>5, <2>6, HandleStep
<1> QED BY <1>2, <1>5, <1>6

\* CellCommitted is journaled, or the submit has failed.
LEMMA SubmitCommitStep ==
    ASSUME SessionInv, NEW s \in Handles, SubmitCommit(s)
    PROVE  SessionInv'
<1> DEFINE f == CellCommitted(st[s].branch, st[s].cell)
           q == [st[s] EXCEPT !.pc = "move"]
           m == Append(log, f)
<1>1. /\ LogInv(log) /\ TurnInv /\ log \in Seq(Facts)
      /\ \A t \in Handles : HandleInv(log, st[t])
  BY DEF SessionInv, LogInv
<1>2. /\ st[s].pc = "commit"
      /\ \/ FailSubmit(s, st[s])
         \/ log' = m /\ st' = [st EXCEPT ![s] = q]
  BY DEF SubmitCommit
<1>3. IsHandle(st[s])
  BY <1>1 DEF HandleInv
<1>4. CASE FailSubmit(s, st[s])
  BY <1>2, <1>3, <1>4, FailSubmitStep
<1>5. CASE log' = m /\ st' = [st EXCEPT ![s] = q]
  <2>1. /\ IsHandle(q) /\ q.open = st[s].open /\ q.branch = st[s].branch
        /\ q.head = st[s].head /\ q.cell = st[s].cell /\ q.pc = "move"
    BY <1>3 DEF IsHandle
  <2> HIDE DEF q
  <2>2. f \in Facts /\ f.type = "CellCommitted" /\ f.cell = st[s].cell
        /\ f.branch = st[s].branch
    BY <1>3, FactShapes DEF IsHandle, CellCommitted
  <2> HIDE DEF f
  <2>3. Admits(log, f)
    <3>1. /\ st[s].cell \in 1..CellCount(log) /\ st[s].pc \in {"eval", "commit"}
          /\ OfCell(log, "CellCommitted", st[s].cell) = {}
          /\ Created(log, st[s].branch)
      BY <1>1, <1>2 DEF HandleInv, AtHead
    <3> QED BY <2>2, <3>1 DEF Admits
  <2>4. \A t \in Handles : t # s => st[t].pc = "idle"
    BY <1>1, <1>2 DEF TurnInv
  <2>5. \A t \in Handles : t # s => HandleInv(m, st[t])
    BY <1>1, <2>2, <2>4, IdleStays
  <2>6. LogInv(m)
    BY <1>1, <2>2, <2>3, LogStep
  <2>7. /\ st[s].open /\ AtHead(m, st[s].branch, st[s].head)
        /\ LoadHead(m, st[s].branch) \in {NoCell, st[s].head}
        /\ st[s].cell \in 1..CellCount(m)
    <3>1. /\ st[s].open /\ AtHead(log, st[s].branch, st[s].head)
          /\ LoadHead(log, st[s].branch) \in {NoCell, st[s].head}
          /\ st[s].cell \in 1..CellCount(log)
      BY <1>1, <1>2 DEF HandleInv
    <3>2. LoadHead(m, st[s].branch) = LoadHead(log, st[s].branch)
          /\ AtHead(m, st[s].branch, st[s].head)
      BY <1>1, <2>2, <3>1, KnownStays
    <3>3. CellCount(m) = CellCount(log) /\ CellCount(log) \in Nat
      <4>1. /\ CellCount(m) = CellCount(log) + IF f.type = "CellChecked" THEN 1 ELSE 0
            /\ CellCount(log) \in Nat
        BY <1>1, <2>2, AppendCounts
      <4> QED BY <2>2, <4>1
    <3> QED BY <3>1, <3>2, <3>3
  <2>8. CommittedOn(m, st[s].branch, st[s].cell)
    <3>1. /\ m[Len(log) + 1] = f
          /\ OfCell(m, "CellCommitted", st[s].cell) =
                OfCell(log, "CellCommitted", st[s].cell) \cup
                  (IF f.type = "CellCommitted" /\ f.cell = st[s].cell
                   THEN {Len(log) + 1} ELSE {})
      BY <1>1, <2>2, AppendFact
    <3>2. Len(log) + 1 \in OfCell(m, "CellCommitted", st[s].cell)
      BY <2>2, <3>1
    <3> QED BY <2>2, <3>1, <3>2 DEF CommittedOn
  <2>9. HandleInv(m, q)
    BY <2>1, <2>7, <2>8 DEF HandleInv
  <2> QED BY <1>5, <2>4, <2>5, <2>6, <2>9, HandleStep
<1> QED BY <1>2, <1>4, <1>5

\* The handle has moved to the cell; or the append fails.
LEMMA MoveHandle ==
    ASSUME NEW s \in Handles, IsHandle(st[s]), SubmitMove(s)
    PROVE  \/ Fault("HeadMoved") /\ FailSubmit(s, st[s])
           \/ /\ log' = Append(log, HeadMoved(st[s].branch, st[s].head, st[s].cell))
              /\ \E q : /\ st' = [st EXCEPT ![s] = q] /\ IsHandle(q) /\ q.pc = "idle"
                        /\ q.open = st[s].open /\ q.branch = st[s].branch
                        /\ q.head = st[s].cell
              /\ \E v \in {"ok", "error"} : verdict' = [verdict EXCEPT ![st[s].cell] = v]
<1> DEFINE c == st[s].cell
           rt == IF Fresh THEN st[s].eval ELSE st[s].rt
           hash == IF Fresh THEN rt.hash ELSE st[s].hash
           r == [st[s] EXCEPT !.head = c, !.dirty = FALSE, !.rt = rt, !.hash = hash]
           index == r.index + 1
           set == SetIndexedResult(rt, st[s].index + 1, c)
           e == [r EXCEPT !.dirty = TRUE]
           o == [r EXCEPT !.index = index, !.rt = set]
<1>0. \/ Fault("HeadMoved") /\ FailSubmit(s, st[s])
      \/ /\ log' = Append(log, HeadMoved(st[s].branch, st[s].head, c))
         /\ st' = [st EXCEPT ![s] = Idle(e)] \/ st' = [st EXCEPT ![s] = Idle(o)]
         /\ \E v \in {"ok", "error"} : verdict' = [verdict EXCEPT ![c] = v]
  BY DEF SubmitMove
<1>1. c \in Nat /\ IsHandle(r) /\ r.open = st[s].open /\ r.branch = st[s].branch /\ r.head = c
  <2> DEFINE q == st[s]
  <2>1. c \in Nat
    BY DEF IsHandle
  <2>2. r = [q EXCEPT !.head = c, !.dirty = FALSE, !.rt = rt, !.hash = hash]
    BY DEF q
  <2>3. q = [open |-> q.open, pc |-> q.pc, branch |-> q.branch, head |-> q.head,
             hash |-> q.hash, index |-> q.index, dirty |-> q.dirty, rt |-> q.rt,
             cell |-> q.cell, eval |-> q.eval]
    BY DEF IsHandle
  <2> HIDE DEF q, c, rt, hash, r
  <2>4. r = [open |-> q.open, pc |-> q.pc, branch |-> q.branch, head |-> c,
             hash |-> hash, index |-> q.index, dirty |-> FALSE, rt |-> rt,
             cell |-> q.cell, eval |-> q.eval]
    BY <2>2, <2>3
  <2> QED BY <2>1, <2>4 DEF IsHandle, q
<1> HIDE DEF r
<1>2. /\ IsHandle(e) /\ e.open = st[s].open /\ e.branch = st[s].branch /\ e.head = c
      /\ IsHandle(o) /\ o.open = st[s].open /\ o.branch = st[s].branch /\ o.head = c
  <2>1. r = [open |-> r.open, pc |-> r.pc, branch |-> r.branch, head |-> r.head,
             hash |-> r.hash, index |-> r.index, dirty |-> r.dirty, rt |-> r.rt,
             cell |-> r.cell, eval |-> r.eval]
    BY <1>1 DEF IsHandle
  <2>2. e = [r EXCEPT !.dirty = TRUE] /\ o = [r EXCEPT !.index = index, !.rt = set]
    OBVIOUS
  <2> HIDE DEF index, set, c, e, o
  <2>3. e = [open |-> r.open, pc |-> r.pc, branch |-> r.branch, head |-> r.head,
             hash |-> r.hash, index |-> r.index, dirty |-> TRUE, rt |-> r.rt,
             cell |-> r.cell, eval |-> r.eval]
    BY <2>1, <2>2
  <2>4. o = [open |-> r.open, pc |-> r.pc, branch |-> r.branch, head |-> r.head,
             hash |-> r.hash, index |-> index, dirty |-> r.dirty, rt |-> set,
             cell |-> r.cell, eval |-> r.eval]
    BY <2>1, <2>2
  <2> HIDE DEF e, o
  <2> QED BY <1>1, <2>3, <2>4 DEF IsHandle
<1> HIDE DEF e, o
<1>3. /\ IsHandle(Idle(e)) /\ Idle(e).pc = "idle" /\ Idle(e).open = st[s].open
      /\ Idle(e).branch = st[s].branch /\ Idle(e).head = c
  BY <1>2, IdleHandle
<1>4. /\ IsHandle(Idle(o)) /\ Idle(o).pc = "idle" /\ Idle(o).open = st[s].open
      /\ Idle(o).branch = st[s].branch /\ Idle(o).head = c
  BY <1>2, IdleHandle
<1> HIDE DEF c
<1> QED BY <1>0, <1>3, <1>4 DEF c

\* HeadMoved is journaled: the head it replaces is the one that was compared.
LEMMA SubmitMoveStep ==
    ASSUME SessionInv, NEW s \in Handles, SubmitMove(s)
    PROVE  SessionInv'
<1> DEFINE c == st[s].cell
           f == HeadMoved(st[s].branch, st[s].head, c)
           m == Append(log, f)
<1>1. /\ LogInv(log) /\ TurnInv /\ log \in Seq(Facts)
      /\ \A t \in Handles : HandleInv(log, st[t])
  BY DEF SessionInv, LogInv
<1>2. st[s].pc = "move"
  BY DEF SubmitMove
<1>3. IsHandle(st[s])
  BY <1>1 DEF HandleInv
<1>4. CASE FailSubmit(s, st[s])
  BY <1>2, <1>3, <1>4, FailSubmitStep
<1>5. CASE ~FailSubmit(s, st[s])
  <2>1. c \in Nat /\ log' = m
    BY <1>3, <1>5, MoveHandle DEF IsHandle
  <2>3. PICK q : /\ st' = [st EXCEPT ![s] = q] /\ IsHandle(q) /\ q.pc = "idle"
                 /\ q.open = st[s].open /\ q.branch = st[s].branch /\ q.head = c
    BY <1>3, <1>5, MoveHandle
  <2>4. /\ f \in Facts /\ f.type = "HeadMoved" /\ f.cell = c /\ f.branch = st[s].branch
        /\ f.previous = st[s].head
    BY <1>3, <2>1, FactShapes DEF IsHandle, HeadMoved
  <2> HIDE DEF f
  <2>5. Admits(log, f) /\ Created(log, st[s].branch)
    <3>1. /\ AtHead(log, st[s].branch, st[s].head)
          /\ LoadHead(log, st[s].branch) \in {NoCell, st[s].head}
          /\ CommittedOn(log, st[s].branch, c)
      BY <1>1, <1>2 DEF HandleInv
    <3> QED BY <2>4, <3>1 DEF Admits, AtHead
  <2>6. \A t \in Handles : t # s => st[t].pc = "idle"
    BY <1>1, <1>2 DEF TurnInv
  <2>7. \A t \in Handles : t # s => HandleInv(m, st[t])
    BY <1>1, <2>4, <2>6, IdleStays
  <2>8. LogInv(m)
    BY <1>1, <2>4, <2>5, LogStep
  <2>9. AtHead(m, st[s].branch, c)
    <3>1. Created(m, st[s].branch)
      BY <1>1, <2>4, <2>5, StartStays
    <3>2. OnBranch(m, "HeadMoved", st[s].branch) =
             OnBranch(log, "HeadMoved", st[s].branch) \cup
                (IF f.type = "HeadMoved" /\ f.branch = st[s].branch
                 THEN {Len(log) + 1} ELSE {})
      BY <1>1, <2>4, AppendFact
    <3>3. Len(log) + 1 \in OnBranch(m, "HeadMoved", st[s].branch)
      BY <2>4, <3>2
    <3> QED BY <3>1, <3>3 DEF AtHead
  <2>10. HandleInv(m, q)
    BY <2>3, <2>9 DEF HandleInv
  <2> QED BY <2>1, <2>3, <2>7, <2>8, <2>10, HandleStep
<1> QED BY <1>4, <1>5

\* A handle is restored to a cell that was a head.
LEMMA RestoreStep ==
    ASSUME SessionInv, NEW s \in Handles, NEW c \in 1..MaxCells, Restore(s, c)
    PROVE  SessionInv'
<1> DEFINE f == RestoreCompleted(c, NoBranch)
           b == branchForCell(log, c)
           r == Loaded(b, c)
<1>1. /\ LogInv(log) /\ log \in Seq(Facts) /\ TurnInv /\ st = [t \in Handles |-> st[t]]
      /\ \A t \in Handles : HandleInv(log, st[t])
  BY DEF SessionInv, LogInv
<1>2. /\ \A t \in Handles : st[t].pc = "idle"
      /\ c \in MovedCells(log)
      /\ \/ log' = log /\ st' = st
         \/ log' = Append(log, f) /\ st' = [st EXCEPT ![s] = r]
  BY DEF Restore, Turn, Replayable
<1>3. AtHead(log, b, c) /\ b \in Nat /\ c \in Nat
  BY <1>1, <1>2, MovedBranch
<1>4. f \in Facts /\ Admits(log, f)
  <2>1. f \in Facts
    BY <1>3, FactShapes DEF NoBranch
  <2>2. f.type = "RestoreCompleted" /\ f.cell = c /\ f.newBranch = NoBranch
    BY DEF RestoreCompleted
  <2> QED BY <1>2, <2>1, <2>2 DEF Admits
<1> HIDE DEF f, b
<1>5. CASE log' = log /\ st' = st
  BY <1>1, <1>5 DEF SessionInv, TurnInv
<1>6. CASE log' = Append(log, f) /\ st' = [st EXCEPT ![s] = r]
  <2>1. AtHead(log', b, c)
    BY <1>1, <1>3, <1>4, <1>6, KnownStays
  <2>2. HandleInv(log', r) /\ r.pc = "idle"
    BY <1>3, <2>1, InstallHandle DEF Loaded, LoadedFrom
  <2>3. LogInv(log') /\ \A t \in Handles : HandleInv(log', st[t])
    BY <1>1, <1>2, <1>4, <1>6, LogStep, IdleStays
  <2> HIDE DEF r
  <2> QED BY <1>6, <2>2, <2>3, HandleStep
<1> QED BY <1>2, <1>5, <1>6

\* A branch is created, and its number is new: the branch starts at the forked cell.
LEMMA ForkStep ==
    ASSUME SessionInv, NEW s \in Handles, NEW c \in 1..MaxCells, Fork(s, c)
    PROVE  SessionInv'
<1> DEFINE b == NextBranch
           f == BranchCreated(b, c)
           g == RestoreCompleted(c, b)
           m == Append(log, f)
           r == Loaded(b, c)
<1>1. /\ LogInv(log) /\ log \in Seq(Facts) /\ TurnInv /\ st = [t \in Handles |-> st[t]]
      /\ NumbersInv(log) /\ \A t \in Handles : HandleInv(log, st[t])
  BY DEF SessionInv, LogInv
<1>2. /\ \A t \in Handles : st[t].pc = "idle"
      /\ c \in MovedCells(log)
      /\ \/ log' = log /\ st' = st
         \/ log' = m /\ st' = st
         \/ log' = Append(m, g) /\ st' = [st EXCEPT ![s] = r]
  BY DEF Fork, Turn, Replayable
<1>3. c \in Nat /\ b \in Nat /\ b = BranchCount(log) + 2 /\ b # RootBranch /\ b # NoBranch
  <2>1. BranchCount(log) \in Nat
    BY <1>1, Positions DEF BranchCount
  <2>2. b = BranchCount(log) + 2
    BY <2>1 DEF NextBranch, BranchCount, RootBranch
  <2> HIDE DEF b
  <2> QED BY <1>1, <1>2, <2>1, <2>2, MovedBranch DEF RootBranch, NoBranch
<1> HIDE DEF b
<1>4. /\ f \in Facts /\ f.type = "BranchCreated" /\ f.branch = b /\ f.cell = c
      /\ g \in Facts /\ g.type = "RestoreCompleted" /\ g.newBranch = b /\ g.cell = c
  BY <1>3, FactShapes DEF BranchCreated, RestoreCompleted
<1> HIDE DEF f, g
<1>5. Admits(log, f)
  BY <1>2, <1>3, <1>4 DEF Admits
<1>6. LogInv(m) /\ m \in Seq(Facts) /\ \A t \in Handles : HandleInv(m, st[t])
  BY <1>1, <1>2, <1>4, <1>5, LogStep, IdleStays DEF LogInv
<1>7. Created(m, b) /\ Start(m, b) = c
  <2>1. OnBranch(log, "BranchCreated", b) = {}
    <3> SUFFICES ASSUME NEW i \in OfType(log, "BranchCreated"), log[i].branch = b
                 PROVE  FALSE
      BY DEF OnBranch
    <3>1. BranchCount(log) \in Nat /\ log[i].branch < BranchCount(log) + 2
      BY <1>1, Positions DEF NumbersInv, BranchCount
    <3> QED BY <1>3, <3>1
  <2>2. /\ m[Len(log) + 1] = f /\ Len(log) + 1 \in Nat
        /\ \A t, x : OnBranch(m, t, x) = OnBranch(log, t, x) \cup
              (IF f.type = t /\ f.branch = x THEN {Len(log) + 1} ELSE {})
    BY <1>1, <1>4, AppendFact
  <2> HIDE DEF m
  <2>3. OnBranch(m, "BranchCreated", b) = {Len(log) + 1}
    BY <1>4, <2>1, <2>2
  <2>4. Min({Len(log) + 1}) = Len(log) + 1
    <3>1. {Len(log) + 1} \in SUBSET Nat /\ {Len(log) + 1} # {}
      BY <2>2
    <3> QED BY <3>1, MinProperties
  <2> QED BY <1>3, <1>4, <2>2, <2>3, <2>4 DEF Created, Start
<1>8. Admits(m, g)
  <2>1. c \in MovedCells(m)
    BY <1>1, <1>2, <1>4, KnownStays
  <2> QED BY <1>3, <1>4, <1>7, <2>1 DEF Admits
<1> HIDE DEF m
<1>9. LogInv(Append(m, g)) /\ \A t \in Handles : HandleInv(Append(m, g), st[t])
  BY <1>2, <1>4, <1>6, <1>8, LogStep, IdleStays
<1>10. AtHead(Append(m, g), b, c)
  <2>1. AtHead(m, b, c)
    BY <1>7 DEF AtHead
  <2> QED BY <1>4, <1>6, <2>1, KnownStays
<1>11. CASE log' = log /\ st' = st
  BY <1>1, <1>11 DEF SessionInv, TurnInv
<1>12. CASE log' = m /\ st' = st
  BY <1>1, <1>6, <1>12 DEF SessionInv, TurnInv
<1>13. CASE log' = Append(m, g) /\ st' = [st EXCEPT ![s] = r]
  <2>1. HandleInv(log', r) /\ r.pc = "idle"
    BY <1>3, <1>10, <1>13, InstallHandle DEF Loaded, LoadedFrom
  <2> HIDE DEF r
  <2> QED BY <1>9, <1>13, <2>1, HandleStep
<1> QED BY <1>2, <1>11, <1>12, <1>13

\* The durable cursor is a place where a handle may be.
LEMMA CursorAtHead ==
    ASSUME NEW l, LogInv(l)
    PROVE  LET cur == LoadSessionState(l)
           IN  AtHead(l, cur.branch, cur.head) /\ cur.branch \in Nat /\ cur.head \in Nat
<1> DEFINE cur == LoadSessionState(l)
           M == OfType(l, "HeadMoved") \cup OfType(l, "RestoreCompleted")
           f == l[Max(M)]
<1>1. l \in Seq(Facts) /\ HeadsInv(l)
  BY DEF LogInv
<1>2. /\ M \in SUBSET Nat /\ M \in SUBSET DOMAIN l /\ Len(l) \in Nat
      /\ \A i \in DOMAIN l : i <= Len(l) /\ l[i].branch \in Nat /\ l[i].cell \in Nat
  BY <1>1, Positions
<1>3. CASE M = {}
  <2>1. cur = StateAt(l, RootBranch, NoCell)
    BY <1>3, Zenon DEF LoadSessionState
  <2>2. cur.branch = RootBranch /\ cur.head = NoCell
    BY <2>1 DEF StateAt
  <2> QED BY <2>2 DEF AtHead, Created, Start, RootBranch, NoCell
<1>4. CASE M # {}
  <2>1. cur = StateAt(l, ActiveBranch(l, f), f.cell)
    BY <1>4, Zenon DEF LoadSessionState
  <2>2. cur.branch = ActiveBranch(l, f) /\ cur.head = f.cell
    BY <2>1 DEF StateAt
  <2> HIDE DEF cur
  <2>3. Max(M) \in M
    <3>1. \A y \in M : y <= Len(l)
      BY <1>2
    <3> HIDE DEF M
    <3> QED BY <1>2, <1>4, <3>1, MaxProperties
  <2>4. f.cell \in Nat /\ f.branch \in Nat
    BY <1>2, <2>3
  <2>5. CASE Max(M) \in OfType(l, "HeadMoved")
    <3>1. f.type = "HeadMoved" /\ Created(l, f.branch)
          /\ Max(M) \in OnBranch(l, "HeadMoved", f.branch)
      BY <1>1, <2>5 DEF HeadsInv, OfType, OnBranch
    <3>2. ActiveBranch(l, f) = f.branch
      BY <3>1 DEF ActiveBranch
    <3> HIDE DEF f, M
    <3> QED BY <2>2, <2>4, <3>1, <3>2 DEF AtHead, cur
  <2>6. CASE Max(M) \in OfType(l, "RestoreCompleted")
    <3>1. /\ f.type = "RestoreCompleted" /\ f.cell \in MovedCells(l) /\ f \in Facts
          /\ f.newBranch # NoBranch => /\ Created(l, f.newBranch)
                                       /\ Start(l, f.newBranch) = f.cell
      BY <1>1, <2>6 DEF HeadsInv, OfType
    <3>2. f.newBranch \in Nat
      BY <3>1 DEF Facts
    <3> HIDE DEF f
    <3>3. ActiveBranch(l, f) = IF f.newBranch # NoBranch THEN f.newBranch
                               ELSE branchForCell(l, f.cell)
      BY <3>1 DEF ActiveBranch
    <3>4. CASE f.newBranch # NoBranch
      BY <2>2, <2>4, <3>1, <3>2, <3>3, <3>4 DEF AtHead, cur
    <3>5. CASE f.newBranch = NoBranch
      <4>1. AtHead(l, branchForCell(l, f.cell), f.cell) /\ branchForCell(l, f.cell) \in Nat
        BY <3>1, MovedBranch
      <4> QED BY <2>2, <2>4, <3>3, <3>5, <4>1 DEF cur
    <3> QED BY <3>4, <3>5
  <2> QED BY <2>3, <2>5, <2>6
<1> QED BY <1>3, <1>4

\* A handle is opened at the durable cursor.
LEMMA OpenStep ==
    ASSUME SessionInv, NEW s \in Handles, Open(s)
    PROVE  SessionInv'
<1> DEFINE cur == LoadSessionState(log)
           r == IF cur.head = NoCell
                THEN Install(cur.branch, NoCell, NewRuntime(cur.hash), 0)
                ELSE Loaded(cur.branch, cur.head)
<1>1. LogInv(log) /\ \A t \in Handles : HandleInv(log, st[t])
  BY DEF SessionInv
<1>2. st' = [st EXCEPT ![s] = r] /\ log' = log
  BY DEF Open
<1>3. AtHead(log, cur.branch, cur.head) /\ cur.branch \in Nat /\ cur.head \in Nat
  BY <1>1, CursorAtHead
<1>4. HandleInv(log, r) /\ r.pc = "idle"
  <2> HIDE DEF cur
  <2>1. CASE cur.head = NoCell
    BY <1>3, <2>1, InstallHandle
  <2>2. CASE cur.head # NoCell
    BY <1>3, <2>2, InstallHandle DEF Loaded, LoadedFrom
  <2> QED BY <2>1, <2>2
<1> HIDE DEF r
<1> QED BY <1>1, <1>2, <1>4, HandleStep

\* The configuration changes; the handle stays where it is.
LEMMA TransitionStep ==
    ASSUME SessionInv, NEW s \in Handles, NEW h \in Hashes, Transition(s, h)
    PROVE  SessionInv'
<1> DEFINE r == Cleaned(log, s)
           rt == ApplyTransition(log, r.rt, h, r.index)
           x == [r EXCEPT !.rt = rt, !.dirty = TRUE]
           y == [r EXCEPT !.rt = rt, !.hash = h]
           f == RuntimeTransitioned(r.branch, r.head, h)
<1>1. /\ LogInv(log) /\ log \in Seq(Facts) /\ TurnInv
      /\ \A t \in Handles : HandleInv(log, st[t])
  BY DEF SessionInv, LogInv
<1>2. /\ \A t \in Handles : st[t].pc = "idle"
      /\ \/ log' = log /\ st' = [st EXCEPT ![s] = r]
         \/ log' = log /\ st' = [st EXCEPT ![s] = x]
         \/ log' = Append(log, f) /\ st' = [st EXCEPT ![s] = y]
  BY DEF Transition, Turn
<1>3. IsHandle(st[s])
  BY <1>1 DEF HandleInv
<1>4. /\ IsHandle(r) /\ r.pc = "idle" /\ r.open = st[s].open /\ r.branch = st[s].branch
      /\ r.head = st[s].head
  BY <1>2, <1>3, CleanedHandle
<1> HIDE DEF r
<1>5. /\ IsHandle(x) /\ x.pc = "idle" /\ x.open = st[s].open /\ x.branch = st[s].branch
      /\ x.head = st[s].head
      /\ IsHandle(y) /\ y.pc = "idle" /\ y.open = st[s].open /\ y.branch = st[s].branch
      /\ y.head = st[s].head
  <2>1. r = [open |-> r.open, pc |-> r.pc, branch |-> r.branch, head |-> r.head,
             hash |-> r.hash, index |-> r.index, dirty |-> r.dirty, rt |-> r.rt,
             cell |-> r.cell, eval |-> r.eval]
    BY <1>4 DEF IsHandle
  <2>2. x = [r EXCEPT !.rt = rt, !.dirty = TRUE] /\ y = [r EXCEPT !.rt = rt, !.hash = h]
    OBVIOUS
  <2> HIDE DEF rt, x, y
  <2>3. x = [open |-> r.open, pc |-> r.pc, branch |-> r.branch, head |-> r.head,
             hash |-> r.hash, index |-> r.index, dirty |-> TRUE, rt |-> rt,
             cell |-> r.cell, eval |-> r.eval]
    BY <2>1, <2>2
  <2>4. y = [open |-> r.open, pc |-> r.pc, branch |-> r.branch, head |-> r.head,
             hash |-> h, index |-> r.index, dirty |-> r.dirty, rt |-> rt,
             cell |-> r.cell, eval |-> r.eval]
    BY <2>1, <2>2
  <2> QED BY <1>4, <2>3, <2>4 DEF IsHandle
<1> HIDE DEF x, y
<1>6. HandleInv(log, r) /\ HandleInv(log, x) /\ HandleInv(log, y)
  BY <1>1, <1>4, <1>5 DEF HandleInv
<1>7. f \in Facts /\ Admits(log, f)
  BY <1>4, FactShapes, PlainFacts DEF IsHandle
<1> HIDE DEF f
<1>8. CASE log' = log
  BY <1>1, <1>2, <1>4, <1>5, <1>6, <1>8, HandleStep
<1>9. CASE log' = Append(log, f) /\ st' = [st EXCEPT ![s] = y]
  <2>1. /\ LogInv(log') /\ HandleInv(log', y)
        /\ \A t \in Handles : HandleInv(log', st[t])
    BY <1>1, <1>2, <1>5, <1>6, <1>7, <1>9, LogStep, IdleStays
  <2> QED BY <1>5, <1>9, <2>1, HandleStep
<1> QED BY <1>2, <1>8, <1>9

\* A handle is closed, or its process ends: the log stays as it is.
LEMMA StopStep ==
    ASSUME SessionInv, NEW s \in Handles, Stop(s)
    PROVE  SessionInv'
<1>1. LogInv(log) /\ \A t \in Handles : HandleInv(log, st[t])
  BY DEF SessionInv
<1>2. st' = [st EXCEPT ![s] = Closed] /\ log' = log
  BY DEF Stop
<1>3. HandleInv(log, Closed) /\ Closed.pc = "idle"
  BY ClosedHandle
<1> QED BY <1>1, <1>2, <1>3, HandleStep

-----------------------------------------------------------------------------
(* The invariant of the specification. *)

\* A session that was just started.
LEMMA InitInv ==
    ASSUME Init
    PROVE  SessionInv
<1> DEFINE f == SessionStarted
           g == RuntimeAttached(InitialHash)
<1>1. log = <<f, g>> /\ InitialHash \in Hashes
  BY SessionAssumption DEF Init
<1>2. PICK s \in Handles :
        st = [t \in Handles |-> IF t = s
                THEN Install(RootBranch, NoCell, NewRuntime(InitialHash), 0) ELSE Closed]
  BY DEF Init
<1>3. /\ f \in Facts /\ g \in Facts
      /\ f.type = "SessionStarted" /\ g.type = "RuntimeAttached"
  BY <1>1, FactShapes DEF SessionStarted, RuntimeAttached
<1> HIDE DEF f, g
<1>4. log \in Seq(Facts) /\ DOMAIN log = {1, 2} /\ log[1] = f /\ log[2] = g
  BY <1>1, <1>3
<1>5. \A t \in {"HeadMoved", "BranchCreated", "CellCommitted", "RestoreCompleted"} :
         OfType(log, t) = {}
  BY <1>3, <1>4 DEF OfType
<1>6. LogInv(log)
  BY <1>4, <1>5 DEF LogInv, NumbersInv, HeadsInv, ForksInv, LinesInv
<1>7. AtHead(log, RootBranch, NoCell)
  BY DEF AtHead, Created, Start
<1>8. \A t \in Handles : HandleInv(log, st[t]) /\ st[t].pc = "idle"
  <2> DEFINE r == Install(RootBranch, NoCell, NewRuntime(InitialHash), 0)
  <2>1. HandleInv(log, r) /\ r.pc = "idle"
    BY <1>7, InstallHandle DEF RootBranch, NoCell
  <2>2. HandleInv(log, Closed) /\ Closed.pc = "idle"
    BY ClosedHandle
  <2> HIDE DEF r
  <2>3. \A t \in Handles : st[t] = IF t = s THEN r ELSE Closed
    BY <1>2 DEF r
  <2> QED BY <2>1, <2>2, <2>3
<1>9. st = [t \in Handles |-> st[t]]
  <2>1. DOMAIN st = Handles
    BY <1>2
  <2> QED BY <1>2, Zenon
<1> QED BY <1>6, <1>8, <1>9 DEF SessionInv, TurnInv

\* The invariant holds whatever handles there are, however their operations follow
\* each other, and whichever appends fail.
THEOREM SessionInvariant == Spec => []SessionInv
<1>1. Init => SessionInv
  BY InitInv
<1>2. SessionInv /\ [Next]_vars => SessionInv'
  <2> SUFFICES ASSUME SessionInv, [Next]_vars PROVE SessionInv'
    OBVIOUS
  <2>1. CASE UNCHANGED vars
    <3>1. log' = log /\ st' = st
      BY <2>1 DEF vars
    <3> QED BY <3>1 DEF SessionInv, TurnInv
  <2>2. CASE Next
    <3>1. PICK s \in Handles :
             \/ \E k \in Kinds : SubmitCheck(s, k)
             \/ SubmitEval(s) \/ SubmitCommit(s) \/ SubmitMove(s)
             \/ \E c \in 1..MaxCells : Restore(s, c) \/ Fork(s, c)
             \/ Open(s) \/ Stop(s)
             \/ \E h \in Hashes : Transition(s, h)
      BY <2>2 DEF Next
    <3>2. CASE \E k \in Kinds : SubmitCheck(s, k)
      BY <3>2, SubmitCheckStep
    <3>3. CASE SubmitEval(s) \/ SubmitCommit(s) \/ SubmitMove(s)
      BY <3>3, SubmitEvalStep, SubmitCommitStep, SubmitMoveStep
    <3>4. CASE \E c \in 1..MaxCells : Restore(s, c) \/ Fork(s, c)
      BY <3>4, RestoreStep, ForkStep
    <3>5. CASE Open(s) \/ Stop(s)
      BY <3>5, OpenStep, StopStep
    <3>6. CASE \E h \in Hashes : Transition(s, h)
      BY <3>6, TransitionStep
    <3> QED BY <3>1, <3>2, <3>3, <3>4, <3>5, <3>6
  <2> QED BY <2>1, <2>2
<1> QED BY <1>1, <1>2, PTL DEF Spec

\* ensureBranchHeadWritable, checked once at the beginning of a submit, is enough:
\* the heads of a branch form one line that starts where it was forked, for any
\* number of handles, cells, branches, restores and failing appends.
THEOREM LinearHistoryInvariant == Spec => []LinearHistory
<1>1. SessionInv => LinearHistory
  BY DEF SessionInv, LogInv, LinesInv, LinearHistory, Start
<1> QED BY <1>1, SessionInvariant, PTL

-----------------------------------------------------------------------------
(* Replay plans. *)

\* The recursion of FlattenSeq has a solution: the shortest prefix without one would
\* have a prefix with one.
LEMMA FlattenExists ==
    ASSUME NEW X, NEW ss \in Seq(Seq(X)), NEW n \in Nat, n = Len(ss), n # 0
    PROVE  \E f : f = [i \in 1..n |-> IF i = 1 THEN ss[i] ELSE f[i - 1] \o ss[i]]
<1> DEFINE Solves(f, k) == f = [i \in 1..k |-> IF i = 1 THEN ss[i] ELSE f[i - 1] \o ss[i]]
           Bad == {k \in 1..n : ~\E f : Solves(f, k)}
<1> HIDE DEF Solves
<1>1. Bad = {}
  <2> SUFFICES ASSUME Bad # {} PROVE FALSE
    OBVIOUS
  <2> DEFINE k == Min(Bad)
  <2>1. k \in Bad /\ \A y \in Bad : k <= y
    <3>1. Bad \in SUBSET Nat
      OBVIOUS
    <3> HIDE DEF Bad
    <3> QED BY <3>1, MinProperties
  <2>2. k \in 1..n /\ ~\E f : Solves(f, k)
    BY <2>1
  <2> HIDE DEF k
  <2>3. CASE k = 1
    <3> DEFINE g == [i \in 1..1 |-> ss[i]]
    <3>1. Solves(g, k)
      BY <2>3 DEF Solves
    <3> QED BY <2>2, <3>1
  <2>4. CASE k # 1
    <3>1. k - 1 \in 1..n /\ k - 1 \notin Bad
      <4> HIDE DEF Bad
      <4> QED BY <2>1, <2>2, <2>4
    <3>2. PICK f : Solves(f, k - 1)
      BY <3>1
    <3> DEFINE g == [i \in 1..k |-> IF i < k THEN f[i] ELSE f[k - 1] \o ss[k]]
    <3>3. \A i \in 1..(k - 1) : f[i] = IF i = 1 THEN ss[i] ELSE f[i - 1] \o ss[i]
      BY <3>2 DEF Solves
    <3>4. \A i \in 1..k : g[i] = IF i = 1 THEN ss[i] ELSE g[i - 1] \o ss[i]
      <4> TAKE i \in 1..k
      <4>1. CASE i < k
        <5>1. i \in 1..(k - 1) /\ g[i] = f[i]
          BY <2>2, <4>1
        <5>2. i # 1 => i - 1 \in 1..k /\ i - 1 < k
          BY <2>2, <4>1
        <5>3. i # 1 => g[i - 1] = f[i - 1]
          BY <5>2
        <5> HIDE DEF g
        <5> QED BY <3>3, <5>1, <5>3
      <4>2. CASE i = k
        <5>1. k - 1 \in 1..k /\ k - 1 < k
          BY <2>2, <2>4
        <5>2. g[k - 1] = f[k - 1] /\ g[k] = f[k - 1] \o ss[k]
          <6>1. k \in 1..k /\ ~(k < k)
            BY <2>2
          <6> QED BY <5>1, <6>1, Zenon
        <5> HIDE DEF g
        <5> QED BY <2>4, <4>2, <5>2
      <4> QED BY <2>2, <4>1, <4>2
    <3>5. DOMAIN g = 1..k /\ g = [i \in 1..k |-> g[i]]
      OBVIOUS
    <3> HIDE DEF g
    <3>6. Solves(g, k)
      BY <3>4, <3>5 DEF Solves
    <3> QED BY <2>2, <3>6
  <2> QED BY <2>3, <2>4
<1>2. n \in 1..n
  OBVIOUS
<1>3. \E f : Solves(f, n)
  BY <1>1, <1>2
<1> QED BY <1>3 DEF Solves

\* FlattenSeq lists what its sequences list.
LEMMA FlattenRange ==
    ASSUME NEW X, NEW ss \in Seq(Seq(X))
    PROVE  FlattenSeq(ss) \in Seq(X)
<1> DEFINE n == Len(ss)
           F == CHOOSE f : f = [i \in 1..n |-> IF i = 1 THEN ss[i] ELSE f[i - 1] \o ss[i]]
<1>1. n \in Nat
  OBVIOUS
<1>2. CASE n = 0
  <2>1. ss = <<>>
    BY <1>2
  <2>2. FlattenSeq(ss) = ss
    BY <1>2, Zenon DEF FlattenSeq
  <2>3. <<>> \in Seq(X)
    OBVIOUS
  <2> QED BY <2>1, <2>2, <2>3
<1>3. CASE n # 0
  <2>1. FlattenSeq(ss) = F[n]
    BY <1>3, Zenon DEF FlattenSeq
  <2>2. F = [i \in 1..n |-> IF i = 1 THEN ss[i] ELSE F[i - 1] \o ss[i]]
    <3>1. \E f : f = [i \in 1..n |-> IF i = 1 THEN ss[i] ELSE f[i - 1] \o ss[i]]
      BY <1>1, <1>3, FlattenExists
    <3> HIDE DEF n
    <3> QED BY <3>1, Zenon
  <2> HIDE DEF F
  <2>3. \A i \in 1..n : F[i] = IF i = 1 THEN ss[i] ELSE F[i - 1] \o ss[i]
    BY <2>2
  <2> DEFINE Bad == {k \in 1..n : F[k] \notin Seq(X)}
  <2>4. Bad = {}
    <3> SUFFICES ASSUME Bad # {} PROVE FALSE
      OBVIOUS
    <3> DEFINE k == Min(Bad)
    <3>1. k \in Bad /\ \A y \in Bad : k <= y
      <4>1. Bad \in SUBSET Nat
        OBVIOUS
      <4> HIDE DEF Bad
      <4> QED BY <4>1, MinProperties
    <3>2. k \in 1..n /\ F[k] \notin Seq(X)
      BY <3>1
    <3> HIDE DEF k
    <3>3. ss[k] \in Seq(X)
      BY <3>2
    <3>4. k # 1 /\ F[k] = F[k - 1] \o ss[k]
      BY <2>3, <3>2, <3>3
    <3>5. k - 1 \in 1..n /\ k - 1 \notin Bad
      BY <3>1, <3>2, <3>4
    <3>6. F[k - 1] \in Seq(X)
      BY <3>5
    <3> QED BY <3>2, <3>3, <3>4, <3>6
  <2>5. n \in 1..n
    BY <1>1, <1>3
  <2> QED BY <2>1, <2>4, <2>5
<1> QED BY <1>2, <1>3

\* The same for a recursion down a tree whose parents have smaller numbers.
IsPath(f, n, C, p, q) ==
    f = [x \in 1..n |-> IF x \notin C THEN <<>> ELSE Append(f[p[x]], q[x])]

\* Such a recursion has a value for every number.
LEMMA PathExists ==
    ASSUME NEW n \in Nat, NEW C, NEW p, NEW q, \A x \in 1..n : x \in C => p[x] \in 1..(x - 1)
    PROVE  \E f : IsPath(f, n, C, p, q)
<1> DEFINE Solves(f, k) ==
             f = [x \in 1..k |-> IF x \notin C THEN <<>> ELSE Append(f[p[x]], q[x])]
           Bad == {k \in 0..n : ~\E f : Solves(f, k)}
<1> HIDE DEF Solves
<1>1. Bad = {}
  <2> SUFFICES ASSUME Bad # {} PROVE FALSE
    OBVIOUS
  <2> DEFINE k == Min(Bad)
  <2>1. k \in Bad /\ \A y \in Bad : k <= y
    <3>1. Bad \in SUBSET Nat
      OBVIOUS
    <3> HIDE DEF Bad
    <3> QED BY <3>1, MinProperties
  <2>2. k \in 0..n /\ ~\E f : Solves(f, k)
    BY <2>1
  <2> HIDE DEF k
  <2>3. CASE k = 0
    <3> DEFINE g == [x \in 1..0 |-> <<>>]
    <3>1. Solves(g, k)
      BY <2>3 DEF Solves
    <3> QED BY <2>2, <3>1
  <2>4. CASE k # 0
    <3>1. k - 1 \in 0..n /\ k - 1 \notin Bad
      <4> HIDE DEF Bad
      <4> QED BY <2>1, <2>2, <2>4
    <3>2. PICK f : Solves(f, k - 1)
      BY <3>1
    <3> DEFINE v == IF k \notin C THEN <<>> ELSE Append(f[p[k]], q[k])
               g == [x \in 1..k |-> IF x < k THEN f[x] ELSE v]
    <3>3. \A x \in 1..(k - 1) : f[x] = IF x \notin C THEN <<>> ELSE Append(f[p[x]], q[x])
      BY <3>2 DEF Solves
    <3>4. \A x \in 1..k : x \in C => p[x] \in 1..k /\ p[x] < k
      BY <2>2
    <3>5. \A x \in 1..k : g[x] = IF x \notin C THEN <<>> ELSE Append(g[p[x]], q[x])
      <4> TAKE x \in 1..k
      <4>1. x \in C => g[p[x]] = f[p[x]]
        BY <3>4
      <4>2. CASE x < k
        <5>1. x \in 1..(k - 1) /\ g[x] = f[x]
          BY <2>2, <4>2
        <5> HIDE DEF g
        <5> QED BY <3>3, <4>1, <5>1
      <4>3. CASE x = k
        <5>1. k \in 1..k /\ ~(k < k)
          BY <2>2, <2>4
        <5>2. g[k] = v
          BY <5>1, Zenon
        <5> HIDE DEF g
        <5> QED BY <4>1, <4>3, <5>2
      <4> QED BY <2>2, <4>2, <4>3
    <3>6. DOMAIN g = 1..k /\ g = [x \in 1..k |-> g[x]]
      OBVIOUS
    <3> HIDE DEF g
    <3>7. Solves(g, k)
      BY <3>5, <3>6 DEF Solves
    <3> QED BY <2>2, <3>7
  <2> QED BY <2>3, <2>4
<1>2. n \in 0..n
  OBVIOUS
<1>3. \E f : Solves(f, n)
  BY <1>1, <1>2
<1> QED BY <1>3 DEF Solves, IsPath

\* Where a cell was committed, which is the only place.
LEMMA BranchForCell ==
    ASSUME NEW l, LogInv(l), NEW b, NEW c, CommittedOn(l, b, c)
    PROVE  branchForCell(l, c) = b
<1>1. l \in Seq(Facts) /\ NumbersInv(l)
  BY DEF LogInv
<1>2. PICK j \in OfCell(l, "CellCommitted", c) : l[j].branch = b
  BY DEF CommittedOn
<1>3. OfCell(l, "CellCommitted", c) \in SUBSET Nat
  BY <1>1, Positions
<1>4. Min(OfCell(l, "CellCommitted", c)) \in OfCell(l, "CellCommitted", c)
  BY <1>2, <1>3, MinProperties
<1>5. Min(OfCell(l, "CellCommitted", c)) = j
  BY <1>1, <1>2, <1>4 DEF NumbersInv, OfCell
<1> QED BY <1>2, <1>5 DEF branchForCell

\* Where a branch that is not the root was forked.
ForkOf(l, x) == ForkedFrom(l, Min(OnBranch(l, "BranchCreated", x)))

\* It was forked from a branch with a smaller number, at a cell committed there.
LEMMA ForkProperties ==
    ASSUME NEW l, LogInv(l), NEW x \in Nat, OnBranch(l, "BranchCreated", x) # {}
    PROVE  /\ ForkOf(l, x) = [branch |-> ForkOf(l, x).branch, stop |-> ForkOf(l, x).stop,
                              cutoff |-> Min(OnBranch(l, "BranchCreated", x))]
           /\ ForkOf(l, x).branch \in 1..(x - 1) /\ ForkOf(l, x).stop \in Nat
           /\ ForkOf(l, x).cutoff \in DOMAIN l
           /\ CommittedOn(l, ForkOf(l, x).branch, ForkOf(l, x).stop)
           /\ Created(l, ForkOf(l, x).branch)
<1> DEFINE K == OnBranch(l, "BranchCreated", x)
           i == Min(K)
<1>0. l \in Seq(Facts) /\ NumbersInv(l) /\ ForksInv(l)
  BY DEF LogInv
<1>1. K \in SUBSET Nat /\ \A y \in DOMAIN l : l[y].cell \in Nat /\ l[y].branch \in Nat
  BY <1>0, Positions
<1>2. i \in K
  BY <1>1, MinProperties
<1>3. i \in OfType(l, "BranchCreated") /\ l[i].branch = x /\ i \in DOMAIN l /\ i \in Nat
  BY <1>1, <1>2 DEF OnBranch, OfType
<1>4. PICK b \in 1..(x - 1) : CommittedOn(l, b, l[i].cell)
  BY <1>0, <1>3 DEF ForksInv
<1>5. branchForCell(l, l[i].cell) = b
  BY <1>4, BranchForCell
<1>6. ForkOf(l, x) = [branch |-> b, stop |-> l[i].cell, cutoff |-> i]
  BY <1>5 DEF ForkedFrom, ForkOf
<1>7. Created(l, b)
  BY <1>0, <1>4 DEF CommittedOn, ForksInv, OfCell
<1> HIDE DEF i
<1> QED BY <1>1, <1>3, <1>4, <1>6, <1>7 DEF i

\* What the recursion of Above computes.
IsAbove(l, n, f) ==
    \A x \in 1..n : f[x] = IF OnBranch(l, "BranchCreated", x) = {} THEN <<>>
                           ELSE Append(f[ForkOf(l, x).branch], ForkOf(l, x))

\* What the recursion of Above computes, as a function of the branch.
LEMMA AboveExists ==
    ASSUME NEW l, LogInv(l), NEW n \in Nat \ {0}
    PROVE  \E f : Above(l, n) = f[n] /\ IsAbove(l, n, f)
<1> DEFINE K(x) == OnBranch(l, "BranchCreated", x)
           C == {x \in 1..n : K(x) # {}}
           p == [x \in 1..n |-> ForkedFrom(l, Min(K(x))).branch]
           q == [x \in 1..n |-> ForkedFrom(l, Min(K(x)))]
           F == CHOOSE f : f = [x \in 1..n |->
                   IF K(x) = {} THEN <<>>
                   ELSE Append(f[ForkedFrom(l, Min(K(x))).branch], ForkedFrom(l, Min(K(x))))]
<1>1. Above(l, n) = F[n]
  BY Zenon DEF Above
<1>2. F = [x \in 1..n |->
             IF K(x) = {} THEN <<>>
             ELSE Append(F[ForkedFrom(l, Min(K(x))).branch], ForkedFrom(l, Min(K(x))))]
  <2>1. \E f : IsPath(f, n, C, p, q)
    <3>1. n \in Nat /\ \A x \in 1..n : x \in C => p[x] \in 1..(x - 1)
      BY ForkProperties DEF ForkOf
    <3> HIDE DEF C, p, q
    <3> QED BY <3>1, PathExists, Zenon
  <2>2. PICK f : IsPath(f, n, C, p, q)
    BY <2>1
  <2>3. f = [x \in 1..n |-> IF x \notin C THEN <<>> ELSE Append(f[p[x]], q[x])]
    <3> HIDE DEF C, p, q
    <3> QED BY <2>2 DEF IsPath
  <2>4. \A x \in 1..n : (x \notin C <=> K(x) = {})
           /\ p[x] = ForkedFrom(l, Min(K(x))).branch /\ q[x] = ForkedFrom(l, Min(K(x)))
    BY Zenon
  <2>5. f = [x \in 1..n |->
               IF K(x) = {} THEN <<>>
               ELSE Append(f[ForkedFrom(l, Min(K(x))).branch], ForkedFrom(l, Min(K(x))))]
    <3> HIDE DEF C, p, q, K
    <3> QED BY <2>3, <2>4
  <2> HIDE DEF K
  <2> QED BY <2>5, Zenon
<1>3. IsAbove(l, n, F)
  <2> SUFFICES ASSUME NEW x \in 1..n
               PROVE  F[x] = IF K(x) = {} THEN <<>>
                             ELSE Append(F[ForkedFrom(l, Min(K(x))).branch],
                                         ForkedFrom(l, Min(K(x))))
    BY DEF IsAbove, ForkOf
  <2> HIDE DEF F, K
  <2> QED BY <1>2, Zenon
<1> HIDE DEF F
<1> QED BY <1>1, <1>3

\* The path to a branch is the path to the one it was forked from, and one more.
LEMMA AboveUnfold ==
    ASSUME NEW l, LogInv(l), NEW n \in Nat \ {0}
    PROVE  Above(l, n) = IF OnBranch(l, "BranchCreated", n) = {} THEN <<>>
                         ELSE Append(Above(l, ForkOf(l, n).branch), ForkOf(l, n))
<1> DEFINE m == ForkOf(l, n).branch
<1>1. PICK f : Above(l, n) = f[n] /\ IsAbove(l, n, f)
  BY AboveExists
<1>2. Above(l, n) = IF OnBranch(l, "BranchCreated", n) = {} THEN <<>>
                    ELSE Append(f[m], ForkOf(l, n))
  BY <1>1 DEF IsAbove
<1>3. CASE OnBranch(l, "BranchCreated", n) = {}
  BY <1>2, <1>3
<1>4. CASE OnBranch(l, "BranchCreated", n) # {}
  <2>1. m \in 1..(n - 1) /\ m \in Nat \ {0}
    BY <1>4, ForkProperties
  <2> HIDE DEF m
  <2>2. PICK g : Above(l, m) = g[m] /\ IsAbove(l, m, g)
    BY <2>1, AboveExists
  <2> DEFINE Bad == {x \in 1..m : f[x] # g[x]}
  <2>3. Bad = {}
    <3> SUFFICES ASSUME Bad # {} PROVE FALSE
      OBVIOUS
    <3> DEFINE k == Min(Bad)
    <3>1. Bad \in SUBSET Nat
      BY <2>1
    <3>2. k \in Bad /\ \A y \in Bad : k <= y
      <4> HIDE DEF Bad
      <4> QED BY <3>1, MinProperties
    <3>3. k \in 1..m /\ k \in 1..n /\ k \in Nat /\ f[k] # g[k]
      BY <2>1, <3>2
    <3> HIDE DEF k
    <3>4. /\ f[k] = IF OnBranch(l, "BranchCreated", k) = {} THEN <<>>
                    ELSE Append(f[ForkOf(l, k).branch], ForkOf(l, k))
          /\ g[k] = IF OnBranch(l, "BranchCreated", k) = {} THEN <<>>
                    ELSE Append(g[ForkOf(l, k).branch], ForkOf(l, k))
      BY <1>1, <2>2, <3>3 DEF IsAbove
    <3>5. /\ OnBranch(l, "BranchCreated", k) # {}
          /\ f[ForkOf(l, k).branch] # g[ForkOf(l, k).branch]
      BY <3>3, <3>4
    <3>6. ForkOf(l, k).branch \in 1..(k - 1)
      BY <3>3, <3>5, ForkProperties
    <3>7. ForkOf(l, k).branch \in Bad /\ ForkOf(l, k).branch < k
      BY <2>1, <3>3, <3>5, <3>6
    <3> HIDE DEF Bad
    <3> QED BY <3>2, <3>3, <3>6, <3>7
  <2>4. m \in 1..m
    BY <2>1
  <2>5. f[m] = g[m]
    BY <2>3, <2>4
  <2> QED BY <1>2, <1>4, <2>2, <2>5 DEF m
<1> QED BY <1>3, <1>4

\* Along a path the branches have smaller numbers, the stops are cells committed there,
\* and the cutoffs are positions of the log.
Forks(l, n) ==
    {g \in [branch : 1..(n - 1), stop : Nat, cutoff : DOMAIN l] :
        CommittedOn(l, g.branch, g.stop)}

\* The path above a branch is a sequence of forks.
LEMMA AboveIsSequence ==
    ASSUME NEW l, LogInv(l), NEW n \in Nat \ {0}
    PROVE  Above(l, n) \in Seq(Forks(l, n))
<1> DEFINE Bad == {x \in 1..n : Above(l, x) \notin Seq(Forks(l, x))}
<1>1. Bad = {}
  <2> SUFFICES ASSUME Bad # {} PROVE FALSE
    OBVIOUS
  <2> DEFINE k == Min(Bad)
  <2>1. k \in Bad /\ \A y \in Bad : k <= y
    <3>1. Bad \in SUBSET Nat
      OBVIOUS
    <3> HIDE DEF Bad
    <3> QED BY <3>1, MinProperties
  <2>2. k \in 1..n /\ k \in Nat \ {0} /\ Above(l, k) \notin Seq(Forks(l, k))
    BY <2>1
  <2> HIDE DEF k
  <2>3. OnBranch(l, "BranchCreated", k) # {}
    <3>1. <<>> \in Seq(Forks(l, k))
      OBVIOUS
    <3> QED BY <2>2, <3>1, AboveUnfold
  <2> DEFINE p == ForkOf(l, k).branch
  <2>4. /\ p \in 1..(k - 1) /\ ForkOf(l, k) \in Forks(l, k)
        /\ Above(l, k) = Append(Above(l, p), ForkOf(l, k))
    <3>1. Above(l, k) = Append(Above(l, p), ForkOf(l, k))
      BY <2>2, <2>3, AboveUnfold
    <3>2. /\ ForkOf(l, k) = [branch |-> ForkOf(l, k).branch, stop |-> ForkOf(l, k).stop,
                             cutoff |-> Min(OnBranch(l, "BranchCreated", k))]
          /\ p \in 1..(k - 1) /\ ForkOf(l, k).stop \in Nat
          /\ ForkOf(l, k).cutoff \in DOMAIN l
          /\ CommittedOn(l, p, ForkOf(l, k).stop)
      BY <2>2, <2>3, ForkProperties
    <3> QED BY <3>1, <3>2 DEF Forks
  <2> HIDE DEF p
  <2>5. p \in 1..n /\ p \notin Bad
    <3> HIDE DEF Bad
    <3> QED BY <2>1, <2>2, <2>4
  <2>6. Above(l, p) \in Seq(Forks(l, p))
    BY <2>5
  <2>7. Forks(l, p) \subseteq Forks(l, k)
    BY <2>2, <2>4 DEF Forks
  <2>8. Above(l, p) \in Seq(Forks(l, k))
    BY <2>6, <2>7
  <2> QED BY <2>2, <2>4, <2>8
<1>2. n \in 1..n
  OBVIOUS
<1> QED BY <1>1, <1>2

\* The commits of a branch, in order, and those up to a cell.
LEMMA CommitsAreCommits ==
    ASSUME NEW l \in Seq(Facts), NEW b, NEW stop
    PROVE  committedCellsUpTo(l, b, stop) \in Seq({l[i] : i \in OnBranch(l, "CellCommitted", b)})
<1> DEFINE S == OnBranch(l, "CellCommitted", b)
           o == InOrder(S)
           X == {l[i] : i \in OnBranch(l, "CellCommitted", b)}
           s == Commits(l, b)
           at == {i \in DOMAIN s : s[i].cell = stop}
           n == IF at = {} THEN Len(s) ELSE Min(at)
<1>1. S \in SUBSET Nat /\ IsFiniteSet(S)
  BY Positions
<1>2. o \in Seq(S)
  <2> HIDE DEF S
  <2> QED BY <1>1, InOrderDistinct
<1>3. s = [k \in DOMAIN o |-> l[o[k]]]
  BY Zenon DEF Commits, FactsAt
<1>4. \A i \in S : l[i] \in X
  OBVIOUS
<1>5. s \in Seq(X)
  <2>1. Len(o) \in Nat /\ DOMAIN o = 1..Len(o) /\ \A k \in 1..Len(o) : o[k] \in S
    <3> HIDE DEF o, S
    <3> QED BY <1>2
  <2> HIDE DEF o, s, S
  <2>2. \A k \in 1..Len(o) : l[o[k]] \in X
    BY <1>4, <2>1
  <2> HIDE DEF X
  <2> QED BY <1>3, <2>1, <2>2
<1> HIDE DEF s
<1>6. n \in 0..Len(s)
  <2>1. Len(s) \in Nat /\ DOMAIN s = 1..Len(s)
    BY <1>5
  <2>2. at \in SUBSET Nat /\ at \in SUBSET (1..Len(s))
    BY <2>1
  <2>3. CASE at = {}
    BY <2>1, <2>3
  <2>4. CASE at # {}
    <3>1. Min(at) \in at
      <4> HIDE DEF at
      <4> QED BY <2>2, <2>4, MinProperties
    <3>2. n = Min(at)
      BY <2>4, Zenon
    <3>3. Min(at) \in 1..Len(s)
      <4> HIDE DEF at
      <4> QED BY <2>2, <3>1
    <3> HIDE DEF at, n
    <3> QED BY <2>1, <3>2, <3>3
  <2> QED BY <2>3, <2>4
<1>7. committedCellsUpTo(l, b, stop) = SubSeq(s, 1, n)
  BY Zenon DEF committedCellsUpTo, UpTo, s
<1> HIDE DEF n, X
<1>8. SubSeq(s, 1, n) \in Seq(X)
  BY <1>5, <1>6
<1> QED BY <1>7, <1>8 DEF X

\* The plan of a committed cell runs committed cells.
LEMMA StepsAreCommitted ==
    ASSUME NEW l, LogInv(l), NEW c \in MovedCells(l)
    PROVE  /\ LoadReplayPlan(l, c).steps \in Seq(CommittedCells(l))
           /\ Range(LoadReplayPlan(l, c).steps) \subseteq CommittedCells(l)
<1> DEFINE X == {l[i] : i \in OfType(l, "CellCommitted")}
           b == branchForCell(l, c)
           segs == Segments(l, b, c)
           ss == [i \in DOMAIN segs |-> committedCellsUpTo(l, segs[i].branch, segs[i].stop)]
           chain == FlattenSeq(ss)
<1>1. l \in Seq(Facts) /\ HeadsInv(l) /\ NumbersInv(l)
  BY DEF LogInv
<1>2. b \in Nat \ {0}
  <2>1. AtHead(l, b, c) /\ b \in Nat
    BY MovedBranch
  <2>2. Created(l, b)
    BY <2>1 DEF AtHead
  <2> HIDE DEF b
  <2> QED BY <1>1, <2>1, <2>2 DEF Created, NumbersInv, RootBranch, OnBranch
<1>3. segs \in Seq([branch : Nat, stop : Nat, cutoff : Nat])
  <2>1. Above(l, b) \in Seq(Forks(l, b))
    <3> HIDE DEF b
    <3> QED BY <1>2, AboveIsSequence
  <2>2. c \in Nat /\ Len(l) \in Nat /\ DOMAIN l \in SUBSET Nat
    BY <1>1, MovedBranch
  <2>3. segs = Append(Above(l, b), [branch |-> b, stop |-> c, cutoff |-> Len(l)])
    BY DEF Segments
  <2> HIDE DEF b, segs
  <2>4. Forks(l, b) \subseteq [branch : Nat, stop : Nat, cutoff : Nat]
    BY <1>2, <2>2 DEF Forks
  <2>5. Above(l, b) \in Seq([branch : Nat, stop : Nat, cutoff : Nat])
    <3> DEFINE Segs == [branch : Nat, stop : Nat, cutoff : Nat]
    <3>1. Forks(l, b) \subseteq Segs
      BY <2>4
    <3> HIDE DEF Segs
    <3>2. Above(l, b) \in Seq(Segs)
      BY <2>1, <3>1
    <3> QED BY <3>2 DEF Segs
  <2> QED BY <1>2, <2>2, <2>3, <2>5
<1>4. ss \in Seq(Seq(X))
  <2>1. DOMAIN segs = 1..Len(segs) /\ Len(segs) \in Nat
    <3> HIDE DEF segs
    <3> QED BY <1>3
  <2>2. \A i \in DOMAIN segs : committedCellsUpTo(l, segs[i].branch, segs[i].stop) \in Seq(X)
    <3> SUFFICES ASSUME NEW i \in DOMAIN segs
                 PROVE  committedCellsUpTo(l, segs[i].branch, segs[i].stop) \in Seq(X)
      OBVIOUS
    <3> DEFINE Y == {l[j] : j \in OnBranch(l, "CellCommitted", segs[i].branch)}
    <3> HIDE DEF segs
    <3>1. committedCellsUpTo(l, segs[i].branch, segs[i].stop) \in Seq(Y)
      BY <1>1, CommitsAreCommits
    <3>2. Y \subseteq X
      BY DEF OnBranch
    <3> HIDE DEF X, Y
    <3> QED BY <3>1, <3>2
  <2> HIDE DEF segs, X
  <2> QED BY <2>1, <2>2
<1>5. chain \in Seq(X)
  <2> HIDE DEF ss, X
  <2> QED BY <1>4, FlattenRange
<1>6. LoadReplayPlan(l, c).steps = [i \in DOMAIN chain |-> chain[i].cell]
  <2>1. LoadReplayPlan(l, c).steps = Cells(collectAncestorChain(l, b, c))
    BY DEF LoadReplayPlan, PlanOf
  <2>2. collectAncestorChain(l, b, c) = chain
    BY Zenon DEF collectAncestorChain, ChainOf
  <2> HIDE DEF chain, b
  <2> QED BY <2>1, <2>2, Zenon DEF Cells
<1> DEFINE steps == LoadReplayPlan(l, c).steps
<1>7. steps \in Seq(CommittedCells(l))
  <2>1. DOMAIN chain = 1..Len(chain) /\ Len(chain) \in Nat /\ \A i \in 1..Len(chain) : chain[i] \in X
    <3> HIDE DEF chain, X
    <3> QED BY <1>5
  <2> HIDE DEF chain
  <2>2. \A i \in 1..Len(chain) : chain[i].cell \in CommittedCells(l)
    BY <2>1 DEF CommittedCells
  <2> QED BY <1>6, <2>1, <2>2
<1> HIDE DEF steps
<1>8. Range(steps) \subseteq CommittedCells(l)
  BY <1>7 DEF Range
<1> QED BY <1>7, <1>8 DEF steps

-----------------------------------------------------------------------------
(* Failed cells. *)

\* A cell whose submit failed is the head of no branch, so that no handle restores to
\* it or forks from it; and where it is in a replay plan all the same, its
\* CellCommitted is durable and only its HeadMoved was lost.
FailedCellsAreNoHeads ==
    \A c \in 1..MaxCells : verdict[c] = "failed" =>
       /\ c \notin MovedCells(log)
       /\ \A d \in MovedCells(log) :
             c \in Range(LoadReplayPlan(log, d).steps) => c \in CommittedCells(log)

\* A failed cell has a number and has not been a head.
FailuresIn(l, v) ==
    \A c \in 1..MaxCells : v[c] = "failed" =>
       c <= CellCount(l) /\ OfCell(l, "HeadMoved", c) = {}

\* The cell of a submit has not failed yet, and is not a head yet.
VerdictInv ==
    /\ verdict = [c \in 1..MaxCells |-> verdict[c]]
    /\ FailuresIn(log, verdict)
    /\ \A s \in Handles : st[s].pc # "idle" =>
          /\ st[s].cell \in 1..MaxCells /\ verdict[st[s].cell] # "failed"
          /\ OfCell(log, "HeadMoved", st[s].cell) = {}

\* What the log gains takes no failure back.
LEMMA FailuresStay ==
    ASSUME NEW l \in Seq(Facts), NEW f \in Facts, NEW v, FailuresIn(l, v),
           f.type = "HeadMoved" => f.cell \notin 1..MaxCells \/ v[f.cell] # "failed"
    PROVE  FailuresIn(Append(l, f), v)
<1>1. \A t, c : OfCell(Append(l, f), t, c) = OfCell(l, t, c) \cup
                  (IF f.type = t /\ f.cell = c THEN {Len(l) + 1} ELSE {})
  BY AppendFact
<1>2. \A c : OfCell(Append(l, f), "HeadMoved", c) = OfCell(l, "HeadMoved", c) \cup
                  (IF f.type = "HeadMoved" /\ f.cell = c THEN {Len(l) + 1} ELSE {})
  BY <1>1
<1>3. CellCount(Append(l, f)) \in Nat /\ CellCount(l) \in Nat /\ CellCount(l) <= CellCount(Append(l, f))
  BY AppendCounts
<1> SUFFICES ASSUME NEW c \in 1..MaxCells, v[c] = "failed"
             PROVE  c <= CellCount(Append(l, f)) /\ OfCell(Append(l, f), "HeadMoved", c) = {}
  BY DEF FailuresIn
<1>4. c <= CellCount(l) /\ OfCell(l, "HeadMoved", c) = {}
  BY DEF FailuresIn
<1>5. OfCell(Append(l, f), "HeadMoved", c) = OfCell(l, "HeadMoved", c)
  BY <1>2
<1>6. c <= CellCount(Append(l, f))
  BY <1>3, <1>4, SessionAssumption
<1> QED BY <1>4, <1>5, <1>6

\* No submit begins.
Onward ==
    \A t \in Handles : st'[t].pc # "idle" => st[t].pc # "idle" /\ st'[t].cell = st[t].cell

\* No head is moved.
HeadsStand == \A c : OfCell(log', "HeadMoved", c) = OfCell(log, "HeadMoved", c)

\* A fact that is no HeadMoved.
LEMMA OtherFact ==
    ASSUME NEW l \in Seq(Facts), NEW f \in Facts, f.type # "HeadMoved", NEW c
    PROVE  OfCell(Append(l, f), "HeadMoved", c) = OfCell(l, "HeadMoved", c)
<1>1. OfCell(Append(l, f), "HeadMoved", c) = OfCell(l, "HeadMoved", c) \cup
         (IF f.type = "HeadMoved" /\ f.cell = c THEN {Len(l) + 1} ELSE {})
  BY AppendFact
<1> QED BY <1>1

\* A step that appends such a fact, or none.
LEMMA NoHead ==
    ASSUME log \in Seq(Facts), NEW f \in Facts, f.type # "HeadMoved",
           log' = log \/ log' = Append(log, f)
    PROVE  HeadsStand
BY OtherFact DEF HeadsStand

\* A step that leaves the verdicts and the heads alone.
LEMMA VerdictsKept ==
    ASSUME VerdictInv, Onward, HeadsStand, verdict' = verdict, FailuresIn(log', verdict)
    PROVE  VerdictInv'
BY DEF VerdictInv, Onward, HeadsStand, FailuresIn

\* A step that ends the submit of a handle and says how.
LEMMA VerdictGiven ==
    ASSUME VerdictInv, NEW c \in 1..MaxCells, NEW v, verdict' = [verdict EXCEPT ![c] = v],
           \A t \in Handles : st'[t].pc = "idle", FailuresIn(log', verdict),
           v = "failed" => c <= CellCount(log') /\ OfCell(log', "HeadMoved", c) = {}
    PROVE  VerdictInv'
<1>1. /\ verdict' = [d \in 1..MaxCells |-> verdict'[d]]
      /\ \A d \in 1..MaxCells : verdict'[d] = IF d = c THEN v ELSE verdict[d]
  BY DEF VerdictInv
<1>2. FailuresIn(log', verdict')
  BY <1>1 DEF FailuresIn
<1>3. FailuresIn(log, verdict)'
  BY <1>2 DEF FailuresIn
<1> QED BY <1>1, <1>3 DEF VerdictInv

\* A submit that fails before its head is moved.
LEMMA FailSubmitVerdict ==
    ASSUME SessionInv, VerdictInv, NEW s \in Handles, st[s].pc # "idle",
           NEW r, IsHandle(r), r.branch = st[s].branch, r.head = st[s].head, FailSubmit(s, r)
    PROVE  VerdictInv'
<1> DEFINE d == r.dirty \/ ~Fresh
           q == [r EXCEPT !.dirty = d]
           f == CellFailed(r.branch, r.head)
           c == st[s].cell
<1>1. /\ log \in Seq(Facts) /\ TurnInv /\ HandleInv(log, st[s]) /\ st = [t \in Handles |-> st[t]]
  BY DEF SessionInv, LogInv
<1>2. /\ st' = [st EXCEPT ![s] = Idle(q)] /\ (log' = Append(log, f) \/ log' = log)
      /\ verdict' = [verdict EXCEPT ![c] = "failed"]
  BY DEF FailSubmit
<1>3. IsHandle(q)
  <2> HIDE DEF d
  <2> QED BY DEF IsHandle
<1> HIDE DEF q
<1>4. \A t \in Handles : st'[t].pc = "idle"
  BY <1>1, <1>2, <1>3, IdleHandle DEF TurnInv
<1>5. f \in Facts /\ f.type = "CellFailed"
  BY FactShapes DEF IsHandle, CellFailed
<1> HIDE DEF f
<1>6. c \in 1..MaxCells /\ c \in 1..CellCount(log) /\ OfCell(log, "HeadMoved", c) = {}
  BY <1>1 DEF VerdictInv, HandleInv
<1>7. /\ FailuresIn(log, verdict)
      /\ FailuresIn(Append(log, f), verdict)
  <2>1. FailuresIn(log, verdict)
    BY DEF VerdictInv
  <2> QED BY <1>1, <1>5, <2>1, FailuresStay
<1>8. c <= CellCount(Append(log, f)) /\ c <= CellCount(log)
  <2>1. CellCount(log) \in Nat /\ CellCount(Append(log, f)) = CellCount(log)
    BY <1>1, <1>5, AppendCounts
  <2> QED BY <1>6, <2>1
<1>9. OfCell(Append(log, f), "HeadMoved", c) = {}
  <2>1. \A t, e : OfCell(Append(log, f), t, e) = OfCell(log, t, e) \cup
                    (IF f.type = t /\ f.cell = e THEN {Len(log) + 1} ELSE {})
    BY <1>1, <1>5, AppendFact
  <2> QED BY <1>5, <1>6, <2>1
<1> HIDE DEF c
<1> QED BY <1>2, <1>4, <1>6, <1>7, <1>8, <1>9, VerdictGiven

\* A handle that is idle afterwards begins nothing.
LEMMA IdleOnward ==
    ASSUME SessionInv, NEW s \in Handles, NEW r, r.pc = "idle", st' = [st EXCEPT ![s] = r]
    PROVE  Onward
<1>1. st = [t \in Handles |-> st[t]]
  BY DEF SessionInv
<1>2. \A t \in Handles : st'[t] = IF t = s THEN r ELSE st[t]
  BY <1>1
<1> QED BY <1>2 DEF Onward

\* A cell gets its number, and perhaps its verdict: it was no head before.
LEMMA SubmitCheckVerdict ==
    ASSUME SessionInv, VerdictInv, NEW s \in Handles, NEW k \in Kinds, SubmitCheck(s, k)
    PROVE  VerdictInv'
<1> DEFINE c == NextCell
           f == CellChecked(st[s].branch, c, k)
           p == Prepared(Append(log, f), s)
           r == [p EXCEPT !.pc = "eval", !.cell = c]
<1>1. /\ log \in Seq(Facts) /\ NumbersInv(log) /\ HeadsInv(log) /\ st = [t \in Handles |-> st[t]]
      /\ HandleInv(log, st[s]) /\ FailuresIn(log, verdict)
  BY DEF SessionInv, LogInv, VerdictInv
<1>2. /\ \A t \in Handles : st[t].pc = "idle"
      /\ c <= MaxCells
      /\ \/ log' = log /\ st' = st /\ verdict' = verdict
         \/ log' = Append(log, f) /\ st' = st /\ verdict' = [verdict EXCEPT ![c] = "failed"]
         \/ log' = Append(log, f) /\ st' = [st EXCEPT ![s] = r] /\ verdict' = verdict
  BY DEF SubmitCheck, Turn
<1>3. c = CellCount(log) + 1 /\ CellCount(log) \in Nat /\ c \in Nat
  <2>1. CellCount(log) \in Nat
    BY <1>1, Positions DEF CellCount
  <2> QED BY <2>1 DEF NextCell, CellCount
<1>4. IsHandle(st[s])
  BY <1>1 DEF HandleInv
<1>5. f \in Facts /\ f.type = "CellChecked"
  BY <1>3, <1>4, FactShapes DEF IsHandle, CellChecked
<1>6. r.cell = c
  <2>1. IsHandle(p)
    BY <1>4, CleanedHandle
  <2> HIDE DEF p, c
  <2> QED BY <2>1 DEF IsHandle
<1> HIDE DEF f, r, c
<1>7. FailuresIn(Append(log, f), verdict)
  BY <1>1, <1>5, FailuresStay
<1>8. c \in 1..MaxCells /\ verdict[c] # "failed"
  <2>1. c \in 1..MaxCells
    BY <1>2, <1>3, SessionAssumption
  <2> QED BY <1>1, <1>3, <2>1 DEF FailuresIn
<1>9. c <= CellCount(Append(log, f)) /\ OfCell(Append(log, f), "HeadMoved", c) = {}
  <2>1. \A t, e : OfCell(Append(log, f), t, e) = OfCell(log, t, e) \cup
                    (IF f.type = t /\ f.cell = e THEN {Len(log) + 1} ELSE {})
    BY <1>1, <1>5, AppendFact
  <2>2. OfCell(log, "HeadMoved", c) = {}
    <3>1. SUFFICES ASSUME NEW i \in OfType(log, "HeadMoved"), log[i].cell = c PROVE FALSE
      BY DEF OfCell
    <3>2. CommittedOn(log, log[i].branch, c)
      BY <1>1, <3>1 DEF HeadsInv
    <3>3. c \in 1..CellCount(log)
      BY <1>1, <3>2 DEF CommittedOn, NumbersInv, OfCell
    <3> QED BY <1>3, <3>3
  <2>3. CellCount(Append(log, f)) = CellCount(log) + 1
    BY <1>1, <1>5, AppendCounts
  <2> QED BY <1>3, <1>5, <2>1, <2>2, <2>3
<1>10. CASE log' = log /\ st' = st /\ verdict' = verdict
  <2>1. Onward /\ HeadsStand
    BY <1>10 DEF Onward, HeadsStand
  <2> QED BY <1>1, <1>10, <2>1, VerdictsKept
<1>11. CASE log' = Append(log, f) /\ st' = st /\ verdict' = [verdict EXCEPT ![c] = "failed"]
  BY <1>2, <1>7, <1>8, <1>9, <1>11, VerdictGiven
<1>12. CASE log' = Append(log, f) /\ st' = [st EXCEPT ![s] = r] /\ verdict' = verdict
  <2>1. \A t \in Handles : st'[t] = IF t = s THEN r ELSE st[t]
    BY <1>1, <1>12
  <2>2. FailuresIn(log, verdict)'
    BY <1>7, <1>12 DEF FailuresIn
  <2>3. \A t \in Handles : st'[t].pc # "idle" => st'[t].cell = c
    BY <1>2, <1>6, <2>1
  <2>4. verdict' = [d \in 1..MaxCells |-> verdict'[d]]
    BY <1>12 DEF VerdictInv
  <2> QED BY <1>8, <1>9, <1>12, <2>2, <2>3, <2>4 DEF VerdictInv
<1> QED BY <1>2, <1>10, <1>11, <1>12

\* The cell fails, or goes on.
LEMMA SubmitEvalVerdict ==
    ASSUME SessionInv, VerdictInv, NEW s \in Handles, SubmitEval(s)
    PROVE  VerdictInv'
<1> DEFINE c == st[s].cell
           ranE == RunCell(st[s].eval, c)
           ranR == RunCell(st[s].rt, c)
           r == IF Fresh THEN [st[s] EXCEPT !.eval = ranE] ELSE [st[s] EXCEPT !.rt = ranR]
           q == [r EXCEPT !.pc = "commit"]
           f == CellEvaluated(r.branch, c)
<1>1. /\ log \in Seq(Facts) /\ st = [t \in Handles |-> st[t]]
      /\ HandleInv(log, st[s]) /\ FailuresIn(log, verdict)
  BY DEF SessionInv, LogInv, VerdictInv
<1>2. /\ st[s].pc = "eval"
      /\ \/ FailSubmit(s, r)
         \/ log' = Append(log, f) /\ st' = [st EXCEPT ![s] = q] /\ verdict' = verdict
  BY DEF SubmitEval
<1>3. IsHandle(st[s])
  BY <1>1 DEF HandleInv
<1>4. /\ IsHandle(r) /\ r.branch = st[s].branch /\ r.head = st[s].head /\ r.cell = c
  <2> HIDE DEF ranE, ranR
  <2> QED BY <1>3 DEF IsHandle
<1> HIDE DEF r
<1>5. CASE FailSubmit(s, r)
  BY <1>2, <1>4, <1>5, FailSubmitVerdict
<1>6. CASE log' = Append(log, f) /\ st' = [st EXCEPT ![s] = q] /\ verdict' = verdict
  <2>1. q.cell = c /\ q.pc = "commit"
    BY <1>4 DEF IsHandle
  <2> HIDE DEF q
  <2>2. Onward
    BY <1>1, <1>2, <1>6, <2>1 DEF Onward
  <2>3. f \in Facts /\ f.type = "CellEvaluated"
    BY <1>3, <1>4, FactShapes DEF IsHandle, CellEvaluated
  <2> HIDE DEF f
  <2>4. FailuresIn(log', verdict) /\ HeadsStand
    BY <1>1, <1>6, <2>3, FailuresStay, NoHead
  <2> QED BY <1>6, <2>2, <2>4, VerdictsKept
<1> QED BY <1>2, <1>5, <1>6

\* The cell fails, or is committed.
LEMMA SubmitCommitVerdict ==
    ASSUME SessionInv, VerdictInv, NEW s \in Handles, SubmitCommit(s)
    PROVE  VerdictInv'
<1> DEFINE c == st[s].cell
           q == [st[s] EXCEPT !.pc = "move"]
           f == CellCommitted(st[s].branch, c)
<1>1. /\ log \in Seq(Facts) /\ st = [t \in Handles |-> st[t]]
      /\ HandleInv(log, st[s]) /\ FailuresIn(log, verdict)
  BY DEF SessionInv, LogInv, VerdictInv
<1>2. /\ st[s].pc = "commit"
      /\ \/ FailSubmit(s, st[s])
         \/ log' = Append(log, f) /\ st' = [st EXCEPT ![s].pc = "move"] /\ verdict' = verdict
  BY DEF SubmitCommit
<1>3. IsHandle(st[s])
  BY <1>1 DEF HandleInv
<1>5. CASE FailSubmit(s, st[s])
  BY <1>2, <1>3, <1>5, FailSubmitVerdict
<1>6. CASE log' = Append(log, f) /\ st' = [st EXCEPT ![s].pc = "move"] /\ verdict' = verdict
  <2>1. q.cell = c /\ q.pc = "move" /\ st' = [st EXCEPT ![s] = q]
    BY <1>3, <1>6 DEF IsHandle
  <2> HIDE DEF q
  <2>2. Onward
    BY <1>1, <1>2, <2>1 DEF Onward
  <2>3. f \in Facts /\ f.type = "CellCommitted"
    BY <1>3, FactShapes DEF IsHandle, CellCommitted
  <2> HIDE DEF f
  <2>4. FailuresIn(log', verdict) /\ HeadsStand
    BY <1>1, <1>6, <2>3, FailuresStay, NoHead
  <2> QED BY <1>6, <2>2, <2>4, VerdictsKept
<1> QED BY <1>2, <1>5, <1>6

\* The head moves, or the submit fails although its cell is committed.
LEMMA SubmitMoveVerdict ==
    ASSUME SessionInv, VerdictInv, NEW s \in Handles, SubmitMove(s)
    PROVE  VerdictInv'
<1> DEFINE c == st[s].cell
           f == HeadMoved(st[s].branch, st[s].head, c)
<1>1. /\ log \in Seq(Facts) /\ TurnInv /\ st = [t \in Handles |-> st[t]]
      /\ HandleInv(log, st[s]) /\ FailuresIn(log, verdict)
  BY DEF SessionInv, LogInv, VerdictInv
<1>2. st[s].pc = "move" /\ IsHandle(st[s])
  BY <1>1 DEF SubmitMove, HandleInv
<1>3. CASE FailSubmit(s, st[s])
  BY <1>2, <1>3, FailSubmitVerdict
<1>4. CASE /\ log' = Append(log, f)
           /\ \E q : st' = [st EXCEPT ![s] = q] /\ q.pc = "idle"
           /\ \E v \in {"ok", "error"} : verdict' = [verdict EXCEPT ![c] = v]
  <2>1. PICK v \in {"ok", "error"} : verdict' = [verdict EXCEPT ![c] = v]
    BY <1>4
  <2>2. PICK q : st' = [st EXCEPT ![s] = q] /\ q.pc = "idle"
    BY <1>4
  <2>3. \A t \in Handles : st'[t].pc = "idle"
    BY <1>1, <1>2, <2>2 DEF TurnInv
  <2>4. f \in Facts /\ f.cell = c
    BY <1>2, FactShapes DEF IsHandle, HeadMoved
  <2>5. c \in 1..MaxCells /\ verdict[c] # "failed"
    BY <1>2 DEF VerdictInv
  <2> HIDE DEF f, c
  <2>6. FailuresIn(log', verdict)
    BY <1>1, <1>4, <2>4, <2>5, FailuresStay
  <2> QED BY <2>1, <2>3, <2>5, <2>6, VerdictGiven
<1> QED BY <1>2, <1>3, <1>4, MoveHandle

\* A handle that was just loaded is idle.
LEMMA InstallIdle ==
    ASSUME NEW b, NEW h, NEW rt, NEW index
    PROVE  Install(b, h, rt, index).pc = "idle"
<1> DEFINE hash == rt.hash
           none == NoRuntime
<1>1. Install(b, h, rt, index) =
         [[open |-> FALSE, pc |-> "idle", branch |-> NoBranch, head |-> NoCell,
           hash |-> "none", index |-> 0, dirty |-> FALSE, rt |-> none,
           cell |-> NoCell, eval |-> none]
          EXCEPT !.open = TRUE, !.branch = b, !.head = h, !.hash = hash,
                 !.index = index, !.rt = rt]
  BY Zenon DEF Install, Closed
<1> HIDE DEF hash, none
<1> QED BY <1>1

\* Restores, forks and openings.
LEMMA LoadVerdict ==
    ASSUME SessionInv, VerdictInv, NEW s \in Handles,
           Open(s) \/ \E c \in 1..MaxCells : Restore(s, c) \/ Fork(s, c)
    PROVE  VerdictInv'
<1>1. log \in Seq(Facts) /\ LogInv(log) /\ FailuresIn(log, verdict)
  BY DEF SessionInv, LogInv, VerdictInv
<1>2. Onward
  <2>1. CASE Open(s)
    <3> DEFINE cur == LoadSessionState(log)
               r == IF cur.head = NoCell
                    THEN Install(cur.branch, NoCell, NewRuntime(cur.hash), 0)
                    ELSE Loaded(cur.branch, cur.head)
    <3>1. st' = [st EXCEPT ![s] = r]
      BY <2>1 DEF Open
    <3>2. r.pc = "idle"
      BY InstallIdle DEF Loaded, LoadedFrom
    <3> HIDE DEF r
    <3> QED BY <3>1, <3>2, IdleOnward
  <2>2. CASE \E c \in 1..MaxCells : Restore(s, c) \/ Fork(s, c)
    <3>1. PICK c \in 1..MaxCells : Restore(s, c) \/ Fork(s, c)
      BY <2>2
    <3>2. st' = st \/ \E b : st' = [st EXCEPT ![s] = Loaded(b, c)]
      BY <3>1 DEF Restore, Fork
    <3>3. \A b : Loaded(b, c).pc = "idle"
      BY InstallIdle DEF Loaded, LoadedFrom
    <3>4. CASE st' = st
      BY <3>4 DEF Onward
    <3>5. CASE \E b : st' = [st EXCEPT ![s] = Loaded(b, c)]
      BY <3>3, <3>5, IdleOnward
    <3> QED BY <3>2, <3>4, <3>5
  <2> QED BY <2>1, <2>2
<1>3. verdict' = verdict
  BY DEF Open, Restore, Fork
<1>4. FailuresIn(log', verdict) /\ HeadsStand
  <2>1. CASE Open(s)
    BY <1>1, <2>1 DEF Open, HeadsStand
  <2>2. CASE \E c \in 1..MaxCells : Restore(s, c) \/ Fork(s, c)
    <3>1. PICK c \in 1..MaxCells : Restore(s, c) \/ Fork(s, c)
      BY <2>2
    <3> DEFINE b == NextBranch
               f == BranchCreated(b, c)
               g == RestoreCompleted(c, b)
               h == RestoreCompleted(c, NoBranch)
    <3>2. log' = log \/ log' = Append(log, h) \/ log' = Append(log, f) \/ log' = Append(Append(log, f), g)
      BY <3>1 DEF Restore, Fork
    <3>3. b \in Nat /\ c \in Nat
      <4>1. Cardinality(OfType(log, "BranchCreated")) \in Nat
        BY <1>1, Positions
      <4>2. b \in Nat
        BY <4>1 DEF NextBranch, RootBranch
      <4> QED BY <4>2
    <3> HIDE DEF b
    <3>4. /\ f \in Facts /\ g \in Facts /\ h \in Facts
          /\ "HeadMoved" \notin {f.type, g.type, h.type}
      BY <3>3, FactShapes DEF BranchCreated, RestoreCompleted, NoBranch
    <3> HIDE DEF f, g, h
    <3>5. FailuresIn(Append(log, f), verdict) /\ FailuresIn(Append(log, h), verdict)
      BY <1>1, <3>4, FailuresStay
    <3>6. FailuresIn(Append(Append(log, f), g), verdict)
      <4>1. Append(log, f) \in Seq(Facts)
        BY <1>1, <3>4
      <4> QED BY <3>4, <3>5, <4>1, FailuresStay
    <3>7. HeadsStand
      <4>1. \A e : OfCell(Append(log, f), "HeadMoved", e) = OfCell(log, "HeadMoved", e)
        BY <1>1, <3>4, OtherFact
      <4>2. Append(log, f) \in Seq(Facts)
        BY <1>1, <3>4
      <4>3. \A e : OfCell(Append(Append(log, f), g), "HeadMoved", e) = OfCell(log, "HeadMoved", e)
        BY <3>4, <4>1, <4>2, OtherFact
      <4>4. CASE log' = Append(Append(log, f), g)
        BY <4>3, <4>4 DEF HeadsStand
      <4>5. CASE log' # Append(Append(log, f), g)
        BY <1>1, <3>2, <3>4, <4>5, NoHead
      <4> QED BY <4>4, <4>5
    <3> QED BY <1>1, <3>2, <3>5, <3>6, <3>7
  <2> QED BY <2>1, <2>2
<1> QED BY <1>2, <1>3, <1>4, VerdictsKept

\* Transitions.
LEMMA TransitionVerdict ==
    ASSUME SessionInv, VerdictInv, NEW s \in Handles, NEW h \in Hashes, Transition(s, h)
    PROVE  VerdictInv'
<1> DEFINE r == Cleaned(log, s)
           rt == ApplyTransition(log, r.rt, h, r.index)
           x == [r EXCEPT !.rt = rt, !.dirty = TRUE]
           y == [r EXCEPT !.rt = rt, !.hash = h]
           f == RuntimeTransitioned(r.branch, r.head, h)
<1>1. log \in Seq(Facts) /\ HandleInv(log, st[s]) /\ FailuresIn(log, verdict)
  BY DEF SessionInv, LogInv, VerdictInv
<1>2. /\ st[s].pc = "idle" /\ verdict' = verdict
      /\ log' = log \/ log' = Append(log, f)
      /\ \/ st' = [st EXCEPT ![s] = r] \/ st' = [st EXCEPT ![s] = x]
         \/ st' = [st EXCEPT ![s] = y]
  BY DEF Transition, Turn
<1>3. IsHandle(r) /\ r.pc = "idle"
  BY <1>1, <1>2, CleanedHandle DEF HandleInv
<1> HIDE DEF r
<1>4. x.pc = "idle" /\ y.pc = "idle"
  <2> HIDE DEF rt
  <2> QED BY <1>3 DEF IsHandle
<1>5. f \in Facts /\ f.type = "RuntimeTransitioned"
  BY <1>3, FactShapes DEF IsHandle, RuntimeTransitioned
<1> HIDE DEF f, x, y
<1>6. Onward
  BY <1>2, <1>3, <1>4, IdleOnward
<1>7. FailuresIn(log', verdict) /\ HeadsStand
  BY <1>1, <1>2, <1>5, FailuresStay, NoHead
<1> QED BY <1>2, <1>6, <1>7, VerdictsKept

\* A submit that is cut off is lost, not failed.
LEMMA StopVerdict ==
    ASSUME SessionInv, VerdictInv, NEW s \in Handles, Stop(s)
    PROVE  VerdictInv'
<1> DEFINE c == st[s].cell
<1>1. /\ st' = [st EXCEPT ![s] = Closed] /\ log' = log
      /\ verdict' = verdict \/ verdict' = [verdict EXCEPT ![c] = "lost"]
  BY DEF Stop
<1>2. FailuresIn(log, verdict) /\ verdict = [d \in 1..MaxCells |-> verdict[d]]
  BY DEF VerdictInv
<1>3. Onward
  BY <1>1, ClosedHandle, IdleOnward
<1> HIDE DEF c
<1>4. /\ verdict' = [d \in 1..MaxCells |-> verdict'[d]]
      /\ \A d \in 1..MaxCells : verdict'[d] = "failed" => verdict[d] = "failed"
  BY <1>1, <1>2
<1>5. FailuresIn(log, verdict)'
  BY <1>1, <1>2, <1>4 DEF FailuresIn
<1>6. HeadsStand
  BY <1>1 DEF HeadsStand
<1>7. \A t \in Handles : st'[t].pc # "idle" =>
         /\ st'[t].cell \in 1..MaxCells /\ verdict'[st'[t].cell] # "failed"
         /\ OfCell(log', "HeadMoved", st'[t].cell) = {}
  BY <1>3, <1>4, <1>6 DEF VerdictInv, Onward, HeadsStand
<1> QED BY <1>4, <1>5, <1>7 DEF VerdictInv

\* The cell of a submit that reported a failure is never a head, and the one way it
\* gets into a replay is a durable CellCommitted without its HeadMoved: for any
\* number of handles, cells and branches, with any append failing at any moment,
\* that of HeadMoved included, in both runtime modes, across crashes, restores and
\* forks.
THEOREM FailedCellsInvariant == Spec => []FailedCellsAreNoHeads
<1>1. Init => VerdictInv
  <2> SUFFICES ASSUME Init PROVE VerdictInv
    OBVIOUS
  <2>1. verdict = [c \in 1..MaxCells |-> "none"]
    BY DEF Init
  <2>2. \A s \in Handles : st[s].pc = "idle"
    <3>1. PICK s \in Handles : st = [h \in Handles |-> IF h = s
                  THEN Install(RootBranch, NoCell, NewRuntime(InitialHash), 0) ELSE Closed]
      BY DEF Init
    <3>2. Install(RootBranch, NoCell, NewRuntime(InitialHash), 0).pc = "idle" /\ Closed.pc = "idle"
      BY InstallIdle, ClosedHandle
    <3> QED BY <3>1, <3>2
  <2> QED BY <2>1, <2>2 DEF VerdictInv, FailuresIn
<1>2. SessionInv /\ VerdictInv /\ [Next]_vars => VerdictInv'
  <2> SUFFICES ASSUME SessionInv, VerdictInv, [Next]_vars PROVE VerdictInv'
    OBVIOUS
  <2>1. CASE UNCHANGED vars
    BY <2>1 DEF vars, VerdictInv, FailuresIn
  <2>2. CASE Next
    <3>1. PICK s \in Handles :
             \/ \E k \in Kinds : SubmitCheck(s, k)
             \/ SubmitEval(s) \/ SubmitCommit(s) \/ SubmitMove(s)
             \/ \E c \in 1..MaxCells : Restore(s, c) \/ Fork(s, c)
             \/ Open(s) \/ Stop(s)
             \/ \E h \in Hashes : Transition(s, h)
      BY <2>2 DEF Next
    <3>2. CASE \E k \in Kinds : SubmitCheck(s, k)
      BY <3>2, SubmitCheckVerdict
    <3>3. CASE SubmitEval(s) \/ SubmitCommit(s) \/ SubmitMove(s)
      BY <3>3, SubmitEvalVerdict, SubmitCommitVerdict, SubmitMoveVerdict
    <3>4. CASE Open(s) \/ \E c \in 1..MaxCells : Restore(s, c) \/ Fork(s, c)
      BY <3>4, LoadVerdict
    <3>5. CASE Stop(s) \/ \E h \in Hashes : Transition(s, h)
      BY <3>5, StopVerdict, TransitionVerdict
    <3> QED BY <3>1, <3>2, <3>3, <3>4, <3>5
  <2> QED BY <2>1, <2>2
<1>3. SessionInv /\ VerdictInv => FailedCellsAreNoHeads
  <2> SUFFICES ASSUME SessionInv, VerdictInv, NEW c \in 1..MaxCells, verdict[c] = "failed"
               PROVE  /\ c \notin MovedCells(log)
                      /\ \A d \in MovedCells(log) :
                            c \in Range(LoadReplayPlan(log, d).steps) => c \in CommittedCells(log)
    BY DEF FailedCellsAreNoHeads
  <2>1. LogInv(log)
    BY DEF SessionInv
  <2>2. OfCell(log, "HeadMoved", c) = {}
    BY DEF VerdictInv, FailuresIn
  <2>3. c \notin MovedCells(log)
    BY <2>2 DEF MovedCells, OfCell
  <2>4. \A d \in MovedCells(log) :
           c \in Range(LoadReplayPlan(log, d).steps) => c \in CommittedCells(log)
    BY <2>1, StepsAreCommitted
  <2> QED BY <2>3, <2>4
<1> QED BY <1>1, <1>2, <1>3, SessionInvariant, PTL DEF Spec

-----------------------------------------------------------------------------
(* What is appended changes no plan. *)

\* The smallest position stays the smallest.
LEMMA MinStays ==
    ASSUME NEW S \in SUBSET Nat, S # {}, NEW n \in Nat, \A x \in S : x < n
    PROVE  Min(S \cup {n}) = Min(S)
<1> DEFINE T == S \cup {n}
<1>1. T \in SUBSET Nat /\ T # {}
  OBVIOUS
<1>2. Min(S) \in S /\ \A y \in S : Min(S) <= y
  BY MinProperties
<1>3. Min(T) \in T /\ \A y \in T : Min(T) <= y
  <2> HIDE DEF T
  <2> QED BY <1>1, MinProperties
<1>4. Min(S) \in T /\ Min(S) < n /\ Min(S) \in Nat /\ Min(T) \in Nat
  BY <1>1, <1>2, <1>3
<1>5. Min(T) \in S
  BY <1>3, <1>4
<1>6. Min(S) <= Min(T) /\ Min(T) <= Min(S)
  BY <1>2, <1>3, <1>4, <1>5
<1> QED BY <1>4, <1>6 DEF T

\* The facts at old positions are the old facts; a new one comes last.
LEMMA FactsAtStays ==
    ASSUME NEW l \in Seq(Facts), NEW f \in Facts, NEW S \in SUBSET DOMAIN l
    PROVE  /\ FactsAt(l, S) \in Seq(Facts)
           /\ FactsAt(Append(l, f), S) = FactsAt(l, S)
           /\ FactsAt(Append(l, f), S \cup {Len(l) + 1}) = Append(FactsAt(l, S), f)
<1> DEFINE m == Append(l, f)
           n == Len(l) + 1
           o == InOrder(S)
           T == S \cup {n}
<1>1. /\ n \in Nat /\ m[n] = f /\ \A i \in DOMAIN l : m[i] = l[i] /\ i < n
      /\ S \in SUBSET Nat /\ IsFiniteSet(S) /\ \A i \in DOMAIN l : l[i] \in Facts
  BY AppendFact, Positions
<1>2. o \in Seq(S)
  BY <1>1, InOrderDistinct
<1>3. Len(o) \in Nat /\ DOMAIN o = 1..Len(o) /\ \A k \in 1..Len(o) : o[k] \in DOMAIN l
  <2> HIDE DEF o
  <2> QED BY <1>2
<1>4. InOrder(T) = Append(o, n)
  <2> HIDE DEF m, n
  <2> QED BY <1>1, InOrderAppend
<1> DEFINE s == FactsAt(l, S)
           w == Append(o, n)
<1>5. /\ s = [k \in DOMAIN o |-> l[o[k]]]
      /\ FactsAt(m, S) = [k \in DOMAIN o |-> m[o[k]]]
      /\ FactsAt(m, T) = [k \in DOMAIN w |-> m[w[k]]]
  BY <1>4, Zenon DEF FactsAt
<1> HIDE DEF o, s, T, n, m
<1>6. s \in Seq(Facts) /\ Len(s) = Len(o) /\ \A k \in 1..Len(o) : s[k] = l[o[k]]
  BY <1>1, <1>3, <1>5
<1>7. FactsAt(m, S) = s
  BY <1>1, <1>3, <1>5
<1>8. FactsAt(m, T) = Append(s, f)
  <2>1. o \in Seq(Nat)
    <3>1. \A k \in 1..Len(o) : o[k] \in Nat
      BY <1>1, <1>2, <1>3
    <3> QED BY <1>2, <1>3, <3>1
  <2>2. /\ DOMAIN w = 1..(Len(o) + 1) /\ w[Len(o) + 1] = n
        /\ \A k \in 1..Len(o) : w[k] = o[k]
    BY <1>1, <1>3, <2>1
  <2> DEFINE a == Append(s, f)
  <2>3. /\ DOMAIN a = 1..(Len(o) + 1) /\ a[Len(o) + 1] = f
        /\ \A k \in 1..Len(o) : a[k] = s[k]
        /\ a = [k \in 1..(Len(o) + 1) |-> a[k]]
    <3>1. a \in Seq(Facts) /\ Len(a) = Len(o) + 1 /\ a[Len(o) + 1] = f
      BY <1>3, <1>6
    <3>2. \A k \in 1..Len(o) : a[k] = s[k]
      BY <1>3, <1>6
    <3> HIDE DEF a
    <3> QED BY <3>1, <3>2
  <2> HIDE DEF a, w
  <2>4. \A k \in 1..(Len(o) + 1) : m[w[k]] = a[k]
    <3> TAKE k \in 1..(Len(o) + 1)
    <3>1. CASE k = Len(o) + 1
      BY <1>1, <2>2, <2>3, <3>1
    <3>2. CASE k # Len(o) + 1
      <4>1. k \in 1..Len(o)
        BY <1>3, <3>2
      <4> QED BY <1>1, <1>3, <1>6, <2>2, <2>3, <4>1
    <3> QED BY <3>1, <3>2
  <2>5. FactsAt(m, T) = [k \in 1..(Len(o) + 1) |-> m[w[k]]]
    BY <1>5, <2>2
  <2> QED BY <2>3, <2>4, <2>5 DEF a
<1> QED BY <1>6, <1>7, <1>8 DEF s, T, n, m

\* The commits of a branch grow at their end.
LEMMA CommitsGrow ==
    ASSUME NEW l \in Seq(Facts), NEW f \in Facts, NEW b
    PROVE  /\ Commits(l, b) \in Seq(Facts)
           /\ Commits(Append(l, f), b) = IF f.type = "CellCommitted" /\ f.branch = b
                                         THEN Append(Commits(l, b), f) ELSE Commits(l, b)
<1> DEFINE S == OnBranch(l, "CellCommitted", b)
<1>1. \A t, x : OnBranch(Append(l, f), t, x) = OnBranch(l, t, x) \cup
                   (IF f.type = t /\ f.branch = x THEN {Len(l) + 1} ELSE {})
  BY AppendFact
<1>2. OnBranch(Append(l, f), "CellCommitted", b) =
         S \cup (IF f.type = "CellCommitted" /\ f.branch = b THEN {Len(l) + 1} ELSE {})
  BY <1>1
<1>3. S \in SUBSET DOMAIN l
  BY Positions
<1> HIDE DEF S
<1>4. /\ FactsAt(l, S) \in Seq(Facts)
      /\ FactsAt(Append(l, f), S) = FactsAt(l, S)
      /\ FactsAt(Append(l, f), S \cup {Len(l) + 1}) = Append(FactsAt(l, S), f)
  BY <1>3, FactsAtStays
<1> QED BY <1>2, <1>4 DEF Commits, S

\* Up to a cell that is there, more does not matter.
LEMMA UpToStays ==
    ASSUME NEW s \in Seq(Facts), NEW f \in Facts, NEW stop,
           NEW k \in DOMAIN s, s[k].cell = stop
    PROVE  UpTo(Append(s, f), stop) = UpTo(s, stop)
<1> DEFINE w == Append(s, f)
           n == Len(s) + 1
           S == {i \in DOMAIN s : s[i].cell = stop}
           T == {i \in DOMAIN w : w[i].cell = stop}
<1>1. /\ Len(s) \in Nat /\ DOMAIN s = 1..Len(s) /\ w \in Seq(Facts) /\ Len(w) = n
      /\ DOMAIN w = 1..n /\ \A i \in 1..Len(s) : w[i] = s[i]
  OBVIOUS
<1>2. S \in SUBSET Nat /\ S # {} /\ (\A x \in S : x < n) /\ S \in SUBSET (1..Len(s))
  BY <1>1
<1>3. T = S \/ T = S \cup {n}
  BY <1>1
<1> HIDE DEF S, T, w
<1>4. Min(T) = Min(S) /\ T # {}
  BY <1>1, <1>2, <1>3, MinStays
<1>5. Min(S) \in 1..Len(s)
  BY <1>2, MinProperties
<1>6. UpTo(w, stop) = SubSeq(w, 1, Min(S)) /\ UpTo(s, stop) = SubSeq(s, 1, Min(S))
  BY <1>2, <1>4, Zenon DEF UpTo, S, T
<1>7. SubSeq(w, 1, Min(S)) = SubSeq(s, 1, Min(S))
  BY <1>1, <1>5
<1> QED BY <1>6, <1>7 DEF w

\* A cell committed on a branch is among its commits.
LEMMA CommitListed ==
    ASSUME NEW l \in Seq(Facts), NEW b, NEW c, CommittedOn(l, b, c)
    PROVE  \E k \in DOMAIN Commits(l, b) : Commits(l, b)[k].cell = c
<1> DEFINE S == OnBranch(l, "CellCommitted", b)
           o == InOrder(S)
<1>1. S \in SUBSET Nat /\ IsFiniteSet(S)
  BY Positions
<1>2. PICK i \in S : l[i].cell = c
  BY DEF CommittedOn, OnBranch, OfCell
<1> HIDE DEF S
<1>3. \E k \in DOMAIN o : o[k] = i
  BY <1>1, InOrderProperties
<1>4. Commits(l, b) = [k \in DOMAIN o |-> l[o[k]]]
  BY Zenon DEF Commits, FactsAt, S
<1> HIDE DEF o
<1> QED BY <1>2, <1>3, <1>4

\* The commits up to a cell that is among them never change.
LEMMA CommitsUpToStay ==
    ASSUME NEW l \in Seq(Facts), NEW f \in Facts, NEW b, NEW c, CommittedOn(l, b, c)
    PROVE  committedCellsUpTo(Append(l, f), b, c) = committedCellsUpTo(l, b, c)
<1> DEFINE s == Commits(l, b)
           w == Commits(Append(l, f), b)
<1>1. s \in Seq(Facts) /\ (w = s \/ w = Append(s, f))
  BY CommitsGrow
<1>2. PICK k \in DOMAIN s : s[k].cell = c
  BY CommitListed
<1> HIDE DEF s, w
<1>3. UpTo(Append(s, f), c) = UpTo(s, c)
  BY <1>1, <1>2, UpToStays
<1> QED BY <1>1, <1>3 DEF committedCellsUpTo, s, w

\* The path to a branch stays, down to the root.
LEMMA AboveStays ==
    ASSUME NEW l, LogInv(l), NEW f \in Facts, LogInv(Append(l, f)),
           NEW n \in Nat, Created(l, n)
    PROVE  Above(Append(l, f), n) = Above(l, n)
<1> DEFINE m == Append(l, f)
           K(x) == OnBranch(l, "BranchCreated", x)
           J(x) == OnBranch(m, "BranchCreated", x)
           Bad == {x \in 1..n : Created(l, x) /\ Above(m, x) # Above(l, x)}
<1>1. /\ l \in Seq(Facts) /\ m \in Seq(Facts) /\ LogInv(m) /\ NumbersInv(l) /\ NumbersInv(m)
  <2>1. LogInv(m)
    OBVIOUS
  <2> HIDE DEF m
  <2> QED BY <2>1 DEF LogInv
<1>2. \A t, x : OnBranch(m, t, x) = OnBranch(l, t, x) \cup
                   (IF f.type = t /\ f.branch = x THEN {Len(l) + 1} ELSE {})
  BY <1>1, AppendFact
<1>3. \A x : J(x) = K(x) \cup (IF f.type = "BranchCreated" /\ f.branch = x
                               THEN {Len(l) + 1} ELSE {})
  BY <1>2
<1>4. Bad = {}
  <2> SUFFICES ASSUME Bad # {} PROVE FALSE
    OBVIOUS
  <2> DEFINE k == Min(Bad)
  <2>1. k \in Bad /\ \A y \in Bad : k <= y
    <3>1. Bad \in SUBSET Nat
      OBVIOUS
    <3> HIDE DEF Bad
    <3> QED BY <3>1, MinProperties
  <2>2. k \in 1..n /\ k \in Nat \ {0} /\ Created(l, k) /\ Above(m, k) # Above(l, k)
    BY <2>1
  <2> HIDE DEF k, K, J, m
  <2>3. CASE K(k) = {}
    <3>1. k = RootBranch
      BY <2>2, <2>3 DEF Created, K
    <3>2. J(k) = {}
      BY <1>1, <3>1 DEF J, NumbersInv, OnBranch, RootBranch
    <3>3. Above(m, k) = <<>> /\ Above(l, k) = <<>>
      BY <1>1, <2>2, <2>3, <3>2, AboveUnfold DEF K, J
    <3> QED BY <2>2, <3>3
  <2>4. CASE K(k) # {}
    <3>1. J(k) # {} /\ Min(J(k)) = Min(K(k))
      <4>1. /\ K(k) \in SUBSET Nat /\ Len(l) + 1 \in Nat /\ \A x \in K(k) : x < Len(l) + 1
        BY <1>1, Positions DEF K
      <4>2. Min(K(k) \cup {Len(l) + 1}) = Min(K(k))
        BY <2>4, <4>1, MinStays
      <4>3. J(k) = K(k) \/ J(k) = K(k) \cup {Len(l) + 1}
        BY <1>3
      <4> QED BY <2>4, <4>2, <4>3
    <3> DEFINE g == ForkOf(l, k)
    <3>2. /\ g = [branch |-> g.branch, stop |-> g.stop, cutoff |-> Min(K(k))]
          /\ g.branch \in 1..(k - 1) /\ CommittedOn(l, g.branch, g.stop)
          /\ Created(l, g.branch)
      BY <2>2, <2>4, ForkProperties DEF K
    <3>3. g.stop = l[Min(K(k))].cell
      BY DEF ForkOf, ForkedFrom, K
    <3>4. m[Min(K(k))] = l[Min(K(k))]
      <4>1. Min(K(k)) \in DOMAIN l
        <5>1. K(k) \in SUBSET Nat /\ K(k) \in SUBSET DOMAIN l
          BY <1>1, Positions DEF K
        <5> QED BY <2>4, <5>1, MinProperties
      <4> QED BY <1>1, <4>1, AppendFact DEF m
    <3>5. branchForCell(m, g.stop) = g.branch
      <4>1. CommittedOn(m, g.branch, g.stop)
        BY <1>1, <3>2, KnownStays DEF m
      <4> HIDE DEF g
      <4> QED BY <1>1, <4>1, BranchForCell
    <3>6. ForkOf(m, k) = g
      <4>1. ForkOf(m, k) = [branch |-> branchForCell(m, m[Min(J(k))].cell),
                            stop |-> m[Min(J(k))].cell, cutoff |-> Min(J(k))]
        BY DEF ForkOf, ForkedFrom, J
      <4> HIDE DEF g
      <4> QED BY <3>1, <3>2, <3>3, <3>4, <3>5, <4>1
    <3> HIDE DEF g
    <3>7. /\ Above(m, k) = Append(Above(m, g.branch), g)
          /\ Above(l, k) = Append(Above(l, g.branch), g)
      BY <1>1, <2>2, <2>4, <3>1, <3>6, AboveUnfold DEF K, J, g
    <3>8. g.branch \in Bad
      BY <2>2, <3>2, <3>7
    <3> HIDE DEF Bad
    <3> QED BY <2>1, <2>2, <3>2, <3>8
  <2> QED BY <2>3, <2>4
<1>5. n \in 1..n
  BY CreatedNumber
<1> QED BY <1>4, <1>5

\* What a plan is made of: the path to the branch of its cell, and the cells committed
\* along it.
SegmentCells(l, segs) ==
    [i \in DOMAIN segs |-> committedCellsUpTo(l, segs[i].branch, segs[i].stop)]

\* A path: the branches above have smaller numbers.
LEMMA SegmentsShape ==
    ASSUME NEW l, LogInv(l), NEW b \in Nat, Created(l, b), NEW c \in Nat, CommittedOn(l, b, c)
    PROVE  LET segs == Segments(l, b, c)
               n == Len(Above(l, b)) + 1
           IN  /\ n \in Nat \ {0} /\ DOMAIN segs = 1..n
               /\ segs[n] = [branch |-> b, stop |-> c, cutoff |-> Len(l)]
               /\ \A i \in 1..(n - 1) : segs[i] = Above(l, b)[i] /\ segs[i] \in Forks(l, b)
               /\ \A i \in 1..n : CommittedOn(l, segs[i].branch, segs[i].stop)
               /\ segs \in Seq([branch : Nat, stop : Nat, cutoff : Nat])
<1> DEFINE a == Above(l, b)
           x == [branch |-> b, stop |-> c, cutoff |-> Len(l)]
           Segs == [branch : Nat, stop : Nat, cutoff : Nat]
<1>1. b \in Nat \ {0} /\ l \in Seq(Facts)
  BY CreatedNumber DEF LogInv
<1>2. a \in Seq(Forks(l, b))
  BY <1>1, AboveIsSequence
<1>3. Forks(l, b) \subseteq Segs /\ x \in Segs
  <2>1. DOMAIN l \in SUBSET Nat /\ Len(l) \in Nat
    BY <1>1, Positions
  <2> QED BY <1>1, <2>1 DEF Forks
<1>4. x.branch = b /\ x.stop = c
  OBVIOUS
<1> HIDE DEF a, x, Segs
<1>5. a \in Seq(Segs)
  BY <1>2, <1>3
<1> DEFINE segs == Append(a, x)
           n == Len(a) + 1
<1>6. /\ Len(a) \in Nat /\ n \in Nat \ {0} /\ segs \in Seq(Segs) /\ Len(segs) = n /\ segs[n] = x
      /\ \A i \in 1..Len(a) : segs[i] = a[i]
  BY <1>3, <1>5
<1>7. DOMAIN segs = 1..n /\ (n - 1) = Len(a)
  BY <1>6
<1> HIDE DEF segs, n
<1>8. \A i \in 1..(n - 1) : segs[i] = a[i] /\ segs[i] \in Forks(l, b)
  BY <1>2, <1>6, <1>7
<1>9. \A g \in Forks(l, b) : CommittedOn(l, g.branch, g.stop)
  BY DEF Forks
<1>10. \A i \in 1..n : CommittedOn(l, segs[i].branch, segs[i].stop)
  <2> TAKE i \in 1..n
  <2>1. i \in 1..(n - 1) \/ i = n
    BY <1>6
  <2>2. CASE i = n
    BY <1>4, <1>6, <2>2
  <2>3. CASE i \in 1..(n - 1)
    BY <1>8, <1>9, <2>3
  <2> QED BY <2>1, <2>2, <2>3
<1>11. Segments(l, b, c) = segs
  BY DEF Segments, segs, a, x
<1> QED BY <1>6, <1>7, <1>8, <1>10, <1>11 DEF n, a, x, Segs

\* The path of a cell stays, but for the end of its last part.
LEMMA SegmentsStay ==
    ASSUME NEW l, LogInv(l), NEW f \in Facts, LogInv(Append(l, f)),
           NEW b \in Nat, Created(l, b), NEW c \in Nat, CommittedOn(l, b, c)
    PROVE  LET segs == Segments(l, b, c)
               later == Segments(Append(l, f), b, c)
               n == Len(Above(l, b)) + 1
           IN  /\ DOMAIN later = 1..n
               /\ later[n] = [branch |-> b, stop |-> c, cutoff |-> Len(l) + 1]
               /\ \A i \in 1..(n - 1) : later[i] = segs[i]
<1> DEFINE m == Append(l, f)
<1>1. l \in Seq(Facts) /\ LogInv(m)
  BY DEF LogInv
<1>2. Created(m, b) /\ CommittedOn(m, b, c) /\ Len(m) = Len(l) + 1
  BY <1>1, StartStays, KnownStays
<1>3. Above(m, b) = Above(l, b)
  BY AboveStays
<1> HIDE DEF m
<1>4. LET later == Segments(m, b, c)
          n == Len(Above(l, b)) + 1
      IN  /\ DOMAIN later = 1..n
          /\ later[n] = [branch |-> b, stop |-> c, cutoff |-> Len(l) + 1]
          /\ \A i \in 1..(n - 1) : later[i] = Above(l, b)[i]
  BY <1>1, <1>2, <1>3, SegmentsShape
<1>5. LET segs == Segments(l, b, c)
          n == Len(Above(l, b)) + 1
      IN  \A i \in 1..(n - 1) : segs[i] = Above(l, b)[i] /\ segs[i] \in Forks(l, b)
  BY SegmentsShape, Zenon
<1> QED BY <1>4, <1>5 DEF m

\* The lineage of a committed cell is final.
LEMMA ChainStays ==
    ASSUME NEW l, LogInv(l), NEW f \in Facts, LogInv(Append(l, f)),
           NEW b \in Nat, Created(l, b), NEW c \in Nat, CommittedOn(l, b, c)
    PROVE  collectAncestorChain(Append(l, f), b, c) = collectAncestorChain(l, b, c)
<1> DEFINE m == Append(l, f)
           segs == Segments(l, b, c)
           later == Segments(m, b, c)
           n == Len(Above(l, b)) + 1
<1>1. l \in Seq(Facts)
  BY DEF LogInv
<1>2. /\ n \in Nat \ {0} /\ DOMAIN segs = 1..n
      /\ segs[n] = [branch |-> b, stop |-> c, cutoff |-> Len(l)]
      /\ \A i \in 1..n : CommittedOn(l, segs[i].branch, segs[i].stop)
  BY SegmentsShape
<1>3. /\ DOMAIN later = 1..n
      /\ later[n] = [branch |-> b, stop |-> c, cutoff |-> Len(l) + 1]
      /\ \A i \in 1..(n - 1) : later[i] = segs[i]
  BY SegmentsStay
<1> HIDE DEF segs, later, n
<1>4. \A i \in 1..n : later[i].branch = segs[i].branch /\ later[i].stop = segs[i].stop
  <2> TAKE i \in 1..n
  <2>1. i \in 1..(n - 1) \/ i = n
    BY <1>2
  <2> QED BY <1>2, <1>3, <2>1
<1>5. \A i \in 1..n : committedCellsUpTo(m, later[i].branch, later[i].stop) =
                      committedCellsUpTo(l, segs[i].branch, segs[i].stop)
  BY <1>1, <1>2, <1>4, CommitsUpToStay
<1> HIDE DEF m
<1>6. SegmentCells(m, later) = SegmentCells(l, segs)
  BY <1>2, <1>3, <1>5 DEF SegmentCells
<1>7. /\ collectAncestorChain(m, b, c) = FlattenSeq(SegmentCells(m, later))
      /\ collectAncestorChain(l, b, c) = FlattenSeq(SegmentCells(l, segs))
  BY Zenon DEF collectAncestorChain, ChainOf, SegmentCells, segs, later
<1> QED BY <1>6, <1>7 DEF m

\* Of the transitions only a new one can come into force, and only at the end: on the
\* branch of the cell, after a cell of the lineage that was committed there.
LEMMA VisibleStays ==
    ASSUME NEW l, LogInv(l), NEW f \in Facts, LogInv(Append(l, f)),
           NEW b \in Nat, Created(l, b), NEW c \in Nat, CommittedOn(l, b, c)
    PROVE  LET at == visibleTransitions(l, b, c)
               later == visibleTransitions(Append(l, f), b, c)
               chain == collectAncestorChain(l, b, c)
           IN  /\ at \in SUBSET DOMAIN l
               /\ \/ later = at
                  \/ /\ later = at \cup {Len(l) + 1}
                     /\ f.type = "RuntimeTransitioned" /\ f.branch = b
                     /\ \/ f.cell = NoCell
                        \/ \E j \in DOMAIN chain : chain[j].branch = b /\ chain[j].cell = f.cell
<1> DEFINE m == Append(l, f)
           segs == Segments(l, b, c)
           next == Segments(m, b, c)
           n == Len(Above(l, b)) + 1
           chain == collectAncestorChain(l, b, c)
           at == visibleTransitions(l, b, c)
           later == visibleTransitions(m, b, c)
           p == Len(l) + 1
<1>1. l \in Seq(Facts)
  BY DEF LogInv
<1>2. /\ n \in Nat \ {0} /\ DOMAIN segs = 1..n
      /\ segs[n] = [branch |-> b, stop |-> c, cutoff |-> Len(l)]
      /\ \A i \in 1..(n - 1) : segs[i] \in Forks(l, b)
  BY SegmentsShape
<1>3. /\ DOMAIN next = 1..n
      /\ next[n] = [branch |-> b, stop |-> c, cutoff |-> p]
      /\ \A i \in 1..(n - 1) : next[i] = segs[i]
  BY SegmentsStay
<1>4. ChainOf(l, segs) = chain /\ ChainOf(m, next) = chain
  <2>1. ChainOf(l, segs) = chain /\ ChainOf(m, next) = collectAncestorChain(m, b, c)
    BY Zenon DEF collectAncestorChain
  <2> HIDE DEF segs, next
  <2> QED BY <2>1, ChainStays
<1>5. /\ at = {i \in OfType(l, "RuntimeTransitioned") : Visible(l, segs, chain, i)}
      /\ later = {i \in OfType(m, "RuntimeTransitioned") : Visible(m, next, chain, i)}
  <2> HIDE DEF segs, next, chain
  <2> QED BY <1>4 DEF visibleTransitions, VisibleOn, segs, next
<1>6. /\ p \in Nat /\ m[p] = f /\ p \notin DOMAIN l /\ DOMAIN l \in SUBSET Nat
      /\ \A i \in DOMAIN l : m[i] = l[i] /\ i < p /\ i <= Len(l)
      /\ \A t : OfType(m, t) = OfType(l, t) \cup (IF f.type = t THEN {p} ELSE {})
      /\ OfType(l, "RuntimeTransitioned") \in SUBSET DOMAIN l
  BY <1>1, AppendFact, Positions
<1>7. \A i \in 1..(n - 1) : next[i].cutoff \in DOMAIN l /\ next[i].branch # b
  BY <1>2, <1>3 DEF Forks
<1> HIDE DEF m, segs, next, n, chain, at, later, p
<1> DEFINE On(s, l2, i) == \E k \in DOMAIN s : s[k].branch = l2[i].branch /\ i <= s[k].cutoff
           After(l2, i) == IF l2[i].cell = NoCell
                           THEN l2[i].branch = IF chain = <<>> THEN RootBranch ELSE chain[1].branch
                           ELSE \E j \in DOMAIN chain : /\ chain[j].branch = l2[i].branch
                                                        /\ chain[j].cell = l2[i].cell
<1>8. \A s, l2, i : Visible(l2, s, chain, i) <=> On(s, l2, i) /\ After(l2, i)
  BY Zenon DEF Visible
<1>9. \A i \in DOMAIN l : On(next, m, i) <=> On(segs, l, i)
  <2> TAKE i \in DOMAIN l
  <2>1. \A k \in 1..n : next[k].branch = segs[k].branch
                        /\ (i <= next[k].cutoff <=> i <= segs[k].cutoff)
    <3> TAKE k \in 1..n
    <3>1. k \in 1..(n - 1) \/ k = n
      BY <1>2
    <3>2. CASE k = n
      BY <1>2, <1>3, <1>6, <3>2
    <3>3. CASE k \in 1..(n - 1)
      BY <1>3, <3>3
    <3> QED BY <3>1, <3>2, <3>3
  <2>2. m[i] = l[i]
    BY <1>6
  <2> QED BY <1>2, <1>3, <2>1, <2>2
<1>10. \A i \in DOMAIN l : After(m, i) <=> After(l, i)
  BY <1>6
<1>11. On(next, m, p) => f.branch = b
  <2> SUFFICES ASSUME NEW k \in 1..n, next[k].branch = f.branch, p <= next[k].cutoff
               PROVE  f.branch = b
    BY <1>3, <1>6
  <2>1. k = n
    <3> SUFFICES ASSUME k \in 1..(n - 1) PROVE FALSE
      BY <1>2
    <3>1. next[k].cutoff \in DOMAIN l
      BY <1>7
    <3> QED BY <1>6, <3>1
  <2> QED BY <1>3, <2>1
<1>12. After(m, p) => \/ f.cell = NoCell
                      \/ \E j \in DOMAIN chain : /\ chain[j].branch = f.branch
                                                 /\ chain[j].cell = f.cell
  BY <1>6
<1> HIDE DEF On, After
<1>13. \A i \in OfType(l, "RuntimeTransitioned") :
          Visible(m, next, chain, i) <=> Visible(l, segs, chain, i)
  BY <1>6, <1>8, <1>9, <1>10
<1>14. at \in SUBSET DOMAIN l
  BY <1>5, <1>6
<1>15. later = at \/ (later = at \cup {p} /\ f.type = "RuntimeTransitioned"
                        /\ Visible(m, next, chain, p))
  BY <1>5, <1>6, <1>13
<1>16. Visible(m, next, chain, p) =>
         f.branch = b /\ (f.cell = NoCell \/ \E j \in DOMAIN chain : /\ chain[j].branch = b
                                                                   /\ chain[j].cell = f.cell)
  BY <1>8, <1>11, <1>12
<1> QED BY <1>14, <1>15, <1>16 DEF m, at, later, chain, p

-----------------------------------------------------------------------------
(* Cells are committed, and become heads, in the order of their numbers. *)

OrderInv(l) ==
    \A t \in {"CellCommitted", "HeadMoved"} :
       \A i, j \in OfType(l, t) : i < j => l[i].cell < l[j].cell

\* The cell of a submit is the youngest, and is not a head yet.
CellOrderInv ==
    /\ OrderInv(log)
    /\ \A s \in Handles : st[s].pc # "idle" =>
          st[s].cell = CellCount(log) /\ OfCell(log, "HeadMoved", st[s].cell) = {}

\* What the log may gain in a step, and what that says of the handles.
Gains(f) ==
    \/ /\ f.type \notin {"CellChecked", "CellCommitted", "HeadMoved", "RuntimeTransitioned"}
       /\ Onward
    \/ /\ f.type = "RuntimeTransitioned" /\ LoadHead(log, f.branch) \in {NoCell, f.cell}
       /\ Onward
    \/ /\ f.type = "CellChecked"
       /\ \A t \in Handles : st'[t].pc # "idle" => st'[t].cell = CellCount(log) + 1
    \/ /\ f.type = "CellCommitted" /\ Onward
       /\ \E s \in Handles : st[s].pc = "commit" /\ f.cell = st[s].cell
    \/ /\ f.type = "HeadMoved" /\ \A t \in Handles : st'[t].pc = "idle"
       /\ \E s \in Handles : st[s].pc = "move" /\ f.cell = st[s].cell

\* A submit that fails.
LEMMA FailSubmitGains ==
    ASSUME SessionInv, NEW s \in Handles, NEW r, IsHandle(r), FailSubmit(s, r)
    PROVE  (log' = log /\ Onward) \/ \E f : log' = Append(log, f) /\ Gains(f)
<1> DEFINE d == r.dirty \/ ~Fresh
           q == [r EXCEPT !.dirty = d]
           f == CellFailed(r.branch, r.head)
<1>1. st' = [st EXCEPT ![s] = Idle(q)] /\ (log' = Append(log, f) \/ log' = log)
  BY DEF FailSubmit
<1>2. IsHandle(q)
  <2> HIDE DEF d
  <2> QED BY DEF IsHandle
<1> HIDE DEF q
<1>3. Onward
  BY <1>1, <1>2, IdleHandle, IdleOnward
<1>4. f.type = "CellFailed"
  BY DEF CellFailed
<1> HIDE DEF f
<1> QED BY <1>1, <1>3, <1>4 DEF Gains

\* A submit, step by step.
LEMMA SubmitGains ==
    ASSUME SessionInv, NEW s \in Handles,
           (\E k \in Kinds : SubmitCheck(s, k)) \/ SubmitEval(s) \/ SubmitCommit(s) \/ SubmitMove(s)
    PROVE  (log' = log /\ Onward) \/ \E f : log' = Append(log, f) /\ Gains(f)
<1>1. /\ TurnInv /\ st = [t \in Handles |-> st[t]] /\ HandleInv(log, st[s]) /\ IsHandle(st[s])
  BY DEF SessionInv, HandleInv
<1>2. CASE \E k \in Kinds : SubmitCheck(s, k)
  <2>1. PICK k \in Kinds : SubmitCheck(s, k)
    BY <1>2
  <2> DEFINE c == NextCell
             f == CellChecked(st[s].branch, c, k)
             p == Prepared(Append(log, f), s)
             r == [p EXCEPT !.pc = "eval", !.cell = c]
  <2>2. /\ \A t \in Handles : st[t].pc = "idle"
        /\ \/ log' = log /\ st' = st
           \/ log' = Append(log, f) /\ (st' = st \/ st' = [st EXCEPT ![s] = r])
    BY <2>1 DEF SubmitCheck, Turn
  <2>3. r.cell = c
    <3>1. IsHandle(p)
      BY <1>1, CleanedHandle
    <3> HIDE DEF p, c
    <3> QED BY <3>1 DEF IsHandle
  <2>4. c = CellCount(log) + 1 /\ f.type = "CellChecked"
    BY DEF NextCell, CellCount, CellChecked
  <2> HIDE DEF c, f, r
  <2>5. CASE log' = log /\ st' = st
    BY <2>5 DEF Onward
  <2>6. CASE log' = Append(log, f) /\ (st' = st \/ st' = [st EXCEPT ![s] = r])
    <3>1. \A t \in Handles : st'[t].pc # "idle" => st'[t].cell = CellCount(log) + 1
      BY <1>1, <2>2, <2>3, <2>4, <2>6
    <3>2. Gains(f)
      BY <2>4, <3>1 DEF Gains
    <3> QED BY <2>6, <3>2
  <2> QED BY <2>2, <2>5, <2>6
<1>3. CASE SubmitEval(s)
  <2> DEFINE c == st[s].cell
             ranE == RunCell(st[s].eval, c)
             ranR == RunCell(st[s].rt, c)
             r == IF Fresh THEN [st[s] EXCEPT !.eval = ranE] ELSE [st[s] EXCEPT !.rt = ranR]
             q == [r EXCEPT !.pc = "commit"]
             f == CellEvaluated(r.branch, c)
  <2>1. /\ st[s].pc = "eval"
        /\ \/ FailSubmit(s, r)
           \/ log' = Append(log, f) /\ st' = [st EXCEPT ![s] = q]
    BY <1>3 DEF SubmitEval
  <2>2. IsHandle(r) /\ r.cell = c
    <3> HIDE DEF ranE, ranR
    <3> QED BY <1>1 DEF IsHandle
  <2> HIDE DEF r
  <2>3. q.cell = c /\ f.type = "CellEvaluated"
    BY <2>2 DEF IsHandle, CellEvaluated
  <2> HIDE DEF q, f
  <2>4. CASE FailSubmit(s, r)
    BY <2>2, <2>4, FailSubmitGains
  <2>5. CASE log' = Append(log, f) /\ st' = [st EXCEPT ![s] = q]
    <3>1. Onward
      BY <1>1, <2>1, <2>3, <2>5 DEF Onward
    <3> QED BY <2>3, <2>5, <3>1 DEF Gains
  <2> QED BY <2>1, <2>4, <2>5
<1>4. CASE SubmitCommit(s)
  <2> DEFINE q == [st[s] EXCEPT !.pc = "move"]
             f == CellCommitted(st[s].branch, st[s].cell)
  <2>1. /\ st[s].pc = "commit"
        /\ \/ FailSubmit(s, st[s])
           \/ log' = Append(log, f) /\ st' = [st EXCEPT ![s] = q]
    BY <1>4 DEF SubmitCommit
  <2>2. q.cell = st[s].cell /\ f.type = "CellCommitted" /\ f.cell = st[s].cell
    BY <1>1 DEF IsHandle, CellCommitted
  <2> HIDE DEF q, f
  <2>3. CASE FailSubmit(s, st[s])
    BY <1>1, <2>3, FailSubmitGains
  <2>4. CASE log' = Append(log, f) /\ st' = [st EXCEPT ![s] = q]
    <3>1. Onward
      BY <1>1, <2>1, <2>2, <2>4 DEF Onward
    <3> QED BY <2>1, <2>2, <2>4, <3>1 DEF Gains
  <2> QED BY <2>1, <2>3, <2>4
<1>5. CASE SubmitMove(s)
  <2> DEFINE f == HeadMoved(st[s].branch, st[s].head, st[s].cell)
  <2>1. CASE FailSubmit(s, st[s])
    BY <1>1, <2>1, FailSubmitGains
  <2>2. CASE ~FailSubmit(s, st[s])
    <3>1. st[s].pc = "move"
      BY <1>5 DEF SubmitMove
    <3>2. log' = Append(log, f)
      BY <1>1, <1>5, <2>2, MoveHandle
    <3>3. PICK q : st' = [st EXCEPT ![s] = q] /\ q.pc = "idle"
      BY <1>1, <1>5, <2>2, MoveHandle
    <3>4. \A t \in Handles : st'[t].pc = "idle"
      BY <1>1, <3>1, <3>3 DEF TurnInv
    <3>5. f.type = "HeadMoved" /\ f.cell = st[s].cell
      BY DEF HeadMoved
    <3> HIDE DEF f
    <3> QED BY <3>1, <3>2, <3>4, <3>5 DEF Gains
  <2> QED BY <2>1, <2>2
<1> QED BY <1>2, <1>3, <1>4, <1>5

\* Everything else; a fork gains two facts.
LEMMA OtherGains ==
    ASSUME SessionInv, NEW s \in Handles,
           \/ Open(s) \/ Stop(s) \/ \E c \in 1..MaxCells : Restore(s, c) \/ Fork(s, c)
           \/ \E h \in Hashes : Transition(s, h)
    PROVE  \/ log' = log /\ Onward
           \/ \E f : log' = Append(log, f) /\ Gains(f)
           \/ \E c \in MovedCells(log) :
                 /\ log' = Append(Append(log, BranchCreated(NextBranch, c)),
                                  RestoreCompleted(c, NextBranch))
                 /\ Onward
<1>1. /\ HandleInv(log, st[s]) /\ IsHandle(st[s])
  BY DEF SessionInv, HandleInv
<1>2. \A b, c : BranchCreated(b, c).type = "BranchCreated"
               /\ RestoreCompleted(c, b).type = "RestoreCompleted"
  BY DEF BranchCreated, RestoreCompleted
<1>3. CASE Open(s)
  <2> DEFINE cur == LoadSessionState(log)
             r == IF cur.head = NoCell
                  THEN Install(cur.branch, NoCell, NewRuntime(cur.hash), 0)
                  ELSE Loaded(cur.branch, cur.head)
  <2>1. st' = [st EXCEPT ![s] = r] /\ log' = log
    BY <1>3 DEF Open
  <2>2. r.pc = "idle"
    BY InstallIdle DEF Loaded, LoadedFrom
  <2> HIDE DEF r
  <2> QED BY <2>1, <2>2, IdleOnward
<1>4. CASE Stop(s)
  <2>1. st' = [st EXCEPT ![s] = Closed] /\ log' = log
    BY <1>4 DEF Stop
  <2> QED BY <2>1, ClosedHandle, IdleOnward
<1>5. CASE \E c \in 1..MaxCells : Restore(s, c) \/ Fork(s, c)
  <2>1. PICK c \in 1..MaxCells : Restore(s, c) \/ Fork(s, c)
    BY <1>5
  <2>2. \A b : Loaded(b, c).pc = "idle"
    BY InstallIdle DEF Loaded, LoadedFrom
  <2>3. Onward
    <3>1. st' = st \/ \E b : st' = [st EXCEPT ![s] = Loaded(b, c)]
      BY <2>1 DEF Restore, Fork
    <3>2. CASE st' = st
      BY <3>2 DEF Onward
    <3>3. CASE \E b : st' = [st EXCEPT ![s] = Loaded(b, c)]
      BY <2>2, <3>3, IdleOnward
    <3> QED BY <3>1, <3>2, <3>3
  <2>4. /\ c \in MovedCells(log)
        /\ \/ log' = log \/ log' = Append(log, RestoreCompleted(c, NoBranch))
           \/ log' = Append(log, BranchCreated(NextBranch, c))
           \/ log' = Append(Append(log, BranchCreated(NextBranch, c)),
                            RestoreCompleted(c, NextBranch))
    BY <2>1 DEF Restore, Fork, Replayable
  <2>5. Gains(RestoreCompleted(c, NoBranch)) /\ Gains(BranchCreated(NextBranch, c))
    BY <1>2, <2>3 DEF Gains
  <2> QED BY <2>3, <2>4, <2>5
<1>6. CASE \E h \in Hashes : Transition(s, h)
  <2>1. PICK h \in Hashes : Transition(s, h)
    BY <1>6
  <2> DEFINE r == Cleaned(log, s)
             rt == ApplyTransition(log, r.rt, h, r.index)
             x == [r EXCEPT !.rt = rt, !.dirty = TRUE]
             y == [r EXCEPT !.rt = rt, !.hash = h]
             f == RuntimeTransitioned(r.branch, r.head, h)
  <2>2. /\ st[s].pc = "idle" /\ LoadHead(log, st[s].branch) \in {NoCell, st[s].head}
        /\ log' = log \/ log' = Append(log, f)
        /\ \/ st' = [st EXCEPT ![s] = r] \/ st' = [st EXCEPT ![s] = x]
           \/ st' = [st EXCEPT ![s] = y]
    BY <2>1 DEF Transition, Turn, Writable
  <2>3. IsHandle(r) /\ r.pc = "idle" /\ r.branch = st[s].branch /\ r.head = st[s].head
    BY <1>1, <2>2, CleanedHandle
  <2> HIDE DEF r
  <2>4. x.pc = "idle" /\ y.pc = "idle"
    <3> HIDE DEF rt
    <3> QED BY <2>3 DEF IsHandle
  <2>5. f.type = "RuntimeTransitioned" /\ f.branch = st[s].branch /\ f.cell = st[s].head
    BY <2>3 DEF RuntimeTransitioned
  <2> HIDE DEF f, x, y
  <2>6. Onward
    BY <2>2, <2>3, <2>4, IdleOnward
  <2> QED BY <2>2, <2>5, <2>6 DEF Gains
<1> QED BY <1>3, <1>4, <1>5, <1>6

\* Every step: what the log gains.
LEMMA NextGains ==
    ASSUME SessionInv, [Next]_vars
    PROVE  \/ log' = log /\ Onward
           \/ \E f : log' = Append(log, f) /\ Gains(f)
           \/ \E c \in MovedCells(log) :
                 /\ log' = Append(Append(log, BranchCreated(NextBranch, c)),
                                  RestoreCompleted(c, NextBranch))
                 /\ Onward
<1>1. CASE UNCHANGED vars
  <2>1. log' = log /\ st' = st
    BY <1>1 DEF vars
  <2> QED BY <2>1 DEF Onward
<1>2. CASE Next
  <2>1. PICK s \in Handles :
           \/ \E k \in Kinds : SubmitCheck(s, k)
           \/ SubmitEval(s) \/ SubmitCommit(s) \/ SubmitMove(s)
           \/ \E c \in 1..MaxCells : Restore(s, c) \/ Fork(s, c)
           \/ Open(s) \/ Stop(s)
           \/ \E h \in Hashes : Transition(s, h)
    BY <1>2 DEF Next
  <2>2. CASE (\E k \in Kinds : SubmitCheck(s, k)) \/ SubmitEval(s) \/ SubmitCommit(s) \/ SubmitMove(s)
    BY <2>2, SubmitGains
  <2>3. CASE \/ Open(s) \/ Stop(s) \/ \E c \in 1..MaxCells : Restore(s, c) \/ Fork(s, c)
             \/ \E h \in Hashes : Transition(s, h)
    BY <2>3, OtherGains
  <2> QED BY <2>1, <2>2, <2>3
<1> QED BY <1>1, <1>2

\* The two facts of a fork, one after the other.
LEMMA ForkFacts ==
    ASSUME NEW l, l = log, LogInv(l), NEW c \in MovedCells(l)
    PROVE  /\ BranchCreated(NextBranch, c) \in Facts /\ RestoreCompleted(c, NextBranch) \in Facts
           /\ LogInv(Append(l, BranchCreated(NextBranch, c)))
           /\ BranchCreated(NextBranch, c).type = "BranchCreated"
           /\ RestoreCompleted(c, NextBranch).type = "RestoreCompleted"
<1> DEFINE b == NextBranch
           f == BranchCreated(b, c)
<1>1. l \in Seq(Facts)
  BY DEF LogInv
<1>2. BranchCount(l) \in Nat
  BY <1>1, Positions DEF BranchCount
<1>3. b = BranchCount(l) + 2 /\ b \in Nat
  BY <1>2 DEF NextBranch, BranchCount, RootBranch
<1>4. c \in Nat
  BY MovedBranch
<1> HIDE DEF b
<1>5. f \in Facts /\ RestoreCompleted(c, b) \in Facts
  BY <1>3, <1>4, FactShapes
<1>6. f.type = "BranchCreated" /\ f.branch = b /\ f.cell = c /\ RestoreCompleted(c, b).type = "RestoreCompleted"
  BY DEF BranchCreated, RestoreCompleted
<1> HIDE DEF f
<1>7. Admits(l, f)
  BY <1>3, <1>6 DEF Admits
<1>8. LogInv(Append(l, f))
  BY <1>5, <1>7, LogStep
<1> QED BY <1>5, <1>6, <1>8 DEF f, b

\* What concerns no cell keeps the order.
LEMMA OtherOrder ==
    ASSUME NEW l \in Seq(Facts), NEW f \in Facts,
           f.type \notin {"CellChecked", "CellCommitted", "HeadMoved"}
    PROVE  /\ OrderInv(l) => OrderInv(Append(l, f))
           /\ CellCount(Append(l, f)) = CellCount(l)
           /\ \A c : OfCell(Append(l, f), "HeadMoved", c) = OfCell(l, "HeadMoved", c)
<1>1. /\ \A i \in DOMAIN l : Append(l, f)[i] = l[i]
      /\ \A t : OfType(Append(l, f), t) = OfType(l, t) \cup (IF f.type = t THEN {Len(l) + 1} ELSE {})
      /\ \A t, c : OfCell(Append(l, f), t, c) = OfCell(l, t, c) \cup
                      (IF f.type = t /\ f.cell = c THEN {Len(l) + 1} ELSE {})
  BY AppendFact
<1>2. \A t \in {"CellCommitted", "HeadMoved"} :
         OfType(Append(l, f), t) = OfType(l, t) /\ OfType(l, t) \in SUBSET DOMAIN l
  BY <1>1, Positions
<1>3. OrderInv(l) => OrderInv(Append(l, f))
  BY <1>1, <1>2 DEF OrderInv
<1>4. CellCount(Append(l, f)) = CellCount(l)
  BY AppendCounts
<1>5. \A c : OfCell(Append(l, f), "HeadMoved", c) = OfCell(l, "HeadMoved", c)
  <2> TAKE c
  <2>1. OfCell(Append(l, f), "HeadMoved", c) = OfCell(l, "HeadMoved", c) \cup
           (IF f.type = "HeadMoved" /\ f.cell = c THEN {Len(l) + 1} ELSE {})
    BY <1>1
  <2> QED BY <2>1
<1> QED BY <1>3, <1>4, <1>5

\* Commits and heads have numbers in use.
LEMMA KnownCells ==
    ASSUME NEW l, LogInv(l), NEW t \in {"CellCommitted", "HeadMoved"}, NEW i \in OfType(l, t)
    PROVE  l[i].cell \in 1..CellCount(l) /\ CellCount(l) \in Nat
<1>1. NumbersInv(l) /\ HeadsInv(l) /\ l \in Seq(Facts)
  BY DEF LogInv
<1>2. CellCount(l) \in Nat
  BY <1>1, Positions DEF CellCount
<1>3. CASE t = "CellCommitted"
  BY <1>1, <1>2, <1>3 DEF NumbersInv
<1>4. CASE t = "HeadMoved"
  <2>1. PICK j \in OfType(l, "CellCommitted") : l[j].cell = l[i].cell
    BY <1>1, <1>4 DEF HeadsInv, CommittedOn, OfCell
  <2> QED BY <1>1, <1>2, <2>1 DEF NumbersInv
<1> QED BY <1>3, <1>4

\* The youngest cell comes last.
LEMMA YoungestOrder ==
    ASSUME NEW l, LogInv(l), OrderInv(l), NEW f \in Facts,
           f.type \in {"CellCommitted", "HeadMoved"}, f.cell = CellCount(l),
           OfCell(l, f.type, f.cell) = {}
    PROVE  OrderInv(Append(l, f))
<1> DEFINE m == Append(l, f)
           n == Len(l) + 1
<1>1. l \in Seq(Facts)
  BY DEF LogInv
<1>2. /\ n \in Nat /\ m[n] = f /\ \A i \in DOMAIN l : m[i] = l[i] /\ i < n
      /\ \A t : OfType(m, t) = OfType(l, t) \cup (IF f.type = t THEN {n} ELSE {})
      /\ \A t : OfType(l, t) \in SUBSET DOMAIN l
      /\ DOMAIN l \in SUBSET Nat
  BY <1>1, AppendFact, Positions
<1> HIDE DEF m, n
<1> SUFFICES ASSUME NEW t \in {"CellCommitted", "HeadMoved"}, NEW i \in OfType(m, t),
                    NEW j \in OfType(m, t), i < j
             PROVE  m[i].cell < m[j].cell
  BY DEF OrderInv, m
<1>3. OfType(m, t) = OfType(l, t) \cup (IF f.type = t THEN {n} ELSE {}) /\ OfType(l, t) \in SUBSET DOMAIN l
  BY <1>2
<1>4. CASE j \in OfType(l, t)
  <2>1. i \in OfType(l, t)
    BY <1>2, <1>3, <1>4
  <2> QED BY <1>2, <1>3, <1>4, <2>1 DEF OrderInv
<1>5. CASE j \notin OfType(l, t)
  <2>1. j = n /\ f.type = t
    BY <1>3, <1>5
  <2>2. i \in OfType(l, t) /\ m[i] = l[i]
    BY <1>2, <1>3, <2>1
  <2>3. l[i].cell \in 1..CellCount(l) /\ CellCount(l) \in Nat
    BY <2>2, KnownCells
  <2>4. l[i].cell # CellCount(l)
    BY <2>1, <2>2 DEF OfCell
  <2> QED BY <1>2, <2>1, <2>2, <2>3, <2>4
<1> QED BY <1>4, <1>5

\* The order is kept by every step.
LEMMA CellOrderStep ==
    ASSUME SessionInv, SessionInv', CellOrderInv, [Next]_vars
    PROVE  CellOrderInv'
<1>1. LogInv(log) /\ LogInv(log') /\ log \in Seq(Facts) /\ log' \in Seq(Facts) /\ OrderInv(log)
  <2>1. LogInv(log) /\ LogInv(log')
    BY DEF SessionInv
  <2> QED BY <2>1 DEF LogInv, CellOrderInv
<1>2. CASE log' = log /\ Onward
  BY <1>2 DEF CellOrderInv, Onward, OrderInv
<1>3. ASSUME NEW f, log' = Append(log, f), Gains(f) PROVE CellOrderInv'
  <2>1. f \in Facts
    <3>1. log'[Len(log) + 1] = f /\ Len(log) + 1 \in DOMAIN log'
      BY <1>1, <1>3
    <3> QED BY <1>1, <3>1
  <2>2. CASE /\ f.type \notin {"CellChecked", "CellCommitted", "HeadMoved"}
             /\ Onward
    <3>1. /\ OrderInv(log') /\ CellCount(log') = CellCount(log)
          /\ \A c : OfCell(log', "HeadMoved", c) = OfCell(log, "HeadMoved", c)
      BY <1>1, <1>3, <2>1, <2>2, OtherOrder
    <3>2. OrderInv(log)' /\ CellCount(log)' = CellCount(log)
      BY <3>1 DEF OrderInv, CellCount
    <3> QED BY <2>2, <3>1, <3>2 DEF CellOrderInv, Onward
  <2>3. CASE /\ f.type = "CellChecked"
             /\ \A t \in Handles : st'[t].pc # "idle" => st'[t].cell = CellCount(log) + 1
    <3>1. CellCount(log') = CellCount(log) + 1 /\ CellCount(log) \in Nat
      BY <1>1, <1>3, <2>1, <2>3, AppendCounts
    <3>2. /\ \A i \in DOMAIN log : log'[i] = log[i]
          /\ \A t : OfType(log', t) = OfType(log, t) \cup (IF f.type = t THEN {Len(log) + 1} ELSE {})
          /\ \A t, c : OfCell(log', t, c) = OfCell(log, t, c) \cup
                          (IF f.type = t /\ f.cell = c THEN {Len(log) + 1} ELSE {})
      BY <1>1, <1>3, <2>1, AppendFact
    <3>3. \A t \in {"CellCommitted", "HeadMoved"} :
             OfType(log', t) = OfType(log, t) /\ OfType(log, t) \in SUBSET DOMAIN log
      BY <1>1, <2>3, <3>2, Positions
    <3>4. OrderInv(log')
      BY <1>1, <3>2, <3>3 DEF OrderInv
    <3>5. OfCell(log', "HeadMoved", CellCount(log) + 1) = {}
      <4>1. OfCell(log', "HeadMoved", CellCount(log) + 1) =
               OfCell(log, "HeadMoved", CellCount(log) + 1) \cup
                  (IF f.type = "HeadMoved" /\ f.cell = CellCount(log) + 1
                   THEN {Len(log) + 1} ELSE {})
        BY <3>2
      <4>2. \A i \in OfType(log, "HeadMoved") : log[i].cell \in 1..CellCount(log)
        BY <1>1, KnownCells
      <4>3. OfCell(log, "HeadMoved", CellCount(log) + 1) = {}
        BY <3>1, <4>2 DEF OfCell
      <4> QED BY <2>3, <4>1, <4>3
    <3>6. OrderInv(log)' /\ CellCount(log)' = CellCount(log) + 1
      BY <3>1, <3>4 DEF OrderInv, CellCount
    <3> QED BY <2>3, <3>5, <3>6 DEF CellOrderInv
  <2>4. CASE /\ f.type = "CellCommitted" /\ Onward
             /\ \E s \in Handles : st[s].pc = "commit" /\ f.cell = st[s].cell
    <3>1. PICK s \in Handles : st[s].pc = "commit" /\ f.cell = st[s].cell
      BY <2>4
    <3>2. f.cell = CellCount(log) /\ OfCell(log, "CellCommitted", f.cell) = {}
      BY <3>1 DEF CellOrderInv, SessionInv, HandleInv
    <3>3. OrderInv(log')
      BY <1>1, <1>3, <2>1, <2>4, <3>2, YoungestOrder
    <3>4. CellCount(log') = CellCount(log)
      BY <1>1, <1>3, <2>1, <2>4, AppendCounts
    <3>5. \A c : OfCell(log', "HeadMoved", c) = OfCell(log, "HeadMoved", c)
      <4>1. \A t, c : OfCell(log', t, c) = OfCell(log, t, c) \cup
                          (IF f.type = t /\ f.cell = c THEN {Len(log) + 1} ELSE {})
        BY <1>1, <1>3, <2>1, AppendFact
      <4> TAKE c
      <4>2. OfCell(log', "HeadMoved", c) = OfCell(log, "HeadMoved", c) \cup
               (IF f.type = "HeadMoved" /\ f.cell = c THEN {Len(log) + 1} ELSE {})
        BY <4>1
      <4> QED BY <2>4, <4>2
    <3>6. OrderInv(log)' /\ CellCount(log)' = CellCount(log)
      BY <3>3, <3>4 DEF OrderInv, CellCount
    <3> QED BY <2>4, <3>5, <3>6 DEF CellOrderInv, Onward
  <2>5. CASE /\ f.type = "HeadMoved" /\ \A t \in Handles : st'[t].pc = "idle"
             /\ \E s \in Handles : st[s].pc = "move" /\ f.cell = st[s].cell
    <3>1. PICK s \in Handles : st[s].pc = "move" /\ f.cell = st[s].cell
      BY <2>5
    <3>2. f.cell = CellCount(log) /\ OfCell(log, "HeadMoved", f.cell) = {}
      BY <3>1 DEF CellOrderInv
    <3>3. OrderInv(log')
      BY <1>1, <1>3, <2>1, <2>5, <3>2, YoungestOrder
    <3>4. OrderInv(log)'
      BY <3>3 DEF OrderInv
    <3> QED BY <2>5, <3>4 DEF CellOrderInv
  <2> QED BY <1>3, <2>2, <2>3, <2>4, <2>5 DEF Gains
<1>4. ASSUME NEW c \in MovedCells(log), Onward,
             log' = Append(Append(log, BranchCreated(NextBranch, c)),
                           RestoreCompleted(c, NextBranch))
      PROVE  CellOrderInv'
  <2> DEFINE f == BranchCreated(NextBranch, c)
             g == RestoreCompleted(c, NextBranch)
             m == Append(log, f)
  <2>1. /\ f \in Facts /\ g \in Facts /\ LogInv(m) /\ f.type = "BranchCreated"
        /\ g.type = "RestoreCompleted"
    BY <1>1, ForkFacts
  <2> HIDE DEF f, g
  <2>2. /\ OrderInv(m) /\ CellCount(m) = CellCount(log)
        /\ \A d : OfCell(m, "HeadMoved", d) = OfCell(log, "HeadMoved", d)
    BY <1>1, <2>1, OtherOrder
  <2> HIDE DEF m
  <2>3. m \in Seq(Facts)
    BY <2>1 DEF LogInv
  <2>4. /\ OrderInv(Append(m, g)) /\ CellCount(Append(m, g)) = CellCount(m)
        /\ \A d : OfCell(Append(m, g), "HeadMoved", d) = OfCell(m, "HeadMoved", d)
    BY <2>1, <2>2, <2>3, OtherOrder
  <2>5. log' = Append(m, g)
    BY <1>4 DEF m, f, g
  <2>6. OrderInv(log)' /\ CellCount(log)' = CellCount(log)
    BY <2>2, <2>4, <2>5 DEF OrderInv, CellCount
  <2>7. \A d : OfCell(log', "HeadMoved", d) = OfCell(log, "HeadMoved", d)
    BY <2>2, <2>4, <2>5
  <2> QED BY <1>4, <2>6, <2>7 DEF CellOrderInv, Onward
<1> QED BY <1>2, <1>3, <1>4, NextGains

\* Cells are committed, and become heads, in the order of their numbers, on whichever
\* branches and by whichever handles.
THEOREM CellOrderInvariant == Spec => []CellOrderInv
<1>1. Init => CellOrderInv
  <2> SUFFICES ASSUME Init PROVE CellOrderInv
    OBVIOUS
  <2>1. log = <<SessionStarted, RuntimeAttached(InitialHash)>>
    BY DEF Init
  <2>2. \A t \in {"CellCommitted", "HeadMoved"} : OfType(log, t) = {}
    BY <2>1 DEF OfType, SessionStarted, RuntimeAttached
  <2>3. \A s \in Handles : st[s].pc = "idle"
    <3>1. PICK s \in Handles : st = [h \in Handles |-> IF h = s
                  THEN Install(RootBranch, NoCell, NewRuntime(InitialHash), 0) ELSE Closed]
      BY DEF Init
    <3>2. Install(RootBranch, NoCell, NewRuntime(InitialHash), 0).pc = "idle" /\ Closed.pc = "idle"
      BY InstallIdle, ClosedHandle
    <3> QED BY <3>1, <3>2
  <2> QED BY <2>2, <2>3 DEF CellOrderInv, OrderInv
<1>2. SessionInv /\ SessionInv' /\ CellOrderInv /\ [Next]_vars => CellOrderInv'
  BY CellOrderStep
<1> QED BY <1>1, <1>2, SessionInvariant, PTL DEF Spec

-----------------------------------------------------------------------------
(* Plans. *)

\* The commits of a branch up to a cell are not younger than the cell.
LEMMA UpToOrder ==
    ASSUME NEW l \in Seq(Facts), OrderInv(l), NEW b, NEW c \in Nat, CommittedOn(l, b, c)
    PROVE  committedCellsUpTo(l, b, c) \in
              Seq({l[i] : i \in {j \in OnBranch(l, "CellCommitted", b) : l[j].cell <= c}})
<1> DEFINE S == OnBranch(l, "CellCommitted", b)
           o == InOrder(S)
           X == {l[i] : i \in {j \in S : l[j].cell <= c}}
           s == Commits(l, b)
           at == {i \in DOMAIN s : s[i].cell = c}
           n == Min(at)
           N == Cardinality(S)
<1>1. /\ S \in SUBSET Nat /\ IsFiniteSet(S) /\ S \in SUBSET DOMAIN l
      /\ \A i \in DOMAIN l : l[i].cell \in Nat
  BY Positions
<1>2. S \subseteq OfType(l, "CellCommitted")
  BY DEF OnBranch
<1>3. X = {l[i] : i \in {j \in S : l[j].cell <= c}}
  OBVIOUS
<1> HIDE DEF S
<1>4. /\ N \in Nat /\ o \in [1..N -> S]
      /\ \A i, j \in 1..N : i < j => o[i] < o[j]
  BY <1>1, InOrderProperties
<1>5. s = [k \in DOMAIN o |-> l[o[k]]]
  BY Zenon DEF Commits, FactsAt, S
<1> HIDE DEF o, s, N
<1>6. DOMAIN s = 1..N /\ \A k \in 1..N : s[k] = l[o[k]] /\ o[k] \in S
  BY <1>4, <1>5
<1>7. s \in Seq(Facts) /\ at # {}
  <2>1. s \in Seq(Facts)
    <3>1. \A k \in 1..N : l[o[k]] \in Facts
      BY <1>1, <1>6, Positions
    <3> QED BY <1>4, <1>5, <3>1
  <2>2. \E k \in DOMAIN s : s[k].cell = c
    BY CommitListed DEF s
  <2> QED BY <2>1, <2>2
<1>8. n \in at
  <2>1. at \in SUBSET Nat
    BY <1>6
  <2> HIDE DEF at
  <2> QED BY <1>7, <2>1, MinProperties
<1>9. n \in 1..N /\ s[n].cell = c
  BY <1>6, <1>8
<1>10. committedCellsUpTo(l, b, c) = SubSeq(s, 1, n)
  BY <1>7, Zenon DEF committedCellsUpTo, UpTo, s
<1> HIDE DEF n
<1>11. \A k \in 1..n : s[k] \in X
  <2> TAKE k \in 1..n
  <2>1. k \in 1..N /\ o[k] \in S /\ o[n] \in S /\ k \in Nat /\ n \in Nat /\ k <= n
    BY <1>4, <1>6, <1>9
  <2>2. l[o[k]].cell <= c
    <3>1. l[o[n]].cell = c
      BY <1>6, <1>9
    <3>2. CASE k = n
      BY <3>1, <3>2
    <3>3. CASE k < n
      <4>1. o[k] < o[n]
        BY <1>4, <1>9, <2>1, <3>3
      <4>2. l[o[k]].cell < l[o[n]].cell
        BY <1>2, <2>1, <4>1 DEF OrderInv
      <4>3. l[o[k]].cell \in Nat
        BY <1>1, <2>1
      <4> QED BY <3>1, <4>2, <4>3
    <3> QED BY <2>1, <3>2, <3>3
  <2>3. s[k] = l[o[k]]
    BY <1>6, <2>1
  <2> QED BY <1>3, <2>1, <2>2, <2>3
<1> HIDE DEF X
<1> DEFINE u == SubSeq(s, 1, n)
<1>12. Len(s) = N
  BY <1>4, <1>6, <1>7
<1>13. u = [k \in 1..n |-> s[k]]
  BY <1>7, <1>9, <1>12
<1>14. u \in Seq(X)
  <2> HIDE DEF u
  <2>1. n \in Nat
    BY <1>9
  <2> QED BY <1>11, <1>13, <2>1
<1> QED BY <1>3, <1>10, <1>14 DEF S

\* Of the branch itself a lineage has the cells up to its last.
LEMMA OwnCells ==
    ASSUME NEW l, LogInv(l), OrderInv(l), NEW b \in Nat, Created(l, b),
           NEW c \in Nat, CommittedOn(l, b, c),
           NEW j \in DOMAIN collectAncestorChain(l, b, c),
           collectAncestorChain(l, b, c)[j].branch = b
    PROVE  collectAncestorChain(l, b, c)[j].cell \in Nat /\ collectAncestorChain(l, b, c)[j].cell <= c
<1> DEFINE segs == Segments(l, b, c)
           n == Len(Above(l, b)) + 1
           X == {f \in Facts : f.branch = b => f.cell <= c}
           ss == SegmentCells(l, segs)
           chain == collectAncestorChain(l, b, c)
<1>1. l \in Seq(Facts) /\ \A i \in DOMAIN l : l[i] \in Facts /\ l[i].cell \in Nat
  BY Positions DEF LogInv
<1>2. /\ n \in Nat \ {0} /\ DOMAIN segs = 1..n
      /\ segs[n] = [branch |-> b, stop |-> c, cutoff |-> Len(l)]
      /\ \A i \in 1..(n - 1) : segs[i] \in Forks(l, b)
  BY SegmentsShape
<1> HIDE DEF segs, n
<1>3. \A i \in 1..n : committedCellsUpTo(l, segs[i].branch, segs[i].stop) \in Seq(X)
  <2> TAKE i \in 1..n
  <2>1. CASE i = n
    <3> DEFINE Y == {l[p] : p \in {q \in OnBranch(l, "CellCommitted", b) : l[q].cell <= c}}
    <3>1. committedCellsUpTo(l, b, c) \in Seq(Y)
      BY <1>1, UpToOrder
    <3>2. Y \subseteq X
      BY <1>1 DEF OnBranch, OfType
    <3>3. segs[i].branch = b /\ segs[i].stop = c
      BY <1>2, <2>1
    <3> HIDE DEF X, Y
    <3> QED BY <3>1, <3>2, <3>3
  <2>2. CASE i \in 1..(n - 1)
    <3> DEFINE Y == {l[p] : p \in OnBranch(l, "CellCommitted", segs[i].branch)}
    <3>1. committedCellsUpTo(l, segs[i].branch, segs[i].stop) \in Seq(Y)
      BY <1>1, CommitsAreCommits
    <3>2. segs[i].branch # b
      BY <1>2, <2>2 DEF Forks
    <3>3. Y \subseteq X
      BY <1>1, <3>2 DEF OnBranch, OfType
    <3> HIDE DEF X, Y
    <3> QED BY <3>1, <3>3
  <2> QED BY <1>2, <2>1, <2>2
<1>4. ss \in Seq(Seq(X))
  <2> HIDE DEF X
  <2> QED BY <1>2, <1>3 DEF SegmentCells
<1>5. chain = FlattenSeq(ss)
  BY Zenon DEF collectAncestorChain, ChainOf, SegmentCells, segs
<1>6. FlattenSeq(ss) \in Seq(X)
  <2> HIDE DEF X, ss
  <2> QED BY <1>4, FlattenRange
<1>7. chain[j] \in X
  <2>1. chain \in Seq(X)
    BY <1>5, <1>6
  <2> HIDE DEF X, chain
  <2> QED BY <2>1 DEF chain
<1>8. \A f \in Facts : f.cell \in Nat
  BY DEF Facts
<1> QED BY <1>7, <1>8

\* Where a committed head is.
LEMMA MovedPlace ==
    ASSUME NEW l, LogInv(l), NEW c \in MovedCells(l)
    PROVE  /\ branchForCell(l, c) \in Nat /\ Created(l, branchForCell(l, c)) /\ c \in Nat
           /\ CommittedOn(l, branchForCell(l, c), c)
           /\ \E i \in OnBranch(l, "HeadMoved", branchForCell(l, c)) : l[i].cell = c
<1>1. l \in Seq(Facts) /\ HeadsInv(l)
  BY DEF LogInv
<1>2. PICK i \in OfType(l, "HeadMoved") : l[i].cell = c
  BY DEF MovedCells
<1>3. CommittedOn(l, l[i].branch, c) /\ Created(l, l[i].branch)
  BY <1>1, <1>2 DEF HeadsInv
<1>4. branchForCell(l, c) = l[i].branch
  BY <1>3, BranchForCell
<1>5. branchForCell(l, c) \in Nat /\ c \in Nat
  BY MovedBranch
<1> QED BY <1>2, <1>3, <1>4, <1>5 DEF OnBranch

\* A plan after one more fact.
LEMMA PlanStep ==
    ASSUME NEW l, LogInv(l), OrderInv(l), NEW f \in Facts, LogInv(Append(l, f)),
           f.type = "RuntimeTransitioned" => LoadHead(l, f.branch) \in {NoCell, f.cell},
           NEW c \in MovedCells(l)
    PROVE  LET old == LoadReplayPlan(l, c)
               new == LoadReplayPlan(Append(l, f), c)
           IN  /\ new.steps = old.steps /\ new.branch = old.branch
               /\ \/ new.transitions = old.transitions
                  \/ f.type = "RuntimeTransitioned" /\ f.branch = old.branch /\ f.cell = c
<1> DEFINE m == Append(l, f)
           b == branchForCell(l, c)
           at == visibleTransitions(l, b, c)
           later == visibleTransitions(m, b, c)
           chain == collectAncestorChain(l, b, c)
<1>1. l \in Seq(Facts) /\ m \in Seq(Facts)
  BY DEF LogInv
<1>2. b \in Nat /\ Created(l, b) /\ c \in Nat /\ CommittedOn(l, b, c)
  BY MovedPlace
<1>3. PICK i \in OnBranch(l, "HeadMoved", b) : l[i].cell = c
  BY MovedPlace
<1> HIDE DEF b
<1>4. branchForCell(m, c) = b
  <2>1. CommittedOn(m, b, c)
    BY <1>1, <1>2, KnownStays
  <2> QED BY <2>1, BranchForCell
<1>5. collectAncestorChain(m, b, c) = chain
  BY <1>2, ChainStays
<1>6. /\ at \in SUBSET DOMAIN l
      /\ \/ later = at
         \/ /\ f.type = "RuntimeTransitioned" /\ f.branch = b
            /\ \/ f.cell = NoCell
               \/ \E j \in DOMAIN chain : chain[j].branch = b /\ chain[j].cell = f.cell
  BY <1>2, VisibleStays
<1>7. /\ LoadReplayPlan(l, c).branch = b /\ LoadReplayPlan(l, c).steps = Cells(chain)
      /\ LoadReplayPlan(l, c).transitions = buildRuntimeTransitions(l, at)
  BY DEF LoadReplayPlan, PlanOf, b
<1>8. /\ LoadReplayPlan(m, c).branch = b /\ LoadReplayPlan(m, c).steps = Cells(chain)
      /\ LoadReplayPlan(m, c).transitions = buildRuntimeTransitions(m, later)
  <2> HIDE DEF chain, m, later
  <2> QED BY <1>4, <1>5 DEF LoadReplayPlan, PlanOf, later
<1> HIDE DEF at, later, chain
<1>9. CASE later = at
  <2>1. FactsAt(m, at) = FactsAt(l, at)
    BY <1>1, <1>6, FactsAtStays
  <2> HIDE DEF m
  <2>2. buildRuntimeTransitions(m, at) = buildRuntimeTransitions(l, at)
    BY <2>1 DEF buildRuntimeTransitions
  <2> QED BY <1>7, <1>8, <1>9, <2>2 DEF m
<1>10. CASE /\ f.type = "RuntimeTransitioned" /\ f.branch = b
            /\ \/ f.cell = NoCell
               \/ \E j \in DOMAIN chain : chain[j].branch = b /\ chain[j].cell = f.cell
  <2> DEFINE H == OnBranch(l, "HeadMoved", b)
  <2>1. H \in SUBSET Nat /\ IsFiniteSet(H) /\ H # {}
    BY <1>1, <1>3, Positions
  <2>2. Max(H) \in H /\ \A y \in H : y <= Max(H)
    <3> HIDE DEF H
    <3> QED BY <2>1, FiniteMaxProperties
  <2>3. LoadHead(l, b) = l[Max(H)].cell
    BY <2>1, Zenon DEF LoadHead
  <2>4. Max(H) \in OfType(l, "HeadMoved") /\ i \in OfType(l, "HeadMoved")
    BY <1>3, <2>2 DEF OnBranch
  <2>5. l[Max(H)].cell # NoCell
    BY <2>4, HeadsAreCells
  <2>6. f.cell = l[Max(H)].cell
    BY <1>10, <2>3, <2>5
  <2>7. f.cell \in Nat /\ c <= f.cell
    <3>1. i <= Max(H) /\ i \in Nat /\ Max(H) \in Nat
      BY <1>3, <2>1, <2>2
    <3>2. i = Max(H) \/ i < Max(H)
      BY <3>1
    <3>3. f.cell \in Nat
      BY DEF Facts
    <3> HIDE DEF H
    <3> QED BY <1>2, <1>3, <2>4, <2>6, <3>2, <3>3 DEF OrderInv
  <2>8. f.cell <= c
    <3>1. PICK j \in DOMAIN chain : chain[j].branch = b /\ chain[j].cell = f.cell
      BY <1>10, <2>5, <2>6
    <3> QED BY <1>2, <3>1, OwnCells DEF chain
  <2>9. f.cell = c
    BY <1>2, <2>7, <2>8
  <2> QED BY <1>7, <1>8, <1>10, <2>9 DEF m
<1> QED BY <1>6, <1>9, <1>10

\* The plan of a committed cell is immutable, whatever else is committed, forked,
\* restored or fails: what replays there is fixed once and for all, but for a transition
\* made on its branch at that very cell.
THEOREM PlansAreStable == Spec => PlanStable
<1> DEFINE Stable == \A c \in MovedCells(log) :
                        LET old == LoadReplayPlan(log, c)
                            new == LoadReplayPlan(log', c)
                        IN  /\ new.steps = old.steps /\ new.branch = old.branch
                            /\ new.transitions # old.transitions =>
                                  Last(log').type = "RuntimeTransitioned"
                                  /\ Last(log').branch = old.branch /\ Last(log').cell = c
<1>1. SessionInv /\ SessionInv' /\ CellOrderInv /\ [Next]_vars => [Stable]_log
  <2> SUFFICES ASSUME SessionInv, SessionInv', CellOrderInv, [Next]_vars, log' # log
               PROVE  Stable
    OBVIOUS
  <2>1. LogInv(log) /\ LogInv(log') /\ OrderInv(log)
    BY DEF SessionInv, CellOrderInv
  <2>2. log \in Seq(Facts) /\ log' \in Seq(Facts)
    BY <2>1 DEF LogInv
  <2>3. CASE \E f : log' = Append(log, f) /\ Gains(f)
    <3>1. PICK f : log' = Append(log, f) /\ Gains(f)
      BY <2>3
    <3>2. f \in Facts /\ Last(log') = f
      <4>1. log'[Len(log) + 1] = f /\ Len(log) + 1 \in DOMAIN log' /\ Len(log') = Len(log) + 1
        BY <2>2, <3>1
      <4> QED BY <2>2, <4>1 DEF Last
    <3>3. f.type = "RuntimeTransitioned" => LoadHead(log, f.branch) \in {NoCell, f.cell}
      BY <3>1 DEF Gains
    <3> QED BY <2>1, <3>1, <3>2, <3>3, PlanStep
  <2>4. CASE \E c \in MovedCells(log) :
               log' = Append(Append(log, BranchCreated(NextBranch, c)),
                             RestoreCompleted(c, NextBranch))
    <3>1. PICK d \in MovedCells(log) :
             log' = Append(Append(log, BranchCreated(NextBranch, d)),
                           RestoreCompleted(d, NextBranch))
      BY <2>4
    <3> DEFINE f == BranchCreated(NextBranch, d)
               g == RestoreCompleted(d, NextBranch)
               m == Append(log, f)
    <3>2. /\ f \in Facts /\ g \in Facts /\ LogInv(m) /\ f.type = "BranchCreated"
          /\ g.type = "RestoreCompleted"
      BY <2>1, ForkFacts
    <3> HIDE DEF f, g
    <3>3. OrderInv(m) /\ MovedCells(log) \subseteq MovedCells(m)
      BY <2>1, <2>2, <3>2, OtherOrder, KnownStays
    <3>4. ASSUME NEW c \in MovedCells(log)
          PROVE  LET old == LoadReplayPlan(log, c)
                     new == LoadReplayPlan(log', c)
                 IN  new.steps = old.steps /\ new.branch = old.branch
                     /\ new.transitions = old.transitions
      <4>1. LET old == LoadReplayPlan(log, c)
                new == LoadReplayPlan(m, c)
            IN  new.steps = old.steps /\ new.branch = old.branch
                /\ new.transitions = old.transitions
        BY <2>1, <3>2, PlanStep
      <4>2. log' = Append(m, g)
        BY <3>1 DEF m, f, g
      <4> HIDE DEF m
      <4>3. LET old == LoadReplayPlan(m, c)
                new == LoadReplayPlan(Append(m, g), c)
            IN  new.steps = old.steps /\ new.branch = old.branch
                /\ new.transitions = old.transitions
        BY <2>1, <3>2, <3>3, <4>2, PlanStep
      <4> QED BY <4>1, <4>2, <4>3
    <3> QED BY <3>4
  <2> QED BY <2>3, <2>4, NextGains
<1> QED BY <1>1, SessionInvariant, CellOrderInvariant, PTL DEF Spec, PlanStable

===============================================================================
