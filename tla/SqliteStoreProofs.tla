--------------------------- MODULE SqliteStoreProofs ---------------------------
(***************************************************************************)
(* Whatever the session writes meanwhile, a load of the SQLite store finds *)
(* every configuration it looks up, and its locals are well formed.        *)
(***************************************************************************)
EXTENDS SqliteStore, OrderedProofs, SequenceTheorems

Branches == 0..MaxBranches
CellIDs == 0..MaxCells

\* The rows of the facts table.
Facts ==
    [type : {"SessionStarted", "CellCommitted", "BranchCreated"},
     branch : Branches, cell : CellIDs]
    \cup [type : {"HeadMoved"}, branch : Branches, cell : CellIDs, previous : CellIDs]
    \cup [type : {"RestoreCompleted"}, branch : Branches, cell : CellIDs,
          newBranch : Branches]
    \cup [type : {"RuntimeAttached", "RuntimeTransitioned"},
          branch : Branches, cell : CellIDs, hash : Hashes]

Puts == [type : {"PutRuntimeConfig"}, hash : Hashes]

\* The facts that name a configuration, and those that name a committed cell.
HashFacts == {"RuntimeAttached", "RuntimeTransitioned"}
CellFacts == {"HeadMoved", "RestoreCompleted", "BranchCreated"}

\* The log begins with the attached configuration, and refers to nothing that is
\* not there: PutRuntimeConfig comes before the fact, CellCommitted before the
\* facts that name the cell.
LogInv ==
    /\ log \in Seq(Facts) /\ Len(log) >= 2
    /\ configs \subseteq Hashes /\ InitialHash \in configs
    /\ log[2].type = "RuntimeAttached"
    /\ \A i \in DOMAIN log : log[i].type \in HashFacts => log[i].hash \in configs
    /\ \A i \in DOMAIN log : log[i].type \in CellFacts => log[i].cell \in CommittedCells(log)

\* The operation in progress keeps to that order: what a fact refers to is there
\* or is written first.
TodoInv ==
    /\ todo \in Seq(Facts \cup Puts) /\ Len(todo) <= 2
    /\ \A i \in DOMAIN todo :
          /\ todo[i].type \in HashFacts =>
                todo[i].hash \in configs
                \/ \E j \in DOMAIN todo : /\ j < i /\ todo[j].type = "PutRuntimeConfig"
                                          /\ todo[j].hash = todo[i].hash
          /\ todo[i].type \in CellFacts =>
                todo[i].cell \in CommittedCells(log)
                \/ \E j \in DOMAIN todo : /\ j < i /\ todo[j].type = "CellCommitted"
                                          /\ todo[j].cell = todo[i].cell

Segment == [branch : Branches, stop : CellIDs, cutoff : Nat \cup {NoCutoff}]

PCs == {"idle", "started", "moves", "rows", "restored", "target", "parent", "owner",
        "commits", "attached", "records", "configs", "done", "failed"}
Ops == {"none", "state", "plan"}
Phases == {"none", "steps", "chain", "attached", "scope"}

Load ==
    [pc : PCs, op : Ops, from : Nat, branch : Branches, head : CellIDs,
     rows : Seq(Facts), phase : Phases, cur : Branches, stop : CellIDs,
     cutoff : Nat \cup {NoCutoff}, fork : Nat, segs : Seq(Segment), k : Nat,
     chain : Seq(Facts), steps : Seq(CellIDs), hash : Hashes,
     transitions : Seq([after : CellIDs, hash : Hashes]), want : Seq(Hashes)]

\* The locals of a load: what it has read stays there, for nothing is ever
\* removed from the two tables.
LoadOK(l) ==
    /\ l \in Load
    /\ l.pc # "failed"
    /\ l.pc = "commits" => l.k \in DOMAIN l.segs
    /\ l.pc = "owner" => l.fork \in OfType(log, "BranchCreated")
    /\ l.pc = "restored" => l.rows # <<>>
    /\ l.pc = "target" => l.head \in CommittedCells(log)
    /\ l.hash \in configs
    /\ \A i \in DOMAIN l.want : l.want[i] \in configs
    /\ \A i \in DOMAIN l.rows : /\ l.rows[i].type \in {"HeadMoved", "RestoreCompleted"}
                                /\ l.rows[i].cell \in CommittedCells(log)

LoadsInv ==
    /\ conn \in [Stores -> Readers \cup {Nobody}]
    /\ rd \in [Readers -> Load] /\ \A r \in Readers : LoadOK(rd[r])
    /\ loads \in [Readers -> 0..MaxLoads]

StoreInv == LogInv /\ TodoInv /\ LoadsInv

-----------------------------------------------------------------------------
(* Facts. *)

\* The columns of a fact.
LEMMA FactColumns ==
    ASSUME NEW f \in Facts
    PROVE  /\ f.branch \in Branches /\ f.cell \in CellIDs
           /\ f.type = "RestoreCompleted" => f.newBranch \in Branches
           /\ f.type \in HashFacts => f.hash \in Hashes
           /\ f.type # "PutRuntimeConfig"
<1>1. CASE f \in [type : {"SessionStarted", "CellCommitted", "BranchCreated"},
                  branch : Branches, cell : CellIDs]
  BY <1>1 DEF HashFacts
<1>2. CASE f \in [type : {"HeadMoved"}, branch : Branches, cell : CellIDs,
                  previous : CellIDs]
  BY <1>2 DEF HashFacts
<1>3. CASE f \in [type : {"RestoreCompleted"}, branch : Branches, cell : CellIDs,
                  newBranch : Branches]
  BY <1>3 DEF HashFacts
<1>4. CASE f \in [type : {"RuntimeAttached", "RuntimeTransitioned"},
                  branch : Branches, cell : CellIDs, hash : Hashes]
  BY <1>4 DEF HashFacts
<1> QED BY <1>1, <1>2, <1>3, <1>4 DEF Facts

\* The facts the session writes are rows of the table.
LEMMA Written ==
    ASSUME NEW b \in Branches, NEW c \in CellIDs
    PROVE  /\ CellCommitted(b, c) \in Facts /\ BranchCreated(b, c) \in Facts
           /\ \A d \in CellIDs : HeadMoved(b, d, c) \in Facts
           /\ \A d \in Branches : RestoreCompleted(c, d) \in Facts
           /\ \A h \in Hashes : /\ RuntimeTransitioned(b, c, h) \in Facts
                                /\ PutConfig(h) \in Puts
<1>1. NoBranch \in Branches
  BY SqliteAssumption DEF NoBranch, Branches
<1> QED BY <1>1 DEF Facts, Puts, CellCommitted, BranchCreated, HeadMoved,
        RestoreCompleted, RuntimeTransitioned, PutConfig

\* Sets of positions of the log are finite sets of positive numbers.
LEMMA Positions ==
    ASSUME log \in Seq(Facts), NEW P \in SUBSET DOMAIN log
    PROVE  /\ P \in SUBSET Nat /\ IsFiniteSet(P) /\ Cardinality(P) \in Nat
           /\ \A i \in P : i \in 1..Len(log) /\ log[i] \in Facts
           /\ P # {} => Min(P) \in P /\ Max(P) \in P
<1>1. Len(log) \in Nat /\ DOMAIN log = 1..Len(log)
  OBVIOUS
<1>2. P \in SUBSET Nat /\ \A i \in P : i \in 1..Len(log) /\ log[i] \in Facts
  BY <1>1
<1>3. IsFiniteSet(P) /\ Cardinality(P) \in Nat
  <2>1. IsFiniteSet(1..Len(log))
    BY <1>1, FS_Interval
  <2>2. IsFiniteSet(P)
    BY <1>1, <2>1, FS_Subset
  <2> QED BY <2>2, FS_CardinalityType
<1>4. P # {} => Min(P) \in P
  BY <1>2, MinProperties
<1>5. P # {} => Max(P) \in P
  <2>1. \A y \in P : y <= Len(log)
    BY <1>1, <1>2
  <2> QED BY <1>1, <1>2, <2>1, MaxProperties
<1> QED BY <1>2, <1>3, <1>4, <1>5

-----------------------------------------------------------------------------
(* What the queries return. *)

\* The branch of a committed cell.
LEMMA BranchOfCell ==
    ASSUME LogInv, NEW c \in CommittedCells(log)
    PROVE  branchForCell(log, c) \in Branches
<1> DEFINE P == OfCell(log, "CellCommitted", c)
<1>1. P \in SUBSET DOMAIN log /\ P # {}
  BY DEF OfCell, OfType, CommittedCells
<1>2. Min(P) \in P /\ \A i \in P : log[i] \in Facts
  <2> HIDE DEF P
  <2> QED BY <1>1, Positions DEF LogInv
<1>3. log[Min(P)].branch \in Branches
  <2> HIDE DEF P
  <2> QED BY <1>2, FactColumns
<1> QED BY <1>3 DEF branchForCell

\* The cursor of the session is a branch and a cell.
LEMMA CursorType ==
    ASSUME LogInv
    PROVE  Cursor.branch \in Branches /\ Cursor.head \in CellIDs
<1> DEFINE P == OfType(log, "HeadMoved") \cup OfType(log, "RestoreCompleted")
           f == log[Max(P)]
<1>1. P \in SUBSET DOMAIN log
  BY DEF OfType
<1>2. CASE P = {}
  <2>1. Cursor = StateAt(log, RootBranch, NoCell)
    BY <1>2 DEF Cursor, LoadSessionState
  <2>2. Cursor.branch = RootBranch /\ Cursor.head = NoCell
    BY <2>1 DEF StateAt
  <2> QED BY <2>2, SqliteAssumption DEF RootBranch, NoCell, Branches, CellIDs
<1>3. CASE P # {}
  <2>1. Cursor = StateAt(log, ActiveBranch(log, f), f.cell)
    BY <1>3 DEF Cursor, LoadSessionState
  <2>2. Cursor.branch = ActiveBranch(log, f) /\ Cursor.head = f.cell
    BY <2>1 DEF StateAt
  <2>3. Max(P) \in P /\ f \in Facts
    <3> HIDE DEF P
    <3> QED BY <1>1, <1>3, Positions DEF LogInv
  <2>4. f.type \in {"HeadMoved", "RestoreCompleted"} /\ f.cell \in CommittedCells(log)
    BY <2>3 DEF OfType, LogInv, CellFacts
  <2>5. f.cell \in CellIDs
    BY <2>3, FactColumns
  <2>6. ActiveBranch(log, f) \in Branches
    <3> HIDE DEF f
    <3>1. CASE f.type = "HeadMoved"
      BY <2>3, <3>1, FactColumns, Zenon DEF ActiveBranch
    <3>2. CASE f.type = "RestoreCompleted" /\ f.newBranch # NoBranch
      <4>1. f.type # "HeadMoved"
        BY <3>2
      <4>2. ActiveBranch(log, f) = f.newBranch
        BY <3>2, <4>1, Zenon DEF ActiveBranch
      <4> QED BY <2>3, <3>2, <4>2, FactColumns
    <3>3. CASE f.type = "RestoreCompleted" /\ f.newBranch = NoBranch
      <4>1. f.type # "HeadMoved"
        BY <3>3
      <4>2. ActiveBranch(log, f) = branchForCell(log, f.cell)
        BY <3>3, <4>1, Zenon DEF ActiveBranch
      <4> QED BY <2>4, <4>2, BranchOfCell
    <3> QED BY <2>4, <3>1, <3>2, <3>3
  <2> QED BY <2>2, <2>5, <2>6
<1> QED BY <1>2, <1>3

\* The attached configuration is there.
LEMMA AttachedIsThere ==
    ASSUME LogInv
    PROVE  AttachedHash(log) \in configs
<1> DEFINE P == OfType(log, "RuntimeAttached")
<1>1. P \in SUBSET DOMAIN log
  BY DEF OfType
<1>2. 2 \in DOMAIN log
  BY DEF LogInv
<1>3. P # {}
  BY <1>2 DEF OfType, LogInv
<1>4. Min(P) \in P
  <2> HIDE DEF P
  <2> QED BY <1>1, <1>3, Positions DEF LogInv
<1>5. Min(P) \in DOMAIN log /\ log[Min(P)].type \in HashFacts
  BY <1>4 DEF OfType, HashFacts
<1> QED BY <1>5 DEF AttachedHash, LogInv

\* Rows selected by position are rows of the table.
LEMMA SelectedRows ==
    ASSUME LogInv, NEW P \in SUBSET DOMAIN log
    PROVE  /\ FactsAt(log, P) \in Seq(Facts)
           /\ \A k \in DOMAIN FactsAt(log, P) : \E i \in P : FactsAt(log, P)[k] = log[i]
<1> DEFINE n == Cardinality(P)
           order == InOrder(P)
<1>1. P \in SUBSET Nat /\ IsFiniteSet(P) /\ \A i \in P : log[i] \in Facts
  BY Positions DEF LogInv
<1>2. n \in Nat /\ order \in [1..n -> P]
  BY <1>1, InOrderProperties
<1>3. FactsAt(log, P) = [k \in 1..n |-> log[order[k]]]
  <2>1. DOMAIN order = 1..n
    BY <1>2
  <2> QED BY <2>1, Zenon DEF FactsAt
<1> HIDE DEF order, n
<1> QED BY <1>1, <1>2, <1>3

\* committedCellsUpTo returns facts.
LEMMA CommittedRows ==
    ASSUME LogInv, NEW b, NEW stop
    PROVE  committedCellsUpTo(log, b, stop) \in Seq(Facts)
<1> DEFINE s == Commits(log, b)
           at == {i \in DOMAIN s : s[i].cell = stop}
<1>1. s \in Seq(Facts)
  <2>1. OnBranch(log, "CellCommitted", b) \in SUBSET DOMAIN log
    BY DEF OnBranch, OfType
  <2> QED BY <2>1, SelectedRows DEF Commits
<1> HIDE DEF s
<1>2. committedCellsUpTo(log, b, stop)
        = SubSeq(s, 1, IF at = {} THEN Len(s) ELSE Min(at))
  BY Zenon DEF committedCellsUpTo, UpTo, s
<1>3. at # {} => Min(at) \in at
  <2>1. at \in SUBSET Nat
    BY <1>1
  <2> HIDE DEF at
  <2> QED BY <2>1, MinProperties
<1>4. (IF at = {} THEN Len(s) ELSE Min(at)) \in 0..Len(s)
  BY <1>1, <1>3
<1> DEFINE m == IF at = {} THEN Len(s) ELSE Min(at)
<1> HIDE DEF m, at
<1>5. SubSeq(s, 1, m) \in Seq(Facts)
  BY <1>1, <1>4 DEF m
<1> QED BY <1>2, <1>5 DEF m

\* buildRuntimeTransitions returns configurations that are there.
LEMMA TransitionRows ==
    ASSUME LogInv, NEW P \in SUBSET OfType(log, "RuntimeTransitioned")
    PROVE  LET ts == buildRuntimeTransitions(log, P)
           IN  /\ ts \in Seq([after : CellIDs, hash : Hashes])
               /\ \A k \in DOMAIN ts : ts[k].hash \in configs
<1> DEFINE fs == FactsAt(log, P)
           ts == buildRuntimeTransitions(log, P)
<1>1. P \in SUBSET DOMAIN log
  BY DEF OfType
<1>2. fs \in Seq(Facts) /\ \A k \in DOMAIN fs : \E i \in P : fs[k] = log[i]
  BY <1>1, SelectedRows
<1>3. ts = [k \in DOMAIN fs |-> [after |-> fs[k].cell, hash |-> fs[k].hash]]
  BY Zenon DEF buildRuntimeTransitions
<1> HIDE DEF fs, ts
<1>4. ASSUME NEW k \in DOMAIN fs
      PROVE  fs[k].cell \in CellIDs /\ fs[k].hash \in configs
  <2>1. PICK i \in P : fs[k] = log[i]
    BY <1>2
  <2>2. i \in DOMAIN log /\ log[i].type \in HashFacts
    BY <1>1 DEF OfType, HashFacts
  <2>3. fs[k] \in Facts
    BY <1>2
  <2> QED BY <2>1, <2>2, <2>3, FactColumns DEF LogInv
<1>5. DOMAIN fs = 1..Len(fs) /\ Len(fs) \in Nat
  BY <1>2
<1>6. configs \subseteq Hashes
  BY DEF LogInv
<1> QED BY <1>3, <1>4, <1>5, <1>6 DEF ts

-----------------------------------------------------------------------------
(* The session that writes. *)

\* A row that was there is still there after an append.
LEMMA AppendKeeps ==
    ASSUME log \in Seq(Facts), NEW f \in Facts, log' = Append(log, f)
    PROVE  /\ log' \in Seq(Facts) /\ Len(log') = Len(log) + 1
           /\ DOMAIN log' = DOMAIN log \cup {Len(log) + 1}
           /\ \A i \in DOMAIN log : log'[i] = log[i]
           /\ log'[Len(log) + 1] = f
           /\ CommittedCells(log) \subseteq CommittedCells(log')
           /\ f.type = "CellCommitted" => f.cell \in CommittedCells(log')
           /\ \A t : OfType(log, t) \subseteq OfType(log', t)
<1>1. /\ log' \in Seq(Facts) /\ Len(log') = Len(log) + 1
      /\ DOMAIN log' = DOMAIN log \cup {Len(log) + 1}
      /\ \A i \in DOMAIN log : log'[i] = log[i]
      /\ log'[Len(log) + 1] = f
  OBVIOUS
<1>2. \A t : OfType(log, t) \subseteq OfType(log', t)
  BY <1>1 DEF OfType
<1>3. \A i \in OfType(log, "CellCommitted") : log'[i] = log[i]
  BY <1>1 DEF OfType
<1>4. CommittedCells(log) \subseteq CommittedCells(log')
  BY <1>2, <1>3 DEF CommittedCells
<1>5. f.type = "CellCommitted" => Len(log) + 1 \in OfType(log', "CellCommitted")
  BY <1>1 DEF OfType
<1>6. f.type = "CellCommitted" => f.cell \in CommittedCells(log')
  BY <1>1, <1>5 DEF CommittedCells
<1> QED BY <1>1, <1>2, <1>4, <1>6

\* Loads in progress do not mind what is added to the tables.
LEMMA LoadsKept ==
    ASSUME LoadsInv, UNCHANGED <<conn, rd, loads>>,
           CommittedCells(log) \subseteq CommittedCells(log)',
           OfType(log, "BranchCreated") \subseteq OfType(log, "BranchCreated")',
           configs \subseteq configs'
    PROVE  LoadsInv'
<1>1. \A r \in Readers : LoadOK(rd[r])'
  BY DEF LoadsInv, LoadOK
<1> QED BY <1>1 DEF LoadsInv

\* An operation begins: what it is going to write is in order.
LEMMA BeginStep ==
    ASSUME StoreInv, Submit \/ (\E h \in Hashes : Transition(h))
                     \/ (\E c \in 1..MaxCells : Restore(c) \/ Fork(c))
    PROVE  StoreInv'
<1> USE DEF StoreInv
<1>1. UNCHANGED <<log, configs, conn, rd, loads>>
  BY DEF Submit, Transition, Restore, Fork, Begin
<1>2. LogInv' /\ LoadsInv'
  BY <1>1 DEF LogInv, LoadsInv, LoadOK, CommittedCells, OfType
<1>3. Cursor.branch \in Branches /\ Cursor.head \in CellIDs
  BY CursorType
<1>4. log \in Seq(Facts) /\ configs' = configs
      /\ CommittedCells(log)' = CommittedCells(log)
  BY <1>1 DEF LogInv, CommittedCells, OfType
<1>5. \A t : Count(t) \in Nat
  <2> TAKE t
  <2>1. OfType(log, t) \in SUBSET DOMAIN log
    BY DEF OfType
  <2> QED BY <1>4, <2>1, Positions DEF Count
<1>6. MovedCells(log) \subseteq CommittedCells(log)
  BY DEF MovedCells, OfType, LogInv, CellFacts
<1>7. CASE Submit
  <2> DEFINE c == Count("CellCommitted") + 1
             f == CellCommitted(Cursor.branch, c)
             g == HeadMoved(Cursor.branch, Cursor.head, c)
  <2>1. c \in CellIDs
    BY <1>5, <1>7 DEF Submit, CellIDs
  <2>2. todo' = <<f, g>>
    BY <1>7 DEF Submit, Begin
  <2>3. f \in Facts /\ g \in Facts
    BY <1>3, <2>1, Written
  <2>4. /\ f.type = "CellCommitted" /\ f.cell = c
        /\ g.type = "HeadMoved" /\ g.cell = c
    BY DEF CellCommitted, HeadMoved
  <2> HIDE DEF f, g, c
  <2> QED BY <1>2, <2>2, <2>3, <2>4 DEF TodoInv, HashFacts, CellFacts
<1>8. ASSUME NEW h \in Hashes, Transition(h) PROVE StoreInv'
  <2> DEFINE f == PutConfig(h)
             g == RuntimeTransitioned(Cursor.branch, Cursor.head, h)
  <2>1. todo' = <<f, g>>
    BY <1>8 DEF Transition, Begin
  <2>2. f \in Puts /\ g \in Facts
    BY <1>3, Written
  <2>3. /\ f.type = "PutRuntimeConfig" /\ f.hash = h
        /\ g.type = "RuntimeTransitioned" /\ g.hash = h
    BY DEF PutConfig, RuntimeTransitioned
  <2> HIDE DEF f, g
  <2> QED BY <1>2, <2>1, <2>2, <2>3 DEF TodoInv, HashFacts, CellFacts
<1>9. ASSUME NEW c \in 1..MaxCells, Restore(c) PROVE StoreInv'
  <2> DEFINE f == RestoreCompleted(c, NoBranch)
  <2>1. todo' = <<f>> /\ c \in CommittedCells(log)
    BY <1>6, <1>9 DEF Restore, Begin
  <2>2. f \in Facts
    BY SqliteAssumption, Written DEF CellIDs, Branches, NoBranch
  <2>3. f.type = "RestoreCompleted" /\ f.cell = c
    BY DEF RestoreCompleted
  <2> HIDE DEF f
  <2> QED BY <1>2, <1>4, <2>1, <2>2, <2>3 DEF TodoInv, HashFacts, CellFacts
<1>10. ASSUME NEW c \in 1..MaxCells, Fork(c) PROVE StoreInv'
  <2> DEFINE b == Count("BranchCreated") + RootBranch + 1
             f == BranchCreated(b, c)
             g == RestoreCompleted(c, b)
  <2>1. todo' = <<f, g>> /\ c \in CommittedCells(log)
    BY <1>6, <1>10 DEF Fork, Begin
  <2>2. b \in Branches /\ c \in CellIDs
    BY <1>5, <1>10, SqliteAssumption DEF Fork, RootBranch, Branches, CellIDs
  <2>3. f \in Facts /\ g \in Facts
    BY <2>2, Written
  <2>4. /\ f.type = "BranchCreated" /\ f.cell = c
        /\ g.type = "RestoreCompleted" /\ g.cell = c
    BY DEF BranchCreated, RestoreCompleted
  <2> HIDE DEF f, g, b
  <2> QED BY <1>2, <1>4, <2>1, <2>3, <2>4 DEF TodoInv, HashFacts, CellFacts
<1> QED BY <1>7, <1>8, <1>9, <1>10

\* One INSERT: it refers to what is there, and what comes after it may refer to it.
LEMMA AppendStep ==
    ASSUME StoreInv, AppendFact
    PROVE  StoreInv'
<1> DEFINE f == Head(todo)
<1>1. /\ todo \in Seq(Facts \cup Puts) /\ todo # <<>> /\ Len(todo) <= 2
      /\ todo' = Tail(todo) /\ UNCHANGED <<conn, rd, loads>>
      /\ LogInv /\ TodoInv /\ LoadsInv
  BY DEF StoreInv, TodoInv, AppendFact
<1>2. /\ f \in Facts \cup Puts /\ f = todo[1] /\ 1 \in DOMAIN todo
      /\ todo' \in Seq(Facts \cup Puts) /\ Len(todo') <= 2
      /\ \A i \in DOMAIN todo' : i + 1 \in DOMAIN todo /\ todo'[i] = todo[i + 1]
      /\ \A i \in DOMAIN todo : i # 1 => i - 1 \in DOMAIN todo' /\ todo'[i - 1] = todo[i]
  BY <1>1
<1>3. \A i \in DOMAIN todo : i \in Nat /\ i >= 1
  BY <1>1
<1>4. \A i \in DOMAIN todo' : i \in Nat
  BY <1>2
<1> HIDE DEF f
<1>5. f.type \in HashFacts => f.hash \in configs
  BY <1>1, <1>2, <1>3 DEF TodoInv
<1>6. f.type \in CellFacts => f.cell \in CommittedCells(log)
  BY <1>1, <1>2, <1>3 DEF TodoInv
<1>7. SUFFICES ASSUME /\ LogInv' /\ LoadsInv'
                      /\ CommittedCells(log) \subseteq CommittedCells(log')
                      /\ configs \subseteq configs'
                      /\ f.type = "PutRuntimeConfig" => f.hash \in configs'
                      /\ f.type = "CellCommitted" => f.cell \in CommittedCells(log')
               PROVE  StoreInv'
  <2>1. CASE f.type = "PutRuntimeConfig"
    <3>1. log' = log /\ configs' = configs \cup {f.hash}
      BY <2>1 DEF AppendFact, f
    <3>2. f \in Puts
      BY <1>2, <2>1, FactColumns
    <3>3. f.hash \in Hashes
      BY <3>2 DEF Puts
    <3>4. /\ CommittedCells(log') = CommittedCells(log)
          /\ \A t : OfType(log', t) = OfType(log, t)
      BY <3>1
    <3>5. LogInv'
      BY <1>1, <3>1, <3>3, <3>4 DEF LogInv
    <3>6. LoadsInv'
      BY <1>1, <3>1, <3>4, LoadsKept
    <3> QED BY <1>7, <2>1, <3>1, <3>4, <3>5, <3>6
  <2>2. CASE f.type # "PutRuntimeConfig"
    <3>1. log' = Append(log, f) /\ configs' = configs
      BY <2>2 DEF AppendFact, f
    <3>2. f \in Facts
      BY <1>2, <2>2 DEF Puts
    <3>3. log \in Seq(Facts)
      BY <1>1 DEF LogInv
    <3>4. /\ log' \in Seq(Facts) /\ Len(log') = Len(log) + 1
          /\ DOMAIN log' = DOMAIN log \cup {Len(log) + 1}
          /\ \A i \in DOMAIN log : log'[i] = log[i]
          /\ log'[Len(log) + 1] = f
          /\ CommittedCells(log) \subseteq CommittedCells(log')
          /\ f.type = "CellCommitted" => f.cell \in CommittedCells(log')
          /\ \A t : OfType(log, t) \subseteq OfType(log', t)
      BY <3>1, <3>2, <3>3, AppendKeeps
    <3>5. Len(log') >= 2 /\ log'[2] = log[2]
      BY <1>1, <3>3, <3>4 DEF LogInv
    <3>6. LogInv'
      BY <1>1, <1>5, <1>6, <3>1, <3>4, <3>5 DEF LogInv
    <3>7. LoadsInv'
      BY <1>1, <3>1, <3>4, LoadsKept
    <3> QED BY <1>7, <2>2, <3>1, <3>4, <3>6, <3>7
  <2> QED BY <2>1, <2>2
<1>8. ASSUME NEW i \in DOMAIN todo'
      PROVE  /\ todo'[i].type \in HashFacts =>
                  todo'[i].hash \in configs'
                  \/ \E j \in DOMAIN todo' : /\ j < i /\ todo'[j].type = "PutRuntimeConfig"
                                             /\ todo'[j].hash = todo'[i].hash
             /\ todo'[i].type \in CellFacts =>
                  todo'[i].cell \in CommittedCells(log')
                  \/ \E j \in DOMAIN todo' : /\ j < i /\ todo'[j].type = "CellCommitted"
                                             /\ todo'[j].cell = todo'[i].cell
  <2>1. i + 1 \in DOMAIN todo /\ todo'[i] = todo[i + 1] /\ i \in Nat
    BY <1>2, <1>4
  <2>2. ASSUME NEW j \in DOMAIN todo, j < i + 1, j # 1
        PROVE  j - 1 \in DOMAIN todo' /\ j - 1 < i /\ todo'[j - 1] = todo[j]
    BY <1>2, <1>3, <2>1, <2>2
  <2>3. ASSUME todo'[i].type \in HashFacts, todo'[i].hash \notin configs'
        PROVE  \E j \in DOMAIN todo' : /\ j < i /\ todo'[j].type = "PutRuntimeConfig"
                                       /\ todo'[j].hash = todo'[i].hash
    <3>1. PICK j \in DOMAIN todo : /\ j < i + 1 /\ todo[j].type = "PutRuntimeConfig"
                                   /\ todo[j].hash = todo[i + 1].hash
      BY <1>1, <1>7, <2>1, <2>3 DEF TodoInv
    <3>2. j # 1
      BY <1>2, <1>7, <2>1, <2>3, <3>1
    <3> QED BY <2>1, <2>2, <3>1, <3>2
  <2>4. ASSUME todo'[i].type \in CellFacts, todo'[i].cell \notin CommittedCells(log')
        PROVE  \E j \in DOMAIN todo' : /\ j < i /\ todo'[j].type = "CellCommitted"
                                       /\ todo'[j].cell = todo'[i].cell
    <3>1. PICK j \in DOMAIN todo : /\ j < i + 1 /\ todo[j].type = "CellCommitted"
                                   /\ todo[j].cell = todo[i + 1].cell
      BY <1>1, <1>7, <2>1, <2>4 DEF TodoInv
    <3>2. j # 1
      BY <1>2, <1>7, <2>1, <2>4, <3>1
    <3> QED BY <2>1, <2>2, <3>1, <3>2
  <2> QED BY <2>3, <2>4
<1>9. TodoInv'
  BY <1>2, <1>8 DEF TodoInv
<1> QED BY <1>7, <1>9 DEF StoreInv

\* What is left of an operation is not written.
LEMMA AbandonStep ==
    ASSUME StoreInv, Abandon
    PROVE  StoreInv'
<1>1. UNCHANGED <<log, configs, conn, rd, loads>> /\ todo' = <<>>
  BY DEF Abandon
<1>2. LogInv' /\ LoadsInv'
  BY <1>1 DEF StoreInv, LogInv, LoadsInv, LoadOK, CommittedCells, OfType
<1>3. TodoInv'
  BY <1>1 DEF TodoInv
<1> QED BY <1>2, <1>3 DEF StoreInv

-----------------------------------------------------------------------------
(* Loads. *)

\* A step that changes the locals of one load, and perhaps who holds the
\* connection, keeps the invariant if the new locals are well formed.
LEMMA LocalsStep ==
    ASSUME StoreInv, NEW r \in Readers, NEW l, LoadOK(l),
           rd' = [rd EXCEPT ![r] = l],
           conn' \in [Stores -> Readers \cup {Nobody}],
           loads' \in [Readers -> 0..MaxLoads],
           UNCHANGED <<log, configs, todo>>
    PROVE  StoreInv'
<1>1. LogInv' /\ TodoInv'
  BY DEF StoreInv, LogInv, TodoInv, CommittedCells, OfType
<1>2. \A q \in Readers : rd'[q] = IF q = r THEN l ELSE rd[q]
  BY DEF StoreInv, LoadsInv
<1>3. \A q \in Readers : LoadOK(rd'[q])
  BY <1>2 DEF StoreInv, LoadsInv
<1>4. \A q \in Readers : LoadOK(rd[q])'
  BY <1>3 DEF LoadOK, OfType, CommittedCells
<1>5. rd' \in [Readers -> Load]
  BY DEF StoreInv, LoadsInv, LoadOK
<1> QED BY <1>1, <1>4, <1>5 DEF StoreInv, LoadsInv

\* The same for a load that goes on.
LEMMA GoesStep ==
    ASSUME StoreInv, NEW r \in Readers, NEW l, LoadOK(l), Goes(r, l)
    PROVE  StoreInv'
<1>1. /\ rd' = [rd EXCEPT ![r] = l] /\ UNCHANGED <<log, configs, conn, loads, todo>>
      /\ conn \in [Stores -> Readers \cup {Nobody}] /\ loads \in [Readers -> 0..MaxLoads]
  BY DEF Goes, StoreInv, LoadsInv
<1> QED BY <1>1, LocalsStep

\* A load that has not begun, or has just been called.
LEMMA IdleOK ==
    ASSUME StoreInv
    PROVE  /\ LoadOK(Idle)
           /\ \A n \in Nat : LoadOK([[Idle EXCEPT !.op = "state", !.pc = "started"]
                                         EXCEPT !.from = n])
           /\ \A n \in Nat : \A c \in CommittedCells(log) \cap CellIDs :
                 LoadOK([[Idle EXCEPT !.op = "plan", !.pc = "target", !.head = c]
                           EXCEPT !.from = n])
<1>1. InitialHash \in configs /\ InitialHash \in Hashes
  BY SqliteAssumption DEF StoreInv, LogInv
<1>2. NoBranch \in Branches /\ NoCell \in CellIDs
  BY SqliteAssumption DEF NoBranch, Branches, NoCell, CellIDs
<1>3. Idle \in Load
  BY <1>1, <1>2 DEF Idle, Load, PCs, Ops, Phases
<1>4. Idle.want = <<>> /\ Idle.rows = <<>> /\ Idle.hash = InitialHash /\ Idle.pc = "idle"
  BY DEF Idle
<1>5. LoadOK(Idle)
  BY <1>1, <1>3, <1>4 DEF LoadOK
<1>6. ASSUME NEW n \in Nat
      PROVE  LoadOK([[Idle EXCEPT !.op = "state", !.pc = "started"] EXCEPT !.from = n])
  <2> DEFINE m == [[Idle EXCEPT !.op = "state", !.pc = "started"] EXCEPT !.from = n]
  <2>1. m \in Load
    BY <1>3 DEF Load, PCs, Ops
  <2>2. m.want = <<>> /\ m.rows = <<>> /\ m.hash = InitialHash /\ m.pc = "started"
    BY <1>3, <1>4 DEF Load
  <2> HIDE DEF m
  <2>3. LoadOK(m)
    BY <1>1, <2>1, <2>2 DEF LoadOK
  <2> QED BY <2>3 DEF m
<1>7. ASSUME NEW n \in Nat, NEW c \in CommittedCells(log) \cap CellIDs
      PROVE  LoadOK([[Idle EXCEPT !.op = "plan", !.pc = "target", !.head = c]
                        EXCEPT !.from = n])
  <2> DEFINE m == [[Idle EXCEPT !.op = "plan", !.pc = "target", !.head = c]
                      EXCEPT !.from = n]
  <2>1. m \in Load
    BY <1>3 DEF Load, PCs, Ops
  <2>2. /\ m.want = <<>> /\ m.rows = <<>> /\ m.hash = InitialHash /\ m.pc = "target"
        /\ m.head = c
    BY <1>3, <1>4 DEF Load
  <2> HIDE DEF m
  <2>3. LoadOK(m)
    BY <1>1, <2>1, <2>2 DEF LoadOK
  <2> QED BY <2>3 DEF m
<1> QED BY <1>5, <1>6, <1>7

\* A load that begins to climb, with what another has read.
LEMMA ClimbOK ==
    ASSUME NEW l \in Load, NEW phase \in Phases, NEW o, LoadOK(o),
           l.want = o.want, l.rows = o.rows, l.hash = o.hash
    PROVE  LoadOK(Climb(l, phase))
<1> DEFINE m == Climb(l, phase)
<1>1. l \in Load
  OBVIOUS
<1> DEFINE e == <<>>
           q == IF phase = "scope" THEN l.chain ELSE <<>>
           p == [l EXCEPT !.pc = "parent", !.phase = phase, !.cur = l.branch,
                          !.stop = l.head, !.cutoff = NoCutoff, !.segs = e,
                          !.chain = q]
<1>0. q \in Seq(Facts) /\ e \in Seq(Segment) /\ l.branch \in Branches /\ l.head \in CellIDs
  BY <1>1 DEF Load
<1>5. m = p
  BY Zenon DEF Climb
<1> HIDE DEF m, q, e
<1>2. m \in Load
  BY <1>0, <1>1, <1>5 DEF Load, PCs
<1>3. m.want = l.want /\ m.rows = l.rows /\ m.hash = l.hash /\ m.pc = "parent"
  BY <1>1, <1>5 DEF Load
<1>4. LoadOK(m)
  BY <1>2, <1>3 DEF LoadOK
<1> QED BY <1>4 DEF m

\* A load is called, or returns.
LEMMA CallStep ==
    ASSUME StoreInv, NEW r \in Readers,
           \/ CallLoadSessionState(r) \/ Return(r) \/ Cancel(r)
           \/ \E c \in 1..MaxCells : CallLoadReplayPlan(r, c)
    PROVE  StoreInv'
<1>1. LoadOK(Idle) /\ Len(log) \in Nat
  <2>1. Len(log) \in Nat
    BY DEF StoreInv, LogInv
  <2> QED BY <2>1, IdleOK
<1>2. /\ conn \in [Stores -> Readers \cup {Nobody}] /\ loads \in [Readers -> 0..MaxLoads]
      /\ MaxLoads \in Nat
  BY SqliteAssumption DEF StoreInv, LoadsInv
<1>3. ASSUME NEW l, Call(r, l), LoadOK([l EXCEPT !.from = Len(log)])
      PROVE  StoreInv'
  <2>1. loads[r] \in Nat /\ loads[r] < MaxLoads /\ loads' = [loads EXCEPT ![r] = @ + 1]
    BY <1>2, <1>3 DEF Call
  <2>2. loads' \in [Readers -> 0..MaxLoads]
    BY <1>2, <2>1
  <2>3. /\ rd' = [rd EXCEPT ![r] = [l EXCEPT !.from = Len(log)]]
        /\ UNCHANGED <<log, configs, conn, todo>>
    BY <1>3 DEF Call
  <2> DEFINE m == [l EXCEPT !.from = Len(log)]
  <2>4. LoadOK(m) /\ rd' = [rd EXCEPT ![r] = m]
    BY <1>3, <2>3
  <2> HIDE DEF m
  <2> QED BY <1>2, <2>2, <2>3, <2>4, LocalsStep
<1>4. CASE CallLoadSessionState(r)
  <2> DEFINE l == [Idle EXCEPT !.op = "state", !.pc = "started"]
  <2>1. Call(r, l)
    BY <1>4 DEF CallLoadSessionState
  <2>2. LoadOK([l EXCEPT !.from = Len(log)])
    BY <1>1, IdleOK
  <2> HIDE DEF l
  <2> QED BY <1>3, <2>1, <2>2
<1>5. ASSUME NEW c \in 1..MaxCells, CallLoadReplayPlan(r, c) PROVE StoreInv'
  <2> DEFINE l == [Idle EXCEPT !.op = "plan", !.pc = "target", !.head = c]
  <2>1. Call(r, l) /\ c \in CommittedCells(log) \cap CellIDs
    <3>1. c \in CellIDs
      BY SqliteAssumption DEF CellIDs
    <3>2. Call(r, l) /\ c \in CommittedCells(log)
      BY <1>5, Zenon DEF CallLoadReplayPlan
    <3> QED BY <3>1, <3>2
  <2>2. LoadOK([l EXCEPT !.from = Len(log)])
    BY <1>1, <2>1, IdleOK
  <2> HIDE DEF l
  <2> QED BY <1>3, <2>1, <2>2
<1>6. CASE Return(r)
  BY <1>1, <1>6, GoesStep DEF Return
<1>7. CASE Cancel(r)
  <2>1. /\ rd' = [rd EXCEPT ![r] = Idle]
        /\ conn' = [conn EXCEPT ![ReaderStore] = IF @ = r THEN Nobody ELSE @]
        /\ UNCHANGED <<log, configs, loads, todo>>
    BY <1>7 DEF Cancel
  <2>2. conn' \in [Stores -> Readers \cup {Nobody}]
    BY <1>2, <2>1
  <2> QED BY <1>1, <1>2, <2>1, <2>2, LocalsStep
<1> QED BY <1>4, <1>5, <1>6, <1>7

\* loadSessionStarted, and the rows of LoadSessionState.
LEMMA RowsStep ==
    ASSUME StoreInv, NEW r \in Readers,
           LoadStarted(r) \/ OpenRows(r) \/ ScanRow(r) \/ CloseRows(r)
    PROVE  StoreInv'
<1> DEFINE l == rd[r]
<1>1. /\ LoadOK(l) /\ l \in Load /\ rd \in [Readers -> Load] /\ LogInv
      /\ conn \in [Stores -> Readers \cup {Nobody}] /\ loads \in [Readers -> 0..MaxLoads]
  BY DEF StoreInv, LoadsInv
<1>2. CASE LoadStarted(r)
  <2> DEFINE m == [l EXCEPT !.branch = RootBranch, !.pc = "moves"]
  <2>1. RootBranch \in Branches
    BY SqliteAssumption DEF RootBranch, Branches
  <2>2. LoadOK(m)
    BY <1>1, <2>1 DEF LoadOK, Load, PCs
  <2>3. Goes(r, m)
    BY <1>2 DEF LoadStarted, Query
  <2> HIDE DEF m
  <2> QED BY <2>2, <2>3, GoesStep
<1>3. CASE OpenRows(r)
  <2> DEFINE P == OfType(log, "HeadMoved") \cup OfType(log, "RestoreCompleted")
             fs == FactsAt(log, P)
             m == [l EXCEPT !.pc = "rows", !.rows = fs]
  <2>1. P \in SUBSET DOMAIN log
    BY DEF OfType
  <2>2. fs \in Seq(Facts) /\ \A k \in DOMAIN fs : \E i \in P : fs[k] = log[i]
    <3> HIDE DEF P
    <3> QED BY <1>1, <2>1, SelectedRows
  <2>3. \A i \in P : /\ log[i].type \in {"HeadMoved", "RestoreCompleted"}
                     /\ log[i].cell \in CommittedCells(log)
    BY <1>1 DEF OfType, LogInv, CellFacts
  <2>4. \A k \in DOMAIN fs : /\ fs[k].type \in {"HeadMoved", "RestoreCompleted"}
                             /\ fs[k].cell \in CommittedCells(log)
    <3> HIDE DEF P, fs
    <3> QED BY <2>2, <2>3
  <2>5. /\ rd' = [rd EXCEPT ![r].pc = "rows", ![r].rows = fs]
        /\ conn' = [conn EXCEPT ![ReaderStore] = r]
        /\ UNCHANGED <<log, configs, loads, todo>>
    BY <1>3 DEF OpenRows
  <2> HIDE DEF fs, P
  <2>6. LoadOK(m)
    BY <1>1, <2>2, <2>4 DEF LoadOK, Load, PCs
  <2>7. rd' = [rd EXCEPT ![r] = m]
    BY <1>1, <2>5 DEF Load
  <2>8. conn' \in [Stores -> Readers \cup {Nobody}]
    BY <1>1, <2>5
  <2> HIDE DEF m
  <2> QED BY <1>1, <2>5, <2>6, <2>7, <2>8, LocalsStep
<1>4. CASE ScanRow(r)
  <2> DEFINE f == Head(l.rows)
  <2>1. /\ l.rows \in Seq(Facts) /\ l.rows # <<>> /\ l.pc = "rows"
        /\ Goes(r, IF NeedsBranch(f)
                   THEN [l EXCEPT !.pc = "restored"]
                   ELSE [l EXCEPT !.rows = Tail(@), !.head = f.cell,
                           !.branch = IF f.type = "HeadMoved" THEN f.branch
                                      ELSE f.newBranch])
    BY <1>1, <1>4 DEF ScanRow, Load
  <2>2. f \in Facts /\ f = l.rows[1] /\ 1 \in DOMAIN l.rows
    BY <2>1
  <2>3. /\ Tail(l.rows) \in Seq(Facts)
        /\ \A i \in DOMAIN Tail(l.rows) : i + 1 \in DOMAIN l.rows
                                          /\ Tail(l.rows)[i] = l.rows[i + 1]
    BY <2>1
  <2>4. f.type \in {"HeadMoved", "RestoreCompleted"}
    BY <1>1, <2>2 DEF LoadOK
  <2>5. CASE NeedsBranch(f)
    <3> DEFINE m == [l EXCEPT !.pc = "restored"]
    <3>1. LoadOK(m)
      BY <1>1, <2>1 DEF LoadOK, Load, PCs
    <3>2. Goes(r, m)
      BY <2>1, <2>5
    <3> HIDE DEF m
    <3> QED BY <3>1, <3>2, GoesStep
  <2>6. CASE ~NeedsBranch(f)
    <3> DEFINE b == IF f.type = "HeadMoved" THEN f.branch ELSE f.newBranch
               m == [l EXCEPT !.rows = Tail(@), !.head = f.cell, !.branch = b]
    <3>1. b \in Branches /\ f.cell \in CellIDs
      BY <2>2, <2>4, FactColumns
    <3>2. Goes(r, m)
      BY <2>1, <2>6
    <3> HIDE DEF b, f
    <3>3. m \in Load
      BY <1>1, <2>3, <3>1 DEF Load, PCs
    <3>4. /\ m.want = l.want /\ m.rows = Tail(l.rows) /\ m.hash = l.hash
          /\ m.pc = "rows"
      BY <1>1, <2>1 DEF Load
    <3> HIDE DEF m
    <3>5. LoadOK(m)
      BY <1>1, <2>3, <3>3, <3>4 DEF LoadOK
    <3> QED BY <3>2, <3>5, GoesStep
  <2> QED BY <2>5, <2>6
<1>5. CASE CloseRows(r)
  <2> DEFINE m == [l EXCEPT !.pc = "attached"]
  <2>1. /\ rd' = [rd EXCEPT ![r].pc = "attached"]
        /\ conn' = [conn EXCEPT ![ReaderStore] = Nobody]
        /\ UNCHANGED <<log, configs, loads, todo>>
    BY <1>5 DEF CloseRows
  <2>2. LoadOK(m)
    BY <1>1 DEF LoadOK, Load, PCs
  <2>3. rd' = [rd EXCEPT ![r] = m]
    BY <1>1, <2>1 DEF Load
  <2>4. conn' \in [Stores -> Readers \cup {Nobody}]
    BY <1>1, <2>1
  <2> HIDE DEF m
  <2> QED BY <1>1, <2>1, <2>2, <2>3, <2>4, LocalsStep
<1> QED BY <1>2, <1>3, <1>4, <1>5

\* branchForCell: every cell it is asked for is committed.
LEMMA BranchForCellStep ==
    ASSUME StoreInv, NEW r \in Readers, BranchForCell(r)
    PROVE  StoreInv'
<1> DEFINE l == rd[r]
<1>1. LoadOK(l) /\ l \in Load /\ LogInv
  BY DEF StoreInv, LoadsInv
<1>2. l.pc \in {"restored", "target", "owner"}
  BY DEF BranchForCell
<1>3. CASE l.pc = "restored"
  <2> DEFINE c == Head(l.rows).cell
             b == branchForCell(log, c)
             m == [l EXCEPT !.pc = "rows", !.rows = Tail(@), !.branch = b, !.head = c]
  <2>1. Goes(r, m)
    BY <1>3, Zenon DEF BranchForCell, Query
  <2>2. l.rows \in Seq(Facts) /\ l.rows # <<>>
    BY <1>1, <1>3 DEF LoadOK, Load
  <2>3. Head(l.rows) \in Facts /\ Head(l.rows) = l.rows[1] /\ 1 \in DOMAIN l.rows
    BY <2>2
  <2>4. /\ Tail(l.rows) \in Seq(Facts)
        /\ \A i \in DOMAIN Tail(l.rows) : i + 1 \in DOMAIN l.rows
                                          /\ Tail(l.rows)[i] = l.rows[i + 1]
    BY <2>2
  <2>5. c \in CommittedCells(log) /\ c \in CellIDs
    BY <1>1, <2>3, FactColumns DEF LoadOK
  <2>6. b \in Branches
    BY <1>1, <2>5, BranchOfCell
  <2> HIDE DEF b, c
  <2>7. m \in Load
    BY <1>1, <2>4, <2>5, <2>6 DEF Load, PCs
  <2>8. /\ m.want = l.want /\ m.rows = Tail(l.rows) /\ m.hash = l.hash /\ m.pc = "rows"
    BY <1>1 DEF Load
  <2> HIDE DEF m
  <2>9. LoadOK(m)
    BY <1>1, <2>4, <2>7, <2>8 DEF LoadOK
  <2> QED BY <2>1, <2>9, GoesStep
<1>4. CASE l.pc = "target"
  <2> DEFINE b == branchForCell(log, l.head)
             p == [l EXCEPT !.branch = b]
             m == Climb(p, "steps")
  <2>0. l.pc # "restored" /\ l.pc # "owner"
    BY <1>4
  <2>1. Goes(r, m)
    BY <1>4, <2>0, Zenon DEF BranchForCell, Query
  <2>2. b \in Branches
    BY <1>1, <1>4, BranchOfCell DEF LoadOK
  <2> HIDE DEF b
  <2>3. p \in Load
    BY <1>1, <2>2 DEF Load
  <2>4. /\ p.want = l.want /\ p.rows = l.rows /\ p.hash = l.hash /\ p.pc = l.pc
        /\ p.head = l.head
    BY <1>1 DEF Load
  <2> HIDE DEF p
  <2>6. LoadOK(m)
    BY <1>1, <2>3, <2>4, ClimbOK DEF Phases
  <2> HIDE DEF m
  <2> QED BY <2>1, <2>6, GoesStep
<1>5. CASE l.pc = "owner"
  <2> DEFINE c == log[l.fork].cell
             b == branchForCell(log, c)
             m == [l EXCEPT !.pc = "parent", !.cur = b, !.stop = c, !.cutoff = l.fork]
  <2>0. l.pc # "restored" /\ l.pc # "target"
    BY <1>5
  <2>1. Goes(r, m)
    BY <1>5, <2>0, Zenon DEF BranchForCell, Query
  <2>2. l.fork \in Nat /\ l.fork \in DOMAIN log /\ log[l.fork].type \in CellFacts
    BY <1>1, <1>5 DEF LoadOK, Load, OfType, CellFacts
  <2>3. c \in CommittedCells(log) /\ log[l.fork] \in Facts
    BY <1>1, <2>2 DEF LogInv
  <2>4. c \in CellIDs
    BY <2>3, FactColumns
  <2>5. b \in Branches
    BY <1>1, <2>3, BranchOfCell
  <2> HIDE DEF b, c
  <2>6. m \in Load
    BY <1>1, <2>2, <2>4, <2>5 DEF Load, PCs
  <2>7. m.want = l.want /\ m.rows = l.rows /\ m.hash = l.hash /\ m.pc = "parent"
    BY <1>1 DEF Load
  <2> HIDE DEF m
  <2>8. LoadOK(m)
    BY <1>1, <2>6, <2>7 DEF LoadOK
  <2> QED BY <2>1, <2>8, GoesStep
<1> QED BY <1>2, <1>3, <1>4, <1>5

\* branchParentRecord: the path is not empty when its commits are read.
LEMMA BranchParentStep ==
    ASSUME StoreInv, NEW r \in Readers, BranchParent(r)
    PROVE  StoreInv'
<1> DEFINE l == rd[r]
           created == OnBranch(log, "BranchCreated", l.cur)
           seg == [branch |-> l.cur, stop |-> l.stop, cutoff |-> l.cutoff]
           path == <<seg>> \o l.segs
           one == 1
           fork == IF created = {} THEN 0 ELSE Min(created)
           next == IF created # {} THEN "owner"
                   ELSE IF l.phase = "scope" THEN "records" ELSE "commits"
           m == [l EXCEPT !.segs = path, !.k = one, !.fork = fork, !.pc = next]
<1>1. LoadOK(l) /\ l \in Load /\ LogInv
  BY DEF StoreInv, LoadsInv
<1>2. Goes(r, m)
  BY Zenon DEF BranchParent, Query
<1>3. seg \in Segment /\ l.segs \in Seq(Segment)
  BY <1>1 DEF Load, Segment
<1>4. path \in Seq(Segment) /\ one \in DOMAIN path
  <2> HIDE DEF seg
  <2> QED BY <1>3
<1>5. fork \in Nat /\ (created # {} => fork \in OfType(log, "BranchCreated"))
  <2>1. created \in SUBSET DOMAIN log /\ created \subseteq OfType(log, "BranchCreated")
    BY DEF OnBranch, OfType
  <2>2. created # {} => Min(created) \in created /\ Min(created) \in Nat
    <3> HIDE DEF created
    <3> QED BY <1>1, <2>1, Positions DEF LogInv
  <2> QED BY <2>1, <2>2
<1>6. next \in PCs /\ next # "failed" /\ next \notin {"restored", "target"}
      /\ (next = "owner" => created # {})
  BY DEF PCs
<1> HIDE DEF path, fork, next, created, seg, one
<1>7. m \in Load
  <2>1. one \in Nat
    BY DEF one
  <2> QED BY <1>1, <1>4, <1>5, <1>6, <2>1 DEF Load
<1>8. /\ m.want = l.want /\ m.rows = l.rows /\ m.hash = l.hash /\ m.pc = next
      /\ m.segs = path /\ m.k = one /\ m.fork = fork
  BY <1>1 DEF Load
<1> HIDE DEF m
<1>9. LoadOK(m)
  BY <1>1, <1>4, <1>5, <1>6, <1>7, <1>8 DEF LoadOK
<1> QED BY <1>2, <1>9, GoesStep

\* committedCellsUpTo, branch after branch.
LEMMA CommittedCellsUpToStep ==
    ASSUME StoreInv, NEW r \in Readers, CommittedCellsUpTo(r)
    PROVE  StoreInv'
<1> DEFINE l == rd[r]
           seg == l.segs[l.k]
           rows == committedCellsUpTo(log, seg.branch, seg.stop)
           chain == l.chain \o rows
           k == l.k + 1
           longer == [l EXCEPT !.chain = chain, !.k = k]
           steps == Cells(longer.chain)
<1>1. LoadOK(l) /\ l \in Load /\ LogInv /\ l.pc = "commits"
  BY DEF StoreInv, LoadsInv, CommittedCellsUpTo, Query
<1>2. Goes(r, IF l.k < Len(l.segs) THEN longer
              ELSE IF l.phase = "steps" THEN [longer EXCEPT !.steps = steps,
                                                            !.pc = "attached"]
              ELSE Climb(longer, "scope"))
  BY Zenon DEF CommittedCellsUpTo, Query
<1>3. l.k \in Nat /\ l.k \in DOMAIN l.segs /\ l.segs \in Seq(Segment)
  BY <1>1 DEF LoadOK, Load
<1>4. chain \in Seq(Facts)
  <2>1. rows \in Seq(Facts) /\ l.chain \in Seq(Facts)
    BY <1>1, CommittedRows DEF Load
  <2> HIDE DEF rows
  <2> QED BY <2>1
<1>10. k \in Nat
  BY <1>3
<1> HIDE DEF chain, rows, k
<1>5. longer \in Load
  BY <1>1, <1>4, <1>10 DEF Load
<1>6. /\ longer.want = l.want /\ longer.rows = l.rows /\ longer.hash = l.hash
      /\ longer.pc = l.pc /\ longer.segs = l.segs /\ longer.k = k
      /\ longer.chain = chain
  BY <1>1 DEF Load
<1> HIDE DEF longer
<1>7. CASE l.k < Len(l.segs)
  <2>1. Goes(r, longer)
    BY <1>2, <1>7, Zenon
  <2>2. k \in DOMAIN l.segs
    BY <1>3, <1>7 DEF k
  <2>3. LoadOK(longer)
    BY <1>1, <1>5, <1>6, <2>2 DEF LoadOK
  <2> QED BY <2>1, <2>3, GoesStep
<1>8. CASE ~(l.k < Len(l.segs)) /\ l.phase = "steps"
  <2> DEFINE m == [longer EXCEPT !.steps = steps, !.pc = "attached"]
  <2>1. Goes(r, m)
    BY <1>2, <1>8, Zenon
  <2>2. steps \in Seq(CellIDs)
    <3>1. steps = [i \in DOMAIN chain |-> chain[i].cell]
      BY <1>6, Zenon DEF Cells
    <3>2. \A i \in DOMAIN chain : chain[i].cell \in CellIDs
      BY <1>4, FactColumns
    <3>3. DOMAIN chain = 1..Len(chain) /\ Len(chain) \in Nat
      BY <1>4
    <3> HIDE DEF steps
    <3> QED BY <3>1, <3>2, <3>3
  <2> HIDE DEF steps
  <2>3. m \in Load
    BY <1>5, <2>2 DEF Load, PCs
  <2>4. m.want = l.want /\ m.rows = l.rows /\ m.hash = l.hash /\ m.pc = "attached"
    BY <1>5, <1>6 DEF Load
  <2> HIDE DEF m
  <2>5. LoadOK(m)
    BY <1>1, <2>3, <2>4 DEF LoadOK
  <2> QED BY <2>1, <2>5, GoesStep
<1>9. CASE ~(l.k < Len(l.segs)) /\ l.phase # "steps"
  <2>1. Goes(r, Climb(longer, "scope"))
    BY <1>2, <1>9, Zenon
  <2>2. LoadOK(Climb(longer, "scope"))
    BY <1>1, <1>5, <1>6, ClimbOK DEF Phases
  <2> QED BY <2>1, <2>2, GoesStep
<1> QED BY <1>7, <1>8, <1>9

\* loadRuntimeAttached.
LEMMA RuntimeAttachedStep ==
    ASSUME StoreInv, NEW r \in Readers, RuntimeAttachedRow(r)
    PROVE  StoreInv'
<1> DEFINE h == AttachedHash(log)
           w == <<h>>
           l == [rd[r] EXCEPT !.hash = h]
<1>1. LoadOK(rd[r]) /\ rd[r] \in Load /\ LogInv /\ rd[r].pc = "attached"
  BY DEF StoreInv, LoadsInv, RuntimeAttachedRow, Query
<1>2. h \in configs /\ h \in Hashes
  BY <1>1, AttachedIsThere DEF LogInv
<1>3. Goes(r, IF l.op = "plan" THEN [l EXCEPT !.want = <<l.hash>>, !.pc = "configs",
                                              !.phase = "attached"]
              ELSE IF l.head = NoCell THEN [l EXCEPT !.pc = "records", !.phase = "scope"]
              ELSE Climb(l, "chain"))
  BY Zenon DEF RuntimeAttachedRow, Query
<1>4. w \in Seq(Hashes) /\ DOMAIN w = 1..1 /\ \A i \in DOMAIN w : w[i] \in configs
  <2> HIDE DEF h
  <2> QED BY <1>2
<1> HIDE DEF h
<1>5. l \in Load
  BY <1>1, <1>2 DEF Load
<1>6. /\ l.want = rd[r].want /\ l.rows = rd[r].rows /\ l.hash = h /\ l.pc = "attached"
  BY <1>1 DEF Load
<1> HIDE DEF l
<1>7. LoadOK(l)
  BY <1>1, <1>2, <1>5, <1>6 DEF LoadOK
<1>8. CASE l.op = "plan"
  <2> DEFINE m == [l EXCEPT !.want = w, !.pc = "configs", !.phase = "attached"]
  <2>1. Goes(r, m)
    BY <1>3, <1>6, <1>8, Zenon
  <2> HIDE DEF w
  <2>2. m \in Load
    BY <1>4, <1>5 DEF Load, PCs, Phases
  <2>3. m.want = w /\ m.rows = l.rows /\ m.hash = h /\ m.pc = "configs"
    BY <1>5, <1>6 DEF Load
  <2> HIDE DEF m
  <2>4. LoadOK(m)
    BY <1>2, <1>4, <1>7, <2>2, <2>3 DEF LoadOK
  <2> QED BY <2>1, <2>4, GoesStep
<1>9. CASE l.op # "plan" /\ l.head = NoCell
  <2> DEFINE m == [l EXCEPT !.pc = "records", !.phase = "scope"]
  <2>1. Goes(r, m)
    BY <1>3, <1>9, Zenon
  <2>2. m \in Load
    BY <1>5 DEF Load, PCs, Phases
  <2>3. m.want = l.want /\ m.rows = l.rows /\ m.hash = h /\ m.pc = "records"
    BY <1>5, <1>6 DEF Load
  <2> HIDE DEF m
  <2>4. LoadOK(m)
    BY <1>2, <1>7, <2>2, <2>3 DEF LoadOK
  <2> QED BY <2>1, <2>4, GoesStep
<1>10. CASE l.op # "plan" /\ l.head # NoCell
  <2>1. Goes(r, Climb(l, "chain"))
    BY <1>3, <1>10, Zenon
  <2>2. LoadOK(Climb(l, "chain"))
    BY <1>5, <1>7, ClimbOK DEF Phases
  <2> QED BY <2>1, <2>2, GoesStep
<1> QED BY <1>8, <1>9, <1>10

\* loadRuntimeTransitionRecords.
LEMMA TransitionRecordsStep ==
    ASSUME StoreInv, NEW r \in Readers, TransitionRecords(r)
    PROVE  StoreInv'
<1> DEFINE l == rd[r]
           ts == buildRuntimeTransitions(log, InForce(l))
           hs == [i \in DOMAIN ts |-> ts[i].hash]
           h == IF ts = <<>> THEN l.hash ELSE Last(ts).hash
           w == <<h>>
<1>1. LoadOK(l) /\ l \in Load /\ LogInv /\ configs \subseteq Hashes
  BY DEF StoreInv, LoadsInv, LogInv
<1>2. Goes(r, IF l.op = "plan"
              THEN [l EXCEPT !.pc = "configs", !.transitions = ts, !.want = hs]
              ELSE [l EXCEPT !.pc = "configs", !.hash = h, !.want = w])
  BY Zenon DEF TransitionRecords, Query
<1>3. InForce(l) \in SUBSET OfType(log, "RuntimeTransitioned")
  BY DEF InForce, OnBranch
<1>4. /\ ts \in Seq([after : CellIDs, hash : Hashes])
      /\ \A k \in DOMAIN ts : ts[k].hash \in configs
  BY <1>1, <1>3, TransitionRows
<1> HIDE DEF ts
<1>5. /\ hs \in Seq(Hashes)
      /\ \A i \in DOMAIN hs : hs[i] \in configs
  <2>1. DOMAIN ts = 1..Len(ts) /\ Len(ts) \in Nat
    BY <1>4
  <2> QED BY <1>1, <1>4, <2>1
<1>6. h \in configs /\ h \in Hashes
  <2>1. ts # <<>> => Len(ts) \in DOMAIN ts
    BY <1>4
  <2> QED BY <1>1, <1>4, <2>1 DEF LoadOK, Last
<1> HIDE DEF h
<1>7. w \in Seq(Hashes) /\ \A i \in DOMAIN w : w[i] \in configs
  BY <1>6
<1> HIDE DEF hs, w
<1>8. CASE l.op = "plan"
  <2> DEFINE m == [l EXCEPT !.pc = "configs", !.transitions = ts, !.want = hs]
  <2>1. Goes(r, m)
    BY <1>2, <1>8, Zenon
  <2>2. m \in Load
    BY <1>1, <1>4, <1>5 DEF Load, PCs
  <2>3. m.want = hs /\ m.rows = l.rows /\ m.hash = l.hash /\ m.pc = "configs"
    BY <1>1 DEF Load
  <2> HIDE DEF m
  <2>4. LoadOK(m)
    BY <1>1, <1>5, <2>2, <2>3 DEF LoadOK
  <2> QED BY <2>1, <2>4, GoesStep
<1>9. CASE l.op # "plan"
  <2> DEFINE m == [l EXCEPT !.pc = "configs", !.hash = h, !.want = w]
  <2>1. Goes(r, m)
    BY <1>2, <1>9, Zenon
  <2>2. m \in Load
    BY <1>1, <1>6, <1>7 DEF Load, PCs
  <2>3. m.want = w /\ m.rows = l.rows /\ m.hash = h /\ m.pc = "configs"
    BY <1>1 DEF Load
  <2> HIDE DEF m
  <2>4. LoadOK(m)
    BY <1>1, <1>6, <1>7, <2>2, <2>3 DEF LoadOK
  <2> QED BY <2>1, <2>4, GoesStep
<1> QED BY <1>8, <1>9

\* LoadRuntimeConfig: the configuration is there.
LEMMA RuntimeConfigStep ==
    ASSUME StoreInv, NEW r \in Readers, RuntimeConfigRow(r) \/ ConfigsLoaded(r)
    PROVE  StoreInv'
<1> DEFINE l == rd[r]
<1>1. LoadOK(l) /\ l \in Load
  BY DEF StoreInv, LoadsInv
<1>2. CASE RuntimeConfigRow(r)
  <2> DEFINE m == [l EXCEPT !.want = Tail(@)]
  <2>1. /\ l.want \in Seq(Hashes) /\ l.want # <<>> /\ l.pc = "configs"
        /\ Goes(r, IF Head(l.want) \in configs THEN m ELSE [l EXCEPT !.pc = "failed"])
    BY <1>1, <1>2 DEF RuntimeConfigRow, Query, Load
  <2>2. 1 \in DOMAIN l.want /\ Head(l.want) = l.want[1]
    BY <2>1
  <2>3. Head(l.want) \in configs
    BY <1>1, <2>2 DEF LoadOK
  <2>4. Goes(r, m)
    BY <2>1, <2>3
  <2>5. /\ Tail(l.want) \in Seq(Hashes)
        /\ \A i \in DOMAIN Tail(l.want) : i + 1 \in DOMAIN l.want
                                          /\ Tail(l.want)[i] = l.want[i + 1]
    BY <2>1
  <2>6. m \in Load
    BY <1>1, <2>5 DEF Load
  <2>7. m.want = Tail(l.want) /\ m.rows = l.rows /\ m.hash = l.hash /\ m.pc = "configs"
    BY <1>1, <2>1 DEF Load
  <2> HIDE DEF m
  <2>8. LoadOK(m)
    BY <1>1, <2>5, <2>6, <2>7 DEF LoadOK
  <2> QED BY <2>4, <2>8, GoesStep
<1>3. CASE ConfigsLoaded(r)
  <2>1. Goes(r, IF l.phase = "attached" THEN Climb(l, "chain") ELSE [l EXCEPT !.pc = "done"])
    BY <1>3, Zenon DEF ConfigsLoaded
  <2>2. LoadOK(Climb(l, "chain"))
    BY <1>1, ClimbOK DEF Phases
  <2>3. LoadOK([l EXCEPT !.pc = "done"])
    BY <1>1 DEF LoadOK, Load, PCs
  <2> DEFINE c == Climb(l, "chain")
             d == [l EXCEPT !.pc = "done"]
  <2>4. LoadOK(IF l.phase = "attached" THEN c ELSE d)
    <3> HIDE DEF c, d
    <3>1. LoadOK(c) /\ LoadOK(d)
      BY <2>2, <2>3 DEF c, d
    <3> QED BY <3>1, Zenon
  <2> HIDE DEF c, d
  <2>5. Goes(r, IF l.phase = "attached" THEN c ELSE d)
    BY <2>1 DEF c, d
  <2> QED BY <2>4, <2>5, GoesStep
<1> QED BY <1>2, <1>3

-----------------------------------------------------------------------------
(* The theorems. *)

\* The two tables are empty but for the start of the session.
LEMMA StoreInit ==
    ASSUME Init
    PROVE  StoreInv
<1> DEFINE f == SessionStarted
           g == RuntimeAttached(InitialHash)
<1>1. NoBranch \in Branches /\ RootBranch \in Branches /\ NoCell \in CellIDs
      /\ InitialHash \in Hashes
  BY SqliteAssumption DEF NoBranch, RootBranch, NoCell, Branches, CellIDs
<1>2. f \in Facts /\ g \in Facts
  BY <1>1 DEF Facts, SessionStarted, RuntimeAttached
<1>3. f.type = "SessionStarted" /\ g.type = "RuntimeAttached" /\ g.hash = InitialHash
  BY DEF SessionStarted, RuntimeAttached
<1>4. log = <<f, g>> /\ configs = {InitialHash} /\ todo = <<>>
  BY DEF Init
<1> HIDE DEF f, g
<1>5. LogInv
  BY <1>1, <1>2, <1>3, <1>4 DEF LogInv, HashFacts, CellFacts
<1>6. TodoInv
  BY <1>4 DEF TodoInv
<1>7. LoadOK(Idle)
  <2>1. Idle \in Load
    BY <1>1 DEF Idle, Load, PCs, Ops, Phases
  <2>2. Idle.want = <<>> /\ Idle.rows = <<>> /\ Idle.hash = InitialHash /\ Idle.pc = "idle"
    BY DEF Idle
  <2> QED BY <1>4, <2>1, <2>2 DEF LoadOK
<1>8. LoadsInv
  <2>1. \A r \in Readers : rd[r] = Idle
    BY DEF Init
  <2>2. rd \in [Readers -> Load]
    BY <1>7 DEF Init, LoadOK
  <2>3. loads \in [Readers -> 0..MaxLoads] /\ conn \in [Stores -> Readers \cup {Nobody}]
    BY SqliteAssumption DEF Init
  <2> QED BY <1>7, <2>1, <2>2, <2>3 DEF LoadsInv
<1> QED BY <1>5, <1>6, <1>8 DEF StoreInv

\* Every step of the session and of the loads keeps the invariant.
LEMMA StoreStep ==
    ASSUME StoreInv, [Next]_vars
    PROVE  StoreInv'
<1>1. CASE UNCHANGED vars
  BY <1>1 DEF vars, StoreInv, LogInv, TodoInv, LoadsInv, LoadOK, CommittedCells, OfType
<1>2. CASE Next
  <2>1. CASE Submit \/ AppendFact \/ Abandon
    BY <2>1, BeginStep, AppendStep, AbandonStep
  <2>2. CASE \E h \in Hashes : Transition(h)
    BY <2>2, BeginStep
  <2>3. CASE \E c \in 1..MaxCells : Restore(c) \/ Fork(c)
    BY <2>3, BeginStep
  <2>4. ASSUME NEW r \in Readers,
               CallLoadSessionState(r) \/ Step(r) \/ Cancel(r)
               \/ \E c \in 1..MaxCells : CallLoadReplayPlan(r, c)
        PROVE  StoreInv'
    <3>1. CASE Step(r)
      BY <3>1, RowsStep, BranchForCellStep, BranchParentStep, CommittedCellsUpToStep,
         RuntimeAttachedStep, TransitionRecordsStep, RuntimeConfigStep, CallStep DEF Step
    <3>2. CASE ~Step(r)
      BY <2>4, <3>2, CallStep
    <3> QED BY <3>1, <3>2
  <2> QED BY <1>2, <2>1, <2>2, <2>3, <2>4 DEF Next
<1> QED BY <1>1, <1>2

\* The tables refer to nothing that is not there, at any moment of any operation,
\* and a load keeps only what it has found there.
THEOREM StoreInvariant == Spec => []StoreInv
<1>1. Init => StoreInv
  BY StoreInit
<1>2. StoreInv /\ [Next]_vars => StoreInv'
  BY StoreStep
<1> QED BY <1>1, <1>2, PTL DEF Spec

\* The connection is held by a reader or by nobody, and the locals of a load are
\* well formed: branches and cells are ones of the session, the path of branches
\* is never read past its end.
THEOREM TypeInvariant == Spec => []TypeOK
<1>1. StoreInv => TypeOK
  <2> SUFFICES ASSUME StoreInv PROVE TypeOK
    OBVIOUS
  <2>1. /\ configs \subseteq Hashes /\ Len(todo) <= 2
        /\ conn \in [Stores -> Readers \cup {Nobody}]
    BY DEF StoreInv, LogInv, TodoInv, LoadsInv
  <2>2. ASSUME NEW r \in Readers
        PROVE  /\ rd[r].branch \in 0..MaxBranches /\ rd[r].cur \in 0..MaxBranches
               /\ {rd[r].head, rd[r].stop} \subseteq 0..MaxCells
               /\ rd[r].pc = "commits" => rd[r].k \in DOMAIN rd[r].segs
               /\ loads[r] \in 0..MaxLoads
    BY DEF StoreInv, LoadsInv, LoadOK, Load, Branches, CellIDs
  <2> QED BY <2>1, <2>2 DEF TypeOK
<1> QED BY <1>1, StoreInvariant, PTL

\* LoadRuntimeConfig never misses: the hash a load looks up, in the attached
\* configuration or in a transition, was put before the fact that names it was
\* appended, wherever the writer stands or was interrupted.
THEOREM ConfigsInvariant == Spec => []ConfigsAreThere
<1>1. StoreInv => ConfigsAreThere
  BY DEF StoreInv, LoadsInv, LoadOK, ConfigsAreThere
<1> QED BY <1>1, StoreInvariant, PTL

===============================================================================
