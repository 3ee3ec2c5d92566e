------------------------------- MODULE FactLog -------------------------------
(***************************************************************************)
(* The durable history of one session: an append-only sequence of facts    *)
(* (model/facts.go) and the queries the stores answer from it              *)
(* (store/mem/mem.go; store/sqlite/sqlite.go states the same queries in    *)
(* SQL).  Every query is a function of the log alone.                      *)
(*                                                                         *)
(* A fact is a record with the index columns every store keeps, type,      *)
(* branch and cell, and what the queries read besides: the source of a     *)
(* CellChecked, previous of a HeadMoved, the hash of a RuntimeTransitioned *)
(* and the newBranch of a RestoreCompleted.  Cells and branches are        *)
(* numbered in the order they are created.                                 *)
(***************************************************************************)
EXTENDS Naturals, SequencesExt, Ordered

NoCell == 0       \* the empty CellID: the head before any commit
NoBranch == 0     \* the empty BranchID
RootBranch == 1   \* SessionStarted.RootBranch

(* The facts and their index columns. *)
CellChecked(b, c, src) ==
    [type |-> "CellChecked", branch |-> b, cell |-> c, source |-> src]
CellEvaluated(b, c) == [type |-> "CellEvaluated", branch |-> b, cell |-> c]
CellCommitted(b, c) == [type |-> "CellCommitted", branch |-> b, cell |-> c]
CellFailed(b, p) ==
    [type |-> "CellFailed", branch |-> b, cell |-> NoCell, parent |-> p]
HeadMoved(b, p, c) ==
    [type |-> "HeadMoved", branch |-> b, cell |-> c, previous |-> p]
BranchCreated(b, c) == [type |-> "BranchCreated", branch |-> b, cell |-> c]
RestoreCompleted(c, b) ==
    [type |-> "RestoreCompleted", branch |-> NoBranch, cell |-> c, newBranch |-> b]
RuntimeTransitioned(b, c, h) ==
    [type |-> "RuntimeTransitioned", branch |-> b, cell |-> c, hash |-> h]
RuntimeAttached(h) ==
    [type |-> "RuntimeAttached", branch |-> NoBranch, cell |-> NoCell, hash |-> h]
SessionStarted ==
    [type |-> "SessionStarted", branch |-> RootBranch, cell |-> NoCell]

-----------------------------------------------------------------------------
(* Positions of facts in the log. *)

OfType(log, t) == {i \in DOMAIN log : log[i].type = t}
OnBranch(log, t, b) == {i \in OfType(log, t) : log[i].branch = b}
OfCell(log, t, c) == {i \in OfType(log, t) : log[i].cell = c}

\* The facts at the given positions, in log order.
FactsAt(log, at) == LET order == InOrder(at) IN [k \in DOMAIN order |-> log[order[k]]]

CommittedCells(log) == {log[i].cell : i \in OfType(log, "CellCommitted")}
MovedCells(log) == {log[i].cell : i \in OfType(log, "HeadMoved")}

\* The branch of the first CellCommitted of a committed cell.
branchForCell(log, c) == log[Min(OfCell(log, "CellCommitted", c))].branch

\* Mutant of LoadHead: the first HeadMoved of the branch.
LoadHeadFirst(log, b) ==
    LET moved == OnBranch(log, "HeadMoved", b)
    IN  IF moved = {} THEN NoCell ELSE log[Min(moved)].cell

\* The last HeadMoved of the branch, or no cell.
LoadHead(log, b) ==
    LET moved == OnBranch(log, "HeadMoved", b)
    IN  IF moved = {} THEN NoCell ELSE log[Max(moved)].cell

\* The source in the last CellChecked of a cell.
CellSource(log, c) == log[Max(OfCell(log, "CellChecked", c))].source

-----------------------------------------------------------------------------
(* Lineages. *)

Commits(log, b) == FactsAt(log, OnBranch(log, "CellCommitted", b))

\* A sequence of commits up to and including a cell; all of it when the cell is
\* not there.
UpTo(commits, stop) ==
    LET at == {i \in DOMAIN commits : commits[i].cell = stop}
    IN  SubSeq(commits, 1, IF at = {} THEN Len(commits) ELSE Min(at))

\* Mutant of committedCellsUpTo: the stop cell is not looked at.
committedCellsAll(log, b, stop) == Commits(log, b)

\* The cells committed on a branch, in log order, up to stop.
committedCellsUpTo(log, b, stop) == UpTo(Commits(log, b), stop)

\* Where the BranchCreated at position i was forked from: the parent counts up
\* to the forked cell, and up to the moment the fork was recorded.
ForkedFrom(log, i) ==
    [branch |-> branchForCell(log, log[i].cell), stop |-> log[i].cell, cutoff |-> i]

\* Mutant of Above: the nearest branch first.
AboveNearestFirst(log, b) ==
    LET above[x \in 1..b] ==
          LET created == OnBranch(log, "BranchCreated", x)
          IN  IF created = {} THEN <<>>
              ELSE <<ForkedFrom(log, Min(created))>> \o
                      above[ForkedFrom(log, Min(created)).branch]
    IN  above[b]

\* The branches above b, root first.
Above(log, b) ==
    LET above[x \in 1..b] ==
          LET created == OnBranch(log, "BranchCreated", x)
          IN  IF created = {} THEN <<>>
              ELSE Append(above[ForkedFrom(log, Min(created)).branch],
                          ForkedFrom(log, Min(created)))
    IN  above[b]

\* The path from the root to b, which itself counts up to stop and for ever.
Segments(log, b, stop) ==
    Append(Above(log, b), [branch |-> b, stop |-> stop, cutoff |-> Len(log)])

ChainOf(log, segs) ==
    FlattenSeq([i \in DOMAIN segs |->
                  committedCellsUpTo(log, segs[i].branch, segs[i].stop)])

\* The commits reachable from b up to stop, oldest first.
collectAncestorChain(log, b, stop) == ChainOf(log, Segments(log, b, stop))

Cells(chain) == [i \in DOMAIN chain |-> chain[i].cell]

-----------------------------------------------------------------------------
(* Runtime configurations. *)

\* Mutant of Visible: a transition made right after the last cell is left out.
VisibleBeforeStop(log, segs, chain, i) ==
    /\ \E k \in DOMAIN segs : segs[k].branch = log[i].branch /\ i <= segs[k].cutoff
    /\ \/ log[i].cell = NoCell
       \/ \E j \in 1..(Len(chain) - 1) : /\ chain[j].branch = log[i].branch
                                         /\ chain[j].cell = log[i].cell

\* Mutant of Visible: the cell a transition follows is not looked at.
VisibleOnBranch(log, segs, chain, i) ==
    \E k \in DOMAIN segs : segs[k].branch = log[i].branch /\ i <= segs[k].cutoff

\* Is the RuntimeTransitioned at position i in force on a path with this chain of
\* commits? Its branch must be on the path, it must not be younger than the fork,
\* and the cell it follows must belong to that branch's part of the chain. The
\* empty boundary belongs to the branch the chain starts on.
Visible(log, segs, chain, i) ==
    /\ \E k \in DOMAIN segs : segs[k].branch = log[i].branch /\ i <= segs[k].cutoff
    /\ IF log[i].cell = NoCell
       THEN log[i].branch = IF chain = <<>> THEN RootBranch ELSE chain[1].branch
       ELSE \E j \in DOMAIN chain : /\ chain[j].branch = log[i].branch
                                     /\ chain[j].cell = log[i].cell

VisibleOn(log, segs) ==
    {i \in OfType(log, "RuntimeTransitioned") : Visible(log, segs, ChainOf(log, segs), i)}

visibleTransitions(log, b, stop) == VisibleOn(log, Segments(log, b, stop))

\* The configuration in the RuntimeAttached fact.
AttachedHash(log) == log[Min(OfType(log, "RuntimeAttached"))].hash

LatestHash(log, inForce) ==
    IF inForce = {} THEN AttachedHash(log) ELSE log[Max(inForce)].hash

\* The configuration in force at a cursor.
loadActiveRuntime(log, b, head) ==
    LatestHash(log, IF head # NoCell THEN visibleTransitions(log, b, head)
                    ELSE {i \in OnBranch(log, "RuntimeTransitioned", b) :
                             log[i].cell = NoCell})

-----------------------------------------------------------------------------
(* What sessions load. *)

\* The transitions at the given positions, in log order.
buildRuntimeTransitions(log, at) ==
    LET ts == FactsAt(log, at)
    IN  [k \in DOMAIN ts |-> [after |-> ts[k].cell, hash |-> ts[k].hash]]

PlanOf(log, b, c) ==
    [branch |-> b,
     hash |-> AttachedHash(log),
     steps |-> Cells(collectAncestorChain(log, b, c)),
     transitions |-> buildRuntimeTransitions(log, visibleTransitions(log, b, c))]

\* The replay plan of a committed cell: the lineage, the configuration it starts
\* in, and the transitions to apply after each cell.
LoadReplayPlan(log, c) == PlanOf(log, branchForCell(log, c), c)

StateAt(log, b, head) ==
    [branch |-> b, head |-> head, hash |-> loadActiveRuntime(log, b, head)]

\* Mutant of LoadSessionState: restores are not looked at.
LoadSessionStateHeads(log) ==
    LET moves == OfType(log, "HeadMoved")
    IN  IF moves = {} THEN StateAt(log, RootBranch, NoCell)
        ELSE StateAt(log, log[Max(moves)].branch, log[Max(moves)].cell)

\* The branch a HeadMoved or a RestoreCompleted makes active.
ActiveBranch(log, f) ==
    CASE f.type = "HeadMoved" -> f.branch
      [] f.type = "RestoreCompleted" /\ f.newBranch # NoBranch -> f.newBranch
      [] OTHER -> branchForCell(log, f.cell)

\* The active cursor: the last HeadMoved or RestoreCompleted decides.
LoadSessionState(log) ==
    LET moves == OfType(log, "HeadMoved") \cup OfType(log, "RestoreCompleted")
    IN  IF moves = {} THEN StateAt(log, RootBranch, NoCell)
        ELSE StateAt(log, ActiveBranch(log, log[Max(moves)]), log[Max(moves)].cell)
===============================================================================
