----------------------------- MODULE SessionTree -----------------------------
(***************************************************************************)
(* Session implements BranchTree.  The abstract state is a function of the *)
(* log; it is carried along in two history variables so that TLC computes  *)
(* it once per state.                                                      *)
(***************************************************************************)
EXTENDS Session

VARIABLES line, cursor

Lines(l) == [b \in BranchesOf(l) |-> LineOf(l, b)]
CursorOf(l) == LET cur == LoadSessionState(l) IN <<cur.branch, cur.head>>

TreeInit == Init /\ line = Lines(log) /\ cursor = CursorOf(log)

TreeNext == Next /\ line' = Lines(log') /\ cursor' = CursorOf(log')

TreeSpec == TreeInit /\ [][TreeNext]_<<vars, line, cursor>>

Tree == INSTANCE BranchTree WITH
    CellIDs <- 1..MaxCells, BranchIDs <- 1..MaxBranches,
    Root <- RootBranch, None <- NoCell

\* The durable history behaves like the tree of branches: commits extend the
\* line of the branch they are made on, forks copy a prefix, and failed or
\* interrupted operations leave no trace in it.
RefinesBranchTree == Tree!Spec

\* A cell two branches share has the same position and the same history on both,
\* through any forks of forks: whichever branch it is reached on, it was committed
\* after the same cells.
TreeShape == Tree!TreeShape
===============================================================================
