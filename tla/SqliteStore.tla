----------------------------- MODULE SqliteStore -----------------------------
(***************************************************************************)
(* The SQLite store (store/sqlite/sqlite.go): LoadSessionState and         *)
(* LoadReplayPlan as sequences of queries on a pool with one connection,   *)
(* while a session appends facts.                                          *)
(*                                                                         *)
(* No transaction spans two queries, so each one sees the log as it is     *)
(* then.  A query needs the connection of its Store; one that reads a      *)
(* single row, or closes its rows before the next query, takes and gives   *)
(* it back in one step.  FactLog defines what each query selects.  The     *)
(* sources and effects of the steps of a plan are left out.                *)
(***************************************************************************)
EXTENDS FactLog

CONSTANTS
    Readers,        \* goroutines that load
    ReaderStore,    \* the open Store the readers share, with one connection
    WriterStore,    \* the Store of the session: the same, or another process's
    Hashes, InitialHash,
    PlainRestores,  \* does the session restore without forking?
    MaxCells, MaxBranches, MaxTransitions, MaxRestores,
    MaxLoads        \* how often each reader loads

ASSUME SqliteAssumption ==
    /\ InitialHash \in Hashes
    /\ PlainRestores \in BOOLEAN
    /\ {MaxCells, MaxBranches, MaxTransitions, MaxRestores, MaxLoads} \subseteq Nat
    /\ MaxBranches >= RootBranch

Stores == {ReaderStore, WriterStore}

VARIABLES
    log,      \* the rows of the facts table, in the order of their ids
    configs,  \* the hashes in the runtime_configs table
    conn,     \* per Store: who holds the connection
    rd,       \* per reader: the locals of its load
    loads,    \* per reader: how many loads it has begun
    todo      \* what the operation of the session has still to write

vars == <<log, configs, conn, rd, loads, todo>>

Nobody == "nobody"
NoCutoff == 2^30   \* math.MaxInt64: larger than every id

Idle == [pc |-> "idle", op |-> "none", from |-> 0, branch |-> NoBranch,
         head |-> NoCell, rows |-> <<>>, phase |-> "none", cur |-> NoBranch,
         stop |-> NoCell, cutoff |-> NoCutoff, fork |-> 0, segs |-> <<>>,
         k |-> 0, chain |-> <<>>, steps |-> <<>>, hash |-> InitialHash,
         transitions |-> <<>>, want |-> <<>>]

Init ==
    /\ log = <<SessionStarted, RuntimeAttached(InitialHash)>>
    /\ configs = {InitialHash}
    /\ conn = [s \in Stores |-> Nobody]
    /\ rd = [r \in Readers |-> Idle]
    /\ loads = [r \in Readers |-> 0]
    /\ todo = <<>>

Free(store) == conn[store] = Nobody

-----------------------------------------------------------------------------
(* The session that writes. Between two operations its cursor is the durable
   one (CursorIsDurable in Session); facts no load looks at are left out. *)

PutConfig(h) == [type |-> "PutRuntimeConfig", hash |-> h]

Count(type) == Cardinality(OfType(log, type))

\* An operation of the session begins, at its cursor.
Begin(facts) ==
    /\ todo = <<>> /\ Free(WriterStore)
    /\ todo' = facts
    /\ UNCHANGED <<log, configs, conn, rd, loads>>

Cursor == LoadSessionState(log)
Writable == LoadHead(log, Cursor.branch) \in {NoCell, Cursor.head}

Submit ==
    LET c == Count("CellCommitted") + 1
    IN  /\ Writable /\ c <= MaxCells
        /\ Begin(<<CellCommitted(Cursor.branch, c),
                   HeadMoved(Cursor.branch, Cursor.head, c)>>)

\* Mutant of Transition: the branch may have moved past the cursor.
TransitionAnywhere(h) ==
    /\ Count("RuntimeTransitioned") < MaxTransitions
    /\ h # Cursor.hash
    /\ Begin(<<PutConfig(h), RuntimeTransitioned(Cursor.branch, Cursor.head, h)>>)

\* Mutant of Transition: the configuration is stored after the fact.
TransitionPutsLate(h) ==
    /\ Writable /\ Count("RuntimeTransitioned") < MaxTransitions
    /\ h # Cursor.hash
    /\ Begin(<<RuntimeTransitioned(Cursor.branch, Cursor.head, h), PutConfig(h)>>)

Transition(h) ==
    /\ Writable /\ Count("RuntimeTransitioned") < MaxTransitions
    /\ h # Cursor.hash
    /\ Begin(<<PutConfig(h), RuntimeTransitioned(Cursor.branch, Cursor.head, h)>>)

Restore(c) ==
    /\ PlainRestores /\ Count("RestoreCompleted") < MaxRestores
    /\ c \in MovedCells(log)
    /\ Begin(<<RestoreCompleted(c, NoBranch)>>)

Fork(c) ==
    LET b == Count("BranchCreated") + RootBranch + 1
    IN  /\ b <= MaxBranches /\ Count("RestoreCompleted") < MaxRestores
        /\ c \in MovedCells(log)
        /\ Begin(<<BranchCreated(b, c), RestoreCompleted(c, b)>>)

\* AppendFact and PutRuntimeConfig: one INSERT each.
AppendFact ==
    /\ todo # <<>> /\ Free(WriterStore)
    /\ IF Head(todo).type = "PutRuntimeConfig"
       THEN configs' = configs \cup {Head(todo).hash} /\ UNCHANGED log
       ELSE log' = Append(log, Head(todo)) /\ UNCHANGED configs
    /\ todo' = Tail(todo)
    /\ UNCHANGED <<conn, rd, loads>>

\* An append fails, or the process ends: the rest of the operation is not written.
Abandon ==
    /\ todo # <<>> /\ todo' = <<>>
    /\ UNCHANGED <<log, configs, conn, rd, loads>>

-----------------------------------------------------------------------------
(* Loads. *)

\* The load of r goes on with these locals; the connection is as it was.
Goes(r, locals) ==
    /\ rd' = [rd EXCEPT ![r] = locals]
    /\ UNCHANGED <<log, configs, conn, loads, todo>>

\* A query that gives the connection back.
Query(r, pc, locals) == rd[r].pc = pc /\ Free(ReaderStore) /\ Goes(r, locals)

Call(r, locals) ==
    /\ rd[r].pc = "idle" /\ loads[r] < MaxLoads
    /\ rd' = [rd EXCEPT ![r] = [locals EXCEPT !.from = Len(log)]]
    /\ loads' = [loads EXCEPT ![r] = @ + 1]
    /\ UNCHANGED <<log, configs, conn, todo>>

CallLoadSessionState(r) == Call(r, [Idle EXCEPT !.op = "state", !.pc = "started"])

CallLoadReplayPlan(r, c) ==
    /\ c \in CommittedCells(log)
    /\ Call(r, [Idle EXCEPT !.op = "plan", !.pc = "target", !.head = c])

\* Begin to climb from the branch of the load to the root. The phases of a load
\* in which it does: "steps" (the replay steps of a plan), "chain" (the cells in
\* whose scope transitions are) and "scope" (the cutoffs of these scopes).
Climb(l, phase) ==
    [l EXCEPT !.pc = "parent", !.phase = phase, !.cur = l.branch, !.stop = l.head,
              !.cutoff = NoCutoff, !.segs = <<>>,
              !.chain = IF phase = "scope" THEN @ ELSE <<>>]

\* loadSessionStarted
LoadStarted(r) ==
    Query(r, "started", [rd[r] EXCEPT !.branch = RootBranch, !.pc = "moves"])

\* The rows of LoadSessionState: the connection is kept until they are closed.
OpenRows(r) ==
    /\ rd[r].pc = "moves" /\ Free(ReaderStore)
    /\ rd' = [rd EXCEPT ![r].pc = "rows", ![r].rows =
                FactsAt(log, OfType(log, "HeadMoved") \cup OfType(log, "RestoreCompleted"))]
    /\ conn' = [conn EXCEPT ![ReaderStore] = r]
    /\ UNCHANGED <<log, configs, loads, todo>>

\* Is the row a restore that names no branch?
NeedsBranch(f) == f.type = "RestoreCompleted" /\ f.newBranch = NoBranch

\* One row. A plain restore asks for the branch of its cell.
ScanRow(r) ==
    LET f == Head(rd[r].rows)
    IN  /\ rd[r].pc = "rows" /\ rd[r].rows # <<>>
        /\ Goes(r, IF NeedsBranch(f)
                   THEN [rd[r] EXCEPT !.pc = "restored"]
                   ELSE [rd[r] EXCEPT !.rows = Tail(@), !.head = f.cell,
                           !.branch = IF f.type = "HeadMoved" THEN f.branch
                                      ELSE f.newBranch])

\* Mutant of CloseRows: the rows are read to the end and not closed.
CloseRowsLeak(r) ==
    /\ rd[r].pc = "rows" /\ rd[r].rows = <<>>
    /\ Goes(r, [rd[r] EXCEPT !.pc = "attached"])

CloseRows(r) ==
    /\ rd[r].pc = "rows" /\ rd[r].rows = <<>>
    /\ rd' = [rd EXCEPT ![r].pc = "attached"]
    /\ conn' = [conn EXCEPT ![ReaderStore] = Nobody]
    /\ UNCHANGED <<log, configs, loads, todo>>

\* branchForCell: for the row of a plain restore, for the target of a plan, and
\* for the cell a branch was forked from.
BranchForCell(r) ==
    LET l == rd[r]
        c == CASE l.pc = "restored" -> Head(l.rows).cell
               [] l.pc = "owner" -> log[l.fork].cell
               [] OTHER -> l.head
        b == branchForCell(log, c)
    IN  /\ l.pc \in {"restored", "target", "owner"}
        /\ Query(r, l.pc,
             CASE l.pc = "restored" -> [l EXCEPT !.pc = "rows", !.rows = Tail(@),
                                                 !.branch = b, !.head = c]
               [] l.pc = "target" -> Climb([l EXCEPT !.branch = b], "steps")
               [] OTHER -> [l EXCEPT !.pc = "parent", !.cur = b, !.stop = c,
                                     !.cutoff = l.fork])

\* branchParentRecord: the branch joins the path; where was it forked from?
BranchParent(r) ==
    LET l == rd[r]
        created == OnBranch(log, "BranchCreated", l.cur)
        path == <<[branch |-> l.cur, stop |-> l.stop, cutoff |-> l.cutoff]>> \o l.segs
    IN  Query(r, "parent",
          [l EXCEPT !.segs = path, !.k = 1,
                    !.fork = IF created = {} THEN 0 ELSE Min(created),
                    !.pc = IF created # {} THEN "owner"
                           ELSE IF l.phase = "scope" THEN "records" ELSE "commits"])

\* Mutant of CommittedCellsUpTo: one branch too many.
CommittedCellsUpToPast(r) ==
    LET l == rd[r]
        seg == l.segs[l.k]
        longer == [l EXCEPT !.chain = @ \o committedCellsUpTo(log, seg.branch, seg.stop),
                            !.k = @ + 1]
    IN  Query(r, "commits",
          IF l.k <= Len(l.segs) THEN longer
          ELSE IF l.phase = "steps" THEN [longer EXCEPT !.steps = Cells(longer.chain),
                                                        !.pc = "attached"]
          ELSE Climb(longer, "scope"))

\* committedCellsUpTo, for each branch of the path from the root.
CommittedCellsUpTo(r) ==
    LET l == rd[r]
        seg == l.segs[l.k]
        longer == [l EXCEPT !.chain = @ \o committedCellsUpTo(log, seg.branch, seg.stop),
                            !.k = @ + 1]
    IN  Query(r, "commits",
          IF l.k < Len(l.segs) THEN longer
          ELSE IF l.phase = "steps" THEN [longer EXCEPT !.steps = Cells(longer.chain),
                                                        !.pc = "attached"]
          ELSE Climb(longer, "scope"))

\* loadRuntimeAttached. A plan looks its configuration up at once; a state at the
\* empty head looks at transitions only.
RuntimeAttachedRow(r) ==
    LET l == [rd[r] EXCEPT !.hash = AttachedHash(log)]
    IN  Query(r, "attached",
          IF l.op = "plan" THEN [l EXCEPT !.want = <<l.hash>>, !.pc = "configs",
                                          !.phase = "attached"]
          ELSE IF l.head = NoCell THEN [l EXCEPT !.pc = "records", !.phase = "scope"]
          ELSE Climb(l, "chain"))

\* The positions of the transitions in force for the load.
InForce(l) ==
    IF l.head = NoCell
    THEN {i \in OnBranch(log, "RuntimeTransitioned", l.branch) : log[i].cell = NoCell}
    ELSE {i \in OfType(log, "RuntimeTransitioned") : Visible(log, l.segs, l.chain, i)}

\* loadRuntimeTransitionRecords, and which of them are visible.
TransitionRecords(r) ==
    LET l == rd[r]
        ts == buildRuntimeTransitions(log, InForce(l))
        h == IF ts = <<>> THEN l.hash ELSE Last(ts).hash
    IN  Query(r, "records",
          IF l.op = "plan"
          THEN [l EXCEPT !.pc = "configs", !.transitions = ts,
                         !.want = [i \in DOMAIN ts |-> ts[i].hash]]
          ELSE [l EXCEPT !.pc = "configs", !.hash = h, !.want = <<h>>])

\* LoadRuntimeConfig: a hash that is not there fails the load.
RuntimeConfigRow(r) ==
    /\ rd[r].want # <<>>
    /\ Query(r, "configs",
         IF Head(rd[r].want) \in configs THEN [rd[r] EXCEPT !.want = Tail(@)]
         ELSE [rd[r] EXCEPT !.pc = "failed"])

\* All configurations are there: a plan goes on to its transitions, or returns.
ConfigsLoaded(r) ==
    LET l == rd[r]
    IN  /\ l.pc = "configs" /\ l.want = <<>>
        /\ Goes(r, IF l.phase = "attached" THEN Climb(l, "chain")
                   ELSE [l EXCEPT !.pc = "done"])

\* The caller has its answer.
Return(r) == rd[r].pc \in {"done", "failed"} /\ Goes(r, Idle)

\* The caller's context ends: open rows are closed and the load returns an error.
Cancel(r) ==
    /\ rd[r].pc \notin {"idle", "done", "failed"}
    /\ rd' = [rd EXCEPT ![r] = Idle]
    /\ conn' = [conn EXCEPT ![ReaderStore] = IF @ = r THEN Nobody ELSE @]
    /\ UNCHANGED <<log, configs, loads, todo>>

Step(r) ==
    \/ LoadStarted(r) \/ OpenRows(r) \/ ScanRow(r) \/ CloseRows(r)
    \/ BranchForCell(r) \/ BranchParent(r) \/ CommittedCellsUpTo(r)
    \/ RuntimeAttachedRow(r) \/ TransitionRecords(r) \/ RuntimeConfigRow(r)
    \/ ConfigsLoaded(r) \/ Return(r)

Next ==
    \/ Submit \/ AppendFact \/ Abandon
    \/ \E h \in Hashes : Transition(h)
    \/ \E c \in 1..MaxCells : Restore(c) \/ Fork(c)
    \/ \E r \in Readers :
          \/ CallLoadSessionState(r) \/ Step(r) \/ Cancel(r)
          \/ \E c \in 1..MaxCells : CallLoadReplayPlan(r, c)

\* A goroutine with a query to make makes it once the connection is free for good.
Spec == Init /\ [][Next]_vars /\ \A r \in Readers : WF_vars(Step(r))

-----------------------------------------------------------------------------
(* Properties. *)

\* Connections are held by readers, and the locals of a load are well formed.
TypeOK ==
    /\ configs \subseteq Hashes
    /\ conn \in [Stores -> Readers \cup {Nobody}]
    /\ \A r \in Readers :
          /\ rd[r].branch \in 0..MaxBranches /\ rd[r].cur \in 0..MaxBranches
          /\ {rd[r].head, rd[r].stop} \subseteq 0..MaxCells
          /\ rd[r].pc = "commits" => rd[r].k \in DOMAIN rd[r].segs
          /\ loads[r] \in 0..MaxLoads
    /\ Len(todo) <= 2

\* Right after a fork the head is a cell of the parent branch, and the cells of the
\* new branch do not stop at it.
HeadOnBranch(l) == l.head = NoCell \/ branchForCell(log, l.head) = l.branch

SnapshotOf(l, prefix) ==
    IF l.op = "plan"
    THEN LoadReplayPlan(prefix, l.head) =
            [branch |-> l.branch, hash |-> l.hash, steps |-> l.steps,
             transitions |-> l.transitions]
    ELSE LET state == LoadSessionState(prefix)
         IN  /\ l.branch = state.branch /\ l.head = state.head
             /\ HeadOnBranch(l) => l.hash = state.hash

\* Though its queries see different logs, a load answers as if it had read one
\* log at one moment between its call and its return; all but the configuration
\* of a state read right after a fork.
LoadsAreSnapshots ==
    \A r \in Readers : rd[r].pc = "done" =>
       \E n \in rd[r].from..Len(log) : SnapshotOf(rd[r], SubSeq(log, 1, n))

\* A load finds every configuration a fact refers to, whenever it looks.
ConfigsAreThere == \A r \in Readers : rd[r].pc # "failed"

\* A load returns without its context having to end.
LoadsReturn == \A r \in Readers : (rd[r].pc # "idle") ~> (rd[r].pc = "idle")

\* It does, if no load of the Store has come to a restore without a new branch:
\* nothing else makes a load wait for a connection that is never given back.
OthersReturn ==
    \A r \in Readers :
       (rd[r].pc # "idle") ~>
          (rd[r].pc = "idle" \/ \E q \in Readers : rd[q].pc = "restored")
===============================================================================
