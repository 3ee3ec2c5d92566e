------------------------------- MODULE Session -------------------------------
(***************************************************************************)
(* Session handles over a durable fact log (session/session.go): submit,   *)
(* restore, fork, runtime transitions, reopening and crashes.              *)
(*                                                                         *)
(* The runtime of a handle is abstracted to what replay has to reproduce:  *)
(* the configuration it is in, which cells it has run under which          *)
(* configuration, and the values $val(n) answers with.  A cell is          *)
(* abstracted to its kind: what evaluating it, or replaying it, does.      *)
(***************************************************************************)
EXTENDS FactLog

CONSTANTS
    Handles,         \* session handles, used one operation at a time
    Modes,           \* the runtime modes to look at
    Kinds,           \* the kinds of cells submitted
    Hashes,          \* hashes of runtime configurations
    InitialHash,     \* the configuration StartSession attaches
    AppendFaults,    \* the fact types whose append may fail
    TransitionOnFork,\* are transitions made on a branch without own cells?
    MaxCells, MaxBranches, MaxTransitions, MaxRestores, MaxFaults

CellKinds == {"plain",    \* completes with a plain value
              "fn",       \* completes with a function value
              "throws",   \* evaluation, or settlement, fails
              "badTS",    \* does not type-check
              "once",     \* makes a host call whose replay policy forbids replay
              "sealLast"} \* leaves $last read-only

ASSUME SessionAssumption ==
    /\ Modes \subseteq {"persistent", "replay_per_submit"}
    /\ Kinds \subseteq CellKinds
    /\ InitialHash \in Hashes
    /\ TransitionOnFork \in BOOLEAN
    /\ {MaxCells, MaxBranches, MaxTransitions, MaxRestores, MaxFaults} \subseteq Nat
    /\ RootBranch <= MaxBranches

VARIABLES
    mode,     \* RuntimeMode of the session, from its manifest
    log,      \* the session's facts in the store
    st,       \* per handle: the session struct and the submit in progress
    faults,   \* how many appends have failed so far
    born,     \* per cell: what its runtime had run when the cell was committed
    verdict   \* per cell: what its Submit returned

vars == <<mode, log, st, faults, born, verdict>>

-----------------------------------------------------------------------------
(* Runtimes. *)

NoRuntime == [hash |-> "none", ran |-> <<>>, vals |-> <<>>]

\* newBranchRuntime: a VM configured for a hash, with no bindings.
NewRuntime(h) == [hash |-> h, ran |-> <<>>, vals |-> <<>>]

\* runContext: the cell runs under the current configuration.
RunCell(rt, c) == [rt EXCEPT !.ran = Append(@, [cell |-> c, hash |-> rt.hash])]

Sealed(l, rt) == \E i \in DOMAIN rt.ran : CellSource(l, rt.ran[i].cell) = "sealLast"

\* The answers with one more, or another one, at an index.
WithValue(vals, index, v) ==
    [i \in DOMAIN vals \cup {index} |-> IF i = index THEN v ELSE vals[i]]

\* Mutant of SetIndexedResult: indexes are off by one.
SetIndexedResultNext(rt, index, c) ==
    [rt EXCEPT !.vals = WithValue(@, index + 1, [cell |-> c, hash |-> rt.hash])]

\* setIndexedResult: $val(index) answers with the value of the cell.
SetIndexedResult(rt, index, c) ==
    [rt EXCEPT !.vals = WithValue(@, index, [cell |-> c, hash |-> rt.hash])]

\* replaceStaleIndexedResults: functions made under another configuration are
\* replaced by a stale stub, once and for all.
StaleHash == "stale"
ReplaceStale(l, vals, h, index) ==
    [i \in DOMAIN vals |->
       IF /\ i <= index /\ CellSource(l, vals[i].cell) = "fn"
          /\ vals[i].hash \notin {h, StaleHash}
       THEN [vals[i] EXCEPT !.hash = StaleHash] ELSE vals[i]]

\* applyRuntimeTransitionAndInvalidateIndexedResults. With no value to look at,
\* replaceStaleIndexedResults returns early.
ApplyTransition(l, rt, h, index) ==
    IF rt.hash = h THEN rt
    ELSE [rt EXCEPT !.hash = h,
                    !.vals = IF index = 0 THEN @ ELSE ReplaceStale(l, @, h, index)]

\* The transitions of a plan that follow a cell, applied in order.
ApplyTransitions(l, rt, plan, c, index) ==
    LET upTo[k \in 0..Len(plan.transitions)] ==
          IF k = 0 THEN rt
          ELSE IF plan.transitions[k].after = c
          THEN ApplyTransition(l, upTo[k - 1], plan.transitions[k].hash, index)
          ELSE upTo[k - 1]
    IN  upTo[Len(plan.transitions)]

\* Replaying a cell fails when one of its host calls may not be replayed, or
\* when $last cannot be set.
ReplayFails(l, plan) ==
    \E i \in DOMAIN plan.steps :
       CellSource(l, plan.steps[i]) \in {"once", "sealLast"}

\* replayPlanIntoRuntime, for a plan whose cells can be replayed.
Replay(l, plan) ==
    LET start == ApplyTransitions(l, NewRuntime(plan.hash), plan, NoCell, 0)
        upTo[n \in 0..Len(plan.steps)] ==
          IF n = 0 THEN start
          ELSE LET c == plan.steps[n]
                   rt == SetIndexedResult(RunCell(upTo[n - 1], c), n, c)
               IN  ApplyTransitions(l, rt, plan, c, n)
    IN  upTo[Len(plan.steps)]

-----------------------------------------------------------------------------
(* Handles. *)

Closed == [open |-> FALSE, pc |-> "idle", branch |-> NoBranch, head |-> NoCell,
           hash |-> "none", index |-> 0, dirty |-> FALSE, rt |-> NoRuntime,
           cell |-> NoCell, eval |-> NoRuntime]

\* installLoadedBranchState
Install(b, head, rt, index) ==
    [Closed EXCEPT !.open = TRUE, !.branch = b, !.head = head, !.hash = rt.hash,
                   !.index = index, !.rt = rt]

\* StartSession: SessionStarted and RuntimeAttached are in the log (the manifest
\* is read by nobody here), and one handle is at the empty head of the root.
Init ==
    /\ mode \in Modes
    /\ log = <<SessionStarted, RuntimeAttached(InitialHash)>>
    /\ \E s \in Handles :
          st = [h \in Handles |-> IF h = s
                  THEN Install(RootBranch, NoCell, NewRuntime(InitialHash), 0)
                  ELSE Closed]
    /\ faults = 0
    /\ born = [c \in 1..MaxCells |-> <<>>]
    /\ verdict = [c \in 1..MaxCells |-> "none"]

NextCell == Cardinality(OfType(log, "CellChecked")) + 1
NextBranch == Cardinality(OfType(log, "BranchCreated")) + RootBranch + 1
Restores == Cardinality(OfType(log, "RestoreCompleted"))
Transitions == Cardinality(OfType(log, "RuntimeTransitioned"))

\* An append that fails.
Fault(type) ==
    /\ type \in AppendFaults /\ faults < MaxFaults
    /\ faults' = faults + 1

\* The caller is between operations, on every handle.
Turn == \A h \in Handles : st[h].pc = "idle"

\* Mutant of Writable: the branch head is not compared with the handle's.
WritableAlways(s) == LoadHead(log, st[s].branch) \in Nat

\* ensureBranchHeadWritable: the branch has not moved past this handle.
Writable(s) == LoadHead(log, st[s].branch) \in {NoCell, st[s].head}

\* The runtime of the committed history at the handle's head, and whether there
\* is one. At the empty head it is a new VM in the handle's own configuration.
Rebuildable(l, s) ==
    st[s].head # NoCell => ~ReplayFails(l, LoadReplayPlan(l, st[s].head))
Rebuilt(l, s) ==
    IF st[s].head = NoCell THEN NewRuntime(st[s].hash)
    ELSE Replay(l, LoadReplayPlan(l, st[s].head))

Adopt(r, rt) == [r EXCEPT !.rt = rt, !.hash = rt.hash, !.dirty = FALSE]

\* ensureCleanRuntime: a dirty runtime is rebuilt, a clean one is kept. The
\* handle's index stays as it is.
Cleaned(l, s) ==
    IF st[s].dirty THEN Adopt(st[s], Rebuilt(l, s)) ELSE st[s]

-----------------------------------------------------------------------------
(* SubmitCell: one action per durable append. *)

\* In replay_per_submit mode every cell is evaluated on a runtime of its own.
Fresh == mode = "replay_per_submit"
NeedsReplay(s) == Fresh \/ st[s].dirty

\* Mutant of Prepared: the old runtime is taken as it is.
PreparedAsIs(l, s) == [st[s] EXCEPT !.eval = st[s].rt]

\* prepareSubmitRuntime: the handle's runtime, or a fresh one beside it.
Prepared(l, s) ==
    IF Fresh THEN [st[s] EXCEPT !.eval = Rebuilt(l, s)] ELSE Cleaned(l, s)

\* The cell is checked and CellChecked is journaled; a cell with type errors
\* ends here, and so does one for which no runtime can be prepared.
SubmitCheck(s, kind) ==
    LET c == NextCell
        l == Append(log, CellChecked(st[s].branch, c, kind))
    IN  /\ Turn /\ st[s].open /\ c <= MaxCells
        /\ Writable(s)
        /\ \/ Fault("CellChecked") /\ UNCHANGED <<log, st, verdict>>
           \/ /\ log' = l
              /\ IF kind = "badTS" \/ (NeedsReplay(s) /\ ~Rebuildable(l, s))
                 THEN verdict' = [verdict EXCEPT ![c] = "failed"] /\ UNCHANGED st
                 ELSE /\ st' = [st EXCEPT ![s] = [Prepared(l, s) EXCEPT
                                                    !.pc = "eval", !.cell = c]]
                      /\ UNCHANGED verdict
              /\ UNCHANGED faults
        /\ UNCHANGED born

\* The submit is over; the fresh runtime, if any, is closed or has become s.rt.
Idle(r) == [r EXCEPT !.pc = "idle", !.cell = NoCell, !.eval = NoRuntime]

\* submitFailureResult: a shared runtime is dirty, a fresh one is thrown away;
\* CellFailed is journaled if the store can. r is the handle with its runtimes.
FailSubmit(s, r) ==
    /\ st' = [st EXCEPT ![s] = Idle([r EXCEPT !.dirty = @ \/ ~Fresh])]
    /\ verdict' = [verdict EXCEPT ![st[s].cell] = "failed"]
    /\ \/ log' = Append(log, CellFailed(r.branch, r.head))
       \/ "CellFailed" \in AppendFaults /\ UNCHANGED log
    /\ UNCHANGED born

\* The cell runs on the runtime and settles, then CellEvaluated is journaled. A
\* failing cell has run too.
SubmitEval(s) ==
    LET c == st[s].cell
        r == IF Fresh THEN [st[s] EXCEPT !.eval = RunCell(@, c)]
             ELSE [st[s] EXCEPT !.rt = RunCell(@, c)]
    IN  /\ st[s].pc = "eval"
        /\ \/ /\ CellSource(log, c) = "throws"
              /\ FailSubmit(s, r) /\ UNCHANGED faults
           \/ /\ CellSource(log, c) # "throws"
              /\ \/ Fault("CellEvaluated") /\ FailSubmit(s, r)
                 \/ /\ log' = Append(log, CellEvaluated(r.branch, c))
                    /\ st' = [st EXCEPT ![s] = [r EXCEPT !.pc = "commit"]]
                    /\ UNCHANGED <<faults, verdict, born>>

SubmitCommit(s) ==
    /\ st[s].pc = "commit"
    /\ \/ Fault("CellCommitted") /\ FailSubmit(s, st[s])
       \/ /\ log' = Append(log, CellCommitted(st[s].branch, st[s].cell))
          /\ st' = [st EXCEPT ![s].pc = "move"]
          /\ UNCHANGED <<faults, verdict, born>>

\* HeadMoved is journaled and the handle moves to the cell. When $last cannot be
\* set the cell stays committed, and the index stays behind.
SubmitMove(s) ==
    LET c == st[s].cell
        rt == IF Fresh THEN st[s].eval ELSE st[s].rt
        r == [st[s] EXCEPT !.head = c, !.dirty = FALSE, !.rt = rt,
                           !.hash = IF Fresh THEN rt.hash ELSE @]
    IN  /\ st[s].pc = "move"
        /\ \/ Fault("HeadMoved") /\ FailSubmit(s, st[s])
           \/ /\ log' = Append(log, HeadMoved(st[s].branch, st[s].head, c))
              /\ IF Sealed(log, rt)
                 THEN /\ st' = [st EXCEPT ![s] = Idle([r EXCEPT !.dirty = TRUE])]
                      /\ verdict' = [verdict EXCEPT ![c] = "error"]
                 ELSE /\ st' = [st EXCEPT ![s] = Idle([r EXCEPT
                                   !.index = @ + 1,
                                   !.rt = SetIndexedResult(rt, st[s].index + 1, c)])]
                      /\ verdict' = [verdict EXCEPT ![c] = "ok"]
              /\ born' = [born EXCEPT ![c] = rt.ran]
              /\ UNCHANGED faults

-----------------------------------------------------------------------------
(* Restore, fork, open, transition, close. A closed handle restores or forks as
   RestoreSession and ForkSession do: what the bootstrap loads is overwritten. *)

\* Mutant of Loaded: the index starts again from zero.
LoadedAtZero(b, c) == Install(b, c, Replay(log, LoadReplayPlan(log, c)), 0)

LoadedFrom(b, c, plan) == Install(b, c, Replay(log, plan), Len(plan.steps))

\* Restoring, forking and opening replay the plan of the cell into a new runtime.
Loaded(b, c) == LoadedFrom(b, c, LoadReplayPlan(log, c))

Replayable(c) == c \in MovedCells(log) /\ ~ReplayFails(log, LoadReplayPlan(log, c))

Restore(s, c) ==
    /\ Turn /\ Replayable(c) /\ Restores < MaxRestores
    /\ \/ Fault("RestoreCompleted") /\ UNCHANGED <<log, st>>
       \/ /\ log' = Append(log, RestoreCompleted(c, NoBranch))
          /\ st' = [st EXCEPT ![s] = Loaded(branchForCell(log, c), c)]
          /\ UNCHANGED faults
    /\ UNCHANGED <<born, verdict>>

Fork(s, c) ==
    LET b == NextBranch
        created == Append(log, BranchCreated(b, c))
    IN  /\ Turn /\ Replayable(c) /\ Restores < MaxRestores /\ b <= MaxBranches
        /\ \/ Fault("BranchCreated") /\ UNCHANGED <<log, st>>
           \/ Fault("RestoreCompleted") /\ log' = created /\ UNCHANGED st
           \/ /\ log' = Append(created, RestoreCompleted(c, b))
              /\ st' = [st EXCEPT ![s] = Loaded(b, c)]
              /\ UNCHANGED faults
        /\ UNCHANGED <<born, verdict>>

\* OpenSession: at the durable cursor, without appending anything.
Open(s) ==
    LET cur == LoadSessionState(log)
    IN  /\ Turn /\ ~st[s].open
        /\ st' = [st EXCEPT ![s] =
                    IF cur.head = NoCell
                    THEN Install(cur.branch, NoCell, NewRuntime(cur.hash), 0)
                    ELSE Loaded(cur.branch, cur.head)]
        /\ cur.head # NoCell => ~ReplayFails(log, LoadReplayPlan(log, cur.head))
        /\ UNCHANGED <<log, faults, born, verdict>>

\* Does the branch have a cell of its own, or is it the root?
OwnBoundary(b) == b = RootBranch \/ OnBranch(log, "HeadMoved", b) # {}

\* TransitionToState: a dirty runtime is rebuilt, the delegate changes the
\* runtime, and RuntimeTransitioned is journaled. A delegate or an append that
\* fails leaves the runtime changed and dirty; the handle keeps its old hash.
Transition(s, h) ==
    /\ Turn /\ st[s].open /\ Writable(s)
    /\ st[s].dirty => Rebuildable(log, s)
    /\ OwnBoundary(st[s].branch) \/ TransitionOnFork
    /\ \E r \in {Cleaned(log, s)} :
          LET rt == ApplyTransition(log, r.rt, h, r.index) IN
          \/ /\ h = r.hash
             /\ st' = [st EXCEPT ![s] = r] /\ UNCHANGED <<log, faults>>
          \/ /\ h # r.hash /\ Fault("RuntimeTransitioned") /\ UNCHANGED log
             /\ st' = [st EXCEPT ![s] = [r EXCEPT !.rt = rt, !.dirty = TRUE]]
          \/ /\ h # r.hash /\ Transitions < MaxTransitions
             /\ log' = Append(log, RuntimeTransitioned(r.branch, r.head, h))
             /\ st' = [st EXCEPT ![s] = [r EXCEPT !.rt = rt, !.hash = h]]
             /\ UNCHANGED faults
    /\ UNCHANGED <<born, verdict>>

\* Close, or the end of the process. It may come between any two appends of a
\* submit; between CellCommitted and HeadMoved only where HeadMoved may be lost.
Stop(s) ==
    /\ st[s].open
    /\ st[s].pc = "move" => "HeadMoved" \in AppendFaults
    /\ st' = [st EXCEPT ![s] = Closed]
    /\ verdict' = IF st[s].cell = NoCell THEN verdict
                  ELSE [verdict EXCEPT ![st[s].cell] = "lost"]
    /\ UNCHANGED <<log, faults, born>>

Next ==
    /\ UNCHANGED mode
    /\ \E s \in Handles :
       \/ \E k \in Kinds : SubmitCheck(s, k)
       \/ SubmitEval(s) \/ SubmitCommit(s) \/ SubmitMove(s)
       \/ \E c \in 1..MaxCells : Restore(s, c) \/ Fork(s, c)
       \/ Open(s) \/ Stop(s)
       \/ \E h \in Hashes : Transition(s, h)

Spec == Init /\ [][Next]_vars

-----------------------------------------------------------------------------
(* Properties. *)

Ids == 0..MaxCells
Names == Hashes \cup {"none", StaleHash}

IsRuntime(rt) ==
    /\ rt.hash \in Names
    /\ rt.ran \in Seq([cell : Ids, hash : Names])
    /\ DOMAIN rt.vals \subseteq 1..MaxCells
    /\ \A i \in DOMAIN rt.vals : rt.vals[i] \in [cell : Ids, hash : Names]

\* The facts carry known cells and branches, and every handle is well formed.
TypeOK ==
    /\ \A i \in DOMAIN log : log[i].cell \in Ids /\ log[i].branch \in 0..MaxBranches
    /\ \A s \in Handles :
          /\ st[s].open \in BOOLEAN /\ st[s].dirty \in BOOLEAN
          /\ st[s].pc \in {"idle", "eval", "commit", "move"}
          /\ st[s].branch \in 0..MaxBranches
          /\ {st[s].head, st[s].cell, st[s].index} \subseteq Ids
          /\ st[s].hash \in Names
          /\ IsRuntime(st[s].rt) /\ IsRuntime(st[s].eval)
    /\ faults \in 0..MaxFaults
    /\ \A c \in 1..MaxCells : born[c] \in Seq([cell : Ids, hash : Names])
    /\ verdict \in [1..MaxCells -> {"none", "ok", "failed", "error", "lost"}]

Resting(s) == st[s].open /\ st[s].pc = "idle"

\* A runtime that is not dirty is what replaying the committed history at the
\* handle's head would build: same configuration, same cells under the same
\* configurations, same $val answers.
LiveIsReplay ==
    \A s \in Handles : Resting(s) /\ ~st[s].dirty =>
       /\ st[s].rt.hash = st[s].hash
       /\ Rebuildable(log, s) => st[s].rt = Rebuilt(log, s)

\* The index of a handle is the length of its lineage, so that $val(n) is the
\* n-th visible committed cell and indexes on a branch only grow.
IndexIsLineage ==
    \A s \in Handles : Resting(s) /\ ~st[s].dirty =>
       st[s].index = IF st[s].head = NoCell THEN 0
                     ELSE Len(LoadReplayPlan(log, st[s].head).steps)

\* The handle and the store agree on the active branch, head and configuration:
\* a crash at any moment loses no committed cell and no transition.
CursorIsDurable ==
    \A s \in Handles : Resting(s) =>
       LoadSessionState(log) = [branch |-> st[s].branch, head |-> st[s].head,
                                hash |-> st[s].hash]

\* A cell whose submit failed "does not become part of committed session history"
\* (model/facts.go:145-146): it is in the replay plan of no cell. SubmitMove breaks
\* this: HeadMoved fails when CellCommitted, which decides the plans, is durable.
FailedCellsInvisible ==
    \A c \in 1..MaxCells : verdict[c] = "failed" =>
       \A d \in MovedCells(log) : c \notin Range(LoadReplayPlan(log, d).steps)

\* However the session goes on, replaying to a committed cell runs exactly the
\* cells that had run when it was committed, each under its configuration then.
ReplayReproduces ==
    \A c \in MovedCells(log) :
       LET plan == LoadReplayPlan(log, c)
       IN  ~ReplayFails(log, plan) => Replay(log, plan).ran = born[c]

\* The heads of a branch form one line, starting where it was forked: a handle
\* that has fallen behind, or was restored to an older cell, never moves it.
LinearHistory ==
    \A i \in OfType(log, "HeadMoved") :
       LET b == log[i].branch
           earlier == {j \in OnBranch(log, "HeadMoved", b) : j < i}
       IN  log[i].previous =
              IF earlier # {} THEN log[Max(earlier)].cell
              ELSE IF b = RootBranch THEN NoCell
              ELSE log[Min(OnBranch(log, "BranchCreated", b))].cell

\* The plan of a committed cell is immutable, except that a transition made on
\* its own branch right after it joins its transitions.
PlanStable ==
    [][\A c \in MovedCells(log) :
          LET old == LoadReplayPlan(log, c)
              new == LoadReplayPlan(log', c)
          IN  /\ new.steps = old.steps /\ new.branch = old.branch
              /\ new.transitions # old.transitions =>
                    Last(log').type = "RuntimeTransitioned"
                    /\ Last(log').branch = old.branch /\ Last(log').cell = c]_log

\* A transition is recorded at the branch and head it was made at: reopening
\* there finds the configuration the handle is in.
TransitionsAreDurable ==
    \A s \in Handles : Resting(s) =>
       loadActiveRuntime(log, st[s].branch, st[s].head) = st[s].hash
-----------------------------------------------------------------------------
(* The tree of branches the log stands for (SessionTree.tla). *)

BranchesOf(l) == {RootBranch} \cup {l[i].branch : i \in OfType(l, "BranchCreated")}

\* A branch's line: what it inherits, and its own cells up to its head.
LineOf(l, b) ==
    LET head == LoadHead(l, b)
    IN  Cells(IF head # NoCell THEN collectAncestorChain(l, b, head)
              ELSE ChainOf(l, Above(l, b)))
===============================================================================
