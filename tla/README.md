# Specifications of repljs

repljs runs JavaScript and TypeScript cells in a persistent session: every cell
is journaled as facts in an append-only store, and any committed state can be
rebuilt later by replaying its history. The modules in this directory specify
the parts that make this true, model-check them with TLC and prove the most
important invariants with TLAPS.

## Inventory

| Component | State | Operations | What makes it correct |
|---|---|---|---|
| Cell evaluation (`session/runtime.go`, `SubmitCell`) | event loop queue, `effectAccumulator`, `hostFunctionRouter.live`, `runtimeDirty`, deadline | run a cell, sync and async host calls, settle, drain, rebuild | Submit returns; a committed cell has settled; effects are charged to the cell that made them; failed code is gone |
| Sessions (`session/session.go`) | branch, head, index, runtime and its configuration, values | start, open, restore, fork, submit, transition, close | handle and store agree; the live runtime is what replay would build; failed work leaves no trace |
| Fact store (`store/mem`, `model/facts.go`) | the log; index columns type, branch, cell | append; head, replay plan, session state, active configuration, effects | plans of committed cells never change; forks see exactly their ancestors |
| SQLite store (`store/sqlite`) | the same log in one table, one connection | the same queries in SQL | same answers; no query waits for itself |
| Effect replay (`replayStepState`, `LoadCellEffects`) | recorded effects of a cell, completion order | hand out recorded results in order | replay settles as the live run did |
| Runtime configuration (`resolveRuntimeDescriptor`) | config, hash, epoch | attach, transition, invalidate stale functions | one hash per configuration; stale functions do not run |
| TypeScript frontend (`typescript`) | environment, committed sources, epoch | check and emit | a check sees the committed sources of its branch |
| Top-level names (`session/top_level_await.go`) | table of committed declarations, open commit, global scope and global object of goja | check redeclarations, commit hook, promote a scope, bridge to the global object, record | names keep one binding and their values; a failed cell leaves none; replay builds the same scope |
| jswire (`jswire`) | encoder and decoder state; a value is a graph of nodes | encode, validate, decode, patch, inspect | the graph is the value at every stage; what is written can be read |
| Command line, samples (`cmd`) | terminal, HTTP | read, submit, print | out of scope |

How they interact: `SubmitCell` holds the session mutex throughout. It posts the
cell to the runtime's event loop and waits for the outcome and for the effects
in the accumulator. Host functions run on the loop (synchronous) or in a
goroutine each (asynchronous) and come back through
`RunOnRuntimeLoop`. The session appends facts to the store, and on restore, fork,
open or rebuild asks the store for a replay plan and feeds it to a new runtime.

On the loop a cell ends by calling a commit hook, which changes the names of
the runtime; the submit goroutine records the declarations when it takes the
outcome. Host functions hand their parameters and results over as jswire values,
which are also what the journal keeps.

The hard behaviours are the interleavings of loop, host goroutines, deadline and
submit goroutine; appends that fail, or a process that ends, between two facts
of one operation; and lineages across forks, restores and runtime transitions.
`PROJECT.json` lists each hazard with its line and the properties that cover it.

## Modules

| Module | Models |
|---|---|
| `CellSettle` | one session's submits: the submit goroutine, the event loop, host calls and the deadline |
| `MCCellSettle` | small sets of host calls for TLC |
| `CellSettleProofs` | TLAPS proofs about `CellSettle` |
| `Ordered`, `OrderedProofs` | finite sets put in order by a key; lemmas about minimum, rank and order |
| `FactLog` | the facts and the queries `store/mem` answers, as operators on a log |
| `Session`, `SessionProofs` | handles on one session: one action per durable append of each operation; TLAPS proofs |
| `BranchTree` | the abstract history: branches as lines of cells, and a cursor |
| `SessionTree`, `SessionTreeProofs` | `Session` with the abstract history carried along; refinement of `BranchTree`; TLAPS proofs of the refinement, of replay and of the bounds |
| `SqliteStore`, `SqliteStoreProofs` | the queries of SQLite loads, on one connection, beside a session that appends; TLAPS proofs |
| `EffectReplay`, `MCEffectReplay`, `EffectReplayProofs` | host calls of a run and of its replay from the journal; TLC instance and TLAPS proofs |
| `CellScope`, `MCCellScope`, `CellScopeProofs` | the names cells declare, their scopes and their replay; TLC instance and TLAPS proofs |
| `WireGraph`, `MCWireGraph` | jswire graphs: encoding, patches, decoding |
| `BranchTreeProofs` | TLAPS proofs about `BranchTree` |

### CellSettle

`pc` is the position of the goroutine in `SubmitCell`: `prepare` (up to
`prepareSubmitRuntime`), `eval` (in `runContext`), `wait` and `blocked`
(`waitPendingAsync` before and in its select), `post` and `flush` (`flushLoop`),
`recheck` and `unhandled` (the end of `awaitCellSettled`), `drain`, `append`,
`index` and `indexing` (`setIndexedResult` before and in its wait), `failing`, `end`.
`queue` and `job` are the event loop; a job is a program (`run`), the settlement of an asynchronous host call (`settle`), or a flush
barrier. A JavaScript turn is abstracted to what it can do: start host calls,
deliver the cell's outcome (once), change whether unhandled rejections exist,
end. `effects`, `asyncEffects`, `asyncSettled` and `unhandled` are the fields of
the accumulator, one per cell as in the code, where settlements hold on to the
accumulator of the cell that was active when the call was made. The steps of a
settlement are separate actions, in the order of the code: journal
`EffectCompleted`, update the summary, resolve; or update, journal
`EffectFailed` (errors ignored), reject. `owner` and `charged` tell apart whose
code made a call and which cell it was journaled under; only the second exists in
the code. An `EffectStarted` that cannot be appended only rejects the call and
changes nothing here. `Refuse` stands for every return before `beginCell`.

The last wait of a submit is different from the others. When `HeadMoved` is durable,
`setIndexedResult` posts a job to the loop (`PostIndex`) and waits for it with neither
a context nor a deadline (`IndexReturns`; session/runtime.go:1403, `return <-done`). A
turn of JavaScript that is running then, or is queued before the job, keeps Submit from
returning for as long as it lasts. If `$last` cannot be assigned the runtime is abandoned
and the cell stays committed. So a cell that was begun is always decided
(`CellIsDecided`), but Submit returns only if turns end (`SubmitReturns`).

`StartAfterResult` says whether cells start host calls after their outcome is
known, which a cell can only do by not awaiting a promise. Without such calls a
committed cell has settled (`SettledAtCommit`). With them it need not have: an
effect that completes between the flush and the last look at the accumulator can
have a continuation that is queued and about to make the next call, so a chain of
calls that nobody awaits can outlive the commit of its cell, although README.md:45
of the repository says that Submit blocks until "tracked async work created by
that cell" has settled.
The effects a failed submit reports are another
matter: after a timeout the cell's code goes on between `Drain` and `EndCell`, and
a host call it makes there is journaled for the cell and listed nowhere.

### FactLog and Session

`FactLog` defines each query as a function of the log, in set and sequence
terms; the loops of `mem.go` are the selections, and `collectAncestorChain` and
`buildRuntimeVisibility` are one path from the root (`Segments`), each segment
with its stop cell and its cutoff position. Cells and branches are numbered in
the order they are created instead of carrying UUIDs, which makes a parent branch
smaller than its child; nothing compares them otherwise. Facts selected from the log are
put in order with `Ordered`.

`Session` keeps a record per handle with the fields of the session struct. A
runtime is `hash` (its configuration), `ran` (which cells ran under which
configuration) and `vals` (what `$val(n)` answers: the cell and the
configuration of its function, or stale). A cell is reduced to its kind: plain,
function valued, throwing, not type-checking, not replayable (`once`), or
sealing `$last`. SubmitCell is four actions, because a crash or a failing append
may come between `CellChecked`, `CellEvaluated`, `CellCommitted` and `HeadMoved`.
`CellFailed` is recorded with the failing step. An append that fails has not
happened. `born` and `verdict` are history variables for the properties.

`mode` is the runtime mode of the session's manifest: in `replay_per_submit` a cell
is evaluated on a runtime of its own (`eval`), which the handle adopts or throws
away.

`session_faults` leaves one fault out, because the code does not survive it: when
`HeadMoved` cannot be appended, or the process ends before it, `CellCommitted` is
already durable. Submit reports a failure, and the cell is no head, but the plan of
every later cell of the branch contains it, so that the next replay runs it.
`session_head_moved` is the run with this fault; model/facts.go:145-146 says that a
failed submit "does not become part of committed session history". What holds all the same,
`FailedCellsAreNoHeads`, is proved.

Assumptions about callers: handles are used one operation at a time; cells to
restore to or fork from come from successful submits; a delegate for transitions
is present; a handle is not used after Close.

### BranchTree

Every branch is a line of cells; `Commit`, `Fork` and `Restore` are the only
changes. `Session` implements it with `line` and `cursor` computed from the log
(`RefinesBranchTree`): commits happen at `HeadMoved`, forks at `BranchCreated`,
and an interrupted fork creates the branch without making it active. `TreeShape`, that
cells two branches share have one history, is checked on the lines of the log
(`session_history`) and proved of them: `SharedHistory` carries the theorem of the
abstract tree over the refinement.

### SqliteStore

A load is a sequence of queries, one action each, and its locals are in `rd`;
`pc` names the query it makes next. `phase` says why it climbs the tree of
branches: a plan does so three times (steps, cells in scope, cutoffs), a state
twice. A query needs the connection of its Store. Only `LoadSessionState` keeps
it over several steps, from `OpenRows` to `CloseRows`. The session that writes
is reduced to the facts these queries read, in the order `Session` writes them;
it may stop between any two, and it uses the readers' Store or one of another
process. `FactLog` gives the meaning of each query, so `LoadsAreSnapshots` also
says that the two stores give the same answers.

One answer is not a snapshot, and the property leaves it out: after a fork the
head is a cell of the parent branch, at which `committedCellsUpTo` of the new
branch does not stop. A state read there while the new branch gets its first
cell and a transition combines the old head with the new configuration.
`OpenSession` takes the configuration from the plan instead and is not affected.

### EffectReplay

A program says which host calls the cells make and after which others have
settled each one is made (`after`); this is all replay can observe of the
JavaScript. The live run makes the calls, settles them in any order and leaves
`linked` (LinkedEffects, in the order of starts) and `journal` (EffectCompleted
facts). Replay runs the same program: the goroutine begins a step, posts the
program, and finishes the step when the value is known; the loop runs the
program and the flushes. `got` records whose result each call was given. Promise
reactions run within the resolve that causes
them, as goja does when it is called from Go with an empty stack; calls of the
program that fail are caught by it. Control flow does not depend on results.

`phase` is where the live SubmitCell is: it waits for the value and the pending count
(`program`, `pending`), posts a barrier (`barrier`), looks at the count again (`recheck`),
drains the accumulator (`drain`), appends its facts and waits for `setIndexedResult` (`over`).
It looks at nothing else, so it may go on while an effect has been recorded and its
continuation is still about to make the next call. A call after the drain is journaled
but linked to no cell, one made between two cells is rejected (`LateCall`), and one made
when the next cell has begun is linked to that cell.

So cells may consume each other's records. If a cell makes the calls 1, then 2, 3 and 4 each
after the one before, and awaits none, the first look may come when 1 is recorded and 2 is
not yet made, and the second, after the barrier, when 2 is recorded and 3 is not yet made.
Both find the count at 0; the cell commits, 3 is linked to the next cell or to none, and replay,
in which no deadline and no submit is in the way, makes it in another step.
`OwnCell` is therefore a property of `Prompt` programs: a call that nobody awaits only
waits for calls that the cell's value awaits, or that wait for nothing themselves. For
these the barrier suffices, because it runs after the one continuation that can still be
missing. `SettledAtCommit` of `CellSettle` has the same limit.

Replay is right for calls that start together or in stages (`Staged`, in
`effect_replay`). Without this premise it is not. Calls made by a continuation are
queued for the next flush and settle after calls that completed later; concurrent
chains then start their calls in another order and get each other's results
(`effect_replay_chains`). And since a step is finished when the value of its cell
is known, a chain nobody awaits can leave effects over, which makes a committed
cell impossible to replay: `EffectsConsumed` without `Staged` is violated by two
chained calls. `Session` abstracts from all this: there a cell can be replayed or
it cannot.

### CellScope

A cell is its declarations, one write to a name it may or may not declare (as
`x = v` or through `globalThis`) and how it ends: it reaches the hook and
commits, has a top-level return, throws, hangs, has a value that rejects, or
settles too late. Values are told apart by the cell and the name that wrote
them. `chain` is goja's global scope, a layer per promoted cell with kinds,
slots and values; slots are numbered as goja numbers a function's, because the
accessors `bridgePromotedGlobals` puts on the global object keep a slot number
and look it up in whatever layer is the newest. `gobj` is the global object,
`committed` the table of `validateRedeclarations`. `phase` is the goroutine in
`runContext`; `loop` is the cell's job: posted, ended (about to call the hook),
bridging, none. `Timeout` can come at any of these points and the job goes on.
A submit on a dirty runtime is `Rebuild`, then `Replay` for each committed cell,
which passes through the same steps. A replay that fails or runs out of time
leaves the runtime dirty and is begun again.

goja itself is external: lookup along the layers, assignment in sloppy code, get
and set on its global object.

`saved`, `wanted` and `misdirected` are history variables. `misdirected` says that
a write through the global object went to another slot than the name's, or that the
object has a property beside a binding that came later. The code allows both:

- after `var x` of one cell and any declaration of a later one, `globalThis.x`
  reads and writes the slot with x's number in the later cell's layer (session_test.go:5536
  covers the case without a later cell, "promoted var declaration stays visible via globalThis");
- if x is declared again, bridging sets x through the old accessor, with the same
  effect, and since the names are visited in the order of a Go map a replay may
  build other values;
- a property assigned before the name was declared keeps living beside it.

`ScopeIsReplayed` and `ValuesKept` each have two parts. That replay builds the same layers,
slots and kinds of property, and that exactly the names of committed cells are bound, holds
always. That the values are the same, or the ones last given, holds until the first
such write and not after: there the code does lose values (top_level_await.go:1386).
`OneBinding` and `BoundIsCommitted` do not depend on it. Two more consequences of
the code stay within the properties: a cell with a top-level return records
declarations it never promoted, and functions of a cell do not see what later cells
declare with let, const or class.

### WireGraph

A heap is a sequence of objects of eight kinds with two keys each; kinds that
differ only in data (dates, regular expressions, boxed values, maps and sets
beside arrays) are one. Encoding is depth first with an explicit stack: an object
gets its id and an empty node when it is met, and the node is stored when the
values of the object have been encoded, so a cycle refers to a node that is not
there yet. The two encoders differ in two points: quickjs' refuses promises, and
goja's writes a typed array under the name of its class. A patch appends the nodes of its source with new ids
(`appendGraphNodes`), walks a path of plain objects and sets or removes a key;
the same change is made to the heap as an assignment would, which is what
`GraphIsImage` compares. A node that is no longer reachable stays in the table.
The engine decoders allocate every node (typed arrays after buffers) and then
fill them; the typed decoder walks from the root.

What the properties leave out because the code does: a value with a typed array
of a subclass, written by `EncodeGoja` without an error, is refused by every
reader; a promise cannot be decoded by quickjs, even one a patch has removed;
the names of classes are lost at decoding; the typed decoder drops properties of
kinds that have none in Go.

## Runs

| Run | Module, configuration | Expect | Properties | Shows |
|---|---|---|---|---|
| `cell_settle_awaited` | `MCCellSettle`, `CellSettleAwaited.cfg` | pass | `TypeOK`, `NoLostWakeup`, `CompletedIsDurable`, `FailedCodeIsGone`, `SettledAtCommit`, `ChargedToOwner` | Two cells and two host calls, started before the cell's outcome is known: a committed cell has settled, host calls are charged to the cell that made them, and a failed cell's code never meets a later cell. |
| `cell_settle_returns` | `MCCellSettle`, `CellSettleReturns.cfg` | pass | `CellIsDecided`, `SubmitReturns` | Two cells with an arbitrary, also unawaited, host call under fairness: every cell that was begun is decided whatever host calls and JavaScript do, and Submit returns if turns of JavaScript end, which its last wait, without a deadline, needs. |
| `session_history` | `SessionTree`, `SessionHistory.cfg` | pass | `TypeOK`, `LiveIsReplay`, `IndexIsLineage`, `ReplayReproduces`, `LinearHistory`, `PlanStable`, `TreeShape`, `RefinesBranchTree` | Commits, restores, forks, transitions, closing and reopening in any order without faults: the live runtime, the index and every replay plan agree, cells that branches share have one history, a handle restored to an older cell never moves its branch, and the history is the abstract tree. |
| `session_faults` | `SessionTree`, `SessionFaults.cfg` | pass | `CursorIsDurable`, `LiveIsReplay`, `IndexIsLineage`, `RefinesBranchTree` | Cells that throw, do not check, cannot be replayed or seal $last, one failing append and crashes between appends (but not after CellCommitted), in both runtime modes: a runtime that is not dirty is what replay would build, the durable cursor is the handle's, and the history is still the abstract tree. |
| `session_head_moved` | `Session`, `SessionHeadMoved.cfg` | violation | `FailedCellsInvisible` | HeadMoved fails after CellCommitted is durable: Submit reports a failure, and the replay plan of the next cell contains the failed one. |
| `session_fork_transition` | `Session`, `SessionForkTransition.cfg` | violation | `TransitionsAreDurable` | A transition made right after a fork is journaled at a cell of the parent branch and never takes effect again. |
| `sqlite_loads` | `SqliteStore`, `SqliteLoads.cfg` | pass | `TypeOK`, `LoadsAreSnapshots`, `ConfigsAreThere`, `OthersReturn` | Another process commits, transitions, restores and forks between the queries of a load: the answer is still the one of a single log, every configuration is found, and only a plain restore can keep a load from returning. |
| `sqlite_self_wait` | `SqliteStore`, `SqliteSelfWait.cfg` | violation | `LoadsReturn` | After a plain restore LoadSessionState asks for a branch while its own rows hold the only connection, and waits for itself. |
| `effect_replay` | `MCEffectReplay`, `EffectReplay.cfg` | pass | `StagedReplay`, `EffectsConsumed`, `OwnCell`, `ReplayEnds` | Four calls in two cells that follow each other in every possible way, awaited or not, in every order of completion, with SubmitCell's waits for them: replay ends, and no cell of a prompt program consumes the records of another; calls made in stages, as with an awaited Promise.all, get their own results in the recorded order, and nothing is left over. |
| `effect_replay_chains` | `MCEffectReplay`, `EffectReplayChains.cfg` | violation | `OwnResults` | Two concurrent chains: replay starts their calls in another order than the live run did, and hands them each other's results. |
| `cell_scope` | `MCCellScope`, `CellScope.cfg` | pass | `TypeOK`, `OneBinding`, `ScopeIsReplayed`, `BoundIsCommitted`, `ValuesKept` | Two names declared, redeclared and assigned by three cells that commit, return early, throw, reject, never settle or settle too late, with the replays this causes: names keep one binding, exactly the names of committed cells are bound, in the same slots as before a replay, and with their values until a write to the global object misses its name. |
| `wire_graph` | `MCWireGraph`, `WireGraph.cfg` | pass | `NothingRefused`, `GraphIsImage`, `RoundTrip`, `TypedIffTree` | Every heap of three objects with sharing, cycles, typed arrays, promises and functions, encoded by either engine, patched twice with ids that run out, and decoded by either engine or into Go values: the graph is the value at every stage. |

Bounds. Two cells suffice for everything `CellSettle` says about a cell and its
successor; two host calls give both orders of any pair of settlements. The liveness
run has two cells and one host call, enough for a late continuation of the first cell
to meet the last wait of its submit and the second cell.
Three cells, three branches, two transitions and
two restores give a fork of a fork with a transition on each side of a fork, in
both orders; the fault run has fewer cells but every kind of cell and one
failing append anywhere. All runs of `Session` use one handle, which falls behind
its branch when it is restored to an older cell; a second one adds the hazards of overlapping use
that `PROJECT.json` lists and the plan names.

For SQLite two cells, two branches, a transition and a restore or fork let the
session pass the reader by commits, a fork and a transition between any two
queries. For replay, four calls give every dependency among them, stages of two
calls that complete in both orders, and cells with another cell after them. One
call that is synchronous, fails or both, and one or all left without an await,
keep the programs few (6,552, of which 954,554 states arise).
Loads are bounded per reader, writes by their counts; both then stop, so
deadlock is not checked there, nor in `EffectReplay`, which ends with replay.

For names, three cells over two names with at most two declarations each give a
declaration, a redeclaration and a cell in between that shifts the slots, and two
failures let a replay fail as well; var stands for function, and let for const
and class, which the code treats alike. Cells that declare a name, write one through
`globalThis` and return are included, of which the write remains and the declaration does
not; other cells write or declare, and the proofs cover those that do both. For jswire, three objects with two keys
give shared objects, cycles of every length up to three and a typed array before
or after its buffer; `MaxID` 5 lets ids run out in the middle of a second
patch. Both end when a bound is reached, so deadlock is not checked.

`SessionFaults` does not check deadlock: a session whose
head cannot be replayed can never be opened again, and the bounds of the model
are then reached for good. `SessionHistory` checks it.

Fairness (`CellSettle!FairSpec`): weak fairness of the submit goroutine's steps, of the
deadline, which `withCellSettleTimeout` puts on every evaluation, and of an idle loop
taking its next job. Nothing is assumed of host calls, which may never answer, nor of turns of
JavaScript, which the code never interrupts. `CellIsDecided` needs no more.
`SubmitReturns` has the ending of turns (`TurnsEnd`) as its premise, because the wait for
`setIndexedResult` needs the loop.

`SqliteStore!Spec`: weak fairness of each reader's next query. database/sql hands a
connection that is given back to a waiting request; the number of competing
queries is bounded here, so nothing stronger is needed. Contexts need not end and
the session need not go on. `EffectReplay!Spec`: weak fairness of the goroutine and
of the loop during replay.

The violation runs and what they show are the findings of `PROJECT.json`.

## Proofs

`CellSettleProofs` proves for every set of effects and every number of cells
that `CellSettle` keeps `TypeOK`, `NoLostWakeup`, `CompletedIsDurable` and
`FailedCodeIsGone`. None is inductive alone. `BaseInv` strengthens them with:

- `PcInv`: where the submit is decides `live`;
- `RunningInv`, `QueueInv`: jobs are well formed and no effect is settled by two
  jobs, so a settlement never overwrites another one's record;
- `EffectInv`: a host call's progress, its summary and its fact move together;
- `WaitInv`: a sleeping waiter holds an open channel only while work is pending;
- `FailedInv`: while a failed cell's code is not gone the runtime is dirty, and
  a dirty runtime is rebuilt before the next cell begins.

Each is preserved step by step (`TypeStep`, `RunningStep`, `QueueStep`,
`EffectStep`, `WaitStep`, `FailedStep`); `LoopOrFrame` splits the actions into
those that touch the loop and those that leave it alone.

`SettledAtCommit` and `ChargedToOwner` are proved from `AwaitedInv`, under the
premise `StartAfterResult = FALSE` without which they do not hold (see above). It
adds to `BaseInv`: all code that runs and all host calls under way are the current
cell's (`CurrentInv`), the accumulator knows them until it is drained
(`TrackedInv`), and from the flush barrier on the loop is quiet (`QuietInv`). The
last is the heart of it: a settlement that is pending keeps the waiter waiting, and
a continuation that runs is in front of the barrier.

`BranchTreeProofs` proves `TypeOK`, `TreeShape`, `CursorOnLine` and
`LinesOnlyGrow` of `BranchTree` for any cells and branches (`TreeAssumption`), with `TreeInv`,
the conjunction of the three invariants. `SharedHistory` uses it for the log.

`CellScopeProofs` proves all invariants of `CellScope`. `TypeOK`, `OneBinding` and
`BoundIsCommitted` hold for any names, any cells and any number of commits and failures, from
`ScopeAssumption` (a cell declares each name once). `OneBinding` needs the
table, and the table lags behind the scope while a cell runs. `ScopeInv` says how:

- `Unique`: a lexical name is bound by no two layers;
- `ChainKnown`: on a runtime that is not dirty the table knows every layer, except
  the newest one if the running cell may have promoted it, whose kinds are then
  that cell's;
- `Validated`: the running cell has been checked against the table as it is now;
- `Control`: which positions of goroutine and loop go together, in particular
  that code of a cell that was given up only runs on a dirty runtime.

The hook is the step that matters (`PromoteKeepsUnique`): all layers are known then
and the cell is validated, so a lexical name on one side is unbound on the other.
`Succeed` closes the gap (`CommitKnows`), and all other writes change values and no
binding (`WriteSlot`, `GlobalSetKeeps`, `AssignKeeps`). `LookupType` shows that the
search along the layers ends at the newest layer that binds the name.

The second half of the module proves `ScopeIsReplayed` and `ValuesKept`. What running a cell
does to a scope is written as a function of the scope (`Body`, `Promote`, `Bridge`,
together `After`). The values it gives are well determined only as long as no
setter writes the slot of another name, since the order in which a cell's names are
bridged shows there; a scope after such a write, or after a write to the global object
that went past a binding, is marked `lost`, and the runtime then has `misdirected`. What a
scope binds is always determined: `binds` and `props` are a copy of the layers and of the
properties whose values do not count (`Alike`). The committed cells
lead a new runtime along a sequence of scopes (`Trail`). `ReplayInv` says that

- the cells still to be replayed are the last ones of the history, and the running cell is
  the first of them (`PlaceInv`);
- a runtime that is not dirty has the scope its place on the trail and the progress of
  its job call for, step by step up to the last bridged name (`StageInv`): always the
  bindings, and the values unless the scope is lost;
- the end of the trail has the bindings of `saved`, which are exactly the names of committed cells
  (`Bound`), and unless it is lost it is `saved`, and is good (`SavedInv`): every name is
  bound to its wanted value or unbound, slots of a layer are told apart, and an
  accessor belongs to a name that is bound, in the table, and lexical nowhere (`Good`).

Replay is then no argument about whole replays: each step of the loop takes `StageInv` to the next
stage, whether the cell is new or replayed (`RunBodyReplays`, `CommitHookReplays`,
`BridgeNameReplays`, `HookReturnsReplays`), and `Succeed` either moves along the trail or makes
it longer by `After`. `BoundStep` says that `After` keeps a scope bound to the right names,
`BridgeAlike` that the order of bridging does not show in the bindings, and `GoodStep`
that `After` keeps a scope good. The hard cases in it are
a write through an accessor, which hits the name only if the name's newest layer is the last
(`BodyGood`), and a promotion in front of existing accessors and data properties (`PromoteGood`).
That slots are told apart rests on counting the declarations of each sort up to a position
(`SlotsOrdered`).

`SqliteStoreProofs` proves `TypeOK` and `ConfigsAreThere` for any readers, cells,
branches and configurations. `StoreInv` says of the log that what a fact refers to
is stored (`LogInv`), of the facts an operation has still to write that each is
preceded by what it refers to (`TodoInv`), and of a load between two queries that
what it has read is still there (`LoadOK`): nothing is ever removed from the two
tables. `RuntimeConfigRow` is the query that would fail.

`EffectReplayProofs` proves `OwnCell`, for `Prompt` programs. Replay does not look at
programs, it counts; so `ReplayInv` has to show that a cell, when it is drained, has made
and linked every call of its program once (`LiveInv`), that replay makes each at most once and has
handed out as many records as it has made calls (`HandedInv`), that cells are
replayed one after the other (`StageInv`) and that a call to be settled is in one
place (`OwedInv`). A call that is still to be made then finds a record of its own
cell that has not been handed out. The first of these is where the live waits matter: `PhaseInv`
says what SubmitCell knows in each phase. When the value is known and nothing is
pending, every call has been made or is about to be made by the job that runs, because the
program is prompt (`NothingPending`); the barrier runs after that job (`FlushLoopStep`), and when
the second look finds nothing pending no call is left (`RecheckStep`, `NoLateCall`).

For programs that work in stages, which are prompt (`StagedIsPrompt`), it proves `StagedReplay` and `EffectsConsumed`, from
`StagedInv`. A stage begins as a whole, and only when everything before it has settled
(`StagesInv`, `NextStage`). So the live run links effects stage by stage in program order
(`LinkedInOrder`), and records results cell by cell and stage by stage, those of
synchronous calls first within a stage (`JournalInOrder`). `OwnEffect` follows: the next
effect is that of the call being made. What the replay has made and not settled waits
in its cell's flush or is being settled by one (`WaitingInv`). That flush was queued before
the next cell's program, so earlier cells have settled when the program runs
(`EarlierSettled`). A flush holds a whole stage (`FlushInv`), so that its sort by
completion order decides between all results that are still to be delivered
(`CallDelivery`, `SettleDelivery`). And when a value is known, a call that nobody awaited
has been made by the program itself (`RootsInv`, `CellIsMade`), so that none is left for a
record to wait for. `Staged` is needed for all of this (`effect_replay_chains`).

`SessionProofs` proves three properties of `Session` for any number of handles,
cells, branches and transitions:

- `LinearHistory`, with `SessionInv`. `ensureBranchHeadWritable` compares the
  handle's head with the durable one once, three appends before the head is moved.
  `HandleInv` carries the comparison along (the branch of a submit has no other head
  than the handle's) and knows where a handle is on a branch without heads
  (`AtHead`); `LogInv` says which branches and cells a log speaks of.
- `FailedCellsAreNoHeads`, from `VerdictInv`, whichever appends fail, that of `HeadMoved`
  included: a cell whose submit failed is never a head, so that no handle restores to it or
  forks from it, and since the steps of a plan are committed cells
  (`StepsAreCommitted`) the only way it enters one is the `CellCommitted` that its
  submit could not follow by `HeadMoved`. The stronger `FailedCellsInvisible` is violated in
  this case (`session_head_moved`).
- `PlanStable`, whatever the faults. `CellOrderInv` says that
  cells are committed, and become heads, in the order of their numbers. A plan is
  built from the path of forks above its branch (`Above`). The path exists because a
  branch is forked from one with a smaller number (`AboveUnfold`); one more fact
  leaves it (`AboveStays`), its cutoffs (`SegmentsStay`), the cells up to its stops
  (`CommitsUpToStay`, `ChainStays`) and the transitions it sees (`VisibleStays`) as they
  are; and the transition that is an exception comes from a handle at the head
  of its branch, so no other cell sees it (`OwnCells`, `PlanStep`).

The theorems about induction in the library cannot be used, so recursive functions
and paths are handled by least counterexamples: the smallest number at which a
claim fails exists (`MinProperties` of `OrderedProofs`) and leads to a
contradiction. `FlattenExists`, `PathExists` and `AboveExists` show in this way that
the recursive functions are defined at all.

`SessionTreeProofs` continues with the refinement and with what the runtimes have run.
The theorems of its first two parts assume that `HeadMoved` is not among `AppendFaults`: a
submit that stops between `CellCommitted` and `HeadMoved` leaves a committed cell that is no
head, and every statement there about lineages is false from then on. The third part needs no
such assumption.

The first part proves that `SessionTree` implements `BranchTree` (`SessionRefinesTree`).
A line has two parts: what a branch inherits (`Inherited`, the lineage of the cell it was
forked at, which no later fact changes) and what was committed on it (`Own`).
`TreeInv` says that what is committed on a branch is what its head has passed, except
for the cell of a submit about to append `HeadMoved`, and that the cells of every line
have been heads. A step of the log is then one of four steps of the tree (`TreeStep`: commit,
cell at the head, restore, fork), or `Quiet`.

The second part proves `IndexIsLineage`, `LiveIsReplay`, `ReplayReproduces` and
`CursorIsDurable`. The argument has four stages.

- Replay is unfolded (`ReplayPath`, `ApplyPath`): a plan with one more cell, or one more
  transition after its last cell, is replayed to what the shorter plan gives, followed by
  that cell or that transition (`Grown` names the facts a step may append).
- The plan of a head is put together from its lineage and the transitions in force there
  (`PlanShape`). A fact changes what replay to a known head builds (`Base`) only if it is a transition
  made there (`BaseStays`), and then only by applying it at the end (`TransitBase`). When a
  head moves, the new base is the old one and the cell (`MoveBase`).
- `HandleNext` describes each action by what it does to one handle: what it runs,
  what it appends, whether it leaves the runtime dirty.
- `HandleRuns` says what a handle knows in each position of a submit, including that an
  index which is behind belongs to a head that cannot be replayed (the submit that sealed
  `$last`, `SealedFails`), and `Place` where the durable cursor can be: at the root, at a cell of its
  branch, or at the fork point of a branch without cells of its own.

`IndexInvariant` and `LineageInvariant` (a clean runtime has run the cells of its head's lineage, once and
in order) hold for any number of handles. The other three properties are proved
under `Single`: at most one handle, which makes no transitions on a fresh fork. Both
parts are needed. A second handle at the same head may make a transition that
the first one's runtime has not seen, and a transition right after a fork is one that replay does
not find (`session_fork_transition`). These are the conditions of the two
passing runs as well, since they use one handle and leave `TransitionOnFork` out.

The third part proves `TypeOK` (`SessionType`), with any append failing. It is more than types:
it says that no counter runs away. The hard one is the index. After a failed
`HeadMoved`, or when `$last` could not be set, it is no longer the
length of the lineage, so `IndexIsLineage` cannot bound it. `TypeInv` says instead that the
index is at most the number of the handle's head. Moving the head keeps this, because the
submit's cell is younger than the head and the index grows by one. Restoring, forking and opening
establish it, because a lineage has at most as many cells as the number of its last
(`LineageRises`): numbers rise along the commits of a branch (`CommitsRise`), and from
a fork to the cells of its branch (`StartsFirst`, `ChainRises`).

Only model-checked:

- the liveness properties `CellIsDecided`, `SubmitReturns`, `OthersReturn` and `ReplayEnds`: liveness
  under fairness is out of the prover's reach;
- `LoadsAreSnapshots` of `SqliteStore`: the argument is about several queries at
  once and is planned;
- everything about `WireGraph`.

## Not modelled

- Console logs, previews and inspection: text only.
- The command line and the sample server: input and output around one session.
- The rewriting of a cell's syntax tree and of its completion value
  (`top_level_await.go`, `rewriteTailStatementForCompletion` and its helpers): a source
  transformation, of which the model has the result. The functions that search a tree for await,
  return and the like are not called by anything.
- jswire's bytes, numbers and texts, and that a failing operation of a patch drops
  the earlier ones of the same patch.
- TypeScript environments and epochs, and the fixed point of
  `resolveRuntimeDescriptor`.
- Data races are not an issue in the modelled code: accumulator, router, session
  state and the table of declarations are under mutexes, scopes are only touched
  on their runtime's loop; the actions are the critical sections.

## Plan

1. Proofs: `LoadsAreSnapshots` of `SqliteStore`; `TypedIffTree` and `GraphIsImage` of
   `WireGraph`.
2. The rest of the stores: `LoadStaticEnv`, `LoadCellEffects` and the effects of
   a plan in SQLite.
3. Overlapping operations of two handles.
4. The fixed point of `resolveRuntimeDescriptor`; TypeScript environments and
   epochs.
