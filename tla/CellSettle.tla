------------------------------ MODULE CellSettle ------------------------------
(***************************************************************************)
(* How Submit evaluates cells on the persistent runtime and decides that a *)
(* cell has settled (session/session.go SubmitCell, session/runtime.go).   *)
(*                                                                         *)
(* Four kinds of actors run concurrently:                                  *)
(*   - the goroutine inside SubmitCell (pc), holding the session mutex;    *)
(*   - the goja event loop: a FIFO of jobs run one at a time (queue, job); *)
(*   - one goroutine per asynchronous host call (hostState);               *)
(*   - the deadline of the evaluation context (expired).                   *)
(* They share the effectAccumulator of the cell (effects, asyncEffects,    *)
(* asyncSettled, unhandled) and the router's current cell (live).          *)
(*                                                                         *)
(* A JavaScript turn is abstracted to what it does to that state: it may   *)
(* start host calls, deliver the cell's outcome and leave promises         *)
(* rejected; promise continuations run inside the job that settles the     *)
(* promise, because goja drains its job queue before the call returns.     *)
(***************************************************************************)
EXTENDS Naturals, Sequences, FiniteSets

CONSTANTS
    Effects,          \* identifiers of host calls
    NumCells,         \* how many cells are submitted, one after the other
    StartAfterResult  \* do cells start host calls after their own outcome is
                      \* known (unawaited promise chains)?

ASSUME SettleAssumption ==
    /\ NumCells \in Nat
    /\ StartAfterResult \in BOOLEAN

Cells == 1..NumCells

VARIABLES
    pc,            \* where the SubmitCell goroutine is
    cell,          \* the cell being submitted (the last one when idle)
    expired,       \* evalCtx is done
    evalErr,       \* runContext returned an error
    settleErr,     \* awaitCellSettled returned an error
    flushed,       \* the loop has run the job this goroutine waits for
    dirty,         \* s.runtimeDirty
    live,          \* router.live: the cell host calls are charged to, 0 for nil
    queue,         \* jobs posted to the event loop
    job,           \* the job the loop is running
    result,        \* per cell: what its resultCh carries
    effects,       \* per cell: keys of acc.effects
    asyncEffects,  \* per cell: acc.asyncEffects (pendingAsync is its size)
    asyncSettled,  \* acc.asyncSettled of the current cell
    unhandled,     \* per cell: acc.unhandledRejection is not empty
    hostState,     \* per effect: where the host call is
    owner,         \* per effect: the cell whose code made the call
    charged,       \* per effect: the cell in its EffectStarted fact
    status,        \* per effect: the status in its EffectSummary
    fact,          \* per effect: its terminal fact in the store
    outcome,       \* per cell: how its submit ended
    linked         \* per cell: LinkedEffects in CellEvaluated or CellFailed

submitVars == <<pc, cell, expired, evalErr, settleErr, flushed, dirty>>
accVars == <<effects, asyncEffects, asyncSettled, unhandled>>
effectVars == <<hostState, owner, charged, status, fact>>
vars == <<submitVars, live, queue, job, result, accVars, effectVars,
          outcome, linked>>

SubmitPC == {"idle", "prepare", "eval", "wait", "blocked", "post", "flush",
             "recheck", "unhandled", "drain", "append", "failing", "index",
             "indexing", "end"}

Job == [kind : {"none", "run", "settle", "barrier"},
        owner : 0..NumCells,                      \* whose code it runs
        at : {"js", "begin", "journaled", "failed"},
        eff : SUBSET Effects,                     \* the effect it settles
        ok : BOOLEAN]                             \* did the host call succeed

NoJob == [kind |-> "none", owner |-> 0, at |-> "js", eff |-> {}, ok |-> TRUE]
RunJob(c) == [NoJob EXCEPT !.kind = "run", !.owner = c]
\* A job its poster waits for: flushLoop's barrier, or setIndexedResult's.
BarrierJob(c) == [NoJob EXCEPT !.kind = "barrier", !.owner = c]
SettleJob(e, ok) == [kind |-> "settle", owner |-> owner[e], at |-> "begin",
                     eff |-> {e}, ok |-> ok]

Init ==
    /\ pc = "idle" /\ cell = 0
    /\ expired = FALSE /\ evalErr = FALSE /\ settleErr = FALSE
    /\ flushed = FALSE /\ dirty = FALSE
    /\ live = 0 /\ queue = <<>> /\ job = NoJob
    /\ result = [c \in Cells |-> "none"]
    /\ effects = [c \in Cells |-> {}]
    /\ asyncEffects = [c \in Cells |-> {}]
    /\ asyncSettled = "nil"
    /\ unhandled = [c \in Cells |-> FALSE]
    /\ hostState = [e \in Effects |-> "unused"]
    /\ owner = [e \in Effects |-> 0]
    /\ charged = [e \in Effects |-> 0]
    /\ status = [e \in Effects |-> "pending"]
    /\ fact = [e \in Effects |-> "none"]
    /\ outcome = [c \in Cells |-> "none"]
    /\ linked = [c \in Cells |-> {}]

-----------------------------------------------------------------------------
(* The goroutine inside SubmitCell. *)

\* SubmitCell takes the session mutex.
Submit ==
    /\ pc = "idle" /\ cell < NumCells
    /\ pc' = "prepare"
    /\ UNCHANGED <<cell, expired, evalErr, settleErr, flushed, dirty, live,
                   queue, job, result, accVars, effectVars, outcome, linked>>

\* Every return before beginCell: the branch has moved on, the cell does not
\* check, CellChecked cannot be appended, or no runtime can be prepared.
Refuse ==
    /\ pc = "prepare"
    /\ pc' = "idle"
    /\ UNCHANGED <<cell, expired, evalErr, settleErr, flushed, dirty, live,
                   queue, job, result, accVars, effectVars, outcome, linked>>

InFlight == {"invoking", "posted"}

\* ensureCleanRuntime on a dirty runtime: committed history is replayed into a
\* new runtime and the old one is closed. loop.Stop waits for the running job;
\* jobs still queued, and host calls that return later, find no loop.
Rebuild ==
    /\ pc = "prepare" /\ dirty
    /\ job.kind = "none"
    /\ queue' = <<>>
    /\ hostState' = [e \in Effects |->
                        IF hostState[e] \in InFlight THEN "lost"
                        ELSE hostState[e]]
    /\ dirty' = FALSE
    /\ UNCHANGED <<pc, cell, expired, evalErr, settleErr, flushed, live, job,
                   result, accVars, owner, charged, status, fact, outcome,
                   linked>>

\* A fresh accumulator and context; the program is posted to the loop.
BeginCell ==
    /\ pc = "prepare" /\ ~dirty
    /\ pc' = "eval"
    /\ cell' = cell + 1
    /\ live' = cell + 1
    /\ queue' = Append(queue, RunJob(cell + 1))
    /\ expired' = FALSE /\ evalErr' = FALSE /\ settleErr' = FALSE
    /\ flushed' = FALSE
    /\ asyncSettled' = "nil"
    /\ UNCHANGED <<dirty, job, result, effects, asyncEffects, unhandled,
                   effectVars, outcome, linked>>

\* runContext: the outcome arrives, or the context ends first.
EvalReturns ==
    /\ pc = "eval"
    /\ \/ result[cell] # "none" /\ evalErr' = (result[cell] = "error")
       \/ expired /\ evalErr' = TRUE
    /\ pc' = "wait"
    /\ UNCHANGED <<cell, expired, settleErr, flushed, dirty, live, queue, job,
                   result, accVars, effectVars, outcome, linked>>

\* waitPendingAsync, under the accumulator's lock: return, or take the channel.
WaitPending ==
    /\ pc = "wait"
    /\ IF asyncEffects[cell] = {}
       THEN pc' = "post" /\ UNCHANGED asyncSettled
       ELSE /\ pc' = "blocked"
            /\ asyncSettled' = IF asyncSettled = "nil" THEN "open"
                               ELSE asyncSettled
    /\ UNCHANGED <<cell, expired, evalErr, settleErr, flushed, dirty, live,
                   queue, job, result, effects, asyncEffects, unhandled,
                   effectVars, outcome, linked>>

\* The select in waitPendingAsync: woken, it looks again; on ctx.Done it gives
\* up (flushLoopBestEffort then only waits, at most directRunTimeout).
Woken ==
    /\ pc = "blocked"
    /\ \/ /\ asyncSettled = "closed"
          /\ asyncSettled' = "nil"
          /\ pc' = "wait" /\ UNCHANGED settleErr
       \/ /\ expired
          /\ settleErr' = TRUE /\ pc' = "drain" /\ UNCHANGED asyncSettled
    /\ UNCHANGED <<cell, expired, evalErr, flushed, dirty, live, queue, job,
                   result, effects, asyncEffects, unhandled, effectVars,
                   outcome, linked>>

\* Mutant of PostBarrier: settlement is decided without flushing the loop.
PostBarrierSkipped ==
    /\ pc = "post"
    /\ pc' = "recheck"
    /\ UNCHANGED <<cell, expired, evalErr, settleErr, flushed, dirty, live,
                   queue, job, result, accVars, effectVars, outcome, linked>>

\* flushLoop posts a barrier job ...
PostBarrier ==
    /\ pc = "post"
    /\ pc' = "flush"
    /\ queue' = Append(queue, BarrierJob(cell))
    /\ flushed' = FALSE
    /\ UNCHANGED <<cell, expired, evalErr, settleErr, dirty, live, job, result,
                   accVars, effectVars, outcome, linked>>

\* Mutant of FlushReturns: the barrier is awaited without the cell's context.
FlushReturnsNoDeadline ==
    /\ pc = "flush" /\ flushed
    /\ pc' = "recheck"
    /\ UNCHANGED <<cell, expired, evalErr, settleErr, flushed, dirty, live, queue,
                   job, result, accVars, effectVars, outcome, linked>>

\* ... and waits until the loop has run it, or the context ends.
FlushReturns ==
    /\ pc = "flush"
    /\ \/ flushed /\ pc' = "recheck" /\ UNCHANGED settleErr
       \/ expired /\ pc' = "drain" /\ settleErr' = TRUE
    /\ UNCHANGED <<cell, expired, evalErr, flushed, dirty, live, queue, job,
                   result, accVars, effectVars, outcome, linked>>

\* awaitCellSettled looks at pendingAsync once more: round again, or done ...
Recheck ==
    /\ pc = "recheck"
    /\ pc' = IF asyncEffects[cell] = {} THEN "unhandled" ELSE "wait"
    /\ UNCHANGED <<cell, expired, evalErr, settleErr, flushed, dirty, live,
                   queue, job, result, accVars, effectVars, outcome, linked>>

\* ... and then, in a critical section of its own, asks for promises that were
\* rejected with no handler.
ReadUnhandled ==
    /\ pc = "unhandled"
    /\ settleErr' = unhandled[cell]
    /\ pc' = "drain"
    /\ UNCHANGED <<cell, expired, evalErr, flushed, dirty, live, queue, job,
                   result, accVars, effectVars, outcome, linked>>

\* Mutant of Drain: a failed evaluation leaves the runtime in use.
DrainKeepsRuntime ==
    /\ pc = "drain"
    /\ linked' = [linked EXCEPT ![cell] = effects[cell]]
    /\ effects' = [effects EXCEPT ![cell] = {}]
    /\ asyncEffects' = [asyncEffects EXCEPT ![cell] = {}]
    /\ unhandled' = [unhandled EXCEPT ![cell] = FALSE]
    /\ asyncSettled' = "nil"
    /\ pc' = IF evalErr \/ settleErr THEN "failing" ELSE "append"
    /\ UNCHANGED <<cell, expired, evalErr, settleErr, flushed, dirty, live,
                   queue, job, result, effectVars, outcome>>

\* acc.drain: the linked effects are read and the accumulator is emptied.
Drain ==
    /\ pc = "drain"
    /\ linked' = [linked EXCEPT ![cell] = effects[cell]]
    /\ effects' = [effects EXCEPT ![cell] = {}]
    /\ asyncEffects' = [asyncEffects EXCEPT ![cell] = {}]
    /\ unhandled' = [unhandled EXCEPT ![cell] = FALSE]
    /\ asyncSettled' = "nil"
    /\ IF evalErr \/ settleErr
       THEN pc' = "failing" /\ dirty' = TRUE
       ELSE pc' = "append" /\ UNCHANGED dirty
    /\ UNCHANGED <<cell, expired, evalErr, settleErr, flushed, live, queue,
                   job, result, effectVars, outcome>>

\* CellEvaluated, CellCommitted and HeadMoved are appended (Session.tla splits
\* them), or one append fails and the runtime is abandoned.
AppendCommit ==
    /\ pc = "append"
    /\ \/ /\ outcome' = [outcome EXCEPT ![cell] = "committed"]
          /\ pc' = "index" /\ UNCHANGED dirty
       \/ /\ pc' = "failing" /\ dirty' = TRUE /\ UNCHANGED outcome
    /\ UNCHANGED <<cell, expired, evalErr, settleErr, flushed, live, queue,
                   job, result, accVars, effectVars, linked>>

\* setIndexedResult: $last is assigned by a job on the loop ...
PostIndex ==
    /\ pc = "index"
    /\ pc' = "indexing"
    /\ queue' = Append(queue, BarrierJob(cell))
    /\ flushed' = FALSE
    /\ UNCHANGED <<cell, expired, evalErr, settleErr, dirty, live, job, result,
                   accVars, effectVars, outcome, linked>>

\* ... awaited without a context: no deadline ends this wait. If $last cannot be
\* assigned the runtime is abandoned; the cell stays committed.
IndexReturns ==
    /\ pc = "indexing" /\ flushed
    /\ pc' = "end"
    /\ dirty' \in {dirty, TRUE}
    /\ UNCHANGED <<cell, expired, evalErr, settleErr, flushed, live, queue, job,
                   result, accVars, effectVars, outcome, linked>>

\* submitFailureResult: CellFailed carries the drained effects.
RecordFailure ==
    /\ pc = "failing"
    /\ outcome' = [outcome EXCEPT ![cell] = "failed"]
    /\ pc' = "end"
    /\ UNCHANGED <<cell, expired, evalErr, settleErr, flushed, dirty, live,
                   queue, job, result, accVars, effectVars, linked>>

\* The deferred endCell and cancel; the mutex is released and SubmitCell returns.
EndCell ==
    /\ pc = "end"
    /\ live' = 0
    /\ pc' = "idle"
    /\ UNCHANGED <<cell, expired, evalErr, settleErr, flushed, dirty, queue,
                   job, result, accVars, effectVars, outcome, linked>>

\* Mutant of Timeout: the deadline only guards the evaluation, not the wait for
\* asynchronous work.
TimeoutEvalOnly ==
    /\ pc = "eval" /\ ~expired
    /\ expired' = TRUE
    /\ UNCHANGED <<pc, cell, evalErr, settleErr, flushed, dirty, live, queue,
                   job, result, accVars, effectVars, outcome, linked>>

\* withCellSettleTimeout: every evaluation context has a deadline.
Timeout ==
    /\ pc \notin {"idle", "prepare"} /\ ~expired
    /\ expired' = TRUE
    /\ UNCHANGED <<pc, cell, evalErr, settleErr, flushed, dirty, live, queue,
                   job, result, accVars, effectVars, outcome, linked>>

-----------------------------------------------------------------------------
(* The event loop and the code it runs. *)

\* The loop takes the oldest job. A barrier only closes the channel of
\* the goroutine that posted it, if that still waits.
TakeJob ==
    /\ job.kind = "none" /\ queue # <<>>
    /\ queue' = Tail(queue)
    /\ IF Head(queue).kind = "barrier"
       THEN /\ flushed' = (flushed \/ Head(queue).owner = cell)
            /\ UNCHANGED job
       ELSE job' = Head(queue) /\ UNCHANGED flushed
    /\ UNCHANGED <<pc, cell, expired, evalErr, settleErr, dirty, live, result,
                   accVars, effectVars, outcome, linked>>

RunningJS == job.kind \in {"run", "settle"} /\ job.at = "js"

MayStart == StartAfterResult \/ result[job.owner] = "none"

\* Mutant of StartAsync: the cell is named by its index among committed cells.
StartAsyncByIndex(e) ==
    LET index == Cardinality({c \in Cells : outcome[c] = "committed"}) + 1 IN
    /\ RunningJS /\ live # 0 /\ MayStart
    /\ hostState[e] = "unused"
    /\ hostState' = [hostState EXCEPT ![e] = "invoking"]
    /\ owner' = [owner EXCEPT ![e] = job.owner]
    /\ charged' = [charged EXCEPT ![e] = index]
    /\ effects' = [effects EXCEPT ![live] = @ \cup {e}]
    /\ asyncEffects' = [asyncEffects EXCEPT ![live] = @ \cup {e}]
    /\ UNCHANGED <<submitVars, live, queue, job, result, asyncSettled,
                   unhandled, status, fact, outcome, linked>>

\* An asynchronous host call: EffectStarted is journaled, addAsync counts it,
\* and a goroutine is started. With no active cell the call only rejects.
StartAsync(e) ==
    /\ RunningJS /\ live # 0 /\ MayStart
    /\ hostState[e] = "unused"
    /\ hostState' = [hostState EXCEPT ![e] = "invoking"]
    /\ owner' = [owner EXCEPT ![e] = job.owner]
    /\ charged' = [charged EXCEPT ![e] = live]
    /\ effects' = [effects EXCEPT ![live] = @ \cup {e}]
    /\ asyncEffects' = [asyncEffects EXCEPT ![live] = @ \cup {e}]
    /\ UNCHANGED <<submitVars, live, queue, job, result, asyncSettled,
                   unhandled, status, fact, outcome, linked>>

\* A synchronous host call blocks the loop until the host returns, then takes
\* the steps of a settlement inside the same turn.
CallSync(e) ==
    /\ RunningJS /\ live # 0 /\ MayStart
    /\ hostState[e] = "unused"
    /\ hostState' = [hostState EXCEPT ![e] = "sync"]
    /\ owner' = [owner EXCEPT ![e] = job.owner]
    /\ charged' = [charged EXCEPT ![e] = live]
    /\ effects' = [effects EXCEPT ![live] = @ \cup {e}]
    /\ \E ok \in BOOLEAN :
          job' = [job EXCEPT !.at = "begin", !.eff = {e}, !.ok = ok]
    /\ UNCHANGED <<submitVars, live, queue, result, asyncEffects,
                   asyncSettled, unhandled, status, fact, outcome, linked>>

\* The host goroutine hands its answer to the loop.
HostReturns(e, ok) ==
    /\ hostState[e] = "invoking"
    /\ hostState' = [hostState EXCEPT ![e] = "posted"]
    /\ queue' = Append(queue, SettleJob(e, ok))
    /\ UNCHANGED <<submitVars, live, job, result, accVars, owner, charged,
                   status, fact, outcome, linked>>

\* Mutant of JournalCompleted: an append that failed is ignored.
JournalCompletedIgnored ==
    /\ job.at = "begin" /\ job.ok
    /\ job' = [job EXCEPT !.at = "journaled"]
    /\ UNCHANGED <<submitVars, live, queue, result, accVars, effectVars,
                   outcome, linked>>

\* The host call succeeded: EffectCompleted is journaled before anything else.
JournalCompleted ==
    /\ job.at = "begin" /\ job.ok
    /\ fact' = [e \in Effects |-> IF e \in job.eff THEN "completed" ELSE fact[e]]
    /\ job' = [job EXCEPT !.at = "journaled"]
    /\ UNCHANGED <<submitVars, live, queue, result, accVars, hostState, owner,
                   charged, status, outcome, linked>>

\* Mutant of Record: the last effect does not close the waiter's channel.
RecordSilently(e, s) ==
    LET c == charged[e] IN
    /\ hostState' = [hostState EXCEPT ![e] = "settled"]
    /\ IF e \in effects[c]
       THEN /\ status' = [status EXCEPT ![e] = s]
            /\ asyncEffects' = [asyncEffects EXCEPT ![c] = @ \ {e}]
       ELSE UNCHANGED <<status, asyncEffects>>
    /\ UNCHANGED asyncSettled

\* recordCompleted and recordFailed: the summary changes if drain has not
\* forgotten the effect; the last pending effect closes the waiter's channel.
Record(e, s) ==
    LET c == charged[e] IN
    /\ hostState' = [hostState EXCEPT ![e] = "settled"]
    /\ IF e \in effects[c]
       THEN /\ status' = [status EXCEPT ![e] = s]
            /\ asyncEffects' = [asyncEffects EXCEPT ![c] = @ \ {e}]
            /\ asyncSettled' =
                  IF /\ e \in asyncEffects[c] /\ asyncEffects[c] = {e}
                     /\ c = cell /\ asyncSettled = "open"
                  THEN "closed" ELSE asyncSettled
       ELSE UNCHANGED <<status, asyncEffects, asyncSettled>>

\* recordCompleted, then resolve: the continuations run in this job.
SettleCompleted(e) ==
    /\ job.at = "journaled" /\ e \in job.eff
    /\ Record(e, "completed")
    /\ job' = [job EXCEPT !.at = "js", !.eff = {}]
    /\ UNCHANGED <<submitVars, live, queue, result, effects, unhandled, owner,
                   charged, fact, outcome, linked>>

\* The host call failed, or EffectCompleted could not be journaled: recordFailed
\* comes first, the EffectFailed fact after it.
SettleFailed(e) ==
    /\ job.at = "begin" /\ e \in job.eff
    /\ Record(e, "failed")
    /\ job' = [job EXCEPT !.at = "failed"]
    /\ UNCHANGED <<submitVars, live, queue, result, effects, unhandled, owner,
                   charged, fact, outcome, linked>>

\* EffectFailed is appended, its error ignored; then reject.
JournalFailed ==
    /\ job.at = "failed"
    /\ \/ fact' = [e \in Effects |-> IF e \in job.eff THEN "failed" ELSE fact[e]]
       \/ UNCHANGED fact
    /\ job' = [job EXCEPT !.at = "js", !.eff = {}]
    /\ UNCHANGED <<submitVars, live, queue, result, accVars, hostState, owner,
                   charged, status, outcome, linked>>

\* Mutant of Deliver: a promise that is still pending is delivered.
DeliverPending(v) ==
    /\ RunningJS /\ result[job.owner] = "none"
    /\ result' = [result EXCEPT ![job.owner] = "pending"]
    /\ UNCHANGED <<submitVars, live, queue, job, accVars, effectVars, outcome,
                   linked>>

\* settleValueAsync: the cell's completion value or error is delivered once.
Deliver(v) ==
    /\ RunningJS /\ result[job.owner] = "none"
    /\ result' = [result EXCEPT ![job.owner] = v]
    /\ UNCHANGED <<submitVars, live, queue, job, accVars, effectVars, outcome,
                   linked>>

\* The promise rejection tracker: a promise is rejected with no handler, or
\* the last such promise gets one. The accumulator of the active cell is told.
TrackRejection(unhandledNow) ==
    /\ RunningJS /\ live # 0
    /\ unhandled[live] # unhandledNow
    /\ unhandled' = [unhandled EXCEPT ![live] = unhandledNow]
    /\ UNCHANGED <<submitVars, live, queue, job, result, effects,
                   asyncEffects, asyncSettled, effectVars, outcome, linked>>

\* The turn is over.
EndJob ==
    /\ RunningJS
    /\ job' = NoJob
    /\ UNCHANGED <<submitVars, live, queue, result, accVars, effectVars,
                   outcome, linked>>

-----------------------------------------------------------------------------
SubmitStep ==
    \/ Submit \/ Refuse \/ Rebuild \/ BeginCell \/ EvalReturns \/ WaitPending
    \/ Woken \/ PostBarrier \/ FlushReturns \/ Recheck \/ ReadUnhandled
    \/ Drain \/ AppendCommit \/ PostIndex \/ IndexReturns \/ RecordFailure \/ EndCell

Settling ==
    \/ JournalCompleted \/ JournalFailed
    \/ \E e \in Effects : SettleCompleted(e) \/ SettleFailed(e)

JSStep ==
    \/ \E e \in Effects : StartAsync(e) \/ CallSync(e)
    \/ \E v \in {"ok", "error"} : Deliver(v)
    \/ \E u \in BOOLEAN : TrackRejection(u)

HostStep == \E e \in Effects, ok \in BOOLEAN : HostReturns(e, ok)

\* All cells have been submitted and nothing is left to run.
Done ==
    /\ pc = "idle" /\ cell = NumCells /\ job.kind = "none" /\ queue = <<>>
    /\ \A e \in Effects : hostState[e] # "invoking"
    /\ UNCHANGED vars

Next == SubmitStep \/ Timeout \/ TakeJob \/ Settling \/ JSStep \/ EndJob
        \/ HostStep \/ Done

Spec == Init /\ [][Next]_vars

\* The Go scheduler runs the submit goroutine and an idle loop, and deadlines
\* fire. Host calls may never return, and a turn of JavaScript may never end.
Fairness == WF_vars(SubmitStep) /\ WF_vars(Timeout) /\ WF_vars(TakeJob)

FairSpec == Spec /\ Fairness

-----------------------------------------------------------------------------
(* Properties. *)

\* Every variable of the submit goroutine, the loop, the accumulators and the
\* journal stays in its type.
TypeOK ==
    /\ pc \in SubmitPC /\ cell \in 0..NumCells /\ live \in 0..NumCells
    /\ expired \in BOOLEAN /\ evalErr \in BOOLEAN /\ settleErr \in BOOLEAN
    /\ flushed \in BOOLEAN /\ dirty \in BOOLEAN
    /\ queue \in Seq(Job) /\ job \in Job
    /\ result \in [Cells -> {"none", "ok", "error"}]
    /\ effects \in [Cells -> SUBSET Effects]
    /\ asyncEffects \in [Cells -> SUBSET Effects]
    /\ asyncSettled \in {"nil", "open", "closed"}
    /\ unhandled \in [Cells -> BOOLEAN]
    /\ hostState \in [Effects -> {"unused", "invoking", "posted", "sync",
                                  "settled", "lost"}]
    /\ owner \in [Effects -> 0..NumCells]
    /\ charged \in [Effects -> 0..NumCells]
    /\ status \in [Effects -> {"pending", "completed", "failed"}]
    /\ fact \in [Effects -> {"none", "completed", "failed"}]
    /\ outcome \in [Cells -> {"none", "committed", "failed"}]
    /\ linked \in [Cells -> SUBSET Effects]

\* waitPendingAsync never sleeps on a channel nobody will close: when nothing
\* is pending any more, the channel it took has been closed.
NoLostWakeup ==
    pc = "blocked" /\ asyncEffects[cell] = {} => asyncSettled = "closed"

\* An effect is summarised as completed only when its EffectCompleted fact, the
\* one replay will read, is already in the store.
CompletedIsDurable ==
    \A e \in Effects : status[e] = "completed" => fact[e] = "completed"

\* No code of a failed cell runs while a later cell is active: the runtime it
\* ran on was replaced before that cell began.
FailedCodeIsGone ==
    \A c \in Cells :
       outcome[c] = "failed" /\ live > c =>
          /\ job.owner # c
          /\ \A e \in Effects : owner[e] = c => hostState[e] \notin InFlight

\* Submit blocks until the tracked asynchronous work of the cell has settled:
\* when the cell is committed, every host call its code made has settled, is
\* linked to it, and none of its code is left to run.
SettledAtCommit ==
    \A c \in Cells : outcome[c] = "committed" =>
       /\ \A e \in Effects : owner[e] = c =>
             hostState[e] = "settled" /\ e \in linked[c]
       /\ job.kind # "none" => job.owner # c

\* A host call is journaled under the cell whose code made it.
ChargedToOwner ==
    \A e \in Effects : charged[e] = owner[e]

\* A cell that was begun is decided: whatever the host calls and the turns of
\* JavaScript do, a deadline ends every wait before its last fact.
CellIsDecided ==
    \A c \in Cells : (pc = "eval" /\ cell = c) ~> (outcome[c] # "none")

\* Turns of JavaScript end, and so do the synchronous host calls inside them.
TurnsEnd == []<>(job.kind = "none")

\* Every Submit returns, whatever asynchronous host calls do, if turns end: the
\* last wait, for setIndexedResult's job, has no deadline and needs the loop.
SubmitReturns == TurnsEnd => (pc # "idle" ~> pc = "idle")
===============================================================================
