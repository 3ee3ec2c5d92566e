----------------------------- MODULE EffectReplay -----------------------------
(***************************************************************************)
(* Host calls journaled by cells, and the same cells replayed from the     *)
(* journal (session/session.go: SubmitCell; session/runtime.go:            *)
(* awaitCellSettled, replayStepState, hostFunctionRouter in both modes,    *)
(* replayPlanPrefixIntoRuntime; store: buildReplayDecisions).              *)
(*                                                                         *)
(* A program is what the JavaScript of the cells determines: which calls   *)
(* there are, and after which others have settled each one is made.  The   *)
(* journal names calls, so that the effect of a call is the call itself.   *)
(* Replay hands out effects in the order they were started; settlements    *)
(* are queued on the event loop, in the order they completed.              *)
(***************************************************************************)
EXTENDS Naturals, SequencesExt, Ordered

CONSTANTS
    Calls,      \* numbers of the calls, in program order
    MaxCell,    \* cells are 1..MaxCell
    Programs    \* the programs to run

\* cell: where a call is; after: the calls that must settle first; sync: the calls
\* of synchronous functions; fails: the calls whose function returns an error,
\* which the program catches; awaited: the calls a cell's value waits for.
ProgramType ==
    [cell : [Calls -> 1..MaxCell], after : [Calls -> SUBSET Calls],
     sync : SUBSET Calls, fails : SUBSET Calls, awaited : SUBSET Calls]

ASSUME ReplayAssumption ==
    /\ Calls \subseteq Nat \ {0} /\ IsFiniteSet(Calls) /\ MaxCell \in Nat \ {0}
    /\ \A p \in Programs :
          /\ p \in ProgramType
          /\ \A c \in Calls : \A d \in p.after[c] : d < c /\ p.cell[d] = p.cell[c]

VARIABLES
    prog,      \* the program
    pc,        \* the goroutine: "live", or where it is in the replay
    cell,      \* the cell that runs, live or replayed
    ready,     \* calls the running JavaScript makes next
    open,      \* live: calls in flight
    linked,    \* per cell: effectAccumulator, then CellEvaluated.LinkedEffects
    phase,     \* live: where SubmitCell is
    journal,   \* EffectCompleted facts, in the order they were appended
    queue,     \* replay: jobs of the event loop
    running,   \* replay: the cell whose program the running job runs, or none
    settlers,  \* replay: settlements the running job has still to make
    calling,   \* replay: a call between nextReplayInvocation and queueReplayAsync
    step,      \* replay: the cell of router.replayStep, or none
    nextStart, \* per cell: effects handed out
    pending,   \* per cell: replayStepState.pendingAsync
    flush,     \* per cell: flushScheduled
    got,       \* per call: the effect whose record the replayed call was given
    settled    \* the calls that have settled in this run, in order

liveVars == <<phase, open, linked, journal>>
replayVars == <<queue, running, settlers, calling, step, nextStart, pending, flush, got>>
vars == <<prog, pc, cell, ready, liveVars, replayVars, settled>>

None == 0
Refused == Max(Calls) + 1   \* no effect was left, or no replay step was active
CellNumbers == 1..MaxCell

\* The calls a cell's program makes before anything settles.
Roots(k) == {c \in Calls : prog.cell[c] = k /\ prog.after[c] = {}}

\* The calls made once c has settled too, given what settled before it.
Continuation(c, before) ==
    InOrder({d \in Calls : c \in prog.after[d] /\ prog.after[d] \subseteq before \cup {c}})

Settles(c) == settled' = Append(settled, c)
Continues(c) == Continuation(c, Range(settled))

Phases == {"begun", "program", "pending", "barrier", "recheck", "drain", "over", "ended"}

Init ==
    /\ prog \in Programs
    /\ pc = "live" /\ cell = 1 /\ phase = "begun"
    /\ ready = <<>>
    /\ open = {} /\ linked = [k \in CellNumbers |-> <<>>] /\ journal = <<>>
    /\ queue = <<>> /\ running = None /\ settlers = <<>>
    /\ calling = None /\ step = None
    /\ nextStart = [k \in CellNumbers |-> 0]
    /\ pending = [k \in CellNumbers |-> {}]
    /\ flush = [k \in CellNumbers |-> FALSE]
    /\ got = [c \in Calls |-> None]
    /\ settled = <<>>

-----------------------------------------------------------------------------
(* The live run. *)

\* EffectCompleted is journaled; a failure has no result to record.
Journal(c) == journal' = IF c \in prog.fails THEN journal ELSE Append(journal, c)

\* SubmitCell goes on, whatever the loop does meanwhile.
Goes(from, to) ==
    /\ pc = "live" /\ phase = from /\ phase' = to
    /\ UNCHANGED <<prog, pc, cell, ready, open, linked, journal, replayVars, settled>>

\* beginCell was called; the loop takes the job that runs the program.
LiveProgram ==
    /\ pc = "live" /\ phase = "begun" /\ ready = <<>>
    /\ phase' = "program" /\ ready' = InOrder(Roots(cell))
    /\ UNCHANGED <<prog, pc, cell, open, linked, journal, replayVars, settled>>

\* The job returns, and settleValueAsync waits for the value.
LiveReturns == ready = <<>> /\ Goes("program", "pending")

\* What the accumulator of the cell counts as pending; the value of the cell.
Pending == open \cap Range(linked[cell])
ValueKnown == \A c \in prog.awaited : prog.cell[c] = cell => c \in Range(settled)

\* waitPendingAsync reads 0, possibly in the middle of a job: a completion is
\* recorded before the promise is resolved and its continuation runs.
WaitPendingAsync == ValueKnown /\ Pending = {} /\ Goes("pending", "barrier")

\* The empty job of flushLoop.
FlushLoop == ready = <<>> /\ Goes("barrier", "recheck")

\* pendingAsyncCount decides whether to wait again.
Recheck == Goes("recheck", IF Pending = {} THEN "drain" ELSE "pending")

\* acc.drain, and the facts of the committed cell.
Drain == Goes("drain", "over")

\* The job of setIndexedResult; then endCell.
SetIndexedResult == ready = <<>> /\ Goes("over", "ended")

\* A call of the cell that was begun last. EffectStarted is journaled; after the
\* drain no cell links to it. A synchronous call returns at once.
LiveCall ==
    LET c == Head(ready)
    IN  /\ pc = "live" /\ phase # "ended" /\ ready # <<>>
        /\ linked' = IF phase = "over" THEN linked
                     ELSE [linked EXCEPT ![cell] = Append(@, c)]
        /\ IF c \in prog.sync
           THEN /\ Journal(c) /\ Settles(c)
                /\ ready' = Continues(c) \o Tail(ready) /\ UNCHANGED open
           ELSE /\ open' = open \cup {c} /\ ready' = Tail(ready)
                /\ UNCHANGED <<journal, settled>>
        /\ UNCHANGED <<prog, pc, cell, phase, replayVars>>

\* A call between two cells throws, or is rejected, at once.
LateCall ==
    LET c == Head(ready)
    IN  /\ pc = "live" /\ phase = "ended" /\ ready # <<>>
        /\ Settles(c)
        /\ ready' = IF c \in prog.sync THEN Continues(c) \o Tail(ready)
                    ELSE Tail(ready) \o Continues(c)
        /\ UNCHANGED <<prog, pc, cell, liveVars, replayVars>>

\* The settlement of an asynchronous call, and the code that was waiting for it.
LiveSettle(c) ==
    /\ pc = "live" /\ ready = <<>> /\ c \in open
    /\ open' = open \ {c}
    /\ Journal(c) /\ Settles(c)
    /\ ready' = Continues(c)
    /\ UNCHANGED <<prog, pc, cell, phase, linked, replayVars>>

\* The next cell is submitted, even in the middle of a job. After the last one a
\* session is opened on the journal, and replay begins.
NextCell ==
    /\ pc = "live" /\ phase = "ended"
    /\ IF cell < MaxCell
       THEN /\ cell' = cell + 1 /\ phase' = "begun"
            /\ UNCHANGED <<pc, ready, open, settled>>
       ELSE /\ pc' = "begin" /\ cell' = 1
            /\ ready' = <<>> /\ open' = {} /\ settled' = <<>> /\ UNCHANGED phase
    /\ UNCHANGED <<prog, linked, journal, replayVars>>

-----------------------------------------------------------------------------
(* Replay: the goroutine of replayPlanPrefixIntoRuntime. *)

\* beginReplayStep, and the program of the cell is posted to the loop.
BeginReplayStep ==
    /\ pc = "begin"
    /\ step' = cell /\ pc' = "wait"
    /\ queue' = Append(queue, [kind |-> "program", cell |-> cell])
    /\ UNCHANGED <<prog, cell, ready, liveVars, running, settlers, calling, nextStart,
                   pending, flush, got, settled>>

\* Mutant of Evaluated: settlements are not waited for.
EvaluatedEarly(k) == running = None /\ \A j \in DOMAIN queue : queue[j].kind # "program"

\* The value of the cell is known: the job that runs its program has returned, and
\* what the value waits for has settled.
Evaluated(k) ==
    /\ running = None /\ \A j \in DOMAIN queue : queue[j].kind # "program"
    /\ \A c \in prog.awaited : prog.cell[c] = k => c \in Range(settled)

\* Mutant of FinishReplayStep: nobody checks that the effects were consumed.
FinishReplayStepUnchecked ==
    /\ pc = "wait" /\ Evaluated(cell)
    /\ step' = None
    /\ pc' = IF cell < MaxCell THEN "begin" ELSE "replayed"
    /\ cell' = IF pc' = "begin" THEN cell + 1 ELSE cell
    /\ UNCHANGED <<prog, ready, liveVars, queue, running, settlers, calling, nextStart,
                   pending, flush, got, settled>>

\* runContext has returned; finishReplayStep and ensureConsumed. After the last
\* step the host functions go live.
FinishReplayStep ==
    /\ pc = "wait" /\ Evaluated(cell)
    /\ step' = None
    /\ pc' = IF nextStart[cell] # Len(linked[cell]) THEN "failed"
             ELSE IF cell < MaxCell THEN "begin" ELSE "replayed"
    /\ cell' = IF pc' = "begin" THEN cell + 1 ELSE cell
    /\ UNCHANGED <<prog, ready, liveVars, queue, running, settlers, calling,
                   nextStart, pending, flush, got, settled>>

-----------------------------------------------------------------------------
(* Replay: the event loop. *)

\* The loop is between jobs; it stops when replay has failed.
LoopIdle ==
    /\ running = None /\ ready = <<>> /\ settlers = <<>> /\ calling = None
    /\ pc \notin {"live", "failed"}

\* loadReplayDecision: is there a result, and at which position is its fact?
Recorded(e) == e \in Range(journal)
CompletionOrder(e) == Min({i \in DOMAIN journal : journal[i] = e})

\* Mutant of Sorted: the calls settle in the order they were made.
SortedByCall(calls) == InOrder(calls)

\* takePendingAsync: by completion order.
Sorted(calls) ==
    SortedBy(calls, [c \in calls |-> CompletionOrder(got[c])])

RunProgram ==
    /\ LoopIdle /\ queue # <<>> /\ Head(queue).kind = "program"
    /\ ready' = InOrder(Roots(Head(queue).cell))
    /\ running' = Head(queue).cell
    /\ queue' = Tail(queue)
    /\ UNCHANGED <<prog, pc, cell, liveVars, settlers, calling, step, nextStart,
                   pending, flush, got, settled>>

\* RunProgram and its microtasks have returned; settleValueAsync takes over.
ProgramReturns ==
    /\ running # None /\ ready = <<>> /\ calling = None
    /\ running' = None
    /\ UNCHANGED <<prog, pc, cell, ready, liveVars, queue, settlers, calling, step,
                   nextStart, pending, flush, got, settled>>

\* Mutant of RunFlush: flushScheduled is not reset.
RunFlushOnce ==
    LET k == Head(queue).cell
    IN  /\ LoopIdle /\ queue # <<>> /\ Head(queue).kind = "flush"
        /\ settlers' = Sorted(pending[k])
        /\ pending' = [pending EXCEPT ![k] = {}]
        /\ queue' = Tail(queue)
        /\ UNCHANGED <<prog, pc, cell, ready, liveVars, running, calling, step,
                       nextStart, flush, got, settled>>

RunFlush ==
    LET k == Head(queue).cell
    IN  /\ LoopIdle /\ queue # <<>> /\ Head(queue).kind = "flush"
        /\ settlers' = Sorted(pending[k])
        /\ pending' = [pending EXCEPT ![k] = {}]
        /\ flush' = [flush EXCEPT ![k] = FALSE]
        /\ queue' = Tail(queue)
        /\ UNCHANGED <<prog, pc, cell, ready, liveVars, running, calling, step,
                       nextStart, got, settled>>

\* The running JavaScript makes call c.
Making(c) ==
    /\ pc \notin {"live", "failed"} /\ calling = None
    /\ ready # <<>> /\ c = Head(ready)

\* Effects are handed out in the order they were started, whatever is called.
nextEffect(k) == linked[k][nextStart[k] + 1]

\* A call in replay mode is given the next effect, if there is one. A call without
\* a recorded result is rejected, or throws, at once; a synchronous one returns its
\* result; the result of an asynchronous one is queued next.
ReplayCall(c) ==
    LET handsOut == step # None /\ nextStart[step] < Len(linked[step])
        e == IF handsOut THEN nextEffect(step) ELSE Refused
    IN  /\ Making(c)
        /\ nextStart' = IF handsOut THEN [nextStart EXCEPT ![step] = @ + 1] ELSE nextStart
        /\ got' = [got EXCEPT ![c] = e]
        /\ \/ /\ c \in prog.sync
              /\ Settles(c) /\ ready' = Continues(c) \o Tail(ready)
              /\ UNCHANGED calling
           \/ /\ c \notin prog.sync /\ ~Recorded(e)
              /\ Settles(c) /\ ready' = Tail(ready) \o Continues(c)
              /\ UNCHANGED calling
           \/ /\ c \notin prog.sync /\ Recorded(e)
              /\ calling' = c /\ ready' = Tail(ready)
              /\ UNCHANGED settled
        /\ UNCHANGED <<prog, pc, cell, liveVars, queue, running, settlers, step, pending,
                       flush>>

\* queueReplayAsync. The step is looked up again: if it has been finished since,
\* the call never settles.
QueueReplayAsync ==
    /\ calling # None /\ pc # "failed"
    /\ calling' = None
    /\ IF step = None THEN UNCHANGED <<pending, flush, queue>>
       ELSE /\ pending' = [pending EXCEPT ![step] = @ \cup {calling}]
            /\ flush' = [flush EXCEPT ![step] = TRUE]
            /\ queue' = IF flush[step] THEN queue
                        ELSE Append(queue, [kind |-> "flush", cell |-> step])
    /\ UNCHANGED <<prog, pc, cell, ready, liveVars, running, settlers, step,
                   nextStart, got, settled>>

\* A settlement of the running flush, and the code that was waiting for it.
ReplaySettle ==
    LET c == Head(settlers)
    IN  /\ pc # "failed" /\ settlers # <<>> /\ ready = <<>> /\ calling = None
        /\ Settles(c)
        /\ ready' = Continues(c)
        /\ settlers' = Tail(settlers)
        /\ UNCHANGED <<prog, pc, cell, liveVars, queue, running, calling, step,
                       nextStart, pending, flush, got>>

Goroutine == BeginReplayStep \/ FinishReplayStep
Loop ==
    \/ RunProgram \/ ProgramReturns \/ RunFlush \/ QueueReplayAsync \/ ReplaySettle
    \/ \E c \in Calls : ReplayCall(c)

Submit ==
    \/ LiveProgram \/ LiveReturns \/ WaitPendingAsync \/ FlushLoop \/ Recheck \/ Drain
    \/ SetIndexedResult \/ NextCell

Next ==
    \/ Submit \/ LiveCall \/ LateCall
    \/ \E c \in Calls : LiveSettle(c)
    \/ Goroutine \/ Loop

\* During replay the goroutine goes on and the loop takes its jobs.
Spec == Init /\ [][Next]_vars /\ WF_vars(Goroutine) /\ WF_vars(Loop)

-----------------------------------------------------------------------------
(* Properties. *)

Replaying == pc # "live"

\* The stage of a call: calls that wait for nothing are in the first one.
stage[c \in Calls] == IF prog.after[c] = {} THEN 1
                      ELSE 1 + Max({stage[d] : d \in prog.after[c]})

\* The program works in stages: the calls of a cell are made together once all of
\* the stage before have settled, as after an awaited Promise.all, and only calls
\* that nothing follows or precedes are left without an await.
Staged ==
    /\ \A c \in Calls :
          prog.after[c] = {d \in Calls : /\ prog.cell[d] = prog.cell[c]
                                        /\ stage[d] = stage[c] - 1}
    /\ \A c \in Calls \ prog.awaited :
          prog.after[c] = {} /\ \A d \in Calls : c \notin prog.after[d]

\* A call that nobody awaits waits for calls that a value awaits, or that wait for
\* nothing: then a cell is not committed before its last call is made.
Prompt ==
    \A c \in Calls \ prog.awaited :
       \A d \in prog.after[c] : d \in prog.awaited \/ prog.after[d] = {}

\* A replayed call is given the record of the very call it repeats.
OwnResults == \A c \in Calls : got[c] \in {None, c}

\* In a staged program, it is, and replayed calls settle in the order they
\* completed in the live run.
StagedReplay ==
    Replaying /\ Staged =>
       /\ OwnResults
       /\ \A i, j \in DOMAIN settled :
             i < j /\ {settled[i], settled[j]} \subseteq Range(journal)
                => CompletionOrder(settled[i]) < CompletionOrder(settled[j])

\* If the program is prompt, a replayed cell takes records from no other cell, and
\* none of its calls comes too late for one. Without it the code breaks this: the
\* third call of a chain that nobody awaits may start once the pending count was read
\* as 0, is journaled for the next cell, and takes the record of another one.
OwnCell ==
    Prompt => \A c \in Calls : got[c] # None =>
                 got[c] # Refused /\ prog.cell[got[c]] = prog.cell[c]

\* A cell that was committed can be replayed if its program is staged: when its
\* value is known, all its effects have been consumed.
EffectsConsumed == pc = "failed" => ~Staged

\* Replay ends.
ReplayEnds == (pc = "begin") ~> (pc \in {"replayed", "failed"})
===============================================================================
