--------------------------- MODULE CellSettleProofs ---------------------------
(***************************************************************************)
(* Proofs about CellSettle, for any set of effects and any number of       *)
(* cells.  BaseInv is inductive for every program; AwaitedInv adds what    *)
(* holds when cells start no host call after their own outcome is known.   *)
(***************************************************************************)
EXTENDS CellSettle, SequenceTheorems, TLAPS

-----------------------------------------------------------------------------
(* The inductive invariant for all programs. *)

\* Outside idle and prepare a cell is active, and host calls are charged to it.
PcInv ==
    /\ pc \in {"idle", "prepare"} => live = 0
    /\ pc = "prepare" => cell < NumCells
    /\ pc \notin {"idle", "prepare"} => cell \in Cells /\ live = cell

QueuedOK(q) ==
    /\ q.kind \in {"run", "settle", "barrier"}
    /\ q.owner \in 1..cell
    /\ q.kind = "run" => q.at = "js"
    /\ q.kind = "settle" =>
          q.at = "begin" /\ \E e \in Effects : /\ q.eff = {e}
                                               /\ hostState[e] = "posted"
                                               /\ owner[e] = q.owner

\* The running job is well formed.
RunningInv ==
    /\ job.kind \in {"none", "run", "settle"}
    /\ job.kind = "none" => job = NoJob
    /\ job.kind # "none" => job.owner \in 1..cell
    /\ job.at # "js" => \E e \in Effects : job.eff = {e} /\ charged[e] \in Cells

\* The queued jobs are well formed, and no effect is settled by two jobs.
QueueInv ==
    /\ \A i \in 1..Len(queue) : QueuedOK(queue[i])
    /\ \A i, j \in 1..Len(queue) :
          i # j /\ queue[i].kind = "settle" /\ queue[j].kind = "settle"
             => queue[i].eff # queue[j].eff
    /\ \A i \in 1..Len(queue) :
          queue[i].kind = "settle" /\ job.at \in {"begin", "journaled"}
             => queue[i].eff # job.eff

JobInv == RunningInv /\ QueueInv

\* How far a host call is and what its summary and its fact say go together.
EffectInv ==
    /\ \A e \in Effects :
          /\ hostState[e] = "unused" => owner[e] = 0
          /\ hostState[e] # "unused" => charged[e] \in 1..cell /\ owner[e] \in 1..cell
          /\ hostState[e] # "settled" => status[e] = "pending"
          /\ e \in job.eff /\ job.at \in {"begin", "journaled"} =>
                hostState[e] \in {"posted", "sync"}
          /\ e \in job.eff /\ job.at = "journaled" => fact[e] = "completed"
          /\ e \in job.eff /\ job.at = "failed" => 
                hostState[e] = "settled" /\ status[e] # "completed"
    /\ CompletedIsDurable

\* A sleeping waiter holds a channel, and it is open only while work is pending.
WaitInv ==
    pc = "blocked" =>
       /\ asyncSettled \in {"open", "closed"}
       /\ asyncEffects[cell] = {} => asyncSettled = "closed"

\* Nothing of cell c is running, queued or under way.
Gone(c) ==
    /\ job.owner # c
    /\ \A i \in 1..Len(queue) : queue[i].owner # c
    /\ \A e \in Effects : owner[e] = c => hostState[e] \notin InFlight

\* The cell being submitted has its last fact.
Decided == {"index", "indexing", "end", "idle", "prepare"}

\* A failed cell leaves a dirty runtime, and nothing of it outlives the rebuild.
FailedInv ==
    /\ pc = "failing" => dirty
    /\ \A c \in Cells : outcome[c] # "none" =>
          c <= cell /\ (c = cell => pc \in Decided)
    /\ pc \in {"index", "indexing"} => outcome[cell] = "committed"
    /\ \A c \in Cells : outcome[c] = "failed" /\ (c < cell \/ ~dirty) => Gone(c)

BaseInv == TypeOK /\ PcInv /\ JobInv /\ EffectInv /\ WaitInv /\ FailedInv

-----------------------------------------------------------------------------
(* The additional invariant for cells that start no host call once their   *)
(* outcome is known.                                                       *)

\* The loop is idle and no host call is under way.
Quiet ==
    /\ job.kind = "none" /\ queue = <<>>
    /\ \A e \in Effects : hostState[e] \notin InFlight \cup {"sync"}

BeforeDrain == {"eval", "wait", "blocked", "post", "flush", "recheck",
                "unhandled", "drain"}

\* All running code and all host calls under way belong to the current cell.
CurrentInv ==
    /\ job.kind # "none" => job.owner = cell
    /\ \A i \in 1..Len(queue) : queue[i].owner = cell
    /\ \A e \in Effects : hostState[e] \in InFlight \cup {"sync"} => owner[e] = cell
    /\ ChargedToOwner

\* A synchronous call under way is what the running job is about, and the loop
\* it blocks cannot have delivered the outcome; a lost call is a failed cell's.
SyncLostInv ==
    \A e \in Effects :
       /\ hostState[e] = "sync" =>
             job.at # "js" /\ job.eff = {e} /\ result[cell] = "none"
       /\ hostState[e] = "lost" => outcome[owner[e]] = "failed"

\* The program of a cell is queued on an idle loop, and has no outcome before it
\* has run; a barrier is queued only while its poster waits, or after a failure.
ProgramInv ==
    /\ \A c \in Cells : c > cell => result[c] = "none"
    /\ \A i \in 1..Len(queue) : queue[i].kind = "run" =>
          i = 1 /\ job.kind = "none" /\ result[cell] = "none"
    /\ \A i \in 1..Len(queue) : queue[i].kind = "barrier" =>
          evalErr \/ settleErr \/ (pc \in {"flush", "indexing"} /\ flushed = FALSE)

\* Until the accumulator is drained it knows every host call of the cell.
TrackedInv ==
    pc \in BeforeDrain =>
       /\ ~dirty
       /\ \A e \in Effects : owner[e] = cell => e \in effects[cell]
       /\ \A e \in Effects : hostState[e] \in InFlight => e \in asyncEffects[cell]

\* Once the outcome is in and nothing is pending, nothing is started any more:
\* what is left is the running turn, and the barrier waits for its end.
QuietInv ==
    /\ pc \in BeforeDrain /\ pc # "eval" /\ ~evalErr => result[cell] = "ok"
    /\ pc = "post" /\ ~evalErr =>
          /\ queue = <<>>
          /\ \A e \in Effects : hostState[e] \notin InFlight \cup {"sync"}
    /\ pc = "flush" /\ ~evalErr /\ ~flushed =>
          /\ queue = <<BarrierJob(cell)>>
          /\ \A e \in Effects : hostState[e] \notin InFlight \cup {"sync"}
    /\ pc = "flush" /\ ~evalErr /\ flushed => Quiet
    /\ pc \in {"recheck", "unhandled"} /\ ~evalErr => Quiet
    /\ pc \in {"drain", "append", "index"} /\ ~evalErr /\ ~settleErr => Quiet
    /\ pc = "indexing" /\ ~flushed =>
          /\ job.kind = "none" /\ queue = <<BarrierJob(cell)>>
          /\ \A e \in Effects : hostState[e] \notin InFlight \cup {"sync"}
    /\ pc = "indexing" /\ flushed => Quiet
    /\ pc \in {"end", "idle", "prepare"} /\ (~dirty \/ outcome[cell] = "committed")
          => Quiet

\* A committed cell: its host calls have settled and are linked to it.
CommittedInv ==
    /\ pc = "eval" => ~evalErr
    /\ pc \in BeforeDrain \ {"drain"} => ~settleErr
    /\ pc \in BeforeDrain \cup {"append", "failing"} => outcome[cell] = "none"
    /\ pc = "end" => outcome[cell] # "none"
    /\ pc = "end" /\ outcome[cell] # "committed" => dirty
    /\ pc \in {"append", "index", "indexing"} => ~evalErr /\ ~settleErr
    /\ pc = "append" => ~dirty
    /\ dirty /\ pc \in {"idle", "prepare"} => cell \in Cells /\ outcome[cell] # "none"
    /\ pc = "append" =>
          \A e \in Effects : owner[e] = cell => e \in linked[cell]
    /\ \A c \in Cells : outcome[c] = "committed" =>
          \A e \in Effects : owner[e] = c =>
             hostState[e] = "settled" /\ e \in linked[c]

AwaitedInv ==
    /\ BaseInv /\ CurrentInv /\ SyncLostInv /\ ProgramInv
    /\ TrackedInv /\ QuietInv /\ CommittedInv

-----------------------------------------------------------------------------
(* Proofs. *)

\* Initially everything is idle: both invariants hold.
LEMMA InitBase == Init => BaseInv
<1> SUFFICES ASSUME Init PROVE BaseInv
  OBVIOUS
<1> USE SettleAssumption DEF Init
<1>1. NoJob \in Job /\ queue \in Seq(Job) /\ Len(queue) = 0
  BY DEF NoJob, Job
<1>2. TypeOK
  <2>1. /\ result \in [Cells -> {"none", "ok", "error"}]
        /\ unhandled \in [Cells -> BOOLEAN]
        /\ outcome \in [Cells -> {"none", "committed", "failed"}]
    OBVIOUS
  <2>2. /\ effects \in [Cells -> SUBSET Effects]
        /\ asyncEffects \in [Cells -> SUBSET Effects]
        /\ linked \in [Cells -> SUBSET Effects]
    OBVIOUS
  <2>3. /\ owner \in [Effects -> 0..NumCells]
        /\ charged \in [Effects -> 0..NumCells]
        /\ cell \in 0..NumCells /\ live \in 0..NumCells
    OBVIOUS
  <2> QED BY <1>1, <2>1, <2>2, <2>3 DEF TypeOK, SubmitPC
<1>3. PcInv /\ WaitInv
  BY DEF PcInv, WaitInv
<1>4. JobInv
  BY <1>1 DEF JobInv, RunningInv, QueueInv, NoJob
<1>5. EffectInv
  BY DEF EffectInv, CompletedIsDurable, NoJob
<1>6. FailedInv
  BY DEF FailedInv
<1> QED BY <1>2, <1>3, <1>4, <1>5, <1>6 DEF BaseInv

\* What recordCompleted and recordFailed leave of the types.
LEMMA RecordType ==
    ASSUME TypeOK, NEW e \in Effects, charged[e] \in Cells,
           NEW s \in {"completed", "failed"}, Record(e, s)
    PROVE  /\ status' \in [Effects -> {"pending", "completed", "failed"}]
           /\ asyncEffects' \in [Cells -> SUBSET Effects]
           /\ asyncSettled' \in {"nil", "open", "closed"}
           /\ hostState' \in [Effects -> {"unused", "invoking", "posted", "sync",
                                          "settled", "lost"}]
<1> USE DEF TypeOK, Record
<1>1. status' \in [Effects -> {"pending", "completed", "failed"}]
  OBVIOUS
<1>2. asyncEffects' \in [Cells -> SUBSET Effects]
  OBVIOUS
<1>3. asyncSettled' \in {"nil", "open", "closed"}
  OBVIOUS
<1>4. hostState' \in [Effects -> {"unused", "invoking", "posted", "sync",
                                 "settled", "lost"}]
  OBVIOUS
<1> QED BY <1>1, <1>2, <1>3, <1>4

\* Every action keeps the types and the link between pc, cell and live.
LEMMA TypeStep == TypeOK /\ PcInv /\ JobInv /\ [Next]_vars => TypeOK' /\ PcInv'
<1> SUFFICES ASSUME TypeOK, PcInv, JobInv, [Next]_vars
             PROVE  TypeOK' /\ PcInv'
  OBVIOUS
<1> USE SettleAssumption DEF TypeOK, PcInv, SubmitPC, Cells
<1>1. CASE Submit \/ Refuse
  BY <1>1 DEF Submit, Refuse, accVars, effectVars
<1>2. CASE Rebuild
  <2>1. hostState' \in [Effects -> {"unused", "invoking", "posted", "sync",
                                    "settled", "lost"}]
    BY <1>2 DEF Rebuild
  <2>2. queue' \in Seq(Job)
    BY <1>2 DEF Rebuild
  <2> QED BY <1>2, <2>1, <2>2 DEF Rebuild, accVars
<1>3. CASE BeginCell
  <2>1. cell + 1 \in Cells /\ cell + 1 \in 0..NumCells
    BY <1>3 DEF BeginCell
  <2>2. RunJob(cell + 1) \in Job
    BY <2>1 DEF RunJob, NoJob, Job
  <2>3. queue' \in Seq(Job)
    BY <1>3, <2>2 DEF BeginCell
  <2>4. /\ pc' = "eval" /\ cell' = cell + 1 /\ live' = cell + 1
        /\ expired' \in BOOLEAN /\ evalErr' \in BOOLEAN /\ settleErr' \in BOOLEAN
        /\ flushed' \in BOOLEAN /\ asyncSettled' = "nil"
    BY <1>3 DEF BeginCell
  <2> QED BY <1>3, <2>1, <2>3, <2>4 DEF BeginCell, effectVars
<1>4. CASE EvalReturns
  BY <1>4 DEF EvalReturns, accVars, effectVars
<1>5. CASE WaitPending
  BY <1>5 DEF WaitPending, effectVars
<1>6. CASE Woken
  BY <1>6 DEF Woken, effectVars
<1>7. CASE PostBarrier \/ PostIndex
  <2>1. BarrierJob(cell) \in Job
    BY <1>7 DEF PostBarrier, PostIndex, BarrierJob, NoJob, Job
  <2>3. queue' = Append(queue, BarrierJob(cell))
    BY <1>7 DEF PostBarrier, PostIndex
  <2>4. queue \in Seq(Job)
    OBVIOUS
  <2>2. queue' \in Seq(Job)
    BY <2>1, <2>3, <2>4, AppendProperties
  <2> QED BY <1>7, <2>2 DEF PostBarrier, PostIndex, accVars, effectVars
<1>8. CASE FlushReturns
  BY <1>8 DEF FlushReturns, accVars, effectVars
<1>9. CASE Recheck \/ ReadUnhandled
  BY <1>9 DEF Recheck, ReadUnhandled, accVars, effectVars
<1>10. CASE Drain
  BY <1>10 DEF Drain, effectVars
<1>11. CASE AppendCommit \/ IndexReturns
  BY <1>11 DEF AppendCommit, IndexReturns, accVars, effectVars
<1>12. CASE RecordFailure
  BY <1>12 DEF RecordFailure, accVars, effectVars
<1>13. CASE EndCell
  BY <1>13 DEF EndCell, accVars, effectVars
<1>14. CASE Timeout
  BY <1>14 DEF Timeout, accVars, effectVars
<1>15. CASE TakeJob
  <2>1. Head(queue) \in Job /\ Tail(queue) \in Seq(Job)
    BY <1>15, HeadTailProperties DEF TakeJob
  <2>2. flushed' \in BOOLEAN /\ job' \in Job
    BY <1>15, <2>1 DEF TakeJob
  <2> QED BY <1>15, <2>1, <2>2 DEF TakeJob, accVars, effectVars
<1>16. ASSUME NEW e \in Effects, StartAsync(e) PROVE TypeOK' /\ PcInv'
  <2>1. job.owner \in 0..NumCells
    BY DEF Job
  <2> QED BY <1>16, <2>1 DEF StartAsync, submitVars
<1>17. ASSUME NEW e \in Effects, CallSync(e) PROVE TypeOK' /\ PcInv'
  <2>1. job.owner \in 0..NumCells
    BY DEF Job
  <2>2. PICK ok \in BOOLEAN :
           job' = [job EXCEPT !.at = "begin", !.eff = {e}, !.ok = ok]
    BY <1>17 DEF CallSync
  <2>3. job' \in Job
    BY <2>2 DEF Job
  <2> QED BY <1>17, <2>1, <2>3 DEF CallSync, submitVars
<1>18. ASSUME NEW e \in Effects, NEW ok \in BOOLEAN, HostReturns(e, ok)
       PROVE  TypeOK' /\ PcInv'
  <2>1. SettleJob(e, ok) \in Job
    BY DEF SettleJob, Job
  <2> QED BY <1>18, <2>1 DEF HostReturns, submitVars, accVars
<1>19. CASE JournalCompleted
  <2>1. job' \in Job
    BY <1>19 DEF JournalCompleted, Job
  <2> QED BY <1>19, <2>1 DEF JournalCompleted, submitVars, accVars
<1>20. ASSUME NEW e \in Effects, SettleCompleted(e) PROVE TypeOK' /\ PcInv'
  <2>1. job' \in Job
    BY <1>20 DEF SettleCompleted, Job
  <2>2. charged[e] \in Cells
    BY <1>20 DEF SettleCompleted, JobInv, RunningInv
  <2>3. /\ status' \in [Effects -> {"pending", "completed", "failed"}]
        /\ asyncEffects' \in [Cells -> SUBSET Effects]
        /\ asyncSettled' \in {"nil", "open", "closed"}
        /\ hostState' \in [Effects -> {"unused", "invoking", "posted", "sync",
                                       "settled", "lost"}]
    BY <1>20, <2>2, RecordType DEF SettleCompleted
  <2> QED BY <1>20, <2>1, <2>3 DEF SettleCompleted, submitVars
<1>21. ASSUME NEW e \in Effects, SettleFailed(e) PROVE TypeOK' /\ PcInv'
  <2>1. job' \in Job
    BY <1>21 DEF SettleFailed, Job
  <2>2. charged[e] \in Cells
    BY <1>21 DEF SettleFailed, JobInv, RunningInv
  <2>3. /\ status' \in [Effects -> {"pending", "completed", "failed"}]
        /\ asyncEffects' \in [Cells -> SUBSET Effects]
        /\ asyncSettled' \in {"nil", "open", "closed"}
        /\ hostState' \in [Effects -> {"unused", "invoking", "posted", "sync",
                                       "settled", "lost"}]
    BY <1>21, <2>2, RecordType DEF SettleFailed
  <2> QED BY <1>21, <2>1, <2>3 DEF SettleFailed, submitVars
<1>22. CASE JournalFailed
  <2>1. job' \in Job
    BY <1>22 DEF JournalFailed, Job
  <2> QED BY <1>22, <2>1 DEF JournalFailed, submitVars, accVars
<1>23. ASSUME NEW v \in {"ok", "error"}, Deliver(v) PROVE TypeOK' /\ PcInv'
  <2>1. result' \in [Cells -> {"none", "ok", "error"}]
    BY <1>23 DEF Deliver
  <2> QED BY <1>23, <2>1 DEF Deliver, submitVars, accVars, effectVars
<1>24. ASSUME NEW u \in BOOLEAN, TrackRejection(u) PROVE TypeOK' /\ PcInv'
  BY <1>24 DEF TrackRejection, submitVars, effectVars
<1>25. CASE EndJob
  <2>1. NoJob \in Job
    BY DEF NoJob, Job
  <2> QED BY <1>25, <2>1 DEF EndJob, submitVars, accVars, effectVars
<1>26. CASE UNCHANGED vars
  BY <1>26 DEF vars, submitVars, accVars, effectVars
<1> QED
  BY <1>1, <1>2, <1>3, <1>4, <1>5, <1>6, <1>7, <1>8, <1>9, <1>10, <1>11,
     <1>12, <1>13, <1>14, <1>15, <1>16, <1>17, <1>18, <1>19, <1>20, <1>21,
     <1>22, <1>23, <1>24, <1>25, <1>26
     DEF Next, SubmitStep, Settling, JSStep, HostStep, Done

\* The actions that touch neither the loop nor any host call.
FrameAction ==
    \/ Submit \/ Refuse \/ EvalReturns \/ WaitPending \/ Woken
    \/ FlushReturns \/ Recheck \/ ReadUnhandled \/ Drain
    \/ AppendCommit \/ IndexReturns \/ RecordFailure \/ EndCell
    \/ Timeout \/ (\E v \in {"ok", "error"} : Deliver(v))
    \/ (\E u \in BOOLEAN : TrackRejection(u)) \/ UNCHANGED vars

\* They leave the loop and the host calls as they are.
LEMMA FrameActions ==
    ASSUME FrameAction
    PROVE  UNCHANGED <<cell, job, queue, hostState, owner, charged, status, fact>>
<1> USE DEF submitVars, accVars, effectVars
<1>1. CASE Submit \/ Refuse \/ EvalReturns \/ WaitPending \/ Woken
  BY <1>1 DEF Submit, Refuse, EvalReturns, WaitPending, Woken
<1>2. CASE FlushReturns \/ Recheck \/ ReadUnhandled \/ Drain \/ AppendCommit
           \/ IndexReturns
  BY <1>2 DEF FlushReturns, Recheck, ReadUnhandled, Drain, AppendCommit, IndexReturns
<1>3. CASE RecordFailure \/ EndCell \/ Timeout
  BY <1>3 DEF RecordFailure, EndCell, Timeout
<1>4. CASE \E v \in {"ok", "error"} : Deliver(v)
  BY <1>4 DEF Deliver
<1>5. CASE \E u \in BOOLEAN : TrackRejection(u)
  BY <1>5 DEF TrackRejection
<1>6. CASE UNCHANGED vars
  BY <1>6 DEF vars
<1> QED BY <1>1, <1>2, <1>3, <1>4, <1>5, <1>6 DEF FrameAction

\* What appending a job does to the queue.
LEMMA AppendJob ==
    ASSUME queue \in Seq(Job), NEW q \in Job, queue' = Append(queue, q)
    PROVE  /\ Len(queue') = Len(queue) + 1
           /\ Len(queue) \in Nat
           /\ \A i \in 1..Len(queue) : queue'[i] = queue[i]
           /\ queue'[Len(queue) + 1] = q
OBVIOUS

\* The submit goroutine posts a job and then waits for it.
PostJob == PostBarrier \/ PostIndex

\* The actions the loop, the queue or a host call takes part in.
LoopAction ==
    \/ Rebuild \/ BeginCell \/ PostJob \/ TakeJob
    \/ (\E e \in Effects : StartAsync(e) \/ CallSync(e))
    \/ (\E e \in Effects, ok \in BOOLEAN : HostReturns(e, ok))
    \/ JournalCompleted \/ JournalFailed
    \/ (\E e \in Effects : SettleCompleted(e) \/ SettleFailed(e))
    \/ EndJob

\* Every step is one of them or leaves the loop and the host calls alone.
LEMMA LoopOrFrame ==
    [Next]_vars =>
       \/ LoopAction
       \/ UNCHANGED <<cell, job, queue, hostState, owner, charged, status, fact>>
<1> SUFFICES ASSUME [Next]_vars, ~LoopAction PROVE FrameAction
  BY FrameActions
<1>1. CASE SubmitStep
  BY <1>1 DEF SubmitStep, LoopAction, FrameAction, PostJob
<1>2. CASE JSStep
  BY <1>2 DEF JSStep, LoopAction, FrameAction
<1>3. CASE Timeout \/ Done \/ UNCHANGED vars
  BY <1>3 DEF Done, FrameAction
<1>4. ~ (TakeJob \/ Settling \/ EndJob \/ HostStep)
  BY DEF LoopAction, Settling, HostStep
<1> QED BY <1>1, <1>2, <1>3, <1>4 DEF Next

\* The running job stays well formed.
LEMMA RunningStep ==
    TypeOK /\ PcInv /\ JobInv /\ EffectInv /\ [Next]_vars => RunningInv'
<1> SUFFICES ASSUME TypeOK, PcInv, JobInv, EffectInv, [Next]_vars
             PROVE  RunningInv'
  OBVIOUS
<1> USE SettleAssumption DEF JobInv
<1>1. CASE UNCHANGED <<cell, job, queue, hostState, owner, charged, status, fact>>
  BY <1>1 DEF RunningInv
<1>2. CASE Rebuild
  BY <1>2 DEF Rebuild, RunningInv
<1>3. CASE BeginCell
  <2>1. /\ cell' = cell + 1 /\ job' = job /\ charged' = charged
        /\ \A n \in 1..cell : n \in 1..(cell + 1)
    BY <1>3 DEF BeginCell, effectVars, TypeOK
  <2> QED BY <2>1 DEF RunningInv
<1>4. CASE PostJob
  BY <1>4 DEF PostJob, PostBarrier, PostIndex, RunningInv, effectVars
<1>5. CASE TakeJob
  <2>1. Head(queue) = queue[1] /\ 1 \in 1..Len(queue)
    BY <1>5 DEF TakeJob, TypeOK
  <2>2. QueuedOK(queue[1])
    BY <2>1 DEF QueueInv
  <2>3. CASE queue[1].kind = "barrier"
    BY <1>5, <2>1, <2>3 DEF TakeJob, RunningInv, effectVars
  <2>4. CASE queue[1].kind # "barrier"
    <3>1. job' = queue[1] /\ cell' = cell /\ charged' = charged
      BY <1>5, <2>1, <2>4 DEF TakeJob, effectVars
    <3>2. \A e \in Effects : hostState[e] = "posted" => charged[e] \in Cells
      BY DEF EffectInv, TypeOK, Cells
    <3> QED BY <2>2, <2>4, <3>1, <3>2 DEF RunningInv, QueuedOK
  <2> QED BY <2>3, <2>4
<1>6. ASSUME NEW e \in Effects, StartAsync(e) PROVE RunningInv'
  BY <1>6 DEF StartAsync, RunningInv, RunningJS, submitVars
<1>7. ASSUME NEW e \in Effects, CallSync(e) PROVE RunningInv'
  <2>1. /\ job'.kind = job.kind /\ job'.owner = job.owner /\ job'.eff = {e}
        /\ job.kind # "none"
    BY <1>7 DEF CallSync, TypeOK, Job, RunningJS
  <2>2. charged'[e] \in Cells
    BY <1>7 DEF CallSync, TypeOK, Cells
  <2> QED BY <1>7, <2>1, <2>2 DEF CallSync, RunningInv, submitVars
<1>8. ASSUME NEW e \in Effects, NEW ok \in BOOLEAN, HostReturns(e, ok)
      PROVE  RunningInv'
  BY <1>8 DEF HostReturns, RunningInv, submitVars
<1>9. CASE JournalCompleted \/ JournalFailed \/
           (\E e \in Effects : SettleCompleted(e) \/ SettleFailed(e))
  <2>1. job.at # "js"
    BY <1>9 DEF JournalCompleted, JournalFailed, SettleCompleted, SettleFailed
  <2>2. job.kind # "none"
    BY <2>1 DEF RunningInv, NoJob
  <2>3. /\ job'.kind = job.kind /\ job'.owner = job.owner
        /\ job'.at = "js" \/ job'.eff = job.eff
    BY <1>9 DEF JournalCompleted, JournalFailed, SettleCompleted, SettleFailed,
                TypeOK, Job
  <2>4. cell' = cell /\ charged' = charged
    BY <1>9 DEF JournalCompleted, JournalFailed, SettleCompleted, SettleFailed,
                submitVars
  <2> QED BY <2>1, <2>2, <2>3, <2>4 DEF RunningInv
<1>10. CASE EndJob
  BY <1>10 DEF EndJob, RunningInv, NoJob
<1> QED
  BY <1>1, <1>2, <1>3, <1>4, <1>5, <1>6, <1>7, <1>8, <1>9, <1>10, LoopOrFrame
     DEF LoopAction

\* A queue keeps its invariant when a job joins it that settles no effect of
\* another job.
LEMMA QueueAppend ==
    ASSUME queue \in Seq(Job), QueueInv, NEW q \in Job,
           queue' = Append(queue, q), job' = job,
           \A i \in 1..Len(queue) : QueuedOK(queue[i])',
           QueuedOK(queue[Len(queue)])',
           q.kind = "settle" =>
              /\ \A i \in 1..Len(queue) :
                    queue[i].kind = "settle" => queue[i].eff # q.eff
              /\ job.at \in {"begin", "journaled"} => q.eff # job.eff
    PROVE  QueueInv'
<1>1. /\ Len(queue') = Len(queue) + 1 /\ Len(queue) \in Nat
      /\ \A i \in 1..Len(queue) : queue'[i] = queue[i]
      /\ queue'[Len(queue) + 1] = q
  BY AppendJob
<1>2. \A i \in 1..Len(queue') :
         i \in 1..Len(queue) \/ (i = Len(queue') /\ queue'[i] = q)
  BY <1>1
<1>3. \A i \in 1..Len(queue') : QueuedOK(queue[i])'
  BY <1>2
<1>4. ASSUME NEW i \in 1..Len(queue'), NEW j \in 1..Len(queue'), i # j,
             queue'[i].kind = "settle", queue'[j].kind = "settle"
      PROVE  queue'[i].eff # queue'[j].eff
  BY <1>1, <1>2, <1>4 DEF QueueInv
<1>5. ASSUME NEW i \in 1..Len(queue'), queue'[i].kind = "settle",
             job'.at \in {"begin", "journaled"}
      PROVE  queue'[i].eff # job'.eff
  BY <1>1, <1>2, <1>5 DEF QueueInv
<1> QED BY <1>3, <1>4, <1>5 DEF QueueInv

\* The queued jobs stay well formed, each with an effect of its own.
LEMMA QueueStep ==
    TypeOK /\ PcInv /\ JobInv /\ EffectInv /\ [Next]_vars => QueueInv'
<1> SUFFICES ASSUME TypeOK, PcInv, JobInv, EffectInv, [Next]_vars
             PROVE  QueueInv'
  OBVIOUS
<1> USE SettleAssumption DEF JobInv
<1>0. /\ queue \in Seq(Job) /\ Len(queue) \in Nat
      /\ \A i \in 1..Len(queue) : queue[i] \in Job
  BY DEF TypeOK
<1>1. CASE UNCHANGED <<cell, job, queue, hostState, owner, charged, status, fact>>
  BY <1>1 DEF QueueInv, QueuedOK
<1>2. CASE Rebuild
  BY <1>2 DEF Rebuild, QueueInv
<1>3. CASE BeginCell
  <2> DEFINE q == RunJob(cell + 1)
  <2>1. cell + 1 \in Cells /\ cell + 1 \in 0..NumCells
    BY <1>3 DEF BeginCell, PcInv, TypeOK, Cells
  <2>2. q \in Job
    BY <2>1 DEF RunJob, NoJob, Job
  <2>3. q.kind = "run" /\ q.owner = cell + 1 /\ q.at = "js"
    BY DEF RunJob, NoJob
  <2>4. queue' = Append(queue, q)
    BY <1>3 DEF BeginCell
  <2> HIDE DEF q
  <2>5. /\ cell' = cell + 1 /\ job' = job /\ hostState' = hostState
        /\ owner' = owner /\ cell \in Nat
    BY <1>3 DEF BeginCell, effectVars, TypeOK
  <2>6. /\ Len(queue') = Len(queue) + 1
        /\ \A i \in 1..Len(queue) : queue'[i] = queue[i]
        /\ queue'[Len(queue')] = q
    BY <1>0, <2>2, <2>4, AppendJob
  <2>7. \A i \in 1..Len(queue) : QueuedOK(queue[i])'
    BY <2>5, <2>6 DEF QueueInv, QueuedOK
  <2>8. QueuedOK(queue[Len(queue)])'
    BY <2>3, <2>5, <2>6 DEF QueuedOK
  <2> QED BY <1>0, <2>2, <2>3, <2>4, <2>5, <2>7, <2>8, QueueAppend
<1>4. CASE PostJob
  <2> DEFINE q == BarrierJob(cell)
  <2>1. cell \in Cells /\ cell \in 0..NumCells
    BY <1>4 DEF PostJob, PostBarrier, PostIndex, PcInv, TypeOK
  <2>2. q \in Job
    BY <2>1 DEF BarrierJob, NoJob, Job
  <2>3. q.kind = "barrier" /\ q.owner = cell
    BY DEF BarrierJob, NoJob
  <2>4. queue' = Append(queue, q)
    BY <1>4 DEF PostJob, PostBarrier, PostIndex
  <2> HIDE DEF q
  <2>5. /\ cell' = cell /\ job' = job /\ hostState' = hostState
        /\ owner' = owner
    BY <1>4 DEF PostJob, PostBarrier, PostIndex, effectVars
  <2>6. /\ Len(queue') = Len(queue) + 1
        /\ \A i \in 1..Len(queue) : queue'[i] = queue[i]
        /\ queue'[Len(queue')] = q
    BY <1>0, <2>2, <2>4, AppendJob
  <2>7. \A i \in 1..Len(queue) : QueuedOK(queue[i])'
    BY <2>5, <2>6 DEF QueueInv, QueuedOK
  <2>8. QueuedOK(queue[Len(queue)])'
    BY <2>1, <2>3, <2>5, <2>6 DEF QueuedOK, Cells
  <2> QED BY <1>0, <2>2, <2>3, <2>4, <2>5, <2>7, <2>8, QueueAppend
<1>5. CASE TakeJob
  <2>1. /\ Head(queue) = queue[1] /\ 1 \in 1..Len(queue)
        /\ Len(queue') = Len(queue) - 1
        /\ \A i \in 1..Len(queue') :
              queue'[i] = queue[i + 1] /\ i + 1 \in 1..Len(queue) /\ i + 1 # 1
    BY <1>0, <1>5 DEF TakeJob
  <2>2. cell' = cell /\ hostState' = hostState /\ owner' = owner
    BY <1>5 DEF TakeJob, effectVars
  <2>3. ASSUME NEW i \in 1..Len(queue') PROVE QueuedOK(queue[i])'
    <3>1. QueuedOK(queue[i + 1]) /\ queue'[i] = queue[i + 1]
      BY <2>1 DEF QueueInv
    <3> QED BY <2>2, <3>1 DEF QueuedOK
  <2>4. ASSUME NEW i \in 1..Len(queue'), NEW j \in 1..Len(queue'), i # j,
               queue'[i].kind = "settle", queue'[j].kind = "settle"
        PROVE  queue'[i].eff # queue'[j].eff
    <3>1. i + 1 # j + 1
      BY <2>4
    <3> QED BY <2>1, <2>4, <3>1 DEF QueueInv
  <2>5. job' = job \/ job' = queue[1]
    BY <1>5, <2>1 DEF TakeJob
  <2>6. job'.at # "js" /\ job' = queue[1] => queue[1].kind = "settle" \/ job' = job
    BY <1>5, <2>1 DEF TakeJob, QueueInv, QueuedOK
  <2>7. ASSUME NEW i \in 1..Len(queue'), queue'[i].kind = "settle",
               job'.at \in {"begin", "journaled"}
        PROVE  queue'[i].eff # job'.eff
    BY <2>1, <2>5, <2>6, <2>7 DEF QueueInv
  <2> QED BY <2>3, <2>4, <2>7 DEF QueueInv
<1>6. ASSUME NEW e \in Effects, StartAsync(e) PROVE QueueInv'
  <2>1. /\ queue' = queue /\ job' = job /\ cell' = cell
        /\ hostState[e] = "unused"
        /\ \A f \in Effects : hostState[f] = "posted" =>
              hostState'[f] = "posted" /\ owner'[f] = owner[f]
    BY <1>6 DEF StartAsync, submitVars, TypeOK
  <2> QED BY <2>1 DEF QueueInv, QueuedOK
<1>7. ASSUME NEW e \in Effects, CallSync(e) PROVE QueueInv'
  <2>1. /\ queue' = queue /\ cell' = cell
        /\ hostState[e] = "unused" /\ job'.eff = {e}
        /\ \A f \in Effects : hostState[f] = "posted" =>
              f # e /\ hostState'[f] = "posted" /\ owner'[f] = owner[f]
    BY <1>7 DEF CallSync, submitVars, TypeOK, Job
  <2>2. \A i \in 1..Len(queue) : QueuedOK(queue[i])'
    BY <2>1 DEF QueueInv, QueuedOK
  <2>3. \A i \in 1..Len(queue) : queue[i].kind = "settle" => queue[i].eff # {e}
    BY <2>1 DEF QueueInv, QueuedOK
  <2> QED BY <2>1, <2>2, <2>3 DEF QueueInv
<1>8. ASSUME NEW e \in Effects, NEW ok \in BOOLEAN, HostReturns(e, ok)
      PROVE  QueueInv'
  <2> DEFINE q == SettleJob(e, ok)
  <2>1. q \in Job /\ queue' = Append(queue, q)
    BY <1>8 DEF SettleJob, Job, TypeOK, HostReturns
  <2>2. /\ q.kind = "settle" /\ q.owner = owner[e] /\ q.at = "begin"
        /\ q.eff = {e}
    BY DEF SettleJob
  <2> HIDE DEF q
  <2>3. /\ cell' = cell /\ job' = job /\ owner' = owner
        /\ hostState[e] = "invoking" /\ hostState'[e] = "posted"
        /\ \A f \in Effects : hostState[f] = "posted" =>
              hostState'[f] = "posted"
    BY <1>8 DEF HostReturns, submitVars, TypeOK
  <2>4. /\ Len(queue') = Len(queue) + 1
        /\ \A i \in 1..Len(queue) : queue'[i] = queue[i]
        /\ queue'[Len(queue')] = q
    BY <1>0, <2>1, AppendJob
  <2>5. \A i \in 1..Len(queue) : QueuedOK(queue[i])'
    BY <2>3, <2>4 DEF QueueInv, QueuedOK
  <2>6. owner[e] \in 1..cell
    BY <2>3 DEF EffectInv
  <2>7. QueuedOK(queue[Len(queue)])'
    BY <2>2, <2>3, <2>4, <2>6 DEF QueuedOK
  <2>8. \A i \in 1..Len(queue) : queue[i].kind = "settle" => queue[i].eff # q.eff
    BY <2>2, <2>3 DEF QueueInv, QueuedOK
  <2>9. job.at \in {"begin", "journaled"} => q.eff # job.eff
    BY <2>2, <2>3 DEF EffectInv
  <2> QED BY <1>0, <2>1, <2>3, <2>5, <2>7, <2>8, <2>9, QueueAppend
<1>9. CASE JournalCompleted \/ JournalFailed \/ EndJob
  <2>1. /\ queue' = queue /\ cell' = cell /\ hostState' = hostState
        /\ owner' = owner
    BY <1>9 DEF JournalCompleted, JournalFailed, EndJob, submitVars, effectVars
  <2>2. CASE JournalCompleted
    <3>1. job.at = "begin" /\ job'.eff = job.eff
      BY <2>2 DEF JournalCompleted, TypeOK, Job
    <3> QED BY <2>1, <3>1 DEF QueueInv, QueuedOK
  <2>3. ASSUME JournalFailed \/ EndJob PROVE job'.at = "js"
    <3>1. CASE JournalFailed
      BY <3>1 DEF JournalFailed, TypeOK, Job
    <3>2. CASE EndJob
      BY <3>2 DEF EndJob, NoJob
    <3> QED BY <2>3, <3>1, <3>2
  <2>4. CASE JournalFailed \/ EndJob
    BY <2>1, <2>3, <2>4 DEF QueueInv, QueuedOK
  <2> QED BY <1>9, <2>2, <2>4
<1>10. ASSUME NEW e \in Effects, SettleCompleted(e) \/ SettleFailed(e)
       PROVE  QueueInv'
  <2>1. /\ queue' = queue /\ cell' = cell /\ owner' = owner
        /\ job.at \in {"begin", "journaled"} /\ e \in job.eff
        /\ \A f \in Effects : f # e => hostState'[f] = hostState[f]
    BY <1>10 DEF SettleCompleted, SettleFailed, Record, submitVars, TypeOK
  <2>2. job.eff = {e}
    BY <2>1 DEF RunningInv
  <2>3. job'.at \in {"js", "failed"}
    BY <1>10 DEF SettleCompleted, SettleFailed, TypeOK, Job
  <2>4. \A i \in 1..Len(queue) : QueuedOK(queue[i])'
    BY <2>1, <2>2 DEF QueueInv, QueuedOK
  <2> QED BY <2>1, <2>3, <2>4 DEF QueueInv
<1> QED
  BY <1>1, <1>2, <1>3, <1>4, <1>5, <1>6, <1>7, <1>8, <1>9, <1>10, LoopOrFrame
     DEF LoopAction
\* How far a host call is keeps agreeing with its summary and its fact.
LEMMA EffectStep ==
    TypeOK /\ PcInv /\ JobInv /\ EffectInv /\ [Next]_vars => EffectInv'
<1> SUFFICES ASSUME TypeOK, PcInv, JobInv, EffectInv, [Next]_vars
             PROVE  EffectInv'
  OBVIOUS
<1> USE SettleAssumption DEF JobInv
<1>1. CASE UNCHANGED <<cell, job, queue, hostState, owner, charged, status, fact>>
  BY <1>1 DEF EffectInv, CompletedIsDurable
<1>2. CASE Rebuild
  BY <1>2 DEF Rebuild, RunningInv, NoJob, EffectInv, CompletedIsDurable, TypeOK,
              InFlight
<1>3. CASE BeginCell
  BY <1>3 DEF BeginCell, EffectInv, CompletedIsDurable, TypeOK, effectVars
<1>4. CASE PostJob
  BY <1>4 DEF PostJob, PostBarrier, PostIndex, EffectInv, CompletedIsDurable, effectVars
<1>5. CASE TakeJob
  <2>1. Head(queue) = queue[1] /\ 1 \in 1..Len(queue)
    BY <1>5 DEF TakeJob, TypeOK
  <2>2. QueuedOK(queue[1])
    BY <2>1 DEF QueueInv
  <2>3. UNCHANGED <<cell, hostState, owner, charged, status, fact>>
    BY <1>5 DEF TakeJob, effectVars
  <2>4. CASE job' = job
    BY <2>3, <2>4 DEF EffectInv, CompletedIsDurable
  <2>5. CASE job' = queue[1] /\ queue[1].kind # "barrier"
    <3>1. job'.at \in {"js", "begin"}
      BY <2>2, <2>5 DEF QueuedOK
    <3>2. \A e \in Effects : e \in job'.eff /\ job'.at = "begin" =>
             hostState[e] = "posted"
      BY <2>2, <2>5 DEF QueuedOK
    <3> QED BY <2>3, <3>1, <3>2 DEF EffectInv, CompletedIsDurable
  <2> QED BY <1>5, <2>1, <2>4, <2>5 DEF TakeJob
<1>6. ASSUME NEW e \in Effects, StartAsync(e) \/ CallSync(e)
      PROVE  EffectInv'
  <2>1. /\ hostState[e] = "unused" /\ hostState'[e] \in {"invoking", "sync"}
        /\ cell' = cell /\ status' = status /\ fact' = fact
        /\ charged'[e] = live /\ owner'[e] = job.owner
    <3> USE DEF TypeOK, submitVars
    <3>1. CASE StartAsync(e)
      BY <3>1 DEF StartAsync
    <3>2. CASE CallSync(e)
      BY <3>2 DEF CallSync
    <3> QED BY <1>6, <3>1, <3>2
  <2>2. \A f \in Effects : f # e => /\ hostState'[f] = hostState[f]
                                   /\ owner'[f] = owner[f]
                                   /\ charged'[f] = charged[f]
    <3> USE DEF TypeOK
    <3>1. CASE StartAsync(e)
      BY <3>1 DEF StartAsync
    <3>2. CASE CallSync(e)
      BY <3>2 DEF CallSync
    <3> QED BY <1>6, <3>1, <3>2
  <2>3. live \in 1..cell /\ job.owner \in 1..cell /\ job.at = "js"
    <3>1. RunningJS /\ live # 0
      BY <1>6 DEF StartAsync, CallSync
    <3>2. live = cell /\ cell \in Nat
      BY <3>1 DEF PcInv, TypeOK
    <3> QED BY <3>1, <3>2 DEF RunningJS, RunningInv
  <2>4. \/ job' = job
        \/ job'.eff = {e} /\ job'.at = "begin" /\ hostState'[e] = "sync"
    <3>1. CASE StartAsync(e)
      BY <3>1 DEF StartAsync
    <3>2. CASE CallSync(e)
      BY <3>2 DEF CallSync, TypeOK, Job
    <3> QED BY <1>6, <3>1, <3>2
  <2> QED BY <2>1, <2>2, <2>3, <2>4 DEF EffectInv, CompletedIsDurable
<1>7. ASSUME NEW e \in Effects, NEW ok \in BOOLEAN, HostReturns(e, ok)
      PROVE  EffectInv'
  BY <1>7 DEF HostReturns, EffectInv, CompletedIsDurable, TypeOK, submitVars
<1>8. CASE JournalCompleted
  <2>1. job'.at = "journaled" /\ job'.eff = job.eff /\ job.at = "begin"
    BY <1>8 DEF JournalCompleted, TypeOK, Job
  <2>2. /\ UNCHANGED <<cell, hostState, owner, charged, status>>
        /\ \A e \in Effects :
              fact'[e] = IF e \in job.eff THEN "completed" ELSE fact[e]
    BY <1>8 DEF JournalCompleted, submitVars
  <2> QED BY <2>1, <2>2 DEF EffectInv, CompletedIsDurable
<1>9. ASSUME NEW e \in Effects, SettleCompleted(e) \/ SettleFailed(e)
      PROVE  EffectInv'
  <2>1. job.eff = {e} /\ job.at \in {"begin", "journaled"}
    BY <1>9 DEF SettleCompleted, SettleFailed, RunningInv
  <2>2. /\ UNCHANGED <<cell, owner, charged, fact>>
        /\ hostState'[e] = "settled"
        /\ \A f \in Effects : f # e => hostState'[f] = hostState[f]
        /\ \A f \in Effects : f # e => status'[f] = status[f]
    BY <1>9 DEF SettleCompleted, SettleFailed, Record, TypeOK, submitVars
  <2>3. hostState[e] \in {"posted", "sync"} /\ status[e] = "pending"
    BY <2>1 DEF EffectInv
  <2>4. CASE SettleCompleted(e)
    <3>1. job'.at = "js" /\ fact[e] = "completed"
      BY <2>1, <2>4 DEF SettleCompleted, EffectInv, TypeOK, Job
    <3> QED BY <2>2, <2>3, <3>1 DEF EffectInv, CompletedIsDurable
  <2>5. CASE SettleFailed(e)
    <3>1. job'.at = "failed" /\ job'.eff = {e}
      BY <2>1, <2>5 DEF SettleFailed, TypeOK, Job
    <3>2. status'[e] \in {"pending", "failed"}
      BY <2>3, <2>5 DEF SettleFailed, Record, TypeOK
    <3> QED BY <2>2, <2>3, <3>1, <3>2 DEF EffectInv, CompletedIsDurable
  <2> QED BY <1>9, <2>4, <2>5
<1>10. CASE JournalFailed
  <2>1. job'.at = "js" /\ job.at = "failed"
    BY <1>10 DEF JournalFailed, TypeOK, Job
  <2>2. /\ UNCHANGED <<cell, hostState, owner, charged, status>>
        /\ \A e \in Effects : e \notin job.eff => fact'[e] = fact[e]
    BY <1>10 DEF JournalFailed, submitVars
  <2> QED BY <2>1, <2>2 DEF EffectInv, CompletedIsDurable
<1>11. CASE EndJob
  BY <1>11 DEF EndJob, EffectInv, CompletedIsDurable, submitVars, effectVars, NoJob
<1> QED
  BY <1>1, <1>2, <1>3, <1>4, <1>5, <1>6, <1>7, <1>8, <1>9, <1>10, <1>11,
     LoopOrFrame DEF LoopAction

\* A waiter that takes the channel finds it closed when nothing is pending.
LEMMA WaitStep ==
    BaseInv /\ [Next]_vars => WaitInv'
<1> SUFFICES ASSUME BaseInv, [Next]_vars, pc' = "blocked"
             PROVE  /\ asyncSettled' \in {"open", "closed"}
                    /\ asyncEffects'[cell'] = {} => asyncSettled' = "closed"
  BY DEF WaitInv
<1> USE DEF BaseInv
<1>1. CASE WaitPending
  BY <1>1 DEF WaitPending, TypeOK
<1>2. CASE \E e \in Effects : StartAsync(e) \/ CallSync(e)
  <2>1. PICK e \in Effects : StartAsync(e) \/ CallSync(e)
    BY <1>2
  <2>2. /\ pc = "blocked" /\ cell' = cell /\ cell \in Cells
        /\ asyncSettled' = asyncSettled
    BY <2>1 DEF StartAsync, CallSync, submitVars, PcInv
  <2>3. asyncEffects[cell] \subseteq asyncEffects'[cell]
    <3>1. CASE StartAsync(e)
      BY <2>2, <3>1 DEF StartAsync, TypeOK
    <3>2. CASE CallSync(e)
      BY <3>2 DEF CallSync
    <3> QED BY <2>1, <3>1, <3>2
  <2> QED BY <2>2, <2>3 DEF WaitInv
<1>3. CASE \E e \in Effects : SettleCompleted(e) \/ SettleFailed(e)
  <2>1. PICK e \in Effects : SettleCompleted(e) \/ SettleFailed(e)
    BY <1>3
  <2>2. PICK s \in {"completed", "failed"} : Record(e, s)
    BY <2>1 DEF SettleCompleted, SettleFailed
  <2>3. pc = "blocked" /\ cell' = cell /\ cell \in Cells
    BY <2>1 DEF SettleCompleted, SettleFailed, submitVars, PcInv
  <2>4. charged[e] \in Cells
    BY <2>1 DEF SettleCompleted, SettleFailed, JobInv, RunningInv
  <2>5. CASE asyncEffects'[cell] = asyncEffects[cell]
    BY <2>2, <2>3, <2>5 DEF Record, WaitInv
  <2>6. CASE asyncEffects'[cell] # asyncEffects[cell]
    <3>1. e \in effects[charged[e]]
      BY <2>2, <2>6 DEF Record
    <3>2. asyncEffects' = [asyncEffects EXCEPT ![charged[e]] = @ \ {e}]
      BY <2>2, <3>1 DEF Record
    <3>3. /\ charged[e] = cell /\ e \in asyncEffects[cell]
          /\ asyncEffects'[cell] = asyncEffects[cell] \ {e}
      BY <2>3, <2>4, <2>6, <3>2 DEF TypeOK
    <3> QED BY <2>2, <2>3, <3>1, <3>3 DEF Record, WaitInv
  <2> QED BY <2>3, <2>5, <2>6
<1>4. CASE UNCHANGED <<pc, cell, asyncEffects, asyncSettled>>
  BY <1>4 DEF WaitInv
<1>5. \/ WaitPending \/ UNCHANGED <<pc, cell, asyncEffects, asyncSettled>>
      \/ (\E e \in Effects : StartAsync(e) \/ CallSync(e))
      \/ (\E e \in Effects : SettleCompleted(e) \/ SettleFailed(e))
  <2> USE DEF submitVars, accVars
  <2>1. CASE SubmitStep
    BY <2>1 DEF SubmitStep, Submit, Refuse, Rebuild, BeginCell, EvalReturns, Woken,
       PostBarrier, PostIndex, FlushReturns, Recheck, ReadUnhandled, Drain,
       AppendCommit, IndexReturns, RecordFailure,
       EndCell
  <2>2. CASE Timeout \/ TakeJob \/ EndJob \/ HostStep
    BY <2>2 DEF Timeout, TakeJob, EndJob, HostStep, HostReturns
  <2>3. CASE JSStep
    BY <2>3 DEF JSStep, Deliver, TrackRejection
  <2>4. CASE Settling
    BY <2>4 DEF Settling, JournalCompleted, JournalFailed
  <2>5. CASE Done \/ UNCHANGED vars
    BY <2>5 DEF Done, vars
  <2> QED BY <2>1, <2>2, <2>3, <2>4, <2>5 DEF Next
<1> QED BY <1>1, <1>2, <1>3, <1>4, <1>5

\* Nothing of a cell that is gone comes back: code of a cell only runs because
\* of a job or a host call of the same cell.
LEMMA GoneStays ==
    ASSUME BaseInv, [Next]_vars, NEW c \in Cells, c <= cell, Gone(c),
           ~ PostJob \/ c # cell
    PROVE  Gone(c)'
<1> USE SettleAssumption DEF BaseInv
<1>0. queue \in Seq(Job) /\ Len(queue) \in Nat /\ c # 0 /\ c \in Nat /\ cell \in Nat
  BY DEF TypeOK, Cells
<1>1. CASE UNCHANGED <<cell, job, queue, hostState, owner, charged, status, fact>>
  BY <1>1 DEF Gone
<1>2. CASE Rebuild
  BY <1>2 DEF Rebuild, Gone, TypeOK, InFlight
<1>3. CASE BeginCell
  <2>1. cell + 1 \in Cells /\ cell + 1 \in 0..NumCells
    BY <1>3 DEF BeginCell, PcInv, TypeOK, Cells
  <2>2. RunJob(cell + 1) \in Job /\ RunJob(cell + 1).owner = cell + 1
    BY <2>1 DEF RunJob, NoJob, Job
  <2>3. /\ Len(queue') = Len(queue) + 1
        /\ \A i \in 1..Len(queue) : queue'[i] = queue[i]
        /\ queue'[Len(queue) + 1].owner = cell + 1
    BY <1>0, <1>3, <2>2, AppendJob DEF BeginCell
  <2> QED BY <1>0, <1>3, <2>3 DEF BeginCell, Gone, effectVars
<1>4. CASE PostJob
  <2>1. cell \in 0..NumCells /\ c # cell
    BY <1>4 DEF TypeOK
  <2>2. BarrierJob(cell) \in Job /\ BarrierJob(cell).owner = cell
    BY <2>1 DEF BarrierJob, NoJob, Job
  <2>3. /\ Len(queue') = Len(queue) + 1
        /\ \A i \in 1..Len(queue) : queue'[i] = queue[i]
        /\ queue'[Len(queue) + 1].owner = cell
    BY <1>0, <1>4, <2>2, AppendJob DEF PostJob, PostBarrier, PostIndex
  <2> QED BY <1>0, <1>4, <2>1, <2>3 DEF PostJob, PostBarrier, PostIndex, Gone, effectVars
<1>5. CASE TakeJob
  <2>1. /\ Head(queue) = queue[1] /\ 1 \in 1..Len(queue)
        /\ \A i \in 1..Len(queue') :
              queue'[i] = queue[i + 1] /\ i + 1 \in 1..Len(queue)
    BY <1>0, <1>5 DEF TakeJob
  <2>2. job' = job \/ job' = queue[1]
    BY <1>5, <2>1 DEF TakeJob
  <2>3. hostState' = hostState /\ owner' = owner
    BY <1>5 DEF TakeJob, effectVars
  <2> QED BY <2>1, <2>2, <2>3 DEF Gone
<1>6. ASSUME NEW e \in Effects, StartAsync(e) \/ CallSync(e)
      PROVE  Gone(c)'
  <2>1. /\ queue' = queue /\ owner'[e] = job.owner
        /\ \A f \in Effects : f # e => /\ hostState'[f] = hostState[f]
                                      /\ owner'[f] = owner[f]
    <3>1. DOMAIN hostState = Effects /\ owner \in [Effects -> 0..NumCells]
      BY DEF TypeOK
    <3>2. /\ queue' = queue /\ owner' = [owner EXCEPT ![e] = job.owner]
          /\ \/ hostState' = [hostState EXCEPT ![e] = "invoking"]
             \/ hostState' = [hostState EXCEPT ![e] = "sync"]
      BY <1>6 DEF StartAsync, CallSync
    <3> QED BY <3>1, <3>2
  <2>2. job'.owner = job.owner
    BY <1>6 DEF StartAsync, CallSync, TypeOK, Job
  <2> QED BY <2>1, <2>2 DEF Gone
<1>7. ASSUME NEW e \in Effects, NEW ok \in BOOLEAN, HostReturns(e, ok)
      PROVE  Gone(c)'
  <2>1. SettleJob(e, ok) \in Job /\ SettleJob(e, ok).owner = owner[e]
    BY DEF SettleJob, Job, TypeOK
  <2>2. /\ Len(queue') = Len(queue) + 1
        /\ \A i \in 1..Len(queue) : queue'[i] = queue[i]
        /\ queue'[Len(queue) + 1].owner = owner[e]
    BY <1>0, <1>7, <2>1, AppendJob DEF HostReturns
  <2>3. /\ job' = job /\ owner' = owner /\ hostState[e] \in InFlight
        /\ \A f \in Effects : f # e => hostState'[f] = hostState[f]
    BY <1>7 DEF HostReturns, TypeOK, InFlight
  <2> QED BY <1>0, <2>2, <2>3 DEF Gone
<1>8. CASE JournalCompleted \/ JournalFailed
  <2>1. job'.owner = job.owner
    BY <1>8 DEF JournalCompleted, JournalFailed, TypeOK, Job
  <2>2. queue' = queue /\ hostState' = hostState /\ owner' = owner
    BY <1>8 DEF JournalCompleted, JournalFailed
  <2> QED BY <2>1, <2>2 DEF Gone
<1>9. ASSUME NEW e \in Effects, SettleCompleted(e) \/ SettleFailed(e)
      PROVE  Gone(c)'
  <2>1. job'.owner = job.owner
    BY <1>9 DEF SettleCompleted, SettleFailed, TypeOK, Job
  <2>2. /\ queue' = queue /\ owner' = owner /\ hostState'[e] = "settled"
        /\ \A f \in Effects : f # e => hostState'[f] = hostState[f]
    BY <1>9 DEF SettleCompleted, SettleFailed, Record, TypeOK
  <2> QED BY <2>1, <2>2 DEF Gone, InFlight
<1>10. CASE EndJob
  BY <1>0, <1>10 DEF EndJob, Gone, NoJob, effectVars
<1> QED
  BY <1>1, <1>2, <1>3, <1>4, <1>5, <1>6, <1>7, <1>8, <1>9, <1>10,
     LoopOrFrame DEF LoopAction

\* Nothing of a failed cell outlives the rebuild that follows it.
LEMMA FailedStep ==
    BaseInv /\ [Next]_vars => FailedInv'
<1> SUFFICES ASSUME BaseInv, [Next]_vars PROVE FailedInv'
  OBVIOUS
<1> USE SettleAssumption DEF BaseInv
<1>1. cell \in Nat /\ \A c \in Cells : c \in Nat
  BY DEF TypeOK, Cells
<1>2. CASE BeginCell
  <2>1. /\ cell' = cell + 1 /\ pc' = "eval" /\ outcome' = outcome /\ ~dirty
    BY <1>2 DEF BeginCell
  <2>2. \A c \in Cells : outcome'[c] # "none" => c < cell' /\ c <= cell
    BY <1>1, <2>1 DEF FailedInv
  <2>3. \A c \in Cells : outcome'[c] = "failed" => Gone(c)
    BY <2>1 DEF FailedInv
  <2>4. ~ PostJob
    BY <1>2 DEF BeginCell, PostJob, PostBarrier, PostIndex
  <2>5. ASSUME NEW c \in Cells, outcome'[c] = "failed" PROVE Gone(c)'
    BY <2>2, <2>3, <2>4, <2>5, GoneStays
  <2> QED BY <1>1, <2>1, <2>2, <2>5 DEF FailedInv
<1>3. CASE Rebuild
  <2>1. \A c \in Cells : Gone(c)'
    BY <1>3 DEF Rebuild, Gone, JobInv, RunningInv, NoJob, InFlight, Cells
  <2> QED BY <1>3, <2>1 DEF Rebuild, FailedInv
<1>4. ASSUME ~BeginCell, ~Rebuild PROVE FailedInv'
  <2>1. /\ cell' = cell
        /\ dirty => dirty'
        /\ pc' = "failing" => dirty'
        /\ \/ /\ outcome' = outcome
              /\ pc \in Decided => pc' \in Decided
              /\ pc' \in {"index", "indexing"} => pc \in {"index", "indexing"}
           \/ RecordFailure
           \/ pc = "append" /\ pc' = "index" /\
              outcome' = [outcome EXCEPT ![cell] = "committed"]
    <3> USE <1>4 DEF submitVars, TypeOK, FailedInv, Decided
    <3>1. CASE SubmitStep
      <4>1. CASE Submit \/ Refuse \/ EvalReturns \/ WaitPending \/ Woken
        BY <4>1 DEF Submit, Refuse, EvalReturns, WaitPending, Woken
      <4>2. CASE PostJob \/ FlushReturns \/ Recheck \/ ReadUnhandled \/ Drain
        BY <4>2 DEF PostJob, PostBarrier, PostIndex, FlushReturns, Recheck,
           ReadUnhandled, Drain
      <4>3. CASE AppendCommit
        BY <4>3 DEF AppendCommit
      <4>4. CASE IndexReturns \/ RecordFailure \/ EndCell
        BY <4>4 DEF IndexReturns, RecordFailure, EndCell
      <4> QED BY <3>1, <4>1, <4>2, <4>3, <4>4 DEF SubmitStep, PostJob
    <3>2. CASE Timeout \/ TakeJob \/ EndJob \/ HostStep
      BY <3>2 DEF Timeout, TakeJob, EndJob, HostStep, HostReturns
    <3>3. CASE JSStep
      BY <3>3 DEF JSStep, StartAsync, CallSync, Deliver, TrackRejection
    <3>4. CASE Settling
      BY <3>4 DEF Settling, JournalCompleted, JournalFailed, SettleCompleted,
                  SettleFailed
    <3>5. CASE Done \/ UNCHANGED vars
      BY <3>5 DEF Done, vars
    <3> QED BY <3>1, <3>2, <3>3, <3>4, <3>5 DEF Next
  <2>2. RecordFailure => /\ dirty' /\ pc' = "end"
                         /\ outcome' = [outcome EXCEPT ![cell] = "failed"]
    BY DEF RecordFailure, FailedInv
  <2>3. \A c \in Cells : outcome'[c] # "none" =>
           c <= cell' /\ (c = cell' => pc' \in Decided)
    BY <1>1, <2>1, <2>2 DEF FailedInv, TypeOK, Decided
  <2>5. pc' \in {"index", "indexing"} => outcome'[cell'] = "committed"
    <3>1. pc \in {"append", "index", "indexing"} => cell \in Cells
      BY DEF PcInv
    <3> QED BY <2>1, <2>2, <3>1 DEF FailedInv, TypeOK
  <2>4. ASSUME NEW c \in Cells, outcome'[c] = "failed", c < cell' \/ ~dirty'
        PROVE  Gone(c)'
    <3>1. outcome[c] = "failed"
      BY <1>1, <2>1, <2>2, <2>4 DEF TypeOK
    <3>2. Gone(c) /\ c <= cell
      BY <2>1, <2>4, <3>1 DEF FailedInv
    <3>3. ~ PostJob \/ c # cell
      BY <3>1 DEF PostJob, PostBarrier, PostIndex, FailedInv, Decided
    <3> QED BY <3>2, <3>3, GoneStays
  <2> QED BY <2>1, <2>3, <2>4, <2>5 DEF FailedInv
<1> QED BY <1>2, <1>3, <1>4

\* BaseInv is an invariant of every program.
THEOREM BaseInvariant == Spec => []BaseInv
<1>1. Init => BaseInv
  BY InitBase
<1>2. BaseInv /\ [Next]_vars => BaseInv'
  BY TypeStep, RunningStep, QueueStep, EffectStep, WaitStep, FailedStep
     DEF BaseInv, JobInv
<1> QED BY <1>1, <1>2, PTL DEF Spec

\* Whatever the cells do and however the loop, the host goroutines and the
\* deadline interleave, every variable keeps its type.
THEOREM TypeInvariant == Spec => []TypeOK
BY BaseInvariant, PTL DEF BaseInv

\* waitPendingAsync never sleeps through the settlement of the last effect.
THEOREM WakeupInvariant == Spec => []NoLostWakeup
<1>1. BaseInv => NoLostWakeup
  BY DEF BaseInv, WaitInv, NoLostWakeup
<1> QED BY <1>1, BaseInvariant, PTL

\* A completed effect always has its fact in the store.
THEOREM DurableInvariant == Spec => []CompletedIsDurable
<1>1. BaseInv => CompletedIsDurable
  BY DEF BaseInv, EffectInv
<1> QED BY <1>1, BaseInvariant, PTL

\* Code of a failed cell never runs while a later cell is active.
THEOREM FailedCodeInvariant == Spec => []FailedCodeIsGone
<1>1. BaseInv => FailedCodeIsGone
  <2> SUFFICES ASSUME BaseInv, NEW c \in Cells, outcome[c] = "failed", live > c
               PROVE  Gone(c)
    BY DEF Gone, FailedCodeIsGone
  <2>1. live = cell
    BY SettleAssumption DEF BaseInv, PcInv, TypeOK, Cells
  <2> QED BY <2>1, SettleAssumption DEF BaseInv, FailedInv, TypeOK, Cells
<1> QED BY <1>1, BaseInvariant, PTL

-----------------------------------------------------------------------------
(* Cells that start no host call after their outcome is known.             *)

\* What BaseInv says of the types, in the form the steps below need it.
LEMMA BaseTypes ==
    ASSUME BaseInv
    PROVE  /\ cell \in Nat /\ queue \in Seq(Job) /\ Len(queue) \in Nat /\ job \in Job
           /\ hostState \in [Effects -> {"unused", "invoking", "posted", "sync",
                                         "settled", "lost"}]
           /\ owner \in [Effects -> 0..NumCells]
           /\ charged \in [Effects -> 0..NumCells]
           /\ result \in [Cells -> {"none", "ok", "error"}]
           /\ outcome \in [Cells -> {"none", "committed", "failed"}]
           /\ \A c \in Cells : c \in Nat /\ c # 0
BY SettleAssumption DEF BaseInv, TypeOK, Cells

\* While JavaScript runs, or settles, it is the running job that does it.
LEMMA RunningCell ==
    ASSUME BaseInv, CurrentInv, RunningJS
    PROVE  job.owner = cell /\ cell \in Cells /\ job.at = "js" /\ job.kind # "none"
BY BaseTypes, SettleAssumption
   DEF BaseInv, CurrentInv, RunningJS, JobInv, RunningInv, TypeOK, Cells

\* Nothing starts by itself: a quiet runtime stays quiet until the submit
\* goroutine posts a job.
LEMMA QuietStays ==
    ASSUME BaseInv, Quiet, [Next]_vars, ~BeginCell, ~PostJob
    PROVE  UNCHANGED <<cell, job, queue, hostState, owner, charged, result, flushed>>
<1>1. job = NoJob
  BY DEF Quiet, BaseInv, JobInv, RunningInv
<1>2. ~TakeJob /\ ~EndJob /\ ~JSStep /\ ~Settling
  BY <1>1 DEF Quiet, TakeJob, EndJob, JSStep, Settling, StartAsync, CallSync, Deliver,
     TrackRejection, RunningJS, NoJob, JournalCompleted, JournalFailed,
     SettleCompleted, SettleFailed
<1>3. ~HostStep
  BY DEF HostStep, HostReturns, Quiet, InFlight
<1>4. CASE Rebuild
  <2>1. /\ UNCHANGED <<cell, job, owner, charged, result, flushed>>
        /\ queue' = queue
    BY <1>4 DEF Rebuild, Quiet
  <2>2. hostState' = [e \in Effects |-> hostState[e]]
    BY <1>4 DEF Rebuild, Quiet
  <2>3. hostState' = hostState
    BY <2>2, BaseTypes
  <2> QED BY <2>1, <2>3
<1>5. CASE Submit \/ Refuse \/ EvalReturns \/ WaitPending \/ Woken
  BY <1>5 DEF Submit, Refuse, EvalReturns, WaitPending, Woken, effectVars
<1>6. CASE FlushReturns \/ Recheck \/ ReadUnhandled \/ Drain \/ AppendCommit
           \/ IndexReturns
  BY <1>6 DEF FlushReturns, Recheck, ReadUnhandled, Drain, AppendCommit, IndexReturns,
     effectVars
<1>7. CASE RecordFailure \/ EndCell \/ Timeout \/ Done \/ UNCHANGED vars
  BY <1>7 DEF RecordFailure, EndCell, Timeout, Done, vars, submitVars, effectVars
<1> QED BY <1>2, <1>3, <1>4, <1>5, <1>6, <1>7 DEF Next, SubmitStep, PostJob

\* The loop and the host calls leave the submit goroutine's state alone, but for
\* the barrier that reports back.
LEMMA LoopFrame ==
    ASSUME TakeJob \/ Settling \/ JSStep \/ EndJob \/ HostStep
    PROVE  UNCHANGED <<pc, cell, evalErr, settleErr, dirty, live, outcome, linked>>
<1> USE DEF submitVars
<1>1. CASE TakeJob \/ EndJob \/ HostStep
  BY <1>1 DEF TakeJob, EndJob, HostStep, HostReturns
<1>2. CASE Settling
  BY <1>2 DEF Settling, JournalCompleted, JournalFailed, SettleCompleted, SettleFailed
<1>3. CASE JSStep
  BY <1>3 DEF JSStep, StartAsync, CallSync, Deliver, TrackRejection
<1> QED BY <1>1, <1>2, <1>3

\* The steps of a settlement keep the running job's kind and owner.
LEMMA SettlingJob ==
    ASSUME BaseInv,
           JournalCompleted \/ JournalFailed \/
           (\E e \in Effects : SettleCompleted(e) \/ SettleFailed(e))
    PROVE  /\ job'.kind = job.kind /\ job'.owner = job.owner
           /\ job.at # "js" /\ job.kind # "none"
           /\ UNCHANGED <<queue, owner, charged, result, submitVars>>
<1>1. job.at # "js"
  BY DEF JournalCompleted, JournalFailed, SettleCompleted, SettleFailed
<1>2. job'.kind = job.kind /\ job'.owner = job.owner
  BY BaseTypes DEF JournalCompleted, JournalFailed, SettleCompleted, SettleFailed, Job
<1>3. job.kind # "none"
  BY <1>1 DEF BaseInv, JobInv, RunningInv, NoJob
<1>4. UNCHANGED <<queue, owner, charged, result, submitVars>>
  BY DEF JournalCompleted, JournalFailed, SettleCompleted, SettleFailed
<1> QED BY <1>1, <1>2, <1>3, <1>4

\* A settlement changes the state of the effect of its job only, to settled.
LEMMA SettlingHost ==
    ASSUME BaseInv, NEW e \in Effects, SettleCompleted(e) \/ SettleFailed(e)
    PROVE  /\ hostState'[e] = "settled" /\ job.eff = {e}
           /\ hostState[e] \in {"posted", "sync"}
           /\ \A f \in Effects : f # e => hostState'[f] = hostState[f]
<1>1. /\ job.at \in {"begin", "journaled"} /\ e \in job.eff
      /\ hostState' = [hostState EXCEPT ![e] = "settled"]
  BY DEF SettleCompleted, SettleFailed, Record
<1>2. job.eff = {e}
  BY <1>1 DEF BaseInv, JobInv, RunningInv
<1> QED BY <1>1, <1>2, BaseTypes DEF BaseInv, EffectInv

\* A call changes the state of its own effect only.
LEMMA StartedHost ==
    ASSUME BaseInv, CurrentInv, NEW e \in Effects, StartAsync(e) \/ CallSync(e)
    PROVE  /\ hostState[e] = "unused" /\ hostState'[e] \in {"invoking", "sync"}
           /\ owner'[e] = cell /\ charged'[e] = cell /\ cell \in Cells
           /\ job.owner = cell /\ job.at = "js" /\ job.kind # "none"
           /\ live = cell
           /\ UNCHANGED <<queue, result, submitVars, live, outcome, linked>>
           /\ \A f \in Effects : f # e => /\ hostState'[f] = hostState[f]
                                          /\ owner'[f] = owner[f]
                                          /\ charged'[f] = charged[f]
<1>1. RunningJS /\ live # 0 /\ hostState[e] = "unused"
  BY DEF StartAsync, CallSync
<1>2. live = cell
  BY <1>1 DEF BaseInv, PcInv
<1>3. /\ owner' = [owner EXCEPT ![e] = job.owner]
      /\ charged' = [charged EXCEPT ![e] = live]
      /\ \E s \in {"invoking", "sync"} : hostState' = [hostState EXCEPT ![e] = s]
  BY DEF StartAsync, CallSync
<1>4. UNCHANGED <<queue, result, submitVars, live, outcome, linked>>
  BY DEF StartAsync, CallSync
<1> QED BY <1>1, <1>2, <1>3, <1>4, BaseTypes, RunningCell

\* Taking a job moves the queue on by one.
LEMMA TakenQueue ==
    ASSUME BaseInv, TakeJob
    PROVE  /\ Head(queue) = queue[1] /\ 1 \in 1..Len(queue) /\ job.kind = "none"
           /\ Len(queue') = Len(queue) - 1
           /\ \A i \in 1..Len(queue') :
                 queue'[i] = queue[i + 1] /\ i + 1 \in 1..Len(queue) /\ i + 1 # 1
           /\ job' = job \/ (job' = queue[1] /\ queue[1].kind # "barrier")
           /\ UNCHANGED <<pc, cell, evalErr, settleErr, dirty, live, result, accVars,
                          effectVars, outcome, linked>>
<1>1. queue \in Seq(Job) /\ queue # <<>> /\ queue' = Tail(queue)
  BY BaseTypes DEF TakeJob
<1>2. /\ Head(queue) = queue[1] /\ 1 \in 1..Len(queue)
      /\ Len(queue') = Len(queue) - 1
      /\ \A i \in 1..Len(queue') :
            queue'[i] = queue[i + 1] /\ i + 1 \in 1..Len(queue) /\ i + 1 # 1
  BY <1>1
<1>3. job' = job \/ (job' = queue[1] /\ queue[1].kind # "barrier")
  BY <1>2 DEF TakeJob
<1> QED BY <1>2, <1>3 DEF TakeJob

\* Host calls are charged to the cell that makes them, and what runs or is under
\* way keeps belonging to the current cell.
LEMMA CurrentStep ==
    ASSUME BaseInv, CurrentInv, SyncLostInv, QuietInv, [Next]_vars
    PROVE  CurrentInv'
<1>0. /\ cell \in Nat /\ queue \in Seq(Job) /\ Len(queue) \in Nat
  BY BaseTypes
<1>1. CASE UNCHANGED <<cell, job, queue, hostState, owner, charged, status, fact>>
  BY <1>1 DEF CurrentInv, ChargedToOwner
<1>2. CASE Rebuild
  <2>1. /\ UNCHANGED <<cell, job, owner, charged>> /\ queue' = <<>>
        /\ \A e \in Effects : hostState'[e] \in InFlight \cup {"sync"} =>
              hostState[e] \in InFlight \cup {"sync"}
    BY <1>2, BaseTypes DEF Rebuild, InFlight
  <2> QED BY <2>1 DEF CurrentInv, ChargedToOwner
<1>3. CASE BeginCell
  <2>1. Quiet /\ cell + 1 \in 0..NumCells
    BY <1>0, <1>3, SettleAssumption DEF BeginCell, QuietInv, BaseInv, PcInv
  <2>2. RunJob(cell + 1) \in Job /\ RunJob(cell + 1).owner = cell + 1
    BY <2>1 DEF RunJob, NoJob, Job
  <2>3. /\ UNCHANGED <<job, hostState, owner, charged>> /\ cell' = cell + 1
        /\ queue' = <<RunJob(cell + 1)>>
    BY <1>3, <2>1 DEF BeginCell, effectVars, Quiet
  <2>4. \A i \in 1..Len(queue') : queue'[i].owner = cell'
    BY <2>2, <2>3
  <2> QED BY <2>1, <2>3, <2>4 DEF CurrentInv, Quiet, ChargedToOwner
<1>4. CASE PostJob
  <2>1. BarrierJob(cell) \in Job /\ BarrierJob(cell).owner = cell
    BY <1>0 DEF BarrierJob, NoJob, Job, BaseInv, TypeOK
  <2>2. UNCHANGED <<job, hostState, owner, charged, cell>>
    BY <1>4 DEF PostJob, PostBarrier, PostIndex, effectVars
  <2>3. /\ Len(queue') = Len(queue) + 1
        /\ \A i \in 1..Len(queue) : queue'[i] = queue[i]
        /\ queue'[Len(queue) + 1].owner = cell
    BY <1>0, <1>4, <2>1, AppendJob DEF PostJob, PostBarrier, PostIndex
  <2>4. \A i \in 1..Len(queue') : queue'[i].owner = cell'
    BY <1>0, <2>2, <2>3 DEF CurrentInv
  <2> QED BY <2>2, <2>4 DEF CurrentInv, ChargedToOwner
<1>5. CASE TakeJob
  <2>1. \A i \in 1..Len(queue') : queue'[i].owner = cell'
    BY <1>5, TakenQueue DEF CurrentInv
  <2>2. job'.kind # "none" => job'.owner = cell'
    BY <1>5, TakenQueue DEF CurrentInv
  <2>3. UNCHANGED <<hostState, owner, charged, cell>>
    BY <1>5, TakenQueue DEF effectVars
  <2> QED BY <2>1, <2>2, <2>3 DEF CurrentInv, ChargedToOwner
<1>6. ASSUME NEW e \in Effects, StartAsync(e) \/ CallSync(e)
      PROVE  CurrentInv'
  <2>1. job'.kind = job.kind /\ job'.owner = job.owner
    BY <1>6, BaseTypes DEF StartAsync, CallSync, Job
  <2>2. cell' = cell
    BY <1>6, StartedHost DEF submitVars
  <2> QED BY <1>6, <2>1, <2>2, StartedHost DEF CurrentInv, ChargedToOwner
<1>7. ASSUME NEW e \in Effects, NEW ok \in BOOLEAN, HostReturns(e, ok)
      PROVE  CurrentInv'
  <2>1. SettleJob(e, ok) \in Job /\ SettleJob(e, ok).owner = owner[e]
    BY BaseTypes DEF SettleJob, Job
  <2>2. /\ UNCHANGED <<job, owner, charged, cell>> /\ owner[e] = cell
        /\ \A f \in Effects : f # e => hostState'[f] = hostState[f]
    BY <1>7, BaseTypes DEF HostReturns, submitVars, CurrentInv, InFlight
  <2>3. /\ Len(queue') = Len(queue) + 1
        /\ \A i \in 1..Len(queue) : queue'[i] = queue[i]
        /\ queue'[Len(queue) + 1].owner = cell
    BY <1>0, <1>7, <2>1, <2>2, AppendJob DEF HostReturns
  <2>4. \A i \in 1..Len(queue') : queue'[i].owner = cell'
    BY <1>0, <2>2, <2>3 DEF CurrentInv
  <2> QED BY <2>2, <2>4 DEF CurrentInv, ChargedToOwner
<1>8. CASE JournalCompleted \/ JournalFailed
  <2>1. hostState' = hostState
    BY <1>8 DEF JournalCompleted, JournalFailed
  <2> QED BY <1>8, <2>1, SettlingJob DEF CurrentInv, ChargedToOwner, submitVars
<1>9. ASSUME NEW e \in Effects, SettleCompleted(e) \/ SettleFailed(e)
      PROVE  CurrentInv'
  <2>1. /\ job'.kind = job.kind /\ job'.owner = job.owner
        /\ UNCHANGED <<queue, owner, charged, cell>>
    BY <1>9, SettlingJob DEF submitVars
  <2>2. \A f \in Effects : hostState'[f] \in InFlight \cup {"sync"} =>
           hostState[f] \in InFlight \cup {"sync"}
    BY <1>9, SettlingHost DEF InFlight
  <2> QED BY <2>1, <2>2 DEF CurrentInv, ChargedToOwner
<1>10. CASE EndJob
  BY <1>10 DEF EndJob, NoJob, CurrentInv, ChargedToOwner, submitVars, effectVars
<1> QED
  BY <1>1, <1>2, <1>3, <1>4, <1>5, <1>6, <1>7, <1>8, <1>9, <1>10,
     LoopOrFrame DEF LoopAction

\* A synchronous call blocks the loop until it settles, and a call is lost only
\* with the runtime of a failed cell.
LEMMA SyncLostStep ==
    ASSUME StartAfterResult = FALSE, BaseInv, CurrentInv, SyncLostInv, QuietInv,
           CommittedInv, [Next]_vars
    PROVE  SyncLostInv'
<1>0. \A e \in Effects : hostState[e] = "lost" => owner[e] \in 1..cell /\ owner[e] \in Cells
  BY BaseTypes, SettleAssumption DEF BaseInv, EffectInv, TypeOK, Cells
<1>1. \A e \in Effects : hostState[e] = "lost" => outcome'[owner[e]] = "failed"
  <2>1. outcome' = outcome \/ pc \in {"append", "failing"}
    <3>1. CASE SubmitStep
      BY <3>1 DEF SubmitStep, Submit, Refuse, Rebuild, BeginCell, EvalReturns, Woken,
         WaitPending, PostBarrier, PostIndex, FlushReturns, Recheck, ReadUnhandled, Drain,
         AppendCommit, IndexReturns, RecordFailure, EndCell
    <3>2. CASE Timeout \/ Done \/ UNCHANGED vars
      BY <3>2 DEF Timeout, Done, vars
    <3> QED BY <3>1, <3>2, LoopFrame DEF Next
  <2>2. outcome' = outcome \/ \E o \in {"committed", "failed"} :
           outcome' = [outcome EXCEPT ![cell] = o]
    <3>1. CASE SubmitStep
      BY <3>1 DEF SubmitStep, Submit, Refuse, Rebuild, BeginCell, EvalReturns, Woken,
         WaitPending, PostBarrier, PostIndex, FlushReturns, Recheck, ReadUnhandled, Drain,
         AppendCommit, IndexReturns, RecordFailure, EndCell
    <3>2. CASE Timeout \/ Done \/ UNCHANGED vars
      BY <3>2 DEF Timeout, Done, vars
    <3> QED BY <3>1, <3>2, LoopFrame DEF Next
  <2>3. outcome' # outcome => outcome[cell] = "none"
    BY <2>1 DEF CommittedInv
  <2> QED BY <1>0, <2>2, <2>3, BaseTypes DEF SyncLostInv
<1>2. CASE UNCHANGED <<cell, job, queue, hostState, owner, charged, status, fact>>
  <2>1. \A e \in Effects : hostState[e] = "sync" => result'[cell] = "none"
    <3>1. result' = result \/ RunningJS
      <4>1. CASE SubmitStep
        BY <4>1 DEF SubmitStep, Submit, Refuse, Rebuild, BeginCell, EvalReturns, Woken,
           WaitPending, PostBarrier, PostIndex, FlushReturns, Recheck, ReadUnhandled,
           Drain,
           AppendCommit, IndexReturns, RecordFailure, EndCell
      <4>2. CASE Timeout \/ Done \/ UNCHANGED vars \/ TakeJob \/ EndJob \/ HostStep
        BY <4>2 DEF Timeout, Done, vars, TakeJob, EndJob, HostStep, HostReturns
      <4>3. CASE Settling
        BY <4>3 DEF Settling, JournalCompleted, JournalFailed, SettleCompleted,
           SettleFailed
      <4>4. CASE JSStep
        BY <4>4 DEF JSStep, StartAsync, CallSync, Deliver, TrackRejection
      <4> QED BY <4>1, <4>2, <4>3, <4>4 DEF Next
    <3> QED BY <3>1 DEF SyncLostInv, RunningJS
  <2> QED BY <1>1, <1>2, <2>1 DEF SyncLostInv
<1>3. CASE Rebuild
  <2>1. job = NoJob /\ UNCHANGED <<owner, outcome>>
    BY <1>3 DEF Rebuild, BaseInv, JobInv, RunningInv
  <2>2. \A e \in Effects : hostState[e] # "sync"
    BY <2>1 DEF SyncLostInv, NoJob
  <2>3. \A e \in Effects : /\ hostState'[e] # "sync"
                           /\ hostState'[e] = "lost" =>
                                 hostState[e] \in InFlight \cup {"lost"}
    BY <1>3, <2>2, BaseTypes DEF Rebuild, InFlight
  <2>4. \A e \in Effects : hostState[e] \in InFlight => owner[e] = cell
    BY DEF CurrentInv
  <2>5. \A e \in Effects : hostState[e] \in InFlight => outcome[cell] = "failed"
    <3>1. outcome[cell] \in {"committed", "failed"} /\ pc = "prepare"
      BY <1>3, BaseTypes DEF Rebuild, CommittedInv
    <3>2. outcome[cell] = "committed" => Quiet
      BY <3>1 DEF QuietInv
    <3> QED BY <3>1, <3>2 DEF Quiet
  <2> QED BY <2>1, <2>3, <2>4, <2>5 DEF SyncLostInv
<1>4. CASE BeginCell
  <2>1. Quiet
    BY <1>4 DEF BeginCell, QuietInv
  <2>2. UNCHANGED <<hostState, owner, outcome>>
    BY <1>4 DEF BeginCell, effectVars
  <2> QED BY <2>1, <2>2 DEF SyncLostInv, Quiet
<1>5. CASE PostJob
  BY <1>5 DEF PostJob, PostBarrier, PostIndex, SyncLostInv, effectVars
<1>6. CASE TakeJob
  <2>1. \A e \in Effects : hostState[e] # "sync"
    BY <1>6 DEF TakeJob, BaseInv, JobInv, RunningInv, SyncLostInv, NoJob
  <2> QED BY <1>6, <2>1 DEF TakeJob, SyncLostInv, effectVars
<1>7. ASSUME NEW e \in Effects, StartAsync(e) \/ CallSync(e)
      PROVE  SyncLostInv'
  <2>1. \A f \in Effects : hostState[f] # "sync"
    BY <1>7, StartedHost DEF SyncLostInv
  <2>2. result[cell] = "none"
    BY <1>7, StartedHost DEF StartAsync, CallSync, MayStart
  <2>3. hostState'[e] = "sync" => job'.at = "begin" /\ job'.eff = {e}
    <3>1. CASE StartAsync(e)
      BY <3>1, BaseTypes DEF StartAsync
    <3>2. CASE CallSync(e)
      BY <3>2, BaseTypes DEF CallSync, Job
    <3> QED BY <1>7, <3>1, <3>2
  <2>4. \A f \in Effects : hostState'[f] = "sync" => f = e
    BY <1>7, <2>1, StartedHost
  <2>5. cell' = cell /\ result' = result /\ outcome' = outcome
    BY <1>7, StartedHost DEF submitVars
  <2>6. \A f \in Effects : hostState'[f] = "lost" =>
           hostState[f] = "lost" /\ owner'[f] = owner[f]
    BY <1>7, StartedHost
  <2> QED BY <2>2, <2>3, <2>4, <2>5, <2>6 DEF SyncLostInv
<1>8. ASSUME NEW e \in Effects, NEW ok \in BOOLEAN, HostReturns(e, ok)
      PROVE  SyncLostInv'
  <2>1. /\ UNCHANGED <<job, owner, result, outcome, cell>>
        /\ hostState'[e] = "posted"
        /\ \A f \in Effects : f # e => hostState'[f] = hostState[f]
    BY <1>8, BaseTypes DEF HostReturns, submitVars
  <2> QED BY <2>1 DEF SyncLostInv
<1>9. CASE JournalCompleted
  <2>1. job'.at = "journaled" /\ job'.eff = job.eff
    BY <1>9, BaseTypes DEF JournalCompleted, Job
  <2>2. UNCHANGED <<hostState, owner, result, outcome, cell>>
    BY <1>9 DEF JournalCompleted, submitVars
  <2> QED BY <2>1, <2>2 DEF SyncLostInv
<1>10. CASE JournalFailed
  <2>1. \A f \in Effects : hostState[f] # "sync"
    BY <1>10 DEF JournalFailed, SyncLostInv, BaseInv, EffectInv
  <2>2. UNCHANGED <<hostState, owner, result, outcome, cell>>
    BY <1>10 DEF JournalFailed, submitVars
  <2> QED BY <2>1, <2>2 DEF SyncLostInv
<1>11. ASSUME NEW e \in Effects, SettleCompleted(e) \/ SettleFailed(e)
       PROVE  SyncLostInv'
  <2>1. \A f \in Effects : /\ hostState'[f] # "sync"
                           /\ hostState'[f] = "lost" => hostState[f] = "lost"
    BY <1>11, SettlingHost DEF SyncLostInv
  <2>2. owner' = owner
    BY <1>11, SettlingJob
  <2> QED BY <1>1, <2>1, <2>2 DEF SyncLostInv
<1>12. CASE EndJob
  <2>1. \A f \in Effects : hostState[f] # "sync"
    BY <1>12 DEF EndJob, RunningJS, SyncLostInv
  <2> QED BY <1>12, <2>1 DEF EndJob, SyncLostInv, effectVars
<1> QED
  BY <1>2, <1>3, <1>4, <1>5, <1>6, <1>7, <1>8, <1>9, <1>10, <1>11, <1>12,
     LoopOrFrame DEF LoopAction

\* Which steps change an outcome that was delivered, and the variables of the
\* submit goroutine that say how the evaluation went.
LEMMA ResultStep ==
    ASSUME BaseInv, CurrentInv, [Next]_vars
    PROVE  \/ result' = result
           \/ /\ RunningJS /\ result[cell] = "none" /\ cell \in Cells
              /\ \E v \in {"ok", "error"} : result' = [result EXCEPT ![cell] = v]
              /\ UNCHANGED <<submitVars, live, queue, job, accVars, effectVars,
                             outcome, linked>>
<1>1. CASE SubmitStep
  BY <1>1 DEF SubmitStep, Submit, Refuse, Rebuild, BeginCell, EvalReturns, Woken,
     WaitPending, PostBarrier, PostIndex, FlushReturns, Recheck, ReadUnhandled, Drain,
     AppendCommit, IndexReturns, RecordFailure, EndCell
<1>2. CASE Timeout \/ Done \/ UNCHANGED vars \/ TakeJob \/ EndJob \/ HostStep
  BY <1>2 DEF Timeout, Done, vars, TakeJob, EndJob, HostStep, HostReturns
<1>3. CASE Settling
  BY <1>3 DEF Settling, JournalCompleted, JournalFailed, SettleCompleted, SettleFailed
<1>4. ASSUME NEW e \in Effects, StartAsync(e) \/ CallSync(e) PROVE result' = result
  BY <1>4 DEF StartAsync, CallSync
<1>5. ASSUME NEW v \in {"ok", "error"}, Deliver(v)
      PROVE  /\ RunningJS /\ result[cell] = "none" /\ cell \in Cells
             /\ result' = [result EXCEPT ![cell] = v]
             /\ UNCHANGED <<submitVars, live, queue, job, accVars, effectVars,
                            outcome, linked>>
  BY <1>5, RunningCell DEF Deliver
<1>6. ASSUME NEW u \in BOOLEAN, TrackRejection(u) PROVE result' = result
  BY <1>6 DEF TrackRejection
<1> QED BY <1>1, <1>2, <1>3, <1>4, <1>5, <1>6 DEF Next, JSStep

\* Which steps change the flags of the submit goroutine.
LEMMA FlagStep ==
    ASSUME [Next]_vars, ~BeginCell
    PROVE  /\ UNCHANGED evalErr \/ pc = "eval"
           /\ \/ UNCHANGED settleErr
              \/ pc' = "drain" /\ pc \in {"blocked", "flush"} /\ settleErr' = TRUE
              \/ pc' = "drain" /\ pc = "unhandled"
           /\ UNCHANGED flushed \/ PostJob \/ TakeJob
           /\ pc = "flush" => pc' = "flush" \/ FlushReturns
           /\ pc = "indexing" => pc' = "indexing" \/ IndexReturns
<1>1. CASE Submit \/ Refuse \/ Rebuild \/ EvalReturns \/ WaitPending \/ Woken
  BY <1>1 DEF Submit, Refuse, Rebuild, EvalReturns, WaitPending, Woken
<1>2. CASE PostJob \/ FlushReturns \/ Recheck \/ ReadUnhandled \/ Drain
  BY <1>2 DEF PostJob, PostBarrier, PostIndex, FlushReturns, Recheck, ReadUnhandled, Drain
<1>3. CASE AppendCommit \/ IndexReturns \/ RecordFailure \/ EndCell
  BY <1>3 DEF AppendCommit, IndexReturns, RecordFailure, EndCell
<1>4. CASE Timeout \/ Done \/ UNCHANGED vars
  BY <1>4 DEF Timeout, Done, vars, submitVars
<1>5. CASE TakeJob
  BY <1>5 DEF TakeJob
<1>6. CASE Settling \/ JSStep \/ EndJob \/ HostStep
  <2>1. UNCHANGED submitVars
    BY <1>6 DEF Settling, JSStep, EndJob, HostStep, HostReturns, JournalCompleted,
       JournalFailed, SettleCompleted, SettleFailed, StartAsync, CallSync, Deliver,
       TrackRejection
  <2> QED BY <2>1 DEF submitVars
<1> QED BY <1>1, <1>2, <1>3, <1>4, <1>5, <1>6 DEF Next, SubmitStep, PostJob

\* Once something waits for a barrier the barrier is the last of its kind, and a
\* cell's program is posted to an idle loop.
LEMMA ProgramStep ==
    ASSUME BaseInv, CurrentInv, ProgramInv, QuietInv, CommittedInv, [Next]_vars
    PROVE  ProgramInv'
<1>0. cell \in Nat /\ queue \in Seq(Job) /\ Len(queue) \in Nat
  BY BaseTypes
<1>1. CASE BeginCell
  <2>1. Quiet /\ cell + 1 \in 0..NumCells /\ cell + 1 \in Cells
    BY <1>0, <1>1, SettleAssumption DEF BeginCell, QuietInv, BaseInv, PcInv, Cells
  <2>2. RunJob(cell + 1) \in Job /\ RunJob(cell + 1).kind = "run"
    BY <2>1 DEF RunJob, NoJob, Job
  <2>3. /\ UNCHANGED <<job, result>> /\ cell' = cell + 1
        /\ queue' = <<RunJob(cell + 1)>>
    BY <1>1, <2>1 DEF BeginCell, Quiet
  <2>4. \A i \in 1..Len(queue') : i = 1 /\ queue'[i].kind = "run"
    BY <2>2, <2>3
  <2>5. result'[cell'] = "none" /\ \A c \in Cells : c > cell' => result'[c] = "none"
    BY <1>0, <2>1, <2>3, BaseTypes DEF ProgramInv
  <2> QED BY <2>1, <2>3, <2>4, <2>5 DEF ProgramInv, Quiet
<1>2. ASSUME ~BeginCell PROVE ProgramInv'
  <2>1. cell' = cell
    <3>1. CASE LoopAction
      <4>1. CASE Rebuild \/ PostJob \/ TakeJob \/ EndJob
        BY <4>1 DEF Rebuild, PostJob, PostBarrier, PostIndex, TakeJob, EndJob, submitVars
      <4>2. CASE JournalCompleted \/ JournalFailed \/
                 (\E e \in Effects : SettleCompleted(e) \/ SettleFailed(e))
        BY <4>2, SettlingJob DEF submitVars
      <4>3. CASE \E e \in Effects : StartAsync(e) \/ CallSync(e)
        BY <4>3, StartedHost DEF submitVars
      <4>4. CASE \E e \in Effects, ok \in BOOLEAN : HostReturns(e, ok)
        BY <4>4 DEF HostReturns, submitVars
      <4> QED BY <1>2, <3>1, <4>1, <4>2, <4>3, <4>4 DEF LoopAction
    <3> QED BY <3>1, LoopOrFrame
  <2>2. \A c \in Cells : c > cell' => result'[c] = "none"
    BY <1>0, <2>1, ResultStep, BaseTypes DEF ProgramInv
  \* The program in the queue.
  <2>3. ASSUME NEW i \in 1..Len(queue'), queue'[i].kind = "run"
        PROVE  i = 1 /\ job'.kind = "none" /\ result'[cell'] = "none"
    <3>1. CASE TakeJob
      BY <2>3, <3>1, TakenQueue DEF ProgramInv
    <3>2. ASSUME ~TakeJob
          PROVE  i \in 1..Len(queue) /\ queue[i].kind = "run"
      <4>1. CASE Rebuild
        BY <2>3, <4>1 DEF Rebuild
      <4>2. CASE PostJob
        <5>1. BarrierJob(cell) \in Job /\ BarrierJob(cell).kind = "barrier"
          BY DEF BarrierJob, NoJob, Job, BaseInv, TypeOK
        <5> QED BY <1>0, <2>3, <4>2, <5>1, AppendJob DEF PostJob, PostBarrier, PostIndex
      <4>3. ASSUME NEW e \in Effects, NEW ok \in BOOLEAN, HostReturns(e, ok)
            PROVE  i \in 1..Len(queue) /\ queue[i].kind = "run"
        <5>1. SettleJob(e, ok) \in Job /\ SettleJob(e, ok).kind = "settle"
          BY BaseTypes DEF SettleJob, Job
        <5> QED BY <1>0, <2>3, <4>3, <5>1, AppendJob DEF HostReturns
      <4>4. ASSUME queue' = queue PROVE i \in 1..Len(queue) /\ queue[i].kind = "run"
        BY <2>3, <4>4
      <4>5. CASE JournalCompleted \/ JournalFailed \/ EndJob \/
                 (\E e \in Effects : SettleCompleted(e) \/ SettleFailed(e)) \/
                 (\E e \in Effects : StartAsync(e) \/ CallSync(e))
        <5>1. queue' = queue
          BY <4>5, SettlingJob, StartedHost DEF EndJob
        <5> QED BY <4>4, <5>1
      <4> QED BY <1>2, <3>2, <4>1, <4>2, <4>3, <4>4, <4>5, LoopOrFrame DEF LoopAction
    <3>3. ASSUME ~TakeJob PROVE job' = job /\ result' = result
      <4>1. job.kind = "none" /\ ~RunningJS /\ job = NoJob
        BY <3>2, <3>3 DEF ProgramInv, RunningJS, BaseInv, JobInv, RunningInv
      <4>2. result' = result
        BY <4>1, ResultStep
      <4>3. job' = job
        <5>1. ~EndJob /\ \A e \in Effects : ~StartAsync(e) /\ ~CallSync(e)
          BY <4>1 DEF EndJob, StartAsync, CallSync
        <5>2. ~JournalCompleted /\ ~JournalFailed /\
              \A e \in Effects : ~SettleCompleted(e) /\ ~SettleFailed(e)
          BY <4>1, SettlingJob
        <5> QED BY <1>2, <3>3, <5>1, <5>2, LoopOrFrame
                DEF LoopAction, Rebuild, PostJob, PostBarrier, PostIndex, HostReturns
      <4> QED BY <4>2, <4>3
    <3> QED BY <2>1, <3>1, <3>2, <3>3 DEF ProgramInv
  \* The barriers in the queue.
  <2>4. ASSUME NEW i \in 1..Len(queue'), queue'[i].kind = "barrier"
        PROVE  evalErr' \/ settleErr' \/ (pc' \in {"flush",
        "indexing"} /\ flushed' = FALSE)
    <3>1. CASE PostJob
      BY <3>1 DEF PostJob, PostBarrier, PostIndex
    <3>2. ASSUME ~PostJob
          PROVE  \E j \in 1..Len(queue) : queue[j].kind = "barrier"
      <4>1. CASE Rebuild
        BY <2>4, <4>1 DEF Rebuild
      <4>2. CASE TakeJob
        BY <2>4, <4>2, TakenQueue
      <4>3. ASSUME NEW e \in Effects, NEW ok \in BOOLEAN, HostReturns(e, ok)
            PROVE  i \in 1..Len(queue) /\ queue[i].kind = "barrier"
        <5>1. SettleJob(e, ok) \in Job /\ SettleJob(e, ok).kind = "settle"
          BY BaseTypes DEF SettleJob, Job
        <5> QED BY <1>0, <2>4, <4>3, <5>1, AppendJob DEF HostReturns
      <4>4. ASSUME queue' = queue PROVE i \in 1..Len(queue) /\ queue[i].kind = "barrier"
        BY <2>4, <4>4
      <4>5. CASE JournalCompleted \/ JournalFailed \/ EndJob \/
                 (\E e \in Effects : SettleCompleted(e) \/ SettleFailed(e)) \/
                 (\E e \in Effects : StartAsync(e) \/ CallSync(e))
        <5>1. queue' = queue
          BY <4>5, SettlingJob, StartedHost DEF EndJob
        <5> QED BY <4>4, <5>1
      <4> QED BY <1>2, <3>2, <4>1, <4>2, <4>3, <4>4, <4>5, LoopOrFrame DEF LoopAction
    <3>3. evalErr \in BOOLEAN /\ settleErr \in BOOLEAN /\ flushed \in BOOLEAN
      BY DEF BaseInv, TypeOK
    <3>4. CASE ~PostJob /\ evalErr
      BY <1>2, <3>4, FlagStep DEF CommittedInv
    <3>5. CASE ~PostJob /\ settleErr
      BY <1>2, <3>5, FlagStep DEF CommittedInv, BeforeDrain
    <3>6. CASE ~PostJob /\ ~evalErr /\ ~settleErr
      <4>1. pc \in {"flush", "indexing"} /\ flushed = FALSE
        BY <3>2, <3>6 DEF ProgramInv
      <4>2. queue = <<BarrierJob(cell)>>
        BY <3>6, <4>1 DEF QuietInv
      <4>3. ~TakeJob
        BY <1>0, <2>4, <4>2, TakenQueue
      <4>4. flushed' = FALSE
        BY <1>2, <3>6, <4>1, <4>3, FlagStep
      <4> QED BY <1>2, <4>1, <4>4, FlagStep DEF FlushReturns, IndexReturns
    <3> QED BY <3>1, <3>4, <3>5, <3>6
  <2> QED BY <2>2, <2>3, <2>4 DEF ProgramInv
<1> QED BY <1>1, <1>2

\* The accumulator keeps knowing every host call of the cell until it is drained.
LEMMA TrackedStep ==
    ASSUME BaseInv, CurrentInv, TrackedInv, QuietInv, [Next]_vars
    PROVE  TrackedInv'
<1> SUFFICES ASSUME pc' \in BeforeDrain
             PROVE  /\ dirty' = FALSE
                    /\ \A e \in Effects : owner'[e] = cell' => e \in effects'[cell']
                    /\ \A e \in Effects : hostState'[e] \in InFlight =>
                          e \in asyncEffects'[cell']
  BY DEF TrackedInv
<1>0. /\ cell \in Nat /\ dirty \in BOOLEAN
      /\ effects \in [Cells -> SUBSET Effects]
      /\ asyncEffects \in [Cells -> SUBSET Effects]
  BY BaseTypes DEF BaseInv, TypeOK
<1>1. CASE BeginCell
  <2>1. Quiet /\ dirty' = FALSE
    BY <1>0, <1>1 DEF BeginCell, QuietInv
  <2>2. UNCHANGED <<hostState, owner>> /\ cell' = cell + 1
    BY <1>1 DEF BeginCell, effectVars
  <2>3. \A e \in Effects : owner[e] # cell + 1
    BY <1>0 DEF BaseInv, EffectInv
  <2> QED BY <2>1, <2>2, <2>3 DEF Quiet
<1>2. CASE Submit \/ Refuse \/ Rebuild \/ Drain \/ AppendCommit \/ PostIndex \/ IndexReturns
           \/ RecordFailure \/ EndCell
  BY <1>2 DEF Submit, Refuse, Rebuild, Drain, AppendCommit, PostIndex, IndexReturns,
     RecordFailure, EndCell,
     BeforeDrain
<1>3. CASE EvalReturns \/ WaitPending \/ Woken \/ PostBarrier \/ FlushReturns \/ Recheck
           \/ ReadUnhandled \/ Timeout \/ Done \/ UNCHANGED vars
  <2>1. pc \in BeforeDrain
    BY <1>3 DEF EvalReturns, WaitPending, Woken, PostBarrier, FlushReturns, Recheck,
       ReadUnhandled, Timeout, Done, vars, submitVars, BeforeDrain
  <2>2. UNCHANGED <<cell, dirty, owner, hostState, effects, asyncEffects>>
    <3>1. CASE EvalReturns \/ WaitPending \/ Woken \/ PostBarrier \/ FlushReturns
      BY <3>1 DEF EvalReturns, WaitPending, Woken, PostBarrier, FlushReturns, accVars,
         effectVars
    <3>2. CASE Recheck \/ ReadUnhandled \/ Timeout \/ Done \/ UNCHANGED vars
      BY <3>2 DEF Recheck, ReadUnhandled, Timeout, Done, vars, submitVars, accVars,
         effectVars
    <3> QED BY <1>3, <3>1, <3>2
  <2> QED BY <1>0, <2>1, <2>2 DEF TrackedInv
<1>4. ASSUME TakeJob \/ Settling \/ JSStep \/ EndJob \/ HostStep
      PROVE  pc \in BeforeDrain /\ dirty = FALSE /\ UNCHANGED <<pc, cell, dirty>>
  BY <1>0, <1>4, LoopFrame DEF TrackedInv
<1>5. CASE TakeJob \/ EndJob
  BY <1>4, <1>5 DEF TrackedInv, TakeJob, EndJob, accVars, effectVars
<1>6. ASSUME NEW e \in Effects, NEW ok \in BOOLEAN, HostReturns(e, ok), HostStep
      PROVE  \A f \in Effects : /\ owner'[f] = cell' => f \in effects'[cell']
                                /\ hostState'[f] \in InFlight => f \in asyncEffects'[cell']
  <2>1. /\ UNCHANGED <<owner, effects, asyncEffects>> /\ hostState[e] \in InFlight
        /\ \A f \in Effects : f # e => hostState'[f] = hostState[f]
    BY <1>6, BaseTypes DEF HostReturns, accVars, InFlight
  <2> QED BY <1>4, <1>6, <2>1 DEF TrackedInv
<1>7. CASE JournalCompleted \/ JournalFailed
  <2>1. Settling
    BY <1>7 DEF Settling
  <2> QED BY <1>4, <1>7, <2>1 DEF JournalCompleted, JournalFailed, accVars, TrackedInv
<1>8. ASSUME NEW e \in Effects, SettleCompleted(e) \/ SettleFailed(e)
      PROVE  \A f \in Effects : /\ owner'[f] = cell' => f \in effects'[cell']
                                /\ hostState'[f] \in InFlight => f \in asyncEffects'[cell']
  <2>1. Settling
    BY <1>8 DEF Settling
  <2>2. PICK s \in {"completed", "failed"} : Record(e, s)
    BY <1>8 DEF SettleCompleted, SettleFailed
  <2>3. UNCHANGED <<owner, effects>>
    BY <1>8 DEF SettleCompleted, SettleFailed
  <2>4. \A c \in Cells, f \in Effects : f # e /\ f \in asyncEffects[c] =>
           f \in asyncEffects'[c]
    BY <1>0, <2>2 DEF Record
  <2>5. \A f \in Effects : hostState'[f] \in InFlight => f # e /\ hostState[f] \in InFlight
    BY <1>8, SettlingHost DEF InFlight
  <2>6. cell \in Cells
    BY <1>4, <2>1 DEF BaseInv, PcInv, BeforeDrain
  <2> QED BY <1>4, <2>1, <2>3, <2>4, <2>5, <2>6 DEF TrackedInv
<1>9. ASSUME NEW e \in Effects, StartAsync(e) \/ CallSync(e)
      PROVE  \A f \in Effects : /\ owner'[f] = cell' => f \in effects'[cell']
                                /\ hostState'[f] \in InFlight => f \in asyncEffects'[cell']
  <2>1. JSStep
    BY <1>9 DEF JSStep
  <2>2. effects' = [effects EXCEPT ![live] = @ \cup {e}]
    BY <1>9 DEF StartAsync, CallSync
  <2>3. \/ asyncEffects' = [asyncEffects EXCEPT ![live] = @ \cup {e}]
        \/ asyncEffects' = asyncEffects /\ hostState'[e] = "sync"
    BY <1>9, BaseTypes DEF StartAsync, CallSync
  <2> QED BY <1>0, <1>4, <1>9, <2>1, <2>2, <2>3, StartedHost DEF TrackedInv, InFlight
<1>10. CASE (\E v \in {"ok",
"error"} : Deliver(v)) \/ (\E u \in BOOLEAN : TrackRejection(u))
  <2>1. JSStep
    BY <1>10 DEF JSStep
  <2> QED BY <1>4, <1>10, <2>1 DEF Deliver, TrackRejection, accVars, effectVars,
     TrackedInv
<1>11. \/ TakeJob \/ Settling \/ JSStep \/ EndJob \/ HostStep => dirty' = FALSE
  BY <1>4
<1>12. HostStep => \A f \in Effects :
          /\ owner'[f] = cell' => f \in effects'[cell']
          /\ hostState'[f] \in InFlight => f \in asyncEffects'[cell']
  BY <1>6 DEF HostStep
<1>13. Settling => \A f \in Effects :
          /\ owner'[f] = cell' => f \in effects'[cell']
          /\ hostState'[f] \in InFlight => f \in asyncEffects'[cell']
  BY <1>7, <1>8 DEF Settling
<1>14. JSStep => \A f \in Effects :
          /\ owner'[f] = cell' => f \in effects'[cell']
          /\ hostState'[f] \in InFlight => f \in asyncEffects'[cell']
  BY <1>9, <1>10 DEF JSStep
<1> QED
  BY <1>1, <1>2, <1>3, <1>5, <1>11, <1>12, <1>13, <1>14 DEF Next, SubmitStep

\* Nothing is queued or under way when the accumulator is found empty after the
\* outcome came in.
LEMMA NothingPending ==
    ASSUME BaseInv, SyncLostInv, ProgramInv, TrackedInv, QuietInv, CommittedInv,
           pc = "wait", evalErr = FALSE, asyncEffects[cell] = {}
    PROVE  queue = <<>> /\ \A e \in Effects : hostState[e] \notin InFlight \cup {"sync"}
<1>1. result[cell] = "ok"
  BY DEF QuietInv, BeforeDrain
<1>2. \A e \in Effects : hostState[e] \notin InFlight \cup {"sync"}
  BY <1>1 DEF TrackedInv, SyncLostInv, BeforeDrain
<1>3. ASSUME NEW i \in 1..Len(queue) PROVE FALSE
  <2>1. QueuedOK(queue[i])
    BY DEF BaseInv, JobInv, QueueInv
  <2>2. settleErr = FALSE
    BY DEF CommittedInv, BeforeDrain, BaseInv, TypeOK
  <2> QED BY <1>1, <1>2, <2>1, <2>2 DEF QueuedOK, ProgramInv, InFlight
<1>4. queue = <<>>
  BY <1>3, BaseTypes, EmptySeq
<1> QED BY <1>2, <1>4

\* Code runs or host calls are started only before the outcome is known or while
\* the runtime is about to be replaced.
LEMMA NothingStarts ==
    ASSUME StartAfterResult = FALSE, BaseInv, CurrentInv, [Next]_vars,
           result[cell] = "ok",
           \A e \in Effects : hostState[e] \notin InFlight \cup {"sync"},
           TakeJob \/ Settling \/ JSStep \/ EndJob \/ HostStep
    PROVE  /\ hostState' = hostState /\ result' = result
           /\ queue' = queue \/ TakeJob
<1>1. ~HostStep
  BY DEF HostStep, HostReturns, InFlight
<1>2. \A e \in Effects : ~StartAsync(e) /\ ~CallSync(e)
  BY RunningCell DEF StartAsync, CallSync, MayStart
<1>3. \A e \in Effects : ~SettleCompleted(e) /\ ~SettleFailed(e)
  BY SettlingHost DEF InFlight
<1>4. hostState' = hostState /\ (queue' = queue \/ TakeJob)
  BY <1>1, <1>2, <1>3 DEF TakeJob, Settling, JSStep, EndJob, Deliver, TrackRejection,
     JournalCompleted, JournalFailed, effectVars
<1>5. result' = result
  BY ResultStep
<1> QED BY <1>4, <1>5

\* Quiet once the barrier has come back, and then until the next cell.
LEMMA QuietStep ==
    ASSUME StartAfterResult = FALSE, AwaitedInv, [Next]_vars PROVE QuietInv'
<1> USE DEF AwaitedInv
<1>0. /\ evalErr \in BOOLEAN /\ settleErr \in BOOLEAN /\ flushed \in BOOLEAN
      /\ dirty \in BOOLEAN /\ cell \in Nat /\ queue \in Seq(Job) /\ Len(queue) \in Nat
  BY BaseTypes DEF BaseInv, TypeOK
<1>1. CASE BeginCell
  BY <1>1 DEF BeginCell, QuietInv, BeforeDrain
<1>2. CASE EvalReturns
  <2>1. cell \in Cells /\ pc' = "wait" /\ UNCHANGED <<cell, result>>
    BY <1>2 DEF EvalReturns, BaseInv, PcInv
  <2>2. result[cell] \in {"none", "ok", "error"}
    BY <2>1, BaseTypes
  <2>3. evalErr' = FALSE => result'[cell'] = "ok"
    BY <1>2, <2>1, <2>2 DEF EvalReturns
  <2>4. evalErr' \in BOOLEAN
    BY <1>2 DEF EvalReturns
  <2> QED BY <2>1, <2>3, <2>4 DEF QuietInv
<1>3. CASE WaitPending
  <2>1. UNCHANGED <<cell, evalErr, queue, hostState, result>>
    BY <1>3 DEF WaitPending, effectVars
  <2>2. pc' = "post" => asyncEffects[cell] = {}
    BY <1>3 DEF WaitPending
  <2>3. pc = "wait" /\ pc' \in {"post", "blocked"}
    BY <1>3 DEF WaitPending
  <2>4. pc' = "post" /\ ~evalErr => queue = <<>> /\ 
            \A e \in Effects : hostState[e] \notin InFlight \cup {"sync"}
    BY <1>0, <2>2, <2>3, NothingPending
  <2> QED BY <2>1, <2>3, <2>4 DEF QuietInv, BeforeDrain
<1>4. CASE PostBarrier
  <2>1. UNCHANGED <<cell, evalErr, hostState, result>> /\ pc = "post" /\ pc' = "flush"
        /\ flushed' = FALSE /\ queue' = Append(queue, BarrierJob(cell))
    BY <1>4 DEF PostBarrier, effectVars
  <2>2. ~evalErr => queue' = <<BarrierJob(cell)>>
    BY <2>1 DEF QuietInv
  <2>3. BarrierJob(cell)' = BarrierJob(cell)
    BY <2>1 DEF BarrierJob
  <2> QED BY <2>1, <2>2, <2>3 DEF QuietInv, BeforeDrain
<1>8. CASE PostIndex
  <2>1. UNCHANGED <<cell, job, hostState>> /\ pc = "index" /\ pc' = "indexing"
        /\ flushed' = FALSE /\ queue' = Append(queue, BarrierJob(cell))
    BY <1>8 DEF PostIndex, effectVars
  <2>2. Quiet
    BY <2>1 DEF QuietInv, CommittedInv
  <2>3. queue' = <<BarrierJob(cell)>> /\ BarrierJob(cell)' = BarrierJob(cell)
    BY <2>1, <2>2 DEF Quiet, BarrierJob
  <2> QED BY <2>1, <2>2, <2>3 DEF QuietInv, BeforeDrain, Quiet
<1>5. CASE Rebuild
  <2>1. job = NoJob /\ pc' = "prepare" /\ job' = job /\ queue' = <<>>
    BY <1>5 DEF Rebuild, BaseInv, JobInv, RunningInv
  <2>2. \A e \in Effects : hostState'[e] \notin InFlight \cup {"sync"}
    BY <1>5, <2>1, BaseTypes DEF Rebuild, SyncLostInv, NoJob, InFlight
  <2>3. Quiet'
    BY <2>1, <2>2 DEF Quiet, NoJob
  <2> QED BY <2>1, <2>3 DEF QuietInv, BeforeDrain
<1>6. CASE Woken \/ FlushReturns \/ Recheck \/ ReadUnhandled \/ Drain \/ AppendCommit
           \/ IndexReturns \/ RecordFailure \/ EndCell \/ Submit \/ Refuse \/ Timeout
           \/ Done \/ UNCHANGED vars
  <2>1. UNCHANGED <<cell, evalErr, flushed, job, queue, hostState, result>>
    <3>1. CASE Woken \/ FlushReturns \/ Recheck \/ ReadUnhandled \/ Drain
      BY <3>1 DEF Woken, FlushReturns, Recheck, ReadUnhandled, Drain, effectVars
    <3>2. CASE AppendCommit \/ IndexReturns \/ RecordFailure \/ EndCell \/ Submit \/ Refuse
      BY <3>2 DEF AppendCommit, IndexReturns, RecordFailure, EndCell, Submit, Refuse,
         effectVars
    <3>3. CASE Timeout \/ Done \/ UNCHANGED vars
      BY <3>3 DEF Timeout, Done, vars, submitVars, effectVars
    <3> QED BY <1>6, <3>1, <3>2, <3>3
  <2>2. Quiet' <=> Quiet
    BY <2>1 DEF Quiet
  <2>3. BarrierJob(cell)' = BarrierJob(cell)
    BY <2>1 DEF BarrierJob
  <2>4. CASE Woken
    BY <2>1, <2>4 DEF Woken, QuietInv, BeforeDrain
  <2>5. CASE FlushReturns
    BY <1>0, <2>1, <2>2, <2>5 DEF FlushReturns, QuietInv, BeforeDrain
  <2>6. CASE Recheck \/ ReadUnhandled
    BY <1>0, <2>1, <2>2, <2>6 DEF Recheck, ReadUnhandled, QuietInv, BeforeDrain
  <2>7. CASE Drain
    BY <1>0, <2>1, <2>2, <2>7 DEF Drain, QuietInv, BeforeDrain
  <2>8. CASE AppendCommit
    BY <1>0, <2>1, <2>2, <2>8 DEF AppendCommit, QuietInv, CommittedInv, BeforeDrain
  <2>9. CASE RecordFailure
    <3>1. pc' = "end" /\ dirty' /\ outcome'[cell'] = "failed"
      BY <1>0, <2>1, <2>9, BaseTypes DEF RecordFailure, BaseInv, FailedInv, PcInv
    <3> QED BY <1>0, <3>1 DEF QuietInv, BeforeDrain
  <2>12. CASE IndexReturns
    BY <1>0, <2>1, <2>2, <2>12 DEF IndexReturns, QuietInv, BeforeDrain
  <2>10. CASE EndCell \/ Submit \/ Refuse
    BY <1>0, <2>1, <2>2, <2>10 DEF EndCell, Submit, Refuse, QuietInv, BeforeDrain
  <2>11. CASE Timeout \/ Done \/ UNCHANGED vars
    <3>1. UNCHANGED <<pc, settleErr, dirty, outcome>>
      BY <2>11 DEF Timeout, Done, vars, submitVars
    <3> QED BY <2>1, <2>2, <2>3, <3>1 DEF QuietInv
  <2> QED BY <1>6, <2>4, <2>5, <2>6, <2>7, <2>8, <2>9, <2>10, <2>11, <2>12
<1>7. CASE TakeJob \/ Settling \/ JSStep \/ EndJob \/ HostStep
  <2>1. UNCHANGED <<pc, cell, evalErr, settleErr, dirty, outcome>>
    BY <1>7, LoopFrame
  <2>2. ~BeginCell /\ ~PostJob
    BY <2>1 DEF BeginCell, PostJob, PostBarrier, PostIndex
  <2>3. Quiet => Quiet' /\ flushed' = flushed
    BY <2>2, QuietStays DEF Quiet
  <2>4. pc \in BeforeDrain /\ pc # "eval" /\ evalErr = FALSE => result'[cell'] = "ok"
    BY <1>0, <2>1, ResultStep DEF QuietInv
  <2>5. CASE pc = "post" /\ evalErr = FALSE
    <3>1. queue' = queue /\ hostState' = hostState
      BY <1>7, <2>5, NothingStarts DEF QuietInv, BeforeDrain, TakeJob
    <3> QED BY <2>1, <2>4, <2>5, <3>1 DEF QuietInv
  <2>6. CASE pc = "flush" /\ evalErr = FALSE /\ flushed = FALSE
    <3>1. /\ hostState' = hostState
          /\ queue' = queue \/ TakeJob
          /\ queue = <<BarrierJob(cell)>>
          /\ \A e \in Effects : hostState[e] \notin InFlight \cup {"sync"}
      BY <1>7, <2>6, NothingStarts DEF QuietInv, BeforeDrain
    <3>2. BarrierJob(cell)' = BarrierJob(cell) /\ BarrierJob(cell).kind = "barrier"
          /\ BarrierJob(cell).owner = cell
      BY <2>1 DEF BarrierJob, NoJob
    <3>3. CASE TakeJob
      <4>1. Head(queue) = BarrierJob(cell) /\ Tail(queue) = <<>>
        BY <3>1
      <4>2. flushed' = TRUE /\ job' = job /\ job.kind = "none" /\ queue' = <<>>
        BY <3>2, <3>3, <4>1 DEF TakeJob
      <4>3. job'.kind = "none" /\ queue' = <<>>
            /\ \A e \in Effects : hostState'[e] \notin InFlight \cup {"sync"}
        BY <3>1, <4>2
      <4>4. Quiet'
        BY <4>3 DEF Quiet
      <4> QED BY <2>1, <2>4, <2>6, <4>2, <4>4 DEF QuietInv
    <3>4. CASE ~TakeJob
      <4>1. flushed' = flushed
        BY <2>2, <3>4, FlagStep
      <4> QED BY <2>1, <2>4, <2>6, <3>1, <3>2, <3>4, <4>1 DEF QuietInv
    <3> QED BY <3>3, <3>4
  <2>8. CASE pc = "indexing" /\ flushed = FALSE
    <3>1. /\ job.kind = "none" /\ job = NoJob /\ queue = <<BarrierJob(cell)>>
          /\ \A e \in Effects : hostState[e] \notin InFlight \cup {"sync"}
      BY <2>8 DEF QuietInv, BaseInv, JobInv, RunningInv
    <3>2. TakeJob
      BY <1>7, <3>1 DEF Settling, JSStep, EndJob, HostStep, HostReturns, RunningJS, NoJob,
         JournalCompleted, JournalFailed, SettleCompleted, SettleFailed, StartAsync,
         CallSync, Deliver, TrackRejection, InFlight
    <3>3. BarrierJob(cell).kind = "barrier" /\ BarrierJob(cell).owner = cell
      BY DEF BarrierJob, NoJob
    <3>4. Head(queue) = BarrierJob(cell) /\ Tail(queue) = <<>>
      BY <3>1
    <3>5. flushed' = TRUE /\ job' = job /\ queue' = <<>> /\ hostState' = hostState
      BY <3>2, <3>3, <3>4 DEF TakeJob, effectVars
    <3>6. Quiet'
      BY <3>1, <3>5 DEF Quiet
    <3> QED BY <2>1, <2>8, <3>5, <3>6 DEF QuietInv, BeforeDrain
  <2>7. CASE ~(pc = "post" /\ evalErr = FALSE)
             /\ ~(pc = "flush" /\ evalErr = FALSE /\ flushed = FALSE)
             /\ ~(pc = "indexing" /\ flushed = FALSE)
    BY <1>0, <2>1, <2>3, <2>4, <2>7 DEF QuietInv
  <2> QED BY <2>5, <2>6, <2>7, <2>8
<1> QED
  BY <1>1, <1>2, <1>3, <1>4, <1>5, <1>6, <1>7, <1>8 DEF Next, SubmitStep

\* A cell that has been committed runs no more code: the loop has at most the
\* job that assigns $last.
LEMMA CommittedQuiet ==
    ASSUME AwaitedInv, cell \in Cells, outcome[cell] = "committed"
    PROVE  /\ job.kind = "none"
           /\ \A e \in Effects : hostState[e] \notin InFlight \cup {"sync"}
<1>1. pc \in Decided
  BY DEF AwaitedInv, BaseInv, FailedInv
<1>2. pc = "indexing" => flushed \in BOOLEAN
  BY DEF AwaitedInv, BaseInv, TypeOK
<1> QED BY <1>1, <1>2 DEF AwaitedInv, QuietInv, CommittedInv, Quiet, Decided

\* The effects of committed cells stay settled and linked.
LEMMA CommittedEffects ==
    ASSUME AwaitedInv, [Next]_vars, NEW c \in Cells, NEW e \in Effects,
           outcome'[c] = "committed", owner'[e] = c
    PROVE  hostState'[e] = "settled" /\ e \in linked'[c]
<1> USE DEF AwaitedInv
<1>1. CASE AppendCommit /\ c = cell
  <2>1. /\ pc = "append" /\ UNCHANGED <<owner, hostState, linked>>
    BY <1>1 DEF AppendCommit, effectVars
  <2>2. /\ Quiet /\ outcome[c] = "none" /\ e \in linked[c] /\ owner[e] = c
    BY <1>1, <2>1 DEF CommittedInv, QuietInv
  <2>3. hostState[e] \notin InFlight \cup {"sync"}
    BY <2>2 DEF Quiet
  <2>4. hostState[e] # "lost" /\ hostState[e] # "unused"
    BY <2>2, BaseTypes DEF SyncLostInv, BaseInv, EffectInv
  <2>5. hostState[e] = "settled"
    BY <2>3, <2>4, BaseTypes DEF InFlight
  <2> QED BY <2>1, <2>2, <2>5
<1>2. ASSUME ~(AppendCommit /\ c = cell) PROVE outcome[c] = "committed"
  <2>1. CASE SubmitStep
    BY <1>2, <2>1, BaseTypes DEF SubmitStep, Submit, Refuse, Rebuild, BeginCell,
       EvalReturns, Woken, WaitPending, PostBarrier, PostIndex, FlushReturns, Recheck,
       ReadUnhandled,
       Drain, AppendCommit, IndexReturns, RecordFailure, EndCell
  <2>2. CASE Timeout \/ Done \/ UNCHANGED vars
    BY <2>2 DEF Timeout, Done, vars
  <2> QED BY <2>1, <2>2, LoopFrame DEF Next
<1>3. CASE outcome[c] = "committed"
  <2>1. linked' = linked \/ (pc = "drain" /\ linked' = [linked EXCEPT ![cell] = effects[cell]])
    <3>1. CASE SubmitStep
      BY <3>1 DEF SubmitStep, Submit, Refuse, Rebuild, BeginCell, EvalReturns, Woken,
         WaitPending, PostBarrier, PostIndex, FlushReturns, Recheck, ReadUnhandled, Drain,
         AppendCommit, IndexReturns, RecordFailure, EndCell
    <3>2. CASE Timeout \/ Done \/ UNCHANGED vars
      BY <3>2 DEF Timeout, Done, vars
    <3> QED BY <3>1, <3>2, LoopFrame DEF Next
  <2>2. pc = "drain" => c # cell
    BY <1>3 DEF CommittedInv, BeforeDrain
  <2>3. linked'[c] = linked[c]
    BY <2>1, <2>2 DEF BaseInv, TypeOK
  <2>4. owner[e] = c
    <3>1. CASE owner'[e] = owner[e]
      BY <3>1
    <3>2. CASE StartAsync(e) \/ CallSync(e)
      <4>1. c = cell
        BY <3>2, StartedHost
      <4> QED BY <1>3, <3>2, <4>1, CommittedQuiet, StartedHost DEF Quiet
    <3>3. ASSUME NEW f \in Effects, StartAsync(f) \/ CallSync(f), f # e
          PROVE  owner'[e] = owner[e]
      BY <3>3, StartedHost
    <3>4. CASE JournalCompleted \/ JournalFailed \/
               (\E f \in Effects : SettleCompleted(f) \/ SettleFailed(f))
      BY <3>1, <3>4, SettlingJob
    <3>5. CASE Rebuild \/ BeginCell \/ PostJob \/ TakeJob \/ EndJob
               \/ (\E f \in Effects, ok \in BOOLEAN : HostReturns(f, ok))
      BY <3>1, <3>5 DEF Rebuild, BeginCell, PostJob, PostBarrier, PostIndex, TakeJob,
         EndJob, HostReturns,
         effectVars
    <3> QED BY <3>1, <3>2, <3>3, <3>4, <3>5, LoopOrFrame DEF LoopAction
  <2>5. hostState[e] = "settled" /\ e \in linked[c]
    BY <1>3, <2>4 DEF CommittedInv
  <2>6. hostState'[e] = "settled"
    <3>1. CASE \E f \in Effects : StartAsync(f) \/ CallSync(f)
      BY <2>5, <3>1, StartedHost
    <3>2. CASE \E f \in Effects : SettleCompleted(f) \/ SettleFailed(f)
      BY <2>5, <3>2, SettlingHost
    <3>3. CASE Rebuild \/ (\E f \in Effects, ok \in BOOLEAN : HostReturns(f, ok))
      BY <2>5, <3>3, BaseTypes DEF Rebuild, HostReturns, InFlight
    <3>4. CASE BeginCell \/ PostJob \/ TakeJob \/ EndJob \/ JournalCompleted \/ JournalFailed
      BY <2>5, <3>4 DEF BeginCell, PostJob, PostBarrier, PostIndex, TakeJob, EndJob,
         JournalCompleted,
         JournalFailed, effectVars
    <3> QED BY <2>5, <3>1, <3>2, <3>3, <3>4, LoopOrFrame DEF LoopAction
  <2> QED BY <2>3, <2>5, <2>6
<1> QED BY <1>1, <1>2, <1>3

\* A cell is committed only on a runtime that goes on, with its effects linked.
LEMMA CommittedStep ==
    ASSUME AwaitedInv, [Next]_vars PROVE CommittedInv'
<1> USE DEF AwaitedInv
<1>0. /\ evalErr \in BOOLEAN /\ settleErr \in BOOLEAN /\ dirty \in BOOLEAN /\ cell \in Nat
      /\ linked \in [Cells -> SUBSET Effects]
  BY BaseTypes DEF BaseInv, TypeOK
<1>1. \A c \in Cells : outcome'[c] = "committed" =>
         \A e \in Effects : owner'[e] = c =>
            hostState'[e] = "settled" /\ e \in linked'[c]
  BY CommittedEffects
<1>2. CASE BeginCell
  <2>1. cell + 1 \in Cells /\ cell' = cell + 1 /\ pc' = "eval" /\ outcome' = outcome
        /\ evalErr' = FALSE /\ settleErr' = FALSE
    BY <1>0, <1>2, SettleAssumption DEF BeginCell, BaseInv, PcInv, Cells
  <2>2. outcome[cell + 1] = "none"
    BY <1>0, <2>1 DEF BaseInv, FailedInv
  <2> QED BY <1>1, <2>1, <2>2 DEF CommittedInv
<1>3. CASE Submit \/ Refuse \/ Rebuild \/ EvalReturns \/ WaitPending \/ Woken
           \/ PostBarrier \/ FlushReturns \/ Recheck \/ ReadUnhandled
  <2>1. UNCHANGED <<cell, outcome>>
    BY <1>3 DEF Submit, Refuse, Rebuild, EvalReturns, WaitPending, Woken, PostBarrier,
       FlushReturns, Recheck, ReadUnhandled
  <2>2. CASE Submit \/ Refuse \/ Rebuild
    BY <1>0, <1>1, <2>1, <2>2 DEF Submit, Refuse, Rebuild, CommittedInv, BeforeDrain
  <2>3. CASE EvalReturns \/ WaitPending \/ Woken
    BY <1>0, <1>1, <2>1, <2>3 DEF EvalReturns, WaitPending, Woken, CommittedInv,
       BeforeDrain
  <2>4. CASE PostBarrier \/ FlushReturns \/ Recheck \/ ReadUnhandled
    BY <1>0, <1>1, <2>1, <2>4
       DEF PostBarrier, FlushReturns, Recheck, ReadUnhandled, CommittedInv, BeforeDrain
  <2> QED BY <1>3, <2>2, <2>3, <2>4
<1>4. CASE Drain
  <2>1. pc = "drain" /\ cell \in Cells /\ outcome[cell] = "none" /\ dirty = FALSE
        /\ \A e \in Effects : owner[e] = cell => e \in effects[cell]
    BY <1>0, <1>4 DEF Drain, BaseInv, PcInv, CommittedInv, TrackedInv, BeforeDrain
  <2>2. UNCHANGED <<cell, outcome, evalErr, settleErr, owner>>
        /\ linked'[cell] = effects[cell]
        /\ \/ pc' = "failing" /\ dirty' = TRUE
           \/ pc' = "append" /\ dirty' = dirty /\ evalErr = FALSE /\ settleErr = FALSE
    BY <1>0, <1>4, <2>1 DEF Drain, effectVars
  <2> QED BY <1>1, <2>1, <2>2 DEF CommittedInv, BeforeDrain
<1>5. CASE AppendCommit \/ RecordFailure
  <2>1. cell \in Cells /\ outcome[cell] = "none" /\ cell' = cell
    BY <1>5 DEF AppendCommit, RecordFailure, BaseInv, PcInv, CommittedInv
  <2>2. CASE AppendCommit
    BY <1>0, <1>1, <2>1, <2>2, BaseTypes DEF AppendCommit, CommittedInv, BeforeDrain
  <2>3. CASE RecordFailure
    <3>1. dirty' = dirty /\ dirty /\ pc' = "end" /\ outcome'[cell] = "failed"
      BY <2>1, <2>3, BaseTypes DEF RecordFailure, BaseInv, FailedInv
    <3> QED BY <1>1, <2>1, <3>1 DEF CommittedInv, BeforeDrain
  <2> QED BY <1>5, <2>2, <2>3
<1>9. CASE PostIndex \/ IndexReturns
  <2>1. /\ UNCHANGED <<cell, outcome, evalErr, settleErr>>
        /\ pc \in {"index", "indexing"} /\ pc' \in {"indexing", "end"}
    BY <1>9 DEF PostIndex, IndexReturns
  <2>2. outcome[cell] = "committed"
    BY <2>1 DEF BaseInv, FailedInv
  <2> QED BY <1>1, <2>1, <2>2 DEF CommittedInv, BeforeDrain
<1>6. CASE EndCell
  <2>1. /\ UNCHANGED <<cell, outcome, dirty>> /\ pc = "end" /\ pc' = "idle"
        /\ cell \in Cells
    BY <1>6 DEF EndCell, BaseInv, PcInv
  <2>2. outcome[cell] # "none"
    BY <2>1 DEF CommittedInv
  <2> QED BY <1>1, <2>1, <2>2 DEF CommittedInv, BeforeDrain
<1>7. CASE Timeout \/ Done \/ UNCHANGED vars
  <2>1. UNCHANGED <<pc, cell, evalErr, settleErr, dirty, outcome, owner, linked>>
    BY <1>7 DEF Timeout, Done, vars, submitVars, effectVars
  <2> QED BY <1>1, <2>1 DEF CommittedInv
<1>8. CASE TakeJob \/ Settling \/ JSStep \/ EndJob \/ HostStep
  <2>1. UNCHANGED <<pc, cell, evalErr, settleErr, dirty, outcome, linked>>
    BY <1>8, LoopFrame
  <2>2. pc = "append" => owner' = owner
    <3> SUFFICES ASSUME pc = "append" PROVE owner' = owner
      OBVIOUS
    <3>1. Quiet
      BY DEF CommittedInv, QuietInv
    <3>2. ~BeginCell /\ ~PostJob
      BY DEF BeginCell, PostJob, PostBarrier, PostIndex
    <3> QED BY <3>1, <3>2, QuietStays
  <2> QED BY <1>1, <2>1, <2>2 DEF CommittedInv
<1> QED
  BY <1>2, <1>3, <1>4, <1>5, <1>6, <1>7, <1>8, <1>9 DEF Next, SubmitStep

\* AwaitedInv is an invariant of programs that start no host call once their
\* outcome is known.
THEOREM AwaitedInvariant ==
    ASSUME StartAfterResult = FALSE PROVE Spec => []AwaitedInv
<1>1. Init => AwaitedInv
  <2> SUFFICES ASSUME Init PROVE AwaitedInv
    OBVIOUS
  <2>1. BaseInv
    BY InitBase
  <2>2. CurrentInv /\ SyncLostInv /\ ProgramInv
    BY SettleAssumption DEF Init, CurrentInv, SyncLostInv, ProgramInv, NoJob, InFlight,
       ChargedToOwner
  <2>3. TrackedInv /\ QuietInv /\ CommittedInv
    BY SettleAssumption DEF Init, TrackedInv, QuietInv, CommittedInv, BeforeDrain, Quiet,
       NoJob, InFlight
  <2> QED BY <2>1, <2>2, <2>3 DEF AwaitedInv
<1>2. AwaitedInv /\ [Next]_vars => AwaitedInv'
  <2> SUFFICES ASSUME AwaitedInv, [Next]_vars PROVE AwaitedInv'
    OBVIOUS
  <2>1. BaseInv'
    BY TypeStep, RunningStep, QueueStep, EffectStep, WaitStep, FailedStep
       DEF AwaitedInv, BaseInv, JobInv
  <2>2. CurrentInv' /\ SyncLostInv' /\ ProgramInv'
    BY CurrentStep, SyncLostStep, ProgramStep DEF AwaitedInv
  <2>3. TrackedInv' /\ QuietInv' /\ CommittedInv'
    BY TrackedStep, QuietStep, CommittedStep DEF AwaitedInv
  <2> QED BY <2>1, <2>2, <2>3 DEF AwaitedInv
<1> QED BY <1>1, <1>2, PTL DEF Spec

\* For such programs, Submit commits a cell only when every host call its code
\* made has settled and is linked to it, and none of its code is left to run.
THEOREM SettledInvariant ==
    ASSUME StartAfterResult = FALSE PROVE Spec => []SettledAtCommit
<1>1. AwaitedInv => SettledAtCommit
  <2> SUFFICES ASSUME AwaitedInv, NEW c \in Cells, outcome[c] = "committed",
                      job.kind # "none", job.owner = c
               PROVE  FALSE
    BY DEF AwaitedInv, CommittedInv, SettledAtCommit
  <2>1. c = cell
    BY DEF AwaitedInv, CurrentInv
  <2> QED BY <2>1, CommittedQuiet DEF Quiet
<1> QED BY <1>1, AwaitedInvariant, PTL

\* For such programs, every host call is journaled under the cell whose code made
\* it, although the journal only knows the cell that is active when it is made.
THEOREM ChargedInvariant ==
    ASSUME StartAfterResult = FALSE PROVE Spec => []ChargedToOwner
<1>1. AwaitedInv => ChargedToOwner
  BY DEF AwaitedInv, CurrentInv
<1> QED BY <1>1, AwaitedInvariant, PTL

===============================================================================
