---------------------- MODULE HydrationBackfillProofs ----------------------
(***************************************************************************)
(* Theorems about HydrationBackfill for every catalogue, batch size, retry *)
(* limit, and any number of workers and admins.                            *)
(***************************************************************************)
EXTENDS HydrationBackfill, FiniteSetTheorems, TLAPS

USE BackfillAssumption DEF BackfillAssumption

-----------------------------------------------------------------------------
(***************************************************************************)
(* Type correctness.                                                       *)
(***************************************************************************)

\* The bound of the batch loop that TypeOK needs: a handler that is inside
\* the loop has batches left.
LoopPCs == {"read", "mark", "check", "load", "enqueue", "complete"}
BatchBound ==
  \A w \in Workers : tick[w].pc \in LoopPCs => tick[w].batch < MaxBatches

TypeInv == TypeOK /\ BatchBound

LEMMA TickFields ==
  ASSUME TickOK, NEW w \in Workers
  PROVE  /\ tick[w] \in Tick
         /\ tick[w].n \in Nat /\ tick[w].ok \in Nat /\ tick[w].bad \in Nat
         /\ tick[w].cur \in Ids /\ tick[w].top \in Ids
         /\ tick[w].todo \subseteq Illusts /\ tick[w].att \in Retries
         /\ tick[w].batch \in 0..MaxBatches
  BY DEF TickOK, Tick

LEMMA IdleTickType == IdleTick \in Tick
  BY DEF Tick, TickPCs, IdleTick, Ids, Retries

\* The record a worker starts a job with.
LEMMA FreshTickType ==
  ASSUME NEW k \in Retries
  PROVE  [IdleTick EXCEPT !.pc = "read", !.att = k] \in Tick
<1>1. [IdleTick EXCEPT !.pc = "read"] \in Tick
  BY IdleTickType DEF Tick, TickPCs
<1>2. [[IdleTick EXCEPT !.pc = "read"] EXCEPT !.att = k] \in Tick
  BY <1>1 DEF Tick, TickPCs
<1> QED
  BY <1>2

\* A batch is a finite part of the images that miss metadata.
LEMMA NextBatchType ==
  ASSUME missing \subseteq Illusts, NEW c \in Ids
  PROVE  /\ NextBatch(c) \subseteq missing
         /\ IsFiniteSet(NextBatch(c))
         /\ Cardinality(NextBatch(c)) \in Nat
<1>1. NextBatch(c) \subseteq missing
  BY DEF NextBatch
<1>2. IsFiniteSet(NextBatch(c))
  BY <1>1, FS_Subset
<1> QED
  BY <1>1, <1>2, FS_CardinalityType

\* Replacing one handler's record by a typed one keeps the handlers typed.
LEMMA TickUpdate ==
  ASSUME TickOK, BatchBound, NEW w \in Workers, NEW t \in Tick,
         t.pc \in LoopPCs => t.batch < MaxBatches,
         tick' = [tick EXCEPT ![w] = t]
  PROVE  TickOK' /\ BatchBound'
  BY DEF TickOK, BatchBound

\* Moving a handler to another of its steps keeps it typed.
LEMMA GotoTick ==
  ASSUME TickOK, BatchBound, NEW w \in Workers, NEW label \in TickPCs,
         label \in LoopPCs => tick[w].batch < MaxBatches,
         Goto(w, label)
  PROVE  TickOK' /\ BatchBound'
<1> DEFINE t == [tick[w] EXCEPT !.pc = label]
<1>1. t \in Tick /\ t.pc = label /\ t.batch = tick[w].batch
  BY TickFields DEF Tick
<1>2. tick' = [tick EXCEPT ![w] = t]
  BY DEF Goto
<1> HIDE DEF t
<1> QED
  BY <1>1, <1>2, TickUpdate

\* What a commit makes of the handler's record.
LEMMA CommitTick ==
  ASSUME NEW t \in Tick, t.pc = "enqueue", t.batch < MaxBatches
  PROVE  LET u == [t EXCEPT !.batch = @ + 1, !.pc = AfterCommit(t)]
         IN  u \in Tick /\ (u.pc \in LoopPCs => u.batch < MaxBatches)
<1>1. /\ AfterCommit(t) \in {"markfailed", "final", "check"}
      /\ AfterCommit(t) = "check" => t.batch + 1 # MaxBatches
  BY DEF AfterCommit
<1>2. t.batch \in 0..MaxBatches /\ t.batch + 1 \in 0..MaxBatches
  BY DEF Tick
<1>3. [t EXCEPT !.batch = t.batch + 1] \in Tick
  BY <1>2 DEF Tick
<1>4. [[t EXCEPT !.batch = t.batch + 1] EXCEPT !.pc = AfterCommit(t)] \in Tick
  BY <1>1, <1>3 DEF Tick, TickPCs
<1> QED
  BY <1>1, <1>2, <1>4 DEF Tick, LoopPCs

\* A batch that is loaded, and one turn of the loop over it.
LEMMA BatchTick ==
  ASSUME NEW t \in Tick, t.batch < MaxBatches, missing \subseteq Illusts,
         NEW top \in Illusts
  PROVE  LET batch == NextBatch(t.cur)
             u == [pc |-> "enqueue", att |-> t.att, batch |-> t.batch,
                   cur |-> t.cur, top |-> top, n |-> Cardinality(batch),
                   todo |-> batch, ok |-> 0, bad |-> 0, err |-> "none"]
         IN  u \in Tick /\ u.batch < MaxBatches
<1>1. t.cur \in Ids
  BY DEF Tick
<1>2. /\ NextBatch(t.cur) \subseteq Illusts
      /\ Cardinality(NextBatch(t.cur)) \in Nat
  BY <1>1, NextBatchType
<1> QED
  BY <1>2 DEF Tick, TickPCs, Ids

\* What one request leaves of the handler's record.
LEMMA RequestedTick ==
  ASSUME NEW t \in Tick, NEW i, NEW u \in Requested(t, i)
  PROVE  /\ u \in Tick /\ u.batch = t.batch /\ u.pc = t.pc /\ u.cur = t.cur
         /\ u.top = t.top /\ u.n = t.n /\ u.todo = t.todo \ {i}
         /\ u.ok + u.bad = t.ok + t.bad + 1
<1>1. /\ t.ok \in Nat /\ t.bad \in Nat /\ t.ok + 1 \in Nat /\ t.bad + 1 \in Nat
      /\ t.todo \ {i} \in SUBSET Illusts
  BY DEF Tick
<1>2. CASE u = [t EXCEPT !.todo = t.todo \ {i}, !.ok = t.ok + 1]
  <2>1. u.ok = t.ok + 1 /\ u.bad = t.bad
    BY <1>2 DEF Tick
  <2>2. u.ok + u.bad = t.ok + t.bad + 1
    BY <1>1, <2>1
  <2> QED
    BY <1>1, <1>2, <2>2 DEF Tick
<1>3. ASSUME NEW e \in EnqueueErrors,
             u = [t EXCEPT !.todo = t.todo \ {i}, !.bad = t.bad + 1,
                           !.err = IF t.err = "none" THEN e ELSE t.err]
      PROVE  /\ u \in Tick /\ u.batch = t.batch /\ u.pc = t.pc /\ u.cur = t.cur
             /\ u.top = t.top /\ u.n = t.n /\ u.todo = t.todo \ {i}
             /\ u.ok + u.bad = t.ok + t.bad + 1
  <2> DEFINE x == IF t.err = "none" THEN e ELSE t.err
  <2>1. x \in {"none", "failed", "disabled"}
    BY DEF Tick
  <2>2. u = [t EXCEPT !.todo = t.todo \ {i}, !.bad = t.bad + 1, !.err = x]
    BY <1>3
  <2> HIDE DEF x
  <2>3. u.ok = t.ok /\ u.bad = t.bad + 1
    BY <2>2 DEF Tick
  <2>4. u.ok + u.bad = t.ok + t.bad + 1
    BY <1>1, <2>3
  <2> QED
    BY <1>1, <2>1, <2>2, <2>4 DEF Tick
<1> QED
  BY <1>2, <1>3 DEF Requested

\* A step of a handler keeps the handlers' records typed and within the loop.
LEMMA TickStepTicks ==
  ASSUME TypeInv, NEW w \in Workers, TickStep(w)
  PROVE  TickOK' /\ BatchBound'
<1>1. TickOK /\ BatchBound /\ RowOK
  BY DEF TypeInv, TypeOK
<1>2. tick[w] \in Tick /\ (tick[w].pc \in LoopPCs => tick[w].batch < MaxBatches)
  BY <1>1, TickFields DEF BatchBound
<1>3. CASE Fetch(w)
  <2>1. PICK k \in Retries :
          tick' = [tick EXCEPT ![w] = [IdleTick EXCEPT !.pc = "read", !.att = k]]
    BY <1>3 DEF Fetch
  <2> DEFINE t == [IdleTick EXCEPT !.pc = "read", !.att = k]
  <2>2. t \in Tick /\ t.batch < MaxBatches
    <3>1. t \in Tick
      BY FreshTickType
    <3>2. t.batch = 0
      BY DEF IdleTick
    <3> QED
      BY <3>1, <3>2
  <2>3. tick' = [tick EXCEPT ![w] = t]
    BY <2>1
  <2> HIDE DEF t
  <2> QED
    BY <1>1, <2>2, <2>3, TickUpdate
<1>4. CASE ReadRun(w)
  <2>1. PICK label \in {"mark", "check", "return"} : Goto(w, label)
    BY <1>4 DEF ReadRun
  <2> QED
    BY <1>1, <1>2, <1>4, <2>1, GotoTick DEF ReadRun, LoopPCs, TickPCs
<1>5. CASE MarkRunning(w)
  BY <1>1, <1>2, <1>5, GotoTick DEF MarkRunning, LoopPCs, TickPCs
<1>6. CASE CheckStatus(w)
  <2>1. CASE Goto(w, "return")
    BY <1>1, <2>1, GotoTick DEF LoopPCs, TickPCs
  <2>2. CASE tick' = [tick EXCEPT ![w].pc = "load", ![w].cur = run.cursor]
    <3> DEFINE t == [tick[w] EXCEPT !.pc = "load", !.cur = run.cursor]
    <3>1. run.cursor \in Ids
      BY <1>1 DEF RowOK, Row
    <3>2. t \in Tick /\ t.batch = tick[w].batch
      BY <1>2, <3>1 DEF Tick, TickPCs
    <3>3. tick[w].batch < MaxBatches
      BY <1>2, <1>6 DEF CheckStatus, LoopPCs
    <3>4. tick' = [tick EXCEPT ![w] = t]
      BY <2>2
    <3> HIDE DEF t
    <3> QED
      BY <1>1, <3>2, <3>3, <3>4, TickUpdate
  <2> QED
    BY <1>6, <2>1, <2>2 DEF CheckStatus
<1>7. CASE LoadBatch(w)
  <2>1. CASE Goto(w, "complete")
    BY <1>1, <1>2, <1>7, <2>1, GotoTick DEF LoadBatch, LoopPCs, TickPCs
  <2>2. CASE ~Goto(w, "complete")
    <3> DEFINE batch == NextBatch(tick[w].cur)
               u(top) == [pc |-> "enqueue", att |-> tick[w].att,
                          batch |-> tick[w].batch, cur |-> tick[w].cur,
                          top |-> top, n |-> Cardinality(batch),
                          todo |-> batch, ok |-> 0, bad |-> 0, err |-> "none"]
    <3>1. PICK top \in batch : tick' = [tick EXCEPT ![w] = u(top)]
      BY <1>7, <2>2 DEF LoadBatch
    <3>2. missing \subseteq Illusts /\ top \in Illusts
      BY <1>1 DEF RowOK, NextBatch
    <3>3. tick[w].batch < MaxBatches
      BY <1>2, <1>7 DEF LoadBatch, LoopPCs
    <3>4. u(top) \in Tick /\ u(top).batch < MaxBatches
      BY <1>2, <3>2, <3>3, BatchTick
    <3> HIDE DEF u
    <3> QED
      BY <1>1, <3>1, <3>4, TickUpdate
  <2> QED
    BY <2>1, <2>2
<1>8. CASE Complete(w)
  BY <1>1, <1>8, GotoTick DEF Complete, LoopPCs, TickPCs
<1>9. CASE EnqueueOne(w)
  <2>1. PICK i \in tick[w].todo :
          \E t \in Requested(tick[w], i) : tick' = [tick EXCEPT ![w] = t]
    BY <1>9 DEF EnqueueOne
  <2>2. PICK t \in Requested(tick[w], i) : tick' = [tick EXCEPT ![w] = t]
    BY <2>1
  <2>3. t \in Tick /\ t.batch = tick[w].batch
    BY <1>2, <2>2, RequestedTick
  <2>4. tick[w].batch < MaxBatches
    BY <1>2, <1>9 DEF EnqueueOne, LoopPCs
  <2> QED
    BY <1>1, <2>2, <2>3, <2>4, TickUpdate
<1>10. CASE Commit(w)
  <2> DEFINE u == [tick[w] EXCEPT !.batch = @ + 1, !.pc = AfterCommit(tick[w])]
  <2>1. tick[w].pc = "enqueue" /\ tick' = [tick EXCEPT ![w] = u]
    BY <1>10 DEF Commit
  <2>2. u \in Tick /\ (u.pc \in LoopPCs => u.batch < MaxBatches)
    BY <1>2, <2>1, CommitTick DEF LoopPCs
  <2> HIDE DEF u
  <2> QED
    BY <1>1, <2>1, <2>2, TickUpdate
<1>11. CASE MarkFailed(w)
  BY <1>1, <1>11, GotoTick DEF MarkFailed, LoopPCs, TickPCs
<1>12. CASE FinalCheck(w)
  <2>1. PICK label \in {"requeue", "return"} : Goto(w, label)
    BY <1>12 DEF FinalCheck
  <2> QED
    BY <1>1, <2>1, GotoTick DEF LoopPCs, TickPCs
<1>13. CASE Requeue(w)
  BY <1>1, <1>13, GotoTick DEF Requeue, LoopPCs, TickPCs
<1>14. CASE Return(w)
  BY <1>1, <1>14, IdleTickType, TickUpdate DEF Return, IdleTick, LoopPCs
<1> QED
  BY <1>3, <1>4, <1>5, <1>6, <1>7, <1>8, <1>9, <1>10, <1>11, <1>12, <1>13,
     <1>14 DEF TickStep

\* A handler that throws or dies is idle again.
LEMMA IdleTickUpdate ==
  ASSUME TickOK, BatchBound, NEW w \in Workers,
         tick' = [tick EXCEPT ![w] = IdleTick]
  PROVE  TickOK' /\ BatchBound'
  BY IdleTickType, TickUpdate DEF IdleTick, LoopPCs

\* One job less, or one more, in a count of jobs.
LEMMA CountUpdate ==
  ASSUME NEW f \in [Retries -> Nat], NEW k \in Retries
  PROVE  /\ [f EXCEPT ![k] = @ + 1] \in [Retries -> Nat]
         /\ f[k] > 0 => [f EXCEPT ![k] = @ - 1] \in [Retries -> Nat]
  OBVIOUS

\* Sending a job, retrying one and dead-lettering one keep the queue typed.
LEMMA EnqueueRunType ==
  ASSUME JobsOK, DlqOK, EnqueueRun
  PROVE  JobsOK' /\ DlqOK'
<1>1. CASE slot = "free"
  <2>1. waiting' \in [Retries -> Nat]
    BY <1>1, CountUpdate DEF JobsOK, EnqueueRun, Retries
  <2> QED
    BY <1>1, <2>1 DEF JobsOK, DlqOK, EnqueueRun, LostWhy
<1>2. CASE slot = "taken"
  BY <1>2 DEF JobsOK, DlqOK, EnqueueRun, LostWhy
<1> QED
  BY <1>1, <1>2 DEF DlqOK

LEMMA RetryType ==
  ASSUME JobsOK, DlqOK, NEW k \in Retries, RetryOrDeadLetter(k), slot' = slot
  PROVE  waiting' \in [Retries -> Nat] /\ DlqOK'
<1>1. CASE k < RetryLimit
  <2>1. k + 1 \in Retries
    BY <1>1 DEF Retries
  <2>2. waiting' = [waiting EXCEPT ![k + 1] = @ + 1] /\ UNCHANGED <<dlq, deaths, lost>>
    BY <1>1 DEF RetryOrDeadLetter, Retries
  <2>3. waiting' \in [Retries -> Nat]
    BY <2>1, <2>2, CountUpdate DEF JobsOK
  <2> QED
    BY <2>2, <2>3 DEF DlqOK
<1>2. CASE k = RetryLimit
  <2>1. /\ deaths \in Nat /\ deaths' = deaths + 1
        /\ dlq \subseteq 1..deaths /\ dlq' = dlq \union {deaths + 1}
        /\ lost' = "dead_letter" /\ waiting' = waiting
    BY <1>2 DEF DlqOK, RetryOrDeadLetter, Retries
  <2>2. dlq' \subseteq 1..deaths' /\ deaths' \in Nat
    BY <2>1
  <2> QED
    BY <2>1, <2>2 DEF JobsOK, DlqOK, LostWhy
<1> QED
  BY <1>1, <1>2 DEF Retries

LEMMA FaultType ==
  ASSUME BoundOK, Fault, adminOps' = adminOps
  PROVE  BoundOK'
  BY DEF BoundOK, Fault

\* A step of a handler keeps the row typed ...
LEMMA TickStepRow ==
  ASSUME TypeInv, NEW w \in Workers, TickStep(w)
  PROVE  RowOK'
<1>1. RowOK /\ tick[w] \in Tick
  BY TickFields DEF TypeInv, TypeOK
<1>2. CASE UNCHANGED <<run, missing, calls>>
  BY <1>1, <1>2 DEF RowOK
<1>3. CASE MarkRunning(w)
  BY <1>1, <1>3 DEF MarkRunning, RowOK, Row, Statuses, Live
<1>4. CASE Complete(w)
  BY <1>1, <1>4 DEF Complete, RowOK, Row, Statuses, Terminal, Tick
<1>5. CASE EnqueueOne(w)
  <2>1. PICK i \in tick[w].todo : calls' = [calls EXCEPT ![i] = @ + 1]
    BY <1>5 DEF EnqueueOne
  <2>2. i \in Illusts
    BY <1>1, <2>1 DEF Tick
  <2>3. calls \in [Illusts -> Nat]
    BY <1>1 DEF RowOK
  <2>4. calls' \in [Illusts -> Nat]
    BY <2>1, <2>2, <2>3
  <2> QED
    BY <1>1, <1>5, <2>4 DEF EnqueueOne, RowOK
<1>6. CASE Commit(w)
  <2> DEFINE x == run.processed + tick[w].n
             y == run.success + tick[w].ok
             z == run.failed + tick[w].bad
  <2>1. x \in Nat /\ y \in Nat /\ z \in Nat /\ tick[w].top \in Ids
    BY <1>1 DEF RowOK, Row, Tick
  <2>2. run' = [run EXCEPT !.processed = x, !.success = y, !.failed = z,
                           !.cursor = tick[w].top]
    BY <1>6 DEF Commit
  <2> HIDE DEF x, y, z
  <2>3. run' \in Row
    BY <1>1, <2>1, <2>2 DEF RowOK, Row
  <2> QED
    BY <1>1, <1>6, <2>3 DEF Commit, RowOK
<1>7. CASE MarkFailed(w)
  BY <1>1, <1>7 DEF MarkFailed, RowOK, Row, Statuses, Terminal
<1> QED
  BY <1>2, <1>3, <1>4, <1>5, <1>6, <1>7
     DEF TickStep, Fetch, ReadRun, CheckStatus, LoadBatch, FinalCheck, Requeue, Return

\* ... and the queue, the requests and the bounds.
LEMMA TickStepRest ==
  ASSUME TypeInv, NEW w \in Workers, TickStep(w)
  PROVE  JobsOK' /\ DlqOK' /\ AdminOK' /\ BoundOK'
<1>1. JobsOK /\ DlqOK /\ AdminOK /\ BoundOK
  BY DEF TypeInv, TypeOK
<1>2. UNCHANGED <<admin, faults, adminOps>>
  BY DEF TickStep, Fetch, ReadRun, MarkRunning, CheckStatus, LoadBatch, Complete,
         EnqueueOne, Commit, MarkFailed, FinalCheck, Requeue, Return
<1>3. AdminOK' /\ BoundOK'
  BY <1>1, <1>2 DEF AdminOK, BoundOK
<1>4. CASE UNCHANGED queueVars
  BY <1>1, <1>3, <1>4 DEF queueVars, JobsOK, DlqOK
<1>5. CASE Fetch(w)
  BY <1>1, <1>3, <1>5, CountUpdate DEF Fetch, JobsOK, DlqOK
<1>6. CASE Requeue(w)
  BY <1>1, <1>3, <1>6, EnqueueRunType DEF Requeue
<1> QED
  BY <1>4, <1>5, <1>6
     DEF TickStep, ReadRun, MarkRunning, CheckStatus, LoadBatch, Complete,
         EnqueueOne, Commit, MarkFailed, FinalCheck, Return

\* A handler that is interrupted.
LEMMA InterruptType ==
  ASSUME TypeInv, NEW w \in Workers, Throw(w) \/ Crash(w)
  PROVE  TypeInv'
<1>1. /\ RowOK /\ JobsOK /\ DlqOK /\ TickOK /\ AdminOK /\ BoundOK /\ BatchBound
      /\ tick[w].att \in Retries
  BY TickFields DEF TypeInv, TypeOK
<1>2. /\ UNCHANGED <<run, missing, calls, admin, adminOps>> /\ Fault
      /\ tick' = [tick EXCEPT ![w] = IdleTick]
  BY DEF Throw, Crash
<1>3. RowOK' /\ TickOK' /\ BatchBound' /\ AdminOK' /\ BoundOK'
  <2>1. RowOK' /\ AdminOK'
    BY <1>1, <1>2 DEF RowOK, AdminOK
  <2> QED
    BY <1>1, <1>2, <2>1, IdleTickUpdate, FaultType
<1>4. CASE Throw(w)
  <2>1. waiting' \in [Retries -> Nat] /\ DlqOK'
    BY <1>1, <1>4, RetryType DEF Throw
  <2> QED
    BY <1>1, <1>3, <1>4, <2>1 DEF Throw, JobsOK, TypeInv, TypeOK
<1>5. CASE Crash(w)
  <2>1. JobsOK' /\ DlqOK'
    BY <1>1, <1>5, CountUpdate DEF Crash, JobsOK, DlqOK
  <2> QED
    BY <1>3, <2>1 DEF TypeInv, TypeOK
<1> QED
  BY <1>4, <1>5

\* A request of the admin console moves on.
LEMMA AdminGotoType ==
  ASSUME AdminOK, NEW a \in Admins, NEW label \in AdminPCs, AdminGoto(a, label)
  PROVE  AdminOK'
  BY DEF AdminOK, AdminGoto

LEMMA AdminRequestType ==
  ASSUME BoundOK, NEW a \in Admins, AdminRequest(a), faults' = faults
  PROVE  BoundOK'
  BY DEF BoundOK, AdminRequest

\* Which parts of the state the requests touch, and how.
LEMMA AdminStepType ==
  ASSUME TypeInv, NEW a \in Admins, AdminBegin(a) \/ AdminStep(a) \/ AdminCrash(a)
  PROVE  TypeInv'
<1>1. RowOK /\ JobsOK /\ DlqOK /\ TickOK /\ AdminOK /\ BoundOK /\ BatchBound
  BY DEF TypeInv, TypeOK
<1> USE DEF AdminBegin, AdminStep
<1>2. TickOK' /\ BatchBound'
  <2>1. tick' = tick
    BY DEF Start, StartEnqueue, PauseRead, PauseWrite, ResumeRead, ResumeWrite,
           ResumeEnqueue, ResumeUndo, CancelRead, CancelWrite, DlqRetry,
           DlqRetryDelete, DlqDelete, AdminCrash
  <2> QED
    BY <1>1, <2>1 DEF TickOK, BatchBound
<1>3. RowOK'
  <2>1. CASE \/ Start(a) \/ PauseWrite(a) \/ ResumeWrite(a) \/ ResumeUndo(a)
             \/ CancelWrite(a)
    <3>1. PICK s \in Statuses : run' = [run EXCEPT !.status = s]
      BY <2>1 DEF Start, PauseWrite, ResumeWrite, ResumeUndo, CancelWrite,
                  Statuses, Live, Terminal
    <3>2. UNCHANGED <<missing, calls>>
      BY <2>1 DEF Start, PauseWrite, ResumeWrite, ResumeUndo, CancelWrite
    <3> QED
      BY <1>1, <3>1, <3>2 DEF RowOK, Row
  <2>2. CASE UNCHANGED <<run, missing, calls>>
    BY <1>1, <2>2 DEF RowOK
  <2> QED
    BY <2>1, <2>2 DEF StartEnqueue, PauseRead, ResumeRead, ResumeEnqueue,
                      CancelRead, DlqRetry, DlqRetryDelete, DlqDelete, AdminCrash
<1>4. JobsOK' /\ DlqOK'
  <2>1. CASE UNCHANGED queueVars
    BY <1>1, <2>1 DEF queueVars, JobsOK, DlqOK
  <2>2. CASE EnqueueRun
    BY <1>1, <2>2, EnqueueRunType
  <2>3. CASE /\ UNCHANGED <<waiting, orphans, dlq, deaths, slot>>
             /\ lost' \in LostWhy
    BY <1>1, <2>3 DEF JobsOK, DlqOK
  <2>4. CASE /\ UNCHANGED <<waiting, orphans, deaths, slot>>
             /\ lost' \in LostWhy /\ dlq' \subseteq dlq
    BY <1>1, <2>4 DEF JobsOK, DlqOK
  <2>5. lost \in LostWhy
    BY <1>1 DEF DlqOK
  <2>6. CASE StartEnqueue(a)
    BY <2>2, <2>3, <2>6 DEF StartEnqueue, LostWhy
  <2>7. CASE ResumeEnqueue(a)
    BY <2>1, <2>2, <2>7 DEF ResumeEnqueue
  <2>8. CASE DlqRetry(a)
    BY <2>1, <2>2, <2>8 DEF DlqRetry
  <2>9. CASE DlqRetryDelete(a)
    BY <2>4, <2>5, <2>9 DEF DlqRetryDelete
  <2>10. CASE DlqDelete(a)
    BY <2>4, <2>5, <2>10 DEF DlqDelete, LostWhy
  <2>11. CASE AdminCrash(a)
    BY <2>3, <2>5, <2>11 DEF AdminCrash, LostWhy
  <2> QED
    BY <2>1, <2>6, <2>7, <2>8, <2>9, <2>10, <2>11
       DEF Start, PauseRead, PauseWrite, ResumeRead, ResumeWrite, ResumeUndo,
           CancelRead, CancelWrite
<1>5. AdminOK'
  <2>1. CASE \E label \in AdminPCs : AdminGoto(a, label)
    BY <1>1, <2>1, AdminGotoType
  <2>2. CASE DlqRetry(a)
    BY <1>1, <2>2 DEF DlqRetry, AdminOK, AdminPCs, DlqOK
  <2>3. CASE DlqRetryDelete(a) \/ AdminCrash(a)
    BY <1>1, <2>3 DEF DlqRetryDelete, AdminCrash, AdminOK, AdminPCs, IdleAdmin
  <2>4. CASE DlqDelete(a)
    BY <1>1, <2>4 DEF DlqDelete, AdminOK
  <2> QED
    BY <2>1, <2>2, <2>3, <2>4
       DEF Start, StartEnqueue, PauseRead, PauseWrite, ResumeRead, ResumeWrite,
           ResumeEnqueue, ResumeUndo, CancelRead, CancelWrite, AdminPCs
<1>6. BoundOK'
  <2>1. CASE AdminRequest(a) /\ faults' = faults
    BY <1>1, <2>1, AdminRequestType
  <2>2. CASE UNCHANGED <<faults, adminOps>>
    BY <1>1, <2>2 DEF BoundOK
  <2>3. CASE Fault /\ adminOps' = adminOps
    BY <1>1, <2>3, FaultType
  <2> QED
    BY <2>1, <2>2, <2>3
       DEF Start, StartEnqueue, PauseRead, PauseWrite, ResumeRead, ResumeWrite,
           ResumeEnqueue, ResumeUndo, CancelRead, CancelWrite, DlqRetry,
           DlqRetryDelete, DlqDelete, AdminCrash
<1> QED
  BY <1>2, <1>3, <1>4, <1>5, <1>6 DEF TypeInv, TypeOK

\* The queue, the clock and other jobs' metadata move on.
LEMMA EnvironmentType ==
  ASSUME TypeInv,
         \/ \E k \in Retries : Expire(k)
         \/ \E i \in Illusts : Hydrated(i)
         \/ SlotElapses
  PROVE  TypeInv'
<1>1. RowOK /\ JobsOK /\ DlqOK /\ TickOK /\ AdminOK /\ BoundOK /\ BatchBound
  BY DEF TypeInv, TypeOK
<1>2. UNCHANGED <<run, calls, tick, admin, faults, adminOps>> /\ missing' \subseteq missing
  BY DEF Expire, Hydrated, SlotElapses
<1>3. RowOK' /\ TickOK' /\ BatchBound' /\ AdminOK' /\ BoundOK'
  BY <1>1, <1>2 DEF RowOK, TickOK, BatchBound, AdminOK, BoundOK
<1>4. ASSUME NEW k \in Retries, Expire(k) PROVE JobsOK' /\ DlqOK'
  <2>1. waiting' \in [Retries -> Nat] /\ DlqOK'
    BY <1>1, <1>4, RetryType DEF Expire
  <2>2. orphans' \in [Retries -> Nat]
    BY <1>1, <1>4, CountUpdate DEF Expire, JobsOK
  <2> QED
    BY <2>1, <2>2 DEF JobsOK
<1>5. ASSUME NEW i \in Illusts, Hydrated(i) PROVE JobsOK' /\ DlqOK'
  BY <1>1, <1>5 DEF Hydrated, queueVars, JobsOK, DlqOK
<1>6. ASSUME SlotElapses PROVE JobsOK' /\ DlqOK'
  BY <1>1, <1>6 DEF SlotElapses, JobsOK, DlqOK
<1> QED
  BY <1>3, <1>4, <1>5, <1>6 DEF TypeInv, TypeOK

LEMMA InitType == Init => TypeInv
<1> SUFFICES ASSUME Init PROVE TypeInv
  OBVIOUS
<1>1. RowOK /\ JobsOK /\ DlqOK /\ BoundOK
  BY DEF Init, RowOK, Row, Statuses, Ids, JobsOK, DlqOK, LostWhy, BoundOK
<1>2. TickOK /\ BatchBound
  BY IdleTickType DEF Init, TickOK, BatchBound, IdleTick, LoopPCs
<1>3. AdminOK
  BY DEF Init, AdminOK, IdleAdmin, AdminPCs
<1> QED
  BY <1>1, <1>2, <1>3 DEF TypeInv, TypeOK

LEMMA NextType == TypeInv /\ [Next]_vars => TypeInv'
<1> SUFFICES ASSUME TypeInv, [Next]_vars PROVE TypeInv'
  OBVIOUS
<1>1. ASSUME NEW w \in Workers, TickStep(w) PROVE TypeInv'
  BY <1>1, TickStepTicks, TickStepRow, TickStepRest DEF TypeInv, TypeOK
<1>2. CASE UNCHANGED vars
  BY <1>2 DEF vars, queueVars, TypeInv, TypeOK, RowOK, JobsOK, DlqOK, TickOK,
              AdminOK, BoundOK, BatchBound
<1> QED
  BY <1>1, <1>2, InterruptType, AdminStepType, EnvironmentType DEF Next

\* The state of the backfill is always typed: the row, the queue and its dead
\* letters, the handlers of all workers and the requests of all admins.
THEOREM TypeCorrect == Spec => []TypeOK
<1>1. Spec => []TypeInv
  BY InitType, NextType, PTL DEF Spec
<1>2. TypeInv => TypeOK
  BY DEF TypeInv
<1> QED
  BY <1>1, <1>2, PTL

LEMMA TypeInvariant == Spec => []TypeInv
  BY InitType, NextType, PTL DEF Spec

-----------------------------------------------------------------------------
(***************************************************************************)
(* The counters of the row.  The strengthening says what a handler inside  *)
(* its batch has counted so far; the batch it commits is then accounted    *)
(* for, whatever other handlers added to the row in the meantime.          *)
(***************************************************************************)

BatchCounted ==
  \A w \in Workers : tick[w].pc = "enqueue" =>
    tick[w].ok + tick[w].bad + Cardinality(tick[w].todo) = tick[w].n

CountInv == CountersAgree /\ BatchCounted

\* Replacing one handler's record by one that is not inside a batch, or whose
\* batch is counted, keeps BatchCounted.
LEMMA CountedUpdate ==
  ASSUME TickOK, BatchCounted, NEW w \in Workers, NEW t,
         tick' = [tick EXCEPT ![w] = t],
         t.pc = "enqueue" => t.ok + t.bad + Cardinality(t.todo) = t.n
  PROVE  BatchCounted'
  BY DEF TickOK, BatchCounted

LEMMA CountedGoto ==
  ASSUME TickOK, BatchCounted, NEW w \in Workers, NEW label, Goto(w, label),
         label # "enqueue"
  PROVE  BatchCounted'
<1> DEFINE t == [tick[w] EXCEPT !.pc = label]
<1>1. t.pc = label
  BY TickFields DEF Tick
<1>2. tick' = [tick EXCEPT ![w] = t]
  BY DEF Goto
<1> HIDE DEF t
<1> QED
  BY <1>1, <1>2, CountedUpdate

LEMMA CountStep ==
  ASSUME TypeInv, CountInv, NEW w \in Workers, TickStep(w)
  PROVE  CountInv'
<1>1. TickOK /\ RowOK /\ BatchCounted /\ CountersAgree /\ tick[w] \in Tick
  BY TickFields DEF TypeInv, TypeOK, CountInv
<1>2. CASE LoadBatch(w)
  <2>1. CASE Goto(w, "complete")
    BY <1>1, <1>2, <2>1, CountedGoto DEF LoadBatch, CountInv, CountersAgree
  <2>2. CASE ~Goto(w, "complete")
    <3> DEFINE batch == NextBatch(tick[w].cur)
    <3> DEFINE u(top) == [pc |-> "enqueue", att |-> tick[w].att,
                          batch |-> tick[w].batch, cur |-> tick[w].cur,
                          top |-> top, n |-> Cardinality(batch),
                          todo |-> batch, ok |-> 0, bad |-> 0, err |-> "none"]
    <3>0. PICK top : tick' = [tick EXCEPT ![w] = u(top)]
      BY <1>2, <2>2 DEF LoadBatch
    <3> DEFINE t == u(top)
    <3>1. /\ tick' = [tick EXCEPT ![w] = t]
          /\ t.ok = 0 /\ t.bad = 0 /\ t.todo = batch
          /\ t.n = Cardinality(batch)
      BY <3>0
    <3> HIDE DEF u, t
    <3>2. Cardinality(batch) \in Nat
      BY <1>1, NextBatchType DEF RowOK, Tick
    <3>3. t.ok + t.bad + Cardinality(t.todo) = t.n
      BY <3>1, <3>2
    <3> HIDE DEF batch
    <3>4. BatchCounted'
      BY <1>1, <3>1, <3>3, CountedUpdate
    <3> QED
      BY <1>1, <1>2, <3>4 DEF LoadBatch, CountInv, CountersAgree
  <2> QED
    BY <2>1, <2>2
<1>3. CASE EnqueueOne(w)
  <2>0. PICK i \in tick[w].todo :
          \E t \in Requested(tick[w], i) : tick' = [tick EXCEPT ![w] = t]
    BY <1>3 DEF EnqueueOne
  <2>1. PICK t \in Requested(tick[w], i) : tick' = [tick EXCEPT ![w] = t]
    BY <2>0
  <2>2. /\ t.n = tick[w].n /\ t.todo = tick[w].todo \ {i} /\ t \in Tick
        /\ t.ok + t.bad = tick[w].ok + tick[w].bad + 1
    BY <1>1, <2>1, RequestedTick
  <2>3. IsFiniteSet(tick[w].todo)
    BY <1>1, FS_Subset DEF Tick
  <2>4. /\ Cardinality(tick[w].todo \ {i}) = Cardinality(tick[w].todo) - 1
        /\ Cardinality(tick[w].todo) \in Nat
    BY <2>0, <2>3, FS_RemoveElement, FS_CardinalityType
  <2>5. tick[w].ok + tick[w].bad + Cardinality(tick[w].todo) = tick[w].n
    BY <1>1, <1>3 DEF EnqueueOne, BatchCounted
  <2>6. /\ t.ok \in Nat /\ t.bad \in Nat
        /\ tick[w].ok \in Nat /\ tick[w].bad \in Nat /\ tick[w].n \in Nat
    BY <1>1, <2>2 DEF Tick
  <2>7. t.ok + t.bad + Cardinality(t.todo) = t.n
    BY <2>2, <2>4, <2>5, <2>6
  <2>8. BatchCounted'
    BY <1>1, <2>1, <2>7, CountedUpdate
  <2> QED
    BY <1>1, <1>3, <2>8 DEF EnqueueOne, CountInv, CountersAgree
<1>4. CASE Commit(w)
  <2> DEFINE x == run.processed + tick[w].n
             y == run.success + tick[w].ok
             z == run.failed + tick[w].bad
             u == [tick[w] EXCEPT !.batch = @ + 1, !.pc = AfterCommit(tick[w])]
  <2>1. /\ tick[w].todo = {} /\ tick[w].pc = "enqueue"
        /\ run' = [run EXCEPT !.processed = x, !.success = y, !.failed = z,
                              !.cursor = tick[w].top]
        /\ tick' = [tick EXCEPT ![w] = u]
    BY <1>4 DEF Commit
  <2>2. /\ run.processed \in Nat /\ run.success \in Nat /\ run.failed \in Nat
        /\ tick[w].n \in Nat /\ tick[w].ok \in Nat /\ tick[w].bad \in Nat
    BY <1>1 DEF RowOK, Row, Tick
  <2>3. tick[w].ok + tick[w].bad = tick[w].n
    <3>1. tick[w].ok + tick[w].bad + Cardinality(tick[w].todo) = tick[w].n
      BY <1>1, <2>1 DEF BatchCounted
    <3>2. Cardinality(tick[w].todo) = 0
      BY <2>1, FS_EmptySet
    <3> QED
      BY <2>2, <3>1, <3>2
  <2>4. x = y + z
    BY <1>1, <2>2, <2>3 DEF CountersAgree
  <2>5. u.pc # "enqueue"
    BY <1>1 DEF AfterCommit, Tick
  <2> HIDE DEF x, y, z, u
  <2>6. run'.processed = x /\ run'.success = y /\ run'.failed = z
    BY <1>1, <2>1 DEF RowOK, Row
  <2>7. CountersAgree'
    BY <2>4, <2>6 DEF CountersAgree
  <2>8. BatchCounted'
    BY <1>1, <2>1, <2>5, CountedUpdate
  <2> QED
    BY <2>7, <2>8 DEF CountInv
<1>5. CASE Fetch(w)
  <2>1. PICK k \in Retries :
          tick' = [tick EXCEPT ![w] = [IdleTick EXCEPT !.pc = "read", !.att = k]]
    BY <1>5 DEF Fetch
  <2>2. [IdleTick EXCEPT !.pc = "read", !.att = k].pc # "enqueue"
    BY DEF IdleTick
  <2> DEFINE t == [IdleTick EXCEPT !.pc = "read", !.att = k]
  <2>3. tick' = [tick EXCEPT ![w] = t]
    BY <2>1
  <2>4. t.pc # "enqueue"
    BY <2>2
  <2> HIDE DEF t
  <2>5. BatchCounted'
    BY <1>1, <2>3, <2>4, CountedUpdate
  <2> QED
    BY <1>1, <1>5, <2>5 DEF Fetch, CountInv, CountersAgree
<1>6. CASE CheckStatus(w)
  <2>1. CASE Goto(w, "return")
    BY <1>1, <1>6, <2>1, CountedGoto DEF CheckStatus, CountInv, CountersAgree
  <2>2. CASE ~Goto(w, "return")
    <3> DEFINE t == [tick[w] EXCEPT !.pc = "load", !.cur = run.cursor]
    <3>1. tick' = [tick EXCEPT ![w] = t]
      BY <1>1, <1>6, <2>2 DEF CheckStatus
    <3>2. t.pc # "enqueue"
      BY <1>1 DEF Tick
    <3> HIDE DEF t
    <3>3. BatchCounted'
      BY <1>1, <3>1, <3>2, CountedUpdate
    <3> QED
      BY <1>1, <1>6, <3>3 DEF CheckStatus, CountInv, CountersAgree
  <2> QED
    BY <2>1, <2>2
<1>7. ASSUME Return(w) PROVE CountInv'
  <2>1. BatchCounted'
    BY <1>1, <1>7, CountedUpdate DEF Return, IdleTick
  <2> QED
    BY <1>1, <1>7, <2>1 DEF Return, CountInv, CountersAgree
<1>8. CASE ReadRun(w) \/ FinalCheck(w) \/ Requeue(w)
  <2>1. PICK label : Goto(w, label) /\ label # "enqueue"
    BY <1>8 DEF ReadRun, FinalCheck, Requeue
  <2> QED
    BY <1>1, <1>8, <2>1, CountedGoto
       DEF ReadRun, FinalCheck, Requeue, CountInv, CountersAgree
<1>9. CASE MarkRunning(w) \/ Complete(w) \/ MarkFailed(w)
  <2>1. PICK label : Goto(w, label) /\ label # "enqueue"
    BY <1>9 DEF MarkRunning, Complete, MarkFailed
  <2>2. UNCHANGED <<run.processed, run.success, run.failed>>
    BY <1>1, <1>9 DEF MarkRunning, Complete, MarkFailed, RowOK, Row
  <2> QED
    BY <1>1, <2>1, <2>2, CountedGoto DEF CountInv, CountersAgree
<1> QED
  BY <1>2, <1>3, <1>4, <1>5, <1>6, <1>7, <1>8, <1>9 DEF TickStep

\* Nobody else writes the counters of the row or those of a handler.
LEMMA CountRest ==
  ASSUME TypeInv, CountInv,
         \/ \E w \in Workers : Throw(w) \/ Crash(w)
         \/ \E a \in Admins : AdminBegin(a) \/ AdminStep(a) \/ AdminCrash(a)
         \/ \E k \in Retries : Expire(k)
         \/ \E i \in Illusts : Hydrated(i)
         \/ SlotElapses
         \/ UNCHANGED vars
  PROVE  CountInv'
<1>1. TickOK /\ RowOK /\ BatchCounted /\ CountersAgree
  BY DEF TypeInv, TypeOK, CountInv
<1>2. CASE run' = run /\ tick' = tick
  BY <1>1, <1>2 DEF CountInv, CountersAgree, BatchCounted
<1>3. ASSUME NEW w \in Workers, Throw(w) \/ Crash(w) PROVE CountInv'
  <2>1. run' = run /\ tick' = [tick EXCEPT ![w] = IdleTick]
    BY <1>3 DEF Throw, Crash
  <2>2. BatchCounted'
    BY <1>1, <2>1, CountedUpdate DEF IdleTick
  <2> QED
    BY <1>1, <2>1, <2>2 DEF CountInv, CountersAgree
<1>4. ASSUME NEW a \in Admins, AdminBegin(a) \/ AdminStep(a) \/ AdminCrash(a)
      PROVE  CountInv'
  <2>1. tick' = tick
    BY <1>4 DEF AdminBegin, AdminStep, Start, StartEnqueue, PauseRead, PauseWrite,
         ResumeRead, ResumeWrite, ResumeEnqueue, ResumeUndo, CancelRead,
         CancelWrite, DlqRetry, DlqRetryDelete, DlqDelete, AdminCrash
  <2>2. run' = run \/ \E s : run' = [run EXCEPT !.status = s]
    BY <1>4 DEF AdminBegin, AdminStep, Start, StartEnqueue, PauseRead, PauseWrite,
         ResumeRead, ResumeWrite, ResumeEnqueue, ResumeUndo, CancelRead,
         CancelWrite, DlqRetry, DlqRetryDelete, DlqDelete, AdminCrash
  <2>3. UNCHANGED <<run.processed, run.success, run.failed>>
    BY <1>1, <2>2 DEF RowOK, Row
  <2> QED
    BY <1>1, <2>1, <2>3 DEF CountInv, CountersAgree, BatchCounted
<1> QED
  BY <1>2, <1>3, <1>4 DEF Expire, Hydrated, SlotElapses, vars

\* In every reachable state the row counts each processed illust exactly once,
\* as a success or as a failure, for any number of concurrent handlers.
THEOREM CountersAlwaysAgree == Spec => []CountersAgree
<1>1. Init => CountInv
  BY DEF Init, CountInv, CountersAgree, BatchCounted, IdleTick
<1>2. TypeInv /\ CountInv /\ [Next]_vars => CountInv'
  BY CountStep, CountRest DEF Next
<1>3. CountInv => CountersAgree
  BY DEF CountInv
<1> QED
  BY <1>1, <1>2, <1>3, TypeInvariant, PTL DEF Spec

-----------------------------------------------------------------------------
(***************************************************************************)
(* The cursor.  NoSkippedIllust is about the row alone; to be inductive it *)
(* needs the same of the cursor each handler read, however stale, and of   *)
(* the batch it is in: what it has not requested yet is still in todo.     *)
(***************************************************************************)

\* What is known of a handler's record: below the cursor it read everything
\* was requested, and inside a batch everything but todo up to the batch's end.
TickCovers(t) ==
  /\ Covered(t.cur)
  /\ t.pc = "enqueue" =>
       \A i \in missing : i <= t.top => calls[i] > 0 \/ i \in t.todo

CoverInv == NoSkippedIllust /\ \A w \in Workers : TickCovers(tick[w])

LEMMA IdsAreNumbers == Ids \subseteq Nat
  BY DEF Ids

LEMMA CoveredZero == missing \subseteq Illusts => Covered(0)
  BY DEF Covered

\* Metadata only arrives and requests are only added, so what was covered
\* stays covered.
LEMMA CoveredStays ==
  ASSUME RowOK, missing' \subseteq missing,
         \A i \in Illusts : calls[i] > 0 => calls'[i] > 0
  PROVE  /\ \A c \in Ids : Covered(c) => Covered(c)'
         /\ \A t \in Tick : TickCovers(t) => TickCovers(t)'
<1>1. missing \subseteq Illusts
  BY DEF RowOK
<1>2. ASSUME NEW c \in Ids, Covered(c) PROVE Covered(c)'
  BY <1>1, <1>2 DEF Covered
<1>3. ASSUME NEW t \in Tick, TickCovers(t) PROVE TickCovers(t)'
  <2>1. Covered(t.cur)'
    BY <1>2, <1>3 DEF TickCovers, Tick
  <2>2. ASSUME t.pc = "enqueue", NEW i \in missing', i <= t.top
        PROVE  calls'[i] > 0 \/ i \in t.todo
    BY <1>1, <1>3, <2>2 DEF TickCovers
  <2> QED
    BY <2>1, <2>2 DEF TickCovers
<1> QED
  BY <1>2, <1>3

\* An id below the end of a batch is below its cursor or in it: the batch is
\* the ascending front of the missing ids above the cursor.
LEMMA NextBatchFront ==
  ASSUME missing \subseteq Illusts, NEW c \in Ids, NEW top \in NextBatch(c),
         NEW i \in missing, i <= top, c < i
  PROVE  i \in NextBatch(c)
<1> DEFINE Upto(x) == {j \in missing : c < j /\ j <= x}
<1>1. top \in Nat /\ i \in Nat /\ missing \subseteq Nat
  BY DEF NextBatch
<1>2. Upto(i) \subseteq Upto(top)
  <2>1. ASSUME NEW j \in missing, c < j, j <= i PROVE j <= top
    BY <1>1, <2>1
  <2> QED
    BY <2>1
<1>3. IsFiniteSet(Upto(top)) /\ IsFiniteSet(Upto(i))
  BY FS_Subset
<1>4. Cardinality(Upto(i)) <= Cardinality(Upto(top))
  BY <1>2, <1>3, FS_Subset
<1>5. Cardinality(Upto(top)) <= BatchSize
  BY DEF NextBatch
<1>6. Cardinality(Upto(i)) \in Nat /\ Cardinality(Upto(top)) \in Nat
  BY <1>3, FS_CardinalityType
<1>7. Cardinality(Upto(i)) <= BatchSize
  BY <1>4, <1>5, <1>6
<1> QED
  BY <1>7 DEF NextBatch

\* Replacing one handler's record while nothing else changes.
LEMMA CoverUpdate ==
  ASSUME TickOK, CoverInv, UNCHANGED <<missing, calls>>, NEW w \in Workers, NEW t,
         tick' = [tick EXCEPT ![w] = t], TickCovers(t),
         run'.cursor = run.cursor \/ Covered(run'.cursor)
  PROVE  CoverInv'
  BY DEF TickOK, CoverInv, TickCovers, NoSkippedIllust, Covered

LEMMA CoverGoto ==
  ASSUME TickOK, CoverInv, UNCHANGED <<missing, calls>>, NEW w \in Workers,
         NEW label, Goto(w, label), label # "enqueue",
         run'.cursor = run.cursor \/ Covered(run'.cursor)
  PROVE  CoverInv'
<1> DEFINE t == [tick[w] EXCEPT !.pc = label]
<1>1. t.pc = label /\ t.cur = tick[w].cur
  BY TickFields DEF Tick
<1>2. tick' = [tick EXCEPT ![w] = t]
  BY DEF Goto
<1>3. TickCovers(t)
  BY <1>1 DEF CoverInv, TickCovers
<1> HIDE DEF t
<1> QED
  BY <1>2, <1>3, CoverUpdate

LEMMA CoverIdle ==
  ASSUME RowOK, TickOK, CoverInv, UNCHANGED <<run, missing, calls>>,
         NEW w \in Workers, tick' = [tick EXCEPT ![w] = IdleTick]
  PROVE  CoverInv'
<1>1. TickCovers(IdleTick)
  BY CoveredZero DEF TickCovers, IdleTick, RowOK
<1> QED
  BY <1>1, CoverUpdate

LEMMA CoverStep ==
  ASSUME TypeInv, CoverInv, NEW w \in Workers, TickStep(w)
  PROVE  CoverInv'
<1>1. /\ RowOK /\ TickOK /\ tick[w] \in Tick /\ TickCovers(tick[w])
      /\ missing \subseteq Illusts
  BY TickFields DEF TypeInv, TypeOK, CoverInv, RowOK
<1>2. CASE Fetch(w)
  <2>1. PICK k \in Retries :
          tick' = [tick EXCEPT ![w] = [IdleTick EXCEPT !.pc = "read", !.att = k]]
    BY <1>2 DEF Fetch
  <2> DEFINE t == [IdleTick EXCEPT !.pc = "read", !.att = k]
  <2>2. t.pc # "enqueue" /\ t.cur = 0
    BY DEF IdleTick
  <2>3. tick' = [tick EXCEPT ![w] = t]
    BY <2>1
  <2>4. TickCovers(t)
    BY <1>1, <2>2, CoveredZero DEF TickCovers
  <2> HIDE DEF t
  <2> QED
    BY <1>1, <1>2, <2>3, <2>4, CoverUpdate DEF Fetch
<1>3. CASE CheckStatus(w)
  <2>1. CASE Goto(w, "return")
    BY <1>1, <1>3, <2>1, CoverGoto DEF CheckStatus
  <2>2. CASE ~Goto(w, "return")
    <3> DEFINE t == [tick[w] EXCEPT !.pc = "load", !.cur = run.cursor]
    <3>1. tick' = [tick EXCEPT ![w] = t]
      BY <1>1, <1>3, <2>2 DEF CheckStatus
    <3>2. t.pc = "load" /\ t.cur = run.cursor
      BY <1>1 DEF Tick
    <3>3. TickCovers(t)
      BY <3>2 DEF TickCovers, CoverInv, NoSkippedIllust
    <3> HIDE DEF t
    <3> QED
      BY <1>1, <1>3, <3>1, <3>3, CoverUpdate DEF CheckStatus
  <2> QED
    BY <2>1, <2>2
<1>4. CASE LoadBatch(w)
  <2>1. CASE Goto(w, "complete")
    BY <1>1, <1>4, <2>1, CoverGoto DEF LoadBatch
  <2>2. CASE ~Goto(w, "complete")
    <3> DEFINE batch == NextBatch(tick[w].cur)
               u(top) == [pc |-> "enqueue", att |-> tick[w].att,
                          batch |-> tick[w].batch, cur |-> tick[w].cur,
                          top |-> top, n |-> Cardinality(batch),
                          todo |-> batch, ok |-> 0, bad |-> 0, err |-> "none"]
    <3>1. PICK top \in batch : tick' = [tick EXCEPT ![w] = u(top)]
      BY <1>4, <2>2 DEF LoadBatch
    <3>2. tick[w].cur \in Ids
      BY <1>1 DEF Tick
    <3>3. ASSUME NEW i \in missing, i <= top PROVE calls[i] > 0 \/ i \in batch
      <4>1. CASE i <= tick[w].cur
        BY <1>1, <4>1 DEF TickCovers, Covered
      <4>2. CASE tick[w].cur < i
        BY <1>1, <3>1, <3>2, <3>3, <4>2, NextBatchFront
      <4>3. i \in Nat
        BY <1>1
      <4>4. tick[w].cur \in Nat
        BY <3>2, IdsAreNumbers
      <4> QED
        BY <4>1, <4>2, <4>3, <4>4
    <3>4. TickCovers(u(top))
      BY <1>1, <3>3 DEF TickCovers
    <3> HIDE DEF u
    <3> QED
      BY <1>1, <1>4, <3>1, <3>4, CoverUpdate DEF LoadBatch
  <2> QED
    BY <2>1, <2>2
<1>5. CASE EnqueueOne(w)
  <2>1. PICK i \in tick[w].todo :
          /\ calls' = [calls EXCEPT ![i] = @ + 1]
          /\ \E t \in Requested(tick[w], i) : tick' = [tick EXCEPT ![w] = t]
    BY <1>5 DEF EnqueueOne
  <2>2. PICK t \in Requested(tick[w], i) : tick' = [tick EXCEPT ![w] = t]
    BY <2>1
  <2>3. /\ t \in Tick /\ t.pc = tick[w].pc /\ t.cur = tick[w].cur
        /\ t.top = tick[w].top /\ t.todo = tick[w].todo \ {i}
    BY <1>1, <2>2, RequestedTick
  <2>4. i \in Illusts /\ calls \in [Illusts -> Nat]
    BY <1>1, <2>1 DEF Tick, RowOK
  <2>5. calls'[i] > 0 /\ \A j \in Illusts : calls[j] > 0 => calls'[j] > 0
    <3>1. calls'[i] = calls[i] + 1 /\ calls[i] \in Nat
      BY <2>1, <2>4
    <3>2. \A j \in Illusts : j # i => calls'[j] = calls[j]
      BY <2>1, <2>4
    <3>3. calls'[i] > 0
      BY <3>1
    <3>4. ASSUME NEW j \in Illusts, calls[j] > 0 PROVE calls'[j] > 0
      <4>1. CASE j = i
        BY <3>3, <4>1
      <4>2. CASE j # i
        BY <3>2, <3>4, <4>2
      <4> QED
        BY <4>1, <4>2
    <3> QED
      BY <3>3, <3>4
  <2>6. missing' = missing /\ run' = run
    BY <1>5 DEF EnqueueOne
  <2>7. /\ \A c \in Ids : Covered(c) => Covered(c)'
        /\ \A u \in Tick : TickCovers(u) => TickCovers(u)'
    BY <1>1, <2>5, <2>6, CoveredStays
  <2>8. TickCovers(t)'
    <3>1. Covered(t.cur)'
      BY <1>1, <2>3, <2>7 DEF TickCovers, Tick
    <3>2. ASSUME t.pc = "enqueue", NEW j \in missing', j <= t.top
          PROVE  calls'[j] > 0 \/ j \in t.todo
      BY <1>1, <2>3, <2>5, <2>6, <3>2 DEF TickCovers
    <3> QED
      BY <3>1, <3>2 DEF TickCovers
  <2>9. ASSUME NEW v \in Workers, v # w PROVE TickCovers(tick[v])'
    <3>1. PICK u \in Tick : u = tick[v] /\ TickCovers(u)
      BY <1>1 DEF TickOK, CoverInv
    <3>2. tick'[v] = u
      BY <1>1, <2>2, <2>9, <3>1 DEF TickOK
    <3>3. TickCovers(u)'
      BY <2>7, <3>1
    <3> QED
      BY <3>2, <3>3 DEF TickCovers, Covered
  <2>10. TickCovers(tick[w])'
    <3>1. tick'[w] = t
      BY <1>1, <2>2 DEF TickOK
    <3> QED
      BY <2>8, <3>1 DEF TickCovers, Covered
  <2>11. NoSkippedIllust'
    <3>1. PICK c \in Ids : c = run.cursor /\ Covered(c)
      BY <1>1 DEF CoverInv, NoSkippedIllust, RowOK, Row
    <3>2. Covered(c)' /\ run'.cursor = c
      BY <2>6, <2>7, <3>1
    <3> QED
      BY <3>2 DEF NoSkippedIllust, Covered
  <2> QED
    BY <2>9, <2>10, <2>11 DEF CoverInv
<1>6. CASE Commit(w)
  <2> DEFINE u == [tick[w] EXCEPT !.batch = @ + 1, !.pc = AfterCommit(tick[w])]
  <2>1. /\ tick[w].pc = "enqueue" /\ tick[w].todo = {}
        /\ tick' = [tick EXCEPT ![w] = u]
        /\ UNCHANGED <<missing, calls>>
    BY <1>6 DEF Commit
  <2>2. run'.cursor = tick[w].top
    BY <1>1, <1>6 DEF Commit, RowOK, Row
  <2>3. Covered(tick[w].top)
    BY <1>1, <2>1 DEF TickCovers, Covered
  <2>4. u.pc # "enqueue" /\ u.cur = tick[w].cur
    BY <1>1 DEF AfterCommit, Tick
  <2>5. TickCovers(u)
    BY <1>1, <2>4 DEF TickCovers
  <2> HIDE DEF u
  <2> QED
    BY <1>1, <2>1, <2>2, <2>3, <2>5, CoverUpdate
<1>7. CASE Complete(w)
  <2>1. run'.cursor = tick[w].cur /\ Covered(tick[w].cur)
    BY <1>1, <1>7 DEF Complete, RowOK, Row, TickCovers
  <2> QED
    BY <1>1, <1>7, <2>1, CoverGoto DEF Complete
<1>8. CASE MarkRunning(w) \/ MarkFailed(w)
  <2>1. run'.cursor = run.cursor
    BY <1>1, <1>8 DEF MarkRunning, MarkFailed, RowOK, Row
  <2>2. PICK label : Goto(w, label) /\ label # "enqueue"
    BY <1>8 DEF MarkRunning, MarkFailed
  <2>3. UNCHANGED <<missing, calls>>
    BY <1>8 DEF MarkRunning, MarkFailed
  <2> QED
    BY <1>1, <2>1, <2>2, <2>3, CoverGoto
<1>9. CASE ReadRun(w) \/ FinalCheck(w) \/ Requeue(w)
  <2>1. PICK label : Goto(w, label) /\ label # "enqueue"
    BY <1>9 DEF ReadRun, FinalCheck, Requeue
  <2>2. UNCHANGED <<run, missing, calls>>
    BY <1>9 DEF ReadRun, FinalCheck, Requeue
  <2> QED
    BY <1>1, <2>1, <2>2, CoverGoto
<1>10. CASE Return(w)
  BY <1>1, <1>10, CoverIdle DEF Return
<1> QED
  BY <1>2, <1>3, <1>4, <1>5, <1>6, <1>7, <1>8, <1>9, <1>10 DEF TickStep

\* Interrupted handlers forget their batch; the console and the queue touch
\* neither the cursor nor the requests; other jobs only bring metadata.
LEMMA CoverRest ==
  ASSUME TypeInv, CoverInv,
         \/ \E w \in Workers : Throw(w) \/ Crash(w)
         \/ \E a \in Admins : AdminBegin(a) \/ AdminStep(a) \/ AdminCrash(a)
         \/ \E k \in Retries : Expire(k)
         \/ \E i \in Illusts : Hydrated(i)
         \/ SlotElapses
         \/ UNCHANGED vars
  PROVE  CoverInv'
<1>1. RowOK /\ TickOK
  BY DEF TypeInv, TypeOK
<1>2. CASE run'.cursor = run.cursor /\ UNCHANGED <<tick, missing, calls>>
  BY <1>1, <1>2 DEF CoverInv, NoSkippedIllust, TickCovers, Covered
<1>3. ASSUME NEW w \in Workers, Throw(w) \/ Crash(w) PROVE CoverInv'
  <2>1. UNCHANGED <<run, missing, calls>> /\ tick' = [tick EXCEPT ![w] = IdleTick]
    BY <1>3 DEF Throw, Crash
  <2> QED
    BY <1>1, <2>1, CoverIdle
<1>4. ASSUME NEW a \in Admins, AdminBegin(a) \/ AdminStep(a) \/ AdminCrash(a)
      PROVE  CoverInv'
  <2>1. UNCHANGED <<tick, missing, calls>>
    BY <1>4 DEF AdminBegin, AdminStep, Start, StartEnqueue, PauseRead, PauseWrite,
         ResumeRead, ResumeWrite, ResumeEnqueue, ResumeUndo, CancelRead,
         CancelWrite, DlqRetry, DlqRetryDelete, DlqDelete, AdminCrash
  <2>2. run' = run \/ \E s : run' = [run EXCEPT !.status = s]
    BY <1>4 DEF AdminBegin, AdminStep, Start, StartEnqueue, PauseRead, PauseWrite,
         ResumeRead, ResumeWrite, ResumeEnqueue, ResumeUndo, CancelRead,
         CancelWrite, DlqRetry, DlqRetryDelete, DlqDelete, AdminCrash
  <2>3. run'.cursor = run.cursor
    BY <1>1, <2>2 DEF RowOK, Row
  <2> QED
    BY <1>2, <2>1, <2>3
<1>5. ASSUME NEW h \in Illusts, Hydrated(h) PROVE CoverInv'
  <2>1. UNCHANGED <<run, calls, tick>> /\ missing' \subseteq missing
    BY <1>5 DEF Hydrated
  <2> QED
    BY <1>1, <2>1 DEF CoverInv, NoSkippedIllust, TickCovers, Covered
<1> QED
  BY <1>2, <1>3, <1>4, <1>5 DEF Expire, SlotElapses, vars

\* In every reachable state, every illust at or below the row's cursor that
\* still lacks metadata was requested: no interleaving of handlers, crashes,
\* retries and console operations lets the backfill pass an illust over.
THEOREM NothingSkipped == Spec => []NoSkippedIllust
<1>1. Init => CoverInv
  <2> SUFFICES ASSUME Init PROVE CoverInv
    OBVIOUS
  <2>1. Covered(0)
    BY CoveredZero DEF Init
  <2> QED
    BY <2>1 DEF Init, CoverInv, NoSkippedIllust, TickCovers, IdleTick
<1>2. TypeInv /\ CoverInv /\ [Next]_vars => CoverInv'
  BY CoverStep, CoverRest DEF Next
<1>3. CoverInv => NoSkippedIllust
  BY DEF CoverInv
<1> QED
  BY <1>1, <1>2, <1>3, TypeInvariant, PTL DEF Spec

-----------------------------------------------------------------------------
(***************************************************************************)
(* The run's job.  NoSilentStall is inductive on the typed states: each    *)
(* step hands the run to a driver, ends it, or records the job as lost.    *)
(***************************************************************************)

\* A step that takes no driver away keeps the run driven.
LEMMA DriversStay ==
  ASSUME NoSilentStall,
         run'.status \in Live => run.status \in Live,
         lost' = "none" => lost = "none",
         \A k \in Retries : waiting[k] > 0 => waiting'[k] > 0,
         \A k \in Retries : orphans[k] > 0 => orphans'[k] > 0,
         \A w \in Workers : Driving(w) => Driving(w)',
         \A a \in Admins : AdminDriving(a) => AdminDriving(a)'
  PROVE  NoSilentStall'
  BY DEF NoSilentStall, HasDriver

\* A send leaves the run a job, or says why not.
LEMMA SendDrives ==
  ASSUME JobsOK, EnqueueRun
  PROVE  NoSilentStall'
<1>1. CASE slot = "free"
  <2>1. waiting'[0] > 0 /\ 0 \in Retries
    BY <1>1 DEF EnqueueRun, JobsOK, Retries
  <2> QED
    BY <2>1 DEF NoSilentStall, HasDriver
<1>2. CASE lost' = "throttled"
  BY <1>2 DEF NoSilentStall
<1> QED
  BY <1>1, <1>2 DEF EnqueueRun

\* So does a retry.
LEMMA RetryDrives ==
  ASSUME JobsOK, NEW k \in Retries, RetryOrDeadLetter(k)
  PROVE  NoSilentStall'
<1>1. CASE k < RetryLimit
  <2>1. waiting'[k + 1] > 0 /\ k + 1 \in Retries
    BY <1>1 DEF RetryOrDeadLetter, JobsOK, Retries
  <2> QED
    BY <2>1 DEF NoSilentStall, HasDriver
<1>2. CASE lost' = "dead_letter"
  BY <1>2 DEF NoSilentStall
<1> QED
  BY <1>1, <1>2 DEF RetryOrDeadLetter, Retries

\* A handler that is inside the loop drives the run itself.
LEMMA DrivingTick ==
  ASSUME NEW w \in Workers, Driving(w)'
  PROVE  NoSilentStall'
  BY DEF NoSilentStall, HasDriver

LEMMA DriverStep ==
  ASSUME TypeInv, NoSilentStall, NEW w \in Workers, TickStep(w)
  PROVE  NoSilentStall'
<1>1. JobsOK /\ TickOK /\ RowOK /\ tick[w] \in Tick
  BY TickFields DEF TypeInv, TypeOK
<1>2. ASSUME NEW label, Goto(w, label), label \notin {"idle", "return"}
      PROVE  NoSilentStall'
  <2>1. tick'[w].pc = label
    BY <1>1, <1>2 DEF Goto, TickOK, Tick
  <2> QED
    BY <1>2, <2>1, DrivingTick DEF Driving
<1>3. CASE run'.status \notin Live
  BY <1>3 DEF NoSilentStall
<1>4. CASE Fetch(w)
  <2>1. PICK k \in Retries :
          tick' = [tick EXCEPT ![w] = [IdleTick EXCEPT !.pc = "read", !.att = k]]
    BY <1>4 DEF Fetch
  <2>2. [IdleTick EXCEPT !.pc = "read", !.att = k].pc = "read"
    BY DEF IdleTick
  <2>3. tick'[w].pc = "read"
    BY <1>1, <2>1, <2>2 DEF TickOK
  <2> QED
    BY <2>3, DrivingTick DEF Driving
<1>5. CASE ReadRun(w) \/ MarkRunning(w) \/ FinalCheck(w)
  BY <1>2, <1>3, <1>5 DEF ReadRun, MarkRunning, FinalCheck, Live
<1>6. CASE CheckStatus(w)
  <2>1. CASE run.status \in Live
    <3>1. tick'[w].pc = "load"
      BY <1>1, <1>6, <2>1 DEF CheckStatus, TickOK, Tick
    <3> QED
      BY <3>1, DrivingTick DEF Driving
  <2>2. CASE run.status \notin Live
    BY <1>3, <1>6, <2>2 DEF CheckStatus
  <2> QED
    BY <2>1, <2>2
<1>7. CASE LoadBatch(w)
  <2>1. CASE Goto(w, "complete")
    BY <1>2, <2>1
  <2>2. CASE ~Goto(w, "complete")
    <3>1. tick'[w].pc = "enqueue"
      BY <1>1, <1>7, <2>2 DEF LoadBatch, TickOK
    <3> QED
      BY <3>1, DrivingTick DEF Driving
  <2> QED
    BY <2>1, <2>2
<1>8. CASE Complete(w) \/ MarkFailed(w)
  BY <1>1, <1>3, <1>8 DEF Complete, MarkFailed, RowOK, Row, Live
<1>9. CASE EnqueueOne(w)
  <2>1. PICK i \in tick[w].todo :
          \E t \in Requested(tick[w], i) : tick' = [tick EXCEPT ![w] = t]
    BY <1>9 DEF EnqueueOne
  <2>2. PICK t \in Requested(tick[w], i) : tick' = [tick EXCEPT ![w] = t]
    BY <2>1
  <2>3. t.pc = "enqueue"
    BY <1>1, <1>9, <2>2, RequestedTick DEF EnqueueOne
  <2>4. tick'[w].pc = "enqueue"
    BY <1>1, <2>2, <2>3 DEF TickOK
  <2> QED
    BY <2>4, DrivingTick DEF Driving
<1>10. CASE Commit(w)
  <2>1. tick'[w].pc = AfterCommit(tick[w])
    BY <1>1, <1>10 DEF Commit, TickOK, Tick
  <2>2. AfterCommit(tick[w]) \in {"markfailed", "final", "check"}
    BY DEF AfterCommit
  <2> QED
    BY <2>1, <2>2, DrivingTick DEF Driving
<1>11. CASE Requeue(w)
  BY <1>1, <1>11, SendDrives DEF Requeue
<1>12. CASE Return(w)
  <2>1. ~Driving(w)
    BY <1>12 DEF Return, Driving
  <2>2. \A v \in Workers : v # w => tick'[v] = tick[v]
    BY <1>1, <1>12 DEF Return, TickOK
  <2>3. \A v \in Workers : Driving(v) => Driving(v)'
    BY <2>1, <2>2 DEF Driving
  <2>4. UNCHANGED <<run, lost, waiting, orphans, admin>>
    BY <1>12 DEF Return, queueVars
  <2> QED
    BY <2>3, <2>4, DriversStay DEF AdminDriving
<1> QED
  BY <1>4, <1>5, <1>6, <1>7, <1>8, <1>9, <1>10, <1>11, <1>12 DEF TickStep

LEMMA DriverInterrupt ==
  ASSUME TypeInv, NEW w \in Workers, Throw(w) \/ Crash(w)
  PROVE  NoSilentStall'
<1>1. JobsOK /\ tick[w].att \in Retries
  BY TickFields DEF TypeInv, TypeOK
<1>2. CASE Throw(w)
  BY <1>1, <1>2, RetryDrives DEF Throw
<1>3. CASE Crash(w)
  <2>1. orphans'[tick[w].att] > 0
    BY <1>1, <1>3 DEF Crash, JobsOK
  <2> QED
    BY <1>1, <2>1 DEF NoSilentStall, HasDriver
<1> QED
  BY <1>2, <1>3

\* A request whose next step does not send a job is no driver: it may end.
LEMMA RequestEnds ==
  ASSUME AdminOK, NoSilentStall, NEW a \in Admins, ~AdminDriving(a),
         NEW r, admin' = [admin EXCEPT ![a] = r],
         UNCHANGED <<tick, waiting, orphans>>,
         run'.status \in Live => run.status \in Live,
         lost' = "none" => lost = "none"
  PROVE  NoSilentStall'
<1>1. \A b \in Admins : AdminDriving(b) => AdminDriving(b)'
  BY DEF AdminOK, AdminDriving
<1> QED
  BY <1>1, DriversStay DEF Driving

LEMMA DriverAdmin ==
  ASSUME TypeInv, NoSilentStall, NEW a \in Admins,
         AdminBegin(a) \/ AdminStep(a) \/ AdminCrash(a)
  PROVE  NoSilentStall'
<1>1. JobsOK /\ AdminOK /\ RowOK
  BY DEF TypeInv, TypeOK
<1>2. ASSUME NEW label, AdminGoto(a, label),
             label \in {"start_enqueue", "resume_enqueue", "resume_undo"}
      PROVE  NoSilentStall'
  <2>1. admin'[a].pc = label
    BY <1>1, <1>2 DEF AdminGoto, AdminOK
  <2> QED
    BY <1>2, <2>1 DEF NoSilentStall, HasDriver, AdminDriving
<1>3. CASE run'.status \notin Live
  BY <1>3 DEF NoSilentStall
<1>4. CASE lost' # "none"
  BY <1>4 DEF NoSilentStall
<1>5. CASE Start(a)
  BY <1>2, <1>5 DEF Start
<1>6. CASE ResumeWrite(a)
  BY <1>2, <1>6 DEF ResumeWrite
<1>7. CASE StartEnqueue(a)
  BY <1>1, <1>4, <1>7, SendDrives DEF StartEnqueue
<1>8. CASE ResumeEnqueue(a)
  BY <1>1, <1>2, <1>8, SendDrives DEF ResumeEnqueue
<1>9. CASE PauseWrite(a) \/ ResumeUndo(a) \/ CancelWrite(a)
  BY <1>1, <1>3, <1>9 DEF PauseWrite, ResumeUndo, CancelWrite, RowOK, Row, Live
<1>10. CASE PauseRead(a) \/ ResumeRead(a) \/ CancelRead(a)
  <2>1. PICK label : AdminGoto(a, label)
    BY <1>10 DEF PauseRead, ResumeRead, CancelRead
  <2>2. admin' = [admin EXCEPT ![a] = [admin[a] EXCEPT !.pc = label]]
    BY <1>1, <2>1 DEF AdminGoto, AdminOK
  <2>3. ~AdminDriving(a)
    BY <1>10 DEF PauseRead, ResumeRead, CancelRead, AdminRequest, AdminDriving
  <2>4. UNCHANGED <<run, tick, waiting, orphans, lost>>
    BY <1>10 DEF PauseRead, ResumeRead, CancelRead, queueVars
  <2> QED
    BY <1>1, <2>2, <2>3, <2>4, RequestEnds
<1>11. CASE DlqRetry(a)
  <2>1. CASE EnqueueRun
    BY <1>1, <2>1, SendDrives
  <2>2. CASE ~EnqueueRun
    <3>1. UNCHANGED <<run, tick, waiting, orphans, lost, admin>>
      BY <1>11, <2>2 DEF DlqRetry, queueVars
    <3> QED
      BY <3>1, DriversStay DEF Driving, AdminDriving
  <2> QED
    BY <2>1, <2>2
<1>12. CASE DlqRetryDelete(a)
  <2>1. ~AdminDriving(a)
    BY <1>12 DEF DlqRetryDelete, AdminDriving
  <2>2. /\ UNCHANGED <<run, tick, waiting, orphans, lost>>
        /\ admin' = [admin EXCEPT ![a] = IdleAdmin]
    BY <1>12 DEF DlqRetryDelete
  <2> QED
    BY <1>1, <2>1, <2>2, RequestEnds
<1>13. CASE DlqDelete(a)
  <2>1. /\ UNCHANGED <<run, tick, waiting, orphans, admin>>
        /\ lost' = "none" => lost = "none"
    BY <1>13 DEF DlqDelete
  <2> QED
    BY <2>1, DriversStay DEF Driving, AdminDriving
<1>14. CASE AdminCrash(a)
  <2>1. CASE AdminDriving(a)
    BY <1>4, <1>14, <2>1 DEF AdminCrash, AdminDriving
  <2>2. CASE ~AdminDriving(a)
    <3>1. /\ UNCHANGED <<run, tick, waiting, orphans, lost>>
          /\ admin' = [admin EXCEPT ![a] = IdleAdmin]
      BY <1>14, <2>2 DEF AdminCrash, AdminDriving
    <3> QED
      BY <1>1, <2>2, <3>1, RequestEnds
  <2> QED
    BY <2>1, <2>2
<1> QED
  BY <1>5, <1>6, <1>7, <1>8, <1>9, <1>10, <1>11, <1>12, <1>13, <1>14
     DEF AdminBegin, AdminStep

\* In every reachable state a live run has a waiting job, an active one, a
\* handler or a request that will still act for it, unless its last job was
\* lost in one of the recorded ways: no other path of the code strands it.
THEOREM NeverSilentlyStalled == Spec => []NoSilentStall
<1>1. Init => NoSilentStall
  BY DEF Init, NoSilentStall, Live
<1>2. TypeInv /\ NoSilentStall /\ [Next]_vars => NoSilentStall'
  <2> SUFFICES ASSUME TypeInv, NoSilentStall, [Next]_vars PROVE NoSilentStall'
    OBVIOUS
  <2>1. ASSUME NEW k \in Retries, Expire(k) PROVE NoSilentStall'
    BY <2>1, RetryDrives DEF Expire, TypeInv, TypeOK
  <2>2. CASE (\E i \in Illusts : Hydrated(i)) \/ SlotElapses \/ UNCHANGED vars
    <3>1. UNCHANGED <<run, tick, waiting, orphans, lost, admin>>
      BY <2>2 DEF Hydrated, SlotElapses, vars, queueVars
    <3> QED
      BY <3>1, DriversStay DEF Driving, AdminDriving
  <2> QED
    BY <2>1, <2>2, DriverStep, DriverInterrupt, DriverAdmin DEF Next
<1> QED
  BY <1>1, <1>2, TypeInvariant, PTL DEF Spec
=============================================================================
