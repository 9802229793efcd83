------------------------- MODULE HydrationBackfill -------------------------
(***************************************************************************)
(* The metadata backfill of src/jobs/hydrationBackfill.ts: one             *)
(* HydrationRun row, the pg-boss queue of its jobs, the handlers ("ticks") *)
(* that the worker processes run, and the admin console's operations on    *)
(* the row (src/admin/adminJs.ts).  Every await of a handler is a step of  *)
(* its own, so the handlers interleave as they do around the database.     *)
(*                                                                         *)
(* Time is only what the queue sees of it: a job is sent with a throttle   *)
(* of two seconds keyed by the run, so at most one job is created in each  *)
(* two-second slot.  slot says whether the current slot has its job.  *)
(***************************************************************************)
EXTENDS Integers, FiniteSets

CONSTANTS
  Illusts,        (* illust ids of the images the run's criteria select     *)
  BatchSize,      (* criteria.batchSize: ids loaded per batch               *)
  MaxBatches,     (* MAX_BATCHES_PER_JOB: batches per job                   *)
  RetryLimit,     (* retries the queue gives a failed or expired job        *)
  Workers,        (* handlers that may run at once: one per process         *)
  Admins,         (* concurrent requests to the admin console               *)
  EnqueueErrors,  (* how enqueueHydrateMetadata may fail: failed, disabled  *)
  MaxFaults,      (* bound: crashes, thrown handlers, failed sends          *)
  MaxAdminOps     (* bound: pause, resume, cancel and DLQ requests          *)

ASSUME BackfillAssumption ==
  /\ Illusts \subseteq Nat \ {0} /\ IsFiniteSet(Illusts)
  /\ BatchSize \in Nat \ {0}
  /\ MaxBatches \in Nat \ {0}
  /\ RetryLimit \in Nat
  /\ EnqueueErrors \subseteq {"failed", "disabled"}
  /\ MaxFaults \in Nat
  /\ MaxAdminOps \in Nat

VARIABLES
  run,        (* the HydrationRun row                                      *)
  missing,    (* illusts whose images still lack metadata                  *)
  calls,      (* calls of enqueueHydrateMetadata made per illust           *)
  waiting,    (* jobs waiting in the queue, by the retries they had        *)
  orphans,    (* active jobs whose process died, by the retries they had   *)
  dlq,        (* dead-lettered jobs                                        *)
  deaths,     (* dead-lettered jobs so far: numbers the entries of dlq     *)
  slot,       (* taken: a job of the run was created in the current slot   *)
  tick,       (* the handler each worker runs                              *)
  admin,      (* the request each admin is in                              *)
  lost,       (* why the last attempt to have a job for the run failed     *)
  faults, adminOps   (* how much of the bounds is used                     *)

queueVars == <<waiting, orphans, dlq, deaths, slot, lost>>
vars == <<run, missing, calls, queueVars, tick, admin, faults, adminOps>>

Live     == {"pending", "running"}
Terminal == {"completed", "canceled", "failed"}
Statuses == {"none", "paused"} \union Live \union Terminal
Retries  == 0..RetryLimit
Ids      == Illusts \union {0}   (* 0: no last_illust_id in the cursor      *)

TickPCs  == {"idle", "read", "mark", "check", "load", "enqueue", "complete",
             "markfailed", "final", "requeue", "return"}
AdminPCs == {"idle", "start_enqueue", "pause", "resume", "resume_enqueue",
             "resume_undo", "cancel", "dlq_delete"}
LostWhy  == {"none", "throttled", "dead_letter", "deleted", "crash", "error"}

IdleTick  == [pc |-> "idle", att |-> 0, batch |-> 0, cur |-> 0, top |-> 0,
              n |-> 0, todo |-> {}, ok |-> 0, bad |-> 0, err |-> "none"]
IdleAdmin == [pc |-> "idle", entry |-> 0]

Row  == [status: Statuses, cursor: Ids, processed: Nat, success: Nat, failed: Nat]
Tick == [pc: TickPCs, att: Retries, batch: 0..MaxBatches, cur: Ids, top: Ids,
         n: Nat, todo: SUBSET Illusts, ok: Nat, bad: Nat,
         err: {"none", "failed", "disabled"}]

RowOK   == run \in Row /\ missing \subseteq Illusts /\ calls \in [Illusts -> Nat]
JobsOK  == waiting \in [Retries -> Nat] /\ orphans \in [Retries -> Nat]
DlqOK   == /\ deaths \in Nat /\ dlq \subseteq 1..deaths
           /\ slot \in {"free", "taken"} /\ lost \in LostWhy
TickOK  == tick \in [Workers -> Tick]
AdminOK == admin \in [Admins -> [pc: AdminPCs, entry: Nat]]
BoundOK == faults \in 0..MaxFaults /\ adminOps \in 0..MaxAdminOps

\* Type correctness: the row, the queue, the handlers and the requests.
TypeOK == RowOK /\ JobsOK /\ DlqOK /\ TickOK /\ AdminOK /\ BoundOK

Init ==
  /\ run = [status |-> "none", cursor |-> 0,
            processed |-> 0, success |-> 0, failed |-> 0]
  /\ missing = Illusts
  /\ calls = [i \in Illusts |-> 0]
  /\ waiting = [k \in Retries |-> 0] /\ orphans = [k \in Retries |-> 0]
  /\ dlq = {} /\ deaths = 0
  /\ slot = "free"
  /\ tick = [w \in Workers |-> IdleTick]
  /\ admin = [a \in Admins |-> IdleAdmin]
  /\ lost = "none"
  /\ faults = 0 /\ adminOps = 0

-----------------------------------------------------------------------------
(***************************************************************************)
(* The queue.                                                              *)
(***************************************************************************)

\* sendThrottled creates the job, or answers null when the current slot
\* already has one for this run: null is not an error for any caller.
EnqueueRun ==
  /\ UNCHANGED <<orphans, dlq, deaths>>
  /\ \/ /\ slot = "free"
        /\ waiting' = [waiting EXCEPT ![0] = @ + 1]
        /\ slot' = "taken"
        /\ lost' = "none"
     \/ /\ slot = "taken"
        /\ lost' = "throttled"
        /\ UNCHANGED <<waiting, slot>>

\* A job failed or expired after k retries: it waits again, or goes to the DLQ.
RetryOrDeadLetter(k) ==
  \/ /\ k < RetryLimit
     /\ waiting' = [waiting EXCEPT ![k + 1] = @ + 1]
     /\ UNCHANGED <<dlq, deaths, lost>>
  \/ /\ k = RetryLimit
     /\ deaths' = deaths + 1
     /\ dlq' = dlq \union {deaths + 1}
     /\ lost' = "dead_letter"
     /\ UNCHANGED waiting

Fault == faults < MaxFaults /\ faults' = faults + 1

\* The two-second throttle slot ends.
SlotElapses ==
  /\ slot = "taken" /\ slot' = "free"
  /\ UNCHANGED <<run, missing, calls, waiting, orphans, dlq, deaths, tick,
                 admin, lost, faults, adminOps>>

\* The active job of a dead process expires.
Expire(k) ==
  /\ orphans[k] > 0
  /\ orphans' = [orphans EXCEPT ![k] = @ - 1]
  /\ RetryOrDeadLetter(k)
  /\ UNCHANGED <<run, missing, calls, slot, tick, admin, faults, adminOps>>

\* Another job, or a request, stores the metadata of illust i.
Hydrated(i) ==
  /\ i \in missing
  /\ missing' = missing \ {i}
  /\ UNCHANGED <<run, calls, queueVars, tick, admin, faults, adminOps>>

-----------------------------------------------------------------------------
(***************************************************************************)
(* The handler, processBackfillRun.                                        *)
(***************************************************************************)

Goto(w, label) == tick' = [tick EXCEPT ![w].pc = label]

\* The batch without its ascending order: the last ids of the catalogue first.
NextBatchDescending(c) ==
  {i \in missing : i > c /\ Cardinality({j \in missing : i <= j}) <= BatchSize}

\* The first BatchSize ids above c that are missing metadata.
NextBatch(c) ==
  {i \in missing :
     i > c /\ Cardinality({j \in missing : c < j /\ j <= i}) <= BatchSize}

\* The worker fetches a job and calls the handler.
Fetch(w) ==
  /\ tick[w].pc = "idle"
  /\ \E k \in Retries :
       /\ waiting[k] > 0
       /\ waiting' = [waiting EXCEPT ![k] = @ - 1]
       /\ tick' = [tick EXCEPT ![w] = [IdleTick EXCEPT !.pc = "read", !.att = k]]
  /\ UNCHANGED <<run, missing, calls, orphans, dlq, deaths, slot, admin,
                 lost, faults, adminOps>>

\* Reads the row: a paused or ended run ends the handler without a new job.
ReadRun(w) ==
  /\ tick[w].pc = "read"
  /\ Goto(w, CASE run.status = "pending" -> "mark"
               [] run.status = "running" -> "check"
               [] OTHER -> "return")
  /\ UNCHANGED <<run, missing, calls, queueVars, admin, faults, adminOps>>

\* pending becomes running, if it is still pending.
MarkRunning(w) ==
  /\ tick[w].pc = "mark"
  /\ run' = IF run.status = "pending" THEN [run EXCEPT !.status = "running"]
                                      ELSE run
  /\ Goto(w, "check")
  /\ UNCHANGED <<missing, calls, queueVars, admin, faults, adminOps>>

\* Top of the batch loop: reads status and cursor again.
CheckStatus(w) ==
  /\ tick[w].pc = "check"
  /\ IF run.status \in Live
     THEN tick' = [tick EXCEPT ![w].pc = "load", ![w].cur = run.cursor]
     ELSE Goto(w, "return")
  /\ UNCHANGED <<run, missing, calls, queueVars, admin, faults, adminOps>>

LoadBatch(w) ==
  LET batch == NextBatch(tick[w].cur) IN
  /\ tick[w].pc = "load"
  /\ \/ /\ batch = {}
        /\ Goto(w, "complete")
     \/ \E top \in batch :
          /\ \A i \in batch : i <= top
          /\ tick' = [tick EXCEPT ![w] =
               [pc |-> "enqueue", att |-> @.att, batch |-> @.batch, cur |-> @.cur,
                top |-> top, n |-> Cardinality(batch), todo |-> batch,
                ok |-> 0, bad |-> 0, err |-> "none"]]
  /\ UNCHANGED <<run, missing, calls, queueVars, admin, faults, adminOps>>

\* Nothing is left above the cursor: the row is completed, whatever its
\* status has become since CheckStatus.
Complete(w) ==
  /\ tick[w].pc = "complete"
  /\ run' = [run EXCEPT !.status = "completed", !.cursor = tick[w].cur]
  /\ Goto(w, "return")
  /\ UNCHANGED <<missing, calls, queueVars, admin, faults, adminOps>>

\* What a call of enqueueHydrateMetadata for i makes of the handler: a job, or
\* an error that is counted, of which the first is kept.
Requested(t, i) ==
  {[t EXCEPT !.todo = @ \ {i}, !.ok = @ + 1]} \union
  {[t EXCEPT !.todo = @ \ {i}, !.bad = @ + 1,
             !.err = IF @ = "none" THEN e ELSE @] : e \in EnqueueErrors}

\* One turn of the loop over the batch, in ascending order.
EnqueueOne(w) ==
  /\ tick[w].pc = "enqueue"
  /\ \E i \in tick[w].todo :
       /\ \A j \in tick[w].todo : i <= j
       /\ calls' = [calls EXCEPT ![i] = @ + 1]
       /\ \E t \in Requested(tick[w], i) : tick' = [tick EXCEPT ![w] = t]
  /\ UNCHANGED <<run, missing, queueVars, admin, faults, adminOps>>

AfterCommit(t) ==
  CASE t.err = "disabled" -> "markfailed"
    [] t.err # "disabled" /\ t.batch + 1 = MaxBatches -> "final"
    [] OTHER -> "check"

\* A commit that counts the failed requests as successes too.
CommitCountsAll(w) ==
  /\ tick[w].pc = "enqueue" /\ tick[w].todo = {}
  /\ run' = [run EXCEPT !.processed = @ + tick[w].n, !.success = @ + tick[w].n,
                        !.failed = @ + tick[w].bad, !.cursor = tick[w].top]
  /\ tick' = [tick EXCEPT ![w].batch = @ + 1, ![w].pc = AfterCommit(tick[w])]
  /\ UNCHANGED <<missing, calls, queueVars, admin, faults, adminOps>>

\* The batch is done: counters are incremented, the cursor is set.
Commit(w) ==
  /\ tick[w].pc = "enqueue" /\ tick[w].todo = {}
  /\ run' = [run EXCEPT !.processed = @ + tick[w].n,
                        !.success = @ + tick[w].ok,
                        !.failed = @ + tick[w].bad,
                        !.cursor = tick[w].top]
  /\ tick' = [tick EXCEPT ![w].batch = @ + 1, ![w].pc = AfterCommit(tick[w])]
  /\ UNCHANGED <<missing, calls, queueVars, admin, faults, adminOps>>

\* The queue is disabled: the run fails, whatever its status has become.
MarkFailed(w) ==
  /\ tick[w].pc = "markfailed"
  /\ run' = [run EXCEPT !.status = "failed"]
  /\ Goto(w, "return")
  /\ UNCHANGED <<missing, calls, queueVars, admin, faults, adminOps>>

\* A final check for the status the run had before the handler marked it.
FinalCheckPending(w) ==
  /\ tick[w].pc = "final"
  /\ Goto(w, IF run.status = "pending" THEN "requeue" ELSE "return")
  /\ UNCHANGED <<run, missing, calls, queueVars, admin, faults, adminOps>>

\* After MaxBatches batches: a run that still is live gets another job.
FinalCheck(w) ==
  /\ tick[w].pc = "final"
  /\ Goto(w, IF run.status \in Live THEN "requeue" ELSE "return")
  /\ UNCHANGED <<run, missing, calls, queueVars, admin, faults, adminOps>>

Requeue(w) ==
  /\ tick[w].pc = "requeue"
  /\ EnqueueRun
  /\ Goto(w, "return")
  /\ UNCHANGED <<run, missing, calls, admin, faults, adminOps>>

\* The handler returns and the queue marks its job completed.
Return(w) ==
  /\ tick[w].pc = "return"
  /\ tick' = [tick EXCEPT ![w] = IdleTick]
  /\ UNCHANGED <<run, missing, calls, queueVars, admin, faults, adminOps>>

\* An await of the handler rejects: the job fails.
Throw(w) ==
  /\ tick[w].pc \notin {"idle", "return"}
  /\ Fault
  /\ RetryOrDeadLetter(tick[w].att)
  /\ tick' = [tick EXCEPT ![w] = IdleTick]
  /\ UNCHANGED <<run, missing, calls, orphans, slot, admin, adminOps>>

\* The worker's process dies: its job stays active until it expires.
Crash(w) ==
  /\ tick[w].pc # "idle"
  /\ Fault
  /\ orphans' = [orphans EXCEPT ![tick[w].att] = @ + 1]
  /\ tick' = [tick EXCEPT ![w] = IdleTick]
  /\ UNCHANGED <<run, missing, calls, waiting, dlq, deaths, slot, admin,
                 lost, adminOps>>

-----------------------------------------------------------------------------
(***************************************************************************)
(* The admin console.  Each operation reads the row, decides, and writes   *)
(* without repeating the condition it decided on.                          *)
(***************************************************************************)

AdminGoto(a, label) == admin' = [admin EXCEPT ![a].pc = label]

AdminRequest(a) ==
  /\ admin[a].pc = "idle" /\ run.status # "none"
  /\ adminOps < MaxAdminOps /\ adminOps' = adminOps + 1

\* startHydrationBackfillRun: the row is created, then the first job is sent.
Start(a) ==
  /\ admin[a].pc = "idle" /\ run.status = "none"
  /\ run' = [run EXCEPT !.status = "pending"]
  /\ AdminGoto(a, "start_enqueue")
  /\ UNCHANGED <<missing, calls, queueVars, tick, faults, adminOps>>

StartEnqueue(a) ==
  /\ admin[a].pc = "start_enqueue"
  /\ \/ EnqueueRun /\ UNCHANGED faults
     \/ /\ Fault
        /\ lost' = "error"
        /\ UNCHANGED <<waiting, orphans, dlq, deaths, slot>>
  /\ AdminGoto(a, "idle")
  /\ UNCHANGED <<run, missing, calls, tick, adminOps>>

PauseRead(a) ==
  /\ AdminRequest(a)
  /\ AdminGoto(a, IF run.status \in Live THEN "pause" ELSE "idle")
  /\ UNCHANGED <<run, missing, calls, queueVars, tick, faults>>

PauseWrite(a) ==
  /\ admin[a].pc = "pause"
  /\ run' = [run EXCEPT !.status = "paused"]
  /\ AdminGoto(a, "idle")
  /\ UNCHANGED <<missing, calls, queueVars, tick, faults, adminOps>>

\* A run that is not terminal may be resumed, also while it is running.
ResumeRead(a) ==
  /\ AdminRequest(a)
  /\ AdminGoto(a, IF run.status \in Terminal THEN "idle" ELSE "resume")
  /\ UNCHANGED <<run, missing, calls, queueVars, tick, faults>>

\* A resume that takes the queued job for granted.
ResumeWriteOnly(a) ==
  /\ admin[a].pc = "resume"
  /\ run' = [run EXCEPT !.status = "running"]
  /\ AdminGoto(a, "idle")
  /\ UNCHANGED <<missing, calls, queueVars, tick, faults, adminOps>>

ResumeWrite(a) ==
  /\ admin[a].pc = "resume"
  /\ run' = [run EXCEPT !.status = "running"]
  /\ AdminGoto(a, "resume_enqueue")
  /\ UNCHANGED <<missing, calls, queueVars, tick, faults, adminOps>>

\* A failed send is undone; a throttled one (null) is not noticed.
ResumeEnqueue(a) ==
  /\ admin[a].pc = "resume_enqueue"
  /\ \/ EnqueueRun /\ AdminGoto(a, "idle") /\ UNCHANGED faults
     \/ Fault /\ AdminGoto(a, "resume_undo") /\ UNCHANGED queueVars
  /\ UNCHANGED <<run, missing, calls, tick, adminOps>>

ResumeUndo(a) ==
  /\ admin[a].pc = "resume_undo"
  /\ run' = [run EXCEPT !.status = "paused"]
  /\ AdminGoto(a, "idle")
  /\ UNCHANGED <<missing, calls, queueVars, tick, faults, adminOps>>

CancelRead(a) ==
  /\ AdminRequest(a)
  /\ AdminGoto(a, IF run.status \in {"canceled", "completed"} THEN "idle"
                                                             ELSE "cancel")
  /\ UNCHANGED <<run, missing, calls, queueVars, tick, faults>>

CancelWrite(a) ==
  /\ admin[a].pc = "cancel"
  /\ run' = [run EXCEPT !.status = "canceled"]
  /\ AdminGoto(a, "idle")
  /\ UNCHANGED <<missing, calls, queueVars, tick, faults, adminOps>>

\* dlq_retry: a new job is sent for the entry, which is deleted only after
\* the send returned a job id; a throttled send is reported and changes nothing.
DlqRetry(a) ==
  /\ AdminRequest(a)
  /\ \E e \in dlq :
       \/ /\ slot = "free"
          /\ EnqueueRun
          /\ admin' = [admin EXCEPT ![a] = [pc |-> "dlq_delete", entry |-> e]]
       \/ /\ slot = "taken"
          /\ UNCHANGED <<queueVars, admin>>
  /\ UNCHANGED <<run, missing, calls, tick, faults>>

DlqRetryDelete(a) ==
  /\ admin[a].pc = "dlq_delete"
  /\ dlq' = dlq \ {admin[a].entry}
  /\ admin' = [admin EXCEPT ![a] = IdleAdmin]
  /\ UNCHANGED <<run, missing, calls, waiting, orphans, deaths, slot,
                 lost, tick, faults, adminOps>>

\* dlq_delete: the admin drops the entry.
DlqDelete(a) ==
  /\ AdminRequest(a)
  /\ \E e \in dlq : dlq' = dlq \ {e}
  /\ lost' = IF lost = "dead_letter" THEN "deleted" ELSE lost
  /\ UNCHANGED <<run, missing, calls, waiting, orphans, deaths, slot,
                 tick, admin, faults>>

\* The process that serves the request dies in the middle of it.
AdminCrash(a) ==
  /\ admin[a].pc # "idle"
  /\ Fault
  /\ admin' = [admin EXCEPT ![a] = IdleAdmin]
  /\ lost' = IF admin[a].pc \in {"start_enqueue", "resume_enqueue", "resume_undo"}
             THEN "crash" ELSE lost
  /\ UNCHANGED <<run, missing, calls, waiting, orphans, dlq, deaths, slot,
                 tick, adminOps>>

-----------------------------------------------------------------------------
TickStep(w) ==
  \/ Fetch(w) \/ ReadRun(w) \/ MarkRunning(w) \/ CheckStatus(w)
  \/ LoadBatch(w) \/ Complete(w) \/ EnqueueOne(w) \/ Commit(w)
  \/ MarkFailed(w) \/ FinalCheck(w) \/ Requeue(w) \/ Return(w)

\* The steps that end a request already begun.
AdminStep(a) ==
  \/ StartEnqueue(a) \/ PauseWrite(a) \/ ResumeWrite(a) \/ ResumeEnqueue(a)
  \/ ResumeUndo(a) \/ CancelWrite(a) \/ DlqRetryDelete(a)

AdminBegin(a) ==
  \/ Start(a) \/ PauseRead(a) \/ ResumeRead(a) \/ CancelRead(a)
  \/ DlqRetry(a) \/ DlqDelete(a)

Next ==
  \/ \E w \in Workers : TickStep(w) \/ Throw(w) \/ Crash(w)
  \/ \E a \in Admins : AdminBegin(a) \/ AdminStep(a) \/ AdminCrash(a)
  \/ \E k \in Retries : Expire(k)
  \/ \E i \in Illusts : Hydrated(i)
  \/ SlotElapses

Spec == Init /\ [][Next]_vars

\* The worker loop polls and its awaits settle; a request that began goes on;
\* the queue expires jobs; time passes.  Nobody has to start, pause or resume.
Fairness ==
  /\ \A w \in Workers : WF_vars(TickStep(w))
  /\ \A a \in Admins : WF_vars(AdminStep(a))
  /\ \A k \in Retries : WF_vars(Expire(k))
  /\ WF_vars(SlotElapses)

FairSpec == Spec /\ Fairness

-----------------------------------------------------------------------------
(***************************************************************************)
(* Properties.                                                             *)
(***************************************************************************)

Driving(w) == tick[w].pc \notin {"idle", "return"}
AdminDriving(a) == admin[a].pc \in {"start_enqueue", "resume_enqueue", "resume_undo"}

\* Somebody still has to act for the run: a job that waits or will expire, a
\* handler before its last decision, a request that has yet to send its job.
HasDriver ==
  \/ \E k \in Retries : waiting[k] > 0 \/ orphans[k] > 0
  \/ \E w \in Workers : Driving(w)
  \/ \E a \in Admins : AdminDriving(a)

\* A live run without a driver can only come from a send that was throttled
\* or failed, a process that died between the row and its job, or a
\* dead-lettered job: every other path of the handler and of the console
\* leaves the run a job.
NoSilentStall == run.status \in Live /\ lost = "none" => HasDriver

\* Every id up to c that still lacks metadata had its job requested.
Covered(c) == \A i \in missing : i <= c => calls[i] > 0

\* The cursor never passes an illust the run has not handled, however the
\* handlers of several processes, crashes and retries interleave.
NoSkippedIllust == Covered(run.cursor)

\* Every illust counted as processed is counted once as success or failure,
\* although several handlers increment the counters of the row.
CountersAgree == run.processed = run.success + run.failed

\* The handlers never work on a run for ever, although stale ones move its
\* cursor back: a live run ends, is stopped, or is left without a driver in
\* one of the ways NoSilentStall names.
EndsOrIsStranded ==
  (run.status \in Live)
    ~> (run.status \notin Live \/ (~HasDriver /\ lost # "none"))

\* What PPOOL-0603 promises: a started run reaches an end by itself.
RunsToTheEnd == (run.status \in Live) ~> (run.status \notin Live)
=============================================================================
