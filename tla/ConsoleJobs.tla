------------------------------ MODULE ConsoleJobs ------------------------------
(***************************************************************************)
(* The two pages of the console that act on pg-boss jobs: the page of all  *)
(* jobs, which cancels and retries them (src/admin/pages/adminJobs.jsx,    *)
(* adminJobs in src/admin/adminJs.ts), and the page of dead letters, which *)
(* lists, retries and deletes them (src/admin/pages/hydrationOps.jsx,      *)
(* hydrationOps in adminJs.ts), each with a list that may be old, beside   *)
(* the workers.  A step is one query of a handler, or one of a worker.     *)
(*                                                                         *)
(* Of a list a page shows one row is kept, which may be any of them.       *)
(* Jobs are numbered as they are created.  What a job is to do is its      *)
(* work; the retries of pg-boss before a job fails for good are left out.  *)
(***************************************************************************)
EXTENDS Integers, FiniteSets, FiniteSetsExt

CONSTANTS
  Works,        (* illusts to hydrate or heal, endpoints to probe ...       *)
  Home,         (* the queue of a work's jobs                               *)
  ActionQueues, (* getAdminActionQueueNames                                 *)
  DeadOnes,     (* the queues whose dead letters the second page shows,     *)
  FirstDead,    (* in the order that has this one first                     *)
  PageLimit,    (* how many jobs a list holds                               *)
  MaxJobs,      (* bound: jobs                                              *)
  MaxPosts,     (* bound: posts                                             *)
  MaxFaults     (* bound: failed queries, sends and jobs                    *)

ConsoleJobsAssumption ==
  /\ IsFiniteSet(Works) /\ DOMAIN Home = Works /\ FirstDead \in DeadOnes
  /\ PageLimit \in Nat \ {0} /\ MaxJobs \in Nat /\ Cardinality(Works) <= MaxJobs
  /\ MaxPosts \in Nat /\ MaxFaults \in Nat

Live(name) == <<"live", name>>
Bases   == {Live(Home[w]) : w \in Works}
Dead(q) == <<"dead", q[2]>>               (* getDeadLetterQueueName         *)
Base(d) == Live(d[2])                     (* getBaseQueueNameFromDlq        *)
Actions == {Live(name) : name \in ActionQueues}
DlqQueues == {Dead(Live(name)) : name \in DeadOnes}
Queues    == Bases \union Actions \union {Dead(q) : q \in Bases \union Actions} \union DlqQueues
Jobs    == 1..MaxJobs
Failed  == 0                              (* the row "query_failed"         *)
NoQueue == <<"none", "none">>
NoJob   == [queue |-> NoQueue, work |-> "none", state |-> "none"]

VARIABLES
  job,        (* pgboss.job: a job that is deleted is "gone"                *)
  running,    (* jobs whose handler is running                              *)
  jobsPage, dlqPage,
  posts, faults,
  done,       (* work that has been done                                    *)
  removed     (* work whose job an operator has deleted                     *)

table == <<job, running>>
bound == <<posts, faults>>
seen  == <<done, removed>>
vars  == <<table, jobsPage, dlqPage, bound, seen>>

Row(j)  == job[j].state \notin {"none", "gone"}
Used    == {j \in Jobs : job[j].state # "none"}
Newest(js) == {j \in js : Cardinality({k \in js : k > j}) < PageLimit}
RowOf(js) == IF js = {} THEN {{}} ELSE {{j} : j \in js}
In(qs)  == {j \in Jobs : Row(j) /\ job[j].queue \in qs}

TypeOK ==
  /\ job \in [Jobs -> [queue: Queues \union {NoQueue}, work: Works \union {"none"},
                       state: {"none", "created", "active", "completed", "failed", "gone"}]]
  /\ running \subseteq Used
  /\ jobsPage.pc \in {"load", "ready", "cancel", "retry", "send"}
  /\ dlqPage.pc \in {"queues", "jobs", "ready", "list", "delete", "retry", "send", "remove"}
  /\ dlqPage.selected \in DlqQueues \union {NoQueue}
  /\ \A p \in {jobsPage, dlqPage} :
       /\ p.shown \subseteq Used \union {Failed} /\ p.id \in Jobs \union {Failed}
       /\ p.queue \in Queues \union {NoQueue}
  /\ posts \in 0..MaxPosts /\ faults \in 0..MaxFaults
  /\ done \subseteq Works /\ removed \subseteq Works

\* Work waits in its queue, or is a dead letter already.
Init ==
  /\ \E order \in {f \in [1..Cardinality(Works) -> Works] :
                     \A m, n \in DOMAIN f : m # n => f[m] # f[n]},
        dead \in SUBSET Works :
       job = [j \in Jobs |->
                IF j \in DOMAIN order
                THEN [queue |-> IF order[j] \in dead THEN Dead(Live(Home[order[j]]))
                                                    ELSE Live(Home[order[j]]),
                      work |-> order[j], state |-> "created"]
                ELSE NoJob]
  /\ running = {}
  /\ jobsPage = [pc |-> "load", shown |-> {}, id |-> Failed, queue |-> NoQueue]
  /\ dlqPage = [pc |-> "queues", selected |-> NoQueue, shown |-> {}, id |-> Failed, queue |-> NoQueue]
  /\ posts = 0 /\ faults = 0
  /\ done = {} /\ removed = {}

Fault == faults < MaxFaults /\ faults' = faults + 1

\* The table with one more job.
Free == Jobs \ Used
Sent(table0, q, w) ==
  [table0 EXCEPT ![Min(Free)] = [queue |-> q, work |-> w, state |-> "created"]]

-----------------------------------------------------------------------------
(* Workers, of all queues but the dead-letter ones.                        *)

Fetch(j) ==
  /\ job[j].state = "created" /\ job[j].queue \in Bases
  /\ job' = [job EXCEPT ![j].state = "active"] /\ running' = running \union {j}
  /\ UNCHANGED <<jobsPage, dlqPage, bound, seen>>

\* The handler is done, although the job may have been deleted meanwhile.
Complete(j) ==
  /\ j \in running /\ running' = running \ {j}
  /\ done' = done \union {job[j].work}
  /\ job' = IF Row(j) THEN [job EXCEPT ![j].state = "completed"] ELSE job
  /\ UNCHANGED <<jobsPage, dlqPage, bound, removed>>

\* It has failed for the last time: its data go to the dead-letter queue.
FailForGood(j) ==
  /\ j \in running /\ Fault /\ (Row(j) => Free # {})
  /\ running' = running \ {j}
  /\ job' = IF Row(j) THEN Sent([job EXCEPT ![j].state = "failed"],
                                Dead(job[j].queue), job[j].work)
            ELSE job
  /\ UNCHANGED <<jobsPage, dlqPage, posts, seen>>

-----------------------------------------------------------------------------
(* The page of all jobs.  Its buttons and fields are off while it waits.   *)

\* queryAdminJobs, by what is in the fields: the most recent jobs, the one of
\* an id, or those of a request (here: of a work).
ListJobs ==
  /\ jobsPage.pc = "load"
  /\ \E found \in {Newest(In(Queues))} \union {{j} : j \in In(Queues)}
                    \union {Newest({j \in In(Queues) : job[j].work = w}) : w \in Works} :
       \E shown \in RowOf(found) : jobsPage' = [jobsPage EXCEPT !.pc = "ready", !.shown = shown]
  /\ UNCHANGED <<table, dlqPage, bound, seen>>

\* The query fails, and a row says so; or the request fails, and nothing is shown.
ListJobsFails ==
  /\ jobsPage.pc = "load" /\ Fault
  /\ \E shown \in {{Failed}, {}} : jobsPage' = [jobsPage EXCEPT !.pc = "ready", !.shown = shown]
  /\ UNCHANGED <<table, dlqPage, posts, seen>>

QueryJobs ==
  /\ jobsPage.pc = "ready" /\ jobsPage' = [jobsPage EXCEPT !.pc = "load"]
  /\ UNCHANGED <<table, dlqPage, bound, seen>>

QueueOf(j) == IF j = Failed THEN CHOOSE q \in Queues : TRUE ELSE job[j].queue

\* cancelJob and retryJob post the queue and the id of the row.
ClickJob(j) ==
  /\ jobsPage.pc = "ready" /\ j \in jobsPage.shown
  /\ posts < MaxPosts /\ posts' = posts + 1
  /\ \E pc \in {"cancel", "retry"} :
       jobsPage' = [jobsPage EXCEPT !.pc = pc, !.id = j, !.queue = QueueOf(j)]
  /\ UNCHANGED <<table, dlqPage, faults, seen>>

JobsAnswer(pc) == jobsPage' = [jobsPage EXCEPT !.pc = pc, !.id = Failed, !.queue = NoQueue]

\* What a DELETE of a row of queue q does.
Deleted(q, j) == IF j \in In({q}) THEN [job EXCEPT ![j].state = "gone"] ELSE job
Removing(q, j) == IF j \in In({q}) THEN removed \union {job[j].work} ELSE removed

\* job_cancel deletes the row, whatever its state; "query_failed" is no id.
CancelJob ==
  /\ jobsPage.pc = "cancel"
  /\ IF jobsPage.id = Failed
     THEN JobsAnswer("ready") /\ UNCHANGED <<job, removed>>
     ELSE /\ job' = Deleted(jobsPage.queue, jobsPage.id)
          /\ removed' = Removing(jobsPage.queue, jobsPage.id)
          /\ JobsAnswer("load")
  /\ UNCHANGED <<running, dlqPage, bound, done>>

\* job_retry needs the data of the job, and knows the queues of actions only.
RetryJob ==
  /\ jobsPage.pc = "retry"
  /\ IF jobsPage.id \in In({jobsPage.queue}) /\ jobsPage.queue \in Actions
     THEN jobsPage' = [jobsPage EXCEPT !.pc = "send"]
     ELSE JobsAnswer("ready")
  /\ UNCHANGED <<table, dlqPage, bound, seen>>

SendJob ==
  /\ jobsPage.pc = "send" /\ Free # {}
  /\ job' = Sent(job, jobsPage.queue, job[jobsPage.id].work)
  /\ JobsAnswer("load")
  /\ UNCHANGED <<running, dlqPage, bound, seen>>

JobsPostFails ==
  /\ jobsPage.pc \in {"cancel", "retry", "send"} /\ Fault
  /\ JobsAnswer("ready")
  /\ UNCHANGED <<table, dlqPage, posts, seen>>

-----------------------------------------------------------------------------
(* The page of dead letters.                                               *)

Default == Dead(Live(FirstDead))

\* A refresh asks for the queues, after the runs and the coverage, and for the
\* jobs of the first, whichever is selected.
CountQueues ==
  /\ dlqPage.pc = "queues" /\ dlqPage' = [dlqPage EXCEPT !.pc = "jobs"]
  /\ UNCHANGED <<table, jobsPage, bound, seen>>

RefreshJobs ==
  /\ dlqPage.pc = "jobs"
  /\ \E shown \in RowOf(Newest(In({Default}))) :
       dlqPage' = [dlqPage EXCEPT !.pc = "ready", !.shown = shown,
                                  !.selected = IF @ = NoQueue THEN Default ELSE @]
  /\ UNCHANGED <<table, jobsPage, bound, seen>>

\* Without the queues there are no jobs; without the jobs a row says so.
CountFails ==
  /\ dlqPage.pc = "queues" /\ Fault
  /\ dlqPage' = [dlqPage EXCEPT !.pc = "ready", !.shown = {}]
  /\ UNCHANGED <<table, jobsPage, posts, seen>>

RefreshJobsFails ==
  /\ dlqPage.pc = "jobs" /\ Fault
  /\ dlqPage' = [dlqPage EXCEPT !.pc = "ready", !.shown = {Failed},
                                !.selected = IF @ = NoQueue THEN Default ELSE @]
  /\ UNCHANGED <<table, jobsPage, posts, seen>>

Refresh ==
  /\ dlqPage.pc = "ready" /\ dlqPage' = [dlqPage EXCEPT !.pc = "queues"]
  /\ UNCHANGED <<table, jobsPage, bound, seen>>

\* Another queue is selected, or its list asked for again.
Select(d) ==
  /\ dlqPage.pc = "ready" /\ dlqPage.selected # NoQueue
  /\ dlqPage' = [dlqPage EXCEPT !.pc = "list", !.selected = d, !.queue = d]
  /\ UNCHANGED <<table, jobsPage, bound, seen>>

\* dlq_list
ListDead ==
  /\ dlqPage.pc = "list"
  /\ \E shown \in RowOf(Newest(In({dlqPage.queue}))) :
       dlqPage' = [dlqPage EXCEPT !.pc = "ready", !.shown = shown,
                     !.selected = dlqPage.queue, !.id = Failed, !.queue = NoQueue]
  /\ UNCHANGED <<table, jobsPage, bound, seen>>

ListDeadFails ==
  /\ dlqPage.pc = "list" /\ Fault
  /\ \/ dlqPage' = [dlqPage EXCEPT !.pc = "ready", !.shown = {Failed},
                       !.selected = dlqPage.queue, !.id = Failed, !.queue = NoQueue]
     \/ dlqPage' = [dlqPage EXCEPT !.pc = "ready", !.id = Failed, !.queue = NoQueue]
  /\ UNCHANGED <<table, jobsPage, posts, seen>>

\* retryDlqJob and deleteDlqJob post the queue of the row that is clicked.
ClickDead(j) ==
  /\ dlqPage.pc = "ready" /\ j \in dlqPage.shown
  /\ posts < MaxPosts /\ posts' = posts + 1
  /\ \E pc \in {"delete", "retry"} :
       dlqPage' = IF j = Failed THEN [dlqPage EXCEPT !.pc = pc]
                  ELSE [dlqPage EXCEPT !.pc = pc, !.id = j, !.queue = QueueOf(j)]
  /\ UNCHANGED <<table, jobsPage, faults, seen>>

\* A refusal leaves the list; after a success it is asked for again.
Refused == dlqPage' = [dlqPage EXCEPT !.pc = "ready", !.id = Failed, !.queue = NoQueue]
Accepted == dlqPage' = [dlqPage EXCEPT !.pc = "list", !.id = Failed]

DeleteDead ==
  /\ dlqPage.pc = "delete"
  /\ IF dlqPage.id = Failed
     THEN Refused /\ UNCHANGED <<job, removed>>
     ELSE /\ job' = Deleted(dlqPage.queue, dlqPage.id)
          /\ removed' = Removing(dlqPage.queue, dlqPage.id)
          /\ Accepted
  /\ UNCHANGED <<running, jobsPage, bound, done>>

\* Mutant: the dead letter is deleted when its data have been read.
RetryReadDeleting ==
  /\ dlqPage.pc = "retry"
  /\ IF dlqPage.id \in In({dlqPage.queue})
     THEN /\ dlqPage' = [dlqPage EXCEPT !.pc = "send"]
          /\ job' = Deleted(dlqPage.queue, dlqPage.id)
     ELSE Refused /\ UNCHANGED job
  /\ UNCHANGED <<running, jobsPage, bound, seen>>

\* dlq_retry reads the data, sends the job, and deletes the dead letter.
RetryRead ==
  /\ dlqPage.pc = "retry"
  /\ IF dlqPage.id \in In({dlqPage.queue})
     THEN dlqPage' = [dlqPage EXCEPT !.pc = "send"]
     ELSE Refused
  /\ UNCHANGED <<table, jobsPage, bound, seen>>

RetrySend ==
  /\ dlqPage.pc = "send" /\ Free # {}
  /\ job' = Sent(job, Base(dlqPage.queue), job[dlqPage.id].work)
  /\ dlqPage' = [dlqPage EXCEPT !.pc = "remove"]
  /\ UNCHANGED <<running, jobsPage, bound, seen>>

RetryRemove ==
  /\ dlqPage.pc = "remove"
  /\ job' = Deleted(dlqPage.queue, dlqPage.id) /\ Accepted
  /\ UNCHANGED <<running, jobsPage, bound, seen>>

DlqPostFails ==
  /\ dlqPage.pc \in {"delete", "retry", "send", "remove"} /\ Fault
  /\ Refused
  /\ UNCHANGED <<table, jobsPage, posts, seen>>

-----------------------------------------------------------------------------
Next ==
  \/ \E j \in Jobs : Fetch(j) \/ Complete(j) \/ FailForGood(j)
  \/ ListJobs \/ ListJobsFails \/ QueryJobs \/ CancelJob \/ RetryJob \/ SendJob \/ JobsPostFails
  \/ \E j \in Jobs \union {Failed} : ClickJob(j) \/ ClickDead(j)
  \/ CountQueues \/ RefreshJobs \/ CountFails \/ RefreshJobsFails \/ Refresh
  \/ \E d \in DlqQueues : Select(d)
  \/ ListDead \/ ListDeadFails
  \/ DeleteDead \/ RetryRead \/ RetrySend \/ RetryRemove \/ DlqPostFails

Spec == Init /\ [][Next]_vars

-----------------------------------------------------------------------------
(* Properties.                                                             *)

\* Nothing that was to be done vanishes: it is done, or there is a job or a dead
\* letter for it, or an operator has deleted one.  A retry from the dead letters
\* that fails half-way, or races a deletion or another retry, loses nothing.
WorkAccounted ==
  \A w \in Works :
    \/ w \in done \union removed
    \/ \E j \in Jobs : /\ job[j].work = w
                       /\ \/ job[j].state \in {"created", "active"}
                          \/ j \in running
=============================================================================
