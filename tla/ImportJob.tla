------------------------------ MODULE ImportJob ------------------------------
(***************************************************************************)
(* An import of image URLs, from the request that creates it to the last   *)
(* rollback: src/routes/adminImport.ts creates the Import row and sends    *)
(* one job, src/jobs/importImages.ts writes the images one by one or in    *)
(* bulk, requests their metadata and adds up the counters of the row, and  *)
(* a rollback disables or deletes what the import created.  Imports share  *)
(* images, jobs are delivered again after an error or a death, and every   *)
(* await of a job is a step of its own.                                    *)
(*                                                                         *)
(* Import.detail, a report for the console, is left out.                   *)
(***************************************************************************)
EXTENDS Integers, FiniteSets

CONSTANTS
  Imports,      (* the imports that are asked for                          *)
  Images,       (* the images (illust, page) they name                     *)
  Existing,     (* images that are in the database before                  *)
  Items,        (* Items[i]: the images that import i names, deduplicated  *)
  Rejected,     (* Rejected[i]: its lines that are not an image URL        *)
  Bulk,         (* the imports of at least ADMIN_IMPORT_BULK_MIN_IMAGES    *)
  Requests,     (* rollbacks that are asked for: bounds their number       *)
  Processes,    (* processes: each runs one job of a queue at a time       *)
  HydrateOnImport, (* "on", or "off": by the settings or for too many illusts *)
  RetryLimit,   (* retries the queue gives a failed or expired job         *)
  MaxFaults     (* bound: failed statements and sends, deaths              *)

NoImport == 0

ASSUME ImportAssumption ==
  /\ Imports \subseteq Nat \ {NoImport} /\ IsFiniteSet(Imports)
  /\ Existing \subseteq Images /\ IsFiniteSet(Images)
  /\ Items \in [Imports -> SUBSET Images]
  /\ Rejected \in [Imports -> Nat]
  /\ Bulk \subseteq Imports
  /\ Processes \in Nat \ {0}
  /\ HydrateOnImport \in {"on", "off"}
  /\ RetryLimit \in Nat /\ MaxFaults \in Nat

VARIABLES
  img,      (* the row of each image; id counts the rows it has had        *)
  asked,    (* images whose metadata a job was sent for                    *)
  rec,      (* the Import row: its counters                                *)
  job,      (* the import's job and the handler that runs it               *)
  rb,       (* each rollback: its job and the handler that runs it         *)
  faults    (* how much of the bound is used                               *)

vars == <<img, asked, rec, job, rb, faults>>

JobPCs  == {"none", "send", "refused", "waiting", "rows", "path", "bulk",
            "hydrate", "read", "write", "return", "done", "dead"}
Running == {"rows", "path", "bulk", "hydrate", "read", "write", "return"}
Ended   == {"none", "refused", "done", "dead"}
RbPCs   == {"none", "waiting", "apply", "record", "done", "dead"}
Retries == 0..RetryLimit

Row      == [status: {"absent", "active", "disabled"},
             made: Imports \union {NoImport}, path: {"none", "pending", "stable"}, id: Nat]
Counters == [success: Nat, failed: Nat]
Job      == [pc: JobPCs, att: Retries, todo: SUBSET Images, cur: SUBSET Images, id: Nat,
             ok: SUBSET Images, bad: SUBSET Images, note: {"ok", "failed"}, seen: Counters]
Undo     == [pc: RbPCs, att: Retries, import: Imports \union {NoImport},
             to: {"disabled", "absent"}, after: {"no", "yes"}]

RowsOK == img \in [Images -> Row] /\ asked \subseteq Images
JobsOK == job \in [Imports -> Job] /\ rb \in [Requests -> Undo]

\* Type correctness: the image rows, the counters, the jobs of both queues.
TypeOK == RowsOK /\ rec \in [Imports -> Counters] /\ JobsOK /\ faults \in 0..MaxFaults

NoCounters == [success |-> 0, failed |-> 0]
NoJob  == [pc |-> "none", att |-> 0, todo |-> {}, cur |-> {}, id |-> 0,
           ok |-> {}, bad |-> {}, note |-> "ok", seen |-> NoCounters]
NoUndo == [pc |-> "none", att |-> 0, import |-> NoImport, to |-> "disabled",
           after |-> "no"]
NoRow  == [status |-> "absent", made |-> NoImport, path |-> "none", id |-> 0]

Init ==
  /\ img = [x \in Images |->
       IF x \in Existing
       THEN [status |-> "active", made |-> NoImport, path |-> "stable", id |-> 1]
       ELSE NoRow]
  /\ asked = {}
  /\ rec = [i \in Imports |-> NoCounters]
  /\ job = [i \in Imports |-> NoJob]
  /\ rb = [r \in Requests |-> NoUndo]
  /\ faults = 0

Fault == faults < MaxFaults /\ faults' = faults + 1

\* A job t did not complete: it waits again, or it has no retry left.
Redeliver(t, none) ==
  IF t.att < RetryLimit THEN [none EXCEPT !.pc = "waiting", !.att = t.att + 1]
                        ELSE [none EXCEPT !.pc = "dead", !.att = t.att]

Put(i, t) == job' = [job EXCEPT ![i] = t]

-----------------------------------------------------------------------------
(***************************************************************************)
(* The request.                                                            *)
(***************************************************************************)

\* The row is created with the rejected lines as its failures.  An import that
\* names no image gets no job.
CreateImport(i) ==
  /\ job[i].pc = "none"
  /\ rec' = [rec EXCEPT ![i].failed = Rejected[i]]
  /\ Put(i, [job[i] EXCEPT !.pc = IF Items[i] = {} THEN "done" ELSE "send"])
  /\ UNCHANGED <<img, asked, rb, faults>>

EnqueueImport(i) ==
  /\ job[i].pc = "send"
  /\ Put(i, [job[i] EXCEPT !.pc = "waiting"])
  /\ UNCHANGED <<img, asked, rec, rb, faults>>

\* The send fails, or the process dies before it: no job will come.
EnqueueFails(i) ==
  /\ job[i].pc = "send" /\ Fault
  /\ Put(i, [job[i] EXCEPT !.pc = "refused"])
  /\ UNCHANGED <<img, asked, rec, rb>>

-----------------------------------------------------------------------------
(***************************************************************************)
(* The job, processAdminImagesImport.                                      *)
(***************************************************************************)

\* A worker that counts the jobs that wait among those that run.
TakeImportAlone(i) ==
  /\ job[i].pc = "waiting"
  /\ Cardinality({j \in Imports : job[j].pc \notin Ended}) < Processes
  /\ Put(i, [job[i] EXCEPT !.pc = IF i \in Bulk THEN "bulk" ELSE "rows",
                        !.todo = Items[i]])
  /\ UNCHANGED <<img, asked, rec, rb, faults>>

\* A process takes the job; another delivery starts from nothing.
TakeImport(i) ==
  /\ job[i].pc = "waiting"
  /\ Cardinality({j \in Imports : job[j].pc \in Running}) < Processes
  /\ Put(i, [job[i] EXCEPT !.pc = IF i \in Bulk THEN "bulk" ELSE "rows",
                        !.todo = Items[i]])
  /\ UNCHANGED <<img, asked, rec, rb, faults>>

\* An upsert that also overwrites which import created the row.
UpsertedTakesOver(row, i, path) ==
  IF row.status = "absent"
  THEN [status |-> "active", made |-> i, path |-> path, id |-> row.id + 1]
  ELSE [row EXCEPT !.path = path, !.made = i]

\* An upsert that also makes the row active.
UpsertedReactivates(row, i, path) ==
  IF row.status = "absent"
  THEN [status |-> "active", made |-> i, path |-> path, id |-> row.id + 1]
  ELSE [row EXCEPT !.path = path, !.status = "active"]

\* The row after an upsert by import i: a new row is active and remembers i,
\* a row that is there keeps its status and its creator.
Upserted(row, i, path) ==
  IF row.status = "absent"
  THEN [status |-> "active", made |-> i, path |-> path, id |-> row.id + 1]
  ELSE [row EXCEPT !.path = path]

\* One turn of the loop: the row gets a provisional path, its id is kept.
UpsertOne(i) ==
  /\ job[i].pc = "rows"
  /\ \E x \in job[i].todo :
       /\ img' = [img EXCEPT ![x] = Upserted(@, i, "pending")]
       /\ Put(i, [job[i] EXCEPT !.pc = "path", !.cur = {x}, !.id = img'[x].id,
                             !.todo = @ \ {x}])
  /\ UNCHANGED <<asked, rec, rb, faults>>

\* A path that is only set for a row that this import created.
SetPathOfOwn(i) ==
  /\ job[i].pc = "path"
  /\ \E x \in job[i].cur :
       /\ img' = IF img[x].made = i THEN [img EXCEPT ![x].path = "stable"] ELSE img
       /\ Put(i, [job[i] EXCEPT !.pc = "rows", !.cur = {}, !.id = 0,
                             !.ok = @ \union {x}])
  /\ UNCHANGED <<asked, rec, rb, faults>>

\* The update by id to the stable path: a row that was deleted meanwhile, or
\* created anew, is not found, and the item counts as failed.
SetPath(i) ==
  /\ job[i].pc = "path"
  /\ \E x \in job[i].cur :
       \/ /\ img[x].status # "absent" /\ img[x].id = job[i].id
          /\ img' = [img EXCEPT ![x].path = "stable"]
          /\ Put(i, [job[i] EXCEPT !.pc = "rows", !.cur = {}, !.id = 0,
                                !.ok = @ \union {x}])
       \/ /\ img[x].status = "absent" \/ img[x].id # job[i].id
          /\ Put(i, [job[i] EXCEPT !.pc = "rows", !.cur = {}, !.id = 0,
                                !.bad = @ \union {x}])
          /\ UNCHANGED img
  /\ UNCHANGED <<asked, rec, rb, faults>>

\* A statement of the loop fails: the item counts as failed, the loop goes on.
ItemFails(i) ==
  /\ job[i].pc \in {"rows", "path"} /\ Fault
  /\ \E x \in IF job[i].pc = "path" THEN job[i].cur ELSE job[i].todo :
       Put(i, [job[i] EXCEPT !.pc = "rows", !.todo = @ \ {x}, !.cur = {},
                          !.id = 0, !.bad = @ \union {x}])
  /\ UNCHANGED <<img, asked, rec, rb>>

LoopEnds(i) ==
  /\ job[i].pc = "rows" /\ job[i].todo = {}
  /\ Put(i, [job[i] EXCEPT !.pc = "hydrate", !.todo = job[i].ok])
  /\ UNCHANGED <<img, asked, rec, rb, faults>>

\* One statement for all the items, which need no second one for their path.
BulkUpsert(i) ==
  /\ job[i].pc = "bulk"
  /\ img' = [x \in Images |-> IF x \in Items[i] THEN Upserted(img[x], i, "stable")
                                               ELSE img[x]]
  /\ Put(i, [job[i] EXCEPT !.pc = "hydrate", !.ok = Items[i]])
  /\ UNCHANGED <<asked, rec, rb, faults>>

\* It fails (the statements of two imports may deadlock): every item has failed.
BulkFails(i) ==
  /\ job[i].pc = "bulk" /\ Fault
  /\ Put(i, [job[i] EXCEPT !.pc = "hydrate", !.bad = Items[i], !.todo = {}])
  /\ UNCHANGED <<img, asked, rec, rb>>

\* The metadata of one illust is asked for.
Hydrate(i) ==
  /\ job[i].pc = "hydrate" /\ HydrateOnImport = "on"
  /\ \E x \in job[i].todo :
       /\ asked' = asked \union {x}
       /\ Put(i, [job[i] EXCEPT !.todo = @ \ {x}])
  /\ UNCHANGED <<img, rec, rb, faults>>

\* A send fails: the others are not tried, and the report notes it.
HydrateFails(i) ==
  /\ job[i].pc = "hydrate" /\ job[i].todo # {} /\ HydrateOnImport = "on" /\ Fault
  /\ Put(i, [job[i] EXCEPT !.pc = "read", !.todo = {}, !.note = "failed"])
  /\ UNCHANGED <<img, asked, rec, rb>>

HydrateEnds(i) ==
  /\ job[i].pc = "hydrate" /\ (job[i].todo = {} \/ HydrateOnImport = "off")
  /\ Put(i, [job[i] EXCEPT !.pc = "read", !.todo = {}])
  /\ UNCHANGED <<img, asked, rec, rb, faults>>

ReadCounters(i) ==
  /\ job[i].pc = "read"
  /\ Put(i, [job[i] EXCEPT !.pc = "write", !.seen = rec[i]])
  /\ UNCHANGED <<img, asked, rec, rb, faults>>

\* Counters that start from the items alone, without the rejected lines.
WriteCountersAnew(i) ==
  /\ job[i].pc = "write"
  /\ rec' = [rec EXCEPT ![i] = [success |-> Cardinality(job[i].ok),
                                failed |-> Cardinality(job[i].bad)]]
  /\ Put(i, [job[i] EXCEPT !.pc = "return", !.seen = NoCounters])
  /\ UNCHANGED <<img, asked, rb, faults>>

\* The counters that were read, and what this delivery has done.
WriteCounters(i) ==
  /\ job[i].pc = "write"
  /\ rec' = [rec EXCEPT ![i] =
       [success |-> job[i].seen.success + Cardinality(job[i].ok),
        failed  |-> job[i].seen.failed + Cardinality(job[i].bad)]]
  /\ Put(i, [job[i] EXCEPT !.pc = "return", !.seen = NoCounters])
  /\ UNCHANGED <<img, asked, rb, faults>>

\* The handler returns and the queue marks the job completed.
Return(i) ==
  /\ job[i].pc = "return"
  /\ Put(i, [job[i] EXCEPT !.pc = "done"])
  /\ UNCHANGED <<img, asked, rec, rb, faults>>

\* The process dies and the job expires; or the read or the write of the
\* counters rejects, which fails the job.
Interrupted(i) ==
  /\ job[i].pc \in Running /\ Fault
  /\ Put(i, Redeliver(job[i], NoJob))
  /\ UNCHANGED <<img, asked, rec, rb>>

-----------------------------------------------------------------------------
(***************************************************************************)
(* The rollback, processAdminImportRollback.                               *)
(***************************************************************************)

\* Whoever sees the import may roll it back, at any time.
AskRollback(r) ==
  /\ rb[r].pc = "none"
  /\ \E i \in Imports, to \in {"disabled", "absent"} :
       /\ job[i].pc # "none"
       /\ rb' = [rb EXCEPT ![r] = [@ EXCEPT !.pc = "waiting", !.import = i, !.to = to]]
  /\ UNCHANGED <<img, asked, rec, job, faults>>

TakeRollback(r) ==
  /\ rb[r].pc = "waiting"
  /\ Cardinality({q \in Requests : rb[q].pc \in {"apply", "record"}}) < Processes
  /\ rb' = [rb EXCEPT ![r].pc = "apply"]
  /\ UNCHANGED <<img, asked, rec, job, faults>>

RolledBack(row, to) ==
  IF to = "absent" THEN [NoRow EXCEPT !.id = row.id] ELSE [row EXCEPT !.status = to]

\* One statement for all the rows that the import created.  after remembers
\* whether the import's job was over by then.
ApplyRollback(r) ==
  /\ rb[r].pc = "apply"
  /\ img' = [x \in Images |->
       IF img[x].status # "absent" /\ img[x].made = rb[r].import
       THEN RolledBack(img[x], rb[r].to) ELSE img[x]]
  /\ rb' = [rb EXCEPT ![r] = [@ EXCEPT !.pc = "record",
       !.after = IF job[rb[r].import].pc \in Ended THEN "yes" ELSE "no"]]
  /\ UNCHANGED <<asked, rec, job, faults>>

\* The report is written and the handler returns.
RecordRollback(r) ==
  /\ rb[r].pc = "record"
  /\ rb' = [rb EXCEPT ![r].pc = "done"]
  /\ UNCHANGED <<img, asked, rec, job, faults>>

\* A statement rejects, or the process dies: the queue delivers it again.
RollbackInterrupted(r) ==
  /\ rb[r].pc \in {"apply", "record"} /\ Fault
  /\ rb' = [rb EXCEPT ![r] =
       Redeliver(@, [NoUndo EXCEPT !.import = rb[r].import, !.to = rb[r].to])]
  /\ UNCHANGED <<img, asked, rec, job>>

-----------------------------------------------------------------------------
ImportStep(i) ==
  \/ TakeImport(i) \/ UpsertOne(i) \/ SetPath(i) \/ LoopEnds(i) \/ BulkUpsert(i)
  \/ Hydrate(i) \/ HydrateEnds(i) \/ ReadCounters(i) \/ WriteCounters(i) \/ Return(i)

RollbackStep(r) == TakeRollback(r) \/ ApplyRollback(r) \/ RecordRollback(r)

Next ==
  \/ \E i \in Imports :
       \/ CreateImport(i) \/ EnqueueImport(i) \/ EnqueueFails(i)
       \/ ImportStep(i) \/ ItemFails(i) \/ BulkFails(i) \/ HydrateFails(i)
       \/ Interrupted(i)
  \/ \E r \in Requests : AskRollback(r) \/ RollbackStep(r) \/ RollbackInterrupted(r)

Spec == Init /\ [][Next]_vars

\* The processes run: a job that can be taken is, and its handler goes on.
FairSpec ==
  /\ Spec
  /\ \A i \in Imports : WF_vars(ImportStep(i))
  /\ \A r \in Requests : WF_vars(RollbackStep(r))

-----------------------------------------------------------------------------
(***************************************************************************)
(* Properties.                                                             *)
(***************************************************************************)

\* An image that was there before any import is neither disabled nor deleted by
\* a rollback, although imports have updated it: DATA-0002 has bulk and single
\* upserts write created_import_id only when they create the row.
ForeignRowsSurvive ==
  \A x \in Existing : img[x].status = "active" /\ img[x].id = 1

\* A rollback that ran when the import's job was over is final: no other import
\* that names the same images brings a row back that this import created.
RolledBackStaysOff ==
  \A r \in Requests : rb[r].pc \in {"record", "done"} /\ rb[r].after = "yes" =>
    \A x \in Images : img[x].made = rb[r].import => img[x].status # "active"

\* A row keeps the provisional path only while the handler that wrote it is
\* about to replace it, or after that item failed or its delivery was
\* interrupted, whatever other imports and rollbacks do to the row.
PendingExplained ==
  \A x \in Images : img[x].path = "pending" =>
    \E i \in Imports :
      \/ job[i].pc = "path" /\ x \in job[i].cur
      \/ x \in job[i].bad
      \/ job[i].att > 0 /\ x \in Items[i] \ job[i].ok
      \/ job[i].pc = "dead"

\* What the progress of a completed import says: every line is counted, once
\* for each delivery that came as far as the counters and more often only if
\* one was repeated, and the metadata of its images was asked for unless the
\* report says that a send failed.
ReportTrue ==
  \A i \in Imports : job[i].pc = "done" =>
    /\ \E k \in 1..job[i].att + 1 :
         rec[i].success + rec[i].failed = Rejected[i] + k * Cardinality(Items[i])
    /\ HydrateOnImport = "on" /\ job[i].note = "ok" => job[i].ok \subseteq asked

\* docs/review/fixes/2026-02-09_05-56-38/DATA-0002.md: an import is done in the
\* end (ReportTrue has the counters it is done with), and a rollback too, if
\* they are not dead-lettered.
JobsEnd ==
  /\ \A i \in Imports : job[i].pc = "waiting" ~> job[i].pc \in {"done", "dead"}
  /\ \A r \in Requests : rb[r].pc = "waiting" ~> rb[r].pc \in {"done", "dead"}
=============================================================================
