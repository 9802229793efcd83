--------------------------- MODULE ImportJobProofs ---------------------------
(***************************************************************************)
(* Theorems about ImportJob for any imports and images, any number of      *)
(* rollbacks, processes, retries and faults.                               *)
(***************************************************************************)
EXTENDS ImportJob, FiniteSetTheorems, TLAPS

USE ImportAssumption DEF ImportAssumption

-----------------------------------------------------------------------------
(***************************************************************************)
(* Type correctness.                                                       *)
(***************************************************************************)

LEMMA JobFields ==
  ASSUME JobsOK, NEW i \in Imports
  PROVE  /\ job[i] \in Job
         /\ job[i].pc \in JobPCs /\ job[i].att \in Retries
         /\ job[i].todo \subseteq Images /\ job[i].cur \subseteq Images
         /\ job[i].ok \subseteq Images /\ job[i].bad \subseteq Images
         /\ job[i].seen.success \in Nat /\ job[i].seen.failed \in Nat
  BY DEF JobsOK, Job, Counters

LEMMA RowFields ==
  ASSUME RowsOK, NEW x \in Images
  PROVE  /\ img[x] \in Row
         /\ img[x].status \in {"absent", "active", "disabled"}
         /\ img[x].made \in Imports \union {NoImport}
         /\ img[x].path \in {"none", "pending", "stable"}
         /\ img[x].id \in Nat
  BY DEF RowsOK, Row

LEMMA UndoFields ==
  ASSUME JobsOK, NEW r \in Requests
  PROVE  /\ rb[r] \in Undo
         /\ rb[r].pc \in RbPCs /\ rb[r].att \in Retries
         /\ rb[r].import \in Imports \union {NoImport}
         /\ rb[r].to \in {"disabled", "absent"} /\ rb[r].after \in {"no", "yes"}
  BY DEF JobsOK, Undo

\* The items of an import are finitely many.
LEMMA ItemsFinite ==
  ASSUME NEW S \in SUBSET Images
  PROVE  IsFiniteSet(S) /\ Cardinality(S) \in Nat
  BY FS_Subset, FS_CardinalityType

\* An upsert makes a row of a row.
LEMMA UpsertedType ==
  ASSUME NEW row \in Row, NEW i \in Imports, NEW p \in {"pending", "stable"}
  PROVE  Upserted(row, i, p) \in Row
<1>1. row.id + 1 \in Nat
  BY DEF Row
<1> QED
  BY <1>1 DEF Upserted, Row

\* What a delivery that is repeated or dead-lettered starts from.
LEMMA RedeliverJobType ==
  ASSUME NEW t \in Job
  PROVE  Redeliver(t, NoJob) \in Job
<1>1. t.att \in Retries
  BY DEF Job
<1>2. t.att < RetryLimit => t.att + 1 \in Retries
  BY <1>1 DEF Retries
<1>3. NoJob \in Job
  BY DEF NoJob, Job, JobPCs, Retries, Counters, NoCounters
<1> QED
  BY <1>1, <1>2, <1>3 DEF Redeliver, Job, JobPCs

LEMMA RedeliverUndoType ==
  ASSUME NEW u \in Undo
  PROVE  Redeliver(u, [NoUndo EXCEPT !.import = u.import, !.to = u.to]) \in Undo
<1> DEFINE n == [NoUndo EXCEPT !.import = u.import, !.to = u.to]
<1>1. u.att \in Retries
  BY DEF Undo
<1>2. u.att < RetryLimit => u.att + 1 \in Retries
  BY <1>1 DEF Retries
<1>3. n \in Undo
  <2>1. 0 \in Retries /\ u.import \in Imports \union {NoImport}
        /\ u.to \in {"disabled", "absent"}
    BY DEF Retries, Undo
  <2> QED
    BY <2>1 DEF NoUndo, Undo, RbPCs
<1> HIDE DEF n
<1>4. Redeliver(u, n) \in Undo
  BY <1>1, <1>2, <1>3 DEF Redeliver, Undo, RbPCs
<1> QED
  BY <1>4 DEF n

\* Replacing one job by a typed one keeps the jobs typed.
LEMMA PutType ==
  ASSUME JobsOK, NEW i \in Imports, NEW t \in Job, Put(i, t), UNCHANGED rb
  PROVE  JobsOK'
  BY DEF JobsOK, Put

LEMMA UndoUpdateType ==
  ASSUME JobsOK, NEW r \in Requests, NEW u \in Undo,
         rb' = [rb EXCEPT ![r] = u], UNCHANGED job
  PROVE  JobsOK'
  BY DEF JobsOK

LEMMA FaultType ==
  ASSUME faults \in 0..MaxFaults, Fault
  PROVE  faults' \in 0..MaxFaults
  BY DEF Fault

LEMMA InitType == Init => TypeOK
<1> SUFFICES ASSUME Init PROVE TypeOK
  OBVIOUS
<1>1. NoJob \in Job /\ NoUndo \in Undo /\ NoCounters \in Counters
  BY DEF NoJob, Job, JobPCs, Retries, Counters, NoCounters, NoUndo, Undo, RbPCs
<1>2. RowsOK
  BY DEF Init, RowsOK, Row, NoRow
<1>3. JobsOK
  BY <1>1 DEF Init, JobsOK
<1> QED
  BY <1>1, <1>2, <1>3 DEF Init, TypeOK

\* The fields of a job that the steps of a handler replace.
LEMMA PcEditType ==
  ASSUME NEW t \in Job, NEW pc \in JobPCs
  PROVE  [t EXCEPT !.pc = pc] \in Job
  BY DEF Job

LEMMA WorkEditType ==
  ASSUME NEW t \in Job, NEW pc \in JobPCs, NEW S \in SUBSET Images
  PROVE  /\ [t EXCEPT !.pc = pc, !.todo = S] \in Job
         /\ [t EXCEPT !.pc = pc, !.ok = S] \in Job
         /\ [t EXCEPT !.pc = pc, !.bad = S, !.todo = {}] \in Job
         /\ [t EXCEPT !.pc = pc, !.todo = {}] \in Job
         /\ [t EXCEPT !.pc = pc, !.todo = {}, !.note = "failed"] \in Job
<1>1. {} \in SUBSET Images
  OBVIOUS
<1> QED
  BY <1>1 DEF Job

LEMMA SeenEditType ==
  ASSUME NEW t \in Job, NEW pc \in JobPCs, NEW c \in Counters
  PROVE  [t EXCEPT !.pc = pc, !.seen = c] \in Job
  BY DEF Job

\* The image that is worked on leaves todo, and ends in ok or in bad.
LEMMA ItemEditType ==
  ASSUME NEW t \in Job, NEW x \in Images, NEW n \in Nat
  PROVE  /\ [t EXCEPT !.todo = @ \ {x}] \in Job
         /\ [t EXCEPT !.pc = "rows", !.cur = {}, !.id = 0, !.ok = @ \union {x}] \in Job
         /\ [t EXCEPT !.pc = "rows", !.cur = {}, !.id = 0, !.bad = @ \union {x}] \in Job
         /\ [t EXCEPT !.pc = "rows", !.todo = @ \ {x}, !.cur = {}, !.id = 0,
                      !.bad = @ \union {x}] \in Job
         /\ [t EXCEPT !.pc = "path", !.cur = {x}, !.id = n, !.todo = @ \ {x}] \in Job
<1>1. /\ t.todo \ {x} \in SUBSET Images /\ t.bad \union {x} \in SUBSET Images
      /\ t.ok \union {x} \in SUBSET Images
  BY DEF Job
<1>2. /\ "rows" \in JobPCs /\ "path" \in JobPCs /\ 0 \in Nat
      /\ {} \in SUBSET Images /\ {x} \in SUBSET Images
  BY DEF JobPCs
<1>3. [t EXCEPT !.todo = t.todo \ {x}] \in Job
  BY <1>1, <1>2 DEF Job
<1>4. [t EXCEPT !.pc = "rows", !.cur = {}, !.id = 0, !.ok = t.ok \union {x}] \in Job
  BY <1>1, <1>2 DEF Job
<1>5. [t EXCEPT !.pc = "rows", !.cur = {}, !.id = 0, !.bad = t.bad \union {x}] \in Job
  BY <1>1, <1>2 DEF Job
<1>6. [t EXCEPT !.pc = "rows", !.todo = t.todo \ {x}, !.cur = {}, !.id = 0,
                !.bad = t.bad \union {x}] \in Job
  BY <1>1, <1>2 DEF Job
<1>7. [t EXCEPT !.pc = "path", !.cur = {x}, !.id = n, !.todo = t.todo \ {x}] \in Job
  BY <1>1, <1>2 DEF Job
<1> QED
  BY <1>3, <1>4, <1>5, <1>6, <1>7

\* The steps that only replace a job.
LEMMA JobStepType ==
  ASSUME TypeOK, NEW i \in Imports, NEW t \in Job, Put(i, t),
         UNCHANGED <<img, asked, rec, rb>>, faults' \in 0..MaxFaults
  PROVE  TypeOK'
<1>1. JobsOK'
  BY PutType DEF TypeOK
<1> QED
  BY <1>1 DEF TypeOK, RowsOK

\* Each step of a handler writes a typed job.
LEMMA HandlerStepType ==
  ASSUME TypeOK, NEW i \in Imports,
         \/ EnqueueImport(i) \/ EnqueueFails(i) \/ TakeImport(i) \/ ItemFails(i)
         \/ LoopEnds(i) \/ BulkFails(i) \/ HydrateFails(i) \/ HydrateEnds(i)
         \/ ReadCounters(i) \/ Return(i) \/ Interrupted(i)
  PROVE  TypeOK'
<1>0. JobsOK /\ job[i] \in Job /\ faults \in 0..MaxFaults
      /\ job[i].todo \subseteq Images /\ job[i].cur \subseteq Images
      /\ job[i].ok \subseteq Images /\ job[i].bad \subseteq Images
  BY JobFields DEF TypeOK
<1>1. CASE EnqueueImport(i)
  <2>1. [job[i] EXCEPT !.pc = "waiting"] \in Job
    BY <1>0, PcEditType DEF JobPCs
  <2> QED
    BY <1>0, <1>1, <2>1, JobStepType DEF EnqueueImport
<1>2. CASE EnqueueFails(i)
  <2>1. [job[i] EXCEPT !.pc = "refused"] \in Job
    BY <1>0, PcEditType DEF JobPCs
  <2> QED
    BY <1>0, <1>2, <2>1, JobStepType, FaultType DEF EnqueueFails
<1>3. CASE TakeImport(i)
  <2> DEFINE pc == IF i \in Bulk THEN "bulk" ELSE "rows"
  <2>1. [job[i] EXCEPT !.pc = pc, !.todo = Items[i]] \in Job
    BY <1>0, WorkEditType DEF JobPCs
  <2> QED
    BY <1>0, <1>3, <2>1, JobStepType DEF TakeImport
<1>4. CASE ItemFails(i)
  <2>1. PICK x \in Images :
          Put(i, [job[i] EXCEPT !.pc = "rows", !.todo = @ \ {x}, !.cur = {},
                                !.id = 0, !.bad = @ \union {x}])
    BY <1>0, <1>4 DEF ItemFails
  <2> DEFINE t == [job[i] EXCEPT !.pc = "rows", !.todo = @ \ {x}, !.cur = {},
                                 !.id = 0, !.bad = @ \union {x}]
  <2>2. t \in Job
    BY <1>0, ItemEditType
  <2> QED
    BY <1>0, <1>4, <2>1, <2>2, JobStepType, FaultType DEF ItemFails
<1>5. CASE LoopEnds(i)
  <2>1. [job[i] EXCEPT !.pc = "hydrate", !.todo = job[i].ok] \in Job
    BY <1>0, WorkEditType DEF JobPCs
  <2> QED
    BY <1>0, <1>5, <2>1, JobStepType DEF LoopEnds
<1>6. CASE BulkFails(i)
  <2>1. [job[i] EXCEPT !.pc = "hydrate", !.bad = Items[i], !.todo = {}] \in Job
    BY <1>0, WorkEditType DEF JobPCs
  <2> QED
    BY <1>0, <1>6, <2>1, JobStepType, FaultType DEF BulkFails
<1>7. CASE HydrateFails(i)
  <2>1. [job[i] EXCEPT !.pc = "read", !.todo = {}, !.note = "failed"] \in Job
    BY <1>0, WorkEditType DEF JobPCs
  <2> QED
    BY <1>0, <1>7, <2>1, JobStepType, FaultType DEF HydrateFails
<1>8. CASE HydrateEnds(i)
  <2>1. [job[i] EXCEPT !.pc = "read", !.todo = {}] \in Job
    BY <1>0, WorkEditType DEF JobPCs
  <2> QED
    BY <1>0, <1>8, <2>1, JobStepType DEF HydrateEnds
<1>9. CASE ReadCounters(i)
  <2>1. rec[i] \in Counters
    BY DEF TypeOK
  <2>2. [job[i] EXCEPT !.pc = "write", !.seen = rec[i]] \in Job
    BY <1>0, <2>1, SeenEditType DEF JobPCs
  <2> QED
    BY <1>0, <1>9, <2>2, JobStepType DEF ReadCounters
<1>10. CASE Return(i)
  <2>1. [job[i] EXCEPT !.pc = "done"] \in Job
    BY <1>0, PcEditType DEF JobPCs
  <2> QED
    BY <1>0, <1>10, <2>1, JobStepType DEF Return
<1>11. CASE Interrupted(i)
  BY <1>0, <1>11, RedeliverJobType, JobStepType, FaultType DEF Interrupted
<1> QED
  BY <1>1, <1>2, <1>3, <1>4, <1>5, <1>6, <1>7, <1>8, <1>9, <1>10, <1>11

\* So do the steps that also write the rows, the counters or the requests.
LEMMA WritingStepType ==
  ASSUME TypeOK, NEW i \in Imports,
         \/ CreateImport(i) \/ UpsertOne(i) \/ SetPath(i) \/ BulkUpsert(i)
         \/ Hydrate(i) \/ WriteCounters(i)
  PROVE  TypeOK'
<1>0. JobsOK /\ RowsOK /\ job[i] \in Job /\ faults \in 0..MaxFaults
      /\ job[i].todo \subseteq Images /\ job[i].cur \subseteq Images
      /\ job[i].ok \subseteq Images /\ job[i].bad \subseteq Images
      /\ rec \in [Imports -> Counters]
  BY JobFields DEF TypeOK
<1>1. CASE CreateImport(i)
  <2> DEFINE pc == IF Items[i] = {} THEN "done" ELSE "send"
  <2>1. [job[i] EXCEPT !.pc = pc] \in Job
    BY <1>0, PcEditType DEF JobPCs
  <2>2. JobsOK'
    BY <1>0, <1>1, <2>1, PutType DEF CreateImport
  <2>3. rec' \in [Imports -> Counters]
    BY <1>0, <1>1 DEF CreateImport, Counters
  <2> QED
    BY <1>0, <1>1, <2>2, <2>3 DEF CreateImport, TypeOK, RowsOK
<1>2. CASE UpsertOne(i)
  <2>1. PICK x \in Images :
          /\ img' = [img EXCEPT ![x] = Upserted(@, i, "pending")]
          /\ Put(i, [job[i] EXCEPT !.pc = "path", !.cur = {x}, !.id = img'[x].id,
                                   !.todo = @ \ {x}])
    BY <1>0, <1>2 DEF UpsertOne
  <2>2. Upserted(img[x], i, "pending") \in Row
    BY <1>0, RowFields, UpsertedType
  <2>3. img' \in [Images -> Row]
    BY <1>0, <2>1, <2>2 DEF RowsOK
  <2>4. img'[x].id \in Nat
    BY <2>3 DEF Row
  <2> DEFINE id == img'[x].id
             t == [job[i] EXCEPT !.pc = "path", !.cur = {x}, !.id = id,
                                 !.todo = @ \ {x}]
  <2>5. t \in Job
    <3> HIDE DEF id
    <3>1. id \in Nat
      BY <2>4 DEF id
    <3> QED
      BY <1>0, <3>1, ItemEditType
  <2>6. JobsOK'
    BY <1>0, <1>2, <2>1, <2>5, PutType DEF UpsertOne
  <2> QED
    BY <1>0, <1>2, <2>3, <2>6 DEF UpsertOne, TypeOK, RowsOK
<1>3. CASE SetPath(i)
  <2>1. PICK x \in Images :
          \/ /\ img' = [img EXCEPT ![x].path = "stable"]
             /\ Put(i, [job[i] EXCEPT !.pc = "rows", !.cur = {}, !.id = 0,
                                      !.ok = @ \union {x}])
          \/ /\ Put(i, [job[i] EXCEPT !.pc = "rows", !.cur = {}, !.id = 0,
                                      !.bad = @ \union {x}])
             /\ UNCHANGED img
    BY <1>0, <1>3 DEF SetPath
  <2> DEFINE t == [job[i] EXCEPT !.pc = "rows", !.cur = {}, !.id = 0,
                                 !.ok = @ \union {x}]
             u == [job[i] EXCEPT !.pc = "rows", !.cur = {}, !.id = 0,
                                 !.bad = @ \union {x}]
  <2>2. t \in Job
    BY <1>0, ItemEditType
  <2>6. u \in Job
    BY <1>0, ItemEditType
  <2>3. JobsOK'
    BY <1>0, <1>3, <2>1, <2>2, <2>6, PutType DEF SetPath
  <2>4. [img[x] EXCEPT !.path = "stable"] \in Row
    BY <1>0, RowFields DEF Row
  <2>5. img' \in [Images -> Row]
    BY <1>0, <2>1, <2>4 DEF RowsOK
  <2> QED
    BY <1>0, <1>3, <2>3, <2>5 DEF SetPath, TypeOK, RowsOK
<1>4. CASE BulkUpsert(i)
  <2>1. [job[i] EXCEPT !.pc = "hydrate", !.ok = Items[i]] \in Job
    BY <1>0, WorkEditType DEF JobPCs
  <2>2. JobsOK'
    BY <1>0, <1>4, <2>1, PutType DEF BulkUpsert
  <2>3. \A x \in Images : Upserted(img[x], i, "stable") \in Row /\ img[x] \in Row
    BY <1>0, RowFields, UpsertedType
  <2>4. img' \in [Images -> Row]
    BY <1>4, <2>3 DEF BulkUpsert
  <2> QED
    BY <1>0, <1>4, <2>2, <2>4 DEF BulkUpsert, TypeOK, RowsOK
<1>5. CASE Hydrate(i)
  <2>1. PICK x \in Images :
          /\ asked' = asked \union {x}
          /\ Put(i, [job[i] EXCEPT !.todo = @ \ {x}])
    BY <1>0, <1>5 DEF Hydrate
  <2>2. [job[i] EXCEPT !.todo = @ \ {x}] \in Job
    BY <1>0, ItemEditType
  <2>3. JobsOK'
    BY <1>0, <1>5, <2>1, <2>2, PutType DEF Hydrate
  <2> QED
    BY <1>0, <1>5, <2>1, <2>3 DEF Hydrate, TypeOK, RowsOK
<1>6. CASE WriteCounters(i)
  <2>1. NoCounters \in Counters
    BY DEF NoCounters, Counters
  <2>2. [job[i] EXCEPT !.pc = "return", !.seen = NoCounters] \in Job
    BY <1>0, <2>1, SeenEditType DEF JobPCs
  <2>3. JobsOK'
    BY <1>0, <1>6, <2>2, PutType DEF WriteCounters
  <2> DEFINE s == job[i].seen.success + Cardinality(job[i].ok)
             f == job[i].seen.failed + Cardinality(job[i].bad)
  <2>4. s \in Nat /\ f \in Nat
    BY <1>0, JobFields, ItemsFinite
  <2>5. rec' = [rec EXCEPT ![i] = [success |-> s, failed |-> f]]
    BY <1>6 DEF WriteCounters
  <2>6. rec' \in [Imports -> Counters]
    <3> HIDE DEF s, f
    <3> QED
      BY <1>0, <2>4, <2>5 DEF Counters
  <2> QED
    BY <1>0, <1>6, <2>3, <2>6 DEF WriteCounters, TypeOK, RowsOK
<1> QED
  BY <1>1, <1>2, <1>3, <1>4, <1>5, <1>6

\* And the steps of a rollback.
LEMMA RollbackStepType ==
  ASSUME TypeOK, NEW r \in Requests,
         \/ AskRollback(r) \/ TakeRollback(r) \/ ApplyRollback(r)
         \/ RecordRollback(r) \/ RollbackInterrupted(r)
  PROVE  TypeOK'
<1> USE UndoFields
<1>0. JobsOK /\ RowsOK /\ faults \in 0..MaxFaults
  BY DEF TypeOK
<1>1. CASE AskRollback(r)
  <2>1. PICK i \in Imports, to \in {"disabled", "absent"} :
          rb' = [rb EXCEPT ![r] = [@ EXCEPT !.pc = "waiting", !.import = i, !.to = to]]
    BY <1>1 DEF AskRollback
  <2> DEFINE u == [rb[r] EXCEPT !.pc = "waiting", !.import = i, !.to = to]
  <2>2. u \in Undo
    BY <1>0 DEF Undo, RbPCs
  <2>3. rb' = [rb EXCEPT ![r] = u]
    BY <2>1
  <2> HIDE DEF u
  <2>4. JobsOK'
    BY <1>0, <1>1, <2>2, <2>3, UndoUpdateType DEF AskRollback
  <2> QED
    BY <1>0, <1>1, <2>4 DEF AskRollback, TypeOK, RowsOK
<1>2. CASE TakeRollback(r)
  <2>1. [rb[r] EXCEPT !.pc = "apply"] \in Undo
    BY <1>0 DEF Undo, RbPCs
  <2>2. JobsOK'
    BY <1>0, <1>2, <2>1, UndoUpdateType DEF TakeRollback
  <2> QED
    BY <1>0, <1>2, <2>2 DEF TakeRollback, TypeOK, RowsOK
<1>3. CASE ApplyRollback(r)
  <2> DEFINE after == IF job[rb[r].import].pc \in Ended THEN "yes" ELSE "no"
  <2>1. [rb[r] EXCEPT !.pc = "record", !.after = after] \in Undo
    BY <1>0 DEF Undo, RbPCs
  <2>2. JobsOK'
    BY <1>0, <1>3, <2>1, UndoUpdateType DEF ApplyRollback
  <2>3. \A x \in Images : img[x] \in Row /\ RolledBack(img[x], rb[r].to) \in Row
    <3> SUFFICES ASSUME NEW x \in Images PROVE RolledBack(img[x], rb[r].to) \in Row
      BY <1>0, RowFields
    <3>1. [NoRow EXCEPT !.id = img[x].id] \in Row
      BY <1>0, RowFields DEF NoRow, Row
    <3>2. [img[x] EXCEPT !.status = rb[r].to] \in Row
      BY <1>0, RowFields DEF Row
    <3> QED
      BY <3>1, <3>2 DEF RolledBack
  <2>4. img' \in [Images -> Row]
    BY <1>3, <2>3 DEF ApplyRollback
  <2> QED
    BY <1>0, <1>3, <2>2, <2>4 DEF ApplyRollback, TypeOK, RowsOK
<1>4. CASE RecordRollback(r)
  <2>1. [rb[r] EXCEPT !.pc = "done"] \in Undo
    BY <1>0 DEF Undo, RbPCs
  <2>2. JobsOK'
    BY <1>0, <1>4, <2>1, UndoUpdateType DEF RecordRollback
  <2> QED
    BY <1>0, <1>4, <2>2 DEF RecordRollback, TypeOK, RowsOK
<1>5. CASE RollbackInterrupted(r)
  <2> DEFINE u == Redeliver(rb[r], [NoUndo EXCEPT !.import = rb[r].import,
                                                  !.to = rb[r].to])
  <2>1. u \in Undo
    BY <1>0, RedeliverUndoType
  <2>2. rb' = [rb EXCEPT ![r] = u]
    BY <1>5 DEF RollbackInterrupted
  <2> HIDE DEF u
  <2>3. JobsOK'
    BY <1>0, <1>5, <2>1, <2>2, UndoUpdateType DEF RollbackInterrupted
  <2> QED
    BY <1>0, <1>5, <2>3, FaultType DEF RollbackInterrupted, TypeOK, RowsOK
<1> QED
  BY <1>1, <1>2, <1>3, <1>4, <1>5

LEMMA NextType ==
  ASSUME TypeOK, [Next]_vars
  PROVE  TypeOK'
<1>1. CASE UNCHANGED vars
  BY <1>1 DEF TypeOK, RowsOK, JobsOK, vars
<1>2. ASSUME NEW i \in Imports,
             \/ CreateImport(i) \/ EnqueueImport(i) \/ EnqueueFails(i)
             \/ ImportStep(i) \/ ItemFails(i) \/ BulkFails(i) \/ HydrateFails(i)
             \/ Interrupted(i)
      PROVE  TypeOK'
  BY <1>2, HandlerStepType, WritingStepType DEF ImportStep
<1>3. ASSUME NEW r \in Requests,
             AskRollback(r) \/ RollbackStep(r) \/ RollbackInterrupted(r)
      PROVE  TypeOK'
  BY <1>3, RollbackStepType DEF RollbackStep
<1> QED
  BY <1>1, <1>2, <1>3 DEF Next

\* Type correctness: the image rows, the counters, the jobs of both queues keep
\* their types through every step of src/jobs/importImages.ts.
THEOREM TypeCorrect == Spec => []TypeOK
<1> QED
  BY InitType, NextType, PTL DEF Spec

-----------------------------------------------------------------------------
(***************************************************************************)
(* What a rollback can rely on.  RolledBackStaysOff is not inductive: that *)
(* no row comes back needs that the job of a rolled back import does not   *)
(* run again once it was over, and ForeignRowsSurvive that no row that was *)
(* there before an import is ever taken for one of its own.                *)
(***************************************************************************)

\* An import that no job will work on any more.
Over == {"refused", "done", "dead"}

Late(r) == rb[r].pc \in {"record", "done"} /\ rb[r].after = "yes"

Named ==
  \A r \in Requests : rb[r].pc # "none" =>
    rb[r].import \in Imports /\ job[rb[r].import].pc # "none"

Final ==
  \A r \in Requests : Late(r) =>
    /\ job[rb[r].import].pc \in Over
    /\ \A x \in Images : img[x].made = rb[r].import => img[x].status # "active"

Foreign ==
  \A x \in Existing :
    img[x].status = "active" /\ img[x].made = NoImport /\ img[x].id = 1

RollbackInv == Named /\ Final /\ Foreign

\* A job that is over stays as it is, and none is forgotten.
Onward ==
  \A j \in Imports :
    /\ job[j].pc \in Over => job'[j].pc = job[j].pc
    /\ job[j].pc # "none" => job'[j].pc # "none"

\* An import only adds rows of its own.
RowsKept(i) ==
  \A x \in Images :
    \/ /\ img'[x].status = img[x].status /\ img'[x].made = img[x].made
       /\ img'[x].id = img[x].id
    \/ img[x].status = "absent" /\ img'[x].made = i

\* A step of an import whose job is not over keeps the invariant.
LEMMA ImportStepKeeps ==
  ASSUME RollbackInv, NEW i \in Imports, job[i].pc \notin Over,
         Onward, RowsKept(i), UNCHANGED rb
  PROVE  RollbackInv'
<1>1. Named'
  BY DEF RollbackInv, Named, Onward
<1>2. Foreign'
  BY DEF RollbackInv, Foreign, RowsKept
<1>3. ASSUME NEW r \in Requests, Late(r)'
      PROVE  /\ job'[rb'[r].import].pc \in Over
             /\ \A x \in Images : img'[x].made = rb'[r].import => img'[x].status # "active"
  <2>1. Late(r) /\ rb[r].pc # "none"
    BY <1>3 DEF Late
  <2>2. rb[r].import \in Imports
    BY <2>1 DEF RollbackInv, Named
  <2>3. job[rb[r].import].pc \in Over
    BY <2>1 DEF RollbackInv, Final
  <2>4. rb[r].import # i
    BY <2>3
  <2>5. \A x \in Images : img[x].made = rb[r].import => img[x].status # "active"
    BY <2>1 DEF RollbackInv, Final
  <2> QED
    BY <2>2, <2>3, <2>4, <2>5 DEF Onward, RowsKept
<1> QED
  BY <1>1, <1>2, <1>3 DEF RollbackInv, Final

LEMMA PutOnward ==
  ASSUME JobsOK, NEW i \in Imports, NEW t, Put(i, t),
         job[i].pc \notin Over, t.pc # "none"
  PROVE  Onward
  BY DEF JobsOK, Put, Onward

\* A repeated delivery waits, or its job is dead-lettered.
LEMMA RedeliverPc ==
  ASSUME NEW t \in Job
  PROVE  Redeliver(t, NoJob).pc \in {"waiting", "dead"}
  BY DEF Redeliver, NoJob

\* An upsert leaves a row its status, its creator and its id, or creates it.
LEMMA UpsertedKeeps ==
  ASSUME NEW row \in Row, NEW i \in Imports, NEW p \in {"pending", "stable"}
  PROVE  LET new == Upserted(row, i, p)
         IN  /\ new.path = p
             /\ \/ /\ new.status = row.status /\ new.made = row.made
                   /\ new.id = row.id
                \/ row.status = "absent" /\ new.made = i
  BY DEF Upserted, Row

\* Every step of an import meets the assumptions of ImportStepKeeps.
LEMMA HandlerStepKeeps ==
  ASSUME TypeOK, RollbackInv, NEW i \in Imports,
         \/ CreateImport(i) \/ EnqueueImport(i) \/ EnqueueFails(i) \/ TakeImport(i)
         \/ ItemFails(i) \/ LoopEnds(i) \/ BulkFails(i) \/ Hydrate(i)
         \/ HydrateFails(i) \/ HydrateEnds(i) \/ ReadCounters(i)
         \/ WriteCounters(i) \/ Return(i) \/ Interrupted(i)
  PROVE  RollbackInv'
<1>0. JobsOK /\ job[i] \in Job
  BY JobFields DEF TypeOK
<1>1. job[i].pc \notin Over /\ UNCHANGED <<img, rb>>
  BY DEF Over, Running, CreateImport, EnqueueImport, EnqueueFails, TakeImport,
         ItemFails, LoopEnds, BulkFails, Hydrate, HydrateFails, HydrateEnds,
         ReadCounters, WriteCounters, Return, Interrupted
<1>2. RowsKept(i)
  BY <1>1 DEF RowsKept
<1>3. CASE Interrupted(i)
  <2>1. Redeliver(job[i], NoJob).pc # "none"
    BY <1>0, RedeliverPc
  <2>2. Onward
    BY <1>0, <1>1, <1>3, <2>1, PutOnward DEF Interrupted
  <2> QED
    BY <1>1, <1>2, <2>2, ImportStepKeeps
<1>4. CASE ~Interrupted(i)
  <2>1. Onward
    <3>1. CASE CreateImport(i)
      BY <1>0, <1>1, <3>1, PutOnward DEF CreateImport, Job
    <3>2. CASE EnqueueImport(i)
      BY <1>0, <1>1, <3>2, PutOnward DEF EnqueueImport, Job
    <3>3. CASE EnqueueFails(i)
      BY <1>0, <1>1, <3>3, PutOnward DEF EnqueueFails, Job
    <3>4. CASE TakeImport(i)
      BY <1>0, <1>1, <3>4, PutOnward DEF TakeImport, Job
    <3>5. CASE LoopEnds(i)
      BY <1>0, <1>1, <3>5, PutOnward DEF LoopEnds, Job
    <3>6. CASE BulkFails(i)
      BY <1>0, <1>1, <3>6, PutOnward DEF BulkFails, Job
    <3>7. CASE HydrateFails(i)
      BY <1>0, <1>1, <3>7, PutOnward DEF HydrateFails, Job
    <3>8. CASE HydrateEnds(i)
      BY <1>0, <1>1, <3>8, PutOnward DEF HydrateEnds, Job
    <3>9. CASE ReadCounters(i)
      BY <1>0, <1>1, <3>9, PutOnward DEF ReadCounters, Job
    <3>10. CASE WriteCounters(i)
      BY <1>0, <1>1, <3>10, PutOnward DEF WriteCounters, Job
    <3>11. CASE Return(i)
      BY <1>0, <1>1, <3>11, PutOnward DEF Return, Job
    <3>12. CASE ItemFails(i)
      <4>1. PICK x \in Images :
              Put(i, [job[i] EXCEPT !.pc = "rows", !.todo = @ \ {x}, !.cur = {},
                                    !.id = 0, !.bad = @ \union {x}])
        BY <1>0, <3>12, JobFields DEF ItemFails
      <4> QED
        BY <1>0, <1>1, <4>1, PutOnward DEF Job
    <3>13. CASE Hydrate(i)
      <4>1. PICK x \in Images : Put(i, [job[i] EXCEPT !.todo = @ \ {x}])
        BY <1>0, <3>13, JobFields DEF Hydrate
      <4>2. job[i].pc # "none"
        BY <3>13 DEF Hydrate
      <4> QED
        BY <1>0, <1>1, <4>1, <4>2, PutOnward DEF Job
    <3> QED
      BY <1>4, <3>1, <3>2, <3>3, <3>4, <3>5, <3>6, <3>7, <3>8, <3>9, <3>10, <3>11, <3>12, <3>13
  <2> QED
    BY <1>1, <1>2, <2>1, ImportStepKeeps
<1> QED
  BY <1>3, <1>4

LEMMA WritingStepKeeps ==
  ASSUME TypeOK, RollbackInv, NEW i \in Imports,
         UpsertOne(i) \/ SetPath(i) \/ BulkUpsert(i)
  PROVE  RollbackInv'
<1>0. JobsOK /\ RowsOK /\ job[i] \in Job
  BY JobFields DEF TypeOK
<1>1. job[i].pc \notin Over /\ UNCHANGED rb
  BY DEF Over, UpsertOne, SetPath, BulkUpsert
<1>2. CASE UpsertOne(i)
  <2>1. PICK x \in Images :
          /\ img' = [img EXCEPT ![x] = Upserted(@, i, "pending")]
          /\ Put(i, [job[i] EXCEPT !.pc = "path", !.cur = {x}, !.id = img'[x].id,
                                   !.todo = @ \ {x}])
    BY <1>0, <1>2, JobFields DEF UpsertOne
  <2>2. Onward
    BY <1>0, <1>1, <2>1, PutOnward DEF Job
  <2>3. RowsKept(i)
    BY <1>0, <2>1, RowFields, UpsertedKeeps DEF RowsOK, RowsKept
  <2> QED
    BY <1>1, <2>2, <2>3, ImportStepKeeps
<1>3. CASE SetPath(i)
  <2>1. PICK x \in Images :
          \/ Put(i, [job[i] EXCEPT !.pc = "rows", !.cur = {}, !.id = 0,
                                   !.ok = @ \union {x}])
          \/ Put(i, [job[i] EXCEPT !.pc = "rows", !.cur = {}, !.id = 0,
                                   !.bad = @ \union {x}])
    BY <1>0, <1>3, JobFields DEF SetPath
  <2>2. Onward
    BY <1>0, <1>1, <2>1, PutOnward DEF Job
  <2>3. RowsKept(i)
    <3>1. CASE UNCHANGED img
      BY <3>1 DEF RowsKept
    <3>2. ASSUME NEW y \in Images, img' = [img EXCEPT ![y].path = "stable"]
          PROVE  RowsKept(i)
      BY <1>0, <3>2, RowFields DEF RowsOK, Row, RowsKept
    <3> QED
      BY <1>0, <1>3, <3>1, <3>2, JobFields DEF SetPath
  <2> QED
    BY <1>1, <2>2, <2>3, ImportStepKeeps
<1>4. CASE BulkUpsert(i)
  <2>1. Onward
    BY <1>0, <1>1, <1>4, PutOnward DEF BulkUpsert, Job
  <2>2. RowsKept(i)
    BY <1>0, <1>4, RowFields, UpsertedKeeps DEF BulkUpsert, RowsKept
  <2> QED
    BY <1>1, <2>1, <2>2, ImportStepKeeps
<1> QED
  BY <1>2, <1>3, <1>4

\* A step of a rollback other than the one that writes the rows.
LEMMA UndoStepKeeps ==
  ASSUME TypeOK, RollbackInv, NEW r \in Requests,
         \/ AskRollback(r) \/ TakeRollback(r)
         \/ RecordRollback(r) \/ RollbackInterrupted(r)
  PROVE  RollbackInv'
<1>0. JobsOK /\ rb[r] \in Undo /\ UNCHANGED <<img, job>>
  BY UndoFields DEF TypeOK, AskRollback, TakeRollback, RecordRollback, RollbackInterrupted
<1>1. \A q \in Requests \ {r} : rb'[q] = rb[q]
  BY <1>0 DEF JobsOK, AskRollback, TakeRollback, RecordRollback, RollbackInterrupted
<1>2. /\ rb'[r].import \in Imports /\ job[rb'[r].import].pc # "none"
      /\ Late(r)' => Late(r) /\ rb'[r].import = rb[r].import
  <2>1. CASE AskRollback(r)
    <3>1. PICK j \in Imports, to \in {"disabled", "absent"} :
            /\ job[j].pc # "none"
            /\ rb' = [rb EXCEPT ![r] = [@ EXCEPT !.pc = "waiting", !.import = j, !.to = to]]
      BY <2>1 DEF AskRollback
    <3>2. rb'[r].pc = "waiting" /\ rb'[r].import = j
      BY <1>0, <3>1 DEF JobsOK, Undo
    <3> QED
      BY <3>1, <3>2 DEF Late
  <2>2. CASE TakeRollback(r)
    BY <1>0, <2>2 DEF JobsOK, Undo, TakeRollback, Late, RollbackInv, Named
  <2>3. CASE RecordRollback(r)
    BY <1>0, <2>3 DEF JobsOK, Undo, RecordRollback, Late, RollbackInv, Named
  <2>4. CASE RollbackInterrupted(r)
    <3> DEFINE u == Redeliver(rb[r], [NoUndo EXCEPT !.import = rb[r].import,
                                                    !.to = rb[r].to])
    <3>1. u.pc \in {"waiting", "dead"} /\ u.import = rb[r].import
      BY <1>0 DEF Redeliver, NoUndo, Undo
    <3>2. rb' = [rb EXCEPT ![r] = u] /\ rb[r].pc # "none"
      BY <2>4 DEF RollbackInterrupted
    <3> HIDE DEF u
    <3>3. rb'[r] = u
      BY <1>0, <3>2 DEF JobsOK
    <3> QED
      BY <3>1, <3>2, <3>3 DEF Late, RollbackInv, Named
  <2> QED
    BY <2>1, <2>2, <2>3, <2>4
<1>3. Named' /\ Foreign'
  BY <1>0, <1>1, <1>2 DEF RollbackInv, Named, Foreign
<1>4. Final'
  BY <1>0, <1>1, <1>2 DEF RollbackInv, Final, Late
<1> QED
  BY <1>3, <1>4 DEF RollbackInv

\* The step that writes the rows: none of them is active afterwards that has
\* the creator, and no row becomes active or gets another creator.
LEMMA ApplyKeeps ==
  ASSUME TypeOK, RollbackInv, NEW r \in Requests, ApplyRollback(r)
  PROVE  RollbackInv'
<1>0. JobsOK /\ RowsOK /\ rb[r] \in Undo /\ UNCHANGED job
  BY UndoFields DEF TypeOK, ApplyRollback
<1>1. rb[r].import \in Imports /\ job[rb[r].import].pc # "none"
  BY DEF ApplyRollback, RollbackInv, Named
<1> DEFINE i == rb[r].import
<1>2. \A q \in Requests \ {r} : rb'[q] = rb[q]
  BY <1>0 DEF JobsOK, ApplyRollback
<1>3. /\ rb'[r].import = i
      /\ rb'[r].after = "yes" => job[i].pc \in Over
  <2>1. job[i].pc \in Ended => job[i].pc \in Over
    BY <1>1 DEF Ended, Over
  <2> QED
    BY <1>0, <2>1 DEF JobsOK, Undo, ApplyRollback
<1>4. ASSUME NEW x \in Images
      PROVE  /\ img[x].made # i => img'[x] = img[x]
             /\ img[x].made = i =>
                  /\ img'[x].status # "active"
                  /\ img'[x].made \in {i, NoImport}
  <2>1. img'[x] = IF img[x].status # "absent" /\ img[x].made = i
                  THEN RolledBack(img[x], rb[r].to) ELSE img[x]
    BY DEF ApplyRollback
  <2>2. RolledBack(img[x], rb[r].to).status # "active"
    BY <1>0, RowFields, UndoFields DEF RolledBack, NoRow, Row
  <2>3. RolledBack(img[x], rb[r].to).made \in {img[x].made, NoImport}
    BY <1>0, RowFields DEF RolledBack, NoRow, Row
  <2> QED
    BY <2>1, <2>2, <2>3
<1>5. Named'
  BY <1>0, <1>1, <1>2, <1>3 DEF RollbackInv, Named
<1>6. Foreign'
  <2>1. i # NoImport
    BY <1>1
  <2> QED
    BY <1>4, <2>1 DEF RollbackInv, Foreign
<1>7. ASSUME NEW q \in Requests, Late(q)'
      PROVE  /\ job'[rb'[q].import].pc \in Over
             /\ \A x \in Images : img'[x].made = rb'[q].import => img'[x].status # "active"
  <2>1. CASE q = r
    <3>1. job'[rb'[q].import].pc \in Over
      BY <1>0, <1>3, <1>7, <2>1 DEF Late
    <3>2. \A x \in Images : img'[x].made = i => img'[x].status # "active"
      BY <1>4
    <3> QED
      BY <1>3, <2>1, <3>1, <3>2
  <2>2. CASE q # r
    <3>1. rb'[q] = rb[q] /\ Late(q) /\ rb[q].pc # "none"
      BY <1>2, <1>7, <2>2 DEF Late
    <3>2. rb[q].import \in Imports /\ rb[q].import # NoImport
      BY <3>1 DEF RollbackInv, Named
    <3>3. /\ job[rb[q].import].pc \in Over
          /\ \A x \in Images : img[x].made = rb[q].import => img[x].status # "active"
      BY <3>1 DEF RollbackInv, Final
    <3> HIDE DEF i
    <3> QED
      BY <1>0, <1>4, <3>1, <3>2, <3>3
  <2> QED
    BY <2>1, <2>2
<1> QED
  BY <1>5, <1>6, <1>7 DEF RollbackInv, Final

LEMMA InitRollback == Init => RollbackInv
  BY DEF Init, RollbackInv, Named, Final, Foreign, Late, NoUndo

LEMMA NextRollback ==
  ASSUME TypeOK, RollbackInv, [Next]_vars
  PROVE  RollbackInv'
<1>1. CASE UNCHANGED vars
  BY <1>1 DEF vars, RollbackInv, Named, Final, Foreign, Late
<1>2. ASSUME NEW i \in Imports,
             \/ CreateImport(i) \/ EnqueueImport(i) \/ EnqueueFails(i)
             \/ ImportStep(i) \/ ItemFails(i) \/ BulkFails(i) \/ HydrateFails(i)
             \/ Interrupted(i)
      PROVE  RollbackInv'
  BY <1>2, HandlerStepKeeps, WritingStepKeeps DEF ImportStep
<1>3. ASSUME NEW r \in Requests,
             AskRollback(r) \/ RollbackStep(r) \/ RollbackInterrupted(r)
      PROVE  RollbackInv'
  BY <1>3, UndoStepKeeps, ApplyKeeps DEF RollbackStep
<1> QED
  BY <1>1, <1>2, <1>3 DEF Next

\* The inductive invariant of both theorems.
LEMMA RollbackInductive == Spec => []RollbackInv
<1> QED
  BY TypeCorrect, InitRollback, NextRollback, PTL DEF Spec

\* The upserts of src/jobs/importImages.ts write created_import_id only when
\* they create a row: no rollback of any import disables or deletes an image
\* that was there before.
THEOREM ForeignRowsAlwaysSurvive == Spec => []ForeignRowsSurvive
<1>1. RollbackInv => ForeignRowsSurvive
  BY DEF RollbackInv, Foreign, ForeignRowsSurvive
<1> QED
  BY <1>1, RollbackInductive, PTL

\* A rollback that processAdminImportRollback ran after the import's job was
\* over is final, whatever other imports, deliveries and rollbacks do.
THEOREM RollbackIsFinal == Spec => []RolledBackStaysOff
<1>1. RollbackInv => RolledBackStaysOff
  BY DEF RollbackInv, Final, Late, RolledBackStaysOff
<1> QED
  BY <1>1, RollbackInductive, PTL

-----------------------------------------------------------------------------
(***************************************************************************)
(* Provisional paths.  PendingExplained needs that what a handler keeps    *)
(* belongs to its import, and that it works on one image at a time: the    *)
(* explanation of a row moves from cur to bad or to the next delivery.     *)
(***************************************************************************)
ShapeOf(t, i) ==
  /\ t.todo \subseteq Items[i] /\ t.cur \subseteq Items[i]
  /\ t.ok \subseteq Items[i] /\ t.bad \subseteq Items[i]
  /\ t.pc = "path" => \E x \in Images : t.cur = {x}

ExplainedBy(t, i, x) ==
  \/ t.pc = "path" /\ x \in t.cur
  \/ x \in t.bad
  \/ t.att > 0 /\ x \in Items[i] \ t.ok
  \/ t.pc = "dead"

PathInv ==
  /\ \A i \in Imports : ShapeOf(job[i], i)
  /\ \A x \in Images : img[x].path = "pending" =>
       \E i \in Imports : ExplainedBy(job[i], i, x)

\* A step of one import keeps the invariant if each row that is provisional
\* after it is explained by its new job, or was provisional and loses no
\* explanation.
LEMMA ImportStepPaths ==
  ASSUME JobsOK, PathInv, NEW i \in Imports, NEW t, Put(i, t), ShapeOf(t, i),
         \A x \in Images : img'[x].path = "pending" =>
           \/ ExplainedBy(t, i, x)
           \/ img[x].path = "pending" /\ ~ExplainedBy(job[i], i, x)
  PROVE  PathInv'
<1>1. job'[i] = t /\ \A j \in Imports \ {i} : job'[j] = job[j]
  BY DEF JobsOK, Put
<1>2. ASSUME NEW j \in Imports PROVE ShapeOf(job'[j], j)
  BY <1>1 DEF PathInv
<1>3. ASSUME NEW x \in Images, img'[x].path = "pending"
      PROVE  \E j \in Imports : ExplainedBy(job'[j], j, x)
  <2>1. CASE ExplainedBy(t, i, x)
    BY <1>1, <2>1
  <2>2. CASE img[x].path = "pending" /\ ~ExplainedBy(job[i], i, x)
    <3>1. PICK j \in Imports : ExplainedBy(job[j], j, x)
      BY <2>2 DEF PathInv
    <3>2. j # i
      BY <2>2, <3>1
    <3> QED
      BY <1>1, <3>1, <3>2
  <2> QED
    BY <1>3, <2>1, <2>2
<1>4. (\A j \in Imports : ShapeOf(job[j], j))'
  BY <1>2 DEF ShapeOf
<1>5. (\A x \in Images : img[x].path = "pending" =>
        \E j \in Imports : ExplainedBy(job[j], j, x))'
  BY <1>3 DEF ExplainedBy
<1> QED
  BY <1>4, <1>5 DEF PathInv

\* A step that leaves the rows alone.
LEMMA QuietStepPaths ==
  ASSUME JobsOK, PathInv, NEW i \in Imports, NEW t, Put(i, t), ShapeOf(t, i),
         UNCHANGED img,
         \A x \in Images : ExplainedBy(job[i], i, x) => ExplainedBy(t, i, x)
  PROVE  PathInv'
  BY ImportStepPaths

\* The steps of a handler that leave the rows alone.
LEMMA HandlerStepPaths ==
  ASSUME TypeOK, PathInv, NEW i \in Imports,
         \/ CreateImport(i) \/ EnqueueImport(i) \/ EnqueueFails(i) \/ TakeImport(i)
         \/ ItemFails(i) \/ LoopEnds(i) \/ BulkFails(i) \/ Hydrate(i)
         \/ HydrateFails(i) \/ HydrateEnds(i) \/ ReadCounters(i)
         \/ WriteCounters(i) \/ Return(i) \/ Interrupted(i)
  PROVE  PathInv'
<1>0. JobsOK /\ job[i] \in Job /\ ShapeOf(job[i], i)
  BY JobFields DEF TypeOK, PathInv
<1>1. CASE CreateImport(i)
  <2> DEFINE t == [job[i] EXCEPT !.pc = IF Items[i] = {} THEN "done" ELSE "send"]
  <2>1. ShapeOf(t, i)
    BY <1>0, <1>1 DEF CreateImport, Job, ShapeOf
  <2>2. \A x \in Images : ExplainedBy(job[i], i, x) => ExplainedBy(t, i, x)
    BY <1>0, <1>1 DEF CreateImport, Job, ShapeOf, ExplainedBy
  <2>3. Put(i, t) /\ UNCHANGED img
    BY <1>1 DEF CreateImport
  <2> HIDE DEF t
  <2> QED
    BY <1>0, <2>1, <2>2, <2>3, QuietStepPaths
<1>2. CASE EnqueueImport(i)
  <2> DEFINE t == [job[i] EXCEPT !.pc = "waiting"]
  <2>1. ShapeOf(t, i)
    BY <1>0, <1>2 DEF EnqueueImport, Job, ShapeOf
  <2>2. \A x \in Images : ExplainedBy(job[i], i, x) => ExplainedBy(t, i, x)
    BY <1>0, <1>2 DEF EnqueueImport, Job, ShapeOf, ExplainedBy
  <2>3. Put(i, t) /\ UNCHANGED img
    BY <1>2 DEF EnqueueImport
  <2> HIDE DEF t
  <2> QED
    BY <1>0, <2>1, <2>2, <2>3, QuietStepPaths
<1>3. CASE EnqueueFails(i)
  <2> DEFINE t == [job[i] EXCEPT !.pc = "refused"]
  <2>1. ShapeOf(t, i)
    BY <1>0, <1>3 DEF EnqueueFails, Job, ShapeOf
  <2>2. \A x \in Images : ExplainedBy(job[i], i, x) => ExplainedBy(t, i, x)
    BY <1>0, <1>3 DEF EnqueueFails, Job, ShapeOf, ExplainedBy
  <2>3. Put(i, t) /\ UNCHANGED img
    BY <1>3 DEF EnqueueFails
  <2> HIDE DEF t
  <2> QED
    BY <1>0, <2>1, <2>2, <2>3, QuietStepPaths
<1>4. CASE TakeImport(i)
  <2> DEFINE t == [job[i] EXCEPT !.pc = IF i \in Bulk THEN "bulk" ELSE "rows",
                              !.todo = Items[i]]
  <2>1. ShapeOf(t, i)
    BY <1>0, <1>4 DEF TakeImport, Job, ShapeOf
  <2>2. \A x \in Images : ExplainedBy(job[i], i, x) => ExplainedBy(t, i, x)
    BY <1>0, <1>4 DEF TakeImport, Job, ShapeOf, ExplainedBy
  <2>3. Put(i, t) /\ UNCHANGED img
    BY <1>4 DEF TakeImport
  <2> HIDE DEF t
  <2> QED
    BY <1>0, <2>1, <2>2, <2>3, QuietStepPaths
<1>5. CASE LoopEnds(i)
  <2> DEFINE t == [job[i] EXCEPT !.pc = "hydrate", !.todo = job[i].ok]
  <2>1. ShapeOf(t, i)
    BY <1>0, <1>5 DEF LoopEnds, Job, ShapeOf
  <2>2. \A x \in Images : ExplainedBy(job[i], i, x) => ExplainedBy(t, i, x)
    BY <1>0, <1>5 DEF LoopEnds, Job, ShapeOf, ExplainedBy
  <2>3. Put(i, t) /\ UNCHANGED img
    BY <1>5 DEF LoopEnds
  <2> HIDE DEF t
  <2> QED
    BY <1>0, <2>1, <2>2, <2>3, QuietStepPaths
<1>6. CASE BulkFails(i)
  <2> DEFINE t == [job[i] EXCEPT !.pc = "hydrate", !.bad = Items[i], !.todo = {}]
  <2>1. ShapeOf(t, i)
    BY <1>0, <1>6 DEF BulkFails, Job, ShapeOf
  <2>2. \A x \in Images : ExplainedBy(job[i], i, x) => ExplainedBy(t, i, x)
    BY <1>0, <1>6 DEF BulkFails, Job, ShapeOf, ExplainedBy
  <2>3. Put(i, t) /\ UNCHANGED img
    BY <1>6 DEF BulkFails
  <2> HIDE DEF t
  <2> QED
    BY <1>0, <2>1, <2>2, <2>3, QuietStepPaths
<1>7. CASE HydrateFails(i)
  <2> DEFINE t == [job[i] EXCEPT !.pc = "read", !.todo = {}, !.note = "failed"]
  <2>1. ShapeOf(t, i)
    BY <1>0, <1>7 DEF HydrateFails, Job, ShapeOf
  <2>2. \A x \in Images : ExplainedBy(job[i], i, x) => ExplainedBy(t, i, x)
    BY <1>0, <1>7 DEF HydrateFails, Job, ShapeOf, ExplainedBy
  <2>3. Put(i, t) /\ UNCHANGED img
    BY <1>7 DEF HydrateFails
  <2> HIDE DEF t
  <2> QED
    BY <1>0, <2>1, <2>2, <2>3, QuietStepPaths
<1>8. CASE HydrateEnds(i)
  <2> DEFINE t == [job[i] EXCEPT !.pc = "read", !.todo = {}]
  <2>1. ShapeOf(t, i)
    BY <1>0, <1>8 DEF HydrateEnds, Job, ShapeOf
  <2>2. \A x \in Images : ExplainedBy(job[i], i, x) => ExplainedBy(t, i, x)
    BY <1>0, <1>8 DEF HydrateEnds, Job, ShapeOf, ExplainedBy
  <2>3. Put(i, t) /\ UNCHANGED img
    BY <1>8 DEF HydrateEnds
  <2> HIDE DEF t
  <2> QED
    BY <1>0, <2>1, <2>2, <2>3, QuietStepPaths
<1>9. CASE ReadCounters(i)
  <2> DEFINE t == [job[i] EXCEPT !.pc = "write", !.seen = rec[i]]
  <2>1. ShapeOf(t, i)
    BY <1>0, <1>9 DEF ReadCounters, Job, ShapeOf
  <2>2. \A x \in Images : ExplainedBy(job[i], i, x) => ExplainedBy(t, i, x)
    BY <1>0, <1>9 DEF ReadCounters, Job, ShapeOf, ExplainedBy
  <2>3. Put(i, t) /\ UNCHANGED img
    BY <1>9 DEF ReadCounters
  <2> HIDE DEF t
  <2> QED
    BY <1>0, <2>1, <2>2, <2>3, QuietStepPaths
<1>10. CASE WriteCounters(i)
  <2> DEFINE t == [job[i] EXCEPT !.pc = "return", !.seen = NoCounters]
  <2>1. ShapeOf(t, i)
    BY <1>0, <1>10 DEF WriteCounters, Job, ShapeOf
  <2>2. \A x \in Images : ExplainedBy(job[i], i, x) => ExplainedBy(t, i, x)
    BY <1>0, <1>10 DEF WriteCounters, Job, ShapeOf, ExplainedBy
  <2>3. Put(i, t) /\ UNCHANGED img
    BY <1>10 DEF WriteCounters
  <2> HIDE DEF t
  <2> QED
    BY <1>0, <2>1, <2>2, <2>3, QuietStepPaths
<1>11. CASE Return(i)
  <2> DEFINE t == [job[i] EXCEPT !.pc = "done"]
  <2>1. ShapeOf(t, i)
    BY <1>0, <1>11 DEF Return, Job, ShapeOf
  <2>2. \A x \in Images : ExplainedBy(job[i], i, x) => ExplainedBy(t, i, x)
    BY <1>0, <1>11 DEF Return, Job, ShapeOf, ExplainedBy
  <2>3. Put(i, t) /\ UNCHANGED img
    BY <1>11 DEF Return
  <2> HIDE DEF t
  <2> QED
    BY <1>0, <2>1, <2>2, <2>3, QuietStepPaths
<1>12. CASE ItemFails(i)
  <2>1. PICK y \in IF job[i].pc = "path" THEN job[i].cur ELSE job[i].todo :
          Put(i, [job[i] EXCEPT !.pc = "rows", !.todo = @ \ {y}, !.cur = {},
                                !.id = 0, !.bad = @ \union {y}])
    BY <1>12 DEF ItemFails
  <2> DEFINE t == [job[i] EXCEPT !.pc = "rows", !.todo = @ \ {y}, !.cur = {},
                                 !.id = 0, !.bad = @ \union {y}]
  <2>2. y \in Items[i]
    BY <1>0 DEF ShapeOf
  <2>3. /\ t.pc = "rows" /\ t.todo = job[i].todo \ {y} /\ t.cur = {} /\ t.ok = job[i].ok
        /\ t.att = job[i].att
    BY <1>0 DEF Job
  <2>4. t.bad = job[i].bad \union {y}
    BY <1>0 DEF Job
  <2>5. Put(i, t) /\ UNCHANGED img
    BY <1>12, <2>1 DEF ItemFails
  <2>6. job[i].pc = "path" => job[i].cur = {y}
    BY <1>0 DEF ShapeOf
  <2>7. job[i].pc # "dead"
    BY <1>12 DEF ItemFails
  <2> HIDE DEF t
  <2>8. ShapeOf(t, i)
    BY <1>0, <2>2, <2>3, <2>4 DEF ShapeOf
  <2>9. \A x \in Images : ExplainedBy(job[i], i, x) => ExplainedBy(t, i, x)
    BY <2>3, <2>4, <2>6, <2>7 DEF ExplainedBy
  <2> QED
    BY <1>0, <2>5, <2>8, <2>9, QuietStepPaths
<1>13. CASE Hydrate(i)
  <2>1. PICK y \in job[i].todo : Put(i, [job[i] EXCEPT !.todo = @ \ {y}])
    BY <1>13 DEF Hydrate
  <2> DEFINE t == [job[i] EXCEPT !.todo = @ \ {y}]
  <2>2. ShapeOf(t, i)
    BY <1>0 DEF Job, ShapeOf
  <2>3. \A x \in Images : ExplainedBy(job[i], i, x) => ExplainedBy(t, i, x)
    BY <1>0 DEF Job, ExplainedBy
  <2>4. Put(i, t) /\ UNCHANGED img
    BY <1>13, <2>1 DEF Hydrate
  <2> HIDE DEF t
  <2> QED
    BY <1>0, <2>2, <2>3, <2>4, QuietStepPaths
<1>14. CASE Interrupted(i)
  <2> DEFINE t == Redeliver(job[i], NoJob)
  <2>1. /\ t.todo = {} /\ t.cur = {} /\ t.ok = {} /\ t.bad = {}
        /\ \/ t.pc = "dead"
           \/ t.pc = "waiting" /\ t.att = job[i].att + 1
    <3>1. CASE job[i].att < RetryLimit
      BY <3>1 DEF Redeliver, NoJob
    <3>2. CASE ~(job[i].att < RetryLimit)
      BY <3>2 DEF Redeliver, NoJob
    <3> QED
      BY <3>1, <3>2
  <2>2. Put(i, t) /\ UNCHANGED img /\ job[i].pc # "dead"
    BY <1>14 DEF Interrupted, Running
  <2>3. job[i].att \in Nat
    BY <1>0 DEF Job, Retries
  <2> HIDE DEF t
  <2>4. ShapeOf(t, i)
    BY <2>1 DEF ShapeOf
  <2>5. \A x \in Images : ExplainedBy(job[i], i, x) => ExplainedBy(t, i, x)
    BY <1>0, <2>1, <2>2, <2>3 DEF ShapeOf, ExplainedBy
  <2> QED
    BY <1>0, <2>2, <2>4, <2>5, QuietStepPaths
<1> QED
  BY <1>1, <1>2, <1>3, <1>4, <1>5, <1>6, <1>7, <1>8, <1>9, <1>10, <1>11,
     <1>12, <1>13, <1>14

\* The steps that write the rows of an import.
LEMMA WritingStepPaths ==
  ASSUME TypeOK, PathInv, NEW i \in Imports,
         UpsertOne(i) \/ SetPath(i) \/ BulkUpsert(i)
  PROVE  PathInv'
<1>0. JobsOK /\ RowsOK /\ job[i] \in Job /\ ShapeOf(job[i], i)
  BY JobFields DEF TypeOK, PathInv
<1>1. CASE UpsertOne(i)
  <2>1. PICK y \in job[i].todo :
          /\ img' = [img EXCEPT ![y] = Upserted(@, i, "pending")]
          /\ Put(i, [job[i] EXCEPT !.pc = "path", !.cur = {y}, !.id = img'[y].id,
                                   !.todo = @ \ {y}])
    BY <1>1 DEF UpsertOne
  <2> DEFINE id == img'[y].id
             t == [job[i] EXCEPT !.pc = "path", !.cur = {y}, !.id = id,
                                 !.todo = @ \ {y}]
  <2>2. Put(i, t)
    BY <2>1
  <2>3. /\ t.pc = "path" /\ t.cur = {y} /\ t.todo = job[i].todo \ {y}
        /\ t.ok = job[i].ok /\ t.bad = job[i].bad /\ t.att = job[i].att
    <3> HIDE DEF id
    <3> QED
      BY <1>0 DEF Job
  <2>4. y \in Items[i] /\ y \in Images /\ job[i].pc = "rows"
    BY <1>0, <1>1, JobFields DEF ShapeOf, UpsertOne
  <2>5. \A x \in Images \ {y} : img'[x] = img[x]
    BY <1>0, <2>1 DEF RowsOK
  <2> HIDE DEF t
  <2>6. ShapeOf(t, i)
    BY <1>0, <2>3, <2>4 DEF ShapeOf
  <2>7. \A x \in Images : ExplainedBy(job[i], i, x) => ExplainedBy(t, i, x)
    BY <2>3, <2>4 DEF ExplainedBy
  <2>8. ExplainedBy(t, i, y)
    BY <2>3 DEF ExplainedBy
  <2> QED
    BY <1>0, <2>2, <2>5, <2>6, <2>7, <2>8, ImportStepPaths
<1>2. CASE SetPath(i)
  <2>1. PICK y \in job[i].cur :
          \/ /\ img' = [img EXCEPT ![y].path = "stable"]
             /\ Put(i, [job[i] EXCEPT !.pc = "rows", !.cur = {}, !.id = 0,
                                      !.ok = @ \union {y}])
          \/ /\ Put(i, [job[i] EXCEPT !.pc = "rows", !.cur = {}, !.id = 0,
                                      !.bad = @ \union {y}])
             /\ UNCHANGED img
    BY <1>2 DEF SetPath
  <2>2. y \in Items[i] /\ y \in Images /\ job[i].cur = {y} /\ job[i].pc = "path"
    BY <1>0, <1>2, JobFields DEF ShapeOf, SetPath
  <2> DEFINE t == [job[i] EXCEPT !.pc = "rows", !.cur = {}, !.id = 0,
                                 !.ok = @ \union {y}]
             u == [job[i] EXCEPT !.pc = "rows", !.cur = {}, !.id = 0,
                                 !.bad = @ \union {y}]
  <2>3. CASE img' = [img EXCEPT ![y].path = "stable"] /\ Put(i, t)
    <3>1. /\ t.pc = "rows" /\ t.cur = {} /\ t.ok = job[i].ok \union {y}
          /\ t.todo = job[i].todo /\ t.att = job[i].att
      BY <1>0 DEF Job
    <3>2. t.bad = job[i].bad
      BY <1>0 DEF Job
    <3>3. \A x \in Images \ {y} : img'[x] = img[x]
      BY <1>0, <2>3 DEF RowsOK
    <3>4. img'[y].path = "stable"
      BY <1>0, <2>2, <2>3, RowFields DEF RowsOK, Row
    <3>5. Put(i, t)
      BY <2>3
    <3> HIDE DEF t
    <3>6. ShapeOf(t, i)
      BY <1>0, <2>2, <3>1, <3>2 DEF ShapeOf
    <3>7. \A x \in Images \ {y} : ExplainedBy(job[i], i, x) => ExplainedBy(t, i, x)
      BY <2>2, <3>1, <3>2 DEF ExplainedBy
    <3>8. \A x \in Images : img'[x].path = "pending" => x # y
      BY <3>4
    <3> QED
      BY <1>0, <3>3, <3>5, <3>6, <3>7, <3>8, ImportStepPaths
  <2>4. CASE Put(i, u) /\ UNCHANGED img
    <3>1. /\ u.pc = "rows" /\ u.cur = {} /\ u.ok = job[i].ok
          /\ u.todo = job[i].todo /\ u.att = job[i].att
      BY <1>0 DEF Job
    <3>2. u.bad = job[i].bad \union {y}
      BY <1>0 DEF Job
    <3> HIDE DEF u
    <3>3. ShapeOf(u, i)
      BY <1>0, <2>2, <3>1, <3>2 DEF ShapeOf
    <3>4. \A x \in Images : ExplainedBy(job[i], i, x) => ExplainedBy(u, i, x)
      BY <2>2, <3>1, <3>2 DEF ExplainedBy
    <3> QED
      BY <1>0, <2>4, <3>3, <3>4, QuietStepPaths
  <2> QED
    BY <2>1, <2>3, <2>4
<1>3. CASE BulkUpsert(i)
  <2> DEFINE t == [job[i] EXCEPT !.pc = "hydrate", !.ok = Items[i]]
  <2>1. /\ t.pc = "hydrate" /\ t.ok = Items[i] /\ t.cur = job[i].cur
        /\ t.todo = job[i].todo /\ t.bad = job[i].bad /\ t.att = job[i].att
    BY <1>0 DEF Job
  <2>2. Put(i, t) /\ job[i].pc = "bulk"
    BY <1>3 DEF BulkUpsert
  <2>3. \A x \in Images : img'[x].path = "pending" => img'[x] = img[x] /\ x \notin Items[i]
    <3> SUFFICES ASSUME NEW x \in Images, x \in Items[i]
                 PROVE  img'[x].path = "stable"
      BY <1>3 DEF BulkUpsert
    <3> QED
      BY <1>0, <1>3, RowFields, UpsertedKeeps DEF BulkUpsert
  <2> HIDE DEF t
  <2>4. ShapeOf(t, i)
    BY <1>0, <2>1 DEF ShapeOf
  <2>5. \A x \in Images \ Items[i] : ExplainedBy(job[i], i, x) => ExplainedBy(t, i, x)
    BY <2>1, <2>2 DEF ExplainedBy
  <2> QED
    BY <1>0, <2>2, <2>3, <2>4, <2>5, ImportStepPaths
<1> QED
  BY <1>1, <1>2, <1>3

\* A rollback changes no job, and makes no path provisional.
LEMMA RollbackStepPaths ==
  ASSUME TypeOK, PathInv, NEW r \in Requests,
         AskRollback(r) \/ RollbackStep(r) \/ RollbackInterrupted(r)
  PROVE  PathInv'
<1>0. RowsOK /\ UNCHANGED job
  BY DEF TypeOK, AskRollback, RollbackStep, TakeRollback, ApplyRollback,
         RecordRollback, RollbackInterrupted
<1>1. \A x \in Images : img'[x].path = "pending" => img[x].path = "pending"
  <2>1. CASE UNCHANGED img
    BY <2>1
  <2>2. CASE ApplyRollback(r)
    <3>1. \A x \in Images : RolledBack(img[x], rb[r].to).path \in {"none", img[x].path}
      BY <1>0, RowFields DEF RolledBack, NoRow, Row
    <3> QED
      BY <2>2, <3>1 DEF ApplyRollback
  <2> QED
    BY <2>1, <2>2 DEF AskRollback, RollbackStep, TakeRollback, RecordRollback,
                      RollbackInterrupted
<1> QED
  BY <1>0, <1>1 DEF PathInv, ShapeOf, ExplainedBy

LEMMA InitPaths == Init => PathInv
  BY DEF Init, PathInv, ShapeOf, ExplainedBy, NoJob, NoRow

LEMMA NextPaths ==
  ASSUME TypeOK, PathInv, [Next]_vars
  PROVE  PathInv'
<1>1. CASE UNCHANGED vars
  BY <1>1 DEF vars, PathInv, ShapeOf, ExplainedBy
<1>2. ASSUME NEW i \in Imports,
             \/ CreateImport(i) \/ EnqueueImport(i) \/ EnqueueFails(i)
             \/ ImportStep(i) \/ ItemFails(i) \/ BulkFails(i) \/ HydrateFails(i)
             \/ Interrupted(i)
      PROVE  PathInv'
  BY <1>2, HandlerStepPaths, WritingStepPaths DEF ImportStep
<1> QED
  BY <1>1, <1>2, RollbackStepPaths DEF Next

\* However imports, deliveries and rollbacks interleave, a row keeps the
\* provisional path of upsertImageAndReturnId only while its handler goes on,
\* or after an item failed or a delivery was interrupted.
THEOREM PendingAlwaysExplained == Spec => []PendingExplained
<1>1. PathInv => PendingExplained
  BY DEF PathInv, ExplainedBy, PendingExplained
<1> QED
  BY <1>1, TypeCorrect, InitPaths, NextPaths, PTL DEF Spec

-----------------------------------------------------------------------------
(***************************************************************************)
(* The report.  Every item of a delivery is in exactly one place: to do,   *)
(* in hand, done or failed; so the counters grow by the number of items    *)
(* each time a delivery comes as far as writing them.                      *)
(***************************************************************************)

Early   == {"none", "send", "refused", "waiting"}
Handled == {"hydrate", "read", "write"}

PartsOf(t, i) ==
  /\ t.pc \in Early => t.todo = {} /\ t.cur = {} /\ t.ok = {} /\ t.bad = {}
  /\ t.pc = "bulk" => t.cur = {} /\ t.ok = {} /\ t.bad = {} /\ t.todo = Items[i]
  /\ t.pc \in {"rows", "path"} =>
       /\ t.ok \union t.bad \union t.todo \union t.cur = Items[i]
       /\ t.ok \intersect t.bad = {} /\ t.todo \intersect t.cur = {}
       /\ (t.ok \union t.bad) \intersect (t.todo \union t.cur) = {}
  /\ t.pc = "rows" => t.cur = {}
  /\ t.pc = "path" => \E x \in Images : t.cur = {x}
  /\ t.pc \in Handled => t.ok \union t.bad = Items[i] /\ t.ok \intersect t.bad = {}

\* The counters c hold the rejected lines and k times the items.
Holds(c, i, k) == c.success + c.failed = Rejected[i] + k * Cardinality(Items[i])

CountsOf(t, c, i) ==
  /\ t.pc = "none" => c = NoCounters
  /\ t.pc \notin {"none", "return", "done", "dead"} => \E k \in 0..t.att : Holds(c, i, k)
  /\ t.pc \in {"return", "done"} => \E k \in 1..(t.att + 1) : Holds(c, i, k)
  /\ t.pc = "write" => t.seen = c

\* What the job t has asked for is in the set a, unless it says that it failed.
AskedOf(t, a) ==
  HydrateOnImport = "on" /\ t.note = "ok" =>
    /\ t.pc = "hydrate" => t.ok \ t.todo \subseteq a
    /\ t.pc \in {"read", "write", "return", "done"} => t.ok \subseteq a

ReportOf(t, c, a, i) == PartsOf(t, i) /\ CountsOf(t, c, i) /\ AskedOf(t, a)

ReportInv == \A i \in Imports : ReportOf(job[i], rec[i], asked, i)

LEMMA AskedGrows ==
  ASSUME NEW t, NEW a, NEW b, a \subseteq b, AskedOf(t, a)
  PROVE  AskedOf(t, b)
BY DEF AskedOf

\* A step of one import keeps the invariant if its own report is right after it.
LEMMA ImportStepReports ==
  ASSUME TypeOK, ReportInv, NEW i \in Imports, NEW t, Put(i, t), NEW c,
         rec' = [rec EXCEPT ![i] = c], asked \subseteq asked',
         PartsOf(t, i), CountsOf(t, c, i), AskedOf(t, asked')
  PROVE  ReportInv'
<1>1. job'[i] = t /\ rec'[i] = c
  BY DEF TypeOK, JobsOK, Put
<1>2. ASSUME NEW j \in Imports PROVE ReportOf(job'[j], rec'[j], asked', j)
  <2>1. CASE j = i
    BY <1>1, <2>1 DEF ReportOf
  <2>2. CASE j # i
    <3>1. job'[j] = job[j] /\ rec'[j] = rec[j]
      BY <2>2 DEF TypeOK, JobsOK, Put
    <3>2. ReportOf(job[j], rec[j], asked, j)
      BY DEF ReportInv
    <3>3. AskedOf(job[j], asked')
      BY <3>2, AskedGrows DEF ReportOf
    <3> QED
      BY <3>1, <3>2, <3>3 DEF ReportOf
  <2> QED
    BY <2>1, <2>2
<1> QED
  BY <1>2 DEF ReportInv

\* A step that neither counts nor asks.
LEMMA QuietReports ==
  ASSUME TypeOK, ReportInv, NEW i \in Imports, NEW t, Put(i, t), UNCHANGED <<rec, asked>>,
         PartsOf(t, i), CountsOf(t, rec[i], i), AskedOf(t, asked)
  PROVE  ReportInv'
<1>1. rec' = [rec EXCEPT ![i] = rec[i]]
  BY DEF TypeOK
<1> QED
  BY <1>1, ImportStepReports

\* What the fields of a job are.
LEMMA ReportFields ==
  ASSUME TypeOK, ReportInv, NEW i \in Imports
  PROVE  /\ PartsOf(job[i], i) /\ CountsOf(job[i], rec[i], i) /\ AskedOf(job[i], asked)
         /\ job[i] \in Job /\ rec[i] \in Counters /\ job[i].att \in Nat
         /\ Cardinality(Items[i]) \in Nat /\ Rejected[i] \in Nat
<1>1. job[i] \in Job /\ job[i].att \in Retries
  BY JobFields DEF TypeOK
<1>2. Items[i] \in SUBSET Images
  OBVIOUS
<1> QED
  BY <1>1, <1>2, ItemsFinite DEF ReportInv, ReportOf, TypeOK, Retries

\* The steps of a handler that neither count nor ask.
LEMMA HandlerReports ==
  ASSUME TypeOK, ReportInv, NEW i \in Imports,
         \/ EnqueueImport(i) \/ EnqueueFails(i) \/ TakeImport(i) \/ LoopEnds(i)
         \/ BulkUpsert(i) \/ BulkFails(i) \/ HydrateFails(i) \/ HydrateEnds(i)
         \/ ReadCounters(i) \/ Return(i)
  PROVE  ReportInv'
<1>0. /\ PartsOf(job[i], i) /\ CountsOf(job[i], rec[i], i) /\ AskedOf(job[i], asked)
      /\ job[i] \in Job /\ rec[i] \in Counters
  BY ReportFields
<1>1. CASE EnqueueImport(i)
  <2> DEFINE t == [job[i] EXCEPT !.pc = "waiting"]
  <2>1. /\ t.todo = job[i].todo /\ t.cur = job[i].cur
        /\ t.ok = job[i].ok /\ t.bad = job[i].bad
        /\ t.note = job[i].note /\ t.seen = job[i].seen
        /\ t.att = job[i].att /\ t.pc = "waiting"
    BY <1>0 DEF Job
  <2>2. Put(i, t) /\ UNCHANGED <<rec, asked>>
    BY <1>1 DEF EnqueueImport
  <2> HIDE DEF t
  <2>3. PartsOf(t, i)
    BY <1>0, <1>1, <2>1 DEF EnqueueImport, PartsOf, Early, Handled
  <2>4. CountsOf(t, rec[i], i)
    BY <1>0, <1>1, <2>1 DEF EnqueueImport, CountsOf
  <2>5. AskedOf(t, asked)
    BY <1>0, <1>1, <2>1 DEF EnqueueImport, AskedOf, PartsOf, Early
  <2> QED
    BY <2>2, <2>3, <2>4, <2>5, QuietReports
<1>2. CASE EnqueueFails(i)
  <2> DEFINE t == [job[i] EXCEPT !.pc = "refused"]
  <2>1. /\ t.todo = job[i].todo /\ t.cur = job[i].cur
        /\ t.ok = job[i].ok /\ t.bad = job[i].bad
        /\ t.note = job[i].note /\ t.seen = job[i].seen
        /\ t.att = job[i].att /\ t.pc = "refused"
    BY <1>0 DEF Job
  <2>2. Put(i, t) /\ UNCHANGED <<rec, asked>>
    BY <1>2 DEF EnqueueFails
  <2> HIDE DEF t
  <2>3. PartsOf(t, i)
    BY <1>0, <1>2, <2>1 DEF EnqueueFails, PartsOf, Early, Handled
  <2>4. CountsOf(t, rec[i], i)
    BY <1>0, <1>2, <2>1 DEF EnqueueFails, CountsOf
  <2>5. AskedOf(t, asked)
    BY <1>0, <1>2, <2>1 DEF EnqueueFails, AskedOf, PartsOf, Early
  <2> QED
    BY <2>2, <2>3, <2>4, <2>5, QuietReports
<1>3. CASE TakeImport(i)
  <2> DEFINE t == [job[i] EXCEPT !.pc = IF i \in Bulk THEN "bulk" ELSE "rows",
                          !.todo = Items[i]]
  <2>1. /\ t.todo = Items[i] /\ t.cur = job[i].cur
        /\ t.ok = job[i].ok /\ t.bad = job[i].bad
        /\ t.note = job[i].note /\ t.seen = job[i].seen
        /\ t.att = job[i].att /\ t.pc = IF i \in Bulk THEN "bulk" ELSE "rows"
    BY <1>0 DEF Job
  <2>2. Put(i, t) /\ UNCHANGED <<rec, asked>>
    BY <1>3 DEF TakeImport
  <2> HIDE DEF t
  <2>3. PartsOf(t, i)
    BY <1>0, <1>3, <2>1 DEF TakeImport, PartsOf, Early, Handled
  <2>4. CountsOf(t, rec[i], i)
    BY <1>0, <1>3, <2>1 DEF TakeImport, CountsOf
  <2>5. AskedOf(t, asked)
    BY <1>0, <1>3, <2>1 DEF TakeImport, AskedOf, PartsOf, Early
  <2> QED
    BY <2>2, <2>3, <2>4, <2>5, QuietReports
<1>4. CASE LoopEnds(i)
  <2> DEFINE t == [job[i] EXCEPT !.pc = "hydrate", !.todo = job[i].ok]
  <2>1. /\ t.todo = job[i].ok /\ t.cur = job[i].cur
        /\ t.ok = job[i].ok /\ t.bad = job[i].bad
        /\ t.note = job[i].note /\ t.seen = job[i].seen
        /\ t.att = job[i].att /\ t.pc = "hydrate"
    BY <1>0 DEF Job
  <2>2. Put(i, t) /\ UNCHANGED <<rec, asked>>
    BY <1>4 DEF LoopEnds
  <2> HIDE DEF t
  <2>3. PartsOf(t, i)
    BY <1>0, <1>4, <2>1 DEF LoopEnds, PartsOf, Early, Handled
  <2>4. CountsOf(t, rec[i], i)
    BY <1>0, <1>4, <2>1 DEF LoopEnds, CountsOf
  <2>5. AskedOf(t, asked)
    BY <1>0, <1>4, <2>1 DEF LoopEnds, AskedOf, PartsOf, Early
  <2> QED
    BY <2>2, <2>3, <2>4, <2>5, QuietReports
<1>5. CASE BulkUpsert(i)
  <2> DEFINE t == [job[i] EXCEPT !.pc = "hydrate", !.ok = Items[i]]
  <2>1. /\ t.todo = job[i].todo /\ t.cur = job[i].cur
        /\ t.ok = Items[i] /\ t.bad = job[i].bad
        /\ t.note = job[i].note /\ t.seen = job[i].seen
        /\ t.att = job[i].att /\ t.pc = "hydrate"
    BY <1>0 DEF Job
  <2>2. Put(i, t) /\ UNCHANGED <<rec, asked>>
    BY <1>5 DEF BulkUpsert
  <2> HIDE DEF t
  <2>3. PartsOf(t, i)
    BY <1>0, <1>5, <2>1 DEF BulkUpsert, PartsOf, Early, Handled
  <2>4. CountsOf(t, rec[i], i)
    BY <1>0, <1>5, <2>1 DEF BulkUpsert, CountsOf
  <2>5. AskedOf(t, asked)
    BY <1>0, <1>5, <2>1 DEF BulkUpsert, AskedOf, PartsOf, Early
  <2> QED
    BY <2>2, <2>3, <2>4, <2>5, QuietReports
<1>6. CASE BulkFails(i)
  <2> DEFINE t == [job[i] EXCEPT !.pc = "hydrate", !.bad = Items[i],
                          !.todo = {}]
  <2>1. /\ t.todo = {} /\ t.cur = job[i].cur
        /\ t.ok = job[i].ok /\ t.bad = Items[i]
        /\ t.note = job[i].note /\ t.seen = job[i].seen
        /\ t.att = job[i].att /\ t.pc = "hydrate"
    BY <1>0 DEF Job
  <2>2. Put(i, t) /\ UNCHANGED <<rec, asked>>
    BY <1>6 DEF BulkFails
  <2> HIDE DEF t
  <2>3. PartsOf(t, i)
    BY <1>0, <1>6, <2>1 DEF BulkFails, PartsOf, Early, Handled
  <2>4. CountsOf(t, rec[i], i)
    BY <1>0, <1>6, <2>1 DEF BulkFails, CountsOf
  <2>5. AskedOf(t, asked)
    BY <1>0, <1>6, <2>1 DEF BulkFails, AskedOf, PartsOf, Early
  <2> QED
    BY <2>2, <2>3, <2>4, <2>5, QuietReports
<1>7. CASE HydrateFails(i)
  <2> DEFINE t == [job[i] EXCEPT !.pc = "read",
                          !.todo = {}, !.note = "failed"]
  <2>1. /\ t.todo = {} /\ t.cur = job[i].cur
        /\ t.ok = job[i].ok /\ t.bad = job[i].bad
        /\ t.note = "failed" /\ t.seen = job[i].seen
        /\ t.att = job[i].att /\ t.pc = "read"
    BY <1>0 DEF Job
  <2>2. Put(i, t) /\ UNCHANGED <<rec, asked>>
    BY <1>7 DEF HydrateFails
  <2> HIDE DEF t
  <2>3. PartsOf(t, i)
    BY <1>0, <1>7, <2>1 DEF HydrateFails, PartsOf, Early, Handled
  <2>4. CountsOf(t, rec[i], i)
    BY <1>0, <1>7, <2>1 DEF HydrateFails, CountsOf
  <2>5. AskedOf(t, asked)
    BY <1>0, <1>7, <2>1 DEF HydrateFails, AskedOf, PartsOf, Early
  <2> QED
    BY <2>2, <2>3, <2>4, <2>5, QuietReports
<1>8. CASE HydrateEnds(i)
  <2> DEFINE t == [job[i] EXCEPT !.pc = "read", !.todo = {}]
  <2>1. /\ t.todo = {} /\ t.cur = job[i].cur
        /\ t.ok = job[i].ok /\ t.bad = job[i].bad
        /\ t.note = job[i].note /\ t.seen = job[i].seen
        /\ t.att = job[i].att /\ t.pc = "read"
    BY <1>0 DEF Job
  <2>2. Put(i, t) /\ UNCHANGED <<rec, asked>>
    BY <1>8 DEF HydrateEnds
  <2> HIDE DEF t
  <2>3. PartsOf(t, i)
    BY <1>0, <1>8, <2>1 DEF HydrateEnds, PartsOf, Early, Handled
  <2>4. CountsOf(t, rec[i], i)
    BY <1>0, <1>8, <2>1 DEF HydrateEnds, CountsOf
  <2>5. AskedOf(t, asked)
    BY <1>0, <1>8, <2>1 DEF HydrateEnds, AskedOf, PartsOf, Early
  <2> QED
    BY <2>2, <2>3, <2>4, <2>5, QuietReports
<1>9. CASE ReadCounters(i)
  <2> DEFINE t == [job[i] EXCEPT !.pc = "write", !.seen = rec[i]]
  <2>1. /\ t.todo = job[i].todo /\ t.cur = job[i].cur
        /\ t.ok = job[i].ok /\ t.bad = job[i].bad
        /\ t.note = job[i].note /\ t.seen = rec[i]
        /\ t.att = job[i].att /\ t.pc = "write"
    BY <1>0 DEF Job
  <2>2. Put(i, t) /\ UNCHANGED <<rec, asked>>
    BY <1>9 DEF ReadCounters
  <2> HIDE DEF t
  <2>3. PartsOf(t, i)
    BY <1>0, <1>9, <2>1 DEF ReadCounters, PartsOf, Early, Handled
  <2>4. CountsOf(t, rec[i], i)
    BY <1>0, <1>9, <2>1 DEF ReadCounters, CountsOf
  <2>5. AskedOf(t, asked)
    BY <1>0, <1>9, <2>1 DEF ReadCounters, AskedOf, PartsOf, Early
  <2> QED
    BY <2>2, <2>3, <2>4, <2>5, QuietReports
<1>10. CASE Return(i)
  <2> DEFINE t == [job[i] EXCEPT !.pc = "done"]
  <2>1. /\ t.todo = job[i].todo /\ t.cur = job[i].cur
        /\ t.ok = job[i].ok /\ t.bad = job[i].bad
        /\ t.note = job[i].note /\ t.seen = job[i].seen
        /\ t.att = job[i].att /\ t.pc = "done"
    BY <1>0 DEF Job
  <2>2. Put(i, t) /\ UNCHANGED <<rec, asked>>
    BY <1>10 DEF Return
  <2> HIDE DEF t
  <2>3. PartsOf(t, i)
    BY <1>0, <1>10, <2>1 DEF Return, PartsOf, Early, Handled
  <2>4. CountsOf(t, rec[i], i)
    BY <1>0, <1>10, <2>1 DEF Return, CountsOf
  <2>5. AskedOf(t, asked)
    BY <1>0, <1>10, <2>1 DEF Return, AskedOf, PartsOf, Early
  <2> QED
    BY <2>2, <2>3, <2>4, <2>5, QuietReports
<1> QED
  BY <1>1, <1>2, <1>3, <1>4, <1>5, <1>6, <1>7, <1>8, <1>9, <1>10

\* The request creates the row, with the rejected lines as its failures.
LEMMA CreateReports ==
  ASSUME TypeOK, ReportInv, NEW i \in Imports, CreateImport(i)
  PROVE  ReportInv'
<1>0. /\ PartsOf(job[i], i) /\ CountsOf(job[i], rec[i], i) /\ job[i] \in Job
      /\ job[i].att \in Nat /\ Rejected[i] \in Nat /\ job[i].pc = "none"
      /\ Cardinality(Items[i]) \in Nat
  BY ReportFields DEF CreateImport
<1> DEFINE pc == IF Items[i] = {} THEN "done" ELSE "send"
           t == [job[i] EXCEPT !.pc = pc]
           c == [rec[i] EXCEPT !.failed = Rejected[i]]
<1>1. /\ t.pc = pc /\ t.ok = job[i].ok /\ t.bad = job[i].bad /\ t.todo = job[i].todo
      /\ t.cur = job[i].cur /\ t.att = job[i].att
  BY <1>0 DEF Job
<1>2. c.success = 0 /\ c.failed = Rejected[i]
  BY <1>0 DEF CountsOf, NoCounters
<1>3. Put(i, t) /\ rec' = [rec EXCEPT ![i] = c] /\ asked' = asked
  BY DEF CreateImport, TypeOK
<1> HIDE DEF t, c
<1>4. PartsOf(t, i)
  BY <1>0, <1>1 DEF PartsOf, Early, Handled
<1>5. CountsOf(t, c, i)
  <2>1. Holds(c, i, 0)
    BY <1>0, <1>2 DEF Holds
  <2>2. CASE Items[i] = {}
    <3>1. Cardinality(Items[i]) = 0
      BY <2>2, FS_EmptySet
    <3>2. Holds(c, i, 1)
      BY <1>0, <1>2, <3>1 DEF Holds
    <3> QED
      BY <1>0, <1>1, <2>2, <3>2 DEF CountsOf
  <2>3. CASE Items[i] # {}
    <3>1. 0 \in 0..t.att
      BY <1>0, <1>1
    <3> QED
      BY <1>1, <2>1, <2>3, <3>1 DEF CountsOf
  <2> QED
    BY <2>2, <2>3
<1>6. AskedOf(t, asked')
  BY <1>0, <1>1 DEF AskedOf, PartsOf, Early
<1> QED
  BY <1>3, <1>4, <1>5, <1>6, ImportStepReports

\* An item goes from one place to another.
LEMMA ItemReports ==
  ASSUME TypeOK, ReportInv, NEW i \in Imports, UpsertOne(i) \/ SetPath(i) \/ ItemFails(i)
  PROVE  ReportInv'
<1>0. /\ PartsOf(job[i], i) /\ CountsOf(job[i], rec[i], i) /\ AskedOf(job[i], asked)
      /\ job[i] \in Job /\ rec[i] \in Counters
      /\ job[i].todo \subseteq Images /\ job[i].cur \subseteq Images
  BY ReportFields, JobFields DEF TypeOK
<1>1. ASSUME NEW t, Put(i, t), UNCHANGED <<rec, asked>>, PartsOf(t, i),
             job[i].pc \in {"rows", "path"}, t.pc \in {"rows", "path"}, t.att = job[i].att
      PROVE  ReportInv'
  <2>1. CountsOf(t, rec[i], i)
    BY <1>0, <1>1 DEF CountsOf
  <2>2. AskedOf(t, asked)
    BY <1>1 DEF AskedOf
  <2> QED
    BY <1>1, <2>1, <2>2, QuietReports
<1>2. CASE UpsertOne(i)
  <2>1. PICK x \in job[i].todo :
          Put(i, [job[i] EXCEPT !.pc = "path", !.cur = {x}, !.id = img'[x].id,
                                !.todo = @ \ {x}])
    BY <1>2 DEF UpsertOne
  <2>2. PICK id : id = img'[x].id
    OBVIOUS
  <2> DEFINE t == [job[i] EXCEPT !.pc = "path", !.cur = {x}, !.id = id,
                                 !.todo = job[i].todo \ {x}]
  <2>3. /\ t.pc = "path" /\ t.cur = {x} /\ t.todo = job[i].todo \ {x}
        /\ t.ok = job[i].ok /\ t.bad = job[i].bad /\ t.att = job[i].att
    BY <1>0 DEF Job
  <2>4. Put(i, t)
    BY <1>0, <2>1, <2>2 DEF Job
  <2> HIDE DEF t
  <2>5. PartsOf(t, i)
    <3>1. job[i].pc = "rows" /\ job[i].cur = {} /\ x \in Images
      BY <1>0, <1>2, <2>1 DEF PartsOf, UpsertOne
    <3>2. /\ t.ok \union t.bad \union t.todo \union t.cur = Items[i]
          /\ t.ok \intersect t.bad = {} /\ t.todo \intersect t.cur = {}
          /\ (t.ok \union t.bad) \intersect (t.todo \union t.cur) = {}
      BY <1>0, <2>1, <2>3, <3>1 DEF PartsOf
    <3> QED
      BY <2>3, <3>1, <3>2 DEF PartsOf, Early, Handled
  <2> QED
    BY <1>1, <1>2, <2>3, <2>4, <2>5 DEF UpsertOne
<1>3. ASSUME NEW S \in SUBSET Images, S = job[i].cur, job[i].pc = "path",
             UNCHANGED <<rec, asked>>,
             NEW x \in S,
             \/ Put(i, [job[i] EXCEPT !.pc = "rows", !.cur = {}, !.id = 0,
                                      !.ok = @ \union {x}])
             \/ Put(i, [job[i] EXCEPT !.pc = "rows", !.cur = {}, !.id = 0,
                                      !.bad = @ \union {x}])
      PROVE  ReportInv'
  <2>1. S = {x}
    BY <1>0, <1>3 DEF PartsOf
  <2>2. CASE Put(i, [job[i] EXCEPT !.pc = "rows", !.cur = {}, !.id = 0, !.ok = @ \union {x}])
    <3> DEFINE t == [job[i] EXCEPT !.pc = "rows", !.cur = {}, !.id = 0,
                                   !.ok = job[i].ok \union {x}]
    <3>1. /\ t.pc = "rows" /\ t.cur = {} /\ t.ok = job[i].ok \union {x}
          /\ t.todo = job[i].todo /\ t.bad = job[i].bad /\ t.att = job[i].att
      BY <1>0 DEF Job
    <3>2. Put(i, t)
      BY <1>0, <2>2 DEF Job
    <3> HIDE DEF t
    <3>3. PartsOf(t, i)
      BY <1>0, <1>3, <2>1, <3>1 DEF PartsOf, Early, Handled
    <3> QED
      BY <1>1, <1>3, <3>1, <3>2, <3>3
  <2>3. CASE Put(i, [job[i] EXCEPT !.pc = "rows", !.cur = {}, !.id = 0, !.bad = @ \union {x}])
    <3> DEFINE t == [job[i] EXCEPT !.pc = "rows", !.cur = {}, !.id = 0,
                                   !.bad = job[i].bad \union {x}]
    <3>1. /\ t.pc = "rows" /\ t.cur = {} /\ t.bad = job[i].bad \union {x}
          /\ t.todo = job[i].todo /\ t.ok = job[i].ok /\ t.att = job[i].att
      BY <1>0 DEF Job
    <3>2. Put(i, t)
      BY <1>0, <2>3 DEF Job
    <3> HIDE DEF t
    <3>3. PartsOf(t, i)
      BY <1>0, <1>3, <2>1, <3>1 DEF PartsOf, Early, Handled
    <3> QED
      BY <1>1, <1>3, <3>1, <3>2, <3>3
  <2> QED
    BY <1>3, <2>2, <2>3
<1>4. CASE SetPath(i)
  BY <1>0, <1>3, <1>4 DEF SetPath
<1>5. CASE ItemFails(i)
  <2>1. PICK x \in IF job[i].pc = "path" THEN job[i].cur ELSE job[i].todo :
          Put(i, [job[i] EXCEPT !.pc = "rows", !.todo = @ \ {x}, !.cur = {},
                                !.id = 0, !.bad = @ \union {x}])
    BY <1>5 DEF ItemFails
  <2> DEFINE t == [job[i] EXCEPT !.pc = "rows", !.todo = job[i].todo \ {x}, !.cur = {},
                                 !.id = 0, !.bad = job[i].bad \union {x}]
  <2>2. /\ t.pc = "rows" /\ t.cur = {} /\ t.bad = job[i].bad \union {x}
        /\ t.todo = job[i].todo \ {x} /\ t.ok = job[i].ok /\ t.att = job[i].att
    BY <1>0 DEF Job
  <2>3. Put(i, t)
    BY <1>0, <2>1 DEF Job
  <2> HIDE DEF t
  <2>4. job[i].pc \in {"rows", "path"} /\ UNCHANGED <<rec, asked>>
    BY <1>5 DEF ItemFails
  <2>5. job[i].pc = "rows" => x \in job[i].todo /\ job[i].cur = {}
    BY <1>0, <2>1 DEF PartsOf
  <2>6. job[i].pc = "path" => job[i].cur = {x}
    BY <1>0, <2>1 DEF PartsOf
  <2>7. PartsOf(t, i)
    BY <1>0, <2>2, <2>4, <2>5, <2>6 DEF PartsOf, Early, Handled
  <2> QED
    BY <1>1, <2>2, <2>3, <2>4, <2>7
<1> QED
  BY <1>2, <1>4, <1>5

LEMMA HydrateReports ==
  ASSUME TypeOK, ReportInv, NEW i \in Imports, Hydrate(i)
  PROVE  ReportInv'
<1>0. /\ PartsOf(job[i], i) /\ CountsOf(job[i], rec[i], i) /\ AskedOf(job[i], asked)
      /\ job[i] \in Job /\ job[i].pc = "hydrate"
  BY ReportFields DEF Hydrate
<1>1. PICK x \in job[i].todo : /\ asked' = asked \union {x}
                               /\ Put(i, [job[i] EXCEPT !.todo = @ \ {x}])
  BY DEF Hydrate
<1> DEFINE t == [job[i] EXCEPT !.todo = job[i].todo \ {x}]
<1>2. /\ t.pc = "hydrate" /\ t.todo = job[i].todo \ {x} /\ t.ok = job[i].ok
      /\ t.bad = job[i].bad /\ t.att = job[i].att /\ t.note = job[i].note
  BY <1>0 DEF Job
<1>3. Put(i, t) /\ rec' = [rec EXCEPT ![i] = rec[i]]
  BY <1>0, <1>1 DEF Job, Hydrate, TypeOK
<1> HIDE DEF t
<1>4. PartsOf(t, i)
  BY <1>0, <1>2 DEF PartsOf, Early, Handled
<1>5. CountsOf(t, rec[i], i)
  BY <1>0, <1>2 DEF CountsOf
<1>6. AskedOf(t, asked')
  BY <1>0, <1>1, <1>2 DEF AskedOf
<1> QED
  BY <1>1, <1>3, <1>4, <1>5, <1>6, ImportStepReports

\* What a delivery has handled is all the items, each once.
LEMMA HandledAll ==
  ASSUME TypeOK, ReportInv, NEW i \in Imports, job[i].pc \in Handled
  PROVE  /\ Cardinality(job[i].ok) \in Nat /\ Cardinality(job[i].bad) \in Nat
         /\ Cardinality(job[i].ok) + Cardinality(job[i].bad) = Cardinality(Items[i])
<1>1. /\ job[i].ok \union job[i].bad = Items[i] /\ job[i].ok \intersect job[i].bad = {}
      /\ job[i].ok \in SUBSET Images /\ job[i].bad \in SUBSET Images
  BY ReportFields, JobFields DEF PartsOf, TypeOK
<1>2. /\ IsFiniteSet(job[i].ok) /\ IsFiniteSet(job[i].bad)
      /\ Cardinality(job[i].ok) \in Nat /\ Cardinality(job[i].bad) \in Nat
  BY <1>1, ItemsFinite
<1>3. Cardinality(Items[i]) =
        Cardinality(job[i].ok) + Cardinality(job[i].bad)
          - Cardinality(job[i].ok \intersect job[i].bad)
  BY <1>1, <1>2, FS_Union
<1>4. Cardinality(job[i].ok \intersect job[i].bad) = 0
  BY <1>1, FS_EmptySet
<1> QED
  BY <1>2, <1>3, <1>4

LEMMA WriteReports ==
  ASSUME TypeOK, ReportInv, NEW i \in Imports, WriteCounters(i)
  PROVE  ReportInv'
<1>0. /\ PartsOf(job[i], i) /\ CountsOf(job[i], rec[i], i) /\ AskedOf(job[i], asked)
      /\ job[i] \in Job /\ job[i].pc = "write" /\ job[i].att \in Nat
      /\ rec[i] \in Counters /\ Cardinality(Items[i]) \in Nat /\ Rejected[i] \in Nat
  BY ReportFields DEF WriteCounters
<1> DEFINE t == [job[i] EXCEPT !.pc = "return", !.seen = NoCounters]
           c == [success |-> rec[i].success + Cardinality(job[i].ok),
                 failed  |-> rec[i].failed + Cardinality(job[i].bad)]
<1>1. /\ t.pc = "return" /\ t.ok = job[i].ok /\ t.att = job[i].att /\ t.note = job[i].note
  BY <1>0 DEF Job
<1>2. job[i].seen = rec[i]
  BY <1>0 DEF CountsOf
<1>3. Put(i, t) /\ rec' = [rec EXCEPT ![i] = c] /\ asked' = asked
  BY <1>2 DEF WriteCounters
<1>4. /\ c.success + c.failed = (rec[i].success + rec[i].failed) + Cardinality(Items[i])
      /\ rec[i].success + rec[i].failed \in Nat
  <2>1. rec[i].success \in Nat /\ rec[i].failed \in Nat
    BY <1>0 DEF Counters
  <2>2. /\ Cardinality(job[i].ok) \in Nat /\ Cardinality(job[i].bad) \in Nat
        /\ Cardinality(job[i].ok) + Cardinality(job[i].bad) = Cardinality(Items[i])
    BY <1>0, HandledAll DEF Handled
  <2> QED
    BY <2>1, <2>2
<1> HIDE DEF t, c
<1>5. PartsOf(t, i)
  BY <1>1 DEF PartsOf, Early, Handled
<1>6. CountsOf(t, c, i)
  <2>1. PICK k \in 0..job[i].att : Holds(rec[i], i, k)
    BY <1>0 DEF CountsOf
  <2>2. k + 1 \in 1..(t.att + 1)
    BY <1>0, <1>1, <2>1
  <2>3. Holds(c, i, k + 1)
    <3>1. (k + 1) * Cardinality(Items[i]) = k * Cardinality(Items[i]) + Cardinality(Items[i])
      BY <1>0, <2>1
    <3>2. k * Cardinality(Items[i]) \in Nat
      BY <1>0, <2>1
    <3>3. rec[i].success + rec[i].failed = Rejected[i] + k * Cardinality(Items[i])
      BY <2>1 DEF Holds
    <3>4. c.success + c.failed = Rejected[i] + (k + 1) * Cardinality(Items[i])
      BY <1>0, <1>4, <3>1, <3>2, <3>3
    <3> QED
      BY <3>4 DEF Holds
  <2> QED
    BY <1>1, <2>2, <2>3 DEF CountsOf
<1>7. AskedOf(t, asked')
  BY <1>0, <1>1, <1>3 DEF AskedOf
<1> QED
  BY <1>3, <1>5, <1>6, <1>7, ImportStepReports

\* A delivery is interrupted: the next one starts from nothing, and what was
\* counted before counts among its earlier ones.
LEMMA InterruptReports ==
  ASSUME TypeOK, ReportInv, NEW i \in Imports, Interrupted(i)
  PROVE  ReportInv'
<1>0. /\ CountsOf(job[i], rec[i], i) /\ job[i].att \in Nat /\ job[i].pc \in Running
      /\ job[i].att \in Retries
  BY ReportFields, JobFields DEF Interrupted, TypeOK
<1> DEFINE t == Redeliver(job[i], NoJob)
<1>1. Put(i, t) /\ UNCHANGED <<rec, asked>>
  BY DEF Interrupted
<1>2. /\ t.todo = {} /\ t.cur = {} /\ t.ok = {} /\ t.bad = {}
      /\ t.pc \in {"waiting", "dead"}
      /\ t.pc = "waiting" => t.att = job[i].att + 1
  BY DEF Redeliver, NoJob
<1> HIDE DEF t
<1>3. PartsOf(t, i)
  BY <1>2 DEF PartsOf, Early, Handled
<1>4. CountsOf(t, rec[i], i)
  <2>1. \E k \in 0..(job[i].att + 1) : Holds(rec[i], i, k)
    <3>1. CASE job[i].pc = "return"
      <4>1. PICK k \in 1..(job[i].att + 1) : Holds(rec[i], i, k)
        BY <1>0, <3>1 DEF CountsOf
      <4>2. k \in 0..(job[i].att + 1)
        BY <1>0, <4>1
      <4> QED
        BY <4>1, <4>2
    <3>2. CASE job[i].pc # "return"
      <4>1. PICK k \in 0..job[i].att : Holds(rec[i], i, k)
        BY <1>0, <3>2 DEF CountsOf, Running
      <4>2. k \in 0..(job[i].att + 1)
        BY <1>0, <4>1
      <4> QED
        BY <4>1, <4>2
    <3> QED
      BY <3>1, <3>2
  <2> QED
    BY <1>2, <2>1 DEF CountsOf
<1>5. AskedOf(t, asked)
  BY <1>2 DEF AskedOf
<1> QED
  BY <1>1, <1>3, <1>4, <1>5, QuietReports

LEMMA InitReports == Init => ReportInv
<1> SUFFICES ASSUME Init, NEW i \in Imports PROVE ReportOf(job[i], rec[i], asked, i)
  BY DEF ReportInv
<1>1. job[i] = NoJob /\ rec[i] = NoCounters
  BY DEF Init
<1> QED
  BY <1>1 DEF ReportOf, PartsOf, CountsOf, AskedOf, NoJob, Early, Handled

LEMMA NextReports ==
  ASSUME TypeOK, ReportInv, [Next]_vars
  PROVE  ReportInv'
<1>1. CASE UNCHANGED <<job, rec, asked>>
  BY <1>1 DEF ReportInv
<1>2. ASSUME NEW i \in Imports,
             \/ CreateImport(i) \/ EnqueueImport(i) \/ EnqueueFails(i)
             \/ ImportStep(i) \/ ItemFails(i) \/ BulkFails(i) \/ HydrateFails(i)
             \/ Interrupted(i)
      PROVE  ReportInv'
  BY <1>2, CreateReports, HandlerReports, ItemReports, HydrateReports, WriteReports,
     InterruptReports DEF ImportStep
<1>3. ASSUME NEW r \in Requests, AskRollback(r) \/ RollbackStep(r) \/ RollbackInterrupted(r)
      PROVE  UNCHANGED <<job, rec, asked>>
  BY <1>3 DEF AskRollback, RollbackStep, TakeRollback, ApplyRollback, RecordRollback,
              RollbackInterrupted
<1>4. CASE UNCHANGED vars
  BY <1>1, <1>4 DEF vars
<1> QED
  BY <1>1, <1>2, <1>3, <1>4 DEF Next

\* The progress of a completed import can be believed (importImages.ts): each line
\* is counted once for every delivery that came as far as the counters, and the
\* metadata of its images was asked for unless the report says otherwise.
THEOREM ReportAlwaysTrue == Spec => []ReportTrue
<1>1. ReportInv => ReportTrue
  BY DEF ReportInv, ReportOf, CountsOf, AskedOf, Holds, ReportTrue
<1> QED
  BY <1>1, TypeCorrect, InitReports, NextReports, PTL DEF Spec
=============================================================================
