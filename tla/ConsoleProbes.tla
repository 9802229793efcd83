----------------------------- MODULE ConsoleProbes -----------------------------
(***************************************************************************)
(* The tests that an operator orders from the console.  "Probe" of a proxy *)
(* endpoint and "test refresh" of a token (recordActionRunner.jsx, the     *)
(* actions of src/admin/resources/proxyEndpoints.ts and pixivTokens.ts)    *)
(* read the row and send a job, with a timeout; the worker reads the row   *)
(* again (src/jobs/adminActions.ts).  A probe is a health check of one     *)
(* endpoint (runProxyHealthCheckOnce in src/proxy/healthCheck.ts), or the  *)
(* check that is in flight, whatever that one checks: the scheduler and    *)
(* the overview of the pool (proxyPoolOverview in src/admin/adminJs.ts)    *)
(* make checks as well.  A step is what runs between two awaits.  What the  *)
(* endpoints really do is a part of the model: up and worked.              *)
(***************************************************************************)
EXTENDS Integers, FiniteSets, FiniteSetsExt

CONSTANTS
  Endpoints, Secrets, (* ids of rows: proxy endpoints, Pixiv tokens         *)
  Cutoff,             (* how old a report may be for the overview           *)
  MaxTime,            (* bound: the clock                                   *)
  MaxEvents           (* bound: tests ordered, edits, failures, changes     *)

ProbesAssumption ==
  /\ Endpoints \intersect Secrets = {} /\ Cutoff \in Nat
  /\ MaxTime \in Nat /\ MaxEvents \in Nat

Things == Endpoints \union Secrets
Jobs   == 1..MaxEvents
Nobody == 0                                  (* no job, no thing            *)

VARIABLES
  row,       (* of each thing: there is none, it is "off", it is "on"       *)
  check,     (* the check in flight: inFlight                               *)
  report,    (* lastReport: its date, and the endpoints that it says are ok *)
  job,       (* the tests, from the order to the result                     *)
  form,      (* the page that orders them                                   *)
  overview,  (* the page of the pool                                        *)
  up,        (* the endpoints that would answer a probe now                 *)
  worked,    (* history: when each of them last would have                  *)
  now, events

pages == <<form, overview>>
world == <<up, worked>>
bound == <<now, events>>
vars  == <<row, check, report, job, pages, world, bound>>

NoCheck  == [stage |-> "none", members |-> {}, todo |-> {}, answered |-> {}, at |-> 0]
Never    == -1                               (* a date before all others    *)
NoReport == [at |-> Never, ok |-> {}]
NoTest   == [pc |-> "none", thing |-> Nobody, result |-> "none", at |-> Never]
Blank    == [pc |-> "closed", thing |-> Nobody, job |-> Nobody]
Unread   == [pc |-> "closed", at |-> 0, dated |-> Never, shown |-> {}, stale |-> FALSE]

Dates == {Never} \union 0..MaxTime

TypeOK ==
  /\ row \in [Things -> {"none", "off", "on"}]
  /\ check.stage \in {"none", "load", "probe"}
  /\ check.todo \union check.answered \subseteq check.members
  /\ check.members \subseteq Endpoints /\ check.at \in 0..now
  /\ report \in [at: Dates, ok: SUBSET Endpoints]
  /\ job \in [Jobs -> [pc: {"none", "sending", "created", "row", "exchange", "wait", "done"},
                       thing: Things \union {Nobody},
                       result: {"none", "unsent", "refused", "ok", "bad", "timeout"},
                       at: Dates]]
  /\ form.pc \in {"closed", "row", "send"} /\ form.job \in Jobs \union {Nobody}
  /\ overview.pc \in {"closed", "rows", "refresh", "ready"} /\ overview.dated \in Dates
  /\ overview.shown \subseteq Endpoints
  /\ up \subseteq Endpoints /\ worked \in [Endpoints -> Dates]
  /\ now \in 0..MaxTime /\ events \in 0..MaxEvents

Init ==
  /\ row = [t \in Things |-> "on"]
  /\ check = NoCheck /\ report = NoReport
  /\ job = [j \in Jobs |-> NoTest]
  /\ form = Blank /\ overview = Unread
  /\ up = Endpoints /\ worked = [e \in Endpoints |-> 0]
  /\ now = 0 /\ events = 0

Event == events < MaxEvents /\ events' = events + 1

-----------------------------------------------------------------------------
(* The order: RecordActionRunner, and the action it posts.                 *)

\* The runner posts as it opens or at a click, once the operator has confirmed.
Order(t) ==
  /\ form.pc = "closed" /\ Event
  /\ form' = [Blank EXCEPT !.pc = "row", !.thing = t]
  /\ UNCHANGED <<row, check, report, job, overview, world, now>>

\* A notice tells the operator how it went; the page leaves for the record.
Told == form' = Blank

\* The row must be there, and a token enabled.  The job is on its way.
ReadRow ==
  /\ form.pc = "row"
  /\ IF row[form.thing] = "none" \/ (form.thing \in Secrets /\ row[form.thing] = "off")
     THEN Told /\ UNCHANGED job
     ELSE LET j == Min({k \in Jobs : job[k].pc = "none"}) IN
          /\ job' = [job EXCEPT ![j] = [NoTest EXCEPT !.pc = "sending", !.thing = form.thing]]
          /\ form' = [form EXCEPT !.pc = "send", !.job = j]
  /\ UNCHANGED <<row, check, report, overview, world, bound>>

ReadRowFails ==
  /\ form.pc = "row" /\ Event /\ Told
  /\ UNCHANGED <<row, check, report, job, overview, world, now>>

Waiting(j) == form.pc = "send" /\ form.job = j

\* The job is in the queue, whether somebody still waits to hear it or not.
SendEnds(j) ==
  /\ job[j].pc = "sending" /\ job' = [job EXCEPT ![j].pc = "created"]
  /\ IF Waiting(j) THEN Told ELSE UNCHANGED form
  /\ UNCHANGED <<row, check, report, overview, world, bound>>

SendFails(j) ==
  /\ job[j].pc = "sending" /\ Event
  /\ job' = [job EXCEPT ![j].pc = "done", ![j].result = "unsent"]
  /\ IF Waiting(j) THEN Told ELSE UNCHANGED form
  /\ UNCHANGED <<row, check, report, overview, world, now>>

\* Five seconds: the operator is told to try again, the send goes on.
SendTimesOut ==
  /\ form.pc = "send" /\ Told
  /\ UNCHANGED <<row, check, report, job, overview, world, bound>>

-----------------------------------------------------------------------------
(* The check.                                                              *)

Starting(members, stage) ==
  [NoCheck EXCEPT !.stage = stage, !.members = members, !.todo = members, !.at = now]

\* runProxyHealthCheckOnce of the pool starts a check or joins the one in flight.
JoinOrLoad == check' = IF check.stage = "none" THEN Starting({}, "load") ELSE check

Tick ==
  /\ check.stage = "none" /\ JoinOrLoad
  /\ UNCHANGED <<row, report, job, pages, world, bound>>

\* The endpoints that are enabled; the check is dated when they have been read.
Load ==
  /\ check.stage = "load"
  /\ check' = Starting({e \in Endpoints : row[e] = "on"}, "probe")
  /\ UNCHANGED <<row, report, job, pages, world, bound>>

\* A sample; of an endpoint with several a check reports the latest.
Sampled(e) ==
  /\ check.stage = "probe" /\ e \in check.todo
  /\ check' = [check EXCEPT !.todo = @ \ {e}, !.answered = @ \union ({e} \intersect up)]
  /\ UNCHANGED <<row, report, job, pages, world, bound>>

\* report.entries.find of the id; an endpoint that the check left out is not ok.
SaysOk(ok, e) == e \in ok

\* What a job and the overview make of the report they waited for.
Heard(ok, at) ==
  /\ report' = [at |-> at, ok |-> ok] /\ check' = NoCheck
  /\ job' = [j \in Jobs |->
               IF job[j].pc # "wait" THEN job[j]
               ELSE [job[j] EXCEPT !.pc = "done", !.at = at,
                       !.result = IF SaysOk(ok, job[j].thing) THEN "ok" ELSE "bad"]]
  /\ overview' = IF overview.pc # "refresh" THEN overview
                 ELSE [overview EXCEPT !.pc = "ready", !.dated = at, !.shown = ok,
                                       !.stale = overview.at - at > Cutoff]

\* Mutant: the report is dated when the last probe has ended.
FinishDatedNow ==
  /\ check.stage = "probe" /\ check.todo = {}
  /\ Heard(check.answered, now)
  /\ UNCHANGED <<row, form, world, bound>>

Finish ==
  /\ check.stage = "probe" /\ check.todo = {}
  /\ Heard(check.answered, check.at)
  /\ UNCHANGED <<row, form, world, bound>>

\* The query of the endpoints fails: the report is empty, dated now.
LoadFails ==
  /\ check.stage = "load" /\ Event
  /\ Heard({}, now)
  /\ UNCHANGED <<row, form, world, now>>

-----------------------------------------------------------------------------
(* The workers, one job of a kind at a time.                               *)

Busy(kind) == \E j \in Jobs : job[j].pc \in {"row", "exchange", "wait"} /\ job[j].thing \in kind

Take(j) ==
  /\ job[j].pc = "created"
  /\ \E kind \in {Endpoints, Secrets} : job[j].thing \in kind /\ ~Busy(kind)
  /\ job' = [job EXCEPT ![j].pc = "row"]
  /\ UNCHANGED <<row, check, report, pages, world, bound>>

Refused(j) == job' = [job EXCEPT ![j].pc = "done", ![j].result = "refused"]

\* The endpoint is probed, enabled or not: by a check of its own, or by the one
\* in flight.
ReadEndpoint(j) ==
  /\ job[j].pc = "row" /\ job[j].thing \in Endpoints
  /\ IF row[job[j].thing] = "none"
     THEN Refused(j) /\ UNCHANGED check
     ELSE /\ job' = [job EXCEPT ![j].pc = "wait"]
          /\ check' = IF check.stage = "none" THEN Starting({job[j].thing}, "probe") ELSE check
  /\ UNCHANGED <<row, report, pages, world, bound>>

\* The check takes longer than the job waits, and goes on.
ProbeTimesOut(j) ==
  /\ job[j].pc = "wait"
  /\ job' = [job EXCEPT ![j].pc = "done", ![j].result = "timeout"]
  /\ UNCHANGED <<row, check, report, pages, world, bound>>

ReadToken(j) ==
  /\ job[j].pc = "row" /\ job[j].thing \in Secrets
  /\ IF row[job[j].thing] = "on" THEN job' = [job EXCEPT ![j].pc = "exchange"] ELSE Refused(j)
  /\ UNCHANGED <<row, check, report, pages, world, bound>>

\* testRefreshToken: Pixiv takes the refresh token or it does not.
Exchange(j) ==
  /\ job[j].pc = "exchange"
  /\ \E result \in {"ok", "bad"} : job' = [job EXCEPT ![j].pc = "done", ![j].result = result]
  /\ UNCHANGED <<row, check, report, pages, world, bound>>

-----------------------------------------------------------------------------
(* The overview of the pool: of the report it shows the date is kept.      *)

\* The enabled endpoints, only for their names; a failure is shown beside.
OpenOverview ==
  /\ overview.pc \in {"closed", "ready"}
  /\ overview' = [Unread EXCEPT !.pc = "rows"]
  /\ UNCHANGED <<row, check, report, job, form, world, bound>>

ReportShown == [Unread EXCEPT !.at = now, !.dated = report.at, !.shown = report.ok]

\* A report that is there and recent is shown; otherwise there is a check first.
ReadReport ==
  /\ overview.pc = "rows"
  /\ IF report.at # Never /\ now - report.at <= Cutoff
     THEN overview' = [ReportShown EXCEPT !.pc = "ready"] /\ UNCHANGED check
     ELSE overview' = [ReportShown EXCEPT !.pc = "refresh"] /\ JoinOrLoad
  /\ UNCHANGED <<row, report, job, form, world, bound>>

\* The check takes too long: the old report is shown, and that it is old.
RefreshTimesOut ==
  /\ overview.pc = "refresh"
  /\ overview' = [overview EXCEPT !.pc = "ready",
                    !.stale = overview.dated # Never /\ overview.at - overview.dated > Cutoff]
  /\ UNCHANGED <<row, check, report, job, form, world, bound>>

-----------------------------------------------------------------------------
\* A row is edited, deleted or made again, elsewhere in the console.
Edit(t) ==
  /\ Event /\ \E to \in {"none", "off", "on"} \ {row[t]} : row' = [row EXCEPT ![t] = to]
  /\ UNCHANGED <<check, report, job, pages, world, now>>

\* An endpoint stops answering, or answers again.
Changes(e) ==
  /\ Event
  /\ IF e \in up THEN up' = up \ {e} /\ UNCHANGED worked
     ELSE up' = up \union {e} /\ worked' = [worked EXCEPT ![e] = now]
  /\ UNCHANGED <<row, check, report, job, pages, now>>

Time ==
  /\ now < MaxTime /\ now' = now + 1
  /\ worked' = [e \in Endpoints |-> IF e \in up THEN now + 1 ELSE worked[e]]
  /\ UNCHANGED <<row, check, report, job, pages, up, events>>

Next ==
  \/ \E t \in Things : Order(t) \/ Edit(t)
  \/ ReadRow \/ ReadRowFails \/ SendTimesOut
  \/ \E j \in Jobs :
       \/ SendEnds(j) \/ SendFails(j) \/ Take(j)
       \/ ReadEndpoint(j) \/ ProbeTimesOut(j) \/ ReadToken(j) \/ Exchange(j)
  \/ Tick \/ Load \/ Finish \/ LoadFails
  \/ \E e \in Endpoints : Sampled(e) \/ Changes(e)
  \/ OpenOverview \/ ReadReport \/ RefreshTimesOut \/ Time

Spec == Init /\ [][Next]_vars

-----------------------------------------------------------------------------
(* Properties.                                                             *)

\* What the console says is ok was ok as late as it says: after a probe job that
\* ended ok the endpoint worked at the date of the check that it heard from, or
\* later, although the check may be one that was begun before the job or for
\* another endpoint; and an endpoint that the overview shows as ok, without a
\* mark that this is old, has worked within the cutoff before the page was asked
\* for, however long the check that the page waited for has taken.
ReportsTrue ==
  /\ \A j \in Jobs :
       job[j].result = "ok" /\ job[j].thing \in Endpoints => worked[job[j].thing] >= job[j].at
  /\ overview.pc = "ready" /\ ~overview.stale =>
       \A e \in overview.shown : worked[e] >= overview.at - Cutoff
=============================================================================
