--------------------------- MODULE ImageLifecycle ---------------------------
(***************************************************************************)
(* The rows of one illust's images: who reads them and marks them broken   *)
(* (src/controllers/imageByIdController.ts, src/services/randomService.ts, *)
(* src/routes/random.ts), the heal_url and hydrate_metadata jobs that      *)
(* rewrite their urls (src/jobs), and the admin who disables, enables and  *)
(* rolls them back.                                                        *)
(*                                                                         *)
(* A url is its version: Pixiv serves the current one, origin, and refuses *)
(* the others.  The jobs read a detail of Pixiv, which has the urls of all *)
(* pages, and write it later; hydrate_metadata may read it from the cache. *)
(* slot is the debounce window of heal_url for the illust.                 *)
(***************************************************************************)
EXTENDS Integers, FiniteSets

CONSTANTS
  Pages,        (* the pages of the illust                                  *)
  Readers,      (* concurrent image requests                                *)
  RetryLimit,   (* HEAL_RETRY_LIMIT                                         *)
  MaxMoves,     (* bound: times Pixiv changes the urls                      *)
  MaxHydrates,  (* bound: hydrate_metadata jobs                             *)
  MaxAdminOps,  (* bound: admin requests                                    *)
  MaxWaiting,   (* bound: heal_url jobs of a kind that wait at once         *)
  MaxFaults     (* bound: broken streams, throttled fetches, failed sends,
                   failed heal jobs, dead requests                          *)

ASSUME LifecycleAssumption ==
  /\ IsFiniteSet(Pages) /\ Pages # {}
  /\ RetryLimit \in Nat /\ MaxMoves \in Nat /\ MaxHydrates \in Nat
  /\ MaxAdminOps \in Nat /\ MaxWaiting \in Nat \ {0} /\ MaxFaults \in Nat

VARIABLES
  status, url,  (* of each page's row; absent: there is no row              *)
  origin,       (* the version of the urls Pixiv serves                     *)
  detail,       (* the cached detail: no version or one                     *)
  waiting,      (* heal_url jobs waiting, by the retries they had           *)
  slot,         (* taken: a heal job was created in this debounce window    *)
  heal,         (* the heal_url worker                                      *)
  hydrate,      (* the hydrate_metadata worker                              *)
  reader,       (* the image requests                                       *)
  wanted,       (* what the admin decided last of each page                 *)
  revoked,      (* pages whose disabled row a request has marked broken     *)
  why,          (* why nobody is healing a broken page                      *)
  moves, hydrates, adminOps, faults     (* how much of the bounds is used   *)

rows == <<status, url>>
work == <<detail, waiting, slot, heal, hydrate>>
bounds == <<moves, hydrates, adminOps, faults>>
vars == <<rows, origin, work, reader, wanted, revoked, why, bounds>>

Versions == 0..MaxMoves
Retries  == 0..RetryLimit
Statuses == {"active", "disabled", "broken", "absent"}
Reasons  == {"none", "stream", "throttled", "send", "died", "dead_letter"}

IdleReader == [pc |-> "idle", page |-> CHOOSE p \in Pages : TRUE, url |-> 0,
               via |-> "id"]
Reader == [pc: {"idle", "fetch", "stream", "mark", "markstream", "heal"},
           page: Pages, url: Versions, via: {"id", "random"}]

TypeOK ==
  /\ status \in [Pages -> Statuses] /\ url \in [Pages -> Versions]
  /\ origin \in Versions
  /\ detail \in {{}} \union {{v} : v \in Versions}
  /\ waiting \in [Retries -> 0..MaxWaiting] /\ slot \in {"free", "taken"}
  /\ heal \in [pc: {"idle", "fetch", "write"}, att: Retries, ver: Versions]
  /\ hydrate \in [pc: {"idle", "write"}, ver: Versions]
  /\ reader \in [Readers -> Reader]
  /\ wanted \in [Pages -> {"on", "off"}] /\ revoked \subseteq Pages
  /\ why \in [Pages -> Reasons]
  /\ moves \in 0..MaxMoves /\ hydrates \in 0..MaxHydrates
  /\ adminOps \in 0..MaxAdminOps /\ faults \in 0..MaxFaults

\* Active rows with the urls that Pixiv serves.
Init ==
  /\ status = [p \in Pages |-> "active"] /\ url = [p \in Pages |-> 0]
  /\ origin = 0
  /\ detail = {}
  /\ waiting = [k \in Retries |-> 0] /\ slot = "free"
  /\ heal = [pc |-> "idle", att |-> 0, ver |-> 0]
  /\ hydrate = [pc |-> "idle", ver |-> 0]
  /\ reader = [r \in Readers |-> IdleReader]
  /\ wanted = [p \in Pages |-> "on"] /\ revoked = {}
  /\ why = [p \in Pages |-> "none"]
  /\ moves = 0 /\ hydrates = 0 /\ adminOps = 0 /\ faults = 0

Fault == faults < MaxFaults /\ faults' = faults + 1

-----------------------------------------------------------------------------
(***************************************************************************)
(* Pixiv, the cache, and time.                                             *)
(***************************************************************************)

Move ==
  /\ moves < MaxMoves /\ moves' = moves + 1
  /\ origin' = origin + 1
  /\ UNCHANGED <<rows, work, reader, wanted, revoked, why, hydrates, adminOps, faults>>

DetailExpires ==
  /\ detail # {} /\ detail' = {}
  /\ UNCHANGED <<rows, origin, waiting, slot, heal, hydrate, reader, wanted,
                 revoked, why, bounds>>

SlotElapses ==
  /\ slot = "taken" /\ slot' = "free"
  /\ UNCHANGED <<rows, origin, detail, waiting, heal, hydrate, reader, wanted,
                 revoked, why, bounds>>

-----------------------------------------------------------------------------
(***************************************************************************)
(* The image requests.                                                     *)
(***************************************************************************)

Open(r, p, via) ==
  /\ reader[r].pc = "idle"
  /\ reader' = [reader EXCEPT ![r] =
       [pc |-> "fetch", page |-> p, url |-> url[p], via |-> via]]
  /\ UNCHANGED <<rows, origin, work, wanted, revoked, why, bounds>>

\* getImageById: the row whatever its status.
OpenById(r, p) == status[p] # "absent" /\ Open(r, p, "id")

\* pickRandom: an active row.
OpenRandom(r, p) == status[p] = "active" /\ Open(r, p, "random")

\* The request is over without a trace in the row.
Leave(r) ==
  /\ reader' = [reader EXCEPT ![r] = IdleReader]
  /\ UNCHANGED <<rows, origin, work, wanted, revoked, why, moves, hydrates, adminOps>>

Served(r) ==
  /\ reader[r].pc = "fetch" /\ reader[r].url = origin
  /\ reader' = [reader EXCEPT ![r].pc = "stream"]
  /\ UNCHANGED <<rows, origin, work, wanted, revoked, why, bounds>>

\* 403 or 404: the url is no longer good.
Refused(r) ==
  /\ reader[r].pc = "fetch" /\ reader[r].url # origin
  /\ reader' = [reader EXCEPT ![r].pc = "mark"]
  /\ UNCHANGED <<rows, origin, work, wanted, revoked, why, bounds>>

\* 403 with Retry-After: getImageById only counts the failure; the random
\* route does not look at the header.
Throttled(r) ==
  /\ reader[r].pc = "fetch" /\ Fault
  /\ \/ reader[r].via = "id" /\ Leave(r)
     \/ /\ reader[r].via = "random"
        /\ reader' = [reader EXCEPT ![r].pc = "mark"]
        /\ UNCHANGED <<rows, origin, work, wanted, revoked, why, moves, hydrates, adminOps>>

\* The image was sent; or the client went away, or the fetch failed in a way
\* that says nothing of the url.
Ends(r) == reader[r].pc \in {"fetch", "stream"} /\ Leave(r) /\ UNCHANGED faults

StreamFails(r) ==
  /\ reader[r].pc = "stream" /\ Fault
  /\ reader' = [reader EXCEPT ![r].pc = "markstream"]
  /\ UNCHANGED <<rows, origin, work, wanted, revoked, why, moves, hydrates, adminOps>>

Broken(p) ==
  /\ status' = [status EXCEPT ![p] = IF @ = "absent" THEN @ ELSE "broken"]
  /\ revoked' = IF status[p] = "disabled" THEN revoked \union {p} ELSE revoked
  /\ UNCHANGED url

\* A mark that leaves it to the next request to have the page healed.
MarkOnly(r) ==
  /\ reader[r].pc = "mark"
  /\ Broken(reader[r].page)
  /\ reader' = [reader EXCEPT ![r] = IdleReader]
  /\ UNCHANGED <<origin, work, wanted, why, bounds>>

\* markFail: the row is broken, whatever it was; without a row the random
\* route fails here, and getImageById goes on.
Mark(r) ==
  LET p == reader[r].page IN
  /\ reader[r].pc = "mark"
  /\ Broken(p)
  /\ reader' = [reader EXCEPT ![r] =
       IF reader[r].via = "random" /\ status[p] = "absent"
       THEN IdleReader ELSE [@ EXCEPT !.pc = "heal"]]
  /\ UNCHANGED <<origin, work, wanted, why, bounds>>

Pending == heal.pc # "idle" \/ \E k \in Retries : waiting[k] > 0

\* Nobody heals p now unless a job is under way.
Excuse(p, reason) ==
  why' = IF Pending THEN why ELSE [why EXCEPT ![p] = reason]

\* The error handler of the stream marks the row and asks for no healing.
MarkStream(r) ==
  /\ reader[r].pc = "markstream"
  /\ Broken(reader[r].page)
  /\ Excuse(reader[r].page, "stream")
  /\ reader' = [reader EXCEPT ![r] = IdleReader]
  /\ UNCHANGED <<origin, work, wanted, bounds>>

\* A send that is not throttled.
EnqueueAlways(r) ==
  /\ reader[r].pc = "heal"
  /\ waiting' = [waiting EXCEPT ![0] = @ + 1]
  /\ why' = [q \in Pages |-> "none"]
  /\ reader' = [reader EXCEPT ![r] = IdleReader]
  /\ UNCHANGED <<rows, origin, detail, slot, heal, hydrate, wanted, revoked, bounds>>

\* enqueueHealUrl: at most one job of the illust in a debounce window, although
\* the job of the window may be done already; errors are swallowed.
EnqueueHeal(r) ==
  LET p == reader[r].page IN
  /\ reader[r].pc = "heal"
  /\ \/ /\ slot = "free" /\ slot' = "taken" /\ waiting[0] < MaxWaiting
        /\ waiting' = [waiting EXCEPT ![0] = @ + 1]
        /\ why' = [q \in Pages |-> "none"]
        /\ UNCHANGED faults
     \/ slot = "taken" /\ Excuse(p, "throttled") /\ UNCHANGED <<waiting, slot, faults>>
     \/ /\ Fault /\ Excuse(p, "send")
        /\ UNCHANGED <<waiting, slot>>
  /\ reader' = [reader EXCEPT ![r] = IdleReader]
  /\ UNCHANGED <<rows, origin, detail, heal, hydrate, wanted, revoked,
                 moves, hydrates, adminOps>>

\* The process of the request dies before it had the page healed.
Dies(r) ==
  /\ reader[r].pc \in {"mark", "heal"} /\ Fault
  /\ IF reader[r].pc = "heal" THEN Excuse(reader[r].page, "died") ELSE UNCHANGED why
  /\ reader' = [reader EXCEPT ![r] = IdleReader]
  /\ UNCHANGED <<rows, origin, work, wanted, revoked, moves, hydrates, adminOps>>

-----------------------------------------------------------------------------
(***************************************************************************)
(* The jobs.                                                               *)
(***************************************************************************)

\* The worker takes a job, new or retried.
HealTakes ==
  /\ heal.pc = "idle"
  /\ \E k \in Retries :
       /\ waiting[k] > 0
       /\ waiting' = [waiting EXCEPT ![k] = @ - 1]
       /\ heal' = [pc |-> "fetch", att |-> k, ver |-> 0]
  /\ UNCHANGED <<rows, origin, detail, slot, hydrate, reader, wanted, revoked,
                 why, bounds>>

\* hydrateMetadata(illustId, {cache: false}): Pixiv's urls of now.
HealFetches ==
  /\ heal.pc = "fetch"
  /\ heal' = [heal EXCEPT !.pc = "write", !.ver = origin]
  /\ UNCHANGED <<rows, origin, detail, waiting, slot, hydrate, reader, wanted,
                 revoked, why, bounds>>

\* A transaction over all rows.
HealWritesAll ==
  /\ heal.pc = "write"
  /\ url' = [p \in Pages |-> IF status[p] = "absent" THEN url[p] ELSE heal.ver]
  /\ status' = [p \in Pages |-> IF status[p] = "absent" THEN status[p] ELSE "active"]
  /\ why' = [p \in Pages |-> "none"]
  /\ heal' = [pc |-> "idle", att |-> 0, ver |-> 0]
  /\ UNCHANGED <<origin, detail, waiting, slot, hydrate, reader, wanted, revoked, bounds>>

\* A transaction that makes the rows active and leaves their urls.
HealWritesStatus ==
  LET S == {p \in Pages : status[p] \notin {"disabled", "absent"}} IN
  /\ heal.pc = "write"
  /\ status' = [p \in Pages |-> IF p \in S THEN "active" ELSE status[p]]
  /\ why' = [p \in Pages |-> IF p \in S THEN "none" ELSE why[p]]
  /\ heal' = [pc |-> "idle", att |-> 0, ver |-> 0]
  /\ UNCHANGED <<url, origin, detail, waiting, slot, hydrate, reader, wanted,
                 revoked, bounds>>

\* healOriginalUrlsForIllust: one transaction over the rows that are not
\* disabled, which are active then.
HealWrites ==
  LET S == {p \in Pages : status[p] \notin {"disabled", "absent"}} IN
  /\ heal.pc = "write"
  /\ url' = [p \in Pages |-> IF p \in S THEN heal.ver ELSE url[p]]
  /\ status' = [p \in Pages |-> IF p \in S THEN "active" ELSE status[p]]
  /\ why' = [p \in Pages |-> IF p \in S THEN "none" ELSE why[p]]
  /\ heal' = [pc |-> "idle", att |-> 0, ver |-> 0]
  /\ UNCHANGED <<origin, detail, waiting, slot, hydrate, reader, wanted,
                 revoked, bounds>>

\* The job fails, or its process dies and it expires: it is retried, or it
\* goes to the dead letters and nobody heals what is broken.
HealFails ==
  /\ heal.pc # "idle" /\ Fault
  /\ heal' = [pc |-> "idle", att |-> 0, ver |-> 0]
  /\ \/ /\ heal.att < RetryLimit /\ waiting[heal.att + 1] < MaxWaiting
        /\ waiting' = [waiting EXCEPT ![heal.att + 1] = @ + 1]
        /\ UNCHANGED why
     \/ /\ heal.att = RetryLimit
        /\ why' = [p \in Pages |->
             IF status[p] = "broken" /\ \A k \in Retries : waiting[k] = 0
             THEN "dead_letter" ELSE why[p]]
        /\ UNCHANGED waiting
  /\ UNCHANGED <<rows, origin, detail, slot, hydrate, reader, wanted, revoked,
                 moves, hydrates, adminOps>>

\* hydrate_metadata reads the detail, from the cache when it is there.
HydrateFetches ==
  /\ hydrate.pc = "idle"
  /\ hydrates < MaxHydrates /\ hydrates' = hydrates + 1
  /\ detail' = IF detail = {} THEN {origin} ELSE detail
  /\ hydrate' = [pc |-> "write", ver |-> CHOOSE v \in detail' : TRUE]
  /\ UNCHANGED <<rows, origin, waiting, slot, heal, reader, wanted, revoked,
                 why, moves, adminOps, faults>>

\* persistHydratedMetadata: the urls of all rows, not their status.
HydrateWrites ==
  /\ hydrate.pc = "write"
  /\ url' = [p \in Pages |-> IF status[p] = "absent" THEN url[p] ELSE hydrate.ver]
  /\ hydrate' = [hydrate EXCEPT !.pc = "idle", !.ver = 0]
  /\ UNCHANGED <<status, origin, detail, waiting, slot, heal, reader, wanted,
                 revoked, why, bounds>>

-----------------------------------------------------------------------------
(***************************************************************************)
(* The admin: updates that do not look at what the row has become.         *)
(***************************************************************************)

AdminOp == adminOps < MaxAdminOps /\ adminOps' = adminOps + 1

SetStatus(S, to) ==
  /\ status' = [p \in Pages |-> IF p \in S THEN to ELSE status[p]]
  /\ revoked' = revoked \ S
  /\ why' = [p \in Pages |-> IF p \in S THEN "none" ELSE why[p]]
  /\ UNCHANGED <<url, origin, work, reader, moves, hydrates, faults>>

Rows == {p \in Pages : status[p] # "absent"}

Enable(p) ==
  /\ AdminOp /\ p \in Rows
  /\ SetStatus({p}, "active")
  /\ wanted' = [wanted EXCEPT ![p] = "on"]

Disable(p) ==
  /\ AdminOp /\ p \in Rows
  /\ SetStatus({p}, "disabled")
  /\ wanted' = [wanted EXCEPT ![p] = "off"]

\* The rollback of the import that created the rows.
Rollback ==
  /\ AdminOp /\ Rows # {}
  /\ \E to \in {"disabled", "absent"} : SetStatus(Rows, to)
  /\ wanted' = [p \in Pages |-> "off"]

-----------------------------------------------------------------------------
ReaderStep(r) ==
  \/ Served(r) \/ Refused(r) \/ Ends(r) \/ Mark(r) \/ MarkStream(r) \/ EnqueueHeal(r)

JobStep == HealTakes \/ HealFetches \/ HealWrites

Next ==
  \/ \E r \in Readers, p \in Pages : OpenById(r, p) \/ OpenRandom(r, p)
  \/ \E r \in Readers : ReaderStep(r) \/ Throttled(r) \/ StreamFails(r) \/ Dies(r)
  \/ JobStep \/ HealFails
  \/ HydrateFetches \/ HydrateWrites
  \/ \E p \in Pages : Enable(p) \/ Disable(p)
  \/ Rollback
  \/ Move \/ DetailExpires \/ SlotElapses

Spec == Init /\ [][Next]_vars

\* Requests and jobs settle and the debounce window ends.  The clients go on
\* asking for every page by its id, and not all of them leave before Pixiv
\* has answered.
FairSpec ==
  /\ Spec
  /\ \A r \in Readers : WF_vars(ReaderStep(r))
  /\ \A p \in Pages :
       /\ SF_vars(\E r \in Readers : OpenById(r, p))
       /\ SF_vars(\E r \in Readers : reader[r].page = p /\ Refused(r))
  /\ WF_vars(JobStep) /\ WF_vars(HydrateWrites) /\ WF_vars(SlotElapses)

-----------------------------------------------------------------------------
(***************************************************************************)
(* Properties.                                                             *)
(***************************************************************************)

\* A broken page is about to be healed: a request will ask for it, a job waits
\* or runs.  Else it was a stream error, a window whose job was already done, a
\* failed send, a process that died, or a dead-lettered job.
BrokenAccounted ==
  \A p \in Pages : status[p] = "broken" /\ why[p] = "none" =>
    \/ Pending
    \/ \E r \in Readers : reader[r].pc = "heal" /\ reader[r].page = p

\* A page that the admin turned off stays off through jobs, retries and
\* rollbacks, unless a request has marked it broken since.
OffUntilRevoked ==
  \A p \in Pages : wanted[p] = "off" /\ p \notin revoked =>
    status[p] \in {"disabled", "absent"}

\* Self-healing works: whatever failed before, while Pixiv is stable and
\* clients keep asking, every page comes to have the url that Pixiv serves, and
\* keeps it, unless it is turned off.  (A page that is broken with a good url is
\* never refused, so it is never healed: only the admin makes it active.)
UrlsRecover ==
  <>[](\A p \in Pages : status[p] \notin {"disabled", "absent"} => url[p] = origin)

\* docs/usage/handbook.md: a disabled image is not picked by /random.
DisabledNeverPicked ==
  [][\A r \in Readers :
       reader[r].pc = "idle" /\ reader'[r].pc = "fetch" /\ reader'[r].via = "random"
         => wanted[reader'[r].page] = "on"]_vars
=============================================================================
