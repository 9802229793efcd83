------------------------------ MODULE Handlers ------------------------------
(***************************************************************************)
(* Eight components that share nothing but the run: the console's pages    *)
(* with what answers them, the spread of tokens over proxies, the job that *)
(* hydrates, the requests for details, and the public reads.  As no step   *)
(* of one can change what another sees, a behaviour is of one of them, in  *)
(* focus; the variables of the others are unused.  Variables of one name   *)
(* are shared.                                                             *)
(***************************************************************************)
EXTENDS Integers, Sequences

CONSTANTS
  Tokens, Proxies, Score, Others, MaxToggles,              (* TokenBindings     *)
  SpreadTokens, Scores, Caps,                              (* PrimaryBindings   *)
  Works, Home, ActionQueues, DeadOnes, FirstDead, PageLimit,   (* ConsoleJobs   *)
  Endpoints, Secrets, Cutoff, MaxTime, MaxEvents,          (* ConsoleProbes     *)
  Lines, Image, Size, Texts, Batches, ServerLines, ServerBytes, MaxSubmits,
                                                           (* ImportPage        *)
  Workers, Pages, Names, Fold, Details,                    (* MetadataHydration *)
  Ids, Metadata, Asks, NamedTags, Strict, Cooldown, MaxEdits,  (* PublicReads   *)
  Callers, Pools, ProxySwitches, TokenSwitches, Retries, Volume, MaxCalls,
                                                           (* PixivDetail       *)
  MaxPosts, MaxJobs, MaxFaults                             (* of several        *)

VARIABLES
  focus,
  image, job, now, page, posts, faults, tags,
  tokens, proxies, pool, binding, req, toggles, chosen,
  score, proxyIds, current, given, stage, over, byToken, loads,
  running, jobsPage, dlqPage, done, removed,
  row, check, report, form, overview, up, worked, events,
  text, dedupe, chunking, batch, config, fetch, imports, hydrations, before, submits,
  meta, tag, translated, tagged, jobs, learnt, expected,
  walk, edits,
  call, breaker, stats, cached, calls

-----------------------------------------------------------------------------
Bindings  == INSTANCE TokenBindings
Spread    == INSTANCE PrimaryBindings WITH Tokens <- SpreadTokens
Jobs      == INSTANCE ConsoleJobs
Probes    == INSTANCE ConsoleProbes
Page      == INSTANCE ImportPage
Hydration == INSTANCE MetadataHydration
Reads     == INSTANCE PublicReads
Requests  == INSTANCE PixivDetail

ASSUME BindingsAssumption == Bindings!BindingsAssumption
ASSUME SpreadAssumption   == Spread!SpreadAssumption
ASSUME JobsAssumption     == Jobs!ConsoleJobsAssumption
ASSUME ProbesAssumption   == Probes!ProbesAssumption
ASSUME PageAssumption     == Page!PageAssumption
ASSUME HydrationAssumption == Hydration!HydrationAssumption
ASSUME ReadsAssumption    == Reads!ReadsAssumption
ASSUME RequestsAssumption == Requests!DetailAssumption

-----------------------------------------------------------------------------
(* One of them at a time.                                                  *)

Unused == "unused"

bindings  == <<tokens, proxies, pool, binding, req, toggles, chosen>>
spread    == <<score, proxyIds, current, given, stage, over, byToken, loads>>
consoles  == <<running, jobsPage, dlqPage, done, removed>>
probes    == <<row, check, report, form, overview, up, worked, events>>
imported  == <<text, dedupe, chunking, batch, config, fetch, imports, hydrations, before, submits>>
hydration == <<meta, tag, translated, tagged, jobs, learnt, expected>>
reads     == <<walk, edits>>
requests  == <<call, breaker, stats, cached, calls>>
vars == <<focus, image, job, now, page, posts, faults, tags, bindings, spread, consoles,
          probes, imported, hydration, reads, requests>>

NoBindings ==
  /\ tokens = Unused /\ proxies = Unused /\ pool = Unused /\ binding = Unused /\ req = Unused
  /\ toggles = Unused /\ chosen = Unused
NoSpread ==
  /\ score = Unused /\ proxyIds = Unused /\ current = Unused /\ given = Unused
  /\ stage = Unused /\ over = Unused /\ byToken = Unused /\ loads = Unused
NoConsoles ==
  /\ running = Unused /\ jobsPage = Unused /\ dlqPage = Unused /\ done = Unused
  /\ removed = Unused
NoProbes ==
  /\ row = Unused /\ check = Unused /\ report = Unused /\ form = Unused
  /\ overview = Unused /\ up = Unused /\ worked = Unused /\ events = Unused
NoImported ==
  /\ text = Unused /\ dedupe = Unused /\ chunking = Unused /\ batch = Unused /\ config = Unused
  /\ fetch = Unused /\ imports = Unused /\ hydrations = Unused /\ before = Unused
  /\ submits = Unused
NoHydration ==
  /\ meta = Unused /\ tag = Unused /\ translated = Unused /\ tagged = Unused /\ jobs = Unused
  /\ learnt = Unused /\ expected = Unused
NoReads == walk = Unused /\ edits = Unused
NoRequests ==
  /\ call = Unused /\ breaker = Unused /\ stats = Unused /\ cached = Unused /\ calls = Unused

Init ==
  \/ /\ focus = "bindings" /\ Bindings!Init
     /\ image = Unused /\ job = Unused /\ now = Unused /\ tags = Unused
     /\ NoSpread /\ NoConsoles /\ NoProbes /\ NoImported /\ NoHydration /\ NoReads
     /\ NoRequests
  \/ /\ focus = "spread" /\ Spread!Init
     /\ image = Unused /\ job = Unused /\ now = Unused /\ tags = Unused
     /\ page = Unused /\ posts = Unused /\ faults = Unused
     /\ NoBindings /\ NoConsoles /\ NoProbes /\ NoImported /\ NoHydration /\ NoReads
     /\ NoRequests
  \/ /\ focus = "jobs" /\ Jobs!Init
     /\ image = Unused /\ now = Unused /\ page = Unused /\ tags = Unused
     /\ NoBindings /\ NoSpread /\ NoProbes /\ NoImported /\ NoHydration /\ NoReads
     /\ NoRequests
  \/ /\ focus = "probes" /\ Probes!Init
     /\ image = Unused /\ page = Unused /\ posts = Unused /\ faults = Unused /\ tags = Unused
     /\ NoBindings /\ NoSpread /\ NoConsoles /\ NoImported /\ NoHydration /\ NoReads
     /\ NoRequests
  \/ /\ focus = "page" /\ Page!Init
     /\ image = Unused /\ job = Unused /\ now = Unused /\ posts = Unused /\ tags = Unused
     /\ NoBindings /\ NoSpread /\ NoConsoles /\ NoProbes /\ NoHydration /\ NoReads
     /\ NoRequests
  \/ /\ focus = "hydration" /\ Hydration!Init
     /\ now = Unused /\ page = Unused /\ posts = Unused /\ tags = Unused
     /\ NoBindings /\ NoSpread /\ NoConsoles /\ NoProbes /\ NoImported /\ NoReads /\ NoRequests
  \/ /\ focus = "reads" /\ Reads!Init
     /\ job = Unused /\ page = Unused /\ posts = Unused
     /\ NoBindings /\ NoSpread /\ NoConsoles /\ NoProbes /\ NoImported /\ NoHydration
     /\ NoRequests
  \/ /\ focus = "requests" /\ Requests!Init
     /\ image = Unused /\ job = Unused /\ now = Unused /\ page = Unused /\ posts = Unused
     /\ faults = Unused /\ tags = Unused
     /\ NoBindings /\ NoSpread /\ NoConsoles /\ NoProbes /\ NoImported /\ NoHydration /\ NoReads

Next ==
  \/ /\ focus = "bindings" /\ Bindings!Next
     /\ UNCHANGED <<focus, image, job, now, tags, spread, consoles, probes, imported, hydration,
                    reads, requests>>
  \/ /\ focus = "spread" /\ Spread!Next
     /\ UNCHANGED <<focus, image, job, now, tags, page, posts, faults, bindings, consoles, probes,
                    imported, hydration, reads, requests>>
  \/ /\ focus = "jobs" /\ Jobs!Next
     /\ UNCHANGED <<focus, image, now, page, tags, bindings, spread, probes, imported, hydration,
                    reads, requests>>
  \/ /\ focus = "probes" /\ Probes!Next
     /\ UNCHANGED <<focus, image, page, posts, faults, tags, bindings, spread, consoles, imported,
                    hydration, reads, requests>>
  \/ /\ focus = "page" /\ Page!Next
     /\ UNCHANGED <<focus, image, job, now, posts, tags, bindings, spread, consoles, probes,
                    hydration, reads, requests>>
  \/ /\ focus = "hydration" /\ Hydration!Next
     /\ UNCHANGED <<focus, now, page, posts, tags, bindings, spread, consoles, probes, imported,
                    reads, requests>>
  \/ /\ focus = "reads" /\ Reads!Next
     /\ UNCHANGED <<focus, job, page, posts, bindings, spread, consoles, probes, imported,
                    hydration, requests>>
  \/ /\ focus = "requests" /\ Requests!Next
     /\ UNCHANGED <<focus, image, job, now, page, posts, faults, tags, bindings, spread, consoles,
                    probes, imported, hydration, reads>>

Spec == Init /\ [][Next]_vars

-----------------------------------------------------------------------------
(* Properties.  Each is one of the component's, explained there.           *)

\* Types: the state of the component in focus is of the types its module declares.
TypesOK ==
  CASE focus = "bindings"  -> Bindings!TypeOK
    [] focus = "spread"    -> Spread!TypeOK
    [] focus = "jobs"      -> Jobs!TypeOK
    [] focus = "probes"    -> Probes!TypeOK
    [] focus = "page"      -> Page!TypeOK
    [] focus = "hydration" -> Hydration!TypeOK
    [] focus = "reads"     -> Reads!TypeOK
    [] focus = "requests"  -> Requests!TypeOK

\* The primary that somebody chose for a token stays until somebody chooses
\* again, although an override read the row before that (setOverride in
\* src/admin/adminJs.ts).
ChoiceSticks == focus = "bindings" => Bindings!ChoiceSticks

\* The loads computeScaledPrimaryBindings keeps are those of its bindings; no
\* proxy is over its cap while another has room; who need not move stays.
SpreadRight == focus = "spread" => Spread!SpreadRight

\* Work is done, or has a job or a dead letter, or an operator has deleted that,
\* whatever two pages of the console and the workers do to the jobs.
WorkAccounted == focus = "jobs" => Jobs!WorkAccounted

\* An endpoint that a probe job or the overview of the pool says is ok has worked
\* as late as it says, whatever check that was heard from and however long it took.
ReportsTrue == focus = "probes" => Probes!ReportsTrue

\* What the page that imports URLs shows as the result of a submit is all that
\* the submit did: every line once, in order, in imports it names.
SubmitTrue == focus = "page" => Page!SubmitTrue

\* What was known of an image stays known, and after a sync of its tags that
\* none overlapped it has exactly the tags of the detail.
HydrationKept == focus = "hydration" => Hydration!HydrationKept

\* The breaker opens for Pixiv only; after its rate limit a call asks no more; a call
\* that a proxy failed has tried all that its switches allow; only details are cached.
DetailsRight == focus = "requests" => Requests!DetailsRight

\* GET /random answers an image that the query means, and "no match" only if no
\* row matched all the while, the row it chose was deleted, or all attempts failed.
AnswersMeant == focus = "reads" => Reads!AnswersMeant

\* An attempt never fetches the image again that has just failed.
NoHotRetry == focus = "reads" => Reads!NoHotRetry

\* Paging through a list shows all that was there all the while, and none twice.
WalkListsAll == focus = "reads" => Reads!WalkListsAll
=============================================================================
