------------------------------ MODULE Services ------------------------------
(***************************************************************************)
(* Four services of a process that run beside each other and share         *)
(* nothing: the limiters in front of Pixiv, the tokens for Pixiv, the      *)
(* imports of proxy endpoints with their automatic refresh, and hydration  *)
(* on demand.  As in Handlers a behaviour is of one of them, in focus, and *)
(* the variables of the others are unused; `faults` is of the last two.    *)
(***************************************************************************)
EXTENDS Integers, Sequences

CONSTANTS
  Foci,                                    (* the services that are looked at *)
  Requests,                                 (* the Callers of RequestLimiter *)
  Limiters, Plan, MaxInFlight, Interval, Retries,
  Clients,                                  (* the Callers of TokenService   *)
  Tokens, EnvTokens, Strategies, Weights, MaxFailures, MaxEdits, MaxOutages, MaxGen,
  Addresses, Exported, Admins, EnvUrl, MaxAdmin,   (* EndpointImport        *)
  Illusts, Calls, Ttl, Window, MaxPerWindow, MaxTracked, Latency, RetryLimit, MaxToggles,
                                                   (* OpportunisticHydrate  *)
  MaxFaults                                        (* of the last two       *)

VARIABLES
  focus,
  inFlight, waiters, wait, request,
  call, row, strategy, told, editing, cache, byId, entry, gens, current, failures, edits, outages,
  endpoint, setting, act, due, why, admin,
  on, dedupe, window, asking, boss, job, hydrated, last, forgot, recent, toggles,
  faults

Limiter   == INSTANCE RequestLimiter WITH Callers <- Requests, call <- request
Auth      == INSTANCE TokenService WITH Callers <- Clients
Endpoints == INSTANCE EndpointImport WITH row <- endpoint
OnDemand  == INSTANCE OpportunisticHydrate WITH call <- asking

ASSUME RequestsAssumption  == Limiter!LimiterAssumption
ASSUME EndpointsAssumption == Endpoints!EndpointAssumption
ASSUME OnDemandAssumption  == OnDemand!OpportunisticAssumption

-----------------------------------------------------------------------------
(* One of them at a time.                                                  *)

Unused == "unused"

limiter   == <<inFlight, waiters, wait, request>>
tokens    == <<call, row, strategy, told, editing, cache, byId, entry, gens, current,
               failures, edits, outages>>
endpoints == <<endpoint, setting, act, due, why, admin>>
hydration == <<on, dedupe, window, asking, boss, job, hydrated, last, forgot, recent, toggles>>
vars == <<focus, limiter, tokens, endpoints, hydration, faults>>

NoLimiter == inFlight = Unused /\ waiters = Unused /\ wait = Unused /\ request = Unused
NoTokens ==
  /\ call = Unused /\ row = Unused /\ strategy = Unused /\ told = Unused
  /\ editing = Unused /\ cache = Unused /\ byId = Unused
  /\ entry = Unused /\ gens = Unused /\ current = Unused /\ failures = Unused /\ edits = Unused
  /\ outages = Unused
NoEndpoints ==
  /\ endpoint = Unused /\ setting = Unused /\ act = Unused /\ due = Unused
  /\ why = Unused /\ admin = Unused
NoHydration ==
  /\ on = Unused /\ dedupe = Unused /\ window = Unused /\ asking = Unused /\ boss = Unused
  /\ job = Unused /\ hydrated = Unused /\ last = Unused /\ forgot = Unused
  /\ recent = Unused /\ toggles = Unused

Init ==
  /\ focus \in Foci
  /\ \/ /\ focus = "limiter" /\ Limiter!Init
        /\ NoTokens /\ NoEndpoints /\ NoHydration /\ faults = Unused
     \/ /\ focus = "tokens" /\ Auth!Init
        /\ NoLimiter /\ NoEndpoints /\ NoHydration /\ faults = Unused
     \/ focus = "endpoints" /\ Endpoints!Init /\ NoLimiter /\ NoTokens /\ NoHydration
     \/ focus = "hydration" /\ OnDemand!Init /\ NoLimiter /\ NoTokens /\ NoEndpoints

OfLimiter   == focus = "limiter" /\ UNCHANGED <<focus, tokens, endpoints, hydration, faults>>
OfTokens    == focus = "tokens" /\ UNCHANGED <<focus, limiter, endpoints, hydration, faults>>
OfEndpoints == focus = "endpoints" /\ UNCHANGED <<focus, limiter, tokens, hydration>>
OfHydration == focus = "hydration" /\ UNCHANGED <<focus, limiter, tokens, endpoints>>

Next ==
  \/ OfLimiter /\ Limiter!Next
  \/ OfTokens /\ Auth!Next
  \/ OfEndpoints /\ Endpoints!Next
  \/ OfHydration /\ OnDemand!Next

Spec == Init /\ [][Next]_vars

-----------------------------------------------------------------------------
(* Properties.  Each is one of the component's, explained there.           *)

\* Slots of the limiters are neither lost nor leaked nor idle while somebody waits.
SlotsAccounted == focus = "limiter" => Limiter!SlotsAccounted

\* After a rollback nothing enables an easy_proxies endpoint again but what was
\* under way or an administrator asks for.
RollbackSticks == focus = "endpoints" => Endpoints!RollbackSticks

\* A stretch of a window has at most the hydrations of two, or not quite three if it
\* counts what late calls take.
QuotaHolds == focus = "hydration" => OnDemand!QuotaHolds

\* An illust is not scheduled twice within the time of its entry.
NotTwice == [][focus = "hydration" => OnDemand!ScheduledAnew]_vars
=============================================================================
