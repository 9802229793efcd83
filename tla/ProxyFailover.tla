--------------------------- MODULE ProxyFailover ---------------------------
(***************************************************************************)
(* Which proxy a request to Pixiv goes through: the enabled endpoints and  *)
(* their one-second copy (src/proxy/proxyEndpointStore.ts), the health     *)
(* check that takes endpoints out of use and back in                       *)
(* (src/proxy/healthCheck.ts), and the attempts of one request             *)
(* (src/proxy/proxyFailover.ts) as its callers make it                     *)
(* (src/services/pixivService.ts, src/http/pixivImageHttp.ts,              *)
(* src/services/pixivAuthService.ts).                                      *)
(*                                                                         *)
(* One process.  A step is what runs between two awaits.  The score of an  *)
(* endpoint and its rank for a token decide nothing but an order: any      *)
(* order is taken.                                                         *)
(***************************************************************************)
EXTENDS Integers, Sequences, FiniteSets

CONSTANTS
  Proxies,           (* rows of ProxyEndpoint                               *)
  MaxProxySwitches,  (* of one request, per token: 2 in the code            *)
  MaxTokenSwitches,  (* 1 in the code                                       *)
  WindowSize,        (* PROXY_HEALTH_WINDOW_SIZE: samples kept              *)
  MinSuccess,        (* PROXY_HEALTH_MIN_SUCCESS_RATE, in percent           *)
  MaxEvents          (* bound: edits of rows, changes of what the proxies   *)
                     (* can do, probe jobs of the console, failed queries,  *)
                     (* and probes that fail for no reason                  *)

ASSUME FailoverAssumption ==
  /\ IsFiniteSet(Proxies)
  /\ {MaxProxySwitches, MaxTokenSwitches, MinSuccess, MaxEvents} \subseteq Nat
  /\ WindowSize \in Nat \ {0}

VARIABLES
  row,       (* ProxyEndpoint.enabled                                       *)
  cache,     (* __pixivcatProxyEndpointCache: is there one, and its rows    *)
  timer,     (* has the scheduler of the health check been started          *)
  check,     (* the check in flight: its stage, who is still to be probed   *)
             (* and how many samples it keeps                               *)
  samples,   (* samplesById, the newest last                                *)
  line,      (* what a proxy can do: works, is slow, does not answer        *)
  req,       (* a request to Pixiv                                          *)
  changed,   (* rows edited within the last second, for the properties      *)
  outage,    (* a load failed within the last second, for the properties    *)
  events     (* how many of the events above have happened                  *)

ghosts == <<changed, outage>>
health == <<timer, check, samples>>
vars   == <<row, cache, timer, check, samples, line, req, changed, outage,
            events>>

Lines == {"works", "slow", "dead"}
Kinds == {"detail", "plain"}  (* with a token's proxy; images and refreshes  *)
PCs   == {"idle", "query", "store", "token", "try",
          "served", "direct", "refused", "failed", "gave_up"}
Ended == {"served", "direct", "refused", "failed", "gave_up"}

\* The sequences of samples.
Windows == UNION {[1..n -> Lines] : n \in 0..WindowSize}

\* turn counts the tokens, tries the attempts with one of them; rows is what
\* the query has read, old that it began more than a second ago; sure are the
\* rows not edited since a second before the request began.
Request ==
  [pc: PCs, kind: Kinds, rows: SUBSET Proxies, old: BOOLEAN,
   cands: SUBSET Proxies, failed: SUBSET Proxies,
   turn: 0..MaxTokenSwitches, tries: 0..MaxProxySwitches,
   sure: SUBSET Proxies]

Check == [stage: {"none", "query", "probe"}, todo: SUBSET Proxies,
          window: 1..WindowSize]

NoCheck == [stage |-> "none", todo |-> {}, window |-> WindowSize]
NoCache == [known |-> FALSE, rows |-> {}]
NoRequest == [pc |-> "idle", kind |-> "plain", rows |-> {}, old |-> FALSE, cands |-> {},
              failed |-> {}, turn |-> 0, tries |-> 0, sure |-> {}]

TypeOK ==
  /\ row \in [Proxies -> BOOLEAN]
  /\ cache \in [known: BOOLEAN, rows: SUBSET Proxies]
  /\ timer \in BOOLEAN
  /\ check \in Check
  /\ samples \in [Proxies -> Windows]
  /\ line \in [Proxies -> Lines]
  /\ req \in Request
  /\ changed \in SUBSET Proxies /\ outage \in BOOLEAN
  /\ events \in 0..MaxEvents

Init ==
  /\ row = [p \in Proxies |-> TRUE]
  /\ cache = NoCache
  /\ timer = FALSE
  /\ check = NoCheck
  /\ samples = [p \in Proxies |-> <<>>]
  /\ line = [p \in Proxies |-> "works"]
  /\ req = NoRequest
  /\ changed = {} /\ outage = FALSE
  /\ events = 0

Event == events < MaxEvents /\ events' = events + 1

-----------------------------------------------------------------------------
(***************************************************************************)
(* Health.                                                                 *)
(***************************************************************************)
Unknown(p) == samples[p] = <<>>

\* computeHealthEntry: the last probe worked and was fast enough, and enough of
\* the window answered.
Healthy(p) ==
  LET s == samples[p] IN
  /\ s # <<>>
  /\ s[Len(s)] = "works"
  /\ 100 * Cardinality({i \in DOMAIN s : s[i] # "dead"}) >= MinSuccess * Len(s)

\* filterProxyCandidatesByHealth keeps what is healthy or was never probed.
Usable(p) == Healthy(p) \/ Unknown(p)

EnabledRows == {p \in Proxies : row[p]}

\* recordSample: the newest is appended, the oldest fall out.
Record(s, x, window) ==
  LET t == Append(s, x)
  IN SubSeq(t, IF Len(t) > window THEN Len(t) - window + 1 ELSE 1, Len(t))

\* What is left of the check once it has dealt with p.
After(p) ==
  IF check.todo = {p} THEN NoCheck ELSE [check EXCEPT !.todo = @ \ {p}]

\* The timer, or its start: a check, unless one is in flight.
Tick ==
  /\ timer /\ check.stage = "none"
  /\ check' = [NoCheck EXCEPT !.stage = "query"]
  /\ UNCHANGED <<row, cache, timer, samples, line, req, ghosts, events>>

\* A check that stays in flight when its query fails.
CheckQueryNoFinally ==
  /\ check.stage = "query"
  /\ \/ /\ check' = IF EnabledRows = {} THEN NoCheck
                    ELSE [check EXCEPT !.stage = "probe", !.todo = EnabledRows]
        /\ UNCHANGED events
     \/ Event /\ check' = [check EXCEPT !.stage = "probe"]
  /\ UNCHANGED <<row, cache, timer, samples, line, req, ghosts>>

\* The check asks for the enabled rows; if that fails the check is over.
CheckQuery ==
  /\ check.stage = "query"
  /\ \/ /\ check' = IF EnabledRows = {} THEN NoCheck
                    ELSE [check EXCEPT !.stage = "probe", !.todo = EnabledRows]
        /\ UNCHANGED events
     \/ Event /\ check' = NoCheck
  /\ UNCHANGED <<row, cache, timer, samples, line, req, ghosts>>

\* The answer of a probe; the last one ends the check.
ProbeEnds(p) ==
  /\ check.stage = "probe" /\ p \in check.todo
  /\ \/ /\ samples' = [samples EXCEPT ![p] = Record(@, line[p], check.window)]
        /\ UNCHANGED events
     \/ /\ Event
        /\ samples' = [samples EXCEPT ![p] = Record(@, "dead", check.window)]
  /\ check' = After(p)
  /\ UNCHANGED <<row, cache, timer, line, req, ghosts>>

\* A probe job of the console checks one endpoint, enabled or not, and keeps one
\* sample of it.  While a check is in flight the job waits for that one's report
\* instead, and changes nothing.
AdminProbe(p) ==
  /\ check.stage = "none"
  /\ Event
  /\ check' = [stage |-> "probe", todo |-> {p}, window |-> 1]
  /\ UNCHANGED <<row, cache, timer, samples, line, req, ghosts>>

-----------------------------------------------------------------------------
(***************************************************************************)
(* The candidates of a request.                                            *)
(***************************************************************************)
End(pc) == [NoRequest EXCEPT !.pc = pc]

\* The request goes on with the usable ones of the rows; if there is none it is
\* refused or goes direct, as the policy of the host says.
WithCandidates(kind, rows) ==
  LET usable == {p \in rows : Usable(p)} IN
  IF usable = {} THEN {End("direct"), End("refused")}
  ELSE {[NoRequest EXCEPT !.pc = IF kind = "detail" THEN "token" ELSE "try",
                          !.kind = kind, !.cands = usable]}

\* loadEnabledProxyCandidates: from the copy, which also starts the scheduler,
\* or from the table.
Begin(kind) ==
  /\ req.pc = "idle"
  /\ IF cache.known
     THEN timer' = TRUE /\ req' \in WithCandidates(kind, cache.rows)
     ELSE /\ req' = [NoRequest EXCEPT !.pc = "query", !.kind = kind,
                                      !.sure = Proxies \ changed]
          /\ UNCHANGED timer
  /\ UNCHANGED <<row, cache, check, samples, line, ghosts, events>>

\* The database answers the query.
Query ==
  /\ req.pc = "query"
  /\ req' = [req EXCEPT !.pc = "store", !.rows = EnabledRows]
  /\ UNCHANGED <<row, cache, health, line, ghosts, events>>

\* A copy that is dated when the answer comes.
StoreDatedLate ==
  /\ req.pc = "store"
  /\ cache' = [known |-> TRUE, rows |-> req.rows]
  /\ timer' = TRUE
  /\ req' \in WithCandidates(req.kind, req.rows)
  /\ UNCHANGED <<row, check, samples, line, ghosts, events>>

\* The answer is kept, dated when the query began.
Store ==
  /\ req.pc = "store"
  /\ cache' = IF req.old THEN NoCache ELSE [known |-> TRUE, rows |-> req.rows]
  /\ timer' = TRUE
  /\ req' \in WithCandidates(req.kind, req.rows)
  /\ UNCHANGED <<row, check, samples, line, ghosts, events>>

\* The query fails: an empty copy is kept.
QueryFails ==
  /\ req.pc = "query"
  /\ Event
  /\ cache' = IF req.old THEN NoCache ELSE [known |-> TRUE, rows |-> {}]
  /\ outage' = TRUE
  /\ req' \in WithCandidates(req.kind, {})
  /\ UNCHANGED <<row, health, line, changed>>

-----------------------------------------------------------------------------
(***************************************************************************)
(* The attempts.                                                           *)
(***************************************************************************)
\* Proxies that have not failed in this request.  One of them is next: the best
\* for the token, its primary or an override; without a token, the best of all.
Untried(r) == r.cands \ r.failed

\* Where a request goes on when it has no more proxies to try, or has switched
\* them often enough: to another token, if it uses one.
NextToken(r) ==
  IF r.kind = "detail" /\ r.turn < MaxTokenSwitches
  THEN [r EXCEPT !.pc = "token", !.turn = @ + 1, !.tries = 0]
  ELSE [r EXCEPT !.pc = "gave_up"]

\* Switches counted as attempts.
NextTryOneLess(r) ==
  IF Untried(r) # {} /\ r.tries + 1 < MaxProxySwitches
  THEN [r EXCEPT !.tries = @ + 1]
  ELSE NextToken(r)

\* Where a request goes on after its proxy has failed.
NextTry(r) ==
  IF Untried(r) # {} /\ r.tries < MaxProxySwitches
  THEN [r EXCEPT !.tries = @ + 1]
  ELSE NextToken(r)

\* A token is asked for, also when every proxy has failed; there may be none.
GetToken ==
  /\ req.pc = "token"
  /\ \/ req' = End("failed")
     \/ Untried(req) # {} /\ req' = [req EXCEPT !.pc = "try"]
     \/ Untried(req) = {} /\ req' = NextToken(req)
  /\ UNCHANGED <<row, cache, health, line, ghosts, events>>

\* The request answers, or fails for a reason that is not the proxy's.
Answer ==
  /\ req.pc = "try"
  /\ \E pc \in {"served", "failed"} : req' = End(pc)
  /\ UNCHANGED <<row, cache, health, line, ghosts, events>>

\* The proxy refuses or cannot be reached.
ProxyFails ==
  /\ req.pc = "try"
  /\ \E p \in Untried(req) :
       req' = NextTry([req EXCEPT !.failed = @ \union {p}])
  /\ UNCHANGED <<row, cache, health, line, ghosts, events>>

Again ==
  /\ req.pc \in Ended
  /\ req' = NoRequest
  /\ UNCHANGED <<row, cache, health, line, ghosts, events>>

-----------------------------------------------------------------------------
(***************************************************************************)
(* The console, time and the proxies themselves.                           *)
(***************************************************************************)
\* An endpoint is enabled or disabled: in this process, in another or by hand.
Edit(p) ==
  /\ Event
  /\ row' = [row EXCEPT ![p] = ~@]
  /\ changed' = changed \union {p}
  /\ req' = [req EXCEPT !.sure = @ \ {p}]
  /\ UNCHANGED <<cache, health, line, outage>>

\* invalidateProxyEndpointCache, after an edit in this process or on a
\* notification; it may come late, or never.
Invalidate ==
  /\ changed # {}
  /\ cache' = NoCache
  /\ UNCHANGED <<row, health, line, req, ghosts, events>>

\* A second passes: the copy is too old, and so is what a load under way brings.
Second ==
  /\ cache' = NoCache
  /\ req' = IF req.pc \in {"query", "store"} THEN [req EXCEPT !.old = TRUE] ELSE req
  /\ changed' = {} /\ outage' = FALSE
  /\ UNCHANGED <<row, health, line, events>>

\* A proxy breaks down, slows down or recovers.
Turn(p) ==
  /\ Event
  /\ \E x \in Lines \ {line[p]} : line' = [line EXCEPT ![p] = x]
  /\ UNCHANGED <<row, cache, health, req, ghosts>>

-----------------------------------------------------------------------------
Next ==
  \/ Tick \/ CheckQuery
  \/ \E p \in Proxies : ProbeEnds(p) \/ AdminProbe(p) \/ Edit(p) \/ Turn(p)
  \/ \E kind \in Kinds : Begin(kind)
  \/ Query \/ Store \/ QueryFails
  \/ GetToken \/ Answer \/ ProxyFails \/ Again
  \/ Invalidate \/ Second

Spec == Init /\ [][Next]_vars

\* The timer of the check fires, queries settle and probes have a timeout.
FairSpec ==
  /\ Spec
  /\ WF_vars(Tick) /\ WF_vars(CheckQuery)
  /\ \A p \in Proxies : WF_vars(ProbeEnds(p))

-----------------------------------------------------------------------------
(***************************************************************************)
(* Properties.                                                             *)
(***************************************************************************)

\* A request gives up on its proxies only after every candidate has failed it,
\* or after as many different ones as its switches allow, over all its tokens.
GivesUpLast ==
  req.pc = "gave_up" =>
    \/ req.failed = req.cands
    \/ Cardinality(req.failed)
         >= (MaxProxySwitches + 1)
              * (IF req.kind = "detail" THEN MaxTokenSwitches + 1 ELSE 1)

TakesCandidates == req.pc \in {"idle", "store"} /\ req'.pc \notin {"idle", "query", "store"}
Sure == IF req.pc = "store" THEN req.sure ELSE Proxies \ changed

\* A request that begins a second or more after an edit goes by it, whatever
\* was loaded, kept or invalidated meanwhile: an enabled endpoint that is
\* healthy or unknown is a candidate, any other is not, and so a request goes
\* direct or is refused only if there is none, or the database has just failed.
ListCurrent ==
  [][TakesCandidates /\ ~outage =>
       \A p \in Sure : p \in req'.cands <=> row[p] /\ Usable(p)]_vars

\* Once the scheduler runs, an enabled endpoint comes to be used if and only if
\* it works: whatever was probed before, by whom, and which checks failed.
HealthTracks ==
  \A p \in Proxies, works \in BOOLEAN :
    <>[](timer /\ row[p] /\ (line[p] = "works") = works) => <>[](Usable(p) = works)
=============================================================================
