---------------------------- MODULE PixivDetail ----------------------------
(***************************************************************************)
(* What asks Pixiv for the detail of an illust: getPixivIllustIdData       *)
(* (src/services/pixivService.ts) with its cache, its retries, the proxies *)
(* it fails over to and the circuit breaker around every attempt           *)
(* (src/resilience).  What one illust shows is shown: the cache holds at   *)
(* most its detail.                                                        *)
(*                                                                         *)
(* The limiters an attempt waits for are RequestLimiter, which proxy comes *)
(* next is ProxyFailover; here the proxies are counted: those of a call    *)
(* that have not failed it yet, the one it uses among them.  The breaker   *)
(* is opossum's, as src/resilience/circuit.ts sets it up.                  *)
(***************************************************************************)
EXTENDS Integers

CONSTANTS
  Callers,      (* concurrent requests for the detail                       *)
  Pools,        (* how many proxies may be enabled                          *)
  ProxySwitches, TokenSwitches,  (* maxProxySwitches, maxTokenSwitches      *)
  Retries,      (* retryWithBackoff's retries                               *)
  Volume,       (* volumeThreshold: attempts before the breaker may open    *)
  MaxCalls      (* bound: calls                                             *)

DetailAssumption ==
  /\ Pools \subseteq Nat /\ ProxySwitches \in Nat /\ TokenSwitches \in Nat
  /\ Retries \in Nat /\ Volume \in Nat /\ MaxCalls \in Nat

VARIABLES
  call,         (* where each caller is                                     *)
  breaker,      (* its state, and the trial of a half-open one              *)
  stats,        (* its rolling counts                                       *)
  cached,       (* the payload that memcached has, or none                  *)
  calls         (* how many were made                                       *)

vars == <<call, breaker, stats, cached, calls>>

\* What an attempt can come to.  validateStatus takes a 404 for an answer, and an
\* answer may be an error.  unreachable is a network error with a code that
\* classifyOutboundError knows, broken one with another; open is the breaker's.
Answers  == {"detail", "missing", "error_body"}
Refusals == {"rate_limit", "forbidden", "server_error", "proxy_auth"}   (* have a response *)
Silences == {"timeout", "unreachable", "broken"}
Outcomes == Answers \union Refusals \union Silences \union {"open"}
Results  == {"none", "data", "circuit_open", "proxy_required", "rate_limit", "network",
             "upstream"}

\* turn and tries count what the loops of runWithTokenProxyFailover count, failed
\* the proxies given up.
Idle == [pc |-> "idle", left |-> 0, failed |-> 0, turn |-> 0, tries |-> 0, att |-> 0,
         caches |-> FALSE, last |-> "none", limited |-> FALSE, result |-> "none"]

TypeOK ==
  /\ call \in [Callers ->
       [pc: {"idle", "plan", "attempt", "sent", "backoff", "done"},
        left: Nat, failed: Nat, turn: 0..TokenSwitches, tries: 0..ProxySwitches, att: 0..Retries,
        caches: BOOLEAN, last: Outcomes \union {"none", "token"}, limited: BOOLEAN,
        result: Results]]
  /\ breaker \in [state: {"closed", "open", "half"}, trial: BOOLEAN,
                  by: {"none", "proxy", "pixiv"}]
  /\ stats \in [fires: Nat, failures: Nat]
  /\ cached \in Answers \union {"none"}
  /\ calls \in 0..MaxCalls

NoStats == [fires |-> 0, failures |-> 0]

Init ==
  /\ call = [c \in Callers |-> Idle]
  /\ breaker = [state |-> "closed", trial |-> FALSE, by |-> "none"]
  /\ stats = NoStats
  /\ cached = "none"
  /\ calls = 0

-----------------------------------------------------------------------------
(***************************************************************************)
(* classifyOutboundError.                                                  *)
(***************************************************************************)

\* The type of an error, in the order of its tests: a timeout is one whoever caused
\* it, and what has no response is a proxy's failure when a proxy was used.
Classify(o, usedProxy) ==
  IF o = "timeout" THEN "timeout"
  ELSE IF o = "proxy_auth" THEN "proxy_auth"
  ELSE IF o = "rate_limit" THEN "pixiv_rate_limit"
  ELSE IF o = "forbidden" THEN "pixiv_403"
  ELSE IF o = "server_error" THEN "pixiv_5xx"
  ELSE IF usedProxy THEN "proxy_connect"
  ELSE IF o = "unreachable" THEN "network"
  ELSE "unknown"

Retryable(type) == type \in {"timeout", "pixiv_rate_limit", "pixiv_5xx", "proxy_connect", "network"}

\* isProxyClassFailure: another proxy may do better.
ProxyClass(type) == type \in {"proxy_connect", "proxy_auth"}

\* A call uses a proxy as long as one is left, and goes direct if none was enabled.
UsesProxy(c) == call[c].left > 0

\* A shouldRetry that asks the classification only.
RetriesWhatIsRetryable(c, o) == Retryable(Classify(o, UsesProxy(c)))

\* shouldRetry: neither an open breaker nor Pixiv's rate limit is tried again.
ShouldRetry(c, o) ==
  /\ o \notin {"open", "rate_limit"}
  /\ Retryable(Classify(o, UsesProxy(c)))

-----------------------------------------------------------------------------
(***************************************************************************)
(* src/proxy/routing.ts, for the host of the Pixiv API: whether the domain *)
(* lists of the configuration name it.                                     *)
(***************************************************************************)

Configs == [mode: {"pixiv_only", "all", "allowlist"}, allowed: BOOLEAN,
            open: BOOLEAN, closed: BOOLEAN, default: BOOLEAN]

ShouldProxy(config) == config.mode = "allowlist" => config.allowed

\* What may fail open wins over what must fail closed.
FailClosed(config) ==
  ShouldProxy(config) /\ ~config.open /\ (config.closed \/ config.default)

-----------------------------------------------------------------------------
(***************************************************************************)
(* The breaker.                                                            *)
(***************************************************************************)

\* A breaker without the errorFilter of createPixivApiCircuit.
CountsEverything(o, usedProxy) == o \notin Answers

\* errorFilter: what a proxy failed in is no failure of Pixiv.
CountsAsFailure(o, usedProxy) == o \notin Answers /\ ~ProxyClass(Classify(o, usedProxy))

\* Closed, or half open and nothing has been tried.
Lets == breaker.state = "closed" \/ (breaker.state = "half" /\ breaker.trial)

\* Too many failures of enough attempts, or any that settles while it is half open.
Opens(s) ==
  \/ breaker.state = "half"
  \/ s.fires >= Volume /\ 2 * s.failures > s.fires

\* Who failed, whatever it is taken for; who takes too long cannot be told.
Culprit(o, usedProxy) ==
  IF usedProxy /\ o \in {"proxy_auth", "unreachable", "broken"} THEN "proxy" ELSE "pixiv"

\* An attempt that got through has settled, whatever became of the breaker since; a
\* filtered error is a success to it.
Settled(o, usedProxy) ==
  IF CountsAsFailure(o, usedProxy)
  THEN LET s == [stats EXCEPT !.failures = @ + 1] IN
       /\ stats' = s
       /\ breaker' = IF Opens(s) THEN [state |-> "open", trial |-> FALSE, by |-> Culprit(o, usedProxy)]
                     ELSE breaker
  ELSE /\ breaker' = IF breaker.state = "half"
                     THEN [state |-> "closed", trial |-> FALSE, by |-> "none"] ELSE breaker
       /\ UNCHANGED stats

\* resetTimeout has passed: one attempt is let through.
HalfOpens ==
  /\ breaker.state = "open"
  /\ breaker' = [breaker EXCEPT !.state = "half", !.trial = TRUE]
  /\ UNCHANGED <<call, stats, cached, calls>>

\* rollingCountTimeout has passed without an attempt.
WindowPasses ==
  /\ stats # NoStats /\ stats' = NoStats
  /\ UNCHANGED <<call, breaker, cached, calls>>

-----------------------------------------------------------------------------
(***************************************************************************)
(* A call.                                                                 *)
(***************************************************************************)

\* The error that the caller gets for what came last.
Told(o) ==
  IF o = "open" THEN "circuit_open"
  ELSE IF o = "rate_limit" THEN "rate_limit"
  ELSE IF o \in Refusals THEN "upstream"
  ELSE "network"

Ends(c, last, result) ==
  [Idle EXCEPT !.pc = "done", !.limited = call[c].limited, !.last = last, !.result = result]

\* The cache answers; or it has nothing, cannot be asked, or is not to be asked.
Begin(c) ==
  /\ call[c].pc \in {"idle", "done"} /\ calls < MaxCalls /\ calls' = calls + 1
  /\ \E caches \in BOOLEAN :
       LET started == [Idle EXCEPT !.pc = "plan", !.caches = caches] IN
       \/ call' = [call EXCEPT ![c] = started]
       \/ /\ caches /\ cached # "none"
          /\ call' = [call EXCEPT ![c] =
               [started EXCEPT !.pc = "done", !.last = cached, !.result = "data"]]
  /\ UNCHANGED <<breaker, stats, cached>>

\* The configuration, the enabled proxies, of which there may be none, and the
\* token: without it there is no response, which is told as a failure of the network.
Plan(c) ==
  /\ call[c].pc = "plan"
  /\ \E proxyEnabled, any, token \in BOOLEAN, config \in Configs :
       LET shouldProxy == proxyEnabled /\ ShouldProxy(config)
           required    == shouldProxy /\ ~any /\ FailClosed(config)
       IN \/ /\ required
             /\ call' = [call EXCEPT ![c] = Ends(c, "none", "proxy_required")]
          \/ /\ ~required /\ ~token
             /\ call' = [call EXCEPT ![c] = Ends(c, "token", "network")]
          \/ /\ ~required /\ token
             /\ \E n \in IF shouldProxy /\ any THEN Pools \ {0} ELSE {0} :
                  call' = [call EXCEPT ![c] = [@ EXCEPT !.pc = "attempt", !.left = n]]
  /\ UNCHANGED <<breaker, stats, cached, calls>>

\* What c may go on with after an attempt failed: the same again after a while,
\* another proxy, with a second token when the first one's switches are used up, or
\* the error.  The second token is asked for even if no proxy is left; that it cannot
\* be had takes the place of the error.
AfterFailure(c, o) ==
  LET limited == call[c].limited \/ o = "rate_limit"
      now     == [call[c] EXCEPT !.limited = limited]
      told    == [Ends(c, o, Told(o)) EXCEPT !.limited = limited, !.left = call[c].left,
                                             !.failed = call[c].failed]
      left    == call[c].left - 1
      failed  == call[c].failed + 1
      given   == [told EXCEPT !.left = left, !.failed = failed]
      noToken == [given EXCEPT !.last = "token", !.result = "network"]
      next    == [now EXCEPT !.pc = "attempt", !.left = left, !.failed = failed, !.att = 0]
  IN IF call[c].att < Retries /\ ShouldRetry(c, o)
     THEN {[now EXCEPT !.pc = "backoff"]}
     ELSE IF ~UsesProxy(c) \/ ~ProxyClass(Classify(o, TRUE))
     THEN {told}
     ELSE IF left > 0 /\ call[c].tries < ProxySwitches
     THEN {[next EXCEPT !.tries = @ + 1]}
     ELSE IF call[c].turn = TokenSwitches
     THEN {given}
     ELSE {noToken, IF left = 0 THEN given ELSE [next EXCEPT !.tries = 0, !.turn = @ + 1]}

\* pixivApiCircuitFire: the attempt is made, or refused at once.
Fire(c) ==
  /\ call[c].pc = "attempt"
  /\ stats' = [stats EXCEPT !.fires = @ + 1]
  /\ IF Lets
     THEN /\ breaker' = [breaker EXCEPT !.trial = FALSE]
          /\ call' = [call EXCEPT ![c].pc = "sent"]
     ELSE /\ \E r \in AfterFailure(c, "open") : call' = [call EXCEPT ![c] = r]
          /\ UNCHANGED breaker
  /\ UNCHANGED <<cached, calls>>

\* Pixiv answers: a detail without an error is cached, if that does not fail.
Answered(c, o) ==
  /\ call[c].pc = "sent" /\ o \in Answers
  /\ Settled(o, UsesProxy(c))
  /\ call' = [call EXCEPT ![c] = Ends(c, o, "data")]
  /\ cached' \in {cached} \union IF call[c].caches /\ o = "detail" THEN {o} ELSE {}
  /\ UNCHANGED calls

\* The attempt fails, by an answer, without one, or as it took 12 seconds.
Fails(c, o) ==
  /\ call[c].pc = "sent" /\ o \in Refusals \union Silences
  /\ o = "proxy_auth" => UsesProxy(c)
  /\ Settled(o, UsesProxy(c))
  /\ \E r \in AfterFailure(c, o) : call' = [call EXCEPT ![c] = r]
  /\ UNCHANGED <<cached, calls>>

Retry(c) ==
  /\ call[c].pc = "backoff"
  /\ call' = [call EXCEPT ![c].pc = "attempt", ![c].att = @ + 1]
  /\ UNCHANGED <<breaker, stats, cached, calls>>

CacheExpires ==
  /\ cached # "none" /\ cached' = "none"
  /\ UNCHANGED <<call, breaker, stats, calls>>

Next ==
  \/ \E c \in Callers :
       \/ Begin(c) \/ Plan(c) \/ Fire(c) \/ Retry(c)
       \/ \E o \in Answers : Answered(c, o)
       \/ \E o \in Refusals \union Silences : Fails(c, o)
  \/ HalfOpens \/ WindowPasses \/ CacheExpires

Spec == Init /\ [][Next]_vars

-----------------------------------------------------------------------------
(***************************************************************************)
(* Properties.                                                             *)
(***************************************************************************)

\* The breaker opens for Pixiv only: the attempt that opened it did not fail in a
\* proxy, except by taking too long.
OpensForPixivOnly == breaker.by # "proxy"

\* Once Pixiv has said that it limits the rate, the call asks it no more, by neither
\* its retries nor its proxies, and says so.
LimitHeeded ==
  \A c \in Callers : call[c].limited => call[c].pc = "done" /\ call[c].result = "rate_limit"

\* A call that a proxy failed has tried them all, or as many as the switches of both
\* tokens together allow: the second goes on where the first one stopped.
NoProxyLeft ==
  \A c \in Callers :
    call[c].pc = "done" /\ call[c].last \in {"proxy_auth", "unreachable", "broken", "open"}
      => call[c].left = 0 \/ call[c].failed = (ProxySwitches + 1) * (TokenSwitches + 1)

\* An answer that is no detail is never answered again from the cache.
OnlyDetailsCached == cached \in {"none", "detail"}

\* All of these.
DetailsRight == OpensForPixivOnly /\ LimitHeeded /\ NoProxyLeft /\ OnlyDetailsCached
=============================================================================
