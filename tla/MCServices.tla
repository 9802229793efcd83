----------------------------- MODULE MCServices -----------------------------
(***************************************************************************)
(* An instance of Services for TLC, and what is to happen in it.           *)
(***************************************************************************)
EXTENDS Services

\* Three requests: two with the token t1 through a proxy, one with t2 directly.
\* The defaults of src/config/env.ts: one request at a time.
ThreeRequests == 1..3
Gates == {"proxy", "global", "t1", "t2"}
Proxied == << <<"proxy">>, <<"global", "t1">> >>
Direct  == << <<"global", "t2">> >>
TwoProxied == <<Proxied, Proxied, Direct>>
OneEach == [l \in Gates |-> 1]
Pauses  == [l \in Gates |-> CASE l = "global" -> 1 [] l = "proxy" -> 0 [] OTHER -> 2]

\* Two calls, two tokens in turn, and a query that fails.  Edits of the rows are
\* the subject of another run.
TwoClients == {"c1", "c2"}
TwoTokens == {1, 2}
RoundRobin == {"round_robin"}
FirstOff == <<0, 2>>

\* One address, which the server exports; two requests of the console that overlap.
\* (Lines are imported one by one: what becomes of a row is the same beside others.)
OneAddress == {"a1"}
TwoAdmins == {"r1", "r2"}

\* Two calls that are served images of two illusts.
TwoIllusts == {"i1", "i2"}
TwoCalls == {"c1", "c2"}
ThreeFoci == {"limiter", "tokens", "endpoints"}
Hydration == {"hydration"}

-----------------------------------------------------------------------------
\* What the modules assume in their FairSpec, and no more than is needed.
FairSpec ==
  /\ Spec
  /\ WF_vars(OfLimiter /\ Limiter!Next)
  /\ \A c \in Clients : WF_vars(OfTokens /\ Auth!Step(c))
  /\ SF_vars(OfTokens /\ Auth!Poll("c1"))
  /\ WF_vars(OfEndpoints /\ (Endpoints!AutoStep \/ Endpoints!Tick))
  /\ WF_vars(OfEndpoints /\ Endpoints!IntervalPasses)

\* Of hydration on demand: what is awaited settles, time passes, the worker works; and
\* an image of i1 goes on being served until it is hydrated, of i2 or not.
FairHydration ==
  /\ Spec
  /\ \A c \in Calls : WF_vars(OfHydration /\ (OnDemand!CallStep(c) \/ OnDemand!ConfigRefuses(c)))
  /\ WF_vars(OfHydration /\ (OnDemand!QueueStarted \/ OnDemand!StartFails))
  /\ WF_vars(OfHydration /\ OnDemand!Tick)
  /\ WF_vars(OfHydration /\ \E i \in Illusts : OnDemand!JobDone(i) \/ OnDemand!JobFails(i))
  /\ SF_vars(OfHydration /\ \E c \in Calls : OnDemand!Serve(c, "i1"))

-----------------------------------------------------------------------------
(* Liveness.  Each is one of the component's, explained there.             *)

\* Every request to Pixiv gets through the limiters and ends: their nesting neither
\* deadlocks nor loses a wake-up.
EveryCallEnds == <>(focus = "limiter" => \A c \in Requests : Limiter!Ended(c))

\* Every call for an access token returns: nobody waits for a refresh that is over,
\* and nobody goes round the tokens for ever.  (The two callers are alike.)
EveryCallReturns ==
  (focus = "tokens" /\ Auth!Called("c1")) ~> (focus = "tokens" /\ Auth!Returned("c1"))

\* While the setting asks for it every exported endpoint comes back again and again.
RefreshTracks ==
  \A a \in Exported :
    <>[](focus = "endpoints" /\ Endpoints!AsksForRefresh)
      => []<>(focus = "endpoints" /\ Endpoints!Tracked(a))

\* Quota and entries are spent on sends that fail, windows are full, starts and
\* jobs fail: if the setting is on in the end, what is served again and again
\* is hydrated.  (The two illusts are alike.)
EventuallyHydrated ==
  <>[](focus = "hydration" /\ on) => <>(focus = "hydration" /\ "i1" \in hydrated)
=============================================================================
