---------------------------- MODULE PrimaryBindings ----------------------------
(***************************************************************************)
(* How tokens are spread over proxies (computeScaledPrimaryBindings in     *)
(* src/proxy/tokenProxyBinding.ts): bindings that are there stay as far as *)
(* a proxy may have so many, of too many the most affine ones stay, and    *)
(* the others go where they like it best and there is room.  A step is a   *)
(* turn of one of its loops, which keeps the loads beside the bindings.    *)
(***************************************************************************)
EXTENDS Integers, FiniteSets, FiniteSetsExt

CONSTANTS
  Tokens, Proxies,   (* ids                                                *)
  Scores,            (* the hashes of pairs that are tried                 *)
  Caps               (* values of maxTokensPerProxy                        *)

SpreadAssumption ==
  /\ Tokens \subseteq Nat \ {0} /\ Proxies \subseteq Nat \ {0}
  /\ IsFiniteSet(Tokens) /\ IsFiniteSet(Proxies) /\ Proxies # {}
  /\ Scores \subseteq [Tokens -> [Proxies -> Nat]]
  /\ Caps \subseteq Nat \ {0}

Nobody  == 0
Default == 0                     (* no maxTokensPerProxy is given           *)

VARIABLES
  score,
  proxyIds,
  current,   (* currentBindings: of each token a proxy, or Nobody           *)
  given,     (* maxTokensPerProxy                                           *)
  stage,
  over,      (* proxies whose bindings are still to be trimmed              *)
  byToken,   (* bindingsByToken                                             *)
  loads

vars == <<score, proxyIds, current, given, stage, over, byToken, loads>>
input == <<score, proxyIds, current, given>>

CeilDiv(a, b) == (a + b - 1) \div b
On(f, p) == {t \in Tokens : f[t] = p}
Need == {t \in Tokens : byToken[t] = Nobody}

\* targetMaxTokensPerProxy
Cap ==
  IF given # Default THEN given
  ELSE IF Cardinality(proxyIds) >= Cardinality(Tokens) THEN 1
  ELSE CeilDiv(Cardinality(Tokens), Cardinality(proxyIds))

TypeOK ==
  /\ score \in Scores /\ proxyIds \subseteq Proxies
  /\ current \in [Tokens -> Proxies \union {Nobody}]
  /\ given \in Caps \union {Default}
  /\ stage \in {"adopt", "trim", "assign", "done"} /\ over \subseteq proxyIds
  /\ byToken \in [Tokens -> proxyIds \union {Nobody}]
  /\ loads \in [proxyIds -> Nat]

Init ==
  /\ score \in Scores /\ proxyIds \in (SUBSET Proxies) \ {{}}
  /\ current \in [Tokens -> Proxies \union {Nobody}]
  /\ given \in Caps \union {Default}
  /\ stage = "adopt" /\ over = {}
  /\ byToken = [t \in Tokens |-> Nobody]
  /\ loads = [p \in proxyIds |-> 0]

\* What is bound to a proxy that is still there stays bound.
Adopt ==
  /\ stage = "adopt" /\ stage' = "trim"
  /\ byToken' = [t \in Tokens |-> IF current[t] \in proxyIds THEN current[t] ELSE Nobody]
  /\ loads' = [p \in proxyIds |-> Cardinality(On(current, p))]
  /\ over' = {p \in proxyIds : Cardinality(On(current, p)) > Cap}
  /\ UNCHANGED input

\* t comes before u on proxy p: a higher score, of equal ones the lower id.
Closer(t, u, p) == score[t][p] > score[u][p] \/ (score[t][p] = score[u][p] /\ t < u)
Kept(ts, p) == {t \in ts : Cardinality({u \in ts : Closer(u, t, p)}) < Cap}

\* Mutant: the load stays what it was, so that the room is never used.
TrimKeepsLoad ==
  /\ stage = "trim" /\ over # {}
  /\ LET p == Min(over) IN
       /\ over' = over \ {p}
       /\ byToken' = [t \in Tokens |-> IF t \in On(byToken, p) \ Kept(On(byToken, p), p)
                                       THEN Nobody ELSE byToken[t]]
  /\ UNCHANGED <<input, stage, loads>>

\* A proxy with too many keeps the closest, and the others need another.
Trim ==
  /\ stage = "trim" /\ over # {}
  /\ LET p == Min(over) IN
       /\ over' = over \ {p}
       /\ byToken' = [t \in Tokens |-> IF t \in On(byToken, p) \ Kept(On(byToken, p), p)
                                       THEN Nobody ELSE byToken[t]]
       /\ loads' = [loads EXCEPT ![p] = Cap]
  /\ UNCHANGED <<input, stage>>

Trimmed ==
  /\ stage = "trim" /\ over = {} /\ stage' = "assign"
  /\ UNCHANGED <<input, over, byToken, loads>>

\* rankProxiesForToken: the first of ps for t.
First(t, ps) ==
  LET best == {p \in ps : \A q \in ps : score[t][q] <= score[t][p]} IN Min(best)

\* By token id: the first proxy with room, and without any the first of all.
Assign ==
  /\ stage = "assign" /\ Need # {}
  /\ LET t    == Min(Need)
         room == {p \in proxyIds : loads[p] < Cap}
         p    == First(t, IF room = {} THEN proxyIds ELSE room)
     IN byToken' = [byToken EXCEPT ![t] = p] /\ loads' = [loads EXCEPT ![p] = @ + 1]
  /\ UNCHANGED <<input, stage, over>>

Return ==
  /\ stage = "assign" /\ Need = {} /\ stage' = "done"
  /\ UNCHANGED <<input, over, byToken, loads>>

Next == Adopt \/ Trim \/ Trimmed \/ Assign \/ Return

Spec == Init /\ [][Next]_vars

-----------------------------------------------------------------------------
(* Properties.                                                             *)

\* When it is done every token has a proxy that is there, the loads are those of
\* the bindings, no proxy has more than the cap while another has room, the
\* default cap is never exceeded, and a binding that was within the cap, or among
\* the closest of its proxy, has stayed.
SpreadRight ==
  stage = "done" =>
    /\ \A t \in Tokens : byToken[t] \in proxyIds
    /\ \A p \in proxyIds : loads[p] = Cardinality(On(byToken, p))
    /\ \A p, q \in proxyIds : loads[p] > Cap => loads[q] >= Cap
    /\ given = Default => \A p \in proxyIds : loads[p] <= Cap
    /\ \A p \in proxyIds : Kept(On(current, p), p) \subseteq On(byToken, p)
=============================================================================
