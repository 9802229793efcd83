---------------------------- MODULE TokenService ----------------------------
(***************************************************************************)
(* The Pixiv token service of one process: the cached snapshot of the      *)
(* enabled tokens (src/services/tokenStore.ts), the entries that carry the *)
(* state of each token, and the calls of getAccessTokenWithMeta that share *)
(* them (src/services/pixivAuthService.ts), beside an admin who edits the  *)
(* token rows.  A call runs from await to await in one step.               *)
(*                                                                         *)
(* Time is what the code compares it for: a snapshot is fresh or not, an   *)
(* access token valid or expired, a backoff running or over.  An entry is  *)
(* an object that outlives its place in pixivAuthById: it is named by its  *)
(* token and a generation.                                                 *)
(***************************************************************************)
EXTENDS Integers, Sequences, FiniteSets

CONSTANTS
  Callers,      (* concurrent calls of getAccessTokenWithMeta               *)
  Tokens,       (* rows of PixivToken; their order is the order of ids      *)
  EnvTokens,    (* the tokens of REFRESH_TOKENS                             *)
  Strategies,   (* values of PIXIV_TOKEN_STRATEGY                           *)
  Weights,      (* PIXIV_TOKEN_WEIGHTS as parsed                            *)
  MaxFailures,  (* bound: refresh requests that fail                        *)
  MaxEdits,     (* bound: edits of a token row                              *)
  MaxOutages,   (* bound: snapshot queries that fail                        *)
  MaxGen        (* bound: generations of a token's entry                    *)

AllTokens == Tokens \union EnvTokens

ASSUME TokenAssumption ==
  /\ AllTokens \subseteq Nat /\ IsFiniteSet(AllTokens)
  /\ Tokens \intersect EnvTokens = {}
  /\ Strategies \subseteq {"round_robin", "random", "least_error", "weighted"}
  /\ Weights \in Seq(Nat)
  /\ MaxFailures \in Nat /\ MaxEdits \in Nat /\ MaxOutages \in Nat
  /\ MaxGen \in Nat \ {0}

VARIABLES
  strategy,   (* PIXIV_TOKEN_STRATEGY                                       *)
  row,        (* the PixivToken rows: enabled, and version of the secret    *)
  told,       (* the rows as of the last invalidation (nobody reads it)     *)
  editing,    (* a row was written and the caches not yet invalidated       *)
  cache,      (* __pixivcatTokenStoreCache: none or a snapshot              *)
  byId,       (* pixivAuthById: the generation of each token's entry        *)
  entry,      (* the entries                                                *)
  gens,       (* generations used so far, per token                         *)
  current,    (* currentTokenIndex                                          *)
  call,       (* the calls                                                  *)
  failures, edits, outages    (* how much of the bounds is used             *)

bounds == <<failures, edits, outages>>
vars == <<strategy, row, told, editing, cache, byId, entry, gens, current,
          call, bounds>>

Secrets  == 0..MaxEdits
Gens     == 1..MaxGen
Snapshot == UNION {[S -> Secrets] : S \in SUBSET AllTokens}
Rows     == [Tokens -> [on: BOOLEAN, secret: Secrets]]
None     == [tokens |-> <<>>, fresh |-> FALSE]

NewEntry(s) == [secret |-> s, valid |-> FALSE, refreshing |-> FALSE,
                backoff |-> FALSE, errors |-> 0]
Entry == [secret: Secrets, valid: BOOLEAN, refreshing: BOOLEAN,
          backoff: BOOLEAN, errors: 0..MaxFailures]

PCs  == {"idle", "load", "store", "select", "refresh", "wait", "use", "done", "failed"}
Idle == [pc |-> "idle", snap |-> <<>>, auth |-> <<>>, tried |-> {}, idx |-> 0,
         told |-> <<>>, aged |-> FALSE]
Auths == UNION {[1..n -> AllTokens \X Gens] : n \in 0..Cardinality(AllTokens)}

Call  == [pc: PCs, snap: Snapshot, auth: Auths, aged: BOOLEAN,
          tried: SUBSET (1..Cardinality(AllTokens)), idx: 0..Cardinality(AllTokens),
          told: Rows \union {<<>>}]

\* Type correctness: the rows, the snapshot, the entries and the calls.
TypeOK ==
  /\ strategy \in Strategies
  /\ row \in Rows /\ told \in Rows /\ editing \in BOOLEAN
  /\ cache \in [tokens: Snapshot, fresh: BOOLEAN]
  /\ byId \in UNION {[S -> Gens] : S \in SUBSET AllTokens}
  /\ entry \in [AllTokens \X Gens -> Entry]
  /\ gens \in [AllTokens -> 0..MaxGen]
  /\ current = 1 \/ current \in 1..Cardinality(AllTokens)
  /\ call \in [Callers -> Call]
  /\ failures \in 0..MaxFailures /\ edits \in 0..MaxEdits /\ outages \in 0..MaxOutages

Init ==
  /\ strategy \in Strategies
  /\ row = [t \in Tokens |-> [on |-> TRUE, secret |-> 0]] /\ told = row
  /\ editing = FALSE
  /\ cache = None
  /\ byId = <<>>
  /\ entry = [e \in AllTokens \X Gens |-> NewEntry(0)]
  /\ gens = [t \in AllTokens |-> 0]
  /\ current = 1
  /\ call = [c \in Callers |-> Idle]
  /\ failures = 0 /\ edits = 0 /\ outages = 0

-----------------------------------------------------------------------------
(***************************************************************************)
(* The admin and the clock.                                                *)
(***************************************************************************)

\* An edit of a row is saved; the action's after hook runs later.
Edit(t) ==
  /\ ~editing /\ edits < MaxEdits /\ edits' = edits + 1
  /\ \/ row' = [row EXCEPT ![t].on = ~@]
     \/ row' = [row EXCEPT ![t].secret = edits']
  /\ editing' = TRUE
  /\ UNCHANGED <<strategy, told, cache, byId, entry, gens, current, call,
                 failures, outages>>

\* The after hook: invalidateRuntimeCaches({tokens: true}).
Invalidate ==
  /\ editing /\ editing' = FALSE
  /\ cache' = None
  /\ told' = row
  /\ UNCHANGED <<strategy, row, byId, entry, gens, current, call, bounds>>

\* The snapshot is older than the cache's time to live.
CacheExpires ==
  /\ cache.fresh
  /\ cache' = None
  /\ UNCHANGED <<strategy, row, told, editing, byId, entry, gens, current,
                 call, bounds>>

Aged == [c \in Callers |-> [call[c] EXCEPT !.aged = call[c].pc \notin {"idle", "done", "failed"}]]

AccessExpires(e) ==
  /\ entry[e].valid
  /\ entry' = [entry EXCEPT ![e].valid = FALSE]
  /\ call' = Aged
  /\ UNCHANGED <<strategy, row, told, editing, cache, byId, gens, current, bounds>>

BackoffEnds(e) ==
  /\ entry[e].backoff
  /\ entry' = [entry EXCEPT ![e].backoff = FALSE]
  /\ call' = Aged
  /\ UNCHANGED <<strategy, row, told, editing, cache, byId, gens, current, bounds>>

-----------------------------------------------------------------------------
(***************************************************************************)
(* The snapshot, and the entries built from it.                            *)
(***************************************************************************)

\* The elements of S in ascending order: each comes after the smaller ones.
Ascending(S) ==
  [i \in 1..Cardinality(S) |->
     CHOOSE x \in S : Cardinality({y \in S : y < x}) = i - 1]

\* ensurePixivAuthInitialized for the call r of c: the entry of a token that has
\* one is kept, with the refresh token it has; the other tokens of the snapshot
\* get a new one.  Without tokens it throws.
Install(c, r, snap) ==
  LET S   == DOMAIN snap
      new == S \ DOMAIN byId
      gen == [t \in S |-> IF t \in new THEN gens[t] + 1 ELSE byId[t]]
      ids == Ascending(S)
  IN /\ \A t \in new : gens[t] < MaxGen
     /\ IF S = {}
        THEN /\ call' = [call EXCEPT ![c] = [r EXCEPT !.pc = "failed"]]
             /\ UNCHANGED <<byId, entry, gens>>
        ELSE /\ byId' = gen
             /\ gens' = [t \in AllTokens |-> IF t \in S THEN gen[t] ELSE gens[t]]
             /\ entry' = [e \in DOMAIN entry |->
                            IF e[1] \in new /\ e[2] = gen[e[1]]
                            THEN NewEntry(snap[e[1]]) ELSE entry[e]]
             /\ call' = [call EXCEPT ![c] =
                  [r EXCEPT !.pc = "select", !.snap = <<>>,
                            !.auth = [i \in 1..Len(ids) |-> <<ids[i], gen[ids[i]]>>]]]

\* A call begins: a fresh snapshot is used at once, else the rows are queried.
Begin(c) ==
  LET r == [Idle EXCEPT !.told = told] IN
  /\ call[c].pc = "idle"
  /\ \/ cache.fresh /\ Install(c, r, cache.tokens)
     \/ /\ ~cache.fresh
        /\ call' = [call EXCEPT ![c] = [r EXCEPT !.pc = "load"]]
        /\ UNCHANGED <<byId, entry, gens>>
  /\ UNCHANGED <<strategy, row, told, editing, cache, current, bounds>>

EnabledRows == [t \in {u \in Tokens : row[u].on} |-> row[t].secret]
FromEnv     == [t \in EnvTokens |-> 0]

\* The database answers with its enabled rows; REFRESH_TOKENS when there are
\* none, or when the query fails.
Load(c) ==
  /\ call[c].pc = "load"
  /\ \/ /\ call' = [call EXCEPT ![c].pc = "store", ![c].snap =
                     IF DOMAIN EnabledRows # {} THEN EnabledRows ELSE FromEnv]
        /\ UNCHANGED outages
     \/ /\ outages < MaxOutages /\ outages' = outages + 1
        /\ call' = [call EXCEPT ![c].pc = "store", ![c].snap = FromEnv]
  /\ UNCHANGED <<strategy, row, told, editing, cache, byId, entry, gens,
                 current, failures, edits>>

\* The snapshot is cached, whatever was invalidated since, and installed.
Store(c) ==
  /\ call[c].pc = "store"
  /\ cache' = [tokens |-> call[c].snap, fresh |-> TRUE]
  /\ Install(c, call[c], call[c].snap)
  /\ UNCHANGED <<strategy, row, told, editing, current, bounds>>

-----------------------------------------------------------------------------
(***************************************************************************)
(* Choosing a token, and having its access token ready.                    *)
(***************************************************************************)

\* selectTokenIndex: what may be chosen among n = Len(errs) candidates after
\* the one at prev (0: none).
SelectIndex(prev, errs, ws) ==
  LET n       == Len(errs)
      next    == {(prev % n) + 1}
      Dist(i) == (i - prev - 1) % n
      least   == {i \in 1..n : \A j \in 1..n : errs[i] <= errs[j]}
      heavy   == {i \in 1..n : ws[i] > 0}
  IN CASE strategy = "random"      -> 1..n
       [] strategy = "least_error" -> {i \in least : \A j \in least : Dist(i) <= Dist(j)}
       [] strategy = "weighted"    -> IF heavy = {} THEN next ELSE heavy
       [] OTHER                    -> next

\* parseTokenWeights for n tokens.
WeightsFor(n) ==
  LET w == [i \in 1..n |-> IF i <= Len(Weights) THEN Weights[i] ELSE 1]
  IN IF \A i \in 1..n : w[i] = 0 THEN [i \in 1..n |-> 1] ELSE w

\* getAccessTokenIndex: the indices that may be chosen of the entries that are
\* not in backoff; none when all are.
Candidates(auth) ==
  LET ok   == Ascending({i \in DOMAIN auth : ~entry[auth[i]].backoff})
      prev == IF \E k \in DOMAIN ok : ok[k] = current
              THEN CHOOSE k \in DOMAIN ok : ok[k] = current ELSE 0
      errs == [k \in DOMAIN ok |-> entry[auth[ok[k]]].errors]
      ws   == [k \in DOMAIN ok |-> WeightsFor(Len(auth))[ok[k]]]
  IN IF ok = <<>> THEN {} ELSE {ok[k] : k \in SelectIndex(prev, errs, ws)}

\* A readiness check that forgets the refresh in flight.
ReadyPCIgnoresFlag(e) ==
  CASE e.valid                -> "use"
    [] ~e.valid /\ e.backoff  -> "select"
    [] OTHER                  -> "refresh"

\* Where ensureAccessTokenReady leads: use a valid token, give way to a backoff,
\* refresh, or wait for the call that is refreshing.
ReadyPC(e) ==
  CASE e.valid                                 -> "use"
    [] ~e.valid /\ e.backoff                   -> "select"
    [] ~e.valid /\ ~e.backoff /\ ~e.refreshing -> "refresh"
    [] OTHER                                   -> "wait"

\* One turn of the loop: a new index is tried; the loop is over when nothing is
\* eligible, an index comes up again, or every entry had its turn.
Select(c) ==
  LET auth == call[c].auth IN
  /\ call[c].pc = "select"
  /\ \/ /\ Candidates(auth) = {} \/ Cardinality(call[c].tried) = Len(auth)
        /\ call' = [call EXCEPT ![c].pc = "failed"]
        /\ UNCHANGED <<current, entry>>
     \/ /\ Cardinality(call[c].tried) < Len(auth)
        /\ \E i \in Candidates(auth) :
             /\ current' = i
             /\ IF i \in call[c].tried
                THEN call' = [call EXCEPT ![c].pc = "failed"] /\ UNCHANGED entry
                ELSE LET pc == ReadyPC(entry[auth[i]]) IN
                     /\ call' = [call EXCEPT ![c].pc = pc, ![c].idx = i,
                                             ![c].tried = @ \union {i}]
                     /\ entry' = [entry EXCEPT ![auth[i]].refreshing = @ \/ pc = "refresh"]
  /\ UNCHANGED <<strategy, row, told, editing, cache, byId, gens, bounds>>

Mine(c) == call[c].auth[call[c].idx]

\* The refresh request succeeds.
RefreshOk(c) ==
  /\ call[c].pc = "refresh"
  /\ entry' = [entry EXCEPT ![Mine(c)] =
       [secret |-> @.secret, valid |-> TRUE, refreshing |-> FALSE,
        backoff |-> FALSE, errors |-> 0]]
  /\ call' = [call EXCEPT ![c].pc = "use"]
  /\ UNCHANGED <<strategy, row, told, editing, cache, byId, gens, current, bounds>>

\* A failure that starts no backoff.
RefreshFailNoBackoff(c) ==
  /\ call[c].pc = "refresh"
  /\ failures < MaxFailures /\ failures' = failures + 1
  /\ entry' = [entry EXCEPT ![Mine(c)] =
       [@ EXCEPT !.refreshing = FALSE, !.errors = @ + 1]]
  /\ call' = [call EXCEPT ![c].pc = "select"]
  /\ UNCHANGED <<strategy, row, told, editing, cache, byId, gens, current,
                 edits, outages>>

\* A failure that is reported without the finally.
RefreshFailKeepsFlag(c) ==
  /\ call[c].pc = "refresh"
  /\ failures < MaxFailures /\ failures' = failures + 1
  /\ entry' = [entry EXCEPT ![Mine(c)] = [@ EXCEPT !.backoff = TRUE, !.errors = @ + 1]]
  /\ call' = [call EXCEPT ![c].pc = "select"]
  /\ UNCHANGED <<strategy, row, told, editing, cache, byId, gens, current,
                 edits, outages>>

\* What a failure makes of an entry.
Failed(e) == [e EXCEPT !.refreshing = FALSE, !.backoff = TRUE, !.errors = @ + 1]

\* The refresh request fails: the entry is in backoff.
RefreshFail(c) ==
  /\ call[c].pc = "refresh"
  /\ failures < MaxFailures /\ failures' = failures + 1
  /\ entry' = [entry EXCEPT ![Mine(c)] = Failed(@)]
  /\ call' = [call EXCEPT ![c].pc = "select"]
  /\ UNCHANGED <<strategy, row, told, editing, cache, byId, gens, current,
                 edits, outages>>

\* Every 100 ms a waiting call looks whether the refresh is over.
Poll(c) ==
  /\ call[c].pc = "wait" /\ ~entry[Mine(c)].refreshing
  /\ call' = [call EXCEPT ![c].pc = IF entry[Mine(c)].valid THEN "use" ELSE "select"]
  /\ UNCHANGED <<strategy, row, told, editing, cache, byId, entry, gens,
                 current, bounds>>

\* The access token is looked at once more and returned.
Use(c) ==
  /\ call[c].pc = "use"
  /\ call' = [call EXCEPT ![c].pc = IF entry[Mine(c)].valid THEN "done" ELSE "select"]
  /\ UNCHANGED <<strategy, row, told, editing, cache, byId, entry, gens,
                 current, bounds>>

\* The caller may come again.
Again(c) ==
  /\ call[c].pc \in {"done", "failed"}
  /\ call' = [call EXCEPT ![c] = Idle]
  /\ UNCHANGED <<strategy, row, told, editing, cache, byId, entry, gens,
                 current, bounds>>

-----------------------------------------------------------------------------
Step(c) ==
  \/ Load(c) \/ Store(c) \/ Select(c) \/ RefreshOk(c) \/ RefreshFail(c)
  \/ Poll(c) \/ Use(c)

Next ==
  \/ \E c \in Callers : Begin(c) \/ Step(c) \/ Again(c)
  \/ \E t \in Tokens : Edit(t)
  \/ Invalidate \/ CacheExpires
  \/ \E e \in AllTokens \X Gens : AccessExpires(e) \/ BackoffEnds(e)

Spec == Init /\ [][Next]_vars

\* Requests and queries settle.  A waiting call polls every 100 ms while an
\* entry is left alone for the life of its token or at least 30 s of backoff.
FairSpec ==
  /\ Spec
  /\ \A c \in Callers : WF_vars(Step(c)) /\ SF_vars(Poll(c))

-----------------------------------------------------------------------------
(***************************************************************************)
(* Properties.                                                             *)
(***************************************************************************)

\* Single flight: an entry is marked as refreshing exactly while one call
\* has its request in flight, across failures, re-installs and edits.
OneRefreshPerEntry ==
  \A e \in AllTokens \X Gens :
    Cardinality({c \in Callers : call[c].pc = "refresh" /\ Mine(c) = e})
      = (IF entry[e].refreshing THEN 1 ELSE 0)

\* A call gives up only after it has tried every token that is not in backoff,
\* whatever the strategy and whatever other calls did to the shared index;
\* unless a backoff ended or a token expired while it was under way.
GivesUpLast ==
  [][\A c \in Callers :
       call[c].pc # "failed" /\ call'[c].pc = "failed" /\ ~call[c].aged =>
         \A i \in DOMAIN call[c].auth :
           i \in call[c].tried \/ entry[call[c].auth[i]].backoff]_vars

\* Every call returns: nobody waits for a refresh that is over, and nobody
\* goes round the tokens for ever.
Called(c)   == call[c].pc # "idle"
Returned(c) == call[c].pc \in {"done", "failed"}
EveryCallReturns == \A c \in Callers : Called(c) ~> Returned(c)

Refreshes(c) == call[c].pc = "select" /\ call'[c].pc = "refresh"
TokenOf(c)   == call'[c].auth[call'[c].idx]

\* PPOOL-0506: a call that begins after an edit of a refresh token refreshes
\* with the new one (or a newer one).
EditedSecretUsed ==
  [][\A c \in Callers : Refreshes(c) /\ TokenOf(c)[1] \in Tokens =>
       entry[TokenOf(c)].secret >= call[c].told[TokenOf(c)[1]].secret]_vars
=============================================================================
