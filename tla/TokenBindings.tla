----------------------------- MODULE TokenBindings -----------------------------
(***************************************************************************)
(* The console's bindings of tokens to proxies: the page that lists them   *)
(* and posts (src/admin/pages/tokenProxyBindings.jsx), what answers it     *)
(* (tokenProxyBindings in src/admin/adminJs.ts) and the three actions that *)
(* write a row (rebindPrimary, setOverride, clearOverride), each of which  *)
(* reads several times before it writes.  Other consoles post as well.  A  *)
(* step is one query of a handler, or one event of the page.               *)
(*                                                                         *)
(* Score stands for the hash of a pair and the salt of the pool.           *)
(***************************************************************************)
EXTENDS Integers, FiniteSets, FiniteSetsExt

CONSTANTS
  Tokens, Proxies,   (* ids                                                *)
  Score,             (* how much a token likes a proxy                     *)
  Others,            (* requests of other consoles under way at once       *)
  MaxPosts,          (* bound: posts                                       *)
  MaxFaults,         (* bound: failed queries                              *)
  MaxToggles         (* bound: tokens and proxies switched on or off       *)

BindingsAssumption ==
  /\ Tokens \subseteq Nat \ {0} /\ Proxies \subseteq Nat \ {0}
  /\ IsFiniteSet(Tokens) /\ IsFiniteSet(Proxies) /\ IsFiniteSet(Others) /\ Proxies # {}
  /\ "page" \notin Others
  /\ Score \in [Tokens \X Proxies -> Nat]
  /\ MaxPosts \in Nat /\ MaxFaults \in Nat /\ MaxToggles \in Nat

VARIABLES
  tokens, proxies,   (* the enabled ones                                    *)
  pool,              (* whether the pool "default" exists                   *)
  binding,           (* the row of each token in that pool, or NoBinding    *)
  req,               (* the posts under way                                 *)
  page,              (* the page: what it shows, its form, its load         *)
  posts, faults, toggles,
  chosen             (* the primary that the last rebind of a token wrote   *)

rows  == <<tokens, proxies, pool, binding>>
bound == <<posts, faults, toggles>>
vars  == <<rows, req, page, bound, chosen>>

Clients == Others \union {"page"}
Nobody == 0                              (* no token, no proxy, not chosen  *)
NoBinding == [primary |-> Nobody, override |-> Nobody, live |-> FALSE]
Idle == [pc |-> "idle", kind |-> "none", token |-> Nobody, proxy |-> Nobody,
         clear |-> FALSE, prev |-> NoBinding]

\* What may be posted; a reason is only logged.
Demands ==
  [kind: {"rebind"}, token: Tokens, proxy: Proxies, clear: BOOLEAN]
    \union [kind: {"override"}, token: Tokens, proxy: Proxies, clear: {FALSE}]
    \union [kind: {"clear"}, token: Tokens, proxy: {Nobody}, clear: {FALSE}]
Asked(ask) == [pc |-> "check", kind |-> ask.kind, token |-> ask.token, proxy |-> ask.proxy,
               clear |-> ask.clear, prev |-> NoBinding]

Bound(t) == binding[t].primary # Nobody

Bindings == [primary: Proxies \union {Nobody}, override: Proxies \union {Nobody}, live: BOOLEAN]
Shown == [row: Bindings, effective: Proxies \union {Nobody}, suggested: Proxies \union {Nobody}]

TypeOK ==
  /\ tokens \subseteq Tokens /\ proxies \subseteq Proxies /\ pool \in BOOLEAN
  /\ binding \in [Tokens -> Bindings]
  /\ \A t \in Tokens : Bound(t) => pool
  /\ \A t \in Tokens : binding[t].override = Nobody => ~binding[t].live
  /\ \A t \in Tokens : ~Bound(t) => binding[t] = NoBinding
  /\ \A r \in Clients :
       /\ req[r].pc \in {"idle", "check", "pool", "create", "again", "prev", "pick", "write"}
       /\ req[r].kind \in {"none", "rebind", "override", "clear"}
       /\ req[r].pc # "idle" => req[r].token \in Tokens
       /\ req[r].kind \in {"rebind", "override"} => req[r].proxy \in Proxies
       /\ req[r].prev \in Bindings
  /\ page.pc \in {"tokens", "proxies", "bindings", "ready", "posting"}
  /\ page.read.tokens \subseteq Tokens /\ page.read.proxies \subseteq Proxies
  /\ DOMAIN page.shown \subseteq Tokens
  /\ \A t \in DOMAIN page.shown : page.shown[t] \in Shown
  /\ posts \in 0..MaxPosts /\ faults \in 0..MaxFaults /\ toggles \in 0..MaxToggles
  /\ chosen \in [Tokens -> Proxies \union {Nobody}]

Fault == faults < MaxFaults /\ faults' = faults + 1

\* pickPrimaryProxyRendezvous: the highest score, of equal ones the lowest id.
Rendezvous(t, ps) ==
  LET best == {p \in ps : \A q \in ps : Score[t, q] <= Score[t, p]} IN Min(best)

\* resolveEffectiveProxy, for a row whose override is live or has expired.
Effective(b) == IF b.override # Nobody /\ b.live THEN b.override ELSE b.primary

\* The page has loaded; the pool may have been made when nobody was bound yet.
Init ==
  /\ tokens = Tokens /\ proxies = Proxies /\ pool \in BOOLEAN
  /\ binding = [t \in Tokens |-> NoBinding]
  /\ req = [r \in Clients |-> Idle]
  /\ page = [pc |-> "ready", read |-> [tokens |-> {}, proxies |-> {}],
             shown |-> [t \in Tokens |-> [row |-> NoBinding, effective |-> Nobody,
                                         suggested |-> Rendezvous(t, Proxies)]]]
  /\ posts = 0 /\ faults = 0 /\ toggles = 0
  /\ chosen = [t \in Tokens |-> Nobody]

-----------------------------------------------------------------------------
(* A post: rebindPrimary, setOverride, clearOverride.                      *)

Goto(r, pc) == req' = [req EXCEPT ![r].pc = pc]

\* The answer of r is a notice, of success or of an error: the page refreshes.
Answer(r) ==
  /\ req' = [req EXCEPT ![r] = Idle]
  /\ page' = IF r = "page" THEN [page EXCEPT !.pc = "tokens"] ELSE page

\* token, and for a rebind or an override proxy, must exist and be enabled.
Check(r) ==
  /\ req[r].pc = "check"
  /\ IF req[r].token \in tokens /\ (req[r].kind = "clear" \/ req[r].proxy \in proxies)
     THEN Goto(r, "pool") /\ UNCHANGED page
     ELSE Answer(r)
  /\ UNCHANGED <<rows, bound, chosen>>

\* getOrCreateDefaultPool
FindPool(r) ==
  /\ req[r].pc = "pool"
  /\ Goto(r, IF pool THEN "prev" ELSE "create")
  /\ UNCHANGED <<rows, page, bound, chosen>>

\* The name is unique: of two that create it one fails, and finds it.
CreatePool(r) ==
  /\ req[r].pc = "create"
  /\ pool' = TRUE
  /\ Goto(r, IF pool THEN "again" ELSE "prev")
  /\ UNCHANGED <<tokens, proxies, binding, page, bound, chosen>>

\* create is caught whatever it failed for; without a pool that is the end.
CreateFails(r) ==
  /\ req[r].pc = "create" /\ ~pool /\ Fault
  /\ Goto(r, "again")
  /\ UNCHANGED <<rows, page, posts, toggles, chosen>>

FindPoolAgain(r) ==
  /\ req[r].pc = "again"
  /\ IF pool THEN Goto(r, "prev") /\ UNCHANGED page ELSE Answer(r)
  /\ UNCHANGED <<rows, bound, chosen>>

\* The row as it is before the write: its primary is the one to keep, its id
\* the one to clear.
ReadPrev(r) ==
  /\ req[r].pc = "prev"
  /\ LET prev == binding[req[r].token] IN
     IF req[r].kind = "clear" /\ prev = NoBinding
     THEN Answer(r)
     ELSE /\ req' = [req EXCEPT ![r].prev = prev,
                                ![r].pc = IF req[r].kind = "override" /\ prev = NoBinding
                                          THEN "pick" ELSE "write"]
          /\ UNCHANGED page
  /\ UNCHANGED <<rows, bound, chosen>>

\* ensurePrimaryProxyId of a token that is not bound.
PickPrimary(r) ==
  /\ req[r].pc = "pick"
  /\ IF proxies = {}
     THEN Answer(r)
     ELSE /\ req' = [req EXCEPT ![r].pc = "write",
                                ![r].prev.primary = Rendezvous(req[r].token, proxies)]
          /\ UNCHANGED page
  /\ UNCHANGED <<rows, bound, chosen>>

\* The writes.
Rebound(q, b) ==
  IF q.clear THEN [primary |-> q.proxy, override |-> Nobody, live |-> FALSE]
             ELSE [b EXCEPT !.primary = q.proxy]

\* Mutant: the update writes the primary that was read or picked, too.
OverriddenWithPrimary(q, b) ==
  [primary |-> q.prev.primary, override |-> q.proxy, live |-> TRUE]

\* The upsert creates the row with the primary that was picked, and updates
\* one that is there without it.
Overridden(q, b) ==
  [primary |-> IF b = NoBinding THEN q.prev.primary ELSE b.primary,
   override |-> q.proxy, live |-> TRUE]

Cleared(q, b) == [b EXCEPT !.override = Nobody, !.live = FALSE]

Write(r) ==
  /\ req[r].pc = "write"
  /\ LET q == req[r]
         t == q.token
     IN /\ \/ q.kind = "rebind" /\ binding' = [binding EXCEPT ![t] = Rebound(q, @)]
           \/ q.kind = "override" /\ binding' = [binding EXCEPT ![t] = Overridden(q, @)]
           \/ q.kind = "clear" /\ binding' = [binding EXCEPT ![t] = Cleared(q, @)]
        /\ chosen' = IF q.kind = "rebind" THEN [chosen EXCEPT ![t] = q.proxy] ELSE chosen
  /\ Answer(r)
  /\ UNCHANGED <<tokens, proxies, pool, bound>>

\* A query fails: the handler throws, and the page does not refresh.
QueryFails(r) ==
  /\ req[r].pc \in {"check", "pool", "again", "prev", "pick", "write"} /\ Fault
  /\ req' = [req EXCEPT ![r] = Idle]
  /\ page' = IF r = "page" THEN [page EXCEPT !.pc = "ready"] ELSE page
  /\ UNCHANGED <<rows, posts, toggles, chosen>>

\* Another console posts.
Post(r) ==
  /\ r \in Others /\ req[r].pc = "idle" /\ posts < MaxPosts /\ posts' = posts + 1
  /\ \E ask \in Demands : req' = [req EXCEPT ![r] = Asked(ask)]
  /\ UNCHANGED <<rows, page, faults, toggles, chosen>>

-----------------------------------------------------------------------------
(* The page.                                                               *)

Loading == page.pc \in {"tokens", "proxies", "bindings"}

ListTokens ==
  /\ page.pc = "tokens"
  /\ page' = [page EXCEPT !.pc = "proxies", !.read.tokens = tokens]
  /\ UNCHANGED <<rows, req, bound, chosen>>

ListProxies ==
  /\ page.pc = "proxies"
  /\ page' = [page EXCEPT !.pc = "bindings", !.read.proxies = proxies]
  /\ UNCHANGED <<rows, req, bound, chosen>>

\* The pool and its rows, and what the handler works out of them.
ListBindings ==
  /\ page.pc = "bindings"
  /\ LET row(t) == [row |-> binding[t], effective |-> Effective(binding[t]),
                    suggested |-> IF page.read.proxies = {} THEN Nobody
                                  ELSE Rendezvous(t, page.read.proxies)]
     IN page' = [page EXCEPT !.pc = "ready", !.shown = [t \in page.read.tokens |-> row(t)],
                             !.read = [tokens |-> {}, proxies |-> {}]]
  /\ UNCHANGED <<rows, req, bound, chosen>>

\* A refresh that fails leaves the lists empty.
LoadFails ==
  /\ Loading /\ Fault
  /\ page' = [page EXCEPT !.pc = "ready", !.shown = << >>, !.read = [tokens |-> {}, proxies |-> {}]]
  /\ UNCHANGED <<rows, req, posts, toggles, chosen>>

Refresh ==
  /\ page.pc = "ready" /\ page' = [page EXCEPT !.pc = "tokens"]
  /\ UNCHANGED <<rows, req, bound, chosen>>

\* The buttons, while the page waits for nothing.  The selects keep what was
\* chosen from an earlier list, so that any token and any proxy may be posted.
Click ==
  /\ page.pc = "ready" /\ posts < MaxPosts /\ posts' = posts + 1
  /\ \E ask \in Demands : req' = [req EXCEPT !["page"] = Asked(ask)]
  /\ page' = [page EXCEPT !.pc = "posting"]
  /\ UNCHANGED <<rows, faults, toggles, chosen>>

-----------------------------------------------------------------------------
\* overrideExpiresAt passes.
Expire(t) ==
  /\ binding[t].live
  /\ binding' = [binding EXCEPT ![t].live = FALSE]
  /\ UNCHANGED <<tokens, proxies, pool, req, page, bound, chosen>>

\* A token or a proxy is switched on or off elsewhere in the console.
Toggle ==
  /\ toggles < MaxToggles /\ toggles' = toggles + 1
  /\ \/ \E t \in Tokens : tokens' = SymDiff(tokens, {t}) /\ UNCHANGED proxies
     \/ \E p \in Proxies : proxies' = SymDiff(proxies, {p}) /\ UNCHANGED tokens
  /\ UNCHANGED <<pool, binding, req, page, posts, faults, chosen>>

Handle(r) ==
  \/ Check(r) \/ FindPool(r) \/ CreatePool(r) \/ CreateFails(r) \/ FindPoolAgain(r)
  \/ ReadPrev(r) \/ PickPrimary(r) \/ Write(r) \/ QueryFails(r)

Next ==
  \/ \E r \in Others : Post(r)
  \/ \E r \in Clients : Handle(r)
  \/ ListTokens \/ ListProxies \/ ListBindings \/ LoadFails \/ Refresh
  \/ \E t \in Tokens : Expire(t)
  \/ Click \/ Toggle

Spec == Init /\ [][Next]_vars

-----------------------------------------------------------------------------
(* Properties.                                                             *)

\* The primary that somebody chose for a token stays until somebody chooses
\* again: an override that read "no row" before the rebind, and so picked a
\* primary of its own, does not replace it when it writes (setOverride).
ChoiceSticks ==
  \A t \in Tokens : chosen[t] # Nobody => binding[t].primary = chosen[t]
=============================================================================
