---------------------------- MODULE ConfigCaches ----------------------------
(***************************************************************************)
(* The runtime configuration that every process keeps for a second         *)
(* (src/config/runtimeConfig.ts) and its invalidation: an edit in one      *)
(* process drops that process's copy and is published with NOTIFY, which   *)
(* the listener of the others (src/config/notify.ts) turns into the same   *)
(* invalidation.  Calls that find no copy share one load, which reads the  *)
(* settings and then the hydration policy from the database.               *)
(*                                                                         *)
(* A value of the database is the number of edits it has had; Defaults is  *)
(* the value that the environment gives.                                   *)
(***************************************************************************)
EXTENDS Integers

CONSTANTS
  Processes,  (* processes of the backend on one database                   *)
  Callers,    (* concurrent calls of getRuntimeConfigSnapshot               *)
  At,         (* At[c]: the process that call c is made in                  *)
  MaxEdits,   (* bound: edits and invalidations                             *)
  MaxFaults   (* bound: failed queries, sends and connects, lost listeners  *)

Defaults == -1
Nobody == "nobody"

ASSUME CachesAssumption ==
  /\ Nobody \notin Callers
  /\ At \in [Callers -> Processes]
  /\ MaxEdits \in Nat /\ MaxFaults \in Nat

VARIABLES
  db,        (* the settings and the policy in the database                *)
  proc,      (* the configuration state of each process                    *)
  call,      (* each call, and the load it owns                            *)
  told,      (* history: the settings as of the last invalidation          *)
  listener,  (* the LISTEN connection of each process                      *)
  inbox,     (* notifications under way to each process                    *)
  edits, faults  (* how much of the bounds is used                         *)

notifyVars == <<listener, inbox>>
vars == <<db, proc, call, told, notifyVars, edits, faults>>

Values == Nat \union {Defaults}
Config == [settings: Values, policy: Values]
Cold == [settings |-> Defaults, policy |-> Defaults]

Copy == [age: {"none", "new", "old"}, config: Config]
NoCopy == [age |-> "none", config |-> Cold]
Process == [version: Nat, cache: Copy, inFlight: Callers \union {Nobody},
            edit: {"none", "written"}]
Call == [pc: {"idle", "settings", "policy", "failed", "joined"},
         load: Callers \union {Nobody}, version: Nat, read: Values,
         since: Nat, got: Config]
Scopes == {"settings", "other"}

\* Type correctness: the copies, the calls, the listeners and what is under way.
TypeOK ==
  /\ db \in [settings: Nat, policy: Nat]
  /\ proc \in [Processes -> Process]
  /\ call \in [Callers -> Call]
  /\ told \in [Processes -> Nat]
  /\ listener \in [Processes -> {"connecting", "listening", "timer", "broken"}]
  /\ inbox \in [Processes -> SUBSET Scopes]
  /\ edits \in 0..MaxEdits /\ faults \in 0..MaxFaults

IdleCall == [pc |-> "idle", load |-> Nobody, version |-> 0, read |-> 0,
             since |-> 0, got |-> Cold]

Init ==
  /\ db = [settings |-> 0, policy |-> 0]
  /\ proc = [p \in Processes |->
       [version |-> 0, cache |-> NoCopy, inFlight |-> Nobody, edit |-> "none"]]
  /\ call = [c \in Callers |-> IdleCall]
  /\ told = [p \in Processes |-> 0]
  /\ listener = [p \in Processes |-> "connecting"]
  /\ inbox = [p \in Processes |-> {}]
  /\ edits = 0 /\ faults = 0

Edit == edits < MaxEdits /\ edits' = edits + 1
Fault == faults < MaxFaults /\ faults' = faults + 1

-----------------------------------------------------------------------------
(***************************************************************************)
(* getRuntimeConfigSnapshot.                                               *)
(***************************************************************************)

Answer(c, config) == [IdleCall EXCEPT !.since = call[c].since, !.got = config]

\* The copy is younger than a second.
Hit(c) ==
  LET p == At[c] IN
  /\ call[c].pc = "idle" /\ proc[p].cache.age = "new"
  /\ call' = [call EXCEPT ![c] =
       [IdleCall EXCEPT !.since = told[p], !.got = proc[p].cache.config]]
  /\ UNCHANGED <<db, proc, told, notifyVars, edits, faults>>

\* A load is under way: the call takes what that one returns.
Join(c) ==
  LET p == At[c] IN
  /\ call[c].pc = "idle" /\ proc[p].cache.age # "new" /\ proc[p].inFlight # Nobody
  /\ call' = [call EXCEPT ![c] = [IdleCall EXCEPT !.pc = "joined",
                !.load = proc[p].inFlight, !.since = told[p]]]
  /\ UNCHANGED <<db, proc, told, notifyVars, edits, faults>>

\* A load that is begun although another is under way.
BeginAlways(c) ==
  LET p == At[c] IN
  /\ call[c].pc = "idle" /\ proc[p].cache.age # "new"
  /\ call' = [call EXCEPT ![c] = [IdleCall EXCEPT !.pc = "settings",
                !.version = proc[p].version, !.since = told[p]]]
  /\ proc' = [proc EXCEPT ![p].inFlight = c]
  /\ UNCHANGED <<db, told, notifyVars, edits, faults>>

\* The call begins the load that others may join.
Begin(c) ==
  LET p == At[c] IN
  /\ call[c].pc = "idle" /\ proc[p].cache.age # "new" /\ proc[p].inFlight = Nobody
  /\ call' = [call EXCEPT ![c] = [IdleCall EXCEPT !.pc = "settings",
                !.version = proc[p].version, !.since = told[p]]]
  /\ proc' = [proc EXCEPT ![p].inFlight = c]
  /\ UNCHANGED <<db, told, notifyVars, edits, faults>>

ReadSettings(c) ==
  /\ call[c].pc = "settings"
  /\ call' = [call EXCEPT ![c].pc = "policy", ![c].read = db.settings]
  /\ UNCHANGED <<db, proc, told, notifyVars, edits, faults>>

\* Either query fails.
QueryFails(c) ==
  /\ call[c].pc \in {"settings", "policy"} /\ Fault
  /\ call' = [call EXCEPT ![c].pc = "failed"]
  /\ UNCHANGED <<db, proc, told, notifyVars, edits>>

\* A load that is stored whatever happened since it began.
StoreUnversioned(c, config) ==
  LET p == At[c] IN
  proc' = [proc EXCEPT
    ![p].cache = [age |-> "new", config |-> config],
    ![p].inFlight = IF @ = c THEN Nobody ELSE @]

\* The load is stored if no invalidation came since it began.
Store(c, config) ==
  LET p == At[c] IN
  proc' = [proc EXCEPT
    ![p].cache = IF proc[p].version = call[c].version
                 THEN [age |-> "new", config |-> config] ELSE @,
    ![p].inFlight = IF @ = c THEN Nobody ELSE @]

\* The load of c ends: c and the calls that joined it return the same.
LoadEnds(c, config) ==
  /\ Store(c, config)
  /\ call' = [d \in Callers |->
       IF d = c \/ call[d].load = c THEN Answer(d, config) ELSE call[d]]
  /\ UNCHANGED <<db, told, notifyVars, edits, faults>>

ReadPolicy(c) ==
  /\ call[c].pc = "policy"
  /\ LoadEnds(c, [settings |-> call[c].read, policy |-> db.policy])

\* After a failed query the copy serves once more, as a new one, or else the
\* defaults, which then are the copy.
FallBack(c) ==
  /\ call[c].pc = "failed"
  /\ LoadEnds(c, proc[At[c]].cache.config)

\* Defaults that are kept for good once they are the copy.
AgeOfLoaded(p) ==
  /\ proc[p].cache.age = "new" /\ proc[p].cache.config # Cold
  /\ proc' = [proc EXCEPT ![p].cache.age = "old"]
  /\ UNCHANGED <<db, call, told, notifyVars, edits, faults>>

\* A second has passed since the copy was stored.
Age(p) ==
  /\ proc[p].cache.age = "new"
  /\ proc' = [proc EXCEPT ![p].cache.age = "old"]
  /\ UNCHANGED <<db, call, told, notifyVars, edits, faults>>

-----------------------------------------------------------------------------
(***************************************************************************)
(* Edits and invalidateRuntimeCaches.                                      *)
(***************************************************************************)

\* The version is new for every scope; the copy and the load under way are
\* forgotten for the settings only.
Dropped(state, scope) ==
  IF scope = "settings"
  THEN [state EXCEPT !.version = @ + 1, !.cache = NoCopy, !.inFlight = Nobody]
  ELSE [state EXCEPT !.version = @ + 1]

\* What the process then knows of (history).
ToldOf(p, scope) ==
  told' = [told EXCEPT ![p] = IF scope = "settings" THEN db.settings ELSE @]

\* The publication reaches the processes that listen, except the sender; or it
\* fails, which is only logged.  Its delay is that of the inbox.
Publish(p, scope) ==
  \/ /\ inbox' = [q \in Processes |->
           IF q # p /\ listener[q] = "listening" THEN inbox[q] \union {scope}
                                                 ELSE inbox[q]]
     /\ UNCHANGED faults
  \/ Fault /\ UNCHANGED inbox

\* The console writes the proxy switch; the invalidation follows the await.
EditSettings(p) ==
  /\ Edit /\ proc[p].edit = "none"
  /\ db' = [db EXCEPT !.settings = @ + 1]
  /\ proc' = [proc EXCEPT ![p].edit = "written"]
  /\ UNCHANGED <<call, told, notifyVars, faults>>

InvalidateSettings(p) ==
  /\ proc[p].edit = "written"
  /\ proc' = [proc EXCEPT ![p] = [Dropped(@, "settings") EXCEPT !.edit = "none"]]
  /\ ToldOf(p, "settings")
  /\ Publish(p, "settings")
  /\ UNCHANGED <<db, call, listener, edits>>

\* Tokens or proxies are edited: only the version changes here.
InvalidateOther(p) ==
  /\ Edit
  /\ proc' = [proc EXCEPT ![p] = Dropped(@, "other")]
  /\ Publish(p, "other")
  /\ UNCHANGED <<db, call, told, listener>>

\* The policy is edited in the database: nobody is told.
EditPolicy ==
  /\ Edit
  /\ db' = [db EXCEPT !.policy = @ + 1]
  /\ UNCHANGED <<proc, call, told, notifyVars, faults>>

-----------------------------------------------------------------------------
(***************************************************************************)
(* NOTIFY and LISTEN.                                                      *)
(***************************************************************************)

Notified(p) ==
  \E scope \in inbox[p] :
    /\ inbox' = [inbox EXCEPT ![p] = @ \ {scope}]
    /\ proc' = [proc EXCEPT ![p] = Dropped(@, scope)]
    /\ ToldOf(p, scope)
    /\ UNCHANGED <<db, call, listener, edits, faults>>

Connected(p) ==
  /\ listener[p] = "connecting"
  /\ listener' = [listener EXCEPT ![p] = "listening"]
  /\ UNCHANGED <<db, proc, call, told, inbox, edits, faults>>

ConnectFails(p) ==
  /\ listener[p] = "connecting" /\ Fault
  /\ listener' = [listener EXCEPT ![p] = "timer"]
  /\ UNCHANGED <<db, proc, call, told, inbox, edits>>

\* The timer of scheduleReconnect: connect again.
TimerFires(p) ==
  /\ listener[p] = "timer"
  /\ listener' = [listener EXCEPT ![p] = "connecting"]
  /\ UNCHANGED <<db, proc, call, told, inbox, edits, faults>>

\* An established connection is lost: its error is logged and nothing connects
\* again; what was under way to it is lost too.
ListenerBreaks(p) ==
  /\ listener[p] = "listening" /\ Fault
  /\ listener' = [listener EXCEPT ![p] = "broken"]
  /\ inbox' = [inbox EXCEPT ![p] = {}]
  /\ UNCHANGED <<db, proc, call, told, edits>>

-----------------------------------------------------------------------------
CallStep(c) == Hit(c) \/ Join(c) \/ Begin(c)
LoadStep(c) == ReadSettings(c) \/ ReadPolicy(c) \/ FallBack(c)
NotifyStep(p) == Notified(p) \/ Connected(p) \/ TimerFires(p)

Next ==
  \/ \E c \in Callers : CallStep(c) \/ LoadStep(c) \/ QueryFails(c)
  \/ \E p \in Processes :
       \/ Age(p) \/ EditSettings(p) \/ InvalidateSettings(p) \/ InvalidateOther(p)
       \/ NotifyStep(p) \/ ConnectFails(p) \/ ListenerBreaks(p)
  \/ EditPolicy

Spec == Init /\ [][Next]_vars

\* Requests keep asking for the configuration, promises and timers settle, and
\* seconds pass.  Nothing is assumed of edits, notifications and faults.
FairSpec ==
  /\ Spec
  /\ \A c \in Callers : WF_vars(CallStep(c)) /\ WF_vars(LoadStep(c))
  /\ \A p \in Processes : WF_vars(Age(p)) /\ WF_vars(InvalidateSettings(p))

-----------------------------------------------------------------------------
(***************************************************************************)
(* Properties.                                                             *)
(***************************************************************************)

AtLeast(value, floor) == value = Defaults \/ value >= floor

\* What a caller sees of the caches: only its own calls, and what it was told.
Fresh == INSTANCE FreshReads WITH
  written <- db.settings, known <- told,
  asked   <- [c \in Callers |-> call[c].pc # "idle"],
  since   <- [c \in Callers |-> call[c].since],
  answer  <- [c \in Callers |-> call[c].got.settings]

\* PPOOL-0004: an invalidation takes effect at once.  The caches implement reads
\* that are fresh: a call that begins after the process was told of an edit, by
\* its own console or by a notification, never returns older settings, although
\* it may share the load of another call or fall back on a copy.
ReadsAreFresh == Fresh!Spec

\* What a process keeps never goes back in time, although nobody tells it of
\* most edits and loads overlap with each other and with invalidations.
NeverBackInTime ==
  [][\A p \in Processes :
       LET old == proc[p].cache  new == proc'[p].cache IN
       old.age # "none" /\ new.age # "none" =>
         /\ AtLeast(new.config.settings, old.config.settings)
         /\ AtLeast(new.config.policy, old.config.policy)]_vars

\* PPOOL-0004: the lifetime of the copy makes up for lost notifications, and
\* for copies of the defaults.  When edits are over every process comes to use
\* what the database holds.
EventuallyCurrent ==
  <>[](\A c \in Callers : call[c].pc = "idle" => call[c].got = db)
=============================================================================
