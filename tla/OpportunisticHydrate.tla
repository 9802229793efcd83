------------------------ MODULE OpportunisticHydrate ------------------------
(***************************************************************************)
(* Hydration on demand: an image that is served without all its metadata   *)
(* has its illust hydrated in the background                               *)
(* (src/hydration/opportunisticHydrate.ts), at most once in a while and at *)
(* most so many in a window, over a queue that is started when it is first *)
(* needed (src/queue/queue.ts).  One process.  A step is what runs between *)
(* two awaits.                                                             *)
(*                                                                         *)
(* Times are ages: Tick makes everything one older, and an age that makes  *)
(* no difference any more stays as it is.  A call remembers the time from  *)
(* before it awaits the configuration, and is answered within Latency.     *)
(***************************************************************************)
EXTENDS Integers, FiniteSets

CONSTANTS
  Illusts,     (* illusts with an image that is not hydrated                *)
  Calls,       (* calls of scheduleOpportunisticHydrate under way at once   *)
  Ttl,         (* DEFAULT_DEDUPE_TTL_MS                                     *)
  Window,      (* DEFAULT_WINDOW_MS                                         *)
  MaxPerWindow,
  MaxTracked,  (* MAX_TRACKED_ILLUSTS                                       *)
  Latency,     (* how old the time of a call is at most when it is used     *)
  RetryLimit,  (* how often the queue retries a job                         *)
  MaxFaults,   (* bound: failed queries, starts, sends and jobs             *)
  MaxToggles   (* bound: changes of the setting                             *)

OpportunisticAssumption ==
  /\ IsFiniteSet(Illusts) /\ Illusts # {} /\ IsFiniteSet(Calls)
  /\ Ttl \in Nat /\ Window \in Nat \ {0} /\ MaxPerWindow \in Nat \ {0}
  /\ MaxTracked \in Nat /\ Latency \in 0..(Window - 1)
  /\ RetryLimit \in Nat /\ MaxFaults \in Nat /\ MaxToggles \in Nat

VARIABLES
  on,        (* the setting opportunistic_hydrate                           *)
  dedupe,    (* ages of what the map remembers, or Never                    *)
  window,    (* windowStart as an age, and windowCount                      *)
  call,      (* the calls                                                   *)
  boss,      (* the process's pg-boss                                       *)
  job,       (* the hydrate_metadata job of each illust, by its retries     *)
  hydrated,  (* illusts whose metadata is there                             *)
  last,      (* age of the last hydration scheduled of each illust          *)
  forgot,    (* illusts the map has forgotten since then                    *)
  recent,    (* how many were scheduled at each age below Window            *)
  faults, toggles

quota == <<dedupe, window>>
queue == <<boss, job>>
seen  == <<last, forgot, recent>>
vars  == <<on, quota, call, queue, hydrated, seen, faults, toggles>>

Never == -1
None  == -1                           (* no job                             *)
IdleCall == [pc |-> "idle", illust |-> CHOOSE i \in Illusts : TRUE, age |-> 0]

Older(age, cap) == IF age = Never \/ age = cap THEN age ELSE age + 1
Total(f, k) == LET sum[n \in 0..k] == IF n = 0 THEN 0 ELSE sum[n - 1] + f[n - 1] IN sum[k]

TypeOK ==
  /\ on \in BOOLEAN
  /\ dedupe \in [Illusts -> {Never} \union 0..(Ttl + Latency)]
  /\ window \in [age: {Never} \union 0..(Window + Latency), count: 0..MaxPerWindow]
  /\ call \in [Calls -> [pc: {"idle", "config", "start", "create", "send"},
                         illust: Illusts, age: 0..Latency]]
  /\ boss \in {"none", "starting", "up"}
  /\ job \in [Illusts -> {None} \union 0..RetryLimit]
  /\ hydrated \subseteq Illusts /\ forgot \subseteq Illusts
  /\ last \in [Illusts -> {Never} \union 0..Ttl]
  /\ recent \in [0..(Window - 1) -> Nat]
  /\ faults \in 0..MaxFaults /\ toggles \in 0..MaxToggles

Init ==
  /\ on = TRUE
  /\ dedupe = [i \in Illusts |-> Never] /\ window = [age |-> Never, count |-> 0]
  /\ call = [c \in Calls |-> IdleCall]
  /\ boss = "none"
  /\ job = [i \in Illusts |-> None] /\ hydrated = {}
  /\ last = [i \in Illusts |-> Never] /\ forgot = {}
  /\ recent = [n \in 0..(Window - 1) |-> 0]
  /\ faults = 0 /\ toggles = 0

Fault == faults < MaxFaults /\ faults' = faults + 1
Goto(c, pc) == call' = [call EXCEPT ![c].pc = pc]
Return(c) == call' = [call EXCEPT ![c] = IdleCall]

-----------------------------------------------------------------------------
(* scheduleOpportunisticHydrate.                                           *)

\* An image of an illust is served that is isOpportunisticHydrateCandidate.
Serve(c, i) ==
  /\ call[c].pc = "idle" /\ i \notin hydrated
  /\ call' = [call EXCEPT ![c] = [pc |-> "config", illust |-> i, age |-> 0]]
  /\ UNCHANGED <<on, quota, queue, hydrated, seen, faults, toggles>>

\* The map after i is remembered at a time: with too many illusts those past
\* their time are dropped, and then all.
Remember(i, age) ==
  LET map   == [dedupe EXCEPT ![i] = age]
      size(m) == Cardinality({j \in Illusts : m[j] # Never})
      young == [j \in Illusts |-> IF map[j] - age > Ttl THEN Never ELSE map[j]]
  IN IF size(map) <= MaxTracked THEN map
     ELSE IF size(young) <= MaxTracked THEN young
     ELSE [j \in Illusts |-> Never]

\* Mutant: the window restarts before it is over.
RestartedEarly(w, age) ==
  IF w.age = Never \/ w.age - age >= Window - 1 THEN [age |-> age, count |-> 0] ELSE w

\* Mutant: the window restarts, its count does not.
RestartedKeepsCount(w, age) ==
  IF w.age = Never \/ w.age - age >= Window THEN [w EXCEPT !.age = age] ELSE w

\* consumeQuota: the window starts anew if it is over at the time of the call.
Restarted(w, age) ==
  IF w.age = Never \/ w.age - age >= Window THEN [age |-> age, count |-> 0] ELSE w

\* Mutant: the time of an entry is taken for seconds.
DedupedBriefly(i, age) == dedupe[i] # Never /\ dedupe[i] - age <= 0

Deduped(i, age) == dedupe[i] # Never /\ dedupe[i] - age < Ttl

\* The configuration is there: the call takes its quota and sends a job, for
\* which nobody waits, or ends.
Scheduled(c, i, age) ==
  /\ ~Deduped(i, age) /\ Restarted(window, age).count < MaxPerWindow
  /\ window' = [Restarted(window, age) EXCEPT !.count = @ + 1]
  /\ dedupe' = Remember(i, age)
  /\ last' = [last EXCEPT ![i] = 0]
  /\ forgot' = (forgot \ {i}) \union {j \in Illusts : dedupe'[j] = Never}
  /\ recent' = [recent EXCEPT ![0] = @ + 1]
  /\ Goto(c, "start")

Refused(c, i, age) ==
  /\ \/ Deduped(i, age) /\ UNCHANGED window
     \/ /\ ~Deduped(i, age) /\ Restarted(window, age).count >= MaxPerWindow
        /\ window' = Restarted(window, age)
  /\ Return(c)
  /\ UNCHANGED <<dedupe, seen>>

ConfigRead(c) ==
  /\ call[c].pc = "config" /\ on
  /\ Scheduled(c, call[c].illust, call[c].age) \/ Refused(c, call[c].illust, call[c].age)
  /\ UNCHANGED <<on, queue, hydrated, faults, toggles>>

\* The setting is off, or the configuration cannot be read.
ConfigRefuses(c) ==
  /\ call[c].pc = "config"
  /\ (~on /\ UNCHANGED faults) \/ Fault
  /\ Return(c)
  /\ UNCHANGED <<on, quota, queue, hydrated, seen, toggles>>

-----------------------------------------------------------------------------
(* enqueue, with the start of the queue that all callers share.            *)

StartQueue(c) ==
  /\ call[c].pc = "start" /\ boss # "starting"
  /\ IF boss = "up" THEN Goto(c, "create") /\ UNCHANGED boss
     ELSE boss' = "starting" /\ UNCHANGED call
  /\ UNCHANGED <<on, quota, job, hydrated, seen, faults, toggles>>

\* boss.start() is done, and every caller that waits for it goes on ...
QueueStarted ==
  /\ boss = "starting" /\ boss' = "up"
  /\ call' = [c \in Calls |-> IF call[c].pc = "start" THEN [call[c] EXCEPT !.pc = "create"]
                                                      ELSE call[c]]
  /\ UNCHANGED <<on, quota, job, hydrated, seen, faults, toggles>>

\* ... or it fails, for all of them.  The next caller tries again.
StartFails ==
  /\ boss = "starting" /\ Fault
  /\ boss' = "none"
  /\ call' = [c \in Calls |-> IF call[c].pc = "start" THEN IdleCall ELSE call[c]]
  /\ UNCHANGED <<on, quota, job, hydrated, seen, toggles>>

\* ensureQueueCreatedWithBoss: the dead-letter queue and the queue, which are
\* there from then on; asking for them again changes nothing.
CreateQueues(c) ==
  /\ call[c].pc = "create" /\ Goto(c, "send")
  /\ UNCHANGED <<on, quota, queue, hydrated, seen, faults, toggles>>

\* Jobs of an illust that wait together count as one.
Send(c) ==
  /\ call[c].pc = "send" /\ Return(c)
  /\ job' = [job EXCEPT ![call[c].illust] = 0]
  /\ UNCHANGED <<on, quota, boss, hydrated, seen, faults, toggles>>

\* What is awaited fails: nobody hears of it, and the quota stays spent.
EnqueueFails(c) ==
  /\ call[c].pc \in {"create", "send"} /\ Fault
  /\ Return(c)
  /\ UNCHANGED <<on, quota, queue, hydrated, seen, toggles>>

-----------------------------------------------------------------------------
(* The worker of hydrate_metadata, whose writes are in MetadataHydration.  *)

JobDone(i) ==
  /\ job[i] # None
  /\ job' = [job EXCEPT ![i] = None] /\ hydrated' = hydrated \union {i}
  /\ UNCHANGED <<on, quota, call, boss, seen, faults, toggles>>

\* A job that fails once more than it is retried is dead-lettered.
JobFails(i) ==
  /\ job[i] # None /\ Fault
  /\ job' = [job EXCEPT ![i] = IF @ < RetryLimit THEN @ + 1 ELSE None]
  /\ UNCHANGED <<on, quota, call, boss, hydrated, seen, toggles>>

-----------------------------------------------------------------------------
Toggle ==
  /\ toggles < MaxToggles /\ toggles' = toggles + 1
  /\ on' = ~on
  /\ UNCHANGED <<quota, call, queue, hydrated, seen, faults>>

Tick ==
  /\ \A c \in Calls : call[c].pc = "config" => call[c].age < Latency
  /\ dedupe' = [i \in Illusts |-> Older(dedupe[i], Ttl + Latency)]
  /\ window' = [window EXCEPT !.age = Older(@, Window + Latency)]
  /\ call' = [c \in Calls |-> IF call[c].pc = "config" THEN [call[c] EXCEPT !.age = @ + 1]
                                                       ELSE call[c]]
  /\ last' = [i \in Illusts |-> Older(last[i], Ttl)]
  /\ recent' = [n \in 0..(Window - 1) |-> IF n = 0 THEN 0 ELSE recent[n - 1]]
  /\ UNCHANGED <<on, queue, hydrated, forgot, faults, toggles>>

CallStep(c) == ConfigRead(c) \/ StartQueue(c) \/ CreateQueues(c) \/ Send(c)

Next ==
  \/ \E c \in Calls, i \in Illusts : Serve(c, i)
  \/ \E c \in Calls : CallStep(c) \/ ConfigRefuses(c) \/ EnqueueFails(c)
  \/ QueueStarted \/ StartFails
  \/ \E i \in Illusts : JobDone(i) \/ JobFails(i)
  \/ Toggle \/ Tick

Spec == Init /\ [][Next]_vars

-----------------------------------------------------------------------------
(* Properties.                                                             *)

\* However the calls interleave and whatever their time was, no stretch of a window
\* less what the time of a call can be old has more than twice MaxPerWindow
\* hydrations, and none as long as a window three times as many: the fixed window of
\* consumeQuota lets through what two of them hold, and late calls of a third.
Span == IF Latency = 0 THEN Window ELSE Window + 1 - Latency
QuotaHolds ==
  /\ Total(recent, Span) <= 2 * MaxPerWindow
  /\ Total(recent, Window) < 3 * MaxPerWindow

\* An illust is not scheduled twice within the time of its entry, less what the
\* time of a call can be old, unless the map overflowed and forgot it.
ScheduledAnew ==
  \A c \in Calls : call[c].pc = "config" /\ call'[c].pc = "start" =>
    LET i == call[c].illust
    IN last[i] = Never \/ last[i] >= Ttl - Latency \/ i \in forgot
NotTwice == [][ScheduledAnew]_vars
=============================================================================
