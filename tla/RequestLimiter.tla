-------------------------- MODULE RequestLimiter --------------------------
(***************************************************************************)
(* The limiters in front of the Pixiv API: one per proxy                   *)
(* (src/proxy/rateLimit.ts), one for the whole process and one per token   *)
(* (src/services/pixivService.ts).  The two files have the same acquire    *)
(* and release.  A request goes through stages: the proxy's limiter alone, *)
(* then the global and the token's together; each stage takes its slots in *)
(* order, waits until the limiters allow a start, and gives its slots back *)
(* when everything inside it has settled.                                  *)
(*                                                                         *)
(* A step is what runs between two awaits.  release wakes a waiter by      *)
(* resolving its promise: the waiter takes the slot in a later step.       *)
(***************************************************************************)
EXTENDS Integers, Sequences, FiniteSets

CONSTANTS
  Callers,      (* requests to Pixiv                                        *)
  Limiters,     (* proxies, the global limiter and tokens                   *)
  Plan,         (* the limiters of each caller: a sequence of stages        *)
  MaxInFlight,  (* slots per limiter; 0 is no limit                         *)
  Interval,     (* least time between two starts, per limiter               *)
  Retries       (* retryWithBackoff's retries of a failed request           *)

LimiterAssumption ==
  /\ IsFiniteSet(Callers)
  /\ Plan \in [Callers -> Seq(Seq(Limiters))]
  /\ \A c \in Callers :
       /\ Plan[c] # <<>>
       /\ \A s \in DOMAIN Plan[c] :
            /\ Plan[c][s] # <<>>
            /\ \A t \in DOMAIN Plan[c] :
                 \A i \in DOMAIN Plan[c][s], j \in DOMAIN Plan[c][t] :
                   Plan[c][s][i] = Plan[c][t][j] => s = t /\ i = j
  /\ MaxInFlight \in [Limiters -> Nat]
  /\ Interval \in [Limiters -> Nat]
  /\ Retries \in Nat

VARIABLES
  inFlight,   (* LimiterEntry.inFlight                                      *)
  waiters,    (* LimiterEntry.waiters, the callers whose promise is pending *)
  wait,       (* time until LimiterEntry.nextAt, 0 when it is past          *)
  call        (* where each caller is                                       *)

vars == <<inFlight, waiters, wait, call>>

PCs  == {"acquire", "queued", "woken", "pace", "sleep", "fetch", "release",
         "backoff", "done"}
Call == [pc: PCs, stage: Nat, held: Nat, sleep: Nat, att: 0..Retries]

Stage(c) == Plan[c][call[c].stage]          (* the limiters of its stage     *)
Want(c)  == Stage(c)[call[c].held + 1]      (* the limiter it takes next     *)
Members(s) == {s[i] : i \in DOMAIN s}

\* The limiters c holds a slot of.
Holds(c) ==
  (UNION {Members(Plan[c][s]) : s \in 1..(call[c].stage - 1)})
    \union {Stage(c)[i] : i \in 1..call[c].held}

Holders(l) == {c \in Callers : l \in Holds(c)}
Woken(l)   == {c \in Callers : call[c].pc = "woken" /\ Want(c) = l}

TypeOK ==
  /\ inFlight \in [Limiters -> Nat]
  /\ waiters \in [Limiters -> Seq(Callers)]
  /\ wait \in [Limiters -> Nat]
  /\ call \in [Callers -> Call]

Start == [pc |-> "acquire", stage |-> 1, held |-> 0, sleep |-> 0, att |-> 0]

Init ==
  /\ inFlight = [l \in Limiters |-> 0]
  /\ waiters = [l \in Limiters |-> <<>>]
  /\ wait = [l \in Limiters |-> 0]
  /\ call = [c \in Callers |-> Start]

-----------------------------------------------------------------------------
\* normalizeMaxInFlight: zero and less is no limit.
HasSlot(l) == MaxInFlight[l] = 0 \/ inFlight[l] < MaxInFlight[l]

\* What is next once c holds one more limiter of its stage.
Granted(c) ==
  [call[c] EXCEPT
     !.held = @ + 1,
     !.pc = IF call[c].held + 1 = Len(Stage(c)) THEN "pace" ELSE "acquire"]

\* An acquire that counts the caller also while it is queued.
AcquireCountsQueued(c) ==
  /\ call[c].pc = "acquire"
  /\ inFlight' = [inFlight EXCEPT ![Want(c)] = @ + 1]
  /\ IF HasSlot(Want(c))
     THEN call' = [call EXCEPT ![c] = Granted(c)] /\ UNCHANGED waiters
     ELSE /\ waiters' = [waiters EXCEPT ![Want(c)] = Append(@, c)]
          /\ call' = [call EXCEPT ![c].pc = "queued"]
  /\ UNCHANGED wait

\* acquire: a free slot is taken at once, whoever was woken for it.
Acquire(c) ==
  /\ call[c].pc = "acquire"
  /\ IF HasSlot(Want(c))
     THEN /\ inFlight' = [inFlight EXCEPT ![Want(c)] = @ + 1]
          /\ call' = [call EXCEPT ![c] = Granted(c)]
          /\ UNCHANGED waiters
     ELSE /\ waiters' = [waiters EXCEPT ![Want(c)] = Append(@, c)]
          /\ call' = [call EXCEPT ![c].pc = "queued"]
          /\ UNCHANGED inFlight
  /\ UNCHANGED wait

\* acquire, after its promise was resolved: takes a slot without looking.
TakeSlot(c) ==
  /\ call[c].pc = "woken"
  /\ inFlight' = [inFlight EXCEPT ![Want(c)] = @ + 1]
  /\ call' = [call EXCEPT ![c] = Granted(c)]
  /\ UNCHANGED <<waiters, wait>>

\* After its start in a stage: the next stage, or the request.
AfterStart(c) ==
  IF call[c].stage < Len(Plan[c])
  THEN [call[c] EXCEPT !.pc = "acquire", !.stage = @ + 1, !.held = 0, !.sleep = 0]
  ELSE [call[c] EXCEPT !.pc = "fetch", !.sleep = 0]

\* The limiters of the stage record the start.
Started(c) ==
  /\ wait' = [l \in Limiters |->
                IF l \in Members(Stage(c)) THEN Interval[l] ELSE wait[l]]
  /\ call' = [call EXCEPT ![c] = AfterStart(c)]
  /\ UNCHANGED <<inFlight, waiters>>

\* The longest wait any limiter of the stage asks for.
Pace(c) ==
  /\ call[c].pc = "pace"
  /\ \E w \in {wait[l] : l \in Members(Stage(c))} :
       /\ \A l \in Members(Stage(c)) : wait[l] <= w
       /\ \/ w = 0 /\ Started(c)
          \/ /\ w > 0
             /\ call' = [call EXCEPT ![c].pc = "sleep", ![c].sleep = w]
             /\ UNCHANGED <<inFlight, waiters, wait>>

\* After the sleep the request starts: nextAt is not looked at again.
SleepEnds(c) ==
  /\ call[c].pc = "sleep" /\ call[c].sleep = 0
  /\ Started(c)

\* The caller that each limiter of ls wakes.
NextInLine(ls) == {Head(waiters[l]) : l \in {m \in ls : waiters[m] # <<>>}}

\* What the end of c's stage makes of c: outer stages are left in later steps;
\* after the outermost the request is over, or is retried.
Leaving(c) ==
  IF call[c].stage > 1
  THEN {[call[c] EXCEPT !.pc = "release", !.stage = @ - 1,
                        !.held = Len(Plan[c][call[c].stage - 1])]}
  ELSE {[call[c] EXCEPT !.pc = "done", !.held = 0]} \union
       (IF call[c].att < Retries
        THEN {[call[c] EXCEPT !.pc = "backoff", !.held = 0]} ELSE {})

\* A release that forgets to wake a waiter.
ReleaseWakesNobody(c) ==
  LET ls == Members(Stage(c)) IN
  /\ call[c].pc \in {"fetch", "release"}
  /\ inFlight' = [l \in Limiters |-> IF l \in ls THEN inFlight[l] - 1
                                                 ELSE inFlight[l]]
  /\ \E r \in Leaving(c) : call' = [call EXCEPT ![c] = r]
  /\ UNCHANGED <<waiters, wait>>

\* release: the slots of the stage are free, and each wakes its first waiter.
Release(c) ==
  LET ls == Members(Stage(c)) IN
  /\ call[c].pc \in {"fetch", "release"}
  /\ inFlight' = [l \in Limiters |-> IF l \in ls /\ inFlight[l] > 0
                                     THEN inFlight[l] - 1 ELSE inFlight[l]]
  /\ waiters' = [l \in Limiters |-> IF l \in ls /\ waiters[l] # <<>>
                                    THEN Tail(waiters[l]) ELSE waiters[l]]
  /\ \E r \in Leaving(c) :
       call' = [d \in Callers |-> IF d = c THEN r
                  ELSE IF d \in NextInLine(ls) THEN [call[d] EXCEPT !.pc = "woken"]
                  ELSE call[d]]
  /\ UNCHANGED wait

\* A retry that forgets to count.
RetryUncounted(c) ==
  /\ call[c].pc = "backoff"
  /\ call' = [call EXCEPT ![c] = Start]
  /\ UNCHANGED <<inFlight, waiters, wait>>

\* retryWithBackoff calls again, through all the limiters.
Retry(c) ==
  /\ call[c].pc = "backoff"
  /\ call' = [call EXCEPT ![c] = [Start EXCEPT !.att = call[c].att + 1]]
  /\ UNCHANGED <<inFlight, waiters, wait>>

Less(n) == IF n > 0 THEN n - 1 ELSE 0

\* Time passes, while it makes a difference.
TimePasses ==
  /\ \/ \E l \in Limiters : wait[l] > 0
     \/ \E c \in Callers : call[c].sleep > 0
  /\ wait' = [l \in Limiters |-> Less(wait[l])]
  /\ call' = [c \in Callers |-> [call[c] EXCEPT !.sleep = Less(@)]]
  /\ UNCHANGED <<inFlight, waiters>>

-----------------------------------------------------------------------------
Step(c) ==
  \/ Acquire(c) \/ TakeSlot(c) \/ Pace(c) \/ SleepEnds(c) \/ Release(c) \/ Retry(c)

Next == (\E c \in Callers : Step(c)) \/ TimePasses

Spec == Init /\ [][Next]_vars

\* Microtasks run, timers fire and requests settle (they have a timeout): something
\* happens while anything can.
FairSpec == Spec /\ WF_vars(Next)

-----------------------------------------------------------------------------
(***************************************************************************)
(* Properties.                                                             *)
(***************************************************************************)

\* Each limiter counts exactly the callers that hold one of its slots, and nobody
\* waits for a slot that is free and promised to nobody: no path through two
\* stages, retries and wake-ups loses, leaks or forgets a slot.
SlotsAccounted ==
  \A l \in Limiters :
    /\ inFlight[l] = Cardinality(Holders(l))
    /\ waiters[l] # <<>> => inFlight[l] + Cardinality(Woken(l)) >= MaxInFlight[l]

\* Nested waiting neither deadlocks nor loses a wake-up: every request ends.
Ended(c)      == call[c].pc = "done"
EveryCallEnds == \A c \in Callers : <>Ended(c)
=============================================================================
