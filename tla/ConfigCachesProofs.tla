------------------------- MODULE ConfigCachesProofs -------------------------
(***************************************************************************)
(* Theorems about ConfigCaches for any processes, any calls and any number *)
(* of edits and faults: types, that what a process keeps never goes back   *)
(* in time, and that the caches implement FreshReads.                      *)
(***************************************************************************)
EXTENDS ConfigCaches, TLAPS

USE CachesAssumption DEF CachesAssumption

-----------------------------------------------------------------------------
(***************************************************************************)
(* Types.                                                                  *)
(***************************************************************************)

LEMMA ValuesAreIntegers ==
  /\ Defaults \in Int /\ Defaults < 0 /\ Nat \subseteq Values
  /\ \A v \in Values : v \in Int /\ v >= Defaults
BY DEF Values, Defaults

LEMMA ProcFields ==
  ASSUME TypeOK, NEW p \in Processes
  PROVE  /\ proc[p] \in Process /\ proc[p].version \in Nat
         /\ proc[p].cache \in Copy /\ proc[p].cache.config \in Config
         /\ proc[p].cache.config.settings \in Values
         /\ proc[p].cache.config.policy \in Values
         /\ proc[p].cache.age \in {"none", "new", "old"}
         /\ proc[p].inFlight \in Callers \union {Nobody}
         /\ told[p] \in Nat /\ db.settings \in Nat /\ db.policy \in Nat
BY DEF TypeOK, Process, Copy, Config

LEMMA CallFields ==
  ASSUME TypeOK, NEW c \in Callers
  PROVE  /\ call[c] \in Call /\ At[c] \in Processes
         /\ call[c].since \in Nat /\ call[c].version \in Nat
         /\ call[c].read \in Values /\ call[c].got \in Config
         /\ call[c].load \in Callers \union {Nobody}
         /\ call[c].pc \in {"idle", "settings", "policy", "failed", "joined"}
BY DEF TypeOK, Call

LEMMA ColdType == Cold \in Config /\ NoCopy \in Copy
BY ValuesAreIntegers DEF Cold, NoCopy, Copy, Config, Values

LEMMA IdleCallType == IdleCall \in Call
BY ColdType DEF IdleCall, Call, Values

LEMMA AnswerFields ==
  ASSUME TypeOK, NEW c \in Callers, NEW config \in Config
  PROVE  /\ Answer(c, config) \in Call
         /\ Answer(c, config).since = call[c].since
         /\ Answer(c, config).pc = "idle" /\ Answer(c, config).load = Nobody
         /\ Answer(c, config).version = 0 /\ Answer(c, config).got = config
BY IdleCallType, CallFields DEF Answer, Call, IdleCall

LEMMA DroppedFields ==
  ASSUME NEW state \in Process, NEW scope \in Scopes
  PROVE  /\ Dropped(state, scope) \in Process
         /\ Dropped(state, scope).version = state.version + 1
         /\ Dropped(state, scope).edit = state.edit
         /\ scope = "settings" =>
              /\ Dropped(state, scope).cache = NoCopy
              /\ Dropped(state, scope).inFlight = Nobody
         /\ scope # "settings" =>
              /\ Dropped(state, scope).cache = state.cache
              /\ Dropped(state, scope).inFlight = state.inFlight
<1>1. state.version + 1 \in Nat
  BY DEF Process
<1>2. [state EXCEPT !.version = @ + 1] \in Process
  BY <1>1 DEF Process
<1>3. [state EXCEPT !.version = @ + 1, !.cache = NoCopy, !.inFlight = Nobody]
        \in Process
  BY <1>1, ColdType DEF Process
<1> QED
  BY <1>2, <1>3 DEF Dropped, Process

\* What storing a load makes of its process.
LEMMA StoreFields ==
  ASSUME TypeOK, NEW c \in Callers, NEW config \in Config, Store(c, config)
  PROVE  LET p == At[c]
             new == [age |-> "new", config |-> config]
         IN  /\ proc' \in [Processes -> Process]
             /\ \A q \in Processes \ {p} : proc'[q] = proc[q]
             /\ proc'[p].version = proc[p].version
             /\ proc'[p].edit = proc[p].edit
             /\ proc'[p].cache =
                  IF proc[p].version = call[c].version THEN new ELSE proc[p].cache
             /\ proc'[p].inFlight =
                  IF proc[p].inFlight = c THEN Nobody ELSE proc[p].inFlight
<1> DEFINE p == At[c]
           new == [age |-> "new", config |-> config]
           cache == IF proc[p].version = call[c].version THEN new ELSE proc[p].cache
           inFlight == IF proc[p].inFlight = c THEN Nobody ELSE proc[p].inFlight
<1>1. p \in Processes /\ proc[p] \in Process
  BY CallFields, ProcFields
<1>2. new \in Copy
  BY DEF Copy
<1>3. cache \in Copy /\ inFlight \in Callers \union {Nobody}
  BY <1>1, <1>2, ProcFields
<1>4. proc' = [proc EXCEPT ![p] = [proc[p] EXCEPT !.cache = cache, !.inFlight = inFlight]]
  BY <1>1 DEF Store, TypeOK
<1> HIDE DEF cache, inFlight
<1>5. [proc[p] EXCEPT !.cache = cache, !.inFlight = inFlight] \in Process
  BY <1>1, <1>3 DEF Process
<1>6. /\ proc' \in [Processes -> Process]
      /\ \A q \in Processes \ {p} : proc'[q] = proc[q]
      /\ proc'[p] = [proc[p] EXCEPT !.cache = cache, !.inFlight = inFlight]
  BY <1>1, <1>4, <1>5 DEF TypeOK
<1>7. /\ proc'[p].version = proc[p].version /\ proc'[p].edit = proc[p].edit
      /\ proc'[p].cache = cache /\ proc'[p].inFlight = inFlight
  BY <1>1, <1>6 DEF Process
<1> QED
  BY <1>6, <1>7 DEF cache, inFlight

-----------------------------------------------------------------------------
(***************************************************************************)
(* The inductive invariant.                                                *)
(***************************************************************************)

Loads(c) == call[c].pc \in {"settings", "policy", "failed"}

\* The copy of a process is no older than what the process was told of.
CopyFresh ==
  \A p \in Processes :
    LET config == proc[p].cache.config IN
    /\ told[p] <= db.settings
    /\ AtLeast(config.settings, told[p])
    /\ config.settings <= db.settings /\ config.policy <= db.policy

\* A call began no later than its process was told last.  What a load has read
\* is no older than what the process knew when the load began.
CallsFresh ==
  \A c \in Callers :
    /\ call[c].since <= told[At[c]]
    /\ call[c].version <= proc[At[c]].version
    /\ call[c].pc = "policy" => call[c].since <= call[c].read /\ call[c].read <= db.settings

\* A call waits for a load of its process that began with the same knowledge.
JoinedRight(c) ==
  /\ (call[c].load # Nobody) <=> (call[c].pc = "joined")
  /\ call[c].pc = "joined" =>
       LET d == call[c].load IN
       Loads(d) /\ At[d] = At[c] /\ call[d].since = call[c].since
JoinedToLoad == \A c \in Callers : JoinedRight(c)

\* The load that others may join began after the process was told last, and
\* what it has read is no older than the copy.
InFlightFresh ==
  \A p \in Processes :
    LET c == proc[p].inFlight IN
    c # Nobody =>
      /\ At[c] = p /\ Loads(c) /\ call[c].since = told[p]
      /\ call[c].pc = "policy" => proc[p].cache.config.settings <= call[c].read

\* A load that is going to be stored is the one that others may join.
StoredIsInFlight ==
  \A c \in Callers :
    Loads(c) /\ call[c].version = proc[At[c]].version => proc[At[c]].inFlight = c

\* The inductive invariant.
CachesInv ==
  TypeOK /\ CopyFresh /\ CallsFresh /\ JoinedToLoad /\ InFlightFresh /\ StoredIsInFlight

LEMMA InitInv == Init => CachesInv
<1> SUFFICES ASSUME Init PROVE CachesInv
  OBVIOUS
<1>1. \A p \in Processes :
        /\ proc[p] = [version |-> 0, cache |-> NoCopy, inFlight |-> Nobody, edit |-> "none"]
        /\ told[p] = 0 /\ db.settings = 0 /\ db.policy = 0
        /\ proc[p].cache.config.settings = Defaults
        /\ proc[p].cache.config.policy = Defaults /\ proc[p].inFlight = Nobody
  BY DEF Init, NoCopy, Cold
<1>2. \A c \in Callers :
        /\ call[c] = IdleCall /\ call[c].pc = "idle" /\ call[c].load = Nobody
        /\ call[c].since = 0 /\ call[c].version = 0
  BY DEF Init, IdleCall
<1>3. TypeOK
  <2>1. proc \in [Processes -> Process]
    BY ColdType DEF Init, Process
  <2>2. call \in [Callers -> Call]
    BY IdleCallType DEF Init
  <2> QED
    BY <2>1, <2>2 DEF Init, TypeOK
<1>4. CopyFresh
  <2>1. Defaults <= 0
    BY DEF Defaults
  <2>2. \A p \in Processes :
          /\ told[p] = 0 /\ proc[p].cache.config.settings = Defaults
          /\ proc[p].cache.config.policy = Defaults
          /\ db.settings = 0 /\ db.policy = 0
    BY <1>1
  <2>3. ASSUME NEW p \in Processes
        PROVE  /\ told[p] <= db.settings
               /\ AtLeast(proc[p].cache.config.settings, told[p])
               /\ proc[p].cache.config.settings <= db.settings
               /\ proc[p].cache.config.policy <= db.policy
    <3>1. told[p] <= db.settings
      BY <2>2
    <3>2. AtLeast(proc[p].cache.config.settings, told[p])
      BY <2>2 DEF AtLeast
    <3>3. proc[p].cache.config.settings <= db.settings
      BY <2>1, <2>2, ValuesAreIntegers
    <3>4. proc[p].cache.config.policy <= db.policy
      BY <2>1, <2>2, ValuesAreIntegers
    <3> QED
      BY <3>1, <3>2, <3>3, <3>4
  <2> QED
    BY <2>3 DEF CopyFresh
<1>5. CallsFresh
  BY <1>1, <1>2 DEF CallsFresh, Init
<1> QED
  BY <1>1, <1>2, <1>3, <1>4, <1>5
  DEF CachesInv, JoinedToLoad, JoinedRight, InFlightFresh, StoredIsInFlight, Loads

-----------------------------------------------------------------------------
(***************************************************************************)
(* Calls begin.                                                            *)
(***************************************************************************)

\* A call that is answered from the copy or joins a load changes itself only.
LEMMA CallBegins ==
  ASSUME CachesInv, NEW c \in Callers, call[c].pc = "idle",
         NEW new \in Call, call' = [call EXCEPT ![c] = new],
         UNCHANGED <<db, proc, told, notifyVars, edits, faults>>,
         new.since = told[At[c]], new.version = 0,
         \/ new.pc = "idle" /\ new.load = Nobody
         \/ /\ new.pc = "joined" /\ new.load = proc[At[c]].inFlight
            /\ new.load # Nobody
  PROVE  CachesInv'
<1>1. /\ call' \in [Callers -> Call] /\ call'[c] = new
      /\ \A d \in Callers \ {c} : call'[d] = call[d]
  BY DEF CachesInv, TypeOK
<1>2. TypeOK /\ At[c] \in Processes
  BY CallFields DEF CachesInv
<1>3. TypeOK'
  BY <1>1, <1>2 DEF TypeOK, notifyVars
<1>4. CopyFresh'
  BY DEF CachesInv, CopyFresh
<1>5. CallsFresh'
  BY <1>1, <1>2, ProcFields DEF CachesInv, CallsFresh
<1>6. \A d \in Callers : d # c /\ Loads(d) => Loads(d)' /\ call'[d] = call[d]
  BY <1>1 DEF Loads
<1>7. \A d \in Callers : Loads(d) => d # c
  BY DEF Loads
<1>8. ~Loads(c)'
  BY <1>1 DEF Loads
<1>9. JoinedToLoad'
  <2>1. ASSUME NEW d \in Callers, d # c
        PROVE  JoinedRight(d)'
    <3>1. call'[d] = call[d] /\ JoinedRight(d)
      BY <1>1, <2>1 DEF CachesInv, JoinedToLoad
    <3>2. CASE call[d].pc = "joined"
      <4>1. call[d].load \in Callers /\ Loads(call[d].load)
        BY <1>2, <3>1, <3>2, CallFields DEF JoinedRight
      <4> QED
        BY <1>6, <1>7, <3>1, <3>2, <4>1 DEF JoinedRight
    <3> QED
      BY <3>1, <3>2 DEF JoinedRight
  <2>2. JoinedRight(c)'
    <3>1. CASE new.pc = "joined"
      <4>1. new.load \in Callers /\ new.load = proc[At[c]].inFlight
        BY <1>2, <3>1, ProcFields
      <4>2. Loads(new.load) /\ At[new.load] = At[c] /\ call[new.load].since = told[At[c]]
        BY <1>2, <4>1 DEF CachesInv, InFlightFresh
      <4> QED
        BY <1>1, <1>6, <1>7, <3>1, <4>1, <4>2 DEF JoinedRight
    <3> QED
      BY <1>1, <3>1 DEF JoinedRight
  <2> QED
    BY <2>1, <2>2 DEF JoinedToLoad
<1>10. InFlightFresh'
  BY <1>1, <1>2, <1>6, <1>7, ProcFields DEF CachesInv, InFlightFresh
<1>11. StoredIsInFlight'
  BY <1>1, <1>8 DEF CachesInv, StoredIsInFlight, Loads
<1> QED
  BY <1>3, <1>4, <1>5, <1>9, <1>10, <1>11 DEF CachesInv

LEMMA HitInv ==
  ASSUME CachesInv, NEW c \in Callers, Hit(c)
  PROVE  CachesInv'
<1> DEFINE p == At[c]
           new == [IdleCall EXCEPT !.since = told[p], !.got = proc[p].cache.config]
<1>1. TypeOK /\ p \in Processes
  BY CallFields DEF CachesInv
<1>2. /\ new \in Call /\ new.since = told[p] /\ new.version = 0
      /\ new.pc = "idle" /\ new.load = Nobody
  BY <1>1, IdleCallType, ProcFields DEF IdleCall, Call
<1>3. call' = [call EXCEPT ![c] = new] /\ call[c].pc = "idle"
  BY DEF Hit
<1> HIDE DEF new
<1> QED
  BY <1>2, <1>3, CallBegins DEF Hit

LEMMA JoinInv ==
  ASSUME CachesInv, NEW c \in Callers, Join(c)
  PROVE  CachesInv'
<1> DEFINE p == At[c]
           new == [IdleCall EXCEPT !.pc = "joined", !.load = proc[p].inFlight,
                                   !.since = told[p]]
<1>1. TypeOK /\ p \in Processes
  BY CallFields DEF CachesInv
<1>2. /\ new \in Call /\ new.since = told[p] /\ new.version = 0
      /\ new.pc = "joined" /\ new.load = proc[p].inFlight
  BY <1>1, IdleCallType, ProcFields DEF IdleCall, Call
<1>3. /\ call' = [call EXCEPT ![c] = new] /\ call[c].pc = "idle"
      /\ proc[p].inFlight # Nobody
  BY DEF Join
<1> HIDE DEF new
<1> QED
  BY <1>2, <1>3, CallBegins DEF Join

LEMMA BeginInv ==
  ASSUME CachesInv, NEW c \in Callers, Begin(c)
  PROVE  CachesInv'
<1> DEFINE p == At[c]
           new == [IdleCall EXCEPT !.pc = "settings", !.version = proc[p].version,
                                   !.since = told[p]]
<1>1. TypeOK /\ p \in Processes
  BY CallFields DEF CachesInv
<1>2. /\ new \in Call /\ new.since = told[p] /\ new.version = proc[p].version
      /\ new.pc = "settings" /\ new.load = Nobody
  BY <1>1, IdleCallType, ProcFields DEF IdleCall, Call
<1>3. /\ call' = [call EXCEPT ![c] = new] /\ call[c].pc = "idle"
      /\ proc' = [proc EXCEPT ![p].inFlight = c] /\ proc[p].inFlight = Nobody
      /\ UNCHANGED <<db, told, notifyVars, edits, faults>>
  BY DEF Begin
<1> HIDE DEF new
<1>4. /\ call' \in [Callers -> Call] /\ call'[c] = new
      /\ \A d \in Callers \ {c} : call'[d] = call[d]
  BY <1>1, <1>2, <1>3 DEF TypeOK
<1>5. /\ proc' \in [Processes -> Process]
      /\ \A q \in Processes \ {p} : proc'[q] = proc[q]
      /\ proc'[p].inFlight = c /\ proc'[p].version = proc[p].version
      /\ proc'[p].cache = proc[p].cache
  BY <1>1, <1>3, ProcFields DEF TypeOK, Process
<1>6. \A q \in Processes : proc'[q].version = proc[q].version /\ proc'[q].cache = proc[q].cache
  BY <1>5
<1>7. TypeOK'
  BY <1>1, <1>3, <1>4, <1>5 DEF TypeOK, notifyVars
<1>8. CopyFresh'
  BY <1>3, <1>6 DEF CachesInv, CopyFresh
<1>9. CallsFresh'
  BY <1>1, <1>2, <1>3, <1>4, <1>6, CallFields, ProcFields DEF CachesInv, CallsFresh
<1>10. \A d \in Callers : Loads(d) => d # c /\ Loads(d)' /\ call'[d] = call[d]
  BY <1>3, <1>4 DEF Loads
<1>11. JoinedToLoad'
  BY <1>2, <1>3, <1>4, <1>10, CallFields DEF CachesInv, JoinedToLoad, JoinedRight
<1>12. InFlightFresh'
  <2>1. Loads(c)' /\ call'[c].since = told'[p] /\ call'[c].pc # "policy"
    BY <1>2, <1>3, <1>4 DEF Loads
  <2> QED
    BY <1>1, <1>3, <1>5, <1>10, <2>1, ProcFields DEF CachesInv, InFlightFresh
<1>13. StoredIsInFlight'
  <2>1. ASSUME NEW d \in Callers, Loads(d)', call'[d].version = proc'[At[d]].version
        PROVE  proc'[At[d]].inFlight = d
    <3>1. CASE d = c
      BY <1>5, <3>1
    <3>2. CASE d # c
      <4>1. proc[At[d]].inFlight = d
        BY <1>4, <1>6, <2>1, <3>2, CallFields, <1>1 DEF CachesInv, StoredIsInFlight, Loads
      <4> QED
        BY <1>1, <1>3, <1>5, <4>1, CallFields
    <3> QED
      BY <3>1, <3>2
  <2> QED
    BY <2>1 DEF StoredIsInFlight
<1> QED
  BY <1>7, <1>8, <1>9, <1>11, <1>12, <1>13 DEF CachesInv

-----------------------------------------------------------------------------
(***************************************************************************)
(* Loads go on and end.                                                    *)
(***************************************************************************)

\* A load that goes on remains a load with the same version and knowledge.
LEMMA LoadGoesOn ==
  ASSUME CachesInv, NEW c \in Callers, Loads(c),
         NEW new \in Call, call' = [call EXCEPT ![c] = new],
         UNCHANGED <<db, proc, told, notifyVars, edits>>, faults' \in 0..MaxFaults,
         new.since = call[c].since, new.version = call[c].version,
         new.load = call[c].load, new.pc \in {"policy", "failed"},
         new.pc = "policy" => new.read = db.settings
  PROVE  CachesInv'
<1>1. /\ call' \in [Callers -> Call] /\ call'[c] = new
      /\ \A d \in Callers \ {c} : call'[d] = call[d]
  BY DEF CachesInv, TypeOK
<1>2. TypeOK /\ At[c] \in Processes
  BY CallFields DEF CachesInv
<1>3. TypeOK'
  BY <1>1, <1>2 DEF TypeOK, notifyVars
<1>4. CopyFresh'
  BY DEF CachesInv, CopyFresh
<1>5. call[c].since <= told[At[c]] /\ told[At[c]] <= db.settings
  BY <1>2 DEF CachesInv, CallsFresh, CopyFresh
<1>6. CallsFresh'
  BY <1>1, <1>2, <1>5, CallFields, ProcFields DEF CachesInv, CallsFresh
<1>7. \A d \in Callers : /\ Loads(d) <=> Loads(d)'
                         /\ call'[d].since = call[d].since
                         /\ call'[d].version = call[d].version
                         /\ call'[d].load = call[d].load
                         /\ (call[d].pc = "joined") <=> (call'[d].pc = "joined")
  BY <1>1 DEF Loads
<1>8. JoinedToLoad'
  BY <1>2, <1>7, CallFields DEF CachesInv, JoinedToLoad, JoinedRight
<1>9. InFlightFresh'
  <2>1. ASSUME NEW p \in Processes, proc[p].inFlight = c, new.pc = "policy"
        PROVE  proc[p].cache.config.settings <= new.read
    BY <2>1 DEF CachesInv, CopyFresh
  <2> QED
    BY <1>1, <1>2, <1>7, <2>1, ProcFields DEF CachesInv, InFlightFresh
<1>10. StoredIsInFlight'
  BY <1>7 DEF CachesInv, StoredIsInFlight
<1> QED
  BY <1>3, <1>4, <1>6, <1>8, <1>9, <1>10 DEF CachesInv

LEMMA ReadSettingsInv ==
  ASSUME CachesInv, NEW c \in Callers, ReadSettings(c)
  PROVE  CachesInv'
<1> DEFINE new == [call[c] EXCEPT !.pc = "policy", !.read = db.settings]
<1>1. TypeOK /\ db.settings \in Values
  BY CallFields, ProcFields, ValuesAreIntegers DEF CachesInv
<1>2. /\ new \in Call /\ new.since = call[c].since /\ new.version = call[c].version
      /\ new.load = call[c].load /\ new.pc = "policy" /\ new.read = db.settings
  BY <1>1, CallFields DEF Call
<1>3. call' = [call EXCEPT ![c] = new] /\ Loads(c)
  BY <1>1 DEF ReadSettings, Loads, TypeOK
<1>4. faults' \in 0..MaxFaults
  BY <1>1 DEF ReadSettings, TypeOK
<1> HIDE DEF new
<1> QED
  BY <1>2, <1>3, <1>4, LoadGoesOn DEF ReadSettings

LEMMA QueryFailsInv ==
  ASSUME CachesInv, NEW c \in Callers, QueryFails(c)
  PROVE  CachesInv'
<1> DEFINE new == [call[c] EXCEPT !.pc = "failed"]
<1>1. TypeOK
  BY DEF CachesInv
<1>2. /\ new \in Call /\ new.since = call[c].since /\ new.version = call[c].version
      /\ new.load = call[c].load /\ new.pc = "failed"
  BY <1>1, CallFields DEF Call
<1>3. call' = [call EXCEPT ![c] = new] /\ Loads(c)
  BY <1>1 DEF QueryFails, Loads, TypeOK
<1>4. faults' \in 0..MaxFaults
  BY <1>1 DEF QueryFails, Fault, TypeOK
<1> HIDE DEF new
<1> QED
  BY <1>2, <1>3, <1>4, LoadGoesOn DEF QueryFails

\* What a load may end with.
Loaded(c, config) ==
  /\ config \in Config
  /\ config.settings <= db.settings /\ config.policy <= db.policy
  /\ AtLeast(config.settings, call[c].since)
  /\ proc[At[c]].version = call[c].version =>
       /\ AtLeast(config.settings, told[At[c]])
       /\ AtLeast(config.settings, proc[At[c]].cache.config.settings)
       /\ AtLeast(config.policy, proc[At[c]].cache.config.policy)

LEMMA ReadPolicyLoaded ==
  ASSUME CachesInv, NEW c \in Callers, ReadPolicy(c)
  PROVE  /\ Loads(c) /\ Loaded(c, [settings |-> call[c].read, policy |-> db.policy])
         /\ LoadEnds(c, [settings |-> call[c].read, policy |-> db.policy])
<1>1. TypeOK /\ At[c] \in Processes /\ call[c].pc = "policy" /\ Loads(c)
  BY CallFields DEF CachesInv, ReadPolicy, Loads
<1>2. call[c].since <= call[c].read /\ call[c].read <= db.settings
  BY <1>1 DEF CachesInv, CallsFresh
<1>3. ASSUME proc[At[c]].version = call[c].version
      PROVE  /\ told[At[c]] <= call[c].read
             /\ proc[At[c]].cache.config.settings <= call[c].read
  <2>1. proc[At[c]].inFlight = c
    BY <1>1, <1>3 DEF CachesInv, StoredIsInFlight
  <2> QED
    BY <1>1, <1>2, <2>1 DEF CachesInv, InFlightFresh
<1>4. proc[At[c]].cache.config.policy <= db.policy
  BY <1>1 DEF CachesInv, CopyFresh
<1>5. [settings |-> call[c].read, policy |-> db.policy] \in Config
  BY <1>1, CallFields, ProcFields, ValuesAreIntegers DEF Config
<1>6. /\ AtLeast(call[c].read, call[c].since) /\ AtLeast(db.policy, proc[At[c]].cache.config.policy)
      /\ db.policy <= db.policy
  BY <1>1, <1>2, <1>4, CallFields, ProcFields, ValuesAreIntegers DEF AtLeast
<1>7. proc[At[c]].version = call[c].version =>
        /\ AtLeast(call[c].read, told[At[c]])
        /\ AtLeast(call[c].read, proc[At[c]].cache.config.settings)
  BY <1>1, <1>3, CallFields, ProcFields, ValuesAreIntegers DEF AtLeast
<1> QED
  BY <1>1, <1>2, <1>5, <1>6, <1>7 DEF Loaded, ReadPolicy

LEMMA FallBackLoaded ==
  ASSUME CachesInv, NEW c \in Callers, FallBack(c)
  PROVE  /\ Loads(c) /\ Loaded(c, proc[At[c]].cache.config)
         /\ LoadEnds(c, proc[At[c]].cache.config)
<1> DEFINE config == proc[At[c]].cache.config
<1>1. TypeOK /\ At[c] \in Processes /\ Loads(c)
  BY CallFields DEF CachesInv, FallBack, Loads
<1>2. config \in Config /\ config.settings \in Values /\ config.policy \in Values
  BY <1>1, ProcFields
<1>3. /\ config.settings <= db.settings /\ config.policy <= db.policy
      /\ AtLeast(config.settings, told[At[c]])
  BY <1>1 DEF CachesInv, CopyFresh
<1>4. call[c].since <= told[At[c]]
  BY DEF CachesInv, CallsFresh
<1>5. /\ AtLeast(config.settings, call[c].since)
      /\ AtLeast(config.settings, config.settings)
      /\ AtLeast(config.policy, config.policy)
  BY <1>1, <1>2, <1>3, <1>4, CallFields, ProcFields, ValuesAreIntegers DEF AtLeast
<1> QED
  BY <1>1, <1>2, <1>3, <1>5 DEF Loaded, FallBack

LEMMA LoadEndsInv ==
  ASSUME CachesInv, NEW c \in Callers, NEW config, Loads(c), Loaded(c, config),
         LoadEnds(c, config)
  PROVE  CachesInv'
<1> DEFINE p == At[c]
           ended(d) == d = c \/ call[d].load = c
<1>1. TypeOK /\ p \in Processes /\ config \in Config
  BY CallFields DEF CachesInv, Loaded
<1>2. /\ proc' \in [Processes -> Process]
      /\ \A q \in Processes \ {p} : proc'[q] = proc[q]
      /\ proc'[p].version = proc[p].version
      /\ proc'[p].cache = IF proc[p].version = call[c].version
                          THEN [age |-> "new", config |-> config] ELSE proc[p].cache
      /\ proc'[p].inFlight = IF proc[p].inFlight = c THEN Nobody ELSE proc[p].inFlight
  BY <1>1, StoreFields DEF LoadEnds
<1>3. /\ \A d \in Callers : call'[d] = IF ended(d) THEN Answer(d, config) ELSE call[d]
      /\ UNCHANGED <<db, told, notifyVars, edits, faults>>
  BY DEF LoadEnds
<1>4. call' \in [Callers -> Call]
  <2>1. \A d \in Callers : Answer(d, config) \in Call /\ call[d] \in Call
    BY <1>1, AnswerFields, CallFields
  <2> QED
    BY <2>1 DEF LoadEnds
<1>5. \A d \in Callers : ended(d) =>
        /\ call'[d].since = call[d].since /\ call'[d].pc = "idle"
        /\ call'[d].load = Nobody /\ call'[d].version = 0 /\ ~Loads(d)'
  BY <1>1, <1>3, AnswerFields DEF Loads
<1>6. \A d \in Callers : ~ended(d) => call'[d] = call[d] /\ (Loads(d) <=> Loads(d)')
  BY <1>3 DEF Loads
<1>7. \A q \in Processes : proc'[q].version = proc[q].version
  BY <1>2
<1>8. /\ \A q \in Processes \ {p} : proc'[q].cache.config = proc[q].cache.config
      /\ \/ proc'[p].cache.config = proc[p].cache.config
         \/ proc'[p].cache.config = config /\ proc[p].version = call[c].version
  BY <1>2
<1> HIDE DEF ended
<1>9. TypeOK'
  BY <1>1, <1>2, <1>3, <1>4 DEF TypeOK, notifyVars
<1>10. CopyFresh'
  BY <1>1, <1>3, <1>8 DEF CachesInv, CopyFresh, Loaded
<1>11. CallsFresh'
  BY <1>1, <1>3, <1>5, <1>6, <1>7, CallFields, ProcFields DEF CachesInv, CallsFresh
<1>12. JoinedToLoad'
  <2>1. ASSUME NEW d \in Callers PROVE JoinedRight(d)'
    <3>1. CASE ended(d)
      BY <1>5, <3>1 DEF JoinedRight
    <3>2. CASE ~ended(d)
      <4>1. call'[d] = call[d] /\ JoinedRight(d)
        BY <1>6, <3>2 DEF CachesInv, JoinedToLoad
      <4>2. CASE call[d].pc = "joined"
        <5> DEFINE e == call[d].load
        <5>1. e \in Callers /\ Loads(e) /\ e # c
          BY <1>1, <3>2, <4>1, <4>2, CallFields DEF JoinedRight, ended
        <5>2. JoinedRight(e) /\ call[e].pc # "joined"
          BY <5>1 DEF CachesInv, JoinedToLoad, Loads
        <5>3. ~ended(e)
          BY <5>1, <5>2, <1>1 DEF ended, JoinedRight
        <5> QED
          BY <1>6, <4>1, <4>2, <5>1, <5>3 DEF JoinedRight
      <4> QED
        BY <4>1, <4>2 DEF JoinedRight
    <3> QED
      BY <3>1, <3>2
  <2> QED
    BY <2>1 DEF JoinedToLoad
<1>13. \A d \in Callers : Loads(d) /\ d # c => ~ended(d)
  BY <1>1 DEF CachesInv, JoinedToLoad, JoinedRight, Loads, ended
<1>14. InFlightFresh'
  <2>1. ASSUME NEW q \in Processes, proc'[q].inFlight # Nobody
        PROVE  LET d == proc[q].inFlight IN
               /\ proc'[q].inFlight = d /\ At[d] = q /\ Loads(d)' /\ call'[d] = call[d]
               /\ call[d].since = told'[q]
               /\ call[d].pc = "policy" => proc'[q].cache.config.settings <= call[d].read
    <3> DEFINE d == proc[q].inFlight
    <3>1. proc'[q].inFlight = d /\ d \in Callers
      BY <1>1, <1>2, <2>1, ProcFields
    <3>2. /\ At[d] = q /\ Loads(d) /\ call[d].since = told[q]
          /\ call[d].pc = "policy" => proc[q].cache.config.settings <= call[d].read
      BY <2>1, <3>1 DEF CachesInv, InFlightFresh
    <3>3. d # c
      BY <1>2, <2>1, <3>1, <3>2
    <3>4. proc'[q].cache = proc[q].cache
      <4>1. CASE q = p
        <5>1. proc[p].version # call[c].version
          BY <3>3, <4>1 DEF CachesInv, StoredIsInFlight
        <5> QED
          BY <1>2, <4>1, <5>1
      <4> QED
        BY <1>2, <4>1
    <3> QED
      BY <1>3, <1>6, <1>13, <3>1, <3>2, <3>3, <3>4
  <2> QED
    BY <2>1 DEF InFlightFresh
<1>15. StoredIsInFlight'
  <2>1. ASSUME NEW d \in Callers, Loads(d)', call'[d].version = proc'[At[d]].version
        PROVE  proc'[At[d]].inFlight = d
    <3>1. ~ended(d) /\ d # c
      BY <1>5, <2>1 DEF ended
    <3>2. proc[At[d]].inFlight = d
      BY <1>6, <1>7, <2>1, <3>1 DEF CachesInv, StoredIsInFlight
    <3> QED
      BY <1>2, <3>1, <3>2
  <2> QED
    BY <2>1 DEF StoredIsInFlight
<1> QED
  BY <1>9, <1>10, <1>11, <1>12, <1>14, <1>15 DEF CachesInv

-----------------------------------------------------------------------------
(***************************************************************************)
(* Time passes, edits and invalidations.                                   *)
(***************************************************************************)

LEMMA AgeInv ==
  ASSUME CachesInv, NEW p \in Processes, Age(p)
  PROVE  CachesInv'
<1> DEFINE new == [proc[p] EXCEPT !.cache.age = "old"]
<1>1. TypeOK
  BY DEF CachesInv
<1>2. [proc[p].cache EXCEPT !.age = "old"] \in Copy
  BY <1>1, ProcFields DEF Copy
<1>3. /\ new \in Process /\ new.version = proc[p].version
      /\ new.cache.config = proc[p].cache.config /\ new.inFlight = proc[p].inFlight
  BY <1>1, <1>2, ProcFields DEF Process, Copy
<1>4. proc' = [proc EXCEPT ![p] = new] /\ UNCHANGED <<db, call, told, notifyVars, edits, faults>>
  BY <1>1 DEF Age, TypeOK
<1> HIDE DEF new
<1>5. /\ proc' \in [Processes -> Process]
      /\ \A q \in Processes : /\ proc'[q].version = proc[q].version
                              /\ proc'[q].cache.config = proc[q].cache.config
                              /\ proc'[q].inFlight = proc[q].inFlight
  BY <1>1, <1>3, <1>4 DEF TypeOK
<1>6. TypeOK'
  BY <1>1, <1>4, <1>5 DEF TypeOK, notifyVars
<1>7. CopyFresh' /\ InFlightFresh'
  BY <1>4, <1>5 DEF CachesInv, CopyFresh, InFlightFresh, Loads
<1>8. CallsFresh' /\ StoredIsInFlight'
  BY <1>1, <1>4, <1>5, CallFields DEF CachesInv, CallsFresh, StoredIsInFlight, Loads
<1>9. JoinedToLoad'
  BY <1>4 DEF CachesInv, JoinedToLoad, JoinedRight, Loads
<1> QED
  BY <1>6, <1>7, <1>8, <1>9 DEF CachesInv

\* The database moves on.
LEMMA DatabaseMoves ==
  ASSUME CachesInv, TypeOK', UNCHANGED <<call, told>>,
         db.settings <= db'.settings, db.policy <= db'.policy,
         \A q \in Processes : /\ proc'[q].version = proc[q].version
                              /\ proc'[q].cache = proc[q].cache
                              /\ proc'[q].inFlight = proc[q].inFlight
  PROVE  CachesInv'
<1>1. TypeOK /\ db'.settings \in Nat /\ db'.policy \in Nat
  BY DEF CachesInv, TypeOK
<1>2. \A q \in Processes :
        /\ told[q] \in Int /\ db.settings \in Int /\ db.policy \in Int
        /\ proc[q].cache.config.settings \in Int /\ proc[q].cache.config.policy \in Int
  BY <1>1, ProcFields, ValuesAreIntegers
<1>3. CopyFresh'
  BY <1>1, <1>2 DEF CachesInv, CopyFresh
<1>4. CallsFresh'
  BY <1>1, CallFields, ProcFields, ValuesAreIntegers DEF CachesInv, CallsFresh
<1>5. InFlightFresh'
  BY DEF CachesInv, InFlightFresh, Loads
<1>6. StoredIsInFlight'
  BY <1>1, CallFields DEF CachesInv, StoredIsInFlight, Loads
<1>7. JoinedToLoad'
  BY DEF CachesInv, JoinedToLoad, JoinedRight, Loads
<1> QED
  BY <1>3, <1>4, <1>5, <1>6, <1>7 DEF CachesInv

LEMMA EditSettingsInv ==
  ASSUME CachesInv, NEW p \in Processes, EditSettings(p)
  PROVE  CachesInv' /\ told' = told
<1> DEFINE new == [proc[p] EXCEPT !.edit = "written"]
<1>1. TypeOK
  BY DEF CachesInv
<1>2. /\ new \in Process /\ new.version = proc[p].version
      /\ new.cache = proc[p].cache /\ new.inFlight = proc[p].inFlight
  BY <1>1, ProcFields DEF Process
<1>3. proc' = [proc EXCEPT ![p] = new]
  BY <1>1 DEF EditSettings, TypeOK
<1> HIDE DEF new
<1>4. proc' \in [Processes -> Process]
  BY <1>1, <1>2, <1>3 DEF TypeOK
<1>5. \A q \in Processes : /\ proc'[q].version = proc[q].version
                           /\ proc'[q].cache = proc[q].cache
                           /\ proc'[q].inFlight = proc[q].inFlight
  BY <1>1, <1>2, <1>3 DEF TypeOK
<1>6. /\ db' \in [settings: Nat, policy: Nat]
      /\ db.settings <= db'.settings /\ db.policy <= db'.policy
  BY <1>1, ProcFields DEF EditSettings, TypeOK
<1>7. edits' \in 0..MaxEdits /\ UNCHANGED <<call, told, listener, inbox, faults>>
  BY <1>1 DEF EditSettings, Edit, TypeOK, notifyVars
<1>8. TypeOK'
  BY <1>1, <1>4, <1>6, <1>7 DEF TypeOK
<1> QED
  BY <1>5, <1>6, <1>7, <1>8, DatabaseMoves

LEMMA EditPolicyInv ==
  ASSUME CachesInv, EditPolicy
  PROVE  CachesInv'
<1>1. TypeOK
  BY DEF CachesInv
<1>2. /\ db' \in [settings: Nat, policy: Nat]
      /\ db.settings <= db'.settings /\ db.policy <= db'.policy
  BY <1>1 DEF EditPolicy, TypeOK
<1>3. edits' \in 0..MaxEdits /\ UNCHANGED <<proc, call, told, listener, inbox, faults>>
  BY <1>1 DEF EditPolicy, Edit, TypeOK, notifyVars
<1>4. TypeOK'
  BY <1>1, <1>2, <1>3 DEF TypeOK
<1> QED
  BY <1>2, <1>3, <1>4, DatabaseMoves

\* A process drops what it has for the scope.
Drops(p, scope) ==
  /\ proc'[p].version = proc[p].version + 1
  /\ IF scope = "settings"
     THEN proc'[p].cache = NoCopy /\ proc'[p].inFlight = Nobody
     ELSE proc'[p].cache = proc[p].cache /\ proc'[p].inFlight = proc[p].inFlight
  /\ \A q \in Processes \ {p} : proc'[q] = proc[q]
  /\ ToldOf(p, scope)
  /\ UNCHANGED <<db, call>>

LEMMA DropsInv ==
  ASSUME CachesInv, TypeOK', NEW p \in Processes, NEW scope \in Scopes,
         Drops(p, scope)
  PROVE  CachesInv'
<1>1. TypeOK
  BY DEF CachesInv
<1>2. /\ told[p] <= told'[p] /\ told'[p] <= db.settings
      /\ told'[p] = IF scope = "settings" THEN db.settings ELSE told[p]
      /\ \A q \in Processes \ {p} : told'[q] = told[q]
  BY <1>1, ProcFields DEF CachesInv, CopyFresh, Drops, ToldOf, TypeOK
<1>3. CopyFresh'
  <2>1. ASSUME NEW q \in Processes
        PROVE  /\ told'[q] <= db'.settings
               /\ AtLeast(proc'[q].cache.config.settings, told'[q])
               /\ proc'[q].cache.config.settings <= db'.settings
               /\ proc'[q].cache.config.policy <= db'.policy
    <3>1. CASE q = p /\ scope = "settings"
      <4>1. /\ proc'[q].cache.config.settings = Defaults
            /\ proc'[q].cache.config.policy = Defaults
        BY <3>1 DEF Drops, NoCopy, Cold
      <4>2. Defaults <= db.settings /\ Defaults <= db.policy
        BY <1>1, ProcFields, ValuesAreIntegers
      <4> QED
        BY <1>2, <3>1, <4>1, <4>2 DEF Drops, AtLeast
    <3>2. CASE ~(q = p /\ scope = "settings")
      <4>1. proc'[q].cache = proc[q].cache /\ told'[q] = told[q] /\ db' = db
        BY <1>2, <3>2 DEF Drops
      <4> QED
        BY <4>1 DEF CachesInv, CopyFresh
    <3> QED
      BY <3>1, <3>2
  <2> QED
    BY <2>1 DEF CopyFresh
<1>4. CallsFresh'
  <2>1. ASSUME NEW c \in Callers
        PROVE  /\ told[At[c]] <= told'[At[c]]
               /\ proc[At[c]].version <= proc'[At[c]].version
    BY <1>1, <1>2, CallFields, ProcFields DEF Drops
  <2>2. ASSUME NEW c \in Callers
        PROVE  /\ call[c].since \in Int /\ call[c].version \in Int
               /\ told[At[c]] \in Int /\ told'[At[c]] \in Int
               /\ proc[At[c]].version \in Int /\ proc'[At[c]].version \in Int
    BY <1>1, CallFields, ProcFields DEF TypeOK, Process
  <2>3. call' = call /\ db' = db
    BY DEF Drops
  <2> QED
    BY <2>1, <2>2, <2>3 DEF CachesInv, CallsFresh
<1>5. JoinedToLoad'
  BY DEF CachesInv, JoinedToLoad, JoinedRight, Loads, Drops
<1>6. InFlightFresh'
  <2>1. ASSUME NEW q \in Processes, proc'[q].inFlight # Nobody
        PROVE  /\ proc'[q].inFlight = proc[q].inFlight /\ proc'[q].cache = proc[q].cache
               /\ told'[q] = told[q]
    BY <1>2, <2>1 DEF Drops
  <2> QED
    BY <2>1 DEF CachesInv, InFlightFresh, Loads, Drops
<1>7. StoredIsInFlight'
  <2>1. ASSUME NEW c \in Callers, call[c].version = proc'[At[c]].version
        PROVE  proc'[At[c]] = proc[At[c]]
    <3>1. call[c].version <= proc[At[c]].version
      BY DEF CachesInv, CallsFresh
    <3> QED
      BY <1>1, <2>1, <3>1, CallFields, ProcFields DEF Drops
  <2> QED
    BY <2>1 DEF CachesInv, StoredIsInFlight, Loads, Drops
<1> QED
  BY <1>3, <1>4, <1>5, <1>6, <1>7 DEF CachesInv

LEMMA ToldType ==
  ASSUME TypeOK, NEW p \in Processes, NEW scope, ToldOf(p, scope)
  PROVE  told' \in [Processes -> Nat]
BY ProcFields DEF ToldOf, TypeOK

LEMMA PublishType ==
  ASSUME TypeOK, NEW p \in Processes, NEW scope \in Scopes, Publish(p, scope)
  PROVE  inbox' \in [Processes -> SUBSET Scopes] /\ faults' \in 0..MaxFaults
<1>1. \A q \in Processes : inbox[q] \in SUBSET Scopes /\ inbox[q] \union {scope} \in SUBSET Scopes
  BY DEF TypeOK
<1> QED
  BY <1>1 DEF Publish, Fault, TypeOK

LEMMA InvalidateSettingsDrops ==
  ASSUME CachesInv, NEW p \in Processes, InvalidateSettings(p)
  PROVE  TypeOK' /\ Drops(p, "settings")
<1> DEFINE new == [Dropped(proc[p], "settings") EXCEPT !.edit = "none"]
<1>1. TypeOK /\ "settings" \in Scopes
  BY DEF CachesInv, Scopes
<1>2. /\ new \in Process /\ new.version = proc[p].version + 1
      /\ new.cache = NoCopy /\ new.inFlight = Nobody
  BY <1>1, ProcFields, DroppedFields DEF Process
<1>3. proc' = [proc EXCEPT ![p] = new]
  BY <1>1 DEF InvalidateSettings, TypeOK
<1> HIDE DEF new
<1>4. /\ proc' \in [Processes -> Process] /\ proc'[p] = new
      /\ \A q \in Processes \ {p} : proc'[q] = proc[q]
  BY <1>1, <1>2, <1>3 DEF TypeOK
<1>5. TypeOK'
  BY <1>1, <1>4, ToldType, PublishType DEF InvalidateSettings, TypeOK
<1> QED
  BY <1>2, <1>4, <1>5 DEF Drops, InvalidateSettings

LEMMA InvalidateOtherDrops ==
  ASSUME CachesInv, NEW p \in Processes, InvalidateOther(p)
  PROVE  TypeOK' /\ Drops(p, "other")
<1> DEFINE new == Dropped(proc[p], "other")
<1>1. TypeOK /\ "other" \in Scopes /\ "other" # "settings"
  BY DEF CachesInv, Scopes
<1>2. /\ new \in Process /\ new.version = proc[p].version + 1
      /\ new.cache = proc[p].cache /\ new.inFlight = proc[p].inFlight
  BY <1>1, ProcFields, DroppedFields
<1>3. proc' = [proc EXCEPT ![p] = new]
  BY <1>1 DEF InvalidateOther, TypeOK
<1> HIDE DEF new
<1>4. /\ proc' \in [Processes -> Process] /\ proc'[p] = new
      /\ \A q \in Processes \ {p} : proc'[q] = proc[q]
  BY <1>1, <1>2, <1>3 DEF TypeOK
<1>5. edits' \in 0..MaxEdits
  BY <1>1 DEF InvalidateOther, Edit, TypeOK
<1>6. TypeOK'
  BY <1>1, <1>4, <1>5, PublishType DEF InvalidateOther, TypeOK
<1>7. ToldOf(p, "other")
  BY <1>1 DEF InvalidateOther, ToldOf, TypeOK
<1> QED
  BY <1>1, <1>2, <1>4, <1>6, <1>7 DEF Drops, InvalidateOther

LEMMA NotifiedDrops ==
  ASSUME CachesInv, NEW p \in Processes, Notified(p)
  PROVE  TypeOK' /\ \E scope \in Scopes : Drops(p, scope)
<1>1. TypeOK
  BY DEF CachesInv
<1>2. PICK scope \in inbox[p] :
        /\ inbox' = [inbox EXCEPT ![p] = @ \ {scope}]
        /\ proc' = [proc EXCEPT ![p] = Dropped(@, scope)]
        /\ ToldOf(p, scope)
        /\ UNCHANGED <<db, call, listener, edits, faults>>
  BY DEF Notified
<1> DEFINE new == Dropped(proc[p], scope)
<1>3. scope \in Scopes /\ inbox[p] \ {scope} \in SUBSET Scopes
  BY <1>1 DEF TypeOK
<1>4. /\ new \in Process /\ new.version = proc[p].version + 1
      /\ scope = "settings" => new.cache = NoCopy /\ new.inFlight = Nobody
      /\ scope # "settings" => /\ new.cache = proc[p].cache
                               /\ new.inFlight = proc[p].inFlight
  BY <1>1, <1>3, ProcFields, DroppedFields
<1>5. proc' = [proc EXCEPT ![p] = new]
  BY <1>2
<1> HIDE DEF new
<1>6. /\ proc' \in [Processes -> Process] /\ proc'[p] = new
      /\ \A q \in Processes \ {p} : proc'[q] = proc[q]
  BY <1>1, <1>4, <1>5 DEF TypeOK
<1>7. TypeOK'
  BY <1>1, <1>2, <1>3, <1>6, ToldType DEF TypeOK
<1>8. Drops(p, scope)
  BY <1>2, <1>4, <1>6 DEF Drops
<1> QED
  BY <1>3, <1>7, <1>8

\* What is done about the listeners leaves the caches alone.
LEMMA ListenerInv ==
  ASSUME CachesInv, NEW p \in Processes,
         Connected(p) \/ ConnectFails(p) \/ TimerFires(p) \/ ListenerBreaks(p)
  PROVE  CachesInv' /\ UNCHANGED <<db, proc, call, told>>
<1>1. TypeOK
  BY DEF CachesInv
<1>2. UNCHANGED <<db, proc, call, told, edits>>
  BY DEF Connected, ConnectFails, TimerFires, ListenerBreaks
<1>3. /\ listener' \in [Processes -> {"connecting", "listening", "timer", "broken"}]
      /\ inbox' \in [Processes -> SUBSET Scopes] /\ faults' \in 0..MaxFaults
  BY <1>1 DEF Connected, ConnectFails, TimerFires, ListenerBreaks, Fault, TypeOK
<1>4. TypeOK'
  BY <1>1, <1>2, <1>3 DEF TypeOK
<1> QED
  BY <1>2, <1>4 DEF CachesInv, CopyFresh, CallsFresh, JoinedToLoad, JoinedRight,
                    InFlightFresh, StoredIsInFlight, Loads

-----------------------------------------------------------------------------
(***************************************************************************)
(* The invariant is one, and types are correct.                            *)
(***************************************************************************)

LEMMA InvStep == CachesInv /\ [Next]_vars => CachesInv'
<1> SUFFICES ASSUME CachesInv, [Next]_vars PROVE CachesInv'
  OBVIOUS
<1>1. CASE UNCHANGED vars
  BY <1>1 DEF vars, notifyVars, CachesInv, TypeOK, CopyFresh, CallsFresh,
              JoinedToLoad, JoinedRight, InFlightFresh, StoredIsInFlight, Loads
<1>2. ASSUME NEW c \in Callers, CallStep(c) PROVE CachesInv'
  BY <1>2, HitInv, JoinInv, BeginInv DEF CallStep
<1>3. ASSUME NEW c \in Callers, LoadStep(c) PROVE CachesInv'
  <2>1. CASE ReadSettings(c)
    BY <2>1, ReadSettingsInv
  <2>2. CASE ReadPolicy(c)
    BY <2>2, ReadPolicyLoaded, LoadEndsInv
  <2>3. CASE FallBack(c)
    BY <2>3, FallBackLoaded, LoadEndsInv
  <2> QED
    BY <1>3, <2>1, <2>2, <2>3 DEF LoadStep
<1>4. ASSUME NEW c \in Callers, QueryFails(c) PROVE CachesInv'
  BY <1>4, QueryFailsInv
<1>5. ASSUME NEW p \in Processes, Age(p) PROVE CachesInv'
  BY <1>5, AgeInv
<1>6. ASSUME NEW p \in Processes, EditSettings(p) PROVE CachesInv'
  BY <1>6, EditSettingsInv
<1>7. ASSUME NEW p \in Processes, InvalidateSettings(p) PROVE CachesInv'
  BY <1>7, InvalidateSettingsDrops, DropsInv DEF Scopes
<1>8. ASSUME NEW p \in Processes, InvalidateOther(p) PROVE CachesInv'
  BY <1>8, InvalidateOtherDrops, DropsInv DEF Scopes
<1>9. ASSUME NEW p \in Processes, Notified(p) PROVE CachesInv'
  BY <1>9, NotifiedDrops, DropsInv
<1>10. ASSUME NEW p \in Processes,
              Connected(p) \/ TimerFires(p) \/ ConnectFails(p) \/ ListenerBreaks(p)
       PROVE  CachesInv'
  BY <1>10, ListenerInv
<1>11. ASSUME EditPolicy PROVE CachesInv'
  BY <1>11, EditPolicyInv
<1> QED
  BY <1>1, <1>2, <1>3, <1>4, <1>5, <1>6, <1>7, <1>8, <1>9, <1>10, <1>11
  DEF Next, NotifyStep

LEMMA AlwaysInv == Spec => []CachesInv
<1> QED
  BY InitInv, InvStep, PTL DEF Spec

\* The copies, the calls, the listeners and the inboxes keep their types, for any
\* processes and calls and any number of edits and faults.
THEOREM TypeCorrect == Spec => []TypeOK
<1>1. CachesInv => TypeOK
  BY DEF CachesInv
<1> QED
  BY <1>1, AlwaysInv, PTL

-----------------------------------------------------------------------------
(***************************************************************************)
(* What a process keeps never goes back in time.                           *)
(***************************************************************************)

\* The copy of p that a step leaves is not older than the one it found.
KeptInTime(p) ==
  LET old == proc[p].cache  new == proc'[p].cache IN
  old.age # "none" /\ new.age # "none" =>
    /\ AtLeast(new.config.settings, old.config.settings)
    /\ AtLeast(new.config.policy, old.config.policy)

LEMMA SameConfigKept ==
  ASSUME TypeOK, NEW p \in Processes, proc'[p].cache.config = proc[p].cache.config
  PROVE  KeptInTime(p)
BY ProcFields, ValuesAreIntegers DEF KeptInTime, AtLeast

LEMMA DropsKept ==
  ASSUME TypeOK, NEW p \in Processes, NEW scope, Drops(p, scope)
  PROVE  \A q \in Processes : KeptInTime(q)
<1>1. CASE scope = "settings"
  <2>1. proc'[p].cache.age = "none"
    BY <1>1 DEF Drops, NoCopy
  <2>2. KeptInTime(p)
    BY <2>1 DEF KeptInTime
  <2>3. ASSUME NEW q \in Processes, q # p PROVE KeptInTime(q)
    BY <2>3, SameConfigKept DEF Drops
  <2> QED
    BY <2>2, <2>3
<1>2. CASE scope # "settings"
  <2>1. ASSUME NEW q \in Processes PROVE proc'[q].cache = proc[q].cache
    BY <1>2 DEF Drops
  <2> QED
    BY <2>1, SameConfigKept
<1> QED
  BY <1>1, <1>2

LEMMA LoadEndsKept ==
  ASSUME TypeOK, NEW c \in Callers, NEW config, Loaded(c, config), LoadEnds(c, config)
  PROVE  \A p \in Processes : KeptInTime(p)
<1>1. config \in Config /\ Store(c, config) /\ At[c] \in Processes
  BY CallFields DEF Loaded, LoadEnds
<1>2. /\ \A p \in Processes \ {At[c]} : proc'[p] = proc[p]
      /\ proc'[At[c]].cache = IF proc[At[c]].version = call[c].version
                              THEN [age |-> "new", config |-> config]
                              ELSE proc[At[c]].cache
  BY <1>1, StoreFields
<1>3. CASE proc[At[c]].version = call[c].version
  <2>1. proc'[At[c]].cache.config = config
    BY <1>2, <1>3
  <2>2. KeptInTime(At[c])
    BY <1>3, <2>1 DEF Loaded, KeptInTime
  <2> QED
    BY <1>2, <2>2, SameConfigKept
<1>4. CASE proc[At[c]].version # call[c].version
  <2>1. proc'[At[c]].cache = proc[At[c]].cache
    BY <1>2, <1>4
  <2> QED
    BY <1>2, <2>1, SameConfigKept
<1> QED
  BY <1>3, <1>4

LEMMA StepKept ==
  ASSUME CachesInv, [Next]_vars, NEW p \in Processes
  PROVE  KeptInTime(p)
<1>1. TypeOK
  BY DEF CachesInv
<1>2. CASE UNCHANGED vars
  BY <1>1, <1>2, SameConfigKept DEF vars
<1>3. ASSUME NEW c \in Callers, CallStep(c) PROVE KeptInTime(p)
  <2>1. proc'[p].cache = proc[p].cache
    BY <1>1, <1>3, ProcFields, CallFields DEF CallStep, Hit, Join, Begin, TypeOK, Process
  <2> QED
    BY <1>1, <2>1, SameConfigKept
<1>4. ASSUME NEW c \in Callers, LoadStep(c) \/ QueryFails(c) PROVE KeptInTime(p)
  <2>1. CASE ReadSettings(c) \/ QueryFails(c)
    BY <1>1, <2>1, SameConfigKept DEF ReadSettings, QueryFails
  <2>2. CASE ReadPolicy(c)
    BY <1>1, <2>2, ReadPolicyLoaded, LoadEndsKept
  <2>3. CASE FallBack(c)
    BY <1>1, <2>3, FallBackLoaded, LoadEndsKept
  <2> QED
    BY <1>4, <2>1, <2>2, <2>3 DEF LoadStep
<1>5. ASSUME NEW q \in Processes, Age(q) \/ EditSettings(q) PROVE KeptInTime(p)
  <2>1. proc'[p].cache.config = proc[p].cache.config
    <3>1. CASE Age(q)
      BY <1>1, <3>1, ProcFields DEF Age, TypeOK, Process, Copy
    <3>2. CASE EditSettings(q)
      BY <1>1, <3>2, ProcFields DEF EditSettings, TypeOK, Process
    <3> QED
      BY <1>5, <3>1, <3>2
  <2> QED
    BY <1>1, <2>1, SameConfigKept
<1>6. ASSUME NEW q \in Processes,
             InvalidateSettings(q) \/ InvalidateOther(q) \/ Notified(q)
      PROVE  KeptInTime(p)
  BY <1>1, <1>6, InvalidateSettingsDrops, InvalidateOtherDrops, NotifiedDrops, DropsKept
<1>7. ASSUME NEW q \in Processes,
             Connected(q) \/ TimerFires(q) \/ ConnectFails(q) \/ ListenerBreaks(q)
      PROVE  KeptInTime(p)
  BY <1>1, <1>7, ListenerInv, SameConfigKept
<1>8. ASSUME EditPolicy PROVE KeptInTime(p)
  BY <1>1, <1>8, SameConfigKept DEF EditPolicy
<1> QED
  BY <1>2, <1>3, <1>4, <1>5, <1>6, <1>7, <1>8 DEF Next, NotifyStep

\* However loads, edits, notifications and faults interleave, neither the settings
\* nor the policy of a copy is ever replaced by an older one.
THEOREM NeverGoesBack == Spec => NeverBackInTime
<1>1. CachesInv /\ [Next]_vars =>
        [\A p \in Processes :
           LET old == proc[p].cache  new == proc'[p].cache IN
           old.age # "none" /\ new.age # "none" =>
             /\ AtLeast(new.config.settings, old.config.settings)
             /\ AtLeast(new.config.policy, old.config.policy)]_vars
  BY StepKept DEF KeptInTime
<1> QED
  BY <1>1, AlwaysInv, PTL DEF Spec, NeverBackInTime

-----------------------------------------------------------------------------
(***************************************************************************)
(* The caches implement reads that are fresh.                              *)
(***************************************************************************)

LEMMA FreshInit == Init => Fresh!Init
<1> SUFFICES ASSUME Init PROVE Fresh!Init
  OBVIOUS
<1>1. \A c \in Callers : /\ call[c].pc = "idle" /\ call[c].since = 0
                         /\ call[c].got.settings = Defaults
  BY DEF Init, IdleCall, Cold
<1>2. db.settings = 0 /\ told = [p \in Processes |-> 0]
  BY DEF Init
<1> QED
  BY <1>1, <1>2 DEF Fresh!Init

\* A step that no caller sees.
LEMMA Unseen ==
  ASSUME db'.settings = db.settings, told' = told,
         \A c \in Callers : /\ call'[c].pc # "idle" <=> call[c].pc # "idle"
                            /\ call'[c].since = call[c].since
                            /\ call'[c].got = call[c].got
  PROVE  UNCHANGED Fresh!vars
BY DEF Fresh!vars

\* Values from the floor on that were written are fresh.
LEMMA FreshValue ==
  ASSUME TypeOK, NEW v \in Values, NEW n \in Nat, AtLeast(v, n), v <= db.settings
  PROVE  v \in Fresh!Fresh(n)
BY DEF Fresh!Fresh, AtLeast, TypeOK, Values

LEMMA HitFresh ==
  ASSUME CachesInv, NEW c \in Callers, Hit(c)
  PROVE  Fresh!AskAndReturn(c)
<1> DEFINE p == At[c]
           v == proc[p].cache.config.settings
           new == [IdleCall EXCEPT !.since = told[p], !.got = proc[p].cache.config]
<1>1. TypeOK /\ p \in Processes
  BY CallFields DEF CachesInv
<1>2. v \in Fresh!Fresh(told[p])
  BY <1>1, ProcFields, FreshValue DEF CachesInv, CopyFresh
<1>3. new.pc = "idle" /\ new.since = told[p] /\ new.got.settings = v
  BY DEF IdleCall
<1>4. /\ call' = [call EXCEPT ![c] = new] /\ call[c].pc = "idle"
      /\ UNCHANGED <<db, told>>
  BY DEF Hit
<1> HIDE DEF new
<1>5. /\ call'[c] = new
      /\ \A d \in Callers \ {c} : call'[d] = call[d]
  BY <1>1, <1>4 DEF TypeOK
<1>6. [d \in Callers |-> call'[d].since] =
        [[d \in Callers |-> call[d].since] EXCEPT ![c] = told[p]]
  BY <1>3, <1>5
<1>7. [d \in Callers |-> call'[d].got.settings] =
        [[d \in Callers |-> call[d].got.settings] EXCEPT ![c] = v]
  BY <1>3, <1>5
<1>8. [d \in Callers |-> call'[d].pc # "idle"] = [d \in Callers |-> call[d].pc # "idle"]
  BY <1>3, <1>4, <1>5
<1> HIDE DEF v
<1> QED
  BY <1>2, <1>4, <1>6, <1>7, <1>8 DEF Fresh!AskAndReturn

\* A call that joins or begins a load asks.
LEMMA WaitsFresh ==
  ASSUME TypeOK, NEW c \in Callers, call[c].pc = "idle",
         \A d \in Callers \ {c} : call'[d] = call[d], UNCHANGED <<db, told>>,
         call'[c].pc # "idle", call'[c].since = told[At[c]], call'[c].got = Cold
  PROVE  Fresh!Ask(c)
<1>1. \A d \in Callers : d # c => call'[d] = call[d]
  OBVIOUS
<1>2. [d \in Callers |-> call'[d].since] =
        [[d \in Callers |-> call[d].since] EXCEPT ![c] = told[At[c]]]
  BY <1>1
<1>3. [d \in Callers |-> call'[d].got.settings] =
        [[d \in Callers |-> call[d].got.settings] EXCEPT ![c] = Defaults]
  <2>1. call'[c].got.settings = Defaults
    BY DEF Cold
  <2> QED
    BY <1>1, <2>1
<1>4. [d \in Callers |-> call'[d].pc # "idle"] =
        [[d \in Callers |-> call[d].pc # "idle"] EXCEPT ![c] = TRUE]
  BY <1>1
<1> QED
  BY <1>2, <1>3, <1>4 DEF Fresh!Ask

LEMMA JoinFresh ==
  ASSUME CachesInv, NEW c \in Callers, Join(c)
  PROVE  Fresh!Ask(c)
<1> DEFINE p == At[c]
           new == [IdleCall EXCEPT !.pc = "joined", !.load = proc[p].inFlight,
                                   !.since = told[p]]
<1>1. new.pc # "idle" /\ new.since = told[p] /\ new.got = Cold
  BY DEF IdleCall
<1>2. /\ call' = [call EXCEPT ![c] = new] /\ call[c].pc = "idle"
      /\ UNCHANGED <<db, told>> /\ TypeOK
  BY DEF Join, CachesInv
<1> HIDE DEF new
<1>3. /\ call'[c] = new
      /\ \A d \in Callers \ {c} : call'[d] = call[d]
  BY <1>2 DEF TypeOK
<1> QED
  BY <1>1, <1>2, <1>3, WaitsFresh

LEMMA BeginFresh ==
  ASSUME CachesInv, NEW c \in Callers, Begin(c)
  PROVE  Fresh!Ask(c)
<1> DEFINE p == At[c]
           new == [IdleCall EXCEPT !.pc = "settings", !.version = proc[p].version,
                                   !.since = told[p]]
<1>1. new.pc # "idle" /\ new.since = told[p] /\ new.got = Cold
  BY DEF IdleCall
<1>2. /\ call' = [call EXCEPT ![c] = new] /\ call[c].pc = "idle"
      /\ UNCHANGED <<db, told>> /\ TypeOK
  BY DEF Begin, CachesInv
<1> HIDE DEF new
<1>3. /\ call'[c] = new
      /\ \A d \in Callers \ {c} : call'[d] = call[d]
  BY <1>2 DEF TypeOK
<1> QED
  BY <1>1, <1>2, <1>3, WaitsFresh

\* The calls that a load answers return together, with fresh settings.
LEMMA LoadEndsFresh ==
  ASSUME CachesInv, NEW c \in Callers, NEW config, Loads(c), Loaded(c, config),
         LoadEnds(c, config)
  PROVE  \E cs \in SUBSET Callers : Fresh!Return(cs)
<1>0. PICK cs \in SUBSET Callers : cs = {d \in Callers : d = c \/ call[d].load = c}
  OBVIOUS
<1>1. TypeOK /\ config \in Config /\ config.settings \in Values
  BY DEF CachesInv, Loaded, Config
<1>2. \A d \in cs : call[d].pc # "idle" /\ call[d].since = call[c].since
  BY <1>0 DEF CachesInv, JoinedToLoad, JoinedRight, Loads
<1>3. config.settings \in Fresh!Fresh(call[c].since)
  BY <1>1, CallFields, FreshValue DEF Loaded
<1>4. ASSUME NEW d \in cs
      PROVE  /\ call'[d].pc = "idle" /\ call'[d].since = call[d].since
             /\ call'[d].got = config
  <2>1. call'[d] = Answer(d, config)
    BY <1>0, <1>4 DEF LoadEnds
  <2> QED
    BY <1>1, <1>4, <2>1, AnswerFields
<1>5. \A d \in Callers : d \notin cs => call'[d] = call[d]
  BY <1>0 DEF LoadEnds
<1>6. UNCHANGED <<db, told>>
  BY DEF LoadEnds
<1>7. Fresh!Return(cs)
  BY <1>2, <1>3, <1>4, <1>5, <1>6 DEF Fresh!Return
<1> QED
  BY <1>7

LEMMA DropsTold ==
  ASSUME TypeOK, NEW p \in Processes, NEW scope, Drops(p, scope)
  PROVE  Fresh!Tell(p) \/ UNCHANGED Fresh!vars
<1>1. CASE scope = "settings"
  BY <1>1 DEF Drops, ToldOf, Fresh!Tell
<1>2. CASE scope # "settings"
  <2>1. told' = told /\ UNCHANGED <<db, call>>
    BY <1>2 DEF Drops, ToldOf, TypeOK
  <2> QED
    BY <2>1, Unseen
<1> QED
  BY <1>1, <1>2

LEMMA FreshStep == CachesInv /\ [Next]_vars => [Fresh!Next]_(Fresh!vars)
<1> SUFFICES ASSUME CachesInv, [Next]_vars PROVE [Fresh!Next]_(Fresh!vars)
  OBVIOUS
<1>1. TypeOK
  BY DEF CachesInv
<1>2. CASE UNCHANGED vars
  BY <1>2, Unseen DEF vars
<1>3. ASSUME NEW c \in Callers, CallStep(c) PROVE Fresh!Next
  BY <1>3, HitFresh, JoinFresh, BeginFresh DEF CallStep, Fresh!Next
<1>4. ASSUME NEW c \in Callers, ReadPolicy(c) \/ FallBack(c) PROVE Fresh!Next
  <2>1. \E cs \in SUBSET Callers : Fresh!Return(cs)
    BY <1>4, ReadPolicyLoaded, FallBackLoaded, LoadEndsFresh
  <2> QED
    BY <2>1 DEF Fresh!Next
<1>5. ASSUME NEW c \in Callers, ReadSettings(c) \/ QueryFails(c)
      PROVE  UNCHANGED Fresh!vars
  <2>1. UNCHANGED <<db, told>>
    BY <1>5 DEF ReadSettings, QueryFails
  <2>2. ASSUME NEW d \in Callers
        PROVE  /\ call'[d].pc # "idle" <=> call[d].pc # "idle"
               /\ call'[d].since = call[d].since /\ call'[d].got = call[d].got
    BY <1>1, <1>5, CallFields DEF ReadSettings, QueryFails, TypeOK, Call
  <2> QED
    BY <2>1, <2>2, Unseen
<1>6. ASSUME NEW p \in Processes, Age(p) PROVE UNCHANGED Fresh!vars
  BY <1>6, Unseen DEF Age
<1>7. ASSUME NEW p \in Processes, EditSettings(p) PROVE Fresh!Write
  <2>1. db'.settings = db.settings + 1 /\ UNCHANGED <<call, told>>
    BY <1>1, <1>7 DEF EditSettings, TypeOK
  <2> QED
    BY <2>1 DEF Fresh!Write
<1>8. ASSUME NEW p \in Processes,
             InvalidateSettings(p) \/ InvalidateOther(p) \/ Notified(p)
      PROVE  Fresh!Tell(p) \/ UNCHANGED Fresh!vars
  BY <1>1, <1>8, InvalidateSettingsDrops, InvalidateOtherDrops, NotifiedDrops, DropsTold
<1>9. ASSUME NEW p \in Processes,
             Connected(p) \/ TimerFires(p) \/ ConnectFails(p) \/ ListenerBreaks(p)
      PROVE  UNCHANGED Fresh!vars
  BY <1>9, ListenerInv, Unseen
<1>10. ASSUME EditPolicy PROVE UNCHANGED Fresh!vars
  <2>1. db'.settings = db.settings /\ UNCHANGED <<call, told>>
    BY <1>1, <1>10 DEF EditPolicy, TypeOK
  <2> QED
    BY <2>1, Unseen
<1> QED
  BY <1>2, <1>3, <1>4, <1>5, <1>6, <1>7, <1>8, <1>9, <1>10
  DEF Next, LoadStep, NotifyStep, Fresh!Next

\* Whatever is cached, shared, dropped or lost, a call returns settings that are
\* no older than the last edit its process had been told of when it was made.
THEOREM CachesImplementFreshReads == Spec => ReadsAreFresh
<1> QED
  BY FreshInit, FreshStep, AlwaysInv, PTL DEF Spec, ReadsAreFresh, Fresh!Spec
=============================================================================
