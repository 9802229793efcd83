------------------------ MODULE ImageLifecycleProofs ------------------------
(***************************************************************************)
(* Theorems about ImageLifecycle for any illust, any image requests, and   *)
(* any number of moves, jobs, admin requests and failures.                 *)
(***************************************************************************)
EXTENDS ImageLifecycle, TLAPS

USE LifecycleAssumption DEF LifecycleAssumption

-----------------------------------------------------------------------------
(***************************************************************************)
(* Types.                                                                  *)
(***************************************************************************)

\* The version that Pixiv serves is the number of times it moved.
MovesCounted == origin = moves

TypeInv == TypeOK /\ MovesCounted

ReaderPCs == {"idle", "fetch", "stream", "mark", "markstream", "heal"}

LEMMA IdleReaderType == IdleReader \in Reader /\ IdleReader.pc = "idle"
<1>1. (CHOOSE p \in Pages : TRUE) \in Pages
  OBVIOUS
<1>2. 0 \in Versions
  BY DEF Versions
<1> QED
  BY <1>1, <1>2 DEF IdleReader, Reader

LEMMA ReaderFields ==
  ASSUME TypeOK, NEW r \in Readers
  PROVE  reader[r] \in Reader /\ reader[r].pc \in ReaderPCs /\ reader[r].page \in Pages
BY DEF TypeOK, Reader, ReaderPCs

LEMMA ReaderPc ==
  ASSUME NEW x \in Reader, NEW pc \in ReaderPCs
  PROVE  LET new == [x EXCEPT !.pc = pc] IN
         new \in Reader /\ new.pc = pc /\ new.page = x.page
BY DEF Reader, ReaderPCs

\* Every step of a request gives it a state of the right type.
LEMMA ReaderTypes ==
  ASSUME TypeOK, NEW r \in Readers, NEW p \in Pages,
         \/ OpenById(r, p) \/ OpenRandom(r, p)
         \/ ReaderStep(r) \/ Throttled(r) \/ StreamFails(r) \/ Dies(r)
  PROVE  reader' \in [Readers -> Reader]
<1>1. reader \in [Readers -> Reader] /\ reader[r] \in Reader
  BY ReaderFields DEF TypeOK
<1>2. ASSUME NEW new \in Reader, reader' = [reader EXCEPT ![r] = new]
      PROVE  reader' \in [Readers -> Reader]
  BY <1>1, <1>2
<1>3. ASSUME NEW pc \in ReaderPCs, reader' = [reader EXCEPT ![r].pc = pc]
      PROVE  reader' \in [Readers -> Reader]
  <2>1. reader' = [reader EXCEPT ![r] = [reader[r] EXCEPT !.pc = pc]]
    BY <1>1, <1>3
  <2>2. [reader[r] EXCEPT !.pc = pc] \in Reader
    BY <1>1, ReaderPc
  <2> QED
    BY <1>2, <2>1, <2>2
<1>4. ASSUME Leave(r) PROVE reader' \in [Readers -> Reader]
  BY <1>2, <1>4, IdleReaderType DEF Leave
<1>5. CASE OpenById(r, p) \/ OpenRandom(r, p)
  <2>1. PICK via \in {"id", "random"} : Open(r, p, via)
    BY <1>5 DEF OpenById, OpenRandom
  <2>2. [pc |-> "fetch", page |-> p, url |-> url[p], via |-> via] \in Reader
    BY <2>1 DEF TypeOK, Reader
  <2> QED
    BY <1>2, <2>1, <2>2 DEF Open
<1>6. CASE Mark(r)
  <2>1. \/ reader' = [reader EXCEPT ![r] = IdleReader]
        \/ reader' = [reader EXCEPT ![r] = [reader[r] EXCEPT !.pc = "heal"]]
    BY <1>1, <1>6 DEF Mark
  <2>2. [reader[r] EXCEPT !.pc = "heal"] \in Reader
    BY <1>1, ReaderPc DEF ReaderPCs
  <2> QED
    BY <1>2, <2>1, <2>2, IdleReaderType
<1>7. CASE Served(r) \/ Refused(r) \/ StreamFails(r)
  BY <1>3, <1>7 DEF Served, Refused, StreamFails, ReaderPCs
<1>8. CASE Ends(r) \/ Throttled(r)
  BY <1>3, <1>4, <1>8 DEF Ends, Throttled, ReaderPCs
<1>9. CASE MarkStream(r) \/ EnqueueHeal(r) \/ Dies(r)
  BY <1>2, <1>9, IdleReaderType DEF MarkStream, EnqueueHeal, Dies
<1> QED
  BY <1>5, <1>6, <1>7, <1>8, <1>9 DEF ReaderStep

LEMMA BrokenTypes ==
  ASSUME TypeOK, NEW p \in Pages, Broken(p)
  PROVE  status' \in [Pages -> Statuses] /\ url' = url /\ revoked' \subseteq Pages
<1>1. status[p] \in Statuses /\ "broken" \in Statuses
  BY DEF TypeOK, Statuses
<1> QED
  BY <1>1 DEF TypeOK, Broken

LEMMA ExcuseTypes ==
  ASSUME TypeOK, NEW p \in Pages, NEW reason \in Reasons, Excuse(p, reason)
  PROVE  why' \in [Pages -> Reasons]
BY DEF TypeOK, Excuse

LEMMA FaultType ==
  ASSUME TypeOK, Fault
  PROVE  faults' \in 0..MaxFaults
BY DEF TypeOK, Fault

LEMMA ReaderTypeInv ==
  ASSUME TypeInv, NEW r \in Readers, NEW p \in Pages,
         \/ OpenById(r, p) \/ OpenRandom(r, p)
         \/ ReaderStep(r) \/ Throttled(r) \/ StreamFails(r) \/ Dies(r)
  PROVE  TypeInv'
<1> DEFINE q == reader[r].page
<1>1. TypeOK /\ origin = moves /\ q \in Pages /\ reader' \in [Readers -> Reader]
  BY ReaderFields, ReaderTypes DEF TypeInv, MovesCounted
<1> HIDE DEF q
<1>2. /\ UNCHANGED <<origin, detail, heal, hydrate, wanted, moves, hydrates, adminOps>>
  BY DEF ReaderStep, OpenById, OpenRandom, Open, Throttled, StreamFails, Dies, Served,
         Refused, Ends, Leave, Mark, MarkStream, EnqueueHeal, work, rows, bounds
<1>3. status' \in [Pages -> Statuses] /\ url' \in [Pages -> Versions] /\ revoked' \subseteq Pages
  <2>1. CASE Mark(r) \/ MarkStream(r)
    <3>1. Broken(q)
      BY <2>1 DEF Mark, MarkStream, q
    <3> QED
      BY <1>1, <3>1, BrokenTypes DEF TypeOK
  <2>2. CASE UNCHANGED <<status, url, revoked>>
    BY <1>1, <2>2 DEF TypeOK
  <2> QED
    BY <2>1, <2>2 DEF ReaderStep, OpenById, OpenRandom, Open, Throttled, StreamFails, Dies,
         Served, Refused, Ends, Leave, EnqueueHeal, rows
<1>4. why' \in [Pages -> Reasons]
  <2>1. CASE UNCHANGED why
    BY <1>1, <2>1 DEF TypeOK
  <2>2. CASE MarkStream(r) \/ EnqueueHeal(r) \/ Dies(r)
    <3>1. \/ \E reason \in Reasons : Excuse(q, reason)
          \/ why' = [x \in Pages |-> "none"]
          \/ UNCHANGED why
      BY <2>2 DEF MarkStream, EnqueueHeal, Dies, Reasons, q
    <3>2. CASE \E reason \in Reasons : Excuse(q, reason)
      BY <1>1, <3>2, ExcuseTypes
    <3>3. CASE why' = [x \in Pages |-> "none"]
      BY <3>3 DEF Reasons
    <3> QED
      BY <2>1, <3>1, <3>2, <3>3
  <2> QED
    BY <2>1, <2>2 DEF ReaderStep, OpenById, OpenRandom, Open, Throttled, StreamFails,
         Served, Refused, Ends, Leave, Mark
<1>5. waiting' \in [Retries -> 0..MaxWaiting] /\ slot' \in {"free", "taken"}
  <2>1. CASE EnqueueHeal(r) /\ ~UNCHANGED <<waiting, slot>>
    <3>1. /\ waiting[0] < MaxWaiting /\ waiting' = [waiting EXCEPT ![0] = @ + 1]
          /\ slot' = "taken"
      BY <2>1 DEF EnqueueHeal
    <3>2. 0 \in Retries
      BY DEF Retries
    <3>3. waiting[0] \in 0..MaxWaiting
      BY <1>1, <3>2 DEF TypeOK
    <3>4. waiting[0] + 1 \in 0..MaxWaiting
      BY <3>1, <3>3
    <3> QED
      BY <1>1, <3>1, <3>2, <3>4 DEF TypeOK
  <2>2. CASE UNCHANGED <<waiting, slot>>
    BY <1>1, <2>2 DEF TypeOK
  <2> QED
    BY <2>1, <2>2 DEF ReaderStep, OpenById, OpenRandom, Open, Throttled, StreamFails, Dies,
         Served, Refused, Ends, Leave, Mark, MarkStream, work
<1>6. faults' \in 0..MaxFaults
  <2>1. faults' = faults \/ Fault
    BY DEF ReaderStep, OpenById, OpenRandom, Open, Throttled, StreamFails, Dies,
         Served, Refused, Ends, Mark, MarkStream, EnqueueHeal, bounds
  <2> QED
    BY <1>1, <2>1, FaultType DEF TypeOK
<1> QED
  BY <1>1, <1>2, <1>3, <1>4, <1>5, <1>6 DEF TypeInv, TypeOK, MovesCounted

LEMMA InitTypes == Init => TypeInv
<1> SUFFICES ASSUME Init PROVE TypeInv
  OBVIOUS
<1>1. reader \in [Readers -> Reader]
  BY IdleReaderType DEF Init
<1>2. /\ status \in [Pages -> Statuses] /\ url \in [Pages -> Versions]
      /\ wanted \in [Pages -> {"on", "off"}] /\ why \in [Pages -> Reasons]
  BY DEF Init, Statuses, Versions, Reasons
<1>3. heal \in [pc: {"idle", "fetch", "write"}, att: Retries, ver: Versions]
  BY DEF Init, Retries, Versions
<1>4. hydrate \in [pc: {"idle", "write"}, ver: Versions]
  BY DEF Init, Versions
<1>5. waiting \in [Retries -> 0..MaxWaiting] /\ slot \in {"free", "taken"}
  BY DEF Init
<1>6. origin \in Versions /\ detail = {} /\ revoked = {} /\ origin = moves
  BY DEF Init, Versions
<1>7. moves \in 0..MaxMoves /\ hydrates \in 0..MaxHydrates
  BY DEF Init
<1>8. adminOps \in 0..MaxAdminOps /\ faults \in 0..MaxFaults
  BY DEF Init
<1> QED
  BY <1>1, <1>2, <1>3, <1>4, <1>5, <1>6, <1>7, <1>8 DEF TypeInv, TypeOK, MovesCounted

\* The jobs.
LEMMA JobTypeInv ==
  ASSUME TypeInv, JobStep \/ HealFails \/ HydrateFetches \/ HydrateWrites
  PROVE  TypeInv'
<1>1. /\ TypeOK /\ origin = moves
      /\ heal \in [pc: {"idle", "fetch", "write"}, att: Retries, ver: Versions]
      /\ heal.att \in Retries /\ heal.ver \in Versions /\ origin \in Versions
      /\ 0 \in Retries /\ 0 \in Versions
  BY DEF TypeInv, TypeOK, MovesCounted, Retries, Versions
<1>2. CASE HealTakes
  <2>1. PICK k \in Retries : /\ waiting[k] > 0
                             /\ waiting' = [waiting EXCEPT ![k] = @ - 1]
                             /\ heal' = [pc |-> "fetch", att |-> k, ver |-> 0]
    BY <1>2 DEF HealTakes
  <2>2. waiting[k] - 1 \in 0..MaxWaiting
    BY <1>1, <2>1 DEF TypeOK
  <2>3. waiting' \in [Retries -> 0..MaxWaiting]
    BY <1>1, <2>1, <2>2 DEF TypeOK
  <2>4. heal' \in [pc: {"idle", "fetch", "write"}, att: Retries, ver: Versions]
    BY <1>1, <2>1
  <2> QED
    BY <1>1, <1>2, <2>3, <2>4 DEF HealTakes, TypeInv, TypeOK, MovesCounted, rows, bounds
<1>3. CASE HealFetches
  <2>1. heal' \in [pc: {"idle", "fetch", "write"}, att: Retries, ver: Versions]
    BY <1>1, <1>3 DEF HealFetches
  <2> QED
    BY <1>1, <1>3, <2>1 DEF HealFetches, TypeInv, TypeOK, MovesCounted, rows, bounds
<1>4. CASE HealWrites
  <2>1. heal' \in [pc: {"idle", "fetch", "write"}, att: Retries, ver: Versions]
    BY <1>1, <1>4 DEF HealWrites
  <2>2. url' \in [Pages -> Versions]
    BY <1>1, <1>4 DEF HealWrites, TypeOK
  <2>3. status' \in [Pages -> Statuses] /\ why' \in [Pages -> Reasons]
    BY <1>1, <1>4 DEF HealWrites, TypeOK, Statuses, Reasons
  <2> QED
    BY <1>1, <1>4, <2>1, <2>2, <2>3 DEF HealWrites, TypeInv, TypeOK, MovesCounted, bounds
<1>5. CASE HealFails
  <2>1. heal' \in [pc: {"idle", "fetch", "write"}, att: Retries, ver: Versions]
    BY <1>1, <1>5 DEF HealFails
  <2>2. faults' \in 0..MaxFaults
    BY <1>1, <1>5, FaultType DEF HealFails
  <2>3. waiting' \in [Retries -> 0..MaxWaiting] /\ why' \in [Pages -> Reasons]
    <3>1. CASE /\ heal.att < RetryLimit /\ waiting[heal.att + 1] < MaxWaiting
               /\ waiting' = [waiting EXCEPT ![heal.att + 1] = @ + 1]
               /\ UNCHANGED why
      <4>1. PICK k \in Retries : k = heal.att + 1
        BY <1>1, <3>1 DEF Retries
      <4>2. waiting[k] + 1 \in 0..MaxWaiting
        BY <1>1, <3>1, <4>1 DEF TypeOK
      <4>3. waiting' = [waiting EXCEPT ![k] = waiting[k] + 1]
        BY <3>1, <4>1
      <4> QED
        BY <1>1, <3>1, <4>2, <4>3 DEF TypeOK
    <3>2. CASE /\ why' = [p \in Pages |->
                     IF status[p] = "broken" /\ \A k \in Retries : waiting[k] = 0
                     THEN "dead_letter" ELSE why[p]]
               /\ UNCHANGED waiting
      BY <1>1, <3>2 DEF TypeOK, Reasons
    <3> QED
      BY <1>5, <3>1, <3>2 DEF HealFails
  <2> QED
    BY <1>1, <1>5, <2>1, <2>2, <2>3 DEF HealFails, TypeInv, TypeOK, MovesCounted, rows
<1>6. CASE HydrateFetches
  <2>1. detail' \in {{}} \union {{v} : v \in Versions} /\ detail' # {}
    BY <1>1, <1>6 DEF HydrateFetches, TypeOK
  <2>2. PICK v \in Versions : detail' = {v}
    BY <2>1
  <2>3. hydrate' = [pc |-> "write", ver |-> v]
    BY <1>6, <2>2 DEF HydrateFetches
  <2>4. hydrates' \in 0..MaxHydrates
    BY <1>1, <1>6 DEF HydrateFetches, TypeOK
  <2> QED
    BY <1>1, <1>6, <2>1, <2>3, <2>4
    DEF HydrateFetches, TypeInv, TypeOK, MovesCounted, rows
<1>7. CASE HydrateWrites
  <2>1. hydrate.ver \in Versions /\ hydrate' \in [pc: {"idle", "write"}, ver: Versions]
    BY <1>1, <1>7 DEF HydrateWrites, TypeOK
  <2>2. url' \in [Pages -> Versions]
    BY <1>1, <1>7, <2>1 DEF HydrateWrites, TypeOK
  <2> QED
    BY <1>1, <1>7, <2>1, <2>2 DEF HydrateWrites, TypeInv, TypeOK, MovesCounted, bounds
<1> QED
  BY <1>2, <1>3, <1>4, <1>5, <1>6, <1>7 DEF JobStep

LEMMA SetStatusTypes ==
  ASSUME TypeOK, NEW S \in SUBSET Pages, NEW to \in Statuses, SetStatus(S, to)
  PROVE  /\ status' \in [Pages -> Statuses] /\ revoked' \subseteq Pages
         /\ why' \in [Pages -> Reasons]
         /\ UNCHANGED <<url, origin, detail, waiting, slot, heal, hydrate, reader, moves,
                        hydrates, faults>>
BY DEF TypeOK, SetStatus, Reasons, work

\* The admin.
LEMMA AdminTypeInv ==
  ASSUME TypeInv, (\E p \in Pages : Enable(p) \/ Disable(p)) \/ Rollback
  PROVE  TypeInv'
<1>1. TypeOK /\ origin = moves
  BY DEF TypeInv, MovesCounted
<1>2. adminOps' \in 0..MaxAdminOps /\ wanted' \in [Pages -> {"on", "off"}]
  <2>1. AdminOp
    BY DEF Enable, Disable, Rollback
  <2>2. adminOps' \in 0..MaxAdminOps
    BY <1>1, <2>1 DEF AdminOp, TypeOK
  <2> QED
    BY <1>1, <2>2 DEF Enable, Disable, Rollback, TypeOK
<1>3. PICK S \in SUBSET Pages, to \in Statuses : SetStatus(S, to)
  BY DEF Enable, Disable, Rollback, Statuses, Rows
<1>4. /\ status' \in [Pages -> Statuses] /\ revoked' \subseteq Pages
      /\ why' \in [Pages -> Reasons]
      /\ UNCHANGED <<url, origin, detail, waiting, slot, heal, hydrate, reader, moves,
                     hydrates, faults>>
  BY <1>1, <1>3, SetStatusTypes
<1> QED
  BY <1>1, <1>2, <1>4 DEF TypeInv, TypeOK, MovesCounted

\* Pixiv and the clock.
LEMMA TimeTypeInv ==
  ASSUME TypeInv, Move \/ DetailExpires \/ SlotElapses \/ UNCHANGED vars
  PROVE  TypeInv'
<1>1. CASE Move
  <2>1. moves' \in 0..MaxMoves /\ origin' = moves' /\ origin' \in Versions
    BY <1>1 DEF Move, TypeInv, TypeOK, MovesCounted, Versions
  <2> QED
    BY <1>1, <2>1 DEF Move, TypeInv, TypeOK, MovesCounted, rows, work
<1>2. CASE DetailExpires
  BY <1>2 DEF DetailExpires, TypeInv, TypeOK, MovesCounted, rows, bounds
<1>3. CASE SlotElapses
  BY <1>3 DEF SlotElapses, TypeInv, TypeOK, MovesCounted, rows, bounds
<1>4. CASE UNCHANGED vars
  BY <1>4 DEF vars, TypeInv, TypeOK, MovesCounted, rows, work, bounds
<1> QED
  BY <1>1, <1>2, <1>3, <1>4

LEMMA NextTypes == TypeInv /\ [Next]_vars => TypeInv'
<1>1. PICK p \in Pages : TRUE
  OBVIOUS
<1> QED
  BY <1>1, ReaderTypeInv, JobTypeInv, AdminTypeInv, TimeTypeInv DEF Next

LEMMA AlwaysTypes == Spec => []TypeInv
BY InitTypes, NextTypes, PTL DEF Spec

\* The rows, the jobs, the cached detail and every request keep their types; above
\* all the urls are versions that Pixiv has served.
THEOREM TypeCorrect == Spec => []TypeOK
<1>1. TypeInv => TypeOK
  BY DEF TypeInv
<1> QED
  BY <1>1, AlwaysTypes, PTL

-----------------------------------------------------------------------------
(***************************************************************************)
(* Nobody forgets a broken page.                                           *)
(***************************************************************************)

\* A request is about to ask for p to be healed.
Asking(r, p) == reader[r].pc = "heal" /\ reader[r].page = p

Accounted(p) ==
  status[p] = "broken" /\ why[p] = "none" =>
    Pending \/ \E r \in Readers : Asking(r, p)

LEMMA AccountedIs == BrokenAccounted <=> \A p \in Pages : Accounted(p)
BY DEF BrokenAccounted, Accounted, Asking

\* A job is pending after the step.
LEMMA JobFollows ==
  ASSUME heal'.pc # "idle" \/ \E k \in Retries : waiting'[k] > 0
  PROVE  BrokenAccounted'
BY DEF BrokenAccounted, Pending

\* The other requests stay where they are.
LEMMA OthersAsk ==
  ASSUME TypeOK, NEW r \in Readers, NEW new, reader' = [reader EXCEPT ![r] = new],
         NEW d \in Readers, d # r, NEW p
  PROVE  Asking(d, p)' <=> Asking(d, p)
<1>1. reader'[d] = reader[d]
  BY DEF TypeOK
<1> QED
  BY <1>1 DEF Asking

\* A request that is not about to ask moves; it breaks nothing.
LEMMA RequestMoves ==
  ASSUME TypeOK, BrokenAccounted, NEW r \in Readers, reader[r].pc # "heal",
         NEW new, reader' = [reader EXCEPT ![r] = new],
         UNCHANGED <<status, why, heal, waiting>>
  PROVE  BrokenAccounted'
<1>1. ASSUME NEW p \in Pages PROVE Accounted(p)'
  <2>1. Accounted(p)
    BY AccountedIs
  <2>2. \A d \in Readers : Asking(d, p) => Asking(d, p)'
    <3>1. ~Asking(r, p)
      BY DEF Asking
    <3> QED
      BY <3>1, OthersAsk
  <2>3. Pending' <=> Pending
    BY DEF Pending
  <2> QED
    BY <2>1, <2>2, <2>3 DEF Accounted
<1> QED
  BY <1>1, AccountedIs DEF BrokenAccounted, Accounted, Asking, Pending

\* A request goes away, and gives its page a reason unless a job is pending.
LEMMA RequestLeaves ==
  ASSUME TypeOK, BrokenAccounted, NEW r \in Readers,
         NEW p \in Pages, p = reader[r].page,
         NEW new, reader' = [reader EXCEPT ![r] = new],
         NEW reason \in Reasons \ {"none"}, Excuse(p, reason),
         UNCHANGED <<heal, waiting>>,
         \A q \in Pages \ {p} : status'[q] = status[q]
  PROVE  BrokenAccounted'
<1>1. Pending' <=> Pending
  BY DEF Pending
<1>2. CASE Pending
  BY <1>1, <1>2 DEF BrokenAccounted
<1>3. CASE ~Pending
  <2>1. why' = [why EXCEPT ![p] = reason] /\ why'[p] # "none"
    BY <1>3 DEF Excuse, TypeOK
  <2>2. ASSUME NEW q \in Pages, q # p PROVE Accounted(q)'
    <3>1. Accounted(q) /\ why'[q] = why[q] /\ status'[q] = status[q]
      BY <2>1, <2>2, AccountedIs DEF TypeOK
    <3>2. \A d \in Readers : Asking(d, q) => Asking(d, q)'
      <4>1. ~Asking(r, q)
        BY <2>2 DEF Asking
      <4> QED
        BY <4>1, OthersAsk
    <3> QED
      BY <1>3, <3>1, <3>2 DEF Accounted
  <2>3. Accounted(p)'
    BY <2>1 DEF Accounted
  <2> QED
    BY <2>2, <2>3 DEF BrokenAccounted, Accounted, Asking, Pending
<1> QED
  BY <1>2, <1>3

LEMMA ReaderAccounts ==
  ASSUME TypeOK, BrokenAccounted, NEW r \in Readers, NEW p \in Pages,
         \/ OpenById(r, p) \/ OpenRandom(r, p)
         \/ ReaderStep(r) \/ Throttled(r) \/ StreamFails(r) \/ Dies(r)
  PROVE  BrokenAccounted'
<1>1. PICK q \in Pages : q = reader[r].page
  BY ReaderFields
<1>2. CASE \/ OpenById(r, p) \/ OpenRandom(r, p) \/ Served(r) \/ Refused(r) \/ Ends(r)
           \/ Throttled(r) \/ StreamFails(r)
  <2>1. PICK new : reader' = [reader EXCEPT ![r] = new]
    BY <1>2 DEF OpenById, OpenRandom, Open, Served, Refused, Ends, Throttled, Leave,
                StreamFails
  <2>2. UNCHANGED <<status, why, heal, waiting>> /\ reader[r].pc # "heal"
    BY <1>2 DEF OpenById, OpenRandom, Open, Served, Refused, Ends, Throttled, Leave,
                StreamFails, rows, work
  <2> QED
    BY <2>1, <2>2, RequestMoves
<1>3. CASE Mark(r)
  <2>1. /\ UNCHANGED <<why, heal, waiting>> /\ reader[r].pc = "mark"
        /\ \A x \in Pages \ {q} : status'[x] = status[x]
        /\ status[q] = "absent" => status'[q] = "absent"
    BY <1>1, <1>3 DEF Mark, Broken, work, TypeOK
  <2>2. PICK new : reader' = [reader EXCEPT ![r] = new]
    BY <1>3 DEF Mark
  <2>3. status[q] # "absent" => Asking(r, q)'
    <3>1. ASSUME status[q] # "absent"
          PROVE  reader' = [reader EXCEPT ![r] = [reader[r] EXCEPT !.pc = "heal"]]
      BY <1>1, <1>3, <3>1 DEF Mark, TypeOK
    <3>2. LET heals == [reader[r] EXCEPT !.pc = "heal"] IN
          heals.pc = "heal" /\ heals.page = q
      BY <1>1, ReaderFields, ReaderPc DEF ReaderPCs
    <3> QED
      BY <3>1, <3>2 DEF Asking, TypeOK
  <2>4. Pending' <=> Pending
    BY <2>1 DEF Pending
  <2>5. ASSUME NEW x \in Pages, x # q PROVE Accounted(x)'
    <3>1. Accounted(x) /\ status'[x] = status[x]
      BY <2>1, <2>5, AccountedIs
    <3>2. \A d \in Readers : Asking(d, x) => Asking(d, x)'
      <4>1. ~Asking(r, x)
        BY <1>1, <2>5 DEF Asking
      <4> QED
        BY <2>2, <4>1, OthersAsk
    <3> QED
      BY <2>1, <2>4, <3>1, <3>2 DEF Accounted
  <2>6. Accounted(q)'
    BY <2>1, <2>3 DEF Accounted
  <2> QED
    BY <2>5, <2>6 DEF BrokenAccounted, Accounted, Asking, Pending
<1>4. CASE MarkStream(r)
  <2>1. /\ Excuse(q, "stream") /\ reader' = [reader EXCEPT ![r] = IdleReader]
        /\ UNCHANGED <<heal, waiting>>
        /\ \A x \in Pages \ {q} : status'[x] = status[x]
    BY <1>1, <1>4 DEF MarkStream, Broken, work, TypeOK
  <2> QED
    BY <1>1, <2>1, RequestLeaves DEF Reasons
<1>5. CASE EnqueueHeal(r)
  <2>1. CASE waiting[0] < MaxWaiting /\ waiting' = [waiting EXCEPT ![0] = @ + 1]
    <3>1. 0 \in Retries
      BY DEF Retries
    <3>2. waiting[0] \in Nat
      BY <3>1 DEF TypeOK
    <3>3. waiting'[0] > 0
      BY <2>1, <3>1, <3>2 DEF TypeOK
    <3> QED
      BY <3>1, <3>3, JobFollows
  <2>2. CASE UNCHANGED waiting /\ \E reason \in Reasons \ {"none"} : Excuse(q, reason)
    <3>1. PICK reason \in Reasons \ {"none"} : Excuse(q, reason)
      BY <2>2
    <3>2. UNCHANGED <<status, heal>> /\ reader' = [reader EXCEPT ![r] = IdleReader]
      BY <1>5 DEF EnqueueHeal, rows
    <3> QED
      BY <1>1, <2>2, <3>1, <3>2, RequestLeaves
  <2> QED
    BY <1>1, <1>5, <2>1, <2>2 DEF EnqueueHeal, Reasons
<1>6. CASE Dies(r)
  <2>1. UNCHANGED <<status, heal, waiting>> /\ reader' = [reader EXCEPT ![r] = IdleReader]
    BY <1>6 DEF Dies, rows, work
  <2>2. CASE reader[r].pc = "heal"
    <3>1. Excuse(q, "died")
      BY <1>1, <1>6, <2>2 DEF Dies
    <3> QED
      BY <1>1, <2>1, <3>1, RequestLeaves DEF Reasons
  <2>3. CASE reader[r].pc # "heal"
    <3>1. UNCHANGED why
      BY <1>6, <2>3 DEF Dies
    <3> QED
      BY <2>1, <2>3, <3>1, RequestMoves
  <2> QED
    BY <2>2, <2>3
<1> QED
  BY <1>2, <1>3, <1>4, <1>5, <1>6 DEF ReaderStep

LEMMA JobAccounts ==
  ASSUME TypeOK, BrokenAccounted, JobStep \/ HealFails \/ HydrateFetches \/ HydrateWrites
  PROVE  BrokenAccounted'
<1>1. CASE HealTakes
  BY <1>1, JobFollows DEF HealTakes
<1>2. CASE HealFetches
  <2>1. heal'.pc = "write"
    BY <1>2 DEF HealFetches, TypeOK
  <2> QED
    BY <2>1, JobFollows
<1>3. CASE HealWrites
  <2>1. \A p \in Pages : status'[p] # "broken"
    BY <1>3 DEF HealWrites
  <2> QED
    BY <2>1 DEF BrokenAccounted
<1>4. CASE HealFails
  <2>1. /\ UNCHANGED status
        /\ heal.att \in Retries
    BY <1>4 DEF HealFails, rows, TypeOK
  <2>2. CASE /\ heal.att < RetryLimit /\ waiting[heal.att + 1] < MaxWaiting
             /\ waiting' = [waiting EXCEPT ![heal.att + 1] = @ + 1]
    <3>1. PICK k \in Retries : k = heal.att + 1
      BY <2>1, <2>2 DEF Retries
    <3>2. waiting'[k] = waiting[k] + 1 /\ waiting[k] \in Nat
      BY <2>2, <3>1 DEF TypeOK
    <3> QED
      BY <3>2, JobFollows
  <2>3. CASE /\ why' = [p \in Pages |->
                   IF status[p] = "broken" /\ \A k \in Retries : waiting[k] = 0
                   THEN "dead_letter" ELSE why[p]]
             /\ UNCHANGED waiting
    <3>1. CASE \A k \in Retries : waiting[k] = 0
      <4>1. \A p \in Pages : status'[p] = "broken" => why'[p] = "dead_letter"
        BY <2>1, <2>3, <3>1
      <4> QED
        BY <4>1 DEF BrokenAccounted
    <3>2. CASE \E k \in Retries : waiting[k] # 0
      <4>1. PICK k \in Retries : waiting[k] # 0 /\ waiting[k] \in Nat
        BY <3>2 DEF TypeOK
      <4> QED
        BY <2>3, <4>1, JobFollows
    <3> QED
      BY <3>1, <3>2
  <2> QED
    BY <1>4, <2>2, <2>3 DEF HealFails
<1>5. CASE HydrateFetches \/ HydrateWrites
  <2>1. UNCHANGED <<status, why, heal, waiting, reader>>
    BY <1>5 DEF HydrateFetches, HydrateWrites, rows
  <2> QED
    BY <2>1 DEF BrokenAccounted, Pending
<1> QED
  BY <1>1, <1>2, <1>3, <1>4, <1>5 DEF JobStep

LEMMA AdminAccounts ==
  ASSUME TypeOK, BrokenAccounted, (\E p \in Pages : Enable(p) \/ Disable(p)) \/ Rollback
  PROVE  BrokenAccounted'
<1>1. PICK S \in SUBSET Pages, to \in {"active", "disabled", "absent"} : SetStatus(S, to)
  BY DEF Enable, Disable, Rollback, Rows
<1>2. UNCHANGED <<heal, waiting, reader>>
  BY <1>1 DEF SetStatus, work
<1>3. \A p \in Pages : status'[p] = "broken" => status[p] = "broken" /\ why'[p] = why[p]
  BY <1>1 DEF SetStatus
<1> QED
  BY <1>2, <1>3 DEF BrokenAccounted, Pending

LEMMA NextAccounts ==
  ASSUME TypeOK, BrokenAccounted, [Next]_vars
  PROVE  BrokenAccounted'
<1>1. CASE Move \/ DetailExpires \/ SlotElapses \/ UNCHANGED vars
  <2>1. UNCHANGED <<status, why, heal, waiting, reader>>
    BY <1>1 DEF Move, DetailExpires, SlotElapses, vars, rows, work
  <2> QED
    BY <2>1 DEF BrokenAccounted, Pending
<1>2. PICK p \in Pages : TRUE
  OBVIOUS
<1> QED
  BY <1>1, <1>2, ReaderAccounts, JobAccounts, AdminAccounts DEF Next

\* Self-healing misses no page (imageByIdController.ts, randomService.ts): a page
\* that a request marked broken is about to be healed, or one of the named
\* failures happened since the mark, for any number of pages, requests and jobs.
THEOREM BrokenAlwaysAccounted == Spec => []BrokenAccounted
<1>1. Init => BrokenAccounted
  BY DEF Init, BrokenAccounted
<1>2. TypeInv => TypeOK
  BY DEF TypeInv
<1>3. TypeInv /\ BrokenAccounted /\ [Next]_vars => BrokenAccounted'
  BY <1>2, NextAccounts
<1> QED
  BY <1>1, <1>3, AlwaysTypes, PTL DEF Spec

-----------------------------------------------------------------------------
(***************************************************************************)
(* What the admin turned off.                                              *)
(***************************************************************************)

Off == {"disabled", "absent"}

\* A step that decides nothing and turns nothing on.
LEMMA StaysOff ==
  ASSUME OffUntilRevoked, wanted' = wanted, revoked \subseteq revoked',
         \A p \in Pages : status[p] \in Off /\ p \notin revoked' => status'[p] \in Off
  PROVE  OffUntilRevoked'
BY DEF OffUntilRevoked, Off

LEMMA MarkStaysOff ==
  ASSUME TypeOK, OffUntilRevoked, NEW p \in Pages, Broken(p), wanted' = wanted
  PROVE  OffUntilRevoked'
<1>1. revoked \subseteq revoked'
  BY DEF Broken
<1>2. ASSUME NEW q \in Pages, status[q] \in Off, q \notin revoked'
      PROVE  status'[q] \in Off
  <2>1. CASE q = p
    BY <1>2, <2>1 DEF Broken, Off, TypeOK
  <2>2. CASE q # p
    BY <1>2, <2>2 DEF Broken, TypeOK
  <2> QED
    BY <2>1, <2>2
<1> QED
  BY <1>1, <1>2, StaysOff

LEMMA ReaderStaysOff ==
  ASSUME TypeOK, OffUntilRevoked, NEW r \in Readers, NEW p \in Pages,
         \/ OpenById(r, p) \/ OpenRandom(r, p)
         \/ ReaderStep(r) \/ Throttled(r) \/ StreamFails(r) \/ Dies(r)
  PROVE  OffUntilRevoked'
<1>1. CASE Mark(r) \/ MarkStream(r)
  <2>1. reader[r].page \in Pages
    BY ReaderFields
  <2> QED
    BY <1>1, <2>1, MarkStaysOff DEF Mark, MarkStream
<1>2. CASE UNCHANGED <<status, wanted, revoked>>
  BY <1>2, StaysOff
<1> QED
  BY <1>1, <1>2 DEF ReaderStep, OpenById, OpenRandom, Open, Throttled, StreamFails, Dies,
       Served, Refused, Ends, Leave, EnqueueHeal, rows

LEMMA JobStaysOff ==
  ASSUME TypeOK, OffUntilRevoked, JobStep \/ HealFails \/ HydrateFetches \/ HydrateWrites
  PROVE  OffUntilRevoked'
<1>1. CASE HealWrites
  <2>1. wanted' = wanted /\ revoked' = revoked
    BY <1>1 DEF HealWrites
  <2>2. \A p \in Pages : status[p] \in Off => status'[p] \in Off
    BY <1>1 DEF HealWrites, Off
  <2> QED
    BY <2>1, <2>2, StaysOff
<1>2. CASE UNCHANGED <<status, wanted, revoked>>
  BY <1>2, StaysOff
<1> QED
  BY <1>1, <1>2 DEF JobStep, HealTakes, HealFetches, HealFails, HydrateFetches,
       HydrateWrites, rows

LEMMA AdminStaysOff ==
  ASSUME TypeOK, OffUntilRevoked, (\E p \in Pages : Enable(p) \/ Disable(p)) \/ Rollback
  PROVE  OffUntilRevoked'
<1>1. ASSUME NEW p \in Pages, Enable(p) PROVE OffUntilRevoked'
  <2>1. /\ wanted' = [wanted EXCEPT ![p] = "on"] /\ revoked' = revoked \ {p}
        /\ status' = [q \in Pages |-> IF q \in {p} THEN "active" ELSE status[q]]
    BY <1>1 DEF Enable, SetStatus
  <2>2. wanted'[p] = "on" /\ \A q \in Pages \ {p} : wanted'[q] = wanted[q]
    BY <2>1 DEF TypeOK
  <2> QED
    BY <2>1, <2>2 DEF OffUntilRevoked
<1>2. ASSUME NEW p \in Pages, Disable(p) PROVE OffUntilRevoked'
  <2>1. /\ wanted' = [wanted EXCEPT ![p] = "off"] /\ revoked' = revoked \ {p}
        /\ status' = [q \in Pages |-> IF q \in {p} THEN "disabled" ELSE status[q]]
    BY <1>2 DEF Disable, SetStatus
  <2>2. \A q \in Pages \ {p} : wanted'[q] = wanted[q]
    BY <2>1 DEF TypeOK
  <2> QED
    BY <2>1, <2>2 DEF OffUntilRevoked
<1>3. CASE Rollback
  <2>1. PICK to \in Off : SetStatus(Rows, to)
    BY <1>3 DEF Rollback, Off
  <2>2. \A p \in Pages : status'[p] \in Off
    BY <2>1 DEF SetStatus, Rows, Off
  <2> QED
    BY <2>2 DEF OffUntilRevoked, Off
<1> QED
  BY <1>1, <1>2, <1>3

LEMMA NextStaysOff ==
  ASSUME TypeOK, OffUntilRevoked, [Next]_vars
  PROVE  OffUntilRevoked'
<1>1. CASE Move \/ DetailExpires \/ SlotElapses \/ UNCHANGED vars
  <2>1. UNCHANGED <<status, wanted, revoked>>
    BY <1>1 DEF Move, DetailExpires, SlotElapses, vars, rows
  <2> QED
    BY <2>1, StaysOff
<1>2. PICK p \in Pages : TRUE
  OBVIOUS
<1> QED
  BY <1>1, <1>2, ReaderStaysOff, JobStaysOff, AdminStaysOff DEF Next

\* What the admin turned off stays off, whatever jobs were under way and however
\* often they are retried, until a request marks the row broken: only that mark,
\* which does not look at the status it replaces, can undo a decision.
THEOREM StaysOffUntilRevoked == Spec => []OffUntilRevoked
<1>1. Init => OffUntilRevoked
  BY DEF Init, OffUntilRevoked
<1>2. TypeInv => TypeOK
  BY DEF TypeInv
<1>3. TypeInv /\ OffUntilRevoked /\ [Next]_vars => OffUntilRevoked'
  BY <1>2, NextStaysOff
<1> QED
  BY <1>1, <1>3, AlwaysTypes, PTL DEF Spec
=============================================================================
