--------------------------- MODULE ServicesProofs ---------------------------
(***************************************************************************)
(* Proofs about Services for any requests, limiters and plans, any         *)
(* addresses and administrators, any illusts, calls and windows: what the  *)
(* limiters count is who holds their slots, a rollback of the easy_proxies *)
(* endpoints sticks, and hydration on demand keeps its quota and does not  *)
(* do an illust twice.                                                     *)
(***************************************************************************)
EXTENDS Services, FiniteSetTheorems, WellFoundedInduction, TLAPS

USE EndpointsAssumption DEF Endpoints!EndpointAssumption

-----------------------------------------------------------------------------
(***************************************************************************)
(* The endpoints.  RollbackSticks speaks of the moment when nothing is     *)
(* left that may enable a row.  What makes it inductive is what holds from *)
(* the disabling on, while the setting is not yet written.                 *)
(***************************************************************************)
NoneEnabled ==
  \A a \in Addresses : ~(endpoint[a].source = "easy_proxies" /\ endpoint[a].enabled)

ImportsThem(y) == Endpoints!Importing(y) /\ act[y].source = "easy_proxies"
SavesOn(y)     == act[y].pc = "save_write" /\ act[y].read.auto

\* Nothing is under way that enables a row or turns the refresh on.
NothingUnderWay ==
  /\ \A y \in Endpoints!Actors : ~ImportsThem(y)
  /\ \A y \in Admins : ~SavesOn(y)

\* While nothing but an unwritten setting may enable a row, none is enabled and
\* nothing is under way; once the setting is written it is there and off.
RollbackInv ==
  /\ why \subseteq {"unwritten"} => NoneEnabled /\ NothingUnderWay
  /\ why = {} => setting.here /\ ~setting.auto
  /\ \A y \in Admins : act[y].pc = "save_write" => act[y].read.here

EndpointsInv == Endpoints!TypeOK /\ RollbackInv

LEMMA ActorTypes ==
  ASSUME Endpoints!TypeOK, NEW x \in Endpoints!Actors
  PROVE  /\ act[x].pc \in Endpoints!PCs
         /\ act[x].todo \in SUBSET Addresses /\ act[x].cur \in SUBSET Addresses
         /\ act[x].source \in {"easy_proxies", "manual"}
         /\ act[x].policy \in Endpoints!Policies
         /\ act[x].enabled \in BOOLEAN
         /\ act[x].read \in Endpoints!Setting
BY DEF Endpoints!TypeOK, Endpoints!Actor

LEMMA InitEndpointsInv == Endpoints!Init => EndpointsInv
<1> SUFFICES ASSUME Endpoints!Init PROVE EndpointsInv
  OBVIOUS
<1> USE DEF Endpoints!Init
<1>1. Endpoints!Idle \in Endpoints!Actor
  BY DEF Endpoints!Idle, Endpoints!Actor, Endpoints!PCs, Endpoints!Policies,
         Endpoints!EnvSetting, Endpoints!Setting
<1>7. {Endpoints!NoRow, [source |-> "manual", enabled |-> TRUE]} \subseteq Endpoints!Row
  BY DEF Endpoints!Row, Endpoints!NoRow, Endpoints!Sources
<1>2. endpoint \in [Addresses -> Endpoints!Row]
  BY <1>7
<1>4. setting \in Endpoints!Setting
  BY DEF Endpoints!Setting
<1>5. why \subseteq Endpoints!Reasons
  BY DEF Endpoints!Reasons
<1>6. Endpoints!TypeOK
  BY <1>1, <1>2, <1>4, <1>5 DEF Endpoints!TypeOK
<1>3. RollbackInv
  BY DEF RollbackInv, Endpoints!Idle, Endpoints!Actors
<1> QED
  BY <1>3, <1>6 DEF EndpointsInv

\* The setting a step reads: the one there is, or the environment.
LEMMA ReadSetting ==
  ASSUME Endpoints!TypeOK
  PROVE  Endpoints!Config \in Endpoints!Setting /\ Endpoints!EnvSetting \in Endpoints!Setting
BY DEF Endpoints!TypeOK, Endpoints!Config, Endpoints!EnvSetting, Endpoints!Setting

LEMMA IdleType == Endpoints!Idle \in Endpoints!Actor
BY DEF Endpoints!Idle, Endpoints!Actor, Endpoints!PCs, Endpoints!Policies,
       Endpoints!EnvSetting, Endpoints!Setting

\* What the steps make of an actor is an actor.
LEMMA ActorGoes ==
  ASSUME NEW r \in Endpoints!Actor, NEW p \in Endpoints!PCs
  PROVE  [r EXCEPT !.pc = p] \in Endpoints!Actor
BY DEF Endpoints!Actor

LEMMA ActorReads ==
  ASSUME NEW r \in Endpoints!Actor, NEW p \in Endpoints!PCs, NEW c \in Endpoints!Setting
  PROVE  [r EXCEPT !.pc = p, !.read = c] \in Endpoints!Actor
BY DEF Endpoints!Actor

LEMMA ActorWorks ==
  ASSUME NEW r \in Endpoints!Actor, NEW p \in Endpoints!PCs,
         NEW t \in SUBSET Addresses, NEW c \in SUBSET Addresses
  PROVE  [r EXCEPT !.pc = p, !.todo = t, !.cur = c] \in Endpoints!Actor
BY DEF Endpoints!Actor

LEMMA Counted ==
  ASSUME Endpoints!TypeOK
  PROVE  /\ Endpoints!Fault => faults' \in 0..MaxFaults
         /\ Endpoints!AdminActs => admin' \in 0..MaxAdmin
BY DEF Endpoints!TypeOK, Endpoints!Fault, Endpoints!AdminActs

LEMMA ReadLineKeeps ==
  ASSUME EndpointsInv, NEW x \in Endpoints!Actors, Endpoints!ReadLine(x)
  PROVE  EndpointsInv'
<1> USE DEF EndpointsInv, Endpoints!ReadLine
<1>1. PICK a \in act[x].todo :
        \/ act' = [act EXCEPT ![x] = [act[x] EXCEPT !.todo = @ \ {a}]]
        \/ act' = [act EXCEPT ![x] = [act[x] EXCEPT !.todo = @ \ {a}, !.pc = "upsert", !.cur = {a}]]
  OBVIOUS
<1>2. /\ act[x] \in Endpoints!Actor
      /\ act[x].todo \ {a} \in SUBSET Addresses /\ {a} \in SUBSET Addresses
  BY ActorTypes DEF Endpoints!TypeOK
<1>5. [act[x] EXCEPT !.todo = @ \ {a}] \in Endpoints!Actor
  BY <1>2 DEF Endpoints!Actor
<1>6. [act[x] EXCEPT !.todo = @ \ {a}, !.pc = "upsert", !.cur = {a}] \in Endpoints!Actor
  BY <1>2 DEF Endpoints!Actor, Endpoints!PCs
<1>3. Endpoints!TypeOK'
  BY <1>1, <1>5, <1>6 DEF Endpoints!TypeOK
<1>4. RollbackInv'
  BY DEF RollbackInv, NoneEnabled, NothingUnderWay, ImportsThem, SavesOn, Endpoints!Importing,
         Endpoints!TypeOK, Endpoints!Actors
<1> QED
  BY <1>3, <1>4

LEMMA UpsertKeeps ==
  ASSUME EndpointsInv, NEW x \in Endpoints!Actors, Endpoints!Upsert(x)
  PROVE  EndpointsInv'
<1> USE DEF EndpointsInv, Endpoints!Upsert
<1>1. [act[x] EXCEPT !.pc = "line", !.cur = {}] \in Endpoints!Actor
  BY DEF Endpoints!TypeOK, Endpoints!Actor, Endpoints!PCs
<1>2. act' \in [Endpoints!Actors -> Endpoints!Actor]
  BY <1>1 DEF Endpoints!TypeOK
<1>3. [source |-> act[x].source, enabled |-> act[x].enabled] \in Endpoints!Row
  BY ActorTypes DEF Endpoints!Row, Endpoints!Sources
<1>4. endpoint' \in [Addresses -> Endpoints!Row]
  BY <1>3 DEF Endpoints!TypeOK
<1>5. Endpoints!TypeOK'
  BY <1>2, <1>4 DEF Endpoints!TypeOK
<1>6. RollbackInv'
  BY DEF RollbackInv, NoneEnabled, NothingUnderWay, ImportsThem, SavesOn, Endpoints!Importing,
         Endpoints!TypeOK, Endpoints!Actors
<1> QED
  BY <1>5, <1>6

LEMMA LineFailsKeeps ==
  ASSUME EndpointsInv, NEW x \in Endpoints!Actors, Endpoints!LineFails(x)
  PROVE  EndpointsInv'
<1> USE DEF EndpointsInv, Endpoints!LineFails, Endpoints!Fault
<1>1. PICK a : act' = [act EXCEPT ![x].pc = "line", ![x].todo = @ \ {a}, ![x].cur = {}]
  OBVIOUS
<1>2. [act[x] EXCEPT !.pc = "line", !.todo = @ \ {a}, !.cur = {}] \in Endpoints!Actor
  BY DEF Endpoints!TypeOK, Endpoints!Actor, Endpoints!PCs
<1>3. act' \in [Endpoints!Actors -> Endpoints!Actor]
  BY <1>1, <1>2 DEF Endpoints!TypeOK
<1>4. Endpoints!TypeOK'
  BY <1>3 DEF Endpoints!TypeOK
<1>5. RollbackInv'
  BY <1>1 DEF RollbackInv, NoneEnabled, NothingUnderWay, ImportsThem, SavesOn,
         Endpoints!Importing, Endpoints!TypeOK, Endpoints!Actors
<1> QED
  BY <1>4, <1>5

LEMMA ExportKeeps ==
  ASSUME EndpointsInv, NEW x \in Endpoints!Actors, Endpoints!Export(x)
  PROVE  EndpointsInv'
<1> USE DEF EndpointsInv, Endpoints!Export, Endpoints!Stop
<1>1. [act[x] EXCEPT !.pc = "line", !.todo = Exported] \in Endpoints!Actor
  BY ZenonT(40) DEF Endpoints!TypeOK, Endpoints!Actor, Endpoints!PCs
<1>2. act' \in [Endpoints!Actors -> Endpoints!Actor]
  BY <1>1, IdleType DEF Endpoints!TypeOK
<1>3. due' \in BOOLEAN /\ faults' \in 0..MaxFaults
  <2>1. due \in BOOLEAN /\ faults \in 0..MaxFaults
    BY DEF Endpoints!TypeOK
  <2>2. faults' = faults \/ Endpoints!Fault
    OBVIOUS
  <2>3. due' = due \/ due' = (due /\ x # "auto")
    OBVIOUS
  <2>4. faults' \in 0..MaxFaults
    BY <2>1, <2>2, Counted
  <2> QED
    BY <2>1, <2>3, <2>4
<1>4. Endpoints!TypeOK'
  BY <1>2, <1>3 DEF Endpoints!TypeOK
<1>5. /\ \A y \in Endpoints!Actors : y # x => act'[y] = act[y]
      /\ act'[x].source \in {act[x].source, "easy_proxies"} /\ act'[x].pc \in {"line", "idle"}
      /\ act'[x].pc = "line" => act'[x].source = act[x].source
  <2>1. CASE act' = [act EXCEPT ![x].pc = "line", ![x].todo = Exported]
    BY <2>1 DEF Endpoints!TypeOK, Endpoints!Actor
  <2>2. CASE act' = [act EXCEPT ![x] = Endpoints!Idle]
    BY <2>2 DEF Endpoints!TypeOK, Endpoints!Idle
  <2> QED
    BY <2>1, <2>2
<1>6. RollbackInv'
  BY <1>5 DEF RollbackInv, NoneEnabled, NothingUnderWay, ImportsThem, SavesOn,
              Endpoints!Importing, Endpoints!Actors
<1> QED
  BY <1>4, <1>6

LEMMA ImportedKeeps ==
  ASSUME EndpointsInv, NEW x \in Endpoints!Actors, Endpoints!Imported(x)
  PROVE  EndpointsInv'
<1> USE DEF EndpointsInv, Endpoints!Imported, Endpoints!Stop
<1>1. Endpoints!TypeOK'
  BY IdleType DEF Endpoints!TypeOK
<1>2. RollbackInv'
  BY DEF RollbackInv, NoneEnabled, NothingUnderWay, ImportsThem, SavesOn,
         Endpoints!Importing, Endpoints!TypeOK, Endpoints!Actors, Endpoints!Idle
<1> QED
  BY <1>1, <1>2

-----------------------------------------------------------------------------
(* The automatic refresh.                                                  *)

LEMMA TickKeeps ==
  ASSUME EndpointsInv, Endpoints!Tick
  PROVE  EndpointsInv'
<1> USE DEF EndpointsInv, Endpoints!Tick, Endpoints!Goto
<1>1. "auto" \in Endpoints!Actors
  BY DEF Endpoints!Actors
<1>2. Endpoints!TypeOK'
  BY <1>1, ActorGoes DEF Endpoints!TypeOK, Endpoints!PCs
<1>3. RollbackInv'
  BY <1>1 DEF RollbackInv, NoneEnabled, NothingUnderWay, ImportsThem, SavesOn,
              Endpoints!Importing, Endpoints!TypeOK
<1> QED
  BY <1>2, <1>3

\* A tick that goes on to refresh has read a setting that asks for it, or has the
\* environment for it: then something else than an unwritten setting is a reason.
LEMMA TickConfigKeeps ==
  ASSUME EndpointsInv, Endpoints!TickConfig
  PROVE  EndpointsInv'
<1> USE DEF EndpointsInv
<1>1. "auto" \in Endpoints!Actors
  BY DEF Endpoints!Actors
<1>2. PICK c \in {Endpoints!Config, Endpoints!EnvSetting} :
        /\ IF c = Endpoints!Config THEN UNCHANGED faults ELSE Endpoints!Fault
        /\ due' = (due /\ c.url /\ c.auto)
        /\ IF due'
           THEN /\ act' = [act EXCEPT !["auto"].pc = "export", !["auto"].read = c]
                /\ why' = why \union (IF c # Endpoints!Config THEN {"fallback"} ELSE {})
                              \union (IF "unwritten" \in why THEN {"in_flight"} ELSE {})
           ELSE Endpoints!Stop("auto") /\ UNCHANGED why
  BY DEF Endpoints!TickConfig
<1>3. UNCHANGED <<endpoint, setting, admin>>
  BY DEF Endpoints!TickConfig
<1>4. c \in Endpoints!Setting
  BY ReadSetting
<1>5. due' \in BOOLEAN /\ faults' \in 0..MaxFaults /\ why' \subseteq Endpoints!Reasons
  <2>1. due' \in BOOLEAN
    BY <1>2
  <2>2. faults' \in 0..MaxFaults
    BY <1>2 DEF Endpoints!TypeOK, Endpoints!Fault
  <2>3. why' \subseteq Endpoints!Reasons
    BY <1>2 DEF Endpoints!TypeOK, Endpoints!Reasons
  <2> QED
    BY <2>1, <2>2, <2>3
<1>6. act' \in [Endpoints!Actors -> Endpoints!Actor]
  <2>1. [act["auto"] EXCEPT !.pc = "export", !.read = c] \in Endpoints!Actor
    BY <1>1, <1>4, ActorReads DEF Endpoints!TypeOK, Endpoints!PCs
  <2> QED
    BY <1>1, <1>2, <2>1, IdleType DEF Endpoints!TypeOK, Endpoints!Stop
<1>7. Endpoints!TypeOK'
  BY <1>3, <1>5, <1>6 DEF Endpoints!TypeOK
<1>8. CASE due'
  <2>1. \A y \in Admins : act'[y] = act[y]
    BY <1>2, <1>8 DEF Endpoints!TypeOK, Endpoints!Actors
  <2>2. ~(why' \subseteq {"unwritten"})
    <3>1. SUFFICES ASSUME why' \subseteq {"unwritten"} PROVE FALSE
      OBVIOUS
    <3>2. why = {} /\ c = Endpoints!Config
      BY <1>2, <1>8, <3>1
    <3>3. c.auto
      BY <1>2, <1>8
    <3> QED
      BY <3>2, <3>3 DEF RollbackInv, Endpoints!Config
  <2>3. RollbackInv'
    BY <2>1, <2>2 DEF RollbackInv
  <2> QED
    BY <1>7, <2>3
<1>9. CASE ~due'
  <2>1. act' = [act EXCEPT !["auto"] = Endpoints!Idle] /\ UNCHANGED <<why, endpoint, setting>>
    BY <1>2, <1>3, <1>9 DEF Endpoints!Stop
  <2>2. RollbackInv'
    BY <2>1, <1>1 DEF RollbackInv, NoneEnabled, NothingUnderWay, ImportsThem, SavesOn,
              Endpoints!Importing, Endpoints!TypeOK, Endpoints!Idle
  <2> QED
    BY <1>7, <2>2
<1> QED
  BY <1>8, <1>9

LEMMA IntervalPassesKeeps ==
  ASSUME EndpointsInv, Endpoints!IntervalPasses
  PROVE  EndpointsInv'
BY DEF EndpointsInv, Endpoints!IntervalPasses, Endpoints!TypeOK, RollbackInv, NoneEnabled,
       NothingUnderWay, ImportsThem, SavesOn, Endpoints!Importing

-----------------------------------------------------------------------------
(* The console.                                                            *)

LEMMA PasteUrisKeeps ==
  ASSUME EndpointsInv, NEW x \in Admins, Endpoints!PasteUris(x)
  PROVE  EndpointsInv'
<1> USE DEF EndpointsInv, Endpoints!PasteUris
<1>0. x \in Endpoints!Actors
  BY DEF Endpoints!Actors
<1>1. PICK todo \in SUBSET Addresses, policy \in Endpoints!Policies, enabled \in BOOLEAN :
        act' = [act EXCEPT ![x] = [Endpoints!Idle EXCEPT
                  !.pc = "line", !.todo = todo, !.source = "manual",
                  !.policy = policy, !.enabled = enabled]]
  OBVIOUS
<1> DEFINE r == [Endpoints!Idle EXCEPT
                  !.pc = "line", !.todo = todo, !.source = "manual",
                  !.policy = policy, !.enabled = enabled]
<1>2. r \in Endpoints!Actor
  BY IdleType DEF Endpoints!Actor, Endpoints!PCs
<1>3. r.pc = "line" /\ r.source = "manual"
  BY DEF Endpoints!Idle
<1> HIDE DEF r
<1>4. act' = [act EXCEPT ![x] = r]
  BY <1>1 DEF r
<1>5. Endpoints!TypeOK'
  BY <1>2, <1>4, Counted DEF Endpoints!TypeOK
<1>6. RollbackInv'
  BY <1>0, <1>3, <1>4 DEF RollbackInv, NoneEnabled, NothingUnderWay, ImportsThem, SavesOn,
              Endpoints!Importing, Endpoints!TypeOK
<1> QED
  BY <1>5, <1>6

LEMMA ImportNowKeeps ==
  ASSUME EndpointsInv, NEW x \in Admins, Endpoints!ImportNow(x)
  PROVE  EndpointsInv'
<1> USE DEF EndpointsInv, Endpoints!ImportNow
<1>0. x \in Endpoints!Actors
  BY DEF Endpoints!Actors
<1>1. [Endpoints!Idle EXCEPT !.pc = "export", !.read = Endpoints!Config] \in Endpoints!Actor
  BY IdleType, ReadSetting, ActorReads DEF Endpoints!PCs
<1>2. why' \subseteq Endpoints!Reasons
  BY DEF Endpoints!TypeOK, Endpoints!Reasons
<1>3. Endpoints!TypeOK'
  BY <1>1, <1>2, Counted DEF Endpoints!TypeOK
<1>4. act'[x].pc = "export" /\ \A y \in Admins : y # x => act'[y] = act[y]
  BY <1>0 DEF Endpoints!TypeOK, Endpoints!Idle, Endpoints!Actors
<1>5. RollbackInv'
  BY <1>4 DEF RollbackInv
<1> QED
  BY <1>3, <1>5

LEMMA RollbackKeeps ==
  ASSUME EndpointsInv, NEW x \in Admins, Endpoints!Rollback(x)
  PROVE  EndpointsInv'
<1> USE DEF EndpointsInv, Endpoints!Rollback, Endpoints!Goto
<1>0. x \in Endpoints!Actors
  BY DEF Endpoints!Actors
<1>1. Endpoints!TypeOK'
  BY <1>0, ActorGoes, Counted DEF Endpoints!TypeOK, Endpoints!PCs
<1>2. RollbackInv'
  BY <1>0 DEF RollbackInv, NoneEnabled, NothingUnderWay, ImportsThem, SavesOn,
              Endpoints!Importing, Endpoints!TypeOK
<1> QED
  BY <1>1, <1>2

\* The disabling names everything that is under way.
LEMMA DisableRowsKeeps ==
  ASSUME EndpointsInv, NEW x \in Admins, Endpoints!DisableRows(x)
  PROVE  EndpointsInv'
<1> USE DEF EndpointsInv, Endpoints!DisableRows, Endpoints!Goto
<1>0. x \in Endpoints!Actors
  BY DEF Endpoints!Actors
<1>1. \A a \in Addresses : [endpoint[a] EXCEPT !.enabled = FALSE] \in Endpoints!Row
  BY DEF Endpoints!TypeOK, Endpoints!Row
<1>2. endpoint' \in [Addresses -> Endpoints!Row]
  BY <1>1 DEF Endpoints!TypeOK
<1>3. act' \in [Endpoints!Actors -> Endpoints!Actor]
  BY <1>0, ActorGoes DEF Endpoints!TypeOK, Endpoints!PCs
<1>4. why' \subseteq Endpoints!Reasons
  BY DEF Endpoints!UnderWay, Endpoints!Reasons
<1>5. Endpoints!TypeOK'
  BY <1>2, <1>3, <1>4 DEF Endpoints!TypeOK
<1>6. NoneEnabled'
  BY DEF NoneEnabled, Endpoints!TypeOK, Endpoints!Row
<1>7. /\ \A y \in Endpoints!Actors : y # x => act'[y] = act[y]
      /\ act'[x].pc = "undo_config"
  BY <1>0 DEF Endpoints!TypeOK
<1>8. why' \subseteq {"unwritten"} => NothingUnderWay'
  BY <1>7 DEF Endpoints!UnderWay, NothingUnderWay, ImportsThem, SavesOn, Endpoints!Importing,
              Endpoints!Actors
<1>9. RollbackInv'
  BY <1>6, <1>7, <1>8 DEF RollbackInv, Endpoints!Actors
<1> QED
  BY <1>5, <1>9

LEMMA ReadBeforeUndoKeeps ==
  ASSUME EndpointsInv, NEW x \in Admins, Endpoints!ReadBeforeUndo(x)
  PROVE  EndpointsInv'
<1> USE DEF EndpointsInv
<1>0. x \in Endpoints!Actors
  BY DEF Endpoints!Actors
<1>1. PICK c \in {Endpoints!Config, Endpoints!EnvSetting} :
        /\ IF c = Endpoints!Config THEN UNCHANGED faults ELSE Endpoints!Fault
        /\ act' = [act EXCEPT ![x].pc = IF c.url THEN "undo_write" ELSE "idle",
                              ![x].read = c]
  BY DEF Endpoints!ReadBeforeUndo
<1>2. act[x].pc = "undo_config" /\ UNCHANGED <<endpoint, setting, due, why, admin>>
  BY DEF Endpoints!ReadBeforeUndo
<1> DEFINE p == IF c.url THEN "undo_write" ELSE "idle"
<1>3. c \in Endpoints!Setting
  BY ReadSetting
<1>4. p \in Endpoints!PCs /\ p \in {"undo_write", "idle"}
  BY DEF Endpoints!PCs
<1>5. act' = [act EXCEPT ![x].pc = p, ![x].read = c]
  BY <1>1
<1> HIDE DEF p
<1>6. act' \in [Endpoints!Actors -> Endpoints!Actor]
  BY <1>0, <1>3, <1>4, <1>5, ActorReads DEF Endpoints!TypeOK
<1>7. faults' \in 0..MaxFaults
  BY <1>1, Counted DEF Endpoints!TypeOK
<1>8. Endpoints!TypeOK'
  BY <1>2, <1>6, <1>7 DEF Endpoints!TypeOK
<1>9. /\ \A y \in Endpoints!Actors : y # x => act'[y] = act[y]
      /\ act'[x].pc = p
  BY <1>0, <1>5 DEF Endpoints!TypeOK, Endpoints!Actor
<1>10. RollbackInv'
  BY <1>2, <1>4, <1>9 DEF RollbackInv, NoneEnabled, NothingUnderWay, ImportsThem, SavesOn,
              Endpoints!Importing, Endpoints!Actors
<1> QED
  BY <1>8, <1>10

\* The writing of the setting takes the place of the reason "unwritten".
LEMMA UndoSettingKeeps ==
  ASSUME EndpointsInv, NEW x \in Admins, Endpoints!UndoSetting(x)
  PROVE  EndpointsInv'
<1> USE DEF EndpointsInv
<1>0. x \in Endpoints!Actors
  BY DEF Endpoints!Actors
<1>1. /\ act' = [act EXCEPT ![x] = Endpoints!Idle]
      /\ UNCHANGED <<endpoint, due, admin>>
      /\ \/ /\ setting' = [act[x].read EXCEPT !.here = TRUE, !.auto = FALSE]
            /\ why' = (why \ {"unwritten"}) \union Endpoints!UnderWay
            /\ UNCHANGED faults
         \/ Endpoints!Fault /\ UNCHANGED <<setting, why>>
  BY DEF Endpoints!UndoSetting, Endpoints!Stop
<1>2. act' \in [Endpoints!Actors -> Endpoints!Actor]
  BY <1>1, IdleType DEF Endpoints!TypeOK
<1>3. /\ \A y \in Endpoints!Actors : y # x => act'[y] = act[y]
      /\ act'[x].pc = "idle"
  BY <1>0, <1>1 DEF Endpoints!TypeOK, Endpoints!Idle
<1>4. CASE Endpoints!Fault /\ UNCHANGED <<setting, why>>
  <2>1. Endpoints!TypeOK'
    BY <1>1, <1>2, <1>4, Counted DEF Endpoints!TypeOK
  <2>2. RollbackInv'
    BY <1>1, <1>3, <1>4 DEF RollbackInv, NoneEnabled, NothingUnderWay, ImportsThem, SavesOn,
              Endpoints!Importing, Endpoints!Actors
  <2> QED
    BY <2>1, <2>2
<1>5. CASE /\ setting' = [act[x].read EXCEPT !.here = TRUE, !.auto = FALSE]
           /\ why' = (why \ {"unwritten"}) \union Endpoints!UnderWay
           /\ UNCHANGED faults
  <2>1. act[x].read \in Endpoints!Setting
    BY <1>0, ActorTypes
  <2>2. setting' \in Endpoints!Setting /\ setting'.here /\ ~setting'.auto
    BY <1>5, <2>1 DEF Endpoints!Setting
  <2>3. why' \subseteq Endpoints!Reasons
    BY <1>5 DEF Endpoints!TypeOK, Endpoints!UnderWay, Endpoints!Reasons
  <2>4. Endpoints!TypeOK'
    BY <1>1, <1>2, <1>5, <2>2, <2>3 DEF Endpoints!TypeOK
  <2>5. why' \subseteq {"unwritten"} => why \subseteq {"unwritten"}
    BY <1>5
  <2>6. RollbackInv'
    BY <1>1, <1>3, <2>2, <2>5 DEF RollbackInv, NoneEnabled, NothingUnderWay, ImportsThem, SavesOn,
              Endpoints!Importing, Endpoints!Actors
  <2> QED
    BY <2>4, <2>6
<1> QED
  BY <1>1, <1>4, <1>5

LEMMA SaveReadKeeps ==
  ASSUME EndpointsInv, NEW x \in Admins, Endpoints!SaveRead(x)
  PROVE  EndpointsInv'
<1> USE DEF EndpointsInv
<1>0. x \in Endpoints!Actors
  BY DEF Endpoints!Actors
<1>1. PICK url \in BOOLEAN, auto \in BOOLEAN, secret \in {"keep", "set", "clear"}, ok \in BOOLEAN :
       /\ IF ok THEN UNCHANGED faults ELSE Endpoints!Fault
       /\ act' = [act EXCEPT ![x].pc = "save_write",
                             ![x].read = [here |-> TRUE, url |-> url, auto |-> auto,
                                secret |-> (secret = "set")
                                  \/ (secret = "keep" /\ ok /\ setting.secret)]]
       /\ why' = IF auto THEN why \union {"saved_on"} ELSE why
  BY DEF Endpoints!SaveRead
<1>2. Endpoints!AdminActs /\ UNCHANGED <<endpoint, setting, due>>
  BY DEF Endpoints!SaveRead
<1> DEFINE s == (secret = "set") \/ (secret = "keep" /\ ok /\ setting.secret)
           c == [here |-> TRUE, url |-> url, auto |-> auto, secret |-> s]
<1>3. act' = [act EXCEPT ![x].pc = "save_write", ![x].read = c]
  BY <1>1
<1>4. c \in Endpoints!Setting /\ c.here /\ c.auto = auto
  <2>1. s \in BOOLEAN
    OBVIOUS
  <2> HIDE DEF s
  <2> QED
    BY <2>1 DEF Endpoints!Setting
<1> HIDE DEF c
<1>5. act' \in [Endpoints!Actors -> Endpoints!Actor]
  BY <1>0, <1>3, <1>4, ActorReads DEF Endpoints!TypeOK, Endpoints!PCs
<1>6. why' \subseteq Endpoints!Reasons
  BY <1>1 DEF Endpoints!TypeOK, Endpoints!Reasons
<1>7. faults' \in 0..MaxFaults
  BY <1>1, Counted DEF Endpoints!TypeOK
<1>8. Endpoints!TypeOK'
  BY <1>2, <1>5, <1>6, <1>7, Counted DEF Endpoints!TypeOK
<1>9. /\ \A y \in Endpoints!Actors : y # x => act'[y] = act[y]
      /\ act'[x].pc = "save_write" /\ act'[x].read = c
  BY <1>0, <1>3 DEF Endpoints!TypeOK, Endpoints!Actor
<1>10. why' \subseteq {"unwritten"} => ~auto
  BY <1>1
<1>11. why \subseteq why'
  BY <1>1
<1>12. RollbackInv'
  BY <1>2, <1>4, <1>9, <1>10, <1>11 DEF RollbackInv, NoneEnabled, NothingUnderWay, ImportsThem,
              SavesOn, Endpoints!Importing, Endpoints!Actors
<1> QED
  BY <1>8, <1>12

LEMMA SaveWriteKeeps ==
  ASSUME EndpointsInv, NEW x \in Admins, Endpoints!SaveWrite(x)
  PROVE  EndpointsInv'
<1> USE DEF EndpointsInv, Endpoints!SaveWrite, Endpoints!Stop
<1>0. x \in Endpoints!Actors
  BY DEF Endpoints!Actors
<1>1. Endpoints!TypeOK'
  BY <1>0, IdleType, ActorTypes DEF Endpoints!TypeOK
<1>2. RollbackInv'
  BY <1>0 DEF RollbackInv, NoneEnabled, NothingUnderWay, ImportsThem, SavesOn,
              Endpoints!Importing, Endpoints!TypeOK, Endpoints!Idle, Endpoints!Actors
<1> QED
  BY <1>1, <1>2

LEMMA EditRowKeeps ==
  ASSUME EndpointsInv, NEW a \in Addresses, Endpoints!EditRow(a)
  PROVE  EndpointsInv'
<1> USE DEF EndpointsInv
<1>1. PICK new \in {Endpoints!NoRow, [source |-> "manual", enabled |-> TRUE]}
                  \union {[endpoint[a] EXCEPT !.enabled = ~@]} :
         endpoint' = [endpoint EXCEPT ![a] = new]
  BY DEF Endpoints!EditRow
<1>2. /\ Endpoints!AdminActs /\ why' = why \union {"admin"}
      /\ UNCHANGED <<setting, act, due, faults>>
  BY DEF Endpoints!EditRow
<1>3. endpoint[a] \in Endpoints!Row
  BY DEF Endpoints!TypeOK
<1>4. [endpoint[a] EXCEPT !.enabled = ~@] \in Endpoints!Row
  BY <1>3 DEF Endpoints!Row
<1>5. new \in Endpoints!Row
  <2>1. {Endpoints!NoRow, [source |-> "manual", enabled |-> TRUE]} \subseteq Endpoints!Row
    BY DEF Endpoints!NoRow, Endpoints!Row, Endpoints!Sources
  <2> QED
    BY <1>4, <2>1
<1>6. why' \subseteq Endpoints!Reasons
  BY <1>2 DEF Endpoints!TypeOK, Endpoints!Reasons
<1>7. Endpoints!TypeOK'
  BY <1>1, <1>2, <1>5, <1>6, Counted DEF Endpoints!TypeOK
<1>8. RollbackInv'
  BY <1>2 DEF RollbackInv
<1> QED
  BY <1>7, <1>8

LEMMA NextEndpointsInv == EndpointsInv /\ Endpoints!Next => EndpointsInv'
<1> SUFFICES ASSUME EndpointsInv, Endpoints!Next PROVE EndpointsInv'
  OBVIOUS
<1> QED
  BY ReadLineKeeps, UpsertKeeps, LineFailsKeeps, ExportKeeps, ImportedKeeps, TickKeeps,
     TickConfigKeeps, IntervalPassesKeeps, PasteUrisKeeps, ImportNowKeeps, RollbackKeeps,
     DisableRowsKeeps, ReadBeforeUndoKeeps, UndoSettingKeeps, SaveReadKeeps, SaveWriteKeeps,
     EditRowKeeps DEF Endpoints!Next

LEMMA SameEndpointsInv == EndpointsInv /\ UNCHANGED <<endpoints, faults>> => EndpointsInv'
BY DEF endpoints, EndpointsInv, Endpoints!TypeOK, RollbackInv, NoneEnabled, NothingUnderWay,
       ImportsThem, SavesOn, Endpoints!Importing

EndpointsHold == focus = "endpoints" => EndpointsInv

\* After a rollback no easy_proxies endpoint is enabled again but by what was under
\* way, a tick that went by the environment, a save that asked for refreshes or an
\* administrator: for any addresses, any number of administrators and of failures.
THEOREM RollbackAlwaysSticks == Spec => []RollbackSticks
<1>1. Init => EndpointsHold
  BY InitEndpointsInv DEF Init, EndpointsHold
<1>2. EndpointsHold /\ [Next]_vars => EndpointsHold'
  <2> SUFFICES ASSUME EndpointsHold, [Next]_vars, focus' = "endpoints"
               PROVE  EndpointsInv'
    BY DEF EndpointsHold
  <2>1. CASE OfEndpoints /\ Endpoints!Next
    BY <2>1, NextEndpointsInv DEF EndpointsHold, OfEndpoints
  <2>2. CASE OfLimiter /\ Limiter!Next
    BY <2>2 DEF OfLimiter
  <2>3. CASE OfTokens \/ OfHydration
    BY <2>3 DEF OfTokens, OfHydration
  <2>4. CASE UNCHANGED vars
    BY <2>4, SameEndpointsInv DEF vars, EndpointsHold
  <2> QED
    BY <2>1, <2>2, <2>3, <2>4 DEF Next
<1>3. EndpointsHold => RollbackSticks
  BY DEF EndpointsHold, EndpointsInv, RollbackInv, NoneEnabled, RollbackSticks,
         Endpoints!RollbackSticks
<1> QED
  BY <1>1, <1>2, <1>3, PTL DEF Spec

-----------------------------------------------------------------------------
(***************************************************************************)
(* The limiters.  What a caller holds depends on how far it is in its      *)
(* plan; a limiter occurs once in a plan.                                  *)
(***************************************************************************)
LEMMA PlanFacts ==
  ASSUME NEW c \in Requests
  PROVE  /\ Plan[c] \in Seq(Seq(Limiters)) /\ Len(Plan[c]) \in Nat \ {0}
         /\ \A s \in 1..Len(Plan[c]) :
              /\ Plan[c][s] \in Seq(Limiters) /\ Len(Plan[c][s]) \in Nat \ {0}
              /\ \A i \in 1..Len(Plan[c][s]) : Plan[c][s][i] \in Limiters
<1> USE RequestsAssumption DEF Limiter!LimiterAssumption
<1>1. Plan[c] \in Seq(Seq(Limiters)) /\ Plan[c] # <<>>
  OBVIOUS
<1>2. Len(Plan[c]) \in Nat \ {0}
  BY <1>1
<1>3. ASSUME NEW s \in 1..Len(Plan[c])
      PROVE  /\ Plan[c][s] \in Seq(Limiters) /\ Len(Plan[c][s]) \in Nat \ {0}
             /\ \A i \in 1..Len(Plan[c][s]) : Plan[c][s][i] \in Limiters
  <2>1. s \in DOMAIN Plan[c] /\ Plan[c][s] \in Seq(Limiters)
    BY <1>1
  <2>2. Plan[c][s] # <<>>
    BY <2>1
  <2> QED
    BY <2>1, <2>2
<1> QED
  BY <1>1, <1>2, <1>3

LEMMA OncePlanned ==
  ASSUME NEW c \in Requests, NEW s \in 1..Len(Plan[c]), NEW t \in 1..Len(Plan[c]),
         NEW i \in 1..Len(Plan[c][s]), NEW j \in 1..Len(Plan[c][t]),
         Plan[c][s][i] = Plan[c][t][j]
  PROVE  s = t /\ i = j
<1>1. /\ s \in DOMAIN Plan[c] /\ t \in DOMAIN Plan[c]
      /\ i \in DOMAIN Plan[c][s] /\ j \in DOMAIN Plan[c][t]
  BY PlanFacts, SMTT(30)
<1> QED
  BY <1>1, RequestsAssumption DEF Limiter!LimiterAssumption

\* What c holds in its stage s, with h limiters of that stage taken.
HoldsAt(c, s, h) ==
  {l \in Limiters :
     \/ \E t \in 1..(s - 1) : \E i \in 1..Len(Plan[c][t]) : Plan[c][t][i] = l
     \/ \E i \in 1..h : Plan[c][s][i] = l}

LEMMA HoldsNothing ==
  ASSUME NEW c \in Requests
  PROVE  HoldsAt(c, 1, 0) = {}
BY DEF HoldsAt

LEMMA HoldsOneMore ==
  ASSUME NEW c \in Requests, NEW s \in 1..Len(Plan[c]), NEW h \in 0..(Len(Plan[c][s]) - 1)
  PROVE  /\ Plan[c][s][h + 1] \in Limiters
         /\ Plan[c][s][h + 1] \notin HoldsAt(c, s, h)
         /\ HoldsAt(c, s, h + 1) = HoldsAt(c, s, h) \union {Plan[c][s][h + 1]}
<1> DEFINE w == Plan[c][s][h + 1]
<1>1. /\ Len(Plan[c]) \in Nat /\ Len(Plan[c][s]) \in Nat
      /\ h + 1 \in 1..Len(Plan[c][s]) /\ h \in Nat /\ s \in Nat
  BY PlanFacts
<1>2. w \in Limiters
  BY <1>1, PlanFacts
<1>3. w \notin HoldsAt(c, s, h)
  <2>1. SUFFICES ASSUME w \in HoldsAt(c, s, h) PROVE FALSE
    OBVIOUS
  <2>2. CASE \E t \in 1..(s - 1) : \E i \in 1..Len(Plan[c][t]) : Plan[c][t][i] = w
    <3>1. PICK t \in 1..(s - 1) : \E i \in 1..Len(Plan[c][t]) : Plan[c][t][i] = w
      BY <2>2
    <3>2. PICK i \in 1..Len(Plan[c][t]) : Plan[c][t][i] = w
      BY <3>1
    <3>3. t \in 1..Len(Plan[c]) /\ t # s
      BY <1>1
    <3> QED
      BY <1>1, <3>2, <3>3, OncePlanned
  <2>3. CASE \E i \in 1..h : Plan[c][s][i] = w
    <3>1. PICK i \in 1..h : Plan[c][s][i] = w
      BY <2>3
    <3>2. i \in 1..Len(Plan[c][s]) /\ i # h + 1
      BY <1>1
    <3> QED
      BY <1>1, <3>1, <3>2, OncePlanned
  <2> QED
    BY <2>1, <2>2, <2>3 DEF HoldsAt
<1>4. 1..(h + 1) = (1..h) \union {h + 1}
  BY <1>1
<1>5. HoldsAt(c, s, h + 1) = HoldsAt(c, s, h) \union {w}
  BY <1>2, <1>4 DEF HoldsAt
<1> QED
  BY <1>2, <1>3, <1>5

\* A stage that is complete, and the next one that is not begun.
LEMMA HoldsNextStage ==
  ASSUME NEW c \in Requests, NEW s \in Nat \ {0}, s < Len(Plan[c])
  PROVE  HoldsAt(c, s + 1, 0) = HoldsAt(c, s, Len(Plan[c][s]))
<1>1. (s + 1) - 1 = s /\ 1..s = (1..(s - 1)) \union {s}
  OBVIOUS
<1>2. 1..0 = {}
  OBVIOUS
<1>3. HoldsAt(c, s + 1, 0) = {l \in Limiters : \E t \in 1..s : \E i \in 1..Len(Plan[c][t]) : Plan[c][t][i] = l}
  BY <1>1, <1>2, Zenon DEF HoldsAt
<1>4. ASSUME NEW l \in Limiters
      PROVE  (\E t \in 1..s : \E i \in 1..Len(Plan[c][t]) : Plan[c][t][i] = l)
               <=> \/ \E t \in 1..(s - 1) : \E i \in 1..Len(Plan[c][t]) : Plan[c][t][i] = l
                   \/ \E i \in 1..Len(Plan[c][s]) : Plan[c][s][i] = l
  BY <1>1, Zenon
<1> QED
  BY <1>3, <1>4 DEF HoldsAt

\* What a stage gives back when it ends.
LEMMA HoldsLess ==
  ASSUME NEW c \in Requests, NEW s \in 1..Len(Plan[c])
  PROVE  /\ Limiter!Members(Plan[c][s]) \subseteq HoldsAt(c, s, Len(Plan[c][s]))
         /\ HoldsAt(c, s, 0) = HoldsAt(c, s, Len(Plan[c][s])) \ Limiter!Members(Plan[c][s])
<1> DEFINE m == Limiter!Members(Plan[c][s])
<1>1. /\ Len(Plan[c]) \in Nat /\ Plan[c][s] \in Seq(Limiters)
  BY PlanFacts
<1>2. m = {l \in Limiters : \E i \in 1..Len(Plan[c][s]) : Plan[c][s][i] = l}
  BY <1>1, PlanFacts DEF Limiter!Members
<1>3. ASSUME NEW l \in m PROVE l \notin HoldsAt(c, s, 0)
  <2>1. SUFFICES ASSUME l \in HoldsAt(c, s, 0) PROVE FALSE
    OBVIOUS
  <2>2. PICK t \in 1..(s - 1) : \E i \in 1..Len(Plan[c][t]) : Plan[c][t][i] = l
    BY <2>1 DEF HoldsAt
  <2>3. PICK i \in 1..Len(Plan[c][t]) : Plan[c][t][i] = l
    BY <2>2
  <2>4. PICK j \in 1..Len(Plan[c][s]) : Plan[c][s][j] = l
    BY <1>2
  <2>5. t \in 1..Len(Plan[c]) /\ t # s
    BY <1>1
  <2> QED
    BY <2>3, <2>4, <2>5, OncePlanned, ZenonT(40)
<1>4. HoldsAt(c, s, Len(Plan[c][s])) = HoldsAt(c, s, 0) \union m
  <2> HIDE DEF m
  <2>1. 1..0 = {}
    OBVIOUS
  <2> QED
    BY <1>2, <2>1 DEF HoldsAt
<1> QED
  BY <1>3, <1>4

-----------------------------------------------------------------------------
(***************************************************************************)
(* The invariant of the limiters: where a caller may be, that the waiters  *)
(* of a limiter are exactly the queued callers that want it, each once,    *)
(* that the slots counted are those held, and that a limiter with waiters  *)
(* has no slot that is not held or promised.                               *)
(***************************************************************************)
Starting == {"acquire", "queued", "woken"}
Inside   == {"pace", "sleep", "fetch", "release"}

PlacedAt(c, r) ==
  /\ r.stage \in 1..Len(Plan[c])
  /\ r.held \in 0..Len(Plan[c][r.stage])
  /\ r.pc \in Starting => r.held < Len(Plan[c][r.stage])
  /\ r.pc \in Inside => r.held = Len(Plan[c][r.stage])
  /\ r.pc \in {"backoff", "done"} => r.stage = 1 /\ r.held = 0
  /\ r.pc = "backoff" => r.att < Retries

Placed == \A c \in Requests : PlacedAt(c, request[c])

QueuedFor(r, c, l) == r.pc = "queued" /\ Plan[c][r.stage][r.held + 1] = l

LinedUp ==
  \A l \in Limiters :
    /\ \A i, j \in 1..Len(waiters[l]) : waiters[l][i] = waiters[l][j] => i = j
    /\ \A c \in Requests :
         QueuedFor(request[c], c, l) <=> \E i \in 1..Len(waiters[l]) : waiters[l][i] = c

At(c, r)   == HoldsAt(c, r.stage, r.held)
Holding(l) == {c \in Requests : l \in At(c, request[c])}
Slots      == \A l \in Limiters : inFlight[l] = Cardinality(Holding(l))

WokenFor(r, c, l) == r.pc = "woken" /\ Plan[c][r.stage][r.held + 1] = l
WokenBy(l) == {c \in Requests : WokenFor(request[c], c, l)}
Promised ==
  \A l \in Limiters :
    waiters[l] # <<>> => inFlight[l] + Cardinality(WokenBy(l)) >= MaxInFlight[l]

LimiterInv == Limiter!TypeOK /\ Placed /\ LinedUp /\ Slots /\ Promised

\* The operators that the instance has of FiniteSets are those of FiniteSets.
LEMMA SameFinite ==
  ASSUME NEW S
  PROVE  Limiter!IsFiniteSet(S) <=> IsFiniteSet(S)
BY DEF Limiter!IsFiniteSet, IsFiniteSet

LEMMA SameCardinality ==
  ASSUME NEW S
  PROVE  Limiter!Cardinality(S) = Cardinality(S)
BY DEF Limiter!Cardinality, Cardinality

LEMMA FiniteRequests ==
  /\ IsFiniteSet(Requests)
  /\ \A S \in SUBSET Requests : IsFiniteSet(S) /\ Cardinality(S) \in Nat
<1>1. IsFiniteSet(Requests)
  BY SameFinite, RequestsAssumption DEF Limiter!LimiterAssumption
<1> QED
  BY <1>1, FS_Subset, FS_CardinalityType

LEMMA Limits ==
  MaxInFlight \in [Limiters -> Nat] /\ Interval \in [Limiters -> Nat] /\ Retries \in Nat
BY RequestsAssumption DEF Limiter!LimiterAssumption

LEMMA InitLimiterInv == Limiter!Init => LimiterInv
<1> SUFFICES ASSUME Limiter!Init PROVE LimiterInv
  OBVIOUS
<1> USE DEF Limiter!Init
<1>1. \A c \in Requests : request[c] = Limiter!Start
  OBVIOUS
<1>2. Limiter!Start \in Limiter!Call
  BY Limits DEF Limiter!Start, Limiter!Call, Limiter!PCs
<1>3. Limiter!TypeOK
  BY <1>2 DEF Limiter!TypeOK
<1>4. Placed
  <2>1. ASSUME NEW c \in Requests PROVE PlacedAt(c, Limiter!Start)
    <3>1. 1 \in 1..Len(Plan[c])
      BY PlanFacts
    <3>2. Len(Plan[c][1]) \in Nat \ {0}
      BY <3>1, PlanFacts
    <3> QED
      BY <3>1, <3>2 DEF PlacedAt, Limiter!Start, Starting, Inside
  <2> QED
    BY <1>1, <2>1 DEF Placed
<1>5. LinedUp
  BY <1>1 DEF LinedUp, QueuedFor, Limiter!Start
<1>6. \A l \in Limiters : Holding(l) = {}
  BY <1>1, HoldsNothing DEF Holding, At, Limiter!Start
<1>7. Slots
  BY <1>6, FS_EmptySet DEF Slots
<1>8. Promised
  BY DEF Promised
<1> QED
  BY <1>3, <1>4, <1>5, <1>7, <1>8 DEF LimiterInv

\* What a step that changes one caller leaves of the others.
LEMMA HoldingElsewhere ==
  ASSUME NEW c \in Requests, NEW l \in Limiters,
         \A d \in Requests : d # c => request'[d] = request[d]
  PROVE  /\ l \in At(c, request'[c]) /\ l \notin At(c, request[c])
              => Holding(l)' = Holding(l) \union {c} /\ c \notin Holding(l)
         /\ l \notin At(c, request'[c]) /\ l \in At(c, request[c])
              => Holding(l)' = Holding(l) \ {c} /\ c \in Holding(l)
         /\ (l \in At(c, request'[c]) <=> l \in At(c, request[c]))
              => Holding(l)' = Holding(l)
BY DEF Holding

LEMMA OneMore ==
  ASSUME NEW S \in SUBSET Requests, NEW c \in Requests, c \notin S
  PROVE  Cardinality(S \union {c}) = Cardinality(S) + 1
BY FiniteRequests, FS_AddElement

LEMMA OneLess ==
  ASSUME NEW S \in SUBSET Requests, NEW c \in S
  PROVE  Cardinality(S \ {c}) = Cardinality(S) - 1 /\ Cardinality(S) > 0
<1>1. Cardinality(S \ {c}) = Cardinality(S) - 1
  BY FiniteRequests, FS_RemoveElement
<1>2. Cardinality(S \ {c}) \in Nat /\ Cardinality(S) \in Nat
  BY FiniteRequests
<1> QED
  BY <1>1, <1>2

-----------------------------------------------------------------------------
(* A slot is taken.                                                        *)

LEMMA CallTypes ==
  ASSUME Limiter!TypeOK, NEW c \in Requests
  PROVE  /\ request[c] \in Limiter!Call
         /\ request[c].pc \in Limiter!PCs
         /\ request[c].stage \in Nat /\ request[c].held \in Nat
         /\ request[c].sleep \in Nat /\ request[c].att \in 0..Retries
BY DEF Limiter!TypeOK, Limiter!Call

LEMMA Took ==
  ASSUME LimiterInv, NEW c \in Requests, request[c].pc \in {"acquire", "woken"},
         inFlight' = [inFlight EXCEPT ![Limiter!Want(c)] = @ + 1],
         request' = [request EXCEPT ![c] = Limiter!Granted(c)]
  PROVE  /\ inFlight' \in [Limiters -> Nat]
         /\ request' \in [Requests -> Limiter!Call]
         /\ Placed' /\ Slots'
         /\ Limiter!Want(c) \in Limiters
         /\ \A d \in Requests : d # c => request'[d] = request[d]
         /\ request'[c].pc \in {"pace", "acquire"}
<1> DEFINE s == request[c].stage
           h == request[c].held
           w == Plan[c][s][h + 1]
           p == IF h + 1 = Len(Plan[c][s]) THEN "pace" ELSE "acquire"
           r == [request[c] EXCEPT !.held = h + 1, !.pc = p]
<1>1. Limiter!Want(c) = w /\ Limiter!Granted(c) = r
  BY DEF Limiter!Want, Limiter!Stage, Limiter!Granted
<1>2. /\ s \in 1..Len(Plan[c]) /\ h \in Nat /\ h < Len(Plan[c][s])
      /\ Len(Plan[c][s]) \in Nat
  BY CallTypes, PlanFacts DEF LimiterInv, Placed, PlacedAt, Starting
<1>3. request[c] \in Limiter!Call
  BY CallTypes DEF LimiterInv
<1>4. p \in Limiter!PCs /\ p \in {"pace", "acquire"}
  BY DEF Limiter!PCs
<1>0. /\ request[c].stage = s /\ request[c].held = h
      /\ p = IF h + 1 = Len(Plan[c][s]) THEN "pace" ELSE "acquire"
  OBVIOUS
<1> HIDE DEF s, h, p
<1>5. r \in Limiter!Call /\ r.stage = s /\ r.held = h + 1 /\ r.pc = p
  <2>1. h + 1 \in Nat
    BY <1>2
  <2>2. r.pc = p /\ r.held = h + 1 /\ r.stage = request[c].stage
    BY <1>3 DEF Limiter!Call
  <2>3. r \in Limiter!Call
    BY <1>3, <1>4, <2>1 DEF Limiter!Call
  <2> QED
    BY <1>0, <2>2, <2>3
<1>6. h \in 0..(Len(Plan[c][s]) - 1)
  BY <1>2
<1>7. w \in Limiters /\ w \notin HoldsAt(c, s, h) /\ HoldsAt(c, s, h + 1) = HoldsAt(c, s, h) \union {w}
  BY <1>2, <1>6, HoldsOneMore
<1>8. PlacedAt(c, r)
  BY <1>0, <1>2, <1>5, SMTT(30) DEF PlacedAt, Starting, Inside
<1>9. request' = [request EXCEPT ![c] = r] /\ inFlight' = [inFlight EXCEPT ![w] = @ + 1]
  BY <1>1
<1>10. At(c, r) = At(c, request[c]) \union {w} /\ w \notin At(c, request[c])
  BY <1>0, <1>5, <1>7 DEF At
<1>11. p = "pace" \/ p = "acquire"
  BY <1>4
<1> HIDE DEF r, w
<1>12. /\ request' \in [Requests -> Limiter!Call] /\ request'[c] = r
       /\ \A d \in Requests : d # c => request'[d] = request[d]
  BY <1>5, <1>9 DEF LimiterInv, Limiter!TypeOK
<1>13. Placed'
  BY <1>8, <1>12 DEF LimiterInv, Placed
<1>14. inFlight' \in [Limiters -> Nat]
  BY <1>7, <1>9 DEF LimiterInv, Limiter!TypeOK
<1>15. ASSUME NEW l \in Limiters
       PROVE  inFlight'[l] = Cardinality(Holding(l)')
  <2>1. CASE l = w
    <3>1. Holding(l)' = Holding(l) \union {c} /\ c \notin Holding(l)
      BY <1>10, <1>12, <2>1, HoldingElsewhere
    <3>2. Cardinality(Holding(l)') = Cardinality(Holding(l)) + 1
      BY <3>1, OneMore DEF Holding
    <3>3. inFlight[l] = Cardinality(Holding(l))
      BY DEF LimiterInv, Slots
    <3>4. inFlight'[l] = inFlight[l] + 1
      BY <1>9, <2>1 DEF LimiterInv, Limiter!TypeOK
    <3> QED
      BY <3>2, <3>3, <3>4
  <2>2. CASE l # w
    <3>1. Holding(l)' = Holding(l)
      BY <1>10, <1>12, <2>2, HoldingElsewhere
    <3>2. inFlight'[l] = inFlight[l]
      BY <1>9, <2>2 DEF LimiterInv, Limiter!TypeOK
    <3> QED
      BY <3>1, <3>2 DEF LimiterInv, Slots
  <2> QED
    BY <2>1, <2>2
<1>16. Slots'
  BY <1>15 DEF Slots
<1> QED
  BY <1>1, <1>5, <1>7, <1>11, <1>12, <1>13, <1>14, <1>16

\* The same callers are queued and woken, for the same limiters.
SameWaiting ==
  \A d \in Requests, l \in Limiters :
    /\ QueuedFor(request'[d], d, l) <=> QueuedFor(request[d], d, l)
    /\ WokenFor(request'[d], d, l) <=> WokenFor(request[d], d, l)

LEMMA KeepsWaiting ==
  ASSUME LimiterInv, SameWaiting, UNCHANGED waiters,
         \A l \in Limiters : inFlight'[l] \in Nat /\ inFlight'[l] >= inFlight[l]
  PROVE  LinedUp' /\ Promised'
<1>1. LinedUp'
  BY DEF LimiterInv, LinedUp, SameWaiting
<1>2. \A l \in Limiters : WokenBy(l)' = WokenBy(l)
  BY DEF WokenBy, SameWaiting
<1>3. ASSUME NEW l \in Limiters, waiters'[l] # <<>>
      PROVE  inFlight'[l] + Cardinality(WokenBy(l)') >= MaxInFlight[l]
  <2>1. WokenBy(l)' = WokenBy(l) /\ Cardinality(WokenBy(l)) \in Nat
    BY <1>2, FiniteRequests DEF WokenBy
  <2>2. inFlight[l] + Cardinality(WokenBy(l)) >= MaxInFlight[l]
    BY <1>3 DEF LimiterInv, Promised
  <2>3. inFlight[l] \in Nat /\ MaxInFlight[l] \in Nat
    BY Limits DEF LimiterInv, Limiter!TypeOK
  <2>4. inFlight'[l] \in Nat /\ inFlight'[l] >= inFlight[l]
    OBVIOUS
  <2>5. Cardinality(WokenBy(l)') = Cardinality(WokenBy(l))
    BY <2>1
  <2> QED
    BY <2>1, <2>2, <2>3, <2>4, <2>5
<1>4. Promised'
  BY <1>3 DEF Promised
<1> QED
  BY <1>1, <1>4

LEMMA AcquireKeeps ==
  ASSUME LimiterInv, NEW c \in Requests, Limiter!Acquire(c)
  PROVE  LimiterInv'
<1> DEFINE w == Limiter!Want(c)
<1>0. request[c].pc = "acquire" /\ wait' = wait
  BY DEF Limiter!Acquire
<1>1. CASE Limiter!HasSlot(w)
  <2>1. /\ inFlight' = [inFlight EXCEPT ![w] = @ + 1]
        /\ request' = [request EXCEPT ![c] = Limiter!Granted(c)]
        /\ UNCHANGED waiters
    BY <1>1 DEF Limiter!Acquire
  <2>2. /\ inFlight' \in [Limiters -> Nat]
        /\ request' \in [Requests -> Limiter!Call]
        /\ Placed' /\ Slots'
        /\ w \in Limiters
        /\ \A d \in Requests : d # c => request'[d] = request[d]
        /\ request'[c].pc \in {"pace", "acquire"}
    BY <1>0, <2>1, Took
  <2>3. Limiter!TypeOK'
    BY <1>0, <2>1, <2>2 DEF LimiterInv, Limiter!TypeOK
  <2>4. SameWaiting
    BY <1>0, <2>2 DEF SameWaiting, QueuedFor, WokenFor
  <2>5. \A l \in Limiters : inFlight'[l] \in Nat /\ inFlight'[l] >= inFlight[l]
    BY <2>1, <2>2 DEF LimiterInv, Limiter!TypeOK
  <2>6. LinedUp' /\ Promised'
    BY <2>1, <2>4, <2>5, KeepsWaiting
  <2> QED
    BY <2>2, <2>3, <2>6 DEF LimiterInv
<1>2. CASE ~Limiter!HasSlot(w)
  <2>1. /\ waiters' = [waiters EXCEPT ![w] = Append(@, c)]
        /\ request' = [request EXCEPT ![c].pc = "queued"]
        /\ UNCHANGED inFlight
    BY <1>2 DEF Limiter!Acquire
  <2> DEFINE r == [request[c] EXCEPT !.pc = "queued"]
  <2>2. request[c] \in Limiter!Call
    BY CallTypes DEF LimiterInv
  <2>3. r \in Limiter!Call /\ r.stage = request[c].stage /\ r.held = request[c].held /\ r.pc = "queued"
    BY <2>2 DEF Limiter!Call, Limiter!PCs
  <2>4. /\ request[c].stage \in 1..Len(Plan[c])
        /\ request[c].held \in 0..(Len(Plan[c][request[c].stage]) - 1)
    BY <1>0, <2>2, PlanFacts, SMTT(30) DEF LimiterInv, Placed, PlacedAt, Starting, Limiter!Call
  <2>5. w = Plan[c][request[c].stage][request[c].held + 1]
    BY DEF Limiter!Want, Limiter!Stage
  <2>6. w \in Limiters
    BY <2>4, <2>5, HoldsOneMore
  <2>7. PlacedAt(c, r)
    BY <1>0, <2>3 DEF LimiterInv, Placed, PlacedAt, Starting, Inside
  <2>8. At(c, r) = At(c, request[c])
    BY <2>3 DEF At
  <2>9. QueuedFor(r, c, w) /\ \A l \in Limiters : QueuedFor(r, c, l) => l = w
    BY <2>3, <2>5 DEF QueuedFor
  <2> HIDE DEF r, w
  <2>10. /\ request' \in [Requests -> Limiter!Call] /\ request'[c] = r
         /\ \A d \in Requests : d # c => request'[d] = request[d]
    BY <2>1, <2>3 DEF LimiterInv, Limiter!TypeOK, r
  <2>11. waiters \in [Limiters -> Seq(Requests)]
    BY DEF LimiterInv, Limiter!TypeOK
  <2>12. /\ waiters' \in [Limiters -> Seq(Requests)]
         /\ \A l \in Limiters : l # w => waiters'[l] = waiters[l]
         /\ waiters'[w] = Append(waiters[w], c)
    BY <2>1, <2>6, <2>11
  <2>13. Limiter!TypeOK'
    BY <1>0, <2>1, <2>10, <2>12 DEF LimiterInv, Limiter!TypeOK
  <2>14. Placed'
    BY <2>7, <2>10 DEF LimiterInv, Placed
  <2>15. Slots'
    <3>1. \A l \in Limiters : Holding(l)' = Holding(l)
      BY <2>8, <2>10, HoldingElsewhere
    <3> QED
      BY <2>1, <3>1 DEF LimiterInv, Slots
  <2>16. ASSUME NEW l \in Limiters
         PROVE  /\ \A i, j \in 1..Len(waiters'[l]) : waiters'[l][i] = waiters'[l][j] => i = j
                /\ \A d \in Requests :
                     QueuedFor(request'[d], d, l) <=> \E i \in 1..Len(waiters'[l]) : waiters'[l][i] = d
    <3>1. CASE l # w
      <4>1. waiters'[l] = waiters[l]
        BY <2>12, <3>1
      <4>2. ~QueuedFor(request'[c], c, l) /\ ~QueuedFor(request[c], c, l)
        BY <1>0, <2>9, <2>10, <3>1 DEF QueuedFor
      <4>3. \A d \in Requests : QueuedFor(request'[d], d, l) <=> QueuedFor(request[d], d, l)
        BY <2>10, <4>2
      <4> QED
        BY <4>1, <4>3 DEF LimiterInv, LinedUp
    <3>2. CASE l = w
      <4>1. /\ waiters[l] \in Seq(Requests) /\ Len(waiters[l]) \in Nat
            /\ waiters'[l] = Append(waiters[l], c)
        BY <2>11, <2>12, <3>2
      <4>2. /\ Len(waiters'[l]) = Len(waiters[l]) + 1
            /\ waiters'[l][Len(waiters[l]) + 1] = c
            /\ \A i \in 1..Len(waiters[l]) : waiters'[l][i] = waiters[l][i]
        BY <4>1
      <4>3. ~QueuedFor(request[c], c, l) /\ QueuedFor(request'[c], c, l)
        BY <1>0, <2>9, <2>10, <3>2 DEF QueuedFor
      <4>4. \A i \in 1..Len(waiters[l]) : waiters[l][i] # c
        BY <4>3 DEF LimiterInv, LinedUp
      <4>5. /\ \A i, j \in 1..Len(waiters[l]) : waiters[l][i] = waiters[l][j] => i = j
            /\ \A d \in Requests :
                 QueuedFor(request[d], d, l) <=> \E i \in 1..Len(waiters[l]) : waiters[l][i] = d
        BY DEF LimiterInv, LinedUp
      <4>6. 1..Len(waiters'[l]) = (1..Len(waiters[l])) \union {Len(waiters[l]) + 1}
        BY <4>1, <4>2
      <4>7. \A i, j \in 1..Len(waiters'[l]) : waiters'[l][i] = waiters'[l][j] => i = j
        BY <4>2, <4>4, <4>5, <4>6
      <4>8. ASSUME NEW d \in Requests
            PROVE  QueuedFor(request'[d], d, l) <=> \E i \in 1..Len(waiters'[l]) : waiters'[l][i] = d
        <5>1. (\E i \in 1..Len(waiters'[l]) : waiters'[l][i] = d)
                <=> d = c \/ \E i \in 1..Len(waiters[l]) : waiters[l][i] = d
          BY <4>2, <4>6
        <5> QED
          BY <2>10, <4>3, <4>5, <5>1
      <4> QED
        BY <4>7, <4>8
    <3> QED
      BY <3>1, <3>2
  <2>17. LinedUp'
    BY <2>16 DEF LinedUp
  <2>18. ASSUME NEW l \in Limiters, waiters'[l] # <<>>
         PROVE  inFlight'[l] + Cardinality(WokenBy(l)') >= MaxInFlight[l]
    <3>1. WokenBy(l)' = WokenBy(l)
      <4>1. ~WokenFor(request[c], c, l) /\ ~WokenFor(request'[c], c, l)
        BY <1>0, <2>3, <2>10 DEF WokenFor, r
      <4> QED
        BY <2>10, <4>1 DEF WokenBy
    <3>2. Cardinality(WokenBy(l)) \in Nat /\ inFlight[l] \in Nat /\ MaxInFlight[l] \in Nat
      BY FiniteRequests, Limits DEF WokenBy, LimiterInv, Limiter!TypeOK
    <3>3. CASE l = w
      <4>1. inFlight[l] >= MaxInFlight[l]
        BY <1>2, <3>2, <3>3 DEF Limiter!HasSlot
      <4> QED
        BY <2>1, <3>1, <3>2, <4>1
    <3>4. CASE l # w
      <4>1. waiters[l] # <<>>
        BY <2>12, <2>18, <3>4
      <4> QED
        BY <2>1, <3>1, <4>1 DEF LimiterInv, Promised
    <3> QED
      BY <3>3, <3>4
  <2>19. Promised'
    BY <2>18 DEF Promised
  <2> QED
    BY <2>13, <2>14, <2>15, <2>17, <2>19 DEF LimiterInv
<1> QED
  BY <1>1, <1>2

\* A woken caller takes its slot: what was promised to it is now held by it.
LEMMA TakeSlotKeeps ==
  ASSUME LimiterInv, NEW c \in Requests, Limiter!TakeSlot(c)
  PROVE  LimiterInv'
<1> DEFINE w == Limiter!Want(c)
<1>1. /\ request[c].pc = "woken"
      /\ inFlight' = [inFlight EXCEPT ![w] = @ + 1]
      /\ request' = [request EXCEPT ![c] = Limiter!Granted(c)]
      /\ UNCHANGED <<waiters, wait>>
  BY DEF Limiter!TakeSlot
<1>2. /\ inFlight' \in [Limiters -> Nat]
      /\ request' \in [Requests -> Limiter!Call]
      /\ Placed' /\ Slots'
      /\ w \in Limiters
      /\ \A d \in Requests : d # c => request'[d] = request[d]
      /\ request'[c].pc \in {"pace", "acquire"}
  BY <1>1, Took
<1>3. \A l \in Limiters : WokenFor(request[c], c, l) <=> l = w
  BY <1>1 DEF WokenFor, Limiter!Want, Limiter!Stage
<1> HIDE DEF w
<1>4. Limiter!TypeOK'
  BY <1>1, <1>2 DEF LimiterInv, Limiter!TypeOK
<1>5. \A d \in Requests, l \in Limiters : QueuedFor(request'[d], d, l) <=> QueuedFor(request[d], d, l)
  BY <1>1, <1>2 DEF QueuedFor
<1>6. LinedUp'
  BY <1>1, <1>5 DEF LimiterInv, LinedUp
<1>7. ASSUME NEW l \in Limiters, waiters'[l] # <<>>
      PROVE  inFlight'[l] + Cardinality(WokenBy(l)') >= MaxInFlight[l]
  <2>1. ~WokenFor(request'[c], c, l)
    BY <1>2 DEF WokenFor
  <2>2. /\ inFlight[l] + Cardinality(WokenBy(l)) >= MaxInFlight[l]
        /\ Cardinality(WokenBy(l)) \in Nat /\ inFlight[l] \in Nat /\ MaxInFlight[l] \in Nat
    BY <1>1, <1>7, FiniteRequests, Limits DEF WokenBy, LimiterInv, Limiter!TypeOK, Promised
  <2>3. CASE l = w
    <3>1. WokenBy(l)' = WokenBy(l) \ {c} /\ c \in WokenBy(l)
      BY <1>2, <1>3, <2>1, <2>3 DEF WokenBy
    <3>2. Cardinality(WokenBy(l)') = Cardinality(WokenBy(l)) - 1
      BY <3>1, OneLess DEF WokenBy
    <3>3. inFlight'[l] = inFlight[l] + 1
      BY <1>1, <2>3 DEF LimiterInv, Limiter!TypeOK
    <3> QED
      BY <2>2, <3>2, <3>3
  <2>4. CASE l # w
    <3>1. WokenBy(l)' = WokenBy(l)
      BY <1>2, <1>3, <2>1, <2>4 DEF WokenBy
    <3>2. inFlight'[l] = inFlight[l]
      BY <1>1, <2>4 DEF LimiterInv, Limiter!TypeOK
    <3> QED
      BY <2>2, <3>1, <3>2
  <2> QED
    BY <2>3, <2>4
<1>8. Promised'
  BY <1>7 DEF Promised
<1> QED
  BY <1>2, <1>4, <1>6, <1>8 DEF LimiterInv

-----------------------------------------------------------------------------
(* Steps that change no slot.                                              *)

\* A step after which everybody holds what it held, and the same callers wait.
LEMMA KeepsSlots ==
  ASSUME LimiterInv, UNCHANGED <<inFlight, waiters>>, SameWaiting,
         wait' \in [Limiters -> Nat], request' \in [Requests -> Limiter!Call],
         \A d \in Requests : PlacedAt(d, request'[d]) /\ At(d, request'[d]) = At(d, request[d])
  PROVE  LimiterInv'
<1>1. Limiter!TypeOK'
  BY DEF LimiterInv, Limiter!TypeOK
<1>2. Placed'
  BY DEF Placed
<1>3. \A l \in Limiters : Holding(l)' = Holding(l)
  BY DEF Holding
<1>4. Slots'
  BY <1>3 DEF LimiterInv, Slots
<1>5. \A l \in Limiters : inFlight'[l] \in Nat /\ inFlight'[l] >= inFlight[l]
  BY DEF LimiterInv, Limiter!TypeOK
<1>6. LinedUp' /\ Promised'
  BY <1>5, KeepsWaiting
<1> QED
  BY <1>1, <1>2, <1>4, <1>6 DEF LimiterInv

\* The limiters of a stage record the start: the caller goes on to the next stage
\* with what it holds, or sends its request.
LEMMA StartedKeeps ==
  ASSUME LimiterInv, NEW c \in Requests, request[c].pc \in {"pace", "sleep"},
         Limiter!Started(c)
  PROVE  LimiterInv'
<1> DEFINE q == request[c]
           next == [q EXCEPT !.pc = "acquire", !.stage = @ + 1, !.held = 0, !.sleep = 0]
           send == [q EXCEPT !.pc = "fetch", !.sleep = 0]
           r == IF q.stage < Len(Plan[c]) THEN next ELSE send
<1>1. /\ request' = [request EXCEPT ![c] = r]
      /\ UNCHANGED <<inFlight, waiters>>
  BY DEF Limiter!Started, Limiter!AfterStart
<1>2. q \in Limiter!Call /\ q.stage + 1 \in Nat
  BY CallTypes DEF LimiterInv
<1>3. /\ next \in Limiter!Call /\ next.pc = "acquire" /\ next.stage = q.stage + 1 /\ next.held = 0
      /\ next.att = q.att
  BY <1>2 DEF Limiter!Call, Limiter!PCs
<1>4. /\ send \in Limiter!Call /\ send.pc = "fetch" /\ send.stage = q.stage /\ send.held = q.held
      /\ send.att = q.att
  BY <1>2 DEF Limiter!Call, Limiter!PCs
<1>5. /\ q.stage \in 1..Len(Plan[c]) /\ q.held = Len(Plan[c][q.stage])
      /\ Len(Plan[c]) \in Nat /\ Len(Plan[c][q.stage]) \in Nat
  BY PlanFacts DEF LimiterInv, Placed, PlacedAt, Inside
<1>6. q.pc \in {"pace", "sleep"}
  OBVIOUS
<1>7. r \in Limiter!Call /\ r.pc \in {"acquire", "fetch"}
  BY <1>3, <1>4
<1> HIDE DEF q, next, send
<1>8. PlacedAt(c, r) /\ At(c, r) = At(c, q)
  <2>1. CASE q.stage < Len(Plan[c])
    <3>1. r = next
      BY <2>1
    <3>2. q.stage + 1 \in 1..Len(Plan[c])
      BY <1>5, <2>1
    <3>3. Len(Plan[c][q.stage + 1]) \in Nat \ {0}
      BY <3>2, PlanFacts
    <3>4. PlacedAt(c, r)
      BY <1>3, <3>1, <3>2, <3>3 DEF PlacedAt, Starting, Inside
    <3>5. HoldsAt(c, q.stage + 1, 0) = HoldsAt(c, q.stage, Len(Plan[c][q.stage]))
      <4>1. PICK s \in Nat \ {0} : s = q.stage /\ s < Len(Plan[c])
        BY <1>5, <2>1
      <4>2. HoldsAt(c, s + 1, 0) = HoldsAt(c, s, Len(Plan[c][s]))
        BY <4>1, HoldsNextStage
      <4> QED
        BY <4>1, <4>2
    <3> QED
      BY <1>3, <1>5, <3>1, <3>4, <3>5 DEF At
  <2>2. CASE ~(q.stage < Len(Plan[c]))
    <3>1. r = send
      BY <2>2
    <3>2. PlacedAt(c, r)
      BY <1>4, <1>5, <3>1 DEF PlacedAt, Starting, Inside
    <3> QED
      BY <1>4, <3>1, <3>2 DEF At
  <2> QED
    BY <2>1, <2>2
<1> HIDE DEF r
<1>9. /\ request' \in [Requests -> Limiter!Call] /\ request'[c] = r
      /\ \A d \in Requests : d # c => request'[d] = request[d]
  BY <1>1, <1>7 DEF LimiterInv, Limiter!TypeOK
<1>10. wait' \in [Limiters -> Nat]
  BY Limits DEF Limiter!Started, LimiterInv, Limiter!TypeOK
<1>11. SameWaiting
  BY <1>6, <1>7, <1>9 DEF SameWaiting, QueuedFor, WokenFor, q
<1>12. \A d \in Requests : PlacedAt(d, request'[d]) /\ At(d, request'[d]) = At(d, request[d])
  BY <1>8, <1>9 DEF LimiterInv, Placed, q
<1> QED
  BY <1>1, <1>9, <1>10, <1>11, <1>12, KeepsSlots

LEMMA PaceKeeps ==
  ASSUME LimiterInv, NEW c \in Requests, Limiter!Pace(c)
  PROVE  LimiterInv'
<1>1. request[c].pc = "pace"
  BY DEF Limiter!Pace
<1>2. CASE Limiter!Started(c)
  BY <1>1, <1>2, StartedKeeps
<1>3. CASE ~Limiter!Started(c)
  <2>1. PICK w \in {wait[l] : l \in Limiter!Members(Limiter!Stage(c))} :
          /\ request' = [request EXCEPT ![c].pc = "sleep", ![c].sleep = w]
          /\ UNCHANGED <<inFlight, waiters, wait>>
    BY <1>3 DEF Limiter!Pace
  <2>2. w \in Nat
    <3>1. request[c].stage \in 1..Len(Plan[c])
      BY DEF LimiterInv, Placed, PlacedAt
    <3>2. Limiter!Members(Limiter!Stage(c)) \subseteq Limiters
      BY <3>1, PlanFacts DEF Limiter!Members, Limiter!Stage
    <3> QED
      BY <2>1, <3>2 DEF LimiterInv, Limiter!TypeOK
  <2> DEFINE r == [request[c] EXCEPT !.pc = "sleep", !.sleep = w]
  <2>3. request[c] \in Limiter!Call
    BY CallTypes DEF LimiterInv
  <2>4. /\ r \in Limiter!Call /\ r.pc = "sleep" /\ r.stage = request[c].stage
        /\ r.held = request[c].held /\ r.att = request[c].att
    BY <2>2, <2>3 DEF Limiter!Call, Limiter!PCs
  <2>5. request' = [request EXCEPT ![c] = r]
    BY <2>1
  <2> HIDE DEF r
  <2>6. /\ request' \in [Requests -> Limiter!Call] /\ request'[c] = r
        /\ \A d \in Requests : d # c => request'[d] = request[d]
    BY <2>4, <2>5 DEF LimiterInv, Limiter!TypeOK
  <2>7. SameWaiting
    BY <1>1, <2>4, <2>6 DEF SameWaiting, QueuedFor, WokenFor
  <2>8. PlacedAt(c, r) /\ At(c, r) = At(c, request[c])
    BY <1>1, <2>4 DEF LimiterInv, Placed, PlacedAt, At, Starting, Inside
  <2>9. \A d \in Requests : PlacedAt(d, request'[d]) /\ At(d, request'[d]) = At(d, request[d])
    BY <2>6, <2>8 DEF LimiterInv, Placed
  <2>10. wait' \in [Limiters -> Nat]
    BY <2>1 DEF LimiterInv, Limiter!TypeOK
  <2> QED
    BY <2>1, <2>6, <2>7, <2>9, <2>10, KeepsSlots
<1> QED
  BY <1>2, <1>3

LEMMA SleepEndsKeeps ==
  ASSUME LimiterInv, NEW c \in Requests, Limiter!SleepEnds(c)
  PROVE  LimiterInv'
BY StartedKeeps DEF Limiter!SleepEnds

LEMMA TimePassesKeeps ==
  ASSUME LimiterInv, Limiter!TimePasses
  PROVE  LimiterInv'
<1>1. /\ wait' = [l \in Limiters |-> Limiter!Less(wait[l])]
      /\ request' = [c \in Requests |-> [request[c] EXCEPT !.sleep = Limiter!Less(@)]]
      /\ UNCHANGED <<inFlight, waiters>>
  BY DEF Limiter!TimePasses
<1>2. \A n \in Nat : Limiter!Less(n) \in Nat
  BY DEF Limiter!Less
<1>3. ASSUME NEW d \in Requests
      PROVE  /\ request'[d] \in Limiter!Call
             /\ request'[d].pc = request[d].pc /\ request'[d].stage = request[d].stage
             /\ request'[d].held = request[d].held /\ request'[d].att = request[d].att
  <2>1. request[d] \in Limiter!Call
    BY CallTypes DEF LimiterInv
  <2>2. request'[d] = [request[d] EXCEPT !.sleep = Limiter!Less(request[d].sleep)]
    BY <1>1
  <2>3. Limiter!Less(request[d].sleep) \in Nat
    BY <1>2, <2>1 DEF Limiter!Call
  <2> QED
    BY <2>1, <2>2, <2>3 DEF Limiter!Call
<1>4. request' \in [Requests -> Limiter!Call]
  BY <1>1, <1>3
<1>5. wait' \in [Limiters -> Nat]
  BY <1>1, <1>2 DEF LimiterInv, Limiter!TypeOK
<1>6. SameWaiting
  BY <1>3 DEF SameWaiting, QueuedFor, WokenFor
<1>7. \A d \in Requests : PlacedAt(d, request'[d]) /\ At(d, request'[d]) = At(d, request[d])
  BY <1>3 DEF LimiterInv, Placed, PlacedAt, At
<1> QED
  BY <1>1, <1>4, <1>5, <1>6, <1>7, KeepsSlots

LEMMA RetryKeeps ==
  ASSUME LimiterInv, NEW c \in Requests, Limiter!Retry(c)
  PROVE  LimiterInv'
<1>1. /\ request[c].pc = "backoff" /\ UNCHANGED <<inFlight, waiters, wait>>
      /\ request' = [request EXCEPT ![c] = [Limiter!Start EXCEPT !.att = request[c].att + 1]]
  BY DEF Limiter!Retry
<1> DEFINE r == [Limiter!Start EXCEPT !.att = request[c].att + 1]
<1>2. request[c].att + 1 \in 0..Retries
  BY <1>1, CallTypes, Limits DEF LimiterInv, Placed, PlacedAt
<1>3. /\ r \in Limiter!Call /\ r.pc = "acquire" /\ r.stage = 1 /\ r.held = 0
  BY <1>2 DEF Limiter!Start, Limiter!Call, Limiter!PCs
<1>4. request' = [request EXCEPT ![c] = r]
  BY <1>1
<1> HIDE DEF r
<1>5. /\ request' \in [Requests -> Limiter!Call] /\ request'[c] = r
      /\ \A d \in Requests : d # c => request'[d] = request[d]
  BY <1>3, <1>4 DEF LimiterInv, Limiter!TypeOK
<1>6. PlacedAt(c, r)
  <2>1. 1 \in 1..Len(Plan[c])
    BY PlanFacts
  <2>2. Len(Plan[c][1]) \in Nat \ {0}
    BY <2>1, PlanFacts
  <2> QED
    BY <1>3, <2>1, <2>2 DEF PlacedAt, Starting, Inside
<1>7. At(c, r) = At(c, request[c])
  BY <1>1, <1>3 DEF LimiterInv, Placed, PlacedAt, At
<1>8. SameWaiting
  BY <1>1, <1>3, <1>5 DEF SameWaiting, QueuedFor, WokenFor
<1>9. \A d \in Requests : PlacedAt(d, request'[d]) /\ At(d, request'[d]) = At(d, request[d])
  BY <1>5, <1>6, <1>7 DEF LimiterInv, Placed
<1>10. wait' \in [Limiters -> Nat]
  BY <1>1 DEF LimiterInv, Limiter!TypeOK
<1> QED
  BY <1>1, <1>5, <1>8, <1>9, <1>10, KeepsSlots

-----------------------------------------------------------------------------
(* A stage ends: its slots are free, and each limiter of it promises one   *)
(* to its first waiter.                                                    *)

\* d is the waiter that l wakes when the limiters of ls are released.
Wakes(ls, l, d) == l \in ls /\ waiters[l] # <<>> /\ d = waiters[l][1]

LEMMA LeavingFacts ==
  ASSUME LimiterInv, NEW c \in Requests, request[c].pc \in {"fetch", "release"},
         NEW r \in Limiter!Leaving(c)
  PROVE  /\ r \in Limiter!Call /\ r.pc \in {"release", "done", "backoff"}
         /\ PlacedAt(c, r)
         /\ Limiter!Members(Limiter!Stage(c)) \subseteq Limiters
         /\ Limiter!Members(Limiter!Stage(c)) \subseteq At(c, request[c])
         /\ At(c, r) = At(c, request[c]) \ Limiter!Members(Limiter!Stage(c))
<1> DEFINE q == request[c]
           ls == Limiter!Members(Limiter!Stage(c))
<1>1. q \in Limiter!Call /\ q.pc \in {"fetch", "release"}
  BY CallTypes DEF LimiterInv
<1>2. /\ q.stage \in 1..Len(Plan[c]) /\ q.held = Len(Plan[c][q.stage])
      /\ Len(Plan[c]) \in Nat
  BY PlanFacts DEF LimiterInv, Placed, PlacedAt, Inside
<1>3. ls = Limiter!Members(Plan[c][q.stage])
  BY DEF Limiter!Stage
<1>4. /\ ls \subseteq HoldsAt(c, q.stage, Len(Plan[c][q.stage]))
      /\ HoldsAt(c, q.stage, 0) = HoldsAt(c, q.stage, Len(Plan[c][q.stage])) \ ls
  BY <1>2, <1>3, HoldsLess
<1>5. At(c, q) = HoldsAt(c, q.stage, Len(Plan[c][q.stage]))
  BY <1>2 DEF At
<1>6. ls \subseteq Limiters /\ ls \subseteq At(c, q)
  BY <1>4, <1>5 DEF HoldsAt
<1>7. CASE q.stage > 1
  <2>1. r = [q EXCEPT !.pc = "release", !.stage = q.stage - 1,
                      !.held = Len(Plan[c][q.stage - 1])]
    BY <1>7 DEF Limiter!Leaving
  <2>2. q.stage - 1 \in 1..Len(Plan[c]) /\ q.stage - 1 \in Nat \ {0} /\ (q.stage - 1) + 1 = q.stage
    BY <1>2, <1>7
  <2>3. Len(Plan[c][q.stage - 1]) \in Nat
    BY <2>2, PlanFacts
  <2> HIDE DEF q
  <2>4. /\ r \in Limiter!Call /\ r.pc = "release" /\ r.stage = q.stage - 1
        /\ r.held = Len(Plan[c][q.stage - 1])
    BY <1>1, <2>1, <2>2, <2>3 DEF Limiter!Call, Limiter!PCs
  <2>5. PlacedAt(c, r)
    BY <2>2, <2>3, <2>4 DEF PlacedAt, Starting, Inside
  <2>6. HoldsAt(c, (q.stage - 1) + 1, 0) = HoldsAt(c, q.stage - 1, Len(Plan[c][q.stage - 1]))
    <3> DEFINE t == q.stage - 1
    <3>1. t \in Nat \ {0} /\ t < Len(Plan[c])
      BY <1>2, <2>2
    <3> HIDE DEF t
    <3>2. HoldsAt(c, t + 1, 0) = HoldsAt(c, t, Len(Plan[c][t]))
      BY <3>1, HoldsNextStage
    <3> QED
      BY <3>2 DEF t
  <2>7. At(c, r) = HoldsAt(c, q.stage, 0)
    BY <2>2, <2>4, <2>6 DEF At
  <2> QED
    BY <1>4, <1>5, <1>6, <2>4, <2>5, <2>7 DEF q
<1>8. CASE ~(q.stage > 1)
  <2>1. q.stage = 1
    BY <1>2, <1>8
  <2>2. \/ r = [q EXCEPT !.pc = "done", !.held = 0]
        \/ q.att < Retries /\ r = [q EXCEPT !.pc = "backoff", !.held = 0]
    BY <1>8 DEF Limiter!Leaving
  <2>3. Len(Plan[c][1]) \in Nat /\ 1 \in 1..Len(Plan[c])
    BY <1>2, <2>1, PlanFacts
  <2> HIDE DEF q
  <2>4. /\ r \in Limiter!Call /\ r.pc \in {"done", "backoff"} /\ r.stage = 1 /\ r.held = 0
        /\ r.pc = "backoff" => r.att < Retries
    <3>1. CASE r = [q EXCEPT !.pc = "done", !.held = 0]
      BY <1>1, <2>1, <3>1 DEF Limiter!Call, Limiter!PCs
    <3>2. CASE q.att < Retries /\ r = [q EXCEPT !.pc = "backoff", !.held = 0]
      BY <1>1, <2>1, <3>2 DEF Limiter!Call, Limiter!PCs
    <3> QED
      BY <2>2, <3>1, <3>2
  <2>5. PlacedAt(c, r)
    BY <2>3, <2>4 DEF PlacedAt, Starting, Inside
  <2>6. At(c, r) = HoldsAt(c, q.stage, 0)
    BY <2>1, <2>4 DEF At
  <2> QED
    BY <1>4, <1>5, <1>6, <2>4, <2>5, <2>6 DEF q
<1> QED
  BY <1>7, <1>8

LEMMA ReleaseKeeps ==
  ASSUME LimiterInv, NEW c \in Requests, Limiter!Release(c)
  PROVE  LimiterInv'
<1> DEFINE ls == Limiter!Members(Limiter!Stage(c))
<1>1. request[c].pc \in {"fetch", "release"} /\ wait' = wait
  BY DEF Limiter!Release
<1>2. /\ inFlight' = [l \in Limiters |-> IF l \in ls /\ inFlight[l] > 0
                                         THEN inFlight[l] - 1 ELSE inFlight[l]]
      /\ waiters' = [l \in Limiters |-> IF l \in ls /\ waiters[l] # <<>>
                                        THEN Tail(waiters[l]) ELSE waiters[l]]
  BY DEF Limiter!Release
<1>3. PICK r \in Limiter!Leaving(c) :
        request' = [d \in Requests |-> IF d = c THEN r
                      ELSE IF d \in Limiter!NextInLine(ls) THEN [request[d] EXCEPT !.pc = "woken"]
                      ELSE request[d]]
  BY DEF Limiter!Release
<1>4. /\ r \in Limiter!Call /\ r.pc \in {"release", "done", "backoff"}
      /\ PlacedAt(c, r)
      /\ ls \subseteq Limiters
      /\ ls \subseteq At(c, request[c])
      /\ At(c, r) = At(c, request[c]) \ ls
  BY <1>1, LeavingFacts
<1> HIDE DEF ls
<1>5. /\ waiters \in [Limiters -> Seq(Requests)] /\ inFlight \in [Limiters -> Nat]
      /\ request \in [Requests -> Limiter!Call]
  BY DEF LimiterInv, Limiter!TypeOK
<1>6. ASSUME NEW l \in Limiters, waiters[l] # <<>>
      PROVE  /\ Len(waiters[l]) \in Nat \ {0} /\ Head(waiters[l]) = waiters[l][1]
             /\ waiters[l][1] \in Requests
             /\ QueuedFor(request[waiters[l][1]], waiters[l][1], l)
  <2>1. waiters[l] \in Seq(Requests)
    BY <1>5
  <2>2. /\ Len(waiters[l]) \in Nat \ {0} /\ Head(waiters[l]) = waiters[l][1]
        /\ waiters[l][1] \in Requests
    BY <1>6, <2>1
  <2>3. 1 \in 1..Len(waiters[l])
    BY <2>2
  <2> QED
    BY <2>2, <2>3 DEF LimiterInv, LinedUp
<1>7. \A d \in Requests : d \in Limiter!NextInLine(ls) <=> \E l \in Limiters : Wakes(ls, l, d)
  BY <1>4, <1>6 DEF Limiter!NextInLine, Wakes
<1>8. ASSUME NEW d \in Requests, NEW l \in Limiters, Wakes(ls, l, d)
      PROVE  QueuedFor(request[d], d, l)
  BY <1>6, <1>8 DEF Wakes
<1>9. request'[c] = r /\ ~\E l \in Limiters : Wakes(ls, l, c)
  BY <1>1, <1>3, <1>8 DEF QueuedFor
<1>10. ASSUME NEW d \in Requests, d # c
       PROVE  /\ request'[d] \in Limiter!Call
              /\ request'[d].stage = request[d].stage /\ request'[d].held = request[d].held
              /\ request'[d].att = request[d].att
              /\ (\E l \in Limiters : Wakes(ls, l, d)) => request'[d].pc = "woken"
              /\ (~\E l \in Limiters : Wakes(ls, l, d)) => request'[d] = request[d]
  <2>1. request[d] \in Limiter!Call
    BY <1>5
  <2>2. request'[d] = IF d \in Limiter!NextInLine(ls) THEN [request[d] EXCEPT !.pc = "woken"]
                      ELSE request[d]
    BY <1>3, <1>10
  <2>3. CASE d \in Limiter!NextInLine(ls)
    <3>1. request'[d] = [request[d] EXCEPT !.pc = "woken"]
      BY <2>2, <2>3
    <3>2. /\ request'[d] \in Limiter!Call /\ request'[d].pc = "woken"
          /\ request'[d].stage = request[d].stage /\ request'[d].held = request[d].held
          /\ request'[d].att = request[d].att
      BY <2>1, <3>1 DEF Limiter!Call, Limiter!PCs
    <3> QED
      BY <1>7, <2>3, <3>2
  <2>4. CASE d \notin Limiter!NextInLine(ls)
    BY <1>7, <2>1, <2>2, <2>4
  <2> QED
    BY <2>3, <2>4
<1>11. request' \in [Requests -> Limiter!Call]
  BY <1>3, <1>4, <1>9, <1>10
<1>12. ASSUME NEW l \in Limiters
       PROVE  /\ inFlight'[l] \in Nat
              /\ l \notin ls => inFlight'[l] = inFlight[l] /\ waiters'[l] = waiters[l]
              /\ waiters[l] = <<>> => waiters'[l] = <<>>
              /\ l \in ls /\ waiters[l] # <<>> => waiters'[l] = Tail(waiters[l])
              /\ waiters'[l] \in Seq(Requests)
  <2>1. waiters[l] \in Seq(Requests) /\ inFlight[l] \in Nat
    BY <1>5
  <2> QED
    BY <1>2, <2>1
<1>13. inFlight' \in [Limiters -> Nat] /\ waiters' \in [Limiters -> Seq(Requests)]
  BY <1>2, <1>12
<1>14. Limiter!TypeOK'
  BY <1>1, <1>11, <1>13 DEF LimiterInv, Limiter!TypeOK
<1>15. Placed'
  <2>1. ASSUME NEW d \in Requests, d # c PROVE PlacedAt(d, request'[d])
    <3>1. PlacedAt(d, request[d])
      BY DEF LimiterInv, Placed
    <3>2. CASE \E l \in Limiters : Wakes(ls, l, d)
      <4>1. request[d].pc = "queued"
        BY <1>8, <3>2 DEF QueuedFor
      <4> QED
        BY <1>10, <2>1, <3>1, <3>2, <4>1 DEF PlacedAt, Starting, Inside
    <3>3. CASE ~\E l \in Limiters : Wakes(ls, l, d)
      BY <1>10, <2>1, <3>1, <3>3
    <3> QED
      BY <3>2, <3>3
  <2> QED
    BY <1>4, <1>9, <2>1 DEF Placed
\* Who is queued and who is woken afterwards, for each limiter.
<1>16. ASSUME NEW d \in Requests, NEW l \in Limiters
       PROVE  /\ QueuedFor(request'[d], d, l) <=> QueuedFor(request[d], d, l) /\ ~Wakes(ls, l, d)
              /\ WokenFor(request'[d], d, l) <=> WokenFor(request[d], d, l) \/ Wakes(ls, l, d)
  <2>1. CASE d = c
    BY <1>1, <1>4, <1>9, <2>1 DEF QueuedFor, WokenFor
  <2>2. CASE d # c /\ ~\E m \in Limiters : Wakes(ls, m, d)
    BY <1>10, <2>2
  <2>3. CASE d # c /\ \E m \in Limiters : Wakes(ls, m, d)
    <3>1. PICK m \in Limiters : Wakes(ls, m, d)
      BY <2>3
    <3>2. QueuedFor(request[d], d, m)
      BY <1>8, <3>1
    <3>3. /\ request'[d].pc = "woken" /\ request'[d].stage = request[d].stage
          /\ request'[d].held = request[d].held
      BY <1>10, <2>3
    <3>4. QueuedFor(request[d], d, l) <=> l = m
      BY <3>2 DEF QueuedFor
    <3>5. Wakes(ls, l, d) <=> l = m
      BY <1>8, <3>1, <3>4
    <3>6. WokenFor(request'[d], d, l) <=> l = m
      BY <3>2, <3>3 DEF QueuedFor, WokenFor
    <3>7. ~WokenFor(request[d], d, l) /\ ~QueuedFor(request'[d], d, l)
      BY <3>2, <3>3 DEF QueuedFor, WokenFor
    <3> QED
      BY <3>4, <3>5, <3>6, <3>7
  <2> QED
    BY <2>1, <2>2, <2>3
<1>17. ASSUME NEW l \in Limiters
       PROVE  /\ \A i, j \in 1..Len(waiters'[l]) : waiters'[l][i] = waiters'[l][j] => i = j
              /\ \A d \in Requests :
                   QueuedFor(request'[d], d, l) <=> \E i \in 1..Len(waiters'[l]) : waiters'[l][i] = d
  <2>1. /\ \A i, j \in 1..Len(waiters[l]) : waiters[l][i] = waiters[l][j] => i = j
        /\ \A d \in Requests :
             QueuedFor(request[d], d, l) <=> \E i \in 1..Len(waiters[l]) : waiters[l][i] = d
    BY DEF LimiterInv, LinedUp
  <2>2. CASE l \in ls /\ waiters[l] # <<>>
    <3>1. waiters'[l] = Tail(waiters[l]) /\ waiters[l] \in Seq(Requests) /\ Len(waiters[l]) \in Nat \ {0}
      BY <1>5, <1>6, <1>12, <2>2
    <3>2. /\ Len(waiters'[l]) = Len(waiters[l]) - 1
          /\ \A i \in 1..(Len(waiters[l]) - 1) : waiters'[l][i] = waiters[l][i + 1]
      BY <2>2, <3>1
    <3>3. \A i, j \in 1..Len(waiters'[l]) : waiters'[l][i] = waiters'[l][j] => i = j
      <4>1. SUFFICES ASSUME NEW i \in 1..Len(waiters'[l]), NEW j \in 1..Len(waiters'[l]),
                            waiters'[l][i] = waiters'[l][j]
                     PROVE  i = j
        OBVIOUS
      <4>2. i + 1 \in 1..Len(waiters[l]) /\ j + 1 \in 1..Len(waiters[l]) /\ i \in Int /\ j \in Int
        BY <3>1, <3>2
      <4>3. waiters[l][i + 1] = waiters[l][j + 1]
        BY <3>2, <4>1
      <4>4. i + 1 = j + 1
        BY <2>1, <4>2, <4>3
      <4> QED
        BY <4>2, <4>4
    <3>4. ASSUME NEW d \in Requests
          PROVE  QueuedFor(request'[d], d, l) <=> \E i \in 1..Len(waiters'[l]) : waiters'[l][i] = d
      <4>1. QueuedFor(request'[d], d, l)
              <=> (\E i \in 1..Len(waiters[l]) : waiters[l][i] = d) /\ d # waiters[l][1]
        BY <1>16, <2>1, <2>2 DEF Wakes
      <4>2. ASSUME NEW i \in 1..Len(waiters[l]), waiters[l][i] = d, d # waiters[l][1]
            PROVE  \E j \in 1..Len(waiters'[l]) : waiters'[l][j] = d
        <5>1. i - 1 \in 1..Len(waiters'[l]) /\ (i - 1) + 1 = i
          BY <3>1, <3>2, <4>2
        <5>2. waiters'[l][i - 1] = d
          BY <3>2, <4>2, <5>1
        <5> QED
          BY <5>1, <5>2
      <4>3. ASSUME NEW j \in 1..Len(waiters'[l]), waiters'[l][j] = d
            PROVE  (\E i \in 1..Len(waiters[l]) : waiters[l][i] = d) /\ d # waiters[l][1]
        <5>1. j + 1 \in 1..Len(waiters[l]) /\ 1 \in 1..Len(waiters[l]) /\ j + 1 # 1
          BY <3>1, <3>2
        <5>2. waiters[l][j + 1] = d
          BY <3>2, <4>3
        <5> QED
          BY <2>1, <5>1, <5>2
      <4> QED
        BY <4>1, <4>2, <4>3
    <3> QED
      BY <3>3, <3>4
  <2>3. CASE ~(l \in ls /\ waiters[l] # <<>>)
    <3>1. waiters'[l] = waiters[l]
      BY <1>12, <2>3
    <3>2. \A d \in Requests : QueuedFor(request'[d], d, l) <=> QueuedFor(request[d], d, l)
      BY <1>16, <2>3 DEF Wakes
    <3> QED
      BY <2>1, <3>1, <3>2
  <2> QED
    BY <2>2, <2>3
<1>18. LinedUp'
  BY <1>17 DEF LinedUp
<1>19. ASSUME NEW l \in Limiters
       PROVE  l \in ls => Holding(l)' = Holding(l) \ {c} /\ c \in Holding(l)
  <2>1. \A d \in Requests : d # c => (l \in At(d, request'[d]) <=> l \in At(d, request[d]))
    BY <1>10 DEF At
  <2>2. l \in ls => l \in At(c, request[c]) /\ l \notin At(c, request'[c])
    BY <1>4, <1>9
  <2> QED
    BY <2>1, <2>2 DEF Holding
<1>20. ASSUME NEW l \in Limiters
       PROVE  l \notin ls => Holding(l)' = Holding(l)
  <2>1. \A d \in Requests : d # c => (l \in At(d, request'[d]) <=> l \in At(d, request[d]))
    BY <1>10 DEF At
  <2>2. l \notin ls => (l \in At(c, request[c]) <=> l \in At(c, request'[c]))
    BY <1>4, <1>9
  <2> QED
    BY <2>1, <2>2 DEF Holding
<1>21. ASSUME NEW l \in ls
       PROVE  /\ inFlight'[l] = inFlight[l] - 1
              /\ Cardinality(Holding(l)') = Cardinality(Holding(l)) - 1
  <2>1. l \in Limiters
    BY <1>4
  <2>2. Cardinality(Holding(l)') = Cardinality(Holding(l)) - 1 /\ Cardinality(Holding(l)) > 0
    BY <1>19, <2>1, OneLess DEF Holding
  <2>3. inFlight[l] > 0
    BY <2>1, <2>2 DEF LimiterInv, Slots
  <2> QED
    BY <1>2, <2>1, <2>2, <2>3
<1>22. Slots'
  <2>1. ASSUME NEW l \in Limiters PROVE inFlight'[l] = Cardinality(Holding(l)')
    <3>1. inFlight[l] = Cardinality(Holding(l))
      BY DEF LimiterInv, Slots
    <3>2. CASE l \in ls
      BY <1>21, <3>1, <3>2
    <3>3. CASE l \notin ls
      BY <1>12, <1>20, <3>1, <3>3
    <3> QED
      BY <3>2, <3>3
  <2> QED
    BY <2>1 DEF Slots
<1>23. ASSUME NEW l \in Limiters, waiters'[l] # <<>>
       PROVE  inFlight'[l] + Cardinality(WokenBy(l)') >= MaxInFlight[l]
  <2>1. waiters[l] # <<>>
    BY <1>12, <1>23
  <2>2. /\ inFlight[l] + Cardinality(WokenBy(l)) >= MaxInFlight[l]
        /\ Cardinality(WokenBy(l)) \in Nat /\ inFlight[l] \in Nat /\ MaxInFlight[l] \in Nat
    BY <1>5, <2>1, FiniteRequests, Limits DEF WokenBy, LimiterInv, Promised
  <2>3. CASE l \in ls
    <3> DEFINE d == waiters[l][1]
    <3>1. d \in Requests /\ Wakes(ls, l, d) /\ QueuedFor(request[d], d, l)
      BY <1>6, <2>1, <2>3 DEF Wakes
    <3>2. d \notin WokenBy(l)
      BY <3>1 DEF WokenBy, WokenFor, QueuedFor
    <3>3. \A e \in Requests : Wakes(ls, l, e) <=> e = d
      BY <2>1, <2>3 DEF Wakes
    <3>4. WokenBy(l)' = WokenBy(l) \union {d}
      <4> HIDE DEF d
      <4>1. \A e \in Requests : WokenFor(request'[e], e, l) <=> WokenFor(request[e], e, l) \/ e = d
        BY <1>16, <3>3
      <4> QED
        BY <3>1, <4>1 DEF WokenBy
    <3>5. Cardinality(WokenBy(l)') = Cardinality(WokenBy(l)) + 1
      <4> HIDE DEF d
      <4> QED
        BY <3>1, <3>2, <3>4, OneMore DEF WokenBy
    <3>6. inFlight'[l] = inFlight[l] - 1
      BY <1>21, <2>3
    <3> QED
      BY <2>2, <3>5, <3>6
  <2>4. CASE l \notin ls
    <3>1. WokenBy(l)' = WokenBy(l)
      BY <1>16, <2>4 DEF Wakes, WokenBy
    <3> QED
      BY <1>12, <2>2, <2>4, <3>1
  <2> QED
    BY <2>3, <2>4
<1>24. Promised'
  BY <1>23 DEF Promised
<1> QED
  BY <1>14, <1>15, <1>18, <1>22, <1>24 DEF LimiterInv

-----------------------------------------------------------------------------
LEMMA NextLimiterInv == LimiterInv /\ Limiter!Next => LimiterInv'
<1> SUFFICES ASSUME LimiterInv, Limiter!Next PROVE LimiterInv'
  OBVIOUS
<1> QED
  BY AcquireKeeps, TakeSlotKeeps, PaceKeeps, SleepEndsKeeps, ReleaseKeeps, RetryKeeps,
     TimePassesKeeps DEF Limiter!Next, Limiter!Step

LEMMA SameLimiterInv == LimiterInv /\ UNCHANGED limiter => LimiterInv'
BY DEF limiter, LimiterInv, Limiter!TypeOK, Placed, LinedUp, Slots, Holding, Promised, WokenBy

\* The invariant says of the model's own operators what the property says.
LEMMA HoldsIsAt ==
  ASSUME LimiterInv, NEW c \in Requests
  PROVE  Limiter!Holds(c) = At(c, request[c])
<1> DEFINE s == request[c].stage
           h == request[c].held
<1>1. s \in 1..Len(Plan[c]) /\ h \in 0..Len(Plan[c][s]) /\ Len(Plan[c]) \in Nat
      /\ Len(Plan[c][s]) \in Nat
  BY PlanFacts DEF LimiterInv, Placed, PlacedAt
<1> HIDE DEF s, h
<1>2. \A i \in 1..h : Plan[c][s][i] \in Limiters
  BY <1>1, PlanFacts
<1>3. ASSUME NEW t \in 1..(s - 1)
      PROVE  Limiter!Members(Plan[c][t])
               = {l \in Limiters : \E i \in 1..Len(Plan[c][t]) : Plan[c][t][i] = l}
  <2>1. t \in 1..Len(Plan[c])
    BY <1>1
  <2>2. Plan[c][t] \in Seq(Limiters) /\ \A i \in 1..Len(Plan[c][t]) : Plan[c][t][i] \in Limiters
    BY <2>1, PlanFacts
  <2> QED
    BY <2>2 DEF Limiter!Members
<1> DEFINE earlier == {l \in Limiters :
                         \E t \in 1..(s - 1) : \E i \in 1..Len(Plan[c][t]) : Plan[c][t][i] = l}
           here    == {l \in Limiters : \E i \in 1..h : Plan[c][s][i] = l}
           before  == UNION {Limiter!Members(Plan[c][t]) : t \in 1..(s - 1)}
           now     == {Plan[c][s][i] : i \in 1..h}
<1>4. before = earlier
  BY <1>3
<1>5. now = here
  BY <1>2
<1>6. HoldsAt(c, s, h) = earlier \union here
  BY Zenon DEF HoldsAt
<1>7. Limiter!Holds(c) = before \union now
  BY DEF Limiter!Holds, Limiter!Stage, s, h
<1> HIDE DEF earlier, here, before, now
<1>8. At(c, request[c]) = HoldsAt(c, s, h)
  BY DEF At, s, h
<1> QED
  BY <1>4, <1>5, <1>6, <1>7, <1>8

LEMMA LimiterInvAccounts == LimiterInv => Limiter!SlotsAccounted
<1> SUFFICES ASSUME LimiterInv PROVE Limiter!SlotsAccounted
  OBVIOUS
<1>1. ASSUME NEW l \in Limiters
      PROVE  Limiter!Holders(l) = Holding(l) /\ Limiter!Woken(l) = WokenBy(l)
  BY HoldsIsAt DEF Limiter!Holders, Holding, Limiter!Woken, WokenBy, WokenFor, Limiter!Want,
                   Limiter!Stage
<1>2. ASSUME NEW l \in Limiters
      PROVE  /\ inFlight[l] = Cardinality(Limiter!Holders(l))
             /\ waiters[l] # <<>> =>
                  inFlight[l] + Cardinality(Limiter!Woken(l)) >= MaxInFlight[l]
  BY <1>1 DEF LimiterInv, Slots, Promised
<1>3. \A l \in Limiters :
        /\ Limiter!Cardinality(Limiter!Holders(l)) = Cardinality(Limiter!Holders(l))
        /\ Limiter!Cardinality(Limiter!Woken(l)) = Cardinality(Limiter!Woken(l))
  BY SameCardinality
<1> QED
  BY <1>2, <1>3 DEF Limiter!SlotsAccounted

LimiterHolds == focus = "limiter" => LimiterInv

\* Each limiter counts exactly the callers that hold one of its slots, and nobody
\* waits for a slot that is free and promised to nobody: for any number of requests
\* through any stages, with any limits, intervals and retries.
THEOREM SlotsAlwaysAccounted == Spec => []SlotsAccounted
<1>1. Init => LimiterHolds
  BY InitLimiterInv DEF Init, LimiterHolds
<1>2. LimiterHolds /\ [Next]_vars => LimiterHolds'
  <2> SUFFICES ASSUME LimiterHolds, [Next]_vars, focus' = "limiter"
               PROVE  LimiterInv'
    BY DEF LimiterHolds
  <2>1. CASE OfLimiter /\ Limiter!Next
    BY <2>1, NextLimiterInv DEF LimiterHolds, OfLimiter
  <2>2. CASE OfEndpoints /\ Endpoints!Next
    BY <2>2 DEF OfEndpoints
  <2>3. CASE OfTokens \/ OfHydration
    BY <2>3 DEF OfTokens, OfHydration
  <2>4. CASE UNCHANGED vars
    BY <2>4, SameLimiterInv DEF vars, LimiterHolds
  <2> QED
    BY <2>1, <2>2, <2>3, <2>4 DEF Next
<1>3. LimiterHolds => SlotsAccounted
  BY LimiterInvAccounts DEF LimiterHolds, SlotsAccounted
<1> QED
  BY <1>1, <1>2, <1>3, PTL DEF Spec

-----------------------------------------------------------------------------
(***************************************************************************)
(* Total is a recursive function.  What it computes is proved by induction *)
(* over the set of the numbers for which it holds.                         *)
(***************************************************************************)

LEMMA LeastNatural ==
  ASSUME NEW T \in SUBSET Nat, T # {}
  PROVE  \E x \in T : \A y \in T : x <= y
<1>1. \E x \in T : \A y \in T : ~ (<<y, x>> \in OpToRel(<, Nat))
  BY NatLessThanWellFounded, WFMin
<1>2. PICK x \in T : \A y \in T : ~ (<<y, x>> \in OpToRel(<, Nat))
  BY <1>1
<1>3. \A y \in T : ~(y < x)
  BY <1>2 DEF OpToRel
<1> QED
  BY <1>3

\* Induction up to m over a set of numbers: what the theorems with an operator say.
LEMMA UpTo ==
  ASSUME NEW m \in Nat, NEW T, 0 \in T, \A n \in 0..m - 1 : n \in T => n + 1 \in T
  PROVE  \A n \in 0..m : n \in T
<1> SUFFICES ASSUME \E n \in 0..m : n \notin T PROVE FALSE
  OBVIOUS
<1> DEFINE bad == {n \in 0..m : n \notin T}
<1>1. bad \in SUBSET Nat /\ bad # {}
  OBVIOUS
<1>2. PICK n \in bad : \A k \in bad : n <= k
  BY <1>1, LeastNatural
<1>3. n # 0 /\ n - 1 \in 0..m - 1 /\ n - 1 \notin bad
  BY <1>2
<1>4. n - 1 \in T /\ n = (n - 1) + 1
  BY <1>2, <1>3
<1> QED
  BY <1>2, <1>3, <1>4

\* Sums of the first elements of f, as Total has them.
SumsOf(f, k, g) == g = [n \in 0..k |-> IF n = 0 THEN 0 ELSE g[n - 1] + f[n - 1]]

LEMMA SumsExist ==
  ASSUME NEW m \in Nat, NEW f \in [0..m - 1 -> Nat]
  PROVE  \A k \in 0..m : \E g \in [0..k -> Nat] : SumsOf(f, k, g)
<1> DEFINE T == {k \in 0..m : \E g \in [0..k -> Nat] : SumsOf(f, k, g)}
<1>1. 0 \in T
  <2>1. SumsOf(f, 0, [n \in 0..0 |-> 0]) /\ [n \in 0..0 |-> 0] \in [0..0 -> Nat]
    BY DEF SumsOf
  <2> QED
    BY <2>1
<1>2. ASSUME NEW k \in 0..m - 1, k \in T PROVE k + 1 \in T
  <2>1. PICK g \in [0..k -> Nat] : SumsOf(f, k, g)
    BY <1>2
  <2> DEFINE h == [n \in 0..k + 1 |-> IF n = k + 1 THEN g[k] + f[k] ELSE g[n]]
  <2>2. k \in Nat /\ k + 1 \in 0..m /\ \A n \in 0..k + 1 : n # k + 1 => n \in 0..k
    OBVIOUS
  <2>3. h \in [0..k + 1 -> Nat]
    BY <2>2
  <2>4. ASSUME NEW n \in 0..k + 1
        PROVE  h[n] = IF n = 0 THEN 0 ELSE h[n - 1] + f[n - 1]
    <3>1. CASE n = k + 1
      BY <2>2, <3>1
    <3>2. CASE n # k + 1
      <4>1. n \in 0..k /\ h[n] = g[n] /\ (n # 0 => n - 1 \in 0..k /\ h[n - 1] = g[n - 1])
        BY <2>2, <3>2
      <4>2. g[n] = IF n = 0 THEN 0 ELSE g[n - 1] + f[n - 1]
        BY <2>1, <4>1 DEF SumsOf
      <4> QED
        BY <4>1, <4>2
    <3> QED
      BY <3>1, <3>2
  <2>5. SumsOf(f, k + 1, h)
    <3>1. h = [n \in 0..k + 1 |-> h[n]]
      OBVIOUS
    <3> HIDE DEF h
    <3> QED
      BY <2>4, <3>1 DEF SumsOf
  <2> QED
    BY <2>2, <2>3, <2>5
<1> HIDE DEF T
<1>3. \A k \in 0..m : k \in T
  BY <1>1, <1>2, UpTo
<1> QED
  BY <1>3 DEF T

\* Two of them agree as far as both go.
LEMMA SumsAgree ==
  ASSUME NEW f, NEW k \in Nat, NEW j \in Nat, k <= j,
         NEW g, SumsOf(f, k, g), NEW h, SumsOf(f, j, h)
  PROVE  \A n \in 0..k : g[n] = h[n]
<1> DEFINE T == {n \in 0..k : g[n] = h[n]}
<1>1. /\ \A n \in 0..k : g[n] = IF n = 0 THEN 0 ELSE g[n - 1] + f[n - 1]
      /\ \A n \in 0..j : h[n] = IF n = 0 THEN 0 ELSE h[n - 1] + f[n - 1]
  <2>1. \A n \in 0..k : g[n] = [i \in 0..k |-> IF i = 0 THEN 0 ELSE g[i - 1] + f[i - 1]][n]
    BY DEF SumsOf
  <2>2. \A n \in 0..j : h[n] = [i \in 0..j |-> IF i = 0 THEN 0 ELSE h[i - 1] + f[i - 1]][n]
    BY DEF SumsOf
  <2> QED
    BY <2>1, <2>2
<1>2. 0 \in T
  BY <1>1
<1>3. ASSUME NEW n \in 0..k - 1, n \in T PROVE n + 1 \in T
  <2>1. n + 1 \in 0..k /\ n + 1 \in 0..j /\ n + 1 # 0 /\ (n + 1) - 1 = n
    OBVIOUS
  <2>2. g[n + 1] = g[n] + f[n] /\ h[n + 1] = h[n] + f[n]
    BY <1>1, <2>1
  <2> QED
    BY <1>3, <2>1, <2>2
<1> HIDE DEF T
<1>4. \A n \in 0..k : n \in T
  BY <1>2, <1>3, UpTo
<1> QED
  BY <1>4 DEF T

LEMMA SumsGoOn ==
  ASSUME NEW f, NEW k \in Nat, NEW j \in Nat, j = k + 1,
         NEW g, SumsOf(f, k, g), NEW h, SumsOf(f, j, h)
  PROVE  h[j] = g[k] + f[k]
<1>1. k <= j
  OBVIOUS
<1>2. \A n \in 0..k : g[n] = h[n]
  BY <1>1, SumsAgree
<1>3. h[j] = [n \in 0..j |-> IF n = 0 THEN 0 ELSE h[n - 1] + f[n - 1]][j]
  BY DEF SumsOf
<1> QED
  BY <1>2, <1>3

\* Total adds up.
LEMMA TotalAdds ==
  ASSUME NEW m \in Nat, NEW f \in [0..m - 1 -> Nat]
  PROVE  /\ \A k \in 0..m : OnDemand!Total(f, k) \in Nat
         /\ OnDemand!Total(f, 0) = 0
         /\ \A k \in 0..m - 1, j \in 0..m :
              j = k + 1 => OnDemand!Total(f, j) = OnDemand!Total(f, k) + f[k]
<1> DEFINE S(k) == CHOOSE g : SumsOf(f, k, g)
<1>1. ASSUME NEW k \in 0..m PROVE SumsOf(f, k, S(k))
  <2>1. \E g : SumsOf(f, k, g)
    BY SumsExist
  <2> QED
    BY <2>1
<1>2. ASSUME NEW k \in 0..m PROVE S(k)[k] \in Nat
  <2>1. PICK g \in [0..k -> Nat] : SumsOf(f, k, g)
    BY SumsExist
  <2>2. SumsOf(f, k, S(k))
    BY <1>1
  <2> HIDE DEF S
  <2>3. S(k)[k] = g[k]
    BY <2>1, <2>2, SumsAgree
  <2> QED
    BY <2>1, <2>3
<1>3. \A k : OnDemand!Total(f, k) = S(k)[k]
  BY DEF OnDemand!Total, SumsOf
<1> HIDE DEF S
<1>4. S(0)[0] = 0
  BY <1>1 DEF SumsOf
<1>5. ASSUME NEW k \in 0..m - 1, NEW j \in 0..m, j = k + 1 PROVE S(j)[j] = S(k)[k] + f[k]
  <2>1. k \in 0..m /\ k \in Nat /\ j \in Nat
    OBVIOUS
  <2>2. SumsOf(f, k, S(k)) /\ SumsOf(f, j, S(j))
    BY <1>1, <2>1
  <2> QED
    BY <1>5, <2>1, <2>2, SumsGoOn
<1> QED
  BY <1>2, <1>3, <1>4, <1>5

Numbers == [0..Window - 1 -> Nat]

\* Everything is one older.
LEMMA TotalShifts ==
  ASSUME NEW f \in Numbers, NEW g \in Numbers,
         \A n \in 0..Window - 1 : g[n] = IF n = 0 THEN 0 ELSE f[n - 1]
  PROVE  \A k \in 0..Window - 1, j \in 0..Window :
           j = k + 1 => OnDemand!Total(g, j) = OnDemand!Total(f, k)
<1> USE OnDemandAssumption DEF OnDemand!OpportunisticAssumption, Numbers
<1> DEFINE T == {k \in 0..Window - 1 : \A j \in 0..Window :
                   j = k + 1 => OnDemand!Total(g, j) = OnDemand!Total(f, k)}
<1>1. ASSUME NEW e \in Numbers
      PROVE  /\ OnDemand!Total(e, 0) = 0
             /\ \A n \in 0..Window : OnDemand!Total(e, n) \in Nat
             /\ \A n \in 0..Window - 1, i \in 0..Window :
                  i = n + 1 => OnDemand!Total(e, i) = OnDemand!Total(e, n) + e[n]
  BY TotalAdds
<1>2. 0 \in T
  <2>1. ASSUME NEW n \in 0..Window - 1, n = 0, NEW j \in 0..Window, j = n + 1
        PROVE  OnDemand!Total(g, j) = OnDemand!Total(f, n)
    <3>1. OnDemand!Total(g, j) = OnDemand!Total(g, n) + g[n]
      BY <1>1, <2>1
    <3>2. g[n] = 0
      BY <2>1
    <3>3. OnDemand!Total(g, n) = 0 /\ OnDemand!Total(f, n) = 0
      BY <1>1, <2>1
    <3> QED
      BY <3>1, <3>2, <3>3
  <2> QED
    BY <2>1
<1>3. ASSUME NEW n \in 0..(Window - 1) - 1, n \in T PROVE n + 1 \in T
  <2>1. ASSUME NEW i \in 0..Window - 1, i = n + 1, NEW j \in 0..Window, j = i + 1
        PROVE  OnDemand!Total(g, j) = OnDemand!Total(f, i)
    <3>1. OnDemand!Total(g, i) = OnDemand!Total(f, n)
      BY <1>3, <2>1
    <3>2. OnDemand!Total(g, j) = OnDemand!Total(g, i) + g[i]
      BY <1>1, <2>1
    <3>3. OnDemand!Total(f, i) = OnDemand!Total(f, n) + f[n]
      <4>1. i \in 0..Window /\ n \in 0..Window - 1
        OBVIOUS
      <4> QED
        BY <1>1, <2>1, <4>1
    <3>4. g[i] = f[n]
      BY <2>1
    <3> QED
      BY <3>1, <3>2, <3>3, <3>4
  <2> QED
    BY <2>1
<1> HIDE DEF T
<1>4. \A n \in 0..Window - 1 : n \in T
  BY Window - 1 \in Nat, <1>2, <1>3, UpTo
<1> QED
  BY <1>4 DEF T

\* One more now.
LEMMA TotalBumps ==
  ASSUME NEW f \in Numbers, NEW g \in Numbers,
         \A n \in 0..Window - 1 : g[n] = IF n = 0 THEN f[n] + 1 ELSE f[n]
  PROVE  \A k \in 1..Window : OnDemand!Total(g, k) = OnDemand!Total(f, k) + 1
<1> USE OnDemandAssumption DEF OnDemand!OpportunisticAssumption, Numbers
<1> DEFINE T == {k \in 0..Window - 1 : \A j \in 0..Window :
                   j = k + 1 => OnDemand!Total(g, j) = OnDemand!Total(f, j) + 1}
<1>1. ASSUME NEW e \in Numbers
      PROVE  /\ OnDemand!Total(e, 0) = 0
             /\ \A n \in 0..Window : OnDemand!Total(e, n) \in Nat
             /\ \A n \in 0..Window - 1, i \in 0..Window :
                  i = n + 1 => OnDemand!Total(e, i) = OnDemand!Total(e, n) + e[n]
  BY TotalAdds
<1>2. 0 \in T
  <2>1. ASSUME NEW n \in 0..Window - 1, n = 0, NEW j \in 0..Window, j = n + 1
        PROVE  OnDemand!Total(g, j) = OnDemand!Total(f, j) + 1
    <3>1. /\ OnDemand!Total(g, j) = OnDemand!Total(g, n) + g[n]
          /\ OnDemand!Total(f, j) = OnDemand!Total(f, n) + f[n]
      BY <1>1, <2>1
    <3> QED
      BY <1>1, <2>1, <3>1
  <2> QED
    BY <2>1
<1>3. ASSUME NEW n \in 0..(Window - 1) - 1, n \in T PROVE n + 1 \in T
  <2>1. ASSUME NEW i \in 0..Window - 1, i = n + 1, NEW j \in 0..Window, j = i + 1
        PROVE  OnDemand!Total(g, j) = OnDemand!Total(f, j) + 1
    <3>1. OnDemand!Total(g, i) = OnDemand!Total(f, i) + 1
      BY <1>3, <2>1
    <3>2. OnDemand!Total(g, j) = OnDemand!Total(g, i) + g[i]
      BY <1>1, <2>1
    <3>3. OnDemand!Total(f, j) = OnDemand!Total(f, i) + f[i]
      BY <1>1, <2>1
    <3>4. g[i] = f[i] /\ OnDemand!Total(f, i) \in Nat /\ f[i] \in Nat
      BY <1>1, <2>1
    <3> QED
      BY <3>1, <3>2, <3>3, <3>4
  <2> QED
    BY <2>1
<1> HIDE DEF T
<1>4. \A n \in 0..Window - 1 : n \in T
  BY Window - 1 \in Nat, <1>2, <1>3, UpTo
<1>5. ASSUME NEW k \in 1..Window PROVE k - 1 \in T /\ k = (k - 1) + 1 /\ k \in 0..Window
  BY <1>4
<1> QED
  BY <1>5 DEF T

-----------------------------------------------------------------------------
(***************************************************************************)
(* Hydration on demand.  What was scheduled at the last k ages is bounded  *)
(* by what the window counts, or by that and what the window before could  *)
(* hold, depending on how far back they go: the window is as old as its    *)
(* first call took its time, and that is up to Latency before.             *)
(***************************************************************************)
Sum(k) == OnDemand!Total(recent, k)

CountedAt(k) ==
  LET age == window.age
  IN /\ k <= age - Window - Latency + 1 => Sum(k) = 0
     /\ k <= age - Latency              => Sum(k) < window.count
     /\ k <= age - Latency + 1          => Sum(k) <= window.count
     /\ k <= age + Window - Latency     => Sum(k) < MaxPerWindow + window.count
     /\ k <= age + Window - Latency + 1 => Sum(k) <= MaxPerWindow + window.count
     /\ Sum(k) < 2 * MaxPerWindow + window.count

QuotaInv ==
  /\ window.age = OnDemand!Never => \A k \in 0..Window : Sum(k) = 0
  /\ window.age # OnDemand!Never => window.count >= 1 /\ \A k \in 0..Window : CountedAt(k)

\* The entry of an illust is hardly older than its last hydration.
EntriesInv ==
  \A i \in Illusts : last[i] # OnDemand!Never /\ i \notin forgot =>
    dedupe[i] # OnDemand!Never /\ dedupe[i] <= last[i] + Latency

OnDemandInv == OnDemand!TypeOK /\ QuotaInv /\ EntriesInv

AskingType == [pc: {"idle", "config", "start", "create", "send"},
               illust: Illusts, age: 0..Latency]

LEMMA IdleCallType == OnDemand!IdleCall \in AskingType
BY OnDemandAssumption DEF OnDemand!OpportunisticAssumption, OnDemand!IdleCall, AskingType

LEMMA OnDemandTypes ==
  ASSUME OnDemand!TypeOK
  PROVE  /\ recent \in Numbers /\ window.age \in {OnDemand!Never} \union 0..(Window + Latency)
         /\ window.count \in 0..MaxPerWindow /\ asking \in [Calls -> AskingType]
         /\ \A k \in 0..Window : Sum(k) \in Nat
         /\ Sum(0) = 0
<1> USE OnDemandAssumption DEF OnDemand!OpportunisticAssumption
<1>1. recent \in Numbers
  BY DEF OnDemand!TypeOK, Numbers
<1> QED
  BY <1>1, TotalAdds DEF OnDemand!TypeOK, AskingType, Sum, Numbers

LEMMA InitOnDemandInv == OnDemand!Init => OnDemandInv
<1> USE OnDemandAssumption DEF OnDemand!OpportunisticAssumption
<1> SUFFICES ASSUME OnDemand!Init PROVE OnDemandInv
  OBVIOUS
<1>1. OnDemand!TypeOK
  BY IdleCallType DEF OnDemand!Init, OnDemand!TypeOK, AskingType, OnDemand!Never, OnDemand!None
<1>2. QuotaInv
  <2>1. \A n \in 0..Window - 1 : recent[n] = IF n = 0 THEN 0 ELSE recent[n - 1]
    BY DEF OnDemand!Init
  <2> DEFINE T == {k \in 0..Window : Sum(k) = 0}
  <2>2. 0 \in T
    BY <1>1, OnDemandTypes
  <2>3. ASSUME NEW k \in 0..Window - 1, k \in T PROVE k + 1 \in T
    <3>1. ASSUME NEW j \in 0..Window, j = k + 1 PROVE Sum(j) = Sum(k)
      BY <1>1, <2>1, <3>1, OnDemandTypes, TotalShifts DEF Sum
    <3> QED
      BY <2>3, <3>1
  <2> HIDE DEF T
  <2>4. \A k \in 0..Window : k \in T
    BY <2>2, <2>3, UpTo
  <2> QED
    BY <2>4 DEF T, QuotaInv, OnDemand!Init
<1>3. EntriesInv
  BY DEF OnDemand!Init, EntriesInv
<1> QED
  BY <1>1, <1>2, <1>3 DEF OnDemandInv

\* Most steps leave alone what the invariant is about.
LEMMA SameSeen ==
  ASSUME OnDemandInv, OnDemand!TypeOK', UNCHANGED <<dedupe, window, last, forgot, recent>>
  PROVE  OnDemandInv'
BY DEF OnDemandInv, QuotaInv, CountedAt, Sum, EntriesInv

LEMMA CallGoes ==
  ASSUME OnDemand!TypeOK, NEW c \in Calls, NEW x \in AskingType
  PROVE  [asking EXCEPT ![c] = x] \in [Calls -> AskingType]
BY OnDemandTypes

LEMMA CallGoesTo ==
  ASSUME OnDemand!TypeOK, NEW c \in Calls,
         NEW pc \in {"idle", "config", "start", "create", "send"}
  PROVE  [asking EXCEPT ![c].pc = pc] \in [Calls -> AskingType]
BY OnDemandTypes DEF AskingType

LEMMA FaultCounts ==
  ASSUME OnDemand!TypeOK, OnDemand!Fault
  PROVE  faults' \in 0..MaxFaults
BY OnDemandAssumption DEF OnDemand!OpportunisticAssumption, OnDemand!TypeOK, OnDemand!Fault

LEMMA OtherCallsKeep ==
  ASSUME OnDemandInv, NEW c \in Calls,
         \/ \E i \in Illusts : OnDemand!Serve(c, i)
         \/ OnDemand!ConfigRefuses(c) \/ OnDemand!StartQueue(c)
         \/ OnDemand!CreateQueues(c) \/ OnDemand!Send(c) \/ OnDemand!EnqueueFails(c)
  PROVE  OnDemandInv'
<1> USE OnDemandAssumption DEF OnDemand!OpportunisticAssumption, OnDemandInv
<1>1. /\ UNCHANGED <<on, dedupe, window, hydrated, last, forgot, recent, toggles>>
      /\ asking' \in [Calls -> AskingType] /\ faults' \in 0..MaxFaults
      /\ boss' \in {"none", "starting", "up"}
      /\ job' \in [Illusts -> {OnDemand!None} \union 0..RetryLimit]
  <2>1. ASSUME NEW i \in Illusts, OnDemand!Serve(c, i)
        PROVE  asking' \in [Calls -> AskingType] /\ UNCHANGED <<boss, job, faults>>
    <3>1. [pc |-> "config", illust |-> i, age |-> 0] \in AskingType
      BY DEF AskingType
    <3> QED
      BY <2>1, <3>1, CallGoes DEF OnDemand!Serve, OnDemand!queue
  <2>2. CASE OnDemand!ConfigRefuses(c) \/ OnDemand!EnqueueFails(c)
    <3>1. asking' \in [Calls -> AskingType]
      BY <2>2, CallGoes, IdleCallType
         DEF OnDemand!ConfigRefuses, OnDemand!EnqueueFails, OnDemand!Return
    <3>2. faults' \in 0..MaxFaults
      BY <2>2, FaultCounts DEF OnDemand!ConfigRefuses, OnDemand!EnqueueFails, OnDemand!TypeOK
    <3>3. UNCHANGED <<on, dedupe, window, hydrated, last, forgot, recent, toggles, boss, job>>
      BY <2>2 DEF OnDemand!ConfigRefuses, OnDemand!EnqueueFails, OnDemand!quota,
                  OnDemand!queue, OnDemand!seen
    <3> QED
      BY <3>1, <3>2, <3>3 DEF OnDemand!TypeOK
  <2>3. CASE OnDemand!StartQueue(c)
    <3>1. asking' \in [Calls -> AskingType]
      BY <2>3, CallGoesTo, OnDemandTypes DEF OnDemand!StartQueue, OnDemand!Goto
    <3> QED
      BY <2>3, <3>1 DEF OnDemand!StartQueue, OnDemand!TypeOK, OnDemand!quota, OnDemand!seen
  <2>4. CASE OnDemand!CreateQueues(c)
    BY <2>4, CallGoesTo
       DEF OnDemand!CreateQueues, OnDemand!Goto, OnDemand!TypeOK, OnDemand!quota,
           OnDemand!queue, OnDemand!seen
  <2>5. CASE OnDemand!Send(c)
    <3>1. asking[c].illust \in Illusts
      BY OnDemandTypes DEF AskingType
    <3>2. asking' \in [Calls -> AskingType]
      BY <2>5, CallGoes, IdleCallType DEF OnDemand!Send, OnDemand!Return
    <3>3. job' \in [Illusts -> {OnDemand!None} \union 0..RetryLimit]
      BY <2>5, <3>1 DEF OnDemand!Send, OnDemand!TypeOK
    <3> QED
      BY <2>5, <3>2, <3>3 DEF OnDemand!Send, OnDemand!TypeOK, OnDemand!quota, OnDemand!seen
  <2> QED
    BY <2>1, <2>2, <2>3, <2>4, <2>5
       DEF OnDemand!Serve, OnDemand!ConfigRefuses, OnDemand!StartQueue, OnDemand!CreateQueues,
           OnDemand!Send, OnDemand!EnqueueFails, OnDemand!quota, OnDemand!queue, OnDemand!seen,
           OnDemand!TypeOK
<1>2. OnDemand!TypeOK'
  BY <1>1 DEF OnDemand!TypeOK, AskingType
<1> QED
  BY <1>1, <1>2, SameSeen

LEMMA StartSettlesKeeps ==
  ASSUME OnDemandInv, OnDemand!QueueStarted \/ OnDemand!StartFails
  PROVE  OnDemandInv'
<1> USE DEF OnDemandInv
<1>1. ASSUME NEW c \in Calls
      PROVE  /\ [asking[c] EXCEPT !.pc = "create"] \in AskingType /\ asking[c] \in AskingType
             /\ OnDemand!IdleCall \in AskingType
  BY OnDemandTypes, IdleCallType DEF AskingType
<1>2. asking' \in [Calls -> AskingType]
  BY <1>1 DEF OnDemand!QueueStarted, OnDemand!StartFails
<1>3. faults' \in 0..MaxFaults /\ boss' \in {"none", "starting", "up"}
  BY FaultCounts DEF OnDemand!QueueStarted, OnDemand!StartFails, OnDemand!TypeOK
<1>4. UNCHANGED <<on, dedupe, window, job, hydrated, last, forgot, recent, toggles>>
  BY DEF OnDemand!QueueStarted, OnDemand!StartFails, OnDemand!quota, OnDemand!seen
<1>5. OnDemand!TypeOK'
  BY <1>2, <1>3, <1>4 DEF OnDemand!TypeOK, AskingType
<1> QED
  BY <1>4, <1>5, SameSeen

LEMMA JobKeeps ==
  ASSUME OnDemandInv, NEW i \in Illusts, OnDemand!JobDone(i) \/ OnDemand!JobFails(i)
  PROVE  OnDemandInv'
<1> USE OnDemandAssumption DEF OnDemand!OpportunisticAssumption, OnDemandInv
<1>1. job[i] \in 0..RetryLimit
  BY DEF OnDemand!JobDone, OnDemand!JobFails, OnDemand!TypeOK
<1>2. /\ job' \in [Illusts -> {OnDemand!None} \union 0..RetryLimit]
      /\ hydrated' \subseteq Illusts /\ faults' \in 0..MaxFaults
  <2>1. CASE OnDemand!JobDone(i)
    BY <2>1 DEF OnDemand!JobDone, OnDemand!TypeOK
  <2>2. CASE OnDemand!JobFails(i)
    <3>1. (IF job[i] < RetryLimit THEN job[i] + 1 ELSE OnDemand!None)
            \in {OnDemand!None} \union 0..RetryLimit
      BY <1>1
    <3> QED
      BY <2>2, <3>1, FaultCounts DEF OnDemand!JobFails, OnDemand!TypeOK
  <2> QED
    BY <2>1, <2>2
<1>3. UNCHANGED <<on, dedupe, window, asking, boss, last, forgot, recent, toggles>>
  BY DEF OnDemand!JobDone, OnDemand!JobFails, OnDemand!quota, OnDemand!seen
<1>4. OnDemand!TypeOK'
  BY <1>2, <1>3 DEF OnDemand!TypeOK
<1> QED
  BY <1>3, <1>4, SameSeen

LEMMA ToggleKeeps ==
  ASSUME OnDemandInv, OnDemand!Toggle
  PROVE  OnDemandInv'
<1> USE OnDemandAssumption DEF OnDemand!OpportunisticAssumption, OnDemandInv
<1>1. UNCHANGED <<dedupe, window, asking, boss, job, hydrated, last, forgot, recent, faults>>
  BY DEF OnDemand!Toggle, OnDemand!quota, OnDemand!queue, OnDemand!seen
<1>2. OnDemand!TypeOK'
  BY <1>1 DEF OnDemand!Toggle, OnDemand!TypeOK
<1> QED
  BY <1>1, <1>2, SameSeen

\* A call takes its quota: in the window it finds, or in one that starts at its time.
LEMMA RestartedFacts ==
  ASSUME OnDemandInv, NEW age \in 0..Latency
  PROVE  LET w == OnDemand!Restarted(window, age)
         IN /\ w \in [age: {OnDemand!Never} \union 0..(Window + Latency), count: 0..MaxPerWindow]
            /\ w.age # OnDemand!Never
            /\ \/ /\ w = window /\ window.age # OnDemand!Never
                  /\ window.age - age < Window
               \/ /\ w = [age |-> age, count |-> 0]
                  /\ window.age = OnDemand!Never \/ window.age - age >= Window
BY OnDemandAssumption, OnDemandTypes
   DEF OnDemand!OpportunisticAssumption, OnDemandInv, OnDemand!TypeOK, OnDemand!Restarted,
       OnDemand!Never

LEMMA ScheduledCounts ==
  ASSUME OnDemandInv, NEW c \in Calls, NEW i \in Illusts, NEW age \in 0..Latency,
         OnDemand!Scheduled(c, i, age), recent' \in Numbers
  PROVE  QuotaInv'
<1> USE OnDemandAssumption DEF OnDemand!OpportunisticAssumption, OnDemandInv
<1> DEFINE w == OnDemand!Restarted(window, age)
<1>1. /\ w.age \in 0..(Window + Latency) /\ w.count \in 0..MaxPerWindow - 1
      /\ \/ w = window /\ window.age # OnDemand!Never /\ window.age - age < Window
         \/ /\ w.age = age /\ w.count = 0
            /\ window.age = OnDemand!Never \/ window.age - age >= Window
  BY RestartedFacts DEF OnDemand!Scheduled
<1>2. window'.age = w.age /\ window'.count = w.count + 1 /\ window'.age # OnDemand!Never
  BY <1>1, RestartedFacts DEF OnDemand!Scheduled, OnDemand!Never
<1>3. \A n \in 0..Window - 1 : recent'[n] = IF n = 0 THEN recent[n] + 1 ELSE recent[n]
  BY OnDemandTypes DEF OnDemand!Scheduled, Numbers
<1>4. /\ \A k \in 0..Window : Sum(k) \in Nat
      /\ \A k \in 1..Window : Sum(k)' = Sum(k) + 1
      /\ Sum(0)' = 0
  BY <1>3, OnDemandTypes, TotalBumps, TotalAdds DEF Sum, Numbers
<1>5. /\ window.age \in {OnDemand!Never} \union 0..(Window + Latency)
      /\ window.count \in 0..MaxPerWindow
  BY OnDemandTypes
<1> HIDE DEF w
<1>6. ASSUME NEW k \in 0..Window PROVE CountedAt(k)'
  <2>1. CASE k = 0
    BY <1>1, <1>2, <1>4, <2>1 DEF CountedAt
  <2>2. CASE k # 0
    <3>1. Sum(k)' = Sum(k) + 1 /\ Sum(k) \in Nat
      BY <1>4, <2>2
    <3>2. CASE window.age = OnDemand!Never
      <4>1. Sum(k) = 0 /\ w.age = age /\ w.count = 0
        BY <1>1, <3>2 DEF QuotaInv
      <4> QED
        BY <1>2, <2>2, <3>1, <4>1 DEF CountedAt
    <3>3. CASE window.age # OnDemand!Never
      <4>1. CountedAt(k)
        BY <3>3 DEF QuotaInv
      <4>2. CASE w = window /\ window.age - age < Window
        BY <1>1, <1>2, <1>5, <2>2, <3>1, <3>3, <4>1, <4>2 DEF CountedAt
      <4>3. CASE w.age = age /\ w.count = 0 /\ window.age - age >= Window
        BY <1>1, <1>2, <1>5, <2>2, <3>1, <3>3, <4>1, <4>3 DEF CountedAt
      <4> QED
        BY <1>1, <3>3, <4>2, <4>3
    <3> QED
      BY <3>2, <3>3
  <2> QED
    BY <2>1, <2>2
<1> QED
  BY <1>1, <1>2, <1>6 DEF QuotaInv

LEMMA Remembered ==
  ASSUME OnDemand!TypeOK, NEW i \in Illusts, NEW age \in 0..Latency
  PROVE  /\ OnDemand!Remember(i, age) \in [Illusts -> {OnDemand!Never} \union 0..(Ttl + Latency)]
         /\ OnDemand!Remember(i, age)[i] \in {OnDemand!Never, age}
         /\ \A j \in Illusts \ {i} : OnDemand!Remember(i, age)[j] \in {OnDemand!Never, dedupe[j]}
<1> USE OnDemandAssumption DEF OnDemand!OpportunisticAssumption
<1> DEFINE map   == [dedupe EXCEPT ![i] = age]
           young == [j \in Illusts |-> IF map[j] - age > Ttl THEN OnDemand!Never ELSE map[j]]
           none  == [j \in Illusts |-> OnDemand!Never]
<1>1. OnDemand!Remember(i, age) \in {map, young, none}
  BY DEF OnDemand!Remember
<1>2. /\ map \in [Illusts -> {OnDemand!Never} \union 0..(Ttl + Latency)]
      /\ map[i] = age /\ \A j \in Illusts \ {i} : map[j] = dedupe[j]
  BY DEF OnDemand!TypeOK
<1> HIDE DEF map
<1>3. young \in [Illusts -> {OnDemand!Never} \union 0..(Ttl + Latency)]
  BY <1>2
<1> QED
  BY <1>1, <1>2, <1>3

LEMMA ConfigReadKeeps ==
  ASSUME OnDemandInv, NEW c \in Calls, OnDemand!ConfigRead(c)
  PROVE  OnDemandInv'
<1> USE OnDemandAssumption DEF OnDemand!OpportunisticAssumption, OnDemandInv
<1> DEFINE i   == asking[c].illust
           age == asking[c].age
<1>1. i \in Illusts /\ age \in 0..Latency
  BY OnDemandTypes DEF AskingType
<1>2. UNCHANGED <<on, boss, job, hydrated, faults, toggles>>
  BY DEF OnDemand!ConfigRead, OnDemand!queue
<1> HIDE DEF i, age
<1>3. CASE OnDemand!Scheduled(c, i, age)
  <2>1. asking' \in [Calls -> AskingType]
    BY <1>3, CallGoesTo DEF OnDemand!Scheduled, OnDemand!Goto
  <2>2. window' \in [age: {OnDemand!Never} \union 0..(Window + Latency), count: 0..MaxPerWindow]
    <3> DEFINE w == OnDemand!Restarted(window, age)
    <3>1. /\ w \in [age: {OnDemand!Never} \union 0..(Window + Latency), count: 0..MaxPerWindow]
          /\ w.count < MaxPerWindow /\ window' = [w EXCEPT !.count = @ + 1]
      BY <1>1, <1>3, RestartedFacts DEF OnDemand!Scheduled
    <3> HIDE DEF w
    <3> QED
      BY <3>1
  <2>3. /\ dedupe' \in [Illusts -> {OnDemand!Never} \union 0..(Ttl + Latency)]
        /\ dedupe'[i] \in {OnDemand!Never, age}
        /\ \A j \in Illusts \ {i} : dedupe'[j] \in {OnDemand!Never, dedupe[j]}
    BY <1>1, <1>3, Remembered DEF OnDemand!Scheduled
  <2>4. last' \in [Illusts -> {OnDemand!Never} \union 0..Ttl]
    BY <1>1, <1>3 DEF OnDemand!Scheduled, OnDemand!TypeOK
  <2>5. forgot' = (forgot \ {i}) \union {j \in Illusts : dedupe'[j] = OnDemand!Never}
    BY <1>3 DEF OnDemand!Scheduled
  <2>6. recent' \in Numbers
    <3>1. recent[0] + 1 \in Nat
      BY OnDemandTypes DEF Numbers
    <3> QED
      BY <1>3, <3>1, OnDemandTypes DEF OnDemand!Scheduled, Numbers
  <2>7. OnDemand!TypeOK'
    BY <1>2, <2>1, <2>2, <2>3, <2>4, <2>5, <2>6 DEF OnDemand!TypeOK, AskingType, Numbers
  <2>8. EntriesInv'
    <3>1. ASSUME NEW j \in Illusts, last'[j] # OnDemand!Never, j \notin forgot'
          PROVE  dedupe'[j] # OnDemand!Never /\ dedupe'[j] <= last'[j] + Latency
      <4>1. dedupe'[j] # OnDemand!Never
        BY <2>5, <3>1
      <4>2. CASE j = i
        BY <1>1, <1>3, <2>3, <4>1, <4>2 DEF OnDemand!Scheduled, OnDemand!TypeOK
      <4>3. CASE j # i
        <5>1. dedupe'[j] = dedupe[j] /\ last'[j] = last[j] /\ j \notin forgot
          BY <1>1, <1>3, <2>3, <2>5, <3>1, <4>1, <4>3 DEF OnDemand!Scheduled, OnDemand!TypeOK
        <5> QED
          BY <3>1, <5>1 DEF EntriesInv
      <4> QED
        BY <4>2, <4>3
    <3> QED
      BY <3>1 DEF EntriesInv
  <2> QED
    BY <1>1, <1>3, <2>6, <2>7, <2>8, ScheduledCounts
<1>4. CASE OnDemand!Refused(c, i, age)
  <2>1. UNCHANGED <<dedupe, last, forgot, recent>>
    BY <1>4 DEF OnDemand!Refused, OnDemand!seen
  <2>2. UNCHANGED window
    <3>1. CASE UNCHANGED window
      BY <3>1
    <3>2. CASE /\ OnDemand!Restarted(window, age).count >= MaxPerWindow
               /\ window' = OnDemand!Restarted(window, age)
      BY <1>1, <3>2, RestartedFacts
    <3> QED
      BY <1>4, <3>1, <3>2 DEF OnDemand!Refused
  <2>3. asking' \in [Calls -> AskingType]
    BY <1>4, CallGoes, IdleCallType DEF OnDemand!Refused, OnDemand!Return
  <2>4. OnDemand!TypeOK'
    BY <1>2, <2>1, <2>2, <2>3 DEF OnDemand!TypeOK, AskingType
  <2> QED
    BY <2>1, <2>2, <2>4, SameSeen
<1> QED
  BY <1>3, <1>4 DEF OnDemand!ConfigRead, i, age

LEMMA OlderType ==
  ASSUME NEW cap \in Nat, NEW age \in {OnDemand!Never} \union 0..cap
  PROVE  OnDemand!Older(age, cap) \in {OnDemand!Never} \union 0..cap
BY DEF OnDemand!Older, OnDemand!Never

\* Time passes: what was scheduled up to k ago was scheduled up to k + 1 ago, and the
\* window is older by as much, unless it is so old that it makes no difference.
LEMMA OnDemandTickKeeps ==
  ASSUME OnDemandInv, OnDemand!Tick
  PROVE  OnDemandInv'
<1> USE OnDemandAssumption DEF OnDemand!OpportunisticAssumption, OnDemandInv, OnDemand!Never
<1>1. /\ recent' \in Numbers
      /\ \A n \in 0..Window - 1 : recent'[n] = IF n = 0 THEN 0 ELSE recent[n - 1]
  <2>1. recent' = [n \in 0..Window - 1 |-> IF n = 0 THEN 0 ELSE recent[n - 1]]
    BY DEF OnDemand!Tick
  <2>2. \A n \in 0..Window - 1 : (IF n = 0 THEN 0 ELSE recent[n - 1]) \in Nat
    BY OnDemandTypes DEF Numbers
  <2> QED
    BY <2>1, <2>2 DEF Numbers
<1>2. /\ Sum(0)' = 0
      /\ \A k \in 0..Window - 1, j \in 0..Window : j = k + 1 => Sum(j)' = Sum(k)
  BY <1>1, OnDemandTypes, TotalShifts, TotalAdds DEF Sum, Numbers
<1>3. /\ window'.count = window.count
      /\ window'.age = OnDemand!Older(window.age, Window + Latency)
      /\ window' \in [age: {OnDemand!Never} \union 0..(Window + Latency), count: 0..MaxPerWindow]
  <2>1. /\ window' = [window EXCEPT !.age = OnDemand!Older(window.age, Window + Latency)]
        /\ window \in [age: {OnDemand!Never} \union 0..(Window + Latency), count: 0..MaxPerWindow]
    BY DEF OnDemand!Tick, OnDemand!TypeOK
  <2>2. OnDemand!Older(window.age, Window + Latency)
          \in {OnDemand!Never} \union 0..(Window + Latency)
    BY <2>1, OlderType
  <2> QED
    BY <2>1, <2>2
<1>4. /\ window.age \in {OnDemand!Never} \union 0..(Window + Latency)
      /\ window.count \in 0..MaxPerWindow /\ \A k \in 0..Window : Sum(k) \in Nat
  BY OnDemandTypes
<1>5. ASSUME NEW j \in 1..Window PROVE \E k \in 0..Window - 1 : j = k + 1 /\ Sum(j)' = Sum(k)
  <2>1. j - 1 \in 0..Window - 1 /\ j = (j - 1) + 1 /\ j \in 0..Window
    OBVIOUS
  <2> QED
    BY <1>2, <2>1
<1>6. QuotaInv'
  <2>1. CASE window.age = OnDemand!Never
    <3>1. \A j \in 0..Window : Sum(j)' = 0
      BY <1>2, <1>5, <2>1 DEF QuotaInv
    <3> QED
      BY <1>3, <2>1, <3>1 DEF QuotaInv, OnDemand!Older
  <2>2. CASE window.age # OnDemand!Never
    <3>1. window'.age # OnDemand!Never /\ window.count >= 1
      BY <1>3, <1>4, <2>2 DEF OnDemand!Older, QuotaInv
    <3>2. ASSUME NEW j \in 0..Window PROVE CountedAt(j)'
      <4>1. CASE j = 0
        BY <1>2, <1>3, <1>4, <3>1, <4>1 DEF CountedAt
      <4>2. CASE j # 0
        <5>1. PICK k \in 0..Window - 1 : j = k + 1 /\ Sum(j)' = Sum(k)
          BY <1>5, <4>2
        <5>2. CountedAt(k) /\ Sum(k) \in Nat
          BY <1>4, <2>2 DEF QuotaInv
        <5>3. CASE window.age = Window + Latency
          BY <1>3, <1>4, <3>1, <5>1, <5>2, <5>3 DEF CountedAt, OnDemand!Older
        <5>4. CASE window.age # Window + Latency
          BY <1>3, <1>4, <2>2, <5>1, <5>2, <5>4 DEF CountedAt, OnDemand!Older
        <5> QED
          BY <5>3, <5>4
      <4> QED
        BY <4>1, <4>2
    <3> QED
      BY <1>3, <3>1, <3>2 DEF QuotaInv
  <2> QED
    BY <2>1, <2>2
<1>7. /\ dedupe' \in [Illusts -> {OnDemand!Never} \union 0..(Ttl + Latency)]
      /\ last' \in [Illusts -> {OnDemand!Never} \union 0..Ttl]
  <2>1. ASSUME NEW i \in Illusts
        PROVE  /\ OnDemand!Older(dedupe[i], Ttl + Latency)
                    \in {OnDemand!Never} \union 0..(Ttl + Latency)
               /\ OnDemand!Older(last[i], Ttl) \in {OnDemand!Never} \union 0..Ttl
    <3>1. /\ dedupe[i] \in {OnDemand!Never} \union 0..(Ttl + Latency) /\ Ttl + Latency \in Nat
          /\ last[i] \in {OnDemand!Never} \union 0..Ttl /\ Ttl \in Nat
      BY DEF OnDemand!TypeOK
    <3>2. OnDemand!Older(last[i], Ttl) \in {OnDemand!Never} \union 0..Ttl
      BY <3>1, OlderType
    <3>3. OnDemand!Older(dedupe[i], Ttl + Latency) \in {OnDemand!Never} \union 0..(Ttl + Latency)
      BY <3>1, OlderType
    <3> QED
      BY <3>2, <3>3
  <2> QED
    BY <2>1 DEF OnDemand!Tick
<1>8. asking' \in [Calls -> AskingType]
  <2>1. \A c \in Calls : asking[c].pc = "config" => asking[c].age < Latency
    BY DEF OnDemand!Tick
  <2>2. \A c \in Calls : asking[c] \in AskingType
    BY OnDemandTypes
  <2>3. ASSUME NEW c \in Calls
        PROVE  (IF asking[c].pc = "config" THEN [asking[c] EXCEPT !.age = @ + 1]
                                           ELSE asking[c]) \in AskingType
    BY <2>1, <2>2 DEF AskingType
  <2> QED
    BY <2>3 DEF OnDemand!Tick
<1>9. UNCHANGED <<on, boss, job, hydrated, forgot, faults, toggles>>
  BY DEF OnDemand!Tick, OnDemand!queue
<1>10. OnDemand!TypeOK'
  BY <1>1, <1>3, <1>7, <1>8, <1>9 DEF OnDemand!TypeOK, AskingType, Numbers
<1>11. EntriesInv'
  <2>1. ASSUME NEW i \in Illusts, last'[i] # OnDemand!Never, i \notin forgot'
        PROVE  dedupe'[i] # OnDemand!Never /\ dedupe'[i] <= last'[i] + Latency
    <3>1. /\ last'[i] = OnDemand!Older(last[i], Ttl)
          /\ dedupe'[i] = OnDemand!Older(dedupe[i], Ttl + Latency)
      BY DEF OnDemand!Tick
    <3>2. /\ last[i] \in {OnDemand!Never} \union 0..Ttl
          /\ dedupe[i] \in {OnDemand!Never} \union 0..(Ttl + Latency)
      BY DEF OnDemand!TypeOK
    <3>3. last[i] # OnDemand!Never /\ i \notin forgot
      BY <1>9, <2>1, <3>1 DEF OnDemand!Older
    <3>4. dedupe[i] # OnDemand!Never /\ dedupe[i] <= last[i] + Latency
      BY <3>3 DEF EntriesInv
    <3> QED
      BY <3>1, <3>2, <3>3, <3>4 DEF OnDemand!Older
  <2> QED
    BY <2>1 DEF EntriesInv
<1> QED
  BY <1>6, <1>10, <1>11

LEMMA NextOnDemandInv == OnDemandInv /\ OnDemand!Next => OnDemandInv'
<1> SUFFICES ASSUME OnDemandInv, OnDemand!Next PROVE OnDemandInv'
  OBVIOUS
<1> QED
  BY OtherCallsKeep, StartSettlesKeeps, JobKeeps, ToggleKeeps, ConfigReadKeeps, OnDemandTickKeeps
     DEF OnDemand!Next, OnDemand!CallStep

LEMMA SameOnDemandInv == OnDemandInv /\ UNCHANGED <<hydration, faults>> => OnDemandInv'
BY DEF hydration, OnDemandInv, OnDemand!TypeOK, QuotaInv, CountedAt, Sum, EntriesInv

LEMMA OnDemandInvHolds == OnDemandInv => OnDemand!QuotaHolds
<1> USE OnDemandAssumption DEF OnDemand!OpportunisticAssumption, OnDemandInv
<1> SUFFICES ASSUME OnDemandInv PROVE OnDemand!QuotaHolds
  OBVIOUS
<1>1. OnDemand!Span \in 0..Window /\ Window \in 0..Window
  BY DEF OnDemand!Span
<1>2. /\ window.age \in {OnDemand!Never} \union 0..(Window + Latency)
      /\ window.count \in 0..MaxPerWindow /\ \A k \in 0..Window : Sum(k) \in Nat
  BY OnDemandTypes
<1>3. Sum(OnDemand!Span) <= 2 * MaxPerWindow /\ Sum(Window) < 3 * MaxPerWindow
  <2>1. CASE window.age = OnDemand!Never
    BY <1>1, <2>1 DEF QuotaInv
  <2>2. CASE window.age # OnDemand!Never
    <3>1. CountedAt(OnDemand!Span) /\ CountedAt(Window)
      BY <1>1, <2>2 DEF QuotaInv
    <3>2. window.age \in 0..(Window + Latency)
      BY <1>2, <2>2
    <3>3. Sum(Window) < 3 * MaxPerWindow
      BY <1>1, <1>2, <3>1 DEF CountedAt
    <3>4. CASE Latency = 0
      <4>1. OnDemand!Span = Window
        BY <3>4 DEF OnDemand!Span
      <4>2. Sum(Window) <= 2 * MaxPerWindow
        BY <1>1, <1>2, <3>1, <3>2, <3>4 DEF CountedAt
      <4> QED
        BY <3>3, <4>1, <4>2
    <3>5. CASE Latency # 0
      <4>1. OnDemand!Span <= window.age + Window - Latency + 1
        BY <3>2, <3>5 DEF OnDemand!Span
      <4>2. Sum(OnDemand!Span) <= MaxPerWindow + window.count
        BY <3>1, <4>1 DEF CountedAt
      <4> QED
        BY <1>1, <1>2, <3>3, <4>2
    <3> QED
      BY <3>4, <3>5
  <2> QED
    BY <2>1, <2>2
<1> QED
  BY <1>3 DEF OnDemand!QuotaHolds, Sum

\* Only ConfigRead takes a call from the configuration to the queue.
LEMMA NextSchedulesAnew ==
  ASSUME OnDemandInv, OnDemand!Next
  PROVE  OnDemand!ScheduledAnew
<1> USE OnDemandAssumption DEF OnDemand!OpportunisticAssumption, OnDemandInv
<1> SUFFICES ASSUME NEW c \in Calls, asking[c].pc = "config", asking'[c].pc = "start"
             PROVE  LET i == asking[c].illust
                    IN last[i] = OnDemand!Never \/ last[i] >= Ttl - Latency \/ i \in forgot
  BY DEF OnDemand!ScheduledAnew
<1>1. asking \in [Calls -> AskingType] /\ OnDemand!IdleCall.pc = "idle"
  BY OnDemandTypes DEF OnDemand!IdleCall
<1>2. PICK d \in Calls : OnDemand!ConfigRead(d) /\ asking' = [asking EXCEPT ![d].pc = "start"]
  <2>1. ASSUME NEW d \in Calls, NEW i \in Illusts, OnDemand!Serve(d, i) PROVE FALSE
    BY <1>1, <2>1 DEF OnDemand!Serve, AskingType
  <2>2. ASSUME NEW d \in Calls, OnDemand!ConfigRefuses(d) \/ OnDemand!EnqueueFails(d) PROVE FALSE
    BY <1>1, <2>2 DEF OnDemand!ConfigRefuses, OnDemand!EnqueueFails, OnDemand!Return, AskingType
  <2>3. ASSUME NEW d \in Calls,
               OnDemand!StartQueue(d) \/ OnDemand!CreateQueues(d) \/ OnDemand!Send(d)
        PROVE  FALSE
    BY <1>1, <2>3 DEF OnDemand!StartQueue, OnDemand!CreateQueues, OnDemand!Send, OnDemand!Goto,
                      OnDemand!Return, AskingType
  <2>4. CASE OnDemand!QueueStarted \/ OnDemand!StartFails
    BY <1>1, <2>4 DEF OnDemand!QueueStarted, OnDemand!StartFails, AskingType
  <2>5. ASSUME NEW i \in Illusts, OnDemand!JobDone(i) \/ OnDemand!JobFails(i) PROVE FALSE
    BY <2>5 DEF OnDemand!JobDone, OnDemand!JobFails
  <2>6. CASE OnDemand!Toggle
    BY <2>6 DEF OnDemand!Toggle
  <2>7. CASE OnDemand!Tick
    BY <1>1, <2>7 DEF OnDemand!Tick, AskingType
  <2>8. ASSUME NEW d \in Calls, OnDemand!ConfigRead(d)
        PROVE  asking' = [asking EXCEPT ![d].pc = "start"]
    <3>1. CASE OnDemand!Scheduled(d, asking[d].illust, asking[d].age)
      BY <3>1 DEF OnDemand!Scheduled, OnDemand!Goto
    <3>2. CASE OnDemand!Refused(d, asking[d].illust, asking[d].age)
      BY <1>1, <3>2 DEF OnDemand!Refused, OnDemand!Return, AskingType
    <3> QED
      BY <2>8, <3>1, <3>2 DEF OnDemand!ConfigRead
  <2> QED
    BY <2>1, <2>2, <2>3, <2>4, <2>5, <2>6, <2>7, <2>8 DEF OnDemand!Next, OnDemand!CallStep
<1>3. c = d
  BY <1>1, <1>2 DEF AskingType
<1> DEFINE i   == asking[c].illust
           age == asking[c].age
<1>4. i \in Illusts /\ age \in 0..Latency
  BY <1>1 DEF AskingType
<1> HIDE DEF i, age
<1>5. ~OnDemand!Deduped(i, age)
  <2>1. CASE OnDemand!Scheduled(c, i, age)
    BY <2>1 DEF OnDemand!Scheduled
  <2>2. CASE OnDemand!Refused(c, i, age)
    BY <1>1, <2>2 DEF OnDemand!Refused, OnDemand!Return, AskingType
  <2> QED
    BY <1>2, <1>3, <2>1, <2>2 DEF OnDemand!ConfigRead, i, age
<1>6. /\ last[i] \in {OnDemand!Never} \union 0..Ttl
      /\ dedupe[i] \in {OnDemand!Never} \union 0..(Ttl + Latency)
  BY <1>4 DEF OnDemand!TypeOK
<1>7. last[i] = OnDemand!Never \/ last[i] >= Ttl - Latency \/ i \in forgot
  BY <1>4, <1>5, <1>6 DEF OnDemand!Deduped, EntriesInv, OnDemand!Never
<1> QED
  BY <1>7 DEF i

OnDemandHolds == focus = "hydration" => OnDemandInv

LEMMA OnDemandInvariant == Spec => []OnDemandHolds
<1>1. Init => OnDemandHolds
  BY InitOnDemandInv DEF Init, OnDemandHolds
<1>2. OnDemandHolds /\ [Next]_vars => OnDemandHolds'
  <2> SUFFICES ASSUME OnDemandHolds, [Next]_vars, focus' = "hydration"
               PROVE  OnDemandInv'
    BY DEF OnDemandHolds
  <2>1. CASE OfHydration /\ OnDemand!Next
    BY <2>1, NextOnDemandInv DEF OnDemandHolds, OfHydration
  <2>2. CASE OfLimiter \/ OfTokens \/ OfEndpoints
    BY <2>2 DEF OfLimiter, OfTokens, OfEndpoints
  <2>3. CASE UNCHANGED vars
    BY <2>3, SameOnDemandInv DEF vars, OnDemandHolds
  <2> QED
    BY <2>1, <2>2, <2>3 DEF Next
<1> QED
  BY <1>1, <1>2, PTL DEF Spec

\* A stretch of a window less the lateness of a call has at most the hydrations of two
\* windows, and one of a whole window less than those of three: for any window and
\* quota, any calls of any illusts, and any time by which a call may be late.
THEOREM QuotaAlwaysHolds == Spec => []QuotaHolds
<1>1. OnDemandHolds => QuotaHolds
  BY OnDemandInvHolds DEF OnDemandHolds, QuotaHolds
<1> QED
  BY <1>1, OnDemandInvariant, PTL

\* No illust is scheduled twice within the time of its entry less the lateness of a
\* call, but after the map has forgotten it.
THEOREM NeverTwice == Spec => NotTwice
<1>1. OnDemandHolds /\ [Next]_vars => [focus = "hydration" => OnDemand!ScheduledAnew]_vars
  <2> SUFFICES ASSUME OnDemandHolds, Next, focus = "hydration"
               PROVE  OnDemand!ScheduledAnew
    OBVIOUS
  <2>1. OfHydration /\ OnDemand!Next
    BY DEF Next, OfHydration, OfLimiter, OfTokens, OfEndpoints
  <2> QED
    BY <2>1, NextSchedulesAnew DEF OnDemandHolds
<1> QED
  BY <1>1, OnDemandInvariant, PTL DEF Spec, NotTwice
=============================================================================
