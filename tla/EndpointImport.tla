--------------------------- MODULE EndpointImport ---------------------------
(***************************************************************************)
(* The rows of ProxyEndpoint as their imports write them: a list of URIs   *)
(* that an administrator pastes, the export of an easy_proxies server that *)
(* the console or the automatic refresh of the process fetches             *)
(* (src/proxy/easyProxiesImporter.ts, proxyUriImporter.ts,                 *)
(* easyProxiesClient.ts), the rollback of these, and the setting that      *)
(* steers them (src/admin/resources/proxyEndpoints.ts).                    *)
(*                                                                         *)
(* One process.  A step is what runs between two awaits.  A row is named   *)
(* by what makes it unique (scheme, host, port and user); lines that do    *)
(* not parse name none.                                                    *)
(***************************************************************************)
EXTENDS Naturals, FiniteSets

CONSTANTS
  Addresses,  (* what rows can be for                                       *)
  Exported,   (* those that easy_proxies exports                            *)
  Admins,     (* requests of the console that may be under way together     *)
  EnvUrl,     (* is EASY_PROXIES_BASE_URL set                               *)
  MaxAdmin,   (* bound: requests and edits of administrators                *)
  MaxFaults   (* bound: queries and fetches that fail                       *)

EndpointAssumption ==
  /\ Exported \subseteq Addresses
  /\ EnvUrl \in BOOLEAN /\ "auto" \notin Admins
  /\ MaxAdmin \in Nat /\ MaxFaults \in Nat

VARIABLES
  row,      (* source and enabled of each ProxyEndpoint                     *)
  setting,  (* the RuntimeSetting easy_proxies_config                       *)
  act,      (* what the automatic refresh and each request are doing        *)
  due,      (* is the last refresh longer ago than the interval             *)
  why,      (* what may have enabled an easy_proxies row since the last     *)
            (* rollback, for the properties                                 *)
  admin,    (* how many requests and edits there were                       *)
  faults    (* how many failures                                            *)

vars == <<row, setting, act, due, why, admin, faults>>

Actors   == Admins \union {"auto"}
Sources  == {"none", "easy_proxies", "manual"}       (* none: there is no row *)
Policies == {"overwrite", "skip_non_easy_proxies", "skip_non_manual",
             "skip_non_source"}
PCs == {"idle", "config", "export", "line", "upsert",
        "undo", "undo_config", "undo_write", "save_write"}
Reasons == {"never", "in_flight", "unwritten", "saved_on", "fallback", "admin"}

Row     == [source: Sources, enabled: BOOLEAN]
Setting == [here: BOOLEAN, url: BOOLEAN, secret: BOOLEAN, auto: BOOLEAN]
Actor   == [pc: PCs, todo: SUBSET Addresses, cur: SUBSET Addresses,
            source: {"easy_proxies", "manual"}, policy: Policies,
            enabled: BOOLEAN, read: Setting]

NoRow == [source |-> "none", enabled |-> FALSE]

\* What loadEasyProxiesRuntimeConfig goes by if there is no setting, or the
\* database does not answer: the environment, which always refreshes.
EnvSetting == [here |-> FALSE, url |-> EnvUrl, secret |-> EnvUrl, auto |-> TRUE]

Idle == [pc |-> "idle", todo |-> {}, cur |-> {}, source |-> "easy_proxies",
         policy |-> "skip_non_easy_proxies", enabled |-> TRUE, read |-> EnvSetting]

TypeOK ==
  /\ row \in [Addresses -> Row]
  /\ setting \in Setting
  /\ act \in [Actors -> Actor]
  /\ due \in BOOLEAN
  /\ why \subseteq Reasons
  /\ admin \in 0..MaxAdmin /\ faults \in 0..MaxFaults

Init ==
  /\ row \in [Addresses -> {NoRow, [source |-> "manual", enabled |-> TRUE]}]
  /\ setting = [here |-> FALSE, url |-> FALSE, secret |-> FALSE, auto |-> FALSE]
  /\ act = [x \in Actors |-> Idle]
  /\ due = TRUE
  /\ why = {"never"}
  /\ admin = 0 /\ faults = 0

AdminActs == admin < MaxAdmin /\ admin' = admin + 1
Fault     == faults < MaxFaults /\ faults' = faults + 1

Goto(x, pc) == act' = [act EXCEPT ![x].pc = pc]
Stop(x)     == act' = [act EXCEPT ![x] = Idle]
Importing(x) == act[x].pc \in {"export", "line", "upsert"}

-----------------------------------------------------------------------------
(***************************************************************************)
(* An import, of either kind.                                              *)
(***************************************************************************)
Config == IF setting.here THEN setting ELSE EnvSetting

\* shouldSkipByPolicy: whose rows the import leaves alone.
Skips(source, policy, owner) ==
  /\ owner # "none"
  /\ \/ policy = "skip_non_source" /\ owner # source
     \/ policy = "skip_non_easy_proxies" /\ owner # "easy_proxies"
     \/ policy = "skip_non_manual" /\ owner # "manual"

\* The next line: its row is looked up, unless the import overwrites all.
ReadLine(x) ==
  /\ act[x].pc = "line"
  /\ \E a \in act[x].todo :
       LET rest == [act[x] EXCEPT !.todo = @ \ {a}]
           skip == Skips(act[x].source, act[x].policy, row[a].source)
       IN act' = [act EXCEPT ![x] = IF skip THEN rest
                                    ELSE [rest EXCEPT !.pc = "upsert", !.cur = {a}]]
  /\ UNCHANGED <<row, setting, due, why, admin, faults>>

\* The line's row is created or taken over.
Upsert(x) ==
  /\ act[x].pc = "upsert"
  /\ row' = [a \in Addresses |-> IF a \in act[x].cur
                                 THEN [source |-> act[x].source, enabled |-> act[x].enabled]
                                 ELSE row[a]]
  /\ act' = [act EXCEPT ![x].pc = "line", ![x].cur = {}]
  /\ UNCHANGED <<setting, due, why, admin, faults>>

\* The line's queries fail: it counts as invalid.
LineFails(x) ==
  /\ act[x].pc \in {"line", "upsert"}
  /\ Fault
  /\ \E a \in IF act[x].pc = "upsert" THEN act[x].cur ELSE act[x].todo :
       act' = [act EXCEPT ![x].pc = "line", ![x].todo = @ \ {a}, ![x].cur = {}]
  /\ UNCHANGED <<row, setting, due, why, admin>>

\* A flag that stays up when the server does not answer.
ExportNoFinally(x) ==
  /\ act[x].pc = "export"
  /\ \/ /\ act[x].read.secret /\ UNCHANGED <<due, faults>>
        /\ act' = [act EXCEPT ![x].pc = "line", ![x].todo = Exported]
     \/ ~act[x].read.secret /\ UNCHANGED <<act, due, faults>>
     \/ Fault /\ UNCHANGED <<act, due>>
  /\ UNCHANGED <<row, setting, why, admin>>

\* The export is fetched, with the password if there is one; the server has one.
Export(x) ==
  /\ act[x].pc = "export"
  /\ \/ /\ act[x].read.secret /\ UNCHANGED <<due, faults>>
        /\ act' = [act EXCEPT ![x].pc = "line", ![x].todo = Exported]
     \/ /\ Stop(x)
        /\ due' = (due /\ x # "auto")
        /\ (~act[x].read.secret /\ UNCHANGED faults) \/ Fault
  /\ UNCHANGED <<row, setting, why, admin>>

Imported(x) ==
  /\ act[x].pc = "line" /\ act[x].todo = {}
  /\ Stop(x)
  /\ due' = (due /\ x # "auto")
  /\ UNCHANGED <<row, setting, why, admin, faults>>

-----------------------------------------------------------------------------
(***************************************************************************)
(* runAutoRefreshTick, every 30 seconds, one at a time.                    *)
(***************************************************************************)
Tick ==
  /\ act["auto"].pc = "idle"
  /\ Goto("auto", "config")
  /\ UNCHANGED <<row, setting, due, why, admin, faults>>

\* A tick that goes by the address alone.
TickConfigAlways ==
  /\ act["auto"].pc = "config"
  /\ IF Config.url /\ due
     THEN act' = [act EXCEPT !["auto"].pc = "export", !["auto"].read = Config]
     ELSE Stop("auto")
  /\ UNCHANGED <<row, setting, due, why, admin, faults>>

\* The tick reads the setting, or takes the environment for it.  One that must
\* not refresh counts as a refresh.
TickConfig ==
  /\ act["auto"].pc = "config"
  /\ \E c \in {Config, EnvSetting} :
       /\ IF c = Config THEN UNCHANGED faults ELSE Fault
       /\ due' = (due /\ c.url /\ c.auto)
       /\ IF due'
          THEN /\ act' = [act EXCEPT !["auto"].pc = "export", !["auto"].read = c]
               /\ why' = why \union (IF c # Config THEN {"fallback"} ELSE {})
                             \union (IF "unwritten" \in why THEN {"in_flight"} ELSE {})
          ELSE Stop("auto") /\ UNCHANGED why
  /\ UNCHANGED <<row, setting, admin>>

IntervalPasses ==
  /\ ~due /\ due' = TRUE
  /\ UNCHANGED <<row, setting, act, why, admin, faults>>

-----------------------------------------------------------------------------
(***************************************************************************)
(* The console.                                                            *)
(***************************************************************************)
\* importProxyUris: what was pasted, with any policy.
PasteUris(x) ==
  /\ act[x].pc = "idle" /\ x \in Admins
  /\ AdminActs
  /\ \E todo \in (SUBSET Addresses) \ {{}}, policy \in Policies, enabled \in BOOLEAN :
       act' = [act EXCEPT ![x] = [Idle EXCEPT
                 !.pc = "line", !.todo = todo, !.source = "manual",
                 !.policy = policy, !.enabled = enabled]]
  /\ UNCHANGED <<row, setting, due, why, faults>>

\* easyProxiesImport, by hand.
ImportNow(x) ==
  /\ act[x].pc = "idle" /\ x \in Admins
  /\ AdminActs
  /\ Config.url
  /\ act' = [act EXCEPT ![x] = [Idle EXCEPT !.pc = "export", !.read = Config]]
  /\ why' = why \union {"admin"}
  /\ UNCHANGED <<row, setting, due, faults>>

\* easyProxiesRollback begins.
Rollback(x) ==
  /\ act[x].pc = "idle" /\ x \in Admins
  /\ AdminActs
  /\ Goto(x, "undo")
  /\ UNCHANGED <<row, setting, due, why, faults>>

\* What may enable rows again although they are about to be disabled.
UnderWay ==
  (IF \E y \in Actors : Importing(y) /\ act[y].source = "easy_proxies"
   THEN {"in_flight"} ELSE {})
  \union (IF \E y \in Admins : act[y].pc = "save_write" /\ act[y].read.auto
          THEN {"saved_on"} ELSE {})

\* All rows of the source are disabled in one statement.
DisableRows(x) ==
  /\ act[x].pc = "undo"
  /\ row' = [a \in Addresses |-> IF row[a].source = "easy_proxies"
                                 THEN [row[a] EXCEPT !.enabled = FALSE] ELSE row[a]]
  /\ why' = UnderWay \union {"unwritten"}
  /\ Goto(x, "undo_config")
  /\ UNCHANGED <<setting, due, admin, faults>>

ReadBeforeUndo(x) ==
  /\ act[x].pc = "undo_config"
  /\ \E c \in {Config, EnvSetting} :
       /\ IF c = Config THEN UNCHANGED faults ELSE Fault
       /\ act' = [act EXCEPT ![x].pc = IF c.url THEN "undo_write" ELSE "idle",
                             ![x].read = c]
  /\ UNCHANGED <<row, setting, due, why, admin>>

\* A rollback that leaves the refresh as it was.
UndoSettingKeepsAuto(x) ==
  /\ act[x].pc = "undo_write"
  /\ setting' = [act[x].read EXCEPT !.here = TRUE]
  /\ why' = (why \ {"unwritten"}) \union UnderWay
  /\ Stop(x)
  /\ UNCHANGED <<row, due, admin, faults>>

\* The setting is written as it was read, but for the refresh.  From here on a
\* tick that reads it does nothing.  That the write fails is not noticed.
UndoSetting(x) ==
  /\ act[x].pc = "undo_write"
  /\ \/ /\ setting' = [act[x].read EXCEPT !.here = TRUE, !.auto = FALSE]
        /\ why' = (why \ {"unwritten"}) \union UnderWay
        /\ UNCHANGED faults
     \/ Fault /\ UNCHANGED <<setting, why>>
  /\ Stop(x)
  /\ UNCHANGED <<row, due, admin>>

\* easyProxiesConfigSave reads the password it is to keep; if that fails there
\* is none.
SaveRead(x) ==
  /\ act[x].pc = "idle" /\ x \in Admins
  /\ AdminActs
  /\ \E url, auto \in BOOLEAN, secret \in {"keep", "set", "clear"}, ok \in BOOLEAN :
       /\ IF ok THEN UNCHANGED faults ELSE Fault
       /\ act' = [act EXCEPT ![x].pc = "save_write",
                             ![x].read = [here |-> TRUE, url |-> url, auto |-> auto,
                                secret |-> (secret = "set")
                                  \/ (secret = "keep" /\ ok /\ setting.secret)]]
       /\ why' = IF auto THEN why \union {"saved_on"} ELSE why
  /\ UNCHANGED <<row, setting, due>>

SaveWrite(x) ==
  /\ act[x].pc = "save_write"
  /\ setting' = act[x].read
  /\ Stop(x)
  /\ UNCHANGED <<row, due, why, admin, faults>>

\* A row is created, enabled, disabled or deleted by hand.
EditRow(a) ==
  /\ AdminActs
  /\ \E new \in {NoRow, [source |-> "manual", enabled |-> TRUE]}
                  \union {[row[a] EXCEPT !.enabled = ~@]} :
       /\ new.source # "manual" \/ row[a].source \in {"none", "manual"}
       /\ new # row[a] /\ (new.source = "none" => ~new.enabled)
       /\ row' = [row EXCEPT ![a] = new]
  /\ why' = why \union {"admin"}
  /\ UNCHANGED <<setting, act, due, faults>>

-----------------------------------------------------------------------------
Next ==
  \/ \E x \in Actors : ReadLine(x) \/ Upsert(x) \/ LineFails(x) \/ Export(x) \/ Imported(x)
  \/ Tick \/ TickConfig \/ IntervalPasses
  \/ \E x \in Admins : \/ PasteUris(x) \/ ImportNow(x) \/ Rollback(x)
                       \/ DisableRows(x) \/ ReadBeforeUndo(x) \/ UndoSetting(x)
                       \/ SaveRead(x) \/ SaveWrite(x)
  \/ \E a \in Addresses : EditRow(a)

Spec == Init /\ [][Next]_vars

AutoStep ==
  ReadLine("auto") \/ Upsert("auto") \/ Export("auto") \/ Imported("auto") \/ TickConfig

\* The timer fires, the interval ends, and what the refresh awaits settles.  (A
\* refresh is either idle, then only Tick is enabled, or is not.)
FairSpec == Spec /\ WF_vars(AutoStep \/ Tick) /\ WF_vars(IntervalPasses)

-----------------------------------------------------------------------------
(***************************************************************************)
(* Properties.                                                             *)
(***************************************************************************)

\* After a rollback no easy_proxies endpoint is enabled again but by an import
\* that was under way, a tick before the rollback wrote the setting (which it may
\* fail to), a save that asked for refreshes, a tick that could not read the
\* setting and took the environment, or an administrator.
RollbackSticks ==
  why = {} => \A a \in Addresses : ~(row[a].source = "easy_proxies" /\ row[a].enabled)

\* While the setting asks for refreshes, whatever failed before, every exported
\* endpoint comes back again and again, unless it belongs to somebody else.
AsksForRefresh == Config.url /\ Config.auto /\ Config.secret
Tracked(a) ==
  row[a].source # "none" /\ (row[a].source = "easy_proxies" => row[a].enabled)
RefreshTracks == \A a \in Exported : <>[]AsksForRefresh => []<>Tracked(a)
=============================================================================
