------------------------------ MODULE ImportPage ------------------------------
(***************************************************************************)
(* The page that imports a list of URLs (src/admin/pages/importUrls.jsx):  *)
(* it drops the lines it has seen, cuts the rest into batches and posts    *)
(* them one after another to the routes of src/routes/adminImport.ts,      *)
(* which make an Import of each batch, or only send jobs that hydrate.  It *)
(* adds up the answers and asks for the progress of the imports it was     *)
(* told.  What becomes of an import is the subject of ImportJob.           *)
(***************************************************************************)
EXTENDS Integers, Sequences, FiniteSets, SequencesExt

CONSTANTS
  Lines,         (* lines that are neither blank nor comments               *)
  Image,         (* the illust and page that a line names, or "junk"        *)
  Size,          (* how long a line is                                      *)
  Texts,         (* bound: what is typed                                    *)
  Batches,       (* settings of the lines per batch                         *)
  ServerLines,   (* ADMIN_IMPORT_MAX_LINES                                  *)
  ServerBytes,   (* what is left of ADMIN_IMPORT_MAX_FILE_BYTES             *)
  MaxSubmits,    (* bound: submits                                          *)
  MaxFaults      (* bound: failures                                         *)

VARIABLES
  text, dedupe, chunking, batch,   (* the form                              *)
  config,        (* whether the page has got the limits of the server       *)
  page,          (* its submit, what that shows, and whose progress         *)
  fetch,         (* requests under way for progress or to roll back         *)
  imports,       (* the Import rows: the lines of each                      *)
  hydrations,    (* jobs sent that hydrate                                  *)
  before,        (* what was there when the last submit began               *)
  submits, faults

form  == <<text, dedupe, chunking, batch>>
table == <<imports, hydrations>>
bound == <<submits, faults>>
vars  == <<form, config, page, fetch, table, before, bound>>

PageAssumption ==
  /\ Texts \subseteq Seq(Lines) /\ Batches \subseteq Nat
  /\ {ServerLines, MaxSubmits, MaxFaults} \subseteq Nat

Modes   == {"preview", "import", "hydrate"}
Nothing == [lines |-> 0, images |-> 0, failed |-> 0, jobs |-> 0, ids |-> << >>]

TypeOK ==
  /\ text \in Seq(Lines) /\ {dedupe, chunking, config} \subseteq BOOLEAN /\ batch \in Batches
  /\ page.pc \in {"ready", "posting"} /\ page.mode \in Modes
  /\ page.left \in Seq(Seq(Lines)) /\ page.shows \in {"nothing", "result", "error"}
  /\ page.sum.ids \in Seq(DOMAIN imports)
  /\ page.progress \subseteq DOMAIN imports
  /\ \A f \in fetch : f.pc \in {"roll", "ask"} /\ f.id \in DOMAIN imports
  /\ imports \in Seq(Seq(Lines)) /\ hydrations \in Nat
  /\ submits \in 0..MaxSubmits /\ faults \in 0..MaxFaults

Init ==
  /\ text \in Texts
  /\ dedupe \in BOOLEAN /\ chunking \in BOOLEAN /\ batch \in Batches
  /\ config = FALSE
  /\ page = [pc |-> "ready", mode |-> "preview", left |-> << >>, sum |-> Nothing,
             shows |-> "nothing", progress |-> {}]
  /\ fetch = {}
  /\ imports = << >> /\ hydrations = 0
  /\ before = [imports |-> 0, hydrations |-> 0]
  /\ submits = 0 /\ faults = 0

Fault == faults < MaxFaults /\ faults' = faults + 1

\* The handler of the page; without an answer there are no limits.
Configured ==
  /\ ~config /\ config' = TRUE
  /\ UNCHANGED <<form, page, fetch, table, before, bound>>

-----------------------------------------------------------------------------
(* What is posted.                                                         *)

\* buildClientDedupeKey: the image of a line that names one, or the line.
DedupeKey(l) == IF Image[l] = "junk" THEN <<"raw", l>> ELSE <<"pixiv", Image[l]>>

\* dedupeLinesAsync: of the lines with a key the first is kept.
Keep(out, l) == IF \E i \in DOMAIN out : DedupeKey(out[i]) = DedupeKey(l)
                THEN out ELSE Append(out, l)
Deduped(ls) ==
  LET kept[n \in 0..Len(ls)] == IF n = 0 THEN << >> ELSE Keep(kept[n - 1], ls[n])
  IN IF dedupe THEN kept[Len(ls)] ELSE ls

Bytes(ls) == FoldLeft(LAMBDA n, l : n + Size[l] + 1, 0, ls)

\* Mutant: the line that did not fit is not in the next batch either.
PutSkipping(cs, l, lines, bytes) ==
  IF cs = << >> THEN <<<<l>>>>
  ELSE IF Len(Last(cs)) >= lines \/ Bytes(Last(cs)) + Size[l] + 1 > bytes
       THEN Append(cs, << >>)
       ELSE Append(Front(cs), Append(Last(cs), l))

\* chunkLines
Put(cs, l, lines, bytes) ==
  IF cs = << >> THEN <<<<l>>>>
  ELSE IF Len(Last(cs)) >= lines \/ Bytes(Last(cs)) + Size[l] + 1 > bytes
       THEN Append(cs, <<l>>)
       ELSE Append(Front(cs), Append(Last(cs), l))
ChunkLines(ls, lines, bytes) ==
  LET cut[n \in 0..Len(ls)] ==
        IF n = 0 THEN << >> ELSE Put(cut[n - 1], ls[n], lines, bytes)
  IN cut[Len(ls)]

\* The lines that a submit is about: of a preview no more than a first few.
Input(mode) ==
  Deduped(IF mode = "preview" THEN SubSeq(text, 1, IF Len(text) < batch THEN Len(text) ELSE batch)
          ELSE text)

Planned(mode) ==
  LET ls    == Input(mode)
      lines == IF config /\ ServerLines < batch THEN ServerLines ELSE batch
      cs    == IF chunking /\ Len(ls) > lines
               THEN ChunkLines(ls, lines, IF config THEN ServerBytes ELSE Bytes(ls)) ELSE <<ls>>
  IN IF mode = "preview" THEN SubSeq(cs, 1, 1) ELSE cs

-----------------------------------------------------------------------------
(* A submit.                                                               *)

\* The buttons are off while a submit is under way, whatever else is: a rollback
\* or requests for progress.  An empty text is refused.
Submit(mode) ==
  /\ page.pc = "ready" /\ submits < MaxSubmits /\ submits' = submits + 1
  /\ IF text = << >>
     THEN page' = [page EXCEPT !.shows = "error", !.sum = Nothing, !.progress = {}]
     ELSE page' = [page EXCEPT !.pc = "posting", !.mode = mode, !.left = Planned(mode),
                               !.sum = Nothing, !.shows = "nothing", !.progress = {}]
  /\ before' = [imports |-> Len(imports), hydrations |-> hydrations]
  /\ UNCHANGED <<form, config, fetch, table, faults>>

Batch == Head(page.left)
Good(ls) == {Image[ls[i]] : i \in DOMAIN ls} \ {"junk"}
Junk(ls) == Cardinality({i \in DOMAIN ls : Image[ls[i]] = "junk"})

\* An answer is added to the sum; after the last one the sum is shown.
Answered(ls, images, jobs, ids) ==
  LET done == Len(page.left) = 1 IN
  page' = [page EXCEPT
             !.left = Tail(@), !.pc = IF done THEN "ready" ELSE "posting",
             !.shows = IF done THEN "result" ELSE "nothing",
             !.sum = [lines |-> @.lines + Len(ls), images |-> @.images + images,
                      failed |-> @.failed + Junk(ls), jobs |-> @.jobs + jobs,
                      ids |-> @.ids \o ids]]

\* An error ends the submit; what earlier batches answered is not shown.
Failed ==
  page' = [page EXCEPT !.pc = "ready", !.left = << >>, !.sum = Nothing, !.shows = "error"]

\* Each import told is asked for its progress, one after another; such a series
\* goes on beside others.
Asking(ids) ==
  IF ids = << >> THEN {}
  ELSE {[pc |-> "ask", id |-> Head(ids), next |-> Tail(ids), rolls |-> FALSE]}

TooMany == Len(Batch) > ServerLines

Refuse ==
  /\ page.pc = "posting" /\ TooMany /\ Failed
  /\ UNCHANGED <<form, config, fetch, table, before, bound>>

\* A dry run answers as an import does, and writes nothing.
Preview ==
  /\ page.pc = "posting" /\ page.mode = "preview" /\ ~TooMany
  /\ Answered(Batch, Cardinality(Good(Batch)), 0, << >>)
  /\ UNCHANGED <<form, config, fetch, table, before, bound>>

\* The Import is made, its job is sent, and its id answered.
Import ==
  /\ page.pc = "posting" /\ page.mode = "import" /\ ~TooMany
  /\ imports' = Append(imports, Batch)
  /\ Answered(Batch, Cardinality(Good(Batch)), 0, <<Len(imports) + 1>>)
  /\ fetch' = fetch \union Asking(IF page'.shows = "result" THEN page'.sum.ids ELSE << >>)
  /\ UNCHANGED <<form, config, hydrations, before, bound>>

\* A failure, of the request or behind it, before or after the Import was made.
ImportFails ==
  /\ page.pc = "posting" /\ page.mode # "hydrate" /\ ~TooMany /\ Fault
  /\ \/ UNCHANGED imports
     \/ page.mode = "import" /\ imports' = Append(imports, Batch)
  /\ Failed
  /\ UNCHANGED <<form, config, fetch, hydrations, before, submits>>

\* A job for each illust; a send that fails ends them, and is only noted.
Hydrate ==
  /\ page.pc = "posting" /\ page.mode = "hydrate" /\ ~TooMany
  /\ \E sent \in 0..Cardinality(Good(Batch)) :
       /\ IF sent = Cardinality(Good(Batch)) THEN UNCHANGED faults ELSE Fault
       /\ hydrations' = hydrations + sent
       /\ Answered(Batch, Cardinality(Good(Batch)), sent, << >>)
  /\ UNCHANGED <<form, config, fetch, imports, before, submits>>

\* The request itself fails, or its answer is lost.
HydrateFails ==
  /\ page.pc = "posting" /\ page.mode = "hydrate" /\ ~TooMany /\ Fault
  /\ \E sent \in {0, Cardinality(Good(Batch))} : hydrations' = hydrations + sent
  /\ Failed
  /\ UNCHANGED <<form, config, fetch, imports, before, submits>>

-----------------------------------------------------------------------------
(* What the page does with the imports it shows.                           *)

Shown == IF page.shows = "result" THEN Range(page.sum.ids) ELSE {}

\* The buttons of the imports are off while a rollback is under way.
Rolling == \E f \in fetch : f.rolls

\* The buttons that ask for the progress of one or of all; as a bound they are
\* left alone until what was asked has been answered.
ClickFetch ==
  /\ page.pc = "ready" /\ ~Rolling /\ Shown # {} /\ fetch = {}
  /\ \E ids \in {<<id>> : id \in Shown} \union {page.sum.ids} : fetch' = Asking(ids)
  /\ UNCHANGED <<form, config, page, table, before, bound>>

\* The answer, or an error in its place, which lands although the page may have
\* gone on to another submit.
Landed(f) ==
  /\ f.pc = "ask"
  /\ page' = [page EXCEPT !.progress = @ \union {f.id}]
  /\ fetch' = (fetch \ {f}) \union Asking(f.next)
  /\ UNCHANGED <<form, config, table, before, bound>>

\* The rollback is asked for, and then the progress of the import; what becomes
\* of its images is the subject of ImportJob.
ClickRollback(id) ==
  /\ page.pc = "ready" /\ ~Rolling /\ id \in Shown
  /\ fetch' = fetch \union
       {[pc |-> "roll", id |-> id, next |-> << >>, rolls |-> TRUE]}
  /\ UNCHANGED <<form, config, page, table, before, bound>>

RolledBack(f) ==
  /\ f.pc = "roll"
  /\ fetch' = (fetch \ {f}) \union {[f EXCEPT !.pc = "ask"]}
  /\ UNCHANGED <<form, config, page, table, before, bound>>

\* A refusal: the page shows it beside the rest, which is left out.
RollbackFails(f) ==
  /\ f.pc = "roll" /\ Fault
  /\ fetch' = fetch \ {f}
  /\ UNCHANGED <<form, config, page, table, before, submits>>

Clear ==
  /\ page.pc = "ready" /\ text # << >> /\ text' = << >>
  /\ page' = [page EXCEPT !.sum = Nothing, !.shows = "nothing"]
  /\ UNCHANGED <<dedupe, chunking, batch, config, fetch, table, before, bound>>

Next ==
  \/ Configured \/ \E mode \in Modes : Submit(mode)
  \/ Refuse \/ Preview \/ Import \/ ImportFails \/ Hydrate \/ HydrateFails
  \/ ClickFetch \/ Clear
  \/ \E f \in fetch : Landed(f) \/ RolledBack(f) \/ RollbackFails(f)
  \/ \E id \in DOMAIN imports : ClickRollback(id)

Spec == Init /\ [][Next]_vars

-----------------------------------------------------------------------------
(* Properties.                                                             *)

\* What a submit shows as its result is all that it did: the imports whose ids it
\* shows hold the deduped lines, each once and in order, in batches the server
\* takes; no other import was made; the jobs it counts are those that were sent;
\* and a preview has written nothing.
SubmitTrue ==
  page.shows = "result" =>
    /\ page.mode = "import" =>
         /\ FlattenSeq([i \in DOMAIN page.sum.ids |-> imports[page.sum.ids[i]]]) = Input("import")
         /\ Range(page.sum.ids) = (before.imports + 1)..Len(imports)
    /\ page.mode # "import" => Len(imports) = before.imports
    /\ page.mode # "preview" => page.sum.lines = Len(Input(page.mode))
    /\ hydrations = before.hydrations + page.sum.jobs
=============================================================================
