--------------------------- MODULE MetadataHydration ---------------------------
(***************************************************************************)
(* The job that hydrates an illust (src/jobs/hydrateMetadata.ts): it asks  *)
(* Pixiv for the detail, checks it, writes what is known of it to the      *)
(* images of the illust in one transaction, and then gives each image the  *)
(* tags of the detail (syncImageTags and upsertTag in                      *)
(* src/repositories/tagsRepo.ts), which takes several queries.  Workers of *)
(* several processes may hydrate one illust at the same time.  A step is   *)
(* one query.                                                              *)
(***************************************************************************)
EXTENDS Integers, Sequences, FiniteSets, SequencesExt

CONSTANTS
  Workers,
  Pages,       (* pages of the illust that may have an image                *)
  Names,       (* names of tags                                             *)
  Fold,        (* a name in lower case                                      *)
  Details,     (* what Pixiv may answer                                     *)
  MaxJobs,     (* bound: jobs started, retries among them                   *)
  MaxFaults    (* bound: failures                                           *)

HydrationAssumption ==
  /\ \A d \in Details : d.pages \in Seq(Pages) /\ d.tags \in Seq([name: Names, translation: BOOLEAN])
  /\ MaxJobs \in Nat /\ MaxFaults \in Nat

Unknown == 0                    (* of a field of the detail or of an image  *)
Mixed   == {"?"}                (* tags of syncs that overlapped            *)

VARIABLES
  image,      (* pages that have an image                                   *)
  meta,       (* xRestrict, which stands for the fields a detail may lack   *)
  tag,        (* rows of tags, each known by its name                       *)
  translated, (* those with a translation                                   *)
  tagged,     (* ImageTag: of each page the rows                            *)
  job,        (* what each worker does                                      *)
  jobs, faults,
  learnt,     (* pages of which the field was once known                    *)
  expected    (* the tags of the last sync of a page, if none overlapped it *)

tables == <<image, meta, tag, translated, tagged>>
bound  == <<jobs, faults>>
seen   == <<learnt, expected>>
vars   == <<tables, job, bound, seen>>

Idle == [pc |-> "idle", field |-> Unknown, pages |-> << >>, tags |-> {}, found |-> {},
         page |-> 0, todo |-> {}, create |-> {}, rows |-> {}, had |-> {}, alone |-> TRUE]

TypeOK ==
  /\ image \subseteq Pages /\ meta \in [Pages -> Nat] /\ tag \subseteq Names
  /\ translated \subseteq tag /\ tagged \in [Pages -> SUBSET tag]
  /\ \A p \in Pages \ image : tagged[p] = {} /\ meta[p] = Unknown
  /\ \A w \in Workers :
       /\ job[w].pc \in {"idle", "ask", "find", "write", "next", "tags", "apply"}
       /\ job[w].pages \in Seq(Pages) /\ job[w].found \subseteq Pages
       /\ job[w].todo \union job[w].create \subseteq job[w].tags
       /\ job[w].tags \subseteq [name: Names, translation: BOOLEAN]
       /\ job[w].rows \union job[w].had \subseteq tag
  /\ jobs \in 0..MaxJobs /\ faults \in 0..MaxFaults
  /\ learnt \subseteq image

Init ==
  /\ image \in SUBSET Pages
  /\ meta = [p \in Pages |-> Unknown]
  /\ tag = {} /\ translated = {}
  /\ tagged = [p \in Pages |-> {}]
  /\ job = [w \in Workers |-> Idle]
  /\ jobs = 0 /\ faults = 0
  /\ learnt = {} /\ expected = [p \in Pages |-> {}]

Fault == faults < MaxFaults /\ faults' = faults + 1
Goto(w, pc) == job' = [job EXCEPT ![w].pc = pc]

-----------------------------------------------------------------------------
Start(w) ==
  /\ job[w].pc = "idle" /\ jobs < MaxJobs /\ jobs' = jobs + 1
  /\ job' = [job EXCEPT ![w] = [Idle EXCEPT !.pc = "ask"]]
  /\ UNCHANGED <<tables, faults, seen>>

\* An error, or a failed query: the job ends and pg-boss may try it again.
JobFails(w) ==
  /\ job[w].pc # "idle" /\ Fault
  /\ job' = [job EXCEPT ![w] = Idle]
  /\ UNCHANGED <<tables, jobs, seen>>

\* normalizePixivTags: of names that differ in case the first, with the
\* translation of any.
Normalized(ts) ==
  {[name |-> ts[i].name,
    translation |-> \E k \in DOMAIN ts : Fold[ts[k].name] = Fold[ts[i].name] /\ ts[k].translation] :
     i \in {j \in DOMAIN ts : \A k \in 1..j - 1 : Fold[ts[k].name] # Fold[ts[j].name]}}

\* normalizeXRestrict, and each field's own: what is missing or out of range is unknown.
Field(value) == IF value \in 0..2 THEN value + 1 ELSE Unknown

\* normalizeOriginalUrls: as many addresses as the detail says it has pages.
Complete(d) == d.page_count >= 1 /\ Len(d.pages) = d.page_count

\* The detail, or the job fails.
Hydrate(w) ==
  /\ job[w].pc = "ask"
  /\ \E d \in Details :
       job' = [job EXCEPT ![w] =
                 IF ~Complete(d) THEN Idle
                 ELSE [@ EXCEPT !.field = Field(d.x_restrict),
                                !.tags = Normalized(d.tags), !.pages = d.pages,
                                !.pc = IF d.tags = << >> THEN "write" ELSE "find"]]
  /\ UNCHANGED <<tables, bound, seen>>

\* The images are looked up before they are written, for their tags.
FindImages(w) ==
  /\ job[w].pc = "find"
  /\ job' = [job EXCEPT ![w].pc = "write", ![w].found = image \intersect Range(job[w].pages)]
  /\ UNCHANGED <<tables, bound, seen>>

Learns(w, p) == p \in image /\ p \in Range(job[w].pages) /\ job[w].field # Unknown

\* Mutant: an unknown field is written, too.
PersistUnknown(w) ==
  /\ job[w].pc = "write"
  /\ LET mine == image \intersect Range(job[w].pages) IN
       meta' = [p \in Pages |-> IF p \in mine THEN job[w].field ELSE meta[p]]
  /\ learnt' = learnt \union {p \in Pages : Learns(w, p)}
  /\ Goto(w, "next")
  /\ UNCHANGED <<image, tag, translated, tagged, bound, expected>>

\* One transaction: what the detail lacks stays as it is.
Persist(w) ==
  /\ job[w].pc = "write"
  /\ meta' = [p \in Pages |-> IF Learns(w, p) THEN job[w].field ELSE meta[p]]
  /\ learnt' = learnt \union {p \in Pages : Learns(w, p)}
  /\ Goto(w, "next")
  /\ UNCHANGED <<image, tag, translated, tagged, bound, expected>>

-----------------------------------------------------------------------------
(* The tags of a page.                                                     *)

Syncing(v, p) == job[v].pc \in {"tags", "apply"} /\ job[v].page = p

\* Pages without an image when it was looked up, or without tags, are skipped.
NextPage(w) ==
  /\ job[w].pc = "next"
  /\ LET at == {k \in DOMAIN job[w].pages : job[w].pages[k] \in job[w].found} IN
     \/ /\ at = {}
        /\ job' = [job EXCEPT ![w] = Idle]
     \/ \E k \in at :
          LET p == job[w].pages[k] IN
          /\ \A i \in at : k <= i
          /\ job' = [v \in Workers |->
               IF v = w
               THEN [job[w] EXCEPT !.pc = "tags", !.page = p,
                                   !.pages = SubSeq(@, k + 1, Len(@)),
                                   !.todo = job[w].tags, !.create = {}, !.rows = {},
                                   !.alone = ~\E u \in Workers \ {w} : Syncing(u, p)]
               ELSE IF Syncing(v, p) THEN [job[v] EXCEPT !.alone = FALSE] ELSE job[v]]
  /\ UNCHANGED <<tables, bound, seen>>

\* upsertTag looks for a row whatever the case of its name ...
FindTag(w, t) ==
  /\ job[w].pc = "tags" /\ t \in job[w].todo
  /\ LET rows == {n \in tag : Fold[n] = Fold[t.name]} IN
     IF rows = {}
     THEN /\ job' = [job EXCEPT ![w].todo = @ \ {t}, ![w].create = @ \union {t}]
          /\ UNCHANGED translated
     ELSE \E n \in rows :
            /\ job' = [job EXCEPT ![w].todo = @ \ {t}, ![w].rows = @ \union {n}]
            /\ translated' = IF t.translation THEN translated \union {n} ELSE translated
  /\ UNCHANGED <<image, meta, tag, tagged, bound, seen>>

\* ... and makes one: two jobs may make names that differ in case, and of two
\* that make the same name one fails.
CreateTag(w, t) ==
  /\ job[w].pc = "tags" /\ t \in job[w].create
  /\ IF t.name \in tag
     THEN job' = [job EXCEPT ![w] = Idle] /\ UNCHANGED <<tag, translated>>
     ELSE /\ tag' = tag \union {t.name}
          /\ translated' = IF t.translation THEN translated \union {t.name} ELSE translated
          /\ job' = [job EXCEPT ![w].create = @ \ {t}, ![w].rows = @ \union {t.name}]
  /\ UNCHANGED <<image, meta, tagged, bound, seen>>

Ended(w) ==
  expected' = [expected EXCEPT ![job[w].page] =
                 IF job[w].alone THEN {Fold[t.name] : t \in job[w].tags} ELSE Mixed]

\* The rows that the image has; nothing more if they are the right ones.
ReadTags(w) ==
  /\ job[w].pc = "tags" /\ job[w].todo = {} /\ job[w].create = {}
  /\ LET had == tagged[job[w].page] IN
     IF had = job[w].rows
     THEN Goto(w, "next") /\ Ended(w)
     ELSE /\ job' = [job EXCEPT ![w].pc = "apply", ![w].had = had]
          /\ UNCHANGED expected
  /\ UNCHANGED <<tables, bound, learnt>>

\* What is missing is added, what is too many removed, by what was read.
Apply(w) ==
  /\ job[w].pc = "apply"
  /\ LET j == job[w] IN
       tagged' = [tagged EXCEPT ![j.page] = (@ \union (j.rows \ j.had)) \ (j.had \ j.rows)]
  /\ Ended(w)
  /\ job' = [job EXCEPT ![w].pc = "next", ![w].had = {}]
  /\ UNCHANGED <<image, meta, tag, translated, bound, learnt>>

\* An import adds an image of the illust.
Insert(p) ==
  /\ p \notin image /\ image' = image \union {p}
  /\ UNCHANGED <<meta, tag, translated, tagged, job, bound, seen>>

Next ==
  \/ \E w \in Workers :
       \/ Start(w) \/ JobFails(w) \/ Hydrate(w) \/ FindImages(w) \/ Persist(w)
       \/ NextPage(w) \/ ReadTags(w) \/ Apply(w)
       \/ \E t \in job[w].todo : FindTag(w, t)
       \/ \E t \in job[w].create : CreateTag(w, t)
  \/ \E p \in Pages : Insert(p)

Spec == Init /\ [][Next]_vars

-----------------------------------------------------------------------------
(* Properties.                                                             *)

\* What was known of an image stays known when a later detail lacks it.  After a
\* sync that none overlapped an image has exactly the tags of the detail, one row
\* of each, whatever failed, was retried or overlapped before, and although names
\* that differ only in case may have a row each.
HydrationKept ==
  /\ \A p \in learnt : meta[p] # Unknown
  /\ \A p \in Pages :
       expected[p] # Mixed /\ (\A w \in Workers : ~Syncing(w, p)) =>
         /\ {Fold[n] : n \in tagged[p]} = expected[p]
         /\ Cardinality(tagged[p]) = Cardinality(expected[p])
=============================================================================
