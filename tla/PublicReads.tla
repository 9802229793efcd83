---------------------------- MODULE PublicReads ----------------------------
(***************************************************************************)
(* The public reads of the catalogue: GET /random (src/routes/random.ts,   *)
(* src/services/randomService.ts) and the lists GET /images, /tags and     *)
(* /authors (src/routes, src/repositories), against rows that hydration,   *)
(* imports, administrators and other requests change between any two       *)
(* queries.                                                                *)
(*                                                                         *)
(* One request to /random, or one walk through a list, from any rows:      *)
(* requests meet only in the rows, where the others are edits.  A step is  *)
(* what runs between two awaits.  A row                                    *)
(* keeps a random key, and a pick takes the row whose key follows a random *)
(* number, or the first of all: as neither is known, a pick may take any   *)
(* row that matches, and the first of its two queries may find none.       *)
(***************************************************************************)
EXTENDS Integers, FiniteSets, Sequences

CONSTANTS
  Ids,        (* ids of images, 1..n: new rows get greater ids than old ones *)
  Metadata,   (* what a row may say of its image                            *)
  Asks,       (* the queries of GET /random and GET /images that are sent   *)
  NamedTags,  (* tags whose name contains the q that clients search for     *)
  Strict,     (* RANDOM_R18_STRICT                                          *)
  Cooldown,   (* is RANDOM_FAIL_COOLDOWN_MS above 0                         *)
  MaxEdits,   (* bound: changes by others                                    *)
  MaxFaults   (* bound: failed queries and fetches                          *)

VARIABLES
  image,    (* the rows of images                                           *)
  tags,     (* the rows of tags                                             *)
  now,      (* the request being served                                     *)
  walk,     (* the list a client is paging through                          *)
  edits, faults

vars == <<image, tags, now, walk, edits, faults>>

Active == 1
Disabled == 2
Broken == 3
Null == -1
Absent == -1         (* a numeric parameter that is not sent ...            *)
Malformed == -2      (* ... and one that does not parse                     *)

\* computeGeometryFromWidthHeight: portrait, landscape, square.
Orientation(width, height) ==
  IF width = Null THEN Null ELSE IF height = width THEN 3 ELSE IF height > width THEN 1 ELSE 2

Keys == Nat \ {0}    (* of rows, and of authors: normalizePositiveBigInt     *)

\* Width, height and orientation are written together.
ReadsAssumption ==
  /\ Ids \subseteq Keys /\ IsFiniteSet(Ids)
  /\ Metadata \subseteq [named: BOOLEAN, xRestrict: {Null, 0, 1, 2}, orientation: {Null, 1, 2, 3},
                         width: Nat \union {Null}, height: Nat \union {Null},
                         userId: Keys \union {Null}, tags: SUBSET Keys]
  /\ \A m \in Metadata : /\ m.width = Null <=> m.height = Null
                         /\ m.orientation = Orientation(m.width, m.height)
                         /\ IsFiniteSet(m.tags)
  /\ Asks # {}
  /\ \A a \in Asks :
       /\ {a.attempts, a.r18, a.min_width, a.min_height, a.min_pixels, a.user_id}
            \subseteq Nat \union {Absent, Malformed}
       /\ IsFiniteSet(a.included_tags)
  /\ Strict \in BOOLEAN /\ Cooldown \in BOOLEAN
  /\ MaxEdits \in Nat /\ MaxFaults \in Nat

Min2(a, b) == IF a < b THEN a ELSE b
Max2(a, b) == IF a > b THEN a ELSE b

-----------------------------------------------------------------------------
(* What is asked.  A query is what the client sent; filters are what the   *)
(* handlers make of it.                                                    *)

ParseFormat(a) == IF a.format \in {"absent", "image"} THEN "image" ELSE a.format
ParseRedirect(a) == a.redirect = "1"
ParseAttempts(a) == IF a.attempts = Absent THEN 3 ELSE Max2(1, Min2(10, a.attempts))
ParseR18(a) == IF a.r18 = Absent THEN 0 ELSE a.r18
ParseStrict(a) == IF a.strict = "absent" THEN Strict ELSE a.strict = "on"
ParseOrientation(a) == IF a.orientation = "portrait" THEN 1
                       ELSE IF a.orientation = "landscape" THEN 2
                       ELSE IF a.orientation = "square" THEN 3 ELSE Absent

\* Any parameter that does not parse ends the request with 400.
BadRequest(a) ==
  \/ a.format \notin {"absent", "image", "json"}
  \/ a.redirect \notin {"absent", "0", "1"}
  \/ a.attempts = Malformed
  \/ a.r18 \notin {Absent, 0, 1, 2}
  \/ a.strict \notin {"absent", "on", "off"}
  \/ a.orientation \notin {"absent", "any", "portrait", "landscape", "square"}
  \/ Malformed \in {a.min_width, a.min_height, a.min_pixels, a.user_id}

Filters(a) == [xRestrict    |-> ParseR18(a),
               allowUnknown |-> ~(ParseR18(a) = 0 /\ ParseStrict(a)),
               orientation  |-> ParseOrientation(a),
               minWidth     |-> a.min_width,
               minHeight    |-> a.min_height,
               minPixels    |-> a.min_pixels,
               included     |-> a.included_tags,
               excluded     |-> a.excluded_tags,
               userId       |-> a.user_id]

\* SQL's comparison with a column that may be null.
AtLeast(column, bound) == column # Null /\ column >= bound

\* buildPickRandomBaseWhere, the filters as prisma gets them.  cold are the
\* rows whose last failure is older than the cutoff, which is computed here.
Where(f, r, cold) ==
  /\ r.status = Active
  /\ IF f.xRestrict = 0 /\ f.allowUnknown THEN r.xRestrict \in {0, Null}
                                          ELSE r.xRestrict = f.xRestrict
  /\ f.userId # Absent => r.userId = f.userId
  /\ f.orientation # Absent => r.orientation = f.orientation
  /\ f.minWidth # Absent => AtLeast(r.width, f.minWidth)
  /\ f.minHeight # Absent => AtLeast(r.height, f.minHeight)
  /\ Cooldown => cold
  /\ \A t \in f.included : t \in r.tags
  /\ f.excluded \cap r.tags = {}

\* buildPickRandomSqlConditions, the same in SQL, with min_pixels.  An image
\* has all included tags if it has as many of them as the list is long.
Conditions(f, r, cold) ==
  /\ r.status = Active
  /\ \/ f.xRestrict = 0 /\ f.allowUnknown /\ r.xRestrict = Null
     \/ r.xRestrict = f.xRestrict
  /\ f.userId # Absent => r.userId = f.userId
  /\ f.orientation # Absent => r.orientation = f.orientation
  /\ f.minWidth # Absent => AtLeast(r.width, f.minWidth)
  /\ f.minHeight # Absent => AtLeast(r.height, f.minHeight)
  /\ r.width # Null /\ r.height # Null /\ r.width * r.height >= f.minPixels
  /\ Cardinality(r.tags \cap f.included) = Cardinality(f.included)
  /\ ~ \E t \in f.excluded : t \in r.tags
  /\ Cooldown => cold

ByPixels(f) == f.minPixels # Absent

\* The rows a query of the handlers finds; those in hot failed after its cutoff.
Found(f, hot) ==
  {i \in Ids : /\ image[i].here = "yes"
               /\ LET cold == image[i].fail # "recent" /\ i \notin hot
                  IN IF ByPixels(f) THEN Conditions(f, image[i], cold)
                                    ELSE Where(f, image[i], cold)}
Hot == {i \in Ids : image[i].fail = "recent"}

-----------------------------------------------------------------------------
(* What a client means by its query, as docs/api/random.md says it.        *)

Means(a, r) ==
  /\ r.here = "yes" /\ r.status = Active /\ (Cooldown => r.fail # "recent")
  /\ IF a.r18 \in {1, 2} THEN r.xRestrict = a.r18
     ELSE IF a.strict = "on" \/ (a.strict = "absent" /\ Strict) THEN r.xRestrict = 0
     ELSE r.xRestrict <= 0
  /\ a.orientation = "portrait"  => r.width # Null /\ r.height > r.width
  /\ a.orientation = "landscape" => r.width # Null /\ r.height < r.width
  /\ a.orientation = "square"    => r.width # Null /\ r.height = r.width
  /\ a.min_width >= 0  => r.width # Null /\ r.width >= a.min_width
  /\ a.min_height >= 0 => r.height # Null /\ r.height >= a.min_height
  /\ a.min_pixels >= 0 => r.width # Null /\ r.width * r.height >= a.min_pixels
  /\ a.included_tags \subseteq r.tags /\ a.excluded_tags \cap r.tags = {}
  /\ a.user_id >= 0 => r.userId = a.user_id

Matching(rows, a) == {i \in Ids : Means(a, rows[i])}

\* What a walk should list: ids of images, ids of tags, ids of authors.
Meant(rows, tagRows, w) ==
  CASE w.list = "images"  -> Matching(rows, w.ask)
    [] w.list = "tags"    -> IF w.q = "name" THEN tagRows \cap NamedTags ELSE tagRows
    [] w.list = "authors" ->
         {rows[i].userId : i \in {j \in Ids : /\ rows[j].here = "yes"
                                              /\ rows[j].userId # Null
                                              /\ w.q = "name" => rows[j].named
                                              /\ w.q = "id" => rows[j].userId = 1}}
    [] OTHER -> {}

-----------------------------------------------------------------------------
AnAsk == CHOOSE a \in Asks : TRUE

Idle == [pc |-> "idle", ask |-> AnAsk, attempt |-> 1, tries |-> 0, id |-> 0,
         hot |-> {}, terminal |-> FALSE, failed |-> {}, misses |-> 0, said |-> "none",
         steady |-> {}, ever |-> {}, lost |-> FALSE]
Request ==
  [pc: {"idle", "pick", "fallback", "load", "retag", "fetch", "mark", "heal",
        "stream"},
   ask: Asks, attempt: 1..10, tries: 0..2, id: Ids \union {0},
   hot: SUBSET Ids, terminal: BOOLEAN,
   failed: SUBSET Ids,   (* failed in this request and not cooled down since *)
   misses: 0..10,        (* attempts of it that chose an image and did not  *)
                         (* get its file                                    *)
   said: {"none", "image", "no_match", "error", "gone"},
   steady: SUBSET Ids,   (* rows that matched all through the request       *)
   ever: SUBSET Ids,     (* rows that matched at some moment of it          *)
   lost: BOOLEAN]        (* the row it had chosen was deleted before it was *)
                          (* read                                            *)

NoWalk == [pc |-> "idle", list |-> "none", ask |-> AnAsk, q |-> "none",
           limit |-> 1, cursor |-> 0, page |-> {}, next |-> 0,
           listed |-> <<>>, steady |-> {}]
Walk ==
  [pc: {"idle", "page", "rows"}, list: {"none", "images", "tags", "authors"}, ask: Asks,
   q: {"none", "name", "id"}, limit: Nat \ {0},
   cursor: Nat,          (* the last key the client has, 0 at first         *)
   page: SUBSET Keys, next: Nat,   (* ids read whose rows are not yet       *)
   listed: Seq(Keys),
   steady: SUBSET Keys]  (* what was to be listed all the while             *)

TypeOK ==
  /\ image \in [Ids -> [here: {"not_yet", "yes", "deleted"}, status: 1..3,
                        fail: {"never", "recent", "old"}, named: BOOLEAN,
                        xRestrict: {Null, 0, 1, 2}, orientation: {Null, 1, 2, 3},
                        width: Nat \union {Null}, height: Nat \union {Null},
                        userId: Keys \union {Null}, tags: SUBSET Keys]]
  /\ tags \subseteq Keys
  /\ now \in Request /\ walk \in Walk
  /\ edits \in 0..MaxEdits /\ faults \in 0..MaxFaults

NewRow(m, here) == [here |-> here, status |-> Active, fail |-> "never",
                    named |-> m.named, xRestrict |-> m.xRestrict,
                    orientation |-> m.orientation, width |-> m.width,
                    height |-> m.height, userId |-> m.userId, tags |-> m.tags]

Init ==
  /\ \E f \in [Ids -> Metadata], n \in Ids :
       image = [i \in Ids |-> NewRow(f[i], IF i <= n THEN "yes" ELSE "not_yet")]
  /\ tags = UNION {image[i].tags : i \in {j \in Ids : image[j].here = "yes"}}
  /\ now = Idle /\ walk = NoWalk
  /\ edits = 0 /\ faults = 0

Faulty == faults < MaxFaults /\ faults' = faults + 1
Quiet  == now.pc = "idle" /\ walk.pc = "idle"
Unused == now.said = "none" /\ now.pc = "idle" /\ walk.list = "none"

\* What the properties know of a request after a step: which rows have
\* matched what it asks all along, and which did at some moment.
Watch(rows, req) ==
  LET m == Matching(rows, req.ask) IN [req EXCEPT !.steady = @ \cap m, !.ever = @ \union m]
Watched(rows, tagRows, w) ==
  IF w.pc = "idle" THEN w ELSE [w EXCEPT !.steady = @ \cap Meant(rows, tagRows, w)]

-----------------------------------------------------------------------------
(* GET /random.                                                            *)

Ask(a) ==
  /\ Unused
  /\ LET m == Matching(image, a)
     IN now' = IF BadRequest(a) THEN [Idle EXCEPT !.ask = a, !.said = "error"]
               ELSE [Idle EXCEPT !.pc = "pick", !.ask = a, !.steady = m, !.ever = m]
  /\ UNCHANGED <<image, tags, walk, edits, faults>>

Say(req, what) == [req EXCEPT !.pc = "idle", !.said = what]

\* The image that was found: a record that is answered at once or once it is
\* read again with its tags, or a file that has to be fetched.
Picked(req, i) ==
  IF ParseRedirect(req.ask) THEN [Say(req, "image") EXCEPT !.id = i]
  ELSE IF ParseFormat(req.ask) = "json" THEN [req EXCEPT !.pc = "retag", !.id = i]
  ELSE [req EXCEPT !.pc = "fetch", !.id = i, !.tries = 0]

\* findFirst answers with the row; the raw query with its id, read next.
Chosen(req, i) == IF ByPixels(Filters(req.ask)) THEN [req EXCEPT !.pc = "load", !.id = i]
                  ELSE Picked(req, i)

\* pickRandomByRandomKey and ...Raw: the first row from the random key on ...
Pick ==
  /\ now.pc = "pick"
  /\ LET req == [now EXCEPT !.hot = Hot]
     IN \/ \E i \in Found(Filters(now.ask), Hot) : now' = Chosen(req, i)
        \/ now' = [req EXCEPT !.pc = "fallback"]
  /\ UNCHANGED <<image, tags, walk, edits, faults>>

\* Mutant: the second query starts at the random key again.
FallbackFromKey ==
  /\ now.pc = "fallback"
  /\ \/ now' = Say(now, "no_match")
     \/ \E i \in Found(Filters(now.ask), now.hot) : now' = Chosen(now, i)
  /\ UNCHANGED <<image, tags, walk, edits, faults>>

\* ... or, if there is none, the first of all.
Fallback ==
  /\ now.pc = "fallback"
  /\ LET found == Found(Filters(now.ask), now.hot)
     IN IF found = {} THEN now' = Say(now, "no_match")
                      ELSE \E i \in found : now' = Chosen(now, i)
  /\ UNCHANGED <<image, tags, walk, edits, faults>>

Load ==
  /\ now.pc = "load"
  /\ now' = IF image[now.id].here = "yes" THEN Picked(now, now.id) ELSE Say(now, "no_match")
  /\ UNCHANGED <<image, tags, walk, edits, faults>>

\* Whether the second read of the row succeeds or not, the image is answered.
Retag ==
  /\ now.pc = "retag"
  /\ now' = Say(now, "image")
  /\ UNCHANGED <<image, tags, walk, edits, faults>>

Served ==
  /\ now.pc = "fetch"
  /\ now' = [now EXCEPT !.pc = "stream", !.said = "image"]
  /\ UNCHANGED <<image, tags, walk, edits, faults>>

\* The fetch fails.  Unless Pixiv refuses the file it is tried twice more.
FetchFails ==
  /\ now.pc = "fetch" /\ Faulty
  /\ \E terminal \in BOOLEAN, retryable \in BOOLEAN :
       now' = IF retryable /\ ~terminal /\ now.tries < 2
              THEN [now EXCEPT !.tries = @ + 1]
              ELSE [now EXCEPT !.pc = "mark", !.terminal = terminal]
  /\ UNCHANGED <<image, tags, walk, edits>>

\* Mutant: the time of the failure is not written.
FailWithoutTime(i, broken) ==
  image' = [image EXCEPT ![i].status = IF broken THEN Broken ELSE @]

\* Mutant: the row gets a status that there is not.
FailOffByOne(i, broken) ==
  image' = [image EXCEPT ![i].fail = "recent", ![i].status = IF broken THEN Broken + 1 ELSE @]

\* markFail; the row it updates may be gone, which ends the request.
Fail(i, broken) ==
  image' = [image EXCEPT ![i].fail = "recent", ![i].status = IF broken THEN Broken ELSE @]

\* After the last attempt the client is told the same as if no row matched: the
\* service answers null for both.
NextAttempt(req) == IF req.attempt < ParseAttempts(req.ask)
                    THEN [req EXCEPT !.pc = "pick", !.attempt = @ + 1]
                    ELSE Say(req, "no_match")

Mark ==
  /\ now.pc = "mark"
  /\ IF image[now.id].here = "yes"
     THEN /\ Fail(now.id, now.terminal)
          /\ LET req == [now EXCEPT !.failed = @ \union {now.id}, !.misses = @ + 1]
             IN now' = Watch(image', IF now.terminal THEN [req EXCEPT !.pc = "heal"]
                                                     ELSE NextAttempt(req))
     ELSE now' = Say(now, "error") /\ UNCHANGED image
  /\ UNCHANGED <<tags, walk, edits, faults>>

\* The heal_url job is sent, or not: the request goes on.
Heal ==
  /\ now.pc = "heal"
  /\ now' = NextAttempt(now)
  /\ UNCHANGED <<image, tags, walk, edits, faults>>

\* The file breaks off while it streams, or ends.
StreamBreaks ==
  /\ now.pc = "stream" /\ Faulty
  /\ IF image[now.id].here = "yes" THEN Fail(now.id, TRUE) ELSE UNCHANGED image
  /\ now' = Watch(image', [now EXCEPT !.pc = "idle"])
  /\ UNCHANGED <<tags, walk, edits>>

StreamEnds ==
  /\ now.pc = "stream"
  /\ now' = [now EXCEPT !.pc = "idle"]
  /\ UNCHANGED <<image, tags, walk, edits, faults>>

\* The client closes the connection: the fetch ends and nothing is marked.
Abort ==
  /\ now.pc = "fetch"
  /\ now' = Say(now, "gone")
  /\ UNCHANGED <<image, tags, walk, edits, faults>>

QueryFails ==
  /\ now.pc \in {"pick", "fallback", "load", "mark"} /\ Faulty
  /\ now' = Say(now, "error")
  /\ UNCHANGED <<image, tags, walk, edits>>

-----------------------------------------------------------------------------
(* The lists, one page after another until there is no next cursor.        *)

\* What GET /images refuses: its own parsers look at fewer parameters.
BadList(a, limit) ==
  \/ limit = Malformed \/ limit = 0 \/ limit > 200
  \/ a.r18 \notin {Absent, 0, 1, 2}
  \/ a.strict \notin {"absent", "on", "off"}
  \/ a.orientation \notin {"absent", "any", "portrait", "landscape", "square"}
  \/ Malformed \in {a.min_width, a.min_height, a.min_pixels, a.user_id}
ListLimit(limit) == IF limit = Absent THEN 50 ELSE limit

\* What GET /tags and GET /authors refuse, and how long their pages are.
BadSearch(limit) == limit = Malformed \/ limit = 0 \/ limit > 100
SearchLimit(limit) == IF limit = Absent THEN 20 ELSE limit

WalkImages(a, limit) ==
  /\ Unused /\ ~BadList(a, limit)
  /\ LET w == [NoWalk EXCEPT !.pc = "page", !.list = "images", !.ask = a,
                             !.limit = ListLimit(limit)]
     IN walk' = [w EXCEPT !.steady = Meant(image, tags, w)]
  /\ UNCHANGED <<image, tags, now, edits, faults>>

\* q is the id of an author, or what a name must contain, or not sent.
WalkNames(list, q, limit) ==
  /\ Unused /\ ~BadSearch(limit) /\ (list = "tags" => q # "id")
  /\ LET w == [NoWalk EXCEPT !.pc = "page", !.list = list, !.q = q,
                             !.limit = SearchLimit(limit)]
     IN walk' = [w EXCEPT !.steady = Meant(image, tags, w)]
  /\ UNCHANGED <<image, tags, now, edits, faults>>

\* The where of searchTags and the groups of searchAuthors, without the cursor.
TagRows(q) == {t \in tags : q = "name" => t \in NamedTags}
AuthorRows(q) ==
  LET rows == {i \in Ids : image[i].here = "yes" /\ image[i].userId # Null}
      like(i) == CASE q = "id"   -> image[i].userId = 1
                   [] q = "name" -> image[i].named
                   [] OTHER      -> TRUE
  IN {image[i].userId : i \in {j \in rows : like(j)}}

\* The order of a list: the newest image first, and names as their keys grow.
Before(list, i, j) == IF list = "images" THEN i > j ELSE i < j
Place(list, keys, i) == Cardinality({j \in keys : Before(list, j, i)})
InOrder(list, keys) ==
  [n \in 1..Cardinality(keys) |-> CHOOSE i \in keys : Place(list, keys, i) = n - 1]

\* The keys a page's query finds after the cursor.
\* searchAuthors looks at the cursor only if q is not the id of an author.
Rows(w) ==
  LET after(i) == w.cursor = 0 \/ Before(w.list, w.cursor, i)
  IN CASE w.list = "images"  -> {i \in Found(Filters(w.ask), Hot) : after(i)}
       [] w.list = "tags"    -> {t \in TagRows(w.q) : after(t)}
       [] w.list = "authors" -> {u \in AuthorRows(w.q) : w.q = "id" \/ after(u)}

\* take: limit + 1, and the last of the page is the cursor of the next.
Taken(w, rows) == {i \in rows : Place(w.list, rows, i) < w.limit}
NextCursor(w, rows) ==
  IF Cardinality(rows) <= w.limit THEN 0
  ELSE CHOOSE i \in rows : Place(w.list, rows, i) = w.limit - 1

\* Mutant: a page that comes back empty ends the walk.
DeliverStopsEarly(w, keys, next) ==
  [w EXCEPT !.listed = @ \o InOrder(w.list, keys), !.cursor = next, !.page = {}, !.next = 0,
            !.pc = IF next = 0 \/ keys = {} THEN "idle" ELSE "page"]

Deliver(w, keys, next) ==
  [w EXCEPT !.listed = @ \o InOrder(w.list, keys), !.cursor = next, !.page = {}, !.next = 0,
            !.pc = IF next = 0 THEN "idle" ELSE "page"]

\* With min_pixels the ids are read first and their rows after; authors are
\* counted first and named after, whom a page then keeps.
Page ==
  /\ walk.pc = "page"
  /\ LET rows  == Rows(walk)
         taken == Taken(walk, rows)
         next  == NextCursor(walk, rows)
         two   == walk.list = "images" /\ ByPixels(Filters(walk.ask)) /\ taken # {}
     IN walk' = IF two THEN [walk EXCEPT !.pc = "rows", !.page = taken, !.next = next]
                       ELSE Deliver(walk, taken, next)
  /\ UNCHANGED <<image, tags, now, edits, faults>>

PageRows ==
  /\ walk.pc = "rows"
  /\ walk' = Deliver(walk, {i \in walk.page : image[i].here = "yes"}, walk.next)
  /\ UNCHANGED <<image, tags, now, edits, faults>>

-----------------------------------------------------------------------------
(* What others do to the rows meanwhile.                                   *)

Edit(rows, tagRows) ==
  /\ edits < MaxEdits /\ edits' = edits + 1 /\ ~Quiet
  /\ image' = rows /\ tags' = tagRows
  /\ now' = Watch(rows, now) /\ walk' = Watched(rows, tagRows, walk)
  /\ UNCHANGED faults

\* hydrate_metadata has written other metadata.
Hydrate(i, m) ==
  /\ image[i].here = "yes"
  /\ Edit([image EXCEPT ![i] = [NewRow(m, "yes") EXCEPT !.status = image[i].status,
                                                        !.fail = image[i].fail]],
          tags \union m.tags)

\* An administrator, a heal_url job or another request changes the status.
SetStatus(i, s) ==
  /\ image[i].here = "yes" /\ image[i].status # s
  /\ Edit([image EXCEPT ![i].status = s], tags)

\* A rollback deletes a row; a request that has read its id finds none.
Delete(i) ==
  /\ image[i].here = "yes"
  /\ edits < MaxEdits /\ edits' = edits + 1 /\ ~Quiet
  /\ image' = [image EXCEPT ![i].here = "deleted"]
  /\ now' = [Watch(image', now) EXCEPT !.lost = @ \/ (now.pc = "load" /\ now.id = i)]
  /\ walk' = Watched(image', tags, walk)
  /\ UNCHANGED <<tags, faults>>

\* An import adds a row, which has the greatest id so far.
Import(i, m) ==
  /\ image[i].here = "not_yet" /\ \A j \in Ids : j < i => image[j].here # "not_yet"
  /\ Edit([image EXCEPT ![i] = NewRow(m, "yes")], tags \union m.tags)

\* RANDOM_FAIL_COOLDOWN_MS go by.
CoolDown(i) ==
  /\ image[i].fail = "recent" /\ edits < MaxEdits /\ edits' = edits + 1
  /\ image' = [image EXCEPT ![i].fail = "old"]
  /\ now' = [Watch(image', now) EXCEPT !.failed = @ \ {i}]
  /\ walk' = Watched(image', tags, walk)
  /\ UNCHANGED <<tags, faults>>

Next ==
  \/ \E a \in Asks : Ask(a)
  \/ Pick \/ Fallback \/ Load \/ Retag \/ Served \/ FetchFails \/ Mark \/ Heal
  \/ StreamBreaks \/ StreamEnds \/ Abort \/ QueryFails
  \/ \E a \in Asks, limit \in {Absent, 1, 2} : WalkImages(a, limit)
  \/ \E list \in {"tags", "authors"}, q \in {"none", "name", "id"},
        limit \in {Absent, 1, 2} : WalkNames(list, q, limit)
  \/ Page \/ PageRows
  \/ \E i \in Ids, m \in Metadata : Hydrate(i, m) \/ Import(i, m)
  \/ \E i \in Ids, s \in {Active, Disabled, Broken} : SetStatus(i, s)
  \/ \E i \in Ids : Delete(i) \/ CoolDown(i)

Spec == Init /\ [][Next]_vars

-----------------------------------------------------------------------------
(* Properties.                                                             *)

\* An image that GET /random answers was, at some moment of the request, one
\* that the client's query means; and it answers that none matches only if
\* none of the rows matched all the while, or a row it had chosen was deleted
\* under it, or it has tried as many images as were asked for and got none of
\* their files (pickRandom, both dialects of its filters, and the attempts of
\* pickRandomImageStream).
AnswersMeant ==
  /\ now.said = "image" => now.id \in now.ever
  /\ now.said = "no_match" =>
       now.steady = {} \/ now.lost \/ now.misses = ParseAttempts(now.ask)

\* While a cooldown is set, an attempt of a request never fetches an image
\* that failed an earlier attempt of it and has not cooled down since
\* (pickRandomImageStream awaits markFail before it picks again).
NoHotRetry ==
  Cooldown /\ now.pc = "fetch" => now.id \notin now.failed

\* Whoever follows next_cursor to the end of a list has seen every image,
\* tag or author that was to be listed all the while, and none twice.
WalkListsAll ==
  /\ \A m, n \in DOMAIN walk.listed : m # n => walk.listed[m] # walk.listed[n]
  /\ walk.list # "none" /\ walk.pc = "idle" =>
       \A k \in walk.steady : \E n \in DOMAIN walk.listed : walk.listed[n] = k
=============================================================================
