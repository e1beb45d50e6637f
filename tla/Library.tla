------------------------------ MODULE Library ------------------------------
(***************************************************************************)
(* The gallery: assets, their files, the trash, tags and captions, what    *)
(* names an asset by id (collections and preset thumbnails), and the       *)
(* enrichment thread that climbs each asset's ladder in the background.    *)
(*                                                                         *)
(* Handlers of requests run to the end on the event loop; the lanes' and   *)
(* imports' saves and the enrichment worker are threads beside it, and     *)
(* `make clean-gens` is a process of its own.  Between a SELECT and the    *)
(* UPDATE that follows it nothing is locked: the connection opens its      *)
(* transaction at the first write.                                         *)
(*                                                                         *)
(* An image is a number that is never used twice; an id is what SQLite     *)
(* gives a row: one more than the largest in the table.                    *)
(***************************************************************************)
EXTENDS Naturals, Sequences, FiniteSets

CONSTANTS
  Makers,       \* threads that save: lanes and imports
  Workers,      \* enrichment threads that could come to exist
  MaxImages,    \* bound on images ever made
  MaxQueue,     \* bound on ids waiting for enrichment
  MaxEdits,     \* bound on what the user does to the gallery
  MaxRestarts   \* bound on restarts of the server

VARIABLES
  rows,         \* the asset table
  files,        \* images whose file is on disk
  made,         \* images made so far
  named,        \* collection members and preset thumbnails
  maker,        \* the saves under way
  queue,        \* _Q
  started,      \* _STARTED
  worker,       \* the enrichment threads
  edits,        \* edits so far
  backfilled,   \* whether this start's backfill has run
  restarts      \* restarts so far

gallery == <<rows, files, made, named, maker>>
ladder  == <<queue, started, worker>>
vars    == <<gallery, ladder, backfilled, edits, restarts>>

Ids    == 1 .. MaxImages
Images == 1 .. MaxImages
Saved == 0   Captioned == 1   Tagged == 2   Embedded == 3
NoRow  == [image |-> 0, trashed |-> FALSE, tags |-> {}, caption |-> 0, level |-> Saved,
           hashed |-> FALSE, missing |-> FALSE]
NoWork == [at |-> "none", id |-> 0, image |-> 0, level |-> Saved, tags |-> {}]
NoSave == [at |-> "idle", image |-> 0, id |-> 0, how |-> ""]

(* A tag is "mine", which the user wrote, or "auto", a word of a caption.  *)
TypeOK ==
  /\ rows \in [Ids -> [image : {0} \cup Images, trashed : BOOLEAN, tags : SUBSET {"mine", "auto"},
                       caption : {0} \cup Images, level : Saved .. Embedded,
                       hashed : BOOLEAN, missing : BOOLEAN]]
  /\ files \subseteq Images /\ made \in 0 .. MaxImages
  /\ named \subseteq [by : {"collection", "preset"}, id : Ids]
  /\ maker \in [Makers -> [at : {"idle", "saved", "tag", "collect", "enqueue"},
                           image : {0} \cup Images, id : {0} \cup Ids,
                           how : {"", "image", "video", "import"}]]
  /\ queue \in Seq(Ids) /\ Len(queue) <= MaxQueue
  /\ worker \in [Workers -> [at : {"none", "idle", "read", "hash", "open", "caption", "captioned",
                                   "keywords", "tagged", "embed", "emit"},
                             id : {0} \cup Ids, image : {0} \cup Images,
                             level : Saved .. Embedded, tags : SUBSET {"mine", "auto"}]]

(* One asset from before content hashing, captioned or not.                *)
Init ==
  /\ \E lv \in {Saved, Tagged} :
       rows = [i \in Ids |-> IF i = 1 THEN [NoRow EXCEPT !.image = 1, !.level = lv,
                                               !.caption = IF lv = Tagged THEN 1 ELSE 0]
                                      ELSE NoRow]
  /\ files = {1} /\ made = 1 /\ named = {}
  /\ maker = [m \in Makers |-> NoSave]
  /\ queue = <<>> /\ started = FALSE /\ worker = [w \in Workers |-> NoWork]
  /\ backfilled = FALSE /\ edits = 0 /\ restarts = 0

-----------------------------------------------------------------------------
(* Rows.                                                                   *)

Present(i) == rows[i].image # 0
Live(i) == Present(i) /\ ~rows[i].trashed      \* get_asset

(* The id SQLite gives the next row.                                       *)
NextId(i) == (\A j \in Ids : i <= j => ~Present(j)) /\ (i # 1 => Present(i - 1))

Works(w, where) == worker' = [worker EXCEPT ![w].at = where]
Rests(w)        == worker' = [worker EXCEPT ![w] = [NoWork EXCEPT !.at = "idle"]]
Saves(m, where) == maker' = [maker EXCEPT ![m].at = where]

(* Mutant: the thread is started without a look at who did it already.     *)
Mutant_Start ==
  /\ started' = TRUE
  /\ worker' = LET fresh == {w \in Workers : worker[w].at = "none"} IN
                 IF fresh = {} THEN worker
                   ELSE [worker EXCEPT ![CHOOSE w \in fresh : TRUE] = [NoWork EXCEPT !.at = "idle"]]

(* start: one thread, under _START_LOCK.                                   *)
Start ==
  IF started
    THEN UNCHANGED <<started, worker>>
    ELSE /\ started' = TRUE
         /\ worker' = [worker EXCEPT ![CHOOSE w \in Workers : worker[w].at = "none"] =
                                       [NoWork EXCEPT !.at = "idle"]]

(* enqueue.                                                                *)
Enqueue(i) == Len(queue) < MaxQueue /\ queue' = Append(queue, i) /\ Start

(* The ids of a query, in the order of the table.                          *)
InOrder(S) ==
  {s \in [1 .. Cardinality(S) -> S] : \A k, l \in DOMAIN s : k < l => s[k] < s[l]}
EnqueueAll(S) ==
  IF S = {} THEN UNCHANGED ladder
    ELSE /\ Len(queue) + Cardinality(S) <= MaxQueue
         /\ \E s \in InOrder(S) : queue' = queue \o s
         /\ Start

-----------------------------------------------------------------------------
(* Saving.                                                                 *)

(* save_image of persist_image, and of import_bytes once the upload has    *)
(* been judged: the file and its thumbnail, hashed while written.          *)
SaveImage(m) ==
  /\ maker[m].at = "idle" /\ made < MaxImages
  /\ \E how \in {"image", "import"} :
       maker' = [maker EXCEPT ![m] = [at |-> "saved", image |-> made + 1, id |-> 0, how |-> how]]
  /\ made' = made + 1 /\ files' = files \cup {made + 1}
  /\ UNCHANGED <<rows, named, ladder, backfilled, edits, restarts>>

(* persist_video_file: moved into place, perhaps interpolated beside it,   *)
(* which replaces it, and hashed by reading it back.                       *)
SaveVideo(m) ==
  /\ maker[m].at = "idle" /\ made < MaxImages
  /\ maker' = [maker EXCEPT ![m] = [at |-> "saved", image |-> made + 1, id |-> 0, how |-> "video"]]
  /\ made' = made + 1 /\ files' = files \cup {made + 1}
  /\ UNCHANGED <<rows, named, ladder, backfilled, edits, restarts>>

(* add_asset: a content row for the hash the save brought, none when the   *)
(* file could not be read back.                                            *)
AddAsset(m) ==
  /\ maker[m].at = "saved"
  /\ \E i \in Ids, hashed \in IF maker[m].how = "video" THEN BOOLEAN ELSE {TRUE} :
       /\ NextId(i)
       /\ rows'  = [rows EXCEPT ![i] = [NoRow EXCEPT !.image = maker[m].image, !.hashed = hashed]]
       /\ maker' = [maker EXCEPT ![m].id = i,
                                 ![m].at = IF maker[m].how = "import" THEN "tag" ELSE "enqueue"]
  /\ UNCHANGED <<files, made, named, ladder, backfilled, edits, restarts>>

(* The tags an import came with.                                           *)
ImportTags(m) ==
  /\ maker[m].at = "tag"
  /\ \/ UNCHANGED rows
     \/ LET i == maker[m].id IN
          rows' = IF Present(i) THEN [rows EXCEPT ![i].tags = {"mine"}] ELSE rows
  /\ Saves(m, "collect")
  /\ UNCHANGED <<files, made, named, ladder, backfilled, edits, restarts>>

(* The collection it goes to, checked before the save.                     *)
ImportCollect(m) ==
  /\ maker[m].at = "collect"
  /\ \/ UNCHANGED named
     \/ named' = named \cup {[by |-> "collection", id |-> maker[m].id]}
  /\ Saves(m, "enqueue")
  /\ UNCHANGED <<rows, files, made, ladder, backfilled, edits, restarts>>

(* _enrich: fire and forget.                                               *)
Enrich(m) ==
  /\ maker[m].at = "enqueue"
  /\ Enqueue(maker[m].id)
  /\ maker' = [maker EXCEPT ![m] = NoSave]
  /\ UNCHANGED <<rows, files, made, named, backfilled, edits, restarts>>

-----------------------------------------------------------------------------
(* What the user does.                                                     *)

Edit == edits < MaxEdits /\ edits' = edits + 1

SetTags(i) ==
  /\ Edit /\ Present(i)
  /\ \E tags \in {{}, {"mine"}} : rows' = [rows EXCEPT ![i].tags = tags]
  /\ UNCHANGED <<files, made, named, maker, ladder, backfilled, restarts>>

(* delete_assets: the row is stamped, the file stays.                      *)
Trash(i) ==
  /\ Edit /\ Live(i)
  /\ rows' = [rows EXCEPT ![i].trashed = TRUE]
  /\ UNCHANGED <<files, made, named, maker, ladder, backfilled, restarts>>

Restore(i) ==
  /\ Edit /\ Present(i) /\ rows[i].trashed
  /\ rows' = [rows EXCEPT ![i].trashed = FALSE]
  /\ UNCHANGED <<files, made, named, maker, ladder, backfilled, restarts>>

(* purge_deleted and _unlink_asset_files: of the ids named, or of all, the *)
(* rows in the trash go with their files.                                  *)
Purge(S) ==
  /\ Edit
  /\ LET doomed == {i \in S : Present(i) /\ rows[i].trashed} IN
       /\ doomed # {}
       /\ rows'  = [i \in Ids |-> IF i \in doomed THEN NoRow ELSE rows[i]]
       /\ files' = files \ {rows[i].image : i \in doomed}
  /\ UNCHANGED <<made, named, maker, ladder, backfilled, restarts>>

(* add_to_collection: idempotent; whether the asset is there is not asked. *)
Collect(i) ==
  /\ Edit /\ Live(i)
  /\ ~\E n \in named : n.by = "collection" /\ n.id = i
  /\ named' = named \cup {[by |-> "collection", id |-> i]}
  /\ UNCHANGED <<rows, files, made, maker, ladder, backfilled, restarts>>

(* remove_from_collection, and delete_collection for all of them.          *)
Uncollect(i) ==
  /\ Edit /\ \E n \in named : n.by = "collection" /\ n.id = i
  /\ named' = {n \in named : ~(n.by = "collection" /\ n.id = i)}
  /\ UNCHANGED <<rows, files, made, maker, ladder, backfilled, restarts>>

(* set_preset_preview: one thumbnail, of a live asset.                     *)
SetPreview(i) ==
  /\ Edit /\ Live(i)
  /\ named' = {n \in named : n.by # "preset"}
                \cup {[by |-> "preset", id |-> i]}
  /\ UNCHANGED <<rows, files, made, maker, ladder, backfilled, restarts>>

(* enrich_all: every live asset without a caption.                         *)
EnrichAll ==
  /\ Edit
  /\ EnqueueAll({i \in Ids : Live(i) /\ rows[i].caption = 0})
  /\ UNCHANGED <<gallery, backfilled, restarts>>

(* clear_all, run by scripts/clean.py: every file, every row; names stay.  *)
ClearAll ==
  /\ Edit
  /\ files' = {} /\ rows' = [i \in Ids |-> NoRow]
  /\ UNCHANGED <<made, named, maker, ladder, backfilled, restarts>>

-----------------------------------------------------------------------------
(* Enrichment.                                                             *)

(* _worker takes an id; _enrich_one reads its row.                         *)
Take(w) ==
  /\ worker[w].at = "idle" /\ queue # <<>>
  /\ queue' = Tail(queue)
  /\ worker' = [worker EXCEPT ![w] = [NoWork EXCEPT !.at = "read", !.id = Head(queue)]]
  /\ UNCHANGED <<gallery, started, backfilled, edits, restarts>>

(* A row that is gone or trashed is left, and so is a video without a      *)
(* poster; a row whose file is gone is marked.                             *)
Read(w) ==
  /\ worker[w].at = "read"
  /\ LET i == worker[w].id IN
       IF ~Live(i) THEN Rests(w) /\ UNCHANGED rows
       ELSE IF rows[i].image \notin files
         THEN Rests(w) /\ rows' = [rows EXCEPT ![i].missing = TRUE]
         ELSE /\ \/ worker' = [worker EXCEPT ![w].at = IF rows[i].hashed THEN "open" ELSE "hash",
                                             ![w].image = rows[i].image, ![w].level = rows[i].level]
                 \/ Rests(w)
              /\ UNCHANGED rows
  /\ UNCHANGED <<files, made, named, maker, queue, started, backfilled, edits, restarts>>

(* _attach_hash: the file is read again, the row found again.              *)
AttachHash(w) ==
  /\ worker[w].at = "hash"
  /\ LET i == worker[w].id IN
       rows' = IF ~Present(i) THEN rows
               ELSE IF worker[w].image \in files THEN [rows EXCEPT ![i].hashed = TRUE]
               ELSE [rows EXCEPT ![i].missing = TRUE]
  /\ Works(w, "open")
  /\ UNCHANGED <<files, made, named, maker, queue, started, backfilled, edits, restarts>>

(* The image is decoded whole; a file that is gone ends this asset's turn. *)
Open(w) ==
  /\ worker[w].at = "open"
  /\ IF worker[w].image \in files THEN Works(w, "caption") ELSE Rests(w)
  /\ UNCHANGED <<gallery, queue, started, backfilled, edits, restarts>>

(* Rung 1.  generate_caption may have no model, or fail; else              *)
(* merge_asset_tags reads the row.                                         *)
Caption(w) ==
  /\ worker[w].at = "caption"
  /\ IF worker[w].level >= Captioned THEN Works(w, "keywords")
       ELSE \/ Works(w, "keywords")
            \/ IF Present(worker[w].id)
                 THEN worker' = [worker EXCEPT ![w].at = "captioned", ![w].level = Captioned,
                                               ![w].tags = rows[worker[w].id].tags]
                 ELSE worker' = [worker EXCEPT ![w].at = "keywords", ![w].level = Captioned]
  /\ UNCHANGED <<gallery, queue, started, backfilled, edits, restarts>>

(* ... and writes it: what it read of the tags goes back with the caption. *)
WriteCaption(w) ==
  /\ worker[w].at = "captioned"
  /\ LET i == worker[w].id IN
       rows' = IF Present(i)
                 THEN [rows EXCEPT ![i].caption = worker[w].image, ![i].level = Captioned,
                                   ![i].tags = worker[w].tags]
                 ELSE rows
  /\ Works(w, "keywords")
  /\ UNCHANGED <<files, made, named, maker, queue, started, backfilled, edits, restarts>>

(* Rung 2: words of the caption the row has now, if it is live.            *)
Keywords(w) ==
  /\ worker[w].at = "keywords"
  /\ LET i == worker[w].id IN
       worker' = IF worker[w].level < Tagged /\ Live(i) /\ rows[i].caption # 0
                   THEN [worker EXCEPT ![w].at = "tagged", ![w].level = Tagged,
                                       ![w].tags = rows[i].tags \cup {"auto"}]
                   ELSE [worker EXCEPT ![w].at = "embed"]
  /\ UNCHANGED <<gallery, queue, started, backfilled, edits, restarts>>

WriteKeywords(w) ==
  /\ worker[w].at = "tagged"
  /\ LET i == worker[w].id IN
       rows' = IF Present(i) THEN [rows EXCEPT ![i].tags = worker[w].tags, ![i].level = Tagged]
                             ELSE rows
  /\ Works(w, "embed")
  /\ UNCHANGED <<files, made, named, maker, queue, started, backfilled, edits, restarts>>

(* Rung 3, when embeddings are on and the encoder answers.                 *)
Embed(w) ==
  /\ worker[w].at = "embed"
  /\ LET i == worker[w].id IN
       \/ UNCHANGED rows
       \/ /\ worker[w].level < Embedded /\ Present(i)
          /\ rows' = [rows EXCEPT ![i].level = Embedded]
  /\ Works(w, "emit")
  /\ UNCHANGED <<files, made, named, maker, queue, started, backfilled, edits, restarts>>

(* The gallery is told, and the worker waits for the next id.              *)
Emit(w) ==
  /\ worker[w].at = "emit"
  /\ Rests(w)
  /\ UNCHANGED <<gallery, queue, started, backfilled, edits, restarts>>

-----------------------------------------------------------------------------
(* The server is stopped: the queue and every thread are gone.             *)
Stop ==
  /\ restarts < MaxRestarts /\ restarts' = restarts + 1
  /\ queue' = <<>> /\ started' = FALSE /\ backfilled' = FALSE
  /\ worker' = [w \in Workers |-> NoWork] /\ maker' = [m \in Makers |-> NoSave]
  /\ UNCHANGED <<rows, files, made, named, edits>>

(* backfill_hashes, some time after a start: live rows without a hash.     *)
Backfill ==
  /\ ~backfilled /\ backfilled' = TRUE
  /\ EnqueueAll({i \in Ids : Live(i) /\ ~rows[i].hashed /\ ~rows[i].missing})
  /\ UNCHANGED <<gallery, edits, restarts>>

Next ==
  \/ \E m \in Makers : SaveImage(m) \/ SaveVideo(m) \/ AddAsset(m) \/ ImportTags(m)
                       \/ ImportCollect(m) \/ Enrich(m)
  \/ \E i \in Ids : SetTags(i) \/ Trash(i) \/ Restore(i) \/ Collect(i) \/ Uncollect(i) \/ SetPreview(i)
  \/ \E S \in {Ids} \cup {{i} : i \in Ids} : Purge(S)
  \/ EnrichAll \/ ClearAll \/ Stop \/ Backfill
  \/ \E w \in Workers : Take(w) \/ Read(w) \/ AttachHash(w) \/ Open(w) \/ Caption(w) \/ WriteCaption(w)
                        \/ Keywords(w) \/ WriteKeywords(w) \/ Embed(w) \/ Emit(w)

Spec == Init /\ [][Next]_vars

-----------------------------------------------------------------------------
(* The ladder only ever rises (models.py:296): no write of an enrichment   *)
(* that read the row earlier takes an asset back below a rung it reached,  *)
(* through second enqueues, trashing and restarts.                         *)
Rises ==
  \A i \in Ids : rows[i].image # 0 /\ rows'[i].image = rows[i].image
    => rows'[i].level >= rows[i].level
LadderOnlyRises == [][Rises]_vars

=============================================================================
