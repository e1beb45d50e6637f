----------------------------- MODULE ImageJobs -----------------------------
(***************************************************************************)
(* What a handler of an image or video job does between the queue that     *)
(* calls it and the library it leaves assets in: the items of a batch, the *)
(* remote round trips, the finishing steps, and the record kept of them.   *)
(*                                                                         *)
(* One handler runs, on a thread; the user may cancel the job or skip an   *)
(* item at any moment, and both are seen at the handler's next progress    *)
(* call (Beat), wherever that call stands.  The queue around it is         *)
(* JobLanes, the device is GpuResidency, the round trip is RemoteJob.      *)
(*                                                                         *)
(* An image is what was done to make it: the seed it was rendered with,    *)
(* the size it was rendered at, and the operations applied since.  A seed  *)
(* stands for the pair of seed and expanded prompt of an item, which are   *)
(* derived together.  Widths stand for sizes; upscaling doubles them.      *)
(***************************************************************************)
EXTENDS Naturals, Sequences

CONSTANTS
  Kinds,        \* the kinds of job that may be submitted
  Plans,        \* finishing steps that may be asked for, in order
  MaxBatch,     \* bound on the images of a batch
  MaxSkips      \* bound on the user's skips

(* What the constants are assumed to be; the module that instantiates this *)
(* one states it of their values.                                          *)
ImageAssumption ==
  /\ Plans \subseteq Seq({"detail", "face_restore", "upscale", "resize"})
  /\ {MaxBatch, MaxSkips} \subseteq Nat

VARIABLES
  job,          \* kind, batch, finishing plan, first seed, source asset
  at,           \* where the handler is
  item,         \* index of the current item, from 0
  image,        \* the image at hand
  applied,      \* the names apply_image_post collects
  todo,         \* finishing steps left
  got,          \* images of the worker not yet saved
  shelf,        \* the job's assets
  flags,        \* _CANCELLED and _SKIPPED, for this job
  skips,        \* skips asked for so far
  canceled,     \* whether the user ever canceled the job
  ended         \* how the handler ended, or ""

vars == <<job, at, item, image, applied, todo, got, shelf, flags, skips,
          canceled, ended>>

Batched == {"local", "outpaint", "control", "remote"}
Remotes == {"remote", "edit", "inpaint", "video", "long_video", "extend"}
Tools   == {"upscale", "face_restore", "detail", "matte", "region_mask", "interpolate",
            "extend"}

NoImage == [seed |-> 0, ops |-> <<>>, gen |-> 0, size |-> 0]
Render(seed) == [seed |-> seed, ops |-> <<>>, gen |-> 1, size |-> 1]

(* What a step does to the pixels: its name is its mark, and only two of   *)
(* them change the size.                                                   *)
After(op, img) ==
  [img EXCEPT !.ops  = Append(@, op),
              !.size = IF op = "upscale" THEN 2 * @ ELSE IF op = "resize" THEN 1 ELSE @]

-----------------------------------------------------------------------------
(* The records kept of an image.                                           *)

(* seed_for in its increment mode, and with it the prompt of the item.     *)
ItemSeed(i) == job.seed + i

(* derivative_meta: the history grows, the rendering size stays that of    *)
(* the ancestor, the width is that of the file.                            *)
DerivativeMeta(src, ops, in, out) ==
  [seed |-> src.seed, post |-> src.post \o ops,
   gen  |-> IF src.derived THEN src.gen ELSE src.size,
   derived |-> TRUE, size |-> out]

(* image_meta: `gen` is the size before finishing; a finished image is a   *)
(* derivative of it.                                                       *)
ImageMeta(seed, gen, img, post) ==
  LET plain == [seed |-> seed, post |-> <<>>, gen |-> gen, derived |-> FALSE, size |-> gen]
  IN IF post = <<>> THEN plain ELSE DerivativeMeta(plain, post, gen, img.size)

(* An asset as an earlier job left it: rendered, perhaps finished once.    *)
Sources ==
  {[image |-> Render(9), meta |-> ImageMeta(9, 1, Render(9), <<>>)],
   [image |-> After("upscale", Render(9)),
    meta  |-> ImageMeta(9, 1, After("upscale", Render(9)), <<"upscale">>)]}

-----------------------------------------------------------------------------
(* The parameters of a job: common_params, resolve_finish, build_params    *)
(* and the builders of tools and videos.  Only batch handlers read `batch`.*)

Finishes(k) == IF k \in {"local", "outpaint", "control", "remote", "edit", "inpaint"}
                 THEN Plans ELSE {<<>>}

JobShapes == UNION {[kind : {k}, batch : IF k \in Batched THEN 1 .. MaxBatch ELSE {1},
                    plan : Finishes(k), seed : {10},
                    source : Sources] : k \in Kinds}

Init ==
  /\ job \in JobShapes
  /\ at = "item" /\ item = 0
  /\ image = NoImage /\ applied = <<>> /\ todo = <<>> /\ got = <<>>
  /\ shelf = <<>>
  /\ flags = {} /\ skips = 0 /\ canceled = FALSE /\ ended = ""

-----------------------------------------------------------------------------
(* Moves of the handler's own state: where it goes, with which image.      *)

Holding(where, i, img) ==
  /\ at' = where /\ item' = i /\ image' = img
  /\ UNCHANGED ended

Goto(where) == Holding(where, item, image) /\ UNCHANGED <<applied, todo, got>>

Ends(how) ==
  /\ at' = "over" /\ ended' = how
  /\ item' = 0 /\ image' = NoImage /\ applied' = <<>> /\ todo' = <<>> /\ got' = <<>>

(* The next turn of the loop over the batch, or the end of the handler.    *)
NextItem ==
  IF item + 1 < job.batch
    THEN Holding("item", item + 1, NoImage) /\ applied' = <<>> /\ todo' = <<>> /\ UNCHANGED got
    ELSE Ends("done")

(* Finishing begins on a fresh image.                                      *)
Finish(img) ==
  /\ Holding("post", item, img)
  /\ applied' = <<>> /\ todo' = job.plan
  /\ UNCHANGED got

(* progress_cb of the queue: a cancel wins over a skip, and a skip is used *)
(* up by the call that sees it.  A handler that lets SkipItem through has  *)
(* its job canceled.                                                       *)
Beat(onSkip, goesOn) ==
  /\ \/ "cancel" \in flags /\ Ends("canceled") /\ UNCHANGED flags
     \/ flags = {"skip"} /\ onSkip /\ flags' = {}
     \/ flags = {} /\ goesOn /\ UNCHANGED flags
  /\ UNCHANGED <<job, shelf, skips, canceled>>

Fails == Ends("error") /\ UNCHANGED <<job, shelf, flags, skips, canceled>>

-----------------------------------------------------------------------------
(* Local batches: a call outside the try at the start of the item, the     *)
(* rendering inside it.                                                    *)

ItemStart ==
  /\ at = "item" /\ job.kind \in {"local", "outpaint", "control"}
  /\ Beat(Ends("skipped"), Goto("render"))

(* txt2img, img2img and inpaint; the last puts the result back over the    *)
(* source before anything else.                                            *)
LocalItem ==
  /\ at = "render" /\ job.kind = "local"
  /\ \/ Beat(NextItem, Finish(Render(ItemSeed(item))))
     \/ Fails

(* The working canvas is smaller than the result, which has the source put *)
(* back before finishing.                                                  *)
OutpaintItem ==
  /\ at = "render" /\ job.kind = "outpaint"
  /\ \/ Beat(NextItem, Finish(Render(ItemSeed(item))))
     \/ Fails

ControlItem ==
  /\ at = "render" /\ job.kind = "control"
  /\ \/ Beat(NextItem, Finish(Render(ItemSeed(item))))
     \/ Fails

-----------------------------------------------------------------------------
(* Remote jobs: one call, one round trip, and the results one by one.      *)

RemoteStart ==
  /\ at = "item" /\ job.kind = "remote" /\ got = <<>>
  /\ Beat(Ends("skipped"), Goto("away"))

(* The worker renders prompt and seed pair by pair, and stops early when   *)
(* the job is canceled there: what it has comes back, in order.            *)
RemoteImages ==
  /\ at = "away" /\ job.kind = "remote"
  /\ \/ Beat(Ends("skipped"),
             \E n \in 1 .. job.batch :
               /\ got' = [i \in 1 .. n |-> Render(ItemSeed(i - 1))]
               /\ Holding("take", 0, NoImage) /\ UNCHANGED <<applied, todo>>)
     \/ Fails

RemoteTake ==
  /\ at = "take"
  /\ \/ Beat(Ends("skipped"), Finish(got[item + 1]))
     \/ Fails

(* Image Edit: one image of up to three.                                   *)
RemoteEdit ==
  /\ at = "item" /\ job.kind = "edit"
  /\ \/ Beat(Ends("skipped"), Finish(Render(ItemSeed(0))))
     \/ Fails

(* The masked edit: the identity gate may ask for one more rendering, with *)
(* the next seed; its record keeps the seed of the first.                  *)
RemoteInpaint ==
  /\ at = "item" /\ job.kind = "inpaint"
  /\ \/ Beat(Ends("skipped"), Finish(Render(ItemSeed(0))))
     \/ Beat(Ends("skipped"), Holding("retry", item, Render(ItemSeed(0)))
                                /\ UNCHANGED <<applied, todo, got>>)
     \/ Fails

InpaintRetry ==
  /\ at = "retry"
  /\ \/ Beat(Ends("skipped"), Finish(Render(ItemSeed(0) + 1)))
     \/ Fails

(* A clip, and the shots of a long one, chained by their last frames; the  *)
(* record holds the seed of the first.                                     *)
VideoClip ==
  /\ at = "item" /\ job.kind = "video"
  /\ \/ Beat(Ends("skipped"), Finish(Render(ItemSeed(0))))
     \/ Fails

LongVideo ==
  /\ at = "item" /\ job.kind = "long_video"
  /\ \/ Beat(Ends("skipped"), Finish(Render(ItemSeed(0))))
     \/ Fails

-----------------------------------------------------------------------------
(* Tools: one operation on an asset of the library.                        *)

Upscale ==
  /\ at = "item" /\ job.kind = "upscale"
  /\ \/ Beat(Ends("skipped"), Finish(After("upscale", job.source.image)))
     \/ Fails

FaceRestore ==
  /\ at = "item" /\ job.kind = "face_restore"
  /\ \/ Beat(Ends("skipped"), Finish(After("face_restore", job.source.image)))
     \/ Fails

(* Nothing detected is a failure.                                          *)
Detail ==
  /\ at = "item" /\ job.kind = "detail"
  /\ \/ Beat(Ends("skipped"), Finish(After("detail", job.source.image)))
     \/ Fails

Matte ==
  /\ at = "item" /\ job.kind = "matte"
  /\ \/ Beat(Ends("skipped"), Finish(After("matte", job.source.image)))
     \/ Fails

(* A part of the subject as a mask: an empty one is a failure.             *)
RegionMask ==
  /\ at = "item" /\ job.kind = "region_mask"
  /\ \/ Beat(Ends("skipped"), Finish(After("region_mask", job.source.image)))
     \/ Fails

Interpolate ==
  /\ at = "item" /\ job.kind = "interpolate"
  /\ \/ Beat(Ends("skipped"), Finish(After("interpolate", job.source.image)))
     \/ Fails

(* The source clip and its continuation: the seed recorded is that of the  *)
(* continuation.                                                           *)
ExtendVideo ==
  /\ at = "item" /\ job.kind = "extend"
  /\ \/ Beat(Ends("skipped"),
             Finish([After("extend", job.source.image) EXCEPT !.seed = job.seed]))
     \/ Fails

-----------------------------------------------------------------------------
(* apply_image_post and run_steps.  A step that fails costs the step; its  *)
(* progress calls stand outside the try of the item.                       *)

(* Mutant: the step is listed before it has run.                           *)
Mutant_PostStep ==
  /\ at = "post" /\ todo # <<>>
  /\ Beat(Ends("skipped"),
          /\ \/ Holding("post", item, After(Head(todo), image))
             \/ Holding("post", item, image)
          /\ applied' = Append(applied, Head(todo))
          /\ todo' = Tail(todo) /\ UNCHANGED got)

PostStep ==
  /\ at = "post" /\ todo # <<>>
  /\ Beat(Ends("skipped"),
          /\ \/ /\ Holding("post", item, After(Head(todo), image))
                /\ applied' = Append(applied, Head(todo))
             \/ Holding("post", item, image) /\ UNCHANGED applied
          /\ todo' = Tail(todo) /\ UNCHANGED got)

(* The last step reports as well.                                          *)
PostDone ==
  /\ at = "post" /\ todo = <<>>
  /\ IF job.plan = <<>>
       THEN Goto("save") /\ UNCHANGED <<job, shelf, flags, skips, canceled>>
       ELSE Beat(Ends("skipped"), Goto("save"))

-----------------------------------------------------------------------------
(* The record that goes with the image, by kind.                           *)
Meta ==
  IF job.kind \in Tools
    THEN LET own == IF job.kind = "extend" THEN job.seed ELSE job.source.meta.seed
         IN DerivativeMeta([job.source.meta EXCEPT !.seed = own], <<job.kind>>,
                           job.source.image.size, image.size)
    ELSE ImageMeta(ItemSeed(item), image.gen, image, applied)

(* persist_image, persist_video: the file, the row, and its announcement.  *)
(* Then the next item, or the next image of the worker.                    *)
Persist ==
  /\ at = "save"
  /\ shelf' = Append(shelf, [image |-> image, meta |-> Meta])
  /\ IF job.kind = "remote"
       THEN IF item + 1 < Len(got)
              THEN /\ Holding("take", item + 1, NoImage)
                   /\ applied' = <<>> /\ todo' = <<>> /\ UNCHANGED got
              ELSE Ends("done")
       ELSE NextItem
  /\ UNCHANGED <<job, flags, skips, canceled>>

(* The disk is full, or the row cannot be written.                         *)
PersistFails == at = "save" /\ Fails

(* POST /jobs/{id}/cancel and /skip.                                       *)
Cancel ==
  /\ at # "over" /\ ~canceled
  /\ flags' = flags \cup {"cancel"} /\ canceled' = TRUE
  /\ UNCHANGED <<job, at, item, image, applied, todo, got, shelf, skips, ended>>

Skip ==
  /\ at # "over" /\ skips < MaxSkips
  /\ flags' = flags \cup {"skip"} /\ skips' = skips + 1
  /\ UNCHANGED <<job, at, item, image, applied, todo, got, shelf, canceled, ended>>

Next ==
  \/ ItemStart \/ LocalItem \/ OutpaintItem \/ ControlItem
  \/ RemoteStart \/ RemoteImages \/ RemoteTake
  \/ RemoteEdit \/ RemoteInpaint \/ InpaintRetry
  \/ VideoClip \/ LongVideo
  \/ Upscale \/ FaceRestore \/ Detail \/ Matte
  \/ RegionMask \/ Interpolate \/ ExtendVideo
  \/ PostStep \/ PostDone \/ Persist \/ PersistFails
  \/ Cancel \/ Skip

Spec == Init /\ [][Next]_vars

-----------------------------------------------------------------------------
TypeOK ==
  /\ job \in JobShapes
  /\ at \in {"item", "render", "away", "take", "retry", "post", "save", "over"}
  /\ item \in 0 .. MaxBatch
  /\ flags \subseteq {"cancel", "skip"}
  /\ ended \in {"", "done", "canceled", "skipped", "error"}

(* What an asset says of itself is what was done to it: the history lists  *)
(* the steps its pixels went through, in order, whatever failed on the     *)
(* way; its width is that of the file and its rendering size that of the   *)
(* ancestor, through finishing and tools in turn.                          *)
HistoryIsTrue ==
  \A n \in DOMAIN shelf :
    LET a == shelf[n] IN
      /\ a.meta.post = a.image.ops
      /\ a.meta.gen = a.image.gen /\ a.meta.size = a.image.size

(* The images of a batch are told apart: each carries the seed it was      *)
(* rendered with, though items were skipped and the worker came back with  *)
(* fewer images than it was asked for.                                     *)
SeedsOfBatch ==
  job.kind \in Batched =>
    \A n \in DOMAIN shelf : shelf[n].meta.seed = shelf[n].image.seed

(* What the library is told of an image is true of its pixels.            *)
AssetsTellTheTruth == HistoryIsTrue /\ SeedsOfBatch
=============================================================================
