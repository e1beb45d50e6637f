------------------------------ MODULE OpenAIImages ------------------------------
(***************************************************************************)
(* The OpenAI-compatible image API (agent/openai_compat.py): a body is     *)
(* read and mapped onto a job kind and its settings, an edit's images are  *)
(* judged in memory before any of them is stored, the job is submitted     *)
(* once per Idempotency-Key, and the call waits for it as long as the      *)
(* server's budget lasts. A call goes from await to await; between two of  *)
(* them the worker may come or go, the job may end, and another call with  *)
(* the same key may pass it.                                               *)
(***************************************************************************)
EXTENDS Naturals, FiniteSets, Sequences, SequencesExt

CONSTANTS
  Calls,        \* calls that may be made
  Bodies,       \* the bodies they send
  Keys, NoKey,  \* Idempotency-Keys, and the absence of one
  Configured,   \* the configured variants: records of lane, name, default
  PickerLive,   \* whether the live worker offers a choice of image models
  InpaintLive,  \* whether the live worker offers inpaint_remote
  MaxJobs,      \* bound: jobs ever queued
  MaxOutages    \* bound: how often the worker goes away

VARIABLES
  calls,   \* each call: where it is, its body, what it made, its answer
  jobs,    \* the jobs, by id
  worker,  \* whether the remote worker answers
  outages

vars == <<calls, jobs, worker, outages>>

NoBody == [model |-> "", edit |-> FALSE, mask |-> FALSE, images |-> 0, n |-> 0,
           size |-> "none", background |-> "none", extra |-> "none", fits |-> TRUE]

Idle == [at |-> "idle", body |-> NoBody, key |-> NoKey, params |-> {}, warned |-> {},
         stored |-> 0, job |-> 0, answer |-> "none", own |-> FALSE]

Init ==
  /\ calls = [c \in Calls |-> Idle]
  /\ jobs = <<>> /\ worker \in BOOLEAN /\ outages = 0

Goes(c, rec) == calls' = [calls EXCEPT ![c] = rec]
Answers(c, rec, answer) == Goes(c, [rec EXCEPT !.at = "answered", !.answer = answer])

-----------------------------------------------------------------------------
(* Reading a body *)

\* A field nothing is known of, and a stream, which is not served.
Forbidden(b) == b.extra \in {"stray", "stream", "partial_images"}

\* A value out of range, or of a format that is not made here.
OutOfRange(b) == b.n > 8 \/ b.size = "odd" \/ b.background = "odd" \/ b.extra \in {"jpeg", "gif"}

NoImage(b) == b.edit /\ b.images = 0

\* The body is refused before anything is looked up.
Unreadable(b) == Forbidden(b) \/ OutOfRange(b) \/ NoImage(b)

\* A field that would change the image elsewhere and is ignored here.
Ignored(b) == IF b.extra = "quality" THEN {"quality"} ELSE {}

\* The variants a model id names: the friendly ids and the raw ones.
Resolved(b) == {v \in Configured : b.model \in {v.friendly, v.raw}}

-----------------------------------------------------------------------------
(* From a body to a job *)

Kind(v, b) ==
  IF ~b.edit THEN IF v.lane = "local" THEN "image_local" ELSE "image_colab"
  ELSE IF v.lane = "local" THEN IF b.mask THEN "inpaint" ELSE "img2img"
  ELSE IF b.mask THEN "inpaint_remote" ELSE "image_edit"

\* The controls of a kind these settings may go into.
Controls(kind) ==
  CASE kind \in {"image_local", "img2img"} ->
         {"model_variant", "batch", "aspect", "width", "finish_steps"}
    [] kind = "image_colab" ->
         {"batch", "aspect", "width", "background", "finish_steps"}
           \union (IF PickerLive THEN {"model_variant"} ELSE {})
    [] kind = "inpaint" -> {"model_variant", "batch", "finish_steps"}
    [] OTHER -> {"background", "finish_steps"}

Offered(kind) == kind = "inpaint_remote" => InpaintLive

\* What each mapping gives: the settings it sets, what it warns of, whether it
\* refuses.
Maps(params, warned, refused) == [params |-> params, warned |-> warned, refused |-> refused]

VariantParams(v, controls) ==
  IF "model_variant" \in controls THEN Maps({"model"}, {}, FALSE)
  ELSE Maps({}, IF v.default THEN {} ELSE {"model"}, FALSE)

CountParams(b, controls) ==
  IF b.n = 0 THEN Maps({}, {}, FALSE)
  ELSE IF "batch" \in controls THEN Maps({"n"}, {}, FALSE)
  ELSE Maps({}, {}, b.n # 1)

SizeParams(b, controls) ==
  CASE b.size = "none" -> Maps({}, {}, FALSE)
    [] b.size = "tiny" -> Maps({}, {}, TRUE)
    [] "aspect" \notin controls \/ (b.size = "pixels" /\ "width" \notin controls) ->
         Maps({}, {"size"}, FALSE)
    [] OTHER -> Maps({"size"}, {}, FALSE)

BackgroundParams(b, controls) ==
  IF b.background # "transparent" THEN Maps({}, {}, FALSE)
  ELSE Maps({"background"}, {}, {"background", "finish_steps"} \intersect controls = {})

JobParams(v, b) ==
  LET k == Kind(v, b)
      each == {VariantParams(v, Controls(k)), CountParams(b, Controls(k)),
               SizeParams(b, Controls(k)), BackgroundParams(b, Controls(k))}
  IN IF ~Offered(k) THEN Maps({}, Ignored(b), FALSE)
     ELSE Maps(UNION {e.params : e \in each}, Ignored(b) \union UNION {e.warned : e \in each},
               \E e \in each : e.refused)

Remote(kind) == kind \in {"image_colab", "image_edit", "inpaint_remote"}

\* The rules of the kind: how many images it takes, and the mask's size.
Takes(kind, b) ==
  /\ Offered(kind)
  /\ b.images <= (IF kind = "image_edit" THEN 3 ELSE 1)
  /\ b.fits

-----------------------------------------------------------------------------
(* A call *)

\* The job a key was used for.
Prior(key) == {j \in DOMAIN jobs : key # NoKey /\ jobs[j].key = key}

Job(key) == CHOOSE j \in Prior(key) : TRUE

Variant(c) == CHOOSE v \in Resolved(calls[c].body) : TRUE
TheKind(c) == Kind(Variant(c), calls[c].body)

\* The body is read, its model and its key looked up: a used key goes straight
\* to waiting for its job.
Begin(c) ==
  /\ calls[c].at = "idle"
  /\ \E b \in Bodies, k \in Keys \union {NoKey} :
       LET rec == [Idle EXCEPT !.body = b, !.key = k, !.warned = Ignored(b)] IN
       IF Unreadable(b) \/ Resolved(b) = {} THEN Answers(c, rec, "refused")
       ELSE IF Prior(k) # {} THEN Goes(c, [rec EXCEPT !.at = "waiting", !.job = Job(k)])
       ELSE LET p == JobParams(CHOOSE v \in Resolved(b) : TRUE, b) IN
            IF p.refused THEN Answers(c, rec, "refused")
            ELSE Goes(c, [rec EXCEPT !.params = p.params, !.warned = p.warned,
                                     !.at = IF b.edit THEN "judging" ELSE "submitting"])
  /\ UNCHANGED <<jobs, worker, outages>>

\* An edit's images are decoded in memory and the request judged with them.
Mutant_Judge(c) ==
  /\ calls[c].at = "judging"
  /\ Goes(c, [calls[c] EXCEPT !.at = "importing"])
  /\ UNCHANGED <<jobs, worker, outages>>

Judge(c) ==
  /\ calls[c].at = "judging"
  /\ IF Takes(TheKind(c), calls[c].body)
       THEN Goes(c, [calls[c] EXCEPT !.at = "asking"])
       ELSE Answers(c, calls[c], "refused")
  /\ UNCHANGED <<jobs, worker, outages>>

\* require_runnable: a remote kind needs its worker now. The key is asked
\* about again before a byte is stored.
AskWorker(c) ==
  /\ calls[c].at = "asking"
  /\ IF Remote(TheKind(c)) /\ ~worker THEN Answers(c, calls[c], "refused")
     ELSE IF Prior(calls[c].key) # {}
       THEN Goes(c, [calls[c] EXCEPT !.at = "waiting", !.job = Job(calls[c].key)])
       ELSE Goes(c, [calls[c] EXCEPT !.at = "importing"])
  /\ UNCHANGED <<jobs, worker, outages>>

Wanted(b) == b.images + (IF b.mask THEN 1 ELSE 0)

\* One image or the mask is stored in the gallery.
ImportOne(c) ==
  /\ calls[c].at = "importing"
  /\ LET stored == calls[c].stored + 1
         rec == [calls[c] EXCEPT !.stored = stored]
     IN IF stored < Wanted(rec.body) THEN Goes(c, rec)
        ELSE IF Prior(rec.key) # {} THEN Goes(c, [rec EXCEPT !.at = "waiting", !.job = Job(rec.key)])
        ELSE Goes(c, [rec EXCEPT !.at = "submitting"])
  /\ UNCHANGED <<jobs, worker, outages>>

\* The job API: the same rules over the stored images, the worker once more,
\* and one row per key.
Submit(c) ==
  /\ calls[c].at = "submitting"
  /\ LET rec == calls[c]
         k == TheKind(c)
     IN IF Prior(rec.key) # {}
          THEN /\ Goes(c, [rec EXCEPT !.at = "waiting", !.job = Job(rec.key)])
               /\ UNCHANGED jobs
        ELSE IF (rec.body.edit /\ ~Takes(k, rec.body)) \/ (Remote(k) /\ ~worker)
          THEN Answers(c, rec, "refused") /\ UNCHANGED jobs
        ELSE /\ Len(jobs) < MaxJobs
             /\ jobs' = Append(jobs, [key |-> rec.key, body |-> rec.body, params |-> rec.params,
                                      status |-> "queued"])
             /\ Goes(c, [rec EXCEPT !.at = "waiting", !.job = Len(jobs) + 1, !.own = TRUE])
  /\ UNCHANGED <<worker, outages>>

\* The wait ends with the job, or with the server's budget: the answer then
\* names the job, which goes on.
Settle(c) ==
  /\ calls[c].at = "waiting"
  /\ LET s == jobs[calls[c].job].status
     IN \/ s = "done" /\ Goes(c, [calls[c] EXCEPT !.at = "reading"])
        \/ s \in {"empty", "error"} /\ Answers(c, calls[c], "failed")
        \/ s = "canceled" /\ Answers(c, calls[c], "canceled")
        \/ s = "queued" /\ Answers(c, calls[c], "timeout")
  /\ UNCHANGED <<jobs, worker, outages>>

\* The images are read for the answer; one that was emptied from the trash
\* since fails the whole answer.
Deliver(c) ==
  /\ calls[c].at = "reading"
  /\ \E answer \in {"images", "failed"} : Answers(c, calls[c], answer)
  /\ UNCHANGED <<jobs, worker, outages>>

\* The job ends: "empty" is a job that is done and left no image.
JobEnds(j) ==
  /\ jobs[j].status = "queued"
  /\ \E s \in {"done", "empty", "error", "canceled"} : jobs' = [jobs EXCEPT ![j].status = s]
  /\ UNCHANGED <<calls, worker, outages>>

WorkerFlips ==
  /\ outages < MaxOutages
  /\ worker' = ~worker /\ outages' = outages + 1
  /\ UNCHANGED <<calls, jobs>>

Next ==
  \/ \E c \in Calls : Begin(c) \/ Judge(c) \/ AskWorker(c) \/ ImportOne(c) \/ Submit(c)
                     \/ Settle(c) \/ Deliver(c)
  \/ \E j \in DOMAIN jobs : JobEnds(j)
  \/ WorkerFlips

Spec == Init /\ [][Next]_vars

-----------------------------------------------------------------------------

TypeOK ==
  /\ \A c \in Calls : calls[c].job \in 0..Len(jobs) /\ calls[c].stored <= Wanted(calls[c].body)
  /\ outages \in 0..MaxOutages

\* What a body asks for beyond its prompt.
Asked(b, v) ==
  (IF b.n > 1 THEN {"n"} ELSE {}) \union (IF b.size # "none" THEN {"size"} ELSE {})
    \union (IF b.background = "transparent" THEN {"background"} ELSE {})
    \union (IF b.extra = "quality" THEN {"quality"} ELSE {})
    \union (IF v.default THEN {} ELSE {"model"})

\* A call that is refused for what it asks, or because the worker was away
\* when it was judged, has stored nothing: no upload stays in the gallery and
\* no captioning starts. A call that queued a job of its own either passed on
\* everything it was asked for or names it in the warning header, and however
\* the calls of one key overlap, time out and are repeated, they all wait for
\* one job (_run in agent/openai_compat.py).
AsAskedOrTold ==
  /\ \A c \in Calls :
       /\ calls[c].answer = "refused" /\ calls[c].stored > 0 =>
            Takes(TheKind(c), calls[c].body) /\ Remote(TheKind(c)) /\ outages > 0
       /\ calls[c].own => Asked(calls[c].body, Variant(c)) \subseteq
                            calls[c].params \union calls[c].warned
       /\ calls[c].job > 0 /\ calls[c].key # NoKey => jobs[calls[c].job].key = calls[c].key
  /\ \A j, i \in DOMAIN jobs : jobs[j].key = jobs[i].key /\ jobs[j].key # NoKey => i = j
=============================================================================
