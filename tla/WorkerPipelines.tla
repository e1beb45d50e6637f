---------------------------- MODULE WorkerPipelines ----------------------------
(***************************************************************************)
(* What the one job thread of the Remote GPU keeps on the card between two *)
(* jobs, and what each job runs on: worker/pipelines.py and the run of each*)
(* route of worker/api.py.  The order of the jobs and what becomes of their*)
(* results is RemoteJob.                                                   *)
(*                                                                         *)
(* One model is resident at a time, with a Lightning adapter or without,   *)
(* switched on or off by the job before.  A request with speed has had its *)
(* steps cut to four by the app, which only an adapter makes an image of.  *)
(***************************************************************************)
EXTENDS Naturals, FiniteSets

CONSTANTS
  Requests,     \* what the app sends: [route, variant, speed, last]
  Configs,      \* what a worker may be set up with, a set of features each
  MaxJobs,      \* bound on jobs
  None          \* Python's None

VARIABLES
  config,       \* the features of this worker
  pipes,        \* _PIPES
  adapter,      \* of the resident model: [there, on]
  job,          \* the job the thread is running
  outcome,      \* how the last job ended
  jobs          \* number of jobs begun

vars == <<config, pipes, adapter, job, outcome, jobs>>

NoPipes == [image |-> None, image_variant |-> None, edit |-> None, edit_inpaint |-> None,
            video |-> None, video_mode |-> None, video_engine |-> None,
            image_speed |-> FALSE, edit_speed |-> FALSE, video_speed |-> FALSE]
NoJob     == [at |-> "idle", request |-> None, cancel |-> FALSE, had |-> None]
NoOutcome == [how |-> "none", request |-> None, model |-> None, fast |-> FALSE, had |-> None]

Route == job.request.route
Asked == job.request.variant
Speed == job.request.speed
Edits == {"edit", "inpaint"}
Video == {"t2v", "i2v"}

Resident == IF pipes.image # None THEN pipes.image ELSE
            IF pipes.edit  # None THEN pipes.edit  ELSE pipes.video
Has(feature) == feature \in config

TypeOK ==
  /\ config \in Configs /\ jobs \in 0 .. MaxJobs
  /\ DOMAIN pipes = DOMAIN NoPipes /\ adapter \in [there : BOOLEAN, on : BOOLEAN]
  /\ job.at \in {"idle", "dequeued", "resolve", "load", "inpaint", "switch", "denoise"}
  /\ Cardinality({p \in {pipes.image, pipes.edit, pipes.video} : p # None}) <= 1

Init ==
  /\ config \in Configs
  /\ pipes = NoPipes /\ adapter = [there |-> FALSE, on |-> FALSE]
  /\ job = NoJob /\ outcome = NoOutcome /\ jobs = 0

-----------------------------------------------------------------------------
(* Which model a request means.                                            *)

(* An unconfigured variant means the default model.                        *)
ImageModel(variant) == IF variant \in {"quality"} \cup config THEN variant ELSE "quality"

(* What is up may be used.                                                 *)
(* Mutant: any image model will do.                                        *)
Mutant_ImageUp == pipes.image # None
ImageUp == pipes.image # None /\ pipes.image_variant = Asked
EditUp  == pipes.edit # None
VideoUp == pipes.video_mode = Route /\ pipes.video_engine = Asked /\ pipes.video # None
Up == CASE Route = "image" -> ImageUp [] Route \in Edits -> EditUp [] OTHER -> VideoUp

(* The speed flags are not among what it clears.                           *)
Evicted == [pipes EXCEPT !.image = None, !.image_variant = None, !.edit = None,
                         !.edit_inpaint = None, !.video = None, !.video_mode = None,
                         !.video_engine = None]

-----------------------------------------------------------------------------
(* The job thread.                                                         *)

Ends(how) ==
  /\ job' = NoJob
  /\ outcome' = [NoOutcome EXCEPT !.how = how, !.request = job.request, !.had = job.had]
At(step) == job.at = step
Go(step) == job' = [job EXCEPT !.at = step] /\ UNCHANGED outcome

Take ==
  /\ At("idle") /\ jobs < MaxJobs /\ jobs' = jobs + 1
  /\ \E r \in Requests : job' = [NoJob EXCEPT !.at = "dequeued", !.request = r, !.had = Resident]
  /\ outcome' = NoOutcome /\ UNCHANGED <<config, pipes, adapter>>

Cancel ==
  /\ ~At("idle") /\ ~job.cancel /\ job' = [job EXCEPT !.cancel = TRUE]
  /\ UNCHANGED <<config, pipes, adapter, outcome, jobs>>

(* _raise_if_canceled, before any model is touched.                        *)
Begin ==
  /\ At("dequeued")
  /\ IF job.cancel THEN Ends("canceled") ELSE Go("resolve")
  /\ UNCHANGED <<config, pipes, adapter, jobs>>

Resolve ==
  /\ At("resolve")
  /\ IF Up THEN Go(IF Route = "inpaint" THEN "inpaint" ELSE "switch") /\ UNCHANGED pipes
           ELSE pipes' = Evicted /\ Go("load")
  /\ UNCHANGED <<config, adapter, jobs>>

(* Why a loader refuses before it downloads: HiDream's runner takes its own*)
(* weights and one stack, the video engines want their slot, LTX a disk.   *)
Refusal ==
  CASE Route = "image" /\ Asked = "hidream" /\ ~Has("stack")   -> {"stack"}
    [] Route = "image" /\ Asked = "hidream" /\ ~Has("hidream") -> {"not_hidream"}
    [] Route \in Video /\ Asked # "wan" /\ ~Has(Asked)         -> {"unconfigured"}
    [] Route \in Video /\ Asked = "ltx" /\ Has("ltx")          -> {"loaded", "no_disk", "no_load"}
    [] OTHER                                                   -> {"loaded", "no_load"}

(* An adapter belongs to one model: the quality slot, the edit model, Wan. *)
Lightning ==
  CASE Route = "image"               -> Asked = "quality" /\ Has("image_lora")
    [] Route \in Edits -> Has("edit_lora")
    [] OTHER                         -> Asked = "wan" /\ Has("video_lora")

LoadedImage(there) == [pipes EXCEPT !.image = ImageModel(Asked), !.image_variant = Asked,
                                    !.image_speed = there]
LoadedEdit(there)  == [pipes EXCEPT !.edit = "edit", !.edit_speed = there]
LoadedVideo(there) == [pipes EXCEPT !.video = <<Asked, Route>>, !.video_mode = Route,
                                    !.video_engine = Asked, !.video_speed = there]

(* The adapter is loaded and switched off; without it the model is as good.*)
Load ==
  /\ At("load")
  /\ \E how \in Refusal :
       IF how # "loaded" THEN Ends(how) /\ UNCHANGED <<pipes, adapter>>
       ELSE \E there \in (IF Lightning THEN BOOLEAN ELSE {FALSE}) :
              /\ pipes' = CASE Route = "image"   -> LoadedImage(there)
                              [] Route \in Edits  -> LoadedEdit(there)
                              [] OTHER            -> LoadedVideo(there)
              /\ adapter' = [there |-> there, on |-> FALSE]
              /\ Go(IF Route = "inpaint" THEN "inpaint" ELSE "switch")
  /\ UNCHANGED <<config, jobs>>

(* The masked pipeline shares the modules of the edit model; one that could*)
(* not be built is not tried again until the edit model is loaded anew.    *)
EditInpaint ==
  /\ At("inpaint")
  /\ \E built \in (IF ~Has("inpaint") THEN {FALSE} ELSE
                   IF pipes.edit_inpaint = None THEN BOOLEAN ELSE {pipes.edit_inpaint}) :
       /\ pipes' = [pipes EXCEPT !.edit_inpaint = built]
       /\ IF built THEN Go("switch") ELSE Ends("no_inpaint")
  /\ UNCHANGED <<config, adapter, jobs>>

(* _require_speed and _set_speed; Hunyuan has neither.                     *)
SpeedLoaded == CASE Route = "image" -> pipes.image_speed
                 [] Route \in Edits -> pipes.edit_speed
                 [] OTHER -> pipes.video_speed
Switch ==
  /\ At("switch")
  /\ CASE Route \in Video /\ Asked = "hunyuan" -> Go("denoise") /\ UNCHANGED adapter
       [] Speed /\ ~SpeedLoaded               -> Ends("no_speed") /\ UNCHANGED adapter
       [] OTHER -> Go("denoise") /\ adapter' = [adapter EXCEPT !.on = Speed /\ adapter.there]
  /\ UNCHANGED <<config, pipes, jobs>>

(* A canceled pipeline returns early and normally; it is not a result.     *)
Finishes ==
  \/ IF job.cancel THEN Ends("canceled")
     ELSE /\ job' = NoJob
          /\ outcome' = [how |-> "done", request |-> job.request, model |-> Resident,
                         fast |-> adapter.on, had |-> job.had]
  \/ Ends("failed")

RunImage == At("denoise") /\ Route = "image" /\ Finishes /\ UNCHANGED <<config, pipes, adapter, jobs>>
RunEdit  == At("denoise") /\ Route \in Edits /\ Finishes /\ UNCHANGED <<config, pipes, adapter, jobs>>

(* A last frame the model has no use for is refused, never dropped.        *)
UsesLast == Has("flf2v") /\ Asked = "wan" /\ Route = "i2v"
RunVideo ==
  /\ At("denoise") /\ Route \in Video
  /\ IF job.request.last /\ ~UsesLast THEN Ends("no_last_frame") ELSE Finishes
  /\ UNCHANGED <<config, pipes, adapter, jobs>>

Next == Take \/ Cancel \/ Begin \/ Resolve \/ Load \/ EditInpaint \/ Switch
        \/ RunImage \/ RunEdit \/ RunVideo

Spec == Init /\ [][Next]_vars

-----------------------------------------------------------------------------
(* Whatever ran before it, was canceled or failed to load: what a finished *)
(* job made was made by the model its request means, and with an adapter   *)
(* exactly when its steps were cut for one (worker/pipelines.py).          *)
RunsAsRequested ==
  outcome.how = "done" =>
    /\ outcome.fast = outcome.request.speed
    /\ outcome.model = CASE outcome.request.route = "image" -> ImageModel(outcome.request.variant)
                         [] outcome.request.route \in Edits -> "edit"
                         [] OTHER -> <<outcome.request.variant, outcome.request.route>>

=============================================================================
