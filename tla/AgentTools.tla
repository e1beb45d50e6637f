------------------------------- MODULE AgentTools -------------------------------
(***************************************************************************)
(* The MCP tools an agent calls (agent/mcp_server.py over agent/core.py    *)
(* and agent/studio_tools.py): generate, edit and the recipe and preset    *)
(* runs submit a job and may wait for it, get_job and wait_job look at one,*)
(* cancel_job says what became of one, import_mask and edit store images.  *)
(* A tool is a coroutine: between two of its awaits other tools run, the   *)
(* lane picks, starts and ends jobs, and a key may be used up. The lane is *)
(* JobLanes reduced to what a tool can see of it; how a job is submitted   *)
(* under a key is Submission.                                              *)
(***************************************************************************)
EXTENDS Naturals, FiniteSets, Sequences, SequencesExt

CONSTANTS
  Calls,        \* tool calls that may be made
  Keys, NoKey,  \* request ids, and the absence of one
  ImageLists,   \* what an edit may be given: sequences of values
  Masks,        \* the masks: "none" or a value
  Slices,       \* bound: how often a wait looks again before its time is up
  MaxJobs       \* bound: jobs ever queued

VARIABLES
  calls,  \* each call: where it is, what it was asked, what it stored, its answer
  jobs,   \* the jobs by id: their row, where the lane has them, what happened
  lane    \* which lane takes them, "local" or "remote"

vars == <<calls, jobs, lane>>

Idle == [at |-> "idle", tool |-> "none", key |-> NoKey, dry |-> FALSE, wait |-> FALSE,
         values |-> <<>>, left |-> <<>>, stored |-> 0, repeat |-> FALSE, job |-> 0,
         looks |-> 0, before |-> "none", answer |-> "none"]

Init ==
  /\ calls = [c \in Calls |-> Idle]
  /\ jobs = <<>>
  /\ lane \in {"local", "remote"}

Terminal == {"done", "error", "canceled"}
Settled(j) == jobs[j].status \in Terminal

Goes(c, rec) == calls' = [calls EXCEPT ![c] = rec]
Answers(c, rec, answer) == Goes(c, [rec EXCEPT !.at = "answered", !.answer = answer,
                                              !.looks = 0, !.left = <<>>])

\* The job a key was used for.
Prior(key) == {j \in DOMAIN jobs : key # NoKey /\ jobs[j].key = key}
Job(key) == CHOOSE j \in Prior(key) : TRUE

-----------------------------------------------------------------------------
(* Images: "id" a gallery image, "gone" an id that names none, "data" a     *)
(* good data URL, "odd" one the kind will not take (a mask of another       *)
(* size), "http" a link, "broken" bytes that are no image                   *)

\* A number stands for itself, anything else has to be a data URL.
IsId(v) == v \in {"id", "gone"}

\* decode_data_url and validate_image_bytes.
Decodes(v) == v \notin {"http", "broken"}

\* The rules of the kind, over what was prepared.
Takes(values) == \A i \in DOMAIN values : values[i] \notin {"gone", "odd"}

-----------------------------------------------------------------------------
(* The answer a submission is given *)

\* _present: a dry run is shown, a job is looked at once or waited for.
Present(c, rec, j, dry) ==
  IF dry THEN Answers(c, [rec EXCEPT !.job = j], "dry")
  ELSE IF rec.wait THEN Goes(c, [rec EXCEPT !.at = "waiting", !.job = j, !.looks = Slices])
  ELSE Answers(c, [rec EXCEPT !.job = j],
               IF j \in DOMAIN jobs /\ Settled(j) THEN "settled" ELSE "unsettled")

\* generate, run_recipe, run_preset and replay_job have nothing to prepare:
\* their key is asked about when they submit.
Run(c) ==
  /\ calls[c].at = "idle"
  /\ \E key \in Keys \union {NoKey}, dry \in BOOLEAN, wait \in BOOLEAN :
       Goes(c, [Idle EXCEPT !.at = "submitting", !.tool = "run", !.key = key,
                            !.dry = dry, !.wait = wait, !.repeat = Prior(key) # {}])
  /\ UNCHANGED <<jobs, lane>>

\* edit asks about its key before it looks at an image.
Edit(c) ==
  /\ calls[c].at = "idle"
  /\ \E key \in Keys \union {NoKey}, dry \in BOOLEAN, images \in ImageLists, mask \in Masks :
       LET values == IF mask = "none" THEN images ELSE Append(images, mask)
           rec == [Idle EXCEPT !.tool = "edit", !.key = key, !.dry = dry, !.wait = TRUE,
                               !.values = values, !.left = values, !.repeat = Prior(key) # {}]
       IN IF Prior(key) # {} THEN Present(c, rec, Job(key), dry)
          ELSE Goes(c, [rec EXCEPT !.at = "preparing"])
  /\ UNCHANGED <<jobs, lane>>

\* One value at a time: an id stands as it is; a data URL is stored, or for a
\* dry run only decoded. What was stored before a value is refused stays.
PrepareImage(c) ==
  /\ calls[c].at = "preparing" /\ calls[c].left # <<>>
  /\ LET rec == calls[c]
         v == Head(rec.left)
         next == [rec EXCEPT !.left = Tail(@)]
     IN IF IsId(v) THEN Goes(c, next)
        ELSE IF ~Decodes(v) THEN Answers(c, rec, "refused")
        ELSE IF rec.dry THEN Goes(c, next)
        ELSE Goes(c, [next EXCEPT !.stored = @ + 1])
  /\ UNCHANGED <<jobs, lane>>

\* With every image prepared: a dry run with an image that is not stored is
\* judged in memory, its key first; anything else is submitted.
Prepared(c) ==
  /\ calls[c].at = "preparing" /\ calls[c].left = <<>>
  /\ LET rec == calls[c] IN
     IF rec.dry /\ \E i \in DOMAIN rec.values : ~IsId(rec.values[i])
       THEN IF Prior(rec.key) # {} THEN Present(c, rec, Job(rec.key), TRUE)
            ELSE IF Takes(rec.values) THEN Present(c, rec, 0, TRUE)
            ELSE Answers(c, rec, "refused")
       ELSE Goes(c, [rec EXCEPT !.at = "submitting"])
  /\ UNCHANGED <<jobs, lane>>

NewJob(key) == [key |-> key, status |-> "queued", place |-> "pending", stop |-> FALSE,
                ran |-> FALSE, late |-> FALSE]

\* POST /api/jobs: a used key answers its job; the rules of the kind; a dry run
\* stops there; one row for one image, a row per image for a fan-out, whose
\* first is the one the tool looks at.
Submit(c) ==
  /\ calls[c].at = "submitting"
  /\ LET rec == calls[c]
         made == Len(jobs) + 1
     IN \/ /\ Prior(rec.key) # {}
           /\ Present(c, rec, Job(rec.key), rec.dry)
           /\ UNCHANGED jobs
        \/ /\ Prior(rec.key) = {} /\ ~Takes(rec.values)
           /\ Answers(c, rec, "refused") /\ UNCHANGED jobs
        \/ /\ Prior(rec.key) = {} /\ Takes(rec.values) /\ rec.dry
           /\ Present(c, rec, 0, TRUE) /\ UNCHANGED jobs
        \/ /\ Prior(rec.key) = {} /\ Takes(rec.values) /\ ~rec.dry
           /\ \E n \in 1..2 :
                /\ n = 2 => (rec.tool = "run" /\ lane = "remote")
                /\ Len(jobs) + n <= MaxJobs
                /\ jobs' = jobs \o <<NewJob(rec.key)>>
                                \o [i \in 1..(n - 1) |-> NewJob(NoKey)]
           /\ Present(c, rec, made, FALSE)
  /\ UNCHANGED lane

-----------------------------------------------------------------------------
(* Waiting and looking *)

\* get_job and wait_job; the latter waits as a submission does, on one job.
Look(c) ==
  /\ calls[c].at = "idle"
  /\ \E j \in DOMAIN jobs, wait \in BOOLEAN :
       Present(c, [Idle EXCEPT !.tool = "look", !.wait = wait], j, FALSE)
  /\ UNCHANGED <<jobs, lane>>

\* _wait_first: one look of job_api's poll. The row and its images are read
\* together, and the last look is taken when the time is up.
Poll(c) ==
  /\ calls[c].at = "waiting"
  /\ LET rec == calls[c] IN
     IF Settled(rec.job) THEN Answers(c, rec, "settled")
     ELSE IF rec.looks = 0 THEN Answers(c, rec, "unsettled")
     ELSE Goes(c, [rec EXCEPT !.looks = @ - 1])
  /\ UNCHANGED <<jobs, lane>>

-----------------------------------------------------------------------------
(* Canceling *)

\* queue.cancel: a job the lane is executing is only flagged; one it is not is
\* canceled in its row.
QueueCancel(job) ==
  IF job.place = "inflight" THEN [job EXCEPT !.stop = TRUE]
  ELSE [job EXCEPT !.stop = TRUE, !.status = "canceled", !.late = job.place = "picked"]

\* What the tool says of the status it reads last.
Mutant_Verdict(before, status) ==
  IF before = "queued" THEN "removed_from_queue" ELSE "canceled"

Verdict(before, status) ==
  IF status \notin Terminal THEN "cancellation_requested"
  ELSE IF before = "queued" THEN "removed_from_queue"
  ELSE IF status = "canceled" THEN "canceled" ELSE "settled_otherwise"

\* cancel: the row's status, the queue's cancel and a second look, with nothing
\* in between; then it may wait for the row to settle.
Cancel(c) ==
  /\ calls[c].at = "idle"
  /\ \E j \in DOMAIN jobs, wait \in BOOLEAN :
       LET rec == [Idle EXCEPT !.tool = "cancel", !.job = j, !.before = jobs[j].status]
           job == QueueCancel(jobs[j])
       IN IF Settled(j) THEN Answers(c, rec, "already_settled") /\ UNCHANGED jobs
          ELSE /\ jobs' = [jobs EXCEPT ![j] = job]
               /\ IF job.status \in Terminal \/ ~wait
                    THEN Answers(c, rec, Verdict(rec.before, job.status))
                    ELSE Goes(c, [rec EXCEPT !.at = "canceling"])
  /\ UNCHANGED lane

\* The wait ends when the row has settled, or when its time is up.
CancelEnds(c) ==
  /\ calls[c].at = "canceling"
  /\ Answers(c, calls[c], Verdict(calls[c].before, jobs[calls[c].job].status))
  /\ UNCHANGED <<jobs, lane>>

-----------------------------------------------------------------------------
(* Masks and bytes *)

\* import_mask: within the cap, an image, of its source's size if it names one
\* ("odd" is not), and only then stored.
ImportMask(c) ==
  /\ calls[c].at = "idle"
  /\ \E v \in {"data", "odd", "http", "broken"}, source \in {"none", "id", "gone"} :
       LET rec == [Idle EXCEPT !.tool = "mask"] IN
       IF ~Decodes(v) \/ source = "gone" \/ (source = "id" /\ v = "odd")
         THEN Answers(c, rec, "refused")
         ELSE Answers(c, [rec EXCEPT !.stored = 1], "stored")
  /\ UNCHANGED <<jobs, lane>>

\* fetch_asset and fetch_artifact give the bytes of a stored image whose file
\* is there and within the cap, and otherwise the link to use.
Fetch(c) ==
  /\ calls[c].at = "idle"
  /\ \E file \in {"image", "video", "missing", "too_large", "gone"} :
       Answers(c, [Idle EXCEPT !.tool = "fetch"], IF file = "image" THEN "bytes" ELSE "refused")
  /\ UNCHANGED <<jobs, lane>>

-----------------------------------------------------------------------------
(* The lane, as a tool sees it *)

Free == \A j \in DOMAIN jobs : jobs[j].place \notin {"picked", "inflight"}
Becomes(j, job) == jobs' = [jobs EXCEPT ![j] = job] /\ UNCHANGED <<calls, lane>>

\* The lane takes the next entry; one whose row is no longer queued is dropped.
Drop(j) ==
  /\ jobs[j].place = "pending" /\ jobs[j].status # "queued"
  /\ Becomes(j, [jobs[j] EXCEPT !.place = "out", !.stop = FALSE])

\* The local lane starts what it picks in the same breath; the remote lane
\* makes a task of it, which starts at a later turn of the loop.
Pick(j) ==
  /\ jobs[j].place = "pending" /\ jobs[j].status = "queued" /\ Free
  /\ IF lane = "remote" THEN Becomes(j, [jobs[j] EXCEPT !.place = "picked"])
     ELSE Becomes(j, [jobs[j] EXCEPT !.place = "inflight", !.status = "running", !.ran = TRUE])

\* The task marks the row running, whatever the row says by then.
Start(j) ==
  /\ jobs[j].place = "picked"
  /\ Becomes(j, [jobs[j] EXCEPT !.place = "inflight", !.status = "running", !.ran = TRUE])

\* The job ends: done or failed, or canceled if it was flagged and reported
\* progress since.
End(j, status) ==
  /\ jobs[j].place = "inflight"
  /\ status = "canceled" => jobs[j].stop
  /\ Becomes(j, [jobs[j] EXCEPT !.place = "out", !.status = status, !.stop = FALSE])

Next ==
  \/ \E c \in Calls : \/ Run(c) \/ Edit(c) \/ PrepareImage(c) \/ Prepared(c) \/ Submit(c)
                      \/ Look(c) \/ Poll(c) \/ Cancel(c) \/ CancelEnds(c)
                      \/ ImportMask(c) \/ Fetch(c)
  \/ \E j \in DOMAIN jobs : \/ Drop(j) \/ Pick(j) \/ Start(j)
                            \/ \E s \in Terminal : End(j, s)

Spec == Init /\ [][Next]_vars

-----------------------------------------------------------------------------
(* Properties *)

\* A call that stored an image was asked to do something, under a key that was
\* free when it began.
StoresWhenAsked ==
  \A c \in Calls : calls[c].stored > 0 => ~calls[c].dry /\ ~calls[c].repeat

\* What cancel_job answered is what became of the job: it is canceled, or it
\* ended otherwise; one that was removed from the queue has not run unless it
\* was canceled between the remote lane's pick and its start; and one that was
\* asked to stop stays asked until it ends.
CancelTold ==
  \A c \in Calls :
    LET answer == calls[c].answer
        job == jobs[calls[c].job]
    IN calls[c].job # 0 =>
       /\ answer = "canceled" => job.status = "canceled"
       /\ answer = "settled_otherwise" => job.status \in {"done", "error"}
       /\ answer = "removed_from_queue" => (job.status = "canceled" /\ ~job.ran) \/ job.late
       /\ answer = "cancellation_requested" => job.stop \/ job.status \in Terminal

\* A settled answer is about a row that stays as it was told.
SettledTold ==
  \A c \in Calls :
    calls[c].answer \in {"settled", "already_settled"} =>
      Settled(calls[c].job) \/ jobs[calls[c].job].late

\* A tool's answer is true (studio_tools.cancel says a running job is not
\* canceled until it settles, mcp_server.edit that a dry run adds nothing to
\* the gallery and that a used key is answered before any import), whatever
\* the lane and the other tools do while it awaits.
ToolsTellTheTruth == StoresWhenAsked /\ CancelTold /\ SettledTold

=============================================================================
