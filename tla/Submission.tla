----------------------------- MODULE Submission -----------------------------
(***************************************************************************)
(* How a request becomes a job: the upload routes, POST /api/jobs in its   *)
(* kind and preset forms, the OpenAI-compatible images routes, the MCP     *)
(* tools and exact replay, with their idempotency keys; and how a job made *)
(* from an execution plan is admitted again when its turn comes.           *)
(*                                                                         *)
(* Handlers of requests are coroutines of one event loop: a step runs to   *)
(* the next await.  Beside them the rest of the world changes what a plan  *)
(* was made for: the owner points a model slot elsewhere, an adapter file  *)
(* is replaced and the library scanned, the remote session is replaced by  *)
(* one of another build, which only a health check notices.                *)
(*                                                                         *)
(* A body stands for the settings and inputs of a request, and for its     *)
(* digest.  The lanes that run the jobs are in JobLanes.                   *)
(***************************************************************************)
EXTENDS Naturals, Sequences

CONSTANTS
  Calls,        \* requests in flight, one each
  Keys,         \* idempotency keys
  NoKey,        \* a request without one
  Forms,        \* the ways in that may be used
  MaxJobs,      \* bound on job rows
  MaxChanges    \* bound on changes to slots, files and the worker

VARIABLES
  jobs,         \* the job rows, in the order of their ids
  call,         \* the requests
  previewed,    \* _RECENT: plans a dry run returned
  library,      \* images imported for edits, per call
  slot,         \* target -> the model its slot serves
  file,         \* the adapter file: what it holds, when it was written
  install,      \* the catalogue's row of that file
  scan,         \* scan_library: where it is, the stat and digest it holds
  worker,       \* the remote session: reachable, build
  health,       \* _LAST_HEALTH
  changes       \* changes so far

world == <<slot, file, install, scan, worker, health, changes>>
vars  == <<jobs, call, previewed, library, world>>

Bodies  == {"plain", "styled", "fan"}   \* the last fans out into two jobs
Targets == {"local", "remote"}
NoPlan  == [target |-> "none", model |-> 0, adapter |-> 0, build |-> 0]
NoCall  == [at |-> "idle", form |-> "", key |-> NoKey, body |-> "plain",
            answer |-> 0, plan |-> NoPlan, expect |-> NoPlan]

(* Contents of the adapter file, and models, are numbered by the change    *)
(* that brought them; 99 is a content no plan names.                       *)
TypeOK ==
  /\ Len(jobs) <= MaxJobs + 1
  /\ \A c \in Calls : /\ call[c].at \in {"idle", "check", "settings", "region", "gate", "prepare", "import",
                                         "context", "resolve", "submit", "make", "wait", "over",
                                         "refused", "late"}
                      /\ call[c].answer \in 0 .. Len(jobs)
  /\ slot \in [Targets -> Nat] /\ changes \in 0 .. MaxChanges

Init ==
  /\ jobs = <<>>
  /\ call = [c \in Calls |-> NoCall]
  /\ previewed = {} /\ library = [c \in Calls |-> 0]
  /\ slot = [t \in Targets |-> 0]
  /\ file = [holds |-> 0, mtime |-> 0]
  /\ install = [holds |-> 99, mtime |-> 99]
  /\ scan = [at |-> "idle", mtime |-> 0, digest |-> 0]
  /\ worker = [up |-> TRUE, build |-> 1] /\ health = [connected |-> TRUE, build |-> 1]
  /\ changes = 0

-----------------------------------------------------------------------------
(* Rows.  A row has the key column of the request that owns it; the        *)
(* siblings of a fan-out have none.  `of` is history: the request's key.   *)

Row(owner, of, group, body, plan) ==
  [owner |-> owner, of |-> of, group |-> group, body |-> body, plan |-> plan,
   status |-> "queued", ran |-> NoPlan]

Owners(key) == {j \in DOMAIN jobs : key # NoKey /\ jobs[j].owner = key}
Owner(key)  == CHOOSE j \in Owners(key) : TRUE

Moves(c, where) == call' = [call EXCEPT ![c].at = where]
Answers(c, where, j) ==
  call' = [call EXCEPT ![c].at = where, ![c].answer = j, ![c].plan = NoPlan, ![c].expect = NoPlan,
             ![c].body = IF call[c].form = "plan" THEN @ ELSE "plain"]
Refuses(c) == call' = [call EXCEPT ![c] = [NoCall EXCEPT !.at = "refused"]]

(* Who waits for the job's outcome before answering.                       *)
Accepted(c) == IF call[c].form \in {"openai", "mcp_edit"} THEN "wait" ELSE "over"

(* Mutant: the key is looked up before the row is written, not with it.    *)
Mutant_CreateOnce(c, group, plan) ==
  /\ Len(jobs) < MaxJobs
  /\ jobs' = Append(jobs, Row(call[c].key, call[c].key, group, call[c].body, plan))
  /\ Answers(c, Accepted(c), Len(jobs) + 1)

(* create_job_once, and the answer of submit: the unique index decides.    *)
CreateOnce(c, group, plan) ==
  IF Owners(call[c].key) # {}
    THEN Answers(c, Accepted(c), Owner(call[c].key)) /\ UNCHANGED jobs
    ELSE /\ Len(jobs) < MaxJobs
         /\ jobs' = Append(jobs, Row(call[c].key, call[c].key, group, call[c].body, plan))
         /\ Answers(c, Accepted(c), Len(jobs) + 1)

(* submit_fanout and submit_group: the first child owns the key, and       *)
(* nothing else runs between two children.                                 *)
FanOut(c) ==
  LET g == Len(jobs) + 1 IN
    IF Owners(call[c].key) # {}
      THEN Answers(c, Accepted(c), Owner(call[c].key)) /\ UNCHANGED jobs
      ELSE /\ Len(jobs) < MaxJobs
           /\ jobs' = jobs \o <<Row(call[c].key, call[c].key, g, "fan", NoPlan),
                                Row(NoKey, call[c].key, g, "fan", NoPlan)>>
           /\ Answers(c, Accepted(c), g)

-----------------------------------------------------------------------------
(* Requests.                                                               *)

(* A request arrives, its shape already judged.                            *)
Arrive(c) ==
  /\ call[c].at = "idle"
  /\ \E form \in Forms, key \in Keys \cup {NoKey}, body \in Bodies :
       /\ form \in {"plan", "dry_plan"} => body # "fan"
       /\ form \in {"refine", "openai", "mcp_edit"} => body = "plain"
       /\ \E expect \in {NoPlan} \cup (IF form = "plan" THEN previewed ELSE {}) :
            call' = [call EXCEPT ![c] =
              [NoCall EXCEPT !.form = form, !.key = key, !.body = body, !.expect = expect,
                 !.at = CASE form \in {"route", "replay"} -> "make"
                          [] form \in {"plan", "dry_plan"} -> "context"
                          [] OTHER -> "check"]]
  /\ UNCHANGED <<jobs, previewed, library, world>>

(* duplicate_of, asked before anything is stored.                          *)
Duplicate(c) ==
  /\ call[c].at = "check"
  /\ IF Owners(call[c].key) # {}
       THEN Answers(c, Accepted(c), Owner(call[c].key))
       ELSE Moves(c, CASE call[c].form = "openai" /\ library[c] = 0 -> "prepare"
                       [] call[c].form = "mcp_edit" /\ library[c] = 0 -> "import"
                       [] call[c].form = "refine" -> "region"
                       [] OTHER -> "settings")
  /\ UNCHANGED <<jobs, previewed, library, world>>

(* _create_job: settings, inputs and builders; a refusal names the setting.*)
Settings(c) ==
  /\ call[c].at = "settings"
  /\ Moves(c, "gate") \/ Refuses(c)
  /\ UNCHANGED <<jobs, previewed, library, world>>

(* _create_refine, _plan_refine: a sentence becomes a masked edit or a     *)
(* restyle; a region the image does not have is refused.                   *)
Region(c) ==
  /\ call[c].at = "region"
  /\ Moves(c, "gate") \/ Refuses(c)
  /\ UNCHANGED <<jobs, previewed, library, world>>

(* remote_gpu_status: an answer at most some seconds old.  A check that    *)
(* fails forgets the features; the build stays as it was.                  *)
Checked == \/ UNCHANGED health
           \/ health' = [connected |-> worker.up,
                         build |-> IF worker.up THEN worker.build ELSE health.build]

(* _require_runnable: local kinds pass at once, remote ones need an        *)
(* answering worker; the check may take a round trip.                      *)
Gate(c) ==
  /\ call[c].at = "gate"
  /\ \/ Moves(c, "make") /\ UNCHANGED health
     \/ Checked /\ IF health'.connected THEN Moves(c, "make") ELSE Refuses(c)
  /\ UNCHANGED <<jobs, previewed, library, slot, file, install, scan, worker, changes>>

(* An edit of the OpenAI routes: its images are decoded in memory and      *)
(* judged, the worker asked for, and the key looked up once more, before   *)
(* any is stored.                                                          *)
Prepare(c) ==
  /\ call[c].at = "prepare"
  /\ \/ Refuses(c) /\ UNCHANGED health
     \/ /\ Checked /\ health'.connected
        /\ IF Owners(call[c].key) # {} THEN Answers(c, "wait", Owner(call[c].key))
                                       ELSE Moves(c, "import")
  /\ UNCHANGED <<jobs, previewed, library, slot, file, install, scan, worker, changes>>

(* The images become assets on another thread; then the request is that    *)
(* of POST /api/jobs, key included.                                        *)
Import(c) ==
  /\ call[c].at = "import"
  /\ \/ library' = [library EXCEPT ![c] = 1] /\ Moves(c, "check")
     \/ UNCHANGED library /\ Refuses(c)
  /\ UNCHANGED <<jobs, previewed, world>>

(* submit, submit_tool, maybe_fanout, and the upload routes.               *)
Make(c) ==
  /\ call[c].at = "make" /\ call[c].form # "replay"
  /\ IF call[c].body = "fan" THEN FanOut(c) ELSE CreateOnce(c, Len(jobs) + 1, NoPlan)
  /\ UNCHANGED <<previewed, library, world>>

-----------------------------------------------------------------------------
(* Preset requests.                                                        *)

(* plan_context: the remote state is read once, before the resolver runs.  *)
PlanContext(c) ==
  /\ call[c].at = "context"
  /\ Checked
  /\ Moves(c, "resolve")
  /\ UNCHANGED <<jobs, previewed, library, slot, file, install, scan, worker, changes>>

(* What a body resolves to on a target; a styled one names the adapter by  *)
(* its first content, and no worker applies adapters.                      *)
Plan(body, t) ==
  [target |-> t, model |-> slot[t], adapter |-> IF body = "styled" THEN 0 ELSE 99,
   build |-> 0]
Ready(body, t) ==
  /\ t = "remote" => health.connected /\ body # "styled"
  /\ body = "styled" => install.holds = 0

(* resolve, on another thread.  A dry run answers with the plan.           *)
PlanResolve(c) ==
  /\ call[c].at = "resolve"
  /\ \/ \E t \in Targets :
          /\ Ready(call[c].body, t)
          /\ LET p == Plan(call[c].body, t) IN
               IF call[c].form = "dry_plan"
                 THEN Moves(c, "over") /\ previewed' = previewed \cup {p}
                 ELSE /\ call' = [call EXCEPT ![c].at = "submit", ![c].plan = p]
                      /\ UNCHANGED previewed
     \/ Refuses(c) /\ UNCHANGED previewed
  /\ UNCHANGED <<jobs, library, world>>

(* _backend_id: the build of the worker at this moment.                    *)
Bound(plan) ==
  [plan EXCEPT !.build = IF plan.target = "remote" THEN health.build ELSE 0]

(* submit_plan: the key's earlier request decides first, then the plan     *)
(* that was previewed; the row binds the build of the worker.              *)
SubmitPlan(c) ==
  /\ call[c].at = "submit"
  /\ \/ /\ \E j \in Owners(call[c].key) : jobs[j].plan # NoPlan /\ jobs[j].body = call[c].body
        /\ Answers(c, "over", Owner(call[c].key)) /\ UNCHANGED jobs
     \/ /\ \E j \in Owners(call[c].key) : jobs[j].plan = NoPlan \/ jobs[j].body # call[c].body
        /\ Refuses(c) /\ UNCHANGED jobs
     \/ /\ Owners(call[c].key) = {} /\ call[c].expect \notin {NoPlan, call[c].plan}
        /\ Refuses(c) /\ UNCHANGED jobs
     \/ /\ Owners(call[c].key) = {} /\ call[c].expect \in {NoPlan, call[c].plan}
        /\ CreateOnce(c, Len(jobs) + 1, Bound(call[c].plan))
  /\ UNCHANGED <<previewed, library, world>>

(* replay_problems: a slot still serves the model, and a copy of the       *)
(* adapter is installed.                                                   *)
Replayable(plan) ==
  /\ slot[plan.target] = plan.model
  /\ plan.adapter = 0 => install.holds = 0

(* replay_job: the plan of an earlier job, under the key of this request.  *)
Replay(c) ==
  /\ call[c].at = "make" /\ call[c].form = "replay"
  /\ \/ \E j \in DOMAIN jobs :
          /\ jobs[j].plan # NoPlan /\ Replayable(jobs[j].plan)
          /\ LET p == Bound(jobs[j].plan) IN
             IF Owners(call[c].key) # {}
               THEN /\ call' = [call EXCEPT ![c].at = "over", ![c].body = jobs[j].body,
                                            ![c].answer = Owner(call[c].key)]
                    /\ UNCHANGED jobs
               ELSE /\ Len(jobs) < MaxJobs
                    /\ jobs' = Append(jobs, Row(call[c].key, call[c].key, Len(jobs) + 1,
                                                jobs[j].body, p))
                    /\ call' = [call EXCEPT ![c].at = "over", ![c].body = jobs[j].body,
                                            ![c].answer = Len(jobs) + 1]
     \/ Refuses(c) /\ UNCHANGED jobs
  /\ UNCHANGED <<previewed, library, world>>

-----------------------------------------------------------------------------
(* Waiting for the answer.                                                 *)
Siblings(j) == {i \in DOMAIN jobs : jobs[i].group = jobs[j].group}

(* _wait_all of the OpenAI routes: every job of the submission, the first  *)
(* that failed or was late decides.                                        *)
WaitAll(c) ==
  /\ call[c].at = "wait" /\ call[c].form = "openai"
  /\ \/ \A i \in Siblings(call[c].answer) : jobs[i].status = "done" /\ Moves(c, "over")
     \/ \E i \in Siblings(call[c].answer) : jobs[i].status = "stale" /\ Refuses(c)
     \/ Moves(c, "late")
  /\ UNCHANGED <<jobs, previewed, library, world>>

(* _wait_first of the MCP tools: the first job, settled or not in time.    *)
WaitFirst(c) ==
  /\ call[c].at = "wait" /\ call[c].form = "mcp_edit"
  /\ \/ jobs[call[c].answer].status \in {"done", "stale"} /\ Moves(c, "over")
     \/ Moves(c, "late")
  /\ UNCHANGED <<jobs, previewed, library, world>>

-----------------------------------------------------------------------------
(* The job's turn.                                                         *)

(* _check_model and _check_adapters: the slot by name, the file by its     *)
(* install and the time it was written.                                    *)
ModelStands(plan)   == slot[plan.target] = plan.model
AdapterStands(plan) ==
  plan.adapter = 0 => install.holds = plan.adapter /\ install.mtime = file.mtime
BuildStands(plan) ==
  plan.target = "remote" /\ plan.build # 0 /\ health.build # 0 => health.build = plan.build

(* admit_at_dispatch.  What the job then runs with is on disk, in the slot *)
(* and on the worker, wherever the check looked.                           *)
Dispatch(j) ==
  /\ jobs[j].status = "queued"
  /\ LET plan == jobs[j].plan IN
       IF plan = NoPlan \/ (ModelStands(plan) /\ AdapterStands(plan) /\ BuildStands(plan))
         THEN jobs' = [jobs EXCEPT ![j].status = "running",
                ![j].ran = [target |-> plan.target,
                            model |-> IF plan = NoPlan THEN 0 ELSE slot[plan.target],
                            adapter |-> IF plan.adapter = 0 THEN file.holds ELSE plan.adapter,
                            build |-> IF plan.target = "remote" /\ plan.build # 0
                                        THEN worker.build ELSE plan.build]]
         ELSE jobs' = [jobs EXCEPT ![j].status = "stale"]
  /\ UNCHANGED <<call, previewed, library, world>>

Settle(j) ==
  /\ jobs[j].status = "running"
  /\ jobs' = [jobs EXCEPT ![j].status = "done", ![j].ran = NoPlan]
  /\ UNCHANGED <<call, previewed, library, world>>

-----------------------------------------------------------------------------
(* The world: each change is a value never seen before, and a file gets a  *)
(* new time with its new content.                                          *)

Change == changes < MaxChanges /\ changes' = changes + 1

Reslot(t) ==
  /\ Change /\ slot' = [slot EXCEPT ![t] = changes + 1]
  /\ UNCHANGED <<jobs, call, previewed, library, file, install, scan, worker, health>>

(* The adapter file is written again.                                      *)
Replace ==
  /\ Change /\ file' = [holds |-> changes + 1, mtime |-> changes + 1]
  /\ UNCHANGED <<jobs, call, previewed, library, slot, install, scan, worker, health>>

Session ==
  /\ Change
  /\ worker' = [up |-> ~worker.up, build |-> IF worker.up THEN worker.build ELSE changes + 1]
  /\ UNCHANGED <<jobs, call, previewed, library, slot, file, install, scan, health>>

(* A browser polls /api/system.                                            *)
Poll ==
  /\ Checked
  /\ UNCHANGED <<jobs, call, previewed, library, slot, file, install, scan, worker, changes>>

(* scan_library, one file: the stat is taken, then the bytes are read,     *)
(* then both are recorded.                                                 *)
ScanStat ==
  /\ scan.at = "idle" /\ install.mtime # file.mtime
  /\ scan' = [at |-> "hash", mtime |-> file.mtime, digest |-> 0]
  /\ UNCHANGED <<jobs, call, previewed, library, slot, file, install, worker, health, changes>>

ScanHash ==
  /\ scan.at = "hash"
  /\ scan' = [scan EXCEPT !.at = "record", !.digest = file.holds]
  /\ UNCHANGED <<jobs, call, previewed, library, slot, file, install, worker, health, changes>>

ScanRecord ==
  /\ scan.at = "record"
  /\ install' = [holds |-> scan.digest, mtime |-> scan.mtime]
  /\ scan' = [at |-> "idle", mtime |-> 0, digest |-> 0]
  /\ UNCHANGED <<jobs, call, previewed, library, slot, file, worker, health, changes>>

(* The process dies and comes back: requests go unanswered, previews and   *)
(* the health it knew are forgotten, running jobs end as interrupted and   *)
(* queued ones wait on.                                                    *)
Dies(rows) ==
  /\ Change
  /\ jobs' = [j \in DOMAIN rows |->
                IF rows[j].status = "running" THEN [rows[j] EXCEPT !.status = "stale", !.ran = NoPlan] ELSE rows[j]]
  /\ call' = [c \in Calls |-> IF call[c].at \in {"idle", "over", "refused", "late"} THEN call[c]
                              ELSE [NoCall EXCEPT !.at = "refused"]]
  /\ previewed' = {} /\ health' = [connected |-> FALSE, build |-> 0]
  /\ scan' = [at |-> "idle", mtime |-> 0, digest |-> 0]
  /\ UNCHANGED <<library, slot, file, install, worker>>

(* A fan-out may be cut short between the rows of its children.            *)
Restart ==
  \/ Dies(jobs)
  \/ \E c \in Calls :
       /\ call[c].at = "make" /\ call[c].body = "fan" /\ Owners(call[c].key) = {}
       /\ Len(jobs) < MaxJobs
       /\ Dies(Append(jobs, Row(call[c].key, call[c].key, Len(jobs) + 1, "fan", NoPlan)))

Next ==
  \/ \E c \in Calls :
       \/ Arrive(c) \/ Duplicate(c) \/ Settings(c) \/ Region(c) \/ Gate(c)
       \/ Prepare(c) \/ Import(c) \/ Make(c)
       \/ PlanContext(c) \/ PlanResolve(c) \/ SubmitPlan(c) \/ Replay(c)
       \/ WaitAll(c) \/ WaitFirst(c)
  \/ \E j \in DOMAIN jobs : Dispatch(j) \/ Settle(j)
  \/ \E t \in Targets : Reslot(t)
  \/ Restart \/ Replace \/ Session \/ Poll \/ ScanStat \/ ScanHash \/ ScanRecord

Spec == Init /\ [][Next]_vars

-----------------------------------------------------------------------------
(* A key makes one submission: whatever ways in its retries took, and      *)
(* whatever they waited for, the rows made under it are one group, and     *)
(* every request that was accepted with it was answered with that group.   *)
OneSubmission ==
  /\ \A i, j \in DOMAIN jobs :
       jobs[i].of # NoKey /\ jobs[i].of = jobs[j].of => jobs[i].group = jobs[j].group
  /\ \A c \in Calls :
       call[c].answer # 0 /\ call[c].key # NoKey => jobs[call[c].answer].of = call[c].key

(* A preset request is answered with a job of that request and no other.   *)
AnsweredByItsOwn ==
  \A c \in Calls :
    call[c].form = "plan" /\ call[c].answer # 0 =>
      jobs[call[c].answer].body = call[c].body /\ jobs[call[c].answer].plan # NoPlan

(* A preset job that started on the local card runs the model and the very *)
(* bytes of the adapter its plan names, though slots, files and the        *)
(* catalogue changed while it was queued.                                  *)
LocalRunsAsPlanned ==
  \A j \in DOMAIN jobs :
    jobs[j].plan.target = "local" /\ jobs[j].status = "running" => jobs[j].ran = jobs[j].plan

(* A request, repeated or not, is one submission, its own, and what was    *)
(* planned for this machine is what runs on it.                            *)
DoneAsAsked == OneSubmission /\ AnsweredByItsOwn /\ LocalRunsAsPlanned
=============================================================================
