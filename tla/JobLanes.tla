------------------------------ MODULE JobLanes ------------------------------
(***************************************************************************)
(* The two job lanes of backend/app/queue.py over the durable job rows of  *)
(* backend/app/db.py: submission, cooperative cancel and skip, the serial  *)
(* local lane, the remote lane whose finishing phase overlaps the next     *)
(* job, the one transient retry, and what a crash and a restart do to it.  *)
(*                                                                         *)
(* Two kinds of threads act.  The asyncio loop runs the lane workers, the  *)
(* per-job tasks and the HTTP handlers; one of its steps runs from one     *)
(* suspension point to the next and is one action here.  A handler runs in *)
(* a thread of its own (asyncio.to_thread) and interleaves with the loop   *)
(* at every call it makes back into the queue or the database.             *)
(*                                                                         *)
(* Which of its live candidates a lane picks is left open here; LaneOrder  *)
(* models that choice.  An operator Mutant_X is X as a plausible bug would *)
(* have it; the runs use X.                                                *)
(***************************************************************************)
EXTENDS Naturals

CONSTANTS
  Jobs,         (* The ids a job row can have.                             *)
  LocalJobs,    (* Those whose kind is in _LOCAL_KINDS.                    *)
  Attempts,     (* TRANSIENT_ATTEMPTS: handler runs per job, at most.      *)
  MaxCrashes,   (* Bound on how often the process dies.                    *)
  NoJob         (* Python's None where a job id could stand.               *)

ASSUME LocalAssumption    == LocalJobs \subseteq Jobs
ASSUME AttemptsAssumption == Attempts \in Nat \ {0}
ASSUME CrashAssumption    == MaxCrashes \in Nat
ASSUME NoJobAssumption    == NoJob \notin Jobs

VARIABLES
  (* Durable, in SQLite. *)
  status,       (* Job.status, or "absent" while no row has this id.       *)
  assets,       (* The attempts that committed an Asset row for the job.   *)
  result,       (* The attempts whose assets Job.result lists.             *)
  (* The process. *)
  up,           (* Whether the lanes run.                                  *)
  crashes,      (* How often the process died.                             *)
  (* In memory, per lane. *)
  pending,      (* _pending: accepted, not yet picked.                     *)
  wake,         (* _wake: the asyncio.Event.                               *)
  lane,         (* Where _run stands.                                      *)
  inflight,     (* _inflight: between the start and the end of _execute.   *)
  current,      (* _current: the job that started last.                    *)
  device,       (* _device_job of the remote lane.                         *)
  (* In memory, per job. *)
  exec,         (* Where the job's task or its handler thread stands.      *)
  attempt,      (* The handler run the retry loop is in.                   *)
  cancelled,    (* _CANCELLED.                                             *)
  skipped,      (* _SKIPPED.                                               *)
  acked         (* History: the jobs for which cancel() returned True.     *)

durable == <<status, assets, result>>
process == <<up, crashes>>
lanes   == <<pending, wake, lane, inflight, current, device>>
flags   == <<cancelled, skipped, acked>>
vars    == <<durable, process, lanes, exec, attempt, flags>>

-----------------------------------------------------------------------------
Lanes == {"local", "remote"}

LaneFor(j) == IF j \in LocalJobs THEN "local" ELSE "remote"

Terminal == {"done", "error", "canceled"}

Statuses == {"absent", "queued", "running"} \cup Terminal

(* "generate" and "finish" are the handler thread before and after it      *)
(* released the remote device; Outcomes are a thread that ended, its task  *)
(* not yet resumed by the loop.                                            *)
Outcomes  == {"ok", "cancel", "skip", "transient", "fatal"}
InHandler == {"generate", "finish"}
ExecState == {"none", "created", "backoff"} \cup InHandler \cup Outcomes

(* A job whose _execute has begun and has not reached its finally block.   *)
Executing(j) == exec[j] \notin {"none", "created"}

Init ==
  /\ status    = [j \in Jobs |-> "absent"]
  /\ assets    = [j \in Jobs |-> {}]
  /\ result    = [j \in Jobs |-> {}]
  /\ up        = TRUE
  /\ crashes   = 0
  /\ pending   = [l \in Lanes |-> {}]
  /\ wake      = [l \in Lanes |-> FALSE]
  /\ lane      = [l \in Lanes |-> "idle"]
  /\ inflight  = [l \in Lanes |-> {}]
  /\ current   = [l \in Lanes |-> NoJob]
  /\ device    = NoJob
  /\ exec      = [j \in Jobs |-> "none"]
  /\ attempt   = [j \in Jobs |-> 1]
  /\ cancelled = {}
  /\ skipped   = {}
  /\ acked     = {}

-----------------------------------------------------------------------------
(* Requests.  Each is one step of the loop.                                *)

(* _wake.set().                                                            *)
Mutant_Woken(l) == wake
Woken(l) == [wake EXCEPT ![l] = TRUE]

(* create_job_once commits the row, enqueue() puts it on its lane; nothing *)
(* between the two suspends.  The row may replace a failed one (Rerun).    *)
Enqueue(j) ==
  /\ status[j] = "absent"
  /\ pending' = [pending EXCEPT ![LaneFor(j)] = @ \cup {j}]
  /\ wake'    = Woken(LaneFor(j))
  /\ UNCHANGED <<assets, result, process, lane, inflight, current, device,
                 exec, attempt, flags>>

Submit(j) ==
  /\ up
  /\ Enqueue(j)
  /\ status' = [status EXCEPT ![j] = "queued"]

(* POST /jobs/{id}/rerun with reseed=False: once the new attempt is queued *)
(* the failed row leaves the ledger.                                       *)
Retry(old, new) ==
  /\ up
  /\ status[old] \in Statuses \ {"absent"}
  /\ Enqueue(new)
  /\ status' = [status EXCEPT ![new] = "queued",
                              ![old] = IF @ = "error" THEN "canceled" ELSE @]

(* cancel(): a job in flight is only flagged; any other unfinished row is  *)
(* resolved at once.  A terminal row changes nothing.                      *)
RunningHere(j) == \E l \in Lanes : j \in inflight[l] \/ current[l] = j

CancelRunning(j) ==
  /\ up
  /\ RunningHere(j)
  /\ cancelled' = cancelled \cup {j}
  /\ acked'     = acked \cup {j}
  /\ UNCHANGED <<durable, process, lanes, exec, attempt, skipped>>

Mutant_Cancelable(j) == status[j] # "absent"
Cancelable(j) == status[j] \in {"queued", "running"}

CancelWaiting(j) ==
  /\ up
  /\ ~RunningHere(j)
  /\ Cancelable(j)
  /\ status'    = [status EXCEPT ![j] = "canceled"]
  /\ cancelled' = cancelled \cup {j}
  /\ acked'     = acked \cup {j}
  /\ wake'      = Woken(LaneFor(j))
  /\ UNCHANGED <<assets, result, process, pending, lane, inflight, current,
                 device, exec, attempt, skipped>>

Skip(j) ==
  /\ up
  /\ RunningHere(j)
  /\ skipped' = skipped \cup {j}
  /\ UNCHANGED <<durable, process, lanes, exec, attempt, cancelled, acked>>

-----------------------------------------------------------------------------
(* The lane worker, JobQueue._run.                                         *)

(* _wake.wait() returns and clears the event.                              *)
Wakeup(l) ==
  /\ up
  /\ lane[l] = "idle" /\ wake[l]
  /\ wake' = [wake EXCEPT ![l] = FALSE]
  /\ lane' = [lane EXCEPT ![l] = "scan"]
  /\ UNCHANGED <<durable, process, pending, inflight, current, device, exec,
                 attempt, flags>>

Alive(l) == {j \in pending[l] : status[j] = "queued"}

(* The local worker scans whenever it is not awaiting a job.  The remote   *)
(* one resumes from sleep(0) behind the task it just created, and stops at *)
(* the test of _device_job while the device is taken.                      *)
Scanning(l) ==
  /\ up
  /\ lane[l] = "scan"
  /\ \A j \in Jobs \ LocalJobs : l = "remote" => exec[j] # "created"

(* What _pick forgets: the entries canceled while they waited.             *)
DropDead(l) == cancelled' = cancelled \ (pending[l] \ Alive(l))

(* _execute, up to the handler's thread.                                   *)
BeginExecute(j) ==
  /\ status'   = [status EXCEPT ![j] = "running"]
  /\ current'  = [current EXCEPT ![LaneFor(j)] = j]
  /\ inflight' = [inflight EXCEPT ![LaneFor(j)] = @ \cup {j}]
  /\ exec'     = [exec EXCEPT ![j] = "generate"]
  /\ attempt'  = [attempt EXCEPT ![j] = 1]

(* The local worker runs the job it picked within the same step.           *)
PickLocal ==
  /\ Scanning("local")
  /\ DropDead("local")
  /\ \E j \in Alive("local") :
       /\ pending' = [pending EXCEPT !["local"] = Alive("local") \ {j}]
       /\ BeginExecute(j)
  /\ lane' = [lane EXCEPT !["local"] = "busy"]
  /\ UNCHANGED <<assets, result, process, wake, device, skipped, acked>>

(* The remote worker hands the job to a new task, which the loop starts    *)
(* later: the row is still "queued" and the job in no lane's _inflight.    *)
PickRemote ==
  /\ Scanning("remote")
  /\ device = NoJob
  /\ DropDead("remote")
  /\ \E j \in Alive("remote") :
       /\ pending' = [pending EXCEPT !["remote"] = Alive("remote") \ {j}]
       /\ device'  = j
       /\ exec'    = [exec EXCEPT ![j] = "created"]
  /\ UNCHANGED <<durable, process, wake, lane, inflight, current, attempt,
                 skipped, acked>>

(* _execute_and_notify starts.  mark_running does not look at the row.     *)
StartTask(j) ==
  /\ up
  /\ exec[j] = "created"
  /\ BeginExecute(j)
  /\ UNCHANGED <<assets, result, process, pending, wake, lane, device, flags>>

(* Nothing to pick, or the device is taken: back to waiting.               *)
Rest(l) ==
  /\ Scanning(l)
  /\ IF l = "remote" /\ device # NoJob
     THEN UNCHANGED <<pending, cancelled>>
     ELSE /\ Alive(l) = {}
          /\ DropDead(l)
          /\ pending' = [pending EXCEPT ![l] = {}]
  /\ lane' = [lane EXCEPT ![l] = "idle"]
  /\ UNCHANGED <<durable, process, wake, inflight, current, device, exec,
                 attempt, skipped, acked>>

-----------------------------------------------------------------------------
(* The handler's thread.                                                   *)

HandlerEnds(j, outcome) ==
  /\ exec' = [exec EXCEPT ![j] = outcome]
  /\ UNCHANGED <<durable, process, lanes, attempt>>

(* progress_cb raises CancelledJob, or SkipItem after consuming its flag.  *)
ProgressCancels(j) ==
  /\ up
  /\ exec[j] \in InHandler
  /\ j \in cancelled
  /\ HandlerEnds(j, "cancel")
  /\ UNCHANGED flags

(* A batch handler catches SkipItem and goes on; in any other it ends the  *)
(* job.                                                                    *)
ProgressSkips(j) ==
  /\ up
  /\ exec[j] \in InHandler
  /\ j \in skipped \ cancelled
  /\ skipped' = skipped \ {j}
  /\ exec' \in {exec, [exec EXCEPT ![j] = "skip"]}
  /\ UNCHANGED <<durable, process, lanes, attempt, cancelled, acked>>

(* An Asset row is committed while the handler still runs.                 *)
CommitAsset(j) ==
  /\ up
  /\ exec[j] \in InHandler
  /\ assets' = [assets EXCEPT ![j] = @ \cup {attempt[j]}]
  /\ UNCHANGED <<status, result, process, lanes, exec, attempt, flags>>

(* release_device, called when the remote worker has returned.             *)
ReleaseDevice(j) ==
  /\ up
  /\ exec[j] = "generate"
  /\ j \notin LocalJobs
  /\ exec' = [exec EXCEPT ![j] = "finish"]
  /\ IF device = j
     THEN /\ device' = NoJob
          /\ wake'   = Woken("remote")
     ELSE UNCHANGED <<device, wake>>
  /\ UNCHANGED <<durable, process, pending, lane, inflight, current, attempt,
                 flags>>

(* The handler returns or raises.  The failures errors.classify calls      *)
(* transient come from reaching the remote service, before the release.    *)
HandlerStops(j) ==
  /\ up
  /\ exec[j] \in InHandler
  /\ \E outcome \in {"ok", "fatal", "transient"} :
       /\ outcome = "transient" => exec[j] = "generate"
       /\ HandlerEnds(j, outcome)
  /\ UNCHANGED flags

-----------------------------------------------------------------------------
(* The job's task, resumed by the loop.                                    *)

Mutant_MayRetry_Output(j) ==
  exec[j] = "transient" /\ j \notin LocalJobs /\ attempt[j] < Attempts
MayRetry(j) ==
  /\ exec[j] = "transient"
  /\ j \notin LocalJobs
  /\ attempt[j] < Attempts
  /\ assets[j] = {}

BackOff(j) ==
  /\ up
  /\ MayRetry(j)
  /\ exec' = [exec EXCEPT ![j] = "backoff"]
  /\ UNCHANGED <<durable, process, lanes, attempt, flags>>

(* The delay is slept in pieces; a cancel seen between two ends the job.   *)
BackOffCancels(j) ==
  /\ up
  /\ exec[j] = "backoff"
  /\ j \in cancelled
  /\ exec' = [exec EXCEPT ![j] = "cancel"]
  /\ UNCHANGED <<durable, process, lanes, attempt, flags>>

NextAttempt(j) ==
  /\ up
  /\ exec[j] = "backoff"
  /\ exec'    = [exec EXCEPT ![j] = "generate"]
  /\ attempt' = [attempt EXCEPT ![j] = @ + 1]
  /\ UNCHANGED <<durable, process, lanes, flags>>

(* The status _execute writes for the way the handler ended.               *)
FinalStatus(outcome) ==
  CASE outcome = "ok"                    -> "done"
    [] outcome \in {"cancel", "skip"}    -> "canceled"
    [] outcome \in {"transient", "fatal"} -> "error"

(* The outputs the row is told of: the handler's own answer, which names   *)
(* them all, or terminal_result(), which asks the asset rows.              *)
Mutant_TerminalResult(j) == IF exec[j] = "ok" THEN assets[j] ELSE result[j]
TerminalResult(j) == assets[j]

(* The finally blocks give up the device if this job still has it.         *)
Mutant_DeviceAfter(j) == NoJob
DeviceAfter(j) == IF device = j THEN NoJob ELSE device

(* The terminal write and the finally block, one step of the loop.         *)
Settle(j) ==
  LET l == LaneFor(j) IN
  /\ up
  /\ exec[j] \in Outcomes
  /\ ~MayRetry(j)
  /\ status'    = [status EXCEPT ![j] = FinalStatus(exec[j])]
  /\ result'    = [result EXCEPT ![j] = TerminalResult(j)]
  /\ exec'      = [exec EXCEPT ![j] = "none"]
  /\ attempt'   = [attempt EXCEPT ![j] = 1]
  /\ cancelled' = cancelled \ {j}
  /\ skipped'   = skipped \ {j}
  /\ inflight'  = [inflight EXCEPT ![l] = @ \ {j}]
  /\ current'   = [current EXCEPT ![l] = IF @ = j THEN NoJob ELSE @]
  /\ device'    = DeviceAfter(j)
  /\ wake'      = Woken(l)
  /\ lane'      = IF l = "local" THEN [lane EXCEPT ![l] = "scan"] ELSE lane
  /\ UNCHANGED <<assets, process, pending, acked>>

-----------------------------------------------------------------------------
(* The process dies: threads, tasks and memory go, the database stays.     *)
Crash ==
  /\ up /\ crashes < MaxCrashes
  /\ up'        = FALSE
  /\ crashes'   = crashes + 1
  /\ pending'   = [l \in Lanes |-> {}]
  /\ wake'      = [l \in Lanes |-> FALSE]
  /\ lane'      = [l \in Lanes |-> "idle"]
  /\ inflight'  = [l \in Lanes |-> {}]
  /\ current'   = [l \in Lanes |-> NoJob]
  /\ device'    = NoJob
  /\ exec'      = [j \in Jobs |-> "none"]
  /\ attempt'   = [j \in Jobs |-> 1]
  /\ cancelled' = {}
  /\ skipped'   = {}
  /\ UNCHANGED <<durable, acked>>

(* reconcile_orphans on one row.                                           *)
Mutant_Reconciled_Running(j) ==
  IF status[j] = "running" /\ assets[j] # {} THEN "done" ELSE status[j]
Mutant_Reconciled_Output(j) ==
  IF status[j] = "running" THEN "canceled" ELSE status[j]
Reconciled(j) ==
  IF status[j] # "running" THEN status[j]
  ELSE IF assets[j] # {} THEN "done" ELSE "canceled"

(* The lifespan's startup: running rows are reconciled, then the queued    *)
(* ones go back to their lanes, except those whose kind lost its handler.  *)
Restart ==
  /\ ~up
  /\ \E gone \in SUBSET {j \in Jobs : status[j] = "queued"} :
       /\ status'  = [j \in Jobs |-> IF j \in gone THEN "canceled"
                                     ELSE Reconciled(j)]
       /\ pending' = [l \in Lanes |->
                        {j \in Jobs \ gone :
                           status[j] = "queued" /\ LaneFor(j) = l}]
  /\ result' = [j \in Jobs |-> IF status[j] = "running" THEN assets[j]
                               ELSE result[j]]
  /\ wake'   = [l \in Lanes |-> pending'[l] # {}]
  /\ up'     = TRUE
  /\ UNCHANGED <<assets, crashes, lane, inflight, current, device, exec,
                 attempt, flags>>

-----------------------------------------------------------------------------
Request(j) ==
  \/ Submit(j)
  \/ \E old \in Jobs \ {j} : Retry(old, j)
  \/ CancelRunning(j)
  \/ CancelWaiting(j)
  \/ Skip(j)

Worker(l) ==
  \/ Wakeup(l)
  \/ Rest(l)
  \/ l = "local"  /\ PickLocal
  \/ l = "remote" /\ PickRemote

Handler(j) ==
  \/ ProgressCancels(j)
  \/ ProgressSkips(j)
  \/ CommitAsset(j)
  \/ ReleaseDevice(j)
  \/ HandlerStops(j)

Task(j) ==
  \/ StartTask(j)
  \/ BackOff(j)
  \/ BackOffCancels(j)
  \/ NextAttempt(j)
  \/ Settle(j)

Next ==
  \/ \E j \in Jobs : Request(j) \/ Handler(j) \/ Task(j)
  \/ \E l \in Lanes : Worker(l)
  \/ Crash
  \/ Restart

Spec == Init /\ [][Next]_vars

(* The loop runs what is ready, and a handler does not run forever.  No    *)
(* request is ever due, and nobody has to restart a dead process.          *)
Fairness ==
  /\ \A l \in Lanes : WF_vars(Worker(l))
  /\ \A j \in Jobs : WF_vars(Task(j)) /\ WF_vars(HandlerStops(j))

FairSpec == Spec /\ Fairness

-----------------------------------------------------------------------------
TypeOK ==
  /\ status    \in [Jobs -> Statuses]
  /\ assets    \in [Jobs -> SUBSET (1..Attempts)]
  /\ result    \in [Jobs -> SUBSET (1..Attempts)]
  /\ up        \in BOOLEAN
  /\ crashes   \in 0..MaxCrashes
  /\ pending   \in [Lanes -> SUBSET Jobs]
  /\ wake      \in [Lanes -> BOOLEAN]
  /\ lane      \in [Lanes -> {"idle", "scan", "busy"}]
  /\ inflight  \in [Lanes -> SUBSET Jobs]
  /\ current   \in [Lanes -> Jobs \cup {NoJob}]
  /\ device    \in Jobs \cup {NoJob}
  /\ exec      \in [Jobs -> ExecState]
  /\ attempt   \in [Jobs -> 1..Attempts]
  /\ cancelled \subseteq Jobs
  /\ skipped   \subseteq Jobs
  /\ acked     \subseteq Jobs

(***************************************************************************)
(* Properties.                                                             *)
(***************************************************************************)

(* While the process is up no row is stranded: a queued row is in its      *)
(* lane's memory or in the hands of the task about to run it, and the rows *)
(* that say "running" are exactly those some task executes.                *)
NoStrandedRow ==
  up => \A j \in Jobs :
          /\ status[j] = "queued" =>
               j \in pending[LaneFor(j)] \/ exec[j] = "created"
          /\ status[j] = "running" <=> Executing(j)

(* A job that has the use of its lane's device: all of a local job, and a  *)
(* remote one until release_device, its back-off included.                 *)
OnDevice(j) ==
  IF j \in LocalJobs THEN Executing(j)
  ELSE exec[j] \in {"created", "generate", "transient", "backoff"}

(* Each lane gives its device to one job at a time, although remote jobs   *)
(* overlap: the finally block of a job still finishing must not free the   *)
(* device the next one has taken.                                          *)
OneJobPerDevice ==
  /\ \A j \in Jobs \ LocalJobs : OnDevice(j) => device = j
  /\ \A j, k \in LocalJobs : OnDevice(j) /\ OnDevice(k) => j = k

(* No job commits output in two attempts: a retry after a committed asset  *)
(* would duplicate the batch.                                              *)
NoDuplicateBatch == \A j \in Jobs : \A m, n \in assets[j] : m = n

(* A settled row's result lists every asset the job committed, however the *)
(* job ended: done, failed, canceled, skipped, or cut off by a restart.    *)
SettledResultComplete ==
  \A j \in Jobs : status[j] \in Terminal => result[j] = assets[j]

(* No flag outlives the job it was raised for, where it could hit nothing  *)
(* or leak; and a job that still runs after cancel() answered True is      *)
(* still flagged, the one caught between its pick and its start included.  *)
FlagsFollowJobs ==
  /\ cancelled \subseteq {j \in Jobs : \/ j \in pending[LaneFor(j)]
                                       \/ exec[j] # "none"}
  /\ skipped \subseteq {j \in Jobs : Executing(j)}
  /\ \A j \in acked : exec[j] # "none" => j \in cancelled

(* What makes these inductive: where each job is, seen from its row.       *)
DownIsEmpty ==
  ~up => /\ pending = [l \in Lanes |-> {}]
         /\ exec = [j \in Jobs |-> "none"]
         /\ cancelled = {} /\ skipped = {}
         /\ device = NoJob
         /\ inflight = [l \in Lanes |-> {}]
         /\ lane = [l \in Lanes |-> "idle"]

InflightExact ==
  \A l \in Lanes : inflight[l] = {j \in Jobs : Executing(j) /\ LaneFor(j) = l}

CurrentInflight ==
  \A l \in Lanes : current[l] # NoJob => current[l] \in inflight[l]

PendingWaits ==
  \A l \in Lanes : \A j \in pending[l] :
    /\ LaneFor(j) = l
    /\ exec[j] = "none"
    /\ status[j] \in {"queued", "canceled"}
    /\ assets[j] = {}

CreatedWaits ==
  \A j \in Jobs : exec[j] = "created" =>
    /\ j \notin LocalJobs
    /\ status[j] \in {"queued", "canceled"}
    /\ assets[j] = {}

FreshRows ==
  \A j \in Jobs : status[j] \in {"absent", "queued"} =>
    /\ assets[j] = {} /\ result[j] = {}
    /\ j \notin acked
    /\ status[j] = "absent" => exec[j] = "none"

OutputOfThisAttempt ==
  \A j \in Jobs :
    /\ Executing(j) => assets[j] \subseteq {attempt[j]}
    /\ exec[j] = "backoff" => assets[j] = {} /\ attempt[j] < Attempts

BusyIsLocal ==
  lane["local"] # "busy" => \A j \in LocalJobs : ~Executing(j)

IInv ==
  /\ TypeOK
  /\ NoStrandedRow /\ OneJobPerDevice /\ NoDuplicateBatch
  /\ SettledResultComplete /\ FlagsFollowJobs
  /\ DownIsEmpty /\ InflightExact /\ CurrentInflight /\ PendingWaits
  /\ CreatedWaits /\ FreshRows /\ OutputOfThisAttempt /\ BusyIsLocal

(* A row that reached "canceled" runs again in one case only, when its     *)
(* remote task had been created and not started; "done" is final, and      *)
(* "error" can only be superseded by a retry.                              *)
TerminalRowsRest ==
  [][\A j \in Jobs :
       /\ status[j] = "done"  => status'[j] = "done"
       /\ status[j] = "error" => status'[j] \in {"error", "canceled"}
       /\ status[j] = "canceled" /\ status'[j] # "canceled"
            => exec[j] = "created" /\ status'[j] = "running"]_vars

(* The lanes keep the promise JobLifecycle makes of every row.             *)
Lifecycle == INSTANCE JobLifecycle
               WITH Jobs     <- Jobs,   Attempts <- Attempts,
                    status   <- status, assets   <- assets,
                    result   <- result

ImplementsLifecycle == Lifecycle!Spec

(* Whatever is queued or runs settles, unless the process dies: no wake-up *)
(* is lost between the lanes, the overlap and the cancels.                 *)
EveryJobSettles ==
  \A j \in Jobs :
    up /\ status[j] \in {"queued", "running"}
      ~> status[j] \in Terminal \/ ~up

(* "removed_from_queue (it never ran)": a queued job that cancel resolved  *)
(* does not run.  The code does not keep this for a remote job between its *)
(* pick and its start.                                                     *)
CanceledInQueueNeverRuns ==
  [][\A j \in Jobs : status[j] = "canceled" => status'[j] # "running"]_vars
=============================================================================
