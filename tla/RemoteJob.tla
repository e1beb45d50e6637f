------------------------------ MODULE RemoteJob ------------------------------
(***************************************************************************)
(* One call of the Remote GPU client (run_remote in                        *)
(* backend/app/remote_gpu_client.py) against the worker's job table, queue *)
(* and thread (worker/api.py).                                             *)
(*                                                                         *)
(* The remote lane runs one job at a time, so the calls 1, 2, ... of Runs  *)
(* follow one another; a call is a thread that submits with retries, then  *)
(* polls until it has a result.  The worker answers each POST in a thread  *)
(* of its own (three steps: look up and prune, register, put on the queue),*)
(* runs jobs one by one in _job_worker, and answers /result, /ack and      *)
(* /cancel at once.  Any request or its response may be lost; the backend  *)
(* may die and start again; the worker may be restarted, losing its table. *)
(*                                                                         *)
(* A token is named <<r, k>>: the one the handler of call r's k-th POST    *)
(* creates, if it creates one.  The client id of a call is the call itself *)
(* (a fresh uuid4).                                                        *)
(*                                                                         *)
(* Bounds.  MaxPosts stands for the 5 submit attempts, MaxMiss for the 10  *)
(* consecutive failed polls, QueueLimit for _REMOTE_QUEUE_LIMIT (32).      *)
(* MaxFaults caps backend crashes and worker restarts taken together, and  *)
(* MaxStrays the POSTs the worker still has in hand after the client gave  *)
(* up on them (a 502/504 of the tunnel, a client timeout).                 *)
(*                                                                         *)
(* CancelLost says whether the best-effort /cancel request may be lost.    *)
(*                                                                         *)
(* Time.  A finished job is pruned 300 s after its first delivery, or an   *)
(* hour after it finished if nobody fetched it.  The module assumes that a *)
(* live call polls again within those limits (eleven failed polls of 15 s  *)
(* and the pauses between them last 282 s), so an unacknowledged job is    *)
(* only pruned once its call is over and no POST of it is under way.       *)
(***************************************************************************)
EXTENDS Integers, FiniteSets, Functions, Sequences

CONSTANTS NRuns, MaxPosts, MaxMiss, QueueLimit, MaxFaults, MaxStrays,
          CancelLost, None, Full

ASSUME RemoteAssumption ==
  /\ {NRuns, MaxPosts, QueueLimit} \subseteq Nat \ {0}
  /\ {MaxMiss, MaxFaults, MaxStrays} \subseteq Nat
  /\ CancelLost \in BOOLEAN
  /\ None # Full

VARIABLES
  pc,        \* where each call of run_remote is
  tries,     \* its submit attempts so far
  token,     \* the token it was given
  miss,      \* consecutive failed polls
  cancelled, \* the user cancelled its job (job_id in _CANCELLED)
  ending,    \* the exception it is about to end with, while it sends /cancel
  row,       \* remote_client_id and remote_token of the running job row
  up,        \* the backend process is running
  crashes, reboots,
  posts, reply,              \* the POST handlers and the answers on their way
  jobs, clientTokens, taskq, \* _JOBS, _CLIENT_TOKENS, _TASKQ
  work,                      \* the worker thread
  hasty      \* history: the calls a later POST, or the cancel of a restart,
             \* was sent for while the worker still handled an earlier POST

locals  == <<token, miss, ending, cancelled>>
client  == <<pc, tries, locals>>
handler == <<posts, reply>>
table   == <<jobs, clientTokens>>
worker  == <<taskq, work>>
process == <<up, crashes, reboots>>
vars == <<client, row, process, handler, table, worker, hasty>>

Runs   == 1 .. NRuns
Tokens == Runs \X (1 .. MaxPosts)
Run(t) == t[1]

Over    == {"done", "canceled", "failed", "dead"}
Active  == {"submit", "wait", "retry", "poll", "sleep", "stop", "ack"}
Status  == {"queued", "running", "done", "error"}
Job     == [status: Status, error: {"", "canceled", "failed"},
            result: {None, "image"}, cancel: BOOLEAN,
            delivered: {"no", "yes", "expired"}]
NewJob  == [status |-> "queued", error |-> "", result |-> None,
            cancel |-> FALSE, delivered |-> "no"]

Known(t)    == jobs[t] # None
Finished(t) == Known(t) /\ jobs[t].status \in {"done", "error"}
Idle        == [at |-> "get", token |-> None]
NoRow       == [run |-> None, token |-> None]

ASSUME NoneAssumption ==
  /\ None \notin Runs \cup Tokens \cup Job \cup {"image"}
  /\ Full \notin Tokens

TypeOK ==
  /\ pc \in [Runs -> {"idle"} \cup Active \cup Over]
  /\ tries \in [Runs -> 0 .. MaxPosts]
  /\ token \in [Runs -> Tokens \cup {None}]
  /\ miss \in [Runs -> 0 .. MaxMiss + 1]
  /\ cancelled \in [Runs -> BOOLEAN]
  /\ ending \in [Runs -> {None, "canceled", "failed"}]
  /\ row \in [run: Runs \cup {None}, token: Tokens \cup {None}]
  /\ up \in BOOLEAN
  /\ crashes \in 0 .. MaxFaults /\ reboots \in 0 .. MaxFaults
  /\ posts \in [Tokens -> {"none", "sent", "checked", "registered",
                           "answered"}]
  /\ reply \in [Tokens -> Tokens \cup {None, Full}]
  /\ jobs \in [Tokens -> Job \cup {None}]
  /\ clientTokens \in [Runs -> Tokens \cup {None}]
  /\ taskq \in Seq(Tokens) /\ Len(taskq) <= QueueLimit
  /\ work \in [at: {"get", "fn", "returned"}, token: Tokens \cup {None}]
  /\ hasty \subseteq Runs

Init ==
  /\ pc = [r \in Runs |-> "idle"]
  /\ tries = [r \in Runs |-> 0]
  /\ token = [r \in Runs |-> None]
  /\ miss = [r \in Runs |-> 0]
  /\ cancelled = [r \in Runs |-> FALSE]
  /\ ending = [r \in Runs |-> None]
  /\ row = NoRow
  /\ up = TRUE /\ crashes = 0 /\ reboots = 0
  /\ posts = [t \in Tokens |-> "none"]
  /\ reply = [t \in Tokens |-> None]
  /\ jobs = [t \in Tokens |-> None]
  /\ clientTokens = [r \in Runs |-> None]
  /\ taskq = <<>>
  /\ work = Idle
  /\ hasty = {}

-----------------------------------------------------------------------------
(* The worker's table. *)

\* The table after /cancel, which may find the token gone, or may get lost.
Cancel(t) ==
  {IF Known(t) THEN [jobs EXCEPT ![t].cancel = TRUE] ELSE jobs}
    \cup (IF CancelLost THEN {jobs} ELSE {})

\* Mutant: a delivered result is dropped at once.
Mutant_Deliver(t) ==
  IF Known(t) /\ jobs[t].status = "done"
    THEN [jobs EXCEPT ![t].delivered = "yes", ![t].result = None]
    ELSE jobs

\* The table after /result: the result stays, its first delivery is noted.
Deliver(t) ==
  IF Known(t) /\ jobs[t].status = "done" /\ jobs[t].delivered = "no"
    THEN [jobs EXCEPT ![t].delivered = "yes"]
    ELSE jobs

\* The table after /ack: the result is freed and the job is due for pruning.
Ack(t) ==
  IF Known(t)
    THEN [jobs EXCEPT ![t].result = None, ![t].delivered = "expired"]
    ELSE jobs

\* What _prune_jobs may find older than its limit (see Time above).
Prunable(t) ==
  /\ Finished(t)
  /\ \/ jobs[t].delivered = "expired"
     \/ /\ pc[Run(t)] \in Over
        /\ \A u \in Tokens : Run(u) = Run(t) => posts[u] = "none"
MustPrune == {t \in Tokens : Finished(t) /\ jobs[t].delivered = "expired"}

-----------------------------------------------------------------------------
(* The handler of a POST: _enqueue, in a thread of the worker's pool. *)

Handled(t) == posts[t] \in {"checked", "registered"}
Waited(t)  == pc[Run(t)] = "wait" /\ tries[Run(t)] = t[2]

\* The handler's answer, which is lost on a client that no longer waits.
Answer(t, a) ==
  /\ posts' = [posts EXCEPT ![t] = IF Waited(t) THEN "answered" ELSE "none"]
  /\ reply' = [reply EXCEPT ![t] = IF Waited(t) THEN a ELSE None]

\* Mutant: a duplicate submit is not recognised.
Mutant_CheckPost(t) ==
  /\ posts[t] = "sent"
  /\ IF Len(taskq) >= QueueLimit
       THEN Answer(t, Full)
       ELSE posts' = [posts EXCEPT ![t] = "checked"] /\ UNCHANGED reply
  /\ UNCHANGED <<client, row, process, table, worker, hasty>>

\* Prune, then answer a duplicate with its token and a full queue with 429.
CheckPost(t) ==
  /\ posts[t] = "sent"
  /\ \E old \in SUBSET {u \in Tokens : Prunable(u)} :
       LET kept  == [u \in Tokens |-> IF u \in old \cup MustPrune
                                        THEN None ELSE jobs[u]]
           known == [r \in Runs |->
                       IF clientTokens[r] \in Tokens
                          /\ kept[clientTokens[r]] # None
                         THEN clientTokens[r] ELSE None]
       IN /\ jobs' = kept
          /\ clientTokens' = known
          /\ IF known[Run(t)] # None THEN Answer(t, known[Run(t)])
             ELSE IF Len(taskq) >= QueueLimit THEN Answer(t, Full)
             ELSE posts' = [posts EXCEPT ![t] = "checked"] /\ UNCHANGED reply
  /\ hasty' = hasty \cup {r \in {Run(t)} :
                            \E u \in Tokens : Run(u) = r /\ Handled(u)}
  /\ UNCHANGED <<client, row, process, worker>>

Register(t) ==
  /\ posts[t] = "checked"
  /\ jobs' = [jobs EXCEPT ![t] = NewJob]
  /\ clientTokens' = [clientTokens EXCEPT ![Run(t)] = t]
  /\ posts' = [posts EXCEPT ![t] = "registered"]
  /\ UNCHANGED <<client, row, process, reply, worker, hasty>>

\* put_nowait, which takes the registration back when the queue filled up.
Put(t) ==
  /\ posts[t] = "registered"
  /\ \/ /\ Len(taskq) < QueueLimit
        /\ taskq' = Append(taskq, t)
        /\ Answer(t, t)
        /\ UNCHANGED table
     \/ /\ Len(taskq) >= QueueLimit
        /\ jobs' = [jobs EXCEPT ![t] = None]
        /\ clientTokens' = [clientTokens EXCEPT ![Run(t)] = None]
        /\ Answer(t, Full)
        /\ UNCHANGED taskq
  /\ UNCHANGED <<client, row, process, work, hasty>>

Enqueue == \E t \in Tokens : CheckPost(t) \/ Register(t) \/ Put(t)

-----------------------------------------------------------------------------
(* The worker thread: _job_worker. *)

End(t, status, error, result) ==
  [jobs EXCEPT ![t].status = status, ![t].error = error, ![t].result = result]

\* _TASKQ.get: a pruned job is skipped, a canceled one ends before it runs.
Get ==
  /\ work.at = "get"
  /\ taskq # <<>>
  /\ LET t == Head(taskq)
     IN /\ taskq' = Tail(taskq)
        /\ \/ ~Known(t) /\ UNCHANGED <<jobs, work>>
           \/ /\ Known(t) /\ jobs[t].cancel
              /\ jobs' = End(t, "error", "canceled", None)
              /\ UNCHANGED work
           \/ /\ Known(t) /\ ~jobs[t].cancel
              /\ jobs' = [jobs EXCEPT ![t].status = "running"]
              /\ work' = [at |-> "fn", token |-> t]
  /\ UNCHANGED <<client, row, process, handler, clientTokens, hasty>>

\* fn(token) returns an image: a whole one, or a partly denoised one when its
\* step callback saw a cancel and interrupted the pipeline.
FnReturns ==
  /\ work.at = "fn"
  /\ work' = [work EXCEPT !.at = "returned"]
  /\ UNCHANGED <<client, row, process, handler, table, taskq, hasty>>

\* fn(token) raises, of its own or because _raise_if_canceled saw the cancel;
\* the thread survives it.
FnRaises ==
  /\ work.at = "fn"
  /\ \E error \in {"failed"} \cup
                  {x \in {"canceled"} : jobs[work.token].cancel} :
       jobs' = End(work.token, "error", error, None)
  /\ work' = Idle
  /\ UNCHANGED <<client, row, process, handler, clientTokens, taskq,
                 hasty>>

\* A canceled job is not a successful one.
Report ==
  /\ work.at = "returned"
  /\ jobs' = IF jobs[work.token].cancel
               THEN End(work.token, "error", "canceled", None)
               ELSE End(work.token, "done", "", "image")
  /\ work' = Idle
  /\ UNCHANGED <<client, row, process, handler, clientTokens, taskq,
                 hasty>>

JobWorker == Get \/ FnReturns \/ FnRaises \/ Report

-----------------------------------------------------------------------------
(* The client thread: run_remote.  progress_cb raises when the job has been
   cancelled; `ending` is the exception that /cancel is sent on behalf of. *)

Goto(r, at) == pc' = [pc EXCEPT ![r] = at]

\* The call returns or raises, and its locals are gone.
Leave(r, how) ==
  /\ Goto(r, how)
  /\ tries' = [tries EXCEPT ![r] = 0]
  /\ token' = [token EXCEPT ![r] = None]
  /\ miss' = [miss EXCEPT ![r] = 0]
  /\ ending' = [ending EXCEPT ![r] = None]

\* The lane takes the next job.  The identity is stored before the submit, so
\* that a restart can cancel by client id what it never got a token for.
Begin(r) ==
  /\ up /\ pc[r] = "idle"
  /\ \A q \in 1 .. r - 1 : pc[q] \in Over
  /\ Goto(r, "submit")
  /\ row' = [run |-> r, token |-> None]
  /\ UNCHANGED <<tries, locals, process, handler, table, worker, hasty>>

Submit(r) ==
  /\ pc[r] = "submit"
  /\ tries' = [tries EXCEPT ![r] = @ + 1]
  /\ posts' = [posts EXCEPT ![<<r, tries'[r]>>] = "sent"]
  /\ Goto(r, "wait")
  /\ UNCHANGED <<locals, row, process, reply, table, worker, hasty>>

\* The POST is answered: with a token, which is stored, or with 429, which a
\* 4xx never retries.
Answered(r) ==
  LET t == <<r, tries[r]>>
  IN /\ pc[r] = "wait"
     /\ posts[t] = "answered"
     /\ posts' = [posts EXCEPT ![t] = "none"]
     /\ reply' = [reply EXCEPT ![t] = None]
     /\ \/ reply[t] = Full /\ Leave(r, "failed") /\ UNCHANGED row
        \/ /\ reply[t] \in Tokens
           /\ Goto(r, "poll")
           /\ token' = [token EXCEPT ![r] = reply[t]]
           /\ row' = [row EXCEPT !.token = reply[t]]
           /\ UNCHANGED <<tries, miss, ending>>
     /\ UNCHANGED <<cancelled, process, table, worker, hasty>>

\* Nobody waits for POST t any more: it never arrived or was answered, or the
\* worker is still on it or has yet to see it.
Abandon(t) ==
  /\ \/ ~Handled(t) /\ posts' = [posts EXCEPT ![t] = "none"]
     \/ /\ posts[t] # "answered"
        /\ Cardinality({u \in Tokens \ {t} : posts[u] # "none"}) < MaxStrays
        /\ UNCHANGED posts
  /\ reply' = [reply EXCEPT ![t] = None]

\* No answer: a transport error, or a 5xx of the tunnel.
SubmitLost(r) ==
  /\ pc[r] = "wait"
  /\ Abandon(<<r, tries[r]>>)
  /\ Goto(r, "retry")
  /\ UNCHANGED <<tries, locals, row, process, table, worker, hasty>>

\* After a lost answer: give up at once when /health does not answer; else
\* report progress, which raises for a cancelled job, and submit again unless
\* that was the last attempt.
Retry(r) ==
  /\ pc[r] = "retry"
  /\ \/ Leave(r, "failed")
     \/ cancelled[r] /\ Leave(r, "canceled")
     \/ /\ ~cancelled[r] /\ tries[r] < MaxPosts
        /\ Goto(r, "submit")
        /\ UNCHANGED <<tries, token, miss, ending>>
  /\ UNCHANGED <<cancelled, row, process, handler, table, worker, hasty>>

\* Leave the poll loop with an exception; /cancel is sent before it is raised.
Raise(r, exception) ==
  Goto(r, "stop") /\ ending' = [ending EXCEPT ![r] = exception]

\* The pause before the next poll.
Sleep(r) == Goto(r, "sleep") /\ UNCHANGED ending

\* What the loop does with a response it has parsed, in the code's order:
\* progress_cb, a finished job, a failed one, the stall and warm-up timeouts.
Handle(r, j) ==
  IF cancelled[r] THEN Raise(r, "canceled")
  ELSE IF j.status = "done" /\ j.result # None
    THEN Goto(r, "ack") /\ UNCHANGED ending
  ELSE IF j.status = "done" THEN Raise(r, "failed")
  ELSE IF j.status = "error"
    THEN Raise(r, IF j.error = "canceled" THEN "canceled" ELSE "failed")
  ELSE Sleep(r) \/ Raise(r, "failed")

\* A poll that is answered: 404 for an unknown token, else the job.
Poll(r) ==
  LET t == token[r]
  IN /\ pc[r] = "poll"
     /\ jobs' = Deliver(t)
     /\ IF Known(t)
          THEN Handle(r, jobs[t]) /\ miss' = [miss EXCEPT ![r] = 0]
          ELSE Raise(r, "failed") /\ UNCHANGED miss
     /\ UNCHANGED <<tries, token, cancelled, row, process, handler,
                    clientTokens, worker, hasty>>

\* Mutant: failed polls are not counted.
Mutant_PollLost(r) ==
  /\ pc[r] = "poll"
  /\ jobs' \in {jobs, Deliver(token[r])}
  /\ \/ Raise(r, "failed")
     \/ IF cancelled[r] THEN Raise(r, "canceled") ELSE Sleep(r)
  /\ UNCHANGED <<tries, token, miss, cancelled, row, process, handler,
                 clientTokens, worker, hasty>>

\* A poll without an answer, which the worker may have served all the same.
PollLost(r) ==
  /\ pc[r] = "poll"
  /\ jobs' \in {jobs, Deliver(token[r])}
  /\ miss' = [miss EXCEPT ![r] = @ + 1]
  /\ \/ Raise(r, "failed")    \* a 5xx while /health does not answer
     \/ /\ miss'[r] <= MaxMiss
        /\ IF cancelled[r] THEN Raise(r, "canceled") ELSE Sleep(r)
  /\ UNCHANGED <<tries, token, cancelled, row, process, handler, clientTokens,
                 worker, hasty>>

Wake(r) ==
  /\ pc[r] = "sleep"
  /\ Goto(r, "poll")
  /\ UNCHANGED <<tries, locals, row, process, handler, table, worker, hasty>>

\* _cancel_remote, best effort, and the exception is raised.
CancelRemote(r) ==
  /\ pc[r] = "stop"
  /\ jobs' \in Cancel(token[r])
  /\ Leave(r, ending[r])
  /\ UNCHANGED <<cancelled, row, process, handler, clientTokens, worker,
                 hasty>>

\* _ack_remote, best effort, and the result is returned.
AckRemote(r) ==
  /\ pc[r] = "ack"
  /\ jobs' \in {jobs, Ack(token[r])}
  /\ Leave(r, "done")
  /\ UNCHANGED <<cancelled, row, process, handler, clientTokens, worker,
                 hasty>>

RunRemote(r) ==
  \/ Submit(r) \/ Answered(r) \/ SubmitLost(r) \/ Retry(r)
  \/ Poll(r) \/ PollLost(r) \/ Wake(r) \/ CancelRemote(r) \/ AckRemote(r)

-----------------------------------------------------------------------------
(* The user, the backend process and the worker process. *)

UserCancels(r) ==
  /\ pc[r] \in Active /\ ~cancelled[r]
  /\ cancelled' = [cancelled EXCEPT ![r] = TRUE]
  /\ UNCHANGED <<pc, tries, token, miss, ending, row, process, handler, table,
                 worker, hasty>>

\* The job's row leaves "running" and its flag goes: the queue has written its
\* final status.
Settle ==
  /\ row.run # None
  /\ pc[row.run] \in Over \ {"dead"}
  /\ row' = NoRow
  /\ cancelled' = [cancelled EXCEPT ![row.run] = FALSE]
  /\ UNCHANGED <<pc, tries, token, miss, ending, process, handler, table,
                 worker, hasty>>

\* The process dies, its memory with it.
Crash ==
  /\ up /\ crashes + reboots < MaxFaults
  /\ crashes' = crashes + 1
  /\ up' = FALSE
  /\ cancelled' = [r \in Runs |-> FALSE]
  /\ LET live == {r \in Runs : pc[r] \in Active}
         cut  == {r \in live : pc[r] = "wait"}
     IN /\ \/ live = {} /\ UNCHANGED <<pc, tries, token, miss, ending>>
           \/ \E r \in live : Leave(r, "dead")
        /\ \/ cut = {} /\ UNCHANGED handler
           \/ \E r \in cut : Abandon(<<r, tries[r]>>)
  /\ UNCHANGED <<row, reboots, table, worker, hasty>>

\* Startup: the identity of a row still "running" is read (remote_orphans), the
\* row is reconciled, and its remote job is cancelled by token, or by client id
\* when the row has no token yet (cancel_remote_identity).
Restart ==
  LET t == IF row.token # None THEN row.token
           ELSE IF row.run # None THEN clientTokens[row.run] ELSE None
  IN /\ ~up
     /\ up' = TRUE
     /\ row' = NoRow
     /\ IF t = None THEN UNCHANGED jobs ELSE jobs' \in Cancel(t)
     /\ hasty' = hasty \cup {r \in Runs \cap {row.run} :
                   \E u \in Tokens : Run(u) = r /\ posts[u] # "none"}
     /\ UNCHANGED <<client, crashes, reboots, handler, clientTokens, worker>>

\* The worker is restarted: its tables, its queue and the requests in its hands
\* are gone.
Reboot ==
  /\ crashes + reboots < MaxFaults
  /\ reboots' = reboots + 1
  /\ jobs' = [t \in Tokens |-> None]
  /\ clientTokens' = [r \in Runs |-> None]
  /\ taskq' = <<>>
  /\ work' = Idle
  /\ posts' = [t \in Tokens |->
                 IF posts[t] = "answered" THEN "answered" ELSE "none"]
  /\ UNCHANGED <<client, row, up, crashes, reply, hasty>>

Next ==
  \/ \E r \in Runs : Begin(r) \/ RunRemote(r) \/ UserCancels(r)
  \/ Enqueue \/ JobWorker
  \/ Settle \/ Crash \/ Restart \/ Reboot

Spec == Init /\ [][Next]_vars

\* The client thread and the worker's threads keep running; fn(token) ends; a
\* backend that died is started again.  Nothing is assumed of the network.
Fairness ==
  /\ WF_vars(Restart)
  /\ \A r \in Runs : WF_vars(RunRemote(r))
  /\ \A t \in Tokens : WF_vars(CheckPost(t) \/ Register(t) \/ Put(t))
  /\ WF_vars(JobWorker)

-----------------------------------------------------------------------------
(* Properties. *)

\* A live submission stands in the worker's table once: however often the POST
\* is sent again, its call has one job there (the client id deduplicates), as
\* long as no two handlers of its POSTs overlap.
EnqueuedOnce ==
  \A t, u \in Tokens :
    Known(t) /\ Known(u) /\ Run(t) = Run(u) => t = u \/ Run(t) \in hasty

\* A call that still polls finds its job, and the result of a finished one,
\* until the client has it: a lost response can always be asked for again.
\* Only a restart of the worker may take it away, or the handler of an earlier
\* POST that takes its registration back.
ResultKept ==
  \A r \in Runs \ hasty :
    pc[r] \in {"poll", "sleep"} /\ reboots = 0 =>
      /\ Known(token[r])
      /\ jobs[token[r]].status = "done" => jobs[token[r]].result # None

Stopped(r) ==
  \A t \in Tokens :
    Known(t) /\ Run(t) = r => Finished(t) \/ jobs[t].cancel

\* After a restart the worker no longer spends GPU time on what the previous
\* process had asked for: startup reached it by token or by client id, unless
\* the worker had yet to register it.
DeadReclaimed ==
  \A r \in Runs \ hasty : up /\ pc[r] = "dead" => Stopped(r)

\* Every call ends: submitting, polling through a failing link and waiting for
\* the worker are all bounded.
CallsEnd == \A r \in Runs : pc[r] \in Active ~> pc[r] \in Over

\* Every job the worker put on its queue ends, or is forgotten by a restart,
\* whatever became of the jobs before it.
QueueDrains ==
  \A t \in Tokens :
    Known(t) /\ t \in Range(taskq) ~> ~Known(t) \/ Finished(t)

\* Neither a finished image nor a stopped process's GPU time is lost.
NothingLost == ResultKept /\ DeadReclaimed

\* Calls and the worker's queue come to an end.
RemoteSettles == CallsEnd /\ QueueDrains
=============================================================================
