---------------------------- MODULE VariantSets ----------------------------
(***************************************************************************)
(* One variant set of backend/app/variant_sets/{service,store}.py: items   *)
(* derived from one another in stages, each attempt of an item an ordinary *)
(* job, and every actor that moves an item - creation, the queue listener, *)
(* read-time and startup reconciliation, retry, rerun, cancel and delete.  *)
(*                                                                         *)
(* Two kinds of threads act.  The asyncio loop runs the requests, and the  *)
(* parts of advance_after_job and reconcile_set outside to_thread; none of *)
(* those suspends while loop.at # "free", so they exclude each other.      *)
(* process_job_terminal runs in a thread, one per ended job, and           *)
(* interleaves with the loop and with the other threads at each database   *)
(* transaction; one action here is at most one transaction another actor   *)
(* can tell apart.                                                         *)
(*                                                                         *)
(* Attempt n of item i is the job <<i, n>>: its request id is a function   *)
(* of the two, and the item's job_id always names attempt attempts[i].     *)
(*                                                                         *)
(* An operator Mutant_X is X as a plausible bug would have it.             *)
(***************************************************************************)
EXTENDS Naturals, FiniteSets

CONSTANTS
  Items,        (* The variants of every stage.                            *)
  Parent,       (* The item each one derives from, NoItem in stage 0.      *)
  Attempts,     (* Bound on the attempts of one item.                      *)
  MaxRequests,  (* Bound on the requests that change the set.              *)
  MaxCrashes,   (* Bound on how often the process dies.                    *)
  NoItem        (* Python's None where an item could stand.                *)

(* What the constants are assumed to be; the module that instantiates this *)
(* one states it of their values.                                          *)
SetsAssumption ==
  /\ NoItem \notin Items /\ Parent \in [Items -> Items \cup {NoItem}]
  /\ Attempts \in Nat \ {0}
  /\ {MaxRequests, MaxCrashes} \subseteq Nat

VARIABLES
  (* Durable: the item rows. *)
  state,        (* VariantItem.state.                                      *)
  attempts,     (* VariantItem.attempts.                                   *)
  (* Durable: the set row and the job rows. *)
  cached,       (* VariantSet.status.                                      *)
  canceledAt,   (* Whether VariantSet.canceled_at is set.                  *)
  deleted,      (* Whether the set's rows are gone.                        *)
  job,          (* The status of the job of each attempt.                  *)
  (* In memory. *)
  notices,      (* advance_after_job tasks whose thread has not begun.     *)
  thread,       (* process_job_terminal, per caller.                       *)
  reader,       (* reconcile_set.                                          *)
  loop,         (* The submit_items and _refresh the loop is inside.       *)
  phase,        (* Before the set; the process down, starting or serving.  *)
  requests,     (* How many requests changed the set.                      *)
  crashes       (* How often it died.                                      *)

items   == <<state, attempts>>
setRow  == <<cached, canceledAt, deleted>>
process == <<phase, requests, crashes>>
vars    == <<items, setRow, job, notices, thread, reader, loop, process>>

-----------------------------------------------------------------------------
InFlight == {"pending", "queued"}
Finished == {"succeeded", "invalid", "failed", "canceled"}
States   == InFlight \cup Finished \cup {"blocked"}
Live     == {"queued", "running"}
Ended    == {"done", "error", "canceled"}

Callers  == Items \cup {"reader"}
Children(i) == {k \in Items : Parent[k] = i}

(* The least set that has the children of i and of its members.            *)
Descendants[i \in Items] ==
  {k \in Items : \A S \in SUBSET Items :
     Children(i) \cup UNION {Children(j) : j \in S} \subseteq S => k \in S}

(* What refresh_set derives from the items.                                *)
StatusOf ==
  CASE \E i \in Items : state[i] \in InFlight    -> "active"
    [] canceledAt                                -> "canceled"
    [] \A i \in Items : state[i] = "succeeded"   -> "complete"
    [] OTHER                                     -> "incomplete"

NoThread == [at |-> "idle", item |-> NoItem, n |-> 0, verdict |-> "none",
             left |-> {}, write |-> "none"]
NoReader == [at |-> "idle", todo |-> {}, canceled |-> FALSE, runnable |-> {}]
NoLoop   == [at |-> "free", todo |-> {}, made |-> {}, new |-> {},
             write |-> "none"]

Loop(at, todo) == [NoLoop EXCEPT !.at = at, !.todo = todo]

(* No set yet: its rows are there in name only.                            *)
Init ==
  /\ state      = [i \in Items |-> "pending"]
  /\ attempts   = [i \in Items |-> 0]
  /\ cached     = "active"
  /\ canceledAt = FALSE
  /\ deleted    = FALSE
  /\ job        = [x \in Items \X (1..Attempts) |-> "absent"]
  /\ notices    = {}
  /\ thread     = [c \in Callers |-> NoThread]
  /\ reader     = NoReader
  /\ loop       = NoLoop
  /\ phase      = "before"
  /\ requests   = 0
  /\ crashes    = 0

(* create_set: insert_set commits every item in one transaction, and the   *)
(* first stage is next.                                                    *)
CreateSet ==
  /\ phase = "before"
  /\ phase' = "serving"
  /\ loop'  = Loop("submit", {i \in Items : Parent[i] = NoItem})
  /\ UNCHANGED <<items, setRow, job, notices, thread, reader, requests,
                 crashes>>

-----------------------------------------------------------------------------
(* submit_items, on the loop.  loop.todo are the items its caller read,    *)
(* each of them pending when it did.                                       *)

(* asset_ids lists the outputs of the latest attempt, whether or not they  *)
(* passed validation; _reset empties it.                                   *)
HasInput(i) ==
  Parent[i] # NoItem => state[Parent[i]] \in {"succeeded", "invalid"}

(* _inputs and _effective_params of every item, before any job exists: one *)
(* whose parent has no output, or whose assets are no longer in the        *)
(* library, fails here.                                                    *)
Submit ==
  /\ loop.at = "submit"
  /\ \E ready \in SUBSET {i \in loop.todo : HasInput(i)} :
     /\ state' = [i \in Items |->
                    IF i \in loop.todo \ ready /\ state[i] = "pending"
                    THEN "failed" ELSE state[i]]
     /\ loop'  = Loop("create", ready)
  /\ UNCHANGED <<attempts, setRow, job, notices, thread, reader, process>>

(* create_job_once under the attempt's own request id: a row an earlier    *)
(* submission left behind is recovered.  The jobs of one kind are created  *)
(* before the first is linked, and here every item is of one kind.         *)
CreateJob(i) ==
  /\ loop.at = "create" /\ i \in loop.todo
  /\ LET x == <<i, attempts[i] + 1>> IN
     /\ job'  = [job EXCEPT ![x] = IF @ = "absent" THEN "queued" ELSE @]
     /\ loop' = [loop EXCEPT !.todo = @ \ {i}, !.made = @ \cup {i},
                   !.new = @ \cup {k \in {i} : job[x] = "absent"}]
  /\ UNCHANGED <<items, setRow, notices, thread, reader, process>>

(* The transition that records the job.  A new job of an item that is no   *)
(* longer pending is canceled; its lane cannot have picked it up yet.      *)
LinkJob(i) ==
  /\ loop.at = "create" /\ loop.todo = {} /\ i \in loop.made
  /\ loop' = [loop EXCEPT !.made = @ \ {i}]
  /\ IF state[i] = "pending"
     THEN /\ state'    = [state EXCEPT ![i] = "queued"]
          /\ attempts' = [attempts EXCEPT ![i] = @ + 1]
          /\ UNCHANGED job
     ELSE /\ job' = [job EXCEPT ![<<i, attempts[i] + 1>>] =
                       IF i \in loop.new THEN "canceled" ELSE @]
          /\ UNCHANGED items
  /\ UNCHANGED <<setRow, notices, thread, reader, process>>

(* _refresh ends every operation.  refresh_set reads the set and its items *)
(* and then writes; SQLAlchemy leaves out a column it loaded with the      *)
(* value it now holds.                                                     *)
Written == IF StatusOf = cached THEN "none" ELSE StatusOf

LoopCounts ==
  /\ \/ loop.at = "count"
     \/ loop.at = "create" /\ loop.todo = {} /\ loop.made = {}
  /\ loop' = [NoLoop EXCEPT !.at = "store", !.write = Written]
  /\ UNCHANGED <<items, setRow, job, notices, thread, reader, process>>

LoopStores ==
  /\ loop.at = "store"
  /\ cached' = IF loop.write = "none" THEN cached ELSE loop.write
  /\ loop'   = NoLoop
  /\ IF reader.at = "submitting"
     THEN reader' = NoReader /\ phase' = "serving"
     ELSE UNCHANGED <<reader, phase>>
  /\ UNCHANGED <<items, canceledAt, deleted, job, notices, thread, requests,
                 crashes>>

(* _runnable_now and _settle_waiting over pending items: one under a       *)
(* parent that succeeded is ready, one under a parent that will not run is *)
(* blocked, the others wait.                                               *)
Ready(todo) ==
  {i \in todo : IF Parent[i] = NoItem THEN TRUE
                ELSE state[Parent[i]] = "succeeded"}

Mutant_Settled(todo) == state
Settled(todo) ==
  [i \in Items |->
     IF /\ i \in todo \ Ready(todo)
        /\ state[i] = "pending"
        /\ state[Parent[i]] \notin InFlight \cup {"succeeded"}
     THEN "blocked" ELSE state[i]]

Settle ==
  /\ loop.at = "settle"
  /\ state' = Settled(loop.todo)
  /\ loop'  = Loop("submit", Ready(loop.todo))
  /\ UNCHANGED <<attempts, setRow, job, notices, thread, reader, process>>

-----------------------------------------------------------------------------
(* process_job_terminal, in a thread of caller c.                          *)

(* What the status of an ended job and _judge make of it.  A job that is   *)
(* done without an output is one that failed.                              *)
Verdicts(s) == CASE s = "done"  -> {"succeeded", "invalid"}
                 [] s = "error" -> {"failed"}
                 [] OTHER       -> {"canceled"}

(* Without an outcome advance_after_job is over; reconcile_set goes on.    *)
NoOutcome(c, i, n) ==
  IF c = "reader" THEN [NoThread EXCEPT !.at = "back", !.item = i, !.n = n]
                  ELSE NoThread

(* It reads the item that points at the job, and the job; it gives up      *)
(* unless that item is queued and the job ended.                           *)
ReadJob(c, i, n) ==
  /\ thread[c].at = "idle"
  /\ IF state[i] = "queued" /\ attempts[i] = n /\ job[<<i, n>>] \in Ended
     THEN \E v \in Verdicts(job[<<i, n>>]) :
            thread' = [thread EXCEPT ![c] =
              [NoThread EXCEPT !.at = "move", !.item = i, !.n = n,
                               !.verdict = v]]
     ELSE thread' = [thread EXCEPT ![c] = NoOutcome(c, i, n)]
  /\ UNCHANGED <<items, setRow, job, reader, loop, process>>

Begin(i, n) ==
  /\ <<i, n>> \in notices
  /\ ReadJob(i, i, n)
  /\ notices' = notices \ {<<i, n>>}

BeginForReader(i, n) ==
  /\ reader.at = "working" /\ <<i, n>> \in reader.todo
  /\ ReadJob("reader", i, n)
  /\ UNCHANGED notices

(* The compare-and-set that names the job that finished.                   *)
Owns(t) == state[t.item] = "queued" /\ attempts[t.item] = t.n

(* Only a variant that passed releases what derives from it.               *)
Mutant_Releases(verdict) == verdict \in {"succeeded", "invalid"}
Releases(verdict) == verdict = "succeeded"

MoveItem(c) ==
  LET t == thread[c] IN
  /\ t.at = "move"
  /\ IF Owns(t)
     THEN /\ state'  = [state EXCEPT ![t.item] = t.verdict]
          /\ thread' = [thread EXCEPT
               ![c].at   = IF Releases(t.verdict) THEN "children" ELSE "block",
               ![c].left = IF Releases(t.verdict) THEN {}
                                                  ELSE Descendants[t.item]]
     ELSE /\ thread' = [thread EXCEPT ![c] = NoOutcome(c, t.item, t.n)]
          /\ UNCHANGED state
  /\ UNCHANGED <<attempts, setRow, job, notices, reader, loop, process>>

(* Outcome.runnable: the pending children of an item that succeeded.       *)
ListChildren(c) ==
  LET t == thread[c] IN
  /\ t.at = "children"
  /\ thread' = [thread EXCEPT ![c].at = "count",
       ![c].left = {k \in Children(t.item) : state[k] = "pending"}]
  /\ UNCHANGED <<items, setRow, job, notices, reader, loop, process>>

(* _block_descendants, nearest first, one transition each.                 *)
BlockOne(c) ==
  LET t == thread[c] IN
  /\ t.at = "block"
  /\ \E k \in t.left :
       /\ Parent[k] \notin t.left
       /\ state'  = [state EXCEPT ![k] =
                        IF @ = "pending" THEN "blocked" ELSE @]
       /\ thread' = [thread EXCEPT ![c].left = @ \ {k}]
  /\ UNCHANGED <<attempts, setRow, job, notices, reader, loop, process>>

ThreadCounts(c) ==
  LET t == thread[c] IN
  /\ \/ t.at = "count"
     \/ t.at = "block" /\ t.left = {}
  /\ thread' = [thread EXCEPT ![c].at = "store", ![c].write = Written]
  /\ UNCHANGED <<items, setRow, job, notices, reader, loop, process>>

ThreadStores(c) ==
  LET t == thread[c] IN
  /\ t.at = "store"
  /\ cached' = IF t.write = "none" THEN cached ELSE t.write
  /\ thread' = [thread EXCEPT ![c] =
                  [NoThread EXCEPT !.at = "back", !.item = t.item,
                                   !.n = t.n, !.left = t.left]]
  /\ UNCHANGED <<items, canceledAt, deleted, job, notices, reader, loop,
                 process>>

(* The rest of advance_after_job, back on the loop: get_items reads the    *)
(* listed children anew, submit_items returns at once for a canceled set.  *)
Advance(i) ==
  /\ loop.at = "free" /\ thread[i].at = "back"
  /\ LET todo == {k \in thread[i].left : state[k] = "pending" /\ ~canceledAt}
     IN loop' = IF todo = {} THEN Loop("count", {}) ELSE Loop("submit", todo)
  /\ thread' = [thread EXCEPT ![i] = NoThread]
  /\ UNCHANGED <<items, setRow, job, notices, reader, process>>

-----------------------------------------------------------------------------
(* A request starts on a free loop of a serving process.                   *)
Serving == /\ phase = "serving" /\ loop.at = "free"
           /\ requests < MaxRequests
           /\ requests' = requests + 1

(* reconcile_set.  canceled is the set row as it was read at the start.    *)

Finish(canceled, runnable) ==
  LET todo == {i \in Items : state[i] = "pending"} IN
  /\ reader' = [NoReader EXCEPT !.at = "submitting"]
  /\ IF canceled
     THEN /\ state' = [i \in Items |->
                         IF i \in todo THEN "canceled" ELSE state[i]]
          /\ loop' = Loop("count", {})
     ELSE /\ state' = Settled(todo)
          /\ loop'  = Loop("submit", {i \in Ready(todo) \cup runnable :
                                        state[i] = "pending"})
  /\ UNCHANGED <<attempts, setRow, job, notices>>

(* It begins with the ended jobs of queued items; each is processed in a   *)
(* thread the loop waits for.  Startup does this for every active set,     *)
(* reading a set's details does it for any.                                *)
Reconcile ==
  LET todo == {x \in Items \X (1..Attempts) :
                 /\ state[x[1]] = "queued" /\ attempts[x[1]] = x[2]
                 /\ job[x] \in Ended} IN
  /\ loop.at = "free" /\ reader.at = "idle"
  /\ IF todo = {}
     THEN Finish(canceledAt, {}) /\ UNCHANGED thread
     ELSE /\ reader' = [NoReader EXCEPT !.at = "working", !.todo = todo,
                                        !.canceled = canceledAt]
          /\ UNCHANGED <<items, setRow, job, notices, thread, loop>>

BootReconcile == phase = "boot" /\ Reconcile /\ UNCHANGED process
ReadSet       == phase = "serving" /\ Reconcile /\ UNCHANGED process

(* One thread answered; after the last the rest runs without suspending.   *)
Resume ==
  LET t    == thread["reader"]
      todo == {x \in reader.todo : x # <<t.item, t.n>>} IN
  /\ loop.at = "free" /\ reader.at = "working" /\ t.at = "back"
  /\ thread' = [thread EXCEPT !["reader"] = NoThread]
  /\ IF todo = {}
     THEN Finish(reader.canceled, reader.runnable \cup t.left)
     ELSE /\ reader' = [reader EXCEPT !.todo = todo,
                                      !.runnable = @ \cup t.left]
          /\ UNCHANGED <<items, setRow, job, notices, loop>>
  /\ UNCHANGED process

-----------------------------------------------------------------------------
(* The requests that move items.                                           *)

(* _reset: back to pending, the listed assets dropped.                     *)
Resettable(i) == attempts[i] < Attempts
Reset(S, unblocked) ==
  /\ state'  = [i \in Items |->
                  IF \/ i \in S
                     \/ i \in unblocked /\ state[i] = "blocked"
                  THEN "pending" ELSE state[i]]
  /\ canceledAt' = FALSE

Retry(includeCanceled) ==
  LET targets == {i \in Items :
                    \/ state[i] \in {"failed", "invalid"}
                    \/ includeCanceled /\ state[i] = "canceled"} IN
  /\ Serving
  /\ \A i \in targets : Resettable(i)
  /\ Reset(targets, UNION {Descendants[i] : i \in targets})
  /\ loop' = Loop("settle", targets)
  /\ UNCHANGED <<attempts, cached, deleted, job, notices, thread, reader,
                 phase, crashes>>

(* A variant in flight or blocked is refused, and one whose source has no  *)
(* successful output.                                                      *)
Mutant_Rerunnable(i) == state[i] \in Finished \cup {"queued"}
Rerunnable(i) == /\ state[i] \in Finished
                 /\ Parent[i] # NoItem => state[Parent[i]] = "succeeded"

Rerun(i, cascade) ==
  LET below == {k \in Descendants[i] : cascade /\ state[k] \notin InFlight} IN
  /\ Serving
  /\ Rerunnable(i)
  /\ \A k \in below \cup {i} : Resettable(k)
  /\ Reset(below \cup {i}, IF cascade THEN {} ELSE Descendants[i])
  /\ loop' = Loop("submit", {i})
  /\ UNCHANGED <<attempts, cached, deleted, job, notices, thread, reader,
                 phase, crashes>>

(* A queued job resolves now, with its own notice; a running one is only   *)
(* flagged, and ends later.                                                *)
Stopped(i) == state[i] \in {"pending", "blocked"}

CancelSet ==
  /\ Serving
  /\ canceledAt' = TRUE
  /\ state' = [i \in Items |-> IF Stopped(i) THEN "canceled" ELSE state[i]]
  /\ LET waiting == {x \in DOMAIN job : /\ state[x[1]] = "queued"
                                       /\ attempts[x[1]] = x[2]
                                       /\ job[x] = "queued"} IN
     /\ job'     = [x \in DOMAIN job |->
                      IF x \in waiting THEN "canceled" ELSE job[x]]
     /\ notices' = notices \cup waiting
  /\ loop' = Loop("count", {})
  /\ UNCHANGED <<attempts, cached, deleted, thread, reader, phase, crashes>>

Delete ==
  /\ Serving
  /\ cached # "active"
  /\ deleted' = TRUE
  /\ UNCHANGED <<items, cached, canceledAt, job, notices, thread, reader,
                 loop, phase, crashes>>

-----------------------------------------------------------------------------
(* The queue, whose lanes write a job's end on the loop and then notify    *)
(* the listener; the process, which loses its memory and at its next start *)
(* resolves the jobs that were running.                                    *)

(* The one assumption on timing: a generation takes longer than recording  *)
(* what ended before it began, so no attempt of an item ends while a       *)
(* thread or reconcile_set still acts on an earlier one.                   *)
Recorded(i) == /\ \A c \in Callers : thread[c].item # i
               /\ reader.runnable \cap Children(i) = {}

JobStarts(i, n) ==
  /\ loop.at = "free" /\ phase \notin {"before", "down"}
  /\ job[<<i, n>>] = "queued"
  /\ job' = [job EXCEPT ![<<i, n>>] = "running"]
  /\ UNCHANGED <<items, setRow, notices, thread, reader, loop, process>>

(* A job that still waits for its lane can only be canceled.               *)
JobEnds(i, n) ==
  /\ loop.at = "free" /\ phase \notin {"before", "down"}
  /\ Recorded(i)
  /\ \E s \in Ended : /\ \/ job[<<i, n>>] = "running"
                         \/ job[<<i, n>>] = "queued" /\ s = "canceled"
                       /\ job' = [job EXCEPT ![<<i, n>>] = s]
  /\ notices' = notices \cup {<<i, n>>}
  /\ UNCHANGED <<items, setRow, thread, reader, loop, process>>

Crash ==
  /\ phase \notin {"before", "down"} /\ crashes < MaxCrashes
  /\ phase'   = "down"
  /\ crashes' = crashes + 1
  /\ notices' = {}
  /\ thread'  = [c \in Callers |-> NoThread]
  /\ reader'  = NoReader
  /\ loop'    = NoLoop
  /\ UNCHANGED <<items, setRow, job, requests>>

Restart ==
  /\ phase = "down"
  /\ phase' = IF cached = "active" THEN "boot" ELSE "serving"
  /\ \E ended \in [{x \in DOMAIN job : job[x] = "running"}
                     -> {"done", "canceled"}] :
       job' = [x \in DOMAIN job |->
                 IF x \in DOMAIN ended THEN ended[x] ELSE job[x]]
  /\ UNCHANGED <<items, setRow, notices, thread, reader, loop, requests,
                 crashes>>

LoopStep == \/ Submit \/ Settle \/ LoopCounts \/ LoopStores
            \/ \E i \in Items : CreateJob(i) \/ LinkJob(i)

ThreadStep(c) == \/ MoveItem(c) \/ ListChildren(c) \/ BlockOne(c)
                 \/ ThreadCounts(c) \/ ThreadStores(c)

Begins(i)  == \E n \in 1..Attempts : Begin(i, n)
ReaderStep == \E i \in Items, n \in 1..Attempts : BeginForReader(i, n)
Request    == \/ \E b \in BOOLEAN : Retry(b)
              \/ \E i \in Items, b \in BOOLEAN : Rerun(i, b)
              \/ CancelSet \/ Delete

Next ==
  /\ ~deleted
  /\ \/ CreateSet
     \/ LoopStep
     \/ \E c \in Callers : ThreadStep(c)
     \/ \E i \in Items : Begins(i) \/ Advance(i)
     \/ ReaderStep \/ Resume \/ BootReconcile \/ ReadSet
     \/ Request
     \/ \E i \in Items, n \in 1..Attempts : JobStarts(i, n) \/ JobEnds(i, n)
     \/ Crash \/ Restart

Spec == Init /\ [][Next]_vars

(* Threads and the loop never stop, a job ends, and a coroutine that waits *)
(* for the loop gets its turn although others take theirs in between.      *)
(* The page that shows a set reads it now and again.                       *)
Fairness ==
  /\ WF_vars(LoopStep /\ ~deleted)
  /\ \A c \in Callers : WF_vars(ThreadStep(c) /\ ~deleted)
  /\ \A i \in Items : /\ WF_vars(Begins(i) /\ ~deleted)
                       /\ SF_vars(Advance(i) /\ ~deleted)
                       /\ \A n \in 1..Attempts :
                            SF_vars((JobStarts(i, n) \/ JobEnds(i, n))
                                    /\ ~deleted)
  /\ WF_vars(ReaderStep /\ ~deleted)
  /\ SF_vars((Resume \/ BootReconcile) /\ ~deleted)
  /\ WF_vars(Restart /\ ~deleted)
  /\ SF_vars(ReadSet /\ ~deleted)

WatchedSpec == Spec /\ Fairness
-----------------------------------------------------------------------------
(* What must hold.                                                         *)

Attempted == 0..Attempts
Statuses  == {"active", "complete", "incomplete", "canceled"}

(* Every variable has its type.                                            *)
TypeOK ==
  /\ state \in [Items -> States]
  /\ attempts \in [Items -> Attempted]
  /\ cached \in Statuses
  /\ {canceledAt, deleted} \subseteq BOOLEAN
  /\ job \in [Items \X (1..Attempts) -> {"absent"} \cup Live \cup Ended]
  /\ notices \subseteq Items \X (1..Attempts)
  /\ \A c \in Callers :
       /\ thread[c].at \in {"idle", "move", "children", "block", "count",
                            "store", "back"}
       /\ thread[c].left \subseteq Items
  /\ reader.at \in {"idle", "working", "submitting"}
  /\ reader.todo \subseteq Items \X (1..Attempts)
  /\ loop.at \in {"free", "settle", "submit", "create", "count", "store"}
  /\ loop.todo \cup loop.made \subseteq Items
  /\ phase \in {"before", "down", "boot", "serving"}
  /\ requests \in 0..MaxRequests /\ crashes \in 0..MaxCrashes

Quiet == /\ phase = "serving" /\ loop.at = "free" /\ reader.at = "idle"
         /\ notices = {} /\ \A c \in Callers : thread[c].at = "idle"

(* "Submission is idempotent": a job that can still produce an image is    *)
(* the one its queued item points at, or one being linked right now.  One  *)
(* that a crash separated from its item is the item's next attempt, which  *)
(* the next submission finds by its request id.                            *)
NoUnownedWork ==
  \A i \in Items, n \in 1..Attempts :
    job[<<i, n>>] \in Live =>
      \/ state[i] = "queued" /\ attempts[i] = n
      \/ attempts[i] + 1 = n /\ (i \in loop.made \/ crashes > 0)

(* "Completion is processed once", by the job the item points at: an item  *)
(* that has images, valid or not, has them of its latest attempt, whose    *)
(* job is done, though earlier attempts end late.                          *)
JudgedByItsJob ==
  \A i \in Items :
    state[i] \in {"succeeded", "invalid"} =>
      attempts[i] > 0 /\ job[<<i, attempts[i]>>] = "done"

(* The cached status agrees with the items whenever nothing is under way,  *)
(* in a process that never died.                                           *)
StatusSettled ==
  Quiet /\ crashes = 0 /\ ~deleted => cached = StatusOf

(* A job is created only for an item whose parent has just been seen to    *)
(* have an output: when the job appears its parent succeeded.              *)
CreatedUnderSuccess ==
  \A i \in Items, n \in 1..Attempts :
    /\ job[<<i, n>>] = "absent" /\ job'[<<i, n>>] = "queued"
    /\ Parent[i] # NoItem
    => state[Parent[i]] = "succeeded"

(* No new job for a set that is canceled and stays so.                     *)
CanceledSetStops ==
  canceledAt /\ canceledAt' =>
    \A x \in DOMAIN job : job[x] = "absent" => job'[x] = "absent"

(* Whatever is asked of it, a set that is looked at comes to rest: every   *)
(* item has a verdict, or is blocked or canceled.                          *)
SetSettles ==
  <>[](\/ phase = "before" \/ deleted
       \/ \A i \in Items : state[i] \notin InFlight)

(* Items, their jobs and the status of the set agree.                      *)
ItemsAccounted == NoUnownedWork /\ JudgedByItsJob /\ StatusSettled

(* Nothing is begun under a source without an image, or in a canceled set. *)
StagesInOrder == [][CreatedUnderSuccess /\ CanceledSetStops]_vars
=============================================================================
