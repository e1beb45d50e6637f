---------------------------- MODULE QueueWatcher ----------------------------
(***************************************************************************)
(* The queue notifications (backend/app/notify.py, QueueWatcher) and the   *)
(* lanes that drive them (JobQueue._execute in backend/app/queue.py).      *)
(*                                                                         *)
(* Lanes is the set of jobs that can execute at a time: the local lane,    *)
(* the remote lane, and the slot an overlapping remote job takes.  The     *)
(* watcher's methods run under its lock, each in one step; a timer is a    *)
(* thread of its own: a callback that has started waits for the lock while *)
(* the lanes go on, and cancelling its timer no longer stops it.           *)
(*                                                                         *)
(* What a method has to send it decides under the lock and hands over      *)
(* after it has given the lock back (_send, which starts a thread for the  *)
(* post), so another method may decide, and send, in between.  The lanes   *)
(* share the event loop's thread, which hands over what it has decided     *)
(* before it does anything else; every callback has its own thread.  So    *)
(* `decided` is in the order the lock was taken, and promises nothing of   *)
(* the order in which the hooks leave.  MaxJobs bounds the jobs.           *)
(***************************************************************************)
EXTENDS Integers, Sequences, FiniteSets

CONSTANTS Lanes, MaxJobs

ASSUME WatcherAssumption ==
  /\ IsFiniteSet(Lanes) /\ Lanes # {}
  /\ MaxJobs \in Nat

VARIABLES
  running,    \* the lanes that execute a job
  begun,      \* jobs begun so far
  busy,       \* _busy
  completed,  \* _completed
  armed,      \* _timer is a timer that counts down
  stray,      \* timers that count down and that _timer no longer names
  callbacks,  \* _on_idle calls that wait for the lock
  decided,    \* the hooks, in the order the lock was taken
  unsent,     \* their places that have not been handed to a thread yet
  early       \* History: queue_idle was decided while a job executed

watcher == <<busy, completed, armed, stray>>
hooks   == <<decided, unsent>>
vars    == <<running, begun, watcher, callbacks, hooks, early>>

Hook == [event: {"queue_start", "job_done"}]
          \cup [event: {"queue_idle"}, completed: 0 .. MaxJobs]
Start == [event |-> "queue_start"]
Done  == [event |-> "job_done"]
Idle  == [event |-> "queue_idle", completed |-> completed]

TypeOK ==
  /\ running \subseteq Lanes
  /\ begun \in 0 .. MaxJobs
  /\ busy \in BOOLEAN
  /\ completed \in 0 .. MaxJobs
  /\ armed \in BOOLEAN
  /\ stray \in 0 .. MaxJobs
  /\ callbacks \in 0 .. MaxJobs
  /\ decided \in Seq(Hook)
  /\ unsent \subseteq DOMAIN decided
  /\ early \in BOOLEAN

Init ==
  /\ running = {} /\ begun = 0
  /\ busy = FALSE /\ completed = 0
  /\ armed = FALSE /\ stray = 0 /\ callbacks = 0
  /\ decided = <<>> /\ unsent = {}
  /\ early = FALSE

\* A hook is decided under the lock; it still has to be handed over.
Decide(hook) ==
  /\ decided' = Append(decided, hook)
  /\ unsent' = unsent \cup {Len(decided) + 1}

\* The event loop has handed over what its last method decided.
LoopFree == \A i \in unsent : decided[i].event = "queue_idle"

-----------------------------------------------------------------------------
(* The lanes, which tell the watcher. *)

\* job_started: an armed timer is cancelled, and the first job of a busy period
\* is announced.
JobStarted ==
  /\ armed' = FALSE
  /\ busy' = TRUE
  /\ IF busy THEN UNCHANGED <<completed, hooks>>
             ELSE completed' = 0 /\ Decide(Start)

\* Mutant: the timer is armed for the first job only.
Mutant_JobFinished ==
  /\ completed' = completed + 1
  /\ armed' = (armed \/ completed = 0)
  /\ Decide(Done)
  /\ UNCHANGED busy

\* job_finished, whatever the outcome and whether or not a period is open: the
\* timer is armed anew.
JobFinished ==
  /\ completed' = completed + 1
  /\ armed' = TRUE
  /\ Decide(Done)
  /\ UNCHANGED busy

\* A lane picks up work.
Begin(l) ==
  /\ LoopFree
  /\ l \notin running /\ begun < MaxJobs
  /\ running' = running \cup {l}
  /\ begun' = begun + 1
  /\ JobStarted
  /\ UNCHANGED <<stray, callbacks, early>>

\* A lane finishes work.
End(l) ==
  /\ LoopFree
  /\ l \in running
  /\ running' = running \ {l}
  /\ JobFinished
  /\ UNCHANGED <<begun, stray, callbacks, early>>

-----------------------------------------------------------------------------
(* The timers. *)

\* A debounce is over; from here on cancel() no longer stops the callback.
Expire ==
  /\ \/ armed /\ armed' = FALSE /\ UNCHANGED stray
     \/ stray > 0 /\ stray' = stray - 1 /\ UNCHANGED armed
  /\ callbacks' = callbacks + 1
  /\ UNCHANGED <<running, begun, busy, completed, hooks, early>>

\* Mutant: a callback reports without looking whether it is still busy.
Mutant_Report ==
  /\ busy' = FALSE /\ armed' = FALSE
  /\ stray' = IF armed THEN stray + 1 ELSE stray
  /\ Decide(Idle)
  /\ early' = (early \/ running # {})

\* What _on_idle does once it holds the lock.  It forgets _timer without
\* cancelling it, and that may be one armed while it waited.
Report ==
  IF ~busy THEN UNCHANGED <<busy, armed, stray, hooks, early>>
  ELSE
    /\ busy' = FALSE /\ armed' = FALSE
    /\ stray' = IF armed THEN stray + 1 ELSE stray
    /\ Decide(Idle)
    /\ early' = (early \/ running # {})

OnIdle ==
  /\ callbacks > 0
  /\ callbacks' = callbacks - 1
  /\ Report
  /\ UNCHANGED <<running, begun, completed>>

-----------------------------------------------------------------------------
(* _send, outside the lock. *)

HandOver ==
  \E i \in unsent :
    /\ unsent' = unsent \ {i}
    /\ UNCHANGED <<running, begun, watcher, callbacks, decided, early>>

Next ==
  \/ \E l \in Lanes : Begin(l) \/ End(l)
  \/ Expire \/ OnIdle \/ HandOver

Spec == Init /\ [][Next]_vars

\* Timers run out, their callbacks get the lock, threads go on to send what
\* they have decided, and jobs end.
Fairness ==
  /\ WF_vars(Expire) /\ WF_vars(OnIdle) /\ WF_vars(HandOver)
  /\ \A l \in Lanes : WF_vars(End(l))

FairSpec == Spec /\ Fairness

-----------------------------------------------------------------------------
(* Properties. *)

Hooks(name) == {i \in DOMAIN decided : decided[i].event = name}
Starts == Hooks("queue_start")
Dones  == Hooks("job_done")
Idles  == Hooks("queue_idle")

Between(S, i, j) == \E m \in S : i < m /\ m < j

\* The ends of jobs between the report at i and the announcement before it, those
\* since the last announcement, and those after the last report.
Covered(i) == {k \in Dones : k < i /\ ~Between(Starts, k, i)}
Open       == {k \in Dones : \A s \in Starts : s < k}
Unreported == {k \in Dones : \A i \in Idles : i < k}

\* In the order they are decided the two hooks alternate, beginning with
\* queue_start.
Alternate ==
  /\ \A s, t \in Starts : s < t => Between(Idles, s, t)
  /\ \A i \in Idles : \E s \in Starts : s < i /\ ~Between(Idles, s, i)

\* However jobs overlap, and however many timers are cancelled too late, expire
\* together or are forgotten while they count down: no busy period is reported
\* twice or without having been announced, _busy says whether one is open, and
\* each report counts exactly the jobs that ended since its announcement.  And
\* as long as no report was decided while a job executed, a queue that is not
\* busy executes nothing and owes no job a report.
ReportsAddUp ==
  /\ Alternate
  /\ busy <=> \E s \in Starts : \A i \in Idles : i < s
  /\ \A i \in Idles : decided[i].completed = Cardinality(Covered(i))
  /\ ~early /\ ~busy => running = {} /\ Unreported = {}

\* What makes it inductive: _completed counts the ends since the announcement.
Counted == completed = Cardinality(Open)

\* Every count is of jobs that have begun and do not run any more.
Bounded ==
  /\ completed + Cardinality(running) <= begun
  /\ callbacks + stray + (IF armed THEN 1 ELSE 0) + Cardinality(running) <= begun

IInv == TypeOK /\ Bounded /\ ReportsAddUp /\ Counted

Drained == running = {} /\ begun = MaxJobs
LastIsIdle == decided # <<>> /\ decided[Len(decided)].event = "queue_idle"

\* When the last job has ended while a period was open, whatever overlapped
\* before, the period is reported, nothing is decided after that, and every hook
\* has been handed over.
DrainReported == Drained /\ busy ~> LastIsIdle /\ unsent = {}

\* notify.py:17, queue_idle says "the queue drained and stayed drained": once it
\* has, that is the last thing reported.  The code arms the timer whenever a job
\* ends, also while another one executes, and after such an early report the
\* jobs that were executing end while _busy is FALSE, and their timer's callback
\* returns without a word.
DrainIsReported == Drained /\ MaxJobs > 0 ~> LastIsIdle
=============================================================================
