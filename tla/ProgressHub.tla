---------------------------- MODULE ProgressHub ----------------------------
(***************************************************************************)
(* Job events on their way to the browser: ProgressHub in                  *)
(* backend/app/queue.py, and the WebSocket route that serves its queues,   *)
(* jobs_ws in backend/app/routers/jobs.py.                                 *)
(*                                                                         *)
(* A job is submitted, runs and ends; each transition is written to the    *)
(* database and emitted in one step of the event loop.  While it runs its  *)
(* thread emits frames (progress, previews, model-load telemetry).  emit   *)
(* hands every event to the loop (call_soon_threadsafe), in order; _emit   *)
(* puts it on the queue of every subscriber, and makes room for one that   *)
(* must be delivered by discarding frames.  A client that connects is      *)
(* subscribed, sent a snapshot of the jobs, then sent its queue.           *)
(*                                                                         *)
(* An event is a job and the status it carries; one with status "running"  *)
(* is droppable, and stands for every frame.                               *)
(*                                                                         *)
(* QueueSize stands for the 256 places of a subscriber's queue.  MaxFrames *)
(* bounds the frames of all jobs, MaxConnects the connections of a client. *)
(***************************************************************************)
EXTENDS Integers, SequencesExt

CONSTANTS Jobs, Clients, QueueSize, MaxFrames, MaxConnects, NoJob

(* What the constants are assumed to be; the module that instantiates this *)
(* one states it of their values.                                          *)
HubAssumption ==
  /\ QueueSize \in Nat \ {0}
  /\ {MaxFrames, MaxConnects} \subseteq Nat

VARIABLES
  db,        \* the status of each job row
  frames,    \* frames emitted so far
  ready,     \* the events handed to the loop
  log,       \* history: the must-deliver events _emit has handled
  phase,     \* of each client: away, sending (the snapshot), live
  connects,  \* connections so far
  queue,     \* its queue
  snapshot,  \* the rows its snapshot was read from
  view,      \* what the client shows
  base,      \* history: the length of log when it subscribed
  received,  \* history: the must-deliver events it got from its queue
  overrun    \* history: its queue was full of must-deliver events when
             \* another one came

jobVars    == <<db, frames>>
clientVars == <<phase, connects, snapshot, view, base, received>>
vars       == <<jobVars, ready, log, queue, clientVars, overrun>>

Ended   == {"done", "error", "canceled"}
Status  == {NoJob, "queued", "running"} \cup Ended
Event   == [job: Jobs, status: Status \ {NoJob}]
Droppable(e) == e.status = "running"
States(s) == SelectSeq(s, LAMBDA e : ~Droppable(e))

\* Exercises the queue's limit: put_nowait never lets it grow past maxsize.
TypeOK ==
  /\ db \in [Jobs -> Status]
  /\ frames \in 0 .. MaxFrames
  /\ ready \in Seq(Event) /\ log \in Seq(Event)
  /\ phase \in [Clients -> {"away", "sending", "live"}]
  /\ connects \in [Clients -> 0 .. MaxConnects]
  /\ \A c \in Clients : queue[c] \in Seq(Event) /\ Len(queue[c]) <= QueueSize
  /\ snapshot \in [Clients -> [Jobs -> Status]]
  /\ view \in [Clients -> [Jobs -> Status]]
  /\ base \in [Clients -> Nat]
  /\ \A c \in Clients : received[c] \in Seq(Event)
  /\ overrun \in [Clients -> BOOLEAN]

Unseen == [j \in Jobs |-> NoJob]

Init ==
  /\ db = Unseen /\ frames = 0
  /\ ready = <<>> /\ log = <<>>
  /\ phase = [c \in Clients |-> "away"]
  /\ connects = [c \in Clients |-> 0]
  /\ queue = [c \in Clients |-> <<>>]
  /\ snapshot = [c \in Clients |-> Unseen]
  /\ view = [c \in Clients |-> Unseen]
  /\ base = [c \in Clients |-> 0]
  /\ received = [c \in Clients |-> <<>>]
  /\ overrun = [c \in Clients |-> FALSE]

-----------------------------------------------------------------------------
(* Jobs. *)

Follows(s) ==
  CASE s = NoJob     -> {"queued"}
    [] s = "queued"  -> {"running", "canceled"}
    [] s = "running" -> Ended
    [] OTHER         -> {}

\* A transition: the row is written, then the event emitted.
Transition(j) ==
  \E s \in Follows(db[j]) :
    /\ db' = [db EXCEPT ![j] = s]
    /\ ready' = Append(ready, [job |-> j, status |-> s])
    /\ UNCHANGED <<frames, log, queue, clientVars, overrun>>

\* A frame of a running job, from its thread.
Frame(j) ==
  /\ db[j] = "running" /\ frames < MaxFrames
  /\ frames' = frames + 1
  /\ ready' = Append(ready, [job |-> j, status |-> "running"])
  /\ UNCHANGED <<db, log, queue, clientVars, overrun>>

-----------------------------------------------------------------------------
(* The hub. *)

\* Mutant: whatever is oldest makes room.
Mutant_MakeRoom(q, e) == Append(Tail(q), e)

\* A full queue: a frame is not put; for a must-deliver event the frames are
\* discarded and, if the transitions alone overflow it, the oldest of them.
MakeRoom(q, e) ==
  LET kept == Append(States(q), e)
  IN IF Droppable(e) THEN q
     ELSE SubSeq(kept, Max({1, Len(kept) - QueueSize + 1}), Len(kept))

\* The queue of a subscriber after an event.
Put(q, e) ==
  IF Len(q) < QueueSize THEN Append(q, e) ELSE MakeRoom(q, e)

\* The loop runs _emit for the oldest event.
Emit ==
  /\ ready # <<>>
  /\ LET e == Head(ready)
     IN /\ ready' = Tail(ready)
        /\ log' = IF Droppable(e) THEN log ELSE Append(log, e)
        /\ queue' = [c \in Clients |->
                       IF phase[c] = "away" THEN queue[c]
                       ELSE Put(queue[c], e)]
        /\ overrun' = [c \in Clients |->
                         \/ overrun[c]
                         \/ /\ phase[c] # "away" /\ ~Droppable(e)
                            /\ Len(States(queue[c])) = QueueSize]
  /\ UNCHANGED <<jobVars, clientVars>>

-----------------------------------------------------------------------------
(* A client's WebSocket: jobs_ws. *)

\* The client is subscribed, then the rows of its snapshot are read.
Connect(c) ==
  /\ phase[c] = "away" /\ connects[c] < MaxConnects
  /\ phase' = [phase EXCEPT ![c] = "sending"]
  /\ connects' = [connects EXCEPT ![c] = @ + 1]
  /\ queue' = [queue EXCEPT ![c] = <<>>]
  /\ snapshot' = [snapshot EXCEPT ![c] = db]
  /\ base' = [base EXCEPT ![c] = Len(log)]
  /\ received' = [received EXCEPT ![c] = <<>>]
  /\ overrun' = [overrun EXCEPT ![c] = FALSE]
  /\ UNCHANGED <<jobVars, ready, log, view>>

\* The snapshot has been sent, one awaited message after another.
SendSnapshot(c) ==
  /\ phase[c] = "sending"
  /\ phase' = [phase EXCEPT ![c] = "live"]
  /\ view' = [view EXCEPT ![c] = snapshot[c]]
  /\ UNCHANGED <<jobVars, ready, log, queue, connects, snapshot, base,
                 received, overrun>>

\* The next event of the queue is sent.
Send(c) ==
  /\ phase[c] = "live"
  /\ queue[c] # <<>>
  /\ LET e == Head(queue[c])
     IN /\ queue' = [queue EXCEPT ![c] = Tail(@)]
        /\ view' = [view EXCEPT ![c][e.job] = e.status]
        /\ received' = [received EXCEPT ![c] =
                          IF Droppable(e) THEN @ ELSE Append(@, e)]
  /\ UNCHANGED <<jobVars, ready, log, phase, connects, snapshot, base,
                 overrun>>

\* The tab is closed, or the connection lost.
Disconnect(c) ==
  /\ phase[c] # "away"
  /\ phase' = [phase EXCEPT ![c] = "away"]
  /\ queue' = [queue EXCEPT ![c] = <<>>]
  /\ UNCHANGED <<jobVars, ready, log, connects, snapshot, view, base,
                 received, overrun>>

Next ==
  \/ \E j \in Jobs : Transition(j) \/ Frame(j)
  \/ Emit
  \/ \E c \in Clients :
       Connect(c) \/ SendSnapshot(c) \/ Send(c) \/ Disconnect(c)

Spec == Init /\ [][Next]_vars

-----------------------------------------------------------------------------
(* Properties. *)

\* What a client's queue holds are the latest transitions, in their order and
\* without a gap; and nothing but frames is lost on the way unless it lets the
\* queue fill up with transitions: what it has got and what its queue holds are
\* then all the transitions handled since it subscribed.
TransitionsKept ==
  \A c \in Clients : phase[c] # "away" =>
    /\ IsSuffix(States(queue[c]), log)
    /\ ~overrun[c] =>
         received[c] \o States(queue[c]) = SubSeq(log, base[c] + 1, Len(log))

\* Such a client, up to date with its queue, shows every ended job as ended, in
\* the way it ended: no snapshot or late frame hides an outcome.
OutcomesShown ==
  \A c \in Clients :
    phase[c] = "live" /\ queue[c] = <<>> /\ ready = <<>> /\ ~overrun[c] =>
      \A j \in Jobs : db[j] \in Ended => view[c][j] = db[j]

\* A page that keeps up misses no transition and shows every outcome.
ShownAsItIs == TransitionsKept /\ OutcomesShown
=============================================================================
