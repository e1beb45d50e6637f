--------------------------- MODULE VariantSetsProofs ---------------------------
(***************************************************************************)
(* Items, jobs and the status of a variant set agree, and nothing is begun *)
(* under a source without an image or in a canceled set: for any tree of   *)
(* variants, any number of attempts, requests and crashes.                 *)
(*                                                                         *)
(* The argument.  A job belongs to the attempt its item points at or to    *)
(* the next one, which only the loop that is creating it, or a crash, can  *)
(* have left without its item.  What was released for submission hangs     *)
(* from a parent that has its image or is being made again from the        *)
(* start; it cannot turn invalid before the submission, for no job of the  *)
(* parent ends meanwhile.  And the status is owed a count by every thread  *)
(* that has moved an item.                                                 *)
(***************************************************************************)
EXTENDS VariantSets, TLAPS

Threads == [at : {"idle", "move", "children", "block", "count", "store", "back"},
            item : Items \cup {NoItem}, n : 0 .. Attempts,
            verdict : {"none"} \cup Finished, left : SUBSET Items,
            write : {"none"} \cup Statuses]
Readers == [at : {"idle", "working", "submitting"}, todo : SUBSET (Items \X (1 .. Attempts)),
            canceled : BOOLEAN, runnable : SUBSET Items]
Loops   == [at : {"free", "settle", "submit", "create", "count", "store"},
            todo : SUBSET Items, made : SUBSET Items, new : SUBSET Items,
            write : {"none"} \cup Statuses]
JobStates == {"absent"} \cup Live \cup Ended
Runs    == Items \X (1 .. Attempts)

Typed ==
  /\ state \in [Items -> States] /\ attempts \in [Items -> Attempted]
  /\ cached \in Statuses /\ canceledAt \in BOOLEAN /\ deleted \in BOOLEAN
  /\ job \in [Runs -> JobStates] /\ notices \in SUBSET Runs
  /\ thread \in [Callers -> Threads] /\ reader \in Readers /\ loop \in Loops
  /\ phase \in {"before", "down", "boot", "serving"}
  /\ requests \in 0 .. MaxRequests /\ crashes \in 0 .. MaxCrashes

-----------------------------------------------------------------------------
(* The inductive invariant.                                                *)

Waiting == {"pending", "blocked"}

(* No attempt after the n-th has a job.                                    *)
Beyond(i, n) == \A m \in 1 .. Attempts : m > n => job[<<i, m>>] = "absent"

(* An item and its jobs.                                                   *)
Own(i) ==
  /\ state[i] \in Waiting => attempts[i] < Attempts
  /\ Beyond(i, attempts[i] + 1)
  /\ state[i] \in {"queued", "succeeded", "invalid"} => Beyond(i, attempts[i])
  /\ state[i] \in {"succeeded", "invalid"} =>
       attempts[i] > 0 /\ job[<<i, attempts[i]>>] = "done"
  /\ \A n \in 1 .. Attempts :
       job[<<i, n>>] \in Live =>
         \/ state[i] = "queued" /\ attempts[i] = n
         \/ attempts[i] + 1 = n /\ (i \in loop.made \/ crashes > 0)
  /\ canceledAt => state[i] # "pending"

(* The item is not invalid, and no job of it that could still be judged is *)
(* done.                                                                   *)
Unspoiled(p) ==
  /\ state[p] # "invalid"
  /\ \A m \in 1 .. Attempts :
       m = attempts[p] + 1 \/ (state[p] = "queued" /\ m = attempts[p]) => job[<<p, m>>] # "done"

(* What the loop is about to do with an item.                              *)
InLoop(i) ==
  /\ i \in loop.todo \cup loop.made => state[i] \in Waiting /\ ~canceledAt
  /\ i \in loop.made =>
       \A m \in 1 .. Attempts :
         m = attempts[i] + 1 =>
           IF i \in loop.new THEN job[<<i, m>>] = "queued"
                             ELSE job[<<i, m>>] # "absent" /\ (job[<<i, m>>] \in Live => crashes > 0)
  /\ i \in loop.todo /\ Parent[i] # NoItem =>
       /\ loop.at = "submit" => Unspoiled(Parent[i])
       /\ loop.at = "create" => state[Parent[i]] = "succeeded"

(* What a thread has read still holds when it acts on it.                  *)
Released(t) == t.at = "children" \/ (t.at \in {"count", "store", "back"} /\ t.left # {})
ThreadOK(c) ==
  LET t == thread[c] IN
  /\ t.at # "idle" => t.item \in Items /\ t.n \in 1 .. Attempts
  /\ t.at = "move" => job[<<t.item, t.n>>] \in Ended /\ t.verdict \in Verdicts(job[<<t.item, t.n>>])
  /\ t.at \in {"count", "store", "back"} => t.left \subseteq Children(t.item)
  /\ Released(t) => Unspoiled(t.item)

ReaderOK ==
  /\ \A k \in reader.runnable : Parent[k] # NoItem /\ Unspoiled(Parent[k])
  /\ reader.at # "working" => reader.runnable = {}

(* The loop between its operations, and the process before and after.      *)
LoopOK ==
  /\ loop.made # {} => loop.at = "create"
  /\ loop.todo # {} => loop.at \in {"settle", "submit", "create"}
  /\ loop.todo \cap (loop.made \cup loop.new) = {}
  /\ phase \in {"before", "down"} =>
       /\ loop = NoLoop /\ reader = NoReader /\ notices = {} /\ thread = [c \in Callers |-> NoThread]
  /\ phase = "before" => ~canceledAt /\ \A i \in Items : state[i] = "pending"
  /\ phase = "down" => crashes > 0

(* Somebody will count, and write, after what was changed last.            *)
Due == reader.at = "working"
       \/ \E c \in Callers : thread[c].at \in {"children", "block", "count", "store", "back"}
CountOwed ==
  crashes = 0 /\ phase # "before" /\ ~deleted =>
    /\ loop.at = "free" => cached = StatusOf \/ Due
    /\ loop.at = "store" => (IF loop.write = "none" THEN cached ELSE loop.write) = StatusOf \/ Due

IInv ==
  /\ Typed /\ (\A i \in Items : Own(i) /\ InLoop(i)) /\ (\A c \in Callers : ThreadOK(c))
  /\ ReaderOK /\ LoopOK /\ CountOwed

-----------------------------------------------------------------------------
(* Types.                                                                  *)

LEMMA TypedIsTypeOK == Typed => TypeOK
<1> SUFFICES ASSUME Typed PROVE TypeOK
  OBVIOUS
<1>1. \A c \in Callers : thread[c] \in Threads
  BY DEF Typed
<1>2. \A c \in Callers :
        /\ thread[c].at \in {"idle", "move", "children", "block", "count", "store", "back"}
        /\ thread[c].left \subseteq Items
  BY <1>1 DEF Threads
<1>3. /\ reader.at \in {"idle", "working", "submitting"} /\ reader.todo \subseteq Items \X (1 .. Attempts)
      /\ loop.at \in {"free", "settle", "submit", "create", "count", "store"}
      /\ loop.todo \cup loop.made \subseteq Items
  BY DEF Typed, Readers, Loops
<1> QED
  BY <1>2, <1>3 DEF Typed, TypeOK, Runs, JobStates

(* The parts of what is in memory.                                         *)
LEMMA Fields ==
  ASSUME Typed
  PROVE  /\ loop.todo \in SUBSET Items /\ loop.made \in SUBSET Items /\ loop.new \in SUBSET Items
         /\ loop.write \in {"none"} \cup Statuses
         /\ reader.todo \in SUBSET Runs /\ reader.runnable \in SUBSET Items
         /\ reader.canceled \in BOOLEAN
         /\ \A c \in Callers :
              /\ thread[c] \in Threads /\ thread[c].left \in SUBSET Items
              /\ thread[c].write \in {"none"} \cup Statuses
              /\ thread[c].verdict \in {"none"} \cup Finished
              /\ thread[c].item \in Items \cup {NoItem} /\ thread[c].n \in 0 .. Attempts
<1>1. \A c \in Callers : thread[c] \in Threads
  BY DEF Typed
<1>2. \A t \in Threads : /\ t.left \in SUBSET Items /\ t.write \in {"none"} \cup Statuses
                         /\ t.verdict \in {"none"} \cup Finished
                         /\ t.item \in Items \cup {NoItem} /\ t.n \in 0 .. Attempts
  BY DEF Threads
<1>3. /\ loop.todo \in SUBSET Items /\ loop.made \in SUBSET Items /\ loop.new \in SUBSET Items
      /\ loop.write \in {"none"} \cup Statuses
  BY DEF Typed, Loops
<1>4. reader.todo \in SUBSET Runs /\ reader.runnable \in SUBSET Items /\ reader.canceled \in BOOLEAN
  BY DEF Typed, Readers, Runs
<1> QED
  BY <1>1, <1>2, <1>3, <1>4

LEMMA Numbers ==
  ASSUME SetsAssumption, Typed, NEW i \in Items
  PROVE  /\ attempts[i] \in Nat /\ attempts[i] <= Attempts /\ Attempts \in Nat
         /\ state[i] \in States /\ \A m \in 1 .. Attempts : m \in Nat /\ <<i, m>> \in Runs
BY DEF SetsAssumption, Typed, Attempted, Runs

LEMMA Parents ==
  ASSUME SetsAssumption, NEW i \in Items
  PROVE  /\ Parent[i] # NoItem => Parent[i] \in Items
         /\ Children(i) \in SUBSET Items /\ Descendants[i] \in SUBSET Items
         /\ \A k \in Children(i) : Parent[k] = i /\ Parent[k] # NoItem
<1>1. Descendants[i] \in SUBSET Items
  BY DEF Descendants
<1> QED
  BY <1>1 DEF SetsAssumption, Children

LEMMA StatusType == StatusOf \in Statuses /\ Written \in {"none"} \cup Statuses
BY DEF StatusOf, Statuses, Written

LEMMA LoopTypes ==
  /\ NoLoop \in Loops
  /\ NoLoop.at = "free" /\ NoLoop.todo = {} /\ NoLoop.made = {} /\ NoLoop.new = {}
  /\ \A at \in {"free", "settle", "submit", "create", "count", "store"}, todo \in SUBSET Items :
       /\ Loop(at, todo) \in Loops /\ Loop(at, todo).at = at /\ Loop(at, todo).todo = todo
       /\ Loop(at, todo).made = {} /\ Loop(at, todo).new = {}
BY DEF Loop, NoLoop, Loops

LEMMA NoThreadType ==
  ASSUME SetsAssumption
  PROVE  NoThread \in Threads /\ NoThread.at = "idle" /\ NoThread.left = {}
BY DEF SetsAssumption, NoThread, Threads

BackTurn(i, n, s) == [NoThread EXCEPT !.at = "back", !.item = i, !.n = n, !.left = s]
MoveTurn(i, n, v) == [NoThread EXCEPT !.at = "move", !.item = i, !.n = n, !.verdict = v]

LEMMA BackType ==
  ASSUME SetsAssumption, NEW i \in Items, NEW n \in 1 .. Attempts, NEW s \in SUBSET Items
  PROVE  LET t == BackTurn(i, n, s) IN t \in Threads /\ t.at = "back" /\ t.item = i /\ t.n = n /\ t.left = s
<1>1. n \in 0 .. Attempts
  BY DEF SetsAssumption
<1> QED
  BY <1>1 DEF BackTurn, NoThread, Threads

LEMMA MoveType ==
  ASSUME SetsAssumption, NEW i \in Items, NEW n \in 1 .. Attempts, NEW v \in Finished
  PROVE  LET t == MoveTurn(i, n, v) IN t \in Threads /\ t.at = "move" /\ t.item = i /\ t.n = n /\ t.left = {} /\ t.verdict = v
<1>1. n \in 0 .. Attempts
  BY DEF SetsAssumption
<1> QED
  BY <1>1 DEF MoveTurn, NoThread, Threads

LEMMA OutcomeType ==
  ASSUME SetsAssumption, NEW c, NEW i \in Items, NEW n \in 1 .. Attempts,
         NEW t, t = NoOutcome(c, i, n)
  PROVE  t \in Threads /\ t.left = {} /\ (t.at = "idle" \/ (t.at = "back" /\ t.item = i /\ t.n = n))
<1>1. n \in 0 .. Attempts /\ 0 \in 0 .. Attempts
  BY DEF SetsAssumption
<1> QED
  BY <1>1 DEF NoThread, Threads, NoOutcome

WorkingReader(todo, b) == [NoReader EXCEPT !.at = "working", !.todo = todo, !.canceled = b]

LEMMA ReaderTypes ==
  /\ NoReader \in Readers /\ NoReader.at = "idle" /\ NoReader.runnable = {}
  /\ LET r == [NoReader EXCEPT !.at = "submitting"]
     IN  r \in Readers /\ r.at = "submitting" /\ r.runnable = {}
  /\ \A todo \in SUBSET Runs, b \in BOOLEAN :
       LET r == WorkingReader(todo, b)
       IN  r \in Readers /\ r.at = "working" /\ r.runnable = {}
BY DEF NoReader, Readers, Runs, WorkingReader

(* What an ended job can make of its item.                                 *)
LEMMA VerdictIs ==
  ASSUME NEW s \in Ended, NEW v \in Verdicts(s)
  PROVE  v \in Finished /\ (v \in {"succeeded", "invalid"} => s = "done")
BY DEF Ended, Verdicts, Finished

-----------------------------------------------------------------------------
(* What a step leaves alone.                                               *)

Calm(p) == Unspoiled(p) => Unspoiled(p)'

(* A thread that is left alone.                                            *)
LEMMA ThreadKeeps ==
  ASSUME SetsAssumption, IInv, NEW d \in Callers, thread'[d] = thread[d],
         \A x \in Runs : job[x] \in Ended => job'[x] = job[x],
         \A p \in Items : p = thread[d].item => Calm(p)
  PROVE  ThreadOK(d)'
<1>1. ThreadOK(d)
  BY DEF IInv
<1>2. thread[d].at # "idle" => thread[d].item \in Items /\ thread[d].n \in 1 .. Attempts
  BY <1>1 DEF ThreadOK
<1>3. thread[d].at = "move" =>
        /\ job'[<<thread[d].item, thread[d].n>>] \in Ended
        /\ thread[d].verdict \in Verdicts(job'[<<thread[d].item, thread[d].n>>])
  BY <1>1, <1>2 DEF ThreadOK, Runs
<1>4. thread[d].at \in {"count", "store", "back"} => thread[d].left \subseteq Children(thread[d].item)
  BY <1>1 DEF ThreadOK
<1>5. ASSUME NEW p \in Items, p = thread[d].item, Released(thread[d])
      PROVE  Unspoiled(p)'
  BY <1>1, <1>5 DEF ThreadOK, Calm
<1>6. ASSUME Released(thread'[d]) PROVE Unspoiled(thread[d].item)'
  <2>1. thread[d].at # "idle"
    BY <1>6 DEF Released
  <2>2. thread[d].item \in Items
    BY <1>2, <2>1
  <2>3. PICK p \in Items : p = thread[d].item
    BY <2>2
  <2>4. Unspoiled(p)' /\ p = thread'[d].item
    BY <1>5, <1>6, <2>3
  <2> QED
    BY <2>4 DEF Unspoiled
<1> QED
  BY <1>2, <1>3, <1>4, <1>6 DEF ThreadOK

LEMMA ReaderKeeps ==
  ASSUME SetsAssumption, IInv,
         \/ reader' = reader /\ \A p \in Items : Calm(p)
         \/ reader'.runnable = {}
  PROVE  ReaderOK'
<1>1. ReaderOK /\ reader.runnable \in SUBSET Items
  BY Fields DEF IInv
<1> QED
  BY <1>1, Parents DEF ReaderOK, Calm

LEMMA LoopKeeps ==
  ASSUME SetsAssumption, IInv, NEW i \in Items, UNCHANGED <<loop, attempts, canceledAt>>,
         state'[i] = state[i] \/ (state[i] \in Waiting /\ state'[i] \in Waiting),
         \A m \in 1 .. Attempts : job'[<<i, m>>] = job[<<i, m>>],
         \A p \in Items : Calm(p) /\ (state[p] = "succeeded" => state'[p] = "succeeded"),
         crashes' = crashes
  PROVE  InLoop(i)'
<1>1. InLoop(i)
  BY DEF IInv
<1> QED
  BY <1>1, Parents DEF InLoop, Calm

(* Nothing happens but that waiting items are settled.                     *)
Fade == \A i \in Items : \/ state'[i] = state[i]
                         \/ state[i] = "pending" /\ state'[i] \in {"blocked", "failed", "canceled"}

LEMMA Fades ==
  ASSUME SetsAssumption, IInv, Fade, UNCHANGED <<attempts, job, canceledAt, crashes>>,
         loop.made \subseteq loop'.made \/ loop.made = {}
  PROVE  /\ \A i \in Items : Own(i)' /\ Calm(i)
         /\ \A d \in Callers : thread'[d] = thread[d] => ThreadOK(d)'
         /\ CreatedUnderSuccess /\ CanceledSetStops
<1>1. ASSUME NEW i \in Items PROVE Own(i)'
  <2>1. Own(i) /\ attempts[i] \in Nat
    BY <1>1, Numbers DEF IInv
  <2>2. state'[i] = state[i] \/ (state[i] = "pending" /\ state'[i] \in {"blocked", "failed", "canceled"})
    BY <1>1 DEF Fade
  <2> QED
    BY <2>1, <2>2 DEF Own, Beyond, Waiting
<1>2. ASSUME NEW i \in Items PROVE Calm(i)
  BY <1>2 DEF Fade, Calm, Unspoiled
<1>3. ASSUME NEW d \in Callers, thread'[d] = thread[d] PROVE ThreadOK(d)'
  BY <1>2, <1>3, ThreadKeeps
<1>4. CreatedUnderSuccess /\ CanceledSetStops
  BY DEF CreatedUnderSuccess, CanceledSetStops
<1> QED
  BY <1>1, <1>2, <1>3, <1>4

-----------------------------------------------------------------------------
(* The count that is owed.                                                 *)

Stages == CreatedUnderSuccess /\ CanceledSetStops

(* The loop is on its way to one, or somebody else is.                     *)
LEMMA OwedBusy ==
  ASSUME loop'.at \notin {"free", "store"}
  PROVE  CountOwed'
BY DEF CountOwed

LEMMA OwedDue ==
  ASSUME Due'
  PROVE  CountOwed'
BY DEF CountOwed

(* Nothing was changed that is counted.                                    *)
LEMMA OwedSame ==
  ASSUME IInv, UNCHANGED <<state, canceledAt, cached, deleted, crashes, loop>>,
         phase' # "before" => phase # "before", Due => Due'
  PROVE  CountOwed'
<1>1. StatusOf' = StatusOf
  BY DEF StatusOf
<1>2. CountOwed
  BY DEF IInv
<1>3. CASE Due
  BY <1>3, OwedDue
<1>4. CASE ~Due
  BY <1>1, <1>2, <1>4 DEF CountOwed
<1> QED
  BY <1>3, <1>4

(* The others are as due as before.                                        *)
LEMMA DueStays ==
  ASSUME IInv, NEW c \in Callers, NEW t \in Threads, thread' = [thread EXCEPT ![c] = t],
         reader' = reader,
         thread[c].at \in {"children", "block", "count", "store", "back"} =>
           t.at \in {"children", "block", "count", "store", "back"}
  PROVE  Due => Due'
<1>1. \A d \in Callers : thread'[d] = IF d = c THEN t ELSE thread[d]
  BY DEF IInv, Typed
<1> QED
  BY <1>1 DEF Due

-----------------------------------------------------------------------------
(* The steps of a thread.                                                  *)

(* What every one of them leaves alone.                                    *)
LEMMA OneThreadMoves ==
  ASSUME SetsAssumption, IInv, NEW c \in Callers, NEW t \in Threads,
         thread' = [thread EXCEPT ![c] = t],
         UNCHANGED <<attempts, canceledAt, deleted, job, process, reader, loop>>,
         phase \notin {"before", "down"}, notices' \subseteq notices, cached' \in Statuses,
         state' \in [Items -> States],
         \A i \in Items : state'[i] = state[i] \/ (state[i] = "pending" /\ state'[i] = "blocked"),
         ThreadOK(c)', CountOwed'
  PROVE  IInv' /\ Stages
<1>1. Typed'
  BY DEF IInv, Typed, process
<1>2. /\ \A i \in Items : Own(i)' /\ Calm(i)
      /\ \A d \in Callers : thread'[d] = thread[d] => ThreadOK(d)'
      /\ CreatedUnderSuccess /\ CanceledSetStops
  BY Fades DEF Fade, process
<1>3. \A d \in Callers : ThreadOK(d)'
  <2>1. \A d \in Callers \ {c} : thread'[d] = thread[d]
    BY DEF IInv, Typed
  <2> QED
    BY <1>2, <2>1
<1>4. \A i \in Items : InLoop(i)'
  BY <1>2, LoopKeeps DEF Waiting, process
<1>5. ReaderOK'
  BY <1>2, ReaderKeeps
<1>6. LoopOK'
  BY DEF IInv, LoopOK, process
<1> QED
  BY <1>1, <1>2, <1>3, <1>4, <1>5, <1>6 DEF IInv, Stages

(* A thread is at work only while the process is.                          *)
LEMMA Serves ==
  ASSUME IInv,
         \/ \E c \in Callers : thread[c].at # "idle"
         \/ notices # {} \/ reader.at # "idle" \/ loop.at # "free"
  PROVE  phase \notin {"before", "down"}
<1>1. NoThread.at = "idle" /\ NoReader.at = "idle" /\ NoLoop.at = "free"
  BY DEF NoThread, NoReader, NoLoop
<1> QED
  BY <1>1 DEF IInv, LoopOK

LEMMA JobRead ==
  ASSUME SetsAssumption, IInv, NEW c \in Callers, NEW i \in Items, NEW n \in 1 .. Attempts,
         phase \notin {"before", "down"}, notices' \subseteq notices, ReadJob(c, i, n)
  PROVE  IInv' /\ Stages
<1>1. /\ thread[c].at = "idle" /\ UNCHANGED <<items, setRow, job, reader, loop, process>>
  BY DEF ReadJob
<1>2. CASE /\ job[<<i, n>>] \in Ended
           /\ \E v \in Verdicts(job[<<i, n>>]) :
                thread' = [thread EXCEPT ![c] =
                  [NoThread EXCEPT !.at = "move", !.item = i, !.n = n, !.verdict = v]]
  <2>1. PICK v \in Verdicts(job[<<i, n>>]) :
          thread' = [thread EXCEPT ![c] =
            [NoThread EXCEPT !.at = "move", !.item = i, !.n = n, !.verdict = v]]
    BY <1>2
  <2> DEFINE t == MoveTurn(i, n, v)
  <2>2. v \in Finished
    BY <1>2, VerdictIs
  <2>3. t \in Threads /\ t.at = "move" /\ t.item = i /\ t.n = n /\ t.left = {} /\ t.verdict = v
    BY <2>2, MoveType
  <2>4. thread' = [thread EXCEPT ![c] = t]
    BY <2>1 DEF MoveTurn
  <2> HIDE DEF t
  <2>5. thread'[c] = t /\ job' = job
    BY <1>1, <2>4 DEF IInv, Typed
  <2>6. ThreadOK(c)'
    BY <1>2, <2>3, <2>5 DEF ThreadOK, Released
  <2>7. CountOwed'
    BY <1>1, <2>3, <2>4, DueStays, OwedSame DEF items, setRow, process
  <2> QED
    BY <1>1, <2>3, <2>4, <2>6, <2>7, OneThreadMoves DEF items, setRow, IInv, Typed
<1>3. CASE thread' = [thread EXCEPT ![c] = NoOutcome(c, i, n)]
  <2> DEFINE t == NoOutcome(c, i, n)
  <2>1. t \in Threads /\ t.left = {} /\ (t.at = "idle" \/ (t.at = "back" /\ t.item = i /\ t.n = n))
    BY OutcomeType
  <2>2. thread' = [thread EXCEPT ![c] = t]
    BY <1>3
  <2> HIDE DEF t
  <2>3. thread'[c] = t
    BY <2>2 DEF IInv, Typed
  <2>4. ThreadOK(c)'
    BY <2>1, <2>3 DEF ThreadOK, Released
  <2>5. CountOwed'
    BY <1>1, <2>1, <2>2, DueStays, OwedSame DEF items, setRow, process
  <2> QED
    BY <1>1, <2>1, <2>2, <2>4, <2>5, OneThreadMoves DEF items, setRow, IInv, Typed
<1> QED
  BY <1>2, <1>3 DEF ReadJob

LEMMA Begun ==
  ASSUME SetsAssumption, IInv, NEW i \in Items, Begins(i) \/ ReaderStep
  PROVE  IInv' /\ Stages
<1>1. CASE Begins(i)
  <2>1. PICK n \in 1 .. Attempts : Begin(i, n)
    BY <1>1 DEF Begins
  <2>2. i \in Callers /\ notices # {} /\ notices' \subseteq notices /\ ReadJob(i, i, n)
    BY <2>1 DEF Begin, Callers
  <2> QED
    BY <2>2, Serves, JobRead
<1>2. CASE ReaderStep
  <2>1. PICK k \in Items, n \in 1 .. Attempts : BeginForReader(k, n)
    BY <1>2 DEF ReaderStep
  <2>2. "reader" \in Callers /\ reader.at = "working" /\ notices' \subseteq notices /\ ReadJob("reader", k, n)
    BY <2>1 DEF BeginForReader, Callers
  <2> QED
    BY <2>2, Serves, JobRead
<1> QED
  BY <1>1, <1>2

LEMMA Listed ==
  ASSUME SetsAssumption, IInv, NEW c \in Callers, ListChildren(c)
  PROVE  IInv' /\ Stages
<1> DEFINE s == {k \in Children(thread[c].item) : state[k] = "pending"}
           t == [thread[c] EXCEPT !.at = "count", !.left = s]
<1>1. /\ thread[c].at = "children" /\ UNCHANGED <<items, setRow, job, notices, reader, loop, process>>
      /\ thread' = [thread EXCEPT ![c].at = "count", ![c].left = s]
  BY DEF ListChildren
<1>2. /\ thread \in [Callers -> Threads] /\ thread[c] \in Threads /\ ThreadOK(c)
      /\ thread[c].item \in Items /\ thread[c].n \in 1 .. Attempts /\ Unspoiled(thread[c].item)
  BY <1>1 DEF IInv, Typed, ThreadOK, Released
<1>3. s \in SUBSET Items /\ s \subseteq Children(thread[c].item)
  BY <1>2, Parents
<1> HIDE DEF s
<1>4. t \in Threads /\ t.at = "count" /\ t.left = s /\ t.item = thread[c].item /\ t.n = thread[c].n
  BY <1>2, <1>3 DEF Threads
<1>5. thread' = [thread EXCEPT ![c] = t]
  BY <1>1, <1>2
<1> HIDE DEF t
<1>6. thread'[c] = t
  BY <1>2, <1>5
<1>7. ThreadOK(c)'
  BY <1>1, <1>2, <1>3, <1>4, <1>6 DEF ThreadOK, Unspoiled, items
<1>8. CountOwed'
  BY <1>1, <1>4, <1>5, DueStays, OwedSame DEF items, setRow, process
<1>9. phase \notin {"before", "down"}
  BY <1>1, Serves
<1> QED
  BY <1>1, <1>4, <1>5, <1>7, <1>8, <1>9, OneThreadMoves DEF items, setRow, IInv, Typed

LEMMA Blocked ==
  ASSUME SetsAssumption, IInv, NEW c \in Callers, BlockOne(c)
  PROVE  IInv' /\ Stages
<1>1. PICK k \in thread[c].left :
        /\ state'  = [state EXCEPT ![k] = IF @ = "pending" THEN "blocked" ELSE @]
        /\ thread' = [thread EXCEPT ![c].left = @ \ {k}]
  BY DEF BlockOne
<1> DEFINE t == [thread[c] EXCEPT !.left = thread[c].left \ {k}]
<1>2. thread[c].at = "block" /\ UNCHANGED <<attempts, setRow, job, notices, reader, loop, process>>
  BY DEF BlockOne
<1>3. /\ thread \in [Callers -> Threads] /\ thread[c] \in Threads /\ thread[c].left \in SUBSET Items
      /\ thread[c].item \in Items /\ thread[c].n \in 1 .. Attempts
  BY <1>2, Fields DEF IInv, Typed, ThreadOK
<1>4. t \in Threads /\ t.at = "block" /\ t.item = thread[c].item /\ t.n = thread[c].n
  BY <1>2, <1>3 DEF Threads
<1>5. thread' = [thread EXCEPT ![c] = t]
  BY <1>1, <1>3
<1> HIDE DEF t
<1>6. thread'[c] = t
  BY <1>3, <1>5
<1>7. ThreadOK(c)'
  BY <1>3, <1>4, <1>6 DEF ThreadOK, Released
<1>8. CountOwed'
  BY <1>4, <1>6, OwedDue DEF Due
<1>9. /\ state' \in [Items -> States]
      /\ \A i \in Items : state'[i] = state[i] \/ (state[i] = "pending" /\ state'[i] = "blocked")
  BY <1>1, <1>3 DEF IInv, Typed, States
<1>10. phase \notin {"before", "down"}
  BY <1>2, Serves
<1> QED
  BY <1>2, <1>4, <1>5, <1>7, <1>8, <1>9, <1>10, OneThreadMoves DEF setRow, IInv, Typed

LEMMA Counted ==
  ASSUME SetsAssumption, IInv, NEW c \in Callers, ThreadCounts(c) \/ ThreadStores(c)
  PROVE  IInv' /\ Stages
<1>1. /\ thread[c].at \in {"count", "block", "store"}
      /\ thread[c].at = "block" => thread[c].left = {}
      /\ UNCHANGED <<items, canceledAt, deleted, job, notices, reader, loop, process>>
  BY DEF ThreadCounts, ThreadStores, setRow
<1>2. /\ thread \in [Callers -> Threads] /\ thread[c] \in Threads /\ ThreadOK(c)
      /\ thread[c].item \in Items /\ thread[c].n \in 1 .. Attempts /\ thread[c].left \in SUBSET Items
      /\ cached \in Statuses
  BY <1>1, Fields DEF IInv, Typed, ThreadOK
<1>3. PICK t \in Threads : /\ thread' = [thread EXCEPT ![c] = t] /\ t.at \in {"store", "back"}
                           /\ t.item = thread[c].item /\ t.n = thread[c].n /\ t.left = thread[c].left
  <2>1. CASE ThreadCounts(c)
    <3> DEFINE t == [thread[c] EXCEPT !.at = "store", !.write = Written]
    <3>1. t \in Threads /\ t.at = "store" /\ t.item = thread[c].item /\ t.n = thread[c].n /\ t.left = thread[c].left
      BY <1>2, StatusType DEF Threads
    <3>2. thread' = [thread EXCEPT ![c] = t]
      BY <1>2, <2>1 DEF ThreadCounts
    <3> HIDE DEF t
    <3> QED
      BY <3>1, <3>2
  <2>2. CASE ThreadStores(c)
    <3> DEFINE t == BackTurn(thread[c].item, thread[c].n, thread[c].left)
    <3>1. t \in Threads /\ t.at = "back" /\ t.item = thread[c].item /\ t.n = thread[c].n /\ t.left = thread[c].left
      BY <1>2, BackType
    <3>2. thread' = [thread EXCEPT ![c] = t]
      BY <2>2 DEF ThreadStores, BackTurn
    <3> HIDE DEF t
    <3> QED
      BY <3>1, <3>2
  <2> QED
    BY <2>1, <2>2
<1>4. thread'[c] = t
  BY <1>2, <1>3
<1>5. ThreadOK(c)'
  BY <1>1, <1>2, <1>3, <1>4 DEF ThreadOK, Released, Unspoiled, items
<1>6. CountOwed'
  BY <1>3, <1>4, OwedDue DEF Due
<1>7. cached' \in Statuses
  <2>1. CASE ThreadCounts(c)
    BY <1>2, <2>1 DEF ThreadCounts, setRow
  <2>2. CASE ThreadStores(c)
    BY <1>2, <2>2, Fields DEF ThreadStores, IInv
  <2> QED
    BY <2>1, <2>2
<1>8. phase \notin {"before", "down"}
  BY <1>1, Serves
<1> QED
  BY <1>1, <1>3, <1>5, <1>6, <1>7, <1>8, OneThreadMoves DEF items, IInv, Typed

(* An item under which something was released cannot turn invalid.         *)
LEMMA Moved ==
  ASSUME SetsAssumption, IInv, NEW c \in Callers, MoveItem(c)
  PROVE  IInv' /\ Stages
<1> DEFINE i == thread[c].item
           n == thread[c].n
           v == thread[c].verdict
<1>1. thread[c].at = "move" /\ UNCHANGED <<attempts, setRow, job, notices, reader, loop, process>>
  BY DEF MoveItem
<1>2. /\ thread \in [Callers -> Threads] /\ thread[c] \in Threads /\ i \in Items /\ n \in 1 .. Attempts
      /\ job[<<i, n>>] \in Ended /\ v \in Verdicts(job[<<i, n>>])
  BY <1>1 DEF IInv, Typed, ThreadOK
<1>3. phase \notin {"before", "down"}
  BY <1>1, Serves
<1>4. CASE ~Owns(thread[c])
  <2> DEFINE t == NoOutcome(c, i, n)
  <2>1. t \in Threads /\ t.left = {} /\ (t.at = "idle" \/ (t.at = "back" /\ t.item = i /\ t.n = n))
    BY <1>2, OutcomeType
  <2>2. thread' = [thread EXCEPT ![c] = t] /\ UNCHANGED state
    BY <1>4 DEF MoveItem
  <2> HIDE DEF t
  <2>3. thread'[c] = t
    BY <1>2, <2>2
  <2>4. ThreadOK(c)'
    BY <1>2, <2>1, <2>3 DEF ThreadOK, Released
  <2>5. CountOwed'
    BY <1>1, <2>1, <2>2, DueStays, OwedSame DEF setRow, process
  <2> QED
    BY <1>1, <1>3, <2>1, <2>2, <2>4, <2>5, OneThreadMoves DEF setRow, IInv, Typed
<1>5. CASE Owns(thread[c])
  <2> DEFINE t == [thread[c] EXCEPT !.at = IF Releases(v) THEN "children" ELSE "block",
                                    !.left = IF Releases(v) THEN {} ELSE Descendants[i]]
  <2>1. v \in Finished /\ (v \in {"succeeded", "invalid"} => job[<<i, n>>] = "done")
    BY <1>2, VerdictIs
  <2>2. state[i] = "queued" /\ attempts[i] = n /\ Own(i) /\ InLoop(i)
    BY <1>2, <1>5 DEF Owns, IInv
  <2>3. state' = [state EXCEPT ![i] = v] /\ thread' = [thread EXCEPT ![c] = t]
    BY <1>2, <1>5 DEF MoveItem
  <2>4. /\ t \in Threads /\ t.item = i /\ t.n = n
        /\ t.at = (IF Releases(v) THEN "children" ELSE "block")
    BY <1>2, Parents DEF Threads
  <2> HIDE DEF t
  <2>5. \A j \in Items : state'[j] = IF j = i THEN v ELSE state[j]
    BY <2>3 DEF IInv, Typed
  <2>6. Typed'
    BY <1>1, <1>2, <2>1, <2>3, <2>4 DEF IInv, Typed, States, setRow, process
  <2>7. ASSUME NEW j \in Items PROVE Own(j)'
    <3>1. Own(j) /\ attempts[j] \in Nat
      BY <2>7, Numbers DEF IInv
    <3>2. CASE j = i
      BY <1>1, <1>2, <2>1, <2>2, <2>5, <3>1, <3>2 DEF Own, Beyond, Waiting, Finished, Ended, Live, setRow, process
    <3>3. CASE j # i
      BY <1>1, <2>5, <3>1, <3>3 DEF Own, Beyond, setRow, process
    <3> QED
      BY <3>2, <3>3
  <2>8. ASSUME NEW p \in Items PROVE Calm(p)
    <3>1. CASE p = i
      BY <1>1, <1>2, <2>1, <2>2, <2>5, <3>1 DEF Calm, Unspoiled, Finished
    <3>2. CASE p # i
      BY <1>1, <2>5, <2>8, <3>2 DEF Calm, Unspoiled
    <3> QED
      BY <3>1, <3>2
  <2>9. ASSUME NEW j \in Items PROVE InLoop(j)'
    <3>1. InLoop(j) /\ i \notin loop.todo \cup loop.made
      BY <2>2, <2>9 DEF IInv, InLoop, Waiting
    <3>2. \A p \in Items : state[p] = "succeeded" => state'[p] = "succeeded"
      BY <2>2, <2>5
    <3> QED
      BY <1>1, <2>5, <2>8, <3>1, <3>2, Parents DEF InLoop, Calm, setRow, process
  <2>10. ThreadOK(c)'
    <3>1. thread'[c] = t
      BY <1>2, <2>3
    <3>2. ASSUME t.at = "children" PROVE Unspoiled(i)'
      <4>1. v = "succeeded"
        BY <2>4, <3>2 DEF Releases
      <4>2. Beyond(i, attempts[i]) /\ attempts[i] \in Nat
        BY <1>2, <2>2, Numbers DEF Own, IInv
      <4>3. state'[i] = "succeeded" /\ UNCHANGED <<attempts, job, thread[c].item>>
        BY <1>1, <1>2, <2>3, <2>4, <2>5, <3>1, <4>1
      <4> QED
        BY <4>2, <4>3 DEF Beyond, Unspoiled
    <3>3. t.at \in {"children", "block"} /\ i = thread'[c].item
      BY <2>4, <3>1
    <3> QED
      BY <1>2, <2>4, <3>1, <3>2, <3>3 DEF ThreadOK, Released, Unspoiled
  <2>11. \A d \in Callers : ThreadOK(d)'
    <3>1. \A d \in Callers \ {c} : thread'[d] = thread[d]
      BY <1>2, <2>3
    <3> QED
      BY <1>1, <2>8, <2>10, <3>1, ThreadKeeps
  <2>12. ReaderOK'
    BY <1>1, <2>8, ReaderKeeps
  <2>13. LoopOK'
    BY <1>1, <1>3 DEF IInv, LoopOK, process
  <2>14. CountOwed'
    <3>1. thread'[c].at \in {"children", "block"}
      BY <1>2, <2>3, <2>4
    <3> QED
      BY <3>1, OwedDue DEF Due
  <2>15. Stages
    BY <1>1 DEF Stages, CreatedUnderSuccess, CanceledSetStops
  <2> QED
    BY <2>6, <2>7, <2>9, <2>11, <2>12, <2>13, <2>14, <2>15 DEF IInv
<1> QED
  BY <1>4, <1>5

-----------------------------------------------------------------------------
(* The steps of the loop.                                                  *)

LEMMA SucceededUnspoiled ==
  ASSUME SetsAssumption, IInv, NEW p \in Items, state[p] = "succeeded"
  PROVE  Unspoiled(p)
<1>1. Own(p) /\ attempts[p] \in Nat
  BY Numbers DEF IInv
<1> QED
  BY <1>1 DEF Own, Beyond, Unspoiled

(* A step of the loop that makes no job.                                   *)
Handed(i) ==
  i \in loop.todo =>
    /\ state[i] \in Waiting /\ ~canceledAt
    /\ Parent[i] # NoItem =>
         /\ loop.at = "submit" => Unspoiled(Parent[i])
         /\ loop.at = "create" => state[Parent[i]] = "succeeded"

LEMMA LoopMoves ==
  ASSUME SetsAssumption, IInv, Fade,
         UNCHANGED <<attempts, job, canceledAt, deleted, notices, requests, crashes>>,
         loop.made = {}, loop' \in Loops, loop'.made = {}, loop'.new = {},
         loop'.todo # {} => loop'.at \in {"settle", "submit", "create"},
         \A i \in Items : Handed(i)',
         state' \in [Items -> States], cached' \in Statuses, phase' \in {"boot", "serving"},
         thread' \in [Callers -> Threads], reader' \in Readers,
         \A c \in Callers : ThreadOK(c)', ReaderOK', CountOwed'
  PROVE  IInv' /\ Stages
<1>1. Typed'
  BY DEF IInv, Typed
<1>2. \A i \in Items : Own(i)'
  BY Fades
<1>3. Stages
  BY Fades DEF Stages
<1>4. \A i \in Items : InLoop(i)'
  BY DEF InLoop, Handed
<1>5. LoopOK'
  BY DEF LoopOK
<1> QED
  BY <1>1, <1>2, <1>3, <1>4, <1>5 DEF IInv

LEMMA SetCreated ==
  ASSUME SetsAssumption, IInv, CreateSet
  PROVE  IInv' /\ Stages
<1> DEFINE l == Loop("submit", {i \in Items : Parent[i] = NoItem})
<1>1. /\ phase = "before" /\ phase' = "serving" /\ loop' = l
      /\ UNCHANGED <<items, setRow, job, notices, thread, reader, requests, crashes>>
  BY DEF CreateSet
<1>2. l \in Loops /\ l.at = "submit" /\ l.todo = {i \in Items : Parent[i] = NoItem} /\ l.made = {} /\ l.new = {}
  BY LoopTypes
<1> HIDE DEF l
<1>3. /\ loop = NoLoop /\ reader = NoReader /\ ~canceledAt
      /\ \A i \in Items : state[i] = "pending"
  BY <1>1 DEF IInv, LoopOK
<1>4. \A i \in Items : Handed(i)'
  BY <1>1, <1>2, <1>3 DEF Handed, Waiting, items, setRow
<1>5. CountOwed'
  BY <1>1, <1>2, OwedBusy
<1>6. Fade /\ loop.made = {}
  BY <1>1, <1>3, LoopTypes DEF Fade, items
<1>7. (\A c \in Callers : ThreadOK(c)') /\ ReaderOK'
  BY <1>1, <1>3, <1>6, Fades, ReaderKeeps, ReaderTypes DEF items, setRow
<1> QED
  BY <1>1, <1>2, <1>4, <1>5, <1>6, <1>7, LoopMoves DEF IInv, Typed, items, setRow

LEMMA LoopCounted ==
  ASSUME SetsAssumption, IInv, LoopCounts
  PROVE  IInv' /\ Stages
<1> DEFINE l == [NoLoop EXCEPT !.at = "store", !.write = Written]
<1>1. /\ loop' = l /\ UNCHANGED <<items, setRow, job, notices, thread, reader, process>>
      /\ loop.at \in {"count", "create"} /\ loop.made = {}
  BY DEF LoopCounts, IInv, LoopOK
<1>2. l \in Loops /\ l.at = "store" /\ l.write = Written /\ l.todo = {} /\ l.made = {} /\ l.new = {}
  BY StatusType DEF NoLoop, Loops
<1> HIDE DEF l
<1>3. phase \notin {"before", "down"}
  BY <1>1, Serves
<1>4. \A i \in Items : Handed(i)'
  BY <1>1, <1>2 DEF Handed
<1>5. CountOwed'
  <2>1. StatusOf' = StatusOf
    BY <1>1 DEF StatusOf, items, setRow
  <2> QED
    BY <1>1, <1>2, <2>1, StatusType DEF CountOwed, Written, Statuses, setRow
<1>6. Fade
  BY <1>1 DEF Fade, items
<1>7. (\A c \in Callers : ThreadOK(c)') /\ ReaderOK'
  BY <1>1, <1>6, Fades, ReaderKeeps DEF items, setRow, process
<1> QED
  BY <1>1, <1>2, <1>3, <1>4, <1>5, <1>6, <1>7, LoopMoves DEF IInv, Typed, items, setRow, process

LEMMA LoopStored ==
  ASSUME SetsAssumption, IInv, LoopStores
  PROVE  IInv' /\ Stages
<1>1. /\ loop.at = "store" /\ loop' = NoLoop
      /\ cached' = (IF loop.write = "none" THEN cached ELSE loop.write)
      /\ UNCHANGED <<items, canceledAt, deleted, job, notices, thread, requests, crashes>>
  BY DEF LoopStores
<1>2. \/ reader.at = "submitting" /\ reader' = NoReader /\ phase' = "serving"
      \/ reader.at # "submitting" /\ UNCHANGED <<reader, phase>>
  BY DEF LoopStores
<1>3. phase \notin {"before", "down"} /\ loop.made = {}
  BY <1>1, Serves DEF IInv, LoopOK
<1>4. loop.write \in {"none"} \cup Statuses /\ cached \in Statuses
  BY Fields DEF IInv, Typed
<1>5. \A i \in Items : Handed(i)'
  BY <1>1, LoopTypes DEF Handed
<1>6. CountOwed'
  <2>1. StatusOf' = StatusOf
    BY <1>1 DEF StatusOf, items
  <2>2. Due => Due'
    BY <1>1, <1>2 DEF Due
  <2>3. CASE Due
    BY <2>2, <2>3, OwedDue
  <2>4. CASE ~Due
    <3>1. crashes = 0 /\ ~deleted => cached' = StatusOf
      BY <1>1, <1>3, <2>4 DEF IInv, CountOwed
    <3>2. loop'.at = "free"
      BY <1>1, LoopTypes
    <3> QED
      BY <1>1, <2>1, <3>1, <3>2 DEF CountOwed
  <2> QED
    BY <2>3, <2>4
<1>7. Fade
  BY <1>1 DEF Fade, items
<1>8. (\A c \in Callers : ThreadOK(c)') /\ (\A i \in Items : Calm(i))
  BY <1>1, <1>3, <1>7, Fades DEF items
<1>9. ReaderOK'
  BY <1>2, <1>8, ReaderKeeps, ReaderTypes
<1>10. reader' \in Readers /\ phase' \in {"boot", "serving"} /\ cached' \in Statuses
  BY <1>1, <1>2, <1>3, <1>4, ReaderTypes DEF IInv, Typed
<1> QED
  BY <1>1, <1>3, <1>5, <1>6, <1>7, <1>8, <1>9, <1>10, LoopMoves, LoopTypes DEF IInv, Typed, items

LEMMA Advanced ==
  ASSUME SetsAssumption, IInv, NEW i \in Items, Advance(i)
  PROVE  IInv' /\ Stages
<1> DEFINE todo == {k \in thread[i].left : state[k] = "pending" /\ ~canceledAt}
<1>1. /\ loop.at = "free" /\ thread[i].at = "back"
      /\ loop' = (IF todo = {} THEN Loop("count", {}) ELSE Loop("submit", todo))
      /\ thread' = [thread EXCEPT ![i] = NoThread]
      /\ UNCHANGED <<items, setRow, job, notices, reader, process>>
  BY DEF Advance
<1>2. /\ i \in Callers /\ thread \in [Callers -> Threads] /\ thread[i].left \in SUBSET Items
      /\ thread[i].item \in Items /\ ThreadOK(i)
  BY <1>1, Fields DEF Callers, IInv, Typed, ThreadOK
<1>3. /\ phase \notin {"before", "down"} /\ loop.made = {}
  BY <1>1, <1>2, Serves DEF IInv, LoopOK
<1>4. \A k \in todo : state[k] = "pending" /\ ~canceledAt /\ Parent[k] = thread[i].item
                      /\ Unspoiled(thread[i].item)
  BY <1>1, <1>2, Parents DEF ThreadOK, Released
<1>5. todo \in SUBSET Items
  BY <1>2
<1> HIDE DEF todo
<1>6. /\ loop' \in Loops /\ loop'.at \in {"count", "submit"} /\ loop'.made = {} /\ loop'.new = {}
      /\ loop'.todo \subseteq todo /\ (loop'.todo # {} => loop'.at = "submit")
  BY <1>1, <1>5, LoopTypes
<1>7. Fade
  BY <1>1 DEF Fade, items
<1>8. /\ \A p \in Items : Calm(p)
      /\ \A d \in Callers : thread'[d] = thread[d] => ThreadOK(d)'
  BY <1>1, <1>3, <1>7, Fades DEF items, setRow, process
<1>9. \A k \in Items : Handed(k)'
  <2>1. ASSUME NEW k \in todo PROVE Unspoiled(Parent[k])'
    <3>1. PICK p \in Items : p = thread[i].item
      BY <1>2
    <3>2. Unspoiled(p) /\ Parent[k] = p
      BY <1>4, <2>1, <3>1
    <3>3. Unspoiled(p)'
      BY <1>8, <3>2 DEF Calm
    <3> QED
      BY <3>2, <3>3
  <2> QED
    BY <1>1, <1>4, <1>6, <2>1 DEF Handed, Waiting, items, setRow
<1>10. \A d \in Callers : ThreadOK(d)'
  <2>1. thread'[i] = NoThread /\ \A d \in Callers \ {i} : thread'[d] = thread[d]
    BY <1>1, <1>2
  <2>2. ThreadOK(i)'
    BY <2>1, NoThreadType DEF ThreadOK, Released
  <2> QED
    BY <1>8, <2>1, <2>2
<1>11. ReaderOK'
  BY <1>1, <1>8, ReaderKeeps
<1>12. CountOwed'
  BY <1>6, OwedBusy
<1>13. thread' \in [Callers -> Threads]
  BY <1>1, <1>2, NoThreadType
<1> QED
  BY <1>1, <1>3, <1>6, <1>7, <1>9, <1>10, <1>11, <1>12, <1>13, LoopMoves
     DEF IInv, Typed, items, setRow, process

LEMMA Submitted ==
  ASSUME SetsAssumption, IInv, Submit
  PROVE  IInv' /\ Stages
<1>1. /\ loop.at = "submit"
      /\ UNCHANGED <<attempts, setRow, job, notices, thread, reader, process>>
  BY DEF Submit
<1>2. PICK ready \in SUBSET {i \in loop.todo : HasInput(i)} :
        /\ state' = [i \in Items |-> IF i \in loop.todo \ ready /\ state[i] = "pending"
                                     THEN "failed" ELSE state[i]]
        /\ loop' = Loop("create", ready)
  BY DEF Submit
<1>3. ready \in SUBSET Items /\ ready \subseteq loop.todo
  BY <1>2, Fields DEF IInv
<1>4. /\ loop' \in Loops /\ loop'.at = "create" /\ loop'.todo = ready /\ loop'.made = {} /\ loop'.new = {}
  BY <1>2, <1>3, LoopTypes
<1>5. /\ phase \notin {"before", "down"} /\ loop.made = {}
  BY <1>1, Serves DEF IInv, LoopOK
<1>6. Fade /\ state' \in [Items -> States]
  BY <1>2 DEF Fade, IInv, Typed, States, Finished
<1>7. /\ \A p \in Items : Calm(p)
      /\ \A d \in Callers : thread'[d] = thread[d] => ThreadOK(d)'
  BY <1>1, <1>5, <1>6, Fades DEF setRow, process
<1>8. ASSUME NEW k \in Items PROVE Handed(k)'
  <2>1. CASE k \in ready
    <3>1. InLoop(k) /\ HasInput(k) /\ state'[k] = state[k]
      BY <1>2, <2>1 DEF IInv
    <3>2. state'[k] \in Waiting /\ ~canceledAt'
      BY <1>1, <1>3, <2>1, <3>1 DEF InLoop, setRow
    <3>3. ASSUME Parent[k] # NoItem PROVE state'[Parent[k]] = "succeeded"
      <4>1. Parent[k] \in Items /\ Unspoiled(Parent[k])
        BY <1>1, <1>3, <2>1, <3>1, <3>3, Parents DEF InLoop
      <4>2. state[Parent[k]] = "succeeded"
        BY <3>1, <3>3, <4>1 DEF HasInput, Unspoiled
      <4> QED
        BY <1>6, <4>1, <4>2 DEF Fade
    <3> QED
      BY <1>4, <3>2, <3>3 DEF Handed
  <2>2. CASE k \notin ready
    BY <1>4, <2>2 DEF Handed
  <2> QED
    BY <2>1, <2>2
<1>9. (\A d \in Callers : ThreadOK(d)') /\ ReaderOK'
  BY <1>1, <1>7, ReaderKeeps
<1>10. CountOwed'
  BY <1>4, OwedBusy
<1> QED
  BY <1>1, <1>4, <1>5, <1>6, <1>8, <1>9, <1>10, LoopMoves DEF IInv, Typed, setRow, process

(* What is settled, and what is ready to be submitted.                     *)
LEMMA SettleFades ==
  ASSUME SetsAssumption, IInv, NEW todo \in SUBSET Items, state' = Settled(todo)
  PROVE  /\ Fade /\ state' \in [Items -> States]
         /\ \A i \in Ready(todo) : state'[i] = state[i] /\ (Parent[i] # NoItem => Unspoiled(Parent[i]))
<1>1. state \in [Items -> States]
  BY DEF IInv, Typed
<1>2. \A i \in Items : state'[i] = state[i]
                       \/ (i \in todo \ Ready(todo) /\ state[i] = "pending" /\ state'[i] = "blocked")
  BY DEF Settled
<1>3. state' \in [Items -> States]
  BY <1>1 DEF Settled, States
<1>4. \A i \in Ready(todo) : i \in Items /\ (Parent[i] # NoItem => Unspoiled(Parent[i]))
  BY Parents, SucceededUnspoiled DEF Ready
<1> QED
  BY <1>2, <1>3, <1>4 DEF Fade

LEMMA SettledStep ==
  ASSUME SetsAssumption, IInv, Settle
  PROVE  IInv' /\ Stages
<1>1. /\ loop.at = "settle" /\ state' = Settled(loop.todo) /\ loop' = Loop("submit", Ready(loop.todo))
      /\ UNCHANGED <<attempts, setRow, job, notices, thread, reader, process>>
  BY DEF Settle
<1>2. loop.todo \in SUBSET Items /\ Ready(loop.todo) \in SUBSET Items /\ Ready(loop.todo) \subseteq loop.todo
  BY Fields DEF IInv, Ready
<1>3. /\ loop' \in Loops /\ loop'.at = "submit" /\ loop'.todo = Ready(loop.todo)
      /\ loop'.made = {} /\ loop'.new = {}
  BY <1>1, <1>2, LoopTypes
<1>4. /\ phase \notin {"before", "down"} /\ loop.made = {}
  BY <1>1, Serves DEF IInv, LoopOK
<1>5. /\ Fade /\ state' \in [Items -> States]
      /\ \A i \in Ready(loop.todo) : state'[i] = state[i] /\ (Parent[i] # NoItem => Unspoiled(Parent[i]))
  BY <1>1, <1>2, SettleFades
<1>6. /\ \A p \in Items : Calm(p)
      /\ \A d \in Callers : thread'[d] = thread[d] => ThreadOK(d)'
  BY <1>1, <1>4, <1>5, Fades DEF setRow, process
<1>7. ASSUME NEW k \in Items PROVE Handed(k)'
  <2>1. CASE k \in Ready(loop.todo)
    <3>1. state'[k] \in Waiting /\ ~canceledAt'
      BY <1>1, <1>2, <1>5, <2>1 DEF IInv, InLoop, setRow
    <3>2. Parent[k] # NoItem => Unspoiled(Parent[k])'
      BY <1>5, <1>6, <2>1, Parents DEF Calm
    <3> QED
      BY <1>3, <3>1, <3>2 DEF Handed
  <2>2. CASE k \notin Ready(loop.todo)
    BY <1>3, <2>2 DEF Handed
  <2> QED
    BY <2>1, <2>2
<1>8. (\A d \in Callers : ThreadOK(d)') /\ ReaderOK'
  BY <1>1, <1>6, ReaderKeeps
<1>9. CountOwed'
  BY <1>3, OwedBusy
<1> QED
  BY <1>1, <1>3, <1>4, <1>5, <1>7, <1>8, <1>9, LoopMoves DEF IInv, Typed, setRow, process

(* A job appears under a source that has its image, for a set that is not  *)
(* canceled.                                                               *)
LEMMA Created ==
  ASSUME SetsAssumption, IInv, NEW i \in Items, CreateJob(i)
  PROVE  IInv' /\ Stages
<1> DEFINE n == attempts[i] + 1
           x == <<i, n>>
           l == [loop EXCEPT !.todo = loop.todo \ {i}, !.made = loop.made \cup {i},
                             !.new = loop.new \cup {k \in {i} : job[x] = "absent"}]
<1>1. /\ loop.at = "create" /\ i \in loop.todo
      /\ UNCHANGED <<items, setRow, notices, thread, reader, process>>
  BY DEF CreateJob
<1>2. job' = [job EXCEPT ![x] = IF job[x] = "absent" THEN "queued" ELSE job[x]] /\ loop' = l
  BY DEF CreateJob
<1>3. /\ loop \in Loops /\ loop.todo \in SUBSET Items /\ loop.made \in SUBSET Items
      /\ loop.new \in SUBSET Items /\ job \in [Runs -> JobStates]
      /\ InLoop(i) /\ Own(i) /\ LoopOK
  BY <1>1, Fields DEF IInv, Typed
<1>4. /\ state[i] \in Waiting /\ ~canceledAt /\ n \in 1 .. Attempts /\ x \in Runs
      /\ attempts[i] \in Nat /\ i \notin loop.made /\ i \notin loop.new
      /\ Parent[i] # NoItem => state[Parent[i]] = "succeeded"
  BY <1>1, <1>3, Numbers DEF InLoop, Own, LoopOK, Runs, IInv
<1> HIDE DEF x, n
<1>5. l \in Loops /\ l.at = "create" /\ l.todo = loop.todo \ {i} /\ l.made = loop.made \cup {i}
      /\ l.new = loop.new \cup {k \in {i} : job[x] = "absent"}
  BY <1>1, <1>3 DEF Loops
<1> HIDE DEF l
<1>6. \A y \in Runs : job'[y] = IF y = x /\ job[x] = "absent" THEN "queued" ELSE job[y]
  BY <1>2, <1>3
<1>7. job' \in [Runs -> JobStates]
  BY <1>2, <1>3 DEF JobStates, Live
<1>8. Typed'
  BY <1>1, <1>2, <1>5, <1>7 DEF IInv, Typed, items, setRow, process
<1>9. ASSUME NEW j \in Items PROVE Own(j)'
  <2>1. /\ Own(j) /\ attempts[j] \in Nat /\ attempts[j] <= Attempts /\ Attempts \in Nat
        /\ \A m \in 1 .. Attempts : m \in Nat /\ <<j, m>> \in Runs
    BY <1>9, Numbers DEF IInv
  <2>2. CASE j # i
    <3>1. \A m \in 1 .. Attempts : job'[<<j, m>>] = job[<<j, m>>]
      BY <1>6, <2>1, <2>2 DEF x
    <3>2. j \in loop.made => j \in loop'.made
      BY <1>2, <1>5
    <3>3. attempts[j] > 0 => job'[<<j, attempts[j]>>] = job[<<j, attempts[j]>>]
      BY <2>1, <3>1
    <3> QED
      BY <1>1, <2>1, <3>1, <3>2, <3>3 DEF Own, Beyond, items, setRow, process
  <2>3. CASE j = i
    <3>1. \A m \in 1 .. Attempts :
            job'[<<j, m>>] = IF m = n /\ job[<<j, m>>] = "absent" THEN "queued" ELSE job[<<j, m>>]
      BY <1>6, <2>1, <2>3 DEF x
    <3>2. j \in loop'.made
      BY <1>2, <1>5, <2>3
    <3>3. state[j] \notin {"queued", "succeeded", "invalid"}
      BY <1>4, <2>3 DEF Waiting
    <3>4. n = attempts[j] + 1
      BY <2>3 DEF n
    <3>5. \A m \in 1 .. Attempts : m > attempts[j] + 1 => job'[<<j, m>>] = "absent"
      BY <2>1, <3>1, <3>4 DEF Own, Beyond
    <3>7. state'[j] = state[j] /\ attempts'[j] = attempts[j] /\ canceledAt' = canceledAt
      BY <1>1 DEF items, setRow
    <3>6. \A m \in 1 .. Attempts : job'[<<j, m>>] \in Live => attempts[j] + 1 = m
      BY <2>1, <3>1, <3>3, <3>4 DEF Own, Live
    <3> QED
      BY <2>1, <3>2, <3>3, <3>5, <3>6, <3>7 DEF Own, Beyond, Live
  <2> QED
    BY <2>2, <2>3
<1>10. \A y \in Runs : job'[y] = "done" => job[y] = "done"
  BY <1>6
<1>11. ASSUME NEW p \in Items PROVE Calm(p)
  BY <1>1, <1>10, <1>11, Numbers DEF Calm, Unspoiled, items, IInv
<1>12. ASSUME NEW j \in Items PROVE InLoop(j)'
  <2>1. InLoop(j) /\ \A m \in 1 .. Attempts : <<j, m>> \in Runs
    BY <1>12, Numbers DEF IInv
  <2>2. loop'.at = "create" /\ loop'.todo = loop.todo \ {i} /\ loop'.made = loop.made \cup {i}
        /\ loop'.new = loop.new \cup {k \in {i} : job[x] = "absent"}
    BY <1>2, <1>5
  <2>3. CASE j # i
    <3>1. \A m \in 1 .. Attempts : job'[<<j, m>>] = job[<<j, m>>]
      BY <1>6, <2>1, <2>3 DEF x
    <3> QED
      BY <1>1, <2>1, <2>2, <2>3, <3>1 DEF InLoop, items, setRow, process
  <2>4. CASE j = i
    <3>1. \A m \in 1 .. Attempts : m = attempts[j] + 1 => <<j, m>> = x
      BY <2>4 DEF x, n
    <3>2. job[x] # "absent" /\ job[x] \in Live => crashes > 0
      <4>1. Own(i) /\ \A m \in 1 .. Attempts : m = n =>
              (job[<<i, m>>] \in Live => i \in loop.made \/ crashes > 0)
        BY <1>3, <1>4 DEF Own, Waiting, n
      <4> QED
        BY <1>4, <4>1 DEF x
    <3>3. IF i \in loop'.new THEN job'[x] = "queued" ELSE job'[x] # "absent" /\ (job'[x] \in Live => crashes > 0)
      BY <1>4, <1>6, <2>2, <3>2
    <3> QED
      BY <1>1, <1>4, <2>2, <2>4, <3>1, <3>3 DEF InLoop, items, setRow, process
  <2> QED
    BY <2>3, <2>4
<1>13. \A d \in Callers : ThreadOK(d)'
  <2>1. \A y \in Runs : job[y] \in Ended => job'[y] = job[y]
    BY <1>6 DEF Ended
  <2> QED
    BY <1>1, <1>11, <2>1, ThreadKeeps
<1>14. ReaderOK'
  BY <1>1, <1>11, ReaderKeeps
<1>15. LoopOK'
  <2>1. phase \notin {"before", "down"}
    BY <1>1, Serves
  <2> QED
    BY <1>1, <1>2, <1>3, <1>4, <1>5, <2>1 DEF LoopOK, process
<1>16. CountOwed'
  BY <1>2, <1>5, OwedBusy
<1>17. Stages
  <2>1. CreatedUnderSuccess
    <3> SUFFICES ASSUME NEW j \in Items, NEW m \in 1 .. Attempts,
                        job[<<j, m>>] = "absent", job'[<<j, m>>] = "queued", Parent[j] # NoItem
                 PROVE  state[Parent[j]] = "succeeded"
      BY DEF CreatedUnderSuccess
    <3>1. <<j, m>> \in Runs
      BY DEF Runs
    <3>2. j = i
      BY <1>6, <3>1 DEF x
    <3> QED
      BY <1>4, <3>2
  <2>2. CanceledSetStops
    BY <1>4 DEF CanceledSetStops
  <2> QED
    BY <2>1, <2>2 DEF Stages
<1> QED
  BY <1>8, <1>9, <1>12, <1>13, <1>14, <1>15, <1>16, <1>17 DEF IInv

LEMMA Linked ==
  ASSUME SetsAssumption, IInv, NEW i \in Items, LinkJob(i)
  PROVE  IInv' /\ Stages
<1> DEFINE n == attempts[i] + 1
           x == <<i, n>>
           l == [loop EXCEPT !.made = loop.made \ {i}]
<1>1. /\ loop.at = "create" /\ loop.todo = {} /\ i \in loop.made
      /\ UNCHANGED <<setRow, notices, thread, reader, process>>
  BY DEF LinkJob
<1>2. loop' = l
  BY DEF LinkJob
<1>3. /\ loop \in Loops /\ loop.made \in SUBSET Items /\ job \in [Runs -> JobStates]
      /\ state \in [Items -> States] /\ attempts \in [Items -> Attempted]
      /\ InLoop(i) /\ Own(i) /\ LoopOK
  BY <1>1, Fields DEF IInv, Typed
<1>4. /\ state[i] \in Waiting /\ ~canceledAt /\ n \in 1 .. Attempts /\ x \in Runs /\ attempts[i] \in Nat
      /\ IF i \in loop.new THEN job[x] = "queued"
                           ELSE job[x] # "absent" /\ (job[x] \in Live => crashes > 0)
  BY <1>1, <1>3, Numbers DEF InLoop, Own, Runs, IInv
<1>5. l \in Loops /\ l.at = "create" /\ l.todo = {} /\ l.made = loop.made \ {i} /\ l.new = loop.new
  BY <1>1, <1>3 DEF Loops
<1> HIDE DEF l
<1>6. LoopOK'
  <2>1. phase \notin {"before", "down"}
    BY <1>1, Serves
  <2> QED
    BY <1>1, <1>2, <1>3, <1>5, <2>1 DEF LoopOK, process
<1>7. CountOwed'
  BY <1>2, <1>5, OwedBusy
<1>8. CASE state[i] = "pending"
  <2>1. /\ state' = [state EXCEPT ![i] = "queued"] /\ attempts' = [attempts EXCEPT ![i] = n]
        /\ UNCHANGED job
    BY <1>3, <1>8 DEF LinkJob
  <2>2. \A j \in Items : /\ state'[j] = IF j = i THEN "queued" ELSE state[j]
                         /\ attempts'[j] = IF j = i THEN n ELSE attempts[j]
    BY <1>3, <2>1
  <2>3. Typed'
    <3>1. n \in Attempted
      BY <1>4 DEF Attempted
    <3> HIDE DEF n
    <3> QED
      BY <1>1, <1>2, <1>5, <2>1, <3>1 DEF IInv, Typed, States, InFlight, setRow, process
  <2>4. ASSUME NEW j \in Items PROVE Own(j)'
    <3>1. Own(j) /\ attempts[j] \in Nat
      BY <2>4, Numbers DEF IInv
    <3>2. CASE j = i
      <4>1. \A m \in 1 .. Attempts : job[<<i, m>>] \in Live => m = n
        BY <1>3, <1>8 DEF Own
      <4>2. Beyond(i, n) /\ Beyond(i, n + 1)
        BY <1>3, <1>4 DEF Own, Beyond
      <4> QED
        BY <1>1, <1>4, <2>1, <2>2, <3>2, <4>1, <4>2 DEF Own, Beyond, Waiting, setRow
    <3>3. CASE j # i
      <4>1. j \in loop.made => j \in loop'.made
        BY <1>2, <1>5, <3>3
      <4> QED
        BY <1>1, <2>1, <2>2, <3>1, <3>3, <4>1 DEF Own, Beyond, setRow, process
    <3> QED
      BY <3>2, <3>3
  <2>5. ASSUME NEW p \in Items PROVE Calm(p)
    <3>1. CASE p = i
      <4>1. \A m \in 1 .. Attempts : m = n + 1 => job[<<p, m>>] # "done"
        BY <1>3, <1>4, <3>1 DEF Own, Beyond
      <4> QED
        BY <1>4, <2>1, <2>2, <3>1, <4>1 DEF Calm, Unspoiled
    <3>2. CASE p # i
      BY <2>1, <2>2, <2>5, <3>2 DEF Calm, Unspoiled
    <3> QED
      BY <3>1, <3>2
  <2>6. ASSUME NEW j \in Items PROVE InLoop(j)'
    BY <1>1, <1>2, <1>5, <2>1, <2>2, <2>6 DEF IInv, InLoop, setRow, process
  <2>7. (\A d \in Callers : ThreadOK(d)') /\ ReaderOK'
    BY <1>1, <2>1, <2>5, ThreadKeeps, ReaderKeeps
  <2>8. Stages
    BY <2>1 DEF Stages, CreatedUnderSuccess, CanceledSetStops
  <2> QED
    BY <1>6, <1>7, <2>3, <2>4, <2>6, <2>7, <2>8 DEF IInv
<1>9. CASE state[i] # "pending"
  <2>1. /\ job' = [job EXCEPT ![x] = IF i \in loop.new THEN "canceled" ELSE job[x]]
        /\ UNCHANGED items
    BY <1>9 DEF LinkJob
  <2>2. \A y \in Runs : job'[y] = IF y = x /\ i \in loop.new THEN "canceled" ELSE job[y]
    BY <1>3, <2>1
  <2>3. Typed'
    <3>1. job' \in [Runs -> JobStates]
      BY <1>3, <2>1 DEF JobStates, Ended
    <3> QED
      BY <1>1, <1>2, <1>5, <2>1, <3>1 DEF IInv, Typed, items, setRow, process
  <2>4. ASSUME NEW j \in Items PROVE Own(j)'
    <3>1. Own(j) /\ attempts[j] \in Nat /\ \A m \in 1 .. Attempts : <<j, m>> \in Runs
      BY <2>4, Numbers DEF IInv
    <3>2. CASE j = i
      <4>1. \A m \in 1 .. Attempts : m # n => job'[<<i, m>>] = job[<<i, m>>]
        BY <2>2, <3>1, <3>2 DEF x
      <4>2. job'[x] \in Live => crashes > 0
        BY <1>4, <2>2 DEF Live
      <4>3. \A m \in 1 .. Attempts : job'[<<i, m>>] \in Live => m = n /\ crashes > 0
        <5> SUFFICES ASSUME NEW m \in 1 .. Attempts, job'[<<i, m>>] \in Live
                     PROVE  m = n /\ crashes > 0
          OBVIOUS
        <5>1. m = n
          BY <1>3, <1>4, <4>1 DEF Own, Waiting
        <5> QED
          BY <4>2, <5>1 DEF x
      <4>4. \A m \in 1 .. Attempts : m > n => job'[<<i, m>>] = "absent"
        BY <1>3, <1>4, <4>1 DEF Own, Beyond
      <4>5. state[i] \in Waiting /\ attempts[i] < Attempts
        BY <1>3, <1>4 DEF Own
      <4>6. state'[i] = state[i] /\ attempts'[i] = attempts[i] /\ canceledAt' = canceledAt /\ crashes' = crashes
        BY <1>1, <2>1 DEF items, setRow, process
      <4> QED
        BY <1>4, <3>2, <4>3, <4>4, <4>5, <4>6 DEF Own, Beyond, Waiting
    <3>3. CASE j # i
      <4>1. j \in loop.made => j \in loop'.made
        BY <1>2, <1>5, <3>3
      <4>2. \A m \in 1 .. Attempts : job'[<<j, m>>] = job[<<j, m>>]
        BY <2>2, <3>1, <3>3 DEF x
      <4> QED
        BY <1>1, <2>1, <3>1, <4>1, <4>2 DEF Own, Beyond, items, setRow, process
    <3> QED
      BY <3>2, <3>3
  <2>5. ASSUME NEW p \in Items PROVE Calm(p)
    BY <2>1, <2>2, <2>5, Numbers DEF Calm, Unspoiled, items, IInv
  <2>6. ASSUME NEW j \in Items PROVE InLoop(j)'
    <3>1. InLoop(j) /\ \A m \in 1 .. Attempts : <<j, m>> \in Runs
      BY <2>6, Numbers DEF IInv
    <3>2. j \in loop'.made => j # i /\ j \in loop.made
      BY <1>2, <1>5
    <3>3. j # i => \A m \in 1 .. Attempts : job'[<<j, m>>] = job[<<j, m>>]
      BY <2>2, <3>1 DEF x
    <3>4. loop'.todo = {} /\ loop'.new = loop.new
      BY <1>2, <1>5
    <3> QED
      BY <1>1, <2>1, <3>1, <3>2, <3>3, <3>4 DEF InLoop, items, setRow, process
  <2>7. \A y \in Runs : job[y] \in Ended => job'[y] = job[y]
    BY <1>4, <2>2 DEF Ended
  <2>8. (\A d \in Callers : ThreadOK(d)') /\ ReaderOK'
    BY <1>1, <2>5, <2>7, ThreadKeeps, ReaderKeeps
  <2>9. Stages
    <3>1. \A y \in Runs : job[y] = "absent" => job'[y] = "absent"
      BY <1>4, <2>2
    <3>2. DOMAIN job = Runs
      BY <1>3
    <3> QED
      BY <3>1, <3>2 DEF Stages, CreatedUnderSuccess, CanceledSetStops, Runs
  <2> QED
    BY <1>6, <1>7, <2>3, <2>4, <2>6, <2>8, <2>9 DEF IInv
<1> QED
  BY <1>8, <1>9

-----------------------------------------------------------------------------
(* Reconciliation.                                                         *)

(* While it waits for its threads.                                         *)
LEMMA ReaderMoves ==
  ASSUME SetsAssumption, IInv, UNCHANGED <<items, setRow, job, notices, loop, process>>,
         phase \notin {"before", "down"}, reader' \in Readers, reader'.at = "working",
         thread' \in [Callers -> Threads],
         \A d \in Callers : thread'[d] = thread[d] \/ thread'[d] = NoThread,
         \A k \in reader'.runnable : Parent[k] # NoItem /\ Unspoiled(Parent[k])
  PROVE  IInv' /\ Stages
<1>1. Typed'
  BY DEF IInv, Typed, items, setRow, process
<1>2. /\ \A i \in Items : Own(i)' /\ Calm(i)
      /\ \A d \in Callers : thread'[d] = thread[d] => ThreadOK(d)'
      /\ CreatedUnderSuccess /\ CanceledSetStops
  BY Fades DEF Fade, items, setRow, process
<1>3. \A i \in Items : InLoop(i)'
  BY <1>2, LoopKeeps DEF items, setRow, process
<1>4. ASSUME NEW d \in Callers PROVE ThreadOK(d)'
  <2>1. CASE thread'[d] = NoThread
    BY <2>1, NoThreadType DEF ThreadOK, Released
  <2> QED
    BY <1>2, <1>4, <2>1
<1>5. ReaderOK'
  BY DEF ReaderOK, Unspoiled, items
<1>6. LoopOK'
  BY DEF IInv, LoopOK, process
<1>7. CountOwed'
  BY OwedDue DEF Due
<1> QED
  BY <1>1, <1>2, <1>3, <1>4, <1>5, <1>6, <1>7 DEF IInv, Stages

(* After the last of them.                                                 *)
LEMMA ReaderFinishes ==
  ASSUME SetsAssumption, IInv, UNCHANGED <<setRow, process>>,
         phase \notin {"before", "down"}, loop.at = "free",
         NEW canceled \in BOOLEAN, NEW R \in SUBSET Items,
         \A k \in R : Parent[k] # NoItem /\ Unspoiled(Parent[k]),
         Finish(canceled, R), thread' \in [Callers -> Threads],
         \A d \in Callers : thread'[d] = thread[d] \/ thread'[d] = NoThread
  PROVE  IInv' /\ Stages
<1> DEFINE todo == {i \in Items : state[i] = "pending"}
           next == {i \in Ready(todo) \cup R : state[i] = "pending"}
<1>1. reader' = [NoReader EXCEPT !.at = "submitting"] /\ UNCHANGED <<attempts, job, notices>>
  BY DEF Finish
<1>2. reader' \in Readers /\ reader'.runnable = {}
  BY <1>1, ReaderTypes
<1>3. loop.made = {}
  BY DEF IInv, LoopOK
<1>4. /\ Fade /\ state' \in [Items -> States] /\ loop' \in Loops /\ loop'.made = {} /\ loop'.new = {}
      /\ \/ loop'.at = "count" /\ loop'.todo = {}
         \/ loop'.at = "submit" /\ loop'.todo = next
  <2>1. CASE canceled
    <3>1. /\ state' = [i \in Items |-> IF i \in todo THEN "canceled" ELSE state[i]]
          /\ loop' = Loop("count", {})
      BY <2>1 DEF Finish
    <3>2. Fade /\ state' \in [Items -> States]
      BY <3>1 DEF Fade, IInv, Typed, States, Finished
    <3> QED
      BY <3>1, <3>2, LoopTypes
  <2>2. CASE ~canceled
    <3>1. state' = Settled(todo) /\ loop' = Loop("submit", next)
      BY <2>2 DEF Finish
    <3>2. Fade /\ state' \in [Items -> States]
      BY <3>1, SettleFades
    <3>3. next \in SUBSET Items
      BY DEF Ready
    <3> HIDE DEF next
    <3> QED
      BY <3>1, <3>2, <3>3, LoopTypes
  <2> QED
    BY <2>1, <2>2
<1>5. /\ \A p \in Items : Calm(p)
      /\ \A d \in Callers : thread'[d] = thread[d] => ThreadOK(d)'
  BY <1>1, <1>3, <1>4, Fades DEF setRow, process
<1>6. ASSUME NEW d \in Callers PROVE ThreadOK(d)'
  <2>1. CASE thread'[d] = NoThread
    BY <2>1, NoThreadType DEF ThreadOK, Released
  <2> QED
    BY <1>5, <1>6, <2>1
<1>7. ASSUME NEW k \in Items PROVE Handed(k)'
  <2>1. CASE loop'.at = "submit" /\ k \in next
    <3>1. state[k] = "pending" /\ ~canceledAt
      BY <2>1 DEF IInv, Own
    <3>2. state'[k] \in Waiting \/ state'[k] \in {"failed", "canceled"}
      BY <1>4, <1>7, <3>1 DEF Fade, Waiting
    <3>3. state'[k] \in Waiting
      <4>1. loop'.at # "count"
        BY <2>1
      <4>2. ~canceled
        BY <4>1, LoopTypes DEF Finish
      <4>3. state' = Settled(todo)
        BY <4>2 DEF Finish
      <4> QED
        BY <3>1, <4>3 DEF Settled, Waiting
    <3>4. Parent[k] # NoItem => Parent[k] \in Items /\ Unspoiled(Parent[k])
      <4>1. CASE k \in R
        BY <1>7, <4>1, Parents
      <4>2. CASE k \in Ready(todo)
        BY <1>7, <4>2, Parents, SucceededUnspoiled DEF Ready
      <4> QED
        BY <2>1, <4>1, <4>2
    <3>5. Parent[k] # NoItem => Unspoiled(Parent[k])'
      BY <1>5, <3>4 DEF Calm
    <3> QED
      BY <2>1, <3>1, <3>3, <3>5 DEF Handed, setRow
  <2>2. CASE ~(loop'.at = "submit" /\ k \in next)
    BY <1>4, <2>2 DEF Handed
  <2> QED
    BY <2>1, <2>2
<1>8. ReaderOK'
  BY <1>2, ReaderKeeps
<1>9. CountOwed'
  BY <1>4, OwedBusy
<1> QED
  BY <1>1, <1>2, <1>3, <1>4, <1>6, <1>7, <1>8, <1>9, LoopMoves DEF IInv, Typed, setRow, process

LEMMA Reconciled ==
  ASSUME SetsAssumption, IInv, BootReconcile \/ ReadSet
  PROVE  IInv' /\ Stages
<1> DEFINE todo == {x \in Items \X (1 .. Attempts) :
                      /\ state[x[1]] = "queued" /\ attempts[x[1]] = x[2]
                      /\ job[x] \in Ended}
<1>1. /\ phase \notin {"before", "down"} /\ loop.at = "free" /\ reader.at = "idle" /\ UNCHANGED process
      /\ IF todo = {}
         THEN Finish(canceledAt, {}) /\ UNCHANGED thread
         ELSE /\ reader' = WorkingReader(todo, canceledAt)
              /\ UNCHANGED <<items, setRow, job, notices, thread, loop>>
  BY DEF BootReconcile, ReadSet, Reconcile, WorkingReader
<1>2. UNCHANGED setRow
  BY <1>1 DEF Finish
<1>3. canceledAt \in BOOLEAN /\ thread \in [Callers -> Threads] /\ todo \in SUBSET Runs
  BY DEF IInv, Typed, Runs
<1> HIDE DEF todo
<1>4. CASE todo = {}
  BY <1>1, <1>2, <1>3, <1>4, ReaderFinishes
<1>5. CASE todo # {}
  <2>1. reader' \in Readers /\ reader'.at = "working" /\ reader'.runnable = {}
    BY <1>1, <1>3, <1>5, ReaderTypes
  <2> QED
    BY <1>1, <1>2, <1>3, <1>5, <2>1, ReaderMoves
<1> QED
  BY <1>4, <1>5

LEMMA Resumed ==
  ASSUME SetsAssumption, IInv, Resume
  PROVE  IInv' /\ Stages
<1> DEFINE t == thread["reader"]
           todo == {x \in reader.todo : x # <<t.item, t.n>>}
           R == reader.runnable \cup t.left
           r == [reader EXCEPT !.todo = todo, !.runnable = R]
<1>1. /\ loop.at = "free" /\ reader.at = "working" /\ t.at = "back" /\ thread' = [thread EXCEPT !["reader"] = NoThread]
      /\ UNCHANGED process
      /\ IF todo = {}
         THEN Finish(reader.canceled, R)
         ELSE reader' = r /\ UNCHANGED <<items, setRow, job, notices, loop>>
  BY DEF Resume
<1>2. /\ "reader" \in Callers /\ t \in Threads /\ ThreadOK("reader") /\ t.left \in SUBSET Items
      /\ reader \in Readers /\ reader.todo \in SUBSET Runs /\ reader.runnable \in SUBSET Items
      /\ reader.canceled \in BOOLEAN /\ ReaderOK /\ thread \in [Callers -> Threads]
  BY Fields DEF IInv, Typed, Callers
<1>3. phase \notin {"before", "down"}
  <2>1. thread["reader"].at # "idle"
    BY <1>1
  <2> QED
    BY <1>2, <2>1, Serves
<1>4. \A k \in R : Parent[k] # NoItem /\ Unspoiled(Parent[k])
  <2>1. ASSUME NEW k \in t.left PROVE Parent[k] # NoItem /\ Unspoiled(Parent[k])
    <3>1. t.item \in Items /\ t.left \subseteq Children(t.item) /\ Unspoiled(t.item)
      BY <1>1, <1>2, <2>1 DEF ThreadOK, Released
    <3> QED
      BY <2>1, <3>1, Parents
  <2> QED
    BY <1>2, <2>1 DEF ReaderOK
<1>5. /\ thread' \in [Callers -> Threads]
      /\ \A d \in Callers : thread'[d] = thread[d] \/ thread'[d] = NoThread
  BY <1>1, <1>2, NoThreadType
<1>6. todo \in SUBSET Runs /\ R \in SUBSET Items
  BY <1>2
<1> HIDE DEF todo, R
<1>7. CASE todo = {}
  <2>1. UNCHANGED setRow /\ Finish(reader.canceled, R)
    BY <1>1, <1>7 DEF Finish
  <2> QED
    BY <1>1, <1>2, <1>3, <1>4, <1>5, <1>6, <2>1, ReaderFinishes
<1>8. CASE todo # {}
  <2>1. reader' = r /\ UNCHANGED <<items, setRow, job, notices, loop>>
    BY <1>1, <1>8
  <2>2. r \in Readers /\ r.at = reader.at /\ r.runnable = R
    BY <1>2, <1>6 DEF Readers, Runs
  <2>3. reader.at = "working"
    BY <1>1
  <2> QED
    BY <1>1, <1>3, <1>4, <1>5, <2>1, <2>2, <2>3, ReaderMoves
<1> QED
  BY <1>7, <1>8

-----------------------------------------------------------------------------
(* The requests.                                                           *)

(* Retry and rerun: items go back to pending, and the loop takes some.     *)
LEMMA ItemsReset ==
  ASSUME SetsAssumption, IInv, Serving, canceledAt' = FALSE,
         UNCHANGED <<attempts, cached, deleted, job, notices, thread, reader, phase, crashes>>,
         state' \in [Items -> States],
         \A i \in Items : state'[i] = state[i]
           \/ (state'[i] = "pending" /\ state[i] \in Finished \cup {"blocked"} /\ attempts[i] < Attempts),
         loop' \in Loops, loop'.at \in {"settle", "submit"}, loop'.made = {}, loop'.new = {},
         \A i \in loop'.todo : state'[i] = "pending"
           /\ (loop'.at = "submit" /\ Parent[i] # NoItem => state[Parent[i]] = "succeeded")
  PROVE  IInv' /\ Stages
<1>1. /\ phase = "serving" /\ loop.at = "free" /\ loop.made = {} /\ requests' \in 0 .. MaxRequests
      /\ loop'.todo \in SUBSET Items
  BY DEF Serving, IInv, LoopOK, Typed, SetsAssumption, Loops
<1>2. Typed'
  BY <1>1 DEF IInv, Typed
<1>3. ASSUME NEW i \in Items PROVE Own(i)'
  <2>1. Own(i) /\ attempts[i] \in Nat
    BY <1>3, Numbers DEF IInv
  <2>2. state'[i] = state[i]
        \/ (state'[i] = "pending" /\ state[i] \in Finished \cup {"blocked"} /\ attempts[i] < Attempts)
    BY <1>3
  <2> QED
    BY <1>1, <2>1, <2>2 DEF Own, Beyond, Finished, Waiting
<1>4. ASSUME NEW p \in Items PROVE Calm(p)
  <2>1. state'[p] = state[p] \/ state'[p] = "pending"
    BY <1>4
  <2> QED
    BY <2>1 DEF Calm, Unspoiled
<1>5. ASSUME NEW i \in Items PROVE InLoop(i)'
  <2>1. i \in loop'.todo /\ loop'.at = "submit" /\ Parent[i] # NoItem => Unspoiled(Parent[i])'
    <3> SUFFICES ASSUME i \in loop'.todo, loop'.at = "submit", Parent[i] # NoItem
                 PROVE  Unspoiled(Parent[i])'
      OBVIOUS
    <3>1. PICK p \in Items : p = Parent[i]
      BY <1>5, Parents
    <3>2. state[p] = "succeeded"
      BY <3>1
    <3>3. Unspoiled(p)'
      BY <1>4, <3>2, SucceededUnspoiled DEF Calm
    <3> QED
      BY <3>1, <3>3
  <2> QED
    BY <2>1 DEF InLoop, Waiting
<1>6. (\A c \in Callers : ThreadOK(c)') /\ ReaderOK'
  BY <1>4, ThreadKeeps, ReaderKeeps
<1>7. LoopOK'
  BY <1>1 DEF LoopOK
<1>8. CountOwed'
  BY OwedBusy
<1>9. Stages
  BY DEF Stages, CreatedUnderSuccess, CanceledSetStops
<1> QED
  BY <1>2, <1>3, <1>5, <1>6, <1>7, <1>8, <1>9 DEF IInv

LEMMA Retried ==
  ASSUME SetsAssumption, IInv, NEW b \in BOOLEAN, Retry(b)
  PROVE  IInv' /\ Stages
<1> DEFINE targets == {i \in Items : \/ state[i] \in {"failed", "invalid"}
                                     \/ b /\ state[i] = "canceled"}
           under == UNION {Descendants[i] : i \in targets}
<1>1. /\ Serving /\ \A i \in targets : Resettable(i)
      /\ Reset(targets, under) /\ loop' = Loop("settle", targets)
      /\ UNCHANGED <<attempts, cached, deleted, job, notices, thread, reader, phase, crashes>>
  BY DEF Retry
<1>2. /\ state' = [i \in Items |-> IF i \in targets \/ (i \in under /\ state[i] = "blocked")
                                   THEN "pending" ELSE state[i]]
      /\ canceledAt' = FALSE
  BY <1>1 DEF Reset
<1>3. targets \in SUBSET Items /\ \A i \in targets : state[i] \in Finished /\ attempts[i] < Attempts
  BY <1>1 DEF Resettable, Finished
<1> HIDE DEF targets, under
<1>4. /\ loop' \in Loops /\ loop'.at = "settle" /\ loop'.todo = targets
      /\ loop'.made = {} /\ loop'.new = {}
  BY <1>1, <1>3, LoopTypes
<1>5. ASSUME NEW i \in Items
      PROVE  state'[i] = state[i]
             \/ (state'[i] = "pending" /\ state[i] \in Finished \cup {"blocked"} /\ attempts[i] < Attempts)
  <2>1. Own(i)
    BY <1>5 DEF IInv
  <2> QED
    BY <1>2, <1>3, <1>5, <2>1 DEF Own, Waiting
<1>6. state' \in [Items -> States]
  BY <1>2 DEF IInv, Typed, States, InFlight
<1>7. \A i \in loop'.todo : state'[i] = "pending"
  BY <1>2, <1>3, <1>4
<1> QED
  BY <1>1, <1>2, <1>4, <1>5, <1>6, <1>7, ItemsReset

LEMMA Reran ==
  ASSUME SetsAssumption, IInv, NEW i \in Items, NEW b \in BOOLEAN, Rerun(i, b)
  PROVE  IInv' /\ Stages
<1> DEFINE below == {k \in Descendants[i] : b /\ state[k] \notin InFlight}
           back == below \cup {i}
           under == IF b THEN {} ELSE Descendants[i]
<1>1. /\ Serving /\ Rerunnable(i) /\ \A k \in back : Resettable(k)
      /\ Reset(back, under) /\ loop' = Loop("submit", {i})
      /\ UNCHANGED <<attempts, cached, deleted, job, notices, thread, reader, phase, crashes>>
  BY DEF Rerun
<1>2. /\ state' = [k \in Items |-> IF k \in back \/ (k \in under /\ state[k] = "blocked")
                                   THEN "pending" ELSE state[k]]
      /\ canceledAt' = FALSE
  BY <1>1 DEF Reset
<1>3. ASSUME NEW k \in back
      PROVE  k \in Items /\ state[k] \in Finished \cup {"blocked"} /\ attempts[k] < Attempts
  <2>1. k \in Items
    BY <1>3, Parents
  <2>2. state[k] \notin InFlight /\ state[k] \in States
    BY <1>1, <1>3, <2>1, Numbers DEF Rerunnable, Finished, InFlight, IInv
  <2> QED
    BY <1>1, <1>3, <2>1, <2>2 DEF Resettable, States
<1>4. Parent[i] # NoItem => state[Parent[i]] = "succeeded"
  BY <1>1 DEF Rerunnable
<1>5. i \in back
  OBVIOUS
<1> HIDE DEF back, under
<1>6. /\ loop' \in Loops /\ loop'.at = "submit" /\ loop'.todo = {i}
      /\ loop'.made = {} /\ loop'.new = {}
  BY <1>1, LoopTypes
<1>7. ASSUME NEW k \in Items
      PROVE  state'[k] = state[k]
             \/ (state'[k] = "pending" /\ state[k] \in Finished \cup {"blocked"} /\ attempts[k] < Attempts)
  <2>1. Own(k)
    BY <1>7 DEF IInv
  <2> QED
    BY <1>2, <1>3, <1>7, <2>1 DEF Own, Waiting
<1>8. state' \in [Items -> States]
  BY <1>2 DEF IInv, Typed, States, InFlight
<1>9. state'[i] = "pending"
  BY <1>2, <1>5
<1> QED
  BY <1>1, <1>2, <1>4, <1>6, <1>7, <1>8, <1>9, ItemsReset

LEMMA SetCanceled ==
  ASSUME SetsAssumption, IInv, CancelSet
  PROVE  IInv' /\ Stages
<1> DEFINE waiting == {x \in DOMAIN job : /\ state[x[1]] = "queued" /\ attempts[x[1]] = x[2]
                                          /\ job[x] = "queued"}
<1>1. /\ Serving /\ canceledAt' = TRUE
      /\ state' = [i \in Items |-> IF Stopped(i) THEN "canceled" ELSE state[i]]
      /\ job' = [x \in DOMAIN job |-> IF x \in waiting THEN "canceled" ELSE job[x]]
      /\ notices' = notices \cup waiting /\ loop' = Loop("count", {})
      /\ UNCHANGED <<attempts, cached, deleted, thread, reader, phase, crashes>>
  BY DEF CancelSet
<1>2. /\ phase = "serving" /\ loop.at = "free" /\ loop.made = {} /\ requests' \in 0 .. MaxRequests
      /\ job \in [Runs -> JobStates] /\ waiting \in SUBSET Runs
      /\ \A x \in waiting : job[x] = "queued"
  BY <1>1 DEF Serving, IInv, LoopOK, Typed, SetsAssumption
<1> HIDE DEF waiting
<1>3. /\ loop' \in Loops /\ loop'.at = "count" /\ loop'.todo = {} /\ loop'.made = {} /\ loop'.new = {}
  BY <1>1, LoopTypes
<1>4. \A x \in Runs : job'[x] = IF x \in waiting THEN "canceled" ELSE job[x]
  BY <1>1, <1>2
<1>5. Typed'
  <2>1. job' \in [Runs -> JobStates] /\ notices' \in SUBSET Runs
    BY <1>1, <1>2, <1>4 DEF JobStates, Ended, IInv, Typed
  <2>2. state' \in [Items -> States]
    BY <1>1 DEF IInv, Typed, States, Finished
  <2> QED
    BY <1>1, <1>2, <1>3, <2>1, <2>2 DEF IInv, Typed
<1>6. \A x \in Runs : \/ job'[x] = job[x]
                      \/ job[x] = "queued" /\ job'[x] = "canceled"
  BY <1>2, <1>4
<1>7. ASSUME NEW i \in Items PROVE Own(i)'
  <2>1. /\ Own(i) /\ attempts[i] \in Nat
        /\ \A m \in 1 .. Attempts : job'[<<i, m>>] = job[<<i, m>>]
             \/ (job[<<i, m>>] = "queued" /\ job'[<<i, m>>] = "canceled")
    BY <1>6, <1>7, Numbers DEF IInv
  <2>2. state'[i] = IF state[i] \in Waiting THEN "canceled" ELSE state[i]
    BY <1>1, <1>7 DEF Stopped, Waiting
  <2>3. \A n \in Nat : Beyond(i, n) => Beyond(i, n)'
    BY <2>1 DEF Beyond
  <2>4. \A m \in 1 .. Attempts : job'[<<i, m>>] \in Live => job[<<i, m>>] \in Live
    BY <2>1 DEF Live
  <2>5. attempts[i] \in 1 .. Attempts /\ job[<<i, attempts[i]>>] = "done" => job'[<<i, attempts[i]>>] = "done"
    BY <2>1
  <2>6. attempts[i] > 0 => attempts[i] \in 1 .. Attempts
    BY <1>7, Numbers DEF IInv
  <2>7. Beyond(i, attempts[i] + 1)' /\ (Beyond(i, attempts[i]) => Beyond(i, attempts[i])')
    BY <1>1, <2>1, <2>3 DEF Own, Beyond
  <2> QED
    BY <1>1, <1>2, <2>1, <2>2, <2>4, <2>5, <2>6, <2>7 DEF Own, Waiting
<1>8. ASSUME NEW p \in Items PROVE Calm(p)
  <2>1. \A m \in 1 .. Attempts : job'[<<p, m>>] = "done" => job[<<p, m>>] = "done"
    BY <1>6, <1>8, Numbers DEF IInv
  <2>2. state'[p] = state[p] \/ state'[p] = "canceled"
    BY <1>1, <1>8
  <2> QED
    BY <1>1, <2>1, <2>2 DEF Calm, Unspoiled
<1>9. \A i \in Items : InLoop(i)'
  BY <1>3 DEF InLoop
<1>10. (\A c \in Callers : ThreadOK(c)') /\ ReaderOK'
  <2>1. \A x \in Runs : job[x] \in Ended => job'[x] = job[x]
    BY <1>6 DEF Ended
  <2> QED
    BY <1>1, <1>8, <2>1, ThreadKeeps, ReaderKeeps
<1>11. LoopOK'
  BY <1>1, <1>2, <1>3 DEF LoopOK
<1>12. CountOwed'
  BY <1>3, OwedBusy
<1>13. Stages
  <2>1. DOMAIN job = Runs /\ \A x \in Runs : job[x] = "absent" => job'[x] = "absent"
    BY <1>2, <1>6
  <2> QED
    BY <2>1 DEF Stages, CreatedUnderSuccess, CanceledSetStops, Runs
<1> QED
  BY <1>5, <1>7, <1>9, <1>10, <1>11, <1>12, <1>13 DEF IInv

LEMMA Deleted ==
  ASSUME SetsAssumption, IInv, Delete
  PROVE  IInv' /\ Stages
<1>1. /\ deleted' = TRUE /\ requests' \in 0 .. MaxRequests
      /\ UNCHANGED <<items, cached, canceledAt, job, notices, thread, reader, loop, phase, crashes>>
  BY DEF Delete, Serving, IInv, Typed, SetsAssumption
<1>2. Typed'
  BY <1>1 DEF IInv, Typed, items
<1>3. \A p \in Items : Calm(p)
  BY <1>1 DEF Calm, Unspoiled, items
<1>4. \A i \in Items : Own(i)' /\ InLoop(i)'
  BY <1>1 DEF IInv, Own, Beyond, InLoop, Unspoiled, items
<1>5. (\A c \in Callers : ThreadOK(c)') /\ ReaderOK'
  BY <1>1, <1>3, ThreadKeeps, ReaderKeeps
<1>6. LoopOK' /\ CountOwed'
  BY <1>1 DEF IInv, LoopOK, CountOwed, items
<1>7. Stages
  BY <1>1 DEF Stages, CreatedUnderSuccess, CanceledSetStops
<1> QED
  BY <1>2, <1>4, <1>5, <1>6, <1>7 DEF IInv

-----------------------------------------------------------------------------
(* The queue and the process.                                              *)

(* A job that starts or ends; what hangs from an item whose job ends is    *)
(* held by nobody.                                                         *)
LEMMA JobMoves ==
  ASSUME SetsAssumption, IInv, NEW i \in Items, NEW n \in 1 .. Attempts,
         loop.at = "free", phase \notin {"before", "down"}, job[<<i, n>>] \in Live,
         NEW s \in {"running"} \cup Ended, job' = [job EXCEPT ![<<i, n>>] = s],
         s = "running" \/ Recorded(i), notices' \in SUBSET Runs,
         UNCHANGED <<items, setRow, thread, reader, loop, process>>
  PROVE  IInv' /\ Stages
<1>1. /\ job \in [Runs -> JobStates] /\ <<i, n>> \in Runs /\ loop.made = {} /\ loop.todo = {}
  BY DEF IInv, Typed, LoopOK, Runs
<1>2. \A x \in Runs : job'[x] = IF x = <<i, n>> THEN s ELSE job[x]
  BY <1>1
<1>3. Typed'
  <2>1. job' \in [Runs -> JobStates]
    BY <1>1, <1>2 DEF JobStates, Live
  <2> QED
    BY <2>1 DEF IInv, Typed, items, setRow, process
<1>4. ASSUME NEW j \in Items PROVE Own(j)'
  <2>1. /\ Own(j) /\ attempts[j] \in Nat /\ \A m \in 1 .. Attempts : m \in Nat /\ <<j, m>> \in Runs
        /\ (attempts[j] > 0 => attempts[j] \in 1 .. Attempts)
    BY <1>4, Numbers DEF IInv
  <2>2. \A m \in 1 .. Attempts :
          \/ job'[<<j, m>>] = job[<<j, m>>]
          \/ job[<<j, m>>] \in Live /\ job'[<<j, m>>] \in {"running"} \cup Ended
    BY <1>2, <2>1
  <2>3. \A m \in 1 .. Attempts :
          /\ job[<<j, m>>] = "absent" => job'[<<j, m>>] = "absent"
          /\ job[<<j, m>>] = "done" => job'[<<j, m>>] = "done"
          /\ job'[<<j, m>>] \in Live => job[<<j, m>>] \in Live
    BY <2>2 DEF Live, Ended
  <2>4. state'[j] = state[j] /\ attempts'[j] = attempts[j] /\ canceledAt' = canceledAt
        /\ loop' = loop /\ crashes' = crashes
    BY DEF items, setRow, process
  <2>5. Beyond(j, attempts[j] + 1)' /\ (Beyond(j, attempts[j]) => Beyond(j, attempts[j])')
    BY <2>1, <2>3, <2>4 DEF Own, Beyond
  <2> QED
    BY <2>1, <2>3, <2>4, <2>5 DEF Own
<1>5. ASSUME NEW p \in Items, p # i \/ s = "running" PROVE Calm(p)
  <2>1. \A m \in 1 .. Attempts : job'[<<p, m>>] = "done" => job[<<p, m>>] = "done"
    BY <1>2, <1>5, Numbers DEF IInv
  <2> QED
    BY <2>1 DEF Calm, Unspoiled, items
<1>6. ASSUME NEW j \in Items PROVE InLoop(j)'
  BY <1>1 DEF InLoop
<1>7. ASSUME NEW d \in Callers PROVE ThreadOK(d)'
  <2>1. \A p \in Items : p = thread[d].item => Calm(p)
    BY <1>5, <1>7 DEF Recorded
  <2>2. \A x \in Runs : job[x] \in Ended => job'[x] = job[x]
    BY <1>2 DEF Live, Ended
  <2> QED
    BY <1>7, <2>1, <2>2, ThreadKeeps
<1>8. ReaderOK'
  <2>1. ReaderOK /\ reader.runnable \in SUBSET Items
    BY Fields DEF IInv
  <2>2. ASSUME NEW k \in reader.runnable PROVE Parent[k] # NoItem /\ Unspoiled(Parent[k])'
    <3>1. k \in Items /\ Parent[k] # NoItem /\ Unspoiled(Parent[k])
      BY <2>1, <2>2 DEF ReaderOK
    <3>2. PICK p \in Items : p = Parent[k]
      BY <3>1, Parents
    <3>3. p # i \/ s = "running"
      BY <2>2, <3>1, <3>2 DEF Recorded, Children
    <3> QED
      BY <1>5, <3>1, <3>2, <3>3 DEF Calm
  <2> QED
    BY <2>1, <2>2 DEF ReaderOK
<1>9. LoopOK'
  BY DEF IInv, LoopOK, process
<1>10. CountOwed'
  BY OwedSame DEF Due, items, setRow, process
<1>11. Stages
  <2>1. \A x \in Runs : (job[x] = "absent" => job'[x] = "absent")
    BY <1>2 DEF Live
  <2> QED
    BY <1>1, <2>1 DEF Stages, CreatedUnderSuccess, CanceledSetStops, Runs
<1> QED
  BY <1>3, <1>4, <1>6, <1>7, <1>8, <1>9, <1>10, <1>11 DEF IInv

LEMMA JobStepped ==
  ASSUME SetsAssumption, IInv, NEW i \in Items, NEW n \in 1 .. Attempts,
         JobStarts(i, n) \/ JobEnds(i, n)
  PROVE  IInv' /\ Stages
<1>1. notices \in SUBSET Runs /\ <<i, n>> \in Runs
  BY DEF IInv, Typed, Runs
<1>2. CASE JobStarts(i, n)
  BY <1>1, <1>2, JobMoves DEF JobStarts, Live
<1>3. CASE JobEnds(i, n)
  <2>1. PICK s \in Ended : /\ job[<<i, n>>] \in Live
                           /\ job' = [job EXCEPT ![<<i, n>>] = s]
    BY <1>3 DEF JobEnds, Live
  <2> QED
    BY <1>1, <1>3, <2>1, JobMoves DEF JobEnds
<1> QED
  BY <1>2, <1>3

LEMMA Crashed ==
  ASSUME SetsAssumption, IInv, Crash
  PROVE  IInv' /\ Stages
<1>1. /\ phase' = "down" /\ crashes' \in 0 .. MaxCrashes /\ crashes' > 0 /\ notices' = {}
      /\ thread' = [c \in Callers |-> NoThread] /\ reader' = NoReader /\ loop' = NoLoop
      /\ UNCHANGED <<items, setRow, job, requests>>
  BY DEF Crash, IInv, Typed, SetsAssumption
<1>2. Typed'
  BY <1>1, NoThreadType, ReaderTypes, LoopTypes DEF IInv, Typed, items, setRow
<1>3. \A i \in Items : Own(i)'
  BY <1>1 DEF IInv, Own, Beyond, items, setRow
<1>4. \A i \in Items : InLoop(i)'
  BY <1>1, LoopTypes DEF InLoop
<1>5. \A c \in Callers : ThreadOK(c)'
  BY <1>1, NoThreadType DEF ThreadOK, Released
<1>6. ReaderOK'
  BY <1>1, ReaderTypes DEF ReaderOK
<1>7. LoopOK' /\ CountOwed'
  BY <1>1, LoopTypes DEF LoopOK, CountOwed
<1>8. Stages
  BY <1>1 DEF Stages, CreatedUnderSuccess, CanceledSetStops
<1> QED
  BY <1>2, <1>3, <1>4, <1>5, <1>6, <1>7, <1>8 DEF IInv

LEMMA Restarted ==
  ASSUME SetsAssumption, IInv, Restart
  PROVE  IInv' /\ Stages
<1>1. /\ phase = "down" /\ phase' \in {"boot", "serving"}
      /\ UNCHANGED <<items, setRow, notices, thread, reader, loop, requests, crashes>>
      /\ job \in [Runs -> JobStates] /\ crashes > 0
      /\ loop = NoLoop /\ reader = NoReader /\ thread = [c \in Callers |-> NoThread]
  BY DEF Restart, IInv, Typed, LoopOK
<1>2. PICK ended \in [{x \in Runs : job[x] = "running"} -> {"done", "canceled"}] :
        job' = [x \in Runs |-> IF x \in DOMAIN ended THEN ended[x] ELSE job[x]]
  BY <1>1 DEF Restart
<1>3. \A x \in Runs : job'[x] = job[x] \/ (job[x] = "running" /\ job'[x] \in {"done", "canceled"})
  BY <1>2
<1>4. Typed'
  <2>1. job' \in [Runs -> JobStates]
    BY <1>1, <1>2, <1>3 DEF JobStates, Ended
  <2> QED
    BY <1>1, <2>1 DEF IInv, Typed, items, setRow
<1>5. ASSUME NEW j \in Items PROVE Own(j)'
  <2>1. /\ Own(j) /\ attempts[j] \in Nat /\ \A m \in 1 .. Attempts : m \in Nat /\ <<j, m>> \in Runs
        /\ (attempts[j] > 0 => attempts[j] \in 1 .. Attempts)
    BY <1>5, Numbers DEF IInv
  <2>2. \A m \in 1 .. Attempts :
          /\ job[<<j, m>>] = "absent" => job'[<<j, m>>] = "absent"
          /\ job[<<j, m>>] = "done" => job'[<<j, m>>] = "done"
          /\ job'[<<j, m>>] \in Live => job[<<j, m>>] \in Live
    BY <1>3, <2>1 DEF Live
  <2>3. state'[j] = state[j] /\ attempts'[j] = attempts[j] /\ canceledAt' = canceledAt
        /\ loop' = loop /\ crashes' = crashes
    BY <1>1 DEF items, setRow
  <2>4. Beyond(j, attempts[j] + 1)' /\ (Beyond(j, attempts[j]) => Beyond(j, attempts[j])')
    BY <2>1, <2>2, <2>3 DEF Own, Beyond
  <2> QED
    BY <2>1, <2>2, <2>3, <2>4 DEF Own
<1>6. \A i \in Items : InLoop(i)'
  BY <1>1, LoopTypes DEF InLoop
<1>7. \A c \in Callers : ThreadOK(c)'
  BY <1>1, NoThreadType DEF ThreadOK, Released
<1>8. ReaderOK'
  BY <1>1, ReaderTypes DEF ReaderOK
<1>9. LoopOK' /\ CountOwed'
  BY <1>1, LoopTypes DEF LoopOK, CountOwed
<1>10. Stages
  <2>1. \A x \in Runs : (job[x] = "absent" => job'[x] = "absent")
    BY <1>3
  <2> QED
    BY <1>1, <2>1 DEF Stages, CreatedUnderSuccess, CanceledSetStops, Runs
<1> QED
  BY <1>4, <1>5, <1>6, <1>7, <1>8, <1>9, <1>10 DEF IInv

-----------------------------------------------------------------------------
(* The theorems.                                                           *)

LEMMA InitHolds == ASSUME SetsAssumption, Init PROVE IInv
<1>1. Typed
  <2>1. 0 \in Attempted /\ 0 \in 0 .. MaxRequests /\ 0 \in 0 .. MaxCrashes
    BY DEF SetsAssumption, Attempted
  <2>2. /\ state \in [Items -> States] /\ attempts \in [Items -> Attempted]
        /\ job \in [Runs -> JobStates]
    BY <2>1 DEF Init, States, InFlight, JobStates, Runs
  <2> QED
    BY <2>1, <2>2, NoThreadType, ReaderTypes, LoopTypes DEF Init, Typed, Statuses
<1>2. \A i \in Items : Own(i)
  BY DEF Init, Own, Beyond, Live, SetsAssumption, Waiting
<1>3. \A i \in Items : InLoop(i)
  BY LoopTypes DEF Init, InLoop
<1>4. \A c \in Callers : ThreadOK(c)
  BY NoThreadType DEF Init, ThreadOK, Released
<1>5. ReaderOK /\ LoopOK /\ CountOwed
  BY ReaderTypes, LoopTypes DEF Init, ReaderOK, LoopOK, CountOwed
<1> QED
  BY <1>1, <1>2, <1>3, <1>4, <1>5 DEF IInv

LEMMA StutterHolds == ASSUME IInv, UNCHANGED vars PROVE IInv' /\ Stages
<1>1. UNCHANGED <<state, attempts, cached, canceledAt, deleted, job, notices, thread, reader, loop,
                  phase, requests, crashes>>
  BY DEF vars, items, setRow, process
<1>2. Typed'
  BY <1>1 DEF IInv, Typed
<1>3. \A i \in Items : Own(i)' /\ InLoop(i)'
  BY <1>1 DEF IInv, Own, Beyond, InLoop, Unspoiled
<1>4. \A c \in Callers : ThreadOK(c)'
  BY <1>1 DEF IInv, ThreadOK, Released, Unspoiled
<1>5. ReaderOK' /\ LoopOK' /\ CountOwed'
  BY <1>1 DEF IInv, ReaderOK, LoopOK, CountOwed, Unspoiled, Due, StatusOf
<1>6. Stages
  BY <1>1 DEF Stages, CreatedUnderSuccess, CanceledSetStops
<1> QED
  BY <1>2, <1>3, <1>4, <1>5, <1>6 DEF IInv

LEMMA StepHolds == ASSUME SetsAssumption, IInv, [Next]_vars PROVE IInv' /\ Stages
<1>1. CASE UNCHANGED vars
  BY <1>1, StutterHolds
<1>2. CASE CreateSet
  BY <1>2, SetCreated
<1>3. CASE LoopStep
  <2>1. CASE Submit
    BY <2>1, Submitted
  <2>2. CASE Settle
    BY <2>2, SettledStep
  <2>3. CASE LoopCounts
    BY <2>3, LoopCounted
  <2>4. CASE LoopStores
    BY <2>4, LoopStored
  <2>5. ASSUME NEW i \in Items, CreateJob(i) \/ LinkJob(i) PROVE IInv' /\ Stages
    BY <2>5, Created, Linked
  <2> QED
    BY <1>3, <2>1, <2>2, <2>3, <2>4, <2>5 DEF LoopStep
<1>4. ASSUME NEW c \in Callers, ThreadStep(c) PROVE IInv' /\ Stages
  BY <1>4, Moved, Listed, Blocked, Counted DEF ThreadStep
<1>5. ASSUME NEW i \in Items, Begins(i) \/ Advance(i) PROVE IInv' /\ Stages
  BY <1>5, Begun, Advanced
<1>6. CASE ReaderStep
  <2>1. PICK i \in Items : TRUE
    BY <1>6 DEF ReaderStep
  <2> QED
    BY <1>6, <2>1, Begun
<1>7. CASE Resume \/ BootReconcile \/ ReadSet
  BY <1>7, Resumed, Reconciled
<1>8. CASE Request
  BY <1>8, Retried, Reran, SetCanceled, Deleted DEF Request
<1>9. ASSUME NEW i \in Items, NEW n \in 1 .. Attempts, JobStarts(i, n) \/ JobEnds(i, n)
      PROVE  IInv' /\ Stages
  BY <1>9, JobStepped
<1>10. CASE Crash \/ Restart
  BY <1>10, Crashed, Restarted
<1> QED
  BY <1>1, <1>2, <1>3, <1>4, <1>5, <1>6, <1>7, <1>8, <1>9, <1>10 DEF Next

(* Every reachable state of one variant set satisfies the invariant.       *)
THEOREM Invariant == ASSUME SetsAssumption PROVE Spec => []IInv
<1>1. Init => IInv
  BY InitHolds
<1>2. IInv /\ [Next]_vars => IInv'
  BY StepHolds
<1> QED
  BY <1>1, <1>2, PTL DEF Spec

(* The variables of a variant set keep their types.                        *)
THEOREM TypeCorrect == ASSUME SetsAssumption PROVE Spec => []TypeOK
<1>1. IInv => TypeOK
  BY TypedIsTypeOK DEF IInv
<1> QED
  BY <1>1, Invariant, PTL

(* A job that can still produce an image is the one its item points at; an *)
(* item that has images has them of its latest attempt; and the status     *)
(* column agrees with the items once nothing is under way.                 *)
THEOREM Accounted == ASSUME SetsAssumption PROVE Spec => []ItemsAccounted
<1>1. ASSUME IInv PROVE ItemsAccounted
  <2>1. NoUnownedWork
    BY <1>1 DEF IInv, Own, NoUnownedWork
  <2>2. JudgedByItsJob
    BY <1>1 DEF IInv, Own, JudgedByItsJob
  <2>3. StatusSettled
    <3> SUFFICES ASSUME Quiet, crashes = 0, ~deleted PROVE cached = StatusOf
      BY DEF StatusSettled
    <3>1. ~Due /\ phase # "before" /\ loop.at = "free"
      BY DEF Quiet, Due
    <3> QED
      BY <1>1, <3>1 DEF IInv, CountOwed
  <2> QED
    BY <2>1, <2>2, <2>3 DEF ItemsAccounted
<1> QED
  BY <1>1, Invariant, PTL

(* Each job appears under a source that has its image at that moment, and  *)
(* none for a set that is canceled and stays so.                           *)
THEOREM InOrder == ASSUME SetsAssumption PROVE Spec => StagesInOrder
<1>1. IInv /\ [Next]_vars => [CreatedUnderSuccess /\ CanceledSetStops]_vars
  BY StepHolds DEF Stages
<1> QED
  BY <1>1, Invariant, PTL DEF Spec, StagesInOrder
=============================================================================
