------------------------------ MODULE WorkerStore ------------------------------
(***************************************************************************)
(* Preparing an adapter on the Remote GPU: the transfer thread of the app, *)
(* the calls on the wire, and the store of the worker, which keeps a file  *)
(* under the hash of its bytes.                                            *)
(*                                                                         *)
(* One resource, for the store keeps each hash by itself.  Any call the    *)
(* app gives up on may still be carried out, once, at any time.  The       *)
(* worker appends on its event loop and hashes in a thread, where other    *)
(* calls go on: a hash is of the file that was open, and what is moved     *)
(* under its name is the file that is there by then.  While bytes are read *)
(* the file may be replaced on the app's disk.                             *)
(***************************************************************************)
EXTENDS Naturals, FiniteSets

CONSTANTS
  Size,         \* chunks of the file
  Tries,        \* CHUNK_TRIES
  MaxTasks,     \* bound on transfers started
  MaxLost,      \* bound on calls given up
  MaxSwaps      \* bound on replacements of the local file

VARIABLES
  local,        \* is the file on the app's disk the one that was hashed
  task,         \* the transfer of this resource, and its thread
  wire,         \* calls that were given up and not carried out yet
  partial,      \* the .part file and its .json on the worker
  hashing,      \* completes that are reading a partial file
  final,        \* the file under its hash
  row,          \* the install the app has recorded
  count,        \* of tasks, lost calls and swaps
  pulled        \* History: a partial file was deleted while a complete that is
                \* to verify was reading it

vars == <<local, task, wire, partial, hashing, final, row, count, pulled>>

NoFile == [there |-> FALSE, got |-> 0, good |-> TRUE]
NoTask == [state |-> "none", cancel |-> FALSE, at |-> "off", offset |-> 0, tries |-> 0]

TypeOK ==
  /\ local \in BOOLEAN /\ row \in BOOLEAN
  /\ task \in [state : {"none", "running", "ready", "failed", "canceled"}, cancel : BOOLEAN,
               at : {"off", "ensure", "loop", "chunk", "cancel", "complete", "hashed"},
               offset : 0 .. Size, tries : 0 .. Tries]
  /\ wire \subseteq [op : {"ensure", "chunk", "cancel", "complete"}, offset : 0 .. Size,
                    good : BOOLEAN, nr : 1 .. MaxLost]
  /\ {partial, final} \subseteq [there : BOOLEAN, got : 0 .. Size, good : BOOLEAN]
  /\ \A h \in hashing : h \in [whole : BOOLEAN, waits : BOOLEAN, nr : 0 .. MaxLost]
  /\ pulled \in BOOLEAN

Init ==
  /\ local = TRUE /\ task = NoTask /\ wire = {} /\ partial = NoFile /\ hashing = {}
  /\ final = NoFile /\ row = FALSE /\ count = [tasks |-> 0, lost |-> 0, swaps |-> 0]
  /\ pulled = FALSE

-----------------------------------------------------------------------------
(* The store.                                                              *)

(* ensure: what is there already, or how much of it is.                    *)
Ensured == [partial EXCEPT !.there = TRUE]

(* append: a chunk at the end of the file and nowhere else.                *)
Appends(offset) == partial.there /\ offset = partial.got /\ partial.got < Size
Appended(good) == [partial EXCEPT !.got = @ + 1, !.good = @ /\ good]

(* complete: all the bytes, whose hash is the name.                        *)
Completes == ~final.there /\ partial.there /\ partial.got = Size
(* Mutant: the size is enough.                                             *)
Mutant_Verified(h) == TRUE
Verified(h) == h.whole

(* The partial file is deleted, whoever reads it.                          *)
Discarded ==
  /\ partial' = NoFile
  /\ pulled' = (pulled \/ (partial.there /\ \E h \in hashing : h.whole))

(* os.replace moves what is there by then; without a file it fails.        *)
Promote(h) ==
  IF Verified(h)
    THEN IF partial.there
           THEN final' = partial /\ partial' = NoFile /\ UNCHANGED pulled
           ELSE UNCHANGED <<final, partial, pulled>>
    ELSE Discarded /\ UNCHANGED final

-----------------------------------------------------------------------------
(* The app.                                                                *)

Running == task.state = "running"
Steps(at) == task' = [task EXCEPT !.at = at, !.tries = 0]
Ends(state) == task' = [NoTask EXCEPT !.state = state]
Waits(h) == h.waits

(* start: one transfer at a time.                                          *)
Start ==
  /\ ~Running /\ count.tasks < MaxTasks
  /\ task' = [NoTask EXCEPT !.state = "running", !.at = "ensure"]
  /\ count' = [count EXCEPT !.tasks = @ + 1]
  /\ UNCHANGED <<local, wire, partial, hashing, final, row, pulled>>

(* cancel: the thread looks at the flag between two chunks.                *)
Cancel ==
  /\ Running /\ task' = [task EXCEPT !.cancel = TRUE]
  /\ UNCHANGED <<local, wire, partial, hashing, final, row, count, pulled>>

(* The install row, once the worker has said that it holds the file.       *)
Record == row' = TRUE /\ Ends("ready")

Ensure ==
  /\ task.at = "ensure"
  /\ CASE final.there /\ final.got = Size -> Record /\ UNCHANGED partial
       [] final.there /\ final.got < Size -> Ends("failed") /\ UNCHANGED <<partial, row>>
       [] OTHER -> /\ partial' = Ensured
                   /\ task' = [task EXCEPT !.at = "loop", !.offset = Ensured.got]
                   /\ UNCHANGED row
  /\ UNCHANGED <<local, wire, hashing, final, count, pulled>>

Loop ==
  /\ task.at = "loop"
  /\ Steps(CASE task.offset = Size                 -> "complete"
             [] task.offset < Size /\ task.cancel -> "cancel"
             [] OTHER                             -> "chunk")
  /\ UNCHANGED <<local, wire, partial, hashing, final, row, count, pulled>>

(* _send: the worker's offset is taken when it disagrees.                  *)
Chunk ==
  /\ task.at = "chunk"
  /\ IF ~partial.there THEN Ends("failed") /\ UNCHANGED partial
     ELSE IF Appends(task.offset)
       THEN /\ partial' = Appended(local)
            /\ task' = [task EXCEPT !.at = "loop", !.offset = @ + 1]
       ELSE task' = [task EXCEPT !.at = "loop", !.offset = partial.got] /\ UNCHANGED partial
  /\ UNCHANGED <<local, wire, hashing, final, row, count, pulled>>

CancelCall ==
  /\ task.at = "cancel" /\ Discarded /\ Ends("canceled")
  /\ UNCHANGED <<local, wire, hashing, final, row, count>>

Complete ==
  /\ task.at = "complete"
  /\ CASE final.there -> Record /\ UNCHANGED hashing
       [] Completes   -> /\ hashing' = hashing \cup {[whole |-> partial.good, waits |-> TRUE, nr |-> 0]}
                         /\ Steps("hashed") /\ UNCHANGED row
       [] OTHER       -> Ends("failed") /\ UNCHANGED <<hashing, row>>
  /\ UNCHANGED <<local, wire, partial, final, count, pulled>>

(* A hash is done; whoever still waits for the answer goes on.             *)
Hashed ==
  /\ \E h \in hashing :
       /\ hashing' = hashing \ {h}
       /\ Promote(h)
       /\ CASE Waits(h) /\ Verified(h) /\ partial.there    -> Record
            [] Waits(h) /\ ~(Verified(h) /\ partial.there) -> Ends("failed") /\ UNCHANGED row
            [] OTHER -> UNCHANGED <<task, row>>
  /\ UNCHANGED <<local, wire, count>>

(* No answer: a chunk is sent again, anything else fails the transfer; and *)
(* what was sent may yet arrive.  A number tells lost calls apart.         *)
Nr == count.lost + 1
GivenUp(op) ==
  wire' = wire \cup {IF op = "chunk"
                      THEN [op |-> op, offset |-> task.offset, good |-> local, nr |-> Nr]
                      ELSE [op |-> op, offset |-> 0, good |-> TRUE, nr |-> Nr]}
NoAnswer ==
  /\ Running /\ count.lost < MaxLost
  /\ count' = [count EXCEPT !.lost = Nr]
  /\ CASE task.at = "chunk" ->
            /\ GivenUp("chunk") /\ UNCHANGED hashing
            /\ IF task.tries + 1 < Tries THEN task' = [task EXCEPT !.tries = @ + 1]
                                         ELSE Ends("failed")
       [] task.at \in {"ensure", "cancel", "complete"} ->
            GivenUp(task.at) /\ Ends("failed") /\ UNCHANGED hashing
       [] task.at = "hashed" ->
            /\ hashing' = {IF Waits(h) THEN [h EXCEPT !.waits = FALSE, !.nr = Nr] ELSE h
                             : h \in hashing}
            /\ Ends("failed") /\ UNCHANGED wire
       [] OTHER -> Ends("failed") /\ UNCHANGED <<wire, hashing>>
  /\ UNCHANGED <<local, partial, final, row, pulled>>

Arrives ==
  /\ \E w \in wire :
       /\ wire' = wire \ {w}
       /\ CASE w.op = "ensure" /\ ~final.there ->
                 partial' = Ensured /\ UNCHANGED <<hashing, pulled>>
            [] w.op = "chunk" /\ Appends(w.offset) ->
                 partial' = Appended(w.good) /\ UNCHANGED <<hashing, pulled>>
            [] w.op = "cancel" -> Discarded /\ UNCHANGED hashing
            [] w.op = "complete" /\ Completes ->
                 /\ hashing' = hashing
                      \cup {[whole |-> partial.good, waits |-> FALSE, nr |-> w.nr]}
                 /\ UNCHANGED <<partial, pulled>>
            [] OTHER -> UNCHANGED <<partial, hashing, pulled>>
  /\ UNCHANGED <<local, task, final, row, count>>

(* Somebody replaces the file in the library, or puts it back.             *)
Swap ==
  /\ count.swaps < MaxSwaps /\ count' = [count EXCEPT !.swaps = @ + 1]
  /\ local' = ~local
  /\ UNCHANGED <<task, wire, partial, hashing, final, row, pulled>>

Next ==
  \/ Start \/ Cancel \/ Ensure \/ Loop \/ Chunk \/ CancelCall \/ Complete \/ Hashed
  \/ NoAnswer \/ Arrives \/ Swap

Spec == Init /\ [][Next]_vars

-----------------------------------------------------------------------------
(* What lies under a hash is the whole file, and an install that was       *)
(* recorded is there, whatever was lost, sent twice or arrived late, as    *)
(* long as no partial file was deleted under a complete that reads it:     *)
(* bytes that changed while they were sent, chunks that arrive twice or    *)
(* out of place and completes that overlap are all found out.              *)
WholeFile == final.got = Size /\ final.good
HeldIsVerified == (final.there /\ ~pulled => WholeFile) /\ (row => final.there)

(* worker/resources.py:6-8, "A resource lands ... only after its full hash *)
(* is verified", without the exception: complete verifies the file it has  *)
(* open and moves the one that has its name by then, which after a DELETE  *)
(* and a new ensure is another, and shorter.                               *)
LandsVerified == final.there => WholeFile
=============================================================================
