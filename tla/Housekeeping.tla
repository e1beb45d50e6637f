----------------------------- MODULE Housekeeping -----------------------------
(***************************************************************************)
(* What is kept on disk and for whom: the uploads a request saves before   *)
(* it has a job (routers/common.py), the background sweep of every start   *)
(* (main.py, db.py) which deletes uploads nobody names and old job rows,   *)
(* the rerun of a job from its stored inputs (routers/jobs.py), and the    *)
(* exports, built aside, moved into place and then recorded (artifacts.py).*)
(*                                                                         *)
(* The sweep runs in a thread beside the requests: its list of names, its  *)
(* listing of the directory and each deletion are steps of their own.      *)
(***************************************************************************)
EXTENDS Naturals, FiniteSets, Sequences, SequencesExt

CONSTANTS
  Clients,      \* requests that may be open at once
  Inputs,       \* the most uploads one request carries
  Keep,         \* JOB_HISTORY_KEEP
  MaxFiles,     \* bound: uploads ever saved
  MaxJobs,      \* bound: job rows ever written
  MaxArtifacts, \* bound: exports ever built
  MaxStarts     \* bound: starts of the backend

VARIABLES
  files,    \* the uploads on disk
  old,      \* those last written more than thirty minutes ago
  made,     \* uploads saved so far: stamp_name never repeats one
  open,     \* the uploads each open request has saved
  jobs,     \* the job table, by id
  order,    \* its terminal rows, in the order they finished
  nextJob,  \* the id the next row gets
  sweep,    \* the background sweep: its step, the names it keeps, its listing
  exports,  \* the exports, by token
  starts    \* how often the backend has started

requestVars == <<made, open>>
jobVars == <<jobs, order, nextJob>>
vars == <<files, old, requestVars, jobVars, sweep, exports, starts>>

Terminal == {"done", "error", "canceled"}
Resting == [at |-> "rest", keep |-> {}, todo |-> {}, young |-> {}]

\* A pass over the files has read its names and has not ended.
Passing == sweep.at \in {"list", "files"}

Init ==
  /\ files = {} /\ old = {} /\ made = 0
  /\ open = [c \in Clients |-> {}]
  /\ jobs = <<>> /\ order = <<>> /\ nextJob = 1
  /\ sweep = Resting
  /\ exports = [a \in 1..MaxArtifacts |-> [at |-> "none", file |-> FALSE, row |-> FALSE,
                                           expired |-> FALSE]]
  /\ starts = 1

-----------------------------------------------------------------------------
(* Requests *)

\* One upload of a request is decoded and written: an empty, oversized or
\* undecodable one writes nothing and ends the request, and whatever it had
\* saved before stays on disk with nobody to name it.
SaveUpload(c) ==
  /\ Cardinality(open[c]) < Inputs
  /\ \/ /\ made < MaxFiles
        /\ made' = made + 1
        /\ files' = files \union {made + 1}
        /\ open' = [open EXCEPT ![c] = @ \union {made + 1}]
        /\ sweep' = IF Passing THEN [sweep EXCEPT !.young = @ \union {made + 1}] ELSE sweep
     \/ /\ open[c] # {}
        /\ open' = [open EXCEPT ![c] = {}]
        /\ UNCHANGED <<made, files, sweep>>
  /\ UNCHANGED <<old, jobVars, exports, starts>>

\* A new row of the job table.
Row(inputs, ofSet) ==
  [inputs |-> inputs, status |-> "queued", set |-> ofSet, image |-> "none"]

\* The request is accepted: its job names every file it saved.
Submitted(c) ==
  /\ open[c] # {}
  /\ nextJob <= MaxJobs
  /\ \E ofSet \in BOOLEAN : jobs' = jobs @@ (nextJob :> Row(open[c], ofSet))
  /\ nextJob' = nextJob + 1
  /\ open' = [open EXCEPT ![c] = {}]
  /\ UNCHANGED <<files, old, made, order, sweep, exports, starts>>

\* A job ends; one that succeeded may have put an image in the gallery.
Finished(j) ==
  /\ jobs[j].status = "queued"
  /\ \E s \in Terminal, i \in {"none", "live"} :
       /\ s # "done" => i = "none"
       /\ jobs' = [jobs EXCEPT ![j].status = s, ![j].image = i]
  /\ order' = Append(order, j)
  /\ UNCHANGED <<files, old, requestVars, nextJob, sweep, exports, starts>>

\* An image goes to the trash or comes back from it.
Trashed(j) ==
  /\ jobs[j].image \in {"live", "trashed"}
  /\ jobs' = [jobs EXCEPT ![j].image = IF @ = "live" THEN "trashed" ELSE "live"]
  /\ UNCHANGED <<files, old, requestVars, order, nextJob, sweep, exports, starts>>

\* rerun: a new row with the stored inputs; a plain retry of a failed job then
\* takes the failed row out of the queue view.
Rerun(j, reseed) ==
  /\ nextJob <= MaxJobs
  /\ \/ reseed
     \/ ~jobs[j].set          \* a set's own retry is VariantSets'
  /\ LET superseded == ~reseed /\ jobs[j].status = "error"
     IN jobs' = (IF superseded THEN [jobs EXCEPT ![j].status = "canceled"] ELSE jobs)
                  @@ (nextJob :> Row(jobs[j].inputs, FALSE))
  /\ nextJob' = nextJob + 1
  /\ UNCHANGED <<files, old, requestVars, order, sweep, exports, starts>>

\* Thirty minutes pass over some file. The age test rests on an assumption: a
\* request and a pass of the sweep together take less than that, so a file of
\* an open request is new, and so is one that was in an open request when the
\* pass read the names, or was saved since.
Aged(f) ==
  /\ f \in files \ old
  /\ \A c \in Clients : f \notin open[c]
  /\ f \notin sweep.young
  /\ old' = old \union {f}
  /\ UNCHANGED <<files, requestVars, jobVars, sweep, exports, starts>>

-----------------------------------------------------------------------------
(* The sweep of a start *)

\* referenced_paths: every file a job row names, whatever the job's state.
ReferencedPaths == UNION {jobs[j].inputs : j \in DOMAIN jobs}

\* The names are read first, the directory is listed after.
TakeKeep ==
  /\ sweep.at = "keep"
  /\ sweep' = [sweep EXCEPT !.at = "list", !.keep = ReferencedPaths,
                          !.young = UNION {open[c] : c \in Clients}]
  /\ UNCHANGED <<files, old, requestVars, jobVars, exports, starts>>

ListDirectory ==
  /\ sweep.at = "list"
  /\ sweep' = [sweep EXCEPT !.at = "files", !.todo = files]
  /\ UNCHANGED <<files, old, requestVars, jobVars, exports, starts>>

Mutant_Doomed(f) == f \notin sweep.keep
Doomed(f) == f \notin sweep.keep /\ f \in old

SweepFile(f) ==
  /\ sweep.at = "files" /\ f \in sweep.todo
  /\ sweep' = [sweep EXCEPT !.todo = @ \ {f}]
  /\ files' = IF Doomed(f) THEN files \ {f} ELSE files
  /\ old' = IF Doomed(f) THEN old \ {f} ELSE old
  /\ UNCHANGED <<requestVars, jobVars, exports, starts>>

\* prune_job_history: terminal rows go, except the last to finish, those a
\* live image names and those a set's item names.
Pruned ==
  {j \in DOMAIN jobs : /\ jobs[j].status \in Terminal
                       /\ jobs[j].image # "live"
                       /\ ~jobs[j].set
                       /\ j \notin ToSet(SubSeq(order, Len(order) - Keep + 1, Len(order)))}

PruneHistory ==
  /\ sweep.at = "files" /\ sweep.todo = {}
  /\ jobs' = [j \in DOMAIN jobs \ Pruned |-> jobs[j]]
  /\ order' = SelectSeq(order, LAMBDA j : j \notin Pruned)
  /\ sweep' = [sweep EXCEPT !.at = "exports", !.keep = {}, !.young = {}]
  /\ UNCHANGED <<files, old, requestVars, nextJob, exports, starts>>

\* artifacts.sweep: the trees of the expired exports go first, their rows are
\* committed as gone after.
SweepExports ==
  /\ sweep.at \in {"exports", "rows"}
  /\ LET expired == {a \in DOMAIN exports : exports[a].row /\ exports[a].expired}
     IN exports' = [a \in DOMAIN exports |->
                      IF a \notin expired THEN exports[a]
                      ELSE IF sweep.at = "exports" THEN [exports[a] EXCEPT !.file = FALSE]
                      ELSE [exports[a] EXCEPT !.row = FALSE]]
  /\ sweep' = IF sweep.at = "exports" THEN [sweep EXCEPT !.at = "rows"] ELSE Resting
  /\ UNCHANGED <<files, old, requestVars, jobVars, starts>>

-----------------------------------------------------------------------------
(* Exports *)

\* An export is built in a staging directory of its own, which is removed
\* whether it was published or not.
Build(a) ==
  /\ exports[a].at = "none"
  /\ exports' = [exports EXCEPT ![a].at = "built"]
  /\ UNCHANGED <<files, old, requestVars, jobVars, sweep, starts>>

\* publish: the file is moved under a new token, then the row is written.
Move(a) ==
  /\ exports[a].at = "built"
  /\ exports' = [exports EXCEPT ![a].at = "moved", ![a].file = TRUE]
  /\ UNCHANGED <<files, old, requestVars, jobVars, sweep, starts>>

Record(a) ==
  /\ exports[a].at = "moved"
  /\ exports' = [exports EXCEPT ![a].at = "stored", ![a].row = TRUE, ![a].file = TRUE]
  /\ UNCHANGED <<files, old, requestVars, jobVars, sweep, starts>>

\* Seven days pass over a published export.
Expire(a) ==
  /\ exports[a].row /\ ~exports[a].expired
  /\ exports' = [exports EXCEPT ![a].expired = TRUE]
  /\ UNCHANGED <<files, old, requestVars, jobVars, sweep, starts>>

\* _servable: a row is served while it has not expired and its file is there.
Servable(a) == exports[a].file /\ ~exports[a].expired

\* delete: the row goes first and the directory after it.
DeleteRow(a) ==
  /\ exports[a].row /\ exports[a].at = "stored"
  /\ exports' = [exports EXCEPT ![a].row = FALSE, ![a].at = "unlinking"]
  /\ UNCHANGED <<files, old, requestVars, jobVars, sweep, starts>>

DeleteTree(a) ==
  /\ exports[a].at = "unlinking"
  /\ exports' = [exports EXCEPT ![a].file = FALSE, ![a].at = "gone"]
  /\ UNCHANGED <<files, old, requestVars, jobVars, sweep, starts>>

-----------------------------------------------------------------------------

\* The process dies and comes back: requests and exports under way are lost,
\* rows and files stay, and the sweep starts over.
Restart ==
  /\ starts < MaxStarts
  /\ starts' = starts + 1
  /\ open' = [c \in Clients |-> {}]
  /\ sweep' = [Resting EXCEPT !.at = "keep"]
  /\ exports' = [a \in DOMAIN exports |->
                   IF exports[a].at \in {"built", "moved", "unlinking"}
                     THEN [exports[a] EXCEPT !.at = "gone"] ELSE exports[a]]
  /\ UNCHANGED <<files, old, made, jobVars>>

Next ==
  \/ \E c \in Clients : SaveUpload(c) \/ Submitted(c)
  \/ \E j \in DOMAIN jobs : Finished(j) \/ Trashed(j) \/ \E r \in BOOLEAN : Rerun(j, r)
  \/ \E f \in files : Aged(f)
  \/ TakeKeep \/ ListDirectory \/ PruneHistory \/ SweepExports
  \/ \E f \in sweep.todo : SweepFile(f)
  \/ \E a \in DOMAIN exports :
       Build(a) \/ Move(a) \/ Record(a) \/ Expire(a) \/ DeleteRow(a) \/ DeleteTree(a)
  \/ Restart

Spec == Init /\ [][Next]_vars

-----------------------------------------------------------------------------

TypeOK ==
  /\ old \subseteq files /\ files \subseteq 1..made
  /\ ToSet(order) \subseteq DOMAIN jobs
  /\ sweep.todo \subseteq 1..made

\* Whatever the sweep's reading of the table, its listing and its deletions
\* are interleaved with, every file a job row names, and every file an open
\* request has saved and not yet put in a row, is on disk: a queued job finds
\* its inputs and a rerun finds the ones of the job it repeats
\* (sweep_orphan_files and referenced_paths in db.py).
InputsKept ==
  /\ \A j \in DOMAIN jobs : jobs[j].inputs \subseteq files
  /\ \A c \in Clients : open[c] \subseteq files

\* An export whose row can be read and has not expired has its file, at every
\* instant and over a crash between any two steps (publish, delete and sweep
\* in artifacts.py).
ExportsWhole ==
  \A a \in DOMAIN exports : exports[a].row /\ ~exports[a].expired => Servable(a)

\* Sweeps take nothing that a row still promises.
FilesKept == InputsKept /\ ExportsWhole
=============================================================================
