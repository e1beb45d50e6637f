-------------------------- MODULE ResourceImports --------------------------
(***************************************************************************)
(* Provider imports (backend/app/resources/imports.py) and the part of the *)
(* intake they end in (import_file of backend/app/resources/intake.py).    *)
(*                                                                         *)
(* An import is a row, a part file in the quarantine directory, and a run  *)
(* on one of the Threads of the pool.  The event loop answers one request  *)
(* at a time, without suspending, but its statements interleave with those *)
(* of the threads.  A file is an inode of Whole chunks, so that a thread   *)
(* whose part file another one has moved or unlinked goes on writing it.   *)
(* Every import has a published sha256.  A crash keeps rows and files.     *)
(*                                                                         *)
(* MaxRequests and MaxCrashes bound the cancels and retries, and the       *)
(* restarts.  Repositories (_run_repo) have no part file and are left out. *)
(***************************************************************************)
EXTENDS Integers, Sequences, FiniteSets, Functions

CONSTANTS
  Tasks,        \* the imports
  Threads,      \* the threads of the pool
  Names,        \* the file names imports ask for
  Contents,     \* what files hold
  NameOf,       \* [Tasks -> Names]
  ContentOf,    \* [Tasks -> Contents]
  Whole,        \* chunks of a file
  MaxRequests,
  MaxCrashes,
  None

(* What the constants are assumed to be; the module that instantiates this *)
(* one states it of their values.                                          *)
ImportsAssumption ==
  /\ NameOf \in [Tasks -> Names]
  /\ ContentOf \in [Tasks -> Contents]
  /\ Whole \in Nat \ {0}
  /\ MaxRequests \in Nat /\ MaxCrashes \in Nat
  /\ None \notin Tasks \cup Contents \cup Names
  /\ \A S \in {Tasks, Threads, Names, Contents} : IsFiniteSet(S)

VARIABLES
  row,       \* state of each import's row
  flag,      \* _CANCEL
  pool,      \* imports submitted to the executor
  thread,    \* what each thread does
  request,   \* what the event loop answers
  part,      \* inode of each part file, or 0
  file,      \* inode of each installed file, or 0
  bytes,     \* what each inode holds
  install,   \* the resource recorded for each location
  requests,  \* cancels and retries so far
  crashes,
  doubled,   \* History: the imports submitted again while an earlier run of
             \* theirs was still in the pool or on a thread
  clashed    \* History: <<location, content>> of the imports of different files
             \* that aimed at one location at once

disk == <<part, file, bytes>>
vars ==
  <<row, flag, pool, thread, request, disk, install, requests, crashes,
    doubled, clashed>>

States == {"none", "queued", "running", "canceling", "canceled", "failed",
           "interrupted", "done"}
Active == {"queued", "running", "canceling"}
Retryable == {"failed", "interrupted", "canceled"}

\* A location is the name asked for, or that name with the digest added.
Locations == Names \X (Contents \cup {None})
Inodes == 1 .. Cardinality(Tasks) + Cardinality(Locations)
               + Cardinality(Threads)

Idle == [at |-> "idle", task |-> None, inode |-> 0, append |-> FALSE,
         pos |-> 0, target |-> None, outcome |-> "none"]
NoRequest == [at |-> "none", task |-> None, seen |-> "none"]

TypeOK ==
  /\ row \in [Tasks -> States]
  /\ flag \subseteq Tasks
  /\ pool \in Seq(Tasks)
  /\ thread \in [Threads ->
       [at: {"idle", "begin", "open", "load", "size", "hash", "vet", "place",
             "register", "drop", "record", "discard"},
        task: Tasks \cup {None}, inode: Inodes \cup {0}, append: BOOLEAN,
        pos: 0 .. Whole - 1, target: Locations \cup {None},
        outcome: {"none", "done", "failed", "canceled"}]]
  /\ request \in [at: {"none", "flag", "cancel", "discard", "queue",
                       "submit"},
                  task: Tasks \cup {None}, seen: States]
  /\ part \in [Tasks -> Inodes \cup {0}]
  /\ file \in [Locations -> Inodes \cup {0}]
  /\ bytes \in [Inodes -> [n: Nat, ok: BOOLEAN, of: Contents \cup {None}]]
  /\ install \in [Locations -> Contents \cup {None}]
  /\ requests \in 0 .. MaxRequests /\ crashes \in 0 .. MaxCrashes
  /\ doubled \subseteq Tasks
  /\ clashed \subseteq Locations \X (Contents \cup {None})

Init ==
  /\ row = [t \in Tasks |-> "none"]
  /\ flag = {} /\ pool = <<>>
  /\ thread = [k \in Threads |-> Idle]
  /\ request = NoRequest
  /\ part = [t \in Tasks |-> 0]
  /\ file = [l \in Locations |-> 0]
  /\ bytes = [i \in Inodes |-> [n |-> 0, ok |-> TRUE, of |-> None]]
  /\ install = [l \in Locations |-> None]
  /\ requests = 0 /\ crashes = 0
  /\ doubled = {} /\ clashed = {}

-----------------------------------------------------------------------------
(* Files. *)

\* The file at l holds all of c.
Holds(l, c) == file[l] # 0 /\ bytes[file[l]] = [n |-> Whole, ok |-> TRUE,
                                                 of |-> c]

\* local_file: a location recorded for c whose file is there.
LocalCopy(c) == \E l \in Locations : install[l] = c /\ file[l] # 0

HasRun(t) == t \in Range(pool) \/ \E k \in Threads : thread[k].task = t

\* Mutant: the digest is never added.
Mutant_Target(t) == <<NameOf[t], None>>

\* Where import_file puts t: under its name, or with the digest added when
\* the name is taken.
Target(t) ==
  LET plain == <<NameOf[t], None>>
  IN  IF file[plain] = 0 THEN plain ELSE <<NameOf[t], ContentOf[t]>>

FreeInode ==
  CHOOSE i \in Inodes : i \notin Range(part) \cup Range(file)
                                   \cup {thread[k].inode : k \in Threads}

\* One chunk at pos: written in place, or at the end of the file.
Written(b, pos, append) ==
  IF append
    THEN [b EXCEPT !.n = @ + 1, !.ok = @ /\ b.n = pos]
    ELSE [b EXCEPT !.n = IF pos < @ THEN @ ELSE pos + 1,
                   !.ok = @ /\ pos <= b.n]

-----------------------------------------------------------------------------
(* Requests, on the event loop. *)

\* create: an import of content that is already here is done at once.
Create(t) ==
  /\ row[t] = "none" /\ request = NoRequest
  /\ IF LocalCopy(ContentOf[t])
       THEN row' = [row EXCEPT ![t] = "done"] /\ UNCHANGED pool
       ELSE /\ row' = [row EXCEPT ![t] = "queued"]
            /\ pool' = Append(pool, t)
  /\ UNCHANGED <<flag, thread, request, disk, install, requests, crashes,
                 doubled, clashed>>

\* cancel reads the row; a row that is neither queued nor running is left.
Cancel(t) ==
  /\ request = NoRequest /\ requests < MaxRequests
  /\ row[t] \in {"queued", "running"}
  /\ request' = [at |-> "flag", task |-> t, seen |-> row[t]]
  /\ requests' = requests + 1
  /\ UNCHANGED <<row, flag, pool, thread, disk, install, crashes, doubled,
                 clashed>>

CancelFlag ==
  /\ request.at = "flag"
  /\ flag' = flag \cup {request.task}
  /\ request' = [request EXCEPT !.at = "cancel"]
  /\ UNCHANGED <<row, pool, thread, disk, install, requests, crashes,
                 doubled, clashed>>

CancelRow ==
  /\ request.at = "cancel"
  /\ row' = [row EXCEPT ![request.task] =
               IF request.seen = "queued" THEN "canceled" ELSE "canceling"]
  /\ request' = NoRequest
  /\ UNCHANGED <<flag, pool, thread, disk, install, requests, crashes,
                 doubled, clashed>>

Retry(t) ==
  /\ request = NoRequest /\ requests < MaxRequests
  /\ row[t] \in Retryable
  /\ request' = [at |-> "discard", task |-> t, seen |-> row[t]]
  /\ requests' = requests + 1
  /\ UNCHANGED <<row, flag, pool, thread, disk, install, crashes, doubled,
                 clashed>>

RetryFlag ==
  /\ request.at = "discard"
  /\ flag' = flag \ {request.task}
  /\ request' = [request EXCEPT !.at = "queue"]
  /\ UNCHANGED <<row, pool, thread, disk, install, requests, crashes,
                 doubled, clashed>>

RetryRow ==
  /\ request.at = "queue"
  /\ row' = [row EXCEPT ![request.task] = "queued"]
  /\ request' = [request EXCEPT !.at = "submit"]
  /\ UNCHANGED <<flag, pool, thread, disk, install, requests, crashes,
                 doubled, clashed>>

RetrySubmit ==
  /\ request.at = "submit"
  /\ pool' = Append(pool, request.task)
  /\ request' = NoRequest
  /\ doubled' = IF HasRun(request.task) THEN doubled \cup {request.task}
                ELSE doubled
  /\ UNCHANGED <<row, flag, thread, disk, install, requests, crashes, clashed>>

-----------------------------------------------------------------------------
(* A run, on a thread of the pool. *)

At(k, step) == thread[k].at = step
Go(k, step) == thread' = [thread EXCEPT ![k].at = step]
End(k, step, outcome) ==
  thread' = [thread EXCEPT ![k].at = step, ![k].outcome = outcome,
                           ![k].inode = 0, ![k].pos = 0, ![k].append = FALSE,
                           ![k].target = None]

\* _run begins by looking at the row and the flag, and may leave it at that.
Pick(k) ==
  /\ At(k, "idle") /\ pool # <<>>
  /\ pool' = Tail(pool)
  /\ LET t == Head(pool)
     IN  IF row[t] = "queued" /\ t \notin flag
           THEN thread' = [thread EXCEPT ![k] =
                             [Idle EXCEPT !.at = "begin", !.task = t]]
           ELSE UNCHANGED thread
  /\ UNCHANGED <<row, flag, request, disk, install, requests, crashes,
                 doubled, clashed>>

Begin(k) ==
  /\ At(k, "begin")
  /\ row' = [row EXCEPT ![thread[k].task] = "running"]
  /\ Go(k, "open")
  /\ UNCHANGED <<flag, pool, request, disk, install, requests, crashes,
                 doubled, clashed>>

\* The provider refuses or does not answer: a refusal that is not worth a
\* retry drops the part file.
OpenFails(k) ==
  /\ At(k, "open")
  /\ \/ End(k, "record", "failed")
     \/ End(k, "drop", "failed")
  /\ UNCHANGED <<row, flag, pool, request, disk, install, requests, crashes,
                 doubled, clashed>>

\* A file is started over unless there is a part to resume and the provider
\* takes the range.
OpenAnew(k) ==
  /\ At(k, "open")
  /\ LET t == thread[k].task
         i == IF part[t] = 0 THEN FreeInode ELSE part[t]
     IN  /\ part' = [part EXCEPT ![t] = i]
         /\ bytes' = [bytes EXCEPT ![i] = [n |-> 0, ok |-> TRUE,
                                           of |-> ContentOf[t]]]
         /\ thread' = [thread EXCEPT ![k].at = "load", ![k].inode = i]
  /\ UNCHANGED <<row, flag, pool, request, file, install, requests, crashes,
                 doubled, clashed>>

\* Resumed at the end of the part, which may have nothing left to fetch (416).
OpenResumed(k) ==
  /\ At(k, "open") /\ part[thread[k].task] # 0
  /\ LET i == part[thread[k].task]
         n == bytes[i].n
     IN  /\ n > 0
         /\ IF n < Whole
              THEN thread' = [thread EXCEPT ![k].at = "load", ![k].inode = i,
                                            ![k].append = TRUE, ![k].pos = n]
              ELSE Go(k, "size")
  /\ UNCHANGED <<row, flag, pool, request, disk, install, requests, crashes,
                 doubled, clashed>>

\* A chunk arrives: the flag is looked at, then the chunk is written.
Load(k) ==
  /\ At(k, "load")
  /\ LET i == thread[k].inode
         pos == thread[k].pos
     IN  IF thread[k].task \in flag
           THEN End(k, "drop", "canceled") /\ UNCHANGED bytes
           ELSE /\ bytes' = [bytes EXCEPT
                               ![i] = Written(@, pos, thread[k].append)]
                /\ IF pos + 1 < Whole
                     THEN thread' = [thread EXCEPT ![k].pos = pos + 1]
                     ELSE End(k, "size", "none")
  /\ UNCHANGED <<row, flag, pool, request, part, file, install, requests,
                 crashes, doubled, clashed>>

\* The connection breaks, or the deadline has passed.
LoadFails(k) ==
  /\ At(k, "load")
  /\ End(k, "record", "failed")
  /\ UNCHANGED <<row, flag, pool, request, disk, install, requests, crashes,
                 doubled, clashed>>

\* The part has its size, or is dropped; one that is gone fails the run.
Measure(k) ==
  /\ At(k, "size")
  /\ LET t == thread[k].task
     IN  IF part[t] # 0 /\ bytes[part[t]].n = Whole
           THEN Go(k, "hash") /\ UNCHANGED part
           ELSE /\ part' = [part EXCEPT ![t] = 0]
                /\ End(k, "record", "failed")
  /\ UNCHANGED <<row, flag, pool, request, file, bytes, install, requests,
                 crashes, doubled, clashed>>

\* The part has the published digest, or is dropped.
Hash(k) ==
  /\ At(k, "hash")
  /\ LET i == part[thread[k].task]
     IN  IF i # 0 /\ bytes[i].n = Whole /\ bytes[i].ok
           THEN Go(k, "vet") ELSE End(k, "drop", "failed")
  /\ UNCHANGED <<row, flag, pool, request, disk, install, requests, crashes,
                 doubled, clashed>>

\* What the choice of l for t adds to the history.
Clash(t, l) ==
  LET aiming == {m \in Threads : At(m, "place") /\ thread[m].target = l}
      met == {ContentOf[thread[m].task] : m \in aiming}
  IN  IF met \subseteq {ContentOf[t]} THEN {}
      ELSE {l} \X (met \cup {ContentOf[t]})

Aim(k, l) ==
  /\ thread' = [thread EXCEPT ![k].at = "place", ![k].target = l]
  /\ clashed' = clashed \cup Clash(thread[k].task, l)

\* Mutant: content counts as present once a file has its name.
Mutant_Vet(k) ==
  /\ At(k, "vet")
  /\ LET t == thread[k].task
     IN  IF part[t] = 0
           THEN End(k, "record", "failed") /\ UNCHANGED clashed
         ELSE IF file[<<NameOf[t], None>>] # 0
           THEN End(k, "drop", "done") /\ UNCHANGED clashed
           ELSE Aim(k, Target(t))
  /\ UNCHANGED <<row, flag, pool, request, disk, install, requests, crashes,
                 doubled>>

\* import_file, up to the choice of the target.  The run's digest is the one
\* Hash compared: the file is not read again.
Vet(k) ==
  /\ At(k, "vet")
  /\ LET t == thread[k].task
     IN  IF part[t] = 0
           THEN End(k, "record", "failed") /\ UNCHANGED clashed
         ELSE IF LocalCopy(ContentOf[t])
           THEN End(k, "drop", "done") /\ UNCHANGED clashed
           ELSE Aim(k, Target(t))
  /\ UNCHANGED <<row, flag, pool, request, disk, install, requests, crashes,
                 doubled>>

\* The file is not what its kind should hold.
VetRefuses(k) ==
  /\ At(k, "vet") /\ part[thread[k].task] # 0
  /\ End(k, "drop", "failed")
  /\ UNCHANGED <<row, flag, pool, request, disk, install, requests, crashes,
                 doubled, clashed>>

\* os.replace: whatever is at the target by now is gone.
Place(k) ==
  /\ At(k, "place")
  /\ LET t == thread[k].task
         l == thread[k].target
     IN  IF part[t] = 0
           THEN End(k, "record", "failed") /\ UNCHANGED <<part, file>>
           ELSE /\ file' = [file EXCEPT ![l] = part[t]]
                /\ part' = [part EXCEPT ![t] = 0]
                /\ Go(k, "register")
  /\ UNCHANGED <<row, flag, pool, request, bytes, install, requests, crashes,
                 doubled, clashed>>

\* register_file points the location at the content that was hashed.
Register(k) ==
  /\ At(k, "register")
  /\ install' = [install EXCEPT ![thread[k].target] =
                   ContentOf[thread[k].task]]
  /\ End(k, "drop", "done")
  /\ UNCHANGED <<row, flag, pool, request, disk, requests, crashes, doubled,
                 clashed>>

\* The part is unlinked.  A run that is done takes its flag off and then
\* writes its row, the others the other way round.
Drop(k) ==
  /\ At(k, "drop")
  /\ part' = [part EXCEPT ![thread[k].task] = 0]
  /\ Go(k, IF thread[k].outcome = "done" THEN "discard" ELSE "record")
  /\ UNCHANGED <<row, flag, pool, request, file, bytes, install, requests,
                 crashes, doubled, clashed>>

Record(k) ==
  /\ At(k, "record")
  /\ row' = [row EXCEPT ![thread[k].task] = thread[k].outcome]
  /\ IF thread[k].outcome = "done"
       THEN thread' = [thread EXCEPT ![k] = Idle] ELSE Go(k, "discard")
  /\ UNCHANGED <<flag, pool, request, disk, install, requests, crashes,
                 doubled, clashed>>

Discard(k) ==
  /\ At(k, "discard")
  /\ flag' = flag \ {thread[k].task}
  /\ IF thread[k].outcome = "done"
       THEN Go(k, "record") ELSE thread' = [thread EXCEPT ![k] = Idle]
  /\ UNCHANGED <<row, pool, request, disk, install, requests, crashes,
                 doubled, clashed>>

-----------------------------------------------------------------------------
(* Crash and restart. *)

\* recover_on_startup: what was under way waits for a retry.
Recovered(state) ==
  CASE state = "canceling"             -> "canceled"
    [] state \in {"queued", "running"} -> "interrupted"
    [] OTHER                           -> state

\* The process dies, and the next one recovers before it does anything else.
Restart ==
  /\ crashes < MaxCrashes
  /\ crashes' = crashes + 1
  /\ row' = [t \in Tasks |-> Recovered(row[t])]
  /\ flag' = {} /\ pool' = <<>>
  /\ thread' = [k \in Threads |-> Idle]
  /\ request' = NoRequest
  /\ UNCHANGED <<disk, install, requests, doubled, clashed>>

-----------------------------------------------------------------------------

Answer == CancelFlag \/ CancelRow \/ RetryFlag \/ RetryRow \/ RetrySubmit

Run(k) ==
  \/ Pick(k) \/ Begin(k)
  \/ OpenFails(k) \/ OpenAnew(k) \/ OpenResumed(k)
  \/ Load(k) \/ LoadFails(k)
  \/ Measure(k) \/ Hash(k)
  \/ Vet(k) \/ VetRefuses(k) \/ Place(k) \/ Register(k)
  \/ Drop(k) \/ Record(k) \/ Discard(k)

Next ==
  \/ \E t \in Tasks : Create(t) \/ Cancel(t) \/ Retry(t)
  \/ Answer
  \/ \E k \in Threads : Run(k)
  \/ Restart

Spec == Init /\ [][Next]_vars

-----------------------------------------------------------------------------
(* Properties. *)

\* Nothing is marked done that did not finish: a done import's content is
\* recorded at a location, and the file there holds all of it, whatever was
\* resumed, refused, canceled, retried or interrupted on the way, as long as no
\* import was made to run twice at a time.  The exception is content whose
\* import aimed at a location at once with another file's.
DoneIsInstalled ==
  doubled = {} =>
    \A t \in Tasks : row[t] = "done" =>
      \E l \in Locations :
        \/ install[l] = ContentOf[t] /\ Holds(l, ContentOf[t])
        \/ <<l, ContentOf[t]>> \in clashed

\* A location recorded for what its file holds stays so: no later import moves
\* other content there or records other content for it, and no thread that still
\* writes truncates the file another one installed.  Excepted are imports that
\* run twice at a time, and imports of different files that aimed at the
\* location at once.
Keeps ==
  doubled' = {} =>
    \A l \in Locations :
      install[l] # None /\ Holds(l, install[l]) =>
        Holds(l, install[l])' \/ <<l, install[l]>> \in clashed'
KnownGoodKept == [][Keeps]_vars

\* imports.py: "A known-good resource is never overwritten."  It is not so for
\* either exception.
NothingOverwritten ==
  \A l \in Locations :
    install[l] # None /\ Holds(l, install[l]) => Holds(l, install[l])'

\* An import that says it waits or runs has something to bring it on: a run in
\* the pool or on a thread, or an answer that is about to submit or cancel it.
ActiveHasRun ==
  \A t \in Tasks :
    row[t] \in {"queued", "running"} => HasRun(t) \/ request.task = t

\* A cancel that has been answered is in force: a download of an import that
\* says it is canceling will see the flag at its next chunk.
CancelInForce ==
  \A k \in Threads :
    At(k, "load") /\ row[thread[k].task] = "canceling"
      => thread[k].task \in flag \cup doubled

\* The ledger of imports says what is on disk, in the pool and in force.
LedgerTrue == DoneIsInstalled /\ ActiveHasRun /\ CancelInForce
=============================================================================
