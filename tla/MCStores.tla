------------------------------ MODULE MCStores ------------------------------
(***************************************************************************)
(* What is kept and held, checked in one run: the rows of MCRecords; the   *)
(* files behind imports, uploads, inputs, exports and sheets; and what the *)
(* worker was sent, has loaded and was asked to run.  A behaviour is one   *)
(* of the component on the scene; x1, x2, ... are that component's         *)
(* variables, so that the states add up and are not multiplied.  The calls *)
(* of run_remote have their own, which rest when they are not on the scene.*)
(***************************************************************************)
EXTENDS RemoteJob, MCRecords

CONSTANTS Scenes

stage ==
  <<x1, x2, x3, x4, x5, x6, x7, x8, x9, x10, x11, x12, x13>>

-----------------------------------------------------------------------------

(* Jobs of the remote worker, and what a worker may have configured.        *)
Ask(route, variant, speed) ==
  [route |-> route, variant |-> variant, speed |-> speed, last |-> FALSE]
Asks ==
  {Ask("image", v, s) : v \in {"quality", "alt", "hidream"}, s \in BOOLEAN}
    \cup {Ask(r, "edit", s) : r \in {"edit", "inpaint"}, s \in BOOLEAN}
    \cup {Ask(r, e, FALSE) : r \in {"t2v", "i2v"}, e \in {"wan", "ltx", "hunyuan"}}
    \cup {Ask("t2v", "wan", TRUE)}
    \cup {[Ask("i2v", e, FALSE) EXCEPT !.last = TRUE] : e \in {"wan", "ltx"}}
Configurations ==
  {{}, {"stack"},
   {"alt", "hidream", "stack", "image_lora", "edit_lora", "video_lora",
    "inpaint", "ltx", "hunyuan"},
   {"alt", "hidream", "image_lora", "flf2v"}}

(* Frames of a sheet: a dot, one that nobody sees, one that is visible in   *)
(* a corner, and none at all.                                               *)
Frame(w, h, seen) == [w |-> w, h |-> h, seen |-> seen]
NoFrame == Frame(0, 0, <<>>)
Frames  == {Frame(1, 1, <<1, 1>>), Frame(3, 2, <<>>), Frame(2, 3, <<2, 2>>)}
Sheets  == {<<f, g, h, k>> : f \in Frames, g \in Frames \cup {NoFrame},
                             h \in Frames, k \in Frames}
Grids ==
  [mode : {"grid"}, columns : {0, 1, 2}, cell : {<<>>, <<2, 1>>, <<3, 3>>},
   fit : {"require_match", "pad", "contain"}, width : {0}, height : {0},
   trim : {FALSE}, many : {FALSE}, pad : {0, 2}, extrude : {0, 1},
   partial : {TRUE}]
Atlases ==
  [mode : {"atlas"}, columns : {0}, cell : {<<>>}, fit : {"pad"},
   width : {5, 8}, height : {4, 6, 11}, trim : BOOLEAN, many : BOOLEAN,
   pad : {0, 1, 2}, extrude : {0, 1}, partial : BOOLEAN]
Layouts == Grids \cup {l \in Atlases : l.extrude = 1 => l.pad = 2}

(* Two uploads of one chunk: an adapter, and a file that is none.          *)
Pair == INSTANCE Uploads
  WITH Ups <- {t3, t4}, Threads <- {t1, t2}, Contents <- {"a", "m"},
       Adapters <- {"a"}, NoContent <- "no", Names <- {"n"}, Size <- 1,
       MaxChanges <- 1,
       up <- x1, thread <- x2, files <- x3, installs <- x4, state <- x5,
       scan <- x6, landed <- x7, changes <- x8

(* One upload of two chunks, with more changes to the files.               *)
Long == INSTANCE Uploads
  WITH Ups <- {t3}, Threads <- {t1, t2}, Contents <- {"a", "m"},
       Adapters <- {"a"}, NoContent <- "no", Names <- {"n"}, Size <- 2,
       MaxChanges <- 3,
       up <- x1, thread <- x2, files <- x3, installs <- x4, state <- x5,
       scan <- x6, landed <- x7, changes <- x8

(* Two imports of a file each, under one name.                             *)
Imports == INSTANCE ResourceImports
  WITH Tasks <- {t3, t4}, Threads <- {t1, t2}, Names <- {"n"},
       Contents <- {t3, t4}, NameOf <- t3 :> "n" @@ t4 :> "n",
       ContentOf <- t3 :> t3 @@ t4 :> t4, Whole <- 2, MaxRequests <- 2,
       MaxCrashes <- 1, None <- none,
       row <- x1, flag <- x2, pool <- x3, thread <- x4, request <- x5,
       part <- x6, file <- x7, bytes <- x8, install <- x9, requests <- x10,
       crashes <- x11, doubled <- x12, clashed <- x13

(* A file of two chunks sent to the worker in four transfers.              *)
Worker == INSTANCE WorkerStore
  WITH Size <- 2, Tries <- 3, MaxTasks <- 4, MaxLost <- 3, MaxSwaps <- 2,
       local <- x1, task <- x2, wire <- x3, partial <- x4, hashing <- x5,
       final <- x6, row <- x7, count <- x8, pulled <- x9

(* Four jobs of the worker.                                                *)
Loaded == INSTANCE WorkerPipelines
  WITH Requests <- Asks, Configs <- Configurations, MaxJobs <- 4, None <- none,
       config <- x1, pipes <- x2, adapter <- x3, job <- x4, outcome <- x5,
       jobs <- x6

(* Two requests with uploads, beside the sweep.                            *)
Sweep == INSTANCE Housekeeping
  WITH Clients <- {t1, t2}, Inputs <- 2, Keep <- 1, MaxFiles <- 2, MaxJobs <- 2,
       MaxArtifacts <- 0, MaxStarts <- 2,
       files <- x1, old <- x2, made <- x3, open <- x4, jobs <- x5,
       order <- x6, nextJob <- x7, sweep <- x8, exports <- x9, starts <- x10

(* Two exports, over three starts.                                         *)
Exports == INSTANCE Housekeeping
  WITH Clients <- {t1, t2}, Inputs <- 2, Keep <- 1, MaxFiles <- 0, MaxJobs <- 0,
       MaxArtifacts <- 2, MaxStarts <- 3,
       files <- x1, old <- x2, made <- x3, open <- x4, jobs <- x5,
       order <- x6, nextJob <- x7, sweep <- x8, exports <- x9, starts <- x10

(* Four frames, on pages of at most twelve.                                *)
Sheet == INSTANCE SpriteSheet
  WITH Variants <- Sheets, Absent <- NoFrame, Profiles <- Layouts, MaxPage <- 12,
       MaxPages <- 2,
       variants <- x1, profile <- x2, at <- x3, missing <- x4, todo <- x5,
       placed <- x6, pen <- x7, pages <- x8

ASSUME Imports!ImportsAssumption

-----------------------------------------------------------------------------
(* Of two calls of run_remote the user cancels the first one at most, and  *)
(* the second one, which is there to fill the queue, has one POST.         *)
RemoteNext ==
  /\ Next
  /\ \A r \in Runs : r > 1 => ~cancelled'[r] /\ tries'[r] <= 1

Beyond6 == <<x7, Beyond7>>

Blank6 == x7 = 0 /\ Blank7
Blank0 == x1 = 0 /\ x2 = 0 /\ x3 = 0 /\ x4 = 0 /\ x5 = 0 /\ x6 = 0 /\ Blank6

MCInit ==
  /\ scene \in Scenes /\ Init
  /\ \/ RecordsInit
     \/ scene = "remote"    /\ Blank0
     \/ scene = "imports"   /\ Imports!Init
     \/ scene = "uploads"   /\ Pair!Init    /\ Blank8
     \/ scene = "chunks"    /\ Long!Init    /\ Blank8
     \/ scene = "transfer"  /\ Worker!Init  /\ Blank9
     \/ scene = "pipelines" /\ Loaded!Init  /\ Blank6
     \/ scene = "sweep"     /\ Sweep!Init   /\ Blank10
     \/ scene = "exports"   /\ Exports!Init /\ Blank10
     \/ scene = "sheet"     /\ Sheet!Init   /\ Blank8

MCNext ==
  /\ UNCHANGED scene
  /\ \/ RecordsNext                        /\ UNCHANGED vars
     \/ scene = "remote"    /\ RemoteNext   /\ UNCHANGED stage
     \/ scene = "imports"   /\ Imports!Next /\ UNCHANGED vars
     \/ scene = "uploads"   /\ Pair!Next    /\ UNCHANGED <<vars, Beyond8>>
     \/ scene = "chunks"    /\ Long!Next    /\ UNCHANGED <<vars, Beyond8>>
     \/ scene = "transfer"  /\ Worker!Next  /\ UNCHANGED <<vars, Beyond9>>
     \/ scene = "pipelines" /\ Loaded!Next  /\ UNCHANGED <<vars, Beyond6>>
     \/ scene = "sweep"     /\ Sweep!Next   /\ UNCHANGED <<vars, Beyond10>>
     \/ scene = "exports"   /\ Exports!Next /\ UNCHANGED <<vars, Beyond10>>
     \/ scene = "sheet"     /\ Sheet!Next   /\ UNCHANGED <<vars, Beyond8>>

MCSpec == MCInit /\ [][MCNext]_<<scene, vars, stage>>

(* Two threads, savers or requests are interchangeable, as are two uploads, *)
(* imports or names.                                                       *)
MCSymmetry == Permutations({t1, t2}) \cup Permutations({t3, t4})

-----------------------------------------------------------------------------
(* Of a set, nothing is begun under a source without an image, or once it  *)
(* is canceled.                                                            *)
StagesInOrder ==
  [][/\ scene = "sets" => Sets!CreatedUnderSuccess /\ Sets!CanceledSetStops
     /\ scene = "died" => Died!CreatedUnderSuccess /\ Died!CanceledSetStops
     /\ scene = "lone" => Lone!CanceledSetStops]_stage

(* The ledger of imports says what is on disk, in the pool and in force.   *)
LedgerTrue == scene = "imports" => Imports!LedgerTrue

(* A file that is recorded for what it holds stays, unless imports of      *)
(* different files aimed at its location at once, or one ran twice.        *)
KnownGoodKept == [][scene = "imports" => Imports!Keeps]_stage

(* imports.py: "A known-good resource is never overwritten."  It is, by an *)
(* import that found the location free before it was taken.                *)
NeverOverwritten == [][scene = "imports" => Imports!NothingOverwritten]_stage

(* An upload ends as the file its sender declared, or says why not.        *)
UploadsArrive ==
  /\ scene = "uploads" => Pair!UploadsArrive
  /\ scene = "chunks"  => Long!UploadsArrive

(* What the worker holds of a resource has the digest it is held under,    *)
(* unless a partial file was deleted under a complete that was reading it. *)
HeldIsVerified == scene = "transfer" => Worker!HeldIsVerified

(* A job of the worker runs with the model and adapter it asked for.       *)
RunsAsRequested == scene = "pipelines" => Loaded!RunsAsRequested

(* Sweeps take nothing that a row still promises.                          *)
FilesKept ==
  /\ scene = "sweep"   => Sweep!FilesKept
  /\ scene = "exports" => Exports!FilesKept

(* Frames are laid out whole, apart and in order.                          *)
LayoutSound == scene = "sheet" => Sheet!LayoutSound
=============================================================================
