------------------------------ MODULE MCRecords ------------------------------
(***************************************************************************)
(* The components that keep rows: a variant set and its items, documents   *)
(* with revisions, and the schema itself.  Each has a scene of MCStores,   *)
(* and x1, x2, ... are the variables of the one that is on the scene.      *)
(***************************************************************************)
EXTENDS Integers, Sequences, TLC

CONSTANTS
  t1, t2, t3, t4, n1, v1, v2, none

VARIABLES
  scene, x1, x2, x3, x4, x5, x6, x7, x8, x9, x10, x11, x12, x13

-----------------------------------------------------------------------------
(* Two stages of one variant, v2 derived from v1, of two attempts each.    *)
Sets == INSTANCE VariantSets
  WITH Items <- {v1, v2}, Parent <- v1 :> none @@ v2 :> v1, NoItem <- none,
       Attempts <- 2, MaxRequests <- 1, MaxCrashes <- 0,
       state <- x1, attempts <- x2, cached <- x3, canceledAt <- x4,
       deleted <- x5, job <- x6, notices <- x7, thread <- x8, reader <- x9,
       loop <- x10, phase <- x11, requests <- x12, crashes <- x13

(* The two stages, of one attempt each, and a process that dies.           *)
Died == INSTANCE VariantSets
  WITH Items <- {v1, v2}, Parent <- v1 :> none @@ v2 :> v1, NoItem <- none,
       Attempts <- 1, MaxRequests <- 1, MaxCrashes <- 1,
       state <- x1, attempts <- x2, cached <- x3, canceledAt <- x4,
       deleted <- x5, job <- x6, notices <- x7, thread <- x8, reader <- x9,
       loop <- x10, phase <- x11, requests <- x12, crashes <- x13

(* One item whose process dies between or in its two attempts.             *)
Lone == INSTANCE VariantSets
  WITH Items <- {v1}, Parent <- v1 :> none, NoItem <- none,
       Attempts <- 2, MaxRequests <- 2, MaxCrashes <- 1,
       state <- x1, attempts <- x2, cached <- x3, canceledAt <- x4,
       deleted <- x5, job <- x6, notices <- x7, thread <- x8, reader <- x9,
       loop <- x10, phase <- x11, requests <- x12, crashes <- x13

(* A canvas with two savers.                                               *)
Canvas == INSTANCE Revisions
  WITH Kinds <- {"canvas"}, Calls <- {t1, t2}, Names <- {n1}, NoName <- none,
       MaxDocs <- 1, MaxRevs <- 2, MaxAssets <- 2, MaxChanges <- 1,
       heads <- x1, rows <- x2, made <- x3, asset <- x4, flat <- x5,
       call <- x6, changes <- x7

(* Two reference sets that want the same names.                            *)
References == INSTANCE Revisions
  WITH Kinds <- {"set"}, Calls <- {t1, t2}, Names <- {t3, t4}, NoName <- none,
       MaxDocs <- 2, MaxRevs <- 2, MaxAssets <- 2, MaxChanges <- 1,
       heads <- x1, rows <- x2, made <- x3, asset <- x4, flat <- x5,
       call <- x6, changes <- x7

(* Two processes, of three builds.                                         *)
Schema == INSTANCE Migrations
  WITH Procs <- {t1, t2}, Builds <- {1, 3, 6}, MaxStarts <- 4, MaxFaults <- 2,
       schema <- x1, ledger <- x2, rows <- x3, legacy <- x4, backups <- x5,
       procs <- x6, starts <- x7, faults <- x8

ASSUME Sets!SetsAssumption /\ Died!SetsAssumption /\ Lone!SetsAssumption

-----------------------------------------------------------------------------
(* A component that has fewer variables leaves the others alone.           *)
Beyond10 == <<x11, x12, x13>>
Beyond9 == <<x10, Beyond10>>
Beyond8 == <<x9, Beyond9>>
Beyond7 == <<x8, Beyond8>>

Blank10 == x11 = 0 /\ x12 = 0 /\ x13 = 0
Blank9 == x10 = 0 /\ Blank10
Blank8 == x9 = 0 /\ Blank9
Blank7 == x8 = 0 /\ Blank8

RecordsInit ==
  \/ scene = "sets"       /\ Sets!Init
  \/ scene = "died"       /\ Died!Init
  \/ scene = "lone"       /\ Lone!Init
  \/ scene = "canvas"     /\ Canvas!Init     /\ Blank7
  \/ scene = "references" /\ References!Init /\ Blank7
  \/ scene = "schema"     /\ Schema!Init     /\ Blank8

RecordsNext ==
  \/ scene = "sets"       /\ Sets!Next
  \/ scene = "died"       /\ Died!Next
  \/ scene = "lone"       /\ Lone!Next
  \/ scene = "canvas"     /\ Canvas!Next     /\ UNCHANGED Beyond7
  \/ scene = "references" /\ References!Next /\ UNCHANGED Beyond7
  \/ scene = "schema"     /\ Schema!Next     /\ UNCHANGED Beyond8

-----------------------------------------------------------------------------
(* The items of a set, their jobs and its status agree.                    *)
ItemsAccounted ==
  /\ scene = "sets" => Sets!ItemsAccounted
  /\ scene = "died" => Died!ItemsAccounted
  /\ scene = "lone" => Lone!ItemsAccounted

(* Each revision of a document is kept: no save overwrites another's.      *)
NoEditLost ==
  /\ scene = "canvas"     => Canvas!NoEditLost
  /\ scene = "references" => References!NoEditLost

(* Whatever a process serves, the schema is whole.                         *)
WholeSchema == scene = "schema" => Schema!WholeSchema
=============================================================================
