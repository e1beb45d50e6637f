------------------------------- MODULE MCOwed -------------------------------
(***************************************************************************)
(* What the backend still owes, checked in one run: the stop of a rented   *)
(* pod, and the verdicts of a variant set that has been asked for.  In     *)
(* each behaviour one of the two is on the scene, and the other, of which  *)
(* fairness asks nothing before it has begun, rests as it is: their states *)
(* add up and are not multiplied.                                          *)
(***************************************************************************)
EXTENDS RunpodRental, TLC

CONSTANTS p1, p2, a, b, none

VARIABLES
  scene,
  state, attempts, cached, canceledAt, deleted, job, notices, thread, reader,
  loop, phase, requests, deaths

setVars == <<state, attempts, cached, canceledAt, deleted, job, notices,
             thread, reader, loop, phase, requests, deaths>>

(* Two stages of one variant, b derived from a, of one attempt each.       *)
Set == INSTANCE VariantSets
  WITH Items <- {a, b}, Parent <- a :> none @@ b :> a, NoItem <- none,
       Attempts <- 1, MaxRequests <- 1, MaxCrashes <- 1, crashes <- deaths

ASSUME Set!SetsAssumption

MCInit == scene \in {"rental", "set"} /\ Init /\ Set!Init

MCNext ==
  /\ UNCHANGED scene
  /\ \/ scene = "rental" /\ Next     /\ UNCHANGED setVars
     \/ scene = "set"    /\ Set!Next /\ UNCHANGED vars

MCSpec == MCInit /\ [][MCNext]_<<scene, vars, setVars>> /\ Set!Fairness

-----------------------------------------------------------------------------
(* A set that is looked at comes to rest: every item has a verdict.        *)
SetSettles == Set!SetSettles
=============================================================================
