----------------------------- MODULE MCSettling -----------------------------
(***************************************************************************)
(* What must come to an end, checked together: the notifications of a      *)
(* queue that drains, and the calls of run_remote.  In each behaviour one  *)
(* of the two is on the scene, and the other, of which fairness asks       *)
(* nothing before it has begun, rests as it is: their states add up and    *)
(* are not multiplied.                                                     *)
(***************************************************************************)
EXTENDS QueueWatcher

CONSTANTS
  local, remote, finishing,
  NRuns, MaxPosts, MaxMiss, QueueLimit, MaxFaults, MaxStrays,
  CancelLost, None, Full

VARIABLES
  scene,
  pc, tries, token, miss, cancelled, ending, row, up, crashes, reboots, posts,
  reply, jobs, clientTokens, taskq, work, hasty

Remote == INSTANCE RemoteJob

remoteVars == <<pc, tries, token, miss, cancelled, ending, row, up, crashes,
                reboots, posts, reply, jobs, clientTokens, taskq, work, hasty>>

MCInit == scene \in {"remote", "watcher"} /\ Init /\ Remote!Init

MCNext ==
  /\ UNCHANGED scene
  /\ \/ scene = "watcher" /\ Next        /\ UNCHANGED remoteVars
     \/ scene = "remote"  /\ Remote!Next /\ UNCHANGED vars

MCSpec == /\ MCInit /\ [][MCNext]_<<scene, vars, remoteVars>>
          /\ Fairness /\ Remote!Fairness

(* Every call of run_remote ends, and every job on the worker's queue ends *)
(* or is forgotten by a restart.                                           *)
RemoteSettles == Remote!RemoteSettles
=============================================================================
