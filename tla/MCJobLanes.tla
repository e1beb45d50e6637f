---------------------------- MODULE MCJobLanes ----------------------------
(***************************************************************************)
(* JobLanes for TLC, with two jobs to a behaviour: one of each lane, or    *)
(* two that overlap on the remote one, which are not skipped and meet no   *)
(* crash.                                                                  *)
(***************************************************************************)
EXTENDS JobLanes

CONSTANTS j1, j2, j3

Mixed      == {j1, j2}
Overlapped == {j2, j3}

VARIABLE cast

MCInit == Init /\ cast \in {Mixed, Overlapped}

MCNext ==
  /\ Next
  /\ \A j \in Jobs : status'[j] # "absent" => j \in cast
  /\ cast = Overlapped => crashes' = 0 /\ skipped' = {}
  /\ UNCHANGED cast

(* No fairness is asked of requests and crashes, so a cast takes nothing   *)
(* from it.                                                                *)
MCSpec == MCInit /\ [][MCNext]_<<vars, cast>> /\ Fairness
=============================================================================
