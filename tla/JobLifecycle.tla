---------------------------- MODULE JobLifecycle ----------------------------
(***************************************************************************)
(* What a client of the job API is promised about a job, whatever lanes,   *)
(* tasks, threads and restarts do behind it: the life of a row and of the  *)
(* outputs recorded for it.  JobLanes implements it.                       *)
(***************************************************************************)
EXTENDS Naturals

CONSTANTS
  Jobs,        (* The ids a job row can have.                    *)
  Attempts     (* The handler runs of one job, numbered from 1.  *)

VARIABLES
  status,      (* The row's status, "absent" while there is none. *)
  assets,      (* The attempts whose output is saved.             *)
  result       (* The attempts whose output the row lists.        *)

vars == <<status, assets, result>>

Init ==
  /\ status = [j \in Jobs |-> "absent"]
  /\ assets = [j \in Jobs |-> {}]
  /\ result = [j \in Jobs |-> {}]

(* A request is accepted, perhaps in the place of a failed one.            *)
Accept(j) ==
  /\ status[j] = "absent"
  /\ status' = [status EXCEPT ![j] = "queued"]
  /\ UNCHANGED <<assets, result>>

Replace(old, new) ==
  /\ status[old] = "error" /\ status[new] = "absent"
  /\ status' = [status EXCEPT ![old] = "canceled", ![new] = "queued"]
  /\ UNCHANGED <<assets, result>>

(* Canceled before it ran.                                                 *)
Withdraw(j) ==
  /\ status[j] = "queued"
  /\ status' = [status EXCEPT ![j] = "canceled"]
  /\ UNCHANGED <<assets, result>>

(* It runs; also when a withdrawal came too late to stop it.               *)
Start(j) ==
  /\ status[j] \in {"queued", "canceled"}
  /\ assets[j] = {}
  /\ status' = [status EXCEPT ![j] = "running"]
  /\ UNCHANGED <<assets, result>>

(* An output is saved, by one attempt only.                                *)
Save(j) ==
  /\ status[j] = "running"
  /\ \E n \in 1..Attempts :
       /\ assets[j] \subseteq {n}
       /\ assets' = [assets EXCEPT ![j] = {n}]
  /\ UNCHANGED <<status, result>>

(* It settles, and the row lists all it saved.                             *)
Finish(j) ==
  /\ status[j] = "running"
  /\ \E s \in {"done", "error", "canceled"} :
       status' = [status EXCEPT ![j] = s]
  /\ result' = [result EXCEPT ![j] = assets[j]]
  /\ UNCHANGED assets

(* A restart: whatever ran is settled at once, done if and only if it had  *)
(* saved something; queued work may be given up, and is otherwise kept.    *)
Recover ==
  /\ \E gone \in SUBSET {j \in Jobs : status[j] = "queued"} :
       status' = [j \in Jobs |->
                    IF status[j] = "running"
                    THEN IF assets[j] = {} THEN "canceled" ELSE "done"
                    ELSE IF j \in gone THEN "canceled" ELSE status[j]]
  /\ result' = [j \in Jobs |-> IF status[j] = "running" THEN assets[j]
                               ELSE result[j]]
  /\ UNCHANGED assets

Next ==
  \/ \E j \in Jobs :
       Accept(j) \/ Withdraw(j) \/ Start(j) \/ Save(j) \/ Finish(j)
  \/ \E old, new \in Jobs : Replace(old, new)
  \/ Recover

Spec == Init /\ [][Next]_vars
=============================================================================
