----------------------------- MODULE LaneOrder -----------------------------
(***************************************************************************)
(* The order in which one lane runs its queued jobs: priority descending,  *)
(* then age, with the model affinity of _affinity_pick as a tie-break, and *)
(* the requests that reorder the queue (routers/jobs.py: front and move).  *)
(*                                                                         *)
(* JobLanes leaves the choice among a lane's live candidates open; this    *)
(* module leaves open everything that happens to a job once it was chosen. *)
(* An operator Mutant_X is X as a plausible bug would have it.             *)
(***************************************************************************)
EXTENDS Naturals, FiniteSets, Functions

CONSTANTS
  LastId,       (* Job ids are 1..LastId, in the order of creation.        *)
  Models,       (* The models a job of this lane may need.                 *)
  NoModel,      (* None: a job that loads no model, a card that holds none.*)
  Window,       (* AFFINITY_WINDOW.                                        *)
  TopPriority   (* Bound on the priorities handed out.                     *)

(* What the constants are assumed to be; the module that instantiates this *)
(* one states it of their values.                                          *)
OrderAssumption ==
  /\ {LastId, TopPriority} \subseteq Nat
  /\ Window \in Nat \ {0}
  /\ NoModel \notin Models

VARIABLES
  queued,       (* The lane's candidates: pending, and "queued" in the DB. *)
  created,      (* The last id given out.                                  *)
  priority,     (* Job.priority of the queued rows.                        *)
  model,        (* Job.model_key of the queued rows.                       *)
  resident,     (* What _resident_for_lane answers.                        *)
  ran           (* History: the job that ran in the last step, 0 if none.  *)

vars == <<queued, created, priority, model, resident, ran>>

Keys == Models \cup {NoModel}

Init ==
  /\ queued    = {}
  /\ created   = 0
  /\ priority  = <<>>
  /\ model     = <<>>
  /\ resident  = NoModel
  /\ ran       = 0

-----------------------------------------------------------------------------
(* db.queued_in_order: priority DESC, id ASC.                              *)
Before(j, k) ==
  \/ priority[j] > priority[k]
  \/ priority[j] = priority[k] /\ j < k

Position(j) == Cardinality({k \in queued : Before(k, j)})

First(S) == CHOOSE j \in S : \A k \in S \ {j} : Before(j, k)

(* The jobs _affinity_pick may run in the head's place.                    *)
Mutant_WarmPeers(head) ==
  {j \in queued \ {head} : Position(j) <= Window /\ model[j] = resident}
WarmPeers(head) ==
  {j \in queued \ {head} : /\ Position(j) <= Window
                           /\ priority[j] = priority[head]
                           /\ model[j] = resident}

(* _affinity_pick, on a lane that has something queued.                    *)
Pick ==
  LET head == First(queued) IN
  IF \/ resident = NoModel
     \/ model[head] \in {NoModel, resident}
     \/ WarmPeers(head) = {}
  THEN head
  ELSE First(WarmPeers(head))

-----------------------------------------------------------------------------
With(f, j, v) == [k \in queued \cup {j} |-> IF k = j THEN v ELSE f[k]]

(* A job is created with the default priority and the key resolved then.   *)
Arrive ==
  /\ created < LastId
  /\ created'   = created + 1
  /\ queued'    = queued \cup {created'}
  /\ priority'  = With(priority, created', 0)
  /\ \E m \in Keys : model' = With(model, created', m)
  /\ ran' = 0
  /\ UNCHANGED resident

(* The row leaves the queue.                                               *)
Leave(j) ==
  /\ queued'   = queued \ {j}
  /\ priority' = Restrict(priority, queued \ {j})
  /\ model'    = Restrict(model, queued \ {j})
  /\ UNCHANGED created

(* The lane runs its pick.  Its model is then the one loaded, unless the   *)
(* run failed in a way that frees the card.                                *)
Run ==
  /\ queued # {}
  /\ ran' = Pick
  /\ Leave(Pick)
  /\ resident' \in IF model[Pick] = NoModel THEN {resident}
                   ELSE {model[Pick], NoModel}

(* A queued job is canceled.                                               *)
Cancel(j) ==
  /\ j \in queued
  /\ Leave(j)
  /\ ran' = 0
  /\ UNCHANGED resident

(* max_queued_priority() is taken over every queued row.                   *)
MaxQueuedPriority == priority[First(queued)]

(* POST /jobs/{id}/front                                                   *)
Front(j) ==
  /\ j \in queued
  /\ MaxQueuedPriority < TopPriority
  /\ priority' = [priority EXCEPT ![j] = MaxQueuedPriority + 1]
  /\ ran' = 0
  /\ UNCHANGED <<queued, created, model, resident>>

(* The position a job is shown at once j and its neighbour n have swapped. *)
Swapped(k, j, n) ==
  IF k = j THEN Position(n) ELSE IF k = n THEN Position(j) ELSE Position(k)

(* The number a moved lane's job at position p gets, n - pos.              *)
Renumber(p) == Cardinality(queued) - p

(* POST /jobs/{id}/move: the lane is renumbered in its new order.          *)
Move(j) ==
  /\ j \in queued
  /\ \E n \in queued :
       /\ Position(n) = Position(j) + 1 \/ Position(n) + 1 = Position(j)
       /\ priority' = [k \in queued |-> Renumber(Swapped(k, j, n))]
  /\ ran' = 0
  /\ UNCHANGED <<queued, created, model, resident>>

Next ==
  \/ Arrive
  \/ Run
  \/ \E j \in queued : Cancel(j) \/ Front(j) \/ Move(j)

Spec == Init /\ [][Next]_vars

-----------------------------------------------------------------------------
TypeOK ==
  /\ queued    \subseteq 1..created
  /\ created   \in 0..LastId
  /\ priority  \in [queued -> Nat]
  /\ model     \in [queued -> Keys]
  /\ resident  \in Keys
  /\ ran       \in 0..LastId

(* "Priority stays absolute": no job runs while one of a higher priority   *)
(* is queued, whatever model is loaded; and affinity never reorders jobs   *)
(* that need the same model at one priority: the oldest runs first.        *)
PriorityAbsolute ==
  \A k \in queued' : ran' # 0 =>
    /\ priority[k] <= priority[ran']
    /\ priority[k] = priority[ran'] /\ model[k] = model[ran'] => ran' < k

(* "Reordering in the UI remains the override, and remains sufficient": a  *)
(* job brought to the front is the next to run; after a move, which swaps  *)
(* the job with a neighbour and disturbs no other pair, the lane runs the  *)
(* head of the order it shows, the loaded model notwithstanding.           *)
ReorderingOverrides ==
  queued' = queued =>
    \A j \in queued :
      /\ Front(j) => Pick' = j
      /\ Move(j) => /\ Pick' = First(queued)'
                    /\ Cardinality({p \in queued \X queued :
                                      Before(p[1], p[2]) /\ ~Before(p[1], p[2])'}) = 1

(* The order of a lane is its users' before it is the affinity's.          *)
OrderKept == [][PriorityAbsolute /\ ReorderingOverrides]_vars
=============================================================================
