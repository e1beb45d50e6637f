---------------------------- MODULE RunpodRental ----------------------------
(***************************************************************************)
(* Rented GPU hardware: the provisioner (backend/app/provisioners/runpod.  *)
(* py), the session it records, the routes that drive it and the start and *)
(* end of the application (main.py).                                       *)
(*                                                                         *)
(* The routes call the provisioner without suspending, so operations do    *)
(* not interleave with one another; the process can die between any two    *)
(* of their writes, and each request to the provider may be refused, or be *)
(* carried out without its answer arriving.  The provider itself does what *)
(* it says.  Pods are the rentals there can be: only this application      *)
(* makes them, but anything may end them.                                  *)
(*                                                                         *)
(* MaxCrashes bounds crashes.                                              *)
(***************************************************************************)
EXTENDS Naturals

CONSTANTS Pods, MaxCrashes, None

StopStates == {"stopping", "stop_unconfirmed", "stop_failed"}

\* What provider_sessions records: the pod's id and the state shown for it.
Sessions == [id: Pods, state: {"up", "error"} \cup StopStates]

ASSUME RentalAssumption ==
  /\ None \notin Pods \cup Sessions
  /\ MaxCrashes \in Nat

VARIABLES
  pod,        \* each pod at the provider
  session,    \* the recorded session, or None
  url,        \* the pod the Remote GPU URL points at, or None
  forgotten,  \* pods the user told the application to forget
  lost,       \* History: pods made without ever being recorded, because
              \* the answer did not arrive or the process died on it
  pc,         \* what the process is doing
  leaving,    \* it is shutting down
  pending,    \* pod created and not yet recorded, or None
  crashes

vars ==
  <<pod, session, url, forgotten, lost, pc, leaving, pending,
    crashes>>

TypeOK ==
  /\ pod \in [Pods -> {"unborn", "up", "exited", "gone"}]
  /\ session \in Sessions \cup {None}
  /\ url \in Pods \cup {None}
  /\ forgotten \subseteq Pods
  /\ lost \in [Pods -> {"no", "answer", "crash"}]
  /\ pc \in {"down", "idle", "created", "saved", "leave", "delete",
             "deleted", "cleared", "report"}
  /\ leaving \in BOOLEAN
  /\ pending \in Pods \cup {None}
  /\ crashes \in 0 .. MaxCrashes

Init ==
  /\ pod = [p \in Pods |-> "unborn"]
  /\ session = None /\ url = None /\ forgotten = {}
  /\ lost = [p \in Pods |-> "no"]
  /\ pc = "idle" /\ leaving = FALSE /\ pending = None
  /\ crashes = 0

Exists(p) == pod[p] \in {"up", "exited"}

\* A stop that did not complete: the exit goes on, the route looks again to
\* report what is left.
Return == IF leaving THEN "down" ELSE "report"

-----------------------------------------------------------------------------
(* Looking. *)

\* Mutant: a status poll shows what the provider says and nothing else.
Mutant_Refreshed ==
  IF session = None THEN {None}
  ELSE IF pod[session.id] = "gone" THEN {session, None}
  ELSE {session, [session EXCEPT !.state =
          IF pod[session.id] = "exited" THEN "error" ELSE "up"]}

\* What status may leave recorded: the session as it was when the provider
\* does not answer, nothing when the pod is gone, and else what the provider
\* says, unless a stop is still owed.
Refreshed ==
  IF session = None THEN {None}
  ELSE IF pod[session.id] = "gone" THEN {session, None}
  ELSE {session, [session EXCEPT !.state =
          IF @ \in StopStates THEN @
          ELSE IF pod[session.id] = "exited" THEN "error" ELSE "up"]}

Look ==
  /\ pc \in {"idle", "report"}
  /\ session' \in Refreshed
  /\ pc' = "idle"
  /\ UNCHANGED <<pod, url, forgotten, lost, leaving, pending, crashes>>

-----------------------------------------------------------------------------
(* Starting a rental. *)

\* start asks about a recorded session before it refuses; one whose pod turns
\* out to be gone is still what adopt returned.
StartRefused ==
  /\ pc = "idle" /\ session # None
  /\ session' \in Refreshed
  /\ UNCHANGED <<pod, url, forgotten, lost, pc, leaving, pending, crashes>>

\* What start needs to find before it rents.
MayCreate == session = None

\* The create is carried out, and its answer does not arrive or has no id.
\* (One that is refused or never sent changes nothing.)
CreateUnanswered(p) ==
  /\ pc = "idle" /\ MayCreate /\ pod[p] = "unborn"
  /\ pod' = [pod EXCEPT ![p] = "up"]
  /\ lost' = [lost EXCEPT ![p] = "answer"]
  /\ UNCHANGED <<session, url, forgotten, pc, leaving, pending, crashes>>

Create(p) ==
  /\ pc = "idle" /\ MayCreate /\ pod[p] = "unborn"
  /\ pod' = [pod EXCEPT ![p] = "up"]
  /\ pending' = p
  /\ pc' = "created"
  /\ UNCHANGED <<session, url, forgotten, lost, leaving, crashes>>

SaveSession ==
  /\ pc = "created"
  /\ session' = [id |-> pending, state |-> "up"]
  /\ pending' = None
  /\ pc' = "saved"
  /\ UNCHANGED <<pod, url, forgotten, lost, leaving, crashes>>

\* The route points the application at the pod.
SaveUrl ==
  /\ pc = "saved"
  /\ url' = session.id
  /\ pc' = "idle"
  /\ UNCHANGED <<pod, session, forgotten, lost, leaving, pending, crashes>>

-----------------------------------------------------------------------------
(* Stopping it. *)

Stopping == pc = "leave" \/ pc = "idle"

\* Nothing is recorded: the route drops the URL all the same.
StopNothing ==
  /\ pc = "idle" /\ session = None
  /\ url' = None
  /\ UNCHANGED <<pod, session, forgotten, lost, pc, leaving, pending,
                 crashes>>

\* Mutant: a stop that is owed is confirmed by an answer of any kind.
Mutant_AskFails ==
  /\ Stopping /\ session # None /\ session.state \in StopStates
  /\ session' = None
  /\ pc' = Return
  /\ UNCHANGED <<pod, url, forgotten, lost, leaving, pending, crashes>>

\* A stop that is owed asks first, and keeps the session when it is not told.
AskFails ==
  /\ Stopping /\ session # None /\ session.state \in StopStates
  /\ \E state \in {"stop_unconfirmed", "stop_failed"} :
       session' = [session EXCEPT !.state = state]
  /\ pc' = Return
  /\ UNCHANGED <<pod, url, forgotten, lost, leaving, pending, crashes>>

AskGone ==
  /\ Stopping /\ session # None /\ session.state \in StopStates
  /\ pod[session.id] = "gone"
  /\ session' = None
  /\ pc' = IF leaving THEN "down" ELSE "cleared"
  /\ UNCHANGED <<pod, url, forgotten, lost, leaving, pending, crashes>>

\* The attempt is recorded before it is made.
BeginStop ==
  /\ Stopping /\ session # None
  /\ session.state \in StopStates => Exists(session.id)
  /\ session' = [session EXCEPT !.state = "stopping"]
  /\ pc' = "delete"
  /\ UNCHANGED <<pod, url, forgotten, lost, leaving, pending, crashes>>

DeleteRefused ==
  /\ pc = "delete"
  /\ session' = [session EXCEPT !.state = "stop_failed"]
  /\ pc' = Return
  /\ UNCHANGED <<pod, url, forgotten, lost, leaving, pending, crashes>>

\* Mutant: a stop without an answer counts as done.
Mutant_DeleteUnanswered ==
  /\ pc = "delete"
  /\ \E after \in {pod[session.id], "gone"} :
       pod' = [pod EXCEPT ![session.id] = after]
  /\ session' = None
  /\ pc' = Return
  /\ UNCHANGED <<url, forgotten, lost, leaving, pending, crashes>>

\* The answer does not arrive: the pod may be gone or not.
DeleteUnanswered ==
  /\ pc = "delete"
  /\ \E after \in {pod[session.id], "gone"} :
       pod' = [pod EXCEPT ![session.id] = after]
  /\ session' = [session EXCEPT !.state = "stop_unconfirmed"]
  /\ pc' = Return
  /\ UNCHANGED <<url, forgotten, lost, leaving, pending, crashes>>

\* Accepted, or answered by a pod that is gone already.
Delete ==
  /\ pc = "delete"
  /\ pod' = [pod EXCEPT ![session.id] = "gone"]
  /\ pc' = "deleted"
  /\ UNCHANGED <<session, url, forgotten, lost, leaving, pending,
                 crashes>>

ClearSession ==
  /\ pc = "deleted"
  /\ session' = None
  /\ pc' = IF leaving THEN "down" ELSE "cleared"
  /\ UNCHANGED <<pod, url, forgotten, lost, leaving, pending, crashes>>

DropUrl ==
  /\ pc = "cleared"
  /\ url' = None
  /\ pc' = "idle"
  /\ UNCHANGED <<pod, session, forgotten, lost, leaving, pending,
                 crashes>>

\* The user names the recorded pod and has it forgotten.
Forget ==
  /\ pc = "idle" /\ session # None
  /\ forgotten' = forgotten \cup {session.id}
  /\ session' = None
  /\ pc' = "cleared"
  /\ UNCHANGED <<pod, url, lost, leaving, pending, crashes>>

-----------------------------------------------------------------------------
(* The process and the provider. *)

\* A clean exit looks, and stops what is recorded.
Leave ==
  /\ pc = "idle"
  /\ session' \in Refreshed
  /\ leaving' = TRUE
  /\ pc' = IF session = None THEN "down" ELSE "leave"
  /\ UNCHANGED <<pod, url, forgotten, lost, pending, crashes>>

\* The pod turned out to be gone: stop finds nothing recorded.
LeaveNothing ==
  /\ pc = "leave" /\ session = None
  /\ pc' = "down"
  /\ UNCHANGED <<pod, session, url, forgotten, lost, leaving, pending,
                 crashes>>

Crash ==
  /\ pc # "down" /\ crashes < MaxCrashes
  /\ crashes' = crashes + 1
  /\ lost' = [p \in Pods |-> IF p = pending THEN "crash" ELSE lost[p]]
  /\ pc' = "down" /\ leaving' = FALSE /\ pending' = None
  /\ UNCHANGED <<pod, session, url, forgotten>>

\* The next process looks at what the last one left.
Adopt ==
  /\ pc = "down"
  /\ session' \in Refreshed
  /\ pc' = "idle" /\ leaving' = FALSE
  /\ UNCHANGED <<pod, url, forgotten, lost, pending, crashes>>

PodEnds(p) ==
  /\ Exists(p)
  /\ \E after \in {"exited", "gone"} : pod' = [pod EXCEPT ![p] = after]
  /\ UNCHANGED <<session, url, forgotten, lost, pc, leaving, pending,
                 crashes>>

-----------------------------------------------------------------------------

Start ==
  \/ StartRefused \/ SaveSession \/ SaveUrl
  \/ \E p \in Pods : CreateUnanswered(p) \/ Create(p)

Stop ==
  \/ StopNothing \/ AskFails \/ AskGone \/ BeginStop
  \/ DeleteRefused \/ DeleteUnanswered \/ Delete
  \/ ClearSession \/ DropUrl

Next ==
  \/ Look \/ Start \/ Stop \/ Forget
  \/ Leave \/ LeaveNothing \/ Crash \/ Adopt
  \/ \E p \in Pods : PodEnds(p)

Spec == Init /\ [][Next]_vars

-----------------------------------------------------------------------------
(* Properties. *)

\* The application knows of every pod it made that may still bill, but for the
\* ones the user told it to forget and those that were lost as they were made.
Accounted ==
  \A p \in Pods : Exists(p) =>
    \/ session # None /\ session.id = p
    \/ pending = p
    \/ p \in forgotten
    \/ lost[p] # "no"

\* There is never a second rental on top of one that the application has been
\* told of: not after a stop that failed, a restart, or a repeated click.
OneRental ==
  \A p, q \in Pods :
    /\ Exists(p) /\ p \notin forgotten /\ lost[p] = "no"
    /\ Exists(q) /\ q \notin forgotten /\ lost[q] = "no"
    => p = q

\* The handle survives whatever a stop runs into: a session is replaced by
\* nothing else, it is cleared only when its pod is gone or forgotten, and the
\* URL of the worker is dropped only when no session is left.
HandleKept ==
  [][/\ session # None =>
          IF session' = None
            THEN pod'[session.id] = "gone" \/ session.id \in forgotten'
            ELSE session'.id = session.id
     /\ url # None /\ url' = None => session' = None]_vars

\* A stop that was asked for and not confirmed stays owed: no status poll, exit
\* or restart turns it back into a running session.
StopStaysOwed ==
  [][session # None /\ session.state \in StopStates
       => session' = None \/ session'.state \in StopStates]_vars
=============================================================================
