------------------------- MODULE RunpodRentalProofs -------------------------
(***************************************************************************)
(* What holds of RunpodRental for any number of pods and crashes: IInv is  *)
(* inductive, the rental's safety invariants follow from it, and so do the *)
(* two action properties.                                                  *)
(***************************************************************************)
EXTENDS RunpodRental, TLAPS

-----------------------------------------------------------------------------
(* The inductive invariant.  Accounted and the action properties are not   *)
(* inductive alone: they need what each place of the process holds.        *)

\* A pod is waiting to be recorded exactly while start is on its way there.
PendingWhileCreated == pc = "created" <=> pending # None

\* While a step of start or stop is under way its session is the one it read.
SessionHeld ==
  /\ pc \in {"saved", "delete", "deleted"} => session # None
  /\ pc \in {"created", "cleared"} => session = None

\* A stop reaches the provider after it is recorded as owed, and the session
\* is only cleared on a pod that is gone.
DeletedIsGone ==
  /\ pc \in {"delete", "deleted"} => session.state = "stopping"
  /\ pc = "deleted" => pod[session.id] = "gone"

IInv ==
  /\ TypeOK
  /\ PendingWhileCreated
  /\ SessionHeld
  /\ DeletedIsGone
  /\ Accounted

USE RentalAssumption DEF Sessions, StopStates, Exists

(* The initial states: no pod, no session.                                 *)
LEMMA InitInductive == Init => IInv
<1> SUFFICES ASSUME Init PROVE IInv
  OBVIOUS
<1>1. TypeOK
  <2>1. pod \in [Pods -> {"unborn", "up", "exited", "gone"}]
    BY DEF Init
  <2>2. lost \in [Pods -> {"no", "answer", "crash"}]
    BY DEF Init
  <2>3. leaving \in BOOLEAN
    BY DEF Init
  <2>4. crashes \in 0 .. MaxCrashes
    BY DEF Init
  <2> QED
    BY <2>1, <2>2, <2>3, <2>4 DEF Init, TypeOK
<1>2. PendingWhileCreated /\ SessionHeld /\ DeletedIsGone
  BY DEF Init, PendingWhileCreated, SessionHeld, DeletedIsGone
<1>3. Accounted
  BY DEF Init, Accounted
<1> QED
  BY <1>1, <1>2, <1>3 DEF IInv

(* A look leaves the session, corrects its state, or finds its pod gone; a *)
(* stop that is owed stays owed.                                           *)
LEMMA RefreshedKeeps ==
  ASSUME TypeOK, NEW s \in Refreshed
  PROVE  /\ s \in Sessions \cup {None}
         /\ session = None => s = None
         /\ session # None /\ s = None => pod[session.id] = "gone"
         /\ session # None /\ s # None => s.id = session.id
         /\ session # None /\ session.state \in StopStates /\ s # None
              => s.state \in StopStates
<1>1. CASE session = None
  BY <1>1 DEF Refreshed
<1>2. CASE session # None /\ pod[session.id] = "gone"
  BY <1>2 DEF Refreshed, TypeOK
<1>3. CASE session # None /\ pod[session.id] # "gone"
  BY <1>3 DEF Refreshed, TypeOK
<1> QED
  BY <1>1, <1>2, <1>3

-----------------------------------------------------------------------------
(* Looking, in the four places that do: what is recorded afterwards is a   *)
(* refreshed session, and the process is between operations.               *)
LEMMA LookingInductive ==
  ASSUME IInv, Look \/ StartRefused \/ Leave \/ Adopt
  PROVE  IInv'
<1>1. session' \in Refreshed /\ UNCHANGED <<pod, url, forgotten, lost, pending>>
  BY DEF Look, StartRefused, Leave, Adopt
<1>2. pc \in {"idle", "report", "down"} /\ pc' \in {"idle", "down", "leave"}
  BY DEF Look, StartRefused, Leave, Adopt
<1>3. TypeOK'
  <2>1. leaving' \in BOOLEAN /\ crashes' \in 0 .. MaxCrashes
    BY DEF IInv, TypeOK, Look, StartRefused, Leave, Adopt
  <2> QED
    BY <1>1, <1>2, <2>1, RefreshedKeeps DEF IInv, TypeOK
<1>4. PendingWhileCreated' /\ SessionHeld' /\ DeletedIsGone'
  BY <1>1, <1>2 DEF IInv, PendingWhileCreated, SessionHeld, DeletedIsGone
<1>5. Accounted'
  BY <1>1, RefreshedKeeps DEF IInv, TypeOK, Accounted
<1> QED
  BY <1>3, <1>4, <1>5 DEF IInv

(* Start: the pod it makes is pending, then recorded, and nothing else was. *)
LEMMA StartInductive ==
  ASSUME IInv,
         \/ SaveSession \/ SaveUrl
         \/ \E p \in Pods : CreateUnanswered(p) \/ Create(p)
  PROVE  IInv'
<1>1. CASE SaveSession
  BY <1>1 DEF IInv, TypeOK, PendingWhileCreated, SessionHeld, DeletedIsGone,
              Accounted, SaveSession
<1>2. CASE SaveUrl
  BY <1>2 DEF IInv, TypeOK, PendingWhileCreated, SessionHeld, DeletedIsGone,
              Accounted, SaveUrl
<1>3. ASSUME NEW p \in Pods, CreateUnanswered(p) PROVE IInv'
  BY <1>3 DEF IInv, TypeOK, PendingWhileCreated, SessionHeld, DeletedIsGone,
              Accounted, CreateUnanswered, MayCreate
<1>4. ASSUME NEW p \in Pods, Create(p) PROVE IInv'
  BY <1>4 DEF IInv, TypeOK, PendingWhileCreated, SessionHeld, DeletedIsGone,
              Accounted, Create, MayCreate
<1> QED
  BY <1>1, <1>2, <1>3, <1>4

(* Stop, up to the request: what is owed is recorded before it is tried,   *)
(* and only a pod that is gone is struck off.                              *)
LEMMA AskInductive ==
  ASSUME IInv, StopNothing \/ AskFails \/ AskGone \/ BeginStop
  PROVE  IInv'
<1>1. CASE StopNothing
  BY <1>1 DEF IInv, TypeOK, PendingWhileCreated, SessionHeld, DeletedIsGone,
              Accounted, StopNothing
<1>2. CASE AskFails
  BY <1>2 DEF IInv, TypeOK, PendingWhileCreated, SessionHeld, DeletedIsGone,
              Accounted, AskFails, Stopping, Return
<1>3. CASE AskGone
  BY <1>3 DEF IInv, TypeOK, PendingWhileCreated, SessionHeld, DeletedIsGone,
              Accounted, AskGone, Stopping
<1>4. CASE BeginStop
  BY <1>4 DEF IInv, TypeOK, PendingWhileCreated, SessionHeld, DeletedIsGone,
              Accounted, BeginStop, Stopping
<1> QED
  BY <1>1, <1>2, <1>3, <1>4

(* Stop, from the request on: the session outlives every answer but the    *)
(* one that says the pod is gone.                                          *)
LEMMA DeleteInductive ==
  ASSUME IInv,
         DeleteRefused \/ DeleteUnanswered \/ Delete \/ ClearSession \/ DropUrl
  PROVE  IInv'
<1>1. CASE DeleteRefused
  BY <1>1 DEF IInv, TypeOK, PendingWhileCreated, SessionHeld, DeletedIsGone,
              Accounted, DeleteRefused, Return
<1>2. CASE DeleteUnanswered
  BY <1>2 DEF IInv, TypeOK, PendingWhileCreated, SessionHeld, DeletedIsGone,
              Accounted, DeleteUnanswered, Return
<1>3. CASE Delete
  BY <1>3 DEF IInv, TypeOK, PendingWhileCreated, SessionHeld, DeletedIsGone,
              Accounted, Delete
<1>4. CASE ClearSession
  BY <1>4 DEF IInv, TypeOK, PendingWhileCreated, SessionHeld, DeletedIsGone,
              Accounted, ClearSession
<1>5. CASE DropUrl
  BY <1>5 DEF IInv, TypeOK, PendingWhileCreated, SessionHeld, DeletedIsGone,
              Accounted, DropUrl
<1> QED
  BY <1>1, <1>2, <1>3, <1>4, <1>5

(* What the user forgets, a process that ends, a pod that ends.            *)
LEMMA EndsInductive ==
  ASSUME IInv,
         Forget \/ LeaveNothing \/ Crash \/ \E p \in Pods : PodEnds(p)
  PROVE  IInv'
<1>1. CASE Forget
  BY <1>1 DEF IInv, TypeOK, PendingWhileCreated, SessionHeld, DeletedIsGone,
              Accounted, Forget
<1>2. CASE LeaveNothing
  BY <1>2 DEF IInv, TypeOK, PendingWhileCreated, SessionHeld, DeletedIsGone,
              Accounted, LeaveNothing
<1>3. CASE Crash
  <2>1. TypeOK'
    <3>1. lost' \in [Pods -> {"no", "answer", "crash"}]
      BY <1>3 DEF IInv, TypeOK, Crash
    <3>2. leaving' \in BOOLEAN
      BY <1>3 DEF Crash
    <3>3. crashes' \in 0 .. MaxCrashes
      BY <1>3 DEF IInv, TypeOK, Crash
    <3> QED
      BY <1>3, <3>1, <3>2, <3>3 DEF IInv, TypeOK, Crash
  <2>2. PendingWhileCreated' /\ SessionHeld' /\ DeletedIsGone'
    BY <1>3 DEF IInv, PendingWhileCreated, SessionHeld, DeletedIsGone, Crash
  <2>3. Accounted'
    BY <1>3 DEF IInv, TypeOK, Accounted, Crash
  <2> QED
    BY <2>1, <2>2, <2>3 DEF IInv
<1>4. ASSUME NEW p \in Pods, PodEnds(p) PROVE IInv'
  BY <1>4 DEF IInv, TypeOK, PendingWhileCreated, SessionHeld, DeletedIsGone,
              Accounted, PodEnds
<1> QED
  BY <1>1, <1>2, <1>3, <1>4

(* A stutter changes nothing IInv speaks of.                               *)
LEMMA StutterInductive == IInv /\ UNCHANGED vars => IInv'
BY DEF vars, IInv, TypeOK, PendingWhileCreated, SessionHeld, DeletedIsGone,
       Accounted

THEOREM Inductive == Spec => []IInv
<1>1. IInv /\ [Next]_vars => IInv'
  BY LookingInductive, StartInductive, AskInductive, DeleteInductive,
     EndsInductive, StutterInductive
     DEF Next, Start, Stop
<1> QED
  BY InitInductive, <1>1, PTL DEF Spec

-----------------------------------------------------------------------------
(* What follows from it.                                                   *)

\* Whatever the provider answers and wherever the process dies, the state is
\* well formed.
THEOREM TypeCorrect == Spec => []TypeOK
BY Inductive, PTL DEF IInv

\* No rental is left running without the application knowing of it: not by a
\* failed stop, a lost answer to a stop, a restart or an exit.
THEOREM RentalsAccounted == Spec => []Accounted
BY Inductive, PTL DEF IInv

\* And of those it was told of there is one at a time: a pod that is pending
\* or recorded leaves no room for another.
THEOREM RentalsSingle == Spec => []OneRental
<1>1. IInv => OneRental
  BY DEF IInv, TypeOK, PendingWhileCreated, SessionHeld, Accounted, OneRental
<1> QED
  BY Inductive, <1>1, PTL

-----------------------------------------------------------------------------
(* The action properties, one step for each kind of action.                *)

\* The handle of a rental is not overwritten, and goes only with its pod.
THEOREM HandleIsKept == Spec => HandleKept
<1> DEFINE Kept ==
      /\ session # None =>
           IF session' = None
             THEN pod'[session.id] = "gone" \/ session.id \in forgotten'
             ELSE session'.id = session.id
      /\ url # None /\ url' = None => session' = None
<1>1. ASSUME IInv, [Next]_vars PROVE Kept \/ UNCHANGED vars
  <2>1. CASE Look \/ StartRefused \/ Leave \/ Adopt
    <3>1. session' \in Refreshed /\ UNCHANGED <<pod, url>>
      BY <2>1 DEF Look, StartRefused, Leave, Adopt
    <3> QED
      BY <1>1, <3>1, RefreshedKeeps DEF IInv
  <2>2. CASE Start /\ ~StartRefused
    BY <1>1, <2>2 DEF Start, IInv, TypeOK, SessionHeld, SaveSession, SaveUrl,
                      CreateUnanswered, Create
  <2>3. CASE StopNothing \/ AskFails \/ AskGone \/ BeginStop
    BY <1>1, <2>3 DEF IInv, TypeOK, StopNothing, AskFails, AskGone, BeginStop
  <2>4. CASE DeleteRefused \/ DeleteUnanswered \/ Delete \/ ClearSession
               \/ DropUrl
    BY <1>1, <2>4 DEF IInv, TypeOK, SessionHeld, DeletedIsGone, DeleteRefused,
                      DeleteUnanswered, Delete, ClearSession, DropUrl
  <2>5. CASE Forget \/ LeaveNothing \/ Crash \/ \E p \in Pods : PodEnds(p)
    BY <1>1, <2>5 DEF IInv, TypeOK, Forget, LeaveNothing, Crash, PodEnds
  <2> QED
    BY <1>1, <2>1, <2>2, <2>3, <2>4, <2>5 DEF Next, Start, Stop
<1> QED
  BY Inductive, <1>1, PTL DEF Spec, HandleKept

\* What was asked to stop is not shown as running again.
THEOREM StopRemainsOwed == Spec => StopStaysOwed
<1> DEFINE Owed ==
      session # None /\ session.state \in StopStates
        => session' = None \/ session'.state \in StopStates
<1>1. ASSUME IInv, [Next]_vars PROVE Owed \/ UNCHANGED vars
  <2>1. CASE Look \/ StartRefused \/ Leave \/ Adopt
    <3>1. session' \in Refreshed
      BY <2>1 DEF Look, StartRefused, Leave, Adopt
    <3> QED
      BY <1>1, <3>1, RefreshedKeeps DEF IInv
  <2>2. CASE Start /\ ~StartRefused
    BY <1>1, <2>2 DEF Start, IInv, TypeOK, SessionHeld, SaveSession, SaveUrl,
                      CreateUnanswered, Create
  <2>3. CASE StopNothing \/ AskFails \/ AskGone \/ BeginStop
    BY <1>1, <2>3 DEF IInv, TypeOK, StopNothing, AskFails, AskGone, BeginStop
  <2>4. CASE DeleteRefused \/ DeleteUnanswered \/ Delete \/ ClearSession
               \/ DropUrl
    BY <1>1, <2>4 DEF IInv, TypeOK, DeleteRefused, DeleteUnanswered, Delete,
                      ClearSession, DropUrl
  <2>5. CASE Forget \/ LeaveNothing \/ Crash \/ \E p \in Pods : PodEnds(p)
    BY <1>1, <2>5 DEF IInv, TypeOK, Forget, LeaveNothing, Crash, PodEnds
  <2> QED
    BY <1>1, <2>1, <2>2, <2>3, <2>4, <2>5 DEF Next, Start, Stop
<1> QED
  BY Inductive, <1>1, PTL DEF Spec, StopStaysOwed
=============================================================================
