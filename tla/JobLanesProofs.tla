-------------------------- MODULE JobLanesProofs --------------------------
(***************************************************************************)
(* What holds of JobLanes for any number of jobs, attempts and crashes:    *)
(* IInv is inductive, each safety invariant follows from it, and every     *)
(* step of the lanes is a step or a stutter of JobLifecycle.               *)
(***************************************************************************)
EXTENDS JobLanes, TLAPS

USE DEF Lanes, LaneFor, Terminal, Statuses, Outcomes, InHandler, ExecState,
        Executing, durable, process, lanes, flags, Woken, Cancelable,
        TerminalResult, DeviceAfter

(* The initial states: no row, nothing in memory.                          *)
LEMMA InitInductive == Init => IInv
BY AttemptsAssumption, CrashAssumption, LocalAssumption, NoJobAssumption
   DEF Init, IInv, TypeOK, NoStrandedRow, OneJobPerDevice, OnDevice,
       NoDuplicateBatch, SettledResultComplete, FlagsFollowJobs, DownIsEmpty,
       InflightExact, CurrentInflight, PendingWaits, CreatedWaits,
       FreshRows, OutputOfThisAttempt, BusyIsLocal

-----------------------------------------------------------------------------
(* One lemma per action: under it a step per part the action can disturb,  *)
(* and one for the parts it leaves alone.                                  *)

(* A new row is fresh, and its lane remembers it.                          *)
LEMMA SubmitInductive ==
  ASSUME IInv, NEW j \in Jobs, Submit(j)
  PROVE  IInv'
<1>1. TypeOK'
  BY DEF IInv, TypeOK, Submit, Enqueue
<1>2. NoStrandedRow'
  BY DEF IInv, TypeOK, NoStrandedRow, Submit, Enqueue
<1>3. SettledResultComplete'
  BY DEF IInv, TypeOK, SettledResultComplete, Submit, Enqueue
<1>4. FlagsFollowJobs'
  BY DEF IInv, TypeOK, FlagsFollowJobs, Submit, Enqueue
<1>5. DownIsEmpty'
  BY DEF IInv, TypeOK, DownIsEmpty, Submit, Enqueue
<1>6. PendingWaits'
  BY DEF IInv, TypeOK, PendingWaits, FreshRows, Submit, Enqueue
<1>7. CreatedWaits'
  BY DEF IInv, TypeOK, CreatedWaits, Submit, Enqueue
<1>8. FreshRows'
  BY DEF IInv, TypeOK, FreshRows, Submit, Enqueue
<1>9. /\ OneJobPerDevice' /\ NoDuplicateBatch' /\ InflightExact'
     /\ OutputOfThisAttempt' /\ BusyIsLocal'
  BY DEF IInv, TypeOK, OneJobPerDevice, NoDuplicateBatch, InflightExact,
         OutputOfThisAttempt, BusyIsLocal, OnDevice, Submit, Enqueue
<1>10. CurrentInflight'
  BY DEF IInv, TypeOK, CurrentInflight, Submit, Enqueue
<1> QED
  BY <1>1, <1>2, <1>3, <1>4, <1>5, <1>6, <1>7, <1>8, <1>9, <1>10 DEF IInv

(* The retry is fresh; the row it supersedes was settled and stays so.     *)
LEMMA RetryInductive ==
  ASSUME IInv, NEW old \in Jobs, NEW j \in Jobs \ {old}, Retry(old, j)
  PROVE  IInv'
<1>1. TypeOK'
  BY DEF IInv, TypeOK, Retry, Enqueue
<1>2. NoStrandedRow'
  BY DEF IInv, TypeOK, NoStrandedRow, Retry, Enqueue
<1>3. SettledResultComplete'
  BY DEF IInv, TypeOK, SettledResultComplete, Retry, Enqueue
<1>4. FlagsFollowJobs'
  BY DEF IInv, TypeOK, FlagsFollowJobs, Retry, Enqueue
<1>5. DownIsEmpty'
  BY DEF IInv, TypeOK, DownIsEmpty, Retry, Enqueue
<1>6. PendingWaits'
  BY DEF IInv, TypeOK, PendingWaits, FreshRows, Retry, Enqueue
<1>7. CreatedWaits'
  BY DEF IInv, TypeOK, CreatedWaits, Retry, Enqueue
<1>8. FreshRows'
  BY DEF IInv, TypeOK, FreshRows, Retry, Enqueue
<1>9. /\ OneJobPerDevice' /\ NoDuplicateBatch' /\ InflightExact'
     /\ OutputOfThisAttempt' /\ BusyIsLocal'
  BY DEF IInv, TypeOK, OneJobPerDevice, NoDuplicateBatch, InflightExact,
         OutputOfThisAttempt, BusyIsLocal, OnDevice, Retry, Enqueue
<1>10. CurrentInflight'
  BY DEF IInv, TypeOK, CurrentInflight, Retry, Enqueue
<1> QED
  BY <1>1, <1>2, <1>3, <1>4, <1>5, <1>6, <1>7, <1>8, <1>9, <1>10 DEF IInv

(* What cancel() and skip() take for a job in flight is one some task      *)
(* executes.                                                               *)
LEMMA RunningHereExecutes ==
  ASSUME IInv, NEW j \in Jobs, RunningHere(j)
  PROVE  Executing(j)
<1>1. PICK l \in Lanes : j \in inflight[l] \/ current[l] = j
  BY DEF RunningHere
<1>2. j \in inflight[l]
  BY <1>1, NoJobAssumption DEF IInv, CurrentInflight
<1> QED
  BY <1>2 DEF IInv, InflightExact

(* The flag goes to a job in flight.                                       *)
LEMMA CancelRunningInductive ==
  ASSUME IInv, NEW j \in Jobs, CancelRunning(j)
  PROVE  IInv'
<1>1. TypeOK'
  BY DEF IInv, TypeOK, CancelRunning
<1>2. FlagsFollowJobs'
  BY RunningHereExecutes DEF IInv, TypeOK, FlagsFollowJobs, CancelRunning
<1>3. DownIsEmpty'
  BY DEF IInv, TypeOK, DownIsEmpty, CancelRunning
<1>4. FreshRows'
  BY RunningHereExecutes
     DEF IInv, TypeOK, FreshRows, NoStrandedRow, CancelRunning
<1>5. /\ NoStrandedRow' /\ OneJobPerDevice' /\ NoDuplicateBatch'
     /\ SettledResultComplete' /\ InflightExact' /\ PendingWaits'
     /\ CreatedWaits' /\ OutputOfThisAttempt' /\ BusyIsLocal'
  BY DEF IInv, TypeOK, NoStrandedRow, OneJobPerDevice, NoDuplicateBatch,
         SettledResultComplete, InflightExact, PendingWaits, CreatedWaits,
         OutputOfThisAttempt, BusyIsLocal, OnDevice, CancelRunning
<1>6. CurrentInflight'
  BY DEF IInv, TypeOK, CurrentInflight, CancelRunning
<1> QED
  BY <1>1, <1>2, <1>3, <1>4, <1>5, <1>6 DEF IInv

(* The row canceled here was queued: what runs is in flight.               *)
LEMMA CancelWaitingInductive ==
  ASSUME IInv, NEW j \in Jobs, CancelWaiting(j)
  PROVE  IInv'
<1>1. TypeOK'
  BY DEF IInv, TypeOK, CancelWaiting
<1>2. NoStrandedRow'
  BY DEF IInv, TypeOK, NoStrandedRow, InflightExact, RunningHere,
         CancelWaiting
<1>3. SettledResultComplete'
  <2>1. status[j] = "queued"
    BY DEF IInv, TypeOK, NoStrandedRow, InflightExact, RunningHere,
         CancelWaiting
  <2> QED
    BY <2>1 DEF IInv, TypeOK, SettledResultComplete, FreshRows, CancelWaiting
<1>4. FlagsFollowJobs'
  BY DEF IInv, TypeOK, FlagsFollowJobs, NoStrandedRow, InflightExact,
         RunningHere, CancelWaiting
<1>5. DownIsEmpty'
  BY DEF IInv, TypeOK, DownIsEmpty, CancelWaiting
<1>6. PendingWaits'
  BY DEF IInv, TypeOK, PendingWaits, CancelWaiting
<1>7. CreatedWaits'
  BY DEF IInv, TypeOK, CreatedWaits, CancelWaiting
<1>8. FreshRows'
  BY DEF IInv, TypeOK, FreshRows, CancelWaiting
<1>9. /\ OneJobPerDevice' /\ NoDuplicateBatch' /\ InflightExact'
     /\ OutputOfThisAttempt' /\ BusyIsLocal'
  BY DEF IInv, TypeOK, OneJobPerDevice, NoDuplicateBatch, InflightExact,
         OutputOfThisAttempt, BusyIsLocal, OnDevice, CancelWaiting
<1>10. CurrentInflight'
  BY DEF IInv, TypeOK, CurrentInflight, CancelWaiting
<1> QED
  BY <1>1, <1>2, <1>3, <1>4, <1>5, <1>6, <1>7, <1>8, <1>9, <1>10 DEF IInv

(* The flag goes to a job in flight.                                       *)
LEMMA SkipInductive ==
  ASSUME IInv, NEW j \in Jobs, Skip(j)
  PROVE  IInv'
<1>1. TypeOK'
  BY DEF IInv, TypeOK, Skip
<1>2. FlagsFollowJobs'
  BY RunningHereExecutes DEF IInv, TypeOK, FlagsFollowJobs, Skip
<1>3. DownIsEmpty'
  BY DEF IInv, TypeOK, DownIsEmpty, Skip
<1>4. /\ NoStrandedRow' /\ OneJobPerDevice' /\ NoDuplicateBatch'
     /\ SettledResultComplete' /\ InflightExact' /\ PendingWaits'
     /\ CreatedWaits' /\ FreshRows' /\ OutputOfThisAttempt'
     /\ BusyIsLocal'
  BY DEF IInv, TypeOK, NoStrandedRow, OneJobPerDevice, NoDuplicateBatch,
         SettledResultComplete, InflightExact, PendingWaits, CreatedWaits,
         FreshRows, OutputOfThisAttempt, BusyIsLocal, OnDevice, Skip
<1>5. CurrentInflight'
  BY DEF IInv, TypeOK, CurrentInflight, Skip
<1> QED
  BY <1>1, <1>2, <1>3, <1>4, <1>5 DEF IInv

(* Only the worker's place changes.                                        *)
LEMMA WakeupInductive ==
  ASSUME IInv, NEW l \in Lanes, Wakeup(l)
  PROVE  IInv'
<1>1. TypeOK'
  BY DEF IInv, TypeOK, Wakeup
<1>2. DownIsEmpty'
  BY DEF IInv, TypeOK, DownIsEmpty, Wakeup
<1>3. BusyIsLocal'
  BY DEF IInv, TypeOK, BusyIsLocal, Wakeup
<1>4. /\ NoStrandedRow' /\ OneJobPerDevice' /\ NoDuplicateBatch'
     /\ SettledResultComplete' /\ FlagsFollowJobs' /\ InflightExact'
     /\ PendingWaits' /\ CreatedWaits' /\ FreshRows'
     /\ OutputOfThisAttempt'
  BY DEF IInv, TypeOK, NoStrandedRow, OneJobPerDevice, NoDuplicateBatch,
         SettledResultComplete, FlagsFollowJobs, InflightExact,
         PendingWaits, CreatedWaits, FreshRows, OutputOfThisAttempt,
         OnDevice, Wakeup
<1>5. CurrentInflight'
  BY DEF IInv, TypeOK, CurrentInflight, Wakeup
<1> QED
  BY <1>1, <1>2, <1>3, <1>4, <1>5 DEF IInv

(* The entries it forgets are canceled rows that no task holds.            *)
LEMMA RestInductive ==
  ASSUME IInv, NEW l \in Lanes, Rest(l)
  PROVE  IInv'
<1>1. TypeOK'
  BY DEF IInv, TypeOK, Rest, Scanning, DropDead, Alive
<1>2. NoStrandedRow'
  BY DEF IInv, TypeOK, NoStrandedRow, Rest, Scanning, DropDead, Alive
<1>3. FlagsFollowJobs'
  BY DEF IInv, TypeOK, FlagsFollowJobs, PendingWaits, Rest, Scanning,
         DropDead, Alive
<1>4. DownIsEmpty'
  BY DEF IInv, TypeOK, DownIsEmpty, Rest, Scanning, DropDead, Alive
<1>5. PendingWaits'
  BY DEF IInv, TypeOK, PendingWaits, Rest, Scanning, DropDead, Alive
<1>6. BusyIsLocal'
  BY DEF IInv, TypeOK, BusyIsLocal, Rest, Scanning, DropDead, Alive
<1>7. /\ OneJobPerDevice' /\ NoDuplicateBatch' /\ SettledResultComplete'
     /\ InflightExact' /\ CreatedWaits' /\ FreshRows'
     /\ OutputOfThisAttempt'
  BY DEF IInv, TypeOK, OneJobPerDevice, NoDuplicateBatch,
         SettledResultComplete, InflightExact, CreatedWaits, FreshRows,
         OutputOfThisAttempt, OnDevice, Rest, Scanning, DropDead, Alive
<1>8. CurrentInflight'
  BY DEF IInv, TypeOK, CurrentInflight, Rest, Scanning, DropDead, Alive
<1> QED
  BY <1>1, <1>2, <1>3, <1>4, <1>5, <1>6, <1>7, <1>8 DEF IInv

(* The worker was not busy, so no local job runs beside the new one.       *)
LEMMA PickLocalInductive ==
  ASSUME IInv, PickLocal
  PROVE  IInv'
<1>1. TypeOK'
  BY AttemptsAssumption DEF IInv, TypeOK, PickLocal, Scanning, DropDead,
                            Alive, BeginExecute
<1>2. NoStrandedRow'
  BY DEF IInv, TypeOK, NoStrandedRow, PickLocal, Scanning, DropDead, Alive,
         BeginExecute
<1>3. OneJobPerDevice'
  BY DEF IInv, TypeOK, OneJobPerDevice, OnDevice, BusyIsLocal, PendingWaits,
         PickLocal, Scanning, DropDead, Alive, BeginExecute
<1>4. SettledResultComplete'
  BY DEF IInv, TypeOK, SettledResultComplete, PickLocal, Scanning, DropDead,
         Alive, BeginExecute
<1>5. FlagsFollowJobs'
  BY DEF IInv, TypeOK, FlagsFollowJobs, PendingWaits, FreshRows, PickLocal,
         Scanning, DropDead, Alive, BeginExecute
<1>6. DownIsEmpty'
  BY DEF IInv, TypeOK, DownIsEmpty, PickLocal, Scanning, DropDead, Alive,
         BeginExecute
<1>7. InflightExact'
  BY DEF IInv, TypeOK, InflightExact, PickLocal, Scanning, DropDead, Alive,
         BeginExecute
<1>8. PendingWaits'
  BY DEF IInv, TypeOK, PendingWaits, PickLocal, Scanning, DropDead, Alive,
         BeginExecute
<1>9. CreatedWaits'
  BY DEF IInv, TypeOK, CreatedWaits, PickLocal, Scanning, DropDead, Alive,
         BeginExecute
<1>10. FreshRows'
  BY DEF IInv, TypeOK, FreshRows, PickLocal, Scanning, DropDead, Alive,
         BeginExecute
<1>11. OutputOfThisAttempt'
  BY DEF IInv, TypeOK, OutputOfThisAttempt, PendingWaits, PickLocal,
         Scanning, DropDead, Alive, BeginExecute
<1>12. BusyIsLocal'
  BY DEF IInv, TypeOK, BusyIsLocal, PickLocal, Scanning, DropDead, Alive,
         BeginExecute
<1>13. NoDuplicateBatch'
  BY DEF IInv, TypeOK, NoDuplicateBatch, PickLocal, Scanning, DropDead,
         Alive, BeginExecute
<1>14. CurrentInflight'
  BY DEF IInv, TypeOK, CurrentInflight, PickLocal, Scanning, DropDead,
         Alive, BeginExecute
<1> QED
  BY <1>1, <1>2, <1>3, <1>4, <1>5, <1>6, <1>7, <1>8, <1>9, <1>10, <1>11,
     <1>12, <1>13, <1>14 DEF IInv

(* The device was free, so no remote job had it.                           *)
LEMMA PickRemoteInductive ==
  ASSUME IInv, PickRemote
  PROVE  IInv'
<1>1. TypeOK'
  BY DEF IInv, TypeOK, PickRemote, Scanning, DropDead, Alive
<1>2. NoStrandedRow'
  BY DEF IInv, TypeOK, NoStrandedRow, PickRemote, Scanning, DropDead, Alive
<1>3. OneJobPerDevice'
  <2>1. PICK j \in Alive("remote") :
          exec' = [exec EXCEPT ![j] = "created"] /\ device' = j
    BY DEF PickRemote
  <2>2. j \notin LocalJobs /\ j \in Jobs
    BY <2>1 DEF IInv, TypeOK, PendingWaits, Alive
  <2>3. \A k \in Jobs \ LocalJobs : OnDevice(k)' => k = j
    BY <2>1, <2>2, NoJobAssumption
       DEF IInv, TypeOK, OneJobPerDevice, OnDevice, PickRemote
  <2>4. \A k \in LocalJobs : OnDevice(k)' => OnDevice(k)
    BY <2>1, <2>2, LocalAssumption DEF IInv, TypeOK, OnDevice
  <2> QED
    BY <2>1, <2>3, <2>4 DEF IInv, OneJobPerDevice
<1>4. FlagsFollowJobs'
  BY DEF IInv, TypeOK, FlagsFollowJobs, PendingWaits, FreshRows, PickRemote,
         Scanning, DropDead, Alive
<1>5. DownIsEmpty'
  BY DEF IInv, TypeOK, DownIsEmpty, PickRemote, Scanning, DropDead, Alive
<1>6. InflightExact'
  BY DEF IInv, TypeOK, InflightExact, PendingWaits, PickRemote, Scanning,
         DropDead, Alive
<1>7. PendingWaits'
  BY DEF IInv, TypeOK, PendingWaits, PickRemote, Scanning, DropDead, Alive
<1>8. CreatedWaits'
  BY DEF IInv, TypeOK, CreatedWaits, PendingWaits, PickRemote, Scanning,
         DropDead, Alive
<1>9. FreshRows'
  BY DEF IInv, TypeOK, FreshRows, PickRemote, Scanning, DropDead, Alive
<1>10. OutputOfThisAttempt'
  BY DEF IInv, TypeOK, OutputOfThisAttempt, PickRemote, Scanning, DropDead,
         Alive
<1>11. BusyIsLocal'
  BY DEF IInv, TypeOK, BusyIsLocal, PickRemote, Scanning, DropDead, Alive
<1>12. NoDuplicateBatch' /\ SettledResultComplete'
  BY DEF IInv, TypeOK, NoDuplicateBatch, SettledResultComplete, PickRemote,
         Scanning, DropDead, Alive
<1>13. CurrentInflight'
  BY DEF IInv, TypeOK, CurrentInflight, PickRemote, Scanning, DropDead,
         Alive
<1> QED
  BY <1>1, <1>2, <1>3, <1>4, <1>5, <1>6, <1>7, <1>8, <1>9, <1>10, <1>11,
     <1>12, <1>13 DEF IInv

(* The thread ends; its task still holds the job.                          *)
LEMMA ProgressCancelsInductive ==
  ASSUME IInv, NEW j \in Jobs, ProgressCancels(j)
  PROVE  IInv'
<1>1. TypeOK'
  BY DEF IInv, TypeOK, ProgressCancels, HandlerEnds
<1>2. NoStrandedRow'
  BY DEF IInv, TypeOK, NoStrandedRow, ProgressCancels, HandlerEnds
<1>3. OneJobPerDevice'
  BY DEF IInv, TypeOK, OneJobPerDevice, OnDevice, ProgressCancels,
         HandlerEnds
<1>4. FlagsFollowJobs'
  BY DEF IInv, TypeOK, FlagsFollowJobs, ProgressCancels, HandlerEnds
<1>5. DownIsEmpty'
  BY DEF IInv, TypeOK, DownIsEmpty, ProgressCancels, HandlerEnds
<1>6. InflightExact'
  BY DEF IInv, TypeOK, InflightExact, ProgressCancels, HandlerEnds
<1>7. PendingWaits'
  BY DEF IInv, TypeOK, PendingWaits, ProgressCancels, HandlerEnds
<1>8. CreatedWaits'
  BY DEF IInv, TypeOK, CreatedWaits, ProgressCancels, HandlerEnds
<1>9. FreshRows'
  BY DEF IInv, TypeOK, FreshRows, ProgressCancels, HandlerEnds
<1>10. OutputOfThisAttempt'
  BY DEF IInv, TypeOK, OutputOfThisAttempt, ProgressCancels, HandlerEnds
<1>11. BusyIsLocal'
  BY DEF IInv, TypeOK, BusyIsLocal, ProgressCancels, HandlerEnds
<1>12. NoDuplicateBatch' /\ SettledResultComplete'
  BY DEF IInv, TypeOK, NoDuplicateBatch, SettledResultComplete,
         ProgressCancels, HandlerEnds
<1>13. CurrentInflight'
  BY DEF IInv, TypeOK, CurrentInflight, ProgressCancels, HandlerEnds
<1> QED
  BY <1>1, <1>2, <1>3, <1>4, <1>5, <1>6, <1>7, <1>8, <1>9, <1>10, <1>11,
     <1>12, <1>13 DEF IInv

(* The flag is consumed, whatever the handler makes of it.                 *)
LEMMA ProgressSkipsInductive ==
  ASSUME IInv, NEW j \in Jobs, ProgressSkips(j)
  PROVE  IInv'
<1>1. TypeOK'
  BY DEF IInv, TypeOK, ProgressSkips
<1>2. NoStrandedRow'
  BY DEF IInv, TypeOK, NoStrandedRow, ProgressSkips
<1>3. OneJobPerDevice'
  <2>1. \A k \in Jobs : OnDevice(k)' => OnDevice(k)
    BY LocalAssumption DEF IInv, TypeOK, OnDevice, ProgressSkips
  <2> QED
    BY <2>1, LocalAssumption DEF IInv, OneJobPerDevice, ProgressSkips, lanes
<1>4. FlagsFollowJobs'
  BY DEF IInv, TypeOK, FlagsFollowJobs, ProgressSkips
<1>5. DownIsEmpty'
  BY DEF IInv, TypeOK, DownIsEmpty, ProgressSkips
<1>6. InflightExact'
  BY DEF IInv, TypeOK, InflightExact, ProgressSkips
<1>7. PendingWaits'
  BY DEF IInv, TypeOK, PendingWaits, ProgressSkips
<1>8. CreatedWaits'
  BY DEF IInv, TypeOK, CreatedWaits, ProgressSkips
<1>9. FreshRows'
  BY DEF IInv, TypeOK, FreshRows, ProgressSkips
<1>10. OutputOfThisAttempt'
  BY DEF IInv, TypeOK, OutputOfThisAttempt, ProgressSkips
<1>11. BusyIsLocal'
  <2>1. \A k \in Jobs : Executing(k)' => Executing(k)
    BY DEF IInv, TypeOK, ProgressSkips
  <2> QED
    BY <2>1, LocalAssumption DEF IInv, BusyIsLocal, ProgressSkips, lanes
<1>12. NoDuplicateBatch' /\ SettledResultComplete'
  BY DEF IInv, TypeOK, NoDuplicateBatch, SettledResultComplete,
         ProgressSkips
<1>13. CurrentInflight'
  BY DEF IInv, TypeOK, CurrentInflight, ProgressSkips
<1> QED
  BY <1>1, <1>2, <1>3, <1>4, <1>5, <1>6, <1>7, <1>8, <1>9, <1>10, <1>11,
     <1>12, <1>13 DEF IInv

(* Only the current attempt adds output, and it is the first.              *)
LEMMA CommitAssetInductive ==
  ASSUME IInv, NEW j \in Jobs, CommitAsset(j)
  PROVE  IInv'
<1>1. TypeOK'
  BY DEF IInv, TypeOK, CommitAsset
<1>2. NoDuplicateBatch'
  BY DEF IInv, TypeOK, NoDuplicateBatch, OutputOfThisAttempt, CommitAsset
<1>3. SettledResultComplete'
  BY DEF IInv, TypeOK, SettledResultComplete, NoStrandedRow, CommitAsset
<1>4. PendingWaits'
  BY DEF IInv, TypeOK, PendingWaits, CommitAsset
<1>5. CreatedWaits'
  BY DEF IInv, TypeOK, CreatedWaits, CommitAsset
<1>6. FreshRows'
  BY DEF IInv, TypeOK, FreshRows, NoStrandedRow, CommitAsset
<1>7. OutputOfThisAttempt'
  BY DEF IInv, TypeOK, OutputOfThisAttempt, CommitAsset
<1>8. /\ NoStrandedRow' /\ OneJobPerDevice' /\ FlagsFollowJobs'
     /\ DownIsEmpty' /\ InflightExact' /\ BusyIsLocal'
  BY DEF IInv, TypeOK, NoStrandedRow, OneJobPerDevice, FlagsFollowJobs,
         DownIsEmpty, InflightExact, BusyIsLocal, OnDevice, CommitAsset
<1>9. CurrentInflight'
  BY DEF IInv, TypeOK, CurrentInflight, CommitAsset
<1> QED
  BY <1>1, <1>2, <1>3, <1>4, <1>5, <1>6, <1>7, <1>8, <1>9 DEF IInv

(* Only the holder gives the device up.                                    *)
LEMMA ReleaseDeviceInductive ==
  ASSUME IInv, NEW j \in Jobs, ReleaseDevice(j)
  PROVE  IInv'
<1>1. TypeOK'
  BY DEF IInv, TypeOK, ReleaseDevice
<1>2. NoStrandedRow'
  BY DEF IInv, TypeOK, NoStrandedRow, ReleaseDevice
<1>3. OneJobPerDevice'
  BY DEF IInv, TypeOK, OneJobPerDevice, OnDevice, ReleaseDevice
<1>4. FlagsFollowJobs'
  BY DEF IInv, TypeOK, FlagsFollowJobs, ReleaseDevice
<1>5. DownIsEmpty'
  BY DEF IInv, TypeOK, DownIsEmpty, ReleaseDevice
<1>6. InflightExact'
  BY DEF IInv, TypeOK, InflightExact, ReleaseDevice
<1>7. PendingWaits'
  BY DEF IInv, TypeOK, PendingWaits, ReleaseDevice
<1>8. CreatedWaits'
  BY DEF IInv, TypeOK, CreatedWaits, ReleaseDevice
<1>9. FreshRows'
  BY DEF IInv, TypeOK, FreshRows, ReleaseDevice
<1>10. OutputOfThisAttempt'
  BY DEF IInv, TypeOK, OutputOfThisAttempt, ReleaseDevice
<1>11. BusyIsLocal'
  BY DEF IInv, TypeOK, BusyIsLocal, ReleaseDevice
<1>12. NoDuplicateBatch' /\ SettledResultComplete'
  BY DEF IInv, TypeOK, NoDuplicateBatch, SettledResultComplete,
         ReleaseDevice
<1>13. CurrentInflight'
  BY DEF IInv, TypeOK, CurrentInflight, ReleaseDevice
<1> QED
  BY <1>1, <1>2, <1>3, <1>4, <1>5, <1>6, <1>7, <1>8, <1>9, <1>10, <1>11,
     <1>12, <1>13 DEF IInv

(* The thread ends; its task still holds the job.                          *)
LEMMA HandlerStopsInductive ==
  ASSUME IInv, NEW j \in Jobs, HandlerStops(j)
  PROVE  IInv'
<1>1. TypeOK'
  BY DEF IInv, TypeOK, HandlerStops, HandlerEnds
<1>2. NoStrandedRow'
  BY DEF IInv, TypeOK, NoStrandedRow, HandlerStops, HandlerEnds
<1>3. OneJobPerDevice'
  BY DEF IInv, TypeOK, OneJobPerDevice, OnDevice, HandlerStops, HandlerEnds
<1>4. FlagsFollowJobs'
  BY DEF IInv, TypeOK, FlagsFollowJobs, HandlerStops, HandlerEnds
<1>5. DownIsEmpty'
  BY DEF IInv, TypeOK, DownIsEmpty, HandlerStops, HandlerEnds
<1>6. InflightExact'
  BY DEF IInv, TypeOK, InflightExact, HandlerStops, HandlerEnds
<1>7. PendingWaits'
  BY DEF IInv, TypeOK, PendingWaits, HandlerStops, HandlerEnds
<1>8. CreatedWaits'
  BY DEF IInv, TypeOK, CreatedWaits, HandlerStops, HandlerEnds
<1>9. FreshRows'
  BY DEF IInv, TypeOK, FreshRows, HandlerStops, HandlerEnds
<1>10. OutputOfThisAttempt'
  BY DEF IInv, TypeOK, OutputOfThisAttempt, HandlerStops, HandlerEnds
<1>11. BusyIsLocal'
  BY DEF IInv, TypeOK, BusyIsLocal, HandlerStops, HandlerEnds
<1>12. NoDuplicateBatch' /\ SettledResultComplete'
  BY DEF IInv, TypeOK, NoDuplicateBatch, SettledResultComplete,
         HandlerStops, HandlerEnds
<1>13. CurrentInflight'
  BY DEF IInv, TypeOK, CurrentInflight, HandlerStops, HandlerEnds
<1> QED
  BY <1>1, <1>2, <1>3, <1>4, <1>5, <1>6, <1>7, <1>8, <1>9, <1>10, <1>11,
     <1>12, <1>13 DEF IInv

(* The created task was canceled in the gap, or its row is queued.         *)
LEMMA StartTaskInductive ==
  ASSUME IInv, NEW j \in Jobs, StartTask(j)
  PROVE  IInv'
<1>1. TypeOK'
  BY AttemptsAssumption DEF IInv, TypeOK, StartTask, BeginExecute
<1>2. NoStrandedRow'
  BY DEF IInv, TypeOK, NoStrandedRow, StartTask, BeginExecute
<1>3. OneJobPerDevice'
  BY DEF IInv, TypeOK, OneJobPerDevice, OnDevice, CreatedWaits, StartTask,
         BeginExecute
<1>4. SettledResultComplete'
  BY DEF IInv, TypeOK, SettledResultComplete, StartTask, BeginExecute
<1>5. FlagsFollowJobs'
  BY DEF IInv, TypeOK, FlagsFollowJobs, StartTask, BeginExecute
<1>6. DownIsEmpty'
  BY DEF IInv, TypeOK, DownIsEmpty, StartTask, BeginExecute
<1>7. InflightExact'
  BY DEF IInv, TypeOK, InflightExact, StartTask, BeginExecute
<1>8. PendingWaits'
  BY DEF IInv, TypeOK, PendingWaits, StartTask, BeginExecute
<1>9. CreatedWaits'
  BY DEF IInv, TypeOK, CreatedWaits, StartTask, BeginExecute
<1>10. FreshRows'
  BY DEF IInv, TypeOK, FreshRows, StartTask, BeginExecute
<1>11. OutputOfThisAttempt'
  BY DEF IInv, TypeOK, OutputOfThisAttempt, CreatedWaits, StartTask,
         BeginExecute
<1>12. BusyIsLocal'
  BY DEF IInv, TypeOK, BusyIsLocal, CreatedWaits, StartTask, BeginExecute
<1>13. NoDuplicateBatch'
  BY DEF IInv, TypeOK, NoDuplicateBatch, StartTask, BeginExecute
<1>14. CurrentInflight'
  BY DEF IInv, TypeOK, CurrentInflight, StartTask, BeginExecute
<1> QED
  BY <1>1, <1>2, <1>3, <1>4, <1>5, <1>6, <1>7, <1>8, <1>9, <1>10, <1>11,
     <1>12, <1>13, <1>14 DEF IInv

(* Nothing was committed, and the device is kept.                          *)
LEMMA BackOffInductive ==
  ASSUME IInv, NEW j \in Jobs, BackOff(j)
  PROVE  IInv'
<1>1. TypeOK'
  BY DEF IInv, TypeOK, BackOff, MayRetry
<1>2. NoStrandedRow'
  BY DEF IInv, TypeOK, NoStrandedRow, BackOff, MayRetry
<1>3. OneJobPerDevice'
  BY DEF IInv, TypeOK, OneJobPerDevice, OnDevice, BackOff, MayRetry
<1>4. FlagsFollowJobs'
  BY DEF IInv, TypeOK, FlagsFollowJobs, BackOff, MayRetry
<1>5. DownIsEmpty'
  BY DEF IInv, TypeOK, DownIsEmpty, BackOff, MayRetry
<1>6. InflightExact'
  BY DEF IInv, TypeOK, InflightExact, BackOff, MayRetry
<1>7. PendingWaits'
  BY DEF IInv, TypeOK, PendingWaits, BackOff, MayRetry
<1>8. CreatedWaits'
  BY DEF IInv, TypeOK, CreatedWaits, BackOff, MayRetry
<1>9. FreshRows'
  BY DEF IInv, TypeOK, FreshRows, BackOff, MayRetry
<1>10. OutputOfThisAttempt'
  BY DEF IInv, TypeOK, OutputOfThisAttempt, BackOff, MayRetry
<1>11. BusyIsLocal'
  BY DEF IInv, TypeOK, BusyIsLocal, BackOff, MayRetry
<1>12. NoDuplicateBatch' /\ SettledResultComplete'
  BY DEF IInv, TypeOK, NoDuplicateBatch, SettledResultComplete, BackOff,
         MayRetry
<1>13. CurrentInflight'
  BY DEF IInv, TypeOK, CurrentInflight, BackOff, MayRetry
<1> QED
  BY <1>1, <1>2, <1>3, <1>4, <1>5, <1>6, <1>7, <1>8, <1>9, <1>10, <1>11,
     <1>12, <1>13 DEF IInv

(* The thread ends as canceled.                                            *)
LEMMA BackOffCancelsInductive ==
  ASSUME IInv, NEW j \in Jobs, BackOffCancels(j)
  PROVE  IInv'
<1>1. TypeOK'
  BY DEF IInv, TypeOK, BackOffCancels
<1>2. NoStrandedRow'
  BY DEF IInv, TypeOK, NoStrandedRow, BackOffCancels
<1>3. OneJobPerDevice'
  BY DEF IInv, TypeOK, OneJobPerDevice, OnDevice, BackOffCancels
<1>4. FlagsFollowJobs'
  BY DEF IInv, TypeOK, FlagsFollowJobs, BackOffCancels
<1>5. DownIsEmpty'
  BY DEF IInv, TypeOK, DownIsEmpty, BackOffCancels
<1>6. InflightExact'
  BY DEF IInv, TypeOK, InflightExact, BackOffCancels
<1>7. PendingWaits'
  BY DEF IInv, TypeOK, PendingWaits, BackOffCancels
<1>8. CreatedWaits'
  BY DEF IInv, TypeOK, CreatedWaits, BackOffCancels
<1>9. FreshRows'
  BY DEF IInv, TypeOK, FreshRows, BackOffCancels
<1>10. OutputOfThisAttempt'
  BY DEF IInv, TypeOK, OutputOfThisAttempt, BackOffCancels
<1>11. BusyIsLocal'
  BY DEF IInv, TypeOK, BusyIsLocal, BackOffCancels
<1>12. NoDuplicateBatch' /\ SettledResultComplete'
  BY DEF IInv, TypeOK, NoDuplicateBatch, SettledResultComplete,
         BackOffCancels
<1>13. CurrentInflight'
  BY DEF IInv, TypeOK, CurrentInflight, BackOffCancels
<1> QED
  BY <1>1, <1>2, <1>3, <1>4, <1>5, <1>6, <1>7, <1>8, <1>9, <1>10, <1>11,
     <1>12, <1>13 DEF IInv

(* No attempt before this one left output.                                 *)
LEMMA NextAttemptInductive ==
  ASSUME IInv, NEW j \in Jobs, NextAttempt(j)
  PROVE  IInv'
<1>1. TypeOK'
  BY AttemptsAssumption DEF IInv, TypeOK, OutputOfThisAttempt, NextAttempt
<1>2. NoStrandedRow'
  BY DEF IInv, TypeOK, NoStrandedRow, NextAttempt
<1>3. OneJobPerDevice'
  BY DEF IInv, TypeOK, OneJobPerDevice, OnDevice, NextAttempt
<1>4. FlagsFollowJobs'
  BY DEF IInv, TypeOK, FlagsFollowJobs, NextAttempt
<1>5. DownIsEmpty'
  BY DEF IInv, TypeOK, DownIsEmpty, NextAttempt
<1>6. InflightExact'
  BY DEF IInv, TypeOK, InflightExact, NextAttempt
<1>7. PendingWaits'
  BY DEF IInv, TypeOK, PendingWaits, NextAttempt
<1>8. CreatedWaits'
  BY DEF IInv, TypeOK, CreatedWaits, NextAttempt
<1>9. FreshRows'
  BY DEF IInv, TypeOK, FreshRows, NextAttempt
<1>10. OutputOfThisAttempt'
  BY DEF IInv, TypeOK, OutputOfThisAttempt, NextAttempt
<1>11. BusyIsLocal'
  BY DEF IInv, TypeOK, BusyIsLocal, NextAttempt
<1>12. NoDuplicateBatch' /\ SettledResultComplete'
  BY DEF IInv, TypeOK, NoDuplicateBatch, SettledResultComplete, NextAttempt
<1>13. CurrentInflight'
  BY DEF IInv, TypeOK, CurrentInflight, OutputOfThisAttempt, NextAttempt
<1> QED
  BY <1>1, <1>2, <1>3, <1>4, <1>5, <1>6, <1>7, <1>8, <1>9, <1>10, <1>11,
     <1>12, <1>13 DEF IInv

(* The row gets its final status with all its output.                      *)
LEMMA SettleInductive ==
  ASSUME IInv, NEW j \in Jobs, Settle(j)
  PROVE  IInv'
<1>1. TypeOK'
  BY AttemptsAssumption DEF IInv, TypeOK, Settle, FinalStatus, MayRetry
<1>2. NoStrandedRow'
  BY DEF IInv, TypeOK, NoStrandedRow, Settle, FinalStatus, MayRetry
<1>3. OneJobPerDevice'
  BY DEF IInv, TypeOK, OneJobPerDevice, OnDevice, Settle, FinalStatus,
         MayRetry
<1>4. SettledResultComplete'
  BY DEF IInv, TypeOK, SettledResultComplete, Settle, FinalStatus, MayRetry
<1>5. FlagsFollowJobs'
  BY DEF IInv, TypeOK, FlagsFollowJobs, Settle, FinalStatus, MayRetry
<1>6. DownIsEmpty'
  BY DEF IInv, TypeOK, DownIsEmpty, Settle, FinalStatus, MayRetry
<1>7. InflightExact'
  BY DEF IInv, TypeOK, InflightExact, Settle, FinalStatus, MayRetry
<1>8. PendingWaits'
  BY DEF IInv, TypeOK, PendingWaits, Settle, FinalStatus, MayRetry
<1>9. CreatedWaits'
  BY DEF IInv, TypeOK, CreatedWaits, Settle, FinalStatus, MayRetry
<1>10. FreshRows'
  BY DEF IInv, TypeOK, FreshRows, Settle, FinalStatus, MayRetry
<1>11. OutputOfThisAttempt'
  BY DEF IInv, TypeOK, OutputOfThisAttempt, Settle, FinalStatus, MayRetry
<1>12. BusyIsLocal'
  BY DEF IInv, TypeOK, BusyIsLocal, OneJobPerDevice, OnDevice, Settle,
         FinalStatus, MayRetry
<1>13. NoDuplicateBatch'
  BY DEF IInv, TypeOK, NoDuplicateBatch, Settle, FinalStatus, MayRetry
<1>14. CurrentInflight'
  BY DEF IInv, TypeOK, CurrentInflight, Settle, FinalStatus, MayRetry
<1> QED
  BY <1>1, <1>2, <1>3, <1>4, <1>5, <1>6, <1>7, <1>8, <1>9, <1>10, <1>11,
     <1>12, <1>13, <1>14 DEF IInv

(* Memory is empty.                                                        *)
LEMMA CrashInductive ==
  ASSUME IInv, Crash
  PROVE  IInv'
<1>1. TypeOK'
  <2>1. crashes' \in 0..MaxCrashes
    BY CrashAssumption DEF IInv, TypeOK, Crash
  <2>2. attempt' \in [Jobs -> 1..Attempts]
    BY AttemptsAssumption DEF Crash
  <2> QED
    BY <2>1, <2>2 DEF IInv, TypeOK, Crash, durable
<1>2. NoStrandedRow'
  BY DEF IInv, TypeOK, NoStrandedRow, Crash
<1>3. OneJobPerDevice'
  <2>1. \A j \in Jobs : exec'[j] = "none"
    BY DEF Crash
  <2> QED
    BY <2>1, LocalAssumption DEF OneJobPerDevice, OnDevice
<1>4. FlagsFollowJobs'
  BY DEF IInv, TypeOK, FlagsFollowJobs, Crash
<1>5. DownIsEmpty'
  BY DEF IInv, TypeOK, DownIsEmpty, Crash
<1>6. InflightExact'
  BY DEF IInv, TypeOK, InflightExact, Crash
<1>7. PendingWaits'
  BY DEF IInv, TypeOK, PendingWaits, Crash
<1>8. CreatedWaits'
  BY DEF IInv, TypeOK, CreatedWaits, Crash
<1>9. FreshRows'
  BY DEF IInv, TypeOK, FreshRows, Crash
<1>10. OutputOfThisAttempt'
  BY DEF IInv, TypeOK, OutputOfThisAttempt, Crash
<1>11. BusyIsLocal'
  <2>1. \A j \in Jobs : exec'[j] = "none"
    BY DEF Crash
  <2> QED
    BY <2>1, LocalAssumption DEF BusyIsLocal
<1>12. NoDuplicateBatch' /\ SettledResultComplete'
  BY DEF IInv, TypeOK, NoDuplicateBatch, SettledResultComplete, Crash
<1>13. CurrentInflight'
  BY NoJobAssumption DEF IInv, TypeOK, CurrentInflight, Crash
<1> QED
  BY <1>1, <1>2, <1>3, <1>4, <1>5, <1>6, <1>7, <1>8, <1>9, <1>10, <1>11,
     <1>12, <1>13 DEF IInv

(* No row is left running, and the queued ones are back.                   *)
LEMMA RestartInductive ==
  ASSUME IInv, Restart
  PROVE  IInv'
<1>1. TypeOK'
  BY DEF IInv, TypeOK, Restart, Reconciled
<1>2. NoStrandedRow'
  BY DEF IInv, TypeOK, NoStrandedRow, DownIsEmpty, Restart, Reconciled
<1>3. SettledResultComplete'
  BY DEF IInv, TypeOK, SettledResultComplete, FreshRows, Restart, Reconciled
<1>4. FlagsFollowJobs'
  BY DEF IInv, TypeOK, FlagsFollowJobs, DownIsEmpty, Restart, Reconciled
<1>5. DownIsEmpty'
  BY DEF IInv, TypeOK, DownIsEmpty, Restart, Reconciled
<1>6. PendingWaits'
  BY DEF IInv, TypeOK, PendingWaits, DownIsEmpty, FreshRows, Restart,
         Reconciled
<1>7. CreatedWaits'
  BY DEF IInv, TypeOK, CreatedWaits, Restart, Reconciled
<1>8. FreshRows'
  BY DEF IInv, TypeOK, FreshRows, Restart, Reconciled
<1>9. /\ OneJobPerDevice' /\ NoDuplicateBatch' /\ InflightExact'
     /\ OutputOfThisAttempt' /\ BusyIsLocal'
  BY DEF IInv, TypeOK, OneJobPerDevice, NoDuplicateBatch, InflightExact,
         OutputOfThisAttempt, BusyIsLocal, OnDevice, Restart, Reconciled
<1>10. CurrentInflight'
  BY DEF IInv, TypeOK, CurrentInflight, Restart, Reconciled
<1> QED
  BY <1>1, <1>2, <1>3, <1>4, <1>5, <1>6, <1>7, <1>8, <1>9, <1>10 DEF IInv

(* Every step, the stuttering ones included, preserves IInv.               *)
LEMMA NextInductive == IInv /\ [Next]_vars => IInv'
<1> SUFFICES ASSUME IInv, [Next]_vars PROVE IInv'
  OBVIOUS
<1>1. ASSUME NEW j \in Jobs, Request(j) PROVE IInv'
  BY <1>1, SubmitInductive, RetryInductive, CancelRunningInductive,
     CancelWaitingInductive, SkipInductive DEF Request
<1>2. ASSUME NEW j \in Jobs, Handler(j) PROVE IInv'
  BY <1>2, ProgressCancelsInductive, ProgressSkipsInductive,
     CommitAssetInductive, ReleaseDeviceInductive, HandlerStopsInductive
     DEF Handler
<1>3. ASSUME NEW j \in Jobs, Task(j) PROVE IInv'
  BY <1>3, StartTaskInductive, BackOffInductive, BackOffCancelsInductive,
     NextAttemptInductive, SettleInductive DEF Task
<1>4. ASSUME NEW l \in Lanes, Worker(l) PROVE IInv'
  BY <1>4, WakeupInductive, RestInductive, PickLocalInductive,
     PickRemoteInductive DEF Worker
<1>5. CASE UNCHANGED vars
  BY <1>5 DEF vars, IInv, TypeOK, NoStrandedRow, OneJobPerDevice, OnDevice,
              NoDuplicateBatch, SettledResultComplete, FlagsFollowJobs,
              DownIsEmpty, InflightExact, CurrentInflight, PendingWaits,
              CreatedWaits, FreshRows, OutputOfThisAttempt, BusyIsLocal
<1> QED
  BY <1>1, <1>2, <1>3, <1>4, <1>5, CrashInductive, RestartInductive DEF Next

(* The inductive invariant holds in every reachable state.                 *)
THEOREM Inductive == Spec => []IInv
<1>1. Init => IInv
  BY InitInductive
<1>2. IInv /\ [Next]_vars => IInv'
  BY NextInductive
<1> QED
  BY <1>1, <1>2, PTL DEF Spec

-----------------------------------------------------------------------------
(* Every variable keeps its type.                                          *)
THEOREM TypeCorrect == Spec => []TypeOK
<1>1. IInv => TypeOK
  BY DEF IInv
<1> QED
  BY <1>1, Inductive, PTL

(* No row is stranded: queued rows are remembered, running rows executed.  *)
THEOREM NoRowStranded == Spec => []NoStrandedRow
<1>1. IInv => NoStrandedRow
  BY DEF IInv
<1> QED
  BY <1>1, Inductive, PTL

(* Each lane gives its device to one job at a time.                        *)
THEOREM DevicesExclusive == Spec => []OneJobPerDevice
<1>1. IInv => OneJobPerDevice
  BY DEF IInv
<1> QED
  BY <1>1, Inductive, PTL

(* No job commits output in two attempts.                                  *)
THEOREM BatchesUnique == Spec => []NoDuplicateBatch
<1>1. IInv => NoDuplicateBatch
  BY DEF IInv
<1> QED
  BY <1>1, Inductive, PTL

(* A settled row lists all the job committed.                              *)
THEOREM ResultsComplete == Spec => []SettledResultComplete
<1>1. IInv => SettledResultComplete
  BY DEF IInv
<1> QED
  BY <1>1, Inductive, PTL

(* Flags are neither leaked nor lost.                                      *)
THEOREM FlagsTracked == Spec => []FlagsFollowJobs
<1>1. IInv => FlagsFollowJobs
  BY DEF IInv
<1> QED
  BY <1>1, Inductive, PTL

(* No terminal row moves, but for the superseded failure and the cancel    *)
(* that came between a remote job's pick and its start.                    *)
THEOREM RowsRest == Spec => TerminalRowsRest
<1> DEFINE Rests ==
      \A j \in Jobs :
        /\ status[j] = "done"  => status'[j] = "done"
        /\ status[j] = "error" => status'[j] \in {"error", "canceled"}
        /\ status[j] = "canceled" /\ status'[j] # "canceled"
             => exec[j] = "created" /\ status'[j] = "running"
<1>1. IInv /\ [Next]_vars => [Rests]_vars
  <2> SUFFICES ASSUME IInv, Next PROVE Rests
    OBVIOUS
  <2>1. ASSUME NEW k \in Jobs, Request(k) PROVE Rests
    BY <2>1 DEF IInv, TypeOK, Request, Submit, Retry, Enqueue, CancelRunning,
                CancelWaiting, Skip
  <2>2. ASSUME NEW k \in Jobs, Handler(k) PROVE Rests
    BY <2>2 DEF Handler, ProgressCancels, ProgressSkips, CommitAsset,
                ReleaseDevice, HandlerStops, HandlerEnds
  <2>3. ASSUME NEW k \in Jobs, StartTask(k) PROVE Rests
    BY <2>3 DEF IInv, TypeOK, CreatedWaits, StartTask, BeginExecute
  <2>4. ASSUME NEW k \in Jobs, Settle(k) PROVE Rests
    <3>1. status[k] = "running"
      BY <2>4 DEF IInv, TypeOK, NoStrandedRow, Settle
    <3> QED
      BY <2>4, <3>1 DEF IInv, TypeOK, Settle
  <2>5. ASSUME NEW k \in Jobs,
               BackOff(k) \/ BackOffCancels(k) \/ NextAttempt(k)
        PROVE Rests
    BY <2>5 DEF BackOff, BackOffCancels, NextAttempt
  <2>6. CASE PickLocal
    BY <2>6 DEF IInv, TypeOK, PickLocal, Alive, BeginExecute
  <2>7. ASSUME NEW l \in Lanes, Wakeup(l) \/ Rest(l) \/ PickRemote PROVE Rests
    BY <2>7 DEF Wakeup, Rest, PickRemote
  <2>8. CASE Crash
    BY <2>8 DEF Crash
  <2>9. CASE Restart
    BY <2>9 DEF IInv, TypeOK, Restart, Reconciled
  <2> QED
    BY <2>1, <2>2, <2>3, <2>4, <2>5, <2>6, <2>7, <2>8, <2>9
       DEF Next, Task, Worker
<1> QED
  BY <1>1, Inductive, PTL DEF Spec, TerminalRowsRest

-----------------------------------------------------------------------------
(* The lanes implement JobLifecycle: initial states map to initial states, *)
(* and each action to the one named, or to a stutter.                      *)
LEMMA RequestSteps ==
  ASSUME IInv, NEW j \in Jobs, Request(j)
  PROVE  [Lifecycle!Next]_(Lifecycle!vars)
<1>1. CASE Submit(j)
  <2>1. Lifecycle!Accept(j)
    BY <1>1 DEF Submit, Enqueue, Lifecycle!Accept
  <2> QED
    BY <2>1 DEF Lifecycle!Next
<1>2. CASE \E old \in Jobs \ {j} : Retry(old, j)
  <2>1. PICK old \in Jobs \ {j} : Retry(old, j)
    BY <1>2
  <2>2. CASE status[old] = "error"
    <3>1. Lifecycle!Replace(old, j)
      BY <2>1, <2>2 DEF IInv, TypeOK, Retry, Enqueue, Lifecycle!Replace
    <3> QED
      BY <3>1 DEF Lifecycle!Next
  <2>3. CASE status[old] # "error"
    <3>1. Lifecycle!Accept(j)
      BY <2>1, <2>3 DEF IInv, TypeOK, Retry, Enqueue, Lifecycle!Accept
    <3> QED
      BY <3>1 DEF Lifecycle!Next
  <2> QED
    BY <2>2, <2>3
<1>3. CASE CancelWaiting(j)
  <2>1. status[j] = "queued"
    BY <1>3 DEF IInv, TypeOK, NoStrandedRow, InflightExact, RunningHere,
                CancelWaiting
  <2>2. Lifecycle!Withdraw(j)
    BY <1>3, <2>1 DEF CancelWaiting, Lifecycle!Withdraw
  <2> QED
    BY <2>2 DEF Lifecycle!Next
<1>4. CASE CancelRunning(j) \/ Skip(j)
  BY <1>4 DEF CancelRunning, Skip, Lifecycle!vars
<1> QED
  BY <1>1, <1>2, <1>3, <1>4 DEF Request

LEMMA HandlerSteps ==
  ASSUME IInv, NEW j \in Jobs, Handler(j)
  PROVE  [Lifecycle!Next]_(Lifecycle!vars)
<1>1. CASE CommitAsset(j)
  <2>1. status[j] = "running"
    BY <1>1 DEF IInv, TypeOK, NoStrandedRow, CommitAsset
  <2>2. assets' = [assets EXCEPT ![j] = {attempt[j]}]
    BY <1>1 DEF IInv, TypeOK, OutputOfThisAttempt, CommitAsset
  <2>3. Lifecycle!Save(j)
    BY <1>1, <2>1, <2>2
       DEF IInv, TypeOK, OutputOfThisAttempt, CommitAsset, Lifecycle!Save
  <2> QED
    BY <2>3 DEF Lifecycle!Next
<1>2. CASE ProgressCancels(j) \/ ProgressSkips(j) \/ ReleaseDevice(j)
           \/ HandlerStops(j)
  BY <1>2 DEF ProgressCancels, ProgressSkips, ReleaseDevice, HandlerStops,
              HandlerEnds, Lifecycle!vars
<1> QED
  BY <1>1, <1>2 DEF Handler

LEMMA TaskSteps ==
  ASSUME IInv, NEW j \in Jobs, Task(j)
  PROVE  [Lifecycle!Next]_(Lifecycle!vars)
<1>1. CASE StartTask(j)
  <2>1. Lifecycle!Start(j)
    BY <1>1 DEF IInv, CreatedWaits, StartTask, BeginExecute, Lifecycle!Start
  <2> QED
    BY <2>1 DEF Lifecycle!Next
<1>2. CASE Settle(j)
  <2>1. status[j] = "running"
    BY <1>2 DEF IInv, TypeOK, NoStrandedRow, Settle
  <2>2. FinalStatus(exec[j]) \in {"done", "error", "canceled"}
    BY <1>2 DEF Settle, FinalStatus
  <2>3. Lifecycle!Finish(j)
    BY <1>2, <2>1, <2>2 DEF Settle, Lifecycle!Finish
  <2> QED
    BY <2>3 DEF Lifecycle!Next
<1>3. CASE BackOff(j) \/ BackOffCancels(j) \/ NextAttempt(j)
  BY <1>3 DEF BackOff, BackOffCancels, NextAttempt, Lifecycle!vars
<1> QED
  BY <1>1, <1>2, <1>3 DEF Task

LEMMA WorkerSteps ==
  ASSUME IInv, NEW l \in Lanes, Worker(l)
  PROVE  [Lifecycle!Next]_(Lifecycle!vars)
<1>1. CASE PickLocal
  <2>1. PICK j \in Alive("local") : BeginExecute(j)
    BY <1>1 DEF PickLocal
  <2>2. j \in Jobs
    BY <2>1 DEF IInv, TypeOK, Alive
  <2>3. Lifecycle!Start(j)
    BY <1>1, <2>1
       DEF IInv, FreshRows, TypeOK, Alive, PickLocal, BeginExecute,
           Lifecycle!Start
  <2> QED
    BY <2>2, <2>3 DEF Lifecycle!Next
<1>2. CASE Wakeup(l) \/ Rest(l) \/ PickRemote
  BY <1>2 DEF Wakeup, Rest, PickRemote, Lifecycle!vars
<1> QED
  BY <1>1, <1>2 DEF Worker

(* Every behaviour of the lanes is one JobLifecycle allows.                *)
THEOREM Refinement == Spec => ImplementsLifecycle
<1>1. Init => Lifecycle!Init
  BY DEF Init, Lifecycle!Init
<1>2. IInv /\ [Next]_vars => [Lifecycle!Next]_(Lifecycle!vars)
  <2> SUFFICES ASSUME IInv, [Next]_vars
               PROVE  [Lifecycle!Next]_(Lifecycle!vars)
    OBVIOUS
  <2>1. CASE Crash
    BY <2>1 DEF Crash, Lifecycle!vars
  <2>2. CASE Restart
    <3>1. Lifecycle!Recover
      BY <2>2 DEF Restart, Reconciled, Lifecycle!Recover
    <3> QED
      BY <3>1 DEF Lifecycle!Next
  <2>3. CASE UNCHANGED vars
    BY <2>3 DEF vars, Lifecycle!vars
  <2> QED
    BY <2>1, <2>2, <2>3, RequestSteps, HandlerSteps, TaskSteps, WorkerSteps
       DEF Next
<1> QED
  BY <1>1, <1>2, Inductive, PTL DEF Spec, ImplementsLifecycle, Lifecycle!Spec
=============================================================================
