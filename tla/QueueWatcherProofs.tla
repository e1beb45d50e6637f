------------------------ MODULE QueueWatcherProofs ------------------------
(***************************************************************************)
(* The reports of the queue watcher add up, for any number of lanes and    *)
(* jobs, however the jobs overlap.                                         *)
(*                                                                         *)
(* A timer that was cancelled too late, two that expire together, or one   *)
(* that _timer no longer names could report a period twice, and a report   *)
(* could count the jobs of another period.  The first does not happen      *)
(* because a callback looks at _busy, which is TRUE exactly while the last *)
(* announcement has no report yet.  The second does not because _completed *)
(* is at every moment the number of ends since the last announcement       *)
(* (Counted): only an announcement takes it back to zero.  Neither says    *)
(* that nothing executes when a report is made; that holds as long as no   *)
(* report came early, and the last conjunct of ReportsAddUp is all that is *)
(* left of the boundary.                                                   *)
(***************************************************************************)
EXTENDS QueueWatcher, FiniteSetTheorems, TLAPS

-----------------------------------------------------------------------------
(* Sets of lanes, and places in the record of hooks.                       *)

(* The lanes that execute are counted.                                     *)
LEMMA RunningCounted ==
  ASSUME TypeOK
  PROVE  IsFiniteSet(running) /\ Cardinality(running) \in Nat
BY WatcherAssumption, FS_Subset, FS_CardinalityType DEF TypeOK

(* The hooks of each kind are at places of the record.                     *)
LEMMA Places ==
  ASSUME decided \in Seq(Hook)
  PROVE  /\ Len(decided) \in Nat /\ DOMAIN decided = 1 .. Len(decided)
         /\ Starts \subseteq 1 .. Len(decided) /\ Dones \subseteq 1 .. Len(decided)
         /\ Idles \subseteq 1 .. Len(decided)
         /\ Starts \cap Idles = {} /\ Starts \cap Dones = {} /\ Dones \cap Idles = {}
BY DEF Starts, Dones, Idles, Hooks

(* The ends since the last announcement are counted.                       *)
LEMMA OpenCounted ==
  ASSUME decided \in Seq(Hook)
  PROVE  IsFiniteSet(Open) /\ Cardinality(Open) \in Nat
<1>1. Open \subseteq 1 .. Len(decided) /\ Len(decided) \in Nat
  BY Places DEF Open
<1>2. IsFiniteSet(1 .. Len(decided))
  BY <1>1, FS_Interval
<1> QED
  BY <1>1, <1>2, FS_Subset, FS_CardinalityType

(* A hook that is decided takes the next place, and no other one changes.  *)
LEMMA Decided ==
  ASSUME decided \in Seq(Hook), NEW h \in Hook, Decide(h)
  PROVE  /\ decided' \in Seq(Hook) /\ Len(decided') = Len(decided) + 1
         /\ \A i \in 1 .. Len(decided) : decided'[i] = decided[i]
         /\ decided'[Len(decided) + 1] = h
         /\ Starts' = Starts
              \cup (IF h.event = "queue_start" THEN {Len(decided) + 1} ELSE {})
         /\ Dones' = Dones
              \cup (IF h.event = "job_done" THEN {Len(decided) + 1} ELSE {})
         /\ Idles' = Idles
              \cup (IF h.event = "queue_idle" THEN {Len(decided) + 1} ELSE {})
<1>1. /\ decided' \in Seq(Hook) /\ Len(decided') = Len(decided) + 1
      /\ \A i \in 1 .. Len(decided) : decided'[i] = decided[i]
      /\ decided'[Len(decided) + 1] = h
      /\ Len(decided) \in Nat
  BY DEF Decide
<1>2. DOMAIN decided = 1 .. Len(decided) /\ DOMAIN decided' = 1 .. (Len(decided) + 1)
  BY <1>1
<1>3. ASSUME NEW name
      PROVE  Hooks(name)' = Hooks(name)
               \cup (IF h.event = name THEN {Len(decided) + 1} ELSE {})
  BY <1>1, <1>2 DEF Hooks
<1> QED
  BY <1>1, <1>3 DEF Starts, Dones, Idles

LEMMA StartDecided ==
  ASSUME decided \in Seq(Hook), Decide(Start)
  PROVE  /\ decided' \in Seq(Hook) /\ Starts' = Starts \cup {Len(decided) + 1}
         /\ Dones' = Dones /\ Idles' = Idles
         /\ \A i \in Idles : decided'[i] = decided[i]
<1>1. Start \in Hook /\ Start.event = "queue_start"
  BY DEF Start, Hook
<1> QED
  BY <1>1, Decided, Places

LEMMA DoneDecided ==
  ASSUME decided \in Seq(Hook), Decide(Done)
  PROVE  /\ decided' \in Seq(Hook) /\ Dones' = Dones \cup {Len(decided) + 1}
         /\ Starts' = Starts /\ Idles' = Idles
         /\ \A i \in Idles : decided'[i] = decided[i]
<1>1. Done \in Hook /\ Done.event = "job_done"
  BY DEF Done, Hook
<1> QED
  BY <1>1, Decided, Places

LEMMA IdleDecided ==
  ASSUME decided \in Seq(Hook), completed \in 0 .. MaxJobs, Decide(Idle)
  PROVE  /\ decided' \in Seq(Hook) /\ Idles' = Idles \cup {Len(decided) + 1}
         /\ Starts' = Starts /\ Dones' = Dones
         /\ \A i \in Idles : decided'[i] = decided[i]
         /\ decided'[Len(decided) + 1].completed = completed
<1>1. Idle \in Hook /\ Idle.event = "queue_idle" /\ Idle.completed = completed
  BY DEF Idle, Hook
<1> QED
  BY <1>1, Decided, Places

(* The hooks that have not been handed over are among those decided.       *)
LEMMA StillDecided ==
  ASSUME decided \in Seq(Hook), unsent \subseteq DOMAIN decided,
         NEW h \in Hook, Decide(h)
  PROVE  unsent' \subseteq DOMAIN decided'
<1>1. /\ DOMAIN decided = 1 .. Len(decided) /\ Len(decided) \in Nat
      /\ DOMAIN decided' = 1 .. Len(decided')
  BY Decided
<1> QED
  BY <1>1, Decided DEF Decide

(* What a hook does to the ends of jobs: an announcement begins a count    *)
(* anew, the end of a job is one more, and a report covers those counted.  *)
LEMMA StartCovers ==
  ASSUME decided \in Seq(Hook), Decide(Start)
  PROVE  /\ Open' = {} /\ Unreported' = Unreported
         /\ \A i \in Idles : Covered(i)' = Covered(i)
<1>1. /\ Starts' = Starts \cup {Len(decided) + 1} /\ Dones' = Dones /\ Idles' = Idles
      /\ Dones \subseteq 1 .. Len(decided) /\ Idles \subseteq 1 .. Len(decided)
      /\ Len(decided) \in Nat
  BY StartDecided, Places
<1>2. Open' = {}
  <2>1. Len(decided) + 1 \in Starts' /\ \A k \in Dones' : ~(Len(decided) + 1 < k)
    BY <1>1
  <2> QED
    BY <2>1 DEF Open
<1>3. Unreported' = Unreported
  BY <1>1 DEF Unreported
<1>4. ASSUME NEW i \in Idles
      PROVE  Covered(i)' = Covered(i)
  BY <1>1 DEF Covered, Between
<1> QED
  BY <1>2, <1>3, <1>4

LEMMA DoneCovers ==
  ASSUME decided \in Seq(Hook), Decide(Done)
  PROVE  /\ Cardinality(Open') = Cardinality(Open) + 1
         /\ \A i \in Idles : Covered(i)' = Covered(i)
<1>1. /\ Dones' = Dones \cup {Len(decided) + 1} /\ Starts' = Starts
      /\ Dones \subseteq 1 .. Len(decided) /\ Idles \subseteq 1 .. Len(decided)
      /\ Starts \subseteq 1 .. Len(decided) /\ Len(decided) \in Nat
  BY DoneDecided, Places
<1>2. Open' = Open \cup {Len(decided) + 1} /\ Len(decided) + 1 \notin Open
  BY <1>1 DEF Open
<1>3. ASSUME NEW i \in Idles
      PROVE  Covered(i)' = Covered(i)
  BY <1>1 DEF Covered, Between
<1>4. Cardinality(Open \cup {Len(decided) + 1}) = Cardinality(Open) + 1
  BY <1>2, OpenCounted, FS_AddElement
<1> QED
  BY <1>2, <1>3, <1>4

LEMMA IdleCovers ==
  ASSUME decided \in Seq(Hook), completed \in 0 .. MaxJobs, Decide(Idle),
         NEW n, n = Len(decided) + 1
  PROVE  /\ Unreported' = {} /\ Open' = Open
         /\ \A i \in Idles : Covered(i)' = Covered(i)
         /\ Covered(n)' = Open
<1>1. /\ Idles' = Idles \cup {n} /\ Dones' = Dones /\ Starts' = Starts
      /\ n \in Nat /\ Dones \subseteq Nat /\ Starts \subseteq Nat
      /\ \A k \in Dones \cup Starts : k < n /\ ~(n < k)
      /\ Starts \cap Dones = {}
  BY IdleDecided, Places
<1>2. Unreported' = {}
  BY <1>1 DEF Unreported
<1>3. Open' = Open /\ \A i \in Idles : Covered(i)' = Covered(i)
  BY <1>1 DEF Open, Covered, Between
<1>4. Covered(n)' = Open
  <2>1. ASSUME NEW k \in Dones
        PROVE  ~(\E m \in Starts : k < m /\ m < n) <=> \A s \in Starts : s < k
    <3>1. \A s \in Starts : s < n /\ (~(k < s) <=> s < k)
      BY <1>1
    <3> QED
      BY <3>1
  <2>2. \A k \in Dones : k < n
    BY <1>1
  <2> QED
    BY <1>1, <2>1, <2>2 DEF Covered, Open, Between
<1> QED
  BY <1>2, <1>3, <1>4

-----------------------------------------------------------------------------
(* The reports.                                                            *)

(* An announcement is made when no period is open, and opens one.          *)
LEMMA AlternateStart ==
  ASSUME decided \in Seq(Hook), Alternate, ~busy, busy',
         busy <=> \E s \in Starts : \A i \in Idles : i < s,
         Decide(Start)
  PROVE  Alternate' /\ (busy' <=> \E s \in Starts' : \A i \in Idles' : i < s)
<1>1. /\ Starts' = Starts \cup {Len(decided) + 1} /\ Idles' = Idles
      /\ Starts \subseteq 1 .. Len(decided) /\ Idles \subseteq 1 .. Len(decided)
      /\ Len(decided) \in Nat /\ Starts \cap Idles = {}
  BY StartDecided, Places
<1>2. \A s, t \in Starts' : s < t => \E i \in Idles' : s < i /\ i < t
  BY <1>1 DEF Alternate, Between
<1>3. \A i \in Idles' : \E s \in Starts' : s < i /\ ~\E m \in Idles' : s < m /\ m < i
  BY <1>1 DEF Alternate, Between
<1>4. \E s \in Starts' : \A i \in Idles' : i < s
  BY <1>1
<1> QED
  BY <1>2, <1>3, <1>4 DEF Alternate, Between

(* A report is made when one is open, and closes it.                       *)
LEMMA AlternateIdle ==
  ASSUME decided \in Seq(Hook), completed \in 0 .. MaxJobs, Alternate, busy, ~busy',
         busy <=> \E s \in Starts : \A i \in Idles : i < s,
         Decide(Idle)
  PROVE  Alternate' /\ (busy' <=> \E s \in Starts' : \A i \in Idles' : i < s)
<1>1. /\ Idles' = Idles \cup {Len(decided) + 1} /\ Starts' = Starts
      /\ Starts \subseteq 1 .. Len(decided) /\ Idles \subseteq 1 .. Len(decided)
      /\ Len(decided) \in Nat
  BY IdleDecided, Places
<1>2. \A s, t \in Starts' : s < t => \E i \in Idles' : s < i /\ i < t
  BY <1>1 DEF Alternate, Between
<1>3. ASSUME NEW i \in Idles'
      PROVE  \E s \in Starts' : s < i /\ ~\E m \in Idles' : s < m /\ m < i
  <2>1. CASE i \in Idles
    BY <1>1, <2>1 DEF Alternate, Between
  <2>2. CASE i = Len(decided) + 1
    <3>1. PICK s \in Starts : \A m \in Idles : m < s
      OBVIOUS
    <3>2. s < i /\ \A m \in Idles' : ~(s < m /\ m < i)
      BY <1>1, <2>2, <3>1
    <3> QED
      BY <1>1, <3>2
  <2> QED
    BY <1>1, <2>1, <2>2
<1>4. ~\E s \in Starts' : \A i \in Idles' : i < s
  BY <1>1
<1> QED
  BY <1>2, <1>3, <1>4 DEF Alternate, Between

-----------------------------------------------------------------------------
(* The inductive invariant.                                                *)

LEMMA InitInv == Init => IInv
<1> SUFFICES ASSUME Init PROVE IInv
  OBVIOUS
<1>1. TypeOK
  <2>1. MaxJobs \in Nat /\ 0 \in 0 .. MaxJobs
    BY WatcherAssumption
  <2>2. decided \in Seq(Hook) /\ unsent \subseteq DOMAIN decided
    BY DEF Init
  <2> QED
    BY <2>1, <2>2 DEF Init, TypeOK
<1>2. Bounded
  BY FS_EmptySet DEF Init, Bounded
<1>3. Starts = {} /\ Dones = {} /\ Idles = {}
  BY DEF Init, Starts, Dones, Idles, Hooks
<1>4. ReportsAddUp
  BY <1>3 DEF Init, ReportsAddUp, Alternate, Unreported
<1>5. Counted
  <2>1. Open = {}
    BY <1>3 DEF Open
  <2> QED
    BY <2>1, FS_EmptySet DEF Init, Counted
<1> QED
  BY <1>1, <1>2, <1>4, <1>5 DEF IInv

(* What a job's begin and end do to the number that execute.               *)
LEMMA OneMore ==
  ASSUME TypeOK, NEW l \in Lanes, l \notin running, running' = running \cup {l}
  PROVE  Cardinality(running') = Cardinality(running) + 1
BY RunningCounted, FS_AddElement

LEMMA OneLess ==
  ASSUME TypeOK, NEW l \in running, running' = running \ {l}
  PROVE  Cardinality(running') = Cardinality(running) - 1
BY RunningCounted, FS_RemoveElement

(* A step that decides no hook leaves what the record says.                *)
LEMMA SameRecord ==
  ASSUME decided' = decided
  PROVE  /\ Starts' = Starts /\ Dones' = Dones /\ Idles' = Idles
         /\ Open' = Open /\ Unreported' = Unreported
         /\ \A i \in Idles : Covered(i)' = Covered(i)
         /\ Alternate => Alternate'
BY DEF Starts, Dones, Idles, Hooks, Open, Unreported, Covered, Between, Alternate

LEMMA BeginInv ==
  ASSUME IInv, NEW l \in Lanes, Begin(l)
  PROVE  IInv'
<1>0. TypeOK /\ Bounded /\ ReportsAddUp /\ Counted
  BY DEF IInv
<1>1. /\ l \notin running /\ begun < MaxJobs /\ running' = running \cup {l}
      /\ begun' = begun + 1 /\ armed' = FALSE /\ busy' = TRUE
      /\ stray' = stray /\ callbacks' = callbacks /\ early' = early
  BY DEF Begin, JobStarted
<1>2. decided \in Seq(Hook)
  BY <1>0 DEF TypeOK
<1>3. Bounded'
  <2>1. Cardinality(running') = Cardinality(running) + 1 /\ Cardinality(running) \in Nat
    BY <1>0, <1>1, OneMore, RunningCounted
  <2>2. begun \in Nat /\ completed \in Nat /\ callbacks \in Nat /\ stray \in Nat
    BY <1>0, WatcherAssumption DEF TypeOK
  <2>3. completed' \in {completed, 0}
    BY DEF Begin, JobStarted
  <2> QED
    BY <1>0, <1>1, <2>1, <2>2, <2>3 DEF Bounded
<1>4. running' \subseteq Lanes /\ begun' \in 0 .. MaxJobs
  BY <1>0, <1>1, WatcherAssumption DEF TypeOK
<1>5. CASE busy
  <2>1. completed' = completed /\ decided' = decided /\ unsent' = unsent
    BY <1>5 DEF Begin, JobStarted, hooks
  <2>2. TypeOK'
    BY <1>0, <1>1, <1>4, <2>1 DEF TypeOK
  <2>3. ReportsAddUp' /\ Counted'
    BY <1>0, <1>1, <1>5, <2>1, SameRecord DEF ReportsAddUp, Counted
  <2> QED
    BY <1>3, <2>2, <2>3 DEF IInv
<1>6. CASE ~busy
  <2>1. completed' = 0 /\ Decide(Start)
    BY <1>6 DEF Begin, JobStarted
  <2>2. TypeOK'
    <3>1. decided' \in Seq(Hook) /\ unsent' \subseteq DOMAIN decided'
      <4>1. Start \in Hook
        BY DEF Start, Hook
      <4> QED
        BY <1>0, <2>1, <4>1, StartDecided, StillDecided DEF TypeOK
    <3>2. completed' \in 0 .. MaxJobs
      BY <2>1, WatcherAssumption
    <3> QED
      BY <1>0, <1>1, <1>4, <3>1, <3>2 DEF TypeOK
  <2>3. ReportsAddUp'
    <3>1. Alternate' /\ (busy' <=> \E s \in Starts' : \A i \in Idles' : i < s)
      BY <1>0, <1>1, <1>2, <1>6, <2>1, AlternateStart DEF ReportsAddUp
    <3>2. /\ Idles' = Idles
          /\ \A i \in Idles : decided'[i] = decided[i] /\ Covered(i)' = Covered(i)
      BY <1>2, <2>1, StartDecided, StartCovers
    <3> QED
      BY <1>0, <1>1, <3>1, <3>2 DEF ReportsAddUp
  <2>4. Counted'
    BY <1>2, <2>1, StartCovers, FS_EmptySet DEF Counted
  <2> QED
    BY <1>3, <2>2, <2>3, <2>4 DEF IInv
<1> QED
  BY <1>5, <1>6

LEMMA EndInv ==
  ASSUME IInv, NEW l \in Lanes, End(l)
  PROVE  IInv'
<1>0. TypeOK /\ Bounded /\ ReportsAddUp /\ Counted
  BY DEF IInv
<1>1. /\ l \in running /\ running' = running \ {l} /\ begun' = begun
      /\ armed' = TRUE /\ busy' = busy /\ completed' = completed + 1
      /\ stray' = stray /\ callbacks' = callbacks /\ early' = early
      /\ Decide(Done)
  BY DEF End, JobFinished
<1>2. decided \in Seq(Hook)
  BY <1>0 DEF TypeOK
<1>3. /\ Cardinality(running') = Cardinality(running) - 1
      /\ Cardinality(running) \in Nat /\ Cardinality(running) # 0
  BY <1>0, <1>1, RunningCounted, OneLess, FS_EmptySet
<1>4. /\ begun \in Nat /\ completed \in Nat /\ callbacks \in Nat /\ stray \in Nat
      /\ begun <= MaxJobs /\ MaxJobs \in Nat
  BY <1>0, WatcherAssumption DEF TypeOK
<1>5. Bounded' /\ completed' \in 0 .. MaxJobs
  BY <1>0, <1>1, <1>3, <1>4 DEF Bounded
<1>6. TypeOK'
  <2>1. decided' \in Seq(Hook) /\ unsent' \subseteq DOMAIN decided'
    <3>1. Done \in Hook
      BY DEF Done, Hook
    <3> QED
      BY <1>0, <1>1, <3>1, DoneDecided, StillDecided DEF TypeOK
  <2> QED
    BY <1>0, <1>1, <1>5, <2>1 DEF TypeOK
<1>7. /\ Starts' = Starts /\ Idles' = Idles
      /\ \A i \in Idles : decided'[i] = decided[i] /\ Covered(i)' = Covered(i)
      /\ Cardinality(Open') = Cardinality(Open) + 1
  BY <1>1, <1>2, DoneDecided, DoneCovers
<1>8. ReportsAddUp'
  <2>1. Alternate' /\ (busy' <=> \E s \in Starts' : \A i \in Idles' : i < s)
    BY <1>0, <1>1, <1>7 DEF ReportsAddUp, Alternate, Between
  <2>2. \A i \in Idles' : decided'[i].completed = Cardinality(Covered(i)')
    BY <1>0, <1>7 DEF ReportsAddUp
  <2>3. ~(~early' /\ ~busy')
    BY <1>0, <1>1 DEF ReportsAddUp
  <2> QED
    BY <2>1, <2>2, <2>3 DEF ReportsAddUp
<1>9. Counted'
  BY <1>0, <1>1, <1>7 DEF Counted
<1> QED
  BY <1>5, <1>6, <1>8, <1>9 DEF IInv

LEMMA ExpireInv ==
  ASSUME IInv, Expire
  PROVE  IInv'
<1>0. TypeOK /\ Bounded /\ ReportsAddUp /\ Counted
  BY DEF IInv
<1>1. /\ running' = running /\ begun' = begun /\ busy' = busy
      /\ completed' = completed /\ decided' = decided /\ unsent' = unsent
      /\ early' = early /\ callbacks' = callbacks + 1
  BY DEF Expire, hooks
<1>2. \/ armed /\ armed' = FALSE /\ stray' = stray
      \/ stray > 0 /\ stray' = stray - 1 /\ armed' = armed
  BY DEF Expire
<1>3. /\ Cardinality(running) \in Nat /\ begun \in 0 .. MaxJobs /\ completed \in Nat
      /\ callbacks \in Nat /\ stray \in 0 .. MaxJobs /\ MaxJobs \in Nat
      /\ armed \in BOOLEAN
  BY <1>0, RunningCounted, WatcherAssumption DEF TypeOK
<1>4. Bounded' /\ callbacks' \in 0 .. MaxJobs /\ stray' \in 0 .. MaxJobs
  BY <1>0, <1>1, <1>2, <1>3 DEF Bounded
<1>5. TypeOK'
  <2>1. armed' \in BOOLEAN
    BY <1>2, <1>3
  <2> QED
    BY <1>0, <1>1, <1>4, <2>1 DEF TypeOK
<1>6. ReportsAddUp' /\ Counted'
  BY <1>0, <1>1, SameRecord DEF ReportsAddUp, Counted
<1> QED
  BY <1>4, <1>5, <1>6 DEF IInv

LEMMA OnIdleInv ==
  ASSUME IInv, OnIdle
  PROVE  IInv'
<1>0. TypeOK /\ Bounded /\ ReportsAddUp /\ Counted
  BY DEF IInv
<1>1. /\ callbacks > 0 /\ callbacks' = callbacks - 1
      /\ running' = running /\ begun' = begun /\ completed' = completed
  BY DEF OnIdle
<1>2. /\ Cardinality(running) \in Nat /\ begun \in 0 .. MaxJobs /\ completed \in 0 .. MaxJobs
      /\ callbacks \in 0 .. MaxJobs /\ stray \in 0 .. MaxJobs /\ MaxJobs \in Nat
      /\ decided \in Seq(Hook)
  BY <1>0, RunningCounted, WatcherAssumption DEF TypeOK
<1>3. CASE busy
  <2>1. /\ busy' = FALSE /\ armed' = FALSE /\ stray' = (IF armed THEN stray + 1 ELSE stray)
        /\ early' = (early \/ running # {}) /\ Decide(Idle)
    BY <1>3 DEF OnIdle, Report
  <2>2. PICK n : n = Len(decided) + 1
    OBVIOUS
  <2>3. /\ decided' \in Seq(Hook) /\ Idles' = Idles \cup {n}
        /\ \A i \in Idles : decided'[i] = decided[i]
        /\ decided'[n].completed = completed
    BY <1>2, <2>1, <2>2, IdleDecided
  <2>4. /\ Unreported' = {} /\ Open' = Open
        /\ \A i \in Idles : Covered(i)' = Covered(i)
        /\ Covered(n)' = Open
    BY <1>2, <2>1, <2>2, IdleCovers
  <2>5. Alternate' /\ (busy' <=> \E s \in Starts' : \A i \in Idles' : i < s)
    BY <1>0, <1>2, <1>3, <2>1, AlternateIdle DEF ReportsAddUp
  <2>6. \A i \in Idles' : decided'[i].completed = Cardinality(Covered(i)')
    <3>1. \A i \in Idles : decided'[i].completed = Cardinality(Covered(i)')
      BY <1>0, <2>3, <2>4 DEF ReportsAddUp
    <3>2. decided'[n].completed = Cardinality(Covered(n)')
      BY <1>0, <2>3, <2>4 DEF Counted
    <3> QED
      BY <2>3, <3>1, <3>2
  <2>7. ~early' /\ ~busy' => running' = {} /\ Unreported' = {}
    BY <1>1, <2>1, <2>4
  <2>8. ReportsAddUp' /\ Counted'
    BY <1>0, <1>1, <2>4, <2>5, <2>6, <2>7 DEF ReportsAddUp, Counted
  <2>9. Bounded' /\ callbacks' \in 0 .. MaxJobs /\ stray' \in 0 .. MaxJobs
    BY <1>0, <1>1, <1>2, <2>1 DEF Bounded
  <2>10. unsent' \subseteq DOMAIN decided'
    <3>1. Idle \in Hook
      BY <1>2 DEF Idle, Hook
    <3> QED
      BY <1>0, <2>1, <3>1, StillDecided DEF TypeOK
  <2>11. TypeOK'
    BY <1>0, <1>1, <2>1, <2>3, <2>9, <2>10 DEF TypeOK
  <2> QED
    BY <2>8, <2>9, <2>11 DEF IInv
<1>4. CASE ~busy
  <2>1. /\ busy' = busy /\ armed' = armed /\ stray' = stray /\ early' = early
        /\ decided' = decided /\ unsent' = unsent
    BY <1>4 DEF OnIdle, Report, hooks
  <2>2. ReportsAddUp' /\ Counted'
    BY <1>0, <1>1, <2>1, SameRecord DEF ReportsAddUp, Counted
  <2>3. Bounded' /\ callbacks' \in 0 .. MaxJobs
    BY <1>0, <1>1, <1>2, <2>1 DEF Bounded
  <2>4. TypeOK'
    BY <1>0, <1>1, <2>1, <2>3 DEF TypeOK
  <2> QED
    BY <2>2, <2>3, <2>4 DEF IInv
<1> QED
  BY <1>3, <1>4

(* Steps that leave all but the hooks still to hand over keep the           *)
(* invariant: a hand-over, and a step that changes nothing.                *)
LEMMA RestInv ==
  ASSUME IInv, unsent' \subseteq unsent,
         UNCHANGED <<running, begun, watcher, callbacks, decided, early>>
  PROVE  IInv'
<1>1. /\ running' = running /\ begun' = begun /\ busy' = busy
      /\ completed' = completed /\ armed' = armed /\ stray' = stray
      /\ callbacks' = callbacks /\ decided' = decided /\ early' = early
  BY DEF watcher
<1>2. TypeOK' /\ Bounded'
  BY <1>1 DEF IInv, TypeOK, Bounded
<1>3. ReportsAddUp' /\ Counted'
  BY <1>1, SameRecord DEF IInv, ReportsAddUp, Counted
<1> QED
  BY <1>2, <1>3 DEF IInv

LEMMA NextInv ==
  ASSUME IInv, [Next]_vars
  PROVE  IInv'
<1>1. CASE \E l \in Lanes : Begin(l) \/ End(l)
  BY <1>1, BeginInv, EndInv
<1>2. CASE Expire
  BY <1>2, ExpireInv
<1>3. CASE OnIdle
  BY <1>3, OnIdleInv
<1>4. CASE HandOver
  BY <1>4, RestInv DEF HandOver
<1>5. CASE UNCHANGED vars
  BY <1>5, RestInv DEF vars, hooks
<1> QED
  BY <1>1, <1>2, <1>3, <1>4, <1>5 DEF Next

-----------------------------------------------------------------------------
(* The inductive invariant: types, that no more jobs are counted than have *)
(* begun, the reports, and that _completed is the ends since the last      *)
(* announcement.                                                           *)
THEOREM Invariant == Spec => []IInv
BY InitInv, NextInv, PTL DEF Spec

(* Every variable keeps its type: no count of jobs or callbacks, and none  *)
(* in a report, exceeds the jobs that have begun (backend/app/notify.py).  *)
THEOREM TypeCorrect == Spec => []TypeOK
<1>1. IInv => TypeOK
  BY DEF IInv
<1> QED
  BY <1>1, Invariant, PTL

(* However jobs overlap, and whatever timers are cancelled too late,       *)
(* expire together or are forgotten: busy periods are announced and        *)
(* reported in turn, each report counts exactly the jobs that ended since  *)
(* its announcement, and as long as no report was decided while a job      *)
(* executed a queue that is not busy is idle and owes no job a report      *)
(* (QueueWatcher of backend/app/notify.py).                                *)
THEOREM Reports == Spec => []ReportsAddUp
<1>1. IInv => ReportsAddUp
  BY DEF IInv
<1> QED
  BY <1>1, Invariant, PTL
=============================================================================
