------------------------- MODULE ResourceImportsProofs -------------------------
(***************************************************************************)
(* The ledger of imports tells the truth, and no step overwrites a file    *)
(* that is recorded for what it holds: for any number of imports, threads, *)
(* chunks, requests and restarts.                                          *)
(*                                                                         *)
(* The argument.  An import that was never submitted twice at a time has   *)
(* one run, so its part file is that run's alone: nobody else writes or    *)
(* unlinks it between the digest and os.replace.  A location whose name    *)
(* has a digest holds that content.  At a plain one, found free, a run     *)
(* meets what runs that aimed there at the same time put there: its own    *)
(* content, or one the history names beside its own.  So a location holds  *)
(* what it is recorded for, or the history names that.  And each row that  *)
(* says it waits or runs is watched by a run, or by the answer being       *)
(* written.                                                                *)
(***************************************************************************)
EXTENDS ResourceImports, FiniteSetTheorems, TLAPS

Steps == {"idle", "begin", "open", "load", "size", "hash", "vet", "place",
          "register", "drop", "record", "discard"}
Runs  == [at : Steps, task : Tasks \cup {None}, inode : Inodes \cup {0},
          append : BOOLEAN, pos : 0 .. Whole - 1, target : Locations \cup {None},
          outcome : {"none", "done", "failed", "canceled"}]

-----------------------------------------------------------------------------
(* The inductive invariant: rows, runs and requests.                       *)

RunOK(k) ==
  /\ At(k, "idle") <=> thread[k].task = None
  /\ thread[k].inode # 0 => At(k, "load")
  /\ thread[k].at \in {"drop", "record", "discard"} => thread[k].outcome # "none"

(* An import nobody asked for has nothing.                                 *)
Fresh(t) ==
  row[t] = "none" => /\ t \notin Range(pool) /\ t \notin flag /\ request.task # t
                     /\ \A k \in Threads : thread[k].task # t

(* One run at a time.                                                      *)
Once(s, t) == \A i, j \in 1 .. Len(s) : s[i] = t /\ s[j] = t => i = j
Solo(t) ==
  t \notin doubled =>
    /\ Once(pool, t)
    /\ \A k \in Threads : thread[k].task = t => t \notin Range(pool)
    /\ \A k, m \in Threads : thread[k].task = t /\ thread[m].task = t => k = m

(* What brings an active import on.                                        *)
Going(k) == /\ thread[k].at \notin {"idle", "begin"}
            /\ At(k, "discard") => thread[k].outcome = "done"
Watched(t) ==
  /\ row[t] = "queued" =>
       \/ t \in Range(pool)
       \/ \E k \in Threads : thread[k].task = t /\ At(k, "begin")
       \/ request.task = t /\ request.at \in {"cancel", "submit"}
  /\ row[t] = "running" => \E k \in Threads : thread[k].task = t /\ Going(k)
  /\ row[t] = "queued" /\ t \in flag => request.task = t /\ request.at = "cancel"

(* A cancel holds until the run it is for can download no more.            *)
Parked(k) == At(k, "record") /\ thread[k].outcome = "done"
Stops(t) ==
  t \notin flag \cup doubled =>
    /\ row[t] = "canceling" =>
         \A k \in Threads : thread[k].task = t => thread[k].at \notin {"open", "load"}
    /\ request.task = t /\ request.at = "cancel" =>
         /\ t \notin Range(pool)
         /\ \A k \in Threads : thread[k].task = t => Parked(k)

RequestOK ==
  /\ request.at = "none" => request = NoRequest
  /\ request.at # "none" => request.task \in Tasks
  /\ request.at \in {"discard", "queue", "submit"} => row[request.task] # "canceling"
  /\ request.at \in {"queue", "submit"} => request.task \notin flag

Control ==
  /\ \A k \in Threads : RunOK(k)
  /\ \A t \in Tasks : Fresh(t) /\ Solo(t) /\ Watched(t) /\ Stops(t)
  /\ RequestOK

-----------------------------------------------------------------------------
(* The inductive invariant: files, while no import runs twice.             *)

Full(c) == [n |-> Whole, ok |-> TRUE, of |-> c]

(* A part file is one import's, and no installed file.                     *)
PartOK(t) ==
  part[t] # 0 => /\ \A u \in Tasks : part[u] = part[t] => u = t
                 /\ \A l \in Locations : file[l] # part[t]
                 /\ bytes[part[t]].of = ContentOf[t]

(* The locations an import may aim at.                                     *)
Aims(t) == {<<NameOf[t], None>>, <<NameOf[t], ContentOf[t]>>}

(* Content whose import aimed at l at once with another file's.            *)
Met(l, c) == <<l, c>> \in clashed

(* What is at l while the import of c may move it there, and from then on. *)
Fits(l, c) ==
  file[l] # 0 => bytes[file[l]].of = c \/ (Met(l, c) /\ Met(l, bytes[file[l]].of))
Placed(l, c) ==
  Holds(l, c) \/ (file[l] # 0 /\ Met(l, c) /\ Met(l, bytes[file[l]].of))

Aimed(k, l, c) ==
  At(k, "place") /\ thread[k].target = l /\ ContentOf[thread[k].task] = c

(* Two runs that aim at one location at once.                              *)
Rival(k, m) ==
  LET c == ContentOf[thread[k].task]
      d == ContentOf[thread[m].task]
      l == thread[k].target
  IN  At(k, "place") /\ At(m, "place") /\ thread[m].target = l /\ c # d
        => Met(l, c) /\ Met(l, d)

(* A location holds what its name and what its record say.                 *)
InstallOK(l) ==
  /\ install[l] # None => Holds(l, install[l]) \/ Met(l, install[l])
  /\ l[2] # None /\ file[l] # 0 => bytes[file[l]].of = l[2]

Installed(t) ==
  \E l \in Locations : install[l] = ContentOf[t] \/ Met(l, ContentOf[t])

(* What a run has come to know of its file.                                *)
KnownOK(k) ==
  LET r == thread[k]
      t == r.task IN
  /\ r.at = "load" => r.inode # 0 /\ r.inode = part[t]
  /\ r.at \in {"vet", "place"} /\ part[t] # 0 => bytes[part[t]] = Full(ContentOf[t])
  /\ r.at \in {"place", "register"} => r.target \in Aims(t)
  /\ r.at = "place" => /\ Fits(r.target, ContentOf[t])
                       /\ \A m \in Threads : Rival(k, m)
  /\ r.at = "register" => Placed(r.target, ContentOf[t])
  /\ r.at \in {"drop", "record", "discard"} /\ r.outcome = "done" => Installed(t)

Files ==
  /\ \A t \in Tasks : PartOK(t) /\ (row[t] = "done" => Installed(t))
  /\ \A l \in Locations : InstallOK(l)
  /\ \A k \in Threads : KnownOK(k)

IInv == TypeOK /\ Control /\ (doubled = {} => Files)

-----------------------------------------------------------------------------
(* Sequences, records and inodes.                                          *)

LEMMA Appended ==
  ASSUME NEW S, NEW s \in Seq(S), NEW t \in S
  PROVE  LET r == Append(s, t)
         IN  /\ r \in Seq(S) /\ Range(r) = Range(s) \cup {t}
             /\ \A u : u # t /\ Once(s, u) => Once(r, u)
             /\ t \notin Range(s) => Once(r, t)
<1> DEFINE r == Append(s, t)
<1>1. /\ r \in Seq(S) /\ Len(s) \in Nat /\ Len(r) = Len(s) + 1
      /\ \A i \in 1 .. Len(r) : r[i] = IF i <= Len(s) THEN s[i] ELSE t
      /\ DOMAIN r = 1 .. Len(r) /\ DOMAIN s = 1 .. Len(s)
  OBVIOUS
<1> HIDE DEF r
<1>2. Range(r) = Range(s) \cup {t}
  <2>1. ASSUME NEW x \in Range(s) PROVE x \in Range(r)
    <3>1. PICK i \in 1 .. Len(s) : x = s[i]
      BY <1>1, <2>1 DEF Range
    <3> QED
      BY <1>1, <3>1 DEF Range
  <2>2. t \in Range(r)
    BY <1>1 DEF Range
  <2> QED
    BY <1>1, <2>1, <2>2 DEF Range
<1>3. ASSUME NEW u, u # t, Once(s, u) PROVE Once(r, u)
  BY <1>1, <1>3 DEF Once
<1>4. ASSUME t \notin Range(s) PROVE Once(r, t)
  BY <1>1, <1>4 DEF Once, Range
<1> QED
  BY <1>1, <1>2, <1>3, <1>4 DEF r

LEMMA Taken ==
  ASSUME NEW S, NEW s \in Seq(S), s # <<>>
  PROVE  /\ Tail(s) \in Seq(S) /\ Head(s) \in S /\ Head(s) \in Range(s)
         /\ Range(Tail(s)) \subseteq Range(s) /\ Range(s) \subseteq Range(Tail(s)) \cup {Head(s)}
         /\ \A u : Once(s, u) => Once(Tail(s), u)
         /\ Once(s, Head(s)) => Head(s) \notin Range(Tail(s))
<1> DEFINE r == Tail(s)
<1>1. /\ r \in Seq(S) /\ Len(s) \in Nat \ {0} /\ Len(r) = Len(s) - 1
      /\ \A i \in 1 .. Len(r) : r[i] = s[i + 1]
      /\ DOMAIN r = 1 .. Len(r) /\ DOMAIN s = 1 .. Len(s)
      /\ Head(s) = s[1] /\ s[1] \in S
  OBVIOUS
<1> HIDE DEF r
<1>2. Range(r) \subseteq Range(s)
  BY <1>1 DEF Range
<1>3. ASSUME NEW x \in Range(s), x # s[1] PROVE x \in Range(r)
  <2>1. PICK i \in 1 .. Len(s) : x = s[i]
    BY <1>1, <1>3 DEF Range
  <2>2. i - 1 \in 1 .. Len(r) /\ r[i - 1] = s[i]
    BY <1>1, <1>3, <2>1
  <2> QED
    BY <1>1, <2>1, <2>2 DEF Range
<1>4. ASSUME NEW u, Once(s, u) PROVE Once(r, u)
  <2> SUFFICES ASSUME NEW i \in 1 .. Len(r), NEW j \in 1 .. Len(r), r[i] = u, r[j] = u PROVE i = j
    BY DEF Once
  <2>1. s[i + 1] = u /\ s[j + 1] = u /\ i + 1 \in 1 .. Len(s) /\ j + 1 \in 1 .. Len(s)
    BY <1>1
  <2> QED
    BY <1>1, <1>4, <2>1 DEF Once
<1>5. ASSUME Once(s, s[1]) PROVE s[1] \notin Range(r)
  <2> SUFFICES ASSUME NEW i \in 1 .. Len(r), r[i] = s[1] PROVE FALSE
    BY <1>1 DEF Range
  <2>1. s[i + 1] = s[1] /\ i + 1 \in 1 .. Len(s) /\ 1 \in 1 .. Len(s) /\ i + 1 # 1
    BY <1>1
  <2> QED
    BY <1>5, <2>1 DEF Once
<1> QED
  BY <1>1, <1>2, <1>3, <1>4, <1>5 DEF r, Range

(* What the proofs use of the types.                                       *)
LEMMA Types ==
  ASSUME ImportsAssumption, TypeOK
  PROVE  /\ pool \in Seq(Tasks) /\ thread \in [Threads -> Runs]
         /\ \A k \in Threads :
              /\ thread[k] \in Runs /\ thread[k].at \in Steps /\ thread[k].task \in Tasks \cup {None}
              /\ thread[k].inode \in Inodes \cup {0} /\ thread[k].pos \in 0 .. Whole - 1
              /\ thread[k].append \in BOOLEAN /\ thread[k].target \in Locations \cup {None}
              /\ thread[k].outcome \in {"none", "done", "failed", "canceled"}
         /\ None \notin Tasks /\ Whole \in Nat \ {0}
         /\ Inodes \subseteq Nat \ {0}
<1>1. thread \in [Threads -> Runs]
  BY DEF TypeOK, Runs, Steps
<1>2. Inodes \subseteq Nat \ {0}
  BY DEF Inodes
<1>3. \A k \in Threads :
        /\ thread[k] \in Runs /\ thread[k].at \in Steps /\ thread[k].task \in Tasks \cup {None}
        /\ thread[k].inode \in Inodes \cup {0} /\ thread[k].pos \in 0 .. Whole - 1
        /\ thread[k].append \in BOOLEAN /\ thread[k].target \in Locations \cup {None}
        /\ thread[k].outcome \in {"none", "done", "failed", "canceled"}
  BY <1>1 DEF Runs
<1> QED
  BY <1>1, <1>2, <1>3 DEF TypeOK, ImportsAssumption

LEMMA IdleRun ==
  ASSUME ImportsAssumption
  PROVE  Idle \in Runs /\ Idle.at = "idle" /\ Idle.task = None /\ Idle.inode = 0
BY DEF ImportsAssumption, Idle, Runs, Steps

(* The values a thread takes.                                              *)
Goes(r, step) == [r EXCEPT !.at = step]
Ends(r, step, o) ==
  [r EXCEPT !.at = step, !.outcome = o, !.inode = 0, !.pos = 0, !.append = FALSE, !.target = None]

LEMMA GoesRun ==
  ASSUME NEW r \in Runs, NEW step \in Steps
  PROVE  LET q == Goes(r, step)
         IN  q \in Runs /\ q.at = step /\ q.task = r.task /\ q.inode = r.inode
             /\ q.target = r.target /\ q.outcome = r.outcome
BY DEF Goes, Runs

LEMMA EndsRun ==
  ASSUME ImportsAssumption, NEW r \in Runs, NEW step \in Steps,
         NEW o \in {"none", "done", "failed", "canceled"}
  PROVE  LET q == Ends(r, step, o)
         IN  q \in Runs /\ q.at = step /\ q.task = r.task /\ q.inode = 0 /\ q.outcome = o
<1>1. 0 \in 0 .. Whole - 1
  BY DEF ImportsAssumption
<1> QED
  BY <1>1 DEF Ends, Runs

LEMMA GoIs ==
  ASSUME NEW k \in Threads, NEW step
  PROVE  /\ Go(k, step) => thread' = [thread EXCEPT ![k] = Goes(thread[k], step)]
         /\ \A o : End(k, step, o) => thread' = [thread EXCEPT ![k] = Ends(thread[k], step, o)]
BY DEF Go, End, Goes, Ends

(* There is an inode nobody has, for a file that has none.                 *)
LEMMA InodeLeft ==
  ASSUME ImportsAssumption, TypeOK, NEW t \in Tasks, part[t] = 0
  PROVE  /\ FreeInode \in Inodes /\ FreeInode \notin Range(part) /\ FreeInode \notin Range(file)
         /\ \A k \in Threads : thread[k].inode # FreeInode
<1> DEFINE held == [k \in Threads |-> thread[k].inode]
           used == Range(part) \cup Range(file) \cup Range(held)
           total == Cardinality(Tasks) + Cardinality(Locations) + Cardinality(Threads)
<1>1. /\ IsFiniteSet(Tasks) /\ IsFiniteSet(Threads) /\ IsFiniteSet(Locations)
      /\ Cardinality(Tasks) \in Nat /\ Cardinality(Threads) \in Nat /\ Cardinality(Locations) \in Nat
  <2>1. /\ IsFiniteSet(Tasks) /\ IsFiniteSet(Threads) /\ IsFiniteSet(Names) /\ IsFiniteSet(Contents)
    BY DEF ImportsAssumption
  <2>2. IsFiniteSet(Contents \cup {None})
    BY <2>1, FS_AddElement
  <2>3. IsFiniteSet(Locations)
    BY <2>1, <2>2, FS_Product DEF Locations
  <2> QED
    BY <2>1, <2>3, FS_CardinalityType
<1>2. ASSUME NEW f, NEW S, IsFiniteSet(S), f \in [S -> Range(f)]
      PROVE  IsFiniteSet(Range(f)) /\ Cardinality(Range(f)) <= Cardinality(S)
  <2>1. f \in Surjection(S, Range(f))
    BY <1>2 DEF Surjection, Range
  <2> HIDE DEF Range
  <2> QED
    BY <1>2, <2>1, FS_Surjection
<1>3. /\ IsFiniteSet(Range(part)) /\ Cardinality(Range(part)) <= Cardinality(Tasks)
      /\ IsFiniteSet(Range(file)) /\ Cardinality(Range(file)) <= Cardinality(Locations)
      /\ IsFiniteSet(Range(held)) /\ Cardinality(Range(held)) <= Cardinality(Threads)
  <2>1. part \in [Tasks -> Range(part)] /\ file \in [Locations -> Range(file)] /\ held \in [Threads -> Range(held)]
    BY DEF TypeOK, Range
  <2> HIDE DEF held
  <2> QED
    BY <1>1, <1>2, <2>1
<1> HIDE DEF held
<1>4. /\ Cardinality(Range(part)) \in Nat /\ Cardinality(Range(file)) \in Nat
      /\ Cardinality(Range(held)) \in Nat
  BY <1>3, FS_CardinalityType
<1>5. IsFiniteSet(used) /\ Cardinality(used) <= total /\ Cardinality(used) \in Nat
  <2> DEFINE both == Range(part) \cup Range(file)
  <2>1. /\ IsFiniteSet(both)
        /\ Cardinality(both) = Cardinality(Range(part)) + Cardinality(Range(file))
                               - Cardinality(Range(part) \cap Range(file))
    BY <1>3, FS_Union
  <2>2. Cardinality(Range(part) \cap Range(file)) \in Nat
    BY <1>3, FS_Subset, FS_CardinalityType
  <2>3. IsFiniteSet(both) /\ Cardinality(both) \in Nat
        /\ Cardinality(both) <= Cardinality(Tasks) + Cardinality(Locations)
    BY <1>1, <1>3, <1>4, <2>1, <2>2, FS_CardinalityType
  <2> HIDE DEF both
  <2>4. /\ IsFiniteSet(both \cup Range(held))
        /\ Cardinality(both \cup Range(held)) = Cardinality(both) + Cardinality(Range(held))
                                               - Cardinality(both \cap Range(held))
    BY <1>3, <2>3, FS_Union
  <2>5. Cardinality(both \cap Range(held)) \in Nat
    BY <1>3, FS_Subset, FS_CardinalityType
  <2>6. IsFiniteSet(both \cup Range(held)) /\ Cardinality(both \cup Range(held)) <= total
        /\ Cardinality(both \cup Range(held)) \in Nat
    BY <1>1, <1>3, <1>4, <2>3, <2>4, <2>5, FS_CardinalityType
  <2> QED
    BY <2>6 DEF both
<1>6. 0 \in used
  BY DEF TypeOK, Range
<1> HIDE DEF used
<1>7. IsFiniteSet(used \ {0}) /\ Cardinality(used \ {0}) < total
  <2>1. IsFiniteSet(used \ {0}) /\ Cardinality(used \ {0}) = Cardinality(used) - 1
    BY <1>5, <1>6, FS_RemoveElement
  <2> QED
    BY <1>1, <1>5, <2>1
<1>8. Inodes = 1 .. total /\ total \in Nat
  BY <1>1 DEF Inodes
<1> HIDE DEF total
<1>9. \E i \in Inodes : i \notin used
  <2> SUFFICES ASSUME Inodes \subseteq used PROVE FALSE
    OBVIOUS
  <2>1. Inodes \in SUBSET (used \ {0})
    BY <1>8
  <2>2. Cardinality(Inodes) <= Cardinality(used \ {0})
    BY <1>7, <2>1, FS_Subset
  <2>3. Cardinality(Inodes) = total
    BY <1>8, FS_Interval
  <2>4. Cardinality(used \ {0}) \in Nat
    BY <1>7, FS_CardinalityType
  <2> QED
    BY <1>7, <1>8, <2>2, <2>3, <2>4
<1>10. used = Range(part) \cup Range(file) \cup {thread[k].inode : k \in Threads}
  BY DEF used, held, Range
<1>11. FreeInode \in Inodes /\ FreeInode \notin used
  BY <1>9, <1>10 DEF FreeInode
<1> QED
  BY <1>10, <1>11

-----------------------------------------------------------------------------
(* Rows, runs and requests: the steps of a thread.                         *)

LEMMA OneThread ==
  ASSUME TypeOK, ImportsAssumption, NEW k \in Threads, NEW r, thread' = [thread EXCEPT ![k] = r]
  PROVE  \A m \in Threads : thread'[m] = IF m = k THEN r ELSE thread[m]
BY Types

(* Between the open and the end of the run.                                *)
LEMMA ControlKeeps ==
  ASSUME ImportsAssumption, TypeOK, Control, NEW k \in Threads, NEW r \in Runs,
         thread' = [thread EXCEPT ![k] = r], r.task = thread[k].task,
         thread[k].at \notin {"idle", "begin", "record", "discard"}, r.at \notin {"idle", "begin"},
         r.at \in {"open", "load"} => thread[k].at \in {"open", "load"},
         r.inode # 0 => r.at = "load",
         r.at \in {"drop", "record", "discard"} => r.outcome # "none",
         r.at = "discard" => r.outcome = "done",
         UNCHANGED <<row, flag, pool, request, doubled>>
  PROVE  Control'
<1>1. /\ \A m \in Threads : thread'[m] = IF m = k THEN r ELSE thread[m]
      /\ \A m \in Threads : thread'[m].task = thread[m].task
  <2>1. \A m \in Threads : thread'[m] = IF m = k THEN r ELSE thread[m]
    BY OneThread
  <2> QED
    BY <2>1
<1>2. ASSUME NEW m \in Threads PROVE RunOK(m)'
  BY <1>1, <1>2 DEF Control, RunOK, At
<1>3. ASSUME NEW t \in Tasks PROVE Fresh(t)' /\ Solo(t)'
  BY <1>1, <1>3 DEF Control, Fresh, Solo
<1>4. ASSUME NEW t \in Tasks PROVE Watched(t)'
  <2>1. Watched(t) /\ \A m \in Threads : /\ At(m, "begin") => At(m, "begin")'
                                         /\ Going(m) => Going(m)'
    BY <1>1, <1>4 DEF Control, At, Going
  <2> QED
    BY <1>1, <2>1 DEF Watched
<1>5. ASSUME NEW t \in Tasks PROVE Stops(t)'
  <2>1. Stops(t) /\ \A m \in Threads : /\ Parked(m) => Parked(m)'
                                       /\ thread'[m].at \in {"open", "load"} => thread[m].at \in {"open", "load"}
    BY <1>1, <1>5 DEF Control, At, Parked
  <2> QED
    BY <1>1, <2>1 DEF Stops
<1>6. RequestOK'
  BY DEF Control, RequestOK
<1> QED
  BY <1>2, <1>3, <1>4, <1>5, <1>6 DEF Control

LEMMA ControlPick ==
  ASSUME ImportsAssumption, TypeOK, Control, NEW k \in Threads, Pick(k)
  PROVE  Control'
<1> DEFINE t == Head(pool)
           r == IF row[t] = "queued" /\ t \notin flag
                THEN [Idle EXCEPT !.at = "begin", !.task = t] ELSE thread[k]
<1>1. /\ At(k, "idle") /\ pool # <<>> /\ pool' = Tail(pool) /\ thread[k].task = None
      /\ UNCHANGED <<row, flag, request, doubled>>
  BY DEF Pick, Control, RunOK
<1>2. /\ pool \in Seq(Tasks) /\ t \in Tasks /\ t \in Range(pool) /\ Range(pool') \subseteq Range(pool)
      /\ Range(pool) \subseteq Range(pool') \cup {t}
      /\ \A u : Once(pool, u) => Once(pool', u)
      /\ Once(pool, t) => t \notin Range(pool')
  BY <1>1, Types, Taken
<1>3. /\ None \notin Tasks /\ thread[k] \in Runs /\ thread \in [Threads -> Runs]
  BY Types
<1>4. thread' = [thread EXCEPT ![k] = r]
  BY <1>3 DEF Pick
<1>5. IF row[t] = "queued" /\ t \notin flag
      THEN r.at = "begin" /\ r.task = t /\ r.inode = 0 ELSE r = thread[k]
  BY IdleRun DEF Idle
<1> HIDE DEF t, r
<1>6. \A m \in Threads : thread'[m] = IF m = k THEN r ELSE thread[m]
  BY <1>4, OneThread
<1>7. ASSUME NEW m \in Threads PROVE RunOK(m)'
  <2>1. CASE m = k /\ r # thread[k]
    BY <1>2, <1>3, <1>5, <1>6, <2>1 DEF RunOK, At
  <2>2. CASE m # k \/ r = thread[k]
    BY <1>6, <1>7, <2>2 DEF Control, RunOK, At
  <2> QED
    BY <2>1, <2>2
<1>8. ASSUME NEW u \in Tasks PROVE Fresh(u)'
  BY <1>1, <1>2, <1>5, <1>6, <1>8 DEF Control, Fresh
<1>9. ASSUME NEW u \in Tasks PROVE Solo(u)'
  <2> SUFFICES ASSUME u \notin doubled PROVE Solo(u)'
    BY <1>1 DEF Solo
  <2>1. /\ Once(pool, u) /\ \A m \in Threads : thread[m].task = u => u \notin Range(pool)
        /\ \A l, m \in Threads : thread[l].task = u /\ thread[m].task = u => l = m
    BY <1>9 DEF Control, Solo
  <2>2. CASE u = t /\ r # thread[k]
    <3>1. u \notin Range(pool') /\ \A m \in Threads : thread[m].task # u
      BY <1>2, <2>1, <2>2
    <3>2. \A m \in Threads : thread'[m].task = u => m = k
      BY <1>6, <3>1
    <3> QED
      BY <1>2, <2>1, <3>1, <3>2 DEF Solo
  <2>3. CASE u # t \/ r = thread[k]
    <3>1. \A m \in Threads : thread'[m].task = u => thread[m].task = u
      BY <1>5, <1>6, <2>3
    <3> QED
      BY <1>2, <2>1, <3>1 DEF Solo
  <2> QED
    BY <2>2, <2>3
<1>10. ASSUME NEW u \in Tasks PROVE Watched(u)'
  <2>1. Watched(u)
    BY <1>10 DEF Control
  <2>2. \A m \in Threads : m # k => thread'[m] = thread[m]
    BY <1>6
  <2>3. ASSUME row[u] = "running" PROVE \E m \in Threads : thread'[m].task = u /\ Going(m)'
    <3>1. PICK m \in Threads : thread[m].task = u /\ Going(m)
      BY <2>1, <2>3 DEF Watched
    <3>2. m # k
      BY <1>1, <3>1 DEF Going, At
    <3> QED
      BY <2>2, <3>1, <3>2 DEF Going, At
  <2>4. ASSUME row[u] = "queued", NEW m \in Threads, thread[m].task = u, At(m, "begin")
        PROVE  thread'[m].task = u /\ At(m, "begin")'
    BY <1>1, <2>2, <2>4 DEF At
  <2>5. ASSUME row[u] = "queued", u \in Range(pool), u \notin Range(pool'), u \notin flag
        PROVE  thread'[k].task = u /\ At(k, "begin")'
    BY <1>2, <1>5, <1>6, <2>5 DEF At
  <2> QED
    BY <1>1, <2>1, <2>3, <2>4, <2>5 DEF Watched
<1>11. ASSUME NEW u \in Tasks PROVE Stops(u)'
  <2> SUFFICES ASSUME u \notin flag \cup doubled PROVE Stops(u)'
    BY <1>1 DEF Stops
  <2>1. /\ Stops(u)
        /\ \A m \in Threads : thread'[m] = thread[m] \/ (m = k /\ thread'[m].at = "begin" /\ thread'[m].task = t)
    BY <1>5, <1>6, <1>11 DEF Control
  <2>2. ASSUME row'[u] = "canceling", NEW m \in Threads, thread'[m].task = u
        PROVE  thread'[m].at \notin {"open", "load"}
    BY <1>1, <2>1, <2>2 DEF Stops
  <2>3. ASSUME request'.task = u, request'.at = "cancel"
        PROVE  u \notin Range(pool') /\ \A m \in Threads : thread'[m].task = u => Parked(m)'
    <3>1. u \notin Range(pool) /\ \A m \in Threads : thread[m].task = u => Parked(m)
      BY <1>1, <2>1, <2>3 DEF Stops
    <3>2. u # t
      BY <1>2, <3>1
    <3> QED
      BY <1>2, <2>1, <3>1, <3>2 DEF Parked, At
  <2> QED
    BY <2>2, <2>3 DEF Stops
<1>12. RequestOK'
  BY <1>1 DEF Control, RequestOK
<1> QED
  BY <1>7, <1>8, <1>9, <1>10, <1>11, <1>12 DEF Control

LEMMA ControlBegin ==
  ASSUME ImportsAssumption, TypeOK, Control, NEW k \in Threads, Begin(k)
  PROVE  Control'
<1> DEFINE t == thread[k].task
           r == Goes(thread[k], "open")
<1>1. /\ At(k, "begin") /\ row' = [row EXCEPT ![t] = "running"] /\ Go(k, "open")
      /\ UNCHANGED <<flag, pool, request, doubled>>
  BY DEF Begin
<1>2. /\ thread[k] \in Runs /\ t \in Tasks /\ thread[k].inode = 0
  BY <1>1, Types DEF Control, RunOK, At
<1>3. r \in Runs /\ r.at = "open" /\ r.task = t /\ r.inode = 0
  BY <1>2, GoesRun DEF Steps
<1>4. thread' = [thread EXCEPT ![k] = r]
  BY <1>1, GoIs
<1> HIDE DEF t, r
<1>5. /\ \A m \in Threads : thread'[m] = IF m = k THEN r ELSE thread[m]
      /\ \A m \in Threads : thread'[m].task = thread[m].task
  <2>1. \A m \in Threads : thread'[m] = IF m = k THEN r ELSE thread[m]
    BY <1>4, OneThread
  <2> QED
    BY <1>3, <2>1 DEF t
<1>6. \A u \in Tasks : row'[u] = IF u = t THEN "running" ELSE row[u]
  BY <1>1, <1>2 DEF TypeOK, t
<1>7. ASSUME NEW m \in Threads PROVE RunOK(m)'
  BY <1>1, <1>2, <1>3, <1>5, <1>7 DEF Control, RunOK, At
<1>8. ASSUME NEW u \in Tasks PROVE Fresh(u)' /\ Solo(u)'
  BY <1>1, <1>5, <1>6, <1>8 DEF Control, Fresh, Solo
<1>9. ASSUME NEW u \in Tasks PROVE Watched(u)'
  <2>1. CASE u = t
    BY <1>3, <1>5, <1>6, <2>1 DEF Watched, Going, At
  <2>2. CASE u # t
    <3>1. Watched(u) /\ row'[u] = row[u] /\ \A m \in Threads : thread[m].task = u => thread'[m] = thread[m]
      BY <1>5, <1>6, <1>9, <2>2 DEF Control, t
    <3> QED
      BY <1>1, <1>5, <3>1 DEF Watched, Going, At
  <2> QED
    BY <2>1, <2>2
<1>10. ASSUME NEW u \in Tasks PROVE Stops(u)'
  <2>1. CASE u = t
    <3>1. Stops(u) /\ ~Parked(k) /\ k \in Threads /\ thread[k].task = u
      BY <1>1, <1>10, <2>1 DEF Control, Parked, At, t
    <3>2. row'[u] # "canceling"
      BY <1>6, <2>1
    <3> QED
      BY <1>1, <3>1, <3>2 DEF Stops
  <2>2. CASE u # t
    <3>1. Stops(u) /\ row'[u] = row[u] /\ \A m \in Threads : thread[m].task = u => thread'[m] = thread[m]
      BY <1>5, <1>6, <1>10, <2>2 DEF Control, t
    <3> QED
      BY <1>1, <1>5, <3>1 DEF Stops, Parked, At
  <2> QED
    BY <2>1, <2>2
<1>11. RequestOK'
  <2>1. request.at \in {"discard", "queue", "submit"} => row'[request.task] # "canceling"
    <3>1. request.at # "none" => request.task \in Tasks
      BY DEF Control, RequestOK
    <3> QED
      BY <1>6, <3>1 DEF Control, RequestOK
  <2> QED
    BY <1>1, <2>1 DEF Control, RequestOK
<1> QED
  BY <1>7, <1>8, <1>9, <1>10, <1>11 DEF Control

LEMMA ControlRecord ==
  ASSUME ImportsAssumption, TypeOK, Control, NEW k \in Threads, Record(k)
  PROVE  Control'
<1> DEFINE t == thread[k].task
           o == thread[k].outcome
           r == IF o = "done" THEN Idle ELSE Goes(thread[k], "discard")
<1>1. /\ At(k, "record") /\ row' = [row EXCEPT ![t] = o] /\ UNCHANGED <<flag, pool, request, doubled>>
      /\ thread' = [thread EXCEPT ![k] = r]
  BY GoIs DEF Record
<1>2. /\ thread[k] \in Runs /\ t \in Tasks /\ thread[k].inode = 0 /\ o \in {"done", "failed", "canceled"}
  BY <1>1, Types DEF Control, RunOK, At
<1>3. IF o = "done" THEN r = Idle
      ELSE r.at = "discard" /\ r.task = t /\ r.inode = 0 /\ r.outcome = o
  BY <1>2, GoesRun DEF Steps
<1>4. /\ Idle.at = "idle" /\ Idle.task = None /\ Idle.inode = 0 /\ None \notin Tasks
  BY IdleRun DEF ImportsAssumption
<1> HIDE DEF r, o
<1>5. \A m \in Threads : thread'[m] = IF m = k THEN r ELSE thread[m]
  BY <1>1, OneThread
<1>6. \A u \in Tasks : row'[u] = IF u = t THEN o ELSE row[u]
  BY <1>1, <1>2 DEF TypeOK
<1>7. \A m \in Threads, u \in Tasks : thread'[m].task = u => thread[m].task = u
  BY <1>3, <1>4, <1>5
<1>8. ASSUME NEW m \in Threads PROVE RunOK(m)'
  BY <1>2, <1>3, <1>4, <1>5, <1>8 DEF Control, RunOK, At
<1>9. ASSUME NEW u \in Tasks PROVE Fresh(u)' /\ Solo(u)'
  BY <1>1, <1>2, <1>6, <1>7, <1>9 DEF Control, Fresh, Solo
<1>10. ASSUME NEW u \in Tasks PROVE Watched(u)'
  <2>1. CASE u = t
    BY <1>2, <1>6, <2>1 DEF Watched
  <2>2. CASE u # t
    <3>1. Watched(u) /\ row'[u] = row[u] /\ \A m \in Threads : thread[m].task = u => thread'[m] = thread[m]
      BY <1>5, <1>6, <1>10, <2>2 DEF Control
    <3> QED
      BY <1>1, <3>1 DEF Watched, Going, At
  <2> QED
    BY <2>1, <2>2
<1>11. ASSUME NEW u \in Tasks PROVE Stops(u)'
  <2>1. CASE u = t
    <3>1. Stops(u) /\ (Parked(k) => o = "done") /\ k \in Threads /\ thread[k].task = u
      BY <1>11, <2>1 DEF Control, Parked, o
    <3>2. row'[u] # "canceling"
      BY <1>2, <1>6, <2>1
    <3>3. o = "done" => \A m \in Threads : thread'[m].task = u => m # k /\ thread'[m] = thread[m]
      BY <1>3, <1>4, <1>5, <1>11
    <3> QED
      BY <1>1, <1>7, <3>1, <3>2, <3>3 DEF Stops, Parked, At
  <2>2. CASE u # t
    <3>1. Stops(u) /\ row'[u] = row[u] /\ \A m \in Threads : thread[m].task = u => thread'[m] = thread[m]
      BY <1>5, <1>6, <1>11, <2>2 DEF Control
    <3> QED
      BY <1>1, <1>7, <1>11, <3>1 DEF Stops, Parked, At
  <2> QED
    BY <2>1, <2>2
<1>12. RequestOK'
  <2>1. request.at \in {"discard", "queue", "submit"} => row'[request.task] # "canceling"
    <3>1. request.at # "none" => request.task \in Tasks
      BY DEF Control, RequestOK
    <3> QED
      BY <1>2, <1>6, <3>1 DEF Control, RequestOK
  <2> QED
    BY <1>1, <2>1 DEF Control, RequestOK
<1> QED
  BY <1>8, <1>9, <1>10, <1>11, <1>12 DEF Control

LEMMA ControlDiscard ==
  ASSUME ImportsAssumption, TypeOK, Control, NEW k \in Threads, Discard(k)
  PROVE  Control'
<1> DEFINE t == thread[k].task
           o == thread[k].outcome
           r == IF o = "done" THEN Goes(thread[k], "record") ELSE Idle
<1>1. /\ At(k, "discard") /\ flag' = flag \ {t} /\ UNCHANGED <<row, pool, request, doubled>>
      /\ thread' = [thread EXCEPT ![k] = r]
  BY GoIs DEF Discard
<1>2. /\ thread[k] \in Runs /\ t \in Tasks /\ thread[k].inode = 0 /\ o \in {"done", "failed", "canceled"}
  BY <1>1, Types DEF Control, RunOK, At
<1>3. IF o = "done" THEN r.at = "record" /\ r.task = t /\ r.inode = 0 /\ r.outcome = o
                    ELSE r = Idle
  BY <1>2, GoesRun DEF Steps
<1>4. /\ Idle.at = "idle" /\ Idle.task = None /\ Idle.inode = 0 /\ None \notin Tasks
  BY IdleRun DEF ImportsAssumption
<1> HIDE DEF r, o
<1>5. \A m \in Threads : thread'[m] = IF m = k THEN r ELSE thread[m]
  BY <1>1, OneThread
<1>7. \A m \in Threads, u \in Tasks : thread'[m].task = u => thread[m].task = u
  BY <1>3, <1>4, <1>5
<1>8. ASSUME NEW m \in Threads PROVE RunOK(m)'
  BY <1>2, <1>3, <1>4, <1>5, <1>8 DEF Control, RunOK, At
<1>9. ASSUME NEW u \in Tasks PROVE Fresh(u)' /\ Solo(u)'
  BY <1>1, <1>7, <1>9 DEF Control, Fresh, Solo
<1>10. ASSUME NEW u \in Tasks PROVE Watched(u)'
  <2>1. Watched(u) /\ \A m \in Threads : m # k => thread'[m] = thread[m]
    BY <1>5, <1>10 DEF Control
  <2>2. ASSUME NEW m \in Threads, thread[m].task = u, Going(m)
        PROVE  thread'[m].task = u /\ Going(m)'
    <3>1. CASE m = k
      <4>1. o = "done"
        BY <1>1, <2>2, <3>1 DEF Going, o
      <4>2. thread'[k] = r
        BY <1>5
      <4> QED
        BY <1>3, <2>2, <3>1, <4>1, <4>2 DEF Going, At
    <3>2. CASE m # k
      BY <2>1, <2>2, <3>2 DEF Going, At
    <3> QED
      BY <3>1, <3>2
  <2>3. ASSUME NEW m \in Threads, thread[m].task = u, At(m, "begin")
        PROVE  thread'[m].task = u /\ At(m, "begin")'
    BY <1>1, <2>1, <2>3 DEF At
  <2> QED
    BY <1>1, <2>1, <2>2, <2>3 DEF Watched
<1>11. ASSUME NEW u \in Tasks PROVE Stops(u)'
  <2>1. CASE u = t
    <3> SUFFICES ASSUME u \notin doubled PROVE Stops(u)'
      BY <1>1 DEF Stops
    <3>1. u \notin Range(pool) /\ \A m \in Threads : thread[m].task = u => m = k
      BY <1>11, <2>1 DEF Control, Solo
    <3>2. \A m \in Threads : thread'[m].task = u => Parked(m)'
      BY <1>3, <1>4, <1>5, <1>7, <1>11, <3>1 DEF Parked, At
    <3> QED
      BY <1>1, <3>1, <3>2 DEF Stops, Parked, At
  <2>2. CASE u # t
    <3>1. Stops(u) /\ \A m \in Threads : thread[m].task = u => thread'[m] = thread[m]
      BY <1>5, <1>11, <2>2 DEF Control
    <3> QED
      BY <1>1, <1>7, <1>11, <2>2, <3>1 DEF Stops, Parked, At
  <2> QED
    BY <2>1, <2>2
<1>12. RequestOK'
  BY <1>1 DEF Control, RequestOK
<1> QED
  BY <1>8, <1>9, <1>10, <1>11, <1>12 DEF Control

-----------------------------------------------------------------------------
(* Rows, runs and requests: the event loop and the process.                *)

LEMMA RunsSame ==
  ASSUME Control, thread' = thread
  PROVE  /\ \A k \in Threads : RunOK(k)' /\ (Going(k) <=> Going(k)') /\ (Parked(k) <=> Parked(k)')
         /\ \A k \in Threads : \A s : At(k, s)' <=> At(k, s)
BY DEF Control, RunOK, Going, Parked, At

LEMMA ControlCreate ==
  ASSUME ImportsAssumption, TypeOK, Control, NEW t \in Tasks, Create(t)
  PROVE  Control'
<1>1. /\ row[t] = "none" /\ request = NoRequest /\ request.at = "none"
      /\ UNCHANGED <<flag, thread, request, doubled>>
      /\ \/ row' = [row EXCEPT ![t] = "done"] /\ pool' = pool
         \/ row' = [row EXCEPT ![t] = "queued"] /\ pool' = Append(pool, t)
  BY DEF Create, NoRequest
<1>2. /\ Range(pool') \subseteq Range(pool) \cup {t} /\ Range(pool) \subseteq Range(pool')
      /\ (row'[t] = "queued" => t \in Range(pool'))
      /\ \A u : u # t /\ Once(pool, u) => Once(pool', u)
      /\ (t \notin Range(pool) /\ Once(pool, t) => Once(pool', t))
      /\ row'[t] \in {"done", "queued"} /\ \A u \in Tasks : u # t => row'[u] = row[u]
  <2>1. CASE row' = [row EXCEPT ![t] = "done"] /\ pool' = pool
    BY <2>1 DEF TypeOK
  <2>2. CASE row' = [row EXCEPT ![t] = "queued"] /\ pool' = Append(pool, t)
    <3>1. /\ Range(pool') = Range(pool) \cup {t}
          /\ \A u : u # t /\ Once(pool, u) => Once(pool', u)
          /\ t \notin Range(pool) => Once(pool', t)
      BY <2>2, Types, Appended
    <3>2. row'[t] = "queued" /\ \A u \in Tasks : u # t => row'[u] = row[u]
      BY <2>2 DEF TypeOK
    <3> QED
      BY <3>1, <3>2
  <2> QED
    BY <1>1, <2>1, <2>2
<1>3. t \notin Range(pool) /\ t \notin flag /\ \A k \in Threads : thread[k].task # t
  BY <1>1 DEF Control, Fresh
<1>4. ASSUME NEW u \in Tasks PROVE Fresh(u)' /\ Solo(u)'
  BY <1>1, <1>2, <1>3, <1>4 DEF Control, Fresh, Solo
<1>5. ASSUME NEW u \in Tasks PROVE Watched(u)' /\ Stops(u)'
  <2>1. CASE u = t
    BY <1>1, <1>2, <1>3, <2>1 DEF Watched, Stops
  <2>2. CASE u # t
    BY <1>1, <1>2, <1>5, <2>2, RunsSame DEF Control, Watched, Stops
  <2> QED
    BY <2>1, <2>2
<1>6. RequestOK'
  BY <1>1 DEF Control, RequestOK
<1> QED
  BY <1>1, <1>4, <1>5, <1>6, RunsSame DEF Control

(* A cancel or a retry of t is asked for.                                  *)
LEMMA ControlAsked ==
  ASSUME ImportsAssumption, TypeOK, Control, NEW t \in Tasks, Cancel(t) \/ Retry(t)
  PROVE  Control'
<1>1. /\ request = NoRequest /\ request.at = "none" /\ row[t] \notin {"none", "canceling"}
      /\ request'.at \in {"flag", "discard"} /\ request'.task = t
      /\ UNCHANGED <<row, flag, pool, thread, doubled>>
  BY DEF Cancel, Retry, NoRequest, Retryable
<1>2. ASSUME NEW u \in Tasks PROVE Fresh(u)' /\ Solo(u)'
  BY <1>1, <1>2 DEF Control, Fresh, Solo
<1>3. ASSUME NEW u \in Tasks PROVE Watched(u)' /\ Stops(u)'
  BY <1>1, <1>3, RunsSame DEF Control, Watched, Stops
<1>4. RequestOK'
  BY <1>1 DEF Control, RequestOK
<1> QED
  BY <1>1, <1>2, <1>3, <1>4, RunsSame DEF Control

LEMMA ControlFlag ==
  ASSUME ImportsAssumption, TypeOK, Control, CancelFlag \/ RetryFlag
  PROVE  Control'
<1> DEFINE t == request.task
<1>1. /\ \/ request.at = "flag" /\ request'.at = "cancel" /\ flag' = flag \cup {t}
         \/ request.at = "discard" /\ request'.at = "queue" /\ flag' = flag \ {t}
      /\ request'.task = t /\ UNCHANGED <<row, pool, thread, doubled>>
  BY DEF CancelFlag, RetryFlag, TypeOK
<1>2. t \in Tasks /\ (request.at = "discard" => row[t] # "canceling")
  BY <1>1 DEF Control, RequestOK
<1>3. ASSUME NEW u \in Tasks PROVE Fresh(u)' /\ Solo(u)'
  BY <1>1, <1>3 DEF Control, Fresh, Solo
<1>4. ASSUME NEW u \in Tasks PROVE Watched(u)' /\ Stops(u)'
  <2>1. CASE u = t
    BY <1>1, <1>2, <1>4, <2>1, RunsSame DEF Control, Watched, Stops
  <2>2. CASE u # t
    BY <1>1, <1>4, <2>2, RunsSame DEF Control, Watched, Stops
  <2> QED
    BY <2>1, <2>2
<1>5. RequestOK'
  BY <1>1, <1>2 DEF Control, RequestOK
<1> QED
  BY <1>1, <1>3, <1>4, <1>5, RunsSame DEF Control

LEMMA ControlRow ==
  ASSUME ImportsAssumption, TypeOK, Control, CancelRow \/ RetryRow
  PROVE  Control'
<1> DEFINE t == request.task
<1>1. /\ \/ request.at = "cancel" /\ request' = NoRequest /\ row'[t] \in {"canceled", "canceling"}
         \/ request.at = "queue" /\ request'.at = "submit" /\ request'.task = t /\ row'[t] = "queued"
      /\ t \in Tasks /\ \A u \in Tasks : u # t => row'[u] = row[u]
      /\ UNCHANGED <<flag, pool, thread, doubled>>
  BY DEF CancelRow, RetryRow, TypeOK, Control, RequestOK
<1>2. NoRequest.at = "none" /\ NoRequest.task \notin Tasks
  BY DEF NoRequest, ImportsAssumption
<1>3. ASSUME NEW u \in Tasks PROVE Fresh(u)' /\ Solo(u)'
  BY <1>1, <1>2, <1>3 DEF Control, Fresh, Solo
<1>4. ASSUME NEW u \in Tasks PROVE Watched(u)' /\ Stops(u)'
  <2>1. CASE u = t
    <3>1. Watched(u)'
      BY <1>1, <2>1 DEF Control, Watched, RequestOK
    <3>2. \A k \in Threads : Parked(k) => thread[k].at \notin {"open", "load"}
      BY DEF Parked, At
    <3>3. Stops(u)'
      BY <1>1, <1>2, <1>4, <2>1, <3>2, RunsSame DEF Control, Stops
    <3> QED
      BY <3>1, <3>3
  <2>2. CASE u # t
    BY <1>1, <1>2, <1>4, <2>2, RunsSame DEF Control, Watched, Stops
  <2> QED
    BY <2>1, <2>2
<1>5. RequestOK'
  BY <1>1, <1>2 DEF Control, RequestOK
<1> QED
  BY <1>1, <1>3, <1>4, <1>5, RunsSame DEF Control

LEMMA ControlSubmit ==
  ASSUME ImportsAssumption, TypeOK, Control, RetrySubmit
  PROVE  Control'
<1> DEFINE t == request.task
<1>1. /\ request.at = "submit" /\ pool' = Append(pool, t) /\ request' = NoRequest /\ t \in Tasks
      /\ doubled' = (IF HasRun(t) THEN doubled \cup {t} ELSE doubled) /\ t \notin flag
      /\ UNCHANGED <<row, flag, thread>>
  BY DEF RetrySubmit, Control, RequestOK
<1>2. NoRequest.at = "none" /\ NoRequest.task \notin Tasks
  BY DEF NoRequest, ImportsAssumption
<1>3. /\ Range(pool') = Range(pool) \cup {t}
      /\ \A u : u # t /\ Once(pool, u) => Once(pool', u)
      /\ t \notin Range(pool) => Once(pool', t)
  BY <1>1, Types, Appended
<1>4. t \notin doubled' => t \notin Range(pool) /\ \A k \in Threads : thread[k].task # t
  BY <1>1 DEF HasRun
<1>5. doubled \subseteq doubled' /\ \A u \in doubled' : u # t => u \in doubled
  BY <1>1
<1>6. ASSUME NEW u \in Tasks PROVE Fresh(u)' /\ Solo(u)'
  BY <1>1, <1>2, <1>3, <1>4, <1>5, <1>6 DEF Control, Fresh, Solo
<1>7. ASSUME NEW u \in Tasks PROVE Watched(u)' /\ Stops(u)'
  <2>1. Watched(u)'
    BY <1>1, <1>2, <1>3, <1>7, RunsSame DEF Control, Watched
  <2>2. Stops(u)'
    BY <1>1, <1>2, <1>5, <1>7, RunsSame DEF Control, Stops
  <2> QED
    BY <2>1, <2>2
<1>8. RequestOK'
  BY <1>1, <1>2 DEF RequestOK
<1> QED
  BY <1>1, <1>6, <1>7, <1>8, RunsSame DEF Control

LEMMA ControlRestart ==
  ASSUME ImportsAssumption, TypeOK, Control, Restart
  PROVE  Control'
<1>1. /\ row' = [t \in Tasks |-> Recovered(row[t])] /\ flag' = {} /\ pool' = <<>>
      /\ thread' = [k \in Threads |-> Idle] /\ request' = NoRequest /\ doubled' = doubled
  BY DEF Restart
<1>2. /\ Idle.at = "idle" /\ Idle.task = None /\ Idle.inode = 0 /\ None \notin Tasks
      /\ NoRequest.at = "none" /\ NoRequest.task \notin Tasks
  BY IdleRun DEF ImportsAssumption, NoRequest
<1>3. Range(pool') = {} /\ \A u : Once(pool', u)
  BY <1>1 DEF Range, Once
<1>4. \A t \in Tasks : row'[t] \notin {"queued", "running", "canceling"}
  BY <1>1 DEF Recovered
<1>5. \A k \in Threads : RunOK(k)'
  BY <1>1, <1>2 DEF RunOK, At
<1>6. \A t \in Tasks : Fresh(t)' /\ Solo(t)' /\ Watched(t)' /\ Stops(t)'
  BY <1>1, <1>2, <1>3, <1>4 DEF Fresh, Solo, Watched, Stops
<1>7. RequestOK'
  BY <1>1, <1>2 DEF RequestOK
<1> QED
  BY <1>5, <1>6, <1>7 DEF Control

-----------------------------------------------------------------------------
(* The steps of a run between its open and its answer.                     *)

Middle(k) ==
  \/ OpenFails(k) \/ OpenAnew(k) \/ OpenResumed(k) \/ Load(k) \/ LoadFails(k)
  \/ Measure(k) \/ Hash(k) \/ Vet(k) \/ VetRefuses(k) \/ Place(k) \/ Register(k) \/ Drop(k)

(* What such a step makes of its run.                                      *)
Goal(k, r) ==
  /\ r \in Runs /\ r.task = thread[k].task
  /\ r.at \notin {"idle", "begin"}
  /\ r.at \in {"open", "load"} => thread[k].at \in {"open", "load"}
  /\ r.inode # 0 => r.at = "load"
  /\ r.at \in {"drop", "record", "discard"} => r.outcome # "none"
  /\ r.at = "discard" => r.outcome = "done"

LEMMA EndsGoal ==
  ASSUME ImportsAssumption, TypeOK, NEW k \in Threads, NEW step, NEW o, End(k, step, o),
         \/ step \in {"drop", "record"} /\ o \in {"done", "failed", "canceled"}
         \/ step = "size" /\ o = "none"
  PROVE  LET r == Ends(thread[k], step, o)
         IN  Goal(k, r) /\ thread' = [thread EXCEPT ![k] = r]
<1> DEFINE r == Ends(thread[k], step, o)
<1>1. r \in Runs /\ r.at = step /\ r.task = thread[k].task /\ r.inode = 0 /\ r.outcome = o
  BY EndsRun, Types DEF Steps
<1>2. thread' = [thread EXCEPT ![k] = r]
  BY GoIs
<1> HIDE DEF r
<1>3. Goal(k, r)
  BY <1>1 DEF Goal
<1> QED
  BY <1>2, <1>3 DEF r

LEMMA GoesGoal ==
  ASSUME ImportsAssumption, TypeOK, Control, NEW k \in Threads, NEW step, Go(k, step),
         thread[k].at \notin {"load", "idle"},
         \/ step \in {"size", "hash", "vet", "place", "register"}
         \/ step \in {"record", "discard"} /\ thread[k].outcome # "none"
            /\ (step = "discard" => thread[k].outcome = "done")
  PROVE  LET r == Goes(thread[k], step)
         IN  Goal(k, r) /\ thread' = [thread EXCEPT ![k] = r]
<1> DEFINE r == Goes(thread[k], step)
<1>1. /\ r \in Runs /\ r.at = step /\ r.task = thread[k].task /\ r.inode = thread[k].inode
      /\ r.outcome = thread[k].outcome
  BY GoesRun, Types DEF Steps
<1>2. thread' = [thread EXCEPT ![k] = r]
  BY GoIs
<1>3. thread[k].inode = 0
  BY DEF Control, RunOK, At
<1> HIDE DEF r
<1>4. Goal(k, r)
  BY <1>1, <1>3 DEF Goal
<1> QED
  BY <1>2, <1>4 DEF r

(* The records that are not made with Goes or Ends.                        *)
Loads(r, i, append, pos) ==
  [r EXCEPT !.at = "load", !.inode = i, !.append = append, !.pos = pos]
Places(r, l) == [r EXCEPT !.at = "place", !.target = l]

LEMMA LoadsGoal ==
  ASSUME ImportsAssumption, TypeOK, NEW k \in Threads, thread[k].at \in {"open", "load"},
         NEW i \in Inodes, NEW append \in BOOLEAN, NEW pos \in 0 .. Whole - 1
  PROVE  LET r == Loads(thread[k], i, append, pos)
         IN  Goal(k, r) /\ r.at = "load" /\ r.inode = i
<1>1. thread[k] \in Runs
  BY Types
<1> QED
  BY <1>1 DEF Loads, Goal, Runs, Steps

LEMMA PlacesGoal ==
  ASSUME ImportsAssumption, TypeOK, Control, NEW k \in Threads, thread[k].at = "vet",
         NEW l \in Locations
  PROVE  LET r == Places(thread[k], l)
         IN  Goal(k, r) /\ r.at = "place" /\ r.target = l
<1>1. thread[k] \in Runs /\ thread[k].inode = 0
  BY Types DEF Control, RunOK, At
<1> QED
  BY <1>1 DEF Places, Goal, Runs, Steps

LEMMA Targets ==
  ASSUME ImportsAssumption, NEW t \in Tasks
  PROVE  /\ Target(t) \in Locations /\ Target(t) \in Aims(t) /\ Aims(t) \subseteq Locations
         /\ \A l \in Aims(t) : l[2] = None \/ l[2] = ContentOf[t]
         /\ NameOf[t] \in Names /\ ContentOf[t] \in Contents /\ ContentOf[t] # None
BY DEF ImportsAssumption, Target, Aims, Locations

(* A run is of an import.                                                  *)
LEMMA OfTask ==
  ASSUME ImportsAssumption, TypeOK, Control, NEW k \in Threads, ~At(k, "idle")
  PROVE  thread[k].task \in Tasks
BY Types DEF Control, RunOK

LEMMA Loaded ==
  ASSUME ImportsAssumption, TypeOK, Control, NEW k \in Threads, Load(k)
  PROVE  \/ thread[k].task \in flag /\ End(k, "drop", "canceled") /\ UNCHANGED bytes
         \/ /\ bytes' = [bytes EXCEPT ![thread[k].inode] =
                           Written(bytes[thread[k].inode], thread[k].pos, thread[k].append)]
            /\ \/ /\ thread[k].pos + 1 < Whole
                  /\ thread' = [thread EXCEPT ![k].pos = thread[k].pos + 1]
               \/ End(k, "size", "none")
BY DEF Load, TypeOK

LEMMA MiddleRun ==
  ASSUME ImportsAssumption, TypeOK, Control, NEW k \in Threads, Middle(k)
  PROVE  /\ UNCHANGED <<row, flag, pool, request, requests, crashes, doubled>>
         /\ thread[k].at \notin {"idle", "begin", "record", "discard"}
         /\ \E r : Goal(k, r) /\ thread' = [thread EXCEPT ![k] = r]
<1>1. /\ UNCHANGED <<row, flag, pool, request, requests, crashes, doubled>>
      /\ thread[k].at \notin {"idle", "begin", "record", "discard"}
  BY DEF Middle, OpenFails, OpenAnew, OpenResumed, Load, LoadFails, Measure, Hash, Vet, VetRefuses,
         Place, Register, Drop, At
<1>2. thread[k].task \in Tasks /\ thread[k] \in Runs
  BY <1>1, OfTask, Types DEF At
<1>3. CASE OpenFails(k) \/ LoadFails(k) \/ VetRefuses(k) \/ Register(k)
  <2>1. End(k, "record", "failed") \/ End(k, "drop", "failed") \/ End(k, "drop", "done")
    BY <1>3 DEF OpenFails, LoadFails, VetRefuses, Register
  <2> QED
    BY <1>1, <2>1, EndsGoal
<1>4. CASE OpenAnew(k)
  <2> DEFINE t == thread[k].task
             i == IF part[t] = 0 THEN FreeInode ELSE part[t]
             r == Loads(thread[k], i, thread[k].append, thread[k].pos)
  <2>1. i \in Inodes
    BY <1>2, InodeLeft DEF TypeOK
  <2>2. thread[k].at = "open" /\ thread' = [thread EXCEPT ![k].at = "load", ![k].inode = i]
    BY <1>4 DEF OpenAnew, At
  <2>3. thread[k].append \in BOOLEAN /\ thread[k].pos \in 0 .. Whole - 1
    BY Types
  <2> HIDE DEF i
  <2>4. Goal(k, r)
    BY <2>1, <2>2, <2>3, LoadsGoal
  <2>5. thread' = [thread EXCEPT ![k] = r]
    BY <1>2, <2>2 DEF Loads, Runs
  <2> QED
    BY <1>1, <2>4, <2>5
<1>5. CASE OpenResumed(k)
  <2> DEFINE i == part[thread[k].task]
             n == bytes[i].n
             r == Loads(thread[k], i, TRUE, n)
  <2>1. thread[k].at = "open" /\ i # 0
        /\ \/ n < Whole /\ thread' = [thread EXCEPT ![k].at = "load", ![k].inode = i,
                                                   ![k].append = TRUE, ![k].pos = n]
           \/ Go(k, "size")
    BY <1>5 DEF OpenResumed, At
  <2>2. i \in Inodes /\ n \in Nat
    BY <1>2, <2>1 DEF TypeOK
  <2>3. CASE Go(k, "size")
    BY <1>1, <2>1, <2>3, GoesGoal
  <2>4. CASE n < Whole /\ thread' = [thread EXCEPT ![k].at = "load", ![k].inode = i,
                                                   ![k].append = TRUE, ![k].pos = n]
    <3>1. n \in 0 .. Whole - 1
      BY <2>2, <2>4, Types
    <3> HIDE DEF i, n
    <3>2. Goal(k, r)
      BY <2>1, <2>2, <3>1, LoadsGoal
    <3>3. thread' = [thread EXCEPT ![k] = r]
      BY <2>4 DEF Loads
    <3> QED
      BY <1>1, <3>2, <3>3
  <2> QED
    BY <2>1, <2>3, <2>4
<1>6. CASE Load(k)
  <2>1. CASE End(k, "drop", "canceled") \/ End(k, "size", "none")
    BY <1>1, <2>1, EndsGoal
  <2>2. CASE thread[k].pos + 1 < Whole /\ thread' = [thread EXCEPT ![k].pos = thread[k].pos + 1]
    <3> DEFINE r == [thread[k] EXCEPT !.pos = thread[k].pos + 1]
    <3>1. thread[k].pos + 1 \in 0 .. Whole - 1 /\ thread[k].at = "load"
      BY <1>6, <2>2, Types DEF Load, At
    <3>2. Goal(k, r)
      BY <1>2, <3>1 DEF Goal, Runs
    <3>3. thread' = [thread EXCEPT ![k] = r]
      BY <2>2
    <3> QED
      BY <1>1, <3>2, <3>3
  <2> QED
    BY <1>6, <2>1, <2>2, Loaded
<1>7. CASE Measure(k) \/ Hash(k)
  <2>1. /\ thread[k].at \in {"size", "hash"}
        /\ \/ Go(k, "hash") \/ Go(k, "vet") \/ End(k, "record", "failed") \/ End(k, "drop", "failed")
    BY <1>7 DEF Measure, Hash, At
  <2> QED
    BY <1>1, <2>1, GoesGoal, EndsGoal
<1>8. CASE Vet(k)
  <2> DEFINE l == Target(thread[k].task)
             r == Places(thread[k], l)
  <2>1. /\ thread[k].at = "vet"
        /\ \/ End(k, "record", "failed") \/ End(k, "drop", "done")
           \/ thread' = [thread EXCEPT ![k].at = "place", ![k].target = l]
    BY <1>8 DEF Vet, At, Aim
  <2>2. l \in Locations
    BY <1>2, Targets
  <2> HIDE DEF l
  <2>3. Goal(k, r) /\ (thread' = [thread EXCEPT ![k].at = "place", ![k].target = l]
                         => thread' = [thread EXCEPT ![k] = r])
    BY <2>1, <2>2, PlacesGoal DEF Places
  <2> QED
    BY <1>1, <2>1, <2>3, EndsGoal
<1>9. CASE Place(k)
  <2>1. thread[k].at = "place" /\ (End(k, "record", "failed") \/ Go(k, "register"))
    BY <1>9 DEF Place, At
  <2> QED
    BY <1>1, <2>1, GoesGoal, EndsGoal
<1>10. CASE Drop(k)
  <2>1. /\ thread[k].at = "drop" /\ thread[k].outcome # "none"
        /\ \/ Go(k, "discard") /\ thread[k].outcome = "done"
           \/ Go(k, "record")
    BY <1>10 DEF Drop, At, Control, RunOK
  <2> QED
    BY <1>1, <2>1, GoesGoal
<1> QED
  BY <1>1, <1>3, <1>4, <1>5, <1>6, <1>7, <1>8, <1>9, <1>10 DEF Middle

LEMMA ControlNext ==
  ASSUME ImportsAssumption, TypeOK, Control, [Next]_vars
  PROVE  Control'
<1>1. CASE UNCHANGED vars
  <2>1. UNCHANGED <<row, flag, pool, thread, request, doubled>>
    BY <1>1 DEF vars
  <2>2. \A k \in Threads : RunOK(k)'
    BY <2>1, RunsSame
  <2>3. \A t \in Tasks : Fresh(t)' /\ Solo(t)' /\ Watched(t)' /\ Stops(t)'
    BY <2>1 DEF Control, Fresh, Solo, Watched, Stops, Going, Parked, At
  <2> QED
    BY <2>1, <2>2, <2>3 DEF Control, RequestOK
<1>2. ASSUME NEW k \in Threads, Middle(k) PROVE Control'
  <2>1. PICK r : Goal(k, r) /\ thread' = [thread EXCEPT ![k] = r]
    BY <1>2, MiddleRun
  <2>2. /\ UNCHANGED <<row, flag, pool, request, doubled>>
        /\ thread[k].at \notin {"idle", "begin", "record", "discard"}
    BY <1>2, MiddleRun
  <2> QED
    BY <2>1, <2>2, ControlKeeps DEF Goal
<1>3. ASSUME NEW k \in Threads, Run(k) PROVE Control'
  BY <1>2, <1>3, ControlPick, ControlBegin, ControlRecord, ControlDiscard DEF Run, Middle
<1> QED
  BY <1>1, <1>3, ControlCreate, ControlAsked, ControlFlag, ControlRow, ControlSubmit, ControlRestart
     DEF Next, Answer

-----------------------------------------------------------------------------
(* Types.                                                                  *)

LEMMA TypeKeeps ==
  ASSUME ImportsAssumption, TypeOK, Control, [Next]_vars
  PROVE  TypeOK'
<1>1. CASE UNCHANGED vars
  BY <1>1 DEF vars, disk, TypeOK
<1>2. ASSUME NEW t \in Tasks, Create(t) \/ Cancel(t) \/ Retry(t) PROVE TypeOK'
  <2>1. row \in [Tasks -> States] /\ pool \in Seq(Tasks) /\ requests \in 0 .. MaxRequests
        /\ MaxRequests \in Nat /\ t \in Tasks
    BY <1>2 DEF TypeOK, ImportsAssumption
  <2>2. CASE Create(t)
    <3>1. row' \in [Tasks -> States]
      BY <2>1, <2>2 DEF Create, States
    <3>2. pool' \in Seq(Tasks)
      BY <2>1, <2>2, Appended DEF Create
    <3> QED
      BY <2>2, <3>1, <3>2 DEF Create, TypeOK, disk
  <2>3. CASE Cancel(t) \/ Retry(t)
    <3>1. requests' \in 0 .. MaxRequests /\ row[t] \in States
      BY <2>1, <2>3 DEF Cancel, Retry
    <3> QED
      BY <2>1, <2>3, <3>1 DEF Cancel, Retry, TypeOK, disk
  <2> QED
    BY <1>2, <2>2, <2>3
<1>3. CASE Answer
  <2>1. request.at # "none" => request.task \in Tasks
    BY DEF Control, RequestOK
  <2>2. NoRequest \in [at: {"none", "flag", "cancel", "discard", "queue", "submit"},
                       task: Tasks \cup {None}, seen: States]
    BY DEF NoRequest, States
  <2>3. CASE CancelFlag
    BY <2>1, <2>3 DEF CancelFlag, TypeOK, disk
  <2>4. CASE CancelRow
    BY <2>2, <2>4 DEF CancelRow, TypeOK, disk, States
  <2>5. CASE RetryFlag
    BY <2>5 DEF RetryFlag, TypeOK, disk
  <2>6. CASE RetryRow
    BY <2>6 DEF RetryRow, TypeOK, disk, States
  <2>7. CASE RetrySubmit
    <3>1. pool' \in Seq(Tasks) /\ doubled' \subseteq Tasks
      BY <2>1, <2>7, Appended DEF RetrySubmit, TypeOK
    <3> QED
      BY <2>2, <2>7, <3>1 DEF RetrySubmit, TypeOK, disk
  <2> QED
    BY <1>3, <2>3, <2>4, <2>5, <2>6, <2>7 DEF Answer
<1>4. ASSUME NEW k \in Threads, Middle(k) PROVE TypeOK'
  <2>1. PICK r : Goal(k, r) /\ thread' = [thread EXCEPT ![k] = r]
    BY <1>4, MiddleRun
  <2>2. /\ UNCHANGED <<row, flag, pool, request, requests, crashes, doubled>>
        /\ thread[k].at \notin {"idle", "begin", "record", "discard"}
    BY <1>4, MiddleRun
  <2>3. thread' \in [Threads -> Runs]
    BY <2>1, Types DEF Goal
  <2>4. thread[k].task \in Tasks /\ thread[k].inode \in Inodes \cup {0}
        /\ thread[k].target \in Locations \cup {None}
    BY <2>2, OfTask, Types DEF At
  <2>5. part' \in [Tasks -> Inodes \cup {0}]
    <3>1. CASE OpenAnew(k)
      <4> DEFINE i == IF part[thread[k].task] = 0 THEN FreeInode ELSE part[thread[k].task]
      <4>1. i \in Inodes
        BY <2>4, InodeLeft DEF TypeOK
      <4>2. part' = [part EXCEPT ![thread[k].task] = i]
        BY <3>1 DEF OpenAnew
      <4> HIDE DEF i
      <4> QED
        BY <4>1, <4>2 DEF TypeOK
    <3>2. CASE ~OpenAnew(k)
      <4>1. part' = part \/ part' = [part EXCEPT ![thread[k].task] = 0]
        BY <1>4, <3>2 DEF Middle, OpenFails, OpenResumed, Load, LoadFails, Measure, Hash, Vet,
                          VetRefuses, Place, Register, Drop, disk
      <4> QED
        BY <4>1 DEF TypeOK
    <3> QED
      BY <3>1, <3>2
  <2>6. bytes' \in [Inodes -> [n: Nat, ok: BOOLEAN, of: Contents \cup {None}]]
    <3>1. CASE OpenAnew(k)
      <4>1. [n |-> 0, ok |-> TRUE, of |-> ContentOf[thread[k].task]]
              \in [n: Nat, ok: BOOLEAN, of: Contents \cup {None}]
        BY <2>4, Targets
      <4> QED
        BY <3>1, <4>1 DEF OpenAnew, TypeOK
    <3>2. CASE Load(k)
      <4>1. ASSUME NEW b \in [n: Nat, ok: BOOLEAN, of: Contents \cup {None}], NEW pos \in Nat,
                   NEW append \in BOOLEAN
            PROVE  Written(b, pos, append) \in [n: Nat, ok: BOOLEAN, of: Contents \cup {None}]
        <5>1. \A x \in Nat, y \in BOOLEAN :
                [b EXCEPT !.n = x, !.ok = y] \in [n: Nat, ok: BOOLEAN, of: Contents \cup {None}]
          OBVIOUS
        <5>2. b.n + 1 \in Nat /\ pos + 1 \in Nat /\ b.n \in Nat
          OBVIOUS
        <5>3. (b.ok /\ b.n = pos) \in BOOLEAN /\ (b.ok /\ pos <= b.n) \in BOOLEAN
          BY Zenon
        <5>4. (IF pos < b.n THEN b.n ELSE pos + 1) \in Nat
          OBVIOUS
        <5>5. Written(b, pos, append) =
                IF append THEN [b EXCEPT !.n = b.n + 1, !.ok = (b.ok /\ b.n = pos)]
                ELSE [b EXCEPT !.n = (IF pos < b.n THEN b.n ELSE pos + 1), !.ok = (b.ok /\ pos <= b.n)]
          BY DEF Written
        <5> QED
          BY <5>1, <5>2, <5>3, <5>4, <5>5
      <4>2. CASE thread[k].inode = 0
        BY <3>2, <4>2, Types, Loaded DEF TypeOK
      <4>3. CASE thread[k].inode \in Inodes
        <5> DEFINE b == bytes[thread[k].inode]
                   w == Written(b, thread[k].pos, thread[k].append)
        <5>1. b \in [n: Nat, ok: BOOLEAN, of: Contents \cup {None}]
          BY <4>3 DEF TypeOK
        <5>2. thread[k].pos \in Nat /\ thread[k].append \in BOOLEAN
          BY Types
        <5>3. w \in [n: Nat, ok: BOOLEAN, of: Contents \cup {None}]
          BY <4>1, <5>1, <5>2
        <5>4. bytes' = bytes \/ bytes' = [bytes EXCEPT ![thread[k].inode] = w]
          BY <3>2, Loaded
        <5> HIDE DEF w
        <5> QED
          BY <5>3, <5>4 DEF TypeOK
      <4> QED
        BY <2>4, <4>2, <4>3
    <3>3. CASE ~OpenAnew(k) /\ ~Load(k)
      <4>1. bytes' = bytes
        BY <1>4, <3>3 DEF Middle, OpenFails, OpenResumed, LoadFails, Measure, Hash, Vet,
                          VetRefuses, Place, Register, Drop, disk
      <4> QED
        BY <4>1 DEF TypeOK
    <3> QED
      BY <3>1, <3>2, <3>3
  <2>7. file' \in [Locations -> Inodes \cup {0}]
    <3>1. file' = file \/ file' = [file EXCEPT ![thread[k].target] = part[thread[k].task]]
      BY <1>4 DEF Middle, OpenFails, OpenAnew, OpenResumed, Load, LoadFails, Measure, Hash, Vet,
                  VetRefuses, Place, Register, Drop, disk
    <3>2. part[thread[k].task] \in Inodes \cup {0}
      BY <2>4 DEF TypeOK
    <3> QED
      BY <3>1, <3>2 DEF TypeOK
  <2>8. install' \in [Locations -> Contents \cup {None}]
    <3>1. install' = install \/ install' = [install EXCEPT ![thread[k].target] = ContentOf[thread[k].task]]
      BY <1>4 DEF Middle, OpenFails, OpenAnew, OpenResumed, Load, LoadFails, Measure, Hash, Vet,
                  VetRefuses, Place, Register, Drop, disk
    <3>2. ContentOf[thread[k].task] \in Contents
      BY <2>4, Targets
    <3> QED
      BY <3>1, <3>2 DEF TypeOK
  <2>9. clashed' \subseteq Locations \X (Contents \cup {None})
    <3>1. CASE Vet(k)
      <4>1. PICK t \in Tasks, l \in Locations : t = thread[k].task /\ l = Target(t)
        BY <2>4, Targets
      <4>2. clashed' = clashed \/ clashed' = clashed \cup Clash(t, l)
        BY <3>1, <4>1 DEF Vet, Aim
      <4>3. ASSUME NEW m \in Threads, At(m, "place") PROVE ContentOf[thread[m].task] \in Contents
        BY <4>3, OfTask, Targets DEF At
      <4>4. Clash(t, l) \subseteq Locations \X (Contents \cup {None})
        <5> DEFINE met == {ContentOf[thread[m].task] :
                             m \in {m \in Threads : At(m, "place") /\ thread[m].target = l}}
        <5>1. met \cup {ContentOf[t]} \subseteq Contents
          BY <4>3, Targets
        <5>2. Clash(t, l) = {} \/ Clash(t, l) = {l} \X (met \cup {ContentOf[t]})
          BY DEF Clash
        <5> HIDE DEF met
        <5> QED
          BY <5>1, <5>2
      <4> QED
        BY <4>2, <4>4 DEF TypeOK
    <3>2. CASE ~Vet(k)
      <4>1. clashed' = clashed
        BY <1>4, <3>2 DEF Middle, OpenFails, OpenAnew, OpenResumed, Load, LoadFails, Measure, Hash,
                          VetRefuses, Place, Register, Drop
      <4> QED
        BY <4>1 DEF TypeOK
    <3> QED
      BY <3>1, <3>2
  <2> QED
    BY <2>2, <2>3, <2>5, <2>6, <2>7, <2>8, <2>9 DEF TypeOK, Runs, Steps
<1>5. ASSUME NEW k \in Threads, Pick(k) \/ Begin(k) \/ Record(k) \/ Discard(k) PROVE TypeOK'
  <2>1. thread' \in [Threads -> Runs]
    <3>1. thread \in [Threads -> Runs] /\ thread[k] \in Runs /\ Idle \in Runs
      BY Types, IdleRun
    <3>2. CASE Pick(k)
      <4>1. Head(pool) \in Tasks
        BY <3>2, Types, Taken DEF Pick
      <4>2. [Idle EXCEPT !.at = "begin", !.task = Head(pool)] \in Runs
        BY <3>1, <4>1 DEF Idle, Runs, Steps
      <4>3. thread' = thread
            \/ thread' = [thread EXCEPT ![k] = [Idle EXCEPT !.at = "begin", !.task = Head(pool)]]
        BY <3>2 DEF Pick
      <4> QED
        BY <3>1, <4>2, <4>3
    <3>3. CASE ~Pick(k)
      <4>1. \/ Go(k, "open") \/ Go(k, "discard") \/ Go(k, "record")
            \/ thread' = [thread EXCEPT ![k] = Idle]
        BY <1>5, <3>3 DEF Begin, Record, Discard
      <4>2. \A step \in Steps : Goes(thread[k], step) \in Runs
        BY <3>1, GoesRun
      <4>3. \A step \in Steps : Go(k, step) => thread' = [thread EXCEPT ![k] = Goes(thread[k], step)]
        BY GoIs
      <4> QED
        BY <3>1, <4>1, <4>2, <4>3 DEF Steps
    <3> QED
      BY <3>2, <3>3
  <2>2. row' \in [Tasks -> States]
    <3>1. thread[k].outcome \in {"none", "done", "failed", "canceled"}
      BY Types
    <3>2. \/ row' = row \/ row' = [row EXCEPT ![thread[k].task] = "running"]
          \/ row' = [row EXCEPT ![thread[k].task] = thread[k].outcome]
      BY <1>5 DEF Pick, Begin, Record, Discard
    <3> QED
      BY <3>1, <3>2 DEF TypeOK, States
  <2>3. pool' \in Seq(Tasks) /\ flag' \subseteq Tasks
    <3>1. CASE Pick(k)
      BY <3>1, Types, Taken DEF Pick, TypeOK
    <3>2. CASE ~Pick(k)
      BY <1>5, <3>2 DEF Begin, Record, Discard, TypeOK
    <3> QED
      BY <3>1, <3>2
  <2>4. UNCHANGED <<request, disk, install, requests, crashes, doubled, clashed>>
    BY <1>5 DEF Pick, Begin, Record, Discard
  <2> QED
    BY <2>1, <2>2, <2>3, <2>4 DEF TypeOK, Runs, Steps, disk
<1>6. CASE Restart
  <2>1. row' \in [Tasks -> States]
    BY <1>6 DEF Restart, TypeOK, Recovered, States
  <2>2. thread' \in [Threads -> Runs]
    BY <1>6, IdleRun DEF Restart
  <2>3. crashes' \in 0 .. MaxCrashes
    BY <1>6 DEF Restart, TypeOK, ImportsAssumption
  <2>4. /\ flag' = {} /\ pool' \in Seq(Tasks) /\ request' = NoRequest
        /\ UNCHANGED <<disk, install, requests, doubled, clashed>>
    BY <1>6 DEF Restart
  <2> QED
    BY <2>1, <2>2, <2>3, <2>4 DEF TypeOK, Runs, Steps, disk, NoRequest, States
<1>7. ASSUME NEW k \in Threads, Run(k) PROVE TypeOK'
  BY <1>4, <1>5, <1>7 DEF Run, Middle
<1> QED
  BY <1>1, <1>2, <1>3, <1>6, <1>7 DEF Next

-----------------------------------------------------------------------------
(* Files.                                                                  *)

(* A step that leaves the disk and the record of what is installed alone.  *)
LEMMA FilesQuiet ==
  ASSUME Files, UNCHANGED <<disk, install>>, clashed \subseteq clashed',
         \A t \in Tasks : row'[t] = "done" => row[t] = "done" \/ Installed(t),
         \A k \in Threads : thread'[k] = thread[k] \/ KnownOK(k)'
  PROVE  Files'
<1>1. /\ part' = part /\ file' = file /\ bytes' = bytes /\ install' = install
      /\ \A l, c : Met(l, c) => Met(l, c)'
  BY DEF disk, Met
<1>2. ASSUME NEW t \in Tasks PROVE PartOK(t)' /\ (row'[t] = "done" => Installed(t)')
  BY <1>1, <1>2 DEF Files, PartOK, Installed
<1>3. ASSUME NEW l \in Locations PROVE InstallOK(l)'
  BY <1>1, <1>3 DEF Files, InstallOK, Holds
<1>4. ASSUME NEW k \in Threads, thread'[k] = thread[k] PROVE KnownOK(k)'
  <2>1. KnownOK(k)
    BY DEF Files
  <2>2. ASSUME NEW m \in Threads, At(k, "place") PROVE Rival(k, m)'
    <3>1. CASE thread'[m] = thread[m]
      <4>1. Rival(k, m)
        BY <2>1, <2>2 DEF KnownOK, At
      <4> QED
        BY <1>1, <1>4, <3>1, <4>1 DEF Rival, At
    <3>2. CASE KnownOK(m)'
      <4>1. At(m, "place")' => Rival(m, k)'
        BY <3>2 DEF KnownOK, At
      <4> QED
        BY <4>1 DEF Rival
    <3> QED
      BY <3>1, <3>2
  <2>3. \A l, c : (Fits(l, c) => Fits(l, c)') /\ (Placed(l, c) => Placed(l, c)')
    BY <1>1 DEF Fits, Placed, Holds
  <2>4. \A t : Installed(t) => Installed(t)'
    BY <1>1 DEF Installed
  <2> QED
    BY <1>1, <1>4, <2>1, <2>2, <2>3, <2>4 DEF KnownOK, At
<1> QED
  BY <1>2, <1>3, <1>4 DEF Files

(* A step of the one run of t, that touches no other import's part file.   *)
LEMMA FilesStep ==
  ASSUME ImportsAssumption, TypeOK, Control, Files, NEW t \in Tasks, t \notin doubled,
         NEW k \in Threads, thread[k].task = t,
         \A m \in Threads : m # k => thread'[m] = thread[m],
         row' = row,
         \A u \in Tasks : u # t => part'[u] = part[u],
         \A u \in Tasks : u # t /\ part[u] # 0 =>
           bytes'[part[u]] = bytes[part[u]] /\ \A l \in Locations : file'[l] # part[u],
         \A u \in Tasks : Installed(u) => Installed(u)',
         \A u \in Tasks, l \in Locations :
           Placed(l, ContentOf[u]) => Placed(l, ContentOf[u])',
         clashed' = clashed,
         \A m \in Threads, l \in Locations, c \in Contents :
           m # k /\ Aimed(m, l, c) => Fits(l, c)',
         PartOK(t)', \A l \in Locations : InstallOK(l)', KnownOK(k)'
  PROVE  Files'
<1>1. ASSUME NEW u \in Tasks, u # t PROVE PartOK(u)'
  <2>1. PartOK(u)
    BY DEF Files
  <2> QED
    BY <1>1, <2>1 DEF PartOK
<1>2. ASSUME NEW m \in Threads, m # k PROVE KnownOK(m)'
  <2> DEFINE u == thread[m].task
  <2>1. KnownOK(m) /\ thread'[m] = thread[m]
    BY <1>2 DEF Files
  <2>2. CASE At(m, "idle")
    BY <2>1, <2>2 DEF KnownOK, At
  <2>3. CASE ~At(m, "idle")
    <3>1. u \in Tasks /\ u # t /\ Aims(u) \subseteq Locations
      BY <1>2, <2>3, OfTask, Targets DEF Control, Solo
    <3>2. part'[u] = part[u] /\ (part[u] # 0 => bytes'[part[u]] = bytes[part[u]])
          /\ (Installed(u) => Installed(u)')
          /\ \A l \in Locations : Placed(l, ContentOf[u]) => Placed(l, ContentOf[u])'
      BY <3>1
    <3>3. ASSUME NEW j \in Threads, At(m, "place") PROVE Rival(m, j)'
      <4>1. CASE j = k
        <5>1. At(k, "place")' => Rival(k, m)'
          BY DEF KnownOK, At
        <5> QED
          BY <4>1, <5>1 DEF Rival
      <4>2. CASE j # k
        <5>1. Rival(m, j) /\ thread'[j] = thread[j]
          BY <2>1, <3>3, <4>2 DEF KnownOK, At
        <5> QED
          BY <2>1, <5>1 DEF Rival, At, Met
      <4> QED
        BY <4>1, <4>2
    <3>4. \A l \in Aims(u) : At(m, "place") /\ thread[m].target = l => Fits(l, ContentOf[u])'
      BY <1>2, <3>1, Targets DEF Aimed
    <3> QED
      BY <2>1, <3>1, <3>2, <3>3, <3>4 DEF KnownOK, At
  <2> QED
    BY <2>2, <2>3
<1>3. ASSUME NEW u \in Tasks PROVE row'[u] = "done" => Installed(u)'
  BY <1>3 DEF Files
<1> QED
  BY <1>1, <1>2, <1>3 DEF Files

(* A step that leaves the installed files alone leaves what is recorded.   *)
LEMMA InstallSame ==
  ASSUME ImportsAssumption, TypeOK, Control, Files, UNCHANGED <<file, install, clashed>>,
         \A l \in Locations : file[l] # 0 => bytes'[file[l]] = bytes[file[l]]
  PROVE  /\ \A l \in Locations : InstallOK(l)'
         /\ \A l \in Locations : \A c : Placed(l, c) => Placed(l, c)'
         /\ \A u \in Tasks : Installed(u) => Installed(u)'
         /\ \A m \in Threads, l \in Locations, c \in Contents : Aimed(m, l, c) => Fits(l, c)'
<1>1. /\ \A l \in Locations : InstallOK(l)'
      /\ \A l \in Locations : \A c : Placed(l, c) => Placed(l, c)'
      /\ \A l \in Locations : \A c : Fits(l, c) => Fits(l, c)'
      /\ \A u \in Tasks : Installed(u) => Installed(u)'
  BY DEF Files, InstallOK, Placed, Fits, Holds, Met, Installed
<1>2. ASSUME NEW m \in Threads, NEW l \in Locations, NEW c \in Contents, Aimed(m, l, c)
      PROVE  Fits(l, c)
  BY <1>2 DEF Files, KnownOK, Aimed, At
<1> QED
  BY <1>1, <1>2

LEMMA EndsTo ==
  ASSUME ImportsAssumption, TypeOK, NEW k \in Threads, NEW step \in Steps,
         NEW o \in {"none", "done", "failed", "canceled"}, End(k, step, o)
  PROVE  /\ \A m \in Threads : m # k => thread'[m] = thread[m]
         /\ thread'[k].at = step /\ thread'[k].task = thread[k].task /\ thread'[k].outcome = o
<1> DEFINE r == Ends(thread[k], step, o)
<1>1. r.at = step /\ r.task = thread[k].task /\ r.outcome = o
  BY EndsRun, Types
<1>2. thread' = [thread EXCEPT ![k] = r]
  BY GoIs
<1> HIDE DEF r
<1>3. \A m \in Threads : thread'[m] = IF m = k THEN r ELSE thread[m]
  BY <1>2, OneThread
<1> QED
  BY <1>1, <1>3

LEMMA GoesTo ==
  ASSUME ImportsAssumption, TypeOK, NEW k \in Threads, NEW step \in Steps, Go(k, step)
  PROVE  /\ \A m \in Threads : m # k => thread'[m] = thread[m]
         /\ thread'[k].at = step /\ thread'[k].task = thread[k].task
         /\ thread'[k].target = thread[k].target /\ thread'[k].outcome = thread[k].outcome
<1> DEFINE r == Goes(thread[k], step)
<1>1. /\ r.at = step /\ r.task = thread[k].task /\ r.target = thread[k].target
      /\ r.outcome = thread[k].outcome
  BY GoesRun, Types
<1>2. thread' = [thread EXCEPT ![k] = r]
  BY GoIs
<1> HIDE DEF r
<1>3. \A m \in Threads : thread'[m] = IF m = k THEN r ELSE thread[m]
  BY <1>2, OneThread
<1> QED
  BY <1>1, <1>3

LEMMA FilesOpenAnew ==
  ASSUME ImportsAssumption, TypeOK, Control, Files, doubled = {}, NEW k \in Threads, OpenAnew(k)
  PROVE  Files'
<1>0. PICK t \in Tasks : t = thread[k].task
  <2>1. At(k, "open")
    BY DEF OpenAnew
  <2> QED
    BY <2>1, OfTask DEF At
<1>1. PICK i :
        /\ t = thread[k].task /\ i = (IF part[t] = 0 THEN FreeInode ELSE part[t])
        /\ part' = [part EXCEPT ![t] = i]
        /\ bytes' = [bytes EXCEPT ![i] = [n |-> 0, ok |-> TRUE, of |-> ContentOf[t]]]
        /\ thread' = [thread EXCEPT ![k].at = "load", ![k].inode = i]
        /\ UNCHANGED <<row, file, install, clashed>>
  BY <1>0 DEF OpenAnew
<1>2. thread[k] \in Runs /\ thread \in [Threads -> Runs]
  BY Types
<1>3. /\ i \in Inodes /\ \A u \in Tasks : part[u] = i => u = t
      /\ \A l \in Locations : file[l] # i
  <2>1. CASE part[t] = 0
    <3>1. i \in Inodes /\ i \notin Range(part) /\ i \notin Range(file)
      BY <1>1, <2>1, InodeLeft
    <3> QED
      BY <3>1 DEF Range, TypeOK
  <2>2. CASE part[t] # 0
    <3>1. PartOK(t)
      BY DEF Files
    <3> QED
      BY <1>1, <2>2, <3>1 DEF PartOK, TypeOK
  <2> QED
    BY <2>1, <2>2
<1>4. /\ part'[t] = i /\ \A u \in Tasks : u # t => part'[u] = part[u]
      /\ bytes'[i].of = ContentOf[t] /\ \A j \in Inodes : j # i => bytes'[j] = bytes[j]
      /\ i # 0
  BY <1>1, <1>3, Types DEF TypeOK
<1>5. /\ \A m \in Threads : m # k => thread'[m] = thread[m]
      /\ thread'[k].at = "load" /\ thread'[k].inode = i /\ thread'[k].task = t
  BY <1>1, <1>2 DEF Runs
<1>6. /\ \A u \in Tasks : part[u] \in Inodes \cup {0}
      /\ \A l \in Locations : file[l] \in Inodes \cup {0}
  BY DEF TypeOK
<1>7. /\ \A l \in Locations : InstallOK(l)'
      /\ \A l \in Locations : \A c : Placed(l, c) => Placed(l, c)'
      /\ \A u \in Tasks : Installed(u) => Installed(u)'
      /\ \A m \in Threads, l \in Locations, c \in Contents : Aimed(m, l, c) => Fits(l, c)'
  <2>1. \A l \in Locations : file[l] # 0 => bytes'[file[l]] = bytes[file[l]]
    BY <1>3, <1>4, <1>6
  <2> QED
    BY <1>1, <2>1, InstallSame
<1>8. PartOK(t)'
  BY <1>1, <1>3, <1>4 DEF PartOK
<1>9. \A u \in Tasks : u # t /\ part[u] # 0 =>
        bytes'[part[u]] = bytes[part[u]] /\ \A l \in Locations : file'[l] # part[u]
  <2>1. \A u \in Tasks : PartOK(u)
    BY DEF Files
  <2> QED
    BY <1>1, <1>3, <1>4, <1>6, <2>1 DEF PartOK
<1>10. KnownOK(k)'
  BY <1>4, <1>5 DEF KnownOK
<1> QED
  BY <1>1, <1>4, <1>5, <1>7, <1>8, <1>9, <1>10, FilesStep

LEMMA FilesLoad ==
  ASSUME ImportsAssumption, TypeOK, Control, Files, doubled = {}, NEW k \in Threads, Load(k)
  PROVE  Files'
<1>1. At(k, "load") /\ UNCHANGED <<row, part, file, install, clashed>>
  BY DEF Load
<1>0. PICK t \in Tasks : t = thread[k].task
  BY <1>1, OfTask DEF At
<1>2. PICK i, w :
        t = thread[k].task /\ i = thread[k].inode /\ w = Written(bytes[i], thread[k].pos, thread[k].append)
  BY <1>0
<1>3. KnownOK(k) /\ PartOK(t)
  BY DEF Files
<1>4. i # 0 /\ i = part[t] /\ i \in Inodes
  BY <1>1, <1>2, <1>3 DEF KnownOK, At, TypeOK
<1>5. CASE End(k, "drop", "canceled") /\ UNCHANGED bytes
  <2>1. (\A m \in Threads : m # k => thread'[m] = thread[m]) /\ thread'[k].at = "drop"
        /\ thread'[k].outcome = "canceled"
    BY <1>5, EndsTo DEF Steps
  <2>2. KnownOK(k)'
    BY <2>1 DEF KnownOK
  <2> QED
    BY <1>1, <1>5, <2>1, <2>2, FilesQuiet DEF disk
<1>6. CASE bytes' = [bytes EXCEPT ![i] = w] /\ (\/ /\ thread[k].pos + 1 < Whole
                                                    /\ thread' = [thread EXCEPT ![k].pos = thread[k].pos + 1]
                                                 \/ End(k, "size", "none"))
  <2>1. /\ \A m \in Threads : m # k => thread'[m] = thread[m]
        /\ \/ thread'[k].at = "load" /\ thread'[k].inode = i /\ thread'[k].task = t
           \/ thread'[k].at = "size"
    <3>1. CASE End(k, "size", "none")
      BY <3>1, EndsTo DEF Steps
    <3>2. CASE thread' = [thread EXCEPT ![k].pos = thread[k].pos + 1]
      <4>1. thread \in [Threads -> Runs] /\ thread[k].at = "load" /\ thread[k] \in Runs
        BY <1>1, Types DEF At
      <4> QED
        BY <1>2, <3>2, <4>1 DEF Runs
    <3> QED
      BY <1>6, <3>1, <3>2
  <2>2. w.of = bytes[i].of
    <3>1. bytes[i] \in [n: Nat, ok: BOOLEAN, of: Contents \cup {None}]
      BY <1>4 DEF TypeOK
    <3> QED
      BY <1>2, <3>1 DEF Written
  <2>3. bytes'[i].of = ContentOf[t] /\ \A j \in Inodes : j # i => bytes'[j] = bytes[j]
    BY <1>3, <1>4, <1>6, <2>2 DEF TypeOK, PartOK
  <2>4. /\ \A u \in Tasks : part[u] \in Inodes \cup {0}
        /\ \A l \in Locations : file[l] \in Inodes \cup {0}
    BY DEF TypeOK
  <2>5. /\ \A l \in Locations : InstallOK(l)'
        /\ \A l \in Locations : \A c : Placed(l, c) => Placed(l, c)'
        /\ \A u \in Tasks : Installed(u) => Installed(u)'
        /\ \A m \in Threads, l \in Locations, c \in Contents : Aimed(m, l, c) => Fits(l, c)'
    <3>1. \A l \in Locations : file[l] # 0 => bytes'[file[l]] = bytes[file[l]]
      BY <1>3, <1>4, <2>3, <2>4 DEF PartOK
    <3> QED
      BY <1>1, <3>1, InstallSame
  <2>6. PartOK(t)'
    BY <1>1, <1>3, <1>4, <2>3 DEF PartOK
  <2>7. \A u \in Tasks : u # t /\ part[u] # 0 =>
          bytes'[part[u]] = bytes[part[u]] /\ \A l \in Locations : file'[l] # part[u]
    <3>1. \A u \in Tasks : PartOK(u)
      BY DEF Files
    <3>2. \A u \in Tasks : u # t => part[u] # i
      BY <1>3, <1>4 DEF PartOK
    <3>3. \A u \in Tasks : part[u] # 0 => \A l \in Locations : file[l] # part[u]
      BY <3>1 DEF PartOK
    <3> QED
      BY <1>1, <2>3, <2>4, <3>2, <3>3
  <2>8. KnownOK(k)'
    BY <1>1, <1>4, <2>1 DEF KnownOK
  <2> QED
    BY <1>1, <1>2, <2>1, <2>5, <2>6, <2>7, <2>8, FilesStep
<1> QED
  BY <1>2, <1>5, <1>6, Loaded

(* A run that gives up, or goes on with the disk as it is.                 *)
LEMMA FilesPass ==
  ASSUME ImportsAssumption, TypeOK, Control, Files, NEW k \in Threads,
         OpenFails(k) \/ OpenResumed(k) \/ LoadFails(k) \/ Hash(k) \/ Vet(k) \/ VetRefuses(k)
  PROVE  Files'
<1>1. UNCHANGED <<row, disk, install>> /\ clashed \subseteq clashed' /\ ~At(k, "idle")
  BY DEF OpenFails, OpenResumed, LoadFails, Hash, Vet, Aim, VetRefuses, At
<1>2. PICK t \in Tasks : t = thread[k].task
  BY <1>1, OfTask
<1>3. KnownOK(k) /\ PartOK(t) /\ part' = part /\ file' = file /\ bytes' = bytes /\ install' = install
  BY <1>1 DEF Files, disk
<1>4. thread[k] \in Runs /\ thread \in [Threads -> Runs]
  BY Types
<1>5. ASSUME \/ End(k, "record", "failed") \/ End(k, "drop", "failed") \/ Go(k, "size")
      PROVE  (\A m \in Threads : m # k => thread'[m] = thread[m]) /\ KnownOK(k)'
  <2>1. /\ \A m \in Threads : m # k => thread'[m] = thread[m]
        /\ \/ thread'[k].at \in {"record", "drop"} /\ thread'[k].outcome = "failed"
           \/ thread'[k].at = "size"
    BY <1>5, EndsTo, GoesTo DEF Steps
  <2> QED
    BY <2>1 DEF KnownOK
<1>6. CASE OpenFails(k) \/ LoadFails(k) \/ VetRefuses(k)
  BY <1>1, <1>5, <1>6, FilesQuiet DEF OpenFails, LoadFails, VetRefuses
<1>7. CASE OpenResumed(k)
  <2>1. \/ Go(k, "size")
        \/ part[t] # 0 /\ thread' = [thread EXCEPT ![k].at = "load", ![k].inode = part[t],
                                                   ![k].append = TRUE, ![k].pos = bytes[part[t]].n]
    BY <1>2, <1>7 DEF OpenResumed
  <2>2. CASE Go(k, "size")
    BY <1>1, <1>5, <2>2, FilesQuiet
  <2>3. CASE part[t] # 0 /\ thread' = [thread EXCEPT ![k].at = "load", ![k].inode = part[t],
                                                     ![k].append = TRUE, ![k].pos = bytes[part[t]].n]
    <3>1. /\ \A m \in Threads : m # k => thread'[m] = thread[m]
          /\ thread'[k].at = "load" /\ thread'[k].inode = part[t] /\ thread'[k].task = t
      BY <1>2, <1>4, <2>3 DEF Runs
    <3>2. KnownOK(k)'
      BY <1>3, <2>3, <3>1 DEF KnownOK
    <3> QED
      BY <1>1, <3>1, <3>2, FilesQuiet
  <2> QED
    BY <2>1, <2>2, <2>3
<1>8. CASE Hash(k)
  <2>1. \/ End(k, "drop", "failed")
        \/ part[t] # 0 /\ bytes[part[t]].n = Whole /\ bytes[part[t]].ok /\ Go(k, "vet")
    BY <1>2, <1>8 DEF Hash
  <2>2. CASE End(k, "drop", "failed")
    BY <1>1, <1>5, <2>2, FilesQuiet
  <2>3. CASE part[t] # 0 /\ bytes[part[t]].n = Whole /\ bytes[part[t]].ok /\ Go(k, "vet")
    <3>1. /\ \A m \in Threads : m # k => thread'[m] = thread[m]
          /\ thread'[k].at = "vet" /\ thread'[k].task = t
      BY <1>2, <2>3, GoesTo DEF Steps
    <3>2. bytes[part[t]] \in [n: Nat, ok: BOOLEAN, of: Contents \cup {None}]
      BY <2>3 DEF TypeOK
    <3>3. bytes[part[t]] = Full(ContentOf[t])
      BY <1>3, <2>3, <3>2 DEF Full, PartOK
    <3>4. KnownOK(k)'
      BY <1>3, <3>1, <3>3 DEF KnownOK, Full
    <3> QED
      BY <1>1, <3>1, <3>4, FilesQuiet
  <2> QED
    BY <2>1, <2>2, <2>3
<1>9. CASE Vet(k)
  <2>1. /\ thread[k].at = "vet"
        /\ \/ End(k, "record", "failed")
           \/ LocalCopy(ContentOf[t]) /\ End(k, "drop", "done")
           \/ /\ thread' = [thread EXCEPT ![k].at = "place", ![k].target = Target(t)]
              /\ clashed' = clashed \cup Clash(t, Target(t))
    BY <1>2, <1>9 DEF Vet, At, Aim
  <2>2. CASE End(k, "record", "failed")
    BY <1>1, <1>5, <2>2, FilesQuiet
  <2>3. CASE LocalCopy(ContentOf[t]) /\ End(k, "drop", "done")
    <3>1. /\ \A m \in Threads : m # k => thread'[m] = thread[m]
          /\ thread'[k].at = "drop" /\ thread'[k].task = t
      BY <1>2, <2>3, EndsTo DEF Steps
    <3>2. \E l \in Locations : install'[l] = ContentOf[t]
      BY <1>3, <2>3 DEF LocalCopy
    <3>3. KnownOK(k)'
      BY <3>1, <3>2 DEF KnownOK, Installed
    <3> QED
      BY <1>1, <3>1, <3>3, FilesQuiet
  <2>4. CASE /\ thread' = [thread EXCEPT ![k].at = "place", ![k].target = Target(t)]
             /\ clashed' = clashed \cup Clash(t, Target(t))
    <3>1. PICK l, c :
            /\ l = Target(t) /\ l \in Aims(t) /\ l \in Locations /\ c = ContentOf[t]
            /\ file[l] = 0 \/ l[2] = c
      BY Targets DEF Target
    <3>2. /\ \A m \in Threads : m # k => thread'[m] = thread[m]
          /\ thread'[k].at = "place" /\ thread'[k].task = t /\ thread'[k].target = l
      BY <1>2, <1>4, <2>4, <3>1 DEF Runs
    <3>3. part[t] # 0 => bytes[part[t]] = Full(ContentOf[t])
      BY <1>2, <1>3, <2>1 DEF KnownOK
    <3>4. Fits(l, c)'
      <4>1. file[l] # 0 => bytes[file[l]].of = c
        BY <3>1, Targets DEF Files, InstallOK
      <4> QED
        BY <1>3, <4>1 DEF Fits
    <3>5. ASSUME NEW m \in Threads PROVE Rival(k, m)'
      <4> DEFINE d == ContentOf[thread[m].task]
      <4>1. CASE m # k /\ At(m, "place") /\ thread[m].target = l /\ c # d
        <5> DEFINE met == {ContentOf[thread[j].task] :
                             j \in {j \in Threads : At(j, "place") /\ thread[j].target = l}}
        <5>1. d \in met
          BY <4>1
        <5>2. clashed' = clashed \cup ({l} \X (met \cup {c}))
          <6>1. ~(met \subseteq {c})
            BY <4>1, <5>1
          <6> QED
            BY <2>4, <3>1, <6>1 DEF Clash
        <5>3. thread'[m] = thread[m]
          BY <3>2, <4>1
        <5> HIDE DEF met, d
        <5>4. <<l, c>> \in clashed' /\ <<l, d>> \in clashed'
          BY <5>1, <5>2
        <5> QED
          BY <3>1, <3>2, <5>3, <5>4 DEF Rival, Met, d
      <4>2. CASE ~(m # k /\ At(m, "place") /\ thread[m].target = l /\ c # d)
        BY <3>1, <3>2, <4>2 DEF Rival, At
      <4> QED
        BY <4>1, <4>2
    <3>6. KnownOK(k)'
      BY <1>3, <3>1, <3>2, <3>3, <3>4, <3>5 DEF KnownOK, Full
    <3> QED
      BY <1>1, <3>2, <3>6, FilesQuiet
  <2> QED
    BY <2>1, <2>2, <2>3, <2>4
<1> QED
  BY <1>6, <1>7, <1>8, <1>9

(* A part file is unlinked.                                                *)
LEMMA FilesUnlink ==
  ASSUME ImportsAssumption, TypeOK, Control, Files, doubled = {}, NEW k \in Threads,
         Measure(k) \/ Drop(k)
  PROVE  Files'
<1>1. ~At(k, "idle") /\ UNCHANGED <<row, file, bytes, install, clashed>>
  BY DEF Measure, Drop, At
<1>2. PICK t \in Tasks : t = thread[k].task
  BY <1>1, OfTask
<1>3. KnownOK(k) /\ PartOK(t)
  BY DEF Files
<1>4. \/ part' = part /\ Go(k, "hash")
      \/ part' = [part EXCEPT ![t] = 0] /\ End(k, "record", "failed")
      \/ part' = [part EXCEPT ![t] = 0] /\ Go(k, "record") /\ At(k, "drop")
      \/ part' = [part EXCEPT ![t] = 0] /\ Go(k, "discard") /\ At(k, "drop")
  BY <1>2 DEF Measure, Drop
<1>5. CASE part' = part /\ Go(k, "hash")
  <2>1. (\A m \in Threads : m # k => thread'[m] = thread[m]) /\ thread'[k].at = "hash"
    BY <1>5, GoesTo DEF Steps
  <2>2. KnownOK(k)'
    BY <2>1 DEF KnownOK
  <2> QED
    BY <1>1, <1>5, <2>1, <2>2, FilesQuiet DEF disk
<1>6. CASE part' = [part EXCEPT ![t] = 0]
  <2>1. part'[t] = 0 /\ \A u \in Tasks : u # t => part'[u] = part[u]
    BY <1>6 DEF TypeOK
  <2>2. /\ \A m \in Threads : m # k => thread'[m] = thread[m]
        /\ thread'[k].task = t /\ thread'[k].at \in {"hash", "record", "discard"}
        /\ thread'[k].outcome = "done" =>
             thread'[k].at = "hash" \/ (At(k, "drop") /\ thread[k].outcome = "done")
    BY <1>2, <1>4, EndsTo, GoesTo DEF Steps
  <2>3. /\ \A l \in Locations : InstallOK(l)'
        /\ \A l \in Locations : \A c : Placed(l, c) => Placed(l, c)'
        /\ \A u \in Tasks : Installed(u) => Installed(u)'
        /\ \A m \in Threads, l \in Locations, c \in Contents : Aimed(m, l, c) => Fits(l, c)'
    BY <1>1, InstallSame
  <2>4. PartOK(t)'
    BY <2>1 DEF PartOK
  <2>5. KnownOK(k)'
    BY <1>2, <1>3, <2>2, <2>3 DEF KnownOK, At
  <2>6. \A u \in Tasks : u # t /\ part[u] # 0 =>
          bytes'[part[u]] = bytes[part[u]] /\ \A l \in Locations : file'[l] # part[u]
    BY <1>1 DEF Files, PartOK
  <2> QED
    BY <1>1, <1>2, <2>1, <2>2, <2>3, <2>4, <2>5, <2>6, FilesStep
<1> QED
  BY <1>4, <1>5, <1>6

(* What the move of c's file to l makes of what is at the locations.       *)
LEMMA Moved ==
  ASSUME NEW l \in Locations, NEW c, NEW i, i # 0, bytes[i] = Full(c), UNCHANGED bytes,
         file'[l] = i, \A q \in Locations : q # l => file'[q] = file[q],
         clashed' = clashed, Fits(l, c)
  PROVE  /\ Holds(l, c)'
         /\ \A q \in Locations : \A d : Holds(q, d) => Holds(q, d)' \/ Met(q, d)
         /\ \A q \in Locations : \A d : Placed(q, d) => Placed(q, d)'
<1>1. Holds(l, c)' /\ bytes'[file'[l]].of = c /\ file'[l] # 0
  BY DEF Holds, Full
<1>2. ASSUME NEW q \in Locations, NEW d, q # l
      PROVE  /\ Holds(q, d) => Holds(q, d)'
             /\ Placed(q, d) => Placed(q, d)'
  BY <1>2 DEF Holds, Placed, Met
<1>3. ASSUME NEW d, Holds(l, d) PROVE d = c \/ (Met(l, d) /\ Met(l, c))
  BY <1>3 DEF Holds, Fits
<1>4. ASSUME NEW d, Placed(l, d) PROVE d = c \/ (Met(l, d) /\ Met(l, c))
  BY <1>3, <1>4 DEF Placed, Fits
<1>5. \A d : d = c \/ (Met(l, d) /\ Met(l, c)) => Placed(l, d)'
  BY <1>1 DEF Placed, Met
<1> QED
  BY <1>1, <1>2, <1>3, <1>4, <1>5

LEMMA FilesPlace ==
  ASSUME ImportsAssumption, TypeOK, Control, Files, doubled = {}, NEW k \in Threads, Place(k)
  PROVE  Files'
<1>1. At(k, "place") /\ UNCHANGED <<row, bytes, install, clashed>>
  BY DEF Place
<1>0. PICK t \in Tasks : t = thread[k].task
  BY <1>1, OfTask DEF At
<1>2. PICK l, i, c : t = thread[k].task /\ l = thread[k].target /\ i = part[t] /\ c = ContentOf[t]
  BY <1>0
<1>3. KnownOK(k) /\ PartOK(t) /\ l \in Locations /\ l \in Aims(t) /\ Fits(l, c)
  BY <1>1, <1>2, Targets DEF Files, KnownOK, At
<1>4. \/ i = 0 /\ End(k, "record", "failed") /\ UNCHANGED <<part, file>>
      \/ /\ i # 0 /\ file' = [file EXCEPT ![l] = i] /\ part' = [part EXCEPT ![t] = 0]
         /\ Go(k, "register")
  BY <1>2 DEF Place
<1>5. CASE i = 0 /\ End(k, "record", "failed") /\ UNCHANGED <<part, file>>
  <2>1. (\A m \in Threads : m # k => thread'[m] = thread[m]) /\ thread'[k].at = "record"
        /\ thread'[k].outcome = "failed"
    BY <1>5, EndsTo DEF Steps
  <2>2. KnownOK(k)'
    BY <2>1 DEF KnownOK
  <2> QED
    BY <1>1, <1>5, <2>1, <2>2, FilesQuiet DEF disk
<1>6. CASE /\ i # 0 /\ file' = [file EXCEPT ![l] = i] /\ part' = [part EXCEPT ![t] = 0]
           /\ Go(k, "register")
  <2>1. /\ part'[t] = 0 /\ \A u \in Tasks : u # t => part'[u] = part[u]
        /\ file'[l] = i /\ \A q \in Locations : q # l => file'[q] = file[q]
    BY <1>3, <1>6 DEF TypeOK
  <2>2. /\ \A m \in Threads : m # k => thread'[m] = thread[m]
        /\ thread'[k].at = "register" /\ thread'[k].task = t /\ thread'[k].target = l
    BY <1>2, <1>6, GoesTo DEF Steps
  <2>3. bytes[i] = Full(c) /\ bytes' = bytes
    BY <1>1, <1>2, <1>3, <1>6 DEF KnownOK, At
  <2>4. /\ Holds(l, c)'
        /\ \A q \in Locations : \A d : Holds(q, d) => Holds(q, d)' \/ Met(q, d)
        /\ \A q \in Locations : \A d : Placed(q, d) => Placed(q, d)'
    BY <1>1, <1>3, <1>6, <2>1, <2>3, Moved
  <2>5. ASSUME NEW q \in Locations PROVE InstallOK(q)'
    <3>1. InstallOK(q) /\ install'[q] = install[q] /\ (Met(q, install[q]) => Met(q, install[q])')
      BY <1>1 DEF Files, Met
    <3>2. (install[q] # None => Holds(q, install[q]) \/ Met(q, install[q]))'
      BY <1>1, <2>4, <3>1 DEF InstallOK, Met
    <3>3. q[2] # None /\ file'[q] # 0 => bytes'[file'[q]].of = q[2]
      <4>1. CASE q = l
        BY <1>2, <1>3, <2>1, <2>3, <4>1, Targets DEF Full
      <4>2. CASE q # l
        BY <2>1, <2>3, <3>1, <4>2 DEF InstallOK
      <4> QED
        BY <4>1, <4>2
    <3> QED
      BY <3>2, <3>3 DEF InstallOK
  <2>6. \A u \in Tasks : Installed(u) => Installed(u)'
    BY <1>1 DEF Installed, Met
  <2>7. PartOK(t)'
    BY <2>1 DEF PartOK
  <2>8. KnownOK(k)'
    <3>1. Placed(l, c)'
      BY <2>4 DEF Placed
    <3> QED
      BY <1>2, <1>3, <2>2, <3>1 DEF KnownOK
  <2>9. \A u \in Tasks : u # t /\ part[u] # 0 =>
          bytes'[part[u]] = bytes[part[u]] /\ \A q \in Locations : file'[q] # part[u]
    <3>1. \A u \in Tasks : PartOK(u)
      BY DEF Files
    <3>2. \A u \in Tasks : u # t => part[u] # i
      BY <1>2, <1>3, <1>6 DEF PartOK
    <3>3. \A u \in Tasks : part[u] # 0 => \A q \in Locations : file[q] # part[u]
      BY <3>1 DEF PartOK
    <3> QED
      BY <1>3, <2>1, <2>3, <3>2, <3>3
  <2>10. ASSUME NEW m \in Threads, NEW q \in Locations, NEW d \in Contents, m # k, Aimed(m, q, d)
         PROVE  Fits(q, d)'
    <3>1. Fits(q, d) /\ Rival(k, m)
      BY <1>1, <1>3, <2>10 DEF Files, KnownOK, Aimed, At
    <3>2. CASE q = l
      <4>1. c # d => Met(l, c) /\ Met(l, d)
        BY <1>1, <1>2, <2>10, <3>1, <3>2 DEF Rival, Aimed
      <4> QED
        BY <1>1, <2>1, <2>3, <3>2, <4>1 DEF Fits, Met, Full
    <3>3. CASE q # l
      BY <1>1, <2>1, <2>3, <3>1, <3>3 DEF Fits, Met
    <3> QED
      BY <3>2, <3>3
  <2> QED
    BY <1>1, <1>2, <2>1, <2>2, <2>4, <2>5, <2>6, <2>7, <2>8, <2>9, <2>10, FilesStep
<1> QED
  BY <1>4, <1>5, <1>6

(* What was recorded at l met another content, or is recorded again.       *)
LEMMA Replaced ==
  ASSUME NEW l \in Locations, NEW c, NEW d, Placed(l, c), Holds(l, d)
  PROVE  d = c \/ Met(l, d)
BY DEF Placed, Holds

LEMMA FilesRegister ==
  ASSUME ImportsAssumption, TypeOK, Control, Files, doubled = {}, NEW k \in Threads, Register(k)
  PROVE  Files'
<1>1. /\ At(k, "register") /\ UNCHANGED <<row, part, file, bytes, clashed>>
      /\ End(k, "drop", "done")
  BY DEF Register, disk
<1>0. PICK t \in Tasks : t = thread[k].task
  BY <1>1, OfTask DEF At
<1>2. PICK l : t = thread[k].task /\ l = thread[k].target
  BY <1>0
<1>3. KnownOK(k) /\ PartOK(t) /\ l \in Locations /\ Placed(l, ContentOf[t])
  BY <1>1, <1>2, Targets DEF Files, KnownOK, At
<1>4. install'[l] = ContentOf[t] /\ \A q \in Locations : q # l => install'[q] = install[q]
  BY <1>2, <1>3 DEF Register, TypeOK
<1>5. /\ \A m \in Threads : m # k => thread'[m] = thread[m]
      /\ thread'[k].at = "drop" /\ thread'[k].task = t
  BY <1>1, <1>2, EndsTo DEF Steps
<1>6. \A q \in Locations : \A c : /\ Holds(q, c) => Holds(q, c)'
                                  /\ Met(q, c) => Met(q, c)'
                                  /\ Placed(q, c) => Placed(q, c)'
  BY <1>1 DEF Holds, Met, Placed
<1>7. ASSUME NEW q \in Locations PROVE InstallOK(q)'
  <2>1. CASE q = l
    <3>1. Placed(l, ContentOf[t])' /\ install'[l] = ContentOf[t]
      BY <1>3, <1>4, <1>6
    <3>2. l[2] # None /\ file'[l] # 0 => bytes'[file'[l]].of = l[2]
      BY <1>1, <1>3 DEF Files, InstallOK
    <3> QED
      BY <2>1, <3>1, <3>2 DEF InstallOK, Placed
  <2>2. CASE q # l
    <3>1. InstallOK(q) /\ install'[q] = install[q]
      BY <1>4, <2>2 DEF Files
    <3> QED
      BY <1>1, <3>1 DEF InstallOK, Holds, Met
  <2> QED
    BY <2>1, <2>2
<1>8. ASSUME NEW u \in Tasks, Installed(u) PROVE Installed(u)'
  <2>1. PICK q \in Locations : install[q] = ContentOf[u] \/ Met(q, ContentOf[u])
    BY <1>8 DEF Installed
  <2>2. CASE q = l /\ install[l] = ContentOf[u]
    <3>1. Holds(l, ContentOf[u]) \/ Met(l, ContentOf[u])
      BY <1>8, <2>2, Targets DEF Files, InstallOK
    <3>2. ContentOf[u] = ContentOf[t] \/ Met(l, ContentOf[u])
      BY <1>3, <3>1, Replaced
    <3> QED
      BY <1>3, <1>4, <1>6, <3>2 DEF Installed
  <2>3. CASE q # l \/ Met(q, ContentOf[u])
    BY <1>4, <1>6, <2>1, <2>3 DEF Installed
  <2> QED
    BY <2>1, <2>2, <2>3
<1>9. PartOK(t)'
  BY <1>1, <1>3 DEF PartOK
<1>10. KnownOK(k)'
  <2>1. \E q \in Locations : install'[q] = ContentOf[t]
    BY <1>3, <1>4
  <2> QED
    BY <1>5, <2>1 DEF KnownOK, Installed
<1>11. \A u \in Tasks : u # t /\ part[u] # 0 =>
        bytes'[part[u]] = bytes[part[u]] /\ \A q \in Locations : file'[q] # part[u]
  BY <1>1 DEF Files, PartOK
<1>12. \A m \in Threads, q \in Locations, c \in Contents : Aimed(m, q, c) => Fits(q, c)'
  BY <1>1 DEF Files, KnownOK, Aimed, At, Fits, Met
<1> QED
  BY <1>1, <1>2, <1>5, <1>6, <1>7, <1>8, <1>9, <1>10, <1>11, <1>12, FilesStep

LEMMA FilesNext ==
  ASSUME ImportsAssumption, TypeOK, Control, Files, doubled = {}, [Next]_vars
  PROVE  Files'
<1>1. CASE UNCHANGED vars
  <2>1. UNCHANGED <<disk, install, clashed, thread, row>>
    BY <1>1 DEF vars
  <2> QED
    BY <2>1, FilesQuiet
<1>2. ASSUME NEW t \in Tasks, Create(t) \/ Cancel(t) \/ Retry(t) PROVE Files'
  <2>1. /\ UNCHANGED <<disk, install, clashed>> /\ thread' = thread
        /\ row' = row \/ (row' = [row EXCEPT ![t] = "done"] /\ LocalCopy(ContentOf[t]))
                      \/ row' = [row EXCEPT ![t] = "queued"]
    BY <1>2 DEF Create, Cancel, Retry
  <2>2. ASSUME NEW u \in Tasks, row'[u] = "done" PROVE row[u] = "done" \/ Installed(u)
    BY <2>1, <2>2 DEF TypeOK, LocalCopy, Installed
  <2> QED
    BY <2>1, <2>2, FilesQuiet
<1>3. CASE Answer
  <2>1. /\ UNCHANGED <<disk, install, clashed>> /\ thread' = thread
        /\ row' = row \/ \E s \in {"queued", "canceled", "canceling"} : row' = [row EXCEPT ![request.task] = s]
    BY <1>3 DEF Answer, CancelFlag, CancelRow, RetryFlag, RetryRow, RetrySubmit
  <2>2. \A u \in Tasks : row'[u] = "done" => row[u] = "done"
    BY <2>1 DEF TypeOK
  <2> QED
    BY <2>1, <2>2, FilesQuiet
<1>4. ASSUME NEW k \in Threads, Pick(k) \/ Begin(k) PROVE Files'
  <2>1. UNCHANGED <<disk, install, clashed>> /\ \A u \in Tasks : row'[u] = "done" => row[u] = "done"
    BY <1>4 DEF Pick, Begin, TypeOK
  <2>2. \A m \in Threads : thread'[m] = thread[m] \/ KnownOK(m)'
    <3>1. \A m \in Threads : thread'[m] = thread[m] \/ thread'[m].at \in {"begin", "open"}
      <4>1. CASE Begin(k)
        BY <4>1, GoesTo DEF Begin, Steps
      <4>2. CASE Pick(k)
        BY <4>2, Types DEF Pick, Idle
      <4> QED
        BY <1>4, <4>1, <4>2
    <3>2. \A m \in Threads : thread'[m].at \in {"begin", "open"} => KnownOK(m)'
      BY DEF KnownOK
    <3> QED
      BY <3>1, <3>2
  <2> QED
    BY <2>1, <2>2, FilesQuiet
<1>5. ASSUME NEW k \in Threads, Record(k) \/ Discard(k) PROVE Files'
  <2>1. ~At(k, "idle") /\ UNCHANGED <<disk, install, clashed>> /\ thread[k].at \in {"record", "discard"}
    BY <1>5 DEF Record, Discard, At
  <2>2. PICK t \in Tasks : t = thread[k].task
    BY <2>1, OfTask
  <2>3. KnownOK(k) /\ (thread[k].outcome = "done" => Installed(t))
    BY <2>1, <2>2 DEF Files, KnownOK
  <2>4. ASSUME NEW u \in Tasks, row'[u] = "done" PROVE row[u] = "done" \/ Installed(u)
    BY <1>5, <2>2, <2>3, <2>4 DEF Record, Discard, TypeOK
  <2>5. /\ \A m \in Threads : m # k => thread'[m] = thread[m]
        /\ \/ thread'[k].at = "idle"
           \/ thread'[k].at \in {"record", "discard"} /\ thread'[k].task = t
              /\ thread'[k].outcome = thread[k].outcome
    <3>1. CASE thread' = [thread EXCEPT ![k] = Idle]
      BY <3>1, IdleRun, Types
    <3>2. CASE Go(k, "discard") \/ Go(k, "record")
      BY <2>2, <3>2, GoesTo DEF Steps
    <3> QED
      BY <1>5, <3>1, <3>2 DEF Record, Discard
  <2>6. KnownOK(k)'
    <3>1. install' = install /\ clashed' = clashed
      BY <2>1
    <3> QED
      BY <2>3, <2>5, <3>1 DEF KnownOK, Installed, Met
  <2> QED
    BY <2>1, <2>4, <2>5, <2>6, FilesQuiet
<1>6. CASE Restart
  <2>1. /\ UNCHANGED <<disk, install, clashed>> /\ row' = [t \in Tasks |-> Recovered(row[t])]
        /\ thread' = [k \in Threads |-> Idle]
    BY <1>6 DEF Restart
  <2>2. \A u \in Tasks : row'[u] = "done" => row[u] = "done"
    BY <2>1 DEF Recovered
  <2>3. \A m \in Threads : thread'[m].at = "idle"
    BY <2>1, IdleRun
  <2>4. \A m \in Threads : KnownOK(m)'
    BY <2>3 DEF KnownOK
  <2> QED
    BY <2>1, <2>2, <2>4, FilesQuiet
<1>7. ASSUME NEW k \in Threads, Run(k) PROVE Files'
  BY <1>4, <1>5, <1>7, FilesOpenAnew, FilesLoad, FilesPass, FilesUnlink, FilesPlace, FilesRegister DEF Run
<1> QED
  BY <1>1, <1>2, <1>3, <1>6, <1>7 DEF Next

-----------------------------------------------------------------------------
(* The theorems.                                                           *)

LEMMA InitHolds ==
  ASSUME ImportsAssumption, Init
  PROVE  IInv
<1>1. TypeOK
  <2>1. \A i \in Inodes : bytes[i] \in [n: Nat, ok: BOOLEAN, of: Contents \cup {None}]
    BY DEF Init
  <2>2. thread \in [Threads -> Runs]
    BY IdleRun DEF Init
  <2>3. 0 \in 0 .. MaxRequests /\ 0 \in 0 .. MaxCrashes
    BY DEF ImportsAssumption
  <2> QED
    BY <2>1, <2>2, <2>3 DEF Init, TypeOK, Runs, Steps, States, NoRequest
<1>2. Control
  <2>1. Range(pool) = {} /\ (\A u : Once(pool, u)) /\ \A t \in Tasks : row[t] = "none"
    BY DEF Init, Range, Once
  <2>2. /\ Idle.at = "idle" /\ Idle.task = None /\ Idle.inode = 0 /\ None \notin Tasks
        /\ NoRequest.at = "none" /\ NoRequest.task \notin Tasks
    BY IdleRun DEF ImportsAssumption, NoRequest
  <2>3. \A k \in Threads : thread[k] = Idle
    BY DEF Init
  <2> QED
    BY <2>1, <2>2, <2>3 DEF Init, Control, RunOK, At, Fresh, Solo, Watched, Stops, RequestOK
<1>3. Files
  <2>1. \A k \in Threads : thread[k].at = "idle"
    BY IdleRun DEF Init
  <2> QED
    BY <2>1 DEF Init, Files, PartOK, InstallOK, KnownOK
<1> QED
  BY <1>1, <1>2, <1>3 DEF IInv

LEMMA StepHolds ==
  ASSUME ImportsAssumption, IInv, [Next]_vars
  PROVE  IInv'
<1>1. TypeOK' /\ Control'
  BY TypeKeeps, ControlNext DEF IInv
<1>2. doubled \subseteq doubled'
  <2>1. CASE RetrySubmit
    BY <2>1 DEF RetrySubmit
  <2>2. CASE UNCHANGED doubled
    BY <2>2
  <2>3. RetrySubmit \/ UNCHANGED doubled
    BY DEF Next, vars, Create, Cancel, Retry, Answer, CancelFlag, CancelRow, RetryFlag, RetryRow, Run,
           Pick, Begin, OpenFails, OpenAnew, OpenResumed, Load, LoadFails, Measure, Hash, Vet,
           VetRefuses, Place, Register, Drop, Record, Discard, Restart
  <2> QED
    BY <2>1, <2>2, <2>3
<1>3. ASSUME doubled' = {} PROVE Files'
  BY <1>2, <1>3, FilesNext DEF IInv
<1> QED
  BY <1>1, <1>3 DEF IInv

(* The invariant is the invariant of the imports.                          *)
THEOREM Invariant ==
  ASSUME ImportsAssumption
  PROVE  Spec => []IInv
<1>1. Init => IInv
  BY InitHolds
<1>2. IInv /\ [Next]_vars => IInv'
  BY StepHolds
<1> QED
  BY <1>1, <1>2, PTL DEF Spec

(* Types, and the rows, runs and requests, doubled imports included.       *)
THEOREM TypeCorrect ==
  ASSUME ImportsAssumption
  PROVE  Spec => [](TypeOK /\ Control)
<1>1. Init => TypeOK /\ Control
  BY InitHolds DEF IInv
<1>2. TypeOK /\ Control /\ [Next]_vars => (TypeOK /\ Control)'
  BY TypeKeeps, ControlNext
<1> QED
  BY <1>1, <1>2, PTL DEF Spec

LEMMA LedgerFollows ==
  ASSUME ImportsAssumption, IInv
  PROVE  LedgerTrue
<1>1. DoneIsInstalled
  <2> SUFFICES ASSUME doubled = {}, NEW t \in Tasks, row[t] = "done"
               PROVE  \E l \in Locations : \/ install[l] = ContentOf[t] /\ Holds(l, ContentOf[t])
                                          \/ <<l, ContentOf[t]>> \in clashed
    BY DEF DoneIsInstalled
  <2>1. PICK l \in Locations : install[l] = ContentOf[t] \/ Met(l, ContentOf[t])
    BY DEF IInv, Files, Installed
  <2>2. install[l] = ContentOf[t] => Holds(l, ContentOf[t]) \/ Met(l, ContentOf[t])
    BY Targets DEF IInv, Files, InstallOK
  <2> QED
    BY <2>1, <2>2 DEF Met
<1>2. ActiveHasRun
  BY DEF ActiveHasRun, IInv, Control, Watched, HasRun
<1>3. CancelInForce
  <2> SUFFICES ASSUME NEW k \in Threads, At(k, "load"), row[thread[k].task] = "canceling"
               PROVE  thread[k].task \in flag \cup doubled
    BY DEF CancelInForce
  <2>1. TypeOK /\ Control /\ thread[k].at = "load"
    BY DEF IInv, At
  <2>2. thread[k].task \in Tasks
    BY <2>1, OfTask DEF At
  <2> QED
    BY <2>1, <2>2 DEF Control, Stops
<1> QED
  BY <1>1, <1>2, <1>3 DEF LedgerTrue

(* A done import's content is installed and whole, an import that waits or *)
(* runs has something that brings it on, and a cancel that was answered is *)
(* in force (recover_on_startup, create, cancel, retry and _run), with the *)
(* exceptions LedgerTrue names.                                            *)
THEOREM Truth ==
  ASSUME ImportsAssumption
  PROVE  Spec => []LedgerTrue
<1>1. IInv => LedgerTrue
  BY LedgerFollows
<1> QED
  BY <1>1, Invariant, PTL

LEMMA StepKeeps ==
  ASSUME ImportsAssumption, IInv, IInv', [Next]_vars
  PROVE  Keeps
<1> SUFFICES ASSUME doubled' = {}, NEW l \in Locations, install[l] # None, Holds(l, install[l])
             PROVE  Holds(l, install[l])' \/ <<l, install[l]>> \in clashed'
  BY DEF Keeps
<1>1. CASE install'[l] = install[l]
  <2>1. InstallOK(l)'
    BY DEF IInv, Files
  <2> QED
    BY <1>1, <2>1 DEF InstallOK, Met
<1>2. CASE install'[l] # install[l]
  <2>1. PICK k \in Threads : Register(k)
    BY <1>2 DEF Next, vars, disk, Create, Cancel, Retry, Answer, CancelFlag, CancelRow, RetryFlag,
           RetryRow, RetrySubmit, Run, Pick, Begin, OpenFails, OpenAnew, OpenResumed, Load, LoadFails,
           Measure, Hash, Vet, VetRefuses, Place, Drop, Record, Discard, Restart
  <2>2. PICK t : t = thread[k].task
    OBVIOUS
  <2>3. /\ install' = [install EXCEPT ![thread[k].target] = ContentOf[t]]
        /\ UNCHANGED <<file, bytes, clashed, doubled>> /\ thread[k].at = "register"
    BY <2>1, <2>2 DEF Register, At, disk
  <2>4. thread[k].target = l /\ install'[l] = ContentOf[t]
    BY <1>2, <2>3 DEF IInv, TypeOK
  <2>5. Placed(l, ContentOf[t])
    BY <2>2, <2>3, <2>4 DEF IInv, Files, KnownOK
  <2>6. install[l] = ContentOf[t] \/ Met(l, install[l])
    BY <2>5, Replaced
  <2> QED
    BY <1>2, <2>3, <2>4, <2>6 DEF Met
<1> QED
  BY <1>1, <1>2

(* No step overwrites or truncates a file that is recorded for what it     *)
(* holds (os.replace in import_file, and the threads that still write),    *)
(* unless imports of different files aimed at its location at once, or an  *)
(* import was made to run twice at a time.                                 *)
THEOREM KnownGood ==
  ASSUME ImportsAssumption
  PROVE  Spec => KnownGoodKept
<1>1. IInv /\ IInv' /\ [Next]_vars => [Keeps]_vars
  BY StepKeeps
<1> QED
  BY <1>1, Invariant, PTL DEF Spec, KnownGoodKept
=============================================================================
