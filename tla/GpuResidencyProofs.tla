------------------------- MODULE GpuResidencyProofs -------------------------
(***************************************************************************)
(* Proofs about the local accelerator, for every pool of threads, every    *)
(* set of models and adapters, and every number of calls and edits.        *)
(*                                                                         *)
(* Only the holder of GPU_LOCK is between _get and the end of its          *)
(* computation, so what a thread relies on there can only be disturbed by  *)
(* that thread itself: Others says so once, and each action is left with   *)
(* what it does to its own thread and to the device.                       *)
(***************************************************************************)
EXTENDS GpuResidency, TLAPS

(* None stands for no thread, no pipeline, no adapter and no set of them:  *)
(* it is none of these.                                                    *)
NoneIsNothing ==
  /\ None \notin Threads /\ None \notin Entries
  /\ None \notin Versions /\ None \notin Signatures

Setting == ResidencyAssumption /\ NoneIsNothing

Calling ==
  [kind : Kinds, model : Models, loras : SUBSET Loras, base : BOOLEAN,
   found : BOOLEAN, asked : Signatures, skipped : SUBSET Loras,
   err : {None, "oom", "driver", "canceled", "adapters", "other"}]

Places == {"idle", "prefetch", "lock", "get", "style", "rehook",
           "ready", "denoise", "work", "failed", "freeing"}

(* Where the lock is held, and where a pipeline is borrowed under it.      *)
Using  == {"style", "rehook", "ready", "denoise"}
Inside == Using \cup {"get", "work"}

-----------------------------------------------------------------------------
(* The inductive invariant of what is resident.                            *)

(* What a thread has when it is inside: the lock, the pipeline it asked    *)
(* for, and when it denoises the adapters too; only a ControlNet           *)
(* generation takes the hooks off.                                         *)
StyleOf(t) ==
  /\ \A l \in state.active : state.loaded[l] = call[t].asked[l]
  /\ state.active = IF state.applied = call[t].asked
                      THEN call[t].loras \ call[t].skipped ELSE {}

Holds(t) ==
  /\ pc[t] \in Inside => lock.holder = t /\ lock.depth > 0
  /\ pc[t] \in Using => state # None /\ state.model = call[t].model
  /\ pc[t] = "rehook" => call[t].kind = "control"
  /\ pc[t] \in {"ready", "denoise"} /\ call[t].kind = "generate" => StyleOf(t)

(* The record _apply_loras leaves of its last success is true of what is   *)
(* attached: StyleCached trusts it.                                        *)
RecordTrue ==
  state # None /\ state.applied # None =>
    /\ state.active = DOMAIN state.applied \ state.unapplied
    /\ \A l \in state.active : state.loaded[l] = state.applied[l]

IInv == TypeOK /\ (\A t \in Threads : Holds(t)) /\ RecordTrue

-----------------------------------------------------------------------------
(* Types.                                                                  *)

(* What TypeOK says, one variable at a time.                               *)
LEMMA TypesOf ==
  TypeOK <=> /\ pc \in [Threads -> Places] /\ call \in [Threads -> Calling]
             /\ lock \in [holder : Threads \cup {None}, depth : Nat]
             /\ state \in Entries \cup {None} /\ control \in BOOLEAN
             /\ disk \subseteq Models \X {"pipeline", "svdq", "transformer", "controlnet"}
             /\ file \in [Loras -> Versions \cup {Gone}]
             /\ loop \in Threads \cup {None}
             /\ calls \in 0 .. MaxCalls /\ edits \in Versions
BY DEF TypeOK, Calling, Places

(* The signature of a set of adapters is one, whatever the files are.      *)
LEMMA SignatureType ==
  ASSUME TypeOK, NEW t \in Threads
  PROVE  /\ Signature(t) \in Signatures
         /\ DOMAIN Signature(t) = call[t].loras
         /\ \A l \in call[t].loras : Signature(t)[l] = file[l]
<1>1. call[t].loras \in SUBSET Loras
  BY TypesOf DEF Calling
<1>2. Signature(t) \in [call[t].loras -> Versions \cup {Gone}]
  BY <1>1, TypesOf DEF Signature
<1> QED
  BY <1>1, <1>2 DEF Signatures, Signature

(* A call keeps its type through what the handlers change of it.           *)
LEMMA CallType ==
  ASSUME NEW c \in Calling
  PROVE  /\ \A e \in {"oom", "driver", "canceled", "adapters", "other"} :
              [c EXCEPT !.err = e] \in Calling
         /\ \A b \in BOOLEAN : [c EXCEPT !.base = b] \in Calling
         /\ \A f \in BOOLEAN : [c EXCEPT !.found = f] \in Calling
         /\ \A b, f \in BOOLEAN : [c EXCEPT !.base = b, !.found = f] \in Calling
         /\ \A s \in Signatures, off \in SUBSET Loras :
              [c EXCEPT !.asked = s, !.skipped = off] \in Calling
BY DEF Calling

(* What Call makes is a call.                                              *)
LEMMA CallMakesCall ==
  ASSUME NEW k \in Kinds, NEW m \in Models, NEW ls \in SUBSET Loras
  PROVE  Call(k, m, ls) \in Calling
<1>1. [l \in {} |-> Gone] \in Signatures
  <2>1. [l \in {} |-> Gone] \in [{} -> Versions \cup {Gone}] /\ {} \in SUBSET Loras
    OBVIOUS
  <2> QED
    BY <2>1 DEF Signatures
<1> QED
  BY <1>1 DEF Call, Calling

(* A call that begins has the type of one, and so has no call.             *)
LEMMA NewCallType ==
  ASSUME Setting
  PROVE  NoCall \in Calling /\ Calls \subseteq Calling
<1>1. TurboModel \in Models
  BY DEF Setting, ResidencyAssumption
<1>2. NoCall \in Calling
  BY <1>1, CallMakesCall DEF NoCall, Kinds
<1>3. ASSUME NEW c \in Calls PROVE c \in Calling
  BY <1>1, CallMakesCall DEF Calls, Kinds
<1> QED
  BY <1>2, <1>3

(* A pipeline just loaded, and what is done to it later, is an entry.      *)
LEMMA EntryType ==
  /\ Offload \in BOOLEAN => \A m \in Models : Entry(m) \in Entries
  /\ \A e \in Entries :
       /\ [e EXCEPT !.hooked = FALSE] \in Entries
       /\ [e EXCEPT !.applied = None] \in Entries
BY DEF Entries, Entry

(* The lock keeps its type.                                                *)
LEMMA LockType ==
  ASSUME TypeOK, lock.depth > 0
  PROVE  Released \in [holder : Threads \cup {None}, depth : Nat]
BY TypesOf DEF Released

-----------------------------------------------------------------------------
(* Nobody else is inside while a thread is, or holds the lock, or nobody   *)
(* does: what the others have is not touched.                              *)

(* The device may be touched for t: the lock is its own or free.           *)
Alone(t) == pc[t] \in Inside \/ lock.depth = 0 \/ lock.holder = t

LEMMA Others ==
  ASSUME IInv, NEW t,
         \A u \in Threads \ {t} : pc'[u] = pc[u] /\ call'[u] = call[u],
         (lock' = lock /\ state' = state) \/ (t \in Threads /\ Alone(t)) \/ lock.depth = 0
  PROVE  \A u \in Threads \ {t} : Holds(u)'
<1> SUFFICES ASSUME NEW u \in Threads \ {t}
             PROVE  Holds(u)'
  OBVIOUS
<1>1. Holds(u) /\ pc'[u] = pc[u] /\ call'[u] = call[u]
  BY DEF IInv
<1>2. CASE lock' = lock /\ state' = state
  BY <1>1, <1>2 DEF Holds, StyleOf
<1>3. CASE (t \in Threads /\ Alone(t)) \/ lock.depth = 0
  <2>1. lock.depth \in Nat
    BY TypesOf DEF IInv
  <2>2. pc[u] \notin Inside
    BY <1>1, <1>3, <2>1 DEF Holds, Alone, IInv
  <2> QED
    BY <1>1, <2>2 DEF Holds, Inside, Using
<1> QED
  BY <1>2, <1>3

-----------------------------------------------------------------------------
(* Steps.                                                                  *)

(* The initial state.                                                      *)
LEMMA InitHolds == ASSUME Setting, Init PROVE IInv
<1>1. TypeOK
  <2>1. pc \in [Threads -> Places] /\ call \in [Threads -> Calling]
    <3>1. Call("generate", TurboModel, {}) \in Calling
      BY NewCallType DEF Calls, Setting, ResidencyAssumption
    <3> QED
      BY <3>1, NewCallType DEF Init, Places
  <2>2. 0 \in Versions /\ 0 \in 0 .. MaxCalls
    BY DEF Versions, Setting, ResidencyAssumption
  <2>3. lock \in [holder : Threads \cup {None}, depth : Nat]
    BY DEF Init
  <2>4. file \in [Loras -> Versions \cup {Gone}]
    BY <2>2 DEF Init
  <2> QED
    BY <2>1, <2>2, <2>3, <2>4 DEF Init, TypeOK, Places, Calling
<1>2. \A t \in Threads : pc[t] \notin Inside
  BY DEF Init, Inside, Using
<1>3. \A t \in Threads : Holds(t)
  BY <1>2 DEF Holds, Inside, Using
<1>4. RecordTrue
  BY DEF Init, RecordTrue
<1> QED
  BY <1>1, <1>3, <1>4 DEF IInv

(* The frame of a step of thread t: it alone goes on, and the types of the *)
(* variables it leaves alone stay.                                         *)
Frame(t) ==
  /\ \A u \in Threads \ {t} : pc'[u] = pc[u] /\ call'[u] = call[u]
  /\ pc' \in [Threads -> Places] /\ call' \in [Threads -> Calling]

LEMMA MoveFrame ==
  ASSUME TypeOK, NEW t \in Threads, NEW w \in Places, NEW c \in Calling,
         Moves(t, w, c)
  PROVE  Frame(t) /\ pc'[t] = w /\ call'[t] = c
<1>1. pc \in [Threads -> Places] /\ call \in [Threads -> Calling]
  BY TypesOf
<1>2. pc' = [pc EXCEPT ![t] = w] /\ call' = [call EXCEPT ![t] = c]
  BY DEF Moves
<1> QED
  BY <1>1, <1>2 DEF Frame

LEMMA GoFrame ==
  ASSUME TypeOK, NEW t \in Threads, NEW w \in Places, Goes(t, w)
  PROVE  Frame(t) /\ pc'[t] = w /\ call'[t] = call[t]
<1>1. call[t] \in Calling
  BY TypesOf
<1> QED
  BY <1>1, MoveFrame DEF Goes

LEMMA RaiseFrame ==
  ASSUME TypeOK, NEW t \in Threads,
         NEW e \in {"oom", "driver", "canceled", "adapters", "other"}, Raises(t, e)
  PROVE  /\ Frame(t) /\ pc'[t] = "failed" /\ call'[t].kind = call[t].kind
         /\ call'[t].model = call[t].model /\ call'[t].base = FALSE
<1> DEFINE c == Call(call[t].kind, call[t].model, {})
<1>1. call[t].kind \in Kinds /\ call[t].model \in Models /\ {} \in SUBSET Loras
  BY TypesOf DEF Calling
<1>2. c \in Calling
  BY <1>1, CallMakesCall
<1>3. [c EXCEPT !.err = e] \in Calling
  BY <1>2, CallType
<1>4. Frame(t) /\ pc'[t] = "failed" /\ call'[t] = [c EXCEPT !.err = e]
  BY <1>3, MoveFrame DEF Raises, Places
<1>5. /\ [c EXCEPT !.err = e].kind = call[t].kind
      /\ [c EXCEPT !.err = e].model = call[t].model
      /\ [c EXCEPT !.err = e].base = FALSE
  BY DEF Call
<1> QED
  BY <1>4, <1>5

LEMMA EndFrame ==
  ASSUME Setting, TypeOK, NEW t \in Threads, Ends(t)
  PROVE  Frame(t) /\ pc'[t] = "idle" /\ call'[t] = NoCall
BY NewCallType, MoveFrame DEF Ends, Places

(* What thread t relies on is looked at when it is the one that moves.     *)
LEMMA Together ==
  ASSUME IInv, NEW t \in Threads, Frame(t),
         (lock' = lock /\ state' = state) \/ Alone(t), Holds(t)'
  PROVE  \A u \in Threads : Holds(u)'
BY Others DEF Frame

(* A thread that is outside afterwards needs nothing.                      *)
LEMMA Outside ==
  ASSUME NEW t, pc'[t] \notin Inside
  PROVE  Holds(t)'
BY DEF Holds, Inside, Using

(* A job begins.                                                           *)
LEMMA BeginHolds ==
  ASSUME Setting, IInv, NEW t \in Pool, NEW c \in Calls, Begin(t, c)
  PROVE  IInv'
<1>0. t \in Threads /\ TypeOK /\ c \in Calling
  BY NewCallType DEF Threads, IInv
<1>1. Frame(t) /\ pc'[t] \in {"prefetch", "lock"}
  BY <1>0, MoveFrame DEF Begin, Places
<1>2. \A u \in Threads : Holds(u)'
  BY <1>0, <1>1, Outside, Together DEF Begin, Inside, Using
<1>3. TypeOK'
  <2>1. calls' \in 0 .. MaxCalls
    BY <1>0, TypesOf DEF Begin, Setting, ResidencyAssumption
  <2> QED
    BY <1>0, <1>1, <2>1, TypesOf DEF Begin, Frame, TypeOK, Places, Calling
<1>4. RecordTrue'
  BY DEF Begin, RecordTrue, IInv
<1> QED
  BY <1>2, <1>3, <1>4 DEF IInv

(* What is fetched is fetched outside.                                     *)
LEMMA PrefetchHolds ==
  ASSUME Setting, IInv, NEW t \in Threads, Prefetch(t) \/ PrefetchFails(t)
  PROVE  IInv'
<1>0. TypeOK /\ call[t] \in Calling
  BY TypesOf DEF IInv
<1>1. Frame(t) /\ pc'[t] \in {"lock", "failed"}
  <2>1. CASE PrefetchFails(t)
    BY <2>1, <1>0, RaiseFrame DEF PrefetchFails
  <2>2. CASE Prefetch(t)
    <3>1. \E b, f \in BOOLEAN :
            \/ Moves(t, "lock", [call[t] EXCEPT !.found = f])
            \/ Moves(t, "lock", [call[t] EXCEPT !.base = b, !.found = f])
      BY <2>2, <1>0 DEF Prefetch, Calling
    <3> QED
      BY <3>1, <1>0, MoveFrame, CallType DEF Places
  <2> QED
    BY <2>1, <2>2
<1>2. \A u \in Threads : Holds(u)'
  BY <1>0, <1>1, Outside, Together DEF Prefetch, PrefetchFails, Inside, Using
<1>3. TypeOK'
  <2>1. disk' \subseteq Models \X {"pipeline", "svdq", "transformer", "controlnet"}
    <3>1. call[t].model \in Models /\ TurboModel \in Models
      BY <1>0 DEF Calling, Setting, ResidencyAssumption
    <3> QED
      BY <1>0, <3>1, TypesOf DEF Prefetch, PrefetchFails, Parts, ControlNet
  <2> QED
    BY <1>0, <1>1, <2>1, TypesOf DEF Prefetch, PrefetchFails, Frame, TypeOK, Places, Calling
<1>4. RecordTrue'
  BY DEF Prefetch, PrefetchFails, RecordTrue, IInv
<1> QED
  BY <1>2, <1>3, <1>4 DEF IInv

(* The device is entered, for the first time or again.                     *)
LEMMA AcquireHolds ==
  ASSUME Setting, IInv, NEW t \in Threads, Acquire(t)
  PROVE  IInv'
<1>0. TypeOK /\ call[t] \in Calling /\ lock.depth \in Nat
  BY TypesOf DEF IInv
<1>1. Frame(t) /\ pc'[t] \in {"get", "work"} /\ call'[t] = call[t]
  BY <1>0, GoFrame DEF Acquire, Places
<1>2. lock' = [holder |-> t, depth |-> lock.depth + 1] /\ state' = state
  BY DEF Acquire
<1>3. Holds(t)'
  BY <1>0, <1>1, <1>2 DEF Holds, Using
<1>4. \A u \in Threads : Holds(u)'
  BY <1>0, <1>1, <1>3, Together DEF Acquire, Alone, Free
<1>5. TypeOK'
  BY <1>0, <1>1, <1>2, TypesOf DEF Acquire, Frame, TypeOK, Places, Calling
<1>6. RecordTrue'
  BY <1>2 DEF RecordTrue, IInv
<1> QED
  BY <1>4, <1>5, <1>6 DEF IInv

(* The pipeline is there, or the one that was is dropped for it.           *)
LEMMA GetHolds ==
  ASSUME Setting, IInv, NEW t \in Threads, Get(t)
  PROVE  IInv'
<1>0. TypeOK /\ call[t] \in Calling
  BY TypesOf DEF IInv
<1>1. Frame(t) /\ call'[t] = call[t]
      /\ pc'[t] = IF call[t].kind = "control" THEN "rehook" ELSE "style"
  BY <1>0, GoFrame DEF Get, Places
<1>2. (Complete(call[t].model) /\ state' = state) \/ state' = Entry(call[t].model)
  BY DEF Get
<1>3. call[t].model \in Models /\ Entry(call[t].model) \in Entries
  BY <1>0, EntryType DEF Calling, Setting, ResidencyAssumption
<1>4. state' # None /\ state'.model = call[t].model
  BY <1>2, <1>3 DEF Complete, Entry, Setting, NoneIsNothing
<1>5. Holds(t)'
  BY <1>0, <1>1, <1>4 DEF Get, Holds, Inside, Using, IInv
<1>6. \A u \in Threads : Holds(u)'
  BY <1>0, <1>1, <1>5, Together DEF Get, Alone, Inside
<1>7. TypeOK'
  BY <1>0, <1>1, <1>2, <1>3, TypesOf DEF Get, Frame, TypeOK, Places, Calling
<1>8. RecordTrue'
  BY <1>2 DEF RecordTrue, IInv, Entry
<1> QED
  BY <1>6, <1>7, <1>8 DEF IInv

(* A load that fails leaves nothing resident, whether the lock goes back   *)
(* with it or not.                                                         *)
LEMMA LoadFailsHolds ==
  ASSUME Setting, IInv, NEW t \in Threads, BaseRequired(t) \/ LoadFails(t)
  PROVE  IInv'
<1>0. TypeOK /\ call[t] \in Calling /\ pc[t] = "get" /\ lock.depth > 0
  BY TypesOf DEF IInv, BaseRequired, LoadFails, Holds, Inside
<1>1. Frame(t) /\ pc'[t] \in {"prefetch", "failed"}
  BY <1>0, MoveFrame, RaiseFrame, CallType DEF BaseRequired, LoadFails, Places
<1>2. \A u \in Threads : Holds(u)'
  BY <1>0, <1>1, Outside, Together DEF Alone, Inside, Using
<1>3. lock' \in [holder : Threads \cup {None}, depth : Nat]
  BY <1>0, LockType, TypesOf DEF BaseRequired, LoadFails
<1>4. TypeOK'
  BY <1>0, <1>1, <1>3, TypesOf DEF BaseRequired, LoadFails, Frame, TypeOK, Places, Calling
<1>5. RecordTrue'
  BY DEF BaseRequired, LoadFails, RecordTrue
<1> QED
  BY <1>2, <1>4, <1>5 DEF IInv

(* What a computation that ends, or is refused, leaves behind.             *)
LEMMA ReleasedHolds ==
  ASSUME Setting, IInv, NEW t \in Threads,
         SettingsRefused(t) \/ Denoise(t) \/ ToolWorks(t)
  PROVE  IInv'
<1>0. TypeOK /\ call[t] \in Calling /\ pc[t] \in Inside /\ lock.depth > 0
  BY TypesOf DEF IInv, SettingsRefused, Denoise, ToolWorks, Holds, Inside, Using
<1>1. Frame(t) /\ pc'[t] \in {"idle", "failed"}
  BY <1>0, EndFrame, RaiseFrame DEF SettingsRefused, Denoise, ToolWorks
<1>2. \A u \in Threads : Holds(u)'
  BY <1>0, <1>1, Outside, Together DEF Alone, Inside, Using
<1>3. lock' \in [holder : Threads \cup {None}, depth : Nat] /\ state' \in {state, None}
  BY <1>0, LockType DEF SettingsRefused, Denoise, ToolWorks
<1>4. TypeOK'
  BY <1>0, <1>1, <1>3, TypesOf
  DEF SettingsRefused, Denoise, ToolWorks, Frame, TypeOK, Places, Calling
<1>5. RecordTrue'
  BY <1>3 DEF RecordTrue, IInv
<1> QED
  BY <1>2, <1>4, <1>5 DEF IInv

(* The adapters that are on are among those asked for.                     *)
LEMMA AttachedOn ==
  ASSUME TypeOK, NEW t \in Threads, state # None,
         NEW stuck \in SUBSET Loras, NEW broken \in SUBSET Loras
  PROVE  LET want == call[t].loras
             on   == Attached(want, call[t].model, stuck, broken)
             after == LoadedAfter(want, call[t].model, stuck, broken)
         IN  /\ on \subseteq want /\ want \subseteq Loras
             /\ after \in [Loras -> Versions \cup {None}]
             /\ \A l \in on : after[l] = Signature(t)[l]
<1> DEFINE want  == call[t].loras
           on    == Attached(want, call[t].model, stuck, broken)
           after == LoadedAfter(want, call[t].model, stuck, broken)
<1>1. on \subseteq want /\ want \subseteq Loras
  BY TypesOf DEF Attached, Calling
<1>2. state.loaded \in [Loras -> Versions \cup {None}]
  BY TypesOf DEF Entries
<1>3. \A l \in Loras : Usable(l, call[t].model) => file[l] \in Versions
  BY TypesOf DEF Usable
<1>4. \A l \in on : Usable(l, call[t].model)
  BY DEF Attached
<1>5. ASSUME NEW l \in Loras
      PROVE  /\ after[l] \in Versions \cup {None}
             /\ l \in on => after[l] = file[l]
  <2>1. Kept(want, stuck)[l] \in Versions \cup {None}
    BY <1>2 DEF Kept
  <2> QED
    BY <1>3, <1>4, <2>1 DEF LoadedAfter
<1>6. after \in [Loras -> Versions \cup {None}]
  <2> HIDE DEF want
  <2> QED
    BY <1>5 DEF LoadedAfter
<1>7. \A l \in on : after[l] = Signature(t)[l]
  BY <1>1, <1>5, SignatureType
<1> QED
  BY <1>1, <1>6, <1>7

(* Whichever way _apply_loras comes out, what it leaves on is what the     *)
(* thread goes on with.                                                    *)
LEMMA StyledHolds ==
  ASSUME Setting, IInv, NEW t \in Threads, pc[t] = "style",
         NEW entry \in Entries, NEW off \in SUBSET Loras, Styled(t, entry, off),
         entry.model = state.model,
         \A l \in entry.active : entry.loaded[l] = Signature(t)[l],
         entry.active = IF entry.applied = Signature(t)
                          THEN call[t].loras \ off ELSE {},
         entry.applied # None =>
           /\ entry.active = DOMAIN entry.applied \ entry.unapplied
           /\ \A l \in entry.active : entry.loaded[l] = entry.applied[l],
         UNCHANGED <<lock, control, disk, file, loop, calls, edits>>
  PROVE  IInv'
<1> DEFINE c == [call[t] EXCEPT !.asked = Signature(t), !.skipped = off]
<1>0. TypeOK /\ call[t] \in Calling /\ Signature(t) \in Signatures
  BY TypesOf, SignatureType DEF IInv
<1>1. c \in Calling /\ c.asked = Signature(t) /\ c.skipped = off
      /\ c.loras = call[t].loras /\ c.model = call[t].model
  <2>1. c \in Calling
    BY <1>0, CallType
  <2>2. c.asked = Signature(t) /\ c.skipped = off
    BY <1>0 DEF Calling
  <2>3. c.loras = call[t].loras /\ c.model = call[t].model
    BY <1>0 DEF Calling
  <2> QED
    BY <2>1, <2>2, <2>3
<1>2. Frame(t) /\ pc'[t] = "ready" /\ call'[t] = c
  <2> HIDE DEF c
  <2>1. Moves(t, "ready", c)
    BY DEF Styled, c
  <2> QED
    BY <1>0, <1>1, <2>1, MoveFrame DEF Places
<1>3. state' = entry /\ entry # None
  BY DEF Styled, Setting, NoneIsNothing
<1>4. Holds(t) /\ state # None /\ state.model = call[t].model /\ lock.holder = t /\ lock.depth > 0
  BY DEF IInv, Holds, Inside, Using
<1> HIDE DEF c
<1>5. StyleOf(t)'
  BY <1>1, <1>2, <1>3 DEF StyleOf
<1>6. Holds(t)'
  BY <1>1, <1>2, <1>3, <1>4, <1>5 DEF Holds
<1>7. \A u \in Threads : Holds(u)'
  BY <1>2, <1>6, Together DEF Alone, Inside, Using
<1>8. TypeOK'
  BY <1>0, <1>2, <1>3, TypesOf DEF Frame, TypeOK, Places, Calling
<1>9. RecordTrue'
  BY <1>3 DEF RecordTrue
<1> QED
  BY <1>7, <1>8, <1>9 DEF IInv

(* The set applied last serves again.                                      *)
LEMMA StyleCachedHolds ==
  ASSUME Setting, IInv, NEW t \in Threads, StyleCached(t)
  PROVE  IInv'
<1>0. TypeOK /\ pc[t] = "style" /\ state # None /\ state.applied = Signature(t)
  BY DEF IInv, StyleCached, Holds, Using
<1>1. state \in Entries /\ state.unapplied \in SUBSET Loras
  BY <1>0, TypesOf DEF Entries
<1>2. Signature(t) \in Signatures /\ DOMAIN Signature(t) = call[t].loras
  BY <1>0, SignatureType
<1>3. /\ state.active = call[t].loras \ state.unapplied
      /\ \A l \in state.active : state.loaded[l] = Signature(t)[l]
  BY <1>0, <1>2 DEF IInv, RecordTrue, Setting, NoneIsNothing
<1> QED
  BY <1>0, <1>1, <1>2, <1>3, StyledHolds DEF StyleCached, IInv, RecordTrue

(* A clean slate, and the adapters that load.                              *)
LEMMA StyleAppliedHolds ==
  ASSUME Setting, IInv, NEW t \in Threads, StyleApplied(t)
  PROVE  IInv'
<1>0. TypeOK /\ pc[t] = "style" /\ state # None /\ Signature(t) \in Signatures
      /\ DOMAIN Signature(t) = call[t].loras
  BY SignatureType DEF IInv, StyleApplied, Holds, Using
<1>1. state \in Entries
  BY <1>0, TypesOf
<1> DEFINE want == call[t].loras
           m    == call[t].model
<1>2. PICK stuck \in SUBSET Loras, broken \in SUBSET Loras, refused \in BOOLEAN :
        LET on    == Attached(want, m, stuck, broken)
            after == [state EXCEPT !.loaded = LoadedAfter(want, m, stuck, broken)]
        IN  IF on # {} /\ refused
              THEN Styled(t, [after EXCEPT !.active = {}, !.applied = None], on)
              ELSE Styled(t, [after EXCEPT !.active    = on,
                                           !.applied   = Signature(t),
                                           !.unapplied = want \ on], want \ on)
  BY DEF StyleApplied
<1> DEFINE on      == Attached(want, m, stuck, broken)
           after   == LoadedAfter(want, m, stuck, broken)
           blank   == [[state EXCEPT !.loaded = after] EXCEPT !.active = {}, !.applied = None]
           applied == [[state EXCEPT !.loaded = after] EXCEPT !.active = on,
                          !.applied = Signature(t), !.unapplied = want \ on]
<1>3. /\ on \subseteq want /\ want \subseteq Loras
      /\ after \in [Loras -> Versions \cup {None}]
      /\ \A l \in on : after[l] = Signature(t)[l]
  BY <1>0, AttachedOn
<1>4. \/ Styled(t, blank, on)
      \/ Styled(t, applied, want \ on)
  BY <1>2
<1>5. UNCHANGED <<lock, control, disk, file, loop, calls, edits>>
  BY DEF StyleApplied
<1> HIDE DEF on, after
<1>6. CASE Styled(t, blank, on)
  <2>1. /\ blank \in Entries /\ blank.model = state.model
        /\ blank.active = {} /\ blank.applied = None
    BY <1>1, <1>3 DEF Entries
  <2>2. None # Signature(t)
    BY <1>0 DEF Setting, NoneIsNothing
  <2> HIDE DEF blank
  <2> QED
    BY <1>0, <1>3, <1>5, <1>6, <2>1, <2>2, StyledHolds
<1>7. CASE Styled(t, applied, want \ on)
  <2>1. /\ applied \in Entries /\ applied.model = state.model
        /\ applied.active = on /\ applied.applied = Signature(t)
        /\ applied.unapplied = want \ on /\ applied.loaded = after
    BY <1>0, <1>1, <1>3 DEF Entries
  <2>2. on = want \ (want \ on)
    BY <1>3
  <2> HIDE DEF applied
  <2> QED
    BY <1>0, <1>3, <1>5, <1>7, <2>1, <2>2, StyledHolds
<1> QED
  BY <1>4, <1>6, <1>7

(* The previous adapters stay on, and the record of them goes.             *)
LEMMA StyleFailsHolds ==
  ASSUME Setting, IInv, NEW t \in Threads, StyleFails(t)
  PROVE  IInv'
<1>0. TypeOK /\ call[t] \in Calling /\ pc[t] \in Inside /\ lock.depth > 0 /\ state # None
  BY TypesOf DEF IInv, StyleFails, Holds, Inside, Using
<1>1. Frame(t) /\ pc'[t] = "failed"
  BY <1>0, RaiseFrame DEF StyleFails
<1>2. \A u \in Threads : Holds(u)'
  BY <1>0, <1>1, Outside, Together DEF Alone, Inside, Using
<1>3. state' \in Entries /\ state'.applied = None
  BY <1>0, EntryType, TypesOf DEF StyleFails, Entries
<1>4. lock' \in [holder : Threads \cup {None}, depth : Nat]
  BY <1>0, LockType DEF StyleFails
<1>5. TypeOK'
  BY <1>0, <1>1, <1>3, <1>4, TypesOf DEF StyleFails, Frame, TypeOK, Places, Calling
<1>6. RecordTrue'
  BY <1>3 DEF RecordTrue
<1> QED
  BY <1>2, <1>5, <1>6 DEF IInv

(* The hooks come off: the adapters stay as they are.                      *)
LEMMA RehookHolds ==
  ASSUME Setting, IInv, NEW t \in Threads, Rehook(t) \/ RehookFails(t)
  PROVE  IInv'
<1>0. TypeOK /\ call[t] \in Calling /\ pc[t] = "rehook" /\ lock.depth > 0
      /\ lock.holder = t /\ state # None /\ state.model = call[t].model
      /\ call[t].kind = "control"
  BY TypesOf DEF IInv, Rehook, RehookFails, Holds, Inside, Using
<1>1. state \in Entries
  BY <1>0, TypesOf
<1>2. /\ state' \in Entries /\ state'.model = state.model
      /\ state'.active = state.active /\ state'.loaded = state.loaded
      /\ state'.applied = state.applied /\ state'.unapplied = state.unapplied
  BY <1>1, EntryType DEF Rehook, RehookFails, Entries
<1>3. state' # None
  BY <1>2 DEF Setting, NoneIsNothing
<1>4. RecordTrue'
  BY <1>0, <1>2 DEF RecordTrue, IInv
<1>5. CASE RehookFails(t)
  <2>1. Frame(t) /\ pc'[t] = "failed"
    BY <1>0, <1>5, RaiseFrame DEF RehookFails
  <2>2. \A u \in Threads : Holds(u)'
    BY <1>0, <2>1, Outside, Together DEF Alone, Inside, Using
  <2>3. lock' \in [holder : Threads \cup {None}, depth : Nat]
    BY <1>0, <1>5, LockType DEF RehookFails
  <2>4. TypeOK'
    BY <1>0, <1>2, <1>5, <2>1, <2>3, TypesOf DEF RehookFails, Frame, TypeOK, Places, Calling
  <2> QED
    BY <1>4, <2>2, <2>4 DEF IInv
<1>6. CASE Rehook(t)
  <2>1. Frame(t) /\ pc'[t] = "ready" /\ call'[t] = call[t] /\ lock' = lock
    BY <1>0, <1>6, GoFrame DEF Rehook, Places
  <2>2. Holds(t)'
    BY <1>0, <1>2, <1>3, <1>6, <2>1 DEF Holds
  <2>3. \A u \in Threads : Holds(u)'
    BY <1>0, <2>1, <2>2, Together DEF Alone
  <2>4. TypeOK'
    BY <1>0, <1>2, <1>6, <2>1, TypesOf DEF Rehook, Frame, TypeOK, Places, Calling
  <2> QED
    BY <1>4, <2>3, <2>4 DEF IInv
<1> QED
  BY <1>5, <1>6

(* The last look at a cancel before the pipeline runs.                     *)
LEMMA StartHolds ==
  ASSUME Setting, IInv, NEW t \in Threads, StartDenoising(t)
  PROVE  IInv'
<1>0. TypeOK /\ call[t] \in Calling /\ pc[t] = "ready" /\ lock.depth > 0 /\ Holds(t)
      /\ state' = state
  BY TypesOf DEF IInv, StartDenoising, Holds, Inside, Using
<1>1. RecordTrue'
  BY <1>0 DEF RecordTrue, IInv
<1>2. CASE Goes(t, "denoise") /\ UNCHANGED lock
  <2>1. Frame(t) /\ pc'[t] = "denoise" /\ call'[t] = call[t] /\ lock' = lock
    BY <1>0, <1>2, GoFrame DEF Places
  <2>2. Holds(t)'
    BY <1>0, <2>1 DEF Holds, StyleOf, Inside, Using
  <2>3. \A u \in Threads : Holds(u)'
    BY <1>0, <2>1, <2>2, Together DEF Alone
  <2>4. TypeOK'
    BY <1>0, <2>1, TypesOf DEF StartDenoising, Frame, TypeOK, Places, Calling
  <2> QED
    BY <1>1, <2>3, <2>4 DEF IInv
<1>3. CASE Raises(t, "canceled") /\ lock' = Released
  <2>1. Frame(t) /\ pc'[t] = "failed"
    BY <1>0, <1>3, RaiseFrame
  <2>2. \A u \in Threads : Holds(u)'
    BY <1>0, <2>1, Outside, Together DEF Alone, Inside, Using
  <2>3. lock' \in [holder : Threads \cup {None}, depth : Nat]
    BY <1>0, <1>3, LockType
  <2>4. TypeOK'
    BY <1>0, <2>1, <2>3, TypesOf DEF StartDenoising, Frame, TypeOK, Places, Calling
  <2> QED
    BY <1>1, <2>2, <2>4 DEF IInv
<1> QED
  BY <1>2, <1>3 DEF StartDenoising

(* The lane looks at the failure: the device is not touched yet.           *)
LEMMA HandleHolds ==
  ASSUME Setting, IInv, NEW t \in Threads, HandleFailure(t)
  PROVE  IInv'
<1>0. TypeOK
  BY DEF IInv
<1>1. Frame(t) /\ pc'[t] \in {"freeing", "idle"}
  BY <1>0, GoFrame, EndFrame DEF HandleFailure, Places
<1>2. loop' \in {loop, t} /\ UNCHANGED <<lock, state, control, disk, file, calls, edits>>
  BY DEF HandleFailure
<1>3. \A u \in Threads : Holds(u)'
  BY <1>1, <1>2, Outside, Together DEF Inside, Using
<1>4. TypeOK'
  BY <1>0, <1>1, <1>2, TypesOf DEF Frame, TypeOK, Places, Calling
<1>5. RecordTrue'
  BY <1>2 DEF RecordTrue, IInv
<1> QED
  BY <1>3, <1>4, <1>5 DEF IInv

(* free_all finds the lock free: nobody is inside.                         *)
LEMMA FreeAllHolds ==
  ASSUME Setting, IInv, FreeAll
  PROVE  IInv'
<1>0. TypeOK /\ loop \in Threads /\ lock.depth = 0
  BY TypesOf DEF IInv, FreeAll, Free
<1>1. Frame(loop) /\ pc'[loop] = "idle"
  BY <1>0, EndFrame DEF FreeAll
<1>2. \A u \in Threads : Holds(u)'
  BY <1>0, <1>1, Outside, Together DEF Alone, Inside, Using
<1>3. TypeOK'
  BY <1>0, <1>1, TypesOf DEF FreeAll, Frame, TypeOK, Places, Calling
<1>4. RecordTrue'
  BY DEF FreeAll, RecordTrue
<1> QED
  BY <1>2, <1>3, <1>4 DEF IInv

(* An adapter's file changes: what was read of it does not.                *)
LEMMA EditHolds ==
  ASSUME Setting, IInv, NEW l \in Loras, EditFile(l)
  PROVE  IInv'
<1>0. TypeOK /\ UNCHANGED <<pc, call, lock, state, control, disk, loop, calls>>
  BY DEF IInv, EditFile
<1>1. \A u \in Threads : Holds(u)'
  BY <1>0 DEF IInv, Holds, StyleOf
<1>2. TypeOK'
  <2>1. MaxEdits \in Nat
    BY DEF Setting, ResidencyAssumption
  <2>2. edits + 1 \in Versions /\ edits' = edits + 1
    BY <1>0, <2>1, TypesOf DEF EditFile, Versions
  <2>3. file' \in [Loras -> Versions \cup {Gone}]
    BY <1>0, <2>2, TypesOf DEF EditFile
  <2> QED
    BY <1>0, <2>2, <2>3 DEF TypeOK
<1>3. RecordTrue'
  BY <1>0 DEF RecordTrue, IInv
<1> QED
  BY <1>1, <1>2, <1>3 DEF IInv

(* Every step.                                                             *)
LEMMA StepHolds == ASSUME Setting, IInv, [Next]_vars PROVE IInv'
<1>1. ASSUME NEW t \in Threads, Thread(t) PROVE IInv'
  BY <1>1, PrefetchHolds, AcquireHolds, GetHolds, LoadFailsHolds, ReleasedHolds,
     StyleCachedHolds, StyleAppliedHolds, StyleFailsHolds, RehookHolds, StartHolds,
     HandleHolds DEF Thread
<1>2. ASSUME UNCHANGED vars PROVE IInv'
  <2>1. \A t \in Threads : Holds(t)'
    BY <1>2 DEF vars, IInv, Holds, StyleOf
  <2>2. TypeOK' /\ RecordTrue'
    BY <1>2 DEF vars, IInv, TypeOK, RecordTrue
  <2> QED
    BY <2>1, <2>2 DEF IInv
<1> QED
  BY <1>1, <1>2, BeginHolds, FreeAllHolds, EditHolds DEF Next

-----------------------------------------------------------------------------
(* What a load needs is on disk.                                           *)

(* Only calls of the pipeline fetch, load and borrow.                      *)
CallFits(t) ==
  pc[t] \in {"prefetch", "get"} \cup Using => call[t].kind \in {"generate", "control"}

(* What was fetched stays fetched, SVDQuant's loads make up for what is    *)
(* missing, and the one call that goes without is the one found says.      *)
Fetched(t) ==
  /\ pc[t] \in {"lock", "get"} /\ call[t].kind \in {"generate", "control"} =>
       \/ Parts(call[t].model, call[t].base) \subseteq disk
       \/ UsesSvdq(call[t].model, call[t].base)
       \/ call[t].found
  /\ pc[t] \in {"lock", "get", "rehook"} /\ call[t].kind = "control" => ControlNet \in disk

(* What is resident was read from disk.                                    *)
ReadFromDisk ==
  /\ state # None /\ state.model \notin Nunchaku => Parts(state.model, FALSE) \subseteq disk
  /\ control => ControlNet \in disk

LInv == (\A t \in Threads : CallFits(t) /\ Fetched(t)) /\ ReadFromDisk

(* The initial state.                                                      *)
LEMMA InitLoads == ASSUME Setting, Init PROVE LInv
<1>1. ASSUME NEW t \in Threads PROVE CallFits(t) /\ Fetched(t)
  <2>1. call[t] \in {NoCall, Call("generate", TurboModel, {})} /\ pc[t] \in {"idle", "prefetch"}
    BY DEF Init
  <2>2. pc[t] = "prefetch" => call[t] = Call("generate", TurboModel, {})
    BY DEF Init
  <2> QED
    BY <2>1, <2>2 DEF CallFits, Fetched, NoCall, Call, Using
<1>2. ReadFromDisk
  BY DEF Init, ReadFromDisk
<1> QED
  BY <1>1, <1>2 DEF LInv

(* The other threads, while one steps: nothing leaves the disk.            *)
LEMMA OthersLoad ==
  ASSUME LInv, NEW t, \A u \in Threads \ {t} : pc'[u] = pc[u] /\ call'[u] = call[u],
         disk \subseteq disk'
  PROVE  \A u \in Threads \ {t} : CallFits(u)' /\ Fetched(u)'
<1> SUFFICES ASSUME NEW u \in Threads \ {t}
             PROVE  CallFits(u)' /\ Fetched(u)'
  OBVIOUS
<1>1. CallFits(u) /\ Fetched(u) /\ pc'[u] = pc[u] /\ call'[u] = call[u]
  BY DEF LInv
<1>2. CallFits(u)'
  BY <1>1 DEF CallFits
<1>3. Fetched(u)'
  BY <1>1 DEF Fetched, Parts, UsesSvdq
<1> QED
  BY <1>2, <1>3

(* The steps that neither fetch nor load nor let a call begin.             *)
LEMMA OnwardLoads ==
  ASSUME Setting, IInv, LInv, NEW t \in Threads,
         Frame(t), disk' = disk,
         \/ pc'[t] = "idle" /\ call'[t] = NoCall
         \/ /\ pc[t] # "idle" /\ call'[t].kind = call[t].kind
            /\ \/ pc'[t] \in {"failed", "freeing", "work"}
               \/ pc'[t] \in {"ready", "denoise"} /\ pc[t] \in Using,
         state' = None \/ (state # None /\ state'.model = state.model),
         control' => control \/ (pc[t] = "rehook")
  PROVE  LInv'
<1>1. \A u \in Threads \ {t} : pc'[u] = pc[u] /\ call'[u] = call[u]
  BY DEF Frame
<1>2. \A u \in Threads \ {t} : CallFits(u)' /\ Fetched(u)'
  BY <1>1, OthersLoad
<1>3. CallFits(t) /\ Fetched(t) /\ Holds(t)
  BY DEF LInv, IInv
<1>4. CallFits(t)' /\ Fetched(t)'
  <2>1. CASE pc'[t] = "idle" /\ call'[t] = NoCall
    BY <2>1 DEF CallFits, Fetched, NoCall, Call, Using
  <2>2. CASE pc'[t] # "idle"
    BY <1>3, <2>2 DEF CallFits, Fetched, Using
  <2> QED
    BY <2>1, <2>2
<1>5. ReadFromDisk'
  BY <1>3 DEF LInv, ReadFromDisk, Parts, UsesSvdq, Fetched, Holds
<1> QED
  BY <1>2, <1>4, <1>5 DEF LInv

(* A step that ends a call, stops it or lets it go on.                     *)
LEMMA OnwardSteps ==
  ASSUME Setting, IInv, LInv, NEW t \in Threads,
         \/ PrefetchFails(t) \/ LoadFails(t) \/ StyleCached(t) \/ StyleApplied(t)
         \/ StyleFails(t) \/ SettingsRefused(t) \/ Rehook(t) \/ RehookFails(t)
         \/ StartDenoising(t) \/ Denoise(t) \/ ToolWorks(t) \/ HandleFailure(t)
  PROVE  LInv'
<1>0. TypeOK /\ call[t] \in Calling /\ Holds(t)
  BY TypesOf DEF IInv
<1>1. CASE PrefetchFails(t) \/ LoadFails(t) \/ SettingsRefused(t) \/ Denoise(t) \/ ToolWorks(t)
           \/ RehookFails(t) \/ StyleFails(t) \/ (StartDenoising(t) /\ ~Goes(t, "denoise"))
  <2>1. /\ Frame(t) /\ disk' = disk /\ pc[t] # "idle"
        /\ \/ pc'[t] = "idle" /\ call'[t] = NoCall
           \/ pc'[t] = "failed" /\ call'[t].kind = call[t].kind
    <3>1. (\E e \in {"oom", "driver", "canceled", "adapters", "other"} : Raises(t, e)) \/ Ends(t)
      BY <1>1 DEF PrefetchFails, LoadFails, SettingsRefused, Denoise, ToolWorks,
                  RehookFails, StyleFails, StartDenoising
    <3>2. disk' = disk /\ pc[t] # "idle"
      BY <1>1 DEF PrefetchFails, LoadFails, SettingsRefused, Denoise, ToolWorks,
                  RehookFails, StyleFails, StartDenoising
    <3>3. CASE Ends(t)
      BY <1>0, <3>2, <3>3, EndFrame
    <3>4. ASSUME NEW e \in {"oom", "driver", "canceled", "adapters", "other"}, Raises(t, e)
          PROVE  Frame(t) /\ pc'[t] = "failed" /\ call'[t].kind = call[t].kind
      BY <1>0, <3>4, RaiseFrame
    <3> QED
      BY <3>1, <3>2, <3>3, <3>4
  <2>2. state' = None \/ state' = state \/ state' = [state EXCEPT !.applied = None]
        \/ state' = [state EXCEPT !.hooked = FALSE]
    BY <1>1 DEF PrefetchFails, LoadFails, SettingsRefused, Denoise, ToolWorks,
                RehookFails, StyleFails, StartDenoising
  <2>3. state' = None \/ (state # None /\ state'.model = state.model)
    <3>1. state \in Entries \cup {None}
      BY <1>0, TypesOf
    <3>2. state = None => pc[t] \notin Using
      BY <1>0 DEF Holds
    <3>3. state = None => state' = None
      BY <1>1, <3>2 DEF Using, PrefetchFails, LoadFails, SettingsRefused, Denoise, ToolWorks,
                RehookFails, StyleFails, StartDenoising
    <3> QED
      BY <2>2, <3>1, <3>3 DEF Entries
  <2>4. control' => control \/ pc[t] = "rehook"
    BY <1>1 DEF PrefetchFails, LoadFails, SettingsRefused, Denoise, ToolWorks,
                RehookFails, StyleFails, StartDenoising
  <2> QED
    BY <2>1, <2>3, <2>4, OnwardLoads
<1>2. CASE StartDenoising(t) /\ Goes(t, "denoise")
  <2>1. Frame(t) /\ pc'[t] = "denoise" /\ call'[t] = call[t]
    BY <1>0, <1>2, GoFrame DEF Places
  <2>2. pc[t] = "ready" /\ UNCHANGED <<state, control, disk>> /\ state # None
    BY <1>0, <1>2 DEF StartDenoising, Holds, Using
  <2> QED
    BY <2>1, <2>2, OnwardLoads DEF Using
<1>3. CASE HandleFailure(t)
  <2>1. /\ Frame(t)
        /\ \/ pc'[t] = "idle" /\ call'[t] = NoCall
           \/ pc'[t] = "freeing" /\ call'[t] = call[t]
    BY <1>0, <1>3, GoFrame, EndFrame DEF HandleFailure, Places
  <2>2. pc[t] = "failed" /\ UNCHANGED <<state, control, disk>>
    BY <1>3 DEF HandleFailure
  <2> QED
    BY <2>1, <2>2, OnwardLoads
<1>4. CASE Rehook(t)
  <2>1. Frame(t) /\ pc'[t] = "ready" /\ call'[t] = call[t]
    BY <1>0, <1>4, GoFrame DEF Rehook, Places
  <2>2. pc[t] = "rehook" /\ disk' = disk /\ state # None /\ state' = [state EXCEPT !.hooked = FALSE]
    BY <1>0, <1>4 DEF Rehook, Holds, Using
  <2>3. state'.model = state.model
    BY <1>0, <2>2, TypesOf DEF Entries
  <2> QED
    BY <2>1, <2>2, <2>3, OnwardLoads DEF Using
<1>5. CASE StyleCached(t) \/ StyleApplied(t)
  <2>1. PICK entry, off : Styled(t, entry, off) /\ (entry = state \/ entry.model = state.model)
    <3>1. CASE StyleCached(t)
      BY <3>1 DEF StyleCached
    <3>2. CASE StyleApplied(t)
      <4>1. state \in Entries
        BY <1>0, <3>2, TypesOf DEF StyleApplied, Holds, Using
      <4>2. PICK stuck \in SUBSET Loras, broken \in SUBSET Loras, refused \in BOOLEAN :
              LET on    == Attached(call[t].loras, call[t].model, stuck, broken)
                  after == [state EXCEPT !.loaded =
                              LoadedAfter(call[t].loras, call[t].model, stuck, broken)]
              IN  IF on # {} /\ refused
                    THEN Styled(t, [after EXCEPT !.active = {}, !.applied = None], on)
                    ELSE Styled(t, [after EXCEPT !.active    = on,
                                                 !.applied   = Signature(t),
                                                 !.unapplied = call[t].loras \ on],
                                call[t].loras \ on)
        BY <3>2 DEF StyleApplied
      <4> DEFINE on    == Attached(call[t].loras, call[t].model, stuck, broken)
                 after == [state EXCEPT !.loaded =
                             LoadedAfter(call[t].loras, call[t].model, stuck, broken)]
                 e1    == [after EXCEPT !.active = {}, !.applied = None]
                 e2    == [after EXCEPT !.active = on, !.applied = Signature(t),
                                        !.unapplied = call[t].loras \ on]
      <4>3. e1.model = state.model /\ e2.model = state.model
        BY <4>1 DEF Entries
      <4>4. Styled(t, e1, on) \/ Styled(t, e2, call[t].loras \ on)
        BY <4>2
      <4> HIDE DEF e1, e2
      <4> QED
        BY <4>3, <4>4
    <3> QED
      BY <1>5, <3>1, <3>2
  <2>2. IInv'
    BY <1>5, StyleCachedHolds, StyleAppliedHolds
  <2>3. call' \in [Threads -> Calling] /\ pc' \in [Threads -> Places]
    BY <2>2, TypesOf DEF IInv, TypeOK, Calling, Places
  <2>4. Frame(t) /\ pc'[t] = "ready" /\ call'[t].kind = call[t].kind
    BY <1>0, <2>1, <2>3, TypesOf DEF Styled, Moves, Frame, Calling
  <2>5. pc[t] = "style" /\ UNCHANGED <<control, disk>> /\ state # None
    BY <1>0, <1>5 DEF StyleCached, StyleApplied, Holds, Using
  <2>6. state'.model = state.model
    BY <2>1 DEF Styled
  <2> QED
    BY <2>4, <2>5, <2>6, OnwardLoads DEF Using
<1> QED
  BY <1>1, <1>2, <1>3, <1>4, <1>5

(* A call begins, and fetches first if it is one of the pipeline.          *)
LEMMA BeginLoads ==
  ASSUME Setting, IInv, LInv, NEW t \in Pool, NEW c \in Calls, Begin(t, c)
  PROVE  LInv'
<1>0. t \in Threads /\ TypeOK /\ c \in Calling
  BY NewCallType DEF Threads, IInv
<1>1. /\ Frame(t) /\ call'[t] = c
      /\ pc'[t] = IF c.kind \in {"generate", "control"} THEN "prefetch" ELSE "lock"
  BY <1>0, MoveFrame DEF Begin, Places
<1>2. UNCHANGED <<state, control, disk>>
  BY DEF Begin
<1>3. \A u \in Threads \ {t} : CallFits(u)' /\ Fetched(u)'
  BY <1>1, <1>2, OthersLoad DEF Frame
<1>4. CallFits(t)' /\ Fetched(t)'
  BY <1>1 DEF CallFits, Fetched, Using
<1>5. ReadFromDisk'
  BY <1>2 DEF LInv, ReadFromDisk, Parts, UsesSvdq
<1> QED
  BY <1>3, <1>4, <1>5 DEF LInv

(* What a load will read is fetched before it, or is there already, but    *)
(* for the base of a model found resident.                                 *)
LEMMA PrefetchLoads ==
  ASSUME Setting, IInv, LInv, NEW t \in Threads, Prefetch(t)
  PROVE  LInv'
<1> DEFINE m     == call[t].model
           plain == call[t].base \/ m \in Nunchaku \ Published
           net   == IF call[t].kind = "control" /\ ~control THEN {ControlNet} ELSE {}
<1>0. /\ TypeOK /\ call[t] \in Calling /\ pc[t] = "prefetch" /\ CallFits(t)
      /\ call[t].base \in BOOLEAN
  BY TypesOf DEF IInv, LInv, Prefetch, Calling
<1>1. UNCHANGED <<lock, state, control>>
  BY DEF Prefetch
<1>2. /\ Frame(t) /\ pc'[t] = "lock" /\ call'[t].kind = call[t].kind /\ call'[t].model = m
      /\ disk \subseteq disk' /\ net \subseteq disk'
      /\ \/ Complete(m) /\ call'[t].base = call[t].base /\ call'[t].found = call[t].base
         \/ Parts(m, plain) \subseteq disk' /\ call'[t].base = (m \in Nunchaku /\ plain)
  <2>1. CASE Complete(m)
    <3>1. Moves(t, "lock", [call[t] EXCEPT !.found = call[t].base]) /\ disk' = disk \cup net
      BY <2>1 DEF Prefetch
    <3>2. [call[t] EXCEPT !.found = call[t].base] \in Calling
      BY <1>0, CallType
    <3>3. /\ Frame(t) /\ pc'[t] = "lock"
          /\ call'[t] = [call[t] EXCEPT !.found = call[t].base]
      BY <1>0, <3>1, <3>2, MoveFrame DEF Places
    <3>4. /\ call'[t].kind = call[t].kind /\ call'[t].model = m
          /\ call'[t].base = call[t].base /\ call'[t].found = call[t].base
      BY <1>0, <3>3 DEF Calling
    <3> QED
      BY <2>1, <3>1, <3>3, <3>4
  <2>2. CASE ~Complete(m)
    <3> DEFINE b == m \in Nunchaku /\ plain
    <3>1. /\ Moves(t, "lock", [call[t] EXCEPT !.base = b, !.found = FALSE])
          /\ disk' = disk \cup net \cup Parts(m, plain)
      BY <2>2 DEF Prefetch
    <3>2. b \in BOOLEAN
      OBVIOUS
    <3> HIDE DEF b
    <3>3. [call[t] EXCEPT !.base = b, !.found = FALSE] \in Calling
      BY <1>0, <3>2, CallType
    <3>4. /\ Frame(t) /\ pc'[t] = "lock"
          /\ call'[t] = [call[t] EXCEPT !.base = b, !.found = FALSE]
      BY <1>0, <3>1, <3>3, MoveFrame DEF Places
    <3>5. call'[t].kind = call[t].kind /\ call'[t].model = m /\ call'[t].base = b
      BY <1>0, <3>4 DEF Calling
    <3> QED
      BY <3>1, <3>4, <3>5 DEF b
  <2> QED
    BY <2>1, <2>2
<1>3. \A u \in Threads \ {t} : CallFits(u)' /\ Fetched(u)'
  BY <1>2, OthersLoad DEF Frame
<1>4. CallFits(t)'
  BY <1>0, <1>2 DEF CallFits, Using
<1>5. \/ Parts(call'[t].model, call'[t].base) \subseteq disk'
      \/ UsesSvdq(call'[t].model, call'[t].base)
      \/ call'[t].found
  <2>1. CASE Complete(m) /\ call'[t].base = call[t].base /\ call'[t].found = call[t].base
    <3>1. m \notin Nunchaku => Parts(m, FALSE) \subseteq disk'
      BY <1>2, <2>1 DEF LInv, ReadFromDisk, Complete
    <3> HIDE DEF m
    <3> QED
      BY <1>0, <1>2, <2>1, <3>1 DEF UsesSvdq
  <2>2. CASE Parts(m, plain) \subseteq disk' /\ call'[t].base = (m \in Nunchaku /\ plain)
    BY <1>2, <2>2 DEF Parts, UsesSvdq
  <2> QED
    BY <1>2, <2>1, <2>2
<1>6. call[t].kind = "control" => ControlNet \in disk'
  BY <1>2 DEF LInv, ReadFromDisk
<1>7. Fetched(t)'
  BY <1>2, <1>5, <1>6 DEF Fetched, Parts, UsesSvdq, ControlNet
<1>8. ReadFromDisk'
  BY <1>1, <1>2 DEF LInv, ReadFromDisk, Parts, UsesSvdq, ControlNet
<1> QED
  BY <1>3, <1>4, <1>7, <1>8 DEF LInv

(* The device is entered with what was fetched.                            *)
LEMMA AcquireLoads ==
  ASSUME Setting, IInv, LInv, NEW t \in Threads, Acquire(t)
  PROVE  LInv'
<1>0. TypeOK /\ pc[t] = "lock" /\ CallFits(t) /\ Fetched(t)
  BY DEF IInv, LInv, Acquire
<1>1. UNCHANGED <<state, control, disk>>
  BY DEF Acquire
<1>2. /\ Frame(t) /\ call'[t] = call[t]
      /\ pc'[t] = IF call[t].kind \in {"generate", "control"} THEN "get" ELSE "work"
  BY <1>0, GoFrame DEF Acquire, Places
<1>3. \A u \in Threads \ {t} : CallFits(u)' /\ Fetched(u)'
  BY <1>1, <1>2, OthersLoad DEF Frame
<1>4. CallFits(t)'
  BY <1>2 DEF CallFits, Using
<1>5. Fetched(t)'
  BY <1>0, <1>1, <1>2 DEF Fetched
<1>6. ReadFromDisk'
  BY <1>1 DEF LInv, ReadFromDisk
<1> QED
  BY <1>3, <1>4, <1>5, <1>6 DEF LInv

(* What becomes resident is read from disk.                                *)
LEMMA GetLoads ==
  ASSUME Setting, IInv, LInv, NEW t \in Threads, Get(t)
  PROVE  LInv'
<1>0. TypeOK /\ pc[t] = "get" /\ CallFits(t) /\ Fetched(t)
  BY DEF IInv, LInv, Get
<1>1. /\ disk' = disk
      /\ \/ state' = state /\ control' = control
         \/ /\ state' = Entry(call[t].model) /\ (control' => control)
            /\ Parts(call[t].model, call[t].base) \subseteq disk
  BY DEF Get
<1>2. /\ Frame(t) /\ call'[t] = call[t]
      /\ pc'[t] = IF call[t].kind = "control" THEN "rehook" ELSE "style"
  BY <1>0, GoFrame DEF Get, Places
<1>3. \A u \in Threads \ {t} : CallFits(u)' /\ Fetched(u)'
  BY <1>1, <1>2, OthersLoad DEF Frame
<1>4. CallFits(t)'
  BY <1>0, <1>2 DEF CallFits, Using
<1>5. Fetched(t)'
  BY <1>0, <1>1, <1>2 DEF Fetched
<1>6. ReadFromDisk'
  BY <1>1 DEF LInv, ReadFromDisk, Parts, UsesSvdq, Entry
<1> QED
  BY <1>3, <1>4, <1>5, <1>6 DEF LInv

(* The base is required: nothing is resident when the lock is let go.      *)
LEMMA BaseRequiredLoads ==
  ASSUME Setting, IInv, LInv, NEW t \in Threads, BaseRequired(t)
  PROVE  LInv'
<1>0. TypeOK /\ call[t] \in Calling /\ pc[t] = "get" /\ CallFits(t)
  BY TypesOf DEF IInv, LInv, BaseRequired
<1>1. state' = None /\ (control' => control) /\ disk' = disk
  BY DEF BaseRequired
<1>2. /\ Frame(t) /\ pc'[t] = "prefetch" /\ call'[t] = [call[t] EXCEPT !.base = TRUE]
  BY <1>0, MoveFrame, CallType DEF BaseRequired, Places
<1>3. call'[t].kind = call[t].kind
  BY <1>0, <1>2 DEF Calling
<1>4. \A u \in Threads \ {t} : CallFits(u)' /\ Fetched(u)'
  BY <1>1, <1>2, OthersLoad DEF Frame
<1>5. CallFits(t)' /\ Fetched(t)'
  BY <1>0, <1>2, <1>3 DEF CallFits, Fetched
<1>6. ReadFromDisk'
  BY <1>1 DEF LInv, ReadFromDisk
<1> QED
  BY <1>4, <1>5, <1>6 DEF LInv

(* Every step.                                                             *)
LEMMA StepLoads ==
  ASSUME Setting, IInv, LInv, [Next]_vars
  PROVE  LInv'
<1>1. ASSUME NEW t \in Threads, Thread(t) PROVE LInv'
  BY <1>1, PrefetchLoads, AcquireLoads, GetLoads, BaseRequiredLoads, OnwardSteps DEF Thread
<1>2. ASSUME FreeAll PROVE LInv'
  <2>0. loop \in Threads /\ TypeOK
    BY <1>2, TypesOf DEF IInv, FreeAll
  <2>1. Frame(loop) /\ pc'[loop] = "idle" /\ call'[loop] = NoCall
    BY <1>2, <2>0, EndFrame DEF FreeAll
  <2>2. disk' = disk /\ state' = None /\ control' = FALSE
    BY <1>2 DEF FreeAll
  <2> QED
    BY <2>0, <2>1, <2>2, OnwardLoads
<1>3. ASSUME UNCHANGED <<pc, call, state, control, disk>> PROVE LInv'
  <2>1. \A t \in Threads : CallFits(t)' /\ Fetched(t)'
    BY <1>3 DEF LInv, CallFits, Fetched
  <2>2. ReadFromDisk'
    BY <1>3 DEF LInv, ReadFromDisk
  <2> QED
    BY <2>1, <2>2 DEF LInv
<1> QED
  BY <1>1, <1>2, <1>3, BeginLoads DEF Next, EditFile, vars

-----------------------------------------------------------------------------
(* The theorems.                                                           *)

(* The inductive invariant of the lock and of what is resident, for every  *)
(* behaviour of the device.                                                *)
THEOREM Invariant == ASSUME Setting PROVE Spec => []IInv
<1>1. Init => IInv
  BY InitHolds
<1>2. IInv /\ [Next]_vars => IInv'
  BY StepHolds
<1> QED
  BY <1>1, <1>2, PTL DEF Spec

(* Every variable of the device keeps its type.                            *)
THEOREM TypeCorrect == ASSUME Setting PROVE Spec => []TypeOK
<1>1. IInv => TypeOK
  BY DEF IInv
<1> QED
  BY <1>1, Invariant, PTL

(* A generation denoises with the adapters it asked for, in the versions   *)
(* it read, whatever earlier jobs, failures and edits left on the shared   *)
(* transformer.                                                            *)
THEOREM RequestedStyle == ASSUME Setting PROVE Spec => []StyleIsRequested
<1>1. IInv => StyleIsRequested
  BY DEF IInv, Holds, StyleOf, StyleIsRequested
<1> QED
  BY <1>1, Invariant, PTL

(* The pipeline a call uses stays resident until it lets the lock go: the  *)
(* free_all of another job's failure waits for it.                         *)
THEOREM BorrowedPipeline == ASSUME Setting PROVE Spec => []BorrowedStays
<1>1. IInv => BorrowedStays
  BY DEF IInv, Holds, BorrowedStays, Using, Inside
<1> QED
  BY <1>1, Invariant, PTL

(* What a call was given and what it is going to load is there, whatever   *)
(* models are planned for SVDQuant and whichever threads load them; the    *)
(* call that LoadsFromDisk excepts is the only one that may go without.    *)
THEOREM RightDevice == ASSUME Setting PROVE Spec => []DeviceRight
<1>1. Init => LInv
  BY InitLoads
<1>2. IInv /\ LInv /\ [Next]_vars => LInv'
  BY StepLoads
<1>3. IInv /\ LInv => DeviceRight
  <2>1. IInv => BorrowedStays
    BY DEF IInv, Holds, BorrowedStays, Using, Inside
  <2>2. ASSUME LInv, NEW t \in Threads, pc[t] = "get", ~Complete(call[t].model)
        PROVE  \/ Parts(call[t].model, call[t].base) \subseteq disk
               \/ UsesSvdq(call[t].model, call[t].base)
               \/ call[t].found
    BY <2>2 DEF LInv, CallFits, Fetched
  <2>3. ASSUME IInv, LInv, NEW t \in Threads, pc[t] = "rehook"
        PROVE  ControlNet \in disk
    BY <2>3 DEF IInv, LInv, Holds, Fetched
  <2> QED
    BY <2>1, <2>2, <2>3 DEF DeviceRight, LoadsFromDisk
<1> QED
  BY <1>1, <1>2, <1>3, Invariant, PTL DEF Spec
=============================================================================
