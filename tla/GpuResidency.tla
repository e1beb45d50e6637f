---------------------------- MODULE GpuResidency ----------------------------
(***************************************************************************)
(* The local accelerator: the one resident pipeline (_STATE), the optional *)
(* ControlNet (_CONTROLNET), the adapters on the shared transformer, and   *)
(* the re-entrant GPU_LOCK taken by whoever computes.                      *)
(*                                                                         *)
(* Four kinds of call reach the device: the local lane's job (generate, a  *)
(* ControlNet generation, or a tool: upscaler, face restorer, matting), one*)
(* at a time; RIFE, which the remote lane may run; and the warm-up thread. *)
(* A failed job is handled on the event loop, where the memory rules call  *)
(* free_all, which takes the same lock: while the loop waits no job begins.*)
(*                                                                         *)
(* Abstracted: pixels, prompts, schedulers and LoRA weights; a file of an  *)
(* adapter is its version; host RAM and disk measurements are choices.     *)
(* Applying adapters is one step; the rescue disable_lora of an activation *)
(* that failed is taken to work.  Adapter names are taken to be distinct.  *)
(***************************************************************************)
EXTENDS Naturals, FiniteSets

CONSTANTS
  Pool,         \* threads of the executor that runs handlers
  WarmUp,       \* the thread of main._warm_and_sweep
  Models,       \* model repositories
  Nunchaku,     \* the models planned for SVDQuant
  Published,    \* those whose SVDQuant checkpoint exists
  TurboModel,   \* settings.local_image_model, the only one with a ControlNet
  Loras,        \* adapter files
  Fits,         \* pairs <<adapter, model>> that probes and pins let through
  Offload,      \* LOCAL_OFFLOAD, with CONTROLNET_OFFLOAD=rehook
  MaxCalls,     \* bound on the calls that begin
  MaxEdits,     \* bound on the edits of the adapter directory
  None, Gone

Threads == Pool \cup {WarmUp}

(* What the constants are assumed to be; the module that instantiates this *)
(* one states it of their values.                                          *)
ResidencyAssumption ==
  /\ WarmUp \notin Pool
  /\ Published \subseteq Nunchaku /\ Nunchaku \subseteq Models /\ TurboModel \in Models
  /\ MaxCalls \in Nat /\ MaxEdits \in Nat /\ Offload \in BOOLEAN /\ None \notin Models

VARIABLES
  pc,           \* where each thread is
  call,         \* the call it makes: what was asked for, force_base, whether
                \* it fetched no base because its model was resident (history),
                \* the signatures _apply_loras read, the adapters it reported
                \* as not applied, and the exception raised
  lock,         \* GPU_LOCK: its holder and depth
  state,        \* the entry of _STATE, or None
  control,      \* whether _CONTROLNET holds the model
  disk,         \* what the Hugging Face cache holds
  file,         \* the version of each adapter file
  loop,         \* the failed thread the event loop frees the device for
  calls, edits

vars == <<pc, call, lock, state, control, disk, file, loop, calls, edits>>

Kinds == {"generate", "control", "tool", "rife", "none"}
Versions == 0 .. MaxEdits

(* Calls of the local lane: it runs one at a time.                         *)
IsLocal(c) == c.kind \in {"generate", "control", "tool"}

Call(kind, m, loras) ==
  [kind |-> kind, model |-> m, loras |-> loras, base |-> FALSE,
   found |-> FALSE,
   asked |-> [l \in {} |-> Gone], skipped |-> {}, err |-> None]
NoCall == Call("none", TurboModel, {})

Entry(m) == [model |-> m, hooked |-> Offload,
             loaded |-> [l \in Loras |-> None], active |-> {},
             applied |-> None, unapplied |-> {}]

Complete(m) == state # None /\ state.model = m

(* quant.resolve_backend with force_base, and what such a load reads.      *)
UsesSvdq(m, forced) == m \in Nunchaku /\ ~forced
Parts(m, forced) ==
  {<<m, "pipeline">>, <<m, IF UsesSvdq(m, forced) THEN "svdq" ELSE "transformer">>}
ControlNet == <<TurboModel, "controlnet">>

Init ==
  /\ \E warm \in BOOLEAN :
       /\ pc   = [t \in Threads |-> IF t = WarmUp /\ warm THEN "prefetch" ELSE "idle"]
       /\ call = [t \in Threads |-> IF t = WarmUp /\ warm
                                      THEN Call("generate", TurboModel, {})
                                      ELSE NoCall]
  /\ lock    = [holder |-> None, depth |-> 0]
  /\ state   = None
  /\ control = FALSE
  /\ disk    = {}
  /\ file    = [l \in Loras |-> 0]
  /\ loop    = None
  /\ calls   = 0
  /\ edits   = 0

-----------------------------------------------------------------------------
(* Entering and leaving the device.                                        *)

Free == lock.depth = 0
Released == IF lock.depth = 1 THEN [holder |-> None, depth |-> 0]
            ELSE [lock EXCEPT !.depth = @ - 1]

Moves(t, where, c) ==
  /\ pc'   = [pc EXCEPT ![t] = where]
  /\ call' = [call EXCEPT ![t] = c]
Goes(t, where) == Moves(t, where, call[t])
Ends(t)        == Moves(t, "idle", NoCall)

(* What a call that raised still is to those who handle the exception.     *)
Raises(t, e) ==
  Moves(t, "failed", [Call(call[t].kind, call[t].model, {}) EXCEPT !.err = e])

(* A job is handed to a thread of the pool, which the loop must be free to *)
(* do; a lane runs one job at a time.                                      *)
Begin(t, c) ==
  /\ pc[t] = "idle" /\ loop = None /\ calls < MaxCalls
  /\ \A u \in Pool \ {t} : pc[u] # "idle" => IsLocal(call[u]) # IsLocal(c)
  /\ calls' = calls + 1
  /\ Moves(t, IF c.kind \in {"generate", "control"} THEN "prefetch" ELSE "lock", c)
  /\ UNCHANGED <<lock, state, control, disk, file, loop, edits>>

(* _prefetch_model, and _prefetch_controlnet before it: what the load will *)
(* read is fetched while nobody waits for the device; nothing when the     *)
(* model is resident, whatever was asked for.                              *)
Prefetch(t) ==
  LET m     == call[t].model
      plain == call[t].base \/ m \in Nunchaku \ Published
      net   == IF call[t].kind = "control" /\ ~control THEN {ControlNet} ELSE {}
  IN
  /\ pc[t] = "prefetch"
  /\ IF Complete(m)
       THEN /\ disk' = disk \cup net
            /\ Moves(t, "lock", [call[t] EXCEPT !.found = call[t].base])
       ELSE /\ disk' = disk \cup net \cup Parts(m, plain)
            /\ Moves(t, "lock", [call[t] EXCEPT !.base = m \in Nunchaku /\ plain,
                                                !.found = FALSE])
  /\ UNCHANGED <<lock, state, control, file, loop, calls, edits>>

(* The model is gated, the disk short, or the Hub out of reach.            *)
PrefetchFails(t) ==
  /\ pc[t] = "prefetch" /\ ~Complete(call[t].model)
  /\ Raises(t, "other")
  /\ UNCHANGED <<lock, state, control, disk, file, loop, calls, edits>>

(* GPU_LOCK is re-entrant: its holder comes in again.                      *)
Acquire(t) ==
  /\ pc[t] = "lock" /\ (Free \/ lock.holder = t)
  /\ lock' = [holder |-> t, depth |-> lock.depth + 1]
  /\ Goes(t, IF call[t].kind \in {"generate", "control"} THEN "get" ELSE "work")
  /\ UNCHANGED <<state, control, disk, file, loop, calls, edits>>

(* _get and _load_base: the resident pipeline serves, or it is dropped and *)
(* another takes its place.                                                *)
Get(t) ==
  /\ pc[t] = "get"
  /\ Complete(call[t].model) \/ Parts(call[t].model, call[t].base) \subseteq disk
  /\ IF Complete(call[t].model)
       THEN UNCHANGED <<state, control>>
       ELSE /\ state'   = Entry(call[t].model)
            /\ control' = (control /\ state = None)
  /\ Goes(t, IF call[t].kind = "control" THEN "rehook" ELSE "style")
  /\ UNCHANGED <<lock, disk, file, loop, calls, edits>>

(* SVDQuant is missing or does not fit: the lock is given back, the        *)
(* ordinary transformer fetched, and the device entered again.             *)
BaseRequired(t) ==
  /\ pc[t] = "get" /\ ~Complete(call[t].model) /\ UsesSvdq(call[t].model, call[t].base)
  /\ state'   = None
  /\ control' = (control /\ state = None)
  /\ lock'    = Released
  /\ Moves(t, "prefetch", [call[t] EXCEPT !.base = TRUE])
  /\ UNCHANGED <<disk, file, loop, calls, edits>>

(* Any other failure of the load leaves _model_locked with the lock taken. *)
LoadFails(t) ==
  /\ pc[t] = "get" /\ ~Complete(call[t].model)
  /\ \E e \in {"oom", "other"} : Raises(t, e)
  /\ state'   = None
  /\ control' = (control /\ state = None)
  /\ UNCHANGED <<lock, disk, file, loop, calls, edits>>

-----------------------------------------------------------------------------
(* _apply_loras.                                                           *)

Registered == {l \in Loras : state.loaded[l] # None}

(* What is left attached once the adapters nobody wants are deleted, `stuck` *)
(* being those that resist.                                                *)
Kept(want, stuck) ==
  [l \in Loras |-> IF l \in want \cup stuck THEN state.loaded[l] ELSE None]

Usable(l, m) == file[l] # Gone /\ <<l, m>> \in Fits

(* The adapters that end up attached in the version asked for: they were,  *)
(* or their old weights go away and the file loads.                        *)
Attached(want, m, stuck, broken) ==
  {l \in want : /\ Usable(l, m)
                /\ \/ state.loaded[l] = file[l]
                   \/ /\ l \notin broken
                      /\ state.loaded[l] # None => l \notin stuck}

LoadedAfter(want, m, stuck, broken) ==
  [l \in Loras |->
     IF l \in Attached(want, m, stuck, broken) THEN file[l]
     ELSE IF l \in want /\ Usable(l, m) /\ l \notin stuck
            THEN None
            ELSE Kept(want, stuck)[l]]

Signature(t) == [l \in call[t].loras |-> file[l]]

Styled(t, entry, off) ==
  /\ state' = entry
  /\ Moves(t, "ready", [call[t] EXCEPT !.asked = Signature(t), !.skipped = off])

(* Mutant: the sets are compared by name, not by signature.                *)
Mutant_StyleCached(t) ==
  /\ pc[t] = "style" /\ state.applied # None
  /\ DOMAIN state.applied = call[t].loras
  /\ Styled(t, state, state.unapplied)
  /\ UNCHANGED <<lock, control, disk, file, loop, calls, edits>>

(* The set applied last is the set asked for, file by file: nothing to do. *)
StyleCached(t) ==
  /\ pc[t] = "style" /\ state.applied = Signature(t)
  /\ Styled(t, state, state.unapplied)
  /\ UNCHANGED <<lock, control, disk, file, loop, calls, edits>>

(* Otherwise a clean slate, the files that load, and their activation,     *)
(* which peft may refuse; the report of a refusal names what was refused.  *)
StyleApplied(t) ==
  LET want == call[t].loras
      m    == call[t].model
  IN
  /\ pc[t] = "style" /\ state.applied # Signature(t)
  /\ \E stuck, broken \in SUBSET Loras, refused \in BOOLEAN :
       LET on    == Attached(want, m, stuck, broken)
           after == [state EXCEPT !.loaded = LoadedAfter(want, m, stuck, broken)]
       IN
       IF on # {} /\ refused
         THEN Styled(t, [after EXCEPT !.active = {}, !.applied = None], on)
         ELSE Styled(t, [after EXCEPT !.active    = on,
                                      !.applied   = Signature(t),
                                      !.unapplied = want \ on], want \ on)
  /\ UNCHANGED <<lock, control, disk, file, loop, calls, edits>>

(* The previous adapters cannot be switched off: the item fails.           *)
StyleFails(t) ==
  /\ pc[t] = "style" /\ Registered # {} /\ state.applied # Signature(t)
  /\ state' = [state EXCEPT !.applied = None]
  /\ lock'  = Released
  /\ Raises(t, "adapters")
  /\ UNCHANGED <<control, disk, file, loop, calls, edits>>

(* The mode has no pipeline, or the sampler cannot serve it.              *)
SettingsRefused(t) ==
  /\ pc[t] = "style"
  /\ lock' = Released
  /\ Raises(t, "other")
  /\ UNCHANGED <<state, control, disk, file, loop, calls, edits>>

(* generate_control borrows the components of the base, whose hooks are    *)
(* stripped when offload has to own the ControlNet as well.                *)
Rehook(t) ==
  /\ pc[t] = "rehook"
  /\ control' = TRUE
  /\ state'   = [state EXCEPT !.hooked = FALSE]
  /\ Goes(t, "ready")
  /\ UNCHANGED <<lock, disk, file, loop, calls, edits>>

(* The ControlNet does not load, or offload cannot be enabled once the     *)
(* hooks are gone.                                                         *)
RehookFails(t) ==
  /\ pc[t] = "rehook"
  /\ \E e \in {"oom", "other"} : Raises(t, e)
  /\ \/ UNCHANGED <<state, control>>
     \/ control' = TRUE /\ state' = [state EXCEPT !.hooked = FALSE]
  /\ lock' = Released
  /\ UNCHANGED <<disk, file, loop, calls, edits>>

(* progress_cb(0.0, "starting denoising"): the moment a cancel is seen.    *)
StartDenoising(t) ==
  /\ pc[t] = "ready"
  /\ \/ Goes(t, "denoise") /\ UNCHANGED lock
     \/ Raises(t, "canceled") /\ lock' = Released
  /\ UNCHANGED <<state, control, disk, file, loop, calls, edits>>

(* pipe(...) returns, or raises: out of memory (or a driver error, which   *)
(* fares alike), a cancel at a step, or whatever else. After               *)
(* a rehooked run the base is dropped either way.                          *)
Denoise(t) ==
  /\ pc[t] = "denoise"
  /\ state' = IF call[t].kind = "control" /\ Offload THEN None ELSE state
  /\ lock'  = Released
  /\ \/ Ends(t)
     \/ \E e \in {"oom", "canceled", "other"} : Raises(t, e)
  /\ UNCHANGED <<control, disk, file, loop, calls, edits>>

(* upscale_image, restore_faces, predict_matte and RIFE: one critical      *)
(* section that loads what it needs and leaves the pipeline alone.         *)
ToolWorks(t) ==
  /\ pc[t] = "work"
  /\ lock' = Released
  /\ \/ Ends(t)
     \/ \E e \in {"oom", "driver", "canceled", "other"} : Raises(t, e)
  /\ UNCHANGED <<state, control, disk, file, loop, calls, edits>>

-----------------------------------------------------------------------------
(* What a failure leads to.                                                *)

(* errors.clears_gpu: memory failures of local kinds, driver errors, and   *)
(* adapters that could not be reset.                                       *)
ClearsGpu(t) == \/ call[t].err = "oom" /\ IsLocal(call[t])
                \/ call[t].err \in {"driver", "adapters"}

(* The lane catches the exception; warm_up only logs it.                   *)
HandleFailure(t) ==
  /\ pc[t] = "failed"
  /\ IF t # WarmUp /\ ClearsGpu(t)
       THEN loop = None /\ loop' = t /\ Goes(t, "freeing")
       ELSE (t # WarmUp => loop = None) /\ Ends(t) /\ UNCHANGED loop
  /\ UNCHANGED <<lock, state, control, disk, file, calls, edits>>

(* Mutant: the resident pipelines are dropped without the lock.            *)
Mutant_FreeAll ==
  /\ loop # None
  /\ state'   = None
  /\ control' = FALSE
  /\ Ends(loop)
  /\ loop'    = None
  /\ UNCHANGED <<lock, disk, file, calls, edits>>

(* free_all, called on the event loop itself, which waits for the lock.    *)
FreeAll ==
  /\ loop # None /\ Free
  /\ state'   = None
  /\ control' = FALSE
  /\ Ends(loop)
  /\ loop'    = None
  /\ UNCHANGED <<lock, disk, file, calls, edits>>

(* The user replaces, removes or puts back an adapter.                     *)
EditFile(l) ==
  /\ edits < MaxEdits /\ edits' = edits + 1
  /\ \E v \in {Gone, edits + 1} : file' = [file EXCEPT ![l] = v]
  /\ UNCHANGED <<pc, call, lock, state, control, disk, loop, calls>>

-----------------------------------------------------------------------------
Thread(t) ==
  \/ Prefetch(t)
  \/ PrefetchFails(t)
  \/ Acquire(t)
  \/ Get(t)
  \/ BaseRequired(t)
  \/ LoadFails(t)
  \/ StyleCached(t)
  \/ StyleApplied(t)
  \/ StyleFails(t)
  \/ SettingsRefused(t)
  \/ Rehook(t)
  \/ RehookFails(t)
  \/ StartDenoising(t)
  \/ Denoise(t)
  \/ ToolWorks(t)
  \/ HandleFailure(t)

(* Only generate takes a model and adapters.                               *)
Calls == {Call("generate", m, ls) : m \in Models, ls \in SUBSET Loras}
           \cup {Call(k, TurboModel, {}) : k \in {"control", "tool", "rife"}}

Next ==
  \/ \E t \in Pool, c \in Calls : Begin(t, c)
  \/ \E t \in Threads : Thread(t)
  \/ FreeAll
  \/ \E l \in Loras : EditFile(l)

Spec == Init /\ [][Next]_vars

(* Threads that can run do, and so does the loop.                          *)
Fairness == WF_vars(FreeAll) /\ \A t \in Threads : WF_vars(Thread(t))
FairSpec == Spec /\ Fairness

-----------------------------------------------------------------------------
Signatures == UNION {[s -> Versions \cup {Gone}] : s \in SUBSET Loras}
Entries == [model : Models, hooked : BOOLEAN,
            loaded : [Loras -> Versions \cup {None}], active : SUBSET Loras,
            applied : Signatures \cup {None}, unapplied : SUBSET Loras]

TypeOK ==
  /\ pc \in [Threads -> {"idle", "prefetch", "lock", "get", "style", "rehook",
                         "ready", "denoise", "work", "failed", "freeing"}]
  /\ call \in [Threads ->
       [kind : Kinds, model : Models, loras : SUBSET Loras,
        base : BOOLEAN, found : BOOLEAN, asked : Signatures, skipped : SUBSET Loras,
        err : {None, "oom", "driver", "canceled", "adapters", "other"}]]
  /\ lock \in [holder : Threads \cup {None}, depth : Nat]
  /\ state \in Entries \cup {None}
  /\ control \in BOOLEAN
  /\ disk \subseteq Models \X {"pipeline", "svdq", "transformer", "controlnet"}
  /\ file \in [Loras -> Versions \cup {Gone}]
  /\ loop \in Threads \cup {None}
  /\ calls \in 0 .. MaxCalls /\ edits \in Versions

(* Whatever the previous job left on the shared transformer, a generation  *)
(* denoises with adapters it asked for, each in the version it read; and   *)
(* they are all it asked for but those reported, or the set was refused    *)
(* and none is on.                                                         *)
StyleIsRequested ==
  \A t \in Threads :
    pc[t] \in {"ready", "denoise"} /\ call[t].kind = "generate" =>
      /\ \A l \in state.active : state.loaded[l] = call[t].asked[l]
      /\ state.active = IF state.applied = call[t].asked
                          THEN call[t].loras \ call[t].skipped ELSE {}

(* The pipeline a call is using stays the resident one until it lets the   *)
(* lock go, though another job's failure frees the device: only the holder *)
(* is between _get and the end of its computation.                         *)
BorrowedStays ==
  \A t \in Threads :
    pc[t] \in {"style", "rehook", "ready", "denoise"} =>
      /\ lock.holder = t
      /\ state # None /\ state.model = call[t].model

(* A load under the lock reads what is on disk, or is of SVDQuant, which   *)
(* leaves the lock to fetch the base when something is missing; so is the  *)
(* ControlNet it may have to load.  The one exception is a call that needs *)
(* the base and at whose prefetch the model was resident: it may have been *)
(* SVDQuant's, and gone when the call gets the device.                     *)
LoadsFromDisk ==
  \A t \in Threads :
    /\ pc[t] = "get" /\ ~Complete(call[t].model) =>
         \/ Parts(call[t].model, call[t].base) \subseteq disk
         \/ UsesSvdq(call[t].model, call[t].base)
         \/ call[t].found
    /\ pc[t] = "rehook" => control \/ ControlNet \in disk

(* _prefetch_model: "Cache exactly the files the planned pipeline load will*)
(* consume."  It does not hold for that call: told to take the base, it    *)
(* fetches nothing while another thread's SVDQuant pipeline is resident,   *)
(* and fails under the lock for want of the transformer once that is gone. *)
PrefetchedFirst ==
  \A t \in Threads :
    pc[t] = "get" /\ ~Complete(call[t].model) /\ ~UsesSvdq(call[t].model, call[t].base) =>
      Parts(call[t].model, call[t].base) \subseteq disk

(* What a call was given, and what it is going to load, is there.          *)
DeviceRight == BorrowedStays /\ LoadsFromDisk

(* errors and queue.py: after a memory failure the next job has a chance:  *)
(* a call that waits for the device gets it.                               *)
NextHasAChance ==
  \A t \in Threads : pc[t] = "lock" ~> pc[t] # "lock"

=============================================================================
