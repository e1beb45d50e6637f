------------------------------ MODULE Planning ------------------------------
(***************************************************************************)
(* The resolver of the studio: a request, with or without a preset, is     *)
(* resolved into an execution plan against what this install can run now,  *)
(* the catalogue of resources, the assets named and the owner's routing    *)
(* policy; a stage of a Variant Set is resolved up to its inputs, which    *)
(* its variants bring later; and a request that names a job kind goes      *)
(* around the resolver.                                                    *)
(*                                                                         *)
(* A resolve reads and never writes, so it is one step.  Between two of    *)
(* them the owner changes slots and the policy, models and adapters come   *)
(* and go, the worker connects and disconnects.  What the rows then go     *)
(* through is in Submission and JobLanes.                                  *)
(***************************************************************************)
EXTENDS Naturals, Sequences, FiniteSets

CONSTANTS
  Operations,    \* the logical operations asked for
  Models,        \* model resources
  NoModel,       \* nothing: an empty slot, a request that names no model
  PresetModel,   \* the model the preset names
  Foreign,       \* the models the preset's adapter was not made for
  Overrides,     \* settings a request may choose, as records
  Shapes,        \* inputs a request may name: images, ids or a set for the role, a mask
  MaxJobs,       \* bound on jobs queued
  MaxChanges     \* bound on changes to the world

VARIABLES
  rules,         \* the routing policy
  slots,         \* slot name -> the model configured there
  machine,       \* this machine: usable, measured, has room, models on disk
  remote,        \* last_health: connected
  adapter,       \* the preset's adapter: absent, listed, or listed and unreadable
  plan,          \* the last answer of the resolver
  stage,         \* the stage last expanded into a set
  jobs,          \* the jobs queued, in order
  changes

world == <<rules, slots, machine, remote, adapter, changes>>
vars  == <<world, plan, stage, jobs>>

-----------------------------------------------------------------------------
(* What is offered.                                                        *)

(* KIND_FOR: a pair that is absent is not offered on that target.          *)
KindFor(op, t) ==
  CASE op = "text_to_image"  /\ t = "local"  -> "image_local"
    [] op = "text_to_image"  /\ t = "remote" -> "image_colab"
    [] op = "image_to_image" /\ t = "local"  -> "img2img"
    [] op = "inpaint"        /\ t = "local"  -> "inpaint"
    [] op = "inpaint"        /\ t = "remote" -> "inpaint_remote"
    [] op = "outpaint"       /\ t = "local"  -> "outpaint"
    [] op = "control"        /\ t = "local"  -> "control_local"
    [] op = "edit"           /\ t = "remote" -> "image_edit"
    [] op = "text_to_video"  /\ t = "remote" -> "t2v"
    [] op = "image_to_video" /\ t = "remote" -> "i2v"
    [] op = "long_video"     /\ t = "remote" -> "long_video"
    [] OTHER -> "none"
Kinds  == {KindFor(o, t) : o \in Operations, t \in {"local", "remote"}} \ {"none"}
Target(kind) == IF kind \in {"image_local", "img2img", "inpaint", "outpaint", "control_local"}
                  THEN "local" ELSE "remote"
Videos == {"t2v", "i2v", "long_video"}

(* configured_slots: the variants of the two image lanes, then the edit    *)
(* and video models.                                                       *)
SlotNames == <<"turbo", "sdxl", "quality", "edit", "video", "video_ltx">>
Names     == {SlotNames[i] : i \in DOMAIN SlotNames}
Lane(s)   == IF s \in {"turbo", "sdxl"} THEN "local" ELSE "remote"
Role(s)   == CASE s \in {"turbo", "sdxl", "quality"} -> "image" [] s = "edit" -> "edit" [] OTHER -> "video"

(* Inputs, inputs_for: how many images a kind takes, and whether a mask.   *)
Takes(kind) ==
  CASE kind \in {"image_local", "image_colab", "t2v", "long_video"} -> [from |-> 0, to |-> 0, mask |-> FALSE]
    [] kind = "image_edit" -> [from |-> 1, to |-> 3, mask |-> FALSE]
    [] kind \in {"inpaint", "inpaint_remote"} -> [from |-> 1, to |-> 1, mask |-> TRUE]
    [] OTHER -> [from |-> 1, to |-> 1, mask |-> FALSE]

(* _img_controls and _entries: the settings of a kind that other settings, *)
(* the model or the builder decide about; the distilled recipe is offered  *)
(* on the worker's images.                                                 *)
Controls(kind) ==
  {"guidance", "quality", "steps"} \cup (IF Target(kind) = "remote" /\ kind \notin Videos THEN {"speed_mode"} ELSE {})

(* The guidance of each variant, and of a kind without a picker.           *)
GuidanceOf(slot) == CASE slot = "turbo" -> 0 [] slot = "sdxl" -> 5 [] OTHER -> 4
Default(kind, c) == CASE c = "guidance" -> IF Target(kind) = "local" THEN 0 ELSE 4
                      [] c = "quality" -> "Standard" [] c = "steps" -> 30 [] OTHER -> FALSE
Picker(kind) == kind \in {"image_local", "image_colab", "img2img", "inpaint", "outpaint"}

(* What speed_mode fixes.                                                  *)
Forced == [guidance |-> 1, quality |-> "Custom", steps |-> 4]

(* check_value: the options and the range of a control.                    *)
Accepts(c, v) == CASE c = "guidance" -> v <= 12 [] c = "quality" -> v \in {"Draft", "Standard", "High", "Custom"}
                   [] c = "steps" -> v \in 1 .. 80 [] OTHER -> v \in BOOLEAN

(* The preset: its settings, one reference role of none to two images that *)
(* names a reference set, and one adapter (a request without `adapters`    *)
(* stands for one that clears it, a stage for a preset without one).       *)
Preset == [settings |-> [guidance |-> 3, quality |-> "High"], least |-> 0, most |-> 2, set |-> 1]

NoSettings == [c \in {} |-> 0]
NoAsk  == [op |-> "", preset |-> FALSE, model |-> NoModel, adapters |-> FALSE, target |-> "auto",
           allow |-> FALSE, settings |-> NoSettings, images |-> 0, ids |-> 0, set |-> 0, mask |-> FALSE]
NoPlan == [ask |-> NoAsk, kind |-> "none", target |-> "none", slot |-> "none", values |-> NoSettings,
           effective |-> NoSettings, warned |-> {}, loras |-> 0, sent |-> 0, state |-> "none",
           rules |-> [enabled |-> TRUE, auto |-> FALSE, inputs |-> FALSE]]
NoStage == [plan |-> NoPlan, left |-> 0]

TypeOK ==
  /\ rules \in [enabled : BOOLEAN, auto : BOOLEAN, inputs : BOOLEAN]
  /\ slots \in [Names -> Models \cup {NoModel}]
  /\ machine \in [up : BOOLEAN, known : BOOLEAN, room : BOOLEAN, has : SUBSET Models]
  /\ remote \in BOOLEAN /\ adapter \in {"absent", "listed", "unreadable"}
  /\ plan.state \in {"none", "refused", "blocked", "needs_resources", "needs_check", "ready"}
  /\ Len(jobs) <= MaxJobs /\ changes \in 0 .. MaxChanges

Init ==
  /\ rules = NoPlan.rules
  /\ slots \in {[s \in Names |-> PresetModel],
                [s \in Names |-> IF Lane(s) = "local" THEN NoModel ELSE PresetModel]}
  /\ machine = [up |-> TRUE, known |-> TRUE, room |-> TRUE, has |-> Models]
  /\ remote = TRUE /\ adapter = "listed"
  /\ plan = NoPlan /\ stage = NoStage /\ jobs = <<>> /\ changes = 0

-----------------------------------------------------------------------------
(* A request, judged.                                                      *)

(* ResolveRequest and ResolveInputs.  A role is filled from ids or from a  *)
(* set, and only a preset has roles.                                       *)
Asks ==
  {[op |-> op, preset |-> p, model |-> m, adapters |-> a, target |-> t, allow |-> w, settings |-> s,
    images |-> i.images, ids |-> i.ids, set |-> i.set, mask |-> i.mask] :
     op \in Operations, p \in BOOLEAN, m \in Models \cup {NoModel}, a \in BOOLEAN,
     t \in {"local", "remote", "auto"}, w \in BOOLEAN, s \in Overrides, i \in Shapes}

(* _operation and _load_preset: what a request without a preset must name. *)
Named(ask) == ask.preset \/ (ask.model # NoModel /\ ask.ids = 0 /\ ask.set = 0 /\ ~ask.adapters)

(* _model.                                                                 *)
ModelOf(ask) == IF ask.model # NoModel THEN ask.model ELSE PresetModel
ModelChosen(ask) == ask.preset /\ ModelOf(ask) # PresetModel

(* _serves: the slot a lane and an operation need.                         *)
Serves(s, op, t, m) ==
  /\ Lane(s) = t /\ slots[s] = m
  /\ CASE op = "edit" \/ (op = "inpaint" /\ t = "remote") -> Role(s) = "edit"
       [] op \in {"text_to_video", "image_to_video"} -> Role(s) = "video"
       [] op = "long_video" -> s = "video"
       [] op = "control" -> Role(s) = "image" /\ slots[s] = slots["turbo"]
       [] OTHER -> Role(s) = "image"

(* _candidates: the first slot that serves, "none" without one.            *)
SlotFor(op, t, m) ==
  LET at == {i \in DOMAIN SlotNames : Serves(SlotNames[i], op, t, m)}
  IN  IF KindFor(op, t) = "none" \/ at = {} THEN "none"
      ELSE SlotNames[CHOOSE i \in at : \A j \in at : i <= j]

(* The issues of a candidate that has a slot; a gated model without a      *)
(* token is one that cannot be fetched, NoModel stands for its name.       *)
TargetBlocked(t, m) == IF t = "local" THEN ~machine.up ELSE ~remote
TargetNotes(t, m) ==
  IF t = "remote" THEN {}
  ELSE (IF machine.known THEN {} ELSE {"needs_check"})
       \cup (IF machine.room THEN {} ELSE {"insufficient_memory"})
       \cup (IF m \in machine.has THEN {} ELSE {"resource_not_ready"})

(* _choose_target.                                                         *)
MayRoute(ask) == rules.enabled /\ (ask.allow \/ rules.auto)
ChooseTarget(ask, m) ==
  LET slotted(t) == SlotFor(ask.op, t, m) # "none"
      ready(t)   == slotted(t) /\ ~TargetBlocked(t, m)
  IN  CASE ask.target # "auto" -> ask.target
        [] ready("local")  -> "local"
        [] ready("remote") /\ MayRoute(ask) -> "remote"
        [] ready("remote") -> IF slotted("local") THEN "local" ELSE "remote"
        [] slotted("local")  -> "local"
        [] slotted("remote") -> "remote"
        [] KindFor(ask.op, "local") # "none" -> "local"
        [] OTHER -> "remote"

-----------------------------------------------------------------------------
(* Settings.  A setting has its value and where it came from.              *)

Is(v, from) == [value |-> v, origin |-> from]
Registry(kind, c) == Is(Default(kind, c), "registry_default")

(* dependent: defaults_by moves only what nobody chose.                    *)
Dependent(kind, slot, c) ==
  IF Picker(kind) /\ c = "guidance" THEN Is(GuidanceOf(slot), "dependent_default") ELSE Registry(kind, c)

(* A model-tuned value of the preset is left behind with its model.        *)
Tuned(ask, kind) == IF ModelChosen(ask) /\ Picker(kind) THEN {"guidance"} ELSE {}
Authored(ask, kind, slot, c) ==
  IF ask.preset /\ c \in DOMAIN Preset.settings \ Tuned(ask, kind)
    THEN Is(Preset.settings[c], "preset") ELSE Dependent(kind, slot, c)
Chosen(ask, kind, slot, c) ==
  IF c \in DOMAIN ask.settings THEN Is(ask.settings[c], "override") ELSE Authored(ask, kind, slot, c)

(* _settings, up to the constraints: the origins are ordered, the caller   *)
(* over the author, the author over the model, the model over the registry.*)
Settled(ask, kind, slot) == [c \in Controls(kind) |-> Chosen(ask, kind, slot, c)]

(* constrained_by: what speed_mode fixes, and what contradicts it.         *)
Fast(s) == "speed_mode" \in DOMAIN s /\ s["speed_mode"].value
Fixed(s) ==
  [c \in DOMAIN s |-> IF Fast(s) /\ c \in DOMAIN Forced THEN Is(Forced[c], "runtime") ELSE s[c]]
Contradicts(s) ==
  Fast(s) /\ \E c \in DOMAIN s \cap DOMAIN Forced : s[c].origin = "override" /\ s[c].value # Forced[c]

SettingsRefused(ask, kind, slot) ==
  \/ \E c \in DOMAIN ask.settings : c \notin Controls(kind) \/ ~Accepts(c, ask.settings[c])
  \/ Contradicts(Settled(ask, kind, slot))

(* _effective: the builder takes the steps from the quality, and a recipe  *)
(* for another family is not the fast one.                                 *)
Built(values) ==
  [c \in DOMAIN values |->
     IF c = "steps" /\ values["quality"] # "Custom"
       THEN CASE values["quality"] = "Draft" -> 20 [] values["quality"] = "Standard" -> 30 [] OTHER -> 40
       ELSE values[c]]

(* Who is told: an override the builder changes, or one that is hidden     *)
(* (`steps` shows only beside a custom quality).                           *)
Told(s, effective) ==
  {c \in DOMAIN s : s[c].origin = "override" /\ (effective[c] # s[c].value
                                                 \/ (c = "steps" /\ s["quality"].value # "Custom"))}

-----------------------------------------------------------------------------
(* Adapters and inputs.                                                    *)

(* _adapters: the request's choice replaces the preset's.                  *)
Adapters(ask) == IF ask.preset /\ ask.adapters THEN 1 ELSE 0
AdapterBlocked(ask, m, t) ==
  Adapters(ask) = 1 /\ (adapter = "absent" \/ m \in Foreign \/ t = "remote")

(* The builder reads the file itself; what it could not read is a blocker. *)
LorasBuilt(ask, m, t) == IF adapter = "listed" /\ ~AdapterBlocked(ask, m, t) THEN Adapters(ask) ELSE 0

(* _reference_sets: a request's set replaces the preset's; ids use none.   *)
Ambiguous(ask) == ask.ids > 0 /\ ask.set > 0
References(ask) ==
  CASE ~ask.preset   -> 0
    [] ask.ids > 0   -> ask.ids
    [] ask.set > 0   -> ask.set
    [] OTHER         -> Preset.set

(* _inputs and _asset_entry: the role's bounds, then the kind's; the mask  *)
(* has to be there exactly when the kind takes one.                        *)
InputsRefused(ask, kind) ==
  \/ ask.preset /\ References(ask) \notin Preset.least .. Preset.most
  \/ /\ kind # "none"
     /\ \/ ask.images + References(ask) \notin Takes(kind).from .. Takes(kind).to
        \/ Takes(kind).mask # ask.mask
Sent(ask) == ask.images + References(ask) + (IF ask.mask THEN 1 ELSE 0)

(* _readiness.                                                             *)
Readiness(blocked, notes) ==
  CASE blocked -> "blocked"
    [] ~blocked /\ "resource_not_ready" \in notes -> "needs_resources"
    [] ~blocked /\ notes # {} -> "needs_check"
    [] OTHER -> "ready"

(* The blockers that do not depend on the inputs.                          *)
Blocked(ask, m, t, slot) ==
  \/ t = "remote" /\ ~rules.enabled
  \/ ask.target = "auto" /\ t = "remote" /\ ~MayRoute(ask)
  \/ slot = "none" \/ TargetBlocked(t, m)
  \/ AdapterBlocked(ask, m, t)

-----------------------------------------------------------------------------
(* The resolver.                                                           *)

Refused == [NoPlan EXCEPT !.state = "refused"]

(* The place of a request: its lane, its slot, and the kind of its job.    *)
Place(ask) ==
  LET t == ChooseTarget(ask, ModelOf(ask))  slot == SlotFor(ask.op, t, ModelOf(ask))
  IN  [target |-> t, slot |-> slot,
       kind |-> IF slot = "none" THEN "none" ELSE KindFor(ask.op, t)]

(* The plan up to its inputs.                                              *)
Resolved(ask, at, blocked, sent) ==
  LET m == ModelOf(ask)  homeless == at.kind = "none"
      s == Fixed(Settled(ask, at.kind, at.slot))
      values == IF homeless THEN NoSettings ELSE [c \in DOMAIN s |-> s[c].value]
      effective == IF homeless THEN NoSettings ELSE Built(values)
      notes == IF homeless THEN {} ELSE TargetNotes(at.target, m)
  IN  [ask |-> ask, kind |-> at.kind, target |-> at.target, slot |-> at.slot,
       values |-> values, effective |-> effective,
       warned |-> IF homeless THEN {} ELSE Told(s, effective),
       loras |-> LorasBuilt(ask, m, at.target), sent |-> sent, rules |-> rules,
       state |-> Readiness(blocked \/ Blocked(ask, m, at.target, at.slot), notes)]

Judged(ask, at) ==
  Named(ask) /\ (at.slot # "none" => ~SettingsRefused(ask, at.kind, at.slot))

(* resolve: the inputs it would send are part of the judgement.            *)
Resolve(ask, at) ==
  IF ~Judged(ask, at) \/ Ambiguous(ask) \/ InputsRefused(ask, at.kind)
    THEN Refused
    ELSE Resolved(ask, at,
           \/ at.target = "remote" /\ Sent(ask) > 0 /\ ~(ask.allow \/ rules.inputs)
           \/ LorasBuilt(ask, ModelOf(ask), at.target) # Adapters(ask), Sent(ask))

(* resolve_stage: up to the inputs, and short of the builder.              *)
ResolveStage(ask, at) == IF Judged(ask, at) THEN Resolved(ask, at, FALSE, 0) ELSE Refused

(* Requests do not touch each other here, so they come one at a time.      *)
Quiet == plan = NoPlan /\ stage = NoStage /\ Len(jobs) < MaxJobs

Prepare ==
  /\ Quiet
  /\ \E ask \in Asks : \E at \in {Place(ask)} : plan' = Resolve(ask, at)
  /\ UNCHANGED <<world, stage, jobs>>

Leave ==
  /\ plan # NoPlan /\ plan' = NoPlan
  /\ UNCHANGED <<world, stage, jobs>>

Row(p, form, sent) ==
  [form |-> form, target |-> p.target, sent |-> sent, asked |-> p.ask.target, allow |-> p.ask.allow,
   rules |-> p.rules]

(* A plan is resolved again when it is submitted: only what it names now   *)
(* is queued.                                                              *)
Submit ==
  /\ Len(jobs) < MaxJobs
  /\ plan.state \in {"ready", "needs_check", "needs_resources"}
  /\ \E at \in {Place(plan.ask)} : \E now \in {Resolve(plan.ask, at)} :
       /\ now.state \notin {"blocked", "refused"} /\ now.effective = plan.effective
       /\ now.slot = plan.slot
       /\ plan' = NoPlan /\ jobs' = Append(jobs, Row(now, "plan", now.sent))
  /\ UNCHANGED <<world, stage>>

(* Mutant: a stage is expanded by its readiness alone.                     *)
Mutant_Expand(ask, images) ==
  \E at \in {Place(ask)} : \E p \in {ResolveStage(ask, at)} :
    /\ p.state \notin {"refused", "blocked"} /\ p.kind # "none"
    /\ images \in Takes(p.kind).from .. Takes(p.kind).to
    /\ stage' = [plan |-> p, left |-> images]

(* expand: a preset stage that gets images, from the sources or from the   *)
(* stage before, has to be allowed to send them.                           *)
Expand(ask, images) ==
  \E at \in {Place(ask)} : \E p \in {ResolveStage(ask, at)} :
    /\ p.state \notin {"refused", "blocked"} /\ p.kind \notin {"none", "control_local", "t2v", "long_video"}
    /\ images \in Takes(p.kind).from .. Takes(p.kind).to
    /\ ~(p.target = "remote" /\ images > 0 /\ ~(ask.allow \/ rules.inputs))
    /\ stage' = [plan |-> p, left |-> images]

(* A stage names a preset and a target, and nothing else of a request.     *)
CreateSet ==
  /\ Quiet
  /\ \E ask \in Asks, images \in 0 .. 1 :
       /\ ask.preset /\ ask.model = NoModel /\ ask.settings = NoSettings
       /\ ask.images = 0 /\ ask.ids = 0 /\ ask.set = 0 /\ ~ask.mask
       /\ Expand(ask, images)
  /\ UNCHANGED <<world, plan, jobs>>

(* A variant of the stage is submitted by the scheduler of its set: the    *)
(* stage is data by then, and nothing is resolved again.                   *)
SubmitItem ==
  /\ Len(jobs) < MaxJobs /\ stage # NoStage
  /\ jobs' = Append(jobs, Row(stage.plan, "stage", stage.left))
  /\ stage' = NoStage
  /\ UNCHANGED <<world, plan>>

(* POST /api/jobs with a kind, and every route of its own: a remote kind   *)
(* needs a worker, and its images are sent.                                *)
AskKind(kind) ==
  /\ Quiet
  /\ Target(kind) = "remote" => remote
  /\ \E n \in Takes(kind).from .. Takes(kind).to :
       jobs' = Append(jobs, Row([NoPlan EXCEPT !.target = Target(kind), !.rules = rules], "kind", n))
  /\ UNCHANGED <<world, plan, stage>>

-----------------------------------------------------------------------------
(* The world.                                                              *)
Change == changes < MaxChanges /\ changes' = changes + 1

(* save_policy: the file is read, merged and written.                      *)
SavePolicy(part, value) ==
  /\ Change /\ rules[part] # value /\ rules' = [rules EXCEPT ![part] = value]
  /\ UNCHANGED <<slots, machine, remote, adapter, plan, stage, jobs>>

Configure(s, m) ==
  /\ Change /\ slots' = [slots EXCEPT ![s] = m]
  /\ UNCHANGED <<rules, machine, remote, adapter, plan, stage, jobs>>

(* A model leaves the disk, memory gets tight, the probe finds no device.  *)
Ages ==
  /\ Change
  /\ machine' \in {[machine EXCEPT !.up = FALSE], [machine EXCEPT !.known = FALSE],
                   [machine EXCEPT !.room = FALSE], [machine EXCEPT !.has = {}]}
  /\ UNCHANGED <<rules, slots, remote, adapter, plan, stage, jobs>>

Connection ==
  /\ Change /\ remote' = ~remote
  /\ UNCHANGED <<rules, slots, machine, adapter, plan, stage, jobs>>

AdapterGoes ==
  /\ Change /\ adapter' \in {"absent", "unreadable"}
  /\ UNCHANGED <<rules, slots, machine, remote, plan, stage, jobs>>

Next ==
  \/ Prepare \/ Leave \/ Submit \/ CreateSet \/ SubmitItem \/ Connection \/ Ages \/ AdapterGoes
  \/ \E kind \in Kinds : AskKind(kind)
  \/ \E part \in DOMAIN rules, value \in BOOLEAN : SavePolicy(part, value)
  \/ \E s \in Names, m \in Models \cup {NoModel} : Configure(s, m)

Spec == Init /\ [][Next]_vars

-----------------------------------------------------------------------------
(* Properties.                                                             *)

(* What a preset sends to the Remote GPU was allowed when it was judged:   *)
(* the worker by the policy and, for Auto, by it or the request; its       *)
(* images by the request or the policy, also the images a stage of a       *)
(* Variant Set gets after it was resolved.                                 *)
StaysHome ==
  \A j \in DOMAIN jobs : jobs[j].form # "kind" /\ jobs[j].target = "remote" =>
    /\ jobs[j].rules.enabled
    /\ jobs[j].asked = "auto" => jobs[j].allow \/ jobs[j].rules.auto
    /\ jobs[j].sent > 0 => jobs[j].allow \/ jobs[j].rules.inputs

(* A plan that can be submitted runs the model that was asked for, every   *)
(* adapter chosen, and each setting the caller chose as it was chosen, or  *)
(* says that it will not.                                                  *)
ChoicesStand ==
  plan.state \in {"ready", "needs_check", "needs_resources"} =>
    /\ plan.kind = KindFor(plan.ask.op, plan.target)
    /\ plan.loras = Adapters(plan.ask)
    /\ \A c \in DOMAIN plan.ask.settings :
         /\ plan.values[c] = plan.ask.settings[c]
         /\ plan.effective[c] = plan.ask.settings[c] \/ c \in plan.warned

(* What was decided for a request holds when its job runs.                 *)
PlansStand == StaysHome /\ ChoicesStand
=============================================================================
