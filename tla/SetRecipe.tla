------------------------------- MODULE SetRecipe -------------------------------
(***************************************************************************)
(* The recipe of a variant set, from the text a person wrote to what each  *)
(* attempt of each variant asks for: variant_sets/recipe.py, expansion.py, *)
(* templates.py and naming.py, the parts of service.py that write and      *)
(* rewrite the params of an item, and the paths of an export (export.py).  *)
(* VariantSets has the same items for the order in which they move; here   *)
(* their order is free and their content is what matters.                  *)
(*                                                                         *)
(* A name or a value is a string; Ident is what slug makes of it and Plain *)
(* the value itself in a path, case folded, both sequences of letters.  A  *)
(* prompt is the set of the axes it names; a path is a sequence of         *)
(* components, the last one the file, each a sequence of letters.          *)
(***************************************************************************)
EXTENDS Naturals, Sequences, SequencesExt

CONSTANTS
  Recipes,      \* what people write
  Ident,        \* slug, on names and values
  Plain,        \* a value made safe for a path
  Controls,     \* the settings of an operation that a recipe may give
  Cap,          \* VARIANT_MAX_COMBINATIONS
  MaxReruns     \* bound on reruns and retries

VARIABLES
  recipe,       \* what was written
  phase,        \* "written", "refused" or "made"
  item,         \* the rows of the set
  reruns        \* how often something ran again

vars == <<recipe, phase, item, reruns>>

-----------------------------------------------------------------------------
(* Expansion.                                                              *)

Stage(k)   == recipe.stages[k]
Stages     == DOMAIN recipe.stages
OwnAxes(k) == {a.name : a \in ToSet(Stage(k).axes)}
Known(k)   == UNION {OwnAxes(j) : j \in 1 .. k}
AllAxes    == FoldLeft(LAMBDA all, s : all \o s.axes, <<>>, recipe.stages)
Values(a)  == UNION {ToSet(x.values) : x \in {y \in ToSet(AllAxes) : y.name = a}}

(* make_axis and check_unique_names: neither two values of an axis nor two *)
(* axes of a recipe may come to one identifier.                            *)
Apart(s) == \A i, j \in DOMAIN s : Ident[s[i]] = Ident[s[j]] => i = j
AxesOK ==
  /\ \A a \in ToSet(AllAxes) : a.values # <<>> /\ Apart(a.values)
  /\ Apart([i \in DOMAIN AllAxes |-> AllAxes[i].name])

(* The count is known before a single combination is built.                *)
Count(k) == FoldLeft(LAMBDA n, a : n * Len(a.values), 1, Stage(k).axes)
Total(k) == FoldLeft(LAMBDA n, j : n * Count(j), 1, [j \in 1 .. k |-> j])
UnderCap == FoldLeft(LAMBDA n, k : n + Total(k), 0, [k \in Stages |-> k]) <= Cap

(* An item is a value for every axis up to its stage: each combination of  *)
(* the stage's own axes, once per item of the stage before.                *)
ItemsOf(k) == {[stage |-> k, values |-> v] :
                 v \in {f \in [Known(k) -> UNION {Values(a) : a \in Known(k)}] :
                          \A a \in Known(k) : f[a] \in Values(a)}}
Items == UNION {ItemsOf(k) : k \in Stages}
ParentOf(i) == [stage |-> i.stage - 1,
                values |-> [a \in Known(i.stage - 1) |-> i.values[a]]]
Descendants(i) == {d \in DOMAIN item : /\ d.stage > i.stage
                                       /\ \A a \in DOMAIN i.values : d.values[a] = i.values[a]}

(* Declaration order, the last axis fastest.                               *)
Place(s, v) == CHOOSE n \in DOMAIN s : s[n] = v
AxesUpTo(k) == FoldLeft(LAMBDA all, s : all \o s.axes, <<>>, SubSeq(recipe.stages, 1, k))
Ordinal(i) == FoldLeft(LAMBDA n, a : n * Len(a.values) + Place(a.values, i.values[a.name]) - 1,
                       0, AxesUpTo(i.stage))

(* An identity that no position enters.                                    *)
Key(i) == {<<a, Ident[i.values[a]]>> : a \in DOMAIN i.values}

-----------------------------------------------------------------------------
(* What a stage may say.                                                   *)

Operations == [image_edit |-> <<1, 3, FALSE>>, img2img |-> <<1, 1, FALSE>>,
               inpaint |-> <<1, 1, TRUE>>, inpaint_remote |-> <<1, 1, TRUE>>,
               outpaint |-> <<1, 1, FALSE>>, control_local |-> <<1, 1, FALSE>>,
               image_local |-> <<0, 0, FALSE>>, image_colab |-> <<0, 0, FALSE>>]

Offered(k) == Stage(k).operation \in DOMAIN Operations \cap DOMAIN Controls
Op(k)      == Operations[Stage(k).operation]

(* The first stage takes the recipe's sources, a later one the output of   *)
(* the stage before and its own references.                                *)
SourcesOK(k) ==
  IF k = 1 THEN /\ Stage(k).references = 0
                /\ recipe.sources \in Op(k)[1] .. Op(k)[2]
           ELSE Op(k)[2] > 0 /\ 1 + Stage(k).references <= Op(k)[2]
MaskOK(k) == IF Op(k)[3] THEN Stage(k).mask \in recipe.masks ELSE Stage(k).mask = ""

(* templates.check: an axis has no value before its own stage; only a name *)
(* may say where the item stands.                                          *)
Builtins == {"_index", "_key", "_stage"}
NamedIn(name) == UNION {{part.axis : part \in ToSet(folder)} : folder \in ToSet(name)} \ {""}
Slot(axis) == [axis |-> axis, raw |-> FALSE, text |-> <<>>]
Underscore == [axis |-> "", raw |-> FALSE, text |-> <<"_">>]
NamingOf(k) ==
  IF Stage(k).naming # <<>> THEN Stage(k).naming
  ELSE IF AxesUpTo(k) = <<>> THEN <<<<Slot("_index")>>>>
  ELSE <<FoldLeft(LAMBDA t, a : IF t = <<>> THEN <<Slot(a.name)>>
                                            ELSE t \o <<Underscore, Slot(a.name)>>,
                  <<>>, AxesUpTo(k))>>
TemplatesOK(k) == /\ Stage(k).prompt \subseteq Known(k)
                  /\ NamedIn(NamingOf(k)) \subseteq Known(k) \cup Builtins

ContentOK == \A a \in DOMAIN recipe.content :
               a \in Known(Len(recipe.stages)) /\ DOMAIN recipe.content[a] \subseteq Values(a)

(* _check_value_params: one axis at most may set a setting.                *)
Sets(k, a) == UNION {DOMAIN Stage(k).value_params[a][v] : v \in DOMAIN Stage(k).value_params[a]}
OneOwner(k) ==
  \A a, b \in DOMAIN Stage(k).value_params : Sets(k, a) \cap Sets(k, b) # {} => a = b
ValueParamsOK(k) ==
  \A a \in DOMAIN Stage(k).value_params :
    /\ a \in Known(k) /\ DOMAIN Stage(k).value_params[a] \subseteq Values(a)
    /\ Sets(k, a) \subseteq Controls[Stage(k).operation]
ParamsOK(k) == DOMAIN Stage(k).params \subseteq Controls[Stage(k).operation]

StageOK(k) ==
  Offered(k) /\ SourcesOK(k) /\ MaskOK(k) /\ TemplatesOK(k) /\ ParamsOK(k) /\ ValueParamsOK(k)
    /\ OneOwner(k)

(* compile_recipe, in its order: the count before the content.             *)
Compiles == AxesOK /\ UnderCap /\ ContentOK /\ \A k \in Stages : StageOK(k)

-----------------------------------------------------------------------------
(* What a variant asks for.                                                *)

(* derive_seed: from the base and the identity alone.                      *)
SeedFor(i) == IF recipe.fixed THEN <<"base">> ELSE <<"derived", i.stage, Key(i)>>

Text(a, v) == IF a \in DOMAIN recipe.content /\ v \in DOMAIN recipe.content[a]
                THEN recipe.content[a][v] ELSE v

(* The stage's settings, then those of each of the item's values in turn,  *)
(* the later over the earlier.                                             *)
Override(k, request, a, v) ==
  IF a \in DOMAIN Stage(k).value_params /\ v \in DOMAIN Stage(k).value_params[a]
    THEN [s \in DOMAIN request \cup DOMAIN Stage(k).value_params[a][v] |->
            IF s \in DOMAIN Stage(k).value_params[a][v] THEN Stage(k).value_params[a][v][s]
                                                        ELSE request[s]]
    ELSE request
Request(i) ==
  LET axes == AxesUpTo(i.stage)
  IN  [settings |-> FoldLeft(LAMBDA r, a : Override(i.stage, r, a.name, i.values[a.name]),
                             Stage(i.stage).params, axes),
       prompt   |-> {<<a, Text(a, i.values[a])>> : a \in Stage(i.stage).prompt}]

(* render_name: what stands in the template, an identifier, or the value.  *)
Part(i, part) ==
  CASE part.axis = ""       -> part.text
    [] part.axis = "_index" -> <<ToString(Ordinal(i))>>
    [] part.axis = "_stage" -> <<ToString(i.stage)>>
    [] part.axis = "_key"   -> FoldLeft(LAMBDA t, a : t \o <<a.name, "=">>
                                                   \o Ident[i.values[a.name]] \o <<",">>,
                                        <<>>, AxesUpTo(i.stage))
    [] part.axis \in DOMAIN i.values ->
         IF part.raw THEN Plain[i.values[part.axis]] ELSE Ident[i.values[part.axis]]
Component(i, folder) == FlattenSeq([m \in DOMAIN folder |-> Part(i, folder[m])])
NameOf(i) ==
  LET t == NamingOf(i.stage)
  IN  [n \in DOMAIN t |-> Component(i, t[n]) \o IF n = Len(t) THEN <<".png">> ELSE <<>>]

(* find_collisions: a path that two claim, or that is a folder of another. *)
Folders(path) == {SubSeq(path, 1, n) : n \in 1 .. Len(path) - 1}
(* Mutant: only a path that two claim.                                     *)
Mutant_Collide(names) == \E i, j \in DOMAIN names : i # j /\ names[i] = names[j]
Collide(names) ==
  \E i, j \in DOMAIN names :
    i # j /\ (names[i] = names[j] \/ names[i] \in Folders(names[j]))

-----------------------------------------------------------------------------
(* The rows.  "made" counts the images of a variant and "asset" is the one *)
(* it shows, if any; "takes" is the image of the variant it derives from   *)
(* that its stored params name, "source" the one recorded as consumed.     *)

Pending(i) == [state |-> "pending", request |-> Request(i), seed |-> SeedFor(i),
               built |-> FALSE, made |-> 0, asset |-> 0, takes |-> 0, source |-> 0]

Finished == {"succeeded", "failed"}
States   == Finished \cup {"pending", "queued", "blocked"}

TypeOK ==
  /\ recipe \in Recipes /\ phase \in {"written", "refused", "made"}
  /\ reruns \in 0 .. MaxReruns
  /\ phase = "made" <=> DOMAIN item # {}
  /\ \A i \in DOMAIN item : /\ item[i].state \in States /\ item[i].built \in BOOLEAN
                            /\ {item[i].takes, item[i].source, item[i].asset} \subseteq
                               0 .. MaxReruns + 1

Init ==
  /\ recipe \in Recipes
  /\ phase = "written" /\ item = [i \in {} |-> 0] /\ reruns = 0

Create ==
  /\ phase = "written"
  /\ IF Compiles /\ \A k \in Stages : ~Collide([i \in ItemsOf(k) |-> NameOf(i)])
       THEN phase' = "made" /\ item' = [i \in Items |-> Pending(i)]
       ELSE phase' = "refused" /\ UNCHANGED item
  /\ UNCHANGED <<recipe, reruns>>

(* A variant runs once the one it derives from has succeeded.  Params that *)
(* were built before are used as they are.                                 *)
First(i)   == i.stage = 1
Ready(i)   == IF First(i) THEN TRUE ELSE item[ParentOf(i)].state = "succeeded"
Source(i)  == IF First(i) THEN 0 ELSE item[ParentOf(i)].asset
Effective(i) == IF item[i].built THEN item[i].takes ELSE Source(i)

Submit(i) ==
  /\ item[i].state = "pending" /\ Ready(i)
  /\ item' = [item EXCEPT ![i].state = "queued", ![i].built = TRUE,
                          ![i].takes = Effective(i), ![i].source = Source(i)]
  /\ UNCHANGED <<recipe, phase, reruns>>

Succeed(i) ==
  /\ item[i].state = "queued"
  /\ item' = [item EXCEPT ![i].state = "succeeded", ![i].made = @ + 1,
                          ![i].asset = item[i].made + 1]
  /\ UNCHANGED <<recipe, phase, reruns>>

(* What derives from it and has not begun is blocked.                      *)
Fail(i) ==
  /\ item[i].state = "queued"
  /\ item' = [d \in DOMAIN item |->
       IF d = i THEN [item[d] EXCEPT !.state = "failed"]
       ELSE IF d \in Descendants(i) /\ item[d].state = "pending"
              THEN [item[d] EXCEPT !.state = "blocked"] ELSE item[d]]
  /\ UNCHANGED <<recipe, phase, reruns>>

Reset(row)     == [row EXCEPT !.state = "pending", !.asset = 0]
Unblocked(row) == IF row.state = "blocked" THEN [row EXCEPT !.state = "pending"] ELSE row

(* Failed variants again, with the params that failed.                     *)
Retry ==
  /\ phase = "made" /\ reruns < MaxReruns /\ reruns' = reruns + 1
  /\ LET again == {i \in DOMAIN item : item[i].state = "failed"}
         under == UNION {Descendants(i) : i \in again}
     IN  /\ again # {}
         /\ item' = [i \in DOMAIN item |-> IF i \in again THEN Reset(item[i])
                                     ELSE IF i \in under THEN Unblocked(item[i]) ELSE item[i]]
  /\ UNCHANGED <<recipe, phase>>

(* One variant again on purpose; with cascade what derives from it is      *)
(* rendered anew from the snapshot, under the seed it had.                 *)
Rerendered(d) == [Reset(item[d]) EXCEPT !.request = Request(d), !.built = FALSE, !.takes = 0]
Rerun(i, reseed, cascade) ==
  /\ reruns < MaxReruns /\ reruns' = reruns + 1
  /\ item[i].state \in Finished /\ Ready(i)
  /\ item' = [d \in DOMAIN item |->
       IF d = i
         THEN [Reset(item[d]) EXCEPT !.seed = IF reseed THEN <<"fresh", reruns>> ELSE @]
       ELSE IF d \notin Descendants(i) THEN item[d]
       ELSE IF ~cascade THEN Unblocked(item[d])
       ELSE IF item[d].state \in {"pending", "queued"} THEN item[d] ELSE Rerendered(d)]
  /\ UNCHANGED <<recipe, phase>>

(* plan: what an export made now has at which path, those of the stages    *)
(* before the last, when they are wanted, in a folder of their own.  It is *)
(* refused if two of them collide.                                         *)
FinalStage == Len(recipe.stages)
PathOf(i) == IF i.stage = FinalStage THEN NameOf(i)
             ELSE <<<<"stage-", ToString(i.stage)>>>> \o NameOf(i)
Exported(intermediate) ==
  [i \in {d \in DOMAIN item : /\ item[d].state = "succeeded" /\ item[d].asset # 0
                              /\ intermediate \/ d.stage = FinalStage} |-> PathOf(i)]

Next ==
  \/ Create \/ Retry
  \/ \E i \in DOMAIN item : \/ Submit(i) \/ Succeed(i) \/ Fail(i)
                            \/ \E reseed, cascade \in BOOLEAN : Rerun(i, reseed, cascade)

Spec == Init /\ [][Next]_vars

-----------------------------------------------------------------------------
(* Whatever has run, failed or run again when a set is exported: every     *)
(* file of the archive has a path of its own that is not inside another's, *)
(* and was made with every setting that any of its values gives; and an    *)
(* export of the last stage is never refused, for its names were checked   *)
(* before anything was generated (naming.py:25, recipe.py "refuse rather   *)
(* than pick silently").                                                   *)
Given(i, a) == IF a \in DOMAIN Stage(i.stage).value_params
                  /\ i.values[a] \in DOMAIN Stage(i.stage).value_params[a]
                 THEN Stage(i.stage).value_params[a][i.values[a]] ELSE <<>>
FiledAsItself ==
  \A intermediate \in BOOLEAN :
    LET files == Exported(intermediate)
    IN  IF Collide(files) THEN intermediate
        ELSE \A i \in DOMAIN files :
               /\ \A j \in DOMAIN files : IsPrefix(files[i], files[j]) => i = j
               /\ \A a \in DOMAIN i.values : \A s \in DOMAIN Given(i, a) :
                    /\ s \in DOMAIN item[i].request.settings
                    /\ item[i].request.settings[s] = Given(i, a)[s]

(* "What this attempt consumed" (models.py): the image recorded as the     *)
(* source of an attempt is the one its params name.                        *)
ConsumedIsRecorded ==
  \A i \in DOMAIN item : item[i].state \in {"queued", "succeeded"} =>
    item[i].source = item[i].takes

=============================================================================
