------------------------------ MODULE Generators ------------------------------
(***************************************************************************)
(* Saved generators: one job kind's settings frozen under a name, with the *)
(* few fields a run may still change.  The kind here is one that takes an  *)
(* image and a mask, and whose guidance follows its model.                 *)
(*                                                                         *)
(* Every route is one step.  Between two of them the kind's own controls   *)
(* change with the devices, gallery images go to the trash, and presets,   *)
(* which share the index over slugs, are installed.                        *)
(***************************************************************************)
EXTENDS Naturals, Sequences, FiniteSets

CONSTANTS
  Names,        \* what people call their generators
  Accented,     \* names that Python's lower() and SQLite's do not agree on
  Drafts,       \* settings people save (see Draft)
  Asks,         \* values runs bring (see Ask)
  Models, Guidances,
  Follows,      \* the guidance each model defaults to (defaults_by)
  Unset,        \* a setting that is not sent
  Sizes,        \* sizes of the gallery images; no image is 0
  MaxIds,       \* bound on generators ever made (AUTOINCREMENT)
  MaxChanges    \* bound on changes of devices, gallery and presets

VARIABLES
  saved,        \* recipe rows of schema 1
  made,         \* ids given so far
  taken,        \* slugs of presets
  offered,      \* the models the kind offers, and the one it defaults to
  gone,         \* images in the trash
  ran,          \* what the last step queued, with the row it came from
  changes       \* changes around the generators so far

vars == <<saved, made, taken, offered, gone, ran, changes>>

Fields  == {"model", "guidance", "images", "mask"}
Images  == DOMAIN Sizes
MaybeImages == Images \cup {0}
Draft   == [model : Models \cup {Unset}, guidance : Guidances \cup {Unset},
            expose : SUBSET Fields, images : MaybeImages, mask : MaybeImages]
(* An ask names the fields it brings; the others keep what was saved.      *)
Ask     == [brings : SUBSET Fields, model : Models, guidance : Guidances,
            images : MaybeImages, mask : MaybeImages]
Ids     == 1 .. MaxIds
IdKeys  == <<"1", "2", "3", "4">>               \* the id as a key in a path
Suffix  == <<"", "-2", "-3", "-4", "-5">>
Slugs   == {n \o s : n \in Names, s \in {Suffix[i] : i \in 1 .. 5}}

NoRow == [name |-> "", slug |-> "", model |-> Unset, guidance |-> Unset, defaulted |-> {},
          chosen |-> Unset, expose |-> {}, images |-> 0, mask |-> 0]
NoRun == [key |-> "", id |-> 0, row |-> NoRow, brings |-> {}, model |-> Unset,
          guidance |-> Unset, asked |-> Unset, images |-> 0, mask |-> 0]

TypeOK ==
  /\ Drafts \subseteq Draft /\ Asks \subseteq Ask
  /\ \A i \in Ids : /\ saved[i].name \in Names \cup {""}
                    /\ saved[i].slug \in Slugs \cup {""}
                    /\ saved[i].defaulted \subseteq {"model", "guidance"}
  /\ made \in 0 .. MaxIds /\ taken \subseteq Slugs /\ gone \subseteq Images
  /\ offered.models \subseteq Models /\ offered.default \in offered.models
  /\ ran.id \in 0 .. MaxIds
  /\ changes \in 0 .. MaxChanges

Init ==
  /\ saved = [i \in Ids |-> NoRow] /\ made = 0 /\ taken = {}
  /\ \E d \in Models : offered = [models |-> Models, default |-> d]
  /\ gone = {} /\ ran = NoRun /\ changes = 0

-----------------------------------------------------------------------------
(* Names, slugs and ids.                                                   *)

Rows == {i \in Ids : saved[i] # NoRow}

(* clean_name and check_slug: what reads as an id is refused.              *)
(* Mutant: a name may be a number.                                         *)
Mutant_NotAnId(name) == TRUE
NotAnId(name) == \A i \in Ids : name # IdKeys[i]

(* recipe_by_name lower()s the key in Python and the column in SQLite.     *)
Named(key) == {i \in Rows : saved[i].name = key /\ key \notin Accented}
SlugOf(key) == {i \in Rows : saved[i].slug = key}

(* find_recipe: id, then slug (a preset's does not count), then name.      *)
Found(key) ==
  LET byId == {i \in Rows : key = IdKeys[i]} IN
  IF byId # {} THEN byId ELSE IF SlugOf(key) # {} THEN SlugOf(key) ELSE Named(key)

SlugFree(slug, but) == slug \notin taken /\ SlugOf(slug) \subseteq {but}

(* _allocate_slug: the name, or the first of name-2, name-3, ...           *)
Allocated(name, but) ==
  LET n == CHOOSE k \in 1 .. 5 : /\ SlugFree(name \o Suffix[k], but)
                                 /\ \A j \in 1 .. k - 1 : ~SlugFree(name \o Suffix[j], but)
  IN name \o Suffix[n]

(* The check by name, and the index that ignores the case of ASCII letters.*)
NameFree(name, but) == {i \in Rows : saved[i].name = name} \subseteq {but}

-----------------------------------------------------------------------------
(* compile_recipe.                                                         *)

(* _fill_defaults: what was left out takes the default of its control, and *)
(* what came from a default, or equals it, is listed.                      *)
FilledModel(d)    == IF d.model = Unset THEN offered.default ELSE d.model
FilledGuidance(d) == IF d.guidance = Unset THEN Follows[FilledModel(d)] ELSE d.guidance
Defaulted(d) ==
  {f \in {"model"} : FilledModel(d) = offered.default}
    \cup {f \in {"guidance"} : FilledGuidance(d) = Follows[FilledModel(d)]}

(* _check_frozen_shape: an input is frozen with the setup or exposed.      *)
ShapeFits(d) == \A f \in {"images", "mask"} : f \in d.expose \/ d[f] # 0

(* validate_assets: what is frozen is there, and the mask has the size of  *)
(* the image.                                                              *)
There(a) == a \notin gone
MaskFits(image, mask) == (image # 0 /\ mask # 0) => Sizes[image] = Sizes[mask]
AssetsFit(d) ==
  /\ \A a \in {d.images, d.mask} \ {0} : There(a)
  /\ MaskFits(d.images, d.mask)

Compiles(d) == FilledModel(d) \in offered.models /\ ShapeFits(d) /\ AssetsFit(d)

Compiled(name, slug, d) ==
  [name |-> name, slug |-> slug, model |-> FilledModel(d), guidance |-> FilledGuidance(d),
   defaulted |-> Defaulted(d),
   chosen |-> IF d.guidance = Follows[FilledModel(d)] THEN Unset ELSE d.guidance,
   expose |-> d.expose, images |-> d.images, mask |-> d.mask]

Refused == UNCHANGED saved

-----------------------------------------------------------------------------
(* Routes.                                                                 *)

(* create_recipe.                                                          *)
Create ==
  LET i == made + 1 IN
  /\ i \in Ids
  /\ \E name \in Names, d \in Drafts :
       /\ NotAnId(name) /\ NameFree(name, 0) /\ Compiles(d)
       /\ saved' = [saved EXCEPT ![i] = Compiled(name, Allocated(name, 0), d)]
  /\ made' = i
  /\ ran' = NoRun /\ UNCHANGED <<taken, offered, gone, changes>>

(* update_recipe: the slug stays unless one is sent.                       *)
Update ==
  /\ \E i \in Rows, name \in Names, d \in Drafts, explicit \in Names \cup {""} :
       LET slug == IF explicit = "" THEN saved[i].slug ELSE explicit IN
       /\ NotAnId(name) /\ NotAnId(slug)
       /\ NameFree(name, i) /\ SlugFree(slug, i) /\ Compiles(d)
       /\ saved' = [saved EXCEPT ![i] = Compiled(name, slug, d)]
  /\ ran' = NoRun /\ UNCHANGED <<made, taken, offered, gone, changes>>

(* remove_recipe.                                                          *)
Remove ==
  /\ \E i \in Rows : saved' = [saved EXCEPT ![i] = NoRow]
  /\ ran' = NoRun /\ UNCHANGED <<made, taken, offered, gone, changes>>

-----------------------------------------------------------------------------
(* merge_run.                                                              *)

(* What is not exposed cannot be brought; an input that was not frozen must *)
(* be (_required), and what is brought has the right number of images.     *)
Required(row)    == {f \in {"images", "mask"} \cap row.expose : row[f] = 0}
FieldFits(a, f)  == f \in {"images", "mask"} => a[f] # 0
BringsFit(row, a) ==
  /\ a.brings \subseteq row.expose /\ Required(row) \subseteq a.brings
  /\ \A f \in a.brings : FieldFits(a, f)

Overlaid(row, a, f) == IF f \in a.brings THEN a[f] ELSE row[f]

(* _recompute_defaulted: a default follows the field it depends on, if the *)
(* run changed that field and not the setting itself.                      *)
Recomputed(row, a) ==
  LET model == Overlaid(row, a, "model") IN
  IF "guidance" \in row.defaulted /\ "guidance" \notin a.brings /\ model # row.model
    THEN Follows[model]
    ELSE Overlaid(row, a, "guidance")

(* create_job judges the inputs again, as they are now.                    *)
InputsFit(image, mask) == There(image) /\ There(mask) /\ Sizes[image] = Sizes[mask]

(* run_recipe: the settings are judged by what the kind offers today.      *)
Run ==
  /\ \E key \in {IdKeys[i] : i \in Ids} \cup Names \cup Slugs, a \in Asks :
       \E i \in Found(key) :
         LET row == saved[i]  image == Overlaid(row, a, "images")
             mask == Overlaid(row, a, "mask")  model == Overlaid(row, a, "model") IN
         /\ BringsFit(row, a) /\ model \in offered.models /\ InputsFit(image, mask)
         /\ ran' = [key |-> key, id |-> i, row |-> row, brings |-> a.brings,
                    model |-> model, guidance |-> Recomputed(row, a), asked |-> a.guidance,
                    images |-> image, mask |-> mask]
  /\ UNCHANGED <<saved, made, taken, offered, gone, changes>>

-----------------------------------------------------------------------------
(* Around them.                                                            *)

Changes == changes < MaxChanges /\ changes' = changes + 1 /\ ran' = NoRun

(* A device comes or goes, or a release moves the default.                 *)
Offers ==
  /\ Changes
  /\ \E ms \in SUBSET Models, d \in Models :
       d \in ms /\ offered' = [models |-> ms, default |-> d]
  /\ UNCHANGED <<saved, made, taken, gone>>

Trash ==
  /\ Changes /\ \E a \in Images : gone' = gone \cup {a}
  /\ UNCHANGED <<saved, made, taken, offered>>

(* A preset is saved and takes the first free slug of its id.              *)
TakeSlug ==
  /\ Changes /\ \E name \in Names : taken' = taken \cup {Allocated(name, 0)}
  /\ UNCHANGED <<saved, made, offered, gone>>

Next == Create \/ Update \/ Remove \/ Run \/ Offers \/ Trash \/ TakeSlug

Spec == Init /\ [][Next]_vars

-----------------------------------------------------------------------------
(* A run is of the setup it was asked for: a number runs the generator that*)
(* has or had that id or none; guidance somebody chose stands, whoever chose*)
(* it, and the rest is what suits the model that runs; the inputs are there*)
(* and fit each other (recipes.py merge_run, db.py find_recipe).           *)
RunsAsSaved ==
  ran.id # 0 =>
    /\ \A i \in Ids : ran.key = IdKeys[i] => ran.id = i
    /\ ran.guidance = CASE "guidance" \in ran.brings -> ran.asked
                        [] "guidance" \notin ran.brings /\ ran.row.chosen # Unset -> ran.row.chosen
                        [] OTHER -> Follows[ran.model]
    /\ Sizes[ran.images] = Sizes[ran.mask]

=============================================================================
