------------------------------- MODULE MCJobs -------------------------------
(***************************************************************************)
(* The way from a request to what is shown of its job, checked in one run: *)
(* presets and generators, policies applied, submissions under keys, the   *)
(* tools of agents, the recipes of sets, the order of a lane, the images a *)
(* handler makes, the card it makes them on, the page, and the library the *)
(* images go to. A behaviour is one of the component on the scene; x1, x2, *)
(* ... are that component's variables, so that the states add up and are   *)
(* not multiplied. The card has its own, which rest when it is not on the  *)
(* scene.                                                                  *)
(***************************************************************************)
EXTENDS GpuResidency, Sequences, TLC

CONSTANTS
  Scenes, Reruns, t1, t2, k1, u1, u2, m1, m2, w1, w2, warm, none

VARIABLES
  scene, x1, x2, x3, x4, x5, x6, x7, x8, x9, x10, x11, x12

stage ==
  <<x1, x2, x3, x4, x5, x6, x7, x8, x9, x10, x11, x12>>

-----------------------------------------------------------------------------

(* What may be left out of a call's settings, and of a request's inputs.    *)
Choices == {<<>>, [steps |-> 9], [quality |-> "Custom", steps |-> 9],
            [speed_mode |-> TRUE, guidance |-> 2]}
Shape(images, ids, set, mask) ==
  [images |-> images, ids |-> ids, set |-> set, mask |-> mask]

(* The image variants of the endpoint, and bodies that use them.            *)
Variant(where, default, friendly, raw) ==
  [lane |-> where, default |-> default, friendly |-> friendly, raw |-> raw]
Body(model, n, size, background, extra) ==
  [model |-> model, edit |-> FALSE, mask |-> FALSE, images |-> 0, n |-> n,
   size |-> size, background |-> background, extra |-> extra, fits |-> TRUE]
Change(model, mask, images, n, size, background, extra, fits) ==
  [Body(model, n, size, background, extra) EXCEPT
     !.edit = TRUE, !.mask = mask, !.images = images, !.fits = fits]
Bodies ==
  {Body("brush-fast", 3, "ratio", "transparent", "quality"),
   Body("remote/hidream", 3, "none", "transparent", "none"),
   Body("brush-fast", 0, "tiny", "none", "none"),
   Body("dall-e-3", 0, "none", "none", "none"),
   Body("brush-fast", 0, "none", "none", "jpeg"),
   Change("brush-quality", FALSE, 1, 3, "pixels", "transparent", "none", TRUE),
   Change("brush-quality", FALSE, 2, 0, "none", "none", "none", TRUE),
   Change("brush-quality", TRUE, 1, 0, "pixels", "none", "none", TRUE),
   Change("brush-quality", TRUE, 1, 0, "none", "none", "none", FALSE),
   Change("remote/hidream", FALSE, 2, 1, "ratio", "transparent", "quality", TRUE),
   Change("remote/hidream", FALSE, 1, 3, "none", "none", "none", TRUE),
   Change("brush-remote", TRUE, 1, 0, "pixels", "none", "none", TRUE)}

(* Recipes of sets: axes, stages, and what their values ask for.            *)
Axis(n, v) == [name |-> n, values |-> v]
Stage(op, axes) ==
  [operation |-> op, axes |-> axes, prompt |-> {}, naming |-> <<>>,
   params |-> <<>>, value_params |-> <<>>, mask |-> "", references |-> 0]
Recipe(sources, stages) ==
  [sources |-> sources, masks |-> {"m"}, content |-> <<>>, fixed |-> FALSE,
   stages |-> stages]
Color == Axis("color", <<"Red", "blue">>)
Size  == Axis("size", <<"big">>)
Round == Axis("shape", <<"round", "flat">>)
Steps == "steps" :> 20
Big(asks)  == "size"  :> ("big" :> asks)
Blue(asks) == "color" :> ("blue" :> asks)
Name(a, raw) == [axis |-> a, raw |-> raw, text |-> <<>>]
Lit(text)    == [axis |-> "", raw |-> FALSE, text |-> text]
Together(naming) ==
  Recipe(0, <<[Stage("image_local", <<Axis("hue", <<"x", "x_y">>), Axis("tone", <<"y_z", "z">>)>>)
                 EXCEPT !.naming = <<naming>>]>>)
Two(value_params, naming, prompt) ==
  Recipe(1, <<[Stage("img2img", <<Color>>) EXCEPT !.params = Steps,
                                                  !.prompt = {"color"}],
              [Stage("image_edit", <<Size>>) EXCEPT
                 !.value_params = value_params, !.naming = naming,
                 !.prompt = prompt]>>)
Recipes ==
  {[Recipe(1, <<[Stage("img2img", <<Size>>) EXCEPT !.params = Steps],
                [Stage("img2img", <<Color>>) EXCEPT
                   !.value_params = Big("guidance" :> 3) @@ Blue("steps" :> 40)],
                Stage("img2img", <<>>)>>) EXCEPT !.fixed = TRUE],
   Recipe(0, <<Stage("image_local", <<Color, Size>>)>>),
   Two(Big("steps" :> 40), <<>>, {"color", "size"}),
   Two(Big("steps" :> 40) @@ Blue("guidance" :> 3), <<>>, {}),
   Two(Big("steps" :> 40) @@ Blue("steps" :> 3), <<>>, {}),
   Two(<<>>, <<<<Name("size", FALSE)>>>>, {}),
   Two(<<>>, <<<<Name("_index", FALSE)>>>>, {}),
   Two(<<>>, <<<<Name("color", FALSE)>>, <<Name("size", TRUE)>>>>, {}),
   Two(<<>>, <<<<Lit(<<"stage-", "1">>)>>, <<Name("color", FALSE)>>>>, {}),
   Two(<<>>, <<<<Lit(<<"stage-", "1">>)>>, <<Name("color", FALSE), Lit(<<".png">>)>>,
               <<Name("size", FALSE)>>>>, {}),
   Together(<<Name("hue", TRUE), Lit(<<"_">>), Name("tone", TRUE)>>),
   Together(<<Name("hue", FALSE), Lit(<<"_">>), Name("tone", FALSE)>>),
   Together(<<Name("_stage", FALSE), Name("_key", FALSE)>>),
   Two(<<>>, <<>>, {"shape"}),
   [Two(<<>>, <<>>, {"size"}) EXCEPT
      !.fixed = TRUE, !.content = "size" :> ("big" :> "very large")],
   [Two(<<>>, <<>>, {}) EXCEPT !.content = "shape" :> <<>>],
   Recipe(0, <<Stage("image_local", <<Axis("color", <<"Red", "red">>)>>)>>),
   Recipe(0, <<Stage("image_local", <<Color, Axis("Color", <<"a">>)>>)>>),
   Recipe(0, <<Stage("image_local", <<Color>>), Stage("image_local", <<Size>>)>>),
   Recipe(1, <<Stage("inpaint", <<Color>>)>>),
   Recipe(1, <<[Stage("inpaint", <<Color>>) EXCEPT !.mask = "m"]>>),
   Recipe(0, <<Stage("outpaint", <<Color>>)>>),
   Recipe(1, <<Stage("outpaint", <<>>)>>),
   Recipe(1, <<[Stage("outpaint", <<Color>>) EXCEPT !.params = "tempo" :> 1]>>),
   Recipe(0, <<Stage("image_local", <<Color, Size, Round>>)>>)}
Letters == "Red" :> <<"r">> @@ "red" :> <<"r">> @@ "blue" :> <<"b">> @@ "color" :> <<"c">>
           @@ "Color" :> <<"c">> @@ "size" :> <<"s">> @@ "shape" :> <<"h">>
           @@ "big" :> <<"B">> @@ "small" :> <<"S">> @@ "round" :> <<"o">>
           @@ "flat" :> <<"f">> @@ "a" :> <<"a">> @@ "hue" :> <<"u">>
           @@ "tone" :> <<"t">> @@ "x" :> <<"x">> @@ "z" :> <<"z">>
Slug == "x_y" :> <<"x", "-", "y">> @@ "y_z" :> <<"y", "-", "z">> @@ Letters
Safe == "x_y" :> <<"x", "_", "y">> @@ "y_z" :> <<"y", "_", "z">> @@ Letters
Settings == [o \in {"img2img", "image_edit", "inpaint", "outpaint",
                    "image_local"} |-> {"steps", "guidance"}]

(* The card: two models, of which the one the warm-up and ControlNet load  *)
(* is planned for SVDQuant, as quant.py plans it; and two adapters of      *)
(* which one does not fit that model.                                      *)
MCFits == {"ink", "wash"} \X {"turbo", "quality"} \ {<<"wash", "turbo">>}

(* An adapter that is edited between two calls, or under one of them.      *)
Rewritten == INSTANCE GpuResidency WITH Loras <- {"ink"}, MaxEdits <- 1

(* Three calls, with the adapter that does not fit both models.            *)
More == INSTANCE GpuResidency
  WITH Loras <- {"wash"}, MaxCalls <- 3, MaxEdits <- 0

(* The order of one lane: two models, and a window of two jobs for 32.     *)
Order == INSTANCE LaneOrder
  WITH Models <- {t1, t2}, NoModel <- none, LastId <- 4,
       Window <- 2, TopPriority <- 3,
       queued <- x1, created <- x2, priority <- x3, model <- x4,
       resident <- x5, ran <- x6

(* One page and two jobs; the queue holds two events for 256.              *)
Hub == INSTANCE ProgressHub
  WITH Jobs <- {t1, t2}, NoJob <- none, Clients <- {"tab"}, QueueSize <- 2,
       MaxFrames <- 0, MaxConnects <- 1,
       db <- x1, frames <- x2, ready <- x3, log <- x4, phase <- x5,
       connects <- x6, queue <- x7, snapshot <- x8, view <- x9, base <- x10,
       received <- x11, overrun <- x12

(* A page that comes back twice, and the frames of one job.                *)
Back == INSTANCE ProgressHub
  WITH Jobs <- {t1}, NoJob <- none, Clients <- {"tab"}, QueueSize <- 2,
       MaxFrames <- 3, MaxConnects <- 3,
       db <- x1, frames <- x2, ready <- x3, log <- x4, phase <- x5,
       connects <- x6, queue <- x7, snapshot <- x8, view <- x9, base <- x10,
       received <- x11, overrun <- x12

(* A job of every kind, of up to three images.                             *)
Images == INSTANCE ImageJobs
  WITH Kinds <- {"local", "outpaint", "control", "remote", "edit", "inpaint",
                 "video", "long_video", "upscale", "face_restore", "detail",
                 "matte", "region_mask", "interpolate", "extend"},
       Plans <- {<<>>, <<"detail">>, <<"face_restore", "upscale">>,
                 <<"upscale", "resize">>},
       MaxBatch <- 3, MaxSkips <- 2,
       job <- x1, at <- x2, item <- x3, image <- x4, applied <- x5,
       todo <- x6, got <- x7, shelf <- x8, flags <- x9, skips <- x10,
       canceled <- x11, ended <- x12

(* Two requests by any of the ways in, perhaps under one key.              *)
Keyed == INSTANCE Submission
  WITH Calls <- {t1, t2}, Keys <- {k1}, NoKey <- none, MaxJobs <- 2,
       Forms <- {"route", "api", "refine", "plan", "dry_plan", "replay",
                 "openai", "mcp_edit"}, MaxChanges <- 0,
       jobs <- x1, call <- x2, previewed <- x3, library <- x4, slot <- x5,
       file <- x6, install <- x7, scan <- x8, worker <- x9, health <- x10,
       changes <- x11

(* Two preset requests, and a change of a model, a file or the worker.     *)
Planned == INSTANCE Submission
  WITH Calls <- {t1, t2}, Keys <- {k1}, NoKey <- none, MaxJobs <- 2,
       Forms <- {"plan", "dry_plan"}, MaxChanges <- 1,
       jobs <- x1, call <- x2, previewed <- x3, library <- x4, slot <- x5,
       file <- x6, install <- x7, scan <- x8, worker <- x9, health <- x10,
       changes <- x11

(* One preset request, and three changes.                                  *)
Drift == INSTANCE Submission
  WITH Calls <- {t1}, Keys <- {k1}, NoKey <- none, MaxJobs <- 2,
       Forms <- {"plan", "dry_plan"}, MaxChanges <- 3,
       jobs <- x1, call <- x2, previewed <- x3, library <- x4, slot <- x5,
       file <- x6, install <- x7, scan <- x8, worker <- x9, health <- x10,
       changes <- x11

(* A preset of one model whose adapter does not fit the other one.         *)
Plans == INSTANCE Planning
  WITH Operations <- {"text_to_image", "inpaint", "edit"}, Models <- {m1, m2},
       NoModel <- none, PresetModel <- m1, Foreign <- {m2},
       Overrides <- Choices,
       Shapes <- {Shape(0, 0, 0, FALSE), Shape(1, 0, 0, FALSE),
                  Shape(0, 0, 0, TRUE), Shape(0, 2, 0, FALSE),
                  Shape(0, 0, 3, FALSE), Shape(0, 2, 3, FALSE)},
       MaxJobs <- 1, MaxChanges <- 1,
       rules <- x1, slots <- x2, machine <- x3, remote <- x4, adapter <- x5,
       plan <- x6, stage <- x7, jobs <- x8, changes <- x9

(* Two calls of the endpoint, with a worker of one image model.            *)
OpenAI == INSTANCE OpenAIImages
  WITH Calls <- {t1, t2}, Bodies <- Bodies, Keys <- {k1}, NoKey <- none,
       Configured <- {Variant("local", TRUE, "brush-fast", "local/turbo"),
                      Variant("local", FALSE, "brush-quality", "local/quality"),
                      Variant("colab", TRUE, "brush-remote", "remote/quality"),
                      Variant("colab", FALSE, "brush-hidream", "remote/hidream")},
       PickerLive <- FALSE, InpaintLive <- TRUE, MaxJobs <- 2, MaxOutages <- 1,
       calls <- x1, jobs <- x2, worker <- x3, outages <- x4

(* Two calls of the tools.                                                 *)
Agent == INSTANCE AgentTools
  WITH Calls <- {t1, t2}, Keys <- {k1}, NoKey <- none,
       ImageLists <- {<<"id">>, <<"data">>, <<"data", "http">>, <<"gone">>,
                      <<"data", "odd">>},
       Masks <- {"none", "data"}, Slices <- 1, MaxJobs <- 2,
       calls <- x1, jobs <- x2, lane <- x3

(* The recipes above, with a cap of six variants.                          *)
Set == INSTANCE SetRecipe
  WITH Recipes <- Recipes, Ident <- Slug, Plain <- Safe, Controls <- Settings, Cap <- 6,
       MaxReruns <- Reruns,
       recipe <- x1, phase <- x2, item <- x3, reruns <- x4

(* A preset of each kind, with two editors.                                *)
Edited == INSTANCE Presets
  WITH Curated <- {k1}, Custom <- {u1}, Editors <- {t1, t2},
       Words <- {w1, w2}, MaxRev <- 3, MaxStarts <- 2, MaxPins <- 1,
       heads <- x1, rows <- x2, pins <- x3, open <- x4, server <- x5,
       starts <- x6

(* Two custom presets, one perhaps imported from the other.                *)
Copied == INSTANCE Presets
  WITH Curated <- {k1}, Custom <- {u1, u2}, Editors <- {t1},
       Words <- {w1, w2}, MaxRev <- 2, MaxStarts <- 1, MaxPins <- 1,
       heads <- x1, rows <- x2, pins <- x3, open <- x4, server <- x5,
       starts <- x6

(* Generators whose names are slugs or ids of each other.                  *)
Named == INSTANCE Generators
  WITH Names <- {"cup", "cup-2", "1"}, Accented <- {},
       Drafts <- {[model |-> "m1", guidance |-> "g1", expose |-> {},
                   images |-> 1, mask |-> 2]},
       Asks <- {[brings |-> {}, model |-> "m1", guidance |-> "g1",
                 images |-> 1, mask |-> 2]},
       Models <- {"m1", "m2"}, Guidances <- {"g1", "g2", "g9"},
       Follows <- "m1" :> "g1" @@ "m2" :> "g2", Unset <- "unset",
       Sizes <- <<1, 1, 2>>, MaxIds <- 3, MaxChanges <- 1,
       saved <- x1, made <- x2, taken <- x3, offered <- x4, gone <- x5,
       ran <- x6, changes <- x7

(* One generator, with every setup and every override of it.               *)
Tuned == INSTANCE Generators
  WITH Names <- {"cup"}, Accented <- {},
       Drafts <- [model : {"m1", "m2", "unset"},
                  guidance : {"unset", "g1", "g9"},
                  expose : {{}, {"model"}, {"model", "guidance", "images"}},
                  images : 0 .. 1, mask : {2}],
       Asks <- [brings : {{}, {"model"}, {"model", "guidance"},
                          {"model", "images"}},
                model : {"m1", "m2"}, guidance : {"g2"},
                images : {1, 3}, mask : {2}],
       Models <- {"m1", "m2"}, Guidances <- {"g1", "g2", "g9"},
       Follows <- "m1" :> "g1" @@ "m2" :> "g2", Unset <- "unset",
       Sizes <- <<1, 1, 2>>, MaxIds <- 1, MaxChanges <- 1,
       saved <- x1, made <- x2, taken <- x3, offered <- x4, gone <- x5,
       ran <- x6, changes <- x7

(* One maker of images, and two threads that enrich them.                  *)
Shelf == INSTANCE Library
  WITH Makers <- {"m"}, Workers <- {t1, t2}, MaxImages <- 2, MaxQueue <- 1,
       MaxEdits <- 2, MaxRestarts <- 1,
       rows <- x1, files <- x2, made <- x3, named <- x4, maker <- x5,
       queue <- x6, started <- x7, worker <- x8, edits <- x9,
       backfilled <- x10, restarts <- x11

ASSUME ResidencyAssumption /\ Rewritten!ResidencyAssumption
         /\ More!ResidencyAssumption
ASSUME Order!OrderAssumption
ASSUME Hub!HubAssumption
ASSUME Back!HubAssumption
ASSUME Images!ImageAssumption

-----------------------------------------------------------------------------
(* A component that has fewer variables leaves the others alone.           *)
Beyond11 == <<x12>>
Beyond9 == <<x10, x11, Beyond11>>
Beyond7 == <<x8, x9, Beyond9>>
Beyond6 == <<x7, Beyond7>>
Beyond4 == <<x5, x6, Beyond6>>
Beyond3 == <<x4, Beyond4>>

Blank11 == x12 = 0
Blank9 == x10 = 0 /\ x11 = 0 /\ Blank11
Blank7 == x8 = 0 /\ x9 = 0 /\ Blank9
Blank6 == x7 = 0 /\ Blank7
Blank4 == x5 = 0 /\ x6 = 0 /\ Blank6
Blank3 == x4 = 0 /\ Blank4
Blank0 == x1 = 0 /\ x2 = 0 /\ x3 = 0 /\ Blank3

Card == {"calls", "rewritten", "more"}

MCInit ==
  /\ scene \in Scenes
  /\ CASE scene = "rewritten" -> Rewritten!Init
       [] scene = "more"      -> More!Init
       [] OTHER               -> Init
  /\ pc[WarmUp] = "idle" \/ scene \in Card
  /\ \/ scene \in Card     /\ Blank0
     \/ scene = "order"    /\ Order!Init   /\ Blank6
     \/ scene = "page"     /\ Hub!Init
     \/ scene = "return"   /\ Back!Init
     \/ scene = "images"   /\ Images!Init
     \/ scene = "keys"     /\ Keyed!Init   /\ Blank11
     \/ scene = "plans"    /\ Planned!Init /\ Blank11
     \/ scene = "drift"    /\ Drift!Init   /\ Blank11
     \/ scene = "planning" /\ Plans!Init   /\ Blank9
     \/ scene = "openai"   /\ OpenAI!Init  /\ Blank4
     \/ scene = "agent"    /\ Agent!Init   /\ Blank3
     \/ scene = "recipe"   /\ Set!Init     /\ Blank4
     \/ scene = "library"  /\ Shelf!Init   /\ Blank11
     \/ scene = "edited"   /\ Edited!Init  /\ Blank6
     \/ scene = "copied"   /\ Copied!Init  /\ Blank6
     \/ scene = "named"    /\ Named!Init   /\ Blank7
     \/ scene = "tuned"    /\ Tuned!Init   /\ Blank7

MCNext ==
  /\ UNCHANGED scene
  /\ \/ scene = "calls"    /\ Next         /\ UNCHANGED stage
     \/ scene = "rewritten" /\ Rewritten!Next /\ UNCHANGED stage
     \/ scene = "more"     /\ More!Next    /\ UNCHANGED stage
     \/ scene = "order"    /\ Order!Next   /\ UNCHANGED <<vars, Beyond6>>
     \/ scene = "page"     /\ Hub!Next     /\ UNCHANGED vars
     \/ scene = "return"   /\ Back!Next    /\ UNCHANGED vars
     \/ scene = "images"   /\ Images!Next  /\ UNCHANGED vars
     \/ scene = "keys"     /\ Keyed!Next   /\ UNCHANGED <<vars, Beyond11>>
     \/ scene = "plans"    /\ Planned!Next /\ UNCHANGED <<vars, Beyond11>>
     \/ scene = "drift"    /\ Drift!Next   /\ UNCHANGED <<vars, Beyond11>>
     \/ scene = "planning" /\ Plans!Next   /\ UNCHANGED <<vars, Beyond9>>
     \/ scene = "openai"   /\ OpenAI!Next  /\ UNCHANGED <<vars, Beyond4>>
     \/ scene = "agent"    /\ Agent!Next   /\ UNCHANGED <<vars, Beyond3>>
     \/ scene = "recipe"   /\ Set!Next     /\ UNCHANGED <<vars, Beyond4>>
     \/ scene = "library"  /\ Shelf!Next   /\ UNCHANGED <<vars, Beyond11>>
     \/ scene = "edited"   /\ Edited!Next  /\ UNCHANGED <<vars, Beyond6>>
     \/ scene = "copied"   /\ Copied!Next  /\ UNCHANGED <<vars, Beyond6>>
     \/ scene = "named"    /\ Named!Next   /\ UNCHANGED <<vars, Beyond7>>
     \/ scene = "tuned"    /\ Tuned!Next   /\ UNCHANGED <<vars, Beyond7>>

MCSpec == MCInit /\ [][MCNext]_<<scene, vars, stage>>

(* Two calls, models, threads, editors or jobs of a page are               *)
(* interchangeable, as are two words of a preset.                          *)
MCSymmetry == Permutations({t1, t2}) \cup Permutations({w1, w2})

-----------------------------------------------------------------------------
(* A job runs by its users' order before the affinity's.                   *)
OrderKept ==
  [][scene = "order" => Order!PriorityAbsolute /\ Order!ReorderingOverrides]_stage

(* A page that keeps up misses no transition and shows every outcome.      *)
ShownAsItIs ==
  /\ scene = "page"   => Hub!ShownAsItIs
  /\ scene = "return" => Back!ShownAsItIs

(* What the library is told of an image is true of its pixels.             *)
AssetsTellTheTruth == scene = "images" => Images!AssetsTellTheTruth

(* A request, repeated or not, is one submission, its own, and what was    *)
(* planned for this machine is what runs on it.                            *)
DoneAsAsked ==
  /\ scene = "keys"  => Keyed!DoneAsAsked
  /\ scene = "plans" => Planned!DoneAsAsked
  /\ scene = "drift" => Drift!DoneAsAsked

(* No write of an enrichment takes an asset down its ladder.               *)
LadderOnlyRises == [][scene = "library" => Shelf!Rises]_stage

(* A revision of a preset that a job was resolved from reads as it did.    *)
RevisionsStand ==
  /\ scene = "edited" => Edited!RevisionsStand
  /\ scene = "copied" => Copied!RevisionsStand

(* A run is of the generator that was asked for, as saved or overridden.   *)
RunsAsSaved ==
  /\ scene = "named" => Named!RunsAsSaved
  /\ scene = "tuned" => Tuned!RunsAsSaved

(* What was decided for a request holds when its job runs.                 *)
PlansStand == scene = "planning" => Plans!PlansStand

(* The endpoint does what a body asked for, or says what it did not.       *)
AsAskedOrTold == scene = "openai" => OpenAI!AsAskedOrTold

(* What a tool answers is true, and it stores only what it was asked to.   *)
ToolsTellTheTruth == scene = "agent" => Agent!ToolsTellTheTruth

(* Whatever has run when a set is exported, each file of the archive has   *)
(* its own path and its own variant's settings.                            *)
FiledAsItself == scene = "recipe" => Set!FiledAsItself

(* A derived image is recorded as made from the image it was made from.    *)
ConsumedIsRecorded == scene = "recipe" => Set!ConsumedIsRecorded
=============================================================================
