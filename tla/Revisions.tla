------------------------------ MODULE Revisions ------------------------------
(***************************************************************************)
(* Canvas projects and reference sets: documents over gallery assets, of   *)
(* which every save is a new immutable revision behind a compare-and-set.  *)
(*                                                                         *)
(* Every handler runs in a thread of its own.  A SELECT takes no lock and  *)
(* opens no transaction, so what a handler has read may be old when its    *)
(* UPDATE and INSERT are committed together; the unique index over         *)
(* (document, revision) is what two saves from one base run into.          *)
(*                                                                         *)
(* A document is the set of assets its layers or entries name, and its     *)
(* digest is itself.  Ids are AUTOINCREMENT: no document gets an old one.  *)
(***************************************************************************)
EXTENDS Naturals, FiniteSets

CONSTANTS
  Kinds,        \* "canvas", "set"
  Calls,        \* editors: a tab, an agent, each with the revision it has open
  Names,        \* names of documents
  NoName,       \* a save that gives none
  MaxDocs,      \* bound on documents of each kind ever made
  MaxRevs,      \* bound on the revisions of a document
  MaxAssets,    \* bound on gallery images
  MaxChanges    \* bound on what happens to the gallery by itself

VARIABLES
  heads,        \* canvasproject and referenceset
  rows,         \* canvasrevision and referencesetrevision
  made,         \* documents made so far, of each kind
  asset,        \* what is left of each gallery image
  flat,         \* the flattened images, as their metadata describes them
  call,         \* the editors
  changes       \* changes of the gallery so far

vars == <<heads, rows, made, asset, flat, call, changes>>

Docs   == Kinds \X (1 .. MaxDocs)
Assets == 1 .. MaxAssets
Bodies == SUBSET Assets
NoDoc  == <<"none", 0>>
NoHead == [rev |-> 0, body |-> {}, name |-> NoName, archived |-> FALSE]
NoFlat == [doc |-> NoDoc, rev |-> 0, shown |-> {}, lacks |-> {}]
NoCall == [at |-> "idle", doc |-> NoDoc, base |-> 0, seen |-> {}, body |-> {}, from |-> {},
           name |-> NoName, known |-> {}, held |-> {}]

(* An image is "live" with its file, "lost" when the row is live and the   *)
(* file is gone, "trashed", "purged", or was not made yet ("none").        *)
TypeOK ==
  /\ heads \in [Docs -> [rev : 0 .. MaxRevs, body : Bodies, name : Names \cup {NoName},
                         archived : BOOLEAN]]
  /\ rows \subseteq [doc : Docs, rev : 1 .. MaxRevs, body : Bodies, from : Bodies]
  /\ made \in [Kinds -> 0 .. MaxDocs]
  /\ asset \in [Assets -> {"none", "live", "lost", "trashed", "purged"}]
  /\ flat \in [Assets -> [doc : Docs \cup {NoDoc}, rev : 0 .. MaxRevs, shown : Bodies,
                          lacks : Bodies]]
  /\ call \in [Calls -> [at : {"idle", "create", "open", "read", "check", "write", "delete",
                               "render", "file"},
                         doc : Docs \cup {NoDoc} \cup (Kinds \X {0}), base : 0 .. MaxRevs,
                         seen : Bodies, body : Bodies, from : Bodies,
                         name : Names \cup {NoName}, known : Bodies,
                         held : SUBSET (1 .. MaxRevs)]]
  /\ changes \in 0 .. MaxChanges

Init ==
  /\ heads = [d \in Docs |-> NoHead] /\ rows = {} /\ made = [k \in Kinds |-> 0]
  /\ asset = [a \in Assets |-> IF a = 1 THEN "live" ELSE "none"]
  /\ flat = [a \in Assets |-> NoFlat]
  /\ call = [c \in Calls |-> NoCall] /\ changes = 0

-----------------------------------------------------------------------------
(* What the handlers share.                                                *)

Exists(d)  == heads[d].rev > 0
Live(a)    == asset[a] \in {"live", "lost"}                     \* db.get_asset
Missing(S) == {a \in S : ~Live(a)}                              \* missing_assets
IsSet(d)   == d[1] = "set"

(* _revision: the row a SELECT finds.                                      *)
RowOf(d, r) == CHOOSE w \in rows : w.doc = d /\ w.rev = r

(* _check_assets of a canvas: what a layer names must be live, or be named *)
(* by the last revision already; of a set: every entry must be live.       *)
LayersFit(body, known) == Missing(body) \subseteq known
EntriesFit(body)       == Missing(body) = {}
AssetsFit(d, body, known) == IF IsSet(d) THEN EntriesFit(body) ELSE LayersFit(body, known)

(* The index over the names of reference sets that are not archived.       *)
NameFree(d, name) ==
  IsSet(d) => \A e \in Docs : IsSet(e) /\ e # d /\ Exists(e) /\ ~heads[e].archived
                                => heads[e].name # name

(* Mutant: the index over (document, revision) is left out.                *)
Mutant_RevisionFree(d, r) == TRUE
RevisionFree(d, r) == ~\E w \in rows : w.doc = d /\ w.rev = r

Goes(c, at)  == call' = [call EXCEPT ![c].at = at]
Closes(c)    == call' = [call EXCEPT ![c] = NoCall]
Returns(c)   == call' = [call EXCEPT ![c] = [NoCall EXCEPT !.at = "open", !.doc = call[c].doc,
                                               !.base = call[c].base, !.seen = call[c].seen]]
(* The answer of a save: the head as it is now, which the editor shows.    *)
Shows(c, rev, body) ==
  call' = [call EXCEPT ![c] = [NoCall EXCEPT !.at = "open", !.doc = call[c].doc,
                                 !.base = rev, !.seen = body]]

-----------------------------------------------------------------------------
(* Creating.                                                               *)

(* create: the assets are looked up ...                                    *)
Create(c) ==
  /\ call[c].at = "idle"
  /\ \E k \in Kinds, body \in {{a} : a \in Assets}, name \in Names :
       /\ AssetsFit(<<k, 0>>, body, {})
       /\ call' = [call EXCEPT ![c] = [NoCall EXCEPT !.at = "create", !.doc = <<k, 0>>,
                                         !.body = body, !.name = name]]
  /\ UNCHANGED <<heads, rows, made, asset, flat, changes>>

(* ... and head and first revision are committed together.                 *)
Written(d, body, name) ==
  /\ heads' = [heads EXCEPT ![d] = [rev |-> 1, body |-> body, name |-> name, archived |-> FALSE]]
  /\ rows' = rows \cup {[doc |-> d, rev |-> 1, body |-> body, from |-> {}]}
  /\ made' = [made EXCEPT ![d[1]] = @ + 1]

CreateCanvas(c) ==
  LET d == <<"canvas", made["canvas"] + 1>> IN
  /\ call[c].at = "create" /\ call[c].doc[1] = "canvas" /\ d \in Docs
  /\ Written(d, call[c].body, call[c].name)
  /\ call' = [call EXCEPT ![c] = [NoCall EXCEPT !.at = "open", !.doc = d, !.base = 1,
                                    !.seen = call[c].body]]
  /\ UNCHANGED <<asset, flat, changes>>

CreateSet(c) ==
  LET d == <<"set", made["set"] + 1>> IN
  /\ call[c].at = "create" /\ IsSet(call[c].doc)
  /\ IF NameFree(d, call[c].name)
       THEN /\ d \in Docs
            /\ Written(d, call[c].body, call[c].name)
            /\ call' = [call EXCEPT ![c] = [NoCall EXCEPT !.at = "open", !.doc = d, !.base = 1,
                                              !.seen = call[c].body]]
       ELSE Closes(c) /\ UNCHANGED <<heads, rows, made>>
  /\ UNCHANGED <<asset, flat, changes>>

-----------------------------------------------------------------------------
(* Editing.                                                                *)

(* get: the editor opens the head.                                         *)
Open(c) ==
  /\ call[c].at \in {"idle", "open"}
  /\ \E d \in Docs :
       /\ Exists(d)
       /\ call' = [call EXCEPT ![c] = [NoCall EXCEPT !.at = "open", !.doc = d,
                                         !.base = heads[d].rev, !.seen = heads[d].body]]
  /\ UNCHANGED <<heads, rows, made, asset, flat, changes>>

(* PUT: the document on the screen with one asset put in or taken out, or  *)
(* a new name for it.                                                      *)
Send(c) ==
  LET d == call[c].doc IN
  /\ call[c].at = "open"
  /\ \E a \in Assets, name \in {NoName} \cup Names :
       LET body == IF name # NoName THEN call[c].seen
                     ELSE IF a \in call[c].seen THEN call[c].seen \ {a} ELSE call[c].seen \cup {a}
       IN /\ name # NoName => a = 1
          /\ body # {} \/ ~IsSet(d)
          /\ call' = [call EXCEPT ![c].at = IF IsSet(d) THEN "check" ELSE "read",
                                  ![c].body = body, ![c].from = call[c].seen, ![c].name = name]
  /\ UNCHANGED <<heads, rows, made, asset, flat, changes>>

(* add_layer: the asset goes on top of the head as it is now, whichever    *)
(* revision the caller named as its base.                                  *)
AddLayer(c) ==
  LET d == call[c].doc IN
  /\ call[c].at = "open" /\ ~IsSet(d) /\ Exists(d)
  /\ \E a \in Assets \ heads[d].body :
       /\ asset[a] # "none"
       /\ call' = [call EXCEPT ![c].at = "read", ![c].body = heads[d].body \cup {a},
                               ![c].from = heads[d].body]
  /\ UNCHANGED <<heads, rows, made, asset, flat, changes>>

(* save, the SELECT: a head that moved is a conflict, and a canvas saved   *)
(* as it already is writes nothing.                                        *)
SaveRead(c) ==
  LET d == call[c].doc  head == heads[d] IN
  /\ call[c].at = "read" /\ ~IsSet(d)
  /\ CASE ~Exists(d) -> Closes(c)
       [] Exists(d) /\ head.rev # call[c].base -> Returns(c)
       [] Exists(d) /\ head.rev = call[c].base ->
            IF call[c].body = head.body /\ call[c].name \in {NoName, head.name}
              THEN Shows(c, head.rev, head.body)
              ELSE call' = [call EXCEPT ![c].at = "check", ![c].known = RowOf(d, head.rev).body]
  /\ UNCHANGED <<heads, rows, made, asset, flat, changes>>

(* update, the SELECT: it comes after the check of the entries.            *)
UpdateRead(c) ==
  LET d == call[c].doc IN
  /\ call[c].at = "read" /\ IsSet(d)
  /\ IF heads[d].rev = call[c].base THEN Goes(c, "write") ELSE Returns(c)
  /\ UNCHANGED <<heads, rows, made, asset, flat, changes>>

SaveCheck(c) ==
  LET d == call[c].doc IN
  /\ call[c].at = "check"
  /\ IF AssetsFit(d, call[c].body, call[c].known)
       THEN Goes(c, IF IsSet(d) THEN "read" ELSE "write")
       ELSE Returns(c)
  /\ UNCHANGED <<heads, rows, made, asset, flat, changes>>

(* The UPDATE of the head and the INSERT of the revision, in one           *)
(* transaction.                                                            *)
Commit(c, name) ==
  LET d == call[c].doc  rev == call[c].base + 1 IN
  /\ heads' = [heads EXCEPT ![d].rev = rev, ![d].body = call[c].body, ![d].name = name]
  /\ rows' = rows \cup {[doc |-> d, rev |-> rev, body |-> call[c].body, from |-> call[c].from]}
  /\ Shows(c, rev, call[c].body)

NewName(c) == IF call[c].name = NoName THEN heads[call[c].doc].name ELSE call[c].name

(* save, the write: refused by the index, void when the head is gone.      *)
SaveWrite(c) ==
  LET d == call[c].doc IN
  /\ call[c].at = "write" /\ ~IsSet(d) /\ call[c].base < MaxRevs
  /\ IF Exists(d) /\ RevisionFree(d, call[c].base + 1)
       THEN Commit(c, NewName(c))
       ELSE (IF Exists(d) THEN Returns(c) ELSE Closes(c)) /\ UNCHANGED <<heads, rows>>
  /\ UNCHANGED <<made, asset, flat, changes>>

(* update, the write: refused by either index.                             *)
UpdateWrite(c) ==
  LET d == call[c].doc IN
  /\ call[c].at = "write" /\ IsSet(d) /\ call[c].base < MaxRevs
  /\ IF RevisionFree(d, call[c].base + 1) /\ (heads[d].archived \/ NameFree(d, NewName(c)))
       THEN Commit(c, NewName(c))
       ELSE Returns(c) /\ UNCHANGED <<heads, rows>>
  /\ UNCHANGED <<made, asset, flat, changes>>

(* archive and unarchive; a set whose name was taken stays archived.       *)
Archive(c) ==
  LET d == call[c].doc IN
  /\ call[c].at = "open" /\ Exists(d)
  /\ heads[d].archived => NameFree(d, heads[d].name)
  /\ heads' = [heads EXCEPT ![d].archived = ~@]
  /\ UNCHANGED <<rows, made, asset, flat, call, changes>>

(* delete, of a canvas: the revisions there are, read ...                  *)
Delete(c) ==
  LET d == call[c].doc IN
  /\ call[c].at = "open" /\ ~IsSet(d) /\ Exists(d)
  /\ call' = [call EXCEPT ![c].at = "delete",
                          ![c].held = {r \in 1 .. MaxRevs : \E w \in rows : w.doc = d /\ w.rev = r}]
  /\ UNCHANGED <<heads, rows, made, asset, flat, changes>>

(* ... and removed with their head; one saved in between keeps its row.    *)
DeleteWrite(c) ==
  LET d == call[c].doc IN
  /\ call[c].at = "delete"
  /\ rows' = {w \in rows : ~(w.doc = d /\ w.rev \in call[c].held)}
  /\ heads' = [heads EXCEPT ![d] = NoHead]
  /\ Closes(c)
  /\ UNCHANGED <<made, asset, flat, changes>>

-----------------------------------------------------------------------------
(* Flattening.                                                             *)

(* flatten: a revision is read and the assets it names are looked up; one  *)
(* whose row is missing is refused unless the caller allows it.            *)
Flatten(c) ==
  LET d == call[c].doc IN
  /\ call[c].at = "open" /\ ~IsSet(d) /\ Exists(d)
  /\ \E w \in rows, allow \in BOOLEAN :
       /\ w.doc = d
       /\ Missing(w.body) = {} \/ allow
       /\ call' = [call EXCEPT ![c].at = "render", ![c].held = {w.rev}, ![c].body = w.body]
  /\ UNCHANGED <<heads, rows, made, asset, flat, changes>>

(* edit_inputs without a layer: the head is flattened, nothing left out.   *)
EditInputs(c) ==
  LET d == call[c].doc IN
  /\ call[c].at = "open" /\ ~IsSet(d) /\ Exists(d)
  /\ Missing(heads[d].body) = {}
  /\ call' = [call EXCEPT ![c].at = "render", ![c].held = {heads[d].rev},
                          ![c].body = heads[d].body]
  /\ UNCHANGED <<heads, rows, made, asset, flat, changes>>

(* render: a layer whose image is not live or cannot be opened is left out.*)
Render(c) ==
  /\ call[c].at = "render"
  /\ call' = [call EXCEPT ![c].at = "file",
                          ![c].known = {a \in call[c].body : asset[a] = "live"}]
  /\ UNCHANGED <<heads, rows, made, asset, flat, changes>>

(* save_image and add_asset, with the revision it is of and what it lacks. *)
Filed(c) ==
  LET new == {a \in Assets : asset[a] = "none"} IN
  /\ call[c].at = "file" /\ new # {}
  /\ LET a == CHOOSE x \in new : \A y \in new : x <= y IN
       /\ asset' = [asset EXCEPT ![a] = "live"]
       /\ flat' = [flat EXCEPT ![a] = [doc |-> call[c].doc, rev |-> CHOOSE r \in call[c].held : TRUE,
                                       shown |-> call[c].known,
                                       lacks |-> call[c].body \ call[c].known]]
  /\ Returns(c)
  /\ UNCHANGED <<heads, rows, made, changes>>

(* The gallery: an image is made, trashed, restored, purged, or its file   *)
(* goes.                                                                   *)
GalleryChanges ==
  /\ changes < MaxChanges /\ changes' = changes + 1
  /\ \E a \in Assets : asset' \in
       { [asset EXCEPT ![a] = to] : to \in
           CASE asset[a] = "none"    -> IF \E b \in Assets : b < a /\ asset[b] = "none"
                                          THEN {} ELSE {"live"}
             [] asset[a] = "live"    -> {"trashed", "lost"}
             [] asset[a] = "trashed" -> {"live", "purged"}
             [] OTHER                -> {} }
  /\ UNCHANGED <<heads, rows, made, flat, call>>

-----------------------------------------------------------------------------
Step(c) ==
  \/ Create(c) \/ CreateCanvas(c) \/ CreateSet(c) \/ Open(c) \/ Send(c) \/ AddLayer(c)
  \/ SaveRead(c) \/ UpdateRead(c) \/ SaveCheck(c) \/ SaveWrite(c) \/ UpdateWrite(c)
  \/ Archive(c) \/ Delete(c) \/ DeleteWrite(c)
  \/ Flatten(c) \/ EditInputs(c) \/ Render(c) \/ Filed(c)

Next == GalleryChanges \/ \E c \in Calls : Step(c)

Spec == Init /\ [][Next]_vars

-----------------------------------------------------------------------------
(* Every revision of a document was made from the one before it: whoever   *)
(* wrote it had that one before their eyes, so no acknowledged edit was    *)
(* written over unseen; and the head is the last of them.                  *)
Chained ==
  \A d \in Docs : Exists(d) =>
    /\ \A r \in 1 .. heads[d].rev : Cardinality({w \in rows : w.doc = d /\ w.rev = r}) = 1
    /\ \A r \in 2 .. heads[d].rev : RowOf(d, r).from = RowOf(d, r - 1).body
    /\ RowOf(d, heads[d].rev).body = heads[d].body

(* A flattened image names a revision of its document, and says of each    *)
(* layer of that revision whether it shows it or lacks it, though images   *)
(* come and go between the check and the rendering (canvas.py, flatten).   *)
FlatTells ==
  \A a \in Assets : LET f == flat[a] IN
    f.doc # NoDoc /\ Exists(f.doc) =>
      \E w \in rows : w.doc = f.doc /\ w.rev = f.rev /\ w.body = f.shown \cup f.lacks

(* Nothing a page wrote is lost, nor what was made of it misnamed.         *)
NoEditLost == Chained /\ FlatTells
=============================================================================
