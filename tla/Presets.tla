------------------------------- MODULE Presets -------------------------------
(***************************************************************************)
(* The preset catalogue: curated presets shipped as one manifest a         *)
(* revision, and custom presets, each a head row and append-only revision  *)
(* rows.  Curated revisions are installed when the server starts, one      *)
(* transaction each, so a process that dies leaves some of them out.       *)
(*                                                                         *)
(* The routes are coroutines that never await, so a request is one step;   *)
(* what may be old is the revision an editor has open.                     *)
(***************************************************************************)
EXTENDS Naturals, FiniteSets

CONSTANTS
  Curated,      \* ids of the namespace that is reserved for shipped presets
  Custom,       \* ids people's presets may get
  Editors,      \* tabs and agents, each with the revision it has open
  Words,        \* what people write into a definition
  MaxRev,       \* bound on the revisions of a preset
  MaxStarts,    \* bound on starts of the server
  MaxPins       \* bound on the revisions jobs were resolved from

VARIABLES
  heads,        \* recipe rows of schema 2
  rows,         \* reciperevision
  pins,         \* what jobs and set snapshots name, with what they ran
  open,         \* the editors
  server,       \* where the server is, and what its start has left to do
  starts        \* starts of the server so far

vars == <<heads, rows, pins, open, server, starts>>

Ids        == Curated \cup Custom
Revs       == 1 .. MaxRev
Shipped(r) == <<"shipped", r>>
Tuned(r)   == <<"tuned", r>>
Contents   == {Shipped(r) : r \in Revs} \cup {Tuned(r) : r \in Revs}
                \cup {<<w, 0>> : w \in Words}
NoContent  == <<"none", 0>>
NoHead     == [rev |-> 0, content |-> NoContent, archived |-> FALSE]
NoId       == "none"
NotOpen    == [id |-> NoId, base |-> 0, content |-> NoContent]

(* A row remembers the revision its author had open ("seen").              *)
Rows  == [id : Ids, rev : Revs, content : Contents, based : 0 .. MaxRev, seen : 0 .. MaxRev]
Files == [id : Curated, rev : Revs, content : Contents]

TypeOK ==
  /\ heads \in [Ids -> [rev : 0 .. MaxRev, content : Contents \cup {NoContent},
                        archived : BOOLEAN]]
  /\ rows \subseteq Rows
  /\ pins \subseteq [id : Ids, rev : Revs, content : Contents]
  /\ open \in [Editors -> [id : Ids \cup {NoId}, base : 0 .. MaxRev,
                           content : Contents \cup {NoContent}]]
  /\ server.at \in {"down", "installing", "retiring", "serving"}
  /\ server.files \subseteq Files
  /\ starts \in 0 .. MaxStarts

Down == [at |-> "down", files |-> {}]

Init ==
  /\ heads = [i \in Ids |-> NoHead] /\ rows = {} /\ pins = {}
  /\ open = [e \in Editors |-> NotOpen] /\ server = Down /\ starts = 0

-----------------------------------------------------------------------------
(* The rows.                                                               *)

Exists(i) == heads[i].rev > 0
Serving   == server.at = "serving"

(* get: the head, or the row of an older revision.                         *)
Readable(i, r) == r = heads[i].rev \/ \E w \in rows : w.id = i /\ w.rev = r
Content(i, r) ==
  IF r = heads[i].rev THEN heads[i].content
  ELSE (CHOOSE w \in rows : w.id = i /\ w.rev = r).content

(* save_preset_revision: the check of the base, the head and the new row   *)
(* are one transaction; the caller sees a conflict and nothing is written. *)
BaseHolds(i, base) == heads[i].rev = base
Save(i, rev, content, base, seen) ==
  /\ heads' = [heads EXCEPT ![i] = [@ EXCEPT !.rev = rev, !.content = content]]
  /\ rows' = rows \cup {[id |-> i, rev |-> rev, content |-> content, based |-> base,
                         seen |-> seen]}

(* _new_custom_id: an id nobody has.                                       *)
FreeIds == {i \in Custom : ~Exists(i)}

Shows(e, i, rev, content) ==
  open' = [open EXCEPT ![e] = [id |-> i, base |-> rev, content |-> content]]

(* The editor shows the answer, or never gets it and still has what it had.*)
Answered(e, i, rev, content) == Shows(e, i, rev, content) \/ UNCHANGED open
Refused == UNCHANGED <<heads, rows, open>>

-----------------------------------------------------------------------------
(* Starting.                                                               *)

(* load_manifests: a file whose content is not the one LOCK.json has for   *)
(* that revision is refused.                                               *)
(* Mutant: every file that parses is taken.                                *)
Mutant_Accepted(f) == TRUE
Accepted(f) == f.content = Shipped(f.rev)

(* A build ships some revisions of each preset; one of them may have been  *)
(* edited where it was.                                                    *)
Manifests ==
  {{[id |-> s[1], rev |-> s[2], content |-> IF s \in edited THEN Tuned(s[2]) ELSE Shipped(s[2])]
      : s \in shipped} : shipped \in SUBSET (Curated \X Revs),
                         edited \in {{}} \cup {{s} : s \in Curated \X Revs}}

Start ==
  /\ server.at = "down" /\ starts < MaxStarts
  /\ \E files \in Manifests :
       server' = [at |-> "installing", files |-> {f \in files : Accepted(f)}]
  /\ starts' = starts + 1
  /\ UNCHANGED <<heads, rows, pins, open>>

(* ensure_curated: revisions above the head, oldest first, and a preset    *)
(* whose first revision was refused starts at the next one.                *)
Missing == {f \in server.files : f.rev > heads[f.id].rev}

InstallRevision ==
  /\ server.at = "installing"
  /\ \E f \in Missing :
       /\ \A g \in Missing : g.id = f.id => g.rev >= f.rev
       /\ Save(f.id, f.rev, f.content, heads[f.id].rev, heads[f.id].rev)
  /\ UNCHANGED <<pins, open, server, starts>>

Installed ==
  /\ server.at = "installing" /\ Missing = {}
  /\ server' = [server EXCEPT !.at = "retiring"]
  /\ UNCHANGED <<heads, rows, pins, open, starts>>

(* What is not shipped any more leaves the catalogue; nothing unarchives.  *)
Unshipped ==
  {i \in Curated : Exists(i) /\ ~heads[i].archived /\ ~\E f \in server.files : f.id = i}

Retire ==
  /\ server.at = "retiring"
  /\ \E i \in Unshipped : heads' = [heads EXCEPT ![i].archived = TRUE]
  /\ UNCHANGED <<rows, pins, open, server, starts>>

Serve ==
  /\ server.at = "retiring" /\ Unshipped = {}
  /\ server' = [at |-> "serving", files |-> {}]
  /\ UNCHANGED <<heads, rows, pins, open, starts>>

(* The process dies: editors are elsewhere and keep what they show.        *)
Dies ==
  /\ server.at # "down" /\ server' = Down
  /\ UNCHANGED <<heads, rows, pins, open, starts>>

-----------------------------------------------------------------------------
(* Requests.                                                               *)

(* create: an id of the reserved namespace and one that exists are refused.*)
Create(e) ==
  /\ Serving
  /\ \E i \in Ids, w \in Words :
       IF i \in Curated \/ Exists(i)
         THEN Refused
         ELSE Save(i, 1, <<w, 0>>, 0, 0) /\ Answered(e, i, 1, <<w, 0>>)
  /\ UNCHANGED <<pins, server, starts>>

Read(e) ==
  /\ Serving
  /\ \E i \in Ids : Exists(i) /\ Shows(e, i, heads[i].rev, heads[i].content)
  /\ UNCHANGED <<heads, rows, pins, server, starts>>

(* _as_copy: a new preset at revision 1 that stands for the edit.          *)
AsCopy(e, content) ==
  \E i \in FreeIds : Save(i, 1, content, 0, 0) /\ Answered(e, i, 1, content)

(* update.                                                                 *)
Stale(e, copies) == open[e].base # heads[open[e].id].rev

Update(e) ==
  LET i == open[e].id IN
  /\ Serving /\ i # NoId
  /\ \E w \in Words, copies \in BOOLEAN :
       LET content == <<w, 0>>  next == heads[i].rev + 1 IN
       CASE heads[i].archived                -> Refused
         [] ~heads[i].archived /\ i \in Curated -> AsCopy(e, content)
         [] ~heads[i].archived /\ i \in Custom /\ Stale(e, copies) ->
              IF copies THEN AsCopy(e, content) ELSE Refused
         [] OTHER ->
              IF content = heads[i].content
                THEN Shows(e, i, heads[i].rev, content) /\ UNCHANGED <<heads, rows>>
                ELSE /\ next \in Revs /\ BaseHolds(i, heads[i].rev)
                     /\ Save(i, next, content, heads[i].rev, open[e].base)
                     /\ Answered(e, i, next, content)
  /\ UNCHANGED <<pins, server, starts>>

(* clone: any revision that can be read, into an id of its own.            *)
Clone(e) ==
  /\ Serving
  /\ \E i \in Ids, r \in Revs :
       IF Exists(i) /\ Readable(i, r) THEN AsCopy(e, Content(i, r)) ELSE Refused
  /\ UNCHANGED <<pins, server, starts>>

Archive ==
  /\ Serving
  /\ \E i \in Ids, to \in BOOLEAN :
       Exists(i) /\ heads' = [heads EXCEPT ![i].archived = to]
  /\ UNCHANGED <<rows, pins, open, server, starts>>

(* definition: a submission resolves the revision it names, archived or    *)
(* not, and its job records both.                                          *)
Pin ==
  /\ Serving /\ Cardinality(pins) < MaxPins
  /\ \E i \in Ids, r \in Revs :
       /\ Exists(i) /\ Readable(i, r)
       /\ pins' = pins \cup {[id |-> i, rev |-> r, content |-> Content(i, r)]}
  /\ UNCHANGED <<heads, rows, open, server, starts>>

Next ==
  \/ Start \/ InstallRevision \/ Installed \/ Retire \/ Serve \/ Dies
  \/ Archive \/ Pin
  \/ \E e \in Editors : Create(e) \/ Read(e) \/ Update(e) \/ Clone(e)

Spec == Init /\ [][Next]_vars

-----------------------------------------------------------------------------
(* No save hides another: the author of every later revision of a custom   *)
(* preset had the one before it open, whatever answers were lost; and what *)
(* a job ran from can be read as it was, through edits, archiving, builds  *)
(* that drop it and builds that ship it changed, a curated revision being  *)
(* the same everywhere (studio/catalogue.py, db.py save_preset_revision).  *)
RevisionsStand ==
  /\ \A w \in rows : (w.id \in Custom /\ w.rev > 1) => w.seen = w.rev - 1
  /\ \A p \in pins : /\ Readable(p.id, p.rev) /\ Content(p.id, p.rev) = p.content
                     /\ p.id \in Curated => p.content = Shipped(p.rev)

=============================================================================
