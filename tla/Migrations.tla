------------------------------- MODULE Migrations -------------------------------
(***************************************************************************)
(* The start of a process on a database (main.lifespan, db.init_db and     *)
(* migrations/): the lock file, the tables its models have and the         *)
(* database has not, the ledger of migrations, the backup, and every       *)
(* pending migration statement by statement in a transaction of its own.   *)
(* Two processes may start at once, with builds of different age; either   *)
(* may be killed between any two statements, or find one failing.          *)
(*                                                                         *)
(* The schema is a set: <<t>> a table, <<t, c>> a column of it,            *)
(* <<"index", i>> an index. Of the 19 migrations six are here, one of each *)
(* form the others have; a build knows the first so many of them.          *)
(***************************************************************************)
EXTENDS Naturals, FiniteSets, Sequences, SequencesExt

CONSTANTS
  Procs,      \* processes that may be started
  Builds,     \* how many of the migrations below each build knows
  MaxStarts,  \* bound: processes ever started
  MaxFaults   \* bound: processes killed and statements that fail

VARIABLES
  schema,   \* what the database has
  ledger,   \* the ids in applied_migrations
  rows,     \* its rows: pairs of a table and the form a build wrote them in
  legacy,   \* the tables it had before the ledger existed
  backups,  \* the copies taken: the ledger and the rows of each
  procs,    \* each process: where it is, its build, what it has still to run
  starts, faults

database == <<schema, ledger, rows>>
vars == <<schema, ledger, rows, legacy, backups, procs, starts, faults>>

-----------------------------------------------------------------------------
(* Statements (migrations/ops.py): each may be run twice *)

\* What a statement is run on and what it leaves: a table with its columns, a
\* column or an index of a table that is there, an index gone, rows rewritten.
CreateTable(t, columns) == [op |-> "table", on |-> t, gives |-> columns]
AddColumn(t, column) == [op |-> "column", on |-> t, gives |-> {<<t, column>>}]
AddIndex(t, index) == [op |-> "index", on |-> t, gives |-> {<<"index", index>>}]
DropIndex(t, index) == [op |-> "drop", on |-> t, gives |-> {<<"index", index>>}]
Backfill(t) == [op |-> "fill", on |-> t, gives |-> {}]

Altered(stmt) ==
  CASE stmt.op = "table" -> IF <<stmt.on>> \in schema THEN schema
                            ELSE schema \union {<<stmt.on>>} \union stmt.gives
    [] stmt.op = "drop" -> schema \ stmt.gives
    [] OTHER -> IF <<stmt.on>> \in schema THEN schema \union stmt.gives ELSE schema

\* A backfill brings each old row of its table to the form the build writes.
Filled(stmt) ==
  IF stmt.op # "fill" THEN rows
  ELSE {IF r[1] = stmt.on THEN <<r[1], "new">> ELSE r : r \in rows}

\* The columns the old additive _migrate() used to add.
Baseline == <<AddColumn("asset", "caption"), AddColumn("job", "group_id"),
              AddIndex("asset", "ix_asset_rating"), AddIndex("job", "ix_job_group_id")>>

\* A job's model is worked out once and stored; older rows are given theirs.
JobModelKey == <<AddColumn("job", "model_key"), AddIndex("job", "ix_job_dequeue"),
                 Backfill("job")>>

\* The bytes get a table of their own; captioned rows are promoted on the ladder.
AssetContent == <<CreateTable("assetcontent", {<<"assetcontent", "hash">>}),
                  AddColumn("asset", "content_id"), AddColumn("asset", "enrich_level"),
                  AddIndex("asset", "ix_asset_enrich_level"), Backfill("asset")>>

\* Variant Sets: three new tables, nothing changed.
VariantTables == <<CreateTable("variantset", {<<"variantset", "request_id">>}),
                   CreateTable("variantitem", {<<"variantitem", "job_id">>}),
                   AddIndex("variantitem", "ux_variantitem_set_stage_key")>>

\* Saved generators, one of a name.
RecipeTable == <<CreateTable("recipe", {<<"recipe", "slug">>}),
                 AddColumn("recipe", "defaulted_json"),
                 AddIndex("recipe", "ux_recipe_name_nocase")>>

\* Presets: a name is unique among saved generators only, and each revision is
\* a row that stays.
RecipeRevisions == <<AddColumn("recipe", "schema_version"),
                     DropIndex("recipe", "ux_recipe_name_nocase"),
                     AddIndex("recipe", "ux_recipe_name_nocase_v1"),
                     CreateTable("reciperevision", {<<"reciperevision", "revision">>})>>

MIGRATIONS == <<Baseline, JobModelKey, AssetContent, VariantTables, RecipeTable, RecipeRevisions>>

\* What the models of a build name: its tables and every column of them.
Gives(m) == UNION {s.gives \union {<<s.on>>} : s \in {x \in ToSet(MIGRATIONS[m]) : x.op \in {"table", "column"}}}
Models(b) == {<<"asset">>, <<"job">>} \union UNION {Gives(m) : m \in 1..b}

\* The tables a build's code fills in the new form: older builds wrote the old.
Fills(b) == {s.on : s \in {x \in UNION {ToSet(MIGRATIONS[m]) : m \in 1..b} : x.op = "fill"}}

-----------------------------------------------------------------------------
(* A process *)

Off == [at |-> "off", build |-> 0, todo |-> <<>>, stmt |-> 0, undo |-> <<{}, {}, {}>>]

Init ==
  /\ \/ schema = {} /\ legacy = {} /\ rows = {}
     \/ /\ legacy = {"asset", "job"} /\ rows = {<<"asset", "old">>, <<"job", "old">>}
        /\ schema \in {{<<"asset">>, <<"job">>}, {<<"asset">>, <<"job">>, <<"asset", "caption">>}}
  /\ ledger = {} /\ backups = {}
  /\ procs = [p \in Procs |-> Off]
  /\ starts = 0 /\ faults = 0

Becomes(p, rec) == procs' = [procs EXCEPT ![p] = rec]

\* The lock is the operating system's: it is free when no process holds it,
\* however the last one ended.
LockFree == \A p \in Procs : procs[p].at = "off"

\* acquire_process_lock before anything touches the database; a second process
\* is refused at once, which changes nothing.
Start(p) ==
  /\ procs[p].at = "off" /\ starts < MaxStarts /\ LockFree
  /\ \E b \in Builds : Becomes(p, [Off EXCEPT !.at = "locked", !.build = b])
  /\ starts' = starts + 1
  /\ UNCHANGED <<database, legacy, backups, faults>>

\* create_all builds the tables that are not there, whole, and alters none.
CreateAll(p) ==
  /\ procs[p].at = "locked"
  /\ LET missing == {o \in Models(procs[p].build) : <<o[1]>> \notin schema} IN
     schema' = schema \union missing
  /\ Becomes(p, [procs[p] EXCEPT !.at = "created"])
  /\ UNCHANGED <<ledger, rows, legacy, backups, starts, faults>>

Known(b) == 1..b
Pending(b) == SetToSortSeq(Known(b) \ ledger, <)

\* backup: sqlite's own copy, under a name of its own second.
WithCopy == backups \union {[ledger |-> ledger, rows |-> rows]}

\* run_all: an id this build does not know stops it; with something to do the
\* database is copied first.
Mutant_ReadLedger(p) ==
  /\ procs[p].at = "created"
  /\ LET todo == Pending(procs[p].build) IN
     IF todo = <<>> THEN Becomes(p, [procs[p] EXCEPT !.at = "serving"]) /\ UNCHANGED backups
     ELSE /\ Becomes(p, [procs[p] EXCEPT !.at = "migrating", !.todo = todo])
          /\ backups' = WithCopy
  /\ UNCHANGED <<database, legacy, starts, faults>>

ReadLedger(p) ==
  /\ procs[p].at = "created"
  /\ LET todo == Pending(procs[p].build) IN
     IF ledger \ Known(procs[p].build) # {} THEN Becomes(p, Off) /\ UNCHANGED backups
     ELSE IF todo = <<>>
       THEN Becomes(p, [procs[p] EXCEPT !.at = "serving"]) /\ UNCHANGED backups
     ELSE /\ Becomes(p, [procs[p] EXCEPT !.at = "migrating", !.todo = todo])
          /\ backups' = WithCopy
  /\ UNCHANGED <<database, legacy, starts, faults>>

\* BEGIN, which is issued by hand: the driver opens none before a DDL.
Begin(p) ==
  /\ procs[p].at = "migrating" /\ procs[p].stmt = 0
  /\ Becomes(p, [procs[p] EXCEPT !.stmt = 1, !.undo = database])
  /\ UNCHANGED <<database, legacy, backups, starts, faults>>

Running(p) == MIGRATIONS[Head(procs[p].todo)]

\* One statement of the migration.
Execute(p) ==
  /\ procs[p].at = "migrating" /\ procs[p].stmt \in DOMAIN Running(p)
  /\ LET stmt == Running(p)[procs[p].stmt] IN schema' = Altered(stmt) /\ rows' = Filled(stmt)
  /\ Becomes(p, [procs[p] EXCEPT !.stmt = @ + 1])
  /\ UNCHANGED <<ledger, legacy, backups, starts, faults>>

\* The id is recorded in the same transaction, and the next one begins.
Commit(p) ==
  /\ procs[p].at = "migrating" /\ procs[p].stmt = Len(Running(p)) + 1
  /\ ledger' = ledger \union {Head(procs[p].todo)}
  /\ LET todo == Tail(procs[p].todo) IN
     Becomes(p, [procs[p] EXCEPT !.todo = todo, !.stmt = 0, !.undo = Off.undo,
                                 !.at = IF todo = <<>> THEN "serving" ELSE "migrating"])
  /\ UNCHANGED <<schema, rows, legacy, backups, starts, faults>>

\* A statement fails, or the process is killed: what the open transaction did
\* is rolled back, by the runner or when the database is next opened.
Stop(p) ==
  /\ procs[p].at # "off" /\ faults < MaxFaults
  /\ IF procs[p].stmt # 0
       THEN schema' = procs[p].undo[1] /\ ledger' = procs[p].undo[2] /\ rows' = procs[p].undo[3]
       ELSE UNCHANGED database
  /\ Becomes(p, Off) /\ faults' = faults + 1
  /\ UNCHANGED <<legacy, backups, starts>>

Exit(p) ==
  /\ procs[p].at = "serving" /\ Becomes(p, Off)
  /\ UNCHANGED <<database, legacy, backups, starts, faults>>

\* A process that serves writes rows the way its build does.
Write(p) ==
  /\ procs[p].at = "serving"
  /\ \E t \in {"asset", "job"} :
       rows' = rows \union {<<t, IF t \in Fills(procs[p].build) THEN "new" ELSE "old">>}
  /\ UNCHANGED <<schema, ledger, legacy, backups, procs, starts, faults>>

Next == \E p \in Procs : \/ Start(p) \/ CreateAll(p) \/ ReadLedger(p) \/ Begin(p) \/ Execute(p)
                         \/ Commit(p) \/ Stop(p) \/ Exit(p) \/ Write(p)

Spec == Init /\ [][Next]_vars

-----------------------------------------------------------------------------
(* Properties *)

\* A process that serves is alone, has every table and column its models name,
\* and no row it would read in a form an older build wrote.
ServesItsOwn ==
  \A p \in Procs : procs[p].at = "serving" =>
    /\ \A q \in Procs \ {p} : procs[q].at = "off"
    /\ Models(procs[p].build) \subseteq schema
    /\ \A t \in Fills(procs[p].build) : <<t, "old">> \notin rows

\* With no transaction open, a migration that is not recorded has left no
\* column on a table that was there before it.
AllOrNothing ==
  (\A p \in Procs : procs[p].stmt = 0) =>
    \A m \in DOMAIN MIGRATIONS \ (ledger \union {1}) :
      {o \in Gives(m) : o[1] \in legacy /\ Len(o) = 2} \intersect schema = {}

\* Once a database that had rows is migrated there is a copy from before: one
\* with an empty ledger, whose rows are none a later build rewrote.
CopyKept ==
  (legacy # {} /\ ledger # {}) => [ledger |-> {}, rows |-> {<<t, "old">> : t \in legacy}] \in backups

\* A start either serves on a whole schema or leaves the database as a whole
\* number of migrations made it (migrations/__init__.py:11-14), over any
\* order of builds, kills and failures.
WholeSchema == ServesItsOwn /\ AllOrNothing /\ CopyKept

=============================================================================
