----------------------------- MODULE Migrations -----------------------------
(***************************************************************************)
(* The migration runner (db/db.go): MigrateUp, which every instance of the *)
(* service runs when it starts (openPoolAndMigrate) and an operator runs   *)
(* with cmd/migrate --up, and MigrateDown (--down).  Nothing locks the     *)
(* runs out from one another.                                              *)
(*                                                                         *)
(* A migration file holds its own BEGIN and COMMIT.  Executed inside the   *)
(* transaction that MigrateUp or MigrateDown began, its COMMIT ends that   *)
(* transaction: what the file does and the row of schema_migrations that   *)
(* records it are committed one after the other, and the Rollback and the  *)
(* Commit that follow have nothing to act on.                              *)
(***************************************************************************)
EXTENDS Naturals, FiniteSets

CONSTANTS
  Instances,   \* processes that run MigrateUp
  Operators,   \* processes that run MigrateDown
  N,           \* the embedded migrations are 1 .. N
  MaxCrashes,  \* bound on the runs that are cut off
  MaxDowns     \* bound on the runs of MigrateDown

ASSUME MigrationConstants ==
  /\ N \in Nat \ {0} /\ MaxCrashes \in Nat /\ MaxDowns \in Nat
  /\ Instances \intersect Operators = {}

VARIABLES
  schema,    \* the migrations whose effect the database shows
  tracked,   \* whether the table schema_migrations is there
  recorded,  \* its rows
  run,       \* the step each process is at
  crashes,   \* runs cut off so far
  downs,     \* runs of MigrateDown begun so far
  torn,      \* history: a rollback made the record wrong for good
  undercut   \* history: instances whose latest run had a rollback beneath it

histVars == <<torn, undercut>>
migrationVars == <<schema, tracked, recorded, run, crashes, downs, histVars>>

Processes == Instances \union Operators

\* LoadMigrations sorts the files by version.
Versions == 1 .. N

Off == [pc |-> "off", version |-> 0, unapplied |-> FALSE]

MigrationsInit ==
  /\ schema = {} /\ tracked = FALSE /\ recorded = {}
  /\ run = [p \in Processes |-> Off]
  /\ crashes = 0 /\ downs = 0 /\ torn = FALSE /\ undercut = {}

At(p, pc) == run[p].pc = pc

InProgress(p) == run[p].pc \notin {"off", "failed", "done"}

Goto(p, pc, version) ==
  run' = [run EXCEPT ![p] = [pc |-> pc, version |-> version, unapplied |-> FALSE]]

\* Goto a CREATE ... IF NOT EXISTS, which looks first whether it is needed.
GotoCreate(p, pc, version, needed) ==
  run' = [run EXCEPT ![p] = [pc |-> pc, version |-> version, unapplied |-> needed]]

\* The files build on one another: 0002 alters a table 0001 creates.
Applicable(v) == v > 1 => v - 1 \in schema

RollbackHalfDone == \E o \in Operators : At(o, "unrecord")

-----------------------------------------------------------------------------
(* EnsureSchemaMigrations, the first step of either run.                   *)

Ensure(p) ==
  /\ At(p, "ensure")
  /\ tracked' = TRUE
  /\ IF p \in Instances THEN Goto(p, "check", 1) ELSE Goto(p, "latest", 0)
  /\ UNCHANGED <<schema, recorded, crashes, downs, histVars>>

\* Another run created the table after this one had looked: the statement
\* fails on the catalog, and the run with it.
EnsureFails(p) ==
  /\ At(p, "ensure")
  /\ run[p].unapplied /\ tracked
  /\ Goto(p, "failed", 0)
  /\ UNCHANGED <<schema, tracked, recorded, crashes, downs, histVars>>

-----------------------------------------------------------------------------
(* MigrateUp.                                                              *)

Start(p) ==
  /\ ~InProgress(p)
  /\ GotoCreate(p, "ensure", 0, ~tracked)
  /\ undercut' = IF RollbackHalfDone THEN undercut \union {p} ELSE undercut \ {p}
  /\ UNCHANGED <<schema, tracked, recorded, crashes, downs, torn>>

\* Mutant: the version recorded last decides, not the version at hand.
IsRecordedUpTo(v) == \E w \in recorded : w <= v

IsRecorded(v) == v \in recorded

\* SELECT EXISTS ..., outside any transaction, for the next version.
Check(p) ==
  /\ At(p, "check")
  /\ LET v == run[p].version IN
       IF v \notin Versions THEN Goto(p, "done", 0)
       ELSE IF IsRecorded(v) THEN Goto(p, "check", v + 1)
       ELSE GotoCreate(p, "exec", v, v \notin schema)
  /\ UNCHANGED <<schema, tracked, recorded, crashes, downs, histVars>>

\* Mutant: the version is recorded before the file is executed.
ExecNothing(p) ==
  /\ At(p, "exec")
  /\ Goto(p, "record", run[p].version)
  /\ UNCHANGED <<schema, tracked, recorded, crashes, downs, histVars>>

\* tx.Exec(UpSQL), committed by the file.  IF NOT EXISTS makes it repeatable.
Exec(p) ==
  /\ At(p, "exec")
  /\ Applicable(run[p].version)
  /\ schema' = schema \union {run[p].version}
  /\ Goto(p, "record", run[p].version)
  /\ UNCHANGED <<tracked, recorded, crashes, downs, histVars>>

\* Mutant: CREATE TABLE and ADD COLUMN without IF NOT EXISTS.
ExecFailsOnSecondRun(p) ==
  /\ At(p, "exec")
  /\ ~Applicable(run[p].version) \/ run[p].version \in schema
  /\ Goto(p, "failed", 0)
  /\ UNCHANGED <<schema, tracked, recorded, crashes, downs, histVars>>

\* What the file alters is not there, or another run created the same tables
\* after this one had looked: the file fails and leaves nothing behind.
ExecFails(p) ==
  /\ At(p, "exec")
  /\ \/ ~Applicable(run[p].version)
     \/ run[p].unapplied /\ run[p].version \in schema
  /\ Goto(p, "failed", 0)
  /\ UNCHANGED <<schema, tracked, recorded, crashes, downs, histVars>>

\* INSERT INTO schema_migrations, refused by the primary key when another run
\* has recorded the version: MigrateUp returns the error, main exits.
RecordVersion(p) ==
  /\ At(p, "record")
  /\ IF run[p].version \in recorded
       THEN Goto(p, "failed", 0) /\ UNCHANGED recorded
       ELSE /\ recorded' = recorded \union {run[p].version}
            /\ Goto(p, "check", run[p].version + 1)
  /\ UNCHANGED <<schema, tracked, crashes, downs, histVars>>

-----------------------------------------------------------------------------
(* MigrateDown.                                                            *)

Latest == IF recorded = {} THEN 0 ELSE CHOOSE v \in recorded : \A w \in recorded : w <= v

StartDown(o) ==
  /\ ~InProgress(o)
  /\ downs < MaxDowns
  /\ downs' = downs + 1
  /\ GotoCreate(o, "ensure", 0, ~tracked)
  /\ UNCHANGED <<schema, tracked, recorded, crashes, histVars>>

\* SELECT MAX(version), outside any transaction.
FindLatest(o) ==
  /\ At(o, "latest")
  /\ IF Latest = 0 THEN Goto(o, "done", 0) ELSE Goto(o, "undo", Latest)
  /\ UNCHANGED <<schema, tracked, recorded, crashes, downs, histVars>>

\* Dropping the tables of 0001 drops the column 0002 added.
Undone(v) == {w \in schema : w < v}

\* What the file drops another run has recorded since the SELECT, or has
\* executed and is about to record: rows no step will ever put right.
Undermines(v) ==
  \/ \E w \in recorded : w > v
  \/ \E p \in Instances : At(p, "record") /\ run[p].version >= v

\* tx.Exec(downSQL), committed by the file.
Undo(o) ==
  /\ At(o, "undo")
  /\ Applicable(run[o].version)
  /\ schema' = Undone(run[o].version)
  /\ Goto(o, "unrecord", run[o].version)
  /\ torn' = (torn \/ Undermines(run[o].version))
  /\ undercut' = undercut \union {p \in Instances : InProgress(p)}
  /\ UNCHANGED <<tracked, recorded, crashes, downs>>

\* The down file fails without the table it alters.
UndoFails(o) ==
  /\ At(o, "undo")
  /\ ~Applicable(run[o].version)
  /\ Goto(o, "failed", 0)
  /\ UNCHANGED <<schema, tracked, recorded, crashes, downs, histVars>>

Unrecord(o) ==
  /\ At(o, "unrecord")
  /\ recorded' = recorded \ {run[o].version}
  /\ Goto(o, "done", 0)
  /\ UNCHANGED <<schema, tracked, crashes, downs, histVars>>

-----------------------------------------------------------------------------
\* A run is cut off: the process dies, loses its connection, or --up or --down
\* reaches the 30 s of its context.  A rollback cut off between its file and
\* its row leaves the row for good.
CutOff(p) ==
  /\ InProgress(p)
  /\ crashes < MaxCrashes
  /\ crashes' = crashes + 1
  /\ Goto(p, "failed", 0)
  /\ torn' = (torn \/ At(p, "unrecord"))
  /\ UNCHANGED <<schema, tracked, recorded, downs, undercut>>

UpStep(p) ==
  Ensure(p) \/ EnsureFails(p) \/ Check(p) \/ Exec(p) \/ ExecFails(p) \/ RecordVersion(p)

DownStep(o) ==
  Ensure(o) \/ EnsureFails(o) \/ FindLatest(o) \/ Undo(o) \/ UndoFails(o) \/ Unrecord(o)

MigrationsNext ==
  \/ \E p \in Instances : Start(p) \/ UpStep(p)
  \/ \E o \in Operators : StartDown(o) \/ DownStep(o)
  \/ \E p \in Processes : CutOff(p)

MigrationsSpec == MigrationsInit /\ [][MigrationsNext]_migrationVars

\* Statements are answered, and an instance that exited with an error is
\* started again by whatever supervises it.
FairMigrationsSpec ==
  /\ MigrationsSpec
  /\ \A p \in Instances :
       WF_migrationVars(UpStep(p)) /\ WF_migrationVars(Start(p) /\ ~At(p, "done"))
  /\ \A o \in Operators : WF_migrationVars(DownStep(o))

-----------------------------------------------------------------------------
(* Properties.                                                             *)

\* The type of the schema, its record and the runs.
MigrationsTypeOK ==
  /\ schema \subseteq Versions /\ recorded \subseteq Versions /\ tracked \in BOOLEAN
  /\ run \in [Processes ->
       [pc : {"off", "ensure", "check", "exec", "record", "latest", "undo", "unrecord",
              "failed", "done"},
        version : 0 .. N + 1, unapplied : BOOLEAN]]
  /\ crashes \in 0 .. MaxCrashes /\ downs \in 0 .. MaxDowns
  /\ torn \in BOOLEAN /\ undercut \subseteq Instances

\* The file and the row that records it are committed separately, by runs that
\* do not know of one another and may be cut off in between.  Nothing is
\* recorded that is not in effect, but for the version being rolled back, in
\* whatever order runs overlap, with two exceptions (torn): a rollback was cut
\* off between its file and its row, or its file dropped what another run had
\* recorded since the rollback looked, or was about to record.
RecordedIsInEffect ==
  ~torn =>
    \A v \in recorded \ schema : \E o \in Operators : At(o, "unrecord") /\ run[o].version = v

\* A MigrateUp that returns nil leaves every migration in effect, whichever
\* runs applied them, unless the record was wrong for good (torn), or a
\* rollback was at work beneath this very run (undercut): its file took effect
\* while the run was in progress, or before with the row still to be deleted.
\* In either case the instance serves on an incomplete schema.  A rollback
\* that overlaps the run otherwise, or other runs, is no excuse.
SucceedsOnFullSchema ==
  [][\A p \in Instances :
       (At(p, "check") /\ At(p, "done")') =>
         (torn \/ p \in undercut \/ schema' = Versions)]_migrationVars

\* Instances that start together collide on the tables and on the primary
\* key, and runs are cut off.  Started again, every instance comes up, beside
\* rollbacks too, for as long as none leaves the record wrong for good (torn).
EveryInstanceComesUp == \A p \in Instances : []<>(At(p, "done") \/ torn)

-----------------------------------------------------------------------------
(* What a comment says and the code does not do.                           *)

\* MigrateUp "applies all pending migrations in version order": an instance
\* that finds a version recorded while --down undoes it serves without it.
AppliesAllPending ==
  [][\A p \in Instances :
       (At(p, "check") /\ At(p, "done")') => schema' = Versions]_migrationVars
=============================================================================
