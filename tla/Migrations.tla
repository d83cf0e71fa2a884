----------------------------- MODULE Migrations -----------------------------
(***************************************************************************)
(* `opendeskctl migrate`: it runs the migration files that                 *)
(* schema_migrations does not list, in the order of their versions, and    *)
(* lists each afterwards.  A file is several statements sent in one call;  *)
(* MySQL commits each of them by itself.  The process may die, or reach    *)
(* its deadline of two minutes, anywhere, and two of them may run at once, *)
(* since nothing locks the schema.                                         *)
(***************************************************************************)
EXTENDS Integers

CONSTANTS
  Migrators,   \* processes
  Mortal,      \* those that may die, and are not started again
  Files,       \* the number of migration files; their versions are 1..Files
  Statements,  \* the number of statements of each file
  Repeatable   \* the files whose statements may run twice (IF NOT EXISTS,
               \* MODIFY COLUMN); an ADD COLUMN may not

Versions == 1..Files

ASSUME MigrationAssumption ==
  /\ Files \in Nat
  /\ Statements \in [Versions -> Nat \ {0}]
  /\ Repeatable \subseteq Versions
  /\ Mortal \subseteq Migrators

VARIABLES
  made,      \* the statements that have taken effect
  recorded,  \* schema_migrations
  file,      \* the file a migrator is at
  line,      \* its next statement in that file
  run        \* what it does: "off", "check", "exec", "record", or how it
             \* ended: "ok", "failed", "dead", "gone" (nobody looks at it)

schemaVars == <<made, recorded, file, line, run>>

Changes(v) == {v} \X (1..Statements[v])
Schema == UNION {Changes(v) : v \in Versions}
Upgraded(v) == UNION {Changes(w) : w \in 1..v}

(* A new database, or one that an earlier release has migrated *)
SchemaInit ==
  /\ \E v \in 0..Files : recorded = 1..v /\ made = Upgraded(v)
  /\ file = [m \in Migrators |-> 1]
  /\ line = [m \in Migrators |-> 1]
  /\ run = [m \in Migrators |-> "off"]

At(m, state) == run[m] = state
Becomes(m, state) == run' = [run EXCEPT ![m] = state]
Move(m, v, i) == file' = [file EXCEPT ![m] = v] /\ line' = [line EXCEPT ![m] = i]
Stay == UNCHANGED <<file, line>>

End(m, state) == Move(m, 1, 1) /\ Becomes(m, state)

NextFile(m) ==
  IF file[m] = Files THEN End(m, "ok") ELSE Move(m, file[m] + 1, 1) /\ Becomes(m, "check")

(* The files are loaded and sorted; a process that failed is started again *)
Start(m) ==
  /\ At(m, "off") \/ (At(m, "failed") /\ m \notin Mortal)
  /\ Move(m, 1, 1)
  /\ Becomes(m, IF Files = 0 THEN "ok" ELSE "check")
  /\ UNCHANGED <<made, recorded>>

Skip(m) ==
  /\ At(m, "check")
  /\ file[m] \in recorded
  /\ NextFile(m)
  /\ UNCHANGED <<made, recorded>>

(* Variant: the version is recorded before the file is executed *)
UnrecordedListed(m) ==
  /\ At(m, "check")
  /\ file[m] \notin recorded
  /\ recorded' = recorded \cup {file[m]}
  /\ Becomes(m, "exec")
  /\ Stay
  /\ UNCHANGED made

Unrecorded(m) ==
  /\ At(m, "check")
  /\ file[m] \notin recorded
  /\ Becomes(m, "exec")
  /\ Stay
  /\ UNCHANGED <<made, recorded>>

Statement(m) == <<file[m], line[m]>>

(* Variant: CREATE TABLE without IF NOT EXISTS *)
RunsOnce(m) == Upgraded(file[m] - 1) \subseteq made /\ Statement(m) \notin made

(* The statement alters what an earlier one of its file, or another file, made *)
Runs(m) ==
  /\ Upgraded(file[m] - 1) \subseteq made
  /\ file[m] \in Repeatable \/ Statement(m) \notin made

Last(m) == line[m] = Statements[file[m]]

ExecStatement(m) ==
  /\ At(m, "exec")
  /\ Runs(m)
  /\ made' = made \cup {Statement(m)}
  /\ Move(m, file[m], line[m] + 1)
  /\ Becomes(m, IF Last(m) THEN "record" ELSE "exec")
  /\ UNCHANGED recorded

(* For example "Duplicate column name" *)
ExecFails(m) ==
  /\ At(m, "exec")
  /\ ~Runs(m)
  /\ End(m, "failed")
  /\ UNCHANGED <<made, recorded>>

Record(m) ==
  /\ At(m, "record")
  /\ file[m] \notin recorded
  /\ recorded' = recorded \cup {file[m]}
  /\ NextFile(m)
  /\ UNCHANGED made

(* The version is the primary key *)
RecordFails(m) ==
  /\ At(m, "record")
  /\ file[m] \in recorded
  /\ End(m, "failed")
  /\ UNCHANGED <<made, recorded>>

(* Killed, or out of time: the statement under way is one more or one less *)
Die(m) ==
  /\ m \in Mortal
  /\ run[m] \in {"check", "exec", "record"}
  /\ End(m, "dead")
  /\ UNCHANGED <<made, recorded>>

Migrate(m) ==
  Start(m) \/ Skip(m) \/ Unrecorded(m) \/ ExecStatement(m) \/ ExecFails(m)
  \/ Record(m) \/ RecordFails(m) \/ Die(m)

Ended(m) == run[m] \in {"ok", "dead", "gone"} \/ (At(m, "failed") /\ m \in Mortal)

(* A migrator ends or dies, and an operator starts it again when it fails *)
SchemaFairness == \A m \in Migrators : WF_schemaVars(Migrate(m))

-----------------------------------------------------------------------------
(* Properties *)

SchemaTypeOK ==
  /\ made \subseteq Schema
  /\ recorded \subseteq Versions
  /\ file \in [Migrators -> Nat \ {0}]
  /\ line \in [Migrators -> Nat \ {0}]
  /\ run \in [Migrators -> {"off", "check", "exec", "record", "ok", "failed", "dead",
                         "gone"}]

(* A file that cannot be repeated has begun and nobody will record it *)
Wedged ==
  \E v \in Versions \ (Repeatable \cup recorded) :
    /\ Changes(v) \cap made # {}
    /\ \A m \in Migrators : file[m] = v => ~At(m, "record") /\ line[m] = 1

(* Apply: a migrator that dies, or two that run at once, leave a schema    *)
(* that running it again completes; the only exception is a process that   *)
(* died between the column of 002_build_worker_state.sql and its record.   *)
SchemaRecovers == (<>[](recorded = Versions /\ made = Schema)) \/ <>[]Wedged
=============================================================================
