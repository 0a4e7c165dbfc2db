----------------------------- MODULE StoreOpening -----------------------------
(***************************************************************************)
(* createResilientStore and the migrations of SqliteStore: a process opens  *)
(* the database, brings its schema up to date, and on any failure renames   *)
(* the file and starts again on a fresh one; when that fails too it falls   *)
(* back to a store in memory.                                               *)
(*                                                                          *)
(* A migration is a list of statements, each committed by itself, and its   *)
(* version number is one more statement.  One process runs them without a   *)
(* pause, but it may die between any two, and the processes of two hosts    *)
(* in one working directory interleave at every statement.                  *)
(***************************************************************************)
EXTENDS Integers, Sequences, Functions

CONSTANTS
  Processes,
  Files,        (* the database files there may be, a bound                 *)
  NoFile,
  Releases,     (* schema versions an existing file may have, 0 when it is  *)
                (* empty                                                    *)
  MaxMishaps    (* ends of a process that is opening a file, and failures   *)
                (* of the host (disk full, locked, no right to rename), a   *)
                (* bound                                                    *)

VARIABLES
  file,     (* per file: its tables and columns, its user_version, and what *)
            (* happened to it: corrupt, taken from the disk's free names,   *)
            (* torn (a migration stopped half way), raced (two processes    *)
            (* were opening it at the same time)                            *)
  path,     (* the file at dbPath                                           *)
  mishaps,  (* their count                                                  *)
  opener    (* per process: how far createResilientStore is, the file it    *)
            (* holds, the version it counts on from, its next statement,    *)
            (* whether this is the second attempt, whether the host failed  *)

ASSUME OpeningAssumption ==
  /\ Files # {} /\ NoFile \notin Files
  /\ Releases \subseteq 0 .. 9

openingVars == <<file, path, mishaps, opener>>

-----------------------------------------------------------------------------
(* A statement needs some tables and columns, must not find others, adds    *)
(* some and drops some.                                                     *)
Statement(needs, lacks, adds, drops) ==
  [needs |-> needs, lacks |-> lacks, adds |-> adds, drops |-> drops]
CreateIfMissing(t) == Statement({}, {}, {t}, {})
AddColumn(t, c)    == Statement({t}, {c}, {c}, {})

(* Tables created in a row, or columns added in a row, count as one or two. *)
MIGRATION_V1 == <<CreateIfMissing("pins"), CreateIfMissing("telemetry")>>
MIGRATION_V2 == <<CreateIfMissing("dataset")>>
MIGRATION_V3 == <<AddColumn("dataset", "prompt_fingerprint")>>
MIGRATION_V4 == <<CreateIfMissing("outcomes")>>
MIGRATION_V5 == <<Statement({}, {"pins_v5"}, {"pins_v5"}, {}),
                  Statement({"pins", "pins_v5"}, {}, {}, {}),
                  Statement({"pins"}, {}, {}, {"pins"}),
                  Statement({"pins_v5"}, {"pins"}, {"pins"}, {"pins_v5"})>>
MIGRATION_V6 == <<AddColumn("telemetry", "actual_cost_usd")>>
MIGRATION_V7 == <<AddColumn("telemetry", "reasoning_level_requested")>>
MIGRATION_V8 == <<AddColumn("dataset", "embedding_json")>>
MIGRATION_V9 == <<AddColumn("telemetry", "context_fit_reason_code")>>

Migrations == <<MIGRATION_V1, MIGRATION_V2, MIGRATION_V3, MIGRATION_V4, MIGRATION_V5,
                MIGRATION_V6, MIGRATION_V7, MIGRATION_V8, MIGRATION_V9>>
CURRENT_SCHEMA_VERSION == Len(Migrations)

(* The schema a release of version v leaves behind.                         *)
SchemaOf(v) ==
  (UNION {UNION {s.adds : s \in Range(Migrations[w])} : w \in 1 .. v}) \ {"pins_v5"}

Unused  == [schema |-> {}, version |-> 0, corrupt |-> FALSE, used |-> FALSE,
            torn |-> FALSE, raced |-> FALSE]
Left(v) == [Unused EXCEPT !.schema = SchemaOf(v), !.version = v, !.used = TRUE]
NoDatabase == [Unused EXCEPT !.corrupt = TRUE, !.used = TRUE]

Out == [at |-> "out", file |-> NoFile, version |-> 0, next |-> 1, again |-> FALSE, faulty |-> FALSE]

(* A file of this or an earlier release, or one that is no database.        *)
OpeningInit ==
  /\ opener = [p \in Processes |-> Out]
  /\ path = CHOOSE f \in Files : TRUE
  /\ mishaps = 0
  /\ \E before \in {Left(v) : v \in Releases} \cup {NoDatabase} :
       file = [f \in Files |-> IF f = path THEN before ELSE Unused]

-----------------------------------------------------------------------------
(* Holding a file whose migrations are still to run.                        *)
Holds(p, f) == opener[p].file = f /\ opener[p].at \in {"reading", "migrating"}

(* Inside a migration: some of its statements are done, its version is not. *)
Inside(p) == opener[p].at = "migrating" /\ opener[p].next > 1

(* A file that process p leaves here and now.                               *)
Abandoned(p) ==
  IF Inside(p) THEN [file EXCEPT ![opener[p].file].torn = TRUE] ELSE file

(* A failed first attempt is followed by recovery, a failed second one by   *)
(* the store in memory.                                                     *)
Fails(p, faulty) ==
  /\ opener' = [opener EXCEPT ![p].at = IF opener[p].again THEN "degraded" ELSE "recovering",
                              ![p].faulty = @ \/ faulty]
  /\ file' = Abandoned(p)
  /\ UNCHANGED path

Mishap == mishaps < MaxMishaps /\ mishaps' = mishaps + 1

Begin(p) ==
  /\ opener[p].at = "out"
  /\ opener' = [opener EXCEPT ![p].at = "opening"]
  /\ UNCHANGED <<file, path, mishaps>>

(* new Database: takes the file at the path, or creates one.                *)
OpenDatabase(p) ==
  /\ opener[p].at = "opening"
  /\ \E f \in Files :
       /\ IF path = NoFile THEN ~file[f].used ELSE f = path
       /\ path' = f
       /\ file' = [file EXCEPT ![f].used = TRUE,
                               ![f].raced = @ \/ \E q \in Processes \ {p} : Holds(q, f)]
       /\ opener' = [opener EXCEPT ![p].at = "reading", ![p].file = f]
  /\ UNCHANGED mishaps

(* runMigrations compares one version after the other; behind the last one  *)
(* the store is open.                                                       *)
Counts(p, version) ==
  opener' = [opener EXCEPT ![p] = IF version = CURRENT_SCHEMA_VERSION
                                  THEN [Out EXCEPT !.at = "opened", !.file = opener[p].file]
                                  ELSE [@ EXCEPT !.at = "migrating", !.version = version, !.next = 1]]

(* The pragmas; a file that is no database is noticed here.                 *)
ReadVersion(p) ==
  /\ opener[p].at = "reading"
  /\ LET f == file[opener[p].file] IN
     IF f.corrupt THEN Fails(p, FALSE)
     ELSE Counts(p, f.version) /\ UNCHANGED <<file, path>>
  /\ UNCHANGED mishaps

Statements(p) == Migrations[opener[p].version + 1]

(* One statement of the next migration, or the error it ends in.            *)
Migrate(p) ==
  /\ opener[p].at = "migrating"
  /\ opener[p].next <= Len(Statements(p))
  /\ LET s == Statements(p)[opener[p].next]
         f == opener[p].file IN
     IF s.needs \subseteq file[f].schema /\ s.lacks \cap file[f].schema = {}
     THEN /\ file' = [file EXCEPT ![f].schema = (@ \cup s.adds) \ s.drops]
          /\ opener' = [opener EXCEPT ![p].next = @ + 1]
          /\ UNCHANGED path
     ELSE Fails(p, FALSE)
  /\ UNCHANGED mishaps

(* Mutant: the sixth migration writes user_version = 7.                     *)
StampSkipsSeventh(p) ==
  /\ opener[p].at = "migrating"
  /\ opener[p].next > Len(Statements(p))
  /\ LET version == IF opener[p].version = 5 THEN 7 ELSE opener[p].version + 1
     IN  /\ file' = [file EXCEPT ![opener[p].file].version = version]
         /\ Counts(p, version)
  /\ UNCHANGED <<path, mishaps>>

(* PRAGMA user_version, whatever the file's version has become meanwhile.   *)
Stamp(p) ==
  /\ opener[p].at = "migrating"
  /\ opener[p].next > Len(Statements(p))
  /\ file' = [file EXCEPT ![opener[p].file].version = opener[p].version + 1]
  /\ Counts(p, opener[p].version + 1)
  /\ UNCHANGED <<path, mishaps>>

HostFails(p) ==
  /\ Mishap
  /\ opener[p].at \in {"opening", "reading", "migrating"}
  /\ Fails(p, TRUE)

(* Renames what is at the path now, if the file system lets it, and tries   *)
(* again whether it did or not.                                             *)
Recover(p) ==
  /\ opener[p].at = "recovering"
  /\ \/ path' = NoFile /\ UNCHANGED mishaps
     \/ path # NoFile /\ Mishap /\ UNCHANGED path
  /\ opener' = [opener EXCEPT ![p].at = "opening", ![p].again = TRUE, ![p].faulty = @ \/ path' # NoFile]
  /\ UNCHANGED file

(* A process that is done ends sooner or later, one that is opening may die *)
(* at any moment.                                                           *)
Exit(p) ==
  /\ opener[p].at # "out"
  /\ IF opener[p].at \in {"reading", "migrating", "recovering"} THEN Mishap ELSE UNCHANGED mishaps
  /\ opener' = [opener EXCEPT ![p] = Out]
  /\ file' = Abandoned(p)
  /\ UNCHANGED path

OpeningNext ==
  \E p \in Processes :
    \/ Begin(p) \/ OpenDatabase(p) \/ ReadVersion(p) \/ Migrate(p) \/ Stamp(p)
    \/ HostFails(p) \/ Recover(p) \/ Exit(p)

OpeningSpec == OpeningInit /\ [][OpeningNext]_openingVars

-----------------------------------------------------------------------------
(* A store that opened has every table and column its statements name:      *)
(* whatever process ended or failed at whatever statement of a migration,   *)
(* no later one takes the half-migrated file for a finished one.  Two       *)
(* processes on one file keep this too, except while one that lags is       *)
(* still replacing the pins table the other one has already replaced, and   *)
(* for good if it ends there (MIGRATION_V5 drops the table under its final  *)
(* name).                                                                   *)
Replacing(f) == \E q \in Processes : Holds(q, f) /\ Inside(q) /\ opener[q].version = 4
OpenedComplete ==
  \A p \in Processes : opener[p].at = "opened" =>
    LET f == opener[p].file IN
    \/ SchemaOf(CURRENT_SCHEMA_VERSION) \subseteq file[f].schema
    \/ file[f].raced /\ (Replacing(f) \/ file[f].torn)

(* A database is put aside only when it is none, when the host failed, when *)
(* a migration on it had stopped half way, or when two processes had it     *)
(* open at once: a release that starts alone on the file any earlier one    *)
(* closed upgrades it in place, and the store in memory is for failing      *)
(* hosts.  The last two exceptions are databases that were sound and are    *)
(* lost with their pins: OnlyCorruptGivenUp below is the rule without them. *)
RecoveryJustified ==
  \A p \in Processes : opener[p].at \in {"recovering", "degraded"} =>
    \/ opener[p].faulty
    \/ LET f == file[opener[p].file] IN
       f.torn \/ f.raced \/ (f.corrupt /\ opener[p].at = "recovering")

(* Whatever ends or fails between two statements of a migration, and        *)
(* whichever of two processes goes first: no store opens on half a schema   *)
(* but while another process replaces its pins, and a database that every   *)
(* earlier process left between two migrations is upgraded, not given up.   *)
OpeningSound == OpenedComplete /\ RecoveryJustified

(* "Corrupt-DB recovery" (createResilientStore) is for a file that is none  *)
(* or for a host that fails: a process that ended between the ALTER TABLE   *)
(* of a migration and its version, or ran it beside another one, costs no   *)
(* database.  The code breaks this: the next open finds the column, fails,  *)
(* and renames a healthy file.                                              *)
OnlyCorruptGivenUp ==
  \A p \in Processes : opener[p].at \in {"recovering", "degraded"} =>
    opener[p].faulty \/ file[opener[p].file].corrupt
=============================================================================
