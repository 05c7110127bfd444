----------------------------- MODULE Migrations -----------------------------
(***************************************************************************)
(* RunMigrations of internal/repository/postgres/postgres.go: pods that    *)
(* start on one database.  A pod that gets the advisory lock 1777 leads    *)
(* and migrates; a pod that does not sleeps a second and serves, whatever  *)
(* became of the leader.                                                   *)
(*                                                                         *)
(* golang-migrate is external: Up takes a lock of its own, refuses a dirty *)
(* version, and for each body writes the version as dirty, runs the body,  *)
(* and writes it as clean.  A body is sent as one query of many            *)
(* statements, which PostgreSQL runs as one transaction.                   *)
(***************************************************************************)
EXTENDS Integers

CONSTANTS
    Pods,   \* processes on the database
    Nobody, \* holds a lock that is free
    Last    \* migrations are numbered 1 .. Last

ASSUME MigrationsAssumption ==
    /\ Nobody \notin Pods
    /\ Last \in Nat \ {0}

VARIABLES
    pod,      \* [Pods -> what the pod does]
    advisory, \* the pod whose session holds the advisory lock 1777
    migrator, \* the pod whose session holds the lock of golang-migrate
    version,  \* schema_migrations.version, 0 when the table is empty
    dirty,    \* schema_migrations.dirty
    ran       \* [1 .. Last -> how often the body was run to its end]

schema == <<version, dirty, ran>>
migrations == <<pod, advisory, migrator, schema>>
-----------------------------------------------------------------------------
(* A pod that serves has led the migration, or followed another pod. *)
Serving == {"led", "followed"}

Migrating == {"probe", "pause", "open", "mark", "run", "clean", "unlock"}

Becomes(p, state) == pod' = [pod EXCEPT ![p] = state]

(* A lock of a session goes with the session. *)
Without(p, holder) == IF holder = p THEN Nobody ELSE holder

MigrationsInit ==
    /\ pod = [p \in Pods |-> "down"]
    /\ advisory = Nobody
    /\ migrator = Nobody
    /\ version = 0
    /\ dirty = FALSE
    /\ ran = [i \in 1 .. Last |-> 0]

(* main calls RunMigrations before anything else. *)
Launch(p) ==
    /\ pod[p] = "down"
    /\ Becomes(p, "probe")
    /\ UNCHANGED <<advisory, migrator, schema>>

(* SELECT pg_try_advisory_lock(1777) does not wait. *)
TryLock(p) ==
    /\ pod[p] = "probe"
    /\ \/ /\ advisory = Nobody
          /\ advisory' = p
          /\ Becomes(p, "open")
       \/ /\ advisory # Nobody
          /\ Becomes(p, "pause")
          /\ UNCHANGED advisory
    /\ UNCHANGED <<migrator, schema>>

(* time.Sleep(1 * time.Second) returns; nothing is looked at again. *)
Wakes(p) ==
    /\ pod[p] = "pause"
    /\ Becomes(p, "followed")
    /\ UNCHANGED <<advisory, migrator, schema>>

(* Slips for the properties to catch: a dirty version is taken for a good one,
   or the advisory lock alone is trusted. *)
BeginDirty(p) ==
    /\ pod[p] = "open"
    /\ migrator = Nobody
    /\ migrator' = p
    /\ Becomes(p, IF version = Last THEN "unlock" ELSE "mark")
    /\ UNCHANGED <<advisory, schema>>

BeginUnlocked(p) ==
    /\ pod[p] = "open"
    /\ ~dirty
    /\ migrator' = p
    /\ Becomes(p, IF version = Last THEN "unlock" ELSE "mark")
    /\ UNCHANGED <<advisory, schema>>

(* Up takes its lock and reads the version.  ErrNoChange is no error. *)
Begin(p) ==
    /\ pod[p] = "open"
    /\ migrator = Nobody
    /\ ~dirty
    /\ migrator' = p
    /\ Becomes(p, IF version = Last THEN "unlock" ELSE "mark")
    /\ UNCHANGED <<advisory, schema>>

MarkDirty(p) ==
    /\ pod[p] = "mark"
    /\ version' = version + 1
    /\ dirty' = TRUE
    /\ Becomes(p, "run")
    /\ UNCHANGED <<advisory, migrator, ran>>

RunBody(p) ==
    /\ pod[p] = "run"
    /\ ran' = [ran EXCEPT ![version] = @ + 1]
    /\ Becomes(p, "clean")
    /\ UNCHANGED <<advisory, migrator, version, dirty>>

(* A slip for the properties to catch: one migration too many. *)
MarkCleanOnward(p) ==
    /\ pod[p] = "clean"
    /\ dirty' = FALSE
    /\ Becomes(p, "mark")
    /\ UNCHANGED <<advisory, migrator, version, ran>>

MarkClean(p) ==
    /\ pod[p] = "clean"
    /\ dirty' = FALSE
    /\ Becomes(p, IF version = Last THEN "unlock" ELSE "mark")
    /\ UNCHANGED <<advisory, migrator, version, ran>>

(* The deferred functions: m.Close, pg_advisory_unlock, db.Close. *)
Unlock(p) ==
    /\ pod[p] = "unlock"
    /\ migrator' = Without(p, migrator)
    /\ advisory' = Without(p, advisory)
    /\ Becomes(p, "led")
    /\ UNCHANGED schema

(* A statement fails, or waits too long for the lock, and main calls
   os.Exit(1); or the pod is killed.  Its sessions end.  A body that was run
   although its answer was lost is RunBody before this step. *)
Exit(p) ==
    /\ pod[p] # "down"
    /\ Becomes(p, "down")
    /\ migrator' = Without(p, migrator)
    /\ advisory' = Without(p, advisory)
    /\ UNCHANGED schema

(* The idle session of the advisory lock breaks, and the pod does not notice:
   database/sql opens another one for pg_advisory_unlock. *)
LoseSession(p) ==
    /\ advisory = p
    /\ advisory' = Nobody
    /\ UNCHANGED <<pod, migrator, schema>>

(* ErrDirty, or ErrLockTimeout after fifteen seconds. *)
Refused(p) ==
    /\ pod[p] = "open"
    /\ dirty \/ migrator # Nobody
    /\ Exit(p)

RunMigrations(p) ==
    \/ TryLock(p) \/ Wakes(p) \/ Begin(p) \/ Refused(p)
    \/ MarkDirty(p) \/ RunBody(p) \/ MarkClean(p) \/ Unlock(p)

(* What the next pod finds: a body that ran is of use to every pod. *)
Has(i) == ran[i] > 0
-----------------------------------------------------------------------------
MigrationsTypeOK ==
    /\ pod \in [Pods -> {"down"} \union Migrating \union Serving]
    /\ advisory \in Pods \union {Nobody}
    /\ migrator \in Pods \union {Nobody}
    /\ version \in 0 .. Last
    /\ dirty \in BOOLEAN
    /\ ran \in [1 .. Last -> Nat]

(* The version table tells the truth about the schema: a clean version says
   that exactly the bodies up to it ran, once each, and a dirty one leaves
   only the last of them in doubt.  Migration 0003 cannot be run twice.  This
   survives a leader whose session lost the advisory lock while it migrates,
   so that a second pod leads beside it. *)
SchemaConsistent ==
    \A i \in 1 .. Last :
        /\ i < version \/ (i = version /\ ~dirty) => ran[i] = 1
        /\ i = version => ran[i] <= 1
        /\ i > version => ran[i] = 0

(* A pod that serves after it led finds every table, for ever.  Of a pod that
   only slept nothing of the kind holds. *)
LedPodsServeWhole ==
    \A p \in Pods : pod[p] = "led" => \A i \in 1 .. Last : ran[i] = 1

(* The inductive invariant: who is between the two writes of a version holds
   the lock of golang-migrate, and what it does tells what the tables say. *)
MigratorInv ==
    /\ \A p \in Pods :
         pod[p] \in {"mark", "run", "clean", "unlock"} => migrator = p
    /\ \A p \in Pods :
         /\ pod[p] = "mark" => ~dirty /\ version < Last
         /\ pod[p] = "run" => dirty /\ version > 0 /\ ran[version] = 0
         /\ pod[p] = "clean" => dirty /\ version > 0 /\ ran[version] = 1
         /\ pod[p] \in {"unlock", "led"} => ~dirty /\ version = Last
=============================================================================
