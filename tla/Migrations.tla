----------------------------- MODULE Migrations -----------------------------
(***************************************************************************)
(* The migration runner of a deploy (services/orchestrator/src/migrate.ts):*)
(* an advisory lock of the session, the table schema_migrations, and one   *)
(* transaction per file.  Deploys may overlap, carry different versions of *)
(* the files, wait for the lock in vain, and die between any two           *)
(* statements; the lock ends with the session that holds it.               *)
(***************************************************************************)
EXTENDS Naturals, Sequences

CONSTANTS
  Runner, NoRunner,
  Files,      \* of a runner: its sorted files, each with a checksum
  MaxRuns     \* bound: deploys in all

File == [file : Nat, checksum : {"first", "edited"}]

\* The files of a directory have names of their own.
FilesNumbered ==
  \A r \in Runner :
    /\ Files[r] \in Seq(File)
    /\ \A j, k \in DOMAIN Files[r] : Files[r][j].file = Files[r][k].file => j = k

VARIABLES
  recorded,   \* schema_migrations: [file, checksum]
  schema,     \* the files whose statements are committed, in order
  lock,       \* the runner whose session holds the advisory lock
  run,        \* where each runner stands
  runs

vars == <<recorded, schema, lock, run, runs>>

Pc == {"idle", "lock", "read", "next", "apply", "unlock"}
\* applied: what the runner read of schema_migrations; i: the file it is at.
Idle == [pc |-> "idle", applied |-> {}, i |-> 1]

TypeOK ==
  /\ recorded \subseteq File
  /\ schema \in Seq(File)
  /\ lock \in Runner \cup {NoRunner}
  /\ run \in [Runner -> [pc : Pc, applied : SUBSET File, i : Nat]]
  /\ runs \in 0..MaxRuns

Init ==
  /\ recorded = {}
  /\ schema = <<>>
  /\ lock = NoRunner
  /\ run = [r \in Runner |-> Idle]
  /\ runs = 0

At(r, pc) == run[r].pc = pc
Becomes(r, s) == run' = [run EXCEPT ![r] = s]
GoTo(r, pc) == Becomes(r, [run[r] EXCEPT !.pc = pc])
Current(r) == Files[r][run[r].i]
Applied(r, n) == {f \in run[r].applied : f.file = n}

\* A deploy starts; CREATE TABLE IF NOT EXISTS changes nothing the others look at.
Start(r) ==
  /\ At(r, "idle") /\ runs < MaxRuns
  /\ runs' = runs + 1
  /\ GoTo(r, "lock")
  /\ UNCHANGED <<recorded, schema, lock>>

\* Mutant: the lock is not waited for.
LockNoWait(r) ==
  /\ At(r, "lock")
  /\ lock' = IF lock = NoRunner THEN r ELSE lock
  /\ GoTo(r, "read")
  /\ UNCHANGED <<recorded, schema, runs>>

\* pg_advisory_lock
Lock(r) ==
  /\ At(r, "lock") /\ lock = NoRunner
  /\ lock' = r
  /\ GoTo(r, "read")
  /\ UNCHANGED <<recorded, schema, runs>>

Read(r) ==
  /\ At(r, "read")
  /\ Becomes(r, [run[r] EXCEPT !.applied = recorded, !.pc = "next"])
  /\ UNCHANGED <<recorded, schema, lock, runs>>

\* The next file: applied before as it is, edited since, or new.
Compare(r) ==
  /\ At(r, "next") /\ run[r].i <= Len(Files[r])
  /\ LET known == Applied(r, Current(r).file) IN
     IF known = {} THEN GoTo(r, "apply")
     ELSE IF known = {Current(r)} THEN Becomes(r, [run[r] EXCEPT !.i = @ + 1])
     ELSE GoTo(r, "unlock")
  /\ UNCHANGED <<recorded, schema, lock, runs>>

\* The file and its row are one transaction, whose COMMIT may be answered or not; the key of
\* schema_migrations refuses a file that is recorded already, and with it what the file did.
Apply(r) ==
  /\ At(r, "apply")
  /\ IF \E f \in recorded : f.file = Current(r).file
     THEN UNCHANGED <<recorded, schema>> /\ GoTo(r, "unlock")
     ELSE /\ schema' = Append(schema, Current(r))
          /\ recorded' = recorded \cup {Current(r)}
          /\ \/ Becomes(r, [run[r] EXCEPT !.pc = "next", !.i = @ + 1])
             \/ GoTo(r, "unlock")
  /\ UNCHANGED <<lock, runs>>

\* No file is left.
Complete(r) ==
  /\ At(r, "next") /\ run[r].i > Len(Files[r])
  /\ GoTo(r, "unlock")
  /\ UNCHANGED <<recorded, schema, lock, runs>>

\* A statement throws: the lock is not granted in time, or a transaction is rolled back.
Fail(r) ==
  /\ run[r].pc \in {"lock", "read", "apply"}
  /\ GoTo(r, "unlock")
  /\ UNCHANGED <<recorded, schema, lock, runs>>

Release(r) == lock' = IF lock = r THEN NoRunner ELSE lock

\* pg_advisory_unlock and close.
Unlock(r) ==
  /\ At(r, "unlock")
  /\ Release(r)
  /\ Becomes(r, Idle)
  /\ UNCHANGED <<recorded, schema, runs>>

\* The process dies, or its connection is cut, which ends the process: nothing handles it.
Crash(r) ==
  /\ ~At(r, "idle")
  /\ Release(r)
  /\ Becomes(r, Idle)
  /\ UNCHANGED <<recorded, schema, runs>>

Migrate(r) ==
  \/ Start(r) \/ Lock(r) \/ Read(r) \/ Compare(r) \/ Apply(r) \/ Complete(r) \/ Fail(r)
  \/ Unlock(r) \/ Crash(r)

Next == \E r \in Runner : Migrate(r)

Spec == Init /\ [][Next]_vars

----------------------------------------------------------------------------
(* What the runner promises *)

\* Every file is committed at most once, together with its row.
CommittedOnce ==
  /\ \A i, j \in DOMAIN schema : schema[i].file = schema[j].file => i = j
  /\ recorded = {schema[i] : i \in DOMAIN schema}

\* A runner that applies a file works on the schema it was written for: all files before it
\* are recorded as this runner has them, and nobody has applied the file in the meantime.
AppliedInOrder ==
  \A r \in Runner : At(r, "apply") =>
    /\ \A f \in recorded : f.file # Current(r).file
    /\ \A k \in 1..(run[r].i - 1) : Files[r][k] \in recorded

\* What is in the database is what the files of some deploy say, in their order, once.
SchemaInOrder == CommittedOnce /\ AppliedInOrder
=============================================================================
