------------------------------ MODULE StoreOpen ------------------------------
(***************************************************************************)
(* Opening the store (store/store.go, store/schema_archive.go): processes  *)
(* of one build open one database path at the same time.  Under the fail   *)
(* policy nothing is locked; under the archive policy a store whose schema *)
(* is not this build's is renamed aside and replaced under a lock.         *)
(*                                                                         *)
(* A file is known by its inode; its content is what verifySchema tells    *)
(* apart.  External, from how the code uses it: SQLite creates the file it *)
(* is asked to open, with sidecars of its own in the place of any that     *)
(* were left at the path, commits a transaction at once and recovers the   *)
(* WAL of a process that died; the lock is released when its holder dies.  *)
(***************************************************************************)
EXTENDS Naturals

CONSTANTS
  Procs,      \* processes that open the store
  NoProc,
  Files,      \* database files, each created once
  NoFile,
  MaxFaults   \* bound: failed system calls, deaths and upgrades

ASSUME StoreOpenAssumption ==
  NoProc \notin Procs /\ NoFile \notin Files /\ MaxFaults \in Nat

VARIABLES
  archive,    \* the policy is ArchiveUnsupportedSchema
  at,         \* the file at the path
  aside,      \* the files renamed to backups
  wal,        \* the file whose sidecars lie beside the path
  content,    \* content[f]: none (not created), empty, exact, drifted or corrupt
  lock,       \* who holds the archive lock
  pc,         \* pc[p]: where its Open is
  db,         \* db[p]: the file its connection is bound to
  why,        \* why[p]: how its last Open failed
  faults      \* how much of the bound is used

vars == <<archive, at, aside, wal, content, lock, pc, db, why, faults>>

Steps == {"stat", "pre", "lock", "locked", "rename", "sidecars", "create",
          "schema", "check", "ready", "failed"}
Locked == {"locked", "rename", "sidecars"}
Creating == {"create", "schema", "check"}

Go(p, to) == pc' = [pc EXCEPT ![p] = to]

\* Open returns, and the deferred Close of the lock runs.
Unlock(p) == lock' = IF lock = p THEN NoProc ELSE lock
Ready(p) == Go(p, "ready") /\ Unlock(p) /\ UNCHANGED why
Fail(p, reason) == Go(p, "failed") /\ Unlock(p) /\ why' = [why EXCEPT ![p] = reason]

\* The schema of a file, fingerprinted: this build's, another one or none, or not to
\* be read, as when the version is right and the marker row is missing.
Fingerprint(f) == content[f]
VerifySchema(f) ==
  IF Fingerprint(f) = "exact" THEN "nil"
  ELSE IF Fingerprint(f) = "corrupt" THEN "error" ELSE "ErrUnsupportedSchema"

Fault == faults < MaxFaults /\ faults' = faults + 1

\* openSQLite and the first statement on it: the connection is bound to the file
\* at the path, which SQLite creates when there is none; its sidecars are there.
Bind(p, f) ==
  /\ db' = [db EXCEPT ![p] = f]
  /\ wal' = f
  /\ \/ at = f /\ UNCHANGED <<at, content>>
     \/ at = NoFile /\ content[f] = "none"
        /\ at' = f /\ content' = [content EXCEPT ![f] = "empty"]

-----------------------------------------------------------------------------
(* Open. *)

Stat(p) ==
  /\ pc[p] = "stat"
  /\ Go(p, IF at # NoFile THEN "pre" ELSE IF archive THEN "lock" ELSE "create")
  /\ UNCHANGED <<archive, at, aside, wal, content, lock, db, why, faults>>

\* Mutant of PreVerify: the version is checked and the fingerprints are not.
PreVerifyVersion(p) ==
  /\ pc[p] = "pre"
  /\ \E f \in Files :
       /\ Bind(p, f)
       /\ IF content[f] \in {"exact", "drifted"} THEN Ready(p)
          ELSE IF archive THEN Go(p, "lock") /\ UNCHANGED <<lock, why>>
          ELSE Fail(p, VerifySchema(f))
  /\ UNCHANGED <<archive, aside, faults>>

\* Mutant of PreVerify: a file without a schema fails the lockless check for good.
PreVerifyFinal(p) ==
  /\ pc[p] = "pre"
  /\ \E f \in Files :
       /\ Bind(p, f)
       /\ IF content[f] = "exact" THEN Ready(p)
          ELSE IF archive /\ content[f] = "drifted" THEN Go(p, "lock") /\ UNCHANGED <<lock, why>>
          ELSE Fail(p, VerifySchema(f))
  /\ UNCHANGED <<archive, aside, faults>>

\* The lockless verification.  Only an archive caller goes on after a miss.
PreVerify(p) ==
  /\ pc[p] = "pre"
  /\ \E f \in Files :
       /\ Bind(p, f)
       /\ IF VerifySchema(f) = "nil" THEN Ready(p)
          ELSE IF archive THEN Go(p, "lock") /\ UNCHANGED <<lock, why>>
          ELSE Fail(p, VerifySchema(f))
  /\ UNCHANGED <<archive, aside, faults>>

PreFault(p) ==
  /\ pc[p] = "pre"
  /\ IF archive THEN Go(p, "lock") /\ UNCHANGED <<lock, why>> ELSE Fail(p, "fault")
  /\ Fault
  /\ UNCHANGED <<archive, at, aside, wal, content, db>>

-----------------------------------------------------------------------------
(* resetUnderLock. *)

AcquireLock(p) ==
  /\ pc[p] = "lock" /\ lock = NoProc
  /\ lock' = p
  /\ Go(p, "locked")
  /\ UNCHANGED <<archive, at, aside, wal, content, db, why, faults>>

\* Mutant of LockedVerify: the verdict of the lockless check is kept.
LockedTrust(p) ==
  /\ pc[p] = "locked"
  /\ Go(p, IF at = NoFile THEN "create" ELSE "rename")
  /\ UNCHANGED <<archive, at, aside, wal, content, lock, db, why, faults>>

\* Mutant of LockedVerify: a file without a schema is left to whoever made it.
LockedWait(p) ==
  /\ pc[p] = "locked"
  /\ \/ at = NoFile /\ Go(p, "create") /\ UNCHANGED <<wal, lock, db, why>>
     \/ /\ at # NoFile
        /\ db' = [db EXCEPT ![p] = at] /\ wal' = at
        /\ \/ content[at] = "exact" /\ Ready(p)
           \/ content[at] = "corrupt" /\ Fail(p, "error")
           \/ content[at] = "empty" /\ Go(p, "stat") /\ Unlock(p) /\ UNCHANGED why
           \/ content[at] = "drifted" /\ Go(p, "rename") /\ UNCHANGED <<lock, why>>
  /\ UNCHANGED <<archive, at, aside, content, faults>>

\* What is at the path is looked at again under the lock: only a schema that is
\* known to be another one sends the file aside.
LockedVerify(p) ==
  /\ pc[p] = "locked"
  /\ \/ at = NoFile /\ Go(p, "create") /\ UNCHANGED <<wal, lock, db, why>>
     \/ /\ at # NoFile
        /\ db' = [db EXCEPT ![p] = at] /\ wal' = at
        /\ \/ VerifySchema(at) = "nil" /\ Ready(p)
           \/ VerifySchema(at) = "error" /\ Fail(p, "error")
           \/ /\ VerifySchema(at) = "ErrUnsupportedSchema"
              /\ Go(p, "rename") /\ UNCHANGED <<lock, why>>
  /\ UNCHANGED <<archive, at, aside, content, faults>>

\* Mutant of Rename: the store is copied aside and stays.
RenameCopy(p) ==
  /\ pc[p] = "rename"
  /\ aside' = aside \cup {at}
  /\ Go(p, "sidecars")
  /\ UNCHANGED <<archive, at, wal, content, lock, db, why, faults>>

\* archiveUnsupportedStore: the database first, then its sidecars.
Rename(p) ==
  /\ pc[p] = "rename"
  /\ aside' = aside \cup {at}
  /\ at' = NoFile
  /\ Go(p, "sidecars")
  /\ UNCHANGED <<archive, wal, content, lock, db, why, faults>>

Sidecars(p) ==
  /\ pc[p] = "sidecars"
  /\ wal' = NoFile
  /\ Go(p, "create")
  /\ UNCHANGED <<archive, at, aside, content, lock, db, why, faults>>

-----------------------------------------------------------------------------
(* createStore. *)

Create(p) ==
  /\ pc[p] = "create"
  /\ \E f \in Files : Bind(p, f)
  /\ Go(p, "schema")
  /\ UNCHANGED <<archive, aside, lock, why, faults>>

\* createSchema: one transaction, which fails on a table that exists.
CreateSchema(p) ==
  /\ pc[p] = "schema"
  /\ \/ /\ content[db[p]] = "empty"
        /\ content' = [content EXCEPT ![db[p]] = "exact"]
        /\ Go(p, "check") /\ UNCHANGED <<lock, why>>
     \/ content[db[p]] # "empty" /\ Fail(p, "exists") /\ UNCHANGED content
  /\ UNCHANGED <<archive, at, aside, wal, db, faults>>

\* The last verification, and the chmod.
CheckCreated(p) ==
  /\ pc[p] = "check"
  /\ IF VerifySchema(db[p]) = "nil" THEN Ready(p) ELSE Fail(p, VerifySchema(db[p]))
  /\ UNCHANGED <<archive, at, aside, wal, content, db, faults>>

-----------------------------------------------------------------------------

\* A step of several fails: a lock that is not acquired in time, a locked or
\* unreadable database, a rename, a rolled back transaction, a chmod.
StepFault(p) ==
  /\ pc[p] \in {"lock"} \cup Locked \cup Creating
  /\ Fail(p, "fault")
  /\ Fault
  /\ UNCHANGED <<archive, at, aside, wal, content, db>>

\* The process dies at any point; its transaction is not committed.
Die(p) ==
  /\ pc[p] # "stat"
  /\ Go(p, "stat") /\ Unlock(p)
  /\ Fault
  /\ UNCHANGED <<archive, at, aside, wal, content, db, why>>

\* A process closes its store, or is started again after a failure.
Again(p) ==
  /\ pc[p] \in {"ready", "failed"}
  /\ Go(p, "stat")
  /\ UNCHANGED <<archive, at, aside, wal, content, lock, db, why, faults>>

\* While no process runs a build with another schema replaces this one, for which
\* what the old one created is drifted, or the file at the path is damaged.
Upgrade ==
  /\ \A p \in Procs : pc[p] = "stat"
  /\ at # NoFile /\ content[at] = "exact"
  /\ \E c \in {"drifted", "corrupt"} : content' = [content EXCEPT ![at] = c]
  /\ Fault
  /\ UNCHANGED <<archive, at, aside, wal, lock, pc, db, why>>

Init ==
  /\ archive \in BOOLEAN
  /\ at \in Files \cup {NoFile}
  /\ aside = {}
  /\ wal = at
  /\ \E c \in {"exact", "drifted", "corrupt"} : content = [f \in Files |-> IF f = at THEN c ELSE "none"]
  /\ lock = NoProc
  /\ pc = [p \in Procs |-> "stat"]
  /\ db = [p \in Procs |-> NoFile]
  /\ why = [p \in Procs |-> "none"]
  /\ faults = 0

Open(p) ==
  \/ Stat(p) \/ PreVerify(p) \/ AcquireLock(p) \/ LockedVerify(p) \/ Rename(p)
  \/ Sidecars(p) \/ Create(p) \/ CreateSchema(p) \/ CheckCreated(p)

Retry(p) == pc[p] = "failed" /\ Again(p)

Next ==
  \/ Upgrade
  \/ \E p \in Procs : Open(p) \/ PreFault(p) \/ StepFault(p) \/ Die(p) \/ Again(p)

Spec == Init /\ [][Next]_vars

\* An Open goes on to its end, and a daemon that could not open is started again.
FairSpec == Spec /\ \A p \in Procs : WF_vars(Open(p)) /\ WF_vars(Retry(p))

-----------------------------------------------------------------------------
(* Properties. *)

\* Every variable holds a value of its kind, and the file at the path is no backup.
TypeOK ==
  /\ archive \in BOOLEAN
  /\ at \in Files \cup {NoFile}
  /\ aside \subseteq Files \ {at} /\ wal \in Files \cup {NoFile}
  /\ content \in [Files -> {"none", "empty", "exact", "drifted", "corrupt"}]
  /\ lock \in Procs \cup {NoProc}
  /\ pc \in [Procs -> Steps]
  /\ db \in [Procs -> Files \cup {NoFile}]
  /\ why \in [Procs -> {"none", "ErrUnsupportedSchema", "error", "exists", "fault"}]
  /\ faults \in Nat

\* Every process that has the store open has the one at the path, with its own
\* schema and nobody else's sidecars beside it, however many of them archived and
\* created at the same time and wherever one died between the renames.
OneStore ==
  \A p \in Procs :
    pc[p] = "ready" =>
      /\ db[p] = at /\ at # NoFile /\ content[at] = "exact"
      /\ wal \in {at, NoFile}

\* A file renamed aside was not a store of this build, nor one that could not be
\* read, and nobody makes one of it afterwards: archiving is decided under the lock.
AsideIsUnusable == \A f \in aside : content[f] \notin {"exact", "corrupt"}

\* Under the archive policy an opener whose check raced another's archive rides
\* the fresh store: Open fails only for a fault, or for a file that cannot be read.
LosersRide ==
  archive =>
    \A p \in Procs :
      \/ why[p] \in {"none", "fault"}
      \/ why[p] = "error" /\ at # NoFile /\ content[at] = "corrupt"

\* A store that cannot be opened does not stay so: under the archive policy a
\* failed open succeeds later, whatever crash left behind, half-made files
\* included, unless the file at the path cannot be read, which is never archived;
\* under the fail policy unless the file at the path is refused.
Recovers ==
  \A p \in Procs :
    pc[p] = "failed" ~>
      \/ pc[p] = "ready"
      \/ at # NoFile /\ content[at] = "corrupt"
      \/ ~ archive /\ at # NoFile /\ content[at] # "exact"
=============================================================================
