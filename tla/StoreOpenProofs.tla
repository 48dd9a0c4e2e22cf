--------------------------- MODULE StoreOpenProofs ---------------------------
(***************************************************************************)
(* Proofs about StoreOpen, for any number of processes, files and faults.  *)
(*                                                                         *)
(* Inv adds to the type invariant where each Open stands: under the        *)
(* archive policy whoever looks at the path to change it holds the lock    *)
(* (LockHeld), so what it has established about the file at the path       *)
(* (PathState) is not disturbed by anyone else.                            *)
(***************************************************************************)
EXTENDS StoreOpen, TLAPS

\* Under the archive policy an opener between its lock and its return holds the
\* lock; under the fail policy nobody is in resetUnderLock.
LockHeld ==
  \A p \in Procs :
    /\ archive /\ pc[p] \in Locked \cup Creating => lock = p
    /\ ~ archive => pc[p] \notin {"lock"} \cup Locked

\* The file at the path exists, with no other's sidecars; a backup is a file without
\* this build's schema.
Existing ==
  /\ at # NoFile => content[at] # "none" /\ wal \in {at, NoFile}
  /\ \A f \in aside : content[f] \in {"empty", "drifted"}

\* What an opener knows of the file at the path, place by place.
PathState ==
  \A p \in Procs :
    /\ pc[p] = "rename" => at # NoFile /\ content[at] \in {"empty", "drifted"}
    /\ pc[p] = "sidecars" => at = NoFile \/ content[at] = "empty"
    /\ archive /\ pc[p] = "create" => at = NoFile \/ content[at] = "empty"
    /\ archive /\ pc[p] = "schema" => content[at] = "empty"
    /\ pc[p] \in {"schema", "check"} => db[p] = at /\ at # NoFile
    /\ pc[p] = "check" => content[at] = "exact"

\* The inductive invariant.
Inv == TypeOK /\ LockHeld /\ Existing /\ PathState /\ OneStore /\ LosersRide

\* A path with a store of this build, of another one, a corrupt one, or with none.
LEMMA InvInit == Init => Inv
  <1> SUFFICES ASSUME Init PROVE Inv
    OBVIOUS
  <1>1. TypeOK
    BY StoreOpenAssumption DEF Init, TypeOK, Steps
  <1>2. LockHeld /\ Existing /\ PathState /\ OneStore /\ LosersRide
    BY StoreOpenAssumption DEF Init, LockHeld, Existing, PathState, OneStore, LosersRide,
       Locked, Creating
  <1> QED
    BY <1>1, <1>2 DEF Inv

\* The stat of the path decides nothing that has to stay true.
LEMMA InvStat == ASSUME Inv, NEW p \in Procs, Stat(p) PROVE Inv'
  <1> USE StoreOpenAssumption DEF Locked, Creating
  <1>1. TypeOK'
    BY DEF Inv, TypeOK, Stat, Go, Steps
  <1>2. LockHeld'
    BY DEF Inv, TypeOK, LockHeld, Stat, Go
  <1>3. Existing' /\ PathState'
    BY DEF Inv, TypeOK, Existing, PathState, Stat, Go
  <1>4. OneStore' /\ LosersRide'
    BY DEF Inv, TypeOK, OneStore, LosersRide, Stat, Go
  <1> QED
    BY <1>1, <1>2, <1>3, <1>4 DEF Inv

\* The lockless check may create an empty file where another opener has just
\* renamed one away; the holder of the lock finds it empty.
LEMMA InvPreVerify == ASSUME Inv, NEW p \in Procs, PreVerify(p) PROVE Inv'
  <1> USE StoreOpenAssumption DEF Locked, Creating
  <1>1. TypeOK'
    BY DEF Inv, TypeOK, Steps, Existing, PreVerify, Bind, Go, Ready, Fail, Unlock,
       VerifySchema, Fingerprint
  <1>2. LockHeld'
    BY DEF Inv, TypeOK, LockHeld, PreVerify, Bind, Go, Ready, Fail, Unlock,
       VerifySchema, Fingerprint
  <1>3. Existing' /\ PathState'
    BY DEF Inv, TypeOK, LockHeld, Existing, PathState, OneStore, PreVerify, Bind,
       Go, Ready, Fail, Unlock, VerifySchema, Fingerprint
  <1>4. OneStore'
    BY DEF Inv, TypeOK, LockHeld, Existing, PathState, OneStore, PreVerify, Bind,
       Go, Ready, Fail, Unlock, VerifySchema, Fingerprint
  <1>5. LosersRide'
    BY DEF Inv, TypeOK, PathState, LosersRide, PreVerify, Bind, Go, Ready, Fail,
       Unlock, VerifySchema, Fingerprint
  <1> QED
    BY <1>1, <1>2, <1>3, <1>4, <1>5 DEF Inv

\* A failed lockless check sends an archive caller to the lock.
LEMMA InvPreFault == ASSUME Inv, NEW p \in Procs, PreFault(p) PROVE Inv'
  <1> USE StoreOpenAssumption DEF Locked, Creating
  <1>1. TypeOK'
    BY DEF Inv, TypeOK, Steps, LockHeld, PathState, PreFault, Go, Fail, Unlock, Fault
  <1>2. LockHeld'
    BY DEF Inv, TypeOK, LockHeld, PreFault, Go, Fail, Unlock, Fault
  <1>3. Existing' /\ PathState'
    BY DEF Inv, TypeOK, LockHeld, Existing, PathState, OneStore, PreFault, Go, Fail,
       Unlock, Fault
  <1>4. OneStore'
    BY DEF Inv, TypeOK, LockHeld, Existing, PathState, OneStore, PreFault, Go, Fail,
       Unlock, Fault
  <1>5. LosersRide'
    BY DEF Inv, TypeOK, PathState, LosersRide, PreFault, Go, Fail, Unlock, Fault
  <1> QED
    BY <1>1, <1>2, <1>3, <1>4, <1>5 DEF Inv

\* The lock is taken by one.
LEMMA InvAcquireLock == ASSUME Inv, NEW p \in Procs, AcquireLock(p) PROVE Inv'
  <1> USE StoreOpenAssumption DEF Locked, Creating
  <1>1. TypeOK'
    BY DEF Inv, TypeOK, Steps, LockHeld, PathState, AcquireLock, Go
  <1>2. LockHeld'
    BY DEF Inv, TypeOK, LockHeld, AcquireLock, Go
  <1>3. Existing' /\ PathState'
    BY DEF Inv, TypeOK, LockHeld, Existing, PathState, OneStore, AcquireLock, Go
  <1>4. OneStore'
    BY DEF Inv, TypeOK, LockHeld, Existing, PathState, OneStore, AcquireLock, Go
  <1>5. LosersRide'
    BY DEF Inv, TypeOK, PathState, LosersRide, AcquireLock, Go
  <1> QED
    BY <1>1, <1>2, <1>3, <1>4, <1>5 DEF Inv

\* The verdict under the lock: this build's store, one to rename or one to leave.
LEMMA InvLockedVerify == ASSUME Inv, NEW p \in Procs, LockedVerify(p) PROVE Inv'
  <1> USE StoreOpenAssumption DEF Locked, Creating
  <1>1. TypeOK'
    BY DEF Inv, TypeOK, Steps, LockHeld, PathState, LockedVerify, Go, Ready, Fail, Unlock,
       VerifySchema, Fingerprint
  <1>2. LockHeld'
    BY DEF Inv, TypeOK, LockHeld, LockedVerify, Go, Ready, Fail, Unlock, VerifySchema,
       Fingerprint
  <1>3. Existing' /\ PathState'
    BY DEF Inv, TypeOK, LockHeld, Existing, PathState, OneStore, LockedVerify, Go,
       Ready, Fail, Unlock, VerifySchema, Fingerprint
  <1>4. OneStore'
    BY DEF Inv, TypeOK, LockHeld, Existing, PathState, OneStore, LockedVerify, Go,
       Ready, Fail, Unlock, VerifySchema, Fingerprint
  <1>5. LosersRide'
    BY DEF Inv, TypeOK, PathState, LosersRide, LockedVerify, Go, Ready, Fail, Unlock,
       VerifySchema, Fingerprint
  <1> QED
    BY <1>1, <1>2, <1>3, <1>4, <1>5 DEF Inv

\* No opener has the renamed file open: it is not of this build.
LEMMA InvRename == ASSUME Inv, NEW p \in Procs, Rename(p) PROVE Inv'
  <1> USE StoreOpenAssumption DEF Locked, Creating
  <1>1. TypeOK'
    BY DEF Inv, TypeOK, Steps, LockHeld, PathState, Rename, Go
  <1>2. LockHeld'
    BY DEF Inv, TypeOK, LockHeld, Rename, Go
  <1>3. Existing' /\ PathState'
    BY DEF Inv, TypeOK, LockHeld, Existing, PathState, OneStore, Rename, Go
  <1>4. OneStore'
    BY DEF Inv, TypeOK, LockHeld, Existing, PathState, OneStore, Rename, Go
  <1>5. LosersRide'
    BY DEF Inv, TypeOK, PathState, LosersRide, Rename, Go
  <1> QED
    BY <1>1, <1>2, <1>3, <1>4, <1>5 DEF Inv

\* The path is empty, or has a file without a schema.
LEMMA InvSidecars == ASSUME Inv, NEW p \in Procs, Sidecars(p) PROVE Inv'
  <1> USE StoreOpenAssumption DEF Locked, Creating
  <1>1. TypeOK'
    BY DEF Inv, TypeOK, Steps, LockHeld, PathState, Sidecars, Go
  <1>2. LockHeld'
    BY DEF Inv, TypeOK, LockHeld, Sidecars, Go
  <1>3. Existing' /\ PathState'
    BY DEF Inv, TypeOK, LockHeld, Existing, PathState, OneStore, Sidecars, Go
  <1>4. OneStore'
    BY DEF Inv, TypeOK, LockHeld, Existing, PathState, OneStore, Sidecars, Go
  <1>5. LosersRide'
    BY DEF Inv, TypeOK, PathState, LosersRide, Sidecars, Go
  <1> QED
    BY <1>1, <1>2, <1>3, <1>4, <1>5 DEF Inv

\* The connection is bound to the file at the path.
LEMMA InvCreate == ASSUME Inv, NEW p \in Procs, Create(p) PROVE Inv'
  <1> USE StoreOpenAssumption DEF Locked, Creating
  <1>1. TypeOK'
    BY DEF Inv, TypeOK, Steps, LockHeld, Existing, PathState, Create, Bind, Go
  <1>2. LockHeld'
    BY DEF Inv, TypeOK, LockHeld, Create, Bind, Go
  <1>3. Existing' /\ PathState'
    BY DEF Inv, TypeOK, LockHeld, Existing, PathState, OneStore, Create, Bind, Go
  <1>4. OneStore'
    BY DEF Inv, TypeOK, LockHeld, Existing, PathState, OneStore, Create, Bind, Go
  <1>5. LosersRide'
    BY DEF Inv, TypeOK, PathState, LosersRide, Create, Bind, Go
  <1> QED
    BY <1>1, <1>2, <1>3, <1>4, <1>5 DEF Inv

\* Under the lock the transaction cannot find a table.
LEMMA InvCreateSchema == ASSUME Inv, NEW p \in Procs, CreateSchema(p) PROVE Inv'
  <1> USE StoreOpenAssumption DEF Locked, Creating
  <1>1. TypeOK'
    BY DEF Inv, TypeOK, Steps, LockHeld, PathState, CreateSchema, Go, Fail, Unlock
  <1>2. LockHeld'
    BY DEF Inv, TypeOK, LockHeld, CreateSchema, Go, Fail, Unlock
  <1>3. Existing' /\ PathState'
    BY DEF Inv, TypeOK, LockHeld, Existing, PathState, OneStore, CreateSchema, Go,
       Fail, Unlock
  <1>4. OneStore'
    BY DEF Inv, TypeOK, LockHeld, Existing, PathState, OneStore, CreateSchema, Go,
       Fail, Unlock
  <1>5. LosersRide'
    BY DEF Inv, TypeOK, PathState, LosersRide, CreateSchema, Go, Fail, Unlock
  <1> QED
    BY <1>1, <1>2, <1>3, <1>4, <1>5 DEF Inv

\* What was created is what the last verification finds.
LEMMA InvCheckCreated == ASSUME Inv, NEW p \in Procs, CheckCreated(p) PROVE Inv'
  <1> USE StoreOpenAssumption DEF Locked, Creating
  <1>1. TypeOK'
    BY DEF Inv, TypeOK, Steps, LockHeld, PathState, CheckCreated, Go, Ready, Fail,
       Unlock, VerifySchema, Fingerprint
  <1>2. LockHeld'
    BY DEF Inv, TypeOK, LockHeld, CheckCreated, Go, Ready, Fail, Unlock,
       VerifySchema, Fingerprint
  <1>3. Existing' /\ PathState'
    BY DEF Inv, TypeOK, LockHeld, Existing, PathState, OneStore, CheckCreated, Go,
       Ready, Fail, Unlock, VerifySchema, Fingerprint
  <1>4. OneStore'
    BY DEF Inv, TypeOK, LockHeld, Existing, PathState, OneStore, CheckCreated, Go,
       Ready, Fail, Unlock, VerifySchema, Fingerprint
  <1>5. LosersRide'
    BY DEF Inv, TypeOK, PathState, LosersRide, CheckCreated, Go, Ready, Fail,
       Unlock, VerifySchema, Fingerprint
  <1> QED
    BY <1>1, <1>2, <1>3, <1>4, <1>5 DEF Inv

\* A step that fails gives the lock back.
LEMMA InvStepFault == ASSUME Inv, NEW p \in Procs, StepFault(p) PROVE Inv'
  <1> USE StoreOpenAssumption DEF Locked, Creating
  <1>1. TypeOK'
    BY DEF Inv, TypeOK, Steps, LockHeld, PathState, StepFault, Go, Fail, Unlock, Fault
  <1>2. LockHeld'
    BY DEF Inv, TypeOK, LockHeld, StepFault, Go, Fail, Unlock, Fault
  <1>3. Existing' /\ PathState'
    BY DEF Inv, TypeOK, LockHeld, Existing, PathState, OneStore, StepFault, Go,
       Fail, Unlock, Fault
  <1>4. OneStore'
    BY DEF Inv, TypeOK, LockHeld, Existing, PathState, OneStore, StepFault, Go,
       Fail, Unlock, Fault
  <1>5. LosersRide'
    BY DEF Inv, TypeOK, PathState, LosersRide, StepFault, Go, Fail, Unlock, Fault
  <1> QED
    BY <1>1, <1>2, <1>3, <1>4, <1>5 DEF Inv

\* A process that dies gives the lock back.
LEMMA InvDie == ASSUME Inv, NEW p \in Procs, Die(p) PROVE Inv'
  <1> USE StoreOpenAssumption DEF Locked, Creating
  <1>1. TypeOK'
    BY DEF Inv, TypeOK, Steps, LockHeld, PathState, Die, Go, Unlock, Fault
  <1>2. LockHeld'
    BY DEF Inv, TypeOK, LockHeld, Die, Go, Unlock, Fault
  <1>3. Existing' /\ PathState'
    BY DEF Inv, TypeOK, LockHeld, Existing, PathState, OneStore, Die, Go, Unlock, Fault
  <1>4. OneStore'
    BY DEF Inv, TypeOK, LockHeld, Existing, PathState, OneStore, Die, Go, Unlock, Fault
  <1>5. LosersRide'
    BY DEF Inv, TypeOK, PathState, LosersRide, Die, Go, Unlock, Fault
  <1> QED
    BY <1>1, <1>2, <1>3, <1>4, <1>5 DEF Inv

\* A new Open starts from the stat.
LEMMA InvAgain == ASSUME Inv, NEW p \in Procs, Again(p) PROVE Inv'
  <1> USE StoreOpenAssumption DEF Locked, Creating
  <1>1. TypeOK'
    BY DEF Inv, TypeOK, Steps, LockHeld, PathState, Again, Go
  <1>2. LockHeld'
    BY DEF Inv, TypeOK, LockHeld, Again, Go
  <1>3. Existing' /\ PathState'
    BY DEF Inv, TypeOK, LockHeld, Existing, PathState, OneStore, Again, Go
  <1>4. OneStore'
    BY DEF Inv, TypeOK, LockHeld, Existing, PathState, OneStore, Again, Go
  <1>5. LosersRide'
    BY DEF Inv, TypeOK, PathState, LosersRide, Again, Go
  <1> QED
    BY <1>1, <1>2, <1>3, <1>4, <1>5 DEF Inv

\* Nobody runs while the build is replaced or the file damaged.
LEMMA InvUpgrade == ASSUME Inv, Upgrade PROVE Inv'
  <1> USE StoreOpenAssumption DEF Locked, Creating
  <1>1. TypeOK'
    BY DEF Inv, TypeOK, Steps, Upgrade, Fault
  <1>2. LockHeld' /\ Existing' /\ PathState' /\ OneStore' /\ LosersRide'
    BY DEF Inv, TypeOK, LockHeld, Existing, PathState, OneStore, LosersRide, Upgrade
  <1> QED
    BY <1>1, <1>2 DEF Inv

\* Inv is inductive.
LEMMA InvNext == Inv /\ [Next]_vars => Inv'
  <1> SUFFICES ASSUME Inv, [Next]_vars PROVE Inv'
    OBVIOUS
  <1>1. CASE Upgrade
    BY <1>1, InvUpgrade
  <1>2. ASSUME NEW p \in Procs, Open(p) PROVE Inv'
    BY <1>2, InvStat, InvPreVerify, InvAcquireLock, InvLockedVerify, InvRename, InvSidecars,
       InvCreate, InvCreateSchema, InvCheckCreated DEF Open
  <1>3. ASSUME NEW p \in Procs, PreFault(p) \/ StepFault(p) \/ Die(p) \/ Again(p) PROVE Inv'
    BY <1>3, InvPreFault, InvStepFault, InvDie, InvAgain
  <1>4. CASE UNCHANGED vars
    BY <1>4 DEF vars, Inv, TypeOK, LockHeld, Existing, PathState, OneStore, LosersRide
  <1> QED
    BY <1>1, <1>2, <1>3, <1>4 DEF Next

\* Inv holds in every reachable state.
THEOREM StoreOpenInv == Spec => []Inv
  <1>1. Inv /\ [][Next]_vars => []Inv
    BY InvNext, PTL
  <1> QED
    BY InvInit, <1>1, PTL DEF Spec

\* Every variable of the store's opening keeps its type, and the file at the path
\* is never also a backup.
THEOREM StoreOpenTypeOK == Spec => []TypeOK
  BY StoreOpenInv, PTL DEF Inv

\* However many processes open, archive and create at once and wherever they die,
\* all that have the store open have the one at the path, with this build's schema
\* (Open, resetUnderLock, createStore).
THEOREM OpenersShareOneStore == Spec => []OneStore
  BY StoreOpenInv, PTL DEF Inv

\* Archiving never takes a usable store away, nor one that cannot be read, and nobody
\* turns a backup into one (resetUnderLock, archiveUnsupportedStore).
THEOREM BackupsAreUnusable == Spec => []AsideIsUnusable
  <1>1. Inv => AsideIsUnusable
    BY DEF Inv, Existing, AsideIsUnusable
  <1> QED
    BY <1>1, StoreOpenInv, PTL

\* Under the archive policy an Open that lost every race still succeeds: it fails
\* only when a system call does, or on a file that cannot be read (resetUnderLock).
THEOREM LosersNeverFail == Spec => []LosersRide
  BY StoreOpenInv, PTL DEF Inv

\* A step leaves a store of this build at the path, as it is, unless another build
\* takes its place or the file is damaged from outside.
StoreKept ==
  [][at # NoFile /\ content[at] = "exact" /\ ~ Upgrade
       => at' = at /\ content'[at] = "exact"]_vars

\* No race of openers, no fault and no death replaces a usable store (Open,
\* archiveUnsupportedStore).
THEOREM UsableStoreStays == Spec => StoreKept
  <1>1. Inv /\ [Next]_vars => [at # NoFile /\ content[at] = "exact" /\ ~ Upgrade
                                => at' = at /\ content'[at] = "exact"]_vars
    <2> SUFFICES ASSUME Inv, Next, at # NoFile, content[at] = "exact", ~ Upgrade
                 PROVE  at' = at /\ content'[at] = "exact"
      OBVIOUS
    <2>1. PICK p \in Procs : Open(p) \/ PreFault(p) \/ StepFault(p) \/ Die(p) \/ Again(p)
      BY DEF Next
    <2>2. CASE PreVerify(p) \/ Create(p)
      BY <2>2 DEF PreVerify, Create, Bind
    <2>3. CASE CreateSchema(p)
      BY <2>3 DEF Inv, TypeOK, PathState, CreateSchema
    <2>4. CASE Rename(p)
      BY <2>4 DEF Inv, PathState, Rename
    <2> QED
      BY <2>1, <2>2, <2>3, <2>4 DEF Open, Stat, AcquireLock, LockedVerify, Sidecars,
         CheckCreated, PreFault, StepFault, Die, Again
  <1> QED
    BY <1>1, StoreOpenInv, PTL DEF Spec, StoreKept
=============================================================================
