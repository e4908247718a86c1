------------------------- MODULE IndexPublicationProofs -------------------------
(***************************************************************************)
(* Theorems about IndexPublication, for any number of publications and of  *)
(* faults of any kind.                                                     *)
(***************************************************************************)
EXTENDS IndexPublicationInvariant, TLAPS

-----------------------------------------------------------------------------
(* The six files and their order. *)

LEMMA NamesAre == Names = {"index", "lookup", "files", "extra", "evidence", "meta"}
  BY DEF Names, PublishRank

LEMMA RequiredNames == Core \subseteq Names /\ Required \subseteq Names
  BY NamesAre DEF Core, Required

\* The meta is the last file to be published, and the first to be removed.
LEMMA MetaIsLast ==
  ASSUME NEW m \in Names, PublishRank["meta"] <= PublishRank[m]
  PROVE  m = "meta"
  BY NamesAre DEF PublishRank

\* Once the meta's backup is the last one left, no core file waits in one.
LEMMA MetaIsRestoredLate ==
  ASSUME NEW m \in Names, BackupRank[m] <= BackupRank["meta"]
  PROVE  m \notin Core
  BY NamesAre DEF BackupRank, Core

-----------------------------------------------------------------------------
(* Types. *)

LEMMA RenameType ==
  ASSUME NEW dir \in Directory, NEW n \in Names, NEW file \in File
  PROVE  /\ Rename(dir, n, file) \in Directory
         /\ [dir EXCEPT ![n] = file] \in Directory
  BY DEF Rename, Directory

LEMMA SaveType ==
  ASSUME NEW dirs \in [Backups -> Directory], NEW i \in Int,
         NEW n \in Names, NEW file \in File
  PROVE  [dirs EXCEPT ![i][n] = file] \in [Backups -> Directory]
<1>1. CASE i \in Backups
  <2>1. [dirs[i] EXCEPT ![n] = file] \in Directory
    BY <1>1, RenameType
  <2> QED
    BY <1>1, <2>1
<1>2. CASE i \notin Backups
  BY <1>2
<1> QED
  BY <1>1, <1>2

LEMMA AbsentIsFile == Absent \in File
  BY DEF File

LEMMA FileOf ==
  ASSUME NEW dir \in Directory, NEW n \in Names
  PROVE  dir[n] \in File
  BY DEF Directory

LEMMA AttemptIsFile ==
  ASSUME NEW m \in 0..MaxPublications
  PROVE  m \in File /\ m \in Int
  BY DEF File, Builds

LEMMA FaultType ==
  ASSUME NEW kind, faults \in 0..MaxFaults, Fault(kind)
  PROVE  faults' \in 0..MaxFaults
  BY BoundsAssumption DEF Fault

LEMMA EmptyType == Empty \in Directory
  BY AbsentIsFile DEF Empty, Directory

\* An index some server or builder left is a directory.
LEMMA InitType == Init => TypeOK
<1> SUFFICES ASSUME Init PROVE TypeOK
  OBVIOUS
<1>1. 0 \in Builds
  BY BoundsAssumption DEF Builds
<1>2. target \in Directory
  <2>1. PICK S \in SUBSET Names : target = [n \in Names |-> IF n \in S THEN 0 ELSE Absent]
    BY DEF Init
  <2> QED
    BY <1>1, <2>1 DEF Directory, File
<1>3. Empty \in Directory
  BY DEF Empty, Directory, File
<1>4. attempt \in 0..MaxPublications /\ faults \in 0..MaxFaults
  BY BoundsAssumption DEF Init
<1>5. saved \in [Backups -> Directory] /\ original \in [Backups -> SUBSET Names]
  BY <1>3 DEF Init
<1> QED
  BY <1>2, <1>3, <1>4, <1>5 DEF Init, TypeOK, Phases

\* The sidecar written outside the journal is of one type with its build.
LEMMA SidecarType ==
  ASSUME TypeOK, PersistFilenames
  PROVE  TypeOK'
<1>1. target["files"] \in File /\ "extra" \in Names
  BY NamesAre, FileOf DEF TypeOK
<1>2. target' \in Directory /\ committed' \in Directory /\ stray' \subseteq Names
  BY <1>1, RenameType DEF TypeOK, PersistFilenames
<1> QED
  BY <1>2 DEF TypeOK, PersistFilenames, memory

\* The sidecar is written while nothing is pending, and nothing else moves.
LEMMA SidecarOnly ==
  ASSUME TypeOK, PersistFilenames
  PROVE  /\ phase = "idle" /\ ~blocked
         /\ OnePending => Pending = {} /\ Pending' = {}
         /\ \A n \in Names \ {"extra"} :
                target'[n] = target[n] /\ committed'[n] = committed[n]
         /\ target'["extra"] = committed'["extra"]
         /\ stray' = stray \ {"extra"}
         /\ UNCHANGED <<saved, recorded, original, marked, phase, staged,
                        backedUp, published, todo, failed, blocked, reader,
                        repairing, attempt, faults>>
         /\ Names \ {"extra"} = {"index", "lookup", "files", "evidence", "meta"}
<1>1. OnePending => Pending = {} /\ Pending' = {}
  BY DEF OnePending, PersistFilenames, Pending
<1>2. /\ target' = [target EXCEPT !["extra"] = target["files"]]
      /\ committed' = [committed EXCEPT !["extra"] = target["files"]]
      /\ target \in Directory /\ committed \in Directory
  BY DEF PersistFilenames, Rename, TypeOK
<1>3. Names \ {"extra"} = {"index", "lookup", "files", "evidence", "meta"}
      /\ "extra" \in Names
  BY NamesAre
<1>4. /\ \A n \in Names \ {"extra"} :
            target'[n] = target[n] /\ committed'[n] = committed[n]
      /\ target'["extra"] = committed'["extra"]
  BY <1>2, <1>3 DEF Directory
<1> QED
  BY <1>1, <1>3, <1>4 DEF PersistFilenames, memory

\* Every step keeps the types.
LEMMA TypeStep ==
  ASSUME TypeOK, BackupsAreFresh, [Next]_vars
  PROVE  TypeOK'
<1>1. ASSUME NEW S \in SUBSET Names, Begin(S) PROVE TypeOK'
  <2>1. attempt' \in 0..MaxPublications
    BY <1>1, BoundsAssumption DEF TypeOK, Begin
  <2> QED
    BY <1>1, <2>1 DEF TypeOK, Phases, Begin, disk, memory, observers
<1>2. ASSUME FailCreate PROVE TypeOK'
  <2>1. faults' \in 0..MaxFaults
    BY <1>2, FaultType DEF TypeOK, FailCreate
  <2> QED
    BY <1>2, <2>1 DEF TypeOK, Phases, FailCreate, disk, memory, observers
<1>3. ASSUME RecordOriginals PROVE TypeOK'
  <2>1. attempt \in Backups
    BY <1>3 DEF BackupsAreFresh, Active, RecordOriginals
  <2>2. Present(target) \in SUBSET Names
    BY DEF Present
  <2>3. recorded' \subseteq Backups /\ original' \in [Backups -> SUBSET Names]
    BY <1>3, <2>1, <2>2 DEF TypeOK, RecordOriginals
  <2>4. phase' \in Phases
    BY <1>3 DEF RecordOriginals, Phases
  <2>5. UNCHANGED <<target, saved, marked, staged, backedUp, published, todo,
                    failed, blocked, reader, observers, attempt, faults>>
    BY <1>3 DEF RecordOriginals
  <2> QED
    BY <2>3, <2>4, <2>5 DEF TypeOK, observers
<1>4. ASSUME FailMove PROVE TypeOK'
  <2>1. faults' \in 0..MaxFaults
    BY <1>4, FaultType DEF TypeOK, FailMove
  <2> QED
    BY <1>4, <2>1 DEF TypeOK, Phases, FailMove, BeginRollback, disk, memory, observers
<1>5. ASSUME NEW n \in Names, Withdraw(n) PROVE TypeOK'
  BY <1>5, RenameType, FileOf, AbsentIsFile, AttemptIsFile
  DEF TypeOK, Phases, Withdraw, BackUp, Save, disk, memory, observers
<1>6. ASSUME NEW n \in Names, BackUpCore(n) PROVE TypeOK'
  BY <1>6, RenameType, FileOf, AbsentIsFile, AttemptIsFile
  DEF TypeOK, Phases, BackUpCore, BackUp, Save, disk, memory, observers
<1>7. ASSUME NEW n \in Names, PublishFile(n) PROVE TypeOK'
  BY <1>7, RenameType, FileOf, AbsentIsFile, AttemptIsFile
  DEF TypeOK, Phases, PublishFile, disk, memory, observers
<1>8. ASSUME NEW n \in Names, FailSync(n) PROVE TypeOK'
  <2>1. faults' \in 0..MaxFaults
    BY <1>8, FaultType DEF TypeOK, FailSync
  <2> QED
    BY <1>8, <2>1, RenameType, AttemptIsFile DEF TypeOK, Phases, FailSync, disk, memory, observers
<1>9. ASSUME FailCommit PROVE TypeOK'
  <2>1. faults' \in 0..MaxFaults
    BY <1>9, FaultType DEF TypeOK, FailCommit
  <2> QED
    BY <1>9, <2>1 DEF TypeOK, Phases, FailCommit, BeginRollback, disk, memory, observers
<1>10. ASSUME Commit PROVE TypeOK'
  <2>1. attempt \in Backups
    BY <1>10 DEF BackupsAreFresh, Active, Commit
  <2> QED
    BY <1>10, <2>1 DEF TypeOK, Phases, Commit, Present
<1>11. ASSUME NEW n \in Names, RemovePublished(n) PROVE TypeOK'
  BY <1>11, RenameType, FileOf, AbsentIsFile, AttemptIsFile
  DEF TypeOK, Phases, RemovePublished, disk, memory, observers
<1>12. ASSUME NEW n \in Names, FailRemove(n) PROVE TypeOK'
  <2>1. faults' \in 0..MaxFaults
    BY <1>12, FaultType DEF TypeOK, FailRemove
  <2> QED
    BY <1>12, <2>1 DEF TypeOK, Phases, FailRemove, disk, memory, observers
<1>13. ASSUME NEW n \in Names, RestoreBackup(n) PROVE TypeOK'
  <2>1. attempt \in Backups /\ attempt \in Int
    BY <1>13 DEF BackupsAreFresh, Active, RestoreBackup, Backups
  <2>2. saved[attempt][n] \in File
    BY <2>1, FileOf DEF TypeOK
  <2>3. target' \in Directory /\ saved' \in [Backups -> Directory]
    BY <1>13, <2>1, <2>2, RenameType, SaveType, AbsentIsFile DEF TypeOK, RestoreBackup
  <2>4. todo' \subseteq Names /\ backedUp' \subseteq Names
    BY <1>13 DEF TypeOK, RestoreBackup
  <2>5. UNCHANGED <<recorded, original, marked, phase, staged, published, failed,
                    blocked, reader, observers, attempt, faults>>
    BY <1>13 DEF RestoreBackup
  <2> QED
    BY <2>3, <2>4, <2>5 DEF TypeOK, observers
<1>14. ASSUME NEW n \in Names, FailRestore(n) PROVE TypeOK'
  <2>1. faults' \in 0..MaxFaults
    BY <1>14, FaultType DEF TypeOK, FailRestore
  <2> QED
    BY <1>14, <2>1 DEF TypeOK, Phases, FailRestore, disk, memory, observers
<1>15. ASSUME Preserve PROVE TypeOK'
  <2>1. faults' \in 0..MaxFaults
    BY <1>15, FaultType DEF TypeOK, Preserve
  <2> QED
    BY <1>15, <2>1 DEF TypeOK, Phases, Preserve, disk, memory, observers
<1>16. ASSUME FailRecovery PROVE TypeOK'
  <2>1. faults' \in 0..MaxFaults
    BY <1>16, FaultType DEF TypeOK, FailRecovery
  <2> QED
    BY <1>16, <2>1, EmptyType DEF TypeOK, Phases, FailRecovery, GoDown, disk, memory, observers
<1>17. ASSUME NEW i \in Backups, NEW n \in Names, RecoverRemove(i, n) PROVE TypeOK'
  BY <1>17, RenameType, FileOf, AbsentIsFile, AttemptIsFile
  DEF TypeOK, Phases, RecoverRemove, Recovering, disk, memory, observers
<1>18. ASSUME NEW i \in Backups, NEW n \in Names, RecoverRestore(i, n) PROVE TypeOK'
  BY <1>18, RenameType, FileOf, AbsentIsFile, AttemptIsFile
  DEF TypeOK, Phases, RecoverRestore, Recovering, disk, memory, observers
<1>19. ASSUME NEW i \in Backups, NEW n \in Names, ReclaimFile(i, n) PROVE TypeOK'
  BY <1>19, RenameType, FileOf, AbsentIsFile, AttemptIsFile
  DEF TypeOK, Phases, ReclaimFile, disk, memory, observers
<1>20. ASSUME Stop PROVE TypeOK'
  BY <1>20, EmptyType
  DEF TypeOK, Phases, Stop, GoDown, disk, memory, observers
<1>21. ASSUME Kill PROVE TypeOK'
  <2>1. faults' \in 0..MaxFaults
    BY <1>21, FaultType DEF TypeOK, Kill
  <2> QED
    BY <1>21, <2>1, EmptyType DEF TypeOK, Phases, Kill, GoDown, disk, memory, observers
<1>22. CASE
        \/ StartMoving \/ FinishMoving \/ RejectReader \/ SwapReader
        \/ StartRestoring \/ FinishRollback \/ Start \/ StartRecovery
  BY <1>22, RenameType, FileOf, AbsentIsFile, AttemptIsFile
  DEF TypeOK, Phases, StartMoving, FinishMoving, RejectReader, BeginRollback,
      SwapReader, StartRestoring, FinishRollback, Start, StartRecovery, disk,
      memory, observers
<1>23. ASSUME NEW n \in Names, KeepBackup(n) PROVE TypeOK'
  BY <1>23, RenameType, FileOf, AbsentIsFile, AttemptIsFile
  DEF TypeOK, Phases, KeepBackup, disk, memory, observers
<1>24. ASSUME NEW i \in Backups,
        \/ FinishRecovery(i) \/ ReclaimRecord(i) \/ ReclaimMarker(i)
      PROVE TypeOK'
  BY <1>24, RenameType, FileOf, AbsentIsFile, AttemptIsFile
  DEF TypeOK, Phases, FinishRecovery, ReclaimRecord, ReclaimMarker, disk,
      memory, observers
<1>25. ASSUME NEW i \in Backups, NEW n \in Names, RecoverKeep(i, n) PROVE TypeOK'
  BY <1>25, RenameType, FileOf, AbsentIsFile, AttemptIsFile
  DEF TypeOK, Phases, RecoverKeep, Recovering, disk, memory, observers
<1>26. CASE UNCHANGED vars
  BY <1>26, RenameType, FileOf, AbsentIsFile, AttemptIsFile
  DEF TypeOK, Phases, vars, disk, memory, observers
<1>27. CASE PersistFilenames
  BY <1>27, SidecarType
<1> QED
  BY <1>1, <1>2, <1>3, <1>4, <1>5, <1>6, <1>7, <1>8, <1>9, <1>10, <1>11,
     <1>12, <1>13, <1>14, <1>15, <1>16, <1>17, <1>18, <1>19, <1>20, <1>21,
     <1>22, <1>23, <1>24, <1>25, <1>26, <1>27
  DEF Next, Publish, Rollback, Recover, Reclaim

-----------------------------------------------------------------------------
(* Which publication is pending. *)

\* A backup not come to yet stays untouched: attempts are never reused.
LEMMA BackupsAreFreshStep ==
  ASSUME TypeOK, BackupsAreFresh, [Next]_vars
  PROVE  BackupsAreFresh'
<1>1. ASSUME NEW S \in SUBSET Names, Begin(S) PROVE BackupsAreFresh'
  <2>1. attempt \in Nat /\ attempt' = attempt + 1 /\ attempt' \in Backups
    BY <1>1, BoundsAssumption DEF TypeOK, Begin, Backups
  <2>2. ASSUME NEW i \in Backups, attempt' <= i PROVE attempt < i
    BY <2>1, <2>2 DEF Backups
  <2>3. ASSUME NEW i \in Backups, attempt' < i \/ i = attempt' PROVE attempt' <= i
    BY <2>1, <2>3 DEF Backups
  <2>4. UNCHANGED <<saved, recorded, marked>>
    BY <1>1 DEF Begin, disk
  <2> QED
    BY <2>1, <2>2, <2>3, <2>4, Zenon DEF BackupsAreFresh
<1>2. ASSUME RecordOriginals PROVE BackupsAreFresh'
  BY <1>2
  DEF BackupsAreFresh, Active, Pending, TypeOK, Backups, RecordOriginals,
      disk, memory, observers
<1>3. ASSUME NEW n \in Names, Withdraw(n) PROVE BackupsAreFresh'
  BY <1>3
  DEF BackupsAreFresh, Active, Pending, TypeOK, Backups, Withdraw, BackUp,
      Save, disk, memory, observers
<1>4. ASSUME NEW n \in Names, BackUpCore(n) PROVE BackupsAreFresh'
  BY <1>4
  DEF BackupsAreFresh, Active, Pending, TypeOK, Backups, BackUpCore, BackUp,
      Save, disk, memory, observers
<1>5. ASSUME Commit PROVE BackupsAreFresh'
  BY <1>5
  DEF BackupsAreFresh, Active, Pending, TypeOK, Backups, Commit, disk, memory,
      observers
<1>6. ASSUME NEW n \in Names, RestoreBackup(n) PROVE BackupsAreFresh'
  BY <1>6
  DEF BackupsAreFresh, Active, Pending, TypeOK, Backups, RestoreBackup, disk,
      memory, observers
<1>7. CASE
        \/ FailCreate \/ StartMoving \/ FailMove \/ FinishMoving
        \/ RejectReader \/ FailCommit \/ SwapReader \/ StartRestoring
        \/ FinishRollback \/ Preserve \/ Start \/ StartRecovery \/ FailRecovery
        \/ Stop \/ Kill
  BY <1>7
  DEF BackupsAreFresh, Active, Pending, TypeOK, Backups, FailCreate,
      StartMoving, FailMove, BeginRollback, FinishMoving, RejectReader,
      FailCommit, SwapReader, StartRestoring, FinishRollback, Preserve, Start,
      StartRecovery, FailRecovery, GoDown, Stop, Kill, disk, memory, observers
<1>8. ASSUME NEW n \in Names,
        \/ PublishFile(n) \/ FailSync(n) \/ RemovePublished(n) \/ FailRemove(n)
        \/ KeepBackup(n) \/ FailRestore(n)
      PROVE BackupsAreFresh'
  BY <1>8
  DEF BackupsAreFresh, Active, Pending, TypeOK, Backups, PublishFile,
      FailSync, RemovePublished, FailRemove, KeepBackup, FailRestore, disk,
      memory, observers
<1>9. ASSUME NEW i \in Backups,
        \/ FinishRecovery(i) \/ ReclaimRecord(i) \/ ReclaimMarker(i)
      PROVE BackupsAreFresh'
  BY <1>9
  DEF BackupsAreFresh, Active, Pending, TypeOK, Backups, FinishRecovery,
      ReclaimRecord, ReclaimMarker, disk, memory, observers
<1>10. ASSUME NEW i \in Backups, NEW n \in Names,
        \/ RecoverRemove(i, n) \/ RecoverRestore(i, n) \/ RecoverKeep(i, n)
        \/ ReclaimFile(i, n)
      PROVE BackupsAreFresh'
  BY <1>10
  DEF BackupsAreFresh, Active, Pending, TypeOK, Backups, RecoverRemove,
      Recovering, RecoverRestore, RecoverKeep, ReclaimFile, disk, memory,
      observers
<1>11. CASE UNCHANGED vars
  BY <1>11
  DEF BackupsAreFresh, Active, Pending, TypeOK, Backups, vars, disk, memory,
      observers
<1>12. CASE PersistFilenames
  BY <1>12, SidecarOnly DEF BackupsAreFresh, Active
<1> QED
  BY <1>1, <1>2, <1>3, <1>4, <1>5, <1>6, <1>7, <1>8, <1>9, <1>10, <1>11,
     <1>12
  DEF Next, Publish, Rollback, Recover, Reclaim

\* A publication starts only when none is pending, and a rollback, a recovery
\* or a commit ends the one that is.
LEMMA OnePendingStep ==
  ASSUME TypeOK, BackupsAreFresh, OnePending, MemoryIsTrue, [Next]_vars
  PROVE  OnePending'
<1>1. ASSUME RecordOriginals PROVE OnePending'
  BY <1>1
  DEF OnePending, Active, RollingBack, Pending, RecordOriginals, disk, memory,
      observers, BackupsAreFresh, MemoryIsTrue
<1>2. ASSUME FailMove PROVE OnePending'
  BY <1>2
  DEF OnePending, Active, RollingBack, Pending, FailMove, BeginRollback, disk,
      memory, observers, MemoryIsTrue
<1>3. CASE
        \/ FailCreate \/ StartMoving \/ FinishMoving \/ RejectReader
        \/ FailCommit \/ Commit \/ SwapReader \/ StartRestoring
        \/ FinishRollback \/ Preserve \/ Start \/ StartRecovery \/ FailRecovery
        \/ Stop \/ Kill
  BY <1>3
  DEF OnePending, Active, RollingBack, Pending, FailCreate, StartMoving,
      FinishMoving, RejectReader, BeginRollback, FailCommit, Commit,
      SwapReader, StartRestoring, FinishRollback, Preserve, Start,
      StartRecovery, FailRecovery, GoDown, Stop, Kill, disk, memory, observers
<1>4. ASSUME NEW S \in SUBSET Names, Begin(S) PROVE OnePending'
  BY <1>4
  DEF OnePending, Active, RollingBack, Pending, Begin, disk, memory, observers
<1>5. ASSUME NEW n \in Names,
        \/ Withdraw(n) \/ BackUpCore(n) \/ PublishFile(n) \/ FailSync(n)
        \/ RemovePublished(n) \/ FailRemove(n) \/ RestoreBackup(n)
        \/ KeepBackup(n) \/ FailRestore(n)
      PROVE OnePending'
  BY <1>5
  DEF OnePending, Active, RollingBack, Pending, Withdraw, BackUp, Save,
      BackUpCore, PublishFile, FailSync, RemovePublished, FailRemove,
      RestoreBackup, KeepBackup, FailRestore, disk, memory, observers
<1>6. ASSUME NEW i \in Backups,
        \/ FinishRecovery(i) \/ ReclaimRecord(i) \/ ReclaimMarker(i)
      PROVE OnePending'
  BY <1>6
  DEF OnePending, Active, RollingBack, Pending, FinishRecovery, ReclaimRecord,
      ReclaimMarker, disk, memory, observers
<1>7. ASSUME NEW i \in Backups, NEW n \in Names,
        \/ RecoverRemove(i, n) \/ RecoverRestore(i, n) \/ RecoverKeep(i, n)
        \/ ReclaimFile(i, n)
      PROVE OnePending'
  BY <1>7
  DEF OnePending, Active, RollingBack, Pending, RecoverRemove, Recovering,
      RecoverRestore, RecoverKeep, ReclaimFile, disk, memory, observers
<1>8. CASE UNCHANGED vars
  BY <1>8
  DEF OnePending, Active, RollingBack, Pending, vars, disk, memory, observers
<1>9. CASE PersistFilenames
  BY <1>9, SidecarOnly DEF OnePending, Active, RollingBack
<1> QED
  BY <1>1, <1>2, <1>3, <1>4, <1>5, <1>6, <1>7, <1>8, <1>9
  DEF Next, Publish, Rollback, Recover, Reclaim

-----------------------------------------------------------------------------
(* The record, the backup and the directory. *)

\* Renaming a file into the backup keeps it recoverable.
LEMMA BackUpKeepsRecord ==
  ASSUME TypeOK, BackupsAreFresh, OnePending, RecordIsTrue, MemoryIsTrue,
         BackedUpOnce, phase \in {"withdrawing", "moving"},
         NEW n \in Names \ published, target[n] # Absent, BackUp(n)
  PROVE  RecordIsTrue'
<1>1. attempt \in Pending /\ attempt \in Backups
  BY DEF OnePending, BackupsAreFresh, Active
<1>2. n \in original[attempt] /\ saved[attempt][n] = Absent
  BY <1>1 DEF BackedUpOnce, MemoryIsTrue, Active
<1>3. /\ target' = [target EXCEPT ![n] = Absent]
      /\ saved' = [saved EXCEPT ![attempt][n] = target[n]]
      /\ Pending' = Pending
      /\ UNCHANGED <<original, stray, committed>>
  BY DEF BackUp, Save, Rename, Pending, observers
<1>4. /\ saved'[attempt] = [saved[attempt] EXCEPT ![n] = target[n]]
      /\ \A i \in Pending : i = attempt
  BY <1>1, <1>3, Zenon DEF TypeOK, OnePending
<1>5. saved[attempt] \in Directory /\ target \in Directory
  BY <1>1 DEF TypeOK
<1> SUFFICES ASSUME NEW i \in Pending', NEW m \in Names
             PROVE  /\ m \notin stray' => (m \in original'[i] <=> committed'[m] # Absent)
                    /\ saved'[i][m] # Absent =>
                        /\ m \in original'[i]
                        /\ m \notin stray' => saved'[i][m] = committed'[m]
                    /\ m \in original'[i] /\ saved'[i][m] = Absent =>
                        /\ target'[m] # Absent
                        /\ m \notin stray' => target'[m] = committed'[m]
  BY DEF RecordIsTrue
<1>6. i = attempt /\ i \in Pending
  BY <1>3, <1>4
<1>7. CASE m = n
  BY <1>1, <1>2, <1>3, <1>4, <1>5, <1>6, <1>7 DEF RecordIsTrue, Directory
<1>8. CASE m # n
  BY <1>1, <1>3, <1>4, <1>5, <1>6, <1>8 DEF RecordIsTrue, Directory
<1> QED
  BY <1>7, <1>8

\* Every file the record lists stays saved or in place, whichever step moves
\* it.
LEMMA RecordIsTrueStep ==
  ASSUME TypeOK, BackupsAreFresh, OnePending, RecordIsTrue,
         SettledIsCommitted, MemoryIsTrue, BackedUpOnce, RollbackProgress,
         NewBuild, MetaGoesFirst, [Next]_vars
  PROVE  RecordIsTrue'
<1>1. ASSUME RecordOriginals PROVE RecordIsTrue'
  BY <1>1
  DEF RecordIsTrue, Pending, TypeOK, Directory, RecordOriginals, disk, memory,
      observers, BackupsAreFresh, SettledIsCommitted, OnePending, Present,
      Empty
<1>2. ASSUME NEW n \in Names, Withdraw(n) PROVE RecordIsTrue'
  <2>1. n \notin published /\ target[n] # Absent
    BY <1>2 DEF Withdraw, First, Withdrawn, Present, MetaGoesFirst
  <2> QED
    BY <1>2, <2>1, BackUpKeepsRecord DEF Withdraw
<1>3. ASSUME NEW n \in Names, BackUpCore(n) PROVE RecordIsTrue'
  <2>1. n \notin published /\ target[n] # Absent
    BY <1>3 DEF BackUpCore, First, BackedUpOnce
  <2> QED
    BY <1>3, <2>1, BackUpKeepsRecord DEF BackUpCore
<1>4. ASSUME NEW n \in Names, PublishFile(n) PROVE RecordIsTrue'
  BY <1>4
  DEF RecordIsTrue, Pending, TypeOK, Directory, PublishFile, Rename, disk,
      memory, observers, MemoryIsTrue, Active, RollingBack, OnePending,
      NewBuild
<1>5. ASSUME NEW n \in Names, FailSync(n) PROVE RecordIsTrue'
  BY <1>5
  DEF RecordIsTrue, Pending, TypeOK, Directory, FailSync, Rename, disk,
      memory, observers, MemoryIsTrue, Active, RollingBack, OnePending,
      NewBuild
<1>6. ASSUME Commit PROVE RecordIsTrue'
  BY <1>6
  DEF RecordIsTrue, Pending, TypeOK, Directory, Commit, disk, memory,
      observers, OnePending
<1>7. ASSUME NEW n \in Names, RemovePublished(n) PROVE RecordIsTrue'
  <2>1. attempt \in Pending /\ attempt \in Backups /\ n \in published
    BY <1>7 DEF RemovePublished, Last, OnePending, RollingBack, RollbackProgress,
             BackupsAreFresh, Active
  <2>2. n \in original[attempt] => saved[attempt][n] # Absent
    BY <1>7, <2>1 DEF RemovePublished, MemoryIsTrue, Active
  <2>3. \A i \in Pending : i = attempt
    BY <2>1 DEF OnePending
  <2>4. /\ target' = [target EXCEPT ![n] = Absent]
        /\ UNCHANGED <<recorded, marked, saved, original, stray, committed>>
    BY <1>7 DEF RemovePublished, Rename, observers
  <2> QED
    BY <2>2, <2>3, <2>4 DEF RecordIsTrue, Pending, TypeOK, Directory
<1>8. ASSUME NEW n \in Names, RestoreBackup(n) PROVE RecordIsTrue'
  <2>1. attempt \in Pending /\ attempt \in Backups /\ n \in backedUp
    BY <1>8 DEF RestoreBackup, Last, OnePending, RollingBack, RollbackProgress,
             BackupsAreFresh, Active
  <2>2. saved[attempt][n] # Absent
    BY <1>8, <2>1 DEF RestoreBackup, MemoryIsTrue, Active
  <2>3. \A i \in Pending : i = attempt
    BY <2>1 DEF OnePending
  <2>4. /\ target' = [target EXCEPT ![n] = saved[attempt][n]]
        /\ saved' = [saved EXCEPT ![attempt][n] = Absent]
        /\ UNCHANGED <<recorded, marked, original, stray, committed>>
    BY <1>8 DEF RestoreBackup, Rename, observers
  <2>5. saved'[attempt] = [saved[attempt] EXCEPT ![n] = Absent]
    BY <2>1, <2>4, Zenon DEF TypeOK
  <2> QED
    BY <2>1, <2>2, <2>3, <2>4, <2>5 DEF RecordIsTrue, Pending, TypeOK, Directory
<1>9. ASSUME FinishRollback PROVE RecordIsTrue'
  BY <1>9
  DEF RecordIsTrue, Pending, TypeOK, Directory, FinishRollback, disk, memory,
      observers, OnePending
<1>10. ASSUME NEW i \in Backups, FinishRecovery(i) PROVE RecordIsTrue'
  BY <1>10
  DEF RecordIsTrue, Pending, TypeOK, Directory, FinishRecovery, disk, memory,
      observers, OnePending
<1>11. ASSUME NEW i \in Backups, NEW n \in Names, RecoverRemove(i, n) PROVE RecordIsTrue'
  BY <1>11
  DEF RecordIsTrue, Pending, TypeOK, Directory, RecoverRemove, Rename,
      Recovering, disk, memory, observers, OnePending
<1>12. ASSUME NEW i \in Backups, NEW n \in Names, RecoverRestore(i, n) PROVE RecordIsTrue'
  BY <1>12
  DEF RecordIsTrue, Pending, TypeOK, Directory, RecoverRestore, Rename,
      Recovering, disk, memory, observers, OnePending
<1>13. CASE
        \/ FailCreate \/ StartMoving \/ FailMove \/ FinishMoving
        \/ RejectReader \/ FailCommit \/ SwapReader \/ StartRestoring
        \/ Preserve \/ Start \/ StartRecovery \/ FailRecovery \/ Stop \/ Kill
  BY <1>13
  DEF RecordIsTrue, Pending, TypeOK, Directory, FailCreate, StartMoving,
      FailMove, BeginRollback, FinishMoving, RejectReader, FailCommit,
      SwapReader, StartRestoring, Preserve, Start, StartRecovery,
      FailRecovery, GoDown, Stop, Kill, disk, memory, observers
<1>14. ASSUME NEW S \in SUBSET Names, Begin(S) PROVE RecordIsTrue'
  BY <1>14
  DEF RecordIsTrue, Pending, TypeOK, Directory, Begin, disk, memory, observers
<1>15. ASSUME NEW n \in Names,
        \/ FailRemove(n) \/ KeepBackup(n) \/ FailRestore(n)
      PROVE RecordIsTrue'
  BY <1>15
  DEF RecordIsTrue, Pending, TypeOK, Directory, FailRemove, KeepBackup,
      FailRestore, disk, memory, observers
<1>16. ASSUME NEW i \in Backups,
        \/ ReclaimRecord(i) \/ ReclaimMarker(i)
      PROVE RecordIsTrue'
  BY <1>16
  DEF RecordIsTrue, Pending, TypeOK, Directory, ReclaimRecord, ReclaimMarker,
      disk, memory, observers
<1>17. ASSUME NEW i \in Backups, NEW n \in Names,
        \/ RecoverKeep(i, n) \/ ReclaimFile(i, n)
      PROVE RecordIsTrue'
  BY <1>17
  DEF RecordIsTrue, Pending, TypeOK, Directory, RecoverKeep, Recovering,
      ReclaimFile, disk, memory, observers
<1>18. CASE UNCHANGED vars
  BY <1>18
  DEF RecordIsTrue, Pending, TypeOK, Directory, vars, disk, memory, observers
<1>19. CASE PersistFilenames
  BY <1>19, SidecarOnly DEF RecordIsTrue
<1> QED
  BY <1>1, <1>2, <1>3, <1>4, <1>5, <1>6, <1>7, <1>8, <1>9, <1>10, <1>11,
     <1>12, <1>13, <1>14, <1>15, <1>16, <1>17, <1>18, <1>19
  DEF Next, Publish, Rollback, Recover, Reclaim

\* A rollback or a recovery that ends has brought back every committed file,
\* and a commit is of one whole build.
LEMMA SettledStep ==
  ASSUME TypeOK, OnePending, RecordIsTrue, SettledIsCommitted, MemoryIsTrue,
         RollbackProgress, RecoveryProgress, NewBuild, [Next]_vars
  PROVE  SettledIsCommitted'
<1>1. ASSUME RecordOriginals PROVE SettledIsCommitted'
  BY <1>1, RequiredNames
  DEF SettledIsCommitted, CommittedIsWhole, Pending, TypeOK, Directory,
      RecordOriginals, disk, memory, observers, OnePending
<1>2. ASSUME NEW n \in Names, Withdraw(n) PROVE SettledIsCommitted'
  BY <1>2, RequiredNames
  DEF SettledIsCommitted, CommittedIsWhole, Pending, TypeOK, Directory,
      Withdraw, BackUp, Save, Rename, disk, memory, observers, OnePending
<1>3. ASSUME NEW n \in Names, BackUpCore(n) PROVE SettledIsCommitted'
  BY <1>3, RequiredNames
  DEF SettledIsCommitted, CommittedIsWhole, Pending, TypeOK, Directory,
      BackUpCore, BackUp, Save, Rename, disk, memory, observers, OnePending
<1>4. ASSUME NEW n \in Names, PublishFile(n) PROVE SettledIsCommitted'
  BY <1>4, RequiredNames
  DEF SettledIsCommitted, CommittedIsWhole, Pending, TypeOK, Directory,
      PublishFile, Rename, disk, memory, observers, OnePending
<1>5. ASSUME NEW n \in Names, FailSync(n) PROVE SettledIsCommitted'
  BY <1>5, RequiredNames
  DEF SettledIsCommitted, CommittedIsWhole, Pending, TypeOK, Directory,
      FailSync, Rename, disk, memory, observers, OnePending, RecordIsTrue
<1>6. ASSUME Commit PROVE SettledIsCommitted'
  <2>1. attempt # Absent
    BY AbsentAssumption DEF TypeOK
  <2>2. /\ \A n \in Required : target[n] = attempt
        /\ target["evidence"] \in {Absent, attempt}
    BY <1>6 DEF Commit, NewBuild
  <2>3. target' = target /\ committed' = target /\ stray' = {}
    BY <1>6 DEF Commit
  <2>4. "index" \in Required
    BY DEF Required, Core
  <2> QED
    BY <2>1, <2>2, <2>3, <2>4 DEF SettledIsCommitted, CommittedIsWhole
<1>7. ASSUME NEW n \in Names, RemovePublished(n) PROVE SettledIsCommitted'
  <2>1. Pending # {} /\ Pending' = Pending
    BY <1>7 DEF RemovePublished, Last, OnePending, RollingBack, RollbackProgress, Pending
  <2>2. phase' # "swapping" /\ UNCHANGED <<committed, stray>>
    BY <1>7 DEF RemovePublished, observers
  <2> QED
    BY <2>1, <2>2 DEF SettledIsCommitted, CommittedIsWhole
<1>8. ASSUME NEW n \in Names, RestoreBackup(n) PROVE SettledIsCommitted'
  <2>1. Pending # {} /\ Pending' = Pending
    BY <1>8 DEF RestoreBackup, Last, OnePending, RollingBack, RollbackProgress, Pending
  <2>2. phase' # "swapping" /\ UNCHANGED <<committed, stray>>
    BY <1>8 DEF RestoreBackup, observers
  <2> QED
    BY <2>1, <2>2 DEF SettledIsCommitted, CommittedIsWhole
<1>9. ASSUME FinishRollback PROVE SettledIsCommitted'
  BY <1>9, RequiredNames
  DEF SettledIsCommitted, CommittedIsWhole, Pending, TypeOK, Directory,
      FinishRollback, disk, memory, observers, OnePending, RecordIsTrue,
      MemoryIsTrue, RollbackProgress, Active, RollingBack
<1>10. ASSUME NEW i \in Backups, FinishRecovery(i) PROVE SettledIsCommitted'
  BY <1>10, RequiredNames
  DEF SettledIsCommitted, CommittedIsWhole, Pending, TypeOK, Directory,
      FinishRecovery, disk, memory, observers, OnePending, RecordIsTrue,
      RecoveryProgress
<1>11. ASSUME NEW i \in Backups, NEW n \in Names, RecoverRemove(i, n) PROVE SettledIsCommitted'
  BY <1>11, RequiredNames
  DEF SettledIsCommitted, CommittedIsWhole, Pending, TypeOK, Directory,
      RecoverRemove, Rename, Recovering, disk, memory, observers, OnePending
<1>12. ASSUME NEW i \in Backups, NEW n \in Names, RecoverRestore(i, n) PROVE SettledIsCommitted'
  BY <1>12, RequiredNames
  DEF SettledIsCommitted, CommittedIsWhole, Pending, TypeOK, Directory,
      RecoverRestore, Rename, Recovering, disk, memory, observers, OnePending
<1>13. CASE
        \/ FailCreate \/ StartMoving \/ FailMove \/ FinishMoving
        \/ RejectReader \/ FailCommit \/ SwapReader \/ StartRestoring
        \/ Preserve \/ Start \/ StartRecovery \/ FailRecovery \/ Stop \/ Kill
  BY <1>13, RequiredNames
  DEF SettledIsCommitted, CommittedIsWhole, Pending, TypeOK, Directory,
      FailCreate, StartMoving, FailMove, BeginRollback, FinishMoving,
      RejectReader, FailCommit, SwapReader, StartRestoring, Preserve, Start,
      StartRecovery, FailRecovery, GoDown, Stop, Kill, disk, memory, observers
<1>14. ASSUME NEW S \in SUBSET Names, Begin(S) PROVE SettledIsCommitted'
  BY <1>14, RequiredNames
  DEF SettledIsCommitted, CommittedIsWhole, Pending, TypeOK, Directory, Begin,
      disk, memory, observers
<1>15. ASSUME NEW n \in Names,
        \/ FailRemove(n) \/ KeepBackup(n) \/ FailRestore(n)
      PROVE SettledIsCommitted'
  BY <1>15, RequiredNames
  DEF SettledIsCommitted, CommittedIsWhole, Pending, TypeOK, Directory,
      FailRemove, KeepBackup, FailRestore, disk, memory, observers
<1>16. ASSUME NEW i \in Backups,
        \/ ReclaimRecord(i) \/ ReclaimMarker(i)
      PROVE SettledIsCommitted'
  BY <1>16, RequiredNames
  DEF SettledIsCommitted, CommittedIsWhole, Pending, TypeOK, Directory,
      ReclaimRecord, ReclaimMarker, disk, memory, observers
<1>17. ASSUME NEW i \in Backups, NEW n \in Names,
        \/ RecoverKeep(i, n) \/ ReclaimFile(i, n)
      PROVE SettledIsCommitted'
  BY <1>17, RequiredNames
  DEF SettledIsCommitted, CommittedIsWhole, Pending, TypeOK, Directory,
      RecoverKeep, Recovering, ReclaimFile, disk, memory, observers
<1>18. CASE UNCHANGED vars
  BY <1>18, RequiredNames
  DEF SettledIsCommitted, CommittedIsWhole, Pending, TypeOK, Directory, vars,
      disk, memory, observers
<1>19. CASE PersistFilenames
  BY <1>19, SidecarOnly DEF TypeOK, SettledIsCommitted, CommittedIsWhole, Required, Core
<1> QED
  BY <1>1, <1>2, <1>3, <1>4, <1>5, <1>6, <1>7, <1>8, <1>9, <1>10, <1>11,
     <1>12, <1>13, <1>14, <1>15, <1>16, <1>17, <1>18, <1>19
  DEF Next, Publish, Rollback, Recover, Reclaim

\* StagedFileMove's lists follow the renames, failed ones included.
LEMMA MemoryStep ==
  ASSUME TypeOK, BackupsAreFresh, OnePending, RecordIsTrue, MemoryIsTrue,
         RollbackProgress, NewBuild, [Next]_vars
  PROVE  MemoryIsTrue'
<1>1. ASSUME RecordOriginals PROVE MemoryIsTrue'
  BY <1>1, RequiredNames
  DEF MemoryIsTrue, Active, RollingBack, Pending, TypeOK, Directory,
      RecordOriginals, disk, memory, observers, OnePending, BackupsAreFresh,
      Present, Empty
<1>2. ASSUME FailMove PROVE MemoryIsTrue'
  BY <1>2, RequiredNames
  DEF MemoryIsTrue, Active, RollingBack, Pending, TypeOK, Directory, FailMove,
      BeginRollback, disk, memory, observers, OnePending
<1>3. ASSUME NEW n \in Names, Withdraw(n) PROVE MemoryIsTrue'
  <2>1. attempt \in Pending /\ attempt \in Backups /\ target[n] # Absent
    BY <1>3 DEF Withdraw, First, Withdrawn, Present, OnePending, BackupsAreFresh, Active
  <2>2. /\ target' = [target EXCEPT ![n] = Absent]
        /\ saved' = [saved EXCEPT ![attempt][n] = target[n]]
        /\ backedUp' = backedUp \cup {n}
        /\ UNCHANGED <<original, stray, published, attempt, phase, failed>>
    BY <1>3 DEF Withdraw, BackUp, Save, Rename, observers
  <2>3. saved'[attempt] = [saved[attempt] EXCEPT ![n] = target[n]]
    BY <2>1, <2>2, Zenon DEF TypeOK
  <2>4. phase = "withdrawing"
    BY <1>3 DEF Withdraw
  <2>5. ASSUME NEW m \in Names
        PROVE  /\ m \in backedUp' <=> saved'[attempt][m] # Absent
               /\ m \notin original[attempt] =>
                   target'[m] = Absent \/ m \in published \/ m \in stray
               /\ m \in published /\ m \in original[attempt] => m \in backedUp'
    BY <2>1, <2>2, <2>3, <2>4 DEF MemoryIsTrue, Active, TypeOK, Directory
  <2> QED
    BY <2>2, <2>4, <2>5 DEF MemoryIsTrue, Active, RollingBack
<1>4. ASSUME NEW n \in Names, BackUpCore(n) PROVE MemoryIsTrue'
  BY <1>4, RequiredNames
  DEF MemoryIsTrue, Active, RollingBack, Pending, TypeOK, Directory,
      BackUpCore, BackUp, Save, Rename, disk, memory, observers, OnePending,
      BackupsAreFresh
<1>5. ASSUME NEW n \in Names, PublishFile(n) PROVE MemoryIsTrue'
  <2>1. attempt \in Pending /\ attempt \in Backups /\ target[n] = Absent
    BY <1>5 DEF PublishFile, First, OnePending, BackupsAreFresh, Active, NewBuild
  <2>2. n \in original[attempt] => n \in backedUp
    BY <1>5, <2>1 DEF PublishFile, MemoryIsTrue, RecordIsTrue, Active
  <2>3. /\ target' = [target EXCEPT ![n] = attempt]
        /\ published' = published \cup {n}
        /\ UNCHANGED <<saved, backedUp, original, stray, attempt, phase, failed>>
    BY <1>5 DEF PublishFile, Rename, observers
  <2>4. phase = "moving"
    BY <1>5 DEF PublishFile
  <2>5. ASSUME NEW m \in Names
        PROVE  /\ m \in backedUp <=> saved[attempt][m] # Absent
               /\ m \notin original[attempt] =>
                   target'[m] = Absent \/ m \in published' \/ m \in stray
               /\ m \in published' /\ m \in original[attempt] => m \in backedUp
    BY <2>1, <2>2, <2>3, <2>4 DEF MemoryIsTrue, Active, TypeOK, Directory
  <2> QED
    BY <2>3, <2>4, <2>5 DEF MemoryIsTrue, Active, RollingBack
<1>6. ASSUME NEW n \in Names, FailSync(n) PROVE MemoryIsTrue'
  BY <1>6, RequiredNames
  DEF MemoryIsTrue, Active, RollingBack, Pending, TypeOK, Directory, FailSync,
      Rename, disk, memory, observers, OnePending, RecordIsTrue
<1>7. ASSUME NEW n \in Names, RestoreBackup(n) PROVE MemoryIsTrue'
  <2>1. attempt \in Pending /\ attempt \in Backups /\ n \in backedUp
    BY <1>7 DEF RestoreBackup, Last, OnePending, BackupsAreFresh, Active, RollingBack,
             RollbackProgress
  <2>2. n \in original[attempt] /\ n \notin published
    BY <1>7, <2>1 DEF RestoreBackup, MemoryIsTrue, RecordIsTrue, Active
  <2>3. /\ target' = [target EXCEPT ![n] = saved[attempt][n]]
        /\ saved' = [saved EXCEPT ![attempt][n] = Absent]
        /\ backedUp' = backedUp \ {n}
        /\ UNCHANGED <<published, original, stray, attempt, phase, failed>>
    BY <1>7 DEF RestoreBackup, Rename, observers
  <2>4. saved'[attempt] = [saved[attempt] EXCEPT ![n] = Absent]
    BY <2>1, <2>3, Zenon DEF TypeOK
  <2>5. phase = "restoring"
    BY <1>7 DEF RestoreBackup
  <2>6. ASSUME NEW m \in Names
        PROVE  /\ m \in backedUp' <=> saved'[attempt][m] # Absent
               /\ m \notin original[attempt] =>
                   target'[m] = Absent \/ m \in published \/ m \in stray
               /\ m \in published /\ m \in original[attempt] => m \in backedUp'
    BY <2>1, <2>2, <2>3, <2>4, <2>5 DEF MemoryIsTrue, Active, TypeOK, Directory
  <2> QED
    BY <2>3, <2>5, <2>6 DEF MemoryIsTrue, Active, RollingBack
<1>8. CASE
        \/ FailCreate \/ StartMoving \/ FinishMoving \/ RejectReader
        \/ FailCommit \/ Commit \/ SwapReader \/ StartRestoring
        \/ FinishRollback \/ Preserve \/ Start \/ StartRecovery \/ FailRecovery
        \/ Stop \/ Kill
  BY <1>8, RequiredNames
  DEF MemoryIsTrue, Active, RollingBack, Pending, TypeOK, Directory,
      FailCreate, StartMoving, FinishMoving, RejectReader, BeginRollback,
      FailCommit, Commit, SwapReader, StartRestoring, FinishRollback,
      Preserve, Start, StartRecovery, FailRecovery, GoDown, Stop, Kill, disk,
      memory, observers
<1>9. ASSUME NEW S \in SUBSET Names, Begin(S) PROVE MemoryIsTrue'
  BY <1>9, RequiredNames
  DEF MemoryIsTrue, Active, RollingBack, Pending, TypeOK, Directory, Begin,
      disk, memory, observers
<1>10. ASSUME NEW n \in Names,
        \/ RemovePublished(n) \/ FailRemove(n) \/ KeepBackup(n)
        \/ FailRestore(n)
      PROVE MemoryIsTrue'
  BY <1>10, RequiredNames
  DEF MemoryIsTrue, Active, RollingBack, Pending, TypeOK, Directory,
      RemovePublished, Rename, FailRemove, KeepBackup, FailRestore, disk,
      memory, observers
<1>11. ASSUME NEW i \in Backups,
        \/ FinishRecovery(i) \/ ReclaimRecord(i) \/ ReclaimMarker(i)
      PROVE MemoryIsTrue'
  BY <1>11, RequiredNames
  DEF MemoryIsTrue, Active, RollingBack, Pending, TypeOK, Directory,
      FinishRecovery, ReclaimRecord, ReclaimMarker, disk, memory, observers
<1>12. ASSUME NEW i \in Backups, NEW n \in Names,
        \/ RecoverRemove(i, n) \/ RecoverRestore(i, n) \/ RecoverKeep(i, n)
        \/ ReclaimFile(i, n)
      PROVE MemoryIsTrue'
  BY <1>12, RequiredNames
  DEF MemoryIsTrue, Active, RollingBack, Pending, TypeOK, Directory,
      RecoverRemove, Rename, Recovering, RecoverRestore, RecoverKeep,
      ReclaimFile, disk, memory, observers
<1>13. CASE UNCHANGED vars
  BY <1>13, RequiredNames
  DEF MemoryIsTrue, Active, RollingBack, Pending, TypeOK, Directory, vars,
      disk, memory, observers
<1>14. CASE PersistFilenames
  BY <1>14, SidecarOnly DEF MemoryIsTrue, Active, RollingBack
<1> QED
  BY <1>1, <1>2, <1>3, <1>4, <1>5, <1>6, <1>7, <1>8, <1>9, <1>10, <1>11,
     <1>12, <1>13, <1>14
  DEF Next, Publish, Rollback, Recover, Reclaim

\* No file is backed up twice in one publication.
LEMMA BackedUpOnceStep ==
  ASSUME TypeOK, BackupsAreFresh, OnePending, MemoryIsTrue, BackedUpOnce,
         MetaGoesFirst, [Next]_vars
  PROVE  BackedUpOnce'
<1>1. ASSUME RecordOriginals PROVE BackedUpOnce'
  BY <1>1
  DEF BackedUpOnce, TypeOK, Directory, RecordOriginals, disk, memory,
      observers, OnePending, BackupsAreFresh, MemoryIsTrue, Active, Present,
      Backups
<1>2. ASSUME StartMoving PROVE BackedUpOnce'
  BY <1>2
  DEF BackedUpOnce, TypeOK, Directory, StartMoving, disk, memory, observers,
      MetaGoesFirst
<1>3. ASSUME NEW n \in Names, PublishFile(n) PROVE BackedUpOnce'
  BY <1>3
  DEF BackedUpOnce, TypeOK, Directory, PublishFile, Rename, disk, memory,
      observers
<1>4. CASE
        \/ FailCreate \/ FailMove \/ FinishMoving \/ RejectReader \/ FailCommit
        \/ Commit \/ SwapReader \/ StartRestoring \/ FinishRollback \/ Preserve
        \/ Start \/ StartRecovery \/ FailRecovery \/ Stop \/ Kill
  BY <1>4
  DEF BackedUpOnce, TypeOK, Directory, FailCreate, FailMove, BeginRollback,
      FinishMoving, RejectReader, FailCommit, Commit, SwapReader,
      StartRestoring, FinishRollback, Preserve, Start, StartRecovery,
      FailRecovery, GoDown, Stop, Kill, disk, memory, observers
<1>5. ASSUME NEW S \in SUBSET Names, Begin(S) PROVE BackedUpOnce'
  BY <1>5
  DEF BackedUpOnce, TypeOK, Directory, Begin, disk, memory, observers
<1>6. ASSUME NEW n \in Names,
        \/ Withdraw(n) \/ BackUpCore(n) \/ FailSync(n) \/ RemovePublished(n)
        \/ FailRemove(n) \/ RestoreBackup(n) \/ KeepBackup(n) \/ FailRestore(n)
      PROVE BackedUpOnce'
  BY <1>6
  DEF BackedUpOnce, TypeOK, Directory, Withdraw, BackUp, Save, Rename,
      BackUpCore, FailSync, RemovePublished, FailRemove, RestoreBackup,
      KeepBackup, FailRestore, disk, memory, observers
<1>7. ASSUME NEW i \in Backups,
        \/ FinishRecovery(i) \/ ReclaimRecord(i) \/ ReclaimMarker(i)
      PROVE BackedUpOnce'
  BY <1>7
  DEF BackedUpOnce, TypeOK, Directory, FinishRecovery, ReclaimRecord,
      ReclaimMarker, disk, memory, observers
<1>8. ASSUME NEW i \in Backups, NEW n \in Names,
        \/ RecoverRemove(i, n) \/ RecoverRestore(i, n) \/ RecoverKeep(i, n)
        \/ ReclaimFile(i, n)
      PROVE BackedUpOnce'
  BY <1>8
  DEF BackedUpOnce, TypeOK, Directory, RecoverRemove, Rename, Recovering,
      RecoverRestore, RecoverKeep, ReclaimFile, disk, memory, observers
<1>9. CASE UNCHANGED vars
  BY <1>9
  DEF BackedUpOnce, TypeOK, Directory, vars, disk, memory, observers
<1>10. CASE PersistFilenames
  BY <1>10, SidecarOnly DEF BackedUpOnce
<1> QED
  BY <1>1, <1>2, <1>3, <1>4, <1>5, <1>6, <1>7, <1>8, <1>9, <1>10
  DEF Next, Publish, Rollback, Recover, Reclaim

-----------------------------------------------------------------------------
(* Progress of a rollback, a recovery and a publication. *)

\* A rollback in which nothing failed misses no file.
LEMMA RollbackStep ==
  ASSUME TypeOK, RollbackProgress, [Next]_vars
  PROVE  RollbackProgress'
<1>1. ASSUME StartRestoring PROVE RollbackProgress'
  BY <1>1
  DEF RollbackProgress, StartRestoring, disk, memory, observers
<1>2. CASE
        \/ FailCreate \/ RecordOriginals \/ StartMoving \/ FailMove
        \/ FinishMoving \/ RejectReader \/ FailCommit \/ Commit \/ SwapReader
        \/ FinishRollback \/ Preserve \/ Start \/ StartRecovery \/ FailRecovery
        \/ Stop \/ Kill
  BY <1>2
  DEF RollbackProgress, FailCreate, RecordOriginals, StartMoving, FailMove,
      BeginRollback, FinishMoving, RejectReader, FailCommit, Commit,
      SwapReader, FinishRollback, Preserve, Start, StartRecovery,
      FailRecovery, GoDown, Stop, Kill, disk, memory, observers
<1>3. ASSUME NEW S \in SUBSET Names, Begin(S) PROVE RollbackProgress'
  BY <1>3
  DEF RollbackProgress, Begin, disk, memory, observers
<1>4. ASSUME NEW n \in Names,
        \/ Withdraw(n) \/ BackUpCore(n) \/ PublishFile(n) \/ FailSync(n)
        \/ RemovePublished(n) \/ FailRemove(n) \/ RestoreBackup(n)
        \/ KeepBackup(n) \/ FailRestore(n)
      PROVE RollbackProgress'
  BY <1>4
  DEF RollbackProgress, Withdraw, BackUp, Save, Rename, BackUpCore,
      PublishFile, FailSync, RemovePublished, FailRemove, RestoreBackup,
      KeepBackup, FailRestore, disk, memory, observers
<1>5. ASSUME NEW i \in Backups,
        \/ FinishRecovery(i) \/ ReclaimRecord(i) \/ ReclaimMarker(i)
      PROVE RollbackProgress'
  BY <1>5
  DEF RollbackProgress, FinishRecovery, ReclaimRecord, ReclaimMarker, disk,
      memory, observers
<1>6. ASSUME NEW i \in Backups, NEW n \in Names,
        \/ RecoverRemove(i, n) \/ RecoverRestore(i, n) \/ RecoverKeep(i, n)
        \/ ReclaimFile(i, n)
      PROVE RollbackProgress'
  BY <1>6
  DEF RollbackProgress, RecoverRemove, Rename, Recovering, RecoverRestore,
      RecoverKeep, ReclaimFile, disk, memory, observers
<1>7. CASE UNCHANGED vars
  BY <1>7
  DEF RollbackProgress, vars, disk, memory, observers
<1>8. CASE PersistFilenames
  BY <1>8, SidecarOnly DEF RollbackProgress
<1> QED
  BY <1>1, <1>2, <1>3, <1>4, <1>5, <1>6, <1>7, <1>8
  DEF Next, Publish, Rollback, Recover, Reclaim

\* A file recovery has passed is as the record says.
LEMMA RecoveryStep ==
  ASSUME TypeOK, OnePending, RecoveryProgress, [Next]_vars
  PROVE  RecoveryProgress'
<1>1. ASSUME StartRecovery PROVE RecoveryProgress'
  BY <1>1
  DEF RecoveryProgress, Pending, TypeOK, Directory, StartRecovery, disk,
      memory, observers, OnePending
<1>2. ASSUME NEW i \in Backups, FinishRecovery(i) PROVE RecoveryProgress'
  BY <1>2
  DEF RecoveryProgress, Pending, TypeOK, Directory, FinishRecovery, disk,
      memory, observers, OnePending
<1>3. ASSUME NEW i \in Backups, NEW n \in Names, RecoverRemove(i, n) PROVE RecoveryProgress'
  BY <1>3
  DEF RecoveryProgress, Pending, TypeOK, Directory, RecoverRemove, Rename,
      Recovering, disk, memory, observers, OnePending
<1>4. ASSUME NEW i \in Backups, NEW n \in Names, RecoverRestore(i, n) PROVE RecoveryProgress'
  BY <1>4
  DEF RecoveryProgress, Pending, TypeOK, Directory, RecoverRestore, Rename,
      Recovering, disk, memory, observers, OnePending
<1>5. ASSUME NEW i \in Backups, NEW n \in Names, RecoverKeep(i, n) PROVE RecoveryProgress'
  BY <1>5
  DEF RecoveryProgress, Pending, TypeOK, Directory, RecoverKeep, Recovering,
      disk, memory, observers, OnePending
<1>6. CASE
        \/ FailCreate \/ RecordOriginals \/ StartMoving \/ FailMove
        \/ FinishMoving \/ RejectReader \/ FailCommit \/ Commit \/ SwapReader
        \/ StartRestoring \/ FinishRollback \/ Preserve \/ Start
        \/ FailRecovery \/ Stop \/ Kill
  BY <1>6
  DEF RecoveryProgress, Pending, TypeOK, Directory, FailCreate,
      RecordOriginals, StartMoving, FailMove, BeginRollback, FinishMoving,
      RejectReader, FailCommit, Commit, SwapReader, StartRestoring,
      FinishRollback, Preserve, Start, FailRecovery, GoDown, Stop, Kill, disk,
      memory, observers
<1>7. ASSUME NEW S \in SUBSET Names, Begin(S) PROVE RecoveryProgress'
  BY <1>7
  DEF RecoveryProgress, Pending, TypeOK, Directory, Begin, disk, memory,
      observers
<1>8. ASSUME NEW n \in Names,
        \/ Withdraw(n) \/ BackUpCore(n) \/ PublishFile(n) \/ FailSync(n)
        \/ RemovePublished(n) \/ FailRemove(n) \/ RestoreBackup(n)
        \/ KeepBackup(n) \/ FailRestore(n)
      PROVE RecoveryProgress'
  BY <1>8
  DEF RecoveryProgress, Pending, TypeOK, Directory, Withdraw, BackUp, Save,
      Rename, BackUpCore, PublishFile, FailSync, RemovePublished, FailRemove,
      RestoreBackup, KeepBackup, FailRestore, disk, memory, observers
<1>9. ASSUME NEW i \in Backups,
        \/ ReclaimRecord(i) \/ ReclaimMarker(i)
      PROVE RecoveryProgress'
  BY <1>9
  DEF RecoveryProgress, Pending, TypeOK, Directory, ReclaimRecord,
      ReclaimMarker, disk, memory, observers
<1>10. ASSUME NEW i \in Backups, NEW n \in Names, ReclaimFile(i, n) PROVE RecoveryProgress'
  BY <1>10
  DEF RecoveryProgress, Pending, TypeOK, Directory, ReclaimFile, disk, memory,
      observers
<1>11. CASE UNCHANGED vars
  BY <1>11
  DEF RecoveryProgress, Pending, TypeOK, Directory, vars, disk, memory,
      observers
<1>12. CASE PersistFilenames
  BY <1>12, SidecarOnly DEF RecoveryProgress
<1> QED
  BY <1>1, <1>2, <1>3, <1>4, <1>5, <1>6, <1>7, <1>8, <1>9, <1>10, <1>11,
     <1>12
  DEF Next, Publish, Rollback, Recover, Reclaim

\* After move_staged_files the core files and the meta are of the new build.
LEMMA NewBuildStep ==
  ASSUME TypeOK, NewBuild, [Next]_vars
  PROVE  NewBuild'
<1>1. ASSUME StartMoving PROVE NewBuild'
  BY <1>1, RequiredNames, NamesAre
  DEF NewBuild, TypeOK, Directory, StartMoving, disk, memory, observers,
      Withdrawn, Present
<1>2. ASSUME NEW n \in Names, BackUpCore(n) PROVE NewBuild'
  <2>1. /\ n \in staged /\ n # "evidence" /\ phase = "moving"
        /\ target' = [target EXCEPT ![n] = Absent]
        /\ UNCHANGED <<phase, staged, attempt>>
    BY <1>2 DEF BackUpCore, First, BackUp, Rename
  <2>2. target'["evidence"] = target["evidence"]
    BY <2>1, NamesAre DEF TypeOK, Directory
  <2>3. \A m \in Required : m \in staged \/ target'[m] = attempt
    BY <2>1, RequiredNames DEF NewBuild, TypeOK, Directory
  <2> QED
    BY <2>1, <2>2, <2>3 DEF NewBuild
<1>3. CASE
        \/ FailCreate \/ RecordOriginals \/ FailMove \/ FinishMoving
        \/ RejectReader \/ FailCommit \/ Commit \/ SwapReader \/ StartRestoring
        \/ FinishRollback \/ Preserve \/ Start \/ StartRecovery \/ FailRecovery
        \/ Stop \/ Kill
  BY <1>3, RequiredNames, NamesAre
  DEF NewBuild, TypeOK, Directory, FailCreate, RecordOriginals, FailMove,
      BeginRollback, FinishMoving, RejectReader, FailCommit, Commit,
      SwapReader, StartRestoring, FinishRollback, Preserve, Start,
      StartRecovery, FailRecovery, GoDown, Stop, Kill, disk, memory, observers
<1>4. ASSUME NEW S \in SUBSET Names, Begin(S) PROVE NewBuild'
  BY <1>4, RequiredNames, NamesAre
  DEF NewBuild, TypeOK, Directory, Begin, disk, memory, observers
<1>5. ASSUME NEW n \in Names,
        \/ Withdraw(n) \/ PublishFile(n) \/ FailSync(n) \/ RemovePublished(n)
        \/ FailRemove(n) \/ RestoreBackup(n) \/ KeepBackup(n) \/ FailRestore(n)
      PROVE NewBuild'
  BY <1>5, RequiredNames, NamesAre
  DEF NewBuild, TypeOK, Directory, Withdraw, BackUp, Save, Rename,
      PublishFile, FailSync, RemovePublished, FailRemove, RestoreBackup,
      KeepBackup, FailRestore, disk, memory, observers
<1>6. ASSUME NEW i \in Backups,
        \/ FinishRecovery(i) \/ ReclaimRecord(i) \/ ReclaimMarker(i)
      PROVE NewBuild'
  BY <1>6, RequiredNames, NamesAre
  DEF NewBuild, TypeOK, Directory, FinishRecovery, ReclaimRecord,
      ReclaimMarker, disk, memory, observers
<1>7. ASSUME NEW i \in Backups, NEW n \in Names,
        \/ RecoverRemove(i, n) \/ RecoverRestore(i, n) \/ RecoverKeep(i, n)
        \/ ReclaimFile(i, n)
      PROVE NewBuild'
  BY <1>7, RequiredNames, NamesAre
  DEF NewBuild, TypeOK, Directory, RecoverRemove, Rename, Recovering,
      RecoverRestore, RecoverKeep, ReclaimFile, disk, memory, observers
<1>8. CASE UNCHANGED vars
  BY <1>8, RequiredNames, NamesAre
  DEF NewBuild, TypeOK, Directory, vars, disk, memory, observers
<1>9. CASE PersistFilenames
  BY <1>9, SidecarOnly DEF NewBuild
<1> QED
  BY <1>1, <1>2, <1>3, <1>4, <1>5, <1>6, <1>7, <1>8, <1>9
  DEF Next, Publish, Rollback, Recover, Reclaim

\* The reader changes only to the files just committed or recovered.
LEMMA ReaderStep ==
  ASSUME TypeOK, OnePending, RecordIsTrue, SettledIsCommitted,
         RecoveryProgress, ReaderIsCommitted, [Next]_vars
  PROVE  ReaderIsCommitted'
<1>1. ASSUME Commit PROVE ReaderIsCommitted'
  BY <1>1, RequiredNames
  DEF ReaderIsCommitted, Commit, disk, memory, observers
<1>2. ASSUME SwapReader PROVE ReaderIsCommitted'
  BY <1>2, RequiredNames
  DEF ReaderIsCommitted, SwapReader, disk, memory, observers,
      SettledIsCommitted
<1>3. ASSUME Start PROVE ReaderIsCommitted'
  BY <1>3, RequiredNames
  DEF ReaderIsCommitted, Start, disk, memory, observers, SettledIsCommitted,
      CommittedIsWhole, Required
<1>4. ASSUME NEW i \in Backups, FinishRecovery(i) PROVE ReaderIsCommitted'
  BY <1>4, RequiredNames
  DEF ReaderIsCommitted, FinishRecovery, disk, memory, observers,
      RecordIsTrue, RecoveryProgress, OnePending, SettledIsCommitted,
      CommittedIsWhole, Required
<1>5. CASE
        \/ FailCreate \/ RecordOriginals \/ StartMoving \/ FailMove
        \/ FinishMoving \/ RejectReader \/ FailCommit \/ StartRestoring
        \/ FinishRollback \/ Preserve \/ StartRecovery \/ FailRecovery \/ Stop
        \/ Kill
  BY <1>5, RequiredNames
  DEF ReaderIsCommitted, FailCreate, RecordOriginals, StartMoving, FailMove,
      BeginRollback, FinishMoving, RejectReader, FailCommit, StartRestoring,
      FinishRollback, Preserve, StartRecovery, FailRecovery, GoDown, Stop,
      Kill, disk, memory, observers
<1>6. ASSUME NEW S \in SUBSET Names, Begin(S) PROVE ReaderIsCommitted'
  BY <1>6, RequiredNames
  DEF ReaderIsCommitted, Begin, disk, memory, observers
<1>7. ASSUME NEW n \in Names,
        \/ Withdraw(n) \/ BackUpCore(n) \/ PublishFile(n) \/ FailSync(n)
        \/ RemovePublished(n) \/ FailRemove(n) \/ RestoreBackup(n)
        \/ KeepBackup(n) \/ FailRestore(n)
      PROVE ReaderIsCommitted'
  BY <1>7, RequiredNames
  DEF ReaderIsCommitted, Withdraw, BackUp, Save, Rename, BackUpCore,
      PublishFile, FailSync, RemovePublished, FailRemove, RestoreBackup,
      KeepBackup, FailRestore, disk, memory, observers
<1>8. ASSUME NEW i \in Backups,
        \/ ReclaimRecord(i) \/ ReclaimMarker(i)
      PROVE ReaderIsCommitted'
  BY <1>8, RequiredNames
  DEF ReaderIsCommitted, ReclaimRecord, ReclaimMarker, disk, memory, observers
<1>9. ASSUME NEW i \in Backups, NEW n \in Names,
        \/ RecoverRemove(i, n) \/ RecoverRestore(i, n) \/ RecoverKeep(i, n)
        \/ ReclaimFile(i, n)
      PROVE ReaderIsCommitted'
  BY <1>9, RequiredNames
  DEF ReaderIsCommitted, RecoverRemove, Rename, Recovering, RecoverRestore,
      RecoverKeep, ReclaimFile, disk, memory, observers
<1>10. CASE UNCHANGED vars
  BY <1>10, RequiredNames
  DEF ReaderIsCommitted, vars, disk, memory, observers
<1>11. CASE PersistFilenames
  BY <1>11, SidecarOnly DEF ReaderIsCommitted, Core
<1> QED
  BY <1>1, <1>2, <1>3, <1>4, <1>5, <1>6, <1>7, <1>8, <1>9, <1>10, <1>11
  DEF Next, Publish, Rollback, Recover, Reclaim

\* Attempts are numbered upwards, and a commit is of the latest.
LEMMA BuildsStep ==
  ASSUME TypeOK, NewBuild, BuildsGoForward, [Next]_vars
  PROVE  BuildsGoForward'
<1>1. ASSUME NEW S \in SUBSET Names, Begin(S) PROVE BuildsGoForward'
  <2>1. attempt' = attempt + 1 /\ committed' = committed
    BY <1>1 DEF Begin, observers
  <2> QED
    BY <2>1 DEF BuildsGoForward, TypeOK
<1>2. ASSUME Commit PROVE BuildsGoForward'
  <2>1. attempt' = attempt /\ committed' = target /\ phase' = "swapping"
    BY <1>2 DEF Commit
  <2>2. target["index"] = attempt
    BY <1>2 DEF Commit, NewBuild, Required, Core
  <2> QED
    BY <2>1, <2>2 DEF BuildsGoForward, TypeOK, Active
<1>3. CASE
        \/ FailCreate \/ RecordOriginals \/ StartMoving \/ FailMove
        \/ FinishMoving \/ RejectReader \/ FailCommit \/ SwapReader
        \/ StartRestoring \/ FinishRollback \/ Preserve \/ Start
        \/ StartRecovery \/ FailRecovery \/ Stop \/ Kill
  BY <1>3
  DEF BuildsGoForward, Active, FailCreate, RecordOriginals, StartMoving,
      FailMove, BeginRollback, FinishMoving, RejectReader, FailCommit,
      SwapReader, StartRestoring, FinishRollback, Preserve, Start,
      StartRecovery, FailRecovery, GoDown, Stop, Kill, disk, memory, observers
<1>4. ASSUME NEW n \in Names,
        \/ Withdraw(n) \/ BackUpCore(n) \/ PublishFile(n) \/ FailSync(n)
        \/ RemovePublished(n) \/ FailRemove(n) \/ RestoreBackup(n)
        \/ KeepBackup(n) \/ FailRestore(n)
      PROVE BuildsGoForward'
  BY <1>4
  DEF BuildsGoForward, Active, Withdraw, BackUp, Save, Rename, BackUpCore,
      PublishFile, FailSync, RemovePublished, FailRemove, RestoreBackup,
      KeepBackup, FailRestore, disk, memory, observers
<1>5. ASSUME NEW i \in Backups,
        \/ FinishRecovery(i) \/ ReclaimRecord(i) \/ ReclaimMarker(i)
      PROVE BuildsGoForward'
  BY <1>5
  DEF BuildsGoForward, Active, FinishRecovery, ReclaimRecord, ReclaimMarker,
      disk, memory, observers
<1>6. ASSUME NEW i \in Backups, NEW n \in Names,
        \/ RecoverRemove(i, n) \/ RecoverRestore(i, n) \/ RecoverKeep(i, n)
        \/ ReclaimFile(i, n)
      PROVE BuildsGoForward'
  BY <1>6
  DEF BuildsGoForward, Active, RecoverRemove, Rename, Recovering,
      RecoverRestore, RecoverKeep, ReclaimFile, disk, memory, observers
<1>7. CASE UNCHANGED vars
  BY <1>7
  DEF BuildsGoForward, Active, vars, disk, memory, observers
<1>8. CASE PersistFilenames
  BY <1>8, SidecarOnly DEF BuildsGoForward, Active
<1> QED
  BY <1>1, <1>2, <1>3, <1>4, <1>5, <1>6, <1>7, <1>8
  DEF Next, Publish, Rollback, Recover, Reclaim

-----------------------------------------------------------------------------
(* The order of the meta. *)

\* The meta is out of the way whenever a core file is replaced or restored.
LEMMA MetaStep ==
  ASSUME TypeOK, MemoryIsTrue, NewBuild, MetaGoesFirst, [Next]_vars
  PROVE  MetaGoesFirst'
<1>1. ASSUME RecordOriginals PROVE MetaGoesFirst'
  BY <1>1
  DEF MetaGoesFirst, RollingBack, RecordOriginals, disk, memory, observers,
      MemoryIsTrue, Active
<1>2. ASSUME StartMoving PROVE MetaGoesFirst'
  <2>1. "meta" \in staged' /\ phase' = "moving"
    BY <1>2 DEF StartMoving, NewBuild, Required
  <2>2. target'["meta"] = Absent
    BY <1>2, RequiredNames DEF StartMoving, Withdrawn, Present, Required, disk
  <2> QED
    BY <2>1, <2>2 DEF MetaGoesFirst, RollingBack
<1>3. ASSUME FailMove PROVE MetaGoesFirst'
  <2>1. /\ phase' = "removing" /\ staged' = {} /\ todo' = published
        /\ UNCHANGED <<target, backedUp, published, failed, repairing>>
    BY <1>3 DEF FailMove, BeginRollback, disk, observers
  <2>2. ~failed
    BY <1>3 DEF FailMove, MemoryIsTrue, RollingBack
  <2>3. phase = "recording" => published = {} /\ backedUp = {}
    BY DEF MemoryIsTrue, Active
  <2> QED
    BY <1>3, <2>1, <2>2, <2>3 DEF FailMove, MetaGoesFirst, RollingBack
<1>4. ASSUME NEW n \in Names, Withdraw(n) PROVE MetaGoesFirst'
  <2>1. n \notin Core
    BY <1>4 DEF Withdraw, First, Withdrawn, Core
  <2> QED
    BY <1>4, <2>1 DEF MetaGoesFirst, RollingBack, Withdraw, BackUp, Save, observers
<1>5. ASSUME NEW n \in Names, BackUpCore(n) PROVE MetaGoesFirst'
  <2>1. /\ "meta" \in staged /\ phase = "moving"
        /\ target' = [target EXCEPT ![n] = Absent]
        /\ UNCHANGED <<phase, staged, published>>
    BY <1>5 DEF MetaGoesFirst, BackUpCore, First, BackUp, Rename
  <2>2. target["meta"] = Absent
    BY <2>1 DEF MetaGoesFirst
  <2>3. target'["meta"] = Absent
    BY <2>1, <2>2 DEF TypeOK, Directory
  <2> QED
    BY <2>1, <2>3 DEF MetaGoesFirst, RollingBack
<1>6. ASSUME NEW n \in Names, PublishFile(n) PROVE MetaGoesFirst'
  <2>1. /\ "meta" \in staged /\ n \in staged /\ phase = "moving"
        /\ target' = [target EXCEPT ![n] = attempt]
        /\ staged' = staged \ {n} /\ published' = published \cup {n}
        /\ UNCHANGED phase
    BY <1>6 DEF MetaGoesFirst, PublishFile, First, Rename
  <2>2. CASE n = "meta"
    <3>1. \A m \in staged : PublishRank["meta"] <= PublishRank[m]
      BY <1>6, <2>2 DEF PublishFile, First
    <3>2. \A m \in staged : m = "meta"
      BY <3>1, MetaIsLast DEF TypeOK
    <3> QED
      BY <2>1, <2>2, <3>2 DEF MetaGoesFirst, RollingBack
  <2>3. CASE n # "meta"
    <3>1. target'["meta"] = Absent
      BY <2>1, <2>3 DEF MetaGoesFirst, TypeOK, Directory
    <3> QED
      BY <2>1, <2>3, <3>1 DEF MetaGoesFirst, RollingBack
  <2> QED
    BY <2>2, <2>3
<1>7. ASSUME RejectReader PROVE MetaGoesFirst'
  BY <1>7
  DEF MetaGoesFirst, RollingBack, RejectReader, BeginRollback, disk, memory,
      observers, MemoryIsTrue
<1>8. ASSUME FailCommit PROVE MetaGoesFirst'
  BY <1>8
  DEF MetaGoesFirst, RollingBack, FailCommit, BeginRollback, disk, memory,
      observers, MemoryIsTrue
<1>9. ASSUME Commit PROVE MetaGoesFirst'
  BY <1>9
  DEF MetaGoesFirst, RollingBack, Commit, disk, memory, observers
<1>10. ASSUME NEW n \in Names, RemovePublished(n) PROVE MetaGoesFirst'
  <2>1. /\ n \in todo /\ phase = "removing"
        /\ target' = [target EXCEPT ![n] = Absent]
        /\ UNCHANGED <<phase, failed, repairing, staged>>
    BY <1>10 DEF RemovePublished, Last, Rename, observers
  <2>2. "meta" \in todo => n = "meta"
    BY <1>10, MetaIsLast DEF RemovePublished, Last, TypeOK
  <2>3. n = "meta" => target'["meta"] = Absent
    BY <2>1 DEF TypeOK, Directory
  <2>4. ~repairing => n = "meta" \/ target["meta"] = Absent
    BY <2>1, <2>2 DEF MetaGoesFirst
  <2>5. ~repairing => target'["meta"] = Absent
    BY <2>1, <2>3, <2>4 DEF TypeOK, Directory
  <2> QED
    BY <2>1, <2>5 DEF MetaGoesFirst, RollingBack
<1>11. ASSUME NEW n \in Names, FailRemove(n) PROVE MetaGoesFirst'
  BY <1>11
  DEF MetaGoesFirst, RollingBack, FailRemove, disk, memory, observers
<1>12. ASSUME NEW n \in Names, RestoreBackup(n) PROVE MetaGoesFirst'
  <2>1. /\ n \in todo /\ n \in Names /\ phase = "restoring"
        /\ target' = [target EXCEPT ![n] = saved[attempt][n]]
        /\ todo' = todo \ {n}
        /\ UNCHANGED <<phase, failed, repairing, staged, published>>
    BY <1>12 DEF RestoreBackup, Last, Rename, observers
  <2>2. CASE n = "meta"
    <3>1. \A m \in todo : m \notin Core
      BY <1>12, <2>2, MetaIsRestoredLate DEF RestoreBackup, Last, TypeOK
    <3> QED
      BY <2>1, <3>1 DEF MetaGoesFirst, RollingBack
  <2>3. CASE n # "meta"
    <3>1. target'["meta"] = target["meta"]
      BY <2>1, <2>3 DEF TypeOK, Directory
    <3> QED
      BY <2>1, <3>1 DEF MetaGoesFirst, RollingBack
  <2> QED
    BY <2>2, <2>3
<1>13. ASSUME StartRestoring PROVE MetaGoesFirst'
  <2>1. ~repairing => target["meta"] = Absent \/ backedUp \cap Core = {}
    BY <1>13 DEF StartRestoring, MetaGoesFirst
  <2> QED
    BY <1>13, <2>1 DEF StartRestoring, MetaGoesFirst, RollingBack, disk, observers
<1>14. CASE
        \/ FailCreate \/ FinishMoving \/ SwapReader \/ FinishRollback
        \/ Preserve \/ Start \/ StartRecovery \/ FailRecovery \/ Stop \/ Kill
  BY <1>14
  DEF MetaGoesFirst, RollingBack, FailCreate, FinishMoving, SwapReader,
      FinishRollback, Preserve, Start, StartRecovery, FailRecovery, GoDown,
      Stop, Kill, disk, memory, observers
<1>15. ASSUME NEW S \in SUBSET Names, Begin(S) PROVE MetaGoesFirst'
  BY <1>15
  DEF MetaGoesFirst, RollingBack, Begin, disk, memory, observers
<1>16. ASSUME NEW n \in Names,
        \/ FailSync(n) \/ KeepBackup(n) \/ FailRestore(n)
      PROVE MetaGoesFirst'
  BY <1>16
  DEF MetaGoesFirst, RollingBack, FailSync, Rename, KeepBackup, FailRestore,
      disk, memory, observers
<1>17. ASSUME NEW i \in Backups,
        \/ FinishRecovery(i) \/ ReclaimRecord(i) \/ ReclaimMarker(i)
      PROVE MetaGoesFirst'
  BY <1>17
  DEF MetaGoesFirst, RollingBack, FinishRecovery, ReclaimRecord,
      ReclaimMarker, disk, memory, observers
<1>18. ASSUME NEW i \in Backups, NEW n \in Names,
        \/ RecoverRemove(i, n) \/ RecoverRestore(i, n) \/ RecoverKeep(i, n)
        \/ ReclaimFile(i, n)
      PROVE MetaGoesFirst'
  BY <1>18
  DEF MetaGoesFirst, RollingBack, RecoverRemove, Rename, Recovering,
      RecoverRestore, RecoverKeep, ReclaimFile, disk, memory, observers
<1>19. CASE UNCHANGED vars
  BY <1>19
  DEF MetaGoesFirst, RollingBack, vars, disk, memory, observers
<1>20. CASE PersistFilenames
  BY <1>20, SidecarOnly DEF MetaGoesFirst, RollingBack
<1> QED
  BY <1>1, <1>2, <1>3, <1>4, <1>5, <1>6, <1>7, <1>8, <1>9, <1>10, <1>11,
     <1>12, <1>13, <1>14, <1>15, <1>16, <1>17, <1>18, <1>19, <1>20
  DEF Next, Publish, Rollback, Recover, Reclaim

\* So a directory with a meta is of one build, if no repair is under way.
LEMMA WholeStep ==
  ASSUME TypeOK, OnePending, RecordIsTrue, SettledIsCommitted, MemoryIsTrue,
         RollbackProgress, RecoveryProgress, NewBuild, MetaGoesFirst,
         MetaIsWhole, [Next]_vars
  PROVE  MetaIsWhole'
<1>1. ASSUME NEW n \in Names, Withdraw(n) PROVE MetaIsWhole'
  <2>1. target' = [target EXCEPT ![n] = Absent] /\ n \notin Core
        /\ UNCHANGED repairing
    BY <1>1 DEF Withdraw, First, Withdrawn, BackUp, Rename, Core, observers
  <2>2. \A m \in Core : target'[m] = target[m]
    BY <2>1, RequiredNames DEF TypeOK, Directory
  <2>3. target'["meta"] \in {Absent, target["meta"]}
    BY <2>1, RequiredNames DEF TypeOK, Directory, Required
  <2> QED
    BY <2>1, <2>2, <2>3 DEF MetaIsWhole
<1>2. ASSUME NEW n \in Names, BackUpCore(n) PROVE MetaIsWhole'
  <2>1. target["meta"] = Absent /\ target' = [target EXCEPT ![n] = Absent]
    BY <1>2 DEF BackUpCore, First, MetaGoesFirst, BackUp, Rename
  <2>2. target'["meta"] = Absent
    BY <2>1 DEF TypeOK, Directory
  <2> QED
    BY <2>2 DEF MetaIsWhole
<1>3. ASSUME NEW n \in Names, PublishFile(n) PROVE MetaIsWhole'
  <2>1. /\ "meta" \in staged /\ target["meta"] = Absent
        /\ target' = [target EXCEPT ![n] = attempt] /\ n \in staged
    BY <1>3 DEF PublishFile, First, MetaGoesFirst, Rename
  <2>2. CASE n # "meta"
    <3>1. target'["meta"] = Absent
      BY <2>1, <2>2 DEF TypeOK, Directory
    <3> QED
      BY <3>1 DEF MetaIsWhole
  <2>3. CASE n = "meta"
    <3>1. \A m \in staged : m = "meta"
      BY <1>3, <2>3, MetaIsLast DEF PublishFile, First, TypeOK
    <3>2. \A m \in Core : m \in Required /\ m # "meta"
      BY DEF Core, Required
    <3>3. \A m \in Core : target[m] = attempt
      BY <1>3, <3>1, <3>2 DEF PublishFile, NewBuild
    <3>4. \A m \in Core \cup {"meta"} : target'[m] = attempt
      BY <2>1, <2>3, <3>2, <3>3, RequiredNames DEF TypeOK, Directory
    <3> QED
      BY <3>4 DEF MetaIsWhole
  <2> QED
    BY <2>2, <2>3
<1>4. ASSUME NEW n \in Names, FailSync(n) PROVE MetaIsWhole'
  BY <1>4 DEF FailSync, MetaIsWhole
<1>5. ASSUME NEW n \in Names, RemovePublished(n) PROVE MetaIsWhole'
  <2>1. /\ n \in todo /\ phase = "removing"
        /\ target' = [target EXCEPT ![n] = Absent] /\ UNCHANGED repairing
    BY <1>5 DEF RemovePublished, Last, Rename, observers
  <2>2. "meta" \in todo => n = "meta"
    BY <1>5, MetaIsLast DEF RemovePublished, Last, TypeOK
  <2>3. n = "meta" => target'["meta"] = Absent
    BY <2>1 DEF TypeOK, Directory
  <2>4. ~repairing => n = "meta" \/ target["meta"] = Absent
    BY <2>1, <2>2 DEF MetaGoesFirst
  <2>5. ~repairing => target'["meta"] = Absent
    BY <2>1, <2>3, <2>4 DEF TypeOK, Directory
  <2> QED
    BY <2>1, <2>5 DEF MetaIsWhole
<1>6. ASSUME NEW n \in Names, RestoreBackup(n) PROVE MetaIsWhole'
  <2>1. /\ n \in todo /\ phase = "restoring"
        /\ target' = [target EXCEPT ![n] = saved[attempt][n]]
        /\ UNCHANGED repairing
    BY <1>6 DEF RestoreBackup, Last, Rename, observers
  <2>2. CASE n # "meta"
    <3>1. target'["meta"] = target["meta"]
      BY <2>1, <2>2 DEF TypeOK, Directory
    <3>2. ~repairing => target["meta"] = Absent \/ n \notin Core
      BY <2>1 DEF MetaGoesFirst
    <3>3. n \notin Core => \A m \in Core : target'[m] = target[m]
      BY <2>1, RequiredNames DEF TypeOK, Directory
    <3> QED
      BY <2>1, <3>1, <3>2, <3>3 DEF MetaIsWhole
  <2>3. CASE n = "meta"
    <3> SUFFICES ASSUME ~repairing PROVE \A m \in Core : target'[m] = target'["meta"]
      BY <2>1 DEF MetaIsWhole
    <3>1. \A m \in todo : m \notin Core
      BY <1>6, <2>3, MetaIsRestoredLate DEF RestoreBackup, Last, TypeOK
    <3>2. attempt \in Pending /\ n \in backedUp /\ backedUp \subseteq todo
      BY <1>6, <2>1 DEF RestoreBackup, Last, OnePending, RollingBack, RollbackProgress,
                     MetaGoesFirst
    <3>3. \A m \in Core \cup {"meta"} : m \notin stray /\ committed[m] # Absent
      BY RequiredNames, AbsentAssumption
      DEF SettledIsCommitted, CommittedIsWhole, Required, TypeOK
    <3>4. \A m \in Core : saved[attempt][m] = Absent
      BY <2>1, <3>1, <3>2, RequiredNames DEF MemoryIsTrue, Active
    <3>5. \A m \in Core : target[m] = committed[m]
      BY <3>2, <3>3, <3>4, RequiredNames DEF RecordIsTrue
    <3>6. saved[attempt]["meta"] = committed["meta"]
      BY <2>1, <2>3, <3>2, <3>3 DEF RecordIsTrue, MemoryIsTrue, Active
    <3>7. "meta" \notin Core /\ "meta" \in Names
      BY RequiredNames DEF Core, Required
    <3>8. /\ target'["meta"] = committed["meta"]
          /\ \A m \in Core : target'[m] = committed[m]
      BY <2>1, <2>3, <3>5, <3>6, <3>7, RequiredNames DEF TypeOK, Directory
    <3>9. \A m \in Core \cup {"meta"} : committed[m] = committed["index"]
      BY DEF SettledIsCommitted, CommittedIsWhole, Required
    <3> QED
      BY <3>8, <3>9
  <2> QED
    BY <2>2, <2>3
<1>7. ASSUME FinishRollback PROVE MetaIsWhole'
  <2>1. Pending' = {}
    BY <1>7 DEF FinishRollback, OnePending, Pending, RollingBack
  <2>2. SettledIsCommitted'
    BY SettledStep
  <2>3. \A m \in Required : m \notin stray'
    BY <2>2 DEF SettledIsCommitted, CommittedIsWhole
  <2>4. \A m \in Required : target'[m] = committed'["index"]
    BY <2>1, <2>2, <2>3, RequiredNames DEF SettledIsCommitted, CommittedIsWhole
  <2> QED
    BY <2>4 DEF MetaIsWhole, Required
<1>8. ASSUME NEW i \in Backups, FinishRecovery(i) PROVE MetaIsWhole'
  <2>1. Pending' = {}
    BY <1>8 DEF FinishRecovery, OnePending, Pending
  <2>2. SettledIsCommitted'
    BY SettledStep
  <2>3. \A m \in Required : m \notin stray'
    BY <2>2 DEF SettledIsCommitted, CommittedIsWhole
  <2>4. \A m \in Required : target'[m] = committed'["index"]
    BY <2>1, <2>2, <2>3, RequiredNames DEF SettledIsCommitted, CommittedIsWhole
  <2> QED
    BY <2>4 DEF MetaIsWhole, Required
<1>9. ASSUME NEW i \in Backups, NEW n \in Names, RecoverRemove(i, n) PROVE MetaIsWhole'
  BY <1>9 DEF RecoverRemove, MetaIsWhole
<1>10. ASSUME NEW i \in Backups, NEW n \in Names, RecoverRestore(i, n) PROVE MetaIsWhole'
  BY <1>10 DEF RecoverRestore, MetaIsWhole
<1>11. CASE
        \/ FailCreate \/ RecordOriginals \/ StartMoving \/ FailMove
        \/ FinishMoving \/ RejectReader \/ FailCommit \/ Commit \/ SwapReader
        \/ StartRestoring \/ Preserve \/ Start \/ StartRecovery \/ FailRecovery
        \/ Stop \/ Kill
  BY <1>11
  DEF MetaIsWhole, FailCreate, RecordOriginals, StartMoving, FailMove,
      BeginRollback, FinishMoving, RejectReader, FailCommit, Commit,
      SwapReader, StartRestoring, Preserve, Start, StartRecovery,
      FailRecovery, GoDown, Stop, Kill, disk, memory, observers
<1>12. ASSUME NEW S \in SUBSET Names, Begin(S) PROVE MetaIsWhole'
  BY <1>12
  DEF MetaIsWhole, Begin, disk, memory, observers
<1>13. ASSUME NEW n \in Names,
        \/ FailRemove(n) \/ KeepBackup(n) \/ FailRestore(n)
      PROVE MetaIsWhole'
  BY <1>13
  DEF MetaIsWhole, FailRemove, KeepBackup, FailRestore, disk, memory,
      observers
<1>14. ASSUME NEW i \in Backups,
        \/ ReclaimRecord(i) \/ ReclaimMarker(i)
      PROVE MetaIsWhole'
  BY <1>14
  DEF MetaIsWhole, ReclaimRecord, ReclaimMarker, disk, memory, observers
<1>15. ASSUME NEW i \in Backups, NEW n \in Names,
        \/ RecoverKeep(i, n) \/ ReclaimFile(i, n)
      PROVE MetaIsWhole'
  BY <1>15
  DEF MetaIsWhole, RecoverKeep, Recovering, ReclaimFile, disk, memory,
      observers
<1>16. CASE UNCHANGED vars
  BY <1>16
  DEF MetaIsWhole, vars, disk, memory, observers
<1>17. CASE PersistFilenames
  BY <1>17, SidecarOnly DEF MetaIsWhole, Core
<1> QED
  BY <1>1, <1>2, <1>3, <1>4, <1>5, <1>6, <1>7, <1>8, <1>9, <1>10, <1>11,
     <1>12, <1>13, <1>14, <1>15, <1>16, <1>17
  DEF Next, Publish, Rollback, Recover, Reclaim

-----------------------------------------------------------------------------
(* The theorems. *)

LEMMA InitInv == Init => PublicationInv
<1> SUFFICES ASSUME Init PROVE PublicationInv
  OBVIOUS
<1>1. PICK S \in {S \in SUBSET Names : Required \subseteq S} :
        target = [n \in Names |-> IF n \in S THEN 0 ELSE Absent]
  BY DEF Init
<1>2. \A n \in Required : target[n] = 0
  BY <1>1, RequiredNames
<1>3. target["evidence"] \in {Absent, 0}
  BY <1>1, NamesAre
<1>4. 0 # Absent
  BY AbsentAssumption
<1>5. SettledIsCommitted /\ MetaIsWhole
  BY <1>2, <1>3, <1>4
  DEF Init, SettledIsCommitted, CommittedIsWhole, MetaIsWhole, Required, Core
<1>6. BuildsGoForward
  BY <1>2, BoundsAssumption DEF Init, BuildsGoForward, Active, Required, Core
<1>7. /\ BackupsAreFresh /\ OnePending /\ RecordIsTrue /\ MemoryIsTrue
      /\ BackedUpOnce /\ RollbackProgress /\ RecoveryProgress /\ NewBuild
      /\ ReaderIsCommitted /\ MetaGoesFirst
  BY DEF Init, BackupsAreFresh, OnePending, RecordIsTrue, MemoryIsTrue,
         BackedUpOnce, RollbackProgress, RecoveryProgress, NewBuild,
         ReaderIsCommitted, MetaGoesFirst, Active, RollingBack, Pending
<1> QED
  BY <1>5, <1>6, <1>7 DEF PublicationInv

LEMMA InvStep ==
  ASSUME TypeOK, PublicationInv, [Next]_vars
  PROVE  TypeOK' /\ PublicationInv'
<1>1. /\ BackupsAreFresh /\ OnePending /\ RecordIsTrue /\ SettledIsCommitted
      /\ MemoryIsTrue /\ BackedUpOnce /\ RollbackProgress /\ RecoveryProgress
      /\ NewBuild /\ ReaderIsCommitted /\ BuildsGoForward
      /\ MetaGoesFirst /\ MetaIsWhole
  BY DEF PublicationInv
<1>2. TypeOK'
  BY <1>1, TypeStep
<1>3. BackupsAreFresh' /\ OnePending'
  BY <1>1, BackupsAreFreshStep, OnePendingStep
<1>4. RecordIsTrue' /\ SettledIsCommitted'
  BY <1>1, RecordIsTrueStep, SettledStep
<1>5. MemoryIsTrue' /\ BackedUpOnce'
  BY <1>1, MemoryStep, BackedUpOnceStep
<1>6. RollbackProgress' /\ RecoveryProgress'
  BY <1>1, RollbackStep, RecoveryStep
<1>7. NewBuild' /\ ReaderIsCommitted' /\ BuildsGoForward'
  BY <1>1, NewBuildStep, ReaderStep, BuildsStep
<1>8. MetaGoesFirst' /\ MetaIsWhole'
  BY <1>1, MetaStep, WholeStep
<1> QED
  BY <1>2, <1>3, <1>4, <1>5, <1>6, <1>7, <1>8 DEF PublicationInv

\* What is on disk and in the server always agrees, whatever fails and
\* whenever the server is killed.
THEOREM PublicationSafe == Spec => [](TypeOK /\ PublicationInv)
<1>1. Init => TypeOK /\ PublicationInv
  BY InitType, InitInv
<1>2. TypeOK /\ PublicationInv /\ [Next]_vars => TypeOK' /\ PublicationInv'
  BY InvStep
<1> QED
  BY <1>1, <1>2, PTL DEF Spec

\* The variables keep their types.
THEOREM TypeCorrect == Spec => []TypeOK
  BY PublicationSafe, PTL

\* A server that publishes and answers does so over the index last committed.
THEOREM IdleServesCommitted == Spec => []IdleIsCommitted
<1>1. TypeOK /\ PublicationInv => IdleIsCommitted
  BY DEF PublicationInv, ReaderIsCommitted, OnePending, SettledIsCommitted,
         IdleIsCommitted
<1> QED
  BY <1>1, PublicationSafe, PTL

\* Each file last committed is in place or in the one backup to recover from.
THEOREM CommittedSurvives == Spec => []NothingIsLost
<1>1. TypeOK /\ PublicationInv => NothingIsLost
  <2> SUFFICES ASSUME PublicationInv, NEW n \in Present(committed)
               PROVE  \/ target[n] = committed[n]
                      \/ \E i \in Pending : Pending = {i} /\ saved[i][n] = committed[n]
    BY DEF NothingIsLost
  <2>1. n \in Names /\ n \notin stray /\ committed[n] # Absent
    BY DEF PublicationInv, SettledIsCommitted, Present
  <2>2. CASE Pending = {}
    BY <2>1, <2>2 DEF PublicationInv, SettledIsCommitted
  <2>3. CASE Pending # {}
    <3>1. PICK i \in Pending : Pending = {i}
      BY <2>3 DEF PublicationInv, OnePending
    <3>2. \/ target[n] = committed[n]
          \/ saved[i][n] = committed[n]
      BY <2>1, <3>1 DEF PublicationInv, RecordIsTrue
    <3> QED
      BY <3>1, <3>2
  <2> QED
    BY <2>2, <2>3
<1> QED
  BY <1>1, PublicationSafe, PTL

\* Recovery never meets a state it refuses.
THEOREM RecoveryNeverRefuses == Spec => []RecoveryIsPossible
<1>1. TypeOK /\ PublicationInv => RecoveryIsPossible
  <2> SUFFICES ASSUME TypeOK, PublicationInv, NEW i \in Pending
               PROVE  /\ Pending = {i}
                      /\ Present(saved[i]) \subseteq original[i]
                      /\ original[i] \subseteq Present(target) \cup Present(saved[i])
    BY DEF RecoveryIsPossible
  <2>1. Pending = {i}
    BY DEF PublicationInv, OnePending
  <2>2. i \in Backups /\ original[i] \subseteq Names
    BY DEF TypeOK, Pending
  <2>3. \A n \in Names : saved[i][n] # Absent => n \in original[i]
    BY DEF PublicationInv, RecordIsTrue
  <2>4. \A n \in original[i] : target[n] # Absent \/ saved[i][n] # Absent
    BY <2>2 DEF PublicationInv, RecordIsTrue
  <2> QED
    BY <2>1, <2>2, <2>3, <2>4 DEF Present
<1> QED
  BY <1>1, PublicationSafe, PTL

\* A committed index is of one build.
THEOREM CommitsAreWhole == Spec => []CommittedIsWhole
<1>1. TypeOK /\ PublicationInv => CommittedIsWhole
  BY DEF PublicationInv, SettledIsCommitted
<1> QED
  BY <1>1, PublicationSafe, PTL

\* A trusted directory is of one build unless a repair is under way, even if
\* the builds' path tables are the same.
THEOREM TrustIsEarned == Spec => []UnrepairedIsWhole
<1>1. TypeOK /\ PublicationInv => UnrepairedIsWhole
  BY DEF PublicationInv, MetaIsWhole, UnrepairedIsWhole, Trusted, Required, Present
<1> QED
  BY <1>1, PublicationSafe, PTL

\* While a failed rollback waits for a restart, nothing touches the directory
\* or the backup.
THEOREM BlockedStays == Spec => BlockedIsPreserved
<1>1. ASSUME TypeOK, PublicationInv, [Next]_vars, blocked, blocked'
      PROVE  /\ UNCHANGED target /\ Pending' = Pending
             /\ \A i \in Pending : saved'[i] = saved[i]
  <2>1. phase = "idle"
    BY <1>1 DEF PublicationInv, OnePending
  <2>2. ~Publish /\ ~Rollback /\ ~PersistFilenames /\ ~Stop /\ ~Kill
    BY <1>1, <2>1
    DEF PersistFilenames, Publish, Rollback, Begin, FailCreate, RecordOriginals, StartMoving,
        FailMove, Withdraw, BackUpCore, PublishFile, FailSync, FinishMoving,
        RejectReader, FailCommit, Commit, SwapReader, RemovePublished,
        FailRemove, RestoreBackup, KeepBackup, FailRestore, StartRestoring,
        FinishRollback, Preserve, Stop, Kill, GoDown
  <2>3. ~Recover
    BY <1>1, <2>1
    DEF Recover, Start, StartRecovery, FailRecovery, FinishRecovery,
        RecoverRemove, RecoverRestore, RecoverKeep, Recovering
  <2>4. ASSUME NEW i \in Backups, NEW n \in Names, ReclaimFile(i, n)
        PROVE  /\ UNCHANGED target /\ Pending' = Pending
               /\ \A j \in Pending : saved'[j] = saved[j]
    BY <1>1, <2>4 DEF ReclaimFile, Pending, TypeOK
  <2>5. ASSUME NEW i \in Backups, ReclaimRecord(i) \/ ReclaimMarker(i)
        PROVE  /\ UNCHANGED target /\ Pending' = Pending
               /\ \A j \in Pending : saved'[j] = saved[j]
    BY <2>5 DEF ReclaimRecord, ReclaimMarker, Pending
  <2>6. CASE UNCHANGED vars
    BY <2>6 DEF vars, disk, Pending
  <2> QED
    BY <1>1, <2>2, <2>3, <2>4, <2>5, <2>6 DEF Next, Reclaim
<1>2. TypeOK /\ PublicationInv /\ [Next]_vars =>
        [blocked /\ blocked' =>
            /\ UNCHANGED target /\ Pending' = Pending
            /\ \A i \in Pending : saved'[i] = saved[i]]_vars
  BY <1>1
<1> QED
  BY <1>2, PublicationSafe, PTL DEF Spec, BlockedIsPreserved

-----------------------------------------------------------------------------
(* The refinement. *)

MapIsCommitted ==
    /\ RecoveredBuild = committed["index"]
    /\ phase \notin {"down", "recovering", "swapping"} => ReaderBuild = committed["index"]
    /\ phase \in {"down", "recovering"} => ReaderBuild = Absent

\* What a recovery would make of the disk is the index last committed.
LEMMA MapOfInv == TypeOK /\ PublicationInv => MapIsCommitted
<1> SUFFICES ASSUME TypeOK, PublicationInv PROVE MapIsCommitted
  OBVIOUS
<1>1. ASSUME NEW n \in Required PROVE Recovered(n) = committed[n]
  <2>1. n \in Names /\ n \notin stray /\ committed[n] # Absent
    BY <1>1, RequiredNames DEF PublicationInv, SettledIsCommitted, CommittedIsWhole
  <2>2. CASE \E i \in Pending : saved[i][n] # Absent
    <3>1. PICK i \in Pending : saved[i][n] # Absent
      BY <2>2
    <3>2. \A j \in Pending : saved[j][n] # Absent => saved[j][n] = committed[n]
      BY <2>1 DEF PublicationInv, RecordIsTrue
    <3> QED
      BY <2>2, <3>2 DEF Recovered
  <2>3. CASE ~ \E i \in Pending : saved[i][n] # Absent
    <3>1. Recovered(n) = target[n]
      BY <2>3 DEF Recovered
    <3>2. CASE Pending = {}
      BY <2>1, <3>1, <3>2 DEF PublicationInv, SettledIsCommitted
    <3>3. CASE Pending # {}
      BY <2>1, <2>3, <3>1, <3>3 DEF PublicationInv, RecordIsTrue
    <3> QED
      BY <3>2, <3>3
  <2> QED
    BY <2>2, <2>3
<1>2. "index" \in Required /\ \A n \in Required : committed[n] = committed["index"]
  BY DEF PublicationInv, SettledIsCommitted, CommittedIsWhole, Required, Core
<1>3. RecoveredBuild = committed["index"]
  BY <1>1, <1>2 DEF RecoveredBuild
<1>4. "index" \in Core /\ \A n \in Core : committed[n] = committed["index"]
  BY <1>2 DEF Required, Core
<1>5. phase \notin {"down", "recovering", "swapping"} => ReaderBuild = committed["index"]
  BY <1>4 DEF PublicationInv, ReaderIsCommitted, ReaderBuild
<1>6. phase \in {"down", "recovering"} => ReaderBuild = Absent
  <2>1. Empty["index"] = Absent
    BY NamesAre DEF Empty
  <2> QED
    BY <2>1 DEF PublicationInv, ReaderIsCommitted, ReaderBuild
<1> QED
  BY <1>3, <1>5, <1>6 DEF MapIsCommitted

LEMMA MapOfNextInv == (TypeOK /\ PublicationInv)' => MapIsCommitted'
  BY MapOfInv, PTL

\* Only Commit moves the committed index; a sidecar may join it.
LEMMA CommitMoves ==
  ASSUME [Next]_vars, committed' # committed
  PROVE  Commit \/ PersistFilenames
<1>1. ~Rollback
  BY DEF Rollback, RemovePublished, FailRemove, RestoreBackup, KeepBackup,
         FailRestore, StartRestoring, FinishRollback, Preserve, observers
<1>2. ~Recover
  BY DEF Recover, Start, StartRecovery, FailRecovery, FinishRecovery,
         RecoverRemove, RecoverRestore, RecoverKeep, GoDown, observers
<1>3. ~Reclaim /\ ~Stop /\ ~Kill /\ ~UNCHANGED vars
  BY DEF Reclaim, ReclaimFile, ReclaimRecord, ReclaimMarker, Stop, Kill, GoDown,
         vars, observers
<1>4. Publish => Commit
  BY DEF Publish, Begin, FailCreate, RecordOriginals, StartMoving, FailMove,
         Withdraw, BackUpCore, BackUp, PublishFile, FailSync, FinishMoving,
         RejectReader, FailCommit, BeginRollback, SwapReader, observers
<1> QED
  BY <1>1, <1>2, <1>3, <1>4 DEF Next

\* A reader is opened over the committed index, or closed.
LEMMA ReaderMoves ==
  ASSUME [Next]_vars, reader' # reader
  PROVE  phase' \in {"idle", "down"} /\ committed' = committed
<1>1. Rollback => FALSE
  BY DEF Rollback, RemovePublished, FailRemove, RestoreBackup, KeepBackup,
         FailRestore, StartRestoring, FinishRollback, Preserve
<1>2. Recover => phase' \in {"idle", "down"} /\ committed' = committed
  BY DEF Recover, Start, StartRecovery, FailRecovery, FinishRecovery,
         RecoverRemove, RecoverRestore, RecoverKeep, GoDown, memory, observers
<1>3. Reclaim \/ UNCHANGED vars => FALSE
  BY DEF Reclaim, ReclaimFile, ReclaimRecord, ReclaimMarker, vars, memory
<1>4. Stop \/ Kill => phase' = "down" /\ committed' = committed
  BY DEF Stop, Kill, GoDown, observers
<1>5. PersistFilenames => FALSE
  BY DEF PersistFilenames, memory
<1>6. Publish => phase' = "idle" /\ committed' = committed
  BY DEF Publish, Begin, FailCreate, RecordOriginals, StartMoving, FailMove,
         Withdraw, BackUpCore, BackUp, PublishFile, FailSync, FinishMoving,
         RejectReader, FailCommit, BeginRollback, Commit, SwapReader, observers
<1> QED
  BY <1>1, <1>2, <1>3, <1>4, <1>5, <1>6 DEF Next

LEMMA StepMaps ==
  ASSUME TypeOK, PublicationInv, PublicationInv', MapIsCommitted, MapIsCommitted',
         [Next]_vars
  PROVE  [Store!Next]_<<RecoveredBuild, ReaderBuild>>
<1>1. CASE Commit
  <2>1. phase = "opening" /\ reader' = reader /\ committed' = target /\ attempt' = attempt
    BY <1>1 DEF Commit
  <2>2. ReaderBuild = RecoveredBuild /\ ReaderBuild' = ReaderBuild
    BY <2>1 DEF MapIsCommitted, ReaderBuild
  <2>3. target["index"] = attempt
    BY <2>1 DEF PublicationInv, NewBuild, Required, Core
  <2>4. RecoveredBuild' \in Int /\ RecoveredBuild < RecoveredBuild'
    BY <2>1, <2>3 DEF PublicationInv, BuildsGoForward, MapIsCommitted, Active, TypeOK
  <2> QED
    BY <2>2, <2>4 DEF Store!Next, Store!Commit
<1>2. CASE committed' = committed /\ reader' # reader
  <2>1. RecoveredBuild' = RecoveredBuild
    BY <1>2 DEF MapIsCommitted
  <2>2. ReaderBuild' = RecoveredBuild \/ ReaderBuild' = Absent
    BY <1>2, ReaderMoves DEF MapIsCommitted
  <2> QED
    BY <2>1, <2>2 DEF Store!Next, Store!Open, Store!Close
<1>3. CASE committed' = committed /\ reader' = reader
  BY <1>3 DEF MapIsCommitted, ReaderBuild
<1>4. CASE PersistFilenames
  <2>1. committed'["index"] = committed["index"] /\ phase' = phase /\ reader' = reader
    BY <1>4, SidecarOnly, NamesAre DEF PublicationInv
  <2>2. phase = "idle"
    BY <1>4 DEF PersistFilenames
  <2> QED
    BY <2>1, <2>2 DEF MapIsCommitted
<1> QED
  BY <1>1, <1>2, <1>3, <1>4, CommitMoves

\* A publication is one step of an index that is replaced at once, and a
\* rollback, a kill and a recovery are none.
THEOREM Refinement == Spec => PublishesAtOnce
<1>1. Init => Store!Init
  <2> SUFFICES ASSUME Init PROVE Store!Init
    OBVIOUS
  <2>1. MapIsCommitted
    BY InitType, InitInv, MapOfInv
  <2>2. committed["index"] = 0
    <3>1. PICK S \in {S \in SUBSET Names : Required \subseteq S} :
            target = [n \in Names |-> IF n \in S THEN 0 ELSE Absent]
      BY DEF Init
    <3>2. "index" \in Required
      BY DEF Required, Core
    <3> QED
      BY <3>1, <3>2, RequiredNames DEF Init
  <2> QED
    BY <2>1, <2>2 DEF MapIsCommitted, Init, Store!Init
<1>2. TypeOK /\ PublicationInv /\ (TypeOK /\ PublicationInv)' /\ [Next]_vars
        => [Store!Next]_<<RecoveredBuild, ReaderBuild>>
  BY MapOfInv, MapOfNextInv, StepMaps
<1> QED
  BY <1>1, <1>2, PublicationSafe, PTL DEF Spec, PublishesAtOnce, Store!Spec

=============================================================================
