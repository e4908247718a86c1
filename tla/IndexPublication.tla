-------------------------- MODULE IndexPublication --------------------------
(***************************************************************************)
(* Publication of a staged index into a server's index directory, its      *)
(* rollback, and its recovery after a kill (tgrep-cli/src/serve.rs and     *)
(* serve/index_cleanup.rs).                                                *)
(*                                                                         *)
(* Six files make an index; no file system replaces six at once.  So a     *)
(* publication journals which of them existed, renames each into a backup  *)
(* directory before its successor takes its place, and counts only once a  *)
(* marker is written.  Every rename and removal is a step here: the server *)
(* may be killed, or the step may fail, between any two of them.  The      *)
(* publish lock makes the server a single sequential process.              *)
(*                                                                         *)
(* A file is the number of the build that wrote it.  The n-th publication  *)
(* publishes build n and uses the n-th backup directory.  What a rename    *)
(* did survives a kill (publish_staged_file syncs it).                     *)
(*                                                                         *)
(* A Broken_ definition is what a plausible slip would make of the         *)
(* definition it precedes; the specification never uses one.               *)
(***************************************************************************)
EXTENDS Integers, FiniteSets

CONSTANTS
    Absent,            \* no file
    PathsChange,       \* whether each build changes the table of paths
    Faults,            \* what may go wrong: "kill", "error", "sync"
    MaxPublications,   \* bound
    MaxFaults          \* bound

\* staged_publish_order, as ranks, and the order in which move_staged_files
\* takes backups: evidence and meta are withdrawn first.
PublishRank ==
    [index |-> 1, lookup |-> 2, files |-> 3, extra |-> 4, evidence |-> 5, meta |-> 6]
BackupRank ==
    [evidence |-> 1, meta |-> 2, index |-> 3, lookup |-> 4, files |-> 5, extra |-> 6]

Names == DOMAIN PublishRank
Core == {"index", "lookup", "files"}
Required == Core \cup {"meta"}       \* what every build writes

Builds == 0..MaxPublications
Backups == 1..MaxPublications
File == Builds \cup {Absent}
Directory == [Names -> File]
Empty == [n \in Names |-> Absent]

ASSUME AbsentAssumption == Absent \notin Int
ASSUME PathsChangeAssumption == PathsChange \in BOOLEAN
ASSUME FaultsAssumption == Faults \subseteq {"kill", "error", "sync"}
ASSUME BoundsAssumption == MaxPublications \in Nat /\ MaxFaults \in Nat

VARIABLES
    \* on disk
    target,      \* the index directory
    saved,       \* the backup directories
    recorded,    \* backups with a publication record,
    original,    \* and the files it lists
    marked,      \* backups with a committed marker
    \* in the server
    phase, staged, backedUp, published, todo, failed, blocked, reader,
    \* observers: the directory last committed, with any sidecar written for it
    \* since; a publication failed past its rename, a rollback failed or a
    \* recovery began, and nothing has put that right yet; new files whose sync
    \* failed
    committed, repairing, stray,
    \* bounds
    attempt, faults

disk == <<target, saved, recorded, original, marked>>
memory == <<phase, staged, backedUp, published, todo, failed, blocked, reader>>
observers == <<committed, repairing, stray>>
vars == <<disk, memory, observers, attempt, faults>>

Phases == {"down", "recovering", "idle", "recording", "withdrawing", "moving",
           "opening", "swapping", "removing", "restoring"}

Present(dir) == {n \in Names : dir[n] # Absent}
Pending == recorded \ marked

First(n, rank, S) == n \in S /\ \A m \in S : rank[n] <= rank[m]
Last(n, rank, S) == n \in S /\ \A m \in S : rank[m] <= rank[n]

\* A kind of fault strikes, if the environment has it and one is left.
Fault(kind) == kind \in Faults /\ faults < MaxFaults /\ faults' = faults + 1

Rename(dir, n, file) == [dir EXCEPT ![n] = file]
Save(n) == saved' = [saved EXCEPT ![attempt][n] = target[n]]

Init ==
    /\ target \in {[n \in Names |-> IF n \in S THEN 0 ELSE Absent] :
                   S \in {S \in SUBSET Names : Required \subseteq S}}
    /\ saved = [i \in Backups |-> Empty]
    /\ recorded = {} /\ marked = {}
    /\ original = [i \in Backups |-> {}]
    /\ phase = "down" /\ staged = {} /\ backedUp = {} /\ published = {}
    /\ todo = {} /\ failed = FALSE /\ blocked = FALSE /\ reader = Empty
    /\ committed = target /\ repairing = FALSE /\ stray = {}
    /\ attempt = 0 /\ faults = 0

-----------------------------------------------------------------------------
(* Publication: publish_staged_index and publish_reloaded_index, which     *)
(* differ in what they do to the overlay only, and move_staged_files.      *)

Broken_Begin(S) ==
    /\ phase = "idle" /\ attempt < MaxPublications
    /\ Required \subseteq S
    /\ attempt' = attempt + 1 /\ staged' = S /\ phase' = "recording"
    /\ UNCHANGED <<disk, backedUp, published, todo, failed, blocked, reader,
                   observers, faults>>

Broken_Sequence(S) ==
    /\ phase = "idle" /\ ~blocked /\ attempt < MaxPublications
    /\ Required \subseteq S
    /\ staged' = S /\ phase' = "recording"
    /\ UNCHANGED <<disk, backedUp, published, todo, failed, blocked, reader,
                   observers, attempt, faults>>

\* A build is staged, and the latch of a failed rollback is open.
Begin(S) ==
    /\ phase = "idle" /\ ~blocked /\ attempt < MaxPublications
    /\ Required \subseteq S
    /\ attempt' = attempt + 1 /\ staged' = S /\ phase' = "recording"
    /\ UNCHANGED <<disk, backedUp, published, todo, failed, blocked, reader,
                   observers, faults>>

\* BackupDir::create failed: nothing was touched.
FailCreate ==
    /\ phase = "recording" /\ Fault("error")
    /\ phase' = "idle" /\ staged' = {}
    /\ UNCHANGED <<disk, backedUp, published, todo, failed, blocked, reader,
                   observers, attempt>>

Broken_RecordOriginals ==
    /\ phase = "recording" /\ phase' = "withdrawing"
    /\ recorded' = recorded \cup {attempt}
    /\ original' = [original EXCEPT ![attempt] = staged]
    /\ UNCHANGED <<target, saved, marked, staged, backedUp, published, todo,
                   failed, blocked, reader, observers, attempt, faults>>

RecordOriginals ==
    /\ phase = "recording" /\ phase' = "withdrawing"
    /\ recorded' = recorded \cup {attempt}
    /\ original' = [original EXCEPT ![attempt] = Present(target)]
    /\ UNCHANGED <<target, saved, marked, staged, backedUp, published, todo,
                   failed, blocked, reader, observers, attempt, faults>>

Broken_Withdrawn == {"meta"} \cap Present(target)

\* What is still to be withdrawn before a core file is replaced.
Withdrawn == {"evidence", "meta"} \cap Present(target)

BackUp(n) ==
    /\ Save(n) /\ target' = Rename(target, n, Absent)
    /\ backedUp' = backedUp \cup {n}
    /\ UNCHANGED <<recorded, original, marked, phase, staged, published, todo,
                   failed, blocked, reader, observers, attempt, faults>>

Withdraw(n) ==
    /\ phase = "withdrawing" /\ First(n, PublishRank, Withdrawn)
    /\ BackUp(n)

StartMoving ==
    /\ phase = "withdrawing" /\ Withdrawn = {} /\ phase' = "moving"
    /\ UNCHANGED <<disk, staged, backedUp, published, todo, failed, blocked,
                   reader, observers, attempt, faults>>

BackUpCore(n) ==
    /\ phase = "moving" /\ First(n, PublishRank, staged)
    /\ n # "evidence" /\ target[n] # Absent
    /\ BackUp(n)

Broken_PublishFile(n) ==
    /\ phase = "moving" /\ Last(n, PublishRank, staged)
    /\ target[n] = Absent \/ n = "evidence"
    /\ target' = Rename(target, n, attempt)
    /\ staged' = staged \ {n} /\ published' = published \cup {n}
    /\ UNCHANGED <<saved, recorded, original, marked, phase, backedUp, todo,
                   failed, blocked, reader, observers, attempt, faults>>

PublishFile(n) ==
    /\ phase = "moving" /\ First(n, PublishRank, staged)
    /\ target[n] = Absent \/ n = "evidence"
    /\ target' = Rename(target, n, attempt)
    /\ staged' = staged \ {n} /\ published' = published \cup {n}
    /\ UNCHANGED <<saved, recorded, original, marked, phase, backedUp, todo,
                   failed, blocked, reader, observers, attempt, faults>>

\* publish_staged_file: the rename is done, sync_parent_dir fails.
FailSync(n) ==
    /\ phase = "moving" /\ First(n, PublishRank, staged)
    /\ target[n] = Absent \/ n = "evidence"
    /\ Fault("sync")
    /\ target' = Rename(target, n, attempt)
    /\ stray' = stray \cup ({n} \ original[attempt])
    /\ repairing' = TRUE
    /\ phase' = "removing" /\ staged' = {} /\ todo' = published
    /\ UNCHANGED <<saved, recorded, original, marked, backedUp, published,
                   failed, blocked, reader, committed, attempt>>

\* StagedFileMove::fail, and rollback's start.
BeginRollback ==
    /\ phase' = "removing" /\ staged' = {} /\ todo' = published
    /\ UNCHANGED <<disk, backedUp, published, failed, blocked, reader,
                   observers, attempt>>

FailMove ==
    /\ phase \in {"recording", "withdrawing", "moving"}
    /\ Fault("error") /\ BeginRollback

FinishMoving ==
    /\ phase = "moving" /\ staged = {} /\ phase' = "opening"
    /\ UNCHANGED <<disk, staged, backedUp, published, todo, failed, blocked,
                   reader, observers, attempt, faults>>

\* open_published_reader refuses: unreadable, degenerate, or too few files.
RejectReader ==
    /\ phase = "opening" /\ UNCHANGED faults /\ BeginRollback

\* The reader is accepted, but the marker cannot be written.
FailCommit ==
    /\ phase = "opening" /\ Fault("error") /\ BeginRollback

Commit ==
    /\ phase = "opening" /\ phase' = "swapping"
    /\ marked' = marked \cup {attempt}
    /\ committed' = target /\ stray' = {}
    /\ UNCHANGED <<target, saved, recorded, original, staged, backedUp,
                   published, todo, failed, blocked, reader, repairing,
                   attempt, faults>>

\* swap_reader, with the index's write lock held.
SwapReader ==
    /\ phase = "swapping" /\ phase' = "idle"
    /\ reader' = target
    /\ backedUp' = {} /\ published' = {}
    /\ UNCHANGED <<disk, staged, todo, failed, blocked, observers, attempt, faults>>

-----------------------------------------------------------------------------
(* StagedFileMove::rollback. *)

RemovePublished(n) ==
    /\ phase = "removing" /\ Last(n, PublishRank, todo)
    /\ target' = Rename(target, n, Absent)
    /\ todo' = todo \ {n} /\ published' = published \ {n}
    /\ UNCHANGED <<saved, recorded, original, marked, phase, staged, backedUp,
                   failed, blocked, reader, observers, attempt, faults>>

\* The file stays, another process may have it mapped; the loop goes on.
FailRemove(n) ==
    /\ phase = "removing" /\ Last(n, PublishRank, todo) /\ Fault("error")
    /\ todo' = todo \ {n} /\ failed' = TRUE /\ repairing' = TRUE
    /\ UNCHANGED <<disk, phase, staged, backedUp, published, blocked, reader,
                   committed, stray, attempt>>

Broken_StartRestoring ==
    /\ phase = "removing" /\ todo = {} /\ phase' = "restoring"
    /\ todo' = backedUp \ {"meta"}
    /\ UNCHANGED <<disk, staged, backedUp, published, failed, blocked, reader,
                   observers, attempt, faults>>

StartRestoring ==
    /\ phase = "removing" /\ todo = {} /\ phase' = "restoring"
    /\ todo' = backedUp
    /\ UNCHANGED <<disk, staged, backedUp, published, failed, blocked, reader,
                   observers, attempt, faults>>

RestoreBackup(n) ==
    /\ phase = "restoring" /\ Last(n, BackupRank, todo) /\ n \notin published
    /\ target' = Rename(target, n, saved[attempt][n])
    /\ saved' = [saved EXCEPT ![attempt][n] = Absent]
    /\ todo' = todo \ {n} /\ backedUp' = backedUp \ {n}
    /\ UNCHANGED <<recorded, original, marked, phase, staged, published, failed,
                   blocked, reader, observers, attempt, faults>>

\* Its successor could not be removed, so it keeps its place in the backup.
KeepBackup(n) ==
    /\ phase = "restoring" /\ Last(n, BackupRank, todo) /\ n \in published
    /\ todo' = todo \ {n}
    /\ UNCHANGED <<disk, phase, staged, backedUp, published, failed, blocked,
                   reader, observers, attempt, faults>>

FailRestore(n) ==
    /\ phase = "restoring" /\ Last(n, BackupRank, todo) /\ n \notin published
    /\ Fault("error")
    /\ todo' = todo \ {n} /\ failed' = TRUE /\ repairing' = TRUE
    /\ UNCHANGED <<disk, phase, staged, backedUp, published, blocked, reader,
                   committed, stray, attempt>>

Broken_FinishRollback ==
    /\ phase = "restoring" /\ todo = {}
    /\ phase' = "idle"
    /\ recorded' = recorded \ {attempt}
    /\ original' = [original EXCEPT ![attempt] = {}]
    /\ backedUp' = {} /\ published' = {} /\ failed' = FALSE
    /\ repairing' = FALSE
    /\ UNCHANGED <<target, saved, marked, staged, todo, blocked, reader,
                   committed, stray, attempt, faults>>

FinishRollback ==
    /\ phase = "restoring" /\ todo = {} /\ ~failed
    /\ phase' = "idle"
    /\ recorded' = recorded \ {attempt}
    /\ original' = [original EXCEPT ![attempt] = {}]
    /\ backedUp' = {} /\ published' = {} /\ failed' = FALSE
    /\ repairing' = FALSE
    /\ UNCHANGED <<target, saved, marked, staged, todo, blocked, reader,
                   committed, stray, attempt, faults>>

\* A failed removal or restoration, or the record could not be removed: what
\* is left is preserved, and nothing is published until a restart.
Preserve ==
    /\ phase = "restoring" /\ todo = {}
    /\ \/ failed /\ UNCHANGED faults
       \/ ~failed /\ Fault("error")
    /\ phase' = "idle" /\ blocked' = TRUE
    /\ backedUp' = {} /\ published' = {} /\ failed' = FALSE
    /\ UNCHANGED <<disk, staged, todo, reader, observers, attempt>>

-----------------------------------------------------------------------------
(* The end of the process, and recover_pending at the next start.  A       *)
(* recovery that meets an error ends the process too.                      *)

GoDown ==
    /\ phase' = "down"
    /\ staged' = {} /\ backedUp' = {} /\ published' = {} /\ todo' = {}
    /\ failed' = FALSE /\ blocked' = FALSE /\ reader' = Empty
    /\ UNCHANGED <<disk, observers, attempt>>

Stop == phase = "idle" /\ UNCHANGED faults /\ GoDown

Kill == phase # "down" /\ Fault("kill") /\ GoDown

FailRecovery == phase = "recovering" /\ Fault("error") /\ GoDown

\* prepare_index_directory, and the server opens its reader.
Start ==
    /\ phase = "down" /\ Pending = {}
    /\ phase' = "idle" /\ reader' = target
    /\ UNCHANGED <<disk, staged, backedUp, published, todo, failed, blocked,
                   observers, attempt, faults>>

StartRecovery ==
    /\ phase = "down" /\ \E i \in Pending : Pending = {i}
    /\ phase' = "recovering" /\ todo' = Names
    /\ UNCHANGED <<disk, staged, backedUp, published, failed, blocked, reader,
                   observers, attempt, faults>>

Recovering(i, n) ==
    phase = "recovering" /\ i \in Pending /\ First(n, PublishRank, todo)

\* A file whose predecessor is saved, or that had none, goes first.
RecoverRemove(i, n) ==
    /\ Recovering(i, n) /\ target[n] # Absent
    /\ saved[i][n] # Absent <=> n \in original[i]
    /\ target' = Rename(target, n, Absent) /\ repairing' = TRUE
    /\ UNCHANGED <<saved, recorded, original, marked, memory, committed,
                   stray, attempt, faults>>

RecoverRestore(i, n) ==
    /\ Recovering(i, n) /\ target[n] = Absent
    /\ saved[i][n] # Absent /\ n \in original[i]
    /\ target' = Rename(target, n, saved[i][n]) /\ repairing' = TRUE
    /\ saved' = [saved EXCEPT ![i][n] = Absent]
    /\ todo' = todo \ {n}
    /\ UNCHANGED <<recorded, original, marked, phase, staged, backedUp,
                   published, failed, blocked, reader, committed, stray, attempt,
                   faults>>

\* It was never moved, or is back already.
RecoverKeep(i, n) ==
    /\ Recovering(i, n) /\ saved[i][n] = Absent
    /\ target[n] # Absent <=> n \in original[i]
    /\ todo' = todo \ {n}
    /\ UNCHANGED <<disk, phase, staged, backedUp, published, failed, blocked,
                   reader, observers, attempt, faults>>

FinishRecovery(i) ==
    /\ phase = "recovering" /\ i \in Pending /\ todo = {}
    /\ recorded' = recorded \ {i}
    /\ original' = [original EXCEPT ![i] = {}]
    /\ phase' = "idle" /\ reader' = target /\ repairing' = FALSE
    /\ UNCHANGED <<target, saved, marked, staged, backedUp, published, todo,
                   failed, blocked, committed, stray, attempt, faults>>

-----------------------------------------------------------------------------
(* cleanup_retired: at every start, after every publication and once a     *)
(* minute.  A removal that fails is met again by a later one.              *)

Broken_ReclaimFile(i, n) ==
    /\ phase = "idle" /\ i \in marked
    /\ First(n, PublishRank, Present(saved[i]) \ {"evidence", "meta"})
    /\ saved' = [saved EXCEPT ![i][n] = Absent]
    /\ UNCHANGED <<target, recorded, original, marked, memory, observers,
                   attempt, faults>>

ReclaimFile(i, n) ==
    /\ phase = "idle" /\ i \in marked /\ First(n, PublishRank, Present(saved[i]))
    /\ saved' = [saved EXCEPT ![i][n] = Absent]
    /\ UNCHANGED <<target, recorded, original, marked, memory, observers,
                   attempt, faults>>

ReclaimRecord(i) ==
    /\ phase = "idle" /\ i \in marked \cap recorded /\ saved[i] = Empty
    /\ recorded' = recorded \ {i}
    /\ original' = [original EXCEPT ![i] = {}]
    /\ UNCHANGED <<target, saved, marked, memory, observers, attempt, faults>>

Broken_ReclaimMarker(i) ==
    /\ phase = "idle" /\ i \in marked /\ saved[i] = Empty
    /\ marked' = marked \ {i}
    /\ UNCHANGED <<target, saved, recorded, original, memory, observers,
                   attempt, faults>>

\* The marker goes last: until then the directory must not look pending.
ReclaimMarker(i) ==
    /\ phase = "idle" /\ i \in marked \ recorded /\ saved[i] = Empty
    /\ marked' = marked \ {i}
    /\ UNCHANGED <<target, saved, recorded, original, memory, observers,
                   attempt, faults>>

-----------------------------------------------------------------------------
(* persist_filename_discovery: a walk that need not rebuild the index      *)
(* writes a new filename sidecar for it, in place and without a journal.   *)

Broken_PersistFilenames ==
    /\ phase = "idle" /\ {"files", "meta"} \subseteq Present(target)
    /\ target' = Rename(target, "extra", target["files"])
    /\ committed' = Rename(committed, "extra", target["files"])
    /\ stray' = stray \ {"extra"}
    /\ UNCHANGED <<saved, recorded, original, marked, memory, repairing,
                   attempt, faults>>

\* The rewritten meta and table of paths are of the build they replace, so a
\* failure between the renames shows no other directory than these.
PersistFilenames ==
    /\ phase = "idle" /\ ~blocked /\ {"files", "meta"} \subseteq Present(target)
    /\ target' = Rename(target, "extra", target["files"])
    /\ committed' = Rename(committed, "extra", target["files"])
    /\ stray' = stray \ {"extra"}
    /\ UNCHANGED <<saved, recorded, original, marked, memory, repairing,
                   attempt, faults>>

-----------------------------------------------------------------------------
Publish ==
    \/ \E S \in SUBSET Names : Begin(S)
    \/ FailCreate \/ RecordOriginals \/ StartMoving \/ FailMove
    \/ \E n \in Names : Withdraw(n) \/ BackUpCore(n) \/ PublishFile(n) \/ FailSync(n)
    \/ FinishMoving \/ RejectReader \/ FailCommit \/ Commit \/ SwapReader

Rollback ==
    \/ \E n \in Names : \/ RemovePublished(n) \/ FailRemove(n)
                        \/ RestoreBackup(n) \/ KeepBackup(n) \/ FailRestore(n)
    \/ StartRestoring \/ FinishRollback \/ Preserve

Recover ==
    \/ Start \/ StartRecovery \/ FailRecovery
    \/ \E i \in Backups : \/ FinishRecovery(i)
                          \/ \E n \in Names : \/ RecoverRemove(i, n)
                                              \/ RecoverRestore(i, n)
                                              \/ RecoverKeep(i, n)

Reclaim ==
    \E i \in Backups : \/ \E n \in Names : ReclaimFile(i, n)
                       \/ ReclaimRecord(i) \/ ReclaimMarker(i)

Next == Publish \/ Rollback \/ Recover \/ Reclaim \/ PersistFilenames \/ Stop \/ Kill

Spec == Init /\ [][Next]_vars

\* One thread carries a publication, a rollback or a recovery to its end, and
\* the server is started again whenever it went down.  A cleanup is tried at
\* every start, so a stop may interrupt it but is followed by another.
Thread == (phase # "idle" /\ Publish) \/ Rollback \/ Recover
FairSpec == Spec /\ WF_vars(Thread) /\ SF_vars(Reclaim)

-----------------------------------------------------------------------------
TypeOK ==
    /\ target \in Directory /\ committed \in Directory /\ reader \in Directory
    /\ saved \in [Backups -> Directory]
    /\ recorded \subseteq Backups /\ marked \subseteq Backups
    /\ original \in [Backups -> SUBSET Names]
    /\ phase \in Phases
    /\ staged \subseteq Names /\ backedUp \subseteq Names
    /\ published \subseteq Names /\ todo \subseteq Names
    /\ stray \subseteq Names
    /\ failed \in BOOLEAN /\ blocked \in BOOLEAN /\ repairing \in BOOLEAN
    /\ attempt \in 0..MaxPublications /\ faults \in 0..MaxFaults

\* Whatever failed or was killed, a server that publishes and answers does so
\* over the index last committed, on disk and in its reader; what was never
\* committed is gone, but for a file whose directory could not be synced
\* (publish_staged_index, StagedFileMove::rollback, recover_pending).
IdleIsCommitted ==
    phase = "idle" =>
        /\ \A n \in Core : reader[n] = committed[n]
        /\ ~blocked => /\ Pending = {}
                      /\ \A n \in Names \ stray : target[n] = committed[n]

\* The index last committed is never lost: each of its files is in place, or in
\* the one backup that recovery will find.
NothingIsLost ==
    \A n \in Present(committed) :
        \/ target[n] = committed[n]
        \/ \E i \in Pending : Pending = {i} /\ saved[i][n] = committed[n]

\* recover_pending meets none of the states it refuses: two publications to
\* choose from, a saved file the record does not list, a listed file that is
\* nowhere.
RecoveryIsPossible ==
    \A i \in Pending :
        /\ Pending = {i}
        /\ Present(saved[i]) \subseteq original[i]
        /\ original[i] \subseteq Present(target) \cup Present(saved[i])

\* A committed index has its core files and its meta from one build, and no
\* older evidence beside them: old identities do not pair with a new reader.
CommittedIsWhole ==
    /\ \A n \in Required : committed[n] = committed["index"]
    /\ committed["evidence"] \in {Absent, committed["index"]}

\* search_local_index and covers_index: a client that opens the directory by
\* itself compares the identity of the path table in files.bin with the one in
\* the meta and the one in the filename sidecar, if the core files open at all.
Table(file) == IF PathsChange THEN file ELSE 0
Trusted(dir) ==
    /\ Required \cup {"extra"} \subseteq Present(dir)
    /\ Table(dir["files"]) = Table(dir["meta"])
    /\ Table(dir["files"]) = Table(dir["extra"])

\* A client opening the directory after a kill must not trust a mixed
\* generation (the comment in move_staged_files).
TrustedIsWhole ==
    phase = "down" /\ Trusted(target) => \A n \in Core : target[n] = target["meta"]

\* What the order of move_staged_files does guarantee, at every step and not
\* only after a kill: unless a recovery is under way, a rollback failed, or a
\* rename was not synced, a trusted directory is of one build, even if the
\* builds' path tables are the same.
UnrepairedIsWhole ==
    ~repairing /\ Trusted(target) => \A n \in Core : target[n] = target["meta"]

\* While a failed rollback waits for a restart, neither the directory nor the
\* backup is touched: publishers behind it cannot proceed.
BlockedIsPreserved ==
    [][blocked /\ blocked' =>
        /\ UNCHANGED target /\ Pending' = Pending
        /\ \A i \in Pending : saved'[i] = saved[i]]_vars

\* The backups of a committed publication are reclaimed in the end.
EventuallyReclaimed == \A i \in Backups : i \in marked ~> i \notin marked

\* Faults that end leave a server that answers, not one that cannot start.
EventuallyServes == phase # "idle" ~> phase = "idle"

-----------------------------------------------------------------------------
(* The abstract index: what a recovery would make of the disk.             *)

Recovered(n) ==
    IF \E i \in Pending : saved[i][n] # Absent
    THEN LET i == CHOOSE i \in Pending : saved[i][n] # Absent IN saved[i][n]
    ELSE target[n]

\* The one build some files are of, if they are.
RecoveredBuild ==
    IF \A n \in Required : Recovered(n) = Recovered("index")
    THEN Recovered("index") ELSE Absent
ReaderBuild ==
    IF \A n \in Core : reader[n] = reader["index"] THEN reader["index"] ELSE Absent

Store == INSTANCE IndexStore
            WITH index <- RecoveredBuild, serving <- ReaderBuild, Nothing <- Absent

\* The six renames are one step, the writing of the marker; a rollback, a kill
\* and a recovery, wherever they fall, are none (publish_staged_index).
PublishesAtOnce == Store!Spec
=============================================================================
