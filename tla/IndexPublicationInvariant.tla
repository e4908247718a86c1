----------------------- MODULE IndexPublicationInvariant -----------------------
(***************************************************************************)
(* The inductive invariant behind the safety properties of                 *)
(* IndexPublication: what the record, the backup and the index directory   *)
(* say of each other in every phase.  IndexPublicationProofs proves it.    *)
(***************************************************************************)
EXTENDS IndexPublication

\* The phases in which a publication is under way and its record written.
Active == {"withdrawing", "moving", "opening", "removing", "restoring"}
RollingBack == {"removing", "restoring"}

\* A backup no publication has come to is untouched.
BackupsAreFresh ==
    /\ phase \in Active \cup {"recording"} => attempt \in Backups
    /\ \A i \in Backups :
        attempt < i \/ (i = attempt /\ phase = "recording") =>
            saved[i] = Empty /\ i \notin recorded /\ i \notin marked

\* At most one publication is pending, and when it may be.
OnePending ==
    /\ \A i, j \in Pending : i = j
    /\ phase \in {"idle", "recording", "swapping"} /\ ~blocked => Pending = {}
    /\ phase \in {"withdrawing", "moving", "opening"} => attempt \in Pending
    /\ phase \in RollingBack /\ attempt \notin Pending =>
        Pending = {} /\ backedUp = {} /\ published = {}
    /\ phase = "recovering" => Pending # {}
    /\ blocked => phase = "idle"

\* The record tells the committed files, and each is saved or still in place.
RecordIsTrue ==
    \A i \in Pending, n \in Names :
        /\ n \notin stray => (n \in original[i] <=> committed[n] # Absent)
        /\ saved[i][n] # Absent =>
            n \in original[i] /\ (n \notin stray => saved[i][n] = committed[n])
        /\ n \in original[i] /\ saved[i][n] = Absent =>
            target[n] # Absent /\ (n \notin stray => target[n] = committed[n])

\* With nothing pending the directory is the committed one.
SettledIsCommitted ==
    /\ Pending = {} => \A n \in Names \ stray : target[n] = committed[n]
    /\ \A n \in stray : committed[n] = Absent
    /\ committed["index"] # Absent
    /\ CommittedIsWhole
    /\ phase = "swapping" => target = committed /\ stray = {}

\* What StagedFileMove remembers is what it did.
MemoryIsTrue ==
    /\ phase \notin Active \cup {"swapping"} => published = {} /\ backedUp = {}
    /\ phase \notin RollingBack => ~failed
    /\ phase \in Active /\ attempt \in Pending =>
        \A n \in Names :
            /\ n \in backedUp <=> saved[attempt][n] # Absent
            /\ n \notin original[attempt] =>
                target[n] = Absent \/ n \in published \/ n \in stray
            /\ n \in published /\ n \in original[attempt] => n \in backedUp

\* Until it is published a file is backed up once, and only if it was there.
BackedUpOnce ==
    phase \in {"withdrawing", "moving"} =>
        /\ staged \cap published = {}
        /\ \A n \in Names \ published :
            target[n] # Absent => n \in original[attempt] /\ n \notin backedUp

RollbackProgress ==
    /\ phase = "removing" => todo \subseteq published /\ (failed \/ published \subseteq todo)
    /\ phase = "restoring" =>
        todo \subseteq backedUp /\ (failed \/ (published = {} /\ backedUp \subseteq todo))

RecoveryProgress ==
    phase = "recovering" =>
        \A i \in Pending, n \in Names \ todo :
            saved[i][n] = Absent /\ (target[n] # Absent <=> n \in original[i])

\* The new build reaches the directory file by file, over no old evidence.
NewBuild ==
    /\ phase \in {"recording", "withdrawing"} => Required \subseteq staged
    /\ phase \in {"moving", "opening"} =>
        /\ \A n \in Required : n \in staged \/ target[n] = attempt
        /\ target["evidence"] \in {Absent, attempt}
        /\ "evidence" \in staged => target["evidence"] = Absent
    /\ phase = "opening" => staged = {}

ReaderIsCommitted ==
    /\ phase \notin {"down", "recovering", "swapping"} =>
        \A n \in Core : reader[n] = committed[n]
    /\ phase \in {"down", "recovering"} => reader = Empty

\* A build is newer than the one it replaces.
BuildsGoForward ==
    /\ committed["index"] \in Int /\ committed["index"] <= attempt
    /\ phase \in Active \cup {"recording"} => committed["index"] < attempt

\* The meta leaves first and comes back last, on the way in and on the way out.
MetaGoesFirst ==
    /\ phase = "withdrawing" => published = {} /\ backedUp \cap Core = {}
    /\ phase \in {"moving", "opening"} =>
        /\ "meta" \in staged => target["meta"] = Absent
        /\ "meta" \notin staged => staged = {} /\ "meta" \in published
    /\ phase \in RollingBack /\ ~repairing => ~failed
    /\ phase = "removing" /\ ~repairing =>
        \/ "meta" \in todo
        \/ target["meta"] = Absent
        \/ todo = {} /\ backedUp \cap Core = {}
    /\ phase = "restoring" /\ ~repairing =>
        target["meta"] = Absent \/ todo \cap Core = {}

MetaIsWhole ==
    ~repairing /\ target["meta"] # Absent =>
        \A n \in Core : target[n] = target["meta"]

\* Between any two steps of a publication, a rollback or a recovery, the
\* record, the backup, the directory and the server's memory agree on which
\* build each file is of (StagedFileMove, BackupDir, recover_pending).
PublicationInv ==
    /\ BackupsAreFresh /\ OnePending /\ RecordIsTrue /\ SettledIsCommitted
    /\ MemoryIsTrue /\ BackedUpOnce /\ RollbackProgress /\ RecoveryProgress
    /\ NewBuild /\ ReaderIsCommitted /\ BuildsGoForward
    /\ MetaGoesFirst /\ MetaIsWhole
=============================================================================
