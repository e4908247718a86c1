------------------------ MODULE RootServerInvariant ------------------------
(***************************************************************************)
(* The inductive invariant behind the safety properties of RootServer:     *)
(* what the threads, the two layers of the index, its evidence and the     *)
(* flags say of each other at every step.  RootServerProofs proves it.     *)
(***************************************************************************)
EXTENDS RootServer

\* The types of what the threads have in hand.
ThreadsOK ==
    /\ act \in [Actors -> [at : {"idle", "defer", "gate", "drop", "open", "verify"},
                           path : Paths \cup {None}, copy : Copies \cup {None},
                           force : BOOLEAN]]
    /\ \A a \in Actors : /\ act[a].at # "idle" => act[a].path \in Paths
                         /\ act[a].at = "verify" => act[a].copy \in Copies
    /\ pass \in [by : {"none", "startup", "ignore", "overflow", "deferred", "periodic",
                       "build", "catchup", "autosave", "reload"},
                 at : {"none", "walk", "read", "scan", "failed"}, member : BOOLEAN,
                 left : SUBSET Paths, seen : [Paths -> Versions \cup {None}],
                 cand : SUBSET Paths, skip : SUBSET Paths,
                 got : [Paths -> Copies \cup {None, Unread}], scan : SUBSET Paths]
    /\ build \in [by : {"none", "startup", "published", "complete", "failed", "reload"},
                  left : SUBSET Paths, got : [Paths -> Copies \cup {None, Unread}],
                  raced : SUBSET Paths]
    /\ search \in [at : {"idle", "admitted", "missed", "read"}, path : Paths \cup {None},
                   copy : Copies \cup {None}, moved : BOOLEAN]
    /\ search.at # "idle" => search.path \in Paths
    /\ search.at = "read" => search.copy \in Copies

-----------------------------------------------------------------------------
(* Control. *)

Touching == {"drop", "open", "verify"}

\* A startup build runs alone, and leaves a recovery scan of everything behind.
BuildInv ==
    /\ indexing <=> build.by # "none"
    /\ pass.by = "reload" <=> build.by = "reload"
    /\ pass.by = "build" => build.by = "published"
    /\ build.by \in {"startup", "published", "complete", "failed"} =>
        /\ ~startup /\ ~reconcile /\ replaying = {} /\ ignore # "run"
        /\ pass.by \in {"none", "build"} /\ recovery \in {"off", "wait"}
        /\ search.at = "idle" /\ \A p \in Paths : cache[p] = None
    /\ build.by # "none" => tail = "off"
    /\ build.by = "startup" => pending
    /\ build.by \in {"published", "complete"} =>
        ~pending /\ (polling \/ (recovery = "wait" /\ scanning = Paths))

\* Who holds the gate, and what follows from how far its pass has come.
GateInv ==
    /\ pass.by # "none" => recovery # "scan"
    /\ \A a \in Actors : pass.by # "none" /\ act[a].at \in Touching => a = "scan"
    /\ act["scan"].at # "idle" => act["scan"].at # "drop" /\ pass.at = "scan"
    /\ pass.at = "none" <=> pass.by \in {"none", "reload"}
    /\ pass.at \in {"read", "scan", "failed"} => ~pending
    /\ pass.by = "autosave" => pass.at # "walk"
    /\ pass.by = "startup" => startup
    /\ pass.by = "ignore" => ignore = "run"
    /\ pass.by = "catchup" => tail = "catchup"

\* Until a first matcher is published nothing is indexed from events.
PendingInv ==
    /\ ~watched => pending
    /\ pending =>
        /\ \A p \in Paths : overlay[p] = None
        /\ \A a \in Actors : act[a].at \notin Touching
        /\ recovery = "off" /\ tail \notin {"replay", "rest", "catchup"}
        /\ polling \/ startup \/ build.by \in {"startup", "failed"} \/ excused = Paths

\* What was deferred is replayed, and a refresh that is asked for has a thread.
QueueInv ==
    /\ scheduled <=> ignore # "off"
    /\ deferred # Deferred({}) =>
        \/ indexing \/ recovery = "wait" \/ tail \in {"replay", "failed"}
        \/ polling \/ excused = Paths

ControlInv == BuildInv /\ GateInv /\ PendingInv /\ QueueInv

-----------------------------------------------------------------------------
(* Versions. *)

\* Where a file is d and the clock at k, a copy of it or a version of it is
\* good if it is no newer than the file; and one version is one content.
GoodVersion(d, k, v) == v \in Versions => v <= k /\ (d # None => v <= d.ver)

GoodCopy(d, k, c) ==
    c \in Copies => /\ GoodVersion(d, k, c.ver)
                    /\ d # None /\ c.ver = d.ver => c.data = d.data

GoodEvidence(d, k, e) == e.ver \in Versions => e \in Copies /\ GoodCopy(d, k, e)

\* Nothing anybody holds is newer than the file it was read from: the index,
IndexVersions ==
    \A p \in Paths :
        /\ GoodCopy(disk[p], clock, disk[p])
        /\ GoodCopy(disk[p], clock, reader[p]) /\ GoodCopy(disk[p], clock, overlay[p])
        /\ GoodEvidence(disk[p], clock, evidence[p])
        /\ GoodVersion(disk[p], clock, saved[p]) /\ GoodVersion(disk[p], clock, memo[p])

\* what a thread is about to commit,
HandVersions ==
    \A p \in Paths : \A a \in Actors :
        act[a].at = "verify" /\ act[a].path = p => GoodCopy(disk[p], clock, act[a].copy)

\* what a pass has seen and read, and a build.
PassVersions ==
    \A p \in Paths : /\ GoodCopy(disk[p], clock, pass.got[p])
                     /\ GoodVersion(disk[p], clock, pass.seen[p])
BuildVersions == \A p \in Paths : GoodCopy(disk[p], clock, build.got[p])

VersionsInv == IndexVersions /\ HandVersions /\ PassVersions /\ BuildVersions

-----------------------------------------------------------------------------
(* The index and what is known of it. *)

\* Content that evidence identifies is the content indexed.  Where memory says
\* nothing of a version the sidecar may speak for the reader, never for what
\* a tombstone hides,
KnownInv ==
    \A p \in Paths :
        /\ evidence[p].data # None => Visible(p) # None /\ Visible(p).data = evidence[p].data
        /\ evidence[p].ver = None /\ saved[p] \in Versions =>
            \/ overlay[p] = Tombstone
            \/ /\ overlay[p] = None /\ reader[p] \in Copies
               /\ reader[p].ver = saved[p] /\ reader[p].data = evidence[p].data
        /\ overlay[p] = Tombstone /\ saved[p] \in Versions => saved[p] # VersionOn(p)

\* nor for what a thread is about to hide.
GoneInv ==
    \A p \in Paths : \A a \in Actors :
        act[a].at = "drop" /\ act[a].path = p /\ saved[p] \in Versions
            => saved[p] # VersionOn(p)

IndexInv == KnownInv /\ GoneInv

\* What a pass has found needs no look is indexed from the reader alone, and
\* the stamps of its walk are the ones known.
ReadInv ==
    pass.at = "read" =>
        /\ pass.left \subseteq pass.cand
        /\ pass.by = "autosave" => pass.skip = {}
        /\ \A p \in Paths \ (pass.cand \cup pass.skip) :
               /\ overlay[p] = None
               /\ pass.by # "autosave" =>
                    IF pass.seen[p] = None THEN Old(p) = None /\ ~Indexed(p)
                    ELSE Old(p) = pass.seen[p]

\* A remembered failure is of an older version, or was a fault.
MemoInv ==
    \A p \in Paths :
        /\ memo[p] \in Versions /\ memo[p] = VersionOn(p) => p \in excused
        /\ pass.got[p] = Unread =>
            /\ pass.at # "walk"
            /\ p \in excused \/ disk[p] = None \/ pass.seen[p] # VersionOn(p)

NoOlder(c, r, o, e) ==
    /\ r \in Copies => r.ver <= c.ver
    /\ o \in Copies => o.ver <= c.ver
    /\ e.ver \in Versions => e.ver <= c.ver

\* The cache, and what a search may still put into it.
CacheInv ==
    /\ \A p \in Paths : cache[p] # None => NoOlder(cache[p], reader[p], overlay[p], evidence[p])
    /\ search.at = "read" /\ ~search.moved =>
        NoOlder(search.copy, reader[search.path], overlay[search.path], evidence[search.path])

KnowledgeInv == VersionsInv /\ IndexInv /\ ReadInv /\ MemoInv /\ CacheInv

-----------------------------------------------------------------------------
(* What is owed. *)

\* Somebody will look at p, whatever becomes of the pass under the gate.
Lasting(p) ==
    \/ p \in queue \/ overflowed \/ p \in replaying \/ InHand(p)
    \/ deferred.all \/ p \in deferred.paths
    \/ p \in scanning \/ reconcile
    \/ startup /\ pass.by # "startup"
    \/ build.by \in {"startup", "failed"}
    \/ dirty /\ (scheduled \/ recheck)
    \/ ignore \in {"wait", "run"} /\ pass.by # "ignore"
    \/ tail = "catchup" /\ pass.by # "catchup"

Covered(p) == polling \/ p \in excused \/ Lasting(p)

\* The copy c is what the file d holds; and what is known of an entry o is such
\* that no auto-save would take it out of the index.
Same(d, c) == IF d = None THEN c = None ELSE c \in Copies /\ c.data = d.data
Firm(o, e) == e.ver # Unknown /\ (o \in Copies => e.ver # None)

\* Nothing is wrong about p.
Settled(p) == Same(disk[p], Visible(p)) /\ Firm(overlay[p], evidence[p])

\* Whatever is not settled is owed, by a pass under the gate if by nobody else.
PassOwes == pass.by \in {"startup", "ignore", "overflow", "deferred", "catchup"}
OwesInv == \A p \in Paths : Covered(p) \/ Settled(p) \/ PassOwes

\* A pass settles what it owes: it has walked a file as it is,
WalkInv ==
    pass.at = "walk" => \A p \in Paths :
        /\ pass.got[p] = None
        /\ p \in pass.left \/ Covered(p) \/ ~watched \/ pass.seen[p] = VersionOn(p)

\* is to read it, has read it, or has found it settled,
MergeInv ==
    pass.at = "read" => \A p \in Paths :
        \/ Covered(p)
        \/ p \in pass.scan /\ PassOwes
        \/ p \in pass.left /\ disk[p] # None /\ pass.seen[p] = VersionOn(p)
        \/ p \in pass.cand \ pass.left /\ Same(disk[p], pass.got[p])
        \/ p \notin pass.cand \cup pass.skip /\ Settled(p)

\* is to scan it, or has published it; or else it changed, and that was noticed.
ScanInv == pass.at = "scan" => \A p \in Paths \ pass.scan : Covered(p) \/ Settled(p)

\* So does a reload with what it reads.
ReloadInv ==
    build.by = "reload" => \A p \in Paths \ build.left :
        Covered(p) \/ Same(disk[p], build.got[p])

\* A file the watcher takes for gone is gone, or there is news of it.
DropInv ==
    act["watcher"].at = "drop" =>
        \/ disk[act["watcher"].path] = None
        \/ act["watcher"].path \in queue \/ overflowed \/ polling

OwedInv == OwesInv /\ WalkInv /\ MergeInv /\ ScanInv /\ ReloadInv /\ DropInv

ServerInv == ThreadsOK /\ ControlInv /\ KnowledgeInv /\ OwedInv
=============================================================================
