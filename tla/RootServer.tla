----------------------------- MODULE RootServer -----------------------------
(***************************************************************************)
(* The server of one root (tgrep-cli/src/serve.rs): an index in two layers *)
(* (tgrep-core/src/hybrid.rs and live.rs) that a watcher, a startup build, *)
(* reloads, refreshes and saves all change while searches read it.         *)
(*                                                                         *)
(* A reader is the immutable index on disk; the overlay holds files        *)
(* indexed since, and tombstones.  The watcher handles one event at a time *)
(* under the read side of snapshot_gate; a pass (a refresh, a save or a    *)
(* reload) holds its write side from its walk to its end.  Evidence says   *)
(* which version of a file the index holds, so that a walk can tell what   *)
(* changed by looking at metadata only.                                    *)
(*                                                                         *)
(* Ignore rules (but for the refresh their change asks for), directories  *)
(* as event targets, binary files and size caps are left out: every path   *)
(* is a regular, searchable file or absent, and one search of one file     *)
(* stands for all.  A path's directory is watched from the start or once   *)
(* the first matcher is published.  How a publication reaches the disk is  *)
(* IndexPublication's subject: here it happens or fails as a whole.        *)
(*                                                                         *)
(* A definition Broken_D is D with a plausible mistake.  The specification *)
(* does not use it; each one shows which property notices that mistake.    *)
(***************************************************************************)
EXTENDS Integers, FiniteSets

CONSTANTS
    Paths,
    Contents,       \* what a file may hold
    None,           \* no file, no entry, no version
    Tombstone,      \* an overlay entry for a deleted path
    Unknown,        \* the sentinel stamp, and a failure of no known version
    Unread,         \* the outcome of a read that failed
    Faults,         \* what may go wrong: "stat", "open", "read", "walk",
                    \* "publish", "build", "polling"
    MaxClock,       \* bound on the versions written
    MaxFaults,      \* bound
    MaxRequests     \* bound on what a client, a user or a timer starts

Versions == 0..MaxClock
Copies == [data : Contents, ver : Versions]    \* content, and when it was written

ASSUME DistinctAssumption ==
    /\ None # Tombstone /\ None # Unknown /\ None # Unread
    /\ Tombstone # Unknown /\ Tombstone # Unread /\ Unknown # Unread
    /\ \A x \in {None, Tombstone, Unknown, Unread} : x \notin Copies \cup Int
    /\ None \notin Paths /\ None \notin Contents
ASSUME FaultsAssumption ==
    Faults \subseteq {"stat", "open", "read", "walk", "publish", "build", "polling"}
ASSUME BoundsAssumption ==
    MaxClock \in Nat \ {0} /\ MaxFaults \in Nat /\ MaxRequests \in Nat

VARIABLES
    \* the file system and its notifications
    disk, clock, queue, overflowed, watched,
    \* the index, and what is known about it
    reader, overlay, saved, evidence, memo,
    \* the flags of ServerState
    indexing, pending, dirty, scheduled, polling, catchUp, hiddenComplete, deferred,
    \* threads
    act,        \* the event or file that a watcher, a replay or a scan has in hand
    replaying,  \* events a replay has yet to handle
    recovery,   \* the recovery scan: off, waiting for the build, replaying, scanning
    scanning,   \* the files it has yet to check
    tail,       \* what a reload that released the gate has still to do
    startup,    \* the startup refresh is due
    reconcile,  \* the refresh that replaces a replay that overflowed is due
    ignore,     \* the ignore refresh thread
    recheck,    \* and one that is about to check the flag a last time
    pass,       \* the refresh, save or reload under the gate
    build,      \* the startup build's or the reload's read of the tree
    \* the content cache and a search
    cache, search,
    \* bounds, and the paths that a failure, or the race of DropGone, left to
    \* the periodic reconcile
    faults, requests, excused

file == <<disk, clock>>
notices == <<queue, overflowed>>
index == <<reader, overlay, saved, evidence>>
flags == <<indexing, pending, catchUp, hiddenComplete>>
refreshes == <<dirty, scheduled, ignore, recheck>>
replays == <<replaying, recovery, scanning, tail>>
searches == <<cache, search>>
due == <<startup, reconcile>>
bounds == <<faults, requests, excused>>
vars == <<file, notices, watched, index, memo, flags, refreshes, polling, deferred,
          act, replays, due, pass, build, searches, bounds>>

Actors == {"watcher", "replay", "scan"}
Idle == [at |-> "idle", path |-> None, copy |-> None, force |-> FALSE]
NoStamp == [ver |-> None, data |-> None]
NoPass == [by |-> "none", at |-> "none", member |-> FALSE, left |-> {},
           seen |-> [p \in Paths |-> None], cand |-> {}, skip |-> {},
           got |-> [p \in Paths |-> None], scan |-> {}]
NoBuild == [by |-> "none", left |-> {}, got |-> [p \in Paths |-> None], raced |-> {}]
NoSearch == [at |-> "idle", path |-> None, copy |-> None, moved |-> FALSE]
Overflown == [all |-> TRUE, paths |-> {}]
Deferred(S) == [all |-> FALSE, paths |-> S]

VersionOn(p) == IF disk[p] \in Copies THEN disk[p].ver ELSE None
Strike(f) == f \in Faults /\ faults < MaxFaults /\ faults' = faults + 1
Request == requests < MaxRequests /\ requests' = requests + 1

-----------------------------------------------------------------------------
(* The index as searches see it.                                           *)

\* HybridIndex::reader_entry_active and the queries built on it.
Visible(p) ==
    IF overlay[p] = None THEN reader[p]
    ELSE IF overlay[p] = Tombstone THEN None ELSE overlay[p]

Indexed(p) == reader[p] # None \/ overlay[p] \in Copies

\* invalidate_cached_paths_locked: the generation moves under a search that
\* has loaded it.
Invalidate(S) ==
    /\ cache' = [p \in Paths |-> IF p \in S THEN None ELSE cache[p]]
    /\ search' = IF S # {} /\ search.at # "idle" THEN [search EXCEPT !.moved = TRUE]
                 ELSE search

\* drop_indexed_file.
Drop(p) ==
    /\ evidence' = [evidence EXCEPT ![p] = NoStamp]
    /\ IF overlay[p] # Tombstone /\ (Indexed(p) \/ evidence[p].ver # None)
       THEN overlay' = [overlay EXCEPT ![p] = Tombstone] /\ Invalidate({p})
       ELSE UNCHANGED <<overlay, searches>>
    /\ UNCHANGED <<reader, saved>>

\* The end of reindex_file: a file whose bytes the index already holds is
\* not indexed again.
Commit(p, copy) ==
    LET same == \/ overlay[p] \in Copies /\ overlay[p].data = copy.data
                \/ overlay[p] = None /\ reader[p] # None /\ evidence[p].data = copy.data
    IN  /\ overlay' = IF same THEN overlay ELSE [overlay EXCEPT ![p] = copy]
        /\ evidence' = [evidence EXCEPT ![p] = [ver |-> copy.ver, data |-> copy.data]]
        /\ Invalidate({p})
        /\ UNCHANGED <<reader, saved>>

\* schedule_ignore_rules_refresh, after dirty has been set.
Schedule ==
    IF polling \/ scheduled THEN UNCHANGED <<scheduled, ignore, recheck>>
    ELSE scheduled' = TRUE /\ ignore' = "check" /\ UNCHANGED recheck

Broken_RetryLater(p) ==
    /\ evidence' = [evidence EXCEPT ![p] = [ver |-> VersionOn(p), data |-> None]]
    /\ dirty' = TRUE /\ Schedule
    /\ UNCHANGED <<reader, overlay, saved, searches>>

\* retry_failed_reindex.
RetryLater(p) ==
    /\ evidence' = [evidence EXCEPT ![p] = [ver |-> Unknown, data |-> None]]
    /\ dirty' = TRUE /\ Schedule
    /\ UNCHANGED <<reader, overlay, saved, searches>>

-----------------------------------------------------------------------------
(* The file system.                                                        *)

\* The callback of start_file_watcher_using and enqueue_watcher_event: an
\* event is queued, or its loss is reported.
Notify(p) ==
    IF ~watched \/ polling THEN UNCHANGED notices
    ELSE \/ queue' = queue \cup {p} /\ UNCHANGED overflowed
         \/ overflowed' = TRUE /\ UNCHANGED queue

Write(p, d) ==
    /\ clock < MaxClock /\ clock' = clock + 1
    /\ disk' = [disk EXCEPT ![p] = [data |-> d, ver |-> clock']]
    /\ Notify(p)
    /\ UNCHANGED <<watched, index, memo, flags, refreshes, polling, deferred, act,
                   replays, due, pass, build, searches, bounds>>

Remove(p) ==
    /\ disk[p] # None
    /\ clock < MaxClock /\ clock' = clock + 1
    /\ disk' = [disk EXCEPT ![p] = None]
    /\ Notify(p)
    /\ UNCHANGED <<watched, index, memo, flags, refreshes, polling, deferred, act,
                   replays, due, pass, build, searches, bounds>>

\* An event for an ignore file (the head of handle_fs_event).
RulesEvent ==
    /\ Request /\ UNCHANGED <<faults, excused>>
    /\ ~polling /\ watched
    /\ dirty' = TRUE
    /\ IF indexing THEN UNCHANGED <<scheduled, ignore, recheck>> ELSE Schedule
    /\ UNCHANGED <<file, notices, watched, index, memo, flags, polling, deferred, act,
                   replays, due, pass, build, searches>>

\* request_polling: native watching is given up for good.
TurnToPolling ==
    /\ ~polling /\ Strike("polling") /\ UNCHANGED <<requests, excused>>
    /\ polling' = TRUE /\ catchUp' = TRUE
    /\ UNCHANGED <<file, notices, watched, index, memo, indexing, pending, hiddenComplete,
                   refreshes, deferred, act, replays, due, pass, build, searches>>

-----------------------------------------------------------------------------
(* One event: handle_fs_event, by the watcher or by a replay, and          *)
(* reindex_file, which a scan reaches as well.                             *)

GateFree ==
    /\ pass.by = "none" /\ recovery # "scan"
    /\ \A a \in Actors : act[a].at \notin {"drop", "open", "verify"}

\* reindex_lock: held from a read of the file to the commit of its bytes.
LockFree == \A a \in Actors : act[a].at # "verify"

Hand(a, at, p) == act' = [act EXCEPT ![a] = [Idle EXCEPT !.at = at, !.path = p, !.force = TRUE]]
LetGo(a) == act' = [act EXCEPT ![a] = Idle]

\* The head of handle_fs_event, on an ordinary path.
Handle(a, p) ==
    IF polling THEN UNCHANGED act
    ELSE Hand(a, IF indexing THEN "defer" ELSE "gate", p)

\* The watcher reconciles an overflow itself.
TakeEvent(p) ==
    /\ act["watcher"].at = "idle" /\ pass.by # "overflow"
    /\ p \in queue /\ queue' = queue \ {p}
    /\ Handle("watcher", p)
    /\ UNCHANGED <<file, overflowed, watched, index, memo, flags, refreshes, polling,
                   deferred, replays, due, pass, build, searches, bounds>>

ReplayEvent(p) ==
    /\ act["replay"].at = "idle" /\ recovery # "scan"
    /\ p \in replaying /\ replaying' = replaying \ {p}
    /\ Handle("replay", p)
    /\ UNCHANGED <<file, notices, watched, index, memo, flags, refreshes, polling,
                   deferred, recovery, scanning, tail, due, pass, build, searches, bounds>>

Broken_Defer(a) ==
    /\ act[a].at = "defer" /\ LetGo(a)
    /\ deferred' \in IF deferred.all THEN {Overflown}
                     ELSE {Overflown, Deferred(deferred.paths \cup {act[a].path})}
    /\ UNCHANGED <<file, notices, watched, index, memo, flags, refreshes, polling,
                   replays, due, pass, build, searches, bounds>>

\* defer_events_during_build: the flag is read again under the buffer's lock.
Defer(a) ==
    /\ act[a].at = "defer"
    /\ IF indexing
       THEN /\ LetGo(a)
            /\ deferred' \in IF deferred.all THEN {Overflown}
                             ELSE {Overflown, Deferred(deferred.paths \cup {act[a].path})}
       ELSE Hand(a, "gate", act[a].path) /\ UNCHANGED deferred
    /\ UNCHANGED <<file, notices, watched, index, memo, flags, refreshes, polling,
                   replays, due, pass, build, searches, bounds>>

\* gate.read, the matcher's flag, and one stat of the path.
Enter(a) ==
    /\ act[a].at = "gate" /\ pass.by = "none"
    /\ \/ pending /\ LetGo(a) /\ UNCHANGED bounds
       \/ /\ ~pending /\ UNCHANGED bounds
          /\ Hand(a, IF disk[act[a].path] = None THEN "drop" ELSE "open", act[a].path)
       \/ /\ ~pending /\ Strike("stat") /\ LetGo(a)
          /\ excused' = excused \cup {act[a].path} /\ UNCHANGED requests
    /\ UNCHANGED <<file, notices, watched, index, memo, flags, refreshes, polling,
                   deferred, replays, due, pass, build, searches>>

\* The path was absent when it was looked at, before reindex_lock was taken.
\* If it is there again the watcher has an event for it; a replay may come
\* after that event, and then only the periodic reconcile looks again.
DropGone(a) ==
    /\ act[a].at = "drop" /\ LockFree
    /\ Drop(act[a].path) /\ LetGo(a)
    /\ excused' = IF a = "replay" /\ disk[act[a].path] # None
                  THEN excused \cup {act[a].path} ELSE excused
    /\ UNCHANGED <<file, notices, watched, memo, flags, refreshes, polling, deferred,
                   replays, due, pass, build, faults, requests>>

\* reindex_file up to the read.  A scan skips a file whose version is known.
Open(a) ==
    LET p == act[a].path
        known == ~act[a].force /\ evidence[p].ver = VersionOn(p)
    IN  /\ act[a].at = "open" /\ LockFree
        /\ \/ /\ disk[p] = None /\ Drop(p) /\ LetGo(a)
              /\ UNCHANGED <<refreshes, bounds>>
           \/ /\ disk[p] # None /\ known /\ LetGo(a)
              /\ UNCHANGED <<index, searches, refreshes, bounds>>
           \/ /\ disk[p] # None /\ ~known
              /\ act' = [act EXCEPT ![a].at = "verify", ![a].copy = disk[p]]
              /\ UNCHANGED <<index, searches, refreshes, bounds>>
           \/ /\ disk[p] # None /\ ~known /\ Strike("open")
              /\ RetryLater(p) /\ LetGo(a)
              /\ UNCHANGED <<requests, excused>>
        /\ UNCHANGED <<file, notices, watched, memo, flags, polling, deferred, replays,
                       due, pass, build>>

\* file_still_has_bytes, and the commit it allows.
Verify(a) ==
    LET p == act[a].path
        copy == act[a].copy
    IN  /\ act[a].at = "verify" /\ LetGo(a)
        /\ \/ VersionOn(p) = copy.ver /\ Commit(p, copy) /\ UNCHANGED refreshes
           \/ disk[p] = None /\ Drop(p) /\ UNCHANGED refreshes
           \/ disk[p] # None /\ VersionOn(p) # copy.ver /\ RetryLater(p)
        /\ UNCHANGED <<file, notices, watched, memo, flags, polling, deferred, replays,
                       due, pass, build, bounds>>

-----------------------------------------------------------------------------
(* What runs after a build or a reload: the replay of the events deferred  *)
(* meanwhile, and a scan of the directories just watched.                  *)

\* replay_deferred_events: the buffer is swapped for an empty one.
Replay ==
    /\ deferred' = Deferred({})
    /\ IF polling THEN UNCHANGED <<replaying, reconcile>>
       ELSE IF deferred.all THEN reconcile' = TRUE /\ UNCHANGED replaying
       ELSE replaying' = replaying \cup deferred.paths /\ UNCHANGED reconcile

Replayed == replaying = {} /\ act["replay"].at = "idle"

\* spawn_recovery_scan, which waits the build out.
RecoveryReplays ==
    /\ recovery = "wait" /\ ~indexing
    /\ IF polling
       THEN /\ recovery' = "off" /\ scanning' = {}
            /\ UNCHANGED <<deferred, replaying, reconcile>>
       ELSE Replay /\ recovery' = "replay" /\ UNCHANGED scanning
    /\ UNCHANGED <<file, notices, watched, index, memo, flags, refreshes, polling, act,
                   tail, startup, pass, build, searches, bounds>>

\* gate.read, for the whole of reindex_files_in.
RecoveryScans ==
    /\ recovery = "replay" /\ Replayed /\ pass.by = "none"
    /\ IF polling THEN recovery' = "off" /\ scanning' = {}
       ELSE recovery' = "scan" /\ UNCHANGED scanning
    /\ UNCHANGED <<file, notices, watched, index, memo, flags, refreshes, polling,
                   deferred, act, replaying, tail, due, pass, build, searches, bounds>>

ScanOne(p) ==
    /\ recovery = "scan" /\ act["replay"].at = "idle"
    /\ p \in scanning /\ scanning' = scanning \ {p}
    /\ act' = [act EXCEPT !["replay"] = [Idle EXCEPT !.at = "open", !.path = p]]
    /\ UNCHANGED <<file, notices, watched, index, memo, flags, refreshes, polling,
                   deferred, replaying, recovery, tail, due, pass, build, searches, bounds>>

RecoveryEnds ==
    /\ recovery = "scan" /\ scanning = {} /\ act["replay"].at = "idle"
    /\ recovery' = "off"
    /\ UNCHANGED <<file, notices, watched, index, memo, flags, refreshes, polling,
                   deferred, act, replaying, scanning, tail, due, pass, build, searches,
                   bounds>>

-----------------------------------------------------------------------------
(* The ignore refresh thread: schedule_ignore_rules_refresh.               *)

IgnoreChecks ==
    /\ ignore = "check"
    /\ IF polling THEN ignore' = "off" /\ scheduled' = FALSE /\ UNCHANGED dirty
       ELSE /\ ignore' = IF dirty THEN "wait" ELSE "clear"
            /\ dirty' = FALSE /\ UNCHANGED scheduled
    /\ UNCHANGED <<file, notices, watched, index, memo, flags, recheck, polling, deferred,
                   act, replays, due, pass, build, searches, bounds>>

IgnoreWaits ==
    /\ ignore = "wait" /\ ~indexing
    /\ IF polling THEN ignore' = "off" /\ scheduled' = FALSE
       ELSE ignore' = "run" /\ UNCHANGED scheduled
    /\ UNCHANGED <<file, notices, watched, index, memo, flags, dirty, recheck, polling,
                   deferred, act, replays, due, pass, build, searches, bounds>>

Broken_IgnoreClears ==
    /\ ignore = "clear" /\ ignore' = "off"
    /\ scheduled' = FALSE /\ UNCHANGED <<recheck, dirty>>
    /\ UNCHANGED <<file, notices, watched, index, memo, flags, polling, deferred,
                   act, replays, due, pass, build, searches, bounds>>

\* The thread is unscheduled first, then looks once more.
IgnoreClears ==
    /\ ignore = "clear" /\ ignore' = "off"
    /\ scheduled' = FALSE /\ recheck' = TRUE /\ UNCHANGED dirty
    /\ UNCHANGED <<file, notices, watched, index, memo, flags, polling, deferred,
                   act, replays, due, pass, build, searches, bounds>>

IgnoreRechecks ==
    /\ recheck /\ recheck' = FALSE
    /\ IF dirty /\ ~scheduled THEN scheduled' = TRUE /\ ignore' = "check"
       ELSE UNCHANGED <<scheduled, ignore>>
    /\ UNCHANGED <<file, notices, watched, index, memo, flags, dirty, polling, deferred,
                   act, replays, due, pass, build, searches, bounds>>

-----------------------------------------------------------------------------
(* A pass: walk, publish the matcher, classify, read, merge, scan.         *)

\* background_refresh_stale_locked and catch_up_unwatched_build.
BeginPass(by, member) ==
    /\ GateFree
    /\ pass' = [NoPass EXCEPT !.by = by, !.at = "walk", !.member = member, !.left = Paths]
    /\ IF polling THEN catchUp' = FALSE /\ dirty' = FALSE
       ELSE UNCHANGED <<catchUp, dirty>>
    /\ UNCHANGED <<file, watched, index, memo, indexing, pending, hiddenComplete, scheduled,
                   ignore, recheck, polling, deferred, act, replays, startup, build,
                   searches, faults, excused>>

\* startup_refresh_stale.
StartupPass == startup /\ BeginPass("startup", FALSE) /\ UNCHANGED <<notices, reconcile, requests>>

IgnorePass == ignore = "run" /\ BeginPass("ignore", TRUE) /\ UNCHANGED <<notices, reconcile, requests>>

\* recover_watcher_overflow, on the watcher's thread: the flag is cleared
\* before the walk, so that a loss during it asks for another.
OverflowPass ==
    /\ act["watcher"].at = "idle"
    /\ overflowed /\ ~polling /\ ~indexing /\ ~pending /\ overflowed' = FALSE
    /\ BeginPass("overflow", FALSE)
    /\ UNCHANGED <<queue, reconcile, requests>>

DeferredPass ==
    /\ reconcile /\ reconcile' = FALSE
    /\ BeginPass("deferred", TRUE) /\ UNCHANGED <<notices, requests>>

\* scheduled_reconcile: when depends on clocks alone, so at any time.
PeriodicPass ==
    ~indexing /\ BeginPass("periodic", FALSE) /\ Request /\ UNCHANGED <<notices, reconcile>>

\* catch_up_unwatched_build, after the build's publication,
BuildPass ==
    build.by = "published" /\ BeginPass("build", TRUE) /\ UNCHANGED <<notices, reconcile, requests>>

\* and at the end of a reload that nothing watched.
ReloadPass ==
    tail = "catchup" /\ BeginPass("catchup", TRUE) /\ UNCHANGED <<notices, reconcile, requests>>

\* persist_pending_index_changes: a merge with no walk, which takes what is
\* stamped in memory for all there is.
BeginSave ==
    LET pending_paths == {p \in Paths : overlay[p] # None}
    IN  /\ ~indexing /\ GateFree /\ pending_paths # {} /\ Request
        /\ pass' = [NoPass EXCEPT !.by = "autosave", !.at = "read", !.cand = pending_paths,
                       !.seen = [p \in Paths |-> VersionOn(p)],
                       !.left = {p \in pending_paths : evidence[p].ver # None}]
        /\ UNCHANGED <<file, notices, watched, index, memo, flags, refreshes, polling,
                       deferred, act, replays, due, build, searches, faults, excused>>

Walk(p) ==
    /\ pass.at = "walk" /\ pass.by # "reload" /\ p \in pass.left
    /\ pass' = [pass EXCEPT !.left = @ \ {p}, !.seen[p] = VersionOn(p)]
    /\ UNCHANGED <<file, notices, watched, index, memo, flags, refreshes, polling, deferred,
                   act, replays, due, build, searches, bounds>>

\* The version a refresh takes the index to hold: what memory says, and the
\* sidecar only where memory says nothing.
Old(p) == IF evidence[p].ver # None THEN evidence[p].ver ELSE saved[p]

\* classify_evidence_changes and drop_memoized_failures.
ChangedIn(seen, member) ==
    {p \in Paths : seen[p] # None /\ (Old(p) # seen[p] \/ (member /\ ~Indexed(p)))}
DeletedIn(seen) ==
    {p \in Paths : seen[p] = None /\ (Old(p) # None \/ Indexed(p))}
SkippedIn(seen) ==
    {p \in Paths : ~polling /\ seen[p] # None /\ memo[p] = seen[p]}
CandidatesIn(seen, member) ==
    (ChangedIn(seen, member) \cup DeletedIn(seen) \cup {p \in Paths : overlay[p] # None})
        \ SkippedIn(seen)

\* Directories the first matcher subscribes are scanned once the pass is over,
\* except after a build, whose recovery scan covers them.
Classify ==
    LET newly == IF watched \/ pass.by \in {"build", "catchup"} THEN {} ELSE Paths
        memoised == [p \in Paths |-> IF pass.seen[p] = None THEN None ELSE memo[p]]
        cand == CandidatesIn(pass.seen, pass.member)
        idle == /\ {p \in Paths : overlay[p] # None} = {}
                /\ (ChangedIn(pass.seen, pass.member) \ SkippedIn(pass.seen))
                       \cup DeletedIn(pass.seen) = {}
    IN  /\ pass.at = "walk" /\ pass.by # "reload" /\ pass.left = {}
        /\ pending' = FALSE /\ watched' = TRUE
        /\ \/ /\ ~idle /\ memo' = memoised
              /\ pass' = [pass EXCEPT !.at = "read", !.cand = cand, !.scan = newly,
                             !.skip = SkippedIn(pass.seen),
                             !.left = {p \in cand : pass.seen[p] # None}]
              /\ UNCHANGED <<hiddenComplete, faults>>
           \/ /\ idle /\ memo' = memoised
              /\ pass' = [pass EXCEPT !.at = "scan", !.scan = newly]
              /\ hiddenComplete' = \A p \in Paths : memo'[p] = None
              /\ UNCHANGED faults
           \/ /\ Strike("walk") /\ pass' = [pass EXCEPT !.at = "failed"]
              /\ UNCHANGED <<memo, hiddenComplete>>
           \/ /\ idle /\ Strike("publish") /\ memo' = memoised
              /\ pass' = [pass EXCEPT !.at = "failed"]
              /\ UNCHANGED hiddenComplete
        /\ UNCHANGED <<file, notices, index, indexing, catchUp, refreshes, polling, deferred,
                       act, replays, due, build, searches, requests, excused>>

\* build_index_for_files: a file that is gone or changes under the read counts
\* as unreadable.
Read(p) ==
    /\ pass.at = "read" /\ p \in pass.left
    /\ \E got \in {disk[p], Unread} \ {None} :
           /\ \/ /\ got # Unread \/ disk[p] = None \/ VersionOn(p) # pass.seen[p]
                 /\ UNCHANGED <<faults, excused>>
              \/ got = Unread /\ Strike("read") /\ excused' = excused \cup {p}
           /\ pass' = [pass EXCEPT !.left = @ \ {p}, !.got[p] = got]
    /\ UNCHANGED <<file, notices, watched, index, memo, flags, refreshes, polling, deferred,
                   act, replays, due, build, searches, requests>>

Unreadable == {p \in pass.cand : pass.got[p] = Unread}
Done == pass.cand \ Unreadable
Kept == pass.skip \cup Unreadable

\* Failures to read are remembered by the version the walk saw.
Memoised ==
    [p \in Paths |-> IF p \in Unreadable
                     THEN IF pass.by = "autosave" THEN Unknown ELSE pass.seen[p]
                     ELSE IF p \in Done THEN None ELSE memo[p]]

Broken_Merged == [p \in Paths |-> IF p \in pass.cand THEN pass.got[p] ELSE reader[p]]

\* merge_index_with_delta.
Merged == [p \in Paths |-> IF p \in Done THEN pass.got[p] ELSE reader[p]]

\* prune_persisted_entries_except: the paths the new reader holds,
Persisted == {p \in Paths \ Kept : Merged[p] # None}

\* try_drop_all_persisted: the whole overlay goes when it says nothing more,
AllPersisted ==
    \A p \in Paths : overlay[p] # None => (overlay[p] \in Copies <=> p \in Persisted)

\* or else those entries, and by clear_reconciled_paths what the pass settled.
Pruned ==
    [p \in Paths |-> IF \/ AllPersisted \/ p \in Done
                        \/ overlay[p] \in Copies /\ p \in Persisted
                     THEN None ELSE overlay[p]]

Broken_Evidenced ==
    [p \in Paths |->
        IF p \in Done
        THEN IF pass.got[p] = None THEN NoStamp
             ELSE [ver |-> pass.got[p].ver, data |-> pass.got[p].data]
        ELSE IF pass.by = "autosave" THEN evidence[p]
        ELSE IF pass.seen[p] = None THEN NoStamp
        ELSE [ver |-> pass.seen[p], data |-> evidence[p].data]]

\* What is known of the rest stays as it was before the walk: stamps from the
\* walk would describe bytes that nothing read.
Evidenced ==
    [p \in Paths |->
        IF p \in Done
        THEN IF pass.got[p] = None THEN NoStamp
             ELSE [ver |-> pass.got[p].ver, data |-> pass.got[p].data]
        ELSE IF p \in Kept THEN NoStamp
        ELSE IF pass.by = "autosave" THEN evidence[p]
        ELSE IF pass.seen[p] = None THEN NoStamp
        ELSE [ver |-> Old(p), data |-> evidence[p].data]]

Stamps(known) == [p \in Paths |-> known[p].ver]

\* The end of stream_merge_stale_changes, and publish_staged_index.
Publish ==
    /\ pass.at = "read" /\ pass.left = {}
    /\ memo' = Memoised
    /\ \/ /\ reader' = Merged /\ overlay' = Pruned
          /\ evidence' = Evidenced /\ saved' = Stamps(Evidenced)
          /\ Invalidate(Done)
          /\ hiddenComplete' = (hiddenComplete \/ (pass.by # "autosave" /\ Kept = {}))
          /\ pass' = [pass EXCEPT !.at = "scan"]
          /\ UNCHANGED faults
       \/ /\ Strike("publish")
          /\ pass' = [pass EXCEPT !.at = "failed"]
          /\ UNCHANGED <<index, searches, hiddenComplete>>
    /\ UNCHANGED <<file, notices, watched, indexing, pending, catchUp, refreshes, polling,
                   deferred, act, replays, due, build, requests, excused>>

\* reindex_files_in, on what was just watched.
PassScans(p) ==
    /\ pass.at = "scan" /\ act["scan"].at = "idle"
    /\ p \in pass.scan /\ pass' = [pass EXCEPT !.scan = @ \ {p}]
    /\ act' = [act EXCEPT !["scan"] = [Idle EXCEPT !.at = "open", !.path = p]]
    /\ UNCHANGED <<file, notices, watched, index, memo, flags, refreshes, polling, deferred,
                   replays, due, build, searches, bounds>>

\* The gate is released, and the pass's caller goes on with its outcome.  Once
\* the server polls, a pass that left a file unread is not complete.
EndPass ==
    LET ended == \/ pass.at = "failed"
                 \/ pass.at = "scan" /\ pass.scan = {} /\ act["scan"].at = "idle"
        ok == /\ pass.at = "scan"
              /\ polling => \A p \in Paths : memo[p] = None
    IN  /\ ended /\ pass' = NoPass
        /\ startup' = (startup /\ ~(pass.by = "startup" /\ (ok \/ polling)))
        /\ ignore' = IF pass.by = "ignore" THEN "clear" ELSE ignore
        /\ dirty' = (dirty \/ (pass.by = "ignore" /\ ~ok))
        /\ overflowed' = (overflowed \/ (pass.by = "overflow" /\ ~ok))
        /\ excused' = IF pass.by \in {"deferred", "catchup"} /\ ~ok THEN Paths ELSE excused
        /\ build' = IF pass.by # "build" THEN build
                    ELSE [build EXCEPT !.by = IF ok THEN "complete" ELSE "failed"]
        /\ tail' = IF pass.by = "catchup" THEN "off" ELSE tail
        /\ UNCHANGED <<file, queue, watched, index, memo, flags, scheduled, recheck, polling,
                       deferred, act, replaying, recovery, scanning, reconcile, searches,
                       faults, requests>>

\* A startup refresh that finds the poller in charge leaves the work to it.
StartupYields ==
    /\ startup /\ polling /\ pass.by \in {"none", "autosave"}
    /\ catchUp => indexing \/ pass.by = "autosave"
    /\ startup' = FALSE
    /\ UNCHANGED <<file, notices, watched, index, memo, flags, refreshes, polling, deferred,
                   act, replays, reconcile, pass, build, searches, bounds>>

-----------------------------------------------------------------------------
(* The startup build, and a reload: both read the whole tree anew.         *)

\* A file written under its read is indexed with no version.
BuildRead(p) ==
    /\ build.by \in {"startup", "reload"} /\ p \in build.left
    /\ \/ /\ build' = [build EXCEPT !.left = @ \ {p}, !.got[p] = disk[p]]
          /\ UNCHANGED <<faults, excused>>
       \/ /\ disk[p] # None /\ disk[p].ver > 0
          /\ build' = [build EXCEPT !.left = @ \ {p}, !.got[p] = disk[p],
                          !.raced = @ \cup {p}]
          /\ UNCHANGED <<faults, excused>>
       \/ /\ disk[p] # None /\ Strike("read") /\ excused' = excused \cup {p}
          /\ build' = [build EXCEPT !.left = @ \ {p}, !.got[p] = Unread]
    /\ UNCHANGED <<file, notices, watched, index, memo, flags, refreshes, polling, deferred,
                   act, replays, due, pass, searches, requests>>

Built == [p \in Paths |-> IF build.got[p] = Unread THEN None ELSE build.got[p]]

\* The evidence of a build, which says nothing of a version for S.
KnownOf(S) ==
    [p \in Paths |-> IF Built[p] = None THEN NoStamp
                     ELSE [ver |-> IF p \in S \cup build.raced THEN None ELSE Built[p].ver,
                           data |-> Built[p].data]]

\* withhold_evidence_for_deferred.
Withheld == IF deferred.all THEN Paths ELSE deferred.paths

\* publish_build_checkpoint: what has been read so far.
Checkpoint ==
    /\ build.by = "startup" /\ build.left # Paths /\ GateFree
    /\ reader' = Built /\ evidence' = KnownOf({}) /\ saved' = Stamps(KnownOf({}))
    /\ hiddenComplete' = FALSE
    /\ UNCHANGED <<file, notices, watched, overlay, memo, indexing, pending, catchUp,
                   refreshes, polling, deferred, act, replays, due, pass, build, searches,
                   bounds>>

\* The end of bootstrap_index_build, up to its catch-up.  The index is opened
\* anew, the matcher published, and a recovery scan left waiting.
BuildPublish ==
    /\ build.by = "startup" /\ build.left = {} /\ GateFree
    /\ reader' = Built /\ overlay' = [p \in Paths |-> None]
    /\ saved' = Stamps(KnownOf({})) /\ evidence' = KnownOf(Withheld)
    /\ Invalidate(Paths) /\ hiddenComplete' = FALSE
    /\ pending' = FALSE /\ watched' = TRUE
    /\ IF polling THEN UNCHANGED <<recovery, scanning>>
       ELSE recovery' = "wait" /\ scanning' = Paths
    /\ build' = [NoBuild EXCEPT !.by = "published"]
    /\ UNCHANGED <<file, notices, memo, indexing, catchUp, refreshes, polling, deferred, act,
                   replaying, tail, due, pass, bounds>>

\* fail_background_index_build: the server runs on without a full index.
BuildFails ==
    /\ build.by = "startup" /\ Strike("build")
    /\ build' = [NoBuild EXCEPT !.by = "failed"]
    /\ UNCHANGED <<file, notices, watched, index, memo, flags, refreshes, polling, deferred,
                   act, replays, due, pass, searches, requests, excused>>

BuildEnds ==
    /\ build.by \in {"complete", "failed"} /\ indexing' = FALSE /\ build' = NoBuild
    /\ IF build.by = "complete"
       THEN /\ IF dirty THEN Schedule ELSE UNCHANGED <<scheduled, ignore, recheck>>
            /\ UNCHANGED <<hiddenComplete, excused>>
       ELSE /\ pass.by = "none" /\ hiddenComplete' = FALSE /\ excused' = Paths
            /\ UNCHANGED <<scheduled, ignore, recheck>>
    /\ UNCHANGED <<file, notices, watched, index, memo, pending, catchUp, dirty, polling,
                   deferred, act, replays, due, pass, searches, faults, requests>>

\* handle_reload: indexing is set under the buffer's lock, and the gate is held
\* from the read to the publication.
BeginReload ==
    /\ Request
    /\ ~indexing /\ GateFree /\ tail = "off"
    /\ indexing' = TRUE
    /\ pass' = [NoPass EXCEPT !.by = "reload"]
    /\ build' = [NoBuild EXCEPT !.by = "reload", !.left = Paths]
    /\ UNCHANGED <<file, notices, watched, index, memo, pending, catchUp, hiddenComplete,
                   refreshes, polling, deferred, act, replays, due, searches, faults, excused>>

\* publish_reloaded_index, the buffer frozen until indexing is cleared.
ReloadPublish ==
    /\ build.by = "reload" /\ build.left = {}
    /\ reader' = Built /\ overlay' = [p \in Paths |-> None]
    /\ evidence' = KnownOf(Withheld) /\ saved' = Stamps(KnownOf(Withheld))
    /\ Invalidate(Paths)
    /\ hiddenComplete' = \A p \in Paths : build.got[p] # Unread
    /\ pending' = FALSE /\ watched' = TRUE /\ indexing' = FALSE
    /\ tail' = "replay"
    /\ pass' = NoPass /\ build' = NoBuild
    /\ UNCHANGED <<file, notices, memo, catchUp, refreshes, polling, deferred, act,
                   replaying, recovery, scanning, due, bounds>>

Broken_ReloadFails ==
    /\ build.by = "reload" /\ (Strike("build") \/ Strike("publish"))
    /\ UNCHANGED indexing /\ tail' = "failed"
    /\ pass' = NoPass /\ build' = NoBuild
    /\ UNCHANGED <<file, notices, watched, index, memo, pending, catchUp, hiddenComplete,
                   refreshes, polling, deferred, act, replaying, recovery, scanning, due,
                   searches, requests, excused>>

\* Each way a reload can fail clears the flag for itself.
ReloadFails ==
    /\ build.by = "reload" /\ (Strike("build") \/ Strike("publish"))
    /\ indexing' = FALSE /\ tail' = "failed"
    /\ pass' = NoPass /\ build' = NoBuild
    /\ UNCHANGED <<file, notices, watched, index, memo, pending, catchUp, hiddenComplete,
                   refreshes, polling, deferred, act, replaying, recovery, scanning, due,
                   searches, requests, excused>>

\* The gate released, the reload replays what it deferred.
ReloadReplays ==
    /\ tail \in {"replay", "failed"}
    /\ tail' = IF tail = "replay" THEN "rest" ELSE "last"
    /\ Replay
    /\ UNCHANGED <<file, notices, watched, index, memo, flags, refreshes, polling, act,
                   recovery, scanning, startup, pass, build, searches, bounds>>

\* And ends: pending rules are scheduled, and what the walk may have passed
\* before it was watched is scanned, or walked again if nothing watches.
ReloadRests ==
    /\ tail \in {"rest", "last"} /\ Replayed
    /\ IF dirty THEN Schedule ELSE UNCHANGED <<scheduled, ignore, recheck>>
    /\ IF tail = "last" THEN tail' = "off" /\ UNCHANGED <<recovery, scanning>>
       ELSE IF polling THEN tail' = "catchup" /\ UNCHANGED <<recovery, scanning>>
       ELSE /\ tail' = "off"
            /\ recovery' = IF recovery = "off" THEN "wait" ELSE recovery
            /\ \E new \in {Paths, {}} : scanning' = scanning \cup new
    /\ UNCHANGED <<file, notices, watched, index, memo, flags, dirty, polling, deferred, act,
                   replaying, due, pass, build, searches, bounds>>

-----------------------------------------------------------------------------
(* A search of one file: handle_search.                                    *)

SearchFrame ==
    UNCHANGED <<file, notices, watched, index, memo, flags, refreshes, polling, deferred,
                act, replays, due, pass, build, faults, excused>>

\* The file is among the candidates, taken under the index lock.
Admit(p) ==
    /\ search.at = "idle" /\ ~indexing /\ hiddenComplete /\ Visible(p) # None
    /\ search' = [NoSearch EXCEPT !.at = "admitted", !.path = p]
    /\ Request
    /\ UNCHANGED cache /\ SearchFrame

\* The cache, and its generation, are looked at under its read lock.
Load ==
    /\ search.at = "admitted"
    /\ search' = IF cache[search.path] # None THEN NoSearch
                 ELSE [search EXCEPT !.at = "missed", !.moved = FALSE]
    /\ UNCHANGED <<cache, requests>> /\ SearchFrame

ReadFile ==
    /\ search.at = "missed"
    /\ search' = IF disk[search.path] = None THEN NoSearch
                 ELSE [search EXCEPT !.at = "read", !.copy = disk[search.path]]
    /\ UNCHANGED <<cache, requests>> /\ SearchFrame

Broken_UpdateCache ==
    /\ search.at = "read" /\ search' = NoSearch
    /\ cache' = IF cache[search.path] # None THEN cache
                ELSE [cache EXCEPT ![search.path] = search.copy]
    /\ UNCHANGED requests /\ SearchFrame

\* update_content_cache: what was read before an invalidation is not kept.
UpdateCache ==
    /\ search.at = "read" /\ search' = NoSearch
    /\ cache' = IF search.moved \/ cache[search.path] # None THEN cache
                ELSE [cache EXCEPT ![search.path] = search.copy]
    /\ UNCHANGED requests /\ SearchFrame

-----------------------------------------------------------------------------

\* A warm start: the index of an earlier run, perhaps stale, and a startup
\* refresh that is due.  A cold one: nothing, and a build under way.
Init ==
    /\ \E old \in [Paths -> [data : Contents, ver : {0}] \cup {None}] :
           \/ /\ reader = old /\ indexing = FALSE /\ startup = TRUE
              /\ hiddenComplete = TRUE /\ build = NoBuild /\ clock = 1
              /\ evidence = [p \in Paths |-> IF old[p] = None THEN NoStamp
                                ELSE [ver |-> 0, data |-> old[p].data]]
              /\ \E new \in Contents :
                     disk \in {d \in [Paths -> Copies \cup {None}] : \A p \in Paths :
                                 d[p] \in {None, old[p], [data |-> new, ver |-> 1]}}
           \/ /\ disk = old /\ clock = 0
              /\ reader = [p \in Paths |-> None] /\ indexing = TRUE /\ startup = FALSE
              /\ hiddenComplete = FALSE
              /\ build = [NoBuild EXCEPT !.by = "startup", !.left = Paths]
              /\ evidence = [p \in Paths |-> NoStamp]
    /\ saved = Stamps(evidence)
    /\ watched \in BOOLEAN
    /\ queue = {} /\ overflowed = FALSE
    /\ overlay = [p \in Paths |-> None] /\ memo = [p \in Paths |-> None]
    /\ pending = TRUE /\ catchUp = FALSE
    /\ dirty = FALSE /\ scheduled = FALSE /\ ignore = "off" /\ recheck = FALSE
    /\ polling = FALSE /\ deferred = Deferred({})
    /\ act = [a \in Actors |-> Idle]
    /\ replaying = {} /\ recovery = "off" /\ scanning = {} /\ tail = "off"
    /\ reconcile = FALSE /\ pass = NoPass
    /\ cache = [p \in Paths |-> None] /\ search = NoSearch
    /\ faults = 0 /\ requests = 0 /\ excused = {}

Environment ==
    \/ \E p \in Paths : (\E d \in Contents : Write(p, d)) \/ Remove(p)
    \/ RulesEvent \/ TurnToPolling \/ BeginReload \/ PeriodicPass \/ BeginSave
    \/ \E p \in Paths : Admit(p)

Events ==
    \/ \E p \in Paths : TakeEvent(p) \/ ReplayEvent(p)
    \/ \E a \in Actors : Defer(a) \/ Enter(a) \/ DropGone(a) \/ Open(a) \/ Verify(a)

Recovering ==
    \/ RecoveryReplays \/ RecoveryScans \/ RecoveryEnds
    \/ \E p \in Paths : ScanOne(p)

Ignoring == IgnoreChecks \/ IgnoreWaits \/ IgnoreClears \/ IgnoreRechecks

Begins ==
    \/ StartupPass \/ IgnorePass \/ OverflowPass \/ DeferredPass \/ BuildPass \/ ReloadPass

Passing ==
    \/ \E p \in Paths : Walk(p) \/ Read(p) \/ PassScans(p)
    \/ Classify \/ Publish \/ EndPass \/ StartupYields

Building ==
    \/ \E p \in Paths : BuildRead(p)
    \/ BuildPublish \/ BuildFails \/ BuildEnds

Reloading == ReloadPublish \/ ReloadFails \/ ReloadReplays \/ ReloadRests

Searching == Load \/ ReadFile \/ UpdateCache

Progress ==
    \/ Events \/ Recovering \/ Ignoring \/ Begins \/ Passing \/ Building \/ Reloading
    \/ Searching

Next == Environment \/ Checkpoint \/ Progress

\* The server goes on while one of its threads can.  That is less than each
\* thread being scheduled, and nothing is asked of the timers.
Spec == Init /\ [][Next]_vars /\ WF_vars(Progress)

-----------------------------------------------------------------------------
(* Properties.                                                             *)

Stamp == Versions \cup {None, Unknown}

\* The types.  What a merge could not read is an outcome, never an entry:
\* stream_merge_stale_changes takes it out of its candidates.
TypeOK ==
    /\ disk \in [Paths -> Copies \cup {None}] /\ clock \in Versions
    /\ queue \subseteq Paths
    /\ reader \in [Paths -> Copies \cup {None}]
    /\ overlay \in [Paths -> Copies \cup {None, Tombstone}]
    /\ saved \in [Paths -> Stamp] /\ memo \in [Paths -> Stamp]
    /\ evidence \in [Paths -> [ver : Stamp, data : Contents \cup {None}]]
    /\ overflowed \in BOOLEAN /\ watched \in BOOLEAN /\ indexing \in BOOLEAN
    /\ pending \in BOOLEAN /\ catchUp \in BOOLEAN /\ hiddenComplete \in BOOLEAN
    /\ dirty \in BOOLEAN /\ scheduled \in BOOLEAN /\ recheck \in BOOLEAN
    /\ polling \in BOOLEAN /\ startup \in BOOLEAN /\ reconcile \in BOOLEAN
    /\ deferred \in [all : BOOLEAN, paths : SUBSET Paths]
    /\ replaying \subseteq Paths /\ scanning \subseteq Paths
    /\ recovery \in {"off", "wait", "replay", "scan"}
    /\ tail \in {"off", "replay", "failed", "rest", "last", "catchup"}
    /\ ignore \in {"off", "check", "wait", "run", "clear"}
    /\ cache \in [Paths -> Copies \cup {None}]
    /\ faults \in 0..MaxFaults /\ requests \in 0..MaxRequests /\ excused \subseteq Paths

Fresh(p) ==
    IF disk[p] = None THEN Visible(p) = None
    ELSE Visible(p) # None /\ Visible(p).data = disk[p].data

\* Evidence is never wrong about what it claims: content it identifies is the
\* content indexed, and a version it gives is that of a copy with that content.
EvidenceIsHonest ==
    \A p \in Paths :
        /\ evidence[p].data # None => Visible(p) # None /\ Visible(p).data = evidence[p].data
        /\ evidence[p].ver \in Versions /\ evidence[p].ver = VersionOn(p) => Fresh(p)

\* Whatever the index has wrong, a walk would see: the metadata differs from
\* what is known, or a file that is gone is still indexed.
StaleIsDetectable ==
    \A p \in Paths :
        \/ Fresh(p)
        \/ IF disk[p] = None THEN Old(p) # None \/ Indexed(p) ELSE Old(p) # VersionOn(p)

InHand(p) == \E a \in Actors : act[a].at # "idle" /\ act[a].path = p

\* Somebody will look at p again without waiting for the periodic reconcile.
Owed(p) ==
    \/ p \in queue \/ overflowed \/ p \in replaying \/ InHand(p)
    \/ (deferred.all \/ p \in deferred.paths)
           /\ (indexing \/ recovery = "wait" \/ tail \in {"replay", "failed"})
    \/ p \in scanning \/ reconcile \/ startup \/ indexing
    \/ pass.by \in {"ignore", "overflow", "deferred"}
    \/ dirty /\ (scheduled \/ recheck \/ tail # "off")
    \/ ignore \in {"wait", "run"} \/ tail = "catchup"

\* A watched server owes a look at every file its index has wrong, unless that
\* was left to the periodic reconcile: by a failure that is not retried, or by a
\* replay that drops a file for an absence that is over (DropGone; without
\* that exception the property fails as EventuallyReflected does).
UnreflectedIsOwed ==
    \A p \in Paths :
        polling \/ p \in excused \/ Fresh(p) \/ Owed(p)

\* What searches read from the cache is no older than what the index knows.
CacheIsNoOlder ==
    \A p \in Paths : cache[p] # None =>
        /\ Visible(p) # None => cache[p].ver >= Visible(p).ver
        /\ evidence[p].ver \in Versions => cache[p].ver >= evidence[p].ver

\* An auto-save writes down what is indexed: a file that is there, and that
\* the overlay holds, is not taken out of the index by it.
SaveKeepsWhatExists ==
    [][\A p \in Paths :
           pass.by = "autosave" /\ disk[p] # None /\ overlay[p] \in Copies
               => Visible(p)' # None]_vars

\* No event, flag, lock or build lets a thread of the server go on.
AtRest == ~ENABLED <<Progress>>_vars

\* What is owed is done: a watched server comes to rest only when its index
\* holds what the files hold, but for what was left to the periodic reconcile.
\* A flag that stays set, or a thread that is thought to run, strands nothing.
RestIsReflected ==
    AtRest => \A p \in Paths : polling \/ p \in excused \/ Fresh(p)

\* When nothing fails, a watched server's index ends up holding what the files
\* hold, with no help from the periodic reconcile: a drop and a reindex, both
\* under reindex_lock, come in one of two orders, and neither loses a file that
\* is there (the comments in handle_fs_event and in the sweep of a scan).  The
\* replay of DropGone does lose one.
EventuallyReflected ==
    \A p \in Paths : <>[](polling \/ Fresh(p))
=============================================================================
