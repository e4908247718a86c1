---------------------------- MODULE WorktreeView ----------------------------
(***************************************************************************)
(* One WorktreeView (tgrep-core/src/worktrees.rs): the index of a Git      *)
(* checkout, kept as a private overlay on an immutable base generation.    *)
(* A single pass at a time (the reconcile mutex) walks the checkout, reads *)
(* files and publishes; the watcher, the queries and explicit callers      *)
(* invalidate concurrently.  Readiness is the gate between them.           *)
(*                                                                         *)
(* A file is a version (the trusted FileVersion of its metadata, NoVersion *)
(* when absent) and a content (the ContentId of its indexed bytes,         *)
(* NoContent for a file whose bytes are not indexable).  All paths are     *)
(* top-level names, for which queue_hint does not coarsen: HintQueue has   *)
(* the coarsening.                                                         *)
(*                                                                         *)
(* A Broken_ definition is what a plausible slip would make of the         *)
(* definition it precedes; the specification never uses one.               *)
(***************************************************************************)
EXTENDS Integers, FiniteSets

CONSTANTS
    Paths,          \* checkout paths
    Contents,       \* content identities
    NoContent,      \* no indexed content: absent, binary, oversized
    Missing,        \* no file, no evidence entry
    Clean,          \* the overlay says nothing about a path
    Deleted,        \* the overlay hides the base's path
    None,           \* Option::None for an epoch
    Root,           \* the checkout's root, in a notification
    Base,           \* the pinned generation: path -> content
    StaleReads,     \* WorktreeOptions::stale_reads
    Filtered,       \* the watcher drops notifications of unchanged files
    VersionsRecur,  \* FileVersion without a change time (not Unix)
    HintCapacity,   \* WorktreeOptions::hint_capacity
    MaxEpoch,       \* u64::MAX
    MaxClock,       \* bound: versions the file system hands out
    MaxBudget       \* bound: faults, crashes, lost notices, extra requests

NoVersion == 0
Version == Nat
Content == Contents \cup {NoContent}
File == [version : Version, content : Content]
Entry == File

ASSUME PathsAssumption == IsFiniteSet(Paths)
ASSUME ContentsAssumption == NoContent \notin Contents
ASSUME MissingAssumption == Missing \notin File
ASSUME OverlayAssumption ==
    /\ Clean \notin Contents /\ Deleted \notin Contents /\ Clean # Deleted
ASSUME NoneAssumption == None \notin Nat
ASSUME RootAssumption == Root \notin Paths
ASSUME BaseAssumption == Base \in [Paths -> Content]
ASSUME SwitchAssumption ==
    StaleReads \in BOOLEAN /\ Filtered \in BOOLEAN /\ VersionsRecur \in BOOLEAN
ASSUME BoundAssumption ==
    /\ HintCapacity \in Nat /\ MaxEpoch \in Nat \ {0}
    /\ MaxClock \in Nat \ {0} /\ MaxBudget \in Nat

VARIABLES
    \* the checkout and its notifications
    disk,             \* path -> File or Missing
    clock,            \* last version handed out
    notices,          \* undelivered notifications
    budget,           \* faults and extra requests left
    \* Control
    epoch, published_epoch, ready, full, tree, hints,
    stale,            \* WorktreeView::stale
    \* State
    evidence,         \* path -> Entry or Missing
    overlay,          \* the live index: path -> content, Deleted or Clean
    restored_content, \* path -> content or NoContent
    \* the running pass
    stage,            \* "idle", "walk", "read"
    job,              \* what the pass took from Control when it began
    todo,             \* paths left to walk, then to read
    walked,           \* path -> version seen by the walk, NoVersion if absent
    prepared,         \* Prepared::evidence
    upserts,          \* Prepared::upserts
    \* the durable checkpoint
    checkpoint,       \* [overlay, contents] or None
    \* observers, which no action reads
    unannounced,      \* changed paths nothing announces
    examined          \* paths this pass examined since they last changed so

control == <<epoch, published_epoch, ready, full, tree, hints, stale>>
state == <<evidence, overlay, restored_content>>
pass == <<stage, job, todo, walked, prepared, upserts>>
checkout == <<disk, clock, notices>>
observers == <<unannounced, examined>>
vars == <<checkout, budget, control, state, pass, checkpoint, observers>>

\* "modify" may be dropped by the filter; "entry" is a create, remove or
\* rename; "dir" a directory's modification; "rescan" a queue overflow.
Notice == [path : Paths, kind : {"modify", "entry"}]
          \cup [path : {Root}, kind : {"dir", "rescan"}]
Job == [verify : BOOLEAN, reread : BOOLEAN, full : BOOLEAN,
        hints : SUBSET Paths, epoch : Nat]

\* The content an entry (or its absence) contributes to the index.
ContentOf(entry) == IF entry = Missing THEN NoContent ELSE entry.content
VersionOf(entry) == IF entry = Missing THEN NoVersion ELSE entry.version

\* What a query sees for a path: the overlay where it has an opinion.
Visible(p) ==
    IF overlay[p] = Clean THEN Base[p]
    ELSE IF overlay[p] = Deleted THEN NoContent ELSE overlay[p]

\* WorktreeView::current and WorktreeView::serving.
Current == ready /\ ~stale
Serving == IF StaleReads THEN published_epoch # None ELSE Current

NoPaths(value) == [p \in Paths |-> value]
IdleJob == [verify |-> FALSE, reread |-> FALSE, full |-> FALSE,
            hints |-> {}, epoch |-> 0]

-----------------------------------------------------------------------------
(* Construction. *)

\* WorktreeView::new: not ready, a full pass is owed.
FreshControl ==
    /\ epoch = 0 /\ published_epoch = None
    /\ ready = FALSE /\ full = TRUE /\ tree = FALSE /\ hints = {}
    /\ stale = FALSE

FreshState ==
    /\ evidence = NoPaths(Missing)
    /\ overlay = NoPaths(Clean)
    /\ restored_content = NoPaths(NoContent)

NoPass ==
    /\ stage = "idle" /\ job = IdleJob /\ todo = {}
    /\ walked = NoPaths(NoVersion)
    /\ prepared = NoPaths(Missing)
    /\ upserts = {}

Init ==
    /\ disk \in [Paths -> [version : {1}, content : Content] \cup {Missing}]
    /\ clock = 1 /\ notices = {} /\ budget = MaxBudget
    /\ FreshControl /\ FreshState /\ NoPass
    /\ checkpoint = None
    /\ unannounced = {} /\ examined = {}

-----------------------------------------------------------------------------
(* The checkout: other programs create, rewrite and delete files.  The     *)
(* operating system queues a notification, or coalesces, overflows or      *)
(* loses it.  None of this is the view's code.                             *)

Spend == budget > 0 /\ budget' = budget - 1

\* Announced(p, ns): the change queues the notices ns, or is never announced.
Announced(p, ns) ==
    \/ /\ notices' = notices \cup ns
       /\ UNCHANGED <<unannounced, budget>>
    \/ /\ Spend
       /\ unannounced' = unannounced \cup {p}
       /\ UNCHANGED notices

ChangeFile(p, file, ns) ==
    /\ disk' = [disk EXCEPT ![p] = file]
    /\ examined' = examined \ {p}
    /\ Announced(p, ns)
    /\ UNCHANGED <<control, state, pass, checkpoint>>

Modified(p) == {[path |-> p, kind |-> "modify"]}
EntryChanged(p) == {[path |-> p, kind |-> "entry"]}
DirNotice == [path |-> Root, kind |-> "dir"]
RescanNotice == [path |-> Root, kind |-> "rescan"]

WriteFile(p) ==
    /\ clock < MaxClock
    /\ clock' = clock + 1
    /\ \E c \in Content :
         LET file == [version |-> clock + 1, content |-> c] IN
         IF disk[p] = Missing
            THEN \E ns \in {EntryChanged(p), {DirNotice}} : ChangeFile(p, file, ns)
            ELSE ChangeFile(p, file, Modified(p))

DeleteFile(p) ==
    /\ disk[p] # Missing
    /\ \E ns \in {EntryChanged(p), {DirNotice}} : ChangeFile(p, Missing, ns)
    /\ UNCHANGED clock

\* New bytes under an unchanged version (a write within one timestamp tick, a
\* mapped write).  When notices are filtered, its notice cannot announce it.
RewriteSameStat(p) ==
    /\ disk[p] # Missing
    /\ Spend
    /\ \E c \in Content \ {disk[p].content} :
         disk' = [disk EXCEPT ![p].content = c]
    /\ examined' = examined \ {p}
    /\ notices' = notices \cup Modified(p)
    /\ unannounced' = IF Filtered THEN unannounced \cup {p} ELSE unannounced
    /\ UNCHANGED <<clock, control, state, pass, checkpoint>>

\* Without a change time, a file can get back the exact version and content
\* the published evidence describes (a copy that preserves timestamps).
RestoreFile(p) ==
    /\ VersionsRecur
    /\ disk[p] # Missing
    /\ evidence[p] # Missing /\ VersionOf(evidence[p]) # NoVersion
    /\ disk[p].version # evidence[p].version
    /\ Spend
    /\ disk' = [disk EXCEPT ![p] = evidence[p]]
    /\ examined' = examined \ {p}
    /\ notices' = notices \cup Modified(p)
    /\ UNCHANGED <<clock, unannounced, control, state, pass, checkpoint>>

\* The notification queue overflows: what it held becomes one rescan notice.
OverflowNotices ==
    /\ notices \ {RescanNotice} # {}
    /\ Spend
    /\ notices' = {RescanNotice}
    /\ UNCHANGED <<disk, clock, control, state, pass, checkpoint, observers>>

-----------------------------------------------------------------------------
(* Control.  Every step here holds the control mutex. *)

Broken_EpochAfter(n) == epoch + n

\* The counter after n calls of Control::invalidate, which fails at its end.
EpochAfter(n) == IF epoch + n <= MaxEpoch THEN epoch + n ELSE MaxEpoch
Exhausted == epoch = MaxEpoch

\* Control::invalidate, then queue: an exhausted counter closes the gate and
\* returns before anything is queued.
Invalidate(queue) ==
    /\ ready' = FALSE
    /\ epoch' = EpochAfter(1)
    /\ IF Exhausted THEN UNCHANGED <<full, tree, hints>> ELSE queue
    /\ UNCHANGED <<published_epoch, stale>>

QueueAll == full' = TRUE /\ hints' = {} /\ UNCHANGED tree

QueueTree == tree' = TRUE /\ UNCHANGED <<full, hints>>

\* Drops the hint that does not fit.
Broken_QueuePath(p) ==
    /\ UNCHANGED <<tree, full>>
    /\ hints' = IF ~full /\ Cardinality(hints \cup {p}) <= HintCapacity
                   THEN hints \cup {p} ELSE hints

\* queue_hint on top-level names; an overflow asks for a full pass.
QueuePath(p) ==
    /\ UNCHANGED tree
    /\ IF full THEN UNCHANGED <<full, hints>>
       ELSE IF Cardinality(hints \cup {p}) <= HintCapacity
               THEN hints' = hints \cup {p} /\ UNCHANGED full
               ELSE full' = TRUE /\ hints' = {}

\* WorktreeView::unchanged_file_reason: the published evidence is trusted,
\* was validated by a read, and has the version the file has now.
UnchangedFile(p) ==
    /\ disk[p] # Missing /\ evidence[p] # Missing
    /\ VersionOf(evidence[p]) = VersionOf(disk[p])

Dropped(n) ==
    /\ Filtered
    /\ n.kind = "modify"
    /\ UnchangedFile(n.path)

\* watch_event: the watcher thread takes one notification.
DeliverNotice(n) ==
    /\ n \in notices
    /\ notices' = notices \ {n}
    /\ IF Dropped(n) THEN UNCHANGED control
       ELSE Invalidate(CASE n.kind = "rescan" -> QueueAll
                         [] n.kind = "dir" -> QueueTree
                         [] OTHER -> QueuePath(n.path))
    /\ UNCHANGED <<disk, clock, budget, state, pass, checkpoint, observers>>

\* invalidate_path, invalidate_tree, invalidate_all called for no change: a
\* client's request, a query's missing candidate, a watcher's own failure.
RequestRepair ==
    /\ Spend
    /\ \/ \E p \in Paths : Invalidate(QueuePath(p))
       \/ Invalidate(QueueTree)
       \/ Invalidate(QueueAll)
    /\ UNCHANGED <<checkout, state, pass, checkpoint, observers>>

\* with_snapshot: a candidate that cannot be opened closes a strict view and
\* asks for a full pass; an eventual view queues that path.
QueryMissesFile(p) ==
    /\ Serving
    /\ Visible(p) # NoContent /\ disk[p] = Missing
    /\ Spend
    /\ IF StaleReads THEN Invalidate(QueuePath(p))
       ELSE /\ QueueAll /\ ready' = FALSE /\ epoch' = EpochAfter(1)
            /\ UNCHANGED <<published_epoch, stale>>
    /\ UNCHANGED <<checkout, state, pass, checkpoint, observers>>

-----------------------------------------------------------------------------
(* The pass.  It holds the reconcile mutex from "walk" to "idle". *)

StartPass(newJob) ==
    /\ stage' = "walk" /\ job' = newJob
    /\ todo' = Paths
    /\ walked' = NoPaths(NoVersion)
    /\ prepared' = NoPaths(Missing)
    /\ upserts' = {}
    /\ examined' = {}

EndPass ==
    /\ stage' = "idle" /\ job' = IdleJob /\ todo' = {}
    /\ walked' = NoPaths(NoVersion)
    /\ prepared' = NoPaths(Missing)
    /\ upserts' = {}
    /\ examined' = {}

\* Takes the queue of a strict view as it takes an eventual view's.
Broken_BeginRefresh(reread) ==
    /\ stage = "idle"
    /\ ~Exhausted
    /\ ready' = FALSE /\ epoch' = epoch + 1
    /\ StartPass([verify |-> FALSE, reread |-> reread,
                  full |-> reread \/ full \/ (~tree /\ hints = {}),
                  hints |-> hints, epoch |-> epoch + 1])
    /\ full' = FALSE /\ tree' = FALSE /\ hints' = {}
    /\ UNCHANGED <<published_epoch, stale, checkout, state, checkpoint,
                   unannounced>>

\* refresh_controlled_inner up to prepare.  An eventual pass takes the queued
\* work (TakenHints); a strict pass copies it and leaves it queued.
BeginRefresh(reread) ==
    /\ stage = "idle"
    /\ ~Exhausted
    /\ ready' = FALSE /\ epoch' = epoch + 1
    /\ LET wantsFull == reread \/ full \/ (~tree /\ hints = {}) IN
       /\ StartPass([verify |-> FALSE, reread |-> reread, full |-> wantsFull,
                     hints |-> hints, epoch |-> epoch + 1])
       /\ IF StaleReads
             THEN full' = FALSE /\ tree' = FALSE /\ hints' = {}
             ELSE full' = wantsFull /\ tree' = TRUE /\ UNCHANGED hints
    /\ UNCHANGED <<published_epoch, stale, checkout, state, checkpoint,
                   unannounced>>

\* refresh: the worker's pass while work is owed.
Refresh == ~Current /\ BeginRefresh(FALSE) /\ UNCHANGED budget

\* refresh or reread_controlled asked for by a client, in any state.
RequestRefresh(reread) == Spend /\ BeginRefresh(reread)

\* The content tier reuses evidence by its metadata, as the other tier does.
Broken_BeginVerify(reread) ==
    /\ stage = "idle"
    /\ Current /\ ~full /\ ~tree /\ hints = {}
    /\ published_epoch = epoch
    /\ StartPass([verify |-> TRUE, reread |-> reread, full |-> FALSE,
                  hints |-> {}, epoch |-> epoch])
    /\ UNCHANGED <<checkout, budget, control, state, checkpoint, unannounced>>

\* verify_tier up to verify_serving: metadata tier, or content tier (reread).
BeginVerify(reread) ==
    /\ stage = "idle"
    /\ Current /\ ~full /\ ~tree /\ hints = {}
    /\ published_epoch = epoch
    /\ StartPass([verify |-> TRUE, reread |-> reread, full |-> reread,
                  hints |-> {}, epoch |-> epoch])
    /\ UNCHANGED <<checkout, budget, control, state, checkpoint, unannounced>>

\* walk_file_metadata_with_rules: one entry at a time.
WalkFile(p) ==
    /\ stage = "walk" /\ p \in todo
    /\ todo' = todo \ {p}
    /\ walked' = [walked EXCEPT ![p] = VersionOf(disk[p])]
    /\ examined' = IF disk[p] = Missing THEN examined \cup {p} ELSE examined
    /\ UNCHANGED <<checkout, budget, control, state, stage, job, prepared,
                   upserts, checkpoint, unannounced>>

Listed == {p \in Paths : walked[p] # NoVersion}

\* Reuses evidence without comparing versions.
Broken_Reusable(p) ==
    /\ ~job.full
    /\ evidence[p] # Missing
    /\ p \notin job.hints

\* Published evidence that the walk's metadata still matches.
Reusable(p) ==
    /\ ~job.full
    /\ evidence[p] # Missing
    /\ VersionOf(evidence[p]) = walked[p]
    /\ p \notin job.hints

\* prepare after the walk: compare membership, reuse evidence, plan the reads.
PlanReads ==
    /\ stage = "walk" /\ todo = {}
    /\ stage' = "read"
    /\ todo' = {p \in Listed : ~Reusable(p)}
    /\ prepared' = [p \in Paths |-> IF p \in Listed /\ Reusable(p)
                                       THEN evidence[p] ELSE Missing]
    /\ stale' = \/ stale
                \/ job.verify /\ Listed # {p \in Paths : evidence[p] # Missing}
    /\ UNCHANGED <<checkout, budget, epoch, published_epoch, ready, full, tree,
                   hints, state, job, walked, upserts, checkpoint, observers>>

\* The content the overlay is known to index for p.
KnownContent(p) ==
    IF ContentOf(evidence[p]) # NoContent
       THEN ContentOf(evidence[p]) ELSE restored_content[p]

OverlayHas(p) == overlay[p] \notin {Clean, Deleted}

\* Keeps whatever the overlay indexes for the path already.
Broken_ReadFile(p) ==
    /\ stage = "read" /\ p \in todo
    /\ disk[p] # Missing
    /\ todo' = todo \ {p}
    /\ prepared' = [prepared EXCEPT ![p] = disk[p]]
    /\ upserts' = IF Base[p] # disk[p].content /\ ~OverlayHas(p)
                     THEN upserts \cup {p} ELSE upserts
    /\ examined' = examined \cup {p}
    /\ stale' = (stale \/ job.verify)
    /\ UNCHANGED <<checkout, budget, epoch, published_epoch, ready, full, tree,
                   hints, state, stage, job, walked, checkpoint, unannounced>>

\* verify_files: evidence whose version is current spares the read; otherwise
\* read, and extract content the overlay does not index already.
ReadFile(p) ==
    /\ stage = "read" /\ p \in todo
    /\ disk[p] # Missing
    /\ todo' = todo \ {p}
    /\ LET spared == /\ ~job.full /\ p \notin job.hints
                     /\ evidence[p] # Missing
                     /\ VersionOf(evidence[p]) = disk[p].version
           entry == IF spared THEN evidence[p] ELSE disk[p]
           extract == /\ ~spared
                      /\ entry.content # NoContent
                      /\ Base[p] # entry.content
                      /\ ~(KnownContent(p) = entry.content /\ OverlayHas(p))
       IN  /\ prepared' = [prepared EXCEPT ![p] = entry]
           /\ upserts' = IF extract THEN upserts \cup {p} ELSE upserts
           /\ examined' = IF spared THEN examined ELSE examined \cup {p}
           /\ stale' = \/ stale
                       \/ /\ job.verify
                          /\ \/ extract
                             \/ evidence[p] = Missing
                             \/ ContentOf(evidence[p]) # entry.content
    /\ UNCHANGED <<checkout, budget, epoch, published_epoch, ready, full, tree,
                   hints, state, stage, job, walked, checkpoint, unannounced>>

-----------------------------------------------------------------------------
(* The end of a pass: it publishes, or it leaves its work owed. *)

\* Leaves a private entry behind when the file has the base's content again.
Broken_OverlayAfter(p) ==
    LET content == ContentOf(prepared[p]) IN
    IF content = NoContent THEN IF Base[p] = NoContent THEN Clean ELSE Deleted
    ELSE IF p \in upserts THEN content ELSE overlay[p]

\* publish_prepared on the overlay: a private path whose content equals the
\* base's again is cleared, a base path without content is hidden, extracted
\* content replaces what the overlay had.
OverlayAfter(p) ==
    LET content == ContentOf(prepared[p]) IN
    IF content = Base[p] THEN Clean
    ELSE IF content = NoContent THEN Deleted
    ELSE IF p \in upserts THEN content ELSE overlay[p]

ReplaceState ==
    /\ overlay' = [p \in Paths |-> OverlayAfter(p)]
    /\ evidence' = prepared
    /\ restored_content' = NoPaths(NoContent)

\* publish_prepared as epoch e.  Unless the pass is current, the newer
\* invalidations stay queued.
PublishPrepared(e, current) ==
    /\ ReplaceState
    /\ published_epoch' = e
    /\ IF current
          THEN ready' = TRUE /\ full' = FALSE /\ tree' = FALSE /\ hints' = {}
          ELSE UNCHANGED <<full, tree, hints>>
    /\ stale' = FALSE
    /\ unannounced' = unannounced \ examined

PassRead == stage = "read" /\ todo = {}

\* Publishes as current whatever was invalidated since the pass began.
Broken_PublishRefresh ==
    /\ PassRead /\ ~job.verify
    /\ ~Exhausted
    /\ PublishPrepared(job.epoch, TRUE)
    /\ EndPass
    /\ UNCHANGED <<checkout, budget, epoch, checkpoint>>

\* The end of refresh_controlled_inner.
PublishRefresh ==
    /\ PassRead /\ ~job.verify
    /\ ~Exhausted
    /\ epoch = job.epoch \/ StaleReads
    /\ PublishPrepared(job.epoch, epoch = job.epoch)
    /\ epoch # job.epoch => UNCHANGED ready
    /\ EndPass
    /\ UNCHANGED <<checkout, budget, epoch, checkpoint>>

\* Forgets what an eventual pass took.
Broken_PutBack ==
    IF StaleReads THEN ready' = FALSE /\ tree' = TRUE /\ UNCHANGED <<full, hints>>
    ELSE UNCHANGED <<full, tree, hints, ready>>

\* TakenHints::drop: an eventual pass puts what it took back beside whatever
\* was queued since.  A strict pass never removed it.
PutBack ==
    IF StaleReads
       THEN LET all == hints \cup job.hints IN
            /\ full' = (full \/ job.full \/ Cardinality(all) > HintCapacity)
            /\ hints' = IF full' THEN {} ELSE all
            /\ tree' = TRUE
            /\ ready' = FALSE
       ELSE UNCHANGED <<full, tree, hints, ready>>

AbandonRefresh ==
    /\ PutBack
    /\ EndPass
    /\ UNCHANGED <<checkout, epoch, published_epoch, stale, checkpoint,
                   unannounced>>

\* ChangedDuringReconcile, or an exhausted epoch: nothing is published.
RejectRefresh ==
    /\ PassRead /\ ~job.verify
    /\ Exhausted \/ (epoch # job.epoch /\ ~StaleReads)
    /\ AbandonRefresh
    /\ UNCHANGED <<budget, state>>

\* A file the walk listed is gone before it is opened.
LostFile == stage = "read" /\ \E p \in todo : disk[p] = Missing

\* Any other error, deadline or cancellation.
Fault == stage # "idle" /\ Spend

\* Retries with the file list of the pass that failed.
Broken_FailRefresh ==
    /\ ~job.verify
    /\ (LostFile /\ UNCHANGED budget) \/ Fault
    /\ PutBack
    /\ UNCHANGED <<checkout, epoch, published_epoch, stale, checkpoint,
                   pass, state, observers>>

FailRefresh ==
    /\ ~job.verify
    /\ (LostFile /\ UNCHANGED budget) \/ Fault
    /\ AbandonRefresh
    /\ UNCHANGED state

\* publish_prepared of a managed view: measuring the overlay's cost or the
\* permit's last check fails after the state was replaced and before the
\* publication's epoch is recorded.
Torn == /\ PassRead /\ Spend
        /\ ~Exhausted /\ (epoch = job.epoch \/ StaleReads)
        /\ ReplaceState

TearRefresh == ~job.verify /\ Torn /\ AbandonRefresh

\* verify_serving found no difference: the evidence is refreshed in place.
FinishVerify ==
    /\ PassRead /\ job.verify /\ ~stale
    /\ evidence' = prepared
    /\ unannounced' = unannounced \ examined
    /\ EndPass
    /\ UNCHANGED <<checkout, budget, control, overlay, restored_content,
                   checkpoint>>

\* Publishes the repair under the epoch the verification began with.
Broken_RepairVerify ==
    /\ PassRead /\ job.verify /\ stale
    /\ ~Exhausted
    /\ epoch = job.epoch \/ StaleReads
    /\ epoch' = epoch + 1
    /\ PublishPrepared(job.epoch, epoch = job.epoch)
    /\ epoch # job.epoch => ready' = FALSE
    /\ EndPass
    /\ UNCHANGED <<checkout, budget, checkpoint>>

\* verify_serving found a difference and repairs it.  On an eventual view,
\* invalidations that arrived meanwhile keep it from becoming ready.
RepairVerify ==
    /\ PassRead /\ job.verify /\ stale
    /\ ~Exhausted
    /\ epoch = job.epoch \/ StaleReads
    /\ epoch' = epoch + 1
    /\ PublishPrepared(epoch + 1, epoch = job.epoch)
    /\ epoch # job.epoch => ready' = FALSE
    /\ EndPass
    /\ UNCHANGED <<checkout, budget, checkpoint>>

\* Takes the publication back as well.
Broken_AbandonVerify ==
    /\ full' = (full \/ job.reread)
    /\ tree' = TRUE
    /\ ready' = FALSE
    /\ stale' = FALSE
    /\ published_epoch' = None
    /\ EndPass
    /\ UNCHANGED <<checkout, hints, checkpoint, unannounced>>

\* StaleGuard::drop: an observed difference that was not repaired.
AbandonVerify ==
    /\ full' = (full \/ job.reread)
    /\ tree' = TRUE
    /\ ready' = FALSE
    /\ stale' = FALSE
    /\ EndPass
    /\ UNCHANGED <<checkout, published_epoch, hints, checkpoint, unannounced>>

\* ChangedDuringReconcile on a strict view, or an exhausted epoch.
RejectVerify ==
    /\ PassRead /\ job.verify /\ stale
    /\ Exhausted \/ (epoch # job.epoch /\ ~StaleReads)
    /\ AbandonVerify /\ epoch' = EpochAfter(1)
    /\ UNCHANGED <<budget, state>>

\* An error fails the view closed; a budget failure (is_budget_failure) does
\* so only after a difference was seen.
FailVerify ==
    /\ job.verify
    /\ \/ (LostFile /\ UNCHANGED budget) \/ Fault
       /\ AbandonVerify /\ epoch' = EpochAfter(1)
       /\ UNCHANGED state
    \/ /\ job.verify /\ ~stale /\ Fault
       /\ EndPass
       /\ UNCHANGED <<checkout, control, state, checkpoint, unannounced>>

TearVerify ==
    /\ job.verify /\ stale /\ Torn
    /\ AbandonVerify /\ epoch' = EpochAfter(2)

\* invalidate fails at the end of the counter: the gate stays closed.
RefreshExhausted ==
    /\ stage = "idle" /\ Exhausted
    /\ ready' = FALSE
    /\ UNCHANGED <<checkout, budget, epoch, published_epoch, full, tree, hints,
                   stale, state, pass, checkpoint, observers>>

-----------------------------------------------------------------------------
(* Bootstrap, checkpoints and restarts. *)

\* bootstrap_base_controlled: the base's content, without versions, for the
\* files a metadata walk lists; only for the first attachment of a view.
BootstrapBase ==
    /\ StaleReads
    /\ stage = "idle"
    /\ published_epoch = None
    /\ evidence = NoPaths(Missing) /\ overlay = NoPaths(Clean)
    /\ evidence' = [p \in Paths |->
                      IF disk[p] = Missing THEN Missing
                      ELSE [version |-> NoVersion, content |-> Base[p]]]
    /\ overlay' = [p \in Paths |->
                     IF disk[p] = Missing /\ Base[p] # NoContent
                        THEN Deleted ELSE Clean]
    /\ restored_content' = NoPaths(NoContent)
    /\ published_epoch' = epoch
    /\ ready' = FALSE /\ full' = TRUE
    /\ UNCHANGED <<checkout, budget, epoch, tree, hints, stale, pass,
                   checkpoint, observers>>

\* capture_checkpoint: the overlay and the verified content of its files.
SaveCheckpoint ==
    /\ Serving
    /\ Spend
    /\ \A p \in Paths : OverlayHas(p) => ContentOf(evidence[p]) # NoContent
    /\ checkpoint' = [overlay |-> overlay,
                      contents |-> [p \in Paths |->
                        IF OverlayHas(p) THEN ContentOf(evidence[p])
                        ELSE NoContent]]
    /\ UNCHANGED <<checkout, control, state, pass, observers>>

\* The process restarts: the view is constructed again, from the checkpoint
\* when there is one, and its watcher subscribes before the first pass.
Restart ==
    /\ Spend
    /\ published_epoch' = None /\ ready' = FALSE /\ full' = TRUE
    /\ tree' = FALSE /\ hints' = {} /\ stale' = FALSE
    /\ evidence' = NoPaths(Missing)
    /\ \/ /\ epoch' = 0
          /\ overlay' = NoPaths(Clean)
          /\ restored_content' = NoPaths(NoContent)
       \/ /\ checkpoint # None
          /\ epoch' = 1
          /\ overlay' = checkpoint.overlay
          /\ restored_content' = checkpoint.contents
    /\ EndPass
    /\ notices' = {}
    /\ unannounced' = {}
    /\ UNCHANGED <<disk, clock, checkpoint>>

-----------------------------------------------------------------------------
CheckoutNext ==
    \/ \E p \in Paths : WriteFile(p) \/ DeleteFile(p) \/ RewriteSameStat(p)
                        \/ RestoreFile(p)
    \/ OverflowNotices

PassNext ==
    \/ \E p \in Paths : WalkFile(p) \/ ReadFile(p)
    \/ PlanReads
    \/ PublishRefresh \/ RejectRefresh \/ FailRefresh \/ TearRefresh
    \/ FinishVerify \/ RepairVerify \/ RejectVerify \/ FailVerify
    \/ TearVerify

Next ==
    \/ CheckoutNext
    \/ \E n \in notices : DeliverNotice(n)
    \/ RequestRepair
    \/ \E p \in Paths : QueryMissesFile(p)
    \/ Refresh \/ RefreshExhausted
    \/ \E reread \in BOOLEAN : RequestRefresh(reread) \/ BeginVerify(reread)
    \/ PassNext
    \/ BootstrapBase \/ SaveCheckpoint \/ Restart

Spec == Init /\ [][Next]_vars

\* The watcher thread drains its queue, the worker starts a pass while work is
\* owed and finishes the pass it is in, and the periodic content tier gets its
\* turn again and again.  Nothing obliges the checkout, clients or faults.
Progress == PassNext /\ UNCHANGED budget

FairSpec ==
    /\ Spec
    /\ WF_vars(\E n \in notices : DeliverNotice(n))
    /\ WF_vars(Refresh)
    /\ WF_vars(Progress)
    /\ SF_vars(BeginVerify(TRUE))

-----------------------------------------------------------------------------
(* Properties. *)

FlagsOK ==
    /\ ready \in BOOLEAN /\ full \in BOOLEAN /\ tree \in BOOLEAN
    /\ stale \in BOOLEAN

DataOK ==
    /\ disk \in [Paths -> File \cup {Missing}]
    /\ clock \in Nat /\ budget \in Nat
    /\ notices \subseteq Notice
    /\ epoch \in Nat /\ epoch <= MaxEpoch
    /\ published_epoch \in Nat \cup {None}
    /\ hints \subseteq Paths
    /\ evidence \in [Paths -> Entry \cup {Missing}]
    /\ overlay \in [Paths -> Contents \cup {Clean, Deleted}]
    /\ restored_content \in [Paths -> Content]
    /\ stage \in {"idle", "walk", "read"}
    /\ job \in Job
    /\ todo \subseteq Paths
    /\ walked \in [Paths -> Version]
    /\ prepared \in [Paths -> Entry \cup {Missing}]
    /\ upserts \subseteq Paths
    /\ checkpoint \in [overlay : [Paths -> Contents \cup {Clean, Deleted}],
                       contents : [Paths -> Content]] \cup {None}
    /\ unannounced \subseteq Paths
    /\ examined \subseteq Paths

TypeOK == FlagsOK /\ DataOK

\* Nothing is left to deliver that could concern p, and every change of p was
\* announced.
Quiet(p) ==
    /\ p \notin unannounced
    /\ \A n \in notices : n.path # p /\ n.path # Root

Reflected(p) == Visible(p) = ContentOf(disk[p])

\* A view that says it is ready answers every query from content the checkout
\* still has, for every path whose notifications were delivered: no pass that
\* raced a change, no failed pass and no verification leaves ready over an old
\* read (refresh: "Churn never causes ... stale ready publication").
ReadyIsFresh == Current => \A p \in Paths : Quiet(p) => Reflected(p)

\* A delivered change that queries do not see yet is never forgotten: the
\* gate is closed, and the next pass, or the running one, must read the path
\* (or the epoch counter is exhausted, and the view never opens again).
ToBeRead(p) ==
    \/ full \/ p \in hints
    \/ VersionOf(evidence[p]) # VersionOf(disk[p])
    \/ stage # "idle" /\ ~job.verify /\ (job.full \/ p \in job.hints)
UnreflectedIsOwed ==
    \A p \in Paths :
        Quiet(p) /\ ~Reflected(p) => ~ready /\ (ToBeRead(p) \/ Exhausted)

\* Once anything is published, overlay and base together index exactly the
\* content the evidence records: the base never shows through a deletion or
\* an edit, and no dead overlay entry outlives a return to the base.
OverlayMatchesEvidence ==
    published_epoch # None =>
        \A p \in Paths : Visible(p) = ContentOf(evidence[p])

\* A ready view has published the current epoch and owes no work.
ReadyOwesNothing ==
    ready => /\ published_epoch = epoch
             /\ ~full /\ ~tree /\ hints = {}

\* The contents a checkpoint vouches for are those its overlay indexes, so a
\* restored view never keeps an entry it should extract again.
CheckpointIsExact ==
    checkpoint # None =>
        \A p \in Paths :
            checkpoint.overlay[p] \notin {Clean, Deleted} =>
                checkpoint.contents[p] = checkpoint.overlay[p]

\* Publications advance, and an eventual view that serves keeps serving, until
\* the process restarts.
PublicationAdvances ==
    [][ published_epoch # None =>
          \/ published_epoch' # None /\ published_epoch' >= published_epoch
          \/ Restart ]_vars

\* Churn that ends lets the view catch up: however passes were interrupted,
\* rejected or failed, the view becomes ready and stays so.
EventuallyReady == <>[]Current

\* And whatever notifications were lost, coalesced or dropped, queries end up
\* answering from the checkout's content: the content tier repairs the rest.
EventuallyFresh == <>[](\A p \in Paths : Reflected(p))
=============================================================================
