# A TLA+ model of tgrep

tgrep is a grep with a trigram index that a server keeps current. This
directory models the parts of it in which a wrong order of steps makes a search
answer from content that is no longer there, or loses data: how a server of one
root keeps its index current, how an index is published and recovered, how a
view of a checkout becomes ready, how changes are queued, how views are
attached, replaced and drained, and how the objects they share are collected.
The modules are checked with TLC on small instances; almost all of their safety
is also proved with TLAPS for every instance (section 4 says what is not).

Paths below are relative to the repository; `core` is `tgrep-core/src`, `cli`
is `tgrep-cli/src`.

## 1. The system

### Two servers over one index format

*The single-root server* (`cli/serve.rs`) keeps one index directory for one
root. It builds or resumes an index, watches the root, folds changes into an
in-memory overlay, and from time to time merges overlay and index into a staged
index that it publishes over the old one. Clients talk to it over a socket, or,
when no server runs, open the directory themselves (`cli/search.rs`).

*The managed server* (`cli/serve/shared`, `core/managed`) serves many Git
checkouts of one repository. Checkouts share immutable *base generations*
(`core/generations`); each has a *view* (`core/worktrees.rs`), an overlay on a
pinned base, whose durable part is a *checkpoint*. A SQLite *catalog* records
generations, views, owners, leases and operations; a collector deletes what
nothing refers to.

### Components

For each: its state; its operations; what it interacts with; what is hard; what
makes it correct. PROJECT.json lists the same components with their sources and
status.

| Component | State and operations | Hard behaviour | Correct when |
|---|---|---|---|
| Worktree view (`core/worktrees.rs`) | `Control`: epoch, published epoch, ready, owed work (full, tree, hints), stale; `State`: evidence, overlay, restored contents. invalidate_*, refresh, reread, verify, bootstrap, capture and restore of checkpoints, queries | one pass at a time walks and reads for minutes without the control mutex, while the watcher, queries and clients invalidate; passes fail, are overtaken, or tear half-way through publication | a ready view answers from content the checkout has; owed work survives; the overlay says what the evidence says |
| Hint queue (same file) | full flag and a bounded set of folded paths; queue_hint, take, put back | coarsening to parents at capacity, case folding that stops at ASCII, a put-back that overflows | every changed file stays covered, the budget holds, the loop ends |
| Notification filter (`cli/serve/shared/managed.rs`, `core/managed/views.rs`) | none of its own: compares a notice with the published evidence | the evidence it compares with is about to be replaced | it drops only notices of changes already seen |
| Staged publication (`cli/serve.rs`, `cli/serve/index_cleanup.rs`) | six files, a journaled backup directory per publication, commit markers, the recovery latch | a kill or an error between any two renames, in the publication, its rollback, its recovery or the cleanup | the committed index is never lost, never mixed, and the server comes back to it |
| Single-root server (`cli/serve.rs`, `core/hybrid.rs`, `core/live.rs`) | a reader, an overlay of files and tombstones, evidence (which version of a file is indexed), remembered read failures, deferred events, the snapshot gate; defer, replay, reindex, recovery scan, ignore refresh, stale passes, auto-save, startup build, reload, searches with their cache | a file changes between any two looks at it while the watcher, a replay, a scan and a pass index it; events arrive between the last replay and the end of a build; an overflow during recovery; a merge that cannot read | what the index has wrong can be detected by metadata and is owed to somebody; the evidence claims nothing the index has not |
| View slots (`core/managed/views.rs`) | the row of the catalog and the leases; the served view, a replacement in preparation, the running work, the observer, the flags closing and draining; attach, detach, migrate, reconcile, publish, query, drain | a replacement is prepared while the old view is served and invalidated; a commit whose outcome is unknown; participants leave and join while the slot drains | no invalidation is lost in the switch; a strict slot serves what the catalog says; nobody's pin moves; a leased view is active and watched |
| Generation and checkpoint stores (`core/generations`, `core/managed/generations.rs`, `checkpoints.rs`) | objects of several members, guard files, pins of this and other processes | a producer dies half-way; readers in other processes race with deletion | a pinned or referenced object is whole |
| Catalog and journal (`core/managed/catalog*.rs`) | SQLite tables, a write budget, log checkpoints | a kill between a file operation and its row | a row never names a file that is not there for good |
| Owners, leases, operations (`core/managed/owners.rs`, `lifetime.rs`, `management.rs`) | owner rows, lease expiry, fencing by process identity | expiry races renewal, restart with the same process id | one owner acts at a time |
| Collection (`core/managed/collection.rs`, ...) | candidates, an exclusive guard, journaled truncations, credited bytes | a candidate is pinned or referenced between choice and removal; a kill inside a truncation | nothing protected loses a byte; bytes are credited once; what is withdrawn goes in the end |
| Work admission and memory (`core/managed/work.rs`, `memory.rs`, ...) | permits, reservations, queues per class | cancellation racing a grant, two resources taken in order | reservations never exceed the limit, none leaks, no one starves |
| Builder, external sort, on-disk format, trigrams and query plans, walker and ignore rules, command line | sequential transformations | size boundaries | reference definitions over bounded inputs |

Interactions: the watcher calls the view's invalidate_* through the filter; the
worker calls refresh and verify; queries read the view through `current` or
`serving`; the view reads the base through a pin; a checkpoint is written by
the worker and read at attachment. A slot swaps one view for another and writes
the references that keep their objects from the collector. In the single-root
server the watcher, the passes and the stale check meet at the snapshot gate,
publishers at the publish lock, and clients at the files themselves.

PROJECT.json "hazards" lists what of this is hard to test, line by line.

## 2. What is modelled

### WorktreeView

One view over a set of paths. Its variables carry the names of the code's
fields: `epoch`, `published_epoch`, `ready`, `full`, `tree`, `hints` are
`Control`; `evidence`, `overlay`, `restored_content` are `State`; `stage`,
`job`, `todo`, `walked`, `prepared`, `upserts` are the locals of the one pass
that holds the reconcile mutex. A file is a version (`FileVersion`) and a
content (`ContentId`); an overlay entry is a content, a deletion, or nothing.

* The checkout (`disk`, `notices`) belongs to other programs: files are
  written, deleted, created, rewritten under an unchanged stat, or restored
  with their old version; a notice is queued, coalesced into a rescan, sent
  for the directory only, or lost.
* `DeliverNotice` is `watch_event` with the filter, then `invalidate_path`,
  `invalidate_tree` or `invalidate_all`. `RequestRepair` and
  `QueryMissesFile` are the invalidations of clients and of queries that meet a
  missing file.
* `BeginRefresh` takes the queue (an eventual view, `stale_reads`) or copies it
  (a strict view); `WalkFile` and `ReadFile` look at one file each, so a change
  can fall between any two looks; `PlanReads` reuses evidence.
* `PublishRefresh`, `RejectRefresh`, `FailRefresh` and `TearRefresh` are the
  four ways `refresh_controlled_inner` ends; `FinishVerify`, `RepairVerify`,
  `RejectVerify`, `FailVerify` and `TearVerify` those of `verify_serving`.
  Tearing is the failure after the state was replaced and before the epoch was
  recorded.
* `BootstrapBase`, `SaveCheckpoint` and `Restart` are the provisional first
  publication, `capture_checkpoint`, and a new process with or without it.

`unannounced` and `examined` are observers: no guard reads them. They let the
properties say "every change of this path was announced and delivered".

WorktreeViewInvariant holds the inductive invariant (section 4).

Left out: visibility and excluded-file records, the re-check of a file's parent
directories, memory charges, the path tables of several directories (paths are
top-level names, for which `queue_hint` does not coarsen), and the
unmanaged `save_checkpoint`/`restore` pair.

### HintQueue

`queue_hint` and `is_hinted` in full, on paths of several components: folding
to lower case, cutting a path before its first non-ASCII component, coarsening
one level of depth at a time, and the callers that take, put back or clear the
queue. Each turn of the coarsening loop is a step, all under the mutex
(`Locked`). `owed` and `due` are observers: the files changed since the last
pass took the queue, and those the running pass must read. The flag that a
changed `.gitignore` sets (`tree`) is in WorktreeView only.

### IndexPublication

`publish_staged_index` with `move_staged_files`, `StagedFileMove`,
`recover_pending` and `cleanup_retired`. A file is the number of the build that
wrote it, so a directory is a function from six names to builds. Each rename,
each removal, the record and the marker is a step of its own; `Kill` may follow
any of them, `Fault("error")` may refuse any of them, and `Fault("sync")` is a
rename that happened although the call reports an error. The publish lock makes
the server a sequential process, so its program counter is one variable,
`phase`. `PersistFilenames` is the one writer that neither stages a build nor
journals (`persist_filename_discovery`): it replaces the sidecar in place, under
the same lock and only while no failed rollback waits for a restart. `committed`
(the directory at the last marker, with any sidecar written for it since),
`repairing` and `stray` are observers.

A build may come with or without `filestamps.json` and the filename sidecar,
and so may the directory. `Trusted` is what `search_local_index` and
`covers_index` compare before they use a directory on their own.

IndexStore is the abstract specification: one build number in the directory,
replaced in a single step by a later one while the server serves the current
one. `PublishesAtOnce` maps the disk to what a recovery would make of it
(`Recovered`: the saved file where there is one, else the file in place), so
that the writing of the marker is the one step in which the index changes, and
a rollback, a kill or a recovery at any point are stutters.
IndexPublicationInvariant holds the inductive invariant (section 4).

Left out: `reset_to_empty_index`, which rewrites the directory in place when a
first build has failed and there is no index to keep; links in place of files,
staging directories as such, and power loss: what a rename did survives
a kill, which is what the syncs in `publish_staged_file` are for. A backup
directory without record or marker has no effect on anything and is not kept
in the model.

### RootServer

The server of one root with all its threads. A path's `reader` entry is the
immutable index on disk, its `overlay` entry what was indexed since;
`evidence`, `saved` and `memo` are the stamps in memory, the stamps on disk and
the versions whose read failed. `act` is what the watcher, a replay and a
recovery scan each have in hand: an event is taken, the file is opened, read and
committed in separate steps (`handle_fs_event`, `reindex_file`), and a file may
be written between any two of them. `pass` is the one refresh, save or reload
that holds the write side of the snapshot gate; `build` is the startup build or
the reload's read of the tree, during which events are deferred; `tail` is what
a reload still does after it released the gate. A client, a user or a timer
starts a reload, a save, a reconcile, a change of rules or a search; a search
reads a file without locks and offers it to the cache.

`excused` names the paths that are left to the periodic reconcile, which owes
nothing (it is the remedy, and would hide what needs it): the pass exists,
`PeriodicPass`, but no property counts on it. A failure that is not retried
leaves a path to it, and so does one race without any failure, a replay that
drops a file created again since it was looked at (`DropGone`, finding 5).
`UnreflectedIsOwed` and `RestIsReflected` except these paths;
`EventuallyReflected` does not, and is violated.

RootServerInvariant holds the inductive invariant (section 4). The constants
allow at least one write (`MaxClock`), which a warm start may have seen already.

Left out: what ignore rules and size caps exclude, directories as event
targets, the registration of watches per directory, binary files, the filename
sidecar, the append-only build (`background_index_build_in_pool`) and the
request loop. A publication happens or fails as a whole: its steps are
IndexPublication's.

### Collection

The objects of a managed namespace, all of one logical key so that every new
generation contends with the one before. A row goes from preparing (a member at
a time) to published, retired, pending and removed; `refs` are the references
of views, checkpoints and retaining requests; `shared` says who holds the shared
lock of an object's guard file, in the daemon or in other processes; `c` is the
one running pass. One step lies between two fault points of the code, so
`Crash` and `Interrupt` may separate any two of: the exclusive lock, the
decision, the retirement, the journalled length, the truncation or unlink, the
credit, the removal of the directory and the last row.

Left out: the idle age and the proof that an unfinished object's owner has
ended (either may refuse at any time), the retain-all policy, byte and page
bounds (a pass may stop before any step), the contents of members, and the
later cleanup of the rows of removed objects.

### ViewSlot

One view of the managed server between its first attachment and its last
detachment. `row` and `leases` are its rows in the catalog, `slot` is
`SlotState` with the slot's input epoch, `job` the operation that holds
`slot.serial`, `att` the attachment that holds the admission mutex, `query` one
query. A `WorktreeView` is reduced to what a slot relies on: which change of
each file its publication has, what it was told, and which pass published it.

An attachment reads the row, saves lease and row, and installs the slot in
three steps, because the code takes and releases different locks there; a job
claims, begins its work, makes a view, reads and publishes in separate steps;
`Publish` is the transaction and the swap (one step, under the slot mutex),
`PublishUnknown` a commit whose outcome the code does not learn; `DrainBegin`
and `DrainEnd` are the two halves of `drain`, which drops the observer without
the mutex in between. `heard` (the last announced change of each file) and
`overtaken` (an attachment saved a row that was out of date) are observers.
ViewSlotInvariant holds the inductive invariant (section 4).

Left out: `verify_current`, which publishes like any pass; the fresh view, under
a new identity, that replaces a retired one; receipts, permits and limits (a job
or an attachment may fail at any time); the row's revision.

## 3. The runs

Every run checks all its properties exhaustively on the instance named.

| Run | Instance | Shows |
|---|---|---|
| view_eventual | 1 base path, 2 contents, filter on, 2 versions, 1 fault/crash/lost notice/extra request, 6 epochs | all safety properties of a view; the epoch counter runs out within the bound |
| view_live | versions recur, filter on, fairness | the content tier repairs what the filter dropped |
| view_restored | versions recur, filter on | *violation*: see finding 1 |
| hints_eventual | 6 names, 3 levels, case differences, non-ASCII, capacity 2 | coverage, budget, termination |
| publication | 2 publications, 4 initial directories, 4 kinds of build, 2 faults of any kind | nothing committed is lost or mixed, recovery always possible, cleanup ends; IndexStore is implemented |
| publication_kill | kills only | *violation*: see finding 2 |
| server | 1 file, 2 contents, 2 writes, 1 failure of any of 7 kinds, 1 request, warm or cold start | what is wrong is detectable and owed, and nothing is left wrong when the threads come to rest, both but for what failures and the race of finding 5 leave to the periodic reconcile; evidence and cache never claim too much |
| server_recreated | no failures, fairness | *violation*: see finding 5 |
| server_unread | a read that fails, an auto-save | *violation*: see finding 3 |
| collection | 2 objects of 2 members, a reader in the daemon and one outside, 2 crashes, failed transactions or interruptions, fairness | protection, exact credit, removal in the end |
| slot | 2 leases (one without migration), 2 files that change once, 2 passes, 2 versions, 1 restart or unknown commit, strict and eventual | freshness, agreement with the catalog, pins, active rows |
| slot_rejoin | the same | *violation*: see finding 4 |

Properties of WorktreeView under a strict view and over two paths are not runs
of their own: ReadyIsFresh, UnreflectedIsOwed, ReadyOwesNothing and the others
are proved for every value of `StaleReads` and every set of paths.

**Bounds.** One path is enough for the races of WorktreeView because passes
treat paths independently; the only state paths share is `Control`. Two versions
allow a change before, during and after a pass; one budget unit allows each
fault alone with any interleaving of the unbudgeted steps (walks, reads,
notices, deletions, passes). `MaxEpoch` is `u64::MAX`: small, so that the
counter's end is reached, in the safety run; 20, so that it is not, in the fair
one. In IndexPublication two publications allow a leftover of the first to harm
the second, and two faults allow one in a publication (or none: a reader can be
refused without a fault) and one or two in its repair; three faults have been
run, without `PersistFilenames` and the liveness properties (552 303 states, no
error).

RootServer treats its files independently too, but for the flags that all of
them share and that one file can raise; two writes allow a change before and
after any one look, and one failure and one request meet every interleaving of
the threads. The hint queue's capacity of 2 gives the coarsening loop the target
1; its run was repeated with capacities 0 (target 0: 9 569 states), 1 (20 919),
3 (425 651) and 4 (target 2: 955 606), without error. In Collection a second
object of the same key is the successor that meets what is left of the first, or
the checkpoint over it; two members distinguish the header, deleted last, from
the rest; two faults allow one in the deletion and one in its resumption. Three
objects with one fault were run once (3.4 million states, no error). In ViewSlot
two files distinguish what a pass took from what it owes; two passes allow a
publication and its replacement, which is all a switch needs; an earlier form
was also run with one file, two changes and three passes (9.8 million states)
and with two files of two changes (8.3 million), without error.

**Fairness.** WorktreeView: the watcher drains its queue, the worker starts a
pass while work is owed and goes on with the one it runs (weak fairness; the
loops in `cli/serve/shared/managed.rs`), and the periodic content verification
gets its turn infinitely often (strong: a due verification waits for the view to
be idle). The checkout, clients and faults owe nothing. The liveness properties
are of the form "eventually always", so they speak of behaviours whose churn
ends, which the bounds on versions and budget make all of them. HintQueue: the
loop of `queue_hint` goes on. IndexPublication: the thread that publishes, rolls
back or recovers goes on, and a server that is down is started again (weak); the
cleanup, which every start and every minute repeats, is not interrupted for ever
(strong). RootServer: the server goes on while one of its threads can (weak
fairness of all of them together, less than a scheduler gives); no timer is
asked for anything. Only `EventuallyReflected` uses it. With failures the
instance is too large for a liveness check of TLC, so the passing run asks of
the states in which no thread can go on what fairness would lead to
(`RestIsReflected`); that the threads do not go round for ever is checked
without failures only (finding 5). Collection: a running pass takes its next
step and a producer that has finished drops its pins (weak); the traversal comes
to each object in turn (strong for each object), because
`next_collection_object` walks them by `use_sequence` up to a high-water mark;
so does recovery to each reservation. ViewSlot states no fairness: how long a
view may stay behind is WorktreeView's question.

### What the violations show

1. **view_restored.** Where `FileVersion` has no change time a file can get a
   former version back. The notification filter compares with the *published*
   evidence, and only a preparing replacement disables it, not an in-place pass:
   a file written, read by the pass, and restored before the pass publishes
   leaves the view ready over the middle content until the next content
   verification.
2. **publication_kill.** `move_staged_files` withdraws meta and evidence before
   it touches a core file; `recover_pending` does not. Killed once between the
   publication of meta.json and the marker, and once more after recovery put
   the old index.bin back, it leaves an old index.bin under a new path table,
   sidecar and meta, which a client trusts. The same mixture appears when a
   rollback cannot remove index.bin and restores meta.json all the same; it
   lasts until the next start completes its recovery. `UnrepairedIsWhole`
   states what does hold.
3. **server_unread.** A merge that cannot read a file withholds its stamp and
   keeps its overlay entry. The next auto-save merges without a walk, takes the
   stamps in memory for the files there are, and drops the file as deleted.
   Until then the remembered failure keeps every pass from reading it before it
   changes. The auto-save forgets the failure too, but asks for no pass: the file
   is missed until it changes or the next walk, at the latest that of the
   periodic reconcile, finds it.
4. **slot_rejoin.** An attachment reads the row in one transaction and saves it
   in another, without reading it again and without asking whether those it
   joins are still attached. If the last of them leaves in between, the slot is
   drained and its observer dropped; the attachment then opens it again without
   installing one. The view becomes ready, and no change is captured. The other
   properties of ViewSlot are stated up to this race (`overtaken`), which also
   makes a view report ready without an announced change, rolls the row back to
   an older publication, or lets a job save a leased row as inactive.
   `FixedPinKept` needs no such exception.
5. **server_recreated.** `handle_fs_event` looks at a path and takes the reindex
   lock afterwards. The watcher repairs a drop that came too late with its next
   event; a replay does not. A removal is deferred during a reload; the reload's
   replay finds the file absent, the file is created again and committed by the
   watcher, and then the replay drops it, for an absence that is over. Nothing failed and
   nothing owes the file a look. The sweep of a scan looks again under the lock
   for this very reason (`cli/serve.rs:4810-4819`). With the dropped path
   excepted (`p \in excused`) the property was checked on the same instance
   without error (498 427 states).

### Observations without a run

Met while reading; none is a property of a run.

* `publish_staged_file` renames and then syncs the directory. When the sync
  fails, the name is not yet in `published` (`cli/serve.rs:8973`), so a rollback
  leaves a sidecar or filestamps.json that had no predecessor, although the
  comment at 8904-8906 says that a partial publication is rolled back.
* When a publication is pruned from the overlay while one of its tombstoned
  paths could not be read, the tombstone goes and the old reader entry shows
  again (`core/live.rs`, `try_drop_all_persisted`), against the comment near
  671.
* When the error path of `create_object_inner` fails too, a preparing row
  without a sealed guard remains that is neither quarantined nor collected, and
  its key stays busy (`generation-already-materializing`): `Abandon` in
  Collection.
* A reference added between eligibility and retirement surfaces as
  `collection-journal-update` and ends the whole pass, not the one object.
* The comment at `core/managed/views.rs:1879` speaks of an invalidation that
  advances the clock before it takes the publication gate; `invalidate_inner`
  takes the slot mutex first, so the branch below it is not reached.

## 4. The proofs

TLAPS proves the following for every set of paths, contents and names, every
base, capacity and bound; the assumptions are the named ASSUMEs on the
constants in the modules. PROJECT.json "theorems" lists them.

**WorktreeView.** In three layers, each proved from the one before it, the first
two in *WorktreeViewProofs*.

* `TypeCorrect`.
* `SafetyInv` is inductive. `GateInv` says that a
  running refresh keeps the gate closed and will publish an epoch later than
  any before, and that while its epoch is current nothing was queued beside it;
  `OverlayInv` ties what queries see to evidence; `PreparedInv` says what the
  running pass may leave unextracted because the overlay has it. Hence
  `ReadyOwesNothing`, `OverlayMatchesEvidence`, `CheckpointIsExact` and
  `PublicationAdvances`.
* *WorktreeViewFreshProofs*: `FreshInv` is inductive, if versions do not recur
  (`~VersionsRecur` is an assumption of the theorem, not of the module; run
  view_restored is what happens without it). For each path it follows its last
  change: `WalkAt`, `ReadAt` and `ExaminedAt` while a pass is between its look
  and its publication, `OwedAt` outside, `FilterAt` for what the filter may
  drop, `UnreadAt` for provisional evidence. `ReadyIsFresh` alone is far from
  inductive: a state may be ready-to-be for as long as a pass runs, and only
  the relation between the walk's version, the epoch and the queue says that
  publishing will be right. Hence `ReadyIsFresh` and `UnreflectedIsOwed`.

**HintQueue.** `TypeCorrect`; `CoverInv` is inductive, hence `OwedIsQueued` and
`PassReadsDue`; `WithinCapacity`. The lemma on coarsening (a parent covers what
its child covers) is about every path, without induction over its length.

**IndexPublication.** `PublicationInv` is inductive, for any number of
publications and of kills, failed steps and failed syncs. Its parts: attempts
are never reused (`BackupsAreFresh`); at most one publication is pending, and
when (`OnePending`); the record lists the committed files, and each is saved or
still in place (`RecordIsTrue`), or, with nothing pending, in place
(`SettledIsCommitted`); `StagedFileMove`'s lists say what was done
(`MemoryIsTrue`, `BackedUpOnce`), which is what lets a rollback end
(`RollbackProgress`) and a recovery go on where an earlier one stopped
(`RecoveryProgress`); the new build is complete when the reader is opened
(`NewBuild`, `BuildsGoForward`); the meta leaves first and returns last
(`MetaGoesFirst`), so that a directory with a meta is of one build
(`MetaIsWhole`). None of the safety properties is inductive alone:
`NothingIsLost` needs the record to be right before it is read, and
`UnrepairedIsWhole` the order of every rename. Hence `IdleIsCommitted`,
`NothingIsLost`, `RecoveryIsPossible`, `CommittedIsWhole`, `UnrepairedIsWhole`,
`BlockedIsPreserved` and `PublishesAtOnce`, whose proof maps every step to
Commit, Open, Close or a stutter.

**Collection.** `CollectionInv` is inductive, for any number of objects,
members, readers and faults: `RowInv` relates an object's row to its files by
its state; `PassInv` says what the running pass holds and has done, in
particular that it holds the exclusive lock from the decision to the last
directory entry; `ProtectionInv` that a lock or a reference implies "published",
and a published checkpoint a reference to its generation; `ObjectIsExact` that
every length is journalled or done. Without `PassInv` none of the others
survives a deletion. Hence `PinnedIsIntact`, `ReferencedIsPublished` and, with
one more invariant, `CreditIsExact`: an object's total is the number of blocks
its members are recorded to have. The total is stated as the cardinality of
that set of blocks and not as a sum, because what a change of one member does to
a sum takes an induction, and to a cardinality only the library's theorems on
unions (`BlocksChange`).

**ViewSlot.** `TypeOK` ties the view in preparation to the running job. `RowInv`
is inductive with it: a view with a slot, a lease or an attachment has a row
(`VersionInv`); what an attachment has read it may save (`ReadInv`, `PinInv`);
what a job has read of the row's activity still holds when it publishes
(`WorkInv`). The last is needed because a publication writes back the `active`
it read at its claim. Hence `FixedPinKept` for any number of leases and
migrations, and `LeasedIsActive` unless an attachment was overtaken.

`ServesAuthoritative` and `ReadyIsFresh` speak of the view that is served; what
makes them true was settled while it was still being prepared, so neither is
inductive. Their invariant, `FreshInv` with `HolderInv` and `PassInv`, has these
parts:

* `HolderInv`: only an installed slot has work, queries or a view, and an
  instance nobody holds is as new, so a replacement never starts from what a
  dropped view knew.
* `PassInv`: a pass has a later number than whatever was published, saved or
  pinned before it. A view that has been passed over in place therefore no
  longer has the number of its publication, and its gate is shut until the
  publication follows.
* `ToldInv`: the view a job prepares is told of invalidations, unless its row is
  retired. `drain` may take it from the slot under a running job; that it cannot
  be published then rests on the row, not on the slot.
* `InputInv`: no input epoch is later than the slot's, and the row's is the
  latest that was published. It is why the epoch that moves in `PublishUnknown`
  shuts the gate of every earlier publication and fails every query.
* `GateInv`: the publication whose gate is open is the catalog's, also once the
  row a waiting attachment has saved is made current (`accept_current`).
* `KnownInv`: every told view has each announced change or owes it. While a pass
  reads, it follows the files apart: taken and not read yet, read as announced,
  or announced since, which is news to a later pass (`owed` if eventual, `moved`
  if strict).
* `QueryInv`: a strict query that would validate has every announced change.

The last five hold unless an attachment was overtaken, as the two properties do:
a row saved out of date may undo a publication (finding 4).

**RootServer.** `ServerInv` is inductive with the types, for any number of files,
contents, writes, faults and requests. Its parts, each proved from those before,
the last in *RootServerOwedProofs* and the others in *RootServerProofs*:

* `ThreadsOK`, the types of what the threads hold.
* `ControlInv`: who holds the gate. A startup build and a reload run alone
  (`BuildInv`); a pass excludes every thread that drops, opens or verifies a
  file, except the scan of its own (`GateInv`); until a matcher is published
  nothing is indexed from events (`PendingInv`); what was deferred has a replay
  to come, and a scheduled refresh a thread (`QueueInv`).
* `KnowledgeInv`: no copy, stamp or cache entry that anybody holds is newer than
  the file it came from (`VersionsInv`); evidence is of the content indexed, and
  what the sidecar says counts only where memory is silent, never against a
  tombstone (`IndexInv`); what a pass passed over has the stamps it walked
  (`ReadInv`); a remembered failure is of an older version, or was a fault
  (`MemoInv`); the cache and a search that may still fill it are no older than
  the index (`CacheInv`). Hence `EvidenceIsHonest`, `StaleIsDetectable` and
  `CacheIsNoOlder`. `EvidenceIsHonest` is not inductive by itself: evidence that
  is right today is right after the next write only because its version is no
  newer than the file's.
* `OwedInv`: what is wrong is owed. For every file, somebody will look at it
  or it is excused (`Covered`), or nothing is wrong about it (`Settled`: searches see what the
  file holds, and an auto-save would not take it out), or the pass under the
  gate owes it (`PassOwes`). `UnreflectedIsOwed` is that in terms of the
  server's threads, and says nothing of *how* a pass will settle what it owes;
  so the invariant follows each file through it: walked as it is (`WalkInv`), to
  be read, read as it is, or found settled (`MergeInv`), published or to be
  scanned (`ScanInv`), and in each case unless a change was noticed since.
  `ReloadInv` does the same for a reload, and `DropInv` for the watcher, which
  looks at a path before it takes the lock.

Every action has a lemma that lists what it changes; the steps of the parts are
proved from those. `ServerInv` was checked with TLC before it was proved
(1 file, 2 contents, 2 writes, 1 fault, 1 request: 2 082 788 states), which
refuted several earlier forms of it.

**Only model-checked.** All liveness (`EventuallyReady`, `EventuallyFresh`,
`LoopEnds`, `EventuallyReclaimed`, `EventuallyServes`, `WithdrawnIsRemoved`) and
`RestIsReflected`, which speaks of ENABLED: both are outside the prover's reach;
safety of the runs with recurring versions. Every other invariant of a passing
run is proved. The inductive invariants were checked with TLC on the instances
of section 3 before they were proved (those of ViewSlot: 2 416 601 states).

## 5. What is not modelled, and what would come next

1. **ServedView**: an abstract view (a set of changes that were announced and
   are not yet published, ready only when it is empty) that WorktreeView
   implements and over which ViewSlot could be stated instead of over its own
   abstraction of a view.
2. **Owners and leases**: expiry, fencing by process identity, the results of
   operations after a lost answer. ViewSlot has the leases of views only.
3. **Work admission and memory accounting**: budgets are sums over SQLite rows
   and sampled process memory; what is worth checking (no reservation leaks, no
   waiter starves) needs a model of the catalog's queries.
4. `reset_to_empty_index`, which rewrites an index directory in place after a
   first build has failed.

Not planned, and why: byte layouts, file-system traversal and ignore rules,
command-line handling and output are sequential and have no protocol; their
tests compare them with ripgrep. A query plan's soundness is a statement about
regular expressions over byte strings, which TLC cannot enumerate at a useful
size. The vendored `ignore` crate is third-party.
