------------------------------ MODULE ViewSlot ------------------------------
(***************************************************************************)
(* The life of one managed view (tgrep-core/src/managed/views.rs): leases  *)
(* that attach to it and detach, the slot that serves it, the jobs that    *)
(* prepare, refresh and migrate it, the queries it answers, and how it is  *)
(* drained after its last lease.                                           *)
(*                                                                         *)
(* row is the view's row of the catalog and leases its lease rows; slot is *)
(* ViewSlot with its SlotState; job is the one operation that holds        *)
(* slot.serial and SlotState::work; att is the attachment that holds       *)
(* ViewManager::admission; query is one ViewQuery.  A WorktreeView is      *)
(* abstracted to what the slot relies on (module WorktreeView has the      *)
(* rest): which change of each file its publication holds, what it was     *)
(* told, and the pass that published it.  The number of that pass stands   *)
(* for the reconciled epoch and for the checkpoint it saved, so a          *)
(* publication is a version and a pass.                                    *)
(*                                                                         *)
(* Left out: the fresh view, under a new identity, that replaces a retired *)
(* one; verify_current, which publishes like any pass; receipts, permits   *)
(* and limits (a job or an attachment may fail at any time); the revision  *)
(* of the row, which only spares the comparison of two equal rows.         *)
(*                                                                         *)
(* Operators named Broken_... are faulty variants of the definition they   *)
(* name: what the properties are there to exclude.                         *)
(***************************************************************************)
EXTENDS Integers

CONSTANTS
  Leases,       \* lease tokens
  Fixed,        \* those attached with migratable: false
  Files,        \* files of the worktree
  MaxChanges,   \* bound: changes of a file
  MaxPasses,    \* bound: passes of the view's jobs
  MaxVersion,   \* bound: the view's version
  MaxFaults     \* bound: restarts and commits of unknown outcome

ASSUME LeasesAssumption == Fixed \subseteq Leases
ASSUME BoundsAssumption ==
  /\ MaxChanges \in Nat /\ MaxPasses \in Nat /\ MaxFaults \in Nat
  /\ MaxVersion \in Nat \ {0}

VARIABLES
  eventual,     \* WorktreeOptions::stale_reads of the daemon's views
  disk,         \* file -> number of its changes
  heard,        \* observer: file -> last change an invalidation announced
  row, leases, slot, view, job, att, query,
  passes, faults,
  overtaken     \* observer: an attachment saved a row that was out of date

checkout == <<eventual, disk, heard>>
vars == <<checkout, row, leases, slot, view, job, att, query, passes, faults,
          overtaken>>

\* The published instance, the one in preparation and a query's.
Instances == 1 .. 3
NoView == 0

Changes == [Files -> 0 .. MaxChanges]
Never == [f \in Files |-> 0]

\* ViewRecord: version 0 before the first attachment, pass 0 until the view is
\* committed.
Row == [active : BOOLEAN, version : 0 .. MaxVersion, pass : 0 .. MaxPasses, input : Nat]
NoRow == [active |-> FALSE, version |-> 0, pass |-> 0, input |-> 0]

\* "old": of an earlier daemon, neither released nor usable.
Lease == [state : {"none", "held", "old", "released"}, version : 0 .. MaxVersion]

\* PublishedView.
Published == [inst : {NoView} \cup Instances, version : 0 .. MaxVersion,
              pass : 0 .. MaxPasses, input : Nat]
Nothing == [inst |-> NoView, version |-> 0, pass |-> 0, input |-> 0]

\* root: SlotState::original_root is held.
Slot == [installed : BOOLEAN, epoch : Nat, closing : BOOLEAN, draining : BOOLEAN,
         observer : BOOLEAN, root : BOOLEAN, current : Published,
         preparing : {NoView} \cup Instances]
NoSlot == [installed |-> FALSE, epoch |-> 0, closing |-> FALSE, draining |-> FALSE,
           observer |-> FALSE, root |-> FALSE, current |-> Nothing, preparing |-> NoView]

\* owed: what the next pass must read; a full or a tree pass reads all there is.
\* moved: invalidated since its pass began.
View == [content : Changes, owed : SUBSET Files, ready : BOOLEAN,
         pass : 0 .. MaxPasses, moved : BOOLEAN]
NewView == [content |-> Never, owed |-> Files, ready |-> FALSE, pass |-> 0, moved |-> FALSE]

Stage == {"idle", "claim", "make", "input", "begin", "read", "end", "ready", "done"}
Job == [stage : Stage, kind : {"attach", "reconcile", "migrate"},
        inst : {NoView} \cup Instances, active : BOOLEAN, version : 0 .. MaxVersion,
        base : 0 .. MaxPasses, pass : 0 .. MaxPasses, input : Nat, take : SUBSET Files, seen : Changes,
        cancelled : BOOLEAN]
NoJob == [stage |-> "idle", kind |-> "reconcile", inst |-> NoView, active |-> FALSE,
          version |-> 0, base |-> 0, pass |-> 0, input |-> 0, take |-> {}, seen |-> Never, cancelled |-> FALSE]

Attachment == [stage : {"idle", "read", "saved"}, lease : Leases \cup {"none"}, row : Row]
NoAttachment == [stage |-> "idle", lease |-> "none", row |-> NoRow]

Query == [inst : {NoView} \cup Instances, epoch : Nat, pass : 0 .. MaxPasses]
NoQuery == [inst |-> NoView, epoch |-> 0, pass |-> 0]

Init ==
  /\ eventual \in BOOLEAN
  /\ disk = Never /\ heard = Never
  /\ row = NoRow
  /\ leases = [l \in Leases |-> [state |-> "none", version |-> 0]]
  /\ slot = NoSlot
  /\ view = [i \in Instances |-> NewView]
  /\ job = NoJob /\ att = NoAttachment /\ query = NoQuery
  /\ passes = 0 /\ faults = 0 /\ overtaken = FALSE

-----------------------------------------------------------------------------

Held == {l \in Leases : leases[l].state = "held"}

\* lease_count: whatever is not released.
Counted == {l \in Leases : leases[l].state \in {"held", "old"}}

\* SlotState::work; a claim holds slot.serial only.
Working == job.stage \notin {"idle", "claim"}

\* same_publication: the catalog's publication is the one being served.
Authoritative == slot.current.version = row.version /\ slot.current.pass = row.pass

\* An instance is dropped with the last reference to it.
Dropped(inst, refs) == [i \in Instances |-> IF i = inst /\ i \notin refs THEN NewView
                                            ELSE view[i]]

\* install_slot, for a view that has no slot yet.
Install(s, input) ==
  IF s.installed THEN s
  ELSE [NoSlot EXCEPT !.installed = TRUE, !.epoch = input, !.observer = TRUE, !.root = TRUE]

-----------------------------------------------------------------------------
\* The checkout and what is told of it.

Change(f) ==
  /\ disk[f] < MaxChanges
  /\ disk' = [disk EXCEPT ![f] = @ + 1]
  /\ UNCHANGED <<eventual, heard, row, leases, slot, view, job, att, query, passes, faults,
                 overtaken>>

\* A view that is being prepared is not told.
Broken_Told == {slot.current.inst} \ {NoView}

\* invalidate_inner tells the published view and the one in preparation.
Told == {slot.current.inst, slot.preparing} \ {NoView}

\* invalidate_inner, called by the view's watcher or by a client that attached.
Invalidate(f) ==
  /\ slot.installed
  /\ slot.observer \/ Held # {}
  /\ heard[f] < disk[f]
  /\ heard' = [heard EXCEPT ![f] = disk[f]]
  /\ slot' = [slot EXCEPT !.epoch = @ + 1]
  /\ view' = [i \in Instances |->
                IF i \in Told
                  THEN [view[i] EXCEPT !.owed = @ \cup {f}, !.ready = FALSE, !.moved = TRUE]
                  ELSE view[i]]
  /\ UNCHANGED <<eventual, disk, row, leases, job, att, query, passes, faults, overtaken>>

-----------------------------------------------------------------------------
\* Attachment (execute_attach).

\* Under the admission mutex the row is read, in one step here.  A committed
\* view is joined with accept_current; a row without leases is retired on the way.
AttachRead(l) ==
  /\ att.stage = "idle"
  /\ leases[l].state = "none"
  /\ \/ /\ row.version = 0
        /\ att' = [stage |-> "read", lease |-> l, row |-> [NoRow EXCEPT !.version = 1]]
        /\ UNCHANGED row
     \/ /\ row.active /\ Counted # {} /\ row.pass # 0
        /\ att' = [stage |-> "read", lease |-> l, row |-> row]
        /\ UNCHANGED row
     \/ /\ row.active /\ Counted = {}
        /\ row' = [row EXCEPT !.active = FALSE]
        /\ UNCHANGED att
  /\ UNCHANGED <<checkout, leases, slot, view, job, query, passes, faults, overtaken>>

\* The lease and the row are saved in a transaction that does not read the row
\* again, nor whether anybody is still attached to it.
AttachSave ==
  /\ att.stage = "read"
  /\ row' = [att.row EXCEPT !.active = TRUE]
  /\ overtaken' = (overtaken \/ (row.version # 0 /\ row # att.row))
  /\ leases' = [leases EXCEPT ![att.lease] = [state |-> "held", version |-> att.row.version]]
  /\ att' = [att EXCEPT !.stage = "saved"]
  /\ UNCHANGED <<checkout, slot, view, job, query, passes, faults>>

\* The slot is opened again; if it serves the version that was joined the
\* attachment is complete, and a job has to materialize the view if not.
AttachInstall ==
  /\ att.stage = "saved"
  /\ LET s == [Install(slot, att.row.input) EXCEPT !.closing = FALSE]
     IN slot' = IF s.current.inst # NoView /\ s.current.version = att.row.version
                  THEN [s EXCEPT !.current.pass = att.row.pass, !.current.input = att.row.input]
                  ELSE s
  /\ att' = NoAttachment
  /\ UNCHANGED <<checkout, row, leases, view, job, query, passes, faults, overtaken>>

AttachFail ==
  /\ att.stage # "idle"
  /\ att' = NoAttachment
  /\ UNCHANGED <<checkout, row, leases, slot, view, job, query, passes, faults, overtaken>>

-----------------------------------------------------------------------------
\* Jobs.  A job takes slot.serial and reads the row.

Claim(kind, version) ==
  /\ job.stage = "idle"
  /\ job' = [NoJob EXCEPT !.stage = "claim", !.kind = kind, !.active = row.active,
                          !.version = version, !.base = row.pass]

\* execute_attach resumed for a saved lease, materialize_attachment.
StartAttach ==
  /\ \E l \in Held : att.stage = "saved" => att.lease # l
  /\ ~ (row.pass # 0 /\ slot.current.inst # NoView /\ slot.current.version = row.version)
  /\ Claim("attach", row.version)
  /\ slot' = Install(slot, row.input)
  /\ UNCHANGED <<checkout, row, leases, view, att, query, passes, faults, overtaken>>

\* refresh_view, for a request accepted while somebody was attached.
StartReconcile ==
  /\ slot.installed
  /\ Claim("reconcile", row.version)
  /\ UNCHANGED <<checkout, row, leases, slot, view, att, query, passes, faults, overtaken>>

\* execute_migration up to begin_work.
StartMigrate ==
  /\ Held # {} /\ Counted \cap Fixed = {}
  /\ row.active /\ row.version < MaxVersion
  /\ slot.installed
  /\ slot.current.inst # NoView /\ Authoritative
  /\ Claim("migrate", row.version + 1)
  /\ UNCHANGED <<checkout, row, leases, slot, view, att, query, passes, faults, overtaken>>

\* begin_work.  A reconciliation reads in place if the slot serves what the
\* catalog said.
BeginWork ==
  /\ job.stage = "claim"
  /\ slot.installed /\ ~ slot.closing
  /\ job' = IF /\ job.kind = "reconcile" /\ slot.current.inst # NoView
               /\ slot.current.version = job.version /\ slot.current.pass = job.base
              THEN [job EXCEPT !.stage = "input", !.inst = slot.current.inst]
              ELSE [job EXCEPT !.stage = "make"]
  /\ UNCHANGED <<checkout, row, leases, slot, view, att, query, passes, faults, overtaken>>

\* materialize_view or replacement, and install_preparing: nothing is read
\* before the slot forwards invalidations to the new view.
Make ==
  /\ job.stage = "make"
  /\ ~ slot.closing
  /\ \E i \in Instances \ {slot.current.inst, slot.preparing, query.inst} :
       /\ \A j \in Instances \ {slot.current.inst, slot.preparing, query.inst} : i <= j
       /\ slot' = [slot EXCEPT !.preparing = i]
       /\ job' = [job EXCEPT !.stage = "input", !.inst = i]
  /\ UNCHANGED <<checkout, row, leases, view, att, query, passes, faults, overtaken>>

\* prepare_checkpoint: an attempt begins with the slot's input epoch.
ReadInput ==
  /\ job.stage = "input"
  /\ job' = [job EXCEPT !.stage = "begin", !.input = slot.epoch]
  /\ UNCHANGED <<checkout, row, leases, slot, view, att, query, passes, faults, overtaken>>

\* refresh_controlled takes (strict: copies) what is owed; a strict view stays
\* due for a tree pass until it publishes.
BeginPass ==
  /\ job.stage = "begin"
  /\ passes < MaxPasses
  /\ passes' = passes + 1
  /\ LET v == view[job.inst] IN
       /\ job' = [job EXCEPT !.stage = "read", !.pass = passes + 1,
                             !.take = IF v.owed = {} THEN Files ELSE v.owed]
       /\ view' = [view EXCEPT ![job.inst] =
                     [v EXCEPT !.ready = FALSE, !.moved = FALSE,
                               !.owed = IF eventual THEN {} ELSE Files]]
  /\ UNCHANGED <<checkout, row, leases, slot, att, query, faults, overtaken>>

ReadFiles ==
  /\ job.stage = "read"
  /\ job' = [job EXCEPT !.stage = "end", !.seen = disk]
  /\ UNCHANGED <<checkout, row, leases, slot, view, att, query, passes, faults, overtaken>>

\* The pass publishes in the view.  A strict view that was invalidated
\* meanwhile rejects it (ChangedDuringReconcile).
EndPass ==
  /\ job.stage = "end"
  /\ LET v == view[job.inst] IN
       IF ~ eventual /\ v.moved
         THEN job' = [job EXCEPT !.stage = "input", !.take = {}, !.seen = Never]
              /\ UNCHANGED view
         ELSE /\ job' = [job EXCEPT !.stage = "ready", !.take = {}, !.seen = Never]
              /\ view' = [view EXCEPT ![job.inst] =
                   [v EXCEPT !.content = [f \in Files |-> IF f \in job.take THEN job.seen[f]
                                                          ELSE v.content[f]],
                             !.pass = job.pass, !.ready = ~ v.moved,
                             !.owed = IF eventual THEN @ ELSE {}]]
  /\ UNCHANGED <<checkout, row, leases, slot, att, query, passes, faults, overtaken>>

\* The slot was invalidated during the attempt: a strict view tries again.
Retry ==
  /\ job.stage = "ready"
  /\ ~ eventual /\ slot.epoch # job.input
  /\ job' = [job EXCEPT !.stage = "input"]
  /\ UNCHANGED <<checkout, row, leases, slot, view, att, query, passes, faults, overtaken>>

\* A migration compares with what the slot serves, if the row was saved since.
SamePublication ==
  \/ row.pass = job.base
  \/ job.kind = "migrate" /\ Authoritative

\* A participant that joined during the preparation is not looked for again.
Broken_Publishable ==
  /\ job.stage = "ready"
  /\ ~ slot.closing /\ ~ job.cancelled
  /\ eventual \/ slot.epoch = job.input
  /\ job.kind = "migrate" => slot.current.inst # NoView
  /\ row.version = IF job.kind = "migrate" THEN job.version - 1 ELSE job.version
  /\ SamePublication
  /\ Counted # {}

\* The conditions of publish, under the slot mutex and in its transaction.
Publishable ==
  /\ job.stage = "ready"
  /\ ~ slot.closing /\ ~ job.cancelled
  /\ eventual \/ slot.epoch = job.input
  /\ job.kind = "migrate" => slot.current.inst # NoView
  /\ row.version = IF job.kind = "migrate" THEN job.version - 1 ELSE job.version
  /\ SamePublication
  /\ Counted # {}
  /\ job.kind = "migrate" => Counted \cap Fixed = {}

Commit ==
  /\ Publishable
  /\ row' = [active |-> job.active, version |-> job.version, pass |-> job.pass, input |-> job.input]
  /\ job' = [NoJob EXCEPT !.stage = "done", !.inst = job.inst]
  /\ UNCHANGED <<checkout, leases, att, query, passes, overtaken>>

\* publish: the transaction, and the swap of the slot's view.
Publish ==
  /\ Commit
  /\ slot' = [slot EXCEPT !.current = [inst |-> job.inst, version |-> job.version,
                                       pass |-> job.pass, input |-> job.input],
                          !.preparing = NoView, !.root = FALSE]
  /\ view' = Dropped(slot.current.inst, {job.inst, query.inst})
  /\ UNCHANGED faults

\* The gate stays open when the outcome of the commit is not known.
Broken_PublishUnknown ==
  /\ Commit
  /\ faults < MaxFaults
  /\ faults' = faults + 1
  /\ UNCHANGED <<slot, view>>

\* publish: an error is reported after the transaction committed.
PublishUnknown ==
  /\ Commit
  /\ faults < MaxFaults
  /\ faults' = faults + 1
  /\ slot' = [slot EXCEPT !.epoch = @ + 1]
  /\ UNCHANGED view

\* The view in preparation is left behind.
Broken_FailJob ==
  /\ job.stage \notin {"idle", "done"}
  /\ job' = NoJob
  /\ UNCHANGED <<checkout, row, leases, slot, view, att, query, passes, faults, overtaken>>

\* A refused publication, a deadline, a cancellation or any other error, and
\* ViewWork::drop.  An interrupted pass puts back what it took.
FailJob ==
  /\ job.stage \notin {"idle", "done"}
  /\ job' = NoJob
  /\ slot' = [slot EXCEPT !.preparing = NoView]
  /\ view' = IF job.inst = slot.current.inst /\ job.stage \in {"read", "end"}
               THEN [view EXCEPT ![job.inst].owed = Files]
               ELSE Dropped(job.inst, {slot.current.inst, query.inst})
  /\ UNCHANGED <<checkout, row, leases, att, query, passes, faults, overtaken>>

\* ViewWork::drop after a publication.
EndJob ==
  /\ job.stage = "done"
  /\ job' = NoJob
  /\ slot' = [slot EXCEPT !.preparing = NoView]
  /\ view' = Dropped(job.inst, {slot.current.inst, query.inst})
  /\ UNCHANGED <<checkout, row, leases, att, query, passes, faults, overtaken>>

-----------------------------------------------------------------------------
\* Queries.

\* ViewSlot::query: what a strict view asks of its publication.
Current(inst, epoch, pass) ==
  /\ slot.epoch = epoch
  /\ view[inst].ready
  /\ view[inst].pass = pass

Serving ==
  /\ ~ slot.closing
  /\ slot.current.inst # NoView
  /\ IF eventual THEN view[slot.current.inst].pass # 0
     ELSE Current(slot.current.inst, slot.current.input, slot.current.pass)

StartQuery ==
  /\ query = NoQuery
  /\ Serving
  /\ query' = [inst |-> slot.current.inst, epoch |-> slot.epoch, pass |-> slot.current.pass]
  /\ UNCHANGED <<checkout, row, leases, slot, view, job, att, passes, faults, overtaken>>

\* ViewQuery::validate.
Valid == eventual \/ Current(query.inst, query.epoch, query.pass)

\* ViewQuery::complete or an error, and drop.
EndQuery ==
  /\ query # NoQuery
  /\ query' = NoQuery
  /\ view' = Dropped(query.inst, {slot.current.inst, job.inst})
  /\ UNCHANGED <<checkout, row, leases, slot, job, att, passes, faults, overtaken>>

-----------------------------------------------------------------------------
\* Detachment and draining.

\* Closes the slot and cancels its work.
Close ==
  /\ slot' = [slot EXCEPT !.closing = TRUE]
  /\ job' = IF Working /\ job.stage # "done" THEN [job EXCEPT !.cancelled = TRUE] ELSE job

\* detach_participant.
Detach(l) ==
  /\ l \in Counted
  /\ leases' = [leases EXCEPT ![l].state = "released"]
  /\ IF slot.installed /\ Counted = {l} THEN Close ELSE UNCHANGED <<slot, job>>
  /\ UNCHANGED <<checkout, row, view, att, query, passes, faults, overtaken>>

\* detach_participant of a view that has no slot; recover_units.
RetireRow ==
  /\ ~ slot.installed
  /\ row.active /\ Counted = {}
  /\ row' = [row EXCEPT !.active = FALSE]
  /\ UNCHANGED <<checkout, leases, slot, view, job, att, query, passes, faults, overtaken>>

\* Trusts the slot's closing, without a look at the leases.
Broken_DrainBegin ==
  /\ slot.installed /\ slot.closing /\ ~ slot.draining
  /\ query = NoQuery /\ ~ Working
  /\ row' = [row EXCEPT !.active = FALSE]
  /\ slot' = [slot EXCEPT !.observer = FALSE, !.draining = TRUE]
  /\ UNCHANGED <<checkout, leases, view, job, att, query, passes, faults, overtaken>>

\* ViewSlot::drain, called by the last lease, query or job to go: the row is
\* retired and the observer taken, then dropped without the slot mutex.
DrainBegin ==
  /\ slot.installed /\ slot.closing /\ ~ slot.draining
  /\ query = NoQuery /\ ~ Working
  /\ Counted = {}
  /\ row' = [row EXCEPT !.active = FALSE]
  /\ slot' = [slot EXCEPT !.observer = FALSE, !.draining = TRUE]
  /\ UNCHANGED <<checkout, leases, view, job, att, query, passes, faults, overtaken>>

DrainEnd ==
  /\ slot.draining
  /\ slot' = [slot EXCEPT !.preparing = NoView, !.root = FALSE, !.current = Nothing,
                          !.draining = FALSE]
  /\ view' = Dropped(slot.current.inst, {job.inst, query.inst})
  /\ UNCHANGED <<checkout, row, leases, job, att, query, passes, faults, overtaken>>

\* drain_slots, under the admission mutex: closes a slot without leases.
Sweep ==
  /\ att.stage = "idle"
  /\ slot.installed /\ ~ slot.closing /\ Counted = {}
  /\ Close
  /\ UNCHANGED <<checkout, row, leases, view, att, query, passes, faults, overtaken>>

\* drain_slots: a stopped slot leaves the registry.
Remove ==
  /\ att.stage = "idle"
  /\ slot.installed /\ Counted = {}
  /\ slot.current.inst = NoView /\ ~ Working /\ query = NoQuery /\ ~ slot.root
  /\ slot' = NoSlot
  /\ UNCHANGED <<checkout, row, leases, view, job, att, query, passes, faults, overtaken>>

\* The daemon is killed and started again.
Restart ==
  /\ faults < MaxFaults
  /\ faults' = faults + 1
  /\ slot' = NoSlot /\ job' = NoJob /\ att' = NoAttachment /\ query' = NoQuery
  /\ view' = [i \in Instances |-> NewView]
  /\ leases' = [l \in Leases |-> IF l \in Held THEN [leases[l] EXCEPT !.state = "old"]
                                 ELSE leases[l]]
  /\ UNCHANGED <<checkout, row, passes, overtaken>>

-----------------------------------------------------------------------------

Work ==
  \/ BeginWork
  \/ Make
  \/ ReadInput
  \/ BeginPass
  \/ ReadFiles
  \/ EndPass
  \/ Retry
  \/ Publish
  \/ PublishUnknown
  \/ FailJob
  \/ EndJob

Next ==
  \/ \E f \in Files : Change(f) \/ Invalidate(f)
  \/ \E l \in Leases : AttachRead(l) \/ Detach(l)
  \/ AttachSave
  \/ AttachInstall
  \/ AttachFail
  \/ StartAttach
  \/ StartReconcile
  \/ StartMigrate
  \/ Work
  \/ StartQuery
  \/ EndQuery
  \/ RetireRow
  \/ DrainBegin
  \/ DrainEnd
  \/ Sweep
  \/ Remove
  \/ Restart

Spec == Init /\ [][Next]_vars

-----------------------------------------------------------------------------

TypeOK ==
  /\ eventual \in BOOLEAN
  /\ disk \in Changes /\ heard \in Changes
  /\ row \in Row
  /\ leases \in [Leases -> Lease]
  /\ slot \in Slot
  /\ view \in [Instances -> View]
  /\ job \in Job /\ att \in Attachment /\ query \in Query
  /\ slot.preparing \in {NoView, job.inst}
  /\ job.stage \in {"idle", "claim", "make"} <=> job.inst = NoView
  /\ passes \in 0 .. MaxPasses /\ faults \in 0 .. MaxFaults
  /\ overtaken \in BOOLEAN

UpToDate(inst) == \A f \in Files : view[inst].content[f] >= heard[f]

\* ViewManager::status.
Ready ==
  /\ ~ slot.closing
  /\ slot.current.inst # NoView
  /\ Authoritative
  /\ Current(slot.current.inst, slot.current.input, slot.current.pass)

\* No invalidation is lost when a prepared view takes over from the one that
\* was served, in the retries of its preparation, or when a query outlives its
\* view: a view that reports ready, or a strict query that validates, has every
\* change the slot was told of.
ReadyIsFresh ==
  ~ overtaken =>
    /\ Ready => UpToDate(slot.current.inst)
    /\ query # NoQuery /\ ~ eventual /\ Valid => UpToDate(query.inst)

\* The gate of a strict view is closed from a commit whose swap failed until a
\* reconciliation restores the catalog's publication.
ServesAuthoritative ==
  ~ overtaken /\ ~ eventual /\ Serving => Authoritative

\* However migrations, joins and detachments interleave, the version a
\* participant without migration accepted is the catalog's as long as it stays.
FixedPinKept == \A l \in Counted \cap Fixed : row.version = leases[l].version

\* Detaching, retiring and draining race with attachments: the row of a view
\* somebody is attached to, or may still recover, is active in the catalog.
LeasedIsActive == ~ overtaken /\ Counted # {} => row.active

\* On attach the changes are captured before the delta is established: a slot
\* that is open to its leases and serves a view is observed.
LeasedIsWatched ==
  /\ slot.installed /\ ~ slot.closing /\ ~ slot.draining
  /\ att.stage = "idle" /\ Held # {} /\ slot.current.inst # NoView
  => slot.observer
=============================================================================
