----------------------------- MODULE Collection -----------------------------
(***************************************************************************)
(* The objects of a managed namespace (generations and checkpoints): how a *)
(* producer prepares and publishes one, how readers of this and of other   *)
(* processes pin it, how the catalog's references protect it, and how the  *)
(* collector withdraws and deletes it, across crashes of the daemon at     *)
(* every fault point (tgrep-core/src/managed: catalog.rs, generations.rs,  *)
(* checkpoints.rs, lifetime.rs, maintenance.rs and collection.rs).         *)
(*                                                                         *)
(* row is the catalog (SQLite transactions are atomic and survive a crash),*)
(* refs its reference table, disk the files under objects/ and guards/,    *)
(* shared the processes holding the shared lock of an object's guard file, *)
(* and c the one collection pass that can be running (the member verifier  *)
(* is a mutex of the daemon).                                              *)
(*                                                                         *)
(* One logical key is modelled, so that every new generation contends with *)
(* the one before it. Left out: the idle age (a published object may be    *)
(* refused for its age at any time), the retain-all policy, the proof that *)
(* the owner of an unfinished object has ended (it too may be refused at   *)
(* any time), members of no block, the contents of a member and their      *)
(* authentication, byte and page bounds and policy versions (a pass may    *)
(* stop before any step), and the later cleanup of the rows of removed     *)
(* objects.                                                                *)
(*                                                                         *)
(* Operators named Broken_... are faulty variants of the definition they   *)
(* name: what the properties are there to exclude.                         *)
(***************************************************************************)
EXTENDS Integers, FiniteSets

CONSTANTS
  MaxObjects,   \* bound: objects created over the namespace's life
  Members,      \* the files of a complete object
  Header,       \* object.json, the member deleted last
  Size,         \* Size[m]: blocks of member m when it is sealed
  External,     \* readers in other processes (open_generation)
  Local,        \* readers in the daemon: views, restores, predecessors
  MaxFaults     \* bound: crashes, failed transactions and interrupted passes

ASSUME ObjectsAssumption == MaxObjects \in Nat
ASSUME MembersAssumption ==
  /\ IsFiniteSet(Members)
  /\ Header \in Members
  /\ Size \in [Members -> Nat \ {0}]
ASSUME ReadersAssumption ==
  /\ External \cap Local = {}
  /\ (External \cup Local) \cap (0 .. MaxObjects) = {}
ASSUME FaultsAssumption == MaxFaults \in Nat

Ids == 1 .. MaxObjects
None == -1
Readers == External \cup Local
\* The producer of object o holds guards under the name o.
Holders == Readers \cup Ids

States == {"absent", "preparing", "published", "retired", "pending",
           "removed", "quarantined"}

VARIABLES row, refs, disk, shared, c, faults

vars == <<row, refs, disk, shared, c, faults>>

\* A catalog row. seal counts the identities recorded (1 the directory, 2 the
\* guard too); open: a member's creation or producer is not yet closed; kept:
\* members whose record is not removed; pending: a journaled target length.
Row == [state : States, kind : {"generation", "checkpoint"}, base : 0 .. MaxObjects,
        seal : 0 .. 2, open : BOOLEAN, resv : {"none", "live", "ended"},
        bytes : Int, kept : SUBSET Members, logical : [Members -> Nat],
        pending : [Members -> Nat \cup {None}], credited : [Members -> Nat]]

\* file[m] is the length of the member's file, 0 when there is none.
Disk == [container : BOOLEAN, guard : BOOLEAN, file : [Members -> Nat]]

Ref == [by : {"persistent", "view", "checkpoint"}, source : 0 .. MaxObjects, target : Ids]

Pc == {"idle", "judge", "retire", "pend", "members", "io", "credit", "rmdir",
       "unguard", "removed"}

Idle == [pc |-> "idle", obj |-> 0, excl |-> FALSE, member |-> Header]

EmptyRow == [state |-> "absent", kind |-> "generation", base |-> 0, seal |-> 0,
             open |-> FALSE, resv |-> "none", bytes |-> 0, kept |-> {},
             logical |-> [m \in Members |-> 0], pending |-> [m \in Members |-> None],
             credited |-> [m \in Members |-> 0]]

Init ==
  /\ row = [o \in Ids |-> EmptyRow]
  /\ refs = {}
  /\ disk = [o \in Ids |-> [container |-> FALSE, guard |-> FALSE,
                            file |-> [m \in Members |-> 0]]]
  /\ shared = [o \in Ids |-> {}]
  /\ c = Idle
  /\ faults = 0

Referenced(o) == \E r \in refs : r.target = o

\* The exclusive guard lock is the collector's.
Excluded(o) == c.excl /\ c.obj = o

Update(o, r) == row' = [row EXCEPT ![o] = r]

Store(o, d) == disk' = [disk EXCEPT ![o] = d]

SetState(o, s) == Update(o, [row[o] EXCEPT !.state = s])

-----------------------------------------------------------------------------
\* Producers: create_object, the writers of members, publication.

\* create_object_inner's first transaction: the row, before anything is on disk.
\* A preparing or published generation of the key makes it fail as Busy.
Create(o, kind, base) ==
  /\ row[o].state = "absent"
  /\ \A p \in 1 .. o - 1 : row[p].state # "absent"
  /\ kind = "generation" =>
       ~ \E p \in Ids : row[p].kind = "generation" /\ row[p].state \in {"preparing", "published"}
  /\ Update(o, [EmptyRow EXCEPT !.state = "preparing", !.kind = kind,
                                !.base = base, !.resv = "live"])

CreateGeneration(o) ==
  /\ Create(o, "generation", 0)
  /\ UNCHANGED <<refs, disk, shared, c, faults>>

\* save_checkpoint runs over a view that holds its generation open throughout.
CreateCheckpoint(o, g) ==
  /\ row[g].kind = "generation"
  /\ shared[g] \cap Local # {}
  /\ Create(o, "checkpoint", g)
  /\ shared' = [shared EXCEPT ![g] = @ \cup {o}]
  /\ UNCHANGED <<refs, disk, c, faults>>

Producing(o) == row[o].resv = "live" /\ row[o].state = "preparing"

\* The directory is created, then its identity saved.
SealContainer(o) ==
  /\ Producing(o)
  /\ row[o].seal = 0
  /\ Store(o, [disk[o] EXCEPT !.container = TRUE])
  /\ Update(o, [row[o] EXCEPT !.seal = 1])
  /\ UNCHANGED <<refs, shared, c, faults>>

\* The guard file is created and locked shared, then its identity saved.
SealGuard(o) ==
  /\ Producing(o)
  /\ row[o].seal = 1
  /\ Store(o, [disk[o] EXCEPT !.guard = TRUE])
  /\ shared' = [shared EXCEPT ![o] = @ \cup {o}]
  /\ Update(o, [row[o] EXCEPT !.seal = 2])
  /\ UNCHANGED <<refs, c, faults>>

\* begin_member: the intent of a member, before its file.
BeginMember(o) ==
  /\ Producing(o)
  /\ row[o].seal = 2
  /\ ~ row[o].open
  /\ row[o].kept # Members
  /\ Update(o, [row[o] EXCEPT !.open = TRUE])
  /\ UNCHANGED <<refs, disk, shared, c, faults>>

\* The writer is closed: the member's seal and length are recorded.
SealMember(o, m) ==
  /\ Producing(o)
  /\ row[o].open
  /\ m \notin row[o].kept
  /\ Store(o, [disk[o] EXCEPT !.file = [@ EXCEPT ![m] = Size[m]]])
  /\ Update(o, [row[o] EXCEPT !.open = FALSE, !.kept = @ \cup {m}, !.bytes = @ + Size[m],
                              !.logical = [@ EXCEPT ![m] = Size[m]]])
  /\ UNCHANGED <<refs, shared, c, faults>>

\* publish_object, and the transaction that publishes a checkpoint together
\* with its reference to the generation (add_reference wants it published).
Publish(o) ==
  /\ Producing(o)
  /\ row[o].kept = Members
  /\ ~ row[o].open
  /\ IF row[o].kind = "checkpoint"
       THEN /\ row[row[o].base].state = "published"
            /\ refs' = refs \cup {[by |-> "checkpoint", source |-> o, target |-> row[o].base]}
       ELSE UNCHANGED refs
  /\ SetState(o, "published")
  /\ UNCHANGED <<disk, shared, c, faults>>

\* A view's publication, under the new checkpoint's own guard: the view's old
\* references are replaced by the checkpoint and its generation.
PublishView(o) ==
  /\ row[o].resv = "live"
  /\ row[o].state = "published"
  /\ row[o].kind = "checkpoint"
  /\ row[row[o].base].state = "published"
  /\ refs' = {r \in refs : r.by # "view"} \cup
             {[by |-> "view", source |-> 0, target |-> t] : t \in {o, row[o].base}}
  /\ UNCHANGED <<row, disk, shared, c, faults>>

\* The error paths of create_object_inner, ensure_generation, save_checkpoint.
Fail(o) ==
  /\ Producing(o)
  /\ \/ row[o].seal = 2 /\ SetState(o, "retired")
     \/ row[o].seal # 2 /\ SetState(o, "quarantined")
  /\ UNCHANGED <<refs, disk, shared, c, faults>>

\* The producer's pins and its permit are dropped. The reservation stays for
\* recovery while a member is open (write-inventory-incomplete).
EndProducer(o) ==
  /\ row[o].resv = "live"
  /\ shared' = [p \in Ids |-> shared[p] \ {o}]
  /\ Update(o, [row[o] EXCEPT !.resv = IF row[o].open THEN "ended" ELSE "none"])
  /\ UNCHANGED <<refs, disk, c>>

EndWork(o) ==
  /\ row[o].state # "preparing"
  /\ EndProducer(o)
  /\ UNCHANGED faults

\* The error path's own transaction fails: the object is left preparing.
Abandon(o) ==
  /\ row[o].state = "preparing"
  /\ faults < MaxFaults
  /\ EndProducer(o)
  /\ faults' = faults + 1

-----------------------------------------------------------------------------
\* Readers and references.

\* open_generation (one transaction) and pin: the row is read and the shared
\* lock taken while no transaction of the daemon can run. Registering the use
\* afterwards checks the state again; PinnedIsIntact says that check passes.
Pin(r, o) ==
  /\ row[o].state = "published"
  /\ r \in External => row[o].kind = "generation"
  /\ disk[o].guard /\ disk[o].container
  /\ ~ Excluded(o)
  /\ r \notin shared[o]
  /\ shared' = [shared EXCEPT ![o] = @ \cup {r}]
  /\ UNCHANGED <<row, refs, disk, c, faults>>

\* The last Arc of a reader goes, and its lock with it.
Close(r, o) ==
  /\ r \in shared[o]
  /\ shared' = [shared EXCEPT ![o] = @ \ {r}]
  /\ UNCHANGED <<row, refs, disk, c, faults>>

\* The Retain mutation of the management interface, which pins nothing.
Retain(o) ==
  /\ row[o].state = "published"
  /\ refs' = refs \cup {[by |-> "persistent", source |-> 0, target |-> o]}
  /\ UNCHANGED <<row, disk, shared, c, faults>>

Release(o) ==
  /\ [by |-> "persistent", source |-> 0, target |-> o] \in refs
  /\ refs' = refs \ {[by |-> "persistent", source |-> 0, target |-> o]}
  /\ UNCHANGED <<row, disk, shared, c, faults>>

\* The view is retired after its last lease.
RetireView ==
  /\ \E r \in refs : r.by = "view"
  /\ refs' = {r \in refs : r.by # "view"}
  /\ UNCHANGED <<row, disk, shared, c, faults>>

-----------------------------------------------------------------------------
\* The collector: collect_object, one step between two of its fault points.

\* Readers in other processes are not looked for.
Broken_Lock(o) ==
  /\ c.pc = "idle"
  /\ row[o].state \in {"preparing", "published", "retired", "pending"}
  /\ row[o].state = "pending" => disk[o].container
  /\ row[o].seal = 2
  /\ shared[o] \subseteq External
  /\ c' = [pc |-> "judge", obj |-> o, excl |-> TRUE, member |-> Header]
  /\ UNCHANGED <<row, refs, disk, shared, faults>>

\* The exclusive lock on the guard file. An object with a reader, or without a
\* sealed guard, is skipped; a pending deletion without container is not here.
Lock(o) ==
  /\ c.pc = "idle"
  /\ row[o].state \in {"preparing", "published", "retired", "pending"}
  /\ row[o].state = "pending" => disk[o].container
  /\ row[o].seal = 2
  /\ shared[o] = {}
  /\ c' = [pc |-> "judge", obj |-> o, excl |-> TRUE, member |-> Header]
  /\ UNCHANGED <<row, refs, disk, shared, faults>>

Eligible(o) ==
  /\ row[o].state \in {"preparing", "published", "retired", "pending"}
  /\ ~ Referenced(o)
  /\ row[o].resv = "none"
  /\ ~ row[o].open

\* The row is read again under the lock. A withdrawn object needs no age.
Judge ==
  LET o == c.obj IN
  /\ c.pc = "judge"
  /\ \/ /\ ~ Eligible(o) \/ row[o].state \in {"preparing", "published"}
        /\ c' = Idle
     \/ /\ Eligible(o)
        /\ c' = [c EXCEPT !.pc = CASE row[o].state = "retired" -> "pend"
                                   [] row[o].state = "pending" -> "members"
                                   [] OTHER -> "retire"]
  /\ UNCHANGED <<row, refs, disk, shared, faults>>

\* The references found by the eligibility check are trusted.
Broken_Retire ==
  LET o == c.obj IN
  /\ c.pc = "retire"
  /\ SetState(o, "retired")
  /\ refs' = {r \in refs : r.by # "checkpoint" \/ r.source # o}
  /\ c' = [c EXCEPT !.pc = "pend"]
  /\ UNCHANGED <<disk, shared, faults>>

\* The references are read again inside the transaction; one that came since
\* ends the pass. A checkpoint's reference goes with its withdrawal.
Retire ==
  LET o == c.obj IN
  /\ c.pc = "retire"
  /\ IF Referenced(o)
       THEN c' = Idle /\ UNCHANGED <<row, refs>>
       ELSE /\ SetState(o, "retired")
            /\ refs' = {r \in refs : r.by # "checkpoint" \/ r.source # o}
            /\ c' = [c EXCEPT !.pc = "pend"]
  /\ UNCHANGED <<disk, shared, faults>>

MarkPending ==
  /\ c.pc = "pend"
  /\ SetState(c.obj, "pending")
  /\ c' = [c EXCEPT !.pc = "members"]
  /\ UNCHANGED <<refs, disk, shared, faults>>

\* The next member to delete: object.json last.
NextMember(o, m) == m \in row[o].kept /\ (m = Header => row[o].kept = {Header})

\* A journaled step that already happened: the file has the journaled length,
\* or is missing when that was to unlink it.
Recovered(o, m) ==
  /\ row[o].pending[m] # None
  /\ disk[o].file[m] < row[o].logical[m]
  /\ disk[o].file[m] = row[o].pending[m]

\* The intent of one truncation (or unlink, target 0) is saved.
Journal(m) ==
  LET o == c.obj IN
  /\ c.pc = "members"
  /\ NextMember(o, m)
  /\ disk[o].file[m] = row[o].logical[m]
  /\ \E target \in 0 .. disk[o].file[m] - 1 :
       Update(o, [row[o] EXCEPT !.pending = [@ EXCEPT ![m] = target]])
  /\ c' = [c EXCEPT !.pc = "io", !.member = m]
  /\ UNCHANGED <<refs, disk, shared, faults>>

\* A recovered step is recorded without its credit.
Broken_Resume(m) ==
  LET o == c.obj IN
  /\ c.pc = "members"
  /\ NextMember(o, m)
  /\ Recovered(o, m)
  /\ Update(o, [row[o] EXCEPT !.logical = [@ EXCEPT ![m] = disk[o].file[m]],
                              !.pending = [@ EXCEPT ![m] = None],
                              !.kept = IF disk[o].file[m] = 0 THEN @ \ {m} ELSE @])
  /\ UNCHANGED <<c, refs, disk, shared, faults>>

\* An interrupted step that took place: it is only credited.
Resume(m) ==
  /\ c.pc = "members"
  /\ NextMember(c.obj, m)
  /\ Recovered(c.obj, m)
  /\ c' = [c EXCEPT !.pc = "credit", !.member = m]
  /\ UNCHANGED <<row, refs, disk, shared, faults>>

Io ==
  /\ c.pc = "io"
  /\ Store(c.obj, [disk[c.obj] EXCEPT
                     !.file = [@ EXCEPT ![c.member] = row[c.obj].pending[c.member]]])
  /\ c' = [c EXCEPT !.pc = "credit"]
  /\ UNCHANGED <<row, refs, shared, faults>>

\* The length before and the length after, swapped.
Broken_Credit ==
  LET o == c.obj
      m == c.member
      after == disk[o].file[m]
      freed == after - row[o].logical[m] IN
  /\ c.pc = "credit"
  /\ Update(o, [row[o] EXCEPT !.logical = [@ EXCEPT ![m] = after],
                              !.pending = [@ EXCEPT ![m] = None],
                              !.credited = [@ EXCEPT ![m] = @ + freed],
                              !.bytes = @ - freed,
                              !.kept = IF after = 0 THEN @ \ {m} ELSE @])
  /\ c' = [c EXCEPT !.pc = "members"]
  /\ UNCHANGED <<refs, disk, shared, faults>>

\* One transaction: the member's record, the object's total, the credit.
Credit ==
  LET o == c.obj
      m == c.member
      r == row[o]
      after == disk[o].file[m]
      freed == r.logical[m] - after IN
  /\ c.pc = "credit"
  /\ Update(o, [r EXCEPT !.logical = [r.logical EXCEPT ![m] = after],
                         !.pending = [r.pending EXCEPT ![m] = None],
                         !.credited = [r.credited EXCEPT ![m] = r.credited[m] + freed],
                         !.bytes = r.bytes - freed,
                         !.kept = IF after = 0 THEN r.kept \ {m} ELSE r.kept])
  /\ c' = [c EXCEPT !.pc = "members"]
  /\ UNCHANGED <<refs, disk, shared, faults>>

MembersGone ==
  /\ c.pc = "members"
  /\ row[c.obj].kept = {}
  /\ c' = [c EXCEPT !.pc = "rmdir"]
  /\ UNCHANGED <<row, refs, disk, shared, faults>>

RemoveContainer ==
  /\ c.pc = "rmdir"
  /\ Store(c.obj, [disk[c.obj] EXCEPT !.container = FALSE])
  /\ c' = [c EXCEPT !.pc = "unguard"]
  /\ UNCHANGED <<row, refs, shared, faults>>

\* The collector lets its own handle go, then removes the guard file.
RemoveGuard ==
  /\ c.pc = "unguard"
  /\ Store(c.obj, [disk[c.obj] EXCEPT !.guard = FALSE])
  /\ c' = [c EXCEPT !.pc = "removed", !.excl = FALSE]
  /\ UNCHANGED <<row, refs, shared, faults>>

MarkRemoved ==
  /\ c.pc = "removed"
  /\ Update(c.obj, [row[c.obj] EXCEPT !.state = "removed", !.bytes = 0])
  /\ c' = Idle
  /\ UNCHANGED <<refs, disk, shared, faults>>

\* A missing guard file is taken for corruption.
Broken_FinishMissing(o) ==
  /\ c.pc = "idle"
  /\ row[o].state = "pending"
  /\ ~ disk[o].container
  /\ row[o].kept = {} /\ ~ Referenced(o) /\ row[o].bytes = 0
  /\ disk[o].guard /\ shared[o] = {}
  /\ c' = [pc |-> "unguard", obj |-> o, excl |-> FALSE, member |-> Header]
  /\ UNCHANGED <<row, refs, disk, shared, faults>>

\* finish_missing_container: the container went before the interruption; the
\* guard file may have gone too.
FinishMissing(o) ==
  /\ c.pc = "idle"
  /\ row[o].state = "pending"
  /\ ~ disk[o].container
  /\ row[o].kept = {} /\ ~ Referenced(o) /\ row[o].bytes = 0
  /\ disk[o].guard => shared[o] = {}
  /\ c' = [pc |-> "unguard", obj |-> o, excl |-> FALSE, member |-> Header]
  /\ UNCHANGED <<row, refs, disk, shared, faults>>

-----------------------------------------------------------------------------
\* Faults and recovery.

\* The pass ends at any of its steps: a bound, a cancellation, a new policy
\* version, or an error of the step itself. Its lock goes with it.
Interrupt ==
  /\ c.pc # "idle"
  /\ faults < MaxFaults
  /\ c' = Idle
  /\ faults' = faults + 1
  /\ UNCHANGED <<row, refs, disk, shared>>

\* The daemon dies and is started again: its locks are gone, its reservations
\* belong to an earlier instance. Readers in other processes go on.
Crash ==
  /\ faults < MaxFaults
  /\ faults' = faults + 1
  /\ c' = Idle
  /\ shared' = [o \in Ids |-> shared[o] \cap External]
  /\ row' = [o \in Ids |-> IF row[o].resv = "live"
                             THEN [row[o] EXCEPT !.resv = "ended"] ELSE row[o]]
  /\ UNCHANGED <<refs, disk>>

\* recover_units on a reservation whose producer ended. What was not sealed is
\* preserved (quarantined); a half-made member too, unless its file never came.
RecoverUnsealed(o) ==
  /\ row[o].resv = "ended"
  /\ row[o].seal < 2
  /\ Update(o, [row[o] EXCEPT !.state = "quarantined", !.resv = "none"])
  /\ UNCHANGED <<refs, disk, shared, c, faults>>

Unfinished(o) ==
  /\ row[o].resv = "ended"
  /\ row[o].seal = 2
  /\ row[o].state \in {"preparing", "retired"}
  /\ shared[o] = {} /\ ~ Excluded(o)

Quarantine(o) ==
  /\ Unfinished(o)
  /\ row[o].open
  /\ Update(o, [row[o] EXCEPT !.state = "quarantined", !.resv = "none"])
  /\ UNCHANGED <<refs, disk, shared, c, faults>>

Withdraw(o) ==
  /\ Unfinished(o)
  /\ Update(o, [row[o] EXCEPT !.state = "retired", !.resv = "none", !.open = FALSE])
  /\ UNCHANGED <<refs, disk, shared, c, faults>>

ReleaseReservation(o) ==
  /\ row[o].resv = "ended"
  /\ row[o].seal = 2
  /\ row[o].state \notin {"preparing", "retired"}
  /\ Update(o, [row[o] EXCEPT !.resv = "none"])
  /\ UNCHANGED <<refs, disk, shared, c, faults>>

Recover(o) ==
  RecoverUnsealed(o) \/ Quarantine(o) \/ Withdraw(o) \/ ReleaseReservation(o)

\* One running pass goes on to its next step.
Advance ==
  \/ Judge
  \/ Retire
  \/ MarkPending
  \/ \E m \in Members : Journal(m) \/ Resume(m)
  \/ Io
  \/ Credit
  \/ MembersGone
  \/ RemoveContainer
  \/ RemoveGuard
  \/ MarkRemoved

Produce(o) ==
  \/ CreateGeneration(o)
  \/ \E g \in Ids : CreateCheckpoint(o, g)
  \/ SealContainer(o)
  \/ SealGuard(o)
  \/ BeginMember(o)
  \/ \E m \in Members : SealMember(o, m)
  \/ Publish(o)
  \/ PublishView(o)
  \/ Fail(o)
  \/ EndWork(o)
  \/ Abandon(o)

Next ==
  \/ \E o \in Ids : Produce(o) \/ Retain(o) \/ Release(o) \/ Recover(o)
  \/ \E o \in Ids, r \in Readers : Pin(r, o) \/ Close(r, o)
  \/ RetireView
  \/ \E o \in Ids : Lock(o) \/ FinishMissing(o)
  \/ Advance
  \/ Interrupt
  \/ Crash

Spec == Init /\ [][Next]_vars

\* A traversal visits the candidates in the order of their last use, up to a
\* high-water mark, so that it comes to each in turn (SF for each object); a
\* pass that runs takes its next step; a producer that has finished drops its
\* pins; recovery comes to each reservation left behind.
Fairness ==
  /\ WF_vars(Advance)
  /\ \A o \in Ids : /\ SF_vars(Lock(o) \/ FinishMissing(o))
                    /\ SF_vars(Recover(o))
                    /\ WF_vars(EndWork(o))

FairSpec == Spec /\ Fairness

-----------------------------------------------------------------------------
\* Properties.

TypeOK ==
  /\ row \in [Ids -> Row]
  /\ refs \subseteq Ref
  /\ disk \in [Ids -> Disk]
  /\ shared \in [Ids -> SUBSET Holders]
  /\ c \in [pc : Pc, obj : 0 .. MaxObjects, excl : BOOLEAN, member : Members]
  /\ faults \in 0 .. MaxFaults

Whole(o) ==
  /\ row[o].state = "published"
  /\ disk[o].container /\ disk[o].guard
  /\ disk[o].file = Size

\* Protection follows every reader, in this process or another: an object that
\* someone other than its own producer holds open stays published, with its
\* directory, its guard and every byte of its members, whatever the collector
\* and recovery do and wherever the daemon is killed.
PinnedIsIntact == \A o \in Ids : shared[o] \ {o} # {} => Whole(o)

\* Nothing the catalog refers to is withdrawn: neither what a reference names,
\* though one may come between the eligibility check and the withdrawal, nor
\* the generation a restorable checkpoint was made over.
ReferencedIsPublished ==
  /\ \A r \in refs : Whole(r.target)
  /\ \A o \in Ids : row[o].kind = "checkpoint" /\ row[o].state = "published"
                      => Whole(row[o].base)

ObjectIsExact(o) ==
  /\ \A m \in Members :
       /\ \/ disk[o].file[m] = row[o].logical[m]
          \/ disk[o].file[m] = row[o].pending[m]
       /\ m \in row[o].kept \/ row[o].credited[m] > 0
            => row[o].credited[m] + row[o].logical[m] = Size[m]
  /\ row[o].state = "removed" => \A m \in Members : disk[o].file[m] = 0

\* What the members of an object are recorded to have, block by block.
Blocks(logical) == UNION {{m} \X (1 .. logical[m]) : m \in Members}

TotalIsExact(o) == row[o].bytes = Cardinality(Blocks(row[o].logical))

\* The catalog's account of a deletion is exact at every interruption: what has
\* been credited is what is gone from the disk, except for one journaled step,
\* and an object's total is what its members still have (never below zero).
CreditIsExact == \A o \in Ids : ObjectIsExact(o) /\ TotalIsExact(o)

\* What is withdrawn is deleted to the end, or set aside for inspection, in
\* spite of interruptions at any point of its deletion.
WithdrawnIsRemoved ==
  \A o \in Ids : row[o].state \in {"retired", "pending"}
                   ~> row[o].state \in {"removed", "quarantined"}

-----------------------------------------------------------------------------
\* The inductive invariant behind them.

\* The catalog row and the files of an object, by its state.
RowInv(o) ==
  /\ row[o].state = "absent" => row[o].resv = "none" /\ row[o].seal = 0 /\ shared[o] = {}
  /\ row[o].open \/ row[o].kept # {} => row[o].seal = 2
  /\ row[o].state # "absent" /\ row[o].kind = "checkpoint" => row[o].base \in Ids
  /\ row[o].state \in {"published", "retired", "pending", "removed"} => row[o].seal = 2
  /\ row[o].state \in {"preparing", "published"} =>
       /\ row[o].seal >= 1 => disk[o].container
       /\ row[o].seal = 2 => disk[o].guard
  /\ row[o].state \in {"absent", "preparing", "published"} =>
       \A m \in Members : /\ row[o].pending[m] = None /\ row[o].credited[m] = 0
                          /\ m \in row[o].kept => row[o].logical[m] = Size[m]
  /\ row[o].state = "published" => row[o].kept = Members
  /\ row[o].state = "removed" => row[o].kept = {}
  /\ \A m \in Members \ row[o].kept :
       disk[o].file[m] = 0 /\ row[o].logical[m] = 0 /\ row[o].pending[m] = None

\* Where the pass is tells what it holds and what it has done.
PassInv ==
  /\ c.pc # "idle" => c.obj \in Ids /\ row[c.obj].seal = 2
  /\ c.excl => c.pc # "idle" /\ shared[c.obj] = {}
  /\ c.pc \notin {"idle", "unguard", "removed"} => c.excl
  /\ c.pc = "retire" => row[c.obj].state \in {"preparing", "published"} /\ row[c.obj].resv = "none"
  /\ c.pc = "pend" => row[c.obj].state = "retired"
  /\ c.pc \in {"members", "io", "credit", "rmdir", "unguard", "removed"}
       => row[c.obj].state = "pending"
  /\ c.pc \in {"rmdir", "unguard", "removed"} => row[c.obj].kept = {}
  /\ c.pc \in {"io", "credit"} =>
       /\ c.member \in row[c.obj].kept
       /\ row[c.obj].pending[c.member] \in 0 .. row[c.obj].logical[c.member] - 1
  /\ c.pc = "io" => disk[c.obj].file[c.member] = row[c.obj].logical[c.member]
  /\ c.pc = "credit" => disk[c.obj].file[c.member] = row[c.obj].pending[c.member]

\* What protects an object keeps it published, and so whole; a published
\* checkpoint protects its generation by a reference.
ProtectionInv ==
  /\ \A o \in Ids : shared[o] \ {o} # {} => row[o].state = "published"
  /\ \A r \in refs : row[r.target].state = "published"
  /\ \A o \in Ids : row[o].kind = "checkpoint" /\ row[o].state = "published"
       => [by |-> "checkpoint", source |-> o, target |-> row[o].base] \in refs

CollectionInv ==
  /\ TypeOK
  /\ \A o \in Ids : RowInv(o)
  /\ PassInv
  /\ ProtectionInv
  /\ \A o \in Ids : ObjectIsExact(o)
=============================================================================
