--------------------------- MODULE ViewSlotProofs ---------------------------
(***************************************************************************)
(* Proofs about ViewSlot, for any number of leases, files, passes and      *)
(* faults: its types; what holds of the row of a leased view, with the pin *)
(* of those that attached to stay with it; that a strict slot serves the   *)
(* catalog's publication only; and that no announced change is lost from a *)
(* view that reports ready.                                                *)
(***************************************************************************)
EXTENDS ViewSlotInvariant, TLAPS

-----------------------------------------------------------------------------
\* Types of the records the actions build.

\* Files that have not changed.
LEMMA NeverType == Never \in Changes
  BY BoundsAssumption, SMT DEF Never, Changes

\* A view nothing was read into.
LEMMA NewViewType == NewView \in View
  BY NeverType, BoundsAssumption, SMT DEF NewView, View

\* No publication.
LEMMA NothingType == Nothing \in Published
  BY BoundsAssumption, SMT DEF Nothing, Published, NoView

\* No slot.
LEMMA NoSlotType == NoSlot \in Slot
  BY NothingType, SMT DEF NoSlot, Slot, NoView

\* No job.
LEMMA NoJobType == NoJob \in Job
  BY NeverType, BoundsAssumption, SMT DEF NoJob, Job, Stage, NoView

\* No row.
LEMMA NoRowType == NoRow \in Row
  BY BoundsAssumption, SMT DEF NoRow, Row

\* No attachment.
LEMMA NoAttachmentType == NoAttachment \in Attachment
  BY NoRowType, SMT DEF NoAttachment, Attachment

\* No query.
LEMMA NoQueryType == NoQuery \in Query
  BY BoundsAssumption, SMT DEF NoQuery, Query, NoView

\* Dropping an instance leaves views.
LEMMA DroppedType ==
  ASSUME NEW inst, NEW refs, view \in [Instances -> View]
  PROVE  Dropped(inst, refs) \in [Instances -> View]
  BY NewViewType, SMT DEF Dropped

\* Edits of a slot.
LEMMA SlotType ==
  ASSUME NEW s \in Slot
  PROVE  /\ \A n \in Nat : [s EXCEPT !.epoch = n] \in Slot
         /\ \A b \in BOOLEAN : [s EXCEPT !.closing = b] \in Slot
         /\ \A i \in {NoView} \cup Instances : [s EXCEPT !.preparing = i] \in Slot
         /\ \A b, c \in BOOLEAN : [s EXCEPT !.observer = b, !.draining = c] \in Slot
         /\ \A p \in Published : [s EXCEPT !.current = p] \in Slot
         /\ \A i \in {NoView} \cup Instances, b \in BOOLEAN, p \in Published :
              [s EXCEPT !.current = p, !.preparing = i, !.root = b] \in Slot
         /\ \A i \in {NoView} \cup Instances, b, c \in BOOLEAN, p \in Published :
              [s EXCEPT !.preparing = i, !.root = b, !.current = p, !.draining = c] \in Slot
         /\ \A b, c, d \in BOOLEAN, n \in Nat :
              [s EXCEPT !.installed = b, !.epoch = n, !.observer = c, !.root = d] \in Slot
  BY Zenon DEF Slot

\* Installing a slot leaves one that is there as it is.
LEMMA InstallType ==
  ASSUME NEW s \in Slot, NEW input \in Nat
  PROVE  /\ Install(s, input) \in Slot
         /\ Install(s, input).installed
         /\ Install(s, input).preparing \in {s.preparing, NoView}
<1>1. CASE s.installed
  BY <1>1, Zenon DEF Install
<1>2. CASE ~ s.installed
  <2>1. Install(s, input) = [NoSlot EXCEPT !.installed = TRUE, !.epoch = input,
                                           !.observer = TRUE, !.root = TRUE]
    BY <1>2, Zenon DEF Install
  <2>2. Install(s, input) \in Slot
    BY <2>1, NoSlotType, SlotType, ZenonT(30)
  <2>3. Install(s, input).installed = TRUE
    BY <2>1, Zenon DEF NoSlot
  <2>4. Install(s, input).preparing = NoView
    BY <2>1, SMT DEF NoSlot
  <2> QED BY <2>2, <2>3, <2>4, Zenon
<1> QED BY <1>1, <1>2, Zenon

\* Edits of a view.
LEMMA ViewType ==
  ASSUME NEW v \in View
  PROVE  /\ \A o \in SUBSET Files, b, c \in BOOLEAN :
              [v EXCEPT !.owed = o, !.ready = b, !.moved = c] \in View
         /\ \A o \in SUBSET Files, b, c \in BOOLEAN :
              [v EXCEPT !.ready = b, !.moved = c, !.owed = o] \in View
         /\ \A o \in SUBSET Files : [v EXCEPT !.owed = o] \in View
         /\ \A x \in Changes, n \in 0 .. MaxPasses, b \in BOOLEAN, o \in SUBSET Files :
              [v EXCEPT !.content = x, !.pass = n, !.ready = b, !.owed = o] \in View
  BY Zenon DEF View

\* Edits of a row.
LEMMA RowType ==
  ASSUME NEW r \in Row, NEW b \in BOOLEAN
  PROVE  [r EXCEPT !.active = b] \in Row
  BY Zenon DEF Row

-----------------------------------------------------------------------------
\* TypeOK, action by action.

\* Type correctness: the initial states, then each action.
LEMMA InitType ==
  ASSUME Init
  PROVE  TypeOK
<1>1. eventual \in BOOLEAN /\ overtaken \in BOOLEAN
  BY Zenon DEF Init
<1>2. disk \in Changes /\ heard \in Changes /\ row \in Row /\ slot \in Slot
  BY NeverType, NoRowType, NoSlotType, Zenon DEF Init
<1>3. leases \in [Leases -> Lease]
  <2>1. [state |-> "none", version |-> 0] \in Lease
    BY BoundsAssumption, SMT DEF Lease
  <2> QED BY <2>1, Zenon DEF Init
<1>4. view \in [Instances -> View]
  BY NewViewType, Zenon DEF Init
<1>5. job \in Job /\ att \in Attachment /\ query \in Query
  BY NoJobType, NoAttachmentType, NoQueryType, Zenon DEF Init
<1>6. slot.preparing = NoView /\ job.inst = NoView /\ job.stage = "idle"
  BY Zenon DEF Init, NoSlot, NoJob
<1>7. passes \in 0 .. MaxPasses /\ faults \in 0 .. MaxFaults
  <2>1. passes = 0 /\ faults = 0
    BY Zenon DEF Init
  <2> QED BY <2>1, BoundsAssumption, SMT
<1> QED BY <1>1, <1>2, <1>3, <1>4, <1>5, <1>6, <1>7, Zenon DEF TypeOK

\* The checkout, and the invalidation of the slot's views.
LEMMA ChangeType ==
  ASSUME TypeOK, NEW f \in Files, Change(f)
  PROVE  TypeOK'
<1>1. disk \in [Files -> 0 .. MaxChanges] /\ disk[f] < MaxChanges
      /\ disk' = [disk EXCEPT ![f] = disk[f] + 1]
  BY Zenon DEF TypeOK, Changes, Change
<1>2. disk[f] + 1 \in 0 .. MaxChanges
  BY <1>1, BoundsAssumption, SMT
<1>3. disk' \in Changes
  BY <1>1, <1>2, Zenon DEF Changes
<1> QED BY <1>3, Zenon DEF TypeOK, Change

\* The types after Invalidate.
LEMMA InvalidateType ==
  ASSUME TypeOK, NEW f \in Files, Invalidate(f)
  PROVE  TypeOK'
<1>1. heard' \in Changes
  <2>1. /\ heard \in [Files -> 0 .. MaxChanges] /\ disk \in [Files -> 0 .. MaxChanges]
        /\ heard' = [heard EXCEPT ![f] = disk[f]]
    BY Zenon DEF TypeOK, Changes, Invalidate
  <2> QED BY <2>1, Zenon DEF Changes
<1>2. slot' \in Slot /\ slot'.preparing = slot.preparing
  <2>1. slot \in Slot /\ slot' = [slot EXCEPT !.epoch = slot.epoch + 1]
    BY Zenon DEF TypeOK, Invalidate
  <2>2. slot.epoch + 1 \in Nat
    BY <2>1, SMT DEF Slot
  <2>3. slot' \in Slot
    BY <2>1, <2>2, SlotType, Zenon
  <2>4. slot'.preparing = slot.preparing
    BY <2>1, Zenon DEF Slot
  <2> QED BY <2>3, <2>4
<1>3. view' \in [Instances -> View]
  <2>1. ASSUME NEW i \in Instances
        PROVE  [view[i] EXCEPT !.owed = view[i].owed \cup {f}, !.ready = FALSE, !.moved = TRUE]
                 \in View
    <3>1. view[i] \in View
      BY Zenon DEF TypeOK
    <3>2. view[i].owed \cup {f} \in SUBSET Files
      BY <3>1, SMT DEF View
    <3> QED BY <3>1, <3>2, ViewType, Zenon
  <2>2. view \in [Instances -> View]
    BY Zenon DEF TypeOK
  <2> QED BY <2>1, <2>2, Zenon DEF Invalidate
<1> QED BY <1>1, <1>2, <1>3, Zenon DEF TypeOK, Invalidate

\* The types after AttachRead.
LEMMA AttachReadType ==
  ASSUME TypeOK, NEW l \in Leases, AttachRead(l)
  PROVE  TypeOK'
<1>1. row \in Row /\ att \in Attachment
  BY Zenon DEF TypeOK
<1>2. row' \in Row
  <2>1. row' = row \/ row' = [row EXCEPT !.active = FALSE]
    BY Zenon DEF AttachRead
  <2> QED BY <1>1, <2>1, RowType, Zenon
<1>3. att' \in Attachment
  <2>1. [NoRow EXCEPT !.version = 1] \in Row
    <3>1. 1 \in 0 .. MaxVersion
      BY BoundsAssumption, SMT
    <3> QED BY <3>1, NoRowType, Zenon DEF Row
  <2>2. \A r \in Row : [stage |-> "read", lease |-> l, row |-> r] \in Attachment
    BY Zenon DEF Attachment
  <2> QED BY <1>1, <2>1, <2>2, Zenon DEF AttachRead
<1> QED BY <1>2, <1>3, Zenon DEF TypeOK, AttachRead, checkout

\* The types after AttachSave.
LEMMA AttachSaveType ==
  ASSUME TypeOK, AttachSave
  PROVE  TypeOK'
<1>1. att \in Attachment /\ leases \in [Leases -> Lease] /\ att.row \in Row
  <2>1. att \in Attachment /\ leases \in [Leases -> Lease]
    BY Zenon DEF TypeOK
  <2> QED BY <2>1, Zenon DEF Attachment
<1>2. row' \in Row
  BY <1>1, RowType, Zenon DEF AttachSave
<1>3. leases' \in [Leases -> Lease]
  <2>1. att.row.version \in 0 .. MaxVersion
    BY <1>1, Zenon DEF Row
  <2>2. [state |-> "held", version |-> att.row.version] \in Lease
    BY <2>1, Zenon DEF Lease
  <2> QED BY <1>1, <2>2, Zenon DEF AttachSave
<1>4. att' \in Attachment
  <2>1. [att EXCEPT !.stage = "saved"] \in Attachment
    BY <1>1, Zenon DEF Attachment
  <2> QED BY <2>1, Zenon DEF AttachSave
<1>5. overtaken' \in BOOLEAN
  BY Zenon DEF AttachSave, TypeOK
<1> QED BY <1>2, <1>3, <1>4, <1>5, Zenon DEF TypeOK, AttachSave, checkout

\* The types after AttachInstall.
LEMMA AttachInstallType ==
  ASSUME TypeOK, AttachInstall
  PROVE  TypeOK'
<1> DEFINE i == Install(slot, att.row.input)
           s == [i EXCEPT !.closing = FALSE]
<1>1. slot \in Slot /\ att \in Attachment
  BY Zenon DEF TypeOK
<1>2. att.row \in Row
  BY <1>1, Zenon DEF Attachment
<1>3. att.row.input \in Nat /\ att.row.pass \in 0 .. MaxPasses
  BY <1>2, Zenon DEF Row
<1>4. i \in Slot /\ i.preparing \in {slot.preparing, NoView}
  BY <1>1, <1>3, InstallType, Zenon
<1> HIDE DEF i
<1>5. s \in Slot
  BY <1>4, SlotType, Zenon
<1>6. s.preparing = i.preparing
  BY <1>4, Zenon DEF Slot
<1> HIDE DEF s
<1>7. [s EXCEPT !.current.pass = att.row.pass, !.current.input = att.row.input] \in Slot
  BY <1>3, <1>5, Zenon DEF Slot, Published
<1>8. [s EXCEPT !.current.pass = att.row.pass, !.current.input = att.row.input].preparing
        = s.preparing
  BY <1>5, Zenon DEF Slot
<1>9. slot' = s
      \/ slot' = [s EXCEPT !.current.pass = att.row.pass, !.current.input = att.row.input]
  BY Zenon DEF AttachInstall, s, i
<1>10. slot' \in Slot /\ slot'.preparing \in {slot.preparing, NoView}
  BY <1>4, <1>5, <1>6, <1>7, <1>8, <1>9
<1> QED BY <1>10, NoAttachmentType DEF TypeOK, AttachInstall, checkout

\* The types after AttachFail.
LEMMA AttachFailType ==
  ASSUME TypeOK, AttachFail
  PROVE  TypeOK'
  BY NoAttachmentType, Zenon DEF TypeOK, AttachFail, checkout

\* Edits of a job.
LEMMA JobType ==
  ASSUME NEW j \in Job
  PROVE  /\ \A s \in Stage : [j EXCEPT !.stage = s] \in Job
         /\ \A s \in Stage, i \in {NoView} \cup Instances :
              [j EXCEPT !.stage = s, !.inst = i] \in Job
         /\ \A s \in Stage, k \in {"attach", "reconcile", "migrate"}, b \in BOOLEAN,
              v \in 0 .. MaxVersion, p \in 0 .. MaxPasses :
              [j EXCEPT !.stage = s, !.kind = k, !.active = b, !.version = v,
                         !.base = p] \in Job
         /\ \A s \in Stage, n \in Nat : [j EXCEPT !.stage = s, !.input = n] \in Job
         /\ \A s \in Stage, p \in 0 .. MaxPasses, t \in SUBSET Files :
              [j EXCEPT !.stage = s, !.pass = p, !.take = t] \in Job
         /\ \A s \in Stage, x \in Changes : [j EXCEPT !.stage = s, !.seen = x] \in Job
         /\ \A s \in Stage, t \in SUBSET Files, x \in Changes :
              [j EXCEPT !.stage = s, !.take = t, !.seen = x] \in Job
         /\ \A b \in BOOLEAN : [j EXCEPT !.cancelled = b] \in Job
  BY ZenonT(30) DEF Job

\* Of a job with an instance only its stage matters.
JobAt(j, stage, inst) == j \in Job /\ j.stage = stage /\ j.inst = inst

\* A job moves through its stages.
LEMMA JobEdits ==
  ASSUME NEW j \in Job, NEW s \in Stage
  PROVE  /\ JobAt([j EXCEPT !.stage = s], s, j.inst)
         /\ \A i \in {NoView} \cup Instances : JobAt([j EXCEPT !.stage = s, !.inst = i], s, i)
         /\ \A n \in Nat : JobAt([j EXCEPT !.stage = s, !.input = n], s, j.inst)
         /\ \A p \in 0 .. MaxPasses, t \in SUBSET Files :
              JobAt([j EXCEPT !.stage = s, !.pass = p, !.take = t], s, j.inst)
         /\ \A x \in Changes : JobAt([j EXCEPT !.stage = s, !.seen = x], s, j.inst)
         /\ \A t \in SUBSET Files, x \in Changes :
              JobAt([j EXCEPT !.stage = s, !.take = t, !.seen = x], s, j.inst)
  BY Zenon DEF Job, JobAt

\* The stages in which a job has no instance.
Early == {"idle", "claim", "make"}

\* In the early stages a job has no instance.
LEMMA Stages ==
  /\ Stage = Early \cup {"input", "begin", "read", "end", "ready", "done"}
  /\ Early \cap {"input", "begin", "read", "end", "ready", "done"} = {}
  BY SMT DEF Stage, Early

\* A claim is a job without an instance.
LEMMA ClaimType ==
  ASSUME TypeOK, NEW kind \in {"attach", "reconcile", "migrate"},
         NEW version \in 0 .. MaxVersion,
         Claim(kind, version)
  PROVE  job' \in Job /\ job'.stage = "claim" /\ job'.inst = NoView /\ job.inst = NoView
<1>1. job' = [NoJob EXCEPT !.stage = "claim", !.kind = kind, !.active = row.active,
                           !.version = version, !.base = row.pass]
  BY Zenon DEF Claim
<1>2. row.active \in BOOLEAN /\ row.pass \in 0 .. MaxPasses
  <2>1. row \in Row
    BY Zenon DEF TypeOK
  <2> QED BY <2>1, Zenon DEF Row
<1>3. "claim" \in Stage
  BY Zenon DEF Stage
<1>4. job' \in Job
  BY <1>1, <1>2, <1>3, NoJobType, JobType, Zenon
<1>5. job'.stage = "claim" /\ job'.inst = NoView
  BY <1>1, Zenon DEF NoJob
<1>6. job.inst = NoView
  BY Zenon DEF TypeOK, Claim
<1> QED BY <1>4, <1>5, <1>6

\* The types after the start of a job.
LEMMA StartType ==
  ASSUME TypeOK, StartAttach \/ StartReconcile \/ StartMigrate
  PROVE  TypeOK'
<1>1. row \in Row /\ slot \in Slot
  BY Zenon DEF TypeOK
<1>2. row.version \in 0 .. MaxVersion /\ row.input \in Nat
  BY <1>1, Zenon DEF Row
<1>3. /\ slot' \in Slot /\ slot'.preparing \in {slot.preparing, NoView}
      /\ \E kind \in {"attach", "reconcile", "migrate"}, version \in 0 .. MaxVersion :
           Claim(kind, version)
  <2>1. CASE StartAttach
    BY <1>1, <1>2, <2>1, InstallType, Zenon DEF StartAttach
  <2>2. CASE StartReconcile
    BY <1>1, <1>2, <2>2, Zenon DEF StartReconcile
  <2>3. CASE StartMigrate
    <3>1. row.version < MaxVersion /\ Claim("migrate", row.version + 1) /\ slot' = slot
      BY <2>3, Zenon DEF StartMigrate
    <3>2. row.version + 1 \in 0 .. MaxVersion
      BY <1>2, <3>1, BoundsAssumption, SMT
    <3> QED BY <1>1, <3>1, <3>2, Zenon
  <2> QED BY <2>1, <2>2, <2>3
<1>4. job' \in Job /\ job'.stage = "claim" /\ job'.inst = NoView /\ job.inst = NoView
  BY <1>3, ClaimType, Zenon
<1>5. UNCHANGED <<checkout, row, leases, view, att, query, passes, faults, overtaken>>
  BY Zenon DEF StartAttach, StartReconcile, StartMigrate
<1> QED BY <1>3, <1>4, <1>5, Zenon DEF TypeOK, checkout

\* A step that puts the job in a stage where it has an instance.
LEMMA JobStep ==
  ASSUME TypeOK, NEW s \in Stage \ Early, NEW i \in Instances, JobAt(job', s, i),
         slot.preparing \in {NoView, i},
         UNCHANGED <<checkout, row, leases, slot, att, query, faults, overtaken>>,
         view' \in [Instances -> View], passes' \in 0 .. MaxPasses
  PROVE  TypeOK'
<1>1. job' \in Job /\ job'.stage = s /\ job'.inst = i
  BY Zenon DEF JobAt
<1>2. ~ (job'.stage \in {"idle", "claim", "make"})
  BY <1>1, Zenon DEF Early
<1>3. job'.inst # NoView
  BY <1>1, SMT DEF Instances, NoView
<1> QED BY <1>1, <1>2, <1>3, Zenon DEF TypeOK, checkout

\* A job with an instance.
LEMMA JobInst ==
  ASSUME TypeOK, job.stage \in {"input", "begin", "read", "end", "ready", "done"}
  PROVE  job.inst \in Instances /\ slot.preparing \in {NoView, job.inst}
<1>1. job.inst \in {NoView} \cup Instances
  BY Zenon DEF TypeOK, Job
<1>2. ~ (job.stage \in Early)
  BY Stages, Zenon
<1>3. job.inst # NoView
  BY <1>2, Zenon DEF TypeOK, Early
<1> QED BY <1>1, <1>3, Zenon DEF TypeOK

\* The types after the steps of a job that touch no view.
LEMMA WorkType ==
  ASSUME TypeOK, BeginWork \/ ReadInput \/ ReadFiles \/ Retry
  PROVE  TypeOK'
<1>t. job \in Job /\ slot \in Slot /\ disk \in Changes
      /\ view \in [Instances -> View] /\ passes \in 0 .. MaxPasses
  BY Zenon DEF TypeOK
<1>s. {"input", "begin", "end"} \subseteq Stage \ Early /\ "make" \in Stage
  BY Stages, Zenon DEF Early
<1>f. slot.epoch \in Nat /\ slot.current.inst \in {NoView} \cup Instances
  BY <1>t, Zenon DEF Slot, Published
<1>u. UNCHANGED <<checkout, row, leases, slot, view, att, query, passes, faults, overtaken>>
  BY Zenon DEF BeginWork, ReadInput, ReadFiles, Retry
<1>1. CASE BeginWork
  <2>1. job.stage = "claim"
    BY <1>1, Zenon DEF BeginWork
  <2>2. job.inst = NoView /\ slot.preparing = NoView
    BY <2>1, Zenon DEF TypeOK
  <2>3. CASE job' = [job EXCEPT !.stage = "make"]
    <3>1. JobAt(job', "make", NoView)
      BY <1>t, <1>s, <2>2, <2>3, JobEdits, Zenon
    <3>2. job' \in Job /\ job'.stage = "make" /\ job'.inst = NoView
      BY <3>1, Zenon DEF JobAt
    <3> QED BY <1>u, <2>2, <3>2, Zenon DEF TypeOK, checkout
  <2>4. CASE slot.current.inst # NoView
             /\ job' = [job EXCEPT !.stage = "input", !.inst = slot.current.inst]
    <3>1. JobAt(job', "input", slot.current.inst)
      BY <1>t, <1>s, <1>f, <2>4, JobEdits, Zenon
    <3>2. slot.current.inst \in Instances
      BY <1>f, <2>4, Zenon
    <3> QED BY <1>t, <1>s, <1>u, <2>2, <3>1, <3>2, JobStep, Zenon
  <2> QED BY <1>1, <2>3, <2>4, Zenon DEF BeginWork
<1>2. CASE ReadInput
  <2>1. job.stage = "input" /\ job' = [job EXCEPT !.stage = "begin", !.input = slot.epoch]
    BY <1>2, Zenon DEF ReadInput
  <2>2. JobAt(job', "begin", job.inst)
    BY <1>t, <1>s, <1>f, <2>1, JobEdits, Zenon
  <2> QED BY <1>t, <1>s, <1>u, <2>1, <2>2, JobInst, JobStep, Zenon
<1>3. CASE ReadFiles
  <2>1. job.stage = "read" /\ job' = [job EXCEPT !.stage = "end", !.seen = disk]
    BY <1>3, Zenon DEF ReadFiles
  <2>2. JobAt(job', "end", job.inst)
    BY <1>t, <1>s, <2>1, JobEdits, Zenon
  <2> QED BY <1>t, <1>s, <1>u, <2>1, <2>2, JobInst, JobStep, Zenon
<1>4. CASE Retry
  <2>1. job.stage = "ready" /\ job' = [job EXCEPT !.stage = "input"]
    BY <1>4, Zenon DEF Retry
  <2>2. JobAt(job', "input", job.inst)
    BY <1>t, <1>s, <2>1, JobEdits, Zenon
  <2> QED BY <1>t, <1>s, <1>u, <2>1, <2>2, JobInst, JobStep, Zenon
<1> QED BY <1>1, <1>2, <1>3, <1>4

\* The types after Make.
LEMMA MakeType ==
  ASSUME TypeOK, Make
  PROVE  TypeOK'
<1>1. job \in Job /\ slot \in Slot /\ "input" \in Stage \ Early
  BY Stages, Zenon DEF TypeOK
<1>2. PICK i \in Instances : /\ slot' = [slot EXCEPT !.preparing = i]
                             /\ job' = [job EXCEPT !.stage = "input", !.inst = i]
  BY Zenon DEF Make
<1>3. i # NoView
  BY SMT DEF Instances, NoView
<1>4. slot' \in Slot
  BY <1>1, <1>2, SlotType, Zenon
<1>5. slot'.preparing = i
  BY <1>1, <1>2, Zenon DEF Slot
<1>6. JobAt(job', "input", i)
  BY <1>1, <1>2, JobEdits, Zenon
<1>7. job' \in Job /\ job'.stage = "input" /\ job'.inst = i
  BY <1>6, Zenon DEF JobAt
<1>8. UNCHANGED <<checkout, row, leases, view, att, query, passes, faults, overtaken>>
  BY Zenon DEF Make
<1> QED BY <1>3, <1>4, <1>5, <1>7, <1>8, Zenon DEF TypeOK, checkout

\* The types after BeginPass.
LEMMA BeginPassType ==
  ASSUME TypeOK, BeginPass
  PROVE  TypeOK'
<1> DEFINE v == view[job.inst]
<1>1. /\ job \in Job /\ view \in [Instances -> View] /\ passes \in Nat
      /\ job.stage = "begin" /\ passes < MaxPasses /\ passes' = passes + 1
  BY SMT DEF TypeOK, BeginPass
<1>2. job.inst \in Instances /\ slot.preparing \in {NoView, job.inst}
  BY <1>1, JobInst, Zenon
<1>3. "read" \in Stage \ Early
  BY Stages, Zenon
<1>4. passes' \in 0 .. MaxPasses /\ passes + 1 \in 0 .. MaxPasses
  BY <1>1, BoundsAssumption, SMT
<1>5. v \in View /\ v.owed \in SUBSET Files
  <2>1. v \in View
    BY <1>1, <1>2, Zenon
  <2> QED BY <2>1, Zenon DEF View
<1>6. JobAt(job', "read", job.inst)
  <2>1. (IF v.owed = {} THEN Files ELSE v.owed) \in SUBSET Files
    BY <1>5, SMT
  <2>2. job' = [job EXCEPT !.stage = "read", !.pass = passes + 1,
                           !.take = IF v.owed = {} THEN Files ELSE v.owed]
    BY Zenon DEF BeginPass
  <2>3. "read" \in Stage
    BY <1>3, Zenon
  <2> QED BY <1>1, <1>4, <2>1, <2>2, <2>3, JobEdits, Zenon
<1>7. view' \in [Instances -> View]
  <2>1. (IF eventual THEN {} ELSE Files) \in SUBSET Files
    BY SMT
  <2>2. [v EXCEPT !.ready = FALSE, !.moved = FALSE,
                  !.owed = IF eventual THEN {} ELSE Files] \in View
    BY <1>5, <2>1, ViewType, Zenon
  <2>3. view' = [view EXCEPT ![job.inst] =
                   [v EXCEPT !.ready = FALSE, !.moved = FALSE,
                             !.owed = IF eventual THEN {} ELSE Files]]
    BY Zenon DEF BeginPass
  <2> QED BY <1>1, <1>2, <2>2, <2>3, Zenon
<1>8. UNCHANGED <<checkout, row, leases, slot, att, query, faults, overtaken>>
  BY Zenon DEF BeginPass
<1> QED BY <1>2, <1>3, <1>4, <1>6, <1>7, <1>8, JobStep, Zenon

\* The types after EndPass.
LEMMA EndPassType ==
  ASSUME TypeOK, EndPass
  PROVE  TypeOK'
<1> DEFINE v == view[job.inst]
           c == [f \in Files |-> IF f \in job.take THEN job.seen[f] ELSE v.content[f]]
<1>1. /\ job \in Job /\ view \in [Instances -> View] /\ job.stage = "end"
      /\ passes \in 0 .. MaxPasses
  BY Zenon DEF TypeOK, EndPass
<1>2. job.inst \in Instances /\ slot.preparing \in {NoView, job.inst}
  BY <1>1, JobInst, Zenon
<1>3. {"input", "ready"} \subseteq Stage \ Early
  BY Stages, Zenon
<1>4. {} \in SUBSET Files /\ Never \in Changes
  BY NeverType, Zenon
<1>5. UNCHANGED <<checkout, row, leases, slot, att, query, passes, faults, overtaken>>
  BY Zenon DEF EndPass
<1>6. CASE /\ job' = [job EXCEPT !.stage = "input", !.take = {}, !.seen = Never]
           /\ view' = view
  <2>1. JobAt(job', "input", job.inst)
    BY <1>1, <1>3, <1>4, <1>6, JobEdits, Zenon
  <2> QED BY <1>1, <1>2, <1>3, <1>5, <1>6, <2>1, JobStep, Zenon
<1>7. CASE /\ job' = [job EXCEPT !.stage = "ready", !.take = {}, !.seen = Never]
           /\ view' = [view EXCEPT ![job.inst] =
                         [v EXCEPT !.content = c, !.pass = job.pass, !.ready = ~ v.moved,
                                   !.owed = IF eventual THEN @ ELSE {}]]
  <2>1. JobAt(job', "ready", job.inst)
    BY <1>1, <1>3, <1>4, <1>7, JobEdits, Zenon
  <2>2. v \in View
    BY <1>1, <1>2, Zenon
  <2>3. v.content \in Changes /\ v.owed \in SUBSET Files /\ job.seen \in Changes
        /\ job.pass \in 0 .. MaxPasses
    BY <1>1, <2>2, Zenon DEF View, Job
  <2>4. c \in Changes
    BY <2>3, Zenon DEF Changes
  <2>5. (IF eventual THEN v.owed ELSE {}) \in SUBSET Files /\ (~ v.moved) \in BOOLEAN
    BY <2>3, Zenon
  <2> HIDE DEF c, v
  <2>6. [v EXCEPT !.content = c, !.pass = job.pass, !.ready = ~ v.moved,
                  !.owed = IF eventual THEN v.owed ELSE {}] \in View
    BY <2>2, <2>3, <2>4, <2>5, ViewType, Zenon
  <2>7. [v EXCEPT !.content = c, !.pass = job.pass, !.ready = ~ v.moved,
                  !.owed = IF eventual THEN @ ELSE {}] \in View
    BY <2>2, <2>6, Zenon DEF View
  <2>8. view' \in [Instances -> View]
    BY <1>1, <1>2, <1>7, <2>7, Zenon
  <2> QED BY <1>1, <1>2, <1>3, <1>5, <2>1, <2>8, JobStep, Zenon
<1> QED BY <1>6, <1>7, Zenon DEF EndPass

\* The transaction of a publication.
LEMMA CommitType ==
  ASSUME TypeOK, Commit
  PROVE  /\ row' \in Row /\ job' \in Job
         /\ job'.stage = "done" /\ job'.inst = job.inst
         /\ job.inst \in Instances /\ slot.preparing \in {NoView, job.inst}
         /\ [inst |-> job.inst, version |-> job.version, pass |-> job.pass, input |-> job.input]
              \in Published
<1>1. /\ job \in Job /\ job.stage = "ready"
      /\ row' = [active |-> job.active, version |-> job.version, pass |-> job.pass,
                 input |-> job.input]
      /\ job' = [NoJob EXCEPT !.stage = "done", !.inst = job.inst]
  BY Zenon DEF TypeOK, Commit, Publishable
<1>2. /\ job.active \in BOOLEAN /\ job.version \in 0 .. MaxVersion
      /\ job.pass \in 0 .. MaxPasses /\ job.input \in Nat
  BY <1>1, Zenon DEF Job
<1>3. row' \in Row
  BY <1>1, <1>2, Zenon DEF Row
<1>4. job.inst \in Instances /\ slot.preparing \in {NoView, job.inst}
  BY <1>1, JobInst, Zenon
<1>5. JobAt(job', "done", job.inst)
  <2>1. "done" \in Stage
    BY Zenon DEF Stage
  <2> QED BY <1>1, <1>4, <2>1, NoJobType, JobEdits, Zenon
<1>6. [inst |-> job.inst, version |-> job.version, pass |-> job.pass, input |-> job.input]
        \in Published
  BY <1>2, <1>4, Zenon DEF Published
<1> QED BY <1>3, <1>4, <1>5, <1>6, Zenon DEF JobAt

\* The types after Publish.
LEMMA PublishType ==
  ASSUME TypeOK, Publish
  PROVE  TypeOK'
<1> DEFINE p == [inst |-> job.inst, version |-> job.version, pass |-> job.pass,
                 input |-> job.input]
<1>1. Commit
  BY Zenon DEF Publish
<1>2. /\ row' \in Row /\ job' \in Job /\ job'.stage = "done" /\ job'.inst = job.inst
      /\ job.inst \in Instances /\ p \in Published
  BY <1>1, CommitType, Zenon
<1>3. slot \in Slot /\ slot' = [slot EXCEPT !.current = p, !.preparing = NoView, !.root = FALSE]
  BY Zenon DEF TypeOK, Publish
<1> HIDE DEF p
<1>4. slot' \in Slot
  BY <1>2, <1>3, SlotType, Zenon
<1>5. slot'.preparing = NoView
  BY <1>3, Zenon DEF Slot
<1>6. view' \in [Instances -> View]
  BY DroppedType, Zenon DEF TypeOK, Publish
<1>7. job'.inst # NoView
  BY <1>2, SMT DEF Instances, NoView
<1>8. ~ (job'.stage \in {"idle", "claim", "make"})
  BY <1>2, Zenon
<1>9. UNCHANGED <<checkout, leases, att, query, passes, faults, overtaken>>
  BY Zenon DEF Publish, Commit
<1> QED BY <1>2, <1>4, <1>5, <1>6, <1>7, <1>8, <1>9, Zenon DEF TypeOK, checkout

\* The types after PublishUnknown.
LEMMA PublishUnknownType ==
  ASSUME TypeOK, PublishUnknown
  PROVE  TypeOK'
<1>1. Commit
  BY Zenon DEF PublishUnknown
<1>2. /\ row' \in Row /\ job' \in Job /\ job'.stage = "done" /\ job'.inst = job.inst
      /\ job.inst \in Instances /\ slot.preparing \in {NoView, job.inst}
  BY <1>1, CommitType, Zenon
<1>3. slot \in Slot /\ slot' = [slot EXCEPT !.epoch = slot.epoch + 1]
  BY Zenon DEF TypeOK, PublishUnknown
<1>4. slot' \in Slot
  <2>1. slot.epoch + 1 \in Nat
    BY <1>3, SMT DEF Slot
  <2> QED BY <1>3, <2>1, SlotType, Zenon
<1>5. slot'.preparing = slot.preparing
  BY <1>3, Zenon DEF Slot
<1>6. faults' \in 0 .. MaxFaults
  <2>1. faults \in 0 .. MaxFaults /\ faults < MaxFaults /\ faults' = faults + 1
    BY Zenon DEF TypeOK, PublishUnknown
  <2> QED BY <2>1, BoundsAssumption, SMT
<1>7. job'.inst # NoView
  BY <1>2, SMT DEF Instances, NoView
<1>8. ~ (job'.stage \in {"idle", "claim", "make"})
  BY <1>2, Zenon
<1>9. UNCHANGED <<checkout, view, leases, att, query, passes, overtaken>>
  BY Zenon DEF PublishUnknown, Commit
<1> QED BY <1>2, <1>4, <1>5, <1>6, <1>7, <1>8, <1>9, Zenon DEF TypeOK, checkout

\* The end of a job: no instance is being prepared.
LEMMA EndType ==
  ASSUME TypeOK, FailJob \/ EndJob
  PROVE  TypeOK'
<1>1. /\ job' = NoJob /\ slot \in Slot /\ slot' = [slot EXCEPT !.preparing = NoView]
      /\ view \in [Instances -> View]
      /\ UNCHANGED <<checkout, row, leases, att, query, passes, faults, overtaken>>
  BY Zenon DEF TypeOK, FailJob, EndJob
<1>2. slot' \in Slot
  BY <1>1, SlotType, Zenon
<1>3. slot'.preparing = NoView
  BY <1>1, Zenon DEF Slot
<1>4. view' \in [Instances -> View]
  <2>1. CASE view' = Dropped(job.inst, {slot.current.inst, query.inst})
    BY <1>1, <2>1, DroppedType, Zenon
  <2>2. CASE job.stage \in {"read", "end"} /\ view' = [view EXCEPT ![job.inst].owed = Files]
    <3>1. job.inst \in Instances
      BY <2>2, JobInst, Zenon
    <3>2. [view[job.inst] EXCEPT !.owed = Files] \in View
      BY <1>1, <3>1, ViewType, Zenon
    <3> QED BY <1>1, <2>2, <3>1, <3>2, Zenon
  <2> QED BY <2>1, <2>2, Zenon DEF FailJob, EndJob
<1>5. job' \in Job /\ job'.stage = "idle" /\ job'.inst = NoView
  BY <1>1, NoJobType, Zenon DEF NoJob
<1> QED BY <1>1, <1>2, <1>3, <1>4, <1>5, Zenon DEF TypeOK, checkout

\* The types after the steps of a query.
LEMMA QueryType ==
  ASSUME TypeOK, StartQuery \/ EndQuery
  PROVE  TypeOK'
<1>1. CASE StartQuery
  <2>1. slot \in Slot
    BY Zenon DEF TypeOK
  <2>2. slot.epoch \in Nat /\ slot.current \in Published
    BY <2>1, Zenon DEF Slot
  <2>3. slot.current.inst \in {NoView} \cup Instances /\ slot.current.pass \in 0 .. MaxPasses
    BY <2>2, Zenon DEF Published
  <2>4. query' \in Query
    BY <1>1, <2>2, <2>3, Zenon DEF StartQuery, Query
  <2> QED BY <1>1, <2>4, Zenon DEF TypeOK, StartQuery, checkout
<1>2. CASE EndQuery
  <2>1. view' \in [Instances -> View]
    BY <1>2, DroppedType, Zenon DEF TypeOK, EndQuery
  <2> QED BY <1>2, <2>1, NoQueryType, Zenon DEF TypeOK, EndQuery, checkout
<1> QED BY <1>1, <1>2

\* Closing the slot changes no instance.
LEMMA CloseType ==
  ASSUME TypeOK, Close
  PROVE  /\ slot' \in Slot /\ job' \in Job
         /\ slot'.preparing = slot.preparing
         /\ job'.stage = job.stage /\ job'.inst = job.inst
<1>1. slot \in Slot /\ job \in Job
  BY Zenon DEF TypeOK
<1>2. slot' = [slot EXCEPT !.closing = TRUE]
      /\ (job' = [job EXCEPT !.cancelled = TRUE] \/ job' = job)
  BY Zenon DEF Close
<1>3. slot' \in Slot
  BY <1>1, <1>2, SlotType, Zenon
<1>4. slot'.preparing = slot.preparing
  BY <1>1, <1>2, Zenon DEF Slot
<1>5. job' \in Job
  BY <1>1, <1>2, JobType, Zenon
<1>6. job'.stage = job.stage /\ job'.inst = job.inst
  BY <1>1, <1>2, Zenon DEF Job
<1> QED BY <1>3, <1>4, <1>5, <1>6

\* The types after Detach.
LEMMA DetachType ==
  ASSUME TypeOK, NEW l \in Leases, Detach(l)
  PROVE  TypeOK'
<1>1. leases' \in [Leases -> Lease]
  <2>1. leases \in [Leases -> Lease] /\ leases' = [leases EXCEPT ![l].state = "released"]
    BY Zenon DEF TypeOK, Detach
  <2>2. leases[l] \in Lease
    BY <2>1, Zenon
  <2>3. [leases[l] EXCEPT !.state = "released"] \in Lease
    BY <2>2, Zenon DEF Lease
  <2> QED BY <2>1, <2>3, Zenon
<1>2. /\ slot' \in Slot /\ job' \in Job
      /\ slot'.preparing = slot.preparing
      /\ job'.stage = job.stage /\ job'.inst = job.inst
  <2>1. CASE Close
    BY <2>1, CloseType, Zenon
  <2>2. CASE UNCHANGED <<slot, job>>
    BY <2>2, Zenon DEF TypeOK
  <2> QED BY <2>1, <2>2, Zenon DEF Detach
<1>3. UNCHANGED <<checkout, row, view, att, query, passes, faults, overtaken>>
  BY Zenon DEF Detach
<1> QED BY <1>1, <1>2, <1>3, Zenon DEF TypeOK, checkout

\* The types after Sweep.
LEMMA SweepType ==
  ASSUME TypeOK, Sweep
  PROVE  TypeOK'
<1>1. /\ slot' \in Slot /\ job' \in Job
      /\ slot'.preparing = slot.preparing
      /\ job'.stage = job.stage /\ job'.inst = job.inst
  BY CloseType, Zenon DEF Sweep
<1>2. UNCHANGED <<checkout, row, leases, view, att, query, passes, faults, overtaken>>
  BY Zenon DEF Sweep
<1> QED BY <1>1, <1>2, Zenon DEF TypeOK, checkout

\* The types after RetireRow.
LEMMA RetireRowType ==
  ASSUME TypeOK, RetireRow
  PROVE  TypeOK'
<1>1. row' \in Row
  BY RowType, Zenon DEF TypeOK, RetireRow
<1> QED BY <1>1, Zenon DEF TypeOK, RetireRow, checkout

\* The types after DrainBegin.
LEMMA DrainBeginType ==
  ASSUME TypeOK, DrainBegin
  PROVE  TypeOK'
<1>1. slot \in Slot /\ slot' = [slot EXCEPT !.observer = FALSE, !.draining = TRUE]
      /\ row' \in Row
  BY RowType, Zenon DEF TypeOK, DrainBegin
<1>2. slot' \in Slot
  BY <1>1, SlotType, Zenon
<1>3. slot'.preparing = slot.preparing
  BY <1>1, Zenon DEF Slot
<1> QED BY <1>1, <1>2, <1>3, Zenon DEF TypeOK, DrainBegin, checkout

\* The types after DrainEnd.
LEMMA DrainEndType ==
  ASSUME TypeOK, DrainEnd
  PROVE  TypeOK'
<1>1. slot \in Slot
      /\ slot' = [slot EXCEPT !.preparing = NoView, !.root = FALSE, !.current = Nothing,
                              !.draining = FALSE]
  BY Zenon DEF TypeOK, DrainEnd
<1>2. slot' \in Slot
  BY <1>1, NothingType, SlotType, Zenon
<1>3. slot'.preparing = NoView
  BY <1>1, Zenon DEF Slot
<1>4. view' \in [Instances -> View]
  BY DroppedType, Zenon DEF TypeOK, DrainEnd
<1> QED BY <1>2, <1>3, <1>4, Zenon DEF TypeOK, DrainEnd, checkout

\* The types after Remove.
LEMMA RemoveType ==
  ASSUME TypeOK, Remove
  PROVE  TypeOK'
<1>1. slot' \in Slot /\ slot'.preparing = NoView
  BY NoSlotType, Zenon DEF Remove, NoSlot
<1> QED BY <1>1, Zenon DEF TypeOK, Remove, checkout

\* The types after Restart.
LEMMA RestartType ==
  ASSUME TypeOK, Restart
  PROVE  TypeOK'
<1>1. slot' \in Slot /\ slot'.preparing = NoView
  BY NoSlotType, Zenon DEF Restart, NoSlot
<1>2. job' \in Job /\ job'.stage = "idle" /\ job'.inst = NoView
  BY NoJobType, Zenon DEF Restart, NoJob
<1>3. att' \in Attachment /\ query' \in Query /\ view' \in [Instances -> View]
  BY NoAttachmentType, NoQueryType, NewViewType, Zenon DEF Restart
<1>4. leases' \in [Leases -> Lease]
  <2>1. \A l \in Leases : [leases[l] EXCEPT !.state = "old"] \in Lease /\ leases[l] \in Lease
    <3> TAKE l \in Leases
    <3>1. leases[l] \in Lease
      BY Zenon DEF TypeOK
    <3> QED BY <3>1, Zenon DEF Lease
  <2>2. leases' = [l \in Leases |-> IF l \in Held THEN [leases[l] EXCEPT !.state = "old"]
                                    ELSE leases[l]]
    BY Zenon DEF Restart
  <2> QED BY <2>1, <2>2, Zenon
<1>5. faults' \in 0 .. MaxFaults
  <2>1. faults \in 0 .. MaxFaults /\ faults < MaxFaults /\ faults' = faults + 1
    BY Zenon DEF TypeOK, Restart
  <2> QED BY <2>1, BoundsAssumption, SMT
<1>6. UNCHANGED <<checkout, row, passes, overtaken>>
  BY Zenon DEF Restart
<1> QED BY <1>1, <1>2, <1>3, <1>4, <1>5, <1>6, Zenon DEF TypeOK, checkout

-----------------------------------------------------------------------------

\* Every step keeps the types.
LEMMA TypeStep ==
  ASSUME TypeOK, [Next]_vars
  PROVE  TypeOK'
<1>1. CASE Next
  <2>1. CASE Work
    BY <2>1, WorkType, MakeType, BeginPassType, EndPassType, PublishType, PublishUnknownType,
       EndType, Zenon DEF Work
  <2> QED
    BY <1>1, <2>1, ChangeType, InvalidateType, AttachReadType, AttachSaveType,
       AttachInstallType, AttachFailType, StartType, QueryType, DetachType, SweepType,
       RetireRowType, DrainBeginType, DrainEndType, RemoveType, RestartType, Zenon DEF Next
<1>2. CASE UNCHANGED vars
  BY <1>2, Zenon DEF vars, checkout, TypeOK
<1> QED BY <1>1, <1>2

\* The slot's view in preparation is the instance of its job, and only a job
\* that reads has one (install_preparing, begin_work, ViewWork::drop); the
\* other variables keep their types.
THEOREM TypeCorrect == Spec => []TypeOK
<1>1. Init => TypeOK
  BY InitType
<1>2. TypeOK /\ [Next]_vars => TypeOK'
  BY TypeStep
<1> QED BY <1>1, <1>2, PTL DEF Spec

-----------------------------------------------------------------------------
\* The catalog's row.

\* A catalog without a row.
LEMMA InitRow ==
  ASSUME Init
  PROVE  RowInv
<1>1. /\ ~ slot.installed /\ ~ row.active /\ att.stage = "idle" /\ job.stage = "idle"
      /\ row.version = 0
  BY Zenon DEF Init, NoSlot, NoRow, NoAttachment, NoJob
<1>2. Counted = {}
  BY SMT DEF Init, Counted
<1>3. VersionInv
  BY <1>1, <1>2, Zenon DEF VersionInv
<1>4. ReadInv /\ PinInv /\ WorkInv
  BY <1>1, Zenon DEF ReadInv, PinInv, WorkInv
<1>5. FixedPinKept /\ LeasedIsActive
  BY <1>2, Zenon DEF FixedPinKept, LeasedIsActive
<1> QED BY <1>3, <1>4, <1>5, Zenon DEF RowInv

\* A job that goes on keeps what it read of the row.
Continues ==
  \/ job'.stage \in {"idle", "done"}
  \/ job.stage \notin {"idle", "done"} /\ job'.active = job.active

\* Steps that touch neither the row nor those attached to it.
LEMMA QuietStep ==
  ASSUME RowInv, UNCHANGED <<row, leases, att, overtaken>>,
         slot'.installed => slot.installed, Continues
  PROVE  RowInv'
<1>1. Counted' = Counted
  BY Zenon DEF Counted
<1>2. VersionInv' /\ ReadInv' /\ PinInv'
  BY <1>1, Zenon DEF RowInv, VersionInv, ReadInv, PinInv
<1>3. WorkInv'
  BY Zenon DEF RowInv, WorkInv, Continues
<1>4. FixedPinKept' /\ LeasedIsActive'
  BY <1>1, Zenon DEF RowInv, FixedPinKept, LeasedIsActive
<1> QED BY <1>2, <1>3, <1>4, Zenon DEF RowInv

\* Closing a slot, or leaving the job alone.
LEMMA CloseContinues ==
  ASSUME TypeOK, Close \/ UNCHANGED <<slot, job>>
  PROVE  Continues /\ slot'.installed = slot.installed
<1>1. slot \in Slot /\ job \in Job
  BY Zenon DEF TypeOK
<1>2. slot'.installed = slot.installed
  BY <1>1, Zenon DEF Close, Slot
<1>3. job'.stage = job.stage /\ job'.active = job.active
  BY <1>1, Zenon DEF Close, Job
<1> QED BY <1>2, <1>3, Zenon DEF Continues

\* The steps of a job before and after its publication.
LEMMA WorkContinues ==
  ASSUME TypeOK,
         BeginWork \/ Make \/ ReadInput \/ BeginPass \/ ReadFiles \/ EndPass \/ Retry
           \/ FailJob \/ EndJob
  PROVE  Continues
<1>1. job \in Job
  BY Zenon DEF TypeOK
<1>2. CASE FailJob \/ EndJob
  <2>1. job' = NoJob
    BY <1>2, Zenon DEF FailJob, EndJob
  <2>2. job'.stage = "idle"
    BY <2>1, Zenon DEF NoJob
  <2> QED BY <2>2, Zenon DEF Continues
<1>3. CASE BeginWork
  <2>1. job.stage = "claim" /\ job'.active = job.active
    BY <1>1, <1>3, Zenon DEF BeginWork, Job
  <2> QED BY <2>1, Zenon DEF Continues
<1>4. CASE Make
  <2>1. job.stage = "make" /\ job'.active = job.active
    BY <1>1, <1>4, Zenon DEF Make, Job
  <2> QED BY <2>1, Zenon DEF Continues
<1>5. CASE ReadInput
  <2>1. job.stage = "input" /\ job'.active = job.active
    BY <1>1, <1>5, Zenon DEF ReadInput, Job
  <2> QED BY <2>1, Zenon DEF Continues
<1>6. CASE BeginPass
  <2>1. job.stage = "begin" /\ job'.active = job.active
    BY <1>1, <1>6, Zenon DEF BeginPass, Job
  <2> QED BY <2>1, Zenon DEF Continues
<1>7. CASE ReadFiles
  <2>1. job.stage = "read" /\ job'.active = job.active
    BY <1>1, <1>7, Zenon DEF ReadFiles, Job
  <2> QED BY <2>1, Zenon DEF Continues
<1>8. CASE EndPass
  <2>1. job.stage = "end" /\ job'.active = job.active
    BY <1>1, <1>8, Zenon DEF EndPass, Job
  <2> QED BY <2>1, Zenon DEF Continues
<1>9. CASE Retry
  <2>1. job.stage = "ready" /\ job'.active = job.active
    BY <1>1, <1>9, Zenon DEF Retry, Job
  <2> QED BY <2>1, Zenon DEF Continues
<1> QED BY <1>2, <1>3, <1>4, <1>5, <1>6, <1>7, <1>8, <1>9

\* Everything that leaves the row and those attached to it alone.
Quiet ==
  \/ \E f \in Files : Change(f) \/ Invalidate(f)
  \/ BeginWork \/ Make \/ ReadInput \/ BeginPass \/ ReadFiles \/ EndPass \/ Retry
  \/ FailJob \/ EndJob \/ StartQuery \/ EndQuery \/ DrainEnd \/ Sweep \/ Remove
  \/ UNCHANGED vars

\* These leave the row, the leases and the attachment alone.
LEMMA QuietRow ==
  ASSUME TypeOK, RowInv, Quiet
  PROVE  RowInv'
<1>1. slot \in Slot /\ job \in Job
  BY Zenon DEF TypeOK
<1>2. UNCHANGED <<row, leases, att, overtaken>>
  BY Zenon DEF Quiet, Change, Invalidate, BeginWork, Make, ReadInput, BeginPass, ReadFiles,
     EndPass, Retry, FailJob, EndJob, StartQuery, EndQuery, DrainEnd, Sweep, Remove, vars
<1>3. slot'.installed => slot.installed
  <2>1. CASE Sweep
    BY <2>1, CloseContinues, Zenon DEF Sweep
  <2>2. CASE slot' = slot
    BY <2>2, Zenon
  <2>5. CASE Remove
    <3>1. slot'.installed = FALSE
      BY <2>5, Zenon DEF Remove, NoSlot
    <3> QED BY <3>1, Zenon
  <2>3. CASE \/ \E f \in Files : Invalidate(f)
             \/ Make \/ FailJob \/ EndJob \/ DrainEnd
    BY <1>1, <2>3, Zenon DEF Invalidate, Make, FailJob, EndJob, DrainEnd, Slot
  <2>4. CASE \/ \E f \in Files : Change(f)
             \/ BeginWork \/ ReadInput \/ BeginPass \/ ReadFiles \/ EndPass \/ Retry
             \/ StartQuery \/ EndQuery \/ UNCHANGED vars
    BY <2>2, <2>4, Zenon DEF Change, BeginWork, ReadInput, BeginPass, ReadFiles, EndPass, Retry,
       StartQuery, EndQuery, vars
  <2> QED BY <2>1, <2>3, <2>4, <2>5, Zenon DEF Quiet
<1>4. Continues
  <2>1. CASE Sweep
    BY <2>1, CloseContinues, Zenon DEF Sweep
  <2>2. CASE job' = job
    BY <2>2, Zenon DEF Continues
  <2>3. CASE \/ \E f \in Files : Change(f) \/ Invalidate(f)
             \/ StartQuery \/ EndQuery \/ DrainEnd \/ Remove \/ UNCHANGED vars
    BY <2>2, <2>3, Zenon DEF Change, Invalidate, StartQuery, EndQuery, DrainEnd, Remove, vars
  <2> QED BY <2>1, <2>3, WorkContinues, Zenon DEF Quiet
<1> QED BY <1>2, <1>3, <1>4, QuietStep, Zenon

\* An attachment reads an active row, or a new one.
LEMMA AttachReadRow ==
  ASSUME TypeOK, RowInv, NEW l \in Leases, AttachRead(l)
  PROVE  RowInv'
<1>1. Counted' = Counted /\ UNCHANGED <<leases, slot, job, overtaken>> /\ att.stage = "idle"
  BY Zenon DEF AttachRead, Counted
<1>2. CASE /\ row.version = 0 /\ row' = row
           /\ att' = [stage |-> "read", lease |-> l, row |-> [NoRow EXCEPT !.version = 1]]
  <2>1. att'.stage = "read" /\ att'.row.version = 1
    BY <1>2, SMT DEF NoRow
  <2>2. Counted = {}
    BY <1>2, Zenon DEF RowInv, VersionInv
  <2>3. ReadInv'
    <3>1. att'.row.version # 0
      BY <2>1, SMT
    <3> QED BY <1>2, <3>1, Zenon DEF ReadInv
  <2>4. VersionInv'
    <3>1. att'.stage # "saved"
      BY <2>1, Zenon
    <3> QED BY <1>1, <1>2, <3>1, Zenon DEF RowInv, VersionInv
  <2>5. PinInv' /\ FixedPinKept' /\ LeasedIsActive'
    BY <1>1, <2>2, Zenon DEF PinInv, FixedPinKept, LeasedIsActive
  <2>6. WorkInv'
    BY <1>1, <1>2, Zenon DEF RowInv, WorkInv
  <2> QED BY <2>3, <2>4, <2>5, <2>6, Zenon DEF RowInv
<1>3. CASE /\ row.active /\ row' = row
           /\ att' = [stage |-> "read", lease |-> l, row |-> row]
  <2>1. att'.stage = "read" /\ att'.row = row
    BY <1>3, Zenon
  <2>2. ReadInv'
    BY <1>3, <2>1, Zenon DEF RowInv, VersionInv, ReadInv
  <2>3. VersionInv'
    <3>1. att'.stage # "saved"
      BY <2>1, Zenon
    <3> QED BY <1>1, <1>3, <3>1, Zenon DEF RowInv, VersionInv
  <2>4. PinInv'
    BY <1>1, <1>3, <2>1, Zenon DEF RowInv, FixedPinKept, PinInv
  <2>5. FixedPinKept' /\ LeasedIsActive' /\ WorkInv'
    BY <1>1, <1>3, Zenon DEF RowInv, FixedPinKept, LeasedIsActive, WorkInv
  <2> QED BY <2>2, <2>3, <2>4, <2>5, Zenon DEF RowInv
<1>4. CASE /\ row.active /\ Counted = {}
           /\ row' = [row EXCEPT !.active = FALSE] /\ att' = att
  <2>1. row'.active = FALSE /\ row'.version = row.version
    BY <1>4, Zenon DEF TypeOK, Row
  <2>2. VersionInv'
    BY <1>1, <1>4, <2>1, Zenon DEF RowInv, VersionInv
  <2>3. ReadInv' /\ PinInv'
    <3>1. att'.stage # "read"
      BY <1>1, <1>4, Zenon
    <3> QED BY <3>1, Zenon DEF ReadInv, PinInv
  <2>4. FixedPinKept' /\ LeasedIsActive'
    BY <1>1, <1>4, Zenon DEF FixedPinKept, LeasedIsActive
  <2>5. WorkInv'
    BY <1>1, <2>1, <1>4, Zenon DEF RowInv, VersionInv, WorkInv
  <2> QED BY <2>2, <2>3, <2>4, <2>5, Zenon DEF RowInv
<1> QED BY <1>2, <1>3, <1>4, Zenon DEF AttachRead

\* An attachment writes what it read, with the version of the fixed leases.
LEMMA AttachSaveRow ==
  ASSUME TypeOK, RowInv, AttachSave
  PROVE  RowInv'
<1>1. /\ att \in Attachment /\ leases \in [Leases -> Lease] /\ att.stage = "read"
      /\ row' = [att.row EXCEPT !.active = TRUE]
      /\ leases' = [leases EXCEPT ![att.lease] = [state |-> "held",
                                                  version |-> att.row.version]]
      /\ att' = [att EXCEPT !.stage = "saved"]
      /\ overtaken' = (overtaken \/ (row.version # 0 /\ row # att.row))
      /\ UNCHANGED <<slot, job>>
  BY Zenon DEF TypeOK, AttachSave
<1>2. att.row.version # 0 /\ (row.version # 0 => att.row.active)
  BY <1>1, Zenon DEF RowInv, ReadInv
<1>3. row'.active = TRUE /\ row'.version = att.row.version
  <2>1. att.row \in Row
    BY <1>1, Zenon DEF Attachment
  <2> QED BY <1>1, <2>1, Zenon DEF Row
<1>4. att'.stage = "saved"
  BY <1>1, Zenon DEF Attachment
<1>5. VersionInv'
  BY <1>2, <1>3, Zenon DEF VersionInv
<1>6. ReadInv' /\ PinInv'
  <2>1. att'.stage # "read"
    BY <1>4, Zenon
  <2> QED BY <2>1, Zenon DEF ReadInv, PinInv
<1>7. LeasedIsActive'
  BY <1>3, Zenon DEF LeasedIsActive
<1>8. FixedPinKept'
  <2>1. SUFFICES ASSUME NEW l \in Counted' \cap Fixed
                 PROVE  leases'[l].version = att.row.version
    BY <1>3, Zenon DEF FixedPinKept
  <2>2. l \in Leases
    BY Zenon DEF Counted
  <2>3. CASE l = att.lease
    BY <1>1, <2>2, <2>3, Zenon
  <2>4. CASE l # att.lease
    <3>1. leases'[l] = leases[l]
      BY <1>1, <2>2, <2>4, Zenon
    <3>2. l \in Counted
      BY <2>2, <3>1, Zenon DEF Counted
    <3> QED BY <1>1, <3>1, <3>2, Zenon DEF RowInv, PinInv
  <2> QED BY <2>3, <2>4
<1>9. WorkInv'
  <2>1. SUFFICES ASSUME ~ overtaken', job.stage \notin {"idle", "done"}, ~ job.active
                 PROVE  FALSE
    BY <1>1, Zenon DEF WorkInv
  <2>2. ~ overtaken /\ (row.version = 0 \/ row = att.row)
    BY <1>1, <2>1, Zenon
  <2>3. ~ row.active /\ row.version # 0
    BY <2>1, <2>2, Zenon DEF RowInv, WorkInv
  <2> QED BY <1>2, <2>2, <2>3, Zenon
<1> QED BY <1>5, <1>6, <1>7, <1>8, <1>9, Zenon DEF RowInv

\* The other steps of an attachment.
LEMMA AttachEndRow ==
  ASSUME TypeOK, RowInv, AttachInstall \/ AttachFail
  PROVE  RowInv'
<1>1. /\ UNCHANGED <<row, leases, job, overtaken>> /\ att' = NoAttachment
      /\ att.stage = "saved" \/ slot' = slot
  BY Zenon DEF AttachInstall, AttachFail
<1>2. Counted' = Counted
  BY <1>1, Zenon DEF Counted
<1>3. att'.stage = "idle"
  BY <1>1, Zenon DEF NoAttachment
<1>4. att'.stage # "read" /\ att'.stage # "saved"
  BY <1>3, Zenon
<1>5. VersionInv'
  BY <1>1, <1>2, <1>4, Zenon DEF RowInv, VersionInv
<1>6. ReadInv' /\ PinInv'
  BY <1>4, Zenon DEF ReadInv, PinInv
<1>7. WorkInv' /\ FixedPinKept' /\ LeasedIsActive'
  BY <1>1, <1>2, Zenon DEF RowInv, WorkInv, FixedPinKept, LeasedIsActive
<1> QED BY <1>5, <1>6, <1>7, Zenon DEF RowInv

\* A job begins with a row: somebody holds a lease, or there is a slot.
LEMMA StartRow ==
  ASSUME TypeOK, RowInv, StartAttach \/ StartReconcile \/ StartMigrate
  PROVE  RowInv'
<1>1. UNCHANGED <<row, leases, att, overtaken>>
  BY Zenon DEF StartAttach, StartReconcile, StartMigrate
<1>2. Counted' = Counted /\ Held \subseteq Counted
  BY <1>1, SMT DEF Counted, Held
<1>3. row.version # 0
  <2>1. CASE StartReconcile \/ StartMigrate
    BY <2>1, Zenon DEF StartReconcile, StartMigrate, RowInv, VersionInv
  <2>2. CASE StartAttach
    <3>1. Held # {}
      BY <2>2, Zenon DEF StartAttach
    <3> QED BY <1>2, <3>1, Zenon DEF RowInv, VersionInv
  <2> QED BY <2>1, <2>2
<1>4. job'.active = row.active
  <2>1. \E kind, version : Claim(kind, version)
    BY Zenon DEF StartAttach, StartReconcile, StartMigrate
  <2> QED BY <2>1, Zenon DEF Claim, NoJob
<1>5. WorkInv'
  BY <1>1, <1>3, <1>4, Zenon DEF WorkInv
<1>6. VersionInv'
  BY <1>1, <1>3, Zenon DEF VersionInv
<1>7. ReadInv' /\ PinInv' /\ FixedPinKept' /\ LeasedIsActive'
  BY <1>1, <1>2, Zenon DEF RowInv, ReadInv, PinInv, FixedPinKept, LeasedIsActive
<1> QED BY <1>5, <1>6, <1>7, Zenon DEF RowInv

\* A publication keeps the version unless it migrates, and then no participant
\* is attached to stay with it.
LEMMA CommitRow ==
  ASSUME TypeOK, RowInv, Commit, slot'.installed = slot.installed
  PROVE  RowInv'
<1>1. /\ job.stage = "ready" /\ Counted # {}
      /\ row.version = IF job.kind = "migrate" THEN job.version - 1 ELSE job.version
      /\ job.kind = "migrate" => Counted \cap Fixed = {}
      /\ UNCHANGED <<leases, att, overtaken>>
      /\ row' = [active |-> job.active, version |-> job.version, pass |-> job.pass,
                 input |-> job.input]
      /\ job' = [NoJob EXCEPT !.stage = "done", !.inst = job.inst]
  BY Zenon DEF Commit, Publishable
<1>2. Counted' = Counted
  BY <1>1, Zenon DEF Counted
<1>3. row'.active = job.active /\ row'.version = job.version /\ job'.stage = "done"
  <2>1. "done" \in Stage
    BY Zenon DEF Stage
  <2> QED BY <1>1, <2>1, NoJobType, Zenon DEF Job
<1>4. row.version # 0 /\ job.version # 0
  <2>1. row.version # 0
    BY <1>1, Zenon DEF RowInv, VersionInv
  <2>2. row.version \in Nat /\ job.version \in Nat
    <3>1. row \in Row /\ job \in Job
      BY Zenon DEF TypeOK
    <3>2. row.version \in 0 .. MaxVersion /\ job.version \in 0 .. MaxVersion
      BY <3>1, Zenon DEF Row, Job
    <3> QED BY <3>2, BoundsAssumption, SMT
  <2> QED BY <1>1, <2>1, <2>2, SMT
<1>5. VersionInv'
  BY <1>3, <1>4, Zenon DEF VersionInv
<1>6. WorkInv'
  BY <1>3, Zenon DEF WorkInv
<1>7. LeasedIsActive'
  <2>1. SUFFICES ASSUME ~ overtaken
                 PROVE  job.active
    BY <1>1, <1>3, Zenon DEF LeasedIsActive
  <2>2. row.active
    BY <1>1, <2>1, Zenon DEF RowInv, LeasedIsActive
  <2>3. job.stage \notin {"idle", "done"}
    BY <1>1, Zenon
  <2> QED BY <2>1, <2>2, <2>3, Zenon DEF RowInv, WorkInv
<1>8. FixedPinKept'
  <2>1. CASE job.kind = "migrate"
    BY <1>1, <1>2, <2>1, Zenon DEF FixedPinKept
  <2>2. CASE job.kind # "migrate"
    BY <1>1, <1>2, <1>3, <2>2, Zenon DEF RowInv, FixedPinKept
  <2> QED BY <2>1, <2>2
<1>9. ReadInv' /\ PinInv'
  BY <1>1, <1>2, <1>4, Zenon DEF RowInv, ReadInv, PinInv
<1> QED BY <1>5, <1>6, <1>7, <1>8, <1>9, Zenon DEF RowInv

\* A publication writes the row of a view with a lease, in the version it
\* was begun in.
LEMMA PublishRow ==
  ASSUME TypeOK, RowInv, Publish \/ PublishUnknown
  PROVE  RowInv'
<1>1. Commit
  BY Zenon DEF Publish, PublishUnknown
<1>2. slot'.installed = slot.installed
  <2>1. slot \in Slot
    BY Zenon DEF TypeOK
  <2> QED BY <2>1, Zenon DEF Publish, PublishUnknown, Slot
<1> QED BY <1>1, <1>2, CommitRow, Zenon

\* Those attached become fewer.
LEMMA LeaveRow ==
  ASSUME TypeOK, RowInv, UNCHANGED <<row, overtaken>>,
         Counted' \subseteq Counted,
         \A l \in Counted' : leases'[l].version = leases[l].version,
         slot'.installed => slot.installed, Continues,
         att' = att \/ att'.stage = "idle"
  PROVE  RowInv'
<1>1. att'.stage \in {"read", "saved"} => att' = att
  <2>1. "idle" \notin {"read", "saved"}
    BY Zenon
  <2> QED BY <2>1, Zenon
<1>2. VersionInv' /\ ReadInv' /\ LeasedIsActive' /\ WorkInv'
  <2>1. VersionInv'
    BY <1>1, Zenon DEF RowInv, VersionInv
  <2>2. ReadInv'
    BY <1>1, Zenon DEF RowInv, ReadInv
  <2>3. LeasedIsActive'
    BY Zenon DEF RowInv, LeasedIsActive
  <2>4. WorkInv'
    BY Zenon DEF RowInv, WorkInv, Continues
  <2> QED BY <2>1, <2>2, <2>3, <2>4
<1>3. FixedPinKept'
  BY Zenon DEF RowInv, FixedPinKept
<1>4. PinInv'
  <2>1. SUFFICES ASSUME att'.stage = "read", NEW l \in Counted' \cap Fixed
                 PROVE  att'.row.version = leases'[l].version
    BY Zenon DEF PinInv
  <2>2. att' = att /\ l \in Counted \cap Fixed /\ leases'[l].version = leases[l].version
    BY <1>1, <2>1, Zenon
  <2> QED BY <2>1, <2>2, Zenon DEF RowInv, PinInv
<1> QED BY <1>2, <1>3, <1>4, Zenon DEF RowInv

\* A lease that ends leaves fewer that count.
LEMMA DetachRow ==
  ASSUME TypeOK, RowInv, NEW l \in Leases, Detach(l)
  PROVE  RowInv'
<1>1. /\ leases \in [Leases -> Lease] /\ leases' = [leases EXCEPT ![l].state = "released"]
      /\ UNCHANGED <<row, overtaken, att>>
  BY Zenon DEF TypeOK, Detach
<1>2. leases'[l].state = "released"
  BY <1>1, Zenon DEF Lease
<1>3. \A m \in Leases : leases'[m].version = leases[m].version
                        /\ (m # l => leases'[m] = leases[m])
  BY <1>1, Zenon DEF Lease
<1>4. l \notin Counted'
  <2>1. "released" \notin {"held", "old"}
    BY Zenon
  <2> QED BY <1>2, <2>1, Zenon DEF Counted
<1>5. Counted' \subseteq Counted
  BY <1>3, <1>4, Zenon DEF Counted
<1>6. \A m \in Counted' : leases'[m].version = leases[m].version
  BY <1>3, Zenon DEF Counted
<1>7. Continues /\ slot'.installed = slot.installed
  BY CloseContinues, Zenon DEF Detach
<1> QED BY <1>1, <1>5, <1>6, <1>7, LeaveRow, Zenon

\* Across a restart the leases that were held still count.
LEMMA RestartRow ==
  ASSUME TypeOK, RowInv, Restart
  PROVE  RowInv'
<1>1. /\ leases \in [Leases -> Lease]
      /\ leases' = [l \in Leases |-> IF l \in Held THEN [leases[l] EXCEPT !.state = "old"]
                                     ELSE leases[l]]
      /\ UNCHANGED <<row, overtaken>>
      /\ slot' = NoSlot /\ job' = NoJob /\ att' = NoAttachment
  BY Zenon DEF TypeOK, Restart
<1>2. ~ slot'.installed /\ job'.stage = "idle" /\ att'.stage = "idle"
  BY <1>1, Zenon DEF NoSlot, NoJob, NoAttachment
<1>3. \A l \in Leases : leases'[l].version = leases[l].version
  BY <1>1, Zenon DEF Lease
<1>4. \A l \in Leases : leases'[l] = leases[l] \/ l \in Held
  BY <1>1, Zenon
<1>5. Counted' \subseteq Counted
  <2>1. Held \subseteq Counted
    BY SMT DEF Counted, Held
  <2> QED BY <1>4, <2>1, Zenon DEF Counted
<1>6. \A l \in Counted' : leases'[l].version = leases[l].version
  BY <1>3, Zenon DEF Counted
<1>7. Continues
  BY <1>2, Zenon DEF Continues
<1> QED BY <1>1, <1>2, <1>5, <1>6, <1>7, LeaveRow, Zenon

\* A row is retired only when nobody is attached.
LEMMA RetireStep ==
  ASSUME TypeOK, RowInv, RetireRow \/ DrainBegin
  PROVE  RowInv'
<1>1. /\ Counted = {} /\ row \in Row /\ slot \in Slot
      /\ row' = [row EXCEPT !.active = FALSE]
      /\ UNCHANGED <<leases, att, job, overtaken>>
      /\ slot.installed \/ row.active
  BY Zenon DEF TypeOK, RetireRow, DrainBegin
<1>2. Counted' = {}
  BY <1>1, Zenon DEF Counted
<1>3. row'.active = FALSE /\ row'.version = row.version
  BY <1>1, Zenon DEF Row
<1>4. row.version # 0
  BY <1>1, Zenon DEF RowInv, VersionInv
<1>5. VersionInv' /\ LeasedIsActive' /\ FixedPinKept' /\ PinInv' /\ WorkInv'
  BY <1>2, <1>3, <1>4, Zenon DEF VersionInv, LeasedIsActive, FixedPinKept, PinInv, WorkInv
<1>6. ReadInv'
  BY <1>1, <1>3, Zenon DEF RowInv, ReadInv
<1> QED BY <1>5, <1>6, Zenon DEF RowInv

-----------------------------------------------------------------------------

\* Every step keeps the row.
LEMMA RowStep ==
  ASSUME TypeOK, RowInv, [Next]_vars
  PROVE  RowInv'
<1>1. CASE Quiet
  BY <1>1, QuietRow, Zenon
<1>2. CASE Work
  BY <1>1, <1>2, PublishRow, Zenon DEF Work, Quiet
<1>3. CASE StartAttach \/ StartReconcile \/ StartMigrate
  BY <1>3, StartRow, Zenon
<1>4. CASE \E l \in Leases : AttachRead(l) \/ Detach(l)
  BY <1>4, AttachReadRow, DetachRow, Zenon
<1>5. CASE AttachSave \/ AttachInstall \/ AttachFail
  BY <1>5, AttachSaveRow, AttachEndRow, Zenon
<1>6. CASE RetireRow \/ DrainBegin \/ Restart
  BY <1>6, RetireStep, RestartRow, Zenon
<1> QED BY <1>1, <1>2, <1>3, <1>4, <1>5, <1>6, Zenon DEF Next, Quiet

\* What holds of the row of a view, and of what its attachment and its job have
\* read of it.
THEOREM RowInvariant == Spec => [](TypeOK /\ RowInv)
<1>1. Init => TypeOK /\ RowInv
  BY InitType, InitRow
<1>2. (TypeOK /\ RowInv) /\ [Next]_vars => (TypeOK /\ RowInv)'
  <2> SUFFICES ASSUME TypeOK, RowInv, [Next]_vars
               PROVE  TypeOK' /\ RowInv'
    OBVIOUS
  <2> QED BY TypeStep, RowStep
<1> QED BY <1>1, <1>2, PTL DEF Spec

\* The version a participant without migration accepted stays the catalog's,
\* whatever migrates, joins or detaches meanwhile (execute_migration, publish).
THEOREM FixedPin == Spec => []FixedPinKept
<1>1. TypeOK /\ RowInv => FixedPinKept
  BY Zenon DEF RowInv
<1> QED BY <1>1, RowInvariant, PTL

\* Unless an attachment was overtaken, the row of a view somebody is attached to
\* is active: none retires it (drain, recover_units) or saves it as it was read
\* before the attachment (publish).
THEOREM LeasedActive == Spec => []LeasedIsActive
<1>1. TypeOK /\ RowInv => LeasedIsActive
  BY Zenon DEF RowInv
<1> QED BY <1>1, RowInvariant, PTL

-----------------------------------------------------------------------------
\* What each step does to the fields the rest of the invariant speaks of.

\* The types of the fields, one by one.
LEMMA Fields ==
  ASSUME TypeOK
  PROVE  /\ slot \in Slot /\ job \in Job /\ row \in Row /\ att \in Attachment
         /\ query \in Query /\ view \in [Instances -> View] /\ slot.current \in Published
         /\ att.row \in Row
         /\ row.version \in Nat /\ row.pass \in Nat /\ row.input \in Nat
         /\ att.row.version \in Nat /\ att.row.pass \in Nat /\ att.row.input \in Nat
         /\ slot.epoch \in Nat /\ slot.current.version \in Nat /\ slot.current.pass \in Nat
         /\ slot.current.input \in Nat
         /\ job.version \in Nat /\ job.pass \in Nat /\ job.input \in Nat
         /\ query.epoch \in Nat /\ query.pass \in Nat /\ passes \in Nat
<1>1. /\ slot \in Slot /\ job \in Job /\ row \in Row /\ att \in Attachment
      /\ query \in Query /\ view \in [Instances -> View] /\ passes \in 0 .. MaxPasses
  BY Zenon DEF TypeOK
<1>2. slot.current \in Published /\ att.row \in Row /\ slot.epoch \in Nat
  BY <1>1, Zenon DEF Slot, Attachment
<1>3. \A n \in 0 .. MaxPasses : n \in Nat
  BY BoundsAssumption, SMT
<1>4. \A n \in 0 .. MaxVersion : n \in Nat
  BY BoundsAssumption, SMT
<1>5. row.version \in Nat /\ row.pass \in Nat /\ row.input \in Nat
  BY <1>1, <1>3, <1>4, Zenon DEF Row
<1>6. att.row.version \in Nat /\ att.row.pass \in Nat /\ att.row.input \in Nat
  BY <1>2, <1>3, <1>4, Zenon DEF Row
<1>7. slot.current.version \in Nat /\ slot.current.pass \in Nat /\ slot.current.input \in Nat
  BY <1>2, <1>3, <1>4, Zenon DEF Published
<1>8. job.version \in Nat /\ job.pass \in Nat /\ job.input \in Nat
  BY <1>1, <1>3, <1>4, Zenon DEF Job
<1>9. query.epoch \in Nat /\ query.pass \in Nat
  BY <1>1, <1>3, Zenon DEF Query
<1> QED BY <1>1, <1>2, <1>3, <1>5, <1>6, <1>7, <1>8, <1>9, Zenon

\* Of the slot, all but whether it closes, is observed or has its root.
SlotStays == /\ slot'.installed = slot.installed /\ slot'.epoch = slot.epoch
             /\ slot'.current = slot.current /\ slot'.preparing = slot.preparing
             /\ slot'.draining = slot.draining

\* Of the job, all but whether it is cancelled.
JobStays == /\ job'.stage = job.stage /\ job'.inst = job.inst /\ job'.kind = job.kind
            /\ job'.active = job.active /\ job'.version = job.version /\ job'.base = job.base
            /\ job'.pass = job.pass /\ job'.input = job.input /\ job'.take = job.take
            /\ job'.seen = job.seen

\* A change moves a file on and is not announced yet.
LEMMA ChangeDoes ==
  ASSUME TypeOK, NEW f \in Files, Change(f)
  PROVE  /\ \A g \in Files : disk[g] <= disk'[g] /\ disk[g] \in Int /\ disk'[g] \in Int
         /\ UNCHANGED <<eventual, heard, row, leases, slot, view, job, att, query, passes,
                        overtaken>>
<1>1. disk \in [Files -> 0 .. MaxChanges] /\ disk' = [disk EXCEPT ![f] = @ + 1]
      /\ \A n \in 0 .. MaxChanges : n \in Int
  BY BoundsAssumption, SMT DEF TypeOK, Changes, Change
<1>2. \A g \in Files : disk[g] <= disk'[g] /\ disk[g] \in Int /\ disk'[g] \in Int
  BY <1>1, BoundsAssumption, SMT
<1> QED BY <1>2, Zenon DEF Change

\* An announcement moves the epoch and tells the current view and the one in
\* preparation.
LEMMA InvalidateDoes ==
  ASSUME TypeOK, NEW f \in Files, Invalidate(f)
  PROVE  /\ slot.installed
         /\ heard' = [heard EXCEPT ![f] = disk[f]]
         /\ slot'.installed = slot.installed /\ slot'.epoch = slot.epoch + 1
         /\ slot'.current = slot.current /\ slot'.preparing = slot.preparing
         /\ slot'.draining = slot.draining
         /\ \A i \in Told : view'[i] = [view[i] EXCEPT !.owed = @ \cup {f}, !.ready = FALSE,
                                                       !.moved = TRUE]
         /\ \A i \in Instances \ Told : view'[i] = view[i]
         /\ UNCHANGED <<eventual, disk, row, leases, job, att, query, passes, overtaken>>
<1>1. slot \in Slot /\ slot' = [slot EXCEPT !.epoch = @ + 1] /\ slot.current \in Published
  BY Fields, Zenon DEF Invalidate
<1>2. Told \subseteq Instances
  BY <1>1, Zenon DEF Told, Slot, Published
<1>3. view' = [i \in Instances |->
                IF i \in Told
                  THEN [view[i] EXCEPT !.owed = @ \cup {f}, !.ready = FALSE, !.moved = TRUE]
                  ELSE view[i]]
  BY Zenon DEF Invalidate
<1>4. /\ slot'.installed = slot.installed /\ slot'.epoch = slot.epoch + 1
      /\ slot'.current = slot.current /\ slot'.preparing = slot.preparing
      /\ slot'.draining = slot.draining
  BY <1>1, Zenon DEF Slot
<1>5. \A i \in Told : view'[i] = [view[i] EXCEPT !.owed = @ \cup {f}, !.ready = FALSE,
                                                 !.moved = TRUE]
  BY <1>2, <1>3, Zenon
<1>6. \A i \in Instances \ Told : view'[i] = view[i]
  BY <1>3, Zenon
<1> QED BY <1>4, <1>5, <1>6, Zenon DEF Invalidate

\* An attachment reads the row, or a new one, or finds it changed and
\* retires it.
LEMMA AttachReadDoes ==
  ASSUME TypeOK, NEW l \in Leases, AttachRead(l)
  PROVE  /\ att.stage = "idle"
         /\ \/ /\ row' = row /\ att'.stage = "read"
               /\ att'.row.pass \in {0, row.pass} /\ att'.row.input \in {0, row.input}
            \/ /\ row'.active = FALSE /\ row'.version = row.version /\ row'.pass = row.pass
               /\ row'.input = row.input /\ att' = att
         /\ UNCHANGED <<checkout, leases, slot, view, job, query, passes, overtaken>>
<1>1. row \in Row /\ att.stage = "idle"
      /\ UNCHANGED <<checkout, leases, slot, view, job, query, passes, overtaken>>
  BY Fields, Zenon DEF AttachRead
<1>2. CASE att' = [stage |-> "read", lease |-> l, row |-> [NoRow EXCEPT !.version = 1]]
           /\ row' = row
  <2>1. att'.stage = "read" /\ att'.row = [NoRow EXCEPT !.version = 1]
    BY <1>2, Zenon
  <2>2. att'.row.pass = 0 /\ att'.row.input = 0
    BY <2>1, Zenon DEF NoRow
  <2> QED BY <1>1, <1>2, <2>1, <2>2, Zenon
<1>3. CASE att' = [stage |-> "read", lease |-> l, row |-> row] /\ row' = row
  <2>1. att'.stage = "read" /\ att'.row = row
    BY <1>3, Zenon
  <2> QED BY <1>1, <1>3, <2>1, Zenon
<1>4. CASE row' = [row EXCEPT !.active = FALSE] /\ att' = att
  <2>1. row'.active = FALSE /\ row'.version = row.version /\ row'.pass = row.pass
        /\ row'.input = row.input
    BY <1>1, <1>4, Zenon DEF Row
  <2> QED BY <1>1, <1>4, <2>1, Zenon
<1> QED BY <1>2, <1>3, <1>4, Zenon DEF AttachRead

\* If nothing overtook it, an attachment saves the row as it is, or the first.
LEMMA AttachSaveDoes ==
  ASSUME TypeOK, RowInv, AttachSave
  PROVE  /\ att.stage = "read" /\ att'.stage = "saved" /\ att'.row = att.row
         /\ row'.version = att.row.version /\ row'.pass = att.row.pass
         /\ row'.input = att.row.input /\ row'.active = TRUE
         /\ overtaken => overtaken'
         /\ ~ overtaken' => ~ slot.installed \/ (row = att.row /\ row.active)
         /\ UNCHANGED <<checkout, slot, view, job, query, passes>>
<1>1. att \in Attachment /\ att.row \in Row /\ att.stage = "read"
  BY Fields, Zenon DEF AttachSave
<1>2. /\ row' = [att.row EXCEPT !.active = TRUE] /\ att' = [att EXCEPT !.stage = "saved"]
      /\ overtaken' = (overtaken \/ (row.version # 0 /\ row # att.row))
      /\ UNCHANGED <<checkout, slot, view, job, query, passes>>
  BY Zenon DEF AttachSave
<1>3. att'.stage = "saved" /\ att'.row = att.row
  BY <1>1, <1>2, Zenon DEF Attachment
<1>4. /\ row'.version = att.row.version /\ row'.pass = att.row.pass
      /\ row'.input = att.row.input /\ row'.active = TRUE
  BY <1>1, <1>2, Zenon DEF Row
<1>5. ASSUME ~ overtaken', slot.installed PROVE row = att.row /\ row.active
  <2>1. row.version # 0
    BY <1>5, Zenon DEF RowInv, VersionInv
  <2>2. row = att.row
    BY <1>2, <1>5, <2>1, Zenon
  <2> QED BY <1>1, <2>1, <2>2, Zenon DEF RowInv, ReadInv
<1>6. overtaken => overtaken'
  BY <1>2, Zenon
<1> QED BY <1>1, <1>2, <1>3, <1>4, <1>5, <1>6, Zenon

\* A slot that is not there is installed without a view.
Installs(input) ==
  IF slot.installed THEN slot' = slot
  ELSE /\ slot'.installed /\ slot'.epoch = input /\ slot'.current = Nothing
       /\ slot'.preparing = NoView /\ slot'.draining = FALSE

\* The slot that is installed observes, has its root and no view.
LEMMA InstallDoes ==
  ASSUME NEW s, ~ s.installed, NEW input \in Nat
  PROVE  LET t == Install(s, input)
         IN  /\ t.installed /\ t.epoch = input /\ t.current = Nothing /\ t.preparing = NoView
             /\ t.draining = FALSE /\ t \in Slot
<1>1. Install(s, input) = [NoSlot EXCEPT !.installed = TRUE, !.epoch = input,
                                         !.observer = TRUE, !.root = TRUE]
  BY Zenon DEF Install
<1>2. Install(s, input) \in Slot
  BY <1>1, NoSlotType, SlotType, ZenonT(30)
<1> HIDE DEF NoView, Nothing
<1>3. Install(s, input).installed /\ Install(s, input).epoch = input
      /\ Install(s, input).current = Nothing /\ Install(s, input).preparing = NoView
      /\ Install(s, input).draining = FALSE
  BY <1>1, Zenon DEF NoSlot
<1> QED BY <1>2, <1>3, Zenon

\* A saved attachment installs the slot, or joins the publication that is
\* there.
LEMMA AttachInstallDoes ==
  ASSUME TypeOK, AttachInstall
  PROVE  /\ att.stage = "saved" /\ att' = NoAttachment
         /\ slot.installed => /\ slot'.installed /\ slot'.epoch = slot.epoch
                              /\ slot'.preparing = slot.preparing
                              /\ slot'.draining = slot.draining
                              /\ \/ slot'.current = slot.current
                                 \/ /\ slot'.current.inst = slot.current.inst
                                    /\ slot.current.inst # NoView
                                    /\ slot.current.version = att.row.version
                                    /\ slot'.current.version = att.row.version
                                    /\ slot'.current.pass = att.row.pass
                                    /\ slot'.current.input = att.row.input
         /\ ~ slot.installed => Installs(att.row.input)
         /\ UNCHANGED <<checkout, row, leases, view, job, query, passes, overtaken>>
<1> DEFINE t == Install(slot, att.row.input)
           s == [t EXCEPT !.closing = FALSE]
<1>1. slot \in Slot /\ slot.current \in Published /\ att.row.input \in Nat
  BY Fields, Zenon
<1>2. slot' = IF s.current.inst # NoView /\ s.current.version = att.row.version
                THEN [s EXCEPT !.current.pass = att.row.pass, !.current.input = att.row.input]
                ELSE s
  BY Zenon DEF AttachInstall
<1>3. ASSUME slot.installed
      PROVE  /\ slot'.installed /\ slot'.epoch = slot.epoch
             /\ slot'.preparing = slot.preparing /\ slot'.draining = slot.draining
             /\ \/ slot'.current = slot.current
                \/ /\ slot'.current.inst = slot.current.inst
                   /\ slot.current.inst # NoView
                   /\ slot.current.version = att.row.version
                   /\ slot'.current.version = att.row.version
                   /\ slot'.current.pass = att.row.pass
                   /\ slot'.current.input = att.row.input
  <2>1. t = slot
    BY <1>3, Zenon DEF Install
  <2>2. s \in Slot /\ s.installed /\ s.epoch = slot.epoch /\ s.current = slot.current
        /\ s.preparing = slot.preparing /\ s.draining = slot.draining
    BY <1>1, <1>3, <2>1, Zenon DEF Slot
  <2> HIDE DEF s, t
  <2>3. CASE slot' = s
    BY <2>2, <2>3, Zenon
  <2>4. CASE /\ s.current.inst # NoView /\ s.current.version = att.row.version
             /\ slot' = [s EXCEPT !.current.pass = att.row.pass,
                                   !.current.input = att.row.input]
    <3>1. slot'.installed = s.installed /\ slot'.epoch = s.epoch
          /\ slot'.preparing = s.preparing /\ slot'.draining = s.draining
      BY <2>2, <2>4, Zenon DEF Slot
    <3>2. slot'.current = [s.current EXCEPT !.pass = att.row.pass, !.input = att.row.input]
      BY <2>2, <2>4, SMT DEF Slot
    <3>3. slot'.current.inst = slot.current.inst /\ slot'.current.version = slot.current.version
          /\ slot'.current.pass = att.row.pass /\ slot'.current.input = att.row.input
      BY <1>1, <2>2, <3>2, Zenon DEF Published
    <3> QED BY <2>2, <2>4, <3>1, <3>3, Zenon
  <2> QED BY <1>2, <2>3, <2>4, Zenon
<1>4. ASSUME ~ slot.installed PROVE Installs(att.row.input)
  <2>1. t \in Slot /\ t.installed /\ t.epoch = att.row.input /\ t.current = Nothing
        /\ t.preparing = NoView /\ t.draining = FALSE
    BY <1>1, <1>4, InstallDoes, Zenon
  <2> HIDE DEF t
  <2>2. s.installed /\ s.epoch = att.row.input /\ s.current = Nothing
        /\ s.preparing = NoView /\ s.draining = FALSE
    BY <2>1, Zenon DEF Slot
  <2> HIDE DEF s
  <2>3. s.current.inst = NoView
    <3>1. Nothing.inst = NoView
      BY Zenon DEF Nothing
    <3> QED BY <2>2, <3>1, Zenon
  <2>4. slot' = s
    BY <1>2, <2>3, Zenon
  <2> QED BY <1>4, <2>2, <2>4, Zenon DEF Installs
<1>5. /\ att.stage = "saved" /\ att' = NoAttachment
      /\ UNCHANGED <<checkout, row, leases, view, job, query, passes, overtaken>>
  BY Zenon DEF AttachInstall
<1> QED BY <1>3, <1>4, <1>5, Zenon

\* A job claims its work and has no instance yet.
LEMMA StartDoes ==
  ASSUME TypeOK, StartAttach \/ StartReconcile \/ StartMigrate
  PROVE  /\ job.stage = "idle" /\ job'.stage = "claim"
         /\ job.inst = NoView /\ job'.inst = NoView
         /\ Installs(row.input)
         /\ UNCHANGED <<checkout, row, leases, view, att, query, passes, overtaken>>
<1>1. row.input \in Nat
  BY Fields, Zenon
<1>2. Installs(row.input)
  <2>1. CASE StartAttach
    <3>1. slot' = Install(slot, row.input)
      BY <2>1, Zenon DEF StartAttach
    <3>2. CASE slot.installed
      BY <3>1, <3>2, Zenon DEF Install, Installs
    <3>3. CASE ~ slot.installed
      BY <1>1, <3>1, <3>3, InstallDoes, Zenon DEF Installs
    <3> QED BY <3>2, <3>3
  <2>2. CASE StartReconcile \/ StartMigrate
    BY <2>2, Zenon DEF StartReconcile, StartMigrate, Installs
  <2> QED BY <2>1, <2>2
<1>3. PICK kind, version : Claim(kind, version)
  BY Zenon DEF StartAttach, StartReconcile, StartMigrate
<1>4. job.stage = "idle"
  BY <1>3, Zenon DEF Claim
<1>5. job'.stage = "claim" /\ job'.inst = NoView
  BY <1>3, Zenon DEF Claim, NoJob
<1>6. job.inst = NoView
  BY <1>4, Zenon DEF TypeOK
<1> QED BY <1>2, <1>4, <1>5, <1>6, Zenon DEF StartAttach, StartReconcile, StartMigrate

\* A job takes the current view, or has to make one.
LEMMA BeginWorkDoes ==
  ASSUME TypeOK, BeginWork
  PROVE  /\ job.stage = "claim" /\ job.inst = NoView /\ slot.installed
         /\ \/ /\ job'.stage = "input" /\ job'.inst = slot.current.inst
               /\ slot.current.inst # NoView
            \/ job'.stage = "make" /\ job'.inst = NoView
         /\ UNCHANGED <<checkout, row, leases, slot, view, att, query, passes, overtaken>>
<1>1. job \in Job /\ job.stage = "claim" /\ slot.installed
  BY Fields, Zenon DEF BeginWork
<1>2. job.inst = NoView
  BY <1>1, Zenon DEF TypeOK
<1>3. CASE slot.current.inst # NoView
           /\ job' = [job EXCEPT !.stage = "input", !.inst = slot.current.inst]
  <2>1. job'.stage = "input" /\ job'.inst = slot.current.inst
    BY <1>1, <1>3, Zenon DEF Job
  <2> QED BY <1>1, <1>2, <1>3, <2>1, Zenon DEF BeginWork
<1>4. CASE job' = [job EXCEPT !.stage = "make"]
  <2>1. job'.stage = "make" /\ job'.inst = job.inst
    BY <1>1, <1>4, Zenon DEF Job
  <2> QED BY <1>1, <1>2, <2>1, Zenon DEF BeginWork
<1> QED BY <1>3, <1>4, Zenon DEF BeginWork

\* The instance a job makes is held by nobody else.
LEMMA MakeDoes ==
  ASSUME TypeOK, Make
  PROVE  /\ job.stage = "make" /\ job.inst = NoView /\ slot.preparing = NoView
         /\ \E i \in Instances \ {slot.current.inst, query.inst} :
              slot'.preparing = i /\ job'.stage = "input" /\ job'.inst = i
         /\ slot'.installed = slot.installed /\ slot'.epoch = slot.epoch
         /\ slot'.current = slot.current /\ slot'.draining = slot.draining
         /\ UNCHANGED <<checkout, row, leases, view, att, query, passes, overtaken>>
<1>1. job \in Job /\ slot \in Slot /\ job.stage = "make"
  BY Fields, Zenon DEF Make
<1>2. job.inst = NoView /\ slot.preparing = NoView
  BY <1>1, Zenon DEF TypeOK
<1>3. PICK i \in Instances \ {slot.current.inst, slot.preparing, query.inst} :
        /\ slot' = [slot EXCEPT !.preparing = i]
        /\ job' = [job EXCEPT !.stage = "input", !.inst = i]
  BY Zenon DEF Make
<1>4. slot'.preparing = i /\ job'.stage = "input" /\ job'.inst = i
      /\ slot'.installed = slot.installed /\ slot'.epoch = slot.epoch
      /\ slot'.current = slot.current /\ slot'.draining = slot.draining
  BY <1>1, <1>3, Zenon DEF Slot, Job
<1> QED BY <1>1, <1>2, <1>3, <1>4, Zenon DEF Make

\* A job reads the epoch before the files.
LEMMA ReadInputDoes ==
  ASSUME TypeOK, ReadInput
  PROVE  /\ job.stage = "input" /\ job'.stage = "begin" /\ job'.inst = job.inst
         /\ job'.input = slot.epoch
         /\ UNCHANGED <<checkout, row, leases, slot, view, att, query, passes, overtaken>>
<1>1. /\ job \in Job /\ job.stage = "input"
      /\ job' = [job EXCEPT !.stage = "begin", !.input = slot.epoch]
  BY Fields, Zenon DEF ReadInput
<1>2. job'.stage = "begin" /\ job'.inst = job.inst /\ job'.input = slot.epoch
  BY <1>1, Zenon DEF Job
<1> QED BY <1>1, <1>2, Zenon DEF ReadInput

\* A pass takes what the view owes, and has the next number.
LEMMA BeginPassDoes ==
  ASSUME TypeOK, BeginPass
  PROVE  /\ job.stage = "begin" /\ job'.stage = "read" /\ job'.inst = job.inst
         /\ job.inst \in Instances
         /\ job'.input = job.input /\ job'.pass = passes + 1 /\ passes' = passes + 1
         /\ view[job.inst].owed \subseteq job'.take
         /\ view'[job.inst] = [view[job.inst] EXCEPT !.ready = FALSE, !.moved = FALSE,
                                 !.owed = IF eventual THEN {} ELSE Files]
         /\ \A i \in Instances \ {job.inst} : view'[i] = view[i]
         /\ UNCHANGED <<checkout, row, leases, slot, att, query, overtaken>>
<1> DEFINE v == view[job.inst]
           t == IF v.owed = {} THEN Files ELSE v.owed
<1>1. /\ job \in Job /\ view \in [Instances -> View] /\ job.stage = "begin"
      /\ passes' = passes + 1
      /\ job' = [job EXCEPT !.stage = "read", !.pass = passes + 1, !.take = t]
      /\ view' = [view EXCEPT ![job.inst] = [v EXCEPT !.ready = FALSE, !.moved = FALSE,
                                               !.owed = IF eventual THEN {} ELSE Files]]
  BY Fields, Zenon DEF BeginPass
<1>2. job.inst \in Instances
  BY <1>1, JobInst, Zenon
<1>3. v.owed \subseteq t
  BY Zenon
<1> HIDE DEF t
<1>4. job'.stage = "read" /\ job'.inst = job.inst /\ job'.input = job.input
      /\ job'.pass = passes + 1 /\ job'.take = t
  BY <1>1, Zenon DEF Job
<1>5. view'[job.inst] = [view[job.inst] EXCEPT !.ready = FALSE, !.moved = FALSE,
                                 !.owed = IF eventual THEN {} ELSE Files]
  BY <1>1, <1>2, Zenon
<1>6. \A i \in Instances \ {job.inst} : view'[i] = view[i]
  BY <1>1, Zenon
<1> QED BY <1>1, <1>2, <1>3, <1>4, <1>5, <1>6, Zenon DEF BeginPass

\* A pass reads the files as they are.
LEMMA ReadFilesDoes ==
  ASSUME TypeOK, ReadFiles
  PROVE  /\ job.stage = "read" /\ job'.stage = "end" /\ job'.inst = job.inst
         /\ job'.input = job.input /\ job'.pass = job.pass /\ job'.take = job.take
         /\ job'.seen = disk
         /\ UNCHANGED <<checkout, row, leases, slot, view, att, query, passes, overtaken>>
<1>1. job \in Job /\ job.stage = "read" /\ job' = [job EXCEPT !.stage = "end", !.seen = disk]
  BY Fields, Zenon DEF ReadFiles
<1>2. job'.stage = "end" /\ job'.inst = job.inst
      /\ job'.input = job.input /\ job'.pass = job.pass /\ job'.take = job.take
      /\ job'.seen = disk
  BY <1>1, Zenon DEF Job
<1> QED BY <1>1, <1>2, Zenon DEF ReadFiles

\* The pass ends in a rejection or is published in the view.
LEMMA EndPassDoes ==
  ASSUME TypeOK, EndPass
  PROVE  /\ job.stage = "end" /\ job'.inst = job.inst /\ job.inst \in Instances
         /\ job'.input = job.input /\ job'.pass = job.pass
         /\ \/ ~ eventual /\ view[job.inst].moved /\ job'.stage = "input" /\ view' = view
            \/ /\ eventual \/ ~ view[job.inst].moved
               /\ job'.stage = "ready"
               /\ view'[job.inst].content =
                    [f \in Files |-> IF f \in job.take THEN job.seen[f]
                                     ELSE view[job.inst].content[f]]
               /\ view'[job.inst].pass = job.pass
               /\ view'[job.inst].ready = ~ view[job.inst].moved
               /\ view'[job.inst].moved = view[job.inst].moved
               /\ view'[job.inst].owed = IF eventual THEN view[job.inst].owed ELSE {}
               /\ \A i \in Instances \ {job.inst} : view'[i] = view[i]
         /\ UNCHANGED <<checkout, row, leases, slot, att, query, passes, overtaken>>
<1> DEFINE v == view[job.inst]
           c == [f \in Files |-> IF f \in job.take THEN job.seen[f] ELSE v.content[f]]
<1>1. job \in Job /\ view \in [Instances -> View] /\ job.stage = "end"
      /\ UNCHANGED <<checkout, row, leases, slot, att, query, passes, overtaken>>
  BY Fields, Zenon DEF EndPass
<1>2. job.inst \in Instances
  BY <1>1, JobInst, Zenon
<1>3. CASE /\ ~ eventual /\ v.moved /\ view' = view
           /\ job' = [job EXCEPT !.stage = "input", !.take = {}, !.seen = Never]
  <2>1. job'.stage = "input" /\ job'.inst = job.inst /\ job'.input = job.input
        /\ job'.pass = job.pass
    BY <1>1, <1>3, Zenon DEF Job
  <2> QED BY <1>1, <1>2, <1>3, <2>1, Zenon
<1>4. CASE /\ eventual \/ ~ v.moved
           /\ job' = [job EXCEPT !.stage = "ready", !.take = {}, !.seen = Never]
           /\ view' = [view EXCEPT ![job.inst] =
                         [v EXCEPT !.content = c, !.pass = job.pass, !.ready = ~ v.moved,
                                   !.owed = IF eventual THEN @ ELSE {}]]
  <2>1. job'.stage = "ready" /\ job'.inst = job.inst /\ job'.input = job.input
        /\ job'.pass = job.pass
    BY <1>1, <1>4, Zenon DEF Job
  <2>2. \A i \in Instances \ {job.inst} : view'[i] = view[i]
    BY <1>1, <1>4, Zenon
  <2>3. v \in View
    BY <1>1, <1>2, Zenon
  <2> HIDE DEF c, v
  <2>4. view'[job.inst] = [v EXCEPT !.content = c, !.pass = job.pass, !.ready = ~ v.moved,
                                    !.owed = IF eventual THEN @ ELSE {}]
    BY <1>1, <1>2, <1>4, Zenon
  <2>5. /\ view'[job.inst].content = c /\ view'[job.inst].pass = job.pass
        /\ view'[job.inst].ready = ~ v.moved /\ view'[job.inst].moved = v.moved
        /\ view'[job.inst].owed = IF eventual THEN v.owed ELSE {}
    BY <2>3, <2>4, Zenon DEF View
  <2> QED BY <1>1, <1>2, <1>4, <2>1, <2>2, <2>5, Zenon DEF c, v
<1> QED BY <1>3, <1>4, Zenon DEF EndPass

\* A publication that may not be committed is prepared again.
LEMMA RetryDoes ==
  ASSUME TypeOK, Retry
  PROVE  /\ job.stage = "ready" /\ job'.stage = "input" /\ job'.inst = job.inst
         /\ UNCHANGED <<checkout, row, leases, slot, view, att, query, passes, overtaken>>
<1>1. job \in Job /\ job.stage = "ready" /\ job' = [job EXCEPT !.stage = "input"]
  BY Fields, Zenon DEF Retry
<1>2. job'.stage = "input" /\ job'.inst = job.inst
  BY <1>1, Zenon DEF Job
<1> QED BY <1>1, <1>2, Zenon DEF Retry

\* Both outcomes of a publication.
Commits ==
  /\ job.stage = "ready" /\ job.inst \in Instances
  /\ job'.stage = "done" /\ job'.inst = job.inst
  /\ Counted # {} /\ (eventual \/ slot.epoch = job.input)
  /\ row'.version = job.version /\ row'.pass = job.pass /\ row'.input = job.input
  /\ slot'.installed = slot.installed /\ slot'.draining = slot.draining
  /\ UNCHANGED <<checkout, leases, att, query, passes, overtaken>>

\* A commit writes the job to the row, for a lease that counts and, if
\* strict, the epoch it read.
LEMMA CommitDoes ==
  ASSUME TypeOK, Commit,
         slot'.installed = slot.installed, slot'.draining = slot.draining
  PROVE  Commits
<1>1. /\ job.stage = "ready" /\ Counted # {} /\ (eventual \/ slot.epoch = job.input)
      /\ UNCHANGED <<checkout, leases, att, query, passes, overtaken>>
      /\ row' = [active |-> job.active, version |-> job.version, pass |-> job.pass,
                 input |-> job.input]
      /\ job' = [NoJob EXCEPT !.stage = "done", !.inst = job.inst]
  BY Zenon DEF Commit, Publishable
<1>2. job.inst \in Instances
  BY <1>1, JobInst, Zenon
<1>3. row'.version = job.version /\ row'.pass = job.pass /\ row'.input = job.input
  BY <1>1, Zenon
<1>4. job'.stage = "done" /\ job'.inst = job.inst
  BY <1>1, NoJobType, Zenon DEF Job
<1> QED BY <1>1, <1>2, <1>3, <1>4, Zenon DEF Commits

\* An instance that was held for the last time is dropped.
Drops(inst, refs) ==
  \A i \in Instances : view'[i] = IF i = inst /\ i \notin refs THEN NewView ELSE view[i]

\* A publication that is known replaces the view, and drops the last one
\* unless a query has it.
LEMMA PublishDoes ==
  ASSUME TypeOK, Publish
  PROVE  /\ Commits
         /\ slot'.epoch = slot.epoch /\ slot'.preparing = NoView
         /\ slot'.current = [inst |-> job.inst, version |-> job.version, pass |-> job.pass,
                             input |-> job.input]
         /\ Drops(slot.current.inst, {job.inst, query.inst})
<1>1. slot \in Slot /\ view' = Dropped(slot.current.inst, {job.inst, query.inst})
      /\ slot' = [slot EXCEPT !.current = [inst |-> job.inst, version |-> job.version,
                                           pass |-> job.pass, input |-> job.input],
                              !.preparing = NoView, !.root = FALSE]
  BY Fields, Zenon DEF Publish
<1> HIDE DEF NoView
<1>2. /\ slot'.epoch = slot.epoch /\ slot'.preparing = NoView
      /\ slot'.current = [inst |-> job.inst, version |-> job.version, pass |-> job.pass,
                          input |-> job.input]
      /\ slot'.installed = slot.installed /\ slot'.draining = slot.draining
  BY <1>1, Zenon DEF Slot
<1>3. Commits
  BY <1>2, CommitDoes, Zenon DEF Publish
<1>4. Drops(slot.current.inst, {job.inst, query.inst})
  BY <1>1, Zenon DEF Dropped, Drops
<1> QED BY <1>2, <1>3, <1>4, Zenon

\* A publication whose outcome is not known moves the epoch.
LEMMA PublishUnknownDoes ==
  ASSUME TypeOK, PublishUnknown
  PROVE  /\ Commits
         /\ slot'.epoch = slot.epoch + 1 /\ slot'.preparing = slot.preparing
         /\ slot'.current = slot.current /\ view' = view
<1>1. slot \in Slot /\ slot' = [slot EXCEPT !.epoch = @ + 1] /\ view' = view
  BY Fields, Zenon DEF PublishUnknown
<1>2. /\ slot'.epoch = slot.epoch + 1 /\ slot'.preparing = slot.preparing
      /\ slot'.current = slot.current
      /\ slot'.installed = slot.installed /\ slot'.draining = slot.draining
  BY <1>1, Zenon DEF Slot
<1>3. Commits
  BY <1>2, CommitDoes, Zenon DEF PublishUnknown
<1> QED BY <1>1, <1>2, <1>3, Zenon

\* A job that ends lets its instance go; one that reads in place owes all.
LEMMA JobEnds ==
  ASSUME TypeOK, FailJob \/ EndJob
  PROVE  /\ job'.stage = "idle" /\ job'.inst = NoView
         /\ slot'.installed = slot.installed /\ slot'.epoch = slot.epoch
         /\ slot'.current = slot.current /\ slot'.preparing = NoView
         /\ slot'.draining = slot.draining
         /\ \/ /\ job.inst = slot.current.inst /\ job.stage \in {"read", "end"}
               /\ view' = [view EXCEPT ![job.inst].owed = Files]
            \/ /\ job.inst # slot.current.inst \/ job.stage \notin {"read", "end"}
               /\ Drops(job.inst, {slot.current.inst, query.inst})
         /\ UNCHANGED <<checkout, row, leases, att, query, passes, overtaken>>
<1>1. slot \in Slot /\ job' = NoJob /\ slot' = [slot EXCEPT !.preparing = NoView]
      /\ UNCHANGED <<checkout, row, leases, att, query, passes, overtaken>>
  BY Fields, Zenon DEF FailJob, EndJob
<1>2. job'.stage = "idle" /\ job'.inst = NoView
  BY <1>1, Zenon DEF NoJob
<1> HIDE DEF NoView
<1>3. /\ slot'.installed = slot.installed /\ slot'.epoch = slot.epoch
      /\ slot'.current = slot.current /\ slot'.preparing = NoView
      /\ slot'.draining = slot.draining
  BY <1>1, Zenon DEF Slot
<1>4. CASE EndJob
  <2>1. job.stage = "done" /\ view' = Dropped(job.inst, {slot.current.inst, query.inst})
    BY <1>4, Zenon DEF EndJob
  <2>2. job.stage \notin {"read", "end"}
    BY <2>1, Zenon
  <2> QED BY <1>1, <1>2, <1>3, <2>1, <2>2, Zenon DEF Drops, Dropped
<1>5. CASE FailJob
  <2>1. CASE /\ job.inst = slot.current.inst /\ job.stage \in {"read", "end"}
             /\ view' = [view EXCEPT ![job.inst].owed = Files]
    BY <1>1, <1>2, <1>3, <2>1, Zenon
  <2>2. CASE /\ job.inst # slot.current.inst \/ job.stage \notin {"read", "end"}
             /\ view' = Dropped(job.inst, {slot.current.inst, query.inst})
    BY <1>1, <1>2, <1>3, <2>2, Zenon DEF Drops, Dropped
  <2> QED BY <1>5, <2>1, <2>2, Zenon DEF FailJob
<1> QED BY <1>4, <1>5

\* A query pins the publication and the epoch.
LEMMA StartQueryDoes ==
  ASSUME TypeOK, StartQuery
  PROVE  /\ query = NoQuery /\ Serving
         /\ query'.inst = slot.current.inst /\ query'.epoch = slot.epoch
         /\ query'.pass = slot.current.pass
         /\ slot.current.inst \in Instances
         /\ UNCHANGED <<checkout, row, leases, slot, view, job, att, passes, overtaken>>
<1>1. query = NoQuery /\ Serving
      /\ query' = [inst |-> slot.current.inst, epoch |-> slot.epoch, pass |-> slot.current.pass]
      /\ UNCHANGED <<checkout, row, leases, slot, view, job, att, passes, overtaken>>
  BY Zenon DEF StartQuery
<1>2. slot.current.inst \in Instances
  <2>1. slot.current.inst \in {NoView} \cup Instances
    BY Fields, Zenon DEF Published
  <2>2. slot.current.inst # NoView
    BY <1>1, Zenon DEF Serving
  <2> QED BY <2>1, <2>2, Zenon
<1>3. query'.inst = slot.current.inst /\ query'.epoch = slot.epoch
      /\ query'.pass = slot.current.pass
  BY <1>1, Zenon
<1> QED BY <1>1, <1>2, <1>3, Zenon

\* A query that ends lets go of its instance.
LEMMA EndQueryDoes ==
  ASSUME TypeOK, EndQuery
  PROVE  /\ query' = NoQuery /\ query'.inst = NoView /\ query'.pass = 0
         /\ Drops(query.inst, {slot.current.inst, job.inst})
         /\ UNCHANGED <<checkout, row, leases, slot, job, att, passes, overtaken>>
<1>1. query' = NoQuery /\ view' = Dropped(query.inst, {slot.current.inst, job.inst})
      /\ UNCHANGED <<checkout, row, leases, slot, job, att, passes, overtaken>>
  BY Zenon DEF EndQuery
<1>2. query'.inst = NoView /\ query'.pass = 0
  BY <1>1, Zenon DEF NoQuery
<1>3. Drops(query.inst, {slot.current.inst, job.inst})
  BY <1>1, Zenon DEF Drops, Dropped
<1> QED BY <1>1, <1>2, <1>3, Zenon

\* A slot that is closed keeps its view.
LEMMA LeaveDoes ==
  ASSUME TypeOK, (\E l \in Leases : Detach(l)) \/ Sweep
  PROVE  /\ SlotStays /\ JobStays
         /\ UNCHANGED <<checkout, row, view, att, query, passes, overtaken>>
<1>1. slot \in Slot /\ job \in Job
  BY Fields, Zenon
<1>2. Close \/ UNCHANGED <<slot, job>>
  BY Zenon DEF Detach, Sweep
<1>3. SlotStays
  BY <1>1, <1>2, Zenon DEF Close, Slot, SlotStays
<1>4. JobStays
  BY <1>1, <1>2, Zenon DEF Close, Job, JobStays
<1> QED BY <1>3, <1>4, Zenon DEF Detach, Sweep

\* The row is retired, and nothing else.
LEMMA RetireRowDoes ==
  ASSUME TypeOK, RetireRow
  PROVE  /\ row'.active = FALSE /\ row'.version = row.version /\ row'.pass = row.pass
         /\ row'.input = row.input
         /\ UNCHANGED <<checkout, leases, slot, view, job, att, query, passes, overtaken>>
<1>1. row \in Row /\ row' = [row EXCEPT !.active = FALSE]
  BY Fields, Zenon DEF RetireRow
<1>2. row'.active = FALSE /\ row'.version = row.version /\ row'.pass = row.pass
      /\ row'.input = row.input
  BY <1>1, Zenon DEF Row
<1> QED BY <1>2, Zenon DEF RetireRow

\* A drain of an idle slot retires the row first.
LEMMA DrainBeginDoes ==
  ASSUME TypeOK, DrainBegin
  PROVE  /\ slot.installed /\ ~ Working
         /\ row'.active = FALSE /\ row'.version = row.version /\ row'.pass = row.pass
         /\ row'.input = row.input
         /\ slot'.installed = slot.installed /\ slot'.epoch = slot.epoch
         /\ slot'.current = slot.current /\ slot'.preparing = slot.preparing
         /\ UNCHANGED <<checkout, leases, view, job, att, query, passes, overtaken>>
<1>1. row \in Row /\ row' = [row EXCEPT !.active = FALSE]
      /\ slot \in Slot /\ slot' = [slot EXCEPT !.observer = FALSE, !.draining = TRUE]
  BY Fields, Zenon DEF DrainBegin
<1>2. row'.active = FALSE /\ row'.version = row.version /\ row'.pass = row.pass
      /\ row'.input = row.input
  BY <1>1, Zenon DEF Row
<1>3. slot'.installed = slot.installed /\ slot'.epoch = slot.epoch
      /\ slot'.current = slot.current /\ slot'.preparing = slot.preparing
  BY <1>1, Zenon DEF Slot
<1> QED BY <1>2, <1>3, Zenon DEF DrainBegin

\* A drain ends without a view.
LEMMA DrainEndDoes ==
  ASSUME TypeOK, DrainEnd
  PROVE  /\ slot.draining
         /\ slot'.installed = slot.installed /\ slot'.epoch = slot.epoch
         /\ slot'.current = Nothing /\ slot'.preparing = NoView /\ slot'.draining = FALSE
         /\ Drops(slot.current.inst, {job.inst, query.inst})
         /\ UNCHANGED <<checkout, row, leases, job, att, query, passes, overtaken>>
<1>1. /\ slot \in Slot /\ view' = Dropped(slot.current.inst, {job.inst, query.inst})
      /\ slot' = [slot EXCEPT !.preparing = NoView, !.root = FALSE, !.current = Nothing,
                              !.draining = FALSE]
  BY Fields, Zenon DEF DrainEnd
<1> HIDE DEF NoView, Nothing
<1>2. slot'.installed = slot.installed /\ slot'.epoch = slot.epoch
      /\ slot'.current = Nothing /\ slot'.preparing = NoView /\ slot'.draining = FALSE
  BY <1>1, Zenon DEF Slot
<1>3. Drops(slot.current.inst, {job.inst, query.inst})
  BY <1>1, Zenon DEF Drops, Dropped
<1> QED BY <1>2, <1>3, Zenon DEF DrainEnd

\* The slot leaves the registry, or the daemon is gone with all of them.
Empty == /\ slot'.installed = FALSE /\ slot'.current = Nothing /\ slot'.preparing = NoView
         /\ slot'.draining = FALSE

\* No slot.
LEMMA EmptySlot == ASSUME slot' = NoSlot PROVE Empty
  BY Zenon DEF NoSlot, Empty

\* A slot that is removed had no view, work or query.
LEMMA RemoveDoes ==
  ASSUME TypeOK, Remove
  PROVE  /\ Empty /\ slot.current.inst = NoView /\ ~ Working /\ query = NoQuery
         /\ att.stage = "idle" /\ job.inst = NoView
         /\ UNCHANGED <<checkout, row, leases, view, job, att, query, passes, overtaken>>
<1>1. ~ Working
  BY Zenon DEF Remove
<1>2. job.inst = NoView
  BY <1>1, Zenon DEF Working, TypeOK
<1> QED BY <1>1, <1>2, EmptySlot, Zenon DEF Remove

\* Of the views, nothing outlives the daemon.
LEMMA RestartDoes ==
  ASSUME TypeOK, Restart
  PROVE  /\ Empty /\ job'.stage = "idle" /\ job'.inst = NoView
         /\ att' = NoAttachment /\ query' = NoQuery
         /\ \A i \in Instances : view'[i] = NewView
         /\ UNCHANGED <<checkout, row, passes, overtaken>>
<1>1. job' = NoJob /\ slot' = NoSlot
  BY Zenon DEF Restart
<1>2. job'.stage = "idle" /\ job'.inst = NoView
  BY <1>1, Zenon DEF NoJob
<1> QED BY <1>1, <1>2, EmptySlot, Zenon DEF Restart

\* What is left of an attachment, a query and a publication that are over.
LEMMA Blanks ==
  /\ NoAttachment.stage = "idle" /\ NoAttachment.row = NoRow
  /\ NoRow.pass = 0 /\ NoRow.version = 0 /\ NoRow.input = 0 /\ NoRow.active = FALSE
  /\ NoQuery.inst = NoView /\ NoQuery.pass = 0
  /\ Nothing.inst = NoView /\ Nothing.pass = 0
  /\ NewView.ready = FALSE /\ NewView.owed = Files /\ NewView.pass = 0
  /\ NoView \notin Instances
  BY SMT DEF NoAttachment, NoRow, NoQuery, Nothing, NewView, NoView, Instances

\* An attachment that fails leaves the rest as it is.
LEMMA AttachFailDoes ==
  ASSUME TypeOK, AttachFail
  PROVE  /\ att' = NoAttachment
         /\ UNCHANGED <<checkout, row, leases, slot, view, job, query, passes, overtaken>>
  BY Zenon DEF AttachFail

\* Steps that give nobody an instance and take none.
LEMMA HolderFrame ==
  ASSUME HolderInv, slot.installed => slot'.installed,
         slot'.draining => slot.draining \/ slot.installed,
         slot'.current.inst = slot.current.inst, Working' => Working, job'.inst = job.inst,
         UNCHANGED <<view, query>>
  PROVE  HolderInv'
BY Zenon DEF HolderInv

\* Only an installed slot has a view, and what nobody holds is as new.
LEMMA HolderStep ==
  ASSUME TypeOK, RowInv, HolderInv, [Next]_vars
  PROVE  HolderInv'
<1>1. CASE \E f \in Files : Change(f)
  <2>1. PICK f \in Files : Change(f)
    BY <1>1
  <2> QED BY <2>1, ChangeDoes, HolderFrame, Zenon DEF Working
<1>2. CASE \E f \in Files : Invalidate(f)
  <2>1. PICK f \in Files : Invalidate(f)
    BY <1>2
  <2>2. slot'.installed = slot.installed /\ slot'.current.inst = slot.current.inst
        /\ slot'.draining = slot.draining /\ job' = job /\ query' = query
        /\ slot.preparing \in {NoView, job.inst}
        /\ (\A i \in Instances \ Told : view'[i] = view[i])
    BY <2>1, InvalidateDoes, Zenon DEF TypeOK
  <2>3. \A i \in Instances : i \in {slot.current.inst, job.inst} \/ i \notin Told
    BY <2>2, Blanks, Zenon DEF Told
  <2> QED BY <2>2, <2>3, Zenon DEF HolderInv, Working
<1>3. CASE \E l \in Leases : AttachRead(l)
  <2>1. PICK l \in Leases : AttachRead(l)
    BY <1>3
  <2> QED BY <2>1, AttachReadDoes, HolderFrame, Zenon DEF Working
<1>4. CASE AttachSave
  BY <1>4, AttachSaveDoes, HolderFrame, Zenon DEF Working, SlotStays, JobStays, Commits,
     checkout
<1>5. CASE AttachInstall
  <2>1. (~ slot.installed => Installs(att.row.input)) /\ UNCHANGED <<view, query>>
        /\ job'.inst = job.inst /\ (Working' => Working) /\ TRUE
    BY <1>5, AttachInstallDoes, Zenon DEF Working
  <2>2. CASE slot.installed
    <3>1. /\ slot'.installed /\ slot'.current.inst = slot.current.inst
          /\ slot'.draining = slot.draining
      BY <1>5, AttachInstallDoes, <2>2, Zenon DEF Installs
    <3> QED BY <2>1, <3>1, HolderFrame, Zenon
  <2>3. CASE ~ slot.installed
    <3>1. slot'.installed /\ slot'.current.inst = NoView /\ slot'.draining = FALSE
      BY <2>1, <2>3, Blanks, Zenon DEF Installs
    <3>2. slot.current.inst = NoView
      BY <2>3, Zenon DEF HolderInv
    <3> QED BY <2>1, <3>1, <3>2, HolderFrame, Zenon
  <2> QED BY <2>2, <2>3
<1>6. CASE AttachFail
  BY <1>6, AttachFailDoes, HolderFrame, Zenon DEF Working, SlotStays, JobStays, Commits,
     checkout
<1>7. CASE StartAttach \/ StartReconcile \/ StartMigrate
  <2>1. Installs(row.input) /\ UNCHANGED <<view, query>>
        /\ job'.inst = job.inst /\ (Working' => Working) /\ TRUE
    BY <1>7, StartDoes, Zenon DEF Working
  <2>2. CASE slot.installed
    <3>1. /\ slot'.installed /\ slot'.current.inst = slot.current.inst
          /\ slot'.draining = slot.draining
      BY <1>7, StartDoes, <2>2, Zenon DEF Installs
    <3> QED BY <2>1, <3>1, HolderFrame, Zenon
  <2>3. CASE ~ slot.installed
    <3>1. slot'.installed /\ slot'.current.inst = NoView /\ slot'.draining = FALSE
      BY <2>1, <2>3, Blanks, Zenon DEF Installs
    <3>2. slot.current.inst = NoView
      BY <2>3, Zenon DEF HolderInv
    <3> QED BY <2>1, <3>1, <3>2, HolderFrame, Zenon
  <2> QED BY <2>2, <2>3
<1>8. CASE BeginWork
  BY <1>8, BeginWorkDoes, Blanks, SMT DEF HolderInv, Working, TypeOK, Installs, Commits,
     Drops, SlotStays, JobStays, Empty, Told, checkout
<1>9. CASE Make
  BY <1>9, MakeDoes, Blanks, SMT DEF HolderInv, Working, TypeOK, Installs, Commits,
     Drops, SlotStays, JobStays, Empty, Told, checkout
<1>10. CASE ReadInput
  BY <1>10, ReadInputDoes, HolderFrame, Zenon DEF Working, SlotStays, JobStays, Commits,
     checkout
<1>11. CASE BeginPass
  BY <1>11, BeginPassDoes, Blanks, SMT DEF HolderInv, Working, TypeOK, Installs, Commits,
     Drops, SlotStays, JobStays, Empty, Told, checkout
<1>12. CASE ReadFiles
  BY <1>12, ReadFilesDoes, HolderFrame, Zenon DEF Working, SlotStays, JobStays, Commits,
     checkout
<1>13. CASE EndPass
  BY <1>13, EndPassDoes, Blanks, SMT DEF HolderInv, Working, TypeOK, Installs, Commits,
     Drops, SlotStays, JobStays, Empty, Told, checkout
<1>14. CASE Retry
  BY <1>14, RetryDoes, HolderFrame, Zenon DEF Working, SlotStays, JobStays, Commits,
     checkout
<1>15. CASE Publish
  BY <1>15, PublishDoes, Blanks, SMT DEF HolderInv, Working, TypeOK, Installs, Commits,
     Drops, SlotStays, JobStays, Empty, Told, checkout
<1>16. CASE PublishUnknown
  BY <1>16, PublishUnknownDoes, HolderFrame, Zenon DEF Working, SlotStays, JobStays,
     Commits, checkout
<1>17. CASE FailJob \/ EndJob
  BY <1>17, JobEnds, Blanks, SMT DEF HolderInv, Working, TypeOK, Installs, Commits,
     Drops, SlotStays, JobStays, Empty, Told, checkout
<1>18. CASE StartQuery
  BY <1>18, StartQueryDoes, Blanks, SMT DEF HolderInv, Working, TypeOK, Installs,
     Commits, Drops, SlotStays, JobStays, Empty, Told, checkout
<1>19. CASE EndQuery
  BY <1>19, EndQueryDoes, Blanks, SMT DEF HolderInv, Working, TypeOK, Installs, Commits,
     Drops, SlotStays, JobStays, Empty, Told, checkout
<1>20. CASE (\E l \in Leases : Detach(l)) \/ Sweep
  BY <1>20, LeaveDoes, HolderFrame, Zenon DEF Working, SlotStays, JobStays, Commits,
     checkout
<1>21. CASE RetireRow
  BY <1>21, RetireRowDoes, HolderFrame, Zenon DEF Working, SlotStays, JobStays, Commits,
     checkout
<1>22. CASE DrainBegin
  BY <1>22, DrainBeginDoes, HolderFrame, Zenon DEF Working, SlotStays, JobStays, Commits,
     checkout
<1>23. CASE DrainEnd
  <2>1. /\ slot'.installed = slot.installed /\ slot'.current.inst = NoView
        /\ slot'.draining = FALSE
        /\ Drops(slot.current.inst, {job.inst, query.inst}) /\ UNCHANGED <<job, query>>
    BY <1>23, DrainEndDoes, Blanks, Zenon
  <2>2. \A i \in Instances : i \in {NoView, job.inst, query.inst} \/ view'[i] = NewView
    BY <2>1, Zenon DEF HolderInv, Drops
  <2> QED BY <2>1, <2>2, Zenon DEF HolderInv, Working
<1>24. CASE Remove
  <2>1. /\ ~ Working /\ query = NoQuery /\ slot.current.inst = NoView
        /\ slot'.current.inst = NoView /\ slot'.draining = FALSE
        /\ UNCHANGED <<job, query, view>>
    BY <1>24, RemoveDoes, Blanks, Zenon DEF Empty
  <2> QED BY <2>1, Zenon DEF HolderInv, Working
<1>25. CASE Restart
  <2>1. /\ job'.stage = "idle" /\ query' = NoQuery /\ slot'.current.inst = NoView
        /\ slot'.draining = FALSE
        /\ \A i \in Instances : view'[i] = NewView
    BY <1>25, RestartDoes, Blanks, Zenon DEF Empty
  <2> QED BY <2>1, Zenon DEF HolderInv, Working
<1>26. CASE UNCHANGED vars
  BY <1>26, HolderFrame, Zenon DEF Working, vars
<1> QED
  BY <1>1, <1>2, <1>3, <1>4, <1>5, <1>6, <1>7, <1>8, <1>9, <1>10, <1>11, <1>12, <1>13,
     <1>14, <1>15, <1>16, <1>17, <1>18, <1>19, <1>20, <1>21, <1>22, <1>23, <1>24, <1>25,
     <1>26, Zenon DEF Next, Work

\* Steps that number no pass.
LEMMA PassFrame ==
  ASSUME TypeOK, PassInv, passes' = passes,
         row'.pass \in {row.pass, att.row.pass},
         att'.row.pass \in {0, att.row.pass, row.pass},
         slot'.current.pass \in {0, slot.current.pass, att.row.pass},
         query'.pass \in {0, query.pass, slot.current.pass},
         job'.stage \in {"read", "end", "ready"} =>
           job.stage \in {"read", "end", "ready"} /\ job'.pass = job.pass,
         job'.stage = "ready" =>
           job.stage = "ready" /\ job'.inst = job.inst
           /\ view'[job.inst].pass = view[job.inst].pass
  PROVE  PassInv'
BY Fields, SMT DEF PassInv

\* A pass is later than what was published before it.
LEMMA PassStep ==
  ASSUME TypeOK, RowInv, PassInv, [Next]_vars
  PROVE  PassInv'
<1>1. CASE \E f \in Files : Change(f)
  <2>1. PICK f \in Files : Change(f)
    BY <1>1
  <2> QED BY <2>1, ChangeDoes, SMT DEF PassInv
<1>2. CASE \E f \in Files : Invalidate(f)
  <2>1. PICK f \in Files : Invalidate(f)
    BY <1>2
  <2>2. slot'.current = slot.current /\ UNCHANGED <<row, att, query, passes, job>>
    BY <2>1, InvalidateDoes, Zenon
  <2>3. \A i \in Instances : view'[i].pass = view[i].pass
    <3>1. \A i \in Instances : view[i] \in View
      BY Fields, Zenon
    <3>2. Told \subseteq Instances
      BY Fields, Zenon DEF Told, Slot, Published
    <3>3. ASSUME NEW i \in Told PROVE view'[i].pass = view[i].pass
      <4>1. view'[i] = [view[i] EXCEPT !.owed = @ \cup {f}, !.ready = FALSE, !.moved = TRUE]
        BY <2>1, InvalidateDoes, Zenon
      <4>2. view[i] \in View
        BY <3>1, <3>2, Zenon
      <4> QED BY <4>1, <4>2, Zenon DEF View
    <3>4. \A i \in Instances \ Told : view'[i].pass = view[i].pass
      BY <2>1, InvalidateDoes, Zenon
    <3> QED BY <3>3, <3>4, Zenon
  <2>4. job.stage = "ready" => job.inst \in Instances
    BY JobInst, Zenon
  <2> QED BY <2>2, <2>3, <2>4, PassFrame, Zenon
<1>3. CASE \E l \in Leases : AttachRead(l)
  <2>1. PICK l \in Leases : AttachRead(l)
    BY <1>3
  <2>2. att'.row.pass \in {0, att.row.pass, row.pass} /\ row'.pass = row.pass
        /\ UNCHANGED <<slot, query, passes, job, view>>
    BY <2>1, AttachReadDoes, Zenon
  <2> QED BY <2>2, PassFrame, Zenon
<1>4. CASE AttachSave
  <2>1. row'.pass = att.row.pass /\ att'.row = att.row
        /\ UNCHANGED <<slot, query, passes, job, view>>
    BY <1>4, AttachSaveDoes, Zenon
  <2> QED BY <2>1, PassFrame, Zenon
<1>5. CASE AttachInstall
  <2>1. att'.row.pass = 0 /\ UNCHANGED <<row, query, passes, job, view>>
    BY <1>5, AttachInstallDoes, Blanks, Zenon
  <2>2. slot'.current.pass \in {0, slot.current.pass, att.row.pass}
    BY <1>5, AttachInstallDoes, Blanks, Zenon DEF Installs
  <2> QED BY <2>1, <2>2, PassFrame, Zenon
<1>6. CASE AttachFail
  BY <1>6, AttachFailDoes, Fields, Blanks, SMT DEF PassInv
<1>7. CASE StartAttach \/ StartReconcile \/ StartMigrate
  <2>1. job'.stage = "claim" /\ UNCHANGED <<row, att, query, passes, view>>
    BY <1>7, StartDoes, Zenon
  <2>2. slot'.current.pass \in {0, slot.current.pass}
    BY <1>7, StartDoes, Blanks, Zenon DEF Installs
  <2> QED BY <2>1, <2>2, PassFrame, Zenon
<1>8. CASE BeginWork
  BY <1>8, BeginWorkDoes, SMT DEF PassInv
<1>9. CASE Make
  BY <1>9, MakeDoes, SMT DEF PassInv
<1>10. CASE ReadInput
  BY <1>10, ReadInputDoes, SMT DEF PassInv
<1>11. CASE BeginPass
  BY <1>11, BeginPassDoes, Fields, SMT DEF PassInv
<1>12. CASE ReadFiles
  BY <1>12, ReadFilesDoes, SMT DEF PassInv
<1>13. CASE EndPass
  BY <1>13, EndPassDoes, SMT DEF PassInv
<1>14. CASE Retry
  BY <1>14, RetryDoes, SMT DEF PassInv
<1>15. CASE Publish
  BY <1>15, PublishDoes, SMT DEF PassInv, Commits
<1>16. CASE PublishUnknown
  BY <1>16, PublishUnknownDoes, SMT DEF PassInv, Commits
<1>17. CASE FailJob \/ EndJob
  BY <1>17, JobEnds, SMT DEF PassInv
<1>18. CASE StartQuery
  BY <1>18, StartQueryDoes, SMT DEF PassInv
<1>19. CASE EndQuery
  <2>1. query'.pass = 0 /\ UNCHANGED <<row, att, slot, passes, job>>
    BY <1>19, EndQueryDoes, Zenon
  <2>2. job.stage = "ready" => job.inst \in Instances
    BY JobInst, Zenon
  <2>3. job.stage = "ready" => view'[job.inst] = view[job.inst]
    BY <1>19, EndQueryDoes, <2>2, Zenon DEF Drops
  <2> QED BY <2>1, <2>3, PassFrame, Zenon
<1>20. CASE (\E l \in Leases : Detach(l)) \/ Sweep
  BY <1>20, LeaveDoes, SMT DEF PassInv, SlotStays, JobStays
<1>21. CASE RetireRow
  BY <1>21, RetireRowDoes, SMT DEF PassInv
<1>22. CASE DrainBegin
  BY <1>22, DrainBeginDoes, SMT DEF PassInv
<1>23. CASE DrainEnd
  <2>1. slot'.current.pass = 0 /\ UNCHANGED <<row, att, query, passes, job>>
    BY <1>23, DrainEndDoes, Blanks, Zenon
  <2>2. job.stage = "ready" => job.inst \in Instances
    BY JobInst, Zenon
  <2>3. job.stage = "ready" => view'[job.inst] = view[job.inst]
    BY <1>23, DrainEndDoes, <2>2, Zenon DEF Drops
  <2> QED BY <2>1, <2>3, PassFrame, Zenon
<1>24. CASE Remove
  BY <1>24, RemoveDoes, Blanks, SMT DEF PassInv, Empty
<1>25. CASE Restart
  BY <1>25, RestartDoes, Fields, Blanks, SMT DEF PassInv, Empty
<1>26. CASE UNCHANGED vars
  BY <1>26, SMT DEF PassInv, vars
<1> QED
  BY <1>1, <1>2, <1>3, <1>4, <1>5, <1>6, <1>7, <1>8, <1>9, <1>10, <1>11, <1>12, <1>13,
     <1>14, <1>15, <1>16, <1>17, <1>18, <1>19, <1>20, <1>21, <1>22, <1>23, <1>24, <1>25,
     <1>26, Zenon DEF Next, Work

\* Nothing makes up for an attachment that was overtaken.
LEMMA OvertakenStays ==
  ASSUME [Next]_vars
  PROVE  overtaken => overtaken'
BY Zenon DEF Next, Work, Change, Invalidate, AttachRead, Detach, AttachSave, AttachInstall,
   AttachFail, StartAttach, StartReconcile, StartMigrate, BeginWork, Make, ReadInput, BeginPass,
   ReadFiles, EndPass, Retry, Publish, PublishUnknown, Commit, FailJob, EndJob, StartQuery,
   EndQuery, RetireRow, DrainBegin, DrainEnd, Sweep, Remove, Restart, vars

\* Steps that begin nothing and take no instance from the told.
LEMMA ToldFrame ==
  ASSUME ToldInv, slot'.current.inst = slot.current.inst, slot'.preparing = slot.preparing,
         Preparing' => Preparing /\ job'.inst = job.inst,
         row'.active => row.active, slot'.draining => slot.draining
  PROVE  ToldInv'
BY Zenon DEF ToldInv, Told

\* The view a job prepares is told, or its row is retired.
LEMMA ToldStep ==
  ASSUME TypeOK, RowInv, HolderInv, ToldInv, ~ overtaken', [Next]_vars
  PROVE  ToldInv'
<1>1. CASE \E f \in Files : Change(f)
  <2>1. PICK f \in Files : Change(f)
    BY <1>1
  <2> QED BY <2>1, ChangeDoes, ToldFrame, Zenon DEF Preparing
<1>2. CASE \E f \in Files : Invalidate(f)
  <2>1. PICK f \in Files : Invalidate(f)
    BY <1>2
  <2> QED BY <2>1, InvalidateDoes, ToldFrame, Zenon DEF Preparing
<1>3. CASE \E l \in Leases : AttachRead(l)
  <2>1. PICK l \in Leases : AttachRead(l)
    BY <1>3
  <2> QED BY <2>1, AttachReadDoes, ToldFrame, Zenon DEF Preparing
<1>4. CASE AttachSave
  <2>1. slot' = slot /\ job' = job /\ (slot.installed => row.active)
    BY <1>4, AttachSaveDoes, Zenon
  <2>2. CASE slot.installed
    BY <2>1, <2>2, ToldFrame, Zenon DEF Preparing
  <2>3. CASE ~ slot.installed
    <3>1. ~ Working /\ ~ slot.draining
      BY <2>3, Zenon DEF HolderInv
    <3>2. ~ Preparing
      BY <3>1, Zenon DEF Working, Preparing
    <3> QED BY <2>1, <3>1, <3>2, Zenon DEF ToldInv, Preparing
  <2> QED BY <2>2, <2>3
<1>5. CASE AttachInstall
  <2>1. UNCHANGED row /\ job' = job /\ (~ slot.installed => slot'.draining = FALSE)
    BY <1>5, AttachInstallDoes, Zenon DEF Installs
  <2>2. CASE slot.installed
    <3>1. slot'.current.inst = slot.current.inst /\ slot'.preparing = slot.preparing
          /\ slot'.draining = slot.draining
      BY <1>5, AttachInstallDoes, <2>2, Zenon DEF Installs
    <3> QED BY <1>5, AttachInstallDoes, <2>1, <3>1, ToldFrame, Zenon DEF Preparing
  <2>3. CASE ~ slot.installed
    <3>1. ~ Working
      BY <2>3, Zenon DEF HolderInv
    <3>2. ~ Preparing'
      BY <1>5, AttachInstallDoes, <3>1, Zenon DEF Working, Preparing
    <3> QED BY <2>1, <2>3, <3>2, Zenon DEF ToldInv
  <2> QED BY <2>2, <2>3
<1>6. CASE AttachFail
  BY <1>6, AttachFailDoes, ToldFrame, Zenon DEF Preparing, SlotStays, JobStays
<1>7. CASE StartAttach \/ StartReconcile \/ StartMigrate
  <2>1. UNCHANGED row /\ job'.stage = "claim" /\ (~ slot.installed => slot'.draining = FALSE)
    BY <1>7, StartDoes, Zenon DEF Installs
  <2>2. CASE slot.installed
    <3>1. slot'.current.inst = slot.current.inst /\ slot'.preparing = slot.preparing
          /\ slot'.draining = slot.draining
      BY <1>7, StartDoes, <2>2, Zenon DEF Installs
    <3> QED BY <1>7, StartDoes, <2>1, <3>1, ToldFrame, Zenon DEF Preparing
  <2>3. CASE ~ slot.installed
    <3>1. ~ Working
      BY <2>3, Zenon DEF HolderInv
    <3>2. ~ Preparing'
      BY <1>7, StartDoes, <3>1, Zenon DEF Working, Preparing
    <3> QED BY <2>1, <2>3, <3>2, Zenon DEF ToldInv
  <2> QED BY <2>2, <2>3
<1>8. CASE BeginWork
  BY <1>8, BeginWorkDoes, Blanks, SMT DEF ToldInv, Told, Preparing, Installs, Commits,
     Drops, SlotStays, JobStays, Empty, checkout
<1>9. CASE Make
  BY <1>9, MakeDoes, Blanks, SMT DEF ToldInv, Told, Preparing, Installs, Commits, Drops,
     SlotStays, JobStays, Empty, checkout
<1>10. CASE ReadInput
  BY <1>10, ReadInputDoes, ToldFrame, Zenon DEF Preparing, SlotStays, JobStays
<1>11. CASE BeginPass
  BY <1>11, BeginPassDoes, ToldFrame, Zenon DEF Preparing, SlotStays, JobStays
<1>12. CASE ReadFiles
  BY <1>12, ReadFilesDoes, ToldFrame, Zenon DEF Preparing, SlotStays, JobStays
<1>13. CASE EndPass
  BY <1>13, EndPassDoes, ToldFrame, Zenon DEF Preparing, SlotStays, JobStays
<1>14. CASE Retry
  BY <1>14, RetryDoes, ToldFrame, Zenon DEF Preparing, SlotStays, JobStays
<1>15. CASE Publish
  <2>1. Commits /\ job'.stage = "done"
    BY <1>15, PublishDoes, Zenon DEF Commits
  <2>2. ~ Preparing' /\ slot'.draining = slot.draining
    BY <2>1, Zenon DEF Preparing, Commits
  <2>3. row.active
    <3>1. ~ overtaken /\ Counted # {}
      BY <2>1, Zenon DEF Commits
    <3> QED BY <3>1, Zenon DEF RowInv, LeasedIsActive
  <2> QED BY <2>2, <2>3, Zenon DEF ToldInv
<1>16. CASE PublishUnknown
  <2>1. Commits /\ job'.stage = "done"
    BY <1>16, PublishUnknownDoes, Zenon DEF Commits
  <2>2. ~ Preparing' /\ slot'.draining = slot.draining
    BY <2>1, Zenon DEF Preparing, Commits
  <2>3. row.active
    <3>1. ~ overtaken /\ Counted # {}
      BY <2>1, Zenon DEF Commits
    <3> QED BY <3>1, Zenon DEF RowInv, LeasedIsActive
  <2> QED BY <2>2, <2>3, Zenon DEF ToldInv
<1>17. CASE FailJob \/ EndJob
  BY <1>17, JobEnds, Blanks, SMT DEF ToldInv, Told, Preparing, Installs, Commits, Drops,
     SlotStays, JobStays, Empty, checkout
<1>18. CASE StartQuery
  BY <1>18, StartQueryDoes, ToldFrame, Zenon DEF Preparing, SlotStays, JobStays
<1>19. CASE EndQuery
  BY <1>19, EndQueryDoes, ToldFrame, Zenon DEF Preparing, SlotStays, JobStays
<1>20. CASE (\E l \in Leases : Detach(l)) \/ Sweep
  BY <1>20, LeaveDoes, ToldFrame, Zenon DEF Preparing, SlotStays, JobStays
<1>21. CASE RetireRow
  BY <1>21, RetireRowDoes, ToldFrame, Zenon DEF Preparing, SlotStays, JobStays
<1>22. CASE DrainBegin
  <2>1. ~ row'.active
    BY <1>22, DrainBeginDoes, Zenon
  <2> QED BY <2>1, Zenon DEF ToldInv
<1>23. CASE DrainEnd
  <2>1. slot.draining /\ row' = row /\ slot'.draining = FALSE
    BY <1>23, DrainEndDoes, Zenon
  <2> QED BY <2>1, Zenon DEF ToldInv
<1>24. CASE Remove
  <2>1. slot'.draining = FALSE /\ ~ Working /\ job' = job
    BY <1>24, RemoveDoes, Zenon DEF Empty
  <2>2. ~ Preparing'
    BY <2>1, Zenon DEF Working, Preparing
  <2> QED BY <2>1, <2>2, Zenon DEF ToldInv
<1>25. CASE Restart
  <2>1. slot'.draining = FALSE /\ job'.stage = "idle"
    BY <1>25, RestartDoes, Zenon DEF Empty
  <2>2. ~ Preparing'
    BY <2>1, Zenon DEF Preparing
  <2> QED BY <2>1, <2>2, Zenon DEF ToldInv
<1>26. CASE UNCHANGED vars
  BY <1>26, ToldFrame, Zenon DEF Preparing, vars
<1> QED
  BY <1>1, <1>2, <1>3, <1>4, <1>5, <1>6, <1>7, <1>8, <1>9, <1>10, <1>11, <1>12, <1>13,
     <1>14, <1>15, <1>16, <1>17, <1>18, <1>19, <1>20, <1>21, <1>22, <1>23, <1>24, <1>25,
     <1>26, Zenon DEF Next, Work

\* The stages in which a job has its input epoch.
HasInput == job.stage \in {"begin", "read", "end", "ready"}

\* Steps that read no epoch and publish nothing.
LEMMA InputFrame ==
  ASSUME TypeOK, InputInv, slot'.installed = slot.installed,
         slot'.epoch \in {slot.epoch, slot.epoch + 1}, row'.input = row.input,
         att'.stage # "idle" => att'.stage = att.stage /\ att'.row.input = att.row.input,
         HasInput' => HasInput /\ job'.input = job.input,
         slot'.current.inst # NoView =>
           slot.current.inst # NoView /\ slot'.current.input = slot.current.input,
         query' # NoQuery => query' = query
  PROVE  InputInv'
BY Fields, SMT DEF InputInv, HasInput

\* No input epoch is later than the slot's.
LEMMA InputStep ==
  ASSUME TypeOK, RowInv, HolderInv, InputInv, ~ overtaken', [Next]_vars
  PROVE  InputInv'
<1>1. CASE \E f \in Files : Change(f)
  <2>1. PICK f \in Files : Change(f)
    BY <1>1
  <2> QED BY <2>1, ChangeDoes, InputFrame, Zenon DEF HasInput
<1>2. CASE \E f \in Files : Invalidate(f)
  <2>1. PICK f \in Files : Invalidate(f)
    BY <1>2
  <2> QED BY <2>1, InvalidateDoes, InputFrame, Zenon DEF HasInput
<1>3. CASE \E l \in Leases : AttachRead(l)
  <2>1. PICK l \in Leases : AttachRead(l)
    BY <1>3
  <2>2. row'.input = row.input /\ UNCHANGED <<slot, job, query>>
        /\ (att'.stage = "idle" \/ (att'.stage = "read" /\ att'.row.input \in {0, row.input}))
    BY <2>1, AttachReadDoes, Zenon
  <2> QED BY <2>2, Fields, SMT DEF InputInv
<1>4. CASE AttachSave
  BY <1>4, AttachSaveDoes, Fields, Blanks, SMT DEF InputInv, HolderInv, Working,
     Installs, Commits, Drops, Empty, checkout
<1>5. CASE AttachInstall
  <2>1. att.stage = "saved" /\ att'.stage = "idle" /\ UNCHANGED <<row, job, query>>
    BY <1>5, AttachInstallDoes, Blanks, Zenon
  <2>2. CASE slot.installed
    <3>1. /\ slot'.installed /\ slot'.epoch = slot.epoch
          /\ \/ slot'.current = slot.current
             \/ slot'.current.input = att.row.input
      BY <1>5, AttachInstallDoes, <2>2, Zenon
    <3>2. slot'.current.inst = slot.current.inst
      BY <1>5, AttachInstallDoes, <2>2, Zenon
    <3> QED BY <2>1, <2>2, <3>1, <3>2, Fields, SMT DEF InputInv
  <2>3. CASE ~ slot.installed
    <3>1. ~ Working /\ query = NoQuery
      BY <2>3, Zenon DEF HolderInv
    <3>2. slot'.epoch = att.row.input /\ slot'.current.inst = NoView
      BY <1>5, AttachInstallDoes, <2>3, Blanks, Zenon DEF Installs
    <3>3. ~ HasInput
      BY <3>1, Zenon DEF Working, HasInput
    <3> QED BY <2>1, <2>3, <3>1, <3>2, <3>3, Fields, SMT DEF InputInv, HasInput
  <2> QED BY <2>2, <2>3
<1>6. CASE AttachFail
  BY <1>6, AttachFailDoes, Blanks, InputFrame, Zenon DEF HasInput, SlotStays, JobStays
<1>7. CASE StartAttach \/ StartReconcile \/ StartMigrate
  <2>1. Installs(row.input) /\ job'.stage = "claim" /\ UNCHANGED <<row, att, query>>
    BY <1>7, StartDoes, Zenon
  <2>2. CASE slot.installed
    BY <2>1, <2>2, InputFrame, Zenon DEF Installs, HasInput
  <2>3. CASE ~ slot.installed
    <3>1. query = NoQuery
      BY <2>3, Zenon DEF HolderInv
    <3>2. slot'.installed /\ slot'.epoch = row.input /\ slot'.current.inst = NoView
      BY <2>1, <2>3, Blanks, Zenon DEF Installs
    <3> QED BY <2>1, <3>1, <3>2, Fields, SMT DEF InputInv
  <2> QED BY <2>2, <2>3
<1>8. CASE BeginWork
  BY <1>8, BeginWorkDoes, Blanks, InputFrame, Zenon DEF HasInput, SlotStays, JobStays
<1>9. CASE Make
  BY <1>9, MakeDoes, Blanks, InputFrame, Zenon DEF HasInput, SlotStays, JobStays
<1>10. CASE ReadInput
  BY <1>10, ReadInputDoes, Fields, Blanks, SMT DEF InputInv, HolderInv, Working,
     Installs, Commits, Drops, Empty, checkout
<1>11. CASE BeginPass
  BY <1>11, BeginPassDoes, Blanks, InputFrame, Zenon DEF HasInput, SlotStays, JobStays
<1>12. CASE ReadFiles
  BY <1>12, ReadFilesDoes, Blanks, InputFrame, Zenon DEF HasInput, SlotStays, JobStays
<1>13. CASE EndPass
  BY <1>13, EndPassDoes, Blanks, InputFrame, Zenon DEF HasInput, SlotStays, JobStays
<1>14. CASE Retry
  BY <1>14, RetryDoes, Blanks, InputFrame, Zenon DEF HasInput, SlotStays, JobStays
<1>15. CASE Publish
  BY <1>15, PublishDoes, Fields, Blanks, SMT DEF InputInv, HolderInv, Working, Installs,
     Commits, Drops, Empty, checkout
<1>16. CASE PublishUnknown
  BY <1>16, PublishUnknownDoes, Fields, Blanks, SMT DEF InputInv, HolderInv, Working,
     Installs, Commits, Drops, Empty, checkout
<1>17. CASE FailJob \/ EndJob
  BY <1>17, JobEnds, Blanks, InputFrame, Zenon DEF HasInput, SlotStays, JobStays
<1>18. CASE StartQuery
  BY <1>18, StartQueryDoes, Fields, Blanks, SMT DEF InputInv, HolderInv, Working,
     Installs, Commits, Drops, Empty, checkout
<1>19. CASE EndQuery
  BY <1>19, EndQueryDoes, Blanks, InputFrame, Zenon DEF HasInput, SlotStays, JobStays
<1>20. CASE (\E l \in Leases : Detach(l)) \/ Sweep
  BY <1>20, LeaveDoes, Blanks, InputFrame, Zenon DEF HasInput, SlotStays, JobStays
<1>21. CASE RetireRow
  BY <1>21, RetireRowDoes, Blanks, InputFrame, Zenon DEF HasInput, SlotStays, JobStays
<1>22. CASE DrainBegin
  BY <1>22, DrainBeginDoes, Blanks, InputFrame, Zenon DEF HasInput, SlotStays, JobStays
<1>23. CASE DrainEnd
  BY <1>23, DrainEndDoes, Blanks, InputFrame, Zenon DEF HasInput, SlotStays, JobStays
<1>24. CASE Remove
  <2>1. /\ slot'.installed = FALSE /\ slot'.current.inst = NoView /\ ~ Working
        /\ query = NoQuery /\ att.stage = "idle" /\ UNCHANGED <<row, job, query, att>>
    BY <1>24, RemoveDoes, Blanks, Zenon DEF Empty
  <2>2. ~ HasInput'
    BY <2>1, Zenon DEF Working, HasInput
  <2> QED BY <2>1, <2>2, Zenon DEF InputInv, HasInput
<1>25. CASE Restart
  <2>1. /\ slot'.installed = FALSE /\ slot'.current.inst = NoView
        /\ job'.stage = "idle" /\ query' = NoQuery /\ att'.stage = "idle"
    BY <1>25, RestartDoes, Blanks, Zenon DEF Empty
  <2>2. ~ HasInput'
    BY <2>1, Zenon DEF HasInput
  <2> QED BY <2>1, <2>2, Zenon DEF InputInv, HasInput
<1>26. CASE UNCHANGED vars
  BY <1>26, InputFrame, Zenon DEF HasInput, vars
<1> QED
  BY <1>1, <1>2, <1>3, <1>4, <1>5, <1>6, <1>7, <1>8, <1>9, <1>10, <1>11, <1>12, <1>13,
     <1>14, <1>15, <1>16, <1>17, <1>18, <1>19, <1>20, <1>21, <1>22, <1>23, <1>24, <1>25,
     <1>26, Zenon DEF Next, Work

\* The instance that is served.
LEMMA CurrentInst ==
  ASSUME TypeOK, slot.current.inst # NoView
  PROVE  slot.current.inst \in Instances
<1>1. slot.current.inst \in {NoView} \cup Instances
  BY Fields, Zenon DEF Published
<1> QED BY <1>1, Zenon

\* Steps that publish nothing and leave the publication that is served.
LEMMA GateFrame ==
  ASSUME GateInv, UNCHANGED eventual, row'.version = row.version, row'.pass = row.pass,
         att'.stage = "saved" => att' = att,
         slot'.current.inst # NoView =>
           slot'.current = slot.current /\ slot'.epoch = slot.epoch
           /\ view'[slot.current.inst].pass = view[slot.current.inst].pass
  PROVE  GateInv'
<1> SUFFICES ASSUME slot'.current.inst # NoView PROVE GateInv'
  BY Zenon DEF GateInv
<1>1. /\ slot'.current = slot.current /\ slot'.epoch = slot.epoch
      /\ view'[slot'.current.inst].pass = view[slot.current.inst].pass
  BY Zenon
<1>2. Authoritative' = Authoritative
  BY <1>1, Zenon DEF Authoritative
<1> QED BY <1>1, <1>2, Zenon DEF GateInv

\* An epoch that has moved on since every publication closes the gate.
LEMMA GateShuts ==
  ASSUME TypeOK, InputInv, slot.installed, slot'.epoch = slot.epoch + 1,
         slot'.current = slot.current, att' = att
  PROVE  GateInv'
<1>1. att.stage = "saved" => att.row.input <= slot.epoch
  BY Fields, SMT DEF InputInv
<1>2. slot.current.inst # NoView => slot.current.input <= slot.epoch
  BY Zenon DEF InputInv
<1>3. \A n \in Nat : n <= slot.epoch => n # slot'.epoch
  BY Fields, SMT
<1>4. slot.current.inst # NoView => slot'.current.input # slot'.epoch
  BY <1>2, <1>3, Fields, Zenon
<1>5. att'.stage = "saved" => att'.row.input # slot'.epoch
  BY <1>1, <1>3, Fields, Zenon
<1> QED BY <1>4, <1>5, Zenon DEF GateInv

\* The publication whose gate is open is the catalog's.
LEMMA GateStep ==
  ASSUME TypeOK, RowInv, HolderInv, PassInv, InputInv, GateInv, ~ overtaken', [Next]_vars
  PROVE  GateInv'
<1>1. CASE \E f \in Files : Change(f)
  <2>1. PICK f \in Files : Change(f)
    BY <1>1
  <2> QED BY <2>1, ChangeDoes, GateFrame, Zenon
<1>2. CASE \E f \in Files : Invalidate(f)
  <2>1. PICK f \in Files : Invalidate(f)
    BY <1>2
  <2> QED BY <2>1, InvalidateDoes, GateShuts, Zenon
<1>3. CASE \E l \in Leases : AttachRead(l)
  <2>1. PICK l \in Leases : AttachRead(l)
    BY <1>3
  <2>2. att'.stage = "read" \/ att'.stage = "idle"
    BY <2>1, AttachReadDoes, Zenon
  <2>3. row'.version = row.version /\ row'.pass = row.pass /\ UNCHANGED <<eventual, slot, view>>
    BY <2>1, AttachReadDoes, Zenon DEF checkout
  <2>4. att'.stage # "saved"
    BY <2>2, Zenon
  <2> QED BY <2>3, <2>4, GateFrame, Zenon
<1>4. CASE AttachSave
  <2>1. /\ row'.version = att.row.version /\ row'.pass = att.row.pass /\ att'.row = att.row
        /\ slot.installed => row = att.row
        /\ UNCHANGED <<eventual, slot, view>>
    BY <1>4, AttachSaveDoes, Zenon DEF checkout
  <2>2. slot.current.inst # NoView => row'.version = row.version /\ row'.pass = row.pass
    BY <2>1, Zenon DEF HolderInv
  <2>3. slot.current.inst # NoView => Authoritative' = Authoritative
    BY <2>1, <2>2, Zenon DEF Authoritative
  <2> QED BY <2>1, <2>3, Zenon DEF GateInv
<1>5. CASE AttachInstall
  <2>1. att.stage = "saved" /\ att'.stage = "idle" /\ UNCHANGED <<eventual, row, view>>
    BY <1>5, AttachInstallDoes, Blanks, Zenon DEF checkout
  <2>2. att'.stage # "saved"
    BY <2>1, Zenon
  <2>3. CASE ~ slot.installed
    <3>1. slot'.current.inst = NoView
      BY <1>5, AttachInstallDoes, <2>3, Blanks, Zenon DEF Installs
    <3> QED BY <2>2, <3>1, Zenon DEF GateInv
  <2>4. CASE slot.installed /\ slot'.current = slot.current
    <3>1. slot'.epoch = slot.epoch
      BY <1>5, AttachInstallDoes, <2>4, Zenon
    <3> QED BY <2>1, <2>2, <2>4, <3>1, GateFrame, Zenon
  <2>5. CASE slot.installed /\ slot'.current # slot.current
    <3>1. /\ slot'.epoch = slot.epoch /\ slot'.current.inst = slot.current.inst
          /\ slot.current.inst # NoView /\ slot.current.version = att.row.version
          /\ slot'.current.version = att.row.version /\ slot'.current.pass = att.row.pass
          /\ slot'.current.input = att.row.input
      BY <1>5, AttachInstallDoes, <2>5, Zenon
    <3>2. ASSUME ~ eventual, view[slot.current.inst].pass = att.row.pass,
                 att.row.input = slot.epoch
          PROVE  att.row.version = row.version /\ att.row.pass = row.pass
      BY <2>1, <3>1, <3>2, Zenon DEF GateInv
    <3>3. ASSUME ~ eventual, view[slot.current.inst].pass = att.row.pass,
                 att.row.input = slot.epoch
          PROVE  Authoritative'
      BY <2>1, <3>1, <3>2, <3>3, Zenon DEF Authoritative
    <3> QED BY <2>1, <2>2, <3>1, <3>3, Zenon DEF GateInv
  <2> QED BY <2>3, <2>4, <2>5
<1>6. CASE AttachFail
  BY <1>6, AttachFailDoes, Blanks, GateFrame, Zenon DEF SlotStays, checkout
<1>7. CASE StartAttach \/ StartReconcile \/ StartMigrate
  <2>1. Installs(row.input) /\ UNCHANGED <<eventual, row, att, view>>
    BY <1>7, StartDoes, Zenon DEF checkout
  <2>2. slot'.current.inst # NoView => slot' = slot
    BY <2>1, Blanks, Zenon DEF Installs
  <2> QED BY <2>1, <2>2, GateFrame, Zenon
<1>8. CASE BeginWork
  BY <1>8, BeginWorkDoes, Blanks, GateFrame, Zenon DEF SlotStays, checkout
<1>9. CASE Make
  BY <1>9, MakeDoes, Blanks, GateFrame, Zenon DEF SlotStays, checkout
<1>10. CASE ReadInput
  BY <1>10, ReadInputDoes, Blanks, GateFrame, Zenon DEF SlotStays, checkout
<1>11. CASE BeginPass
  <2>1. /\ UNCHANGED <<eventual, slot, row, att>> /\ job.inst \in Instances
        /\ view'[job.inst] = [view[job.inst] EXCEPT !.ready = FALSE, !.moved = FALSE,
                                !.owed = IF eventual THEN {} ELSE Files]
        /\ \A i \in Instances \ {job.inst} : view'[i] = view[i]
    BY <1>11, BeginPassDoes, Zenon DEF checkout
  <2>2. view'[job.inst].pass = view[job.inst].pass
    <3>1. view[job.inst] \in View
      BY <2>1, Fields, Zenon
    <3> QED BY <2>1, <3>1, Zenon DEF View
  <2>3. slot.current.inst # NoView =>
          view'[slot.current.inst].pass = view[slot.current.inst].pass
    BY <2>1, <2>2, CurrentInst, Zenon
  <2> QED BY <2>1, <2>3, GateFrame, Zenon
<1>12. CASE ReadFiles
  BY <1>12, ReadFilesDoes, Blanks, GateFrame, Zenon DEF SlotStays, checkout
<1>13. CASE EndPass
  <2>1. /\ UNCHANGED <<eventual, slot, row, att>> /\ job.stage = "end"
        /\ \/ view' = view
           \/ /\ view'[job.inst].pass = job.pass
              /\ \A i \in Instances \ {job.inst} : view'[i] = view[i]
    BY <1>13, EndPassDoes, Zenon DEF checkout
  <2>2. CASE slot.current.inst = NoView \/ job.inst # slot.current.inst \/ view' = view
    BY <2>1, <2>2, CurrentInst, GateFrame, Zenon
  <2>3. CASE view'[slot.current.inst].pass = job.pass
    <3>1. slot.current.pass < job.pass /\ att.row.pass < job.pass
      BY <2>1, Fields, SMT DEF PassInv
    <3>2. slot.current.pass # job.pass /\ att.row.pass # job.pass
      BY <3>1, Fields, SMT
    <3>3. view'[slot'.current.inst].pass # slot'.current.pass
          /\ view'[slot'.current.inst].pass # att'.row.pass
      BY <2>1, <2>3, <3>2, Zenon
    <3> QED BY <3>3, Zenon DEF GateInv
  <2> QED BY <2>1, <2>2, <2>3, Zenon
<1>14. CASE Retry
  BY <1>14, RetryDoes, Blanks, GateFrame, Zenon DEF SlotStays, checkout
<1>15. CASE Publish
  <2>1. /\ job.stage = "ready" /\ UNCHANGED <<eventual, att>> /\ job.inst \in Instances
        /\ row'.version = job.version /\ row'.pass = job.pass
    BY <1>15, PublishDoes, Zenon DEF Commits, checkout
  <2>2. /\ slot'.current.inst = job.inst /\ slot'.current.version = job.version
        /\ slot'.current.pass = job.pass
    <3>1. slot'.current = [inst |-> job.inst, version |-> job.version, pass |-> job.pass,
                           input |-> job.input]
      BY <1>15, PublishDoes, Zenon
    <3> QED BY <3>1, SMT
  <2>3. Authoritative'
    BY <2>1, <2>2, Zenon DEF Authoritative
  <2>4. view'[job.inst].pass = job.pass
    <3>1. view'[job.inst] = view[job.inst]
      BY <1>15, PublishDoes, <2>1, Zenon DEF Drops
    <3> QED BY <2>1, <3>1, Zenon DEF PassInv
  <2>5. att'.row.pass # job.pass
    BY <2>1, Fields, SMT DEF PassInv
  <2> QED BY <2>2, <2>3, <2>4, <2>5, Zenon DEF GateInv
<1>16. CASE PublishUnknown
  <2>1. slot.installed
    <3>1. Working
      BY <1>16, PublishUnknownDoes, Zenon DEF Commits, Working
    <3> QED BY <3>1, Zenon DEF HolderInv
  <2> QED BY <1>16, PublishUnknownDoes, <2>1, GateShuts, Zenon DEF Commits
<1>17. CASE FailJob \/ EndJob
  <2>1. /\ UNCHANGED <<eventual, row, att>> /\ slot'.current = slot.current
        /\ slot'.epoch = slot.epoch
    BY <1>17, JobEnds, Zenon DEF checkout
  <2>2. ASSUME slot.current.inst # NoView
        PROVE  view'[slot.current.inst].pass = view[slot.current.inst].pass
    <3>1. slot.current.inst \in Instances
      BY <2>2, CurrentInst, Zenon
    <3>2. CASE Drops(job.inst, {slot.current.inst, query.inst})
      BY <3>1, <3>2, Zenon DEF Drops
    <3>3. CASE view' = [view EXCEPT ![job.inst].owed = Files]
      <4>1. view[slot.current.inst] \in View /\ view \in [Instances -> View]
        BY <3>1, Fields, Zenon
      <4> QED BY <3>1, <3>3, <4>1, Zenon DEF View
    <3> QED BY <1>17, JobEnds, <3>2, <3>3, Zenon
  <2> QED BY <2>1, <2>2, GateFrame, Zenon
<1>18. CASE StartQuery
  BY <1>18, StartQueryDoes, Blanks, GateFrame, Zenon DEF SlotStays, checkout
<1>19. CASE EndQuery
  <2>1. UNCHANGED <<eventual, slot, row, att>>
        /\ Drops(query.inst, {slot.current.inst, job.inst})
    BY <1>19, EndQueryDoes, Zenon DEF checkout
  <2>2. slot.current.inst # NoView => view'[slot.current.inst] = view[slot.current.inst]
    BY <2>1, CurrentInst, Zenon DEF Drops
  <2> QED BY <2>1, <2>2, GateFrame, Zenon
<1>20. CASE (\E l \in Leases : Detach(l)) \/ Sweep
  BY <1>20, LeaveDoes, Blanks, GateFrame, Zenon DEF SlotStays, checkout
<1>21. CASE RetireRow
  BY <1>21, RetireRowDoes, Blanks, GateFrame, Zenon DEF SlotStays, checkout
<1>22. CASE DrainBegin
  BY <1>22, DrainBeginDoes, Blanks, GateFrame, Zenon DEF SlotStays, checkout
<1>23. CASE DrainEnd
  <2>1. slot'.current.inst = NoView
    BY <1>23, DrainEndDoes, Blanks, Zenon DEF Empty
  <2> QED BY <2>1, Zenon DEF GateInv
<1>24. CASE Remove
  <2>1. slot'.current.inst = NoView
    BY <1>24, RemoveDoes, Blanks, Zenon DEF Empty
  <2> QED BY <2>1, Zenon DEF GateInv
<1>25. CASE Restart
  <2>1. slot'.current.inst = NoView
    BY <1>25, RestartDoes, Blanks, Zenon DEF Empty
  <2> QED BY <2>1, Zenon DEF GateInv
<1>26. CASE UNCHANGED vars
  BY <1>26, GateFrame, Zenon DEF vars, checkout
<1> QED
  BY <1>1, <1>2, <1>3, <1>4, <1>5, <1>6, <1>7, <1>8, <1>9, <1>10, <1>11, <1>12, <1>13,
     <1>14, <1>15, <1>16, <1>17, <1>18, <1>19, <1>20, <1>21, <1>22, <1>23, <1>24, <1>25,
     <1>26, Zenon DEF Next, Work

\* What a step leaves alone an instance knows as before.
LEMMA KnowsStays ==
  ASSUME NEW i, Knows(i), UNCHANGED <<eventual, heard>>, view'[i] = view[i],
         Reading(i)' <=> Reading(i),
         Reading(i) => job'.stage = job.stage /\ job'.take = job.take /\ job'.seen = job.seen
  PROVE  Knows(i)'
<1>1. CASE Reading(i)
  <2>1. \A f \in Files : News(i, f) => News(i, f)'
    BY Zenon DEF News
  <2>2. \A f \in Files : Gets(i, f) => Gets(i, f)'
    BY <1>1, Zenon DEF Gets
  <2> QED BY <1>1, <2>1, <2>2, Zenon DEF Knows
<1>2. CASE ~ Reading(i)
  BY <1>2, Zenon DEF Knows
<1> QED BY <1>1, <1>2

\* Who is told is an instance.
LEMMA ToldInst ==
  ASSUME TypeOK
  PROVE  /\ Told \subseteq Instances
         /\ \A i \in Told : view[i] \in View
         /\ Told \subseteq {slot.current.inst, job.inst}
<1>1. Told \subseteq Instances
  BY Fields, Zenon DEF Told, Slot, Published
<1>2. Told \subseteq {slot.current.inst, job.inst}
  BY Zenon DEF Told, TypeOK
<1> QED BY <1>1, <1>2, Fields, Zenon

\* Steps that tell nobody else, announce nothing and take no turn of a pass.
LEMMA KnownFrame ==
  ASSUME KnownInv, UNCHANGED <<eventual, heard>>, \A f \in Files : heard[f] <= disk'[f],
         Told' \subseteq Told,
         \A i \in Told' : /\ view'[i] = view[i]
                          /\ Reading(i)' <=> Reading(i)
                          /\ Reading(i) => job'.stage = job.stage /\ job'.take = job.take
                                           /\ job'.seen = job.seen
  PROVE  KnownInv'
<1>1. ASSUME NEW i \in Told' PROVE Knows(i)'
  <2>1. Knows(i)
    BY Zenon DEF KnownInv
  <2> QED BY <2>1, KnowsStays, Zenon
<1> QED BY <1>1, Zenon DEF KnownInv

\* An announced change is owed, or makes the pass be told it moved.
LEMMA InvalidateKnows ==
  ASSUME TypeOK, NEW f \in Files, Invalidate(f), NEW i \in Told, Knows(i)
  PROVE  Knows(i)'
<1>1. view'[i] = [view[i] EXCEPT !.owed = @ \cup {f}, !.ready = FALSE, !.moved = TRUE]
      /\ UNCHANGED <<eventual, job>> /\ heard' = [heard EXCEPT ![f] = disk[f]]
  BY InvalidateDoes, Zenon
<1>2. view[i] \in View
  BY ToldInst, Zenon
<1>3. /\ view'[i].owed = view[i].owed \cup {f} /\ view'[i].ready = FALSE
      /\ view'[i].moved = TRUE /\ view'[i].content = view[i].content
  BY <1>1, <1>2, Zenon DEF View
<1>4. \A g \in Files : g = f \/ heard'[g] = heard[g]
  <2>1. heard \in [Files -> 0 .. MaxChanges]
    BY Zenon DEF TypeOK, Changes
  <2> QED BY <1>1, <2>1, Zenon
<1>5. Reading(i)' <=> Reading(i)
  BY <1>1, Zenon DEF Reading
<1>6. view'[i].ready => view'[i].owed = {} /\ ~ Reading(i)'
  BY <1>3, Zenon
<1>7. ~ Reading(i)' => \A g \in Files : g \in view'[i].owed \/ view'[i].content[g] >= heard'[g]
  <2>1. ASSUME ~ Reading(i), NEW g \in Files
        PROVE  g \in view'[i].owed \/ view'[i].content[g] >= heard'[g]
    <3>1. CASE g = f
      BY <1>3, <3>1, Zenon
    <3>2. CASE g # f
      BY <1>3, <1>4, <2>1, <3>2, Zenon DEF Knows
    <3> QED BY <3>1, <3>2
  <2> QED BY <1>5, <2>1, Zenon
<1>8. Reading(i)' => \A g \in Files : News(i, g)' \/ Gets(i, g)'
  <2>1. SUFFICES ASSUME Reading(i), NEW g \in Files
                 PROVE  News(i, g)' \/ Gets(i, g)'
    BY <1>5, Zenon
  <2>2. CASE ~ eventual \/ g = f
    BY <1>1, <1>3, <2>2, Zenon DEF News
  <2>3. CASE eventual /\ g # f
    <3>1. News(i, g) \/ Gets(i, g)
      BY <2>1, Zenon DEF Knows
    <3>2. News(i, g) => News(i, g)'
      BY <1>1, <1>3, <2>3, Zenon DEF News
    <3>3. Gets(i, g) => Gets(i, g)'
      BY <1>1, <1>3, <1>4, <2>3, Zenon DEF Gets
    <3> QED BY <3>1, <3>2, <3>3
  <2> QED BY <2>2, <2>3, Zenon
<1>9. Reading(i)' => IF eventual' THEN view'[i].moved \/ view'[i].owed = {}
                     ELSE view'[i].owed = Files
  <2>1. ASSUME Reading(i), ~ eventual PROVE view'[i].owed = Files
    <3>1. view[i].owed = Files
      BY <2>1, Zenon DEF Knows
    <3> QED BY <1>3, <3>1, Zenon
  <2> QED BY <1>1, <1>3, <1>5, <2>1, Zenon
<1> QED BY <1>6, <1>7, <1>8, <1>9, Zenon DEF Knows

\* A pass takes what is owed.
LEMMA BeginPassKnows ==
  ASSUME TypeOK, BeginPass, NEW i \in Instances, i = job.inst, Knows(i)
  PROVE  Knows(i)'
<1>1. /\ job.stage = "begin" /\ job'.stage = "read" /\ job'.inst = i
      /\ view[i].owed \subseteq job'.take
      /\ view'[i] = [view[i] EXCEPT !.ready = FALSE, !.moved = FALSE,
                              !.owed = IF eventual THEN {} ELSE Files]
      /\ UNCHANGED <<eventual, heard>>
  BY BeginPassDoes, Zenon DEF checkout
<1>2. view[i] \in View
  BY Fields, Zenon
<1>3. /\ view'[i].ready = FALSE /\ view'[i].content = view[i].content
      /\ view'[i].owed = IF eventual THEN {} ELSE Files
  BY <1>1, <1>2, Zenon DEF View
<1>4. ~ Reading(i) /\ Reading(i)'
  BY <1>1, Zenon DEF Reading
<1>5. \A f \in Files : Gets(i, f)'
  <2> TAKE f \in Files
  <2>1. CASE f \in job'.take
    <3>1. job'.stage # "end"
      BY <1>1, Zenon
    <3> QED BY <2>1, <3>1, Zenon DEF Gets
  <2>2. CASE f \notin job'.take
    <3>1. view[i].content[f] >= heard[f]
      BY <1>1, <1>4, <2>2, Zenon DEF Knows
    <3> QED BY <1>1, <1>3, <2>2, <3>1, Zenon DEF Gets
  <2> QED BY <2>1, <2>2
<1>6. IF eventual' THEN view'[i].moved \/ view'[i].owed = {} ELSE view'[i].owed = Files
  BY <1>1, <1>3, Zenon
<1> QED BY <1>3, <1>4, <1>5, <1>6, Zenon DEF Knows

\* What it reads has every change that was announced by then.
LEMMA ReadFilesKnows ==
  ASSUME TypeOK, KnownInv, ReadFiles, NEW i \in Instances, i = job.inst, Knows(i)
  PROVE  Knows(i)'
<1>1. /\ job.stage = "read" /\ job'.stage = "end" /\ job'.inst = i
      /\ job'.take = job.take /\ job'.seen = disk /\ UNCHANGED <<eventual, heard, view>>
  BY ReadFilesDoes, Zenon DEF checkout
<1>2. Reading(i) /\ Reading(i)'
  BY <1>1, Zenon DEF Reading
<1>3. \A f \in Files : disk[f] >= heard[f]
  <2>1. \A f \in Files : disk[f] \in Int /\ heard[f] \in Int
    BY BoundsAssumption, SMT DEF TypeOK, Changes
  <2>2. \A f \in Files : heard[f] <= disk[f]
    BY Zenon DEF KnownInv
  <2> QED BY <2>1, <2>2, SMT
<1>4. \A f \in Files : News(i, f)' \/ Gets(i, f)'
  <2> TAKE f \in Files
  <2>1. News(i, f) => News(i, f)'
    BY <1>1, Zenon DEF News
  <2>2. Gets(i, f) => Gets(i, f)'
    BY <1>1, <1>3, Zenon DEF Gets
  <2> QED BY <1>2, <2>1, <2>2, Zenon DEF Knows
<1> QED BY <1>1, <1>2, <1>4, Zenon DEF Knows

\* What a pass publishes is what it got; a rejected one leaves all of it due.
LEMMA EndPassKnows ==
  ASSUME TypeOK, EndPass, NEW i \in Instances, i = job.inst, Knows(i)
  PROVE  Knows(i)'
<1>1. /\ job.stage = "end" /\ job'.inst = i /\ UNCHANGED <<eventual, heard>>
      /\ \/ ~ eventual /\ view[i].moved /\ job'.stage = "input" /\ view' = view
         \/ /\ eventual \/ ~ view[i].moved
            /\ job'.stage = "ready"
            /\ view'[i].content = [f \in Files |-> IF f \in job.take THEN job.seen[f]
                                                  ELSE view[i].content[f]]
            /\ view'[i].ready = ~ view[i].moved
            /\ view'[i].owed = IF eventual THEN view[i].owed ELSE {}
  BY EndPassDoes, Zenon DEF checkout
<1>2. Reading(i) /\ ~ Reading(i)'
  BY <1>1, Zenon DEF Reading
<1>3. CASE ~ eventual /\ job'.stage = "input" /\ view' = view
  <2>1. view[i].owed = Files /\ ~ view[i].ready
    BY <1>2, <1>3, Zenon DEF Knows
  <2> QED BY <1>2, <1>3, <2>1, Zenon DEF Knows
<1>4. CASE /\ eventual \/ ~ view[i].moved
           /\ view'[i].content = [f \in Files |-> IF f \in job.take THEN job.seen[f]
                                                 ELSE view[i].content[f]]
           /\ view'[i].ready = ~ view[i].moved
           /\ view'[i].owed = IF eventual THEN view[i].owed ELSE {}
  <2>1. view'[i].ready => view'[i].owed = {}
    BY <1>2, <1>4, Zenon DEF Knows
  <2>2. \A f \in Files : f \in view'[i].owed \/ view'[i].content[f] >= heard'[f]
    <3> TAKE f \in Files
    <3>1. CASE News(i, f)
      BY <1>4, <3>1, Zenon DEF News
    <3>2. CASE Gets(i, f)
      BY <1>1, <1>4, <3>2, Zenon DEF Gets
    <3> QED BY <1>2, <3>1, <3>2, Zenon DEF Knows
  <2> QED BY <1>2, <2>1, <2>2, Zenon DEF Knows
<1> QED BY <1>1, <1>3, <1>4, Zenon

\* A pass that is interrupted in place leaves everything due.
LEMMA FailKnows ==
  ASSUME TypeOK, UNCHANGED <<eventual, heard>>, NEW i \in Instances, Reading(i), Knows(i),
         view' = [view EXCEPT ![i].owed = Files], job'.stage = "idle"
  PROVE  Knows(i)'
<1>1. view[i] \in View /\ view \in [Instances -> View]
  BY Fields, Zenon
<1>2. view'[i].owed = Files /\ view'[i].ready = view[i].ready
  BY <1>1, Zenon DEF View
<1>3. ~ Reading(i)' /\ ~ view'[i].ready
  <2>1. ~ Reading(i)'
    BY Zenon DEF Reading
  <2>2. ~ view[i].ready
    BY Zenon DEF Knows
  <2> QED BY <1>2, <2>1, <2>2, Zenon
<1> QED BY <1>2, <1>3, Zenon DEF Knows

\* A view in preparation owes everything.
LEMMA NewKnows ==
  ASSUME NEW i, view'[i] = NewView, ~ Reading(i)'
  PROVE  Knows(i)'
<1>1. view'[i].ready = FALSE /\ view'[i].owed = Files
  BY Blanks, Zenon
<1> QED BY <1>1, Zenon DEF Knows

\* Steps that leave the views and the turns of the pass alone.
LEMMA KnownQuiet ==
  ASSUME KnownInv, UNCHANGED <<eventual, disk, heard, view>>, Told' \subseteq Told,
         JobStays \/ (job.stage \notin {"read", "end"} /\ job'.stage \notin {"read", "end"})
  PROVE  KnownInv'
<1>1. \A i : (Reading(i)' <=> Reading(i))
             /\ (Reading(i) => job'.stage = job.stage /\ job'.take = job.take
                               /\ job'.seen = job.seen)
  BY Zenon DEF Reading, JobStays
<1>2. \A f \in Files : heard[f] <= disk'[f]
  BY Zenon DEF KnownInv
<1> QED BY <1>1, <1>2, KnownFrame, Zenon

\* Of the views that are told, only a job's own changes with its steps.
LEMMA KnownByPass ==
  ASSUME TypeOK, KnownInv, UNCHANGED <<eventual, disk, heard, slot>>,
         job.inst \in Instances, job'.inst = job.inst,
         \A i \in Instances \ {job.inst} : view'[i] = view[i],
         Knows(job.inst) => \A i \in Instances : i = job.inst => Knows(i)'
  PROVE  KnownInv'
<1>1. Told' = Told
  BY Zenon DEF Told
<1>2. ASSUME NEW i \in Told PROVE Knows(i)'
  <2>1. i \in Instances /\ Knows(i)
    BY ToldInst, Zenon DEF KnownInv
  <2>2. CASE i = job.inst
    BY <2>1, <2>2, Zenon
  <2>3. CASE i # job.inst
    <3>1. ~ Reading(i) /\ ~ Reading(i)' /\ view'[i] = view[i]
      BY <2>1, <2>3, Zenon DEF Reading
    <3> QED BY <2>1, <3>1, KnowsStays, Zenon
  <2> QED BY <2>2, <2>3
<1> QED BY <1>1, <1>2, Zenon DEF KnownInv

\* What is told has, or owes, every change that was announced.
LEMMA KnownStep ==
  ASSUME TypeOK, RowInv, HolderInv, ToldInv, KnownInv, ~ overtaken', [Next]_vars
  PROVE  KnownInv'
<1>1. CASE \E f \in Files : Change(f)
  <2>1. PICK f \in Files : Change(f)
    BY <1>1
  <2>2. \A g \in Files : heard[g] <= disk'[g]
    <3>1. \A g \in Files : heard[g] \in Int
      BY BoundsAssumption, SMT DEF TypeOK, Changes
    <3>2. \A g \in Files : heard[g] <= disk[g]
      BY Zenon DEF KnownInv
    <3>3. \A g \in Files : disk[g] <= disk'[g] /\ disk[g] \in Int /\ disk'[g] \in Int
      BY <2>1, ChangeDoes, Zenon
    <3> QED BY <3>1, <3>2, <3>3, SMT
  <2>3. UNCHANGED <<eventual, heard, slot, view, job>>
    BY <2>1, ChangeDoes, Zenon
  <2>4. Told' = Told /\ \A i : Reading(i)' <=> Reading(i)
    BY <2>3, Zenon DEF Told, Reading
  <2> QED BY <2>2, <2>3, <2>4, KnownFrame, Zenon
<1>2. CASE \E f \in Files : Invalidate(f)
  <2>1. PICK f \in Files : Invalidate(f)
    BY <1>2
  <2>2. /\ slot'.current = slot.current /\ slot'.preparing = slot.preparing
        /\ heard' = [heard EXCEPT ![f] = disk[f]] /\ UNCHANGED <<eventual, disk>>
    BY <2>1, InvalidateDoes, Zenon
  <2>3. Told' = Told
    BY <2>2, Zenon DEF Told
  <2>4. \A i \in Told : Knows(i)'
    BY <2>1, InvalidateKnows, Zenon DEF KnownInv
  <2>5. \A g \in Files : heard'[g] <= disk[g]
    <3>1. heard \in [Files -> 0 .. MaxChanges] /\ disk[f] \in Int
      BY BoundsAssumption, SMT DEF TypeOK, Changes
    <3>2. \A g \in Files : heard[g] <= disk[g]
      BY Zenon DEF KnownInv
    <3> QED BY <2>2, <3>1, <3>2, SMT
  <2> QED BY <2>2, <2>3, <2>4, <2>5, Zenon DEF KnownInv
<1>3. CASE \E l \in Leases : AttachRead(l)
  <2>1. PICK l \in Leases : AttachRead(l)
    BY <1>3
  <2> QED BY <2>1, AttachReadDoes, KnownQuiet, Zenon DEF Told, JobStays, checkout
<1>4. CASE AttachSave
  BY <1>4, AttachSaveDoes, KnownQuiet, Zenon DEF Told, JobStays, SlotStays, checkout
<1>5. CASE AttachInstall
  <2>1. UNCHANGED <<eventual, disk, heard, view>>
        /\ (JobStays \/ (job.stage \notin {"read", "end"} /\ job'.stage \notin {"read", "end"}))
    BY <1>5, AttachInstallDoes, Zenon DEF checkout, JobStays
  <2>2. Told' \subseteq Told
    <3>1. CASE slot.installed
      <4>1. slot'.current.inst = slot.current.inst /\ slot'.preparing = slot.preparing
        BY <1>5, AttachInstallDoes, <3>1, Zenon DEF Installs
      <4> QED BY <4>1, Zenon DEF Told
    <3>2. CASE ~ slot.installed
      <4>1. slot'.current.inst = NoView /\ slot'.preparing = NoView
        BY <1>5, AttachInstallDoes, <3>2, Blanks, Zenon DEF Installs
      <4> QED BY <4>1, Zenon DEF Told
    <3> QED BY <3>1, <3>2
  <2> QED BY <2>1, <2>2, KnownQuiet, Zenon
<1>6. CASE AttachFail
  BY <1>6, AttachFailDoes, KnownQuiet, Zenon DEF Told, JobStays, SlotStays, checkout
<1>7. CASE StartAttach \/ StartReconcile \/ StartMigrate
  <2>1. UNCHANGED <<eventual, disk, heard, view>>
        /\ (JobStays \/ (job.stage \notin {"read", "end"} /\ job'.stage \notin {"read", "end"}))
    BY <1>7, StartDoes, Zenon DEF checkout, JobStays
  <2>2. Told' \subseteq Told
    <3>1. CASE slot.installed
      <4>1. slot'.current.inst = slot.current.inst /\ slot'.preparing = slot.preparing
        BY <1>7, StartDoes, <3>1, Zenon DEF Installs
      <4> QED BY <4>1, Zenon DEF Told
    <3>2. CASE ~ slot.installed
      <4>1. slot'.current.inst = NoView /\ slot'.preparing = NoView
        BY <1>7, StartDoes, <3>2, Blanks, Zenon DEF Installs
      <4> QED BY <4>1, Zenon DEF Told
    <3> QED BY <3>1, <3>2
  <2> QED BY <2>1, <2>2, KnownQuiet, Zenon
<1>8. CASE BeginWork
  BY <1>8, BeginWorkDoes, KnownQuiet, Zenon DEF Told, JobStays, SlotStays, checkout
<1>9. CASE Make
  <2>1. /\ job.stage = "make" /\ job.inst = NoView /\ slot.preparing = NoView
        /\ slot'.current = slot.current /\ UNCHANGED <<eventual, disk, heard, view>>
    BY <1>9, MakeDoes, Zenon DEF checkout
  <2>2. PICK i \in Instances \ {slot.current.inst, query.inst} :
          slot'.preparing = i /\ job'.stage = "input" /\ job'.inst = i
    BY <1>9, MakeDoes, Zenon
  <2>3. view[i] = NewView
    BY <2>1, <2>2, Blanks, Zenon DEF HolderInv
  <2>4. \A j : ~ Reading(j) /\ ~ Reading(j)'
    BY <2>1, <2>2, Zenon DEF Reading
  <2>5. ASSUME NEW j \in Told' PROVE Knows(j)'
    <3>1. CASE j = i
      BY <2>1, <2>3, <2>4, <3>1, NewKnows, Zenon
    <3>2. CASE j # i
      <4>1. j \in Told
        BY <2>1, <2>2, <3>2, Zenon DEF Told
      <4>2. Knows(j)
        BY <4>1, Zenon DEF KnownInv
      <4> QED BY <2>1, <2>4, <4>2, KnowsStays, Zenon
    <3> QED BY <3>1, <3>2
  <2> QED BY <2>1, <2>5, Zenon DEF KnownInv
<1>10. CASE ReadInput
  BY <1>10, ReadInputDoes, KnownQuiet, Zenon DEF Told, JobStays, SlotStays, checkout
<1>11. CASE BeginPass
  <2>1. /\ UNCHANGED <<eventual, disk, heard, slot>> /\ job.inst \in Instances
        /\ job'.inst = job.inst /\ \A i \in Instances \ {job.inst} : view'[i] = view[i]
    BY <1>11, BeginPassDoes, Zenon DEF checkout
  <2>2. Knows(job.inst) => \A i \in Instances : i = job.inst => Knows(i)'
    BY <1>11, BeginPassKnows, Zenon
  <2> QED BY <2>1, <2>2, KnownByPass, Zenon
<1>12. CASE ReadFiles
  <2>1. /\ UNCHANGED <<eventual, disk, heard, slot, view>> /\ job.stage = "read"
        /\ job'.inst = job.inst
    BY <1>12, ReadFilesDoes, Zenon DEF checkout
  <2>2. job.inst \in Instances
    BY <2>1, JobInst, Zenon
  <2>3. Knows(job.inst) => \A i \in Instances : i = job.inst => Knows(i)'
    BY <1>12, ReadFilesKnows, Zenon
  <2> QED BY <2>1, <2>2, <2>3, KnownByPass, Zenon
<1>13. CASE EndPass
  <2>1. /\ UNCHANGED <<eventual, disk, heard, slot>> /\ job.inst \in Instances
        /\ job'.inst = job.inst /\ \A i \in Instances \ {job.inst} : view'[i] = view[i]
    BY <1>13, EndPassDoes, Zenon DEF checkout
  <2>2. Knows(job.inst) => \A i \in Instances : i = job.inst => Knows(i)'
    BY <1>13, EndPassKnows, Zenon
  <2> QED BY <2>1, <2>2, KnownByPass, Zenon
<1>14. CASE Retry
  BY <1>14, RetryDoes, KnownQuiet, Zenon DEF Told, JobStays, SlotStays, checkout
<1>15. CASE Publish
  <2>1. /\ job.stage = "ready" /\ job.inst \in Instances /\ job'.stage = "done"
        /\ UNCHANGED <<eventual, disk, heard>> /\ slot'.preparing = NoView
        /\ Drops(slot.current.inst, {job.inst, query.inst}) /\ Counted # {}
    BY <1>15, PublishDoes, Zenon DEF Commits, checkout
  <2>2. slot'.current.inst = job.inst
    <3>1. slot'.current = [inst |-> job.inst, version |-> job.version, pass |-> job.pass,
                           input |-> job.input]
      BY <1>15, PublishDoes, Zenon
    <3> QED BY <3>1, SMT
  <2>3. job.inst \in Told
    <3>1. row.active
      BY <2>1, OvertakenStays, Zenon DEF RowInv, LeasedIsActive
    <3>2. Preparing
      BY <2>1, Zenon DEF Preparing
    <3> QED BY <3>1, <3>2, Zenon DEF ToldInv
  <2>4. Told' \subseteq {job.inst}
    BY <2>1, <2>2, Zenon DEF Told
  <2>5. view'[job.inst] = view[job.inst]
    BY <2>1, Zenon DEF Drops
  <2>6. \A i : ~ Reading(i) /\ ~ Reading(i)'
    BY <2>1, Zenon DEF Reading
  <2>7. \A f \in Files : heard[f] <= disk'[f]
    BY <2>1, Zenon DEF KnownInv
  <2>8. Told' \subseteq Told /\ \A i \in Told' : view'[i] = view[i]
    BY <2>3, <2>4, <2>5, Zenon
  <2> QED BY <2>1, <2>6, <2>7, <2>8, KnownFrame, Zenon
<1>16. CASE PublishUnknown
  <2>1. /\ job.stage = "ready" /\ job'.stage = "done"
        /\ UNCHANGED <<eventual, disk, heard, view>>
        /\ slot'.current = slot.current /\ slot'.preparing = slot.preparing
    BY <1>16, PublishUnknownDoes, Zenon DEF Commits, checkout
  <2>2. Told' = Told
    BY <2>1, Zenon DEF Told
  <2> QED BY <2>1, <2>2, KnownQuiet, Zenon
<1>17. CASE FailJob \/ EndJob
  <2>1. /\ job'.stage = "idle" /\ slot'.current = slot.current /\ slot'.preparing = NoView
        /\ UNCHANGED <<eventual, disk, heard>>
    BY <1>17, JobEnds, Zenon DEF checkout
  <2>2. Told' \subseteq {slot.current.inst} /\ Told' \subseteq Told
    BY <2>1, Zenon DEF Told
  <2>3. ASSUME NEW i \in Told' PROVE Knows(i)'
    <3>1. i = slot.current.inst /\ i \in Instances /\ Knows(i)
      BY <2>2, ToldInst, Zenon DEF KnownInv
    <3>2. CASE /\ job.inst = slot.current.inst /\ job.stage \in {"read", "end"}
               /\ view' = [view EXCEPT ![job.inst].owed = Files]
      <4>1. Reading(i) /\ view' = [view EXCEPT ![i].owed = Files]
        BY <3>1, <3>2, Zenon DEF Reading
      <4> QED BY <2>1, <3>1, <4>1, FailKnows, Zenon
    <3>3. CASE /\ job.inst # slot.current.inst \/ job.stage \notin {"read", "end"}
               /\ Drops(job.inst, {slot.current.inst, query.inst})
      <4>1. ~ Reading(i)
        BY <3>1, <3>3, Zenon DEF Reading
      <4>2. ~ Reading(i)'
        BY <2>1, Zenon DEF Reading
      <4>3. view'[i] = view[i]
        BY <3>1, <3>3, Zenon DEF Drops
      <4> QED BY <2>1, <3>1, <4>1, <4>2, <4>3, KnowsStays, Zenon
    <3> QED BY <1>17, JobEnds, <3>2, <3>3, Zenon
  <2> QED BY <2>1, <2>3, Zenon DEF KnownInv
<1>18. CASE StartQuery
  BY <1>18, StartQueryDoes, KnownQuiet, Zenon DEF Told, JobStays, SlotStays, checkout
<1>19. CASE EndQuery
  <2>1. /\ UNCHANGED <<eventual, disk, heard, slot, job>>
        /\ Drops(query.inst, {slot.current.inst, job.inst})
    BY <1>19, EndQueryDoes, Zenon DEF checkout
  <2>2. Told' = Told /\ \A i : Reading(i)' <=> Reading(i)
    BY <2>1, Zenon DEF Told, Reading
  <2>3. \A i \in Told : view'[i] = view[i]
    BY <2>1, ToldInst, Zenon DEF Drops
  <2>4. \A f \in Files : heard[f] <= disk'[f]
    BY <2>1, Zenon DEF KnownInv
  <2> QED BY <2>1, <2>2, <2>3, <2>4, KnownFrame, Zenon
<1>20. CASE (\E l \in Leases : Detach(l)) \/ Sweep
  BY <1>20, LeaveDoes, KnownQuiet, Zenon DEF Told, JobStays, SlotStays, checkout
<1>21. CASE RetireRow
  BY <1>21, RetireRowDoes, KnownQuiet, Zenon DEF Told, JobStays, SlotStays, checkout
<1>22. CASE DrainBegin
  BY <1>22, DrainBeginDoes, KnownQuiet, Zenon DEF Told, JobStays, SlotStays, checkout
<1>23. CASE DrainEnd
  <2>1. slot'.current.inst = NoView /\ slot'.preparing = NoView
        /\ UNCHANGED <<eventual, disk, heard>>
    BY <1>23, DrainEndDoes, Blanks, Zenon DEF Empty, checkout
  <2>2. Told' = {}
    BY <2>1, Zenon DEF Told
  <2> QED BY <2>1, <2>2, Zenon DEF KnownInv
<1>24. CASE Remove
  <2>1. slot'.current.inst = NoView /\ slot'.preparing = NoView
        /\ UNCHANGED <<eventual, disk, heard>>
    BY <1>24, RemoveDoes, Blanks, Zenon DEF Empty, checkout
  <2>2. Told' = {}
    BY <2>1, Zenon DEF Told
  <2> QED BY <2>1, <2>2, Zenon DEF KnownInv
<1>25. CASE Restart
  <2>1. slot'.current.inst = NoView /\ slot'.preparing = NoView
        /\ UNCHANGED <<eventual, disk, heard>>
    BY <1>25, RestartDoes, Blanks, Zenon DEF Empty, checkout
  <2>2. Told' = {}
    BY <2>1, Zenon DEF Told
  <2> QED BY <2>1, <2>2, Zenon DEF KnownInv
<1>26. CASE UNCHANGED vars
  BY <1>26, KnownQuiet, Zenon DEF Told, JobStays, vars, checkout
<1> QED
  BY <1>1, <1>2, <1>3, <1>4, <1>5, <1>6, <1>7, <1>8, <1>9, <1>10, <1>11, <1>12, <1>13,
     <1>14, <1>15, <1>16, <1>17, <1>18, <1>19, <1>20, <1>21, <1>22, <1>23, <1>24, <1>25,
     <1>26, Zenon DEF Next, Work

\* A ready view is up to date.
LEMMA ReadyKnows ==
  ASSUME NEW i, Knows(i), view[i].ready
  PROVE  UpToDate(i)
BY Zenon DEF Knows, UpToDate

\* Steps that leave the slot's epoch, what was announced, and what the view of a
\* query has published.
LEMMA QueryFrame ==
  ASSUME QueryInv, UNCHANGED eventual,
         query' # NoQuery =>
           /\ query' = query /\ slot'.epoch = slot.epoch /\ heard' = heard
           /\ view'[query.inst].ready => view[query.inst].ready
           /\ view'[query.inst].pass = view[query.inst].pass
           /\ view'[query.inst].content = view[query.inst].content
  PROVE  QueryInv'
<1> SUFFICES ASSUME query' # NoQuery, ~ eventual', Valid'
             PROVE  UpToDate(query.inst)'
  BY Zenon DEF QueryInv, UpToDate
<1>1. UpToDate(query.inst)
  BY Zenon DEF QueryInv, Valid, Current
<1> QED BY <1>1, Zenon DEF UpToDate

\* An epoch that has moved on since every query began fails them.
LEMMA QueryFails ==
  ASSUME TypeOK, InputInv, slot'.epoch = slot.epoch + 1, query' = query
  PROVE  QueryInv'
<1>1. query # NoQuery => query.epoch <= slot.epoch
  BY Zenon DEF InputInv
<1>2. query # NoQuery => slot'.epoch # query'.epoch
  BY <1>1, Fields, SMT
<1> QED BY <1>2, Zenon DEF QueryInv, Valid, Current

\* A query that validates has every change that was announced.
LEMMA QueryStep ==
  ASSUME TypeOK, RowInv, HolderInv, PassInv, InputInv, KnownInv, QueryInv, ~ overtaken',
         [Next]_vars
  PROVE  QueryInv'
<1>1. CASE \E f \in Files : Change(f)
  <2>1. PICK f \in Files : Change(f)
    BY <1>1
  <2> QED BY <2>1, ChangeDoes, QueryFrame, Zenon
<1>2. CASE \E f \in Files : Invalidate(f)
  <2>1. PICK f \in Files : Invalidate(f)
    BY <1>2
  <2> QED BY <2>1, InvalidateDoes, QueryFails, Zenon
<1>3. CASE \E l \in Leases : AttachRead(l)
  <2>1. PICK l \in Leases : AttachRead(l)
    BY <1>3
  <2> QED BY <2>1, AttachReadDoes, QueryFrame, Zenon DEF checkout
<1>4. CASE AttachSave
  BY <1>4, AttachSaveDoes, QueryFrame, Zenon DEF SlotStays, checkout
<1>5. CASE AttachInstall
  <2>1. UNCHANGED <<eventual, heard, query, view>>
    BY <1>5, AttachInstallDoes, Zenon DEF checkout
  <2>2. query # NoQuery => slot.installed
    BY Zenon DEF HolderInv
  <2>3. slot.installed => slot'.epoch = slot.epoch
    BY <1>5, AttachInstallDoes, Zenon DEF Installs
  <2> QED BY <2>1, <2>2, <2>3, QueryFrame, Zenon
<1>6. CASE AttachFail
  BY <1>6, AttachFailDoes, QueryFrame, Zenon DEF SlotStays, checkout
<1>7. CASE StartAttach \/ StartReconcile \/ StartMigrate
  <2>1. UNCHANGED <<eventual, heard, query, view>>
    BY <1>7, StartDoes, Zenon DEF checkout
  <2>2. query # NoQuery => slot.installed
    BY Zenon DEF HolderInv
  <2>3. slot.installed => slot'.epoch = slot.epoch
    BY <1>7, StartDoes, Zenon DEF Installs
  <2> QED BY <2>1, <2>2, <2>3, QueryFrame, Zenon
<1>8. CASE BeginWork
  BY <1>8, BeginWorkDoes, QueryFrame, Zenon DEF SlotStays, checkout
<1>9. CASE Make
  BY <1>9, MakeDoes, QueryFrame, Zenon DEF SlotStays, checkout
<1>10. CASE ReadInput
  BY <1>10, ReadInputDoes, QueryFrame, Zenon DEF SlotStays, checkout
<1>11. CASE BeginPass
  <2>1. /\ UNCHANGED <<eventual, heard, slot, query>> /\ job.inst \in Instances
        /\ view'[job.inst] = [view[job.inst] EXCEPT !.ready = FALSE, !.moved = FALSE,
                                !.owed = IF eventual THEN {} ELSE Files]
        /\ \A i \in Instances \ {job.inst} : view'[i] = view[i]
    BY <1>11, BeginPassDoes, Zenon DEF checkout
  <2>2. query # NoQuery => query.inst \in Instances
    BY Zenon DEF HolderInv
  <2>3. /\ view'[job.inst].ready = FALSE /\ view'[job.inst].pass = view[job.inst].pass
        /\ view'[job.inst].content = view[job.inst].content
    <3>1. view[job.inst] \in View
      BY <2>1, Fields, Zenon
    <3> QED BY <2>1, <3>1, Zenon DEF View
  <2> QED BY <2>1, <2>2, <2>3, QueryFrame, Zenon
<1>12. CASE ReadFiles
  BY <1>12, ReadFilesDoes, QueryFrame, Zenon DEF SlotStays, checkout
<1>13. CASE EndPass
  <2>1. /\ UNCHANGED <<eventual, heard, slot, query>> /\ job.stage = "end"
        /\ \/ view' = view
           \/ /\ view'[job.inst].pass = job.pass
              /\ \A i \in Instances \ {job.inst} : view'[i] = view[i]
    BY <1>13, EndPassDoes, Zenon DEF checkout
  <2>2. query # NoQuery => query.inst \in Instances
    BY Zenon DEF HolderInv
  <2>3. CASE query = NoQuery \/ job.inst # query.inst \/ view' = view
    BY <2>1, <2>2, <2>3, QueryFrame, Zenon
  <2>4. CASE view'[query.inst].pass = job.pass
    <3>1. query.pass # job.pass
      BY <2>1, Fields, SMT DEF PassInv
    <3>2. view'[query'.inst].pass # query'.pass
      BY <2>1, <2>4, <3>1, Zenon
    <3> QED BY <3>2, Zenon DEF QueryInv, Valid, Current
  <2> QED BY <2>1, <2>3, <2>4, Zenon
<1>14. CASE Retry
  BY <1>14, RetryDoes, QueryFrame, Zenon DEF SlotStays, checkout
<1>15. CASE Publish
  <2>1. /\ UNCHANGED <<eventual, heard, query>> /\ slot'.epoch = slot.epoch
        /\ Drops(slot.current.inst, {job.inst, query.inst})
    BY <1>15, PublishDoes, Zenon DEF Commits, checkout
  <2>2. query # NoQuery => view'[query.inst] = view[query.inst]
    BY <2>1, Zenon DEF HolderInv, Drops
  <2> QED BY <2>1, <2>2, QueryFrame, Zenon
<1>16. CASE PublishUnknown
  BY <1>16, PublishUnknownDoes, QueryFails, Zenon DEF Commits
<1>17. CASE FailJob \/ EndJob
  <2>1. UNCHANGED <<eventual, heard, query>> /\ slot'.epoch = slot.epoch
    BY <1>17, JobEnds, Zenon DEF checkout
  <2>2. ASSUME query # NoQuery
        PROVE  /\ view'[query.inst].ready = view[query.inst].ready
               /\ view'[query.inst].pass = view[query.inst].pass
               /\ view'[query.inst].content = view[query.inst].content
    <3>1. query.inst \in Instances
      BY <2>2, Zenon DEF HolderInv
    <3>2. CASE Drops(job.inst, {slot.current.inst, query.inst})
      BY <3>1, <3>2, Zenon DEF Drops
    <3>3. CASE view' = [view EXCEPT ![job.inst].owed = Files]
      <4>1. view[query.inst] \in View /\ view \in [Instances -> View]
        BY <3>1, Fields, Zenon
      <4> QED BY <3>1, <3>3, <4>1, Zenon DEF View
    <3> QED BY <1>17, JobEnds, <3>2, <3>3, Zenon
  <2> QED BY <2>1, <2>2, QueryFrame, Zenon
<1>18. CASE StartQuery
  <2>1. /\ Serving /\ query'.inst = slot.current.inst /\ slot.current.inst \in Instances
        /\ UNCHANGED <<eventual, heard, slot, view>>
    BY <1>18, StartQueryDoes, Zenon DEF checkout
  <2>2. ASSUME ~ eventual PROVE UpToDate(slot.current.inst)
    <3>1. view[slot.current.inst].ready
      BY <2>1, <2>2, Zenon DEF Serving, Current
    <3>2. slot.current.inst \in Told
      BY <2>1, Blanks, Zenon DEF Told
    <3> QED BY <3>1, <3>2, ReadyKnows, Zenon DEF KnownInv
  <2> QED BY <2>1, <2>2, Zenon DEF QueryInv, UpToDate
<1>19. CASE EndQuery
  <2>1. query' = NoQuery
    BY <1>19, EndQueryDoes, Zenon
  <2> QED BY <2>1, Zenon DEF QueryInv
<1>20. CASE (\E l \in Leases : Detach(l)) \/ Sweep
  BY <1>20, LeaveDoes, QueryFrame, Zenon DEF SlotStays, checkout
<1>21. CASE RetireRow
  BY <1>21, RetireRowDoes, QueryFrame, Zenon DEF SlotStays, checkout
<1>22. CASE DrainBegin
  BY <1>22, DrainBeginDoes, QueryFrame, Zenon DEF SlotStays, checkout
<1>23. CASE DrainEnd
  <2>1. /\ UNCHANGED <<eventual, heard, query>> /\ slot'.epoch = slot.epoch
        /\ Drops(slot.current.inst, {job.inst, query.inst})
    BY <1>23, DrainEndDoes, Zenon DEF Commits, checkout
  <2>2. query # NoQuery => view'[query.inst] = view[query.inst]
    BY <2>1, Zenon DEF HolderInv, Drops
  <2> QED BY <2>1, <2>2, QueryFrame, Zenon
<1>24. CASE Remove
  <2>1. query' = NoQuery
    BY <1>24, RemoveDoes, Zenon
  <2> QED BY <2>1, Zenon DEF QueryInv
<1>25. CASE Restart
  <2>1. query' = NoQuery
    BY <1>25, RestartDoes, Zenon
  <2> QED BY <2>1, Zenon DEF QueryInv
<1>26. CASE UNCHANGED vars
  BY <1>26, QueryFrame, Zenon DEF vars, checkout
<1> QED
  BY <1>1, <1>2, <1>3, <1>4, <1>5, <1>6, <1>7, <1>8, <1>9, <1>10, <1>11, <1>12, <1>13,
     <1>14, <1>15, <1>16, <1>17, <1>18, <1>19, <1>20, <1>21, <1>22, <1>23, <1>24, <1>25,
     <1>26, Zenon DEF Next, Work

-----------------------------------------------------------------------------
\* The initial states, and the theorems.

\* A daemon that has just started.
LEMMA InitFresh ==
  ASSUME Init
  PROVE  HolderInv /\ PassInv /\ FreshInv
<1>1. /\ disk = Never /\ heard = Never /\ slot = NoSlot /\ job = NoJob /\ att = NoAttachment
      /\ query = NoQuery /\ row = NoRow /\ passes = 0
      /\ view = [i \in Instances |-> NewView]
  BY Zenon DEF Init
<1>2. /\ slot.installed = FALSE /\ slot.current.inst = NoView /\ slot.current.pass = 0
      /\ slot.preparing = NoView /\ slot.draining = FALSE
      /\ job.stage = "idle" /\ job.inst = NoView /\ att.stage = "idle" /\ att.row.pass = 0
      /\ row.pass = 0 /\ row.input = 0 /\ query.pass = 0
  BY <1>1, SMT DEF NoSlot, Nothing, NoJob, NoAttachment, NoRow, NoQuery
<1>3. HolderInv
  BY <1>1, <1>2, Zenon DEF HolderInv, Working
<1>4. PassInv
  BY <1>1, <1>2, SMT DEF PassInv
<1>5. ToldInv
  BY <1>2, Zenon DEF ToldInv, Preparing
<1>6. InputInv
  BY <1>1, <1>2, Zenon DEF InputInv
<1>7. GateInv
  BY <1>2, Zenon DEF GateInv
<1>8. KnownInv
  <2>1. Told = {}
    BY <1>2, Zenon DEF Told
  <2>2. \A f \in Files : heard[f] <= disk[f]
    BY <1>1, SMT DEF Never
  <2> QED BY <2>1, <2>2, Zenon DEF KnownInv
<1>9. QueryInv
  BY <1>1, Zenon DEF QueryInv
<1> QED BY <1>3, <1>4, <1>5, <1>6, <1>7, <1>8, <1>9, Zenon DEF FreshInv

\* Each part holds after a step if all of them held before.
LEMMA FreshStep ==
  ASSUME TypeOK, RowInv, HolderInv, PassInv, FreshInv, [Next]_vars
  PROVE  HolderInv' /\ PassInv' /\ FreshInv'
<1>1. HolderInv' /\ PassInv'
  BY HolderStep, PassStep, Zenon
<1>2. ASSUME ~ overtaken'
      PROVE  ToldInv' /\ InputInv' /\ GateInv' /\ KnownInv' /\ QueryInv'
  <2>1. ToldInv /\ InputInv /\ GateInv /\ KnownInv /\ QueryInv
    BY <1>2, OvertakenStays, Zenon DEF FreshInv
  <2>2. ToldInv' /\ InputInv'
    BY <1>2, <2>1, ToldStep, InputStep, Zenon
  <2>3. GateInv'
    BY <1>2, <2>1, GateStep, Zenon
  <2>4. KnownInv'
    BY <1>2, <2>1, KnownStep, Zenon
  <2>5. QueryInv'
    BY <1>2, <2>1, QueryStep, Zenon
  <2> QED BY <2>2, <2>3, <2>4, <2>5
<1> QED BY <1>1, <1>2, Zenon DEF FreshInv

\* Who holds and is told of which instance, how passes and input epochs are
\* ordered, what the served publication is, and what each told view still owes.
THEOREM FreshInvariant == Spec => [](TypeOK /\ RowInv /\ HolderInv /\ PassInv /\ FreshInv)
<1> DEFINE I == TypeOK /\ RowInv /\ HolderInv /\ PassInv /\ FreshInv
<1>1. Init => I
  BY InitType, InitRow, InitFresh, Zenon
<1>2. I /\ [Next]_vars => I'
  <2> SUFFICES ASSUME I, [Next]_vars PROVE I'
    OBVIOUS
  <2>1. TypeOK' /\ RowInv'
    BY TypeStep, RowStep, Zenon
  <2>2. HolderInv' /\ PassInv' /\ FreshInv'
    BY FreshStep, Zenon
  <2> QED BY <2>1, <2>2, Zenon
<1> HIDE DEF I
<1>3. I => TypeOK /\ RowInv /\ HolderInv /\ PassInv /\ FreshInv
  BY Zenon DEF I
<1> QED BY <1>1, <1>2, <1>3, PTL DEF Spec

\* Unless an attachment was overtaken, a strict slot answers queries from the
\* publication of the catalog only, also after a commit whose outcome was not
\* known, a join of another publication (accept_current) or a pass in place.
THEOREM Authority == Spec => []ServesAuthoritative
<1>1. FreshInv => ServesAuthoritative
  <2> SUFFICES ASSUME FreshInv, ~ overtaken, ~ eventual, Serving PROVE Authoritative
    BY Zenon DEF ServesAuthoritative
  <2>1. /\ slot.current.inst # NoView /\ slot.epoch = slot.current.input
        /\ view[slot.current.inst].pass = slot.current.pass
    BY Zenon DEF Serving, Current
  <2> QED BY <2>1, Zenon DEF FreshInv, GateInv
<1> QED BY <1>1, FreshInvariant, PTL

\* Unless an attachment was overtaken, no announced change is lost on the way
\* from one published view to the next: a view that reports ready, and a strict
\* query that validates, have all of them (invalidate_inner, publish, validate).
THEOREM FreshReady == Spec => []ReadyIsFresh
<1>1. TypeOK /\ FreshInv => ReadyIsFresh
  <2> SUFFICES ASSUME TypeOK, FreshInv, ~ overtaken
               PROVE  /\ Ready => UpToDate(slot.current.inst)
                      /\ query # NoQuery /\ ~ eventual /\ Valid => UpToDate(query.inst)
    BY Zenon DEF ReadyIsFresh
  <2>1. ASSUME Ready PROVE UpToDate(slot.current.inst)
    <3>1. slot.current.inst \in Told /\ view[slot.current.inst].ready
      BY <2>1, Zenon DEF Ready, Current, Told
    <3> QED BY <3>1, ReadyKnows, Zenon DEF FreshInv, KnownInv
  <2>2. QueryInv
    BY Zenon DEF FreshInv
  <2> QED BY <2>1, <2>2, Zenon DEF QueryInv
<1> QED BY <1>1, FreshInvariant, PTL

=============================================================================
