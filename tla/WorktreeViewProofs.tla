------------------------ MODULE WorktreeViewProofs ------------------------
(***************************************************************************)
(* Theorems about WorktreeView, for every set of paths and contents, every *)
(* base, both kinds of view and every bound: the types, and then the       *)
(* readiness gate and the overlay (SafetyInv is inductive, and four of the *)
(* checked properties follow).                                             *)
(***************************************************************************)
EXTENDS WorktreeViewInvariant, TLAPS

USE DEF NoVersion, Version, Content, File, Entry

LEMMA FlagsStep == TypeOK /\ [Next]_vars => FlagsOK'
<1> SUFFICES ASSUME TypeOK, [Next]_vars PROVE FlagsOK'
  OBVIOUS
<1> USE DEF FlagsOK, TypeOK, state, pass, checkout, observers
<1>0. UNCHANGED control => FlagsOK'
  BY Zenon DEF control
<1>1. CASE UNCHANGED vars
  <2>1. UNCHANGED control
    BY <1>1 DEF vars
  <2> QED
    BY <2>1, <1>0
<1>2. CASE CheckoutNext
  <2>1. UNCHANGED control
    BY <1>2 DEF CheckoutNext, WriteFile, DeleteFile, RewriteSameStat,
                RestoreFile, OverflowNotices, ChangeFile
  <2> QED
    BY <2>1, <1>0
<1> USE DEF control
<1>3. CASE \E n \in notices : DeliverNotice(n)
  BY <1>3, Zenon DEF DeliverNotice, Invalidate, QueueAll, QueueTree, QueuePath
<1>4. CASE RequestRepair
  BY <1>4, Zenon DEF RequestRepair, Invalidate, QueueAll, QueueTree, QueuePath
<1>5. CASE \E p \in Paths : QueryMissesFile(p)
  BY <1>5, Zenon DEF QueryMissesFile, Invalidate, QueueAll, QueuePath
<1>6. CASE Refresh \/ \E reread \in BOOLEAN : RequestRefresh(reread)
  BY <1>6, Zenon DEF Refresh, RequestRefresh, BeginRefresh
<1>7. CASE \E reread \in BOOLEAN : BeginVerify(reread)
  BY <1>7, Zenon DEF BeginVerify
<1>8. CASE RefreshExhausted
  BY <1>8, Zenon DEF RefreshExhausted
<1>9. CASE PassNext
  <2>1. ASSUME NEW p \in Paths, WalkFile(p) \/ ReadFile(p) PROVE FlagsOK'
    BY <2>1, Zenon DEF WalkFile, ReadFile
  <2>2. CASE PlanReads
    BY <2>2, Zenon DEF PlanReads
  <2>3. CASE PublishRefresh \/ RepairVerify
    BY <2>3, Zenon DEF PublishRefresh, RepairVerify, PublishPrepared
  <2>4. CASE RejectRefresh \/ FailRefresh \/ TearRefresh
    BY <2>4, Zenon DEF RejectRefresh, FailRefresh, TearRefresh, AbandonRefresh, PutBack
  <2>5. CASE FinishVerify \/ RejectVerify \/ FailVerify \/ TearVerify
    BY <2>5, Zenon DEF FinishVerify, RejectVerify, FailVerify, TearVerify, AbandonVerify
  <2> QED
    BY <1>9, <2>1, <2>2, <2>3, <2>4, <2>5 DEF PassNext
<1>10. CASE BootstrapBase \/ SaveCheckpoint \/ Restart
  BY <1>10, Zenon DEF BootstrapBase, SaveCheckpoint, Restart
<1> QED
  BY <1>1, <1>2, <1>3, <1>4, <1>5, <1>6, <1>7, <1>8, <1>9, <1>10 DEF Next

LEMMA TypeInit == Init => TypeOK
<1> SUFFICES ASSUME Init PROVE TypeOK
  OBVIOUS
<1>1. disk \in [Paths -> File \cup {Missing}]
  BY SMT DEF Init
<1>2. /\ overlay \in [Paths -> Contents \cup {Clean, Deleted}]
      /\ evidence \in [Paths -> Entry \cup {Missing}]
      /\ prepared \in [Paths -> Entry \cup {Missing}]
      /\ restored_content \in [Paths -> Content]
      /\ walked \in [Paths -> Version]
  BY SMT DEF Init, FreshState, NoPass, NoPaths
<1>3. job \in Job
  BY SMT DEF Init, NoPass, IdleJob, Job
<1> QED
  <2>1. FlagsOK
    BY Zenon DEF Init, FreshControl, FlagsOK
  <2>2. DataOK
    BY <1>1, <1>2, <1>3, BoundAssumption, SMT
       DEF Init, DataOK, FreshControl, FreshState, NoPass
  <2> QED
    BY <2>1, <2>2 DEF TypeOK

LEMMA TypeCheckout == TypeOK /\ CheckoutNext => DataOK'
<1> SUFFICES ASSUME TypeOK, CheckoutNext PROVE DataOK'
  OBVIOUS
<1> USE DEF TypeOK, DataOK, Spend, Announced, ChangeFile, Modified, EntryChanged,
            DirNotice, RescanNotice, Notice, control, state, pass, observers
<1>1. ASSUME NEW p \in Paths, WriteFile(p) PROVE DataOK'
  BY <1>1, SMT DEF WriteFile
<1>2. ASSUME NEW p \in Paths, DeleteFile(p) PROVE DataOK'
  BY <1>2, SMT DEF DeleteFile
<1>3. ASSUME NEW p \in Paths, RewriteSameStat(p) PROVE DataOK'
  BY <1>3, SMT DEF RewriteSameStat
<1>4. ASSUME NEW p \in Paths, RestoreFile(p) PROVE DataOK'
  BY <1>4, SMT DEF RestoreFile
<1>5. CASE OverflowNotices
  BY <1>5, SMT DEF OverflowNotices
<1> QED
  BY <1>1, <1>2, <1>3, <1>4, <1>5 DEF CheckoutNext

LEMMA TypeControl ==
  TypeOK /\ (\/ \E n \in notices : DeliverNotice(n)
             \/ RequestRepair
             \/ \E p \in Paths : QueryMissesFile(p)
             \/ Refresh \/ RefreshExhausted
             \/ \E reread \in BOOLEAN : RequestRefresh(reread) \/ BeginVerify(reread))
  => DataOK'
<1> USE BoundAssumption DEF TypeOK, DataOK, Spend, Notice, Job, NoPaths, EpochAfter, Exhausted,
        checkout, state, pass, observers
<1>1. ASSUME TypeOK, NEW n \in notices, DeliverNotice(n) PROVE DataOK'
  <2>0. n.kind \notin {"rescan", "dir"} => n.path \in Paths
    BY <1>1, SMT
  <2>1. hints' \subseteq Paths
    <3>1. \/ UNCHANGED hints \/ QueueAll \/ QueueTree
          \/ n.path \in Paths /\ QueuePath(n.path)
      BY <1>1, <2>0, Zenon DEF DeliverNotice, Invalidate, control
    <3>2. \/ hints' = {} \/ hints' = hints
          \/ n.path \in Paths /\ hints' = hints \cup {n.path}
      BY <3>1, Zenon DEF QueueAll, QueueTree, QueuePath
    <3> QED
      BY <1>1, <3>2, SMT
  <2>2. epoch' \in Nat /\ epoch' <= MaxEpoch /\ published_epoch' = published_epoch
    BY <1>1, SMT DEF DeliverNotice, Invalidate, control
  <2> QED
    BY <1>1, <2>1, <2>2, SMT DEF DeliverNotice
<1>2. ASSUME TypeOK, RequestRepair PROVE DataOK'
  <2>1. hints' \subseteq Paths
    <3>1. hints' = {} \/ hints' = hints \/ \E p \in Paths : hints' = hints \cup {p}
      BY <1>2, Zenon DEF RequestRepair, Invalidate, QueueAll, QueueTree, QueuePath
    <3> QED
      BY <1>2, <3>1, SMT
  <2>2. epoch' \in Nat /\ epoch' <= MaxEpoch /\ published_epoch' = published_epoch
    BY <1>2, SMT DEF RequestRepair, Invalidate
  <2> QED
    BY <1>2, <2>1, <2>2, SMT DEF RequestRepair
<1>3. ASSUME TypeOK, NEW p \in Paths, QueryMissesFile(p) PROVE DataOK'
  BY <1>3, SMT DEF QueryMissesFile, Invalidate, QueueAll, QueuePath
<1>4. ASSUME TypeOK, Refresh PROVE DataOK'
  BY <1>4, SMT DEF Refresh, BeginRefresh, StartPass
<1>5. ASSUME TypeOK, RefreshExhausted PROVE DataOK'
  BY <1>5, SMT DEF RefreshExhausted
<1>6. ASSUME TypeOK, NEW reread \in BOOLEAN, RequestRefresh(reread) PROVE DataOK'
  BY <1>6, SMT DEF RequestRefresh, BeginRefresh, StartPass
<1>7. ASSUME TypeOK, NEW reread \in BOOLEAN, BeginVerify(reread) PROVE DataOK'
  <2>1. job' \in Job
    BY <1>7, Zenon DEF BeginVerify, StartPass
  <2> QED
    BY <1>7, <2>1, SMT DEF BeginVerify, StartPass, control
<1> QED
  BY <1>1, <1>2, <1>3, <1>4, <1>5, <1>6, <1>7

\* The state a publication installs is well typed.
LEMMA TypeReplace ==
  ASSUME TypeOK, ReplaceState
  PROVE  /\ overlay' \in [Paths -> Contents \cup {Clean, Deleted}]
         /\ evidence' \in [Paths -> Entry \cup {Missing}]
         /\ restored_content' \in [Paths -> Content]
<1>1. \A p \in Paths : OverlayAfter(p) \in Contents \cup {Clean, Deleted}
  BY SMT DEF OverlayAfter, ContentOf, TypeOK, DataOK
<1> QED
  BY <1>1, SMT DEF ReplaceState, NoPaths, TypeOK, DataOK

LEMMA TypePass == TypeOK /\ PassNext => DataOK'
<1> USE BoundAssumption DEF TypeOK, DataOK, Spend, Job, NoPaths, EpochAfter, Exhausted,
        checkout, control, state, observers
<1>1. ASSUME TypeOK, NEW p \in Paths, WalkFile(p) PROVE DataOK'
  BY <1>1, SMT DEF WalkFile, VersionOf
<1>2. ASSUME TypeOK, NEW p \in Paths, ReadFile(p) PROVE DataOK'
  BY <1>2, SMT DEF ReadFile, VersionOf
<1>3. ASSUME TypeOK, PlanReads PROVE DataOK'
  BY <1>3, SMT DEF PlanReads, Listed
<1>4. ASSUME TypeOK, PublishRefresh PROVE DataOK'
  BY <1>4, TypeReplace, SMT DEF PublishRefresh, PublishPrepared, EndPass, IdleJob
<1>5. ASSUME TypeOK, RejectRefresh PROVE DataOK'
  BY <1>5, SMT DEF RejectRefresh, AbandonRefresh, PutBack, EndPass, IdleJob
<1>6. ASSUME TypeOK, FailRefresh PROVE DataOK'
  BY <1>6, SMT DEF FailRefresh, AbandonRefresh, PutBack, EndPass, IdleJob, LostFile, Fault
<1>7. ASSUME TypeOK, TearRefresh PROVE DataOK'
  BY <1>7, TypeReplace, SMT DEF TearRefresh, Torn, AbandonRefresh, PutBack, EndPass, IdleJob
<1>8. ASSUME TypeOK, FinishVerify PROVE DataOK'
  BY <1>8, SMT DEF FinishVerify, EndPass, IdleJob
<1>9. ASSUME TypeOK, RepairVerify PROVE DataOK'
  BY <1>9, TypeReplace, SMT DEF RepairVerify, PublishPrepared, EndPass, IdleJob
<1>10. ASSUME TypeOK, RejectVerify PROVE DataOK'
  BY <1>10, SMT DEF RejectVerify, AbandonVerify, EndPass, IdleJob
<1>11. ASSUME TypeOK, FailVerify PROVE DataOK'
  <2>1. CASE AbandonVerify /\ epoch' = EpochAfter(1) /\ UNCHANGED state
             /\ (UNCHANGED budget \/ Fault)
    BY <1>11, <2>1, SMT DEF AbandonVerify, EndPass, IdleJob, Fault
  <2>2. CASE Fault /\ EndPass /\ UNCHANGED <<checkout, control, state, checkpoint, unannounced>>
    BY <1>11, <2>2, SMT DEF EndPass, IdleJob, Fault
  <2> QED
    BY <1>11, <2>1, <2>2, Zenon DEF FailVerify
<1>12. ASSUME TypeOK, TearVerify PROVE DataOK'
  BY <1>12, TypeReplace, SMT DEF TearVerify, Torn, AbandonVerify, EndPass, IdleJob
<1> QED
  BY <1>1, <1>2, <1>3, <1>4, <1>5, <1>6, <1>7, <1>8, <1>9, <1>10, <1>11, <1>12 DEF PassNext

LEMMA TypeRestart == TypeOK /\ (BootstrapBase \/ SaveCheckpoint \/ Restart) => DataOK'
<1> USE BaseAssumption, BoundAssumption, NoneAssumption
    DEF TypeOK, DataOK, Spend, Job, NoPaths, EndPass, IdleJob,
        checkout, control, state, pass, observers
<1>1. ASSUME TypeOK, BootstrapBase PROVE DataOK'
  BY <1>1, SMT DEF BootstrapBase
<1>2. ASSUME TypeOK, SaveCheckpoint PROVE DataOK'
  BY <1>2, SMT DEF SaveCheckpoint, ContentOf
<1>3. ASSUME TypeOK, Restart PROVE DataOK'
  BY <1>3, SMT DEF Restart
<1> QED
  BY <1>1, <1>2, <1>3

LEMMA TypeStep == TypeOK /\ [Next]_vars => TypeOK'
<1>1. TypeOK /\ UNCHANGED vars => DataOK'
  BY SMT DEF TypeOK, DataOK, vars, checkout, control, state, pass, observers
<1> QED
  BY <1>1, FlagsStep, TypeCheckout, TypeControl, TypePass, TypeRestart DEF Next, TypeOK

\* Every variable keeps its type: the counters are naturals, the gate's epoch
\* stays within its width, a pass works on paths of the checkout.
THEOREM TypeCorrect == Spec => []TypeOK
  BY TypeInit, TypeStep, PTL DEF Spec

-----------------------------------------------------------------------------
(* The gate. *)

LEMMA GateInit == Init => GateInv
  BY NoneAssumption, SMT DEF Init, FreshControl, NoPass, IdleJob, GateInv, ReadyOwesNothing,
     Refreshing, Running

LEMMA GateStutter == ASSUME GateInv, UNCHANGED <<control, stage, job>> PROVE GateInv'
  BY Zenon DEF GateInv, ReadyOwesNothing, Refreshing, Running, Exhausted, control

\* Whatever is queued, an invalidation closes the gate and leaves the running
\* pass behind the epoch, unless the counter is exhausted.
LEMMA InvalidateGate ==
  ASSUME TypeOK, GateInv, UNCHANGED <<pass, published_epoch, stale>>,
         ready' = FALSE, epoch' = EpochAfter(1)
  PROVE  GateInv'
<1>1. /\ epoch \in Nat /\ epoch' \in Nat /\ epoch <= epoch'
      /\ epoch = MaxEpoch => epoch' = MaxEpoch
      /\ epoch # MaxEpoch => epoch' = epoch + 1
      /\ published_epoch \in Nat \cup {None} /\ job.epoch \in Nat
  BY BoundAssumption, SMT DEF TypeOK, DataOK, EpochAfter, Job
<1> QED
  BY <1>1, BoundAssumption, SMT
     DEF GateInv, ReadyOwesNothing, Refreshing, Running, Exhausted, pass

LEMMA BeginRefreshGate ==
  ASSUME TypeOK, GateInv, NEW reread \in BOOLEAN, BeginRefresh(reread)
  PROVE  GateInv'
<1>1. /\ epoch \in Nat /\ epoch' = epoch + 1 /\ published_epoch' = published_epoch
      /\ published_epoch \in Nat \cup {None}
      /\ ready' = FALSE /\ stage' = "walk" /\ job'.verify = FALSE
      /\ job'.epoch = epoch + 1 /\ stale' = stale
  BY SMT DEF TypeOK, DataOK, BeginRefresh, StartPass
<1>2. IF StaleReads THEN full' = FALSE /\ hints' = {}
      ELSE full' = job'.full /\ hints' = job'.hints
  BY SMT DEF BeginRefresh, StartPass
<1>3. ~stale
  BY SMT DEF GateInv, BeginRefresh, Running, IdleJob
<1> QED
  BY <1>1, <1>2, <1>3, SMT DEF GateInv, ReadyOwesNothing, Refreshing, Running

LEMMA BeginVerifyGate ==
  ASSUME TypeOK, GateInv, NEW reread \in BOOLEAN, BeginVerify(reread)
  PROVE  GateInv'
<1>1. /\ UNCHANGED control /\ stage' = "walk"
      /\ job'.verify = TRUE /\ job'.epoch = epoch /\ job'.hints = {}
      /\ ~full /\ hints = {} /\ published_epoch = epoch /\ epoch \in Nat
  BY SMT DEF TypeOK, DataOK, BeginVerify, StartPass
<1> QED
  BY <1>1, NoneAssumption, SMT DEF GateInv, ReadyOwesNothing, Refreshing, Running, control

\* A publication opens the gate only for the epoch it publishes.
LEMMA PublishGate ==
  ASSUME TypeOK, GateInv, NEW e \in Nat, PublishPrepared(e, epoch = job.epoch),
         EndPass, epoch \in Nat, epoch' \in Nat, e <= epoch',
         epoch = job.epoch => e = epoch',
         epoch # job.epoch => ready' = FALSE
  PROVE  GateInv'
<1>1. /\ stage' = "idle" /\ job' = IdleJob /\ stale' = FALSE /\ published_epoch' = e
      /\ epoch = job.epoch => full' = FALSE /\ tree' = FALSE /\ hints' = {}
  BY SMT DEF PublishPrepared, EndPass
<1> QED
  BY <1>1, SMT DEF GateInv, ReadyOwesNothing, Refreshing, Running, IdleJob

LEMMA AbandonRefreshGate ==
  ASSUME TypeOK, GateInv, stage # "idle", ~job.verify, AbandonRefresh
  PROVE  GateInv'
<1>1. /\ ready' = FALSE /\ stage' = "idle" /\ job' = IdleJob /\ stale' = FALSE
      /\ UNCHANGED <<epoch, published_epoch>>
  <2>1. ready' = FALSE /\ stale' = FALSE
    BY Zenon DEF AbandonRefresh, PutBack, GateInv, Refreshing, Running, TypeOK, FlagsOK
  <2> QED
    BY <2>1, SMT DEF AbandonRefresh, EndPass
<1> QED
  BY <1>1, SMT DEF GateInv, ReadyOwesNothing, Refreshing, Running, IdleJob, TypeOK, DataOK

LEMMA AbandonVerifyGate ==
  ASSUME TypeOK, GateInv, AbandonVerify, epoch' \in Nat, epoch <= epoch'
  PROVE  GateInv'
<1>1. /\ ready' = FALSE /\ stage' = "idle" /\ job' = IdleJob /\ stale' = FALSE
      /\ published_epoch' = published_epoch
  BY SMT DEF AbandonVerify, EndPass
<1> QED
  BY <1>1, SMT DEF GateInv, ReadyOwesNothing, Refreshing, Running, IdleJob, TypeOK, DataOK

LEMMA GatePass == TypeOK /\ GateInv /\ PassNext => GateInv'
<1> SUFFICES ASSUME TypeOK, GateInv, PassNext PROVE GateInv'
  OBVIOUS
<1>0. /\ epoch \in Nat /\ job.epoch \in Nat
      /\ EpochAfter(1) \in Nat /\ epoch <= EpochAfter(1)
      /\ EpochAfter(2) \in Nat /\ epoch <= EpochAfter(2)
      /\ stage # "idle" => job.epoch <= epoch
  BY BoundAssumption, SMT DEF TypeOK, DataOK, Job, EpochAfter, GateInv, Running
<1>1. ASSUME NEW p \in Paths, WalkFile(p) \/ ReadFile(p) PROVE GateInv'
  <2>1. CASE WalkFile(p)
    BY <2>1, GateStutter DEF WalkFile
  <2>2. CASE ReadFile(p)
    <3>1. /\ UNCHANGED <<epoch, published_epoch, ready, full, tree, hints, stage, job>>
          /\ ~job.verify => ~stale'
      BY <2>2, SMT DEF ReadFile, GateInv
    <3> QED
      BY <3>1, SMT DEF GateInv, ReadyOwesNothing, Refreshing, Running, Exhausted
  <2> QED
    BY <1>1, <2>1, <2>2
<1>2. CASE PlanReads
  <2>1. /\ UNCHANGED <<epoch, published_epoch, ready, full, tree, hints, job>>
        /\ stage = "walk" /\ stage' = "read"
        /\ ~job.verify => ~stale'
    BY <1>2, SMT DEF PlanReads, GateInv
  <2> QED
    BY <2>1, SMT DEF GateInv, ReadyOwesNothing, Refreshing, Running, Exhausted
<1>3. CASE PublishRefresh
  <2>1. ~ready
    BY <1>3, SMT DEF PublishRefresh, PassRead, GateInv, Refreshing, Running
  <2>2. epoch # job.epoch => ready' = FALSE
    BY <1>3, <2>1, Zenon DEF PublishRefresh, TypeOK, FlagsOK
  <2>3. /\ PublishPrepared(job.epoch, epoch = job.epoch) /\ EndPass
        /\ epoch' = epoch /\ job.epoch <= epoch
    BY <1>3, <1>0, SMT DEF PublishRefresh, PassRead
  <2> QED
    BY <1>0, <2>2, <2>3, PublishGate
<1>4. CASE RejectRefresh \/ FailRefresh \/ TearRefresh
  <2>1. AbandonRefresh /\ ~job.verify /\ stage # "idle"
    BY <1>4, SMT DEF RejectRefresh, FailRefresh, TearRefresh, Torn, PassRead, LostFile, Fault
  <2> QED
    BY <2>1, AbandonRefreshGate
<1>5. CASE FinishVerify
  BY <1>5, SMT DEF FinishVerify, EndPass, control, GateInv, ReadyOwesNothing, Refreshing,
                   Running, IdleJob
<1>6. CASE RepairVerify
  <2>1. /\ PublishPrepared(epoch + 1, epoch = job.epoch) /\ EndPass
        /\ epoch' = epoch + 1
        /\ epoch # job.epoch => ready' = FALSE
    BY <1>6, SMT DEF RepairVerify
  <2>2. epoch + 1 \in Nat /\ epoch' \in Nat /\ epoch + 1 <= epoch' /\ epoch + 1 = epoch'
    BY <1>0, <2>1, SMT
  <2> QED
    BY <1>0, <2>1, <2>2, PublishGate, Zenon
<1>7. CASE RejectVerify
  BY <1>0, <1>7, AbandonVerifyGate DEF RejectVerify
<1>8. CASE FailVerify
  <2>1. CASE AbandonVerify /\ epoch' = EpochAfter(1)
    BY <1>0, <2>1, AbandonVerifyGate
  <2>2. CASE ~stale /\ EndPass /\ UNCHANGED control
    BY <2>2, SMT DEF EndPass, control, GateInv, ReadyOwesNothing, Refreshing, Running, IdleJob
  <2> QED
    BY <1>8, <2>1, <2>2, Zenon DEF FailVerify
<1>9. CASE TearVerify
  BY <1>0, <1>9, AbandonVerifyGate DEF TearVerify
<1> QED
  BY <1>1, <1>2, <1>3, <1>4, <1>5, <1>6, <1>7, <1>8, <1>9 DEF PassNext

LEMMA GateStep == TypeOK /\ GateInv /\ [Next]_vars => GateInv'
<1> SUFFICES ASSUME TypeOK, GateInv, [Next]_vars PROVE GateInv'
  OBVIOUS
<1>1. CASE UNCHANGED vars
  BY <1>1, GateStutter DEF vars, pass
<1>2. CASE CheckoutNext
  BY <1>2, GateStutter, Zenon DEF CheckoutNext, WriteFile, DeleteFile, RewriteSameStat,
     RestoreFile, OverflowNotices, ChangeFile, pass
<1>3. ASSUME NEW n \in notices, DeliverNotice(n) PROVE GateInv'
  <2>1. CASE Dropped(n)
    BY <1>3, <2>1, GateStutter DEF DeliverNotice, pass
  <2>2. CASE ~Dropped(n)
    BY <1>3, <2>2, InvalidateGate, Zenon DEF DeliverNotice, Invalidate, pass
  <2> QED
    BY <2>1, <2>2
<1>4. CASE RequestRepair
  BY <1>4, InvalidateGate, Zenon DEF RequestRepair, Invalidate
<1>5. ASSUME NEW p \in Paths, QueryMissesFile(p) PROVE GateInv'
  BY <1>5, InvalidateGate, Zenon DEF QueryMissesFile, Invalidate
<1>6. ASSUME NEW reread \in BOOLEAN, BeginRefresh(reread) PROVE GateInv'
  BY <1>6, BeginRefreshGate
<1>7. ASSUME NEW reread \in BOOLEAN, BeginVerify(reread) PROVE GateInv'
  BY <1>7, BeginVerifyGate
<1>8. CASE RefreshExhausted
  BY <1>8, SMT DEF RefreshExhausted, pass, GateInv, ReadyOwesNothing, Refreshing, Running
<1>9. CASE PassNext
  BY <1>9, GatePass
<1>10. CASE BootstrapBase
  BY <1>10, SMT DEF BootstrapBase, pass, GateInv, ReadyOwesNothing, Refreshing, Running,
                    TypeOK, DataOK
<1>11. CASE SaveCheckpoint
  BY <1>11, GateStutter DEF SaveCheckpoint, pass
<1>12. CASE Restart
  BY <1>12, SMT DEF Restart, EndPass, IdleJob, GateInv, ReadyOwesNothing, Refreshing, Running
<1> QED
  BY <1>1, <1>2, <1>3, <1>4, <1>5, <1>6, <1>7, <1>8, <1>9, <1>10, <1>11, <1>12
  DEF Next, Refresh, RequestRefresh

-----------------------------------------------------------------------------
(* The overlay. *)

LEMMA OverlayInit == Init => OverlayInv
  BY SMT DEF Init, FreshControl, FreshState, NoPaths, OverlayInv, OverlayMatchesEvidence,
             CheckpointIsExact, OverlayHas

LEMMA OverlayStutter ==
  ASSUME OverlayInv, UNCHANGED state, UNCHANGED checkpoint, UNCHANGED published_epoch
  PROVE  OverlayInv'
  BY SMT DEF OverlayInv, OverlayMatchesEvidence, CheckpointIsExact, OverlayHas, KnownContent,
         Visible, ContentOf, state

\* What a publication installs: queries see exactly the prepared content, and
\* every overlay entry is some file's recorded content.
LEMMA ReplaceIsExact ==
  ASSUME TypeOK, OverlayInv, PreparedInv, PassRead, ReplaceState, NEW p \in Paths
  PROVE  /\ evidence'[p] = prepared[p]
         /\ Visible(p)' = ContentOf(prepared[p])
         /\ OverlayHas(p)' => KnownContent(p)' = overlay'[p]
<1> DEFINE content == ContentOf(prepared[p])
<1>1. content \in Content /\ Base[p] \in Content
  BY BaseAssumption, SMT DEF TypeOK, DataOK, ContentOf
<1>2. content \notin {Base[p], NoContent} => p \in upserts \/ overlay[p] = content
  BY SMT DEF PreparedInv, Processed, PassRead
<1>3. /\ evidence'[p] = prepared[p]
      /\ overlay'[p] = IF content = Base[p] THEN Clean
                       ELSE IF content = NoContent THEN Deleted ELSE content
  BY <1>2, SMT DEF ReplaceState, OverlayAfter, TypeOK, DataOK
<1>4. Clean \notin Contents /\ Deleted \notin Contents /\ Clean # Deleted
  BY OverlayAssumption
<1>5. Visible(p)' = content
  BY <1>1, <1>3, <1>4, SMT DEF Visible
<1>6. OverlayHas(p)' => KnownContent(p)' = overlay'[p]
  <2> SUFFICES ASSUME OverlayHas(p)' PROVE KnownContent(p)' = overlay'[p]
    OBVIOUS
  <2>1. overlay'[p] = content /\ content # NoContent
    BY <1>3, SMT DEF OverlayHas
  <2>2. ContentOf(evidence[p])' = content
    BY <1>3, SMT DEF ContentOf
  <2> QED
    BY <2>1, <2>2, SMT DEF KnownContent
<1> QED
  BY <1>3, <1>5, <1>6

LEMMA ReplaceOverlay ==
  ASSUME TypeOK, OverlayInv, PreparedInv, PassRead, ReplaceState, UNCHANGED checkpoint
  PROVE  OverlayInv'
<1>1. ASSUME NEW p \in Paths
      PROVE  /\ Visible(p)' = ContentOf(evidence[p])'
             /\ OverlayHas(p)' => KnownContent(p)' = overlay'[p]
  BY ReplaceIsExact, SMT DEF ContentOf
<1>2. CheckpointIsExact'
  BY SMT DEF OverlayInv, CheckpointIsExact
<1> QED
  BY <1>1, <1>2 DEF OverlayInv, OverlayMatchesEvidence

LEMMA FinishVerifyOverlay ==
  ASSUME TypeOK, OverlayInv, PreparedInv, FinishVerify
  PROVE  OverlayInv'
<1>1. /\ UNCHANGED <<overlay, restored_content, checkpoint, published_epoch>>
      /\ evidence' = prepared
  BY SMT DEF FinishVerify, control
<1>2. ASSUME NEW p \in Paths
      PROVE  /\ ContentOf(evidence[p])' = ContentOf(evidence[p])
             /\ evidence'[p] = Missing <=> evidence[p] = Missing
             /\ Visible(p)' = Visible(p)
             /\ KnownContent(p)' = KnownContent(p)
             /\ OverlayHas(p)' <=> OverlayHas(p)
  <2>1. /\ ContentOf(prepared[p]) = ContentOf(evidence[p])
        /\ prepared[p] = Missing <=> evidence[p] = Missing
    BY SMT DEF FinishVerify, PassRead, PreparedInv, Processed
  <2>2. ContentOf(evidence[p])' = ContentOf(evidence[p])
    BY <1>1, <2>1 DEF ContentOf
  <2> QED
    BY <1>1, <2>1, <2>2 DEF Visible, KnownContent, OverlayHas
<1> QED
  BY <1>1, <1>2, SMT DEF OverlayInv, OverlayMatchesEvidence, CheckpointIsExact

LEMMA OverlayStep == TypeOK /\ OverlayInv /\ PreparedInv /\ [Next]_vars => OverlayInv'
<1> SUFFICES ASSUME TypeOK, OverlayInv, PreparedInv, [Next]_vars PROVE OverlayInv'
  OBVIOUS
<1>1. CASE UNCHANGED <<state, published_epoch, checkpoint>>
  BY <1>1, OverlayStutter
<1>2. CASE PassRead /\ ReplaceState /\ UNCHANGED checkpoint
  BY <1>2, ReplaceOverlay
<1>3. CASE FinishVerify
  BY <1>3, FinishVerifyOverlay
<1>4. CASE BootstrapBase
  <2>1. ASSUME NEW p \in Paths
        PROVE  /\ Visible(p)' = ContentOf(evidence[p])'
               /\ ~OverlayHas(p)'
    <3>1. [version |-> NoVersion, content |-> Base[p]] # Missing
      BY BaseAssumption, MissingAssumption, SMT
    <3> QED
      BY <1>4, <3>1, OverlayAssumption, SMT DEF BootstrapBase, Visible, ContentOf, OverlayHas
  <2>2. CheckpointIsExact'
    BY <1>4, SMT DEF BootstrapBase, OverlayInv, CheckpointIsExact
  <2> QED
    BY <2>1, <2>2 DEF OverlayInv, OverlayMatchesEvidence
<1>5. CASE SaveCheckpoint
  <2>1. /\ UNCHANGED <<evidence, overlay, restored_content, published_epoch>>
        /\ \A p \in Paths : OverlayHas(p) => ContentOf(evidence[p]) # NoContent
        /\ checkpoint' = [overlay |-> overlay,
                          contents |-> [p \in Paths |->
                            IF OverlayHas(p) THEN ContentOf(evidence[p]) ELSE NoContent]]
    BY <1>5, SMT DEF SaveCheckpoint, control, state
  <2>2. ASSUME NEW p \in Paths, OverlayHas(p) PROVE ContentOf(evidence[p]) = overlay[p]
    BY <2>1, <2>2, SMT DEF OverlayInv, KnownContent
  <2>3. CheckpointIsExact'
    BY <2>1, <2>2, SMT DEF CheckpointIsExact, OverlayHas
  <2> QED
    BY <2>1, <2>3, SMT DEF OverlayInv, OverlayMatchesEvidence, OverlayHas, KnownContent,
                          Visible, ContentOf
<1>6. CASE Restart
  <2>1. /\ published_epoch' = None /\ evidence' = NoPaths(Missing)
        /\ checkpoint' = checkpoint
    BY <1>6, SMT DEF Restart
  <2>2. ASSUME NEW p \in Paths, OverlayHas(p)' PROVE KnownContent(p)' = overlay'[p]
    <3>1. CASE overlay' = NoPaths(Clean)
      BY <2>2, <3>1, SMT DEF OverlayHas, NoPaths
    <3>2. CASE /\ checkpoint # None /\ overlay' = checkpoint.overlay
               /\ restored_content' = checkpoint.contents
      <4>1. restored_content'[p] = overlay'[p]
        BY <2>2, <3>2, SMT DEF OverlayInv, CheckpointIsExact, OverlayHas
      <4>2. ContentOf(evidence[p])' = NoContent
        BY <2>1, SMT DEF ContentOf, NoPaths
      <4> QED
        BY <4>1, <4>2, SMT DEF KnownContent
    <3> QED
      BY <1>6, <3>1, <3>2, Zenon DEF Restart
  <2>3. CheckpointIsExact'
    BY <2>1, SMT DEF OverlayInv, CheckpointIsExact
  <2> QED
    BY <2>1, <2>2, <2>3, SMT DEF OverlayInv, OverlayMatchesEvidence, NoPaths
<1> QED
  <2>1. CASE UNCHANGED vars
    BY <1>1, <2>1 DEF vars, control
  <2>2. CASE CheckoutNext
    BY <1>1, <2>2, Zenon DEF CheckoutNext, WriteFile, DeleteFile, RewriteSameStat, RestoreFile,
       OverflowNotices, ChangeFile, control
  <2>3. CASE (\E n \in notices : DeliverNotice(n)) \/ RequestRepair
             \/ \E p \in Paths : QueryMissesFile(p)
    BY <1>1, <2>3, Zenon DEF DeliverNotice, RequestRepair, QueryMissesFile, Invalidate, control
  <2>4. CASE Refresh \/ RefreshExhausted
             \/ \E reread \in BOOLEAN : RequestRefresh(reread) \/ BeginVerify(reread)
    BY <1>1, <2>4, Zenon DEF Refresh, RefreshExhausted, RequestRefresh, BeginRefresh,
       BeginVerify, control
  <2>5. CASE PassNext
    <3>1. CASE (\E p \in Paths : WalkFile(p) \/ ReadFile(p)) \/ PlanReads
      BY <1>1, <3>1, Zenon DEF WalkFile, ReadFile, PlanReads, control
    <3>2. CASE RejectRefresh \/ FailRefresh
      BY <1>1, <3>2, Zenon DEF RejectRefresh, FailRefresh, AbandonRefresh
    <3>3. CASE RejectVerify \/ FailVerify
      BY <1>1, <3>3, Zenon DEF RejectVerify, FailVerify, AbandonVerify, control
    <3>4. CASE PublishRefresh \/ RepairVerify
      BY <1>2, <3>4, Zenon DEF PublishRefresh, RepairVerify, PublishPrepared
    <3>5. CASE TearRefresh \/ TearVerify
      BY <1>2, <3>5, Zenon DEF TearRefresh, TearVerify, Torn, AbandonRefresh, AbandonVerify
    <3> QED
      BY <2>5, <3>1, <3>2, <3>3, <3>4, <3>5, <1>3, Zenon DEF PassNext
  <2> QED
    BY <1>4, <1>5, <1>6, <2>1, <2>2, <2>3, <2>4, <2>5, Zenon DEF Next

-----------------------------------------------------------------------------
(* The prepared state of the running pass. *)

LEMMA PreparedInit == Init => PreparedInv
  BY SMT DEF Init, NoPass, NoPaths, PreparedInv, Processed

LEMMA PreparedEmpty ==
  ASSUME stage' # "read", prepared' = NoPaths(Missing), upserts' = {}
  PROVE  PreparedInv'
  BY SMT DEF NoPaths, PreparedInv, Processed

LEMMA PreparedStutter ==
  ASSUME PreparedInv, UNCHANGED <<stage, todo, prepared, upserts, overlay, evidence, job, stale>>
  PROVE  PreparedInv'
  BY SMT DEF PreparedInv, Processed, ContentOf

LEMMA PreparedWalk ==
  ASSUME TypeOK, PreparedInv, NEW p \in Paths, WalkFile(p)
  PROVE  PreparedInv'
  BY SMT DEF WalkFile, PreparedInv, Processed

\* Reused evidence is already what the overlay indexes.
LEMMA PreparedPlan ==
  ASSUME TypeOK, OverlayInv, PreparedInv, PlanReads
  PROVE  PreparedInv'
<1>1. /\ stage = "walk" /\ stage' = "read"
      /\ todo' = {p \in Listed : ~Reusable(p)}
      /\ prepared' = [p \in Paths |-> IF p \in Listed /\ Reusable(p)
                                        THEN evidence[p] ELSE Missing]
      /\ job.verify /\ ~stale' => Listed = {p \in Paths : evidence[p] # Missing}
      /\ UNCHANGED <<overlay, evidence, upserts, job>>
  BY SMT DEF PlanReads, state
<1>2. \A p \in Paths : p \notin upserts /\ prepared[p] = Missing
  BY <1>1, SMT DEF PreparedInv, Processed
<1> SUFFICES ASSUME NEW p \in Paths
    PROVE  /\ prepared'[p] # Missing => p \notin todo'
           /\ p \notin upserts
           /\ ContentOf(prepared[p])' \notin {Base[p], NoContent} =>
                 overlay[p] = ContentOf(prepared[p])'
           /\ p \notin todo' /\ job.verify /\ ~stale' =>
                 /\ ContentOf(prepared[p])' = ContentOf(evidence[p])
                 /\ prepared'[p] = Missing <=> evidence[p] = Missing
  BY <1>1, SMT DEF PreparedInv, Processed, ContentOf
<1>3. CASE p \in Listed /\ Reusable(p)
  <2>1. /\ prepared'[p] = evidence[p] /\ evidence[p] # Missing
        /\ ContentOf(prepared[p])' = ContentOf(evidence[p])
        /\ Visible(p) = ContentOf(evidence[p])
    BY <1>1, <1>3, SMT DEF Reusable, ContentOf, OverlayInv
  <2> QED
    BY <1>1, <1>2, <1>3, <2>1, SMT DEF Visible
<1>4. CASE ~(p \in Listed /\ Reusable(p))
  <2>1. prepared'[p] = Missing /\ ContentOf(prepared[p])' = NoContent
    BY <1>1, <1>4, SMT DEF ContentOf
  <2>2. p \notin todo' => p \notin Listed
    BY <1>1, <1>4, SMT
  <2> QED
    BY <1>1, <1>2, <2>1, <2>2, SMT DEF ContentOf
<1> QED
  BY <1>3, <1>4

\* What a read does not extract, the overlay indexes.
LEMMA PreparedRead ==
  ASSUME TypeOK, OverlayInv, PreparedInv, NEW q \in Paths, ReadFile(q)
  PROVE  PreparedInv'
<1> DEFINE spared == /\ ~job.full /\ q \notin job.hints
                     /\ evidence[q] # Missing
                     /\ VersionOf(evidence[q]) = disk[q].version
           entry == IF spared THEN evidence[q] ELSE disk[q]
           extract == /\ ~spared
                      /\ entry.content # NoContent
                      /\ Base[q] # entry.content
                      /\ ~(KnownContent(q) = entry.content /\ OverlayHas(q))
<1>1. /\ stage = "read" /\ stage' = "read" /\ q \in todo /\ disk[q] # Missing
      /\ todo' = todo \ {q}
      /\ prepared' = [prepared EXCEPT ![q] = entry]
      /\ upserts' = IF extract THEN upserts \cup {q} ELSE upserts
      /\ UNCHANGED <<overlay, evidence, job>>
  BY SMT DEF ReadFile, state
<1>2. job.verify /\ ~stale' =>
        ~stale /\ evidence[q] # Missing /\ ContentOf(evidence[q]) = entry.content
  BY Zenon DEF ReadFile
<1> HIDE DEF extract, entry
<1>3. entry # Missing /\ ContentOf(entry) = entry.content
  BY <1>1, SMT DEF entry, ContentOf
<1>4. prepared'[q] = entry /\ ContentOf(prepared[q])' = entry.content
  BY <1>1, <1>3, SMT DEF TypeOK, DataOK, ContentOf
<1>5. entry.content \notin {Base[q], NoContent} =>
        q \in upserts' \/ overlay[q] = entry.content
  <2>1. CASE spared
    BY <1>3, <2>1, SMT DEF entry, OverlayInv, Visible
  <2>2. CASE extract
    BY <1>1, <2>2, SMT
  <2>3. CASE ~spared /\ ~extract
    BY <2>3, SMT DEF extract, OverlayInv
  <2> QED
    BY <2>1, <2>2, <2>3
<1>6. ASSUME NEW p \in Paths, p # q
      PROVE  /\ prepared'[p] = prepared[p] /\ ContentOf(prepared[p])' = ContentOf(prepared[p])
             /\ p \in todo' <=> p \in todo
             /\ p \in upserts' <=> p \in upserts
  <2>1. prepared'[p] = prepared[p]
    BY <1>1, <1>6, SMT DEF TypeOK, DataOK
  <2> QED
    BY <1>1, <1>6, <2>1, SMT DEF ContentOf
<1> SUFFICES ASSUME NEW p \in Paths
    PROVE  /\ prepared'[p] # Missing => p \notin todo'
           /\ p \in upserts' => prepared'[p] # Missing
           /\ p \notin todo' /\ ContentOf(prepared[p])' \notin {Base[p], NoContent} =>
                 p \in upserts' \/ overlay[p] = ContentOf(prepared[p])'
           /\ p \notin todo' /\ job.verify /\ ~stale' =>
                 /\ ContentOf(prepared[p])' = ContentOf(evidence[p])
                 /\ prepared'[p] = Missing <=> evidence[p] = Missing
  BY <1>1, SMT DEF PreparedInv, Processed, ContentOf
<1>7. CASE p = q
  BY <1>1, <1>2, <1>3, <1>4, <1>5, <1>7, SMT
<1>8. CASE p # q
  BY <1>1, <1>2, <1>6, <1>8, SMT DEF PreparedInv, Processed
<1> QED
  BY <1>7, <1>8

LEMMA PreparedStep ==
  TypeOK /\ GateInv /\ OverlayInv /\ PreparedInv /\ [Next]_vars => PreparedInv'
<1> SUFFICES ASSUME TypeOK, GateInv, OverlayInv, PreparedInv, [Next]_vars PROVE PreparedInv'
  OBVIOUS
<1>1. CASE UNCHANGED <<stage, todo, prepared, upserts, overlay, evidence, job, stale>>
  BY <1>1, PreparedStutter
<1>2. CASE stage' # "read" /\ prepared' = NoPaths(Missing) /\ upserts' = {}
  BY <1>2, PreparedEmpty
<1>3. CASE BootstrapBase
  <2>1. /\ stage = "idle" /\ UNCHANGED <<stage, prepared, upserts>>
    BY <1>3, SMT DEF BootstrapBase, pass
  <2> QED
    BY <2>1, SMT DEF PreparedInv, Processed
<1>4. CASE UNCHANGED vars
  BY <1>1, <1>4 DEF vars, pass, state, control
<1>5. CASE CheckoutNext
  BY <1>1, <1>5, Zenon DEF CheckoutNext, WriteFile, DeleteFile, RewriteSameStat, RestoreFile,
     OverflowNotices, ChangeFile, control, state, pass
<1>6. CASE \/ \E n \in notices : DeliverNotice(n)
           \/ RequestRepair \/ \E p \in Paths : QueryMissesFile(p)
  BY <1>1, <1>6, Zenon DEF DeliverNotice, RequestRepair, QueryMissesFile, Invalidate, control,
     state, pass
<1>7. CASE RefreshExhausted \/ SaveCheckpoint
  BY <1>1, <1>7, Zenon DEF RefreshExhausted, SaveCheckpoint, control, state, pass
<1>8. ASSUME NEW reread \in BOOLEAN, BeginRefresh(reread) \/ BeginVerify(reread)
      PROVE  PreparedInv'
  BY <1>2, <1>8, SMT DEF BeginRefresh, BeginVerify, StartPass
<1>9. CASE PassNext
  <2>1. ASSUME EndPass PROVE PreparedInv'
    BY <1>2, <2>1, SMT DEF EndPass
  <2>2. CASE (\E p \in Paths : WalkFile(p) \/ ReadFile(p)) \/ PlanReads
    BY <2>2, PreparedWalk, PreparedPlan, PreparedRead
  <2> QED
    BY <1>9, <2>1, <2>2, Zenon DEF PassNext, PublishRefresh, RejectRefresh, FailRefresh,
       TearRefresh, FinishVerify, RepairVerify, RejectVerify, FailVerify, TearVerify,
       AbandonRefresh, AbandonVerify
<1>10. CASE Restart
  BY <1>2, <1>10, SMT DEF Restart, EndPass
<1> QED
  BY <1>3, <1>4, <1>5, <1>6, <1>7, <1>8, <1>9, <1>10, Zenon DEF Next, Refresh, RequestRefresh

-----------------------------------------------------------------------------
(* The theorems. *)

LEMMA SafetyStep == SafetyInv /\ [Next]_vars => SafetyInv'
  BY TypeStep, GateStep, OverlayStep, PreparedStep DEF SafetyInv

\* The gate, the overlay and the running pass keep their parts of the
\* invariant through every step, of whatever actor.
THEOREM SafetyInvariant == Spec => []SafetyInv
<1>1. Init => SafetyInv
  BY TypeInit, GateInit, OverlayInit, PreparedInit DEF SafetyInv
<1> QED
  BY <1>1, SafetyStep, PTL DEF Spec

\* A view that is ready has published Control's current epoch and owes no work:
\* invalidate and publish_prepared never disagree, whichever came first.
THEOREM ReadyOwes == Spec => []ReadyOwesNothing
<1>1. SafetyInv => ReadyOwesNothing
  BY DEF SafetyInv, GateInv
<1> QED
  BY <1>1, SafetyInvariant, PTL

\* Overlay and base together index what the evidence records, also after a
\* publication that failed half-way, a verification and a restart.
THEOREM OverlayExact == Spec => []OverlayMatchesEvidence
<1>1. SafetyInv => OverlayMatchesEvidence
  BY DEF SafetyInv, OverlayInv
<1> QED
  BY <1>1, SafetyInvariant, PTL

\* save_checkpoint never vouches for content its overlay does not index.
THEOREM CheckpointExact == Spec => []CheckpointIsExact
<1>1. SafetyInv => CheckpointIsExact
  BY DEF SafetyInv, OverlayInv
<1> QED
  BY <1>1, SafetyInvariant, PTL

\* Publications advance and are not withdrawn while the process lives: the
\* epochs of passes that overtake or reject each other never run backwards.
THEOREM Advances == Spec => PublicationAdvances
<1> DEFINE advance == published_epoch # None =>
                        \/ published_epoch' # None /\ published_epoch' >= published_epoch
                        \/ Restart
<1>1. SafetyInv /\ [Next]_vars => [advance]_vars
  <2> SUFFICES ASSUME SafetyInv, Next, published_epoch # None, ~Restart
               PROVE  published_epoch' # None /\ published_epoch' >= published_epoch
    BY Zenon
  <2>1. /\ published_epoch \in Nat /\ epoch \in Nat /\ job.epoch \in Nat
        /\ published_epoch <= epoch
        /\ stage # "idle" /\ ~job.verify => published_epoch <= job.epoch
    BY SMT DEF SafetyInv, TypeOK, DataOK, Job, GateInv, Refreshing, Running
  <2>2. \/ published_epoch' = published_epoch
        \/ published_epoch' = job.epoch /\ stage # "idle" /\ ~job.verify
        \/ published_epoch' = epoch + 1
    <3>1. CASE CheckoutNext
      BY <3>1, Zenon DEF CheckoutNext, WriteFile, DeleteFile, RewriteSameStat, RestoreFile,
         OverflowNotices, ChangeFile, control
    <3>2. CASE \/ \E n \in notices : DeliverNotice(n)
               \/ RequestRepair \/ \E p \in Paths : QueryMissesFile(p)
      BY <3>2, Zenon DEF DeliverNotice, RequestRepair, QueryMissesFile, Invalidate, control
    <3>3. CASE Refresh \/ RefreshExhausted
               \/ \E reread \in BOOLEAN : RequestRefresh(reread) \/ BeginVerify(reread)
      BY <3>3, Zenon DEF Refresh, RefreshExhausted, RequestRefresh, BeginRefresh, BeginVerify,
         control
    <3>4. CASE PassNext
      <4>1. CASE PublishRefresh
        BY <4>1, SMT DEF PublishRefresh, PassRead, PublishPrepared
      <4>2. CASE RepairVerify
        BY <4>2, SMT DEF RepairVerify, PublishPrepared
      <4>3. CASE (\E p \in Paths : WalkFile(p) \/ ReadFile(p)) \/ PlanReads
                 \/ RejectRefresh \/ FailRefresh \/ TearRefresh
        BY <4>3, Zenon DEF WalkFile, ReadFile, PlanReads, RejectRefresh, FailRefresh,
           TearRefresh, AbandonRefresh, control
      <4>4. CASE FinishVerify \/ RejectVerify \/ FailVerify \/ TearVerify
        BY <4>4, Zenon DEF FinishVerify, RejectVerify, FailVerify, TearVerify, AbandonVerify,
           control
      <4> QED
        BY <3>4, <4>1, <4>2, <4>3, <4>4, Zenon DEF PassNext
    <3>5. CASE BootstrapBase \/ SaveCheckpoint
      BY <3>5, Zenon DEF BootstrapBase, SaveCheckpoint, control
    <3> QED
      BY <3>1, <3>2, <3>3, <3>4, <3>5, Zenon DEF Next
  <2> QED
    BY <2>1, <2>2, NoneAssumption, SMT
<1> QED
  BY <1>1, SafetyInvariant, PTL DEF Spec, PublicationAdvances
=============================================================================
