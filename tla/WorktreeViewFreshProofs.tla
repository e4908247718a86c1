--------------------- MODULE WorktreeViewFreshProofs ----------------------
(***************************************************************************)
(* Where a FileVersion never comes back, a ready WorktreeView is fresh: no *)
(* interleaving of changes, notifications, invalidations, passes, failures *)
(* and restarts makes it answer from content the checkout no longer has.   *)
(***************************************************************************)
EXTENDS WorktreeViewProofs

USE DEF NoVersion, Version, Content, File, Entry

-----------------------------------------------------------------------------
(* What a step of the checkout does to one path. *)

Untouched(p) ==
    /\ disk'[p] = disk[p]
    /\ p \in examined' => p \in examined
    /\ p \in unannounced => p \in unannounced'
    /\ Quiet(p)' => Quiet(p)
    /\ SoftQuiet(p)' => SoftQuiet(p)

Rewritten(p) ==
    /\ disk[p] # Missing /\ disk'[p] # Missing
    /\ disk'[p].version = disk[p].version
    /\ ~SoftQuiet(p)'
    /\ Filtered => p \in unannounced'

Touched(p) ==
    /\ p \notin examined' /\ ~Quiet(p)'
    /\ \/ disk'[p] # Missing /\ disk'[p].version = clock' /\ clock' = clock + 1
       \/ disk'[p] = Missing /\ disk[p] # Missing
       \/ Rewritten(p)

LEMMA QuietShrinks ==
  ASSUME notices \subseteq notices', NEW p, p \notin unannounced' => p \notin unannounced
  PROVE  (Quiet(p)' => Quiet(p)) /\ (SoftQuiet(p)' => SoftQuiet(p))
  BY Zenon DEF Quiet, SoftQuiet

LEMMA ChangeEffect ==
  ASSUME TypeOK, NEW q \in Paths, NEW file, NEW ns, ChangeFile(q, file, ns),
         ns \in {EntryChanged(q), {DirNotice}, Modified(q)}
  PROVE  /\ UNCHANGED control /\ UNCHANGED state /\ UNCHANGED pass /\ UNCHANGED checkpoint
         /\ disk'[q] = file /\ q \notin examined' /\ ~Quiet(q)'
         /\ \A p \in Paths : p # q => Untouched(p)
<1>1. /\ UNCHANGED control /\ UNCHANGED state /\ UNCHANGED pass /\ UNCHANGED checkpoint
      /\ disk' = [disk EXCEPT ![q] = file] /\ examined' = examined \ {q}
  BY Zenon DEF ChangeFile
<1>2. notices \subseteq notices' /\ unannounced \subseteq unannounced'
  BY Zenon DEF ChangeFile, Announced
<1>3. \/ ns \subseteq notices'
      \/ q \in unannounced'
  BY Zenon DEF ChangeFile, Announced
<1>4. \E n \in ns : n.path = q \/ n.path = Root
  <2>1. /\ [path |-> q, kind |-> "entry"].path = q
        /\ [path |-> Root, kind |-> "dir"].path = Root
        /\ [path |-> q, kind |-> "modify"].path = q
    BY SMT
  <2> QED
    BY <2>1, Zenon DEF EntryChanged, DirNotice, Modified
<1>5. ~Quiet(q)'
  BY <1>3, <1>4, Zenon DEF Quiet
<1>6. ASSUME NEW p \in Paths, p # q PROVE Untouched(p)
  <2>1. (Quiet(p)' => Quiet(p)) /\ (SoftQuiet(p)' => SoftQuiet(p))
    BY <1>2, QuietShrinks, Zenon
  <2>2. disk'[p] = disk[p]
    BY <1>1, <1>6, SMT DEF TypeOK, DataOK
  <2> QED
    BY <1>1, <1>2, <2>1, <2>2, Zenon DEF Untouched
<1>7. disk'[q] = file /\ q \notin examined'
  BY <1>1, SMT DEF TypeOK, DataOK
<1> QED
  BY <1>1, <1>5, <1>6, <1>7

\* Of any one path, a step of the checkout is no change, or gives it a new
\* version, deletes it, or rewrites it under its old version.
LEMMA CheckoutEffect ==
  ASSUME TypeOK, CheckoutNext, ~VersionsRecur
  PROVE  /\ UNCHANGED control /\ UNCHANGED state /\ UNCHANGED pass /\ UNCHANGED checkpoint
         /\ clock' \in Nat /\ clock <= clock'
         /\ \A p \in Paths : Untouched(p) \/ Touched(p)
<1>1. clock \in Nat
  BY DEF TypeOK, DataOK
<1>2. ASSUME NEW q \in Paths, WriteFile(q)
      PROVE  /\ UNCHANGED control /\ UNCHANGED state /\ UNCHANGED pass /\ UNCHANGED checkpoint
             /\ clock' = clock + 1
             /\ \A p \in Paths : Untouched(p) \/ Touched(p)
  <2>1. PICK c \in Content, ns \in {EntryChanged(q), {DirNotice}, Modified(q)} :
               ChangeFile(q, [version |-> clock + 1, content |-> c], ns)
    BY <1>2, Zenon DEF WriteFile
  <2>2. clock' = clock + 1 /\ [version |-> clock + 1, content |-> c] # Missing
    BY <1>1, <1>2, MissingAssumption, SMT DEF WriteFile
  <2>3. disk'[q] = [version |-> clock + 1, content |-> c]
    BY <2>1, ChangeEffect
  <2>4. Touched(q)
    <3>1. disk'[q] # Missing /\ disk'[q].version = clock' /\ clock' = clock + 1
      BY <2>2, <2>3
    <3> QED
      BY <2>1, <3>1, ChangeEffect, Zenon DEF Touched
  <2> QED
    BY <2>1, <2>2, <2>4, ChangeEffect, Zenon
<1>3. ASSUME NEW q \in Paths, DeleteFile(q)
      PROVE  /\ UNCHANGED control /\ UNCHANGED state /\ UNCHANGED pass /\ UNCHANGED checkpoint
             /\ clock' = clock
             /\ \A p \in Paths : Untouched(p) \/ Touched(p)
  <2>1. PICK ns \in {EntryChanged(q), {DirNotice}, Modified(q)} : ChangeFile(q, Missing, ns)
    BY <1>3, Zenon DEF DeleteFile
  <2>2. Touched(q)
    BY <1>3, <2>1, ChangeEffect, Zenon DEF Touched, DeleteFile
  <2> QED
    BY <1>3, <2>1, <2>2, ChangeEffect, Zenon DEF DeleteFile
<1>4. ASSUME NEW q \in Paths, RewriteSameStat(q)
      PROVE  /\ UNCHANGED control /\ UNCHANGED state /\ UNCHANGED pass /\ UNCHANGED checkpoint
             /\ clock' = clock
             /\ \A p \in Paths : Untouched(p) \/ Touched(p)
  <2>1. /\ UNCHANGED control /\ UNCHANGED state /\ UNCHANGED pass /\ UNCHANGED checkpoint
        /\ clock' = clock /\ disk[q] # Missing
        /\ examined' = examined \ {q} /\ notices \subseteq notices'
        /\ [path |-> q, kind |-> "modify"] \in notices'
        /\ unannounced \subseteq unannounced' /\ (Filtered => q \in unannounced')
    BY <1>4, Zenon DEF RewriteSameStat, Modified
  <2>2. PICK c \in Content : disk' = [disk EXCEPT ![q].content = c]
    BY <1>4, Zenon DEF RewriteSameStat
  <2>3. /\ disk'[q] = [version |-> disk[q].version, content |-> c]
        /\ \A p \in Paths : p # q => disk'[p] = disk[p]
    BY <2>1, <2>2, SMT DEF TypeOK, DataOK
  <2>4. disk'[q] # Missing /\ disk'[q].version = disk[q].version
    BY <2>1, <2>3, MissingAssumption, SMT DEF TypeOK, DataOK
  <2>5. ~SoftQuiet(q)' /\ ~Quiet(q)'
    <3>1. /\ [path |-> q, kind |-> "modify"].path = q
          /\ [path |-> q, kind |-> "modify"].kind # "rescan"
      BY SMT
    <3> QED
      BY <2>1, <3>1, Zenon DEF Quiet, SoftQuiet
  <2>6. Touched(q)
    BY <2>1, <2>4, <2>5, Zenon DEF Touched, Rewritten
  <2>7. ASSUME NEW p \in Paths, p # q PROVE Untouched(p)
    BY <2>1, <2>3, <2>7, QuietShrinks, Zenon DEF Untouched
  <2> QED
    BY <2>1, <2>6, <2>7, Zenon
<1>5. ASSUME OverflowNotices
      PROVE  /\ UNCHANGED control /\ UNCHANGED state /\ UNCHANGED pass /\ UNCHANGED checkpoint
             /\ clock' = clock
             /\ \A p \in Paths : Untouched(p) \/ Touched(p)
  <2>1. /\ UNCHANGED control /\ UNCHANGED state /\ UNCHANGED pass /\ UNCHANGED checkpoint
        /\ clock' = clock /\ disk' = disk /\ UNCHANGED observers
        /\ RescanNotice \in notices'
    BY <1>5, Zenon DEF OverflowNotices
  <2>2. RescanNotice.path = Root /\ RescanNotice.kind = "rescan"
    BY SMT DEF RescanNotice
  <2> QED
    BY <2>1, <2>2, Zenon DEF observers, Untouched, Quiet, SoftQuiet
<1>6. ~ \E p \in Paths : RestoreFile(p)
  BY DEF RestoreFile
<1> QED
  BY <1>1, <1>2, <1>3, <1>4, <1>5, <1>6, SMT DEF CheckoutNext

-----------------------------------------------------------------------------
(* What an invalidation does to Control. *)

Owes(p) == full \/ p \in hints

Closes ==
    /\ ready' = FALSE /\ epoch' = EpochAfter(1)
    /\ UNCHANGED <<published_epoch, stale>>
    /\ full => full'
    /\ \A p \in Paths : Owes(p) => Owes(p)'

LEMMA QueueKeeps ==
  ASSUME \/ UNCHANGED <<full, tree, hints>> \/ QueueAll \/ QueueTree
         \/ \E q \in Paths : QueuePath(q)
  PROVE  (full => full') /\ \A p \in Paths : Owes(p) => Owes(p)'
  BY Zenon DEF QueueAll, QueueTree, QueuePath, Owes

LEMMA RequestEffect ==
  ASSUME RequestRepair \/ \E p \in Paths : QueryMissesFile(p)
  PROVE  /\ Closes
         /\ UNCHANGED checkout /\ UNCHANGED state /\ UNCHANGED pass
         /\ UNCHANGED checkpoint /\ UNCHANGED observers
<1>1. /\ ready' = FALSE /\ epoch' = EpochAfter(1) /\ UNCHANGED <<published_epoch, stale>>
      /\ \/ UNCHANGED <<full, tree, hints>> \/ QueueAll \/ QueueTree
         \/ \E q \in Paths : QueuePath(q)
  BY Zenon DEF RequestRepair, QueryMissesFile, Invalidate
<1>2. /\ UNCHANGED checkout /\ UNCHANGED state /\ UNCHANGED pass
      /\ UNCHANGED checkpoint /\ UNCHANGED observers
  BY Zenon DEF RequestRepair, QueryMissesFile
<1> QED
  BY <1>1, <1>2, QueueKeeps, Zenon DEF Closes

LEMMA DeliverEffect ==
  ASSUME TypeOK, NEW n \in notices, DeliverNotice(n)
  PROVE  /\ notices' = notices \ {n}
         /\ UNCHANGED <<disk, clock>> /\ UNCHANGED state /\ UNCHANGED pass
         /\ UNCHANGED checkpoint /\ UNCHANGED observers
         /\ \/ Dropped(n) /\ n.path \in Paths /\ UNCHANGED control
            \/ /\ Closes
               /\ ~Exhausted =>
                    \A p \in Paths : n.path = p \/ n.kind = "rescan" => Owes(p)'
<1>1. /\ notices' = notices \ {n}
      /\ UNCHANGED <<disk, clock>> /\ UNCHANGED state /\ UNCHANGED pass
      /\ UNCHANGED checkpoint /\ UNCHANGED observers
  BY Zenon DEF DeliverNotice
<1>2. n \in Notice
  BY DEF TypeOK, DataOK
<1>3. \/ n.kind \in {"modify", "entry"} /\ n.path \in Paths
      \/ n.kind \in {"dir", "rescan"} /\ n.path = Root
  BY <1>2, SMT DEF Notice
<1>4. CASE Dropped(n)
  <2>1. n.kind = "modify" /\ UNCHANGED control
    BY <1>4, Zenon DEF DeliverNotice, Dropped
  <2>2. n.path \in Paths
    BY <1>3, <2>1, SMT
  <2> QED
    BY <1>1, <1>4, <2>1, <2>2
<1>5. CASE ~Dropped(n)
  <2>1. /\ ready' = FALSE /\ epoch' = EpochAfter(1) /\ UNCHANGED <<published_epoch, stale>>
        /\ IF Exhausted THEN UNCHANGED <<full, tree, hints>>
           ELSE CASE n.kind = "rescan" -> QueueAll
                  [] n.kind = "dir" -> QueueTree
                  [] OTHER -> QueuePath(n.path)
    BY <1>5, Zenon DEF DeliverNotice, Invalidate
  <2>2. \/ Exhausted /\ UNCHANGED <<full, tree, hints>>
        \/ n.kind = "rescan" /\ QueueAll
        \/ n.kind = "dir" /\ QueueTree
        \/ n.kind \in {"modify", "entry"} /\ QueuePath(n.path)
    BY <1>3, <2>1, Zenon
  <2>3. Closes
    <3>1. \/ UNCHANGED <<full, tree, hints>> \/ QueueAll \/ QueueTree
          \/ \E q \in Paths : QueuePath(q)
      <4>1. n.kind \in {"modify", "entry"} => n.path \in Paths
        BY <1>3, SMT
      <4> QED
        BY <2>2, <4>1, Zenon
    <3> QED
      BY <2>1, <3>1, QueueKeeps, Zenon DEF Closes
  <2>4. ASSUME ~Exhausted, NEW p \in Paths, n.path = p \/ n.kind = "rescan" PROVE Owes(p)'
    <3>1. CASE n.kind = "rescan" /\ QueueAll
      BY <3>1, Zenon DEF QueueAll, Owes
    <3>2. CASE n.kind = "dir" /\ QueueTree
      <4>1. n.path = Root
        BY <1>3, <3>2, SMT
      <4> QED
        BY <2>4, <3>2, <4>1, RootAssumption, SMT
    <3>3. CASE n.kind \in {"modify", "entry"} /\ QueuePath(n.path)
      <4>1. n.path = p
        BY <2>4, <3>3, SMT
      <4> QED
        BY <3>3, <4>1, Zenon DEF QueuePath, Owes
    <3> QED
      BY <2>2, <2>4, <3>1, <3>2, <3>3
  <2> QED
    BY <1>1, <2>3, <2>4
<1> QED
  BY <1>4, <1>5

\* An invalidation leaves the running pass behind.
LEMMA ClosesPass ==
  ASSUME TypeOK, GateInv, Closes, UNCHANGED job
  PROVE  /\ Exhausted => Exhausted'
         /\ stage # "idle" => epoch' # job.epoch \/ Exhausted'
         /\ stage # "idle" /\ epoch # job.epoch => epoch' # job.epoch
<1>1. /\ epoch \in Nat /\ epoch' \in Nat /\ epoch <= epoch'
      /\ epoch = MaxEpoch => epoch' = MaxEpoch
      /\ epoch # MaxEpoch => epoch' = epoch + 1
      /\ job.epoch \in Nat
      /\ stage # "idle" => job.epoch <= epoch
  BY BoundAssumption, SMT DEF TypeOK, DataOK, EpochAfter, Job, Closes, GateInv, Running
<1> QED
  BY <1>1, SMT DEF Exhausted

\* Only the notice that was delivered can have been what kept a path unquiet.
LEMMA DeliverQuiet ==
  ASSUME NEW n, notices' = notices \ {n}, UNCHANGED observers, NEW p
  PROVE  /\ Quiet(p)' /\ ~Quiet(p) => n.path = p \/ n.path = Root
         /\ SoftQuiet(p)' /\ ~SoftQuiet(p) => n.path = p \/ n.kind = "rescan"
  BY Zenon DEF observers, Quiet, SoftQuiet

-----------------------------------------------------------------------------
(* What the steps of a pass do. *)

\* A pass that ends replaces the published state by the prepared one, refreshes
\* its evidence, or leaves it.
Ends ==
    /\ stage # "idle" /\ EndPass
    /\ UNCHANGED <<disk, clock, notices>>
    /\ \/ UNCHANGED state /\ UNCHANGED unannounced
       \/ PassRead /\ ReplaceState /\ unannounced' \in {unannounced, unannounced \ examined}
       \/ FinishVerify

LEMMA EndCases ==
  ASSUME \/ PublishRefresh \/ RejectRefresh \/ FailRefresh \/ TearRefresh
         \/ FinishVerify \/ RepairVerify \/ RejectVerify \/ FailVerify \/ TearVerify
  PROVE  Ends
<1>1. CASE PublishRefresh \/ RepairVerify
  BY <1>1, SMT DEF PublishRefresh, RepairVerify, PublishPrepared, PassRead, Ends, checkout
<1>2. CASE RejectRefresh \/ FailRefresh \/ RejectVerify
  BY <1>2, SMT DEF RejectRefresh, FailRefresh, RejectVerify, AbandonRefresh, AbandonVerify,
                   PassRead, LostFile, Fault, Ends, checkout
<1>3. CASE FailVerify
  BY <1>3, SMT DEF FailVerify, AbandonVerify, LostFile, Fault, Ends, checkout
<1>4. CASE TearRefresh \/ TearVerify
  BY <1>4, SMT DEF TearRefresh, TearVerify, Torn, AbandonRefresh, AbandonVerify, PassRead,
                   Ends, checkout
<1>5. CASE FinishVerify
  BY <1>5, SMT DEF FinishVerify, PassRead, Ends, checkout
<1> QED
  BY <1>1, <1>2, <1>3, <1>4, <1>5

LEMMA EndState ==
  ASSUME Ends, NEW p \in Paths
  PROVE  /\ stage' = "idle" /\ examined' = {} /\ todo' = {} /\ job' = IdleJob
         /\ prepared'[p] = Missing /\ walked'[p] = NoVersion
         /\ \/ UNCHANGED state /\ UNCHANGED unannounced
            \/ /\ evidence'[p] = prepared[p] /\ PassRead /\ (ReplaceState \/ FinishVerify)
               /\ p \notin unannounced' => p \notin unannounced \/ p \in examined
  BY SMT DEF Ends, EndPass, NoPaths, ReplaceState, FinishVerify

LEMMA PlanEffect ==
  ASSUME PlanReads, NEW p \in Paths
  PROVE  /\ stage = "walk" /\ todo = {} /\ stage' = "read" /\ UNCHANGED <<job, examined>>
         /\ \/ /\ walked[p] = NoVersion /\ p \notin todo' /\ prepared'[p] = Missing
            \/ /\ walked[p] # NoVersion /\ Reusable(p) /\ p \notin todo'
               /\ prepared'[p] = evidence[p]
            \/ walked[p] # NoVersion /\ p \in todo' /\ prepared'[p] = Missing
  BY SMT DEF PlanReads, Listed, observers

Spared(p) ==
    /\ ~job.full /\ p \notin job.hints
    /\ evidence[p] # Missing
    /\ VersionOf(evidence[p]) = disk[p].version

LEMMA ReadEffect ==
  ASSUME TypeOK, NEW q \in Paths, ReadFile(q)
  PROVE  /\ stage = "read" /\ stage' = "read" /\ UNCHANGED job
         /\ q \in todo /\ todo' = todo \ {q} /\ disk[q] # Missing
         /\ \A p \in Paths : p # q => prepared'[p] = prepared[p]
         /\ \/ /\ Spared(q) /\ prepared'[q] = evidence[q] /\ examined' = examined
            \/ /\ prepared'[q] = disk[q] /\ examined' = examined \cup {q}
<1> DEFINE entry == IF Spared(q) THEN evidence[q] ELSE disk[q]
<1>1. /\ stage = "read" /\ stage' = "read" /\ UNCHANGED job
      /\ q \in todo /\ todo' = todo \ {q} /\ disk[q] # Missing
      /\ prepared' = [prepared EXCEPT ![q] = entry]
      /\ examined' = IF Spared(q) THEN examined ELSE examined \cup {q}
  BY SMT DEF ReadFile, Spared
<1> HIDE DEF entry
<1>2. prepared'[q] = entry /\ \A p \in Paths : p # q => prepared'[p] = prepared[p]
  BY <1>1, SMT DEF TypeOK, DataOK
<1> QED
  BY <1>1, <1>2, SMT DEF entry

-----------------------------------------------------------------------------
(* Versions. *)

LEMMA VersionInit == ASSUME Init, NEW p \in Paths PROVE VersionAt(p)
  BY SMT DEF Init, FreshState, NoPass, NoPaths, VersionOf, VersionAt

LEMMA VersionCarry ==
  ASSUME TypeOK, NEW p \in Paths, VersionAt(p), UNCHANGED <<disk, clock>>,
         evidence'[p] \in {evidence[p], prepared[p], Missing},
         \/ prepared'[p] \in {prepared[p], Missing, disk[p]}
         \/ prepared'[p] = evidence[p] /\ VersionOf(evidence[p]) # NoVersion,
         walked'[p] \in {walked[p], VersionOf(disk[p]), NoVersion}
  PROVE  VersionAt(p)'
  BY SMT DEF TypeOK, DataOK, VersionAt, VersionOf

LEMMA VersionCheckout ==
  ASSUME TypeOK, NEW p \in Paths, VersionAt(p), CheckoutNext, ~VersionsRecur
  PROVE  VersionAt(p)'
<1>1. /\ UNCHANGED <<evidence, prepared, walked>> /\ clock \in Nat
      /\ clock' \in Nat /\ clock <= clock'
      /\ Untouched(p) \/ Touched(p)
  BY CheckoutEffect DEF state, pass, TypeOK, DataOK
<1>2. /\ VersionOf(evidence[p]) <= clock' /\ VersionOf(prepared[p]) <= clock'
      /\ walked[p] <= clock' /\ VersionOf(disk[p]) <= clock'
      /\ prepared[p] # Missing => VersionOf(prepared[p]) # NoVersion
  BY <1>1, SMT DEF VersionAt, VersionOf, TypeOK, DataOK
<1>3. disk'[p] # Missing => disk'[p].version # NoVersion /\ disk'[p].version <= clock'
  BY <1>1, <1>2, SMT DEF VersionAt, VersionOf, Untouched, Touched, Rewritten, TypeOK, DataOK
<1> QED
  BY <1>1, <1>2, <1>3, SMT DEF VersionAt, VersionOf

LEMMA VersionStep ==
  ASSUME TypeOK, NEW p \in Paths, VersionAt(p), ~VersionsRecur, [Next]_vars
  PROVE  VersionAt(p)'
<1>1. CASE CheckoutNext
  BY <1>1, VersionCheckout
<1>2. CASE UNCHANGED <<disk, clock, evidence, prepared, walked>>
  BY <1>2, SMT DEF VersionAt, VersionOf
<1>3. CASE Ends
  BY <1>3, EndState, VersionCarry, SMT DEF Ends, state
<1>4. ASSUME NEW q \in Paths, WalkFile(q) PROVE VersionAt(p)'
  <2>1. /\ UNCHANGED <<disk, clock, evidence, prepared>>
        /\ walked' = [walked EXCEPT ![q] = VersionOf(disk[q])]
    BY <1>4, Zenon DEF WalkFile, checkout, state
  <2>2. walked'[p] \in {walked[p], VersionOf(disk[p])}
    BY <2>1, SMT DEF TypeOK, DataOK
  <2> QED
    BY <2>1, <2>2, VersionCarry, SMT
<1>5. CASE PlanReads
  <2>1. UNCHANGED <<disk, clock, evidence, walked>>
    BY <1>5 DEF PlanReads, checkout, state
  <2>2. Reusable(p) /\ walked[p] # NoVersion => VersionOf(evidence[p]) # NoVersion
    BY SMT DEF Reusable
  <2> QED
    BY <1>5, <2>1, <2>2, PlanEffect, VersionCarry, SMT
<1>6. ASSUME NEW q \in Paths, ReadFile(q) PROVE VersionAt(p)'
  <2>1. UNCHANGED <<disk, clock, evidence, walked>>
    BY <1>6 DEF ReadFile, checkout, state
  <2>2. p = q /\ Spared(q) => VersionOf(evidence[q]) # NoVersion
    BY <1>6, SMT DEF Spared, VersionAt, ReadFile
  <2> QED
    BY <1>6, <2>1, <2>2, ReadEffect, VersionCarry, SMT
<1>7. ASSUME NEW reread \in BOOLEAN, BeginRefresh(reread) \/ BeginVerify(reread)
      PROVE  VersionAt(p)'
  <2>1. UNCHANGED <<disk, clock, evidence>> /\ prepared'[p] = Missing /\ walked'[p] = NoVersion
    BY <1>7, SMT DEF BeginRefresh, BeginVerify, StartPass, NoPaths, checkout, state
  <2> QED
    BY <2>1, VersionCarry, SMT
<1>8. CASE BootstrapBase
  <2>1. /\ UNCHANGED <<disk, clock, prepared, walked>> /\ VersionOf(evidence[p])' = NoVersion
    BY <1>8, SMT DEF BootstrapBase, checkout, pass, VersionOf
  <2> QED
    BY <2>1, SMT DEF VersionAt, VersionOf, TypeOK, DataOK
<1>9. CASE Restart
  <2>1. /\ UNCHANGED <<disk, clock>> /\ evidence'[p] = Missing /\ prepared'[p] = Missing
        /\ walked'[p] = NoVersion
    BY <1>9, SMT DEF Restart, EndPass, NoPaths
  <2> QED
    BY <2>1, VersionCarry, SMT
<1>10. CASE \/ UNCHANGED vars
            \/ \E n \in notices : DeliverNotice(n)
            \/ RequestRepair \/ \E q \in Paths : QueryMissesFile(q)
            \/ RefreshExhausted \/ SaveCheckpoint
  BY <1>2, <1>10, Zenon DEF vars, DeliverNotice, RequestRepair, QueryMissesFile,
     RefreshExhausted, SaveCheckpoint, checkout, state, pass
<1> QED
  BY <1>1, <1>3, <1>4, <1>5, <1>6, <1>7, <1>8, <1>9, <1>10, EndCases, Zenon
  DEF Next, PassNext, Refresh, RequestRefresh

-----------------------------------------------------------------------------
(* The work a strict pass copied. *)

LEMMA KeptInit == Init => KeptInv
  BY SMT DEF Init, NoPass, KeptInv, Refreshing, Running

LEMMA IdleEnd == ASSUME Ends \/ Restart PROVE stage' = "idle"
  BY SMT DEF Ends, Restart, EndPass

LEMMA KeptStep == ASSUME TypeOK, KeptInv, [Next]_vars PROVE KeptInv'
<1>1. CASE stage' = "idle"
  BY <1>1, SMT DEF KeptInv, Refreshing, Running
<1>2. CASE /\ UNCHANGED <<full, hints, job>>
           /\ stage # "idle" \/ stage' = stage
  BY <1>2, SMT DEF KeptInv, Refreshing, Running
<1>3. CASE Closes /\ UNCHANGED pass
  <2>1. UNCHANGED <<stage, job>> /\ (full => full') /\ \A p \in Paths : Owes(p) => Owes(p)'
    BY <1>3 DEF Closes, pass
  <2>2. job.hints \subseteq Paths
    BY SMT DEF TypeOK, DataOK, Job
  <2> QED
    BY <2>1, <2>2, SMT DEF KeptInv, Refreshing, Running, Owes
<1>4. ASSUME NEW reread \in BOOLEAN, BeginRefresh(reread) PROVE KeptInv'
  BY <1>4, SMT DEF BeginRefresh, StartPass, KeptInv, Refreshing, Running
<1>5. ASSUME NEW reread \in BOOLEAN, BeginVerify(reread) PROVE KeptInv'
  BY <1>5, SMT DEF BeginVerify, StartPass, KeptInv, Refreshing, Running
<1>6. CASE CheckoutNext
  BY <1>2, <1>6, Zenon DEF CheckoutNext, WriteFile, DeleteFile, RewriteSameStat, RestoreFile,
     OverflowNotices, ChangeFile, control, pass
<1>7. ASSUME NEW n \in notices, DeliverNotice(n) PROVE KeptInv'
  <2>1. UNCHANGED pass /\ (Closes \/ UNCHANGED control)
    BY <1>7, DeliverEffect
  <2> QED
    BY <1>2, <1>3, <2>1, Zenon DEF control, pass
<1>8. CASE RequestRepair \/ \E p \in Paths : QueryMissesFile(p)
  BY <1>3, <1>8, RequestEffect
<1>9. CASE (\E p \in Paths : WalkFile(p) \/ ReadFile(p)) \/ PlanReads
  <2>1. UNCHANGED <<full, hints, job>> /\ stage # "idle"
    BY <1>9, Zenon DEF WalkFile, ReadFile, PlanReads, control
  <2> QED
    BY <1>2, <2>1
<1>10. CASE RefreshExhausted \/ BootstrapBase
  BY <1>1, <1>10, SMT DEF RefreshExhausted, BootstrapBase, pass
<1>11. CASE UNCHANGED vars \/ SaveCheckpoint
  BY <1>2, <1>11, Zenon DEF vars, SaveCheckpoint, control, pass
<1> QED
  BY <1>1, <1>4, <1>5, <1>6, <1>7, <1>8, <1>9, <1>10, <1>11, EndCases, IdleEnd, Zenon
  DEF Next, PassNext, Refresh, RequestRefresh

-----------------------------------------------------------------------------
(* Unread files. *)

LEMMA UnreadInit == ASSUME Init, NEW p \in Paths PROVE UnreadAt(p)
  BY SMT DEF Init, FreshControl, UnreadAt

\* A pass that fails gives its work back, one way or the other.
LEMMA RefreshGivesBack ==
  ASSUME KeptInv, stage # "idle", ~job.verify, AbandonRefresh
  PROVE  /\ full => full'
         /\ job.full => full'
         /\ \A p \in Paths : Owes(p) => Owes(p)'
         /\ \A p \in job.hints : Owes(p)'
<1>1. CASE StaleReads
  BY <1>1, Zenon DEF AbandonRefresh, PutBack, Owes
<1>2. CASE ~StaleReads
  <2>1. UNCHANGED <<full, hints>>
    BY <1>2, Zenon DEF AbandonRefresh, PutBack
  <2> QED
    BY <1>2, <2>1, SMT DEF KeptInv, Owes, Refreshing, Running
<1> QED
  BY <1>1, <1>2

LEMMA VerifyGivesBack ==
  ASSUME AbandonVerify
  PROVE  (full => full') /\ \A p \in Paths : Owes(p) => Owes(p)'
  BY Zenon DEF AbandonVerify, Owes

LEMMA UnreadCarry ==
  ASSUME NEW p \in Paths, UnreadAt(p), UNCHANGED state, full => full',
         Refreshing /\ job.full => full' \/ (Refreshing /\ job.full)'
  PROVE  UnreadAt(p)'
<1>1. Visible(p)' = Visible(p) /\ VersionOf(evidence[p])' = VersionOf(evidence[p])
  BY Zenon DEF state, Visible, VersionOf
<1> QED
  BY <1>1, Zenon DEF UnreadAt

LEMMA UnreadStep ==
  ASSUME SafetyInv, KeptInv, NEW p \in Paths, VersionAt(p), UnreadAt(p), [Next]_vars
  PROVE  UnreadAt(p)'
<1> USE DEF SafetyInv
<1>1. CASE UNCHANGED state /\ UNCHANGED <<full, job, stage>>
  BY <1>1, UnreadCarry, Zenon DEF Refreshing, Running
<1>2. CASE PassRead /\ ReplaceState
  <2>1. evidence'[p] = prepared[p] /\ Visible(p)' = ContentOf(prepared[p])
    BY <1>2, ReplaceIsExact
  <2>2. VersionOf(evidence[p])' = NoVersion => Visible(p)' = NoContent
    BY <2>1, SMT DEF VersionAt, VersionOf, ContentOf
  <2> QED
    BY <2>2, Zenon DEF UnreadAt
<1>3. ASSUME NEW reread \in BOOLEAN, BeginRefresh(reread) PROVE UnreadAt(p)'
  <2>1. /\ UNCHANGED state /\ stage = "idle" /\ (Refreshing)'
        /\ full => job'.full
    <3>1. /\ UNCHANGED state /\ stage = "idle" /\ stage' = "walk"
          /\ job' = [verify |-> FALSE, reread |-> reread,
                     full |-> reread \/ full \/ (~tree /\ hints = {}),
                     hints |-> hints, epoch |-> epoch + 1]
      BY <1>3, Zenon DEF BeginRefresh, StartPass
    <3>2. /\ job'.verify = FALSE
          /\ job'.full = (reread \/ full \/ (~tree /\ hints = {}))
      BY <3>1, Zenon
    <3> QED
      BY <3>1, <3>2, Zenon DEF Refreshing, Running
  <2>2. Visible(p)' = Visible(p) /\ VersionOf(evidence[p])' = VersionOf(evidence[p])
    BY <2>1, Zenon DEF state, Visible, VersionOf
  <2> QED
    BY <2>1, <2>2, Zenon DEF UnreadAt, Refreshing, Running
<1>4. ASSUME NEW reread \in BOOLEAN, BeginVerify(reread) PROVE UnreadAt(p)'
  <2>1. UNCHANGED state /\ ~Refreshing /\ full' = full
    BY <1>4, SMT DEF BeginVerify, control, Refreshing, Running
  <2> QED
    BY <2>1, UnreadCarry
<1>5. CASE CheckoutNext
  BY <1>1, <1>5, Zenon DEF CheckoutNext, WriteFile, DeleteFile, RewriteSameStat, RestoreFile,
     OverflowNotices, ChangeFile, control, pass
<1>6. CASE Closes /\ UNCHANGED pass /\ UNCHANGED state
  <2>1. (full => full') /\ UNCHANGED <<stage, job>>
    BY <1>6 DEF Closes, pass
  <2> QED
    BY <1>6, <2>1, UnreadCarry, SMT DEF Refreshing, Running
<1>7. ASSUME NEW n \in notices, DeliverNotice(n) PROVE UnreadAt(p)'
  <2>1. UNCHANGED state /\ UNCHANGED pass /\ (Closes \/ UNCHANGED control)
    BY <1>7, DeliverEffect
  <2> QED
    BY <1>1, <1>6, <2>1, Zenon DEF control, pass
<1>8. CASE RequestRepair \/ \E q \in Paths : QueryMissesFile(q)
  BY <1>6, <1>8, RequestEffect
<1>9. CASE (\E q \in Paths : WalkFile(q) \/ ReadFile(q)) \/ PlanReads
  <2>1. UNCHANGED <<full, job>> /\ UNCHANGED state /\ stage # "idle" /\ stage' # "idle"
    BY <1>9, Zenon DEF WalkFile, ReadFile, PlanReads, control
  <2>2. (Refreshing)' <=> Refreshing
    BY <2>1, Zenon DEF Refreshing, Running
  <2> QED
    BY <2>1, <2>2, UnreadCarry
<1>10. CASE UNCHANGED vars \/ SaveCheckpoint \/ RefreshExhausted
  BY <1>1, <1>10, Zenon DEF vars, SaveCheckpoint, RefreshExhausted, control, pass
<1>11. CASE BootstrapBase \/ Restart
  <2>1. full' = TRUE
    BY <1>11, Zenon DEF BootstrapBase, Restart
  <2> QED
    BY <2>1, Zenon DEF UnreadAt
<1>12. CASE PassNext
  <2>1. CASE PublishRefresh \/ RepairVerify
    BY <1>2, <2>1, Zenon DEF PublishRefresh, RepairVerify, PublishPrepared
  <2>2. CASE TearRefresh \/ TearVerify
    BY <1>2, <2>2, Zenon DEF TearRefresh, TearVerify, Torn
  <2>3. CASE RejectRefresh \/ FailRefresh
    <3>1. AbandonRefresh /\ ~job.verify /\ stage # "idle" /\ UNCHANGED state
      BY <2>3, SMT DEF RejectRefresh, FailRefresh, PassRead, LostFile, Fault
    <3>2. stage # "idle" /\ ~job.verify /\ AbandonRefresh
      BY <3>1
    <3>3. (full => full') /\ (job.full => full')
      BY <3>2, RefreshGivesBack
    <3> QED
      BY <3>1, <3>3, UnreadCarry, Zenon
  <2>4. CASE job.verify /\ AbandonVerify /\ UNCHANGED state
    <3>1. (full => full') /\ ~Refreshing
      BY <2>4, VerifyGivesBack, Zenon DEF Refreshing
    <3> QED
      BY <2>4, <3>1, UnreadCarry, Zenon
  <2>5. CASE FailVerify /\ UNCHANGED control
    <3>1. UNCHANGED state /\ ~Refreshing /\ full' = full
      BY <2>5, Zenon DEF FailVerify, control, Refreshing
    <3> QED
      BY <3>1, UnreadCarry, Zenon
  <2>6. CASE FinishVerify
    <3>1. /\ stage = "read" /\ todo = {} /\ job.verify /\ ~stale /\ evidence' = prepared
          /\ UNCHANGED control /\ UNCHANGED <<overlay, restored_content>>
      BY <2>6, SMT DEF FinishVerify, PassRead
    <3>2. /\ VersionOf(evidence[p])' = NoVersion => VersionOf(evidence[p]) = NoVersion
          /\ Visible(p)' = Visible(p)
      BY <3>1, SMT DEF PreparedInv, Processed, VersionAt, VersionOf, Visible
    <3> QED
      BY <3>1, <3>2, Zenon DEF UnreadAt, control, Refreshing
  <2> QED
    BY <1>9, <1>12, <2>1, <2>2, <2>3, <2>4, <2>5, <2>6, Zenon
    DEF PassNext, RejectVerify, FailVerify
<1> QED
  BY <1>3, <1>4, <1>5, <1>7, <1>8, <1>10, <1>11, <1>12, Zenon DEF Next, Refresh, RequestRefresh

-----------------------------------------------------------------------------
(* What the running pass examined. *)

LEMMA ExaminedInit == ASSUME Init, NEW p \in Paths PROVE ExaminedAt(p)
  BY SMT DEF Init, ExaminedAt

LEMMA ExaminedStep ==
  ASSUME TypeOK, NEW p \in Paths, ExaminedAt(p), ~VersionsRecur, [Next]_vars
  PROVE  ExaminedAt(p)'
<1>1. CASE p \notin examined'
  BY <1>1 DEF ExaminedAt
<1>2. CASE UNCHANGED pass /\ UNCHANGED examined /\ UNCHANGED disk
  BY <1>2, SMT DEF pass, ExaminedAt, Processed
<1>3. CASE CheckoutNext
  <2>1. UNCHANGED pass /\ (Untouched(p) \/ Touched(p))
    BY <1>3, CheckoutEffect
  <2>2. p \in examined' => p \in examined /\ disk'[p] = disk[p]
    BY <2>1 DEF Untouched, Touched
  <2> QED
    BY <2>1, <2>2, SMT DEF pass, ExaminedAt, Processed
<1>4. ASSUME NEW n \in notices, DeliverNotice(n) PROVE ExaminedAt(p)'
  BY <1>2, <1>4, DeliverEffect DEF observers
<1>5. CASE RequestRepair \/ \E q \in Paths : QueryMissesFile(q)
  BY <1>2, <1>5, RequestEffect DEF observers, checkout
<1>6. ASSUME NEW reread \in BOOLEAN, BeginRefresh(reread) \/ BeginVerify(reread)
      PROVE  ExaminedAt(p)'
  BY <1>1, <1>6, SMT DEF BeginRefresh, BeginVerify, StartPass
<1>7. ASSUME NEW q \in Paths, WalkFile(q) PROVE ExaminedAt(p)'
  <2>1. /\ stage = "walk" /\ stage' = "walk" /\ todo' = todo \ {q} /\ q \in todo
        /\ walked' = [walked EXCEPT ![q] = VersionOf(disk[q])]
        /\ examined' = IF disk[q] = Missing THEN examined \cup {q} ELSE examined
        /\ UNCHANGED <<disk, prepared>>
    BY <1>7, SMT DEF WalkFile, checkout
  <2>2. /\ walked'[q] = VersionOf(disk[q])
        /\ p # q => walked'[p] = walked[p]
    BY <2>1, SMT DEF TypeOK, DataOK
  <2> QED
    BY <2>1, <2>2, SMT DEF ExaminedAt, Processed, VersionOf
<1>8. CASE PlanReads
  <2>1. UNCHANGED disk
    BY <1>8, SMT DEF PlanReads, checkout
  <2> QED
    BY <1>8, <2>1, PlanEffect, SMT DEF ExaminedAt, Processed
<1>9. ASSUME NEW q \in Paths, ReadFile(q) PROVE ExaminedAt(p)'
  <2>1. UNCHANGED disk
    BY <1>9, SMT DEF ReadFile, checkout
  <2> QED
    BY <1>9, <2>1, ReadEffect, SMT DEF ExaminedAt, Processed
<1>10. CASE Ends
  BY <1>1, <1>10, EndState
<1>11. CASE Restart
  BY <1>1, <1>11, SMT DEF Restart, EndPass
<1>12. CASE UNCHANGED vars \/ RefreshExhausted \/ BootstrapBase \/ SaveCheckpoint
  BY <1>2, <1>12, Zenon DEF vars, RefreshExhausted, BootstrapBase, SaveCheckpoint, checkout,
     observers
<1> QED
  BY <1>3, <1>4, <1>5, <1>6, <1>7, <1>8, <1>9, <1>10, <1>11, <1>12, EndCases, Zenon
  DEF Next, PassNext, Refresh, RequestRefresh

-----------------------------------------------------------------------------
(* The filter. *)

LEMMA FilterInit == ASSUME Init, NEW p \in Paths PROVE FilterAt(p)
  BY SMT DEF Init, FreshState, NoPass, NoPaths, FilterAt, SameVersion, VersionOf

LEMMA FilterCarry ==
  ASSUME NEW p \in Paths, VersionAt(p), FilterAt(p), disk' = disk,
         p \notin unannounced' => p \notin unannounced,
         evidence'[p] \in {evidence[p], prepared[p], Missing},
         prepared'[p] \in {evidence[p], prepared[p], disk[p], Missing}
  PROVE  FilterAt(p)'
  BY SMT DEF VersionAt, FilterAt, SameVersion, SameContent, VersionOf, ContentOf

LEMMA FilterStep ==
  ASSUME TypeOK, NEW p \in Paths, VersionAt(p), ExaminedAt(p), FilterAt(p),
         ~VersionsRecur, [Next]_vars
  PROVE  FilterAt(p)'
<1>1. CASE CheckoutNext
  <2>1. UNCHANGED <<evidence, prepared>> /\ (Untouched(p) \/ Touched(p))
    BY <1>1, CheckoutEffect DEF state, pass
  <2>2. CASE Untouched(p)
    BY <2>1, <2>2, SMT DEF Untouched, FilterAt, SameVersion, SameContent, VersionOf, ContentOf
  <2>3. CASE Touched(p)
    BY <2>1, <2>3, SMT DEF Touched, Rewritten, VersionAt, FilterAt, SameVersion, VersionOf,
                          TypeOK, DataOK
  <2> QED
    BY <2>1, <2>2, <2>3
<1>2. CASE UNCHANGED <<disk, unannounced, evidence, prepared>>
  BY <1>2, FilterCarry, SMT
<1>3. ASSUME NEW n \in notices, DeliverNotice(n) PROVE FilterAt(p)'
  BY <1>2, <1>3, DeliverEffect DEF observers, state, pass
<1>4. CASE RequestRepair \/ \E q \in Paths : QueryMissesFile(q)
  BY <1>2, <1>4, RequestEffect DEF observers, checkout, state, pass
<1>5. ASSUME NEW reread \in BOOLEAN, BeginRefresh(reread) \/ BeginVerify(reread)
      PROVE  FilterAt(p)'
  <2>1. UNCHANGED <<disk, unannounced, evidence>> /\ prepared'[p] = Missing
    BY <1>5, SMT DEF BeginRefresh, BeginVerify, StartPass, NoPaths, checkout, state
  <2> QED
    BY <2>1, FilterCarry, SMT
<1>6. ASSUME NEW q \in Paths, WalkFile(q) PROVE FilterAt(p)'
  BY <1>2, <1>6, SMT DEF WalkFile, checkout, state
<1>7. CASE PlanReads
  <2>1. UNCHANGED <<disk, unannounced, evidence>>
    BY <1>7, SMT DEF PlanReads, checkout, state, observers
  <2>2. prepared'[p] \in {evidence[p], Missing}
    BY <1>7, PlanEffect, SMT
  <2> QED
    BY <2>1, <2>2, FilterCarry, SMT
<1>8. ASSUME NEW q \in Paths, ReadFile(q) PROVE FilterAt(p)'
  <2>1. UNCHANGED <<disk, unannounced, evidence>>
    BY <1>8, SMT DEF ReadFile, checkout, state
  <2>2. prepared'[p] \in {evidence[p], prepared[p], disk[p]}
    BY <1>8, ReadEffect, SMT
  <2> QED
    BY <2>1, <2>2, FilterCarry, SMT
<1>9. CASE Ends
  <2>1. disk' = disk /\ prepared'[p] = Missing
    BY <1>9, EndState DEF Ends
  <2>2. CASE UNCHANGED state /\ UNCHANGED unannounced
    BY <2>1, <2>2, FilterCarry, SMT DEF state
  <2>3. CASE evidence'[p] = prepared[p] /\ (p \notin unannounced' => p \notin unannounced)
    BY <2>1, <2>3, FilterCarry, SMT
  <2>4. CASE evidence'[p] = prepared[p] /\ p \in examined /\ PassRead
    <3>1. evidence'[p] = disk[p]
      BY <2>4, SMT DEF ExaminedAt, Processed, PassRead
    <3> QED
      BY <2>1, <3>1, SMT DEF VersionAt, FilterAt, SameVersion, SameContent, VersionOf, ContentOf
  <2> QED
    BY <1>9, <2>2, <2>3, <2>4, EndState
<1>10. CASE BootstrapBase
  <2>1. disk' = disk /\ UNCHANGED <<prepared, unannounced>> /\ VersionOf(evidence[p])' = NoVersion
    BY <1>10, SMT DEF BootstrapBase, checkout, pass, observers, VersionOf
  <2> QED
    BY <2>1, SMT DEF VersionAt, FilterAt, SameVersion, SameContent, VersionOf, ContentOf
<1>11. CASE Restart
  <2>1. disk' = disk /\ evidence'[p] = Missing /\ prepared'[p] = Missing
    BY <1>11, SMT DEF Restart, EndPass, NoPaths
  <2> QED
    BY <2>1, SMT DEF VersionAt, FilterAt, SameVersion, VersionOf
<1>12. CASE UNCHANGED vars \/ RefreshExhausted \/ SaveCheckpoint
  BY <1>2, <1>12, Zenon DEF vars, RefreshExhausted, SaveCheckpoint, checkout, state, pass,
     observers
<1> QED
  BY <1>1, <1>3, <1>4, <1>5, <1>6, <1>7, <1>8, <1>9, <1>10, <1>11, <1>12, EndCases, Zenon
  DEF Next, PassNext, Refresh, RequestRefresh

-----------------------------------------------------------------------------
(* Changes behind the walk. *)

LEMMA WalkInit == ASSUME Init, NEW p \in Paths PROVE WalkAt(p)
  BY SMT DEF Init, NoPass, WalkAt

LEMMA WalkCarry ==
  ASSUME NEW p \in Paths, WalkAt(p), disk'[p] = disk[p],
         UNCHANGED <<evidence, stage, todo, walked, epoch, job>>,
         Quiet(p)' => Quiet(p)
  PROVE  WalkAt(p)'
  BY SMT DEF WalkAt, SameVersion, VersionOf, Exhausted

LEMMA WalkCheckout ==
  ASSUME TypeOK, NEW p \in Paths, VersionAt(p), WalkAt(p), CheckoutNext, ~VersionsRecur
  PROVE  WalkAt(p)'
<1>1. UNCHANGED <<evidence, stage, todo, walked, epoch, job>> /\ (Untouched(p) \/ Touched(p))
  BY CheckoutEffect, Zenon DEF control, state, pass
<1>2. CASE Untouched(p)
  BY <1>1, <1>2, WalkCarry, Zenon DEF Untouched
<1>3. CASE Touched(p)
  <2>1. ~Quiet(p)'
    BY <1>3 DEF Touched
  <2>2. CASE disk'[p] # Missing /\ disk'[p].version = clock' /\ clock' = clock + 1
    BY <1>1, <2>1, <2>2, SMT DEF WalkAt, VersionAt, SameVersion, VersionOf, TypeOK, DataOK
  <2>3. CASE disk'[p] = Missing
    BY <2>1, <2>3, Zenon DEF WalkAt
  <2>4. CASE Rewritten(p)
    BY <1>1, <2>1, <2>4, SMT DEF Rewritten, WalkAt, SameVersion, VersionOf
  <2> QED
    BY <1>3, <2>2, <2>3, <2>4 DEF Touched
<1> QED
  BY <1>1, <1>2, <1>3

LEMMA WalkDeliver ==
  ASSUME TypeOK, GateInv, NEW p \in Paths, WalkAt(p), NEW n \in notices, DeliverNotice(n)
  PROVE  WalkAt(p)'
<1>1. /\ notices' = notices \ {n} /\ UNCHANGED observers /\ disk' = disk
      /\ UNCHANGED <<evidence, stage, todo, walked, job>>
  BY DeliverEffect, Zenon DEF state, pass
<1>2. CASE Dropped(n) /\ n.path \in Paths /\ UNCHANGED control
  <2> SUFFICES ASSUME stage = "walk", p \notin todo, walked[p] # VersionOf(disk[p])
               PROVE  /\ Quiet(p)' => epoch # job.epoch \/ Exhausted
                      /\ disk[p] # Missing => ~SameVersion(p, evidence[p])
    BY <1>1, <1>2, SMT DEF WalkAt, control, SameVersion, VersionOf, Exhausted
  <2>1. n.path # p
    BY <1>2, SMT DEF WalkAt, Dropped, UnchangedFile, SameVersion
  <2>2. n.path # Root
    BY <1>2, RootAssumption
  <2>3. Quiet(p)' => Quiet(p)
    BY <1>1, <2>1, <2>2, DeliverQuiet
  <2> QED
    BY <2>3 DEF WalkAt
<1>3. CASE Closes
  <2>1. stage # "idle" => epoch' # job.epoch \/ Exhausted'
    BY <1>1, <1>3, ClosesPass
  <2> QED
    BY <1>1, <2>1, SMT DEF WalkAt, SameVersion, VersionOf
<1> QED
  BY <1>2, <1>3, DeliverEffect

LEMMA WalkStep ==
  ASSUME TypeOK, GateInv, NEW p \in Paths, VersionAt(p), WalkAt(p), ~VersionsRecur, [Next]_vars
  PROVE  WalkAt(p)'
<1>1. CASE stage' # "walk" \/ p \in todo'
  BY <1>1, Zenon DEF WalkAt
<1>2. CASE /\ UNCHANGED <<disk, notices, unannounced>>
           /\ UNCHANGED <<evidence, stage, todo, walked, epoch, job>>
  <2>1. Quiet(p)' => Quiet(p)
    BY <1>2, Zenon DEF Quiet
  <2> QED
    BY <1>2, <2>1, WalkCarry, Zenon
<1>3. CASE CheckoutNext
  BY <1>3, WalkCheckout
<1>4. ASSUME NEW n \in notices, DeliverNotice(n) PROVE WalkAt(p)'
  BY <1>4, WalkDeliver
<1>5. CASE RequestRepair \/ \E q \in Paths : QueryMissesFile(q)
  <2>1. Closes /\ disk' = disk /\ UNCHANGED <<evidence, stage, todo, walked, job>>
    BY <1>5, RequestEffect, Zenon DEF checkout, state, pass
  <2>2. stage # "idle" => epoch' # job.epoch \/ Exhausted'
    BY <2>1, ClosesPass
  <2> QED
    BY <2>1, <2>2, SMT DEF WalkAt, SameVersion, VersionOf
<1>6. ASSUME NEW reread \in BOOLEAN, BeginRefresh(reread) \/ BeginVerify(reread)
      PROVE  WalkAt(p)'
  BY <1>1, <1>6, SMT DEF BeginRefresh, BeginVerify, StartPass
<1>7. ASSUME NEW q \in Paths, WalkFile(q) PROVE WalkAt(p)'
  <2>1. /\ todo' = todo \ {q} /\ q \in todo
        /\ walked' = [walked EXCEPT ![q] = VersionOf(disk[q])]
        /\ UNCHANGED <<disk, notices, unannounced, evidence, stage, epoch, job>>
    BY <1>7, Zenon DEF WalkFile, checkout, control, state
  <2>2. CASE p = q
    <3>1. walked'[p] = VersionOf(disk[p])'
      BY <2>1, <2>2, SMT DEF TypeOK, DataOK, VersionOf
    <3> QED
      BY <3>1, Zenon DEF WalkAt
  <2>3. CASE p # q
    <3>1. walked'[p] = walked[p] /\ (p \in todo' <=> p \in todo)
      BY <2>1, <2>3, SMT DEF TypeOK, DataOK
    <3>2. Quiet(p)' => Quiet(p)
      BY <2>1, Zenon DEF Quiet
    <3> QED
      BY <2>1, <3>1, <3>2, SMT DEF WalkAt, SameVersion, VersionOf, Exhausted
  <2> QED
    BY <2>2, <2>3
<1>8. CASE PlanReads \/ \E q \in Paths : ReadFile(q)
  <2>1. stage' = "read"
    BY <1>8, Zenon DEF PlanReads, ReadFile
  <2> QED
    BY <1>1, <2>1
<1>9. CASE Ends \/ Restart
  BY <1>1, <1>9, IdleEnd, SMT
<1>10. CASE UNCHANGED vars \/ SaveCheckpoint
  BY <1>2, <1>10, Zenon DEF vars, SaveCheckpoint, checkout, control, state, pass, observers
<1>11. CASE RefreshExhausted \/ BootstrapBase
  BY <1>1, <1>11, SMT DEF RefreshExhausted, BootstrapBase, pass
<1> QED
  BY <1>3, <1>4, <1>5, <1>6, <1>7, <1>8, <1>9, <1>10, <1>11, EndCases, Zenon
  DEF Next, PassNext, Refresh, RequestRefresh

-----------------------------------------------------------------------------
(* Changes behind the reads. *)

LEMMA ReadInit == ASSUME Init, NEW p \in Paths PROVE ReadAt(p)
  BY SMT DEF Init, NoPass, ReadAt, Processed

Ahead(p) == Owes(p) /\ epoch # job.epoch

LEMMA ReadCarry ==
  ASSUME NEW p \in Paths, ReadAt(p), Processed(p)' => Processed(p),
         disk'[p] = disk[p], evidence'[p] = evidence[p], prepared'[p] = prepared[p],
         Ahead(p) => Ahead(p)' \/ Exhausted',
         epoch # job.epoch => (epoch # job.epoch)' \/ Exhausted',
         Exhausted => Exhausted',
         SoftQuiet(p)' => SoftQuiet(p), Quiet(p)' => Quiet(p)
  PROVE  ReadAt(p)'
<1>1. /\ SameContent(p, prepared[p])' <=> SameContent(p, prepared[p])
      /\ SameVersion(p, prepared[p])' <=> SameVersion(p, prepared[p])
      /\ SameVersion(p, evidence[p])' <=> SameVersion(p, evidence[p])
  BY SMT DEF SameContent, SameVersion, ContentOf, VersionOf
<1> QED
  BY <1>1, Zenon DEF ReadAt, Ahead, Owes

\* Evidence that is reused although it is wrong: the news of the change is
\* queued beside the pass.
LEMMA ReuseAhead ==
  ASSUME TypeOK, GateInv, OverlayInv, NEW p \in Paths, OwedAt(p), stage # "idle",
         ~job.full, p \notin job.hints, evidence[p] # Missing,
         SameVersion(p, evidence[p]), SoftQuiet(p), ~SameContent(p, evidence[p])
  PROVE  Ahead(p) \/ Exhausted
<1>1. ~Reflected(p)
  BY SMT DEF OverlayInv, Reflected, SameContent
<1>2. Owes(p) \/ Exhausted
  BY <1>1, Zenon DEF OwedAt, ToBeRead, SameVersion, Owes
<1>3. Owes(p) /\ ~Exhausted => epoch # job.epoch
  BY SMT DEF GateInv, Running, Owes
<1> QED
  BY <1>2, <1>3 DEF Ahead

LEMMA ReadPlan ==
  ASSUME SafetyInv, NEW p \in Paths, VersionAt(p), WalkAt(p), OwedAt(p), PlanReads
  PROVE  ReadAt(p)'
<1> USE DEF SafetyInv
<1>1. /\ UNCHANGED <<disk, evidence, full, hints, epoch, job, notices, unannounced>>
      /\ stage = "walk" /\ todo = {}
  BY Zenon DEF PlanReads, checkout, state, observers
<1>2. /\ SoftQuiet(p)' <=> SoftQuiet(p)
      /\ Quiet(p)' <=> Quiet(p)
      /\ Exhausted' <=> Exhausted
      /\ Ahead(p)' <=> Ahead(p)
  BY <1>1, Zenon DEF SoftQuiet, Quiet, Exhausted, Ahead, Owes
<1>3. CASE p \in todo'
  BY <1>3 DEF ReadAt, Processed
<1>4. CASE walked[p] = NoVersion /\ prepared'[p] = Missing
  <2>1. CASE disk[p] = Missing
    BY <1>1, <1>4, <2>1, SMT DEF ReadAt, SameContent, SameVersion
  <2>2. CASE disk[p] # Missing
    <3>1. VersionOf(disk[p]) # NoVersion
      BY <2>2, SMT DEF VersionAt, VersionOf
    <3>2. /\ Quiet(p) => epoch # job.epoch \/ Exhausted
          /\ ~SameVersion(p, evidence[p])
      BY <1>1, <1>4, <2>2, <3>1, SMT DEF WalkAt
    <3>3. ~SameVersion(p, prepared[p])'
      BY <1>1, <1>4, <3>1, SMT DEF SameVersion, VersionOf
    <3>4. ~SameVersion(p, evidence[p])'
      BY <1>1, <3>2, SMT DEF SameVersion, VersionOf
    <3> QED
      BY <1>1, <1>2, <3>2, <3>3, <3>4, Zenon DEF ReadAt
  <2> QED
    BY <2>1, <2>2
<1>5. CASE Reusable(p) /\ walked[p] # NoVersion /\ prepared'[p] = evidence[p]
  <2>1. /\ SameContent(p, prepared[p])' <=> SameContent(p, evidence[p])
        /\ SameVersion(p, prepared[p])' <=> SameVersion(p, evidence[p])
        /\ SameVersion(p, evidence[p])' <=> SameVersion(p, evidence[p])
    BY <1>1, <1>5, SMT DEF SameContent, SameVersion, ContentOf, VersionOf
  <2>2. CASE SameVersion(p, evidence[p])
    <3>1. SoftQuiet(p) /\ ~SameContent(p, evidence[p]) => Ahead(p) \/ Exhausted
      BY <1>1, <1>5, <2>2, ReuseAhead, SMT DEF Reusable
    <3>2. Quiet(p) => SoftQuiet(p)
      BY Zenon DEF Quiet, SoftQuiet, RescanNotice, TypeOK, DataOK, Notice
    <3> QED
      BY <1>1, <1>2, <2>1, <2>2, <3>1, <3>2, Zenon DEF ReadAt, Ahead, Owes
  <2>3. CASE ~SameVersion(p, evidence[p])
    <3>1. Quiet(p) => epoch # job.epoch \/ Exhausted
      BY <1>1, <1>5, <2>3, SMT DEF WalkAt, Reusable, SameVersion
    <3> QED
      BY <1>1, <1>2, <2>1, <2>3, <3>1, Zenon DEF ReadAt
  <2> QED
    BY <2>2, <2>3
<1> QED
  BY <1>3, <1>4, <1>5, PlanEffect

LEMMA ReadRead ==
  ASSUME SafetyInv, NEW p \in Paths, ReadAt(p), OwedAt(p), NEW q \in Paths, ReadFile(q)
  PROVE  ReadAt(p)'
<1> USE DEF SafetyInv
<1>1. /\ UNCHANGED <<disk, evidence, full, hints, epoch, job, notices, unannounced>>
      /\ stage = "read" /\ stage' = "read" /\ q \in todo /\ todo' = todo \ {q}
  BY Zenon DEF ReadFile, checkout, state
<1>2. /\ SoftQuiet(p)' <=> SoftQuiet(p)
      /\ Quiet(p)' <=> Quiet(p)
      /\ Exhausted' <=> Exhausted
      /\ Ahead(p)' <=> Ahead(p)
  BY <1>1, Zenon DEF SoftQuiet, Quiet, Exhausted, Ahead, Owes
<1>3. CASE p # q
  <2>1. prepared'[p] = prepared[p] /\ (Processed(p)' => Processed(p))
    BY <1>1, <1>3, ReadEffect, SMT DEF Processed
  <2> QED
    BY <1>1, <1>2, <2>1, ReadCarry, Zenon
<1>4. CASE p = q /\ prepared'[p] = disk[p]
  BY <1>1, <1>4, SMT DEF ReadAt, SameContent, SameVersion
<1>5. CASE p = q /\ Spared(p) /\ prepared'[p] = evidence[p]
  <2>1. /\ SameContent(p, prepared[p])' <=> SameContent(p, evidence[p])
        /\ SameVersion(p, prepared[p])' <=> SameVersion(p, evidence[p])
    BY <1>1, <1>5, SMT DEF SameContent, SameVersion, ContentOf, VersionOf
  <2>2. SameVersion(p, evidence[p])
    BY <1>5, ReadEffect, SMT DEF Spared, SameVersion, VersionOf
  <2>3. SoftQuiet(p) /\ ~SameContent(p, evidence[p]) => Ahead(p) \/ Exhausted
    BY <1>1, <1>5, <2>2, ReuseAhead, SMT DEF Spared
  <2>4. Quiet(p) => SoftQuiet(p)
    BY Zenon DEF Quiet, SoftQuiet, RescanNotice, TypeOK, DataOK, Notice
  <2> QED
    BY <1>1, <1>2, <2>1, <2>2, <2>3, <2>4, Zenon DEF ReadAt, Ahead, Owes
<1> QED
  BY <1>3, <1>4, <1>5, ReadEffect, Zenon

LEMMA ReadCheckout ==
  ASSUME TypeOK, NEW p \in Paths, VersionAt(p), ReadAt(p), CheckoutNext, ~VersionsRecur
  PROVE  ReadAt(p)'
<1>1. /\ UNCHANGED <<evidence, prepared, full, hints, stage, todo, epoch, job>>
      /\ Untouched(p) \/ Touched(p)
  BY CheckoutEffect, Zenon DEF control, state, pass
<1>2. CASE Untouched(p)
  <2>1. (Processed(p)' => Processed(p)) /\ (Exhausted' <=> Exhausted) /\ (Ahead(p)' <=> Ahead(p))
    BY <1>1, Zenon DEF Processed, Exhausted, Ahead, Owes
  <2> QED
    BY <1>1, <1>2, <2>1, ReadCarry, Zenon DEF Untouched
<1>3. CASE Touched(p)
  <2>1. ~Quiet(p)'
    BY <1>3 DEF Touched
  <2>2. CASE disk'[p] # Missing /\ disk'[p].version = clock' /\ clock' = clock + 1
    BY <1>1, <2>1, <2>2, SMT DEF ReadAt, VersionAt, SameVersion, VersionOf, TypeOK, DataOK
  <2>3. CASE disk'[p] = Missing
    BY <1>1, <2>1, <2>3, SMT DEF ReadAt, VersionAt, SameContent, SameVersion, VersionOf, ContentOf
  <2>4. CASE Rewritten(p)
    BY <1>1, <2>1, <2>4, SMT DEF Rewritten, ReadAt, Processed, SameVersion, VersionOf
  <2> QED
    BY <1>3, <2>2, <2>3, <2>4 DEF Touched
<1> QED
  BY <1>1, <1>2, <1>3

\* What a notice that is dropped announced, the prepared entry describes.
LEMMA ReadDropped ==
  ASSUME NEW p \in Paths, FilterAt(p), ReadAt(p), Processed(p), p \notin unannounced,
         NEW n, Dropped(n), n.path = p
  PROVE  SameVersion(p, prepared[p]) /\ SameContent(p, prepared[p])
<1>1. Filtered /\ disk[p] # Missing /\ SameVersion(p, evidence[p])
  BY SMT DEF Dropped, UnchangedFile, SameVersion
<1>2. SameVersion(p, prepared[p])
  BY <1>1, Zenon DEF ReadAt
<1> QED
  BY <1>1, <1>2, Zenon DEF FilterAt

LEMMA ReadDeliver ==
  ASSUME TypeOK, GateInv, NEW p \in Paths, FilterAt(p), ReadAt(p),
         NEW n \in notices, DeliverNotice(n)
  PROVE  ReadAt(p)'
<1>1. /\ notices' = notices \ {n} /\ UNCHANGED observers /\ disk' = disk
      /\ UNCHANGED <<evidence, prepared, stage, todo, job>>
  BY DeliverEffect, Zenon DEF state, pass
<1>2. /\ SameContent(p, prepared[p])' <=> SameContent(p, prepared[p])
      /\ SameVersion(p, prepared[p])' <=> SameVersion(p, prepared[p])
      /\ SameVersion(p, evidence[p])' <=> SameVersion(p, evidence[p])
      /\ Processed(p)' <=> Processed(p)
  BY <1>1, SMT DEF SameContent, SameVersion, ContentOf, VersionOf, Processed
<1>3. CASE Dropped(n) /\ n.path \in Paths /\ UNCHANGED control
  <2>1. epoch' = epoch /\ (Exhausted' <=> Exhausted) /\ (Ahead(p)' <=> Ahead(p))
    BY <1>1, <1>3, Zenon DEF control, Exhausted, Ahead, Owes
  <2>2. n.kind # "rescan" /\ n.path # Root
    BY <1>3, RootAssumption, SMT DEF Dropped
  <2>3. CASE n.path # p
    <3>1. (Quiet(p)' => Quiet(p)) /\ (SoftQuiet(p)' => SoftQuiet(p))
      BY <1>1, <2>2, <2>3, DeliverQuiet, Zenon
    <3> QED
      BY <1>1, <1>2, <2>1, <3>1, ReadCarry, Zenon
  <2>4. CASE n.path = p
    <3>1. Processed(p) /\ p \notin unannounced =>
            SameVersion(p, prepared[p]) /\ SameContent(p, prepared[p])
      BY <1>3, <2>4, ReadDropped
    <3>2. SoftQuiet(p)' => p \notin unannounced
      BY <1>1, Zenon DEF SoftQuiet, observers
    <3>3. Quiet(p)' => p \notin unannounced
      BY <1>1, Zenon DEF Quiet, observers
    <3> QED
      BY <1>1, <1>2, <3>1, <3>2, <3>3, Zenon DEF ReadAt
  <2> QED
    BY <2>3, <2>4
<1>4. CASE /\ Closes
           /\ ~Exhausted =>
                \A q \in Paths : n.path = q \/ n.kind = "rescan" => Owes(q)'
  <2>1. /\ Exhausted => Exhausted'
        /\ Processed(p) => epoch' # job'.epoch \/ Exhausted'
        /\ Processed(p) /\ epoch # job.epoch => epoch' # job'.epoch
    BY <1>1, <1>4, ClosesPass, SMT DEF Processed
  <2>2. Owes(p) => Owes(p)'
    BY <1>4 DEF Closes
  <2>3. ASSUME Processed(p), SoftQuiet(p)', ~SameContent(p, prepared[p])
        PROVE  ~SameVersion(p, prepared[p]) \/ Ahead(p)' \/ Exhausted'
    <3>1. CASE SoftQuiet(p)
      BY <2>1, <2>2, <2>3, <3>1, Zenon DEF ReadAt, Ahead, Owes
    <3>2. CASE ~SoftQuiet(p)
      <4>1. n.path = p \/ n.kind = "rescan"
        BY <1>1, <2>3, <3>2, DeliverQuiet
      <4> QED
        BY <1>4, <2>1, <2>3, <4>1, Zenon DEF Ahead
    <3> QED
      BY <3>1, <3>2
  <2>4. Processed(p) /\ disk[p] # Missing /\ ~SameVersion(p, prepared[p]) =>
          ~SameVersion(p, evidence[p])
    BY Zenon DEF ReadAt
  <2> QED
    BY <1>1, <1>2, <2>1, <2>3, <2>4, Zenon DEF ReadAt, Ahead, Owes
<1> QED
  BY <1>3, <1>4, DeliverEffect

LEMMA ReadStep ==
  ASSUME SafetyInv, NEW p \in Paths, VersionAt(p), FilterAt(p), WalkAt(p), ReadAt(p), OwedAt(p),
         ~VersionsRecur, [Next]_vars
  PROVE  ReadAt(p)'
<1> USE DEF SafetyInv
<1>1. CASE stage' # "read"
  BY <1>1, Zenon DEF ReadAt, Processed
<1>2. CASE /\ UNCHANGED <<disk, notices, unannounced, full, hints>>
           /\ UNCHANGED <<evidence, prepared, stage, todo, epoch, job>>
  <2>1. /\ SoftQuiet(p)' => SoftQuiet(p)
        /\ Quiet(p)' => Quiet(p)
        /\ Exhausted' <=> Exhausted
        /\ Ahead(p)' <=> Ahead(p)
        /\ Processed(p)' => Processed(p)
    BY <1>2, Zenon DEF SoftQuiet, Quiet, Exhausted, Ahead, Owes, Processed
  <2> QED
    BY <1>2, <2>1, ReadCarry, Zenon
<1>3. CASE CheckoutNext
  BY <1>3, ReadCheckout
<1>4. ASSUME NEW n \in notices, DeliverNotice(n) PROVE ReadAt(p)'
  BY <1>4, ReadDeliver
<1>5. CASE RequestRepair \/ \E q \in Paths : QueryMissesFile(q)
  <2>1. /\ Closes /\ UNCHANGED <<disk, notices, unannounced>>
        /\ UNCHANGED <<evidence, prepared, stage, todo, job>>
    BY <1>5, RequestEffect, Zenon DEF checkout, state, pass, observers
  <2>2. CASE stage = "read"
    <3>1. /\ Exhausted => Exhausted'
          /\ (epoch # job.epoch)' \/ Exhausted'
      BY <2>1, <2>2, ClosesPass, SMT
    <3>2. Owes(p) => Owes(p)'
      BY <2>1 DEF Closes
    <3>3. (SoftQuiet(p)' => SoftQuiet(p)) /\ (Quiet(p)' => Quiet(p)) /\ (Processed(p)' => Processed(p))
      BY <2>1, Zenon DEF SoftQuiet, Quiet, Processed
    <3>4. Ahead(p) => Ahead(p)' \/ Exhausted'
      BY <3>1, <3>2, Zenon DEF Ahead
    <3>5. disk'[p] = disk[p] /\ evidence'[p] = evidence[p] /\ prepared'[p] = prepared[p]
      BY <2>1
    <3> QED
      BY <3>1, <3>3, <3>4, <3>5, ReadCarry
  <2> QED
    BY <1>1, <2>1, <2>2
<1>6. ASSUME NEW reread \in BOOLEAN, BeginRefresh(reread) \/ BeginVerify(reread)
      PROVE  ReadAt(p)'
  BY <1>1, <1>6, SMT DEF BeginRefresh, BeginVerify, StartPass
<1>7. ASSUME NEW q \in Paths, WalkFile(q) PROVE ReadAt(p)'
  <2>1. stage' = "walk"
    BY <1>7, Zenon DEF WalkFile
  <2> QED
    BY <1>1, <2>1
<1>8. CASE PlanReads
  BY <1>8, ReadPlan
<1>9. ASSUME NEW q \in Paths, ReadFile(q) PROVE ReadAt(p)'
  BY <1>9, ReadRead
<1>10. CASE Ends \/ Restart
  BY <1>1, <1>10, IdleEnd, SMT
<1>11. CASE UNCHANGED vars \/ SaveCheckpoint
  BY <1>2, <1>11, Zenon DEF vars, SaveCheckpoint, checkout, control, state, pass, observers
<1>12. CASE RefreshExhausted \/ BootstrapBase
  BY <1>1, <1>12, SMT DEF RefreshExhausted, BootstrapBase, pass
<1> QED
  BY <1>3, <1>4, <1>5, <1>6, <1>7, <1>8, <1>9, <1>10, <1>11, <1>12, EndCases, Zenon
  DEF Next, PassNext, Refresh, RequestRefresh

-----------------------------------------------------------------------------
(* What queries see wrongly is owed. *)

LEMMA OwedInit == ASSUME Init, NEW p \in Paths PROVE OwedAt(p)
  BY Zenon DEF Init, FreshControl, OwedAt, ToBeRead

LEMMA OwedCarry ==
  ASSUME NEW p \in Paths, OwedAt(p), disk'[p] = disk[p], UNCHANGED state,
         SoftQuiet(p)' => SoftQuiet(p), Quiet(p)' => Quiet(p),
         ToBeRead(p) \/ Exhausted => ToBeRead(p)' \/ Exhausted',
         ready' => ready
  PROVE  OwedAt(p)'
<1>1. Reflected(p)' <=> Reflected(p)
  BY Zenon DEF state, Reflected, Visible, ContentOf
<1> QED
  BY <1>1, Zenon DEF OwedAt

LEMMA OwedCheckout ==
  ASSUME SafetyInv, NEW p \in Paths, VersionAt(p), UnreadAt(p), OwedAt(p), CheckoutNext, ~VersionsRecur
  PROVE  OwedAt(p)'
<1> USE DEF SafetyInv
<1>1. /\ UNCHANGED <<full, hints, stage, epoch, job, ready>> /\ UNCHANGED state
      /\ Untouched(p) \/ Touched(p)
  BY CheckoutEffect, Zenon DEF control, pass
<1>2. /\ evidence' = evidence /\ Visible(p)' = Visible(p)
  BY <1>1, Zenon DEF state, Visible
<1>3. CASE Untouched(p)
  <2>1. ToBeRead(p)' \/ Exhausted' <=> ToBeRead(p) \/ Exhausted
    BY <1>1, <1>2, <1>3, Zenon DEF Untouched, ToBeRead, Exhausted, VersionOf
  <2> QED
    BY <1>1, <1>3, <2>1, OwedCarry, Zenon DEF Untouched
<1>4. CASE Touched(p)
  <2>1. ~Quiet(p)'
    BY <1>4 DEF Touched
  <2>2. CASE disk'[p] # Missing /\ disk'[p].version = clock' /\ clock' = clock + 1
    <3>1. VersionOf(evidence[p])' # VersionOf(disk[p])'
      BY <1>2, <2>2, SMT DEF VersionAt, VersionOf, TypeOK, DataOK
    <3> QED
      BY <2>1, <3>1, Zenon DEF OwedAt, ToBeRead
  <2>3. CASE disk'[p] = Missing
    <3> SUFFICES ASSUME Visible(p) # NoContent PROVE ToBeRead(p)'
      BY <1>2, <2>1, <2>3, Zenon DEF OwedAt, Reflected, ContentOf
    <3>1. CASE VersionOf(evidence[p]) # NoVersion
      <4>1. VersionOf(evidence[p])' # VersionOf(disk[p])'
        BY <1>2, <2>3, <3>1, SMT DEF VersionOf
      <4> QED
        BY <4>1, Zenon DEF ToBeRead
    <3>2. CASE VersionOf(evidence[p]) = NoVersion
      BY <1>1, <3>2, Zenon DEF UnreadAt, ToBeRead, Refreshing, Running
    <3> QED
      BY <3>1, <3>2
  <2>4. CASE Rewritten(p)
    BY <2>1, <2>4, Zenon DEF Rewritten, OwedAt
  <2> QED
    BY <1>4, <2>2, <2>3, <2>4 DEF Touched
<1> QED
  BY <1>1, <1>3, <1>4

LEMMA OwedDeliver ==
  ASSUME SafetyInv, NEW p \in Paths, FilterAt(p), OwedAt(p), NEW n \in notices, DeliverNotice(n)
  PROVE  OwedAt(p)'
<1> USE DEF SafetyInv
<1>1. /\ notices' = notices \ {n} /\ UNCHANGED observers /\ disk' = disk
      /\ UNCHANGED <<stage, job>> /\ UNCHANGED state
  BY DeliverEffect, Zenon DEF pass
<1>2. /\ Reflected(p)' <=> Reflected(p)
      /\ (VersionOf(evidence[p]) # VersionOf(disk[p]))' <=> VersionOf(evidence[p]) # VersionOf(disk[p])
  BY <1>1, Zenon DEF state, Reflected, Visible, ContentOf, VersionOf
<1>3. CASE Dropped(n) /\ n.path \in Paths /\ UNCHANGED control
  <2>1. (ToBeRead(p) \/ Exhausted => ToBeRead(p)' \/ Exhausted') /\ ready' = ready
    BY <1>1, <1>2, <1>3, Zenon DEF control, ToBeRead, Exhausted
  <2>2. n.kind # "rescan" /\ n.path # Root
    BY <1>3, RootAssumption, SMT DEF Dropped
  <2>3. CASE n.path # p
    <3>1. (Quiet(p)' => Quiet(p)) /\ (SoftQuiet(p)' => SoftQuiet(p))
      BY <1>1, <2>2, <2>3, DeliverQuiet, Zenon
    <3> QED
      BY <1>1, <2>1, <3>1, OwedCarry, Zenon
  <2>4. CASE n.path = p
    <3>1. /\ Filtered /\ disk[p] # Missing /\ evidence[p] # Missing
          /\ SameVersion(p, evidence[p])
      BY <1>3, <2>4, SMT DEF Dropped, UnchangedFile, SameVersion
    <3>2. p \notin unannounced => Reflected(p)
      <4>1. p \notin unannounced => SameContent(p, evidence[p])
        BY <3>1, Zenon DEF FilterAt
      <4> QED
        BY <3>1, <4>1, SMT DEF OverlayInv, SameContent, Reflected
    <3>3. (SoftQuiet(p)' => p \notin unannounced) /\ (Quiet(p)' => p \notin unannounced)
      BY <1>1, Zenon DEF SoftQuiet, Quiet, observers
    <3> QED
      BY <1>2, <3>2, <3>3, Zenon DEF OwedAt
  <2> QED
    BY <2>3, <2>4
<1>4. CASE /\ Closes
           /\ ~Exhausted =>
                \A q \in Paths : n.path = q \/ n.kind = "rescan" => Owes(q)'
  <2>1. Exhausted => Exhausted'
    BY <1>1, <1>4, ClosesPass
  <2>2. (Owes(p) => Owes(p)') /\ ready' = FALSE
    BY <1>4 DEF Closes
  <2>3. ASSUME ~Reflected(p), SoftQuiet(p)' PROVE ToBeRead(p)' \/ Exhausted'
    <3>1. CASE SoftQuiet(p)
      BY <1>1, <1>2, <2>1, <2>2, <2>3, <3>1, Zenon DEF OwedAt, ToBeRead, Owes
    <3>2. CASE ~SoftQuiet(p)
      <4>1. n.path = p \/ n.kind = "rescan"
        BY <1>1, <2>3, <3>2, DeliverQuiet
      <4> QED
        BY <1>4, <2>1, <4>1, Zenon DEF ToBeRead, Owes
    <3> QED
      BY <3>1, <3>2
  <2> QED
    BY <1>2, <2>2, <2>3, Zenon DEF OwedAt
<1> QED
  BY <1>3, <1>4, DeliverEffect

\* Publishing: what the pass read is what the checkout has, or the pass was
\* overtaken by news that stays queued.
LEMMA OwedReplace ==
  ASSUME SafetyInv, NEW p \in Paths, ExaminedAt(p), ReadAt(p), PassRead, ReplaceState,
         UNCHANGED <<disk, notices>>,
         unannounced' \in {unannounced, unannounced \ examined},
         ~Exhausted, Ahead(p) => Owes(p)', epoch # job.epoch => ~ready'
  PROVE  OwedAt(p)'
<1> USE DEF SafetyInv
<1>1. /\ evidence'[p] = prepared[p] /\ Visible(p)' = ContentOf(prepared[p]) /\ Processed(p)
  BY ReplaceIsExact, SMT DEF PassRead, Processed
<1>2. /\ Reflected(p)' <=> SameContent(p, prepared[p])
      /\ (VersionOf(evidence[p]) # VersionOf(disk[p]))' <=> ~SameVersion(p, prepared[p])
  BY <1>1, SMT DEF Reflected, SameContent, SameVersion, ContentOf, VersionOf
<1>3. CASE p \in examined
  <2>1. prepared[p] = disk[p]
    BY <1>1, <1>3, SMT DEF ExaminedAt, Processed
  <2> QED
    BY <1>2, <2>1, Zenon DEF SameContent, OwedAt
<1>4. CASE p \notin examined
  <2>1. p \notin unannounced' => p \notin unannounced
    BY <1>4, Zenon
  <2>2. (SoftQuiet(p)' => SoftQuiet(p)) /\ (Quiet(p)' => Quiet(p))
    BY <2>1, Zenon DEF SoftQuiet, Quiet
  <2>3. ASSUME ~SameContent(p, prepared[p]), SoftQuiet(p) PROVE ToBeRead(p)'
    BY <1>1, <1>2, <2>3, Zenon DEF ReadAt, ToBeRead, Ahead, Owes
  <2>4. ASSUME ~SameContent(p, prepared[p]), Quiet(p) PROVE ~ready'
    BY <1>1, <2>4, Zenon DEF ReadAt
  <2> QED
    BY <1>2, <2>2, <2>3, <2>4, Zenon DEF OwedAt
<1> QED
  BY <1>3, <1>4

LEMMA OwedFinish ==
  ASSUME SafetyInv, NEW p \in Paths, ExaminedAt(p), ReadAt(p), OwedAt(p), FinishVerify
  PROVE  OwedAt(p)'
<1> USE DEF SafetyInv
<1>1. /\ UNCHANGED <<disk, notices, full, hints, epoch, ready, overlay>>
      /\ evidence' = prepared /\ unannounced' = unannounced \ examined
      /\ job.verify /\ ~stale /\ Processed(p)
  <2>1. /\ UNCHANGED checkout /\ UNCHANGED control /\ UNCHANGED overlay
        /\ evidence' = prepared /\ unannounced' = unannounced \ examined
        /\ job.verify /\ ~stale /\ stage = "read" /\ todo = {}
    BY SMT DEF FinishVerify, PassRead
  <2> QED
    BY <2>1, SMT DEF checkout, control, Processed
<1>2. Visible(p) = ContentOf(prepared[p])
  BY <1>1, SMT DEF PreparedInv, OverlayInv, OverlayMatchesEvidence, GateInv
<1>3. /\ Reflected(p)' <=> SameContent(p, prepared[p])
      /\ Reflected(p) <=> SameContent(p, prepared[p])
      /\ (VersionOf(evidence[p]) # VersionOf(disk[p]))' <=> ~SameVersion(p, prepared[p])
  BY <1>1, <1>2, SMT DEF Reflected, Visible, SameContent, SameVersion, ContentOf, VersionOf
<1>4. CASE p \in examined
  <2>1. prepared[p] = disk[p]
    BY <1>1, <1>4, SMT DEF ExaminedAt, Processed
  <2> QED
    BY <1>3, <2>1, Zenon DEF SameContent, OwedAt
<1>5. CASE p \notin examined
  <2>1. (SoftQuiet(p)' => SoftQuiet(p)) /\ (Quiet(p)' => Quiet(p))
    BY <1>1, <1>5, Zenon DEF SoftQuiet, Quiet
  <2>2. ASSUME ~SameContent(p, prepared[p]), SoftQuiet(p) PROVE ToBeRead(p)' \/ Exhausted'
    BY <1>1, <1>3, <2>2, Zenon DEF ReadAt, ToBeRead, Exhausted
  <2>3. ASSUME ~SameContent(p, prepared[p]), Quiet(p) PROVE ~ready'
    BY <1>1, <1>3, <2>3, Zenon DEF OwedAt
  <2> QED
    BY <1>3, <2>1, <2>2, <2>3, Zenon DEF OwedAt
<1> QED
  BY <1>4, <1>5

\* A pass that publishes nothing gives its work back.
LEMMA OwedAbandon ==
  ASSUME SafetyInv, KeptInv, NEW p \in Paths, OwedAt(p), UNCHANGED <<disk, notices, unannounced>>,
         UNCHANGED state, stage # "idle",
         \/ ~job.verify /\ AbandonRefresh /\ epoch' = epoch
         \/ job.verify /\ AbandonVerify /\ epoch' = EpochAfter(1)
  PROVE  OwedAt(p)'
<1> USE DEF SafetyInv
<1>1. (SoftQuiet(p)' => SoftQuiet(p)) /\ (Quiet(p)' => Quiet(p))
  BY Zenon DEF SoftQuiet, Quiet
<1>2. /\ Owes(p) => Owes(p)'
      /\ ~job.verify /\ (job.full \/ p \in job.hints) => Owes(p)'
      /\ Exhausted => Exhausted'
  <2>1. CASE ~job.verify /\ AbandonRefresh /\ epoch' = epoch
    BY <2>1, RefreshGivesBack, Zenon DEF Exhausted, Owes
  <2>2. CASE job.verify /\ AbandonVerify /\ epoch' = EpochAfter(1)
    <3>1. Exhausted => Exhausted'
      BY <2>2, BoundAssumption, SMT DEF Exhausted, EpochAfter
    <3> QED
      BY <2>2, <3>1, VerifyGivesBack, Zenon
  <2> QED
    BY <2>1, <2>2
<1>3. ToBeRead(p) \/ Exhausted => ToBeRead(p)' \/ Exhausted'
  <2>1. VersionOf(evidence[p]) # VersionOf(disk[p]) =>
          (VersionOf(evidence[p]) # VersionOf(disk[p]))'
    BY Zenon DEF state, VersionOf
  <2> QED
    BY <1>2, <2>1, Zenon DEF ToBeRead, Owes
<1>4. ~ready'
  <2>1. CASE ~job.verify /\ AbandonRefresh
    BY <2>1, Zenon DEF AbandonRefresh, PutBack, GateInv, Refreshing, Running
  <2>2. CASE job.verify /\ AbandonVerify
    BY <2>2, Zenon DEF AbandonVerify
  <2> QED
    BY <2>1, <2>2
<1> QED
  BY <1>1, <1>3, <1>4, OwedCarry, Zenon

LEMMA OwedEnd ==
  ASSUME SafetyInv, KeptInv, NEW p \in Paths, ExaminedAt(p), ReadAt(p), OwedAt(p),
         \/ PublishRefresh \/ RejectRefresh \/ FailRefresh \/ TearRefresh
         \/ FinishVerify \/ RepairVerify \/ RejectVerify \/ FailVerify \/ TearVerify
  PROVE  OwedAt(p)'
<1> USE DEF SafetyInv
<1>0. ~job.verify /\ stage # "idle" => ~ready
  BY Zenon DEF GateInv, Refreshing, Running
<1>1. CASE PublishRefresh
  <2>1. /\ PassRead /\ ReplaceState /\ UNCHANGED <<disk, notices>> /\ ~Exhausted
        /\ unannounced' = unannounced \ examined
        /\ epoch # job.epoch => UNCHANGED <<full, hints, ready>>
        /\ ~job.verify
    BY <1>1, Zenon DEF PublishRefresh, PublishPrepared, checkout
  <2>2. stage # "idle"
    BY <2>1, SMT DEF PassRead
  <2>3. ~ready
    BY <1>0, <2>1, <2>2
  <2>4. epoch # job.epoch => full' = full /\ hints' = hints /\ ready' = ready
    BY <2>1, Zenon
  <2>5. Ahead(p) => Owes(p)'
    BY <2>4, Zenon DEF Ahead, Owes
  <2>6. epoch # job.epoch => ~ready'
    BY <2>3, <2>4, Zenon
  <2> QED
    BY <2>1, <2>5, <2>6, OwedReplace, Zenon
<1>2. CASE RepairVerify
  <2>1. /\ PassRead /\ ReplaceState /\ UNCHANGED <<disk, notices>> /\ ~Exhausted
        /\ unannounced' = unannounced \ examined
        /\ epoch # job.epoch => UNCHANGED <<full, hints>> /\ ready' = FALSE
    BY <1>2, Zenon DEF RepairVerify, PublishPrepared, checkout
  <2>2. epoch # job.epoch => full' = full /\ hints' = hints /\ ready' = FALSE
    BY <2>1, Zenon
  <2>3. Ahead(p) => Owes(p)'
    BY <2>2, Zenon DEF Ahead, Owes
  <2>4. epoch # job.epoch => ~ready'
    BY <2>2, Zenon
  <2> QED
    BY <2>1, <2>3, <2>4, OwedReplace, Zenon
<1>3. CASE TearRefresh
  <2>1. /\ PassRead /\ ReplaceState /\ UNCHANGED <<disk, notices>> /\ ~Exhausted
        /\ unannounced' = unannounced /\ AbandonRefresh /\ ~job.verify
    BY <1>3, Zenon DEF TearRefresh, Torn, AbandonRefresh, checkout
  <2>2. stage # "idle"
    BY <2>1, SMT DEF PassRead
  <2>3. Ahead(p) => Owes(p)'
    BY <2>1, <2>2, RefreshGivesBack, Zenon DEF Ahead
  <2>4. ~ready'
    BY <1>0, <2>1, <2>2, Zenon DEF AbandonRefresh, PutBack
  <2> QED
    BY <2>1, <2>3, <2>4, OwedReplace, Zenon
<1>4. CASE TearVerify
  <2>1. /\ PassRead /\ ReplaceState /\ UNCHANGED <<disk, notices>> /\ ~Exhausted
        /\ unannounced' = unannounced /\ AbandonVerify /\ ready' = FALSE
    BY <1>4, Zenon DEF TearVerify, Torn, AbandonVerify, checkout
  <2>2. Ahead(p) => Owes(p)'
    BY <2>1, VerifyGivesBack, Zenon DEF Ahead
  <2> QED
    BY <2>1, <2>2, OwedReplace, Zenon
<1>5. CASE RejectRefresh \/ FailRefresh
  <2>1. /\ AbandonRefresh /\ ~job.verify /\ UNCHANGED state /\ epoch' = epoch
        /\ UNCHANGED <<disk, notices, unannounced>>
    BY <1>5, Zenon DEF RejectRefresh, FailRefresh, AbandonRefresh, checkout
  <2>2. stage # "idle"
    BY <1>5, SMT DEF RejectRefresh, FailRefresh, PassRead, LostFile, Fault
  <2> QED
    BY <2>1, <2>2, OwedAbandon, Zenon
<1>6. CASE \/ RejectVerify
           \/ FailVerify /\ AbandonVerify /\ epoch' = EpochAfter(1) /\ UNCHANGED state
  <2>1. /\ AbandonVerify /\ job.verify /\ UNCHANGED state /\ epoch' = EpochAfter(1)
        /\ UNCHANGED <<disk, notices, unannounced>>
    BY <1>6, Zenon DEF RejectVerify, FailVerify, AbandonVerify, checkout
  <2>2. stage # "idle"
    BY <1>6, SMT DEF RejectVerify, FailVerify, PassRead, GateInv, IdleJob, Running
  <2> QED
    BY <2>1, <2>2, OwedAbandon, Zenon
<1>7. CASE /\ job.verify /\ UNCHANGED <<disk, notices, unannounced>>
           /\ UNCHANGED control /\ UNCHANGED state
  <2>1. (SoftQuiet(p)' => SoftQuiet(p)) /\ (Quiet(p)' => Quiet(p))
    BY <1>7, Zenon DEF SoftQuiet, Quiet
  <2>2. (ToBeRead(p) \/ Exhausted => ToBeRead(p)' \/ Exhausted') /\ ready' = ready
    BY <1>7, Zenon DEF control, state, ToBeRead, Exhausted, VersionOf
  <2> QED
    BY <1>7, <2>1, <2>2, OwedCarry, Zenon
<1>8. CASE FinishVerify
  BY <1>8, OwedFinish
<1>9. CASE FailVerify
  <2>1. CASE AbandonVerify /\ epoch' = EpochAfter(1) /\ UNCHANGED state
    BY <1>6, <1>9, <2>1
  <2>2. CASE UNCHANGED <<checkout, control, state, unannounced>> /\ job.verify
    <3>1. UNCHANGED <<disk, notices, unannounced>> /\ UNCHANGED control /\ UNCHANGED state
      BY <2>2, Zenon DEF checkout
    <3> QED
      BY <1>7, <2>2, <3>1
  <2> QED
    BY <1>9, <2>1, <2>2, Zenon DEF FailVerify
<1> QED
  BY <1>1, <1>2, <1>3, <1>4, <1>5, <1>6, <1>8, <1>9, Zenon

LEMMA OwedStep ==
  ASSUME SafetyInv, KeptInv, NEW p \in Paths, VersionAt(p), UnreadAt(p), FilterAt(p),
         ReadAt(p), ExaminedAt(p), OwedAt(p), ~VersionsRecur, [Next]_vars
  PROVE  OwedAt(p)'
<1> USE DEF SafetyInv
<1>1. CASE /\ UNCHANGED <<disk, notices, unannounced>> /\ UNCHANGED state
           /\ ToBeRead(p) \/ Exhausted => ToBeRead(p)' \/ Exhausted'
           /\ ready' => ready
  <2>1. (SoftQuiet(p)' => SoftQuiet(p)) /\ (Quiet(p)' => Quiet(p))
    BY <1>1, Zenon DEF SoftQuiet, Quiet
  <2> QED
    BY <1>1, <2>1, OwedCarry, Zenon
<1>2. ASSUME UNCHANGED <<disk, notices, unannounced>>, UNCHANGED state,
             UNCHANGED <<full, hints, epoch, job>>, stage' = stage \/ stage' # "idle",
             ready' => ready
      PROVE  OwedAt(p)'
  <2>1. ToBeRead(p) \/ Exhausted => ToBeRead(p)' \/ Exhausted'
    BY <1>2, Zenon DEF state, ToBeRead, Exhausted, VersionOf
  <2> QED
    BY <1>1, <1>2, <2>1
<1>3. CASE CheckoutNext
  BY <1>3, OwedCheckout
<1>4. ASSUME NEW n \in notices, DeliverNotice(n) PROVE OwedAt(p)'
  BY <1>4, OwedDeliver
<1>5. CASE RequestRepair \/ \E q \in Paths : QueryMissesFile(q)
  <2>1. /\ Closes /\ UNCHANGED <<disk, notices, unannounced>> /\ UNCHANGED state
        /\ UNCHANGED <<stage, job>>
    BY <1>5, RequestEffect, Zenon DEF checkout, pass, observers
  <2>2. /\ Exhausted => Exhausted'
        /\ (Owes(p) => Owes(p)') /\ ready' = FALSE
    BY <2>1, ClosesPass, Zenon DEF Closes
  <2>3. ToBeRead(p) \/ Exhausted => ToBeRead(p)' \/ Exhausted'
    BY <2>1, <2>2, Zenon DEF state, ToBeRead, Owes, VersionOf
  <2> QED
    BY <1>1, <2>1, <2>2, <2>3
<1>6. ASSUME NEW reread \in BOOLEAN, BeginRefresh(reread) PROVE OwedAt(p)'
  <2>1. /\ UNCHANGED <<disk, notices, unannounced>> /\ UNCHANGED state
        /\ stage = "idle" /\ stage' = "walk" /\ ready' = FALSE /\ ~Exhausted
        /\ job' = [verify |-> FALSE, reread |-> reread,
                   full |-> reread \/ full \/ (~tree /\ hints = {}),
                   hints |-> hints, epoch |-> epoch + 1]
    BY <1>6, Zenon DEF BeginRefresh, StartPass, checkout
  <2>2. /\ job'.verify = FALSE /\ job'.hints = hints
        /\ job'.full = (reread \/ full \/ (~tree /\ hints = {}))
    BY <2>1, Zenon
  <2>3. ToBeRead(p) => ToBeRead(p)'
    BY <2>1, <2>2, Zenon DEF state, ToBeRead, VersionOf
  <2> QED
    BY <1>1, <2>1, <2>3, Zenon
<1>7. ASSUME NEW reread \in BOOLEAN, BeginVerify(reread) PROVE OwedAt(p)'
  <2>1. /\ UNCHANGED <<disk, notices, unannounced>> /\ UNCHANGED state /\ stage = "idle"
        /\ UNCHANGED control
    BY <1>7, Zenon DEF BeginVerify, checkout
  <2>2. (ToBeRead(p) \/ Exhausted => ToBeRead(p)' \/ Exhausted') /\ ready' = ready
    BY <2>1, Zenon DEF control, state, ToBeRead, Exhausted, VersionOf
  <2> QED
    BY <1>1, <2>1, <2>2
<1>8. CASE PlanReads \/ \E q \in Paths : WalkFile(q) \/ ReadFile(q)
  <2>1. /\ UNCHANGED <<disk, notices, unannounced, full, hints, epoch, job, ready>>
        /\ UNCHANGED state /\ stage' # "idle"
    BY <1>8, Zenon DEF PlanReads, WalkFile, ReadFile, checkout, control, observers
  <2> QED
    BY <1>2, <2>1
<1>9. CASE BootstrapBase \/ Restart
  <2>1. full' = TRUE /\ ready' = FALSE
    BY <1>9, Zenon DEF BootstrapBase, Restart
  <2> QED
    BY <2>1, Zenon DEF OwedAt, ToBeRead
<1>10. CASE UNCHANGED vars \/ SaveCheckpoint \/ RefreshExhausted
  <2>1. /\ UNCHANGED <<disk, notices, unannounced, full, hints, epoch, job, stage>>
        /\ UNCHANGED state /\ (ready' = ready \/ ready' = FALSE)
    BY <1>10, Zenon DEF vars, SaveCheckpoint, RefreshExhausted, checkout, control, pass, observers
  <2> QED
    BY <1>2, <2>1
<1>11. CASE PassNext
  BY <1>8, <1>11, OwedEnd, Zenon DEF PassNext
<1> QED
  BY <1>3, <1>4, <1>5, <1>6, <1>7, <1>9, <1>10, <1>11, Zenon
  DEF Next, Refresh, RequestRefresh

-----------------------------------------------------------------------------
(* The theorems. *)

LEMMA FreshInit == Init => FreshInv
  BY TypeInit, GateInit, OverlayInit, PreparedInit, KeptInit, VersionInit, UnreadInit,
     FilterInit, WalkInit, ReadInit, ExaminedInit, OwedInit, Zenon DEF FreshInv, SafetyInv

LEMMA FreshStep == ~VersionsRecur /\ FreshInv /\ [Next]_vars => FreshInv'
<1> SUFFICES ASSUME ~VersionsRecur, FreshInv, [Next]_vars PROVE FreshInv'
  OBVIOUS
<1>1. SafetyInv /\ TypeOK /\ GateInv /\ KeptInv
  BY DEF FreshInv, SafetyInv
<1>2. SafetyInv' /\ KeptInv'
  BY <1>1, SafetyStep, KeptStep
<1>3. ASSUME NEW p \in Paths
      PROVE  /\ VersionAt(p)' /\ UnreadAt(p)' /\ FilterAt(p)'
             /\ WalkAt(p)' /\ ReadAt(p)' /\ ExaminedAt(p)'
             /\ OwedAt(p)'
  <2>1. /\ VersionAt(p) /\ UnreadAt(p) /\ FilterAt(p)
        /\ WalkAt(p) /\ ReadAt(p) /\ ExaminedAt(p)
        /\ OwedAt(p)
    BY DEF FreshInv
  <2> QED
    BY <1>1, <2>1, VersionStep, UnreadStep, FilterStep, WalkStep, ReadStep, ExaminedStep,
       OwedStep, Zenon
<1> QED
  BY <1>2, <1>3 DEF FreshInv

\* The strengthening is an invariant of every view whose FileVersion has a
\* change time.
THEOREM FreshInvariant == ASSUME ~VersionsRecur PROVE Spec => []FreshInv
<1>1. FreshInv /\ [Next]_vars => FreshInv'
  BY FreshStep
<1> QED
  BY <1>1, FreshInit, PTL DEF Spec

\* Readiness is honest: whatever raced the pass that published, a view that is
\* ready indexes the checkout's content wherever the news of it has arrived.
THEOREM ReadyFresh == ASSUME ~VersionsRecur PROVE Spec => []ReadyIsFresh
<1>1. FreshInv => ReadyIsFresh
  BY DEF FreshInv, OwedAt, ReadyIsFresh, Current
<1> QED
  BY <1>1, FreshInvariant, PTL

\* A delivered change is never forgotten: the gate is closed and the change is
\* queued, or a running pass must read it, or a version gives it away.
THEOREM UnreflectedOwed == ASSUME ~VersionsRecur PROVE Spec => []UnreflectedIsOwed
<1>1. FreshInv => UnreflectedIsOwed
  <2> SUFFICES ASSUME FreshInv, NEW p \in Paths, Quiet(p), ~Reflected(p)
               PROVE  ~ready /\ (ToBeRead(p) \/ Exhausted)
    BY DEF UnreflectedIsOwed
  <2>1. OwedAt(p) /\ TypeOK
    BY DEF FreshInv, SafetyInv
  <2>2. SoftQuiet(p)
    BY <2>1, Zenon DEF Quiet, SoftQuiet, TypeOK, DataOK, Notice
  <2> QED
    BY <2>1, <2>2 DEF OwedAt
<1> QED
  BY <1>1, FreshInvariant, PTL
=============================================================================
